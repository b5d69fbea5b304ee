--------------------------------- MODULE MCChat ---------------------------------
(* Constants of the TLC instances of Chat. *)
EXTENDS Chat, TLC

CONSTANTS a, b, w, phone, tablet, k1, k2, k3, r1, r2, s1

\* a and b chat.  In the other events b is the lounge or the author, a its
\* client, and either of them acts.
Events1 == {e \in Event : e.by \in {a, b} /\ e.owner = b /\ e.client = a}

Hi    == [content |-> "text", text |-> "hi"]
Image == [content |-> "image", text |-> Blank]

Scene(does, n, m, drafts) ==
  [does |-> does, notices |-> n, messages |-> m, drafts |-> drafts]

Scenes1 == {
  Scene({"announce", "inbox", "fail"}, 1, 0, {}),  \* the other components
  Scene({"announce", "register"}, 1, 0, {}),       \* device tokens
  Scene({"send", "read"}, 0, 2, {Hi}),
  Scene({"send", "room"}, 1, 1, {Hi}),
  Scene({"open", "close", "send", "read"}, 0, 1, {Hi}),
  Scene({"open", "close", "follow"}, 0, 0, {}),
  Scene({"send", "follow"}, 0, 1, {Hi}),
  Scene({"send", "room"}, 0, 2, {Hi}),
  Scene({"send", "room", "fail", "crash"}, 0, 1, {Hi}),
  Scene({"send", "edit", "recall", "hide"}, 0, 1, {Hi, Image}),
  Scene({"send", "react"}, 0, 1, {Hi}),
  Scene({"room", "typing"}, 0, 0, {})}

Interchangeable == Permutations(Procs)
=============================================================================
