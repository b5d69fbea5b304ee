------------------------------ MODULE MCAccounts ------------------------------
(* Constants of the TLC instances of Accounts. *)
EXTENDS Accounts, TLC

CONSTANTS d1, p1, p2, e1, e2, E1, f1, g1, r1, r2, o1, o2

\* E1 is another spelling of e1, the one Google has.
Lower1 == [e \in Emails |-> IF e = E1 THEN e1 ELSE e]
GoogleEmail1 == [g \in Googles |-> E1]

Lounge == [Empty(e2, "lounge") EXCEPT !.id = 1]
Client == [Empty(e1, "client") EXCEPT !.id = 1, !.verified = FALSE]
Agent  == [Empty(e1, "agent") EXCEPT !.id = 2, !.parent = 1]

Quiet == [does |-> {}, sessions |-> 0, failures |-> 0, seconds |-> 1, links |-> 0,
          changes |-> 0, ops |-> {}, users |-> {}, ids |-> 0, serials |-> 0,
          emails |-> Emails, types |-> {"client"}]

\* Requests about one account's sessions.
Of(does, s, f, t, c) ==
  [Quiet EXCEPT !.does = does, !.sessions = s, !.failures = f,
                !.seconds = t, !.changes = c, !.links = 2]

\* Requests about accounts.
On(ops, known, ids_, serials) ==
  [Quiet EXCEPT !.ops = ops, !.users = known, !.ids = ids_, !.serials = serials]

Scenes1 == {
  Of({"login", "logout"}, 3, 2, 1, 0),
  Of({"login", "refresh", "expire"}, 3, 0, 1, 0),
  Of({"oauth", "logoutAll", "block", "fail", "refresh"}, 3, 0, 1, 0),
  Of({"login", "change", "agent"}, 2, 1, 3, 2),
  Of({"login", "clear"}, 2, 1, 2, 1),
  Of({"forgot", "reset", "verify", "address", "expire", "fail"}, 0, 0, 2, 2),
  [On({"signup", "resend", "verify", "expire"}, {}, 1, 3) EXCEPT !.emails = {e1}],
  On({"signup", "verify"}, {}, 2, 2),
  [On({"signup", "verify", "create", "fail"}, {}, 2, 2) EXCEPT !.emails = {e1}],
  [On({"create", "googleLogin", "googleSignup", "delete"}, {Lounge}, 3, 0) EXCEPT !.types = {"client", "lounge"}],
  On({"agent", "self", "update", "profile"}, {Lounge, Agent}, 3, 0),
  On({"code", "image", "expire", "fail"}, {Client}, 1, 3)}

Interchangeable == Permutations(Requests) \cup Permutations(Ops)
=============================================================================
