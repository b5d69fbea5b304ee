-------------------------------- MODULE Extras --------------------------------
(***************************************************************************)
(* ExtrasSystem: administrators keep the extras, lounges adopt them.       *)
(* Costs are 0 or 1, which stands for any cost above 0, or Null.           *)
(***************************************************************************)
EXTENDS CatalogRequests

VARIABLES
  extras, adopted,   \* the collections
  raced              \* extras two requests have updated at the same time

extraVars == <<extras, adopted, raced>>

\* An update validates nothing but its body, and so may store a null.
Extra == [id : Nat, name : Names, free : BOOLEAN \cup {Null}, cost : {0, 1, Null}]
Adopted == [id : Nat, lounge : Lounges, extra : Nat, cost : {0, 1, Null}, active : BOOLEAN]

\* Free exactly when it costs nothing; a null is neither true nor a cost.
Fair(free, cost) == (free = TRUE) <=> (cost # 1)

\* A scene begins with rows as these collections store them, ids given so far.
ASSUME ExtrasAssumption ==
  \A s \in Scenes :
    /\ s.extras \subseteq Extra /\ s.adopted \subseteq Adopted
    /\ \A x, y \in s.extras : x.name = y.name \/ x.id = y.id => x = y
    /\ \A a, b \in s.adopted : <<a.lounge, a.extra>> = <<b.lounge, b.extra>> => a = b
    /\ \A x \in s.extras : x.id \in 1..s.given /\ Fair(x.free, x.cost)

ExtrasInit == extras = scene.extras /\ adopted = scene.adopted /\ raced = {}

-----------------------------------------------------------------------------
\* validateFreeCost
Priced(free, cost) == IF free = TRUE THEN cost # 1 ELSE cost = 1

\* The unique indexes.
InsertableExtra(x)   == \A e \in extras \ WithId(extras, x.id) : e.name # x.name
InsertableAdopted(x) == \A a \in adopted : <<a.lounge, a.extra>> # <<x.lounge, x.extra>>

CreateExtra(o, name, free, cost) ==
  /\ Priced(free, cost)
  /\ Begin(o, "extra", [NoOp EXCEPT !.at = "exact", !.items = <<name>>,
                          !.value = free, !.cost = IF free THEN 0 ELSE cost])
  /\ UNCHANGED <<scene, ids, extraVars>>

\* What is not sent is taken from the extra that was read.
Merged(sent, stored) == IF sent = None THEN stored ELSE sent

\* Mutant of MergedFree: an extra is validated as a paid one unless "free" is sent.
MergedFreeSent(sent, stored) == sent = TRUE

\* update validates the value "free" will have.
MergedFree(sent, stored) == Merged(sent, stored)

\* A free extra costs nothing, and one that costs nothing is free.  A null counts as
\* sent: it is neither a price nor "free", and it is stored.
UpdateExtra(o, x, name, free, cost) ==
  LET others == {q \in Ops : op[q].kind = "update extra" /\ op[q].id = x.id}
  IN
  /\ <<name, free, cost>> # <<None, None, None>>
  /\ Priced(MergedFree(free, x.free), Merged(cost, x.cost))
  /\ Begin(o, "update extra", [NoOp EXCEPT
       !.at = IF name = None THEN "write" ELSE "exact", !.id = x.id,
       !.items = IF name = None THEN <<>> ELSE <<name>>,
       !.value = IF free # TRUE /\ cost = 0 THEN TRUE ELSE free,
       !.cost = IF free = TRUE THEN 0 ELSE cost])
  /\ raced' = IF others # {} THEN raced \cup {x.id} ELSE raced
  /\ UNCHANGED <<scene, ids, extras, adopted>>

FindExtra(o) ==
  LET p == op[o] IN
  /\ p.at = "exact" /\ p.kind \in {"extra", "update extra"}
  /\ IF \E e \in extras : e.name = Item(p) /\ (p.kind = "extra" \/ e.id # p.id)
     THEN Finish(o)
     ELSE Set(o, [p EXCEPT !.at = IF p.kind = "extra" THEN "squeezed" ELSE "write"])
  /\ UNCHANGED <<scene, ids, extraVars>>

\* create looks for an extra stored under the squeezed name.
FindSqueezed(o) ==
  LET p == op[o] IN
  /\ p.kind = "extra" /\ p.at = "squeezed"
  /\ IF \E e \in extras : e.name = Squeezed[Item(p)]
     THEN Finish(o)
     ELSE Set(o, [p EXCEPT !.at = "insert"])
  /\ UNCHANGED <<scene, ids, extraVars>>

InsertExtra(o) ==
  LET p == op[o]
      x == [id |-> ids + 1, name |-> Item(p), free |-> p.value, cost |-> p.cost]
  IN
  /\ p.kind = "extra" /\ p.at = "insert"
  /\ IF InsertableExtra(x)
     THEN extras' = extras \cup {x} /\ ids' = ids + 1
     ELSE UNCHANGED <<extras, ids>>
  /\ Finish(o)
  /\ UNCHANGED <<scene, adopted, raced>>

\* Only what was sent, or follows from it, is written.
WriteExtra(o) ==
  LET p == op[o]
      Changed(x) == [x EXCEPT !.name = IF p.items = <<>> THEN @ ELSE Item(p),
                              !.free = Merged(p.value, @), !.cost = Merged(p.cost, @)]
  IN
  /\ p.kind = "update extra" /\ p.at = "write"
  /\ extras' = {IF x.id = p.id /\ InsertableExtra(Changed(x)) THEN Changed(x) ELSE x : x \in extras}
  /\ Finish(o)
  /\ UNCHANGED <<scene, ids, adopted, raced>>

\* delete: the adoptions of the extra stay.
DeleteExtra(x) ==
  /\ "drop extra" \in scene.does
  /\ extras' = extras \ {x}
  /\ UNCHANGED <<requestVars, adopted, raced>>

-----------------------------------------------------------------------------
\* adopt: the extra has to exist, active or not.
AdoptExtra(o, l, x, cost) ==
  /\ Begin(o, "adopt", [NoOp EXCEPT !.at = "existing", !.id = x.id, !.lounge = l, !.cost = cost])
  /\ UNCHANGED <<scene, ids, extraVars>>

FindAdopted(o) ==
  LET p == op[o] IN
  /\ p.kind = "adopt" /\ p.at = "existing"
  /\ IF \E a \in adopted : <<a.lounge, a.extra>> = <<p.lounge, p.id>>
     THEN Finish(o)
     ELSE Set(o, [p EXCEPT !.at = "insert"])
  /\ UNCHANGED <<scene, ids, extraVars>>

InsertAdopted(o) ==
  LET p == op[o]
      x == [id |-> ids + 1, lounge |-> p.lounge, extra |-> p.id, cost |-> p.cost, active |-> TRUE]
  IN
  /\ p.kind = "adopt" /\ p.at = "insert"
  /\ IF InsertableAdopted(x)
     THEN adopted' = adopted \cup {x} /\ ids' = ids + 1
     ELSE UNCHANGED <<adopted, ids>>
  /\ Finish(o)
  /\ UNCHANGED <<scene, extras, raced>>

\* update and toggle (no cost) of an adopted extra read it first, toggle for what it
\* writes.
ChangeAdopted(o, a, cost) ==
  /\ Begin(o, "change adopted", [NoOp EXCEPT !.at = "write", !.id = a.id, !.cost = cost,
       !.value = IF cost = None THEN ~a.active ELSE None])
  /\ UNCHANGED <<scene, ids, extraVars>>

WriteAdopted(o) ==
  LET p == op[o]
      Changed(a) == [a EXCEPT !.active = Merged(p.value, @), !.cost = Merged(p.cost, @)]
  IN
  /\ p.kind = "change adopted" /\ p.at = "write"
  /\ adopted' = {IF a.id = p.id THEN Changed(a) ELSE a : a \in adopted}
  /\ Finish(o)
  /\ UNCHANGED <<scene, ids, extras, raced>>

\* remove
RemoveAdopted(a) ==
  /\ "remove adopted" \in scene.does
  /\ adopted' = adopted \ {a}
  /\ UNCHANGED <<requestVars, extras, raced>>

-----------------------------------------------------------------------------
NewExtraRequest(o) ==
  \/ \E n \in scene.names, f \in BOOLEAN, c \in {0, 1, Null} : CreateExtra(o, n, f, c)
  \/ \E x \in extras, n \in scene.names \cup {None}, f \in BOOLEAN \cup {None, Null},
        c \in {0, 1, None, Null} : UpdateExtra(o, x, n, f, c)
  \/ \E l \in Lounges, x \in extras, c \in {1, Null} : AdoptExtra(o, l, x, c)
  \/ \E a \in adopted, c \in {1, Null, None} : ChangeAdopted(o, a, c)

ExtraStep(o) ==
  \/ FindExtra(o) \/ FindSqueezed(o) \/ InsertExtra(o) \/ WriteExtra(o)
  \/ FindAdopted(o) \/ InsertAdopted(o) \/ WriteAdopted(o)

ExtrasNext ==
  \/ \E o \in Ops : NewExtraRequest(o) \/ ExtraStep(o)
  \/ \E x \in extras : DeleteExtra(x)
  \/ \E a \in adopted : RemoveAdopted(a)

-----------------------------------------------------------------------------
ExtrasTypeOK ==
  /\ extras \subseteq Extra /\ adopted \subseteq Adopted /\ raced \subseteq Nat
  /\ \A x, y \in extras : x.name = y.name => x = y
  /\ \A a, b \in adopted : <<a.lounge, a.extra>> = <<b.lounge, b.extra>> => a = b

\* An extra is free exactly when it costs nothing, unless two requests that each
\* checked what the other was about to change have updated it at the same time.
FreeCostsNothing == \A x \in extras : Fair(x.free, x.cost) \/ x.id \in raced
=============================================================================
