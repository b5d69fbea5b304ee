---------------------------- MODULE CatalogRequests ----------------------------
(***************************************************************************)
(* What the catalogues of services, of product categories and of extras    *)
(* have in common: every request looks for a name, a row or a use first    *)
(* and writes later, one database call per step, and only the unique       *)
(* indexes are checked together with the write.                            *)
(*                                                                         *)
(* The rows of all collections draw their ids from one counter.            *)
(***************************************************************************)
EXTENDS Naturals, FiniteSetsExt, Sequences

CONSTANTS
  Ops,          \* slots for the requests in flight
  None,         \* what was not sent
  Null,         \* an explicit null, which the optional fields of a body may be
  Lounges,
  Users,        \* who suggests product categories
  Titles,       \* names of categories
  Folded,       \* a title in lower case
  Names,        \* names of services and extras, in lower case as they are stored
  Form,         \* a name normalised: no special characters, no "men", "kids", ...
  Mentions,     \* the normalised names that occur as a word in a name
  Squeezed,     \* the name of an extra without spaces and signs
  Base,         \* a title as the beginning of a slug
  Scenes        \* the requests made, the names and titles in them, the rows there are at
                \* first, how many ids these have and how many may be given

Statuses == {"pending", "approved", "rejected", "implemented"}

ASSUME CatalogAssumption ==
  /\ None \notin Lounges \cup Users \cup Titles \cup Names \cup Statuses
  /\ None \notin BOOLEAN /\ None \notin {0, 1} /\ None # "new"
  /\ Null \notin BOOLEAN /\ Null \notin {0, 1} /\ Null # None
  /\ \A n \in Names : Squeezed[n] \in Names => Squeezed[Squeezed[n]] = Squeezed[n]
  /\ \A s \in Scenes :
       s.given \in Nat /\ s.ids \in Nat /\ s.names \subseteq Names /\ s.titles \subseteq Titles

Kinds ==
  {"category", "retitle", "uncategory", "service", "services", "rename",
   "offer", "offers", "toggle", "suggest", "edit", "moderate",
   "product category", "retitle product category", "drop product category",
   "product", "move product", "suggest category", "retitle suggestion", "moderate category",
   "extra", "update extra", "adopt", "change adopted"}

Steps ==
  {"idle", "title", "exact", "similar", "squeezed", "slug", "taken", "pending", "category",
   "existing", "offered", "insert", "insert offer", "product", "store", "write", "drop",
   "mark", "tell", "answer"}

Op ==
  [kind : Kinds \cup {"none"}, at : Steps,
   id : Nat,                     \* the row the request is about
   items : Seq(Names) \cup Seq(Nat) \cup Seq(Titles), n : Nat,
   category : Nat, lounge : Lounges \cup Users \cup {None},   \* on whose behalf
   status : Statuses \cup {"new", None},
   value : BOOLEAN \cup {None, Null}, cost : {0, 1, None, Null},
   made : Nat,                   \* the row an implemented suggestion became
   late : SUBSET Nat,            \* users of a category that came after it was counted
   blind : BOOLEAN]              \* the count failed

NoOp ==
  [kind |-> "none", at |-> "idle", id |-> 0, items |-> <<>>, n |-> 1, category |-> 0,
   lounge |-> None, status |-> None, value |-> None, cost |-> None, made |-> 0,
   late |-> {}, blind |-> FALSE]

VARIABLES
  scene,    \* the scene that is played, chosen at the start
  ids,      \* ids given so far
  op        \* per slot, the request in flight

requestVars == <<scene, ids, op>>

Set(o, p) == op' = [op EXCEPT ![o] = p]

Finish(o) == Set(o, NoOp)

Item(p) == p.items[p.n]

\* The kinds of request that insert rows, one unless they say more.
Inserting(p) ==
  CASE p.kind \in {"category", "service", "offer", "suggest", "product category",
                   "product", "suggest category", "extra", "adopt"} -> 1
    [] p.kind \in {"services", "offers", "moderate"} -> 2
    [] p.kind = "moderate category" -> 1
    [] OTHER -> 0

InFlight == MapThenSumSet(LAMBDA o : Inserting(op[o]), Ops)

Begin(o, kind, p) ==
  /\ op[o].at = "idle" /\ kind \in scene.does
  /\ ids + InFlight + Inserting([p EXCEPT !.kind = kind]) <= scene.ids   \* bound
  /\ Set(o, [p EXCEPT !.kind = kind])

WithId(rows, i) == {x \in rows : x.id = i}

\* x in place of the row of its id.
Put(rows, x) == (rows \ WithId(rows, x.id)) \cup {x}

\* p goes on, and i has joined category c behind the count of those deleting it.
SetNoting(o, p, c, i) ==
  op' = [q \in Ops |->
           IF q = o THEN p
           ELSE IF op[q].at = "drop" /\ op[q].id = c THEN [op[q] EXCEPT !.late = @ \cup {i}]
           ELSE op[q]]

\* A use of category c is excused when it came behind the count, or the count failed.
Excused(c, i) ==
  \E o \in Ops :
    /\ op[o].at = "drop" /\ op[o].id = c /\ op'[o].at = "idle"
    /\ op[o].blind \/ i \in op[o].late

RequestsTypeOK ==
  /\ scene \in Scenes /\ ids \in Nat
  /\ op \in [Ops -> Op]
=============================================================================
