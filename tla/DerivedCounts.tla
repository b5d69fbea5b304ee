----------------------------- MODULE DerivedCounts -----------------------------
(***************************************************************************)
(* Numbers kept beside the rows they summarise: followers and follows of a *)
(* user, likes and ratings of lounges and agents, ratings of products and  *)
(* of their store, and how many wish for a product.                        *)
(*                                                                         *)
(* All but the last are recounted by every request that changes a row: the *)
(* request takes the numbers in one call and writes them in another, and   *)
(* nothing keeps other requests from doing the same in between.  The       *)
(* wishes are counted with $inc.  Nothing runs in a transaction, and the   *)
(* process may end after any call.                                         *)
(*                                                                         *)
(* The users here are lounges and agents, whom everybody may follow, like  *)
(* and rate; the products are those of one store.  Texts, images, purchase *)
(* verification and notifications are left out.                            *)
(***************************************************************************)
EXTENDS Integers, FiniteSets, Functions

CONSTANTS
  Users, Products,
  Store,     \* whom the products belong to
  Scores,    \* bound: the ratings given
  Procs,     \* bound: requests in flight at once
  Scenes,    \* bound: the sets of kinds of request that occur together
  Nothing    \* no row

Kinds == {"follow", "unfollow", "like", "rate", "unrate", "review", "editReview",
          "dropReview", "hideReview", "wish", "unwish"}

ASSUME CountsAssumption ==
  /\ IsFiniteSet(Users) /\ IsFiniteSet(Products)
  /\ Scores \subseteq Nat \ {0}
  /\ Scenes \subseteq SUBSET Kinds

\* Every collection has a unique index on the user who writes and what it is
\* about: a row is named by the two.
RowIds ==
  [coll : {"follows", "likes", "ratings"}, who : Users, of : Users] \cup
  [coll : {"reviews", "wishes"}, who : Users, of : Products]

Absent == [here |-> FALSE, score |-> 0, hidden |-> FALSE]
Row    == [here : {TRUE}, score : Scores \cup {0}, hidden : BOOLEAN] \cup {Absent}
Fresh(score) == [here |-> TRUE, score |-> score, hidden |-> FALSE]

\* A recounted number: a name and the document it is a field of.
Numbers ==
  [name : {"following", "followers", "likeCount", "rating"}, of : Users] \cup
  [name : {"productRating"}, of : Products] \cup [name : {"storeRating"}, of : {Store}]

\* The numbers a row counts for, which is those its writer recounts.
CountsFor(k) ==
  CASE k.coll = "follows" -> {[name |-> "following", of |-> k.who], [name |-> "followers", of |-> k.of]}
    [] k.coll = "likes"   -> {[name |-> "likeCount", of |-> k.of]}
    [] k.coll = "ratings" -> {[name |-> "rating", of |-> k.of]}
    [] k.coll = "reviews" -> {[name |-> "productRating", of |-> k.of], [name |-> "storeRating", of |-> Store]}
    [] OTHER              -> {}

\* recalculateRatings writes the product before it looks at the store.
Later(k) == IF k.coll = "reviews" THEN {[name |-> "storeRating", of |-> Store]} ELSE {}

VARIABLES
  scene,    \* the kinds of request that occur
  rows,     \* the five collections
  shown,    \* the recounted numbers, as users see them
  wished,   \* wishlistCount of every product
  op,       \* per slot, the request in flight
  disturbed, \* history: numbers whose last requests overlapped or broke off
  lost      \* history: products for which a change of wishlistCount was lost

vars == <<scene, rows, shown, wished, op, disturbed, lost>>

\* How many, and their average score in tenths, rounded as Math.round does.
Summary(score) ==
  LET n == Cardinality(DOMAIN score) IN
  [n |-> n, mean |-> IF n = 0 THEN 0 ELSE (20 * SumFunction(score) + n) \div (2 * n)]

Empty == [n |-> 0, mean |-> 0]

Counted(R, f) == {k \in RowIds : R[k].here /\ ~R[k].hidden /\ f \in CountsFor(k)}
Truth(R, f)   == Summary([k \in Counted(R, f) |-> R[k].score])

Steps == {"idle", "create", "remove", "save", "count", "write", "inc", "dec"}
Operation ==
  [kind : Kinds \cup {"none"}, at : Steps, id : RowIds \cup {Nothing},
   found : BOOLEAN,           \* the row it has looked up is still that row
   score : Scores \cup {0},
   now : SUBSET Numbers,      \* the numbers recounted together
   left : SUBSET Numbers,     \* those of them still to be counted, or written
   later : SUBSET Numbers,    \* to be recounted after those are written
   taken : [Numbers -> [n : Nat, mean : Nat]],
   alone : SUBSET Numbers]    \* history: numbers no other request has touched since it began

Idle == [kind |-> "none", at |-> "idle", id |-> Nothing, found |-> FALSE, score |-> 0,
         now |-> {}, left |-> {}, later |-> {}, taken |-> [f \in Numbers |-> Empty], alone |-> {}]

At(r, s)   == op[r].at = s
Busy(o)    == o.at # "idle"
Touches(o) == IF Busy(o) THEN CountsFor(o.id) ELSE {}
Go(r, o)   == op' = [op EXCEPT ![r] = o]
Done(r)    == Go(r, Idle)

Init ==
  /\ scene \in Scenes
  /\ rows = [k \in RowIds |-> Absent]
  /\ shown = [f \in Numbers |-> Empty]
  /\ wished = [p \in Products |-> 0]
  /\ op = [r \in Procs |-> Idle]
  /\ disturbed = {} /\ lost = {}

-----------------------------------------------------------------------------
\* Beginning and ending of requests.

\* A request begins: whoever touches the same numbers is no longer alone.
Begin(r, o) ==
  LET others == UNION {Touches(op[s]) : s \in Procs \ {r}} IN
  /\ op' = [s \in Procs |->
       IF s = r THEN [o EXCEPT !.alone = CountsFor(o.id) \ others]
       ELSE [op[s] EXCEPT !.alone = @ \ CountsFor(o.id)]]
  /\ disturbed' = disturbed \cup (CountsFor(o.id) \cap others)

New(kind, k) == [Idle EXCEPT !.kind = kind, !.id = k]

\* The same, with its next call and what it has looked up.
Opening(kind, k, at, found, score) ==
  [New(kind, k) EXCEPT !.at = at, !.found = found, !.score = score]

\* A recount of these numbers begins, others follow later.
Stage(o, now, later) == [o EXCEPT !.at = "count", !.now = now, !.left = now, !.later = later]

Recount(o) == Stage([o EXCEPT !.found = FALSE, !.score = 0], CountsFor(o.id) \ Later(o.id), Later(o.id))

\* Bound: a product whose number of wishes has gone astray gets no more requests.
Free(r, kind, k, coll) ==
  /\ At(r, "idle") /\ kind \in scene
  /\ k.coll = coll /\ k.who # k.of /\ k.of \notin lost

\* The requests whose first call looks the row up; those that do nothing then
\* (already following, already reviewed, already wished for, no such review) end.
Lookup(r, k, score) ==
  /\ \/ Free(r, "follow", k, "follows") /\ ~rows[k].here
        /\ Begin(r, Opening("follow", k, "create", FALSE, 0))
     \/ Free(r, "like", k, "likes")
        /\ Begin(r, Opening("like", k, IF rows[k].here THEN "remove" ELSE "create", rows[k].here, 0))
     \/ Free(r, "review", k, "reviews") /\ ~rows[k].here
        /\ Begin(r, Opening("review", k, "create", FALSE, score))
     \/ Free(r, "editReview", k, "reviews") /\ rows[k].here
        /\ Begin(r, Opening("editReview", k, "save", TRUE, IF score = rows[k].score THEN 0 ELSE score))
     \/ Free(r, "dropReview", k, "reviews") /\ rows[k].here
        /\ Begin(r, Opening("dropReview", k, "remove", TRUE, 0))
     \/ Free(r, "hideReview", k, "reviews") /\ rows[k].here
        /\ Begin(r, Opening("hideReview", k, "save", TRUE, 0))
     \/ Free(r, "wish", k, "wishes") /\ ~rows[k].here
        /\ Begin(r, Opening("wish", k, "create", FALSE, 0))
  /\ UNCHANGED <<scene, rows, shown, wished, lost>>

-----------------------------------------------------------------------------
\* The row.

\* upsertRating: one call inserts or overwrites.
Rate(r, k, score) ==
  /\ Free(r, "rate", k, "ratings")
  /\ rows' = [rows EXCEPT ![k] = Fresh(score)]
  /\ Begin(r, Recount(New("rate", k)))
  /\ UNCHANGED <<scene, shown, wished, lost>>

\* Mutant of Withdraw: a wish that is not there is subtracted all the same.
WithdrawBlindly(r, k) ==
  /\ Free(r, "unwish", k, "wishes")
  /\ rows' = [rows EXCEPT ![k] = Absent]
  /\ Begin(r, Opening("unwish", k, "dec", FALSE, 0))
  /\ UNCHANGED <<scene, shown, wished, lost>>

\* unfollow, deleteRating, removeFromWishlist: one call deletes; without a row
\* they end (with an error, or silently).
Withdraw(r, k) ==
  /\ \/ Free(r, "unfollow", k, "follows") \/ Free(r, "unrate", k, "ratings")
     \/ Free(r, "unwish", k, "wishes")
  /\ rows[k].here
  /\ rows' = [rows EXCEPT ![k] = Absent]
  /\ Begin(r, IF k.coll = "wishes" THEN Opening("unwish", k, "dec", FALSE, 0)
              ELSE Recount(New(IF k.coll = "follows" THEN "unfollow" ELSE "unrate", k)))
  /\ UNCHANGED <<scene, shown, wished, lost>>

\* create: the unique index refuses a row that somebody has inserted meanwhile,
\* and the request ends: as a success (follow) or with the error.
CreateRow(r) ==
  /\ At(r, "create")
  /\ LET k == op[r].id IN
     IF rows[k].here THEN Done(r) /\ UNCHANGED rows
     ELSE /\ rows' = [rows EXCEPT ![k] = Fresh(op[r].score)]
          /\ Go(r, IF k.coll = "wishes" THEN [op[r] EXCEPT !.at = "inc"] ELSE Recount(op[r]))
  /\ UNCHANGED <<scene, shown, wished, disturbed, lost>>

\* Whoever has looked up a row that is deleted holds an _id that names nothing.
Forget(o, k) == IF o.id = k THEN [o EXCEPT !.found = FALSE] ELSE o

\* Mutant of RemoveRow: unliking does not recount.
RemoveSilently(r) ==
  /\ At(r, "remove")
  /\ rows' = IF op[r].found THEN [rows EXCEPT ![op[r].id] = Absent] ELSE rows
  /\ op' = [s \in Procs |-> IF s = r THEN Idle ELSE Forget(op[s], op[r].id)]
  /\ UNCHANGED <<scene, shown, wished, disturbed, lost>>

\* deleteOne by _id: it deletes nothing when the row has gone, and the request
\* recounts all the same.
RemoveRow(r) ==
  /\ At(r, "remove")
  /\ rows' = IF op[r].found THEN [rows EXCEPT ![op[r].id] = Absent] ELSE rows
  /\ op' = [s \in Procs |-> IF s = r THEN Recount(op[r])
                            ELSE IF op[r].found THEN Forget(op[s], op[r].id) ELSE op[s]]
  /\ UNCHANGED <<scene, shown, wished, disturbed, lost>>

Revised(o) ==
  IF o.kind = "hideReview" THEN [rows EXCEPT ![o.id].hidden = TRUE]
  ELSE IF o.score # 0 THEN [rows EXCEPT ![o.id].score = o.score] ELSE rows

\* Mutant of SaveReview: a review that has gone is written all the same.
SaveUnseen(r) ==
  /\ At(r, "save")
  /\ rows' = Revised(op[r])
  /\ Go(r, Recount(op[r]))
  /\ UNCHANGED <<scene, shown, wished, disturbed, lost>>

\* save() of a review sends the rating if it differs from the one read, or the
\* status, and throws when the review has gone.
SaveReview(r) ==
  /\ At(r, "save")
  /\ IF op[r].found THEN rows' = Revised(op[r]) /\ Go(r, Recount(op[r]))
                    ELSE Done(r) /\ UNCHANGED rows
  /\ UNCHANGED <<scene, shown, wished, disturbed, lost>>

-----------------------------------------------------------------------------
\* The numbers.

\* countDocuments or aggregate; the calls of one stage run in parallel, and the
\* writes wait for all of them.
Count(r, f) ==
  /\ At(r, "count") /\ f \in op[r].left
  /\ LET left == op[r].left \ {f} IN
     Go(r, [op[r] EXCEPT !.taken[f] = Truth(rows, f),
                         !.left = IF left = {} THEN op[r].now ELSE left,
                         !.at = IF left = {} THEN "write" ELSE "count"])
  /\ UNCHANGED <<scene, rows, shown, wished, disturbed, lost>>

\* findByIdAndUpdate with the numbers taken, in parallel; then the next stage.
Write(r, f) ==
  /\ At(r, "write") /\ f \in op[r].left
  /\ shown' = [shown EXCEPT ![f] = op[r].taken[f]]
  /\ disturbed' = IF f \in op[r].alone THEN disturbed \ {f} ELSE disturbed
  /\ LET left == op[r].left \ {f}
         o    == [op[r] EXCEPT !.left = left, !.taken[f] = Empty] IN
     Go(r, IF left # {} THEN o ELSE IF o.later # {} THEN Stage(o, o.later, {}) ELSE Idle)
  /\ UNCHANGED <<scene, rows, wished, lost>>

\* addToWishlist and removeFromWishlist: $inc, after the row.
CountWish(r) ==
  /\ op[r].at \in {"inc", "dec"}
  /\ wished' = [wished EXCEPT ![op[r].id.of] = @ + (IF At(r, "inc") THEN 1 ELSE -1)]
  /\ Done(r)
  /\ UNCHANGED <<scene, rows, shown, disturbed, lost>>

\* A call throws, or the process ends: the rest of the request does not happen.
Crash(r) ==
  /\ Busy(op[r])
  /\ disturbed' = disturbed \cup Touches(op[r])
  /\ lost' = IF op[r].at \in {"inc", "dec"} THEN lost \cup {op[r].id.of} ELSE lost
  /\ Done(r)
  /\ UNCHANGED <<scene, rows, shown, wished>>

Step(r) ==
  \/ CreateRow(r) \/ RemoveRow(r) \/ SaveReview(r) \/ CountWish(r)
  \/ \E f \in Numbers : Count(r, f) \/ Write(r, f)

Request(r) ==
  \E k \in RowIds :
    \/ Withdraw(r, k)
    \/ \E score \in Scores : Lookup(r, k, score) \/ Rate(r, k, score)

AtRest == (\A r \in Procs : op[r] = Idle) /\ UNCHANGED vars

Next == (\E r \in Procs : Request(r) \/ Step(r) \/ Crash(r)) \/ AtRest

Spec == Init /\ [][Next]_vars

-----------------------------------------------------------------------------
\* Values stay in their types: a row is complete or not there at all, and a
\* recounted number is a natural.  (wishlistCount may fall below zero for a
\* moment, when the $inc of a removal comes before that of the addition.)
TypeOK ==
  /\ scene \in Scenes
  /\ rows \in [RowIds -> Row]
  /\ shown \in [Numbers -> [n : Nat, mean : Nat]]
  /\ wished \in [Products -> Int]
  /\ op \in [Procs -> Operation]
  /\ disturbed \in SUBSET Numbers /\ lost \in SUBSET Products

\* A request that nobody overlaps puts the numbers right, whatever races and
\* broken-off requests had left: followersCount and followingCount, likeCount,
\* the ratings of users, products and stores are then what their rows say
\* (refreshCounts, refreshTargetCount, refreshTargetSummary, recalculateRatings).
Repaired ==
  \A f \in Numbers :
    f \notin disturbed /\ (\A r \in Procs : f \notin Touches(op[r]))
      => shown[f] = Truth(rows, f)

\* wishlistCount is the number of wishes when nobody is at work on them, however
\* additions and removals of one user's devices and of different users overlap,
\* as long as no request breaks off between the row and the count.
WishesCounted ==
  \A p \in Products \ lost :
    (\A r \in Procs : Busy(op[r]) => op[r].id.of # p)
      => wished[p] = Cardinality({k \in RowIds : k.coll = "wishes" /\ k.of = p /\ rows[k].here})
=============================================================================
