---------------------------- MODULE QueuePersons ----------------------------
(***************************************************************************)
(* The `persons` array of a queue document and the pure transformations    *)
(* that QueueService applies to it before it saves the document            *)
(* (BookingSystem/services/queue.service.ts and queue.helpers.ts).         *)
(*                                                                         *)
(* A search of the array (`find`, `findIndex`, `reduce(max)`, `sort`) is   *)
(* an operator that returns the SET of its results: empty when nothing is  *)
(* found, else a singleton.  A handler takes its result with \E, so the    *)
(* early return on "not found" is the empty set.                           *)
(***************************************************************************)
EXTENDS Integers, Sequences

CONSTANT Bookings

PersonStatus == {"waiting", "inService", "completed", "absent"}

\* joinedAt, clientId, visitorName and inServiceAt decide nothing here.
Person == [b : Bookings, pos : Nat, st : PersonStatus, rem : BOOLEAN]

\* STATUS_TRANSITIONS, as the set of statuses reachable from each status.
Transitions == [waiting   |-> {"inService", "absent"},
                inService |-> {"completed", "waiting"},
                completed |-> {},
                absent    |-> {"waiting"}]

\* ACTIVE_STATUSES: what the cleanup jobs still have to finalize.
ActiveStatuses == {"waiting", "inService", "absent"}

\* persons.some(p => p.bookingId === b)
Holds(ps, b) == \E i \in DOMAIN ps : ps[i].b = b

\* persons.findIndex(p => p.bookingId === b)
PlaceOf(ps, b) ==
  {i \in DOMAIN ps : ps[i].b = b /\ \A j \in 1..(i - 1) : ps[j].b # b}

\* persons.reduce((max, p) => Math.max(max, p.position), 0)
TopPosition(ps) ==
  LET positions == {ps[i].pos : i \in DOMAIN ps} \cup {0}
  IN  {m \in positions : \A p \in positions : p <= m}

\* Mutant of AnotherInService: the $ne is lost.
SameInService(ps, b) ==
  \E i \in DOMAIN ps : ps[i].b = b /\ ps[i].st = "inService"

AnotherInService(ps, b) ==
  \E i \in DOMAIN ps : ps[i].b # b /\ ps[i].st = "inService"

\* persons.sort((a, b) => a.position - b.position), a stable sort, as the one
\* order of the indices that it produces.
SortOrders(ps) ==
  {f \in [DOMAIN ps -> DOMAIN ps] :
     \A j, k \in DOMAIN ps :
       j < k => \/ ps[f[j]].pos < ps[f[k]].pos
                \/ ps[f[j]].pos = ps[f[k]].pos /\ f[j] < f[k]}

InOrder(ps, f) == [k \in DOMAIN ps |-> ps[f[k]]]

\* Mutant of Pushable: the $push is not guarded.
AlwaysPushable(ps, b) == TRUE

\* persons: { $not: { $elemMatch: { bookingId } } }
Pushable(ps, b) == ~Holds(ps, b)

NewPerson(b, position) ==
  [b |-> b, pos |-> position, st |-> "waiting", rem |-> FALSE]

\* addPersonToQueue: append at the requested position (0 when the request
\* names none), moving the persons from there on one place down.
Insert(ps, b, requested, top) ==
  LET position == IF requested = 0 THEN top + 1 ELSE requested
      shifts(p) == requested # 0 /\ requested <= top /\ p.pos >= position
  IN  Append([i \in DOMAIN ps |->
                IF shifts(ps[i]) THEN [ps[i] EXCEPT !.pos = @ + 1] ELSE ps[i]],
             NewPerson(b, position))

\* Mutant of Remove: everybody moves up, also who stands in front.
RemoveAndShiftAll(ps, i) ==
  [k \in 1..(Len(ps) - 1) |-> [ps[IF k < i THEN k ELSE k + 1] EXCEPT !.pos = @ - 1]]

\* removeAndRebalance: drop the i-th person, everybody behind moves up one.
Remove(ps, i) ==
  [k \in 1..(Len(ps) - 1) |->
     LET p == ps[IF k < i THEN k ELSE k + 1]
     IN  IF p.pos > ps[i].pos THEN [p EXCEPT !.pos = @ - 1] ELSE p]

\* updatePersonStatus to completed: position 0, everybody behind moves up one.
Complete(ps, i) ==
  [k \in DOMAIN ps |->
     IF k = i THEN [ps[k] EXCEPT !.st = "completed", !.pos = 0]
     ELSE IF ps[k].b # ps[i].b /\ ps[k].pos > ps[i].pos
            THEN [ps[k] EXCEPT !.pos = @ - 1]
            ELSE ps[k]]

\* reorderPerson: Math.min(data.newPosition, queue.persons.length)
NewPosition(ps, requested) ==
  IF requested <= Len(ps) THEN requested ELSE Len(ps)

\* reorderPerson: the persons between the old and the new place shift by one.
Reorder(ps, i, new) ==
  LET old == ps[i].pos
  IN  [k \in DOMAIN ps |->
         IF k = i THEN [ps[k] EXCEPT !.pos = new]
         ELSE IF new < old /\ ps[k].pos >= new /\ ps[k].pos < old
                THEN [ps[k] EXCEPT !.pos = @ + 1]
         ELSE IF new >= old /\ ps[k].pos > old /\ ps[k].pos <= new
                THEN [ps[k] EXCEPT !.pos = @ - 1]
         ELSE ps[k]]

SetStatus(ps, i, st) == [ps EXCEPT ![i].st = st]

-----------------------------------------------------------------------------
\* At most one person of the array is being served.
OneInService(ps) ==
  \A i, j \in DOMAIN ps :
    ps[i].st = "inService" /\ ps[j].st = "inService" => i = j

\* No booking stands twice in the array.
NoDuplicate(ps) == \A i, j \in DOMAIN ps : ps[i].b = ps[j].b => i = j
=============================================================================
