------------------------- MODULE BookingQueueProofs -------------------------
(***************************************************************************)
(* For any agents, bookings, slots and bounds: the state of BookingQueue   *)
(* keeps its type, no queue has two persons in service and no booking      *)
(* stands twice in a queue.  Among requests, moreover, no queue booking is *)
(* left without a place, only a removal takes anybody out of a queue, only *)
(* a reorder lets anybody overtake and a completion is final.              *)
(*                                                                         *)
(* The inductive invariant says of the local copies of the operations in   *)
(* flight what is said of the stored queues: a whole-array save may then   *)
(* store any copy, however old.  In-place writes keep the invariant because*)
(* no operation ever changes a copy to "inService": only StartService sets *)
(* that status, on the stored queue itself and under its guard.            *)
(*                                                                         *)
(* For the requests, RInv relates each copy about to be saved to the stored*)
(* queue: while the version is still the one loaded, the copy is that queue*)
(* with the one change the request makes (Agrees).  In-place writes leave  *)
(* the version alone, and are harmless because they keep everybody's place *)
(* and who is completed (SameShape).                                       *)
(*                                                                         *)
(* Before that, every transformation of the persons array yields an array  *)
(* of persons again and keeps the two facts a stored queue relies on:      *)
(* nobody stands twice in it and at most one person is in service.         *)
(***************************************************************************)
EXTENDS BookingQueue, FiniteSetTheorems, TLAPS

GoodArray(ps) == ps \in Seq(Person) /\ OneInService(ps) /\ NoDuplicate(ps)

LEMMA Element ==
  ASSUME NEW ps \in Seq(Person), NEW i \in DOMAIN ps
  PROVE  ps[i] \in Person /\ ps[i].pos \in Nat
<1>1. ps[i] \in Person
  OBVIOUS
<1> QED BY <1>1 DEF Person

LEMMA Rebuilt ==
  ASSUME NEW n \in Nat, NEW qs, qs = [k \in 1..n |-> qs[k]],
         \A k \in 1..n : qs[k] \in Person
  PROVE  qs \in Seq(Person)
<1>1. [k \in 1..n |-> qs[k]] \in Seq(Person)
  OBVIOUS
<1> QED BY <1>1

LEMMA EmptyGood == GoodArray(<<>>)
  BY SMT DEF GoodArray, OneInService, NoDuplicate

\* Sorting permutes: the order it applies is injective.
LEMMA SortGood ==
  ASSUME NEW ps, GoodArray(ps), NEW f \in SortOrders(ps)
  PROVE  GoodArray(InOrder(ps, f))
<1> DEFINE D == DOMAIN ps
<1>1. D = 1..Len(ps) /\ Len(ps) \in Nat /\ \A i \in D : ps[i] \in Person
  BY DEF GoodArray
<1>2. f \in [D -> D]
  BY DEF SortOrders
<1>3. \A j, k \in D : f[j] = f[k] => j = k
  <2> SUFFICES ASSUME NEW j \in D, NEW k \in D, f[j] = f[k], j < k PROVE FALSE
    BY <1>1
  <2>1. ps[f[j]].pos < ps[f[k]].pos \/ f[j] < f[k]
    BY DEF SortOrders
  <2>2. f[j] \in D /\ ps[f[j]].pos \in Nat /\ f[j] \in Nat
    BY <1>1, <1>2 DEF Person
  <2> QED BY <2>1, <2>2
<1>4. InOrder(ps, f) \in Seq(Person)
  BY <1>1, <1>2 DEF InOrder
<1>5. DOMAIN InOrder(ps, f) = D /\ \A k \in D : InOrder(ps, f)[k] = ps[f[k]]
  BY DEF InOrder
<1>6. OneInService(InOrder(ps, f))
  BY <1>2, <1>3, <1>5 DEF OneInService, GoodArray
<1>7. NoDuplicate(InOrder(ps, f))
  BY <1>2, <1>3, <1>5 DEF NoDuplicate, GoodArray
<1> QED BY <1>4, <1>6, <1>7 DEF GoodArray

LEMMA NewPersonType ==
  ASSUME NEW b \in Bookings, NEW n \in Nat
  PROVE  /\ NewPerson(b, n) \in Person
         /\ NewPerson(b, n).b = b
         /\ NewPerson(b, n).st = "waiting"
  BY DEF NewPerson, Person, PersonStatus

\* Appending somebody who waits and was not there.
LEMMA AppendGood ==
  ASSUME NEW ps, GoodArray(ps), NEW b \in Bookings, NEW n \in Nat, ~Holds(ps, b)
  PROVE  GoodArray(Append(ps, NewPerson(b, n)))
<1> DEFINE p == NewPerson(b, n)
           qs == Append(ps, p)
<1>1. p \in Person /\ p.b = b /\ p.st = "waiting"
  BY NewPersonType
<1>2. ps \in Seq(Person) /\ Len(ps) \in Nat /\ DOMAIN ps = 1..Len(ps)
  BY DEF GoodArray
<1> HIDE DEF p
<1>3. qs \in Seq(Person)
  BY <1>1, <1>2
<1>4. /\ DOMAIN qs = 1..(Len(ps) + 1)
      /\ \A i \in 1..Len(ps) : qs[i] = ps[i]
      /\ qs[Len(ps) + 1] = p
  BY <1>1, <1>2
<1> HIDE DEF qs
<1>5. OneInService(qs)
  BY <1>1, <1>2, <1>4 DEF OneInService, GoodArray
<1>6. NoDuplicate(qs)
  BY <1>1, <1>2, <1>4 DEF NoDuplicate, GoodArray, Holds
<1> QED BY <1>3, <1>5, <1>6 DEF GoodArray, qs, p

\* Arrays that differ in positions and reminder flags only.
SamePeople(ps, qs) ==
  /\ DOMAIN qs = DOMAIN ps
  /\ \A i \in DOMAIN ps : qs[i].b = ps[i].b /\ qs[i].st = ps[i].st

LEMMA SamePeopleGood ==
  ASSUME NEW ps, GoodArray(ps), NEW qs \in Seq(Person), SamePeople(ps, qs)
  PROVE  GoodArray(qs)
  BY DEF GoodArray, SamePeople, OneInService, NoDuplicate

LEMMA CompletedType ==
  ASSUME NEW p \in Person
  PROVE  LET c == [p EXCEPT !.st = "completed", !.pos = 0]
         IN  c \in Person /\ c.b = p.b /\ c.st = "completed"
  BY DEF Person, PersonStatus

\* A person moved to another position.
At(p, n) == [p EXCEPT !.pos = n]

LEMMA AtType ==
  ASSUME NEW p \in Person, NEW n \in Nat
  PROVE  At(p, n) \in Person /\ At(p, n).b = p.b /\ At(p, n).st = p.st
  BY DEF At, Person

LEMMA TopIsNat ==
  ASSUME NEW ps \in Seq(Person), NEW top \in TopPosition(ps)
  PROVE  top \in Nat
<1>1. \A i \in DOMAIN ps : ps[i].pos \in Nat
  BY Element
<1>2. top = 0 \/ \E i \in DOMAIN ps : top = ps[i].pos
  BY DEF TopPosition
<1> QED BY <1>1, <1>2

LEMMA InsertGood ==
  ASSUME NEW ps, GoodArray(ps), NEW b \in Bookings, ~Holds(ps, b),
         NEW requested \in Nat, NEW top \in Nat
  PROVE  GoodArray(Insert(ps, b, requested, top))
<1> DEFINE position == IF requested = 0 THEN top + 1 ELSE requested
           Shifts(p) == requested # 0 /\ requested <= top /\ p.pos >= position
           qs == [i \in DOMAIN ps |->
                    IF Shifts(ps[i]) THEN [ps[i] EXCEPT !.pos = @ + 1] ELSE ps[i]]
<1>1. ps \in Seq(Person) /\ DOMAIN ps = 1..Len(ps) /\ Len(ps) \in Nat
  BY DEF GoodArray
<1>2. \A i \in DOMAIN ps : /\ qs[i] \in Person
                           /\ qs[i].b = ps[i].b /\ qs[i].st = ps[i].st
  <2> SUFFICES ASSUME NEW i \in DOMAIN ps
               PROVE  qs[i] \in Person /\ qs[i].b = ps[i].b /\ qs[i].st = ps[i].st
    OBVIOUS
  <2>1. ps[i] \in Person
    BY <1>1
  <2>2. ps[i].pos + 1 \in Nat
    BY <2>1 DEF Person
  <2>3. qs[i] = ps[i] \/ qs[i] = At(ps[i], ps[i].pos + 1)
    BY DEF At
  <2> QED BY <2>1, <2>2, <2>3, AtType
<1>3. qs \in Seq(Person)
  BY <1>1, <1>2
<1>4. SamePeople(ps, qs)
  BY <1>2 DEF SamePeople
<1>5. GoodArray(qs) /\ ~Holds(qs, b)
  BY <1>2, <1>3, <1>4, SamePeopleGood DEF Holds
<1>6. position \in Nat
  OBVIOUS
<1>7. GoodArray(Append(qs, NewPerson(b, position)))
  BY <1>5, <1>6, AppendGood
<1> QED BY <1>7 DEF Insert

LEMMA RemoveGood ==
  ASSUME NEW ps, GoodArray(ps), NEW i \in DOMAIN ps
  PROVE  GoodArray(Remove(ps, i))
<1> DEFINE old(k) == IF k < i THEN k ELSE k + 1
           qs == Remove(ps, i)
<1>1. ps \in Seq(Person) /\ DOMAIN ps = 1..Len(ps) /\ Len(ps) \in Nat /\ i \in 1..Len(ps)
  BY DEF GoodArray
<1>2. DOMAIN qs = 1..(Len(ps) - 1)
  BY DEF Remove
<1>3. \A k \in DOMAIN qs : old(k) \in DOMAIN ps
  BY <1>1, <1>2
<1>4. \A k \in DOMAIN qs : /\ qs[k] \in Person
                           /\ qs[k].b = ps[old(k)].b /\ qs[k].st = ps[old(k)].st
  <2> SUFFICES ASSUME NEW k \in DOMAIN qs
               PROVE  /\ qs[k] \in Person
                      /\ qs[k].b = ps[old(k)].b /\ qs[k].st = ps[old(k)].st
    OBVIOUS
  <2> DEFINE p == ps[old(k)]
  <2>1. p \in Person /\ ps[i] \in Person
    BY <1>1, <1>3
  <2>2. qs[k] = IF p.pos > ps[i].pos THEN At(p, p.pos - 1) ELSE p
    BY <1>2 DEF Remove, At
  <2>3. p.pos \in Nat /\ ps[i].pos \in Nat
    BY <2>1 DEF Person
  <2> HIDE DEF p, qs
  <2>4. CASE p.pos > ps[i].pos
    <3>1. p.pos - 1 \in Nat
      BY <2>3, <2>4
    <3>2. At(p, p.pos - 1) \in Person /\ At(p, p.pos - 1).b = p.b /\ At(p, p.pos - 1).st = p.st
      BY <3>1, <2>1, AtType
    <3> QED BY <3>2, <2>2, <2>4 DEF p
  <2>5. CASE ~(p.pos > ps[i].pos)
    BY <2>1, <2>2, <2>5 DEF p
  <2> QED BY <2>4, <2>5
<1>5. \A j, k \in DOMAIN qs : old(j) = old(k) => j = k
  BY <1>1, <1>2
<1>6. qs \in Seq(Person)
  <2>1. Len(ps) - 1 \in Nat
    BY <1>1
  <2>2. qs = [k \in 1..(Len(ps) - 1) |-> qs[k]]
    BY DEF Remove
  <2> QED BY <1>2, <1>4, <2>1, <2>2, Rebuilt
<1> HIDE DEF qs, old
<1>7. OneInService(qs)
  BY <1>3, <1>4, <1>5 DEF OneInService, GoodArray
<1>8. NoDuplicate(qs)
  BY <1>3, <1>4, <1>5 DEF NoDuplicate, GoodArray
<1> QED BY <1>6, <1>7, <1>8 DEF GoodArray, qs

LEMMA SetStatusGood ==
  ASSUME NEW ps, GoodArray(ps), NEW i \in DOMAIN ps,
         NEW st \in PersonStatus, st # "inService"
  PROVE  /\ GoodArray(SetStatus(ps, i, st))
         /\ DOMAIN SetStatus(ps, i, st) = DOMAIN ps
         /\ SetStatus(ps, i, st)[i].st = st
         /\ \A k \in DOMAIN ps : k # i => SetStatus(ps, i, st)[k] = ps[k]
<1> DEFINE qs == SetStatus(ps, i, st)
<1>1. ps \in Seq(Person) /\ ps[i] \in Person
  BY DEF GoodArray
<1>2. /\ DOMAIN qs = DOMAIN ps
      /\ qs[i] = [ps[i] EXCEPT !.st = st]
      /\ \A k \in DOMAIN ps : k # i => qs[k] = ps[k]
  BY DEF SetStatus
<1>3. qs[i] \in Person /\ qs[i].st = st /\ qs[i].b = ps[i].b
  BY <1>1, <1>2 DEF Person
<1>4. qs \in Seq(Person)
  BY <1>1, <1>3 DEF SetStatus
<1> HIDE DEF qs
<1>5. OneInService(qs)
  BY <1>2, <1>3 DEF OneInService, GoodArray
<1>6. NoDuplicate(qs)
  BY <1>2, <1>3 DEF NoDuplicate, GoodArray
<1> QED BY <1>2, <1>3, <1>4, <1>5, <1>6 DEF GoodArray, qs

LEMMA CompleteGood ==
  ASSUME NEW ps, GoodArray(ps), NEW i \in DOMAIN ps
  PROVE  GoodArray(Complete(ps, i))
<1> DEFINE qs == Complete(ps, i)
<1>1. ps \in Seq(Person) /\ DOMAIN ps = 1..Len(ps) /\ Len(ps) \in Nat
  BY DEF GoodArray
<1>2. DOMAIN qs = DOMAIN ps
  BY DEF Complete
<1>3. \A k \in DOMAIN ps : /\ qs[k] \in Person /\ qs[k].b = ps[k].b
                           /\ qs[k].st = IF k = i THEN "completed" ELSE ps[k].st
  <2> SUFFICES ASSUME NEW k \in DOMAIN ps
               PROVE  /\ qs[k] \in Person /\ qs[k].b = ps[k].b
                      /\ qs[k].st = IF k = i THEN "completed" ELSE ps[k].st
    OBVIOUS
  <2>1. ps[k] \in Person /\ ps[i] \in Person
    BY <1>1
  <2>2. ps[k].pos \in Nat /\ ps[i].pos \in Nat
    BY <2>1 DEF Person
  <2>3. CASE k = i
    <3>1. qs[k] = [ps[k] EXCEPT !.st = "completed", !.pos = 0]
      BY <2>3 DEF Complete
    <3> QED BY <3>1, <2>1, <2>3, CompletedType
  <2>4. CASE k # i /\ ps[k].b # ps[i].b /\ ps[k].pos > ps[i].pos
    <3>1. qs[k] = At(ps[k], ps[k].pos - 1)
      BY <2>4 DEF Complete, At
    <3>2. ps[k].pos - 1 \in Nat
      BY <2>2, <2>4
    <3> QED BY <3>1, <3>2, <2>1, <2>4, AtType
  <2>5. CASE k # i /\ ~(ps[k].b # ps[i].b /\ ps[k].pos > ps[i].pos)
    <3>1. qs[k] = ps[k]
      BY <2>5 DEF Complete
    <3> QED BY <3>1, <2>1, <2>5
  <2> QED BY <2>3, <2>4, <2>5
<1>4. qs \in Seq(Person)
  <2>1. qs = [k \in 1..Len(ps) |-> qs[k]]
    BY <1>1 DEF Complete
  <2> QED BY <1>1, <1>3, <2>1, Rebuilt
<1> HIDE DEF qs
<1>5. OneInService(qs)
  BY <1>2, <1>3 DEF OneInService, GoodArray
<1>6. NoDuplicate(qs)
  BY <1>2, <1>3 DEF NoDuplicate, GoodArray
<1> QED BY <1>4, <1>5, <1>6 DEF GoodArray, qs

LEMMA ReorderGood ==
  ASSUME NEW ps, GoodArray(ps), NEW i \in DOMAIN ps, NEW requested \in Nat
  PROVE  GoodArray(Reorder(ps, i, NewPosition(ps, requested)))
<1> DEFINE new == NewPosition(ps, requested)
           qs  == Reorder(ps, i, new)
<1>1. /\ ps \in Seq(Person) /\ DOMAIN ps = 1..Len(ps) /\ Len(ps) \in Nat
      /\ ps[i] \in Person
  BY DEF GoodArray
<1>2. new \in Nat
  BY <1>1 DEF NewPosition
<1> HIDE DEF new
<1>3. DOMAIN qs = DOMAIN ps
  BY DEF Reorder
<1>4. \A k \in DOMAIN ps : \E n \in Nat : qs[k] = At(ps[k], n) \/ qs[k] = ps[k]
  <2> SUFFICES ASSUME NEW k \in DOMAIN ps
               PROVE  \E n \in Nat : qs[k] = At(ps[k], n) \/ qs[k] = ps[k]
    OBVIOUS
  <2>1. ps[k].pos \in Nat /\ ps[i].pos \in Nat
    BY <1>1, Element
  <2>2. CASE k = i
    BY <2>2, <1>2 DEF Reorder, At
  <2>3. CASE k # i /\ new < ps[i].pos /\ ps[k].pos >= new /\ ps[k].pos < ps[i].pos
    <3>1. qs[k] = At(ps[k], ps[k].pos + 1)
      BY <2>3 DEF Reorder, At
    <3> QED BY <3>1, <2>1
  <2>4. CASE k # i /\ new >= ps[i].pos /\ ps[k].pos > ps[i].pos /\ ps[k].pos <= new
    <3>1. qs[k] = At(ps[k], ps[k].pos - 1)
      BY <2>4, <2>1, <1>2 DEF Reorder, At
    <3>2. ps[k].pos - 1 \in Nat
      BY <2>1, <2>4
    <3> QED BY <3>1, <3>2
  <2>5. CASE /\ k # i
             /\ ~(new < ps[i].pos /\ ps[k].pos >= new /\ ps[k].pos < ps[i].pos)
             /\ ~(new >= ps[i].pos /\ ps[k].pos > ps[i].pos /\ ps[k].pos <= new)
    <3>1. qs[k] = ps[k]
      BY <2>5 DEF Reorder
    <3> QED BY <3>1
  <2> QED BY <2>2, <2>3, <2>4, <2>5
<1>5. \A k \in DOMAIN ps : qs[k] \in Person /\ qs[k].b = ps[k].b /\ qs[k].st = ps[k].st
  <2> SUFFICES ASSUME NEW k \in DOMAIN ps
               PROVE  qs[k] \in Person /\ qs[k].b = ps[k].b /\ qs[k].st = ps[k].st
    OBVIOUS
  <2>1. ps[k] \in Person
    BY <1>1, Element
  <2>2. PICK n \in Nat : qs[k] = At(ps[k], n) \/ qs[k] = ps[k]
    BY <1>4
  <2>3. At(ps[k], n) \in Person /\ At(ps[k], n).b = ps[k].b /\ At(ps[k], n).st = ps[k].st
    BY <2>1, AtType
  <2> HIDE DEF qs
  <2> QED BY <2>1, <2>2, <2>3
<1>6. qs \in Seq(Person)
  <2>1. qs = [k \in 1..Len(ps) |-> qs[k]]
    BY <1>1 DEF Reorder
  <2> QED BY <1>1, <1>5, <2>1, Rebuilt
<1>7. SamePeople(ps, qs)
  BY <1>3, <1>5 DEF SamePeople
<1> QED BY <1>6, <1>7, SamePeopleGood DEF new

-----------------------------------------------------------------------------
\* The steps of addPersonToQueue before the save, and of ensurePersonInQueue.
Adding   == {"readBooking", "findQueue", "createQueue"}
Ensuring == {"ensureFind", "ensureBooking", "ensureCreate", "ensureRead", "push"}

\* The steps of the cleanup of one queue before the save.
Cleaning == {"person", "finalizeAbsent", "findOrphans", "cancelOrphan"}

\* Where an operation may hold an in-place change that is not saved yet.
InPlace(o) ==
  \/ o.kind = "status" /\ o.at \in {"markAbsent", "saveStatus"}
  \/ /\ o.kind \in {"remind", "closed", "past"}
     /\ o.at \in Cleaning \cup {"saveStatus", "saveFlags"}

\* Changed elements exist and are never in service.
TouchedOK(o) ==
  o.q \in Queues =>
    \A k \in o.touched : /\ k \in DOMAIN o.docs[o.q].persons
                         /\ o.docs[o.q].persons[k].st # "inService"

OpOK(o) ==
  /\ o \in Operation
  /\ \A q \in Queues : GoodArray(o.docs[q].persons)
  /\ o.at \in Adding => o.kind = "add"
  /\ o.at \in Ensuring \cup {"nextBooking"} => o.kind = "populate"
  /\ o.kind = "add" \/ o.at \in Ensuring => o.b \in Bookings
  /\ o.at \in (Adding \cup Ensuring) \ {"readBooking", "ensureFind"} => o.q \in Queues
  /\ o.at \in Cleaning => o.kind \in {"closed", "past"} /\ o.q \in Queues
  /\ o.touched # {} => InPlace(o)
  /\ TouchedOK(o)

QueuesOK(qs) == qs \in [Queues -> Doc] /\ \A q \in Queues : GoodArray(qs[q].persons)

IInv ==
  /\ bookings \in [Bookings -> Booking]
  /\ QueuesOK(queues)
  /\ today \in Days
  /\ op \in [Procs -> Operation]
  /\ \A r \in Procs : OpOK(op[r])

-----------------------------------------------------------------------------
LEMMA NoDocGood == NoDoc \in Doc /\ EmptyDoc \in Doc /\ GoodArray(NoDoc.persons)
                   /\ GoodArray(EmptyDoc.persons) /\ EmptyDoc.persons = <<>>
  BY EmptyGood DEF NoDoc, EmptyDoc, Doc, GoodArray

LEMMA NoDocsGood == QueuesOK(NoDocs)
  BY NoDocGood DEF NoDocs, QueuesOK

LEMMA IdleGood == OpOK(Idle)
<1>1. Idle \in Operation
  BY NoDocsGood DEF Idle, Operation, Steps, PersonStatus, QueuesOK
<1> QED
  BY <1>1, NoDocsGood, ConstantsAssumption
  DEF OpOK, Idle, QueuesOK, Adding, Ensuring, TouchedOK, Cleaning

\* Loading a good document into an operation that has changed nothing yet.
LEMMA LoadedGood ==
  ASSUME NEW o, OpOK(o), NEW q \in Queues, NEW d \in Doc, GoodArray(d.persons),
         o.touched = {}
  PROVE  OpOK(Loaded(o, q, d))
<1> DEFINE l == Loaded(o, q, d)
<1>1. l = [o EXCEPT !.q = q, !.docs = [o.docs EXCEPT ![q] = d]]
  BY DEF Loaded, OpOK, Operation
<1>2. [o.docs EXCEPT ![q] = d] \in [Queues -> Doc]
  BY DEF OpOK, Operation
<1>3. l \in Operation
  BY <1>1, <1>2 DEF OpOK, Operation
<1>4. /\ l.docs = [o.docs EXCEPT ![q] = d] /\ l.q = q
      /\ l.touched = {} /\ l.kind = o.kind /\ l.at = o.at /\ l.b = o.b
  BY <1>1 DEF OpOK, Operation
<1>5. \A c \in Queues : GoodArray(l.docs[c].persons)
  BY <1>4 DEF OpOK, Operation
<1> QED BY <1>3, <1>4, <1>5 DEF OpOK, TouchedOK
\* A step of the loops leaves the operation idle or about to go on.
LEMMA AfterAddGood ==
  ASSUME NEW o, OpOK(o), o.kind = "add", NEW failed \in BOOLEAN
  PROVE  OpOK(AfterAdd(o, failed))
<1> DEFINE undone == [Idle EXCEPT !.kind = "add", !.at = "deleteBooking", !.b = o.b]
           again  == [o EXCEPT !.at = "readBooking", !.q = None, !.docs = NoDocs]
<1>1. o \in Operation /\ o.b \in Bookings /\ o.touched = {} /\ None \notin Queues
  BY ConstantsAssumption DEF OpOK, InPlace, Cleaning
<1>2. OpOK(undone)
  <2>1. NoDocs \in [Queues -> Doc]
    BY NoDocsGood DEF QueuesOK
  <2>2. undone \in Operation
    BY <1>1, <2>1 DEF Operation, Steps, Kinds, Idle, PersonStatus
  <2>3. /\ undone.docs = NoDocs /\ undone.touched = {} /\ undone.q = None
        /\ undone.b = o.b /\ undone.at = "deleteBooking" /\ undone.kind = "add"
    BY DEF Idle
  <2> HIDE DEF undone
  <2> QED BY <1>1, <2>2, <2>3, NoDocsGood
      DEF OpOK, TouchedOK, QueuesOK, Adding, Ensuring, Cleaning
<1>3. OpOK(again)
  <2>1. again \in Operation
    BY <1>1, NoDocsGood DEF Operation, Steps, QueuesOK
  <2>2. /\ again.docs = NoDocs /\ again.touched = {} /\ again.q = None
        /\ again.b = o.b /\ again.at = "readBooking" /\ again.kind = o.kind
    BY <1>1 DEF Operation
  <2> HIDE DEF again
  <2> QED BY <1>1, <2>1, <2>2, NoDocsGood
      DEF OpOK, TouchedOK, QueuesOK, Adding, Ensuring, Cleaning
<1> QED BY <1>2, <1>3, IdleGood DEF AfterAdd

LEMMA AfterEnsureGood ==
  ASSUME NEW o, OpOK(o), o.kind = "populate", o.b \in Bookings
  PROVE  OpOK(AfterEnsure(o))
<1> DEFINE agent   == [o EXCEPT !.at = "ensureFind", !.q = None, !.pos = 0]
           booking == [o EXCEPT !.at = "nextBooking", !.q = None, !.b = None, !.pos = 0]
<1>1. o \in Operation /\ None \notin Queues /\ o.touched = {}
  BY ConstantsAssumption DEF OpOK, InPlace, Cleaning
<1>2. OpOK(agent)
  <2>1. agent \in Operation
    BY <1>1 DEF Operation, Steps
  <2>2. /\ agent.docs = o.docs /\ agent.touched = {} /\ agent.q = None /\ agent.b = o.b
        /\ agent.at = "ensureFind" /\ agent.kind = o.kind
    BY <1>1 DEF Operation
  <2> QED BY <1>1, <2>1, <2>2 DEF OpOK, TouchedOK, Adding, Ensuring, Cleaning
<1>3. OpOK(booking)
  <2>1. booking \in Operation
    BY <1>1 DEF Operation, Steps
  <2>2. /\ booking.docs = o.docs /\ booking.touched = {} /\ booking.q = None
        /\ booking.at = "nextBooking" /\ booking.kind = o.kind
    BY <1>1 DEF Operation
  <2> QED BY <1>1, <2>1, <2>2 DEF OpOK, TouchedOK, Adding, Ensuring, Cleaning
<1> QED BY <1>2, <1>3, IdleGood DEF AfterEnsure

LEMMA AfterQueueGood ==
  ASSUME NEW o, OpOK(o), o.kind # "add"
  PROVE  OpOK(AfterQueue(o))
<1> DEFINE docs  == [o.docs EXCEPT ![o.q] = NoDoc]
           queue == [o EXCEPT !.at = "nextQueue", !.q = None, !.touched = {}, !.i = 0,
                              !.todo = {}, !.docs = docs]
<1>1. o \in Operation /\ None \notin Queues
  BY ConstantsAssumption DEF OpOK
<1>2. docs \in [Queues -> Doc]
  BY <1>1, NoDocGood DEF Operation
<1>3. \A q \in Queues : GoodArray(docs[q].persons)
  BY <1>1, NoDocGood DEF Operation, OpOK
<1>4. queue \in Operation
  BY <1>1, <1>2 DEF Operation, Steps
<1>5. /\ queue.docs = docs /\ queue.touched = {} /\ queue.q = None
      /\ queue.at = "nextQueue" /\ queue.kind = o.kind
  BY <1>1 DEF Operation
<1>6. OpOK(queue)
  BY <1>1, <1>3, <1>4, <1>5 DEF OpOK, TouchedOK, Adding, Ensuring, Cleaning
<1>7. AfterQueue(o) = IF o.left = {} THEN Idle ELSE queue
  BY <1>1 DEF AfterQueue, Operation
<1> QED BY <1>6, <1>7, IdleGood
\* An operation that has nothing loaded.
LEMMA FreshGood ==
  ASSUME NEW o \in Operation, o.docs = NoDocs, o.touched = {},
         o.at \in Adding => o.at = "readBooking" /\ o.kind = "add",
         o.at = "nextBooking" => o.kind = "populate",
         o.at \notin Ensuring \cup Cleaning,
         o.kind = "add" => o.b \in Bookings
  PROVE  OpOK(o)
  BY NoDocsGood DEF OpOK, TouchedOK, QueuesOK

LEMMA AfterSaveGood ==
  ASSUME NEW o, OpOK(o)
  PROVE  OpOK(AfterSave(o)) /\ OpOK(AfterVersionError(o))
<1> DEFINE effect == [Idle EXCEPT !.kind = "status", !.at = "effect", !.b = o.b, !.to = o.to]
           row    == [Idle EXCEPT !.kind = "delete", !.at = "deleteBooking", !.b = o.b]
<1>1. o.b \in Bookings \cup {None} /\ o.to \in PersonStatus /\ NoDocs \in [Queues -> Doc]
  BY NoDocsGood DEF OpOK, QueuesOK, Operation
<1>2. OpOK(effect)
  <2>1. effect \in Operation
    BY <1>1 DEF Operation, Steps, Kinds, Idle, PersonStatus
  <2>2. /\ effect.docs = NoDocs /\ effect.touched = {}
        /\ effect.at = "effect" /\ effect.kind = "status"
    BY DEF Idle
  <2> QED BY <2>1, <2>2, FreshGood DEF Adding, Ensuring, Cleaning
<1>3. OpOK(row)
  <2>1. row \in Operation
    BY <1>1 DEF Operation, Steps, Kinds, Idle, PersonStatus
  <2>2. /\ row.docs = NoDocs /\ row.touched = {}
        /\ row.at = "deleteBooking" /\ row.kind = "delete"
    BY DEF Idle
  <2> QED BY <2>1, <2>2, FreshGood DEF Adding, Ensuring, Cleaning
<1> HIDE DEF effect, row
<1>4. o.kind = "add" => OpOK(AfterAdd(o, FALSE)) /\ OpOK(AfterAdd(o, TRUE))
  BY AfterAddGood
<1>5. o.kind # "add" => OpOK(AfterQueue(o))
  BY AfterQueueGood
<1>6. OpOK(AfterSave(o))
  BY <1>2, <1>3, <1>4, <1>5, IdleGood DEF AfterSave, effect, row
<1>7. OpOK(AfterVersionError(o))
  BY <1>4, <1>5, IdleGood DEF AfterVersionError
<1> QED BY <1>6, <1>7

-----------------------------------------------------------------------------
\* What a step writes.

LEMMA StatusWritten ==
  ASSUME bookings \in [Bookings -> Booking], NEW b,
         NEW st \in BookingStatus \cup {"unborn", "deleted"}, WriteStatus(b, st)
  PROVE  bookings' \in [Bookings -> Booking]
  BY DEF WriteStatus, Booking

LEMMA PersonsWritten ==
  ASSUME QueuesOK(queues), NEW q, NEW ps, q \in Queues => GoodArray(ps),
         queues' = [queues EXCEPT ![q].persons = ps]
  PROVE  QueuesOK(queues')
  BY DEF QueuesOK, Doc, GoodArray

\* What the invariant says once slot r has become o.
LEMMA OpsKept ==
  ASSUME IInv, NEW r \in Procs, NEW o, OpOK(o), Become(r, o)
  PROVE  op' \in [Procs -> Operation] /\ \A s \in Procs : OpOK(op'[s])
  BY DEF IInv, Become, OpOK

\* A step that changes one slot only.
LEMMA OnlyOp ==
  ASSUME IInv, NEW r \in Procs, NEW o, OpOK(o), Become(r, o),
         UNCHANGED <<bookings, queues, today>>
  PROVE  IInv'
  BY OpsKept DEF IInv, QueuesOK
-----------------------------------------------------------------------------
\* Requests and jobs that start.

LEMMA BookingRequestsKeep ==
  ASSUME IInv, NEW r \in Procs, BookingRequest(r)
  PROVE  IInv'
<1> USE DEF IInv
<1>0. NoDocs \in [Queues -> Doc] /\ today \in Nat
  BY NoDocsGood, ConstantsAssumption DEF QueuesOK, Days
<1>1. ASSUME NEW b \in Bookings, NEW as \in SUBSET Agents, NEW day \in Days,
             NEW st \in CreateStatuses, CreateBooking(b, as, day, st)
      PROVE  IInv'
  <2>1. bookings' \in [Bookings -> Booking]
    BY <1>1, ConstantsAssumption DEF CreateBooking, Booking
  <2> QED BY <1>1, <2>1 DEF CreateBooking, QueuesOK
<1>2. ASSUME NEW b \in Bookings, NEW a \in Agents, CreateQueueBooking(r, b, a)
      PROVE  IInv'
  <2> DEFINE o == [Idle EXCEPT !.kind = "add", !.at = "readBooking", !.b = b,
                               !.agents = {a}, !.undo = TRUE]
  <2>1. bookings' \in [Bookings -> Booking]
    BY <1>2 DEF CreateQueueBooking, Booking, BookingStatus, LiveStatus
  <2>2. o \in Operation
    BY <1>0 DEF Operation, Steps, Kinds, Idle, PersonStatus
  <2>3. /\ o.docs = NoDocs /\ o.touched = {} /\ o.at = "readBooking"
        /\ o.kind = "add" /\ o.b = b
    BY DEF Idle
  <2>4. Become(r, o) /\ UNCHANGED <<queues, today>>
    BY <1>2 DEF CreateQueueBooking
  <2> HIDE DEF o
  <2>5. OpOK(o)
    BY <2>2, <2>3, FreshGood DEF Ensuring, Cleaning
  <2> QED BY <2>1, <2>4, <2>5, OpsKept DEF QueuesOK
<1>3. ASSUME NEW b \in Bookings, NEW st \in UpdateStatuses, NEW day \in Days,
             UpdateBooking(r, b, st, day)
      PROVE  IInv'
  <2> DEFINE o == [Idle EXCEPT !.kind = "add", !.at = "readBooking", !.b = b,
                               !.agents = bookings[b].agents]
  <2>1. bookings' \in [Bookings -> Booking]
    BY <1>3, ConstantsAssumption DEF UpdateBooking, Booking
  <2>2. o \in Operation
    <3>1. bookings[b].agents \in SUBSET Agents
      BY DEF Booking
    <3> QED BY <1>0, <3>1 DEF Operation, Steps, Kinds, Idle, PersonStatus
  <2>3. /\ o.docs = NoDocs /\ o.touched = {} /\ o.at = "readBooking"
        /\ o.kind = "add" /\ o.b = b
    BY DEF Idle
  <2>4. (Become(r, o) \/ Become(r, Idle)) /\ UNCHANGED <<queues, today>>
    BY <1>3 DEF UpdateBooking
  <2> HIDE DEF o
  <2>5. OpOK(o)
    BY <2>2, <2>3, FreshGood DEF Ensuring, Cleaning
  <2> QED BY <2>1, <2>4, <2>5, IdleGood, OpsKept DEF QueuesOK
<1>4. ASSUME NEW b \in Bookings, DeleteBooking(r, b)
      PROVE  IInv'
  <2> DEFINE o == [Idle EXCEPT !.kind = "delete", !.at = "findPerson", !.b = b]
  <2>1. o \in Operation
    BY <1>0 DEF Operation, Steps, Kinds, Idle, PersonStatus
  <2>2. o.docs = NoDocs /\ o.touched = {} /\ o.at = "findPerson" /\ o.kind = "delete"
    BY DEF Idle
  <2>3. Become(r, o) /\ UNCHANGED <<bookings, queues, today>>
    BY <1>4 DEF DeleteBooking
  <2> HIDE DEF o
  <2> QED BY <2>1, <2>2, <2>3, FreshGood, OnlyOp DEF Adding, Ensuring, Cleaning
<1> QED BY <1>1, <1>2, <1>3, <1>4 DEF BookingRequest
\* A document whose persons were changed.
LEMMA ChangedDoc ==
  ASSUME NEW d \in Doc, NEW ps, GoodArray(ps)
  PROVE  [d EXCEPT !.persons = ps] \in Doc /\ [d EXCEPT !.persons = ps].persons = ps
  BY DEF Doc, GoodArray

\* The changed document is loaded; the operation goes on at another step.
LEMMA LoadedStep ==
  ASSUME NEW o, OpOK(o), o.touched = {}, NEW q \in Queues, NEW d \in Doc,
         NEW ps, GoodArray(ps), NEW at \in Steps,
         at \notin Adding \cup Ensuring \cup Cleaning \cup {"nextBooking"}
  PROVE  OpOK([Loaded(o, q, [d EXCEPT !.persons = ps]) EXCEPT !.at = at])
<1> DEFINE l == Loaded(o, q, [d EXCEPT !.persons = ps])
           n == [l EXCEPT !.at = at]
<1>1. OpOK(l)
  BY ChangedDoc, LoadedGood
<1>2. l.touched = {}
  BY DEF Loaded, OpOK, Operation
<1> HIDE DEF l
<1>3. n \in Operation
  BY <1>1 DEF OpOK, Operation
<1>4. /\ n.docs = l.docs /\ n.touched = {} /\ n.kind = l.kind
      /\ n.b = l.b /\ n.at = at
  BY <1>1, <1>2 DEF OpOK, Operation
<1> HIDE DEF n
<1>5. OpOK(n)
  BY <1>1, <1>3, <1>4 DEF OpOK, TouchedOK
<1> QED BY <1>5 DEF n, l

LEMMA PlaceInside ==
  ASSUME NEW ps, NEW b, NEW i \in PlaceOf(ps, b)
  PROVE  i \in DOMAIN ps
  BY DEF PlaceOf

LEMMA AddRequestKeeps ==
  ASSUME IInv, NEW r \in Procs, NEW a \in Agents, NEW b \in Bookings,
         NEW pos \in Positions, AddPersonToQueue(r, a, b, pos)
  PROVE  IInv'
<1> DEFINE o == [Idle EXCEPT !.kind = "add", !.at = "readBooking", !.b = b,
                             !.agents = {a}, !.pos = pos]
<1>1. NoDocs \in [Queues -> Doc] /\ pos \in Nat
  BY NoDocsGood, ConstantsAssumption DEF QueuesOK, Positions
<1>2. o \in Operation
  BY <1>1 DEF Operation, Steps, Kinds, Idle, PersonStatus
<1>3. /\ o.docs = NoDocs /\ o.touched = {} /\ o.at = "readBooking"
      /\ o.kind = "add" /\ o.b = b
  BY DEF Idle
<1>4. Become(r, o) /\ UNCHANGED <<bookings, queues, today>>
  BY DEF AddPersonToQueue
<1> HIDE DEF o
<1> QED BY <1>2, <1>3, <1>4, FreshGood, OnlyOp DEF Ensuring, Cleaning

LEMMA RemoveRequestKeeps ==
  ASSUME IInv, NEW r \in Procs, NEW a \in Agents, NEW b \in Bookings,
         NEW markAbsent \in BOOLEAN, RemovePersonFromQueue(r, a, b, markAbsent)
  PROVE  IInv'
<1> DEFINE o == [Idle EXCEPT !.kind = "remove", !.b = b,
                             !.at = IF markAbsent THEN "markAbsent" ELSE "save"]
<1>1. NoDocs \in [Queues -> Doc]
  BY NoDocsGood DEF QueuesOK
<1>2. PICK q \in Queues : \E i \in PlaceOf(queues[q].persons, b) :
        Become(r, Loaded(o, q, [queues[q] EXCEPT !.persons = Remove(queues[q].persons, i)]))
  BY DEF RemovePersonFromQueue
<1>i. PICK i \in PlaceOf(queues[q].persons, b) :
        Become(r, Loaded(o, q, [queues[q] EXCEPT !.persons = Remove(queues[q].persons, i)]))
  BY <1>2
<1>3. OpOK(o) /\ o.touched = {}
  <2>1. o \in Operation
    BY <1>1 DEF Operation, Steps, Kinds, Idle, PersonStatus
  <2>2. /\ o.docs = NoDocs /\ o.touched = {} /\ o.kind = "remove"
        /\ o.at \in {"markAbsent", "save"}
    BY DEF Idle
  <2> HIDE DEF o
  <2> QED BY <2>1, <2>2, FreshGood DEF Adding, Ensuring, Cleaning
<1> HIDE DEF o
<1>4. queues[q] \in Doc /\ GoodArray(Remove(queues[q].persons, i))
  BY PlaceInside, RemoveGood DEF IInv, QueuesOK
<1>5. OpOK(Loaded(o, q, [queues[q] EXCEPT !.persons = Remove(queues[q].persons, i)]))
  BY <1>3, <1>4, ChangedDoc, LoadedGood
<1>6. UNCHANGED <<bookings, queues, today>>
  BY DEF RemovePersonFromQueue
<1> QED BY <1>i, <1>5, <1>6, OnlyOp

LEMMA ReorderRequestKeeps ==
  ASSUME IInv, NEW r \in Procs, NEW a \in Agents, NEW b \in Bookings,
         NEW requested \in Positions \ {0}, ReorderPerson(r, a, b, requested)
  PROVE  IInv'
<1> DEFINE o == [Idle EXCEPT !.kind = "reorder", !.at = "save", !.b = b]
           Moved(q, i) == Reorder(queues[q].persons, i,
                                  NewPosition(queues[q].persons, requested))
<1>1. NoDocs \in [Queues -> Doc] /\ requested \in Nat
  BY NoDocsGood, ConstantsAssumption DEF QueuesOK, Positions
<1>2. PICK q \in Queues : \E i \in PlaceOf(queues[q].persons, b) :
        \E f \in SortOrders(Moved(q, i)) :
          Become(r, Loaded(o, q, [queues[q] EXCEPT !.persons = InOrder(Moved(q, i), f)]))
  BY DEF ReorderPerson
<1>i. PICK i \in PlaceOf(queues[q].persons, b) : \E f \in SortOrders(Moved(q, i)) :
        Become(r, Loaded(o, q, [queues[q] EXCEPT !.persons = InOrder(Moved(q, i), f)]))
  BY <1>2
<1>f. PICK f \in SortOrders(Moved(q, i)) :
        Become(r, Loaded(o, q, [queues[q] EXCEPT !.persons = InOrder(Moved(q, i), f)]))
  BY <1>i
<1>3. OpOK(o) /\ o.touched = {}
  <2>1. o \in Operation
    BY <1>1 DEF Operation, Steps, Kinds, Idle, PersonStatus
  <2>2. /\ o.docs = NoDocs /\ o.touched = {} /\ o.kind = "reorder" /\ o.at = "save"
    BY DEF Idle
  <2> HIDE DEF o
  <2> QED BY <2>1, <2>2, FreshGood DEF Adding, Ensuring, Cleaning
<1> HIDE DEF o
<1>4. queues[q] \in Doc /\ GoodArray(InOrder(Moved(q, i), f))
  <2>1. queues[q] \in Doc /\ GoodArray(queues[q].persons)
    BY DEF IInv, QueuesOK
  <2>2. GoodArray(Moved(q, i))
    BY <1>1, <2>1, PlaceInside, ReorderGood
  <2> HIDE DEF Moved
  <2> QED BY <2>1, <2>2, SortGood
<1>5. OpOK(Loaded(o, q, [queues[q] EXCEPT !.persons = InOrder(Moved(q, i), f)]))
  BY <1>3, <1>4, ChangedDoc, LoadedGood
<1>6. UNCHANGED <<bookings, queues, today>>
  BY DEF ReorderPerson
<1> QED BY <1>f, <1>5, <1>6, OnlyOp
\* A copy in which person i was given a status other than inService.
LEMMA TouchedStep ==
  ASSUME NEW o, OpOK(o), o.touched = {}, o.kind = "status",
         NEW q \in Queues, NEW d \in Doc, GoodArray(d.persons),
         NEW i \in DOMAIN d.persons, NEW st \in PersonStatus, st # "inService",
         NEW at \in {"markAbsent", "saveStatus"}
  PROVE  OpOK([Loaded(o, q, [d EXCEPT !.persons = SetStatus(d.persons, i, st)])
                 EXCEPT !.touched = {i}, !.at = at])
<1> DEFINE ps == SetStatus(d.persons, i, st)
           c == [d EXCEPT !.persons = ps]
           l == Loaded(o, q, c)
           n == [l EXCEPT !.touched = {i}, !.at = at]
<1>1. GoodArray(ps) /\ i \in DOMAIN ps /\ ps[i].st = st
  BY SetStatusGood
<1>2. c \in Doc /\ c.persons = ps
  BY <1>1, ChangedDoc
<1> HIDE DEF ps, c
<1>3. OpOK(l)
  BY <1>1, <1>2, LoadedGood
<1>4. l.q = q /\ l.docs[q].persons = ps /\ l.kind = "status"
  BY <1>2 DEF Loaded, OpOK, Operation
<1> HIDE DEF l
<1>5. i \in Nat
  BY DEF GoodArray
<1>6. n \in Operation
  BY <1>3, <1>5 DEF OpOK, Operation, Steps
<1>7. /\ n.docs = l.docs /\ n.touched = {i} /\ n.kind = "status"
      /\ n.b = l.b /\ n.at = at /\ n.q = q
  BY <1>3, <1>4 DEF OpOK, Operation
<1> HIDE DEF n
<1>8. OpOK(n)
  BY <1>1, <1>3, <1>4, <1>6, <1>7
  DEF OpOK, TouchedOK, Adding, Ensuring, InPlace, Cleaning
<1> QED BY <1>8 DEF n, l, c, ps

LEMMA StatusRequestKeeps ==
  ASSUME IInv, NEW r \in Procs, NEW a \in Agents, NEW b \in Bookings,
         NEW to \in PersonStatus, UpdatePersonStatus(r, a, b, to)
  PROVE  IInv'
<1> DEFINE o == [Idle EXCEPT !.kind = "status", !.b = b, !.to = to]
<1>1. NoDocs \in [Queues -> Doc]
  BY NoDocsGood DEF QueuesOK
<1>2. OpOK(o) /\ o.touched = {} /\ o.kind = "status"
  <2>1. o \in Operation
    BY <1>1 DEF Operation, Steps, Kinds, Idle, PersonStatus
  <2>2. /\ o.docs = NoDocs /\ o.touched = {} /\ o.kind = "status" /\ o.at = "idle"
    BY DEF Idle
  <2> HIDE DEF o
  <2> QED BY <2>1, <2>2, FreshGood DEF Adding, Ensuring, Cleaning
<1> DEFINE Begin(q, i) ==
             Become(r, [o EXCEPT !.at = "startService", !.q = q,
                                 !.was = queues[q].persons[i].st])
           Done(q, i) ==
             /\ to = "completed"
             /\ \E f \in SortOrders(Complete(queues[q].persons, i)) :
                  Become(r, [Loaded(o, q,
                    [queues[q] EXCEPT !.persons = InOrder(Complete(queues[q].persons, i), f)])
                      EXCEPT !.at = "save"])
           Mark(q, i) ==
             /\ to \in {"waiting", "absent"}
             /\ Become(r, [Loaded(o, q,
                  [queues[q] EXCEPT !.persons = SetStatus(queues[q].persons, i, to)])
                    EXCEPT !.touched = {i},
                           !.at = IF to = "absent" THEN "markAbsent" ELSE "saveStatus"])
<1>3. PICK q \in Queues : \E i \in PlaceOf(queues[q].persons, b) :
        Begin(q, i) \/ Done(q, i) \/ Mark(q, i)
  BY Zenon DEF UpdatePersonStatus
<1>4. PICK i \in PlaceOf(queues[q].persons, b) : Begin(q, i) \/ Done(q, i) \/ Mark(q, i)
  BY <1>3
<1> HIDE DEF o
<1>5. /\ queues[q] \in Doc /\ GoodArray(queues[q].persons)
      /\ i \in DOMAIN queues[q].persons
  BY PlaceInside DEF IInv, QueuesOK
<1>6. UNCHANGED <<bookings, queues, today>>
  BY DEF UpdatePersonStatus
<1>7. CASE Begin(q, i)
  <2> DEFINE n == [o EXCEPT !.at = "startService", !.q = q, !.was = queues[q].persons[i].st]
  <2>1. queues[q].persons[i].st \in PersonStatus
    BY <1>5, Element DEF GoodArray, Person
  <2>2. n \in Operation
    BY <1>2, <2>1 DEF OpOK, Operation, Steps
  <2>3. /\ n.docs = o.docs /\ n.touched = {} /\ n.kind = o.kind
        /\ n.b = o.b /\ n.at = "startService"
    BY <1>2 DEF OpOK, Operation
  <2>4. OpOK(n)
    BY <1>2, <2>2, <2>3 DEF OpOK, TouchedOK, Adding, Ensuring, Cleaning
  <2> QED BY <1>6, <1>7, <2>4, OnlyOp
<1>8. CASE Done(q, i)
  <2>1. GoodArray(Complete(queues[q].persons, i))
    BY <1>5, CompleteGood
  <2>2. PICK f \in SortOrders(Complete(queues[q].persons, i)) :
          Become(r, [Loaded(o, q,
            [queues[q] EXCEPT !.persons = InOrder(Complete(queues[q].persons, i), f)])
              EXCEPT !.at = "save"])
    BY <1>8
  <2>3. GoodArray(InOrder(Complete(queues[q].persons, i), f))
    BY <2>1, SortGood
  <2>4. OpOK([Loaded(o, q,
          [queues[q] EXCEPT !.persons = InOrder(Complete(queues[q].persons, i), f)])
            EXCEPT !.at = "save"])
    BY <1>2, <1>5, <2>3, LoadedStep DEF Steps, Adding, Ensuring, Cleaning
  <2> QED BY <1>6, <2>2, <2>4, OnlyOp
<1>9. CASE Mark(q, i)
  <2> DEFINE at == IF to = "absent" THEN "markAbsent" ELSE "saveStatus"
  <2>1. at \in {"markAbsent", "saveStatus"} /\ to # "inService"
    BY <1>9
  <2> HIDE DEF at
  <2>2. OpOK([Loaded(o, q, [queues[q] EXCEPT !.persons = SetStatus(queues[q].persons, i, to)])
                EXCEPT !.touched = {i}, !.at = at])
    BY <1>2, <1>5, <2>1, TouchedStep
  <2> QED BY <1>6, <1>9, <2>2, OnlyOp DEF at
<1> QED BY <1>4, <1>7, <1>8, <1>9
LEMMA LoadQueuesKeeps ==
  ASSUME IInv, NEW r \in Procs, NEW kind \in {"remind", "closed", "past"},
         NEW qs \in SUBSET Queues, LoadQueues(r, kind, qs)
  PROVE  IInv'
<1> DEFINE docs == [q \in Queues |-> IF q \in qs THEN queues[q] ELSE NoDoc]
           o == [Idle EXCEPT !.kind = kind, !.at = "nextQueue", !.left = qs, !.docs = docs]
<1>1. docs \in [Queues -> Doc] /\ \A q \in Queues : GoodArray(docs[q].persons)
  BY NoDocGood DEF IInv, QueuesOK
<1>3. Become(r, o) /\ UNCHANGED <<bookings, queues, today>>
  BY DEF LoadQueues
<1> HIDE DEF docs
<1>4. o \in Operation
  BY <1>1 DEF Operation, Steps, Kinds, Idle, PersonStatus
<1>5. o.docs = docs /\ o.touched = {} /\ o.at = "nextQueue" /\ o.kind = kind
  BY DEF Idle
<1> HIDE DEF o
<1>6. OpOK(o)
  BY <1>1, <1>4, <1>5 DEF OpOK, TouchedOK, Adding, Ensuring, Cleaning
<1> QED BY <1>3, <1>6, OnlyOp

LEMMA CronJobsKeep ==
  ASSUME IInv, NEW r \in Procs, CronJob(r)
  PROVE  IInv'
<1>0. NoDocs \in [Queues -> Doc]
  BY NoDocsGood DEF QueuesOK
<1>1. CASE PopulateDailyQueues(r)
  <2> DEFINE due == {b \in Bookings : /\ bookings[b].st \in {"confirmed", "inQueue"}
                                      /\ bookings[b].day = today
                                      /\ bookings[b].agents # {}}
             conf == {b \in due : bookings[b].st = "confirmed"}
             o == [Idle EXCEPT !.kind = "populate", !.at = "nextBooking", !.todo = due,
                               !.confirmed = conf]
  <2>1. Become(r, o) /\ UNCHANGED <<bookings, queues, today>>
    BY <1>1 DEF PopulateDailyQueues
  <2>2. due \in SUBSET Bookings /\ conf \in SUBSET Bookings
    OBVIOUS
  <2> HIDE DEF due, conf
  <2>3. o \in Operation
    BY <1>0, <2>2 DEF Operation, Steps, Kinds, Idle, PersonStatus
  <2>4. o.docs = NoDocs /\ o.touched = {} /\ o.at = "nextBooking" /\ o.kind = "populate"
    BY DEF Idle
  <2> HIDE DEF o
  <2> QED BY <2>1, <2>3, <2>4, FreshGood, OnlyOp DEF Adding, Ensuring, Cleaning
<1>2. CASE SendQueueReminders(r)
  <2> DEFINE qs == {q \in Queues : LET ps == queues[q].persons IN
                     /\ q[2] = today
                     /\ \E k \in DOMAIN ps : ps[k].st = "waiting"
                     /\ \E k \in DOMAIN ps : ~ps[k].rem}
  <2>1. LoadQueues(r, "remind", qs)
    BY <1>2, Zenon DEF SendQueueReminders
  <2>2. qs \in SUBSET Queues
    OBVIOUS
  <2> HIDE DEF qs
  <2> QED BY <2>1, <2>2, LoadQueuesKeeps
<1>3. ASSUME NEW closed \in SUBSET Agents, CleanupClosedLoungeQueues(r, closed)
      PROVE  IInv'
  BY <1>3, LoadQueuesKeeps DEF CleanupClosedLoungeQueues
<1>4. CASE CleanupPastQueues(r)
  BY <1>4, LoadQueuesKeeps DEF CleanupPastQueues
<1>5. CASE CleanupStaleInQueueBookings(r)
  <2> DEFINE past == {b \in Bookings : Stale(b)}
             o == [Idle EXCEPT !.kind = "stale", !.at = "stale", !.todo = past]
  <2>1. Become(r, o) /\ UNCHANGED <<bookings, queues, today>>
    BY <1>5 DEF CleanupStaleInQueueBookings
  <2>2. past \in SUBSET Bookings
    OBVIOUS
  <2> HIDE DEF past
  <2>3. o \in Operation
    BY <1>0, <2>2 DEF Operation, Steps, Kinds, Idle, PersonStatus
  <2>4. o.docs = NoDocs /\ o.touched = {} /\ o.at = "stale" /\ o.kind = "stale"
    BY DEF Idle
  <2> HIDE DEF o
  <2> QED BY <2>1, <2>3, <2>4, FreshGood, OnlyOp DEF Adding, Ensuring, Cleaning
<1> QED BY <1>1, <1>2, <1>3, <1>4, <1>5 DEF CronJob
-----------------------------------------------------------------------------
\* addPersonToQueue

LEMMA AddReadBookingKeeps ==
  ASSUME IInv, NEW r \in Procs, AddReadBooking(r)
  PROVE  IInv'
<1> DEFINE o == op[r]
           rest(a) == [o EXCEPT !.agents = @ \ {a}]
           found(a) == [rest(a) EXCEPT !.at = "findQueue", !.q = <<a, today>>]
<1>1. /\ OpOK(o) /\ o.at = "readBooking" /\ o.kind = "add" /\ o.touched = {}
      /\ o.b \in Bookings /\ o \in Operation
  BY DEF IInv, AddReadBooking, OpOK, Adding, InPlace, Cleaning
<1>2. PICK a \in o.agents : Become(r, found(a)) \/ Become(r, AfterAdd(rest(a), TRUE))
  BY Zenon DEF AddReadBooking
<1>3. UNCHANGED <<bookings, queues, today>>
  BY DEF AddReadBooking
<1>4. a \in Agents /\ today \in Days
  BY <1>1 DEF Operation, IInv
<1> HIDE DEF o
<1>5. OpOK(rest(a)) /\ rest(a).kind = "add"
  <2>1. rest(a) \in Operation
    BY <1>1 DEF Operation
  <2>2. /\ rest(a).docs = o.docs /\ rest(a).touched = {} /\ rest(a).kind = "add"
        /\ rest(a).b = o.b /\ rest(a).at = "readBooking"
    BY <1>1 DEF Operation
  <2> QED BY <1>1, <2>1, <2>2 DEF OpOK, TouchedOK, Adding, Ensuring, Cleaning
<1>6. OpOK(found(a))
  <2>1. <<a, today>> \in Queues
    BY <1>4 DEF Queues
  <2> HIDE DEF rest
  <2>2. found(a) \in Operation
    BY <1>5, <2>1 DEF OpOK, Operation, Steps
  <2>3. /\ found(a).docs = rest(a).docs /\ found(a).touched = rest(a).touched
        /\ found(a).kind = "add" /\ found(a).b = rest(a).b
        /\ found(a).at = "findQueue" /\ found(a).q = <<a, today>>
    BY <1>5 DEF OpOK, Operation
  <2> HIDE DEF found
  <2>4. found(a).touched = {}
    BY <1>5, <2>3 DEF OpOK, InPlace, Cleaning
  <2> QED BY <1>5, <2>1, <2>2, <2>3, <2>4 DEF OpOK, TouchedOK, Adding, Ensuring, Cleaning
<1>7. OpOK(AfterAdd(rest(a), TRUE))
  BY <1>5, AfterAddGood
<1> QED BY <1>2, <1>3, <1>6, <1>7, OnlyOp

\* The copy to be saved is good, and so is every operation that follows.
LEMMA InsertIntoGood ==
  ASSUME IInv, NEW r \in Procs, op[r].at \in {"findQueue", "createQueue"},
         NEW d \in Doc, GoodArray(d.persons), InsertInto(r, d)
  PROVE  \E o : OpOK(o) /\ Become(r, o)
<1> DEFINE o == op[r]
           Entered(top) == Insert(d.persons, o.b, o.pos, top)
<1>1. /\ OpOK(o) /\ o.kind = "add" /\ o.touched = {} /\ o.b \in Bookings
      /\ o.q \in Queues /\ o.pos \in Nat
  BY DEF IInv, OpOK, Adding, Operation, InPlace, Cleaning
<1>2. CASE Become(r, AfterAdd(o, TRUE))
  BY <1>1, <1>2, AfterAddGood
<1>3. ASSUME ~Holds(d.persons, o.b), NEW top \in TopPosition(d.persons),
             NEW f \in SortOrders(Entered(top)),
             Become(r, [Loaded(o, o.q, [d EXCEPT !.persons = InOrder(Entered(top), f)])
                          EXCEPT !.at = "save"])
      PROVE  \E n : OpOK(n) /\ Become(r, n)
  <2>1. top \in Nat
    BY TopIsNat DEF GoodArray
  <2> HIDE DEF o
  <2>2. GoodArray(Entered(top))
    BY <1>1, <1>3, <2>1, InsertGood
  <2> HIDE DEF Entered
  <2>3. GoodArray(InOrder(Entered(top), f))
    BY <2>2, SortGood
  <2>4. OpOK([Loaded(o, o.q, [d EXCEPT !.persons = InOrder(Entered(top), f)])
                EXCEPT !.at = "save"])
    BY <1>1, <2>3, LoadedStep DEF Steps, Adding, Ensuring, Cleaning
  <2> QED BY <1>3, <2>4
<1> QED BY <1>2, <1>3 DEF InsertInto

LEMMA AddFindQueueKeeps ==
  ASSUME IInv, NEW r \in Procs, AddFindQueue(r)
  PROVE  IInv'
<1> DEFINE o == op[r]
           create == [o EXCEPT !.at = "createQueue"]
<1>1. /\ OpOK(o) /\ o.at = "findQueue" /\ o.q \in Queues /\ o \in Operation
      /\ o.kind = "add" /\ o.touched = {}
  BY DEF IInv, OpOK, AddFindQueue, Adding, InPlace, Cleaning
<1>2. UNCHANGED <<bookings, queues, today>>
  BY DEF AddFindQueue
<1>3. CASE InsertInto(r, queues[o.q])
  <2>1. queues[o.q] \in Doc /\ GoodArray(queues[o.q].persons)
    BY <1>1 DEF IInv, QueuesOK
  <2> QED BY <1>1, <1>2, <1>3, <2>1, InsertIntoGood, OnlyOp
<1>4. CASE Become(r, create)
  <2> HIDE DEF o
  <2>1. create \in Operation
    BY <1>1 DEF Operation, Steps
  <2>2. /\ create.docs = o.docs /\ create.touched = {} /\ create.kind = "add"
        /\ create.b = o.b /\ create.at = "createQueue" /\ create.q = o.q
    BY <1>1 DEF Operation
  <2> HIDE DEF create
  <2>3. OpOK(create)
    BY <1>1, <2>1, <2>2 DEF OpOK, TouchedOK, Adding, Ensuring, Cleaning
  <2> QED BY <1>2, <1>4, <2>3, OnlyOp
<1> QED BY <1>3, <1>4 DEF AddFindQueue

LEMMA AddCreateQueueKeeps ==
  ASSUME IInv, NEW r \in Procs, AddCreateQueue(r)
  PROVE  IInv'
<1>1. op[r].at = "createQueue" /\ op[r].kind = "add" /\ OpOK(op[r])
  BY DEF IInv, OpOK, AddCreateQueue, Adding, Cleaning
<1>2. CASE Become(r, AfterAdd(op[r], TRUE)) /\ UNCHANGED queues
  BY <1>1, <1>2, AfterAddGood, OnlyOp DEF AddCreateQueue
<1>3. CASE queues' = [queues EXCEPT ![op[r].q] = EmptyDoc] /\ InsertInto(r, EmptyDoc)
  <2>1. QueuesOK(queues')
    BY <1>3, NoDocGood DEF IInv, QueuesOK
  <2>2. \E o : OpOK(o) /\ Become(r, o)
    BY <1>1, <1>3, NoDocGood, InsertIntoGood
  <2>3. op' \in [Procs -> Operation] /\ \A s \in Procs : OpOK(op'[s])
    BY <2>2, OpsKept
  <2> QED BY <2>1, <2>3 DEF AddCreateQueue, IInv
<1> QED BY <1>2, <1>3 DEF AddCreateQueue
-----------------------------------------------------------------------------
\* Saves

LEMMA SavedDoc ==
  ASSUME NEW d \in Doc, NEW ps, GoodArray(ps), NEW n \in Nat
  PROVE  /\ [d EXCEPT !.persons = ps, !.v = n] \in Doc
         /\ [d EXCEPT !.persons = ps, !.v = n].persons = ps
  BY DEF Doc, GoodArray

LEMMA SaveQueueKeeps ==
  ASSUME IInv, NEW r \in Procs, SaveQueue(r)
  PROVE  IInv'
<1> DEFINE o == op[r]
<1>1. OpOK(o) /\ o \in Operation
  BY DEF IInv, OpOK
<1>2. op' \in [Procs -> Operation] /\ \A s \in Procs : OpOK(op'[s])
  <2>1. OpOK(AfterSave(o)) /\ OpOK(AfterVersionError(o))
    BY <1>1, AfterSaveGood
  <2>2. Become(r, AfterSave(o)) \/ Become(r, AfterVersionError(o))
    BY DEF SaveQueue
  <2> QED BY <2>1, <2>2, OpsKept
<1>3. QueuesOK(queues')
  <2>1. CASE UNCHANGED queues
    BY <2>1 DEF IInv, QueuesOK
  <2>2. CASE queues' = [queues EXCEPT ![o.q].persons = o.docs[o.q].persons, ![o.q].v = @ + 1]
    <3> SUFFICES ASSUME NEW q \in Queues
                 PROVE  queues'[q] \in Doc /\ GoodArray(queues'[q].persons)
      BY <2>2 DEF IInv, QueuesOK
    <3>1. queues[q] \in Doc /\ GoodArray(queues[q].persons)
      BY DEF IInv, QueuesOK
    <3>2. CASE q # o.q
      BY <2>2, <3>1, <3>2 DEF IInv, QueuesOK
    <3>3. CASE q = o.q
      <4> DEFINE ps == o.docs[q].persons
      <4>1. GoodArray(ps)
        BY <1>1 DEF OpOK
      <4>2. queues'[q] = [queues[q] EXCEPT !.persons = ps, !.v = queues[q].v + 1]
        BY <2>2, <3>1, <3>3 DEF IInv, QueuesOK, Doc
      <4>3. queues[q].v + 1 \in Nat
        BY <3>1 DEF Doc
      <4> HIDE DEF ps
      <4>4. /\ [queues[q] EXCEPT !.persons = ps, !.v = queues[q].v + 1] \in Doc
            /\ [queues[q] EXCEPT !.persons = ps, !.v = queues[q].v + 1].persons = ps
        BY <3>1, <4>1, <4>3, SavedDoc
      <4> QED BY <4>1, <4>2, <4>4
    <3> QED BY <3>2, <3>3
  <2> QED BY <2>1, <2>2 DEF SaveQueue
<1> QED BY <1>2, <1>3 DEF SaveQueue, IInv

\* Writing changed elements in place.
LEMMA PatchedGood ==
  ASSUME NEW ps, GoodArray(ps), NEW o, OpOK(o), o.q \in Queues
  PROVE  GoodArray(Patched(ps, o))
<1> DEFINE local == o.docs[o.q].persons
           qs == Patched(ps, o)
<1>1. ps \in Seq(Person) /\ DOMAIN ps = 1..Len(ps) /\ Len(ps) \in Nat
  BY DEF GoodArray
<1>2. \A k \in o.touched : local[k] \in Person /\ local[k].st # "inService"
  BY Element DEF OpOK, TouchedOK, GoodArray
<1>3. DOMAIN qs = DOMAIN ps
  BY DEF Patched
<1>4. \A k \in DOMAIN ps : /\ qs[k] \in Person /\ qs[k].b = ps[k].b
                           /\ qs[k].st # "inService" \/ qs[k].st = ps[k].st
  <2> SUFFICES ASSUME NEW k \in DOMAIN ps
               PROVE  /\ qs[k] \in Person /\ qs[k].b = ps[k].b
                      /\ qs[k].st # "inService" \/ qs[k].st = ps[k].st
    OBVIOUS
  <2>1. ps[k] \in Person
    BY <1>1
  <2>2. CASE k \notin o.touched
    <3>1. qs[k] = ps[k]
      BY <2>2 DEF Patched
    <3> QED BY <2>1, <3>1
  <2>3. CASE k \in o.touched /\ o.at = "saveStatus"
    <3>1. qs[k] = [ps[k] EXCEPT !.st = local[k].st]
      BY <2>3 DEF Patched
    <3>2. local[k].st \in PersonStatus /\ local[k].st # "inService"
      BY <1>2, <2>3 DEF Person
    <3> HIDE DEF qs, local
    <3> QED BY <2>1, <3>1, <3>2 DEF Person
  <2>4. CASE k \in o.touched /\ o.at # "saveStatus"
    <3>1. qs[k] = [ps[k] EXCEPT !.rem = local[k].rem]
      BY <2>4 DEF Patched
    <3>2. local[k].rem \in BOOLEAN
      BY <1>2, <2>4 DEF Person
    <3> HIDE DEF qs, local
    <3> QED BY <2>1, <3>1, <3>2 DEF Person
  <2> QED BY <2>2, <2>3, <2>4
<1>5. qs \in Seq(Person)
  <2>1. qs = [k \in 1..Len(ps) |-> qs[k]]
    BY <1>1 DEF Patched
  <2> QED BY <1>1, <1>4, <2>1, Rebuilt
<1> HIDE DEF qs
<1>6. OneInService(qs) /\ NoDuplicate(qs)
  BY <1>3, <1>4 DEF OneInService, NoDuplicate, GoodArray
<1> QED BY <1>5, <1>6 DEF GoodArray, qs

LEMMA SavePersonsKeeps ==
  ASSUME IInv, NEW r \in Procs, SavePersons(r)
  PROVE  IInv'
<1> DEFINE o == op[r]
<1>1. OpOK(o)
  BY DEF IInv
<1>2. op' \in [Procs -> Operation] /\ \A s \in Procs : OpOK(op'[s])
  <2>1. OpOK(AfterSave(o)) /\ OpOK(AfterVersionError(o))
    BY <1>1, AfterSaveGood
  <2>2. Become(r, AfterSave(o)) \/ Become(r, AfterVersionError(o))
    BY DEF SavePersons
  <2> QED BY <2>1, <2>2, OpsKept
<1>3. QueuesOK(queues')
  <2>1. CASE UNCHANGED queues
    BY <2>1 DEF IInv, QueuesOK
  <2>2. CASE queues' = [queues EXCEPT ![o.q].persons = Patched(queues[o.q].persons, o)]
    <3>1. o.q \in Queues => GoodArray(Patched(queues[o.q].persons, o))
      BY <1>1, PatchedGood DEF IInv, QueuesOK
    <3> QED BY <2>2, <3>1, PersonsWritten DEF IInv
  <2> QED BY <2>1, <2>2 DEF SavePersons
<1> QED BY <1>2, <1>3 DEF SavePersons, IInv

LEMMA StartServiceKeeps ==
  ASSUME IInv, NEW r \in Procs, StartService(r)
  PROVE  IInv'
<1> DEFINE q == op[r].q
           b == op[r].b
           ps == queues[q].persons
           mine == {k \in DOMAIN ps : ps[k].b = b /\ ps[k].st = op[r].was}
           qs == [k \in DOMAIN ps |->
                    IF k \in mine THEN [ps[k] EXCEPT !.st = "inService"] ELSE ps[k]]
<1>1. /\ Become(r, Idle) /\ UNCHANGED <<bookings, today>>
      /\ \/ ~AnotherInService(ps, b) /\ queues' = [queues EXCEPT ![q].persons = qs]
         \/ UNCHANGED queues
  BY DEF StartService
<1>2. ASSUME q \in Queues, ~AnotherInService(ps, b)
      PROVE  GoodArray(qs)
  <2>1. GoodArray(ps)
    BY <1>2 DEF IInv, QueuesOK
  <2> HIDE DEF b, ps
  <2>2. ps \in Seq(Person) /\ DOMAIN ps = 1..Len(ps) /\ Len(ps) \in Nat
    BY <2>1 DEF GoodArray
  <2>3. \A k \in DOMAIN ps : /\ qs[k] \in Person /\ qs[k].b = ps[k].b
                             /\ qs[k].st = "inService" => k \in mine \/ ps[k].st = "inService"
    <3> SUFFICES ASSUME NEW k \in DOMAIN ps
                 PROVE  /\ qs[k] \in Person /\ qs[k].b = ps[k].b
                        /\ qs[k].st = "inService" => k \in mine \/ ps[k].st = "inService"
      OBVIOUS
    <3>1. ps[k] \in Person
      BY <2>2
    <3> QED BY <3>1 DEF Person, PersonStatus
  <2>4. DOMAIN qs = DOMAIN ps /\ \A k \in mine : ps[k].b = b
    OBVIOUS
  <2>5. qs \in Seq(Person)
    <3>1. qs = [k \in 1..Len(ps) |-> qs[k]]
      BY <2>2
    <3> QED BY <2>2, <2>3, <3>1, Rebuilt
  <2> HIDE DEF qs, mine
  <2>6. NoDuplicate(qs)
    BY <2>1, <2>3, <2>4 DEF NoDuplicate, GoodArray
  <2>7. OneInService(qs)
    <3> SUFFICES ASSUME NEW i \in DOMAIN ps, NEW j \in DOMAIN ps,
                        qs[i].st = "inService", qs[j].st = "inService"
                 PROVE  i = j
      BY <2>4 DEF OneInService
    <3>1. ps[i].b = b /\ ps[j].b = b
      BY <1>2, <2>3, <2>4 DEF AnotherInService
    <3> QED BY <2>1, <3>1 DEF GoodArray, NoDuplicate
  <2> QED BY <2>5, <2>6, <2>7 DEF GoodArray
<1> HIDE DEF qs
<1>3. QueuesOK(queues')
  <2>1. CASE UNCHANGED queues
    BY <2>1 DEF IInv, QueuesOK
  <2>2. CASE ~AnotherInService(ps, b) /\ queues' = [queues EXCEPT ![q].persons = qs]
    BY <1>2, <2>2, PersonsWritten DEF IInv
  <2> QED BY <1>1, <2>1, <2>2
<1> QED BY <1>1, <1>3, IdleGood, OpsKept DEF IInv
-----------------------------------------------------------------------------
\* The other steps of the handlers

\* The operation goes to a step that adds nobody; its documents stay.
LEMMA MovesOn ==
  ASSUME NEW o, OpOK(o), NEW n \in Operation,
         n.docs = o.docs, n.kind = o.kind, n.b = o.b, n.q = o.q, n.touched = o.touched,
         n.at \notin Adding \cup Ensuring \cup Cleaning \cup {"nextBooking"},
         n.touched = {} \/ InPlace(n)
  PROVE  OpOK(n)
  BY DEF OpOK, TouchedOK

LEMMA MarkAbsentKeeps ==
  ASSUME IInv, NEW r \in Procs, MarkAbsent(r)
  PROVE  IInv'
<1> DEFINE o == op[r]
           n == [o EXCEPT !.at = IF o.kind = "status" THEN "saveStatus" ELSE "save"]
<1>1. OpOK(o) /\ o \in Operation
  BY DEF IInv, OpOK
<1>2. /\ bookings' \in [Bookings -> Booking] /\ Become(r, n)
      /\ UNCHANGED <<queues, today>> /\ o.at = "markAbsent"
  <2>1. WriteStatus(o.b, "absent")
    BY DEF MarkAbsent
  <2> QED BY <2>1, StatusWritten DEF MarkAbsent, IInv, BookingStatus, FinalStatus
<1> HIDE DEF o
<1>3. OpOK(n)
  <2>1. n \in Operation
    BY <1>1 DEF Operation, Steps
  <2>2. /\ n.docs = o.docs /\ n.kind = o.kind /\ n.b = o.b /\ n.q = o.q
        /\ n.touched = o.touched
        /\ n.at = IF o.kind = "status" THEN "saveStatus" ELSE "save"
    BY <1>1 DEF Operation
  <2> HIDE DEF n
  <2>3. CASE o.kind = "status"
    BY <1>1, <2>1, <2>2, <2>3, MovesOn DEF Adding, Ensuring, InPlace, Cleaning
  <2>4. CASE o.kind # "status"
    <3>1. o.touched = {}
      BY <1>1, <1>2, <2>4 DEF OpOK, InPlace, Cleaning
    <3> QED BY <1>1, <2>1, <2>2, <2>4, <3>1, MovesOn DEF Adding, Ensuring, Cleaning
  <2> QED BY <2>3, <2>4
<1> QED BY <1>2, <1>3, OpsKept DEF IInv, QueuesOK

LEMMA BookingStepsKeep ==
  ASSUME IInv, NEW r \in Procs, SideEffect(r) \/ DeleteBookingRow(r)
  PROVE  IInv'
<1>1. Become(r, Idle) /\ UNCHANGED <<queues, today>>
  BY DEF SideEffect, DeleteBookingRow
<1>2. bookings' \in [Bookings -> Booking]
  <2>1. CASE SideEffect(r)
    <3>1. WriteStatus(op[r].b, EffectOn(op[r].to))
      BY <2>1 DEF SideEffect
    <3>2. EffectOn(op[r].to) \in BookingStatus
      BY DEF EffectOn, BookingStatus, LiveStatus, FinalStatus
    <3> QED BY <3>1, <3>2, StatusWritten DEF IInv
  <2>2. CASE DeleteBookingRow(r)
    <3>1. WriteStatus(op[r].b, "deleted")
      BY <2>2 DEF DeleteBookingRow
    <3> QED BY <3>1, StatusWritten DEF IInv
  <2> QED BY <2>1, <2>2
<1> QED BY <1>1, <1>2, IdleGood, OpsKept DEF IInv, QueuesOK

LEMMA DeleteFindPersonKeeps ==
  ASSUME IInv, NEW r \in Procs, DeleteFindPerson(r)
  PROVE  IInv'
<1> DEFINE o == op[r]
           row == [o EXCEPT !.at = "deleteBooking"]
           Found(q, i) == [Loaded(o, q, [queues[q] EXCEPT !.persons = Remove(queues[q].persons, i)])
                             EXCEPT !.at = "save"]
<1>1. OpOK(o) /\ o \in Operation /\ o.touched = {}
  BY DEF IInv, OpOK, DeleteFindPerson, InPlace, Cleaning
<1>2. UNCHANGED <<bookings, queues, today>>
  BY DEF DeleteFindPerson
<1>3. CASE Become(r, row)
  <2> HIDE DEF o
  <2>1. row \in Operation
    BY <1>1 DEF Operation, Steps
  <2>2. /\ row.docs = o.docs /\ row.kind = o.kind /\ row.b = o.b /\ row.q = o.q
        /\ row.touched = o.touched /\ row.at = "deleteBooking"
    BY <1>1 DEF Operation
  <2> HIDE DEF row
  <2>3. OpOK(row)
    BY <1>1, <2>1, <2>2, MovesOn DEF Adding, Ensuring, Cleaning
  <2> QED BY <1>2, <1>3, <2>3, OnlyOp
<1>4. ASSUME NEW q \in Queues, NEW i \in PlaceOf(queues[q].persons, o.b), Become(r, Found(q, i))
      PROVE  IInv'
  <2>1. queues[q] \in Doc /\ GoodArray(Remove(queues[q].persons, i))
    BY <1>4, PlaceInside, RemoveGood DEF IInv, QueuesOK
  <2> HIDE DEF o
  <2>2. OpOK(Found(q, i))
    BY <1>1, <2>1, LoadedStep DEF Steps, Adding, Ensuring, Cleaning
  <2> QED BY <1>2, <1>4, <2>2, OnlyOp
<1> QED BY <1>3, <1>4 DEF DeleteFindPerson
-----------------------------------------------------------------------------
\* The population job

LEMMA PopulateBookingKeeps ==
  ASSUME IInv, NEW r \in Procs, PopulateBooking(r)
  PROVE  IInv'
<1> DEFINE o == op[r]
           rest(b, as) == [o EXCEPT !.todo = @ \ {b}, !.confirmed = @ \ {b}, !.b = b,
                                    !.agents = as]
<1>1. /\ OpOK(o) /\ o \in Operation /\ o.touched = {} /\ o.at = "nextBooking"
      /\ o.kind = "populate"
  BY DEF IInv, OpOK, PopulateBooking, InPlace, Cleaning
<1>2. PICK b \in o.todo :
        /\ \/ WriteStatus(b, "inQueue")
           \/ UNCHANGED bookings
        /\ \/ Become(r, AfterEnsure(rest(b, bookings[b].agents)))
           \/ Become(r, AfterEnsure(rest(b, {})))
  BY <1>1 DEF PopulateBooking, Operation
<1>3. b \in Bookings /\ bookings[b].agents \subseteq Agents
  BY <1>1 DEF Operation, IInv, Booking
<1>4. bookings' \in [Bookings -> Booking]
  BY <1>2, StatusWritten DEF IInv, BookingStatus, LiveStatus
<1> HIDE DEF o
<1>5. ASSUME NEW as \in SUBSET Agents
      PROVE  OpOK(AfterEnsure(rest(b, as)))
  <2> DEFINE n == rest(b, as)
  <2>1. n \in Operation
    BY <1>1, <1>3 DEF Operation
  <2>2. /\ n.docs = o.docs /\ n.kind = "populate" /\ n.b = b /\ n.q = o.q
        /\ n.touched = {} /\ n.at = "nextBooking"
    BY <1>1 DEF Operation
  <2> HIDE DEF n
  <2>3. OpOK(n)
    BY <1>1, <1>3, <2>1, <2>2 DEF OpOK, TouchedOK, Adding, Ensuring, Cleaning
  <2>4. OpOK(AfterEnsure(n))
    BY <1>3, <2>2, <2>3, AfterEnsureGood
  <2> QED BY <2>4 DEF n
<1>6. op' \in [Procs -> Operation] /\ \A s \in Procs : OpOK(op'[s])
  BY <1>2, <1>3, <1>5, OpsKept
<1> QED BY <1>4, <1>6 DEF PopulateBooking, IInv, QueuesOK

\* The operation goes to another step of ensurePersonInQueue.
LEMMA EnsuresOn ==
  ASSUME NEW o, OpOK(o), o.kind = "populate", o.b \in Bookings,
         NEW n \in Operation, n.docs = o.docs, n.kind = o.kind, n.b = o.b,
         n.touched = o.touched, n.at \in Ensuring, n.q \in Queues
  PROVE  OpOK(n)
  BY DEF OpOK, TouchedOK, InPlace, Adding, Ensuring, Cleaning

LEMMA EnsureFindQueueKeeps ==
  ASSUME IInv, NEW r \in Procs, EnsureFindQueue(r)
  PROVE  IInv'
<1> DEFINE o == op[r]
           rest(a) == [o EXCEPT !.agents = @ \ {a}]
           next(a) == [rest(a) EXCEPT !.q = <<a, today>>, !.at = "ensureBooking"]
<1>1. /\ OpOK(o) /\ o \in Operation /\ o.touched = {} /\ o.at = "ensureFind"
      /\ o.kind = "populate" /\ o.b \in Bookings
  BY DEF IInv, OpOK, EnsureFindQueue, InPlace, Ensuring, Cleaning
<1>2. PICK a \in o.agents : Become(r, AfterEnsure(rest(a))) \/ Become(r, next(a))
  BY Zenon DEF EnsureFindQueue
<1>3. <<a, today>> \in Queues
  BY <1>1 DEF Operation, IInv, Queues
<1> HIDE DEF o
<1>4. OpOK(rest(a)) /\ rest(a).kind = "populate" /\ rest(a).b \in Bookings
  <2>1. rest(a) \in Operation
    BY <1>1 DEF Operation
  <2>2. /\ rest(a).docs = o.docs /\ rest(a).touched = {} /\ rest(a).kind = "populate"
        /\ rest(a).b = o.b /\ rest(a).at = "ensureFind"
    BY <1>1 DEF Operation
  <2> HIDE DEF rest
  <2> QED BY <1>1, <2>1, <2>2 DEF OpOK, TouchedOK, Adding, Ensuring, Cleaning
<1>5. OpOK(AfterEnsure(rest(a)))
  BY <1>4, AfterEnsureGood
<1>6. OpOK(next(a))
  <2> HIDE DEF rest
  <2>1. next(a) \in Operation
    BY <1>3, <1>4 DEF OpOK, Operation, Steps
  <2>2. /\ next(a).docs = rest(a).docs /\ next(a).touched = rest(a).touched
        /\ next(a).kind = rest(a).kind /\ next(a).b = rest(a).b
        /\ next(a).at = "ensureBooking" /\ next(a).q = <<a, today>>
    BY <1>4 DEF OpOK, Operation
  <2> HIDE DEF next
  <2> QED BY <1>3, <1>4, <2>1, <2>2, EnsuresOn DEF Ensuring, Cleaning
<1> QED BY <1>2, <1>5, <1>6, OnlyOp DEF EnsureFindQueue

LEMMA EnsureReadBookingKeeps ==
  ASSUME IInv, NEW r \in Procs, EnsureReadBooking(r)
  PROVE  IInv'
<1> DEFINE o == op[r]
           n == [o EXCEPT !.at = "ensureCreate"]
<1>1. /\ OpOK(o) /\ o \in Operation /\ o.kind = "populate" /\ o.b \in Bookings
      /\ o.q \in Queues
  BY DEF IInv, OpOK, EnsureReadBooking, Ensuring, Cleaning
<1>2. Become(r, n) \/ Become(r, AfterEnsure(o))
  BY DEF EnsureReadBooking
<1> HIDE DEF o
<1>3. n \in Operation
  BY <1>1 DEF Operation, Steps
<1>4. /\ n.docs = o.docs /\ n.touched = o.touched /\ n.kind = o.kind /\ n.b = o.b
      /\ n.at = "ensureCreate" /\ n.q = o.q
  BY <1>1 DEF Operation
<1> HIDE DEF n
<1>5. OpOK(n) /\ OpOK(AfterEnsure(o))
  BY <1>1, <1>3, <1>4, EnsuresOn, AfterEnsureGood DEF Ensuring, Cleaning
<1> QED BY <1>2, <1>5, OnlyOp DEF EnsureReadBooking

LEMMA EnsureCreateQueueKeeps ==
  ASSUME IInv, NEW r \in Procs, EnsureCreateQueue(r)
  PROVE  IInv'
<1> DEFINE o == op[r]
           n == [o EXCEPT !.at = "ensureRead"]
<1>1. /\ OpOK(o) /\ o \in Operation /\ o.kind = "populate" /\ o.b \in Bookings
      /\ o.q \in Queues
  BY DEF IInv, OpOK, EnsureCreateQueue, Ensuring, Cleaning
<1>2. Become(r, n) /\ queues' = [queues EXCEPT ![o.q].exists = TRUE]
  BY DEF EnsureCreateQueue
<1>3. QueuesOK(queues')
  BY <1>2 DEF IInv, QueuesOK, Doc
<1> HIDE DEF o
<1>4. n \in Operation
  BY <1>1 DEF Operation, Steps
<1>5. /\ n.docs = o.docs /\ n.touched = o.touched /\ n.kind = o.kind /\ n.b = o.b
      /\ n.at = "ensureRead" /\ n.q = o.q
  BY <1>1 DEF Operation
<1> HIDE DEF n
<1>6. OpOK(n)
  BY <1>1, <1>4, <1>5, EnsuresOn DEF Ensuring, Cleaning
<1> QED BY <1>2, <1>3, <1>6, OpsKept DEF EnsureCreateQueue, IInv

LEMMA EnsureReadQueueKeeps ==
  ASSUME IInv, NEW r \in Procs, EnsureReadQueue(r)
  PROVE  IInv'
<1> DEFINE o == op[r]
           n(top) == [o EXCEPT !.at = "push", !.pos = top + 1]
<1>1. /\ OpOK(o) /\ o \in Operation /\ o.kind = "populate" /\ o.b \in Bookings
      /\ o.q \in Queues
  BY DEF IInv, OpOK, EnsureReadQueue, Ensuring, Cleaning
<1>2. \/ Become(r, AfterEnsure(o))
      \/ \E top \in TopPosition(queues[o.q].persons) : Become(r, n(top))
  BY DEF EnsureReadQueue
<1>3. ASSUME NEW top \in TopPosition(queues[o.q].persons)
      PROVE  OpOK(n(top))
  <2>1. top + 1 \in Nat
    <3>1. top \in Nat
      BY <1>1, TopIsNat DEF IInv, QueuesOK, GoodArray
    <3> QED BY <3>1
  <2> HIDE DEF o
  <2>2. n(top) \in Operation
    BY <1>1, <2>1 DEF Operation, Steps
  <2>3. /\ n(top).docs = o.docs /\ n(top).touched = o.touched /\ n(top).kind = o.kind
        /\ n(top).b = o.b /\ n(top).at = "push" /\ n(top).q = o.q
    BY <1>1 DEF Operation
  <2> HIDE DEF n
  <2> QED BY <1>1, <2>2, <2>3, EnsuresOn DEF Ensuring, Cleaning
<1>4. OpOK(AfterEnsure(o))
  BY <1>1, AfterEnsureGood
<1> QED BY <1>2, <1>3, <1>4, OnlyOp DEF EnsureReadQueue

LEMMA EnsurePushKeeps ==
  ASSUME IInv, NEW r \in Procs, EnsurePush(r)
  PROVE  IInv'
<1> DEFINE o == op[r]
           ps == queues[o.q].persons
<1>1. /\ OpOK(o) /\ o.kind = "populate" /\ o.b \in Bookings /\ o.q \in Queues
      /\ o.pos \in Nat
  BY DEF IInv, OpOK, EnsurePush, Ensuring, Operation, Cleaning
<1>2. QueuesOK(queues')
  <2>1. CASE UNCHANGED queues
    BY <2>1 DEF IInv, QueuesOK
  <2>2. CASE /\ ~Holds(ps, o.b)
             /\ queues' = [queues EXCEPT ![o.q].persons = Append(ps, NewPerson(o.b, o.pos))]
    <3>1. GoodArray(Append(ps, NewPerson(o.b, o.pos)))
      BY <1>1, <2>2, AppendGood DEF IInv, QueuesOK
    <3> QED BY <2>2, <3>1, PersonsWritten DEF IInv
  <2> QED BY <2>1, <2>2 DEF EnsurePush, Pushable
<1>3. OpOK(AfterEnsure(o))
  BY <1>1, AfterEnsureGood
<1> QED BY <1>2, <1>3, OpsKept DEF EnsurePush, IInv
-----------------------------------------------------------------------------
\* Reminders and cleanups

LEMMA RemindQueueKeeps ==
  ASSUME IInv, NEW r \in Procs, RemindQueue(r)
  PROVE  IInv'
<1> DEFINE o == op[r]
           Reminded(q, sent) == [k \in DOMAIN o.docs[q].persons |->
             [o.docs[q].persons[k] EXCEPT !.rem = @ \/ k \in sent]]
           docs(q, sent) == [o.docs EXCEPT ![q].persons = Reminded(q, sent)]
           n(q, sent) == [o EXCEPT !.q = q, !.left = @ \ {q}, !.at = "saveFlags",
                            !.touched = sent, !.docs = docs(q, sent)]
           Near(q) == {k \in DOMAIN o.docs[q].persons : o.docs[q].persons[k].st = "waiting"}
<1>1. OpOK(o) /\ o \in Operation /\ o.kind = "remind" /\ UNCHANGED <<bookings, queues, today>>
  BY DEF IInv, OpOK, RemindQueue
<1>2. PICK q \in Queues : \E sent \in SUBSET Near(q) : Become(r, n(q, sent))
  <2> DEFINE near(q) == {k \in DOMAIN o.docs[q].persons :
               /\ o.docs[q].persons[k].st = "waiting"
               /\ ~o.docs[q].persons[k].rem
               /\ Exists(o.docs[q].persons[k].b)}
             copy(q, sent) == [o EXCEPT !.q = q, !.left = @ \ {q}, !.at = "saveFlags",
                                 !.touched = sent, !.docs[q].persons = Reminded(q, sent)]
  <2>1. PICK q \in o.left : \E sent \in SUBSET near(q) : Become(r, copy(q, sent))
    BY Zenon DEF RemindQueue
  <2>2. PICK sent \in SUBSET near(q) : Become(r, copy(q, sent))
    BY <2>1
  <2>3. near(q) \subseteq Near(q) /\ q \in Queues
    BY <1>1 DEF Operation
  <2>4. copy(q, sent) = n(q, sent)
    <3> HIDE DEF o, Reminded
    <3> QED BY <1>1 DEF Operation
  <2> HIDE DEF copy, n, near, Near
  <2> QED BY <2>2, <2>3, <2>4
<1>3. PICK sent \in SUBSET Near(q) : Become(r, n(q, sent))
  BY <1>2
<1> HIDE DEF o
<1> DEFINE ps == o.docs[q].persons
           qs == Reminded(q, sent)
<1>4. GoodArray(ps) /\ ps \in Seq(Person) /\ DOMAIN ps = 1..Len(ps) /\ Len(ps) \in Nat
  BY <1>1 DEF OpOK, GoodArray
<1>5. \A k \in DOMAIN ps : /\ qs[k] \in Person /\ qs[k].b = ps[k].b /\ qs[k].st = ps[k].st
  <2> SUFFICES ASSUME NEW k \in DOMAIN ps
               PROVE  qs[k] \in Person /\ qs[k].b = ps[k].b /\ qs[k].st = ps[k].st
    OBVIOUS
  <2>1. ps[k] \in Person
    BY <1>4, Element
  <2>2. PICK rem \in BOOLEAN : qs[k] = [ps[k] EXCEPT !.rem = rem]
    <3>1. (ps[k].rem \/ k \in sent) \in BOOLEAN
      OBVIOUS
    <3>2. qs[k] = [ps[k] EXCEPT !.rem = ps[k].rem \/ k \in sent]
      OBVIOUS
    <3> QED BY <3>1, <3>2
  <2> HIDE DEF qs, ps
  <2> QED BY <2>1, <2>2 DEF Person
<1>6. GoodArray(qs) /\ DOMAIN qs = DOMAIN ps
  <2>1. qs = [k \in 1..Len(ps) |-> qs[k]] /\ DOMAIN qs = DOMAIN ps
    BY <1>4
  <2>2. qs \in Seq(Person)
    BY <1>4, <1>5, <2>1, Rebuilt
  <2>3. SamePeople(ps, qs)
    BY <1>5, <2>1 DEF SamePeople
  <2> HIDE DEF qs
  <2> QED BY <1>4, <2>1, <2>2, <2>3, SamePeopleGood
<1>7. sent \in SUBSET Nat /\ \A k \in sent : k \in DOMAIN qs /\ qs[k].st # "inService"
  BY <1>4, <1>5, <1>6
<1>8. docs(q, sent) = [o.docs EXCEPT ![q].persons = qs]
  OBVIOUS
<1>9. Become(r, [o EXCEPT !.q = q, !.left = @ \ {q}, !.at = "saveFlags",
                          !.touched = sent, !.docs = docs(q, sent)])
  BY <1>3
<1> HIDE DEF qs, ps, n
<1>10. /\ docs(q, sent) \in [Queues -> Doc] /\ docs(q, sent)[q].persons = qs
       /\ \A c \in Queues : GoodArray(docs(q, sent)[c].persons)
  <2>1. o.docs \in [Queues -> Doc] /\ \A c \in Queues : GoodArray(o.docs[c].persons)
    BY <1>1 DEF OpOK, Operation
  <2> HIDE DEF docs
  <2>2. \A c \in Queues : docs(q, sent)[c] = IF c = q THEN [o.docs[q] EXCEPT !.persons = qs]
                                                      ELSE o.docs[c]
    BY <1>8, <2>1
  <2>3. DOMAIN docs(q, sent) = Queues /\ docs(q, sent) = [c \in Queues |-> docs(q, sent)[c]]
    BY <1>8, <2>1
  <2>4. [o.docs[q] EXCEPT !.persons = qs] \in Doc /\ [o.docs[q] EXCEPT !.persons = qs].persons = qs
    BY <1>6, <2>1, ChangedDoc
  <2> QED BY <1>6, <2>1, <2>2, <2>3, <2>4
<1> HIDE DEF docs
<1> DEFINE m == [o EXCEPT !.q = q, !.left = @ \ {q}, !.at = "saveFlags",
                          !.touched = sent, !.docs = docs(q, sent)]
<1>11. m \in Operation
  BY <1>1, <1>7, <1>10 DEF Operation, Steps
<1>12. /\ m.docs = docs(q, sent) /\ m.touched = sent /\ m.kind = "remind"
       /\ m.at = "saveFlags" /\ m.q = q
  BY <1>1 DEF Operation
<1> HIDE DEF m
<1>13. OpOK(m)
  BY <1>7, <1>10, <1>11, <1>12 DEF OpOK, TouchedOK, InPlace, Adding, Ensuring, Cleaning
<1> QED BY <1>1, <1>9, <1>13, OnlyOp DEF m

LEMMA CleanupQueueKeeps ==
  ASSUME IInv, NEW r \in Procs, CleanupQueue(r)
  PROVE  IInv'
<1> DEFINE o == op[r]
           n(q) == [o EXCEPT !.q = q, !.left = @ \ {q}, !.at = "person",
                             !.touched = {}, !.i = 1]
<1>1. /\ OpOK(o) /\ o \in Operation /\ o.kind \in {"closed", "past"}
      /\ UNCHANGED <<bookings, queues, today>>
  BY DEF IInv, OpOK, CleanupQueue
<1>2. PICK q \in Queues : Become(r, n(q))
  BY <1>1 DEF CleanupQueue, Operation
<1> HIDE DEF o
<1>3. n(q) \in Operation
  BY <1>1 DEF Operation, Steps
<1>4. /\ n(q).docs = o.docs /\ n(q).touched = {} /\ n(q).kind = o.kind
      /\ n(q).at = "person" /\ n(q).q = q
  BY <1>1 DEF Operation
<1> HIDE DEF n
<1>5. OpOK(n(q))
  BY <1>1, <1>3, <1>4 DEF OpOK, TouchedOK, Adding, Ensuring, Cleaning
<1> QED BY <1>1, <1>2, <1>5, OnlyOp

\* The operation goes to another step of the cleanup; its documents stay.
LEMMA CleansOn ==
  ASSUME NEW o, OpOK(o), o.at \in Cleaning, NEW n \in Operation,
         n.docs = o.docs, n.kind = o.kind, n.b = o.b, n.q = o.q, n.touched = o.touched,
         n.at \in Cleaning \cup {"saveStatus"}
  PROVE  OpOK(n)
  BY DEF OpOK, TouchedOK, InPlace, Adding, Ensuring, Cleaning

LEMMA CleanupPersonKeeps ==
  ASSUME IInv, NEW r \in Procs, CleanupPerson(r)
  PROVE  IInv'
<1> DEFINE o == op[r]
           q == o.q
           ps == o.docs[q].persons
           next == [o EXCEPT !.i = @ + 1]
           Local(st) == [next EXCEPT !.docs[q].persons = SetStatus(ps, o.i, st),
                                     !.touched = @ \cup {o.i}]
           find == [o EXCEPT !.at = "findOrphans"]
           absent == [o EXCEPT !.at = "finalizeAbsent"]
<1>1. /\ OpOK(o) /\ o \in Operation /\ o.at = "person" /\ q \in Queues
      /\ o.kind \in {"closed", "past"} /\ UNCHANGED <<queues, today>>
  BY DEF IInv, OpOK, CleanupPerson, Cleaning
<1>2. bookings' \in [Bookings -> Booking]
  <2>1. \/ UNCHANGED bookings
        \/ WriteStatus(ps[o.i].b, "cancelled")
        \/ WriteStatus(ps[o.i].b, "completed")
    BY DEF CleanupPerson
  <2> QED BY <2>1, StatusWritten DEF IInv, BookingStatus, FinalStatus
<1>3. \/ Become(r, find) \/ Become(r, absent) \/ Become(r, next)
      \/ o.i \in DOMAIN ps /\ (Become(r, Local("absent")) \/ Become(r, Local("completed")))
  BY Zenon DEF CleanupPerson
<1> HIDE DEF o
<1>4. OpOK(find) /\ OpOK(absent)
  <2>1. find \in Operation /\ absent \in Operation
    BY <1>1 DEF Operation, Steps
  <2>2. /\ find.docs = o.docs /\ find.touched = o.touched /\ find.kind = o.kind
        /\ find.b = o.b /\ find.q = o.q /\ find.at = "findOrphans"
    BY <1>1 DEF Operation
  <2>3. /\ absent.docs = o.docs /\ absent.touched = o.touched /\ absent.kind = o.kind
        /\ absent.b = o.b /\ absent.q = o.q /\ absent.at = "finalizeAbsent"
    BY <1>1 DEF Operation
  <2> HIDE DEF find, absent
  <2> QED BY <1>1, <2>1, <2>2, <2>3, CleansOn DEF Cleaning
<1>5. OpOK(next)
  <2>1. next \in Operation
    BY <1>1 DEF Operation
  <2>2. /\ next.docs = o.docs /\ next.touched = o.touched /\ next.kind = o.kind
        /\ next.b = o.b /\ next.q = o.q /\ next.at = "person"
    BY <1>1 DEF Operation
  <2> HIDE DEF next
  <2> QED BY <1>1, <2>1, <2>2, CleansOn DEF Cleaning
<1>6. ASSUME NEW st \in {"absent", "completed"}, o.i \in DOMAIN ps
      PROVE  OpOK(Local(st))
  <2> DEFINE qs == SetStatus(ps, o.i, st)
             docs == [o.docs EXCEPT ![q].persons = qs]
             n == [next EXCEPT !.docs = docs, !.touched = @ \cup {o.i}]
  <2>1. /\ GoodArray(qs) /\ DOMAIN qs = DOMAIN ps /\ qs[o.i].st = st
        /\ \A k \in DOMAIN ps : k # o.i => qs[k] = ps[k]
    <3>1. GoodArray(ps) /\ st \in PersonStatus /\ st # "inService"
      BY <1>1 DEF OpOK, PersonStatus
    <3> HIDE DEF ps
    <3> QED BY <1>6, <3>1, SetStatusGood
  <2>2. Local(st) = n
    BY <1>1 DEF Operation
  <2>3. o.docs \in [Queues -> Doc] /\ \A c \in Queues : GoodArray(o.docs[c].persons)
    BY <1>1 DEF OpOK, Operation
  <2> HIDE DEF qs
  <2>4. /\ docs \in [Queues -> Doc] /\ docs[q].persons = qs
        /\ \A c \in Queues : GoodArray(docs[c].persons)
    <3>1. [o.docs[q] EXCEPT !.persons = qs] \in Doc /\ [o.docs[q] EXCEPT !.persons = qs].persons = qs
      BY <1>1, <2>1, <2>3, ChangedDoc
    <3>2. \A c \in Queues : docs[c] = IF c = q THEN [o.docs[q] EXCEPT !.persons = qs]
                                               ELSE o.docs[c]
      BY <2>3
    <3>3. DOMAIN docs = Queues /\ docs = [c \in Queues |-> docs[c]]
      BY <2>3
    <3> HIDE DEF docs
    <3> QED BY <1>1, <2>1, <2>3, <3>1, <3>2, <3>3
  <2>5. o.i \in Nat
    BY <1>1 DEF Operation
  <2> HIDE DEF docs, next
  <2>6. n \in Operation
    BY <1>5, <2>4, <2>5 DEF OpOK, Operation
  <2>7. /\ n.docs = docs /\ n.touched = next.touched \cup {o.i} /\ n.kind = next.kind
        /\ n.b = next.b /\ n.at = next.at /\ n.q = next.q
    BY <1>5 DEF OpOK, Operation
  <2>8. /\ next.touched = o.touched /\ next.kind = o.kind /\ next.at = "person"
        /\ next.q = q
    BY <1>1 DEF next, Operation
  <2> HIDE DEF n
  <2>9. \A k \in n.touched : k \in DOMAIN qs /\ qs[k].st # "inService"
    <3>1. \A k \in o.touched : k \in DOMAIN ps /\ ps[k].st # "inService"
      BY <1>1 DEF OpOK, TouchedOK
    <3> HIDE DEF ps
    <3> QED BY <1>6, <2>1, <2>7, <2>8, <3>1
  <2>10. OpOK(n)
    BY <1>1, <2>4, <2>6, <2>7, <2>8, <2>9 DEF OpOK, TouchedOK, InPlace, Adding, Ensuring, Cleaning
  <2> QED BY <2>2, <2>10
<1>7. op' \in [Procs -> Operation] /\ \A s \in Procs : OpOK(op'[s])
  <2> HIDE DEF find, absent, next, Local
  <2> QED BY <1>3, <1>4, <1>5, <1>6, OpsKept
<1> QED BY <1>1, <1>2, <1>7 DEF IInv, QueuesOK
LEMMA CleanupStepsKeep ==
  ASSUME IInv, NEW r \in Procs, FinalizeAbsent(r) \/ FindOrphans(r) \/ CancelOrphan(r)
  PROVE  IInv'
<1> DEFINE o == op[r]
           next == [o EXCEPT !.at = "person", !.i = @ + 1]
           found(bs, at) == [o EXCEPT !.todo = bs, !.at = at]
<1>1. OpOK(o) /\ o \in Operation /\ o.at \in Cleaning /\ UNCHANGED <<queues, today>>
  BY DEF IInv, OpOK, FinalizeAbsent, FindOrphans, CancelOrphan, Cleaning
<1>2. bookings' \in [Bookings -> Booking]
  <2>1. \/ UNCHANGED bookings
        \/ \E b : WriteStatus(b, "absent") \/ WriteStatus(b, "cancelled")
    BY Zenon DEF FinalizeAbsent, FindOrphans, CancelOrphan
  <2> QED BY <2>1, StatusWritten DEF IInv, BookingStatus, FinalStatus
<1>3. \/ Become(r, next)
      \/ \E bs \in SUBSET Bookings, at \in {"saveStatus", "cancelOrphan"} :
           Become(r, found(bs, at))
  <2>1. CASE FinalizeAbsent(r)
    BY <2>1, Zenon DEF FinalizeAbsent
  <2>2. CASE FindOrphans(r)
    <3> DEFINE orphans == {b \in Bookings : /\ Holds(o.docs[o.q].persons, b)
                                            /\ bookings[b].st = "inQueue"}
               at == IF orphans = {} THEN "saveStatus" ELSE "cancelOrphan"
    <3>1. Become(r, found(orphans, at))
      BY <2>2, Zenon DEF FindOrphans
    <3>2. orphans \in SUBSET Bookings /\ at \in {"saveStatus", "cancelOrphan"}
      OBVIOUS
    <3> HIDE DEF orphans, at, found
    <3> QED BY <3>1, <3>2
  <2>3. CASE CancelOrphan(r)
    <3> DEFINE at(b) == IF o.todo = {b} THEN "saveStatus" ELSE "cancelOrphan"
    <3>1. PICK b \in o.todo : Become(r, found(o.todo \ {b}, at(b)))
      BY <2>3, Zenon DEF CancelOrphan
    <3>2. o.todo \ {b} \in SUBSET Bookings /\ at(b) \in {"saveStatus", "cancelOrphan"}
      BY <1>1 DEF Operation
    <3> HIDE DEF at, found
    <3> QED BY <3>1, <3>2
  <2> QED BY <2>1, <2>2, <2>3
<1> HIDE DEF o
<1>4. OpOK(next)
  <2>0. o.i + 1 \in Nat
    BY <1>1 DEF Operation
  <2>1. next \in Operation
    BY <1>1, <2>0 DEF Operation, Steps
  <2>2. /\ next.docs = o.docs /\ next.touched = o.touched /\ next.kind = o.kind
        /\ next.b = o.b /\ next.q = o.q /\ next.at = "person"
    BY <1>1 DEF Operation
  <2> HIDE DEF next
  <2> QED BY <1>1, <2>1, <2>2, CleansOn DEF Cleaning
<1>5. ASSUME NEW bs \in SUBSET Bookings, NEW at \in {"saveStatus", "cancelOrphan"}
      PROVE  OpOK(found(bs, at))
  <2> DEFINE n == found(bs, at)
  <2>1. n \in Operation
    BY <1>1 DEF Operation, Steps
  <2>2. /\ n.docs = o.docs /\ n.touched = o.touched /\ n.kind = o.kind
        /\ n.b = o.b /\ n.q = o.q /\ n.at = at
    BY <1>1 DEF Operation
  <2> HIDE DEF n
  <2>3. OpOK(n)
    BY <1>1, <2>1, <2>2, CleansOn DEF Cleaning
  <2> QED BY <2>3 DEF n
<1>6. op' \in [Procs -> Operation] /\ \A s \in Procs : OpOK(op'[s])
  <2> HIDE DEF next, found
  <2> QED BY <1>3, <1>4, <1>5, OpsKept
<1> QED BY <1>1, <1>2, <1>6 DEF IInv, QueuesOK

LEMMA CompleteStaleKeeps ==
  ASSUME IInv, NEW r \in Procs, CompleteStale(r)
  PROVE  IInv'
<1> DEFINE o == op[r]
           n(b) == [o EXCEPT !.todo = @ \ {b}]
<1>1. OpOK(o) /\ o \in Operation /\ o.at = "stale"
  BY DEF IInv, OpOK, CompleteStale
<1>2. PICK b \in o.todo : /\ WriteStatus(b, "completed")
                          /\ Become(r, Idle) \/ Become(r, n(b))
  BY DEF CompleteStale
<1>3. bookings' \in [Bookings -> Booking]
  <2>1. WriteStatus(b, "completed")
    BY <1>2
  <2> QED BY <2>1, StatusWritten DEF IInv, BookingStatus, FinalStatus
<1> HIDE DEF o
<1>4. n(b) \in Operation
  BY <1>1 DEF Operation
<1>5. /\ n(b).docs = o.docs /\ n(b).touched = o.touched /\ n(b).kind = o.kind
      /\ n(b).b = o.b /\ n(b).q = o.q /\ n(b).at = "stale"
  BY <1>1 DEF Operation
<1>6. o.touched = {}
  BY <1>1 DEF OpOK, InPlace, Cleaning
<1> HIDE DEF n
<1>7. OpOK(n(b))
  BY <1>1, <1>4, <1>5, <1>6, MovesOn DEF Adding, Ensuring, Cleaning
<1> QED BY <1>2, <1>3, <1>7, IdleGood, OpsKept DEF CompleteStale, IInv, QueuesOK

-----------------------------------------------------------------------------
LEMMA StepsKeep ==
  ASSUME IInv, NEW r \in Procs, Step(r)
  PROVE  IInv'
  BY AddReadBookingKeeps, AddFindQueueKeeps, AddCreateQueueKeeps, SaveQueueKeeps,
     SavePersonsKeeps, StartServiceKeeps, MarkAbsentKeeps, BookingStepsKeep,
     DeleteFindPersonKeeps, PopulateBookingKeeps, EnsureFindQueueKeeps,
     EnsureReadBookingKeeps, EnsureCreateQueueKeeps, EnsureReadQueueKeeps,
     EnsurePushKeeps, RemindQueueKeeps, CleanupQueueKeeps, CleanupPersonKeeps,
     CleanupStepsKeep, CompleteStaleKeeps, Zenon
  DEF Step

LEMMA QueueRequestsKeep ==
  ASSUME IInv, NEW r \in Procs, QueueRequest(r)
  PROVE  IInv'
  BY AddRequestKeeps, StatusRequestKeeps, RemoveRequestKeeps, ReorderRequestKeeps
  DEF QueueRequest

LEMMA InitGood == Init => IInv
<1> SUFFICES ASSUME Init PROVE IInv
  OBVIOUS
<1>1. bookings \in [Bookings -> Booking]
  BY ConstantsAssumption DEF Init, Booking, Days
<1>2. today \in Days
  BY ConstantsAssumption DEF Init, Days
<1> QED BY <1>1, <1>2, NoDocsGood, IdleGood DEF Init, IInv, OpOK

LEMMA NextKeeps == IInv /\ [Next]_vars => IInv'
<1> SUFFICES ASSUME IInv, [Next]_vars PROVE IInv'
  OBVIOUS
<1>1. CASE UNCHANGED vars
  BY <1>1 DEF vars, IInv, QueuesOK
<1>2. ASSUME NEW r \in Procs, Crash(r)
      PROVE  IInv'
  BY <1>2, IdleGood, OnlyOp DEF Crash
<1>3. CASE DayPasses
  <2>1. today' \in Days
    BY <1>3, ConstantsAssumption DEF DayPasses, IInv, Days
  <2> QED BY <1>3, <2>1 DEF DayPasses, IInv, QueuesOK
<1>4. CASE AtRest
  BY <1>1, <1>4 DEF AtRest
<1> QED
  BY <1>1, <1>2, <1>3, <1>4, BookingRequestsKeep, QueueRequestsKeep, CronJobsKeep, StepsKeep
  DEF Next

\* The inductive invariant: stored queues and local copies alike are good, and
\* in-place changes never say "inService" (queue.service.ts:289-369).
THEOREM Inductive == Spec => []IInv
  BY InitGood, NextKeeps, PTL DEF Spec

\* Bookings, queues, the day and the operations in flight keep their types
\* (booking.model.ts, queue.model.ts): no position becomes negative.
THEOREM TypeCorrect == Spec => []TypeOK
<1>1. IInv => TypeOK
  BY DEF IInv, TypeOK, QueuesOK
<1> QED BY <1>1, Inductive, PTL

\* However many requests, jobs and processes interleave, an agent never has two
\* persons in service (queue.service.ts:305-332).
THEOREM OnePersonInService == Spec => []AtMostOneInService
<1>1. IInv => AtMostOneInService
  BY DEF IInv, AtMostOneInService, QueuesOK, GoodArray
<1> QED BY <1>1, Inductive, PTL

\* Nobody stands twice in a queue, whatever requests and population jobs race
\* (queue.service.ts:191, 258-262).
THEOREM NobodyTwice == Spec => []NoDuplicateBooking
<1>1. IInv => NoDuplicateBooking
  BY DEF IInv, NoDuplicateBooking, QueuesOK, GoodArray
<1> QED BY <1>1, Inductive, PTL

-----------------------------------------------------------------------------
\* Among requests.  A whole-array save is kept from undoing what happened since the
\* queue was loaded by the version; what leaves the version alone, the in-place
\* writes, changes nothing that a copy could bring back: neither who stands where
\* nor who is completed.

\* Arrays of the same people at the same positions, the same of them completed.
SameShape(ps, qs) ==
  /\ DOMAIN qs = DOMAIN ps
  /\ \A k \in DOMAIN ps :
       /\ qs[k].b = ps[k].b /\ qs[k].pos = ps[k].pos
       /\ qs[k].st = "completed" <=> ps[k].st = "completed"

\* cs is ps without the bookings gone, the bookings moved at other places: all others
\* are there, nobody is past anyone and nobody completed is anything else.
Carried(ps, cs, gone, moved) ==
  /\ \A i \in DOMAIN ps : ps[i].b \in gone \/ Holds(cs, ps[i].b)
  /\ \A b, c \in Bookings : Ahead(ps, b, c) /\ Ahead(cs, c, b) => {b, c} \cap moved # {}
  /\ \A i \in DOMAIN ps, j \in DOMAIN cs :
       ps[i].st = "completed" /\ cs[j].b = ps[i].b => cs[j].st = "completed"

Gone(o)  == IF o.kind \in {"remove", "delete"} THEN {o.b} ELSE {}
Moved(o) == IF o.kind = "reorder" THEN {o.b} ELSE {}

RequestKinds == {"none", "add", "status", "remove", "reorder", "delete"}
RequestSteps == Adding \cup {"idle", "save", "startService", "markAbsent", "saveStatus",
                             "effect", "findPerson", "deleteBooking"}
Saving == {"save", "markAbsent", "saveStatus"}

\* The save ahead writes the array, or single statuses.
WholeArray(o) == o.at = "save" \/ o.kind = "remove"

\* What the changed copy cs is to the stored array ps of the same version.
Agrees(o, ps, cs) ==
  IF WholeArray(o) THEN Carried(ps, cs, Gone(o), Moved(o))
  ELSE \A k \in o.touched : /\ k \in DOMAIN ps
                            /\ ps[k].st # "completed" /\ cs[k].st # "completed"

ReqOK(o, qs) ==
  /\ o.kind \in RequestKinds /\ o.at \in RequestSteps
  /\ o.kind = "add" => o.at \in Adding \cup {"save", "deleteBooking"}
  /\ o.at = "startService" => o.q \in Queues /\ o.was = "waiting"
  /\ o.at = "markAbsent" => o.kind \in {"status", "remove"}
  /\ o.at = "saveStatus" => o.kind = "status"
  /\ o.at = "findPerson" => o.kind = "delete"
  /\ o.at = "save" /\ o.kind = "add" => Holds(o.docs[o.q].persons, o.b)
  /\ o.at \in Saving =>
       /\ o.q \in Queues /\ qs[o.q].exists
       /\ o.docs[o.q].v <= qs[o.q].v
       /\ o.docs[o.q].v = qs[o.q].v => Agrees(o, qs[o.q].persons, o.docs[o.q].persons)

\* A queue that was never created is empty.
Unmade(qs) == \A q \in Queues : qs[q].exists \/ (qs[q].v = 0 /\ qs[q].persons = <<>>)

ReqInv == AmongRequests => Unmade(queues) /\ \A r \in Procs : ReqOK(op[r], queues)

\* The request that will queue booking b or delete it.
Settles(o, b) == o.b = b /\ (o.at = "deleteBooking" \/ (o.kind = "add" /\ o.undo))

Settled(b) ==
  \/ bookings[b].st \in {"unborn", "deleted"}
  \/ \E q \in Queues : Holds(queues[q].persons, b)
  \/ \E r \in Procs : Settles(op[r], b)

NoStatusNamed == AmongRequests /\ scene.does \cap {"create", "remove", "update"} = {}

SettledInv ==
  NoStatusNamed => /\ \A b \in Bookings : Settled(b)
                   /\ \A r \in Procs : op[r].kind # "remove"

RInv == scene \in Scenes /\ ReqInv /\ SettledInv

-----------------------------------------------------------------------------
\* What each transformation carries over.

\* What Carried asks, element by element.
LEMMA CarriedIf ==
  ASSUME NEW ps, GoodArray(ps), NEW cs, GoodArray(cs), NEW gone, NEW moved,
         \A i \in DOMAIN ps : ps[i].b \in gone \/ Holds(cs, ps[i].b),
         \A i, j \in DOMAIN ps, k, l \in DOMAIN cs :
           /\ cs[k].b = ps[i].b /\ cs[l].b = ps[j].b /\ ps[i].pos < ps[j].pos
           /\ ps[i].st # "completed" /\ cs[k].st # "completed" /\ cs[l].st # "completed"
           => cs[k].pos <= cs[l].pos \/ ps[i].b \in moved \/ ps[j].b \in moved,
         \A i \in DOMAIN ps, j \in DOMAIN cs :
           ps[i].st = "completed" /\ cs[j].b = ps[i].b => cs[j].st = "completed"
  PROVE  Carried(ps, cs, gone, moved)
<1>1. ASSUME NEW b \in Bookings, NEW c \in Bookings, Ahead(ps, b, c), Ahead(cs, c, b)
      PROVE  {b, c} \cap moved # {}
  <2>1. PICK i \in DOMAIN ps, j \in DOMAIN ps :
          ps[i].b = b /\ ps[j].b = c /\ ps[i].pos < ps[j].pos /\ ps[i].st # "completed"
    BY <1>1 DEF Ahead
  <2>2. PICK l \in DOMAIN cs, k \in DOMAIN cs :
          /\ cs[l].b = c /\ cs[k].b = b /\ cs[l].pos < cs[k].pos
          /\ cs[l].st # "completed" /\ cs[k].st # "completed"
    BY <1>1 DEF Ahead
  <2>3. cs[k].pos \in Nat /\ cs[l].pos \in Nat
    BY Element DEF GoodArray
  <2>4. ps[i].b \in moved \/ ps[j].b \in moved
    BY <2>1, <2>2, <2>3
  <2> QED
    BY <2>1, <2>4
<1> QED
  BY <1>1 DEF Carried

LEMMA PosIsNat ==
  ASSUME NEW ps, GoodArray(ps)
  PROVE  /\ \A k \in DOMAIN ps : ps[k].pos \in Nat /\ ps[k] \in Person
         /\ Len(ps) \in Nat /\ DOMAIN ps = 1..Len(ps)
<1>1. ps \in Seq(Person)
  BY DEF GoodArray
<1> QED
  BY <1>1, Element

LEMMA InsertIs ==
  ASSUME NEW ps, GoodArray(ps), NEW b \in Bookings, NEW requested \in Nat, NEW top \in Nat,
         NEW cs, cs = Insert(ps, b, requested, top)
  PROVE  /\ DOMAIN cs = 1..(Len(ps) + 1) /\ cs[Len(ps) + 1].b = b
         /\ \A k \in DOMAIN ps :
              /\ cs[k].b = ps[k].b /\ cs[k].st = ps[k].st
              /\ cs[k].pos = IF requested # 0 /\ requested <= top /\ ps[k].pos >= requested
                             THEN ps[k].pos + 1 ELSE ps[k].pos
<1> DEFINE position == IF requested = 0 THEN top + 1 ELSE requested
           shifts(p) == requested # 0 /\ requested <= top /\ p.pos >= position
           qs == [i \in DOMAIN ps |->
                    IF shifts(ps[i]) THEN [ps[i] EXCEPT !.pos = @ + 1] ELSE ps[i]]
           new == NewPerson(b, position)
<1>1. Len(ps) \in Nat /\ DOMAIN ps = 1..Len(ps)
  BY PosIsNat
<1>2. \A k \in DOMAIN ps :
        /\ qs[k] \in Person
        /\ qs[k].b = ps[k].b /\ qs[k].st = ps[k].st
        /\ qs[k].pos = IF requested # 0 /\ requested <= top /\ ps[k].pos >= requested
                       THEN ps[k].pos + 1 ELSE ps[k].pos
  <2>1. \A p \in Person, n \in Nat : LET x == [p EXCEPT !.pos = n] IN
          x \in Person /\ x.b = p.b /\ x.st = p.st /\ x.pos = n
    BY DEF Person
  <2>2. ASSUME NEW k \in DOMAIN ps
        PROVE  /\ qs[k] = IF shifts(ps[k]) THEN [ps[k] EXCEPT !.pos = ps[k].pos + 1] ELSE ps[k]
               /\ ps[k].pos \in Nat /\ ps[k].pos + 1 \in Nat /\ ps[k] \in Person
    BY PosIsNat
  <2> QED
    BY <2>1, <2>2
<1>3. cs = Append(qs, new)
  BY DEF Insert
<1>4. new \in Person /\ new.b = b
  BY NewPersonType
<1> HIDE DEF new
<1>5. qs \in Seq(Person) /\ Len(qs) = Len(ps)
  BY <1>1, <1>2
<1> HIDE DEF qs
<1>6. /\ DOMAIN cs = 1..(Len(ps) + 1) /\ cs[Len(ps) + 1] = new
      /\ \A k \in 1..Len(ps) : cs[k] = qs[k]
  BY <1>1, <1>3, <1>4, <1>5
<1> QED
  BY <1>1, <1>2, <1>4, <1>6

LEMMA InsertCarries ==
  ASSUME NEW ps, GoodArray(ps), NEW b \in Bookings, NEW requested \in Nat, NEW top \in Nat,
         ~Holds(ps, b), NEW moved
  PROVE  Carried(ps, Insert(ps, b, requested, top), {}, moved) /\ Holds(Insert(ps, b, requested, top), b)
<1>1. PICK cs : cs = Insert(ps, b, requested, top)
  OBVIOUS
<1>2. GoodArray(cs)
  BY <1>1, InsertGood
<1>3. /\ DOMAIN cs = 1..(Len(ps) + 1) /\ cs[Len(ps) + 1].b = b
      /\ \A k \in DOMAIN ps :
           /\ cs[k].b = ps[k].b /\ cs[k].st = ps[k].st
           /\ cs[k].pos = IF requested # 0 /\ requested <= top /\ ps[k].pos >= requested
                          THEN ps[k].pos + 1 ELSE ps[k].pos
  BY <1>1, InsertIs
<1>4. Len(ps) \in Nat /\ DOMAIN ps = 1..Len(ps) /\ DOMAIN ps \subseteq DOMAIN cs
  BY <1>3, PosIsNat
<1>5. \A i \in DOMAIN ps, k \in DOMAIN cs : cs[k].b = ps[i].b => k = i
  <2>1. \A i \in DOMAIN ps : ps[i].b # b
    BY DEF Holds
  <2>2. \A k \in DOMAIN cs : k \in DOMAIN ps \/ k = Len(ps) + 1
    BY <1>3, <1>4
  <2> QED
    BY <1>3, <2>1, <2>2 DEF GoodArray, NoDuplicate
<1>6. \A i \in DOMAIN ps : Holds(cs, ps[i].b)
  BY <1>3, <1>4 DEF Holds
<1>7. ASSUME NEW i \in DOMAIN ps, NEW j \in DOMAIN ps, ps[i].pos < ps[j].pos
      PROVE  cs[i].pos <= cs[j].pos
  BY <1>3, <1>7, PosIsNat
<1>8. \A i \in DOMAIN ps : ps[i].st = "completed" => cs[i].st = "completed"
  BY <1>3
<1>9. Carried(ps, cs, {}, moved)
  BY <1>2, <1>5, <1>6, <1>7, <1>8, CarriedIf
<1>10. Len(ps) + 1 \in DOMAIN cs
  BY <1>3, <1>4
<1> QED
  BY <1>1, <1>3, <1>9, <1>10 DEF Holds

LEMMA RemoveCarries ==
  ASSUME NEW ps, GoodArray(ps), NEW i \in DOMAIN ps, NEW moved
  PROVE  Carried(ps, Remove(ps, i), {ps[i].b}, moved)
<1> DEFINE old(k) == IF k < i THEN k ELSE k + 1
<1>1. PICK cs : cs = Remove(ps, i)
  OBVIOUS
<1>2. GoodArray(cs)
  BY <1>1, RemoveGood
<1>3. Len(ps) \in Nat /\ DOMAIN ps = 1..Len(ps) /\ i \in 1..Len(ps)
  BY PosIsNat
<1>4. DOMAIN cs = 1..(Len(ps) - 1)
  BY <1>1 DEF Remove
<1>5. \A k \in DOMAIN cs : old(k) \in DOMAIN ps /\ old(k) # i
  BY <1>3, <1>4
<1>6. ASSUME NEW k \in DOMAIN cs
      PROVE  /\ cs[k].b = ps[old(k)].b /\ cs[k].st = ps[old(k)].st
             /\ cs[k].pos = IF ps[old(k)].pos > ps[i].pos THEN ps[old(k)].pos - 1
                            ELSE ps[old(k)].pos
  <2>1. PICK p \in Person : p = ps[old(k)]
    BY <1>5, PosIsNat
  <2>2. cs[k] = IF p.pos > ps[i].pos THEN [p EXCEPT !.pos = p.pos - 1] ELSE p
    BY <1>1, <1>4, <2>1 DEF Remove
  <2>3. LET x == [p EXCEPT !.pos = p.pos - 1] IN x.b = p.b /\ x.st = p.st /\ x.pos = p.pos - 1
    BY DEF Person
  <2> HIDE DEF old
  <2> QED
    BY <2>1, <2>2, <2>3
<1>7. ASSUME NEW j \in DOMAIN ps, j # i PROVE \E k \in DOMAIN cs : old(k) = j
  <2>1. CASE j < i
    <3>1. j \in DOMAIN cs /\ old(j) = j
      BY <1>3, <1>4, <2>1
    <3> QED
      BY <3>1
  <2>2. CASE j > i
    <3>1. j - 1 \in DOMAIN cs /\ old(j - 1) = j
      BY <1>3, <1>4, <2>2
    <3> QED
      BY <3>1
  <2> QED
    BY <1>3, <1>7, <2>1, <2>2
<1> HIDE DEF old
<1>8. \A j \in DOMAIN ps, k \in DOMAIN cs : cs[k].b = ps[j].b => old(k) = j
  BY <1>5, <1>6 DEF GoodArray, NoDuplicate
<1>9. \A j \in DOMAIN ps : ps[j].b \in {ps[i].b} \/ Holds(cs, ps[j].b)
  BY <1>6, <1>7 DEF Holds
<1>10. ASSUME NEW j \in DOMAIN ps, NEW l \in DOMAIN ps, NEW k \in DOMAIN cs, NEW m \in DOMAIN cs,
              old(k) = j, old(m) = l, ps[j].pos < ps[l].pos
       PROVE  cs[k].pos <= cs[m].pos
  BY <1>6, <1>10, PosIsNat
<1>11. \A j \in DOMAIN ps, k \in DOMAIN cs :
         ps[j].st = "completed" /\ cs[k].b = ps[j].b => cs[k].st = "completed"
  BY <1>6, <1>8
<1>12. Carried(ps, cs, {ps[i].b}, moved)
  BY <1>2, <1>8, <1>9, <1>10, <1>11, CarriedIf
<1> QED
  BY <1>1, <1>12

LEMMA CompleteCarries ==
  ASSUME NEW ps, GoodArray(ps), NEW i \in DOMAIN ps, NEW moved
  PROVE  Carried(ps, Complete(ps, i), {}, moved)
<1>1. PICK cs : cs = Complete(ps, i)
  OBVIOUS
<1>2. GoodArray(cs) /\ DOMAIN cs = DOMAIN ps
  BY <1>1, CompleteGood DEF Complete
<1>3. ASSUME NEW k \in DOMAIN ps
      PROVE  /\ cs[k].b = ps[k].b
             /\ k = i => cs[k].st = "completed"
             /\ k # i => /\ cs[k].st = ps[k].st
                         /\ cs[k].pos = IF ps[k].b # ps[i].b /\ ps[k].pos > ps[i].pos
                                        THEN ps[k].pos - 1 ELSE ps[k].pos
  <2>1. PICK p \in Person : p = ps[k]
    BY PosIsNat
  <2>2. cs[k] = IF k = i THEN [p EXCEPT !.st = "completed", !.pos = 0]
                ELSE IF p.b # ps[i].b /\ p.pos > ps[i].pos
                     THEN [p EXCEPT !.pos = p.pos - 1] ELSE p
    BY <1>1, <2>1 DEF Complete
  <2>3. LET x == [p EXCEPT !.pos = p.pos - 1] IN x.b = p.b /\ x.st = p.st /\ x.pos = p.pos - 1
    BY DEF Person
  <2>4. LET x == [p EXCEPT !.st = "completed", !.pos = 0] IN x.b = p.b /\ x.st = "completed"
    BY DEF Person
  <2> QED
    BY <2>1, <2>2, <2>3, <2>4
<1>4. \A j \in DOMAIN ps, k \in DOMAIN cs : cs[k].b = ps[j].b => k = j
  BY <1>2, <1>3 DEF GoodArray, NoDuplicate
<1>5. \A j \in DOMAIN ps : Holds(cs, ps[j].b)
  BY <1>2, <1>3 DEF Holds
<1>6. ASSUME NEW j \in DOMAIN ps, NEW l \in DOMAIN ps, ps[j].pos < ps[l].pos,
             cs[j].st # "completed", cs[l].st # "completed"
      PROVE  cs[j].pos <= cs[l].pos
  <2>1. j # i /\ l # i
    BY <1>3, <1>6
  <2>2. ps[j].b # ps[i].b /\ ps[l].b # ps[i].b
    BY <2>1 DEF GoodArray, NoDuplicate
  <2> QED
    BY <1>3, <1>6, <2>1, <2>2, PosIsNat
<1>7. \A j \in DOMAIN ps : ps[j].st = "completed" => cs[j].st = "completed"
  BY <1>3
<1>8. Carried(ps, cs, {}, moved)
  BY <1>2, <1>4, <1>5, <1>6, <1>7, CarriedIf
<1> QED
  BY <1>1, <1>8

LEMMA ReorderCarries ==
  ASSUME NEW ps, GoodArray(ps), NEW i \in DOMAIN ps, NEW requested \in Nat
  PROVE  Carried(ps, Reorder(ps, i, NewPosition(ps, requested)), {}, {ps[i].b})
<1>1. PICK new : new = NewPosition(ps, requested)
  OBVIOUS
<1>2. PICK cs : cs = Reorder(ps, i, new)
  OBVIOUS
<1>3. new \in Nat /\ ps[i].pos \in Nat
  BY <1>1, PosIsNat DEF NewPosition
<1>4. GoodArray(cs) /\ DOMAIN cs = DOMAIN ps
  BY <1>1, <1>2, ReorderGood DEF Reorder
<1> DEFINE old == ps[i].pos
<1>5. ASSUME NEW k \in DOMAIN ps
      PROVE  /\ cs[k].b = ps[k].b /\ cs[k].st = ps[k].st
             /\ k # i => cs[k].pos =
                  IF new < old /\ ps[k].pos >= new /\ ps[k].pos < old THEN ps[k].pos + 1
                  ELSE IF new >= old /\ ps[k].pos > old /\ ps[k].pos <= new THEN ps[k].pos - 1
                  ELSE ps[k].pos
  <2>1. PICK p \in Person : p = ps[k]
    BY PosIsNat
  <2>2. cs[k] = IF k = i THEN [p EXCEPT !.pos = new]
                ELSE IF new < old /\ p.pos >= new /\ p.pos < old
                     THEN [p EXCEPT !.pos = p.pos + 1]
                ELSE IF new >= old /\ p.pos > old /\ p.pos <= new
                     THEN [p EXCEPT !.pos = p.pos - 1]
                ELSE p
    BY <1>2, <2>1 DEF Reorder
  <2>3. \A n : LET x == [p EXCEPT !.pos = n] IN x.b = p.b /\ x.st = p.st /\ x.pos = n
    BY DEF Person
  <2> HIDE DEF old
  <2> QED
    BY <2>1, <2>2, <2>3
<1>6. \A j \in DOMAIN ps, k \in DOMAIN cs : cs[k].b = ps[j].b => k = j
  BY <1>4, <1>5 DEF GoodArray, NoDuplicate
<1>7. \A j \in DOMAIN ps : Holds(cs, ps[j].b)
  BY <1>4, <1>5 DEF Holds
<1>8. ASSUME NEW j \in DOMAIN ps, NEW l \in DOMAIN ps, ps[j].pos < ps[l].pos, j # i, l # i
      PROVE  cs[j].pos <= cs[l].pos
  <2>1. ps[j].pos \in Nat /\ ps[l].pos \in Nat /\ old \in Nat
    BY PosIsNat
  <2> HIDE DEF old
  <2> QED
    BY <1>3, <1>5, <1>8, <2>1
<1>9. \A j \in DOMAIN ps : ps[j].st = "completed" => cs[j].st = "completed"
  BY <1>5
<1>10. Carried(ps, cs, {}, {ps[i].b})
  BY <1>4, <1>6, <1>7, <1>8, <1>9, CarriedIf
<1> QED
  BY <1>1, <1>2, <1>10

\* Sorting loses nobody.
LEMMA SortIsOnto ==
  ASSUME NEW ps, GoodArray(ps), NEW f \in SortOrders(ps), NEW i \in DOMAIN ps
  PROVE  \E k \in DOMAIN ps : f[k] = i
<1> DEFINE D == DOMAIN ps
<1>1. D = 1..Len(ps) /\ Len(ps) \in Nat /\ f \in [D -> D] /\ IsFiniteSet(D)
  <2>1. D = 1..Len(ps) /\ Len(ps) \in Nat
    BY PosIsNat
  <2>2. IsFiniteSet(1..Len(ps))
    BY <2>1, FS_Interval
  <2> QED
    BY <2>1, <2>2 DEF SortOrders
<1>2. \A j, k \in D : f[j] = f[k] => j = k
  <2> SUFFICES ASSUME NEW j \in D, NEW k \in D, f[j] = f[k], j < k PROVE FALSE
    BY <1>1
  <2>1. ps[f[j]].pos < ps[f[k]].pos \/ f[j] < f[k]
    BY DEF SortOrders
  <2>2. f[j] \in D /\ ps[f[j]].pos \in Nat /\ f[j] \in Nat
    BY <1>1, PosIsNat
  <2> QED BY <2>1, <2>2
<1> HIDE DEF D
<1>3. f \in Injection(D, D)
  BY <1>1, <1>2 DEF Injection, IsInjective
<1>4. f \in Surjection(D, D)
  BY <1>1, <1>3, FS_Injection
<1>5. \A j \in D : \E k \in D : f[k] = j
  BY <1>4 DEF Surjection
<1> QED
  BY <1>5 DEF D

LEMMA SortCarries ==
  ASSUME NEW ps, GoodArray(ps), NEW cs, GoodArray(cs), NEW f \in SortOrders(cs),
         NEW gone, NEW moved, Carried(ps, cs, gone, moved)
  PROVE  /\ Carried(ps, InOrder(cs, f), gone, moved)
         /\ \A b : Holds(cs, b) => Holds(InOrder(cs, f), b)
<1>1. PICK ds : ds = InOrder(cs, f)
  OBVIOUS
<1>2. /\ DOMAIN ds = DOMAIN cs /\ \A k \in DOMAIN cs : ds[k] = cs[f[k]] /\ f[k] \in DOMAIN cs
  BY <1>1 DEF InOrder, SortOrders
<1>3. \A b : Holds(cs, b) => Holds(ds, b)
  BY <1>2, SortIsOnto DEF Holds
<1>4. \A b, c : Ahead(ds, b, c) => Ahead(cs, b, c)
  BY <1>2 DEF Ahead
<1> QED
  BY <1>1, <1>2, <1>3, <1>4 DEF Carried

\* An in-place write in between changes nothing of this.
LEMMA ShapeCarries ==
  ASSUME NEW ps, NEW qs, SameShape(ps, qs), NEW cs, NEW gone, NEW moved,
         Carried(ps, cs, gone, moved)
  PROVE  Carried(qs, cs, gone, moved)
<1>1. \A b, c : Ahead(qs, b, c) => Ahead(ps, b, c)
  BY DEF Ahead, SameShape
<1> QED
  BY <1>1 DEF Carried, SameShape

-----------------------------------------------------------------------------
\* The steps of the requests.

\* A queue that was written since: the version tells, unless nothing was carried away.
Evolves(d, e) ==
  /\ d.exists => e.exists
  /\ d.v <= e.v
  /\ e.v = d.v => SameShape(d.persons, e.persons)

LEMMA SameIsShape == \A ps : SameShape(ps, ps)
  BY DEF SameShape

LEMMA OthersReqOK ==
  ASSUME NEW o \in Operation, NEW qs \in [Queues -> Doc], NEW rs \in [Queues -> Doc],
         ReqOK(o, qs), \A q \in Queues : Evolves(qs[q], rs[q])
  PROVE  ReqOK(o, rs)
<1>1. SUFFICES ASSUME o.at \in Saving
               PROVE  /\ o.q \in Queues /\ rs[o.q].exists
                      /\ o.docs[o.q].v <= rs[o.q].v
                      /\ o.docs[o.q].v = rs[o.q].v =>
                           Agrees(o, rs[o.q].persons, o.docs[o.q].persons)
  BY DEF ReqOK
<1>2. PICK q \in Queues : q = o.q
  BY <1>1 DEF ReqOK
<1>3. PICK cs, d, e, v : d = qs[q] /\ e = rs[q] /\ cs = o.docs[q].persons /\ v = o.docs[q].v
  OBVIOUS
<1>4. v \in Nat /\ d.v \in Nat /\ e.v \in Nat
  BY <1>3 DEF Operation, Doc
<1>5. d.exists /\ v <= d.v /\ (v = d.v => Agrees(o, d.persons, cs))
  BY <1>1, <1>2, <1>3 DEF ReqOK
<1>6. e.exists /\ d.v <= e.v /\ (e.v = d.v => SameShape(d.persons, e.persons))
  BY <1>3, <1>5 DEF Evolves
<1>7. ASSUME v = e.v PROVE Agrees(o, e.persons, cs)
  <2>1. Agrees(o, d.persons, cs) /\ SameShape(d.persons, e.persons)
    BY <1>4, <1>5, <1>6, <1>7
  <2>2. CASE WholeArray(o)
    BY <2>1, <2>2, ShapeCarries DEF Agrees
  <2>3. CASE ~WholeArray(o)
    BY <2>1, <2>3 DEF Agrees, SameShape
  <2> QED
    BY <2>2, <2>3
<1> QED
  BY <1>2, <1>3, <1>4, <1>5, <1>6, <1>7

Queued(b, qs) == \E q \in Queues : Holds(qs[q].persons, b)

Void(b, bs) == bs[b].st \in {"unborn", "deleted"}

\* What is known while the step is taken.
Given ==
  /\ IInv /\ IInv' /\ AmongRequests /\ UNCHANGED scene
  /\ Unmade(queues) /\ \A r \in Procs : ReqOK(op[r], queues)

\* What the step of slot r does.
Advances(r) ==
  /\ Unmade(queues') /\ \A q \in Queues : Evolves(queues[q], queues'[q])
  /\ \A s \in Procs \ {r} : op'[s] = op[s]
  /\ ReqOK(op'[r], queues')
  /\ op'[r].kind = "remove" => op[r].kind = "remove" \/ "remove" \in scene.does
  /\ \A q \in Queues :
       \/ SameShape(queues[q].persons, queues'[q].persons)
       \/ /\ op[r].at = "save" /\ op'[r] = AfterSave(op[r])
          /\ Carried(queues[q].persons, queues'[q].persons, Gone(op[r]), Moved(op[r]))
  /\ \A b \in Bookings : Settles(op[r], b) =>
       Settles(op'[r], b) \/ Queued(b, queues') \/ Void(b, bookings')
  /\ \A b \in Bookings : Void(b, bookings) =>
       Void(b, bookings') \/ Settles(op'[r], b) \/ ~NoStatusNamed

LEMMA SlotIs ==
  ASSUME Given, NEW r \in Procs
  PROVE  /\ op[r] \in Operation /\ ReqOK(op[r], queues)
         /\ queues \in [Queues -> Doc] /\ queues' \in [Queues -> Doc]
         /\ \A q \in Queues : queues[q] \in Doc /\ GoodArray(queues[q].persons)
         /\ \A q \in Queues : GoodArray(op[r].docs[q].persons) /\ op[r].docs[q] \in Doc
         /\ bookings \in [Bookings -> Booking] /\ op'[r] \in Operation
<1>1. op[r] \in Operation /\ ReqOK(op[r], queues) /\ OpOK(op[r])
  BY DEF Given, IInv
<1>2. op[r].docs \in [Queues -> Doc]
  BY <1>1 DEF Operation
<1>3. op'[r] \in Operation
  BY DEF Given, IInv
<1> QED
  BY <1>1, <1>2, <1>3 DEF Given, IInv, QueuesOK, OpOK

LEMMA SlotBecomes ==
  ASSUME Given, NEW r \in Procs, NEW n, Become(r, n)
  PROVE  op'[r] = n /\ \A s \in Procs \ {r} : op'[s] = op[s]
  BY DEF Given, IInv, Become

\* A booking that is deleted, or not there yet, gets no other status.
LEMMA StaysVoid ==
  ASSUME bookings \in [Bookings -> Booking], NEW c, NEW st, WriteStatus(c, st)
  PROVE  \A b \in Bookings : Void(b, bookings) => Void(b, bookings')
  BY DEF WriteStatus, Void, Booking

\* A step that leaves the queues alone.
LEMMA Quiet ==
  ASSUME Given, NEW r \in Procs, NEW n, Become(r, n), UNCHANGED queues,
         ReqOK(n, queues),
         n.kind = "remove" => op[r].kind = "remove" \/ "remove" \in scene.does,
         \A b \in Bookings : Settles(op[r], b) => Settles(n, b) \/ Void(b, bookings'),
         \A b \in Bookings : Void(b, bookings) =>
           Void(b, bookings') \/ Settles(n, b) \/ ~NoStatusNamed
  PROVE  Advances(r)
<1>1. op'[r] = n /\ \A s \in Procs \ {r} : op'[s] = op[s]
  BY SlotBecomes
<1>2. \A q \in Queues : queues[q].v \in Nat
  BY SlotIs DEF Doc
<1>3. \A q \in Queues : Evolves(queues[q], queues'[q])
  BY <1>2, SameIsShape DEF Evolves
<1> QED
  BY <1>1, <1>3, SameIsShape DEF Advances, Given

\* An operation that holds no copy.
LEMMA PlainOK ==
  ASSUME NEW o, o.kind \in RequestKinds, o.at \in RequestSteps \ (Saving \cup {"startService"}),
         o.kind = "add" => o.at \in Adding \cup {"deleteBooking"},
         o.at = "findPerson" => o.kind = "delete", NEW qs
  PROVE  ReqOK(o, qs)
  BY DEF ReqOK, Saving

LEMMA IdleIs ==
  /\ Idle.kind = "none" /\ Idle.at = "idle" /\ Idle.b = None /\ ~Idle.undo /\ Idle.touched = {}
  /\ Idle.docs = NoDocs /\ Idle \in Operation /\ \A qs : ReqOK(Idle, qs)
  /\ \A b : ~Settles(Idle, b)
<1>1. Idle \in Operation
  BY IdleGood DEF OpOK
<1>2. /\ Idle.kind = "none" /\ Idle.at = "idle" /\ Idle.b = None /\ ~Idle.undo
      /\ Idle.touched = {} /\ Idle.docs = NoDocs
  BY DEF Idle
<1>3. \A qs : ReqOK(Idle, qs)
  BY <1>2, PlainOK DEF RequestKinds, RequestSteps, Saving
<1> QED
  BY <1>1, <1>2, <1>3 DEF Settles

\* A free slot settles nothing.
LEMMA FreeSettles ==
  ASSUME Given, NEW r \in Procs, op[r].at = "idle"
  PROVE  \A b : ~Settles(op[r], b)
<1>1. ReqOK(op[r], queues)
  BY SlotIs
<1> QED
  BY <1>1 DEF ReqOK, Settles, Adding

\* What follows addPersonToQueue settles what was to be settled, if it failed.
LEMMA AfterAddIs ==
  ASSUME NEW o \in Operation, o.kind = "add", o.at # "deleteBooking",
         NEW failed \in BOOLEAN, NEW n, n = AfterAdd(o, failed)
  PROVE  /\ n.kind \in {"none", "add"} /\ \A qs : ReqOK(n, qs)
         /\ failed => \A b : Settles(o, b) => Settles(n, b)
<1>1. CASE failed /\ o.undo
  <2>1. n = [Idle EXCEPT !.kind = "add", !.at = "deleteBooking", !.b = o.b]
    BY <1>1 DEF AfterAdd
  <2>2. n.kind = "add" /\ n.at = "deleteBooking" /\ n.b = o.b
    BY <2>1, IdleIs DEF Operation
  <2>3. n.kind \in RequestKinds /\ n.at \in RequestSteps \ (Saving \cup {"startService"})
    BY <2>2 DEF RequestKinds, RequestSteps, Saving
  <2>4. \A qs : ReqOK(n, qs)
    BY <2>2, <2>3, PlainOK
  <2>5. \A b : Settles(o, b) => Settles(n, b)
    BY <2>2 DEF Settles
  <2> QED
    BY <2>2, <2>4, <2>5
<1>2. CASE ~(failed /\ o.undo) /\ o.agents # {}
  <2>1. n = [o EXCEPT !.at = "readBooking", !.q = None, !.docs = NoDocs]
    BY <1>2 DEF AfterAdd
  <2>2. n.kind = "add" /\ n.at = "readBooking" /\ n.b = o.b /\ n.undo = o.undo
    BY <2>1 DEF Operation
  <2>3. n.kind \in RequestKinds /\ n.at \in RequestSteps \ (Saving \cup {"startService"})
    BY <2>2 DEF RequestKinds, RequestSteps, Saving, Adding
  <2>4. \A qs : ReqOK(n, qs)
    BY <2>2, <2>3, PlainOK DEF Adding
  <2>5. failed => \A b : Settles(o, b) => Settles(n, b)
    BY <1>2, <2>2 DEF Settles
  <2> QED
    BY <2>2, <2>4, <2>5
<1>3. CASE ~(failed /\ o.undo) /\ o.agents = {}
  <2>1. n = Idle
    BY <1>3 DEF AfterAdd
  <2>2. failed => \A b : ~Settles(o, b)
    BY <1>3 DEF Settles
  <2> QED
    BY <2>1, <2>2, IdleIs
<1> QED
  BY <1>1, <1>2, <1>3

\* What follows the save of a request.
LEMMA AfterSaveIs ==
  ASSUME NEW o \in Operation, o.kind \in RequestKinds, o.at \in Saving,
         NEW n, n = AfterSave(o)
  PROVE  /\ (n.kind = "remove" => o.kind = "remove") /\ \A qs : ReqOK(n, qs)
         /\ o.kind # "add" => \A b : ~Settles(o, b)
         /\ o.kind = "delete" => n.at = "deleteBooking" /\ n.b = o.b
<1>0. o.kind # "add" => \A b : ~Settles(o, b)
  BY DEF Settles, Saving
<1>1. CASE o.kind = "add"
  <2>1. n = AfterAdd(o, FALSE) /\ o.at # "deleteBooking"
    BY <1>1 DEF AfterSave, Saving
  <2> QED
    BY <1>0, <1>1, <2>1, AfterAddIs
<1>2. CASE o.kind = "status" /\ o.to # "absent"
  <2>1. n = [Idle EXCEPT !.kind = "status", !.at = "effect", !.b = o.b, !.to = o.to]
    BY <1>2 DEF AfterSave
  <2>2. n.kind = "status" /\ n.at = "effect"
    BY <2>1, IdleIs DEF Operation
  <2>3. n.kind \in RequestKinds /\ n.at \in RequestSteps \ (Saving \cup {"startService"})
    BY <2>2 DEF RequestKinds, RequestSteps, Saving
  <2>4. \A qs : ReqOK(n, qs)
    BY <2>2, <2>3, PlainOK
  <2> QED
    BY <1>0, <1>2, <2>2, <2>4
<1>3. CASE o.kind = "delete"
  <2>1. n = [Idle EXCEPT !.kind = "delete", !.at = "deleteBooking", !.b = o.b]
    BY <1>3 DEF AfterSave
  <2>2. n.kind = "delete" /\ n.at = "deleteBooking" /\ n.b = o.b
    BY <2>1, IdleIs DEF Operation
  <2>3. n.kind \in RequestKinds /\ n.at \in RequestSteps \ (Saving \cup {"startService"})
    BY <2>2 DEF RequestKinds, RequestSteps, Saving
  <2>4. \A qs : ReqOK(n, qs)
    BY <2>2, <2>3, PlainOK
  <2> QED
    BY <1>0, <1>3, <2>2, <2>4
<1>4. CASE o.kind \in {"none", "remove", "reorder"} \/ (o.kind = "status" /\ o.to = "absent")
  <2>1. n = Idle
    BY <1>4 DEF AfterSave
  <2> QED
    BY <1>0, <1>4, <2>1, IdleIs
<1> QED
  BY <1>1, <1>2, <1>3, <1>4 DEF RequestKinds

LEMMA AfterErrorIs ==
  ASSUME NEW o \in Operation, o.kind \in RequestKinds, o.at \in Saving,
         NEW n, n = AfterVersionError(o)
  PROVE  /\ n.kind # "remove" /\ \A qs : ReqOK(n, qs)
         /\ \A b : Settles(o, b) => Settles(n, b)
<1>1. CASE o.kind = "add"
  <2>1. n = AfterAdd(o, TRUE) /\ o.at # "deleteBooking"
    BY <1>1 DEF AfterVersionError, Saving
  <2> QED
    BY <1>1, <2>1, AfterAddIs
<1>2. CASE o.kind # "add"
  <2>1. n = Idle
    BY <1>2 DEF AfterVersionError, RequestKinds
  <2>2. \A b : ~Settles(o, b)
    BY <1>2 DEF Settles, Saving
  <2> QED
    BY <2>1, <2>2, IdleIs
<1> QED
  BY <1>1, <1>2

\* A changed copy of the stored document, ready to be saved.
LEMMA CopyOK ==
  ASSUME NEW o, NEW q \in Queues, NEW d \in Doc, NEW cs, NEW qs, qs[q] = d, d.exists,
         o.kind \in RequestKinds \ {"none"}, o.at \in Saving, o.q = q,
         o.docs[q] = [d EXCEPT !.persons = cs],
         o.kind = "add" => o.at = "save" /\ Holds(cs, o.b),
         o.at = "markAbsent" => o.kind \in {"status", "remove"},
         o.at = "saveStatus" => o.kind = "status",
         Agrees(o, d.persons, cs)
  PROVE  ReqOK(o, qs)
<1>1. o.docs[q].v = d.v /\ o.docs[q].persons = cs /\ d.v \in Nat
  BY DEF Doc
<1>2. o.at \in RequestSteps /\ o.at \notin {"startService", "findPerson"}
  BY DEF RequestSteps, Saving
<1> QED
  BY <1>1, <1>2 DEF ReqOK

\* Requests on a booking.
LEMMA BookingRequestAdvances ==
  ASSUME Given, NEW r \in Procs, BookingRequest(r)
  PROVE  Advances(r)
<1>0. /\ op[r] \in Operation /\ ReqOK(op[r], queues) /\ bookings \in [Bookings -> Booking]
      /\ op \in [Procs -> Operation]
  BY SlotIs DEF Given, IInv
<1>1. ASSUME NEW b \in Bookings, NEW as \in SUBSET Agents, NEW day \in Days,
             NEW st \in CreateStatuses, CreateBooking(b, as, day, st)
      PROVE  Advances(r)
  <2>1. Become(r, op[r]) /\ UNCHANGED queues
    BY <1>0, <1>1 DEF CreateBooking, Become
  <2>2. ~NoStatusNamed
    BY <1>1 DEF CreateBooking, NoStatusNamed
  <2> QED
    BY <1>0, <2>1, <2>2, Quiet
<1>2. ASSUME NEW b \in Bookings, NEW a \in Agents, CreateQueueBooking(r, b, a)
      PROVE  Advances(r)
  <2> DEFINE n == [Idle EXCEPT !.kind = "add", !.at = "readBooking", !.b = b,
                               !.agents = {a}, !.undo = TRUE]
  <2>1. Become(r, n) /\ UNCHANGED queues /\ op[r].at = "idle"
    BY <1>2 DEF CreateQueueBooking, Free
  <2>2. n.kind = "add" /\ n.at = "readBooking" /\ n.b = b /\ n.undo
    BY IdleIs DEF Operation
  <2> HIDE DEF n
  <2>3. n.kind \in RequestKinds /\ n.at \in RequestSteps \ (Saving \cup {"startService"})
    BY <2>2 DEF RequestKinds, RequestSteps, Saving, Adding
  <2>4. ReqOK(n, queues)
    BY <2>2, <2>3, PlainOK DEF Adding
  <2>5. \A c \in Bookings : Void(c, bookings) => Void(c, bookings') \/ Settles(n, c)
    <3> SUFFICES ASSUME NEW c \in Bookings, Void(c, bookings)
                 PROVE  Void(c, bookings') \/ Settles(n, c)
      OBVIOUS
    <3>1. CASE c = b
      BY <2>2, <3>1 DEF Settles
    <3>2. CASE c # b
      BY <1>0, <1>2, <3>2 DEF CreateQueueBooking, Void
    <3> QED
      BY <3>1, <3>2
  <2>6. \A c : ~Settles(op[r], c)
    BY <2>1, FreeSettles
  <2> QED
    BY <2>1, <2>2, <2>4, <2>5, <2>6, Quiet
<1>3. ASSUME NEW b \in Bookings, NEW st \in UpdateStatuses, NEW day \in Days,
             UpdateBooking(r, b, st, day)
      PROVE  Advances(r)
  <2> DEFINE n == [Idle EXCEPT !.kind = "add", !.at = "readBooking", !.b = b,
                               !.agents = bookings[b].agents]
  <2>1. (Become(r, n) \/ Become(r, Idle)) /\ UNCHANGED queues /\ op[r].at = "idle"
    BY <1>3 DEF UpdateBooking, Free
  <2>2. n.kind = "add" /\ n.at = "readBooking"
    BY IdleIs DEF Operation
  <2> HIDE DEF n
  <2>3. n.kind \in RequestKinds /\ n.at \in RequestSteps \ (Saving \cup {"startService"})
    BY <2>2 DEF RequestKinds, RequestSteps, Saving, Adding
  <2>4. ReqOK(n, queues)
    BY <2>2, <2>3, PlainOK DEF Adding
  <2>5. ~NoStatusNamed
    BY <1>3 DEF UpdateBooking, NoStatusNamed, Free
  <2>6. \A c : ~Settles(op[r], c)
    BY <2>1, FreeSettles
  <2> QED
    BY <2>1, <2>2, <2>4, <2>5, <2>6, IdleIs, Quiet
<1>4. ASSUME NEW b \in Bookings, DeleteBooking(r, b)
      PROVE  Advances(r)
  <2> DEFINE n == [Idle EXCEPT !.kind = "delete", !.at = "findPerson", !.b = b]
  <2>1. Become(r, n) /\ UNCHANGED <<queues, bookings>> /\ op[r].at = "idle"
    BY <1>4 DEF DeleteBooking, Free
  <2>2. n.kind = "delete" /\ n.at = "findPerson"
    BY IdleIs DEF Operation
  <2> HIDE DEF n
  <2>3. n.kind \in RequestKinds /\ n.at \in RequestSteps \ (Saving \cup {"startService"})
    BY <2>2 DEF RequestKinds, RequestSteps, Saving, Adding
  <2>4. ReqOK(n, queues)
    BY <2>2, <2>3, PlainOK
  <2>6. \A c : ~Settles(op[r], c)
    BY <2>1, FreeSettles
  <2> QED
    BY <2>1, <2>2, <2>4, <2>6, Quiet DEF Void
<1> QED
  BY <1>1, <1>2, <1>3, <1>4 DEF BookingRequest

-----------------------------------------------------------------------------
\* Requests on a queue.

LEMMA Starts ==
  ASSUME Given, NEW r \in Procs, NEW n, Become(r, n), UNCHANGED <<bookings, queues>>,
         op[r].at = "idle", ReqOK(n, queues), n.kind = "remove" => "remove" \in scene.does
  PROVE  Advances(r)
<1>1. \A b : ~Settles(op[r], b)
  BY FreeSettles
<1> QED
  BY <1>1, Quiet DEF Void

LEMMA AddRequestAdvances ==
  ASSUME Given, NEW r \in Procs, NEW a \in Agents, NEW b \in Bookings,
         NEW pos \in Positions, AddPersonToQueue(r, a, b, pos)
  PROVE  Advances(r)
<1> DEFINE n == [Idle EXCEPT !.kind = "add", !.at = "readBooking", !.b = b,
                             !.agents = {a}, !.pos = pos]
<1>1. Become(r, n) /\ UNCHANGED <<bookings, queues>> /\ op[r].at = "idle"
  BY DEF AddPersonToQueue, Free
<1>2. n.kind = "add" /\ n.at = "readBooking"
  BY IdleIs DEF Operation
<1> HIDE DEF n
<1>3. n.kind \in RequestKinds /\ n.at \in RequestSteps \ (Saving \cup {"startService"})
  BY <1>2 DEF RequestKinds, RequestSteps, Saving, Adding
<1>4. ReqOK(n, queues)
  BY <1>2, <1>3, PlainOK DEF Adding
<1> QED
  BY <1>1, <1>2, <1>4, Starts

LEMMA RemoveRequestAdvances ==
  ASSUME Given, NEW r \in Procs, NEW a \in Agents, NEW b \in Bookings,
         NEW markAbsent \in BOOLEAN, RemovePersonFromQueue(r, a, b, markAbsent)
  PROVE  Advances(r)
<1> DEFINE at == IF markAbsent THEN "markAbsent" ELSE "save"
           o == [Idle EXCEPT !.kind = "remove", !.b = b, !.at = at]
<1>1. PICK q \in Queues :
        /\ Loads(a, q)
        /\ \E i \in PlaceOf(queues[q].persons, b) :
             Become(r, Loaded(o, q, [queues[q] EXCEPT !.persons = Remove(queues[q].persons, i)]))
  BY DEF RemovePersonFromQueue
<1>2. PICK i \in PlaceOf(queues[q].persons, b) :
        Become(r, Loaded(o, q, [queues[q] EXCEPT !.persons = Remove(queues[q].persons, i)]))
  BY <1>1
<1>3. PICK d \in Doc : d = queues[q] /\ GoodArray(d.persons)
  BY SlotIs
<1> DEFINE cs == Remove(d.persons, i)
           n == Loaded(o, q, [d EXCEPT !.persons = cs])
<1>4. o \in Operation /\ o.kind = "remove" /\ o.b = b /\ o.at = at /\ at \in {"markAbsent", "save"}
  <2>1. at \in Steps /\ at \in {"markAbsent", "save"}
    BY DEF Steps
  <2> HIDE DEF at
  <2>2. o \in Operation
    BY <2>1, IdleIs DEF Operation, Kinds
  <2> QED
    BY <2>1, <2>2, IdleIs DEF Operation
<1>5. Become(r, n)
  BY <1>2, <1>3
<1> HIDE DEF o
<1>6. n.kind = "remove" /\ n.b = b /\ n.q = q /\ n.at = at /\ n.docs[q] = [d EXCEPT !.persons = cs]
  BY <1>4 DEF Loaded, Operation
<1>7. i \in DOMAIN d.persons /\ d.persons[i].b = b /\ d.exists
  BY <1>1, <1>2, <1>3 DEF PlaceOf, Loads
<1>8. Carried(d.persons, cs, {b}, {})
  BY <1>3, <1>7, RemoveCarries
<1> HIDE DEF cs, n, at
<1>9. Agrees(n, d.persons, cs)
  BY <1>6, <1>8 DEF Agrees, WholeArray, Gone, Moved
<1>10. ReqOK(n, queues)
  BY <1>3, <1>4, <1>6, <1>7, <1>9, CopyOK DEF RequestKinds, Saving
<1>11. UNCHANGED <<bookings, queues>> /\ op[r].at = "idle" /\ "remove" \in scene.does
  BY DEF RemovePersonFromQueue, Free
<1> QED
  BY <1>5, <1>10, <1>11, Starts

LEMMA ReorderRequestAdvances ==
  ASSUME Given, NEW r \in Procs, NEW a \in Agents, NEW b \in Bookings,
         NEW requested \in Positions \ {0}, ReorderPerson(r, a, b, requested)
  PROVE  Advances(r)
<1> DEFINE o == [Idle EXCEPT !.kind = "reorder", !.at = "save", !.b = b]
           Put(ps, i) == Reorder(ps, i, NewPosition(ps, requested))
<1>0. requested \in Nat
  BY ConstantsAssumption DEF Positions
<1>1. PICK q \in Queues :
        /\ Loads(a, q)
        /\ \E i \in PlaceOf(queues[q].persons, b) :
             \E f \in SortOrders(Put(queues[q].persons, i)) :
               Become(r, Loaded(o, q, [queues[q] EXCEPT
                                         !.persons = InOrder(Put(queues[q].persons, i), f)]))
  BY DEF ReorderPerson
<1>2. PICK d \in Doc : d = queues[q] /\ GoodArray(d.persons)
  BY SlotIs
<1>3. PICK i \in PlaceOf(d.persons, b) :
        \E f \in SortOrders(Put(d.persons, i)) :
          Become(r, Loaded(o, q, [d EXCEPT !.persons = InOrder(Put(d.persons, i), f)]))
  BY <1>1, <1>2
<1>4. PICK f \in SortOrders(Put(d.persons, i)) :
        Become(r, Loaded(o, q, [d EXCEPT !.persons = InOrder(Put(d.persons, i), f)]))
  BY <1>3
<1> DEFINE cs == InOrder(Put(d.persons, i), f)
           n == Loaded(o, q, [d EXCEPT !.persons = cs])
<1>5. o \in Operation /\ o.kind = "reorder" /\ o.b = b /\ o.at = "save"
  <2>1. o \in Operation
    BY IdleIs DEF Operation, Kinds, Steps
  <2> QED
    BY <2>1, IdleIs DEF Operation
<1>6. Become(r, n)
  BY <1>4
<1> HIDE DEF o
<1>7. n.kind = "reorder" /\ n.b = b /\ n.q = q /\ n.at = "save" /\ n.docs[q] = [d EXCEPT !.persons = cs]
  BY <1>5 DEF Loaded, Operation
<1>8. i \in DOMAIN d.persons /\ d.persons[i].b = b /\ d.exists
  BY <1>1, <1>2, <1>3 DEF PlaceOf, Loads
<1>9. Carried(d.persons, cs, {}, {b})
  <2>1. Carried(d.persons, Put(d.persons, i), {}, {b}) /\ GoodArray(Put(d.persons, i))
    BY <1>0, <1>2, <1>8, ReorderCarries, ReorderGood
  <2> HIDE DEF Put
  <2> QED
    BY <1>2, <1>4, <2>1, SortCarries
<1> HIDE DEF cs, n
<1>10. Agrees(n, d.persons, cs)
  BY <1>7, <1>9 DEF Agrees, WholeArray, Gone, Moved
<1>11. ReqOK(n, queues)
  BY <1>2, <1>7, <1>8, <1>10, CopyOK DEF RequestKinds, Saving
<1>12. UNCHANGED <<bookings, queues>> /\ op[r].at = "idle"
  BY DEF ReorderPerson, Free
<1> QED
  BY <1>6, <1>7, <1>11, <1>12, Starts

\* A service is only started for who waits.
LEMMA StartsFromWaiting ==
  \A st \in PersonStatus : "inService" \in Transitions[st] => st = "waiting"
  BY DEF PersonStatus, Transitions

LEMMA StatusRequestAdvances ==
  ASSUME Given, NEW r \in Procs, NEW a \in Agents, NEW b \in Bookings,
         NEW to \in PersonStatus, UpdatePersonStatus(r, a, b, to)
  PROVE  Advances(r)
<1> DEFINE o == [Idle EXCEPT !.kind = "status", !.b = b, !.to = to]
<1>1. o \in Operation /\ o.kind = "status" /\ o.b = b /\ o.touched = {}
  <2>1. o \in Operation
    BY IdleIs DEF Operation, Kinds, Steps
  <2> QED
    BY <2>1, IdleIs DEF Operation
<1> DEFINE Begin(q, ps, i) ==
             /\ to = "inService"
             /\ Become(r, [o EXCEPT !.at = "startService", !.q = q, !.was = ps[i].st])
           Done(q, d, i) ==
             \E f \in SortOrders(Complete(d.persons, i)) :
               Become(r, [Loaded(o, q,
                 [d EXCEPT !.persons = InOrder(Complete(d.persons, i), f)])
                   EXCEPT !.at = "save"])
           Mark(q, d, i) ==
             /\ to \in {"waiting", "absent"}
             /\ Become(r, [Loaded(o, q, [d EXCEPT !.persons = SetStatus(d.persons, i, to)])
                    EXCEPT !.touched = {i},
                           !.at = IF to = "absent" THEN "markAbsent" ELSE "saveStatus"])
<1>2. PICK q \in Queues :
        /\ Loads(a, q)
        /\ \E i \in PlaceOf(queues[q].persons, b) :
             /\ to \in Transitions[queues[q].persons[i].st]
             /\ Begin(q, queues[q].persons, i) \/ Done(q, queues[q], i) \/ Mark(q, queues[q], i)
  BY Zenon DEF UpdatePersonStatus
<1> HIDE DEF o
<1>3. PICK d \in Doc : d = queues[q] /\ GoodArray(d.persons)
  BY SlotIs
<1>4. PICK i \in PlaceOf(d.persons, b) :
        /\ to \in Transitions[d.persons[i].st]
        /\ Begin(q, d.persons, i) \/ Done(q, d, i) \/ Mark(q, d, i)
  BY <1>2, <1>3
<1>5. i \in DOMAIN d.persons /\ d.persons[i].b = b /\ d.exists
  BY <1>2, <1>3, <1>4 DEF PlaceOf, Loads
<1>6. d.persons[i] \in Person /\ d.persons[i].st \in PersonStatus
  BY <1>3, <1>5, PosIsNat DEF Person
<1>7. UNCHANGED <<bookings, queues>> /\ op[r].at = "idle"
  BY DEF UpdatePersonStatus, Free
<1>8. CASE Begin(q, d.persons, i)
  <2> DEFINE n == [o EXCEPT !.at = "startService", !.q = q, !.was = d.persons[i].st]
  <2>1. n.kind = "status" /\ n.at = "startService" /\ n.q = q /\ n.was = d.persons[i].st
    BY <1>1 DEF Operation
  <2>2. d.persons[i].st = "waiting"
    BY <1>4, <1>6, <1>8, StartsFromWaiting
  <2>3. Become(r, n)
    BY <1>8
  <2> HIDE DEF n
  <2>4. ReqOK(n, queues)
    BY <2>1, <2>2 DEF ReqOK, RequestKinds, RequestSteps, Saving
  <2> QED
    BY <1>7, <2>1, <2>3, <2>4, Starts
<1>9. CASE Done(q, d, i)
  <2> DEFINE done == Complete(d.persons, i)
  <2>1. PICK f \in SortOrders(done) :
          Become(r, [Loaded(o, q, [d EXCEPT !.persons = InOrder(done, f)]) EXCEPT !.at = "save"])
    BY <1>9
  <2> DEFINE cs == InOrder(done, f)
             n  == [Loaded(o, q, [d EXCEPT !.persons = cs]) EXCEPT !.at = "save"]
  <2>2. Become(r, n)
    BY <2>1
  <2> HIDE DEF cs
  <2>3. n.kind = "status" /\ n.q = q /\ n.at = "save" /\ n.docs[q] = [d EXCEPT !.persons = cs]
    BY <1>1 DEF Loaded, Operation
  <2>4. Carried(d.persons, cs, {}, {})
    <3>1. Carried(d.persons, done, {}, {}) /\ GoodArray(done)
      BY <1>3, <1>5, CompleteCarries, CompleteGood
    <3> HIDE DEF done
    <3> QED
      BY <1>3, <2>1, <3>1, SortCarries DEF cs
  <2> HIDE DEF n
  <2>5. Agrees(n, d.persons, cs)
    BY <2>3, <2>4 DEF Agrees, WholeArray, Gone, Moved
  <2>6. ReqOK(n, queues)
    BY <1>3, <1>5, <2>3, <2>5, CopyOK DEF RequestKinds, Saving
  <2> QED
    BY <1>7, <2>2, <2>3, <2>6, Starts
<1>10. CASE Mark(q, d, i)
  <2> DEFINE at == IF to = "absent" THEN "markAbsent" ELSE "saveStatus"
             cs == SetStatus(d.persons, i, to)
             n  == [Loaded(o, q, [d EXCEPT !.persons = cs]) EXCEPT !.touched = {i}, !.at = at]
  <2>1. Become(r, n)
    BY <1>10
  <2> HIDE DEF at, cs
  <2>2. /\ n.kind = "status" /\ n.q = q /\ n.at = at /\ n.docs[q] = [d EXCEPT !.persons = cs]
        /\ n.touched = {i}
    BY <1>1 DEF Loaded, Operation
  <2>3. at \in {"markAbsent", "saveStatus"} /\ to # "completed"
    BY <1>10 DEF at
  <2>4. cs[i].st = to
    BY <1>5, <1>6 DEF SetStatus, Person, cs
  <2>5. d.persons[i].st # "completed"
    BY <1>4, <1>6 DEF Transitions, PersonStatus
  <2> HIDE DEF n
  <2>6. Agrees(n, d.persons, cs)
    BY <1>5, <2>2, <2>3, <2>4, <2>5 DEF Agrees, WholeArray
  <2>7. ReqOK(n, queues)
    BY <1>3, <1>5, <2>2, <2>3, <2>6, CopyOK DEF RequestKinds, Saving
  <2> QED
    BY <1>7, <2>1, <2>2, <2>7, Starts
<1> QED
  BY <1>4, <1>8, <1>9, <1>10

-----------------------------------------------------------------------------
\* The further steps of the requests.

\* A step that writes one queue.
LEMMA Writes ==
  ASSUME Given, NEW r \in Procs, NEW n, Become(r, n), UNCHANGED bookings,
         NEW q \in Queues, NEW e \in Doc, queues' = [queues EXCEPT ![q] = e],
         e.exists, Evolves(queues[q], e),
         \/ SameShape(queues[q].persons, e.persons)
         \/ /\ op[r].at = "save" /\ n = AfterSave(op[r])
            /\ Carried(queues[q].persons, e.persons, Gone(op[r]), Moved(op[r])),
         ReqOK(n, queues'), n.kind = "remove" => op[r].kind = "remove",
         \A b \in Bookings : Settles(op[r], b) => Settles(n, b) \/ Queued(b, queues')
  PROVE  Advances(r)
<1>1. op'[r] = n /\ \A s \in Procs \ {r} : op'[s] = op[s]
  BY SlotBecomes
<1>2. queues \in [Queues -> Doc] /\ queues'[q] = e /\ \A p \in Queues \ {q} : queues'[p] = queues[p]
  BY SlotIs
<1>3. \A p \in Queues : Evolves(queues[p], queues'[p])
  <2>1. \A p \in Queues : queues[p].v \in Nat
    BY SlotIs DEF Doc
  <2> QED
    BY <1>2, <2>1, SameIsShape DEF Evolves
<1>4. Unmade(queues')
  BY <1>2 DEF Given, Unmade
<1>5. \A p \in Queues :
       \/ SameShape(queues[p].persons, queues'[p].persons)
       \/ /\ op[r].at = "save" /\ op'[r] = AfterSave(op[r])
          /\ Carried(queues[p].persons, queues'[p].persons, Gone(op[r]), Moved(op[r]))
  BY <1>1, <1>2, SameIsShape
<1> QED
  BY <1>1, <1>3, <1>4, <1>5 DEF Advances, Void

LEMMA AddReadBookingAdvances ==
  ASSUME Given, NEW r \in Procs, AddReadBooking(r)
  PROVE  Advances(r)
<1>1. PICK o \in Operation : o = op[r]
  BY SlotIs
<1> DEFINE rest(a)  == [o EXCEPT !.agents = @ \ {a}]
           found(a) == [rest(a) EXCEPT !.at = "findQueue", !.q = <<a, today>>]
<1>2. o.at = "readBooking" /\ o.kind = "add"
  BY <1>1 DEF AddReadBooking, Given, IInv, OpOK, Adding
<1>3. PICK a \in o.agents : Become(r, found(a)) \/ Become(r, AfterAdd(rest(a), TRUE))
  BY <1>1, Zenon DEF AddReadBooking
<1>4. UNCHANGED <<bookings, queues>>
  BY DEF AddReadBooking
<1>5. PICK m \in Operation : m = rest(a) /\ m.kind = "add" /\ m.at = "readBooking"
                             /\ m.b = o.b /\ m.undo = o.undo
  <2>1. rest(a) \in Operation
    BY DEF Operation
  <2>2. /\ rest(a).kind = "add" /\ rest(a).at = "readBooking"
        /\ rest(a).b = o.b /\ rest(a).undo = o.undo
    BY <1>2 DEF Operation
  <2> QED
    BY <2>1, <2>2
<1>6. CASE Become(r, found(a))
  <2>1. PICK n : n = [m EXCEPT !.at = "findQueue", !.q = <<a, today>>]
    OBVIOUS
  <2>2. n.kind = "add" /\ n.at = "findQueue" /\ n.b = o.b /\ n.undo = o.undo /\ Become(r, n)
    BY <1>5, <1>6, <2>1 DEF Operation
  <2>3. n.kind \in RequestKinds /\ n.at \in RequestSteps \ (Saving \cup {"startService"})
    BY <2>2 DEF RequestKinds, RequestSteps, Saving, Adding
  <2>4. ReqOK(n, queues)
    BY <2>2, <2>3, PlainOK DEF Adding
  <2>5. \A b : Settles(op[r], b) => Settles(n, b)
    BY <1>1, <1>2, <2>2 DEF Settles
  <2> QED
    BY <1>4, <2>2, <2>4, <2>5, Quiet DEF Void
<1>7. CASE Become(r, AfterAdd(m, TRUE))
  <2>1. PICK n : n = AfterAdd(m, TRUE)
    OBVIOUS
  <2>2. /\ n.kind \in {"none", "add"} /\ \A qs : ReqOK(n, qs)
        /\ \A b : Settles(m, b) => Settles(n, b)
    BY <1>5, <2>1, AfterAddIs
  <2>3. \A b : Settles(op[r], b) => Settles(m, b)
    BY <1>1, <1>2, <1>5 DEF Settles
  <2> QED
    BY <1>4, <1>7, <2>1, <2>2, <2>3, Quiet DEF Void
<1> QED
  BY <1>3, <1>5, <1>6, <1>7

\* The changed copy goes to the save, or the request is answered with an error.
LEMMA InsertIntoIs ==
  ASSUME Given, NEW r \in Procs, op[r].at \in {"findQueue", "createQueue"},
         NEW d \in Doc, GoodArray(d.persons), d.exists, NEW qs, qs[op[r].q] = d,
         InsertInto(r, d)
  PROVE  \E n : /\ Become(r, n) /\ ReqOK(n, qs) /\ n.kind # "remove"
                /\ \A b : Settles(op[r], b) => Settles(n, b)
<1>1. PICK o \in Operation : o = op[r]
  BY SlotIs
<1>2. /\ o.at \in {"findQueue", "createQueue"} /\ o.kind = "add" /\ o.b \in Bookings
      /\ o.q \in Queues /\ o.pos \in Nat
  BY <1>1 DEF Given, IInv, OpOK, Adding, Operation
<1> DEFINE Entered(top) == Insert(d.persons, o.b, o.pos, top)
<1>3. CASE Become(r, AfterAdd(o, TRUE))
  <2>1. PICK n : n = AfterAdd(o, TRUE)
    OBVIOUS
  <2>2. /\ n.kind \in {"none", "add"} /\ \A rs : ReqOK(n, rs)
        /\ \A b : Settles(o, b) => Settles(n, b)
    BY <1>2, <2>1, AfterAddIs
  <2> QED
    BY <1>1, <1>3, <2>1, <2>2
<1>4. ASSUME ~Holds(d.persons, o.b), NEW top \in TopPosition(d.persons),
             NEW f \in SortOrders(Entered(top)),
             Become(r, [Loaded(o, o.q, [d EXCEPT !.persons = InOrder(Entered(top), f)])
                          EXCEPT !.at = "save"])
      PROVE  \E n : /\ Become(r, n) /\ ReqOK(n, qs) /\ n.kind # "remove"
                    /\ \A b : Settles(op[r], b) => Settles(n, b)
  <2> DEFINE cs == InOrder(Entered(top), f)
  <2>1. top \in Nat
    BY TopIsNat DEF GoodArray
  <2>2. Carried(d.persons, Entered(top), {}, {}) /\ Holds(Entered(top), o.b)
    BY <1>2, <1>4, <2>1, InsertCarries
  <2>3. GoodArray(Entered(top))
    BY <1>2, <1>4, <2>1, InsertGood
  <2>4. Carried(d.persons, cs, {}, {}) /\ Holds(cs, o.b)
    <3> HIDE DEF Entered
    <3> QED
      BY <1>4, <2>2, <2>3, SortCarries
  <2> HIDE DEF cs
  <2>5. PICK n : n = [Loaded(o, o.q, [d EXCEPT !.persons = cs]) EXCEPT !.at = "save"]
    OBVIOUS
  <2>6. /\ n.kind = "add" /\ n.b = o.b /\ n.q = o.q /\ n.at = "save" /\ n.undo = o.undo
        /\ n.docs[o.q] = [d EXCEPT !.persons = cs]
    BY <1>2, <2>5 DEF Loaded, Operation
  <2>7. Become(r, n)
    BY <1>4, <2>5 DEF cs
  <2>8. Agrees(n, d.persons, cs)
    BY <2>4, <2>6 DEF Agrees, WholeArray, Gone, Moved
  <2>9. ReqOK(n, qs)
    BY <1>1, <1>2, <2>4, <2>6, <2>8, CopyOK DEF RequestKinds, Saving
  <2>10. \A b : Settles(o, b) => Settles(n, b)
    BY <1>2, <2>6 DEF Settles
  <2> QED
    BY <1>1, <2>6, <2>7, <2>9, <2>10
<1> QED
  BY <1>1, <1>3, <1>4 DEF InsertInto

LEMMA AddFindQueueAdvances ==
  ASSUME Given, NEW r \in Procs, AddFindQueue(r)
  PROVE  Advances(r)
<1>1. PICK o \in Operation : o = op[r]
  BY SlotIs
<1>2. o.at = "findQueue" /\ o.kind = "add" /\ o.q \in Queues
  BY <1>1 DEF AddFindQueue, Given, IInv, OpOK, Adding
<1>3. UNCHANGED <<bookings, queues>>
  BY DEF AddFindQueue
<1>4. CASE queues[o.q].exists /\ InsertInto(r, queues[o.q])
  <2>1. PICK n : /\ Become(r, n) /\ ReqOK(n, queues) /\ n.kind # "remove"
                 /\ \A b : Settles(op[r], b) => Settles(n, b)
    BY <1>1, <1>2, <1>4, SlotIs, InsertIntoIs
  <2> QED
    BY <1>3, <2>1, Quiet DEF Void
<1>5. CASE Become(r, [o EXCEPT !.at = "createQueue"])
  <2>1. PICK n : n = [o EXCEPT !.at = "createQueue"]
    OBVIOUS
  <2>2. n.kind = "add" /\ n.at = "createQueue" /\ n.b = o.b /\ n.undo = o.undo
    BY <1>2, <2>1 DEF Operation
  <2>3. n.kind \in RequestKinds /\ n.at \in RequestSteps \ (Saving \cup {"startService"})
    BY <2>2 DEF RequestKinds, RequestSteps, Saving, Adding
  <2>4. ReqOK(n, queues)
    BY <2>2, <2>3, PlainOK DEF Adding
  <2>5. \A b : Settles(op[r], b) => Settles(n, b)
    BY <1>1, <1>2, <2>2 DEF Settles
  <2> QED
    BY <1>3, <1>5, <2>1, <2>2, <2>4, <2>5, Quiet DEF Void
<1> QED
  BY <1>1, <1>4, <1>5 DEF AddFindQueue

LEMMA AddCreateQueueAdvances ==
  ASSUME Given, NEW r \in Procs, AddCreateQueue(r)
  PROVE  Advances(r)
<1>1. PICK o \in Operation : o = op[r]
  BY SlotIs
<1>2. o.at = "createQueue" /\ o.kind = "add" /\ o.q \in Queues
  BY <1>1 DEF AddCreateQueue, Given, IInv, OpOK, Adding
<1>3. UNCHANGED bookings
  BY DEF AddCreateQueue
<1>4. CASE Become(r, AfterAdd(o, TRUE)) /\ UNCHANGED queues
  <2>1. PICK n : n = AfterAdd(o, TRUE)
    OBVIOUS
  <2>2. /\ n.kind \in {"none", "add"} /\ \A rs : ReqOK(n, rs)
        /\ \A b : Settles(o, b) => Settles(n, b)
    BY <1>2, <2>1, AfterAddIs
  <2> QED
    BY <1>1, <1>3, <1>4, <2>1, <2>2, Quiet DEF Void
<1>5. CASE /\ ~queues[o.q].exists /\ queues' = [queues EXCEPT ![o.q] = EmptyDoc]
           /\ InsertInto(r, EmptyDoc)
  <2>1. /\ EmptyDoc \in Doc /\ GoodArray(EmptyDoc.persons)
        /\ EmptyDoc.exists /\ EmptyDoc.v = 0 /\ EmptyDoc.persons = <<>>
    BY NoDocGood DEF EmptyDoc, NoDoc
  <2>2. queues'[o.q] = EmptyDoc
    BY <1>2, <1>5, SlotIs
  <2>3. PICK n : /\ Become(r, n) /\ ReqOK(n, queues') /\ n.kind # "remove"
                 /\ \A b : Settles(op[r], b) => Settles(n, b)
    BY <1>1, <1>2, <1>5, <2>1, <2>2, InsertIntoIs
  <2>4. queues[o.q].v = 0 /\ queues[o.q].persons = <<>>
    BY <1>2, <1>5 DEF Given, Unmade
  <2>5. Evolves(queues[o.q], EmptyDoc) /\ SameShape(queues[o.q].persons, EmptyDoc.persons)
    BY <2>1, <2>4, SameIsShape DEF Evolves
  <2> QED
    BY <1>2, <1>3, <1>5, <2>1, <2>3, <2>5, Writes
<1> QED
  BY <1>1, <1>4, <1>5 DEF AddCreateQueue

LEMMA SaveQueueAdvances ==
  ASSUME Given, NEW r \in Procs, SaveQueue(r)
  PROVE  Advances(r)
<1>1. PICK o \in Operation : o = op[r]
  BY SlotIs
<1>2. /\ o.at = "save" /\ o.q \in Queues /\ o.kind \in RequestKinds /\ ReqOK(o, queues)
      /\ o.at \in Saving
  BY <1>1, SlotIs DEF SaveQueue, ReqOK, Saving
<1>3. UNCHANGED bookings
  BY DEF SaveQueue
<1>4. PICK d \in Doc, c \in Doc :
        d = queues[o.q] /\ c = o.docs[o.q] /\ GoodArray(c.persons)
  BY <1>1, <1>2, SlotIs
<1>5. d.exists /\ (c.v = d.v => Agrees(o, d.persons, c.persons))
      /\ (o.kind = "add" => Holds(c.persons, o.b))
  BY <1>2, <1>4 DEF ReqOK
<1>6. CASE /\ Current(o) /\ Become(r, AfterSave(o))
           /\ queues' = [queues EXCEPT ![o.q].persons = o.docs[o.q].persons, ![o.q].v = @ + 1]
  <2>1. d.v \in Nat /\ d.v + 1 \in Nat
    BY DEF Doc
  <2>2. PICK e \in Doc : /\ e = [d EXCEPT !.persons = c.persons, !.v = d.v + 1]
                         /\ e.persons = c.persons
    <3> DEFINE f == [d EXCEPT !.persons = c.persons, !.v = d.v + 1]
    <3>1. f \in Doc /\ f.persons = c.persons
      BY <1>4, <2>1 DEF Doc, GoodArray
    <3> HIDE DEF f
    <3> QED
      BY <3>1 DEF f
  <2>3. e.v = d.v + 1 /\ e.exists
    BY <1>5, <2>2 DEF Doc
  <2>4. queues' = [queues EXCEPT ![o.q] = e]
    BY <1>2, <1>4, <1>6, <2>2, SlotIs DEF Doc
  <2>5. Carried(d.persons, e.persons, Gone(o), Moved(o))
    BY <1>2, <1>4, <1>5, <1>6, <2>2 DEF Current, Agrees, WholeArray
  <2>6. PICK n : n = AfterSave(o)
    OBVIOUS
  <2>7. /\ (n.kind = "remove" => o.kind = "remove") /\ \A qs : ReqOK(n, qs)
        /\ o.kind # "add" => \A b : ~Settles(o, b)
    BY <1>2, <2>6, AfterSaveIs
  <2>8. Evolves(d, e)
    BY <2>1, <2>3 DEF Evolves
  <2>9. \A b \in Bookings : Settles(o, b) => Queued(b, queues')
    <3> SUFFICES ASSUME NEW b \in Bookings, Settles(o, b)
                 PROVE  Queued(b, queues')
      OBVIOUS
    <3>1. o.kind = "add" /\ o.b = b
      BY <2>7 DEF Settles
    <3>2. Holds(e.persons, b) /\ queues'[o.q] = e
      BY <1>2, <1>5, <2>2, <2>4, <3>1, SlotIs
    <3> QED
      BY <1>2, <3>2 DEF Queued
  <2>10. ReqOK(n, queues')
    BY <1>2, <2>6, AfterSaveIs
  <2> QED
    BY <1>1, <1>2, <1>3, <1>4, <1>6, <2>3, <2>4, <2>5, <2>6, <2>7, <2>8, <2>9, <2>10, Writes
<1>7. CASE Become(r, AfterVersionError(o)) /\ UNCHANGED queues
  <2>1. PICK n : n = AfterVersionError(o)
    OBVIOUS
  <2>2. /\ n.kind # "remove" /\ \A qs : ReqOK(n, qs)
        /\ \A b : Settles(o, b) => Settles(n, b)
    BY <1>2, <2>1, AfterErrorIs
  <2> QED
    BY <1>1, <1>3, <1>7, <2>1, <2>2, Quiet DEF Void
<1> QED
  BY <1>1, <1>6, <1>7 DEF SaveQueue

\* Statuses written in place neither complete anybody nor bring a completed one back.
LEMMA PatchedShape ==
  ASSUME NEW ps, GoodArray(ps), NEW o \in Operation, o.at = "saveStatus", o.kind = "status",
         o.q \in Queues, o.touched = {} \/ Agrees(o, ps, o.docs[o.q].persons)
  PROVE  SameShape(ps, Patched(ps, o))
<1>1. PICK cs : cs = o.docs[o.q].persons
  OBVIOUS
<1>2. DOMAIN Patched(ps, o) = DOMAIN ps
  BY DEF Patched
<1>3. ASSUME NEW k \in DOMAIN ps
      PROVE  /\ Patched(ps, o)[k].b = ps[k].b /\ Patched(ps, o)[k].pos = ps[k].pos
             /\ (Patched(ps, o)[k].st = "completed" <=> ps[k].st = "completed")
  <2>1. ps[k] \in Person
    BY PosIsNat
  <2>2. CASE k \notin o.touched
    BY <2>2 DEF Patched
  <2>3. CASE k \in o.touched
    <3>1. ps[k].st # "completed" /\ cs[k].st # "completed"
      BY <1>1, <2>3 DEF Agrees, WholeArray
    <3>2. Patched(ps, o)[k] = [ps[k] EXCEPT !.st = cs[k].st]
      BY <1>1, <2>3 DEF Patched
    <3> QED
      BY <2>1, <3>1, <3>2 DEF Person
  <2> QED
    BY <2>2, <2>3
<1> QED
  BY <1>2, <1>3 DEF SameShape

LEMMA SavePersonsAdvances ==
  ASSUME Given, NEW r \in Procs, SavePersons(r)
  PROVE  Advances(r)
<1>1. PICK o \in Operation : o = op[r]
  BY SlotIs
<1>2. /\ o.at = "saveStatus" /\ o.q \in Queues /\ o.kind = "status" /\ o.kind \in RequestKinds
      /\ ReqOK(o, queues) /\ o.at \in Saving
  BY <1>1, SlotIs DEF SavePersons, ReqOK, Saving, RequestSteps, Adding
<1>3. UNCHANGED bookings
  BY DEF SavePersons
<1>4. PICK d \in Doc : d = queues[o.q] /\ GoodArray(d.persons)
  BY <1>2, SlotIs
<1>5. d.exists /\ (o.docs[o.q].v = d.v => Agrees(o, d.persons, o.docs[o.q].persons))
  BY <1>2, <1>4 DEF ReqOK
<1>6. CASE /\ o.touched = {} \/ Current(o)
           /\ queues' = [queues EXCEPT ![o.q].persons = Patched(@, o)]
           /\ Become(r, AfterSave(o))
  <2>1. PICK ps : ps = Patched(d.persons, o)
    OBVIOUS
  <2>2. GoodArray(ps)
    BY <1>1, <1>2, <1>4, <2>1, PatchedGood DEF Given, IInv
  <2>3. SameShape(d.persons, ps)
    BY <1>2, <1>4, <1>5, <1>6, <2>1, PatchedShape DEF Current
  <2>4. PICK e \in Doc : e = [d EXCEPT !.persons = ps] /\ e.persons = ps
    BY <2>2, ChangedDoc
  <2>5. e.v = d.v /\ e.exists /\ d.v \in Nat
    BY <1>5, <2>4 DEF Doc
  <2>6. queues' = [queues EXCEPT ![o.q] = e]
    BY <1>2, <1>4, <1>6, <2>1, <2>4, SlotIs DEF Doc
  <2>7. Evolves(d, e)
    BY <2>3, <2>4, <2>5 DEF Evolves
  <2>8. PICK n : n = AfterSave(o)
    OBVIOUS
  <2>9. /\ (n.kind = "remove" => o.kind = "remove") /\ \A qs : ReqOK(n, qs)
        /\ \A b : ~Settles(o, b)
    BY <1>2, <2>8, AfterSaveIs
  <2>10. ReqOK(n, queues')
    BY <1>2, <2>8, AfterSaveIs
  <2> QED
    BY <1>1, <1>2, <1>3, <1>4, <1>6, <2>3, <2>4, <2>5, <2>6, <2>7, <2>8, <2>9, <2>10, Writes
<1>7. CASE Become(r, AfterVersionError(o)) /\ UNCHANGED queues
  <2>1. PICK n : n = AfterVersionError(o)
    OBVIOUS
  <2>2. /\ n.kind # "remove" /\ \A qs : ReqOK(n, qs)
        /\ \A b : Settles(o, b) => Settles(n, b)
    BY <1>2, <2>1, AfterErrorIs
  <2> QED
    BY <1>1, <1>3, <1>7, <2>1, <2>2, Quiet DEF Void
<1> QED
  BY <1>1, <1>6, <1>7 DEF SavePersons

LEMMA StartServiceAdvances ==
  ASSUME Given, NEW r \in Procs, StartService(r)
  PROVE  Advances(r)
<1>1. PICK o \in Operation : o = op[r]
  BY SlotIs
<1>2. o.at = "startService" /\ o.q \in Queues /\ o.was = "waiting"
  BY <1>1, SlotIs DEF StartService, ReqOK
<1>3. UNCHANGED bookings /\ Become(r, Idle)
  BY DEF StartService
<1>4. PICK d \in Doc : d = queues[o.q] /\ GoodArray(d.persons)
  BY <1>2, SlotIs
<1>5. \A b : ~Settles(op[r], b)
  BY <1>1, <1>2, SlotIs DEF Settles, ReqOK, Adding
<1>6. CASE UNCHANGED queues
  BY <1>3, <1>5, <1>6, IdleIs, Quiet DEF Void
<1> DEFINE mine == {k \in DOMAIN d.persons : d.persons[k].b = o.b /\ d.persons[k].st = o.was}
           ps   == [k \in DOMAIN d.persons |->
                      IF k \in mine THEN [d.persons[k] EXCEPT !.st = "inService"] ELSE d.persons[k]]
<1>7. CASE mine # {} /\ queues' = [queues EXCEPT ![o.q].persons = ps]
  <2>1. SameShape(d.persons, ps)
    <3>1. ASSUME NEW k \in DOMAIN d.persons
          PROVE  /\ ps[k].b = d.persons[k].b /\ ps[k].pos = d.persons[k].pos
                 /\ (ps[k].st = "completed" <=> d.persons[k].st = "completed")
      <4>1. d.persons[k] \in Person
        BY <1>4, PosIsNat
      <4> QED
        BY <1>2, <4>1 DEF Person
    <3>2. DOMAIN ps = DOMAIN d.persons
      OBVIOUS
    <3> QED
      BY <3>1, <3>2 DEF SameShape
  <2> HIDE DEF ps
  <2>2. queues'[o.q].persons = ps /\ queues' = [queues EXCEPT ![o.q] = [d EXCEPT !.persons = ps]]
        /\ queues'[o.q] = [d EXCEPT !.persons = ps]
    BY <1>2, <1>4, <1>7, SlotIs DEF Doc
  <2>3. PICK e \in Doc : e = [d EXCEPT !.persons = ps] /\ e.persons = ps
    BY <1>2, <2>2, SlotIs
  <2>4. d.persons # <<>>
    BY <1>7
  <2>5. e.v = d.v /\ e.exists /\ d.v \in Nat
    BY <1>2, <1>4, <2>3, <2>4 DEF Doc, Given, Unmade
  <2>6. Evolves(d, e)
    BY <2>1, <2>3, <2>5 DEF Evolves
  <2> QED
    BY <1>2, <1>3, <1>4, <1>5, <2>1, <2>2, <2>3, <2>5, <2>6, IdleIs, Writes
<1> QED
  BY <1>1, <1>4, <1>6, <1>7 DEF StartService

LEMMA MarkAbsentAdvances ==
  ASSUME Given, NEW r \in Procs, MarkAbsent(r)
  PROVE  Advances(r)
<1>1. PICK o \in Operation : o = op[r]
  BY SlotIs
<1>2. /\ o.at = "markAbsent" /\ o.kind \in {"status", "remove"} /\ ReqOK(o, queues)
      /\ o.at \in Saving
  BY <1>1, SlotIs DEF MarkAbsent, ReqOK, Saving
<1>3. UNCHANGED queues /\ WriteStatus(o.b, "absent")
  BY <1>1 DEF MarkAbsent
<1>4. PICK n : n = [o EXCEPT !.at = IF o.kind = "status" THEN "saveStatus" ELSE "save"]
  OBVIOUS
<1>5. /\ n.kind = o.kind /\ n.b = o.b /\ n.q = o.q /\ n.docs = o.docs /\ n.touched = o.touched
      /\ n.at = IF o.kind = "status" THEN "saveStatus" ELSE "save"
  BY <1>4 DEF Operation
<1>6. Become(r, n)
  BY <1>1, <1>4 DEF MarkAbsent
<1>7. n.at \in Saving /\ n.at \in RequestSteps /\ n.at # "markAbsent" /\ n.at # "startService"
  BY <1>5 DEF Saving, RequestSteps
<1>8. WholeArray(n) <=> WholeArray(o)
  BY <1>2, <1>5 DEF WholeArray
<1>9. \A ps, cs : Agrees(o, ps, cs) => Agrees(n, ps, cs)
  BY <1>5, <1>8 DEF Agrees, Gone, Moved
<1>10. ReqOK(n, queues)
  BY <1>2, <1>5, <1>7, <1>9 DEF ReqOK
<1>11. \A b \in Bookings : Void(b, bookings) => Void(b, bookings')
  BY <1>3, SlotIs, StaysVoid
<1>12. \A b : ~Settles(op[r], b)
  BY <1>1, <1>2 DEF Settles
<1>13. n.kind = "remove" => op[r].kind = "remove"
  BY <1>1, <1>5
<1> QED
  BY <1>3, <1>6, <1>10, <1>11, <1>12, <1>13, Quiet

LEMMA SideEffectAdvances ==
  ASSUME Given, NEW r \in Procs, SideEffect(r)
  PROVE  Advances(r)
<1>1. /\ op[r].at = "effect" /\ UNCHANGED queues /\ Become(r, Idle)
      /\ WriteStatus(op[r].b, EffectOn(op[r].to))
  BY DEF SideEffect
<1>2. \A b : ~Settles(op[r], b)
  BY <1>1, SlotIs DEF Settles, ReqOK, Adding
<1>3. \A b \in Bookings : Void(b, bookings) => Void(b, bookings')
  BY <1>1, SlotIs, StaysVoid
<1> QED
  BY <1>1, <1>2, <1>3, IdleIs, Quiet

LEMMA DeleteBookingRowAdvances ==
  ASSUME Given, NEW r \in Procs, DeleteBookingRow(r)
  PROVE  Advances(r)
<1>1. /\ op[r].at = "deleteBooking" /\ UNCHANGED queues /\ Become(r, Idle)
      /\ WriteStatus(op[r].b, "deleted")
  BY DEF DeleteBookingRow
<1>2. \A b \in Bookings : Settles(op[r], b) => Void(b, bookings')
  BY <1>1, SlotIs DEF Settles, WriteStatus, Void, Booking
<1>3. \A b \in Bookings : Void(b, bookings) => Void(b, bookings')
  BY <1>1, SlotIs, StaysVoid
<1> QED
  BY <1>1, <1>2, <1>3, IdleIs, Quiet

LEMMA DeleteFindPersonAdvances ==
  ASSUME Given, NEW r \in Procs, DeleteFindPerson(r)
  PROVE  Advances(r)
<1>1. PICK o \in Operation : o = op[r]
  BY SlotIs
<1>2. o.at = "findPerson" /\ o.kind \in RequestKinds /\ o.kind # "add"
  BY <1>1, SlotIs DEF DeleteFindPerson, ReqOK, Adding
<1>3. UNCHANGED <<bookings, queues>>
  BY DEF DeleteFindPerson
<1>4. \A b : ~Settles(op[r], b)
  BY <1>1, <1>2 DEF Settles
<1>5. CASE Become(r, [o EXCEPT !.at = "deleteBooking"])
  <2>1. PICK n : n = [o EXCEPT !.at = "deleteBooking"]
    OBVIOUS
  <2>2. n.kind = o.kind /\ n.at = "deleteBooking"
    BY <2>1 DEF Operation
  <2>3. n.at \in RequestSteps \ (Saving \cup {"startService"})
    BY <2>2 DEF RequestSteps, Saving
  <2>4. ReqOK(n, queues)
    BY <1>2, <2>2, <2>3, PlainOK
  <2> QED
    BY <1>1, <1>3, <1>4, <1>5, <2>1, <2>2, <2>4, Quiet DEF Void
<1>6. ASSUME NEW q \in Queues, NEW i \in PlaceOf(queues[q].persons, o.b),
             Become(r, [Loaded(o, q, [queues[q] EXCEPT !.persons = Remove(@, i)])
                          EXCEPT !.at = "save"])
      PROVE  Advances(r)
  <2>1. PICK d \in Doc : d = queues[q] /\ GoodArray(d.persons)
    BY SlotIs
  <2>2. i \in DOMAIN d.persons /\ d.persons[i].b = o.b
    BY <1>6, <2>1 DEF PlaceOf
  <2>3. d.exists
    <3>1. d.persons # <<>>
      BY <2>2
    <3> QED
      BY <2>1, <3>1 DEF Given, Unmade
  <2>4. PICK cs : cs = Remove(d.persons, i)
    OBVIOUS
  <2>5. Carried(d.persons, cs, {o.b}, {})
    BY <2>1, <2>2, <2>4, RemoveCarries
  <2>6. PICK n : n = [Loaded(o, q, [d EXCEPT !.persons = cs]) EXCEPT !.at = "save"]
    OBVIOUS
  <2>7. n.kind = o.kind /\ n.b = o.b /\ n.q = q /\ n.at = "save" /\ n.docs[q] = [d EXCEPT !.persons = cs]
    BY <2>6 DEF Loaded, Operation
  <2>8. Become(r, n)
    BY <1>6, <2>1, <2>4, <2>6
  <2>9. o.kind = "delete"
    BY <1>1, <1>2, SlotIs DEF ReqOK
  <2>10. Agrees(n, d.persons, cs)
    BY <2>5, <2>7, <2>9 DEF Agrees, WholeArray, Gone, Moved
  <2>11. ReqOK(n, queues)
    BY <2>1, <2>3, <2>7, <2>9, <2>10, CopyOK DEF RequestKinds, Saving
  <2> QED
    BY <1>1, <1>3, <1>4, <2>7, <2>8, <2>11, Quiet DEF Void
<1> QED
  BY <1>1, <1>5, <1>6 DEF DeleteFindPerson

LEMMA StepAdvances ==
  ASSUME Given, NEW r \in Procs, Step(r)
  PROVE  Advances(r)
<1>1. op[r].at \in RequestSteps
  BY SlotIs DEF ReqOK
<1>2. ~( \/ PopulateBooking(r) \/ EnsureFindQueue(r) \/ EnsureReadBooking(r)
         \/ EnsureCreateQueue(r) \/ EnsureReadQueue(r) \/ EnsurePush(r)
         \/ RemindQueue(r) \/ CleanupQueue(r) \/ CleanupPerson(r) \/ FinalizeAbsent(r)
         \/ FindOrphans(r) \/ CancelOrphan(r) \/ CompleteStale(r))
  BY <1>1 DEF RequestSteps, Adding, PopulateBooking, EnsureFindQueue, EnsureReadBooking,
     EnsureCreateQueue, EnsureReadQueue, EnsurePush, RemindQueue, CleanupQueue,
     CleanupPerson, FinalizeAbsent, FindOrphans, CancelOrphan, CompleteStale
<1> QED
  BY <1>2, AddReadBookingAdvances, AddFindQueueAdvances, AddCreateQueueAdvances,
     SaveQueueAdvances, SavePersonsAdvances, StartServiceAdvances, MarkAbsentAdvances,
     SideEffectAdvances, DeleteFindPersonAdvances, DeleteBookingRowAdvances, Zenon
  DEF Step

LEMMA QueueRequestAdvances ==
  ASSUME Given, NEW r \in Procs, QueueRequest(r)
  PROVE  Advances(r)
  BY AddRequestAdvances, StatusRequestAdvances, RemoveRequestAdvances, ReorderRequestAdvances
  DEF QueueRequest

\* Among requests no job starts and nothing crashes.
LEMMA NoJobs ==
  ASSUME AmongRequests, NEW r \in Procs
  PROVE  ~CronJob(r) /\ ~Crash(r)
  BY DEF AmongRequests, CronJob, Crash, PopulateDailyQueues, SendQueueReminders,
     CleanupClosedLoungeQueues, CleanupPastQueues, CleanupStaleInQueueBookings,
     LoadQueues, Free

-----------------------------------------------------------------------------
\* The invariant of the requests.

\* What a behaviour is about does not change.
LEMMA SceneStays == [Next]_vars => UNCHANGED scene
<1>1. ASSUME NEW r \in Procs, BookingRequest(r) \/ QueueRequest(r)
      PROVE  UNCHANGED scene
  BY <1>1 DEF BookingRequest, QueueRequest, CreateBooking, CreateQueueBooking,
     UpdateBooking, DeleteBooking, AddPersonToQueue, UpdatePersonStatus,
     RemovePersonFromQueue, ReorderPerson
<1>2. ASSUME NEW r \in Procs, CronJob(r) \/ Crash(r)
      PROVE  UNCHANGED scene
  BY <1>2 DEF CronJob, Crash, PopulateDailyQueues, SendQueueReminders,
     CleanupClosedLoungeQueues, CleanupPastQueues, CleanupStaleInQueueBookings, LoadQueues
<1>3. ASSUME NEW r \in Procs, Step(r)
      PROVE  UNCHANGED scene
  BY <1>3 DEF Step, AddReadBooking, AddFindQueue, AddCreateQueue, SaveQueue, SavePersons,
     StartService, MarkAbsent, SideEffect, DeleteFindPerson, DeleteBookingRow,
     PopulateBooking, EnsureFindQueue, EnsureReadBooking, EnsureCreateQueue,
     EnsureReadQueue, EnsurePush, RemindQueue, CleanupQueue, CleanupPerson,
     FinalizeAbsent, FindOrphans, CancelOrphan, CompleteStale
<1> QED
  BY <1>1, <1>2, <1>3 DEF Next, vars, DayPasses, AtRest

\* A step among requests is one of a request, or writes nothing.
LEMMA OneAdvances ==
  ASSUME IInv, IInv', RInv, AmongRequests, [Next]_vars
  PROVE  /\ UNCHANGED scene
         /\ \/ UNCHANGED <<bookings, queues, op>>
            \/ Given /\ \E r \in Procs : Advances(r)
<1>1. UNCHANGED scene
  BY SceneStays
<1>2. Given
  BY <1>1 DEF Given, RInv, ReqInv
<1>3. CASE \E r \in Procs : BookingRequest(r) \/ QueueRequest(r) \/ CronJob(r) \/ Step(r) \/ Crash(r)
  BY <1>1, <1>2, <1>3, NoJobs, BookingRequestAdvances, QueueRequestAdvances, StepAdvances
<1>4. CASE DayPasses \/ AtRest \/ UNCHANGED vars
  BY <1>1, <1>4 DEF DayPasses, AtRest, vars
<1> QED
  BY <1>3, <1>4 DEF Next

LEMMA ReqInvKept ==
  ASSUME Given, NEW r \in Procs, Advances(r)
  PROVE  ReqInv'
<1>1. ASSUME NEW s \in Procs
      PROVE  ReqOK(op'[s], queues')
  <2>1. CASE s = r
    BY <2>1 DEF Advances
  <2>2. CASE s # r
    <3>1. op'[s] = op[s] /\ \A q \in Queues : Evolves(queues[q], queues'[q])
      BY <2>2 DEF Advances
    <3> QED
      BY <3>1, SlotIs, OthersReqOK
  <2> QED
    BY <2>1, <2>2
<1>2. Unmade(queues')
  BY DEF Advances
<1>3. (\A s \in Procs : ReqOK(op[s], queues))'
  BY <1>1
<1>4. Unmade(queues)'
  BY <1>2 DEF Unmade
<1> QED
  BY <1>3, <1>4 DEF ReqInv

\* Whoever stood in a queue stands there still, or is deleted next.
LEMMA QueuedOrSettled ==
  ASSUME Given, NEW r \in Procs, Advances(r), op[r].kind # "remove",
         NEW b \in Bookings, Queued(b, queues)
  PROVE  Queued(b, queues') \/ Settles(op'[r], b)
<1>1. PICK q \in Queues : Holds(queues[q].persons, b)
  BY DEF Queued
<1>0. PICK o \in Operation : o = op[r]
  BY SlotIs
<1>2. PICK ps, qs : ps = queues[q].persons /\ qs = queues'[q].persons /\ o = op[r]
  BY <1>0
<1>3. CASE SameShape(ps, qs)
  <2>1. Holds(qs, b)
    BY <1>1, <1>2, <1>3 DEF Holds, SameShape
  <2> QED
    BY <1>2, <2>1 DEF Queued
<1>4. CASE o.at = "save" /\ op'[r] = AfterSave(o) /\ Carried(ps, qs, Gone(o), Moved(o))
  <2>1. Holds(qs, b) \/ b \in Gone(o)
    BY <1>1, <1>2, <1>4 DEF Carried, Holds
  <2>2. CASE Holds(qs, b)
    BY <1>2, <2>2 DEF Queued
  <2>3. CASE b \in Gone(o)
    <3>1. o.kind = "delete" /\ b = o.b
      BY <1>2, <2>3 DEF Gone
    <3>2. o.kind \in RequestKinds /\ o.at \in Saving
      BY <1>4, <3>1 DEF RequestKinds, Saving
    <3>3. op'[r].at = "deleteBooking" /\ op'[r].b = o.b
      BY <1>4, <3>1, <3>2, AfterSaveIs
    <3> QED
      BY <3>1, <3>3 DEF Settles
  <2> QED
    BY <2>1, <2>2, <2>3
<1> QED
  BY <1>2, <1>3, <1>4 DEF Advances

LEMMA SettledInvKept ==
  ASSUME Given, SettledInv, NEW r \in Procs, Advances(r)
  PROVE  SettledInv'
<1> SUFFICES ASSUME NoStatusNamed
             PROVE  /\ (\A b \in Bookings : Settled(b))'
                    /\ (\A s \in Procs : op[s].kind # "remove")'
  BY DEF SettledInv, NoStatusNamed, AmongRequests, Given
<1>1. \A s \in Procs : op'[s].kind # "remove"
  BY DEF Advances, SettledInv, NoStatusNamed
<1>2. ASSUME NEW b \in Bookings
      PROVE  Void(b, bookings') \/ Queued(b, queues') \/ \E s \in Procs : Settles(op'[s], b)
  <2>1. Void(b, bookings) \/ Queued(b, queues) \/ \E s \in Procs : Settles(op[s], b)
    BY DEF SettledInv, Settled, Void, Queued
  <2>2. CASE Void(b, bookings)
    BY <2>2 DEF Advances
  <2>3. CASE Queued(b, queues)
    BY <2>3, QueuedOrSettled DEF SettledInv
  <2>4. ASSUME NEW s \in Procs, Settles(op[s], b)
        PROVE  Void(b, bookings') \/ Queued(b, queues') \/ \E t \in Procs : Settles(op'[t], b)
    <3>1. CASE s = r
      BY <2>4, <3>1 DEF Advances
    <3>2. CASE s # r
      BY <2>4, <3>2 DEF Advances
    <3> QED
      BY <3>1, <3>2
  <2> QED
    BY <2>1, <2>2, <2>3, <2>4
<1>3. (\A b \in Bookings : Settled(b))'
  BY <1>2 DEF Settled, Void, Queued
<1> QED
  BY <1>1, <1>3

LEMMA InitSettled == Init => RInv
<1> SUFFICES ASSUME Init
             PROVE  RInv
  OBVIOUS
<1>1. \A r \in Procs : op[r] = Idle
  BY DEF Init
<1>2. ASSUME NEW r \in Procs
      PROVE  ReqOK(op[r], queues) /\ op[r].kind # "remove"
  BY <1>1, IdleIs
<1>3. Unmade(queues)
  BY DEF Init, Unmade, NoDocs, NoDoc
<1>4. \A b \in Bookings : bookings[b].st = "unborn"
  BY DEF Init
<1> QED
  BY <1>2, <1>3, <1>4 DEF RInv, ReqInv, SettledInv, Settled, Init

LEMMA RInvKept ==
  ASSUME IInv, IInv', RInv, [Next]_vars
  PROVE  RInv'
<1>1. UNCHANGED scene
  BY SceneStays
<1>2. CASE ~AmongRequests
  BY <1>1, <1>2 DEF RInv, ReqInv, SettledInv, NoStatusNamed, AmongRequests
<1>3. CASE AmongRequests /\ UNCHANGED <<bookings, queues, op>>
  <2>1. ReqInv'
    <3>1. Unmade(queues) /\ \A r \in Procs : ReqOK(op[r], queues)
      BY <1>3 DEF RInv, ReqInv
    <3>2. (Unmade(queues) /\ \A r \in Procs : ReqOK(op[r], queues))'
      BY <1>3, <3>1 DEF Unmade
    <3> QED
      BY <3>2 DEF ReqInv
  <2>2. SettledInv'
    BY <1>1, <1>3 DEF RInv, SettledInv, Settled, NoStatusNamed, AmongRequests, Settles
  <2> QED
    BY <1>1, <2>1, <2>2 DEF RInv
<1>4. ASSUME Given, NEW r \in Procs, Advances(r)
      PROVE  RInv'
  BY <1>1, <1>4, ReqInvKept, SettledInvKept DEF RInv
<1> QED
  BY <1>2, <1>3, <1>4, OneAdvances

\* What holds of the operations in flight among requests: the copy that a request is
\* about to save differs from the stored queue by that request alone, unless the
\* version tells (queue.service.ts:179-214, 289-418).
THEOREM RequestsInductive == Spec => []RInv
<1>1. Init => RInv
  BY InitSettled
<1>2. IInv /\ IInv' /\ RInv /\ [Next]_vars => RInv'
  BY RInvKept
<1> QED
  BY <1>1, <1>2, Inductive, PTL DEF Spec

\* A queue booking is queued or deleted once its request is answered
\* (booking.service.ts:187-191).
THEOREM NobodyOrphaned == Spec => []NoOrphanedBooking
<1>1. RInv => NoOrphanedBooking
  BY DEF RInv, SettledInv, NoStatusNamed, Settled, Settles, NoOrphanedBooking, InFlight
<1> QED
  BY <1>1, RequestsInductive, PTL

-----------------------------------------------------------------------------
\* What a step of the requests may never do.

\* Every queue keeps its people and their places, or the changed copy of the one
\* request that acts becomes the queue.
LEMMA ShapeOrSave ==
  ASSUME IInv, IInv', RInv, AmongRequests, [Next]_vars, NEW q \in Queues
  PROVE  \/ SameShape(queues[q].persons, queues'[q].persons)
         \/ \E r \in Procs :
              /\ op[r].kind \in {"remove", "delete", "reorder"} => Acts(r)
              /\ Carried(queues[q].persons, queues'[q].persons, Gone(op[r]), Moved(op[r]))
<1>1. CASE UNCHANGED queues
  BY <1>1, SameIsShape
<1>2. ASSUME Given, NEW r \in Procs, op[r].at = "save", op'[r] = AfterSave(op[r]),
             op[r].kind \in {"remove", "delete", "reorder"}
      PROVE  Acts(r)
  <2>1. AfterSave(op[r]) = Idle \/
        AfterSave(op[r]) = [Idle EXCEPT !.kind = "delete", !.at = "deleteBooking", !.b = op[r].b]
    BY <1>2 DEF AfterSave
  <2>2. AfterSave(op[r]).at # "save"
    BY <2>1, IdleIs DEF Operation
  <2> QED
    BY <1>2, <2>2 DEF Acts
<1> QED
  BY <1>1, <1>2, OneAdvances DEF Advances

LEMMA RemovalAlone == IInv /\ IInv' /\ RInv /\ [Next]_vars => [AmongRequests =>
       \A q \in Queues, b \in Bookings :
         Holds(queues[q].persons, b) /\ ~Holds(queues'[q].persons, b) =>
           \E r \in Procs : /\ Acts(r)
                            /\ op[r].kind \in {"remove", "delete"}
                            /\ op[r].b = b]_vars
<1> SUFFICES ASSUME IInv, IInv', RInv, [Next]_vars, AmongRequests,
                    NEW q \in Queues, NEW b \in Bookings,
                    Holds(queues[q].persons, b), ~Holds(queues'[q].persons, b)
             PROVE  \E r \in Procs : /\ Acts(r)
                                     /\ op[r].kind \in {"remove", "delete"}
                                     /\ op[r].b = b
  OBVIOUS
<1>1. ~SameShape(queues[q].persons, queues'[q].persons)
  BY DEF SameShape, Holds
<1>2. PICK r \in Procs :
        /\ op[r].kind \in {"remove", "delete", "reorder"} => Acts(r)
        /\ Carried(queues[q].persons, queues'[q].persons, Gone(op[r]), Moved(op[r]))
  BY <1>1, ShapeOrSave
<1>3. b \in Gone(op[r])
  BY <1>2 DEF Carried, Holds
<1> QED
  BY <1>2, <1>3 DEF Gone

LEMMA NobodyOvertakes == IInv /\ IInv' /\ RInv /\ [Next]_vars => [AmongRequests =>
       \A q \in Queues, b, c \in Bookings :
         Ahead(queues[q].persons, b, c) /\ Ahead(queues'[q].persons, c, b) =>
           \E r \in Procs : /\ Acts(r)
                            /\ op[r].kind = "reorder"
                            /\ op[r].b \in {b, c}]_vars
<1> SUFFICES ASSUME IInv, IInv', RInv, [Next]_vars, AmongRequests,
                    NEW q \in Queues, NEW b \in Bookings, NEW c \in Bookings,
                    Ahead(queues[q].persons, b, c), Ahead(queues'[q].persons, c, b)
             PROVE  \E r \in Procs : /\ Acts(r)
                                     /\ op[r].kind = "reorder"
                                     /\ op[r].b \in {b, c}
  OBVIOUS
<1>1. PICK ps, qs : ps = queues[q].persons /\ qs = queues'[q].persons
  OBVIOUS
<1>2. GoodArray(ps)
  BY <1>1 DEF IInv, QueuesOK
<1>3. ~SameShape(ps, qs)
  <2> SUFFICES ASSUME SameShape(ps, qs)
               PROVE  FALSE
    OBVIOUS
  <2>1. PICK i \in DOMAIN ps, j \in DOMAIN ps :
          ps[i].b = b /\ ps[j].b = c /\ ps[i].pos < ps[j].pos
    BY <1>1 DEF Ahead
  <2>2. PICK k \in DOMAIN ps, l \in DOMAIN ps :
          ps[k].b = c /\ ps[l].b = b /\ ps[k].pos < ps[l].pos
    BY <1>1 DEF Ahead, SameShape
  <2>3. k = j /\ l = i
    BY <1>2, <2>1, <2>2 DEF GoodArray, NoDuplicate
  <2>4. ps[i].pos \in Nat /\ ps[j].pos \in Nat
    BY <1>2, PosIsNat
  <2> QED
    BY <2>1, <2>2, <2>3, <2>4
<1>4. PICK r \in Procs :
        /\ op[r].kind \in {"remove", "delete", "reorder"} => Acts(r)
        /\ Carried(ps, qs, Gone(op[r]), Moved(op[r]))
  BY <1>1, <1>3, ShapeOrSave
<1>5. {b, c} \cap Moved(op[r]) # {}
  BY <1>1, <1>4 DEF Carried
<1> QED
  BY <1>4, <1>5 DEF Moved

LEMMA CompletedStays == IInv /\ IInv' /\ RInv /\ [Next]_vars => [AmongRequests =>
       \A q \in Queues : \A i \in DOMAIN queues[q].persons :
         queues[q].persons[i].st = "completed" =>
           \A j \in DOMAIN queues'[q].persons :
             queues'[q].persons[j].b = queues[q].persons[i].b =>
               queues'[q].persons[j].st = "completed"]_vars
<1> SUFFICES ASSUME IInv, IInv', RInv, [Next]_vars, AmongRequests,
                    NEW q \in Queues, NEW i \in DOMAIN queues[q].persons,
                    queues[q].persons[i].st = "completed",
                    NEW j \in DOMAIN queues'[q].persons,
                    queues'[q].persons[j].b = queues[q].persons[i].b
             PROVE  queues'[q].persons[j].st = "completed"
  OBVIOUS
<1>1. CASE SameShape(queues[q].persons, queues'[q].persons)
  <2>1. GoodArray(queues[q].persons)
    BY DEF IInv, QueuesOK
  <2>2. j \in DOMAIN queues[q].persons /\ queues[q].persons[j].b = queues[q].persons[i].b
    BY <1>1 DEF SameShape
  <2>3. i = j
    BY <2>1, <2>2 DEF GoodArray, NoDuplicate
  <2> QED
    BY <1>1, <2>3 DEF SameShape
<1>2. ASSUME NEW r \in Procs,
             Carried(queues[q].persons, queues'[q].persons, Gone(op[r]), Moved(op[r]))
      PROVE  queues'[q].persons[j].st = "completed"
  BY <1>2 DEF Carried
<1> QED
  BY <1>1, <1>2, ShapeOrSave

\* Only a request to remove or delete a booking takes it out of a queue: no stale
\* save drops a person that somebody else has just added (queue.service.ts:98, 382-386).
THEOREM RemovalTakesOut == Spec => OnlyRemovalRemoves
  BY RemovalAlone, Inductive, RequestsInductive, PTL DEF Spec, OnlyRemovalRemoves

\* Only a reorder request for one of two persons lets one overtake the other
\* (queue.service.ts:200-204, 353-357, queue.helpers.ts:40-42).
THEOREM OnlyReorderOvertakes == Spec => NoOvertaking
  BY NobodyOvertakes, Inductive, RequestsInductive, PTL DEF Spec, NoOvertaking

\* No request that loaded the queue before a completion undoes it
\* (queue.helpers.ts:20).
THEOREM CompletionFinal == Spec => CompletedIsFinal
  BY CompletedStays, Inductive, RequestsInductive, PTL DEF Spec, CompletedIsFinal
=============================================================================
