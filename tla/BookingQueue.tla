---------------------------- MODULE BookingQueue ----------------------------
(***************************************************************************)
(* BookingSystem: bookings, the daily queue of each agent, the HTTP        *)
(* handlers that change them and the cron jobs of src/utils/cron.ts.       *)
(*                                                                         *)
(* A handler or a job is an operation running in a slot of Procs.  It      *)
(* advances one database call at a time: between two calls every other     *)
(* slot may run, in the same Node process (an await) or in another one of  *)
(* the PM2 cluster, where each process also runs every cron job.           *)
(*                                                                         *)
(* What the handlers load is a copy of the queue document.  Mongoose saves *)
(* the copy in one of two ways:                                            *)
(*   - an array that was spliced, pushed to or sorted is written whole, if *)
(*     the version is still the one loaded, and the version is increased;  *)
(*   - fields of single elements are written in place, if the version is   *)
(*     still the one loaded, and the version stays.                        *)
(* findOneAndUpdate neither looks at the version nor increases it.         *)
(***************************************************************************)
EXTENDS QueuePersons, FiniteSets

CONSTANTS
  Agents,          \* users of type agent
  Procs,           \* requests and jobs that may be in flight together
  None,            \* no booking, no queue
  MaxDay,          \* bound: days are 0..MaxDay
  MaxPosition,     \* bound: positions a request may ask for
  CreateStatuses,  \* booking statuses that POST /bookings may name
  UpdateStatuses,  \* booking statuses that PUT /bookings/:id may name
  Scenes           \* what a behaviour may be about: the handlers and jobs it runs
                   \* (does), its bounds of versions and of bookings

Days   == 0..MaxDay
Queues == Agents \X Days
Kinds  == {"create", "walkIn", "update", "add", "status", "remove", "reorder",
           "delete", "populate", "remind", "closed", "past", "stale", "crash"}

LiveStatus    == {"pending", "confirmed", "inQueue"}
FinalStatus   == {"completed", "cancelled", "absent"}
BookingStatus == LiveStatus \cup FinalStatus

ASSUME ConstantsAssumption ==
  /\ MaxDay \in Nat /\ MaxPosition \in Nat
  /\ CreateStatuses \subseteq BookingStatus /\ UpdateStatuses \subseteq BookingStatus
  /\ \A s \in Scenes : s.does \subseteq Kinds /\ s.versions \in Nat /\ s.bookings \in Nat
  /\ None \notin Bookings /\ None \notin Queues

\* A booking that does not exist yet is unborn; its id is never used again.
Booking == [st : BookingStatus \cup {"unborn", "deleted"},
            agents : SUBSET Agents, day : Days]

\* A queue document; `v` is Mongoose's __v.
Doc   == [exists : BOOLEAN, v : Nat, persons : Seq(Person)]
NoDoc == [exists |-> FALSE, v |-> 0, persons |-> <<>>]
EmptyDoc == [NoDoc EXCEPT !.exists = TRUE]

Steps == {"idle", "readBooking", "findQueue", "createQueue", "save",
          "startService", "markAbsent", "saveStatus", "saveFlags", "effect",
          "findPerson", "deleteBooking", "nextBooking", "ensureFind",
          "ensureBooking", "ensureCreate", "ensureRead", "push", "nextQueue",
          "person", "finalizeAbsent", "findOrphans", "cancelOrphan", "stale"}

VARIABLES
  bookings,   \* the bookings collection
  queues,     \* the queues collection, one document per agent and day at most
  today,      \* getStartOfToday()
  op,         \* per slot, the operation in flight
  scene       \* the handlers and jobs of this behaviour

vars == <<bookings, queues, today, op, scene>>

\* An operation in flight: what it runs, the call it makes next, its
\* parameters, what is left of its loops and the documents it has loaded.
Operation ==
  [kind : Kinds \cup {"none"}, at : Steps,
   q : Queues \cup {None}, b : Bookings \cup {None},
   to : PersonStatus,             \* requested person status
   was : PersonStatus,            \* the person's status when it was loaded
   pos : Nat,                     \* requested (add) or computed (push) position
   undo : BOOLEAN,                \* delete the booking if it is not queued
   agents : SUBSET Agents,        \* agents whose queue is still to be filled
   todo : SUBSET Bookings,        \* bookings still to be processed
   confirmed : SUBSET Bookings,   \* those of todo that were loaded as confirmed
   left : SUBSET Queues,          \* queues still to be processed
   docs : [Queues -> Doc],        \* loaded documents, with the local changes
   touched : SUBSET Nat,          \* indices whose fields were changed in place
   i : Nat]                       \* the person the cleanup looks at

NoDocs == [q \in Queues |-> NoDoc]

Idle == [kind |-> "none", at |-> "idle", q |-> None, b |-> None,
         to |-> "waiting", was |-> "waiting", pos |-> 0, undo |-> FALSE,
         agents |-> {}, todo |-> {}, confirmed |-> {}, left |-> {},
         docs |-> NoDocs, touched |-> {}, i |-> 0]

Init ==
  /\ bookings = [b \in Bookings |-> [st |-> "unborn", agents |-> {}, day |-> 0]]
  /\ queues = NoDocs
  /\ today = 0
  /\ op = [r \in Procs |-> Idle]
  /\ scene \in Scenes

-----------------------------------------------------------------------------
\* Building blocks.

\* A slot is free for a handler or job.  Bound: requests that increase a
\* version start below scene.versions only (those in flight may pass it).
BelowBound == \A q \in Queues : queues[q].v < scene.versions
Versioned  == {"walkIn", "update", "add", "remove", "reorder", "delete"}

Free(r, kind) ==
  /\ op[r].at = "idle"
  /\ kind \in scene.does
  /\ kind \in Versioned => BelowBound

Become(r, o) == op' = [op EXCEPT ![r] = o]

Exists(b) == bookings[b].st \notin {"unborn", "deleted"}

\* Bound: bookings are created below scene.bookings.
MoreBookings == Cardinality({b \in Bookings : bookings[b].st # "unborn"}) < scene.bookings

\* findByIdAndUpdate, and save() of a booking whose status was assigned.
WriteStatus(b, st) ==
  bookings' = [bookings EXCEPT
                 ![b].st = IF @ \in {"unborn", "deleted"} THEN @ ELSE st]

\* The operation o with document d loaded as queue q.
Loaded(o, q, d) == [o EXCEPT !.q = q, !.docs[q] = d]

\* An operation of one queue: loads today's queue of agent a, which must exist.
Loads(a, q) == q = <<a, today>> /\ queues[q].exists

\* Mutant of AfterAdd: a failed walk-in booking is left behind.
AfterAddNoUndo(o, failed) ==
  IF o.agents # {}
    THEN [o EXCEPT !.at = "readBooking", !.q = None, !.docs = NoDocs]
  ELSE Idle

\* addPersonToQueue returned or threw: the loop of updateBooking goes on with
\* the next agent, a failed walk-in booking is deleted.
AfterAdd(o, failed) ==
  IF failed /\ o.undo
    THEN [Idle EXCEPT !.kind = "add", !.at = "deleteBooking", !.b = o.b]
  ELSE IF o.agents # {}
    THEN [o EXCEPT !.at = "readBooking", !.q = None, !.docs = NoDocs]
  ELSE Idle

\* ensurePersonInQueue returned or threw: next agent, then next booking.
AfterEnsure(o) ==
  IF o.agents # {} THEN [o EXCEPT !.at = "ensureFind", !.q = None, !.pos = 0]
  ELSE IF o.todo # {}
    THEN [o EXCEPT !.at = "nextBooking", !.q = None, !.b = None, !.pos = 0]
  ELSE Idle

\* A job has dealt with a queue: next queue of those it loaded.
AfterQueue(o) ==
  IF o.left = {} THEN Idle
  ELSE [o EXCEPT !.at = "nextQueue", !.q = None, !.touched = {}, !.i = 0,
                 !.todo = {}, !.docs[o.q] = NoDoc]

\* What follows queue.save(), when it succeeds and when it throws.
AfterSave(o) ==
  CASE o.kind = "add"    -> AfterAdd(o, FALSE)
    [] o.kind = "status" /\ o.to # "absent" ->
         [Idle EXCEPT !.kind = "status", !.at = "effect", !.b = o.b, !.to = o.to]
    [] o.kind = "delete" ->
         [Idle EXCEPT !.kind = "delete", !.at = "deleteBooking", !.b = o.b]
    [] o.kind \in {"remind", "closed", "past"} -> AfterQueue(o)
    [] OTHER -> Idle

AfterVersionError(o) ==
  CASE o.kind = "add"    -> AfterAdd(o, TRUE)
    [] o.kind = "closed" -> AfterQueue(o)
    [] OTHER -> Idle

-----------------------------------------------------------------------------
\* Bookings: POST /bookings, the walk-in and queue bookings, PUT /bookings/:id.

\* createBooking: the request may name any status.
CreateBooking(b, as, day, st) ==
  /\ "create" \in scene.does
  /\ bookings[b].st = "unborn" /\ MoreBookings
  /\ day >= today
  /\ bookings' = [bookings EXCEPT ![b] = [st |-> st, agents |-> as, day |-> day]]
  /\ UNCHANGED <<queues, today, op, scene>>

\* createQueueBooking, createAgentQueueBooking and createLoungeQueueBooking.
CreateQueueBooking(r, b, a) ==
  /\ Free(r, "walkIn")
  /\ bookings[b].st = "unborn" /\ MoreBookings
  /\ bookings' = [bookings EXCEPT
                    ![b] = [st |-> "inQueue", agents |-> {a}, day |-> today]]
  /\ Become(r, [Idle EXCEPT !.kind = "add", !.at = "readBooking", !.b = b,
                            !.agents = {a}, !.undo = TRUE])
  /\ UNCHANGED <<queues, today, scene>>

\* updateBooking: whatever the status was; inQueue also fills the queues of
\* the assigned agents.
UpdateBooking(r, b, st, day) ==
  /\ Free(r, "update")
  /\ Exists(b)
  /\ bookings' = [bookings EXCEPT ![b].st = st, ![b].day = day]
  /\ Become(r, IF st = "inQueue" /\ bookings[b].agents # {}
                 THEN [Idle EXCEPT !.kind = "add", !.at = "readBooking", !.b = b,
                                   !.agents = bookings[b].agents]
                 ELSE Idle)
  /\ UNCHANGED <<queues, today, scene>>

-----------------------------------------------------------------------------
\* addPersonToQueue

AddPersonToQueue(r, a, b, position) ==
  /\ Free(r, "add")
  /\ Exists(b)
  /\ Become(r, [Idle EXCEPT !.kind = "add", !.at = "readBooking", !.b = b,
                            !.agents = {a}, !.pos = position])
  /\ UNCHANGED <<bookings, queues, today, scene>>

\* findById of the booking and the two checks on it.
AddReadBooking(r) ==
  LET o == op[r] IN
  /\ o.at = "readBooking"
  /\ \E a \in o.agents :
       LET rest == [o EXCEPT !.agents = @ \ {a}] IN
       IF bookings[o.b].st = "inQueue" /\ a \in bookings[o.b].agents
         THEN Become(r, [rest EXCEPT !.at = "findQueue", !.q = <<a, today>>])
         ELSE Become(r, AfterAdd(rest, TRUE))
  /\ UNCHANGED <<bookings, queues, today, scene>>

\* The changed copy of document d, ready to be saved, or "already in queue".
InsertInto(r, d) ==
  LET o == op[r] IN
  \/ /\ Holds(d.persons, o.b)
     /\ Become(r, AfterAdd(o, TRUE))
  \/ /\ ~Holds(d.persons, o.b)
     /\ \E top \in TopPosition(d.persons) :
          LET ps == Insert(d.persons, o.b, o.pos, top) IN
          \E f \in SortOrders(ps) :
            Become(r, [Loaded(o, o.q, [d EXCEPT !.persons = InOrder(ps, f)])
                         EXCEPT !.at = "save"])

AddFindQueue(r) ==
  LET o == op[r] IN
  /\ o.at = "findQueue"
  /\ IF queues[o.q].exists
       THEN InsertInto(r, queues[o.q])
       ELSE Become(r, [o EXCEPT !.at = "createQueue"])
  /\ UNCHANGED <<bookings, queues, today, scene>>

\* queues.create: the unique index refuses a second queue of the agent's day.
AddCreateQueue(r) ==
  LET o == op[r] IN
  /\ o.at = "createQueue"
  /\ \/ /\ queues[o.q].exists
        /\ Become(r, AfterAdd(o, TRUE))
        /\ UNCHANGED queues
     \/ /\ ~queues[o.q].exists
        /\ queues' = [queues EXCEPT ![o.q] = EmptyDoc]
        /\ InsertInto(r, EmptyDoc)
  /\ UNCHANGED <<bookings, today, scene>>

-----------------------------------------------------------------------------
\* queue.save()

\* Mutant of Current: the version is not compared.
Unversioned(o) == TRUE

\* The loaded version is still the stored one.
Current(o) == queues[o.q].v = o.docs[o.q].v

\* The array is written whole.
SaveQueue(r) ==
  LET o == op[r] IN
  /\ o.at = "save"
  /\ \/ /\ Current(o)
        /\ queues' = [queues EXCEPT ![o.q].persons = o.docs[o.q].persons,
                                    ![o.q].v = @ + 1]
        /\ Become(r, AfterSave(o))
     \/ /\ ~Current(o)
        /\ Become(r, AfterVersionError(o))
        /\ UNCHANGED queues
  /\ UNCHANGED <<bookings, today, scene>>

\* What the in-place write makes of the stored array: the touched elements
\* take the status, or the reminder flag, of the local copy.
Patched(stored, o) ==
  [k \in DOMAIN stored |->
     IF k \notin o.touched THEN stored[k]
     ELSE IF o.at = "saveStatus"
       THEN [stored[k] EXCEPT !.st = o.docs[o.q].persons[k].st]
       ELSE [stored[k] EXCEPT !.rem = o.docs[o.q].persons[k].rem]]

\* Single elements are written in place; without any change nothing is sent.
SavePersons(r) ==
  LET o == op[r]
      current == o.touched = {} \/ Current(o)
  IN
  /\ o.at \in {"saveStatus", "saveFlags"}
  /\ \/ /\ current
        /\ queues' = [queues EXCEPT ![o.q].persons = Patched(@, o)]
        /\ Become(r, AfterSave(o))
     \/ /\ ~current
        /\ Become(r, AfterVersionError(o))
        /\ UNCHANGED queues
  /\ UNCHANGED <<bookings, today, scene>>

-----------------------------------------------------------------------------
\* updatePersonStatus

UpdatePersonStatus(r, a, b, to) ==
  /\ Free(r, "status")
  /\ \E q \in Queues :
       LET d  == queues[q]
           ps == d.persons
           o  == [Idle EXCEPT !.kind = "status", !.b = b, !.to = to]
       IN
       /\ Loads(a, q)
       /\ \E i \in PlaceOf(ps, b) :
            /\ to \in Transitions[ps[i].st]
            /\ \/ /\ to = "inService"
                  /\ ~AnotherInService(ps, b)
                  /\ Become(r, [o EXCEPT !.at = "startService", !.q = q,
                                         !.was = ps[i].st])
               \/ /\ to = "completed"
                  /\ BelowBound
                  /\ LET done == Complete(ps, i) IN
                     \E f \in SortOrders(done) :
                       Become(r, [Loaded(o, q, [d EXCEPT !.persons = InOrder(done, f)])
                                    EXCEPT !.at = "save"])
               \/ /\ to \in {"waiting", "absent"}
                  /\ Become(r, [Loaded(o, q, [d EXCEPT !.persons = SetStatus(ps, i, to)])
                                  EXCEPT !.touched = {i},
                                         !.at = IF to = "absent" THEN "markAbsent"
                                                                 ELSE "saveStatus"])
  /\ UNCHANGED <<bookings, queues, today, scene>>

\* The guarded findOneAndUpdate that starts a service.
StartService(r) ==
  LET o     == op[r]
      ps    == queues[o.q].persons
      mine  == {k \in DOMAIN ps : ps[k].b = o.b /\ ps[k].st = o.was}
      ready == mine # {} /\ ~AnotherInService(ps, o.b)
  IN
  /\ o.at = "startService"
  /\ \/ /\ ready
        /\ queues' = [queues EXCEPT ![o.q].persons =
                        [k \in DOMAIN ps |->
                           IF k \in mine THEN [ps[k] EXCEPT !.st = "inService"]
                                         ELSE ps[k]]]
     \/ ~ready /\ UNCHANGED queues
  /\ Become(r, Idle)
  /\ UNCHANGED <<bookings, today, scene>>

\* The booking is marked absent before the queue is saved.
MarkAbsent(r) ==
  LET o == op[r] IN
  /\ o.at = "markAbsent"
  /\ WriteStatus(o.b, "absent")
  /\ Become(r, [o EXCEPT !.at = IF o.kind = "status" THEN "saveStatus" ELSE "save"])
  /\ UNCHANGED <<queues, today, scene>>

\* handlePersonStatusSideEffects: the booking's status.
EffectOn(to) == IF to = "completed" THEN "completed" ELSE "inQueue"

SideEffect(r) ==
  LET o == op[r] IN
  /\ o.at = "effect"
  /\ WriteStatus(o.b, EffectOn(o.to))
  /\ Become(r, Idle)
  /\ UNCHANGED <<queues, today, scene>>

-----------------------------------------------------------------------------
\* removePersonFromQueue, reorderPerson, deleteBooking

RemovePersonFromQueue(r, a, b, markAbsent) ==
  /\ Free(r, "remove")
  /\ \E q \in Queues :
       /\ Loads(a, q)
       /\ \E i \in PlaceOf(queues[q].persons, b) :
            LET o == [Idle EXCEPT !.kind = "remove", !.b = b,
                                  !.at = IF markAbsent THEN "markAbsent" ELSE "save"]
            IN  Become(r, Loaded(o, q, [queues[q] EXCEPT !.persons = Remove(@, i)]))
  /\ UNCHANGED <<bookings, queues, today, scene>>

ReorderPerson(r, a, b, requested) ==
  /\ Free(r, "reorder")
  /\ \E q \in Queues :
       LET ps == queues[q].persons IN
       /\ Loads(a, q)
       /\ \E i \in PlaceOf(ps, b) :
            LET new   == NewPosition(ps, requested)
                moved == Reorder(ps, i, new)
                o     == [Idle EXCEPT !.kind = "reorder", !.at = "save", !.b = b]
            IN
            /\ new # ps[i].pos
            /\ \E f \in SortOrders(moved) :
                 Become(r, Loaded(o, q, [queues[q] EXCEPT !.persons = InOrder(moved, f)]))
  /\ UNCHANGED <<bookings, queues, today, scene>>

DeleteBooking(r, b) ==
  /\ Free(r, "delete")
  /\ Exists(b)
  /\ Become(r, [Idle EXCEPT !.kind = "delete", !.at = "findPerson", !.b = b])
  /\ UNCHANGED <<bookings, queues, today, scene>>

\* removePersonByBookingId: findOne returns some queue that holds the booking.
DeleteFindPerson(r) ==
  LET o == op[r]
      holders == {q \in Queues : Holds(queues[q].persons, o.b)}
  IN
  /\ o.at = "findPerson"
  /\ \/ /\ holders = {}
        /\ Become(r, [o EXCEPT !.at = "deleteBooking"])
     \/ \E q \in holders : \E i \in PlaceOf(queues[q].persons, o.b) :
             /\ Become(r, [Loaded(o, q, [queues[q] EXCEPT !.persons = Remove(@, i)])
                          EXCEPT !.at = "save"])
  /\ UNCHANGED <<bookings, queues, today, scene>>

\* findByIdAndDelete: the last call of deleteBooking, and the compensation of
\* a queue booking that could not be queued.
DeleteBookingRow(r) ==
  /\ op[r].at = "deleteBooking"
  /\ WriteStatus(op[r].b, "deleted")
  /\ Become(r, Idle)
  /\ UNCHANGED <<queues, today, scene>>

-----------------------------------------------------------------------------
\* populateDailyQueues

\* Loads today's confirmed and queued bookings; those without agents are only
\* reported.
PopulateDailyQueues(r) ==
  LET due == {b \in Bookings : /\ bookings[b].st \in {"confirmed", "inQueue"}
                               /\ bookings[b].day = today
                               /\ bookings[b].agents # {}}
  IN
  /\ Free(r, "populate")
  /\ due # {}
  /\ Become(r, [Idle EXCEPT !.kind = "populate", !.at = "nextBooking", !.todo = due,
                  !.confirmed = {b \in due : bookings[b].st = "confirmed"}])
  /\ UNCHANGED <<bookings, queues, today, scene>>

\* A booking loaded as confirmed is saved as inQueue, whatever it is by now;
\* if it was deleted, save() throws and the job goes on with the next one.
PopulateBooking(r) ==
  LET o == op[r] IN
  /\ o.at = "nextBooking"
  /\ \E b \in o.todo :
       LET rest == [o EXCEPT !.todo = @ \ {b}, !.confirmed = @ \ {b}, !.b = b] IN
       IF b \in o.confirmed
         THEN /\ WriteStatus(b, "inQueue")
              /\ Become(r, AfterEnsure([rest EXCEPT
                   !.agents = IF Exists(b) THEN bookings[b].agents ELSE {}]))
         ELSE /\ Become(r, AfterEnsure([rest EXCEPT !.agents = bookings[b].agents]))
              /\ UNCHANGED bookings
  /\ UNCHANGED <<queues, today, scene>>

\* ensurePersonInQueue, for one agent of the booking.
EnsureFindQueue(r) ==
  LET o == op[r] IN
  /\ o.at = "ensureFind"
  /\ \E a \in o.agents :
       LET q    == <<a, today>>
           rest == [o EXCEPT !.agents = @ \ {a}]
       IN
       IF Holds(queues[q].persons, o.b)
         THEN Become(r, AfterEnsure(rest))
         ELSE Become(r, [rest EXCEPT !.q = q, !.at = "ensureBooking"])
  /\ UNCHANGED <<bookings, queues, today, scene>>

EnsureReadBooking(r) ==
  LET o == op[r] IN
  /\ o.at = "ensureBooking"
  /\ Become(r, IF bookings[o.b].st = "inQueue" THEN [o EXCEPT !.at = "ensureCreate"]
                                               ELSE AfterEnsure(o))
  /\ UNCHANGED <<bookings, queues, today, scene>>

\* createQueue: an upsert.
EnsureCreateQueue(r) ==
  LET o == op[r] IN
  /\ o.at = "ensureCreate"
  /\ queues' = [queues EXCEPT ![o.q].exists = TRUE]
  /\ Become(r, [o EXCEPT !.at = "ensureRead"])
  /\ UNCHANGED <<bookings, today, scene>>

EnsureReadQueue(r) ==
  LET o  == op[r]
      ps == queues[o.q].persons
  IN
  /\ o.at = "ensureRead"
  /\ \/ Holds(ps, o.b) /\ Become(r, AfterEnsure(o))
     \/ /\ ~Holds(ps, o.b)
        /\ \E top \in TopPosition(ps) :
             Become(r, [o EXCEPT !.at = "push", !.pos = top + 1])
  /\ UNCHANGED <<bookings, queues, today, scene>>

\* The guarded $push: appended at the position computed before, not sorted.
EnsurePush(r) ==
  LET o == op[r]
      absent == Pushable(queues[o.q].persons, o.b)
  IN
  /\ o.at = "push"
  /\ \/ /\ absent
        /\ queues' = [queues EXCEPT ![o.q].persons = Append(@, NewPerson(o.b, o.pos))]
     \/ ~absent /\ UNCHANGED queues
  /\ Become(r, AfterEnsure(o))
  /\ UNCHANGED <<bookings, today, scene>>

-----------------------------------------------------------------------------
\* Jobs that load several queues and then go through them one by one.

LoadQueues(r, kind, qs) ==
  /\ Free(r, kind)
  /\ qs # {}
  /\ Become(r, [Idle EXCEPT !.kind = kind, !.at = "nextQueue", !.left = qs,
                  !.docs = [q \in Queues |-> IF q \in qs THEN queues[q] ELSE NoDoc]])
  /\ UNCHANGED <<bookings, queues, today, scene>>

Active(q) == \E k \in DOMAIN queues[q].persons :
               queues[q].persons[k].st \in ActiveStatuses

\* sendQueueReminders: the two conditions may be met by different persons.
SendQueueReminders(r) ==
  LoadQueues(r, "remind",
    {q \in Queues : LET ps == queues[q].persons IN
       /\ q[2] = today
       /\ \E k \in DOMAIN ps : ps[k].st = "waiting"
       /\ \E k \in DOMAIN ps : ~ps[k].rem})

\* cleanupClosedLoungeQueues: the lounges of some agents have closed by now.
CleanupClosedLoungeQueues(r, closed) ==
  LoadQueues(r, "closed", {q \in Queues : q[1] \in closed /\ q[2] = today /\ Active(q)})

CleanupPastQueues(r) ==
  LoadQueues(r, "past", {q \in Queues : q[2] < today /\ Active(q)})

\* The reminders of one queue.  Whose turn is near depends on durations and a
\* notification may fail: any of the waiting persons without a reminder.
RemindQueue(r) ==
  LET o == op[r] IN
  /\ o.at = "nextQueue" /\ o.kind = "remind"
  /\ \E q \in o.left :
       LET ps == o.docs[q].persons
           near == {k \in DOMAIN ps : ps[k].st = "waiting" /\ ~ps[k].rem /\ Exists(ps[k].b)}
       IN
       \E sent \in SUBSET near :
         Become(r, [o EXCEPT !.q = q, !.left = @ \ {q}, !.at = "saveFlags",
                      !.touched = sent,
                      !.docs[q].persons =
                        [k \in DOMAIN ps |-> [ps[k] EXCEPT !.rem = @ \/ k \in sent]]])
  /\ UNCHANGED <<bookings, queues, today, scene>>

CleanupQueue(r) ==
  LET o == op[r] IN
  /\ o.at = "nextQueue" /\ o.kind \in {"closed", "past"}
  /\ \E q \in o.left :
       Become(r, [o EXCEPT !.q = q, !.left = @ \ {q}, !.at = "person",
                   !.touched = {}, !.i = 1])
  /\ UNCHANGED <<bookings, queues, today, scene>>

\* finalizeQueuePerson on the i-th person of the loaded copy.
CleanupPerson(r) ==
  LET o    == op[r]
      ps   == o.docs[o.q].persons
      p    == ps[o.i]
      next == [o EXCEPT !.i = @ + 1]
      Local(st) == [next EXCEPT !.docs[o.q].persons = SetStatus(ps, o.i, st),
                                !.touched = @ \cup {o.i}]
  IN
  /\ o.at = "person"
  /\ \/ /\ o.i > Len(ps)
        /\ Become(r, [o EXCEPT !.at = "findOrphans"])
        /\ UNCHANGED bookings
     \/ /\ o.i \in DOMAIN ps /\ p.st = "waiting"
        /\ WriteStatus(p.b, "cancelled")
        /\ Become(r, Local("absent"))
     \/ /\ o.i \in DOMAIN ps /\ p.st = "inService"
        /\ WriteStatus(p.b, "completed")
        /\ Become(r, Local("completed"))
     \/ /\ o.i \in DOMAIN ps /\ p.st = "absent"
        /\ Become(r, IF bookings[p.b].st = "inQueue"
                       THEN [o EXCEPT !.at = "finalizeAbsent"] ELSE next)
        /\ UNCHANGED bookings
     \/ /\ o.i \in DOMAIN ps /\ p.st = "completed"
        /\ Become(r, next)
        /\ UNCHANGED bookings
  /\ UNCHANGED <<queues, today, scene>>

FinalizeAbsent(r) ==
  LET o == op[r] IN
  /\ o.at = "finalizeAbsent"
  /\ WriteStatus(o.docs[o.q].persons[o.i].b, "absent")
  /\ Become(r, [o EXCEPT !.at = "person", !.i = @ + 1])
  /\ UNCHANGED <<queues, today, scene>>

\* finalizeOrphanedBookings: whoever of the queue is still inQueue.
FindOrphans(r) ==
  LET o == op[r]
      ps == o.docs[o.q].persons
      orphans == {b \in Bookings : Holds(ps, b) /\ bookings[b].st = "inQueue"}
  IN
  /\ o.at = "findOrphans"
  /\ Become(r, [o EXCEPT !.todo = orphans,
                  !.at = IF orphans = {} THEN "saveStatus" ELSE "cancelOrphan"])
  /\ UNCHANGED <<bookings, queues, today, scene>>

CancelOrphan(r) ==
  LET o == op[r] IN
  /\ o.at = "cancelOrphan"
  /\ \E b \in o.todo :
       /\ WriteStatus(b, "cancelled")
       /\ Become(r, [o EXCEPT !.todo = @ \ {b},
                       !.at = IF o.todo = {b} THEN "saveStatus" ELSE "cancelOrphan"])
  /\ UNCHANGED <<queues, today, scene>>

\* Mutant of Stale: yesterday's bookings are spared.
StaleSinceYesterday(b) == bookings[b].st = "inQueue" /\ bookings[b].day < today - 1

\* { status: inQueue, bookingDate: { $lt: today } }
Stale(b) == bookings[b].st = "inQueue" /\ bookings[b].day < today

\* cleanupStaleInQueueBookings
CleanupStaleInQueueBookings(r) ==
  LET past == {b \in Bookings : Stale(b)} IN
  /\ Free(r, "stale")
  /\ past # {}
  /\ Become(r, [Idle EXCEPT !.kind = "stale", !.at = "stale", !.todo = past])
  /\ UNCHANGED <<bookings, queues, today, scene>>

CompleteStale(r) ==
  LET o == op[r] IN
  /\ o.at = "stale"
  /\ \E b \in o.todo :
       /\ WriteStatus(b, "completed")
       /\ Become(r, IF o.todo = {b} THEN Idle ELSE [o EXCEPT !.todo = @ \ {b}])
  /\ UNCHANGED <<queues, today, scene>>

-----------------------------------------------------------------------------
\* A database error that nobody catches, or the end of the Node process: what
\* is written stays, what comes next does not happen.
Crash(r) ==
  /\ "crash" \in scene.does
  /\ op[r].at # "idle"
  /\ Become(r, Idle)
  /\ UNCHANGED <<bookings, queues, today, scene>>

DayPasses ==
  /\ today < MaxDay
  /\ today' = today + 1
  /\ UNCHANGED <<bookings, queues, op, scene>>

\* The server waits for the next request: the only rest the system may take.
AtRest == (\A r \in Procs : op[r].at = "idle") /\ UNCHANGED vars

-----------------------------------------------------------------------------
Positions == 0..MaxPosition

BookingRequest(r) ==
  \/ \E b \in Bookings, as \in SUBSET Agents, day \in Days, st \in CreateStatuses :
       CreateBooking(b, as, day, st)
  \/ \E b \in Bookings, a \in Agents : CreateQueueBooking(r, b, a)
  \/ \E b \in Bookings, st \in UpdateStatuses, day \in Days :
       UpdateBooking(r, b, st, day)
  \/ \E b \in Bookings : DeleteBooking(r, b)

QueueRequest(r) ==
  \E a \in Agents, b \in Bookings :
    \/ \E pos \in Positions : AddPersonToQueue(r, a, b, pos)
    \/ \E to \in PersonStatus : UpdatePersonStatus(r, a, b, to)
    \/ \E markAbsent \in BOOLEAN : RemovePersonFromQueue(r, a, b, markAbsent)
    \/ \E pos \in Positions \ {0} : ReorderPerson(r, a, b, pos)

CronJob(r) ==
  \/ PopulateDailyQueues(r)
  \/ SendQueueReminders(r)
  \/ \E closed \in SUBSET Agents : CleanupClosedLoungeQueues(r, closed)
  \/ CleanupPastQueues(r)
  \/ CleanupStaleInQueueBookings(r)

\* The next database call of the operation in slot r.
Step(r) ==
  \/ AddReadBooking(r) \/ AddFindQueue(r) \/ AddCreateQueue(r)
  \/ SaveQueue(r) \/ SavePersons(r)
  \/ StartService(r) \/ MarkAbsent(r) \/ SideEffect(r)
  \/ DeleteFindPerson(r) \/ DeleteBookingRow(r)
  \/ PopulateBooking(r) \/ EnsureFindQueue(r) \/ EnsureReadBooking(r)
  \/ EnsureCreateQueue(r) \/ EnsureReadQueue(r) \/ EnsurePush(r)
  \/ RemindQueue(r)
  \/ CleanupQueue(r) \/ CleanupPerson(r) \/ FinalizeAbsent(r)
  \/ FindOrphans(r) \/ CancelOrphan(r) \/ CompleteStale(r)

Next ==
  \/ \E r \in Procs : BookingRequest(r) \/ QueueRequest(r) \/ CronJob(r) \/ Step(r) \/ Crash(r)
  \/ DayPasses
  \/ AtRest

Spec == Init /\ [][Next]_vars

\* An operation that is in flight goes on, and the stale-booking job is fired
\* every night: it does not wait for a slot, which only the model has, hence
\* the strong fairness.  The model's last day stands for all later days.
FairSpec ==
  /\ Spec
  /\ \A r \in Procs : WF_vars(Step(r))
  /\ SF_vars(\E r \in Procs : CleanupStaleInQueueBookings(r))
  /\ WF_vars(DayPasses)

-----------------------------------------------------------------------------
\* Properties.

TypeOK ==
  /\ bookings \in [Bookings -> Booking]
  /\ queues \in [Queues -> Doc]
  /\ today \in Days
  /\ op \in [Procs -> Operation]

\* README.md:146, "At most one person per agent queue may be inService": although
\* arrays are saved from stale copies and element writes do not raise the
\* version (queue.service.ts:305-332 guards the start of a service only).
AtMostOneInService == \A q \in Queues : OneInService(queues[q].persons)

\* A booking stands in a queue once, although addPersonToQueue and
\* ensurePersonInQueue test for it on copies (queue.service.ts:191, 251).
NoDuplicateBooking == \A q \in Queues : NoDuplicate(queues[q].persons)

\* No job runs and no request breaks off in this behaviour: the four properties
\* that say so are false once the jobs write, which do not raise the version.
AmongRequests ==
  scene.does \cap {"populate", "remind", "closed", "past", "stale", "crash"} = {}

\* Who acts in this step.
Acts(r) == op'[r] # op[r]

\* Among requests nobody disappears from a queue but by a request
\* to remove or delete that very booking: a stale save never drops a person
\* somebody else has just added (queue.service.ts:98, 382-386).
OnlyRemovalRemoves ==
  [][AmongRequests =>
       \A q \in Queues, b \in Bookings :
         Holds(queues[q].persons, b) /\ ~Holds(queues'[q].persons, b) =>
           \E r \in Procs : /\ Acts(r)
                            /\ op[r].kind \in {"remove", "delete"}
                            /\ op[r].b = b]_vars

\* b has its turn before c, both still to be served or being served.
Ahead(ps, b, c) ==
  \E i, j \in DOMAIN ps : /\ ps[i].b = b /\ ps[i].st # "completed"
                          /\ ps[j].b = c /\ ps[j].st # "completed"
                          /\ ps[i].pos < ps[j].pos

\* Only a reorder request for one of the two lets somebody overtake: inserting,
\* completing and removing others, concurrently, moves no one past anyone
\* (queue.service.ts:200-204, 353-357, queue.helpers.ts:40-42).
NoOvertaking ==
  [][AmongRequests =>
       \A q \in Queues, b, c \in Bookings :
         Ahead(queues[q].persons, b, c) /\ Ahead(queues'[q].persons, c, b) =>
           \E r \in Procs : /\ Acts(r)
                            /\ op[r].kind = "reorder"
                            /\ op[r].b \in {b, c}]_vars

\* A completed person stays completed (queue.helpers.ts:20): no request that
\* loaded the queue before the completion can undo it.  This is true of the
\* requests only: a completion by a cleanup job does not raise the version.
CompletedIsFinal ==
  [][AmongRequests =>
       \A q \in Queues : \A i \in DOMAIN queues[q].persons :
         queues[q].persons[i].st = "completed" =>
           \A j \in DOMAIN queues'[q].persons :
             queues'[q].persons[j].b = queues[q].persons[i].b =>
               queues'[q].persons[j].st = "completed"]_vars

InFlight(b) == \E r \in Procs : op[r].b = b

\* A queue booking is queued or deleted, whatever other requests are served at
\* the same time (booking.service.ts:187-191, "to avoid orphans"): once its
\* request is answered, an inQueue booking stands in a queue, where nobody is taken
\* out of a queue and no request names a status itself.
NoOrphanedBooking ==
  AmongRequests /\ scene.does \cap {"create", "remove", "update"} = {} =>
    \A b \in Bookings :
      bookings[b].st = "inQueue" /\ ~InFlight(b) =>
        \E q \in Queues : Holds(queues[q].persons, b)

PastInQueue(b) == bookings[b].st = "inQueue" /\ bookings[b].day < today

\* A booking of a past day does not stay inQueue (bookingAnalytics.service.ts:47-50).
StaleBookingsAreCompleted ==
  \A b \in Bookings : PastInQueue(b) ~> ~PastInQueue(b)

-----------------------------------------------------------------------------
\* What the documentation says and the code does not keep.

\* README.md:146: "A person marked absent remains in the queue for history and
\* their booking is also marked absent".
AbsentTogether ==
  \A q \in Queues : \A i \in DOMAIN queues[q].persons :
    LET p == queues[q].persons[i] IN
    p.st = "absent" /\ ~InFlight(p.b) => bookings[p.b].st = "absent"
=============================================================================
