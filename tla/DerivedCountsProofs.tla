-------------------------- MODULE DerivedCountsProofs --------------------------
(***************************************************************************)
(* What is proved of the derived counts, for any users, products, scores   *)
(* and number of requests in flight.                                       *)
(*                                                                         *)
(* Repaired, a request that nobody overlaps puts the numbers right, is not *)
(* inductive.  Inv says of every request which numbers it has still to     *)
(* write (Pending) and which it has taken and not yet written (Measured).  *)
(* A number nobody has to write is right unless it is disturbed, a number  *)
(* somebody takes while alone is right until it is written, and two        *)
(* requests are never both alone with a number.                            *)
(*                                                                         *)
(* WishesCounted follows from a balance (WishInv): the number shown and    *)
(* the additions on their way are the wishes there are and the             *)
(* subtractions on their way.  TypeOK needs Rows: a review that a request  *)
(* has looked up and will save is still there.                             *)
(***************************************************************************)
EXTENDS DerivedCounts, Sums

AnyRow == [here : BOOLEAN, score : Scores \cup {0}, hidden : BOOLEAN]

Readings == {Empty} \cup {Truth(R, f) : R \in [RowIds -> AnyRow], f \in Numbers}

TypedOperation ==
  [kind : Kinds \cup {"none"}, at : Steps, id : RowIds \cup {Nothing}, found : BOOLEAN,
   score : Scores \cup {0}, now : SUBSET Numbers, left : SUBSET Numbers, later : SUBSET Numbers,
   taken : [Numbers -> Readings], alone : SUBSET Numbers]

Pending(o) ==
  CASE o.at = "count" -> o.now \cup o.later
    [] o.at = "write" -> o.left \cup o.later
    [] OTHER          -> {}

Measured(o) ==
  CASE o.at = "count" -> o.now \ o.left
    [] o.at = "write" -> o.left
    [] OTHER          -> {}

\* What holds of a request by itself.
Sound(o) ==
  /\ Busy(o) => o.id \in RowIds
  /\ o.alone \subseteq Touches(o)
  /\ o.at \in {"inc", "dec"} => o.id.coll = "wishes"
  /\ o.at \in {"count", "write"} =>
       /\ o.left \subseteq o.now /\ o.now \cap o.later = {}
       /\ o.now \cup o.later \subseteq CountsFor(o.id)

Typed ==
  /\ rows \in [RowIds -> AnyRow]
  /\ shown \in [Numbers -> Readings]
  /\ op \in [Procs -> TypedOperation]
  /\ disturbed \in SUBSET Numbers
  /\ \A r \in Procs : Sound(op[r])

Apart == \A r, s \in Procs : r # s => op[r].alone \cap Touches(op[s]) = {}

Known == \A r \in Procs : Touches(op[r]) \ op[r].alone \subseteq disturbed

Exact ==
  \A f \in Numbers \ disturbed :
    (\A r \in Procs : f \notin Pending(op[r])) => shown[f] = Truth(rows, f)

TakenRight ==
  \A r \in Procs : \A f \in op[r].alone \cap Measured(op[r]) : op[r].taken[f] = Truth(rows, f)

Inv == Typed /\ Apart /\ Known /\ Exact /\ TakenRight

-----------------------------------------------------------------------------
\* Facts about rows and numbers.

LEMMA CountsForType == \A k \in RowIds : CountsFor(k) \subseteq Numbers /\ Later(k) \subseteq CountsFor(k)
BY DEF CountsFor, Later, RowIds, Numbers

LEMMA NothingCounted == \A k \in RowIds : k.coll = "wishes" => CountsFor(k) = {}
BY DEF CountsFor, RowIds

\* A number does not depend on the rows that do not count for it.
LEMMA TruthElsewhere ==
  ASSUME NEW R \in [RowIds -> AnyRow], NEW S \in [RowIds -> AnyRow], NEW k \in RowIds,
         \A j \in RowIds \ {k} : R[j] = S[j],
         NEW f \in Numbers, f \notin CountsFor(k)
  PROVE  Truth(S, f) = Truth(R, f)
<1>1. Counted(S, f) = Counted(R, f)  BY DEF Counted
<1>2. Counted(R, f) \subseteq RowIds \ {k}  BY DEF Counted
<1>3. [j \in Counted(S, f) |-> S[j].score] = [j \in Counted(R, f) |-> R[j].score]
  BY <1>1, <1>2
<1> QED  BY <1>3 DEF Truth

LEMMA NobodyCounted == \A f \in Numbers : Truth([k \in RowIds |-> Absent], f) = Empty
<1> TAKE f \in Numbers
<1> DEFINE R == [k \in RowIds |-> Absent]
<1>1. Counted(R, f) = {}  BY DEF Counted, Absent
<1>2. DOMAIN [k \in Counted(R, f) |-> R[k].score] = {}  BY <1>1
<1>3. Cardinality({}) = 0  BY FS_EmptySet
<1> QED  BY <1>2, <1>3 DEF Truth, Summary, Empty

LEMMA ReadingsType ==
  /\ Empty \in Readings
  /\ \A R \in [RowIds -> AnyRow], f \in Numbers : Truth(R, f) \in Readings
BY DEF Readings

LEMMA IdleTyped == Idle \in TypedOperation /\ Sound(Idle) /\ Touches(Idle) = {} /\ Pending(Idle) = {}
                   /\ Measured(Idle) = {} /\ Idle.alone = {}
<1>1. Idle \in TypedOperation  BY ReadingsType DEF Idle, TypedOperation, Steps
<1> QED  BY <1>1 DEF Idle, Sound, Touches, Busy, Pending, Measured

\* A recount begins with every number of the row.
LEMMA Recounts ==
  ASSUME NEW o \in TypedOperation, o.id \in RowIds, o.alone \subseteq CountsFor(o.id)
  PROVE  /\ Recount(o) \in TypedOperation /\ Sound(Recount(o))
         /\ Recount(o).id = o.id /\ Recount(o).alone = o.alone
         /\ Touches(Recount(o)) = CountsFor(o.id)
         /\ Pending(Recount(o)) = CountsFor(o.id) /\ Measured(Recount(o)) = {}
<1> DEFINE c == Recount(o)
<1>1. c = [o EXCEPT !.found = FALSE, !.score = 0, !.at = "count", !.later = Later(o.id),
             !.now = CountsFor(o.id) \ Later(o.id), !.left = CountsFor(o.id) \ Later(o.id)]
  BY DEF Recount, Stage, TypedOperation
<1> HIDE DEF c
<1>a. CountsFor(o.id) \in SUBSET Numbers /\ Later(o.id) \in SUBSET Numbers  BY CountsForType
<1>2. c \in TypedOperation  BY <1>1, <1>a DEF TypedOperation, Steps
<1>3. /\ c.at = "count" /\ c.id = o.id /\ c.alone = o.alone /\ c.later = Later(o.id)
      /\ c.now = CountsFor(o.id) \ Later(o.id) /\ c.left = c.now
  BY <1>1 DEF TypedOperation
<1>4. Touches(c) = CountsFor(o.id)  BY <1>3 DEF Touches, Busy
<1>5. Pending(c) = CountsFor(o.id) /\ Measured(c) = {}
  BY <1>3, CountsForType DEF Pending, Measured
<1>6. Sound(c)  BY <1>3, <1>4, CountsForType DEF Sound, Busy
<1> QED  BY <1>2, <1>3, <1>4, <1>5, <1>6 DEF c

\* Two requests that differ only in what they have looked up, and in who is alone.
Same(o, p) ==
  /\ p.at = o.at /\ p.id = o.id /\ p.now = o.now /\ p.left = o.left /\ p.later = o.later
  /\ p.taken = o.taken /\ p.alone \subseteq o.alone

LEMMA SameRole ==
  ASSUME NEW o, NEW p, Same(o, p)
  PROVE  /\ Touches(p) = Touches(o) /\ Pending(p) = Pending(o) /\ Measured(p) = Measured(o)
         /\ Sound(o) => Sound(p)
BY DEF Same, Touches, Busy, Pending, Measured, Sound

-----------------------------------------------------------------------------
\* The three ways a request moves.

\* A request begins on row k, having looked it up or changed it.
LEMMA BeginKeeps ==
  ASSUME Inv, NEW r \in Procs, NEW k \in RowIds, NEW o \in TypedOperation,
         op[r].at = "idle", Begin(r, o), o.id = k, Busy(o), o.alone = {},
         Sound(o), Measured(o) = {},
         rows' \in [RowIds -> AnyRow], \A j \in RowIds \ {k} : rows'[j] = rows[j],
         rows' = rows \/ Pending(o) = CountsFor(k),
         UNCHANGED shown
  PROVE  Inv'
<1> DEFINE others == UNION {Touches(op[s]) : s \in Procs \ {r}}
           mine == [o EXCEPT !.alone = CountsFor(k) \ others]
<1>1. /\ op' = [s \in Procs |-> IF s = r THEN mine ELSE [op[s] EXCEPT !.alone = @ \ CountsFor(k)]]
      /\ disturbed' = disturbed \cup (CountsFor(k) \cap others)
  BY DEF Begin
<1>2. /\ mine \in TypedOperation /\ mine.alone = CountsFor(k) \ others
      /\ Touches(mine) = CountsFor(k) /\ Pending(mine) = Pending(o) /\ Measured(mine) = {}
      /\ Sound(mine)
  BY CountsForType DEF TypedOperation, Touches, Busy, Pending, Measured, Sound
<1>3. \A s \in Procs : op[s] \in TypedOperation /\ Sound(op[s])  BY DEF Inv, Typed
<1>4. op'[r] = mine  BY <1>1
<1>5. ASSUME NEW s \in Procs \ {r}
      PROVE  /\ op'[s] \in TypedOperation /\ Same(op[s], op'[s])
             /\ op'[s].alone = op[s].alone \ CountsFor(k)
             /\ Touches(op'[s]) = Touches(op[s]) /\ Pending(op'[s]) = Pending(op[s])
             /\ Measured(op'[s]) = Measured(op[s]) /\ Sound(op'[s])
             /\ Touches(op[s]) \subseteq others
  <2>1. op'[s] = [op[s] EXCEPT !.alone = @ \ CountsFor(k)]  BY <1>1
  <2>2. op'[s] \in TypedOperation /\ Same(op[s], op'[s]) /\ op'[s].alone = op[s].alone \ CountsFor(k)
    BY <2>1, <1>3 DEF TypedOperation, Same
  <2> QED  BY <2>2, <1>3, SameRole
<1> HIDE DEF mine, others
<1>6. \A f \in Numbers \ CountsFor(k) : Truth(rows', f) = Truth(rows, f)
  BY TruthElsewhere DEF Inv, Typed
<1>7. Typed'
  <2>1. op' \in [Procs -> TypedOperation] /\ \A s \in Procs : Sound(op'[s])
    BY <1>1, <1>2, <1>4, <1>5 DEF mine, others
  <2>2. disturbed' \in SUBSET Numbers  BY <1>1, CountsForType DEF Inv, Typed
  <2> QED  BY <2>1, <2>2 DEF Inv, Typed
<1>8. Apart'
  <2> SUFFICES ASSUME NEW s \in Procs, NEW t \in Procs, s # t
               PROVE  op'[s].alone \cap Touches(op'[t]) = {}
    BY DEF Apart
  <2>1. CASE s = r  BY <2>1, <1>2, <1>4, <1>5
  <2>2. CASE t = r  BY <2>2, <1>2, <1>4, <1>5
  <2>3. CASE s # r /\ t # r  BY <2>3, <1>5 DEF Inv, Apart
  <2> QED  BY <2>1, <2>2, <2>3
<1>9. Known'
  <2> SUFFICES ASSUME NEW s \in Procs PROVE Touches(op'[s]) \ op'[s].alone \subseteq disturbed'
    BY DEF Known
  <2>1. CASE s = r  BY <2>1, <1>1, <1>2, <1>4
  <2>2. CASE s # r  BY <2>2, <1>1, <1>5 DEF Inv, Known
  <2> QED  BY <2>1, <2>2
<1>10. Exact'
  <2> SUFFICES ASSUME NEW f \in Numbers, f \notin disturbed', \A s \in Procs : f \notin Pending(op'[s])
               PROVE  shown'[f] = Truth(rows', f)
    BY DEF Exact
  <2>1. Pending(op[r]) = {}  BY DEF Pending
  <2>2. \A s \in Procs : f \notin Pending(op[s])  BY <2>1, <1>5
  <2>3. shown[f] = Truth(rows, f)  BY <2>2, <1>1 DEF Inv, Exact
  <2>4. Truth(rows', f) = Truth(rows, f)  BY <1>2, <1>4, <1>6
  <2> QED  BY <2>3, <2>4
<1>11. TakenRight'
  <2> SUFFICES ASSUME NEW s \in Procs, NEW f \in op'[s].alone \cap Measured(op'[s])
               PROVE  op'[s].taken[f] = Truth(rows', f)
    BY DEF TakenRight
  <2>1. s # r  BY <1>2, <1>4
  <2>2. f \in op[s].alone \cap Measured(op[s]) /\ f \in Numbers \ CountsFor(k)
    BY <2>1, <1>3, <1>5 DEF TypedOperation
  <2>3. op'[s].taken = op[s].taken  BY <2>1, <1>5 DEF Same
  <2> QED  BY <2>2, <2>3, <1>6 DEF Inv, TakenRight
<1> QED  BY <1>7, <1>8, <1>9, <1>10, <1>11 DEF Inv

\* A request changes its row and has all its numbers to recount, or changes none.
LEMMA ChangeKeeps ==
  ASSUME Inv, NEW r \in Procs, NEW o \in TypedOperation,
         Pending(op[r]) = {}, op[r].id \in RowIds, Touches(op[r]) = CountsFor(op[r].id),
         Sound(o), Measured(o) = {},
         Touches(o) \subseteq Touches(op[r]),
         Touches(o) \ o.alone \subseteq Touches(op[r]) \ op[r].alone,
         o.alone \subseteq op[r].alone,
         rows' \in [RowIds -> AnyRow], \A j \in RowIds \ {op[r].id} : rows'[j] = rows[j],
         rows' = rows \/ Pending(o) = CountsFor(op[r].id),
         DOMAIN op' = Procs, op' = [s \in Procs |-> op'[s]], op'[r] = o,
         \A s \in Procs \ {r} : op'[s] \in TypedOperation /\ Same(op[s], op'[s]) /\ op'[s].alone = op[s].alone,
         UNCHANGED <<shown, disturbed>>
  PROVE  Inv'
<1> DEFINE k == op[r].id
<1>1. \A s \in Procs : op[s] \in TypedOperation /\ Sound(op[s])  BY DEF Inv, Typed
<1>2. \A s \in Procs \ {r} :
        /\ op'[s] \in TypedOperation /\ Same(op[s], op'[s]) /\ op'[s].alone = op[s].alone
        /\ Touches(op'[s]) = Touches(op[s]) /\ Pending(op'[s]) = Pending(op[s])
        /\ Measured(op'[s]) = Measured(op[s]) /\ Sound(op'[s])
  BY <1>1, SameRole
<1>3. \A f \in Numbers \ CountsFor(k) : Truth(rows', f) = Truth(rows, f)
  BY TruthElsewhere DEF Inv, Typed
<1>4. Typed'
  <2>1. op' \in [Procs -> TypedOperation] /\ \A s \in Procs : Sound(op'[s])  BY <1>2
  <2> QED  BY <2>1 DEF Inv, Typed
<1>5. Apart'
  <2> SUFFICES ASSUME NEW s \in Procs, NEW t \in Procs, s # t
               PROVE  op'[s].alone \cap Touches(op'[t]) = {}
    BY DEF Apart
  <2>1. op'[s].alone \subseteq op[s].alone  BY <1>2
  <2>2. Touches(op'[t]) \subseteq Touches(op[t])  BY <1>2
  <2> QED  BY <2>1, <2>2 DEF Inv, Apart
<1>6. Known'
  <2> SUFFICES ASSUME NEW s \in Procs PROVE Touches(op'[s]) \ op'[s].alone \subseteq disturbed
    BY DEF Known
  <2>1. Touches(op'[s]) \ op'[s].alone \subseteq Touches(op[s]) \ op[s].alone  BY <1>2
  <2> QED  BY <2>1 DEF Inv, Known
<1>7. Exact'
  <2> SUFFICES ASSUME NEW f \in Numbers, f \notin disturbed, \A s \in Procs : f \notin Pending(op'[s])
               PROVE  shown[f] = Truth(rows', f)
    BY DEF Exact
  <2>1. \A s \in Procs : f \notin Pending(op[s])  BY <1>2
  <2>2. shown[f] = Truth(rows, f)  BY <2>1 DEF Inv, Exact
  <2>3. Truth(rows', f) = Truth(rows, f)  BY <1>3
  <2> QED  BY <2>2, <2>3
<1>8. TakenRight'
  <2> SUFFICES ASSUME NEW s \in Procs, NEW f \in op'[s].alone \cap Measured(op'[s])
               PROVE  op'[s].taken[f] = Truth(rows', f)
    BY DEF TakenRight
  <2>1. s # r  BY <1>2
  <2>2. f \in op[s].alone \cap Measured(op[s]) /\ f \in Numbers  BY <2>1, <1>1, <1>2 DEF TypedOperation
  <2>3. f \notin CountsFor(k)  BY <2>1, <2>2 DEF Inv, Apart
  <2>4. op'[s].taken = op[s].taken  BY <2>1, <1>2 DEF Same
  <2> QED  BY <2>2, <2>3, <2>4, <1>3 DEF Inv, TakenRight
<1> QED  BY <1>4, <1>5, <1>6, <1>7, <1>8 DEF Inv

\* A request goes on to another call and changes neither rows nor numbers.
LEMMA CountKeeps == ASSUME Inv, NEW r \in Procs, NEW f \in Numbers, Count(r, f)  PROVE Inv'
<1> DEFINE left == op[r].left \ {f}
           taken == [op[r].taken EXCEPT ![f] = Truth(rows, f)]
<1>1. /\ op[r] \in TypedOperation /\ Sound(op[r]) /\ op[r].at = "count" /\ f \in op[r].left
      /\ UNCHANGED <<rows, shown, disturbed>>
  BY DEF Inv, Typed, Count, At
<1>2. PICK o : /\ op' = [op EXCEPT ![r] = o]
               /\ o = [op[r] EXCEPT !.taken = taken, !.left = IF left = {} THEN op[r].now ELSE left,
                                    !.at = IF left = {} THEN "write" ELSE "count"]
  BY <1>1 DEF Count, Go, TypedOperation
<1>3. taken \in [Numbers -> Readings] /\ taken[f] = Truth(rows, f)
      /\ \A g \in Numbers \ {f} : taken[g] = op[r].taken[g]
  BY <1>1, ReadingsType DEF TypedOperation, Inv, Typed
<1> HIDE DEF taken
<1>4. /\ o \in TypedOperation /\ o.taken = taken /\ o.id = op[r].id /\ o.alone = op[r].alone
      /\ o.now = op[r].now /\ o.later = op[r].later
      /\ o.left = (IF left = {} THEN op[r].now ELSE left)
      /\ o.at = (IF left = {} THEN "write" ELSE "count")
  BY <1>1, <1>2, <1>3 DEF TypedOperation, Steps
<1>5. /\ Touches(o) = Touches(op[r]) /\ Pending(o) = Pending(op[r]) /\ Sound(o)
      /\ Measured(o) = Measured(op[r]) \cup {f}
  BY <1>1, <1>4 DEF Touches, Busy, Pending, Measured, Sound
<1>6. op' \in [Procs -> TypedOperation] /\ op'[r] = o /\ \A s \in Procs \ {r} : op'[s] = op[s]
  BY <1>2, <1>4 DEF Inv, Typed
<1>7. \A s \in Procs : Touches(op'[s]) = Touches(op[s]) /\ Pending(op'[s]) = Pending(op[s])
                        /\ Sound(op'[s]) /\ op'[s].alone = op[s].alone
  BY <1>4, <1>5, <1>6 DEF Inv, Typed
<1>8. Typed' /\ Apart' /\ Known' /\ Exact'
  BY <1>1, <1>6, <1>7 DEF Inv, Typed, Apart, Known, Exact
<1>9. TakenRight'
  <2> SUFFICES ASSUME NEW s \in Procs, NEW g \in op'[s].alone \cap Measured(op'[s])
               PROVE  op'[s].taken[g] = Truth(rows, g)
    BY <1>1 DEF TakenRight
  <2>1. CASE s # r  BY <2>1, <1>6 DEF Inv, TakenRight
  <2>2. CASE s = r
    <3>1. g \in Numbers /\ g \in op[r].alone  BY <2>2, <1>1, <1>7 DEF TypedOperation
    <3>2. CASE g = f  BY <3>2, <2>2, <1>3, <1>4, <1>6
    <3>3. CASE g # f
      <4>1. g \in Measured(op[r])  BY <3>3, <2>2, <1>5, <1>6
      <4> QED  BY <4>1, <3>1, <3>3, <2>2, <1>3, <1>4, <1>6 DEF Inv, TakenRight
    <3> QED  BY <3>2, <3>3
  <2> QED  BY <2>1, <2>2
<1> QED  BY <1>8, <1>9 DEF Inv

\* A number is written: what was taken, alone or among others.
LEMMA WriteKeeps == ASSUME Inv, NEW r \in Procs, NEW f \in Numbers, Write(r, f)  PROVE Inv'
<1> DEFINE left == op[r].left \ {f}
           taken == [op[r].taken EXCEPT ![f] = Empty]
           rest == [op[r] EXCEPT !.left = left, !.taken = taken]
<1>1. /\ op[r] \in TypedOperation /\ Sound(op[r]) /\ op[r].at = "write" /\ f \in op[r].left
      /\ UNCHANGED rows /\ shown' = [shown EXCEPT ![f] = op[r].taken[f]]
      /\ disturbed' = IF f \in op[r].alone THEN disturbed \ {f} ELSE disturbed
  BY DEF Inv, Typed, Write, At
<1>2. rest = [op[r] EXCEPT !.left = left, !.taken[f] = Empty]  BY <1>1 DEF TypedOperation
<1>3. PICK o : /\ op' = [op EXCEPT ![r] = o]
               /\ o = IF left # {} THEN rest ELSE IF rest.later # {} THEN Stage(rest, rest.later, {}) ELSE Idle
  BY <1>2 DEF Write, Go
<1>4. taken \in [Numbers -> Readings] /\ \A g \in Numbers \ {f} : taken[g] = op[r].taken[g]
  BY <1>1, ReadingsType DEF TypedOperation
<1> HIDE DEF taken
<1>5. /\ rest \in TypedOperation /\ rest.taken = taken /\ rest.left = left /\ rest.at = "write"
      /\ rest.id = op[r].id /\ rest.alone = op[r].alone /\ rest.now = op[r].now /\ rest.later = op[r].later
  BY <1>1, <1>4 DEF TypedOperation
<1> HIDE DEF rest
<1>6. /\ o \in TypedOperation /\ Sound(o) /\ Pending(o) = Pending(op[r]) \ {f}
      /\ Touches(o) \subseteq Touches(op[r]) /\ Touches(o) \ o.alone \subseteq Touches(op[r]) \ op[r].alone
      /\ o.alone \subseteq op[r].alone
      /\ Measured(o) = {} \/ (Measured(o) = Measured(op[r]) \ {f} /\ o.taken = taken)
  <2>0. Pending(op[r]) = op[r].left \cup op[r].later /\ op[r].left \cap op[r].later = {}
        /\ Measured(op[r]) = op[r].left /\ Touches(op[r]) = CountsFor(op[r].id)
    BY <1>1 DEF Pending, Measured, Touches, Busy, Sound
  <2>1. CASE left # {}
    <3>1. o = rest  BY <2>1, <1>3
    <3> QED  BY <3>1, <2>0, <1>1, <1>5 DEF Sound, Touches, Busy, Pending, Measured
  <2>2. CASE left = {} /\ rest.later # {}
    <3>1. o = [rest EXCEPT !.at = "count", !.now = rest.later, !.left = rest.later, !.later = {}]
      BY <2>2, <1>3 DEF Stage
    <3>2. o \in TypedOperation  BY <3>1, <1>5 DEF TypedOperation, Steps
    <3>3. /\ o.at = "count" /\ o.now = op[r].later /\ o.left = op[r].later /\ o.later = {}
          /\ o.id = op[r].id /\ o.alone = op[r].alone
      BY <3>1, <1>5 DEF TypedOperation
    <3>4. Touches(o) = Touches(op[r]) /\ Measured(o) = {}
      BY <2>0, <3>3 DEF Touches, Busy, Measured
    <3>5. Pending(o) = op[r].later /\ op[r].left \subseteq {f}
      BY <2>2, <3>3 DEF Pending
    <3>6. Sound(o)  BY <3>3, <3>4, <2>0, <1>1 DEF Sound, Busy
    <3> QED  BY <2>0, <3>2, <3>3, <3>4, <3>5, <3>6, <1>1
  <2>3. CASE left = {} /\ rest.later = {}
    <3>1. o = Idle  BY <2>3, <1>3
    <3>2. op[r].left \subseteq {f} /\ op[r].later = {}  BY <2>3, <1>5
    <3>3. Pending(op[r]) \ {f} = {}  BY <3>2, <2>0
    <3>4. /\ o \in TypedOperation /\ Sound(o) /\ Touches(o) = {} /\ Pending(o) = {}
          /\ Measured(o) = {} /\ o.alone = {}
      BY <3>1, IdleTyped
    <3> QED  BY <3>3, <3>4
  <2> QED  BY <2>1, <2>2, <2>3
<1>7. op' \in [Procs -> TypedOperation] /\ op'[r] = o /\ \A s \in Procs \ {r} : op'[s] = op[s]
  BY <1>3, <1>6 DEF Inv, Typed
<1>8. op[r].taken[f] \in Readings /\ shown \in [Numbers -> Readings]
  BY <1>1 DEF TypedOperation, Inv, Typed
<1>9. Typed'  BY <1>1, <1>6, <1>7, <1>8 DEF Inv, Typed
<1>10. Apart'
  <2> SUFFICES ASSUME NEW s \in Procs, NEW t \in Procs, s # t
               PROVE  op'[s].alone \cap Touches(op'[t]) = {}
    BY DEF Apart
  <2>1. op'[s].alone \subseteq op[s].alone /\ Touches(op'[t]) \subseteq Touches(op[t])  BY <1>6, <1>7
  <2> QED  BY <2>1 DEF Inv, Apart
<1>11. Known'
  <2> SUFFICES ASSUME NEW s \in Procs PROVE Touches(op'[s]) \ op'[s].alone \subseteq disturbed'
    BY DEF Known
  <2>1. Touches(op'[s]) \ op'[s].alone \subseteq Touches(op[s]) \ op[s].alone  BY <1>6, <1>7
  <2>2. f \in op[r].alone => f \notin Touches(op[s]) \ op[s].alone  BY DEF Inv, Apart
  <2> QED  BY <2>1, <2>2, <1>1 DEF Inv, Known
<1>12. Exact'
  <2> SUFFICES ASSUME NEW g \in Numbers, g \notin disturbed', \A s \in Procs : g \notin Pending(op'[s])
               PROVE  shown'[g] = Truth(rows, g)
    BY <1>1 DEF Exact
  <2>1. CASE g = f
    <3>1. f \in Touches(op[r]) /\ f \in Measured(op[r])  BY <1>1 DEF Sound, Touches, Busy, Measured
    <3>2. f \in op[r].alone  BY <2>1, <3>1, <1>1 DEF Inv, Known
    <3>3. op[r].taken[f] = Truth(rows, f)  BY <3>1, <3>2 DEF Inv, TakenRight
    <3> QED  BY <2>1, <3>3, <1>1, <1>8
  <2>2. CASE g # f
    <3>1. \A s \in Procs : g \notin Pending(op[s])  BY <2>2, <1>6, <1>7
    <3>2. g \notin disturbed  BY <2>2, <1>1
    <3> QED  BY <2>2, <3>1, <3>2, <1>1, <1>8 DEF Inv, Exact
  <2> QED  BY <2>1, <2>2
<1>13. TakenRight'
  <2> SUFFICES ASSUME NEW s \in Procs, NEW g \in op'[s].alone \cap Measured(op'[s])
               PROVE  op'[s].taken[g] = Truth(rows, g)
    BY <1>1 DEF TakenRight
  <2>1. CASE s # r  BY <2>1, <1>7 DEF Inv, TakenRight
  <2>2. CASE s = r
    <3>1. /\ g \in Measured(op[r]) \ {f} /\ o.taken = taken /\ g \in op[r].alone /\ g \in Numbers
      BY <2>2, <1>1, <1>6, <1>7 DEF TypedOperation
    <3> QED  BY <2>2, <3>1, <1>4, <1>7 DEF Inv, TakenRight
  <2> QED  BY <2>1, <2>2
<1> QED  BY <1>9, <1>10, <1>11, <1>12, <1>13 DEF Inv

-----------------------------------------------------------------------------
\* Every action keeps the invariant.

LEMMA Openings ==
  ASSUME NEW kind \in Kinds, NEW k \in RowIds, NEW at \in {"create", "remove", "save", "dec"},
         NEW found \in BOOLEAN, NEW score \in Scores \cup {0}, at = "dec" => k.coll = "wishes",
         NEW o, o = Opening(kind, k, at, found, score)
  PROVE  /\ o \in TypedOperation /\ o.id = k /\ o.alone = {} /\ Busy(o) /\ o.at = at
         /\ Sound(o) /\ Pending(o) = {} /\ Measured(o) = {}
<1>1. Idle \in TypedOperation /\ Idle.alone = {}  BY IdleTyped
<1>2. New(kind, k) \in TypedOperation /\ New(kind, k).id = k /\ New(kind, k).alone = {}
  BY <1>1 DEF New, TypedOperation
<1>3. o \in TypedOperation /\ o.id = k /\ o.alone = {} /\ o.at = at
  BY <1>2 DEF Opening, TypedOperation, Steps
<1> QED  BY <1>3 DEF Sound, Pending, Measured, Busy, Touches

LEMMA LookupKeeps ==
  ASSUME Inv, NEW r \in Procs, NEW k \in RowIds, NEW score \in Scores, Lookup(r, k, score)
  PROVE  Inv'
<1>1. PICK kind \in Kinds, at \in {"create", "remove", "save"}, found \in BOOLEAN, c \in Scores \cup {0} :
        Begin(r, Opening(kind, k, at, found, c))
  <2>1. rows[k].here \in BOOLEAN  BY DEF Inv, Typed, AnyRow, Absent
  <2>2. (IF score = rows[k].score THEN 0 ELSE score) \in Scores \cup {0}  OBVIOUS
  <2>3. {"follow", "like", "review", "editReview", "dropReview", "hideReview", "wish"} \subseteq Kinds
    BY DEF Kinds
  <2> QED  BY <2>1, <2>2, <2>3 DEF Lookup
<1>2. op[r].at = "idle" /\ UNCHANGED <<rows, shown>>  BY DEF Lookup, Free, At
<1>3. PICK o : o = Opening(kind, k, at, found, c)  OBVIOUS
<1>4. /\ o \in TypedOperation /\ o.id = k /\ o.alone = {} /\ Busy(o) /\ Sound(o) /\ Measured(o) = {}
  BY <1>3, Openings
<1>5. rows' \in [RowIds -> AnyRow] /\ rows' = rows  BY <1>2 DEF Inv, Typed
<1>6. Begin(r, o)  BY <1>1, <1>3
<1> QED  BY <1>2, <1>4, <1>5, <1>6, BeginKeeps

LEMMA RateKeeps ==
  ASSUME Inv, NEW r \in Procs, NEW k \in RowIds, NEW score \in Scores, Rate(r, k, score)
  PROVE  Inv'
<1>1. PICK n : n = New("rate", k)  OBVIOUS
<1>2. n \in TypedOperation /\ n.id = k /\ n.alone = {}
  <2>1. Idle \in TypedOperation /\ Idle.alone = {}  BY IdleTyped
  <2> QED  BY <1>1, <2>1 DEF New, TypedOperation, Kinds
<1>3. PICK o : o = Recount(n)  OBVIOUS
<1>4. /\ o \in TypedOperation /\ Sound(o) /\ o.id = k /\ o.alone = {} /\ Pending(o) = CountsFor(k)
      /\ Measured(o) = {}
  BY <1>2, <1>3, Recounts
<1>5. Busy(o)  BY <1>3 DEF Recount, Stage, Busy
<1>6. /\ Begin(r, o) /\ op[r].at = "idle" /\ UNCHANGED shown /\ rows' = [rows EXCEPT ![k] = Fresh(score)]
  BY <1>1, <1>3 DEF Rate, Free, At
<1>7. rows' \in [RowIds -> AnyRow] /\ \A j \in RowIds \ {k} : rows'[j] = rows[j]
  BY <1>6 DEF Inv, Typed, Fresh, AnyRow
<1> QED  BY <1>4, <1>5, <1>6, <1>7, BeginKeeps

LEMMA WithdrawKeeps ==
  ASSUME Inv, NEW r \in Procs, NEW k \in RowIds, Withdraw(r, k)
  PROVE  Inv'
<1>1. /\ op[r].at = "idle" /\ UNCHANGED shown /\ rows' = [rows EXCEPT ![k] = Absent]
  BY DEF Withdraw, Free, At
<1>2. rows' \in [RowIds -> AnyRow] /\ \A j \in RowIds \ {k} : rows'[j] = rows[j]
  BY <1>1 DEF Inv, Typed, AnyRow, Absent
<1>3. CASE k.coll = "wishes"
  <2>1. PICK kind \in Kinds, at \in {"create", "remove", "save", "dec"}, found \in BOOLEAN,
             score \in Scores \cup {0} :
          kind = "unwish" /\ at = "dec" /\ found = FALSE /\ score = 0
    BY DEF Kinds
  <2>2. PICK o : o = Opening(kind, k, at, found, score)  OBVIOUS
  <2>3. Begin(r, o)  BY <1>3, <2>1, <2>2 DEF Withdraw
  <2>4. at = "dec" => k.coll = "wishes"  BY <1>3
  <2>5. /\ o \in TypedOperation /\ o.id = k /\ o.alone = {} /\ Busy(o) /\ Sound(o) /\ Measured(o) = {}
        /\ Pending(o) = {}
    BY <2>2, <2>4, Openings
  <2>6. Pending(o) = CountsFor(k)  BY <1>3, <2>5, NothingCounted
  <2> QED  BY <1>1, <1>2, <2>3, <2>5, <2>6, BeginKeeps
<1>4. CASE k.coll # "wishes"
  <2>1. PICK n : n = New(IF k.coll = "follows" THEN "unfollow" ELSE "unrate", k)  OBVIOUS
  <2>2. n \in TypedOperation /\ n.id = k /\ n.alone = {}
    <3>1. Idle \in TypedOperation /\ Idle.alone = {}  BY IdleTyped
    <3> QED  BY <2>1, <3>1 DEF New, TypedOperation, Kinds
  <2>3. PICK o : o = Recount(n)  OBVIOUS
  <2>4. /\ o \in TypedOperation /\ Sound(o) /\ o.id = k /\ o.alone = {} /\ Pending(o) = CountsFor(k)
        /\ Measured(o) = {}
    BY <2>2, <2>3, Recounts
  <2>5. Busy(o)  BY <2>3 DEF Recount, Stage, Busy
  <2>6. Begin(r, o)  BY <1>4, <2>1, <2>3 DEF Withdraw
  <2> QED  BY <1>1, <1>2, <2>4, <2>5, <2>6, BeginKeeps
<1> QED  BY <1>3, <1>4

\* Before the row has been changed.
LEMMA Before ==
  ASSUME Inv, NEW r \in Procs, op[r].at \in {"create", "remove", "save", "inc", "dec"}
  PROVE  /\ op[r] \in TypedOperation /\ op[r].id \in RowIds /\ op[r].alone \subseteq CountsFor(op[r].id)
         /\ Touches(op[r]) = CountsFor(op[r].id) /\ Pending(op[r]) = {} /\ Sound(op[r])
<1>1. op[r] \in TypedOperation /\ Sound(op[r])  BY DEF Inv, Typed
<1> QED  BY <1>1 DEF Sound, Touches, Busy, Pending

\* One slot moves.
LEMMA OneSlot ==
  ASSUME Inv, NEW r \in Procs, NEW o \in TypedOperation, op' = [op EXCEPT ![r] = o]
  PROVE  /\ op' = [s \in Procs |-> op'[s]] /\ DOMAIN op' = Procs /\ op'[r] = o
         /\ \A s \in Procs \ {r} : op'[s] \in TypedOperation /\ Same(op[s], op'[s]) /\ op'[s].alone = op[s].alone
BY DEF Inv, Typed, Same

\* A request ends without having changed anything.
LEMMA EndKeeps ==
  ASSUME Inv, NEW r \in Procs, op[r].at \in {"create", "remove", "save", "inc", "dec"},
         Done(r), UNCHANGED <<rows, shown, disturbed>>
  PROVE  Inv'
<1>1. PICK o : o = Idle  OBVIOUS
<1>2. /\ o \in TypedOperation /\ Sound(o) /\ Touches(o) = {} /\ Measured(o) = {} /\ o.alone = {}
  BY <1>1, IdleTyped
<1>3. op' = [op EXCEPT ![r] = o]  BY <1>1 DEF Done, Go
<1>4. rows' \in [RowIds -> AnyRow] /\ rows' = rows  BY DEF Inv, Typed
<1> QED  BY <1>2, <1>3, <1>4, Before, OneSlot, ChangeKeeps

\* A request has changed its row and goes on to recount.
LEMMA ChangedKeeps ==
  ASSUME Inv, NEW r \in Procs, op[r].at \in {"create", "remove", "save"},
         Go(r, Recount(op[r])), rows' \in [RowIds -> AnyRow],
         \A j \in RowIds \ {op[r].id} : rows'[j] = rows[j], UNCHANGED <<shown, disturbed>>
  PROVE  Inv'
<1>1. PICK o : o = Recount(op[r])  OBVIOUS
<1>2. /\ o \in TypedOperation /\ Sound(o) /\ o.alone = op[r].alone /\ Measured(o) = {}
      /\ Touches(o) = Touches(op[r]) /\ Pending(o) = CountsFor(op[r].id)
  BY <1>1, Before, Recounts
<1>3. op' = [op EXCEPT ![r] = o]  BY <1>1 DEF Go
<1> QED  BY <1>2, <1>3, Before, OneSlot, ChangeKeeps

LEMMA CreateRowKeeps == ASSUME Inv, NEW r \in Procs, CreateRow(r)  PROVE Inv'
<1>1. op[r].at = "create" /\ UNCHANGED <<shown, disturbed>>  BY DEF CreateRow, At
<1>2. op[r] \in TypedOperation /\ op[r].id \in RowIds  BY <1>1, Before
<1>3. CASE rows[op[r].id].here
  <2>1. Done(r) /\ UNCHANGED rows  BY <1>3 DEF CreateRow
  <2> QED  BY <1>1, <2>1, EndKeeps
<1>4. CASE ~rows[op[r].id].here
  <2>1. rows' = [rows EXCEPT ![op[r].id] = Fresh(op[r].score)]  BY <1>4 DEF CreateRow
  <2>2. rows' \in [RowIds -> AnyRow] /\ \A j \in RowIds \ {op[r].id} : rows'[j] = rows[j]
    BY <2>1, <1>2 DEF Inv, Typed, Fresh, AnyRow, TypedOperation
  <2>3. CASE op[r].id.coll = "wishes"
    <3>1. PICK o : o = [op[r] EXCEPT !.at = "inc"]  OBVIOUS
    <3>2. op' = [op EXCEPT ![r] = o]  BY <1>4, <2>3, <3>1 DEF CreateRow, Go
    <3>3. o \in TypedOperation /\ o.at = "inc" /\ o.id = op[r].id /\ o.alone = op[r].alone
      BY <3>1, <1>2 DEF TypedOperation, Steps
    <3>4. /\ Touches(o) = Touches(op[r]) /\ Pending(o) = {} /\ Measured(o) = {}
          /\ Pending(o) = CountsFor(op[r].id)
      BY <3>3, <1>1, <1>2, <2>3, NothingCounted DEF Touches, Busy, Pending, Measured
    <3>5. Sound(o)  BY <3>3, <3>4, <1>1, <1>2, <2>3, Before DEF Sound
    <3> QED  BY <1>1, <2>2, <3>2, <3>3, <3>4, <3>5, Before, OneSlot, ChangeKeeps
  <2>4. CASE op[r].id.coll # "wishes"
    <3>1. Go(r, Recount(op[r]))  BY <1>4, <2>4 DEF CreateRow
    <3> QED  BY <1>1, <2>2, <3>1, ChangedKeeps
  <2> QED  BY <2>3, <2>4
<1> QED  BY <1>3, <1>4

LEMMA RemoveRowKeeps == ASSUME Inv, NEW r \in Procs, RemoveRow(r)  PROVE Inv'
<1>1. op[r].at = "remove" /\ UNCHANGED <<shown, disturbed>>  BY DEF RemoveRow, At
<1>2. op[r] \in TypedOperation /\ op[r].id \in RowIds  BY <1>1, Before
<1>3. PICK o : o = Recount(op[r])  OBVIOUS
<1>4. /\ o \in TypedOperation /\ Sound(o) /\ o.alone = op[r].alone /\ Measured(o) = {}
      /\ Touches(o) = Touches(op[r]) /\ Pending(o) = CountsFor(op[r].id)
  BY <1>1, <1>3, Before, Recounts
<1>5. op' = [s \in Procs |-> IF s = r THEN o ELSE IF op[r].found THEN Forget(op[s], op[r].id) ELSE op[s]]
  BY <1>3 DEF RemoveRow
<1>6. DOMAIN op' = Procs /\ op' = [s \in Procs |-> op'[s]] /\ op'[r] = o  BY <1>5
<1>7. ASSUME NEW s \in Procs \ {r}
      PROVE  op'[s] \in TypedOperation /\ Same(op[s], op'[s]) /\ op'[s].alone = op[s].alone
  <2>1. op[s] \in TypedOperation  BY DEF Inv, Typed
  <2>2. op'[s] = op[s] \/ op'[s] = [op[s] EXCEPT !.found = FALSE]  BY <1>5 DEF Forget
  <2> QED  BY <2>1, <2>2 DEF TypedOperation, Same
<1>8. rows' \in [RowIds -> AnyRow] /\ \A j \in RowIds \ {op[r].id} : rows'[j] = rows[j]
  BY <1>2 DEF RemoveRow, Inv, Typed, AnyRow, Absent
<1> QED  BY <1>1, <1>4, <1>6, <1>7, <1>8, Before, ChangeKeeps

LEMMA CountWishKeeps == ASSUME Inv, NEW r \in Procs, CountWish(r)  PROVE Inv'
BY EndKeeps DEF CountWish

LEMMA CrashKeeps == ASSUME Inv, NEW r \in Procs, Crash(r)  PROVE Inv'
<1>1. /\ UNCHANGED <<rows, shown>> /\ disturbed' = disturbed \cup Touches(op[r])
      /\ op' = [op EXCEPT ![r] = Idle]
  BY DEF Crash, Done, Go
<1>2. op[r] \in TypedOperation /\ Sound(op[r])  BY DEF Inv, Typed
<1>3. Touches(op[r]) \subseteq Numbers /\ Pending(op[r]) \subseteq Touches(op[r])
  BY <1>2, CountsForType DEF Sound, Touches, Pending, Busy
<1>4. /\ op' \in [Procs -> TypedOperation] /\ op'[r] = Idle /\ \A s \in Procs \ {r} : op'[s] = op[s]
  BY <1>1, IdleTyped DEF Inv, Typed
<1>5. \A s \in Procs : /\ Sound(op'[s]) /\ Touches(op'[s]) \subseteq Touches(op[s])
                        /\ op'[s].alone \subseteq op[s].alone
                        /\ Touches(op'[s]) \ op'[s].alone \subseteq Touches(op[s]) \ op[s].alone
  BY <1>4, IdleTyped DEF Inv, Typed
<1>6. Typed'  BY <1>1, <1>3, <1>4, <1>5 DEF Inv, Typed
<1>7. Apart'
  <2> SUFFICES ASSUME NEW s \in Procs, NEW t \in Procs, s # t
               PROVE  op'[s].alone \cap Touches(op'[t]) = {}
    BY DEF Apart
  <2>1. op'[s].alone \subseteq op[s].alone /\ Touches(op'[t]) \subseteq Touches(op[t])  BY <1>5
  <2> QED  BY <2>1 DEF Inv, Apart
<1>8. Known'
  <2> SUFFICES ASSUME NEW s \in Procs PROVE Touches(op'[s]) \ op'[s].alone \subseteq disturbed'
    BY DEF Known
  <2> QED  BY <1>1, <1>5 DEF Inv, Known
<1>9. Exact'
  <2> SUFFICES ASSUME NEW f \in Numbers, f \notin disturbed', \A s \in Procs : f \notin Pending(op'[s])
               PROVE  shown[f] = Truth(rows, f)
    BY <1>1 DEF Exact
  <2>1. \A s \in Procs : f \notin Pending(op[s])  BY <1>1, <1>3, <1>4
  <2> QED  BY <2>1, <1>1 DEF Inv, Exact
<1>10. TakenRight'
  <2> SUFFICES ASSUME NEW s \in Procs, NEW f \in op'[s].alone \cap Measured(op'[s])
               PROVE  op'[s].taken[f] = Truth(rows, f)
    BY <1>1 DEF TakenRight
  <2>1. s # r  BY <1>4, IdleTyped
  <2> QED  BY <2>1, <1>4 DEF Inv, TakenRight
<1> QED  BY <1>6, <1>7, <1>8, <1>9, <1>10 DEF Inv

LEMMA SaveReviewKeeps == ASSUME Inv, NEW r \in Procs, SaveReview(r)  PROVE Inv'
<1>1. op[r].at = "save" /\ UNCHANGED <<shown, disturbed>>  BY DEF SaveReview, At
<1>2. op[r] \in TypedOperation /\ op[r].id \in RowIds  BY <1>1, Before
<1>3. CASE op[r].found
  <2>1. Go(r, Recount(op[r])) /\ rows' = Revised(op[r])  BY <1>3 DEF SaveReview
  <2> DEFINE k == op[r].id
             row == IF op[r].kind = "hideReview" THEN [rows[k] EXCEPT !.hidden = TRUE]
                    ELSE IF op[r].score # 0 THEN [rows[k] EXCEPT !.score = op[r].score] ELSE rows[k]
  <2>c. rows \in [RowIds -> AnyRow] /\ op[r].score \in Scores \cup {0}
    BY <1>2 DEF Inv, Typed, TypedOperation
  <2>d. rows[k] \in AnyRow  BY <2>c, <1>2
  <2>e. [rows[k] EXCEPT !.hidden = TRUE] \in AnyRow  BY <2>d DEF AnyRow
  <2>f. [rows[k] EXCEPT !.score = op[r].score] \in AnyRow  BY <2>c, <2>d DEF AnyRow
  <2>a. rows \in [RowIds -> AnyRow] /\ row \in AnyRow  BY <2>c, <2>d, <2>e, <2>f
  <2>b. rows' = [rows EXCEPT ![k] = row] \/ rows' = rows  BY <2>1, <1>2, <2>a DEF Revised
  <2> HIDE DEF row
  <2>2. rows' \in [RowIds -> AnyRow] /\ \A j \in RowIds \ {k} : rows'[j] = rows[j]
    BY <2>a, <2>b
  <2> QED  BY <1>1, <2>1, <2>2, ChangedKeeps
<1>4. CASE ~op[r].found
  <2>1. Done(r) /\ UNCHANGED rows  BY <1>4 DEF SaveReview
  <2> QED  BY <1>1, <2>1, EndKeeps
<1> QED  BY <1>3, <1>4

LEMMA InitHolds == Init => Inv
<1> SUFFICES ASSUME Init PROVE Inv  OBVIOUS
<1>1. /\ rows = [k \in RowIds |-> Absent] /\ shown = [f \in Numbers |-> Empty]
      /\ op = [r \in Procs |-> Idle] /\ disturbed = {}
  BY DEF Init
<1>2. Absent \in AnyRow  BY DEF Absent, AnyRow
<1>3. Typed  BY <1>1, <1>2, IdleTyped, ReadingsType DEF Typed
<1>4. Apart /\ Known /\ TakenRight  BY <1>1, IdleTyped DEF Apart, Known, TakenRight
<1>5. Exact  BY <1>1, NobodyCounted DEF Exact
<1> QED  BY <1>3, <1>4, <1>5 DEF Inv

LEMMA StutterKeeps == ASSUME Inv, UNCHANGED vars  PROVE Inv'
BY DEF vars, Inv, Typed, Apart, Known, Exact, TakenRight

\* The inductive invariant: what is being recounted, by whom, and how far.
THEOREM Recounting == Spec => []Inv
<1>1. Inv /\ [Next]_vars => Inv'
  <2> SUFFICES ASSUME Inv, [Next]_vars PROVE Inv'  OBVIOUS
  <2>1. ASSUME NEW r \in Procs, NEW k \in RowIds, NEW score \in Scores, Lookup(r, k, score) \/ Rate(r, k, score)
        PROVE  Inv'
    BY <2>1, LookupKeeps, RateKeeps
  <2>2. ASSUME NEW r \in Procs, NEW k \in RowIds, Withdraw(r, k) PROVE Inv'
    BY <2>2, WithdrawKeeps
  <2>3. ASSUME NEW r \in Procs, NEW f \in Numbers, Count(r, f) \/ Write(r, f) PROVE Inv'
    BY <2>3, CountKeeps, WriteKeeps
  <2>4. ASSUME NEW r \in Procs, CreateRow(r) \/ RemoveRow(r) \/ SaveReview(r) \/ CountWish(r) \/ Crash(r)
        PROVE  Inv'
    BY <2>4, CreateRowKeeps, RemoveRowKeeps, SaveReviewKeeps, CountWishKeeps, CrashKeeps
  <2>5. CASE AtRest \/ UNCHANGED vars  BY <2>5, StutterKeeps DEF AtRest
  <2> QED  BY <2>1, <2>2, <2>3, <2>4, <2>5 DEF Next, Request, Step
<1> QED  BY InitHolds, <1>1, PTL DEF Spec

\* Followers, follows, likes and the ratings of users, products and stores are
\* what their rows say, unless the last requests on them overlapped or broke off.
THEOREM AloneRepairs == Spec => []Repaired
<1>1. Inv => Repaired
  <2> SUFFICES ASSUME Inv, NEW f \in Numbers, f \notin disturbed, \A r \in Procs : f \notin Touches(op[r])
               PROVE  shown[f] = Truth(rows, f)
    BY DEF Repaired
  <2>1. ASSUME NEW r \in Procs PROVE f \notin Pending(op[r])
    BY DEF Inv, Typed, Sound, Touches, Pending, Busy
  <2> QED  BY <2>1 DEF Inv, Exact
<1> QED  BY <1>1, Recounting, PTL

-----------------------------------------------------------------------------
\* The number of wishes.

In(o, at, p)     == IF o.at = at /\ o.id.of = p THEN 1 ELSE 0
IsWish(R, k, p)  == IF k.coll = "wishes" /\ k.of = p /\ R[k].here THEN 1 ELSE 0
Wishes(R, p)     == {k \in RowIds : k.coll = "wishes" /\ k.of = p /\ R[k].here}
Slots(ops, at, p) == {r \in Procs : ops[r].at = at /\ ops[r].id.of = p}

\* What is shown and still to be added is what is there and still to be subtracted.
Balanced(w, ops, R, p) ==
  /\ IsFiniteSet(Wishes(R, p))
  /\ IsFiniteSet(Slots(ops, "inc", p)) /\ IsFiniteSet(Slots(ops, "dec", p))
  /\ w[p] + Cardinality(Slots(ops, "inc", p))
       = Cardinality(Wishes(R, p)) + Cardinality(Slots(ops, "dec", p))

\* Only wishes are counted one by one.
Plain(o) == o.at \in {"remove", "save"} => o.id.coll # "wishes"

WishInv ==
  /\ wished \in [Products -> Int] /\ lost \subseteq Products
  /\ \A r \in Procs : Plain(op[r])
  /\ \A p \in Products \ lost : Balanced(wished, op, rows, p)

\* Two sets that differ in one element at most.
LEMMA OneApart ==
  ASSUME NEW S, IsFiniteSet(S), NEW T, NEW x, S \ {x} = T \ {x},
         NEW i \in {0, 1}, NEW j \in {0, 1}, x \in S <=> i = 1, x \in T <=> j = 1
  PROVE  /\ IsFiniteSet(T) /\ Cardinality(S) \in Nat /\ Cardinality(T) \in Nat
         /\ Cardinality(T) + i = Cardinality(S) + j
<1> DEFINE U == S \ {x}
<1>1. IsFiniteSet(U)
  BY FS_RemoveElement
<1>2. Cardinality(U) \in Nat
  BY <1>1, FS_CardinalityType
<1>3. IsFiniteSet(U \cup {x}) /\ Cardinality(U \cup {x}) = Cardinality(U) + 1
  BY <1>1, FS_AddElement
<1>4. /\ x \in S => S = U \cup {x}
      /\ x \notin S => S = U
      /\ x \in T => T = U \cup {x}
      /\ x \notin T => T = U
  OBVIOUS
<1> HIDE DEF U
<1>a. PICK u : u = Cardinality(U)
  OBVIOUS
<1>b. u \in Nat /\ u + 0 = u
  BY <1>2, <1>a
<1>5. Cardinality(S) = u + i
  <2>1. CASE x \in S
    BY <2>1, <1>3, <1>4, <1>a
  <2>2. CASE x \notin S
    <3>1. i = 0 /\ S = U
      BY <2>2, <1>4
    <3> QED
      BY <3>1, <1>a, <1>b
  <2> QED
    BY <2>1, <2>2
<1>6. IsFiniteSet(T) /\ Cardinality(T) = u + j
  <2>1. CASE x \in T
    BY <2>1, <1>3, <1>4, <1>a
  <2>2. CASE x \notin T
    <3>1. j = 0 /\ T = U
      BY <2>2, <1>4
    <3> QED
      BY <3>1, <1>1, <1>a, <1>b
  <2> QED
    BY <2>1, <2>2
<1> QED
  BY <1>b, <1>5, <1>6

LEMMA Bits ==
  /\ \A o, at, p : In(o, at, p) \in {0, 1} /\ (In(o, at, p) = 1 <=> o.at = at /\ o.id.of = p)
  /\ \A R, k, p : IsWish(R, k, p) \in {0, 1}
                  /\ (IsWish(R, k, p) = 1 <=> k.coll = "wishes" /\ k.of = p /\ R[k].here)
BY DEF In, IsWish

\* A step of slot r that changes at most row k.
LEMMA BalanceKept ==
  ASSUME NEW w, NEW v, NEW ops, NEW ops2, NEW R, NEW R2, NEW p \in Products,
         Balanced(w, ops, R, p), NEW r \in Procs, NEW k \in RowIds,
         \A s \in Procs \ {r} : ops2[s].at = ops[s].at /\ ops2[s].id = ops[s].id,
         \A j \in RowIds \ {k} : R2[j] = R[j],
         w[p] \in Int, v[p] \in Int,
         v[p] - w[p] + In(ops2[r], "inc", p) - In(ops[r], "inc", p)
           = IsWish(R2, k, p) - IsWish(R, k, p) + In(ops2[r], "dec", p) - In(ops[r], "dec", p)
  PROVE  Balanced(v, ops2, R2, p)
<1>1. Wishes(R, p) \ {k} = Wishes(R2, p) \ {k}
  BY DEF Wishes
<1>2. \A at : Slots(ops, at, p) \ {r} = Slots(ops2, at, p) \ {r}
  BY DEF Slots
<1>3. /\ (k \in Wishes(R, p) <=> IsWish(R, k, p) = 1)
      /\ (k \in Wishes(R2, p) <=> IsWish(R2, k, p) = 1)
      /\ \A at : (r \in Slots(ops, at, p) <=> In(ops[r], at, p) = 1)
                 /\ (r \in Slots(ops2, at, p) <=> In(ops2[r], at, p) = 1)
  BY Bits DEF Wishes, Slots
<1>4. PICK a, b : a = Wishes(R, p) /\ b = Wishes(R2, p)
  OBVIOUS
<1>s. ASSUME NEW at
      PROVE  /\ Slots(ops, at, p) \ {r} = Slots(ops2, at, p) \ {r}
             /\ (r \in Slots(ops, at, p) <=> In(ops[r], at, p) = 1)
             /\ (r \in Slots(ops2, at, p) <=> In(ops2[r], at, p) = 1)
             /\ In(ops[r], at, p) \in {0, 1} /\ In(ops2[r], at, p) \in {0, 1}
  BY <1>2, <1>3, Bits
<1>5. /\ IsFiniteSet(b) /\ Cardinality(a) \in Nat /\ Cardinality(b) \in Nat
      /\ Cardinality(b) + IsWish(R, k, p) = Cardinality(a) + IsWish(R2, k, p)
  BY <1>1, <1>3, <1>4, Bits, OneApart DEF Balanced
<1>6. PICK c, d : c = Slots(ops, "inc", p) /\ d = Slots(ops2, "inc", p)
  OBVIOUS
<1>7. /\ IsFiniteSet(d) /\ Cardinality(c) \in Nat /\ Cardinality(d) \in Nat
      /\ Cardinality(d) + In(ops[r], "inc", p) = Cardinality(c) + In(ops2[r], "inc", p)
  <2>1. /\ c \ {r} = d \ {r} /\ IsFiniteSet(c)
        /\ (r \in c <=> In(ops[r], "inc", p) = 1)
        /\ (r \in d <=> In(ops2[r], "inc", p) = 1)
        /\ In(ops[r], "inc", p) \in {0, 1} /\ In(ops2[r], "inc", p) \in {0, 1}
    BY <1>s, <1>6 DEF Balanced
  <2> QED
    BY <2>1, OneApart
<1>8. PICK e, f : e = Slots(ops, "dec", p) /\ f = Slots(ops2, "dec", p)
  OBVIOUS
<1>9. /\ IsFiniteSet(f) /\ Cardinality(e) \in Nat /\ Cardinality(f) \in Nat
      /\ Cardinality(f) + In(ops[r], "dec", p) = Cardinality(e) + In(ops2[r], "dec", p)
  <2>1. /\ e \ {r} = f \ {r} /\ IsFiniteSet(e)
        /\ (r \in e <=> In(ops[r], "dec", p) = 1)
        /\ (r \in f <=> In(ops2[r], "dec", p) = 1)
        /\ In(ops[r], "dec", p) \in {0, 1} /\ In(ops2[r], "dec", p) \in {0, 1}
    BY <1>s, <1>8 DEF Balanced
  <2> QED
    BY <2>1, OneApart
<1>10. w[p] + Cardinality(c) = Cardinality(a) + Cardinality(e)
  BY <1>4, <1>6, <1>8 DEF Balanced
<1>11. v[p] + Cardinality(d) = Cardinality(b) + Cardinality(f)
  <2>1. PICK ca, cb, cc, cd, ce, cf \in Nat :
          /\ ca = Cardinality(a) /\ cb = Cardinality(b) /\ cc = Cardinality(c)
          /\ cd = Cardinality(d) /\ ce = Cardinality(e) /\ cf = Cardinality(f)
    BY <1>5, <1>7, <1>9
  <2>2. PICK w1, w2, i1, i2, d1, d2 \in {0, 1} :
          /\ w1 = IsWish(R, k, p) /\ w2 = IsWish(R2, k, p)
          /\ i1 = In(ops[r], "inc", p) /\ i2 = In(ops2[r], "inc", p)
          /\ d1 = In(ops[r], "dec", p) /\ d2 = In(ops2[r], "dec", p)
    BY Bits
  <2>3. PICK x, y \in Int : x = w[p] /\ y = v[p]
    OBVIOUS
  <2>4. /\ cb + w1 = ca + w2 /\ cd + i1 = cc + i2 /\ cf + d1 = ce + d2
        /\ x + cc = ca + ce /\ y - x + i2 - i1 = w2 - w1 + d2 - d1
    BY <1>5, <1>7, <1>9, <1>10, <2>1, <2>2, <2>3
  <2>5. y + cd = cb + cf
    BY <2>4
  <2> QED
    BY <2>1, <2>3, <2>5
<1> QED
  BY <1>4, <1>5, <1>6, <1>7, <1>8, <1>9, <1>11 DEF Balanced

\* A step that changes neither a wish nor a number of wishes.
LEMMA WishesAlone ==
  ASSUME Inv, WishInv, NEW r \in Procs, NEW k \in RowIds,
         \A s \in Procs \ {r} : op'[s].at = op[s].at /\ op'[s].id = op[s].id,
         \A j \in RowIds \ {k} : rows'[j] = rows[j],
         rows' = rows \/ k.coll # "wishes",
         UNCHANGED wished, lost \subseteq lost', lost' \subseteq Products,
         Plain(op'[r]), op'[r].at \notin {"inc", "dec"},
         op[r].at \in {"inc", "dec"} => op[r].id.of \in lost'
  PROVE  WishInv'
<1>1. ASSUME NEW p \in Products \ lost' PROVE Balanced(wished', op', rows', p)
  <2>1. Balanced(wished, op, rows, p) /\ wished[p] \in Int
    BY DEF WishInv
  <2>2. /\ In(op'[r], "inc", p) = 0 /\ In(op'[r], "dec", p) = 0
        /\ In(op[r], "inc", p) = 0 /\ In(op[r], "dec", p) = 0
    BY DEF In
  <2>3. IsWish(rows', k, p) = IsWish(rows, k, p)
    BY DEF IsWish
  <2>4. wished'[p] - wished[p] + In(op'[r], "inc", p) - In(op[r], "inc", p)
          = IsWish(rows', k, p) - IsWish(rows, k, p)
            + In(op'[r], "dec", p) - In(op[r], "dec", p)
    BY <2>1, <2>2, <2>3, Bits
  <2> QED
    BY <2>1, <2>4, BalanceKept
<1>2. ASSUME NEW s \in Procs PROVE Plain(op'[s])
  BY DEF WishInv, Plain
<1>3. (\A p \in Products \ lost : Balanced(wished, op, rows, p))'
  BY <1>1 DEF Balanced, Wishes, Slots
<1>4. (\A s \in Procs : Plain(op[s]))'
  BY <1>2 DEF Plain
<1> QED
  BY <1>3, <1>4 DEF WishInv

\* A step that changes a wish, or its count.
LEMMA WishStep ==
  ASSUME WishInv, NEW r \in Procs, NEW k \in RowIds,
         \A s \in Procs \ {r} : op'[s].at = op[s].at /\ op'[s].id = op[s].id,
         \A j \in RowIds \ {k} : rows'[j] = rows[j],
         wished' \in [Products -> Int], lost' = lost, Plain(op'[r]),
         \A p \in Products \ lost :
           wished'[p] - wished[p] + In(op'[r], "inc", p) - In(op[r], "inc", p)
             = IsWish(rows', k, p) - IsWish(rows, k, p) + In(op'[r], "dec", p) - In(op[r], "dec", p)
  PROVE  WishInv'
<1>1. ASSUME NEW p \in Products \ lost' PROVE Balanced(wished', op', rows', p)
  <2>1. Balanced(wished, op, rows, p) /\ wished[p] \in Int /\ wished'[p] \in Int
    BY DEF WishInv
  <2> QED
    BY <2>1, BalanceKept
<1>2. ASSUME NEW s \in Procs PROVE Plain(op'[s])
  BY DEF WishInv, Plain
<1>3. (\A p \in Products \ lost : Balanced(wished, op, rows, p))'
  BY <1>1 DEF Balanced, Wishes, Slots
<1>4. (\A s \in Procs : Plain(op[s]))'
  BY <1>2 DEF Plain
<1> QED
  BY <1>3, <1>4 DEF WishInv

\* A request that begins leaves the others where they are.
LEMMA BeginsAlone ==
  ASSUME Inv, NEW r \in Procs, NEW o \in TypedOperation, Begin(r, o)
  PROVE  /\ op'[r].at = o.at /\ op'[r].id = o.id /\ op'[r].found = o.found
         /\ \A s \in Procs \ {r} :
              op'[s].at = op[s].at /\ op'[s].id = op[s].id /\ op'[s].found = op[s].found
<1>1. \A s \in Procs : op[s] \in TypedOperation
  BY DEF Inv, Typed
<1>2. PICK c : op'[r] = [o EXCEPT !.alone = c]
  BY DEF Begin
<1>3. op'[r].at = o.at /\ op'[r].id = o.id /\ op'[r].found = o.found
  BY <1>2 DEF TypedOperation
<1>4. ASSUME NEW s \in Procs \ {r}
      PROVE  op'[s].at = op[s].at /\ op'[s].id = op[s].id /\ op'[s].found = op[s].found
  <2>1. PICK d : op'[s] = [op[s] EXCEPT !.alone = d]
    BY DEF Begin
  <2> QED
    BY <2>1, <1>1 DEF TypedOperation
<1> QED
  BY <1>3, <1>4

LEMMA LookupBalances ==
  ASSUME Inv, WishInv, NEW r \in Procs, NEW k \in RowIds, NEW score \in Scores, Lookup(r, k, score)
  PROVE  WishInv'
<1>1. PICK kind \in Kinds, at \in {"create", "remove", "save"}, found \in BOOLEAN, c \in Scores \cup {0} :
        /\ Begin(r, Opening(kind, k, at, found, c))
        /\ at \in {"remove", "save"} => k.coll # "wishes"
  <2>1. rows[k].here \in BOOLEAN
    BY DEF Inv, Typed, AnyRow, Absent
  <2>2. (IF score = rows[k].score THEN 0 ELSE score) \in Scores \cup {0}
    OBVIOUS
  <2>3. {"follow", "like", "review", "editReview", "dropReview", "hideReview", "wish"} \subseteq Kinds
    BY DEF Kinds
  <2> QED
    BY <2>1, <2>2, <2>3 DEF Lookup, Free
<1>2. PICK a \in {"create", "remove", "save", "dec"} : a = at
  OBVIOUS
<1>3. PICK o : o = Opening(kind, k, a, found, c)
  OBVIOUS
<1>4. o \in TypedOperation /\ o.id = k /\ o.at = at
  BY <1>2, <1>3, Openings
<1>5. Begin(r, o)
  BY <1>1, <1>2, <1>3
<1>6. /\ op'[r].at = at /\ op'[r].id = k
      /\ \A s \in Procs \ {r} : op'[s].at = op[s].at /\ op'[s].id = op[s].id
  BY <1>4, <1>5, BeginsAlone
<1>7. Plain(op'[r]) /\ op'[r].at \notin {"inc", "dec"}
  BY <1>1, <1>6 DEF Plain
<1>8. op[r].at = "idle" /\ rows' = rows /\ wished' = wished /\ lost' = lost
  BY DEF Lookup, Free, At
<1>9. lost' \subseteq Products
  BY <1>8 DEF WishInv
<1> QED
  BY <1>6, <1>7, <1>8, <1>9, WishesAlone

LEMMA RateBalances ==
  ASSUME Inv, WishInv, NEW r \in Procs, NEW k \in RowIds, NEW score \in Scores, Rate(r, k, score)
  PROVE  WishInv'
<1>1. PICK n : n = New("rate", k)
  OBVIOUS
<1>2. n \in TypedOperation /\ n.id = k /\ n.alone = {}
  <2>1. Idle \in TypedOperation /\ Idle.alone = {}
    BY IdleTyped
  <2> QED
    BY <1>1, <2>1 DEF New, TypedOperation, Kinds
<1>3. PICK o : o = Recount(n)
  OBVIOUS
<1>4. o \in TypedOperation /\ o.id = k
  BY <1>2, <1>3, Recounts
<1>5. Begin(r, o) /\ o.at = "count"
  BY <1>1, <1>2, <1>3 DEF Rate, Recount, Stage, TypedOperation
<1>6. /\ op'[r].at = "count" /\ op'[r].id = k
      /\ \A s \in Procs \ {r} : op'[s].at = op[s].at /\ op'[s].id = op[s].id
  BY <1>4, <1>5, BeginsAlone
<1>7. Plain(op'[r]) /\ op'[r].at \notin {"inc", "dec"}
  BY <1>6 DEF Plain
<1>8. /\ op[r].at = "idle" /\ wished' = wished /\ lost' = lost /\ k.coll # "wishes"
      /\ rows' = [rows EXCEPT ![k] = Fresh(score)]
  BY DEF Rate, Free, At
<1>9. lost' \subseteq Products /\ \A j \in RowIds \ {k} : rows'[j] = rows[j]
  BY <1>8 DEF WishInv, Inv, Typed
<1> QED
  BY <1>6, <1>7, <1>8, <1>9, WishesAlone

LEMMA WithdrawBalances ==
  ASSUME Inv, WishInv, NEW r \in Procs, NEW k \in RowIds, Withdraw(r, k)
  PROVE  WishInv'
<1>1. /\ op[r].at = "idle" /\ wished' = wished /\ lost' = lost /\ rows[k].here
      /\ rows' = [rows EXCEPT ![k] = Absent]
  BY DEF Withdraw, Free, At
<1>2. lost' \subseteq Products /\ \A j \in RowIds \ {k} : rows'[j] = rows[j]
  BY <1>1 DEF WishInv, Inv, Typed
<1>3. CASE k.coll = "wishes"
  <2>1. PICK kind \in Kinds, at \in {"create", "remove", "save", "dec"}, found \in BOOLEAN,
             score \in Scores \cup {0} :
          kind = "unwish" /\ at = "dec" /\ found = FALSE /\ score = 0
    BY DEF Kinds
  <2>2. PICK o : o = Opening(kind, k, at, found, score)
    OBVIOUS
  <2>3. Begin(r, o)
    BY <1>3, <2>1, <2>2 DEF Withdraw
  <2>4. at = "dec" => k.coll = "wishes"
    BY <1>3
  <2>5. o \in TypedOperation /\ o.id = k /\ o.at = "dec"
    BY <2>1, <2>2, <2>4, Openings
  <2>6. /\ op'[r].at = "dec" /\ op'[r].id = k
        /\ \A s \in Procs \ {r} : op'[s].at = op[s].at /\ op'[s].id = op[s].id
    BY <2>3, <2>5, BeginsAlone
  <2>7. ~rows'[k].here
    BY <1>1 DEF Inv, Typed, Absent
  <2>8. ASSUME NEW p \in Products \ lost
        PROVE  wished'[p] - wished[p] + In(op'[r], "inc", p) - In(op[r], "inc", p)
                 = IsWish(rows', k, p) - IsWish(rows, k, p) + In(op'[r], "dec", p) - In(op[r], "dec", p)
    <3>1. wished[p] \in Int /\ wished'[p] = wished[p]
      BY <1>1 DEF WishInv
    <3>2. /\ In(op'[r], "inc", p) = 0 /\ In(op[r], "inc", p) = 0 /\ In(op[r], "dec", p) = 0
          /\ IsWish(rows', k, p) = 0
      BY <1>1, <2>6, <2>7 DEF In, IsWish
    <3>3. IsWish(rows, k, p) = In(op'[r], "dec", p)
      BY <1>1, <1>3, <2>6 DEF In, IsWish
    <3> QED
      BY <3>1, <3>2, <3>3, Bits
  <2>9. Plain(op'[r]) /\ wished' \in [Products -> Int]
    BY <1>1, <2>6 DEF Plain, WishInv
  <2> QED
    BY <1>1, <1>2, <2>6, <2>8, <2>9, WishStep
<1>4. CASE k.coll # "wishes"
  <2>1. PICK n : n = New(IF k.coll = "follows" THEN "unfollow" ELSE "unrate", k)
    OBVIOUS
  <2>2. n \in TypedOperation /\ n.id = k /\ n.alone = {}
    <3>1. Idle \in TypedOperation /\ Idle.alone = {}
      BY IdleTyped
    <3> QED
      BY <2>1, <3>1 DEF New, TypedOperation, Kinds
  <2>3. PICK o : o = Recount(n)
    OBVIOUS
  <2>4. o \in TypedOperation /\ o.id = k
    BY <2>2, <2>3, Recounts
  <2>5. Begin(r, o) /\ o.at = "count"
    BY <1>4, <2>1, <2>2, <2>3 DEF Withdraw, Recount, Stage, TypedOperation
  <2>6. /\ op'[r].at = "count" /\ op'[r].id = k
        /\ \A s \in Procs \ {r} : op'[s].at = op[s].at /\ op'[s].id = op[s].id
    BY <2>4, <2>5, BeginsAlone
  <2>7. Plain(op'[r]) /\ op'[r].at \notin {"inc", "dec"}
    BY <2>6 DEF Plain
  <2> QED
    BY <1>1, <1>2, <1>4, <2>6, <2>7, WishesAlone
<1> QED
  BY <1>3, <1>4

\* One slot moves, the others stay.
LEMMA SlotAlone ==
  ASSUME Inv, NEW r \in Procs, NEW o, Go(r, o)
  PROVE  /\ op'[r] = o
         /\ \A s \in Procs \ {r} :
              op'[s].at = op[s].at /\ op'[s].id = op[s].id /\ op'[s].found = op[s].found
BY DEF Inv, Typed, Go

LEMMA CreateRowBalances ==
  ASSUME Inv, WishInv, NEW r \in Procs, CreateRow(r)
  PROVE  WishInv'
<1> DEFINE k == op[r].id
<1>1. op[r].at = "create" /\ wished' = wished /\ lost' = lost
  BY DEF CreateRow, At
<1>2. op[r] \in TypedOperation /\ k \in RowIds
  BY <1>1, Before
<1>3. lost' \subseteq Products
  BY <1>1 DEF WishInv
<1>4. CASE rows[k].here
  <2>1. Go(r, Idle) /\ rows' = rows
    BY <1>4 DEF CreateRow, Done
  <2>2. op'[r].at = "idle" /\ \A s \in Procs \ {r} : op'[s].at = op[s].at /\ op'[s].id = op[s].id
    BY <2>1, SlotAlone DEF Idle
  <2>3. Plain(op'[r])
    BY <2>2 DEF Plain
  <2> QED
    BY <1>1, <1>2, <1>3, <2>1, <2>2, <2>3, WishesAlone
<1>5. CASE ~rows[k].here
  <2>1. rows' = [rows EXCEPT ![k] = Fresh(op[r].score)]
    BY <1>5 DEF CreateRow
  <2>2. \A j \in RowIds \ {k} : rows'[j] = rows[j]
    BY <2>1 DEF Inv, Typed
  <2>3. rows'[k].here
    BY <2>1, <1>2 DEF Inv, Typed, Fresh
  <2>4. CASE k.coll = "wishes"
    <3>1. PICK o : o = [op[r] EXCEPT !.at = "inc"]
      OBVIOUS
    <3>2. Go(r, o)
      BY <1>5, <2>4, <3>1 DEF CreateRow
    <3>3. o.at = "inc" /\ o.id = k
      BY <3>1, <1>2 DEF TypedOperation
    <3>4. op'[r].at = "inc" /\ op'[r].id = k
          /\ \A s \in Procs \ {r} : op'[s].at = op[s].at /\ op'[s].id = op[s].id
      BY <3>2, <3>3, SlotAlone
    <3>5. ASSUME NEW p \in Products \ lost
          PROVE  wished'[p] - wished[p] + In(op'[r], "inc", p) - In(op[r], "inc", p)
                   = IsWish(rows', k, p) - IsWish(rows, k, p) + In(op'[r], "dec", p) - In(op[r], "dec", p)
      <4>1. wished[p] \in Int /\ wished'[p] = wished[p]
        BY <1>1 DEF WishInv
      <4>2. /\ In(op'[r], "dec", p) = 0 /\ In(op[r], "inc", p) = 0 /\ In(op[r], "dec", p) = 0
            /\ IsWish(rows, k, p) = 0
        BY <1>1, <1>5, <3>4 DEF In, IsWish
      <4>3. IsWish(rows', k, p) = In(op'[r], "inc", p)
        BY <2>3, <2>4, <3>4 DEF In, IsWish
      <4> QED
        BY <4>1, <4>2, <4>3, Bits
    <3>6. Plain(op'[r]) /\ wished' \in [Products -> Int]
      BY <1>1, <3>4 DEF Plain, WishInv
    <3> QED
      BY <1>1, <1>2, <2>2, <3>4, <3>5, <3>6, WishStep
  <2>5. CASE k.coll # "wishes"
    <3>1. PICK o : o = Recount(op[r])
      OBVIOUS
    <3>2. Go(r, o) /\ o.at = "count"
      BY <1>2, <1>5, <2>5, <3>1 DEF CreateRow, Recount, Stage, TypedOperation
    <3>3. op'[r].at = "count" /\ \A s \in Procs \ {r} : op'[s].at = op[s].at /\ op'[s].id = op[s].id
      BY <3>2, SlotAlone
    <3>4. Plain(op'[r])
      BY <3>3 DEF Plain
    <3> QED
      BY <1>1, <1>2, <1>3, <2>2, <2>5, <3>3, <3>4, WishesAlone
  <2> QED
    BY <2>4, <2>5
<1> QED
  BY <1>4, <1>5

LEMMA RemoveRowBalances ==
  ASSUME Inv, WishInv, NEW r \in Procs, RemoveRow(r)
  PROVE  WishInv'
<1>1. op[r].at = "remove" /\ wished' = wished /\ lost' = lost
  BY DEF RemoveRow, At
<1>2. op[r] \in TypedOperation /\ op[r].id \in RowIds
  BY <1>1, Before
<1>3. op[r].id.coll # "wishes" /\ lost' \subseteq Products
  BY <1>1 DEF WishInv, Plain
<1>4. op'[r] = Recount(op[r])
  BY DEF RemoveRow
<1>5. op'[r].at = "count"
  BY <1>2, <1>4 DEF Recount, Stage, TypedOperation
<1>6. ASSUME NEW s \in Procs \ {r} PROVE op'[s].at = op[s].at /\ op'[s].id = op[s].id
  <2>1. op[s] \in TypedOperation
    BY DEF Inv, Typed
  <2>2. op'[s] = op[s] \/ op'[s] = [op[s] EXCEPT !.found = FALSE]
    BY DEF RemoveRow, Forget
  <2> QED
    BY <2>1, <2>2 DEF TypedOperation
<1>7. \A j \in RowIds \ {op[r].id} : rows'[j] = rows[j]
  BY <1>2 DEF RemoveRow, Inv, Typed
<1>8. Plain(op'[r]) /\ op'[r].at \notin {"inc", "dec"}
  BY <1>5 DEF Plain
<1> QED
  BY <1>1, <1>2, <1>3, <1>6, <1>7, <1>8, WishesAlone

LEMMA SaveReviewBalances ==
  ASSUME Inv, WishInv, NEW r \in Procs, SaveReview(r)
  PROVE  WishInv'
<1>1. op[r].at = "save" /\ wished' = wished /\ lost' = lost
  BY DEF SaveReview, At
<1>2. op[r] \in TypedOperation /\ op[r].id \in RowIds
  BY <1>1, Before
<1>3. op[r].id.coll # "wishes" /\ lost' \subseteq Products
  BY <1>1 DEF WishInv, Plain
<1>4. PICK o : o \in {Idle, Recount(op[r])} /\ Go(r, o)
  BY DEF SaveReview, Done
<1>5. o.at \in {"idle", "count"}
  <2>1. Idle.at = "idle"
    BY DEF Idle
  <2>2. Recount(op[r]).at = "count"
    BY <1>2 DEF Recount, Stage, TypedOperation
  <2> QED
    BY <1>4, <2>1, <2>2
<1>6. op'[r].at \in {"idle", "count"}
      /\ \A s \in Procs \ {r} : op'[s].at = op[s].at /\ op'[s].id = op[s].id
  BY <1>4, <1>5, SlotAlone
<1>7. \A j \in RowIds \ {op[r].id} : rows'[j] = rows[j]
  BY <1>2 DEF SaveReview, Revised, Inv, Typed
<1>8. Plain(op'[r]) /\ op'[r].at \notin {"inc", "dec"}
  BY <1>6 DEF Plain
<1> QED
  BY <1>1, <1>2, <1>3, <1>6, <1>7, <1>8, WishesAlone

\* A request counts or writes a number, and what it does next.
LEMMA CountGoes ==
  ASSUME Inv, NEW r \in Procs, NEW f \in Numbers, Count(r, f) \/ Write(r, f)
  PROVE  \E o : Go(r, o) /\ o.at \in {"idle", "count", "write"}
<1>1. op[r].at \in {"count", "write"}
  BY DEF Count, Write, At
<1>2. op[r] \in TypedOperation /\ op[r].id \in RowIds
  BY <1>1 DEF Inv, Typed, Sound, Busy
<1>3. CASE Count(r, f)
  <2>1. PICK o : /\ Go(r, o)
                 /\ o = [op[r] EXCEPT !.taken[f] = Truth(rows, f),
                        !.left = IF op[r].left \ {f} = {} THEN op[r].now ELSE op[r].left \ {f},
                        !.at = IF op[r].left \ {f} = {} THEN "write" ELSE "count"]
    BY <1>3 DEF Count
  <2>2. o.at \in {"write", "count"}
    BY <1>2, <2>1 DEF TypedOperation
  <2> QED
    BY <2>1, <2>2
<1>4. CASE Write(r, f)
  <2>1. PICK n, o : /\ Go(r, o)
                    /\ n = [op[r] EXCEPT !.left = op[r].left \ {f}, !.taken[f] = Empty]
                    /\ o \in {n, Stage(n, n.later, {}), Idle}
    BY <1>4 DEF Write
  <2>2. PICK taken : n = [op[r] EXCEPT !.left = op[r].left \ {f}, !.taken = taken]
    BY <2>1
  <2>3. /\ n.at = "write"
        /\ n \in [kind : Kinds \cup {"none"}, at : Steps, id : RowIds \cup {Nothing}, found : BOOLEAN,
                  score : Scores \cup {0}, now : SUBSET Numbers, left : SUBSET Numbers,
                  later : SUBSET Numbers, taken : {taken}, alone : SUBSET Numbers]
    BY <1>1, <1>2, <1>4, <2>2 DEF TypedOperation, Write, At
  <2>4. Stage(n, n.later, {}).at = "count"
    BY <2>3 DEF Stage
  <2>5. Idle.at = "idle"
    BY DEF Idle
  <2>6. o.at \in {"idle", "count", "write"}
    BY <2>1, <2>3, <2>4, <2>5
  <2>7. Go(r, o)
    BY <2>1
  <2> QED
    BY <2>6, <2>7
<1> QED
  BY <1>3, <1>4

LEMMA CountBalances ==
  ASSUME Inv, WishInv, NEW r \in Procs, NEW f \in Numbers, Count(r, f) \/ Write(r, f)
  PROVE  WishInv'
<1>1. /\ op[r].at \in {"count", "write"} /\ wished' = wished /\ lost' = lost /\ rows' = rows
  BY DEF Count, Write, At
<1>2. op[r] \in TypedOperation /\ op[r].id \in RowIds
  BY <1>1 DEF Inv, Typed, Sound, Busy
<1>3. PICK o : Go(r, o) /\ o.at \in {"idle", "count", "write"}
  BY CountGoes
<1>4. op'[r].at \in {"idle", "count", "write"}
      /\ \A s \in Procs \ {r} : op'[s].at = op[s].at /\ op'[s].id = op[s].id
  BY <1>3, SlotAlone
<1>5. Plain(op'[r]) /\ op'[r].at \notin {"inc", "dec"} /\ lost' \subseteq Products
  BY <1>1, <1>4 DEF Plain, WishInv
<1> QED
  BY <1>1, <1>2, <1>4, <1>5, WishesAlone

LEMMA CountWishBalances ==
  ASSUME Inv, WishInv, NEW r \in Procs, CountWish(r)
  PROVE  WishInv'
<1> DEFINE k == op[r].id
<1>1. op[r].at \in {"inc", "dec"} /\ rows' = rows /\ lost' = lost /\ Go(r, Idle)
  BY DEF CountWish, Done
<1>2. op[r] \in TypedOperation /\ k \in RowIds /\ k.coll = "wishes"
  BY <1>1, Before DEF Sound
<1>3. k.of \in Products
  BY <1>2 DEF RowIds
<1>4. op'[r].at = "idle" /\ \A s \in Procs \ {r} : op'[s].at = op[s].at /\ op'[s].id = op[s].id
  BY <1>1, SlotAlone DEF Idle
<1>5. PICK d \in {1, -1} : /\ d = (IF op[r].at = "inc" THEN 1 ELSE -1)
                           /\ wished' = [wished EXCEPT ![k.of] = @ + d]
  BY DEF CountWish, At
<1>6. wished' \in [Products -> Int]
      /\ \A p \in Products : wished'[p] = wished[p] + (IF p = k.of THEN d ELSE 0)
  BY <1>3, <1>5 DEF WishInv
<1>7. ASSUME NEW p \in Products \ lost
      PROVE  wished'[p] - wished[p] + In(op'[r], "inc", p) - In(op[r], "inc", p)
               = IsWish(rows', k, p) - IsWish(rows, k, p) + In(op'[r], "dec", p) - In(op[r], "dec", p)
  <2>1. wished[p] \in Int /\ IsWish(rows', k, p) = IsWish(rows, k, p)
    BY <1>1 DEF WishInv
  <2>2. In(op'[r], "inc", p) = 0 /\ In(op'[r], "dec", p) = 0
    BY <1>4 DEF In
  <2>3. wished'[p] - wished[p] = In(op[r], "inc", p) - In(op[r], "dec", p)
    <3>1. CASE p = k.of /\ op[r].at = "inc"
      BY <1>5, <1>6, <2>1, <3>1 DEF In
    <3>2. CASE p = k.of /\ op[r].at = "dec"
      BY <1>5, <1>6, <2>1, <3>2 DEF In
    <3>3. CASE p # k.of
      BY <1>6, <2>1, <3>3 DEF In
    <3> QED
      BY <1>1, <3>1, <3>2, <3>3
  <2>4. wished'[p] \in Int
    BY <1>6
  <2> QED
    BY <2>1, <2>2, <2>3, <2>4, Bits
<1>8. Plain(op'[r])
  BY <1>4 DEF Plain
<1>9. \A j \in RowIds \ {k} : rows'[j] = rows[j]
  BY <1>1
<1> QED
  BY <1>1, <1>2, <1>4, <1>6, <1>7, <1>8, <1>9, WishStep

LEMMA CrashBalances ==
  ASSUME Inv, WishInv, NEW r \in Procs, Crash(r)
  PROVE  WishInv'
<1>1. op[r] \in TypedOperation /\ op[r].id \in RowIds /\ Sound(op[r])
  BY DEF Inv, Typed, Sound, Crash
<1>2. rows' = rows /\ wished' = wished /\ Go(r, Idle)
  BY DEF Crash, Done
<1>3. op'[r].at = "idle" /\ \A s \in Procs \ {r} : op'[s].at = op[s].at /\ op'[s].id = op[s].id
  BY <1>2, SlotAlone DEF Idle
<1>4. lost' = IF op[r].at \in {"inc", "dec"} THEN lost \cup {op[r].id.of} ELSE lost
  BY DEF Crash
<1>5. op[r].at \in {"inc", "dec"} => op[r].id.of \in Products
  BY <1>1 DEF Sound, RowIds
<1>6. lost \subseteq lost' /\ lost' \subseteq Products /\ (op[r].at \in {"inc", "dec"} => op[r].id.of \in lost')
  BY <1>4, <1>5 DEF WishInv
<1>7. Plain(op'[r]) /\ op'[r].at \notin {"inc", "dec"}
  BY <1>3 DEF Plain
<1> QED
  BY <1>1, <1>2, <1>3, <1>6, <1>7, WishesAlone

LEMMA WishesInit == Init => WishInv
<1> SUFFICES ASSUME Init PROVE WishInv
  OBVIOUS
<1>1. /\ wished = [p \in Products |-> 0] /\ lost = {} /\ op = [r \in Procs |-> Idle]
      /\ rows = [k \in RowIds |-> Absent]
  BY DEF Init
<1>2. \A r \in Procs : Plain(op[r])
  BY <1>1 DEF Plain, Idle
<1>3. ASSUME NEW p \in Products PROVE Balanced(wished, op, rows, p)
  <2>1. Wishes(rows, p) = {}
    BY <1>1 DEF Wishes, Absent
  <2>2. Slots(op, "inc", p) = {} /\ Slots(op, "dec", p) = {}
    BY <1>1 DEF Slots, Idle
  <2>3. wished[p] = 0
    BY <1>1
  <2> QED
    BY <2>1, <2>2, <2>3, FS_EmptySet DEF Balanced
<1> QED
  BY <1>1, <1>2, <1>3 DEF WishInv

\* What is shown of the wishes, counting the requests on their way to $inc.
THEOREM WishesBalance == Spec => []WishInv
<1>1. Inv /\ WishInv /\ [Next]_vars => WishInv'
  <2> SUFFICES ASSUME Inv, WishInv, [Next]_vars PROVE WishInv'
    OBVIOUS
  <2>1. ASSUME NEW r \in Procs, NEW k \in RowIds, NEW score \in Scores,
               Lookup(r, k, score) \/ Rate(r, k, score)
        PROVE  WishInv'
    BY <2>1, LookupBalances, RateBalances
  <2>2. ASSUME NEW r \in Procs, NEW k \in RowIds, Withdraw(r, k) PROVE WishInv'
    BY <2>2, WithdrawBalances
  <2>3. ASSUME NEW r \in Procs, NEW f \in Numbers, Count(r, f) \/ Write(r, f) PROVE WishInv'
    BY <2>3, CountBalances
  <2>4. ASSUME NEW r \in Procs, CreateRow(r) \/ RemoveRow(r) \/ SaveReview(r) \/ CountWish(r) \/ Crash(r)
        PROVE  WishInv'
    BY <2>4, CreateRowBalances, RemoveRowBalances, SaveReviewBalances, CountWishBalances, CrashBalances
  <2>5. CASE AtRest \/ UNCHANGED vars
    BY <2>5 DEF AtRest, vars, WishInv
  <2>6. ASSUME NEW r \in Procs, Request(r) PROVE WishInv'
    BY <2>1, <2>2, <2>6 DEF Request
  <2>7. ASSUME NEW r \in Procs, Step(r) \/ Crash(r) PROVE WishInv'
    BY <2>3, <2>4, <2>7 DEF Step
  <2> QED
    BY <2>5, <2>6, <2>7 DEF Next
<1> QED
  BY <1>1, WishesInit, Recounting, PTL DEF Spec

\* wishlistCount is the number of wishes when nobody is at work on the product's
\* wishes and no request broke off between the row and the $inc (addToWishlist,
\* removeFromWishlist).
THEOREM WishesRight == Spec => []WishesCounted
<1>1. WishInv => WishesCounted
  <2> SUFFICES ASSUME WishInv, NEW p \in Products \ lost, \A r \in Procs : Busy(op[r]) => op[r].id.of # p
               PROVE  wished[p] = Cardinality({k \in RowIds : k.coll = "wishes" /\ k.of = p /\ rows[k].here})
    BY DEF WishesCounted
  <2>1. Balanced(wished, op, rows, p) /\ wished[p] \in Int
    BY DEF WishInv
  <2>2. Slots(op, "inc", p) = {} /\ Slots(op, "dec", p) = {}
    BY DEF Slots, Busy
  <2>3. Cardinality({}) = 0 /\ Cardinality(Wishes(rows, p)) \in Nat
    BY <2>1, FS_EmptySet, FS_CardinalityType DEF Balanced
  <2>4. wished[p] = Cardinality(Wishes(rows, p))
    BY <2>1, <2>2, <2>3 DEF Balanced
  <2> QED
    BY <2>4 DEF Wishes
<1> QED
  BY <1>1, WishesBalance, PTL

-----------------------------------------------------------------------------
\* Types.

\* A quotient of naturals is a natural.
LEMMA Quotient == \A a \in Nat, b \in Nat \ {0} : a \div b \in Nat
OBVIOUS

LEMMA SummaryType ==
  ASSUME NEW S, IsFiniteSet(S), NEW g \in [S -> Nat]
  PROVE  Summary(g) \in [n : Nat, mean : Nat]
<1>1. Cardinality(S) \in Nat /\ DOMAIN g = S
  BY FS_CardinalityType
<1>2. SumFunction(g) \in Nat
  BY <1>1, SumNat DEF SumFunction
<1>3. PICK n, t \in Nat : n = Cardinality(DOMAIN g) /\ t = SumFunction(g)
  BY <1>1, <1>2
<1>4. PICK mean : mean = (IF n = 0 THEN 0 ELSE (20 * t + n) \div (2 * n))
  OBVIOUS
<1>5. mean \in Nat
  <2>1. CASE n = 0
    BY <1>4, <2>1
  <2>2. CASE n # 0
    <3>1. 20 * t + n \in Nat /\ 2 * n \in Nat \ {0}
      BY <2>2
    <3> QED
      BY <1>4, <2>2, <3>1, Quotient
  <2> QED
    BY <2>1, <2>2
<1>6. Summary(g) = [n |-> n, mean |-> mean]
  BY <1>3, <1>4 DEF Summary
<1> QED
  BY <1>3, <1>5, <1>6

LEMMA RowIdsFinite == IsFiniteSet(RowIds)
<1> DEFINE A == {"follows", "likes", "ratings"} \X (Users \X Users)
           B == {"reviews", "wishes"} \X (Users \X Products)
           Name(x) == [coll |-> x[1], who |-> x[2][1], of |-> x[2][2]]
           names == [x \in A \cup B |-> Name(x)]
<1>1. IsFiniteSet({"follows", "likes", "ratings"}) /\ IsFiniteSet({"reviews", "wishes"})
  <2>1. IsFiniteSet({})
    BY FS_EmptySet
  <2>2. IsFiniteSet({} \cup {"follows"}) /\ IsFiniteSet({} \cup {"reviews"})
    BY <2>1, FS_AddElement
  <2>3. IsFiniteSet(({} \cup {"follows"}) \cup {"likes"}) /\ IsFiniteSet(({} \cup {"reviews"}) \cup {"wishes"})
    BY <2>2, FS_AddElement
  <2>4. IsFiniteSet((({} \cup {"follows"}) \cup {"likes"}) \cup {"ratings"})
    BY <2>3, FS_AddElement
  <2>5. /\ (({} \cup {"follows"}) \cup {"likes"}) \cup {"ratings"} = {"follows", "likes", "ratings"}
        /\ ({} \cup {"reviews"}) \cup {"wishes"} = {"reviews", "wishes"}
    OBVIOUS
  <2> QED
    BY <2>3, <2>4, <2>5
<1>2. IsFiniteSet(Users \X Users) /\ IsFiniteSet(Users \X Products)
  BY CountsAssumption, FS_Product
<1>3. IsFiniteSet(A) /\ IsFiniteSet(B)
  BY <1>1, <1>2, FS_Product
<1>4. IsFiniteSet(A \cup B)
  BY <1>3, FS_Union
<1>5. names \in Surjection(A \cup B, RowIds)
  <2>1. \A x \in A \cup B : Name(x) \in RowIds
    BY DEF RowIds
  <2>2. ASSUME NEW k \in RowIds PROVE \E x \in A \cup B : Name(x) = k
    <3>1. PICK x : x = <<k.coll, <<k.who, k.of>> >>
      OBVIOUS
    <3>2. x \in A \cup B
      BY <3>1 DEF RowIds
    <3>3. Name(x) = k
      BY <3>1 DEF RowIds
    <3> QED
      BY <3>2, <3>3
  <2> HIDE DEF A, B, Name
  <2> QED
    BY <2>1, <2>2 DEF Surjection
<1> HIDE DEF A, B, names
<1> QED
  BY <1>4, <1>5, FS_Surjection

LEMMA ReadingsNatural == Readings \subseteq [n : Nat, mean : Nat]
<1>1. Empty \in [n : Nat, mean : Nat]
  BY DEF Empty
<1>2. ASSUME NEW R \in [RowIds -> AnyRow], NEW f \in Numbers
      PROVE  Truth(R, f) \in [n : Nat, mean : Nat]
  <2>1. PICK S : S = Counted(R, f)
    OBVIOUS
  <2>2. S \subseteq RowIds
    BY <2>1 DEF Counted
  <2>3. IsFiniteSet(S)
    BY <2>2, RowIdsFinite, FS_Subset
  <2>4. ASSUME NEW k \in S PROVE R[k].score \in Nat
    <3>1. R[k] \in AnyRow
      BY <2>2
    <3>2. Scores \cup {0} \subseteq Nat
      BY CountsAssumption
    <3> QED
      BY <3>1, <3>2 DEF AnyRow
  <2>5. PICK g : g = [k \in S |-> R[k].score]
    OBVIOUS
  <2>6. g \in [S -> Nat]
    BY <2>4, <2>5
  <2>7. Truth(R, f) = Summary(g)
    BY <2>1, <2>5 DEF Truth
  <2> QED
    BY <2>3, <2>6, <2>7, SummaryType
<1> QED
  BY <1>1, <1>2 DEF Readings

\* A row is complete or not there, and a review that is saved is there: whoever
\* deletes it takes it from those who have looked it up.
Rows ==
  /\ rows \in [RowIds -> Row]
  /\ \A r \in Procs : op[r].at = "save" => op[r].id.coll = "reviews"
                                            /\ (op[r].found => rows[op[r].id].here)

\* The rows after a step, when no request has just looked up a review to save it.
LEMMA RowsKept ==
  ASSUME Inv, Rows, NEW r \in Procs, rows' \in [RowIds -> Row], op'[r].at # "save",
         \A s \in Procs \ {r} : /\ op'[s].at = op[s].at /\ op'[s].id = op[s].id
                                /\ op'[s].found => op[s].found,
         \A s \in Procs \ {r} : op'[s].at = "save" /\ op'[s].found /\ rows[op[s].id].here
                                  => rows'[op[s].id].here
  PROVE  Rows'
<1>1. ASSUME NEW s \in Procs, op'[s].at = "save"
      PROVE  op'[s].id.coll = "reviews" /\ (op'[s].found => rows'[op'[s].id].here)
  <2>1. s \in Procs \ {r}
    BY <1>1
  <2> QED
    BY <1>1, <2>1 DEF Rows
<1> QED
  BY <1>1 DEF Rows

LEMMA RowKinds ==
  /\ Absent \in Row
  /\ \A score \in Scores \cup {0} : Fresh(score) \in Row /\ Fresh(score).here
  /\ \A row \in Row : row.here => /\ [row EXCEPT !.hidden = TRUE] \in Row
                                    /\ [row EXCEPT !.hidden = TRUE].here
                                    /\ \A score \in Scores \cup {0} :
                                         /\ [row EXCEPT !.score = score] \in Row
                                         /\ [row EXCEPT !.score = score].here
<1>1. /\ Absent \in Row
      /\ \A score \in Scores \cup {0} : Fresh(score) \in Row /\ Fresh(score).here
  BY DEF Absent, Row, Fresh
<1>2. ASSUME NEW row \in Row, row.here, NEW score \in Scores \cup {0}
      PROVE  /\ [row EXCEPT !.hidden = TRUE] \in Row /\ [row EXCEPT !.hidden = TRUE].here
             /\ [row EXCEPT !.score = score] \in Row /\ [row EXCEPT !.score = score].here
  <2>1. row \in [here : {TRUE}, score : Scores \cup {0}, hidden : BOOLEAN]
    <3>1. ~Absent.here
      BY DEF Absent
    <3>2. row # Absent
      BY <1>2, <3>1
    <3> QED
      BY <3>2 DEF Row
  <2> QED
    BY <2>1 DEF Row
<1> QED
  BY <1>1, <1>2

LEMMA RowsInit == Init => Rows
<1> SUFFICES ASSUME Init PROVE Rows
  OBVIOUS
<1>1. rows = [k \in RowIds |-> Absent] /\ op = [r \in Procs |-> Idle]
  BY DEF Init
<1>2. rows \in [RowIds -> Row]
  BY <1>1, RowKinds
<1>3. \A r \in Procs : op[r].at # "save"
  BY <1>1 DEF Idle
<1> QED
  BY <1>2, <1>3 DEF Rows

LEMMA LookupRows ==
  ASSUME Inv, Rows, NEW r \in Procs, NEW k \in RowIds, NEW score \in Scores, Lookup(r, k, score)
  PROVE  Rows'
<1>1. PICK kind \in Kinds, at \in {"create", "remove", "save"}, found \in BOOLEAN, c \in Scores \cup {0} :
        /\ Begin(r, Opening(kind, k, at, found, c))
        /\ at = "save" => k.coll = "reviews" /\ rows[k].here
  <2>1. rows[k].here \in BOOLEAN
    BY DEF Inv, Typed, AnyRow, Absent
  <2>2. (IF score = rows[k].score THEN 0 ELSE score) \in Scores \cup {0}
    OBVIOUS
  <2>3. {"follow", "like", "review", "editReview", "dropReview", "hideReview", "wish"} \subseteq Kinds
    BY DEF Kinds
  <2> QED
    BY <2>1, <2>2, <2>3 DEF Lookup, Free
<1>2. PICK a \in {"create", "remove", "save", "dec"} : a = at
  OBVIOUS
<1>3. PICK o : o = Opening(kind, k, a, found, c)
  OBVIOUS
<1>4. o \in TypedOperation /\ o.id = k /\ o.at = at
  BY <1>2, <1>3, Openings
<1>5. Begin(r, o)
  BY <1>1, <1>2, <1>3
<1>6. /\ op'[r].at = at /\ op'[r].id = k
      /\ \A s \in Procs \ {r} :
           op'[s].at = op[s].at /\ op'[s].id = op[s].id /\ op'[s].found = op[s].found
  BY <1>4, <1>5, BeginsAlone
<1>7. rows' = rows
  BY DEF Lookup
<1>8. ASSUME NEW s \in Procs, op'[s].at = "save"
      PROVE  op'[s].id.coll = "reviews" /\ (op'[s].found => rows'[op'[s].id].here)
  <2>1. CASE s = r
    BY <1>1, <1>6, <1>7, <1>8, <2>1
  <2>2. CASE s # r
    BY <1>6, <1>7, <1>8, <2>2 DEF Rows
  <2> QED
    BY <2>1, <2>2
<1> QED
  BY <1>7, <1>8 DEF Rows

LEMMA RateRows ==
  ASSUME Inv, Rows, NEW r \in Procs, NEW k \in RowIds, NEW score \in Scores, Rate(r, k, score)
  PROVE  Rows'
<1>1. PICK n : n = New("rate", k)
  OBVIOUS
<1>2. n \in TypedOperation /\ n.id = k /\ n.alone = {}
  <2>1. Idle \in TypedOperation /\ Idle.alone = {}
    BY IdleTyped
  <2> QED
    BY <1>1, <2>1 DEF New, TypedOperation, Kinds
<1>3. PICK o : o = Recount(n)
  OBVIOUS
<1>4. o \in TypedOperation /\ o.id = k
  BY <1>2, <1>3, Recounts
<1>5. Begin(r, o) /\ o.at = "count"
  BY <1>1, <1>2, <1>3 DEF Rate, Recount, Stage, TypedOperation
<1>6. /\ op'[r].at = "count"
      /\ \A s \in Procs \ {r} :
           op'[s].at = op[s].at /\ op'[s].id = op[s].id /\ op'[s].found = op[s].found
  BY <1>4, <1>5, BeginsAlone
<1>7. rows' = [rows EXCEPT ![k] = Fresh(score)] /\ Fresh(score) \in Row /\ Fresh(score).here
  BY RowKinds DEF Rate
<1>8. rows' \in [RowIds -> Row] /\ \A j \in RowIds : rows[j].here => rows'[j].here
  BY <1>7 DEF Rows
<1>9. \A s \in Procs : op[s].at = "save" => op[s].id \in RowIds
  BY DEF Inv, Typed, Sound, Busy
<1> QED
  BY <1>6, <1>8, <1>9, RowsKept

LEMMA WithdrawRows ==
  ASSUME Inv, Rows, NEW r \in Procs, NEW k \in RowIds, Withdraw(r, k)
  PROVE  Rows'
<1>1. PICK n : n = New(IF k.coll = "follows" THEN "unfollow" ELSE "unrate", k)
  OBVIOUS
<1>2. n \in TypedOperation /\ n.id = k /\ n.alone = {}
  <2>1. Idle \in TypedOperation /\ Idle.alone = {}
    BY IdleTyped
  <2> QED
    BY <1>1, <2>1 DEF New, TypedOperation, Kinds
<1>3. PICK kind \in Kinds, at \in {"create", "remove", "save", "dec"}, found \in BOOLEAN,
           score \in Scores \cup {0} :
        kind = "unwish" /\ at = "dec" /\ found = FALSE /\ score = 0
  BY DEF Kinds
<1>4. PICK o : o = IF k.coll = "wishes" THEN Opening(kind, k, at, found, score) ELSE Recount(n)
  OBVIOUS
<1>5. o \in TypedOperation /\ o.at # "save"
  <2>1. CASE k.coll = "wishes"
    <3>1. at = "dec" => k.coll = "wishes"
      BY <2>1
    <3>2. o = Opening(kind, k, at, found, score)
      BY <1>4, <2>1
    <3>3. o \in TypedOperation /\ o.at = at
      BY <3>1, <3>2, Openings
    <3> QED
      BY <1>3, <3>3
  <2>2. CASE k.coll # "wishes"
    <3>1. o = Recount(n)
      BY <1>4, <2>2
    <3>2. o \in TypedOperation
      BY <1>2, <3>1, Recounts
    <3>3. o.at = "count"
      BY <1>2, <3>1 DEF Recount, Stage, TypedOperation
    <3> QED
      BY <3>2, <3>3
  <2> QED
    BY <2>1, <2>2
<1>6. Begin(r, o)
  BY <1>1, <1>3, <1>4 DEF Withdraw
<1>7. /\ op'[r].at # "save"
      /\ \A s \in Procs \ {r} :
           op'[s].at = op[s].at /\ op'[s].id = op[s].id /\ op'[s].found = op[s].found
  BY <1>5, <1>6, BeginsAlone
<1>8. k.coll # "reviews" /\ rows' = [rows EXCEPT ![k] = Absent]
  BY DEF Withdraw, Free
<1>9. rows' \in [RowIds -> Row]
  BY <1>8, RowKinds DEF Rows
<1>10. ASSUME NEW s \in Procs \ {r}, op'[s].at = "save", op'[s].found, rows[op[s].id].here
       PROVE  rows'[op[s].id].here
  <2>1. op[s].at = "save" /\ op[s].id.coll = "reviews"
    BY <1>7, <1>10 DEF Rows
  <2>2. op[s].id # k /\ op[s].id \in RowIds
    BY <1>8, <2>1 DEF Inv, Typed, Sound, Busy
  <2> QED
    BY <1>8, <1>10, <2>2 DEF Rows
<1> QED
  BY <1>7, <1>9, <1>10, RowsKept

LEMMA CreateRowRows ==
  ASSUME Inv, Rows, NEW r \in Procs, CreateRow(r)
  PROVE  Rows'
<1> DEFINE k == op[r].id
<1>1. op[r].at = "create"
  BY DEF CreateRow, At
<1>2. op[r] \in TypedOperation /\ k \in RowIds
  BY <1>1, Before
<1>3. Fresh(op[r].score) \in Row /\ Fresh(op[r].score).here
  BY <1>2, RowKinds DEF TypedOperation
<1>4. rows' \in [RowIds -> Row] /\ \A j \in RowIds : rows[j].here => rows'[j].here
  BY <1>3 DEF CreateRow, Rows
<1>5. PICK o : Go(r, o) /\ o \in {Idle, Recount(op[r]), [op[r] EXCEPT !.at = "inc"]}
  BY DEF CreateRow, Done
<1>6. o.at # "save"
  <2>1. Idle.at = "idle"
    BY DEF Idle
  <2>2. Recount(op[r]).at = "count"
    BY <1>2 DEF Recount, Stage, TypedOperation
  <2>3. [op[r] EXCEPT !.at = "inc"].at = "inc"
    BY <1>2 DEF TypedOperation
  <2> QED
    BY <1>5, <2>1, <2>2, <2>3
<1>7. /\ op'[r].at # "save"
      /\ \A s \in Procs \ {r} :
           op'[s].at = op[s].at /\ op'[s].id = op[s].id /\ op'[s].found = op[s].found
  BY <1>5, <1>6, SlotAlone
<1>8. \A s \in Procs : op[s].at = "save" => op[s].id \in RowIds
  BY DEF Inv, Typed, Sound, Busy
<1> QED
  BY <1>4, <1>7, <1>8, RowsKept

LEMMA RemoveRowRows ==
  ASSUME Inv, Rows, NEW r \in Procs, RemoveRow(r)
  PROVE  Rows'
<1>1. op[r].at = "remove"
  BY DEF RemoveRow, At
<1>2. op[r] \in TypedOperation /\ op[r].id \in RowIds
  BY <1>1, Before
<1>3. op'[r] = Recount(op[r])
  BY DEF RemoveRow
<1>4. op'[r].at = "count"
  BY <1>2, <1>3 DEF Recount, Stage, TypedOperation
<1>5. ASSUME NEW s \in Procs \ {r}
      PROVE  /\ op'[s].at = op[s].at /\ op'[s].id = op[s].id /\ (op'[s].found => op[s].found)
             /\ op'[s].found /\ op[r].found => op[s].id # op[r].id
  <2>1. op[s] \in TypedOperation
    BY DEF Inv, Typed
  <2>2. CASE op[r].found /\ op[s].id = op[r].id
    <3>1. op'[s] = [op[s] EXCEPT !.found = FALSE]
      BY <2>2 DEF RemoveRow, Forget
    <3> QED
      BY <2>1, <3>1 DEF TypedOperation
  <2>3. CASE ~(op[r].found /\ op[s].id = op[r].id)
    <3>1. op'[s] = op[s]
      BY <2>3 DEF RemoveRow, Forget
    <3> QED
      BY <2>3, <3>1
  <2> QED
    BY <2>2, <2>3
<1>6. rows' \in [RowIds -> Row]
  BY RowKinds DEF RemoveRow, Rows
<1>7. ASSUME NEW s \in Procs \ {r}, op'[s].at = "save", op'[s].found, rows[op[s].id].here
      PROVE  rows'[op[s].id].here
  <2>1. op[s].id \in RowIds
    BY <1>5, <1>7 DEF Inv, Typed, Sound, Busy
  <2>2. CASE op[r].found
    <3>1. op[s].id # op[r].id
      BY <1>5, <1>7, <2>2
    <3> QED
      BY <1>7, <2>1, <2>2, <3>1 DEF RemoveRow, Rows
  <2>3. CASE ~op[r].found
    BY <1>7, <2>3 DEF RemoveRow
  <2> QED
    BY <2>2, <2>3
<1>8. op'[r].at # "save"
  BY <1>4
<1> QED
  BY <1>5, <1>6, <1>7, <1>8, RowsKept

LEMMA SaveReviewRows ==
  ASSUME Inv, Rows, NEW r \in Procs, SaveReview(r)
  PROVE  Rows'
<1> DEFINE k == op[r].id
<1>1. op[r].at = "save"
  BY DEF SaveReview, At
<1>2. op[r] \in TypedOperation /\ k \in RowIds
  BY <1>1, Before
<1>3. PICK o : o \in {Idle, Recount(op[r])} /\ Go(r, o)
  BY DEF SaveReview, Done
<1>4. o.at \in {"idle", "count"}
  <2>1. Idle.at = "idle"
    BY DEF Idle
  <2>2. Recount(op[r]).at = "count"
    BY <1>2 DEF Recount, Stage, TypedOperation
  <2> QED
    BY <1>3, <2>1, <2>2
<1>5. /\ op'[r].at # "save"
      /\ \A s \in Procs \ {r} :
           op'[s].at = op[s].at /\ op'[s].id = op[s].id /\ op'[s].found = op[s].found
  BY <1>3, <1>4, SlotAlone
<1>6. rows' \in [RowIds -> Row] /\ \A j \in RowIds : rows[j].here => rows'[j].here
  <2>1. CASE ~op[r].found
    BY <2>1 DEF SaveReview, Rows
  <2>2. CASE op[r].found
    <3>1. rows' = Revised(op[r]) /\ rows[k].here /\ rows[k] \in Row /\ op[r].score \in Scores \cup {0}
      BY <1>1, <1>2, <2>2 DEF SaveReview, Rows, TypedOperation
    <3>2. PICK row, other : /\ row = [rows[k] EXCEPT !.hidden = TRUE]
                            /\ other = [rows[k] EXCEPT !.score = op[r].score]
      OBVIOUS
    <3>3. row \in Row /\ row.here /\ other \in Row /\ other.here
      BY <3>1, <3>2, RowKinds
    <3>4. rows' \in {rows, [rows EXCEPT ![k] = row], [rows EXCEPT ![k] = other]}
      BY <3>1, <3>2 DEF Revised
    <3> QED
      BY <3>3, <3>4, <1>2 DEF Rows
  <2> QED
    BY <2>1, <2>2
<1>7. \A s \in Procs : op[s].at = "save" => op[s].id \in RowIds
  BY DEF Inv, Typed, Sound, Busy
<1> QED
  BY <1>5, <1>6, <1>7, RowsKept

\* A request goes on, or ends, without touching a row.
LEMMA OnwardRows ==
  ASSUME Inv, Rows, NEW r \in Procs, NEW o, Go(r, o), o.at # "save", rows' = rows
  PROVE  Rows'
<1>1. /\ op'[r].at # "save"
      /\ \A s \in Procs \ {r} :
           op'[s].at = op[s].at /\ op'[s].id = op[s].id /\ op'[s].found = op[s].found
  BY SlotAlone
<1>2. rows' \in [RowIds -> Row]
  BY DEF Rows
<1> QED
  BY <1>1, <1>2, RowsKept

\* Rows are complete or not there, and a review being saved is still there.
THEOREM RowsWhole == Spec => []Rows
<1>1. Inv /\ Rows /\ [Next]_vars => Rows'
  <2> SUFFICES ASSUME Inv, Rows, [Next]_vars PROVE Rows'
    OBVIOUS
  <2>1. ASSUME NEW r \in Procs, NEW k \in RowIds, NEW score \in Scores,
               Lookup(r, k, score) \/ Rate(r, k, score)
        PROVE  Rows'
    BY <2>1, LookupRows, RateRows
  <2>2. ASSUME NEW r \in Procs, NEW k \in RowIds, Withdraw(r, k) PROVE Rows'
    BY <2>2, WithdrawRows
  <2>3. ASSUME NEW r \in Procs, NEW f \in Numbers, Count(r, f) \/ Write(r, f) PROVE Rows'
    <3>1. PICK o : Go(r, o) /\ o.at \in {"idle", "count", "write"}
      BY <2>3, CountGoes
    <3>2. rows' = rows
      BY <2>3 DEF Count, Write
    <3> QED
      BY <3>1, <3>2, OnwardRows
  <2>4. ASSUME NEW r \in Procs, CreateRow(r) \/ RemoveRow(r) \/ SaveReview(r) PROVE Rows'
    BY <2>4, CreateRowRows, RemoveRowRows, SaveReviewRows
  <2>5. ASSUME NEW r \in Procs, CountWish(r) \/ Crash(r) PROVE Rows'
    <3>1. Go(r, Idle) /\ rows' = rows
      BY <2>5 DEF CountWish, Crash, Done
    <3>2. Idle.at # "save"
      BY DEF Idle
    <3> QED
      BY <3>1, <3>2, OnwardRows
  <2>6. CASE AtRest \/ UNCHANGED vars
    BY <2>6 DEF AtRest, vars, Rows
  <2>7. ASSUME NEW r \in Procs, Request(r) PROVE Rows'
    BY <2>1, <2>2, <2>7 DEF Request
  <2>8. ASSUME NEW r \in Procs, Step(r) \/ Crash(r) PROVE Rows'
    BY <2>3, <2>4, <2>5, <2>8 DEF Step
  <2> QED
    BY <2>6, <2>7, <2>8 DEF Next
<1> QED
  BY <1>1, RowsInit, Recounting, PTL DEF Spec

\* Values stay in their types, whatever races and crashes do; in particular
\* no recounted number or average is negative.
THEOREM CountsTyped == Spec => []TypeOK
<1>1. Init => scene \in Scenes
  BY DEF Init
<1>2. scene \in Scenes /\ [Next]_vars => (scene \in Scenes)'
  <2> SUFFICES ASSUME [Next]_vars PROVE scene' = scene
    OBVIOUS
  <2>1. ASSUME NEW r \in Procs, Request(r) PROVE scene' = scene
    BY <2>1 DEF Request, Lookup, Rate, Withdraw
  <2>2. ASSUME NEW r \in Procs, Step(r) \/ Crash(r) PROVE scene' = scene
    BY <2>2 DEF Step, CreateRow, RemoveRow, SaveReview, CountWish, Count, Write, Crash
  <2> QED
    BY <2>1, <2>2 DEF Next, AtRest, vars
<1>3. Spec => [](scene \in Scenes)
  BY <1>1, <1>2, PTL DEF Spec
<1>4. scene \in Scenes /\ Inv /\ WishInv /\ Rows => TypeOK
  <2> SUFFICES ASSUME scene \in Scenes, Inv, WishInv, Rows PROVE TypeOK
    OBVIOUS
  <2>1. [Numbers -> Readings] \subseteq [Numbers -> [n : Nat, mean : Nat]]
    BY ReadingsNatural
  <2>2. TypedOperation \subseteq Operation
    BY <2>1 DEF TypedOperation, Operation
  <2>3. /\ shown \in [Numbers -> [n : Nat, mean : Nat]] /\ op \in [Procs -> Operation]
        /\ disturbed \in SUBSET Numbers
    BY <2>1, <2>2 DEF Inv, Typed
  <2> QED
    BY <2>3 DEF TypeOK, WishInv, Rows
<1> QED
  BY <1>3, <1>4, Recounting, WishesBalance, RowsWhole, PTL
=================================================================================
