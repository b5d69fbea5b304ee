--------------------------- MODULE FeedContentProofs ---------------------------
(***************************************************************************)
(* TypeOK, MarksAccounted, TagsAccounted and CommentsAccounted for every   *)
(* number of users, requests, posts, reels, comments and hashtags.         *)
(*                                                                         *)
(* All three numbers are balanced in the same way while requests are in    *)
(* flight: the number shown, with what requests have still to add to it,   *)
(* is the number of its rows, with what requests have still to take from   *)
(* it, and what the accidents of its history have left behind.             *)
(***************************************************************************)
EXTENDS FeedContent, Sums

Total(f) == SumFunctionOnSet(f, Requests)

\* What the request o has still to add to a number, and to take from it.
MarkShort(o, w, t) == One(o.kind = w /\ o.target = t /\ o.at = "inc")
MarkOver(o, w, t)  == One(o.kind = w /\ o.target = t /\ o.at = "dec")
TagShort(o, h)     == One(Missing(o, h))
TagOver(o, h)      == One(Excess(o, h))
NoteShort(o, c)    == One(o.on = c /\ o.at \in {"count", "erase"})
NoteOver(o, c)     == IF o.on = c /\ o.at \in {"dropLikes", "uncount"} THEN o.n ELSE 0

MarksShort(w, t) == Total([r \in Requests |-> MarkShort(op[r], w, t)])
MarksOver(w, t)  == Total([r \in Requests |-> MarkOver(op[r], w, t)])
TagsShort(h)     == Total([r \in Requests |-> TagShort(op[r], h)])
TagsOver(h)      == Total([r \in Requests |-> TagOver(op[r], h)])
NotesShort(c)    == Total([r \in Requests |-> NoteShort(op[r], c)])
NotesOver(c)     == Total([r \in Requests |-> NoteOver(op[r], c)])

Carriers(h) == {c \in Contents : h \in contents[c].tags}

MarksBalanced ==
  \A w \in Marks, t \in Targets : Live(t) =>
    count[w][t] + MarksShort(w, t) = Cardinality(Marked(w, t)) + MarksOver(w, t) + drift[w][t]
TagsBalanced ==
  \A h \in Tags :
    tagCount[h] + TagsShort(h) = Cardinality(Carriers(h)) + TagsOver(h) + tagDrift[h]
CommentsBalanced ==
  \A c \in Contents : Live(c) =>
    commentCount[c] + NotesShort(c) = Cardinality(CommentsOn(c)) + NotesOver(c) + commentDrift[c]

\* The steps of every kind of request, and what it has at them.
Placed(o) ==
  /\ o.kind = "none" => o \in {Idle, Over}
  /\ o.kind # "none" => o.by \in Users
  /\ o.kind \in {"create", "edit", "delete"} => o.target \in Contents /\ o.on = None
  /\ o.kind = "create" => o.at = "tags" /\ o.sub = {}
  /\ o.kind = "edit" => o.at \in {"save", "tags"}
  /\ o.kind = "delete" =>
       /\ o.at \in {"cleanup", "tags", "remove"} /\ o.add = {} /\ o.sub \subseteq o.tags
       /\ o.at = "cleanup" => o.sub = o.tags
       /\ o.at = "remove" => o.sub = {}
  /\ o.kind \in Marks => o.at \in {"find", "mark", "unmark", "inc", "dec"} /\ o.target \in Targets /\ o.on = None
  /\ o.kind = "comment" =>
       /\ o.at \in {"parent", "create", "count"} /\ o.target = None /\ o.on \in Contents
       /\ o.at = "parent" => o.parent \in Comments
  /\ o.kind = "uncomment" =>
       /\ o.at \in {"replies", "drop", "dropLikes", "uncount", "erase"}
       /\ o.target \in Comments /\ o.on \in Contents

\* What is unborn has no request, and what a request has read stays true, or the
\* version tells: cs and ks are the contents and the comments.
Tied(o, cs, ks) ==
  /\ o.target \in Contents => cs[o.target].life # "unborn"
  /\ o.target \in Comments => ks[o.target].on # None
  /\ o.on \in Contents => cs[o.on].life # "unborn"
  /\ o.kind = "uncomment" => ks[o.target].on = o.on
  /\ o.at = "create" /\ o.parent \in Comments => ks[o.parent].on = o.on
  /\ o.at = "save" /\ cs[o.target].life = "live" =>
       /\ o.version <= cs[o.target].version
       /\ o.version = cs[o.target].version =>
            o.add = o.tags \ cs[o.target].tags /\ o.sub = cs[o.target].tags \ o.tags

\* What does not exist has no number, and no hashtags.
Zero ==
  /\ \A t \in Targets, w \in Marks : ~Live(t) => count[w][t] = 0 /\ drift[w][t] = 0
  /\ \A c \in Contents : ~Live(c) => commentCount[c] = 0 /\ commentDrift[c] = 0 /\ contents[c].tags = {}

\* A comment is on content that has been created, a reply on that of its parent.
Threads ==
  \A k \in Comments :
    /\ comments[k].life = "unborn" <=> comments[k].on = None
    /\ comments[k].on \in Contents => contents[comments[k].on].life # "unborn"
    /\ comments[k].life # "live" => comments[k].parent = None
    /\ comments[k].parent \in Comments => comments[comments[k].parent].on = comments[k].on

Born(t) == IF t \in Contents THEN contents[t].life # "unborn" ELSE comments[t].on # None

\* Every row was written by one request, which is past writing it.
Written ==
  \A w \in Marks :
    /\ \A m \in rows[w] : op[m.id].at \in {"inc", "over"} /\ Born(m.target)
    /\ \A m, l \in rows[w] : m.id = l.id => m = l

Ground ==
  /\ TypeOK /\ Zero /\ Threads /\ Written
  /\ \A r \in Requests : Placed(op[r]) /\ Tied(op[r], contents, comments)

IInv == Ground /\ MarksBalanced /\ TagsBalanced /\ CommentsBalanced

-----------------------------------------------------------------------------
LEMMA Ones == \A b \in BOOLEAN : One(b) \in {0, 1} /\ (b => One(b) = 1) /\ (~b => One(b) = 0)
  BY DEF One

LEMMA Apart ==
  /\ None \notin Targets /\ None \notin Contents /\ None \notin Comments /\ None \notin Requests
  /\ Contents \cap Comments = {} /\ Contents \subseteq Targets /\ Comments \subseteq Targets
  BY FeedAssumption DEF Targets

LEMMA Slots ==
  /\ Idle \in Operation /\ Over \in Operation /\ Placed(Idle) /\ Placed(Over)
  /\ Idle.at = "idle" /\ Over.at = "over" /\ Idle.kind = "none" /\ Over.kind = "none"
  /\ Idle.target = None /\ Over.target = None /\ Idle.on = None /\ Over.on = None
  /\ \A cs, ks : Tied(Idle, cs, ks) /\ Tied(Over, cs, ks)
<1>1. /\ Idle \in Operation /\ Over \in Operation
      /\ Idle.at = "idle" /\ Over.at = "over" /\ Idle.kind = "none" /\ Over.kind = "none"
      /\ Idle.target = None /\ Over.target = None /\ Idle.on = None /\ Over.on = None
  BY DEF Idle, Over, Operation, Kinds, Steps
<1> QED
  BY <1>1, Apart DEF Placed, Tied, Marks

\* One request moves.
Moves(r) ==
  /\ op \in [Requests -> Operation] /\ op' \in [Requests -> Operation]
  /\ \A q \in Requests : q # r => op'[q] = op[q]

LEMMA MovesTo ==
  ASSUME Ground, NEW r \in Requests, NEW STATE o, o \in Operation, op' = [op EXCEPT ![r] = o]
  PROVE  Moves(r) /\ op'[r] = o
  BY DEF Ground, TypeOK, Moves

\* A sum over the requests moves with the one term that moves.
LEMMA TotalMoved ==
  ASSUME NEW f, NEW g, NEW r \in Requests,
         \A q \in Requests : f[q] \in Nat /\ g[q] \in Nat /\ (q # r => g[q] = f[q])
  PROVE  Total(g) + f[r] = Total(f) + g[r] /\ Total(f) \in Nat /\ Total(g) \in Nat
  BY SumChange, SumNat, FeedAssumption DEF Total

LEMMA MarkMoved ==
  ASSUME NEW r \in Requests, Moves(r), NEW w, NEW t
  PROVE  /\ MarksShort(w, t)' + MarkShort(op[r], w, t) = MarksShort(w, t) + MarkShort(op'[r], w, t)
         /\ MarksOver(w, t)' + MarkOver(op[r], w, t) = MarksOver(w, t) + MarkOver(op'[r], w, t)
         /\ MarksShort(w, t) \in Nat /\ MarksShort(w, t)' \in Nat
         /\ MarksOver(w, t) \in Nat /\ MarksOver(w, t)' \in Nat
<1> DEFINE f == [q \in Requests |-> MarkShort(op[q], w, t)]
           g == [q \in Requests |-> MarkShort(op'[q], w, t)]
           k == [q \in Requests |-> MarkOver(op[q], w, t)]
           l == [q \in Requests |-> MarkOver(op'[q], w, t)]
<1>1. \A q \in Requests : q # r => op'[q] = op[q]
  BY DEF Moves
<1>2. \A p : MarkShort(p, w, t) \in Nat /\ MarkOver(p, w, t) \in Nat
  BY DEF MarkShort, MarkOver, One
<1>3. Total(g) + f[r] = Total(f) + g[r] /\ Total(f) \in Nat /\ Total(g) \in Nat
  BY <1>1, <1>2, TotalMoved
<1>4. Total(l) + k[r] = Total(k) + l[r] /\ Total(k) \in Nat /\ Total(l) \in Nat
  BY <1>1, <1>2, TotalMoved
<1> QED
  BY <1>1, <1>3, <1>4 DEF MarksShort, MarksOver

LEMMA TagMoved ==
  ASSUME NEW r \in Requests, Moves(r), NEW h
  PROVE  /\ TagsShort(h)' + TagShort(op[r], h) = TagsShort(h) + TagShort(op'[r], h)
         /\ TagsOver(h)' + TagOver(op[r], h) = TagsOver(h) + TagOver(op'[r], h)
         /\ TagsShort(h) \in Nat /\ TagsShort(h)' \in Nat
         /\ TagsOver(h) \in Nat /\ TagsOver(h)' \in Nat
<1> DEFINE f == [q \in Requests |-> TagShort(op[q], h)]
           g == [q \in Requests |-> TagShort(op'[q], h)]
           k == [q \in Requests |-> TagOver(op[q], h)]
           l == [q \in Requests |-> TagOver(op'[q], h)]
<1>1. \A q \in Requests : q # r => op'[q] = op[q]
  BY DEF Moves
<1>2. \A p : TagShort(p, h) \in Nat /\ TagOver(p, h) \in Nat
  BY DEF TagShort, TagOver, One
<1>3. Total(g) + f[r] = Total(f) + g[r] /\ Total(f) \in Nat /\ Total(g) \in Nat
  BY <1>1, <1>2, TotalMoved
<1>4. Total(l) + k[r] = Total(k) + l[r] /\ Total(k) \in Nat /\ Total(l) \in Nat
  BY <1>1, <1>2, TotalMoved
<1> QED
  BY <1>1, <1>3, <1>4 DEF TagsShort, TagsOver

LEMMA NoteMoved ==
  ASSUME NEW r \in Requests, Moves(r), NEW c
  PROVE  /\ NotesShort(c)' + NoteShort(op[r], c) = NotesShort(c) + NoteShort(op'[r], c)
         /\ NotesOver(c)' + NoteOver(op[r], c) = NotesOver(c) + NoteOver(op'[r], c)
         /\ NotesShort(c) \in Nat /\ NotesShort(c)' \in Nat
         /\ NotesOver(c) \in Nat /\ NotesOver(c)' \in Nat
<1> DEFINE f == [q \in Requests |-> NoteShort(op[q], c)]
           g == [q \in Requests |-> NoteShort(op'[q], c)]
           k == [q \in Requests |-> NoteOver(op[q], c)]
           l == [q \in Requests |-> NoteOver(op'[q], c)]
<1>1. \A q \in Requests : q # r => op'[q] = op[q]
  BY DEF Moves
<1>2. \A p \in Operation : NoteShort(p, c) \in Nat /\ NoteOver(p, c) \in Nat
  BY DEF NoteShort, NoteOver, One, Operation
<1>3. \A q \in Requests : op[q] \in Operation /\ op'[q] \in Operation
  BY DEF Moves
<1>4. Total(g) + f[r] = Total(f) + g[r] /\ Total(f) \in Nat /\ Total(g) \in Nat
  BY <1>1, <1>2, <1>3, TotalMoved
<1>5. Total(l) + k[r] = Total(k) + l[r] /\ Total(k) \in Nat /\ Total(l) \in Nat
  BY <1>1, <1>2, <1>3, TotalMoved
<1> QED
  BY <1>1, <1>4, <1>5 DEF NotesShort, NotesOver

\* The rows and comments counted are finitely many.
LEMMA MarkedFinite ==
  ASSUME Ground, NEW w \in Marks, NEW t \in Targets
  PROVE  IsFiniteSet(Marked(w, t)) /\ Cardinality(Marked(w, t)) \in Nat
<1> DEFINE f == [m \in Marked(w, t) |-> m.id]
<1>1. \A m \in Marked(w, t) : m \in rows[w] /\ m.id \in Requests
  BY DEF Ground, TypeOK, Marked, Row
<1>2. f \in Injection(Marked(w, t), Requests)
  BY <1>1 DEF Ground, Written, Injection, IsInjective
<1> QED
  BY <1>2, FeedAssumption, FS_Injection, FS_CardinalityType

LEMMA CarriersFinite ==
  ASSUME NEW h \in Tags PROVE IsFiniteSet(Carriers(h)) /\ Cardinality(Carriers(h)) \in Nat
  BY FeedAssumption, FS_Subset, FS_CardinalityType DEF Carriers

LEMMA CommentsFinite ==
  ASSUME NEW c \in Contents PROVE IsFiniteSet(CommentsOn(c)) /\ Cardinality(CommentsOn(c)) \in Nat
  BY FeedAssumption, FS_Subset, FS_CardinalityType DEF CommentsOn

LEMMA RepliesFinite ==
  ASSUME NEW k \in Comments PROVE IsFiniteSet(Replies(k)) /\ Cardinality(Replies(k)) \in Nat
  BY FeedAssumption, FS_Subset, FS_CardinalityType DEF Replies

-----------------------------------------------------------------------------
\* Documents only come into being and go; hashtags change with the version.
Advance ==
  /\ \A c \in Contents :
       /\ contents[c].life # "unborn" => contents'[c].life # "unborn"
       /\ contents'[c].life = "live" /\ contents[c].life # "unborn" =>
            /\ contents[c].life = "live" /\ contents[c].version <= contents'[c].version
            /\ contents[c].version = contents'[c].version => contents'[c].tags = contents[c].tags
  /\ \A k \in Comments : comments[k].on # None => comments'[k].on = comments[k].on

LEMMA TiedStill ==
  ASSUME Ground, TypeOK', Advance, NEW r \in Requests
  PROVE  Tied(op[r], contents', comments')
<1> DEFINE o == op[r]
<1>1. o \in Operation /\ Tied(o, contents, comments) /\ Placed(o)
  BY DEF Ground, TypeOK
<1>2. \A c \in Contents : contents[c] \in Content /\ contents'[c] \in Content
  BY DEF Ground, TypeOK
<1>3. o.version \in Nat /\ \A c \in Contents : contents[c].version \in Nat /\ contents'[c].version \in Nat
  BY <1>1, <1>2 DEF Operation, Content
<1>4. o.at = "save" => o.target \in Contents
  BY <1>1 DEF Placed, Operation, Kinds, Marks, Idle, Over
<1>5. o.kind = "uncomment" => o.target \in Comments /\ o.on \in Contents
  BY <1>1 DEF Placed
<1>6. o.at = "create" => o.on \in Contents
  BY <1>1 DEF Placed, Operation, Kinds, Marks, Idle, Over
<1> HIDE DEF o
<1>7. /\ o.target \in Contents => contents'[o.target].life # "unborn"
      /\ o.on \in Contents => contents'[o.on].life # "unborn"
      /\ o.target \in Comments => comments'[o.target].on # None
  BY <1>1 DEF Tied, Advance
<1>8. o.kind = "uncomment" => comments'[o.target].on = o.on
  BY <1>1, <1>5, Apart DEF Tied, Advance
<1>9. o.at = "create" /\ o.parent \in Comments => comments'[o.parent].on = o.on
  BY <1>1, <1>6, Apart DEF Tied, Advance
<1>10. ASSUME o.at = "save", contents'[o.target].life = "live"
       PROVE  /\ o.version <= contents'[o.target].version
              /\ o.version = contents'[o.target].version =>
                   o.add = o.tags \ contents'[o.target].tags /\ o.sub = contents'[o.target].tags \ o.tags
  <2> DEFINE c == o.target
  <2>1. c \in Contents /\ contents[c].life # "unborn"
    BY <1>1, <1>4, <1>10 DEF Tied
  <2>2. /\ contents[c].life = "live" /\ contents[c].version <= contents'[c].version
        /\ contents[c].version = contents'[c].version => contents'[c].tags = contents[c].tags
    BY <1>10, <2>1 DEF Advance
  <2>3. /\ o.version <= contents[c].version
        /\ o.version = contents[c].version => o.add = o.tags \ contents[c].tags /\ o.sub = contents[c].tags \ o.tags
    BY <1>1, <1>10, <2>2 DEF Tied
  <2>4. contents[c].version \in Nat /\ contents'[c].version \in Nat /\ o.version \in Nat
    BY <1>3, <2>1
  <2> HIDE DEF c
  <2>5. o.version <= contents'[c].version
    BY <2>2, <2>3, <2>4
  <2>6. o.version = contents'[c].version => contents'[c].tags = contents[c].tags /\ o.version = contents[c].version
    BY <2>2, <2>3, <2>4
  <2> QED
    BY <2>3, <2>5, <2>6 DEF c
<1> QED
  BY <1>7, <1>8, <1>9, <1>10 DEF Tied, o

\* What a step has to show: the rest of Ground follows.
LEMMA StepKeeps ==
  ASSUME Ground, TypeOK', Zero', Threads', Written', Advance,
         \A q \in Requests : op'[q] = op[q] \/ (Placed(op'[q]) /\ Tied(op'[q], contents', comments'))
  PROVE  Ground'
<1>1. ASSUME NEW q \in Requests PROVE Placed(op'[q]) /\ Tied(op'[q], contents', comments')
  <2>1. CASE op'[q] = op[q]
    BY <2>1, TiedStill DEF Ground
  <2> QED
    BY <2>1
<1> QED
  BY <1>1 DEF Ground

\* Rows are only deleted, and who has written one stays past it.
LEMMA WrittenStill ==
  ASSUME Ground, TypeOK', Advance, \A w \in Marks : rows'[w] \subseteq rows[w],
         \A q \in Requests : op[q].at \in {"inc", "over"} => op'[q].at \in {"inc", "over"}
  PROVE  Written'
<1>1. \A w \in Marks : \A m \in rows[w] : m \in Row /\ m.id \in Requests /\ m.target \in Targets
  BY DEF Ground, TypeOK, Row
<1>2. \A t \in Targets : Born(t) => Born(t)'
  BY Apart DEF Born, Advance, Targets
<1>3. \A w \in Marks : \A m \in rows'[w] : op'[m.id].at \in {"inc", "over"} /\ Born(m.target)'
  BY <1>1, <1>2 DEF Ground, Written
<1>4. \A w \in Marks : \A m \in rows'[w] : \A l \in rows'[w] : m.id = l.id => m = l
  BY DEF Ground, Written
<1> QED
  BY <1>3, <1>4 DEF Written, Born

\* Nothing about the documents but the numbers has changed.
LEMMA SlotKeeps ==
  ASSUME Ground, TypeOK', Zero', NEW r \in Requests, NEW STATE o, op' = [op EXCEPT ![r] = o],
         UNCHANGED <<contents, comments>>, \A w \in Marks : rows'[w] \subseteq rows[w],
         Placed(o), Tied(o, contents, comments),
         op[r].at \in {"inc", "over"} => o.at \in {"inc", "over"}
  PROVE  Ground'
<1>1. op'[r] = o /\ \A q \in Requests : q # r => op'[q] = op[q]
  BY DEF Ground, TypeOK
<1>2. Advance
  <2>1. \A c \in Contents : contents[c].version \in Nat
    BY DEF Ground, TypeOK, Content
  <2> QED
    BY <2>1 DEF Advance
<1>3. Threads'
  BY DEF Ground, Threads
<1>4. Written'
  BY <1>1, <1>2, WrittenStill
<1> QED
  BY <1>1, <1>2, <1>3, <1>4, StepKeeps

\* What is still unborn has no rows and no requests: its numbers balance too.
LEMMA UnbornMarks ==
  ASSUME Ground, NEW w \in Marks, NEW t \in Targets, ~Born(t)
  PROVE  count[w][t] + MarksShort(w, t) = Cardinality(Marked(w, t)) + MarksOver(w, t) + drift[w][t]
<1>1. ~Live(t)
  BY Apart DEF Ground, TypeOK, Threads, Born, Live, Targets
<1>2. count[w][t] = 0 /\ drift[w][t] = 0
  BY <1>1 DEF Ground, Zero
<1>3. Marked(w, t) = {}
  BY DEF Ground, Written, Marked
<1>4. \A r \in Requests : op[r].target # t
  BY Apart DEF Ground, Tied, Born, Targets
<1>5. \A r \in Requests : MarkShort(op[r], w, t) = 0 /\ MarkOver(op[r], w, t) = 0
  BY <1>4 DEF MarkShort, MarkOver, One
<1>6. MarksShort(w, t) = 0 /\ MarksOver(w, t) = 0
  BY <1>5, SumZero, FeedAssumption DEF MarksShort, MarksOver, Total
<1> QED
  BY <1>2, <1>3, <1>6, FS_EmptySet

LEMMA UnbornComments ==
  ASSUME Ground, NEW c \in Contents, ~Born(c)
  PROVE  commentCount[c] + NotesShort(c) = Cardinality(CommentsOn(c)) + NotesOver(c) + commentDrift[c]
<1>1. contents[c].life = "unborn" /\ ~Live(c)
  BY DEF Born, Live
<1>2. commentCount[c] = 0 /\ commentDrift[c] = 0
  BY <1>1 DEF Ground, Zero
<1>3. CommentsOn(c) = {}
  BY <1>1 DEF Ground, Threads, CommentsOn
<1>4. \A r \in Requests : op[r].on # c
  BY <1>1 DEF Ground, Tied
<1>5. \A r \in Requests : NoteShort(op[r], c) = 0 /\ NoteOver(op[r], c) = 0
  BY <1>4 DEF NoteShort, NoteOver, One
<1>6. NotesShort(c) = 0 /\ NotesOver(c) = 0
  BY <1>5, SumZero, FeedAssumption DEF NotesShort, NotesOver, Total
<1> QED
  BY <1>2, <1>3, <1>6, FS_EmptySet

LEMMA MarksBefore ==
  ASSUME Ground, MarksBalanced, NEW w \in Marks, NEW t \in Targets, Live(t) \/ ~Born(t)
  PROVE  count[w][t] + MarksShort(w, t) = Cardinality(Marked(w, t)) + MarksOver(w, t) + drift[w][t]
  BY UnbornMarks DEF MarksBalanced

LEMMA CommentsBefore ==
  ASSUME Ground, CommentsBalanced, NEW c \in Contents, Live(c) \/ ~Born(c)
  PROVE  commentCount[c] + NotesShort(c) = Cardinality(CommentsOn(c)) + NotesOver(c) + commentDrift[c]
  BY UnbornComments DEF CommentsBalanced

\* A step that leaves the documents, the rows and the numbers of marks alone.
LEMMA MarksAside ==
  ASSUME Ground, MarksBalanced, NEW r \in Requests, Moves(r),
         UNCHANGED <<rows, count, drift>>, \A t \in Targets : Live(t)' => Live(t) \/ ~Born(t),
         \A w \in Marks, t \in Targets :
           MarkShort(op'[r], w, t) = MarkShort(op[r], w, t) /\ MarkOver(op'[r], w, t) = MarkOver(op[r], w, t)
  PROVE  MarksBalanced'
<1> SUFFICES ASSUME NEW w \in Marks, NEW t \in Targets, Live(t)'
             PROVE  (count[w][t] + MarksShort(w, t) = Cardinality(Marked(w, t)) + MarksOver(w, t) + drift[w][t])'
  BY DEF MarksBalanced
<1>1. /\ MarksShort(w, t)' + MarkShort(op[r], w, t) = MarksShort(w, t) + MarkShort(op'[r], w, t)
      /\ MarksOver(w, t)' + MarkOver(op[r], w, t) = MarksOver(w, t) + MarkOver(op'[r], w, t)
      /\ MarksShort(w, t) \in Nat /\ MarksShort(w, t)' \in Nat
      /\ MarksOver(w, t) \in Nat /\ MarksOver(w, t)' \in Nat
  BY MarkMoved
<1>2. MarkShort(op[r], w, t) \in {0, 1} /\ MarkOver(op[r], w, t) \in {0, 1}
  BY DEF MarkShort, MarkOver, One
<1>3. MarksShort(w, t)' = MarksShort(w, t) /\ MarksOver(w, t)' = MarksOver(w, t)
  BY <1>1, <1>2
<1>4. Cardinality(Marked(w, t))' = Cardinality(Marked(w, t))
  BY DEF Marked
<1>5. count[w][t] + MarksShort(w, t) = Cardinality(Marked(w, t)) + MarksOver(w, t) + drift[w][t]
  BY MarksBefore
<1> QED
  BY <1>3, <1>4, <1>5

LEMMA TagsAside ==
  ASSUME Ground, TagsBalanced, NEW r \in Requests, Moves(r),
         UNCHANGED <<tagCount, tagDrift>>, \A c \in Contents : contents'[c].tags = contents[c].tags,
         \A h \in Tags : TagShort(op'[r], h) = TagShort(op[r], h) /\ TagOver(op'[r], h) = TagOver(op[r], h)
  PROVE  TagsBalanced'
<1> SUFFICES ASSUME NEW h \in Tags
             PROVE  (tagCount[h] + TagsShort(h) = Cardinality(Carriers(h)) + TagsOver(h) + tagDrift[h])'
  BY DEF TagsBalanced
<1>1. /\ TagsShort(h)' + TagShort(op[r], h) = TagsShort(h) + TagShort(op'[r], h)
      /\ TagsOver(h)' + TagOver(op[r], h) = TagsOver(h) + TagOver(op'[r], h)
      /\ TagsShort(h) \in Nat /\ TagsShort(h)' \in Nat
      /\ TagsOver(h) \in Nat /\ TagsOver(h)' \in Nat
  BY TagMoved
<1>2. TagShort(op[r], h) \in {0, 1} /\ TagOver(op[r], h) \in {0, 1}
  BY DEF TagShort, TagOver, One
<1>3. TagsShort(h)' = TagsShort(h) /\ TagsOver(h)' = TagsOver(h)
  BY <1>1, <1>2
<1>4. Carriers(h)' = Carriers(h)
  BY DEF Carriers
<1> QED
  BY <1>3, <1>4 DEF TagsBalanced

LEMMA CommentsAside ==
  ASSUME Ground, CommentsBalanced, NEW r \in Requests, Moves(r),
         UNCHANGED <<commentCount, commentDrift>>, \A c \in Contents : CommentsOn(c)' = CommentsOn(c),
         \A c \in Contents : Live(c)' => Live(c) \/ ~Born(c),
         \A c \in Contents : NoteShort(op'[r], c) = NoteShort(op[r], c) /\ NoteOver(op'[r], c) = NoteOver(op[r], c)
  PROVE  CommentsBalanced'
<1> SUFFICES ASSUME NEW c \in Contents, Live(c)'
             PROVE  (commentCount[c] + NotesShort(c)
                       = Cardinality(CommentsOn(c)) + NotesOver(c) + commentDrift[c])'
  BY DEF CommentsBalanced
<1>1. /\ NotesShort(c)' + NoteShort(op[r], c) = NotesShort(c) + NoteShort(op'[r], c)
      /\ NotesOver(c)' + NoteOver(op[r], c) = NotesOver(c) + NoteOver(op'[r], c)
      /\ NotesShort(c) \in Nat /\ NotesShort(c)' \in Nat
      /\ NotesOver(c) \in Nat /\ NotesOver(c)' \in Nat
  BY NoteMoved
<1>2. NoteShort(op[r], c) \in Nat /\ NoteOver(op[r], c) \in Nat
  BY DEF NoteShort, NoteOver, One, Ground, TypeOK, Operation
<1>3. NotesShort(c)' = NotesShort(c) /\ NotesOver(c)' = NotesOver(c)
  BY <1>1, <1>2
<1>4. commentCount[c] + NotesShort(c) = Cardinality(CommentsOn(c)) + NotesOver(c) + commentDrift[c]
  BY CommentsBefore
<1> QED
  BY <1>3, <1>4

-----------------------------------------------------------------------------
\* Requests that owe no number anything.
Quiet(o) ==
  /\ o.at \notin {"inc", "dec", "tags", "remove", "count", "dropLikes", "uncount", "erase"}
  /\ o.kind = "delete" => o.sub = o.tags

LEMMA QuietOwes ==
  ASSUME NEW o, Quiet(o)
  PROVE  /\ \A w, t : MarkShort(o, w, t) = 0 /\ MarkOver(o, w, t) = 0
         /\ \A h : TagShort(o, h) = 0 /\ TagOver(o, h) = 0
         /\ \A c : NoteShort(o, c) = 0 /\ NoteOver(o, c) = 0
  BY DEF Quiet, MarkShort, MarkOver, TagShort, TagOver, NoteShort, NoteOver, One, Missing, Excess

\* Requests of other kinds owe nothing to a number.
LEMMA NoMark ==
  ASSUME NEW o, o.kind \notin Marks \/ o.at \notin {"inc", "dec"}, NEW w \in Marks, NEW t
  PROVE  MarkShort(o, w, t) = 0 /\ MarkOver(o, w, t) = 0
  BY DEF MarkShort, MarkOver, One

LEMMA NoTag ==
  ASSUME NEW o \in Operation, Placed(o), o.kind \notin {"create", "edit", "delete"}, NEW h
  PROVE  TagShort(o, h) = 0 /\ TagOver(o, h) = 0
<1>1. o.at # "tags" /\ o.kind # "delete"
  BY DEF Placed, Operation, Kinds, Marks, Idle, Over
<1> QED
  BY <1>1 DEF TagShort, TagOver, Missing, Excess, One

LEMMA NoNote ==
  ASSUME NEW o, o.at \notin {"count", "dropLikes", "uncount", "erase"}, NEW c
  PROVE  NoteShort(o, c) = 0 /\ NoteOver(o, c) = 0
  BY DEF NoteShort, NoteOver, One

\* A step from one quiet place to another.
LEMMA QuietKeeps ==
  ASSUME IInv, NEW r \in Requests, NEW STATE o, o \in Operation, op' = [op EXCEPT ![r] = o],
         UNCHANGED <<contents, comments, rows, count, commentCount, known, tagCount, scene, history>>,
         Placed(o), Tied(o, contents, comments), Quiet(op[r]), Quiet(o),
         op[r].at = "over" => o.at = "over"
  PROVE  IInv'
<1>1. Ground /\ MarksBalanced /\ TagsBalanced /\ CommentsBalanced
  BY DEF IInv
<1>2. TypeOK'
  BY <1>1 DEF Ground, TypeOK, history
<1>3. Zero'
  BY <1>1 DEF Ground, Zero, Live, history
<1>4. Ground'
  BY <1>1, <1>2, <1>3, SlotKeeps DEF Quiet
<1>5. \A t : Live(t)' = Live(t)
  BY DEF Live
<1>10. Moves(r) /\ op'[r] = o
  BY <1>1, MovesTo
<1>11. /\ \A w, t : MarkShort(o, w, t) = 0 /\ MarkOver(o, w, t) = 0
       /\ \A h : TagShort(o, h) = 0 /\ TagOver(o, h) = 0
       /\ \A c : NoteShort(o, c) = 0 /\ NoteOver(o, c) = 0
  BY QuietOwes
<1>12. /\ \A w, t : MarkShort(op[r], w, t) = 0 /\ MarkOver(op[r], w, t) = 0
       /\ \A h : TagShort(op[r], h) = 0 /\ TagOver(op[r], h) = 0
       /\ \A c : NoteShort(op[r], c) = 0 /\ NoteOver(op[r], c) = 0
  BY QuietOwes
<1>13. UNCHANGED <<count, drift, tagCount, tagDrift, commentCount, commentDrift>>
  BY DEF history
<1>6. MarksBalanced'
  BY <1>1, <1>5, <1>10, <1>11, <1>12, <1>13, MarksAside
<1>7. TagsBalanced'
  BY <1>1, <1>10, <1>11, <1>12, <1>13, TagsAside
<1>8. \A c : CommentsOn(c)' = CommentsOn(c)
  BY DEF CommentsOn
<1>9. CommentsBalanced'
  BY <1>1, <1>5, <1>8, <1>10, <1>11, <1>12, <1>13, CommentsAside
<1> QED
  BY <1>4, <1>6, <1>7, <1>9 DEF IInv

LEMMA StartedAs ==
  ASSUME NEW r \in Requests, NEW u \in Users, NEW kind \in Kinds, NEW s \in Steps,
         NEW t \in Targets \cup {None}
  PROVE  /\ Started(r, u, kind, s, t) \in Operation
         /\ Started(r, u, kind, s, t).kind = kind /\ Started(r, u, kind, s, t).at = s
         /\ Started(r, u, kind, s, t).by = u /\ Started(r, u, kind, s, t).target = t
         /\ Started(r, u, kind, s, t).on = None /\ Started(r, u, kind, s, t).tags = {}
         /\ Started(r, u, kind, s, t).add = {} /\ Started(r, u, kind, s, t).sub = {}
<1> DEFINE o == Started(r, u, kind, s, t)
<1>1. Idle \in Operation /\ Idle.on = None /\ Idle.tags = {} /\ Idle.add = {} /\ Idle.sub = {}
  BY Slots DEF Idle
<1>2. o \in Operation
  BY <1>1 DEF Started, Operation
<1> QED
  BY <1>1, <1>2 DEF Started, Operation

LEMMA Named ==
  /\ {"create", "edit", "delete", "likes", "saves", "comment", "uncomment"} \subseteq Kinds
  /\ {"save", "tags", "cleanup", "find", "parent", "create", "replies"} \subseteq Steps
  BY DEF Kinds, Steps

LEMMA EditKeeps ==
  ASSUME IInv, NEW r \in Requests, NEW u \in Users, NEW c \in Contents, NEW tags \in SUBSET Tags,
         Edit(r, u, c, tags)
  PROVE  IInv'
<1> DEFINE s == Started(r, u, "edit", "save", c)
           o == [s EXCEPT !.version = contents[c].version, !.tags = tags,
                          !.add = tags \ contents[c].tags, !.sub = contents[c].tags \ tags]
<1>1. contents[c].tags \in SUBSET Tags /\ contents[c].version \in Nat
  BY DEF IInv, Ground, TypeOK, Content
<1>2. /\ s \in Operation /\ s.kind = "edit" /\ s.at = "save" /\ s.by = u /\ s.target = c /\ s.on = None
  BY StartedAs, Named, Apart
<1>3. /\ op' = [op EXCEPT ![r] = o] /\ op[r] = Idle /\ contents[c].life = "live"
      /\ UNCHANGED <<contents, comments, rows, count, commentCount, known, tagCount, scene, history>>
  BY DEF Edit, May, Go
<1> HIDE DEF s
<1>4. o \in Operation
  BY <1>1, <1>2 DEF Operation
<1>5. /\ o.kind = "edit" /\ o.at = "save" /\ o.by = u /\ o.target = c /\ o.on = None
      /\ o.version = contents[c].version /\ o.tags = tags
      /\ o.add = tags \ contents[c].tags /\ o.sub = contents[c].tags \ tags
  BY <1>2 DEF Operation
<1> HIDE DEF o
<1>6. Placed(o)
  BY <1>5 DEF Placed, Marks
<1>7. Tied(o, contents, comments)
  BY <1>1, <1>3, <1>5, Apart DEF Tied
<1>8. Quiet(op[r]) /\ Quiet(o) /\ op[r].at # "over"
  BY <1>3, <1>5, Slots DEF Quiet
<1> QED
  BY <1>3, <1>4, <1>6, <1>7, <1>8, QuietKeeps

LEMMA DeleteKeeps ==
  ASSUME IInv, NEW r \in Requests, NEW u \in Users, NEW c \in Contents, Delete(r, u, c)
  PROVE  IInv'
<1> DEFINE s == Started(r, u, "delete", "cleanup", c)
           o == [s EXCEPT !.tags = contents[c].tags, !.sub = contents[c].tags,
                          !.left = {"likes", "saves", "comments"}]
<1>1. contents[c].tags \in SUBSET Tags
  BY DEF IInv, Ground, TypeOK, Content
<1>2. /\ s \in Operation /\ s.kind = "delete" /\ s.at = "cleanup" /\ s.by = u /\ s.target = c /\ s.on = None
      /\ s.add = {}
  BY StartedAs, Named, Apart
<1>3. /\ op' = [op EXCEPT ![r] = o] /\ op[r] = Idle /\ contents[c].life = "live"
      /\ UNCHANGED <<contents, comments, rows, count, commentCount, known, tagCount, scene, history>>
  BY DEF Delete, May, Go
<1> HIDE DEF s
<1>4. o \in Operation
  BY <1>1, <1>2 DEF Operation
<1>5. /\ o.kind = "delete" /\ o.at = "cleanup" /\ o.by = u /\ o.target = c /\ o.on = None
      /\ o.tags = contents[c].tags /\ o.sub = contents[c].tags /\ o.add = {}
  BY <1>2 DEF Operation
<1> HIDE DEF o
<1>6. Placed(o)
  BY <1>5 DEF Placed, Marks
<1>7. Tied(o, contents, comments)
  BY <1>3, <1>5, Apart DEF Tied
<1>8. Quiet(op[r]) /\ Quiet(o) /\ op[r].at # "over"
  BY <1>3, <1>5, Slots DEF Quiet
<1> QED
  BY <1>3, <1>4, <1>6, <1>7, <1>8, QuietKeeps

LEMMA LiveBorn ==
  ASSUME Ground, NEW t \in Targets, Live(t)
  PROVE  /\ Born(t) /\ (t \in Contents => contents[t].life = "live")
         /\ (t \in Comments => comments[t].life = "live" /\ comments[t].on \in Contents)
<1>1. t \in Comments => t \notin Contents /\ comments[t] \in Comment
  BY Apart DEF Ground, TypeOK
<1> QED
  BY <1>1, Apart DEF Ground, Threads, Live, Born, Targets, Comment

LEMMA ToggleKeeps ==
  ASSUME IInv, NEW r \in Requests, NEW u \in Users, NEW w \in Marks, NEW t \in Targets, Toggle(r, u, w, t)
  PROVE  IInv'
<1> DEFINE o == Started(r, u, w, "find", t)
<1>1. o \in Operation /\ o.kind = w /\ o.at = "find" /\ o.by = u /\ o.target = t /\ o.on = None
  BY StartedAs, Named DEF Marks
<1>2. /\ op' = [op EXCEPT ![r] = o] /\ op[r] = Idle /\ Live(t)
      /\ UNCHANGED <<contents, comments, rows, count, commentCount, known, tagCount, scene, history>>
  BY DEF Toggle, May, Go
<1> HIDE DEF o
<1>3. Placed(o)
  BY <1>1 DEF Placed, Marks
<1>4. Tied(o, contents, comments)
  BY <1>1, <1>2, LiveBorn, Apart DEF Tied, IInv, Marks
<1>5. Quiet(op[r]) /\ Quiet(o) /\ op[r].at # "over"
  BY <1>1, <1>2, Slots DEF Quiet, Marks
<1> QED
  BY <1>1, <1>2, <1>3, <1>4, <1>5, QuietKeeps

LEMMA AddCommentKeeps ==
  ASSUME IInv, NEW r \in Requests, NEW u \in Users, NEW c \in Contents, NEW p \in Comments \cup {None},
         AddComment(r, u, c, p)
  PROVE  IInv'
<1> DEFINE a == IF p = None THEN "create" ELSE "parent"
           s == Started(r, u, "comment", a, None)
           o == [s EXCEPT !.on = c, !.parent = p]
<1>1. /\ s \in Operation /\ s.kind = "comment" /\ s.at = a /\ s.by = u /\ s.target = None
  BY StartedAs, Named, Apart
<1>2. /\ op' = [op EXCEPT ![r] = o] /\ op[r] = Idle /\ Live(c)
      /\ UNCHANGED <<contents, comments, rows, count, commentCount, known, tagCount, scene, history>>
  BY DEF AddComment, May, Go
<1> HIDE DEF s
<1>3. o \in Operation
  BY <1>1 DEF Operation
<1>4. o.kind = "comment" /\ o.at = a /\ o.by = u /\ o.target = None /\ o.on = c /\ o.parent = p
  BY <1>1 DEF Operation
<1> HIDE DEF o
<1>5. a \in {"create", "parent"} /\ (a = "parent" => p \in Comments) /\ (a = "create" => p \notin Comments)
  BY Apart
<1> HIDE DEF a
<1>6. Placed(o)
  BY <1>4, <1>5 DEF Placed, Marks
<1>7. Tied(o, contents, comments)
  BY <1>2, <1>4, <1>5, LiveBorn, Apart DEF Tied, IInv
<1>8. Quiet(op[r]) /\ Quiet(o) /\ op[r].at # "over"
  BY <1>2, <1>4, <1>5, Slots DEF Quiet
<1> QED
  BY <1>2, <1>3, <1>6, <1>7, <1>8, QuietKeeps

LEMMA DeleteCommentKeeps ==
  ASSUME IInv, NEW r \in Requests, NEW u \in Users, NEW k \in Comments, DeleteComment(r, u, k)
  PROVE  IInv'
<1> DEFINE s == Started(r, u, "uncomment", "replies", k)
           o == [s EXCEPT !.on = comments[k].on]
<1>1. /\ s \in Operation /\ s.kind = "uncomment" /\ s.at = "replies" /\ s.by = u /\ s.target = k
  BY StartedAs, Named, Apart
<1>2. /\ op' = [op EXCEPT ![r] = o] /\ op[r] = Idle /\ comments[k].life = "live"
      /\ UNCHANGED <<contents, comments, rows, count, commentCount, known, tagCount, scene, history>>
  BY DEF DeleteComment, May, Go
<1>3. comments[k].on \in Contents /\ contents[comments[k].on].life # "unborn"
  BY <1>2, Apart DEF IInv, Ground, Threads, TypeOK, Comment
<1> HIDE DEF s
<1>4. o \in Operation
  BY <1>1, <1>3 DEF Operation
<1>5. o.kind = "uncomment" /\ o.at = "replies" /\ o.by = u /\ o.target = k /\ o.on = comments[k].on
  BY <1>1 DEF Operation
<1> HIDE DEF o
<1>6. Placed(o)
  BY <1>3, <1>5 DEF Placed, Marks
<1>7. Tied(o, contents, comments)
  BY <1>3, <1>5, Apart DEF Tied
<1>8. Quiet(op[r]) /\ Quiet(o) /\ op[r].at # "over"
  BY <1>2, <1>5, Slots DEF Quiet
<1> QED
  BY <1>2, <1>4, <1>6, <1>7, <1>8, QuietKeeps

-----------------------------------------------------------------------------
LEMMA Kinded ==
  ASSUME NEW o \in Operation, Placed(o)
  PROVE  /\ o.at \in {"find", "mark", "unmark", "inc", "dec"} <=> o.kind \in Marks
         /\ o.at \in {"save", "cleanup", "remove", "tags"} <=> o.kind \in {"create", "edit", "delete"}
         /\ o.at \in {"cleanup", "remove"} => o.kind = "delete"
         /\ o.at = "save" => o.kind = "edit"
         /\ o.at \in {"parent", "create", "count"} <=> o.kind = "comment"
         /\ o.at \in {"replies", "drop", "dropLikes", "uncount", "erase"} <=> o.kind = "uncomment"
         /\ o.at \in {"idle", "over"} <=> o.kind = "none"
  BY Slots DEF Placed, Operation, Kinds, Marks

\* Numbers that a request does not touch and does not owe.
LEMMA MarksBeside ==
  ASSUME Ground, MarksBalanced, NEW r \in Requests, Moves(r), UNCHANGED <<rows, count, drift>>,
         \A t \in Targets : Live(t)' => Live(t) \/ ~Born(t),
         op[r].kind \notin Marks \/ op[r].at \notin {"inc", "dec"},
         op'[r].kind \notin Marks \/ op'[r].at \notin {"inc", "dec"}
  PROVE  MarksBalanced'
<1>1. \A w \in Marks, t \in Targets : MarkShort(op[r], w, t) = 0 /\ MarkOver(op[r], w, t) = 0
  BY NoMark
<1>2. \A w \in Marks, t \in Targets : MarkShort(op'[r], w, t) = 0 /\ MarkOver(op'[r], w, t) = 0
  BY NoMark
<1> QED
  BY <1>1, <1>2, MarksAside

LEMMA TagsBeside ==
  ASSUME Ground, TagsBalanced, NEW r \in Requests, Moves(r), UNCHANGED <<tagCount, tagDrift>>,
         \A c \in Contents : contents'[c].tags = contents[c].tags, Placed(op'[r]),
         op[r].kind \notin {"create", "edit", "delete"}, op'[r].kind \notin {"create", "edit", "delete"}
  PROVE  TagsBalanced'
<1>1. op[r] \in Operation /\ op'[r] \in Operation /\ Placed(op[r])
  BY DEF Ground, Moves
<1>2. \A h \in Tags : TagShort(op[r], h) = 0 /\ TagOver(op[r], h) = 0
  BY <1>1, NoTag
<1>3. \A h \in Tags : TagShort(op'[r], h) = 0 /\ TagOver(op'[r], h) = 0
  BY <1>1, NoTag
<1> QED
  BY <1>2, <1>3, TagsAside

LEMMA CommentsBeside ==
  ASSUME Ground, CommentsBalanced, NEW r \in Requests, Moves(r), UNCHANGED <<commentCount, commentDrift>>,
         \A c \in Contents : CommentsOn(c)' = CommentsOn(c), \A c \in Contents : Live(c)' => Live(c) \/ ~Born(c),
         op[r].at \notin {"count", "dropLikes", "uncount", "erase"},
         op'[r].at \notin {"count", "dropLikes", "uncount", "erase"}
  PROVE  CommentsBalanced'
<1>1. \A c \in Contents : NoteShort(op[r], c) = 0 /\ NoteOver(op[r], c) = 0
  BY NoNote
<1>2. \A c \in Contents : NoteShort(op'[r], c) = 0 /\ NoteOver(op'[r], c) = 0
  BY NoNote
<1> QED
  BY <1>1, <1>2, CommentsAside

LEMMA OpOf ==
  ASSUME IInv, NEW r \in Requests
  PROVE  op[r] \in Operation /\ Placed(op[r]) /\ Tied(op[r], contents, comments) /\ Ground
  BY DEF IInv, Ground, TypeOK

LEMMA MarkRuns ==
  ASSUME NEW o \in Operation, Placed(o), NEW s \in {"mark", "unmark", "inc", "dec"}, NEW p \in Operation,
         o.kind \in Marks, p.at = s, p.kind = o.kind, p.by = o.by, p.target = o.target, p.on = o.on
  PROVE  Placed(p) /\ \A cs, ks : Tied(o, cs, ks) => Tied(p, cs, ks)
<1>1. Placed(p)
  BY DEF Placed, Marks
<1>2. \A cs, ks : Tied(o, cs, ks) => Tied(p, cs, ks)
  BY DEF Tied, Marks
<1> QED
  BY <1>1, <1>2

LEMMA FindMarkKeeps ==
  ASSUME IInv, NEW r \in Requests, FindMark(r)
  PROVE  IInv'
<1>1. op[r] \in Operation /\ Placed(op[r]) /\ Tied(op[r], contents, comments) /\ Ground
  BY OpOf
<1>2. op[r].at = "find" /\ op[r].kind \in Marks
  BY <1>1, Kinded DEF FindMark, At
<1>3. UNCHANGED <<contents, comments, rows, count, commentCount, known, tagCount, scene, history>>
  BY DEF FindMark
<1>4. \E p \in Operation : /\ op' = [op EXCEPT ![r] = p]
                           /\ p.at \in {"mark", "unmark"} /\ p.kind = op[r].kind /\ p.by = op[r].by
                           /\ p.target = op[r].target /\ p.on = op[r].on
  <2>1. CASE Proceed(r, "mark")
    <3> DEFINE p == [op[r] EXCEPT !.at = "mark"]
    <3>1. /\ p \in Operation /\ p.at = "mark" /\ p.kind = op[r].kind /\ p.by = op[r].by
          /\ p.target = op[r].target /\ p.on = op[r].on
      BY <1>1 DEF Operation, Steps
    <3>2. op' = [op EXCEPT ![r] = p]
      BY <2>1 DEF Proceed, Go
    <3> QED
      BY <3>1, <3>2
  <2>2. CASE \E m \in Own(r) : Go(r, [op[r] EXCEPT !.at = "unmark", !.row = m.id])
    <3>1. PICK m \in Own(r) : op' = [op EXCEPT ![r] = [op[r] EXCEPT !.at = "unmark", !.row = m.id]]
      BY <2>2 DEF Go
    <3>2. m.id \in Requests
      BY <1>1, <1>2 DEF Own, Ground, TypeOK, Row
    <3> DEFINE p == [op[r] EXCEPT !.at = "unmark", !.row = m.id]
    <3>3. /\ p \in Operation /\ p.at = "unmark" /\ p.kind = op[r].kind /\ p.by = op[r].by
          /\ p.target = op[r].target /\ p.on = op[r].on
      BY <1>1, <3>2 DEF Operation, Steps
    <3> QED
      BY <3>1, <3>3
  <2> QED
    BY <2>1, <2>2 DEF FindMark
<1>5. PICK p \in Operation : /\ op' = [op EXCEPT ![r] = p]
                             /\ p.at \in {"mark", "unmark"} /\ p.kind = op[r].kind /\ p.by = op[r].by
                             /\ p.target = op[r].target /\ p.on = op[r].on
  BY <1>4
<1>6. Placed(p) /\ Tied(p, contents, comments)
  BY <1>1, <1>2, <1>5, MarkRuns
<1>7. Quiet(op[r]) /\ Quiet(p)
  BY <1>2, <1>5 DEF Quiet, Marks
<1> QED
  BY <1>2, <1>3, <1>5, <1>6, <1>7, QuietKeeps

\* The row of the request's own user.
LEMMA MarkTyped ==
  ASSUME IInv, NEW r \in Requests, op[r].kind \in Marks
  PROVE  op[r].by \in Users /\ op[r].target \in Targets /\ NewRow(r) \in Row
  BY OpOf DEF Placed, NewRow, Row, Marks

LEMMA MarkKeeps ==
  ASSUME IInv, NEW r \in Requests, Mark(r)
  PROVE  IInv'
<1>1. op[r] \in Operation /\ Placed(op[r]) /\ Tied(op[r], contents, comments) /\ Ground
  BY OpOf
<1>2. op[r].at = "mark" /\ op[r].kind \in Marks
  BY <1>1, Kinded DEF Mark, At
<1>3. UNCHANGED <<contents, comments, count, commentCount, known, tagCount, scene, history>>
  BY DEF Mark
<1>4. CASE Own(r) # {} /\ Done(r) /\ UNCHANGED rows
  <2>1. Quiet(op[r]) /\ Quiet(Over) /\ op[r].at # "over"
    BY <1>2, Slots DEF Quiet, Marks
  <2> QED
    BY <1>3, <1>4, <2>1, Slots, QuietKeeps DEF Done, Go
<1>5. CASE Own(r) = {} /\ rows' = [rows EXCEPT ![op[r].kind] = @ \cup {NewRow(r)}] /\ Proceed(r, "inc")
  <2> DEFINE w == op[r].kind
             t == op[r].target
             p == [op[r] EXCEPT !.at = "inc"]
             n == NewRow(r)
  <2>1. /\ p \in Operation /\ p.at = "inc" /\ p.kind = w /\ p.by = op[r].by /\ p.target = t
        /\ p.on = op[r].on
    BY <1>1 DEF Operation, Steps
  <2>2. op' = [op EXCEPT ![r] = p]
    BY <1>5 DEF Proceed, Go
  <2> HIDE DEF p
  <2>3. Moves(r) /\ op'[r] = p
    BY <1>1, <2>1, <2>2, MovesTo
  <2>4. Placed(p) /\ Tied(p, contents, comments)
    BY <1>1, <1>2, <2>1, MarkRuns
  <2>5. n \in Row /\ n.user = op[r].by /\ n.target = t /\ n.id = r /\ t \in Targets
    BY <1>2, MarkTyped DEF NewRow
  <2>6. \A m \in rows[w] : ~(m.user = n.user /\ m.target = n.target)
    BY <1>5, <2>5 DEF Own
  <2>7. \A v \in Marks : rows'[v] = IF v = w THEN rows[w] \cup {n} ELSE rows[v]
    BY <1>1, <1>2, <1>5 DEF Ground, TypeOK
  <2> HIDE DEF n, w, t
  <2>8. rows' \in [Marks -> SUBSET Row] /\
        \A v \in Marks : \A m, l \in rows'[v] : m.user = l.user /\ m.target = l.target => m = l
    <3>1. DOMAIN rows' = Marks /\ rows' = [v \in Marks |-> rows'[v]]
      BY <1>1, <1>5 DEF Ground, TypeOK, w, n
    <3>2. \A v \in Marks : rows'[v] \in SUBSET Row
      BY <1>1, <2>5, <2>7, <1>2 DEF Ground, TypeOK, w
    <3>3. \A v \in Marks : \A m, l \in rows'[v] : m.user = l.user /\ m.target = l.target => m = l
      BY <1>1, <2>6, <2>7 DEF Ground, TypeOK
    <3> QED
      BY <3>1, <3>2, <3>3
  <2>9. TypeOK'
    BY <1>1, <1>3, <2>3, <2>8 DEF Ground, TypeOK, history, Moves
  <2>10. Zero' /\ Threads' /\ Advance
    <3>1. \A c \in Contents : contents[c].version \in Nat
      BY <1>1 DEF Ground, TypeOK, Content
    <3> QED
      BY <1>1, <1>3, <3>1 DEF Ground, Zero, Threads, Live, history, Advance
  <2>11. Written'
    <3>1. \A v \in Marks : \A m \in rows[v] : m.id # r /\ m.id \in Requests
      BY <1>1, <1>2 DEF Ground, Written, TypeOK, Row
    <3>2. \A v \in Marks : \A m \in rows'[v] : op'[m.id].at \in {"inc", "over"}
      BY <1>1, <2>1, <2>3, <2>5, <2>7, <3>1 DEF Ground, Written, Moves
    <3>3. Born(t)
      BY <1>1, <2>5, Apart DEF Tied, Born, Targets, t
    <3>4. \A v \in Marks : \A m \in rows'[v] : Born(m.target)
      BY <1>1, <2>5, <2>7, <3>3 DEF Ground, Written
    <3>5. \A v \in Marks : \A m, l \in rows'[v] : m.id = l.id => m = l
      BY <1>1, <2>5, <2>7, <3>1 DEF Ground, Written
    <3> QED
      BY <1>3, <3>2, <3>4, <3>5 DEF Written, Born
  <2>12. Ground'
    BY <1>1, <2>3, <2>4, <1>3, <2>9, <2>10, <2>11, StepKeeps DEF Moves
  <2>13. \A x : Live(x)' = Live(x)
    BY <1>3 DEF Live
  <2>14. MarksBalanced'
    <3> SUFFICES ASSUME NEW v \in Marks, NEW x \in Targets, Live(x)
                 PROVE  (count[v][x] + MarksShort(v, x) = Cardinality(Marked(v, x)) + MarksOver(v, x) + drift[v][x])'
      BY <2>13 DEF MarksBalanced
    <3> DEFINE hit == v = w /\ x = t
    <3>1. /\ MarksShort(v, x)' + MarkShort(op[r], v, x) = MarksShort(v, x) + MarkShort(p, v, x)
          /\ MarksOver(v, x)' + MarkOver(op[r], v, x) = MarksOver(v, x) + MarkOver(p, v, x)
          /\ MarksShort(v, x) \in Nat /\ MarksShort(v, x)' \in Nat
          /\ MarksOver(v, x) \in Nat /\ MarksOver(v, x)' \in Nat
      BY <2>3, MarkMoved
    <3>2. /\ MarkShort(op[r], v, x) = 0 /\ MarkOver(op[r], v, x) = 0 /\ MarkOver(p, v, x) = 0
          /\ MarkShort(p, v, x) = IF hit THEN 1 ELSE 0
      BY <1>2, <2>1 DEF MarkShort, MarkOver, One
    <3>3. Cardinality(Marked(v, x))' = Cardinality(Marked(v, x)) + IF hit THEN 1 ELSE 0
      <4>1. Marked(v, x)' = IF hit THEN Marked(v, x) \cup {n} ELSE Marked(v, x)
        BY <2>5, <2>7 DEF Marked
      <4>2. hit => n \notin Marked(v, x)
        BY <2>5, <2>6 DEF Marked
      <4>3. IsFiniteSet(Marked(v, x)) /\ Cardinality(Marked(v, x)) \in Nat
        BY <1>1, MarkedFinite
      <4>4. hit => Cardinality(Marked(v, x) \cup {n}) = Cardinality(Marked(v, x)) + 1
        BY <4>2, <4>3, FS_AddElement
      <4> QED
        BY <4>1, <4>3, <4>4
    <3>4. count[v][x] + MarksShort(v, x) = Cardinality(Marked(v, x)) + MarksOver(v, x) + drift[v][x]
      BY DEF IInv, MarksBalanced
    <3>5. Cardinality(Marked(v, x)) \in Nat /\ count[v][x] \in Int /\ drift[v][x] \in Int
      BY <1>1, MarkedFinite DEF Ground, TypeOK
    <3>6. count' = count /\ drift' = drift
      BY <1>3 DEF history
    <3> HIDE DEF hit
    <3> QED
      BY <3>1, <3>2, <3>3, <3>4, <3>5, <3>6
  <2>15. TagsBalanced'
    <3>1. op[r].kind \notin {"create", "edit", "delete"}
      BY <1>2 DEF Marks
    <3> QED
      BY <1>1, <1>3, <2>1, <2>3, <2>4, <3>1, TagsBeside DEF IInv, history, w
  <2>16. CommentsBalanced'
    <3>1. \A c : CommentsOn(c)' = CommentsOn(c)
      BY <1>3 DEF CommentsOn
    <3> QED
      BY <1>1, <1>2, <1>3, <2>1, <2>3, <2>13, <3>1, CommentsBeside DEF IInv, history
  <2> QED
    BY <2>12, <2>14, <2>15, <2>16 DEF IInv
<1> QED
  BY <1>4, <1>5 DEF Mark

-----------------------------------------------------------------------------
\* A balance moves with the number, the rows, the request and the accidents.
LEMMA MarksStep ==
  ASSUME Ground, MarksBalanced, TypeOK', NEW r \in Requests, Moves(r),
         \A t \in Targets : Live(t)' => Live(t) \/ ~Born(t),
         \A w \in Marks, t \in Targets : Live(t)' =>
           /\ Cardinality(Marked(w, t))' \in Int
           /\ count'[w][t] - count[w][t] + MarkShort(op'[r], w, t) - MarkShort(op[r], w, t)
                = Cardinality(Marked(w, t))' - Cardinality(Marked(w, t))
                    + MarkOver(op'[r], w, t) - MarkOver(op[r], w, t) + drift'[w][t] - drift[w][t]
  PROVE  MarksBalanced'
<1> SUFFICES ASSUME NEW w \in Marks, NEW t \in Targets, Live(t)'
             PROVE  (count[w][t] + MarksShort(w, t) = Cardinality(Marked(w, t)) + MarksOver(w, t) + drift[w][t])'
  BY DEF MarksBalanced
<1>1. /\ MarksShort(w, t)' + MarkShort(op[r], w, t) = MarksShort(w, t) + MarkShort(op'[r], w, t)
      /\ MarksOver(w, t)' + MarkOver(op[r], w, t) = MarksOver(w, t) + MarkOver(op'[r], w, t)
      /\ MarksShort(w, t) \in Nat /\ MarksShort(w, t)' \in Nat
      /\ MarksOver(w, t) \in Nat /\ MarksOver(w, t)' \in Nat
  BY MarkMoved
<1>2. /\ MarkShort(op[r], w, t) \in Int /\ MarkShort(op'[r], w, t) \in Int
      /\ MarkOver(op[r], w, t) \in Int /\ MarkOver(op'[r], w, t) \in Int
  BY DEF MarkShort, MarkOver, One
<1>3. count[w][t] + MarksShort(w, t) = Cardinality(Marked(w, t)) + MarksOver(w, t) + drift[w][t]
  BY MarksBefore
<1>4. /\ count[w][t] \in Int /\ drift[w][t] \in Int /\ count'[w][t] \in Int /\ drift'[w][t] \in Int
      /\ Cardinality(Marked(w, t)) \in Int
  BY MarkedFinite DEF Ground, TypeOK
<1> QED
  BY <1>1, <1>2, <1>3, <1>4

LEMMA TagsStep ==
  ASSUME Ground, TagsBalanced, TypeOK', NEW r \in Requests, Moves(r),
         \A h \in Tags :
           /\ Cardinality(Carriers(h))' \in Int
           /\ tagCount'[h] - tagCount[h] + TagShort(op'[r], h) - TagShort(op[r], h)
                = Cardinality(Carriers(h))' - Cardinality(Carriers(h))
                    + TagOver(op'[r], h) - TagOver(op[r], h) + tagDrift'[h] - tagDrift[h]
  PROVE  TagsBalanced'
<1> SUFFICES ASSUME NEW h \in Tags
             PROVE  (tagCount[h] + TagsShort(h) = Cardinality(Carriers(h)) + TagsOver(h) + tagDrift[h])'
  BY DEF TagsBalanced
<1>1. /\ TagsShort(h)' + TagShort(op[r], h) = TagsShort(h) + TagShort(op'[r], h)
      /\ TagsOver(h)' + TagOver(op[r], h) = TagsOver(h) + TagOver(op'[r], h)
      /\ TagsShort(h) \in Nat /\ TagsShort(h)' \in Nat
      /\ TagsOver(h) \in Nat /\ TagsOver(h)' \in Nat
  BY TagMoved
<1>2. /\ TagShort(op[r], h) \in Int /\ TagShort(op'[r], h) \in Int
      /\ TagOver(op[r], h) \in Int /\ TagOver(op'[r], h) \in Int
  BY DEF TagShort, TagOver, One
<1>3. tagCount[h] + TagsShort(h) = Cardinality(Carriers(h)) + TagsOver(h) + tagDrift[h]
  BY DEF TagsBalanced
<1>4. /\ tagCount[h] \in Int /\ tagDrift[h] \in Int /\ tagCount'[h] \in Int /\ tagDrift'[h] \in Int
  BY DEF Ground, TypeOK
<1>5. Cardinality(Carriers(h)) \in Int
  BY CarriersFinite
<1>6. /\ Cardinality(Carriers(h))' \in Int
      /\ tagCount'[h] - tagCount[h] + TagShort(op'[r], h) - TagShort(op[r], h)
           = Cardinality(Carriers(h))' - Cardinality(Carriers(h))
               + TagOver(op'[r], h) - TagOver(op[r], h) + tagDrift'[h] - tagDrift[h]
  OBVIOUS
<1> QED
  BY <1>1, <1>2, <1>3, <1>4, <1>5, <1>6

LEMMA CommentsStep ==
  ASSUME Ground, CommentsBalanced, TypeOK', NEW r \in Requests, Moves(r),
         \A c \in Contents : Live(c)' => Live(c) \/ ~Born(c),
         \A c \in Contents : Live(c)' =>
           /\ Cardinality(CommentsOn(c))' \in Int
           /\ commentCount'[c] - commentCount[c] + NoteShort(op'[r], c) - NoteShort(op[r], c)
                = Cardinality(CommentsOn(c))' - Cardinality(CommentsOn(c))
                    + NoteOver(op'[r], c) - NoteOver(op[r], c) + commentDrift'[c] - commentDrift[c]
  PROVE  CommentsBalanced'
<1> SUFFICES ASSUME NEW c \in Contents, Live(c)'
             PROVE  (commentCount[c] + NotesShort(c)
                       = Cardinality(CommentsOn(c)) + NotesOver(c) + commentDrift[c])'
  BY DEF CommentsBalanced
<1>1. /\ NotesShort(c)' + NoteShort(op[r], c) = NotesShort(c) + NoteShort(op'[r], c)
      /\ NotesOver(c)' + NoteOver(op[r], c) = NotesOver(c) + NoteOver(op'[r], c)
      /\ NotesShort(c) \in Nat /\ NotesShort(c)' \in Nat
      /\ NotesOver(c) \in Nat /\ NotesOver(c)' \in Nat
  BY NoteMoved
<1>2. /\ NoteShort(op[r], c) \in Int /\ NoteShort(op'[r], c) \in Int
      /\ NoteOver(op[r], c) \in Int /\ NoteOver(op'[r], c) \in Int
  BY DEF NoteShort, NoteOver, One, Moves, Operation
<1>3. commentCount[c] + NotesShort(c) = Cardinality(CommentsOn(c)) + NotesOver(c) + commentDrift[c]
  BY CommentsBefore
<1>4. /\ commentCount[c] \in Int /\ commentDrift[c] \in Int
      /\ commentCount'[c] \in Int /\ commentDrift'[c] \in Int
  BY DEF Ground, TypeOK
<1>5. Cardinality(CommentsOn(c)) \in Int
  BY CommentsFinite
<1> QED
  BY <1>1, <1>2, <1>3, <1>4, <1>5

\* Off moves one drift, of a target that exists.
LEMMA OffMoves ==
  ASSUME Ground, NEW w \in Marks, NEW t \in Targets, NEW by \in Int
  PROVE  /\ Off(w, t, by) \in [Marks -> [Targets -> Int]]
         /\ \A v \in Marks, x \in Targets :
              Off(w, t, by)[v][x] = IF v = w /\ x = t /\ Live(x) THEN drift[v][x] + by ELSE drift[v][x]
<1> DEFINE d == IF Live(t) THEN drift[w][t] + by ELSE drift[w][t]
<1>1. drift \in [Marks -> [Targets -> Int]] /\ drift[w] \in [Targets -> Int] /\ drift[w][t] \in Int
  BY DEF Ground, TypeOK
<1>2. d \in Int
  BY <1>1
<1>3. Off(w, t, by) = [drift EXCEPT ![w][t] = d]
  BY DEF Off
<1> HIDE DEF d
<1>4. Off(w, t, by) \in [Marks -> [Targets -> Int]]
  BY <1>1, <1>2, <1>3
<1>5. \A v \in Marks, x \in Targets : Off(w, t, by)[v][x] = IF v = w /\ x = t THEN d ELSE drift[v][x]
  BY <1>1, <1>3
<1> QED
  BY <1>4, <1>5 DEF d

LEMMA OffCommentsMoves ==
  ASSUME Ground, NEW c \in Contents, NEW by \in Int
  PROVE  /\ OffComments(c, by) \in [Contents -> Int]
         /\ \A x \in Contents :
              OffComments(c, by)[x] = IF x = c /\ Live(x) THEN commentDrift[x] + by ELSE commentDrift[x]
  BY DEF Ground, TypeOK, OffComments

\* Documents and numbers stay, and rows go.
LEMMA RowsGo ==
  ASSUME Ground, NEW r \in Requests, NEW STATE o, o \in Operation, op' = [op EXCEPT ![r] = o],
         Placed(o), Tied(o, contents, comments), op[r].at \notin {"inc", "over"},
         rows' \in [Marks -> SUBSET Row], \A v \in Marks : rows'[v] \subseteq rows[v],
         drift' \in [Marks -> [Targets -> Int]],
         \A v \in Marks, x \in Targets : ~Live(x) => drift'[v][x] = drift[v][x],
         UNCHANGED <<contents, comments, count, commentCount, known, tagCount, scene, tagDrift, commentDrift>>
  PROVE  Ground'
<1>1. \A v \in Marks : \A m, l \in rows'[v] : m.user = l.user /\ m.target = l.target => m = l
  BY DEF Ground, TypeOK
<1>2. TypeOK'
  BY <1>1 DEF Ground, TypeOK
<1>3. Zero'
  BY DEF Ground, Zero, Live
<1> QED
  BY <1>2, <1>3, SlotKeeps

LEMMA RowsCounted ==
  ASSUME Ground, NEW w \in Marks, NEW t \in Targets, rows' = [rows EXCEPT ![w] = rows'[w]],
         rows'[w] \subseteq rows[w], rows[w] \ rows'[w] \subseteq Marked(w, t)
  PROVE  /\ rows' \in [Marks -> SUBSET Row] /\ \A v \in Marks : rows'[v] \subseteq rows[v]
         /\ \A v \in Marks, x \in Targets :
              /\ Cardinality(Marked(v, x))' \in Int
              /\ Cardinality(Marked(v, x))'
                   = Cardinality(Marked(v, x)) - (IF v = w /\ x = t THEN Cardinality(rows[w] \ rows'[w]) ELSE 0)
<1> DEFINE gone == rows[w] \ rows'[w]
<1>1. \A v \in Marks : rows'[v] = IF v = w THEN rows[w] \ gone ELSE rows[v]
  BY DEF Ground, TypeOK
<1>2. \A v \in Marks : rows'[v] \subseteq rows[v]
  BY <1>1
<1>3. rows' \in [Marks -> SUBSET Row]
  BY <1>2 DEF Ground, TypeOK
<1>5. gone \subseteq Marked(w, t)
  OBVIOUS
<1> HIDE DEF gone
<1>4. ASSUME NEW v \in Marks, NEW x \in Targets
      PROVE  /\ Cardinality(Marked(v, x))' \in Int
             /\ Cardinality(Marked(v, x))' = Cardinality(Marked(v, x))
                                               - (IF v = w /\ x = t THEN Cardinality(gone) ELSE 0)
  <2>1. IsFiniteSet(Marked(v, x)) /\ Cardinality(Marked(v, x)) \in Nat
    BY MarkedFinite
  <2>2. CASE v = w /\ x = t
    <3>1. Marked(v, x)' = Marked(v, x) \ gone
      BY <1>1, <2>2 DEF Marked
    <3>2. IsFiniteSet(gone) /\ Cardinality(gone) \in Nat
      BY <1>5, <2>1, <2>2, FS_Subset, FS_CardinalityType
    <3>3. Cardinality(Marked(v, x) \ gone) = Cardinality(Marked(v, x)) - Cardinality(Marked(v, x) \cap gone)
      BY <2>1, FS_Difference
    <3>4. Marked(v, x) \cap gone = gone
      BY <1>5, <2>2
    <3>5. Cardinality(Marked(v, x) \ gone) = Cardinality(Marked(v, x)) - Cardinality(gone)
      BY <3>3, <3>4
    <3> QED
      BY <2>1, <2>2, <3>1, <3>2, <3>5
  <2>3. CASE ~(v = w /\ x = t)
    <3>1. Marked(v, x)' = Marked(v, x)
      BY <1>1, <2>3 DEF Marked
    <3> QED
      BY <2>1, <2>3, <3>1
  <2> QED
    BY <2>2, <2>3
<1> QED
  BY <1>2, <1>3, <1>4 DEF gone

LEMMA UnmarkKeeps ==
  ASSUME IInv, NEW r \in Requests, Unmark(r)
  PROVE  IInv'
<1> DEFINE w == op[r].kind
           t == op[r].target
           found == {m \in Marked(w, t) : m.id = op[r].row}
           by == Cardinality(found) - 1
           p == [op[r] EXCEPT !.at = "dec"]
<1>1. op[r] \in Operation /\ Placed(op[r]) /\ Tied(op[r], contents, comments) /\ Ground
  BY OpOf
<1>2. op[r].at = "unmark" /\ w \in Marks
  BY <1>1, Kinded DEF Unmark, At
<1>3. t \in Targets /\ op[r].by \in Users
  BY <1>2, MarkTyped
<1>4. /\ rows' = [rows EXCEPT ![w] = @ \ found] /\ drift' = Off(w, t, by)
      /\ op' = [op EXCEPT ![r] = p]
      /\ UNCHANGED <<contents, comments, count, commentCount, known, tagCount, scene, tagDrift, commentDrift>>
  BY DEF Unmark, Proceed, Go
<1>5. /\ p \in Operation /\ p.at = "dec" /\ p.kind = w /\ p.by = op[r].by /\ p.target = t
      /\ p.on = op[r].on
  BY <1>1 DEF Operation, Steps
<1>15. found \in SUBSET Marked(w, t)
  OBVIOUS
<1> HIDE DEF found
<1>9. Cardinality(found) \in Nat /\ by \in Int /\ Cardinality(found) = 1 + by
  <2>1. IsFiniteSet(found)
    BY <1>1, <1>2, <1>3, <1>15, MarkedFinite, FS_Subset
  <2>2. Cardinality(found) \in Nat
    BY <2>1, FS_CardinalityType
  <2> QED
    BY <2>2
<1> HIDE DEF by
<1> HIDE DEF p
<1>7. Moves(r) /\ op'[r] = p
  BY <1>1, <1>4, <1>5, MovesTo
<1>8. Placed(p) /\ Tied(p, contents, comments)
  BY <1>1, <1>2, <1>5, MarkRuns
<1> HIDE DEF w, t
<1>18. /\ rows' = [rows EXCEPT ![w] = rows'[w]] /\ rows'[w] \subseteq rows[w]
       /\ rows[w] \ rows'[w] = found /\ rows[w] \ rows'[w] \subseteq Marked(w, t)
  BY <1>1, <1>2, <1>4, <1>15 DEF Ground, TypeOK, Marked
<1>10. /\ rows' \in [Marks -> SUBSET Row] /\ \A v \in Marks : rows'[v] \subseteq rows[v]
       /\ \A v \in Marks, x \in Targets :
            /\ Cardinality(Marked(v, x))' \in Int
            /\ Cardinality(Marked(v, x))' = Cardinality(Marked(v, x))
                                              - (IF v = w /\ x = t THEN Cardinality(found) ELSE 0)
  BY <1>1, <1>2, <1>3, <1>18, RowsCounted
<1>16. /\ drift' \in [Marks -> [Targets -> Int]]
       /\ \A v \in Marks, x \in Targets :
            drift'[v][x] = IF v = w /\ x = t /\ Live(x) THEN drift[v][x] + by ELSE drift[v][x]
  BY <1>1, <1>2, <1>3, <1>4, <1>9, OffMoves
<1>17. Ground'
  <2>1. \A v \in Marks, x \in Targets : ~Live(x) => drift'[v][x] = drift[v][x]
    BY <1>16
  <2>2. op[r].at \notin {"inc", "over"}
    BY <1>2
  <2> QED
    BY <1>1, <1>4, <1>5, <1>8, <1>10, <1>16, <2>1, <2>2, RowsGo
<1>11. \A x : Live(x)' = Live(x)
  BY <1>4 DEF Live
<1>12. MarksBalanced'
  <2>1. ASSUME NEW v \in Marks, NEW x \in Targets, Live(x)'
        PROVE  count'[v][x] - count[v][x] + MarkShort(op'[r], v, x) - MarkShort(op[r], v, x)
                = Cardinality(Marked(v, x))' - Cardinality(Marked(v, x))
                    + MarkOver(op'[r], v, x) - MarkOver(op[r], v, x) + drift'[v][x] - drift[v][x]
    <3>1. /\ MarkShort(op[r], v, x) = 0 /\ MarkOver(op[r], v, x) = 0 /\ MarkShort(op'[r], v, x) = 0
          /\ MarkOver(op'[r], v, x) = IF v = w /\ x = t THEN 1 ELSE 0
      BY <1>2, <1>5, <1>7 DEF MarkShort, MarkOver, One
    <3>2. drift'[v][x] = IF v = w /\ x = t THEN drift[v][x] + by ELSE drift[v][x]
      BY <1>11, <1>16, <2>1
    <3>3. drift[v][x] \in Int /\ count[v][x] \in Int /\ count' = count /\ Cardinality(Marked(v, x)) \in Nat
      BY <1>1, <1>4, MarkedFinite DEF Ground, TypeOK
    <3>4. /\ Cardinality(Marked(v, x))' = Cardinality(Marked(v, x))
                                              - (IF v = w /\ x = t THEN Cardinality(found) ELSE 0)
      BY <1>10
    <3> QED
      BY <1>9, <3>1, <3>2, <3>3, <3>4
  <2> QED
    BY <1>1, <1>7, <1>10, <1>11, <1>17, <2>1, MarksStep DEF IInv, Ground
<1>13. TagsBalanced'
  <2>1. op[r].kind \notin {"create", "edit", "delete"} /\ p.kind \notin {"create", "edit", "delete"}
    BY <1>2, <1>5 DEF Marks, w
  <2> QED
    BY <1>1, <1>4, <1>7, <1>8, <2>1, TagsBeside DEF IInv
<1>14. CommentsBalanced'
  <2>1. \A c : CommentsOn(c)' = CommentsOn(c)
    BY <1>4 DEF CommentsOn
  <2> QED
    BY <1>1, <1>2, <1>4, <1>5, <1>7, <1>11, <2>1, Apart, CommentsBeside DEF IInv
<1> QED
  BY <1>12, <1>13, <1>14, <1>17 DEF IInv

LEMMA CountMarkKeeps ==
  ASSUME IInv, NEW r \in Requests, CountMark(r)
  PROVE  IInv'
<1> DEFINE w == op[r].kind
           t == op[r].target
           by == IF op[r].at = "inc" THEN 1 ELSE -1
<1>1. op[r] \in Operation /\ Placed(op[r]) /\ Tied(op[r], contents, comments) /\ Ground
  BY OpOf
<1>2. op[r].at \in {"inc", "dec"} /\ w \in Marks
  BY <1>1, Kinded DEF CountMark
<1>3. t \in Targets
  BY <1>2, MarkTyped
<1>4. /\ count' = [count EXCEPT ![w][t] = IF Live(t) THEN @ + by ELSE @]
      /\ op' = [op EXCEPT ![r] = Over]
      /\ UNCHANGED <<contents, comments, rows, commentCount, known, tagCount, scene, history>>
  BY DEF CountMark, Done, Go, At
<1>5. by \in Int /\ (op[r].at = "inc" => by = 1) /\ (op[r].at = "dec" => by = -1)
  BY <1>2
<1> HIDE DEF by, w, t
<1>6. Moves(r) /\ op'[r] = Over
  BY <1>1, <1>4, Slots, MovesTo
<1>7. /\ count' \in [Marks -> [Targets -> Int]]
      /\ \A v \in Marks, x \in Targets :
           count'[v][x] = IF v = w /\ x = t /\ Live(x) THEN count[v][x] + by ELSE count[v][x]
  <2>1. count \in [Marks -> [Targets -> Int]]
    BY <1>1 DEF Ground, TypeOK
  <2> QED
    BY <1>2, <1>3, <1>4, <1>5, <2>1
<1>8. TypeOK'
  BY <1>1, <1>4, <1>6, <1>7 DEF Ground, TypeOK, history, Moves
<1>9. Zero'
  BY <1>1, <1>4, <1>7 DEF Ground, Zero, Live, history
<1>10. Ground'
  <2>1. \A v \in Marks : rows'[v] \subseteq rows[v]
    BY <1>4
  <2> QED
    BY <1>1, <1>4, <1>8, <1>9, <2>1, Slots, SlotKeeps
<1>11. \A x : Live(x)' = Live(x)
  BY <1>4 DEF Live
<1>12. MarksBalanced'
  <2>1. ASSUME NEW v \in Marks, NEW x \in Targets, Live(x)'
        PROVE  /\ Cardinality(Marked(v, x))' \in Int
               /\ count'[v][x] - count[v][x] + MarkShort(op'[r], v, x) - MarkShort(op[r], v, x)
                    = Cardinality(Marked(v, x))' - Cardinality(Marked(v, x))
                        + MarkOver(op'[r], v, x) - MarkOver(op[r], v, x) + drift'[v][x] - drift[v][x]
    <3>1. /\ MarkShort(op'[r], v, x) = 0 /\ MarkOver(op'[r], v, x) = 0
          /\ MarkShort(op[r], v, x) = IF v = w /\ x = t /\ op[r].at = "inc" THEN 1 ELSE 0
          /\ MarkOver(op[r], v, x) = IF v = w /\ x = t /\ op[r].at = "dec" THEN 1 ELSE 0
      BY <1>6, Slots DEF MarkShort, MarkOver, One, w, t
    <3>2. count'[v][x] = IF v = w /\ x = t THEN count[v][x] + by ELSE count[v][x]
      BY <1>7, <1>11, <2>1
    <3>3. drift[v][x] \in Int /\ count[v][x] \in Int /\ drift' = drift
      BY <1>1, <1>4 DEF Ground, TypeOK, history
    <3>4. Cardinality(Marked(v, x))' = Cardinality(Marked(v, x)) /\ Cardinality(Marked(v, x)) \in Nat
      BY <1>1, <1>4, MarkedFinite DEF Marked
    <3> QED
      BY <1>2, <1>5, <3>1, <3>2, <3>3, <3>4
  <2> QED
    BY <1>1, <1>6, <1>8, <1>11, <2>1, MarksStep DEF IInv
<1>13. TagsBalanced'
  <2>1. op[r].kind \notin {"create", "edit", "delete"} /\ Over.kind \notin {"create", "edit", "delete"}
    BY <1>2, Slots DEF Marks, w
  <2> QED
    BY <1>1, <1>4, <1>6, <2>1, Slots, TagsBeside DEF IInv, history
<1>14. CommentsBalanced'
  <2>1. \A c : CommentsOn(c)' = CommentsOn(c)
    BY <1>4 DEF CommentsOn
  <2> QED
    BY <1>1, <1>2, <1>4, <1>6, <1>11, <2>1, Slots, Apart, CommentsBeside DEF IInv, history
<1> QED
  BY <1>10, <1>12, <1>13, <1>14 DEF IInv

\* deleteMany of the likes or saves of one target.
LEMMA SweepFacts ==
  ASSUME Ground, NEW w \in Marks, NEW t \in Targets, Sweep(w, t)
  PROVE  /\ rows' \in [Marks -> SUBSET Row] /\ \A v \in Marks : rows'[v] \subseteq rows[v]
         /\ drift' \in [Marks -> [Targets -> Int]]
         /\ \A v \in Marks, x \in Targets : ~Live(x) => drift'[v][x] = drift[v][x]
         /\ \A v \in Marks, x \in Targets :
              /\ Cardinality(Marked(v, x)) \in Int /\ Cardinality(Marked(v, x))' \in Int
              /\ Live(x) => Cardinality(Marked(v, x))' - Cardinality(Marked(v, x)) + drift'[v][x] - drift[v][x] = 0
<1> DEFINE n == Cardinality(Marked(w, t))
<1>1. n \in Nat
  BY MarkedFinite
<1>2. /\ rows' = [rows EXCEPT ![w] = rows'[w]] /\ rows'[w] \subseteq rows[w]
      /\ rows[w] \ rows'[w] = Marked(w, t) /\ rows[w] \ rows'[w] \subseteq Marked(w, t)
  BY DEF Ground, TypeOK, Marked, Sweep
<1>3. /\ drift' = Off(w, t, n)
  BY DEF Sweep
<1>8. /\ rows' \in [Marks -> SUBSET Row] /\ \A v \in Marks : rows'[v] \subseteq rows[v]
      /\ \A v \in Marks, x \in Targets :
           /\ Cardinality(Marked(v, x))' \in Int
           /\ Cardinality(Marked(v, x))' = Cardinality(Marked(v, x))
                                             - (IF v = w /\ x = t THEN Cardinality(rows[w] \ rows'[w]) ELSE 0)
  BY <1>2, RowsCounted
<1>9. Cardinality(rows[w] \ rows'[w]) = n
  BY <1>2
<1> HIDE DEF n
<1>4. /\ rows' \in [Marks -> SUBSET Row] /\ \A v \in Marks : rows'[v] \subseteq rows[v]
      /\ \A v \in Marks, x \in Targets :
           /\ Cardinality(Marked(v, x))' \in Int
           /\ Cardinality(Marked(v, x))' = Cardinality(Marked(v, x)) - (IF v = w /\ x = t THEN n ELSE 0)
  BY <1>8, <1>9
<1>10. n \in Int
  BY <1>1
<1>5. /\ drift' \in [Marks -> [Targets -> Int]]
      /\ \A v \in Marks, x \in Targets :
           drift'[v][x] = IF v = w /\ x = t /\ Live(x) THEN drift[v][x] + n ELSE drift[v][x]
  BY <1>3, <1>10, OffMoves
<1>6. ASSUME NEW v \in Marks, NEW x \in Targets
      PROVE  /\ Cardinality(Marked(v, x)) \in Int /\ Cardinality(Marked(v, x))' \in Int
             /\ Live(x) => Cardinality(Marked(v, x))' - Cardinality(Marked(v, x)) + drift'[v][x] - drift[v][x] = 0
  <2>1. Cardinality(Marked(v, x)) \in Nat /\ drift[v][x] \in Int
    BY MarkedFinite DEF Ground, TypeOK
  <2>2. /\ Cardinality(Marked(v, x))' \in Int
        /\ Cardinality(Marked(v, x))' = Cardinality(Marked(v, x)) - (IF v = w /\ x = t THEN n ELSE 0)
    BY <1>4
  <2>3. Live(x) => drift'[v][x] = IF v = w /\ x = t THEN drift[v][x] + n ELSE drift[v][x]
    BY <1>5
  <2> QED
    BY <1>1, <2>1, <2>2, <2>3
<1>7. \A v \in Marks, x \in Targets : ~Live(x) => drift'[v][x] = drift[v][x]
  BY <1>5
<1> QED
  BY <1>4, <1>5, <1>6, <1>7

\* A sweep by a deletion keeps what likes and saves have to do with.
LEMMA SweepKeeps ==
  ASSUME IInv, NEW w \in Marks, NEW t \in Targets, Sweep(w, t),
         NEW r \in Requests, NEW STATE o, o \in Operation, op' = [op EXCEPT ![r] = o],
         Placed(o), Tied(o, contents, comments),
         op[r].kind \in {"delete", "uncomment"}, o.kind \in {"delete", "uncomment"},
         UNCHANGED <<contents, comments, count, commentCount, known, tagCount, scene, tagDrift, commentDrift>>
  PROVE  Ground' /\ MarksBalanced'
<1>1. op[r] \in Operation /\ Placed(op[r]) /\ Tied(op[r], contents, comments) /\ Ground
  BY OpOf
<1>2. op[r].at \notin {"inc", "over"}
  BY <1>1 DEF Placed
<1>3. /\ rows' \in [Marks -> SUBSET Row] /\ \A v \in Marks : rows'[v] \subseteq rows[v]
      /\ drift' \in [Marks -> [Targets -> Int]]
      /\ \A v \in Marks, x \in Targets : ~Live(x) => drift'[v][x] = drift[v][x]
      /\ \A v \in Marks, x \in Targets :
           /\ Cardinality(Marked(v, x)) \in Int /\ Cardinality(Marked(v, x))' \in Int
           /\ Live(x) => Cardinality(Marked(v, x))' - Cardinality(Marked(v, x)) + drift'[v][x] - drift[v][x] = 0
  BY <1>1, SweepFacts
<1>4. Ground'
  BY <1>1, <1>2, <1>3, RowsGo
<1>5. Moves(r) /\ op'[r] = o
  BY <1>1, MovesTo
<1>6. \A x : Live(x)' = Live(x)
  BY DEF Live
<1>7. ASSUME NEW v \in Marks, NEW x \in Targets, Live(x)'
      PROVE  /\ Cardinality(Marked(v, x))' \in Int
             /\ count'[v][x] - count[v][x] + MarkShort(op'[r], v, x) - MarkShort(op[r], v, x)
                  = Cardinality(Marked(v, x))' - Cardinality(Marked(v, x))
                      + MarkOver(op'[r], v, x) - MarkOver(op[r], v, x) + drift'[v][x] - drift[v][x]
  <2>1. /\ MarkShort(op[r], v, x) = 0 /\ MarkOver(op[r], v, x) = 0
        /\ MarkShort(op'[r], v, x) = 0 /\ MarkOver(op'[r], v, x) = 0
    BY <1>5 DEF MarkShort, MarkOver, One, Marks
  <2>2. /\ Cardinality(Marked(v, x)) \in Int /\ Cardinality(Marked(v, x))' \in Int
        /\ Cardinality(Marked(v, x))' - Cardinality(Marked(v, x)) + drift'[v][x] - drift[v][x] = 0
    BY <1>3, <1>6, <1>7
  <2>3. count[v][x] \in Int /\ count' = count /\ drift[v][x] \in Int /\ drift'[v][x] \in Int
    BY <1>1, <1>3 DEF Ground, TypeOK
  <2> QED
    BY <2>1, <2>2, <2>3
<1>8. MarksBalanced'
  BY <1>1, <1>4, <1>5, <1>6, <1>7, MarksStep DEF IInv, Ground
<1> QED
  BY <1>4, <1>8

LEMMA DropLikesKeeps ==
  ASSUME IInv, NEW r \in Requests, DropLikes(r)
  PROVE  IInv'
<1> DEFINE p == [op[r] EXCEPT !.at = "uncount"]
<1>1. op[r] \in Operation /\ Placed(op[r]) /\ Tied(op[r], contents, comments) /\ Ground
  BY OpOf
<1>2. op[r].at = "dropLikes" /\ op[r].kind = "uncomment" /\ op[r].target \in Comments
  BY <1>1, Kinded DEF DropLikes, At, Placed
<1>3. /\ p \in Operation /\ p.at = "uncount" /\ p.kind = "uncomment" /\ p.by = op[r].by
      /\ p.target = op[r].target /\ p.on = op[r].on /\ p.n = op[r].n
  BY <1>1, <1>2 DEF Operation, Steps
<1>4. /\ op' = [op EXCEPT ![r] = p] /\ Sweep("likes", op[r].target)
      /\ UNCHANGED <<contents, comments, count, commentCount, known, tagCount, scene, tagDrift, commentDrift>>
  BY DEF DropLikes, Proceed, Go
<1> HIDE DEF p
<1>5. Placed(p) /\ Tied(p, contents, comments)
  <2>1. Placed(p)
    BY <1>1, <1>2, <1>3 DEF Placed, Marks
  <2> QED
    BY <1>1, <1>2, <1>3, <2>1 DEF Tied
<1>6. Ground' /\ MarksBalanced'
  BY <1>2, <1>3, <1>4, <1>5, Apart, SweepKeeps DEF Marks
<1>7. Moves(r) /\ op'[r] = p
  BY <1>1, <1>3, <1>4, MovesTo
<1>8. TagsBalanced'
  BY <1>1, <1>2, <1>3, <1>4, <1>5, <1>7, TagsBeside DEF IInv
<1>9. CommentsBalanced'
  <2>1. \A c : CommentsOn(c)' = CommentsOn(c) /\ Live(c)' = Live(c)
    BY <1>4 DEF CommentsOn, Live
  <2>2. \A c \in Contents : NoteShort(op'[r], c) = NoteShort(op[r], c) /\ NoteOver(op'[r], c) = NoteOver(op[r], c)
    BY <1>2, <1>3, <1>7 DEF NoteShort, NoteOver
  <2> QED
    BY <1>1, <1>4, <1>7, <2>1, <2>2, CommentsAside DEF IInv
<1> QED
  BY <1>6, <1>8, <1>9 DEF IInv

-----------------------------------------------------------------------------
LEMMA CommentRuns ==
  ASSUME NEW o \in Operation, Placed(o), o.kind \in {"comment", "uncomment"}, NEW p \in Operation,
         p.kind = o.kind, p.by = o.by, p.target = o.target, p.on = o.on,
         o.kind = "comment" => p.at = "count",
         o.kind = "uncomment" => p.at \in {"replies", "drop", "dropLikes", "uncount", "erase"}
  PROVE  Placed(p) /\ \A cs, ks : Tied(o, cs, ks) => Tied(p, cs, ks)
<1>1. Placed(p)
  BY DEF Placed, Marks
<1>2. p.at # "create" /\ p.at # "save"
  OBVIOUS
<1>3. \A cs, ks : Tied(o, cs, ks) => Tied(p, cs, ks)
  BY <1>2 DEF Tied
<1> QED
  BY <1>1, <1>3

LEMMA FindParentKeeps ==
  ASSUME IInv, NEW r \in Requests, FindParent(r)
  PROVE  IInv'
<1> DEFINE p == [op[r] EXCEPT !.at = "create"]
<1>1. op[r] \in Operation /\ Placed(op[r]) /\ Tied(op[r], contents, comments) /\ Ground
  BY OpOf
<1>2. /\ op[r].at = "parent" /\ op[r].kind = "comment" /\ op[r].target = None /\ op[r].on \in Contents
      /\ op[r].parent \in Comments /\ op[r].by \in Users
  BY <1>1, Kinded DEF FindParent, At, Placed
<1>3. UNCHANGED <<contents, comments, rows, count, commentCount, known, tagCount, scene, history>>
  BY DEF FindParent
<1>4. /\ p \in Operation /\ p.at = "create" /\ p.kind = "comment" /\ p.by = op[r].by
      /\ p.target = None /\ p.on = op[r].on /\ p.parent = op[r].parent
  BY <1>1, <1>2 DEF Operation, Steps
<1>5. \/ op' = [op EXCEPT ![r] = Over]
      \/ op' = [op EXCEPT ![r] = p] /\ comments[op[r].parent].on = op[r].on
  BY DEF FindParent, Proceed, Done, Go
<1> HIDE DEF p
<1>6. Quiet(op[r]) /\ Quiet(Over) /\ Quiet(p)
  BY <1>2, <1>4, Slots DEF Quiet
<1>7. CASE op' = [op EXCEPT ![r] = Over]
  BY <1>2, <1>3, <1>6, <1>7, Slots, QuietKeeps
<1>8. CASE op' = [op EXCEPT ![r] = p] /\ comments[op[r].parent].on = op[r].on
  <2>1. Placed(p)
    BY <1>2, <1>4 DEF Placed, Marks
  <2>2. Tied(p, contents, comments)
    BY <1>1, <1>2, <1>4, <1>8, Apart DEF Tied
  <2> QED
    BY <1>2, <1>3, <1>4, <1>6, <1>8, <2>1, <2>2, QuietKeeps
<1> QED
  BY <1>5, <1>7, <1>8

LEMMA CountRepliesKeeps ==
  ASSUME IInv, NEW r \in Requests, CountReplies(r)
  PROVE  IInv'
<1> DEFINE p == [op[r] EXCEPT !.at = "drop", !.n = Cardinality(Replies(op[r].target))]
<1>1. op[r] \in Operation /\ Placed(op[r]) /\ Tied(op[r], contents, comments) /\ Ground
  BY OpOf
<1>2. op[r].at = "replies" /\ op[r].kind = "uncomment" /\ op[r].target \in Comments
  BY <1>1, Kinded DEF CountReplies, At, Placed
<1>3. /\ op' = [op EXCEPT ![r] = p]
      /\ UNCHANGED <<contents, comments, rows, count, commentCount, known, tagCount, scene, history>>
  BY DEF CountReplies, Go
<1>4. Cardinality(Replies(op[r].target)) \in Nat
  BY <1>2, RepliesFinite
<1>5. /\ p \in Operation /\ p.at = "drop" /\ p.kind = "uncomment" /\ p.by = op[r].by
      /\ p.target = op[r].target /\ p.on = op[r].on
  BY <1>1, <1>2, <1>4 DEF Operation, Steps
<1> HIDE DEF p
<1>6. Placed(p) /\ Tied(p, contents, comments)
  BY <1>1, <1>2, <1>5, CommentRuns
<1>7. Quiet(op[r]) /\ Quiet(p)
  BY <1>2, <1>5 DEF Quiet
<1> QED
  BY <1>2, <1>3, <1>5, <1>6, <1>7, QuietKeeps

\* The steps that change commentCount and nothing of the documents.
LEMMA CountNotesKeeps ==
  ASSUME IInv, NEW r \in Requests, NEW STATE o, o \in Operation, op' = [op EXCEPT ![r] = o],
         Placed(o), Tied(o, contents, comments), op[r].kind \in {"comment", "uncomment"},
         o.kind \in {"comment", "uncomment", "none"},
         NEW by \in Int,
         commentCount' = [commentCount EXCEPT ![op[r].on] = IF Live(op[r].on) THEN @ + by ELSE @],
         \A c \in Contents : NoteShort(o, c) - NoteShort(op[r], c) + (IF c = op[r].on THEN by ELSE 0)
                               = NoteOver(o, c) - NoteOver(op[r], c),
         UNCHANGED <<contents, comments, rows, count, known, tagCount, scene, history>>
  PROVE  IInv'
<1>1. op[r] \in Operation /\ Placed(op[r]) /\ Tied(op[r], contents, comments) /\ Ground
  BY OpOf
<1>2. op[r].on \in Contents /\ op[r].at \notin {"inc", "over"}
  BY <1>1 DEF Placed
<1>3. /\ commentCount' \in [Contents -> Int]
      /\ \A c \in Contents :
           commentCount'[c] = IF c = op[r].on /\ Live(c) THEN commentCount[c] + by ELSE commentCount[c]
  <2>1. commentCount \in [Contents -> Int]
    BY <1>1 DEF Ground, TypeOK
  <2> QED
    BY <1>2, <2>1
<1>4. Moves(r) /\ op'[r] = o
  BY <1>1, MovesTo
<1>5. TypeOK'
  BY <1>1, <1>3, <1>4 DEF Ground, TypeOK, history, Moves
<1>6. Zero'
  BY <1>1, <1>3 DEF Ground, Zero, Live, history
<1>7. Ground'
  BY <1>1, <1>2, <1>5, <1>6, SlotKeeps
<1>8. \A x : Live(x)' = Live(x) /\ CommentsOn(x)' = CommentsOn(x)
  BY DEF Live, CommentsOn
<1>9. MarksBalanced'
  BY <1>1, <1>4, <1>8, MarksBeside DEF IInv, history, Marks
<1>10. TagsBalanced'
  BY <1>1, <1>4, TagsBeside DEF IInv, history
<1>11. CommentsBalanced'
  <2>1. ASSUME NEW c \in Contents, Live(c)'
        PROVE  /\ Cardinality(CommentsOn(c))' \in Int
               /\ commentCount'[c] - commentCount[c] + NoteShort(op'[r], c) - NoteShort(op[r], c)
                    = Cardinality(CommentsOn(c))' - Cardinality(CommentsOn(c))
                        + NoteOver(op'[r], c) - NoteOver(op[r], c) + commentDrift'[c] - commentDrift[c]
    <3>1. commentCount'[c] = IF c = op[r].on THEN commentCount[c] + by ELSE commentCount[c]
      BY <1>3, <1>8, <2>1
    <3>2. Cardinality(CommentsOn(c))' = Cardinality(CommentsOn(c)) /\ Cardinality(CommentsOn(c)) \in Nat
      BY <1>8, CommentsFinite
    <3>3. commentCount[c] \in Int /\ commentDrift[c] \in Int /\ commentDrift' = commentDrift
      BY <1>1 DEF Ground, TypeOK, history
    <3>4. /\ NoteShort(o, c) \in Int /\ NoteShort(op[r], c) \in Int
          /\ NoteOver(o, c) \in Int /\ NoteOver(op[r], c) \in Int
      BY <1>1 DEF NoteShort, NoteOver, One, Operation
    <3>5. NoteShort(o, c) - NoteShort(op[r], c) + (IF c = op[r].on THEN by ELSE 0)
            = NoteOver(o, c) - NoteOver(op[r], c)
      OBVIOUS
    <3> DEFINE a == NoteShort(o, c)
               b == NoteShort(op[r], c)
               d == NoteOver(o, c)
               e == NoteOver(op[r], c)
               step == IF c = op[r].on THEN by ELSE 0
    <3>6. a \in Int /\ b \in Int /\ d \in Int /\ e \in Int /\ step \in Int /\ a - b + step = d - e
      BY <3>4, <3>5
    <3>7. commentCount'[c] = commentCount[c] + step
      BY <3>1, <3>3
    <3> HIDE DEF a, b, d, e, step
    <3>8. /\ commentCount'[c] - commentCount[c] + a - b = d - e + commentDrift'[c] - commentDrift[c]
          /\ Cardinality(CommentsOn(c))' - Cardinality(CommentsOn(c)) = 0
      BY <3>2, <3>3, <3>6, <3>7
    <3>9. Cardinality(CommentsOn(c))' \in Int /\ commentDrift'[c] \in Int /\ commentCount'[c] \in Int
      BY <3>2, <3>3, <3>6, <3>7
    <3> QED
      BY <1>4, <3>2, <3>3, <3>6, <3>8, <3>9 DEF a, b, d, e
  <2> QED
    BY <1>1, <1>4, <1>5, <1>8, <2>1, CommentsStep DEF IInv
<1> QED
  BY <1>7, <1>9, <1>10, <1>11 DEF IInv

LEMMA CountCommentKeeps ==
  ASSUME IInv, NEW r \in Requests, CountComment(r)
  PROVE  IInv'
<1>1. op[r] \in Operation /\ Placed(op[r]) /\ Tied(op[r], contents, comments) /\ Ground
  BY OpOf
<1>2. op[r].at = "count" /\ op[r].kind = "comment"
  BY <1>1, Kinded DEF CountComment, At
<1> DEFINE by == 1
<1>3. /\ op' = [op EXCEPT ![r] = Over] /\ by \in Int
      /\ commentCount' = [commentCount EXCEPT ![op[r].on] = IF Live(op[r].on) THEN @ + by ELSE @]
      /\ UNCHANGED <<contents, comments, rows, count, known, tagCount, scene, history>>
  BY DEF CountComment, Done, Go
<1>4. \A c \in Contents : NoteShort(Over, c) - NoteShort(op[r], c) + (IF c = op[r].on THEN by ELSE 0)
                            = NoteOver(Over, c) - NoteOver(op[r], c)
  BY <1>2, Slots DEF NoteShort, NoteOver, One
<1> HIDE DEF by
<1> QED
  BY <1>2, <1>3, <1>4, Slots, CountNotesKeeps

LEMMA UncountKeeps ==
  ASSUME IInv, NEW r \in Requests, Uncount(r)
  PROVE  IInv'
<1> DEFINE p == [op[r] EXCEPT !.at = "erase"]
           by == 0 - (1 + op[r].n)
<1>1. op[r] \in Operation /\ Placed(op[r]) /\ Tied(op[r], contents, comments) /\ Ground
  BY OpOf
<1>2. op[r].at = "uncount" /\ op[r].kind = "uncomment" /\ op[r].on \in Contents /\ op[r].n \in Nat
  BY <1>1, Kinded DEF Uncount, At, Placed, Operation
<1>3. /\ p \in Operation /\ p.at = "erase" /\ p.kind = "uncomment" /\ p.by = op[r].by
      /\ p.target = op[r].target /\ p.on = op[r].on
  BY <1>1, <1>2 DEF Operation, Steps
<1>4. /\ op' = [op EXCEPT ![r] = p]
      /\ UNCHANGED <<contents, comments, rows, count, known, tagCount, scene, history>>
  BY DEF Uncount, Proceed, Go
<1>5. commentCount[op[r].on] \in Int
  BY <1>1, <1>2 DEF Ground, TypeOK
<1>6. commentCount[op[r].on] - (1 + op[r].n) = commentCount[op[r].on] + by /\ by \in Int
  BY <1>2, <1>5
<1>7. commentCount' = [commentCount EXCEPT ![op[r].on] = IF Live(op[r].on) THEN @ + by ELSE @]
  BY <1>6 DEF Uncount
<1>8. \A c \in Contents : NoteShort(p, c) - NoteShort(op[r], c) + (IF c = op[r].on THEN by ELSE 0)
                            = NoteOver(p, c) - NoteOver(op[r], c)
  BY <1>2, <1>3 DEF NoteShort, NoteOver, One
<1> HIDE DEF p, by
<1>9. Placed(p) /\ Tied(p, contents, comments)
  BY <1>1, <1>2, <1>3, CommentRuns
<1> QED
  BY <1>2, <1>3, <1>4, <1>6, <1>7, <1>8, <1>9, CountNotesKeeps

-----------------------------------------------------------------------------
\* Nothing moves but texts, and what is hidden.
LEMMA StillKeeps ==
  ASSUME IInv, contents' \in [Contents -> Content], comments' \in [Comments -> Comment],
         \A c \in Contents : /\ contents'[c].life = contents[c].life /\ contents'[c].tags = contents[c].tags
                             /\ contents'[c].version = contents[c].version,
         \A k \in Comments : /\ comments'[k].life = comments[k].life /\ comments'[k].on = comments[k].on
                             /\ comments'[k].parent = comments[k].parent,
         UNCHANGED <<rows, count, commentCount, known, tagCount, op, scene, history>>
  PROVE  IInv'
<1>1. Ground /\ MarksBalanced /\ TagsBalanced /\ CommentsBalanced
  BY DEF IInv
<1>2. \A c \in Contents : Live(c)' = Live(c)
  BY DEF Live
<1>9. \A k \in Comments : Live(k)' = Live(k)
  BY Apart DEF Live
<1>10. \A t \in Targets : Live(t)' = Live(t)
  BY <1>2, <1>9 DEF Targets
<1>3. TypeOK'
  BY <1>1 DEF Ground, TypeOK, history
<1>4. Zero' /\ Threads'
  <2>1. Zero'
    BY <1>1, <1>2, <1>10 DEF Ground, Zero, history
  <2>2. Threads'
    BY <1>1 DEF Ground, Threads
  <2> QED
    BY <2>1, <2>2
<1>5. Advance
  <2>1. \A c \in Contents : contents[c].version \in Nat
    BY <1>1 DEF Ground, TypeOK, Content
  <2> QED
    BY <2>1 DEF Advance
<1>6. Ground'
  <2>1. Written'
    BY <1>1, <1>3, <1>5, WrittenStill
  <2> QED
    BY <1>1, <1>3, <1>4, <1>5, <2>1, StepKeeps
<1>7. /\ \A w, t : MarksShort(w, t)' = MarksShort(w, t) /\ MarksOver(w, t)' = MarksOver(w, t)
      /\ \A h : TagsShort(h)' = TagsShort(h) /\ TagsOver(h)' = TagsOver(h)
      /\ \A c : NotesShort(c)' = NotesShort(c) /\ NotesOver(c)' = NotesOver(c)
  BY DEF MarksShort, MarksOver, TagsShort, TagsOver, NotesShort, NotesOver
<1>8. /\ \A w, t : Marked(w, t)' = Marked(w, t)
      /\ \A h : Carriers(h)' = Carriers(h) /\ \A c : CommentsOn(c)' = CommentsOn(c)
  BY DEF Marked, Carriers, CommentsOn
<1>11. MarksBalanced'
  BY <1>1, <1>7, <1>8, <1>10 DEF MarksBalanced, history
<1>12. TagsBalanced'
  BY <1>1, <1>7, <1>8 DEF TagsBalanced, history
<1>13. CommentsBalanced'
  BY <1>1, <1>2, <1>7, <1>8 DEF CommentsBalanced, history
<1> QED
  BY <1>6, <1>11, <1>12, <1>13 DEF IInv

LEMMA HideContentKeeps ==
  ASSUME IInv, NEW c \in Contents, HideContent(c)
  PROVE  IInv'
<1>1. contents \in [Contents -> Content] /\ comments \in [Comments -> Comment]
  BY DEF IInv, Ground, TypeOK
<1>2. /\ contents' = [contents EXCEPT ![c].hidden = ~@]
      /\ UNCHANGED <<comments, rows, count, commentCount, known, tagCount, op, scene, history>>
  BY DEF HideContent
<1>3. contents' \in [Contents -> Content]
  BY <1>1, <1>2 DEF Content
<1>4. \A x \in Contents : /\ contents'[x].life = contents[x].life /\ contents'[x].tags = contents[x].tags
                          /\ contents'[x].version = contents[x].version
  BY <1>1, <1>2 DEF Content
<1> QED
  BY <1>1, <1>2, <1>3, <1>4, StillKeeps

LEMMA HideCommentKeeps ==
  ASSUME IInv, NEW k \in Comments, HideComment(k)
  PROVE  IInv'
<1>1. contents \in [Contents -> Content] /\ comments \in [Comments -> Comment]
  BY DEF IInv, Ground, TypeOK
<1>2. /\ comments' = [comments EXCEPT ![k].hidden = ~@]
      /\ UNCHANGED <<contents, rows, count, commentCount, known, tagCount, op, scene, history>>
  BY DEF HideComment
<1>3. comments' \in [Comments -> Comment]
  BY <1>1, <1>2 DEF Comment
<1>4. \A x \in Comments : /\ comments'[x].life = comments[x].life /\ comments'[x].on = comments[x].on
                          /\ comments'[x].parent = comments[x].parent
  BY <1>1, <1>2 DEF Comment
<1> QED
  BY <1>1, <1>2, <1>3, <1>4, StillKeeps

-----------------------------------------------------------------------------
LEMMA CreateCommentKeeps ==
  ASSUME IInv, NEW r \in Requests, NEW k \in Comments, CreateComment(r, k)
  PROVE  IInv'
<1> DEFINE p == [op[r] EXCEPT !.at = "count"]
           c == op[r].on
           new == [life |-> "live", author |-> op[r].by, on |-> c, parent |-> op[r].parent, hidden |-> FALSE]
<1>1. op[r] \in Operation /\ Placed(op[r]) /\ Tied(op[r], contents, comments) /\ Ground
  BY OpOf
<1>2. op[r].at = "create" /\ op[r].kind = "comment" /\ c \in Contents /\ op[r].by \in Users
  BY <1>1, Kinded DEF CreateComment, At, Placed
<1>3. /\ comments[k].life = "unborn" /\ comments' = [comments EXCEPT ![k] = new]
      /\ op' = [op EXCEPT ![r] = p]
      /\ UNCHANGED <<contents, rows, count, commentCount, known, tagCount, scene, history>>
  BY DEF CreateComment, Proceed, Go
<1>4. /\ p \in Operation /\ p.at = "count" /\ p.kind = "comment" /\ p.by = op[r].by
      /\ p.target = op[r].target /\ p.on = c
  BY <1>1, <1>2 DEF Operation, Steps
<1>5. new \in Comment /\ new.life = "live" /\ new.on = c /\ new.parent = op[r].parent
  BY <1>1, <1>2 DEF Operation, Comment, Life
<1> HIDE DEF p, new
<1>6. Moves(r) /\ op'[r] = p
  BY <1>1, <1>3, <1>4, MovesTo
<1>7. \A a \in Comments : comments'[a] = IF a = k THEN new ELSE comments[a]
  BY <1>1, <1>3 DEF Ground, TypeOK
<1>8. comments[k].on = None
  BY <1>1, <1>3 DEF Ground, Threads
<1>9. TypeOK'
  BY <1>1, <1>3, <1>5, <1>6 DEF Ground, TypeOK, history, Moves
<1>10. Advance
  <2>1. \A x \in Contents : contents[x].version \in Nat
    BY <1>1 DEF Ground, TypeOK, Content
  <2> QED
    BY <1>3, <1>7, <1>8, <2>1 DEF Advance
<1>11. \A x \in Contents : Live(x)' = Live(x)
  BY <1>3 DEF Live
<1>12. \A t \in Targets : Live(t)' <=> Live(t) \/ t = k
  BY <1>3, <1>5, <1>7, Apart DEF Live, Targets
<1>13. Zero'
  BY <1>1, <1>3, <1>11, <1>12 DEF Ground, Zero, history
<1>14. Threads'
  <2>1. contents[c].life # "unborn"
    BY <1>1, <1>2 DEF Tied
  <2>2. op[r].parent \in Comments => comments[op[r].parent].on = c /\ op[r].parent # k
    BY <1>1, <1>2, <1>8, Apart DEF Tied
  <2>3. \A a \in Comments : comments[a].parent # k
    BY <1>1, <1>8, Apart DEF Ground, Threads
  <2>4. ASSUME NEW a \in Comments
        PROVE  /\ comments'[a].life = "unborn" <=> comments'[a].on = None
               /\ comments'[a].on \in Contents => contents'[comments'[a].on].life # "unborn"
               /\ comments'[a].life # "live" => comments'[a].parent = None
               /\ comments'[a].parent \in Comments => comments'[comments'[a].parent].on = comments'[a].on
    <3>1. CASE a = k
      BY <1>2, <1>3, <1>5, <1>7, <2>1, <2>2, <3>1, Apart
    <3>2. CASE a # k
      BY <1>1, <1>3, <1>7, <2>3, <3>2 DEF Ground, Threads
    <3> QED
      BY <3>1, <3>2
  <2> QED
    BY <2>4 DEF Threads
<1>15. Placed(p) /\ Tied(p, contents', comments')
  <2>1. Placed(p) /\ Tied(p, contents, comments)
    BY <1>1, <1>2, <1>4, CommentRuns
  <2>2. p.target = None
    BY <1>1, <1>2, <1>4 DEF Placed
  <2> QED
    BY <1>3, <1>4, <2>1, <2>2, Apart DEF Tied
<1>16. Written'
  BY <1>1, <1>2, <1>3, <1>4, <1>6, <1>9, <1>10, WrittenStill DEF Moves
<1>17. Ground'
  BY <1>1, <1>6, <1>9, <1>10, <1>13, <1>14, <1>15, <1>16, StepKeeps DEF Moves
<1>18. \A t \in Targets : Live(t)' => Live(t) \/ ~Born(t)
  BY <1>8, <1>12, Apart DEF Born
<1>19. MarksBalanced'
  BY <1>1, <1>2, <1>3, <1>4, <1>6, <1>18, MarksBeside DEF IInv, history, Marks
<1>20. TagsBalanced'
  BY <1>1, <1>2, <1>3, <1>4, <1>6, <1>15, TagsBeside DEF IInv, history
<1>21. CommentsBalanced'
  <2>1. ASSUME NEW x \in Contents, Live(x)'
        PROVE  /\ Cardinality(CommentsOn(x))' \in Int
               /\ commentCount'[x] - commentCount[x] + NoteShort(op'[r], x) - NoteShort(op[r], x)
                    = Cardinality(CommentsOn(x))' - Cardinality(CommentsOn(x))
                        + NoteOver(op'[r], x) - NoteOver(op[r], x) + commentDrift'[x] - commentDrift[x]
    <3>1. /\ NoteShort(op[r], x) = 0 /\ NoteOver(op[r], x) = 0 /\ NoteOver(op'[r], x) = 0
          /\ NoteShort(op'[r], x) = IF x = c THEN 1 ELSE 0
      BY <1>2, <1>4, <1>6 DEF NoteShort, NoteOver, One
    <3>2. IsFiniteSet(CommentsOn(x)) /\ Cardinality(CommentsOn(x)) \in Nat
      BY CommentsFinite
    <3>3. CommentsOn(x)' = IF x = c THEN CommentsOn(x) \cup {k} ELSE CommentsOn(x)
      BY <1>3, <1>5, <1>7 DEF CommentsOn
    <3>4. k \notin CommentsOn(x)
      BY <1>3 DEF CommentsOn
    <3>5. Cardinality(CommentsOn(x) \cup {k}) = Cardinality(CommentsOn(x)) + 1
      BY <3>2, <3>4, FS_AddElement
    <3>6. Cardinality(CommentsOn(x))' = Cardinality(CommentsOn(x)) + IF x = c THEN 1 ELSE 0
      BY <3>2, <3>3, <3>5
    <3>7. /\ commentCount[x] \in Int /\ commentDrift[x] \in Int
          /\ commentCount' = commentCount /\ commentDrift' = commentDrift
      BY <1>1, <1>3 DEF Ground, TypeOK, history
    <3> QED
      BY <3>1, <3>2, <3>6, <3>7
  <2> QED
    BY <1>1, <1>6, <1>9, <1>11, <2>1, CommentsStep DEF IInv
<1> QED
  BY <1>17, <1>19, <1>20, <1>21 DEF IInv

-----------------------------------------------------------------------------
\* deleteMany of comments: those of one content, or replies to one of its comments.
Erasing(K, c) == /\ K \subseteq Comments /\ c \in Contents /\ \A k \in K : comments[k].on = c
                 /\ EraseComments(K)

LEMMA EraseGround ==
  ASSUME IInv, NEW K, NEW c, Erasing(K, c),
         NEW r \in Requests, NEW STATE o, o \in Operation, op' = [op EXCEPT ![r] = o],
         Placed(o), Tied(o, contents, comments), op[r].kind \in {"delete", "uncomment"},
         commentDrift' \in [Contents -> Int],
         \A x \in Contents : ~Live(x) => commentDrift'[x] = commentDrift[x],
         UNCHANGED <<contents, rows, commentCount, known, tagCount, scene, tagDrift>>
  PROVE  /\ Ground' /\ \A x \in Contents : Live(x)' = Live(x)
         /\ \A t \in Targets : Live(t)' => Live(t) /\ t \notin K
         /\ \A w \in Marks, t \in Targets : t \notin K => count'[w][t] = count[w][t] /\ drift'[w][t] = drift[w][t]
<1>1. op[r] \in Operation /\ Placed(op[r]) /\ Tied(op[r], contents, comments) /\ Ground
  BY OpOf
<1>2. op[r].at \notin {"inc", "over"}
  BY <1>1 DEF Placed
<1>3. /\ K \subseteq Comments /\ c \in Contents /\ \A k \in K : comments[k].on = c
      /\ comments' = [k \in Comments |-> IF k \in K THEN Erased(comments[k].on) ELSE comments[k]]
      /\ count' = Without(count, K) /\ drift' = Without(drift, K)
  BY DEF Erasing, EraseComments
<1>4. \A x \in Contents : Erased(x) \in Comment /\ Erased(x).life = "gone" /\ Erased(x).on = x /\ Erased(x).parent = None
  BY DEF Erased, Unsaid, Comment, Life
<1>5. comments \in [Comments -> Comment] /\ count \in [Marks -> [Targets -> Int]] /\ drift \in [Marks -> [Targets -> Int]]
  BY <1>1 DEF Ground, TypeOK
<1>6. comments' \in [Comments -> Comment]
  BY <1>3, <1>4, <1>5
<1>7. \A k \in Comments :
        /\ comments'[k].on = comments[k].on
        /\ k \in K => comments'[k].life = "gone" /\ comments'[k].parent = None
        /\ k \notin K => comments'[k] = comments[k]
  BY <1>3, <1>4
<1>8. /\ count' \in [Marks -> [Targets -> Int]] /\ drift' \in [Marks -> [Targets -> Int]]
      /\ \A w \in Marks, t \in Targets :
           /\ t \in K => count'[w][t] = 0 /\ drift'[w][t] = 0
           /\ t \notin K => count'[w][t] = count[w][t] /\ drift'[w][t] = drift[w][t]
  BY <1>3, <1>5 DEF Without
<1>9. \A x \in Contents : Live(x)' = Live(x) /\ x \notin K
  BY <1>3, Apart DEF Live
<1>10. \A k \in Comments : Live(k)' <=> Live(k) /\ k \notin K
  BY <1>7, Apart DEF Live
<1>11. \A t \in Targets : Live(t)' <=> Live(t) /\ t \notin K
  BY <1>9, <1>10 DEF Targets
<1>12. Moves(r) /\ op'[r] = o
  BY <1>1, MovesTo
<1>13. TypeOK'
  BY <1>1, <1>6, <1>8, <1>12 DEF Ground, TypeOK, Moves
<1>14. Zero'
  <2>1. \A t \in Targets, w \in Marks : ~Live(t)' => count'[w][t] = 0 /\ drift'[w][t] = 0
    BY <1>1, <1>8, <1>11 DEF Ground, Zero
  <2>2. \A x \in Contents : ~Live(x)' => commentCount'[x] = 0 /\ commentDrift'[x] = 0 /\ contents'[x].tags = {}
    BY <1>1, <1>9 DEF Ground, Zero
  <2> QED
    BY <2>1, <2>2 DEF Zero
<1>15. Threads'
  <2>1. \A k \in K : comments[k].life # "unborn" /\ comments[k].on # None
    BY <1>1, <1>3, Apart DEF Ground, Threads
  <2>2. ASSUME NEW a \in Comments
        PROVE  /\ comments'[a].life = "unborn" <=> comments'[a].on = None
               /\ comments'[a].on \in Contents => contents'[comments'[a].on].life # "unborn"
               /\ comments'[a].life # "live" => comments'[a].parent = None
               /\ comments'[a].parent \in Comments => comments'[comments'[a].parent].on = comments'[a].on
    <3>1. CASE a \in K
      BY <1>1, <1>7, <2>1, <3>1, Apart DEF Ground, Threads
    <3>2. CASE a \notin K
      BY <1>1, <1>7, <3>2 DEF Ground, Threads
    <3> QED
      BY <3>1, <3>2
  <2> QED
    BY <2>2 DEF Threads
<1>16. Advance
  <2>1. \A x \in Contents : contents[x].version \in Nat
    BY <1>1 DEF Ground, TypeOK, Content
  <2> QED
    BY <1>7, <2>1 DEF Advance
<1>17. Written'
  BY <1>1, <1>2, <1>12, <1>13, <1>16, WrittenStill DEF Moves
<1>18. Tied(o, contents', comments')
  <2>1. \A k \in Comments : comments'[k].on = comments[k].on
    BY <1>7
  <2>2. o.kind = "uncomment" => o.target \in Comments
    BY DEF Placed
  <2> QED
    BY <2>1, <2>2 DEF Tied
<1>19. Ground'
  BY <1>1, <1>12, <1>13, <1>14, <1>15, <1>16, <1>17, <1>18, StepKeeps DEF Moves
<1> QED
  BY <1>8, <1>9, <1>11, <1>19

LEMMA EraseMarks ==
  ASSUME IInv, Ground', NEW K, NEW r \in Requests, Moves(r), op[r].kind \notin Marks, op'[r].kind \notin Marks,
         UNCHANGED rows, \A t \in Targets : Live(t)' => Live(t) /\ t \notin K,
         \A w \in Marks, t \in Targets : t \notin K => count'[w][t] = count[w][t] /\ drift'[w][t] = drift[w][t]
  PROVE  MarksBalanced'
<1>1. Ground
  BY DEF IInv
<1>2. ASSUME NEW w \in Marks, NEW t \in Targets, Live(t)'
      PROVE  /\ Cardinality(Marked(w, t))' \in Int
             /\ count'[w][t] - count[w][t] + MarkShort(op'[r], w, t) - MarkShort(op[r], w, t)
                  = Cardinality(Marked(w, t))' - Cardinality(Marked(w, t))
                      + MarkOver(op'[r], w, t) - MarkOver(op[r], w, t) + drift'[w][t] - drift[w][t]
  <2>1. /\ MarkShort(op[r], w, t) = 0 /\ MarkOver(op[r], w, t) = 0
        /\ MarkShort(op'[r], w, t) = 0 /\ MarkOver(op'[r], w, t) = 0
    BY DEF MarkShort, MarkOver, One
  <2>2. Marked(w, t)' = Marked(w, t) /\ Cardinality(Marked(w, t)) \in Nat
    BY <1>1, MarkedFinite DEF Marked
  <2>3. count'[w][t] = count[w][t] /\ drift'[w][t] = drift[w][t] /\ count[w][t] \in Int /\ drift[w][t] \in Int
    BY <1>1, <1>2 DEF Ground, TypeOK
  <2> QED
    BY <2>1, <2>2, <2>3
<1> QED
  BY <1>1, <1>2, MarksStep DEF IInv, Ground

LEMMA EraseCounted ==
  ASSUME IInv, NEW K, NEW c, Erasing(K, c)
  PROVE  \A x \in Contents :
           /\ Cardinality(CommentsOn(x)) \in Int /\ Cardinality(CommentsOn(x))' \in Int
           /\ Cardinality(K \cap CommentsOn(x)) \in Nat
           /\ Cardinality(CommentsOn(x))' = Cardinality(CommentsOn(x))
                                              - (IF x = c THEN Cardinality(K \cap CommentsOn(x)) ELSE 0)
<1> SUFFICES ASSUME NEW x \in Contents
             PROVE  /\ Cardinality(CommentsOn(x)) \in Int /\ Cardinality(CommentsOn(x))' \in Int
                    /\ Cardinality(K \cap CommentsOn(x)) \in Nat
                    /\ Cardinality(CommentsOn(x))' = Cardinality(CommentsOn(x))
                                              - (IF x = c THEN Cardinality(K \cap CommentsOn(x)) ELSE 0)
  OBVIOUS
<1>1. /\ K \subseteq Comments /\ c \in Contents /\ \A k \in K : comments[k].on = c
      /\ comments' = [k \in Comments |-> IF k \in K THEN Erased(comments[k].on) ELSE comments[k]]
  BY DEF Erasing, EraseComments
<1>2. \A y \in Contents : Erased(y).life = "gone"
  BY DEF Erased, Unsaid
<1>3. CommentsOn(x)' = CommentsOn(x) \ K
  BY <1>1, <1>2 DEF CommentsOn
<1>4. IsFiniteSet(CommentsOn(x)) /\ Cardinality(CommentsOn(x)) \in Nat
  BY CommentsFinite
<1>5. Cardinality(CommentsOn(x) \ K) = Cardinality(CommentsOn(x)) - Cardinality(CommentsOn(x) \cap K)
  BY <1>4, FS_Difference
<1>6. CommentsOn(x) \cap K = K \cap CommentsOn(x) /\ IsFiniteSet(K \cap CommentsOn(x))
  BY <1>4, FS_Subset
<1>7. Cardinality(K \cap CommentsOn(x)) \in Nat
  BY <1>6, FS_CardinalityType
<1>8. x # c => K \cap CommentsOn(x) = {} /\ Cardinality(K \cap CommentsOn(x)) = 0
  BY <1>1, FS_EmptySet DEF CommentsOn
<1> QED
  BY <1>3, <1>4, <1>5, <1>6, <1>7, <1>8

\* The number of comments when the drift takes what was erased and the request's own.
LEMMA EraseNotes ==
  ASSUME IInv, Ground', NEW K, NEW c, Erasing(K, c), NEW r \in Requests, Moves(r), UNCHANGED commentCount,
         \A x \in Contents : Live(x)' = Live(x), NEW by \in Int, commentDrift' = OffComments(c, by),
         \A x \in Contents :
           NoteShort(op'[r], x) - NoteShort(op[r], x) = NoteOver(op'[r], x) - NoteOver(op[r], x)
             + (IF x = c THEN by - Cardinality(K \cap CommentsOn(x)) ELSE 0)
  PROVE  CommentsBalanced'
<1>1. Ground /\ c \in Contents
  BY DEF IInv, Erasing
<1>2. ASSUME NEW x \in Contents, Live(x)'
      PROVE  /\ Cardinality(CommentsOn(x))' \in Int
             /\ commentCount'[x] - commentCount[x] + NoteShort(op'[r], x) - NoteShort(op[r], x)
                  = Cardinality(CommentsOn(x))' - Cardinality(CommentsOn(x))
                      + NoteOver(op'[r], x) - NoteOver(op[r], x) + commentDrift'[x] - commentDrift[x]
  <2> DEFINE a == NoteShort(op'[r], x)
             b == NoteShort(op[r], x)
             d == NoteOver(op'[r], x)
             e == NoteOver(op[r], x)
             m == Cardinality(CommentsOn(x))
             n == Cardinality(CommentsOn(x))'
             g == Cardinality(K \cap CommentsOn(x))
  <2>1. m \in Int /\ n \in Int /\ g \in Nat /\ n = m - (IF x = c THEN g ELSE 0)
    BY EraseCounted
  <2>2. a - b = d - e + (IF x = c THEN by - g ELSE 0)
    OBVIOUS
  <2>3. a \in Int /\ b \in Int /\ d \in Int /\ e \in Int
    BY DEF NoteShort, NoteOver, One, Moves, Operation
  <2>4. commentDrift'[x] = IF x = c THEN commentDrift[x] + by ELSE commentDrift[x]
    BY <1>1, <1>2, OffCommentsMoves
  <2>5. commentDrift[x] \in Int /\ commentCount[x] \in Int /\ commentCount'[x] = commentCount[x]
    BY <1>1 DEF Ground, TypeOK
  <2> HIDE DEF a, b, d, e, m, n, g
  <2>6. commentCount'[x] - commentCount[x] + a - b = n - m + d - e + commentDrift'[x] - commentDrift[x]
    BY <2>1, <2>2, <2>3, <2>4, <2>5
  <2> QED
    BY <2>1, <2>6 DEF a, b, d, e, m, n
<1> QED
  BY <1>1, <1>2, CommentsStep DEF IInv, Ground

-----------------------------------------------------------------------------
LEMMA DropRepliesKeeps ==
  ASSUME IInv, NEW r \in Requests, DropReplies(r)
  PROVE  IInv'
<1> DEFINE p == [op[r] EXCEPT !.at = "dropLikes"]
           c == op[r].on
           K == Replies(op[r].target)
           n == Cardinality(K)
           by == n - op[r].n
<1>1. op[r] \in Operation /\ Placed(op[r]) /\ Tied(op[r], contents, comments) /\ Ground
  BY OpOf
<1>2. op[r].at = "drop" /\ op[r].kind = "uncomment" /\ op[r].target \in Comments /\ c \in Contents /\ op[r].n \in Nat
  BY <1>1, Kinded DEF DropReplies, At, Placed, Operation
<1>3. /\ op' = [op EXCEPT ![r] = p] /\ EraseComments(K) /\ commentDrift' = OffComments(c, by)
      /\ UNCHANGED <<contents, rows, commentCount, known, tagCount, scene, tagDrift>>
  BY DEF DropReplies, Proceed, Go
<1>4. /\ p \in Operation /\ p.at = "dropLikes" /\ p.kind = "uncomment" /\ p.by = op[r].by
      /\ p.target = op[r].target /\ p.on = op[r].on /\ p.n = op[r].n
  BY <1>1, <1>2 DEF Operation, Steps
<1>5. n \in Nat /\ by \in Int
  BY <1>2, RepliesFinite
<1>6. K \subseteq Comments /\ \A k \in K : comments[k].on = c /\ comments[k].life = "live"
  BY <1>1, <1>2, Apart DEF Replies, Ground, Threads, Tied
<1>7. K \cap CommentsOn(c) = K
  BY <1>6 DEF CommentsOn
<1>8. Erasing(K, c)
  BY <1>2, <1>3, <1>6 DEF Erasing
<1> HIDE DEF p, K
<1>9. \A x \in Contents :
        NoteShort(p, x) - NoteShort(op[r], x) = NoteOver(p, x) - NoteOver(op[r], x)
          + (IF x = c THEN by - Cardinality(K \cap CommentsOn(x)) ELSE 0)
  <2> SUFFICES ASSUME NEW x \in Contents
               PROVE  NoteShort(p, x) - NoteShort(op[r], x) = NoteOver(p, x) - NoteOver(op[r], x)
                        + (IF x = c THEN by - Cardinality(K \cap CommentsOn(x)) ELSE 0)
    OBVIOUS
  <2>1. /\ NoteShort(p, x) = 0 /\ NoteShort(op[r], x) = 0 /\ NoteOver(op[r], x) = 0
        /\ NoteOver(p, x) = IF x = c THEN op[r].n ELSE 0
    BY <1>2, <1>4 DEF NoteShort, NoteOver, One
  <2>2. x = c => Cardinality(K \cap CommentsOn(x)) = n
    BY <1>7
  <2> QED
    BY <1>2, <1>5, <2>1, <2>2
<1> HIDE DEF by, n
<1>10. Placed(p) /\ Tied(p, contents, comments)
  BY <1>1, <1>2, <1>4, CommentRuns
<1>11. /\ commentDrift' \in [Contents -> Int]
       /\ \A x \in Contents : ~Live(x) => commentDrift'[x] = commentDrift[x]
  BY <1>1, <1>2, <1>3, <1>5, OffCommentsMoves
<1>12. Moves(r) /\ op'[r] = p
  BY <1>1, <1>3, <1>4, MovesTo
<1>13. /\ Ground' /\ \A x \in Contents : Live(x)' = Live(x)
       /\ \A t \in Targets : Live(t)' => Live(t) /\ t \notin K
       /\ \A w \in Marks, t \in Targets : t \notin K => count'[w][t] = count[w][t] /\ drift'[w][t] = drift[w][t]
  <2>1. op[r].kind \in {"delete", "uncomment"} /\ p \in Operation
    BY <1>2, <1>4
  <2>2. op' = [op EXCEPT ![r] = p] /\ UNCHANGED <<contents, rows, commentCount, known, tagCount, scene, tagDrift>>
    BY <1>3
  <2> HIDE DEF c
  <2> QED
    BY <1>8, <1>10, <1>11, <2>1, <2>2, EraseGround
<1>14. MarksBalanced'
  BY <1>2, <1>3, <1>4, <1>12, <1>13, EraseMarks DEF Marks
<1>15. TagsBalanced'
  BY <1>1, <1>2, <1>3, <1>4, <1>10, <1>12, TagsBeside DEF IInv
<1>16. CommentsBalanced'
  <2>1. by \in Int /\ commentDrift' = OffComments(c, by) /\ UNCHANGED commentCount
    BY <1>3, <1>5
  <2>2. \A x \in Contents :
          NoteShort(op'[r], x) - NoteShort(op[r], x) = NoteOver(op'[r], x) - NoteOver(op[r], x)
            + (IF x = c THEN by - Cardinality(K \cap CommentsOn(x)) ELSE 0)
    BY <1>9, <1>12
  <2>3. Ground' /\ Moves(r) /\ \A x \in Contents : Live(x)' = Live(x)
    BY <1>12, <1>13
  <2> HIDE DEF c
  <2> QED
    BY <1>8, <2>1, <2>2, <2>3, EraseNotes
<1> QED
  BY <1>13, <1>14, <1>15, <1>16 DEF IInv

LEMMA EraseCommentKeeps ==
  ASSUME IInv, NEW r \in Requests, EraseComment(r)
  PROVE  IInv'
<1> DEFINE t == op[r].target
           c == op[r].on
           K == {t}
           by == One(comments[t].life = "live") - 1
<1>1. op[r] \in Operation /\ Placed(op[r]) /\ Tied(op[r], contents, comments) /\ Ground
  BY OpOf
<1>2. op[r].at = "erase" /\ op[r].kind = "uncomment" /\ t \in Comments /\ c \in Contents
  BY <1>1, Kinded DEF EraseComment, At, Placed
<1>3. /\ op' = [op EXCEPT ![r] = Over] /\ EraseComments(K) /\ commentDrift' = OffComments(c, by)
      /\ UNCHANGED <<contents, rows, commentCount, known, tagCount, scene, tagDrift>>
  BY DEF EraseComment, Done, Go
<1>4. comments[t].on = c
  BY <1>1, <1>2 DEF Tied
<1>5. by \in Int /\ by = IF comments[t].life = "live" THEN 0 ELSE 0 - 1
  BY DEF One
<1>6. Cardinality(K \cap CommentsOn(c)) = IF comments[t].life = "live" THEN 1 ELSE 0
  <2>1. CASE comments[t].life = "live"
    <3>1. K \cap CommentsOn(c) = {t}
      BY <1>2, <1>4, <2>1 DEF CommentsOn
    <3> QED
      BY <2>1, <3>1, FS_Singleton
  <2>2. CASE comments[t].life # "live"
    <3>1. K \cap CommentsOn(c) = {}
      BY <2>2 DEF CommentsOn
    <3> QED
      BY <2>2, <3>1, FS_EmptySet
  <2> QED
    BY <2>1, <2>2
<1>7. Erasing(K, c)
  BY <1>2, <1>3, <1>4 DEF Erasing
<1> HIDE DEF K, by
<1>8. \A x \in Contents :
        NoteShort(Over, x) - NoteShort(op[r], x) = NoteOver(Over, x) - NoteOver(op[r], x)
          + (IF x = c THEN by - Cardinality(K \cap CommentsOn(x)) ELSE 0)
  <2> SUFFICES ASSUME NEW x \in Contents
               PROVE  NoteShort(Over, x) - NoteShort(op[r], x) = NoteOver(Over, x) - NoteOver(op[r], x)
                        + (IF x = c THEN by - Cardinality(K \cap CommentsOn(x)) ELSE 0)
    OBVIOUS
  <2>1. /\ NoteShort(Over, x) = 0 /\ NoteOver(op[r], x) = 0 /\ NoteOver(Over, x) = 0
        /\ NoteShort(op[r], x) = IF x = c THEN 1 ELSE 0
    BY <1>2, Slots DEF NoteShort, NoteOver, One
  <2>2. x = c => by - Cardinality(K \cap CommentsOn(x)) = 0 - 1
    BY <1>5, <1>6
  <2> QED
    BY <2>1, <2>2
<1>9. /\ commentDrift' \in [Contents -> Int]
      /\ \A x \in Contents : ~Live(x) => commentDrift'[x] = commentDrift[x]
  BY <1>1, <1>2, <1>3, <1>5, OffCommentsMoves
<1>10. Moves(r) /\ op'[r] = Over
  BY <1>1, <1>3, Slots, MovesTo
<1>11. /\ Ground' /\ \A x \in Contents : Live(x)' = Live(x)
       /\ \A y \in Targets : Live(y)' => Live(y) /\ y \notin K
       /\ \A w \in Marks, y \in Targets : y \notin K => count'[w][y] = count[w][y] /\ drift'[w][y] = drift[w][y]
  BY <1>2, <1>3, <1>7, <1>9, Slots, EraseGround
<1>12. MarksBalanced'
  BY <1>2, <1>3, <1>10, <1>11, Slots, EraseMarks DEF Marks
<1>13. TagsBalanced'
  BY <1>1, <1>2, <1>3, <1>10, Slots, TagsBeside DEF IInv
<1>14. CommentsBalanced'
  <2>1. by \in Int /\ commentDrift' = OffComments(c, by) /\ UNCHANGED commentCount
    BY <1>3, <1>5
  <2>2. \A x \in Contents :
          NoteShort(op'[r], x) - NoteShort(op[r], x) = NoteOver(op'[r], x) - NoteOver(op[r], x)
            + (IF x = c THEN by - Cardinality(K \cap CommentsOn(x)) ELSE 0)
    BY <1>8, <1>10
  <2>3. Ground' /\ Moves(r) /\ \A x \in Contents : Live(x)' = Live(x)
    BY <1>10, <1>11
  <2> HIDE DEF c
  <2> QED
    BY <1>7, <2>1, <2>2, <2>3, EraseNotes
<1> QED
  BY <1>11, <1>12, <1>13, <1>14 DEF IInv

-----------------------------------------------------------------------------
\* A request of a content goes on to its hashtags, or past them.
Syncs(s, o, add, sub) ==
  /\ s = SyncHashtags(o, add, sub) /\ o \in Operation /\ add \subseteq Tags /\ sub \subseteq Tags
  /\ o.kind \in {"create", "edit", "delete"} /\ o.by \in Users /\ o.target \in Contents /\ o.on = None
  /\ o.kind = "create" => sub = {}
  /\ o.kind = "delete" => add = {} /\ sub \subseteq o.tags

LEMMA Synced ==
  ASSUME NEW s, NEW o, NEW add, NEW sub, Syncs(s, o, add, sub)
  PROVE  /\ s \in Operation /\ Placed(s) /\ s.kind \in {o.kind, "none"} /\ s.on = None
         /\ o.kind = "delete" => s.kind = "delete"
         /\ s.at \in {"tags", "remove", "over"}
         /\ \A cs, ks : cs[o.target].life # "unborn" => Tied(s, cs, ks)
         /\ \A h : /\ TagShort(s, h) = IF h \in add \/ (o.kind = "delete" /\ h \in o.tags \ sub) THEN 1 ELSE 0
                   /\ TagOver(s, h) = IF o.kind = "edit" /\ h \in sub THEN 1 ELSE 0
<1> DEFINE p == [o EXCEPT !.add = {}, !.sub = {}, !.at = "remove"]
           q == [o EXCEPT !.at = "tags", !.add = add, !.sub = sub]
<1>1. /\ o \in Operation /\ add \in SUBSET Tags /\ sub \in SUBSET Tags
      /\ o.kind \in {"create", "edit", "delete"} /\ o.by \in Users /\ o.target \in Contents /\ o.on = None
      /\ o.kind = "create" => sub = {}
      /\ o.kind = "delete" => add = {} /\ sub \subseteq o.tags
  BY DEF Syncs
<1>2. CASE add \cup sub = {} /\ o.kind # "delete"
  <2>1. s = Over
    BY <1>1, <1>2 DEF Syncs, SyncHashtags, AfterTags, Operation
  <2>2. add = {} /\ sub = {}
    BY <1>2
  <2>3. \A h : TagShort(s, h) = 0 /\ TagOver(s, h) = 0
    BY <2>1, Slots DEF TagShort, TagOver, Missing, Excess, One
  <2> QED
    BY <1>2, <2>1, <2>2, <2>3, Slots
<1>3. CASE add \cup sub = {} /\ o.kind = "delete"
  <2>1. s = p
    BY <1>1, <1>3 DEF Syncs, SyncHashtags, AfterTags, Operation
  <2>2. /\ p \in Operation /\ p.kind = "delete" /\ p.at = "remove" /\ p.add = {} /\ p.sub = {} /\ p.by = o.by
        /\ p.tags = o.tags /\ p.target = o.target /\ p.on = None
    BY <1>1, <1>3 DEF Operation, Steps
  <2>3. add = {} /\ sub = {}
    BY <1>3
  <2> HIDE DEF p
  <2>4. Placed(p)
    BY <1>1, <2>2 DEF Placed, Marks
  <2>5. \A cs, ks : cs[o.target].life # "unborn" => Tied(p, cs, ks)
    BY <1>1, <2>2, Apart DEF Tied
  <2>6. \A h : TagShort(p, h) = IF h \in o.tags THEN 1 ELSE 0
    BY <2>2 DEF TagShort, Missing, One
  <2>7. \A h : TagOver(p, h) = 0
    BY <2>2 DEF TagOver, Excess, One
  <2> QED
    BY <1>3, <2>1, <2>2, <2>3, <2>4, <2>5, <2>6, <2>7
<1>4. CASE add \cup sub # {}
  <2>1. s = q
    BY <1>4 DEF Syncs, SyncHashtags
  <2>2. /\ q \in Operation /\ q.kind = o.kind /\ q.at = "tags" /\ q.add = add /\ q.sub = sub /\ q.by = o.by
        /\ q.tags = o.tags /\ q.target = o.target /\ q.on = None
    BY <1>1 DEF Operation, Steps
  <2> HIDE DEF q
  <2>3. Placed(q)
    BY <1>1, <2>2 DEF Placed, Marks
  <2>4. \A cs, ks : cs[o.target].life # "unborn" => Tied(q, cs, ks)
    BY <1>1, <2>2, Apart DEF Tied
  <2>5. \A h : TagShort(q, h) = IF h \in add \/ (o.kind = "delete" /\ h \in o.tags \ sub) THEN 1 ELSE 0
    BY <2>2 DEF TagShort, Missing, One
  <2>6. \A h : TagOver(q, h) = IF o.kind = "edit" /\ h \in sub THEN 1 ELSE 0
    BY <2>2 DEF TagOver, Excess, One
  <2> QED
    BY <2>1, <2>2, <2>3, <2>4, <2>5, <2>6
<1> QED
  BY <1>2, <1>3, <1>4

\* A collection has been cleaned: the deletion owes the hashtags no more than before.
LEMMA CleanedAs ==
  ASSUME IInv, NEW r \in Requests, NEW x, At(r, "cleanup"), Cleaned(r, x)
  PROVE  /\ op[r].kind = "delete" /\ op[r].target \in Contents /\ op[r].on = None
         /\ \E o \in Operation :
              /\ op' = [op EXCEPT ![r] = o] /\ Placed(o) /\ Tied(o, contents, comments)
              /\ o.kind = "delete" /\ o.on = None /\ o.at \in {"cleanup", "tags", "remove"}
              /\ \A h \in Tags : TagShort(o, h) = TagShort(op[r], h) /\ TagOver(o, h) = TagOver(op[r], h)
<1>1. op[r] \in Operation /\ Placed(op[r]) /\ Tied(op[r], contents, comments) /\ Ground
  BY OpOf
<1>2. op[r].at = "cleanup" /\ op[r].kind = "delete"
  BY <1>1, Kinded DEF At
<1>3. /\ op[r].by \in Users /\ op[r].target \in Contents /\ op[r].on = None
      /\ op[r].add = {} /\ op[r].sub = op[r].tags /\ op[r].tags \subseteq Tags
      /\ contents[op[r].target].life # "unborn"
  BY <1>1, <1>2 DEF Placed, Operation, Tied
<1>4. \A h : TagShort(op[r], h) = 0 /\ TagOver(op[r], h) = 0
  BY <1>2, <1>3 DEF TagShort, TagOver, Missing, Excess, One
<1> DEFINE left == op[r].left \ {x}
           p == [op[r] EXCEPT !.left = left]
           q == [op[r] EXCEPT !.left = {}]
           s == SyncHashtags(q, {}, op[r].sub)
<1>5. left \in SUBSET {"likes", "saves", "comments"}
  BY <1>1 DEF Operation
<1>6. CASE op' = [op EXCEPT ![r] = p]
  <2>1. /\ p \in Operation /\ p.kind = "delete" /\ p.at = "cleanup" /\ p.by = op[r].by /\ p.target = op[r].target
        /\ p.on = None /\ p.add = {} /\ p.sub = op[r].tags /\ p.tags = op[r].tags
    BY <1>1, <1>2, <1>3, <1>5 DEF Operation
  <2> HIDE DEF p
  <2>2. Placed(p) /\ Tied(p, contents, comments)
    BY <1>3, <2>1, Apart DEF Placed, Tied, Marks
  <2>3. \A h : TagShort(p, h) = 0 /\ TagOver(p, h) = 0
    BY <2>1 DEF TagShort, TagOver, Missing, Excess, One
  <2> QED
    BY <1>2, <1>3, <1>4, <1>6, <2>1, <2>2, <2>3
<1>7. CASE op' = [op EXCEPT ![r] = s]
  <2>1. /\ q \in Operation /\ q.kind = "delete" /\ q.by = op[r].by /\ q.target = op[r].target
        /\ q.on = None /\ q.tags = op[r].tags
    BY <1>1, <1>2, <1>3 DEF Operation
  <2> DEFINE none == {}
             sub == op[r].sub
  <2>2. Syncs(s, q, none, sub)
    BY <1>3, <2>1 DEF Syncs
  <2>4. none = {} /\ sub = op[r].tags
    BY <1>3
  <2> HIDE DEF s, q, none, sub
  <2>3. /\ s \in Operation /\ Placed(s) /\ s.on = None /\ s.kind = "delete" /\ s.at \in {"tags", "remove", "over"}
        /\ \A cs, ks : cs[q.target].life # "unborn" => Tied(s, cs, ks)
        /\ \A h : /\ TagShort(s, h) = IF h \in none \/ (q.kind = "delete" /\ h \in q.tags \ sub) THEN 1 ELSE 0
                  /\ TagOver(s, h) = IF q.kind = "edit" /\ h \in sub THEN 1 ELSE 0
    BY <2>1, <2>2, Synced
  <2>5. Tied(s, contents, comments)
    BY <1>3, <2>1, <2>3
  <2>6. \A h : TagShort(s, h) = 0 /\ TagOver(s, h) = 0
    BY <2>1, <2>3, <2>4
  <2>7. s.at \in {"tags", "remove"}
    BY <2>3 DEF Placed
  <2> QED
    BY <1>2, <1>3, <1>4, <1>7, <2>3, <2>5, <2>6, <2>7
<1>8. op' = [op EXCEPT ![r] = p] \/ op' = [op EXCEPT ![r] = s]
  BY DEF Cleaned, Go
<1> QED
  BY <1>6, <1>7, <1>8

LEMMA DropRowsKeeps ==
  ASSUME IInv, NEW r \in Requests, NEW w \in Marks, DropRows(r, w)
  PROVE  IInv'
<1>1. op[r] \in Operation /\ Placed(op[r]) /\ Ground
  BY OpOf
<1>2. /\ At(r, "cleanup") /\ Cleaned(r, w) /\ Sweep(w, op[r].target)
      /\ UNCHANGED <<contents, comments, count, commentCount, known, tagCount, scene, tagDrift, commentDrift>>
  BY DEF DropRows
<1>3. op[r].kind = "delete" /\ op[r].target \in Contents /\ op[r].on = None
  BY <1>2, CleanedAs
<1>4. PICK o \in Operation :
        /\ op' = [op EXCEPT ![r] = o] /\ Placed(o) /\ Tied(o, contents, comments)
        /\ o.kind = "delete" /\ o.on = None /\ o.at \in {"cleanup", "tags", "remove"}
        /\ \A h \in Tags : TagShort(o, h) = TagShort(op[r], h) /\ TagOver(o, h) = TagOver(op[r], h)
  BY <1>2, CleanedAs
<1>5. Moves(r) /\ op'[r] = o
  BY <1>1, <1>4, MovesTo
<1>6. Ground' /\ MarksBalanced'
  BY <1>2, <1>3, <1>4, Apart, SweepKeeps
<1>7. TagsBalanced'
  BY <1>1, <1>2, <1>4, <1>5, TagsAside DEF IInv
<1>8. CommentsBalanced'
  <2>1. \A c : CommentsOn(c)' = CommentsOn(c) /\ Live(c)' = Live(c)
    BY <1>2 DEF CommentsOn, Live
  <2> QED
    BY <1>1, <1>2, <1>4, <1>5, <2>1, CommentsBeside DEF IInv, At
<1> QED
  BY <1>6, <1>7, <1>8 DEF IInv

LEMMA DropCommentsKeeps ==
  ASSUME IInv, NEW r \in Requests, DropComments(r)
  PROVE  IInv'
<1> DEFINE c == op[r].target
           K == CommentsOn(c)
           by == Cardinality(K)
           x == "comments"
<1>1. op[r] \in Operation /\ Placed(op[r]) /\ Ground
  BY OpOf
<1>2. /\ At(r, "cleanup") /\ Cleaned(r, x) /\ EraseComments(K) /\ commentDrift' = OffComments(c, by)
      /\ UNCHANGED <<contents, rows, commentCount, known, tagCount, scene, tagDrift>>
  BY DEF DropComments
<1> HIDE DEF x
<1>3. op[r].kind = "delete" /\ c \in Contents /\ op[r].on = None
  BY <1>2, CleanedAs
<1>4. PICK o \in Operation :
        /\ op' = [op EXCEPT ![r] = o] /\ Placed(o) /\ Tied(o, contents, comments)
        /\ o.kind = "delete" /\ o.on = None /\ o.at \in {"cleanup", "tags", "remove"}
        /\ \A h \in Tags : TagShort(o, h) = TagShort(op[r], h) /\ TagOver(o, h) = TagOver(op[r], h)
  BY <1>2, CleanedAs
<1>5. Moves(r) /\ op'[r] = o
  BY <1>1, <1>4, MovesTo
<1>6. by \in Nat /\ by \in Int
  BY <1>3, CommentsFinite
<1>7. K \subseteq Comments /\ (\A k \in K : comments[k].on = c) /\ K \cap CommentsOn(c) = K
  BY DEF CommentsOn
<1>8. Erasing(K, c)
  BY <1>2, <1>3, <1>7 DEF Erasing
<1> HIDE DEF K
<1>9. \A y \in Contents :
        NoteShort(op'[r], y) - NoteShort(op[r], y) = NoteOver(op'[r], y) - NoteOver(op[r], y)
          + (IF y = c THEN by - Cardinality(K \cap CommentsOn(y)) ELSE 0)
  <2> SUFFICES ASSUME NEW y \in Contents
               PROVE  NoteShort(op'[r], y) - NoteShort(op[r], y) = NoteOver(op'[r], y) - NoteOver(op[r], y)
                        + (IF y = c THEN by - Cardinality(K \cap CommentsOn(y)) ELSE 0)
    OBVIOUS
  <2>1. NoteShort(op'[r], y) = 0 /\ NoteOver(op'[r], y) = 0 /\ NoteShort(op[r], y) = 0 /\ NoteOver(op[r], y) = 0
    BY <1>2, <1>4, <1>5 DEF NoteShort, NoteOver, One, At
  <2>2. y = c => Cardinality(K \cap CommentsOn(y)) = by
    BY <1>7
  <2> HIDE DEF by
  <2> QED
    BY <1>6, <2>1, <2>2
<1> HIDE DEF by, c
<1>10. /\ commentDrift' \in [Contents -> Int]
       /\ \A y \in Contents : ~Live(y) => commentDrift'[y] = commentDrift[y]
  BY <1>1, <1>2, <1>3, <1>6, OffCommentsMoves
<1>11. /\ Ground' /\ \A y \in Contents : Live(y)' = Live(y)
       /\ \A t \in Targets : Live(t)' => Live(t) /\ t \notin K
       /\ \A w \in Marks, t \in Targets : t \notin K => count'[w][t] = count[w][t] /\ drift'[w][t] = drift[w][t]
  <2>1. op[r].kind \in {"delete", "uncomment"}
    BY <1>3
  <2> QED
    BY <1>2, <1>4, <1>8, <1>10, <2>1, EraseGround
<1>12. MarksBalanced'
  BY <1>2, <1>3, <1>4, <1>5, <1>11, EraseMarks DEF Marks
<1>13. TagsBalanced'
  BY <1>1, <1>2, <1>4, <1>5, TagsAside DEF IInv
<1>14. CommentsBalanced'
  BY <1>2, <1>5, <1>6, <1>8, <1>9, <1>11, EraseNotes
<1> QED
  BY <1>11, <1>12, <1>13, <1>14 DEF IInv

-----------------------------------------------------------------------------
\* One content is written, and all else but one request stays.
LEMMA WriteGround ==
  ASSUME Ground, NEW r \in Requests, NEW STATE o, o \in Operation, op' = [op EXCEPT ![r] = o],
         Placed(o), Tied(o, contents', comments), op[r].at \notin {"inc", "over"},
         NEW c \in Contents, NEW STATE new, new \in Content, contents' = [contents EXCEPT ![c] = new],
         new.life = "live",
         contents[c].life = "unborn"
           \/ (contents[c].life = "live" /\ new.version = contents[c].version + 1),
         UNCHANGED <<comments, rows, count, commentCount, known, tagCount, scene, history>>
  PROVE  /\ Ground' /\ Moves(r) /\ op'[r] = o
         /\ \A t \in Targets : Live(t)' => Live(t) \/ ~Born(t)
<1>1. Moves(r) /\ op'[r] = o
  BY MovesTo
<1>2. contents' \in [Contents -> Content] /\ \A x \in Contents : contents'[x] = IF x = c THEN new ELSE contents[x]
  BY DEF Ground, TypeOK
<1>3. TypeOK'
  BY <1>1, <1>2 DEF Ground, TypeOK, history, Moves
<1>4. \A x \in Contents : contents[x].version \in Nat
  BY DEF Ground, TypeOK, Content
<1>5. Advance
  BY <1>2, <1>4 DEF Advance
<1>6. \A t \in Targets : Live(t)' <=> Live(t) \/ t = c
  BY <1>2 DEF Live
<1>7. \A t \in Targets : Live(t)' => Live(t) \/ ~Born(t)
  BY <1>6 DEF Live, Born
<1>8. Zero'
  <2>1. \A t \in Targets, w \in Marks : ~Live(t)' => count'[w][t] = 0 /\ drift'[w][t] = 0
    BY <1>6 DEF Ground, Zero, history
  <2>2. \A x \in Contents : ~Live(x)' => commentCount'[x] = 0 /\ commentDrift'[x] = 0 /\ contents'[x].tags = {}
    BY <1>2, <1>6, Apart DEF Ground, Zero, history
  <2> QED
    BY <2>1, <2>2 DEF Zero
<1>9. Threads'
  BY <1>2 DEF Ground, Threads
<1>10. Written'
  BY <1>1, <1>3, <1>5, WrittenStill DEF Moves
<1>11. Ground'
  BY <1>1, <1>3, <1>5, <1>8, <1>9, <1>10, StepKeeps DEF Moves
<1> QED
  BY <1>1, <1>7, <1>11

LEMMA CarriersMove ==
  ASSUME Ground, NEW c \in Contents, NEW STATE new, contents' = [contents EXCEPT ![c] = new], NEW h \in Tags
  PROVE  /\ Cardinality(Carriers(h)) \in Int /\ Cardinality(Carriers(h))' \in Int
         /\ Cardinality(Carriers(h))' - Cardinality(Carriers(h))
              = (IF h \in new.tags THEN 1 ELSE 0) - (IF h \in contents[c].tags THEN 1 ELSE 0)
<1>1. \A x \in Contents : contents'[x] = IF x = c THEN new ELSE contents[x]
  BY DEF Ground, TypeOK
<1>2. IsFiniteSet(Carriers(h)) /\ Cardinality(Carriers(h)) \in Nat
  BY CarriersFinite
<1>3. Carriers(h)' = IF h \in new.tags THEN Carriers(h) \cup {c} ELSE Carriers(h) \ {c}
  BY <1>1 DEF Carriers
<1>4. c \in Carriers(h) <=> h \in contents[c].tags
  BY DEF Carriers
<1>5. Cardinality(Carriers(h) \cup {c}) = IF c \in Carriers(h) THEN Cardinality(Carriers(h)) ELSE Cardinality(Carriers(h)) + 1
  BY <1>2, FS_AddElement
<1>6. Cardinality(Carriers(h) \ {c}) = IF c \in Carriers(h) THEN Cardinality(Carriers(h)) - 1 ELSE Cardinality(Carriers(h))
  BY <1>2, FS_RemoveElement
<1> QED
  BY <1>2, <1>3, <1>4, <1>5, <1>6

LEMMA WriteKeeps ==
  ASSUME IInv, NEW r \in Requests, NEW STATE o, o \in Operation, op' = [op EXCEPT ![r] = o],
         Placed(o), Tied(o, contents', comments), op[r].at \notin {"inc", "over", "dec", "count", "dropLikes", "uncount", "erase"},
         o.at \in {"tags", "over"},
         NEW c \in Contents, NEW STATE new, new \in Content, contents' = [contents EXCEPT ![c] = new],
         new.life = "live",
         contents[c].life = "unborn"
           \/ (contents[c].life = "live" /\ new.version = contents[c].version + 1),
         \A h \in Tags :
           TagShort(o, h) - TagShort(op[r], h) = (IF h \in new.tags THEN 1 ELSE 0)
             - (IF h \in contents[c].tags THEN 1 ELSE 0) + TagOver(o, h) - TagOver(op[r], h),
         UNCHANGED <<comments, rows, count, commentCount, known, tagCount, scene, history>>
  PROVE  IInv'
<1>1. Ground
  BY DEF IInv
<1>2. op[r].at \notin {"inc", "over"}
  OBVIOUS
<1>3. /\ Ground' /\ Moves(r) /\ op'[r] = o
      /\ \A t \in Targets : Live(t)' => Live(t) \/ ~Born(t)
  BY <1>1, <1>2, WriteGround
<1>4. MarksBalanced'
  BY <1>1, <1>3, MarksBeside DEF IInv, history
<1>5. TagsBalanced'
  <2>1. ASSUME NEW h \in Tags
        PROVE  /\ Cardinality(Carriers(h))' \in Int
               /\ tagCount'[h] - tagCount[h] + TagShort(op'[r], h) - TagShort(op[r], h)
                    = Cardinality(Carriers(h))' - Cardinality(Carriers(h))
                        + TagOver(op'[r], h) - TagOver(op[r], h) + tagDrift'[h] - tagDrift[h]
    <3> DEFINE a == TagShort(o, h)
               b == TagShort(op[r], h)
               d == TagOver(o, h)
               e == TagOver(op[r], h)
               m == Cardinality(Carriers(h))
               n == Cardinality(Carriers(h))'
               i == IF h \in new.tags THEN 1 ELSE 0
               j == IF h \in contents[c].tags THEN 1 ELSE 0
    <3>1. m \in Int /\ n \in Int /\ n - m = i - j
      BY <1>1, CarriersMove
    <3>2. a \in Int /\ b \in Int /\ d \in Int /\ e \in Int /\ i \in Int /\ j \in Int
      BY DEF TagShort, TagOver, One
    <3>3. a - b = i - j + d - e
      OBVIOUS
    <3>4. tagCount[h] \in Int /\ tagDrift[h] \in Int /\ tagCount' = tagCount /\ tagDrift' = tagDrift
      BY <1>1 DEF Ground, TypeOK, history
    <3> HIDE DEF a, b, d, e, m, n, i, j
    <3>5. tagCount'[h] - tagCount[h] + a - b = n - m + d - e + tagDrift'[h] - tagDrift[h]
      BY <3>1, <3>2, <3>3, <3>4
    <3> QED
      BY <1>3, <3>1, <3>5 DEF a, b, d, e, m, n
  <2> QED
    BY <1>1, <1>3, <2>1, TagsStep DEF IInv, Ground
<1>6. CommentsBalanced'
  <2>1. \A x \in Contents : CommentsOn(x)' = CommentsOn(x)
    BY DEF CommentsOn
  <2>2. \A x \in Contents : Live(x)' => Live(x) \/ ~Born(x)
    BY <1>3, Apart
  <2> QED
    BY <1>1, <1>3, <2>1, <2>2, CommentsBeside DEF IInv, history
<1> QED
  BY <1>3, <1>4, <1>5, <1>6 DEF IInv

LEMMA CreateKeeps ==
  ASSUME IInv, NEW r \in Requests, NEW u \in Users, NEW c \in Contents, NEW tags \in SUBSET Tags,
         Create(r, u, c, tags)
  PROVE  IInv'
<1> DEFINE o == Started(r, u, "create", "tags", c)
           new == [Unwritten EXCEPT !.life = "live", !.author = u, !.tags = tags]
           none == {}
           s == SyncHashtags(o, tags, none)
<1>1. op[r] \in Operation /\ Ground
  BY OpOf
<1>2. /\ op[r] = Idle /\ contents[c].life = "unborn" /\ contents' = [contents EXCEPT ![c] = new]
      /\ op' = [op EXCEPT ![r] = s]
      /\ UNCHANGED <<comments, rows, count, commentCount, known, tagCount, scene, history>>
  BY DEF Create, May, Go
<1>3. o \in Operation /\ o.kind = "create" /\ o.by = u /\ o.target = c /\ o.on = None
  BY StartedAs, Named, Apart
<1>4. new \in Content /\ new.life = "live" /\ new.tags = tags
  BY DEF Unwritten, Content, Life
<1>5. Syncs(s, o, tags, none)
  BY <1>3 DEF Syncs
<1>6. contents[c].tags = {}
  BY <1>1, <1>2 DEF Ground, Zero, Live
<1>7. contents'[c].life # "unborn"
  BY <1>1, <1>2, <1>4 DEF Ground, TypeOK
<1> HIDE DEF o, new, s
<1>8. /\ s \in Operation /\ Placed(s) /\ s.kind \in {o.kind, "none"} /\ s.at \in {"tags", "remove", "over"}
      /\ \A cs, ks : cs[o.target].life # "unborn" => Tied(s, cs, ks)
      /\ \A h : /\ TagShort(s, h) = IF h \in tags \/ (o.kind = "delete" /\ h \in o.tags \ none) THEN 1 ELSE 0
                /\ TagOver(s, h) = IF o.kind = "edit" /\ h \in none THEN 1 ELSE 0
  BY <1>5, Synced
<1>9. Tied(s, contents', comments)
  BY <1>3, <1>7, <1>8
<1>10. s.at \in {"tags", "over"}
  BY <1>3, <1>8, Kinded
<1>11. \A h \in Tags :
         TagShort(s, h) - TagShort(op[r], h) = (IF h \in new.tags THEN 1 ELSE 0)
             - (IF h \in contents[c].tags THEN 1 ELSE 0) + TagOver(s, h) - TagOver(op[r], h)
  <2> SUFFICES ASSUME NEW h \in Tags
               PROVE  TagShort(s, h) - TagShort(op[r], h) = (IF h \in new.tags THEN 1 ELSE 0)
                        - (IF h \in contents[c].tags THEN 1 ELSE 0) + TagOver(s, h) - TagOver(op[r], h)
    OBVIOUS
  <2>1. TagShort(op[r], h) = 0 /\ TagOver(op[r], h) = 0
    BY <1>2, Slots DEF TagShort, TagOver, Missing, Excess, One
  <2>2. TagShort(s, h) = (IF h \in new.tags THEN 1 ELSE 0) /\ TagOver(s, h) = 0
    BY <1>3, <1>4, <1>8
  <2>3. h \notin contents[c].tags
    BY <1>6
  <2> QED
    BY <2>1, <2>2, <2>3
<1>12. op[r].at \notin {"inc", "over", "dec", "count", "dropLikes", "uncount", "erase"}
  BY <1>2, Slots
<1> QED
  BY <1>2, <1>4, <1>8, <1>9, <1>10, <1>11, <1>12, WriteKeeps

LEMMA SaveContentKeeps ==
  ASSUME IInv, NEW r \in Requests, SaveContent(r)
  PROVE  IInv'
<1> DEFINE c == op[r].target
           add == op[r].add
           sub == op[r].sub
           new == [contents[c] EXCEPT !.tags = op[r].tags, !.version = @ + 1]
           s == SyncHashtags(op[r], add, sub)
<1>1. op[r] \in Operation /\ Placed(op[r]) /\ Tied(op[r], contents, comments) /\ Ground
  BY OpOf
<1>2. op[r].at = "save" /\ op[r].kind = "edit"
  BY <1>1, Kinded DEF SaveContent, At
<1>3. c \in Contents /\ op[r].by \in Users /\ op[r].on = None /\ contents[c] \in Content
  BY <1>1, <1>2 DEF Placed, Ground, TypeOK
<1>4. UNCHANGED <<comments, rows, count, commentCount, known, tagCount, scene, history>>
  BY DEF SaveContent
<1>5. CASE Done(r) /\ UNCHANGED contents
  <2>1. Quiet(op[r]) /\ Quiet(Over)
    BY <1>2, Slots DEF Quiet
  <2> QED
    BY <1>2, <1>4, <1>5, <2>1, Slots, QuietKeeps DEF Done, Go
<1>6. CASE /\ Live(c) /\ contents[c].version = op[r].version
           /\ contents' = [contents EXCEPT ![c].tags = op[r].tags, ![c].version = @ + 1]
           /\ Go(r, s)
  <2>1. contents[c].life = "live" /\ contents[c].version \in Nat /\ op[r].version \in Nat
    BY <1>1, <1>3, <1>6 DEF Live, Content, Operation
  <2>2. /\ op[r].add = op[r].tags \ contents[c].tags /\ op[r].sub = contents[c].tags \ op[r].tags
    BY <1>1, <1>2, <1>6, <2>1 DEF Tied
  <2>3. contents' = [contents EXCEPT ![c] = new] /\ op' = [op EXCEPT ![r] = s]
    BY <1>6 DEF Go
  <2>4. /\ new \in Content /\ new.life = "live" /\ new.tags = op[r].tags
        /\ new.version = contents[c].version + 1
    <3> DEFINE d == contents[c]
               v == d.version + 1
    <3>1. d \in Content /\ v \in Nat /\ op[r].tags \in SUBSET Tags /\ d.life = "live"
      BY <1>1, <1>3, <2>1 DEF Operation
    <3>2. new = [d EXCEPT !.tags = op[r].tags, !.version = v]
      OBVIOUS
    <3> HIDE DEF d, v, new
    <3>3. new \in Content /\ new.life = "live" /\ new.tags = op[r].tags /\ new.version = v
      BY <3>1, <3>2 DEF Content
    <3> QED
      BY <3>3 DEF d, v
  <2>5. Syncs(s, op[r], add, sub)
    BY <1>1, <1>2, <1>3 DEF Syncs, Operation
  <2>6. contents'[c].life # "unborn"
    BY <1>1, <1>3, <2>3, <2>4 DEF Ground, TypeOK
  <2> HIDE DEF new, s
  <2>7. /\ s \in Operation /\ Placed(s) /\ s.kind \in {op[r].kind, "none"} /\ s.at \in {"tags", "remove", "over"}
        /\ \A cs, ks : cs[op[r].target].life # "unborn" => Tied(s, cs, ks)
        /\ \A h : /\ TagShort(s, h) = IF h \in add \/ (op[r].kind = "delete" /\ h \in op[r].tags \ sub) THEN 1 ELSE 0
                  /\ TagOver(s, h) = IF op[r].kind = "edit" /\ h \in sub THEN 1 ELSE 0
    BY <2>5, Synced
  <2>8. Tied(s, contents', comments)
    BY <2>6, <2>7
  <2>9. s.at \in {"tags", "over"}
    BY <1>2, <2>7, Kinded
  <2>10. \A h \in Tags :
           TagShort(s, h) - TagShort(op[r], h) = (IF h \in new.tags THEN 1 ELSE 0)
               - (IF h \in contents[c].tags THEN 1 ELSE 0) + TagOver(s, h) - TagOver(op[r], h)
    <3> SUFFICES ASSUME NEW h \in Tags
                 PROVE  TagShort(s, h) - TagShort(op[r], h) = (IF h \in new.tags THEN 1 ELSE 0)
                          - (IF h \in contents[c].tags THEN 1 ELSE 0) + TagOver(s, h) - TagOver(op[r], h)
      OBVIOUS
    <3>1. TagShort(op[r], h) = 0 /\ TagOver(op[r], h) = 0
      BY <1>2 DEF TagShort, TagOver, Missing, Excess, One
    <3>2. /\ TagShort(s, h) = (IF h \in op[r].tags \ contents[c].tags THEN 1 ELSE 0)
          /\ TagOver(s, h) = (IF h \in contents[c].tags \ op[r].tags THEN 1 ELSE 0)
      BY <1>2, <2>2, <2>7
    <3> QED
      BY <2>4, <3>1, <3>2
  <2>11. op[r].at \notin {"inc", "over", "dec", "count", "dropLikes", "uncount", "erase"}
    BY <1>2
  <2> HIDE DEF c, add, sub
  <2>12. contents[c].life = "unborn" \/ (contents[c].life = "live" /\ new.version = contents[c].version + 1)
    BY <2>1, <2>4
  <2>13. s \in Operation /\ Placed(s) /\ new \in Content /\ new.life = "live" /\ c \in Contents
    BY <1>3, <2>4, <2>7
  <2> QED
    BY <1>4, <2>3, <2>8, <2>9, <2>10, <2>11, <2>12, <2>13, WriteKeeps
<1> QED
  BY <1>5, <1>6 DEF SaveContent

-----------------------------------------------------------------------------
\* One hashtag is written.
LEMMA TagKeeps ==
  ASSUME IInv, NEW r \in Requests, NEW STATE o, o \in Operation, op' = [op EXCEPT ![r] = o],
         Placed(o), Tied(o, contents, comments), op[r].at = "tags", o.at \in {"tags", "remove", "over"},
         known' \in SUBSET Tags, tagCount' \in [Tags -> Int], tagDrift' \in [Tags -> Int],
         \A h \in Tags :
           tagCount'[h] - tagCount[h] + TagShort(o, h) - TagShort(op[r], h)
             = TagOver(o, h) - TagOver(op[r], h) + tagDrift'[h] - tagDrift[h],
         UNCHANGED <<contents, comments, rows, count, commentCount, scene, drift, commentDrift>>
  PROVE  IInv'
<1>1. Ground
  BY DEF IInv
<1>2. Moves(r) /\ op'[r] = o
  BY <1>1, MovesTo
<1>3. TypeOK'
  BY <1>1, <1>2 DEF Ground, TypeOK, Moves
<1>4. Zero'
  BY <1>1 DEF Ground, Zero, Live
<1>5. Ground'
  BY <1>1, <1>3, <1>4, SlotKeeps
<1>6. \A x : Live(x)' = Live(x) /\ CommentsOn(x)' = CommentsOn(x)
  BY DEF Live, CommentsOn
<1>7. MarksBalanced'
  BY <1>1, <1>2, <1>6, MarksBeside DEF IInv
<1>8. CommentsBalanced'
  BY <1>1, <1>2, <1>6, CommentsBeside DEF IInv
<1>9. TagsBalanced'
  <2>1. ASSUME NEW h \in Tags
        PROVE  /\ Cardinality(Carriers(h))' \in Int
               /\ tagCount'[h] - tagCount[h] + TagShort(op'[r], h) - TagShort(op[r], h)
                    = Cardinality(Carriers(h))' - Cardinality(Carriers(h))
                        + TagOver(op'[r], h) - TagOver(op[r], h) + tagDrift'[h] - tagDrift[h]
    <3> DEFINE a == TagShort(o, h)
               b == TagShort(op[r], h)
               d == TagOver(o, h)
               e == TagOver(op[r], h)
               m == Cardinality(Carriers(h))
               n == Cardinality(Carriers(h))'
    <3>6. Carriers(h)' = Carriers(h) /\ m \in Nat
      BY CarriersFinite DEF Carriers
    <3>1. m \in Int /\ n \in Int /\ n - m = 0
      BY <3>6
    <3>2. a \in Int /\ b \in Int /\ d \in Int /\ e \in Int
      BY DEF TagShort, TagOver, One
    <3>3. tagCount'[h] - tagCount[h] + a - b = d - e + tagDrift'[h] - tagDrift[h]
      OBVIOUS
    <3>4. tagCount[h] \in Int /\ tagDrift[h] \in Int /\ tagCount'[h] \in Int /\ tagDrift'[h] \in Int
      BY <1>1 DEF Ground, TypeOK
    <3> HIDE DEF a, b, d, e, m, n
    <3>5. tagCount'[h] - tagCount[h] + a - b = n - m + d - e + tagDrift'[h] - tagDrift[h]
      BY <3>1, <3>2, <3>3, <3>4
    <3> QED
      BY <1>2, <3>1, <3>5 DEF a, b, d, e, m, n
  <2> QED
    BY <1>1, <1>2, <1>3, <2>1, TagsStep DEF IInv
<1> QED
  BY <1>5, <1>7, <1>8, <1>9 DEF IInv

\* What a request at its hashtags owes, and what it is.
LEMMA AtTags ==
  ASSUME IInv, NEW r \in Requests, op[r].at = "tags"
  PROVE  /\ op[r] \in Operation /\ op[r].kind \in {"create", "edit", "delete"} /\ op[r].by \in Users
         /\ op[r].target \in Contents /\ op[r].on = None /\ contents[op[r].target].life # "unborn"
         /\ op[r].add \subseteq Tags /\ op[r].sub \subseteq Tags
         /\ op[r].kind = "create" => op[r].sub = {}
         /\ op[r].kind = "delete" => op[r].add = {} /\ op[r].sub \subseteq op[r].tags
         /\ \A h : /\ TagShort(op[r], h) = IF h \in op[r].add \/ (op[r].kind = "delete" /\ h \in op[r].tags \ op[r].sub)
                                           THEN 1 ELSE 0
                   /\ TagOver(op[r], h) = IF op[r].kind = "edit" /\ h \in op[r].sub THEN 1 ELSE 0
<1>1. op[r] \in Operation /\ Placed(op[r]) /\ Tied(op[r], contents, comments)
  BY OpOf
<1>2. op[r].kind \in {"create", "edit", "delete"}
  BY <1>1, Kinded
<1>3. op[r].target \in Contents /\ op[r].on = None /\ op[r].by \in Users
  BY <1>1, <1>2 DEF Placed
<1>4. contents[op[r].target].life # "unborn"
  BY <1>1, <1>3 DEF Tied
<1>5. /\ op[r].add \subseteq Tags /\ op[r].sub \subseteq Tags
      /\ op[r].kind = "create" => op[r].sub = {}
      /\ op[r].kind = "delete" => op[r].add = {} /\ op[r].sub \subseteq op[r].tags
  BY <1>1 DEF Placed, Operation
<1>6. \A h : TagShort(op[r], h) = IF h \in op[r].add \/ (op[r].kind = "delete" /\ h \in op[r].tags \ op[r].sub)
                                  THEN 1 ELSE 0
  BY DEF TagShort, Missing, One
<1>7. \A h : TagOver(op[r], h) = IF op[r].kind = "edit" /\ h \in op[r].sub THEN 1 ELSE 0
  BY DEF TagOver, Excess, One
<1> QED
  BY <1>1, <1>2, <1>3, <1>4, <1>5, <1>6, <1>7

LEMMA RaiseTagKeeps ==
  ASSUME IInv, NEW r \in Requests, NEW g \in Tags, RaiseTag(r, g)
  PROVE  IInv'
<1> DEFINE o == op[r]
           add == o.add \ {g}
           sub == o.sub
           s == SyncHashtags(o, add, sub)
<1>1. /\ o.at = "tags" /\ g \in o.add /\ known' = known \cup {g}
      /\ tagCount' = [tagCount EXCEPT ![g] = @ + 1] /\ op' = [op EXCEPT ![r] = s]
      /\ UNCHANGED <<contents, comments, rows, count, commentCount, scene, drift, commentDrift>>
      /\ tagDrift' = tagDrift
  BY DEF RaiseTag, At, Go, history
<1>2. /\ o \in Operation /\ o.kind \in {"create", "edit", "delete"} /\ o.by \in Users
      /\ o.target \in Contents /\ o.on = None /\ contents[o.target].life # "unborn"
      /\ o.add \subseteq Tags /\ o.sub \subseteq Tags
      /\ o.kind = "create" => o.sub = {}
      /\ o.kind = "delete" => o.add = {} /\ o.sub \subseteq o.tags
      /\ \A h : /\ TagShort(o, h) = IF h \in o.add \/ (o.kind = "delete" /\ h \in o.tags \ o.sub) THEN 1 ELSE 0
                /\ TagOver(o, h) = IF o.kind = "edit" /\ h \in o.sub THEN 1 ELSE 0
  BY <1>1, AtTags
<1> HIDE DEF o
<1>3. Syncs(s, o, add, sub)
  BY <1>2 DEF Syncs
<1> HIDE DEF s
<1>4. /\ s \in Operation /\ Placed(s) /\ s.at \in {"tags", "remove", "over"}
      /\ \A cs, ks : cs[o.target].life # "unborn" => Tied(s, cs, ks)
      /\ \A h : /\ TagShort(s, h) = IF h \in add \/ (o.kind = "delete" /\ h \in o.tags \ sub) THEN 1 ELSE 0
                /\ TagOver(s, h) = IF o.kind = "edit" /\ h \in sub THEN 1 ELSE 0
  BY <1>3, Synced
<1>5. Tied(s, contents, comments)
  BY <1>2, <1>4
<1>6. tagCount \in [Tags -> Int] /\ tagDrift \in [Tags -> Int] /\ known \in SUBSET Tags
  BY DEF IInv, Ground, TypeOK
<1>7. tagCount' \in [Tags -> Int] /\ \A h \in Tags : tagCount'[h] = IF h = g THEN tagCount[h] + 1 ELSE tagCount[h]
  BY <1>1, <1>6
<1>8. ASSUME NEW h \in Tags
      PROVE  tagCount'[h] - tagCount[h] + TagShort(s, h) - TagShort(o, h)
               = TagOver(s, h) - TagOver(o, h) + tagDrift'[h] - tagDrift[h]
  <2>1. TagShort(o, h) = (IF h = g THEN 1 ELSE 0) + TagShort(s, h)
    BY <1>1, <1>2, <1>4
  <2>2. TagOver(s, h) = TagOver(o, h)
    BY <1>2, <1>4
  <2>3. TagShort(s, h) \in Int /\ TagOver(o, h) \in Int
    BY DEF TagShort, TagOver, One
  <2> QED
    BY <1>1, <1>6, <1>7, <2>1, <2>2, <2>3
<1>9. known' \in SUBSET Tags /\ tagDrift' \in [Tags -> Int]
  BY <1>1, <1>6
<1> QED
  BY <1>1, <1>4, <1>5, <1>7, <1>8, <1>9, TagKeeps DEF o

LEMMA LowerTagKeeps ==
  ASSUME IInv, NEW r \in Requests, NEW g \in Tags, LowerTag(r, g)
  PROVE  IInv'
<1> DEFINE o == op[r]
           add == o.add
           sub == o.sub \ {g}
           s == SyncHashtags(o, add, sub)
           down == One(g \in known)
           up == One(g \notin known)
<1>1. /\ o.at = "tags" /\ g \in o.sub
      /\ tagCount' = [tagCount EXCEPT ![g] = @ - down] /\ tagDrift' = [tagDrift EXCEPT ![g] = @ + up]
      /\ op' = [op EXCEPT ![r] = s]
      /\ UNCHANGED <<contents, comments, rows, count, commentCount, known, scene, drift, commentDrift>>
  BY DEF LowerTag, At, Go
<1>10. down \in Int /\ up \in Int /\ down + up = 1
  BY DEF One
<1> HIDE DEF down, up
<1>2. /\ o \in Operation /\ o.kind \in {"create", "edit", "delete"} /\ o.by \in Users
      /\ o.target \in Contents /\ o.on = None /\ contents[o.target].life # "unborn"
      /\ o.add \subseteq Tags /\ o.sub \subseteq Tags
      /\ o.kind = "create" => o.sub = {}
      /\ o.kind = "delete" => o.add = {} /\ o.sub \subseteq o.tags
      /\ \A h : /\ TagShort(o, h) = IF h \in o.add \/ (o.kind = "delete" /\ h \in o.tags \ o.sub) THEN 1 ELSE 0
                /\ TagOver(o, h) = IF o.kind = "edit" /\ h \in o.sub THEN 1 ELSE 0
  BY <1>1, AtTags
<1> HIDE DEF o
<1>3. Syncs(s, o, add, sub)
  BY <1>2 DEF Syncs
<1> HIDE DEF s
<1>4. /\ s \in Operation /\ Placed(s) /\ s.at \in {"tags", "remove", "over"}
      /\ \A cs, ks : cs[o.target].life # "unborn" => Tied(s, cs, ks)
      /\ \A h : /\ TagShort(s, h) = IF h \in add \/ (o.kind = "delete" /\ h \in o.tags \ sub) THEN 1 ELSE 0
                /\ TagOver(s, h) = IF o.kind = "edit" /\ h \in sub THEN 1 ELSE 0
  BY <1>3, Synced
<1>5. Tied(s, contents, comments)
  BY <1>2, <1>4
<1>6. tagCount \in [Tags -> Int] /\ tagDrift \in [Tags -> Int] /\ known \in SUBSET Tags
  BY DEF IInv, Ground, TypeOK
<1>7. /\ tagCount' \in [Tags -> Int] /\ \A h \in Tags : tagCount'[h] = IF h = g THEN tagCount[h] - down ELSE tagCount[h]
      /\ tagDrift' \in [Tags -> Int] /\ \A h \in Tags : tagDrift'[h] = IF h = g THEN tagDrift[h] + up ELSE tagDrift[h]
  BY <1>1, <1>6, <1>10
<1>8. ASSUME NEW h \in Tags
      PROVE  tagCount'[h] - tagCount[h] + TagShort(s, h) - TagShort(o, h)
               = TagOver(s, h) - TagOver(o, h) + tagDrift'[h] - tagDrift[h]
  <2>1. TagShort(s, h) = TagShort(o, h) + (IF h = g /\ o.kind = "delete" THEN 1 ELSE 0)
    BY <1>1, <1>2, <1>4
  <2>2. TagOver(o, h) = TagOver(s, h) + (IF h = g /\ o.kind = "edit" THEN 1 ELSE 0)
    BY <1>1, <1>2, <1>4
  <2>3. TagShort(o, h) \in Int /\ TagOver(s, h) \in Int
    BY DEF TagShort, TagOver, One
  <2>4. o.kind \in {"edit", "delete"}
    BY <1>1, <1>2
  <2>5. tagCount[h] \in Int /\ tagDrift[h] \in Int
    BY <1>6
  <2>6. CASE h # g
    BY <1>7, <2>1, <2>2, <2>3, <2>5, <2>6
  <2>7. CASE h = g
    BY <1>7, <1>10, <2>1, <2>2, <2>3, <2>4, <2>5, <2>7
  <2> QED
    BY <2>6, <2>7
<1>9. known' \in SUBSET Tags
  BY <1>1, <1>6
<1> QED
  BY <1>1, <1>4, <1>5, <1>7, <1>8, <1>9, TagKeeps DEF o

-----------------------------------------------------------------------------
LEMMA RemoveContentKeeps ==
  ASSUME IInv, NEW r \in Requests, RemoveContent(r)
  PROVE  IInv'
<1> DEFINE c == op[r].target
           K == {c}
<1>1. op[r] \in Operation /\ Placed(op[r]) /\ Tied(op[r], contents, comments) /\ Ground
  BY OpOf
<1>2. op[r].at = "remove" /\ op[r].kind = "delete"
  BY <1>1, Kinded DEF RemoveContent, At
<1>3. c \in Contents /\ op[r].on = None /\ op[r].sub = {} /\ op[r].tags \subseteq Tags /\ contents[c].life # "unborn"
  BY <1>1, <1>2 DEF Placed, Operation, Tied
<1>4. /\ contents' = [contents EXCEPT ![c] = Deleted] /\ op' = [op EXCEPT ![r] = Over]
      /\ count' = Without(count, K) /\ drift' = Without(drift, K)
      /\ commentCount' = [commentCount EXCEPT ![c] = 0] /\ commentDrift' = [commentDrift EXCEPT ![c] = 0]
      /\ tagDrift' = [h \in Tags |-> tagDrift[h] + One(h \in contents[c].tags) - One(h \in op[r].tags)]
      /\ UNCHANGED <<comments, rows, known, tagCount, scene>>
  BY DEF RemoveContent, Done, Go
<1>5. Deleted \in Content /\ Deleted.life = "gone" /\ Deleted.tags = {}
  BY DEF Deleted, Unwritten, Content, Life
<1>6. Moves(r) /\ op'[r] = Over
  BY <1>1, <1>4, Slots, MovesTo
<1>7. /\ contents \in [Contents -> Content] /\ count \in [Marks -> [Targets -> Int]]
      /\ drift \in [Marks -> [Targets -> Int]] /\ commentCount \in [Contents -> Int]
      /\ commentDrift \in [Contents -> Int] /\ tagDrift \in [Tags -> Int] /\ tagCount \in [Tags -> Int]
  BY <1>1 DEF Ground, TypeOK
<1>8. contents' \in [Contents -> Content] /\ \A x \in Contents : contents'[x] = IF x = c THEN Deleted ELSE contents[x]
  BY <1>3, <1>4, <1>5, <1>7
<1>9. /\ count' \in [Marks -> [Targets -> Int]] /\ drift' \in [Marks -> [Targets -> Int]]
      /\ \A w \in Marks, t \in Targets :
           /\ t \in K => count'[w][t] = 0 /\ drift'[w][t] = 0
           /\ t \notin K => count'[w][t] = count[w][t] /\ drift'[w][t] = drift[w][t]
  BY <1>4, <1>7 DEF Without
<1>10. /\ commentCount' \in [Contents -> Int] /\ commentDrift' \in [Contents -> Int]
       /\ \A x \in Contents :
            /\ commentCount'[x] = IF x = c THEN 0 ELSE commentCount[x]
            /\ commentDrift'[x] = IF x = c THEN 0 ELSE commentDrift[x]
  BY <1>3, <1>4, <1>7
<1>11. /\ tagDrift' \in [Tags -> Int]
       /\ \A h \in Tags : tagDrift'[h] = tagDrift[h] + One(h \in contents[c].tags) - One(h \in op[r].tags)
  BY <1>4, <1>7 DEF One
<1>12. TypeOK'
  BY <1>1, <1>4, <1>6, <1>8, <1>9, <1>10, <1>11 DEF Ground, TypeOK, Moves
<1>13. \A x \in Contents : Live(x)' <=> Live(x) /\ x # c
  BY <1>5, <1>8 DEF Live
<1>14. \A k \in Comments : Live(k)' = Live(k) /\ k \notin K
  BY <1>3, <1>4, Apart DEF Live
<1>15. \A t \in Targets : Live(t)' <=> Live(t) /\ t \notin K
  BY <1>13, <1>14 DEF Targets
<1>16. Zero'
  <2>1. \A t \in Targets, w \in Marks : ~Live(t)' => count'[w][t] = 0 /\ drift'[w][t] = 0
    BY <1>1, <1>9, <1>15 DEF Ground, Zero
  <2>2. \A x \in Contents : ~Live(x)' => commentCount'[x] = 0 /\ commentDrift'[x] = 0 /\ contents'[x].tags = {}
    BY <1>1, <1>5, <1>8, <1>10, <1>13 DEF Ground, Zero
  <2> QED
    BY <2>1, <2>2 DEF Zero
<1>17. Threads'
  <2>1. \A x \in Contents : contents[x].life # "unborn" => contents'[x].life # "unborn"
    BY <1>5, <1>8
  <2> QED
    BY <1>1, <1>4, <2>1 DEF Ground, Threads
<1>18. Advance
  <2>1. \A x \in Contents : contents[x].version \in Nat
    BY <1>7 DEF Content
  <2> QED
    BY <1>4, <1>5, <1>8, <2>1 DEF Advance
<1>19. Written'
  BY <1>1, <1>2, <1>4, <1>6, <1>12, <1>18, WrittenStill DEF Moves
<1>20. Ground'
  BY <1>1, <1>6, <1>12, <1>16, <1>17, <1>18, <1>19, Slots, StepKeeps DEF Moves
<1>21. MarksBalanced'
  BY <1>2, <1>4, <1>6, <1>9, <1>15, <1>20, Slots, EraseMarks DEF Marks
<1>22. TagsBalanced'
  <2>1. ASSUME NEW h \in Tags
        PROVE  /\ Cardinality(Carriers(h))' \in Int
               /\ tagCount'[h] - tagCount[h] + TagShort(op'[r], h) - TagShort(op[r], h)
                    = Cardinality(Carriers(h))' - Cardinality(Carriers(h))
                        + TagOver(op'[r], h) - TagOver(op[r], h) + tagDrift'[h] - tagDrift[h]
    <3> DEFINE new == Deleted
    <3>1. contents' = [contents EXCEPT ![c] = new] /\ new.tags = {}
      BY <1>4, <1>5
    <3> HIDE DEF new, c
    <3>2. /\ Cardinality(Carriers(h)) \in Int /\ Cardinality(Carriers(h))' \in Int
          /\ Cardinality(Carriers(h))' - Cardinality(Carriers(h))
               = (IF h \in new.tags THEN 1 ELSE 0) - (IF h \in contents[c].tags THEN 1 ELSE 0)
      BY <1>1, <1>3, <3>1, CarriersMove
    <3>3. /\ TagShort(op'[r], h) = 0 /\ TagOver(op'[r], h) = 0 /\ TagOver(op[r], h) = 0
          /\ TagShort(op[r], h) = IF h \in op[r].tags THEN 1 ELSE 0
      BY <1>2, <1>3, <1>6, Slots DEF TagShort, TagOver, Missing, Excess, One
    <3>4. tagDrift'[h] = tagDrift[h] + (IF h \in contents[c].tags THEN 1 ELSE 0) - (IF h \in op[r].tags THEN 1 ELSE 0)
      BY <1>11 DEF One
    <3>5. tagCount[h] \in Int /\ tagDrift[h] \in Int /\ tagCount' = tagCount
      BY <1>4, <1>7
    <3>6. h \notin new.tags
      BY <3>1
    <3> QED
      BY <3>2, <3>3, <3>4, <3>5, <3>6
  <2> QED
    BY <1>1, <1>6, <1>12, <2>1, TagsStep DEF IInv
<1>23. CommentsBalanced'
  <2>1. ASSUME NEW x \in Contents, Live(x)'
        PROVE  /\ Cardinality(CommentsOn(x))' \in Int
               /\ commentCount'[x] - commentCount[x] + NoteShort(op'[r], x) - NoteShort(op[r], x)
                    = Cardinality(CommentsOn(x))' - Cardinality(CommentsOn(x))
                        + NoteOver(op'[r], x) - NoteOver(op[r], x) + commentDrift'[x] - commentDrift[x]
    <3>1. /\ NoteShort(op'[r], x) = 0 /\ NoteOver(op'[r], x) = 0
          /\ NoteShort(op[r], x) = 0 /\ NoteOver(op[r], x) = 0
      BY <1>2, <1>6, Slots DEF NoteShort, NoteOver, One
    <3>2. CommentsOn(x)' = CommentsOn(x) /\ Cardinality(CommentsOn(x)) \in Nat
      BY <1>4, CommentsFinite DEF CommentsOn
    <3>3. /\ commentCount'[x] = commentCount[x] /\ commentDrift'[x] = commentDrift[x]
          /\ commentCount[x] \in Int /\ commentDrift[x] \in Int
      BY <1>7, <1>10, <1>13, <2>1
    <3> QED
      BY <3>1, <3>2, <3>3
  <2> QED
    BY <1>1, <1>6, <1>12, <1>13, <2>1, CommentsStep DEF IInv
<1> QED
  BY <1>20, <1>21, <1>22, <1>23 DEF IInv

LEMMA BreakOffKeeps ==
  ASSUME IInv, NEW r \in Requests, BreakOff(r)
  PROVE  IInv'
<1> DEFINE o == op[r]
           w == o.kind
           t == o.target
           c == o.on
           by == UndoneMark(o)
           too == UndoneComment(o)
<1>1. o \in Operation /\ Placed(o) /\ Ground
  BY OpOf
<1>2. /\ o.at \notin {"idle", "over"} /\ op' = [op EXCEPT ![r] = Over]
      /\ drift' = IF w \in Marks THEN Off(w, t, by) ELSE drift
      /\ tagDrift' = [h \in Tags |-> tagDrift[h] + UndoneTag(o, h)]
      /\ commentDrift' = IF c \in Contents THEN OffComments(c, too) ELSE commentDrift
      /\ UNCHANGED <<contents, comments, rows, count, commentCount, known, tagCount, scene>>
  BY DEF BreakOff, Done, Go
<1>3. Moves(r) /\ op'[r] = Over
  BY <1>1, <1>2, Slots, MovesTo
<1>4. w \in Marks => t \in Targets
  BY <1>1 DEF Placed
<1>5. by \in Int /\ too \in Int /\ \A h : UndoneTag(o, h) \in Int
  BY <1>1 DEF UndoneMark, UndoneComment, UndoneTag, One, Operation
<1>6. /\ count \in [Marks -> [Targets -> Int]] /\ drift \in [Marks -> [Targets -> Int]]
      /\ commentCount \in [Contents -> Int] /\ commentDrift \in [Contents -> Int]
      /\ tagDrift \in [Tags -> Int] /\ tagCount \in [Tags -> Int]
  BY <1>1 DEF Ground, TypeOK
<1>7. \A x : NoteShort(o, x) \in Int /\ NoteOver(o, x) \in Int
  BY <1>1 DEF NoteShort, NoteOver, One, Operation
<1>8. \A v \in Marks, x \in Targets :
        MarkOver(o, v, x) - MarkShort(o, v, x) = IF w \in Marks /\ v = w /\ x = t THEN by ELSE 0
  BY DEF MarkShort, MarkOver, UndoneMark, One
<1>9. \A x \in Contents : NoteOver(o, x) - NoteShort(o, x) = IF x = c THEN too ELSE 0
  BY <1>1 DEF NoteShort, NoteOver, UndoneComment, One, Operation
<1>10. \A h : TagOver(o, h) - TagShort(o, h) = UndoneTag(o, h)
  BY DEF TagOver, TagShort, UndoneTag
<1> HIDE DEF o, w, t, c, by, too
<1>11. /\ drift' \in [Marks -> [Targets -> Int]]
       /\ \A v \in Marks, x \in Targets :
            drift'[v][x] = IF w \in Marks /\ v = w /\ x = t /\ Live(x) THEN drift[v][x] + by ELSE drift[v][x]
  <2>1. CASE w \in Marks
    BY <1>1, <1>2, <1>4, <1>5, <2>1, OffMoves
  <2>2. CASE w \notin Marks
    BY <1>2, <1>6, <2>2
  <2> QED
    BY <2>1, <2>2
<1>12. /\ commentDrift' \in [Contents -> Int]
       /\ \A x \in Contents :
            commentDrift'[x] = IF x = c /\ Live(x) THEN commentDrift[x] + too ELSE commentDrift[x]
  <2>1. CASE c \in Contents
    BY <1>1, <1>2, <1>5, <2>1, OffCommentsMoves
  <2>2. CASE c \notin Contents
    BY <1>2, <1>6, <2>2
  <2> QED
    BY <2>1, <2>2
<1>13. tagDrift' \in [Tags -> Int] /\ \A h \in Tags : tagDrift'[h] = tagDrift[h] + UndoneTag(o, h)
  BY <1>2, <1>5, <1>6
<1>14. TypeOK'
  BY <1>1, <1>2, <1>3, <1>11, <1>12, <1>13 DEF Ground, TypeOK, Moves
<1>15. Zero'
  BY <1>1, <1>2, <1>11, <1>12 DEF Ground, Zero, Live
<1>16. Ground'
  <2>1. \A v \in Marks : rows'[v] \subseteq rows[v]
    BY <1>2
  <2> QED
    BY <1>1, <1>2, <1>14, <1>15, <2>1, Slots, SlotKeeps
<1>17. \A x : Live(x)' = Live(x) /\ CommentsOn(x)' = CommentsOn(x)
  BY <1>2 DEF Live, CommentsOn
<1>18. MarksBalanced'
  <2>1. ASSUME NEW v \in Marks, NEW x \in Targets, Live(x)'
        PROVE  /\ Cardinality(Marked(v, x))' \in Int
               /\ count'[v][x] - count[v][x] + MarkShort(op'[r], v, x) - MarkShort(op[r], v, x)
                    = Cardinality(Marked(v, x))' - Cardinality(Marked(v, x))
                        + MarkOver(op'[r], v, x) - MarkOver(op[r], v, x) + drift'[v][x] - drift[v][x]
    <3> DEFINE a == MarkShort(o, v, x)
               b == MarkOver(o, v, x)
               d == IF w \in Marks /\ v = w /\ x = t THEN by ELSE 0
    <3>1. MarkShort(op'[r], v, x) = 0 /\ MarkOver(op'[r], v, x) = 0
      BY <1>3, Slots DEF MarkShort, MarkOver, One, Marks
    <3>2. a \in Int /\ b \in Int /\ d \in Int /\ b - a = d
      BY <1>5, <1>8 DEF MarkShort, MarkOver, One
    <3>3. drift'[v][x] = drift[v][x] + d
      BY <1>6, <1>11, <1>17, <2>1
    <3>4. Marked(v, x)' = Marked(v, x) /\ Cardinality(Marked(v, x)) \in Nat
      BY <1>1, <1>2, MarkedFinite DEF Marked
    <3>5. count[v][x] \in Int /\ drift[v][x] \in Int /\ count' = count
      BY <1>2, <1>6
    <3> HIDE DEF a, b, d
    <3>6. count'[v][x] - count[v][x] + 0 - a
            = Cardinality(Marked(v, x))' - Cardinality(Marked(v, x)) + 0 - b + drift'[v][x] - drift[v][x]
      BY <3>2, <3>3, <3>4, <3>5
    <3> QED
      BY <3>1, <3>4, <3>6 DEF a, b, o
  <2> QED
    BY <1>1, <1>3, <1>14, <1>17, <2>1, MarksStep DEF IInv
<1>19. TagsBalanced'
  <2>1. ASSUME NEW h \in Tags
        PROVE  /\ Cardinality(Carriers(h))' \in Int
               /\ tagCount'[h] - tagCount[h] + TagShort(op'[r], h) - TagShort(op[r], h)
                    = Cardinality(Carriers(h))' - Cardinality(Carriers(h))
                        + TagOver(op'[r], h) - TagOver(op[r], h) + tagDrift'[h] - tagDrift[h]
    <3> DEFINE a == TagShort(o, h)
               b == TagOver(o, h)
               d == UndoneTag(o, h)
    <3>1. TagShort(op'[r], h) = 0 /\ TagOver(op'[r], h) = 0
      BY <1>3, Slots DEF TagShort, TagOver, Missing, Excess, One
    <3>2. a \in Int /\ b \in Int /\ d \in Int /\ b - a = d
      BY <1>5, <1>10 DEF TagShort, TagOver, One
    <3>3. tagDrift'[h] = tagDrift[h] + d
      BY <1>13
    <3>4. Carriers(h)' = Carriers(h) /\ Cardinality(Carriers(h)) \in Nat
      BY <1>2, CarriersFinite DEF Carriers
    <3>5. tagCount[h] \in Int /\ tagDrift[h] \in Int /\ tagCount' = tagCount
      BY <1>2, <1>6
    <3> HIDE DEF a, b, d
    <3>6. tagCount'[h] - tagCount[h] + 0 - a
            = Cardinality(Carriers(h))' - Cardinality(Carriers(h)) + 0 - b + tagDrift'[h] - tagDrift[h]
      BY <3>2, <3>3, <3>4, <3>5
    <3> QED
      BY <3>1, <3>4, <3>6 DEF a, b, o
  <2> QED
    BY <1>1, <1>3, <1>14, <2>1, TagsStep DEF IInv
<1>20. CommentsBalanced'
  <2>1. ASSUME NEW x \in Contents, Live(x)'
        PROVE  /\ Cardinality(CommentsOn(x))' \in Int
               /\ commentCount'[x] - commentCount[x] + NoteShort(op'[r], x) - NoteShort(op[r], x)
                    = Cardinality(CommentsOn(x))' - Cardinality(CommentsOn(x))
                        + NoteOver(op'[r], x) - NoteOver(op[r], x) + commentDrift'[x] - commentDrift[x]
    <3> DEFINE a == NoteShort(o, x)
               b == NoteOver(o, x)
               d == IF x = c THEN too ELSE 0
    <3>1. NoteShort(op'[r], x) = 0 /\ NoteOver(op'[r], x) = 0
      BY <1>3, Slots DEF NoteShort, NoteOver, One
    <3>2. a \in Int /\ b \in Int /\ d \in Int /\ b - a = d
      BY <1>5, <1>7, <1>9
    <3>3. commentDrift'[x] = commentDrift[x] + d
      BY <1>6, <1>12, <1>17, <2>1
    <3>4. CommentsOn(x)' = CommentsOn(x) /\ Cardinality(CommentsOn(x)) \in Nat
      BY <1>17, CommentsFinite
    <3>5. commentCount[x] \in Int /\ commentDrift[x] \in Int /\ commentCount' = commentCount
      BY <1>2, <1>6
    <3> HIDE DEF a, b, d
    <3>6. commentCount'[x] - commentCount[x] + 0 - a
            = Cardinality(CommentsOn(x))' - Cardinality(CommentsOn(x)) + 0 - b + commentDrift'[x] - commentDrift[x]
      BY <3>2, <3>3, <3>4, <3>5
    <3> QED
      BY <3>1, <3>4, <3>6 DEF a, b, o
  <2> QED
    BY <1>1, <1>3, <1>14, <1>17, <2>1, CommentsStep DEF IInv
<1> QED
  BY <1>16, <1>18, <1>19, <1>20 DEF IInv

-----------------------------------------------------------------------------
LEMMA Initially == Init => IInv
<1> SUFFICES ASSUME Init PROVE IInv
  OBVIOUS
<1>1. /\ contents = [c \in Contents |-> Unwritten] /\ comments = [k \in Comments |-> Unsaid]
      /\ rows = [w \in Marks |-> {}] /\ count = [w \in Marks |-> [t \in Targets |-> 0]]
      /\ commentCount = [c \in Contents |-> 0] /\ known = {} /\ tagCount = [h \in Tags |-> 0]
      /\ op = [r \in Requests |-> Idle] /\ scene \in Scenes
      /\ drift = count /\ tagDrift = tagCount /\ commentDrift = commentCount
  BY DEF Init
<1>2. Unwritten \in Content /\ Unwritten.life = "unborn" /\ Unwritten.tags = {}
  BY DEF Unwritten, Content, Life
<1>3. Unsaid \in Comment /\ Unsaid.life = "unborn" /\ Unsaid.on = None /\ Unsaid.parent = None
  BY DEF Unsaid, Comment, Life
<1>4. \A t \in Targets : ~Live(t)
  BY <1>1, <1>2, <1>3 DEF Live, Targets
<1>5. TypeOK
  BY <1>1, <1>2, <1>3, Slots DEF TypeOK
<1>6. Zero
  BY <1>1, <1>2, <1>4 DEF Zero
<1>7. Threads
  BY <1>1, <1>3, Apart DEF Threads
<1>8. Written
  BY <1>1 DEF Written
<1>9. Ground
  BY <1>1, <1>5, <1>6, <1>7, <1>8, Slots DEF Ground
<1>10. MarksBalanced
  BY <1>4 DEF MarksBalanced
<1>11. CommentsBalanced
  BY <1>4, Apart DEF CommentsBalanced
<1>12. TagsBalanced
  <2> SUFFICES ASSUME NEW h \in Tags
               PROVE  tagCount[h] + TagsShort(h) = Cardinality(Carriers(h)) + TagsOver(h) + tagDrift[h]
    BY DEF TagsBalanced
  <2>1. Carriers(h) = {}
    BY <1>1, <1>2 DEF Carriers
  <2>2. \A r \in Requests : TagShort(op[r], h) = 0 /\ TagOver(op[r], h) = 0
    BY <1>1, Slots DEF TagShort, TagOver, Missing, Excess, One
  <2>3. TagsShort(h) = 0 /\ TagsOver(h) = 0
    BY <2>2, SumZero, FeedAssumption DEF TagsShort, TagsOver, Total
  <2> QED
    BY <1>1, <2>1, <2>3, FS_EmptySet
<1> QED
  BY <1>9, <1>10, <1>11, <1>12 DEF IInv

LEMMA Standing == IInv /\ UNCHANGED vars => IInv'
<1> SUFFICES ASSUME IInv, UNCHANGED vars PROVE IInv'
  OBVIOUS
<1>1. contents \in [Contents -> Content] /\ comments \in [Comments -> Comment]
  BY DEF IInv, Ground, TypeOK
<1> QED
  BY <1>1, StillKeeps DEF vars, history

LEMMA RequestKeeps ==
  ASSUME IInv, NEW r \in Requests, NEW u \in Users, Request(r, u)
  PROVE  IInv'
<1>1. ASSUME NEW c \in Contents, Delete(r, u, c) PROVE IInv'
  BY <1>1, DeleteKeeps
<1>2. ASSUME NEW c \in Contents, NEW tags \in SUBSET Tags, Create(r, u, c, tags) PROVE IInv'
  BY <1>2, CreateKeeps
<1>3. ASSUME NEW c \in Contents, NEW tags \in SUBSET Tags, Edit(r, u, c, tags) PROVE IInv'
  BY <1>3, EditKeeps
<1>4. ASSUME NEW t \in Targets, NEW w \in Marks, Toggle(r, u, w, t) PROVE IInv'
  BY <1>4, ToggleKeeps
<1>5. ASSUME NEW c \in Contents, NEW p \in Comments \cup {None}, AddComment(r, u, c, p) PROVE IInv'
  BY <1>5, AddCommentKeeps
<1>6. ASSUME NEW k \in Comments, DeleteComment(r, u, k) PROVE IInv'
  BY <1>6, DeleteCommentKeeps
<1> QED
  BY <1>1, <1>2, <1>3, <1>4, <1>5, <1>6 DEF Request

LEMMA StepOfRequest ==
  ASSUME IInv, NEW r \in Requests, Step(r)
  PROVE  IInv'
<1>1. ASSUME NEW h \in Tags, RaiseTag(r, h) PROVE IInv'
  BY <1>1, RaiseTagKeeps
<1>2. ASSUME NEW h \in Tags, LowerTag(r, h) PROVE IInv'
  BY <1>2, LowerTagKeeps
<1>3. ASSUME NEW w \in Marks, DropRows(r, w) PROVE IInv'
  BY <1>3, DropRowsKeeps
<1>4. ASSUME NEW k \in Comments, CreateComment(r, k) PROVE IInv'
  BY <1>4, CreateCommentKeeps
<1>5. CASE SaveContent(r) \/ DropComments(r) \/ RemoveContent(r)
  BY <1>5, SaveContentKeeps, DropCommentsKeeps, RemoveContentKeeps
<1>6. CASE FindMark(r) \/ Mark(r) \/ Unmark(r) \/ CountMark(r)
  BY <1>6, FindMarkKeeps, MarkKeeps, UnmarkKeeps, CountMarkKeeps
<1>7. CASE FindParent(r) \/ CountComment(r) \/ CountReplies(r) \/ DropReplies(r)
  BY <1>7, FindParentKeeps, CountCommentKeeps, CountRepliesKeeps, DropRepliesKeeps
<1>8. CASE DropLikes(r) \/ Uncount(r) \/ EraseComment(r) \/ BreakOff(r)
  BY <1>8, DropLikesKeeps, UncountKeeps, EraseCommentKeeps, BreakOffKeeps
<1> QED
  BY <1>1, <1>2, <1>3, <1>4, <1>5, <1>6, <1>7, <1>8 DEF Step

LEMMA NextKeeps == IInv /\ [Next]_vars => IInv'
<1> SUFFICES ASSUME IInv, [Next]_vars PROVE IInv'
  OBVIOUS
<1>1. ASSUME NEW r \in Requests, Step(r) PROVE IInv'
  BY <1>1, StepOfRequest
<1>2. ASSUME NEW r \in Requests, NEW u \in Users, Request(r, u) PROVE IInv'
  BY <1>2, RequestKeeps
<1>3. ASSUME NEW c \in Contents, HideContent(c) PROVE IInv'
  BY <1>3, HideContentKeeps
<1>4. ASSUME NEW k \in Comments, HideComment(k) PROVE IInv'
  BY <1>4, HideCommentKeeps
<1>5. CASE UNCHANGED vars \/ AtRest
  BY <1>5, Standing DEF AtRest
<1> QED
  BY <1>1, <1>2, <1>3, <1>4, <1>5 DEF Next

\* Every number of likes, saves, comments and uses of a hashtag is balanced at every
\* step, whatever requests overlap or break off: with what requests in flight have
\* still to add, it is the number of its rows with what they have still to take and
\* what the accidents have left (toggleLike, toggleSave, addComment, deleteComment,
\* syncHashtags and the deletions).
THEOREM Inductive == Spec => []IInv
  BY Initially, NextKeeps, PTL DEF Spec

\* Types, and one like or save of a user and target: the unique index stops a second
\* row whatever the number of requests in flight (toggleLike, toggleSave).
THEOREM TypeCorrect == Spec => []TypeOK
<1>1. IInv => TypeOK
  BY DEF IInv, Ground
<1> QED
  BY <1>1, Inductive, PTL

\* Nothing but the three accidents of MarksAccounted makes likeCount or saveCount
\* differ from its rows (toggleLike, toggleSave, deletePost, deleteReel, deleteComment).
THEOREM MarksRight == Spec => []MarksAccounted
<1>1. IInv => MarksAccounted
  <2> SUFFICES ASSUME IInv, NEW w \in Marks, NEW t \in Targets, Live(t),
                      \A r \in Requests : op[r].kind = w /\ op[r].target = t => op[r].at \notin {"inc", "dec"}
               PROVE  count[w][t] = Cardinality(Marked(w, t)) + drift[w][t]
    BY DEF MarksAccounted
  <2>1. \A r \in Requests : MarkShort(op[r], w, t) = 0 /\ MarkOver(op[r], w, t) = 0
    BY DEF MarkShort, MarkOver, One
  <2>2. MarksShort(w, t) = 0 /\ MarksOver(w, t) = 0
    BY <2>1, SumZero, FeedAssumption DEF MarksShort, MarksOver, Total
  <2>3. count[w][t] + MarksShort(w, t) = Cardinality(Marked(w, t)) + MarksOver(w, t) + drift[w][t]
    BY DEF IInv, MarksBalanced
  <2>4. count[w][t] \in Int /\ drift[w][t] \in Int /\ Cardinality(Marked(w, t)) \in Nat
    BY MarkedFinite DEF IInv, Ground, TypeOK
  <2> QED
    BY <2>2, <2>3, <2>4
<1> QED
  BY <1>1, Inductive, PTL

\* postCount is the number of contents that carry the hashtag, but for the accidents
\* of TagsAccounted: two edits that overlap are none of them, because the version of
\* the array lets one of them save (updatePost, updateReel, syncHashtags).
THEOREM TagsRight == Spec => []TagsAccounted
<1>1. IInv => TagsAccounted
  <2> SUFFICES ASSUME IInv, \A r \in Requests : op[r].kind \notin {"create", "edit", "delete"}, NEW h \in Tags
               PROVE  tagCount[h] = Cardinality(Carriers(h)) + tagDrift[h]
    BY DEF TagsAccounted, Carriers
  <2>1. \A r \in Requests : op[r] \in Operation /\ Placed(op[r])
    BY OpOf
  <2>2. \A r \in Requests : TagShort(op[r], h) = 0 /\ TagOver(op[r], h) = 0
    BY <2>1, NoTag
  <2>3. TagsShort(h) = 0 /\ TagsOver(h) = 0
    BY <2>2, SumZero, FeedAssumption DEF TagsShort, TagsOver, Total
  <2>4. tagCount[h] + TagsShort(h) = Cardinality(Carriers(h)) + TagsOver(h) + tagDrift[h]
    BY DEF IInv, TagsBalanced
  <2>5. tagCount[h] \in Int /\ tagDrift[h] \in Int /\ Cardinality(Carriers(h)) \in Nat
    BY CarriersFinite DEF IInv, Ground, TypeOK
  <2> QED
    BY <2>3, <2>4, <2>5
<1> QED
  BY <1>1, Inductive, PTL

\* commentCount is the number of comments and replies, but for the accidents of
\* CommentsAccounted (addComment, deleteComment, deletePost, deleteReel).
THEOREM CommentsRight == Spec => []CommentsAccounted
<1>1. IInv => CommentsAccounted
  <2> SUFFICES ASSUME IInv, NEW c \in Contents, Live(c),
                      \A r \in Requests : op[r].on = c => op[r].at \notin {"count", "dropLikes", "uncount", "erase"}
               PROVE  commentCount[c] = Cardinality(CommentsOn(c)) + commentDrift[c]
    BY DEF CommentsAccounted
  <2>1. \A r \in Requests : NoteShort(op[r], c) = 0 /\ NoteOver(op[r], c) = 0
    BY DEF NoteShort, NoteOver, One
  <2>2. NotesShort(c) = 0 /\ NotesOver(c) = 0
    BY <2>1, SumZero, FeedAssumption DEF NotesShort, NotesOver, Total
  <2>3. commentCount[c] + NotesShort(c) = Cardinality(CommentsOn(c)) + NotesOver(c) + commentDrift[c]
    BY DEF IInv, CommentsBalanced
  <2>4. commentCount[c] \in Int /\ commentDrift[c] \in Int /\ Cardinality(CommentsOn(c)) \in Nat
    BY CommentsFinite DEF IInv, Ground, TypeOK
  <2> QED
    BY <2>2, <2>3, <2>4
<1> QED
  BY <1>1, Inductive, PTL
=============================================================================
