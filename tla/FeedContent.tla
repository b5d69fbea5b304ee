------------------------------ MODULE FeedContent ------------------------------
(***************************************************************************)
(* FeedContentSystem: posts and reels, comments, likes and saves, and the  *)
(* counters kept beside them.                                              *)
(*                                                                         *)
(* A like is a row of a collection with a unique index; the number shown   *)
(* under a post is a field of the post, changed by $inc in a call of its   *)
(* own.  Deleting content removes its rows collection by collection before *)
(* the content itself.  Nothing runs in a transaction, and nothing sets a  *)
(* number right again.  Posts and reels have the same handlers; both are   *)
(* Contents here.  Texts, media and their upload, searches and             *)
(* notifications are left out.                                             *)
(*                                                                         *)
(* Requests are processes of their own: a user may have any number of them *)
(* in flight (two devices, a double tap), on the same post or not.  A      *)
(* request may break off between any two of its calls, because a call      *)
(* fails or the process ends.                                              *)
(***************************************************************************)
EXTENDS Integers, FiniteSets

CONSTANTS
  Users,
  Admins,      \* users whose deletions come through the administration routes
  Contents,    \* identities of posts and reels
  Comments,    \* identities of comments
  Tags,        \* hashtags
  Requests,    \* bound: every request is made at most once
  Scenes,      \* bound: the users and kinds of every request, one choice per behaviour
  None         \* no content, comment, user or row

Kinds == {"create", "edit", "delete", "likes", "saves", "comment", "uncomment"}

ASSUME FeedAssumption ==
  /\ IsFiniteSet(Requests) /\ Admins \subseteq Users
  /\ IsFiniteSet(Contents) /\ IsFiniteSet(Comments) /\ IsFiniteSet(Tags)
  /\ Contents \cap Comments = {}
  /\ Scenes \subseteq [Requests -> SUBSET (Users \X Kinds)]
  /\ None \notin Contents \cup Comments \cup Users \cup Requests

Targets == Contents \cup Comments
Marks   == {"likes", "saves"}

Life == {"unborn", "live", "gone"}
Content == [life : Life, author : Users \cup {None}, tags : SUBSET Tags, hidden : BOOLEAN,
            version : Nat]                        \* __v
Comment == [life : Life, author : Users \cup {None}, on : Contents \cup {None},
            parent : Comments \cup {None}, hidden : BOOLEAN]
Row == [user : Users, target : Targets, id : Requests]  \* _id: the request that wrote it

Unwritten == [life |-> "unborn", author |-> None, tags |-> {}, hidden |-> FALSE, version |-> 0]
Deleted   == [Unwritten EXCEPT !.life = "gone"]
Unsaid    == [life |-> "unborn", author |-> None, on |-> None, parent |-> None, hidden |-> FALSE]
Erased(c) == [Unsaid EXCEPT !.life = "gone", !.on = c]

VARIABLES
  contents, comments,
  rows,          \* the collections of likes and saves
  count,         \* likeCount and saveCount of every target
  commentCount,  \* of every content
  known,         \* the hashtags that have a document
  tagCount,      \* its postCount
  op,            \* the requests
  scene

\* History, read by no step: by how much a number is off for the accidents that
\* have happened to it (see Without, Unmark, LowerTag, Erase, BreakOff).
VARIABLES drift, tagDrift, commentDrift

vars == <<contents, comments, rows, count, commentCount, known, tagCount, op, scene,
          drift, tagDrift, commentDrift>>
history == <<drift, tagDrift, commentDrift>>

Steps == {"idle", "over", "find", "mark", "unmark", "inc", "dec", "save", "tags", "cleanup",
          "remove", "parent", "create", "count", "replies", "drop", "dropLikes", "uncount", "erase"}

Operation ==
  [kind : Kinds \cup {"none"}, at : Steps, by : Users \cup {None},
   target : Targets \cup {None},     \* what the request is about
   row : Requests \cup {None},       \* the like or save that was found
   on : Contents \cup {None},        \* the content of a comment
   parent : Comments \cup {None},
   version : Nat,                    \* of the copy loaded
   tags : SUBSET Tags,               \* the hashtags to save; those of the copy to delete
   add : SUBSET Tags, sub : SUBSET Tags,  \* counters still to be raised, lowered
   left : SUBSET {"likes", "saves", "comments"},  \* collections still to be cleaned
   n : Nat]                          \* the replies counted

Idle == [kind |-> "none", at |-> "idle", by |-> None, target |-> None, row |-> None, on |-> None,
         parent |-> None, version |-> 0, tags |-> {}, add |-> {}, sub |-> {}, left |-> {}, n |-> 0]
Over == [Idle EXCEPT !.at = "over"]

May(r, u, kind) == op[r] = Idle /\ <<u, kind>> \in scene[r]
At(r, s)        == op[r].at = s
Go(r, o)        == op' = [op EXCEPT ![r] = o]
Proceed(r, s)   == Go(r, [op[r] EXCEPT !.at = s])
Done(r)         == Go(r, Over)
Started(r, u, kind, s, t) == [Idle EXCEPT !.kind = kind, !.at = s, !.by = u, !.target = t]

Live(t) == IF t \in Contents THEN contents[t].life = "live" ELSE comments[t].life = "live"
Hidden(t) == IF t \in Contents THEN contents[t].hidden ELSE comments[t].hidden
MayDelete(u, author) == u = author \/ u \in Admins

One(b) == IF b THEN 1 ELSE 0
Marked(w, t)    == {m \in rows[w] : m.target = t}
CommentsOn(c)   == {k \in Comments : comments[k].life = "live" /\ comments[k].on = c}
Replies(k)      == {a \in Comments : comments[a].parent = k}

\* The hashtags whose counter is still to be raised or, by a deletion, has been
\* lowered ahead of it; and those an edit has still to lower.
Missing(o, h) == \/ o.at = "tags" /\ h \in o.add
                 \/ o.kind = "delete" /\ h \in o.tags \ o.sub
Excess(o, h)  == o.kind = "edit" /\ o.at = "tags" /\ h \in o.sub

\* The counters of a document go with it, and so does what they were off by.
Without(n, gone) == [w \in Marks |-> [t \in Targets |-> IF t \in gone THEN 0 ELSE n[w][t]]]
Off(w, t, by)    == [drift EXCEPT ![w][t] = IF Live(t) THEN @ + by ELSE @]
OffComments(c, by) == [commentDrift EXCEPT ![c] = IF Live(c) THEN @ + by ELSE @]

\* syncHashtags: the updates run in parallel; an operation without any goes on.
AfterTags(o) == IF o.kind = "delete" THEN [o EXCEPT !.at = "remove"] ELSE Over

SyncHashtags(o, add, sub) ==
  IF add \cup sub = {}
  THEN AfterTags([o EXCEPT !.add = {}, !.sub = {}])
  ELSE [o EXCEPT !.at = "tags", !.add = add, !.sub = sub]

Init ==
  /\ contents = [c \in Contents |-> Unwritten]
  /\ comments = [k \in Comments |-> Unsaid]
  /\ rows = [w \in Marks |-> {}]
  /\ count = [w \in Marks |-> [t \in Targets |-> 0]]
  /\ commentCount = [c \in Contents |-> 0]
  /\ known = {} /\ tagCount = [h \in Tags |-> 0]
  /\ op = [r \in Requests |-> Idle] /\ scene \in Scenes
  /\ drift = count /\ tagDrift = tagCount /\ commentDrift = commentCount

-----------------------------------------------------------------------------
\* createPost and createReel, once the files are uploaded.
Create(r, u, c, tags) ==
  /\ May(r, u, "create") /\ contents[c].life = "unborn"
  /\ contents' = [contents EXCEPT ![c] =
       [Unwritten EXCEPT !.life = "live", !.author = u, !.tags = tags]]
  /\ Go(r, SyncHashtags(Started(r, u, "create", "tags", c), tags, {}))
  /\ UNCHANGED <<comments, rows, count, commentCount, known, tagCount, scene, history>>

\* updatePost and updateReel with hashtags; a new text changes nothing here.
Edit(r, u, c, tags) ==
  /\ May(r, u, "edit") /\ contents[c].life = "live" /\ contents[c].author = u
  /\ tags # contents[c].tags
  /\ Go(r, [Started(r, u, "edit", "save", c) EXCEPT
              !.version = contents[c].version, !.tags = tags,
              !.add = tags \ contents[c].tags, !.sub = contents[c].tags \ tags])
  /\ UNCHANGED <<contents, comments, rows, count, commentCount, known, tagCount, scene, history>>

\* Mutant of SaveContent: the version of the copy is not compared.
SaveStale(r) ==
  /\ At(r, "save")
  /\ LET c == op[r].target IN
     \/ /\ Live(c)
        /\ contents' = [contents EXCEPT ![c].tags = op[r].tags]
        /\ Go(r, SyncHashtags(op[r], op[r].add, op[r].sub))
     \/ ~Live(c) /\ Done(r) /\ UNCHANGED contents
  /\ UNCHANGED <<comments, rows, count, commentCount, known, tagCount, scene, history>>

\* save() replaces the array of hashtags: it raises __v, and throws when the content
\* has been deleted or its hashtags replaced since it was read.
SaveContent(r) ==
  /\ At(r, "save")
  /\ LET c == op[r].target
         fresh == Live(c) /\ contents[c].version = op[r].version IN
     \/ /\ fresh
        /\ contents' = [contents EXCEPT ![c].tags = op[r].tags, ![c].version = @ + 1]
        /\ Go(r, SyncHashtags(op[r], op[r].add, op[r].sub))
     \/ ~fresh /\ Done(r) /\ UNCHANGED contents
  /\ UNCHANGED <<comments, rows, count, commentCount, known, tagCount, scene, history>>

RaiseTag(r, h) ==
  /\ At(r, "tags") /\ h \in op[r].add
  /\ known' = known \cup {h}
  /\ tagCount' = [tagCount EXCEPT ![h] = @ + 1]
  /\ Go(r, SyncHashtags(op[r], op[r].add \ {h}, op[r].sub))
  /\ UNCHANGED <<contents, comments, rows, count, commentCount, scene, history>>

\* Without upsert: a hashtag that has no document stays without.  Accident: whoever
\* has put it there has not raised it, and may still do so.
LowerTag(r, h) ==
  /\ At(r, "tags") /\ h \in op[r].sub
  /\ tagCount' = [tagCount EXCEPT ![h] = @ - One(h \in known)]
  /\ tagDrift' = [tagDrift EXCEPT ![h] = @ + One(h \notin known)]
  /\ Go(r, SyncHashtags(op[r], op[r].add, op[r].sub \ {h}))
  /\ UNCHANGED <<contents, comments, rows, count, commentCount, known, scene, drift, commentDrift>>

-----------------------------------------------------------------------------
\* deletePost and deleteReel, by the author or an administrator.
Delete(r, u, c) ==
  /\ May(r, u, "delete") /\ contents[c].life = "live" /\ MayDelete(u, contents[c].author)
  /\ Go(r, [Started(r, u, "delete", "cleanup", c) EXCEPT
              !.tags = contents[c].tags, !.sub = contents[c].tags,
              !.left = {"likes", "saves", "comments"}])
  /\ UNCHANGED <<contents, comments, rows, count, commentCount, known, tagCount, scene, history>>

\* The three deleteMany run in parallel.  The likes of the comments stay.
Cleaned(r, x) ==
  LET left == op[r].left \ {x} IN
  Go(r, IF left # {} THEN [op[r] EXCEPT !.left = left]
        ELSE SyncHashtags([op[r] EXCEPT !.left = {}], {}, op[r].sub))

\* Until the target is gone too, its number is too large.
Sweep(w, t) ==
  /\ rows' = [rows EXCEPT ![w] = @ \ Marked(w, t)]
  /\ drift' = Off(w, t, Cardinality(Marked(w, t)))

DropRows(r, w) ==
  /\ At(r, "cleanup") /\ w \in op[r].left
  /\ Sweep(w, op[r].target)
  /\ Cleaned(r, w)
  /\ UNCHANGED <<contents, comments, count, commentCount, known, tagCount, scene, tagDrift, commentDrift>>

EraseComments(K) ==
  /\ comments' = [k \in Comments |-> IF k \in K THEN Erased(comments[k].on) ELSE comments[k]]
  /\ count' = Without(count, K) /\ drift' = Without(drift, K)

DropComments(r) ==
  /\ At(r, "cleanup") /\ "comments" \in op[r].left
  /\ EraseComments(CommentsOn(op[r].target))
  /\ commentDrift' = OffComments(op[r].target, Cardinality(CommentsOn(op[r].target)))
  /\ Cleaned(r, "comments")
  /\ UNCHANGED <<contents, rows, commentCount, known, tagCount, scene, tagDrift>>

\* deleteOne, by _id.  Accident: the content carries other hashtags by now than
\* the deletion has lowered, or is gone already.
RemoveContent(r) ==
  /\ At(r, "remove")
  /\ LET c == op[r].target IN
     /\ contents' = [contents EXCEPT ![c] = Deleted]
     /\ count' = Without(count, {c}) /\ drift' = Without(drift, {c})
     /\ commentCount' = [commentCount EXCEPT ![c] = 0]
     /\ commentDrift' = [commentDrift EXCEPT ![c] = 0]
     /\ tagDrift' = [h \in Tags |-> tagDrift[h]
                        + One(h \in contents[c].tags) - One(h \in op[r].tags)]
  /\ Done(r)
  /\ UNCHANGED <<comments, rows, known, tagCount, scene>>

-----------------------------------------------------------------------------
\* toggleLike of posts, reels and comments, toggleSave of posts and reels.
Toggle(r, u, w, t) ==
  /\ May(r, u, w) /\ Live(t) /\ ~Hidden(t)
  /\ w = "saves" => t \in Contents
  /\ Go(r, Started(r, u, w, "find", t))
  /\ UNCHANGED <<contents, comments, rows, count, commentCount, known, tagCount, scene, history>>

Own(r) == {m \in rows[op[r].kind] : m.user = op[r].by /\ m.target = op[r].target}

FindMark(r) ==
  /\ At(r, "find")
  /\ \/ Own(r) = {} /\ Proceed(r, "mark")
     \/ \E m \in Own(r) : Go(r, [op[r] EXCEPT !.at = "unmark", !.row = m.id])
  /\ UNCHANGED <<contents, comments, rows, count, commentCount, known, tagCount, scene, history>>

NewRow(r) == [user |-> op[r].by, target |-> op[r].target, id |-> r]

\* Mutants of Mark: the index is not unique; and a row refused is taken for a row
\* that was wanted, and counted.
MarkTwice(r) ==
  /\ At(r, "mark")
  /\ rows' = [rows EXCEPT ![op[r].kind] = @ \cup {NewRow(r)}]
  /\ Proceed(r, "inc")
  /\ UNCHANGED <<contents, comments, count, commentCount, known, tagCount, scene, history>>

MarkAnyway(r) ==
  /\ At(r, "mark")
  /\ rows' = [rows EXCEPT ![op[r].kind] = @ \cup (IF Own(r) = {} THEN {NewRow(r)} ELSE {})]
  /\ Proceed(r, "inc")
  /\ UNCHANGED <<contents, comments, count, commentCount, known, tagCount, scene, history>>

\* create: the unique index refuses a row that another request of the user has
\* written since, and the request fails.
Mark(r) ==
  /\ At(r, "mark")
  /\ \/ /\ Own(r) = {}
        /\ rows' = [rows EXCEPT ![op[r].kind] = @ \cup {NewRow(r)}]
        /\ Proceed(r, "inc")
     \/ Own(r) # {} /\ Done(r) /\ UNCHANGED rows
  /\ UNCHANGED <<contents, comments, count, commentCount, known, tagCount, scene, history>>

\* deleteOne, by the _id found.  Accident: the row is gone already, and the request
\* lowers the counter all the same.
Unmark(r) ==
  /\ At(r, "unmark")
  /\ LET w == op[r].kind
         found == {m \in Marked(w, op[r].target) : m.id = op[r].row} IN
     /\ rows' = [rows EXCEPT ![w] = @ \ found]
     /\ drift' = Off(w, op[r].target, Cardinality(found) - 1)
  /\ Proceed(r, "dec")
  /\ UNCHANGED <<contents, comments, count, commentCount, known, tagCount, scene, tagDrift, commentDrift>>

\* findByIdAndUpdate with $inc: nothing happens to a target that is gone.
CountMark(r) ==
  /\ op[r].at \in {"inc", "dec"}
  /\ LET by == IF At(r, "inc") THEN 1 ELSE -1 IN
     count' = [count EXCEPT ![op[r].kind][op[r].target] = IF Live(op[r].target) THEN @ + by ELSE @]
  /\ Done(r)
  /\ UNCHANGED <<contents, comments, rows, commentCount, known, tagCount, scene, history>>

-----------------------------------------------------------------------------
\* addComment; p is None or the comment that is answered, itself a reply or not.
\* Bound: as many comments at once as there are identities left.
Spare == Cardinality({q \in Requests : op[q].at \in {"parent", "create"}})
           < Cardinality({k \in Comments : comments[k].life = "unborn"})

AddComment(r, u, c, p) ==
  /\ May(r, u, "comment") /\ Live(c) /\ ~Hidden(c) /\ Spare
  /\ Go(r, [Started(r, u, "comment", IF p = None THEN "create" ELSE "parent", None) EXCEPT
              !.on = c, !.parent = p])
  /\ UNCHANGED <<contents, comments, rows, count, commentCount, known, tagCount, scene, history>>

FindParent(r) ==
  /\ At(r, "parent")
  /\ LET p == comments[op[r].parent] IN
     IF p.life = "live" /\ p.on = op[r].on THEN Proceed(r, "create") ELSE Done(r)
  /\ UNCHANGED <<contents, comments, rows, count, commentCount, known, tagCount, scene, history>>

CreateComment(r, k) ==
  /\ At(r, "create") /\ comments[k].life = "unborn"
  /\ comments' = [comments EXCEPT ![k] =
       [life |-> "live", author |-> op[r].by, on |-> op[r].on, parent |-> op[r].parent, hidden |-> FALSE]]
  /\ Proceed(r, "count")
  /\ UNCHANGED <<contents, rows, count, commentCount, known, tagCount, scene, history>>

CountComment(r) ==
  /\ At(r, "count")
  /\ commentCount' = [commentCount EXCEPT ![op[r].on] = IF Live(op[r].on) THEN @ + 1 ELSE @]
  /\ Done(r)
  /\ UNCHANGED <<contents, comments, rows, count, known, tagCount, scene, history>>

-----------------------------------------------------------------------------
\* deleteComment, by the author or an administrator.
DeleteComment(r, u, k) ==
  /\ May(r, u, "uncomment") /\ comments[k].life = "live" /\ MayDelete(u, comments[k].author)
  /\ Go(r, [Started(r, u, "uncomment", "replies", k) EXCEPT !.on = comments[k].on])
  /\ UNCHANGED <<contents, comments, rows, count, commentCount, known, tagCount, scene, history>>

CountReplies(r) ==
  /\ At(r, "replies")
  /\ Go(r, [op[r] EXCEPT !.at = "drop", !.n = Cardinality(Replies(op[r].target))])
  /\ UNCHANGED <<contents, comments, rows, count, commentCount, known, tagCount, scene, history>>

\* Accident: not as many replies are deleted as were counted.
DropReplies(r) ==
  /\ At(r, "drop")
  /\ EraseComments(Replies(op[r].target))
  /\ commentDrift' = OffComments(op[r].on, Cardinality(Replies(op[r].target)) - op[r].n)
  /\ Proceed(r, "dropLikes")
  /\ UNCHANGED <<contents, rows, commentCount, known, tagCount, scene, tagDrift>>

\* Until the comment is gone too, its number of likes is too large.
DropLikes(r) ==
  /\ At(r, "dropLikes")
  /\ Sweep("likes", op[r].target)
  /\ Proceed(r, "uncount")
  /\ UNCHANGED <<contents, comments, count, commentCount, known, tagCount, scene, tagDrift, commentDrift>>

\* Mutant of Uncount: the replies that go with the comment are not subtracted.
UncountOne(r) ==
  /\ At(r, "uncount")
  /\ commentCount' = [commentCount EXCEPT ![op[r].on] = IF Live(op[r].on) THEN @ - 1 ELSE @]
  /\ Proceed(r, "erase")
  /\ UNCHANGED <<contents, comments, rows, count, known, tagCount, scene, history>>

Uncount(r) ==
  /\ At(r, "uncount")
  /\ commentCount' = [commentCount EXCEPT ![op[r].on] =
       IF Live(op[r].on) THEN @ - (1 + op[r].n) ELSE @]
  /\ Proceed(r, "erase")
  /\ UNCHANGED <<contents, comments, rows, count, known, tagCount, scene, history>>

\* deleteOne.  Accident: the comment is gone already, and subtracted all the same.
EraseComment(r) ==
  /\ At(r, "erase")
  /\ LET k == op[r].target IN
     /\ EraseComments({k})
     /\ commentDrift' = OffComments(op[r].on, One(comments[k].life = "live") - 1)
  /\ Done(r)
  /\ UNCHANGED <<contents, rows, commentCount, known, tagCount, scene, tagDrift>>

-----------------------------------------------------------------------------
\* hide and unhide, of posts, reels and comments: one call by a moderator.
HideContent(c) ==
  /\ contents[c].life = "live"
  /\ contents' = [contents EXCEPT ![c].hidden = ~@]
  /\ UNCHANGED <<comments, rows, count, commentCount, known, tagCount, op, scene, history>>

HideComment(k) ==
  /\ comments[k].life = "live"
  /\ comments' = [comments EXCEPT ![k].hidden = ~@]
  /\ UNCHANGED <<contents, rows, count, commentCount, known, tagCount, op, scene, history>>

-----------------------------------------------------------------------------
\* What a request that breaks off here leaves undone: the number it would still have
\* lowered (too large now), or raised (too small).
UndoneMark(o)    == One(o.at = "dec") - One(o.at = "inc")
UndoneTag(o, h)  == One(Excess(o, h)) - One(Missing(o, h))
UndoneComment(o) == (IF o.at \in {"dropLikes", "uncount"} THEN o.n ELSE 0)
                      - One(o.at \in {"count", "erase"})

\* A call fails, or the process ends.  Calls sent together may have taken effect:
\* then they are steps taken before this one.
BreakOff(r) ==
  /\ op[r].at \notin {"idle", "over"} /\ Done(r)
  /\ drift' = IF op[r].kind \in Marks THEN Off(op[r].kind, op[r].target, UndoneMark(op[r])) ELSE drift
  /\ tagDrift' = [h \in Tags |-> tagDrift[h] + UndoneTag(op[r], h)]
  /\ commentDrift' = IF op[r].on \in Contents THEN OffComments(op[r].on, UndoneComment(op[r]))
                     ELSE commentDrift
  /\ UNCHANGED <<contents, comments, rows, count, commentCount, known, tagCount, scene>>

Request(r, u) ==
  \/ \E c \in Contents : Delete(r, u, c) \/ \E tags \in SUBSET Tags : Create(r, u, c, tags) \/ Edit(r, u, c, tags)
  \/ \E t \in Targets, w \in Marks : Toggle(r, u, w, t)
  \/ \E c \in Contents, p \in Comments \cup {None} : AddComment(r, u, c, p)
  \/ \E k \in Comments : DeleteComment(r, u, k)

Step(r) ==
  \/ SaveContent(r) \/ (\E h \in Tags : RaiseTag(r, h) \/ LowerTag(r, h))
  \/ (\E w \in Marks : DropRows(r, w)) \/ DropComments(r) \/ RemoveContent(r)
  \/ FindMark(r) \/ Mark(r) \/ Unmark(r) \/ CountMark(r)
  \/ FindParent(r) \/ (\E k \in Comments : CreateComment(r, k)) \/ CountComment(r)
  \/ CountReplies(r) \/ DropReplies(r) \/ DropLikes(r) \/ Uncount(r) \/ EraseComment(r)
  \/ BreakOff(r)

AtRest == (\A r \in Requests : op[r].at \in {"idle", "over"}) /\ UNCHANGED vars

Next ==
  \/ \E r \in Requests : Step(r) \/ \E u \in Users : Request(r, u)
  \/ (\E c \in Contents : HideContent(c)) \/ (\E k \in Comments : HideComment(k))
  \/ AtRest

Spec == Init /\ [][Next]_vars

-----------------------------------------------------------------------------
\* Values stay in their types, and nobody has two likes, or two saves, of the same
\* target however many requests of his overlap.  The numbers are integers: the
\* code lets all of them fall below zero.
TypeOK ==
  /\ contents \in [Contents -> Content] /\ comments \in [Comments -> Comment]
  /\ rows \in [Marks -> SUBSET Row]
  /\ \A w \in Marks : \A m, l \in rows[w] : m.user = l.user /\ m.target = l.target => m = l
  /\ count \in [Marks -> [Targets -> Int]] /\ drift \in [Marks -> [Targets -> Int]]
  /\ commentCount \in [Contents -> Int] /\ commentDrift \in [Contents -> Int]
  /\ known \in SUBSET Tags /\ tagCount \in [Tags -> Int] /\ tagDrift \in [Tags -> Int]
  /\ op \in [Requests -> Operation] /\ scene \in Scenes

\* Whatever has been liked and unliked from several devices, hidden, commented on
\* and deleted in any order, likeCount and saveCount of what still exists differ
\* from its rows for three reasons only: a request that broke off between the row
\* and the counter, an unlike that found its row gone already, and a deletion that
\* has swept the rows.  The number is off by the sum of those and by nothing else
\* (toggleLike and toggleSave write row and counter in separate calls; a double
\* like is stopped by the unique index, a double unlike is not).
MarksAccounted ==
  \A w \in Marks, t \in Targets :
    Live(t) /\ (\A r \in Requests : op[r].kind = w /\ op[r].target = t => op[r].at \notin {"inc", "dec"})
      => count[w][t] = Cardinality(Marked(w, t)) + drift[w][t]

\* When no content is being written, postCount is the number of contents that carry
\* the hashtag, but for the accidents counted in tagDrift: a create, edit or deletion
\* that broke off before its counters were written, a counter lowered before its
\* document existed, and a deletion that overlapped an edit or another deletion and
\* lowered the hashtags of its own old copy (deletePost).  Two edits that overlap
\* are no accident: the version of the array lets one of them save (updatePost).
TagsAccounted ==
  (\A r \in Requests : op[r].kind \notin {"create", "edit", "delete"})
    => \A h \in Tags :
         tagCount[h] = Cardinality({c \in Contents : h \in contents[c].tags}) + tagDrift[h]

\* commentCount of a post or reel is the number of its comments and replies whenever
\* none is being written or deleted, but for the accidents counted in commentDrift:
\* a reply written between the count of the replies and their deletion, a comment
\* deleted twice (as a reply, or with the content), and a request that broke off
\* after the comments were written or deleted and before they were counted.
CommentsAccounted ==
  \A c \in Contents :
    Live(c) /\ (\A r \in Requests : op[r].on = c => op[r].at \notin {"count", "dropLikes", "uncount", "erase"})
      => commentCount[c] = Cardinality(CommentsOn(c)) + commentDrift[c]
=============================================================================
