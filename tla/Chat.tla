---------------------------------- MODULE Chat ----------------------------------
(***************************************************************************)
(* ChatSystem: the conversation of two users, its messages, and who of     *)
(* them has it open (is in its Socket.IO room).  A conversation is found   *)
(* by the slug of its pair, so conversations do not interact.              *)
(*                                                                         *)
(* Every handler makes its database calls one at a time, except where the  *)
(* code starts two together: `left' then holds those not made yet.  What a *)
(* message says is a text; attachments and replyTo are references nothing  *)
(* here follows.  A participant has one socket at a time, and enters the   *)
(* room of its own notifications only, as clients do.  The notifications   *)
(* are those of the service (EXTENDS).                                     *)
(***************************************************************************)
EXTENDS Notifications, Selections

CONSTANTS
  Participants,   \* the two users
  Texts, Emojis,
  Blank,          \* no text
  Procs           \* requests that may be in flight together

\* What is sent.
Draft == [content : {"text", "image"}, text : Texts \cup {Blank}]

ASSUME ChatAssumption ==
  /\ Participants \subseteq Users /\ Cardinality(Participants) = 2
  /\ Blank \notin Texts
  /\ \A s \in Scenes : s.drafts \subseteq Draft

Other(u) == CHOOSE w \in Participants : w # u

\* A reaction; one without a user is what an in-place write beyond the end of
\* the array leaves there.
Reaction == [by : Users \cup {Nobody}, emoji : Emojis \cup {Blank}]
Hole == [by |-> Nobody, emoji |-> Blank]

\* readBy counts the receipts of a user: they differ in readAt.  told is history:
\* how the recipient learnt of the message.
Message == [from : Participants, content : {"text", "image"}, text : Texts \cup {Blank},
            isDeleted : BOOLEAN, deletedFor : SUBSET Participants,
            readBy : [Participants -> Nat], reactions : Seq(Reaction),
            told : {"no", "live", "asked", "lost"}]

Conversation == [exists : BOOLEAN, deletedFor : SUBSET Participants,
                 unread : [Participants -> Nat],
                 last : [m : Nat, text : Texts \cup {Blank}]]

NoConversation == [exists |-> FALSE, deletedFor |-> {},
                   unread |-> [u \in Participants |-> 0],
                   last |-> [m |-> 0, text |-> Blank]]

Kinds == {"none", "open", "send", "read", "hide", "recall", "edit", "react"}
Steps == {"idle", "follows", "before", "upsert", "restore", "create", "publish",
          "emit", "sender", "mark", "write", "pull", "set", "push"}

Operation ==
  [kind : Kinds, at : Steps, u : Users \cup {Nobody},
   m : Nat,                              \* the message
   content : {"text", "image"},
   x : Texts \cup Emojis \cup {Blank},   \* the text or the emoji
   ids : SUBSET Nat,                     \* the messages to mark
   i : Nat,                              \* the index of a reaction
   left : SUBSET {"mine", "theirs", "message", "conversation"},
   was : BOOLEAN,      \* the conversation existed, or the recipient was there
   again : BOOLEAN]    \* history: the requester removed it meanwhile

Idle == [kind |-> "none", at |-> "idle", u |-> Nobody, m |-> 0, content |-> "text",
         x |-> Blank, ids |-> {}, i |-> 0, left |-> {}, was |-> FALSE, again |-> FALSE]

VARIABLES
  conv,      \* the conversation document
  msgs,      \* its messages, in the order of their creation
  follows,   \* the participants that follow the other
  joined,    \* those whose socket is in the room of the conversation
  inbox,     \* those whose socket is in the room of their notifications
  known,     \* those whose socket has been through chat:join
  throttle,  \* those whose typing was forwarded less than two seconds ago
  shown,     \* those the other one sees typing
  op         \* per slot, the request in flight

chatVars == <<conv, msgs, follows, joined, inbox, known, throttle, shown, op>>
vars == <<scene, notificationVars, chatVars>>

Init ==
  /\ InitNotifications
  /\ conv \in {NoConversation, [NoConversation EXCEPT !.exists = TRUE]}
  /\ msgs = <<>> /\ follows = Participants
  /\ joined = {} /\ inbox = {} /\ known = {} /\ throttle = {} /\ shown = {}
  /\ op = [r \in Procs |-> Idle]

-----------------------------------------------------------------------------
Become(r, o) == op' = [op EXCEPT ![r] = o]

Start(r, kind) == op[r].at = "idle" /\ kind \in scene.does

sockets == <<joined, inbox, known, throttle, shown>>

\* ensureMutualFollow: an administrator needs no follow.
Bypasses == Admins \cap Participants # {}

Checked(o, next) ==
  IF Bypasses THEN [o EXCEPT !.at = next]
  ELSE [o EXCEPT !.at = "follows", !.left = {"mine", "theirs"}]

After(o) == IF o.kind = "open" THEN "before" ELSE "create"

\* One of the two parallel reads: without the follow the request ends.
ReadFollow(r, side) ==
  LET o == op[r]
      u == IF side = "mine" THEN o.u ELSE Other(o.u)
  IN
  /\ o.at = "follows" /\ side \in o.left
  /\ Become(r, IF u \notin follows THEN Idle
               ELSE IF o.left = {side} THEN [o EXCEPT !.at = After(o), !.left = {}]
               ELSE [o EXCEPT !.left = @ \ {side}])
  /\ UNCHANGED <<conv, msgs, follows, sockets, notificationVars>>

-----------------------------------------------------------------------------
\* findOrCreateConversation; the recipient exists and may chat.
StartConversation(r, u) ==
  /\ Start(r, "open")
  /\ Become(r, Checked([Idle EXCEPT !.kind = "open", !.u = u], "before"))
  /\ UNCHANGED <<conv, msgs, follows, sockets, notificationVars>>

FindBefore(r) ==
  /\ op[r].at = "before"
  /\ Become(r, [op[r] EXCEPT !.at = "upsert", !.was = conv.exists])
  /\ UNCHANGED <<conv, msgs, follows, sockets, notificationVars>>

\* Mutant of Upserted: the fields are set on an existing conversation too.
UpsertedAlways(c) == [c EXCEPT !.exists = TRUE, !.deletedFor = {},
                               !.unread = [u \in Participants |-> 0]]

\* $setOnInsert
Upserted(c) == IF c.exists THEN c ELSE [NoConversation EXCEPT !.exists = TRUE]

\* Mutant of Restores: the answer of the first read decides alone.
RestoresNever(o, c) == FALSE

\* The requester has removed the conversation it found.
Restores(o, c) == o.was /\ o.u \in c.deletedFor

UpsertConversation(r) ==
  LET o == op[r] IN
  /\ o.at = "upsert"
  /\ conv' = Upserted(conv)
  /\ Become(r, IF Restores(o, conv') THEN [o EXCEPT !.at = "restore"] ELSE Idle)
  /\ UNCHANGED <<msgs, follows, sockets, notificationVars>>

RestoreConversation(r) ==
  /\ op[r].at = "restore"
  /\ conv' = [conv EXCEPT !.deletedFor = @ \ {op[r].u}]
  /\ Become(r, Idle)
  /\ UNCHANGED <<msgs, follows, sockets, notificationVars>>

\* Whether getConversations and getConversationById show the conversation to u.
Listed(u) == conv.exists /\ u \notin conv.deletedFor

DeleteConversation(u) ==
  /\ "close" \in scene.does /\ conv.exists
  /\ conv' = [conv EXCEPT !.deletedFor = @ \cup {u}]
  /\ op' = [r \in Procs |-> [op[r] EXCEPT !.again = @ \/ (op[r].kind = "open" /\ op[r].u = u)]]
  /\ UNCHANGED <<msgs, follows, sockets, notificationVars>>

-----------------------------------------------------------------------------
\* The messages not created yet.
InFlight == {r \in Procs : op[r].kind = "send" /\ op[r].m = 0}

\* sendMessage; an image may come without a text.  A conversation the sender has
\* removed is found too.
SendMessage(r, u, draft) ==
  /\ Start(r, "send") /\ conv.exists
  /\ Cardinality(InFlight) + Len(msgs) < scene.messages   \* bound
  /\ draft.content = "text" => draft.text # Blank
  /\ Become(r, Checked([Idle EXCEPT !.kind = "send", !.u = u, !.content = draft.content,
                                    !.x = draft.text, !.was = Other(u) \in joined \cap inbox], "create"))
  /\ UNCHANGED <<conv, msgs, follows, sockets, notificationVars>>

CreateMessage(r) ==
  LET o == op[r] IN
  /\ o.at = "create"
  /\ msgs' = Append(msgs,
       [from |-> o.u, content |-> o.content, text |-> o.x, isDeleted |-> FALSE,
        deletedFor |-> {}, readBy |-> [w \in Participants |-> 0], reactions |-> <<>>,
        told |-> "no"])
  /\ Become(r, [o EXCEPT !.at = "publish", !.m = Len(msgs) + 1])
  /\ UNCHANGED <<conv, follows, sockets, notificationVars>>

\* The preview and the unread count of the recipient, in one update.
PublishMessage(r) ==
  LET o == op[r] IN
  /\ o.at = "publish"
  /\ conv' = [conv EXCEPT !.last = [m |-> o.m, text |-> o.x], !.unread[Other(o.u)] = @ + 1]
  /\ Become(r, [o EXCEPT !.at = "emit"])
  /\ UNCHANGED <<msgs, follows, sockets, notificationVars>>

\* Mutant of IsActive: presence is looked up when the request arrives.
WasActive(o) == o.was

\* isUserActiveInConversation: the user's sockets are those in the room of their
\* notifications.
IsActive(o) == Other(o.u) \in joined \cap inbox

\* The message is emitted to the room, and in the same tick presence is looked
\* up; for a recipient elsewhere the sender's name is read first.
EmitMessage(r) ==
  LET o == op[r] IN
  /\ o.at = "emit"
  /\ msgs' = [msgs EXCEPT ![o.m].told = IF Other(o.u) \in joined THEN "live" ELSE @]
  /\ Become(r, IF IsActive(o) THEN Idle ELSE [o EXCEPT !.at = "sender"])
  /\ UNCHANGED <<conv, follows, sockets, notificationVars>>

NotifyRecipient(r) ==
  LET o == op[r] IN
  /\ o.at = "sender"
  /\ pending' = pending \cup ChatCalls(Other(o.u), o.u, o.m)
  /\ msgs' = [msgs EXCEPT ![o.m].told = "asked"]
  /\ Become(r, Idle)
  /\ UNCHANGED <<conv, follows, sockets, notices, fcmTokens, reg, dropped>>

-----------------------------------------------------------------------------
\* The messages getMessages shows to u.
Visible(u) == {m \in DOMAIN msgs : u \notin msgs[m].deletedFor}

\* markMessagesRead: without anything to mark the count is left alone.
MarkMessagesRead(r, u, wanted) ==
  LET ids == {m \in wanted \cap Visible(u) : msgs[m].from # u /\ msgs[m].readBy[u] = 0}
  IN
  /\ Start(r, "read") /\ conv.exists
  /\ ids # {}
  /\ Become(r, [Idle EXCEPT !.kind = "read", !.at = "mark", !.u = u, !.ids = ids,
                            !.left = {"message", "conversation"}])
  /\ UNCHANGED <<conv, msgs, follows, sockets, notificationVars>>

\* The end of one of the two parallel calls.
Done(r, call) ==
  LET o == op[r] IN
  Become(r, IF o.left = {call} THEN Idle ELSE [o EXCEPT !.left = @ \ {call}])

Calls(r, at, call) == op[r].at = at /\ call \in op[r].left

MarkMessages(r) ==
  LET o == op[r] IN
  /\ Calls(r, "mark", "message")
  /\ msgs' = [m \in DOMAIN msgs |->
                IF m \in o.ids THEN [msgs[m] EXCEPT !.readBy[o.u] = @ + 1] ELSE msgs[m]]
  /\ Done(r, "message")
  /\ UNCHANGED <<conv, follows, sockets, notificationVars>>

\* Mutant of Reset: the count goes down by the messages marked.
ResetByMarked(n, ids) == n - Cardinality(ids)

Reset(n, ids) == 0

ResetUnread(r) ==
  LET o == op[r] IN
  /\ Calls(r, "mark", "conversation")
  /\ conv' = [conv EXCEPT !.unread[o.u] = Reset(@, o.ids)]
  /\ Done(r, "conversation")
  /\ UNCHANGED <<msgs, follows, sockets, notificationVars>>

-----------------------------------------------------------------------------
\* deleteMessage: only the sender recalls a message for everyone.
DeleteMessage(r, u, m, kind) ==
  /\ Start(r, kind)
  /\ kind = "recall" => msgs[m].from = u
  /\ Become(r, [Idle EXCEPT !.kind = kind, !.at = "write", !.u = u, !.m = m])
  /\ UNCHANGED <<conv, msgs, follows, sockets, notificationVars>>

HideOrRecall(r) ==
  LET o == op[r] IN
  /\ o.at = "write" /\ o.kind \in {"hide", "recall"}
  /\ msgs' = IF o.kind = "hide"
             THEN [msgs EXCEPT ![o.m].deletedFor = @ \cup {o.u}]
             ELSE [msgs EXCEPT ![o.m].isDeleted = TRUE, ![o.m].text = Blank]
  /\ Become(r, Idle)
  /\ UNCHANGED <<conv, follows, sockets, notificationVars>>

\* editMessage; the fifteen minutes may be over at any time.
EditMessage(r, u, m, x) ==
  /\ Start(r, "edit")
  /\ msgs[m].from = u /\ msgs[m].content = "text" /\ ~msgs[m].isDeleted
  /\ Become(r, [Idle EXCEPT !.kind = "edit", !.at = "write", !.u = u, !.m = m, !.x = x,
                            !.left = {"message", "conversation"}])
  /\ UNCHANGED <<conv, msgs, follows, sockets, notificationVars>>

EditText(r) ==
  LET o == op[r] IN
  /\ Calls(r, "write", "message")
  /\ msgs' = [msgs EXCEPT ![o.m].text = o.x]
  /\ Done(r, "message")
  /\ UNCHANGED <<conv, follows, sockets, notificationVars>>

\* The preview changes only while it is of this message.
EditPreview(r) ==
  LET o == op[r] IN
  /\ Calls(r, "write", "conversation")
  /\ conv' = [conv EXCEPT !.last.text = IF conv.last.m = o.m THEN o.x ELSE @]
  /\ Done(r, "conversation")
  /\ UNCHANGED <<msgs, follows, sockets, notificationVars>>

-----------------------------------------------------------------------------
\* reactToMessage: findIndex throws on an element without a user it meets first.
IndexOf(reactions, u) == SelectInSeq(reactions, LAMBDA x : x.by = u)
FindFails(reactions, u) ==
  LET hole == SelectInSeq(reactions, LAMBDA x : x.by = Nobody) IN
  hole # 0 /\ (IndexOf(reactions, u) = 0 \/ hole < IndexOf(reactions, u))

ReactToMessage(r, u, m, emoji) ==
  LET i == IndexOf(msgs[m].reactions, u) IN
  /\ Start(r, "react")
  /\ ~msgs[m].isDeleted /\ ~FindFails(msgs[m].reactions, u)
  /\ Become(r, [Idle EXCEPT !.kind = "react", !.u = u, !.m = m, !.x = emoji, !.i = i,
       !.at = IF i = 0 THEN "push"
              ELSE IF msgs[m].reactions[i].emoji = emoji THEN "pull" ELSE "set"])
  /\ UNCHANGED <<conv, msgs, follows, sockets, notificationVars>>

\* $set of reactions.<i>.emoji: beyond the end the array is padded with nulls,
\* and a null there makes the update fail.
SetAt(reactions, i, emoji) ==
  [k \in 1..(IF i > Len(reactions) THEN i ELSE Len(reactions)) |->
     IF k = i THEN [by |-> IF i <= Len(reactions) THEN reactions[i].by ELSE Nobody,
                    emoji |-> emoji]
     ELSE IF k <= Len(reactions) THEN reactions[k] ELSE Hole]

WriteReaction(r) ==
  LET o == op[r]
      now == msgs[o.m].reactions
      fails == o.at = "set" /\ o.i <= Len(now) /\ now[o.i] = Hole
  IN
  /\ o.at \in {"push", "pull", "set"}
  /\ msgs' = IF fails THEN msgs
             ELSE [msgs EXCEPT ![o.m].reactions =
                     CASE o.at = "push" -> Append(@, [by |-> o.u, emoji |-> o.x])
                       [] o.at = "pull" -> Kept(@, {k \in DOMAIN @ : @[k].by # o.u})
                       [] o.at = "set"  -> SetAt(@, o.i, o.x)]
  /\ Become(r, Idle)
  /\ UNCHANGED <<conv, follows, sockets, notificationVars>>

-----------------------------------------------------------------------------
\* The generic join lets a socket into the rooms of a conversation and of
\* notifications without a look at either.
JoinRoom(u) ==
  /\ "room" \in scene.does
  /\ \/ joined' = joined \cup {u} /\ UNCHANGED inbox
     \/ inbox' = inbox \cup {u} /\ UNCHANGED joined
  /\ UNCHANGED <<conv, msgs, follows, known, throttle, shown, op, notificationVars>>

\* chat:join is granted to participants of an existing conversation, and lets
\* their socket send typing events.
HandleJoin(u) ==
  /\ "room" \in scene.does /\ conv.exists
  /\ joined' = joined \cup {u} /\ known' = known \cup {u}
  /\ UNCHANGED <<conv, msgs, follows, inbox, throttle, shown, op, notificationVars>>

\* chat:leave, or the generic leave of that room; whoever leaves sees nobody
\* typing any more.
HandleLeave(u) ==
  /\ u \in joined
  /\ joined' = joined \ {u} /\ shown' = shown \ {Other(u)}
  /\ UNCHANGED <<conv, msgs, follows, inbox, known, throttle, op, notificationVars>>

\* The generic leave of the room of the notifications.
LeaveInbox(u) ==
  /\ u \in inbox
  /\ inbox' = inbox \ {u}
  /\ UNCHANGED <<conv, msgs, follows, joined, known, throttle, shown, op, notificationVars>>

Disconnect(u) ==
  /\ u \in joined \cup inbox \cup known
  /\ joined' = joined \ {u} /\ inbox' = inbox \ {u} /\ known' = known \ {u}
  /\ shown' = shown \ {Other(u)}
  /\ UNCHANGED <<conv, msgs, follows, throttle, op, notificationVars>>

\* What the other one sees after a typing event of u.
Show(u, isTyping) ==
  shown' = IF Other(u) \notin joined THEN shown
           ELSE IF isTyping THEN shown \cup {u} ELSE shown \ {u}

HandleTyping(u, isTyping) ==
  /\ "typing" \in scene.does /\ u \in known
  /\ isTyping => u \notin throttle
  /\ throttle' = IF isTyping THEN throttle \cup {u} ELSE throttle \ {u}
  /\ Show(u, isTyping)
  /\ UNCHANGED <<conv, msgs, follows, joined, inbox, known, op, notificationVars>>

TwoSecondsPass(u) ==
  /\ u \in throttle
  /\ throttle' = throttle \ {u}
  /\ UNCHANGED <<conv, msgs, follows, joined, inbox, known, shown, op, notificationVars>>

\* The REST way round the throttle.
BroadcastTyping(u, isTyping) ==
  /\ "typing" \in scene.does /\ conv.exists
  /\ Show(u, isTyping)
  /\ UNCHANGED <<conv, msgs, follows, joined, inbox, known, throttle, op, notificationVars>>

\* FollowService: follows come and go.
ToggleFollow(u) ==
  /\ "follow" \in scene.does
  /\ follows' = IF u \in follows THEN follows \ {u} ELSE follows \cup {u}
  /\ UNCHANGED <<conv, msgs, sockets, op, notificationVars>>

\* A database error ends a request, the end of the process all of them, with the
\* rooms; a message not announced yet stays unannounced.
Lost(rs) == {op[r].m : r \in {q \in rs : op[q].kind = "send"}}
LoseMessages(rs) ==
  msgs' = [m \in DOMAIN msgs |->
             IF m \in Lost(rs) /\ msgs[m].told = "no"
             THEN [msgs[m] EXCEPT !.told = "lost"] ELSE msgs[m]]

Fail(r) ==
  /\ "fail" \in scene.does /\ op[r].at # "idle"
  /\ LoseMessages({r})
  /\ Become(r, Idle)
  /\ UNCHANGED <<conv, follows, sockets, notificationVars>>

Crash ==
  /\ "crash" \in scene.does
  /\ LoseMessages(Procs)
  /\ op' = [r \in Procs |-> Idle]
  /\ joined' = {} /\ inbox' = {} /\ known' = {} /\ throttle' = {} /\ shown' = {}
  /\ CrashNotifications
  /\ UNCHANGED <<conv, follows>>

AtRest == (\A r \in Procs : op[r].at = "idle") /\ pending = {} /\ UNCHANGED vars

-----------------------------------------------------------------------------
Request(r) ==
  \E u \in Participants :
    \/ StartConversation(r, u)
    \/ \E draft \in scene.drafts : SendMessage(r, u, draft)
    \/ \E wanted \in SUBSET DOMAIN msgs : MarkMessagesRead(r, u, wanted)
    \/ \E m \in DOMAIN msgs :
         \/ \E kind \in {"hide", "recall"} : DeleteMessage(r, u, m, kind)
         \/ \E x \in Texts : EditMessage(r, u, m, x)
         \/ \E emoji \in Emojis : ReactToMessage(r, u, m, emoji)

Step(r) ==
  \/ \E side \in {"mine", "theirs"} : ReadFollow(r, side)
  \/ FindBefore(r) \/ UpsertConversation(r) \/ RestoreConversation(r)
  \/ CreateMessage(r) \/ PublishMessage(r) \/ EmitMessage(r) \/ NotifyRecipient(r)
  \/ MarkMessages(r) \/ ResetUnread(r)
  \/ HideOrRecall(r) \/ EditText(r) \/ EditPreview(r) \/ WriteReaction(r)

Socket(u) ==
  \/ JoinRoom(u) \/ HandleJoin(u) \/ HandleLeave(u) \/ LeaveInbox(u) \/ Disconnect(u)
  \/ TwoSecondsPass(u)
  \/ \E isTyping \in BOOLEAN : HandleTyping(u, isTyping) \/ BroadcastTyping(u, isTyping)

Next ==
  /\ \/ \E r \in Procs : Request(r) \/ Step(r) \/ Fail(r)
     \/ \E u \in Participants : DeleteConversation(u) \/ Socket(u) \/ ToggleFollow(u)
     \/ Crash \/ AtRest
     \/ NextNotifications /\ UNCHANGED chatVars
  /\ UNCHANGED scene

Spec == Init /\ [][Next]_vars

-----------------------------------------------------------------------------
\* Properties.

TypeOK ==
  /\ NotificationsTypeOK
  /\ conv \in Conversation
  /\ msgs \in Seq(Message)
  /\ follows \subseteq Participants
  /\ joined \subseteq Participants /\ inbox \subseteq Participants
  /\ known \subseteq Participants /\ throttle \subseteq Participants
  /\ shown \subseteq Participants
  /\ op \in [Procs -> Operation]

\* An unread count goes down only through a read request of that user that found
\* something to mark: opening the conversation again, or both opening it at
\* once, never wipes it (chat.service.ts:167-182).
OnlyReadingClears ==
  [][\A u \in Participants :
       conv'.unread[u] < conv.unread[u] =>
         \E r \in Procs : op[r].kind = "read" /\ op[r].u = u]_conv

\* A request to open the conversation that succeeds leaves it in the list of the
\* requester, unless the requester removed it while the request was on its way
\* (chat.service.ts:186-189).
OpenedIsShown ==
  [][\A r \in Procs :
       LET o == op[r] IN
       (UpsertConversation(r) \/ RestoreConversation(r)) /\ op'[r].at = "idle" =>
         o.again \/ (conv'.exists /\ o.u \notin conv'.deletedFor)]_vars

\* No message falls between the room and the notification: once its request is
\* over, it was emitted while its recipient was in the room, or a notification
\* is stored or under way, unless an error or the end of the process cut it off
\* (chat.service.ts:344-376).
ReachesRecipient ==
  \A m \in DOMAIN msgs :
    /\ msgs[m].told = "no" =>
         \E r \in Procs : op[r].at \in {"publish", "emit", "sender"} /\ op[r].m = m
    /\ msgs[m].told = "asked" =>
         \/ \E c \in pending \cup dropped : c.ref = m /\ c.to # msgs[m].from
         \/ \E i \in DOMAIN notices : notices[i].ref = m /\ notices[i].to # msgs[m].from

\* chat.service.ts:498, "all participants see \"This message was deleted\"": of a
\* recalled message nothing is shown, in the conversation list either.
RecalledIsHidden ==
  \A m \in DOMAIN msgs :
    msgs[m].isDeleted /\ conv.last.m = m => conv.last.text = Blank
=============================================================================
