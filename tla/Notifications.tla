----------------------------- MODULE Notifications -----------------------------
(***************************************************************************)
(* NotificationSystem: what an event of another component makes the        *)
(* service tell to whom, the stored notifications, and the device tokens   *)
(* the pushes go to.                                                       *)
(*                                                                         *)
(* Most callers do not wait for a notify method: a call is an element of   *)
(* pending until its document is inserted.  The push of a notification     *)
(* runs on its own afterwards: it reads the tokens of the user, asks FCM,  *)
(* and removes the tokens FCM calls invalid.  Titles, bodies, links and    *)
(* images are left out.                                                    *)
(***************************************************************************)
EXTENDS Integers, Sequences, FiniteSets, SequencesExt

CONSTANTS
  Users,
  Admins,          \* the users told of suggestions
  Nobody,          \* no user
  Devices, Tokens, \* a device, and the FCM tokens it may be given
  Slots,           \* token requests that may be in flight together
  Events,          \* the events of other components in the instance
  MaxTokens,       \* bound: registrations start below this number of entries
  Scenes           \* what a behaviour may be about: the requests it may make,
                   \* its bounds of notifications and messages, what is sent

ASSUME NotificationsAssumption ==
  /\ Nobody \notin Users /\ Admins \subseteq Users
  /\ Devices # {} /\ Tokens # {}
  /\ MaxTokens \in Nat
  /\ \A s \in Scenes : s.notices \in Nat /\ s.messages \in Nat

BookingTypes == {"bookingCreated", "bookingConfirmed", "bookingCancelled",
                 "bookingInQueue", "bookingCompleted", "bookingAbsent"}
QueueTypes   == {"inService", "autoCancelled", "backInQueue", "reminder",
                 "positionChanged"}
ContentTypes == {"postLiked", "postCommented", "commentReplied", "commentLiked",
                 "reelLiked", "reelCommented"}
SocialTypes  == {"newFollower", "loungeLiked", "agentLiked", "loungeRated",
                 "agentRated"}
AdminTypes   == {"suggestionCreated", "suggestionApproved", "suggestionRejected",
                 "contentHidden", "categoryCreated", "categoryApproved",
                 "categoryRejected"}

NotificationType == BookingTypes \cup QueueTypes \cup ContentTypes \cup SocialTypes
                    \cup AdminTypes \cup {"chatMessage"}

\* NOTIFICATION_CATEGORY_MAP
Category(type) ==
  CASE type \in BookingTypes -> "booking"
    [] type \in QueueTypes   -> "queue"
    [] type \in ContentTypes -> "content"
    [] type \in SocialTypes  -> "social"
    [] type \in AdminTypes   -> "admin"
    [] type = "chatMessage"  -> "chat"

NotificationCategory == {"booking", "queue", "social", "content", "admin",
                         "system", "chat"}

\* What a component announces: by did it, owner is the lounge, author, target or
\* recipient, client the client of a booking.
EventKinds == (NotificationType \ {"chatMessage"}) \cup {"queueJoined"}
Event == [kind : EventKinds, by : Users \cup {Nobody}, owner : Users,
          client : Users \cup {Nobody}]

\* createBooking requires a client and a lounge, which are accounts of different types.
ASSUME EventsAssumption ==
  \A e \in Events : e \in Event /\ (e.kind \in BookingTypes => e.owner # e.client)

\* A call of create: actor is the actorId it is given, ref the chat message it is
\* about (0 for none); by is who did it, whether create is told or not.
Call == [to : Users, actor : Users \cup {Nobody}, type : NotificationType, ref : Nat,
         by : Users \cup {Nobody}]

\* A notification, with the push on its way: the tokens read, those FCM rejects.
Pushes == {"waiting", "sent", "answered", "done"}
Notice == [to : Users, actor : Users \cup {Nobody}, type : NotificationType, ref : Nat,
           by : Users \cup {Nobody}, category : NotificationCategory, isRead : BOOLEAN, kept : BOOLEAN,
           push : Pushes, tokens : SUBSET Tokens, invalid : SUBSET Tokens]

Entry == [token : Tokens, device : Devices]

Registration == [at : {"idle", "pull", "push"}, u : Users \cup {Nobody},
                 token : Tokens, device : Devices]

VARIABLES
  scene,      \* the requests of this behaviour
  notices,    \* the notifications, in the order of their insertion
  pending,    \* calls of create whose document is not inserted yet
  fcmTokens,  \* user.fcmTokens, as a set
  reg,        \* per slot, the registration in flight
  dropped     \* history: the calls that failed or were lost with the process

notificationVars == <<notices, pending, fcmTokens, reg, dropped>>

AnyToken  == CHOOSE t \in Tokens : TRUE
AnyDevice == CHOOSE d \in Devices : TRUE
NoRegistration == [at |-> "idle", u |-> Nobody, token |-> AnyToken, device |-> AnyDevice]

InitNotifications ==
  /\ scene \in Scenes
  /\ notices = <<>> /\ pending = {} /\ dropped = {}
  /\ fcmTokens = [u \in Users |-> {}]
  /\ reg = [s \in Slots |-> NoRegistration]

-----------------------------------------------------------------------------
\* Who is told of what: the notify methods, as sets of calls.

\* notifyUser, notifyClient: bookings carry no actor.
Tell(to, e, type) ==
  {c \in {[to |-> to, actor |-> Nobody, type |-> type, ref |-> 0, by |-> e.by]} :
     to # Nobody}

\* Mutant of BookingCancelled: the client is told whoever cancelled.
BookingCancelledClientOnly(e) == Tell(e.client, e, "bookingCancelled")

BookingCancelled(e) ==
  IF e.by = Nobody THEN {}
  ELSE IF e.by = e.client THEN Tell(e.owner, e, "bookingCancelled")
  ELSE Tell(e.client, e, "bookingCancelled")

BookingCalls(e) ==
  CASE e.kind = "bookingCreated"   -> Tell(e.owner, e, "bookingCreated")
    [] e.kind = "queueJoined"      -> Tell(e.owner, e, "bookingCreated")
    [] e.kind = "bookingCancelled" -> BookingCancelled(e)
    [] OTHER                       -> Tell(e.client, e, e.kind)

QueueCalls(e) == Tell(e.client, e, e.kind)

\* Content, social and chat events name their actor.
ActorCalls(e) ==
  {[to |-> e.owner, actor |-> e.by, type |-> e.kind, ref |-> 0, by |-> e.by]}

ContentCalls(e) == ActorCalls(e)

SocialCalls(e) == ActorCalls(e)

\* A suggestion is announced to the admins, its outcome to who made it.
AdminCalls(e) ==
  IF e.kind = "suggestionCreated"
  THEN UNION {Tell(a, e, e.kind) : a \in Admins}
  ELSE Tell(e.owner, e, e.kind)

CategoryCalls(e) ==
  IF e.kind = "categoryCreated"
  THEN UNION {Tell(a, e, e.kind) : a \in Admins}
  ELSE Tell(e.owner, e, e.kind)

\* notifyChatMessage
ChatCalls(to, from, ref) ==
  {[to |-> to, actor |-> from, type |-> "chatMessage", ref |-> ref, by |-> from]}

CallsOf(e) ==
  CASE e.kind \in BookingTypes \cup {"queueJoined"} -> BookingCalls(e)
    [] e.kind \in QueueTypes   -> QueueCalls(e)
    [] e.kind \in ContentTypes -> ContentCalls(e)
    [] e.kind \in SocialTypes  -> SocialCalls(e)
    [] e.kind \in {"categoryCreated", "categoryApproved", "categoryRejected"} ->
         CategoryCalls(e)
    [] OTHER -> AdminCalls(e)

-----------------------------------------------------------------------------
\* Bound: the notifications of an instance.
Announce(e) ==
  /\ "announce" \in scene.does
  /\ Len(notices) + Cardinality(pending \cup dropped) < scene.notices
  /\ pending' = pending \cup CallsOf(e)
  /\ UNCHANGED <<notices, fcmTokens, reg, dropped>>

ToOneself(c) == c.actor # Nobody /\ c.to = c.actor

\* create: nobody is told of an act of their own.
Create(c) ==
  /\ c \in pending
  /\ pending' = pending \ {c}
  /\ notices' =
       IF ToOneself(c) THEN notices
       ELSE Append(notices,
              [to |-> c.to, actor |-> c.actor, type |-> c.type, ref |-> c.ref, by |-> c.by,
               category |-> Category(c.type), isRead |-> FALSE, kept |-> TRUE,
               push |-> "waiting", tokens |-> {}, invalid |-> {}])
  /\ UNCHANGED <<fcmTokens, reg, dropped>>

\* The insertion fails: create logs it and the call is over.
CreateFails(c) ==
  /\ "fail" \in scene.does
  /\ c \in pending
  /\ pending' = pending \ {c} /\ dropped' = dropped \cup {c}
  /\ UNCHANGED <<notices, fcmTokens, reg>>

MarkAsRead(u, ids) ==
  /\ "inbox" \in scene.does
  /\ notices' = [i \in DOMAIN notices |->
                   IF i \in ids /\ notices[i].to = u /\ notices[i].kept
                   THEN [notices[i] EXCEPT !.isRead = TRUE] ELSE notices[i]]
  /\ UNCHANGED <<pending, fcmTokens, reg, dropped>>

\* deleteNotification and deleteAllNotifications: the ids, of this user only.
DeleteNotifications(u, ids) ==
  /\ "inbox" \in scene.does
  /\ notices' = [i \in DOMAIN notices |->
                   IF i \in ids /\ notices[i].to = u
                   THEN [notices[i] EXCEPT !.kept = FALSE] ELSE notices[i]]
  /\ UNCHANGED <<pending, fcmTokens, reg, dropped>>

\* The TTL index removes notifications of 90 days.
Expire(i) ==
  /\ "inbox" \in scene.does
  /\ i \in DOMAIN notices
  /\ notices' = [notices EXCEPT ![i].kept = FALSE]
  /\ UNCHANGED <<pending, fcmTokens, reg, dropped>>

-----------------------------------------------------------------------------
TokensOf(entries) == {x.token : x \in entries}

\* $pull by device.
WithoutDevice(entries, d) == {x \in entries : x.device # d}

\* $pull by token.
WithoutInvalid(entries, invalid) == {x \in entries : x.token \notin invalid}

\* sendToUser reads the tokens: without any the push is over.
SendToUser(i) ==
  /\ notices[i].push = "waiting"
  /\ LET tokens == TokensOf(fcmTokens[notices[i].to]) IN
     notices' = [notices EXCEPT ![i].tokens = tokens,
                                ![i].push = IF tokens = {} THEN "done" ELSE "sent"]
  /\ UNCHANGED <<pending, fcmTokens, reg, dropped>>

\* FCM answers for every token, or the call fails and none counts as invalid.
SendMulticast(i, bad) ==
  /\ notices[i].push = "sent"
  /\ bad \subseteq notices[i].tokens
  /\ notices' = [notices EXCEPT ![i].invalid = bad,
                                ![i].push = IF bad = {} THEN "done" ELSE "answered"]
  /\ UNCHANGED <<pending, fcmTokens, reg, dropped>>

\* Mutant of PruneInvalidTokens: the tokens FCM accepted are written back.
PruneToAccepted(i) ==
  /\ notices[i].push = "answered"
  /\ fcmTokens' = [fcmTokens EXCEPT ![notices[i].to] =
       {x \in @ : x.token \in notices[i].tokens \ notices[i].invalid}]
  /\ notices' = [notices EXCEPT ![i].push = "done"]
  /\ UNCHANGED <<pending, reg, dropped>>

PruneInvalidTokens(i) ==
  /\ notices[i].push = "answered"
  /\ fcmTokens' = [fcmTokens EXCEPT ![notices[i].to] = WithoutInvalid(@, notices[i].invalid)]
  /\ notices' = [notices EXCEPT ![i].push = "done"]
  /\ UNCHANGED <<pending, reg, dropped>>

\* registerToken: $pull the device, then $push its new token.
RegisterToken(s, u, token, d) ==
  /\ "register" \in scene.does
  /\ reg[s].at = "idle" /\ Cardinality(fcmTokens[u]) < MaxTokens
  /\ reg' = [reg EXCEPT ![s] = [at |-> "pull", u |-> u, token |-> token, device |-> d]]
  /\ UNCHANGED <<notices, pending, fcmTokens, dropped>>

PullDevice(s) ==
  /\ reg[s].at = "pull"
  /\ fcmTokens' = [fcmTokens EXCEPT ![reg[s].u] = WithoutDevice(@, reg[s].device)]
  /\ reg' = [reg EXCEPT ![s].at = "push"]
  /\ UNCHANGED <<notices, pending, dropped>>

PushToken(s) ==
  /\ reg[s].at = "push"
  /\ fcmTokens' = [fcmTokens EXCEPT ![reg[s].u] =
                     @ \cup {[token |-> reg[s].token, device |-> reg[s].device]}]
  /\ reg' = [reg EXCEPT ![s] = NoRegistration]
  /\ UNCHANGED <<notices, pending, dropped>>

UnregisterToken(u, d) ==
  /\ "register" \in scene.does
  /\ fcmTokens' = [fcmTokens EXCEPT ![u] = WithoutDevice(@, d)]
  /\ UNCHANGED <<notices, pending, reg, dropped>>

\* The process ends: calls, pushes and registrations in flight are lost.
CrashNotifications ==
  /\ pending' = {} /\ dropped' = dropped \cup pending
  /\ notices' = [i \in DOMAIN notices |-> [notices[i] EXCEPT !.push = "done"]]
  /\ reg' = [s \in Slots |-> NoRegistration]
  /\ UNCHANGED fcmTokens

NextNotifications ==
  \/ \E e \in Events : Announce(e)
  \/ \E c \in pending : Create(c) \/ CreateFails(c)
  \/ \E u \in Users, ids \in SUBSET (DOMAIN notices) \ {{}} :
       MarkAsRead(u, ids) \/ DeleteNotifications(u, ids)
  \/ \E i \in DOMAIN notices :
       \/ Expire(i) \/ SendToUser(i) \/ PruneInvalidTokens(i)
       \/ \E bad \in SUBSET Tokens : SendMulticast(i, bad)
  \/ \E s \in Slots :
       \/ PullDevice(s) \/ PushToken(s)
       \/ \E u \in Users, token \in Tokens, d \in Devices : RegisterToken(s, u, token, d)
  \/ \E u \in Users, d \in Devices : UnregisterToken(u, d)

-----------------------------------------------------------------------------
\* Properties.

NotificationsTypeOK ==
  /\ notices \in Seq(Notice)
  /\ pending \subseteq Call /\ dropped \subseteq Call
  /\ fcmTokens \in [Users -> SUBSET Entry]
  /\ reg \in [Slots -> Registration]

\* Nobody is told of a cancellation, a like, a comment or a message of their own:
\* bookings carry no actorId, so the check of create does not cover them
\* (notification.service.ts:124 and 222-245).
NotOfOneself ==
  \A i \in DOMAIN notices :
    notices[i].type \in {"bookingCancelled", "chatMessage"} \cup ContentTypes \cup SocialTypes
      => notices[i].to # notices[i].by

\* A token leaves a user's list only because its device registers again or
\* unregisters, or because FCM called that very token invalid: a device that has
\* registered a new one while FCM was asked about the old one keeps it
\* (push.service.ts:235-239).
OnlyInvalidPruned ==
  [][\A u \in Users : \A x \in fcmTokens[u] \ fcmTokens'[u] :
       \/ \E s \in Slots : reg[s].at = "pull" /\ reg[s].u = u /\ reg[s].device = x.device
       \/ UnregisterToken(u, x.device)
       \/ \E n \in DOMAIN notices :
            notices[n].to = u /\ notices[n].push = "answered" /\ x.token \in notices[n].invalid]_notificationVars
=============================================================================
