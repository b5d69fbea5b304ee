------------------------------- MODULE ChatProofs -------------------------------
(***************************************************************************)
(* The conversation of two users, its messages and the notifications, for  *)
(* any users, texts, requests in flight and events of other components.    *)
(*                                                                         *)
(* The invariant says of every request in flight what the step it is at    *)
(* has established (Sound, About): a message about to be announced exists  *)
(* and is from its sender, so the notification that follows goes to the    *)
(* other one.  Of the calls waiting to be inserted it says that create     *)
(* stops those about an act of their recipient (Proper).                   *)
(***************************************************************************)
EXTENDS Chat, FiniteSetTheorems, WellFoundedInduction, TLAPS

-----------------------------------------------------------------------------
\* What nobody should be told of their own.
Owned == {"bookingCancelled", "chatMessage"} \cup ContentTypes \cup SocialTypes

\* A call waiting to be inserted: one about an act of its recipient is stopped by
\* create, and a message is announced by somebody else.
Proper(c) ==
  /\ c.type \in Owned => c.to # c.by \/ ToOneself(c)
  /\ c.ref # 0 => ~ToOneself(c)

\* What the request in a slot is doing.
Sound(o) ==
  /\ o.kind # "none" => o.u \in Participants
  /\ o.kind = "none" => o.at = "idle"
  /\ o.at = "follows" => o.kind \in {"open", "send"}
  /\ o.at \in {"before", "upsert", "restore"} => o.kind = "open"
  /\ o.at \in {"create", "publish", "emit", "sender"} => o.kind = "send"
  /\ o.at = "mark" => o.kind = "read"
  /\ o.at = "write" => o.kind \in {"hide", "recall", "edit"}
  /\ o.at = "write" /\ o.left # {} => o.kind = "edit"
  /\ o.at \in {"push", "pull", "set"} => o.kind = "react" /\ o.x \in Emojis
  /\ o.kind = "send" => o.x \in Texts \cup {Blank}
  /\ o.kind = "edit" => o.x \in Texts

\* What it is about exists: the conversation c, the message among ms.  One that did
\* not find the conversation finds it removed later only if it was removed since.
About(o, c, ms) ==
  /\ o.kind = "send" \/ o.at = "restore" => c.exists
  /\ o.at \in {"publish", "emit", "sender", "write", "push", "pull", "set"} =>
       o.m \in DOMAIN ms
  /\ o.at \in {"publish", "emit", "sender"} => ms[o.m].from = o.u
  /\ o.at = "upsert" /\ ~o.was /\ o.u \in c.deletedFor => o.again

\* Nothing has been written to a conversation that does not exist.
Fresh(c) == ~c.exists => c.deletedFor = {} /\ \A u \in Participants : c.unread[u] = 0

ChatInv ==
  /\ TypeOK /\ scene \in Scenes
  /\ Fresh(conv)
  /\ \A r \in Procs : Sound(op[r]) /\ About(op[r], conv, msgs)
  /\ \A c \in pending : Proper(c)
  /\ NotOfOneself
  /\ ReachesRecipient
-----------------------------------------------------------------------------
\* The notifications: types, and whom a call and a notification are addressed to.
NSound ==
  /\ NotificationsTypeOK
  /\ \A c \in pending : Proper(c)
  /\ NotOfOneself

\* Message m, sent by from, is announced in the notices ns or by a call of cs.
Announced(m, from, ns, cs) ==
  \/ \E c \in cs : c.ref = m /\ c.to # from
  \/ \E i \in DOMAIN ns : ns[i].ref = m /\ ns[i].to # from

\* Nothing announced is taken back.
KeepsAnnounced ==
  \A m \in Nat \ {0}, from \in Users :
    Announced(m, from, notices, pending \cup dropped) =>
      Announced(m, from, notices', pending' \cup dropped')

LEMMA InitNotificationsSound == InitNotifications => NSound /\ scene \in Scenes
<1> SUFFICES ASSUME InitNotifications PROVE NSound /\ scene \in Scenes
  OBVIOUS
<1>1. NoRegistration \in Registration
  BY NotificationsAssumption
  DEF NoRegistration, Registration, AnyToken, AnyDevice
<1> QED
  BY <1>1 DEF InitNotifications, NSound, NotificationsTypeOK, NotOfOneself

LEMMA CallTyped ==
  ASSUME NEW to \in Users, NEW actor \in Users \cup {Nobody}, NEW type \in NotificationType,
         NEW ref \in Nat, NEW by \in Users \cup {Nobody}
  PROVE  [to |-> to, actor |-> actor, type |-> type, ref |-> ref, by |-> by] \in Call
  BY DEF Call

\* Bookings name no actor; they go to a user who is not the canceller.
LEMMA TellProper ==
  ASSUME NEW e \in Event, NEW to \in Users \cup {Nobody}, NEW type \in NotificationType,
         type \in Owned => to # e.by,
         NEW c \in Tell(to, e, type)
  PROVE  c \in Call /\ Proper(c)
<1>1. /\ c = [to |-> to, actor |-> Nobody, type |-> type, ref |-> 0, by |-> e.by]
      /\ to # Nobody
  BY DEF Tell
<1>2. e.by \in Users \cup {Nobody}
  BY DEF Event
<1>3. c \in Call
  BY <1>1, <1>2, CallTyped
<1> QED
  BY <1>1, <1>3 DEF Proper

LEMMA ActorProper ==
  ASSUME NEW e \in Event, e.kind \in NotificationType, NEW c \in ActorCalls(e)
  PROVE  c \in Call /\ Proper(c)
<1>1. c = [to |-> e.owner, actor |-> e.by, type |-> e.kind, ref |-> 0, by |-> e.by]
  BY DEF ActorCalls
<1>2. e.by \in Users \cup {Nobody} /\ e.owner \in Users
  BY DEF Event
<1>3. c \in Call
  BY <1>1, <1>2, CallTyped
<1>4. c.to # c.by \/ ToOneself(c)
  BY <1>1, <1>2, NotificationsAssumption DEF ToOneself
<1> QED
  BY <1>1, <1>3, <1>4 DEF Proper

\* Every notify method addresses its calls properly.
LEMMA CallsProper ==
  ASSUME NEW e \in Events, NEW c \in CallsOf(e)
  PROVE  c \in Call /\ Proper(c)
<1>1. e \in Event /\ (e.kind \in BookingTypes => e.owner # e.client)
  BY EventsAssumption
<1>2. /\ e.kind \in EventKinds /\ e.owner \in Users
      /\ e.client \in Users \cup {Nobody} /\ e.by \in Users \cup {Nobody}
  BY <1>1 DEF Event
<1>3. Admins \subseteq Users
  BY NotificationsAssumption
<1> DEFINE silent == BookingTypes \cup {"queueJoined"} \cup QueueTypes \cup AdminTypes
<1>4. ASSUME NEW type \in NotificationType, type \notin Owned,
             NEW to \in Users \cup {Nobody}, c \in Tell(to, e, type)
      PROVE  c \in Call /\ Proper(c)
  BY <1>1, <1>4, TellProper
<1>5. CASE e.kind \in BookingTypes \cup {"queueJoined"}
  <2>1. c \in BookingCalls(e)
    BY <1>5 DEF CallsOf, BookingTypes, QueueTypes, ContentTypes, SocialTypes
  <2>2. CASE e.kind = "bookingCancelled"
    <3>1. c \in BookingCancelled(e) /\ e.kind \in BookingTypes
      BY <2>1, <2>2 DEF BookingCalls, BookingTypes
    <3>2. "bookingCancelled" \in NotificationType
      BY DEF NotificationType, BookingTypes
    <3>3. CASE e.by = e.client
      BY <1>1, <1>2, <3>1, <3>2, <3>3, TellProper DEF BookingCancelled
    <3>4. CASE e.by # e.client
      BY <1>1, <1>2, <3>1, <3>2, <3>4, TellProper DEF BookingCancelled
    <3> QED
      BY <3>3, <3>4
  <2>3. CASE e.kind \in {"bookingCreated", "queueJoined"}
    <3>1. c \in Tell(e.owner, e, "bookingCreated")
      BY <2>1, <2>3 DEF BookingCalls
    <3>2. "bookingCreated" \in NotificationType /\ "bookingCreated" \notin Owned
      BY DEF NotificationType, BookingTypes, Owned, ContentTypes, SocialTypes
    <3> QED
      BY <1>2, <1>4, <3>1, <3>2
  <2>4. CASE e.kind \notin {"bookingCreated", "queueJoined", "bookingCancelled"}
    <3>1. c \in Tell(e.client, e, e.kind)
      BY <2>1, <2>4 DEF BookingCalls
    <3>2. e.kind \in NotificationType /\ e.kind \notin Owned
      BY <1>5, <2>4 DEF NotificationType, BookingTypes, Owned, ContentTypes, SocialTypes
    <3> QED
      BY <1>2, <1>4, <3>1, <3>2
  <2> QED
    BY <2>2, <2>3, <2>4
<1>6. CASE e.kind \in QueueTypes
  <2>1. c \in Tell(e.client, e, e.kind)
    BY <1>6 DEF CallsOf, QueueCalls, QueueTypes, BookingTypes, ContentTypes, SocialTypes
  <2>2. e.kind \in NotificationType /\ e.kind \notin Owned
    BY <1>6 DEF NotificationType, QueueTypes, Owned, ContentTypes, SocialTypes
  <2> QED
    BY <1>2, <1>4, <2>1, <2>2
<1>7. CASE e.kind \in ContentTypes \cup SocialTypes
  <2>1. c \in ActorCalls(e)
    BY <1>7 DEF CallsOf, ContentCalls, SocialCalls, ContentTypes, SocialTypes, QueueTypes,
                BookingTypes
  <2>2. e.kind \in NotificationType
    BY <1>7 DEF NotificationType
  <2> QED
    BY <1>1, <2>1, <2>2, ActorProper
<1>8. CASE e.kind \in AdminTypes
  <2>1. \/ c \in Tell(e.owner, e, e.kind)
        \/ \E a \in Admins : c \in Tell(a, e, e.kind)
    BY <1>8 DEF CallsOf, AdminCalls, CategoryCalls, AdminTypes, ContentTypes, SocialTypes,
                QueueTypes, BookingTypes
  <2>2. e.kind \in NotificationType /\ e.kind \notin Owned
    BY <1>8 DEF NotificationType, AdminTypes, Owned, ContentTypes, SocialTypes
  <2> QED
    BY <1>2, <1>3, <1>4, <2>1, <2>2
<1> QED
  BY <1>2, <1>5, <1>6, <1>7, <1>8 DEF EventKinds, NotificationType

\* What a message is announced with.
LEMMA ChatProper ==
  ASSUME NEW to \in Users, NEW from \in Users, to # from, NEW ref \in Nat,
         NEW c \in ChatCalls(to, from, ref)
  PROVE  c \in Call /\ Proper(c) /\ c.ref = ref /\ c.to = to
<1>1. c = [to |-> to, actor |-> from, type |-> "chatMessage", ref |-> ref, by |-> from]
  BY DEF ChatCalls
<1>2. c \in Call
  BY <1>1, CallTyped DEF NotificationType
<1> QED
  BY <1>1, <1>2 DEF Proper, ToOneself

-----------------------------------------------------------------------------
\* The steps of the notification service.

\* The stored notifications change in their flags only.
LEMMA NoticesKept ==
  ASSUME NSound, pending' \subseteq pending, pending \cup dropped = pending' \cup dropped',
         fcmTokens' \in [Users -> SUBSET Entry], reg' \in [Slots -> Registration],
         DOMAIN notices' = DOMAIN notices,
         \A i \in DOMAIN notices :
           /\ notices'[i] \in Notice
           /\ notices'[i].to = notices[i].to /\ notices'[i].type = notices[i].type
           /\ notices'[i].ref = notices[i].ref /\ notices'[i].by = notices[i].by,
         notices' = [i \in DOMAIN notices |-> notices'[i]]
  PROVE  NSound' /\ KeepsAnnounced
<1>1. notices \in Seq(Notice) /\ pending \subseteq Call /\ dropped \subseteq Call
  BY DEF NSound, NotificationsTypeOK
<1>2. notices' \in Seq(Notice)
  <2>1. DOMAIN notices = 1..Len(notices) /\ Len(notices) \in Nat
    BY <1>1
  <2> QED
    BY <2>1
<1>3. pending' \subseteq Call /\ dropped' \subseteq Call
  BY <1>1
<1>4. \A c \in pending' : Proper(c)
  BY DEF NSound
<1>5. (\A c \in pending : Proper(c))'
  BY <1>4
<1>6. NotOfOneself'
  BY DEF NSound, NotOfOneself
<1>7. KeepsAnnounced
  BY DEF KeepsAnnounced, Announced
<1> QED
  BY <1>2, <1>3, <1>5, <1>6, <1>7 DEF NSound, NotificationsTypeOK

LEMMA NoticesTyped ==
  ASSUME NSound
  PROVE  /\ notices \in Seq(Notice) /\ \A i \in DOMAIN notices : notices[i] \in Notice
         /\ notices = [i \in DOMAIN notices |-> notices[i]]
         /\ pending \subseteq Call /\ dropped \subseteq Call
         /\ fcmTokens \in [Users -> SUBSET Entry] /\ reg \in [Slots -> Registration]
  BY DEF NSound, NotificationsTypeOK

LEMMA AnnounceSound == ASSUME NSound, NEW e \in Events, Announce(e) PROVE NSound' /\ KeepsAnnounced
<1>1. pending' = pending \cup CallsOf(e) /\ UNCHANGED <<notices, fcmTokens, reg, dropped>>
  BY DEF Announce
<1>2. \A c \in CallsOf(e) : c \in Call /\ Proper(c)
  BY CallsProper
<1>3. \A c \in pending' : c \in Call /\ Proper(c)
  BY <1>1, <1>2 DEF NSound, NotificationsTypeOK
<1>4. (\A c \in pending : Proper(c))'
  BY <1>3
<1>5. NotOfOneself'
  BY <1>1 DEF NSound, NotOfOneself
<1>6. KeepsAnnounced
  BY <1>1 DEF KeepsAnnounced, Announced
<1> QED
  BY <1>1, <1>3, <1>4, <1>5, <1>6, NoticesTyped DEF NSound, NotificationsTypeOK

LEMMA CreateSound == ASSUME NSound, NEW c \in pending, Create(c) PROVE NSound' /\ KeepsAnnounced
<1> DEFINE n == [to |-> c.to, actor |-> c.actor, type |-> c.type, ref |-> c.ref, by |-> c.by,
                 category |-> Category(c.type), isRead |-> FALSE, kept |-> TRUE,
                 push |-> "waiting", tokens |-> {}, invalid |-> {}]
<1>1. /\ pending' = pending \ {c} /\ UNCHANGED <<fcmTokens, reg, dropped>>
      /\ notices' = IF ToOneself(c) THEN notices ELSE Append(notices, n)
  BY DEF Create
<1>2. c \in Call /\ Proper(c)
  BY DEF NSound, NotificationsTypeOK
<1>3. Category(c.type) \in NotificationCategory
  <2>1. c.type \in NotificationType
    BY <1>2 DEF Call
  <2> QED
    BY <2>1 DEF Category, NotificationCategory, NotificationType
<1>4. n \in Notice /\ n.to = c.to /\ n.type = c.type /\ n.ref = c.ref /\ n.by = c.by
  BY <1>2, <1>3 DEF Notice, Call, Pushes
<1> HIDE DEF n
<1>5. /\ (\A d \in pending : Proper(d))'
      /\ pending' \subseteq Call /\ dropped' \subseteq Call
      /\ fcmTokens' \in [Users -> SUBSET Entry] /\ reg' \in [Slots -> Registration]
  <2>1. \A d \in pending' : Proper(d)
    BY <1>1 DEF NSound
  <2> QED
    BY <1>1, <2>1, NoticesTyped
<1>6. CASE ToOneself(c)
  <2>1. NotOfOneself'
    BY <1>1, <1>6 DEF NSound, NotOfOneself
  <2>2. KeepsAnnounced
    BY <1>1, <1>2, <1>6 DEF KeepsAnnounced, Announced, Proper
  <2> QED
    BY <1>1, <1>5, <1>6, <2>1, <2>2, NoticesTyped DEF NSound, NotificationsTypeOK
<1>7. CASE ~ToOneself(c)
  <2> DEFINE l == Len(notices)
  <2>1. l \in Nat /\ DOMAIN notices = 1..l
    BY NoticesTyped
  <2>2. /\ notices' \in Seq(Notice) /\ DOMAIN notices' = 1..(l + 1)
        /\ \A i \in 1..l : notices'[i] = notices[i]
        /\ notices'[l + 1] = n
    BY <1>1, <1>4, <1>7, NoticesTyped
  <2> HIDE DEF l
  <2>3. \A i \in 1..(l + 1) : i \in 1..l \/ i = l + 1
    BY <2>1
  <2>4. n.type \in Owned => n.to # n.by
    BY <1>2, <1>4, <1>7 DEF Proper
  <2>5. NotOfOneself'
    BY <2>1, <2>2, <2>3, <2>4 DEF NSound, NotOfOneself, Owned
  <2>6. KeepsAnnounced
    <3>1. l + 1 \in DOMAIN notices' /\ \A i \in DOMAIN notices : i \in DOMAIN notices'
      BY <2>1, <2>2
    <3> QED
      BY <1>1, <1>4, <2>1, <2>2, <3>1 DEF KeepsAnnounced, Announced
  <2> QED
    BY <1>5, <2>2, <2>5, <2>6 DEF NSound, NotificationsTypeOK
<1> QED
  BY <1>6, <1>7

LEMMA CreateFailsSound ==
  ASSUME NSound, NEW c \in pending, CreateFails(c)
  PROVE  NSound' /\ KeepsAnnounced
<1>1. /\ pending' = pending \ {c} /\ dropped' = dropped \cup {c}
      /\ UNCHANGED <<notices, fcmTokens, reg>>
  BY DEF CreateFails
<1> QED
  BY <1>1, NoticesTyped, NoticesKept

LEMMA InboxSound ==
  ASSUME NSound, NEW u \in Users, NEW ids, MarkAsRead(u, ids) \/ DeleteNotifications(u, ids)
  PROVE  NSound' /\ KeepsAnnounced
<1>1. UNCHANGED <<pending, fcmTokens, reg, dropped>>
  BY DEF MarkAsRead, DeleteNotifications
<1>2. /\ DOMAIN notices' = DOMAIN notices
      /\ notices' = [i \in DOMAIN notices |-> notices'[i]]
      /\ \A i \in DOMAIN notices :
           notices'[i] \in {notices[i], [notices[i] EXCEPT !.isRead = TRUE],
                            [notices[i] EXCEPT !.kept = FALSE]}
  BY DEF MarkAsRead, DeleteNotifications
<1>3. \A n \in Notice : \A x \in {n, [n EXCEPT !.isRead = TRUE], [n EXCEPT !.kept = FALSE]} :
        x \in Notice /\ x.to = n.to /\ x.type = n.type /\ x.ref = n.ref /\ x.by = n.by
  BY DEF Notice
<1>4. \A i \in DOMAIN notices :
        /\ notices'[i] \in Notice
        /\ notices'[i].to = notices[i].to /\ notices'[i].type = notices[i].type
        /\ notices'[i].ref = notices[i].ref /\ notices'[i].by = notices[i].by
  <2>1. TAKE i \in DOMAIN notices
  <2>2. PICK n \in Notice : n = notices[i]
    BY NoticesTyped
  <2>3. PICK x : x = notices'[i]
    OBVIOUS
  <2>4. x \in {n, [n EXCEPT !.isRead = TRUE], [n EXCEPT !.kept = FALSE]}
    BY <1>2, <2>2, <2>3
  <2> QED
    BY <1>3, <2>2, <2>3, <2>4
<1> QED
  BY <1>1, <1>2, <1>4, NoticesTyped, NoticesKept

\* A push moves on: its tokens and its stage.
LEMMA PushSound ==
  ASSUME NSound, NEW i \in DOMAIN notices,
         \/ Expire(i) \/ SendToUser(i) \/ PruneInvalidTokens(i)
         \/ \E bad \in SUBSET Tokens : SendMulticast(i, bad)
  PROVE  NSound' /\ KeepsAnnounced
<1>1. notices[i] \in Notice
  BY NoticesTyped
<1>2. PICK n \in Notice :
        /\ notices' = [notices EXCEPT ![i] = n]
        /\ n.to = notices[i].to /\ n.type = notices[i].type /\ n.ref = notices[i].ref
        /\ n.by = notices[i].by
  <2>1. CASE Expire(i)
    <3>1. notices' = [notices EXCEPT ![i] = [notices[i] EXCEPT !.kept = FALSE]]
      BY <2>1 DEF Expire
    <3>2. [notices[i] EXCEPT !.kept = FALSE] \in Notice
      BY <1>1 DEF Notice
    <3> QED
      BY <1>1, <3>1, <3>2 DEF Notice
  <2>2. CASE SendToUser(i)
    <3> DEFINE ts == TokensOf(fcmTokens[notices[i].to])
               st == IF ts = {} THEN "done" ELSE "sent"
               n == [notices[i] EXCEPT !.tokens = ts, !.push = st]
    <3>1. notices' = [notices EXCEPT ![i] = n]
      <4>1. notices' = [notices EXCEPT ![i].tokens = ts, ![i].push = st]
        BY <2>2 DEF SendToUser
      <4> HIDE DEF ts, st
      <4> QED
        BY <1>1, <4>1, NoticesTyped
    <3>2. ts \in SUBSET Tokens
      <4>1. notices[i].to \in Users
        BY <1>1 DEF Notice
      <4>2. fcmTokens[notices[i].to] \subseteq Entry
        BY <4>1, NoticesTyped
      <4> QED
        BY <4>2 DEF TokensOf, Entry
    <3>3. st \in Pushes
      BY DEF Pushes
    <3> HIDE DEF ts, st
    <3>4. n \in Notice
      BY <1>1, <3>2, <3>3 DEF Notice
    <3> QED
      BY <1>1, <3>1, <3>4 DEF Notice
  <2>3. CASE PruneInvalidTokens(i)
    <3>1. notices' = [notices EXCEPT ![i] = [notices[i] EXCEPT !.push = "done"]]
      BY <2>3 DEF PruneInvalidTokens
    <3>2. [notices[i] EXCEPT !.push = "done"] \in Notice
      BY <1>1 DEF Notice, Pushes
    <3> QED
      BY <1>1, <3>1, <3>2 DEF Notice
  <2>4. CASE \E bad \in SUBSET Tokens : SendMulticast(i, bad)
    <3>1. PICK bad \in SUBSET Tokens : SendMulticast(i, bad)
      BY <2>4
    <3> DEFINE st == IF bad = {} THEN "done" ELSE "answered"
               n == [notices[i] EXCEPT !.invalid = bad, !.push = st]
    <3>2. notices' = [notices EXCEPT ![i] = n]
      <4>1. notices' = [notices EXCEPT ![i].invalid = bad, ![i].push = st]
        BY <3>1 DEF SendMulticast
      <4> HIDE DEF st
      <4> QED
        BY <1>1, <4>1, NoticesTyped
    <3>3. st \in Pushes
      BY DEF Pushes
    <3> HIDE DEF st
    <3>4. n \in Notice
      BY <1>1, <3>3 DEF Notice
    <3> QED
      BY <1>1, <3>2, <3>4 DEF Notice
  <2> QED
    BY <2>1, <2>2, <2>3, <2>4
<1>3. UNCHANGED <<pending, reg, dropped>>
  BY DEF Expire, SendToUser, PruneInvalidTokens, SendMulticast
<1>4. fcmTokens' \in [Users -> SUBSET Entry]
  BY NoticesTyped
  DEF Expire, SendToUser, PruneInvalidTokens, SendMulticast, WithoutInvalid
<1>5. /\ DOMAIN notices' = DOMAIN notices
      /\ notices' = [k \in DOMAIN notices |-> notices'[k]]
      /\ \A k \in DOMAIN notices : notices'[k] = IF k = i THEN n ELSE notices[k]
  BY <1>2, NoticesTyped
<1> QED
  BY <1>2, <1>3, <1>4, <1>5, NoticesTyped, NoticesKept

\* Registrations change no notification.
LEMMA TokensSound ==
  ASSUME NSound,
         \/ \E s \in Slots :
              \/ PullDevice(s) \/ PushToken(s)
              \/ \E u \in Users, token \in Tokens, d \in Devices : RegisterToken(s, u, token, d)
         \/ \E u \in Users, d \in Devices : UnregisterToken(u, d)
  PROVE  NSound' /\ KeepsAnnounced
<1>1. UNCHANGED <<notices, pending, dropped>>
  BY DEF PullDevice, PushToken, RegisterToken, UnregisterToken
<1>2. fcmTokens' \in [Users -> SUBSET Entry] /\ reg' \in [Slots -> Registration]
  <2>1. ASSUME NEW s \in Slots, PullDevice(s)
        PROVE  fcmTokens' \in [Users -> SUBSET Entry] /\ reg' \in [Slots -> Registration]
    BY <2>1, NoticesTyped DEF PullDevice, WithoutDevice, Registration
  <2>2. ASSUME NEW s \in Slots, PushToken(s)
        PROVE  fcmTokens' \in [Users -> SUBSET Entry] /\ reg' \in [Slots -> Registration]
    <3>1. reg[s] \in Registration
      BY NoticesTyped
    <3>2. [token |-> reg[s].token, device |-> reg[s].device] \in Entry
      BY <3>1 DEF Registration, Entry
    <3>3. NoRegistration \in Registration
      BY NotificationsAssumption DEF NoRegistration, Registration, AnyToken, AnyDevice
    <3> QED
      BY <2>2, <3>2, <3>3, NoticesTyped DEF PushToken
  <2>3. ASSUME NEW s \in Slots, NEW u \in Users, NEW token \in Tokens, NEW d \in Devices,
               RegisterToken(s, u, token, d)
        PROVE  fcmTokens' \in [Users -> SUBSET Entry] /\ reg' \in [Slots -> Registration]
    BY <2>3, NoticesTyped DEF RegisterToken, Registration
  <2>4. ASSUME NEW u \in Users, NEW d \in Devices, UnregisterToken(u, d)
        PROVE  fcmTokens' \in [Users -> SUBSET Entry] /\ reg' \in [Slots -> Registration]
    BY <2>4, NoticesTyped DEF UnregisterToken, WithoutDevice
  <2> QED
    BY <2>1, <2>2, <2>3, <2>4
<1> QED
  BY <1>1, <1>2, NoticesTyped, NoticesKept

LEMMA CrashNotificationsSound == ASSUME NSound, CrashNotifications PROVE NSound' /\ KeepsAnnounced
<1>1. /\ pending' = {} /\ dropped' = dropped \cup pending /\ UNCHANGED fcmTokens
      /\ notices' = [i \in DOMAIN notices |-> [notices[i] EXCEPT !.push = "done"]]
      /\ reg' = [s \in Slots |-> NoRegistration]
  BY DEF CrashNotifications
<1>2. NoRegistration \in Registration
  BY NotificationsAssumption DEF NoRegistration, Registration, AnyToken, AnyDevice
<1>3. \A n \in Notice :
        /\ [n EXCEPT !.push = "done"] \in Notice
        /\ [n EXCEPT !.push = "done"].to = n.to /\ [n EXCEPT !.push = "done"].type = n.type
        /\ [n EXCEPT !.push = "done"].ref = n.ref /\ [n EXCEPT !.push = "done"].by = n.by
  BY DEF Notice, Pushes
<1>4. reg' \in [Slots -> Registration] /\ fcmTokens' \in [Users -> SUBSET Entry]
  BY <1>1, <1>2, NoticesTyped
<1>5. /\ DOMAIN notices' = DOMAIN notices
      /\ notices' = [i \in DOMAIN notices |-> notices'[i]]
      /\ \A i \in DOMAIN notices : notices'[i] = [notices[i] EXCEPT !.push = "done"]
  BY <1>1
<1> QED
  BY <1>1, <1>3, <1>4, <1>5, NoticesTyped, NoticesKept

LEMMA NotificationsSound == ASSUME NSound, NextNotifications PROVE NSound' /\ KeepsAnnounced
  BY AnnounceSound, CreateSound, CreateFailsSound, InboxSound, PushSound, TokensSound
  DEF NextNotifications

LEMMA NotificationsQuiet ==
  ASSUME NSound, UNCHANGED notificationVars
  PROVE  NSound' /\ KeepsAnnounced
  BY DEF notificationVars, NSound, NotificationsTypeOK, NotOfOneself, KeepsAnnounced

-----------------------------------------------------------------------------
\* What is kept of a sequence: the elements at the positions kept, and no others.
LEMMA KeptElements ==
  ASSUME NEW T, NEW items \in Seq(T), NEW kept \in SUBSET (DOMAIN items)
  PROVE  /\ Kept(items, kept) \in Seq(T)
         /\ \A j \in DOMAIN Kept(items, kept) :
              \E i \in kept : Kept(items, kept)[j] = items[i]
         /\ \A i \in kept :
              \E j \in DOMAIN Kept(items, kept) : Kept(items, kept)[j] = items[i]
<1> DEFINE below(i) == {k \in kept : k <= i}
           n == Cardinality(kept)
           place == [i \in kept |-> Cardinality(below(i))]
<1>1. IsFiniteSet(kept) /\ n \in Nat /\ kept \subseteq Nat
  <2>1. IsFiniteSet(1..Len(items)) /\ kept \in SUBSET (1..Len(items))
    BY FS_Interval
  <2>2. IsFiniteSet(kept)
    BY <2>1, FS_Subset
  <2> QED
    BY <2>1, <2>2, FS_CardinalityType
<1>2. ASSUME NEW i \in kept PROVE place[i] \in 1..n
  <2>1. IsFiniteSet(below(i)) /\ Cardinality(below(i)) <= n
    BY <1>1, FS_Subset
  <2>2. i \in below(i)
    BY <1>1
  <2>3. Cardinality(below(i)) \in Nat /\ Cardinality(below(i)) # 0
    BY <2>1, <2>2, FS_EmptySet, FS_CardinalityType
  <2> HIDE DEF n, below
  <2> QED
    BY <1>1, <2>1, <2>3
<1>3. ASSUME NEW i \in kept, NEW k \in kept, i < k PROVE place[i] # place[k]
  <2>1. IsFiniteSet(below(k)) /\ below(i) \in SUBSET below(k)
    BY <1>1, <1>3, FS_Subset
  <2>2. k \in below(k) /\ k \notin below(i)
    BY <1>1, <1>3
  <2> HIDE DEF below
  <2>3. Cardinality(below(i)) # Cardinality(below(k))
    BY <2>1, <2>2, FS_Subset
  <2> QED
    BY <2>3
<1>4. place \in Injection(kept, 1..n)
  <2>1. \A i, k \in kept : place[i] = place[k] => i = k
    <3>1. SUFFICES ASSUME NEW i \in kept, NEW k \in kept, place[i] = place[k], i # k
                   PROVE  FALSE
      OBVIOUS
    <3>2. i < k \/ k < i
      BY <1>1, <3>1
    <3> HIDE DEF place
    <3> QED
      BY <1>3, <3>1, <3>2
  <2>2. place \in [kept -> 1..n]
    BY <1>2
  <2> HIDE DEF place, n
  <2> QED
    BY <2>1, <2>2 DEF Injection, IsInjective
<1>5. place \in Surjection(kept, 1..n)
  <2>1. IsFiniteSet(1..n) /\ Cardinality(1..n) = n
    BY <1>1, FS_Interval
  <2> HIDE DEF place
  <2> QED
    BY <1>1, <1>4, <2>1, FS_Injection
<1> DEFINE at(j) == CHOOSE i \in kept : Cardinality({k \in kept : k <= i}) = j
<1>6. ASSUME NEW j \in 1..n PROVE at(j) \in kept /\ place[at(j)] = j
  <2>1. \E i \in kept : place[i] = j
    BY <1>5, <1>6 DEF Surjection
  <2>2. \E i \in kept : Cardinality({k \in kept : k <= i}) = j
    BY <2>1
  <2>3. at(j) \in kept /\ Cardinality({k \in kept : k <= at(j)}) = j
    BY <2>2
  <2> QED
    BY <2>3
<1>7. ASSUME NEW i \in kept PROVE at(place[i]) = i
  <2>1. place[i] \in 1..n
    BY <1>2
  <2>2. at(place[i]) \in kept /\ place[at(place[i])] = place[i]
    BY <1>6, <2>1
  <2> HIDE DEF at, place
  <2> QED
    BY <1>4, <2>2 DEF Injection, IsInjective
<1>8. Kept(items, kept) = [j \in 1..n |-> items[at(j)]]
  BY DEF Kept, Cardinality, Cardinality
<1> HIDE DEF n, place, at
<1>9. \A j \in 1..n : items[at(j)] \in T
  BY <1>6
<1>10. Kept(items, kept) \in Seq(T) /\ DOMAIN Kept(items, kept) = 1..n
  BY <1>1, <1>8, <1>9
<1> QED
  BY <1>2, <1>6, <1>7, <1>8, <1>10

LEMMA LeastExists ==
  ASSUME NEW n \in Nat, NEW S \in SUBSET (1..n), S # {}
  PROVE  \E x \in S : \A y \in S : x <= y
<1> DEFINE T == {1..x : x \in S}
           U == 1..n
<1>1. T \subseteq FiniteSubsetsOf(U) /\ T # {}
  <2>1. \A x \in S : IsFiniteSet(1..x) /\ 1..x \subseteq U
    BY FS_Interval
  <2> QED
    BY <2>1 DEF FiniteSubsetsOf
<1>2. IsFiniteSet(U)
  BY FS_Interval
<1>3. IsWellFoundedOn(StrictSubsetOrdering(U), FiniteSubsetsOf(U))
  BY FS_StrictSubsetOrderingWellFounded
<1>4. PICK t \in T : \A u \in T : ~ (<<u, t>> \in StrictSubsetOrdering(U))
  <2> HIDE DEF T, U
  <2> QED
    BY <1>1, <1>3, WFMin
<1>5. PICK x \in S : t = 1..x
  BY <1>4
<1>6. ASSUME NEW y \in S, y < x PROVE FALSE
  <2>1. 1..y \subseteq 1..x /\ x \in 1..x /\ x \notin 1..y
    BY <1>6
  <2>2. <<1..y, 1..x>> \in StrictSubsetOrdering(U)
    <3>1. 1..y \in SUBSET U /\ 1..x \in SUBSET U
      BY <1>6
    <3> QED
      BY <2>1, <3>1 DEF StrictSubsetOrdering
  <2> QED
    BY <1>4, <1>5, <2>2
<1> QED
  BY <1>6

-----------------------------------------------------------------------------
\* The conversation.

LEMMA OtherIs ==
  ASSUME NEW u \in Participants
  PROVE  Other(u) \in Participants /\ Other(u) # u /\ Other(u) \in Users /\ u \in Users
<1>1. IsFiniteSet({u}) /\ Cardinality({u}) = 1
  BY FS_Singleton
<1>2. Participants # {u} /\ Participants \subseteq Users
  BY <1>1, ChatAssumption
<1>3. \E w \in Participants : w # u
  BY <1>2
<1> QED
  BY <1>2, <1>3 DEF Other

LEMMA IdleSound ==
  /\ Idle \in Operation /\ Sound(Idle) /\ \A c, ms : About(Idle, c, ms)
  /\ Idle.at = "idle" /\ Idle.kind = "none" /\ Idle.left = {}
<1>1. Idle \in Operation
  BY DEF Idle, Operation, Kinds, Steps
<1> QED
  BY <1>1 DEF Idle, Sound, About

LEMMA ChatTyped ==
  ASSUME ChatInv
  PROVE  /\ conv \in Conversation /\ msgs \in Seq(Message)
         /\ \A m \in DOMAIN msgs : msgs[m] \in Message /\ m \in Nat /\ m # 0
         /\ \A r \in Procs : /\ op[r] \in Operation /\ Sound(op[r])
                             /\ About(op[r], conv, msgs)
         /\ NSound /\ Fresh(conv) /\ scene \in Scenes
         /\ op \in [Procs -> Operation]
         /\ follows \subseteq Participants /\ joined \subseteq Participants
         /\ inbox \subseteq Participants
         /\ known \subseteq Participants /\ throttle \subseteq Participants
         /\ shown \subseteq Participants
<1>1. conv \in Conversation /\ msgs \in Seq(Message) /\ op \in [Procs -> Operation]
  BY DEF ChatInv, TypeOK
<1>2. \A m \in DOMAIN msgs : msgs[m] \in Message /\ m \in Nat /\ m # 0
  BY <1>1
<1>3. \A r \in Procs : op[r] \in Operation /\ Sound(op[r]) /\ About(op[r], conv, msgs)
  BY <1>1 DEF ChatInv
<1>4. NSound /\ Fresh(conv) /\ scene \in Scenes
  BY DEF ChatInv, TypeOK, NSound
<1> QED
  BY <1>1, <1>2, <1>3, <1>4 DEF ChatInv, TypeOK

\* The request is about to announce message m.
Sending(o, m) == o.at \in {"publish", "emit", "sender"} /\ o.m = m

\* The conversation and the messages only gain; who removed the conversation may be
\* forgotten.
Gains ==
  /\ conv' \in Conversation /\ msgs' \in Seq(Message) /\ Fresh(conv')
  /\ conv.exists => conv'.exists
  /\ conv'.deletedFor \subseteq conv.deletedFor
  /\ \A m \in DOMAIN msgs : m \in DOMAIN msgs' /\ msgs'[m].from = msgs[m].from

\* A step of the request in r, after which it is o.
LEMMA StepSound ==
  ASSUME ChatInv, NEW r \in Procs, NEW o \in Operation, Become(r, o), Gains,
         Sound(o), About(o, conv', msgs'), NSound', KeepsAnnounced,
         UNCHANGED <<scene, follows, joined, inbox, known, throttle, shown>>,
         \A m \in DOMAIN msgs' : msgs'[m].told = "no" =>
           \/ Sending(o, m)
           \/ m \in DOMAIN msgs /\ msgs[m].told = "no" /\ ~Sending(op[r], m),
         \A m \in DOMAIN msgs' : msgs'[m].told = "asked" =>
           \/ m \in DOMAIN msgs /\ msgs[m].told = "asked"
           \/ Announced(m, msgs'[m].from, notices', pending' \cup dropped')
  PROVE  ChatInv'
<1>1. op' = [op EXCEPT ![r] = o]
  BY DEF Become
<1>2. op' \in [Procs -> Operation] /\ op'[r] = o /\ \A q \in Procs \ {r} : op'[q] = op[q]
  BY <1>1, ChatTyped
<1>3. ASSUME NEW q \in Procs PROVE Sound(op'[q]) /\ About(op'[q], conv', msgs')
  <2>1. CASE q = r
    BY <1>2, <2>1
  <2>2. CASE q # r
    BY <1>2, <2>2, ChatTyped DEF About, Gains
  <2> QED
    BY <2>1, <2>2
<1>4. (\A q \in Procs : Sound(op[q]) /\ About(op[q], conv, msgs))'
  BY <1>3
<1>5. TypeOK'
  BY <1>2, ChatTyped DEF TypeOK, Gains, NSound
<1>6. ASSUME NEW m \in DOMAIN msgs', msgs'[m].told = "no"
      PROVE  \E q \in Procs : op'[q].at \in {"publish", "emit", "sender"} /\ op'[q].m = m
  <2>1. CASE Sending(o, m)
    BY <1>2, <2>1 DEF Sending
  <2>2. CASE m \in DOMAIN msgs /\ msgs[m].told = "no" /\ ~Sending(op[r], m)
    <3>1. PICK q \in Procs : op[q].at \in {"publish", "emit", "sender"} /\ op[q].m = m
      BY <2>2 DEF ChatInv, ReachesRecipient
    <3> QED
      BY <1>2, <2>2, <3>1 DEF Sending
  <2> QED
    BY <1>6, <2>1, <2>2
<1>7. ASSUME NEW m \in DOMAIN msgs', msgs'[m].told = "asked"
      PROVE  Announced(m, msgs'[m].from, notices', pending' \cup dropped')
  <2>1. CASE m \in DOMAIN msgs /\ msgs[m].told = "asked"
    <3>1. Announced(m, msgs[m].from, notices, pending \cup dropped)
      BY <2>1 DEF ChatInv, ReachesRecipient, Announced
    <3>2. m \in Nat \ {0} /\ msgs[m].from \in Users
      BY <2>1, ChatTyped, ChatAssumption DEF Message
    <3>3. msgs'[m].from = msgs[m].from
      BY <2>1 DEF Gains
    <3> QED
      BY <3>1, <3>2, <3>3 DEF KeepsAnnounced
  <2> QED
    BY <1>7, <2>1
<1>8. ReachesRecipient'
  BY <1>6, <1>7 DEF ReachesRecipient, Announced
<1> QED
  BY <1>4, <1>5, <1>8, ChatTyped DEF ChatInv, NSound, Gains

\* The steps that only read: their requests announce nothing.
Reads == UNCHANGED <<conv, msgs, follows, sockets, notificationVars>> /\ UNCHANGED scene

LEMMA ReadSound ==
  ASSUME ChatInv, NEW r \in Procs, NEW o \in Operation, Become(r, o), Reads,
         op[r].at \notin {"publish", "emit", "sender"}, Sound(o), About(o, conv, msgs)
  PROVE  ChatInv'
<1>1. UNCHANGED <<conv, msgs, follows, joined, inbox, known, throttle, shown, scene>>
  BY DEF Reads, sockets
<1>2. Gains
  BY <1>1, ChatTyped DEF Gains
<1>3. NSound' /\ KeepsAnnounced
  BY ChatTyped, NotificationsQuiet DEF Reads
<1>4. About(o, conv', msgs')
  BY <1>1
<1> QED
  BY <1>1, <1>2, <1>3, <1>4, StepSound DEF Sending

\* The steps that write messages or the conversation, and tell nobody.
Writes == UNCHANGED <<follows, sockets, notificationVars>> /\ UNCHANGED scene

LEMMA WriteSound ==
  ASSUME ChatInv, NEW r \in Procs, NEW o \in Operation, Become(r, o), Writes, Gains,
         op[r].at \notin {"publish", "emit", "sender"}, Sound(o), About(o, conv', msgs'),
         \A m \in DOMAIN msgs' : m \in DOMAIN msgs /\ msgs'[m].told = msgs[m].told
  PROVE  ChatInv'
<1>1. UNCHANGED <<follows, joined, inbox, known, throttle, shown, scene>>
  BY DEF Writes, sockets
<1>2. NSound' /\ KeepsAnnounced
  BY ChatTyped, NotificationsQuiet DEF Writes
<1> QED
  BY <1>1, <1>2, StepSound DEF Sending

LEMMA InitChat == Init => ChatInv
<1> SUFFICES ASSUME Init PROVE ChatInv
  OBVIOUS
<1>1. NSound /\ scene \in Scenes
  BY InitNotificationsSound DEF Init
<1>2. conv \in Conversation /\ Fresh(conv)
  <2>1. NoConversation \in Conversation
    BY DEF NoConversation, Conversation
  <2>2. conv \in Conversation
    BY <2>1 DEF Init, Conversation
  <2>3. conv.deletedFor = {} /\ \A u \in Participants : conv.unread[u] = 0
    BY DEF Init, NoConversation
  <2> QED
    BY <2>2, <2>3 DEF Fresh
<1>3. op = [r \in Procs |-> Idle] /\ msgs = <<>>
  BY DEF Init
<1>4. op \in [Procs -> Operation] /\ \A r \in Procs : Sound(op[r]) /\ About(op[r], conv, msgs)
  BY <1>3, IdleSound
<1>5. ReachesRecipient /\ msgs \in Seq(Message)
  BY <1>3 DEF ReachesRecipient
<1>6. TypeOK
  BY <1>1, <1>2, <1>4, <1>5 DEF Init, TypeOK, NSound
<1> QED
  BY <1>1, <1>2, <1>4, <1>5, <1>6 DEF ChatInv, NSound

-----------------------------------------------------------------------------
\* The requests, one by one.

LEMMA SlotTyped ==
  ASSUME ChatInv, NEW r \in Procs
  PROVE  /\ op[r] \in Operation /\ Sound(op[r]) /\ About(op[r], conv, msgs)
         /\ op[r].u \in Users \cup {Nobody} /\ op[r].m \in Nat /\ op[r].ids \subseteq Nat
         /\ op[r].kind # "none" => op[r].u \in Participants
<1>1. op[r] \in Operation /\ Sound(op[r]) /\ About(op[r], conv, msgs)
  BY ChatTyped
<1> QED
  BY <1>1 DEF Operation, Sound

LEMMA StartSound ==
  ASSUME ChatInv, NEW r \in Procs, NEW u \in Participants, StartConversation(r, u),
         UNCHANGED scene
  PROVE  ChatInv'
<1> DEFINE o == [Idle EXCEPT !.kind = "open", !.u = u]
           n == Checked(o, "before")
<1>1. Become(r, n) /\ Reads /\ op[r].at = "idle"
  BY DEF StartConversation, Start, Reads
<1>2. o \in Operation
  BY IdleSound, ChatAssumption DEF Operation, Kinds
<1>3. o.kind = "open" /\ o.u = u /\ o.left = {}
  BY IdleSound DEF Operation
<1> HIDE DEF o
<1>4. n \in Operation
  BY <1>2 DEF Checked, Operation, Steps
<1>5. n.kind = "open" /\ n.u = u /\ n.at \in {"before", "follows"}
  BY <1>2, <1>3 DEF Checked, Operation
<1> HIDE DEF n
<1>6. Sound(n) /\ About(n, conv, msgs)
  BY <1>5 DEF Sound, About
<1> QED
  BY <1>1, <1>4, <1>6, ReadSound

LEMMA SendSound ==
  ASSUME ChatInv, NEW r \in Procs, NEW u \in Participants, NEW draft \in Draft,
         SendMessage(r, u, draft), UNCHANGED scene
  PROVE  ChatInv'
<1> DEFINE there == Other(u) \in joined \cap inbox
           o == [Idle EXCEPT !.kind = "send", !.u = u, !.content = draft.content,
                             !.x = draft.text, !.was = there]
           n == Checked(o, "create")
<1>1. Become(r, n) /\ Reads /\ op[r].at = "idle" /\ conv.exists
  BY DEF SendMessage, Start, Reads
<1>2. there \in BOOLEAN /\ draft.content \in {"text", "image"} /\ draft.text \in Texts \cup {Blank}
  BY DEF Draft
<1> HIDE DEF there
<1>3. o \in Operation
  BY <1>2, IdleSound, ChatAssumption DEF Operation, Kinds
<1>4. o.kind = "send" /\ o.u = u /\ o.x = draft.text
  BY IdleSound DEF Operation
<1> HIDE DEF o
<1>5. n \in Operation
  BY <1>3 DEF Checked, Operation, Steps
<1>6. n.kind = "send" /\ n.u = u /\ n.x = draft.text /\ n.at \in {"create", "follows"}
  BY <1>3, <1>4 DEF Checked, Operation
<1> HIDE DEF n
<1>7. Sound(n) /\ About(n, conv, msgs)
  BY <1>1, <1>2, <1>6 DEF Sound, About
<1> QED
  BY <1>1, <1>5, <1>7, ReadSound

LEMMA FollowSound ==
  ASSUME ChatInv, NEW r \in Procs, NEW side \in {"mine", "theirs"}, ReadFollow(r, side),
         UNCHANGED scene
  PROVE  ChatInv'
<1>1. PICK o \in Operation : o = op[r] /\ Sound(o) /\ About(o, conv, msgs)
  BY SlotTyped
<1>2. PICK n : Become(r, n) /\ n \in {Idle, [o EXCEPT !.at = After(o), !.left = {}],
                                      [o EXCEPT !.left = @ \ {side}]}
  <2>1. Become(r, IF (IF side = "mine" THEN o.u ELSE Other(o.u)) \notin follows THEN Idle
               ELSE IF o.left = {side} THEN [o EXCEPT !.at = After(o), !.left = {}]
               ELSE [o EXCEPT !.left = @ \ {side}])
    BY <1>1 DEF ReadFollow
  <2> QED
    BY <2>1
<1>3. Reads /\ o.at = "follows" /\ o.kind \in {"open", "send"}
  BY <1>1 DEF ReadFollow, Reads, Sound
<1>4. CASE n = Idle
  BY <1>1, <1>2, <1>3, <1>4, IdleSound, ReadSound
<1>5. CASE n = [o EXCEPT !.at = After(o), !.left = {}]
  <2>1. After(o) \in {"before", "create"} /\ (After(o) = "before" <=> o.kind = "open")
    BY DEF After
  <2>2. n \in Operation
    BY <1>5, <2>1 DEF Operation, Steps
  <2>3. n.at = After(o) /\ n.kind = o.kind /\ n.u = o.u /\ n.x = o.x
    BY <1>5 DEF Operation
  <2>4. Sound(n) /\ About(n, conv, msgs)
    BY <1>1, <1>3, <2>1, <2>3 DEF Sound, About
  <2> QED
    BY <1>1, <1>2, <1>3, <2>2, <2>4, ReadSound
<1>6. CASE n = [o EXCEPT !.left = @ \ {side}]
  <2>1. n \in Operation
    BY <1>6 DEF Operation
  <2>2. n.at = o.at /\ n.kind = o.kind /\ n.u = o.u /\ n.x = o.x
    BY <1>6 DEF Operation
  <2>3. Sound(n) /\ About(n, conv, msgs)
    BY <1>1, <1>3, <2>2 DEF Sound, About
  <2> QED
    BY <1>1, <1>2, <1>3, <2>1, <2>3, ReadSound
<1> QED
  BY <1>2, <1>4, <1>5, <1>6

LEMMA BeforeSound ==
  ASSUME ChatInv, NEW r \in Procs, FindBefore(r), UNCHANGED scene
  PROVE  ChatInv'
<1>1. PICK o \in Operation : o = op[r] /\ Sound(o) /\ About(o, conv, msgs)
  BY SlotTyped
<1>2. PICK n : n = [o EXCEPT !.at = "upsert", !.was = conv.exists]
  OBVIOUS
<1>3. Become(r, n) /\ Reads /\ o.at = "before" /\ o.kind = "open"
  BY <1>1, <1>2 DEF FindBefore, Reads, Sound
<1>4. conv.exists \in BOOLEAN /\ Fresh(conv)
  BY ChatTyped DEF Conversation
<1>5. n \in Operation
  BY <1>2, <1>4 DEF Operation, Steps
<1>6. n.at = "upsert" /\ n.was = conv.exists /\ n.kind = "open" /\ n.u = o.u
  BY <1>2, <1>3 DEF Operation
<1>7. Sound(n)
  BY <1>1, <1>3, <1>6 DEF Sound
<1>8. About(n, conv, msgs)
  BY <1>4, <1>6 DEF About, Fresh
<1> QED
  BY <1>1, <1>3, <1>5, <1>7, <1>8, ReadSound

LEMMA UpsertedIs ==
  ASSUME ChatInv
  PROVE  /\ Upserted(conv) \in Conversation /\ Upserted(conv).exists
         /\ Fresh(Upserted(conv)) /\ Upserted(conv).deletedFor = conv.deletedFor
         /\ \A u \in Participants : Upserted(conv).unread[u] = conv.unread[u]
<1>1. conv \in Conversation /\ Fresh(conv)
  BY ChatTyped
<1>2. CASE conv.exists
  BY <1>1, <1>2 DEF Upserted
<1>3. CASE ~conv.exists
  <2>1. PICK c : c = [NoConversation EXCEPT !.exists = TRUE]
    OBVIOUS
  <2>2. NoConversation \in Conversation
    BY DEF NoConversation, Conversation
  <2>3. /\ c \in Conversation /\ c.exists /\ c.deletedFor = {}
        /\ \A u \in Participants : c.unread[u] = 0
    BY <2>1, <2>2 DEF NoConversation, Conversation
  <2> QED
    BY <1>1, <1>3, <2>1, <2>3 DEF Upserted, Fresh
<1> QED
  BY <1>2, <1>3

LEMMA UpsertSound ==
  ASSUME ChatInv, NEW r \in Procs, UpsertConversation(r), UNCHANGED scene
  PROVE  /\ ChatInv'
         /\ op'[r].at = "idle" =>
              op[r].again \/ (conv'.exists /\ op[r].u \notin conv'.deletedFor)
<1>1. PICK o \in Operation : o = op[r] /\ Sound(o) /\ About(o, conv, msgs)
  BY SlotTyped
<1>2. /\ conv' = Upserted(conv) /\ Writes /\ UNCHANGED msgs /\ o.at = "upsert"
      /\ Become(r, IF Restores(o, conv') THEN [o EXCEPT !.at = "restore"] ELSE Idle)
  BY <1>1 DEF UpsertConversation, Writes
<1>3. /\ conv' \in Conversation /\ conv'.exists /\ Fresh(conv')
      /\ conv'.deletedFor = conv.deletedFor
  BY <1>2, UpsertedIs
<1>4. Gains
  BY <1>2, <1>3, ChatTyped DEF Gains
<1>5. CASE Restores(o, conv')
  <2>1. PICK n : n = [o EXCEPT !.at = "restore"]
    OBVIOUS
  <2>2. n \in Operation
    BY <2>1 DEF Operation, Steps
  <2>3. n.at = "restore" /\ n.kind = o.kind /\ n.u = o.u /\ n.x = o.x
    BY <2>1 DEF Operation
  <2>4. Sound(n) /\ About(n, conv', msgs')
    BY <1>1, <1>2, <1>3, <2>3 DEF Sound, About
  <2>5. Become(r, n)
    BY <1>2, <1>5, <2>1
  <2>6. ChatInv'
    BY <1>1, <1>2, <1>4, <2>2, <2>4, <2>5, WriteSound
  <2>7. op'[r] = n
    BY <2>5, ChatTyped DEF Become
  <2> QED
    BY <2>3, <2>6, <2>7
<1>6. CASE ~Restores(o, conv')
  <2>1. ChatInv'
    BY <1>1, <1>2, <1>4, <1>6, IdleSound, WriteSound
  <2>2. o.again \/ o.u \notin conv'.deletedFor
    BY <1>1, <1>2, <1>3, <1>6 DEF Restores, About
  <2> QED
    BY <1>1, <1>3, <2>1, <2>2
<1> QED
  BY <1>5, <1>6

LEMMA RestoreSound ==
  ASSUME ChatInv, NEW r \in Procs, RestoreConversation(r), UNCHANGED scene
  PROVE  ChatInv' /\ conv'.exists /\ op[r].u \notin conv'.deletedFor
<1>1. /\ conv' = [conv EXCEPT !.deletedFor = @ \ {op[r].u}] /\ Writes /\ UNCHANGED msgs
      /\ op[r].at = "restore" /\ Become(r, Idle)
  BY DEF RestoreConversation, Writes
<1>2. conv \in Conversation /\ conv.exists
  BY <1>1, ChatTyped DEF About
<1>3. /\ conv' \in Conversation /\ conv'.exists
      /\ conv'.deletedFor = conv.deletedFor \ {op[r].u}
  BY <1>1, <1>2 DEF Conversation
<1>4. Gains
  BY <1>1, <1>3, ChatTyped DEF Gains, Fresh
<1> QED
  BY <1>1, <1>3, <1>4, IdleSound, WriteSound

LEMMA CreateMessageSound ==
  ASSUME ChatInv, NEW r \in Procs, CreateMessage(r), UNCHANGED scene
  PROVE  ChatInv'
<1>1. PICK o \in Operation : o = op[r] /\ Sound(o) /\ About(o, conv, msgs)
  BY SlotTyped
<1>2. PICK x : x = [from |-> o.u, content |-> o.content, text |-> o.x, isDeleted |-> FALSE,
                    deletedFor |-> {}, readBy |-> [w \in Participants |-> 0],
                    reactions |-> <<>>, told |-> "no"]
  OBVIOUS
<1>3. PICK l : l = Len(msgs)
  OBVIOUS
<1>4. PICK n : n = [o EXCEPT !.at = "publish", !.m = l + 1]
  OBVIOUS
<1>5. /\ msgs' = Append(msgs, x) /\ Become(r, n) /\ Writes /\ UNCHANGED conv
      /\ o.at = "create" /\ o.kind = "send" /\ o.u \in Participants
      /\ o.x \in Texts \cup {Blank}
  BY <1>1, <1>2, <1>3, <1>4 DEF CreateMessage, Writes, Sound
<1>6. x \in Message /\ x.from = o.u /\ x.told = "no"
  BY <1>2, <1>5 DEF Message, Operation
<1>7. l \in Nat /\ DOMAIN msgs = 1..l
  BY <1>3, ChatTyped
<1>8. /\ msgs' \in Seq(Message) /\ DOMAIN msgs' = 1..(l + 1)
      /\ \A m \in 1..l : msgs'[m] = msgs[m]
      /\ msgs'[l + 1] = x
  BY <1>3, <1>5, <1>6, ChatTyped
<1>9. n \in Operation
  <2>1. l + 1 \in Nat /\ "publish" \in Steps
    BY <1>7 DEF Steps
  <2> QED
    BY <1>4, <2>1 DEF Operation
<1>10. /\ n.at = "publish" /\ n.m = l + 1 /\ n.kind = "send" /\ n.u = o.u /\ n.x = o.x
  BY <1>4, <1>5 DEF Operation
<1>11. l + 1 \in DOMAIN msgs' /\ \A m \in DOMAIN msgs' : m \in DOMAIN msgs \/ m = l + 1
  BY <1>7, <1>8
<1>12. \A m \in DOMAIN msgs : m \in DOMAIN msgs' /\ msgs'[m] = msgs[m]
  BY <1>7, <1>8
<1>13. Sound(n)
  BY <1>5, <1>10 DEF Sound
<1>14. About(n, conv', msgs')
  BY <1>1, <1>5, <1>6, <1>8, <1>10, <1>11 DEF About
<1>15. Gains
  BY <1>5, <1>8, <1>12, ChatTyped DEF Gains
<1>16. NSound' /\ KeepsAnnounced
  BY <1>5, ChatTyped, NotificationsQuiet DEF Writes
<1>17. UNCHANGED <<scene, follows, joined, inbox, known, throttle, shown>>
  BY <1>5 DEF Writes, sockets
<1>18. ASSUME NEW m \in DOMAIN msgs', msgs'[m].told = "no"
       PROVE  \/ Sending(n, m)
              \/ m \in DOMAIN msgs /\ msgs[m].told = "no" /\ ~Sending(op[r], m)
  BY <1>1, <1>5, <1>10, <1>11, <1>12, <1>18 DEF Sending
<1>19. ASSUME NEW m \in DOMAIN msgs', msgs'[m].told = "asked"
       PROVE  m \in DOMAIN msgs /\ msgs[m].told = "asked"
  BY <1>6, <1>8, <1>11, <1>12, <1>19
<1> QED
  BY <1>5, <1>9, <1>13, <1>14, <1>15, <1>16, <1>17, <1>18, <1>19, StepSound

LEMMA PublishSound ==
  ASSUME ChatInv, NEW r \in Procs, PublishMessage(r), UNCHANGED scene
  PROVE  ChatInv' /\ \A u \in Participants : conv'.unread[u] >= conv.unread[u]
<1>1. PICK o \in Operation : o = op[r] /\ Sound(o) /\ About(o, conv, msgs)
  BY SlotTyped
<1>2. PICK n : n = [o EXCEPT !.at = "emit"]
  OBVIOUS
<1>3. /\ conv' = [conv EXCEPT !.last = [m |-> o.m, text |-> o.x], !.unread[Other(o.u)] = @ + 1]
      /\ Become(r, n) /\ Writes /\ UNCHANGED msgs
      /\ o.at = "publish" /\ o.kind = "send" /\ o.u \in Participants
      /\ o.x \in Texts \cup {Blank}
  BY <1>1, <1>2 DEF PublishMessage, Writes, Sound
<1>4. conv.exists /\ conv \in Conversation /\ Other(o.u) \in Participants /\ o.m \in Nat
  BY <1>1, <1>3, ChatTyped, OtherIs DEF About, Operation
<1>5. /\ conv' \in Conversation /\ conv'.exists /\ conv'.deletedFor = conv.deletedFor
      /\ conv'.unread = [conv.unread EXCEPT ![Other(o.u)] = @ + 1]
  <2>1. PICK x : x = [m |-> o.m, text |-> o.x]
    OBVIOUS
  <2>2. x \in [m : Nat, text : Texts \cup {Blank}]
    BY <1>3, <1>4, <2>1
  <2>3. PICK f : f = [conv.unread EXCEPT ![Other(o.u)] = @ + 1]
    OBVIOUS
  <2>4. f \in [Participants -> Nat]
    BY <1>4, <2>3 DEF Conversation
  <2>5. conv' = [conv EXCEPT !.last = x, !.unread = f]
    BY <1>3, <1>4, <2>1, <2>3 DEF Conversation
  <2> QED
    BY <1>4, <2>2, <2>3, <2>4, <2>5 DEF Conversation
<1>6. \A u \in Participants : conv'.unread[u] >= conv.unread[u]
  <2>1. conv.unread \in [Participants -> Nat]
    BY <1>4 DEF Conversation
  <2> QED
    BY <1>5, <2>1
<1>7. n \in Operation
  BY <1>2 DEF Operation, Steps
<1>8. n.at = "emit" /\ n.kind = "send" /\ n.u = o.u /\ n.m = o.m /\ n.x = o.x
  BY <1>2, <1>3 DEF Operation
<1>9. Sound(n) /\ About(n, conv', msgs')
  BY <1>1, <1>3, <1>5, <1>8 DEF Sound, About
<1>10. Gains
  BY <1>3, <1>5, ChatTyped DEF Gains, Fresh
<1>11. NSound' /\ KeepsAnnounced
  BY <1>3, ChatTyped, NotificationsQuiet DEF Writes
<1>12. UNCHANGED <<scene, follows, joined, inbox, known, throttle, shown>>
  BY <1>3 DEF Writes, sockets
<1>13. \A m : Sending(op[r], m) => Sending(n, m)
  BY <1>1, <1>8 DEF Sending
<1>14. ChatInv'
  BY <1>3, <1>7, <1>9, <1>10, <1>11, <1>12, <1>13, StepSound
<1> QED
  BY <1>6, <1>14

\* A message of which only told changes.
LEMMA ToldSet ==
  ASSUME NEW ms \in Seq(Message), NEW m \in DOMAIN ms,
         NEW t \in {"no", "live", "asked", "lost"},
         NEW ns, ns = [ms EXCEPT ![m].told = t]
  PROVE  /\ ns \in Seq(Message) /\ DOMAIN ns = DOMAIN ms
         /\ \A k \in DOMAIN ms : /\ ns[k].from = ms[k].from
                                /\ k # m => ns[k] = ms[k]
         /\ ns[m].told = t
<1>1. PICK x : x = [ms[m] EXCEPT !.told = t]
  OBVIOUS
<1>2. ms[m] \in Message /\ DOMAIN ms = 1..Len(ms)
  OBVIOUS
<1>3. x \in Message /\ x.from = ms[m].from /\ x.told = t
  BY <1>1, <1>2 DEF Message
<1>4. ns = [ms EXCEPT ![m] = x]
  BY <1>1
<1> QED
  BY <1>3, <1>4

\* A message is told to whoever is in the room, and its sender is looked up unless
\* the room of the notifications has the socket too.
LEMMA EmitSound ==
  ASSUME ChatInv, NEW r \in Procs, EmitMessage(r), UNCHANGED scene
  PROVE  ChatInv'
<1>1. PICK o \in Operation : o = op[r] /\ Sound(o) /\ About(o, conv, msgs)
  BY SlotTyped
<1>2. /\ o.at = "emit" /\ o.kind = "send" /\ o.m \in DOMAIN msgs /\ Writes /\ UNCHANGED conv
      /\ msgs' = [msgs EXCEPT ![o.m].told = IF Other(o.u) \in joined THEN "live" ELSE @]
      /\ Become(r, IF Other(o.u) \in joined \cap inbox THEN Idle ELSE [o EXCEPT !.at = "sender"])
  BY <1>1 DEF EmitMessage, IsActive, Writes, Sound, About
<1>3. NSound' /\ KeepsAnnounced
  BY <1>2, ChatTyped, NotificationsQuiet DEF Writes
<1>4. UNCHANGED <<scene, follows, joined, inbox, known, throttle, shown>>
  BY <1>2 DEF Writes, sockets
<1>5. msgs \in Seq(Message) /\ msgs[o.m] \in Message
  BY <1>2, ChatTyped
<1>6. CASE Other(o.u) \in joined \cap inbox
  <2>1. msgs' = [msgs EXCEPT ![o.m].told = "live"]
    BY <1>2, <1>6
  <2>2. /\ msgs' \in Seq(Message) /\ DOMAIN msgs' = DOMAIN msgs
        /\ \A m \in DOMAIN msgs : /\ msgs'[m].from = msgs[m].from
                                  /\ m # o.m => msgs'[m] = msgs[m]
        /\ msgs'[o.m].told = "live"
    BY <1>2, <1>5, <2>1, ToldSet
  <2>3. Gains
    BY <1>2, <2>2, ChatTyped DEF Gains
  <2>4. \A m \in DOMAIN msgs' : msgs'[m].told = "no" =>
          m \in DOMAIN msgs /\ msgs[m].told = "no" /\ ~Sending(op[r], m)
    BY <1>1, <2>2 DEF Sending
  <2>5. \A m \in DOMAIN msgs' : msgs'[m].told = "asked" =>
          m \in DOMAIN msgs /\ msgs[m].told = "asked"
    BY <2>2
  <2>6. Become(r, Idle)
    BY <1>2, <1>6
  <2> QED
    BY <1>3, <1>4, <2>3, <2>4, <2>5, <2>6, IdleSound, StepSound
<1>7. CASE Other(o.u) \notin joined
  <2>1. PICK n : n = [o EXCEPT !.at = "sender"]
    OBVIOUS
  <2>2. msgs' = msgs
    <3>1. PICK x : x = msgs[o.m]
      OBVIOUS
    <3>2. x = [x EXCEPT !.told = x.told]
      BY <1>5, <3>1 DEF Message
    <3>3. msgs' = [msgs EXCEPT ![o.m] = x]
      BY <1>2, <1>7, <3>1, <3>2
    <3> QED
      BY <1>2, <1>5, <3>1, <3>3
  <2>3. n \in Operation
    BY <2>1 DEF Operation, Steps
  <2>4. n.at = "sender" /\ n.kind = "send" /\ n.u = o.u /\ n.m = o.m /\ n.x = o.x
    BY <1>2, <2>1 DEF Operation
  <2>5. Sound(n) /\ About(n, conv', msgs')
    BY <1>1, <1>2, <2>2, <2>4 DEF Sound, About
  <2>6. Gains
    BY <1>2, <2>2, ChatTyped DEF Gains
  <2>7. \A m : Sending(op[r], m) => Sending(n, m)
    BY <1>1, <2>4 DEF Sending
  <2>8. Become(r, n)
    BY <1>2, <1>7, <2>1
  <2> QED
    BY <1>3, <1>4, <2>2, <2>3, <2>5, <2>6, <2>7, <2>8, StepSound
<1>8. CASE Other(o.u) \in joined \ inbox
  <2>1. PICK n : n = [o EXCEPT !.at = "sender"]
    OBVIOUS
  <2>2. /\ msgs' \in Seq(Message) /\ DOMAIN msgs' = DOMAIN msgs
        /\ \A m \in DOMAIN msgs : /\ msgs'[m].from = msgs[m].from
                                  /\ m # o.m => msgs'[m] = msgs[m]
        /\ msgs'[o.m].told = "live"
    <3>1. msgs' = [msgs EXCEPT ![o.m].told = "live"]
      BY <1>2, <1>8
    <3> QED
      BY <1>2, <1>5, <3>1, ToldSet
  <2>3. n \in Operation
    BY <2>1 DEF Operation, Steps
  <2>4. n.at = "sender" /\ n.kind = "send" /\ n.u = o.u /\ n.m = o.m /\ n.x = o.x
    BY <1>2, <2>1 DEF Operation
  <2>5. Sound(n) /\ About(n, conv', msgs')
    BY <1>1, <1>2, <2>2, <2>4 DEF Sound, About
  <2>6. Gains
    BY <1>2, <2>2, ChatTyped DEF Gains
  <2>7. \A m \in DOMAIN msgs' : msgs'[m].told = "no" =>
          m \in DOMAIN msgs /\ msgs[m].told = "no" /\ ~Sending(op[r], m)
    BY <1>1, <2>2 DEF Sending
  <2>8. \A m \in DOMAIN msgs' : msgs'[m].told = "asked" =>
          m \in DOMAIN msgs /\ msgs[m].told = "asked"
    BY <2>2
  <2>9. Become(r, n)
    BY <1>2, <1>8, <2>1
  <2> QED
    BY <1>3, <1>4, <2>3, <2>5, <2>6, <2>7, <2>8, <2>9, StepSound
<1> QED
  BY <1>6, <1>7, <1>8

LEMMA NotifySound ==
  ASSUME ChatInv, NEW r \in Procs, NotifyRecipient(r), UNCHANGED scene
  PROVE  ChatInv'
<1>1. PICK o \in Operation : o = op[r] /\ Sound(o) /\ About(o, conv, msgs)
  BY SlotTyped
<1> DEFINE calls == ChatCalls(Other(o.u), o.u, o.m)
<1>2. /\ o.at = "sender" /\ o.u \in Participants /\ o.m \in DOMAIN msgs
      /\ msgs[o.m].from = o.u
      /\ pending' = pending \cup calls
      /\ msgs' = [msgs EXCEPT ![o.m].told = "asked"] /\ Become(r, Idle)
      /\ UNCHANGED <<scene, conv, follows, sockets, notices, fcmTokens, reg, dropped>>
  BY <1>1 DEF NotifyRecipient, Sound, About
<1>3. /\ Other(o.u) \in Users /\ o.u \in Users /\ Other(o.u) # o.u /\ o.m \in Nat
      /\ msgs \in Seq(Message) /\ msgs[o.m] \in Message
  BY <1>2, OtherIs, ChatTyped
<1>4. \A c \in calls : c \in Call /\ Proper(c) /\ c.ref = o.m /\ c.to = Other(o.u)
  BY <1>3, ChatProper
<1>5. calls # {}
  BY DEF ChatCalls
<1> HIDE DEF calls
<1>6. NSound'
  <2>1. NSound
    BY ChatTyped
  <2>2. \A c \in pending' : c \in Call /\ Proper(c)
    BY <1>2, <1>4, <2>1 DEF NSound, NotificationsTypeOK
  <2>3. (\A c \in pending : Proper(c))'
    BY <2>2
  <2>4. NotOfOneself'
    BY <1>2, <2>1 DEF NSound, NotOfOneself
  <2> QED
    BY <1>2, <2>1, <2>2, <2>3, <2>4 DEF NSound, NotificationsTypeOK
<1>7. KeepsAnnounced
  BY <1>2 DEF KeepsAnnounced, Announced
<1>8. Announced(o.m, o.u, notices', pending' \cup dropped')
  BY <1>2, <1>3, <1>4, <1>5 DEF Announced
<1>9. /\ msgs' \in Seq(Message) /\ DOMAIN msgs' = DOMAIN msgs
      /\ \A m \in DOMAIN msgs : /\ msgs'[m].from = msgs[m].from
                                /\ m # o.m => msgs'[m] = msgs[m]
      /\ msgs'[o.m].told = "asked"
  BY <1>2, <1>3, ToldSet
<1>10. Gains
  BY <1>2, <1>9, ChatTyped DEF Gains
<1>11. \A m \in DOMAIN msgs' : msgs'[m].told = "no" =>
         m \in DOMAIN msgs /\ msgs[m].told = "no" /\ ~Sending(op[r], m)
  BY <1>1, <1>9 DEF Sending
<1>12. \A m \in DOMAIN msgs' : msgs'[m].told = "asked" =>
         \/ m \in DOMAIN msgs /\ msgs[m].told = "asked"
         \/ Announced(m, msgs'[m].from, notices', pending' \cup dropped')
  BY <1>2, <1>8, <1>9
<1>13. UNCHANGED <<scene, follows, joined, inbox, known, throttle, shown>>
  BY <1>2 DEF sockets
<1> QED
  BY <1>2, <1>6, <1>7, <1>10, <1>11, <1>12, <1>13, IdleSound, StepSound

\* What a request is about stays there.
LEMMA AboutKept ==
  ASSUME NEW o, About(o, conv, msgs), Gains
  PROVE  About(o, conv', msgs')
  BY DEF About, Gains

\* A message rewritten, but for its sender and who was told.
LEMMA Rewritten ==
  ASSUME NEW ms \in Seq(Message), NEW m \in DOMAIN ms, NEW x \in Message,
         x.from = ms[m].from, x.told = ms[m].told,
         NEW ns, ns = [ms EXCEPT ![m] = x]
  PROVE  /\ ns \in Seq(Message) /\ DOMAIN ns = DOMAIN ms
         /\ \A k \in DOMAIN ms : ns[k].from = ms[k].from /\ ns[k].told = ms[k].told
<1>1. DOMAIN ms = 1..Len(ms)
  OBVIOUS
<1> QED
  BY <1>1

LEMMA Counted ==
  ASSUME NEW counts \in [Participants -> Nat], NEW u \in Participants
  PROVE  [counts EXCEPT ![u] = @ + 1] \in [Participants -> Nat]
  OBVIOUS

LEMMA MarkMessagesReadSound ==
  ASSUME ChatInv, NEW r \in Procs, NEW u \in Participants, NEW wanted \in SUBSET DOMAIN msgs,
         MarkMessagesRead(r, u, wanted), UNCHANGED scene
  PROVE  ChatInv'
<1> DEFINE ids == {m \in wanted \cap Visible(u) : msgs[m].from # u /\ msgs[m].readBy[u] = 0}
<1>1. PICK n : n = [Idle EXCEPT !.kind = "read", !.at = "mark", !.u = u, !.ids = ids,
                                !.left = {"message", "conversation"}]
  OBVIOUS
<1>2. Become(r, n) /\ Reads /\ op[r].at = "idle"
  BY <1>1 DEF MarkMessagesRead, Start, Reads
<1>3. ids \subseteq Nat
  BY ChatTyped
<1> HIDE DEF ids
<1>4. u \in Users /\ "read" \in Kinds /\ "mark" \in Steps
  BY OtherIs DEF Kinds, Steps
<1>5. n \in Operation
  BY <1>1, <1>3, <1>4, IdleSound DEF Operation
<1>6. n.kind = "read" /\ n.at = "mark" /\ n.u = u
  BY <1>1, IdleSound DEF Operation
<1>7. Sound(n) /\ About(n, conv, msgs)
  BY <1>6 DEF Sound, About
<1> QED
  BY <1>2, <1>5, <1>7, ReadSound

\* The end of one of two parallel calls.
LEMMA DoneSound ==
  ASSUME ChatInv, NEW r \in Procs, NEW call \in op[r].left, Done(r, call), Writes, Gains,
         op[r].at \in {"mark", "write"},
         \A m \in DOMAIN msgs' : m \in DOMAIN msgs /\ msgs'[m].told = msgs[m].told
  PROVE  ChatInv'
<1>1. PICK o \in Operation : o = op[r] /\ Sound(o) /\ About(o, conv, msgs)
  BY SlotTyped
<1>2. PICK n : Become(r, n) /\ n \in {Idle, [o EXCEPT !.left = @ \ {call}]}
  <2>1. Become(r, IF o.left = {call} THEN Idle ELSE [o EXCEPT !.left = @ \ {call}])
    BY <1>1 DEF Done
  <2> QED
    BY <2>1
<1>3. CASE n = Idle
  BY <1>1, <1>2, <1>3, IdleSound, WriteSound
<1>4. CASE n = [o EXCEPT !.left = @ \ {call}]
  <2>1. n \in Operation
    BY <1>4 DEF Operation
  <2>2. /\ n.at = o.at /\ n.kind = o.kind /\ n.u = o.u /\ n.x = o.x /\ n.m = o.m
        /\ n.was = o.was /\ n.again = o.again
    BY <1>4 DEF Operation
  <2>3. Sound(n)
    BY <1>1, <2>2 DEF Sound
  <2>4. About(n, conv', msgs')
    <3>1. About(o, conv', msgs')
      BY <1>1, AboutKept
    <3> QED
      BY <2>2, <3>1 DEF About
  <2> QED
    BY <1>1, <1>2, <2>1, <2>3, <2>4, WriteSound
<1> QED
  BY <1>2, <1>3, <1>4

LEMMA MarkMessagesSound ==
  ASSUME ChatInv, NEW r \in Procs, MarkMessages(r), UNCHANGED scene
  PROVE  ChatInv'
<1>1. PICK o \in Operation : o = op[r] /\ Sound(o) /\ About(o, conv, msgs)
  BY SlotTyped
<1>2. /\ o.at = "mark" /\ "message" \in o.left /\ Done(r, "message") /\ Writes
      /\ UNCHANGED conv /\ o.u \in Participants
      /\ msgs' = [m \in DOMAIN msgs |->
                    IF m \in o.ids THEN [msgs[m] EXCEPT !.readBy[o.u] = @ + 1] ELSE msgs[m]]
  BY <1>1 DEF MarkMessages, Calls, Writes, Sound
<1>3. ASSUME NEW x \in Message
      PROVE  LET y == [x EXCEPT !.readBy[o.u] = @ + 1] IN
             y \in Message /\ y.from = x.from /\ y.told = x.told
  <2>1. PICK f : f = [x.readBy EXCEPT ![o.u] = @ + 1]
    OBVIOUS
  <2>2. f \in [Participants -> Nat]
    <3>1. x.readBy \in [Participants -> Nat] /\ o.u \in Participants
      BY <1>2, <1>3 DEF Message
    <3> QED
      BY <2>1, <3>1, Counted
  <2>3. PICK y : y = [x EXCEPT !.readBy = f]
    OBVIOUS
  <2>4. y \in Message /\ y.from = x.from /\ y.told = x.told
    BY <1>3, <2>2, <2>3 DEF Message
  <2>5. [x EXCEPT !.readBy[o.u] = @ + 1] = y
    BY <2>1, <2>3
  <2> QED
    BY <2>4, <2>5
<1>4. ASSUME NEW m \in DOMAIN msgs
      PROVE  /\ msgs'[m] \in Message /\ msgs'[m].from = msgs[m].from
             /\ msgs'[m].told = msgs[m].told
  <2>1. msgs[m] \in Message
    BY ChatTyped
  <2>2. CASE m \in o.ids
    <3>1. msgs'[m] = [msgs[m] EXCEPT !.readBy[o.u] = @ + 1]
      BY <1>2, <2>2
    <3> QED
      BY <1>3, <2>1, <3>1
  <2>3. CASE m \notin o.ids
    BY <1>2, <2>1, <2>3
  <2> QED
    BY <2>2, <2>3
<1>5. DOMAIN msgs = 1..Len(msgs) /\ Len(msgs) \in Nat
  BY ChatTyped
<1>6. msgs' = [m \in 1..Len(msgs) |-> msgs'[m]] /\ DOMAIN msgs' = 1..Len(msgs)
  BY <1>2, <1>5
<1>7. msgs' \in Seq(Message)
  BY <1>4, <1>5, <1>6
<1>8. Gains
  BY <1>2, <1>4, <1>5, <1>6, <1>7, ChatTyped DEF Gains
<1> QED
  BY <1>1, <1>2, <1>4, <1>5, <1>6, <1>8, DoneSound

LEMMA ResetUnreadSound ==
  ASSUME ChatInv, NEW r \in Procs, ResetUnread(r), UNCHANGED scene
  PROVE  ChatInv' /\ op[r].kind = "read" /\ \A w \in Participants \ {op[r].u} : conv'.unread[w] = conv.unread[w]
<1>1. PICK o \in Operation : o = op[r] /\ Sound(o) /\ About(o, conv, msgs)
  BY SlotTyped
<1>2. /\ o.at = "mark" /\ o.kind = "read" /\ "conversation" \in o.left
      /\ Done(r, "conversation") /\ Writes
      /\ UNCHANGED msgs /\ o.u \in Participants
      /\ conv' = [conv EXCEPT !.unread[o.u] = 0]
  BY <1>1 DEF ResetUnread, Reset, Calls, Writes, Sound
<1>3. PICK f : f = [conv.unread EXCEPT ![o.u] = 0]
  OBVIOUS
<1>4. conv \in Conversation /\ conv.unread \in [Participants -> Nat] /\ Fresh(conv)
  BY ChatTyped DEF Conversation
<1>5. conv' = [conv EXCEPT !.unread = f]
  BY <1>2, <1>3
<1>6. f \in [Participants -> Nat] /\ \A w \in Participants : f[w] = 0 \/ f[w] = conv.unread[w]
  <2>1. \A w \in Participants : f[w] = IF w = o.u THEN 0 ELSE conv.unread[w]
    BY <1>3, <1>4
  <2>2. f = [w \in Participants |-> f[w]]
    BY <1>3, <1>4
  <2>3. \A w \in Participants : f[w] \in Nat
    BY <1>4, <2>1
  <2> QED
    BY <2>1, <2>2, <2>3
<1>7. /\ conv' \in Conversation /\ conv'.exists = conv.exists
      /\ conv'.deletedFor = conv.deletedFor /\ conv'.unread = f
  BY <1>4, <1>5, <1>6 DEF Conversation
<1>8. Fresh(conv')
  BY <1>4, <1>6, <1>7 DEF Fresh
<1>9. Gains
  BY <1>2, <1>7, <1>8, ChatTyped DEF Gains
<1>10. ChatInv'
  BY <1>1, <1>2, <1>9, DoneSound
<1> QED
  BY <1>1, <1>2, <1>3, <1>4, <1>7, <1>10

LEMMA DeleteMessageSound ==
  ASSUME ChatInv, NEW r \in Procs, NEW u \in Participants, NEW m \in DOMAIN msgs,
         NEW kind \in {"hide", "recall"}, DeleteMessage(r, u, m, kind), UNCHANGED scene
  PROVE  ChatInv'
<1>1. PICK n : n = [Idle EXCEPT !.kind = kind, !.at = "write", !.u = u, !.m = m]
  OBVIOUS
<1>2. Become(r, n) /\ Reads /\ op[r].at = "idle"
  BY <1>1 DEF DeleteMessage, Start, Reads
<1>3. u \in Users /\ kind \in Kinds /\ "write" \in Steps /\ m \in Nat
  BY OtherIs, ChatTyped DEF Kinds, Steps
<1>4. n \in Operation
  BY <1>1, <1>3, IdleSound DEF Operation
<1>5. n.kind = kind /\ n.at = "write" /\ n.u = u /\ n.m = m /\ n.left = {}
  BY <1>1, IdleSound DEF Operation
<1>6. Sound(n) /\ About(n, conv, msgs)
  BY <1>5 DEF Sound, About
<1> QED
  BY <1>2, <1>4, <1>6, ReadSound

LEMMA HideOrRecallSound ==
  ASSUME ChatInv, NEW r \in Procs, HideOrRecall(r), UNCHANGED scene
  PROVE  ChatInv'
<1>1. PICK o \in Operation : o = op[r] /\ Sound(o) /\ About(o, conv, msgs)
  BY SlotTyped
<1>2. /\ o.at = "write" /\ o.m \in DOMAIN msgs /\ Writes /\ UNCHANGED conv
      /\ o.u \in Participants /\ Become(r, Idle)
      /\ msgs' = IF o.kind = "hide"
                 THEN [msgs EXCEPT ![o.m].deletedFor = @ \cup {o.u}]
                 ELSE [msgs EXCEPT ![o.m].isDeleted = TRUE, ![o.m].text = Blank]
  BY <1>1 DEF HideOrRecall, Writes, Sound, About
<1>3. msgs \in Seq(Message) /\ msgs[o.m] \in Message
  BY <1>2, ChatTyped
<1>4. PICK x : /\ msgs' = [msgs EXCEPT ![o.m] = x] /\ x \in Message
               /\ x.from = msgs[o.m].from /\ x.told = msgs[o.m].told
  <2>1. CASE o.kind = "hide"
    <3>1. PICK x : x = [msgs[o.m] EXCEPT !.deletedFor = @ \cup {o.u}]
      OBVIOUS
    <3>2. x \in Message /\ x.from = msgs[o.m].from /\ x.told = msgs[o.m].told
      BY <1>2, <1>3, <3>1 DEF Message
    <3>3. msgs' = [msgs EXCEPT ![o.m] = x]
      BY <1>2, <2>1, <3>1
    <3> QED
      BY <3>2, <3>3
  <2>2. CASE o.kind # "hide"
    <3>1. PICK x : x = [msgs[o.m] EXCEPT !.isDeleted = TRUE, !.text = Blank]
      OBVIOUS
    <3>2. x \in Message /\ x.from = msgs[o.m].from /\ x.told = msgs[o.m].told
      BY <1>3, <3>1 DEF Message
    <3>3. msgs' = [msgs EXCEPT ![o.m] = x]
      BY <1>2, <1>3, <2>2, <3>1
    <3> QED
      BY <3>2, <3>3
  <2> QED
    BY <2>1, <2>2
<1>5. /\ msgs' \in Seq(Message) /\ DOMAIN msgs' = DOMAIN msgs
      /\ \A k \in DOMAIN msgs : msgs'[k].from = msgs[k].from /\ msgs'[k].told = msgs[k].told
  BY <1>2, <1>3, <1>4, Rewritten
<1>6. Gains
  BY <1>2, <1>5, ChatTyped DEF Gains
<1> QED
  BY <1>1, <1>2, <1>5, <1>6, IdleSound, WriteSound

LEMMA EditMessageSound ==
  ASSUME ChatInv, NEW r \in Procs, NEW u \in Participants, NEW m \in DOMAIN msgs,
         NEW x \in Texts, EditMessage(r, u, m, x), UNCHANGED scene
  PROVE  ChatInv'
<1>1. PICK n : n = [Idle EXCEPT !.kind = "edit", !.at = "write", !.u = u, !.m = m, !.x = x,
                                !.left = {"message", "conversation"}]
  OBVIOUS
<1>2. Become(r, n) /\ Reads /\ op[r].at = "idle"
  BY <1>1 DEF EditMessage, Start, Reads
<1>3. u \in Users /\ "edit" \in Kinds /\ "write" \in Steps /\ m \in Nat
  BY OtherIs, ChatTyped DEF Kinds, Steps
<1>4. n \in Operation
  BY <1>1, <1>3, IdleSound DEF Operation
<1>5. n.kind = "edit" /\ n.at = "write" /\ n.u = u /\ n.m = m /\ n.x = x
  BY <1>1, IdleSound DEF Operation
<1>6. Sound(n) /\ About(n, conv, msgs)
  BY <1>5 DEF Sound, About
<1> QED
  BY <1>2, <1>4, <1>6, ReadSound

LEMMA EditTextSound ==
  ASSUME ChatInv, NEW r \in Procs, EditText(r), UNCHANGED scene
  PROVE  ChatInv'
<1>1. PICK o \in Operation : o = op[r] /\ Sound(o) /\ About(o, conv, msgs)
  BY SlotTyped
<1>2. /\ o.at = "write" /\ "message" \in o.left /\ o.x \in Texts /\ o.m \in DOMAIN msgs
      /\ Done(r, "message") /\ Writes /\ UNCHANGED conv
      /\ msgs' = [msgs EXCEPT ![o.m].text = o.x]
  BY <1>1 DEF EditText, Calls, Writes, Sound, About
<1>3. msgs \in Seq(Message) /\ msgs[o.m] \in Message
  BY <1>2, ChatTyped
<1>4. PICK x : x = [msgs[o.m] EXCEPT !.text = o.x]
  OBVIOUS
<1>5. x \in Message /\ x.from = msgs[o.m].from /\ x.told = msgs[o.m].told
  BY <1>2, <1>3, <1>4 DEF Message
<1>6. msgs' = [msgs EXCEPT ![o.m] = x]
  BY <1>2, <1>4
<1>7. /\ msgs' \in Seq(Message) /\ DOMAIN msgs' = DOMAIN msgs
      /\ \A k \in DOMAIN msgs : msgs'[k].from = msgs[k].from /\ msgs'[k].told = msgs[k].told
  BY <1>2, <1>3, <1>5, <1>6, Rewritten
<1>8. Gains
  BY <1>2, <1>7, ChatTyped DEF Gains
<1> QED
  BY <1>1, <1>2, <1>7, <1>8, DoneSound

LEMMA EditPreviewSound ==
  ASSUME ChatInv, NEW r \in Procs, EditPreview(r), UNCHANGED scene
  PROVE  ChatInv' /\ conv'.unread = conv.unread
<1>1. PICK o \in Operation : o = op[r] /\ Sound(o) /\ About(o, conv, msgs)
  BY SlotTyped
<1>2. /\ o.at = "write" /\ "conversation" \in o.left /\ o.x \in Texts
      /\ Done(r, "conversation") /\ Writes /\ UNCHANGED msgs
      /\ conv' = [conv EXCEPT !.last.text = IF conv.last.m = o.m THEN o.x ELSE @]
  BY <1>1 DEF EditPreview, Calls, Writes, Sound
<1>3. conv \in Conversation /\ conv.last \in [m : Nat, text : Texts \cup {Blank}]
  BY ChatTyped DEF Conversation
<1>4. PICK t : t = IF conv.last.m = o.m THEN o.x ELSE conv.last.text
  OBVIOUS
<1>5. t \in Texts \cup {Blank}
  BY <1>2, <1>3, <1>4
<1>6. PICK l : l = [conv.last EXCEPT !.text = t]
  OBVIOUS
<1>7. l \in [m : Nat, text : Texts \cup {Blank}]
  BY <1>3, <1>5, <1>6
<1>8. conv' = [conv EXCEPT !.last = l]
  BY <1>2, <1>4, <1>6
<1>9. /\ conv' \in Conversation /\ conv'.exists = conv.exists
      /\ conv'.deletedFor = conv.deletedFor /\ conv'.unread = conv.unread
  BY <1>3, <1>7, <1>8 DEF Conversation
<1>10. Gains
  BY <1>2, <1>9, ChatTyped DEF Gains, Fresh
<1> QED
  BY <1>1, <1>2, <1>9, <1>10, DoneSound

LEMMA IndexOfIs ==
  ASSUME NEW reactions \in Seq(Reaction), NEW u
  PROVE  IndexOf(reactions, u) \in Nat
<1> DEFINE I == {i \in 1..Len(reactions) : reactions[i].by = u}
<1>1. IndexOf(reactions, u) = IF I # {} THEN Min(I) ELSE 0
  BY DEF IndexOf, SelectInSeq
<1>2. CASE I # {}
  <2>1. Len(reactions) \in Nat /\ I \in SUBSET (1..Len(reactions))
    OBVIOUS
  <2> HIDE DEF I
  <2>2. \E x \in I : \A y \in I : x <= y
    BY <1>2, <2>1, LeastExists
  <2>3. Min(I) \in I
    BY <2>2 DEF Min
  <2>4. I \subseteq Nat
    BY <2>1
  <2>5. IndexOf(reactions, u) = Min(I)
    BY <1>1, <1>2
  <2> QED
    BY <2>3, <2>4, <2>5
<1> QED
  BY <1>1, <1>2

LEMMA ReactToMessageSound ==
  ASSUME ChatInv, NEW r \in Procs, NEW u \in Participants, NEW m \in DOMAIN msgs,
         NEW emoji \in Emojis, ReactToMessage(r, u, m, emoji), UNCHANGED scene
  PROVE  ChatInv'
<1> DEFINE i == IndexOf(msgs[m].reactions, u)
           at == IF i = 0 THEN "push"
                 ELSE IF msgs[m].reactions[i].emoji = emoji THEN "pull" ELSE "set"
<1>1. PICK n : n = [Idle EXCEPT !.kind = "react", !.u = u, !.m = m, !.x = emoji, !.i = i,
                                !.at = at]
  OBVIOUS
<1>2. Become(r, n) /\ Reads /\ op[r].at = "idle"
  BY <1>1 DEF ReactToMessage, Start, Reads
<1>3. i \in Nat /\ at \in {"push", "pull", "set"}
  <2>1. msgs[m].reactions \in Seq(Reaction)
    BY ChatTyped DEF Message
  <2> QED
    BY <2>1, IndexOfIs
<1> HIDE DEF i, at
<1>4. u \in Users /\ "react" \in Kinds /\ at \in Steps /\ m \in Nat
  BY <1>3, OtherIs, ChatTyped DEF Kinds, Steps
<1>5. n \in Operation
  BY <1>1, <1>3, <1>4, IdleSound DEF Operation
<1>6. n.kind = "react" /\ n.at = at /\ n.u = u /\ n.m = m /\ n.x = emoji
  BY <1>1, IdleSound DEF Operation
<1>7. Sound(n) /\ About(n, conv, msgs)
  BY <1>3, <1>6 DEF Sound, About
<1> QED
  BY <1>2, <1>5, <1>7, ReadSound

\* An update in place, beyond the end too, leaves reactions.
LEMMA SetAtIs ==
  ASSUME NEW reactions \in Seq(Reaction), NEW i \in Nat, NEW emoji \in Emojis
  PROVE  SetAt(reactions, i, emoji) \in Seq(Reaction)
<1> DEFINE l == Len(reactions)
           n == IF i > l THEN i ELSE l
           e(k) == IF k = i THEN [by |-> IF i <= l THEN reactions[i].by ELSE Nobody,
                                  emoji |-> emoji]
                   ELSE IF k <= l THEN reactions[k] ELSE Hole
<1>1. l \in Nat /\ n \in Nat /\ \A k \in 1..l : reactions[k] \in Reaction
  OBVIOUS
<1>2. Hole \in Reaction
  BY DEF Hole, Reaction
<1>3. ASSUME NEW k \in 1..n PROVE e(k) \in Reaction
  <2>1. CASE k = i /\ i <= l
    BY <1>1, <2>1 DEF Reaction
  <2>2. CASE k = i /\ ~(i <= l)
    BY <2>2 DEF Reaction
  <2>3. CASE k # i
    BY <1>1, <1>2, <2>3
  <2> QED
    BY <2>1, <2>2, <2>3
<1>4. SetAt(reactions, i, emoji) = [k \in 1..n |-> e(k)]
  BY DEF SetAt
<1> HIDE DEF n, e
<1> QED
  BY <1>1, <1>3, <1>4

LEMMA WriteReactionSound ==
  ASSUME ChatInv, NEW r \in Procs, WriteReaction(r), UNCHANGED scene
  PROVE  ChatInv'
<1>1. PICK o \in Operation : o = op[r] /\ Sound(o) /\ About(o, conv, msgs)
  BY SlotTyped
<1>2. PICK now : now = msgs[o.m].reactions
  OBVIOUS
<1> DEFINE next == CASE o.at = "push" -> Append(now, [by |-> o.u, emoji |-> o.x])
                     [] o.at = "pull" -> Kept(now, {k \in DOMAIN now : now[k].by # o.u})
                     [] o.at = "set"  -> SetAt(now, o.i, o.x)
           fails == o.at = "set" /\ o.i <= Len(now) /\ now[o.i] = Hole
<1>3. /\ o.at \in {"push", "pull", "set"} /\ o.kind = "react" /\ o.x \in Emojis
      /\ o.m \in DOMAIN msgs /\ Writes /\ UNCHANGED conv
      /\ o.u \in Participants /\ Become(r, Idle)
      /\ msgs' = IF fails THEN msgs ELSE [msgs EXCEPT ![o.m].reactions = next]
  BY <1>1, <1>2 DEF WriteReaction, Writes, Sound, About
<1>4. msgs \in Seq(Message) /\ msgs[o.m] \in Message /\ now \in Seq(Reaction)
  BY <1>2, <1>3, ChatTyped DEF Message
<1>5. next \in Seq(Reaction)
  <2>1. CASE o.at = "push"
    <3>1. [by |-> o.u, emoji |-> o.x] \in Reaction
      BY <1>1, <1>3 DEF Reaction, Operation
    <3> QED
      BY <1>4, <2>1, <3>1
  <2>2. CASE o.at = "pull"
    <3>1. {k \in DOMAIN now : now[k].by # o.u} \in SUBSET (DOMAIN now)
      OBVIOUS
    <3>2. Kept(now, {k \in DOMAIN now : now[k].by # o.u}) \in Seq(Reaction)
      BY <1>4, <3>1, KeptElements
    <3> QED
      BY <2>2, <3>2
  <2>3. CASE o.at = "set"
    <3>1. SetAt(now, o.i, o.x) \in Seq(Reaction)
      BY <1>1, <1>3, <1>4, SetAtIs DEF Operation
    <3> QED
      BY <2>3, <3>1
  <2> QED
    BY <1>3, <2>1, <2>2, <2>3
<1> HIDE DEF next, fails
<1>6. PICK x : /\ msgs' = [msgs EXCEPT ![o.m] = x] /\ x \in Message
               /\ x.from = msgs[o.m].from /\ x.told = msgs[o.m].told
  <2>1. CASE fails
    <3>1. msgs = [msgs EXCEPT ![o.m] = msgs[o.m]]
      BY <1>3, <1>4
    <3> QED
      BY <1>3, <1>4, <2>1, <3>1
  <2>2. CASE ~fails
    <3>1. PICK x : x = [msgs[o.m] EXCEPT !.reactions = next]
      OBVIOUS
    <3>2. x \in Message /\ x.from = msgs[o.m].from /\ x.told = msgs[o.m].told
      BY <1>4, <1>5, <3>1 DEF Message
    <3>3. msgs' = [msgs EXCEPT ![o.m] = x]
      BY <1>3, <2>2, <3>1
    <3> QED
      BY <3>2, <3>3
  <2> QED
    BY <2>1, <2>2
<1>7. /\ msgs' \in Seq(Message) /\ DOMAIN msgs' = DOMAIN msgs
      /\ \A k \in DOMAIN msgs : msgs'[k].from = msgs[k].from /\ msgs'[k].told = msgs[k].told
  BY <1>3, <1>4, <1>6, Rewritten
<1>8. Gains
  BY <1>3, <1>7, ChatTyped DEF Gains
<1> QED
  BY <1>1, <1>3, <1>7, <1>8, IdleSound, WriteSound

-----------------------------------------------------------------------------
\* The steps of nobody's request.

\* The messages of the requests rs that end early.
LEMMA LoseSound ==
  ASSUME ChatInv, NEW rs \in SUBSET Procs, LoseMessages(rs)
  PROVE  /\ msgs' \in Seq(Message) /\ DOMAIN msgs' = DOMAIN msgs
         /\ \A m \in DOMAIN msgs :
              /\ msgs'[m].from = msgs[m].from
              /\ msgs'[m].told \in {msgs[m].told, "lost"}
              /\ msgs'[m].told = "no" => msgs[m].told = "no" /\ \A r \in rs : ~Sending(op[r], m)
<1>1. msgs' = [m \in DOMAIN msgs |->
                 IF m \in Lost(rs) /\ msgs[m].told = "no"
                 THEN [msgs[m] EXCEPT !.told = "lost"] ELSE msgs[m]]
  BY DEF LoseMessages
<1>2. \A x \in Message : LET y == [x EXCEPT !.told = "lost"] IN
        y \in Message /\ y.from = x.from /\ y.told = "lost"
  BY DEF Message
<1>3. ASSUME NEW m \in DOMAIN msgs
      PROVE  /\ msgs'[m] \in Message /\ msgs'[m].from = msgs[m].from
             /\ msgs'[m].told \in {msgs[m].told, "lost"}
             /\ msgs'[m].told = "no" => msgs[m].told = "no" /\ m \notin Lost(rs)
  <2>1. msgs[m] \in Message
    BY ChatTyped
  <2>2. CASE m \in Lost(rs) /\ msgs[m].told = "no"
    <3>1. msgs'[m] = [msgs[m] EXCEPT !.told = "lost"]
      BY <1>1, <2>2
    <3> QED
      BY <1>2, <2>1, <3>1
  <2>3. CASE ~(m \in Lost(rs) /\ msgs[m].told = "no")
    <3>1. msgs'[m] = msgs[m]
      BY <1>1, <2>3
    <3> QED
      BY <2>1, <2>3, <3>1
  <2> QED
    BY <2>2, <2>3
<1>4. DOMAIN msgs = 1..Len(msgs) /\ Len(msgs) \in Nat
  BY ChatTyped
<1>5. msgs' = [m \in 1..Len(msgs) |-> msgs'[m]] /\ DOMAIN msgs' = 1..Len(msgs)
  BY <1>1, <1>4
<1>6. msgs' \in Seq(Message)
  BY <1>3, <1>4, <1>5
<1>7. \A m, r : r \in rs /\ Sending(op[r], m) => m \in Lost(rs)
  BY ChatTyped DEF Sending, Sound, Lost
<1> QED
  BY <1>3, <1>4, <1>5, <1>6, <1>7

LEMMA FailSound ==
  ASSUME ChatInv, NEW r \in Procs, Fail(r), UNCHANGED scene
  PROVE  ChatInv'
<1>1. LoseMessages({r}) /\ Become(r, Idle) /\ UNCHANGED conv /\ Writes
  BY DEF Fail, Writes
<1>2. /\ msgs' \in Seq(Message) /\ DOMAIN msgs' = DOMAIN msgs
      /\ \A m \in DOMAIN msgs :
           /\ msgs'[m].from = msgs[m].from
           /\ msgs'[m].told \in {msgs[m].told, "lost"}
           /\ msgs'[m].told = "no" => msgs[m].told = "no" /\ ~Sending(op[r], m)
  <2>1. {r} \in SUBSET Procs
    OBVIOUS
  <2> QED
    BY <1>1, <2>1, LoseSound
<1>3. Gains
  BY <1>1, <1>2, ChatTyped DEF Gains
<1>4. NSound' /\ KeepsAnnounced
  BY <1>1, ChatTyped, NotificationsQuiet DEF Writes
<1>5. UNCHANGED <<scene, follows, joined, inbox, known, throttle, shown>>
  BY <1>1 DEF Writes, sockets
<1>6. \A m \in DOMAIN msgs' : msgs'[m].told = "asked" => m \in DOMAIN msgs /\ msgs[m].told = "asked"
  BY <1>2
<1>7. \A m \in DOMAIN msgs' : msgs'[m].told = "no" =>
        m \in DOMAIN msgs /\ msgs[m].told = "no" /\ ~Sending(op[r], m)
  BY <1>2
<1> QED
  BY <1>1, <1>3, <1>4, <1>5, <1>6, <1>7, IdleSound, StepSound

LEMMA CrashSound ==
  ASSUME ChatInv, Crash, UNCHANGED scene
  PROVE  ChatInv'
<1>1. /\ LoseMessages(Procs) /\ op' = [r \in Procs |-> Idle]
      /\ joined' = {} /\ inbox' = {} /\ known' = {} /\ throttle' = {} /\ shown' = {}
      /\ CrashNotifications /\ UNCHANGED <<conv, follows>>
  BY DEF Crash
<1>2. /\ msgs' \in Seq(Message) /\ DOMAIN msgs' = DOMAIN msgs
      /\ \A m \in DOMAIN msgs :
           /\ msgs'[m].from = msgs[m].from
           /\ msgs'[m].told \in {msgs[m].told, "lost"}
           /\ msgs'[m].told = "no" => msgs[m].told = "no" /\ \A r \in Procs : ~Sending(op[r], m)
  BY <1>1, LoseSound
<1>3. NSound' /\ KeepsAnnounced
  BY <1>1, ChatTyped, CrashNotificationsSound
<1>4. (\A r \in Procs : Sound(op[r]) /\ About(op[r], conv, msgs))'
  BY <1>1, IdleSound
<1>5. TypeOK'
  BY <1>1, <1>2, <1>3, ChatTyped, IdleSound DEF TypeOK, NSound
<1>6. ASSUME NEW m \in DOMAIN msgs' PROVE msgs'[m].told # "no"
  <2>1. SUFFICES ASSUME msgs'[m].told = "no" PROVE FALSE
    OBVIOUS
  <2>2. m \in DOMAIN msgs /\ msgs[m].told = "no" /\ \A r \in Procs : ~Sending(op[r], m)
    BY <1>2, <2>1
  <2>3. PICK r \in Procs : op[r].at \in {"publish", "emit", "sender"} /\ op[r].m = m
    BY <2>2 DEF ChatInv, ReachesRecipient
  <2> QED
    BY <2>2, <2>3 DEF Sending
<1>7. ASSUME NEW m \in DOMAIN msgs', msgs'[m].told = "asked"
      PROVE  Announced(m, msgs'[m].from, notices', pending' \cup dropped')
  <2>1. m \in DOMAIN msgs /\ msgs[m].told = "asked" /\ msgs'[m].from = msgs[m].from
    BY <1>2, <1>7
  <2>2. Announced(m, msgs[m].from, notices, pending \cup dropped)
    BY <2>1 DEF ChatInv, ReachesRecipient, Announced
  <2>3. m \in Nat \ {0} /\ msgs[m].from \in Users
    BY <2>1, ChatTyped, ChatAssumption DEF Message
  <2> QED
    BY <1>3, <2>1, <2>2, <2>3 DEF KeepsAnnounced
<1>8. ReachesRecipient'
  BY <1>6, <1>7 DEF ReachesRecipient, Announced
<1> QED
  BY <1>1, <1>3, <1>4, <1>5, <1>8, ChatTyped DEF ChatInv, NSound, Fresh

\* A step of the sockets, of the follows or of the notifications.
LEMMA QuietSound ==
  ASSUME ChatInv, UNCHANGED <<conv, msgs, op, scene>>, NSound', KeepsAnnounced,
         follows' \subseteq Participants, joined' \subseteq Participants,
         inbox' \subseteq Participants,
         known' \subseteq Participants, throttle' \subseteq Participants,
         shown' \subseteq Participants
  PROVE  ChatInv'
<1>1. TypeOK'
  BY ChatTyped DEF TypeOK, NSound
<1>2. (\A r \in Procs : Sound(op[r]) /\ About(op[r], conv, msgs))'
  BY ChatTyped
<1>3. ASSUME NEW m \in DOMAIN msgs, msgs[m].told = "asked"
      PROVE  Announced(m, msgs[m].from, notices', pending' \cup dropped')
  <2>1. Announced(m, msgs[m].from, notices, pending \cup dropped)
    BY <1>3 DEF ChatInv, ReachesRecipient, Announced
  <2>2. m \in Nat \ {0} /\ msgs[m].from \in Users
    BY <1>3, ChatTyped, ChatAssumption DEF Message
  <2> QED
    BY <2>1, <2>2 DEF KeepsAnnounced
<1>4. \A m \in DOMAIN msgs : msgs[m].told = "no" =>
        \E r \in Procs : op[r].at \in {"publish", "emit", "sender"} /\ op[r].m = m
  BY DEF ChatInv, ReachesRecipient
<1>5. ReachesRecipient'
  BY <1>3, <1>4 DEF ReachesRecipient, Announced
<1> QED
  BY <1>1, <1>2, <1>5, ChatTyped DEF ChatInv, NSound, Fresh

LEMMA SocketSound ==
  ASSUME ChatInv, NEW u \in Participants, Socket(u) \/ ToggleFollow(u), UNCHANGED scene
  PROVE  ChatInv' /\ UNCHANGED conv
<1>1. UNCHANGED <<conv, msgs, op, scene, notificationVars>>
  BY DEF Socket, JoinRoom, HandleJoin, HandleLeave, LeaveInbox, Disconnect, TwoSecondsPass, HandleTyping,
         BroadcastTyping, ToggleFollow
<1>2. /\ follows' \subseteq Participants /\ joined' \subseteq Participants
      /\ inbox' \subseteq Participants
      /\ known' \subseteq Participants /\ throttle' \subseteq Participants
      /\ shown' \subseteq Participants
  BY ChatTyped
  DEF Socket, JoinRoom, HandleJoin, HandleLeave, LeaveInbox, Disconnect, TwoSecondsPass, HandleTyping,
      BroadcastTyping, ToggleFollow, Show, sockets
<1>3. NSound' /\ KeepsAnnounced
  BY <1>1, ChatTyped, NotificationsQuiet
<1> QED
  BY <1>1, <1>2, <1>3, QuietSound

LEMMA StutterSound ==
  ASSUME ChatInv, UNCHANGED vars
  PROVE  ChatInv'
<1>1. UNCHANGED <<conv, msgs, op, scene, notificationVars, follows, joined, inbox, known, throttle, shown>>
  BY DEF vars, chatVars
<1>2. NSound' /\ KeepsAnnounced
  BY <1>1, ChatTyped, NotificationsQuiet
<1> QED
  BY <1>1, <1>2, ChatTyped, QuietSound

LEMMA NotificationsStepSound ==
  ASSUME ChatInv, NextNotifications, UNCHANGED chatVars, UNCHANGED scene
  PROVE  ChatInv'
<1>1. UNCHANGED <<conv, msgs, op, scene, follows, joined, inbox, known, throttle, shown>>
  BY DEF chatVars
<1>2. NSound' /\ KeepsAnnounced
  BY ChatTyped, NotificationsSound
<1> QED
  BY <1>1, <1>2, ChatTyped, QuietSound

\* Who removes the conversation is remembered by the requests that open it for them.
LEMMA DeleteConversationSound ==
  ASSUME ChatInv, NEW u \in Participants, DeleteConversation(u), UNCHANGED scene
  PROVE  ChatInv' /\ conv'.unread = conv.unread
<1>1. /\ conv.exists /\ conv' = [conv EXCEPT !.deletedFor = @ \cup {u}]
      /\ op' = [r \in Procs |-> [op[r] EXCEPT !.again = @ \/ (op[r].kind = "open" /\ op[r].u = u)]]
      /\ UNCHANGED <<msgs, follows, joined, inbox, known, throttle, shown, notificationVars>>
  BY DEF DeleteConversation, sockets
<1>2. /\ conv' \in Conversation /\ conv'.exists /\ conv'.deletedFor = conv.deletedFor \cup {u}
      /\ conv'.unread = conv.unread
  BY <1>1, ChatTyped DEF Conversation
<1>3. ASSUME NEW o \in Operation
      PROVE  LET b == o.again \/ (o.kind = "open" /\ o.u = u)
                 n == [o EXCEPT !.again = @ \/ (o.kind = "open" /\ o.u = u)] IN
             /\ n \in Operation /\ n.at = o.at /\ n.kind = o.kind /\ n.u = o.u /\ n.x = o.x
             /\ n.m = o.m /\ n.was = o.was /\ n.left = o.left
             /\ (o.again \/ (o.kind = "open" /\ o.u = u)) => n.again
  <2>1. PICK b \in BOOLEAN : b = (o.again \/ (o.kind = "open" /\ o.u = u))
    OBVIOUS
  <2>2. PICK n : n = [o EXCEPT !.again = b]
    OBVIOUS
  <2>3. /\ n \in Operation /\ n.at = o.at /\ n.kind = o.kind /\ n.u = o.u /\ n.x = o.x
        /\ n.m = o.m /\ n.was = o.was /\ n.left = o.left /\ n.again = b
    BY <2>1, <2>2 DEF Operation
  <2>4. [o EXCEPT !.again = @ \/ (o.kind = "open" /\ o.u = u)] = n
    BY <2>1, <2>2
  <2> QED
    BY <2>1, <2>3, <2>4
<1>4. ASSUME NEW r \in Procs
      PROVE  /\ op'[r] \in Operation /\ Sound(op'[r]) /\ About(op'[r], conv', msgs')
             /\ op'[r].at = op[r].at /\ op'[r].m = op[r].m
  <2>1. PICK o \in Operation : o = op[r] /\ Sound(o) /\ About(o, conv, msgs)
    BY ChatTyped
  <2>2. PICK n : n = op'[r]
    OBVIOUS
  <2>3. n = [o EXCEPT !.again = @ \/ (o.kind = "open" /\ o.u = u)]
    BY <1>1, <2>1, <2>2
  <2>4. /\ n \in Operation /\ n.at = o.at /\ n.kind = o.kind /\ n.u = o.u /\ n.x = o.x
        /\ n.m = o.m /\ n.was = o.was /\ n.left = o.left
        /\ (o.again \/ (o.kind = "open" /\ o.u = u)) => n.again
    BY <1>3, <2>3
  <2>5. Sound(n)
    BY <2>1, <2>4 DEF Sound
  <2>6. About(n, conv', msgs')
    BY <1>1, <1>2, <2>1, <2>4 DEF About, Sound
  <2> QED
    BY <2>1, <2>2, <2>4, <2>5, <2>6
<1>5. (\A r \in Procs : Sound(op[r]) /\ About(op[r], conv, msgs))'
  BY <1>4
<1>6. op' \in [Procs -> Operation]
  <2>1. op' = [r \in Procs |-> op'[r]]
    BY <1>1
  <2> QED
    BY <1>4, <2>1
<1>7. NSound'
  BY <1>1, ChatTyped, NotificationsQuiet
<1>8. TypeOK'
  BY <1>1, <1>2, <1>6, <1>7, ChatTyped DEF TypeOK, NSound
<1>9. \A m \in DOMAIN msgs : msgs[m].told = "no" =>
        \E r \in Procs : op[r].at \in {"publish", "emit", "sender"} /\ op[r].m = m
  BY DEF ChatInv, ReachesRecipient
<1>10. \A m \in DOMAIN msgs : msgs[m].told = "asked" => Announced(m, msgs[m].from, notices, pending \cup dropped)
  BY DEF ChatInv, ReachesRecipient, Announced
<1>11. UNCHANGED <<notices, pending, dropped>>
  BY <1>1 DEF notificationVars
<1>12. ReachesRecipient'
  <2>1. ASSUME NEW m \in DOMAIN msgs, msgs[m].told = "no"
        PROVE  \E r \in Procs : op'[r].at \in {"publish", "emit", "sender"} /\ op'[r].m = m
    BY <1>4, <1>9, <2>1
  <2>2. \A m \in DOMAIN msgs : msgs[m].told = "asked" =>
          Announced(m, msgs[m].from, notices', pending' \cup dropped')
    BY <1>10, <1>11
  <2> QED
    BY <1>1, <2>1, <2>2 DEF ReachesRecipient, Announced
<1> QED
  BY <1>2, <1>5, <1>7, <1>8, <1>12, ChatTyped DEF ChatInv, NSound, Fresh

-----------------------------------------------------------------------------
\* The theorems.

LEMMA RequestSound ==
  ASSUME ChatInv, NEW r \in Procs, Request(r), UNCHANGED scene
  PROVE  ChatInv' /\ UNCHANGED conv
<1>1. PICK u \in Participants :
        \/ StartConversation(r, u)
        \/ \E draft \in scene.drafts : SendMessage(r, u, draft)
        \/ \E wanted \in SUBSET DOMAIN msgs : MarkMessagesRead(r, u, wanted)
        \/ \E m \in DOMAIN msgs :
             \/ \E kind \in {"hide", "recall"} : DeleteMessage(r, u, m, kind)
             \/ \E x \in Texts : EditMessage(r, u, m, x)
             \/ \E emoji \in Emojis : ReactToMessage(r, u, m, emoji)
  BY DEF Request
<1>2. CASE StartConversation(r, u)
  BY <1>2, StartSound DEF StartConversation
<1>3. ASSUME NEW draft \in scene.drafts, SendMessage(r, u, draft)
      PROVE  ChatInv' /\ UNCHANGED conv
  <2>1. draft \in Draft
    BY ChatTyped, ChatAssumption
  <2> QED
    BY <1>3, <2>1, SendSound DEF SendMessage
<1>4. ASSUME NEW wanted \in SUBSET DOMAIN msgs, MarkMessagesRead(r, u, wanted)
      PROVE  ChatInv' /\ UNCHANGED conv
  BY <1>4, MarkMessagesReadSound DEF MarkMessagesRead
<1>5. ASSUME NEW m \in DOMAIN msgs, NEW kind \in {"hide", "recall"}, DeleteMessage(r, u, m, kind)
      PROVE  ChatInv' /\ UNCHANGED conv
  BY <1>5, DeleteMessageSound DEF DeleteMessage
<1>6. ASSUME NEW m \in DOMAIN msgs, NEW x \in Texts, EditMessage(r, u, m, x)
      PROVE  ChatInv' /\ UNCHANGED conv
  BY <1>6, EditMessageSound DEF EditMessage
<1>7. ASSUME NEW m \in DOMAIN msgs, NEW emoji \in Emojis, ReactToMessage(r, u, m, emoji)
      PROVE  ChatInv' /\ UNCHANGED conv
  BY <1>7, ReactToMessageSound DEF ReactToMessage
<1> QED
  BY <1>1, <1>2, <1>3, <1>4, <1>5, <1>6, <1>7

LEMMA RequestStepSound ==
  ASSUME ChatInv, NEW r \in Procs, Step(r), UNCHANGED scene
  PROVE  ChatInv'
<1>1. CASE \E side \in {"mine", "theirs"} : ReadFollow(r, side)
  BY <1>1, FollowSound
<1>2. CASE FindBefore(r) \/ UpsertConversation(r) \/ RestoreConversation(r)
  BY <1>2, BeforeSound, UpsertSound, RestoreSound
<1>3. CASE CreateMessage(r) \/ PublishMessage(r) \/ EmitMessage(r) \/ NotifyRecipient(r)
  BY <1>3, CreateMessageSound, PublishSound, EmitSound, NotifySound
<1>4. CASE MarkMessages(r) \/ ResetUnread(r)
  BY <1>4, MarkMessagesSound, ResetUnreadSound
<1>5. CASE HideOrRecall(r) \/ EditText(r) \/ EditPreview(r) \/ WriteReaction(r)
  BY <1>5, HideOrRecallSound, EditTextSound, EditPreviewSound, WriteReactionSound
<1> QED
  BY <1>1, <1>2, <1>3, <1>4, <1>5 DEF Step

LEMMA NextSound ==
  ASSUME ChatInv, [Next]_vars
  PROVE  ChatInv'
<1>1. CASE UNCHANGED vars
  BY <1>1, StutterSound
<1>2. CASE Next
  <2>1. UNCHANGED scene
    BY <1>2 DEF Next
  <2>2. ASSUME NEW r \in Procs, Request(r) \/ Step(r) \/ Fail(r) PROVE ChatInv'
    BY <2>1, <2>2, RequestSound, RequestStepSound, FailSound
  <2>3. ASSUME NEW u \in Participants, DeleteConversation(u) \/ Socket(u) \/ ToggleFollow(u)
        PROVE  ChatInv'
    BY <2>1, <2>3, DeleteConversationSound, SocketSound
  <2>4. CASE Crash
    BY <2>1, <2>4, CrashSound
  <2>5. CASE AtRest
    BY <2>5, StutterSound DEF AtRest
  <2>6. CASE NextNotifications /\ UNCHANGED chatVars
    BY <2>1, <2>6, NotificationsStepSound
  <2> QED
    BY <1>2, <2>2, <2>3, <2>4, <2>5, <2>6 DEF Next
<1> QED
  BY <1>1, <1>2

\* The inductive invariant holds in every reachable state.
THEOREM ChatInductive == Spec => []ChatInv
<1>1. Init => ChatInv
  BY InitChat
<1>2. ChatInv /\ [Next]_vars => ChatInv'
  BY NextSound
<1> QED
  BY <1>1, <1>2, PTL DEF Spec

\* The documents of ChatSystem and NotificationSystem and the requests in flight keep
\* the shapes of their models (conversation.model.ts, message.model.ts,
\* notification.model.ts).
THEOREM ChatTypes == Spec => []TypeOK
<1>1. ChatInv => TypeOK
  BY DEF ChatInv
<1> QED
  BY <1>1, ChatInductive, PTL

\* However requests, sockets and crashes interleave, no message falls between the room
\* and the notification (chat.service.ts:344-376).
THEOREM EveryMessageTold == Spec => []ReachesRecipient
<1>1. ChatInv => ReachesRecipient
  BY DEF ChatInv
<1> QED
  BY <1>1, ChatInductive, PTL

\* Nobody is told of a cancellation, a like, a comment or a message of their own
\* (notification.service.ts:124 and 222-245).
THEOREM NobodyToldOfOneself == Spec => []NotOfOneself
<1>1. ChatInv => NotOfOneself
  BY DEF ChatInv
<1> QED
  BY <1>1, ChatInductive, PTL

\* Only UpsertConversation, PublishMessage and ResetUnread touch the counts.
LEMMA UnreadKept ==
  ASSUME ChatInv, Next, NEW u \in Participants, conv'.unread[u] < conv.unread[u]
  PROVE  \E r \in Procs : op[r].kind = "read" /\ op[r].u = u
<1>1. UNCHANGED scene
  BY DEF Next
<1>2. conv \in Conversation /\ conv.unread[u] \in Nat
  BY ChatTyped DEF Conversation
<1>3. ~UNCHANGED conv /\ ~(conv'.unread[u] = conv.unread[u])
  BY <1>2
<1>4. PICK r \in Procs : Step(r) \/ Fail(r)
  <2>1. ASSUME NEW r \in Procs PROVE ~Request(r)
    BY <1>1, <1>3, RequestSound
  <2>2. ASSUME NEW w \in Participants
        PROVE  ~DeleteConversation(w) /\ ~Socket(w) /\ ~ToggleFollow(w)
    BY <1>1, <1>3, DeleteConversationSound, SocketSound
  <2>3. ~Crash /\ ~AtRest /\ ~(NextNotifications /\ UNCHANGED chatVars)
    BY <1>3 DEF Crash, AtRest, vars, chatVars
  <2> QED
    BY <2>1, <2>2, <2>3 DEF Next
<1>5. ~Fail(r) /\ ~(\E side \in {"mine", "theirs"} : ReadFollow(r, side)) /\ ~FindBefore(r)
  BY <1>3 DEF Fail, ReadFollow, FindBefore
<1>6. ~CreateMessage(r) /\ ~EmitMessage(r) /\ ~NotifyRecipient(r) /\ ~MarkMessages(r)
  BY <1>3 DEF CreateMessage, EmitMessage, NotifyRecipient, MarkMessages
<1>7. ~HideOrRecall(r) /\ ~EditText(r) /\ ~WriteReaction(r)
  BY <1>3 DEF HideOrRecall, EditText, WriteReaction
<1>8. ~EditPreview(r)
  BY <1>1, <1>3, EditPreviewSound
<1>9. ~UpsertConversation(r)
  BY <1>3, UpsertedIs DEF UpsertConversation
<1>10. ~RestoreConversation(r)
  <2>1. SUFFICES ASSUME RestoreConversation(r) PROVE FALSE
    OBVIOUS
  <2>2. conv' = [conv EXCEPT !.deletedFor = @ \ {op[r].u}]
    BY <2>1 DEF RestoreConversation
  <2> QED
    BY <1>2, <1>3, <2>2 DEF Conversation
<1>11. ~PublishMessage(r)
  <2>1. SUFFICES ASSUME PublishMessage(r) PROVE FALSE
    OBVIOUS
  <2>2. conv'.unread[u] >= conv.unread[u] /\ ChatInv'
    BY <1>1, <2>1, PublishSound
  <2>3. conv'.unread[u] \in Nat
    <3>1. conv' \in Conversation
      BY <2>2 DEF ChatInv, TypeOK
    <3> QED
      BY <3>1 DEF Conversation
  <2> QED
    BY <1>2, <2>2, <2>3
<1>12. ResetUnread(r)
  BY <1>4, <1>5, <1>6, <1>7, <1>8, <1>9, <1>10, <1>11 DEF Step
<1> QED
  BY <1>1, <1>3, <1>12, ResetUnreadSound

\* An unread count goes down only through a read request of that user
\* (chat.service.ts:167-182).
THEOREM ReadingClears == Spec => OnlyReadingClears
<1>1. ChatInv /\ [Next]_vars =>
        [\A u \in Participants :
           conv'.unread[u] < conv.unread[u] =>
             \E r \in Procs : op[r].kind = "read" /\ op[r].u = u]_conv
  BY UnreadKept DEF vars, chatVars
<1> QED
  BY <1>1, ChatInductive, PTL DEF Spec, OnlyReadingClears

\* A conversation opened with success is in the list of its requester
\* (chat.service.ts:186-189).
THEOREM OpenShows == Spec => OpenedIsShown
<1>1. ASSUME ChatInv, Next, NEW r \in Procs,
             UpsertConversation(r) \/ RestoreConversation(r), op'[r].at = "idle"
      PROVE  op[r].again \/ (conv'.exists /\ op[r].u \notin conv'.deletedFor)
  <2>1. UNCHANGED scene
    BY <1>1 DEF Next
  <2> QED
    BY <1>1, <2>1, UpsertSound, RestoreSound
<1>2. ChatInv /\ [Next]_vars =>
        [\A r \in Procs :
           LET o == op[r] IN
           (UpsertConversation(r) \/ RestoreConversation(r)) /\ op'[r].at = "idle" =>
             o.again \/ (conv'.exists /\ o.u \notin conv'.deletedFor)]_vars
  BY <1>1
<1> QED
  BY <1>2, ChatInductive, PTL DEF Spec, OpenedIsShown

LEMMA TokenLeaves ==
  ASSUME NSound, NextNotifications, NEW u \in Users, NEW x \in fcmTokens[u] \ fcmTokens'[u]
  PROVE  \/ \E s \in Slots : reg[s].at = "pull" /\ reg[s].u = u /\ reg[s].device = x.device
         \/ UnregisterToken(u, x.device)
         \/ \E n \in DOMAIN notices :
              notices[n].to = u /\ notices[n].push = "answered" /\ x.token \in notices[n].invalid
<1>1. fcmTokens \in [Users -> SUBSET Entry] /\ ~UNCHANGED fcmTokens
  BY DEF NSound, NotificationsTypeOK
<1>2. CASE \E i \in DOMAIN notices : PruneInvalidTokens(i)
  BY <1>1, <1>2 DEF PruneInvalidTokens, WithoutInvalid
<1>3. CASE \E s \in Slots : PullDevice(s)
  BY <1>1, <1>3 DEF PullDevice, WithoutDevice
<1>4. ASSUME NEW s \in Slots, PushToken(s) PROVE FALSE
  BY <1>1, <1>4 DEF PushToken
<1>5. ASSUME NEW w \in Users, NEW d \in Devices, UnregisterToken(w, d)
      PROVE  UnregisterToken(u, x.device)
  <2>1. fcmTokens' = [fcmTokens EXCEPT ![w] = WithoutDevice(@, d)]
    BY <1>5 DEF UnregisterToken
  <2>2. u = w /\ x.device = d
    BY <1>1, <2>1 DEF WithoutDevice
  <2> QED
    BY <1>5, <2>2
<1>6. ~(\E e \in Events : Announce(e)) /\ ~(\E c \in pending : Create(c) \/ CreateFails(c))
  BY <1>1 DEF Announce, Create, CreateFails
<1>7. ~(\E w \in Users, ids \in SUBSET (DOMAIN notices) \ {{}} :
          MarkAsRead(w, ids) \/ DeleteNotifications(w, ids))
  BY <1>1 DEF MarkAsRead, DeleteNotifications
<1>8. ~(\E i \in DOMAIN notices :
          Expire(i) \/ SendToUser(i) \/ \E bad \in SUBSET Tokens : SendMulticast(i, bad))
  BY <1>1 DEF Expire, SendToUser, SendMulticast
<1>9. ~(\E s \in Slots, w \in Users, token \in Tokens, d \in Devices : RegisterToken(s, w, token, d))
  BY <1>1 DEF RegisterToken
<1> QED
  BY <1>2, <1>3, <1>4, <1>5, <1>6, <1>7, <1>8, <1>9 DEF NextNotifications

\* A device loses its push token only when it registers again or unregisters, or when
\* FCM rejected that very token (push.service.ts:235-239).
THEOREM PruneOnlyInvalid == Spec => OnlyInvalidPruned
<1>1. ASSUME ChatInv, Next, NEW u \in Users, NEW x \in fcmTokens[u] \ fcmTokens'[u]
      PROVE  NextNotifications
  <2>1. ~UNCHANGED fcmTokens
    OBVIOUS
  <2>2. ~UNCHANGED notificationVars
    BY <2>1 DEF notificationVars
  <2>3. ASSUME NEW r \in Procs PROVE ~Request(r) /\ ~Fail(r)
    BY <2>2 DEF Request, StartConversation, SendMessage, MarkMessagesRead, DeleteMessage,
                EditMessage, ReactToMessage, Fail
  <2>4. ASSUME NEW r \in Procs PROVE ~Step(r)
    BY <2>1, <2>2 DEF Step, ReadFollow, FindBefore, UpsertConversation, RestoreConversation,
                CreateMessage, PublishMessage, EmitMessage, NotifyRecipient, MarkMessages,
                ResetUnread, HideOrRecall, EditText, EditPreview, WriteReaction
  <2>5. ASSUME NEW w \in Participants
        PROVE  ~DeleteConversation(w) /\ ~Socket(w) /\ ~ToggleFollow(w)
    BY <2>2 DEF DeleteConversation, Socket, JoinRoom, HandleJoin, HandleLeave, LeaveInbox, Disconnect,
                TwoSecondsPass, HandleTyping, BroadcastTyping, ToggleFollow
  <2>6. ~Crash /\ ~AtRest
    BY <2>1, <2>2 DEF Crash, CrashNotifications, AtRest, vars
  <2> QED
    BY <1>1, <2>3, <2>4, <2>5, <2>6 DEF Next
<1>2. ChatInv /\ [Next]_vars =>
        [\A u \in Users : \A x \in fcmTokens[u] \ fcmTokens'[u] :
           \/ \E s \in Slots : reg[s].at = "pull" /\ reg[s].u = u /\ reg[s].device = x.device
           \/ UnregisterToken(u, x.device)
           \/ \E n \in DOMAIN notices :
                notices[n].to = u /\ notices[n].push = "answered"
                /\ x.token \in notices[n].invalid]_notificationVars
  BY <1>1, ChatTyped, TokenLeaves DEF vars
<1> QED
  BY <1>2, ChatInductive, PTL DEF Spec, OnlyInvalidPruned
=============================================================================
