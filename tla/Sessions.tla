------------------------------- MODULE Sessions -------------------------------
(***************************************************************************)
(* AuthSystem: the sessions of one account, its password, the lock that    *)
(* failed logins set, the links that reset its password, and what          *)
(* administrators (AdminSystem) do to them.                                *)
(*                                                                         *)
(* A session is an element of user.refreshTokens, named by the jti of its  *)
(* refresh token; jtis are numbered in the order in which the sessions     *)
(* are created, so the smallest is the oldest.  generateRefreshToken reads *)
(* the list and later writes all of it back, whatever other requests have  *)
(* made of it in between.  A request reads the account once, at its start, *)
(* and goes on with what it read.  Hashes and signatures are left out.     *)
(***************************************************************************)
EXTENDS Integers, FiniteSets

CONSTANTS
  Devices,       \* the names devices send with a login
  Unnamed,       \* the name of a device that sent none
  Passwords,
  NoPassword,    \* the password of an account made by Google
  Requests,      \* requests that may be in flight together
  MaxSessions,   \* MAX_SESSIONS_PER_USER
  MaxFailed,     \* MAX_FAILED_LOGIN_ATTEMPTS
  Scenes         \* the requests of a behaviour (does) and its bounds: sessions,
                 \* failures (failed logins), seconds, links, changes (of password)

ASSUME SessionsAssumption ==
  /\ MaxSessions \in Nat \ {0} /\ MaxFailed \in Nat \ {0}
  /\ Unnamed \notin Devices /\ NoPassword \notin Passwords
  /\ \A s \in Scenes : {s.sessions, s.failures, s.seconds, s.links, s.changes} \subseteq Nat

Names == Devices \cup {Unnamed}

Session == [jti : Nat, name : Names, live : BOOLEAN]

Account ==
  [password : Passwords \cup {NoPassword}, blocked : BOOLEAN, failed : Nat,
   lock : {"none", "on", "over"},   \* lockUntil: null, ahead, past
   changedAt : Nat,                 \* passwordChangedAt in seconds, 0 for null
   sessions : SUBSET Session, online : BOOLEAN, devices : SUBSET Names,
   addressed : BOOLEAN]             \* email is the address that links is about

\* An access token carries the second of its signing; epoch is history: the
\* number of password changes before it.
AccessToken == [iat : Nat, epoch : Nat]

\* A password_reset token of one address, the one the account begins with.
Link == [n : Nat, live : BOOLEAN]

SessionKinds == {"none", "login", "oauth", "refresh", "logout", "change", "forgot", "reset", "verify"}
SessionSteps == {"idle", "failure", "counters", "sign", "create", "list", "store", "track",
                 "pull", "remaining", "untrack", "revoke", "owner", "password", "forget",
                 "link", "mail", "unsend", "discard"}

SessionRequest ==
  [kind : SessionKinds, at : SessionSteps, name : Names,
   jti : Nat,                    \* the session presented, then the one issued
   live : BOOLEAN,               \* the session presented had not expired
   loaded : SUBSET Session,      \* the sessions the request read at its start
   list : SUBSET Session,        \* the sessions it is about to write, or shows
   count : Nat,                  \* the failed logins it is about to write
   password : Passwords \cup {NoPassword},
   link : Nat]

NoSessionRequest ==
  [kind |-> "none", at |-> "idle", name |-> Unnamed, jti |-> 0, live |-> TRUE,
   loaded |-> {}, list |-> {}, count |-> 0, password |-> NoPassword, link |-> 0]

VARIABLES
  scene,     \* the requests of this behaviour
  account,   \* the user document
  jtis,      \* the sessions created so far
  handed,    \* the jtis of refresh tokens handed out
  issued,    \* the access tokens handed out
  links,     \* the reset links stored
  linkCount, \* the reset links made so far
  now,       \* the second
  req,       \* per slot, the request in flight
  changes,   \* history: the password changes
  ended,     \* history: sessions ended while no request was about to write them
  spent      \* history: links mailed, and links used, expired or superseded

sessionVars == <<account, jtis, handed, issued, links, linkCount, now, req,
                 changes, ended, spent>>

NewAccount(password) ==
  [password |-> password, blocked |-> FALSE, failed |-> 0, lock |-> "none",
   changedAt |-> 0, sessions |-> {}, online |-> FALSE, devices |-> {},
   addressed |-> TRUE]

SessionsInit ==
  /\ scene \in Scenes
  /\ account \in {NewAccount(p) : p \in Passwords \cup {NoPassword}}
  /\ jtis = 0 /\ handed = {} /\ issued = {} /\ links = {} /\ linkCount = 0
  /\ now = 1 /\ changes = 0 /\ ended = {}
  /\ spent = [mailed |-> {}, gone |-> {}]
  /\ req = [r \in Requests |-> NoSessionRequest]

-----------------------------------------------------------------------------
Go(r, q) == req' = [req EXCEPT ![r] = q]

Arrive(r, kind) == req[r].at = "idle" /\ kind \in scene.does

Jtis(ss) == {s.jti : s \in ss}

NamesOf(ss) == {s.name : s \in ss}

\* History: the sessions this step removes for good.
EndSessions(before, after) ==
  ended' = ended \cup
    {j \in Jtis(before) \ Jtis(after) :
       \A r \in Requests : req[r].at = "store" => j \notin Jtis(req[r].list)}

resets == <<links, linkCount, spent>>

\* Requests that may still create a session.
Issuing ==
  {r \in Requests : \/ req[r].at \in {"counters", "sign", "create"}
                    \/ req[r].at = "pull" /\ req[r].kind = "refresh"}

Room == jtis + Cardinality(Issuing) < scene.sessions   \* bound

\* createToken
Signed == issued' = issued \cup {[iat |-> now, epoch |-> changes]}

-----------------------------------------------------------------------------
\* login reads the account and refuses a blocked or locked one.  What the password
\* is compared with, and what the counter becomes, is what was read.
Login(r, password, name) ==
  LET matches == password = account.password
      clean   == account.failed = 0 /\ account.lock = "none"
  IN
  /\ Arrive(r, "login") /\ Room
  /\ account.password # NoPassword /\ ~account.blocked /\ account.lock # "on"
  /\ ~matches => account.failed < scene.failures   \* bound
  /\ Go(r, [NoSessionRequest EXCEPT !.kind = "login", !.name = name,
              !.loaded = account.sessions, !.count = account.failed + 1,
              !.at = IF ~matches THEN "failure" ELSE IF clean THEN "sign" ELSE "counters"])
  /\ UNCHANGED <<account, jtis, handed, issued, resets, now, changes, ended>>

RecordFailure(r) ==
  LET q == req[r] IN
  /\ q.at = "failure"
  /\ account' = [account EXCEPT !.failed = q.count,
                                !.lock = IF q.count >= MaxFailed THEN "on" ELSE @]
  /\ Go(r, NoSessionRequest)
  /\ UNCHANGED <<jtis, handed, issued, resets, now, changes, ended>>

ResetCounters(r) ==
  /\ req[r].at = "counters"
  /\ account' = [account EXCEPT !.failed = 0, !.lock = "none"]
  /\ Go(r, [req[r] EXCEPT !.at = "sign"])
  /\ UNCHANGED <<jtis, handed, issued, resets, now, changes, ended>>

\* generateTokensForOAuthUser, for the account the Google strategy found and linked.
OAuthLogin(r, name) ==
  /\ Arrive(r, "oauth") /\ Room
  /\ ~account.blocked
  /\ Go(r, [NoSessionRequest EXCEPT !.kind = "oauth", !.at = "sign", !.name = name,
                                    !.loaded = account.sessions])
  /\ UNCHANGED <<account, jtis, handed, issued, resets, now, changes, ended>>

\* The access token of a login is signed after the comparison, whatever the account
\* has become.
Sign(r) ==
  /\ req[r].at = "sign"
  /\ Signed
  /\ Go(r, [req[r] EXCEPT !.at = "create"])
  /\ UNCHANGED <<account, jtis, handed, resets, now, changes, ended>>

-----------------------------------------------------------------------------
Live(ss) == {s \in ss : s.live}

Oldest(ss) == CHOOSE s \in ss : \A t \in ss : s.jti <= t.jti

\* Mutant of Extended: one more than the limit.
ExtendedPastLimit(ss, new) ==
  (IF Cardinality(Live(ss)) > MaxSessions THEN Live(ss) \ {Oldest(Live(ss))} ELSE Live(ss))
  \cup {new}

\* generateRefreshToken: expired sessions go, and the oldest if there are too many.
Extended(ss, new) ==
  (IF Cardinality(Live(ss)) >= MaxSessions THEN Live(ss) \ {Oldest(Live(ss))} ELSE Live(ss))
  \cup {new}

\* Mutant of Current: the list read at the start of the request.
CurrentAtStart(q) == q.loaded

\* The list that the new session is added to: read again.
Current(q) == account.sessions

\* The new session is dated once its refresh token has been hashed.
CreateSession(r) ==
  /\ req[r].at = "create"
  /\ jtis' = jtis + 1
  /\ Go(r, [req[r] EXCEPT !.at = "list", !.jti = jtis + 1])
  /\ UNCHANGED <<account, handed, issued, resets, now, changes, ended>>

ListSessions(r) ==
  LET q == req[r] IN
  /\ q.at = "list"
  /\ Go(r, [q EXCEPT !.at = "store",
              !.list = Extended(Current(q), [jti |-> q.jti, name |-> q.name, live |-> TRUE])])
  /\ UNCHANGED <<account, jtis, handed, issued, resets, now, changes, ended>>

\* All of the list is written; a refresh signs its access token after that.
StoreSessions(r) ==
  LET q == req[r]
      refreshed == q.kind = "refresh"
  IN
  /\ q.at = "store"
  /\ account' = [account EXCEPT !.sessions = q.list]
  /\ EndSessions(account.sessions, q.list)
  /\ IF refreshed THEN Signed ELSE UNCHANGED issued
  /\ handed' = IF refreshed THEN handed \cup {q.jti} ELSE handed
  /\ Go(r, IF refreshed THEN NoSessionRequest ELSE [q EXCEPT !.at = "track"])
  /\ UNCHANGED <<jtis, resets, now, changes>>

\* updateSessionTrack, with the sessions read at the start.
UpdateSessionTrack(r) ==
  LET q == req[r] IN
  /\ q.at = "track"
  /\ account' = [account EXCEPT !.online = TRUE, !.devices = NamesOf(q.loaded)]
  /\ handed' = handed \cup {q.jti}
  /\ Go(r, NoSessionRequest)
  /\ UNCHANGED <<jtis, issued, resets, now, changes, ended>>

-----------------------------------------------------------------------------
\* refreshAccessToken: of a blocked account all sessions go; a session already
\* rotated is refused and nothing else changes.
RefreshAccessToken(r, j) ==
  LET q == [NoSessionRequest EXCEPT !.kind = "refresh", !.jti = j, !.loaded = account.sessions]
  IN
  /\ Arrive(r, "refresh") /\ Room
  /\ j \in handed /\ account.sessions # {}
  /\ \/ account.blocked /\ Go(r, [q EXCEPT !.at = "revoke"])
     \/ /\ ~account.blocked
        /\ \E s \in account.sessions :
             s.jti = j /\ Go(r, [q EXCEPT !.at = "pull", !.live = s.live])
  /\ UNCHANGED <<account, jtis, handed, issued, resets, now, changes, ended>>

WithoutJti(ss, j) == {s \in ss : s.jti # j}

PullSession(r) ==
  LET q == req[r]
      rest == WithoutJti(account.sessions, q.jti)
  IN
  /\ q.at = "pull"
  /\ account' = [account EXCEPT !.sessions = rest]
  /\ EndSessions(account.sessions, rest)
  /\ Go(r, IF q.kind = "refresh" /\ q.live THEN [q EXCEPT !.at = "create"]
           ELSE IF q.kind = "logout" THEN [q EXCEPT !.at = "remaining"]
           ELSE NoSessionRequest)
  /\ UNCHANGED <<jtis, handed, issued, resets, now, changes>>

Revoked(a) == [a EXCEPT !.sessions = {}, !.online = FALSE, !.devices = {}]

\* All sessions at once: a blocked refresh, a logout without a jti.
RevokeAll(r) ==
  /\ req[r].at = "revoke"
  /\ account' = Revoked(account)
  /\ EndSessions(account.sessions, {})
  /\ Go(r, NoSessionRequest)
  /\ UNCHANGED <<jtis, handed, issued, resets, now, changes>>

\* logout, with the jti of the cookie (0: none).
Logout(r, j) ==
  /\ Arrive(r, "logout")
  /\ j \in handed \cup {0}
  /\ Go(r, [NoSessionRequest EXCEPT !.kind = "logout", !.jti = j,
                                    !.at = IF j = 0 THEN "revoke" ELSE "pull"])
  /\ UNCHANGED <<account, jtis, handed, issued, resets, now, changes, ended>>

ReadRemaining(r) ==
  /\ req[r].at = "remaining"
  /\ Go(r, [req[r] EXCEPT !.at = "untrack", !.list = Live(account.sessions)])
  /\ UNCHANGED <<account, jtis, handed, issued, resets, now, changes, ended>>

TrackRemaining(r) ==
  LET rest == req[r].list IN
  /\ req[r].at = "untrack"
  /\ account' = [account EXCEPT !.online = rest # {}, !.devices = NamesOf(rest)]
  /\ Go(r, NoSessionRequest)
  /\ UNCHANGED <<jtis, handed, issued, resets, now, changes, ended>>

LogoutAllDevices ==
  /\ "logoutAll" \in scene.does
  /\ account' = Revoked(account)
  /\ EndSessions(account.sessions, {})
  /\ UNCHANGED <<jtis, handed, issued, resets, now, req, changes>>

\* clearUserSessions, by an administrator.
ClearUserSessions ==
  /\ "clear" \in scene.does
  /\ account' = Revoked(account)
  /\ EndSessions(account.sessions, {})
  /\ UNCHANGED <<jtis, handed, issued, resets, now, req, changes>>

-----------------------------------------------------------------------------
RoomForChange ==
  changes + Cardinality({r \in Requests : req[r].at \in {"owner", "password"}}) < scene.changes   \* bound

\* changePassword: an account made by Google gives no current password.
ChangePassword(r, current, new) ==
  /\ Arrive(r, "change") /\ RoomForChange
  /\ account.password # NoPassword => current = account.password /\ current # new
  /\ Go(r, [NoSessionRequest EXCEPT !.kind = "change", !.at = "password", !.password = new])
  /\ UNCHANGED <<account, jtis, handed, issued, resets, now, changes, ended>>

\* The update that changePassword and resetPassword end with.
SetPassword(r) ==
  LET q == req[r] IN
  /\ q.at = "password"
  /\ account' = [Revoked(account) EXCEPT !.password = q.password, !.failed = 0,
                                         !.lock = "none", !.changedAt = now]
  /\ EndSessions(account.sessions, {})
  /\ changes' = changes + 1
  /\ Go(r, IF q.kind = "reset" THEN [q EXCEPT !.at = "discard"] ELSE NoSessionRequest)
  /\ UNCHANGED <<jtis, handed, issued, resets, now>>

\* updateAgent: the lounge of an agent sets its password; the sessions stay.
SetAgentPassword(new) ==
  /\ "agent" \in scene.does /\ RoomForChange
  /\ account' = [account EXCEPT !.password = new, !.changedAt = now]
  /\ changes' = changes + 1
  /\ UNCHANGED <<jtis, handed, issued, resets, now, req, ended>>

\* resetUserPassword, by an administrator: the lock of failed logins stays.
ResetUserPassword(new) ==
  /\ "clear" \in scene.does /\ RoomForChange
  /\ account' = [Revoked(account) EXCEPT !.password = new, !.changedAt = now]
  /\ EndSessions(account.sessions, {})
  /\ changes' = changes + 1
  /\ UNCHANGED <<jtis, handed, issued, resets, now, req>>

\* updateUser gives the account another address, or its first one again.
ChangeAddress ==
  /\ "address" \in scene.does
  /\ account' = [account EXCEPT !.addressed = ~@]
  /\ UNCHANGED <<jtis, handed, issued, resets, now, req, changes, ended>>

\* changeUserBlockedState
ChangeBlocked ==
  /\ "block" \in scene.does
  /\ account' = [account EXCEPT !.blocked = ~@]
  /\ UNCHANGED <<jtis, handed, issued, resets, now, req, changes, ended>>

-----------------------------------------------------------------------------
Numbers(ls) == {l.n : l \in ls}

\* Mutant of ForgotSteps: the link is stored before the earlier ones are removed.
ForgotStepsSwapped == [start |-> "link", link |-> "forget", forget |-> "mail"]

\* The steps of forgotPassword: the links of earlier requests go first.
ForgotSteps == [start |-> "forget", forget |-> "link", link |-> "mail"]

\* forgotPassword, of an address that an account has.
ForgotPassword(r) ==
  /\ Arrive(r, "forgot") /\ account.addressed
  /\ linkCount + Cardinality({s \in Requests : req[s].at \in {"forget", "link"}})
       < scene.links   \* bound
  /\ Go(r, [NoSessionRequest EXCEPT !.kind = "forgot", !.at = ForgotSteps.start])
  /\ UNCHANGED <<account, jtis, handed, issued, resets, now, changes, ended>>

\* The links of earlier requests go.
ForgetLinks(r) ==
  /\ req[r].at = "forget"
  /\ links' = {}
  /\ spent' = [spent EXCEPT !.gone = @ \cup (Numbers(links) \ {req[r].link})]
  /\ Go(r, [req[r] EXCEPT !.at = ForgotSteps.forget])
  /\ UNCHANGED <<account, jtis, handed, issued, linkCount, now, changes, ended>>

CreateLink(r) ==
  /\ req[r].at = "link"
  /\ linkCount' = linkCount + 1
  /\ links' = links \cup {[n |-> linkCount + 1, live |-> TRUE]}
  /\ Go(r, [req[r] EXCEPT !.at = ForgotSteps.link, !.link = linkCount + 1])
  /\ UNCHANGED <<account, jtis, handed, issued, spent, now, changes, ended>>

\* The mail is sent, or the link is removed again.
MailLink(r, sent) ==
  LET q == req[r] IN
  /\ q.at = "mail"
  /\ sent \/ "fail" \in scene.does
  /\ spent' = IF sent THEN [spent EXCEPT !.mailed = @ \cup {q.link}] ELSE spent
  /\ Go(r, IF sent THEN NoSessionRequest ELSE [q EXCEPT !.at = "unsend"])
  /\ UNCHANGED <<account, jtis, handed, issued, links, linkCount, now, changes, ended>>

\* resetPassword with a link that was mailed: one expired is only removed.
ResetPassword(r, n, new) ==
  /\ Arrive(r, "reset") /\ RoomForChange
  /\ n \in spent.mailed
  /\ \E l \in links :
       /\ l.n = n
       /\ Go(r, [NoSessionRequest EXCEPT !.kind = "reset", !.link = n, !.password = new,
                                         !.at = IF l.live THEN "owner" ELSE "discard"])
  /\ UNCHANGED <<account, jtis, handed, issued, resets, now, changes, ended>>

\* verifyMagicLink looks a token up whatever its type, so it takes a reset link too.
VerifyResetLink(r, n) ==
  /\ Arrive(r, "verify")
  /\ n \in spent.mailed
  /\ \E l \in links :
       /\ l.n = n
       /\ Go(r, [NoSessionRequest EXCEPT !.kind = "verify", !.link = n,
                                         !.at = IF l.live THEN "owner" ELSE "discard"])
  /\ UNCHANGED <<account, jtis, handed, issued, resets, now, changes, ended>>

\* The account is looked up by the address of the link: resetPassword removes a link
\* that is nobody's, verifyMagicLink one whose address, or else phone, is somebody's,
\* and without a password it can insert no user.  Another account that took the
\* address meanwhile is not followed: the link goes all the same.
FindOwner(r) ==
  LET q == req[r]
      discards == Go(r, [q EXCEPT !.at = "discard"])
  IN
  /\ q.at = "owner"
  /\ IF q.kind = "reset" /\ account.addressed THEN Go(r, [q EXCEPT !.at = "password"])
     ELSE \/ discards
          \/ q.kind = "verify" /\ ~account.addressed /\ Go(r, NoSessionRequest)
  /\ UNCHANGED <<account, jtis, handed, issued, resets, now, changes, ended>>

\* deleteOne: a link used, expired, of nobody or never sent.
DiscardLink(r) ==
  /\ req[r].at \in {"unsend", "discard"}
  /\ links' = {l \in links : l.n # req[r].link}
  /\ spent' = [spent EXCEPT !.gone = @ \cup {req[r].link}]
  /\ Go(r, NoSessionRequest)
  /\ UNCHANGED <<account, jtis, handed, issued, linkCount, now, changes, ended>>

-----------------------------------------------------------------------------
\* Time: the next second, the end of a lock, of a session or of a link, and the
\* TTL index that removes expired links.
Tick ==
  /\ now < scene.seconds   \* bound
  /\ now' = now + 1
  /\ UNCHANGED <<account, jtis, handed, issued, resets, req, changes, ended>>

LockEnds ==
  /\ account.lock = "on"
  /\ account' = [account EXCEPT !.lock = "over"]
  /\ UNCHANGED <<jtis, handed, issued, resets, now, req, changes, ended>>

SessionExpires(s) ==
  /\ "expire" \in scene.does /\ s.live
  /\ account' = [account EXCEPT !.sessions = (@ \ {s}) \cup {[s EXCEPT !.live = FALSE]}]
  /\ UNCHANGED <<jtis, handed, issued, resets, now, req, changes, ended>>

LinkExpires(l) ==
  /\ "expire" \in scene.does
  /\ links' = IF l.live THEN (links \ {l}) \cup {[l EXCEPT !.live = FALSE]} ELSE links \ {l}
  /\ spent' = [spent EXCEPT !.gone = @ \cup {l.n}]
  /\ UNCHANGED <<account, jtis, handed, issued, linkCount, now, req, changes, ended>>

\* A database call fails, or the process ends: the request is over.
RequestFails(r) ==
  /\ "fail" \in scene.does /\ req[r].at # "idle"
  /\ Go(r, NoSessionRequest)
  /\ UNCHANGED <<account, jtis, handed, issued, resets, now, changes, ended>>

NewSessionRequest(r) ==
  \/ \E p \in Passwords, name \in Names : Login(r, p, name)
  \/ \E name \in Names : OAuthLogin(r, name)
  \/ \E j \in handed : RefreshAccessToken(r, j)
  \/ \E j \in handed \cup {0} : Logout(r, j)
  \/ \E p, new \in Passwords : ChangePassword(r, p, new)
  \/ ForgotPassword(r)
  \/ \E n \in spent.mailed, new \in Passwords : ResetPassword(r, n, new)
  \/ \E n \in spent.mailed : VerifyResetLink(r, n)

SessionStep(r) ==
  \/ RecordFailure(r) \/ ResetCounters(r) \/ Sign(r) \/ CreateSession(r) \/ ListSessions(r) \/ StoreSessions(r)
  \/ UpdateSessionTrack(r) \/ PullSession(r) \/ RevokeAll(r) \/ ReadRemaining(r)
  \/ TrackRemaining(r) \/ FindOwner(r) \/ SetPassword(r) \/ ForgetLinks(r) \/ CreateLink(r)
  \/ \E sent \in BOOLEAN : MailLink(r, sent)
  \/ DiscardLink(r) \/ RequestFails(r)

SessionsNext ==
  /\ \/ \E r \in Requests : NewSessionRequest(r) \/ SessionStep(r)
     \/ \E new \in Passwords : SetAgentPassword(new) \/ ResetUserPassword(new)
     \/ LogoutAllDevices \/ ClearUserSessions \/ ChangeAddress \/ ChangeBlocked \/ Tick \/ LockEnds
     \/ \E s \in account.sessions : SessionExpires(s)
     \/ \E l \in links : LinkExpires(l)
  /\ UNCHANGED scene

SessionsSpec == SessionsInit /\ [][SessionsNext]_<<scene, sessionVars>>

-----------------------------------------------------------------------------
\* Properties.

SessionsTypeOK ==
  /\ account \in Account
  /\ jtis \in Nat /\ handed \subseteq Nat /\ ended \subseteq Nat
  /\ issued \subseteq AccessToken
  /\ links \subseteq Link /\ linkCount \in Nat
  /\ now \in Nat /\ changes \in Nat
  /\ spent \in [mailed : SUBSET Nat, gone : SUBSET Nat]
  /\ req \in [Requests -> SessionRequest]

\* Whatever requests overlap, an account never has more sessions than the limit:
\* each list written is a list read, made one longer only below the limit
\* (authToken.service.ts:108-118).
SessionLimit == Cardinality(account.sessions) <= MaxSessions

\* A session ended by a logout, a rotation, a password change or the limit does
\* not come back, unless a request had already read the list with it and was
\* about to write it (authToken.service.ts:108, read again because the user
\* passed in is older).
EndedStaysEnded == Jtis(account.sessions) \cap ended = {}

\* Mutant of Accepts: a token of the second of the change is refused.
AcceptsAfterSecond(t) ==
  /\ ~(account.changedAt # 0 /\ t.iat <= account.changedAt)
  /\ ~account.blocked

\* Whether authMiddleware accepts an access token, apart from its signature.
Accepts(t) ==
  /\ ~(account.changedAt # 0 /\ t.iat < account.changedAt)
  /\ ~account.blocked

\* An access token signed since the last password change works, be it signed in
\* the very second of the change, until the account is blocked: the change of a
\* password never locks out the login that follows it (auth.middleware.ts:90-105).
FreshTokenWorks ==
  \A t \in issued : t.epoch = changes /\ ~account.blocked => Accepts(t)

\* A reset link that was mailed is stored until it is used, expires or is
\* superseded by another request's, whatever forgotPassword, resetPassword and
\* verifyMagicLink requests overlap and wherever the address of the account goes
\* meanwhile (authToken.service.ts:293-339, auth.service.ts:214-244).
MailedResetWorks == spent.mailed \ spent.gone \subseteq Numbers(links)
=============================================================================
