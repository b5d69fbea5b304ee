----------------------------- MODULE AccountsProofs -----------------------------
(***************************************************************************)
(* The sessions, the access tokens and the reset links of an account, and  *)
(* the accounts with their verification links and images, for every number *)
(* of requests and addresses and every limit.                              *)
(*                                                                         *)
(* Sessions.  A request writes a whole list of sessions that it made in an *)
(* earlier step.  The invariant says of every list about to be written     *)
(* what it says of the one stored, and that the session a request is about *)
(* to add is in neither.                                                   *)
(*                                                                         *)
(* Accounts.  Most steps leave most of this alone; a step that does says   *)
(* so by one of the predicates SameUsers, LinksAside and ImagesAside, and  *)
(* one lemma for each shows what then stays true.                          *)
(***************************************************************************)
EXTENDS Accounts, FiniteSetTheorems, WellFoundedInduction, TLAPS

\* A list fit to be stored.
Fit(ss) == IsFiniteSet(ss) /\ Cardinality(ss) <= MaxSessions

Limited ==
  /\ Fit(account.sessions)
  /\ \A r \in Requests : req[r].at = "store" => Fit(req[r].list)

\* The session r is about to add is in no list, and nobody else's.
Fresh(r) ==
  req[r].at = "list" =>
    /\ req[r].jti <= jtis
    /\ req[r].jti \notin Jtis(account.sessions) \cup ended
    /\ \A s \in Requests :
         /\ req[s].at = "store" => req[r].jti \notin Jtis(req[s].list)
         /\ s # r /\ req[s].at = "list" => req[s].jti # req[r].jti

\* What has been numbered.
Numbered(J) == \A j \in J : j <= jtis

Ended ==
  /\ Numbered(Jtis(account.sessions)) /\ Numbered(ended)
  /\ Jtis(account.sessions) \cap ended = {}
  /\ \A r \in Requests :
       /\ Fresh(r)
       /\ req[r].at = "store" => Numbered(Jtis(req[r].list)) /\ Jtis(req[r].list) \cap ended = {}

\* The tokens of the present password are not older than it.
Signatures ==
  /\ account.changedAt <= now
  /\ \A t \in issued : t.epoch <= changes /\ (t.epoch = changes => account.changedAt <= t.iat)

\* A link about to be mailed, or mailed, is stored or gone for a reason.
Mailing ==
  /\ \A n \in Numbers(links) : n # 0
  /\ spent.mailed \ spent.gone \subseteq Numbers(links)
  /\ \A r \in Requests :
       /\ req[r].at = "forget" => req[r].link = 0
       /\ req[r].at = "mail" => req[r].link \in Numbers(links) \cup spent.gone

IInv == SessionsTypeOK /\ Limited /\ Ended /\ Signatures /\ Mailing

-----------------------------------------------------------------------------
\* Initially there are no sessions, tokens, links or requests.
LEMMA InitEstablishes == Init => IInv
<1> SUFFICES ASSUME Init PROVE IInv
  OBVIOUS
<1> USE DEF Init, SessionsInit
<1>a. PICK p \in Passwords \cup {NoPassword} : account = NewAccount(p)
  OBVIOUS
<1>b. /\ account.sessions = {} /\ account.changedAt = 0 /\ Jtis(account.sessions) = {}
      /\ Numbers(links) = {}
      /\ \A r \in Requests : req[r].at = "idle"
  BY <1>a DEF NewAccount, NoSessionRequest, Jtis, Numbers
<1>1. SessionsTypeOK
  <2>1. account \in Account
    BY <1>a DEF NewAccount, Account
  <2>2. req \in [Requests -> SessionRequest]
    BY DEF NoSessionRequest, SessionRequest, SessionKinds, SessionSteps, Names
  <2> QED
    BY <2>1, <2>2 DEF SessionsTypeOK
<1>2. Limited
  BY <1>b, FS_EmptySet, SessionsAssumption DEF Limited, Fit
<1>3. Ended
  BY <1>b DEF Ended, Numbered, Fresh
<1>4. Signatures
  BY <1>b DEF Signatures
<1>5. Mailing
  BY <1>b DEF Mailing
<1> QED
  BY <1>1, <1>2, <1>3, <1>4, <1>5 DEF IInv

-----------------------------------------------------------------------------
\* The lists.

\* A set of numbers has a least one.
LEMMA LeastNumber ==
  ASSUME NEW S \in SUBSET Nat, S # {} PROVE \E x \in S : \A y \in S : x <= y
<1> DEFINE R == OpToRel(<, Nat)
<1>1. \A x, y \in Nat : y < x => <<y, x>> \in R
  BY DEF OpToRel
<1>2. IsWellFoundedOn(R, Nat)
  BY NatLessThanWellFounded
<1> HIDE DEF R
<1>3. PICK x \in S : \A y \in S : ~ (<<y, x>> \in R)
  BY <1>2, WFMin
<1>4. ASSUME NEW y \in S PROVE x <= y
  <2>1. x \in Nat /\ y \in Nat
    OBVIOUS
  <2>2. ~(y < x)
    BY <1>1, <1>3, <2>1
  <2> QED
    BY <2>1, <2>2
<1> QED
  BY <1>4

\* The oldest session of a list is one of it.
LEMMA OldestIn ==
  ASSUME NEW ss \in SUBSET Session, ss # {} PROVE Oldest(ss) \in ss
<1>1. Jtis(ss) \in SUBSET Nat /\ Jtis(ss) # {}
  BY DEF Jtis, Session
<1>2. PICK j \in Jtis(ss) : \A k \in Jtis(ss) : j <= k
  BY <1>1, LeastNumber
<1>3. \E s \in ss : \A t \in ss : s.jti <= t.jti
  BY <1>2 DEF Jtis
<1> QED
  BY <1>3 DEF Oldest

\* What Extended adds and keeps.
LEMMA ExtendedKeeps ==
  ASSUME NEW ss, NEW x
  PROVE  /\ Extended(ss, x) \subseteq ss \cup {x}
         /\ Jtis(Extended(ss, x)) \subseteq Jtis(ss) \cup {x.jti}
  BY DEF Extended, Live, Jtis

\* A list made by Extended is fit if it was made from one that is: of a full list
\* the oldest session goes.
LEMMA ExtendedFits ==
  ASSUME NEW ss \in SUBSET Session, Fit(ss), NEW x PROVE Fit(Extended(ss, x))
<1> DEFINE L == Live(ss)
           K == IF Cardinality(L) >= MaxSessions THEN L \ {Oldest(L)} ELSE L
<1>1. L \in SUBSET Session /\ IsFiniteSet(L) /\ Cardinality(L) <= MaxSessions
  BY FS_Subset, FS_CardinalityType, SessionsAssumption DEF Fit, Live
<1>2. Cardinality(L) \in Nat /\ MaxSessions \in Nat \ {0}
  BY <1>1, FS_CardinalityType, SessionsAssumption
<1>3. IsFiniteSet(K) /\ Cardinality(K) + 1 <= MaxSessions
  <2>1. CASE Cardinality(L) >= MaxSessions
    <3>1. L # {}
      BY <1>2, <2>1, FS_EmptySet
    <3>2. Oldest(L) \in L
      BY <1>1, <3>1, OldestIn
    <3>3. IsFiniteSet(L \ {Oldest(L)}) /\ Cardinality(L \ {Oldest(L)}) = Cardinality(L) - 1
      BY <1>1, <3>2, FS_RemoveElement
    <3> QED
      BY <1>1, <1>2, <2>1, <3>3
  <2>2. CASE ~(Cardinality(L) >= MaxSessions)
    BY <1>1, <1>2, <2>2
  <2> QED
    BY <2>1, <2>2
<1> HIDE DEF K
<1>4. IsFiniteSet(K \cup {x}) /\ Cardinality(K \cup {x}) <= Cardinality(K) + 1
  BY <1>3, FS_AddElement, FS_CardinalityType
<1>5. Extended(ss, x) = K \cup {x}
  BY DEF Extended, K
<1> QED
  BY <1>2, <1>3, <1>4, <1>5, FS_CardinalityType DEF Fit

\* One element more.
LEMMA OneMore ==
  ASSUME NEW T, IsFiniteSet(T), NEW x
  PROVE  /\ IsFiniteSet(T \cup {x})
         /\ Cardinality(T) \in Nat /\ Cardinality(T \cup {x}) \in Nat
         /\ Cardinality(T \cup {x}) <= Cardinality(T) + 1
  BY FS_AddElement, FS_CardinalityType

\* A session that expires changes neither the size nor the numbers of its list.
LEMMA ExpiredFits ==
  ASSUME NEW ss \in SUBSET Session, Fit(ss), NEW s \in ss, NEW x \in Session, x.jti = s.jti
  PROVE  Fit((ss \ {s}) \cup {x}) /\ Jtis((ss \ {s}) \cup {x}) = Jtis(ss)
<1>1. /\ IsFiniteSet(ss \ {s}) /\ Cardinality(ss \ {s}) = Cardinality(ss) - 1
      /\ Cardinality(ss) \in Nat /\ Cardinality(ss) <= MaxSessions
  BY FS_RemoveElement, FS_CardinalityType DEF Fit
<1>2. /\ IsFiniteSet((ss \ {s}) \cup {x})
      /\ Cardinality((ss \ {s}) \cup {x}) \in Nat
      /\ Cardinality((ss \ {s}) \cup {x}) <= Cardinality(ss \ {s}) + 1
  BY <1>1, OneMore
<1>3. Fit((ss \ {s}) \cup {x})
  BY <1>1, <1>2, SessionsAssumption DEF Fit
<1>4. Jtis((ss \ {s}) \cup {x}) = Jtis(ss)
  BY DEF Jtis
<1> QED
  BY <1>3, <1>4

-----------------------------------------------------------------------------
\* What most steps do: sessions may end, one may be numbered, no list is made or
\* written.
Shrinks ==
  /\ account'.sessions \subseteq account.sessions
  /\ \/ EndSessions(account.sessions, account'.sessions)
     \/ account'.sessions = account.sessions /\ ended' = ended

Moves ==
  \/ /\ jtis' = jtis
     /\ \A s \in Requests : req'[s].at \in {"list", "store"} => req'[s] = req[s]
  \/ /\ jtis' = jtis + 1
     /\ \E r \in Requests :
          /\ req'[r].at = "list" /\ req'[r].jti = jtis + 1
          /\ \A s \in Requests \ {r} : req'[s] = req[s]

\* The password stays and an access token may be signed, or the password changes.
Signs ==
  \/ /\ account'.changedAt = account.changedAt /\ changes' = changes
     /\ now' \in Nat /\ now <= now'
     /\ issued' = issued \/ Signed
  \/ /\ account'.changedAt = now /\ changes' = changes + 1
     /\ now' = now /\ issued' = issued

\* No request is about to mail a link that was not before.
MailsNothing ==
  \A s \in Requests :
    \/ req'[s] = req[s]
    \/ req'[s].at # "mail" /\ (req'[s].at = "forget" => req'[s].link = 0)

Quiet == SessionsTypeOK' /\ Shrinks /\ Moves /\ Signs

Harmless == Quiet /\ UNCHANGED resets /\ MailsNothing

\* A request that goes on as q.
Goes(q) ==
  /\ \/ q.at \notin {"list", "store"} /\ jtis' = jtis
     \/ q.at = "list" /\ q.jti = jtis + 1 /\ jtis' = jtis + 1
  /\ q.at # "mail" /\ (q.at = "forget" => q.link = 0)

\* A record of a request.
LEMMA NoRequestTyped == NoSessionRequest \in SessionRequest /\ NoSessionRequest.at = "idle"
  BY DEF NoSessionRequest, SessionRequest, SessionKinds, SessionSteps, Names

LEMMA GoTyped ==
  ASSUME SessionsTypeOK, NEW r \in Requests, NEW q \in SessionRequest, Go(r, q)
  PROVE  /\ req' \in [Requests -> SessionRequest] /\ req'[r] = q
         /\ \A s \in Requests : s # r => req'[s] = req[s]
  BY DEF Go, SessionsTypeOK

LEMMA GoMoves ==
  ASSUME SessionsTypeOK, NEW r \in Requests, NEW q \in SessionRequest, Go(r, q), Goes(q)
  PROVE  req' \in [Requests -> SessionRequest] /\ jtis' \in Nat /\ Moves /\ MailsNothing
<1>1. /\ req' \in [Requests -> SessionRequest] /\ req'[r] = q
      /\ \A s \in Requests : s # r => req'[s] = req[s]
  BY GoTyped
<1> QED
  BY <1>1 DEF Goes, Moves, MailsNothing, SessionsTypeOK

LEMMA StayMoves ==
  ASSUME SessionsTypeOK, req' = req, jtis' = jtis
  PROVE  req' \in [Requests -> SessionRequest] /\ jtis' \in Nat /\ Moves /\ MailsNothing
  BY DEF Moves, MailsNothing, SessionsTypeOK

\* What is left to show of a step that writes no list.
LEMMA HarmlessStep ==
  ASSUME SessionsTypeOK, account' \in Account, Shrinks, Signs, handed' \subseteq Nat,
         UNCHANGED resets,
         req' \in [Requests -> SessionRequest], jtis' \in Nat, Moves, MailsNothing
  PROVE  Harmless
<1>1. ended' \subseteq Nat
  <2>1. Jtis(account.sessions) \subseteq Nat /\ ended \subseteq Nat
    BY DEF SessionsTypeOK, Account, Session, Jtis
  <2> QED
    BY <2>1 DEF Shrinks, EndSessions
<1>2. issued' \subseteq AccessToken /\ now' \in Nat /\ changes' \in Nat
  BY DEF SessionsTypeOK, Signs, Signed, AccessToken
<1>3. SessionsTypeOK'
  BY <1>1, <1>2 DEF SessionsTypeOK, resets
<1> QED
  BY <1>3 DEF Harmless, Quiet

\* A request reads.
LEMMA ReadStep ==
  ASSUME SessionsTypeOK, NEW r \in Requests, NEW q \in SessionRequest, Go(r, q), Goes(q),
         issued' = issued \/ Signed,
         UNCHANGED <<account, handed, resets, now, changes, ended>>
  PROVE  Harmless
<1>1. req' \in [Requests -> SessionRequest] /\ jtis' \in Nat /\ Moves /\ MailsNothing
  BY GoMoves
<1>2. Shrinks /\ Signs /\ account' \in Account /\ handed' \subseteq Nat
  BY DEF Shrinks, Signs, SessionsTypeOK
<1> QED
  BY <1>1, <1>2, HarmlessStep

-----------------------------------------------------------------------------
\* The requests, at their start.

LEMMA LoginStep ==
  ASSUME SessionsTypeOK, NEW r \in Requests, NEW p \in Passwords, NEW name \in Names, Login(r, p, name)
  PROVE  Harmless
<1> DEFINE matches == p = account.password
           clean   == account.failed = 0 /\ account.lock = "none"
           q == [NoSessionRequest EXCEPT !.kind = "login", !.name = name,
              !.loaded = account.sessions, !.count = account.failed + 1,
              !.at = IF ~matches THEN "failure" ELSE IF clean THEN "sign" ELSE "counters"]
<1>1. /\ Go(r, q)
      /\ UNCHANGED <<account, jtis, handed, issued, resets, now, changes, ended>>
  BY DEF Login
<1>2. account.sessions \in SUBSET Session /\ account.failed + 1 \in Nat
  BY DEF SessionsTypeOK, Account
<1>3. q.at \in {"failure", "sign", "counters"}
  BY DEF NoSessionRequest
<1>4. q \in SessionRequest
  BY <1>2, <1>3, NoRequestTyped DEF SessionRequest, SessionKinds, SessionSteps
<1> HIDE DEF q
<1>5. Goes(q)
  BY <1>1, <1>3 DEF Goes
<1> QED
  BY <1>1, <1>4, <1>5, ReadStep

LEMMA OAuthLoginStep ==
  ASSUME SessionsTypeOK, NEW r \in Requests, NEW name \in Names, OAuthLogin(r, name)
  PROVE  Harmless
<1> DEFINE q == [NoSessionRequest EXCEPT !.kind = "oauth", !.at = "sign", !.name = name,
                                         !.loaded = account.sessions]
<1>1. /\ Go(r, q)
      /\ UNCHANGED <<account, jtis, handed, issued, resets, now, changes, ended>>
  BY DEF OAuthLogin
<1>2. account.sessions \in SUBSET Session
  BY DEF SessionsTypeOK, Account
<1>3. q \in SessionRequest /\ q.at = "sign"
  BY <1>2, NoRequestTyped DEF SessionRequest, SessionKinds, SessionSteps
<1> HIDE DEF q
<1>4. Goes(q)
  BY <1>1, <1>3 DEF Goes
<1> QED
  BY <1>1, <1>3, <1>4, ReadStep

LEMMA RefreshStep ==
  ASSUME SessionsTypeOK, NEW r \in Requests, NEW j \in handed, RefreshAccessToken(r, j)
  PROVE  Harmless
<1> DEFINE q == [NoSessionRequest EXCEPT !.kind = "refresh", !.jti = j,
                                         !.loaded = account.sessions]
<1>1. /\ jtis' = jtis /\ UNCHANGED <<account, handed, issued, resets, now, changes, ended>>
      /\ \/ Go(r, [q EXCEPT !.at = "revoke"])
         \/ \E s \in account.sessions : Go(r, [q EXCEPT !.at = "pull", !.live = s.live])
  BY DEF RefreshAccessToken
<1>2. account.sessions \in SUBSET Session /\ j \in Nat
  BY DEF SessionsTypeOK, Account
<1>3. q \in SessionRequest
  BY <1>2, NoRequestTyped DEF SessionRequest, SessionKinds
<1> HIDE DEF q
<1>4. CASE Go(r, [q EXCEPT !.at = "revoke"])
  <2> DEFINE p == [q EXCEPT !.at = "revoke"]
  <2>1. p \in SessionRequest /\ p.at = "revoke"
    BY <1>3 DEF SessionRequest, SessionSteps
  <2> HIDE DEF p
  <2>2. Goes(p)
    BY <1>1, <2>1 DEF Goes
  <2>3. Go(r, p)
    BY <1>4 DEF p
  <2> QED
    BY <1>1, <2>1, <2>2, <2>3, ReadStep
<1>5. ASSUME NEW s \in account.sessions, Go(r, [q EXCEPT !.at = "pull", !.live = s.live])
      PROVE  Harmless
  <2> DEFINE p == [q EXCEPT !.at = "pull", !.live = s.live]
  <2>1. p \in SessionRequest /\ p.at = "pull"
    BY <1>2, <1>3 DEF SessionRequest, SessionSteps, Session
  <2> HIDE DEF p
  <2>2. Goes(p)
    BY <1>1, <2>1 DEF Goes
  <2>3. Go(r, p)
    BY <1>5 DEF p
  <2> QED
    BY <1>1, <2>1, <2>2, <2>3, ReadStep
<1> QED
  BY <1>1, <1>4, <1>5

LEMMA LogoutStep ==
  ASSUME SessionsTypeOK, NEW r \in Requests, NEW j \in handed \cup {0}, Logout(r, j)
  PROVE  Harmless
<1> DEFINE q == [NoSessionRequest EXCEPT !.kind = "logout", !.jti = j,
                                         !.at = IF j = 0 THEN "revoke" ELSE "pull"]
<1>1. /\ Go(r, q) /\ UNCHANGED <<account, jtis, handed, issued, resets, now, changes, ended>>
  BY DEF Logout
<1>2. j \in Nat
  BY DEF SessionsTypeOK
<1>3. q \in SessionRequest /\ q.at \in {"revoke", "pull"}
  BY <1>2, NoRequestTyped DEF SessionRequest, SessionKinds, SessionSteps
<1> HIDE DEF q
<1>4. Goes(q)
  BY <1>1, <1>3 DEF Goes
<1> QED
  BY <1>1, <1>3, <1>4, ReadStep

LEMMA ChangePasswordStep ==
  ASSUME SessionsTypeOK, NEW r \in Requests, NEW p \in Passwords, NEW new \in Passwords,
         ChangePassword(r, p, new)
  PROVE  Harmless
<1> DEFINE q == [NoSessionRequest EXCEPT !.kind = "change", !.at = "password", !.password = new]
<1>1. /\ Go(r, q) /\ UNCHANGED <<account, jtis, handed, issued, resets, now, changes, ended>>
  BY DEF ChangePassword
<1>2. q \in SessionRequest /\ q.at = "password"
  BY NoRequestTyped DEF SessionRequest, SessionKinds, SessionSteps
<1> HIDE DEF q
<1>3. Goes(q)
  BY <1>1, <1>2 DEF Goes
<1> QED
  BY <1>1, <1>2, <1>3, ReadStep

LEMMA ForgotPasswordStep ==
  ASSUME SessionsTypeOK, NEW r \in Requests, ForgotPassword(r)
  PROVE  Harmless
<1> DEFINE q == [NoSessionRequest EXCEPT !.kind = "forgot", !.at = ForgotSteps.start]
<1>1. /\ Go(r, q) /\ UNCHANGED <<account, jtis, handed, issued, resets, now, changes, ended>>
  BY DEF ForgotPassword
<1>2. q \in SessionRequest /\ q.at = "forget" /\ q.link = 0
  BY NoRequestTyped DEF NoSessionRequest, SessionRequest, SessionKinds, SessionSteps, ForgotSteps
<1> HIDE DEF q
<1>3. Goes(q)
  BY <1>1, <1>2 DEF Goes
<1> QED
  BY <1>1, <1>2, <1>3, ReadStep

LEMMA ResetPasswordStep ==
  ASSUME SessionsTypeOK, NEW r \in Requests, NEW n \in spent.mailed, NEW new \in Passwords,
         ResetPassword(r, n, new)
  PROVE  Harmless
<1> DEFINE q(l) == [NoSessionRequest EXCEPT !.kind = "reset", !.link = n, !.password = new,
                                       !.at = IF l.live THEN "owner" ELSE "discard"]
<1>1. PICK l \in links : Go(r, q(l))
  BY DEF ResetPassword
<1>2. UNCHANGED <<account, jtis, handed, issued, resets, now, changes, ended>>
  BY DEF ResetPassword
<1>3. n \in Nat
  BY DEF SessionsTypeOK
<1>4. q(l) \in SessionRequest /\ q(l).at \in {"owner", "discard"}
  BY <1>3, NoRequestTyped DEF SessionRequest, SessionKinds, SessionSteps
<1> HIDE DEF q
<1>5. Goes(q(l))
  BY <1>2, <1>4 DEF Goes
<1> QED
  BY <1>1, <1>2, <1>4, <1>5, ReadStep

LEMMA VerifyResetLinkStep ==
  ASSUME SessionsTypeOK, NEW r \in Requests, NEW n \in spent.mailed, VerifyResetLink(r, n)
  PROVE  Harmless
<1> DEFINE q(l) == [NoSessionRequest EXCEPT !.kind = "verify", !.link = n,
                                       !.at = IF l.live THEN "owner" ELSE "discard"]
<1>1. PICK l \in links : Go(r, q(l))
  BY DEF VerifyResetLink
<1>2. UNCHANGED <<account, jtis, handed, issued, resets, now, changes, ended>>
  BY DEF VerifyResetLink
<1>3. n \in Nat
  BY DEF SessionsTypeOK
<1>4. q(l) \in SessionRequest /\ q(l).at \in {"owner", "discard"}
  BY <1>3, NoRequestTyped DEF SessionRequest, SessionKinds, SessionSteps
<1> HIDE DEF q
<1>5. Goes(q(l))
  BY <1>2, <1>4 DEF Goes
<1> QED
  BY <1>1, <1>2, <1>4, <1>5, ReadStep

\* A request that goes on to a step that neither lists nor mails.
LEMMA OnwardStep ==
  ASSUME SessionsTypeOK, NEW r \in Requests, NEW a \in SessionSteps,
         a \notin {"list", "store", "mail", "forget"},
         Go(r, [req[r] EXCEPT !.at = a]), jtis' = jtis
  PROVE  req' \in [Requests -> SessionRequest] /\ jtis' \in Nat /\ Moves /\ MailsNothing
<1> DEFINE q == [req[r] EXCEPT !.at = a]
<1>1. q \in SessionRequest /\ q.at = a
  BY DEF SessionsTypeOK, SessionRequest
<1>2. Go(r, q)
  OBVIOUS
<1> HIDE DEF q
<1>3. Goes(q)
  BY <1>1 DEF Goes
<1> QED
  BY <1>1, <1>2, <1>3, GoMoves

LEMMA FindOwnerStep ==
  ASSUME SessionsTypeOK, NEW r \in Requests, FindOwner(r)
  PROVE  Harmless
<1>1. /\ \/ Go(r, [req[r] EXCEPT !.at = "password"])
         \/ Go(r, [req[r] EXCEPT !.at = "discard"])
         \/ Go(r, NoSessionRequest)
      /\ UNCHANGED <<account, jtis, handed, issued, resets, now, changes, ended>>
  BY DEF FindOwner
<1>2. Shrinks /\ Signs /\ account' \in Account /\ handed' \subseteq Nat /\ UNCHANGED resets
  BY <1>1 DEF Shrinks, Signs, SessionsTypeOK
<1>3. ASSUME NEW a \in {"password", "discard"}, Go(r, [req[r] EXCEPT !.at = a])
      PROVE  req' \in [Requests -> SessionRequest] /\ jtis' \in Nat /\ Moves /\ MailsNothing
  <2>1. a \in SessionSteps /\ a \notin {"list", "store", "mail", "forget"} /\ jtis' = jtis
    BY <1>1 DEF SessionSteps
  <2> QED
    BY <1>3, <2>1, OnwardStep
<1>4. CASE Go(r, NoSessionRequest)
  <2>1. Goes(NoSessionRequest)
    BY <1>1, NoRequestTyped DEF Goes
  <2>2. req' \in [Requests -> SessionRequest] /\ jtis' \in Nat /\ Moves /\ MailsNothing
    BY <1>4, <2>1, NoRequestTyped, GoMoves
  <2> QED
    BY <1>2, <2>2, HarmlessStep
<1> QED
  BY <1>1, <1>2, <1>3, <1>4, HarmlessStep

LEMMA RequestFailsStep ==
  ASSUME SessionsTypeOK, NEW r \in Requests, RequestFails(r)
  PROVE  Harmless
<1>1. Go(r, NoSessionRequest) /\ Goes(NoSessionRequest)
  BY NoRequestTyped DEF RequestFails, Goes
<1> QED
  BY <1>1, NoRequestTyped, ReadStep DEF RequestFails

-----------------------------------------------------------------------------
\* The steps that write something else than a list made before.

LEMMA RecordFailureStep ==
  ASSUME SessionsTypeOK, NEW r \in Requests, RecordFailure(r)
  PROVE  Harmless
<1>1. Go(r, NoSessionRequest) /\ Goes(NoSessionRequest)
  BY NoRequestTyped DEF RecordFailure, Goes
<1>2. req' \in [Requests -> SessionRequest] /\ jtis' \in Nat /\ Moves /\ MailsNothing
  BY <1>1, NoRequestTyped, GoMoves
<1>3. req[r].count \in Nat
  BY DEF SessionsTypeOK, SessionRequest
<1>4. account' \in Account /\ account'.sessions = account.sessions
      /\ account'.changedAt = account.changedAt
  BY <1>3 DEF RecordFailure, SessionsTypeOK, Account
<1>5. Shrinks /\ Signs /\ handed' \subseteq Nat /\ UNCHANGED resets
  BY <1>4 DEF RecordFailure, Shrinks, Signs, SessionsTypeOK
<1> QED
  BY <1>2, <1>4, <1>5, HarmlessStep

LEMMA ResetCountersStep ==
  ASSUME SessionsTypeOK, NEW r \in Requests, ResetCounters(r)
  PROVE  Harmless
<1>1. "sign" \in SessionSteps /\ Go(r, [req[r] EXCEPT !.at = "sign"]) /\ jtis' = jtis
  BY DEF ResetCounters, SessionSteps
<1>2. req' \in [Requests -> SessionRequest] /\ jtis' \in Nat /\ Moves /\ MailsNothing
  BY <1>1, OnwardStep
<1>3. account' \in Account /\ account'.sessions = account.sessions
      /\ account'.changedAt = account.changedAt
  BY DEF ResetCounters, SessionsTypeOK, Account
<1>4. Shrinks /\ Signs /\ handed' \subseteq Nat /\ UNCHANGED resets
  BY <1>3 DEF ResetCounters, Shrinks, Signs, SessionsTypeOK
<1> QED
  BY <1>2, <1>3, <1>4, HarmlessStep

LEMMA SignStep ==
  ASSUME SessionsTypeOK, NEW r \in Requests, Sign(r)
  PROVE  Harmless
<1>1. "create" \in SessionSteps /\ Go(r, [req[r] EXCEPT !.at = "create"]) /\ jtis' = jtis
  BY DEF Sign, SessionSteps
<1>2. req' \in [Requests -> SessionRequest] /\ jtis' \in Nat /\ Moves /\ MailsNothing
  BY <1>1, OnwardStep
<1>3. Shrinks /\ Signs /\ account' \in Account /\ handed' \subseteq Nat /\ UNCHANGED resets
  BY DEF Sign, Shrinks, Signs, SessionsTypeOK
<1> QED
  BY <1>2, <1>3, HarmlessStep

LEMMA CreateSessionStep ==
  ASSUME SessionsTypeOK, NEW r \in Requests, CreateSession(r)
  PROVE  Harmless
<1> DEFINE q == [req[r] EXCEPT !.at = "list", !.jti = jtis + 1]
<1>1. /\ Go(r, q) /\ jtis' = jtis + 1
      /\ UNCHANGED <<account, handed, issued, resets, now, changes, ended>>
  BY DEF CreateSession
<1>a. req[r] \in SessionRequest /\ jtis + 1 \in Nat /\ "list" \in SessionSteps
  BY DEF SessionsTypeOK, SessionSteps
<1>2. q \in SessionRequest /\ q.at = "list" /\ q.jti = jtis + 1
  BY <1>a DEF SessionRequest
<1> HIDE DEF q
<1>3. Goes(q)
  BY <1>1, <1>2 DEF Goes
<1> QED
  BY <1>1, <1>2, <1>3, ReadStep

LEMMA UpdateSessionTrackStep ==
  ASSUME SessionsTypeOK, NEW r \in Requests, UpdateSessionTrack(r)
  PROVE  Harmless
<1>1. Go(r, NoSessionRequest) /\ Goes(NoSessionRequest)
  BY NoRequestTyped DEF UpdateSessionTrack, Goes
<1>2. req' \in [Requests -> SessionRequest] /\ jtis' \in Nat /\ Moves /\ MailsNothing
  BY <1>1, NoRequestTyped, GoMoves
<1>3. NamesOf(req[r].loaded) \subseteq Names /\ req[r].jti \in Nat
  BY DEF SessionsTypeOK, SessionRequest, NamesOf, Session
<1>4. account' \in Account /\ account'.sessions = account.sessions
      /\ account'.changedAt = account.changedAt
  BY <1>3 DEF UpdateSessionTrack, SessionsTypeOK, Account
<1>5. Shrinks /\ Signs /\ handed' \subseteq Nat /\ UNCHANGED resets
  BY <1>3, <1>4 DEF UpdateSessionTrack, Shrinks, Signs, SessionsTypeOK
<1> QED
  BY <1>2, <1>4, <1>5, HarmlessStep

LEMMA PullSessionStep ==
  ASSUME SessionsTypeOK, NEW r \in Requests, PullSession(r)
  PROVE  Harmless
<1> DEFINE q == IF req[r].kind = "refresh" /\ req[r].live THEN [req[r] EXCEPT !.at = "create"]
                ELSE IF req[r].kind = "logout" THEN [req[r] EXCEPT !.at = "remaining"]
                ELSE NoSessionRequest
           rest == WithoutJti(account.sessions, req[r].jti)
<1>1. /\ Go(r, q)
      /\ account' = [account EXCEPT !.sessions = rest]
      /\ EndSessions(account.sessions, rest)
      /\ UNCHANGED <<jtis, handed, issued, resets, now, changes>>
  BY DEF PullSession
<1>a. /\ req[r] \in SessionRequest
      /\ "create" \in SessionSteps /\ "remaining" \in SessionSteps
  BY DEF SessionsTypeOK, SessionSteps
<1>2. q \in SessionRequest /\ q.at \in {"create", "remaining", "idle"}
  BY <1>a, NoRequestTyped DEF SessionRequest
<1> HIDE DEF q
<1>3. Goes(q)
  BY <1>1, <1>2 DEF Goes
<1>4. req' \in [Requests -> SessionRequest] /\ jtis' \in Nat /\ Moves /\ MailsNothing
  BY <1>1, <1>2, <1>3, GoMoves
<1>5. rest \subseteq account.sessions
  BY DEF WithoutJti
<1>6. account' \in Account /\ account'.sessions = rest /\ account'.changedAt = account.changedAt
  BY <1>1, <1>5 DEF SessionsTypeOK, Account
<1>7. Shrinks /\ Signs /\ handed' \subseteq Nat
  BY <1>1, <1>5, <1>6 DEF Shrinks, Signs, SessionsTypeOK
<1> QED
  BY <1>1, <1>4, <1>6, <1>7, HarmlessStep

\* All sessions go.
LEMMA RevokedTyped ==
  ASSUME SessionsTypeOK
  PROVE  /\ Revoked(account) \in Account /\ Revoked(account).sessions = {}
         /\ Revoked(account).changedAt = account.changedAt
  BY DEF SessionsTypeOK, Account, Revoked

LEMMA RevokeAllStep ==
  ASSUME SessionsTypeOK, NEW r \in Requests, RevokeAll(r)
  PROVE  Harmless
<1>1. Go(r, NoSessionRequest) /\ Goes(NoSessionRequest)
  BY NoRequestTyped DEF RevokeAll, Goes
<1>2. req' \in [Requests -> SessionRequest] /\ jtis' \in Nat /\ Moves /\ MailsNothing
  BY <1>1, NoRequestTyped, GoMoves
<1>3. account' \in Account /\ account'.sessions = {} /\ account'.changedAt = account.changedAt
  BY RevokedTyped DEF RevokeAll
<1>4. Shrinks /\ Signs /\ handed' \subseteq Nat /\ UNCHANGED resets
  BY <1>3 DEF RevokeAll, Shrinks, Signs, SessionsTypeOK
<1> QED
  BY <1>2, <1>3, <1>4, HarmlessStep

LEMMA ReadRemainingStep ==
  ASSUME SessionsTypeOK, NEW r \in Requests, ReadRemaining(r)
  PROVE  Harmless
<1> DEFINE q == [req[r] EXCEPT !.at = "untrack", !.list = Live(account.sessions)]
<1>1. /\ Go(r, q) /\ UNCHANGED <<account, jtis, handed, issued, resets, now, changes, ended>>
  BY DEF ReadRemaining
<1>2. Live(account.sessions) \subseteq Session
  BY DEF SessionsTypeOK, Account, Live
<1>3. q \in SessionRequest /\ q.at = "untrack"
  BY <1>2 DEF SessionsTypeOK, SessionRequest, SessionSteps
<1> HIDE DEF q
<1>4. Goes(q)
  BY <1>1, <1>3 DEF Goes
<1> QED
  BY <1>1, <1>3, <1>4, ReadStep

LEMMA TrackRemainingStep ==
  ASSUME SessionsTypeOK, NEW r \in Requests, TrackRemaining(r)
  PROVE  Harmless
<1>1. Go(r, NoSessionRequest) /\ Goes(NoSessionRequest)
  BY NoRequestTyped DEF TrackRemaining, Goes
<1>2. req' \in [Requests -> SessionRequest] /\ jtis' \in Nat /\ Moves /\ MailsNothing
  BY <1>1, NoRequestTyped, GoMoves
<1>3. NamesOf(req[r].list) \subseteq Names /\ (req[r].list # {}) \in BOOLEAN
  BY DEF SessionsTypeOK, SessionRequest, NamesOf, Session
<1>4. account' \in Account /\ account'.sessions = account.sessions
      /\ account'.changedAt = account.changedAt
  BY <1>3 DEF TrackRemaining, SessionsTypeOK, Account
<1>5. Shrinks /\ Signs /\ handed' \subseteq Nat /\ UNCHANGED resets
  BY <1>4 DEF TrackRemaining, Shrinks, Signs, SessionsTypeOK
<1> QED
  BY <1>2, <1>4, <1>5, HarmlessStep

LEMMA SetPasswordStep ==
  ASSUME SessionsTypeOK, NEW r \in Requests, SetPassword(r)
  PROVE  Harmless
<1> DEFINE q == IF req[r].kind = "reset" THEN [req[r] EXCEPT !.at = "discard"]
                ELSE NoSessionRequest
<1>1. Go(r, q) /\ jtis' = jtis
  BY DEF SetPassword
<1>2. q \in SessionRequest /\ q.at \in {"discard", "idle"}
  BY NoRequestTyped DEF SessionsTypeOK, SessionRequest, SessionSteps
<1> HIDE DEF q
<1>3. Goes(q)
  BY <1>1, <1>2 DEF Goes
<1>4. req' \in [Requests -> SessionRequest] /\ jtis' \in Nat /\ Moves /\ MailsNothing
  BY <1>1, <1>2, <1>3, GoMoves
<1>5. req[r].password \in Passwords \cup {NoPassword} /\ now \in Nat
  BY DEF SessionsTypeOK, SessionRequest
<1>6. account' \in Account /\ account'.sessions = {} /\ account'.changedAt = now
  BY <1>5, RevokedTyped DEF SetPassword, Account
<1>7. Shrinks /\ Signs /\ handed' \subseteq Nat /\ UNCHANGED resets
  BY <1>6 DEF SetPassword, Shrinks, Signs, SessionsTypeOK
<1> QED
  BY <1>4, <1>6, <1>7, HarmlessStep

LEMMA SetAgentPasswordStep ==
  ASSUME SessionsTypeOK, NEW new \in Passwords, SetAgentPassword(new)
  PROVE  Harmless
<1>1. req' \in [Requests -> SessionRequest] /\ jtis' \in Nat /\ Moves /\ MailsNothing
  BY StayMoves DEF SetAgentPassword
<1>2. account' \in Account /\ account'.sessions = account.sessions /\ account'.changedAt = now
  BY DEF SetAgentPassword, SessionsTypeOK, Account
<1>3. Shrinks /\ Signs /\ handed' \subseteq Nat /\ UNCHANGED resets
  BY <1>2 DEF SetAgentPassword, Shrinks, Signs, SessionsTypeOK
<1> QED
  BY <1>1, <1>2, <1>3, HarmlessStep

LEMMA ResetUserPasswordStep ==
  ASSUME SessionsTypeOK, NEW new \in Passwords, ResetUserPassword(new)
  PROVE  Harmless
<1>1. req' \in [Requests -> SessionRequest] /\ jtis' \in Nat /\ Moves /\ MailsNothing
  BY StayMoves DEF ResetUserPassword
<1>2. account' \in Account /\ account'.sessions = {} /\ account'.changedAt = now
  BY RevokedTyped DEF ResetUserPassword, SessionsTypeOK, Account
<1>3. Shrinks /\ Signs /\ handed' \subseteq Nat /\ UNCHANGED resets
  BY <1>2 DEF ResetUserPassword, Shrinks, Signs, SessionsTypeOK
<1> QED
  BY <1>1, <1>2, <1>3, HarmlessStep

LEMMA LogoutAllStep ==
  ASSUME SessionsTypeOK, LogoutAllDevices \/ ClearUserSessions
  PROVE  Harmless
<1>1. /\ account' = Revoked(account) /\ EndSessions(account.sessions, {})
      /\ UNCHANGED <<jtis, handed, issued, resets, now, req, changes>>
  BY DEF LogoutAllDevices, ClearUserSessions
<1>2. req' \in [Requests -> SessionRequest] /\ jtis' \in Nat /\ Moves /\ MailsNothing
  BY <1>1, StayMoves
<1>3. account' \in Account /\ account'.sessions = {} /\ account'.changedAt = account.changedAt
  BY <1>1, RevokedTyped
<1>4. Shrinks /\ Signs /\ handed' \subseteq Nat
  BY <1>1, <1>3 DEF Shrinks, Signs, SessionsTypeOK
<1> QED
  BY <1>1, <1>2, <1>3, <1>4, HarmlessStep

LEMMA AsideStep ==
  ASSUME SessionsTypeOK, ChangeAddress \/ ChangeBlocked \/ LockEnds \/ Tick
  PROVE  Harmless
<1>1. UNCHANGED <<jtis, handed, issued, resets, req, changes, ended>>
  BY DEF ChangeAddress, ChangeBlocked, LockEnds, Tick
<1>2. req' \in [Requests -> SessionRequest] /\ jtis' \in Nat /\ Moves /\ MailsNothing
  BY <1>1, StayMoves
<1>3. account' \in Account /\ account'.sessions = account.sessions
      /\ account'.changedAt = account.changedAt
  BY DEF ChangeAddress, ChangeBlocked, LockEnds, Tick, SessionsTypeOK, Account
<1>4. now' \in Nat /\ now <= now'
  BY DEF ChangeAddress, ChangeBlocked, LockEnds, Tick, SessionsTypeOK
<1>5. Shrinks /\ Signs /\ handed' \subseteq Nat
  BY <1>1, <1>3, <1>4 DEF Shrinks, Signs, SessionsTypeOK
<1> QED
  BY <1>1, <1>2, <1>3, <1>5, HarmlessStep

-----------------------------------------------------------------------------
\* What these steps keep.

LEMMA QuietLimited ==
  ASSUME SessionsTypeOK, Limited, Quiet
  PROVE  Limited'
<1>1. Fit(account'.sessions)
  <2>1. account'.sessions \subseteq account.sessions
    BY DEF Quiet, Shrinks
  <2>2. IsFiniteSet(account.sessions) /\ Cardinality(account.sessions) <= MaxSessions
    BY DEF Limited, Fit
  <2>3. /\ IsFiniteSet(account'.sessions)
        /\ Cardinality(account'.sessions) <= Cardinality(account.sessions)
        /\ Cardinality(account'.sessions) \in Nat /\ Cardinality(account.sessions) \in Nat
    BY <2>1, <2>2, FS_Subset, FS_CardinalityType
  <2> QED
    BY <2>2, <2>3, SessionsAssumption DEF Fit
<1>2. ASSUME NEW s \in Requests, req'[s].at = "store" PROVE Fit(req'[s].list)
  BY <1>2 DEF Quiet, Moves, Limited
<1> QED
  BY <1>1, <1>2 DEF Limited, Fit

LEMMA QuietEnded ==
  ASSUME SessionsTypeOK, Ended, Quiet
  PROVE  Ended'
<1> DEFINE before == Jtis(account.sessions)
           after  == Jtis(account'.sessions)
           lists  == {s \in Requests : req[s].at = "store"}
<1>1. /\ after \subseteq before /\ before \subseteq Nat /\ ended \subseteq Nat /\ jtis \in Nat
      /\ ended \subseteq ended' /\ ended' \subseteq ended \cup (before \ after)
      /\ \A s \in lists : Jtis(req[s].list) \cap ended' \subseteq ended
  BY DEF Quiet, Shrinks, EndSessions, Jtis, SessionsTypeOK, Account, Session
<1>2. \A s \in Requests : req[s].jti \in Nat /\ Jtis(req[s].list) \subseteq Nat
  BY DEF SessionsTypeOK, SessionRequest, Jtis, Session
<1>3. /\ \A j \in before \cup ended : j <= jtis
      /\ before \cap ended = {}
  BY DEF Ended, Numbered
<1>4. \A s \in lists : /\ \A j \in Jtis(req[s].list) : j <= jtis
                       /\ Jtis(req[s].list) \cap ended = {}
  BY DEF Ended, Numbered
<1>5. \A s \in Requests : req[s].at = "list" =>
        /\ req[s].jti <= jtis /\ req[s].jti \notin before \cup ended
        /\ \A t \in lists : req[s].jti \notin Jtis(req[t].list)
        /\ \A t \in Requests : t # s /\ req[t].at = "list" => req[s].jti # req[t].jti
  BY DEF Ended, Fresh
<1>6. jtis <= jtis' /\ jtis' \in Nat
  BY <1>1 DEF Quiet, Moves
<1>7. \A s \in Requests : req'[s].at = "store" => s \in lists /\ req'[s] = req[s]
  BY DEF Quiet, Moves
<1>8. \A s \in Requests : req'[s].at = "list" =>
        \/ req'[s] = req[s]
        \/ /\ req'[s].jti = jtis + 1 /\ jtis' = jtis + 1
           /\ \A t \in Requests \ {s} : req'[t] = req[t]
  BY DEF Quiet, Moves
<1> HIDE DEF before, after, lists
<1>9. /\ \A j \in after \cup ended' : j <= jtis'
      /\ after \cap ended' = {}
  <2>1. \A j \in after \cup ended' : j \in before \cup ended /\ j \in Nat
    BY <1>1
  <2> QED
    BY <1>1, <1>3, <1>6, <2>1
<1>10. \A s \in Requests : req'[s].at = "store" =>
         /\ \A j \in Jtis(req'[s].list) : j <= jtis'
         /\ Jtis(req'[s].list) \cap ended' = {}
  BY <1>1, <1>2, <1>4, <1>6, <1>7
<1>11. ASSUME NEW s \in Requests, req'[s].at = "list"
       PROVE  /\ req'[s].jti <= jtis' /\ req'[s].jti \notin after \cup ended'
              /\ \A t \in Requests :
                   /\ req'[t].at = "store" => req'[s].jti \notin Jtis(req'[t].list)
                   /\ t # s /\ req'[t].at = "list" => req'[s].jti # req'[t].jti
  <2>1. CASE req'[s] = req[s]
    <3>1. req[s].at = "list" /\ req[s].jti <= jtis /\ req[s].jti \notin before \cup ended
      BY <1>5, <1>11, <2>1
    <3>2. ASSUME NEW t \in Requests, t # s, req'[t].at = "list" PROVE req'[s].jti # req'[t].jti
      <4>1. CASE req'[t] = req[t]
        BY <1>5, <1>11, <2>1, <3>2, <4>1
      <4>2. CASE req'[t].jti = jtis + 1
        BY <1>1, <1>2, <2>1, <3>1, <4>2
      <4> QED
        BY <1>8, <3>2, <4>1, <4>2
    <3>3. \A t \in Requests : req'[t].at = "store" => req'[s].jti \notin Jtis(req'[t].list)
      BY <1>5, <1>7, <2>1, <3>1
    <3>4. req'[s].jti <= jtis' /\ req'[s].jti \notin after \cup ended'
      BY <1>1, <1>2, <1>6, <2>1, <3>1
    <3> QED
      BY <3>2, <3>3, <3>4
  <2>2. CASE /\ req'[s].jti = jtis + 1 /\ jtis' = jtis + 1
             /\ \A t \in Requests \ {s} : req'[t] = req[t]
    <3>1. \A j \in Nat : j <= jtis => j # jtis + 1
      BY <1>1
    <3>2. ASSUME NEW t \in Requests, t # s, req'[t].at = "list" PROVE req'[s].jti # req'[t].jti
      BY <1>2, <1>5, <2>2, <3>1, <3>2
    <3>3. \A t \in Requests : req'[t].at = "store" => req'[s].jti \notin Jtis(req'[t].list)
      BY <1>2, <1>4, <1>7, <2>2, <3>1
    <3>4. req'[s].jti <= jtis' /\ req'[s].jti \notin after \cup ended'
      BY <1>1, <1>3, <2>2, <3>1
    <3> QED
      BY <3>2, <3>3, <3>4
  <2> QED
    BY <1>8, <1>11, <2>1, <2>2
<1> QED
  BY <1>9, <1>10, <1>11 DEF Ended, Numbered, Fresh, after

LEMMA SignsKeeps ==
  ASSUME SessionsTypeOK, Signatures, Signs
  PROVE  Signatures'
<1>1. /\ now \in Nat /\ changes \in Nat /\ account.changedAt \in Nat
      /\ \A t \in issued : t.iat \in Nat /\ t.epoch \in Nat
  BY DEF SessionsTypeOK, Account, AccessToken
<1>2. CASE /\ account'.changedAt = account.changedAt /\ changes' = changes
           /\ now' \in Nat /\ now <= now'
           /\ issued' = issued \/ Signed
  BY <1>1, <1>2 DEF Signatures, Signed
<1>3. CASE /\ account'.changedAt = now /\ changes' = changes + 1
           /\ now' = now /\ issued' = issued
  BY <1>1, <1>3 DEF Signatures
<1> QED
  BY <1>2, <1>3 DEF Signs

LEMMA MailsNothingKeeps ==
  ASSUME SessionsTypeOK, Mailing, UNCHANGED resets, MailsNothing
  PROVE  Mailing'
<1>1. links' = links /\ spent' = spent
  BY DEF resets
<1>2. ASSUME NEW s \in Requests
      PROVE  /\ req'[s].at = "forget" => req'[s].link = 0
             /\ req'[s].at = "mail" => req'[s].link \in Numbers(links) \cup spent.gone
  BY DEF Mailing, MailsNothing
<1> QED
  BY <1>1, <1>2 DEF Mailing, Numbers

LEMMA QuietKeeps ==
  ASSUME SessionsTypeOK, Limited, Ended, Signatures, Quiet
  PROVE  SessionsTypeOK' /\ Limited' /\ Ended' /\ Signatures'
  BY QuietLimited, QuietEnded, SignsKeeps DEF Quiet

LEMMA HarmlessKeeps ==
  ASSUME IInv, Harmless PROVE IInv'
  BY QuietKeeps, MailsNothingKeeps DEF IInv, Harmless

-----------------------------------------------------------------------------
\* The list of a request: what was read, and the new session.
LEMMA ListSessionsStep ==
  ASSUME IInv, NEW r \in Requests, ListSessions(r)
  PROVE  IInv'
<1> DEFINE x  == [jti |-> req[r].jti, name |-> req[r].name, live |-> TRUE]
           new == Extended(account.sessions, x)
           q  == [req[r] EXCEPT !.at = "store", !.list = new]
<1>1. /\ req[r].at = "list" /\ Go(r, q)
      /\ UNCHANGED <<account, jtis, handed, issued, resets, now, changes, ended>>
  BY DEF ListSessions, Current
<1>2. /\ SessionsTypeOK /\ Limited /\ Ended /\ Signatures /\ Mailing
      /\ account.sessions \in SUBSET Session /\ x \in Session /\ req[r] \in SessionRequest
  BY DEF IInv, SessionsTypeOK, Account, SessionRequest, Session
<1>3. Fit(new) /\ new \subseteq Session
  <2> HIDE DEF x
  <2>1. Fit(account.sessions)
    BY <1>2 DEF Limited
  <2>2. Fit(new)
    BY <1>2, <2>1, ExtendedFits
  <2>3. new \subseteq account.sessions \cup {x}
    BY ExtendedKeeps
  <2> QED
    BY <1>2, <2>2, <2>3
<1>4. Jtis(new) \subseteq Jtis(account.sessions) \cup {req[r].jti}
  BY ExtendedKeeps
<1> HIDE DEF new
<1>5. q \in SessionRequest /\ q.at = "store" /\ q.list = new
  BY <1>2, <1>3 DEF SessionRequest, SessionSteps
<1> HIDE DEF q
<1>6. /\ req' \in [Requests -> SessionRequest] /\ req'[r] = q
      /\ \A s \in Requests : s # r => req'[s] = req[s]
  BY <1>1, <1>2, <1>5, GoTyped
<1>7. SessionsTypeOK'
  BY <1>1, <1>2, <1>6 DEF SessionsTypeOK, resets
<1>8. Limited'
  <2>1. ASSUME NEW s \in Requests, req'[s].at = "store" PROVE Fit(req'[s].list)
    BY <1>2, <1>3, <1>5, <1>6, <2>1 DEF Limited
  <2> QED
    BY <1>1, <1>2, <2>1 DEF Limited, Fit
<1>9. Ended'
  <2>1. Jtis(account'.sessions) = Jtis(account.sessions) /\ jtis' = jtis /\ ended' = ended
    BY <1>1
  <2>2. /\ \A j \in Jtis(account.sessions) \cup ended : j <= jtis
        /\ Jtis(account.sessions) \cap ended = {}
        /\ req[r].jti <= jtis /\ req[r].jti \notin ended
    BY <1>1, <1>2 DEF Ended, Numbered, Fresh
  <2>3. ASSUME NEW s \in Requests, req'[s].at = "store"
        PROVE  /\ \A j \in Jtis(req'[s].list) : j <= jtis
               /\ Jtis(req'[s].list) \cap ended = {}
    <3>1. CASE s = r
      BY <1>4, <1>5, <1>6, <2>2, <3>1
    <3>2. CASE s # r
      BY <1>2, <1>6, <2>3, <3>2 DEF Ended, Numbered
    <3> QED
      BY <3>1, <3>2
  <2>4. ASSUME NEW s \in Requests, req'[s].at = "list"
        PROVE  /\ req'[s].jti <= jtis /\ req'[s].jti \notin Jtis(account.sessions) \cup ended
               /\ \A t \in Requests :
                    /\ req'[t].at = "store" => req'[s].jti \notin Jtis(req'[t].list)
                    /\ t # s /\ req'[t].at = "list" => req'[s].jti # req'[t].jti
    <3>1. s # r /\ req'[s] = req[s]
      BY <1>5, <1>6, <2>4
    <3>2. req[s].jti # req[r].jti /\ req[s].jti \notin Jtis(account.sessions)
      BY <1>1, <1>2, <2>4, <3>1 DEF Ended, Fresh
    <3>3. ASSUME NEW t \in Requests
          PROVE  /\ req'[t].at = "store" => req'[s].jti \notin Jtis(req'[t].list)
                 /\ t # s /\ req'[t].at = "list" => req'[s].jti # req'[t].jti
      <4>1. CASE t = r
        BY <1>4, <1>5, <1>6, <3>1, <3>2, <4>1
      <4>2. CASE t # r
        BY <1>2, <1>6, <2>4, <3>1, <4>2 DEF Ended, Fresh
      <4> QED
        BY <4>1, <4>2
    <3>4. req'[s].jti <= jtis /\ req'[s].jti \notin ended
      BY <1>2, <2>4, <3>1 DEF Ended, Fresh
    <3> QED
      BY <3>1, <3>2, <3>3, <3>4
  <2> QED
    BY <2>1, <2>2, <2>3, <2>4 DEF Ended, Numbered, Fresh
<1>10. Signatures'
  BY <1>1, <1>2, SignsKeeps DEF Signs, SessionsTypeOK
<1>11. MailsNothing
  BY <1>5, <1>6 DEF MailsNothing
<1>12. Mailing'
  BY <1>1, <1>2, <1>11, MailsNothingKeeps
<1> QED
  BY <1>7, <1>8, <1>9, <1>10, <1>12 DEF IInv

\* The list is written: what it has not, and no other list has, is ended.
LEMMA StoreSessionsStep ==
  ASSUME IInv, NEW r \in Requests, StoreSessions(r)
  PROVE  IInv'
<1> DEFINE list == req[r].list
           q == IF req[r].kind = "refresh" THEN NoSessionRequest ELSE [req[r] EXCEPT !.at = "track"]
<1>1. /\ req[r].at = "store" /\ Go(r, q)
      /\ account' = [account EXCEPT !.sessions = list]
      /\ EndSessions(account.sessions, list)
      /\ issued' = issued \/ Signed
      /\ handed' \subseteq handed \cup {req[r].jti}
      /\ UNCHANGED <<jtis, resets, now, changes>>
  BY DEF StoreSessions
<1>2. /\ SessionsTypeOK /\ Limited /\ Ended /\ Signatures /\ Mailing
      /\ req[r] \in SessionRequest /\ list \in SUBSET Session /\ req[r].jti \in Nat
  BY DEF IInv, SessionsTypeOK, SessionRequest
<1>3. q \in SessionRequest /\ q.at \in {"idle", "track"}
  BY <1>2, NoRequestTyped DEF SessionRequest, SessionSteps
<1> HIDE DEF q
<1>4. /\ req' \in [Requests -> SessionRequest] /\ req'[r] = q
      /\ \A s \in Requests : s # r => req'[s] = req[s]
  BY <1>1, <1>2, <1>3, GoTyped
<1>5. /\ account' \in Account /\ account'.sessions = list
      /\ account'.changedAt = account.changedAt
  BY <1>1, <1>2 DEF SessionsTypeOK, Account
<1>6. /\ Jtis(account.sessions) \subseteq Nat /\ Jtis(list) \subseteq Nat /\ ended \subseteq Nat
      /\ ended' = ended \cup {j \in Jtis(account.sessions) \ Jtis(list) :
                      \A s \in Requests : req[s].at = "store" => j \notin Jtis(req[s].list)}
  BY <1>1, <1>2 DEF EndSessions, Jtis, SessionsTypeOK, Account, Session
<1>7. SessionsTypeOK'
  BY <1>1, <1>2, <1>4, <1>5, <1>6 DEF SessionsTypeOK, resets, Signed, AccessToken
<1>8. Limited'
  <2>1. Fit(list)
    BY <1>1, <1>2 DEF Limited
  <2>2. ASSUME NEW s \in Requests, req'[s].at = "store" PROVE Fit(req'[s].list)
    BY <1>2, <1>3, <1>4, <2>2 DEF Limited
  <2> QED
    BY <1>5, <2>1, <2>2 DEF Limited, Fit
<1>9. Ended'
  <2>1. /\ \A j \in Jtis(account.sessions) \cup ended : j <= jtis
        /\ \A s \in Requests : req[s].at = "store" =>
             /\ \A j \in Jtis(req[s].list) : j <= jtis
             /\ Jtis(req[s].list) \cap ended = {}
    BY <1>2 DEF Ended, Numbered
  <2>2. /\ \A j \in Jtis(list) \cup ended' : j <= jtis
        /\ Jtis(list) \cap ended' = {}
    BY <1>1, <1>6, <2>1
  <2>3. ASSUME NEW s \in Requests, req'[s].at = "store"
        PROVE  /\ \A j \in Jtis(req'[s].list) : j <= jtis
               /\ Jtis(req'[s].list) \cap ended' = {}
    BY <1>3, <1>4, <1>6, <2>1, <2>3
  <2>4. ASSUME NEW s \in Requests, req'[s].at = "list"
        PROVE  /\ req'[s].jti <= jtis /\ req'[s].jti \notin Jtis(list) \cup ended'
               /\ \A t \in Requests :
                    /\ req'[t].at = "store" => req'[s].jti \notin Jtis(req'[t].list)
                    /\ t # s /\ req'[t].at = "list" => req'[s].jti # req'[t].jti
    <3>1. s # r /\ req'[s] = req[s] /\ req[s].at = "list"
      BY <1>3, <1>4, <2>4
    <3>2. /\ req[s].jti <= jtis /\ req[s].jti \notin Jtis(account.sessions) \cup ended
          /\ \A t \in Requests :
               /\ req[t].at = "store" => req[s].jti \notin Jtis(req[t].list)
               /\ t # s /\ req[t].at = "list" => req[s].jti # req[t].jti
      BY <1>2, <3>1 DEF Ended, Fresh
    <3>3. req[s].jti \notin Jtis(list) \cup ended'
      BY <1>1, <1>6, <3>2
    <3>4. \A t \in Requests : req'[t].at \in {"store", "list"} => req'[t] = req[t]
      BY <1>3, <1>4
    <3> QED
      BY <3>1, <3>2, <3>3, <3>4
  <2> QED
    BY <1>1, <1>5, <2>2, <2>3, <2>4 DEF Ended, Numbered, Fresh
<1>10. Signatures'
  BY <1>1, <1>2, <1>5, SignsKeeps DEF Signs, SessionsTypeOK
<1>11. MailsNothing
  BY <1>3, <1>4 DEF MailsNothing
<1>12. Mailing'
  BY <1>1, <1>2, <1>11, MailsNothingKeeps
<1> QED
  BY <1>7, <1>8, <1>9, <1>10, <1>12 DEF IInv

LEMMA SessionExpiresStep ==
  ASSUME IInv, NEW s \in account.sessions, SessionExpires(s)
  PROVE  IInv'
<1> DEFINE x == [s EXCEPT !.live = FALSE]
           new == (account.sessions \ {s}) \cup {x}
<1>1. /\ account' = [account EXCEPT !.sessions = new]
      /\ UNCHANGED <<jtis, handed, issued, resets, now, req, changes, ended>>
  BY DEF SessionExpires
<1>2. /\ SessionsTypeOK /\ Limited /\ Ended /\ Signatures /\ Mailing
      /\ account.sessions \in SUBSET Session
  BY DEF IInv, SessionsTypeOK, Account
<1>3. x \in Session /\ x.jti = s.jti
  BY <1>2 DEF Session
<1>4. new \in SUBSET Session
  BY <1>2, <1>3
<1> HIDE DEF x
<1>5. Fit(new) /\ Jtis(new) = Jtis(account.sessions)
  BY <1>2, <1>3, ExpiredFits DEF Limited
<1> HIDE DEF new
<1>6. account' \in Account /\ account'.sessions = new /\ account'.changedAt = account.changedAt
  BY <1>1, <1>2, <1>4 DEF SessionsTypeOK, Account
<1>7. SessionsTypeOK' /\ Limited'
  BY <1>1, <1>2, <1>5, <1>6 DEF SessionsTypeOK, resets, Limited, Fit
<1>8. Ended'
  BY <1>1, <1>2, <1>5, <1>6 DEF Ended, Numbered, Fresh
<1>9. Signatures' /\ Mailing'
  BY <1>1, <1>2, <1>6, SignsKeeps, MailsNothingKeeps DEF Signs, MailsNothing, SessionsTypeOK
<1> QED
  BY <1>7, <1>8, <1>9 DEF IInv

-----------------------------------------------------------------------------
\* The links.

\* What the steps of links leave alone.
Elsewhere == UNCHANGED <<account, jtis, handed, issued, now, changes, ended>>

LEMMA LinkStep ==
  ASSUME IInv, NEW r \in Requests, NEW q \in SessionRequest, Go(r, q), Elsewhere,
         q.at \notin {"list", "store"},
         links' \subseteq Link, linkCount' \in Nat,
         spent' \in [mailed : SUBSET Nat, gone : SUBSET Nat]
  PROVE  SessionsTypeOK' /\ Limited' /\ Ended' /\ Signatures'
<1>1. SessionsTypeOK /\ Limited /\ Ended /\ Signatures
  BY DEF IInv
<1>2. /\ req' \in [Requests -> SessionRequest] /\ req'[r] = q
      /\ \A s \in Requests : s # r => req'[s] = req[s]
  BY <1>1, GoTyped
<1>3. SessionsTypeOK'
  BY <1>1, <1>2 DEF SessionsTypeOK, Elsewhere
<1>4. Quiet
  BY <1>1, <1>2, <1>3 DEF Quiet, Elsewhere, Shrinks, Moves, Signs, SessionsTypeOK
<1> QED
  BY <1>1, <1>4, QuietKeeps

LEMMA ForgetLinksStep ==
  ASSUME IInv, NEW r \in Requests, ForgetLinks(r)
  PROVE  IInv'
<1> DEFINE q == [req[r] EXCEPT !.at = ForgotSteps.forget]
<1>1. /\ req[r].at = "forget" /\ links' = {} /\ Go(r, q) /\ Elsewhere /\ linkCount' = linkCount
      /\ spent' = [spent EXCEPT !.gone = @ \cup (Numbers(links) \ {req[r].link})]
  BY DEF ForgetLinks, Elsewhere
<1>2. SessionsTypeOK /\ Mailing /\ Numbers(links) \subseteq Nat
  BY DEF IInv, SessionsTypeOK, Numbers, Link
<1>3. q \in SessionRequest /\ q.at = "link"
  BY <1>2 DEF SessionsTypeOK, SessionRequest, SessionSteps, ForgotSteps
<1> HIDE DEF q
<1>4. spent' \in [mailed : SUBSET Nat, gone : SUBSET Nat]
  BY <1>1, <1>2 DEF SessionsTypeOK
<1>5. SessionsTypeOK' /\ Limited' /\ Ended' /\ Signatures'
  BY <1>1, <1>2, <1>3, <1>4, LinkStep DEF SessionsTypeOK
<1>6. /\ req'[r] = q /\ \A s \in Requests : s # r => req'[s] = req[s]
  BY <1>1, <1>2, <1>3, GoTyped
<1>7. Mailing'
  <2>1. /\ req[r].link = 0 /\ \A n \in Numbers(links) : n # 0
        /\ spent'.mailed = spent.mailed /\ spent'.gone = spent.gone \cup Numbers(links)
        /\ Numbers(links') = {}
    BY <1>1, <1>2 DEF Mailing, SessionsTypeOK, Numbers
  <2> QED
    BY <1>2, <1>3, <1>6, <2>1 DEF Mailing
<1> QED
  BY <1>5, <1>7 DEF IInv

LEMMA CreateLinkStep ==
  ASSUME IInv, NEW r \in Requests, CreateLink(r)
  PROVE  IInv'
<1> DEFINE q == [req[r] EXCEPT !.at = ForgotSteps.link, !.link = linkCount + 1]
           l == [n |-> linkCount + 1, live |-> TRUE]
<1>1. /\ Go(r, q) /\ Elsewhere /\ linkCount' = linkCount + 1
      /\ links' = links \cup {l} /\ spent' = spent
  BY DEF CreateLink, Elsewhere
<1>2. /\ SessionsTypeOK /\ Mailing /\ linkCount + 1 \in Nat /\ linkCount + 1 # 0
      /\ req[r] \in SessionRequest
  BY DEF IInv, SessionsTypeOK
<1>3. q \in SessionRequest /\ q.at = "mail" /\ q.link = linkCount + 1
  BY <1>2 DEF SessionRequest, SessionSteps, ForgotSteps
<1>4. l \in Link /\ l.n = linkCount + 1
  BY <1>2 DEF Link
<1> HIDE DEF q, l
<1>5. SessionsTypeOK' /\ Limited' /\ Ended' /\ Signatures'
  <2>1. links' \subseteq Link /\ linkCount' \in Nat /\ spent' \in [mailed : SUBSET Nat, gone : SUBSET Nat]
    BY <1>1, <1>2, <1>4 DEF SessionsTypeOK
  <2> QED
    BY <1>1, <1>3, <2>1, LinkStep
<1>6. /\ req'[r] = q /\ \A s \in Requests : s # r => req'[s] = req[s]
  BY <1>1, <1>2, <1>3, GoTyped
<1>7. Mailing'
  <2>1. Numbers(links') = Numbers(links) \cup {linkCount + 1}
    BY <1>1, <1>4 DEF Numbers
  <2> QED
    BY <1>1, <1>2, <1>3, <1>6, <2>1 DEF Mailing
<1> QED
  BY <1>5, <1>7 DEF IInv

LEMMA MailLinkStep ==
  ASSUME IInv, NEW r \in Requests, NEW sent \in BOOLEAN, MailLink(r, sent)
  PROVE  IInv'
<1> DEFINE q == IF sent THEN NoSessionRequest ELSE [req[r] EXCEPT !.at = "unsend"]
<1>1. /\ req[r].at = "mail" /\ Go(r, q) /\ Elsewhere
      /\ links' = links /\ linkCount' = linkCount
      /\ spent' = IF sent THEN [spent EXCEPT !.mailed = @ \cup {req[r].link}] ELSE spent
  BY DEF MailLink, Elsewhere
<1>2. SessionsTypeOK /\ Mailing /\ req[r] \in SessionRequest /\ req[r].link \in Nat
  BY DEF IInv, SessionsTypeOK, SessionRequest
<1>3. q \in SessionRequest /\ q.at \in {"idle", "unsend"}
  BY <1>2, NoRequestTyped DEF SessionRequest, SessionSteps
<1> HIDE DEF q
<1>4. /\ spent' \in [mailed : SUBSET Nat, gone : SUBSET Nat]
      /\ spent'.gone = spent.gone /\ spent'.mailed \subseteq spent.mailed \cup {req[r].link}
  BY <1>1, <1>2 DEF SessionsTypeOK
<1>5. SessionsTypeOK' /\ Limited' /\ Ended' /\ Signatures'
  BY <1>1, <1>2, <1>3, <1>4, LinkStep DEF SessionsTypeOK
<1>6. /\ req'[r] = q /\ \A s \in Requests : s # r => req'[s] = req[s]
  BY <1>1, <1>2, <1>3, GoTyped
<1>7. Mailing'
  <2>1. req[r].link \in Numbers(links) \cup spent.gone /\ Numbers(links') = Numbers(links)
    BY <1>1, <1>2 DEF Mailing
  <2> QED
    BY <1>2, <1>3, <1>4, <1>6, <2>1 DEF Mailing
<1> QED
  BY <1>5, <1>7 DEF IInv

LEMMA DiscardLinkStep ==
  ASSUME IInv, NEW r \in Requests, DiscardLink(r)
  PROVE  IInv'
<1>1. /\ Go(r, NoSessionRequest) /\ Elsewhere /\ linkCount' = linkCount
      /\ links' = {l \in links : l.n # req[r].link}
      /\ spent' = [spent EXCEPT !.gone = @ \cup {req[r].link}]
  BY DEF DiscardLink, Elsewhere
<1>2. SessionsTypeOK /\ Mailing /\ req[r].link \in Nat
  BY DEF IInv, SessionsTypeOK, SessionRequest
<1>3. /\ spent' \in [mailed : SUBSET Nat, gone : SUBSET Nat]
      /\ spent'.mailed = spent.mailed /\ spent'.gone = spent.gone \cup {req[r].link}
      /\ links' \subseteq Link /\ linkCount' \in Nat
  BY <1>1, <1>2 DEF SessionsTypeOK
<1>4. SessionsTypeOK' /\ Limited' /\ Ended' /\ Signatures'
  BY <1>1, <1>3, NoRequestTyped, LinkStep
<1>5. /\ req'[r] = NoSessionRequest /\ \A s \in Requests : s # r => req'[s] = req[s]
  BY <1>1, <1>2, NoRequestTyped, GoTyped
<1>6. Mailing'
  <2>1. Numbers(links') = Numbers(links) \ {req[r].link}
    BY <1>1 DEF Numbers
  <2> QED
    BY <1>2, <1>3, <1>5, <2>1, NoRequestTyped DEF Mailing
<1> QED
  BY <1>4, <1>6 DEF IInv

LEMMA LinkExpiresStep ==
  ASSUME IInv, NEW l \in links, LinkExpires(l)
  PROVE  IInv'
<1> DEFINE new == IF l.live THEN (links \ {l}) \cup {[l EXCEPT !.live = FALSE]} ELSE links \ {l}
<1>1. /\ links' = new /\ Elsewhere /\ linkCount' = linkCount /\ req' = req
      /\ spent' = [spent EXCEPT !.gone = @ \cup {l.n}]
  BY DEF LinkExpires, Elsewhere
<1>2. /\ SessionsTypeOK /\ Limited /\ Ended /\ Signatures /\ Mailing
      /\ l \in Link /\ l.n \in Nat
  BY DEF IInv, SessionsTypeOK, Link
<1>3. /\ new \subseteq Link /\ Numbers(new) \subseteq Numbers(links)
      /\ Numbers(links) \subseteq Numbers(new) \cup {l.n}
  BY <1>2 DEF SessionsTypeOK, Link, Numbers
<1> HIDE DEF new
<1>4. /\ spent' \in [mailed : SUBSET Nat, gone : SUBSET Nat]
      /\ spent'.mailed = spent.mailed /\ spent'.gone = spent.gone \cup {l.n}
  BY <1>1, <1>2 DEF SessionsTypeOK
<1>5. SessionsTypeOK'
  BY <1>1, <1>2, <1>3, <1>4 DEF SessionsTypeOK, Elsewhere
<1>6. Quiet
  BY <1>1, <1>2, <1>5 DEF Quiet, Elsewhere, Shrinks, Moves, Signs, SessionsTypeOK
<1>7. Mailing'
  BY <1>1, <1>2, <1>3, <1>4 DEF Mailing
<1> QED
  BY <1>2, <1>6, <1>7, QuietKeeps DEF IInv

-----------------------------------------------------------------------------
\* Every step of a request, and every other step, keeps the invariant.

LEMMA NewRequestKeeps ==
  ASSUME IInv, NEW r \in Requests, NewSessionRequest(r)
  PROVE  IInv'
<1>1. SessionsTypeOK
  BY DEF IInv
<1>2. ASSUME NEW p \in Passwords, NEW name \in Names, Login(r, p, name) PROVE IInv'
  BY <1>1, <1>2, LoginStep, HarmlessKeeps
<1>3. ASSUME NEW name \in Names, OAuthLogin(r, name) PROVE IInv'
  BY <1>1, <1>3, OAuthLoginStep, HarmlessKeeps
<1>4. ASSUME NEW j \in handed, RefreshAccessToken(r, j) PROVE IInv'
  BY <1>1, <1>4, RefreshStep, HarmlessKeeps
<1>5. ASSUME NEW j \in handed \cup {0}, Logout(r, j) PROVE IInv'
  BY <1>1, <1>5, LogoutStep, HarmlessKeeps
<1>6. ASSUME NEW p \in Passwords, NEW new \in Passwords, ChangePassword(r, p, new) PROVE IInv'
  BY <1>1, <1>6, ChangePasswordStep, HarmlessKeeps
<1>7. CASE ForgotPassword(r)
  BY <1>1, <1>7, ForgotPasswordStep, HarmlessKeeps
<1>8. ASSUME NEW n \in spent.mailed, NEW new \in Passwords, ResetPassword(r, n, new) PROVE IInv'
  BY <1>1, <1>8, ResetPasswordStep, HarmlessKeeps
<1>9. ASSUME NEW n \in spent.mailed, VerifyResetLink(r, n) PROVE IInv'
  BY <1>1, <1>9, VerifyResetLinkStep, HarmlessKeeps
<1> QED
  BY <1>2, <1>3, <1>4, <1>5, <1>6, <1>7, <1>8, <1>9 DEF NewSessionRequest

LEMMA StepKeeps ==
  ASSUME IInv, NEW r \in Requests, SessionStep(r)
  PROVE  IInv'
<1>1. SessionsTypeOK
  BY DEF IInv
<1>2. CASE RecordFailure(r)
  BY <1>1, <1>2, RecordFailureStep, HarmlessKeeps
<1>3. CASE ResetCounters(r)
  BY <1>1, <1>3, ResetCountersStep, HarmlessKeeps
<1>4. CASE ListSessions(r)
  BY <1>4, ListSessionsStep
<1>5. CASE StoreSessions(r)
  BY <1>5, StoreSessionsStep
<1>6. CASE UpdateSessionTrack(r)
  BY <1>1, <1>6, UpdateSessionTrackStep, HarmlessKeeps
<1>7. CASE PullSession(r)
  BY <1>1, <1>7, PullSessionStep, HarmlessKeeps
<1>8. CASE RevokeAll(r)
  BY <1>1, <1>8, RevokeAllStep, HarmlessKeeps
<1>9. CASE ReadRemaining(r)
  BY <1>1, <1>9, ReadRemainingStep, HarmlessKeeps
<1>10. CASE TrackRemaining(r)
  BY <1>1, <1>10, TrackRemainingStep, HarmlessKeeps
<1>11. CASE SetPassword(r)
  BY <1>1, <1>11, SetPasswordStep, HarmlessKeeps
<1>12. CASE ForgetLinks(r)
  BY <1>12, ForgetLinksStep
<1>13. CASE CreateLink(r)
  BY <1>13, CreateLinkStep
<1>14. ASSUME NEW sent \in BOOLEAN, MailLink(r, sent) PROVE IInv'
  BY <1>14, MailLinkStep
<1>15. CASE DiscardLink(r)
  BY <1>15, DiscardLinkStep
<1>16. CASE RequestFails(r)
  BY <1>1, <1>16, RequestFailsStep, HarmlessKeeps
<1>17. CASE Sign(r)
  BY <1>1, <1>17, SignStep, HarmlessKeeps
<1>18. CASE CreateSession(r)
  BY <1>1, <1>18, CreateSessionStep, HarmlessKeeps
<1>19. CASE FindOwner(r)
  BY <1>1, <1>19, FindOwnerStep, HarmlessKeeps
<1> QED
  BY <1>2, <1>3, <1>4, <1>5, <1>6, <1>7, <1>8, <1>9, <1>10, <1>11, <1>12, <1>13, <1>14,
     <1>15, <1>16, <1>17, <1>18, <1>19 DEF SessionStep

LEMMA SessionsNextKeeps ==
  ASSUME IInv, SessionsNext
  PROVE  IInv'
<1>1. SessionsTypeOK
  BY DEF IInv
<1>2. ASSUME NEW r \in Requests, NewSessionRequest(r) \/ SessionStep(r) PROVE IInv'
  BY <1>2, NewRequestKeeps, StepKeeps
<1>3. ASSUME NEW new \in Passwords, SetAgentPassword(new) \/ ResetUserPassword(new) PROVE IInv'
  BY <1>1, <1>3, SetAgentPasswordStep, ResetUserPasswordStep, HarmlessKeeps
<1>4. CASE LogoutAllDevices \/ ClearUserSessions
  BY <1>1, <1>4, LogoutAllStep, HarmlessKeeps
<1>5. CASE ChangeAddress \/ ChangeBlocked \/ LockEnds \/ Tick
  BY <1>1, <1>5, AsideStep, HarmlessKeeps
<1>6. ASSUME NEW s \in account.sessions, SessionExpires(s) PROVE IInv'
  BY <1>6, SessionExpiresStep
<1>7. ASSUME NEW l \in links, LinkExpires(l) PROVE IInv'
  BY <1>7, LinkExpiresStep
<1> QED
  BY <1>2, <1>3, <1>4, <1>5, <1>6, <1>7 DEF SessionsNext

\* The steps of the other accounts leave all of it alone.
LEMMA UnchangedKeeps ==
  ASSUME IInv, UNCHANGED sessionVars
  PROVE  IInv'
<1>1. /\ account' = account /\ jtis' = jtis /\ handed' = handed /\ issued' = issued
      /\ links' = links /\ linkCount' = linkCount /\ now' = now /\ req' = req
      /\ changes' = changes /\ ended' = ended /\ spent' = spent
  BY DEF sessionVars
<1> QED
  BY <1>1 DEF IInv, SessionsTypeOK, Limited, Fit, Ended, Numbered, Fresh, Signatures,
              Mailing, Numbers

\* Whatever requests interleave, the stored sessions, tokens and links, and what requests
\* are about to write of them, agree (authToken.service.ts:80-121, 323-371).
THEOREM Invariant == Spec => []IInv
<1>1. Init => IInv
  BY InitEstablishes
<1>2. IInv /\ [Next]_<<scene, sessionVars, accountsVars>> => IInv'
  <2> SUFFICES ASSUME IInv, [Next]_<<scene, sessionVars, accountsVars>> PROVE IInv'
    OBVIOUS
  <2>1. CASE SessionsNext
    BY <2>1, SessionsNextKeeps
  <2>2. CASE UNCHANGED sessionVars
    BY <2>2, UnchangedKeeps
  <2> QED
    BY <2>1, <2>2 DEF Next, AtRest
<1> QED
  BY <1>1, <1>2, PTL DEF Spec

-----------------------------------------------------------------------------
\* Whatever logins, refreshes and Google sign-ins overlap, an account has at most
\* MaxSessions sessions (authToken.service.ts:108-118).
THEOREM LimitKept == Spec => []SessionLimit
<1>1. IInv => SessionLimit
  BY DEF IInv, Limited, Fit, SessionLimit
<1> QED
  BY <1>1, Invariant, PTL

\* A session that was ended while no request had it on a list to write stays ended
\* (authToken.service.ts:108-118, authSession.service.ts:65-115).
THEOREM EndedStays == Spec => []EndedStaysEnded
<1>1. IInv => EndedStaysEnded
  BY DEF IInv, Ended, EndedStaysEnded
<1> QED
  BY <1>1, Invariant, PTL

\* A token signed since the last change of the password is accepted
\* (auth.middleware.ts:90-105).
THEOREM FreshTokenAccepted == Spec => []FreshTokenWorks
<1>1. IInv => FreshTokenWorks
  <2> SUFFICES ASSUME IInv, NEW t \in issued, t.epoch = changes, ~account.blocked
               PROVE  Accepts(t)
    BY DEF FreshTokenWorks
  <2>1. account.changedAt <= t.iat /\ t.iat \in Nat /\ account.changedAt \in Nat
    BY DEF IInv, Signatures, SessionsTypeOK, Account, AccessToken
  <2> QED
    BY <2>1 DEF Accepts
<1> QED
  BY <1>1, Invariant, PTL

\* A mailed reset link is stored until it is used, expires or is superseded, or a
\* request finds that it cannot be used
\* (authToken.service.ts:293-339, auth.service.ts:214-244).
THEOREM MailedLinkStored == Spec => []MailedResetWorks
<1>1. IInv => MailedResetWorks
  BY DEF IInv, Mailing, MailedResetWorks
<1> QED
  BY <1>1, Invariant, PTL

-----------------------------------------------------------------------------
\* Addresses, verification links and images.

\* The requests that name an address, and where each kind may be.
Addressed == {"signup", "verify", "create", "agent", "googleLogin", "googleSignup"}

Imaging == {"drop", "upload", "show"}

Shape(p) ==
  /\ p.kind \in Addressed => p.email \in Emails
  /\ p.at \in {"supersede", "token"} => p.kind = "signup"
  /\ p.at = "insert" => p.kind \in Addressed
  /\ p.at = "wait" => p.kind = "create"
  /\ p.at \in {"byId", "byEmail"} => p.kind \in {"googleLogin", "googleSignup"}
  /\ p.at \in {"email", "phone"} =>
       p.kind \in {"signup", "verify", "create", "agent", "update", "profile", "self"}
  /\ p.kind = "signup" /\ p.at # "mail" => p.n = 0
  /\ p.at \in {"drop", "upload", "show"} => p.kind = "image"

Typed ==
  /\ scene \in Scenes
  /\ users \subseteq User /\ ids \in Nat
  /\ pending \subseteq Pending /\ serial \in Nat
  /\ objects \subseteq Nat
  /\ op \in [Ops -> Op]
  /\ history \in [mailed : SUBSET Nat, gone : SUBSET Nat, overlapped : SUBSET Emails,
                  lost : SUBSET Nat]
  /\ \A o \in Ops : Shape(op[o])

\* A user has one document, whose number was given.
Distinct ==
  /\ \A u \in users : u.id <= ids
  /\ \A u, v \in users : u.id = v.id => u = v

\* A link about to be mailed, or mailed, is stored or gone for a reason.
Promised ==
  /\ \A n \in Numbers(pending) : n # 0
  /\ MailedLinkWorks
  /\ \A o \in Ops : op[o].at = "mail" => op[o].n \in Numbers(pending) \cup history.gone

\* Two links of an address, or one and a signup about to store another, or two
\* such signups, overlapped.
Single ==
  /\ OneLinkPerAddress
  /\ \A o \in Ops, t \in pending :
       op[o].at = "token" /\ op[o].email = t.email => t.email \in history.overlapped
  /\ \A o, s \in Ops :
       o # s /\ op[o].at = "token" /\ op[s].at = "token" /\ op[o].email = op[s].email
         => op[o].email \in history.overlapped

\* The images that uploads in flight have replaced.
Replacing == {op[o].rec : o \in {s \in Ops : op[s].at \in {"upload", "show"}}}

\* An image belongs to one user, and is stored unless it is being replaced; one
\* about to be shown is stored and nobody's yet.
Imaged ==
  /\ \A u \in users : /\ u.image <= serial
                      /\ u.image \in objects \cup history.lost \cup {0} \cup Replacing
  /\ \A u, v \in users : u.image # 0 /\ u.image = v.image => u.id = v.id
  /\ \A o \in Ops :
       op[o].at \in Imaging =>
         /\ op[o].rec <= serial
         /\ op[o].rec # 0 => \A u \in users : u.image = op[o].rec => u.id = op[o].user
  /\ \A o \in Ops :
       op[o].at = "show" =>
         /\ op[o].n <= serial /\ op[o].n # 0 /\ op[o].n \in objects
         /\ \A u \in users : u.image # op[o].n
         /\ \A s \in Ops : /\ op[s].at \in Imaging => op[s].rec # op[o].n
                           /\ s # o /\ op[s].at = "show" => op[s].n # op[o].n

AInv == Typed /\ Distinct /\ Promised /\ Single /\ Imaged

-----------------------------------------------------------------------------
\* Initially the accounts of the scene, and nothing else.

LEMMA NoOpShaped == NoOp \in Op /\ Shape(NoOp) /\ NoOp.at = "idle"
  BY DEF NoOp, Op, OpKinds, OpSteps, Types, Shape, Addressed

LEMMA AccountsInitEstablishes == Init => AInv
<1> SUFFICES ASSUME Init PROVE AInv
  OBVIOUS
<1>1. /\ scene \in Scenes /\ users = scene.users /\ ids = Cardinality(users)
      /\ pending = {} /\ serial = 0 /\ objects = {}
      /\ op = [o \in Ops |-> NoOp]
      /\ history = [mailed |-> {}, gone |-> {}, overlapped |-> {}, lost |-> {}]
  BY DEF Init, SessionsInit, AccountsInit
<1>2. /\ users \subseteq User /\ IsFiniteSet(users)
      /\ \A u \in users : u.id <= Cardinality(users) /\ u.image = 0
      /\ \A u, v \in users :
           u # v => u.id # v.id /\ u.email # v.email /\ (u.phone = None \/ u.phone # v.phone)
  BY <1>1, ScenesAssumption
<1>3. \A o \in Ops : op[o] = NoOp /\ op[o].at = "idle"
  BY <1>1, NoOpShaped
<1>4. Typed
  BY <1>1, <1>2, NoOpShaped, FS_CardinalityType DEF Typed
<1>5. Distinct
  BY <1>1, <1>2 DEF Distinct
<1>6. Promised /\ Single
  BY <1>1, <1>3 DEF Promised, Single, MailedLinkWorks, OneLinkPerAddress, Numbers
<1>7. Imaged
  BY <1>1, <1>2, <1>3 DEF Imaged, Imaging
<1> QED
  BY <1>4, <1>5, <1>6, <1>7 DEF AInv

-----------------------------------------------------------------------------
\* What most steps leave alone.

SameUsers == users' = users /\ ids' = ids

LinksAside ==
  /\ pending' = pending
  /\ history'.mailed = history.mailed /\ history'.gone = history.gone
  /\ history'.overlapped = history.overlapped
  /\ \A o \in Ops : op'[o] = op[o] \/ op'[o].at \notin {"mail", "token"}

ImagesAside ==
  /\ serial' \in Nat /\ serial <= serial'
  /\ objects' = objects /\ history'.lost = history.lost
  /\ \A u \in users' :
       u.image = 0 \/ \E v \in users : v.id = u.id /\ v.image = u.image
  /\ \A o \in Ops : \/ op'[o] = op[o]
                    \/ op'[o].at \notin Imaging /\ op[o].at \notin {"upload", "show"}

LEMMA SameUsersKeeps ==
  ASSUME Distinct, SameUsers PROVE Distinct'
  BY DEF Distinct, SameUsers

LEMMA LinksAsideKeeps ==
  ASSUME Promised, Single, LinksAside PROVE Promised' /\ Single'
<1>1. Promised'
  BY DEF Promised, LinksAside, MailedLinkWorks, Numbers
<1>2. Single'
  BY DEF Single, LinksAside, OneLinkPerAddress
<1> QED
  BY <1>1, <1>2

LEMMA ImagesAsideKeeps ==
  ASSUME Typed, Imaged, ImagesAside PROVE Imaged'
<1>1. /\ serial \in Nat /\ serial' \in Nat /\ serial <= serial'
      /\ objects' = objects /\ history'.lost = history.lost
      /\ \A u \in users : u.image \in Nat
      /\ \A o \in Ops : op[o].rec \in Nat /\ op[o].n \in Nat
  BY DEF Typed, ImagesAside, User, Op
<1>2. ASSUME NEW o \in Ops, op'[o].at \in Imaging PROVE op'[o] = op[o]
  BY <1>2 DEF ImagesAside
<1>3. Replacing' = Replacing
  BY DEF ImagesAside, Replacing, Imaging
<1>4. ASSUME NEW u \in users'
      PROVE  \/ u.image = 0
             \/ \E v \in users : v.id = u.id /\ v.image = u.image
  BY DEF ImagesAside
<1>5. \A u \in users' : /\ u.image <= serial'
                        /\ u.image \in objects' \cup history'.lost \cup {0} \cup Replacing'
  BY <1>1, <1>3, <1>4 DEF Imaged
<1>6. \A u, v \in users' : u.image # 0 /\ u.image = v.image => u.id = v.id
  BY <1>4 DEF Imaged
<1>7. ASSUME NEW o \in Ops, op'[o].at \in Imaging
      PROVE  /\ op'[o].rec <= serial'
             /\ op'[o].rec # 0 => \A u \in users' : u.image = op'[o].rec => u.id = op'[o].user
  BY <1>1, <1>2, <1>4, <1>7 DEF Imaged
<1>8. ASSUME NEW o \in Ops, op'[o].at = "show"
      PROVE  /\ op'[o].n <= serial' /\ op'[o].n # 0 /\ op'[o].n \in objects'
             /\ \A u \in users' : u.image # op'[o].n
             /\ \A s \in Ops : /\ op'[s].at \in Imaging => op'[s].rec # op'[o].n
                               /\ s # o /\ op'[s].at = "show" => op'[s].n # op'[o].n
  <2>1. op'[o] = op[o] /\ op[o].at = "show"
    BY <1>2, <1>8 DEF Imaging
  <2>2. op[o].n # 0 /\ op[o].n <= serial /\ op[o].n \in objects
    BY <2>1 DEF Imaged
  <2>3. \A u \in users' : u.image # op'[o].n
    BY <1>4, <2>1, <2>2 DEF Imaged
  <2>4. \A s \in Ops : /\ op'[s].at \in Imaging => op'[s].rec # op'[o].n
                       /\ s # o /\ op'[s].at = "show" => op'[s].n # op'[o].n
    BY <1>2, <2>1 DEF Imaged, Imaging
  <2> QED
    BY <1>1, <2>1, <2>2, <2>3, <2>4
<1> QED
  BY <1>5, <1>6, <1>7, <1>8 DEF Imaged

-----------------------------------------------------------------------------
\* The request in slot o goes on as p.

LEMMA SetTyped ==
  ASSUME Typed, NEW o \in Ops, NEW p \in Op, Shape(p), Set(o, p)
  PROVE  /\ op' \in [Ops -> Op] /\ op'[o] = p
         /\ \A s \in Ops : s # o => op'[s] = op[s]
         /\ \A s \in Ops : Shape(op'[s])
  BY DEF Set, Typed

\* A step of which only the request itself may notice anything.
LEMMA PrivateStep ==
  ASSUME AInv, UNCHANGED scene, NEW o \in Ops, NEW p \in Op, Shape(p), Set(o, p),
         p.at \notin Imaging \cup {"mail", "token"}, op[o].at \notin {"upload", "show"},
         UNCHANGED <<users, ids, pending, serial, objects, history>>
  PROVE  AInv'
<1>1. Typed /\ Distinct /\ Promised /\ Single /\ Imaged
  BY DEF AInv
<1>2. /\ op' \in [Ops -> Op] /\ op'[o] = p
      /\ \A s \in Ops : s # o => op'[s] = op[s]
      /\ \A s \in Ops : Shape(op'[s])
  BY <1>1, SetTyped
<1>3. Typed'
  BY <1>1, <1>2 DEF Typed
<1>4. SameUsers /\ LinksAside
  BY <1>2 DEF SameUsers, LinksAside
<1>5. ImagesAside
  BY <1>1, <1>2 DEF ImagesAside, Typed
<1> QED
  BY <1>1, <1>3, <1>4, <1>5, SameUsersKeeps, LinksAsideKeeps, ImagesAsideKeeps DEF AInv

\* A request is answered.
LEMMA FinishStep ==
  ASSUME AInv, UNCHANGED scene, NEW o \in Ops, Finish(o), op[o].at \notin {"upload", "show"},
         UNCHANGED <<users, ids, pending, serial, objects, history>>
  PROVE  AInv'
<1>1. Set(o, NoOp) /\ NoOp.at \notin Imaging \cup {"mail", "token"}
  BY NoOpShaped DEF Finish, Imaging
<1> QED
  BY <1>1, NoOpShaped, PrivateStep

\* A request arrives.
LEMMA BeginStep ==
  ASSUME AInv, UNCHANGED scene, NEW o \in Ops, NEW kind \in OpKinds, NEW p \in Op, Begin(o, kind, p),
         p.at \notin Imaging \cup {"mail", "token"}, Shape([p EXCEPT !.kind = kind]),
         UNCHANGED <<users, ids, pending, serial, objects, history>>
  PROVE  AInv'
<1> DEFINE q == [p EXCEPT !.kind = kind]
<1>1. Set(o, q) /\ op[o].at = "idle"
  BY DEF Begin
<1>2. q \in Op /\ q.at = p.at /\ Shape(q)
  BY DEF Op
<1> HIDE DEF q
<1> QED
  BY <1>1, <1>2, PrivateStep

-----------------------------------------------------------------------------
\* The requests, at their start.

\* What the fields of NoOp are.
LEMMA NoOpFields ==
  /\ NoOp.kind = "none" /\ NoOp.email = None /\ NoOp.phone = None /\ NoOp.type = "client"
  /\ NoOp.google = None /\ NoOp.user = 0 /\ NoOp.parent = 0 /\ NoOp.n = 0 /\ NoOp.rec = 0
  /\ NoOp.tries = 0
  BY DEF NoOp

LEMMA AddressStart ==
  ASSUME AInv, UNCHANGED scene, NEW o \in Ops, NEW p \in Op,
         p.at = "email", p.email \in Emails, p.n = 0,
         NEW kind \in {"signup", "create", "agent"}, Begin(o, kind, p),
         UNCHANGED <<users, ids, pending, serial, objects, history>>
  PROVE  AInv'
<1>1. Shape([p EXCEPT !.kind = kind]) /\ kind \in OpKinds
  BY DEF Shape, Op, Addressed, OpKinds
<1> QED
  BY <1>1, BeginStep DEF Imaging

LEMMA SignupStep ==
  ASSUME AInv, UNCHANGED scene, NEW o \in Ops, NEW email \in Emails, NEW phone \in Phones \cup {None},
         NEW type \in Types, Signup(o, email, phone, type) \/ CreateUser(o, email, phone, type)
  PROVE  AInv'
<1> DEFINE p == [NoOp EXCEPT !.at = "email", !.email = Lower[email], !.phone = phone,
                             !.type = type]
<1>a. Lower[email] \in Emails
  BY AccountsAssumption
<1>1. p \in Op /\ p.at = "email" /\ p.email \in Emails /\ p.n = 0
  BY <1>a, NoOpShaped, NoOpFields DEF Op, OpSteps
<1>2. /\ Begin(o, "signup", p) \/ Begin(o, "create", p)
      /\ UNCHANGED <<users, ids, pending, serial, objects, history>>
  BY DEF Signup, CreateUser
<1> HIDE DEF p
<1> QED
  BY <1>1, <1>2, AddressStart

LEMMA CreateAgentStep ==
  ASSUME AInv, UNCHANGED scene, NEW o \in Ops, NEW l \in users, NEW email \in Emails, NEW phone \in Phones \cup {None},
         CreateAgent(o, l, email, phone)
  PROVE  AInv'
<1> DEFINE p == [NoOp EXCEPT !.at = "email", !.email = Lower[email], !.phone = phone,
                             !.type = "agent", !.parent = l.id]
<1>1. "agent" \in Types /\ l.id \in Nat /\ Lower[email] \in Emails
  BY AccountsAssumption DEF Types, AInv, Typed, User
<1>2. p \in Op /\ p.at = "email" /\ p.email \in Emails /\ p.n = 0
  BY <1>1, NoOpShaped, NoOpFields DEF Op, OpSteps
<1>3. Begin(o, "agent", p) /\ UNCHANGED <<users, ids, pending, serial, objects, history>>
  BY DEF CreateAgent
<1> HIDE DEF p
<1> QED
  BY <1>2, <1>3, AddressStart

LEMMA ResendStep ==
  ASSUME AInv, UNCHANGED scene, NEW o \in Ops, NEW t \in pending, ResendVerification(o, t)
  PROVE  AInv'
<1> DEFINE p == [NoOp EXCEPT !.at = IF t.live THEN "rewrite" ELSE "stale",
                             !.email = t.email, !.rec = t.rec]
<1>1. t \in Pending
  BY DEF AInv, Typed
<1>2. p \in Op /\ p.at \in {"rewrite", "stale"}
  BY <1>1, NoOpShaped DEF Op, OpSteps, Pending
<1>3. Shape([p EXCEPT !.kind = "resend"]) /\ "resend" \in OpKinds
  BY <1>1 DEF NoOp, Shape, Addressed, OpKinds
<1>4. Begin(o, "resend", p) /\ UNCHANGED <<users, ids, pending, serial, objects, history>>
  BY DEF ResendVerification
<1> HIDE DEF p
<1> QED
  BY <1>2, <1>3, <1>4, BeginStep DEF Imaging

LEMMA VerifyStep ==
  ASSUME AInv, UNCHANGED scene, NEW o \in Ops, NEW t \in pending, VerifyMagicLink(o, t)
  PROVE  AInv'
<1> DEFINE p == [NoOp EXCEPT !.at = IF t.live THEN "email" ELSE "discard",
                             !.email = t.email, !.phone = t.phone, !.type = t.type, !.n = t.n]
<1>1. t \in Pending
  BY DEF AInv, Typed
<1>2. p \in Op /\ p.at \in {"email", "discard"}
  BY <1>1, NoOpShaped DEF Op, OpSteps, Pending
<1>3. Shape([p EXCEPT !.kind = "verify"]) /\ "verify" \in OpKinds
  BY <1>1 DEF NoOp, Shape, Addressed, OpKinds, Pending
<1>4. Begin(o, "verify", p) /\ UNCHANGED <<users, ids, pending, serial, objects, history>>
  BY DEF VerifyMagicLink
<1> HIDE DEF p
<1> QED
  BY <1>2, <1>3, <1>4, BeginStep DEF Imaging

LEMMA GoogleStep ==
  ASSUME AInv, UNCHANGED scene, NEW o \in Ops, NEW g \in Googles, NEW flow \in {"googleLogin", "googleSignup"},
         GoogleCallback(o, g, flow)
  PROVE  AInv'
<1> DEFINE p == [NoOp EXCEPT !.at = "byId", !.google = g, !.email = GoogleEmail[g]]
<1>1. GoogleEmail[g] \in Emails
  BY AccountsAssumption
<1>2. p \in Op /\ p.at = "byId"
  BY <1>1, NoOpShaped DEF Op, OpSteps
<1>3. Shape([p EXCEPT !.kind = flow]) /\ flow \in OpKinds
  BY <1>1 DEF NoOp, Shape, Addressed, OpKinds
<1>4. Begin(o, flow, p) /\ UNCHANGED <<users, ids, pending, serial, objects, history>>
  BY DEF GoogleCallback
<1> HIDE DEF p
<1> QED
  BY <1>2, <1>3, <1>4, BeginStep DEF Imaging

\* The changes of an account start with a lookup or with the write.
LEMMA ChangeStart ==
  ASSUME AInv, UNCHANGED scene, NEW o \in Ops, NEW p \in Op,
         p.at \in {"email", "phone", "write"},
         NEW kind \in {"update", "profile", "self"}, Begin(o, kind, p),
         UNCHANGED <<users, ids, pending, serial, objects, history>>
  PROVE  AInv'
<1>1. Shape([p EXCEPT !.kind = kind]) /\ kind \in OpKinds
  BY DEF Shape, Op, Addressed, OpKinds
<1> QED
  BY <1>1, BeginStep DEF Imaging

LEMMA UpdateUserStep ==
  ASSUME AInv, UNCHANGED scene, NEW o \in Ops, NEW u \in users, NEW email \in Emails \cup {None},
         NEW phone \in Phones \cup {None},
         UpdateUser(o, u, email, phone) \/ UpdateProfile(o, u, email, phone)
  PROVE  AInv'
<1> DEFINE p(e, at) == [NoOp EXCEPT !.user = u.id, !.email = e, !.phone = phone, !.at = at]
           E == Emails \cup {None}
           Ats == {"email", "phone", "write"}
<1>1. u.id \in Nat /\ Ats \subseteq OpSteps /\ LowerOf(email) \in E
  BY AccountsAssumption DEF AInv, Typed, User, OpSteps, LowerOf
<1>2. \A e \in E, at \in Ats : p(e, at) \in Op /\ p(e, at).at = at
  BY <1>1, NoOpShaped DEF Op
<1>3. /\ UNCHANGED <<users, ids, pending, serial, objects, history>>
      /\ \/ Begin(o, "update", p(LowerOf(email), IF email # None THEN "email" ELSE "phone"))
         \/ Begin(o, "profile", p(email, IF phone # None THEN "phone" ELSE "write"))
  BY DEF UpdateUser, UpdateProfile
<1>4. \E e \in E, at \in Ats, kind \in {"update", "profile"} : Begin(o, kind, p(e, at))
  BY <1>1, <1>3
<1> HIDE DEF p
<1> QED
  BY <1>2, <1>3, <1>4, ChangeStart

LEMMA UpdateAgentStep ==
  ASSUME AInv, UNCHANGED scene, NEW o \in Ops, NEW u \in users, NEW l \in users, NEW phone \in Phones,
         UpdateAgent(o, u, l, phone)
  PROVE  AInv'
<1> DEFINE p == [NoOp EXCEPT !.user = u.id, !.phone = phone,
                             !.at = IF phone # u.phone THEN "phone" ELSE "write"]
<1>1. u.id \in Nat
  BY DEF AInv, Typed, User
<1>2. p \in Op /\ p.at \in {"phone", "write"}
  BY <1>1, NoOpShaped DEF Op, OpSteps
<1>3. Begin(o, "self", p) /\ UNCHANGED <<users, ids, pending, serial, objects, history>>
  BY DEF UpdateAgent
<1> HIDE DEF p
<1> QED
  BY <1>2, <1>3, ChangeStart

LEMMA AskDeleteStep ==
  ASSUME AInv, UNCHANGED scene, NEW o \in Ops, NEW u \in users, AskDelete(o, u)
  PROVE  AInv'
<1> DEFINE p == [NoOp EXCEPT !.at = "remove", !.user = u.id]
<1>1. u.id \in Nat
  BY DEF AInv, Typed, User
<1>2. p \in Op /\ p.at = "remove"
  BY <1>1, NoOpShaped DEF Op, OpSteps
<1>3. Shape([p EXCEPT !.kind = "delete"]) /\ "delete" \in OpKinds
  BY DEF NoOp, Shape, Addressed, OpKinds
<1>4. Begin(o, "delete", p) /\ UNCHANGED <<users, ids, pending, serial, objects, history>>
  BY DEF AskDelete
<1> HIDE DEF p
<1> QED
  BY <1>2, <1>3, <1>4, BeginStep DEF Imaging

LEMMA VerifyCodeStep ==
  ASSUME AInv, UNCHANGED scene, NEW o \in Ops, NEW u \in users, VerifyEmailCode(o, u)
  PROVE  AInv'
<1> DEFINE p == [NoOp EXCEPT !.kind = "code", !.user = u.id,
                             !.at = IF u.codeLive THEN "accept" ELSE "clear"]
<1>1. u.id \in Nat
  BY DEF AInv, Typed, User
<1>2. p \in Op /\ p.at \in {"accept", "clear"}
  BY <1>1, NoOpShaped DEF Op, OpSteps, OpKinds
<1>3. Shape(p)
  BY DEF NoOp, Shape, Addressed
<1>4. Set(o, p) /\ op[o].at = "idle" /\ UNCHANGED <<users, ids, pending, serial, objects, history>>
  BY DEF VerifyEmailCode
<1> HIDE DEF p
<1> QED
  BY <1>2, <1>3, <1>4, PrivateStep DEF Imaging

-----------------------------------------------------------------------------
\* The lookups.

\* A request goes on at a step that is as private as its own.
LEMMA GoesOn ==
  ASSUME AInv, UNCHANGED scene, NEW o \in Ops, NEW at \in OpSteps,
         Set(o, [op[o] EXCEPT !.at = at]), Shape([op[o] EXCEPT !.at = at]),
         at \notin Imaging \cup {"mail", "token"}, op[o].at \notin {"upload", "show"},
         UNCHANGED <<users, ids, pending, serial, objects, history>>
  PROVE  AInv'
<1> DEFINE p == [op[o] EXCEPT !.at = at]
<1>1. p \in Op /\ p.at = at
  BY DEF AInv, Typed, Op
<1> HIDE DEF p
<1>2. Set(o, p) /\ Shape(p)
  BY DEF p
<1> QED
  BY <1>1, <1>2, PrivateStep

LEMMA ConflictStep ==
  ASSUME AInv, UNCHANGED scene, NEW o \in Ops, Conflict(o), op[o].at \in {"email", "phone"},
         UNCHANGED <<users, ids, pending, serial, objects, history>>
  PROVE  AInv'
<1>1. CASE op[o].kind = "verify"
  <2>1. "discard" \in OpSteps /\ Set(o, [op[o] EXCEPT !.at = "discard"])
    BY <1>1 DEF Conflict, OpSteps
  <2>2. op[o] \in Op /\ Shape(op[o])
    BY DEF AInv, Typed
  <2>3. Shape([op[o] EXCEPT !.at = "discard"])
    BY <1>1, <2>2 DEF Shape, Op
  <2> QED
    BY <2>1, <2>3, GoesOn DEF Imaging
<1>2. CASE op[o].kind # "verify"
  BY <1>2, FinishStep DEF Conflict
<1> QED
  BY <1>1, <1>2

\* Where a request goes when its addresses are free.
LEMMA CheckedStep ==
  ASSUME AInv, UNCHANGED scene, NEW o \in Ops, op[o].at \in {"email", "phone"},
         Set(o, [op[o] EXCEPT !.at = Checked(op[o].kind)]),
         UNCHANGED <<users, ids, pending, serial, objects, history>>
  PROVE  AInv'
<1>1. op[o] \in Op /\ Shape(op[o])
  BY DEF AInv, Typed
<1>2. \/ op[o].kind = "signup" /\ Checked(op[o].kind) = "supersede"
      \/ op[o].kind \in {"verify", "create", "agent"} /\ Checked(op[o].kind) = "insert"
      \/ Checked(op[o].kind) = "write"
  BY DEF Checked, SignupSteps
<1> DEFINE at == Checked(op[o].kind)
<1>3. at \in OpSteps /\ at \in {"supersede", "insert", "write"}
  BY <1>2 DEF OpSteps
<1>4. Shape([op[o] EXCEPT !.at = at])
  BY <1>1, <1>2 DEF Shape, Op, Addressed
<1> HIDE DEF at
<1>5. Set(o, [op[o] EXCEPT !.at = at])
  BY DEF at
<1> QED
  BY <1>3, <1>4, <1>5, GoesOn DEF Imaging

LEMMA CheckEmailStep ==
  ASSUME AInv, UNCHANGED scene, NEW o \in Ops, CheckEmail(o)
  PROVE  AInv'
<1>1. op[o].at = "email" /\ UNCHANGED <<users, ids, pending, serial, objects, history>>
  BY DEF CheckEmail
<1>2. \/ Conflict(o)
      \/ Set(o, [op[o] EXCEPT !.at = Checked(op[o].kind)])
      \/ Set(o, [op[o] EXCEPT !.at = "phone"])
  BY DEF CheckEmail, AfterEmail
<1>3. CASE Set(o, [op[o] EXCEPT !.at = "phone"])
  <2>1. op[o] \in Op /\ Shape(op[o]) /\ "phone" \in OpSteps
    BY DEF AInv, Typed, OpSteps
  <2>2. Shape([op[o] EXCEPT !.at = "phone"])
    BY <1>1, <2>1 DEF Shape, Op
  <2> QED
    BY <1>1, <1>3, <2>1, <2>2, GoesOn DEF Imaging
<1> QED
  BY <1>1, <1>2, <1>3, ConflictStep, CheckedStep

LEMMA CheckPhoneStep ==
  ASSUME AInv, UNCHANGED scene, NEW o \in Ops, CheckPhone(o)
  PROVE  AInv'
<1>1. /\ op[o].at = "phone" /\ UNCHANGED <<users, ids, pending, serial, objects, history>>
      /\ Conflict(o) \/ Set(o, [op[o] EXCEPT !.at = Checked(op[o].kind)])
  BY DEF CheckPhone
<1> QED
  BY <1>1, ConflictStep, CheckedStep

LEMMA CheckAgainStep ==
  ASSUME AInv, UNCHANGED scene, NEW o \in Ops, CheckAgain(o)
  PROVE  AInv'
<1>1. /\ op[o].at = "wait" /\ UNCHANGED <<users, ids, pending, serial, objects, history>>
      /\ Finish(o) \/ Set(o, [op[o] EXCEPT !.at = "insert"])
  BY DEF CheckAgain
<1>2. op[o] \in Op /\ Shape(op[o]) /\ "insert" \in OpSteps
  BY DEF AInv, Typed, OpSteps
<1>3. Shape([op[o] EXCEPT !.at = "insert"])
  BY <1>1, <1>2 DEF Shape, Op, Addressed
<1> QED
  BY <1>1, <1>2, <1>3, GoesOn, FinishStep DEF Imaging

\* A user found by Google is linked next.
LEMMA LinkFoundStep ==
  ASSUME AInv, UNCHANGED scene, NEW o \in Ops, NEW found \in SUBSET users, LinkFound(o, found),
         op[o].at \in {"byId", "byEmail"},
         UNCHANGED <<users, ids, pending, serial, objects, history>>
  PROVE  AInv'
<1>1. PICK u \in found : Finish(o) \/ Set(o, [op[o] EXCEPT !.at = "link", !.user = u.id])
  BY DEF LinkFound
<1>2. op[o] \in Op /\ Shape(op[o]) /\ u.id \in Nat /\ "link" \in OpSteps
  BY DEF AInv, Typed, OpSteps, User
<1> DEFINE p == [op[o] EXCEPT !.at = "link", !.user = u.id]
<1>3. p \in Op /\ p.at = "link" /\ Shape(p)
  BY <1>2 DEF Op, Shape
<1> HIDE DEF p
<1>4. CASE Finish(o)
  BY <1>4, FinishStep
<1>5. CASE Set(o, p)
  BY <1>3, <1>5, PrivateStep DEF Imaging
<1> QED
  BY <1>1, <1>4, <1>5 DEF p

LEMMA FindStep ==
  ASSUME AInv, UNCHANGED scene, NEW o \in Ops, FindByGoogle(o) \/ FindByEmail(o)
  PROVE  AInv'
<1>1. op[o] \in Op /\ Shape(op[o]) /\ "byEmail" \in OpSteps /\ "insert" \in OpSteps
  BY DEF AInv, Typed, OpSteps
<1>2. CASE FindByGoogle(o)
  <2>1. /\ op[o].at = "byId" /\ UNCHANGED <<users, ids, pending, serial, objects, history>>
        /\ \/ LinkFound(o, {u \in users : u.google = op[o].google})
           \/ Set(o, [op[o] EXCEPT !.at = "byEmail"])
    BY <1>2 DEF FindByGoogle
  <2>2. Shape([op[o] EXCEPT !.at = "byEmail"])
    BY <1>1, <2>1 DEF Shape, Op
  <2>3. {u \in users : u.google = op[o].google} \in SUBSET users
    OBVIOUS
  <2> QED
    BY <1>1, <2>1, <2>2, <2>3, LinkFoundStep, GoesOn DEF Imaging
<1>3. CASE FindByEmail(o)
  <2>1. /\ op[o].at = "byEmail" /\ UNCHANGED <<users, ids, pending, serial, objects, history>>
        /\ \/ LinkFound(o, NamedBy(op[o].email))
           \/ Set(o, [op[o] EXCEPT !.at = "insert"])
           \/ Finish(o)
    BY <1>3 DEF FindByEmail
  <2>2. Shape([op[o] EXCEPT !.at = "insert"])
    BY <1>1, <2>1 DEF Shape, Op, Addressed
  <2>3. NamedBy(op[o].email) \in SUBSET users
    BY DEF NamedBy
  <2> QED
    BY <1>1, <2>1, <2>2, <2>3, LinkFoundStep, GoesOn, FinishStep DEF Imaging
<1> QED
  BY <1>2, <1>3

-----------------------------------------------------------------------------
\* The steps that write users.

\* A user of the given number in place of the one there was.
LEMMA PutKeeps ==
  ASSUME Distinct, NEW u \in users, NEW v, v.id = u.id, Put(v), ids' = ids
  PROVE  Distinct'
<1>1. users' = (users \ ById(v.id)) \cup {v}
  BY DEF Put
<1>2. \A w \in users' : w = v \/ (w \in users /\ w.id # v.id)
  BY <1>1 DEF ById
<1>4. \A w \in users' : w.id <= ids'
  BY <1>2 DEF Distinct
<1>5. \A w, x \in users' : w.id = x.id => w = x
  BY <1>2 DEF Distinct
<1> QED
  BY <1>4, <1>5 DEF Distinct

\* The one user of a number.
LEMMA OneOfId ==
  ASSUME Distinct, NEW u \in users PROVE ById(u.id) = {u}
  BY DEF Distinct, ById

\* A step that writes one user, or none, and answers the request or tries again.
LEMMA WriteStep ==
  ASSUME AInv, UNCHANGED scene, NEW o \in Ops, NEW p \in Op, Shape(p), Set(o, p),
         p.at \notin Imaging \cup {"mail", "token"}, op[o].at \notin {"upload", "show"},
         UNCHANGED <<ids, pending, serial, objects, history>>,
         \/ users' = users
         \/ \E u \in users, v \in User : v.id = u.id /\ v.image = u.image /\ Put(v)
  PROVE  AInv'
<1>1. Typed /\ Distinct /\ Promised /\ Single /\ Imaged
  BY DEF AInv
<1>2. /\ op' \in [Ops -> Op] /\ op'[o] = p
      /\ \A s \in Ops : s # o => op'[s] = op[s]
      /\ \A s \in Ops : Shape(op'[s])
  BY <1>1, SetTyped
<1>3. users' \subseteq User
  BY <1>1 DEF Typed, Put
<1>4. Typed'
  BY <1>1, <1>2, <1>3 DEF Typed
<1>5. LinksAside
  BY <1>2 DEF LinksAside
<1>6. ImagesAside
  <2>1. \A w \in users' : \E v \in users : v.id = w.id /\ v.image = w.image
    BY DEF Put
  <2> QED
    BY <1>1, <1>2, <2>1 DEF ImagesAside, Typed
<1>7. Distinct'
  <2>1. CASE users' = users
    BY <1>1, <2>1, SameUsersKeeps DEF SameUsers
  <2>2. ASSUME NEW u \in users, NEW v \in User, v.id = u.id, Put(v)
        PROVE  Distinct'
    BY <1>1, <2>2, PutKeeps
  <2> QED
    BY <2>1, <2>2
<1> QED
  BY <1>1, <1>4, <1>5, <1>6, <1>7, LinksAsideKeeps, ImagesAsideKeeps DEF AInv

LEMMA WriteFinish ==
  ASSUME AInv, UNCHANGED scene, NEW o \in Ops, Finish(o), op[o].at \notin {"upload", "show"},
         UNCHANGED <<ids, pending, serial, objects, history>>,
         \/ users' = users
         \/ \E u \in users, v \in User : v.id = u.id /\ v.image = u.image /\ Put(v)
  PROVE  AInv'
<1>1. Set(o, NoOp) /\ NoOp.at \notin Imaging \cup {"mail", "token"}
  BY NoOpShaped DEF Finish, Imaging
<1> QED
  BY <1>1, NoOpShaped, WriteStep

LEMMA InsertStep ==
  ASSUME AInv, UNCHANGED scene, NEW o \in Ops, Insert(o)
  PROVE  AInv'
<1> DEFINE u == NewUser(op[o])
<1>1. /\ op[o].at = "insert" /\ UNCHANGED <<pending, serial, objects, history>>
      /\ Typed /\ Distinct /\ Promised /\ Single /\ Imaged
  BY DEF Insert, AInv
<1>2. op[o] \in Op /\ Shape(op[o]) /\ op[o].email \in Emails /\ ids \in Nat
  BY <1>1 DEF Typed, Shape
<1>3. u \in User /\ u.id = ids + 1 /\ u.image = 0
  <2> DEFINE e == Empty(op[o].email, op[o].type)
  <2>1. e \in User /\ e.image = 0
    BY <1>2 DEF Empty, User, Op
  <2>2. /\ ids + 1 \in Nat /\ op[o].phone \in Phones \cup {None}
        /\ op[o].google \in Googles \cup {None} /\ op[o].parent \in Nat
    BY <1>2 DEF Op
  <2> HIDE DEF e
  <2>3. u = [e EXCEPT !.id = ids + 1, !.phone = op[o].phone, !.google = op[o].google,
                      !.parent = op[o].parent]
    BY DEF NewUser, e
  <2> QED
    BY <2>1, <2>2, <2>3 DEF User
<1>4. CASE /\ users' = users \cup {u} /\ ids' = ids + 1
           /\ Set(o, [op[o] EXCEPT !.at = "discard"]) \/ Finish(o)
  <2> HIDE DEF u
  <2>1. PICK p \in Op : Shape(p) /\ p.at \in {"discard", "idle"} /\ Set(o, p)
    <3>1. CASE Finish(o)
      BY <3>1, NoOpShaped DEF Finish
    <3>2. CASE Set(o, [op[o] EXCEPT !.at = "discard"])
      <4> DEFINE q == [op[o] EXCEPT !.at = "discard"]
      <4>1. q \in Op /\ q.at = "discard" /\ Shape(q)
        BY <1>1, <1>2 DEF Op, OpSteps, Shape
      <4> QED
        BY <3>2, <4>1
    <3> QED
      BY <1>4, <3>1, <3>2
  <2>2. /\ op' \in [Ops -> Op] /\ op'[o] = p
        /\ \A s \in Ops : s # o => op'[s] = op[s]
        /\ \A s \in Ops : Shape(op'[s])
    BY <1>1, <2>1, SetTyped
  <2>3. Typed'
    BY <1>1, <1>2, <1>3, <1>4, <2>2 DEF Typed
  <2>4. LinksAside
    BY <1>1, <2>1, <2>2 DEF LinksAside
  <2>5. ImagesAside
    BY <1>1, <1>3, <1>4, <2>1, <2>2 DEF ImagesAside, Typed, Imaging
  <2>6. Distinct'
    <3>1. \A w \in users : w.id \in Nat /\ w.id <= ids /\ w.id # ids + 1
      BY <1>1, <1>2 DEF Distinct, Typed, User
    <3>3. \A w \in users' : w.id <= ids'
      BY <1>2, <1>3, <1>4, <3>1
    <3>4. \A w, x \in users' : w.id = x.id => w = x
      BY <1>1, <1>3, <1>4, <3>1 DEF Distinct
    <3> QED
      BY <3>3, <3>4 DEF Distinct
  <2> QED
    BY <1>1, <2>3, <2>4, <2>5, <2>6, LinksAsideKeeps, ImagesAsideKeeps DEF AInv
<1>5. CASE /\ Finish(o) /\ UNCHANGED <<users, ids>>
  BY <1>1, <1>5, FinishStep
<1>6. CASE /\ op[o].kind = "create" /\ UNCHANGED <<users, ids>>
           /\ Set(o, [op[o] EXCEPT !.at = "wait", !.tries = @ + 1])
  <2> DEFINE p == [op[o] EXCEPT !.at = "wait", !.tries = @ + 1]
  <2>a. op[o].tries + 1 \in Nat /\ "wait" \in OpSteps
    BY <1>2 DEF Op, OpSteps
  <2>1. p \in Op /\ p.at = "wait" /\ Shape(p)
    BY <1>1, <1>2, <1>6, <2>a DEF Op, Shape
  <2> HIDE DEF p
  <2>2. Set(o, p)
    BY <1>6 DEF p
  <2> QED
    BY <1>1, <1>6, <2>1, <2>2, PrivateStep DEF Imaging
<1> QED
  BY <1>4, <1>5, <1>6 DEF Insert

LEMMA LinkGoogleStep ==
  ASSUME AInv, UNCHANGED scene, NEW o \in Ops, LinkGoogleAccount(o)
  PROVE  AInv'
<1>1. Typed /\ Distinct /\ op[o] \in Op
  BY DEF AInv, Typed
<1>2. ASSUME NEW u \in ById(op[o].user), Put([u EXCEPT !.google = op[o].google])
      PROVE  \E x \in users, v \in User : v.id = x.id /\ v.image = x.image /\ Put(v)
  <2> DEFINE v == [u EXCEPT !.google = op[o].google]
  <2>1. u \in users /\ u \in User
    BY <1>1 DEF ById, Typed
  <2>2. /\ v \in User /\ v.id = u.id /\ v.image = u.image
    BY <1>1, <2>1 DEF User, Op
  <2> HIDE DEF v
  <2> QED
    BY <1>2, <2>1, <2>2 DEF v
<1>3. /\ op[o].at = "link" /\ Finish(o) /\ UNCHANGED <<ids, pending, serial, objects, history>>
      /\ users' = users \/ \E u \in ById(op[o].user) : Put([u EXCEPT !.google = op[o].google])
  BY DEF LinkGoogleAccount
<1> QED
  BY <1>2, <1>3, WriteFinish

LEMMA WriteUserStep ==
  ASSUME AInv, UNCHANGED scene, NEW o \in Ops, WriteUser(o)
  PROVE  AInv'
<1>1. Typed /\ Distinct /\ op[o] \in Op /\ Shape(op[o])
  BY DEF AInv, Typed
<1>2. op[o].at = "write" /\ UNCHANGED <<ids, pending, serial, objects, history>>
  BY DEF WriteUser
<1>3. ASSUME NEW u \in ById(op[o].user), Put(Changed(u, op[o]))
      PROVE  \E x \in users, v \in User : v.id = x.id /\ v.image = x.image /\ Put(v)
  <2> DEFINE v == Changed(u, op[o])
  <2>1. u \in users /\ u \in User
    BY <1>1 DEF ById, Typed
  <2>2. v \in User /\ v.id = u.id /\ v.image = u.image
    BY <1>1, <2>1 DEF User, Op, Changed, Given
  <2> QED
    BY <1>3, <2>1, <2>2
<1>4. \/ Finish(o) /\ (users' = users \/ \E u \in ById(op[o].user) : Put(Changed(u, op[o])))
      \/ Set(o, [op[o] EXCEPT !.tries = 1]) /\ users' = users
  BY DEF WriteUser
<1>5. CASE Set(o, [op[o] EXCEPT !.tries = 1]) /\ users' = users
  <2> DEFINE p == [op[o] EXCEPT !.tries = 1]
  <2>1. p \in Op /\ p.at = "write" /\ Shape(p)
    BY <1>1, <1>2 DEF Op, Shape
  <2> HIDE DEF p
  <2>2. Set(o, p)
    BY <1>5 DEF p
  <2> QED
    BY <1>2, <1>5, <2>1, <2>2, PrivateStep DEF Imaging
<1> QED
  BY <1>2, <1>3, <1>4, <1>5, WriteFinish

LEMMA DeleteUserStep ==
  ASSUME AInv, UNCHANGED scene, NEW o \in Ops, DeleteUser(o)
  PROVE  AInv'
<1>1. /\ op[o].at = "remove" /\ users' \subseteq users /\ Set(o, NoOp)
      /\ UNCHANGED <<ids, pending, serial, objects, history>>
      /\ Typed /\ Distinct /\ Promised /\ Single /\ Imaged
  BY DEF DeleteUser, AInv, Finish
<1>2. /\ op' \in [Ops -> Op] /\ op'[o] = NoOp
      /\ \A s \in Ops : s # o => op'[s] = op[s]
      /\ \A s \in Ops : Shape(op'[s])
  BY <1>1, NoOpShaped, SetTyped
<1>3. Typed'
  BY <1>1, <1>2 DEF Typed
<1>4. Distinct'
  BY <1>1 DEF Distinct
<1>5. LinksAside
  BY <1>1, <1>2, NoOpShaped DEF LinksAside
<1>6. ImagesAside
  BY <1>1, <1>2, NoOpShaped DEF ImagesAside, Typed, Imaging
<1> QED
  BY <1>1, <1>3, <1>4, <1>5, <1>6, LinksAsideKeeps, ImagesAsideKeeps DEF AInv

\* A user changed on the spot, without a request.
LEMMA TouchStep ==
  ASSUME AInv, UNCHANGED scene, NEW u \in users, NEW v \in User,
         v.id = u.id, v.image = u.image, Put(v),
         serial' \in Nat, serial <= serial',
         UNCHANGED <<ids, pending, objects, op, history>>
  PROVE  AInv'
<1>1. Typed /\ Distinct /\ Promised /\ Single /\ Imaged
  BY DEF AInv
<1>2. users' \subseteq User
  BY <1>1 DEF Typed, Put
<1>3. Typed'
  BY <1>1, <1>2 DEF Typed
<1>5. Distinct'
  BY <1>1, PutKeeps
<1>6. LinksAside
  BY DEF LinksAside
<1>7. ImagesAside
  <2>1. \A w \in users' : \E x \in users : x.id = w.id /\ x.image = w.image
    BY DEF Put
  <2> QED
    BY <2>1 DEF ImagesAside
<1> QED
  BY <1>1, <1>3, <1>5, <1>6, <1>7, LinksAsideKeeps, ImagesAsideKeeps DEF AInv

LEMMA SendCodeStep ==
  ASSUME AInv, UNCHANGED scene, NEW u \in users, SendVerificationCode(u)
  PROVE  AInv'
<1> DEFINE v == [u EXCEPT !.code = serial + 1, !.codeLive = TRUE]
<1>1. u \in User /\ serial \in Nat /\ serial + 1 \in Nat
  BY DEF AInv, Typed
<1>2. /\ v \in User /\ v.id = u.id
      /\ v.image = u.image
  BY <1>1 DEF User
<1>3. /\ Put(v) /\ serial' = serial + 1 /\ UNCHANGED <<ids, pending, objects, op, history>>
  BY DEF SendVerificationCode
<1> HIDE DEF v
<1>4. serial' \in Nat /\ serial <= serial'
  BY <1>1, <1>3
<1> QED
  BY <1>2, <1>3, <1>4, TouchStep

LEMMA CodeExpiresStep ==
  ASSUME AInv, UNCHANGED scene, NEW u \in users, CodeExpires(u)
  PROVE  AInv'
<1> DEFINE v == [u EXCEPT !.codeLive = FALSE]
<1>1. u \in User /\ serial \in Nat
  BY DEF AInv, Typed
<1>2. /\ v \in User /\ v.id = u.id
      /\ v.image = u.image
  BY <1>1 DEF User
<1>3. /\ Put(v) /\ UNCHANGED <<ids, pending, serial, objects, op, history>>
  BY DEF CodeExpires
<1> HIDE DEF v
<1>4. serial' \in Nat /\ serial <= serial'
  BY <1>1, <1>3
<1> QED
  BY <1>2, <1>3, <1>4, TouchStep

LEMMA ClearCodeStep ==
  ASSUME AInv, UNCHANGED scene, NEW o \in Ops, ClearVerificationCode(o)
  PROVE  AInv'
<1> DEFINE New(u) == [u EXCEPT !.code = 0, !.codeLive = FALSE,
                               !.verified = @ \/ op[o].at = "accept"]
           i == op[o].user
<1>1. /\ op[o].at \in {"accept", "clear"} /\ Finish(o)
      /\ UNCHANGED <<ids, pending, serial, objects, history>>
      /\ users' = (users \ ById(i)) \cup {New(u) : u \in ById(i)}
      /\ Typed /\ Distinct
  BY DEF ClearVerificationCode, AInv
<1>2. CASE ById(i) = {}
  <2>1. users' = users
    BY <1>1, <1>2
  <2> QED
    BY <1>1, <2>1, WriteFinish
<1>3. ASSUME NEW u \in ById(i) PROVE AInv'
  <2>1. u \in users /\ u.id = i /\ u \in User
    BY <1>1 DEF ById, Typed
  <2>2. ById(i) = {u}
    BY <1>1, <2>1, OneOfId
  <2>3. /\ New(u) \in User /\ New(u).id = u.id /\ New(u).image = u.image
    BY <2>1 DEF User
  <2>4. users' = (users \ ById(u.id)) \cup {New(u)}
    BY <1>1, <2>1, <2>2
  <2> HIDE DEF New
  <2>5. Put(New(u))
    BY <2>3, <2>4 DEF Put
  <2> QED
    BY <1>1, <2>1, <2>3, <2>5, WriteFinish
<1> QED
  BY <1>2, <1>3

-----------------------------------------------------------------------------
\* The steps of the links.

\* What these leave alone besides the images.
LinkTyped ==
  /\ pending' \subseteq Pending /\ serial' \in Nat /\ serial <= serial'
  /\ history' \in [mailed : SUBSET Nat, gone : SUBSET Nat, overlapped : SUBSET Emails,
                   lost : SUBSET Nat]
  /\ history'.lost = history.lost
  /\ UNCHANGED <<scene, users, ids, objects>>

LEMMA LinkStepKeeps ==
  ASSUME AInv, NEW o \in Ops, NEW p \in Op, Shape(p), Set(o, p), LinkTyped,
         p.at \notin Imaging, op[o].at \notin {"upload", "show"}
  PROVE  /\ Typed' /\ Distinct' /\ Imaged'
         /\ op'[o] = p /\ \A s \in Ops : s # o => op'[s] = op[s]
<1>1. Typed /\ Distinct /\ Imaged
  BY DEF AInv
<1>2. /\ op' \in [Ops -> Op] /\ op'[o] = p
      /\ \A s \in Ops : s # o => op'[s] = op[s]
      /\ \A s \in Ops : Shape(op'[s])
  BY <1>1, SetTyped
<1>3. Typed'
  BY <1>1, <1>2 DEF Typed, LinkTyped
<1>4. SameUsers
  BY DEF LinkTyped, SameUsers
<1>5. ImagesAside
  BY <1>2 DEF ImagesAside, LinkTyped
<1> QED
  BY <1>1, <1>2, <1>3, <1>4, <1>5, SameUsersKeeps, ImagesAsideKeeps

LEMMA SupersedeStep ==
  ASSUME AInv, UNCHANGED scene, NEW o \in Ops, Supersede(o)
  PROVE  AInv'
<1> DEFINE old == SupersedePending(op[o].email)
           p == [op[o] EXCEPT !.at = "token"]
           met == {e \in {op[o].email} : \E s \in Ops : op[s].at = "token" /\ op[s].email = e}
<1>1. /\ op[o].at = "supersede" /\ pending' = pending \ old /\ Set(o, p)
      /\ history' = [history EXCEPT !.gone = @ \cup (Numbers(old) \ {op[o].n}),
                                    !.overlapped = @ \cup met]
      /\ UNCHANGED <<users, ids, serial, objects>>
  BY DEF Supersede, SignupSteps
<1>2. Typed /\ Promised /\ Single /\ op[o] \in Op /\ Shape(op[o])
  BY DEF AInv, Typed
<1>3. op[o].n = 0 /\ op[o].email \in Emails
  BY <1>1, <1>2 DEF Shape, Addressed
<1>4. p \in Op /\ p.at = "token" /\ p.email = op[o].email /\ Shape(p)
  BY <1>1, <1>2 DEF Op, OpSteps, Shape
<1>5. old = {t \in pending : t.email = op[o].email} /\ Numbers(old) \subseteq Nat
  BY <1>2 DEF SupersedePending, Numbers, Typed, Pending
<1> HIDE DEF p, old
<1>6. /\ history'.mailed = history.mailed
      /\ history'.gone = history.gone \cup Numbers(old)
      /\ history'.overlapped = history.overlapped \cup met
      /\ history'.lost = history.lost
  BY <1>1, <1>2, <1>3, <1>5 DEF Typed, Promised, Numbers
<1>7. LinkTyped
  <2>1. met \subseteq Emails
    BY <1>3
  <2> DEFINE H == [mailed : SUBSET Nat, gone : SUBSET Nat, overlapped : SUBSET Emails,
                   lost : SUBSET Nat]
  <2>2. history \in H /\ Numbers(old) \ {op[o].n} \subseteq Nat
    BY <1>2, <1>5 DEF Typed
  <2> HIDE DEF met
  <2>3. history' \in H
    BY <1>1, <2>1, <2>2
  <2>4. pending' \subseteq Pending /\ serial' \in Nat /\ serial <= serial'
    BY <1>1, <1>2 DEF Typed
  <2> QED
    BY <1>1, <1>6, <2>3, <2>4 DEF LinkTyped
<1>8. /\ Typed' /\ Distinct' /\ Imaged'
      /\ op'[o] = p /\ \A s \in Ops : s # o => op'[s] = op[s]
  BY <1>1, <1>4, <1>7, LinkStepKeeps DEF Imaging
<1>9. Promised'
  <2>1. Numbers(pending) \subseteq Numbers(pending') \cup Numbers(old)
    BY <1>1 DEF Numbers
  <2>2. Numbers(pending') \subseteq Numbers(pending)
    BY <1>1 DEF Numbers
  <2> QED
    BY <1>2, <1>4, <1>6, <1>8, <2>1, <2>2 DEF Promised, MailedLinkWorks
<1>10. Single'
  <2>1. \A t \in pending' : t \in pending /\ t.email # op[o].email
    BY <1>1, <1>5
  <2>2. OneLinkPerAddress'
    BY <1>2, <1>6, <2>1 DEF Single, OneLinkPerAddress
  <2>3. ASSUME NEW s \in Ops, NEW t \in pending', op'[s].at = "token", op'[s].email = t.email
        PROVE  t.email \in history'.overlapped
    BY <1>2, <1>4, <1>6, <1>8, <2>1, <2>3 DEF Single
  <2>4. ASSUME NEW r \in Ops, NEW s \in Ops, r # s, op'[r].at = "token", op'[s].at = "token",
               op'[r].email = op'[s].email
        PROVE  op'[r].email \in history'.overlapped
    <3>1. CASE r # o /\ s # o
      BY <1>2, <1>6, <1>8, <2>4, <3>1 DEF Single
    <3>2. CASE r = o \/ s = o
      <4>1. \E x \in Ops : op[x].at = "token" /\ op[x].email = op[o].email
        BY <1>4, <1>8, <2>4, <3>2
      <4>2. op[o].email \in met
        BY <4>1
      <4>3. op'[r].email = op[o].email
        BY <1>4, <1>8, <2>4, <3>2
      <4> QED
        BY <1>6, <4>2, <4>3
    <3> QED
      BY <3>1, <3>2
  <2> QED
    BY <2>2, <2>3, <2>4 DEF Single
<1> QED
  BY <1>8, <1>9, <1>10 DEF AInv

LEMMA StoreTokenStep ==
  ASSUME AInv, UNCHANGED scene, NEW o \in Ops, StoreToken(o)
  PROVE  AInv'
<1> DEFINE t == [rec |-> serial + 1, n |-> serial + 1, email |-> op[o].email,
                 phone |-> op[o].phone, type |-> op[o].type, live |-> TRUE]
           p == [op[o] EXCEPT !.at = "mail", !.n = serial + 1]
<1>1. /\ op[o].at = "token" /\ pending' = pending \cup {t} /\ serial' = serial + 1 /\ Set(o, p)
      /\ UNCHANGED <<users, ids, objects, history>>
  BY DEF StoreToken, SignupSteps
<1>2. /\ Typed /\ Promised /\ Single /\ op[o] \in Op /\ Shape(op[o])
      /\ serial \in Nat /\ serial + 1 \in Nat /\ serial + 1 # 0
  BY DEF AInv, Typed
<1>3. t \in Pending /\ t.n = serial + 1 /\ t.email = op[o].email
  BY <1>1, <1>2 DEF Pending, Op, Shape, Addressed
<1>4. p \in Op /\ p.at = "mail" /\ p.n = serial + 1 /\ Shape(p)
  BY <1>1, <1>2 DEF Op, OpSteps, Shape
<1> HIDE DEF p, t
<1>5. LinkTyped
  BY <1>1, <1>2, <1>3 DEF LinkTyped, Typed
<1>6. /\ Typed' /\ Distinct' /\ Imaged'
      /\ op'[o] = p /\ \A s \in Ops : s # o => op'[s] = op[s]
  BY <1>1, <1>4, <1>5, LinkStepKeeps DEF Imaging
<1>7. Promised'
  <2>1. Numbers(pending') = Numbers(pending) \cup {serial + 1}
    BY <1>1, <1>3 DEF Numbers
  <2> QED
    BY <1>1, <1>2, <1>4, <1>6, <2>1 DEF Promised, MailedLinkWorks
<1>8. Single'
  <2>1. OneLinkPerAddress'
    BY <1>1, <1>2, <1>3 DEF Single, OneLinkPerAddress
  <2>2. ASSUME NEW s \in Ops, NEW x \in pending', op'[s].at = "token", op'[s].email = x.email
        PROVE  x.email \in history'.overlapped
    <3>1. s # o /\ op'[s] = op[s]
      BY <1>4, <1>6, <2>2
    <3> QED
      BY <1>1, <1>2, <1>3, <2>2, <3>1 DEF Single
  <2>3. ASSUME NEW r \in Ops, NEW s \in Ops, r # s, op'[r].at = "token", op'[s].at = "token",
               op'[r].email = op'[s].email
        PROVE  op'[r].email \in history'.overlapped
    BY <1>1, <1>2, <1>4, <1>6, <2>3 DEF Single
  <2> QED
    BY <2>1, <2>2, <2>3 DEF Single
<1> QED
  BY <1>6, <1>7, <1>8 DEF AInv

LEMMA MailStep ==
  ASSUME AInv, UNCHANGED scene, NEW o \in Ops, NEW sent \in BOOLEAN, Mail(o, sent)
  PROVE  AInv'
<1>1. /\ op[o].at = "mail" /\ Set(o, NoOp)
      /\ history' = IF sent THEN [history EXCEPT !.mailed = @ \cup {op[o].n}] ELSE history
      /\ UNCHANGED <<users, ids, pending, serial, objects>>
  BY DEF Mail, Finish
<1>2. Typed /\ Promised /\ Single /\ op[o] \in Op /\ op[o].n \in Nat
  BY DEF AInv, Typed, Op
<1>3. /\ history'.mailed \subseteq history.mailed \cup {op[o].n}
      /\ history'.gone = history.gone /\ history'.lost = history.lost
      /\ history'.overlapped = history.overlapped
  BY <1>1, <1>2 DEF Typed
<1>4. LinkTyped
  BY <1>1, <1>2, <1>3 DEF LinkTyped, Typed
<1>5. /\ Typed' /\ Distinct' /\ Imaged'
      /\ op'[o] = NoOp /\ \A s \in Ops : s # o => op'[s] = op[s]
  BY <1>1, <1>4, NoOpShaped, LinkStepKeeps DEF Imaging
<1>6. Promised'
  <2>1. op[o].n \in Numbers(pending) \cup history.gone /\ Numbers(pending') = Numbers(pending)
    BY <1>1, <1>2 DEF Promised
  <2> QED
    BY <1>2, <1>3, <1>5, <2>1, NoOpShaped DEF Promised, MailedLinkWorks
<1>7. Single'
  BY <1>1, <1>2, <1>3, <1>5, NoOpShaped DEF Single, OneLinkPerAddress
<1> QED
  BY <1>5, <1>6, <1>7 DEF AInv

\* The steps that take links away: those that go are remembered, and each that stays
\* or is rewritten was one with its address.
LEMMA LinksGo ==
  ASSUME AInv, NEW old \in SUBSET pending,
         pending' = pending \ old, history' = [history EXCEPT !.gone = @ \cup Numbers(old)],
         \A s \in Ops : op'[s] = op[s] \/ op'[s].at \notin {"mail", "token"}
  PROVE  Promised' /\ Single'
<1>1. Typed /\ Promised /\ Single
  BY DEF AInv
<1>2. /\ history'.mailed = history.mailed /\ history'.overlapped = history.overlapped
      /\ history'.gone = history.gone \cup Numbers(old)
  BY <1>1 DEF Typed
<1>3. /\ Numbers(pending) \subseteq Numbers(pending') \cup Numbers(old)
      /\ Numbers(pending') \subseteq Numbers(pending)
  BY DEF Numbers
<1>4. Promised'
  BY <1>1, <1>2, <1>3 DEF Promised, MailedLinkWorks
<1>5. Single'
  BY <1>1, <1>2 DEF Single, OneLinkPerAddress
<1> QED
  BY <1>4, <1>5

LEMMA GoneTyped ==
  ASSUME AInv, NEW old \in SUBSET pending,
         pending' = pending \ old, history' = [history EXCEPT !.gone = @ \cup Numbers(old)],
         UNCHANGED <<scene, users, ids, serial, objects>>
  PROVE  LinkTyped
<1>1. Typed /\ Numbers(old) \subseteq Nat
  BY DEF AInv, Typed, Numbers, Pending
<1> QED
  BY <1>1 DEF LinkTyped, Typed

LEMMA DiscardStep ==
  ASSUME AInv, UNCHANGED scene, NEW o \in Ops, DiscardStale(o) \/ DiscardToken(o)
  PROVE  AInv'
<1>1. PICK old \in SUBSET pending :
        /\ op[o].at \in {"stale", "discard"} /\ Set(o, NoOp)
        /\ pending' = pending \ old /\ history' = [history EXCEPT !.gone = @ \cup Numbers(old)]
        /\ UNCHANGED <<users, ids, serial, objects>>
  <2>1. WithRec(op[o].rec) \in SUBSET pending /\ {t \in pending : t.n = op[o].n} \in SUBSET pending
    BY DEF WithRec
  <2>2. CASE DiscardStale(o)
    BY <2>1, <2>2 DEF DiscardStale, Finish
  <2>3. CASE DiscardToken(o)
    BY <2>1, <2>3 DEF DiscardToken, Finish
  <2> QED
    BY <2>2, <2>3
<1>2. LinkTyped
  BY <1>1, GoneTyped
<1>3. /\ Typed' /\ Distinct' /\ Imaged'
      /\ op'[o] = NoOp /\ \A s \in Ops : s # o => op'[s] = op[s]
  BY <1>1, <1>2, NoOpShaped, LinkStepKeeps DEF Imaging
<1>4. Promised' /\ Single'
  BY <1>1, <1>3, NoOpShaped, LinksGo
<1> QED
  BY <1>3, <1>4 DEF AInv

LEMMA RewriteStep ==
  ASSUME AInv, UNCHANGED scene, NEW o \in Ops, Rewrite(o)
  PROVE  AInv'
<1> DEFINE found == WithRec(op[o].rec)
           New(t) == [t EXCEPT !.n = serial + 1, !.live = TRUE]
           p == [op[o] EXCEPT !.at = "mail", !.n = serial + 1]
           lost == IF found = {} THEN {serial + 1} ELSE Numbers(found)
<1>1. /\ op[o].at = "rewrite" /\ serial' = serial + 1 /\ Set(o, p)
      /\ pending' = (pending \ found) \cup {New(t) : t \in found}
      /\ history' = [history EXCEPT !.gone = @ \cup lost]
      /\ UNCHANGED <<users, ids, objects>>
  BY DEF Rewrite
<1>2. /\ Typed /\ Promised /\ Single /\ op[o] \in Op /\ Shape(op[o])
      /\ serial \in Nat /\ serial + 1 \in Nat /\ serial + 1 # 0
      /\ found \subseteq pending /\ pending \subseteq Pending
  BY DEF AInv, Typed, WithRec
<1>3. \A t \in found : New(t) \in Pending /\ New(t).n = serial + 1 /\ New(t).email = t.email
  BY <1>2 DEF Pending
<1>4. p \in Op /\ p.at = "mail" /\ p.n = serial + 1 /\ Shape(p)
  BY <1>1, <1>2 DEF Op, OpSteps, Shape
<1>5. lost \subseteq Nat /\ Numbers(found) \subseteq lost /\ (found = {} => lost = {serial + 1})
  BY <1>2 DEF Numbers, Pending
<1> HIDE DEF p, found, New, lost
<1>6. /\ history'.mailed = history.mailed /\ history'.overlapped = history.overlapped
      /\ history'.gone = history.gone \cup lost /\ history'.lost = history.lost
  BY <1>1, <1>2 DEF Typed
<1>7. LinkTyped
  BY <1>1, <1>2, <1>3, <1>5, <1>6 DEF LinkTyped, Typed
<1>8. /\ Typed' /\ Distinct' /\ Imaged'
      /\ op'[o] = p /\ \A s \in Ops : s # o => op'[s] = op[s]
  BY <1>1, <1>4, <1>7, LinkStepKeeps DEF Imaging
<1>9. Promised'
  <2>1. /\ Numbers(pending) \subseteq Numbers(pending') \cup lost
        /\ Numbers(pending') \subseteq Numbers(pending) \cup {serial + 1}
    BY <1>1, <1>3, <1>5 DEF Numbers
  <2>2. serial + 1 \in Numbers(pending') \cup lost
    <3>1. CASE found = {}
      BY <1>5, <3>1
    <3>2. ASSUME NEW t \in found PROVE serial + 1 \in Numbers(pending')
      BY <1>1, <1>3 DEF Numbers
    <3> QED
      BY <3>1, <3>2
  <2> QED
    BY <1>2, <1>4, <1>6, <1>8, <2>1, <2>2 DEF Promised, MailedLinkWorks
<1>10. Single'
  <2>1. \A x \in pending' : \E t \in pending : t.email = x.email /\ (x = t \/ (t \in found /\ x = New(t)))
    BY <1>1, <1>2, <1>3
  <2>2. OneLinkPerAddress'
    <3> SUFFICES ASSUME NEW x \in pending', NEW y \in pending', x.email = y.email, x # y
                 PROVE  x.email \in history'.overlapped
      BY DEF OneLinkPerAddress
    <3>1. PICK s \in pending : s.email = x.email /\ (x = s \/ (s \in found /\ x = New(s)))
      BY <2>1
    <3>2. PICK t \in pending : t.email = y.email /\ (y = t \/ (t \in found /\ y = New(t)))
      BY <2>1
    <3>3. CASE s # t
      BY <1>2, <1>6, <3>1, <3>2, <3>3 DEF Single, OneLinkPerAddress
    <3>4. CASE s = t
      <4>1. s \in found
        BY <3>1, <3>2, <3>4
      <4>2. x = New(s) \/ y = New(s)
        BY <3>1, <3>2, <3>4
      <4>3. s \notin pending \ found
        BY <4>1
      <4>4. PICK z \in {x, y} : z = s
        BY <3>1, <3>2, <3>4
      <4>5. PICK u \in found : s = New(u)
        BY <1>1, <4>3, <4>4
      <4>6. u.email = s.email /\ u # s
        BY <1>3, <3>1, <3>2, <3>4, <4>2, <4>4, <4>5
      <4> QED
        BY <1>2, <1>6, <3>1, <4>5, <4>6 DEF Single, OneLinkPerAddress
    <3> QED
      BY <3>3, <3>4
  <2>3. ASSUME NEW s \in Ops, NEW x \in pending', op'[s].at = "token", op'[s].email = x.email
        PROVE  x.email \in history'.overlapped
    BY <1>2, <1>4, <1>6, <1>8, <2>1, <2>3 DEF Single
  <2>4. ASSUME NEW r \in Ops, NEW s \in Ops, r # s, op'[r].at = "token", op'[s].at = "token",
               op'[r].email = op'[s].email
        PROVE  op'[r].email \in history'.overlapped
    BY <1>2, <1>4, <1>6, <1>8, <2>4 DEF Single
  <2> QED
    BY <2>2, <2>3, <2>4 DEF Single
<1> QED
  BY <1>8, <1>9, <1>10 DEF AInv

LEMMA TokenExpiresStep ==
  ASSUME AInv, UNCHANGED scene, NEW t \in pending, TokenExpires(t)
  PROVE  AInv'
<1> DEFINE New == [t EXCEPT !.live = FALSE]
<1>1. /\ pending' = (pending \ {t}) \cup (IF t.live THEN {New} ELSE {})
      /\ history' = [history EXCEPT !.gone = @ \cup {t.n}]
      /\ UNCHANGED <<users, ids, serial, objects, op>>
  BY DEF TokenExpires
<1>2. Typed /\ Distinct /\ Promised /\ Single /\ Imaged /\ t \in Pending
  BY DEF AInv, Typed
<1>3. New \in Pending /\ New.n = t.n /\ New.email = t.email /\ New.live = FALSE
  BY <1>2 DEF Pending
<1> HIDE DEF New
<1>4. /\ history'.mailed = history.mailed /\ history'.overlapped = history.overlapped
      /\ history'.gone = history.gone \cup {t.n} /\ history'.lost = history.lost
  BY <1>1, <1>2 DEF Typed
<1>5. Typed'
  BY <1>1, <1>2, <1>3 DEF Typed, Pending
<1>6. Distinct'
  BY <1>1, <1>2, SameUsersKeeps DEF SameUsers
<1>7. ImagesAside
  BY <1>1, <1>2, <1>4 DEF ImagesAside, Typed
<1>8. Promised'
  <2>1. /\ Numbers(pending) \subseteq Numbers(pending') \cup {t.n}
        /\ Numbers(pending') \subseteq Numbers(pending)
    BY <1>1, <1>3 DEF Numbers
  <2> QED
    BY <1>1, <1>2, <1>4, <2>1 DEF Promised, MailedLinkWorks
<1>9. Single'
  <2>1. \A x \in pending' : x.email = t.email \/ x \in pending
    BY <1>1, <1>3
  <2>2. OneLinkPerAddress'
    <3> SUFFICES ASSUME NEW x \in pending', NEW y \in pending', x.email = y.email, x # y
                 PROVE  x.email \in history'.overlapped
      BY DEF OneLinkPerAddress
    <3>1. CASE x \in pending \ {t} /\ y \in pending \ {t}
      BY <1>2, <1>4, <3>1 DEF Single, OneLinkPerAddress
    <3>2. CASE x = New /\ y \in pending \ {t}
      BY <1>2, <1>3, <1>4, <3>2 DEF Single, OneLinkPerAddress
    <3>3. CASE y = New /\ x \in pending \ {t}
      BY <1>2, <1>3, <1>4, <3>3 DEF Single, OneLinkPerAddress
    <3> QED
      BY <1>1, <3>1, <3>2, <3>3
  <2>3. \A s \in Ops, x \in pending' :
          op'[s].at = "token" /\ op'[s].email = x.email => x.email \in history'.overlapped
    BY <1>1, <1>2, <1>3, <1>4 DEF Single
  <2> QED
    BY <1>1, <1>2, <1>4, <2>2, <2>3 DEF Single
<1> QED
  BY <1>2, <1>5, <1>6, <1>7, <1>8, <1>9, ImagesAsideKeeps DEF AInv

-----------------------------------------------------------------------------
\* The steps of the images.

\* What these leave alone besides the links.
ImageTyped ==
  /\ users' \subseteq User /\ ids' = ids
  /\ serial' \in Nat /\ objects' \subseteq Nat
  /\ history' \in [mailed : SUBSET Nat, gone : SUBSET Nat, overlapped : SUBSET Emails,
                   lost : SUBSET Nat]
  /\ history'.mailed = history.mailed /\ history'.gone = history.gone
  /\ history'.overlapped = history.overlapped
  /\ UNCHANGED <<scene, pending>>

LEMMA ImageStepKeeps ==
  ASSUME AInv, NEW o \in Ops, NEW p \in Op, Shape(p), Set(o, p), ImageTyped,
         p.at \notin {"mail", "token"}
  PROVE  /\ Typed' /\ Promised' /\ Single'
         /\ op'[o] = p /\ \A s \in Ops : s # o => op'[s] = op[s]
<1>1. Typed /\ Promised /\ Single
  BY DEF AInv
<1>2. /\ op' \in [Ops -> Op] /\ op'[o] = p
      /\ \A s \in Ops : s # o => op'[s] = op[s]
      /\ \A s \in Ops : Shape(op'[s])
  BY <1>1, SetTyped
<1>3. Typed'
  BY <1>1, <1>2 DEF Typed, ImageTyped
<1>4. LinksAside
  BY <1>2 DEF LinksAside, ImageTyped
<1> QED
  BY <1>1, <1>2, <1>3, <1>4, LinksAsideKeeps

LEMMA UploadStep ==
  ASSUME AInv, UNCHANGED scene, NEW o \in Ops, NEW u \in users, UploadImage(o, u)
  PROVE  AInv'
<1> DEFINE q == [NoOp EXCEPT !.user = u.id, !.rec = u.image,
                             !.at = IF u.image = 0 THEN "upload" ELSE "drop"]
           p == [q EXCEPT !.kind = "image"]
<1>1. /\ Typed /\ Distinct /\ Imaged
      /\ u \in User /\ u.id \in Nat /\ u.image \in Nat
  BY DEF AInv, Typed, User
<1>2. /\ op[o].at = "idle" /\ Set(o, p)
      /\ UNCHANGED <<users, ids, pending, serial, objects, history>>
  BY DEF UploadImage, Begin
<1>3. /\ p \in Op /\ p.at \in {"upload", "drop"} /\ p.rec = u.image /\ p.user = u.id
      /\ p.kind = "image"
  BY <1>1, NoOpShaped DEF Op, OpSteps, OpKinds
<1>4. Shape(p)
  BY <1>3 DEF Shape, Addressed
<1> HIDE DEF p, q
<1>5. ImageTyped
  BY <1>1, <1>2 DEF ImageTyped, Typed
<1>6. /\ Typed' /\ Promised' /\ Single'
      /\ op'[o] = p /\ \A s \in Ops : s # o => op'[s] = op[s]
  BY <1>2, <1>3, <1>4, <1>5, ImageStepKeeps
<1>7. Distinct'
  BY <1>1, <1>2, SameUsersKeeps DEF SameUsers
<1>8. Imaged'
  <2>1. Replacing \subseteq Replacing'
    <3> SUFFICES ASSUME NEW s \in Ops, op[s].at \in {"upload", "show"}
                 PROVE  op[s].rec \in Replacing'
      BY DEF Replacing
    <3>1. s # o /\ op'[s] = op[s]
      BY <1>2, <1>6
    <3> QED
      BY <3>1 DEF Replacing
  <2>2. \A v \in users : /\ v.image <= serial
                         /\ v.image \in objects \cup history.lost \cup {0} \cup Replacing'
    BY <1>1, <2>1 DEF Imaged
  <2>3. ASSUME NEW s \in Ops, op'[s].at \in Imaging
        PROVE  /\ op'[s].rec <= serial
               /\ op'[s].rec # 0 => \A v \in users : v.image = op'[s].rec => v.id = op'[s].user
    BY <1>1, <1>3, <1>6, <2>3 DEF Imaged
  <2>4. ASSUME NEW s \in Ops, op'[s].at = "show"
        PROVE  s # o /\ op'[s] = op[s] /\ op[s].at = "show"
    BY <1>3, <1>6, <2>4
  <2>5. ASSUME NEW s \in Ops, op'[s].at = "show", NEW r \in Ops
        PROVE  /\ op'[r].at \in Imaging => op'[r].rec # op'[s].n
               /\ r # s /\ op'[r].at = "show" => op'[r].n # op'[s].n
    <3>1. CASE r = o
      BY <1>1, <1>3, <1>6, <2>4, <2>5, <3>1 DEF Imaged
    <3>2. CASE r # o
      BY <1>1, <1>6, <2>4, <2>5, <3>2 DEF Imaged
    <3> QED
      BY <3>1, <3>2
  <2>6. ASSUME NEW s \in Ops, op'[s].at = "show"
        PROVE  /\ op'[s].n <= serial /\ op'[s].n # 0 /\ op'[s].n \in objects
               /\ \A v \in users : v.image # op'[s].n
    BY <1>1, <2>4, <2>6 DEF Imaged
  <2> QED
    BY <1>1, <1>2, <2>2, <2>3, <2>5, <2>6 DEF Imaged
<1> QED
  BY <1>6, <1>7, <1>8 DEF AInv

LEMMA DropStep ==
  ASSUME AInv, UNCHANGED scene, NEW o \in Ops, NEW dropped \in BOOLEAN, DropOldImage(o, dropped)
  PROVE  AInv'
<1> DEFINE p == [op[o] EXCEPT !.at = "upload"]
<1>1. Typed /\ Distinct /\ Imaged /\ op[o] \in Op /\ Shape(op[o])
  BY DEF AInv, Typed
<1>2. /\ op[o].at = "drop" /\ Set(o, p)
      /\ objects \ {op[o].rec} \subseteq objects' /\ objects' \subseteq objects
      /\ UNCHANGED <<users, ids, pending, serial, history>>
  BY DEF DropOldImage
<1>3. /\ p \in Op /\ p.at = "upload" /\ p.rec = op[o].rec /\ p.user = op[o].user
      /\ Shape(p)
  BY <1>1, <1>2 DEF Op, OpSteps, Shape
<1> HIDE DEF p
<1>4. ImageTyped
  BY <1>1, <1>2 DEF ImageTyped, Typed
<1>5. /\ Typed' /\ Promised' /\ Single'
      /\ op'[o] = p /\ \A s \in Ops : s # o => op'[s] = op[s]
  BY <1>2, <1>3, <1>4, ImageStepKeeps
<1>6. Distinct'
  BY <1>1, <1>2, SameUsersKeeps DEF SameUsers
<1>7. Imaged'
  <2>1. Replacing \cup {op[o].rec} \subseteq Replacing'
    <3>1. op[o].rec \in Replacing'
      BY <1>3, <1>5 DEF Replacing
    <3>2. ASSUME NEW s \in Ops, op[s].at \in {"upload", "show"}
          PROVE  op[s].rec \in Replacing'
      <4>1. s # o /\ op'[s] = op[s]
        BY <1>2, <1>5, <3>2
      <4> QED
        BY <3>2, <4>1 DEF Replacing
    <3> QED
      BY <3>1, <3>2 DEF Replacing
  <2>2. \A v \in users : /\ v.image <= serial
                         /\ v.image \in objects' \cup history.lost \cup {0} \cup Replacing'
    BY <1>1, <1>2, <2>1 DEF Imaged
  <2>3. ASSUME NEW s \in Ops, op'[s].at \in Imaging
        PROVE  /\ op[s].at \in Imaging /\ op'[s].rec = op[s].rec
               /\ op'[s].user = op[s].user
    BY <1>2, <1>3, <1>5, <2>3 DEF Imaging
  <2>4. ASSUME NEW s \in Ops, op'[s].at = "show"
        PROVE  s # o /\ op'[s] = op[s] /\ op[s].at = "show"
    BY <1>3, <1>5, <2>4
  <2>5. ASSUME NEW s \in Ops, op'[s].at = "show", NEW r \in Ops
        PROVE  /\ op'[r].at \in Imaging => op'[r].rec # op'[s].n
               /\ r # s /\ op'[r].at = "show" => op'[r].n # op'[s].n
    BY <1>1, <2>3, <2>4, <2>5 DEF Imaged
  <2>6. ASSUME NEW s \in Ops, op'[s].at = "show"
        PROVE  /\ op'[s].n <= serial /\ op'[s].n # 0 /\ op'[s].n \in objects'
               /\ \A v \in users : v.image # op'[s].n
    <3>1. op[s].n # op[o].rec
      BY <1>1, <1>2, <2>4, <2>6 DEF Imaged, Imaging
    <3> QED
      BY <1>1, <1>2, <2>4, <2>6, <3>1 DEF Imaged
  <2>7. ASSUME NEW s \in Ops, op'[s].at \in Imaging
        PROVE  /\ op'[s].rec <= serial
               /\ op'[s].rec # 0 => \A v \in users : v.image = op'[s].rec => v.id = op'[s].user
    BY <1>1, <2>3, <2>7 DEF Imaged
  <2> QED
    BY <1>1, <1>2, <2>2, <2>5, <2>6, <2>7 DEF Imaged
<1> QED
  BY <1>5, <1>6, <1>7 DEF AInv

LEMMA StoreImageStep ==
  ASSUME AInv, UNCHANGED scene, NEW o \in Ops, StoreImage(o)
  PROVE  AInv'
<1> DEFINE p == [op[o] EXCEPT !.at = "show", !.n = serial + 1]
<1>1. /\ Typed /\ Distinct /\ Imaged /\ op[o] \in Op /\ Shape(op[o])
      /\ serial \in Nat /\ serial + 1 \in Nat /\ "show" \in OpSteps
      /\ \A s \in Ops : op[s].rec \in Nat /\ op[s].n \in Nat
      /\ \A u \in users : u.image \in Nat
  BY DEF AInv, Typed, OpSteps, Op, User
<1>2. /\ op[o].at = "upload" /\ Set(o, p)
      /\ serial' = serial + 1 /\ objects' = objects \cup {serial + 1}
      /\ UNCHANGED <<users, ids, pending, history>>
  BY DEF StoreImage
<1>3. /\ p \in Op /\ p.at = "show" /\ p.rec = op[o].rec /\ p.user = op[o].user
      /\ p.n = serial + 1
  BY <1>1 DEF Op
<1>4. Shape(p)
  BY <1>1, <1>2 DEF Op, Shape
<1> HIDE DEF p
<1>5. ImageTyped
  BY <1>1, <1>2 DEF ImageTyped, Typed
<1>6. /\ Typed' /\ Promised' /\ Single'
      /\ op'[o] = p /\ \A s \in Ops : s # o => op'[s] = op[s]
  BY <1>2, <1>3, <1>4, <1>5, ImageStepKeeps
<1>7. Distinct'
  BY <1>1, <1>2, SameUsersKeeps DEF SameUsers
<1>8. Imaged'
  <2>1. Replacing \subseteq Replacing'
    <3> SUFFICES ASSUME NEW s \in Ops, op[s].at \in {"upload", "show"}
                 PROVE  op[s].rec \in Replacing'
      BY DEF Replacing
    <3>1. op'[s].at \in {"upload", "show"} /\ op'[s].rec = op[s].rec
      BY <1>3, <1>6
    <3> QED
      BY <3>1 DEF Replacing
  <2>2. \A v \in users : /\ v.image <= serial /\ v.image <= serial + 1 /\ v.image # serial + 1
                         /\ v.image \in objects' \cup history.lost \cup {0} \cup Replacing'
    BY <1>1, <1>2, <2>1 DEF Imaged
  <2>3. ASSUME NEW s \in Ops, op'[s].at \in Imaging
        PROVE  /\ op[s].at \in Imaging /\ op'[s].rec = op[s].rec
               /\ op'[s].user = op[s].user
               /\ op[s].rec <= serial /\ op[s].rec <= serial + 1 /\ op[s].rec # serial + 1
    <3>1. op[s].at \in Imaging /\ op'[s].rec = op[s].rec /\ op'[s].user = op[s].user
      BY <1>2, <1>3, <1>6, <2>3 DEF Imaging
    <3>2. op[s].rec <= serial
      BY <1>1, <3>1 DEF Imaged
    <3> QED
      BY <1>1, <3>1, <3>2
  <2>4. ASSUME NEW s \in Ops, op'[s].at = "show", s # o
        PROVE  /\ op'[s] = op[s] /\ op[s].at = "show" /\ op[s].n <= serial
               /\ op[s].n <= serial + 1 /\ op[s].n # serial + 1
    <3>1. op'[s] = op[s] /\ op[s].at = "show" /\ op[s].n <= serial
      BY <1>1, <1>6, <2>4 DEF Imaged
    <3> QED
      BY <1>1, <3>1
  <2>5. ASSUME NEW s \in Ops, op'[s].at = "show", NEW r \in Ops
        PROVE  /\ op'[r].at \in Imaging => op'[r].rec # op'[s].n
               /\ r # s /\ op'[r].at = "show" => op'[r].n # op'[s].n
    <3>1. CASE s = o
      BY <1>3, <1>6, <2>3, <2>4, <2>5, <3>1
    <3>2. CASE s # o
      <4>1. op'[r].at \in Imaging => op'[r].rec # op'[s].n
        BY <1>1, <2>3, <2>4, <2>5, <3>2 DEF Imaged
      <4>2. ASSUME r # s, op'[r].at = "show" PROVE op'[r].n # op'[s].n
        <5>1. CASE r = o
          BY <1>3, <1>6, <2>4, <2>5, <3>2, <5>1
        <5>2. CASE r # o
          BY <1>1, <2>4, <2>5, <3>2, <4>2, <5>2 DEF Imaged
        <5> QED
          BY <5>1, <5>2
      <4> QED
        BY <4>1, <4>2
    <3> QED
      BY <3>1, <3>2
  <2>6. ASSUME NEW s \in Ops, op'[s].at = "show"
        PROVE  /\ op'[s].n <= serial + 1 /\ op'[s].n # 0 /\ op'[s].n \in objects'
               /\ \A v \in users : v.image # op'[s].n
    <3>1. CASE s = o
      BY <1>1, <1>2, <1>3, <1>6, <2>2, <3>1
    <3>2. CASE s # o
      BY <1>1, <1>2, <2>4, <2>6, <3>2 DEF Imaged
    <3> QED
      BY <3>1, <3>2
  <2>7. ASSUME NEW s \in Ops, op'[s].at \in Imaging
        PROVE  /\ op'[s].rec <= serial + 1
               /\ op'[s].rec # 0 => \A v \in users : v.image = op'[s].rec => v.id = op'[s].user
    BY <1>1, <2>3, <2>7 DEF Imaged
  <2> QED
    BY <1>1, <1>2, <2>2, <2>5, <2>6, <2>7 DEF Imaged
<1> QED
  BY <1>6, <1>7, <1>8 DEF AInv

LEMMA ShowStep ==
  ASSUME AInv, UNCHANGED scene, NEW o \in Ops, ShowImage(o)
  PROVE  AInv'
<1> DEFINE i == op[o].user
           New(u) == [u EXCEPT !.image = op[o].n]
<1>1. /\ Typed /\ Distinct /\ Imaged /\ op[o] \in Op /\ op[o].n \in Nat
      /\ \A s \in Ops : op[s].rec \in Nat /\ op[s].n \in Nat
      /\ \A u \in users : u.image \in Nat /\ u \in User
  BY DEF AInv, Typed, Op, User
<1>2. /\ op[o].at = "show" /\ Set(o, NoOp)
      /\ users' = (users \ ById(i)) \cup {New(u) : u \in ById(i)}
      /\ UNCHANGED <<ids, pending, serial, objects, history>>
  BY DEF ShowImage, Finish
<1>3. \A u \in ById(i) : /\ u \in users /\ u.id = i /\ New(u) \in User
                         /\ New(u).id = i /\ New(u).image = op[o].n
  BY <1>1 DEF ById, User
<1> HIDE DEF New
\* Of each user there is, it is one there was, and either another's or the new one.
<1>4. ASSUME NEW w \in users'
      PROVE  /\ w \in User
             /\ \E u \in users : w.id = u.id
             /\ \/ w \in users /\ w.id # i
                \/ w.id = i /\ w.image = op[o].n /\ \E u \in ById(i) : w = New(u)
  <2>1. CASE w \in users \ ById(i)
    BY <1>1, <2>1 DEF ById
  <2>2. CASE \E u \in ById(i) : w = New(u)
    BY <1>3, <2>2
  <2> QED
    BY <1>2, <2>1, <2>2
<1>5. ImageTyped
  BY <1>1, <1>2, <1>4 DEF ImageTyped, Typed
<1>6. /\ Typed' /\ Promised' /\ Single'
      /\ op'[o] = NoOp /\ \A s \in Ops : s # o => op'[s] = op[s]
  BY <1>2, <1>5, NoOpShaped, ImageStepKeeps
<1>7. Distinct'
  <2>1. \A w \in users' : w.id <= ids'
    BY <1>1, <1>2, <1>4 DEF Distinct
  <2>2. \A u, v \in ById(i) : u = v
    BY <1>1, <1>3 DEF Distinct
  <2>3. \A w, x \in users' : w.id = x.id => w = x
    BY <1>1, <1>4, <2>2 DEF Distinct
  <2> QED
    BY <2>1, <2>3 DEF Distinct
<1>8. Imaged'
  <2>1. /\ op[o].n <= serial /\ op[o].n # 0 /\ op[o].n \in objects
        /\ \A u \in users : u.image # op[o].n
        /\ \A s \in Ops : /\ op[s].at \in Imaging => op[s].rec # op[o].n
                          /\ s # o /\ op[s].at = "show" => op[s].n # op[o].n
        /\ op[o].rec # 0 => \A u \in users : u.image = op[o].rec => u.id = i
    BY <1>1, <1>2 DEF Imaged, Imaging
  <2>2. Replacing \subseteq Replacing' \cup {op[o].rec}
    <3> SUFFICES ASSUME NEW s \in Ops, op[s].at \in {"upload", "show"}, s # o
                 PROVE  op[s].rec \in Replacing'
      BY DEF Replacing
    <3> QED
      BY <1>6 DEF Replacing
  <2>3. ASSUME NEW w \in users'
        PROVE  /\ w.image <= serial
               /\ w.image \in objects \cup history.lost \cup {0} \cup Replacing'
    <3>1. CASE w.image = op[o].n
      BY <2>1, <3>1
    <3>2. CASE w \in users /\ w.id # i
      <4>1. /\ w.image <= serial
            /\ w.image \in objects \cup history.lost \cup {0} \cup Replacing
        BY <1>1, <3>2 DEF Imaged
      <4>2. w.image = 0 \/ w.image # op[o].rec
        BY <2>1, <3>2
      <4> QED
        BY <2>2, <4>1, <4>2
    <3> QED
      BY <1>4, <3>1, <3>2
  <2>4. \A w, x \in users' : w.image # 0 /\ w.image = x.image => w.id = x.id
    BY <1>1, <1>4, <2>1 DEF Imaged
  <2>5. ASSUME NEW s \in Ops, op'[s].at \in Imaging
        PROVE  s # o /\ op'[s] = op[s] /\ op[s].at \in Imaging
    BY <1>6, <2>5, NoOpShaped DEF Imaging
  <2>6. ASSUME NEW s \in Ops, op'[s].at \in Imaging
        PROVE  /\ op'[s].rec <= serial
               /\ op'[s].rec # 0 => \A w \in users' : w.image = op'[s].rec => w.id = op'[s].user
    BY <1>1, <1>4, <2>1, <2>5, <2>6 DEF Imaged
  <2>7. ASSUME NEW s \in Ops, op'[s].at = "show"
        PROVE  /\ op'[s].n <= serial /\ op'[s].n # 0 /\ op'[s].n \in objects
               /\ \A w \in users' : w.image # op'[s].n
               /\ \A r \in Ops : /\ op'[r].at \in Imaging => op'[r].rec # op'[s].n
                                 /\ r # s /\ op'[r].at = "show" => op'[r].n # op'[s].n
    <3>1. s # o /\ op'[s] = op[s] /\ op[s].at = "show"
      BY <2>5, <2>7 DEF Imaging
    <3>2. /\ op[s].n <= serial /\ op[s].n # 0 /\ op[s].n \in objects /\ op[s].n # op[o].n
          /\ \A u \in users : u.image # op[s].n
      BY <1>1, <2>1, <3>1 DEF Imaged
    <3>3. \A w \in users' : w.image # op[s].n
      BY <1>4, <3>2
    <3>4. \A r \in Ops : /\ op'[r].at \in Imaging => op'[r].rec # op'[s].n
                         /\ r # s /\ op'[r].at = "show" => op'[r].n # op'[s].n
      BY <1>1, <2>5, <3>1 DEF Imaged, Imaging
    <3> QED
      BY <3>1, <3>2, <3>3, <3>4
  <2> QED
    BY <1>2, <2>3, <2>4, <2>6, <2>7 DEF Imaged
<1> QED
  BY <1>6, <1>7, <1>8 DEF AInv

LEMMA FailsStep ==
  ASSUME AInv, UNCHANGED scene, NEW o \in Ops, OpFails(o)
  PROVE  AInv'
<1>1. /\ Typed /\ Distinct /\ Imaged /\ op[o] \in Op /\ op[o].rec \in Nat /\ Shape(op[o])
      /\ UNCHANGED <<users, ids, pending, serial, objects>> /\ Finish(o)
  BY DEF AInv, Typed, OpFails, Op
<1>2. CASE op[o].at \notin {"upload", "show"}
  <2>1. history' = history
    BY <1>1, <1>2 DEF OpFails, Typed
  <2> QED
    BY <1>1, <1>2, <2>1, FinishStep
<1>3. CASE op[o].at \in {"upload", "show"}
  <2>1. /\ history'.mailed = history.mailed /\ history'.gone = history.gone
        /\ history'.overlapped = history.overlapped
        /\ history'.lost = history.lost \cup {op[o].rec}
        /\ history' \in [mailed : SUBSET Nat, gone : SUBSET Nat, overlapped : SUBSET Emails,
                         lost : SUBSET Nat]
    BY <1>1, <1>3 DEF OpFails, Shape, Typed
  <2>2. ImageTyped
    BY <1>1, <2>1 DEF ImageTyped, Typed
  <2>3. /\ Typed' /\ Promised' /\ Single'
        /\ op'[o] = NoOp /\ \A s \in Ops : s # o => op'[s] = op[s]
    BY <1>1, <2>2, NoOpShaped, ImageStepKeeps DEF Finish
  <2>4. Distinct'
    BY <1>1, SameUsersKeeps DEF SameUsers
  <2>5. Imaged'
    <3>1. Replacing \subseteq Replacing' \cup {op[o].rec}
      <4> SUFFICES ASSUME NEW s \in Ops, op[s].at \in {"upload", "show"}, s # o
                   PROVE  op[s].rec \in Replacing'
        BY DEF Replacing
      <4> QED
        BY <2>3 DEF Replacing
    <3>2. \A u \in users : /\ u.image <= serial
                           /\ u.image \in objects \cup history'.lost \cup {0} \cup Replacing'
      BY <1>1, <2>1, <3>1 DEF Imaged
    <3>3. ASSUME NEW s \in Ops, op'[s].at \in Imaging
          PROVE  op'[s] = op[s]
      BY <2>3, <3>3, NoOpShaped DEF Imaging
    <3>4. ASSUME NEW s \in Ops, op'[s].at = "show"
          PROVE  /\ op'[s].n <= serial /\ op'[s].n # 0 /\ op'[s].n \in objects
                 /\ \A u \in users : u.image # op'[s].n
                 /\ \A r \in Ops : /\ op'[r].at \in Imaging => op'[r].rec # op'[s].n
                                   /\ r # s /\ op'[r].at = "show" => op'[r].n # op'[s].n
      BY <1>1, <3>3, <3>4 DEF Imaged, Imaging
    <3> QED
      BY <1>1, <3>2, <3>3, <3>4 DEF Imaged
  <2> QED
    BY <2>3, <2>4, <2>5 DEF AInv
<1> QED
  BY <1>2, <1>3

-----------------------------------------------------------------------------
\* Every step.

LEMMA NewOpKeeps ==
  ASSUME AInv, UNCHANGED scene, NEW o \in Ops, NewOp(o) PROVE AInv'
<1>1. scene.emails \subseteq Emails /\ scene.types \subseteq Types
  BY ScenesAssumption DEF AInv, Typed
<1>2. CASE \E e \in scene.emails, f \in Phones \cup {None}, t \in scene.types :
             Signup(o, e, f, t) \/ CreateUser(o, e, f, t)
  BY <1>1, <1>2, SignupStep
<1>3. CASE \E t \in pending : ResendVerification(o, t) \/ VerifyMagicLink(o, t)
  BY <1>3, ResendStep, VerifyStep
<1>4. CASE \E g \in Googles, flow \in {"googleLogin", "googleSignup"} : GoogleCallback(o, g, flow)
  BY <1>4, GoogleStep
<1>5. CASE \E l \in users, e \in Emails, f \in Phones \cup {None} : CreateAgent(o, l, e, f)
  BY <1>5, CreateAgentStep
<1>6. CASE \E u \in users, a \in Addresses :
             UpdateUser(o, u, a[1], a[2]) \/ UpdateProfile(o, u, a[1], a[2])
  <2>1. \A a \in Addresses : a[1] \in Emails \cup {None} /\ a[2] \in Phones \cup {None}
    BY DEF Addresses
  <2> QED
    BY <1>6, <2>1, UpdateUserStep
<1>7. CASE \E u, l \in users, f \in Phones : UpdateAgent(o, u, l, f)
  BY <1>7, UpdateAgentStep
<1>8. CASE \E u \in users : AskDelete(o, u) \/ VerifyEmailCode(o, u) \/ UploadImage(o, u)
  BY <1>8, AskDeleteStep, VerifyCodeStep, UploadStep
<1> QED
  BY <1>2, <1>3, <1>4, <1>5, <1>6, <1>7, <1>8 DEF NewOp

LEMMA OpStepKeeps ==
  ASSUME AInv, UNCHANGED scene, NEW o \in Ops, OpStep(o) PROVE AInv'
<1>1. CASE CheckEmail(o) \/ CheckPhone(o) \/ CheckAgain(o) \/ FindByGoogle(o) \/ FindByEmail(o)
  BY <1>1, CheckEmailStep, CheckPhoneStep, CheckAgainStep, FindStep
<1>2. CASE Supersede(o) \/ StoreToken(o) \/ Rewrite(o) \/ DiscardStale(o) \/ DiscardToken(o)
  BY <1>2, SupersedeStep, StoreTokenStep, RewriteStep, DiscardStep
<1>3. CASE \E sent \in BOOLEAN : Mail(o, sent) \/ DropOldImage(o, sent)
  BY <1>3, MailStep, DropStep
<1>4. CASE Insert(o) \/ LinkGoogleAccount(o) \/ WriteUser(o) \/ DeleteUser(o)
           \/ ClearVerificationCode(o)
  BY <1>4, InsertStep, LinkGoogleStep, WriteUserStep, DeleteUserStep, ClearCodeStep
<1>5. CASE StoreImage(o) \/ ShowImage(o) \/ OpFails(o)
  BY <1>5, StoreImageStep, ShowStep, FailsStep
<1> QED
  BY <1>1, <1>2, <1>3, <1>4, <1>5 DEF OpStep

\* The sessions leave the accounts alone.
LEMMA OthersKeep ==
  ASSUME AInv, UNCHANGED scene, UNCHANGED <<users, ids, pending, serial, objects, op, history>>
  PROVE  AInv'
<1>1. Typed /\ Distinct /\ Promised /\ Single /\ Imaged
  BY DEF AInv
<1>2. Typed' /\ SameUsers /\ LinksAside /\ ImagesAside
  BY <1>1 DEF Typed, SameUsers, LinksAside, ImagesAside
<1> QED
  BY <1>1, <1>2, SameUsersKeeps, LinksAsideKeeps, ImagesAsideKeeps DEF AInv

LEMMA AccountsStepKeeps ==
  ASSUME AInv, [Next]_<<scene, sessionVars, accountsVars>> PROVE AInv'
<1>1. CASE AccountsNext
  <2>1. UNCHANGED scene
    BY <1>1 DEF AccountsNext
  <2>2. CASE \E o \in Ops : NewOp(o) \/ OpStep(o)
    BY <2>1, <2>2, NewOpKeeps, OpStepKeeps
  <2>3. CASE \E u \in users : SendVerificationCode(u) \/ CodeExpires(u)
    BY <2>1, <2>3, SendCodeStep, CodeExpiresStep
  <2>4. CASE \E t \in pending : TokenExpires(t)
    BY <2>1, <2>4, TokenExpiresStep
  <2> QED
    BY <1>1, <2>2, <2>3, <2>4 DEF AccountsNext
<1>2. CASE SessionsNext /\ UNCHANGED accountsVars
  BY <1>2, OthersKeep DEF SessionsNext, accountsVars
<1>3. CASE AtRest \/ UNCHANGED <<scene, sessionVars, accountsVars>>
  BY <1>3, OthersKeep DEF AtRest, accountsVars
<1> QED
  BY <1>1, <1>2, <1>3 DEF Next

-----------------------------------------------------------------------------
\* The accounts of every behaviour keep their invariant (auth.service.ts:79-128,
\* user.service.ts, currentUser.service.ts).
THEOREM AccountsInvariant == Spec => []AInv
<1>1. Init => AInv
  BY AccountsInitEstablishes
<1>2. AInv /\ [Next]_<<scene, sessionVars, accountsVars>> => AInv'
  BY AccountsStepKeeps
<1> QED
  BY <1>1, <1>2, PTL DEF Spec

\* The state has its type, whatever requests interleave.
THEOREM AccountsTyped == Spec => []TypeOK
<1>1. AInv /\ IInv => TypeOK
  BY DEF AInv, Typed, IInv, TypeOK
<1> QED
  BY <1>1, AccountsInvariant, Invariant, PTL

\* A mailed verification link is stored until it is used, expires or is superseded,
\* for any number of overlapping signups, resends and verifications
\* (auth.service.ts:93-103).
THEOREM VerificationLinkStored == Spec => []MailedLinkWorks
<1>1. AInv => MailedLinkWorks
  BY DEF AInv, Promised
<1> QED
  BY <1>1, AccountsInvariant, PTL

\* Two links of one address at a time take two signups of it that overlap
\* (auth.service.ts:92-93).
THEOREM OneLinkKept == Spec => []OneLinkPerAddress
<1>1. AInv => OneLinkPerAddress
  BY DEF AInv, Single
<1> QED
  BY <1>1, AccountsInvariant, PTL

\* A user's image is stored, or is being replaced, or an upload lost it
\* (currentUser.service.ts:339-351).
THEOREM ImageStored == Spec => []ImageIsStored
<1>1. AInv => ImageIsStored
  BY DEF AInv, Imaged, Replacing, ImageIsStored
<1> QED
  BY <1>1, AccountsInvariant, PTL
=============================================================================
