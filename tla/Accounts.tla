------------------------------- MODULE Accounts -------------------------------
(***************************************************************************)
(* AuthSystem and UserManager: how accounts come to be, are changed and    *)
(* are deleted.  A signup stores a verification token and mails its link;  *)
(* following the link inserts the user.  Google, an administrator and a    *)
(* lounge insert users as well, and profiles change their addresses.       *)
(*                                                                         *)
(* Every request looks an address up first and inserts or writes later;    *)
(* what keeps addresses unique is the index of the users collection, which *)
(* tells spellings apart: an address is in lower case only if the handler  *)
(* that stores it makes it so.  Each database call and each mail is a      *)
(* step.  Sessions, of one account, is the other half of these systems and *)
(* shares its scenes.                                                      *)
(***************************************************************************)
EXTENDS Sessions

CONSTANTS
  Emails, Phones,
  Lower,         \* toLowerCase of each email
  None,          \* an address or a Google account that is not given
  Googles,       \* Google accounts
  GoogleEmail,   \* the address of each, as Google spells it
  Ops,           \* slots for the requests in flight
  MaxAttempts    \* RETRY_MAX_ATTEMPTS

ASSUME AccountsAssumption ==
  /\ None \notin Emails \cup Phones \cup Googles
  /\ Lower \in [Emails -> Emails] /\ \A e \in Emails : Lower[Lower[e]] = Lower[e]
  /\ GoogleEmail \in [Googles -> Emails]
  /\ MaxAttempts \in Nat \ {0}

Types == {"client", "lounge", "admin", "agent"}

User ==
  [id : Nat, email : Emails, phone : Phones \cup {None}, type : Types,
   google : Googles \cup {None},
   parent : Nat,                \* the lounge of an agent, 0 for others
   image : Nat,                 \* the stored object of the profile image, 0 for none
   verified : BOOLEAN,          \* emailVerification.0
   code : Nat, codeLive : BOOLEAN]

\* A verification token: the record, and the link it presently has.
Pending ==
  [rec : Nat, n : Nat, email : Emails, phone : Phones \cup {None},
   type : Types, live : BOOLEAN]

OpKinds == {"none", "signup", "resend", "verify", "googleLogin", "googleSignup", "create", "agent",
            "update", "profile", "self", "code", "image", "delete"}
OpSteps == {"idle", "email", "phone", "supersede", "token", "mail", "rewrite", "stale",
            "insert", "wait", "discard", "byId", "byEmail", "link", "write", "again",
            "accept", "clear", "drop", "upload", "show", "remove"}

Op ==
  [kind : OpKinds, at : OpSteps, email : Emails \cup {None}, phone : Phones \cup {None},
   type : Types, google : Googles \cup {None}, user : Nat, parent : Nat,
   n : Nat, rec : Nat, tries : Nat]

NoOp ==
  [kind |-> "none", at |-> "idle", email |-> None, phone |-> None, type |-> "client",
   google |-> None, user |-> 0, parent |-> 0, n |-> 0, rec |-> 0, tries |-> 0]

\* The accounts a behaviour starts with are numbered and have no image, and none
\* shares an address.
ASSUME ScenesAssumption ==
  \A s \in Scenes :
    /\ s.emails \subseteq Emails /\ s.types \subseteq Types
    /\ s.users \subseteq User /\ IsFiniteSet(s.users)
    /\ \A u \in s.users : u.id <= Cardinality(s.users) /\ u.image = 0
    /\ \A u, v \in s.users :
         u # v => u.id # v.id /\ u.email # v.email /\ (u.phone = None \/ u.phone # v.phone)

VARIABLES
  users,     \* the users collection
  ids,       \* users created so far
  pending,   \* the verification tokens
  serial,    \* links, codes and images made so far
  objects,   \* the images stored in the bucket
  op,        \* per slot, the request in flight
  history    \* mailed links; links used, expired, superseded or overtaken by
             \* that; addresses whose signups overlapped; images lost by a failure

accountsVars == <<users, ids, pending, serial, objects, op, history>>

Empty(email, type) ==
  [id |-> 0, email |-> email, phone |-> None, type |-> type, google |-> None,
   parent |-> 0, image |-> 0, verified |-> TRUE, code |-> 0, codeLive |-> FALSE]

AccountsInit ==
  /\ users = scene.users
  /\ ids = Cardinality(scene.users)
  /\ pending = {} /\ serial = 0 /\ objects = {}
  /\ op = [o \in Ops |-> NoOp]
  /\ history = [mailed |-> {}, gone |-> {}, overlapped |-> {}, lost |-> {}]

-----------------------------------------------------------------------------
Set(o, p) == op' = [op EXCEPT ![o] = p]

Finish(o) == Set(o, NoOp)

\* Links, codes and images still to be made.
Making == {o \in Ops : op[o].kind \in {"signup", "resend", "code", "image"}}

Begin(o, kind, p) ==
  /\ op[o].at = "idle" /\ kind \in scene.ops
  /\ kind \in {"signup", "resend", "code", "image"}
       => serial + Cardinality(Making) < scene.serials   \* bound
  /\ kind \in {"verify", "googleSignup", "create", "agent"}
       => ids + Cardinality({s \in Ops : op[s].at \in {"email", "phone", "insert", "wait", "byId", "byEmail"}})
            < scene.ids   \* bound
  /\ Set(o, [p EXCEPT !.kind = kind])

NamedBy(email) == {u \in users : u.email = email}

ById(i) == {u \in users : u.id = i}

\* u in place of the user of its id.
Put(u) == users' = (users \ ById(u.id)) \cup {u}

\* The unique indexes on email, as spelt, and on phoneNumber where there is one.
Insertable(u) ==
  \A v \in users \ ById(u.id) :
    v.email # u.email /\ (u.phone = None \/ v.phone # u.phone)

\* Mutant of SignupSteps: the token is stored before the earlier ones are removed.
SignupStepsSwapped == [checked |-> "token", supersede |-> "mail", token |-> "supersede"]

\* The steps of signup when the addresses are free.
SignupSteps == [checked |-> "supersede", supersede |-> "token", token |-> "mail"]

\* The step after the address checks.
Checked(kind) ==
  CASE kind = "signup" -> SignupSteps.checked
    [] kind \in {"verify", "create", "agent"} -> "insert"
    [] OTHER -> "write"

AfterEmail(p) == IF p.phone = None THEN Checked(p.kind) ELSE "phone"

\* A conflict ends the request; of a followed link the token goes as well.
Conflict(o) ==
  IF op[o].kind = "verify" THEN Set(o, [op[o] EXCEPT !.at = "discard"]) ELSE Finish(o)

CheckEmail(o) ==
  LET p == op[o] IN
  /\ p.at = "email"
  /\ IF \E u \in NamedBy(p.email) : u.id # p.user THEN Conflict(o)
     ELSE Set(o, [p EXCEPT !.at = AfterEmail(p)])
  /\ UNCHANGED <<users, ids, pending, serial, objects, history>>

CheckPhone(o) ==
  LET p == op[o] IN
  /\ p.at = "phone"
  /\ IF \E u \in users : u.phone = p.phone /\ u.id # p.user THEN Conflict(o)
     ELSE Set(o, [p EXCEPT !.at = Checked(p.kind)])
  /\ UNCHANGED <<users, ids, pending, serial, objects, history>>

-----------------------------------------------------------------------------
\* signup, in lower case
Signup(o, email, phone, type) ==
  /\ Begin(o, "signup", [NoOp EXCEPT !.at = "email", !.email = Lower[email], !.phone = phone,
                                     !.type = type])
  /\ UNCHANGED <<users, ids, pending, serial, objects, history>>

\* Mutant of SupersedePending: earlier tokens of the address stay.
SupersedeNone(email) == {}

\* deleteMany of the tokens of the address.
SupersedePending(email) == {t \in pending : t.email = email}

Supersede(o) ==
  LET p == op[o]
      old == SupersedePending(p.email)
  IN
  /\ p.at = "supersede"
  /\ pending' = pending \ old
  /\ history' = [history EXCEPT
       !.gone = @ \cup (Numbers(old) \ {p.n}),
       !.overlapped = @ \cup {e \in {p.email} : \E s \in Ops : op[s].at = "token" /\ op[s].email = e}]
  /\ Set(o, [p EXCEPT !.at = SignupSteps.supersede])
  /\ UNCHANGED <<users, ids, serial, objects>>

StoreToken(o) ==
  LET p == op[o] IN
  /\ p.at = "token"
  /\ serial' = serial + 1
  /\ pending' = pending \cup
       {[rec |-> serial + 1, n |-> serial + 1, email |-> p.email, phone |-> p.phone,
         type |-> p.type, live |-> TRUE]}
  /\ Set(o, [p EXCEPT !.at = SignupSteps.token, !.n = serial + 1])
  /\ UNCHANGED <<users, ids, objects, history>>

\* The mail of signup and resend; that it fails changes nothing.
Mail(o, sent) ==
  /\ op[o].at = "mail"
  /\ sent \/ "fail" \in scene.ops
  /\ history' = IF sent THEN [history EXCEPT !.mailed = @ \cup {op[o].n}] ELSE history
  /\ Finish(o)
  /\ UNCHANGED <<users, ids, pending, serial, objects>>

\* resendVerification
ResendVerification(o, t) ==
  /\ Begin(o, "resend", [NoOp EXCEPT !.at = IF t.live THEN "rewrite" ELSE "stale",
                                     !.email = t.email, !.rec = t.rec])
  /\ UNCHANGED <<users, ids, pending, serial, objects, history>>

WithRec(r) == {t \in pending : t.rec = r}

\* The record gets a new link, if it is still there.
Rewrite(o) ==
  LET p == op[o]
      found == WithRec(p.rec)
  IN
  /\ p.at = "rewrite"
  /\ serial' = serial + 1
  /\ pending' = (pending \ found) \cup {[t EXCEPT !.n = serial + 1, !.live = TRUE] : t \in found}
  /\ history' = [history EXCEPT !.gone = @ \cup (IF found = {} THEN {serial + 1} ELSE Numbers(found))]
  /\ Set(o, [p EXCEPT !.at = "mail", !.n = serial + 1])
  /\ UNCHANGED <<users, ids, objects>>

DiscardStale(o) ==
  LET found == WithRec(op[o].rec) IN
  /\ op[o].at = "stale"
  /\ pending' = pending \ found
  /\ history' = [history EXCEPT !.gone = @ \cup Numbers(found)]
  /\ Finish(o)
  /\ UNCHANGED <<users, ids, serial, objects>>

\* verifyMagicLink goes on with the token it read.
VerifyMagicLink(o, t) ==
  /\ t.n \in history.mailed
  /\ Begin(o, "verify", [NoOp EXCEPT !.at = IF t.live THEN "email" ELSE "discard",
                            !.email = t.email, !.phone = t.phone, !.type = t.type, !.n = t.n])
  /\ UNCHANGED <<users, ids, pending, serial, objects, history>>

DiscardToken(o) ==
  LET found == {t \in pending : t.n = op[o].n} IN
  /\ op[o].at = "discard"
  /\ pending' = pending \ found
  /\ history' = [history EXCEPT !.gone = @ \cup Numbers(found)]
  /\ Finish(o)
  /\ UNCHANGED <<users, ids, serial, objects>>

-----------------------------------------------------------------------------
\* The user that a request inserts.
NewUser(p) ==
  [Empty(p.email, p.type) EXCEPT !.id = ids + 1, !.phone = p.phone, !.google = p.google,
                                 !.parent = p.parent]

\* create.  createUser tries again after a duplicate key, the others give up; a
\* link that has been used is discarded.
Insert(o) ==
  LET p == op[o]
      u == NewUser(p)
  IN
  /\ p.at = "insert"
  /\ IF Insertable(u)
     THEN /\ users' = users \cup {u}
          /\ ids' = ids + 1
          /\ IF p.kind = "verify" THEN Set(o, [p EXCEPT !.at = "discard"]) ELSE Finish(o)
     ELSE /\ IF p.kind = "create" /\ p.tries + 1 < MaxAttempts
             THEN Set(o, [p EXCEPT !.at = "wait", !.tries = @ + 1])
             ELSE Finish(o)
          /\ UNCHANGED <<users, ids>>
  /\ UNCHANGED <<pending, serial, objects, history>>

\* createUser, in lower case
CreateUser(o, email, phone, type) ==
  /\ Begin(o, "create", [NoOp EXCEPT !.at = "email", !.email = Lower[email], !.phone = phone,
                                     !.type = type])
  /\ UNCHANGED <<users, ids, pending, serial, objects, history>>

\* After the backoff only the email is looked up again.
CheckAgain(o) ==
  LET p == op[o] IN
  /\ p.at = "wait"
  /\ IF NamedBy(p.email) # {} THEN Finish(o) ELSE Set(o, [p EXCEPT !.at = "insert"])
  /\ UNCHANGED <<users, ids, pending, serial, objects, history>>

\* createAgent, by the lounge, in lower case.
CreateAgent(o, l, email, phone) ==
  /\ l.type = "lounge"
  /\ Begin(o, "agent", [NoOp EXCEPT !.at = "email", !.email = Lower[email], !.phone = phone,
                                    !.type = "agent", !.parent = l.id])
  /\ UNCHANGED <<users, ids, pending, serial, objects, history>>

-----------------------------------------------------------------------------
\* The Google strategy: by Google account, by address as Google spells it, or a new
\* user.
GoogleCallback(o, g, flow) ==
  /\ Begin(o, flow, [NoOp EXCEPT !.at = "byId", !.google = g, !.email = GoogleEmail[g]])
  /\ UNCHANGED <<users, ids, pending, serial, objects, history>>

SigningUp(p) == p.kind = "googleSignup"

\* A user found signs in and is linked; someone who signs up is sent away.
LinkFound(o, found) ==
  \E u \in found :
    IF SigningUp(op[o]) THEN Finish(o) ELSE Set(o, [op[o] EXCEPT !.at = "link", !.user = u.id])

FindByGoogle(o) ==
  LET found == {u \in users : u.google = op[o].google} IN
  /\ op[o].at = "byId"
  /\ IF found # {} THEN LinkFound(o, found) ELSE Set(o, [op[o] EXCEPT !.at = "byEmail"])
  /\ UNCHANGED <<users, ids, pending, serial, objects, history>>

FindByEmail(o) ==
  LET found == NamedBy(op[o].email) IN
  /\ op[o].at = "byEmail"
  /\ IF found # {} THEN LinkFound(o, found)
     ELSE IF SigningUp(op[o]) THEN Set(o, [op[o] EXCEPT !.at = "insert"])
     ELSE Finish(o)
  /\ UNCHANGED <<users, ids, pending, serial, objects, history>>

LinkGoogleAccount(o) ==
  /\ op[o].at = "link"
  /\ \/ \E u \in ById(op[o].user) : Put([u EXCEPT !.google = op[o].google])
     \/ ById(op[o].user) = {} /\ UNCHANGED users
  /\ Finish(o)
  /\ UNCHANGED <<ids, pending, serial, objects, history>>

-----------------------------------------------------------------------------
LowerOf(email) == IF email = None THEN None ELSE Lower[email]

\* updateUser of an administrator: email, in lower case, then phone.
UpdateUser(o, u, email, phone) ==
  /\ <<email, phone>> # <<None, None>>
  /\ Begin(o, "update", [NoOp EXCEPT !.user = u.id, !.email = LowerOf(email), !.phone = phone,
                           !.at = IF email # None THEN "email" ELSE "phone"])
  /\ UNCHANGED <<users, ids, pending, serial, objects, history>>

\* updateUser of a user's own account: only the phone is looked up, and the email is
\* stored as it was sent.
UpdateProfile(o, u, email, phone) ==
  /\ <<email, phone>> # <<None, None>>
  /\ Begin(o, "profile", [NoOp EXCEPT !.user = u.id, !.email = email, !.phone = phone,
                            !.at = IF phone # None THEN "phone" ELSE "write"])
  /\ UNCHANGED <<users, ids, pending, serial, objects, history>>

\* updateAgent by a lounge that owns the agent, and updateOwnProfile: a phone
\* that does not change is not looked up.
UpdateAgent(o, u, l, phone) ==
  /\ u.type = "agent" /\ l.id \in {u.parent, u.id}
  /\ Begin(o, "self", [NoOp EXCEPT !.user = u.id, !.phone = phone,
                         !.at = IF phone # u.phone THEN "phone" ELSE "write"])
  /\ UNCHANGED <<users, ids, pending, serial, objects, history>>

\* Mutant of Given: what is not given is cleared.
GivenOrCleared(new, old) == new

\* Fields not given stay.
Given(new, old) == IF new = None THEN old ELSE new

Changed(u, p) == [u EXCEPT !.email = Given(p.email, @), !.phone = Given(p.phone, @)]

\* findByIdAndUpdate; an administrator's update is tried once more.
WriteUser(o) ==
  LET p == op[o]
      last == p.kind # "update" \/ p.tries = 1
  IN
  /\ p.at = "write"
  /\ \/ /\ ById(p.user) = {}
        /\ Finish(o) /\ UNCHANGED users
     \/ \E u \in ById(p.user) :
          IF Insertable(Changed(u, p)) THEN Put(Changed(u, p)) /\ Finish(o)
          ELSE /\ IF last THEN Finish(o) ELSE Set(o, [p EXCEPT !.tries = 1])
               /\ UNCHANGED users
  /\ UNCHANGED <<ids, pending, serial, objects, history>>

\* deleteUser, deleteMe and deleteAgent: by id, after the account has been read.
AskDelete(o, u) ==
  /\ Begin(o, "delete", [NoOp EXCEPT !.at = "remove", !.user = u.id])
  /\ UNCHANGED <<users, ids, pending, serial, objects, history>>

DeleteUser(o) ==
  /\ op[o].at = "remove"
  /\ users' = users \ ById(op[o].user)
  /\ Finish(o)
  /\ UNCHANGED <<ids, pending, serial, objects, history>>

-----------------------------------------------------------------------------
\* sendVerificationCode: the new code replaces the one stored.
SendVerificationCode(u) ==
  /\ "code" \in scene.ops
  /\ serial < scene.serials   \* bound
  /\ serial' = serial + 1
  /\ Put([u EXCEPT !.code = serial + 1, !.codeLive = TRUE])
  /\ UNCHANGED <<ids, pending, objects, op, history>>

\* verifyEmailCode: what is written depends on the code it read.
VerifyEmailCode(o, u) ==
  /\ "code" \in scene.ops /\ op[o].at = "idle" /\ u.code # 0
  /\ Set(o, [NoOp EXCEPT !.kind = "code", !.user = u.id,
                         !.at = IF u.codeLive THEN "accept" ELSE "clear"])
  /\ UNCHANGED <<users, ids, pending, serial, objects, history>>

\* The code goes, whichever it has become; one accepted verifies the address.
ClearVerificationCode(o) ==
  LET p == op[o] IN
  /\ p.at \in {"accept", "clear"}
  /\ users' = (users \ ById(p.user)) \cup
       {[u EXCEPT !.code = 0, !.codeLive = FALSE, !.verified = @ \/ p.at = "accept"] : u \in ById(p.user)}
  /\ Finish(o)
  /\ UNCHANGED <<ids, pending, serial, objects, history>>

-----------------------------------------------------------------------------
\* uploadImage: the object of the old image goes first, then the new one is
\* stored, then the user points to it.
UploadImage(o, u) ==
  /\ Begin(o, "image", [NoOp EXCEPT !.user = u.id, !.rec = u.image,
                                    !.at = IF u.image = 0 THEN "upload" ELSE "drop"])
  /\ UNCHANGED <<users, ids, pending, serial, objects, history>>

\* That the old object cannot be deleted is only logged.
DropOldImage(o, dropped) ==
  LET p == op[o] IN
  /\ p.at = "drop"
  /\ dropped \/ "fail" \in scene.ops
  /\ objects' = IF dropped THEN objects \ {p.rec} ELSE objects
  /\ Set(o, [p EXCEPT !.at = "upload"])
  /\ UNCHANGED <<users, ids, pending, serial, history>>

\* Mutant of StoreImage: a failed upload is logged, as a failed deletion is.
StoreImageLogged(o) ==
  /\ op[o].at = "upload"
  /\ serial' = serial + 1
  /\ \/ objects' = objects \cup {serial + 1}
     \/ "fail" \in scene.ops /\ UNCHANGED objects
  /\ Set(o, [op[o] EXCEPT !.at = "show", !.n = serial + 1])
  /\ UNCHANGED <<users, ids, pending, history>>

\* The key of an object is never used twice.
StoreImage(o) ==
  /\ op[o].at = "upload"
  /\ serial' = serial + 1
  /\ objects' = objects \cup {serial + 1}
  /\ Set(o, [op[o] EXCEPT !.at = "show", !.n = serial + 1])
  /\ UNCHANGED <<users, ids, pending, history>>

ShowImage(o) ==
  LET p == op[o] IN
  /\ p.at = "show"
  /\ users' = (users \ ById(p.user)) \cup {[u EXCEPT !.image = p.n] : u \in ById(p.user)}
  /\ Finish(o)
  /\ UNCHANGED <<ids, pending, serial, objects, history>>

-----------------------------------------------------------------------------
\* Ten minutes pass, and the TTL index removes what has expired; a code expires.
TokenExpires(t) ==
  /\ "expire" \in scene.ops
  /\ pending' = (pending \ {t}) \cup (IF t.live THEN {[t EXCEPT !.live = FALSE]} ELSE {})
  /\ history' = [history EXCEPT !.gone = @ \cup {t.n}]
  /\ UNCHANGED <<users, ids, serial, objects, op>>

CodeExpires(u) ==
  /\ "expire" \in scene.ops /\ u.codeLive
  /\ Put([u EXCEPT !.codeLive = FALSE])
  /\ UNCHANGED <<ids, pending, serial, objects, op, history>>

\* A call fails, or the process ends: an image whose object is gone is lost.
OpFails(o) ==
  LET p == op[o] IN
  /\ "fail" \in scene.ops /\ p.at # "idle"
  /\ history' = [history EXCEPT !.lost =
       IF p.kind = "image" /\ p.at \in {"upload", "show"} THEN @ \cup {p.rec} ELSE @]
  /\ Finish(o)
  /\ UNCHANGED <<users, ids, pending, serial, objects>>

Addresses == (Emails \cup {None}) \X (Phones \cup {None})

NewOp(o) ==
  \/ \E e \in scene.emails, f \in Phones \cup {None}, t \in scene.types :
       Signup(o, e, f, t) \/ CreateUser(o, e, f, t)
  \/ \E t \in pending : ResendVerification(o, t) \/ VerifyMagicLink(o, t)
  \/ \E g \in Googles, flow \in {"googleLogin", "googleSignup"} : GoogleCallback(o, g, flow)
  \/ \E l \in users, e \in Emails, f \in Phones \cup {None} : CreateAgent(o, l, e, f)
  \/ \E u \in users, a \in Addresses : UpdateUser(o, u, a[1], a[2]) \/ UpdateProfile(o, u, a[1], a[2])
  \/ \E u, l \in users, f \in Phones : UpdateAgent(o, u, l, f)
  \/ \E u \in users : AskDelete(o, u) \/ VerifyEmailCode(o, u) \/ UploadImage(o, u)

OpStep(o) ==
  \/ CheckEmail(o) \/ CheckPhone(o) \/ Supersede(o) \/ StoreToken(o)
  \/ \E sent \in BOOLEAN : Mail(o, sent) \/ DropOldImage(o, sent)
  \/ Rewrite(o) \/ DiscardStale(o) \/ DiscardToken(o) \/ Insert(o) \/ CheckAgain(o)
  \/ FindByGoogle(o) \/ FindByEmail(o) \/ LinkGoogleAccount(o) \/ WriteUser(o)
  \/ DeleteUser(o) \/ ClearVerificationCode(o) \/ StoreImage(o) \/ ShowImage(o) \/ OpFails(o)

AccountsNext ==
  /\ \/ \E o \in Ops : NewOp(o) \/ OpStep(o)
     \/ \E u \in users : SendVerificationCode(u) \/ CodeExpires(u)
     \/ \E t \in pending : TokenExpires(t)
  /\ UNCHANGED scene

\* Nothing is in flight: the service may stay as it is.
AtRest ==
  /\ \A r \in Requests : req[r].at = "idle"
  /\ \A o \in Ops : op[o].at = "idle"
  /\ UNCHANGED <<scene, sessionVars, accountsVars>>

Init == SessionsInit /\ AccountsInit

Next ==
  \/ SessionsNext /\ UNCHANGED accountsVars
  \/ AccountsNext /\ UNCHANGED sessionVars
  \/ AtRest

Spec == Init /\ [][Next]_<<scene, sessionVars, accountsVars>>

-----------------------------------------------------------------------------
\* Properties.

TypeOK ==
  /\ SessionsTypeOK
  /\ users \subseteq User /\ ids \in Nat
  /\ pending \subseteq Pending /\ serial \in Nat
  /\ objects \subseteq Nat
  /\ op \in [Ops -> Op]
  /\ history \in [mailed : SUBSET Nat, gone : SUBSET Nat, overlapped : SUBSET Emails,
                  lost : SUBSET Nat]

\* A verification link that was mailed is stored until it is used, expires or is
\* superseded by a later request, whatever signups, resends and verifications
\* overlap (auth.service.ts:93-103); only a resend whose record has gone since it
\* was read mails a link that leads nowhere.
MailedLinkWorks == history.mailed \ history.gone \subseteq Numbers(pending)

\* An address has one verification link at a time, so that whoever signs up again
\* cannot be registered with the password given before, unless two signups of
\* the address overlap (auth.service.ts:92-93).
OneLinkPerAddress ==
  \A s, t \in pending : s.email = t.email /\ s # t => s.email \in history.overlapped

\* The image of a user is in the bucket, but for an upload that is replacing it or
\* has failed after deleting it; also when two uploads overlap
\* (currentUser.service.ts:339-351).
ImageIsStored ==
  \A u \in users :
    u.image \in objects \cup history.lost \cup {0} \cup {op[o].rec : o \in Ops}
=============================================================================
