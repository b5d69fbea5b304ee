---------------------------- MODULE ServiceCatalog ----------------------------
(***************************************************************************)
(* ServiceCatalogSystem: administrators keep categories and services,      *)
(* lounges offer services (LoungeService), and suggest new ones.  An       *)
(* administrator who implements a suggestion creates a service and an      *)
(* offer of it for the lounge, and then marks the suggestion.              *)
(***************************************************************************)
EXTENDS CatalogRequests

VARIABLES
  categories, services, offers, suggestions,   \* the collections
  lounges,    \* the accounts of lounges that exist
  served,     \* suggestions whose service and offer an administrator's request made
  claimed,    \* suggestions a lounge's edit marked implemented
  told        \* notifications: the suggestion, and its status

servicesVars == <<categories, services, offers, suggestions, lounges, served, claimed, told>>

Category == [id : Nat, title : Titles]
Service == [id : Nat, name : Names, category : Nat]
Offer == [id : Nat, lounge : Lounges, service : Nat, active : BOOLEAN]
Suggestion == [id : Nat, lounge : Lounges, name : Names, status : Statuses]

\* A scene begins with rows as these collections store them, ids given so far, and
\* before anything was implemented.
ASSUME ServicesAssumption ==
  \A s \in Scenes :
    /\ s.categories \subseteq Category /\ s.services \subseteq Service
    /\ s.offers \subseteq Offer /\ s.suggestions \subseteq Suggestion
    /\ \A x, y \in s.services : x.name = y.name => x = y
    /\ \A x, y \in s.offers : <<x.lounge, x.service>> = <<y.lounge, y.service>> => x = y
    /\ \A x \in s.services \cup s.offers \cup s.suggestions : x.id \in 1..s.given
    /\ \A x \in s.suggestions : x.status # "implemented"

ServicesInit ==
  /\ categories = scene.categories /\ services = scene.services
  /\ offers = scene.offers /\ suggestions = scene.suggestions
  /\ lounges = Lounges
  /\ served = {} /\ claimed = {} /\ told = {}

-----------------------------------------------------------------------------
\* Mutant of InsertableOffer: no unique index on (loungeId, serviceId).
InsertableOfferTwice(x) == TRUE

\* The unique indexes.
InsertableCategory(x) == \A c \in categories \ WithId(categories, x.id) : c.title # x.title
InsertableService(x)  == \A s \in services \ WithId(services, x.id) : s.name # x.name
InsertableOffer(x)    == \A f \in offers \ WithId(offers, x.id) : <<f.lounge, f.service>> # <<x.lounge, x.service>>

\* createServiceCategory and updateServiceCategory look for the title in any case.
CreateServiceCategory(o, title) ==
  /\ Begin(o, "category", [NoOp EXCEPT !.at = "title", !.items = <<title>>])
  /\ UNCHANGED <<scene, ids, servicesVars>>

UpdateServiceCategory(o, c, title) ==
  /\ Begin(o, "retitle", [NoOp EXCEPT !.at = "title", !.id = c.id, !.items = <<title>>])
  /\ UNCHANGED <<scene, ids, servicesVars>>

FindTitle(o) ==
  LET p == op[o] IN
  /\ p.at = "title" /\ p.kind \in {"category", "retitle"}
  /\ IF \E c \in categories : Folded[c.title] = Folded[Item(p)] /\ c.id # p.id
     THEN Finish(o)
     ELSE Set(o, [p EXCEPT !.at = IF p.kind = "category" THEN "insert" ELSE "write"])
  /\ UNCHANGED <<scene, ids, servicesVars>>

\* A duplicate key ends the request; so does a category that has gone.
StoreCategory(o) ==
  LET p == op[o]
      x == [id |-> IF p.kind = "category" THEN ids + 1 ELSE p.id, title |-> Item(p)]
  IN
  /\ \/ p.kind = "category" /\ p.at = "insert"
     \/ p.kind = "retitle" /\ p.at = "write"
  /\ IF InsertableCategory(x) /\ (p.kind = "retitle" => WithId(categories, p.id) # {})
     THEN /\ categories' = Put(categories, x)
          /\ ids' = IF p.kind = "category" THEN ids + 1 ELSE ids
     ELSE UNCHANGED <<categories, ids>>
  /\ Finish(o)
  /\ UNCHANGED <<scene, services, offers, suggestions, lounges, served, claimed, told>>

\* Mutant of CategoryUsers: the services are not counted.
CategoryUsersNone(c) == {}

\* checkCategoryUsage
CategoryUsers(c) == {s \in services : s.category = c}

\* deleteServiceCategory: a count that fails is taken for 0.
DeleteServiceCategory(o, c, fails) ==
  /\ fails => "fail" \in scene.does
  /\ fails \/ CategoryUsers(c.id) = {}
  /\ Begin(o, "uncategory", [NoOp EXCEPT !.at = "drop", !.id = c.id, !.blind = fails])
  /\ UNCHANGED <<scene, ids, servicesVars>>

DropCategory(o) ==
  /\ op[o].kind = "uncategory" /\ op[o].at = "drop"
  /\ categories' = categories \ WithId(categories, op[o].id)
  /\ Finish(o)
  /\ UNCHANGED <<scene, ids, services, offers, suggestions, lounges, served, claimed, told>>

-----------------------------------------------------------------------------
\* createService, for a category there is or was: it is not looked up.
CreateService(o, name, c) ==
  /\ Begin(o, "service", [NoOp EXCEPT !.at = "exact", !.items = <<name>>, !.category = c])
  /\ UNCHANGED <<scene, ids, servicesVars>>

\* bulkCreateServices looks each name up, but for nothing similar.
BulkCreateServices(o, names, c) ==
  /\ Begin(o, "services", [NoOp EXCEPT !.at = "exact", !.items = names, !.category = c])
  /\ UNCHANGED <<scene, ids, servicesVars>>

\* updateService: a new name, a new category, or both.
UpdateService(o, s, name, c) ==
  /\ name # None \/ c # 0
  /\ Begin(o, "rename", [NoOp EXCEPT !.at = IF name = None THEN "write" ELSE "exact",
                           !.id = s.id, !.category = c,
                           !.items = IF name = None THEN <<>> ELSE <<name>>])
  /\ UNCHANGED <<scene, ids, servicesVars>>

ServiceKinds == {"service", "services", "rename", "moderate"}

\* The next item of a bulk request, or the first one of its next step.
NextItem(p, step) ==
  IF p.n < Len(p.items) THEN [p EXCEPT !.n = @ + 1] ELSE [p EXCEPT !.at = step, !.n = 1]

FindExact(o) ==
  LET p == op[o] IN
  /\ p.at = "exact" /\ p.kind \in ServiceKinds
  /\ IF \E s \in services : s.name = Item(p) /\ (p.kind = "rename" => s.id # p.id)
     THEN Finish(o)
     ELSE Set(o, NextItem(p, IF p.kind = "services" THEN "insert" ELSE "similar"))
  /\ UNCHANGED <<scene, ids, servicesVars>>

\* One of the services that mention the normalised name is fetched, and only that
\* one is compared.
FindSimilar(o) ==
  LET p == op[o]
      hits == {s \in services : /\ Form[Item(p)] \in Mentions[s.name]
                                /\ p.kind = "rename" => s.id # p.id}
      next == [p EXCEPT !.at = IF p.kind = "rename" THEN "write" ELSE "insert"]
  IN
  /\ p.at = "similar" /\ p.kind \in ServiceKinds
  /\ \/ hits = {} /\ Set(o, next)
     \/ \E s \in hits : IF Form[s.name] = Form[Item(p)] THEN Finish(o) ELSE Set(o, next)
  /\ UNCHANGED <<scene, ids, servicesVars>>

\* What follows a created service.
AfterService(p) ==
  IF p.kind = "moderate" THEN [p EXCEPT !.at = "offered", !.made = ids + 1]
  ELSE IF p.n < Len(p.items) THEN [p EXCEPT !.n = @ + 1] ELSE NoOp

\* create, or one document of insertMany: those before a duplicate stay.
InsertService(o) ==
  LET p == op[o]
      x == [id |-> ids + 1, name |-> Item(p), category |-> p.category]
  IN
  /\ p.at = "insert" /\ p.kind \in ServiceKinds
  /\ IF InsertableService(x)
     THEN /\ services' = services \cup {x}
          /\ ids' = ids + 1
          /\ SetNoting(o, AfterService(p), p.category, x.id)
     ELSE Finish(o) /\ UNCHANGED <<services, ids>>
  /\ UNCHANGED <<scene, categories, offers, suggestions, lounges, served, claimed, told>>

WriteService(o) ==
  LET p == op[o]
      Changed(s) == [s EXCEPT !.name = IF p.items = <<>> THEN @ ELSE Item(p),
                              !.category = IF p.category = 0 THEN @ ELSE p.category]
  IN
  /\ p.at = "write" /\ p.kind = "rename"
  /\ \/ \E s \in WithId(services, p.id) :
          /\ InsertableService(Changed(s))
          /\ services' = Put(services, Changed(s))
          /\ SetNoting(o, NoOp, Changed(s).category, s.id)
     \/ /\ \A s \in WithId(services, p.id) : ~InsertableService(Changed(s))
        /\ Finish(o) /\ UNCHANGED services
  /\ UNCHANGED <<scene, ids, categories, offers, suggestions, lounges, served, claimed, told>>

\* deleteService: the offers of it stay.
DeleteService(s) ==
  /\ "unservice" \in scene.does
  /\ services' = services \ {s}
  /\ UNCHANGED <<requestVars, categories, offers, suggestions, lounges, served, claimed, told>>

-----------------------------------------------------------------------------
\* createLoungeService and bulkCreateLoungeServices, for any lounge and service id.
CreateLoungeServices(o, kind, l, list) ==
  /\ (kind = "offer") = (Len(list) = 1)
  /\ Begin(o, kind, [NoOp EXCEPT !.at = "offered", !.lounge = l, !.items = list])
  /\ UNCHANGED <<scene, ids, servicesVars>>

OfferKinds == {"offer", "offers", "moderate"}

\* The service to offer; suggestions offer the one they became.
ToOffer(p) == IF p.kind = "moderate" THEN p.made ELSE Item(p)

\* The lounge of a suggestion was populated: without its account the request fails.
FindOffer(o) ==
  LET p == op[o] IN
  /\ p.at = "offered" /\ p.kind \in OfferKinds
  /\ IF p.lounge = None \/ \E f \in offers : <<f.lounge, f.service>> = <<p.lounge, ToOffer(p)>>
     THEN Finish(o)
     ELSE Set(o, IF p.kind = "moderate" THEN [p EXCEPT !.at = "insert offer"]
                 ELSE NextItem(p, "insert offer"))
  /\ UNCHANGED <<scene, ids, servicesVars>>

\* Mutant of ImplementSteps: the suggestion is marked before anything is made.
ImplementStepsMarkedFirst == [read |-> "mark", offer |-> "tell", mark |-> "category"]

\* The order of implementing a suggestion.
ImplementSteps == [read |-> "category", offer |-> "mark", mark |-> "tell"]

InsertOffer(o) ==
  LET p == op[o]
      x == [id |-> ids + 1, lounge |-> p.lounge, service |-> ToOffer(p), active |-> TRUE]
  IN
  /\ p.at = "insert offer" /\ p.kind \in OfferKinds
  /\ IF InsertableOffer(x)
     THEN /\ offers' = offers \cup {x}
          /\ ids' = ids + 1
          /\ served' = IF p.kind = "moderate" THEN served \cup {p.id} ELSE served
          /\ Set(o, IF p.kind = "moderate" THEN [p EXCEPT !.at = ImplementSteps.offer]
                    ELSE IF p.n < Len(p.items) THEN [p EXCEPT !.n = @ + 1] ELSE NoOp)
     ELSE Finish(o) /\ UNCHANGED <<offers, ids, served>>
  /\ UNCHANGED <<scene, categories, services, suggestions, lounges, claimed, told>>

\* updateLoungeService, which may give the offer another service, and deleteLoungeService.
UpdateLoungeService(f, i, active) ==
  LET x == [f EXCEPT !.service = i, !.active = active] IN
  /\ "set offer" \in scene.does /\ InsertableOffer(x)
  /\ offers' = Put(offers, x)
  /\ UNCHANGED <<requestVars, categories, services, suggestions, lounges, served, claimed, told>>

DeleteLoungeService(f) ==
  /\ "unoffer" \in scene.does
  /\ offers' = offers \ {f}
  /\ UNCHANGED <<requestVars, categories, services, suggestions, lounges, served, claimed, told>>

\* toggleLoungeServiceStatus: the opposite of what was read is written.
ToggleLoungeServiceStatus(o, f) ==
  /\ Begin(o, "toggle", [NoOp EXCEPT !.at = "write", !.id = f.id, !.value = ~f.active])
  /\ UNCHANGED <<scene, ids, servicesVars>>

WriteToggle(o) ==
  LET p == op[o] IN
  /\ p.kind = "toggle" /\ p.at = "write"
  /\ offers' = {IF f.id = p.id THEN [f EXCEPT !.active = p.value] ELSE f : f \in offers}
  /\ Finish(o)
  /\ UNCHANGED <<scene, ids, categories, services, suggestions, lounges, served, claimed, told>>

-----------------------------------------------------------------------------
\* createServiceSuggestion: only the lounge's own pending ones are looked through.
CreateServiceSuggestion(o, l, name) ==
  /\ Begin(o, "suggest", [NoOp EXCEPT !.at = "pending", !.lounge = l, !.items = <<name>>])
  /\ UNCHANGED <<scene, ids, servicesVars>>

FindPending(o) ==
  LET p == op[o] IN
  /\ p.kind = "suggest" /\ p.at = "pending"
  /\ IF \E s \in suggestions : <<s.lounge, s.name, s.status>> = <<p.lounge, Item(p), "pending">>
     THEN Finish(o)
     ELSE Set(o, [p EXCEPT !.at = "insert"])
  /\ UNCHANGED <<scene, ids, servicesVars>>

InsertSuggestion(o) ==
  LET p == op[o] IN
  /\ p.kind = "suggest" /\ p.at = "insert"
  /\ ids' = ids + 1
  /\ suggestions' = suggestions \cup
       {[id |-> ids + 1, lounge |-> p.lounge, name |-> Item(p), status |-> "pending"]}
  /\ Set(o, [p EXCEPT !.at = "tell", !.id = ids + 1, !.status = "new"])
  /\ UNCHANGED <<scene, categories, services, offers, lounges, served, claimed, told>>

\* updateServiceSuggestion, of a pending one; the body may carry a status.
UpdateServiceSuggestion(o, s, name, status) ==
  /\ s.status = "pending"
  /\ Begin(o, "edit", [NoOp EXCEPT !.at = "write", !.id = s.id, !.status = status,
                         !.items = IF name = None THEN <<>> ELSE <<name>>])
  /\ UNCHANGED <<scene, ids, servicesVars>>

WriteSuggestion(o) ==
  LET p == op[o]
      found == WithId(suggestions, p.id)
      Changed(s) == [s EXCEPT !.name = IF p.items = <<>> THEN @ ELSE Item(p),
                              !.status = IF p.status = None THEN @ ELSE p.status]
  IN
  /\ p.kind = "edit" /\ p.at = "write"
  /\ suggestions' = (suggestions \ found) \cup {Changed(s) : s \in found}
  /\ claimed' = IF p.status = "implemented" THEN claimed \cup {p.id} ELSE claimed
  /\ Finish(o)
  /\ UNCHANGED <<scene, ids, categories, services, offers, lounges, served, told>>

\* deleteServiceSuggestion
DeleteServiceSuggestion(s) ==
  /\ "unsuggest" \in scene.does
  /\ suggestions' = suggestions \ {s}
  /\ UNCHANGED <<requestVars, categories, services, offers, lounges, served, claimed, told>>

\* validateImplementationFields, and the same of the other route.  Other statuses
\* ignore the name and the category.
Complete(status, name, c) ==
  IF status = "implemented" THEN name # None /\ c # 0 ELSE name = None /\ c = 0

\* updateServiceSuggestionStatus, which refuses the status it has, and
\* adminUpdateServiceSuggestionStatus, which does not and may leave it.
ModerateSuggestion(o, s, status, name, c, admin) ==
  /\ Complete(status, name, c)
  /\ ~admin => status \notin {None, s.status}
  /\ Begin(o, "moderate", [NoOp EXCEPT
       !.id = s.id, !.status = status, !.category = c,
       !.lounge = IF s.lounge \in lounges THEN s.lounge ELSE None,
       !.items = IF name = None THEN <<>> ELSE <<name>>,
       !.at = IF status = "implemented" THEN ImplementSteps.read ELSE "mark"])
  /\ UNCHANGED <<scene, ids, servicesVars>>

\* implementSuggestion begins with the category.
FindCategory(o) ==
  LET p == op[o] IN
  /\ p.kind = "moderate" /\ p.at = "category"
  /\ IF WithId(categories, p.category) = {} THEN Finish(o) ELSE Set(o, [p EXCEPT !.at = "exact"])
  /\ UNCHANGED <<scene, ids, servicesVars>>

MarkSuggestion(o) ==
  LET p == op[o]
      found == WithId(suggestions, p.id)
  IN
  /\ p.kind = "moderate" /\ p.at = "mark"
  /\ suggestions' = (suggestions \ found) \cup
       {[s EXCEPT !.status = IF p.status = None THEN @ ELSE p.status] : s \in found}
  /\ Set(o, [p EXCEPT !.at = IF p.status = "implemented" THEN ImplementSteps.mark ELSE "tell"])
  /\ UNCHANGED <<scene, ids, categories, services, offers, lounges, served, claimed, told>>

\* The notification of the lounge, if it was there when the suggestion was read, or
\* of the administrators for a new one.
TellSuggestion(o) ==
  LET p == op[o] IN
  /\ p.kind \in {"suggest", "moderate"} /\ p.at = "tell"
  /\ told' = IF p.status \in {"new", "implemented", "rejected"} /\ p.lounge # None
             THEN told \cup {<<p.id, p.status>>} ELSE told
  /\ Finish(o)
  /\ UNCHANGED <<scene, ids, categories, services, offers, suggestions, lounges, served, claimed>>

-----------------------------------------------------------------------------
\* An account of a lounge is deleted; what refers to it stays.
LoungeDeleted(l) ==
  /\ "lounge deleted" \in scene.does
  /\ lounges' = lounges \ {l}
  /\ UNCHANGED <<requestVars, categories, services, offers, suggestions, served, claimed, told>>

\* The ids clients know: of what there is, and of what there was at first.
CategoryIds == {c.id : c \in categories \cup scene.categories}
ServiceIds == {s.id : s \in services \cup scene.services}
Pairs(S) == {q \in S \X S : q[1] # q[2]}

\* What the requests may carry: a category given to a service is never looked up when
\* the request is read, nor are the lounge and the service of an offer.
CategoryRequest(o) ==
  \/ \E t \in scene.titles : CreateServiceCategory(o, t)
  \/ \E c \in categories, t \in scene.titles : UpdateServiceCategory(o, c, t)
  \/ \E c \in categories, fails \in BOOLEAN : DeleteServiceCategory(o, c, fails)

ServiceRequest(o) ==
  \/ \E n \in scene.names, c \in CategoryIds : CreateService(o, n, c)
  \/ \E q \in Pairs(scene.names), c \in CategoryIds : BulkCreateServices(o, q, c)
  \/ \E s \in services, n \in scene.names \cup {None}, c \in CategoryIds \cup {0} :
       UpdateService(o, s, n, c)

OfferRequest(o) ==
  \/ \E l \in Lounges, i \in ServiceIds : CreateLoungeServices(o, "offer", l, <<i>>)
  \/ \E l \in Lounges, q \in Pairs(ServiceIds) : CreateLoungeServices(o, "offers", l, q)
  \/ \E f \in offers : ToggleLoungeServiceStatus(o, f)

SuggestionRequest(o) ==
  \/ \E l \in lounges, n \in scene.names : CreateServiceSuggestion(o, l, n)
  \/ \E s \in suggestions, n \in scene.names \cup {None}, st \in Statuses \cup {None} :
       UpdateServiceSuggestion(o, s, n, st)
  \/ \E s \in suggestions, st \in Statuses \cup {None}, n \in scene.names \cup {None},
        c \in CategoryIds \cup {0}, admin \in BOOLEAN : ModerateSuggestion(o, s, st, n, c, admin)

NewServicesRequest(o) ==
  CategoryRequest(o) \/ ServiceRequest(o) \/ OfferRequest(o) \/ SuggestionRequest(o)

ServicesStep(o) ==
  \/ FindTitle(o) \/ StoreCategory(o) \/ DropCategory(o)
  \/ FindExact(o) \/ FindSimilar(o) \/ InsertService(o) \/ WriteService(o)
  \/ FindOffer(o) \/ InsertOffer(o) \/ WriteToggle(o)
  \/ FindPending(o) \/ InsertSuggestion(o) \/ WriteSuggestion(o)
  \/ FindCategory(o) \/ MarkSuggestion(o) \/ TellSuggestion(o)

ServicesNext ==
  \/ \E o \in Ops : NewServicesRequest(o) \/ ServicesStep(o)
  \/ \E s \in services : DeleteService(s)
  \/ \E f \in offers, i \in ServiceIds, a \in BOOLEAN : UpdateLoungeService(f, i, a)
  \/ \E f \in offers : DeleteLoungeService(f)
  \/ \E s \in suggestions : DeleteServiceSuggestion(s)
  \/ \E l \in lounges : LoungeDeleted(l)

-----------------------------------------------------------------------------
ServicesTypeOK ==
  /\ categories \subseteq Category /\ services \subseteq Service
  /\ offers \subseteq Offer /\ suggestions \subseteq Suggestion
  /\ lounges \subseteq Lounges /\ served \cup claimed \subseteq 1..ids
  /\ told \subseteq Nat \X (Statuses \cup {"new"})
  /\ \A s, t \in services : s.name = t.name => s = t
  /\ \A f, g \in offers : <<f.lounge, f.service>> = <<g.lounge, g.service>> => f = g

\* A suggestion is marked implemented, or its lounge told so, only after its
\* service and its offer have been made -- unless the lounge marked it itself.
SuggestionIsOffered ==
  /\ \A s \in suggestions : s.status = "implemented" => s.id \in served \cup claimed
  /\ \A t \in told : t[2] = "implemented" => t[1] \in served

\* A category that services are in is deleted only if they came while it was being
\* deleted, or counting them failed.
CategoryInUseStays ==
  \A c \in categories : WithId(categories', c.id) = {} =>
    \A s \in services : s.category = c.id => Excused(c.id, s.id)
=============================================================================
