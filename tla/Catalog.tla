-------------------------------- MODULE Catalog --------------------------------
(***************************************************************************)
(* The three catalogues side by side, over one counter of ids and the same *)
(* slots for requests.                                                     *)
(***************************************************************************)
EXTENDS ServiceCatalog, ProductCategories, Extras

vars == <<requestVars, servicesVars, productVars, extraVars>>

Init ==
  /\ scene \in Scenes /\ ids = scene.given
  /\ op = [o \in Ops |-> NoOp]
  /\ ServicesInit /\ ProductInit /\ ExtrasInit

\* A database call fails, or the process ends: what was done before stays.
RequestFails(o) ==
  /\ op[o].at # "idle" /\ "fail" \in scene.does
  /\ Finish(o)
  /\ UNCHANGED <<scene, ids, servicesVars, productVars, extraVars>>

AtRest == (\A o \in Ops : op[o].at = "idle") /\ UNCHANGED vars

Next ==
  \/ ServicesNext /\ UNCHANGED <<productVars, extraVars>>
  \/ ProductNext /\ UNCHANGED <<servicesVars, extraVars>>
  \/ ExtrasNext /\ UNCHANGED <<servicesVars, productVars>>
  \/ \E o \in Ops : RequestFails(o)
  \/ AtRest

Spec == Init /\ [][Next]_vars

-----------------------------------------------------------------------------
\* The rows keep their types, and names, titles, slugs and pairs of a lounge and what
\* it offers stay unique through the requests that only look before they write.
TypeOK == RequestsTypeOK /\ ServicesTypeOK /\ ProductTypeOK /\ ExtrasTypeOK

\* A suggestion is marked implemented, and its lounge is told so, only after what it
\* asked for was created for it.
ImplementedIsReal == SuggestionIsOffered /\ SuggestionBecameCategory

\* The deletion of a category, which counts its users first, strands no service and no
\* product but those that came after the count.
UsedCategoryStays == [][CategoryInUseStays /\ ProductCategoryInUseStays]_vars
=============================================================================
