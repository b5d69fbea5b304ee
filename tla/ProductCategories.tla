--------------------------- MODULE ProductCategories ---------------------------
(***************************************************************************)
(* MarketplaceSystem: the categories of products.  Any user may suggest    *)
(* one; an administrator who implements a suggestion creates the category  *)
(* and then marks the suggestion with it.                                  *)
(***************************************************************************)
EXTENDS CatalogRequests

VARIABLES
  productCategories, products, categorySuggestions,   \* the collections
  built,      \* <<suggestion, category>>: the category was created for the suggestion
  answered    \* notifications: the suggestion, and what is said of it

productVars == <<productCategories, products, categorySuggestions, built, answered>>

\* The slug <<base, n>> reads "base" for n = 1, then "base-1", "base-2" and so on.
ProductCategory == [id : Nat, title : Titles, slug : {Base[t] : t \in Titles} \X Nat]
Product == [id : Nat, category : Nat]
CategorySuggestion ==
  [id : Nat, by : Users, title : Titles, status : Statuses, category : Nat]

\* A scene begins with rows as these collections store them, and before anything was
\* implemented.
ASSUME ProductAssumption ==
  \A s \in Scenes :
    /\ s.productCategories \subseteq ProductCategory /\ s.products \subseteq Product
    /\ s.categorySuggestions \subseteq CategorySuggestion
    /\ \A c, d \in s.productCategories : c.title = d.title \/ c.slug = d.slug => c = d
    /\ \A x \in s.categorySuggestions : x.status # "implemented"

ProductInit ==
  /\ productCategories = scene.productCategories /\ products = scene.products
  /\ categorySuggestions = scene.categorySuggestions
  /\ built = {} /\ answered = {}

-----------------------------------------------------------------------------
\* The unique indexes.
InsertableProductCategory(x) ==
  \A c \in productCategories \ WithId(productCategories, x.id) :
    c.title # x.title /\ c.slug # x.slug

CreateProductCategory(o, title) ==
  /\ Begin(o, "product category", [NoOp EXCEPT !.at = "title", !.items = <<title>>])
  /\ UNCHANGED <<scene, ids, productVars>>

\* updateProductCategory with a new name; its other fields are left out.
UpdateProductCategory(o, c, title) ==
  /\ Begin(o, "retitle product category", [NoOp EXCEPT !.at = "title", !.id = c.id, !.items = <<title>>])
  /\ UNCHANGED <<scene, ids, productVars>>

TitleKinds == {"product category", "retitle product category", "moderate category"}

\* The category a request writes, if it is there already; suggestions make a new one.
Rewritten(p) == IF p.kind = "retitle product category" THEN p.id ELSE 0

\* A category of the same name in any case ends the request.
FindProductTitle(o) ==
  LET p == op[o] IN
  /\ p.at = "title" /\ p.kind \in TitleKinds
  /\ IF \E c \in productCategories : Folded[c.title] = Folded[p.items[1]] /\ c.id # Rewritten(p)
     THEN Finish(o)
     ELSE Set(o, [p EXCEPT !.at = "slug"])
  /\ UNCHANGED <<scene, ids, productVars>>

\* One round of generateUniqueSlug.
ProbeSlug(o) ==
  LET p == op[o] IN
  /\ p.at = "slug" /\ p.kind \in TitleKinds
  /\ IF \E c \in productCategories : c.slug = <<Base[p.items[1]], p.n>> /\ c.id # Rewritten(p)
     THEN Set(o, [p EXCEPT !.n = @ + 1])
     ELSE Set(o, [p EXCEPT !.at = "store"])
  /\ UNCHANGED <<scene, ids, productVars>>

\* A duplicate key ends the request; so does a category that has gone.
StoreProductCategory(o) ==
  LET p == op[o]
      new == Rewritten(p) = 0
      x == [id |-> IF new THEN ids + 1 ELSE p.id, title |-> p.items[1],
            slug |-> <<Base[p.items[1]], p.n>>]
  IN
  /\ p.at = "store" /\ p.kind \in TitleKinds
  /\ \/ /\ InsertableProductCategory(x) /\ (new \/ WithId(productCategories, p.id) # {})
        /\ productCategories' = Put(productCategories, x)
        /\ ids' = IF new THEN ids + 1 ELSE ids
        /\ IF p.kind = "moderate category"
           THEN built' = built \cup {<<p.id, ids + 1>>} /\ Set(o, [p EXCEPT !.at = "mark", !.made = ids + 1])
           ELSE Finish(o) /\ UNCHANGED built
     \/ /\ ~(InsertableProductCategory(x) /\ (new \/ WithId(productCategories, p.id) # {}))
        /\ Finish(o) /\ UNCHANGED <<productCategories, ids, built>>
  /\ UNCHANGED <<scene, products, categorySuggestions, answered>>

\* checkCategoryUsage
ProductUsers(c) == {x \in products : x.category = c}

\* deleteProductCategory; a count that fails ends it.
DeleteProductCategory(o, c) ==
  /\ ProductUsers(c.id) = {}
  /\ Begin(o, "drop product category", [NoOp EXCEPT !.at = "drop", !.id = c.id])
  /\ UNCHANGED <<scene, ids, productVars>>

DropProductCategory(o) ==
  /\ op[o].kind = "drop product category" /\ op[o].at = "drop"
  /\ productCategories' = productCategories \ WithId(productCategories, op[o].id)
  /\ Finish(o)
  /\ UNCHANGED <<scene, ids, products, categorySuggestions, built, answered>>

\* createProduct and updateProduct begin with assertCategoryExists.
WriteProductIn(o, kind, x, c) ==
  /\ Begin(o, kind, [NoOp EXCEPT !.at = "product", !.id = x, !.category = c.id])
  /\ UNCHANGED <<scene, ids, productVars>>

StoreProduct(o) ==
  LET p == op[o]
      i == IF p.kind = "product" THEN ids + 1 ELSE p.id
  IN
  /\ p.at = "product" /\ p.kind \in {"product", "move product"}
  /\ ids' = IF p.kind = "product" THEN ids + 1 ELSE ids
  /\ products' = Put(products, [id |-> i, category |-> p.category])
  /\ SetNoting(o, NoOp, p.category, i)
  /\ UNCHANGED <<scene, productCategories, categorySuggestions, built, answered>>

-----------------------------------------------------------------------------
\* createSuggestion: no category and no pending suggestion of anybody may have the name.
SuggestCategory(o, u, title) ==
  /\ Begin(o, "suggest category", [NoOp EXCEPT !.at = "taken", !.lounge = u, !.items = <<title>>])
  /\ UNCHANGED <<scene, ids, productVars>>

FindTaken(o) ==
  LET p == op[o] IN
  /\ p.kind = "suggest category" /\ p.at = "taken"
  /\ IF \E c \in productCategories : Folded[c.title] = Folded[p.items[1]]
     THEN Finish(o)
     ELSE Set(o, [p EXCEPT !.at = "pending"])
  /\ UNCHANGED <<scene, ids, productVars>>

FindPendingCategory(o) ==
  LET p == op[o] IN
  /\ p.kind = "suggest category" /\ p.at = "pending"
  /\ IF \E s \in categorySuggestions : Folded[s.title] = Folded[p.items[1]] /\ s.status = "pending"
     THEN Finish(o)
     ELSE Set(o, [p EXCEPT !.at = "insert"])
  /\ UNCHANGED <<scene, ids, productVars>>

InsertCategorySuggestion(o) ==
  LET p == op[o] IN
  /\ p.kind = "suggest category" /\ p.at = "insert"
  /\ ids' = ids + 1
  /\ categorySuggestions' = categorySuggestions \cup
       {[id |-> ids + 1, by |-> p.lounge, title |-> p.items[1], status |-> "pending", category |-> 0]}
  /\ Set(o, [p EXCEPT !.at = "answer", !.id = ids + 1, !.status = "new"])
  /\ UNCHANGED <<scene, productCategories, products, built, answered>>

\* updateSuggestion, by its own user while it is pending.
UpdateSuggestion(o, s, title) ==
  /\ s.status = "pending"
  /\ Begin(o, "retitle suggestion", [NoOp EXCEPT !.at = "write", !.id = s.id, !.items = <<title>>])
  /\ UNCHANGED <<scene, ids, productVars>>

WriteSuggestionTitle(o) ==
  LET p == op[o] IN
  /\ p.kind = "retitle suggestion" /\ p.at = "write"
  /\ categorySuggestions' =
       {IF s.id = p.id THEN [s EXCEPT !.title = p.items[1]] ELSE s : s \in categorySuggestions}
  /\ Finish(o)
  /\ UNCHANGED <<scene, ids, productCategories, products, built, answered>>

\* deleteSuggestion
DeleteSuggestion(s) ==
  /\ "unsuggest category" \in scene.does
  /\ categorySuggestions' = categorySuggestions \ {s}
  /\ UNCHANGED <<requestVars, productCategories, products, built, answered>>

\* What a moderation writes first.
ModerateSteps(status) == IF status = "implemented" THEN "title" ELSE "mark"

\* updateSuggestionStatus, of a suggestion not implemented and to another status;
\* adminApproveSuggestion is the same with "implemented" for a missing status.
UpdateSuggestionStatus(o, s, status, title) ==
  /\ s.status \notin {"implemented", status}
  /\ Begin(o, "moderate category", [NoOp EXCEPT
       !.at = ModerateSteps(status), !.id = s.id, !.status = status,
       !.items = <<IF title = None THEN s.title ELSE title>>])
  /\ UNCHANGED <<scene, ids, productVars>>

\* implementSuggestion also records the category.
MarkCategorySuggestion(o) ==
  LET p == op[o]
      Marked(s) == IF p.status = "implemented"
                   THEN [s EXCEPT !.status = p.status, !.category = p.made]
                   ELSE [s EXCEPT !.status = p.status]
  IN
  /\ p.kind = "moderate category" /\ p.at = "mark"
  /\ categorySuggestions' =
       {IF s.id = p.id THEN Marked(s) ELSE s : s \in categorySuggestions}
  /\ Set(o, [p EXCEPT !.at = "answer"])
  /\ UNCHANGED <<scene, ids, productCategories, products, built, answered>>

\* The notification of the administrators, or of the user who suggested it.
AnswerSuggestion(o) ==
  LET p == op[o] IN
  /\ p.kind \in {"suggest category", "moderate category"} /\ p.at = "answer"
  /\ answered' = CASE p.status = "pending" -> answered
                   [] p.status = "implemented" -> answered \cup {<<p.id, "approved">>}
                   [] OTHER -> answered \cup {<<p.id, p.status>>}
  /\ Finish(o)
  /\ UNCHANGED <<scene, ids, productCategories, products, categorySuggestions, built>>

-----------------------------------------------------------------------------
ProductCategoryRequest(o) ==
  \/ \E t \in scene.titles : CreateProductCategory(o, t)
  \/ \E c \in productCategories, t \in scene.titles : UpdateProductCategory(o, c, t)
  \/ \E c \in productCategories : DeleteProductCategory(o, c)

ProductRequest(o) ==
  \/ \E c \in productCategories : WriteProductIn(o, "product", 0, c)
  \/ \E x \in products, c \in productCategories : WriteProductIn(o, "move product", x.id, c)

CategorySuggestionRequest(o) ==
  \/ \E u \in Users, t \in scene.titles : SuggestCategory(o, u, t)
  \/ \E s \in categorySuggestions, t \in scene.titles : UpdateSuggestion(o, s, t)
  \/ \E s \in categorySuggestions, st \in Statuses, t \in scene.titles \cup {None} :
       UpdateSuggestionStatus(o, s, st, t)

ProductStep(o) ==
  \/ FindProductTitle(o) \/ ProbeSlug(o) \/ StoreProductCategory(o) \/ DropProductCategory(o)
  \/ StoreProduct(o)
  \/ FindTaken(o) \/ FindPendingCategory(o) \/ InsertCategorySuggestion(o)
  \/ WriteSuggestionTitle(o) \/ MarkCategorySuggestion(o) \/ AnswerSuggestion(o)

ProductNext ==
  \/ \E o \in Ops :
       ProductCategoryRequest(o) \/ ProductRequest(o) \/ CategorySuggestionRequest(o) \/ ProductStep(o)
  \/ \E s \in categorySuggestions : DeleteSuggestion(s)

-----------------------------------------------------------------------------
ProductTypeOK ==
  /\ productCategories \subseteq ProductCategory /\ products \subseteq Product
  /\ categorySuggestions \subseteq CategorySuggestion
  /\ built \subseteq Nat \X Nat /\ answered \subseteq Nat \X {"new", "approved", "rejected"}
  /\ \A c, d \in productCategories : c.title = d.title \/ c.slug = d.slug => c = d

\* An implemented suggestion names a category, and that category was made for it.
SuggestionBecameCategory ==
  \A s \in categorySuggestions : s.status = "implemented" => <<s.id, s.category>> \in built

\* A category that products are in is deleted only if they came while it was being
\* deleted.
ProductCategoryInUseStays ==
  \A c \in productCategories : WithId(productCategories', c.id) = {} =>
    \A x \in products : x.category = c.id => Excused(c.id, x.id)

\* interfaces/productCategory.interface.ts calls the status IMPLEMENTED terminal, and
\* updateSuggestionStatus refuses to moderate such a suggestion again.
ImplementedIsTerminal ==
  [][\A s \in categorySuggestions : s.status = "implemented" =>
       \A t \in WithId(categorySuggestions', s.id) : t.status = "implemented"]_productVars
=============================================================================
