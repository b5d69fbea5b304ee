------------------------------- MODULE MCCatalog -------------------------------
EXTENDS Catalog, TLC

CONSTANTS o1, o2, l1, l2, u1, u2, t1, t2, t3, n1, n2, n3, n4

\* n1 "haircut", n2 "kids haircut", n3 "haircut deluxe", n4 "kidshaircut".
FormOf     == n1 :> "haircut" @@ n2 :> "haircut" @@ n3 :> "haircutdeluxe" @@ n4 :> "kidshaircut"
MentionsOf == n1 :> {"haircut"} @@ n2 :> {"haircut"} @@ n3 :> {"haircut"} @@ n4 :> {"kidshaircut"}
SqueezedOf == n1 :> n1 @@ n2 :> n4 @@ n3 :> "haircutdeluxe" @@ n4 :> n4

\* t1 "Hair", t2 "hair", t3 "Hair!".
FoldedOf == t1 :> "hair" @@ t2 :> "hair" @@ t3 :> "hair!"
BaseOf   == t1 :> "hair" @@ t2 :> "hair" @@ t3 :> "hair"

Nothing ==
  [does |-> {}, given |-> 0, ids |-> 0, names |-> {n1, n2}, titles |-> {t1, t2}, categories |-> {}, services |-> {}, offers |-> {},
   suggestions |-> {}, productCategories |-> {}, products |-> {}, categorySuggestions |-> {},
   extras |-> {}, adopted |-> {}]

C1 == [id |-> 1, title |-> t1]
S2(n) == [id |-> 2, name |-> n, category |-> 1]
P1 == [id |-> 1, title |-> t1, slug |-> <<"hair", 1>>]

MCScenes == {
  \* services: looked up, then inserted or renamed
  [Nothing EXCEPT !.does = {"service", "services", "rename", "unservice"}, !.names = {n1, n2, n3},
     !.given = 2, !.ids = 4, !.categories = {C1}, !.services = {S2(n1)}],
  \* categories of services, and the services in them
  [Nothing EXCEPT !.does = {"category", "retitle", "uncategory", "fail"},
     !.given = 2, !.ids = 4, !.titles = {t1, t2, t3}, !.categories = {C1}, !.services = {S2(n3)}],
  [Nothing EXCEPT !.does = {"uncategory", "service", "rename", "fail"}, !.names = {n1},
     !.given = 3, !.ids = 5, !.categories = {C1, [id |-> 3, title |-> t3]}, !.services = {S2(n3)}],
  \* offers of two lounges
  [Nothing EXCEPT !.does = {"offer", "offers", "toggle", "set offer", "unoffer"},
     !.given = 3, !.ids = 5, !.categories = {C1},
     !.services = {S2(n1), [S2(n4) EXCEPT !.id = 3]}],
  \* suggestions of lounges, by the lounges and by administrators
  [Nothing EXCEPT !.does = {"suggest", "edit", "unsuggest"}, !.ids = 2, !.names = {n1}],
  [Nothing EXCEPT !.does = {"edit", "moderate", "unsuggest"},
     !.given = 2, !.ids = 4, !.categories = {C1}, !.names = {n1},
     !.suggestions = {[id |-> 2, lounge |-> l1, name |-> n1, status |-> "pending"]}],
  [Nothing EXCEPT !.does = {"moderate", "unservice", "offer", "lounge deleted", "fail"},
     !.given = 3, !.ids = 7, !.categories = {C1}, !.services = {S2(n1)}, !.names = {n1, n4},
     !.suggestions = {[id |-> 3, lounge |-> l1, name |-> n1, status |-> "rejected"]}],
  \* categories of products and their slugs
  [Nothing EXCEPT !.does = {"product category", "retitle product category", "product",
                            "move product", "drop product category", "fail"},
     !.given = 1, !.ids = 3, !.titles = {t1, t3}, !.productCategories = {P1}],
  \* suggestions of categories
  [Nothing EXCEPT !.does = {"suggest category", "product category", "retitle suggestion",
                            "unsuggest category", "moderate category"},
     !.given = 0, !.ids = 2],
  [Nothing EXCEPT !.does = {"moderate category", "retitle product category", "fail"},
     !.given = 2, !.ids = 4, !.productCategories = {P1}, !.titles = {t2, t3},
     !.categorySuggestions =
        {[id |-> 2, by |-> u1, title |-> t3, status |-> "pending", category |-> 0]}],
  \* extras and their adoption
  [Nothing EXCEPT !.does = {"extra", "update extra", "drop extra"},
     !.given = 1, !.ids = 2, !.names = {n2, n4},
     !.extras = {[id |-> 1, name |-> n2, free |-> FALSE, cost |-> 1]}],
  [Nothing EXCEPT !.does = {"adopt", "change adopted", "remove adopted", "drop extra"},
     !.given = 1, !.ids = 3,
     !.extras = {[id |-> 1, name |-> n1, free |-> TRUE, cost |-> 0]}]
  }

\* Two administrators and one suggestion.
ModerationScenes == {
  [Nothing EXCEPT !.does = {"moderate category"}, !.given = 2, !.ids = 4,
     !.productCategories = {P1},
     !.categorySuggestions =
        {[id |-> 2, by |-> u1, title |-> t3, status |-> "pending", category |-> 0]}]
  }

Symmetric == Permutations({o1, o2})
=============================================================================
