---------------------------- MODULE CatalogProofs ----------------------------
(***************************************************************************)
(* The catalogues keep their rows typed and unique, mark and tell only     *)
(* what was made, price the extras consistently, and strand nobody in a    *)
(* category they delete -- for any scenes, lounges, names and slots.       *)
(*                                                                         *)
(* The invariant has a part for each catalogue: what its rows are, what a  *)
(* request carries (Fit), and what a request under way knows of the rows   *)
(* (Good).  A step moves one request; the others it can only join to a     *)
(* category being deleted (Follows).  So one lemma per catalogue says what *)
(* a step leaves of the invariant, and each action has to show only the    *)
(* rows it wrote and the request it moved.                                 *)
(***************************************************************************)
EXTENDS Catalog, TLAPS

\* What a request carries: a name in hand, a title, a list of ids.
Named(p)  == p.items \in Seq(Names) /\ p.n \in 1..Len(p.items)
Titled(p) == p.items \in Seq(Titles) /\ Len(p.items) = 1
Listed(p) == p.items \in Seq(Nat) /\ p.n \in 1..Len(p.items)

ServiceRequests ==
  {"category", "retitle", "uncategory", "service", "services", "rename",
   "offer", "offers", "toggle", "suggest", "edit", "moderate"}
ProductRequests ==
  {"product category", "retitle product category", "drop product category", "product",
   "move product", "suggest category", "retitle suggestion", "moderate category"}
ExtraRequests == {"extra", "update extra", "adopt", "change adopted"}

-----------------------------------------------------------------------------
\* The invariant of the services.

ServiceFit(p) ==
  /\ p.kind \in {"category", "retitle"} => Titled(p) /\ p.n = 1
  /\ p.kind \in {"service", "services", "suggest"} => Named(p)
  /\ p.kind \in {"rename", "edit"} => p.items = <<>> \/ Named(p)
  /\ p.kind = "rename" => p.at = "write" \/ (p.at \in {"exact", "similar"} /\ Named(p))
  /\ p.kind \in {"offer", "offers"} => Listed(p)
  /\ p.kind \in {"offer", "offers", "suggest"} => p.lounge \in Lounges
  /\ p.kind = "toggle" => p.value \in BOOLEAN
  /\ p.kind \in {"edit", "moderate"} => p.status \in Statuses \cup {None}
  /\ p.kind = "moderate" =>
       /\ p.lounge \in Lounges \cup {None}
       /\ p.at \in {"category", "exact", "similar", "insert"} => Named(p)
       /\ p.at = "insert offer" => p.lounge \in Lounges

\* A suggestion that is marked implemented has been served; a service that is in the
\* category a request will drop came after the count.
ServiceGood(p, n, done, rows) ==
  /\ p.kind \in {"edit", "moderate"} => p.id \in 1..n
  /\ p.kind = "moderate" /\ p.at \in {"mark", "tell"} /\ p.status = "implemented" => p.id \in done
  /\ p.kind = "moderate" /\ p.at \in {"category", "exact", "similar", "insert", "offered", "insert offer"}
       => p.status = "implemented"
  /\ p.kind = "suggest" /\ p.at = "tell" => p.status = "new"
  /\ p.kind = "uncategory" =>
       p.at = "drop" /\ (p.blind \/ \A s \in rows : s.category = p.id => s.id \in p.late)

ServiceRows ==
  /\ ServicesTypeOK
  /\ SuggestionIsOffered
  /\ \A s \in services \cup offers \cup suggestions : s.id \in 1..ids

ServicesInv ==
  /\ ServiceRows
  /\ \A o \in Ops : ServiceFit(op[o]) /\ ServiceGood(op[o], ids, served, services)

-----------------------------------------------------------------------------
\* The invariant of the product categories.

ProductFit(p) ==
  /\ p.kind \in {"product category", "retitle product category", "suggest category",
                 "retitle suggestion", "moderate category"} => Titled(p)
  /\ p.kind = "suggest category" => p.lounge \in Users
  /\ p.kind = "suggest category" /\ p.at = "answer" => p.status = "new"
  /\ p.kind = "moderate category" => p.status \in Statuses

ProductGood(p, made, rows) ==
  /\ p.kind = "moderate category" /\ p.at \in {"mark", "answer"} /\ p.status = "implemented"
       => <<p.id, p.made>> \in made
  /\ p.kind = "drop product category" =>
       p.at = "drop" /\ \A x \in rows : x.category = p.id => x.id \in p.late

ProductRows == ProductTypeOK /\ SuggestionBecameCategory

ProductInv ==
  /\ ProductRows
  /\ \A o \in Ops : ProductFit(op[o]) /\ ProductGood(op[o], built, products)

-----------------------------------------------------------------------------
\* The invariant of the extras.

ExtraFit(p) ==
  /\ p.kind = "extra" => Named(p) /\ p.value \in BOOLEAN /\ p.cost \in {0, 1} /\ Fair(p.value, p.cost)
  /\ p.kind = "update extra" => p.items = <<>> \/ Named(p)
  /\ p.kind = "adopt" => p.lounge \in Lounges /\ p.cost \in {1, Null}
  /\ p.kind = "change adopted" => p.value \in BOOLEAN \cup {None}

\* What an update will write leaves its extra free exactly when it costs nothing.
ExtraGood(p, n, both, rows) ==
  p.kind = "update extra" =>
    /\ p.id \in 1..n
    /\ p.id \notin both => \A x \in rows : x.id = p.id =>
         Fair(Merged(p.value, x.free), Merged(p.cost, x.cost))

ExtraRows ==
  /\ ExtrasTypeOK /\ FreeCostsNothing
  /\ \A x \in extras : x.id \in 1..ids
  /\ \A x, y \in extras : x.id = y.id => x = y

ExtrasInv ==
  /\ ExtraRows
  /\ \A o \in Ops : ExtraFit(op[o]) /\ ExtraGood(op[o], ids, raced, extras)
  /\ \A o, q \in Ops : o # q /\ op[o].kind = "update extra" /\ op[q].kind = "update extra"
                         /\ op[o].id = op[q].id => op[o].id \in raced

Typed == scene \in Scenes /\ ids \in Nat /\ op \in [Ops -> Op]

Inv == Typed /\ ServicesInv /\ ProductInv /\ ExtrasInv

-----------------------------------------------------------------------------
\* How requests move.

\* A request that nothing has happened to but that somebody joined its category.
Follows(q, p) ==
  /\ q.kind = p.kind /\ q.at = p.at /\ q.id = p.id /\ q.items = p.items /\ q.n = p.n
  /\ q.category = p.category /\ q.lounge = p.lounge /\ q.status = p.status /\ q.value = p.value
  /\ q.cost = p.cost /\ q.made = p.made /\ q.blind = p.blind /\ p.late \subseteq q.late

\* One request becomes q, the others go on.
Moves(o, q) ==
  /\ op' \in [Ops -> Op] /\ op'[o] = q
  /\ \A r \in Ops \ {o} : Follows(op'[r], op[r])

LEMMA NoOpFields ==
  /\ NoOp \in Op /\ NoOp.kind = "none" /\ NoOp.at = "idle" /\ NoOp.id = 0 /\ NoOp.items = <<>>
  /\ NoOp.n = 1 /\ NoOp.category = 0 /\ NoOp.lounge = None /\ NoOp.status = None /\ NoOp.value = None
  /\ NoOp.cost = None /\ NoOp.made = 0 /\ NoOp.late = {} /\ NoOp.blind = FALSE
BY DEF NoOp, Op, Steps

LEMMA Sets ==
  ASSUME Typed, NEW o \in Ops, NEW q \in Op, Set(o, q)
  PROVE  Moves(o, q) /\ \A r \in Ops \ {o} : op'[r] = op[r]
BY DEF Typed, Set, Moves, Follows

LEMMA SetsNoting ==
  ASSUME Typed, NEW o \in Ops, NEW q \in Op, NEW c, NEW i \in Nat, SetNoting(o, q, c, i)
  PROVE  Moves(o, q) /\ \A r \in Ops \ {o} : op[r].at = "drop" /\ op[r].id = c => i \in op'[r].late
<1>1. op'[o] = q
  BY DEF SetNoting
<1>2. ASSUME NEW r \in Ops \ {o}
      PROVE  /\ op'[r] \in Op /\ Follows(op'[r], op[r])
             /\ op[r].at = "drop" /\ op[r].id = c => i \in op'[r].late
  <2>1. op[r] \in Op
    BY DEF Typed
  <2>2. CASE op[r].at = "drop" /\ op[r].id = c
    <3>a. PICK late \in SUBSET Nat : late = op[r].late \cup {i}
      BY <2>1 DEF Op
    <3>1. op'[r] = [op[r] EXCEPT !.late = late]
      BY <2>2, <3>a DEF SetNoting
    <3>2. op'[r] \in Op
      BY <2>1, <3>1 DEF Op
    <3>3. Follows(op'[r], op[r]) /\ i \in op'[r].late
      BY <2>1, <3>a, <3>1 DEF Op, Follows
    <3> QED
      BY <3>2, <3>3
  <2>3. CASE ~(op[r].at = "drop" /\ op[r].id = c)
    <3>1. op'[r] = op[r]
      BY <2>3 DEF SetNoting
    <3> QED
      BY <2>1, <2>3, <3>1 DEF Follows
  <2> QED
    BY <2>2, <2>3
<1>3. op' \in [Ops -> Op]
  BY <1>1, <1>2 DEF SetNoting
<1> QED
  BY <1>1, <1>2, <1>3 DEF Moves

\* The same but for the kind.
Prepared(q, p) ==
  /\ q.at = p.at /\ q.id = p.id /\ q.items = p.items /\ q.n = p.n
  /\ q.category = p.category /\ q.lounge = p.lounge /\ q.status = p.status /\ q.value = p.value
  /\ q.cost = p.cost /\ q.made = p.made /\ q.late = p.late /\ q.blind = p.blind

\* A request that begins is the one prepared, with its kind.
LEMMA Starts ==
  ASSUME Typed, NEW o \in Ops, NEW kind \in Kinds, NEW p \in Op, Begin(o, kind, p)
  PROVE  \E q \in Op : Moves(o, q) /\ q.kind = kind /\ Prepared(q, p)
<1>1. PICK q : q = [p EXCEPT !.kind = kind]
  OBVIOUS
<1>2. q \in Op /\ q.kind = kind /\ Prepared(q, p)
  BY <1>1 DEF Op, Prepared
<1>3. Set(o, q)
  BY <1>1 DEF Begin
<1>4. Moves(o, q)
  BY <1>2, <1>3, Sets
<1> QED
  BY <1>2, <1>4

-----------------------------------------------------------------------------
\* What a step of one request leaves of each invariant.

LEMMA IdsStay == \A n, m \in Nat : n <= m => \A i \in 1..n : i \in 1..m
OBVIOUS

LEMMA ServiceFollows ==
  ASSUME NEW p \in Op, NEW q \in Op, Follows(q, p), ServiceFit(p),
         NEW n \in Nat, NEW m \in Nat, n <= m, NEW done, NEW more, done \subseteq more, NEW rows, NEW now,
         ServiceGood(p, n, done, rows),
         p.at = "drop" => \A s \in now : s.category = p.id => s \in rows \/ s.id \in q.late
  PROVE  ServiceFit(q) /\ ServiceGood(q, m, more, now)
<1>1. ServiceFit(q)
  BY DEF Follows, ServiceFit, Named, Titled, Listed
<1>2. ServiceGood(q, m, more, now)
  <2>0. \A i \in 1..n : i \in 1..m
    BY IdsStay
  <2>1. q.kind \in {"edit", "moderate"} => q.id \in 1..m
    BY <2>0 DEF Follows, ServiceGood
  <2>2. q.kind = "uncategory" =>
          q.at = "drop" /\ (q.blind \/ \A s \in now : s.category = q.id => s.id \in q.late)
    BY DEF Follows, ServiceGood
  <2> QED
    BY <2>1, <2>2 DEF Follows, ServiceGood
<1> QED
  BY <1>1, <1>2

LEMMA ServiceMoves ==
  ASSUME Typed, ServicesInv, NEW o \in Ops, NEW q \in Op, Moves(o, q),
         ServiceRows', ids' \in Nat, ids <= ids', served \subseteq served',
         ServiceFit(q), ServiceGood(q, ids', served', services'),
         \A r \in Ops \ {o} : op[r].at = "drop" =>
           \A s \in services' : s.category = op[r].id => s \in services \/ s.id \in op'[r].late
  PROVE  ServicesInv'
<1>1. ASSUME NEW r \in Ops PROVE ServiceFit(op'[r]) /\ ServiceGood(op'[r], ids', served', services')
  <2>1. CASE r = o
    BY <2>1 DEF Moves
  <2>2. CASE r # o
    <3>1. /\ op[r] \in Op /\ op'[r] \in Op /\ Follows(op'[r], op[r]) /\ ids \in Nat
          /\ ServiceFit(op[r]) /\ ServiceGood(op[r], ids, served, services)
      BY <2>2 DEF Typed, Moves, ServicesInv
    <3> QED
      BY <2>2, <3>1, ServiceFollows
  <2> QED
    BY <2>1, <2>2
<1>2. (\A r \in Ops : ServiceFit(op[r]) /\ ServiceGood(op[r], ids, served, services))'
  BY <1>1
<1> QED
  BY <1>2 DEF ServicesInv

LEMMA ServicesAside ==
  ASSUME Typed, ServicesInv, NEW o \in Ops, NEW q \in Op, Moves(o, q), q.kind \notin ServiceRequests,
         UNCHANGED servicesVars, ids' \in Nat, ids <= ids'
  PROVE  ServicesInv'
<1>1. /\ categories' = categories /\ services' = services /\ offers' = offers
      /\ suggestions' = suggestions /\ lounges' = lounges /\ served' = served /\ claimed' = claimed
      /\ told' = told
  BY DEF servicesVars
<1>2. \A i \in 1..ids : i \in 1..ids'
  BY DEF Typed
<1>3. ServicesTypeOK'
  BY <1>1, <1>2 DEF ServicesInv, ServiceRows, ServicesTypeOK
<1>4. ServiceRows'
  BY <1>1, <1>2, <1>3 DEF ServicesInv, ServiceRows, SuggestionIsOffered
<1>5. ServiceFit(q) /\ ServiceGood(q, ids', served', services')
  BY DEF ServiceFit, ServiceGood, ServiceRequests
<1>6. served \subseteq served' /\ \A s \in services' : s \in services
  BY <1>1
<1> QED
  BY <1>4, <1>5, <1>6, ServiceMoves

LEMMA ProductFollows ==
  ASSUME NEW p \in Op, NEW q \in Op, Follows(q, p), ProductFit(p),
         NEW made, NEW more, made \subseteq more, NEW rows, NEW now,
         ProductGood(p, made, rows),
         p.at = "drop" => \A x \in now : x.category = p.id => x \in rows \/ x.id \in q.late
  PROVE  ProductFit(q) /\ ProductGood(q, more, now)
<1>1. ProductFit(q)
  BY DEF Follows, ProductFit, Titled
<1>2. ProductGood(q, more, now)
  <2>1. q.kind = "drop product category" =>
          q.at = "drop" /\ \A x \in now : x.category = q.id => x.id \in q.late
    BY DEF Follows, ProductGood
  <2> QED
    BY <2>1 DEF Follows, ProductGood
<1> QED
  BY <1>1, <1>2

LEMMA ProductMoves ==
  ASSUME Typed, ProductInv, NEW o \in Ops, NEW q \in Op, Moves(o, q),
         ProductRows', built \subseteq built', ProductFit(q), ProductGood(q, built', products'),
         \A r \in Ops \ {o} : op[r].at = "drop" =>
           \A x \in products' : x.category = op[r].id => x \in products \/ x.id \in op'[r].late
  PROVE  ProductInv'
<1>1. ASSUME NEW r \in Ops PROVE ProductFit(op'[r]) /\ ProductGood(op'[r], built', products')
  <2>1. CASE r = o
    BY <2>1 DEF Moves
  <2>2. CASE r # o
    <3>1. /\ op[r] \in Op /\ op'[r] \in Op /\ Follows(op'[r], op[r])
          /\ ProductFit(op[r]) /\ ProductGood(op[r], built, products)
      BY <2>2 DEF Typed, Moves, ProductInv
    <3> QED
      BY <2>2, <3>1, ProductFollows
  <2> QED
    BY <2>1, <2>2
<1>2. (\A r \in Ops : ProductFit(op[r]) /\ ProductGood(op[r], built, products))'
  BY <1>1
<1> QED
  BY <1>2 DEF ProductInv

LEMMA ProductAside ==
  ASSUME Typed, ProductInv, NEW o \in Ops, NEW q \in Op, Moves(o, q), q.kind \notin ProductRequests,
         UNCHANGED productVars
  PROVE  ProductInv'
<1>1. /\ productCategories' = productCategories /\ products' = products
      /\ categorySuggestions' = categorySuggestions /\ built' = built /\ answered' = answered
  BY DEF productVars
<1>2. ProductRows'
  BY <1>1 DEF ProductInv, ProductRows, ProductTypeOK, SuggestionBecameCategory
<1>3. ProductFit(q) /\ ProductGood(q, built', products')
  BY DEF ProductFit, ProductGood, ProductRequests
<1>4. built \subseteq built' /\ \A x \in products' : x \in products
  BY <1>1
<1> QED
  BY <1>2, <1>3, <1>4, ProductMoves

LEMMA ExtraFollows ==
  ASSUME NEW p \in Op, NEW q \in Op, Follows(q, p), ExtraFit(p),
         NEW n \in Nat, NEW m \in Nat, n <= m, NEW both, NEW more, both \subseteq more, NEW rows, NEW now,
         ExtraGood(p, n, both, rows),
         p.kind = "update extra" /\ p.id \notin more => \A x \in now : x.id = p.id => x \in rows
  PROVE  ExtraFit(q) /\ ExtraGood(q, m, more, now)
<1>1. ExtraFit(q)
  BY DEF Follows, ExtraFit, Named
<1>2. ASSUME q.kind = "update extra"
      PROVE  /\ q.id \in 1..m
             /\ q.id \notin more => \A x \in now : x.id = q.id =>
                  Fair(Merged(q.value, x.free), Merged(q.cost, x.cost))
  <2>1. /\ p.kind = "update extra" /\ q.id = p.id /\ q.value = p.value /\ q.cost = p.cost
    BY <1>2 DEF Follows
  <2>2. /\ p.id \in 1..n
        /\ p.id \notin both => \A x \in rows : x.id = p.id =>
             Fair(Merged(p.value, x.free), Merged(p.cost, x.cost))
    BY <2>1 DEF ExtraGood
  <2>3. \A i \in 1..n : i \in 1..m
    BY IdsStay
  <2> QED
    BY <2>1, <2>2, <2>3
<1>3. ExtraGood(q, m, more, now)
  BY <1>2 DEF ExtraGood
<1> QED
  BY <1>1, <1>3

LEMMA ExtraMoves ==
  ASSUME Typed, ExtrasInv, NEW o \in Ops, NEW q \in Op, Moves(o, q),
         ExtraRows', ids' \in Nat, ids <= ids', raced \subseteq raced',
         ExtraFit(q), ExtraGood(q, ids', raced', extras'),
         \A r \in Ops \ {o} : op[r].kind = "update extra" /\ op[r].id \notin raced' =>
           \A x \in extras' : x.id = op[r].id => x \in extras,
         \A r \in Ops \ {o} : op[r].kind = "update extra" /\ q.kind = "update extra" /\ op[r].id = q.id
           => q.id \in raced'
  PROVE  ExtrasInv'
<1>1. ASSUME NEW r \in Ops PROVE ExtraFit(op'[r]) /\ ExtraGood(op'[r], ids', raced', extras')
  <2>1. CASE r = o
    BY <2>1 DEF Moves
  <2>2. CASE r # o
    <3>1. /\ op[r] \in Op /\ op'[r] \in Op /\ Follows(op'[r], op[r]) /\ ids \in Nat
          /\ ExtraFit(op[r]) /\ ExtraGood(op[r], ids, raced, extras)
      BY <2>2 DEF Typed, Moves, ExtrasInv
    <3> QED
      BY <2>2, <3>1, ExtraFollows
  <2> QED
    BY <2>1, <2>2
<1>2. ASSUME NEW r \in Ops, NEW s \in Ops, r # s, op'[r].kind = "update extra",
             op'[s].kind = "update extra", op'[r].id = op'[s].id
      PROVE  op'[r].id \in raced'
  <2>1. \A t \in Ops \ {o} : op'[t].kind = op[t].kind /\ op'[t].id = op[t].id
    BY DEF Moves, Follows
  <2>2. CASE r = o \/ s = o
    BY <1>2, <2>1, <2>2 DEF Moves
  <2>3. CASE r # o /\ s # o
    BY <1>2, <2>1, <2>3 DEF ExtrasInv
  <2> QED
    BY <2>2, <2>3
<1>3. (\A r \in Ops : ExtraFit(op[r]) /\ ExtraGood(op[r], ids, raced, extras))'
  BY <1>1
<1>4. (\A r, s \in Ops : r # s /\ op[r].kind = "update extra" /\ op[s].kind = "update extra"
                           /\ op[r].id = op[s].id => op[r].id \in raced)'
  BY <1>2
<1> QED
  BY <1>3, <1>4 DEF ExtrasInv

LEMMA ExtrasAside ==
  ASSUME Typed, ExtrasInv, NEW o \in Ops, NEW q \in Op, Moves(o, q), q.kind \notin ExtraRequests,
         UNCHANGED extraVars, ids' \in Nat, ids <= ids'
  PROVE  ExtrasInv'
<1>1. extras' = extras /\ adopted' = adopted /\ raced' = raced
  BY DEF extraVars
<1>2. \A i \in 1..ids : i \in 1..ids'
  BY DEF Typed
<1>3. ExtraRows'
  BY <1>1, <1>2 DEF ExtrasInv, ExtraRows, ExtrasTypeOK, FreeCostsNothing
<1>4. ExtraFit(q) /\ ExtraGood(q, ids', raced', extras')
  BY DEF ExtraFit, ExtraGood, ExtraRequests
<1>5. q.kind # "update extra" /\ raced \subseteq raced' /\ \A x \in extras' : x \in extras
  BY <1>1 DEF ExtraRequests
<1> QED
  BY <1>3, <1>4, <1>5, ExtraMoves

\* The same for the whole, by whose request moves.
LEMMA ServiceStepKeeps ==
  ASSUME Inv, NEW o \in Ops, NEW q \in Op, Moves(o, q), q.kind \in ServiceRequests \cup {"none"},
         scene' = scene, ids' \in Nat, ids <= ids', UNCHANGED <<productVars, extraVars>>,
         ServiceRows', served \subseteq served',
         ServiceFit(q), ServiceGood(q, ids', served', services'),
         \A r \in Ops \ {o} : op[r].at = "drop" =>
           \A s \in services' : s.category = op[r].id => s \in services \/ s.id \in op'[r].late
  PROVE  Inv'
<1>1. Typed'
  BY DEF Inv, Typed, Moves
<1>2. ServicesInv'
  BY ServiceMoves DEF Inv
<1>3. q.kind \notin ProductRequests /\ q.kind \notin ExtraRequests
  BY DEF ServiceRequests, ProductRequests, ExtraRequests
<1>4. ProductInv'
  BY <1>3, ProductAside DEF Inv
<1>5. ExtrasInv'
  BY <1>3, ExtrasAside DEF Inv
<1> QED
  BY <1>1, <1>2, <1>4, <1>5 DEF Inv

LEMMA ProductStepKeeps ==
  ASSUME Inv, NEW o \in Ops, NEW q \in Op, Moves(o, q), q.kind \in ProductRequests \cup {"none"},
         scene' = scene, ids' \in Nat, ids <= ids', UNCHANGED <<servicesVars, extraVars>>,
         ProductRows', built \subseteq built', ProductFit(q), ProductGood(q, built', products'),
         \A r \in Ops \ {o} : op[r].at = "drop" =>
           \A x \in products' : x.category = op[r].id => x \in products \/ x.id \in op'[r].late
  PROVE  Inv'
<1>1. Typed'
  BY DEF Inv, Typed, Moves
<1>2. ProductInv'
  BY ProductMoves DEF Inv
<1>3. q.kind \notin ServiceRequests /\ q.kind \notin ExtraRequests
  BY DEF ServiceRequests, ProductRequests, ExtraRequests
<1>4. ServicesInv'
  BY <1>3, ServicesAside DEF Inv
<1>5. ExtrasInv'
  BY <1>3, ExtrasAside DEF Inv
<1> QED
  BY <1>1, <1>2, <1>4, <1>5 DEF Inv

LEMMA ExtraStepKeeps ==
  ASSUME Inv, NEW o \in Ops, NEW q \in Op, Moves(o, q), q.kind \in ExtraRequests \cup {"none"},
         scene' = scene, ids' \in Nat, ids <= ids', UNCHANGED <<servicesVars, productVars>>,
         ExtraRows', raced \subseteq raced', ExtraFit(q), ExtraGood(q, ids', raced', extras'),
         \A r \in Ops \ {o} : op[r].kind = "update extra" /\ op[r].id \notin raced' =>
           \A x \in extras' : x.id = op[r].id => x \in extras,
         \A r \in Ops \ {o} : op[r].kind = "update extra" /\ q.kind = "update extra" /\ op[r].id = q.id
           => q.id \in raced'
  PROVE  Inv'
<1>1. Typed'
  BY DEF Inv, Typed, Moves
<1>2. ExtrasInv'
  BY ExtraMoves DEF Inv
<1>3. q.kind \notin ServiceRequests /\ q.kind \notin ProductRequests
  BY DEF ServiceRequests, ProductRequests, ExtraRequests
<1>4. ServicesInv'
  BY <1>3, ServicesAside DEF Inv
<1>5. ProductInv'
  BY <1>3, ProductAside DEF Inv
<1> QED
  BY <1>1, <1>2, <1>4, <1>5 DEF Inv

-----------------------------------------------------------------------------
\* Requests that go on without writing a row.

Rest == <<scene, ids, servicesVars, productVars, extraVars>>

LEMMA ServiceOnward ==
  ASSUME Inv, NEW o \in Ops, NEW q \in Op, Moves(o, q), q.kind \in ServiceRequests \cup {"none"},
         UNCHANGED Rest, ServiceFit(q), ServiceGood(q, ids, served, services)
  PROVE  Inv'
<1>1. /\ scene' = scene /\ ids' = ids /\ ids \in Nat /\ UNCHANGED <<servicesVars, productVars, extraVars>>
  BY DEF Rest, Inv, Typed
<1>2. /\ categories' = categories /\ services' = services /\ offers' = offers
      /\ suggestions' = suggestions /\ lounges' = lounges /\ served' = served /\ claimed' = claimed
      /\ told' = told
  BY <1>1 DEF servicesVars
<1>3. ServiceRows'
  BY <1>1, <1>2 DEF Inv, ServicesInv, ServiceRows, ServicesTypeOK, SuggestionIsOffered
<1>4. /\ ids <= ids' /\ served \subseteq served' /\ ServiceGood(q, ids', served', services')
      /\ \A s \in services' : s \in services
  BY <1>1, <1>2
<1> QED
  BY <1>1, <1>3, <1>4, ServiceStepKeeps

LEMMA ProductOnward ==
  ASSUME Inv, NEW o \in Ops, NEW q \in Op, Moves(o, q), q.kind \in ProductRequests \cup {"none"},
         UNCHANGED Rest, ProductFit(q), ProductGood(q, built, products)
  PROVE  Inv'
<1>1. /\ scene' = scene /\ ids' = ids /\ ids \in Nat /\ UNCHANGED <<servicesVars, productVars, extraVars>>
  BY DEF Rest, Inv, Typed
<1>2. /\ productCategories' = productCategories /\ products' = products
      /\ categorySuggestions' = categorySuggestions /\ built' = built /\ answered' = answered
  BY <1>1 DEF productVars
<1>3. ProductRows'
  BY <1>2 DEF Inv, ProductInv, ProductRows, ProductTypeOK, SuggestionBecameCategory
<1>4. /\ ids <= ids' /\ built \subseteq built' /\ ProductGood(q, built', products')
      /\ \A x \in products' : x \in products
  BY <1>1, <1>2
<1> QED
  BY <1>1, <1>3, <1>4, ProductStepKeeps

LEMMA SameIsNoLess == \A n, m \in Nat : m = n => n <= m
OBVIOUS

LEMMA ExtraOnward ==
  ASSUME Inv, NEW o \in Ops, NEW q \in Op, Moves(o, q), q.kind \in ExtraRequests \cup {"none"},
         UNCHANGED Rest, ExtraFit(q), ExtraGood(q, ids, raced, extras),
         \A r \in Ops \ {o} : op[r].kind = "update extra" /\ q.kind = "update extra" /\ op[r].id = q.id
           => q.id \in raced
  PROVE  Inv'
<1>1. /\ scene' = scene /\ ids' = ids /\ ids \in Nat /\ UNCHANGED <<servicesVars, productVars, extraVars>>
  BY DEF Rest, Inv, Typed
<1>2. extras' = extras /\ adopted' = adopted /\ raced' = raced
  BY <1>1 DEF extraVars
<1>3. ExtraRows'
  BY <1>1, <1>2 DEF Inv, ExtrasInv, ExtraRows, ExtrasTypeOK, FreeCostsNothing
<1>4. ids <= ids'
  BY <1>1, SameIsNoLess
<1>7. raced \subseteq raced' /\ \A x \in extras' : x \in extras
  BY <1>2
<1>6. ExtraGood(q, ids', raced', extras')
  BY <1>1, <1>2
<1>5. \A r \in Ops \ {o} : op[r].kind = "update extra" /\ q.kind = "update extra" /\ op[r].id = q.id
        => q.id \in raced'
  BY <1>2
<1> QED
  BY <1>1, <1>3, <1>4, <1>5, <1>6, <1>7, ExtraStepKeeps

\* An empty slot carries nothing.
LEMMA NothingCarried ==
  /\ NoOp \in Op /\ NoOp.kind = "none" /\ ServiceFit(NoOp) /\ ProductFit(NoOp) /\ ExtraFit(NoOp)
  /\ \A n, done, rows : ServiceGood(NoOp, n, done, rows)
  /\ \A made, rows : ProductGood(NoOp, made, rows)
  /\ \A n, both, rows : ExtraGood(NoOp, n, both, rows)
BY NoOpFields DEF ServiceFit, ProductFit, ExtraFit, ServiceGood, ProductGood, ExtraGood

LEMMA Ends == ASSUME Inv, NEW o \in Ops, Finish(o), UNCHANGED Rest  PROVE Inv'
<1>1. PICK q \in Op : q = NoOp
  BY NothingCarried
<1>2. Moves(o, q)
  BY <1>1, Sets DEF Finish, Inv
<1>3. q.kind \in ServiceRequests \cup {"none"} /\ ServiceFit(q) /\ ServiceGood(q, ids, served, services)
  BY <1>1, NothingCarried
<1> QED
  BY <1>2, <1>3, ServiceOnward

\* What is known of a request in its slot.
LEMMA InSlot ==
  ASSUME Inv, NEW o \in Ops
  PROVE  /\ op[o] \in Op /\ ServiceFit(op[o]) /\ ServiceGood(op[o], ids, served, services)
         /\ ProductFit(op[o]) /\ ProductGood(op[o], built, products)
         /\ ExtraFit(op[o]) /\ ExtraGood(op[o], ids, raced, extras)
BY DEF Inv, Typed, ServicesInv, ProductInv, ExtrasInv

\* The tuples that Set makes a list of.
LEMMA OneItem ==
  ASSUME NEW S, NEW x \in S
  PROVE  <<x>> \in Seq(S) /\ Len(<<x>>) = 1 /\ 1 \in 1..Len(<<x>>)
OBVIOUS

LEMMA TwoItems ==
  ASSUME NEW S, NEW q \in Pairs(S)
  PROVE  q \in Seq(S) /\ Len(q) = 2 /\ 1 \in 1..Len(q)
<1>1. PICK x \in S, y \in S : q = <<x, y>>
  BY DEF Pairs
<1> QED
  BY <1>1

-----------------------------------------------------------------------------
\* The services: requests that begin.

LEMMA Given ==
  ASSUME Inv
  PROVE  /\ scene.names \subseteq Names /\ scene.titles \subseteq Titles
         /\ categories \subseteq Category /\ services \subseteq Service
         /\ offers \subseteq Offer /\ suggestions \subseteq Suggestion
         /\ lounges \subseteq Lounges /\ ids \in Nat
         /\ \A s \in services \cup offers \cup suggestions : s.id \in 1..ids
         /\ \A c \in CategoryIds : c \in Nat
         /\ \A i \in ServiceIds : i \in Nat
<1>1. scene.categories \subseteq Category /\ scene.services \subseteq Service
  BY ServicesAssumption DEF Inv, Typed
<1>2. categories \subseteq Category /\ services \subseteq Service
  BY DEF Inv, ServicesInv, ServiceRows, ServicesTypeOK
<1>3. (\A c \in CategoryIds : c \in Nat) /\ \A i \in ServiceIds : i \in Nat
  BY <1>1, <1>2 DEF CategoryIds, ServiceIds, Category, Service
<1> QED
  BY <1>3, CatalogAssumption DEF Inv, Typed, ServicesInv, ServiceRows, ServicesTypeOK

LEMMA ServiceBegins ==
  ASSUME Inv, NEW o \in Ops, NEW kind \in Kinds \cap ServiceRequests, NEW p \in Op, Begin(o, kind, p),
         UNCHANGED <<scene, ids, servicesVars>>, UNCHANGED <<productVars, extraVars>>,
         \A q \in Op : q.kind = kind /\ Prepared(q, p) => ServiceFit(q) /\ ServiceGood(q, ids, served, services)
  PROVE  Inv'
<1>1. PICK q \in Op : Moves(o, q) /\ q.kind = kind /\ Prepared(q, p)
  BY Starts DEF Inv
<1>2. UNCHANGED Rest
  BY DEF Rest
<1> QED
  BY <1>1, <1>2, ServiceOnward

LEMMA CategoryCreation ==
  ASSUME Inv, NEW o \in Ops, NEW t \in scene.titles, CreateServiceCategory(o, t),
         UNCHANGED <<productVars, extraVars>>
  PROVE  Inv'
<1>1. PICK p : p = [NoOp EXCEPT !.at = "title", !.items = <<t>>]
  OBVIOUS
<1>2. t \in Titles /\ <<t>> \in Seq(Titles) /\ Len(<<t>>) = 1
  BY Given
<1>3. p \in Op /\ p.items = <<t>> /\ p.n = 1
  BY <1>1, <1>2, NoOpFields DEF Op, Steps
<1>4. "category" \in Kinds \cap ServiceRequests
  BY DEF Kinds, ServiceRequests
<1>5. ASSUME NEW q \in Op, q.kind = "category", Prepared(q, p)
      PROVE  ServiceFit(q) /\ ServiceGood(q, ids, served, services)
  BY <1>2, <1>3, <1>5 DEF Prepared, ServiceFit, ServiceGood, Titled
<1> QED
  BY <1>1, <1>3, <1>4, <1>5, ServiceBegins DEF CreateServiceCategory

LEMMA CategoryUpdate ==
  ASSUME Inv, NEW o \in Ops, NEW c \in categories, NEW t \in scene.titles, UpdateServiceCategory(o, c, t),
         UNCHANGED <<productVars, extraVars>>
  PROVE  Inv'
<1>1. PICK p : p = [NoOp EXCEPT !.at = "title", !.id = c.id, !.items = <<t>>]
  OBVIOUS
<1>2. t \in Titles /\ <<t>> \in Seq(Titles) /\ Len(<<t>>) = 1 /\ c.id \in Nat
  BY Given DEF Category
<1>3. p \in Op /\ p.items = <<t>> /\ p.n = 1
  BY <1>1, <1>2, NoOpFields DEF Op, Steps
<1>4. "retitle" \in Kinds \cap ServiceRequests
  BY DEF Kinds, ServiceRequests
<1>5. ASSUME NEW q \in Op, q.kind = "retitle", Prepared(q, p)
      PROVE  ServiceFit(q) /\ ServiceGood(q, ids, served, services)
  BY <1>2, <1>3, <1>5 DEF Prepared, ServiceFit, ServiceGood, Titled
<1> QED
  BY <1>1, <1>3, <1>4, <1>5, ServiceBegins DEF UpdateServiceCategory

LEMMA CategoryDeletion ==
  ASSUME Inv, NEW o \in Ops, NEW c \in categories, NEW fails \in BOOLEAN,
         DeleteServiceCategory(o, c, fails), UNCHANGED <<productVars, extraVars>>
  PROVE  Inv'
<1>1. PICK p : p = [NoOp EXCEPT !.at = "drop", !.id = c.id, !.blind = fails]
  OBVIOUS
<1>2. c.id \in Nat
  BY Given DEF Category
<1>3. p \in Op /\ p.at = "drop" /\ p.id = c.id /\ p.blind = fails
  BY <1>1, <1>2, NoOpFields DEF Op, Steps
<1>4. "uncategory" \in Kinds \cap ServiceRequests
  BY DEF Kinds, ServiceRequests
<1>5. ASSUME NEW q \in Op, q.kind = "uncategory", Prepared(q, p)
      PROVE  ServiceFit(q) /\ ServiceGood(q, ids, served, services)
  <2>1. q.at = "drop" /\ q.id = c.id /\ q.blind = fails
    BY <1>3, <1>5 DEF Prepared
  <2>2. fails \/ \A s \in services : s.category # c.id
    BY DEF DeleteServiceCategory, CategoryUsers
  <2> QED
    BY <1>5, <2>1, <2>2 DEF ServiceFit, ServiceGood
<1> QED
  BY <1>1, <1>3, <1>4, <1>5, ServiceBegins DEF DeleteServiceCategory

LEMMA ServiceCreation ==
  ASSUME Inv, NEW o \in Ops, NEW n \in scene.names, NEW c \in CategoryIds, CreateService(o, n, c),
         UNCHANGED <<productVars, extraVars>>
  PROVE  Inv'
<1>1. PICK p : p = [NoOp EXCEPT !.at = "exact", !.items = <<n>>, !.category = c]
  OBVIOUS
<1>2. n \in Names /\ <<n>> \in Seq(Names) /\ Len(<<n>>) = 1 /\ 1 \in 1..Len(<<n>>) /\ c \in Nat
  BY Given DEF CategoryIds, Category
<1>3. p \in Op /\ p.items = <<n>> /\ p.n = 1
  BY <1>1, <1>2, NoOpFields DEF Op, Steps
<1>4. "service" \in Kinds \cap ServiceRequests
  BY DEF Kinds, ServiceRequests
<1>5. ASSUME NEW q \in Op, q.kind = "service", Prepared(q, p)
      PROVE  ServiceFit(q) /\ ServiceGood(q, ids, served, services)
  BY <1>2, <1>3, <1>5 DEF Prepared, ServiceFit, ServiceGood, Named
<1> QED
  BY <1>1, <1>3, <1>4, <1>5, ServiceBegins DEF CreateService

LEMMA BulkCreation ==
  ASSUME Inv, NEW o \in Ops, NEW names \in Pairs(scene.names), NEW c \in CategoryIds,
         BulkCreateServices(o, names, c), UNCHANGED <<productVars, extraVars>>
  PROVE  Inv'
<1>1. PICK p : p = [NoOp EXCEPT !.at = "exact", !.items = names, !.category = c]
  OBVIOUS
<1>2. c \in Nat
  BY Given DEF CategoryIds, Category
<1>a. names \in Pairs(Names)
  BY Given DEF Pairs
<1>b. names \in Seq(Names) /\ 1 \in 1..Len(names)
  BY <1>a, TwoItems
<1>3. p \in Op /\ p.items = names /\ p.n = 1
  BY <1>1, <1>2, <1>b, NoOpFields DEF Op, Steps
<1>4. "services" \in Kinds \cap ServiceRequests
  BY DEF Kinds, ServiceRequests
<1>5. ASSUME NEW q \in Op, q.kind = "services", Prepared(q, p)
      PROVE  ServiceFit(q) /\ ServiceGood(q, ids, served, services)
  BY <1>b, <1>3, <1>5 DEF Prepared, ServiceFit, ServiceGood, Named
<1> QED
  BY <1>1, <1>3, <1>4, <1>5, ServiceBegins DEF BulkCreateServices

\* A name to write, or none.
LEMMA NameOrNone ==
  ASSUME Inv, NEW name \in scene.names \cup {None}, NEW items, items = IF name = None THEN <<>> ELSE <<name>>
  PROVE  /\ items \in Seq(Names) /\ (items = <<>> \/ 1 \in 1..Len(items))
         /\ name # None => 1 \in 1..Len(items)
<1>1. CASE name = None
  BY <1>1
<1>2. CASE name # None
  <2>1. name \in Names /\ items = <<name>>
    BY <1>2, Given
  <2> QED
    BY <2>1, OneItem
<1> QED
  BY <1>1, <1>2

LEMMA ServiceUpdate ==
  ASSUME Inv, NEW o \in Ops, NEW s \in services, NEW n \in scene.names \cup {None},
         NEW c \in CategoryIds \cup {0}, UpdateService(o, s, n, c), UNCHANGED <<productVars, extraVars>>
  PROVE  Inv'
<1>0. PICK items, at : items = (IF n = None THEN <<>> ELSE <<n>>) /\ at = IF n = None THEN "write" ELSE "exact"
  OBVIOUS
<1>1. PICK p : p = [NoOp EXCEPT !.at = at, !.id = s.id, !.category = c, !.items = items]
  OBVIOUS
<1>2. s.id \in Nat /\ c \in Nat /\ at \in Steps
  BY <1>0, Given DEF Service, CategoryIds, Category, Steps
<1>a. items \in Seq(Names) /\ (items = <<>> \/ 1 \in 1..Len(items)) /\ (at = "exact" => 1 \in 1..Len(items))
  BY <1>0, NameOrNone
<1>b. at \in {"write", "exact"}
  BY <1>0
<1>3. p \in Op /\ p.items = items /\ p.n = 1 /\ p.at = at
  BY <1>1, <1>2, <1>a, NoOpFields DEF Op
<1>4. "rename" \in Kinds \cap ServiceRequests
  BY DEF Kinds, ServiceRequests
<1>5. ASSUME NEW q \in Op, q.kind = "rename", Prepared(q, p)
      PROVE  ServiceFit(q) /\ ServiceGood(q, ids, served, services)
  BY <1>a, <1>b, <1>3, <1>5 DEF Prepared, ServiceFit, ServiceGood, Named
<1>6. Begin(o, "rename", p) /\ UNCHANGED <<scene, ids, servicesVars>>
  BY <1>0, <1>1 DEF UpdateService
<1> QED
  BY <1>3, <1>4, <1>5, <1>6, ServiceBegins

LEMMA Offering ==
  ASSUME Inv, NEW o \in Ops, NEW kind \in {"offer", "offers"}, NEW l \in Lounges,
         NEW list \in Seq(Nat), 1 \in 1..Len(list), CreateLoungeServices(o, kind, l, list),
         UNCHANGED <<productVars, extraVars>>
  PROVE  Inv'
<1>1. PICK p : p = [NoOp EXCEPT !.at = "offered", !.lounge = l, !.items = list]
  OBVIOUS
<1>3. p \in Op /\ p.items = list /\ p.n = 1 /\ p.lounge = l
  BY <1>1, NoOpFields DEF Op, Steps
<1>4. kind \in Kinds \cap ServiceRequests
  BY DEF Kinds, ServiceRequests
<1>5. ASSUME NEW q \in Op, q.kind = kind, Prepared(q, p)
      PROVE  ServiceFit(q) /\ ServiceGood(q, ids, served, services)
  BY <1>3, <1>5 DEF Prepared, ServiceFit, ServiceGood, Listed
<1> QED
  BY <1>1, <1>3, <1>4, <1>5, ServiceBegins DEF CreateLoungeServices

LEMMA Toggling ==
  ASSUME Inv, NEW o \in Ops, NEW f \in offers, ToggleLoungeServiceStatus(o, f),
         UNCHANGED <<productVars, extraVars>>
  PROVE  Inv'
<1>0. PICK value \in BOOLEAN : value = ~f.active
  OBVIOUS
<1>1. PICK p : p = [NoOp EXCEPT !.at = "write", !.id = f.id, !.value = value]
  OBVIOUS
<1>2. f.id \in Nat
  BY Given DEF Offer
<1>3. p \in Op /\ p.value = value
  BY <1>1, <1>2, NoOpFields DEF Op, Steps
<1>4. "toggle" \in Kinds \cap ServiceRequests
  BY DEF Kinds, ServiceRequests
<1>5. ASSUME NEW q \in Op, q.kind = "toggle", Prepared(q, p)
      PROVE  ServiceFit(q) /\ ServiceGood(q, ids, served, services)
  BY <1>3, <1>5 DEF Prepared, ServiceFit, ServiceGood
<1>6. Begin(o, "toggle", p) /\ UNCHANGED <<scene, ids, servicesVars>>
  BY <1>0, <1>1 DEF ToggleLoungeServiceStatus
<1> QED
  BY <1>3, <1>4, <1>5, <1>6, ServiceBegins

LEMMA Suggesting ==
  ASSUME Inv, NEW o \in Ops, NEW l \in lounges, NEW n \in scene.names, CreateServiceSuggestion(o, l, n),
         UNCHANGED <<productVars, extraVars>>
  PROVE  Inv'
<1>1. PICK p : p = [NoOp EXCEPT !.at = "pending", !.lounge = l, !.items = <<n>>]
  OBVIOUS
<1>2. n \in Names /\ <<n>> \in Seq(Names) /\ Len(<<n>>) = 1 /\ 1 \in 1..Len(<<n>>) /\ l \in Lounges
  BY Given
<1>3. p \in Op /\ p.items = <<n>> /\ p.n = 1 /\ p.lounge = l /\ p.at = "pending"
  BY <1>1, <1>2, NoOpFields DEF Op, Steps
<1>4. "suggest" \in Kinds \cap ServiceRequests
  BY DEF Kinds, ServiceRequests
<1>5. ASSUME NEW q \in Op, q.kind = "suggest", Prepared(q, p)
      PROVE  ServiceFit(q) /\ ServiceGood(q, ids, served, services)
  BY <1>2, <1>3, <1>5 DEF Prepared, ServiceFit, ServiceGood, Named
<1> QED
  BY <1>1, <1>3, <1>4, <1>5, ServiceBegins DEF CreateServiceSuggestion

LEMMA SuggestionUpdate ==
  ASSUME Inv, NEW o \in Ops, NEW s \in suggestions, NEW n \in scene.names \cup {None},
         NEW st \in Statuses \cup {None}, UpdateServiceSuggestion(o, s, n, st),
         UNCHANGED <<productVars, extraVars>>
  PROVE  Inv'
<1>0. PICK items : items = IF n = None THEN <<>> ELSE <<n>>
  OBVIOUS
<1>1. PICK p : p = [NoOp EXCEPT !.at = "write", !.id = s.id, !.status = st, !.items = items]
  OBVIOUS
<1>2. s.id \in Nat /\ s.id \in 1..ids
  BY Given DEF Suggestion
<1>a. items \in Seq(Names) /\ (items = <<>> \/ 1 \in 1..Len(items))
  BY <1>0, NameOrNone
<1>3. p \in Op /\ p.items = items /\ p.n = 1 /\ p.id = s.id /\ p.status = st
  BY <1>1, <1>2, <1>a, NoOpFields DEF Op, Steps
<1>4. "edit" \in Kinds \cap ServiceRequests
  BY DEF Kinds, ServiceRequests
<1>5. ASSUME NEW q \in Op, q.kind = "edit", Prepared(q, p)
      PROVE  ServiceFit(q) /\ ServiceGood(q, ids, served, services)
  BY <1>2, <1>a, <1>3, <1>5 DEF Prepared, ServiceFit, ServiceGood, Named
<1>6. Begin(o, "edit", p) /\ UNCHANGED <<scene, ids, servicesVars>>
  BY <1>0, <1>1 DEF UpdateServiceSuggestion
<1> QED
  BY <1>3, <1>4, <1>5, <1>6, ServiceBegins

LEMMA Moderation ==
  ASSUME Inv, NEW o \in Ops, NEW s \in suggestions, NEW st \in Statuses \cup {None},
         NEW n \in scene.names \cup {None}, NEW c \in CategoryIds \cup {0}, NEW admin \in BOOLEAN,
         ModerateSuggestion(o, s, st, n, c, admin), UNCHANGED <<productVars, extraVars>>
  PROVE  Inv'
<1>0. PICK items, at, l : /\ items = IF n = None THEN <<>> ELSE <<n>>
                          /\ at = IF st = "implemented" THEN "category" ELSE "mark"
                          /\ l = IF s.lounge \in lounges THEN s.lounge ELSE None
  OBVIOUS
<1>1. PICK p : p = [NoOp EXCEPT !.id = s.id, !.status = st, !.category = c, !.lounge = l,
                                !.items = items, !.at = at]
  OBVIOUS
<1>2. s.id \in Nat /\ s.id \in 1..ids /\ c \in Nat /\ at \in Steps /\ l \in Lounges \cup {None}
  BY <1>0, Given DEF Suggestion, CategoryIds, Category, Steps
<1>a. items \in Seq(Names) /\ (n # None => 1 \in 1..Len(items))
  BY <1>0, NameOrNone
<1>b. st = "implemented" => n # None
  BY DEF ModerateSuggestion, Complete
<1>3. /\ p \in Op /\ p.items = items /\ p.n = 1 /\ p.id = s.id /\ p.status = st /\ p.at = at
      /\ p.lounge = l
  BY <1>1, <1>2, <1>a, NoOpFields DEF Op
<1>4. "moderate" \in Kinds \cap ServiceRequests
  BY DEF Kinds, ServiceRequests
<1>5. ASSUME NEW q \in Op, q.kind = "moderate", Prepared(q, p)
      PROVE  ServiceFit(q) /\ ServiceGood(q, ids, served, services)
  <2>1. /\ q.items = items /\ q.n = 1 /\ q.id = s.id /\ q.status = st /\ q.at = at /\ q.lounge = l
    BY <1>3, <1>5 DEF Prepared
  <2>2. ServiceFit(q)
    BY <1>0, <1>2, <1>a, <1>b, <1>5, <2>1 DEF ServiceFit, Named
  <2>3. ServiceGood(q, ids, served, services)
    BY <1>0, <1>2, <1>5, <2>1 DEF ServiceGood
  <2> QED
    BY <2>2, <2>3
<1>6. Begin(o, "moderate", p) /\ UNCHANGED <<scene, ids, servicesVars>>
  BY <1>0, <1>1 DEF ModerateSuggestion, ImplementSteps
<1> QED
  BY <1>3, <1>4, <1>5, <1>6, ServiceBegins

LEMMA ServicesBegin ==
  ASSUME Inv, NEW o \in Ops, NewServicesRequest(o), UNCHANGED <<productVars, extraVars>>
  PROVE  Inv'
<1>1. CASE CategoryRequest(o)
  BY <1>1, CategoryCreation, CategoryUpdate, CategoryDeletion DEF CategoryRequest
<1>2. CASE ServiceRequest(o)
  BY <1>2, ServiceCreation, BulkCreation, ServiceUpdate DEF ServiceRequest
<1>3. CASE OfferRequest(o)
  <2>0. \A i \in ServiceIds : i \in Nat
    BY Given DEF ServiceIds, Service
  <2>1. CASE \E l \in Lounges, i \in ServiceIds : CreateLoungeServices(o, "offer", l, <<i>>)
    <3>1. PICK l \in Lounges, i \in ServiceIds : CreateLoungeServices(o, "offer", l, <<i>>)
      BY <2>1
    <3>2. <<i>> \in Seq(Nat) /\ 1 \in 1..Len(<<i>>)
      BY <2>0, OneItem
    <3> QED
      BY <3>1, <3>2, Offering
  <2>2. CASE \E l \in Lounges, q \in Pairs(ServiceIds) : CreateLoungeServices(o, "offers", l, q)
    <3>1. PICK l \in Lounges, q \in Pairs(ServiceIds) : CreateLoungeServices(o, "offers", l, q)
      BY <2>2
    <3>2. q \in Pairs(Nat)
      BY <2>0 DEF Pairs
    <3>3. q \in Seq(Nat) /\ 1 \in 1..Len(q)
      BY <3>2, TwoItems
    <3> QED
      BY <3>1, <3>3, Offering
  <2> QED
    BY <1>3, <2>1, <2>2, Toggling DEF OfferRequest
<1>4. CASE SuggestionRequest(o)
  BY <1>4, Suggesting, SuggestionUpdate, Moderation DEF SuggestionRequest
<1> QED
  BY <1>1, <1>2, <1>3, <1>4 DEF NewServicesRequest

-----------------------------------------------------------------------------
\* The services: steps that only look.

\* The same but for where it stands.
Carries(q, p) ==
  /\ q.kind = p.kind /\ q.id = p.id /\ q.items = p.items /\ q.category = p.category
  /\ q.lounge = p.lounge /\ q.status = p.status /\ q.value = p.value /\ q.cost = p.cost
  /\ q.made = p.made /\ q.late = p.late /\ q.blind = p.blind

LEMMA Advanced ==
  ASSUME NEW p \in Op, NEW at \in Steps, NEW q, q = [p EXCEPT !.at = at]
  PROVE  q \in Op /\ q.at = at /\ q.n = p.n /\ Carries(q, p)
BY DEF Op, Carries

LEMMA Counted ==
  ASSUME NEW p \in Op, NEW q, q = [p EXCEPT !.n = @ + 1]
  PROVE  q \in Op /\ q.at = p.at /\ q.n = p.n + 1 /\ Carries(q, p)
BY DEF Op, Carries

LEMMA Restarted ==
  ASSUME NEW p \in Op, NEW at \in Steps, NEW q, q = [p EXCEPT !.at = at, !.n = 1]
  PROVE  q \in Op /\ q.at = at /\ q.n = 1 /\ Carries(q, p)
BY DEF Op, Carries

\* The next item is one of the request's.
LEMMA NextIsItem ==
  ASSUME NEW p \in Op, NEW at \in Steps, NEW q, q = NextItem(p, at), Len(p.items) \in Nat,
         p.n \in 1..Len(p.items)
  PROVE  q \in Op /\ q.at \in {p.at, at} /\ q.n \in 1..Len(p.items) /\ Carries(q, p)
<1>1. CASE p.n < Len(p.items)
  <2>1. q = [p EXCEPT !.n = @ + 1]
    BY <1>1 DEF NextItem
  <2>2. q \in Op /\ q.at = p.at /\ q.n = p.n + 1 /\ Carries(q, p)
    BY <2>1, Counted
  <2> QED
    BY <1>1, <2>2
<1>2. CASE ~(p.n < Len(p.items))
  <2>1. q = [p EXCEPT !.at = at, !.n = 1]
    BY <1>2 DEF NextItem
  <2>2. q \in Op /\ q.at = at /\ q.n = 1 /\ Carries(q, p)
    BY <2>1, Restarted
  <2> QED
    BY <2>2
<1> QED
  BY <1>1, <1>2

\* A step that looks, and ends the request or goes on with q.
LEMMA ServiceLooks ==
  ASSUME Inv, NEW o \in Ops, UNCHANGED <<scene, ids, servicesVars>>, UNCHANGED <<productVars, extraVars>>,
         NEW q \in Op, Finish(o) \/ Set(o, q), q.kind \in ServiceRequests,
         ServiceFit(q) /\ ServiceGood(q, ids, served, services)
  PROVE  Inv'
<1>1. UNCHANGED Rest
  BY DEF Rest
<1>2. CASE Finish(o)
  BY <1>1, <1>2, Ends
<1>3. CASE Set(o, q)
  <2>1. Moves(o, q)
    BY <1>3, Sets DEF Inv
  <2> QED
    BY <1>1, <2>1, ServiceOnward
<1> QED
  BY <1>2, <1>3

LEMMA TitleLookup ==
  ASSUME Inv, NEW o \in Ops, FindTitle(o), UNCHANGED <<productVars, extraVars>>
  PROVE  Inv'
<1>1. PICK p \in Op : p = op[o] /\ ServiceFit(p) /\ ServiceGood(p, ids, served, services)
  BY InSlot
<1>2. PICK at \in Steps : at = IF p.kind = "category" THEN "insert" ELSE "write"
  BY DEF Steps
<1>3. PICK q : q = [p EXCEPT !.at = at]
  OBVIOUS
<1>4. q \in Op /\ q.at = at /\ q.n = p.n /\ Carries(q, p)
  BY <1>3, Advanced
<1>5. p.kind \in {"category", "retitle"} /\ (Finish(o) \/ Set(o, q))
  BY <1>1, <1>2, <1>3 DEF FindTitle
<1>6. ServiceFit(q) /\ ServiceGood(q, ids, served, services) /\ q.kind \in ServiceRequests
  BY <1>1, <1>4, <1>5 DEF Carries, ServiceFit, ServiceGood, ServiceRequests, Titled
<1>7. UNCHANGED <<scene, ids, servicesVars>>
  BY DEF FindTitle
<1> QED
  BY <1>4, <1>5, <1>6, <1>7, ServiceLooks

LEMMA ExactLookup ==
  ASSUME Inv, NEW o \in Ops, FindExact(o), UNCHANGED <<productVars, extraVars>>
  PROVE  Inv'
<1>1. PICK p \in Op : p = op[o] /\ ServiceFit(p) /\ ServiceGood(p, ids, served, services)
  BY InSlot
<1>2. PICK at \in Steps : at = IF p.kind = "services" THEN "insert" ELSE "similar"
  BY DEF Steps
<1>3. PICK q : q = NextItem(p, at)
  OBVIOUS
<1>5. p.at = "exact" /\ p.kind \in ServiceKinds /\ (Finish(o) \/ Set(o, q))
  BY <1>1, <1>2, <1>3 DEF FindExact
<1>6. Named(p)
  BY <1>1, <1>5 DEF ServiceKinds, ServiceFit
<1>7. Len(p.items) \in Nat /\ p.n \in 1..Len(p.items)
  BY <1>6 DEF Named
<1>4. q \in Op /\ q.at \in {"exact", at} /\ q.n \in 1..Len(p.items) /\ Carries(q, p)
  BY <1>3, <1>5, <1>7, NextIsItem
<1>a. Named(q)
  BY <1>4, <1>6 DEF Named, Carries
<1>b. q.kind = "rename" => q.at \in {"exact", "similar"}
  BY <1>2, <1>4 DEF Carries
<1>c. q.kind = "moderate" => q.at \in {"exact", "similar"} /\ q.status = "implemented"
  BY <1>1, <1>2, <1>4, <1>5 DEF Carries, ServiceGood
<1>d. q.kind \in ServiceKinds
  BY <1>4, <1>5 DEF Carries
<1>e. q.kind = "moderate" => q.lounge \in Lounges \cup {None} /\ q.status \in Statuses \cup {None}
  BY <1>1, <1>4 DEF Carries, ServiceFit
<1>f. q.kind = "moderate" => q.id \in 1..ids
  BY <1>1, <1>4 DEF Carries, ServiceGood
<1>8. ServiceFit(q)
  BY <1>a, <1>b, <1>c, <1>d, <1>e DEF ServiceFit, ServiceKinds
<1>g. ServiceGood(q, ids, served, services) /\ q.kind \in ServiceRequests
  BY <1>c, <1>d, <1>f DEF ServiceGood, ServiceKinds, ServiceRequests
<1>9. UNCHANGED <<scene, ids, servicesVars>>
  BY DEF FindExact
<1> QED
  BY <1>4, <1>5, <1>8, <1>g, <1>9, ServiceLooks

LEMMA SimilarLookup ==
  ASSUME Inv, NEW o \in Ops, FindSimilar(o), UNCHANGED <<productVars, extraVars>>
  PROVE  Inv'
<1>1. PICK p \in Op : p = op[o] /\ ServiceFit(p) /\ ServiceGood(p, ids, served, services)
  BY InSlot
<1>2. PICK at \in Steps : at = IF p.kind = "rename" THEN "write" ELSE "insert"
  BY DEF Steps
<1>3. PICK q : q = [p EXCEPT !.at = at]
  OBVIOUS
<1>4. q \in Op /\ q.at = at /\ q.n = p.n /\ Carries(q, p)
  BY <1>3, Advanced
<1>5. p.at = "similar" /\ p.kind \in ServiceKinds /\ (Finish(o) \/ Set(o, q))
  BY <1>1, <1>2, <1>3 DEF FindSimilar
<1>6. ServiceFit(q)
  BY <1>1, <1>2, <1>4, <1>5 DEF Carries, ServiceFit, ServiceKinds, Named
<1>8. ServiceGood(q, ids, served, services) /\ q.kind \in ServiceRequests
  BY <1>1, <1>2, <1>4, <1>5 DEF Carries, ServiceGood, ServiceKinds, ServiceRequests
<1>7. UNCHANGED <<scene, ids, servicesVars>>
  BY DEF FindSimilar
<1> QED
  BY <1>4, <1>5, <1>6, <1>8, <1>7, ServiceLooks

LEMMA OfferLookup ==
  ASSUME Inv, NEW o \in Ops, FindOffer(o), UNCHANGED <<productVars, extraVars>>
  PROVE  Inv'
<1>1. PICK p \in Op : p = op[o] /\ ServiceFit(p) /\ ServiceGood(p, ids, served, services)
  BY InSlot
<1>2. p.at = "offered" /\ p.kind \in OfferKinds /\ "insert offer" \in Steps
  BY <1>1 DEF FindOffer, Steps
<1>3. UNCHANGED <<scene, ids, servicesVars>> /\ UNCHANGED Rest
  BY DEF FindOffer, Rest
<1>4. CASE Finish(o)
  BY <1>3, <1>4, Ends
<1>5. CASE ~Finish(o) /\ p.kind = "moderate"
  <2>1. PICK q : q = [p EXCEPT !.at = "insert offer"]
    OBVIOUS
  <2>2. q \in Op /\ q.at = "insert offer" /\ q.n = p.n /\ Carries(q, p)
    BY <1>2, <2>1, Advanced
  <2>3. Set(o, q) /\ p.lounge # None
    BY <1>1, <1>5, <2>1 DEF FindOffer
  <2>4. ServiceFit(q) /\ ServiceGood(q, ids, served, services) /\ q.kind \in ServiceRequests
    BY <1>1, <1>2, <1>5, <2>2, <2>3 DEF Carries, ServiceFit, ServiceGood, ServiceRequests
  <2> QED
    BY <1>3, <2>2, <2>3, <2>4, ServiceLooks
<1>6. CASE ~Finish(o) /\ p.kind # "moderate"
  <2>1. PICK q : q = NextItem(p, "insert offer")
    OBVIOUS
  <2>2. p.kind \in {"offer", "offers"} /\ Listed(p)
    BY <1>1, <1>2, <1>6 DEF OfferKinds, ServiceFit
  <2>3. Len(p.items) \in Nat /\ p.n \in 1..Len(p.items)
    BY <2>2 DEF Listed
  <2>4. q \in Op /\ q.n \in 1..Len(p.items) /\ Carries(q, p)
    BY <1>2, <2>1, <2>3, NextIsItem
  <2>5. Set(o, q)
    BY <1>1, <1>6, <2>1 DEF FindOffer
  <2>6. ServiceFit(q) /\ ServiceGood(q, ids, served, services) /\ q.kind \in ServiceRequests
    BY <1>1, <2>2, <2>4 DEF Carries, ServiceFit, ServiceGood, ServiceRequests, Listed
  <2> QED
    BY <1>3, <2>4, <2>5, <2>6, ServiceLooks
<1> QED
  BY <1>4, <1>5, <1>6

LEMMA PendingLookup ==
  ASSUME Inv, NEW o \in Ops, FindPending(o), UNCHANGED <<productVars, extraVars>>
  PROVE  Inv'
<1>1. PICK p \in Op : p = op[o] /\ ServiceFit(p) /\ ServiceGood(p, ids, served, services)
  BY InSlot
<1>2. "insert" \in Steps
  BY DEF Steps
<1>3. PICK q : q = [p EXCEPT !.at = "insert"]
  OBVIOUS
<1>4. q \in Op /\ q.at = "insert" /\ q.n = p.n /\ Carries(q, p)
  BY <1>2, <1>3, Advanced
<1>5. p.kind = "suggest" /\ (Finish(o) \/ Set(o, q))
  BY <1>1, <1>3 DEF FindPending
<1>6. ServiceFit(q) /\ ServiceGood(q, ids, served, services) /\ q.kind \in ServiceRequests
  BY <1>1, <1>4, <1>5 DEF Carries, ServiceFit, ServiceGood, ServiceRequests, Named
<1>7. UNCHANGED <<scene, ids, servicesVars>>
  BY DEF FindPending
<1> QED
  BY <1>4, <1>5, <1>6, <1>7, ServiceLooks

LEMMA CategoryLookup ==
  ASSUME Inv, NEW o \in Ops, FindCategory(o), UNCHANGED <<productVars, extraVars>>
  PROVE  Inv'
<1>1. PICK p \in Op : p = op[o] /\ ServiceFit(p) /\ ServiceGood(p, ids, served, services)
  BY InSlot
<1>2. "exact" \in Steps
  BY DEF Steps
<1>3. PICK q : q = [p EXCEPT !.at = "exact"]
  OBVIOUS
<1>4. q \in Op /\ q.at = "exact" /\ q.n = p.n /\ Carries(q, p)
  BY <1>2, <1>3, Advanced
<1>5. p.kind = "moderate" /\ p.at = "category" /\ (Finish(o) \/ Set(o, q))
  BY <1>1, <1>3 DEF FindCategory
<1>6. ServiceFit(q) /\ ServiceGood(q, ids, served, services) /\ q.kind \in ServiceRequests
  BY <1>1, <1>4, <1>5 DEF Carries, ServiceFit, ServiceGood, ServiceRequests, Named
<1>7. UNCHANGED <<scene, ids, servicesVars>>
  BY DEF FindCategory
<1> QED
  BY <1>4, <1>5, <1>6, <1>7, ServiceLooks

-----------------------------------------------------------------------------
\* The services: steps that write.

LEMMA CategoryStored ==
  ASSUME Inv, NEW o \in Ops, StoreCategory(o), UNCHANGED <<productVars, extraVars>>
  PROVE  Inv'
<1>1. PICK p \in Op : p = op[o] /\ ServiceFit(p)
  BY InSlot
<1>2. p.kind \in {"category", "retitle"} /\ Titled(p) /\ p.n = 1
  BY <1>1 DEF StoreCategory, ServiceFit
<1>3. p.items[1] \in Titles /\ p.id \in Nat /\ ids \in Nat
  BY <1>2, Given DEF Titled, Op
<1>4. PICK x : x = [id |-> IF p.kind = "category" THEN ids + 1 ELSE p.id, title |-> Item(p)]
  OBVIOUS
<1>5. x \in Category
  BY <1>2, <1>3, <1>4 DEF Category, Item
<1>6. /\ \/ categories' = Put(categories, x) /\ ids' = IF p.kind = "category" THEN ids + 1 ELSE ids
         \/ categories' = categories /\ ids' = ids
      /\ Finish(o)
      /\ scene' = scene /\ services' = services /\ offers' = offers /\ suggestions' = suggestions
      /\ lounges' = lounges /\ served' = served /\ claimed' = claimed /\ told' = told
  BY <1>1, <1>4 DEF StoreCategory
<1>7. ids' \in Nat /\ ids <= ids'
  BY <1>3, <1>6
<1>8. categories' \subseteq Category
  BY <1>5, <1>6, Given DEF Put
<1>9. \A i \in 1..ids : i \in 1..ids'
  BY <1>3, <1>7
<1>10. ServicesTypeOK'
  BY <1>6, <1>8, <1>9 DEF Inv, ServicesInv, ServiceRows, ServicesTypeOK
<1>11. ServiceRows'
  BY <1>6, <1>9, <1>10 DEF Inv, ServicesInv, ServiceRows, SuggestionIsOffered
<1>12. PICK q \in Op : q = NoOp
  BY NothingCarried
<1>13. Moves(o, q)
  BY <1>6, <1>12, Sets DEF Finish, Inv
<1>14. served \subseteq served' /\ \A s \in services' : s \in services
  BY <1>6
<1>15. q.kind \in ServiceRequests \cup {"none"} /\ ServiceFit(q) /\ ServiceGood(q, ids', served', services')
  BY <1>12, NothingCarried
<1> QED
  BY <1>6, <1>7, <1>11, <1>13, <1>14, <1>15, ServiceStepKeeps

\* A step that ends its request, and gives out no id.
LEMMA ServiceEnds ==
  ASSUME Inv, NEW o \in Ops, Finish(o), UNCHANGED <<scene, ids, served>>,
         UNCHANGED <<productVars, extraVars>>, ServiceRows', services' \subseteq services
  PROVE  Inv'
<1>1. PICK q \in Op : q = NoOp
  BY NothingCarried
<1>2. Moves(o, q)
  BY <1>1, Sets DEF Finish, Inv
<1>3. q.kind \in ServiceRequests \cup {"none"} /\ ServiceFit(q) /\ ServiceGood(q, ids', served', services')
  BY <1>1, NothingCarried
<1>4. ids \in Nat
  BY Given
<1>5. scene' = scene /\ ids' \in Nat /\ ids <= ids' /\ served \subseteq served'
  BY <1>4
<1> QED
  BY <1>2, <1>3, <1>5, ServiceStepKeeps

LEMMA CategoryDropped ==
  ASSUME Inv, NEW o \in Ops, DropCategory(o), UNCHANGED <<productVars, extraVars>>
  PROVE  Inv'
<1>1. /\ categories' \subseteq categories /\ Finish(o) /\ UNCHANGED <<scene, ids, served>>
      /\ ids' = ids /\ services' = services /\ offers' = offers /\ suggestions' = suggestions
      /\ lounges' = lounges /\ served' = served /\ claimed' = claimed /\ told' = told
  BY DEF DropCategory
<1>2. ServicesTypeOK'
  BY <1>1 DEF Inv, ServicesInv, ServiceRows, ServicesTypeOK
<1>3. ServiceRows' /\ services' \subseteq services
  BY <1>1, <1>2 DEF Inv, ServicesInv, ServiceRows, SuggestionIsOffered
<1> QED
  BY <1>1, <1>3, ServiceEnds

LEMMA ServiceInserted ==
  ASSUME Inv, NEW o \in Ops, InsertService(o), UNCHANGED <<productVars, extraVars>>
  PROVE  Inv'
<1>1. PICK p \in Op : p = op[o] /\ ServiceFit(p) /\ ServiceGood(p, ids, served, services)
  BY InSlot
<1>2. p.at = "insert" /\ p.kind \in {"service", "services", "moderate"} /\ Named(p)
  BY <1>1 DEF InsertService, ServiceKinds, ServiceFit
<1>3. p.items[p.n] \in Names /\ p.category \in Nat /\ ids \in Nat
  BY <1>2, Given DEF Named, Op
<1>4. PICK x : x = [id |-> ids + 1, name |-> Item(p), category |-> p.category]
  OBVIOUS
<1>5. x \in Service /\ x.id = ids + 1 /\ x.category = p.category
  BY <1>3, <1>4 DEF Service, Item
<1>6. CASE ~InsertableService(x)
  <2>1. Finish(o) /\ UNCHANGED Rest
    BY <1>1, <1>4, <1>6 DEF InsertService, Rest, servicesVars
  <2> QED
    BY <2>1, Ends
<1>7. CASE InsertableService(x)
  <2>1. /\ services' = services \cup {x} /\ ids' = ids + 1 /\ SetNoting(o, AfterService(p), p.category, x.id)
        /\ scene' = scene /\ categories' = categories /\ offers' = offers /\ suggestions' = suggestions
        /\ lounges' = lounges /\ served' = served /\ claimed' = claimed /\ told' = told
    BY <1>1, <1>4, <1>7 DEF InsertService
  <2>2. ids' \in Nat /\ ids <= ids' /\ (\A i \in 1..ids : i \in 1..ids' /\ i # ids + 1) /\ ids + 1 \in 1..ids'
    BY <1>3, <2>1
  <2>3. \A s \in services : s.name # x.name
    <3>1. \A s \in services : s \notin WithId(services, x.id)
      BY <1>5, <2>2, Given DEF WithId
    <3> QED
      BY <1>7, <3>1 DEF InsertableService
  <2>4. services' \subseteq Service /\ \A s, t \in services' : s.name = t.name => s = t
    BY <1>5, <2>1, <2>3, Given DEF Inv, ServicesInv, ServiceRows, ServicesTypeOK
  <2>5. ServicesTypeOK'
    BY <2>1, <2>2, <2>4 DEF Inv, ServicesInv, ServiceRows, ServicesTypeOK
  <2>6. ServiceRows'
    BY <1>5, <2>1, <2>2, <2>5 DEF Inv, ServicesInv, ServiceRows, SuggestionIsOffered
  <2>7. PICK q : q = AfterService(p)
    OBVIOUS
  <2>8. /\ q \in Op /\ q.kind \in ServiceRequests \cup {"none"} /\ ServiceFit(q)
        /\ ServiceGood(q, ids', served', services')
    <3>1. CASE p.kind = "moderate"
      <4>a. PICK made \in Nat : made = ids + 1
        BY <1>3
      <4>1. q = [p EXCEPT !.at = "offered", !.made = made]
        BY <2>7, <3>1, <4>a DEF AfterService
      <4>b. "offered" \in Steps
        BY DEF Steps
      <4>2. /\ q \in Op /\ q.at = "offered" /\ q.kind = p.kind /\ q.id = p.id /\ q.items = p.items
            /\ q.lounge = p.lounge /\ q.status = p.status
        BY <4>1, <4>b DEF Op
      <4>3. ServiceFit(q)
        BY <1>1, <3>1, <4>2 DEF ServiceFit
      <4>4. ServiceGood(q, ids', served', services') /\ q.kind \in ServiceRequests
        BY <1>1, <1>2, <2>2, <3>1, <4>2 DEF ServiceGood, ServiceRequests
      <4> QED
        BY <4>2, <4>3, <4>4
    <3>2. CASE p.kind # "moderate" /\ p.n < Len(p.items)
      <4>1. q = [p EXCEPT !.n = @ + 1]
        BY <2>7, <3>2 DEF AfterService
      <4>2. q \in Op /\ q.at = p.at /\ q.n = p.n + 1 /\ Carries(q, p)
        BY <4>1, Counted
      <4>3. Len(p.items) \in Nat /\ p.n \in 1..Len(p.items)
        BY <1>2 DEF Named
      <4>4. q.n \in 1..Len(p.items)
        BY <3>2, <4>2, <4>3
      <4>5. ServiceFit(q) /\ ServiceGood(q, ids', served', services') /\ q.kind \in ServiceRequests
        BY <1>2, <3>2, <4>2, <4>4 DEF Carries, ServiceFit, ServiceGood, ServiceRequests, Named
      <4> QED
        BY <4>2, <4>5
    <3>3. CASE p.kind # "moderate" /\ ~(p.n < Len(p.items))
      BY <2>7, <3>3, NothingCarried DEF AfterService
    <3> QED
      BY <3>1, <3>2, <3>3
  <2>9. /\ Moves(o, q)
        /\ \A r \in Ops \ {o} : op[r].at = "drop" /\ op[r].id = p.category => x.id \in op'[r].late
    BY <1>5, <2>1, <2>2, <2>7, <2>8, SetsNoting DEF Inv
  <2>10. \A r \in Ops \ {o} : op[r].at = "drop" =>
           \A s \in services' : s.category = op[r].id => s \in services \/ s.id \in op'[r].late
    BY <1>5, <2>1, <2>9
  <2>11. served \subseteq served'
    BY <2>1
  <2> QED
    BY <2>1, <2>2, <2>6, <2>8, <2>9, <2>10, <2>11, ServiceStepKeeps
<1> QED
  BY <1>6, <1>7

LEMMA ServiceWritten ==
  ASSUME Inv, NEW o \in Ops, WriteService(o), UNCHANGED <<productVars, extraVars>>
  PROVE  Inv'
<1>1. PICK p \in Op : p = op[o] /\ ServiceFit(p)
  BY InSlot
<1>2. p.items = <<>> \/ Named(p)
  BY <1>1 DEF WriteService, ServiceFit
<1> DEFINE Changed(s) == [s EXCEPT !.name = IF p.items = <<>> THEN @ ELSE Item(p),
                                   !.category = IF p.category = 0 THEN @ ELSE p.category]
<1>3. /\ scene' = scene /\ ids' = ids /\ categories' = categories /\ offers' = offers
      /\ suggestions' = suggestions /\ lounges' = lounges /\ served' = served /\ claimed' = claimed
      /\ told' = told /\ ids \in Nat
  BY Given DEF WriteService
<1>4. CASE Finish(o) /\ UNCHANGED services
  <2>1. UNCHANGED Rest
    BY <1>3, <1>4 DEF Rest, servicesVars
  <2> QED
    BY <1>4, <2>1, Ends
<1>5. ASSUME NEW s \in WithId(services, p.id), InsertableService(Changed(s)),
             services' = Put(services, Changed(s)), SetNoting(o, NoOp, Changed(s).category, s.id)
      PROVE  Inv'
  <2>1. s \in Service /\ s \in services /\ s.id \in 1..ids
    BY Given DEF WithId
  <2>a. p.category \in Nat /\ (p.items # <<>> => Item(p) \in Names)
    BY <1>2 DEF Named, Item, Op
  <2>b. PICK name, category : /\ name = IF p.items = <<>> THEN s.name ELSE Item(p)
                              /\ category = IF p.category = 0 THEN s.category ELSE p.category
    OBVIOUS
  <2>c. name \in Names /\ category \in Nat
    BY <2>1, <2>a, <2>b DEF Service
  <2>d. PICK x : x = Changed(s)
    OBVIOUS
  <2>e. x = [s EXCEPT !.name = name, !.category = category]
    BY <2>b, <2>d
  <2>2. x \in Service /\ x.id = s.id /\ x.category = category
    BY <2>1, <2>c, <2>e DEF Service
  <2>f. InsertableService(x) /\ services' = Put(services, x) /\ SetNoting(o, NoOp, category, s.id)
    BY <1>5, <2>2, <2>d
  <2> HIDE DEF Changed
  <2>3. services' = (services \ WithId(services, x.id)) \cup {x}
    BY <2>f DEF Put
  <2>4. \A t \in services \ WithId(services, x.id) : t.name # x.name
    BY <2>f DEF InsertableService
  <2>5. services' \subseteq Service /\ \A t, u \in services' : t.name = u.name => t = u
    BY <2>2, <2>3, <2>4, Given DEF Inv, ServicesInv, ServiceRows, ServicesTypeOK
  <2>6. ServicesTypeOK'
    BY <1>3, <2>5 DEF Inv, ServicesInv, ServiceRows, ServicesTypeOK
  <2>7. \A t \in services' : t.id \in 1..ids
    BY <2>1, <2>2, <2>3, Given
  <2>8. ServiceRows'
    BY <1>3, <2>6, <2>7 DEF Inv, ServicesInv, ServiceRows, SuggestionIsOffered
  <2>9. PICK q \in Op : q = NoOp
    BY NothingCarried
  <2>10. /\ Moves(o, q)
         /\ \A r \in Ops \ {o} : op[r].at = "drop" /\ op[r].id = category => s.id \in op'[r].late
    BY <1>3, <2>1, <2>f, <2>9, SetsNoting DEF Inv
  <2>11. \A r \in Ops \ {o} : op[r].at = "drop" =>
           \A t \in services' : t.category = op[r].id => t \in services \/ t.id \in op'[r].late
    BY <2>2, <2>3, <2>10
  <2>12. q.kind \in ServiceRequests \cup {"none"} /\ ServiceFit(q) /\ ServiceGood(q, ids', served', services')
    BY <2>9, NothingCarried
  <2>13. ids' \in Nat /\ ids <= ids' /\ served \subseteq served'
    BY <1>3
  <2> QED
    BY <1>3, <2>8, <2>10, <2>11, <2>12, <2>13, ServiceStepKeeps
<1> QED
  BY <1>1, <1>4, <1>5 DEF WriteService

LEMMA OfferInserted ==
  ASSUME Inv, NEW o \in Ops, InsertOffer(o), UNCHANGED <<productVars, extraVars>>
  PROVE  Inv'
<1>1. PICK p \in Op : p = op[o] /\ ServiceFit(p) /\ ServiceGood(p, ids, served, services)
  BY InSlot
<1>2. p.at = "insert offer" /\ p.kind \in OfferKinds
  BY <1>1 DEF InsertOffer
<1>a. PICK service : service = ToOffer(p)
  OBVIOUS
<1>b. service \in Nat
  <2>1. CASE p.kind = "moderate"
    BY <1>a, <2>1 DEF ToOffer, Op
  <2>2. CASE p.kind # "moderate"
    <3>1. Listed(p)
      BY <1>1, <1>2, <2>2 DEF OfferKinds, ServiceFit
    <3> QED
      BY <1>a, <2>2, <3>1 DEF ToOffer, Listed, Item
  <2> QED
    BY <2>1, <2>2
<1>3. p.lounge \in Lounges /\ ids \in Nat
  BY <1>1, <1>2, Given DEF OfferKinds, ServiceFit
<1>4. PICK x : x = [id |-> ids + 1, lounge |-> p.lounge, service |-> service, active |-> TRUE]
  OBVIOUS
<1>5. x \in Offer /\ x.id = ids + 1
  BY <1>3, <1>4, <1>b DEF Offer
<1>6. CASE ~InsertableOffer(x)
  <2>1. Finish(o) /\ UNCHANGED Rest
    BY <1>1, <1>4, <1>a, <1>6 DEF InsertOffer, Rest, servicesVars
  <2> QED
    BY <2>1, Ends
<1>7. CASE InsertableOffer(x)
  <2>7. PICK q : q = IF p.kind = "moderate" THEN [p EXCEPT !.at = "mark"]
                     ELSE IF p.n < Len(p.items) THEN [p EXCEPT !.n = @ + 1] ELSE NoOp
    OBVIOUS
  <2>1. /\ offers' = offers \cup {x} /\ ids' = ids + 1 /\ Set(o, q)
        /\ served' = IF p.kind = "moderate" THEN served \cup {p.id} ELSE served
        /\ scene' = scene /\ categories' = categories /\ services' = services
        /\ suggestions' = suggestions /\ lounges' = lounges /\ claimed' = claimed /\ told' = told
    BY <1>1, <1>4, <1>a, <1>7, <2>7 DEF InsertOffer, ImplementSteps
  <2>2. ids' \in Nat /\ ids <= ids' /\ (\A i \in 1..ids : i \in 1..ids' /\ i # ids + 1) /\ ids + 1 \in 1..ids'
    BY <1>3, <2>1
  <2>3. \A f \in offers : <<f.lounge, f.service>> # <<x.lounge, x.service>>
    <3>1. \A f \in offers : f \notin WithId(offers, x.id)
      BY <1>5, <2>2, Given DEF WithId
    <3> QED
      BY <1>7, <3>1 DEF InsertableOffer
  <2>4. /\ offers' \subseteq Offer
        /\ \A f, g \in offers' : <<f.lounge, f.service>> = <<g.lounge, g.service>> => f = g
    BY <1>5, <2>1, <2>3, Given DEF Inv, ServicesInv, ServiceRows, ServicesTypeOK
  <2>a. served \cup claimed \subseteq 1..ids
    BY DEF Inv, ServicesInv, ServiceRows, ServicesTypeOK
  <2>b. p.kind = "moderate" => p.id \in 1..ids
    BY <1>1 DEF ServiceGood
  <2>c. served \subseteq served' /\ served' \cup claimed' \subseteq 1..ids'
    BY <2>1, <2>2, <2>a, <2>b
  <2>5. ServicesTypeOK'
    BY <2>1, <2>4, <2>c DEF Inv, ServicesInv, ServiceRows, ServicesTypeOK
  <2>6. ServiceRows'
    <3>1. (\A s \in services \cup offers \cup suggestions : s.id \in 1..ids)'
      BY <1>5, <2>1, <2>2, Given
    <3>2. SuggestionIsOffered'
      BY <2>1, <2>c DEF Inv, ServicesInv, ServiceRows, SuggestionIsOffered
    <3> QED
      BY <2>5, <3>1, <3>2 DEF ServiceRows
  <2>8. /\ q \in Op /\ q.kind \in ServiceRequests \cup {"none"} /\ ServiceFit(q)
        /\ ServiceGood(q, ids', served', services')
    <3>1. CASE p.kind = "moderate"
      <4>1. q = [p EXCEPT !.at = "mark"] /\ "mark" \in Steps
        BY <2>7, <3>1 DEF Steps
      <4>2. q \in Op /\ q.at = "mark" /\ q.n = p.n /\ Carries(q, p)
        BY <4>1, Advanced
      <4>3. ServiceFit(q)
        BY <1>1, <3>1, <4>2 DEF Carries, ServiceFit
      <4>4. q.id \in 1..ids' /\ q.id \in served'
        BY <2>1, <2>2, <2>b, <3>1, <4>2 DEF Carries
      <4>5. ServiceGood(q, ids', served', services') /\ q.kind \in ServiceRequests
        BY <3>1, <4>2, <4>4 DEF Carries, ServiceGood, ServiceRequests
      <4> QED
        BY <4>2, <4>3, <4>5
    <3>2. CASE p.kind # "moderate" /\ p.n < Len(p.items)
      <4>1. q = [p EXCEPT !.n = @ + 1]
        BY <2>7, <3>2
      <4>2. q \in Op /\ q.at = p.at /\ q.n = p.n + 1 /\ Carries(q, p)
        BY <4>1, Counted
      <4>a. Listed(p) /\ p.kind \in {"offer", "offers"}
        BY <1>1, <1>2, <3>2 DEF OfferKinds, ServiceFit
      <4>3. Len(p.items) \in Nat /\ p.n \in 1..Len(p.items)
        BY <4>a DEF Listed
      <4>4. q.n \in 1..Len(p.items)
        BY <3>2, <4>2, <4>3
      <4>5. ServiceFit(q) /\ ServiceGood(q, ids', served', services') /\ q.kind \in ServiceRequests
        BY <1>3, <4>2, <4>4, <4>a DEF Carries, ServiceFit, ServiceGood, ServiceRequests, Listed
      <4> QED
        BY <4>2, <4>5
    <3>3. CASE p.kind # "moderate" /\ ~(p.n < Len(p.items))
      BY <2>7, <3>3, NothingCarried
    <3> QED
      BY <3>1, <3>2, <3>3
  <2>9. Moves(o, q) /\ \A s \in services' : s \in services
    BY <2>1, <2>8, Sets DEF Inv
  <2> QED
    BY <2>1, <2>2, <2>6, <2>8, <2>9, <2>c, ServiceStepKeeps
<1> QED
  BY <1>6, <1>7

LEMMA ToggleWritten ==
  ASSUME Inv, NEW o \in Ops, WriteToggle(o), UNCHANGED <<productVars, extraVars>>
  PROVE  Inv'
<1>1. PICK p \in Op : p = op[o] /\ ServiceFit(p)
  BY InSlot
<1>2. p.kind = "toggle" /\ p.value \in BOOLEAN
  BY <1>1 DEF WriteToggle, ServiceFit
<1>3. /\ scene' = scene /\ ids' = ids /\ categories' = categories /\ services' = services
      /\ suggestions' = suggestions /\ lounges' = lounges /\ served' = served /\ claimed' = claimed
      /\ told' = told /\ Finish(o) /\ ids \in Nat
  BY Given DEF WriteToggle
<1>4. offers' = {IF f.id = p.id THEN [f EXCEPT !.active = p.value] ELSE f : f \in offers}
  BY <1>1 DEF WriteToggle
<1>5. ASSUME NEW g \in offers'
      PROVE  /\ g \in Offer
             /\ \E f \in offers : /\ g.id = f.id /\ g.lounge = f.lounge /\ g.service = f.service
                                  /\ g = IF f.id = p.id THEN [f EXCEPT !.active = p.value] ELSE f
  <2>1. PICK f \in offers : g = IF f.id = p.id THEN [f EXCEPT !.active = p.value] ELSE f
    BY <1>4
  <2>2. f \in Offer
    BY Given
  <2>3. g \in Offer /\ g.id = f.id /\ g.lounge = f.lounge /\ g.service = f.service
    BY <1>2, <2>1, <2>2 DEF Offer
  <2> QED
    BY <2>1, <2>3
<1>6. offers' \subseteq Offer
  BY <1>5
<1>7. \A f, g \in offers : <<f.lounge, f.service>> = <<g.lounge, g.service>> => f = g
  BY DEF Inv, ServicesInv, ServiceRows, ServicesTypeOK
<1>8. \A f, g \in offers' : <<f.lounge, f.service>> = <<g.lounge, g.service>> => f = g
  BY <1>5, <1>7
<1>9. ServicesTypeOK'
  BY <1>3, <1>6, <1>8 DEF Inv, ServicesInv, ServiceRows, ServicesTypeOK
<1>10. ServiceRows'
  <2>1. (\A s \in services \cup offers \cup suggestions : s.id \in 1..ids)'
    BY <1>3, <1>5, Given
  <2> QED
    BY <1>3, <1>9, <2>1 DEF Inv, ServicesInv, ServiceRows, SuggestionIsOffered
<1>11. UNCHANGED <<scene, ids, served>> /\ services' \subseteq services
  BY <1>3
<1> QED
  BY <1>3, <1>10, <1>11, ServiceEnds

LEMMA SuggestionInserted ==
  ASSUME Inv, NEW o \in Ops, InsertSuggestion(o), UNCHANGED <<productVars, extraVars>>
  PROVE  Inv'
<1>1. PICK p \in Op : p = op[o] /\ ServiceFit(p)
  BY InSlot
<1>2. p.kind = "suggest" /\ Named(p) /\ p.lounge \in Lounges
  BY <1>1 DEF InsertSuggestion, ServiceFit
<1>3. p.items[p.n] \in Names /\ ids \in Nat
  BY <1>2, Given DEF Named
<1>4. PICK x : x = [id |-> ids + 1, lounge |-> p.lounge, name |-> Item(p), status |-> "pending"]
  OBVIOUS
<1>5. x \in Suggestion /\ x.id = ids + 1 /\ x.status = "pending"
  BY <1>2, <1>3, <1>4 DEF Suggestion, Item, Statuses
<1>a. PICK i \in Nat : i = ids + 1
  BY <1>3
<1>6. PICK q : q = [p EXCEPT !.at = "tell", !.id = i, !.status = "new"]
  OBVIOUS
<1>7. /\ suggestions' = suggestions \cup {x} /\ ids' = i /\ Set(o, q)
      /\ scene' = scene /\ categories' = categories /\ services' = services /\ offers' = offers
      /\ lounges' = lounges /\ served' = served /\ claimed' = claimed /\ told' = told
  BY <1>1, <1>4, <1>6, <1>a DEF InsertSuggestion
<1>8. ids' \in Nat /\ ids <= ids' /\ (\A j \in 1..ids : j \in 1..ids') /\ ids + 1 \in 1..ids'
  BY <1>3, <1>7, <1>a
<1>9. ServicesTypeOK'
  BY <1>5, <1>7, <1>8 DEF Inv, ServicesInv, ServiceRows, ServicesTypeOK
<1>10. ServiceRows'
  BY <1>5, <1>7, <1>8, <1>9 DEF Inv, ServicesInv, ServiceRows, SuggestionIsOffered
<1>11. "tell" \in Steps
  BY DEF Steps
<1>12. /\ q \in Op /\ q.at = "tell" /\ q.kind = "suggest" /\ q.items = p.items /\ q.n = p.n
       /\ q.lounge = p.lounge /\ q.status = "new"
  BY <1>2, <1>6, <1>11 DEF Op
<1>13. ServiceFit(q) /\ ServiceGood(q, ids', served', services') /\ q.kind \in ServiceRequests \cup {"none"}
  BY <1>2, <1>12 DEF ServiceFit, ServiceGood, ServiceRequests, Named
<1>14. Moves(o, q) /\ served \subseteq served' /\ \A s \in services' : s \in services
  BY <1>7, <1>12, Sets DEF Inv
<1> QED
  BY <1>7, <1>8, <1>10, <1>12, <1>13, <1>14, ServiceStepKeeps

LEMMA SuggestionWritten ==
  ASSUME Inv, NEW o \in Ops, WriteSuggestion(o), UNCHANGED <<productVars, extraVars>>
  PROVE  Inv'
<1>1. PICK p \in Op : p = op[o] /\ ServiceFit(p) /\ ServiceGood(p, ids, served, services)
  BY InSlot
<1>2. /\ p.kind = "edit" /\ (p.items = <<>> \/ Named(p))
      /\ p.status \in Statuses \cup {None} /\ p.id \in 1..ids
  BY <1>1 DEF WriteSuggestion, ServiceFit, ServiceGood
<1>a. p.items # <<>> => Item(p) \in Names
  BY <1>2 DEF Named, Item
<1> DEFINE Changed(s) == [s EXCEPT !.name = IF p.items = <<>> THEN @ ELSE Item(p),
                                   !.status = IF p.status = None THEN @ ELSE p.status]
<1>3. /\ scene' = scene /\ ids' = ids /\ categories' = categories /\ services' = services
      /\ offers' = offers /\ lounges' = lounges /\ served' = served /\ told' = told
      /\ claimed' = IF p.status = "implemented" THEN claimed \cup {p.id} ELSE claimed
      /\ suggestions' = (suggestions \ WithId(suggestions, p.id))
                          \cup {Changed(s) : s \in WithId(suggestions, p.id)}
      /\ Finish(o)
  BY <1>1 DEF WriteSuggestion
<1>4. ASSUME NEW t \in suggestions'
      PROVE  t \in Suggestion /\ t.id \in 1..ids /\ (t.status = "implemented" => t.id \in served \cup claimed')
  <2>1. CASE t \in suggestions
    <3>1. t.status = "implemented" => t.id \in served \cup claimed
      BY <2>1 DEF Inv, ServicesInv, ServiceRows, SuggestionIsOffered
    <3> QED
      BY <1>3, <2>1, <3>1, Given
  <2>2. CASE \E s \in WithId(suggestions, p.id) : t = Changed(s)
    <3>1. PICK s \in suggestions : s.id = p.id /\ t = Changed(s)
      BY <2>2 DEF WithId
    <3>2. PICK name, status : /\ name = IF p.items = <<>> THEN s.name ELSE Item(p)
                              /\ status = IF p.status = None THEN s.status ELSE p.status
      OBVIOUS
    <3>3. s \in Suggestion /\ (s.status = "implemented" => s.id \in served \cup claimed)
      BY Given DEF Inv, ServicesInv, ServiceRows, SuggestionIsOffered
    <3>4. name \in Names /\ status \in Statuses
      BY <1>2, <1>a, <3>2, <3>3 DEF Suggestion
    <3>5. t = [s EXCEPT !.name = name, !.status = status]
      BY <3>1, <3>2
    <3>6. t \in Suggestion /\ t.id = p.id /\ t.status = status
      BY <3>1, <3>3, <3>4, <3>5 DEF Suggestion
    <3>7. status = "implemented" => p.id \in served \cup claimed'
      BY <1>3, <3>1, <3>2, <3>3
    <3> QED
      BY <1>2, <3>6, <3>7
  <2> QED
    BY <1>3, <2>1, <2>2
<1> HIDE DEF Changed
<1>5. served \cup claimed' \subseteq 1..ids
  BY <1>2, <1>3 DEF Inv, ServicesInv, ServiceRows, ServicesTypeOK
<1>6. ServicesTypeOK'
  BY <1>3, <1>4, <1>5 DEF Inv, ServicesInv, ServiceRows, ServicesTypeOK
<1>7. SuggestionIsOffered'
  BY <1>3, <1>4 DEF Inv, ServicesInv, ServiceRows, SuggestionIsOffered
<1>8. (\A s \in services \cup offers \cup suggestions : s.id \in 1..ids)'
  BY <1>3, <1>4, Given
<1>9. ServiceRows' /\ UNCHANGED <<scene, ids, served>> /\ services' \subseteq services
  BY <1>3, <1>6, <1>7, <1>8 DEF ServiceRows
<1> QED
  BY <1>3, <1>9, ServiceEnds

LEMMA SuggestionMarked ==
  ASSUME Inv, NEW o \in Ops, MarkSuggestion(o), UNCHANGED <<productVars, extraVars>>
  PROVE  Inv'
<1>1. PICK p \in Op : p = op[o] /\ ServiceFit(p) /\ ServiceGood(p, ids, served, services)
  BY InSlot
<1>2. /\ p.kind = "moderate" /\ p.at = "mark" /\ p.status \in Statuses \cup {None} /\ p.id \in 1..ids
      /\ p.status = "implemented" => p.id \in served
  BY <1>1 DEF MarkSuggestion, ServiceFit, ServiceGood
<1> DEFINE Changed(s) == [s EXCEPT !.status = IF p.status = None THEN @ ELSE p.status]
<1>a. PICK q : q = [p EXCEPT !.at = "tell"]
  OBVIOUS
<1>b. "tell" \in Steps
  BY DEF Steps
<1>c. q \in Op /\ q.at = "tell" /\ q.n = p.n /\ Carries(q, p)
  BY <1>a, <1>b, Advanced
<1>d. (IF p.status = "implemented" THEN ImplementSteps.mark ELSE "tell") = "tell"
  BY DEF ImplementSteps
<1>3. /\ scene' = scene /\ ids' = ids /\ categories' = categories /\ services' = services
      /\ offers' = offers /\ lounges' = lounges /\ served' = served /\ told' = told
      /\ claimed' = claimed /\ Set(o, q)
      /\ suggestions' = (suggestions \ WithId(suggestions, p.id))
                          \cup {Changed(s) : s \in WithId(suggestions, p.id)}
  BY <1>1, <1>a, <1>d DEF MarkSuggestion
<1>4. ASSUME NEW t \in suggestions'
      PROVE  t \in Suggestion /\ t.id \in 1..ids /\ (t.status = "implemented" => t.id \in served \cup claimed)
  <2>1. CASE t \in suggestions
    BY <2>1, Given DEF Inv, ServicesInv, ServiceRows, SuggestionIsOffered
  <2>2. CASE \E s \in WithId(suggestions, p.id) : t = Changed(s)
    <3>1. PICK s \in suggestions : s.id = p.id /\ t = Changed(s)
      BY <2>2 DEF WithId
    <3>2. PICK status : status = IF p.status = None THEN s.status ELSE p.status
      OBVIOUS
    <3>3. s \in Suggestion /\ (s.status = "implemented" => s.id \in served \cup claimed)
      BY Given DEF Inv, ServicesInv, ServiceRows, SuggestionIsOffered
    <3>4. status \in Statuses
      BY <1>2, <3>2, <3>3 DEF Suggestion
    <3>5. t = [s EXCEPT !.status = status]
      BY <3>1, <3>2
    <3>6. t \in Suggestion /\ t.id = p.id /\ t.status = status
      BY <3>1, <3>3, <3>4, <3>5 DEF Suggestion
    <3>7. status = "implemented" => p.id \in served \cup claimed
      BY <1>2, <3>1, <3>2, <3>3
    <3> QED
      BY <1>2, <3>6, <3>7
  <2> QED
    BY <1>3, <2>1, <2>2
<1> HIDE DEF Changed
<1>6. ServicesTypeOK'
  BY <1>3, <1>4 DEF Inv, ServicesInv, ServiceRows, ServicesTypeOK
<1>7. SuggestionIsOffered'
  BY <1>3, <1>4 DEF Inv, ServicesInv, ServiceRows, SuggestionIsOffered
<1>8. (\A s \in services \cup offers \cup suggestions : s.id \in 1..ids)'
  BY <1>3, <1>4, Given
<1>9. ServiceRows'
  BY <1>6, <1>7, <1>8 DEF ServiceRows
<1>10. ServiceFit(q) /\ q.kind \in ServiceRequests \cup {"none"}
  BY <1>1, <1>2, <1>c DEF Carries, ServiceFit, ServiceRequests
<1>11. ServiceGood(q, ids', served', services')
  BY <1>2, <1>3, <1>c DEF Carries, ServiceGood
<1>12. Moves(o, q)
  BY <1>3, <1>c, Sets DEF Inv
<1>13. ids' \in Nat /\ ids <= ids'
  <2>1. ids \in Nat
    BY Given
  <2> QED
    BY <1>3, <2>1
<1>14. served \subseteq served' /\ \A s \in services' : s \in services
  BY <1>3
<1> QED
  BY <1>3, <1>9, <1>10, <1>11, <1>12, <1>13, <1>14, <1>c, ServiceStepKeeps

LEMMA SuggestionTold ==
  ASSUME Inv, NEW o \in Ops, TellSuggestion(o), UNCHANGED <<productVars, extraVars>>
  PROVE  Inv'
<1>1. PICK p \in Op : p = op[o] /\ ServiceFit(p) /\ ServiceGood(p, ids, served, services)
  BY InSlot
<1>2. /\ p.kind \in {"suggest", "moderate"} /\ p.id \in Nat
      /\ p.status = "implemented" => p.id \in served
  BY <1>1 DEF TellSuggestion, ServiceGood, Op
<1>3. /\ scene' = scene /\ ids' = ids /\ categories' = categories /\ services' = services
      /\ offers' = offers /\ suggestions' = suggestions /\ lounges' = lounges /\ served' = served
      /\ claimed' = claimed /\ Finish(o)
      /\ told' = told \/ (told' = told \cup {<<p.id, p.status>>}
                          /\ p.status \in {"new", "implemented", "rejected"})
  BY <1>1 DEF TellSuggestion
<1>4. told' \subseteq Nat \X (Statuses \cup {"new"})
  BY <1>2, <1>3 DEF Inv, ServicesInv, ServiceRows, ServicesTypeOK, Statuses
<1>5. \A t \in told' : t[2] = "implemented" => t[1] \in served
  BY <1>2, <1>3 DEF Inv, ServicesInv, ServiceRows, SuggestionIsOffered
<1>6. ServicesTypeOK'
  BY <1>3, <1>4 DEF Inv, ServicesInv, ServiceRows, ServicesTypeOK
<1>7. ServiceRows' /\ UNCHANGED <<scene, ids, served>> /\ services' \subseteq services
  BY <1>3, <1>5, <1>6 DEF Inv, ServicesInv, ServiceRows, SuggestionIsOffered
<1> QED
  BY <1>3, <1>7, ServiceEnds

LEMMA ServicesStepKeeps ==
  ASSUME Inv, NEW o \in Ops, ServicesStep(o), UNCHANGED <<productVars, extraVars>>
  PROVE  Inv'
BY TitleLookup, CategoryStored, CategoryDropped, ExactLookup, SimilarLookup, ServiceInserted,
   ServiceWritten, OfferLookup, OfferInserted, ToggleWritten, PendingLookup, SuggestionInserted,
   SuggestionWritten, CategoryLookup, SuggestionMarked, SuggestionTold
   DEF ServicesStep

-----------------------------------------------------------------------------
\* The services: requests of one step.

LEMMA ServicesAlone ==
  ASSUME Inv, UNCHANGED requestVars, UNCHANGED <<productVars, extraVars>>, served' = served,
         services' \subseteq services, ServiceRows'
  PROVE  Inv'
<1>1. scene' = scene /\ ids' = ids /\ op' = op
  BY DEF requestVars
<1>2. Typed'
  BY <1>1 DEF Inv, Typed
<1>3. ASSUME NEW o \in Ops PROVE ServiceFit(op'[o]) /\ ServiceGood(op'[o], ids', served', services')
  <2>1. ServiceFit(op[o]) /\ ServiceGood(op[o], ids, served, services)
    BY InSlot
  <2> QED
    BY <1>1, <2>1 DEF ServiceGood
<1>4. (\A o \in Ops : ServiceFit(op[o]) /\ ServiceGood(op[o], ids, served, services))'
  BY <1>3
<1>5. ServicesInv'
  BY <1>4 DEF ServicesInv
<1>6. /\ productCategories' = productCategories /\ products' = products
      /\ categorySuggestions' = categorySuggestions /\ built' = built /\ answered' = answered
      /\ extras' = extras /\ adopted' = adopted /\ raced' = raced
  BY DEF productVars, extraVars
<1>7. ProductInv'
  BY <1>1, <1>6 DEF Inv, ProductInv, ProductRows, ProductTypeOK, SuggestionBecameCategory
<1>8. ExtrasInv'
  BY <1>1, <1>6 DEF Inv, ExtrasInv, ExtraRows, ExtrasTypeOK, FreeCostsNothing
<1> QED
  BY <1>2, <1>5, <1>7, <1>8 DEF Inv

LEMMA ServiceDeleted ==
  ASSUME Inv, NEW s \in services, DeleteService(s), UNCHANGED <<productVars, extraVars>>
  PROVE  Inv'
<1>1. /\ UNCHANGED requestVars /\ ids' = ids /\ services' \subseteq services /\ categories' = categories
      /\ offers' = offers /\ suggestions' = suggestions /\ lounges' = lounges /\ served' = served
      /\ claimed' = claimed /\ told' = told
  BY DEF DeleteService, requestVars
<1>2. ServicesTypeOK'
  BY <1>1 DEF Inv, ServicesInv, ServiceRows, ServicesTypeOK
<1>3. ServiceRows'
  BY <1>1, <1>2 DEF Inv, ServicesInv, ServiceRows, SuggestionIsOffered
<1> QED
  BY <1>1, <1>3, ServicesAlone

LEMMA OfferUpdated ==
  ASSUME Inv, NEW f \in offers, NEW i \in ServiceIds, NEW a \in BOOLEAN, UpdateLoungeService(f, i, a),
         UNCHANGED <<productVars, extraVars>>
  PROVE  Inv'
<1>1. PICK x : x = [f EXCEPT !.service = i, !.active = a]
  OBVIOUS
<1>2. /\ UNCHANGED requestVars /\ ids' = ids /\ services' = services /\ categories' = categories
      /\ suggestions' = suggestions /\ lounges' = lounges /\ served' = served
      /\ claimed' = claimed /\ told' = told /\ offers' = Put(offers, x) /\ InsertableOffer(x)
  BY <1>1 DEF UpdateLoungeService, requestVars
<1>3. i \in Nat /\ f \in Offer /\ f.id \in 1..ids
  BY Given DEF ServiceIds, Service
<1>4. x \in Offer /\ x.id = f.id
  BY <1>1, <1>3 DEF Offer
<1>5. offers' = (offers \ WithId(offers, x.id)) \cup {x}
  BY <1>2 DEF Put
<1>6. \A g \in offers \ WithId(offers, x.id) : <<g.lounge, g.service>> # <<x.lounge, x.service>>
  BY <1>2 DEF InsertableOffer
<1>7. /\ offers' \subseteq Offer
      /\ \A g, h \in offers' : <<g.lounge, g.service>> = <<h.lounge, h.service>> => g = h
  BY <1>4, <1>5, <1>6, Given DEF Inv, ServicesInv, ServiceRows, ServicesTypeOK
<1>8. ServicesTypeOK'
  BY <1>2, <1>7 DEF Inv, ServicesInv, ServiceRows, ServicesTypeOK
<1>9. \A g \in offers' : g.id \in 1..ids
  BY <1>3, <1>4, <1>5, Given
<1>10. ServiceRows' /\ services' \subseteq services
  BY <1>2, <1>8, <1>9 DEF Inv, ServicesInv, ServiceRows, SuggestionIsOffered
<1> QED
  BY <1>2, <1>10, ServicesAlone

LEMMA OfferDeleted ==
  ASSUME Inv, NEW f \in offers, DeleteLoungeService(f), UNCHANGED <<productVars, extraVars>>
  PROVE  Inv'
<1>1. /\ UNCHANGED requestVars /\ ids' = ids /\ services' = services /\ categories' = categories
      /\ offers' \subseteq offers /\ suggestions' = suggestions /\ lounges' = lounges /\ served' = served
      /\ claimed' = claimed /\ told' = told
  BY DEF DeleteLoungeService, requestVars
<1>2. ServicesTypeOK'
  BY <1>1 DEF Inv, ServicesInv, ServiceRows, ServicesTypeOK
<1>3. ServiceRows' /\ services' \subseteq services
  BY <1>1, <1>2 DEF Inv, ServicesInv, ServiceRows, SuggestionIsOffered
<1> QED
  BY <1>1, <1>3, ServicesAlone

LEMMA SuggestionDeleted ==
  ASSUME Inv, NEW s \in suggestions, DeleteServiceSuggestion(s), UNCHANGED <<productVars, extraVars>>
  PROVE  Inv'
<1>1. /\ UNCHANGED requestVars /\ ids' = ids /\ services' = services /\ categories' = categories
      /\ offers' = offers /\ suggestions' \subseteq suggestions /\ lounges' = lounges /\ served' = served
      /\ claimed' = claimed /\ told' = told
  BY DEF DeleteServiceSuggestion, requestVars
<1>2. ServicesTypeOK'
  BY <1>1 DEF Inv, ServicesInv, ServiceRows, ServicesTypeOK
<1>3. ServiceRows' /\ services' \subseteq services
  BY <1>1, <1>2 DEF Inv, ServicesInv, ServiceRows, SuggestionIsOffered
<1> QED
  BY <1>1, <1>3, ServicesAlone

LEMMA LoungeGone ==
  ASSUME Inv, NEW l \in lounges, LoungeDeleted(l), UNCHANGED <<productVars, extraVars>>
  PROVE  Inv'
<1>1. /\ UNCHANGED requestVars /\ ids' = ids /\ services' = services /\ categories' = categories
      /\ offers' = offers /\ suggestions' = suggestions /\ lounges' \subseteq lounges /\ served' = served
      /\ claimed' = claimed /\ told' = told
  BY DEF LoungeDeleted, requestVars
<1>2. ServicesTypeOK'
  BY <1>1 DEF Inv, ServicesInv, ServiceRows, ServicesTypeOK
<1>3. ServiceRows' /\ services' \subseteq services
  BY <1>1, <1>2 DEF Inv, ServicesInv, ServiceRows, SuggestionIsOffered
<1> QED
  BY <1>1, <1>3, ServicesAlone

LEMMA ServicesKeep ==
  ASSUME Inv, ServicesNext, UNCHANGED <<productVars, extraVars>>
  PROVE  Inv'
BY ServicesBegin, ServicesStepKeeps, ServiceDeleted, OfferUpdated, OfferDeleted, SuggestionDeleted,
   LoungeGone DEF ServicesNext

-----------------------------------------------------------------------------
\* The product categories: requests that begin.

LEMMA ProductGiven ==
  ASSUME Inv
  PROVE  /\ scene.titles \subseteq Titles /\ ids \in Nat
         /\ productCategories \subseteq ProductCategory /\ products \subseteq Product
         /\ categorySuggestions \subseteq CategorySuggestion
BY CatalogAssumption DEF Inv, Typed, ProductInv, ProductRows, ProductTypeOK

LEMMA ProductBegins ==
  ASSUME Inv, NEW o \in Ops, NEW kind \in Kinds \cap ProductRequests, NEW p \in Op, Begin(o, kind, p),
         UNCHANGED <<scene, ids, productVars>>, UNCHANGED <<servicesVars, extraVars>>,
         \A q \in Op : q.kind = kind /\ Prepared(q, p) => ProductFit(q) /\ ProductGood(q, built, products)
  PROVE  Inv'
<1>1. PICK q \in Op : Moves(o, q) /\ q.kind = kind /\ Prepared(q, p)
  BY Starts DEF Inv
<1>2. UNCHANGED Rest
  BY DEF Rest
<1> QED
  BY <1>1, <1>2, ProductOnward

LEMMA ProductCategoryCreation ==
  ASSUME Inv, NEW o \in Ops, NEW t \in scene.titles, CreateProductCategory(o, t),
         UNCHANGED <<servicesVars, extraVars>>
  PROVE  Inv'
<1>1. PICK p : p = [NoOp EXCEPT !.at = "title", !.items = <<t>>]
  OBVIOUS
<1>2. t \in Titles /\ <<t>> \in Seq(Titles) /\ Len(<<t>>) = 1
  BY ProductGiven
<1>3. p \in Op /\ p.items = <<t>>
  BY <1>1, <1>2, NoOpFields DEF Op, Steps
<1>4. "product category" \in Kinds \cap ProductRequests
  BY DEF Kinds, ProductRequests
<1>5. ASSUME NEW q \in Op, q.kind = "product category", Prepared(q, p)
      PROVE  ProductFit(q) /\ ProductGood(q, built, products)
  BY <1>2, <1>3, <1>5 DEF Prepared, ProductFit, ProductGood, Titled
<1> QED
  BY <1>1, <1>3, <1>4, <1>5, ProductBegins DEF CreateProductCategory

LEMMA ProductCategoryUpdate ==
  ASSUME Inv, NEW o \in Ops, NEW c \in productCategories, NEW t \in scene.titles,
         UpdateProductCategory(o, c, t), UNCHANGED <<servicesVars, extraVars>>
  PROVE  Inv'
<1>1. PICK p : p = [NoOp EXCEPT !.at = "title", !.id = c.id, !.items = <<t>>]
  OBVIOUS
<1>2. t \in Titles /\ <<t>> \in Seq(Titles) /\ Len(<<t>>) = 1 /\ c.id \in Nat
  BY ProductGiven DEF ProductCategory
<1>3. p \in Op /\ p.items = <<t>>
  BY <1>1, <1>2, NoOpFields DEF Op, Steps
<1>4. "retitle product category" \in Kinds \cap ProductRequests
  BY DEF Kinds, ProductRequests
<1>5. ASSUME NEW q \in Op, q.kind = "retitle product category", Prepared(q, p)
      PROVE  ProductFit(q) /\ ProductGood(q, built, products)
  BY <1>2, <1>3, <1>5 DEF Prepared, ProductFit, ProductGood, Titled
<1> QED
  BY <1>1, <1>3, <1>4, <1>5, ProductBegins DEF UpdateProductCategory

LEMMA ProductCategoryDeletion ==
  ASSUME Inv, NEW o \in Ops, NEW c \in productCategories, DeleteProductCategory(o, c),
         UNCHANGED <<servicesVars, extraVars>>
  PROVE  Inv'
<1>1. PICK p : p = [NoOp EXCEPT !.at = "drop", !.id = c.id]
  OBVIOUS
<1>2. c.id \in Nat
  BY ProductGiven DEF ProductCategory
<1>3. p \in Op /\ p.at = "drop" /\ p.id = c.id
  BY <1>1, <1>2, NoOpFields DEF Op, Steps
<1>4. "drop product category" \in Kinds \cap ProductRequests
  BY DEF Kinds, ProductRequests
<1>5. ASSUME NEW q \in Op, q.kind = "drop product category", Prepared(q, p)
      PROVE  ProductFit(q) /\ ProductGood(q, built, products)
  <2>1. q.at = "drop" /\ q.id = c.id
    BY <1>3, <1>5 DEF Prepared
  <2>2. \A x \in products : x.category # c.id
    BY DEF DeleteProductCategory, ProductUsers
  <2> QED
    BY <1>5, <2>1, <2>2 DEF ProductFit, ProductGood
<1> QED
  BY <1>1, <1>3, <1>4, <1>5, ProductBegins DEF DeleteProductCategory

LEMMA ProductWriting ==
  ASSUME Inv, NEW o \in Ops, NEW kind \in {"product", "move product"}, NEW x \in Nat,
         NEW c \in productCategories, WriteProductIn(o, kind, x, c), UNCHANGED <<servicesVars, extraVars>>
  PROVE  Inv'
<1>1. PICK p : p = [NoOp EXCEPT !.at = "product", !.id = x, !.category = c.id]
  OBVIOUS
<1>2. c.id \in Nat
  BY ProductGiven DEF ProductCategory
<1>3. p \in Op
  BY <1>1, <1>2, NoOpFields DEF Op, Steps
<1>4. kind \in Kinds \cap ProductRequests
  BY DEF Kinds, ProductRequests
<1>5. ASSUME NEW q \in Op, q.kind = kind, Prepared(q, p)
      PROVE  ProductFit(q) /\ ProductGood(q, built, products)
  BY <1>5 DEF ProductFit, ProductGood
<1> QED
  BY <1>1, <1>3, <1>4, <1>5, ProductBegins DEF WriteProductIn

LEMMA CategorySuggesting ==
  ASSUME Inv, NEW o \in Ops, NEW u \in Users, NEW t \in scene.titles, SuggestCategory(o, u, t),
         UNCHANGED <<servicesVars, extraVars>>
  PROVE  Inv'
<1>1. PICK p : p = [NoOp EXCEPT !.at = "taken", !.lounge = u, !.items = <<t>>]
  OBVIOUS
<1>2. t \in Titles /\ <<t>> \in Seq(Titles) /\ Len(<<t>>) = 1
  BY ProductGiven
<1>3. p \in Op /\ p.items = <<t>> /\ p.lounge = u /\ p.at = "taken"
  BY <1>1, <1>2, NoOpFields DEF Op, Steps
<1>4. "suggest category" \in Kinds \cap ProductRequests
  BY DEF Kinds, ProductRequests
<1>5. ASSUME NEW q \in Op, q.kind = "suggest category", Prepared(q, p)
      PROVE  ProductFit(q) /\ ProductGood(q, built, products)
  BY <1>2, <1>3, <1>5 DEF Prepared, ProductFit, ProductGood, Titled
<1> QED
  BY <1>1, <1>3, <1>4, <1>5, ProductBegins DEF SuggestCategory

LEMMA CategorySuggestionUpdate ==
  ASSUME Inv, NEW o \in Ops, NEW s \in categorySuggestions, NEW t \in scene.titles,
         UpdateSuggestion(o, s, t), UNCHANGED <<servicesVars, extraVars>>
  PROVE  Inv'
<1>1. PICK p : p = [NoOp EXCEPT !.at = "write", !.id = s.id, !.items = <<t>>]
  OBVIOUS
<1>2. t \in Titles /\ <<t>> \in Seq(Titles) /\ Len(<<t>>) = 1 /\ s.id \in Nat
  BY ProductGiven DEF CategorySuggestion
<1>3. p \in Op /\ p.items = <<t>>
  BY <1>1, <1>2, NoOpFields DEF Op, Steps
<1>4. "retitle suggestion" \in Kinds \cap ProductRequests
  BY DEF Kinds, ProductRequests
<1>5. ASSUME NEW q \in Op, q.kind = "retitle suggestion", Prepared(q, p)
      PROVE  ProductFit(q) /\ ProductGood(q, built, products)
  BY <1>2, <1>3, <1>5 DEF Prepared, ProductFit, ProductGood, Titled
<1> QED
  BY <1>1, <1>3, <1>4, <1>5, ProductBegins DEF UpdateSuggestion

LEMMA CategoryModeration ==
  ASSUME Inv, NEW o \in Ops, NEW s \in categorySuggestions, NEW st \in Statuses,
         NEW t \in scene.titles \cup {None}, UpdateSuggestionStatus(o, s, st, t),
         UNCHANGED <<servicesVars, extraVars>>
  PROVE  Inv'
<1>0. PICK at, title : at = ModerateSteps(st) /\ title = IF t = None THEN s.title ELSE t
  OBVIOUS
<1>1. PICK p : p = [NoOp EXCEPT !.at = at, !.id = s.id, !.status = st, !.items = <<title>>]
  OBVIOUS
<1>2. title \in Titles /\ s.id \in Nat /\ at \in Steps /\ (st = "implemented" => at = "title")
  BY <1>0, ProductGiven DEF CategorySuggestion, ModerateSteps, Steps
<1>a. <<title>> \in Seq(Titles) /\ Len(<<title>>) = 1
  BY <1>2
<1>3. p \in Op /\ p.items = <<title>> /\ p.status = st /\ p.at = at
  BY <1>1, <1>2, <1>a, NoOpFields DEF Op
<1>4. "moderate category" \in Kinds \cap ProductRequests
  BY DEF Kinds, ProductRequests
<1>5. ASSUME NEW q \in Op, q.kind = "moderate category", Prepared(q, p)
      PROVE  ProductFit(q) /\ ProductGood(q, built, products)
  BY <1>2, <1>a, <1>3, <1>5 DEF Prepared, ProductFit, ProductGood, Titled
<1>6. Begin(o, "moderate category", p) /\ UNCHANGED <<scene, ids, productVars>>
  BY <1>0, <1>1 DEF UpdateSuggestionStatus
<1> QED
  BY <1>3, <1>4, <1>5, <1>6, ProductBegins

LEMMA ProductsBegin ==
  ASSUME Inv, NEW o \in Ops, UNCHANGED <<servicesVars, extraVars>>,
         ProductCategoryRequest(o) \/ ProductRequest(o) \/ CategorySuggestionRequest(o)
  PROVE  Inv'
<1>1. CASE ProductCategoryRequest(o)
  BY <1>1, ProductCategoryCreation, ProductCategoryUpdate, ProductCategoryDeletion
     DEF ProductCategoryRequest
<1>2. CASE ProductRequest(o)
  <2>1. 0 \in Nat /\ \A x \in products : x.id \in Nat
    BY ProductGiven DEF Product
  <2> QED
    BY <1>2, <2>1, ProductWriting DEF ProductRequest
<1>3. CASE CategorySuggestionRequest(o)
  BY <1>3, CategorySuggesting, CategorySuggestionUpdate, CategoryModeration
     DEF CategorySuggestionRequest
<1> QED
  BY <1>1, <1>2, <1>3

-----------------------------------------------------------------------------
\* The product categories: steps.

LEMMA TitleInHand == \A p : Titled(p) => p.items[1] \in Titles
<1>1. \A items \in Seq(Titles) : Len(items) = 1 => items[1] \in Titles
  OBVIOUS
<1> QED
  BY <1>1 DEF Titled

LEMMA ProductLooks ==
  ASSUME Inv, NEW o \in Ops, UNCHANGED <<scene, ids, productVars>>, UNCHANGED <<servicesVars, extraVars>>,
         NEW q \in Op, Finish(o) \/ Set(o, q), q.kind \in ProductRequests,
         ProductFit(q) /\ ProductGood(q, built, products)
  PROVE  Inv'
<1>1. UNCHANGED Rest
  BY DEF Rest
<1>2. CASE Finish(o)
  BY <1>1, <1>2, Ends
<1>3. CASE Set(o, q)
  <2>1. Moves(o, q)
    BY <1>3, Sets DEF Inv
  <2> QED
    BY <1>1, <2>1, ProductOnward
<1> QED
  BY <1>2, <1>3

LEMMA ProductTitleLookup ==
  ASSUME Inv, NEW o \in Ops, FindProductTitle(o), UNCHANGED <<servicesVars, extraVars>>
  PROVE  Inv'
<1>1. PICK p \in Op : p = op[o] /\ ProductFit(p) /\ ProductGood(p, built, products)
  BY InSlot
<1>2. PICK q : q = [p EXCEPT !.at = "slug"]
  OBVIOUS
<1>3. "slug" \in Steps
  BY DEF Steps
<1>4. q \in Op /\ q.at = "slug" /\ q.n = p.n /\ Carries(q, p)
  BY <1>2, <1>3, Advanced
<1>5. p.kind \in TitleKinds /\ (Finish(o) \/ Set(o, q)) /\ UNCHANGED <<scene, ids, productVars>>
  BY <1>1, <1>2 DEF FindProductTitle
<1>6. ProductFit(q) /\ ProductGood(q, built, products) /\ q.kind \in ProductRequests
  BY <1>1, <1>4, <1>5 DEF Carries, ProductFit, ProductGood, ProductRequests, TitleKinds, Titled
<1> QED
  BY <1>4, <1>5, <1>6, ProductLooks

LEMMA SlugProbed ==
  ASSUME Inv, NEW o \in Ops, ProbeSlug(o), UNCHANGED <<servicesVars, extraVars>>
  PROVE  Inv'
<1>1. PICK p \in Op : p = op[o] /\ ProductFit(p) /\ ProductGood(p, built, products)
  BY InSlot
<1>2. PICK q, r : q = [p EXCEPT !.at = "store"] /\ r = [p EXCEPT !.n = @ + 1]
  OBVIOUS
<1>3. "store" \in Steps
  BY DEF Steps
<1>4. q \in Op /\ q.at = "store" /\ q.n = p.n /\ Carries(q, p)
  BY <1>2, <1>3, Advanced
<1>5. r \in Op /\ r.at = p.at /\ r.n = p.n + 1 /\ Carries(r, p)
  BY <1>2, Counted
<1>6. p.kind \in TitleKinds /\ p.at = "slug" /\ (Set(o, r) \/ Set(o, q)) /\ UNCHANGED <<scene, ids, productVars>>
  BY <1>1, <1>2 DEF ProbeSlug
<1>7. ProductFit(q) /\ ProductGood(q, built, products) /\ q.kind \in ProductRequests
  BY <1>1, <1>4, <1>6 DEF Carries, ProductFit, ProductGood, ProductRequests, TitleKinds, Titled
<1>8. ProductFit(r) /\ ProductGood(r, built, products) /\ r.kind \in ProductRequests
  BY <1>1, <1>5, <1>6 DEF Carries, ProductFit, ProductGood, ProductRequests, TitleKinds, Titled
<1> QED
  BY <1>4, <1>5, <1>6, <1>7, <1>8, ProductLooks

LEMMA ProductCategoryStored ==
  ASSUME Inv, NEW o \in Ops, StoreProductCategory(o), UNCHANGED <<servicesVars, extraVars>>
  PROVE  Inv'
<1>1. PICK p \in Op : p = op[o] /\ ProductFit(p)
  BY InSlot
<1>2. p.at = "store" /\ p.kind \in TitleKinds /\ Titled(p)
  BY <1>1 DEF StoreProductCategory, TitleKinds, ProductFit
<1>3. p.items[1] \in Titles /\ p.n \in Nat /\ p.id \in Nat /\ ids \in Nat
  BY <1>2, TitleInHand, ProductGiven DEF Op
<1>4. PICK i : i = IF Rewritten(p) = 0 THEN ids + 1 ELSE p.id
  OBVIOUS
<1>5. PICK x : x = [id |-> i, title |-> p.items[1], slug |-> <<Base[p.items[1]], p.n>>]
  OBVIOUS
<1>6. i \in Nat /\ x \in ProductCategory /\ x.id = i
  BY <1>3, <1>4, <1>5 DEF ProductCategory
<1>7. CASE Finish(o) /\ UNCHANGED <<productCategories, ids, built>>
  <2>1. UNCHANGED Rest
    BY <1>7 DEF Rest, StoreProductCategory, productVars
  <2> QED
    BY <1>7, <2>1, Ends
<1>a. PICK q1 : q1 = [p EXCEPT !.at = "mark", !.made = ids + 1]
  OBVIOUS
<1>8. ASSUME InsertableProductCategory(x), productCategories' = Put(productCategories, x),
             ids' = IF Rewritten(p) = 0 THEN ids + 1 ELSE ids,
             \/ /\ p.kind = "moderate category" /\ built' = built \cup {<<p.id, ids + 1>>}
                /\ Set(o, q1)
             \/ Finish(o) /\ built' = built
      PROVE  Inv'
  <2>a. ids' = ids + 1 \/ ids' = ids
    BY <1>8
  <2>b. built' = built \cup {<<p.id, ids + 1>>} \/ built' = built
    BY <1>8
  <2>c. ids + 1 \in Nat
    BY <1>3
  <2>1. ids' \in Nat /\ ids <= ids'
    BY <1>3, <2>a
  <2>2. productCategories' = (productCategories \ WithId(productCategories, x.id)) \cup {x}
    BY <1>8 DEF Put
  <2>3. \A c \in productCategories \ WithId(productCategories, x.id) : c.title # x.title /\ c.slug # x.slug
    BY <1>8 DEF InsertableProductCategory
  <2>4. /\ productCategories' \subseteq ProductCategory
        /\ \A c, d \in productCategories' : c.title = d.title \/ c.slug = d.slug => c = d
    BY <1>6, <2>2, <2>3 DEF Inv, ProductInv, ProductRows, ProductTypeOK
  <2>5. /\ products' = products /\ categorySuggestions' = categorySuggestions /\ answered' = answered
        /\ scene' = scene
    BY DEF StoreProductCategory
  <2>6. built \subseteq built' /\ built' \subseteq Nat \X Nat
    BY <1>3, <2>b, <2>c DEF Inv, ProductInv, ProductRows, ProductTypeOK
  <2>7. ProductTypeOK'
    BY <2>4, <2>5, <2>6 DEF Inv, ProductInv, ProductRows, ProductTypeOK
  <2>8. ProductRows'
    BY <2>5, <2>6, <2>7 DEF Inv, ProductInv, ProductRows, SuggestionBecameCategory
  <2>9. PICK q \in Op : /\ Set(o, q) /\ q.kind \in ProductRequests \cup {"none"} /\ ProductFit(q)
                        /\ ProductGood(q, built', products')
    <3>1. CASE Finish(o)
      BY <3>1, NothingCarried DEF Finish
    <3>2. CASE ~Finish(o)
      <4>a. PICK made \in Nat : made = ids + 1
        BY <1>3
      <4>1. PICK q : q = q1 /\ q = [p EXCEPT !.at = "mark", !.made = made]
        BY <1>a, <4>a
      <4>b. "mark" \in Steps
        BY DEF Steps
      <4>2. /\ q \in Op /\ q.at = "mark" /\ q.kind = p.kind /\ q.id = p.id /\ q.items = p.items
            /\ q.lounge = p.lounge /\ q.status = p.status /\ q.made = made
        BY <4>1, <4>b DEF Op
      <4>3. p.kind = "moderate category" /\ <<p.id, made>> \in built' /\ Set(o, q)
        BY <1>8, <3>2, <4>a, <4>1
      <4>4. ProductFit(q) /\ q.kind \in ProductRequests
        BY <1>1, <4>2, <4>3 DEF ProductFit, ProductRequests, Titled
      <4>5. ProductGood(q, built', products')
        BY <4>2, <4>3 DEF ProductGood
      <4> QED
        BY <4>2, <4>3, <4>4, <4>5
    <3> QED
      BY <3>1, <3>2
  <2>10. Moves(o, q) /\ \A y \in products' : y \in products
    BY <2>5, <2>9, Sets DEF Inv
  <2> QED
    BY <2>1, <2>5, <2>6, <2>8, <2>9, <2>10, ProductStepKeeps
<1> QED
  BY <1>1, <1>4, <1>5, <1>7, <1>8, <1>a DEF StoreProductCategory

\* A step that ends its request, and gives out no id.
LEMMA ProductEnds ==
  ASSUME Inv, NEW o \in Ops, Finish(o), UNCHANGED <<scene, ids, built>>,
         UNCHANGED <<servicesVars, extraVars>>, ProductRows', products' = products
  PROVE  Inv'
<1>1. PICK q \in Op : q = NoOp
  BY NothingCarried
<1>2. Moves(o, q)
  BY <1>1, Sets DEF Finish, Inv
<1>3. q.kind \in ProductRequests \cup {"none"} /\ ProductFit(q) /\ ProductGood(q, built', products')
  BY <1>1, NothingCarried
<1>4. ids \in Nat
  BY ProductGiven
<1>5. scene' = scene /\ ids' \in Nat /\ ids <= ids' /\ built \subseteq built'
  BY <1>4
<1> QED
  BY <1>2, <1>3, <1>5, ProductStepKeeps

LEMMA ProductCategoryDropped ==
  ASSUME Inv, NEW o \in Ops, DropProductCategory(o), UNCHANGED <<servicesVars, extraVars>>
  PROVE  Inv'
<1>1. /\ productCategories' \subseteq productCategories /\ Finish(o) /\ UNCHANGED <<scene, ids, built>>
      /\ products' = products /\ categorySuggestions' = categorySuggestions /\ built' = built
      /\ answered' = answered
  BY DEF DropProductCategory
<1>2. ProductTypeOK'
  BY <1>1 DEF Inv, ProductInv, ProductRows, ProductTypeOK
<1>3. ProductRows'
  BY <1>1, <1>2 DEF Inv, ProductInv, ProductRows, SuggestionBecameCategory
<1> QED
  BY <1>1, <1>3, ProductEnds

LEMMA ProductStored ==
  ASSUME Inv, NEW o \in Ops, StoreProduct(o), UNCHANGED <<servicesVars, extraVars>>
  PROVE  Inv'
<1>1. PICK p \in Op : p = op[o]
  BY InSlot
<1>2. p.id \in Nat /\ p.category \in Nat /\ ids \in Nat
  BY ProductGiven DEF Op
<1>3. PICK i \in Nat : i = IF p.kind = "product" THEN ids + 1 ELSE p.id
  BY <1>2
<1>4. PICK x : x = [id |-> i, category |-> p.category]
  OBVIOUS
<1>5. x \in Product /\ x.id = i /\ x.category = p.category
  BY <1>2, <1>4 DEF Product
<1>6. /\ ids' = IF p.kind = "product" THEN ids + 1 ELSE ids
      /\ products' = Put(products, x) /\ SetNoting(o, NoOp, p.category, i)
      /\ scene' = scene /\ productCategories' = productCategories
      /\ categorySuggestions' = categorySuggestions /\ built' = built /\ answered' = answered
  BY <1>1, <1>3, <1>4 DEF StoreProduct
<1>7. ids' \in Nat /\ ids <= ids' /\ built \subseteq built'
  BY <1>2, <1>6
<1>8. \A y \in products' : y = x \/ y \in products
  BY <1>6 DEF Put
<1>9. products' \subseteq Product
  BY <1>5, <1>8, ProductGiven
<1>10. ProductTypeOK'
  BY <1>6, <1>9 DEF Inv, ProductInv, ProductRows, ProductTypeOK
<1>11. ProductRows'
  BY <1>6, <1>10 DEF Inv, ProductInv, ProductRows, SuggestionBecameCategory
<1>12. PICK q \in Op : q = NoOp
  BY NothingCarried
<1>13. /\ Moves(o, q)
       /\ \A r \in Ops \ {o} : op[r].at = "drop" /\ op[r].id = p.category => i \in op'[r].late
  BY <1>6, <1>12, SetsNoting DEF Inv
<1>14. \A r \in Ops \ {o} : op[r].at = "drop" =>
         \A y \in products' : y.category = op[r].id => y \in products \/ y.id \in op'[r].late
  BY <1>5, <1>8, <1>13
<1>15. q.kind \in ProductRequests \cup {"none"} /\ ProductFit(q) /\ ProductGood(q, built', products')
  BY <1>12, NothingCarried
<1> QED
  BY <1>6, <1>7, <1>11, <1>13, <1>14, <1>15, ProductStepKeeps

LEMMA TakenLookup ==
  ASSUME Inv, NEW o \in Ops, FindTaken(o), UNCHANGED <<servicesVars, extraVars>>
  PROVE  Inv'
<1>1. PICK p \in Op : p = op[o] /\ ProductFit(p) /\ ProductGood(p, built, products)
  BY InSlot
<1>2. PICK q : q = [p EXCEPT !.at = "pending"]
  OBVIOUS
<1>3. "pending" \in Steps
  BY DEF Steps
<1>4. q \in Op /\ q.at = "pending" /\ q.n = p.n /\ Carries(q, p)
  BY <1>2, <1>3, Advanced
<1>5. p.kind = "suggest category" /\ (Finish(o) \/ Set(o, q)) /\ UNCHANGED <<scene, ids, productVars>>
  BY <1>1, <1>2 DEF FindTaken
<1>6. ProductFit(q) /\ ProductGood(q, built, products) /\ q.kind \in ProductRequests
  BY <1>1, <1>4, <1>5 DEF Carries, ProductFit, ProductGood, ProductRequests, Titled
<1> QED
  BY <1>4, <1>5, <1>6, ProductLooks

LEMMA PendingCategoryLookup ==
  ASSUME Inv, NEW o \in Ops, FindPendingCategory(o), UNCHANGED <<servicesVars, extraVars>>
  PROVE  Inv'
<1>1. PICK p \in Op : p = op[o] /\ ProductFit(p) /\ ProductGood(p, built, products)
  BY InSlot
<1>2. PICK q : q = [p EXCEPT !.at = "insert"]
  OBVIOUS
<1>3. "insert" \in Steps
  BY DEF Steps
<1>4. q \in Op /\ q.at = "insert" /\ q.n = p.n /\ Carries(q, p)
  BY <1>2, <1>3, Advanced
<1>5. p.kind = "suggest category" /\ (Finish(o) \/ Set(o, q)) /\ UNCHANGED <<scene, ids, productVars>>
  BY <1>1, <1>2 DEF FindPendingCategory
<1>6. ProductFit(q) /\ ProductGood(q, built, products) /\ q.kind \in ProductRequests
  BY <1>1, <1>4, <1>5 DEF Carries, ProductFit, ProductGood, ProductRequests, Titled
<1> QED
  BY <1>4, <1>5, <1>6, ProductLooks

LEMMA CategorySuggestionInserted ==
  ASSUME Inv, NEW o \in Ops, InsertCategorySuggestion(o), UNCHANGED <<servicesVars, extraVars>>
  PROVE  Inv'
<1>1. PICK p \in Op : p = op[o] /\ ProductFit(p)
  BY InSlot
<1>2. p.kind = "suggest category" /\ Titled(p) /\ p.lounge \in Users
  BY <1>1 DEF InsertCategorySuggestion, ProductFit
<1>3. p.items[1] \in Titles /\ ids \in Nat
  BY <1>2, TitleInHand, ProductGiven
<1>a. PICK i \in Nat : i = ids + 1
  BY <1>3
<1>4. PICK x : x = [id |-> i, by |-> p.lounge, title |-> p.items[1], status |-> "pending", category |-> 0]
  OBVIOUS
<1>5. x \in CategorySuggestion /\ x.status = "pending"
  BY <1>2, <1>3, <1>4 DEF CategorySuggestion, Statuses
<1>6. PICK q : q = [p EXCEPT !.at = "answer", !.id = i, !.status = "new"]
  OBVIOUS
<1>7. /\ categorySuggestions' = categorySuggestions \cup {x} /\ ids' = i /\ Set(o, q)
      /\ scene' = scene /\ productCategories' = productCategories /\ products' = products
      /\ built' = built /\ answered' = answered
  BY <1>1, <1>4, <1>6, <1>a DEF InsertCategorySuggestion
<1>8. ids' \in Nat /\ ids <= ids'
  BY <1>3, <1>7, <1>a
<1>9. ProductTypeOK'
  BY <1>5, <1>7 DEF Inv, ProductInv, ProductRows, ProductTypeOK
<1>10. ProductRows'
  BY <1>5, <1>7, <1>9 DEF Inv, ProductInv, ProductRows, SuggestionBecameCategory
<1>11. "answer" \in Steps
  BY DEF Steps
<1>12. /\ q \in Op /\ q.at = "answer" /\ q.kind = "suggest category" /\ q.items = p.items
       /\ q.lounge = p.lounge /\ q.status = "new"
  BY <1>2, <1>6, <1>11 DEF Op
<1>13. ProductFit(q) /\ ProductGood(q, built', products') /\ q.kind \in ProductRequests \cup {"none"}
  BY <1>2, <1>12 DEF ProductFit, ProductGood, ProductRequests, Titled
<1>14. Moves(o, q) /\ built \subseteq built' /\ \A y \in products' : y \in products
  BY <1>7, <1>12, Sets DEF Inv
<1> QED
  BY <1>7, <1>8, <1>10, <1>12, <1>13, <1>14, ProductStepKeeps

LEMMA CategorySuggestionRetitled ==
  ASSUME Inv, NEW o \in Ops, WriteSuggestionTitle(o), UNCHANGED <<servicesVars, extraVars>>
  PROVE  Inv'
<1>1. PICK p \in Op : p = op[o] /\ ProductFit(p)
  BY InSlot
<1>2. p.kind = "retitle suggestion" /\ Titled(p)
  BY <1>1 DEF WriteSuggestionTitle, ProductFit
<1>3. p.items[1] \in Titles
  BY <1>2, TitleInHand
<1>4. /\ categorySuggestions' =
           {IF s.id = p.id THEN [s EXCEPT !.title = p.items[1]] ELSE s : s \in categorySuggestions}
      /\ Finish(o) /\ UNCHANGED <<scene, ids, built>>
      /\ productCategories' = productCategories /\ products' = products
      /\ built' = built /\ answered' = answered
  BY <1>1 DEF WriteSuggestionTitle
<1>5. ASSUME NEW t \in categorySuggestions'
      PROVE  t \in CategorySuggestion /\ (t.status = "implemented" => <<t.id, t.category>> \in built)
  <2>1. PICK s \in categorySuggestions : t = IF s.id = p.id THEN [s EXCEPT !.title = p.items[1]] ELSE s
    BY <1>4
  <2>2. s \in CategorySuggestion /\ (s.status = "implemented" => <<s.id, s.category>> \in built)
    BY ProductGiven DEF Inv, ProductInv, ProductRows, SuggestionBecameCategory
  <2>3. t \in CategorySuggestion /\ t.status = s.status /\ t.id = s.id /\ t.category = s.category
    BY <1>3, <2>1, <2>2 DEF CategorySuggestion
  <2> QED
    BY <2>2, <2>3
<1>6. ProductTypeOK'
  BY <1>4, <1>5 DEF Inv, ProductInv, ProductRows, ProductTypeOK
<1>7. ProductRows'
  BY <1>4, <1>5, <1>6 DEF ProductRows, SuggestionBecameCategory
<1> QED
  BY <1>4, <1>7, ProductEnds

LEMMA CategorySuggestionMarked ==
  ASSUME Inv, NEW o \in Ops, MarkCategorySuggestion(o), UNCHANGED <<servicesVars, extraVars>>
  PROVE  Inv'
<1>1. PICK p \in Op : p = op[o] /\ ProductFit(p) /\ ProductGood(p, built, products)
  BY InSlot
<1>2. /\ p.kind = "moderate category" /\ p.at = "mark" /\ p.status \in Statuses /\ p.made \in Nat
      /\ p.status = "implemented" => <<p.id, p.made>> \in built
  BY <1>1 DEF MarkCategorySuggestion, ProductFit, ProductGood, Op
<1> DEFINE Marked(s) == IF p.status = "implemented"
                        THEN [s EXCEPT !.status = p.status, !.category = p.made]
                        ELSE [s EXCEPT !.status = p.status]
<1>3. PICK q : q = [p EXCEPT !.at = "answer"]
  OBVIOUS
<1>a. "answer" \in Steps
  BY DEF Steps
<1>b. q \in Op /\ q.at = "answer" /\ q.n = p.n /\ Carries(q, p)
  BY <1>3, <1>a, Advanced
<1>4. /\ categorySuggestions' = {IF s.id = p.id THEN Marked(s) ELSE s : s \in categorySuggestions}
      /\ Set(o, q) /\ scene' = scene /\ ids' = ids
      /\ productCategories' = productCategories /\ products' = products
      /\ built' = built /\ answered' = answered
  BY <1>1, <1>3 DEF MarkCategorySuggestion
<1>5. ASSUME NEW t \in categorySuggestions'
      PROVE  t \in CategorySuggestion /\ (t.status = "implemented" => <<t.id, t.category>> \in built)
  <2>1. PICK s \in categorySuggestions : t = IF s.id = p.id THEN Marked(s) ELSE s
    BY <1>4
  <2>2. s \in CategorySuggestion /\ (s.status = "implemented" => <<s.id, s.category>> \in built)
    BY ProductGiven DEF Inv, ProductInv, ProductRows, SuggestionBecameCategory
  <2>3. CASE s.id # p.id
    BY <2>1, <2>2, <2>3
  <2>4. CASE s.id = p.id /\ p.status = "implemented"
    <3>1. t = [s EXCEPT !.status = p.status, !.category = p.made]
      BY <2>1, <2>4
    <3>2. t \in CategorySuggestion /\ t.id = p.id /\ t.category = p.made
      BY <1>2, <2>2, <2>4, <3>1 DEF CategorySuggestion
    <3> QED
      BY <1>2, <2>4, <3>2
  <2>5. CASE s.id = p.id /\ p.status # "implemented"
    <3>1. t = [s EXCEPT !.status = p.status]
      BY <2>1, <2>5
    <3>2. t \in CategorySuggestion /\ t.status = p.status
      BY <1>2, <2>2, <3>1 DEF CategorySuggestion
    <3> QED
      BY <2>5, <3>2
  <2> QED
    BY <2>3, <2>4, <2>5
<1> HIDE DEF Marked
<1>6. ProductTypeOK'
  BY <1>4, <1>5 DEF Inv, ProductInv, ProductRows, ProductTypeOK
<1>7. ProductRows'
  BY <1>4, <1>5, <1>6 DEF ProductRows, SuggestionBecameCategory
<1>8. ProductFit(q) /\ ProductGood(q, built', products') /\ q.kind \in ProductRequests \cup {"none"}
  BY <1>1, <1>2, <1>4, <1>b DEF Carries, ProductFit, ProductGood, ProductRequests, Titled
<1>9. Moves(o, q)
  BY <1>4, <1>b, Sets DEF Inv
<1>c. ids' \in Nat /\ ids <= ids'
  <2>1. ids \in Nat
    BY ProductGiven
  <2> QED
    BY <1>4, <2>1
<1>10. built \subseteq built' /\ \A y \in products' : y \in products
  BY <1>4
<1> QED
  BY <1>4, <1>7, <1>8, <1>9, <1>10, <1>b, <1>c, ProductStepKeeps

LEMMA SuggestionAnswered ==
  ASSUME Inv, NEW o \in Ops, AnswerSuggestion(o), UNCHANGED <<servicesVars, extraVars>>
  PROVE  Inv'
<1>1. PICK p \in Op : p = op[o] /\ ProductFit(p)
  BY InSlot
<1>2. p.status \in Statuses \cup {"new"} /\ p.id \in Nat
  BY <1>1 DEF AnswerSuggestion, ProductFit, Op
<1>3. /\ answered' \in {answered, answered \cup {<<p.id, "approved">>}}
         \/ (answered' = answered \cup {<<p.id, p.status>>} /\ p.status \notin {"pending", "implemented"})
      /\ Finish(o) /\ UNCHANGED <<scene, ids, built>>
      /\ productCategories' = productCategories /\ products' = products
      /\ categorySuggestions' = categorySuggestions /\ built' = built
  BY <1>1 DEF AnswerSuggestion
<1>4. answered \subseteq Nat \X {"new", "approved", "rejected"}
  BY DEF Inv, ProductInv, ProductRows, ProductTypeOK
<1>5. answered' \subseteq Nat \X {"new", "approved", "rejected"}
  BY <1>2, <1>3, <1>4 DEF Statuses
<1>6. ProductTypeOK'
  BY <1>3, <1>5 DEF Inv, ProductInv, ProductRows, ProductTypeOK
<1>7. ProductRows'
  BY <1>3, <1>6 DEF Inv, ProductInv, ProductRows, SuggestionBecameCategory
<1> QED
  BY <1>3, <1>7, ProductEnds

LEMMA CategorySuggestionDeleted ==
  ASSUME Inv, NEW s \in categorySuggestions, DeleteSuggestion(s), UNCHANGED <<servicesVars, extraVars>>
  PROVE  Inv'
<1>1. /\ scene' = scene /\ ids' = ids /\ op' = op /\ productCategories' = productCategories
      /\ products' = products /\ categorySuggestions' \subseteq categorySuggestions /\ built' = built
      /\ answered' = answered
  BY DEF DeleteSuggestion, requestVars
<1>2. /\ categories' = categories /\ services' = services /\ offers' = offers
      /\ suggestions' = suggestions /\ lounges' = lounges /\ served' = served /\ claimed' = claimed
      /\ told' = told /\ extras' = extras /\ adopted' = adopted /\ raced' = raced
  BY DEF servicesVars, extraVars
<1>3. Typed'
  BY <1>1 DEF Inv, Typed
<1>4. ProductInv'
  BY <1>1 DEF Inv, ProductInv, ProductRows, ProductTypeOK, SuggestionBecameCategory
<1>5. ServicesInv'
  BY <1>1, <1>2 DEF Inv, ServicesInv, ServiceRows, ServicesTypeOK, SuggestionIsOffered
<1>6. ExtrasInv'
  BY <1>1, <1>2 DEF Inv, ExtrasInv, ExtraRows, ExtrasTypeOK, FreeCostsNothing
<1> QED
  BY <1>3, <1>4, <1>5, <1>6 DEF Inv

LEMMA ProductsKeep ==
  ASSUME Inv, ProductNext, UNCHANGED <<servicesVars, extraVars>>
  PROVE  Inv'
<1>1. ASSUME NEW o \in Ops, ProductStep(o) PROVE Inv'
  BY <1>1, ProductTitleLookup, SlugProbed, ProductCategoryStored, ProductCategoryDropped, ProductStored,
     TakenLookup, PendingCategoryLookup, CategorySuggestionInserted, CategorySuggestionRetitled,
     CategorySuggestionMarked, SuggestionAnswered
     DEF ProductStep
<1> QED
  BY <1>1, ProductsBegin, CategorySuggestionDeleted DEF ProductNext

-----------------------------------------------------------------------------
\* The extras: requests that begin.

LEMMA ExtraGiven ==
  ASSUME Inv
  PROVE  /\ scene.names \subseteq Names /\ ids \in Nat
         /\ extras \subseteq Extra /\ adopted \subseteq Adopted /\ raced \subseteq Nat
         /\ \A x \in extras : x.id \in 1..ids
         /\ \A x, y \in extras : x.id = y.id => x = y
BY CatalogAssumption DEF Inv, Typed, ExtrasInv, ExtraRows, ExtrasTypeOK

LEMMA ExtraBegins ==
  ASSUME Inv, NEW o \in Ops, NEW kind \in (Kinds \cap ExtraRequests) \ {"update extra"}, NEW p \in Op,
         Begin(o, kind, p), UNCHANGED <<scene, ids, extraVars>>, UNCHANGED <<servicesVars, productVars>>,
         \A q \in Op : q.kind = kind /\ Prepared(q, p) => ExtraFit(q)
  PROVE  Inv'
<1>1. PICK q \in Op : Moves(o, q) /\ q.kind = kind /\ Prepared(q, p)
  BY Starts DEF Inv
<1>2. UNCHANGED Rest
  BY DEF Rest
<1>3. ExtraFit(q) /\ ExtraGood(q, ids, raced, extras) /\ q.kind # "update extra"
  BY <1>1 DEF ExtraGood
<1> QED
  BY <1>1, <1>2, <1>3, ExtraOnward

LEMMA ExtraCreation ==
  ASSUME Inv, NEW o \in Ops, NEW n \in scene.names, NEW free \in BOOLEAN, NEW cost \in {0, 1, Null},
         CreateExtra(o, n, free, cost), UNCHANGED <<servicesVars, productVars>>
  PROVE  Inv'
<1>0. PICK due : due = IF free THEN 0 ELSE cost
  OBVIOUS
<1>1. PICK p : p = [NoOp EXCEPT !.at = "exact", !.items = <<n>>, !.value = free, !.cost = due]
  OBVIOUS
<1>a. IF free THEN due = 0 ELSE due = 1
  BY <1>0 DEF CreateExtra, Priced
<1>2. n \in Names /\ <<n>> \in Seq(Names) /\ Len(<<n>>) = 1 /\ 1 \in 1..Len(<<n>>) /\ due \in {0, 1}
  BY <1>a, ExtraGiven
<1>3. p \in Op /\ p.items = <<n>> /\ p.n = 1 /\ p.value = free /\ p.cost = due
  BY <1>1, <1>2, NoOpFields DEF Op, Steps
<1>4. "extra" \in (Kinds \cap ExtraRequests) \ {"update extra"}
  BY DEF Kinds, ExtraRequests
<1>5. ASSUME NEW q \in Op, q.kind = "extra", Prepared(q, p)
      PROVE  ExtraFit(q)
  <2>1. q.items = <<n>> /\ q.n = 1 /\ q.value = free /\ q.cost = due
    BY <1>3, <1>5 DEF Prepared
  <2>2. Named(q)
    BY <1>2, <2>1 DEF Named
  <2>3. Fair(free, due)
    BY <1>a, 0 # 1 DEF Fair
  <2> QED
    BY <1>2, <1>5, <2>1, <2>2, <2>3 DEF ExtraFit
<1>6. Begin(o, "extra", p) /\ UNCHANGED <<scene, ids, extraVars>>
  BY <1>0, <1>1 DEF CreateExtra
<1> QED
  BY <1>3, <1>4, <1>5, <1>6, ExtraBegins

\* An update that is accepted, and what it will write.
Outcome(free, cost, stored, price, value, due) ==
  /\ free \in BOOLEAN \cup {None, Null} /\ cost \in {0, 1, None, Null}
  /\ stored \in BOOLEAN \cup {Null} /\ price \in {0, 1, Null} /\ Fair(stored, price)
  /\ Priced(MergedFree(free, stored), Merged(cost, price))
  /\ value = (IF free # TRUE /\ cost = 0 THEN TRUE ELSE free)
  /\ due = (IF free = TRUE THEN 0 ELSE cost)

\* What an update that is accepted will write: a free extra that costs nothing or a paid
\* one that costs something, if the extra was such.
LEMMA AcceptedUpdate ==
  ASSUME NEW free, NEW cost, NEW stored, NEW price, NEW value, NEW due,
         Outcome(free, cost, stored, price, value, due)
  PROVE  Fair(Merged(value, stored), Merged(due, price))
<1>0. /\ None # TRUE /\ None # FALSE /\ None # 0 /\ None # 1
      /\ Null # TRUE /\ Null # FALSE /\ Null # 0 /\ Null # 1 /\ Null # None
      /\ free \in BOOLEAN \cup {None, Null} /\ cost \in {0, 1, None, Null} /\ Fair(stored, price)
      /\ Priced(MergedFree(free, stored), Merged(cost, price))
      /\ value = (IF free # TRUE /\ cost = 0 THEN TRUE ELSE free)
      /\ due = (IF free = TRUE THEN 0 ELSE cost)
  BY CatalogAssumption DEF Outcome
<1>a. Fair(TRUE, 0)
  BY 1 # 0, Zenon DEF Fair
<1>b. ASSUME NEW f, f # TRUE PROVE Fair(f, 1)
  BY <1>b, Zenon DEF Fair
<1>1. CASE free = TRUE
  <2>1. value = TRUE /\ due = 0
    BY <1>0, <1>1
  <2>2. Merged(value, stored) = TRUE /\ Merged(due, price) = 0
    BY <1>0, <2>1 DEF Merged
  <2> QED
    BY <1>a, <2>2
<1>2. CASE free \in {FALSE, Null}
  <2>0. free # TRUE /\ free # None
    BY <1>0, <1>2
  <2>1. Merged(cost, price) = 1
    BY <1>0, <2>0 DEF Priced, MergedFree, Merged
  <2>2. cost # 0
    BY <1>0, <2>1 DEF Merged
  <2>3. value = free /\ due = cost
    BY <1>0, <2>0, <2>2
  <2>4. Merged(value, stored) = free /\ Merged(due, price) = 1
    BY <2>0, <2>1, <2>3 DEF Merged
  <2> QED
    BY <1>b, <2>0, <2>4
<1>3. CASE free = None /\ cost = 0
  <2>0. free # TRUE
    BY <1>0, <1>3
  <2>1. value = TRUE /\ due = 0
    BY <1>0, <1>3, <2>0
  <2>2. Merged(value, stored) = TRUE /\ Merged(due, price) = 0
    BY <1>0, <2>1 DEF Merged
  <2> QED
    BY <1>a, <2>2
<1>4. CASE free = None /\ cost = 1
  <2>0. free # TRUE
    BY <1>0, <1>4
  <2>a. cost # 0 /\ cost # None
    BY <1>0, <1>4
  <2>1. value = None /\ due = 1
    BY <1>0, <1>4, <2>0, <2>a
  <2>2. stored # TRUE
    BY <1>0, <1>4, <2>a DEF Priced, MergedFree, Merged
  <2>3. Merged(value, stored) = stored /\ Merged(due, price) = 1
    BY <1>0, <2>1 DEF Merged
  <2> QED
    BY <1>b, <2>2, <2>3
<1>5. CASE free = None /\ cost = Null
  <2>0. free # TRUE /\ cost # 0 /\ cost # None /\ cost # 1
    BY <1>0, <1>5
  <2>1. value = None /\ due = Null
    BY <1>0, <1>5, <2>0
  <2>2. stored = TRUE
    BY <1>0, <1>5, <2>0 DEF Priced, MergedFree, Merged
  <2>3. Merged(value, stored) = TRUE /\ Merged(due, price) = Null
    BY <1>0, <2>1, <2>2 DEF Merged
  <2> QED
    BY <1>0, <2>3, Zenon DEF Fair
<1>6. CASE free = None /\ cost = None
  <2>0. free # TRUE /\ cost # 0
    BY <1>0, <1>6
  <2>1. value = None /\ due = None
    BY <1>0, <1>6, <2>0
  <2>2. Merged(value, stored) = stored /\ Merged(due, price) = price
    BY <2>1 DEF Merged
  <2> QED
    BY <1>0, <2>2
<1> QED
  BY <1>0, <1>1, <1>2, <1>3, <1>4, <1>5, <1>6

LEMMA ExtraUpdate ==
  ASSUME Inv, NEW o \in Ops, NEW x \in extras, NEW n \in scene.names \cup {None},
         NEW free \in BOOLEAN \cup {None, Null}, NEW cost \in {0, 1, None, Null},
         UpdateExtra(o, x, n, free, cost), UNCHANGED <<servicesVars, productVars>>
  PROVE  Inv'
<1>0. PICK items, at, value, due :
        /\ items = (IF n = None THEN <<>> ELSE <<n>>)
        /\ at = (IF n = None THEN "write" ELSE "exact")
        /\ value = (IF free # TRUE /\ cost = 0 THEN TRUE ELSE free)
        /\ due = (IF free = TRUE THEN 0 ELSE cost)
  OBVIOUS
<1>1. PICK p : p = [NoOp EXCEPT !.at = at, !.id = x.id, !.items = items, !.value = value, !.cost = due]
  OBVIOUS
<1>2. /\ x \in Extra /\ x.id \in 1..ids /\ x.id \in Nat /\ at \in Steps
      /\ value \in BOOLEAN \cup {None, Null} /\ due \in {0, 1, None, Null}
  BY <1>0, ExtraGiven DEF Extra, Steps
<1>3. items \in Seq(Names) /\ (items = <<>> \/ 1 \in 1..Len(items))
  BY <1>0, NameOrNone
<1>4. p \in Op /\ p.id = x.id /\ p.items = items /\ p.n = 1 /\ p.value = value /\ p.cost = due
  BY <1>1, <1>2, <1>3, NoOpFields DEF Op
<1>5. "update extra" \in Kinds
  BY DEF Kinds
<1>6. Begin(o, "update extra", p)
  BY <1>0, <1>1 DEF UpdateExtra
<1>7. PICK q \in Op : Moves(o, q) /\ q.kind = "update extra" /\ Prepared(q, p)
  BY <1>4, <1>5, <1>6, Starts DEF Inv
<1>8. q.id = x.id /\ q.items = items /\ q.n = 1 /\ q.value = value /\ q.cost = due
  BY <1>4, <1>7 DEF Prepared
<1>9. /\ scene' = scene /\ ids' = ids /\ extras' = extras /\ adopted' = adopted
      /\ raced' = IF {r \in Ops : op[r].kind = "update extra" /\ op[r].id = x.id} # {}
                  THEN raced \cup {x.id} ELSE raced
  BY DEF UpdateExtra
<1>10. /\ raced \subseteq raced' /\ raced' \subseteq Nat
       /\ \A r \in Ops : op[r].kind = "update extra" /\ op[r].id = x.id => x.id \in raced'
  BY <1>2, <1>9, ExtraGiven
<1>11. ExtraRows'
  BY <1>9, <1>10 DEF Inv, ExtrasInv, ExtraRows, ExtrasTypeOK, FreeCostsNothing
<1>12. ExtraFit(q)
  BY <1>3, <1>7, <1>8 DEF ExtraFit, Named
<1>13. ExtraGood(q, ids', raced', extras')
  <2>1. ASSUME x.id \notin raced', NEW y \in extras', y.id = x.id
        PROVE  Fair(Merged(q.value, y.free), Merged(q.cost, y.cost))
    <3>1. y = x
      BY <1>9, <2>1, ExtraGiven
    <3>2. Fair(x.free, x.cost)
      BY <1>10, <2>1 DEF Inv, ExtrasInv, ExtraRows, FreeCostsNothing
    <3>3. x.free \in BOOLEAN \cup {Null} /\ x.cost \in {0, 1, Null}
      BY <1>2 DEF Extra
    <3>4. Priced(MergedFree(free, x.free), Merged(cost, x.cost))
      BY DEF UpdateExtra
    <3>5. Fair(Merged(value, x.free), Merged(due, x.cost))
      <4>1. PICK stored, price : stored = x.free /\ price = x.cost
        OBVIOUS
      <4>2. stored \in BOOLEAN \cup {Null} /\ price \in {0, 1, Null} /\ Fair(stored, price)
        BY <3>2, <3>3, <4>1
      <4>3. Outcome(free, cost, stored, price, value, due)
        BY <1>0, <3>4, <4>1, <4>2 DEF Outcome
      <4>4. Fair(Merged(value, stored), Merged(due, price))
        BY <4>3, AcceptedUpdate
      <4> QED
        BY <4>1, <4>4
    <3> QED
      BY <1>8, <3>1, <3>5
  <2>2. q.id \in 1..ids'
    BY <1>2, <1>8, <1>9
  <2> QED
    BY <1>8, <2>1, <2>2 DEF ExtraGood
<1>14. q.kind \in ExtraRequests \cup {"none"}
  BY <1>7 DEF ExtraRequests
<1>15. ids' \in Nat /\ ids <= ids'
  <2>1. ids \in Nat
    BY ExtraGiven
  <2>2. ids' \in Nat /\ ids' = ids
    BY <1>9, <2>1
  <2> QED
    BY <2>1, <2>2, SameIsNoLess
<1>16. \A r \in Ops \ {o} : op[r].kind = "update extra" /\ op[r].id \notin raced' =>
         \A y \in extras' : y.id = op[r].id => y \in extras
  BY <1>9
<1>17. \A r \in Ops \ {o} : op[r].kind = "update extra" /\ q.kind = "update extra" /\ op[r].id = q.id
         => q.id \in raced'
  BY <1>8, <1>10
<1> QED
  BY <1>7, <1>9, <1>10, <1>11, <1>12, <1>13, <1>14, <1>15, <1>16, <1>17, ExtraStepKeeps

LEMMA Adopting ==
  ASSUME Inv, NEW o \in Ops, NEW l \in Lounges, NEW x \in extras, NEW c \in {1, Null},
         AdoptExtra(o, l, x, c), UNCHANGED <<servicesVars, productVars>>
  PROVE  Inv'
<1>1. PICK p : p = [NoOp EXCEPT !.at = "existing", !.id = x.id, !.lounge = l, !.cost = c]
  OBVIOUS
<1>2. x.id \in Nat
  BY ExtraGiven DEF Extra
<1>3. p \in Op /\ p.lounge = l /\ p.cost = c
  BY <1>1, <1>2, NoOpFields DEF Op, Steps
<1>4. "adopt" \in (Kinds \cap ExtraRequests) \ {"update extra"}
  BY DEF Kinds, ExtraRequests
<1>5. ASSUME NEW q \in Op, q.kind = "adopt", Prepared(q, p)
      PROVE  ExtraFit(q)
  BY <1>3, <1>5 DEF Prepared, ExtraFit
<1>6. Begin(o, "adopt", p) /\ UNCHANGED <<scene, ids, extraVars>>
  BY <1>1 DEF AdoptExtra
<1> QED
  BY <1>3, <1>4, <1>5, <1>6, ExtraBegins

LEMMA AdoptedChange ==
  ASSUME Inv, NEW o \in Ops, NEW a \in adopted, NEW c \in {1, Null, None},
         ChangeAdopted(o, a, c), UNCHANGED <<servicesVars, productVars>>
  PROVE  Inv'
<1>0. PICK value \in BOOLEAN \cup {None} : value = IF c = None THEN ~a.active ELSE None
  OBVIOUS
<1>1. PICK p : p = [NoOp EXCEPT !.at = "write", !.id = a.id, !.cost = c, !.value = value]
  OBVIOUS
<1>2. a.id \in Nat
  BY ExtraGiven DEF Adopted
<1>3. p \in Op /\ p.value = value
  BY <1>1, <1>2, NoOpFields DEF Op, Steps
<1>4. "change adopted" \in (Kinds \cap ExtraRequests) \ {"update extra"}
  BY DEF Kinds, ExtraRequests
<1>5. ASSUME NEW q \in Op, q.kind = "change adopted", Prepared(q, p)
      PROVE  ExtraFit(q)
  BY <1>3, <1>5 DEF Prepared, ExtraFit
<1>6. Begin(o, "change adopted", p) /\ UNCHANGED <<scene, ids, extraVars>>
  BY <1>0, <1>1 DEF ChangeAdopted
<1> QED
  BY <1>3, <1>4, <1>5, <1>6, ExtraBegins

-----------------------------------------------------------------------------
\* The extras: steps.

LEMMA ExtraLooks ==
  ASSUME Inv, NEW o \in Ops, UNCHANGED <<scene, ids, extraVars>>, UNCHANGED <<servicesVars, productVars>>,
         NEW q \in Op, Finish(o) \/ Set(o, q), q.kind \in ExtraRequests, Carries(q, op[o]),
         ExtraFit(q)
  PROVE  Inv'
<1>1. UNCHANGED Rest
  BY DEF Rest
<1>2. CASE Finish(o)
  BY <1>1, <1>2, Ends
<1>3. CASE Set(o, q)
  <2>1. Moves(o, q)
    BY <1>3, Sets DEF Inv
  <2>2. ExtraGood(op[o], ids, raced, extras)
    BY InSlot
  <2>4. ExtraGood(q, ids, raced, extras)
    BY <2>2 DEF Carries, ExtraGood
  <2>5. \A r \in Ops \ {o} : op[r].kind = "update extra" /\ q.kind = "update extra" /\ op[r].id = q.id
          => q.id \in raced
    BY DEF Carries, Inv, ExtrasInv
  <2> QED
    BY <1>1, <2>1, <2>4, <2>5, ExtraOnward
<1> QED
  BY <1>2, <1>3

LEMMA ExtraLookup ==
  ASSUME Inv, NEW o \in Ops, FindExtra(o), UNCHANGED <<servicesVars, productVars>>
  PROVE  Inv'
<1>1. PICK p \in Op : p = op[o] /\ ExtraFit(p)
  BY InSlot
<1>2. PICK at \in Steps : at = IF p.kind = "extra" THEN "squeezed" ELSE "write"
  BY DEF Steps
<1>3. PICK q : q = [p EXCEPT !.at = at]
  OBVIOUS
<1>4. q \in Op /\ q.at = at /\ q.n = p.n /\ Carries(q, p)
  BY <1>3, Advanced
<1>5. /\ p.kind \in {"extra", "update extra"} /\ UNCHANGED <<scene, ids, extraVars>>
      /\ Finish(o) \/ Set(o, q)
  BY <1>1, <1>2, <1>3 DEF FindExtra
<1>6. q.kind \in ExtraRequests /\ Carries(q, op[o])
  BY <1>1, <1>4, <1>5 DEF Carries, ExtraRequests
<1>7. UNCHANGED Rest
  BY <1>5 DEF Rest
<1>8. CASE Finish(o)
  BY <1>7, <1>8, Ends
<1>9. CASE Set(o, q)
  <2>1. ExtraFit(q)
    BY <1>1, <1>4, <1>5 DEF Carries, ExtraFit, Named
  <2> QED
    BY <1>4, <1>5, <1>6, <1>9, <2>1, ExtraLooks
<1> QED
  BY <1>5, <1>8, <1>9

LEMMA SqueezedLookup ==
  ASSUME Inv, NEW o \in Ops, FindSqueezed(o), UNCHANGED <<servicesVars, productVars>>
  PROVE  Inv'
<1>1. PICK p \in Op : p = op[o] /\ ExtraFit(p)
  BY InSlot
<1>2. "insert" \in Steps
  BY DEF Steps
<1>3. PICK q : q = [p EXCEPT !.at = "insert"]
  OBVIOUS
<1>4. q \in Op /\ q.at = "insert" /\ q.n = p.n /\ Carries(q, p)
  BY <1>2, <1>3, Advanced
<1>5. p.kind = "extra" /\ UNCHANGED <<scene, ids, extraVars>> /\ (Finish(o) \/ Set(o, q))
  BY <1>1, <1>3 DEF FindSqueezed
<1>6. q.kind \in ExtraRequests /\ Carries(q, op[o])
  BY <1>1, <1>4, <1>5 DEF Carries, ExtraRequests
<1>7. ExtraFit(q)
  BY <1>1, <1>4, <1>5 DEF Carries, ExtraFit, Named
<1> QED
  BY <1>4, <1>5, <1>6, <1>7, ExtraLooks

LEMMA AdoptedLookup ==
  ASSUME Inv, NEW o \in Ops, FindAdopted(o), UNCHANGED <<servicesVars, productVars>>
  PROVE  Inv'
<1>1. PICK p \in Op : p = op[o] /\ ExtraFit(p)
  BY InSlot
<1>2. "insert" \in Steps
  BY DEF Steps
<1>3. PICK q : q = [p EXCEPT !.at = "insert"]
  OBVIOUS
<1>4. q \in Op /\ q.at = "insert" /\ q.n = p.n /\ Carries(q, p)
  BY <1>2, <1>3, Advanced
<1>5. p.kind = "adopt" /\ UNCHANGED <<scene, ids, extraVars>> /\ (Finish(o) \/ Set(o, q))
  BY <1>1, <1>3 DEF FindAdopted
<1>6. q.kind \in ExtraRequests /\ Carries(q, op[o])
  BY <1>1, <1>4, <1>5 DEF Carries, ExtraRequests
<1>7. ExtraFit(q)
  BY <1>1, <1>4, <1>5 DEF Carries, ExtraFit
<1> QED
  BY <1>4, <1>5, <1>6, <1>7, ExtraLooks

\* A step that ends its request: no extra that somebody else is updating may change.
LEMMA ExtraEnds ==
  ASSUME Inv, NEW o \in Ops, Finish(o), scene' = scene, ids' \in Nat, ids <= ids', raced' = raced,
         UNCHANGED <<servicesVars, productVars>>, ExtraRows',
         \A r \in Ops \ {o} : op[r].kind = "update extra" /\ op[r].id \notin raced =>
           \A x \in extras' : x.id = op[r].id => x \in extras
  PROVE  Inv'
<1>1. PICK q \in Op : q = NoOp
  BY NothingCarried
<1>2. Moves(o, q)
  BY <1>1, Sets DEF Finish, Inv
<1>3. q.kind \in ExtraRequests \cup {"none"} /\ ExtraFit(q) /\ ExtraGood(q, ids', raced', extras')
  BY <1>1, NothingCarried
<1>4. q.kind # "update extra"
  BY <1>1, NothingCarried
<1>5. raced \subseteq raced'
  OBVIOUS
<1> QED
  BY <1>2, <1>3, <1>4, <1>5, ExtraStepKeeps

LEMMA ExtraInserted ==
  ASSUME Inv, NEW o \in Ops, InsertExtra(o), UNCHANGED <<servicesVars, productVars>>
  PROVE  Inv'
<1>1. PICK p \in Op : p = op[o] /\ ExtraFit(p)
  BY InSlot
<1>2. /\ Named(p) /\ p.value \in BOOLEAN /\ p.cost \in {0, 1} /\ Fair(p.value, p.cost)
  BY <1>1 DEF InsertExtra, ExtraFit
<1>3. p.items[p.n] \in Names /\ ids \in Nat
  BY <1>2, ExtraGiven DEF Named
<1>4. PICK x : x = [id |-> ids + 1, name |-> Item(p), free |-> p.value, cost |-> p.cost]
  OBVIOUS
<1>5. x \in Extra /\ x.id = ids + 1 /\ x.free = p.value /\ x.cost = p.cost
  BY <1>2, <1>3, <1>4 DEF Extra, Item
<1>6. CASE ~InsertableExtra(x)
  <2>1. Finish(o) /\ UNCHANGED Rest
    BY <1>1, <1>4, <1>6 DEF InsertExtra, Rest, extraVars
  <2> QED
    BY <2>1, Ends
<1>7. CASE InsertableExtra(x)
  <2>1. /\ extras' = extras \cup {x} /\ ids' = ids + 1 /\ Finish(o) /\ scene' = scene
        /\ adopted' = adopted /\ raced' = raced
    BY <1>1, <1>4, <1>7 DEF InsertExtra
  <2>2. ids' \in Nat /\ ids <= ids' /\ (\A i \in 1..ids : i \in 1..ids' /\ i # ids + 1) /\ ids + 1 \in 1..ids'
    BY <1>3, <2>1
  <2>3. \A e \in extras : e.name # x.name /\ e.id # x.id
    <3>1. \A e \in extras : e.id # x.id
      BY <1>5, <2>2, ExtraGiven
    <3> QED
      BY <1>7, <3>1 DEF InsertableExtra, WithId
  <2>4. /\ extras' \subseteq Extra /\ \A y, z \in extras' : y.name = z.name => y = z
    BY <1>5, <2>1, <2>3 DEF Inv, ExtrasInv, ExtraRows, ExtrasTypeOK
  <2>5. ExtrasTypeOK'
    BY <2>1, <2>4 DEF Inv, ExtrasInv, ExtraRows, ExtrasTypeOK
  <2>6. Fair(x.free, x.cost)
    BY <1>2, <1>5
  <2>7. FreeCostsNothing'
    BY <2>1, <2>6 DEF Inv, ExtrasInv, ExtraRows, FreeCostsNothing
  <2>8. /\ \A y \in extras' : y.id \in 1..ids'
        /\ \A y, z \in extras' : y.id = z.id => y = z
    BY <1>5, <2>1, <2>2, <2>3, ExtraGiven
  <2>9. ExtraRows'
    BY <2>5, <2>7, <2>8 DEF ExtraRows
  <2>10. \A r \in Ops \ {o} : op[r].kind = "update extra" /\ op[r].id \notin raced =>
           \A y \in extras' : y.id = op[r].id => y \in extras
    <3>1. \A r \in Ops : op[r].kind = "update extra" => op[r].id # ids + 1
      BY <2>2 DEF Inv, ExtrasInv, ExtraGood
    <3> QED
      BY <1>5, <2>1, <3>1
  <2> QED
    BY <2>1, <2>2, <2>9, <2>10, ExtraEnds
<1> QED
  BY <1>6, <1>7

LEMMA NameInHand == \A p : Named(p) => Item(p) \in Names
<1>1. \A items \in Seq(Names) : \A n \in 1..Len(items) : items[n] \in Names
  OBVIOUS
<1> QED
  BY <1>1 DEF Named, Item

LEMMA ExtraWritten ==
  ASSUME Inv, NEW o \in Ops, WriteExtra(o), UNCHANGED <<servicesVars, productVars>>
  PROVE  Inv'
<1>1. PICK p \in Op : p = op[o] /\ ExtraFit(p) /\ ExtraGood(p, ids, raced, extras)
  BY InSlot
<1>2. p.kind = "update extra" /\ (p.items = <<>> \/ Named(p))
  BY <1>1 DEF WriteExtra, ExtraFit
<1>a. p.items # <<>> => Item(p) \in Names
  BY <1>2, NameInHand
<1>b. p.value \in BOOLEAN \cup {None, Null} /\ p.cost \in {0, 1, None, Null}
  BY DEF Op
<1> DEFINE Changed(x) == [x EXCEPT !.name = IF p.items = <<>> THEN @ ELSE Item(p),
                                   !.free = Merged(p.value, @), !.cost = Merged(p.cost, @)]
<1> DEFINE New(x) == IF x.id = p.id /\ InsertableExtra(Changed(x)) THEN Changed(x) ELSE x
<1>3. /\ scene' = scene /\ ids' = ids /\ adopted' = adopted /\ raced' = raced /\ Finish(o) /\ ids \in Nat
      /\ extras' = {New(x) : x \in extras}
  BY <1>1, ExtraGiven DEF WriteExtra
\* What an extra x becomes.
<1>4. ASSUME NEW x \in extras, New(x) # x
      PROVE  /\ x.id = p.id /\ New(x) \in Extra /\ New(x).id = x.id
             /\ \A e \in extras : e.id # x.id => e.name # New(x).name
             /\ x.id \in raced \/ Fair(New(x).free, New(x).cost)
  <2>1. PICK y : y = New(x)
    OBVIOUS
  <2>2. x.id = p.id /\ InsertableExtra(Changed(x)) /\ y = Changed(x) /\ x \in Extra
    BY <1>4, <2>1, ExtraGiven
  <2>3. PICK name, free, cost : /\ name = (IF p.items = <<>> THEN x.name ELSE Item(p))
                                /\ free = Merged(p.value, x.free) /\ cost = Merged(p.cost, x.cost)
    OBVIOUS
  <2>4. name \in Names
    BY <1>a, <2>2, <2>3 DEF Extra
  <2>5. free \in BOOLEAN \cup {Null}
    BY <1>b, <2>2, <2>3 DEF Extra, Merged
  <2>6. cost \in {0, 1, Null}
    BY <1>b, <2>2, <2>3 DEF Extra, Merged
  <2>7. y = [x EXCEPT !.name = name, !.free = free, !.cost = cost]
    BY <2>2, <2>3
  <2>8. y \in Extra /\ y.id = x.id /\ y.free = free /\ y.cost = cost
    BY <2>2, <2>4, <2>5, <2>6, <2>7 DEF Extra
  <2>9. \A e \in extras : e.id # x.id => e.name # y.name
    BY <2>2, <2>8 DEF InsertableExtra, WithId
  <2>10. x.id \in raced \/ Fair(Merged(p.value, x.free), Merged(p.cost, x.cost))
    BY <1>1, <1>2, <2>2 DEF ExtraGood
  <2>11. x.id \in raced \/ Fair(y.free, y.cost)
    BY <2>3, <2>8, <2>10
  <2> HIDE DEF New
  <2> QED
    BY <2>1, <2>2, <2>8, <2>9, <2>11
<1> HIDE DEF Changed, New
<1>5. ASSUME NEW y \in extras'
      PROVE  /\ y \in Extra /\ y.id \in 1..ids
             /\ Fair(y.free, y.cost) \/ y.id \in raced
             /\ y.id # p.id => y \in extras
  <2>1. PICK x \in extras : y = New(x)
    BY <1>3
  <2>2. /\ x \in Extra /\ x.id \in 1..ids
        /\ Fair(x.free, x.cost) \/ x.id \in raced
    BY ExtraGiven DEF Inv, ExtrasInv, ExtraRows, FreeCostsNothing
  <2>3. CASE New(x) = x
    BY <2>1, <2>2, <2>3
  <2>4. CASE New(x) # x
    <3>1. x.id = p.id /\ y \in Extra /\ y.id = x.id /\ (x.id \in raced \/ Fair(y.free, y.cost))
      BY <1>4, <2>1, <2>4
    <3>2. Fair(y.free, y.cost) \/ y.id \in raced
      BY <3>1
    <3> QED
      BY <2>2, <3>1, <3>2
  <2> QED
    BY <2>3, <2>4
<1>6. ASSUME NEW y \in extras', NEW z \in extras', y.name = z.name \/ y.id = z.id
      PROVE  y = z
  <2>1. PICK x \in extras, w \in extras : y = New(x) /\ z = New(w)
    BY <1>3
  <2>2. (x.name = w.name => x = w) /\ (x.id = w.id => x = w)
    BY ExtraGiven DEF Inv, ExtrasInv, ExtraRows, ExtrasTypeOK
  <2>3. y.id = x.id /\ z.id = w.id
    BY <1>4, <2>1
  <2>4. x.id # w.id => y.name # z.name
    BY <1>4, <2>1, <2>2
  <2> QED
    BY <1>6, <2>1, <2>2, <2>3, <2>4
<1>7. ExtrasTypeOK'
  BY <1>3, <1>5, <1>6 DEF Inv, ExtrasInv, ExtraRows, ExtrasTypeOK
<1>8. FreeCostsNothing'
  BY <1>3, <1>5 DEF FreeCostsNothing
<1>9. ExtraRows'
  BY <1>3, <1>5, <1>6, <1>7, <1>8 DEF ExtraRows
<1>10. \A r \in Ops \ {o} : op[r].kind = "update extra" /\ op[r].id \notin raced =>
         \A y \in extras' : y.id = op[r].id => y \in extras
  <2>1. \A r \in Ops \ {o} : op[r].kind = "update extra" /\ op[r].id = p.id => op[r].id \in raced
    BY <1>1, <1>2 DEF Inv, ExtrasInv
  <2> QED
    BY <1>5, <2>1
<1>11. ids' \in Nat /\ ids <= ids'
  BY <1>3
<1> QED
  BY <1>3, <1>9, <1>10, <1>11, ExtraEnds

LEMMA AdoptedInserted ==
  ASSUME Inv, NEW o \in Ops, InsertAdopted(o), UNCHANGED <<servicesVars, productVars>>
  PROVE  Inv'
<1>1. PICK p \in Op : p = op[o] /\ ExtraFit(p)
  BY InSlot
<1>2. p.lounge \in Lounges /\ ids \in Nat /\ p.id \in Nat /\ p.cost \in {1, Null}
  BY <1>1, ExtraGiven DEF InsertAdopted, ExtraFit, Op
<1>3. PICK x : x = [id |-> ids + 1, lounge |-> p.lounge, extra |-> p.id, cost |-> p.cost, active |-> TRUE]
  OBVIOUS
<1>4. x \in Adopted
  BY <1>2, <1>3 DEF Adopted
<1>5. CASE ~InsertableAdopted(x)
  <2>1. Finish(o) /\ UNCHANGED Rest
    BY <1>1, <1>3, <1>5 DEF InsertAdopted, Rest, extraVars
  <2> QED
    BY <2>1, Ends
<1>6. CASE InsertableAdopted(x)
  <2>1. /\ adopted' = adopted \cup {x} /\ ids' = ids + 1 /\ Finish(o) /\ scene' = scene
        /\ extras' = extras /\ raced' = raced
    BY <1>1, <1>3, <1>6 DEF InsertAdopted
  <2>2. ids' \in Nat /\ ids <= ids' /\ (\A i \in 1..ids : i \in 1..ids')
    BY <1>2, <2>1
  <2>3. \A a \in adopted : <<a.lounge, a.extra>> # <<x.lounge, x.extra>>
    BY <1>6 DEF InsertableAdopted
  <2>4. /\ adopted' \subseteq Adopted
        /\ \A a, b \in adopted' : <<a.lounge, a.extra>> = <<b.lounge, b.extra>> => a = b
    BY <1>4, <2>1, <2>3 DEF Inv, ExtrasInv, ExtraRows, ExtrasTypeOK
  <2>5. ExtrasTypeOK'
    BY <2>1, <2>4 DEF Inv, ExtrasInv, ExtraRows, ExtrasTypeOK
  <2>6. ExtraRows'
    BY <2>1, <2>2, <2>5 DEF Inv, ExtrasInv, ExtraRows, FreeCostsNothing
  <2> QED
    BY <2>1, <2>2, <2>6, ExtraEnds
<1> QED
  BY <1>5, <1>6

LEMMA AdoptedWritten ==
  ASSUME Inv, NEW o \in Ops, WriteAdopted(o), UNCHANGED <<servicesVars, productVars>>
  PROVE  Inv'
<1>1. PICK p \in Op : p = op[o] /\ ExtraFit(p)
  BY InSlot
<1>2. p.value \in BOOLEAN \cup {None} /\ p.cost \in {0, 1, None, Null}
  BY <1>1 DEF WriteAdopted, ExtraFit, Op
<1> DEFINE Changed(a) == [a EXCEPT !.active = Merged(p.value, @), !.cost = Merged(p.cost, @)]
<1> DEFINE New(a) == IF a.id = p.id THEN Changed(a) ELSE a
<1>3. /\ scene' = scene /\ ids' = ids /\ extras' = extras /\ raced' = raced /\ Finish(o) /\ ids \in Nat
      /\ adopted' = {New(a) : a \in adopted}
  BY <1>1, ExtraGiven DEF WriteAdopted
<1>4. ASSUME NEW a \in adopted
      PROVE  New(a) \in Adopted /\ New(a).lounge = a.lounge /\ New(a).extra = a.extra
  <2>1. a \in Adopted
    BY ExtraGiven
  <2>2. CASE a.id # p.id
    BY <2>1, <2>2
  <2>3. CASE a.id = p.id
    <3>1. PICK active, cost : active = Merged(p.value, a.active) /\ cost = Merged(p.cost, a.cost)
      OBVIOUS
    <3>2. active \in BOOLEAN
      BY <1>2, <2>1, <3>1 DEF Adopted, Merged
    <3>3. cost \in {0, 1, Null}
      BY <1>2, <2>1, <3>1 DEF Adopted, Merged
    <3>4. PICK b : b = [a EXCEPT !.active = active, !.cost = cost]
      OBVIOUS
    <3>5. b \in Adopted /\ b.lounge = a.lounge /\ b.extra = a.extra
      BY <2>1, <3>2, <3>3, <3>4 DEF Adopted
    <3>6. New(a) = b
      BY <2>3, <3>1, <3>4
    <3> HIDE DEF New
    <3> QED
      BY <3>5, <3>6
  <2> QED
    BY <2>2, <2>3
<1> HIDE DEF Changed, New
<1>5. \A a, b \in adopted : <<a.lounge, a.extra>> = <<b.lounge, b.extra>> => a = b
  BY DEF Inv, ExtrasInv, ExtraRows, ExtrasTypeOK
<1>6. adopted' \subseteq Adopted
  BY <1>3, <1>4
<1>7. ASSUME NEW a \in adopted', NEW b \in adopted', <<a.lounge, a.extra>> = <<b.lounge, b.extra>>
      PROVE  a = b
  <2>1. PICK c \in adopted, d \in adopted : a = New(c) /\ b = New(d)
    BY <1>3
  <2> QED
    BY <1>4, <1>5, <1>7, <2>1
<1>8. ExtrasTypeOK'
  BY <1>3, <1>6, <1>7 DEF Inv, ExtrasInv, ExtraRows, ExtrasTypeOK
<1>9. ExtraRows'
  BY <1>3, <1>8 DEF Inv, ExtrasInv, ExtraRows, FreeCostsNothing
<1>10. ids' \in Nat /\ ids <= ids'
  BY <1>3
<1>11. \A r \in Ops \ {o} : op[r].kind = "update extra" /\ op[r].id \notin raced =>
         \A x \in extras' : x.id = op[r].id => x \in extras
  BY <1>3
<1> QED
  BY <1>3, <1>9, <1>10, <1>11, ExtraEnds

LEMMA ExtrasAlone ==
  ASSUME Inv, UNCHANGED <<requestVars, raced>>, UNCHANGED <<servicesVars, productVars>>,
         extras' \subseteq extras, adopted' \subseteq adopted
  PROVE  Inv'
<1>1. scene' = scene /\ ids' = ids /\ op' = op /\ raced' = raced
  BY DEF requestVars
<1>2. Typed'
  BY <1>1 DEF Inv, Typed
<1>3. ExtrasTypeOK'
  BY <1>1 DEF Inv, ExtrasInv, ExtraRows, ExtrasTypeOK
<1>4. ExtraRows'
  BY <1>1, <1>3 DEF Inv, ExtrasInv, ExtraRows, FreeCostsNothing
<1>5. ASSUME NEW o \in Ops PROVE ExtraFit(op'[o]) /\ ExtraGood(op'[o], ids', raced', extras')
  <2>1. ExtraFit(op[o]) /\ ExtraGood(op[o], ids, raced, extras)
    BY InSlot
  <2> QED
    BY <1>1, <2>1 DEF ExtraGood
<1>6. (\A o \in Ops : ExtraFit(op[o]) /\ ExtraGood(op[o], ids, raced, extras))'
  BY <1>5
<1>7. ExtrasInv'
  BY <1>1, <1>4, <1>6 DEF Inv, ExtrasInv
<1>8. /\ categories' = categories /\ services' = services /\ offers' = offers
      /\ suggestions' = suggestions /\ lounges' = lounges /\ served' = served /\ claimed' = claimed
      /\ told' = told /\ productCategories' = productCategories /\ products' = products
      /\ categorySuggestions' = categorySuggestions /\ built' = built /\ answered' = answered
  BY DEF servicesVars, productVars
<1>9. ServicesInv'
  BY <1>1, <1>8 DEF Inv, ServicesInv, ServiceRows, ServicesTypeOK, SuggestionIsOffered
<1>10. ProductInv'
  BY <1>1, <1>8 DEF Inv, ProductInv, ProductRows, ProductTypeOK, SuggestionBecameCategory
<1> QED
  BY <1>2, <1>7, <1>9, <1>10 DEF Inv

LEMMA ExtrasKeep ==
  ASSUME Inv, ExtrasNext, UNCHANGED <<servicesVars, productVars>>
  PROVE  Inv'
<1>1. ASSUME NEW o \in Ops, NewExtraRequest(o) PROVE Inv'
  BY <1>1, ExtraCreation, ExtraUpdate, Adopting, AdoptedChange DEF NewExtraRequest
<1>2. ASSUME NEW o \in Ops, ExtraStep(o) PROVE Inv'
  BY <1>2, ExtraLookup, SqueezedLookup, ExtraInserted, ExtraWritten, AdoptedLookup, AdoptedInserted,
     AdoptedWritten DEF ExtraStep
<1>3. ASSUME NEW x \in extras, DeleteExtra(x) PROVE Inv'
  BY <1>3, ExtrasAlone DEF DeleteExtra
<1>4. ASSUME NEW a \in adopted, RemoveAdopted(a) PROVE Inv'
  BY <1>4, ExtrasAlone DEF RemoveAdopted
<1> QED
  BY <1>1, <1>2, <1>3, <1>4 DEF ExtrasNext

-----------------------------------------------------------------------------
\* The three catalogues together.

LEMMA InitInv == Init => Inv
<1> SUFFICES ASSUME Init PROVE Inv
  OBVIOUS
<1>1. scene \in Scenes /\ ids = scene.given /\ op = [o \in Ops |-> NoOp] /\ ids \in Nat
  BY CatalogAssumption DEF Init
<1>2. Typed
  BY <1>1, NothingCarried DEF Typed
<1>3. \A o \in Ops : op[o] = NoOp
  BY <1>1
<1>4. ServicesTypeOK /\ SuggestionIsOffered /\ \A s \in services \cup offers \cup suggestions : s.id \in 1..ids
  BY <1>1, ServicesAssumption DEF Init, ServicesInit, ServicesTypeOK, SuggestionIsOffered
<1>5. ServicesInv
  BY <1>3, <1>4, NothingCarried DEF ServicesInv, ServiceRows
<1>6. ProductTypeOK /\ SuggestionBecameCategory
  BY <1>1, ProductAssumption DEF Init, ProductInit, ProductTypeOK, SuggestionBecameCategory
<1>7. ProductInv
  BY <1>3, <1>6, NothingCarried DEF ProductInv, ProductRows
<1>8. ExtraRows
  BY <1>1, ExtrasAssumption DEF Init, ExtrasInit, ExtraRows, ExtrasTypeOK, FreeCostsNothing
<1>9. ExtrasInv
  BY <1>3, <1>8, NothingCarried DEF ExtrasInv
<1> QED
  BY <1>2, <1>5, <1>7, <1>9 DEF Inv

LEMMA Stutters == Inv /\ UNCHANGED vars => Inv'
<1> SUFFICES ASSUME Inv, UNCHANGED vars PROVE Inv'
  OBVIOUS
<1>1. UNCHANGED <<requestVars, raced>> /\ UNCHANGED <<servicesVars, productVars>>
  BY DEF vars, extraVars
<1>2. extras' \subseteq extras /\ adopted' \subseteq adopted
  BY DEF vars, extraVars
<1> QED
  BY <1>1, <1>2, ExtrasAlone

\* The catalogues keep their invariant.
THEOREM CatalogInductive == Spec => []Inv
<1>1. Inv /\ [Next]_vars => Inv'
  <2> SUFFICES ASSUME Inv, [Next]_vars PROVE Inv'
    OBVIOUS
  <2>1. CASE ServicesNext /\ UNCHANGED <<productVars, extraVars>>
    BY <2>1, ServicesKeep
  <2>2. CASE ProductNext /\ UNCHANGED <<servicesVars, extraVars>>
    BY <2>2, ProductsKeep
  <2>3. CASE ExtrasNext /\ UNCHANGED <<servicesVars, productVars>>
    BY <2>3, ExtrasKeep
  <2>4. ASSUME NEW o \in Ops, RequestFails(o) PROVE Inv'
    <3>1. Finish(o) /\ UNCHANGED Rest
      BY <2>4 DEF RequestFails, Rest
    <3> QED
      BY <3>1, Ends
  <2>5. CASE UNCHANGED vars
    BY <2>5, Stutters
  <2> QED
    BY <2>1, <2>2, <2>3, <2>4, <2>5 DEF Next, AtRest
<1> QED
  BY <1>1, InitInv, PTL DEF Spec

\* Rows keep their types, and names, titles, slugs and pairs stay unique, through requests
\* that look before they write and an index that is checked with the write.
THEOREM CatalogTyped == Spec => []TypeOK
<1>1. Inv => TypeOK
  BY DEF Inv, Typed, ServicesInv, ServiceRows, ProductInv, ProductRows, ExtrasInv, ExtraRows,
         TypeOK, RequestsTypeOK
<1> QED
  BY <1>1, CatalogInductive, PTL

\* implementSuggestion of the services and of the product categories: a suggestion is marked
\* implemented, and its lounge told so, only after what it asked for was made for it.
THEOREM ImplementedMade == Spec => []ImplementedIsReal
<1>1. Inv => ImplementedIsReal
  BY DEF Inv, ServicesInv, ServiceRows, ProductInv, ProductRows, ImplementedIsReal
<1> QED
  BY <1>1, CatalogInductive, PTL

\* ExtrasService.update: an extra is free exactly when it costs nothing, but for those that
\* two requests have updated at the same time.
THEOREM FreeIsFree == Spec => []FreeCostsNothing
<1>1. Inv => FreeCostsNothing
  BY DEF Inv, ExtrasInv, ExtraRows
<1> QED
  BY <1>1, CatalogInductive, PTL

-----------------------------------------------------------------------------
\* Which steps remove a category.

\* Storing a category replaces the one of its id.
LEMMA PutKeeps ==
  ASSUME NEW rows, NEW x, NEW c \in rows
  PROVE  WithId(Put(rows, x), c.id) # {}
BY DEF WithId, Put

LEMMA CategoryGone ==
  ASSUME Inv, ServicesNext, NEW c \in categories, WithId(categories', c.id) = {},
         NEW s \in services, s.category = c.id
  PROVE  Excused(c.id, s.id)
<1>1. CASE categories' = categories
  BY <1>1 DEF WithId
<1>2. ASSUME NEW o \in Ops, StoreCategory(o) PROVE FALSE
  <2>1. CASE categories' = categories
    BY <2>1 DEF WithId
  <2>2. CASE categories' # categories
    <3>1. PICK x : categories' = Put(categories, x)
      BY <1>2, <2>2 DEF StoreCategory
    <3> QED
      BY <3>1, PutKeeps
  <2> QED
    BY <2>1, <2>2
<1>3. ASSUME NEW o \in Ops, DropCategory(o) PROVE Excused(c.id, s.id)
  <2>1. /\ op[o].kind = "uncategory" /\ op[o].at = "drop" /\ Finish(o)
        /\ categories' = categories \ WithId(categories, op[o].id)
    BY <1>3 DEF DropCategory
  <2>2. op[o].id = c.id
    BY <2>1 DEF WithId
  <2>3. op[o].blind \/ s.id \in op[o].late
    BY <2>1, <2>2, InSlot DEF ServiceGood
  <2>4. op'[o].at = "idle"
    BY <2>1, NoOpFields DEF Finish, Set, Inv, Typed
  <2> QED
    BY <2>1, <2>2, <2>3, <2>4 DEF Excused
<1>4. ASSUME NEW o \in Ops, NewServicesRequest(o) PROVE categories' = categories
  BY <1>4 DEF NewServicesRequest, CategoryRequest, ServiceRequest, OfferRequest, SuggestionRequest,
       CreateServiceCategory, UpdateServiceCategory, DeleteServiceCategory, CreateService,
       BulkCreateServices, UpdateService, CreateLoungeServices, ToggleLoungeServiceStatus,
       CreateServiceSuggestion, UpdateServiceSuggestion, ModerateSuggestion, servicesVars
<1>5. ASSUME NEW o \in Ops, ServicesStep(o), ~StoreCategory(o), ~DropCategory(o)
      PROVE  categories' = categories
  BY <1>5 DEF ServicesStep, FindTitle, FindExact, FindSimilar, InsertService, WriteService, FindOffer,
       InsertOffer, WriteToggle, FindPending, InsertSuggestion, WriteSuggestion, FindCategory,
       MarkSuggestion, TellSuggestion, servicesVars
<1>6. ASSUME ~\E o \in Ops : NewServicesRequest(o) \/ ServicesStep(o)
      PROVE  categories' = categories
  BY <1>6 DEF ServicesNext, DeleteService, UpdateLoungeService, DeleteLoungeService,
       DeleteServiceSuggestion, LoungeDeleted
<1> QED
  BY <1>1, <1>2, <1>3, <1>4, <1>5, <1>6

LEMMA ProductCategoryGone ==
  ASSUME Inv, ProductNext, NEW c \in productCategories, WithId(productCategories', c.id) = {},
         NEW x \in products, x.category = c.id
  PROVE  Excused(c.id, x.id)
<1>1. CASE productCategories' = productCategories
  BY <1>1 DEF WithId
<1>2. ASSUME NEW o \in Ops, StoreProductCategory(o) PROVE FALSE
  <2>1. CASE productCategories' = productCategories
    BY <2>1 DEF WithId
  <2>2. CASE productCategories' # productCategories
    <3>1. PICK y : productCategories' = Put(productCategories, y)
      BY <1>2, <2>2 DEF StoreProductCategory
    <3> QED
      BY <3>1, PutKeeps
  <2> QED
    BY <2>1, <2>2
<1>3. ASSUME NEW o \in Ops, DropProductCategory(o) PROVE Excused(c.id, x.id)
  <2>1. /\ op[o].kind = "drop product category" /\ op[o].at = "drop" /\ Finish(o)
        /\ productCategories' = productCategories \ WithId(productCategories, op[o].id)
    BY <1>3 DEF DropProductCategory
  <2>2. op[o].id = c.id
    BY <2>1 DEF WithId
  <2>3. x.id \in op[o].late
    BY <2>1, <2>2, InSlot DEF ProductGood
  <2>4. op'[o].at = "idle"
    BY <2>1, NoOpFields DEF Finish, Set, Inv, Typed
  <2> QED
    BY <2>1, <2>2, <2>3, <2>4 DEF Excused
<1>4. ASSUME NEW o \in Ops, ProductCategoryRequest(o) \/ ProductRequest(o) \/ CategorySuggestionRequest(o)
      PROVE  productCategories' = productCategories
  BY <1>4 DEF ProductCategoryRequest, ProductRequest, CategorySuggestionRequest,
       CreateProductCategory, UpdateProductCategory, DeleteProductCategory, WriteProductIn,
       SuggestCategory, UpdateSuggestion, UpdateSuggestionStatus, productVars
<1>5. ASSUME NEW o \in Ops, ProductStep(o), ~StoreProductCategory(o), ~DropProductCategory(o)
      PROVE  productCategories' = productCategories
  BY <1>5 DEF ProductStep, FindProductTitle, ProbeSlug, StoreProduct, FindTaken, FindPendingCategory,
       InsertCategorySuggestion, WriteSuggestionTitle, MarkCategorySuggestion, AnswerSuggestion,
       productVars
<1>6. CASE \E s \in categorySuggestions : DeleteSuggestion(s)
  BY <1>1, <1>6 DEF DeleteSuggestion
<1> QED
  BY <1>1, <1>2, <1>3, <1>4, <1>5, <1>6 DEF ProductNext

\* deleteServiceCategory and deleteProductCategory, which count the users of a category
\* first, strand no service and no product but those that came after the count, or after
\* a count of services that failed.
THEOREM UsedCategoriesKept == Spec => UsedCategoryStays
<1>1. Inv /\ [Next]_vars => [CategoryInUseStays /\ ProductCategoryInUseStays]_vars
  <2> SUFFICES ASSUME Inv, Next PROVE CategoryInUseStays /\ ProductCategoryInUseStays
    OBVIOUS
  <2>1. categories' = categories \/ ServicesNext
    BY DEF Next, RequestFails, AtRest, vars, servicesVars
  <2>2. productCategories' = productCategories \/ ProductNext
    BY DEF Next, RequestFails, AtRest, vars, productVars
  <2>3. CategoryInUseStays
    <3>1. CASE categories' = categories
      BY <3>1 DEF CategoryInUseStays, WithId
    <3>2. CASE ServicesNext
      BY <3>2, CategoryGone DEF CategoryInUseStays
    <3> QED
      BY <2>1, <3>1, <3>2
  <2>4. ProductCategoryInUseStays
    <3>1. CASE productCategories' = productCategories
      BY <3>1 DEF ProductCategoryInUseStays, WithId
    <3>2. CASE ProductNext
      BY <3>2, ProductCategoryGone DEF ProductCategoryInUseStays
    <3> QED
      BY <2>2, <3>1, <3>2
  <2> QED
    BY <2>3, <2>4
<1> QED
  BY <1>1, CatalogInductive, PTL DEF Spec, UsedCategoryStays
=============================================================================
