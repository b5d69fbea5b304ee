---------------------------------- MODULE Sums ----------------------------------
(***************************************************************************)
(* The sum of a function over a finite set of indices, as the community    *)
(* modules define it: how it depends on the function and on the indices.   *)
(* The stock, the paid orders and the ratings are sums.                    *)
(*                                                                         *)
(* SumFunctionOnSet is a recursion over sets.  It is handled as the number *)
(* of elements of a union of blocks, one block of f[x] pairs for every x.  *)
(***************************************************************************)
EXTENDS Integers, FiniteSets, Functions, FiniteSetTheorems, WellFoundedInduction, TLAPS

\* A sum of naturals is the size of a set: f[x] pairs for every x.
Blocks(f, S) == UNION {{x} \X (1..f[x]) : x \in S}

LEMMA BlockOf ==
  ASSUME NEW x, NEW n \in Nat
  PROVE  IsFiniteSet({x} \X (1..n)) /\ Cardinality({x} \X (1..n)) = n
<1>1. IsFiniteSet(1..n) /\ Cardinality(1..n) = n
  BY FS_Interval
<1>2. IsFiniteSet({x}) /\ Cardinality({x}) = 1
  BY FS_Singleton
<1> QED
  BY <1>1, <1>2, FS_Product

LEMMA BlocksFinite ==
  ASSUME NEW f, NEW S, IsFiniteSet(S), \A x \in S : f[x] \in Nat
  PROVE  IsFiniteSet(Blocks(f, S))
<1> DEFINE T == {{x} \X (1..f[x]) : x \in S}
           g == [x \in S |-> {x} \X (1..f[x])]
<1>1. g \in Surjection(S, T)
  BY DEF Surjection
<1>2. IsFiniteSet(T)
  BY <1>1, FS_Surjection
<1>3. ASSUME NEW x \in S PROVE IsFiniteSet({x} \X (1..f[x]))
  BY BlockOf
<1> QED
  BY <1>2, <1>3, FS_UNION DEF Blocks

LEMMA BlocksRemove ==
  ASSUME NEW f, NEW S, IsFiniteSet(S), \A x \in S : f[x] \in Nat, NEW x \in S
  PROVE  Cardinality(Blocks(f, S)) = f[x] + Cardinality(Blocks(f, S \ {x}))
<1> DEFINE A == {x} \X (1..f[x])
           B == Blocks(f, S \ {x})
<1>1. Blocks(f, S) = A \cup B /\ A \cap B = {}
  BY DEF Blocks
<1>2. IsFiniteSet(A) /\ Cardinality(A) = f[x]
  BY BlockOf
<1>3. IsFiniteSet(B)
  BY BlocksFinite, FS_RemoveElement
<1>4. Cardinality(B) \in Nat
  BY <1>3, FS_CardinalityType
<1> HIDE DEF A, B
<1>5. Cardinality(A \cup B) = Cardinality(A) + Cardinality(B) - Cardinality({})
  BY <1>1, <1>2, <1>3, FS_Union
<1>6. Cardinality({}) = 0
  BY FS_EmptySet
<1> QED
  BY <1>1, <1>2, <1>4, <1>5, <1>6 DEF B

LEMMA BlocksEmpty == ASSUME NEW f PROVE Cardinality(Blocks(f, {})) = 0
<1>1. Blocks(f, {}) = {}
  BY DEF Blocks
<1> QED
  BY <1>1, FS_EmptySet

\* SumFunctionOnSet is defined by recursion over the set: the two agree, or a smallest
\* set on which they differ would have a smaller one.
LEMMA SumIsBlocks ==
  ASSUME NEW f, NEW S, IsFiniteSet(S), \A x \in S : f[x] \in Nat
  PROVE  SumFunctionOnSet(f, S) = Cardinality(Blocks(f, S))
<1> DEFINE Next(g) == [s \in SUBSET S |-> IF s = {} THEN 0
                        ELSE f[CHOOSE x \in s : TRUE] + g[s \ {CHOOSE x \in s : TRUE}]]
           iter == CHOOSE g : g = Next(g)
           card == [s \in SUBSET S |-> Cardinality(Blocks(f, s))]
<1>1. SumFunctionOnSet(f, S) = iter[S]
  BY DEF SumFunctionOnSet, FoldFunctionOnSet, MapThenFoldSet
<1>2. ASSUME NEW s \in SUBSET S, s # {}
      PROVE  /\ (CHOOSE x \in s : TRUE) \in s
             /\ card[s] = f[CHOOSE x \in s : TRUE] + card[s \ {CHOOSE x \in s : TRUE}]
  <2> DEFINE x == CHOOSE x \in s : TRUE
  <2>1. x \in s
    BY <1>2
  <2>2. IsFiniteSet(s)
    BY FS_Subset
  <2> HIDE DEF x
  <2>3. Cardinality(Blocks(f, s)) = f[x] + Cardinality(Blocks(f, s \ {x}))
    BY <2>1, <2>2, BlocksRemove
  <2>4. card[s] = f[x] + card[s \ {x}]
    BY <2>3
  <2> QED
    BY <2>1, <2>4 DEF x
<1>3. card[{}] = 0
  BY BlocksEmpty
<1>4. card = Next(card)
  BY <1>2, <1>3
<1>5. iter = Next(iter)
  BY <1>4
<1> HIDE DEF iter
<1>6. iter[S] = card[S]
  <2> DEFINE Bad == {s \in SUBSET S : iter[s] # card[s]}
  <2> SUFFICES Bad = {}
    OBVIOUS
  <2>1. SUFFICES ASSUME Bad # {} PROVE FALSE
    OBVIOUS
  <2>2. IsWellFoundedOn(StrictSubsetOrdering(S), FiniteSubsetsOf(S))
    BY FS_StrictSubsetOrderingWellFounded
  <2>3. Bad \subseteq FiniteSubsetsOf(S)
    BY FS_Subset DEF FiniteSubsetsOf
  <2> HIDE DEF Bad
  <2>4. PICK s \in Bad : \A t \in Bad : ~ (<<t, s>> \in StrictSubsetOrdering(S))
    BY <2>1, <2>2, <2>3, WFMin
  <2> DEFINE x == CHOOSE x \in s : TRUE
  <2>5. s \in SUBSET S /\ iter[s] # card[s]
    BY <2>4 DEF Bad
  <2>6. s # {}
    BY <1>3, <1>5, <2>5
  <2>7. x \in s /\ card[s] = f[x] + card[s \ {x}]
    BY <1>2, <2>5, <2>6
  <2>8. iter[s] = f[x] + iter[s \ {x}]
    BY <1>5, <2>5, <2>6
  <2> HIDE DEF x, card
  <2>9. <<s \ {x}, s>> \in StrictSubsetOrdering(S)
    BY <2>5, <2>7 DEF StrictSubsetOrdering
  <2>10. s \ {x} \in SUBSET S /\ s \ {x} \notin Bad
    BY <2>4, <2>5, <2>9
  <2> QED
    BY <2>5, <2>7, <2>8, <2>10 DEF Bad
<1> QED
  BY <1>1, <1>6

LEMMA SumNat ==
  ASSUME NEW f, NEW S, IsFiniteSet(S), \A x \in S : f[x] \in Nat
  PROVE  SumFunctionOnSet(f, S) \in Nat
  BY SumIsBlocks, BlocksFinite, FS_CardinalityType

LEMMA SumEmpty == ASSUME NEW f PROVE SumFunctionOnSet(f, {}) = 0
  BY SumIsBlocks, BlocksEmpty, FS_EmptySet

\* The laws of sums that the proofs below use.
LEMMA SumRemove ==
  ASSUME NEW f, NEW S, IsFiniteSet(S), \A x \in S : f[x] \in Nat, NEW x \in S
  PROVE  SumFunctionOnSet(f, S) = f[x] + SumFunctionOnSet(f, S \ {x})
<1>1. IsFiniteSet(S \ {x})
  BY FS_RemoveElement
<1> QED
  BY <1>1, SumIsBlocks, BlocksRemove

LEMMA SumAgree ==
  ASSUME NEW f, NEW g, NEW S, IsFiniteSet(S), \A x \in S : f[x] \in Nat /\ g[x] = f[x]
  PROVE  SumFunctionOnSet(g, S) = SumFunctionOnSet(f, S)
<1>1. Blocks(g, S) = Blocks(f, S)
  BY DEF Blocks
<1> QED
  BY <1>1, SumIsBlocks

LEMMA SumChange ==
  ASSUME NEW f, NEW g, NEW S, IsFiniteSet(S), NEW x \in S,
         \A y \in S : f[y] \in Nat /\ g[y] \in Nat /\ (y # x => g[y] = f[y])
  PROVE  SumFunctionOnSet(g, S) + f[x] = SumFunctionOnSet(f, S) + g[x]
<1>1. IsFiniteSet(S \ {x}) /\ \A y \in S \ {x} : f[y] \in Nat /\ g[y] = f[y]
  BY FS_RemoveElement
<1>2. SumFunctionOnSet(g, S \ {x}) = SumFunctionOnSet(f, S \ {x})
  BY <1>1, SumAgree
<1>3. SumFunctionOnSet(f, S \ {x}) \in Nat
  BY <1>1, SumNat
<1>4. /\ SumFunctionOnSet(f, S) = f[x] + SumFunctionOnSet(f, S \ {x})
      /\ SumFunctionOnSet(g, S) = g[x] + SumFunctionOnSet(g, S \ {x})
  BY SumRemove
<1> QED
  BY <1>2, <1>3, <1>4

\* Nothing counted is nothing.
LEMMA SumZero ==
  ASSUME NEW S, IsFiniteSet(S), NEW f, \A x \in S : f[x] = 0
  PROVE  SumFunctionOnSet(f, S) = 0
<1>1. Blocks(f, S) = {}
  BY DEF Blocks
<1> QED
  BY <1>1, SumIsBlocks, FS_EmptySet

\* What is not summed counts for nothing.
LEMMA SumRestrict ==
  ASSUME NEW S, IsFiniteSet(S), NEW f, NEW T \in SUBSET S, \A x \in T : f[x] \in Nat
  PROVE  SumFunctionOnSet(f, T) = SumFunctionOnSet([x \in S |-> IF x \in T THEN f[x] ELSE 0], S)
<1> DEFINE g == [x \in S |-> IF x \in T THEN f[x] ELSE 0]
<1>1. \A x \in S : g[x] \in Nat
  OBVIOUS
<1>2. Blocks(g, S) = Blocks(f, T)
  <2>1. \A x \in S \ T : 1..g[x] = {}
    OBVIOUS
  <2>2. \A x \in T : g[x] = f[x]
    OBVIOUS
  <2> HIDE DEF g
  <2> QED
    BY <2>1, <2>2 DEF Blocks
<1>3. IsFiniteSet(T)
  BY FS_Subset
<1> HIDE DEF g
<1>4. SumFunctionOnSet(g, S) = SumFunctionOnSet(f, T)
  BY <1>1, <1>2, <1>3, SumIsBlocks
<1> QED
  BY <1>4 DEF g

\* A sum does not depend on the names of what is summed.
LEMMA SumRename ==
  ASSUME NEW S, NEW T, NEW f, NEW g, IsFiniteSet(S), NEW h \in Bijection(S, T),
         \A x \in S : f[x] \in Nat /\ g[h[x]] = f[x]
  PROVE  SumFunctionOnSet(g, T) = SumFunctionOnSet(f, S)
<1> DEFINE B == Blocks(f, S)
           C == Blocks(g, T)
           k == [b \in B |-> <<h[b[1]], b[2]>>]
<1>1. /\ \A x \in S : h[x] \in T
      /\ \A x, y \in S : h[x] = h[y] => x = y
      /\ \A y \in T : \E x \in S : h[x] = y
  BY DEF Bijection, Injection, Surjection, IsInjective
<1>2. \A b \in B : /\ b[1] \in S /\ b[2] \in 1..f[b[1]] /\ b = <<b[1], b[2]>>
                   /\ k[b] \in C
  BY <1>1 DEF Blocks
<1>3. \A a, b \in B : k[a] = k[b] => a = b
  BY <1>1, <1>2
<1>4. \A c \in C : \E b \in B : k[b] = c
  <2> SUFFICES ASSUME NEW c \in C PROVE \E b \in B : k[b] = c
    OBVIOUS
  <2>1. PICK y \in T : \E n \in 1..g[y] : c = <<y, n>>
    BY DEF Blocks
  <2>4. PICK n \in 1..g[y] : c = <<y, n>>
    BY <2>1
  <2>2. PICK x \in S : h[x] = y
    BY <1>1
  <2>3. <<x, n>> \in B
    BY <2>2, <2>4 DEF Blocks
  <2> QED
    BY <2>2, <2>3, <2>4
<1>5. k \in Bijection(B, C)
  BY <1>2, <1>3, <1>4 DEF Bijection, Injection, Surjection, IsInjective
<1>6. ExistsBijection(B, C) /\ ExistsBijection(S, T)
  BY <1>5 DEF ExistsBijection
<1>7. IsFiniteSet(T) /\ \A y \in T : g[y] \in Nat
  BY <1>1, <1>6, FS_Bijection
<1>8. IsFiniteSet(B)
  BY BlocksFinite
<1> HIDE DEF B, C
<1>9. Cardinality(B) = Cardinality(C)
  BY <1>6, <1>8, FS_Bijection
<1> QED
  BY <1>7, <1>9, SumIsBlocks DEF B, C
=================================================================================
