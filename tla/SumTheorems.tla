---------------------------- MODULE SumTheorems ----------------------------
(***************************************************************************)
(* Facts about sums over finite sets.  A sum is a fold: a recursive        *)
(* function on the subsets of the set, which takes away one chosen element *)
(* at a time.  That function exists and is unique, and by the smallest     *)
(* subset that fails, the sum does not depend on what is chosen.  The same *)
(* argument gives the greatest member of a finite set of integers.         *)
(***************************************************************************)
EXTENDS Sums, FiniteSetTheorems, TLAPS

\* The subsets of a finite set are well founded, which is what such recursions rest on.
LEMMA SmallestSubset ==
    ASSUME NEW T, IsFiniteSet(T), NEW B \in SUBSET SUBSET T, B # {}
    PROVE  \E S \in B : \A C \in B : C \subseteq S => C = S
<1>1. IsWellFoundedOn(StrictSubsetOrdering(T), SUBSET T)
  BY FS_StrictSubsetOrderingWellFounded, FS_FiniteSubsetsOfFinite
<1>2. PICK S \in B : \A C \in B : <<C, S>> \notin StrictSubsetOrdering(T)
  BY <1>1, WFMin
<1>3. ASSUME NEW C \in B, C \subseteq S PROVE C = S
  BY <1>2, <1>3 DEF StrictSubsetOrdering
<1> QED
  BY <1>3

\* A finite set of integers has a greatest member, and Max finds it.
LEMMA GreatestOf ==
    ASSUME NEW S, IsFiniteSet(S), S \subseteq Int, S # {}
    PROVE  Max(S) \in S /\ \A x \in S : x <= Max(S)
<1> DEFINE Bad == {C \in SUBSET S : C # {} /\ ~\E x \in C : \A y \in C : x >= y}
<1>1. Bad = {}
  <2> SUFFICES ASSUME Bad # {} PROVE FALSE
    OBVIOUS
  <2>1. PICK r \in Bad : \A q \in Bad : q \subseteq r => q = r
    <3>1. Bad \in SUBSET SUBSET S
      OBVIOUS
    <3> HIDE DEF Bad
    <3> QED
      BY ONLY <3>1, IsFiniteSet(S), Bad # {}, SmallestSubset
  <2>2. PICK x \in r : TRUE
    OBVIOUS
  <2> DEFINE q == r \ {x}
  <2>3. q \notin Bad
    BY <2>1
  <2>4. CASE q = {}
    <3>1. \A y \in r : y = x
      BY <2>4
    <3> QED
      BY <3>1
  <2>5. CASE q # {}
    <3>1. PICK y \in q : \A z \in q : y >= z
      BY <2>3, <2>5
    <3>2. x \in Int /\ y \in Int /\ r \subseteq Int
      OBVIOUS
    <3>3. CASE y >= x
      <4>1. \A z \in r : y >= z
        BY <3>1, <3>3
      <4> QED
        BY <3>1, <4>1
    <3>4. CASE ~(y >= x)
      <4>1. \A z \in r : x >= z
        BY <3>1, <3>2, <3>4
      <4> QED
        BY <4>1
    <3> QED
      BY <3>3, <3>4
  <2> QED
    BY <2>4, <2>5
<1>2. \E x \in S : \A y \in S : x >= y
  BY <1>1
<1>3. Max(S) \in S /\ \A y \in S : Max(S) >= y
  BY <1>2 DEF Max
<1> QED
  BY <1>3

\* A set of bounded naturals has a least member.
LEMMA LeastIn ==
    ASSUME NEW n \in Nat, NEW S \in SUBSET (0..n), S # {}
    PROVE  \E k \in S : \A j \in S : k <= j
<1> DEFINE T == {k \in 0..n : n - k \in S}
<1>1. IsFiniteSet(0..n)
  BY FS_Interval
<1>2. IsFiniteSet(T)
  BY <1>1, FS_Subset
<1>3. T \subseteq Int
  OBVIOUS
<1>4. T # {}
  <2>1. PICK k \in S : TRUE
    OBVIOUS
  <2>2. n - k \in T
    OBVIOUS
  <2> QED
    BY <2>2
<1> DEFINE g == Max(T)
<1>5. g \in T /\ \A k \in T : k <= g
  <2> HIDE DEF T
  <2> QED
    BY <1>2, <1>3, <1>4, GreatestOf
<1>6. \A j \in S : n - j \in T
  OBVIOUS
<1> HIDE DEF g
<1>7. \A j \in S : n - g <= j
  BY <1>5, <1>6
<1> QED
  BY <1>5, <1>7

\* Sums and products are folds of one kind: an element chosen from the set is joined to the
\* fold of the rest.
Pick(s) == CHOOSE x \in s : TRUE
Kinds == {"sum", "product"}
Unit(kind) == IF kind = "sum" THEN 0 ELSE 1
Join(kind, a, b) == IF kind = "sum" THEN a + b ELSE a * b
Folds(kind, g, f, T) ==
    g = [s \in SUBSET T |->
            IF s = {} THEN Unit(kind) ELSE Join(kind, f[Pick(s)], g[s \ {Pick(s)}])]

FoldOver(kind, f, S) == IF kind = "sum" THEN SumOver(f, S) ELSE ProductOver(f, S)

\* Joining does not depend on the order.
LEMMA JoinFacts ==
    ASSUME NEW kind, NEW a \in Int, NEW b \in Int, NEW c \in Int
    PROVE  /\ Join(kind, a, b) \in Int
           /\ Join(kind, a, Join(kind, b, c)) = Join(kind, b, Join(kind, a, c))
BY DEF Join

\* What is chosen from a set is in it.
LEMMA PickIn ==
    ASSUME NEW s, s # {}
    PROVE  Pick(s) \in s
BY DEF Pick

\* Two folds agree wherever both are defined.
LEMMA FoldsAgree ==
    ASSUME NEW kind \in Kinds, NEW f, NEW T, IsFiniteSet(T), NEW U, U \subseteq T,
           NEW g, Folds(kind, g, f, T), NEW h, Folds(kind, h, f, U),
           NEW s \in SUBSET U
    PROVE  g[s] = h[s]
<1> DEFINE Bad == {r \in SUBSET U : g[r] # h[r]}
<1>1. Bad = {}
  <2> SUFFICES ASSUME Bad # {} PROVE FALSE
    OBVIOUS
  <2>1. PICK r \in Bad : \A q \in Bad : q \subseteq r => q = r
    <3>1. Bad \in SUBSET SUBSET U /\ IsFiniteSet(U)
      BY FS_Subset
    <3> HIDE DEF Bad
    <3> QED
      BY <3>1, SmallestSubset
  <2>2. r \in SUBSET U /\ r \in SUBSET T
    OBVIOUS
  <2> DEFINE q == r \ {Pick(r)}
  <2>3. g[r] = IF r = {} THEN Unit(kind) ELSE Join(kind, f[Pick(r)], g[q])
    BY <2>2 DEF Folds
  <2>4. h[r] = IF r = {} THEN Unit(kind) ELSE Join(kind, f[Pick(r)], h[q])
    BY <2>2 DEF Folds
  <2>5. r # {} => g[q] = h[q]
    BY <2>1, <2>2, PickIn
  <2> QED
    BY <2>3, <2>4, <2>5
<1> QED
  BY <1>1

\* There is one.
LEMMA FoldExists ==
    ASSUME NEW kind \in Kinds, NEW f, NEW T, IsFiniteSet(T)
    PROVE  \E g : Folds(kind, g, f, T)
<1> DEFINE Bad == {s \in SUBSET T : ~\E g : Folds(kind, g, f, s)}
<1>1. Bad = {}
  <2> SUFFICES ASSUME Bad # {} PROVE FALSE
    OBVIOUS
  <2>1. PICK S \in Bad : \A q \in Bad : q \subseteq S => q = S
    <3>1. Bad \in SUBSET SUBSET T
      OBVIOUS
    <3> HIDE DEF Bad
    <3> QED
      BY <3>1, SmallestSubset
  <2> DEFINE part(r) == CHOOSE g : Folds(kind, g, f, r)
             less(r) == r \ {Pick(r)}
             G == [r \in SUBSET S |->
                      IF r = {} THEN Unit(kind)
                      ELSE Join(kind, f[Pick(r)], part(less(r))[less(r)])]
  <2>2. S \in SUBSET T /\ IsFiniteSet(S)
    BY FS_Subset
  <2>3. ASSUME NEW r \in SUBSET S, r # S PROVE Folds(kind, part(r), f, r) /\ IsFiniteSet(r)
    <3>1. \E g : Folds(kind, g, f, r)
      BY <2>1, <2>2, <2>3
    <3> QED
      BY <2>2, <3>1, FS_Subset
  <2> HIDE DEF part
  <2>4. ASSUME NEW r \in SUBSET S, r # S PROVE G[r] = part(r)[r]
    <3>1. part(r)[r] = IF r = {} THEN Unit(kind) ELSE Join(kind, f[Pick(r)], part(r)[less(r)])
      <4>1. Folds(kind, part(r), f, r)
        BY <2>3, <2>4
      <4> QED
        BY <4>1 DEF Folds
    <3>2. ASSUME r # {} PROVE part(r)[less(r)] = part(less(r))[less(r)]
      <4>1. Folds(kind, part(r), f, r) /\ IsFiniteSet(r)
        BY <2>3, <2>4
      <4>2. Folds(kind, part(less(r)), f, less(r)) /\ less(r) \subseteq r
        BY <2>3, <2>4, <3>2, PickIn
      <4> HIDE DEF less
      <4> QED
        BY <4>1, <4>2, FoldsAgree
    <3> QED
      BY <3>1, <3>2
  <2>5. ASSUME NEW r \in SUBSET S, r # {} PROVE G[r] = Join(kind, f[Pick(r)], G[less(r)])
    <3>1. less(r) \in SUBSET S /\ less(r) # S
      BY <2>5, PickIn
    <3>2. G[less(r)] = part(less(r))[less(r)]
      <4> HIDE DEF less, G
      <4> QED
        BY <2>4, <3>1
    <3>3. G[r] = Join(kind, f[Pick(r)], part(less(r))[less(r)])
      BY <2>5
    <3> QED
      BY <3>2, <3>3
  <2>6. G = [r \in SUBSET S |->
                IF r = {} THEN Unit(kind) ELSE Join(kind, f[Pick(r)], G[less(r)])]
    <3>1. G = [r \in SUBSET S |-> G[r]]
      OBVIOUS
    <3>2. \A r \in SUBSET S :
             G[r] = IF r = {} THEN Unit(kind) ELSE Join(kind, f[Pick(r)], G[less(r)])
      <4> SUFFICES ASSUME NEW r \in SUBSET S
                   PROVE  G[r] = IF r = {} THEN Unit(kind)
                                 ELSE Join(kind, f[Pick(r)], G[less(r)])
        OBVIOUS
      <4>1. CASE r = {}
        BY <4>1
      <4>2. CASE r # {}
        <5> HIDE DEF G
        <5> QED
          BY <2>5, <4>2
      <4> QED
        BY <4>1, <4>2
    <3> HIDE DEF G
    <3> QED
      BY <3>1, <3>2
  <2>7. Folds(kind, G, f, S)
    BY <2>6 DEF Folds
  <2> QED
    BY <2>7
<1> QED
  BY <1>1

\* Sum and product are the fold, taken at the whole set.
LEMMA FoldIsOver ==
    ASSUME NEW kind \in Kinds, NEW f, NEW S, IsFiniteSet(S)
    PROVE  \E h : Folds(kind, h, f, S) /\ FoldOver(kind, f, S) = h[S]
<1> DEFINE Adds(h) == h = [s \in SUBSET S |-> IF s = {} THEN 0 ELSE f[Pick(s)] + h[s \ {Pick(s)}]]
           Mults(h) == h = [s \in SUBSET S |-> IF s = {} THEN 1 ELSE f[Pick(s)] * h[s \ {Pick(s)}]]
<1>1. ASSUME kind = "sum" PROVE \A h : Folds(kind, h, f, S) <=> Adds(h)
  BY <1>1 DEF Folds, Unit, Join
<1>2. ASSUME kind # "sum" PROVE \A h : Folds(kind, h, f, S) <=> Mults(h)
  BY <1>2 DEF Folds, Unit, Join
<1>3. SumOver(f, S) = (CHOOSE h : Adds(h))[S]
  BY Zenon DEF SumOver, MapThenSumSet, MapThenFoldSet, Pick
<1>4. ProductOver(f, S) = (CHOOSE h : Mults(h))[S]
  BY Zenon DEF ProductOver, FoldSet, MapThenFoldSet, Pick
<1>5. PICK g : Folds(kind, g, f, S)
  BY FoldExists
<1> HIDE DEF Adds, Mults
<1>6. CASE kind = "sum"
  <2>1. Adds(CHOOSE h : Adds(h))
    BY <1>1, <1>5, <1>6
  <2> QED
    BY <1>1, <1>3, <1>6, <2>1 DEF FoldOver
<1>7. CASE kind # "sum"
  <2>1. Mults(CHOOSE h : Mults(h))
    BY <1>2, <1>5, <1>7
  <2> QED
    BY <1>2, <1>4, <1>7, <2>1 DEF FoldOver
<1> QED
  BY <1>6, <1>7

\* And of any fold that is defined on it.
LEMMA OverIsFold ==
    ASSUME NEW kind \in Kinds, NEW f, NEW T, IsFiniteSet(T), NEW g, Folds(kind, g, f, T),
           NEW S \in SUBSET T
    PROVE  FoldOver(kind, f, S) = g[S]
<1>1. IsFiniteSet(S)
  BY FS_Subset
<1>2. PICK h : Folds(kind, h, f, S) /\ FoldOver(kind, f, S) = h[S]
  BY <1>1, FoldIsOver
<1> QED
  BY <1>2, FoldsAgree

\* Nothing is joined over the empty set.
LEMMA FoldEmpty ==
    ASSUME NEW kind \in Kinds, NEW f
    PROVE  FoldOver(kind, f, {}) = Unit(kind)
<1>1. PICK g : Folds(kind, g, f, {})
  BY FoldExists, FS_EmptySet
<1>2. g[{}] = Unit(kind)
  BY <1>1 DEF Folds
<1> QED
  BY <1>1, <1>2, OverIsFold, FS_EmptySet

\* One step of the fold.
LEMMA FoldPick ==
    ASSUME NEW kind \in Kinds, NEW f, NEW S, IsFiniteSet(S), S # {}
    PROVE  FoldOver(kind, f, S) = Join(kind, f[Pick(S)], FoldOver(kind, f, S \ {Pick(S)}))
<1>1. PICK g : Folds(kind, g, f, S)
  BY FoldExists
<1>2. g[S] = Join(kind, f[Pick(S)], g[S \ {Pick(S)}])
  BY <1>1 DEF Folds
<1>3. FoldOver(kind, f, S) = g[S]
  BY <1>1, OverIsFold
<1>4. FoldOver(kind, f, S \ {Pick(S)}) = g[S \ {Pick(S)}]
  <2>1. S \ {Pick(S)} \in SUBSET S
    OBVIOUS
  <2> QED
    BY <1>1, <2>1, OverIsFold
<1> QED
  BY <1>2, <1>3, <1>4

\* Over integers it is an integer.
LEMMA FoldInt ==
    ASSUME NEW kind \in Kinds, NEW f, NEW S, IsFiniteSet(S), \A x \in S : f[x] \in Int
    PROVE  FoldOver(kind, f, S) \in Int
<1> DEFINE Bad == {s \in SUBSET S : FoldOver(kind, f, s) \notin Int}
<1>1. Bad = {}
  <2> SUFFICES ASSUME Bad # {} PROVE FALSE
    OBVIOUS
  <2>1. PICK r \in Bad : \A q \in Bad : q \subseteq r => q = r
    <3>1. Bad \in SUBSET SUBSET S
      OBVIOUS
    <3> HIDE DEF Bad
    <3> QED
      BY <3>1, SmallestSubset
  <2>2. r # {}
    BY FoldEmpty DEF Unit
  <2>3. Pick(r) \in r /\ IsFiniteSet(r)
    BY <2>2, PickIn, FS_Subset
  <2>4. FoldOver(kind, f, r \ {Pick(r)}) \in Int
    BY <2>1, <2>3
  <2>5. FoldOver(kind, f, r) = Join(kind, f[Pick(r)], FoldOver(kind, f, r \ {Pick(r)}))
    BY <2>2, <2>3, FoldPick
  <2>6. f[Pick(r)] \in Int
    BY <2>3
  <2> QED
    BY <2>4, <2>5, <2>6, JoinFacts
<1> QED
  BY <1>1

\* Any element may be taken away first.
LEMMA FoldStep ==
    ASSUME NEW kind \in Kinds, NEW f, NEW S, IsFiniteSet(S),
           \A x \in S : f[x] \in Int, NEW x \in S
    PROVE  FoldOver(kind, f, S) = Join(kind, f[x], FoldOver(kind, f, S \ {x}))
<1> DEFINE Bad == {s \in SUBSET S :
                      \E y \in s : FoldOver(kind, f, s) #
                                      Join(kind, f[y], FoldOver(kind, f, s \ {y}))}
<1>1. Bad = {}
  <2> SUFFICES ASSUME Bad # {} PROVE FALSE
    OBVIOUS
  <2>1. PICK r \in Bad : \A q \in Bad : q \subseteq r => q = r
    <3>1. Bad \in SUBSET SUBSET S
      OBVIOUS
    <3> HIDE DEF Bad
    <3> QED
      BY <3>1, SmallestSubset
  <2>2. PICK y \in r : FoldOver(kind, f, r) # Join(kind, f[y], FoldOver(kind, f, r \ {y}))
    OBVIOUS
  <2> DEFINE p == Pick(r)
             a == r \ {p}
             b == r \ {y}
             c == r \ {p, y}
  <2>3. /\ p \in r /\ r \in SUBSET S
        /\ IsFiniteSet(r) /\ IsFiniteSet(a) /\ IsFiniteSet(b) /\ IsFiniteSet(c)
    BY PickIn, FS_Subset
  <2>4. FoldOver(kind, f, r) = Join(kind, f[p], FoldOver(kind, f, a))
    BY <2>3, FoldPick
  <2> HIDE DEF p
  <2>5. p # y
    BY <2>2, <2>4
  <2>6. FoldOver(kind, f, a) = Join(kind, f[y], FoldOver(kind, f, c))
    <3>1. a \in SUBSET S /\ a \subseteq r /\ a # r /\ y \in a /\ c = a \ {y}
      BY <2>3, <2>5
    <3>2. a \notin Bad
      BY <2>1, <3>1
    <3> HIDE DEF a, c
    <3> QED
      BY <3>1, <3>2
  <2>7. FoldOver(kind, f, b) = Join(kind, f[p], FoldOver(kind, f, c))
    <3>1. b \in SUBSET S /\ b \subseteq r /\ b # r /\ p \in b /\ c = b \ {p}
      BY <2>3, <2>5
    <3>2. b \notin Bad
      BY <2>1, <3>1
    <3> HIDE DEF b, c
    <3> QED
      BY <3>1, <3>2
  <2>8. FoldOver(kind, f, c) \in Int /\ f[p] \in Int /\ f[y] \in Int
    BY <2>3, FoldInt
  <2> HIDE DEF a, b, c
  <2>9. FoldOver(kind, f, r) = Join(kind, f[y], FoldOver(kind, f, b))
    BY <2>4, <2>6, <2>7, <2>8, JoinFacts
  <2> QED
    BY <2>2, <2>9 DEF b
<1> QED
  BY <1>1

\* Over equal values it is equal.
LEMMA FoldEqual ==
    ASSUME NEW kind \in Kinds, NEW f, NEW g, NEW S, IsFiniteSet(S), \A x \in S : f[x] = g[x]
    PROVE  FoldOver(kind, f, S) = FoldOver(kind, g, S)
<1> DEFINE Bad == {s \in SUBSET S : FoldOver(kind, f, s) # FoldOver(kind, g, s)}
<1>1. Bad = {}
  <2> SUFFICES ASSUME Bad # {} PROVE FALSE
    OBVIOUS
  <2>1. PICK r \in Bad : \A q \in Bad : q \subseteq r => q = r
    <3>1. Bad \in SUBSET SUBSET S
      OBVIOUS
    <3> HIDE DEF Bad
    <3> QED
      BY <3>1, SmallestSubset
  <2>2. r # {}
    BY FoldEmpty
  <2>3. Pick(r) \in r /\ IsFiniteSet(r)
    BY <2>2, PickIn, FS_Subset
  <2>4. FoldOver(kind, f, r \ {Pick(r)}) = FoldOver(kind, g, r \ {Pick(r)})
    BY <2>1, <2>3
  <2>5. /\ FoldOver(kind, f, r) = Join(kind, f[Pick(r)], FoldOver(kind, f, r \ {Pick(r)}))
        /\ FoldOver(kind, g, r) = Join(kind, g[Pick(r)], FoldOver(kind, g, r \ {Pick(r)}))
    BY <2>2, <2>3, FoldPick
  <2>6. f[Pick(r)] = g[Pick(r)]
    BY <2>3
  <2>7. FoldOver(kind, f, r) = FoldOver(kind, g, r)
    BY <2>4, <2>5, <2>6
  <2> QED
    BY <2>7
<1> QED
  BY <1>1

-----------------------------------------------------------------------------
(***************************************************************************)
(* Sums.                                                                   *)
(***************************************************************************)

\* The sum over nothing.
LEMMA SumEmpty ==
    ASSUME NEW f
    PROVE  SumOver(f, {}) = 0
BY FoldEmpty DEF Kinds, FoldOver, Unit

\* One step of the sum.
LEMMA SumPick ==
    ASSUME NEW f, NEW S, IsFiniteSet(S), S # {}
    PROVE  SumOver(f, S) = f[Pick(S)] + SumOver(f, S \ {Pick(S)})
<1>1. FoldOver("sum", f, S) = Join("sum", f[Pick(S)], FoldOver("sum", f, S \ {Pick(S)}))
  BY FoldPick DEF Kinds
<1> QED
  BY <1>1 DEF FoldOver, Join

\* A sum of integers is an integer.
LEMMA SumInt ==
    ASSUME NEW f, NEW S, IsFiniteSet(S), \A x \in S : f[x] \in Int
    PROVE  SumOver(f, S) \in Int
BY FoldInt DEF Kinds, FoldOver

\* Any element may be taken away first.
LEMMA SumStep ==
    ASSUME NEW f, NEW S, IsFiniteSet(S), \A x \in S : f[x] \in Int, NEW x \in S
    PROVE  SumOver(f, S) = f[x] + SumOver(f, S \ {x})
<1>1. FoldOver("sum", f, S) = Join("sum", f[x], FoldOver("sum", f, S \ {x}))
  BY FoldStep DEF Kinds
<1> QED
  BY <1>1 DEF FoldOver, Join

\* Sums of equal values are equal.
LEMMA SumEqual ==
    ASSUME NEW f, NEW g, NEW S, IsFiniteSet(S), \A x \in S : f[x] = g[x]
    PROVE  SumOver(f, S) = SumOver(g, S)
<1>1. FoldOver("sum", f, S) = FoldOver("sum", g, S)
  BY FoldEqual DEF Kinds
<1> QED
  BY <1>1 DEF FoldOver

\* The sum over two parts.
LEMMA SumUnion ==
    ASSUME NEW f, NEW S, NEW T, IsFiniteSet(S), IsFiniteSet(T), S \cap T = {},
           \A x \in S \cup T : f[x] \in Int
    PROVE  SumOver(f, S \cup T) = SumOver(f, S) + SumOver(f, T)
<1> DEFINE Bad == {s \in SUBSET S : SumOver(f, s \cup T) # SumOver(f, s) + SumOver(f, T)}
<1>1. Bad = {}
  <2> SUFFICES ASSUME Bad # {} PROVE FALSE
    OBVIOUS
  <2>1. PICK r \in Bad : \A q \in Bad : q \subseteq r => q = r
    <3>1. Bad \in SUBSET SUBSET S
      OBVIOUS
    <3> HIDE DEF Bad
    <3> QED
      BY <3>1, SmallestSubset
  <2>2. SumOver(f, T) \in Int
    BY SumInt
  <2>3. r # {}
    <3> SUFFICES ASSUME r = {} PROVE FALSE
      OBVIOUS
    <3>1. r \cup T = T
      OBVIOUS
    <3> QED
      BY <2>2, <3>1, SumEmpty
  <2> DEFINE p == Pick(r)
             q == r \ {p}
  <2>4. p \in r /\ IsFiniteSet(r) /\ IsFiniteSet(q) /\ IsFiniteSet(r \cup T)
    BY <2>3, PickIn, FS_Subset, FS_Union
  <2>5. SumOver(f, q \cup T) = SumOver(f, q) + SumOver(f, T)
    <3>1. q \in SUBSET S /\ q \subseteq r /\ q # r
      BY <2>4
    <3> HIDE DEF q
    <3> QED
      BY <2>1, <3>1
  <2>6. SumOver(f, r) = f[p] + SumOver(f, q)
    BY <2>3, <2>4, SumPick
  <2>7. SumOver(f, r \cup T) = f[p] + SumOver(f, q \cup T)
    <3>1. (r \cup T) \ {p} = q \cup T /\ p \in r \cup T
      BY <2>4
    <3> HIDE DEF p, q
    <3> QED
      BY <2>4, <3>1, SumStep
  <2>8. SumOver(f, q) \in Int /\ f[p] \in Int
    BY <2>4, SumInt
  <2> HIDE DEF p, q
  <2>9. SumOver(f, r \cup T) = SumOver(f, r) + SumOver(f, T)
    BY <2>2, <2>5, <2>6, <2>7, <2>8
  <2> QED
    BY <2>9
<1>2. S \notin Bad
  BY <1>1
<1> QED
  BY <1>2

\* Values of zero need not be summed.
LEMMA SumZero ==
    ASSUME NEW f, NEW S, IsFiniteSet(S), \A x \in S : f[x] = 0
    PROVE  SumOver(f, S) = 0
<1> DEFINE Bad == {s \in SUBSET S : SumOver(f, s) # 0}
<1>1. Bad = {}
  <2> SUFFICES ASSUME Bad # {} PROVE FALSE
    OBVIOUS
  <2>1. PICK r \in Bad : \A q \in Bad : q \subseteq r => q = r
    <3>1. Bad \in SUBSET SUBSET S
      OBVIOUS
    <3> HIDE DEF Bad
    <3> QED
      BY <3>1, SmallestSubset
  <2>2. r # {}
    BY SumEmpty
  <2>3. Pick(r) \in r /\ IsFiniteSet(r)
    BY <2>2, PickIn, FS_Subset
  <2>4. SumOver(f, r \ {Pick(r)}) = 0
    BY <2>1, <2>3
  <2>5. SumOver(f, r) = f[Pick(r)] + SumOver(f, r \ {Pick(r)})
    BY <2>2, <2>3, SumPick
  <2> QED
    BY <2>3, <2>4, <2>5
<1> QED
  BY <1>1

LEMMA SumSupport ==
    ASSUME NEW f, NEW S, IsFiniteSet(S), NEW A, A \subseteq S,
           \A x \in S : f[x] \in Int, \A x \in S \ A : f[x] = 0
    PROVE  SumOver(f, S) = SumOver(f, A)
<1>1. S = A \cup (S \ A) /\ IsFiniteSet(A) /\ IsFiniteSet(S \ A)
  BY FS_Subset
<1>2. SumOver(f, A \cup (S \ A)) = SumOver(f, A) + SumOver(f, S \ A)
  BY <1>1, SumUnion
<1>3. SumOver(f, S \ A) = 0 /\ SumOver(f, A) \in Int
  BY <1>1, SumZero, SumInt
<1>4. SumOver(f, A \cup (S \ A)) = SumOver(f, S)
  BY <1>1
<1> QED
  BY <1>2, <1>3, <1>4

\* The sum of two functions.
LEMMA SumPlus ==
    ASSUME NEW f, NEW g, NEW h, NEW S, IsFiniteSet(S),
           \A x \in S : f[x] \in Int /\ g[x] \in Int /\ h[x] = f[x] + g[x]
    PROVE  SumOver(h, S) = SumOver(f, S) + SumOver(g, S)
<1> DEFINE Bad == {s \in SUBSET S : SumOver(h, s) # SumOver(f, s) + SumOver(g, s)}
<1>1. Bad = {}
  <2> SUFFICES ASSUME Bad # {} PROVE FALSE
    OBVIOUS
  <2>1. PICK r \in Bad : \A q \in Bad : q \subseteq r => q = r
    <3>1. Bad \in SUBSET SUBSET S
      OBVIOUS
    <3> HIDE DEF Bad
    <3> QED
      BY <3>1, SmallestSubset
  <2>2. r # {}
    <3> SUFFICES ASSUME r = {} PROVE FALSE
      OBVIOUS
    <3>1. SumOver(f, r) = 0 /\ SumOver(g, r) = 0 /\ SumOver(h, r) = 0
      BY SumEmpty
    <3>2. SumOver(h, r) # SumOver(f, r) + SumOver(g, r)
      OBVIOUS
    <3> QED
      BY <3>1, <3>2
  <2> DEFINE p == Pick(r)
             q == r \ {p}
  <2>3. p \in r /\ IsFiniteSet(r) /\ IsFiniteSet(q)
    BY <2>2, PickIn, FS_Subset
  <2>4. SumOver(h, q) = SumOver(f, q) + SumOver(g, q)
    <3>1. q \in SUBSET S /\ q \subseteq r /\ q # r
      BY <2>3
    <3> HIDE DEF q
    <3> QED
      BY <2>1, <3>1
  <2>5. /\ SumOver(f, r) = f[p] + SumOver(f, q)
        /\ SumOver(g, r) = g[p] + SumOver(g, q)
        /\ SumOver(h, r) = h[p] + SumOver(h, q)
    BY <2>2, <2>3, SumPick
  <2>6. SumOver(f, q) \in Int /\ SumOver(g, q) \in Int
    BY <2>3, SumInt
  <2>7. f[p] \in Int /\ g[p] \in Int /\ h[p] = f[p] + g[p]
    BY <2>3
  <2> HIDE DEF p, q
  <2>8. SumOver(h, r) = SumOver(f, r) + SumOver(g, r)
    BY <2>4, <2>5, <2>6, <2>7
  <2> QED
    BY <2>8
<1> QED
  BY <1>1

\* Larger values give a larger sum, and so do more values that are not negative.
LEMMA SumMonotone ==
    ASSUME NEW f, NEW g, NEW S, IsFiniteSet(S),
           \A x \in S : f[x] \in Int /\ g[x] \in Int /\ f[x] <= g[x]
    PROVE  SumOver(f, S) <= SumOver(g, S)
<1> DEFINE Bad == {s \in SUBSET S : ~(SumOver(f, s) <= SumOver(g, s))}
<1>1. Bad = {}
  <2> SUFFICES ASSUME Bad # {} PROVE FALSE
    OBVIOUS
  <2>1. PICK r \in Bad : \A q \in Bad : q \subseteq r => q = r
    <3>1. Bad \in SUBSET SUBSET S
      OBVIOUS
    <3> HIDE DEF Bad
    <3> QED
      BY <3>1, SmallestSubset
  <2>2. r # {}
    BY SumEmpty
  <2> DEFINE p == Pick(r)
             q == r \ {p}
  <2>3. p \in r /\ IsFiniteSet(r) /\ IsFiniteSet(q)
    BY <2>2, PickIn, FS_Subset
  <2>4. SumOver(f, q) <= SumOver(g, q)
    <3>1. q \in SUBSET S /\ q \subseteq r /\ q # r
      BY <2>3
    <3> HIDE DEF q
    <3> QED
      BY <2>1, <3>1
  <2>5. /\ SumOver(f, r) = f[p] + SumOver(f, q)
        /\ SumOver(g, r) = g[p] + SumOver(g, q)
    BY <2>2, <2>3, SumPick
  <2>6. SumOver(f, q) \in Int /\ SumOver(g, q) \in Int
    BY <2>3, SumInt
  <2>7. f[p] \in Int /\ g[p] \in Int /\ f[p] <= g[p]
    BY <2>3
  <2> HIDE DEF p, q
  <2>8. SumOver(f, r) <= SumOver(g, r)
    BY <2>4, <2>5, <2>6, <2>7
  <2> QED
    BY <2>8
<1>2. S \notin Bad
  BY <1>1
<1> QED
  BY <1>2

LEMMA SumOfMore ==
    ASSUME NEW f, NEW S, IsFiniteSet(S), NEW A, A \subseteq S, \A x \in S : f[x] \in Nat
    PROVE  /\ SumOver(f, A) \in Nat
           /\ SumOver(f, A) <= SumOver(f, S)
<1> DEFINE zero == [x \in S |-> 0]
<1>1. IsFiniteSet(A) /\ IsFiniteSet(S \ A)
  BY FS_Subset
<1>2. SumOver(zero, A) = 0 /\ SumOver(zero, S \ A) = 0
  BY <1>1, SumZero
<1>3. SumOver(f, A) \in Int /\ SumOver(f, S \ A) \in Int
  BY <1>1, SumInt
<1>4. SumOver(zero, A) <= SumOver(f, A) /\ SumOver(zero, S \ A) <= SumOver(f, S \ A)
  BY <1>1, SumMonotone
<1>5. SumOver(f, S) = SumOver(f, A) + SumOver(f, S \ A)
  <2>1. S = A \cup (S \ A)
    OBVIOUS
  <2>2. SumOver(f, A \cup (S \ A)) = SumOver(f, A) + SumOver(f, S \ A)
    BY <1>1, SumUnion
  <2> QED
    BY <2>1, <2>2
<1> QED
  BY <1>2, <1>3, <1>4, <1>5

\* A common factor may be taken out.
LEMMA SumScale ==
    ASSUME NEW c \in Int, NEW f, NEW h, NEW S, IsFiniteSet(S),
           \A x \in S : f[x] \in Int /\ h[x] = c * f[x]
    PROVE  SumOver(h, S) = c * SumOver(f, S)
<1> DEFINE Bad == {s \in SUBSET S : SumOver(h, s) # c * SumOver(f, s)}
<1>1. Bad = {}
  <2> SUFFICES ASSUME Bad # {} PROVE FALSE
    OBVIOUS
  <2>1. PICK r \in Bad : \A q \in Bad : q \subseteq r => q = r
    <3>1. Bad \in SUBSET SUBSET S
      OBVIOUS
    <3> HIDE DEF Bad
    <3> QED
      BY <3>1, SmallestSubset
  <2>2. r # {}
    <3> SUFFICES ASSUME r = {} PROVE FALSE
      OBVIOUS
    <3>1. SumOver(f, r) = 0 /\ SumOver(h, r) = 0
      BY SumEmpty
    <3>2. SumOver(h, r) # c * SumOver(f, r)
      OBVIOUS
    <3> QED
      BY <3>1, <3>2
  <2> DEFINE p == Pick(r)
             q == r \ {p}
  <2>3. p \in r /\ IsFiniteSet(r) /\ IsFiniteSet(q)
    BY <2>2, PickIn, FS_Subset
  <2>4. SumOver(h, q) = c * SumOver(f, q)
    <3>1. q \in SUBSET S /\ q \subseteq r /\ q # r
      BY <2>3
    <3> HIDE DEF q
    <3> QED
      BY <2>1, <3>1
  <2>5. /\ SumOver(f, r) = f[p] + SumOver(f, q)
        /\ SumOver(h, r) = h[p] + SumOver(h, q)
    BY <2>2, <2>3, SumPick
  <2>6. SumOver(f, q) \in Int
    BY <2>3, SumInt
  <2>7. f[p] \in Int /\ h[p] = c * f[p]
    BY <2>3
  <2> HIDE DEF p, q
  <2>8. \A a \in Int : \A b \in Int : c * a + c * b = c * (a + b)
    OBVIOUS
  <2>9. SumOver(h, r) = c * SumOver(f, r)
    BY <2>4, <2>5, <2>6, <2>7, <2>8
  <2> QED
    BY <2>9
<1>2. S \notin Bad
  BY <1>1
<1> QED
  BY <1>2

\* Whom a relation pairs with e, and with x; the members of one class.
Seconds(A, R, e) == {x \in A : <<e, x>> \in R}
Firsts(E, R, x) == {e \in E : <<e, x>> \in R}
Class(A, h, t) == {x \in A : h[x] = t}

\* One more to count.
LEMMA CountOneMore ==
    ASSUME NEW E, IsFiniteSet(E), NEW p \in E, NEW R, NEW x
    PROVE  /\ Cardinality(Firsts(E, R, x)) \in Nat
           /\ Cardinality(Firsts(E \ {p}, R, x)) \in Nat
           /\ Cardinality(Firsts(E, R, x)) =
                 Cardinality(Firsts(E \ {p}, R, x)) + (IF <<p, x>> \in R THEN 1 ELSE 0)
<1> DEFINE a == Firsts(E, R, x)
           b == Firsts(E \ {p}, R, x)
<1>1. IsFiniteSet(a) /\ IsFiniteSet(b)
  BY FS_Subset DEF Firsts
<1>2. Cardinality(a) \in Nat /\ Cardinality(b) \in Nat
  BY <1>1, FS_CardinalityType
<1>3. CASE <<p, x>> \in R
  <2>1. a = b \cup {p} /\ p \notin b
    BY <1>3 DEF Firsts
  <2> HIDE DEF a, b
  <2>2. Cardinality(a) = Cardinality(b) + 1
    BY <1>1, <2>1, FS_AddElement
  <2> QED
    BY <1>2, <1>3, <2>2 DEF a, b
<1>4. CASE <<p, x>> \notin R
  <2>1. a = b
    BY <1>4 DEF Firsts
  <2> QED
    BY <1>2, <1>4, <2>1
<1> QED
  BY <1>3, <1>4

\* Two orders of summing a value f over the pairs of a relation R: g has its sum for every
\* first, h its multiple for every second.
TwoOrders(E, A, R, f, g, h) ==
    /\ \A x \in A : f[x] \in Int
    /\ \A e \in E : g[e] = SumOver(f, Seconds(A, R, e))
    /\ \A x \in A : h[x] = f[x] * Cardinality(Firsts(E, R, x))

LEMMA SumsSwap ==
    ASSUME NEW E, IsFiniteSet(E), NEW A, IsFiniteSet(A), NEW R, NEW f, NEW g, NEW h,
           TwoOrders(E, A, R, f, g, h)
    PROVE  SumOver(g, E) = SumOver(h, A)
<1> USE DEF TwoOrders
<1> DEFINE H(s) == [x \in A |-> f[x] * Cardinality(Firsts(s, R, x))]
           Bad == {s \in SUBSET E : SumOver(g, s) # SumOver(H(s), A)}
<1>0. \A s \in SUBSET E : \A x \in A : H(s)[x] = f[x] * Cardinality(Firsts(s, R, x))
  OBVIOUS
<1> HIDE DEF H
<1>1. Bad = {}
  <2> SUFFICES ASSUME Bad # {} PROVE FALSE
    OBVIOUS
  <2>1. PICK r \in Bad : \A q \in Bad : q \subseteq r => q = r
    <3>1. Bad \in SUBSET SUBSET E
      OBVIOUS
    <3> HIDE DEF Bad
    <3> QED
      BY <3>1, SmallestSubset
  <2>2. r # {}
    <3>1. \A x \in A : H({})[x] = 0
      <4>1. \A x \in A : Firsts({}, R, x) = {}
        BY DEF Firsts
      <4>2. \A x \in A : Cardinality(Firsts({}, R, x)) = 0
        BY <4>1, FS_EmptySet
      <4>3. \A x \in A : f[x] * 0 = 0
        OBVIOUS
      <4> QED
        BY <1>0, <4>2, <4>3
    <3>2. SumOver(H({}), A) = 0 /\ SumOver(g, {}) = 0
      BY <3>1, SumZero, SumEmpty
    <3> QED
      BY <3>2
  <2>3. PICK p \in r : TRUE
    BY <2>2
  <2> DEFINE q == r \ {p}
             P == Seconds(A, R, p)
             k == [x \in A |-> IF x \in P THEN f[x] ELSE 0]
  <2>4. /\ r \in SUBSET E /\ q \in SUBSET E /\ p \in E
        /\ IsFiniteSet(r) /\ IsFiniteSet(q) /\ IsFiniteSet(P)
    BY FS_Subset DEF Seconds
  <2>5. SumOver(g, q) = SumOver(H(q), A)
    <3>1. q \subseteq r /\ q # r
      OBVIOUS
    <3> HIDE DEF q
    <3> QED
      BY <2>1, <2>4, <3>1
  <2>6. \A e \in r : g[e] \in Int
    <3>1. \A e \in E : IsFiniteSet(Seconds(A, R, e)) /\ Seconds(A, R, e) \subseteq A
      BY FS_Subset DEF Seconds
    <3> QED
      BY <2>4, <3>1, SumInt
  <2>7. SumOver(g, r) = SumOver(f, P) + SumOver(g, q)
    BY <2>4, <2>6, SumStep
  <2>8. \A x \in A : k[x] \in Int /\ k[x] = IF <<p, x>> \in R THEN f[x] ELSE 0
    BY DEF Seconds
  <2>9. SumOver(k, A) = SumOver(f, P)
    <3>1. P \subseteq A /\ (\A x \in A \ P : k[x] = 0) /\ (\A x \in P : k[x] = f[x])
      BY DEF Seconds
    <3> HIDE DEF k, P
    <3>2. SumOver(k, A) = SumOver(k, P)
      BY <2>8, <3>1, SumSupport
    <3>3. SumOver(k, P) = SumOver(f, P)
      BY <2>4, <3>1, SumEqual
    <3> QED
      BY <3>2, <3>3
  <2> HIDE DEF k
  <2>10. \A x \in A : H(q)[x] \in Int /\ H(r)[x] = H(q)[x] + k[x]
    <3> SUFFICES ASSUME NEW x \in A
                 PROVE  H(q)[x] \in Int /\ H(r)[x] = H(q)[x] + k[x]
      OBVIOUS
    <3> DEFINE cr == Cardinality(Firsts(r, R, x))
               cq == Cardinality(Firsts(q, R, x))
    <3>1. cr \in Nat /\ cq \in Nat /\ cr = cq + (IF <<p, x>> \in R THEN 1 ELSE 0)
      BY <2>4, CountOneMore
    <3>2. H(q)[x] = f[x] * cq /\ H(r)[x] = f[x] * cr
      BY <1>0, <2>4
    <3>3. k[x] = (IF <<p, x>> \in R THEN f[x] ELSE 0) /\ f[x] \in Int
      BY <2>8
    <3> HIDE DEF cr, cq
    <3>4. f[x] * cq \in Int /\ f[x] * (cq + 1) = f[x] * cq + f[x]
          /\ f[x] * (cq + 0) = f[x] * cq + 0
      BY <3>1, <3>3
    <3> QED
      BY <3>1, <3>2, <3>3, <3>4
  <2>11. SumOver(H(r), A) = SumOver(H(q), A) + SumOver(k, A)
    <3>1. \A x \in A : H(q)[x] \in Int /\ k[x] \in Int /\ H(r)[x] = H(q)[x] + k[x]
      BY <2>8, <2>10
    <3> HIDE DEF q
    <3> QED
      BY ONLY <3>1, IsFiniteSet(A), SumPlus
  <2>12. SumOver(H(q), A) \in Int /\ SumOver(k, A) \in Int
    BY <2>8, <2>10, SumInt
  <2> HIDE DEF q, P
  <2>13. SumOver(g, r) = SumOver(H(r), A)
    BY <2>5, <2>7, <2>9, <2>11, <2>12
  <2> QED
    BY <2>13
<1>2. SumOver(g, E) = SumOver(H(E), A)
  <2>1. E \notin Bad
    BY <1>1
  <2> QED
    BY <2>1
<1>3. SumOver(H(E), A) = SumOver(h, A)
  <2>1. \A x \in A : H(E)[x] = h[x]
    BY <1>0
  <2> QED
    BY <2>1, SumEqual
<1> QED
  BY <1>2, <1>3

\* A sum taken class by class.
LEMMA SumByClass ==
    ASSUME NEW A, IsFiniteSet(A), NEW f, \A x \in A : f[x] \in Int,
           NEW T, IsFiniteSet(T), NEW c, \A x \in A : c[x] \in T,
           NEW g, \A t \in T : g[t] = SumOver(f, Class(A, c, t))
    PROVE  SumOver(f, A) = SumOver(g, T)
<1> DEFINE R == {<<c[x], x>> : x \in A}
           h == [x \in A |-> f[x] * Cardinality(Firsts(T, R, x))]
<1>1. \A x \in A : h[x] = f[x] * Cardinality(Firsts(T, R, x))
  OBVIOUS
<1>2. \A t \in T : Seconds(A, R, t) = Class(A, c, t)
  BY DEF Seconds, Class
<1>3. \A x \in A : Cardinality(Firsts(T, R, x)) = 1
  <2> SUFFICES ASSUME NEW x \in A PROVE Cardinality(Firsts(T, R, x)) = 1
    OBVIOUS
  <2>1. Firsts(T, R, x) = {c[x]}
    BY DEF Firsts
  <2> QED
    BY <2>1, FS_Singleton
<1> HIDE DEF R, h
<1>4. SumOver(g, T) = SumOver(h, A)
  <2>1. \A t \in T : g[t] = SumOver(f, Seconds(A, R, t))
    BY <1>2
  <2>2. TwoOrders(T, A, R, f, g, h)
    BY <1>1, <2>1 DEF TwoOrders
  <2> QED
    BY <2>2, SumsSwap
<1>5. \A x \in A : h[x] = f[x]
  <2>1. \A x \in A : f[x] * 1 = f[x]
    OBVIOUS
  <2> QED
    BY <1>1, <1>3, <2>1
<1>6. SumOver(h, A) = SumOver(f, A)
  BY <1>5, SumEqual
<1> QED
  BY <1>4, <1>6

-----------------------------------------------------------------------------
(***************************************************************************)
(* Products.                                                               *)
(***************************************************************************)

\* The product over nothing.
LEMMA ProductEmpty ==
    ASSUME NEW f
    PROVE  ProductOver(f, {}) = 1
BY FoldEmpty DEF Kinds, FoldOver, Unit

\* A product of integers is an integer.
LEMMA ProductInt ==
    ASSUME NEW f, NEW S, IsFiniteSet(S), \A x \in S : f[x] \in Int
    PROVE  ProductOver(f, S) \in Int
<1>1. FoldOver("product", f, S) \in Int
  BY FoldInt DEF Kinds
<1> QED
  BY <1>1 DEF FoldOver

\* Any element may be taken away first.
LEMMA ProductStep ==
    ASSUME NEW f, NEW S, IsFiniteSet(S), \A x \in S : f[x] \in Int, NEW x \in S
    PROVE  ProductOver(f, S) = f[x] * ProductOver(f, S \ {x})
<1>1. FoldOver("product", f, S) = Join("product", f[x], FoldOver("product", f, S \ {x}))
  BY FoldStep DEF Kinds
<1> QED
  BY <1>1 DEF FoldOver, Join

\* Products of equal values are equal.
LEMMA ProductEqual ==
    ASSUME NEW f, NEW g, NEW S, IsFiniteSet(S), \A x \in S : f[x] = g[x]
    PROVE  ProductOver(f, S) = ProductOver(g, S)
<1>1. FoldOver("product", f, S) = FoldOver("product", g, S)
  BY FoldEqual DEF Kinds
<1> QED
  BY <1>1 DEF FoldOver

\* A product of positive values is positive.
LEMMA ProductPositive ==
    ASSUME NEW f, NEW S, IsFiniteSet(S), \A x \in S : f[x] \in Nat /\ f[x] > 0
    PROVE  ProductOver(f, S) \in Nat /\ ProductOver(f, S) > 0
<1> DEFINE Good(n) == n \in Nat /\ n > 0
           Bad == {s \in SUBSET S : ~Good(ProductOver(f, s))}
<1>1. Bad = {}
  <2> SUFFICES ASSUME Bad # {} PROVE FALSE
    OBVIOUS
  <2>1. PICK r \in Bad : \A q \in Bad : q \subseteq r => q = r
    <3>1. Bad \in SUBSET SUBSET S
      OBVIOUS
    <3> HIDE DEF Bad
    <3> QED
      BY <3>1, SmallestSubset
  <2>2. r # {}
    <3>1. Good(ProductOver(f, {}))
      BY ProductEmpty
    <3> HIDE DEF Good
    <3> QED
      BY <3>1
  <2>3. PICK x \in r : TRUE
    BY <2>2
  <2> DEFINE q == r \ {x}
  <2>4. Good(ProductOver(f, q))
    <3>1. q \in SUBSET S /\ q \subseteq r /\ q # r
      OBVIOUS
    <3> HIDE DEF q, Good
    <3> QED
      BY <2>1, <3>1
  <2>5. ProductOver(f, r) = f[x] * ProductOver(f, q)
    BY FS_Subset, ProductStep
  <2>6. f[x] \in Nat /\ f[x] > 0
    OBVIOUS
  <2> HIDE DEF q
  <2>7. \A a, b \in Nat : a > 0 /\ b > 0 => a * b \in Nat /\ a * b > 0
    OBVIOUS
  <2>8. Good(ProductOver(f, r))
    BY <2>4, <2>5, <2>6, <2>7
  <2> QED
    BY <2>8
<1>2. S \notin Bad
  BY <1>1
<1> QED
  BY <1>2
=============================================================================
