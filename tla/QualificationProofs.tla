------------------------ MODULE QualificationProofs ------------------------
(***************************************************************************)
(* Proofs about Qualification and the tables of Standings, for any groups, *)
(* results, slots and lots.  The tables: the recursion of head to head is  *)
(* sound, and where it reports no tie the alphabet decided nothing, so     *)
(* FIFA's lots would give the same order.  The bracket: what the resolver  *)
(* shows from right results is therefore what FIFA publishes.              *)
(***************************************************************************)
EXTENDS Qualification, SumTheorems, FunctionTheorems

-----------------------------------------------------------------------------
(***************************************************************************)
(* The tables.                                                             *)
(***************************************************************************)

\* The classes of a key are parts of the set, and proper ones unless there is only one.
LEMMA LevelsPart ==
    ASSUME NEW S, NEW key, NEW C \in Level(S, key)
    PROVE  C \subseteq S /\ (C = S => Level(S, key) = {S})
<1>1. PICK t \in S : C = {u \in S : key[u] = key[t]}
  BY DEF Level
<1>2. ASSUME C = S PROVE Level(S, key) = {S}
  <2>1. \A u \in S : key[u] = key[t]
    BY <1>1, <1>2
  <2>2. \A v \in S : {u \in S : key[u] = key[v]} = S
    BY <2>1
  <2> QED
    BY <2>2 DEF Level
<1> QED
  BY <1>1, <1>2

\* A function that gathers what the parts of a set give exists: it gathers over all that can
\* be reached from the set.
Gathers(f, T, own, parts) == f = [S \in SUBSET T |-> own[S] \cup UNION {f[C] : C \in parts[S]}]

LEMMA Gathering ==
    ASSUME NEW T, NEW own, NEW parts \in [SUBSET T -> SUBSET SUBSET T]
    PROVE  \E f : Gathers(f, T, own, parts)
<1> DEFINE Closed(R) == \A D \in R : parts[D] \subseteq R
           Below(S) == {C \in SUBSET T : \A R \in SUBSET SUBSET T : S \in R /\ Closed(R) => C \in R}
           f == [S \in SUBSET T |-> UNION {own[C] : C \in Below(S)}]
<1>1. ASSUME NEW S \in SUBSET T PROVE Below(S) = {S} \cup UNION {Below(C) : C \in parts[S]}
  <2> DEFINE All == {S} \cup UNION {Below(C) : C \in parts[S]}
  <2>0. parts[S] \in SUBSET SUBSET T
    OBVIOUS
  <2>1. S \in Below(S)
    OBVIOUS
  <2>2. ASSUME NEW C \in parts[S], NEW D \in Below(C) PROVE D \in Below(S)
    <3> SUFFICES ASSUME NEW R \in SUBSET SUBSET T, S \in R, Closed(R) PROVE D \in R
      OBVIOUS
    <3>1. C \in R
      OBVIOUS
    <3> QED
      BY <3>1
  <2>3. ASSUME NEW D \in Below(S) PROVE D \in All
    <3>1. S \in All /\ All \in SUBSET SUBSET T
      BY <2>0
    <3>2. ASSUME NEW E \in All, NEW F \in parts[E] PROVE F \in All
      <4>1. CASE E = S
        <5>1. F \in Below(F)
          BY <2>0, <4>1
        <5> QED
          BY <4>1, <5>1
      <4>2. CASE E # S
        <5>1. PICK C \in parts[S] : E \in Below(C)
          BY <4>2
        <5>2. F \in Below(C)
          <6>1. F \in SUBSET T
            BY <3>1
          <6> SUFFICES ASSUME NEW R \in SUBSET SUBSET T, C \in R, Closed(R) PROVE F \in R
            BY <6>1
          <6>2. E \in R
            BY <5>1
          <6> QED
            BY <6>2
        <5> QED
          BY <5>2
      <4> QED
        BY <4>1, <4>2
    <3>3. Closed(All)
      BY <3>2
    <3> HIDE DEF All, Closed
    <3> QED
      BY <3>1, <3>3
  <2> HIDE DEF Below
  <2> QED
    BY <2>1, <2>2, <2>3
<1>2. ASSUME NEW S \in SUBSET T
      PROVE  f[S] = own[S] \cup UNION {f[C] : C \in parts[S]}
  <2>1. parts[S] \subseteq SUBSET T
    OBVIOUS
  <2> HIDE DEF Below
  <2>2. f[S] = UNION {own[C] : C \in Below(S)}
    OBVIOUS
  <2>3. \A C \in parts[S] : f[C] = UNION {own[D] : D \in Below(C)}
    BY <2>1
  <2> HIDE DEF f
  <2>4. \A x : x \in f[S] <=> \E C \in Below(S) : x \in own[C]
    BY <2>2
  <2>5. \A x : x \in f[S] <=> x \in own[S] \/ \E C \in parts[S] : \E D \in Below(C) : x \in own[D]
    BY <1>1, <2>4
  <2>6. \A x : x \in f[S] <=> x \in own[S] \/ \E C \in parts[S] : x \in f[C]
    BY <2>3, <2>5
  <2> QED
    BY <2>6
<1>3. f = [S \in SUBSET T |-> own[S] \cup UNION {f[C] : C \in parts[S]}]
  <2>1. f = [S \in SUBSET T |-> f[S]]
    OBVIOUS
  <2> HIDE DEF f
  <2> QED
    BY <1>2, <2>1
<1> QED
  BY <1>3 DEF Gathers

\* The parts that _resolve_group_tie calls itself on.
Parts(S, results) ==
    LET level == Level(S, MiniTable(S, results)) IN IF level = {S} THEN {} ELSE level

LEMMA PartsAreProper ==
    ASSUME NEW results, NEW S, NEW C \in Parts(S, results)
    PROVE  C \subseteq S /\ C # S
BY LevelsPart DEF Parts

\* The recursion of _resolve_group_tie has a solution, so its result obeys its definition.
LEMMA HeadToHeadHolds ==
    ASSUME NEW results, NEW alphabet
    PROVE  \A S \in SUBSET InTable(results) :
              ByHeadToHead(results, alphabet)[S] =
                  Resolve(S, ByHeadToHead(results, alphabet), results, alphabet)
<1> DEFINE T == InTable(results)
           Is(f) == f = [S \in SUBSET T |-> Resolve(S, f, results, alphabet)]
           Own(S) == {p \in S \X S : Above(MiniTable(S, results)[p[1]], MiniTable(S, results)[p[2]])}
                     \cup IF Level(S, MiniTable(S, results)) = {S}
                          THEN ByOverall(S, results, alphabet) ELSE {}
           own == [S \in SUBSET T |-> Own(S)]
           parts == [S \in SUBSET T |-> Parts(S, results)]
<1>1. ByHeadToHead(results, alphabet) = CHOOSE f : Is(f)
  BY Zenon DEF ByHeadToHead
<1>2. parts \in [SUBSET T -> SUBSET SUBSET T]
  BY PartsAreProper
<1>3. ASSUME NEW f, NEW S
      PROVE  Resolve(S, f, results, alphabet) = Own(S) \cup UNION {f[C] : C \in Parts(S, results)}
  BY DEF Resolve, Parts
<1>4. \E f : Gathers(f, T, own, parts)
  <2> HIDE DEF own, parts, T
  <2> QED
    BY <1>2, Gathering
<1>5. \E f : Is(f)
  <2>1. PICK f : Gathers(f, T, own, parts)
    BY <1>4
  <2>2. \A S \in SUBSET T : own[S] \cup UNION {f[C] : C \in parts[S]}
                             = Resolve(S, f, results, alphabet)
    BY <1>3
  <2> HIDE DEF own, parts, T
  <2>3. f = [S \in SUBSET T |-> Resolve(S, f, results, alphabet)]
    BY <2>1, <2>2 DEF Gathers
  <2> QED
    BY <2>3
<1> HIDE DEF Is
<1>6. Is(CHOOSE f : Is(f))
  BY <1>5
<1>7. ByHeadToHead(results, alphabet) =
          [S \in SUBSET T |-> Resolve(S, ByHeadToHead(results, alphabet), results, alphabet)]
  BY Zenon, <1>1, <1>6 DEF Is
<1> QED
  BY <1>7

\* And so do the ties it reports.
LEMMA TiesHold ==
    ASSUME NEW results
    PROVE  \A S \in SUBSET InTable(results) :
              HeadToHeadTies(results)[S] = Unresolved(S, HeadToHeadTies(results), results)
<1> DEFINE T == InTable(results)
           Is(f) == f = [S \in SUBSET T |-> Unresolved(S, f, results)]
           Own(S) == IF Level(S, MiniTable(S, results)) = {S} THEN AlphabetTies(S, results) ELSE {}
           own == [S \in SUBSET T |-> Own(S)]
           parts == [S \in SUBSET T |-> Parts(S, results)]
<1>1. HeadToHeadTies(results) = CHOOSE f : Is(f)
  BY Zenon DEF HeadToHeadTies
<1>2. parts \in [SUBSET T -> SUBSET SUBSET T]
  BY PartsAreProper
<1>3. ASSUME NEW f, NEW S
      PROVE  Unresolved(S, f, results) = Own(S) \cup UNION {f[C] : C \in Parts(S, results)}
  BY DEF Unresolved, Parts
<1>4. \E f : Gathers(f, T, own, parts)
  <2> HIDE DEF own, parts, T
  <2> QED
    BY <1>2, Gathering
<1>5. \E f : Is(f)
  <2>1. PICK f : Gathers(f, T, own, parts)
    BY <1>4
  <2>2. \A S \in SUBSET T : own[S] \cup UNION {f[C] : C \in parts[S]} = Unresolved(S, f, results)
    BY <1>3
  <2> HIDE DEF own, parts, T
  <2>3. f = [S \in SUBSET T |-> Unresolved(S, f, results)]
    BY <2>1, <2>2 DEF Gathers
  <2> QED
    BY <2>3
<1> HIDE DEF Is
<1>6. Is(CHOOSE f : Is(f))
  BY <1>5
<1>7. HeadToHeadTies(results) =
          [S \in SUBSET T |-> Unresolved(S, HeadToHeadTies(results), results)]
  BY Zenon, <1>1, <1>6 DEF Is
<1> QED
  BY <1>7

\* A set of two or more.
LEMMA TwoAreMore ==
    ASSUME NEW C, IsFiniteSet(C), NEW t \in C, NEW u \in C, t # u
    PROVE  Cardinality(C) > 1
<1>1. Cardinality(C) \in Nat
  BY FS_CardinalityType
<1>2. Cardinality(C) # 0
  BY FS_EmptySet
<1>3. Cardinality(C) # 1
  BY FS_Singleton
<1> QED
  BY <1>1, <1>2, <1>3

\* Goals that separate everybody leave nothing to the alphabet.
LEMMA OverallNeedsNoAlphabet ==
    ASSUME NEW results, NEW S, IsFiniteSet(S), AlphabetTies(S, results) = {},
           NEW a, NEW b, \A t \in S : a[t] \in Int /\ b[t] \in Int
    PROVE  ByOverall(S, results, a) = ByOverall(S, results, b)
<1>1. ASSUME NEW t \in S, NEW u \in S, Goals(t, results) = Goals(u, results)
      PROVE  t = u
  <2> SUFFICES ASSUME t # u PROVE FALSE
    OBVIOUS
  <2> DEFINE key == [v \in S |-> Goals(v, results)]
             C == {v \in S : key[v] = key[t]}
  <2>1. C \in Level(S, key) /\ t \in C /\ u \in C /\ C \subseteq S
    BY <1>1 DEF Level
  <2> HIDE DEF C
  <2>2. Cardinality(C) > 1
    BY <2>1, FS_Subset, TwoAreMore
  <2> QED
    BY <2>1, <2>2 DEF AlphabetTies
<1>2. \A p \in S \X S : Goals(p[1], results) = Goals(p[2], results) =>
          ~(a[p[1]] < a[p[2]]) /\ ~(b[p[1]] < b[p[2]])
  <2> SUFFICES ASSUME NEW t \in S, NEW u \in S, Goals(t, results) = Goals(u, results)
               PROVE  ~(a[t] < a[u]) /\ ~(b[t] < b[u])
    OBVIOUS
  <2>1. t = u
    BY <1>1
  <2> QED
    BY <2>1
<1> QED
  BY <1>2 DEF ByOverall

\* Where head to head reports no tie, two alphabets give one order.
LEMMA HeadToHeadNeedsNoAlphabet ==
    ASSUME NEW results, IsFiniteSet(InTable(results)),
           NEW a, NEW b, \A t \in InTable(results) : a[t] \in Int /\ b[t] \in Int,
           NEW S \in SUBSET InTable(results), HeadToHeadTies(results)[S] = {}
    PROVE  ByHeadToHead(results, a)[S] = ByHeadToHead(results, b)[S]
<1> DEFINE T == InTable(results)
           ties == HeadToHeadTies(results)
           left == ByHeadToHead(results, a)
           right == ByHeadToHead(results, b)
           Bad == {C \in SUBSET T : ties[C] = {} /\ left[C] # right[C]}
<1>1. Bad = {}
  <2> SUFFICES ASSUME Bad # {} PROVE FALSE
    OBVIOUS
  <2>1. PICK C \in Bad : \A D \in Bad : D \subseteq C => D = C
    <3>1. Bad \in SUBSET SUBSET T
      OBVIOUS
    <3> HIDE DEF Bad
    <3> QED
      BY <3>1, SmallestSubset
  <2> DEFINE level == Level(C, MiniTable(C, results))
             led == {p \in C \X C : Above(MiniTable(C, results)[p[1]], MiniTable(C, results)[p[2]])}
  <2>2. C \in SUBSET T /\ ties[C] = {} /\ left[C] # right[C]
    OBVIOUS
  <2>3. /\ ties[C] = Unresolved(C, ties, results)
        /\ left[C] = Resolve(C, left, results, a)
        /\ right[C] = Resolve(C, right, results, b)
    BY <2>2, TiesHold, HeadToHeadHolds
  <2> HIDE DEF ties, left, right
  <2>4. CASE level = {C}
    <3>1. AlphabetTies(C, results) = {}
      BY <2>2, <2>3, <2>4 DEF Unresolved
    <3>2. IsFiniteSet(C) /\ \A t \in C : a[t] \in Int /\ b[t] \in Int
      BY <2>2, FS_Subset
    <3>4. ByOverall(C, results, a) = ByOverall(C, results, b)
      BY <3>1, <3>2, OverallNeedsNoAlphabet
    <3>5. left[C] = led \cup ByOverall(C, results, a)
      BY <2>3, <2>4 DEF Resolve
    <3>6. right[C] = led \cup ByOverall(C, results, b)
      BY <2>3, <2>4 DEF Resolve
    <3> QED
      BY <2>2, <3>4, <3>5, <3>6
  <2>5. CASE level # {C}
    <3>1. ASSUME NEW D \in level PROVE left[D] = right[D]
      <4>1. D \subseteq C /\ D # C
        BY <2>5, LevelsPart
      <4>2. ties[D] = {}
        BY <2>2, <2>3, <2>5 DEF Unresolved
      <4> QED
        BY <2>1, <2>2, <4>1, <4>2
    <3>2. left[C] = led \cup UNION {left[D] : D \in level}
      BY <2>3, <2>5 DEF Resolve
    <3>3. right[C] = led \cup UNION {right[D] : D \in level}
      BY <2>3, <2>5 DEF Resolve
    <3> QED
      BY <2>2, <3>1, <3>2, <3>3
  <2> QED
    BY <2>4, <2>5
<1> QED
  BY <1>1

\* A group table without a warning: FIFA's lots would give the same order.
LEMMA OrderNeedsNoAlphabet ==
    ASSUME NEW results, IsFiniteSet(InTable(results)), GroupTies(results) = {},
           NEW a, NEW b, \A t \in InTable(results) : a[t] \in Int /\ b[t] \in Int
    PROVE  GroupOrder(results, a) = GroupOrder(results, b)
<1>1. ASSUME NEW S \in OnPoints(results)
      PROVE  ByHeadToHead(results, a)[S] = ByHeadToHead(results, b)[S]
  <2>1. S \in SUBSET InTable(results)
    BY LevelsPart DEF OnPoints
  <2>2. HeadToHeadTies(results)[S] = {}
    BY DEF GroupTies
  <2> QED
    BY <2>1, <2>2, HeadToHeadNeedsNoAlphabet
<1> QED
  BY <1>1 DEF GroupOrder

\* So it is with the third-placed teams.
LEMMA ThirdsNeedNoAlphabet ==
    ASSUME NEW line, IsFiniteSet(DOMAIN line), ThirdTies(line) = {},
           NEW a, NEW b, \A t \in DOMAIN line : a[t] \in Int /\ b[t] \in Int
    PROVE  ThirdOrder(line, a) = ThirdOrder(line, b)
<1> DEFINE S == DOMAIN line
<1>1. ASSUME NEW t \in S, NEW u \in S, line[t] = line[u]
      PROVE  t = u
  <2> SUFFICES ASSUME t # u PROVE FALSE
    OBVIOUS
  <2> DEFINE C == {v \in S : line[v] = line[t]}
  <2>1. C \in Level(S, line) /\ t \in C /\ u \in C /\ C \subseteq S
    BY <1>1 DEF Level
  <2> HIDE DEF C
  <2>2. Cardinality(C) > 1
    BY <2>1, FS_Subset, TwoAreMore
  <2> QED
    BY <2>1, <2>2 DEF ThirdTies
<1>2. \A p \in S \X S : line[p[1]] = line[p[2]] => ~(a[p[1]] < a[p[2]]) /\ ~(b[p[1]] < b[p[2]])
  <2> SUFFICES ASSUME NEW t \in S, NEW u \in S, line[t] = line[u]
               PROVE  ~(a[t] < a[u]) /\ ~(b[t] < b[u])
    OBVIOUS
  <2>1. t = u
    BY <1>1
  <2> QED
    BY <2>1
<1> QED
  BY <1>2 DEF ThirdOrder

-----------------------------------------------------------------------------
(***************************************************************************)
(* The places.                                                             *)
(***************************************************************************)

\* An order that puts every two of a set apart.
Ranks(S, order) ==
    /\ order \subseteq S \X S
    /\ \A t \in S : <<t, t>> \notin order
    /\ \A t, u \in S : t # u => <<t, u>> \in order \/ <<u, t>> \in order
    /\ \A t, u, v \in S : <<t, u>> \in order /\ <<u, v>> \in order => <<t, v>> \in order

\* And one that puts apart those that differ in a key, by the key alone.
Splits(S, key, led) ==
    /\ led \subseteq S \X S
    /\ \A t, u \in S : key[t] = key[u] => <<t, u>> \notin led
    /\ \A t, u \in S : key[t] # key[u] => <<t, u>> \in led \/ <<u, t>> \in led
    /\ \A t, u, v \in S : <<t, u>> \in led /\ <<u, v>> \in led => <<t, v>> \in led
    /\ \A t, u, v \in S : key[t] = key[u] => /\ <<t, v>> \in led <=> <<u, v>> \in led
                                             /\ <<v, t>> \in led <=> <<v, u>> \in led

\* Those whom a key leaves level, each in an order of their own: so the code goes on.
LEMMA RankedInside ==
    ASSUME NEW S, NEW key, NEW led, Splits(S, key, led),
           NEW inner, \A C \in Level(S, key) : Ranks(C, inner[C])
    PROVE  Ranks(S, led \cup UNION {inner[C] : C \in Level(S, key)})
<1> DEFINE order == led \cup UNION {inner[C] : C \in Level(S, key)}
           Of(t) == {u \in S : key[u] = key[t]}
<1>1. \A t \in S : Of(t) \in Level(S, key) /\ t \in Of(t)
  BY DEF Level
<1>2. \A C \in Level(S, key) : C \subseteq S /\ \A t \in C : C = Of(t)
  BY DEF Level
<1>3. \A t, u \in S : u \in Of(t) <=> key[u] = key[t]
  OBVIOUS
<1> HIDE DEF Of
<1>4. \A t, u \in S : <<t, u>> \in order <=>
         \/ <<t, u>> \in led
         \/ key[t] = key[u] /\ <<t, u>> \in inner[Of(t)]
  <2> SUFFICES ASSUME NEW t \in S, NEW u \in S
               PROVE  <<t, u>> \in order <=>
                         \/ <<t, u>> \in led
                         \/ key[t] = key[u] /\ <<t, u>> \in inner[Of(t)]
    OBVIOUS
  <2>1. ASSUME <<t, u>> \in order, <<t, u>> \notin led
        PROVE  key[t] = key[u] /\ <<t, u>> \in inner[Of(t)]
    <3>1. PICK C \in Level(S, key) : <<t, u>> \in inner[C]
      BY <2>1
    <3>2. t \in C /\ u \in C
      BY <3>1 DEF Ranks
    <3> QED
      BY <3>1, <3>2, <1>2, <1>3
  <2>2. ASSUME <<t, u>> \in inner[Of(t)] PROVE <<t, u>> \in order
    BY <2>2, <1>1
  <2> QED
    BY <2>1, <2>2
<1>5. order \subseteq S \X S
  <2>1. \A C \in Level(S, key) : inner[C] \subseteq S \X S
    BY <1>2 DEF Ranks
  <2> QED
    BY <2>1 DEF Splits
<1>6. \A t \in S : Ranks(Of(t), inner[Of(t)])
  BY <1>1
<1> HIDE DEF order
<1>7. ASSUME NEW t \in S PROVE <<t, t>> \notin order
  BY <1>1, <1>4, <1>6, <1>7 DEF Splits, Ranks
<1>8. ASSUME NEW t \in S, NEW u \in S, t # u PROVE <<t, u>> \in order \/ <<u, t>> \in order
  <2>1. CASE key[t] # key[u]
    BY <1>4, <2>1 DEF Splits
  <2>2. CASE key[t] = key[u]
    <3>1. t \in Of(t) /\ u \in Of(t)
      BY <1>1, <1>3, <2>2
    <3>2. <<t, u>> \in inner[Of(t)] \/ <<u, t>> \in inner[Of(t)]
      BY <1>6, <1>8, <3>1 DEF Ranks
    <3>3. Of(t) = Of(u)
      BY <1>1, <1>2, <3>1
    <3> QED
      BY <1>4, <2>2, <3>2, <3>3
  <2> QED
    BY <2>1, <2>2
<1>9. ASSUME NEW t \in S, NEW u \in S, NEW v \in S, <<t, u>> \in order, <<u, v>> \in order
      PROVE  <<t, v>> \in order
  <2>1. CASE <<t, u>> \in led /\ <<u, v>> \in led
    BY <1>4, <2>1 DEF Splits
  <2>2. CASE <<t, u>> \in led /\ <<u, v>> \notin led
    BY <1>4, <1>9, <2>2 DEF Splits
  <2>3. CASE <<t, u>> \notin led /\ <<u, v>> \in led
    BY <1>4, <1>9, <2>3 DEF Splits
  <2>4. CASE <<t, u>> \notin led /\ <<u, v>> \notin led
    <3>1. key[t] = key[u] /\ key[u] = key[v]
      BY <1>4, <1>9, <2>4
    <3>2. t \in Of(t) /\ u \in Of(t) /\ v \in Of(t)
      BY <1>1, <1>3, <3>1
    <3>3. Of(u) = Of(t)
      BY <1>1, <1>2, <3>2
    <3>4. <<t, u>> \in inner[Of(t)] /\ <<u, v>> \in inner[Of(t)]
      BY <1>4, <1>9, <2>4, <3>3
    <3>5. <<t, v>> \in inner[Of(t)]
      BY <1>6, <3>2, <3>4 DEF Ranks
    <3> QED
      BY <1>4, <3>1, <3>5
  <2> QED
    BY <2>1, <2>2, <2>3, <2>4
<1>10. Ranks(S, order)
  BY <1>5, <1>7, <1>8, <1>9 DEF Ranks
<1> QED
  BY <1>10 DEF order

\* The alphabet inside a key.
LEMMA RankedByAlphabet ==
    ASSUME NEW S, NEW key, NEW led, Splits(S, key, led),
           NEW a, \A t \in S : a[t] \in Int, \A t, u \in S : a[t] = a[u] => t = u,
           NEW order,
           order = {p \in S \X S : \/ p \in led
                                   \/ key[p[1]] = key[p[2]] /\ a[p[1]] < a[p[2]]}
    PROVE  Ranks(S, order)
<1>1. \A t, u \in S : <<t, u>> \in order <=>
         <<t, u>> \in led \/ (key[t] = key[u] /\ a[t] < a[u])
  OBVIOUS
<1>2. order \subseteq S \X S
  OBVIOUS
<1>3. \A t, u \in S : t # u => a[t] < a[u] \/ a[u] < a[t]
  OBVIOUS
<1>4. \A t, u, v \in S : a[t] < a[u] /\ a[u] < a[v] => a[t] < a[v]
  OBVIOUS
<1>5. \A t \in S : ~(a[t] < a[t])
  OBVIOUS
<1>6. ASSUME NEW t \in S, NEW u \in S, NEW v \in S, <<t, u>> \in order, <<u, v>> \in order
      PROVE  <<t, v>> \in order
  BY ONLY <1>1, <1>4, <1>6, Splits(S, key, led) DEF Splits
<1>7. ASSUME NEW t \in S, NEW u \in S, t # u
      PROVE  <<t, u>> \in order \/ <<u, t>> \in order
  BY ONLY <1>1, <1>3, <1>7, Splits(S, key, led) DEF Splits
<1>8. \A t \in S : <<t, t>> \notin order
  BY ONLY <1>1, <1>5, Splits(S, key, led) DEF Splits
<1> QED
  BY ONLY <1>2, <1>6, <1>7, <1>8 DEF Ranks

\* Tuples of numbers are compared as Python compares them.
Twos == Int \X Int
Threes == Int \X Int \X Int

LEMMA AboveTwos ==
    ASSUME NEW a \in Twos, NEW b \in Twos
    PROVE  Above(a, b) <=> a[1] > b[1] \/ (a[1] = b[1] /\ a[2] > b[2])
<1>1. DOMAIN a = {1, 2} /\ DOMAIN b = {1, 2}
  BY DEF Twos
<1>2. \A j \in 1..(1 - 1) : FALSE
  OBVIOUS
<1>3. \A j : j \in 1..(2 - 1) <=> j = 1
  OBVIOUS
<1> QED
  BY <1>1, <1>2, <1>3 DEF Above

LEMMA AboveThrees ==
    ASSUME NEW a \in Threes, NEW b \in Threes
    PROVE  Above(a, b) <=> \/ a[1] > b[1]
                           \/ a[1] = b[1] /\ a[2] > b[2]
                           \/ a[1] = b[1] /\ a[2] = b[2] /\ a[3] > b[3]
<1>1. DOMAIN a = {1, 2, 3} /\ DOMAIN b = {1, 2, 3}
  BY DEF Threes
<1>2. \A j \in 1..(1 - 1) : FALSE
  OBVIOUS
<1>3. \A j : j \in 1..(2 - 1) <=> j = 1
  OBVIOUS
<1>4. \A j : j \in 1..(3 - 1) <=> j = 1 \/ j = 2
  OBVIOUS
<1> QED
  BY <1>1, <1>2, <1>3, <1>4 DEF Above

\* So they split those that differ.
LEMMA TuplesSplit ==
    ASSUME NEW S, NEW key, (\A t \in S : key[t] \in Twos) \/ (\A t \in S : key[t] \in Threes)
    PROVE  Splits(S, key, {p \in S \X S : Above(key[p[1]], key[p[2]])})
<1> DEFINE led == {p \in S \X S : Above(key[p[1]], key[p[2]])}
<1>1. \A t, u \in S : <<t, u>> \in led <=> Above(key[t], key[u])
  OBVIOUS
<1>2. led \subseteq S \X S
  OBVIOUS
<1> HIDE DEF led
<1>3. \A t, u \in S : key[t] = key[u] => <<t, u>> \notin led
  <2>1. CASE \A t \in S : key[t] \in Twos
    BY <1>1, <2>1, AboveTwos DEF Twos
  <2>2. CASE \A t \in S : key[t] \in Threes
    BY <1>1, <2>2, AboveThrees DEF Threes
  <2> QED
    BY <2>1, <2>2
<1>4. ASSUME NEW t \in S, NEW u \in S, key[t] # key[u]
      PROVE  <<t, u>> \in led \/ <<u, t>> \in led
  <2>1. CASE \A v \in S : key[v] \in Twos
    <3>1. /\ key[t] \in Twos /\ key[u] \in Twos
          /\ key[t][1] # key[u][1] \/ key[t][2] # key[u][2]
      BY <1>4, <2>1 DEF Twos
    <3> QED
      BY <1>1, <3>1, AboveTwos DEF Twos
  <2>2. CASE \A v \in S : key[v] \in Threes
    <3>1. /\ key[t] \in Threes /\ key[u] \in Threes
          /\ key[t][1] # key[u][1] \/ key[t][2] # key[u][2] \/ key[t][3] # key[u][3]
      BY <1>4, <2>2 DEF Threes
    <3> QED
      BY <1>1, <3>1, AboveThrees DEF Threes
  <2> QED
    BY <2>1, <2>2
<1>5. ASSUME NEW t \in S, NEW u \in S, NEW v \in S, <<t, u>> \in led, <<u, v>> \in led
      PROVE  <<t, v>> \in led
  <2>1. CASE \A x \in S : key[x] \in Twos
    BY <1>1, <1>5, <2>1, AboveTwos DEF Twos
  <2>2. CASE \A x \in S : key[x] \in Threes
    BY <1>1, <1>5, <2>2, AboveThrees DEF Threes
  <2> QED
    BY <2>1, <2>2
<1>6. \A t, u, v \in S : key[t] = key[u] => /\ <<t, v>> \in led <=> <<u, v>> \in led
                                            /\ <<v, t>> \in led <=> <<v, u>> \in led
  BY <1>1
<1>7. Splits(S, key, led)
  BY <1>2, <1>3, <1>4, <1>5, <1>6 DEF Splits
<1> QED
  BY <1>7 DEF led

\* Results are finitely many and have goals.
Recorded(results) == IsFiniteSet(results) /\ \A r \in results : r.hg \in Int /\ r.ag \in Int

LEMMA LinesAreThrees ==
    ASSUME NEW results, Recorded(results), NEW t
    PROVE  /\ Line(t, results) \in Threes
           /\ Points(t, results) \in Int
           /\ Goals(t, results) \in Twos
<1> DEFINE difference == [r \in results |-> Scored(t, r) - Conceded(t, r)]
           scored == [r \in results |-> Scored(t, r)]
           some == Played(t, results)
<1>1. IsFiniteSet(some) /\ some \subseteq results
  BY FS_Subset DEF Played, Recorded
<1>2. IsFiniteSet(Won(t, results)) /\ IsFiniteSet(Drawn(t, results))
  BY <1>1, FS_Subset DEF Won, Drawn
<1>3. Cardinality(Won(t, results)) \in Nat /\ Cardinality(Drawn(t, results)) \in Nat
  BY <1>2, FS_CardinalityType
<1>4. \A r \in some : difference[r] \in Int /\ scored[r] \in Int
  BY <1>1 DEF Recorded, Scored, Conceded
<1> HIDE DEF some, difference, scored
<1>5. SumOver(difference, some) \in Int /\ SumOver(scored, some) \in Int
  BY <1>1, <1>4, SumInt
<1>6. Difference(t, results) \in Int /\ GoalsFor(t, results) \in Int
  BY <1>5 DEF Difference, GoalsFor, some, difference, scored
<1>7. Points(t, results) \in Int
  BY <1>3 DEF Points
<1> QED
  BY <1>6, <1>7 DEF Threes, Twos, Line, Goals

\* What the goals of the whole group leave level, the alphabet ranks.
LEMMA OverallRanks ==
    ASSUME NEW results, Recorded(results), NEW S,
           NEW a, \A t \in S : a[t] \in Int, \A t, u \in S : a[t] = a[u] => t = u
    PROVE  Ranks(S, ByOverall(S, results, a))
<1> DEFINE key == [t \in S |-> Goals(t, results)]
           led == {p \in S \X S : Above(key[p[1]], key[p[2]])}
<1>1. \A t \in S : key[t] \in Twos
  BY LinesAreThrees
<1>2. ByOverall(S, results, a) = {p \in S \X S : \/ p \in led
                                                 \/ key[p[1]] = key[p[2]] /\ a[p[1]] < a[p[2]]}
  BY DEF ByOverall
<1> HIDE DEF key
<1>3. Splits(S, key, led)
  BY <1>1, TuplesSplit
<1> HIDE DEF led
<1> QED
  BY <1>2, <1>3, RankedByAlphabet

\* Head to head ranks every set of teams.
LEMMA HeadToHeadRanks ==
    ASSUME NEW results, Recorded(results), IsFiniteSet(InTable(results)),
           NEW a, \A t \in InTable(results) : a[t] \in Int,
           \A t, u \in InTable(results) : a[t] = a[u] => t = u,
           NEW S \in SUBSET InTable(results)
    PROVE  Ranks(S, ByHeadToHead(results, a)[S])
<1> DEFINE T == InTable(results)
           ahead == ByHeadToHead(results, a)
           Bad == {C \in SUBSET T : ~Ranks(C, ahead[C])}
<1>1. Bad = {}
  <2> SUFFICES ASSUME Bad # {} PROVE FALSE
    OBVIOUS
  <2>1. PICK C \in Bad : \A D \in Bad : D \subseteq C => D = C
    <3>1. Bad \in SUBSET SUBSET T
      OBVIOUS
    <3> HIDE DEF Bad
    <3> QED
      BY <3>1, SmallestSubset
  <2> DEFINE key == MiniTable(C, results)
             level == Level(C, key)
             led == {p \in C \X C : Above(key[p[1]], key[p[2]])}
  <2>2. C \in SUBSET T /\ ~Ranks(C, ahead[C])
    OBVIOUS
  <2>3. ahead[C] = Resolve(C, ahead, results, a)
    BY <2>2, HeadToHeadHolds
  <2>4. \A t \in C : key[t] \in Threes
    <3>1. Recorded(Between(C, results))
      BY FS_Subset DEF Recorded, Between
    <3> QED
      BY <3>1, LinesAreThrees DEF MiniTable
  <2>5. ahead[C] = led \cup IF level = {C} THEN ByOverall(C, results, a)
                            ELSE UNION {ahead[D] : D \in level}
    BY <2>3 DEF Resolve
  <2>6. \A D \in SUBSET T : D \subseteq C /\ D # C => Ranks(D, ahead[D])
    BY <2>1
  <2> HIDE DEF ahead, key, Bad
  <2>7. Splits(C, key, led)
    BY <2>4, TuplesSplit
  <2>8. CASE level = {C}
    <3>1. led = {}
      <4>1. \A t, u \in C : key[t] = key[u]
        BY <2>8 DEF Level
      <4> QED
        BY <2>7, <4>1 DEF Splits
    <3>2. ahead[C] = ByOverall(C, results, a)
      BY <2>5, <2>8, <3>1
    <3>3. Ranks(C, ByOverall(C, results, a))
      BY <2>2, OverallRanks
    <3> QED
      BY <2>2, <3>2, <3>3
  <2>9. CASE level # {C}
    <3>1. \A D \in level : D \subseteq C /\ D # C
      BY <2>9, LevelsPart
    <3>2. \A D \in level : Ranks(D, ahead[D])
      BY <2>2, <2>6, <3>1
    <3>3. Ranks(C, led \cup UNION {ahead[D] : D \in level})
      <4> HIDE DEF led
      <4> QED
        BY <2>7, <3>2, RankedInside
    <3> QED
      BY <2>2, <2>5, <2>9, <3>3
  <2> QED
    BY <2>8, <2>9
<1> QED
  BY <1>1

\* And so does the table of a group.
LEMMA GroupRanks ==
    ASSUME NEW results, Recorded(results), IsFiniteSet(InTable(results)),
           NEW a, \A t \in InTable(results) : a[t] \in Int,
           \A t, u \in InTable(results) : a[t] = a[u] => t = u
    PROVE  Ranks(InTable(results), GroupOrder(results, a))
<1> DEFINE T == InTable(results)
           key == [t \in T |-> Points(t, results)]
           led == {p \in T \X T : Points(p[1], results) > Points(p[2], results)}
           ahead == ByHeadToHead(results, a)
<1>1. \A t \in T : key[t] \in Int
  BY LinesAreThrees
<1>2. \A t, u \in T : <<t, u>> \in led <=> key[t] > key[u]
  OBVIOUS
<1>3. GroupOrder(results, a) = led \cup UNION {ahead[C] : C \in Level(T, key)}
  BY DEF GroupOrder, OnPoints
<1>4. led \subseteq T \X T
  OBVIOUS
<1>5. \A C \in Level(T, key) : Ranks(C, ahead[C])
  <2> SUFFICES ASSUME NEW C \in Level(T, key) PROVE Ranks(C, ahead[C])
    OBVIOUS
  <2>1. C \in SUBSET T
    BY LevelsPart
  <2> QED
    BY <2>1, HeadToHeadRanks
<1> HIDE DEF key, led, ahead, T
<1>6. Splits(T, key, led)
  BY <1>1, <1>2, <1>4 DEF Splits
<1>7. Ranks(T, led \cup UNION {ahead[C] : C \in Level(T, key)})
  BY <1>5, <1>6, RankedInside
<1> QED
  BY <1>3, <1>7 DEF T

\* The third-placed teams are ranked too.
LEMMA ThirdsRank ==
    ASSUME NEW line, \A t \in DOMAIN line : line[t] \in Threes,
           NEW a, \A t \in DOMAIN line : a[t] \in Int,
           \A t, u \in DOMAIN line : a[t] = a[u] => t = u
    PROVE  Ranks(DOMAIN line, ThirdOrder(line, a))
<1> DEFINE S == DOMAIN line
           led == {p \in S \X S : Above(line[p[1]], line[p[2]])}
<1>1. Splits(S, line, led)
  BY TuplesSplit
<1>2. ThirdOrder(line, a) = {p \in S \X S : \/ p \in led
                                            \/ line[p[1]] = line[p[2]] /\ a[p[1]] < a[p[2]]}
  BY DEF ThirdOrder
<1> HIDE DEF led, S
<1>3. \A t, u \in S : a[t] = a[u] => t = u
  BY DEF S
<1>4. \A t \in S : a[t] \in Int
  BY DEF S
<1>5. Ranks(S, ThirdOrder(line, a))
  BY <1>1, <1>2, <1>3, <1>4, RankedByAlphabet
<1> QED
  BY <1>5 DEF S

\* In such an order the places count from one and everybody has a place of their own.
LEMMA PlacesAreTaken ==
    ASSUME NEW S, IsFiniteSet(S), NEW order, Ranks(S, order),
           NEW place, place = [t \in S |-> PlaceOf(t, order)]
    PROVE  place \in Bijection(S, 1..Cardinality(S))
<1> DEFINE n == Cardinality(S)
           Before(t) == {u \in S : <<u, t>> \in order}
<1>1. ASSUME NEW t \in S
      PROVE  IsFiniteSet(Before(t)) /\ place[t] = 1 + Cardinality(Before(t))
  <2> DEFINE P == {p \in order : p[2] = t}
             f == [u \in Before(t) |-> <<u, t>>]
  <2>1. IsFiniteSet(Before(t))
    BY FS_Subset
  <2>2. \A p \in order : p = <<p[1], p[2]>> /\ p[1] \in S
    BY DEF Ranks
  <2>3. f \in [Before(t) -> P]
    OBVIOUS
  <2>4. \A p \in P : p[1] \in Before(t) /\ f[p[1]] = p
    BY <2>2
  <2>5. \A u, v \in Before(t) : f[u] = f[v] => u = v
    OBVIOUS
  <2> HIDE DEF f, P
  <2>6. f \in Bijection(Before(t), P)
    BY <2>3, <2>4, <2>5, Fun_IsBij
  <2>7. Cardinality(P) = Cardinality(Before(t))
    BY <2>1, <2>6, FS_Bijection, Fun_ExistsBij
  <2> QED
    BY <2>1, <2>7 DEF PlaceOf, P
<1>2. ASSUME NEW t \in S, NEW u \in S, <<t, u>> \in order
      PROVE  Cardinality(Before(t)) < Cardinality(Before(u))
  <2>1. Before(t) \subseteq Before(u) /\ t \in Before(u) /\ t \notin Before(t)
    BY <1>2 DEF Ranks
  <2>2. /\ Cardinality(Before(t)) <= Cardinality(Before(u))
        /\ Cardinality(Before(t)) # Cardinality(Before(u))
    BY <1>1, <2>1, FS_Subset
  <2>3. Cardinality(Before(t)) \in Nat /\ Cardinality(Before(u)) \in Nat
    BY <1>1, FS_CardinalityType
  <2> QED
    BY <2>2, <2>3
<1>3. ASSUME NEW t \in S PROVE place[t] \in 1..n
  <2>1. Before(t) \subseteq S /\ t \notin Before(t)
    BY DEF Ranks
  <2>2. Cardinality(Before(t)) <= n /\ Cardinality(Before(t)) # n
    BY <2>1, FS_Subset
  <2>3. Cardinality(Before(t)) \in Nat /\ n \in Nat
    BY <1>1, FS_CardinalityType
  <2> QED
    BY <1>1, <2>2, <2>3
<1>4. \A t, u \in S : place[t] = place[u] => t = u
  <2> SUFFICES ASSUME NEW t \in S, NEW u \in S, place[t] = place[u], t # u PROVE FALSE
    OBVIOUS
  <2>1. Cardinality(Before(t)) \in Nat /\ Cardinality(Before(u)) \in Nat
    BY <1>1, FS_CardinalityType
  <2>2. place[t] = 1 + Cardinality(Before(t)) /\ place[u] = 1 + Cardinality(Before(u))
    BY <1>1
  <2>3. place[t] = place[u]
    OBVIOUS
  <2>4. Cardinality(Before(t)) = Cardinality(Before(u))
    BY ONLY <2>1, <2>2, <2>3
  <2>5. <<t, u>> \in order \/ <<u, t>> \in order
    BY DEF Ranks
  <2>6. \/ Cardinality(Before(t)) < Cardinality(Before(u))
        \/ Cardinality(Before(u)) < Cardinality(Before(t))
    BY <1>2, <2>5
  <2> QED
    BY ONLY <2>1, <2>4, <2>6
<1>5. place \in Injection(S, 1..n)
  <2>1. place \in [S -> 1..n]
    BY <1>3
  <2> QED
    BY <1>4, <2>1, Fun_IsInj
<1>6. IsFiniteSet(1..n) /\ Cardinality(1..n) = n
  <2>1. n \in Nat
    BY FS_CardinalityType
  <2> QED
    BY <2>1, FS_Interval
<1>7. place \in Surjection(S, 1..n)
  BY <1>5, <1>6, FS_Injection
<1> QED
  BY <1>5, <1>7 DEF Bijection

-----------------------------------------------------------------------------
(***************************************************************************)
(* The tables of the groups, ours and the true ones.                       *)
(***************************************************************************)

\* There are finitely many teams.
LEMMA TeamsAreFinite == IsFiniteSet(Teams)
<1> DEFINE home == [m \in Matches |-> Fixture[m].home]
           away == [m \in Matches |-> Fixture[m].away]
<1>1. /\ home \in Surjection(Matches, {Fixture[m].home : m \in Matches})
      /\ away \in Surjection(Matches, {Fixture[m].away : m \in Matches})
  BY DEF Surjection
<1>2. /\ IsFiniteSet({Fixture[m].home : m \in Matches})
      /\ IsFiniteSet({Fixture[m].away : m \in Matches})
  <2> HIDE DEF home, away
  <2> QED
    BY <1>1, GeometryAssumption, FS_Surjection
<1> QED
  BY <1>2, FS_Union DEF Teams

\* No team plays in two groups.
LEMMA GroupsApart ==
    ASSUME NEW g \in Groups, NEW h \in Groups, g # h
    PROVE  TeamsOf(g) \cap TeamsOf(h) = {}
<1> SUFFICES ASSUME NEW t \in TeamsOf(g), t \in TeamsOf(h) PROVE FALSE
  OBVIOUS
<1>1. PICK m \in MatchesOf(g) : t \in {Fixture[m].home, Fixture[m].away}
  BY DEF TeamsOf
<1>2. PICK n \in MatchesOf(h) : t \in {Fixture[n].home, Fixture[n].away}
  BY DEF TeamsOf
<1>3. m \in Matches /\ n \in Matches /\ Fixture[m].group = g /\ Fixture[n].group = h
  BY DEF MatchesOf
<1>4. {Fixture[m].home, Fixture[m].away} \cap {Fixture[n].home, Fixture[n].away} # {}
  BY <1>1, <1>2
<1>5. Fixture[m].group = Fixture[n].group
  BY <1>3, <1>4, GeometryAssumption
<1> QED
  BY <1>3, <1>5

\* A sheet's table has teams of its group.
LEMMA TableIs ==
    ASSUME NEW g \in Groups, NEW sheet \in [MatchesOf(g) -> GoalPairs \cup {NoScore}],
           NEW order \in Lots
    PROVE  /\ Tables[g][sheet][order] = Table(ResultsOn(sheet), Orders[order])
           /\ InTable(ResultsOn(sheet)) \subseteq TeamsOf(g)
           /\ TeamsOf(g) \subseteq Teams
<1>1. sheet \in SheetsOf(g)
  <2>1. sheet = [m \in MatchesOf(g) |-> sheet[m]]
    OBVIOUS
  <2> QED
    BY <2>1 DEF SheetsOf
<1>2. Tables[g][sheet][order] = Table(ResultsOn(sheet), Orders[order])
  BY <1>1 DEF Tables
<1>3. InTable(ResultsOn(sheet)) \subseteq TeamsOf(g)
  BY DEF InTable, ResultsOn, TeamsOf
<1>4. TeamsOf(g) \subseteq Teams
  BY DEF TeamsOf, Teams, MatchesOf
<1> QED
  BY <1>2, <1>3, <1>4

\* The sheets of a state.
LEMMA SheetsTyped ==
    ASSUME TypeOK, NEW g \in Groups
    PROVE  /\ Counted(g) \in [MatchesOf(g) -> GoalPairs \cup {NoScore}]
           /\ TrueSheet(g) \in [MatchesOf(g) -> GoalPairs \cup {NoScore}]
           /\ "alphabet" \in Lots /\ lots \in Lots
<1>1. truth \in [Matches -> GoalPairs] /\ "alphabet" \in Lots
  BY GeometryAssumption DEF TypeOK
<1>2. MatchesOf(g) \subseteq Matches
  BY DEF MatchesOf
<1>3. Counted(g) \in [MatchesOf(g) -> GoalPairs \cup {NoScore}]
  BY <1>2 DEF Counted, TypeOK
<1>4. TrueSheet(g) \in [MatchesOf(g) -> GoalPairs \cup {NoScore}]
  BY <1>1, <1>2 DEF TrueSheet
<1> QED
  BY <1>1, <1>3, <1>4 DEF TypeOK

\* What the tables of a state are made of: teams of the group, and nobody else's.
LEMMA TablesOfState ==
    ASSUME TypeOK, NEW g \in Groups
    PROVE  /\ OurTable(g) = Table(ResultsOn(Counted(g)), Orders["alphabet"])
           /\ TrueTable(g) = Table(ResultsOn(TrueSheet(g)), Orders[lots])
           /\ InTable(ResultsOn(Counted(g))) \subseteq TeamsOf(g)
           /\ InTable(ResultsOn(TrueSheet(g))) \subseteq TeamsOf(g)
           /\ TeamsOf(g) \subseteq Teams
<1>1. /\ Tables[g][Counted(g)]["alphabet"] = Table(ResultsOn(Counted(g)), Orders["alphabet"])
      /\ InTable(ResultsOn(Counted(g))) \subseteq TeamsOf(g)
  BY SheetsTyped, TableIs
<1>2. /\ Tables[g][TrueSheet(g)][lots] = Table(ResultsOn(TrueSheet(g)), Orders[lots])
      /\ InTable(ResultsOn(TrueSheet(g))) \subseteq TeamsOf(g)
      /\ TeamsOf(g) \subseteq Teams
  BY SheetsTyped, TableIs
<1> QED
  BY <1>1, <1>2 DEF OurTable, TrueTable

\* The places and lines of a table are those of its teams.
LEMMA TableParts ==
    ASSUME NEW results, NEW alphabet
    PROVE  /\ DOMAIN Table(results, alphabet).place = InTable(results)
           /\ DOMAIN Table(results, alphabet).line = InTable(results)
           /\ Table(results, alphabet).ties = GroupTies(results)
BY DEF Table

\* A settled group whose results are right and that left nothing to the alphabet has the
\* table FIFA draws up, lots and all.
LEMMA AlphabetIsLots ==
    ASSUME TypeOK, NEW g \in Groups, Settled(g), Clean(g), NoTies(g)
    PROVE  OurTable(g) = TrueTable(g)
<1>1. Counted(g) = TrueSheet(g)
  BY DEF Counted, TrueSheet, Settled, Clean
<1> DEFINE results == ResultsOn(TrueSheet(g))
<1>2. /\ OurTable(g) = Table(results, Orders["alphabet"])
      /\ TrueTable(g) = Table(results, Orders[lots])
      /\ InTable(results) \subseteq Teams
  BY <1>1, TablesOfState
<1> HIDE DEF results
<1>3. GroupTies(results) = {}
  BY <1>2, TableParts DEF NoTies
<1>4. IsFiniteSet(InTable(results))
  BY <1>2, TeamsAreFinite, FS_Subset
<1>5. \A t \in InTable(results) : Orders["alphabet"][t] \in Int /\ Orders[lots][t] \in Int
  <2>1. Orders["alphabet"] \in [Teams -> Int] /\ Orders[lots] \in [Teams -> Int]
    BY GeometryAssumption DEF TypeOK
  <2> QED
    BY <1>2, <2>1
<1>6. GroupOrder(results, Orders["alphabet"]) = GroupOrder(results, Orders[lots])
  BY <1>3, <1>4, <1>5, OrderNeedsNoAlphabet
<1> QED
  BY <1>2, <1>6 DEF Table

-----------------------------------------------------------------------------
(***************************************************************************)
(* The places of the first round.                                          *)
(***************************************************************************)

\* A slot is of one kind or the other.
LEMMA SlotsAre ==
    ASSUME NEW s \in Slots
    PROVE  /\ s.group \in Groups
           /\ \/ s.type = "group" /\ s.place \in 1..2
              \/ s.type = "third" /\ s.place = 3
           /\ s = [type |-> s.type, group |-> s.group, place |-> s.place]
BY GeometryAssumption

\* The teams of a group slot.
LEMMA GroupSeed ==
    ASSUME NEW tables, NEW alphabet, NEW s \in Slots, s.type = "group"
    PROVE  Seeds(tables, alphabet)[s] = InPlace(s.place, tables[s.group])
BY DEF Seeds

\* A row of Annex C names every group of its key once, and has a column for every slot.
LEMMA RowsAre ==
    ASSUME NEW key \in DOMAIN AnnexC, NEW s \in Thirds
    PROVE  /\ AnnexC[key][s.group] \in Groups
           /\ \A r \in Thirds : s.group # r.group =>
                 AnnexC[key][s.group] # AnnexC[key][r.group]
<1>1. \A r \in Thirds : r.group \in DOMAIN AnnexC[key]
  <2>1. DOMAIN AnnexC[key] = {x.group : x \in Thirds}
    BY GeometryAssumption
  <2> QED
    BY <2>1
<1>2. key \subseteq Groups /\ {AnnexC[key][g] : g \in DOMAIN AnnexC[key]} = key
  BY GeometryAssumption
<1>3. \A g, h \in DOMAIN AnnexC[key] : g # h => AnnexC[key][g] # AnnexC[key][h]
  BY GeometryAssumption
<1>4. AnnexC[key][s.group] \in Groups
  BY <1>1, <1>2
<1> QED
  BY <1>1, <1>3, <1>4

\* The results on a sheet are finitely many, and those of a full sheet put every team of the
\* group in the table.
LEMMA SheetsRecord ==
    ASSUME NEW g \in Groups, NEW sheet \in [MatchesOf(g) -> GoalPairs \cup {NoScore}]
    PROVE  /\ Recorded(ResultsOn(sheet))
           /\ sheet \in [MatchesOf(g) -> GoalPairs] => InTable(ResultsOn(sheet)) = TeamsOf(g)
<1> DEFINE counted == {n \in DOMAIN sheet : sheet[n] # NoScore}
           Row(m) == [home |-> Fixture[m].home, away |-> Fixture[m].away,
                      hg |-> sheet[m][1], ag |-> sheet[m][2]]
           row == [m \in counted |-> Row(m)]
<1>1. ResultsOn(sheet) = {Row(m) : m \in counted}
  BY DEF ResultsOn
<1>2. IsFiniteSet(counted) /\ counted \subseteq MatchesOf(g)
  BY FS_Subset, GeometryAssumption DEF MatchesOf
<1>3. row \in Surjection(counted, ResultsOn(sheet))
  BY <1>1 DEF Surjection
<1>4. IsFiniteSet(ResultsOn(sheet))
  <2> HIDE DEF row, counted
  <2> QED
    BY <1>2, <1>3, FS_Surjection
<1>5. \A m \in counted : sheet[m] \in Nat \X Nat
  BY PlacesAssumption
<1>6. \A m \in counted : Row(m).hg \in Int /\ Row(m).ag \in Int
  BY <1>5
<1>7. Recorded(ResultsOn(sheet))
  BY <1>1, <1>4, <1>6 DEF Recorded
<1>8. ASSUME sheet \in [MatchesOf(g) -> GoalPairs]
      PROVE  InTable(ResultsOn(sheet)) = TeamsOf(g)
  <2>1. \A m \in MatchesOf(g) : sheet[m] # NoScore
    <3>1. \A m \in MatchesOf(g) : sheet[m] \in Nat \X Nat
      BY <1>8, PlacesAssumption
    <3>2. NoScore \notin Nat \X Nat
      BY DEF NoScore
    <3> QED
      BY <3>1, <3>2
  <2>2. counted = MatchesOf(g)
    BY <2>1
  <2>3. \A m : Row(m).home = Fixture[m].home /\ Row(m).away = Fixture[m].away
    OBVIOUS
  <2> HIDE DEF Row, counted
  <2>4. ResultsOn(sheet) = {Row(m) : m \in MatchesOf(g)}
    BY <1>1, <2>2
  <2> QED
    BY <2>3, <2>4 DEF InTable, TeamsOf
<1> QED
  BY <1>7, <1>8

\* Every table gives its teams the places from one on, each a place of its own, whatever was
\* counted and whatever the alphabet or the lots (_apply_fifa_tiebreakers).
THEOREM EveryTeamHasAPlace ==
    \A g \in Groups : \A sheet \in [MatchesOf(g) -> GoalPairs \cup {NoScore}] :
        \A order \in Lots :
            LET table == Tables[g][sheet][order]
                teams == InTable(ResultsOn(sheet))
            IN  /\ table.place \in Bijection(teams, 1..Cardinality(teams))
                /\ table.line \in [teams -> Threes]
<1> SUFFICES ASSUME NEW g \in Groups, NEW sheet \in [MatchesOf(g) -> GoalPairs \cup {NoScore}],
                    NEW order \in Lots
             PROVE  LET table == Tables[g][sheet][order]
                        teams == InTable(ResultsOn(sheet))
                    IN  /\ table.place \in Bijection(teams, 1..Cardinality(teams))
                        /\ table.line \in [teams -> Threes]
  OBVIOUS
<1> DEFINE results == ResultsOn(sheet)
           teams == InTable(results)
           a == Orders[order]
<1>1. Tables[g][sheet][order] = Table(results, a)
  BY TableIs
<1>2. teams \subseteq TeamsOf(g) /\ TeamsOf(g) \subseteq Teams
  BY TableIs
<1>3. IsFiniteSet(teams)
  BY <1>2, TeamsAreFinite, FS_Subset
<1>4. \A t \in teams : a[t] \in Int
  <2>1. a \in [Teams -> Int]
    BY GeometryAssumption
  <2> QED
    BY <1>2, <2>1
<1>5. \A t, u \in teams : a[t] = a[u] => t = u
  BY <1>2, PlacesAssumption
<1>6. Recorded(results)
  BY SheetsRecord
<1> HIDE DEF results, a
<1>7. Ranks(teams, GroupOrder(results, a))
  BY <1>3, <1>4, <1>5, <1>6, GroupRanks
<1>8. Table(results, a).place = [t \in teams |-> PlaceOf(t, GroupOrder(results, a))]
  BY DEF Table
<1>9. Table(results, a).place \in Bijection(teams, 1..Cardinality(teams))
  BY <1>3, <1>7, <1>8, PlacesAreTaken
<1>10. Table(results, a).line = [t \in teams |-> Line(t, results)]
  BY DEF Table
<1>11. Table(results, a).line \in [teams -> Threes]
  BY <1>6, <1>10, LinesAreThrees
<1> QED
  BY <1>1, <1>9, <1>11 DEF results

\* Tables of groups that are over: every team of the group, and nobody else, has a place.
Complete(tables) ==
    \A g \in Groups : /\ tables[g].place \in Bijection(TeamsOf(g), 1..Cardinality(TeamsOf(g)))
                      /\ tables[g].line \in [TeamsOf(g) -> Threes]

\* Each of the first three places has its team.
LEMMA OneInPlace ==
    ASSUME NEW tables, Complete(tables), NEW g \in Groups, NEW i \in 1..3
    PROVE  \E t \in TeamsOf(g) : InPlace(i, tables[g]) = {t}
<1> DEFINE S == TeamsOf(g)
           n == Cardinality(S)
           place == tables[g].place
<1>1. IsFiniteSet(S)
  BY TeamsAreFinite, FS_Subset DEF TeamsOf, Teams, MatchesOf
<1>2. n \in Nat /\ n >= 3
  BY <1>1, FS_CardinalityType, PlacesAssumption
<1>3. place \in Bijection(S, 1..n)
  BY DEF Complete
<1> HIDE DEF place, S, n
<1>4. DOMAIN place = S /\ \A t, u \in S : place[t] = place[u] => t = u
  BY <1>3 DEF Bijection, Injection, IsInjective
<1>5. PICK t \in S : place[t] = i
  BY <1>2, <1>3 DEF Bijection, Surjection
<1>6. {u \in DOMAIN place : place[u] = i} = {t}
  BY <1>4, <1>5
<1> QED
  BY <1>6 DEF InPlace, place, S

\* The groups of the qualified thirds are as many as qualify.
LEMMA KeyIsFull ==
    ASSUME NEW tables, Complete(tables), NEW order \in Lots
    PROVE  AnnexCKey(tables, Orders[order]) \in DOMAIN AnnexC
<1> DEFINE third == [g \in Groups |-> CHOOSE t : InPlace(3, tables[g]) = {t}]
           line == ThirdLines(tables)
           D == DOMAIN line
           a == Orders[order]
           place == [t \in D |-> PlaceOf(t, ThirdOrder(line, a))]
           best == BestThirds(tables, a)
           key == AnnexCKey(tables, a)
<1>1. \A g \in Groups : InPlace(3, tables[g]) = {third[g]} /\ third[g] \in TeamsOf(g)
  <2> SUFFICES ASSUME NEW g \in Groups
               PROVE  InPlace(3, tables[g]) = {third[g]} /\ third[g] \in TeamsOf(g)
    OBVIOUS
  <2>1. PICK t \in TeamsOf(g) : InPlace(3, tables[g]) = {t}
    BY OneInPlace
  <2>2. third[g] = CHOOSE u : InPlace(3, tables[g]) = {u}
    OBVIOUS
  <2>3. InPlace(3, tables[g]) = {CHOOSE u : InPlace(3, tables[g]) = {u}}
    BY ONLY <2>1
  <2>4. InPlace(3, tables[g]) = {third[g]}
    BY ONLY <2>2, <2>3
  <2> QED
    BY ONLY <2>1, <2>4
<1>2. D = UNION {InPlace(3, tables[g]) : g \in Groups}
  BY DEF ThirdLines
<1> HIDE DEF third
<1>3. \A g \in Groups : third[g] \in D
  BY <1>1, <1>2
<1>4. \A t \in D : \E g \in Groups : t = third[g]
  BY <1>1, <1>2
<1>5. \A g, h \in Groups : third[g] = third[h] => g = h
  BY <1>1, GroupsApart
<1>6. D \subseteq Teams
  BY <1>1, <1>4 DEF TeamsOf, Teams, MatchesOf
<1>7. \A t \in D : line[t] \in Threes
  <2> SUFFICES ASSUME NEW t \in D PROVE line[t] \in Threes
    OBVIOUS
  <2> DEFINE h == CHOOSE g \in Groups : t \in InPlace(3, tables[g])
  <2>1. line[t] = tables[h].line[t]
    BY <1>2 DEF ThirdLines
  <2>2. \E g \in Groups : t \in InPlace(3, tables[g])
    BY <1>2
  <2>3. h \in Groups /\ t \in InPlace(3, tables[h])
    BY <2>2
  <2> HIDE DEF h
  <2>4. t \in TeamsOf(h)
    BY <1>1, <2>3
  <2> QED
    BY <2>1, <2>3, <2>4 DEF Complete
<1>8. (\A t \in D : a[t] \in Int) /\ \A t, u \in D : a[t] = a[u] => t = u
  <2>1. a \in [Teams -> Int]
    BY GeometryAssumption
  <2> QED
    BY <1>6, <2>1, PlacesAssumption
<1>9. Ranks(D, ThirdOrder(line, a))
  <2> HIDE DEF line, a
  <2> QED
    BY <1>7, <1>8, ThirdsRank
<1>10. IsFiniteSet(D)
  BY <1>6, TeamsAreFinite, FS_Subset
<1>11. place \in Bijection(D, 1..Cardinality(D))
  <2> HIDE DEF D, line, a
  <2> QED
    BY <1>9, <1>10, PlacesAreTaken
<1>12. best = {t \in D : place[t] <= Qualifiers}
  BY DEF BestThirds
<1>13. key = {g \in Groups : third[g] \in best}
  <2>1. key = {g \in Groups : InPlace(3, tables[g]) \cap best # {}}
    BY DEF AnnexCKey
  <2> HIDE DEF key, best
  <2> QED
    BY <1>1, <2>1
<1> HIDE DEF line, D, a, place, best, key
<1>14. Cardinality(D) = Cardinality(Groups)
  <2>1. third \in [Groups -> D]
    <3>1. third = [g \in Groups |-> third[g]]
      BY DEF third
    <3> QED
      BY <1>3, <3>1
  <2>2. third \in Bijection(Groups, D)
    BY <1>4, <1>5, <2>1, Fun_IsBij
  <2> QED
    BY <2>2, PlacesAssumption, FS_Bijection, Fun_ExistsBij
<1>15. Qualifiers \in Nat /\ Qualifiers <= Cardinality(D)
  <2>1. Cardinality(Groups) \in Nat
    BY PlacesAssumption, FS_CardinalityType
  <2> QED
    BY <1>14, <2>1, PlacesAssumption
<1>16. Cardinality(best) = Qualifiers
  <2> DEFINE f == [t \in best |-> place[t]]
  <2>1. place \in [D -> 1..Cardinality(D)]
    BY <1>11 DEF Bijection, Injection
  <2>2. Cardinality(D) \in Nat
    BY <1>10, FS_CardinalityType
  <2>3. f \in [best -> 1..Qualifiers]
    BY <1>12, <1>15, <2>1, <2>2
  <2>4. \A n \in 1..Qualifiers : \E t \in best : f[t] = n
    <3> SUFFICES ASSUME NEW n \in 1..Qualifiers PROVE \E t \in best : f[t] = n
      OBVIOUS
    <3>1. n \in 1..Cardinality(D)
      BY <1>15, <2>2
    <3>2. PICK t \in D : place[t] = n
      BY <1>11, <3>1 DEF Bijection, Surjection
    <3> QED
      BY <1>12, <3>2
  <2>5. \A t, u \in best : f[t] = f[u] => t = u
    BY <1>11, <1>12 DEF Bijection, Injection, IsInjective
  <2>6. IsFiniteSet(best)
    BY <1>10, <1>12, FS_Subset
  <2> HIDE DEF f
  <2>7. f \in Bijection(best, 1..Qualifiers)
    BY <2>3, <2>4, <2>5, Fun_IsBij
  <2>8. Cardinality(1..Qualifiers) = Cardinality(best)
    BY <2>6, <2>7, FS_Bijection, Fun_ExistsBij
  <2> QED
    BY <1>15, <2>8, FS_Interval
<1>17. Cardinality(key) = Cardinality(best)
  <2> DEFINE f == [g \in key |-> third[g]]
  <2>1. f \in [key -> best]
    BY <1>13
  <2>2. \A t \in best : \E g \in key : f[g] = t
    BY <1>4, <1>12, <1>13
  <2>3. \A g, h \in key : f[g] = f[h] => g = h
    BY <1>5, <1>13
  <2>4. IsFiniteSet(key)
    BY <1>13, PlacesAssumption, FS_Subset
  <2> HIDE DEF f
  <2>5. f \in Bijection(key, best)
    BY <2>1, <2>2, <2>3, Fun_IsBij
  <2> QED
    BY <2>4, <2>5, FS_Bijection, Fun_ExistsBij
<1>18. key \in SUBSET Groups
  BY <1>13
<1>19. key \in DOMAIN AnnexC
  BY <1>16, <1>17, <1>18, PlacesAssumption
<1> QED
  BY <1>19 DEF key, a

\* Seeds from complete tables: one team for each place.
LEMMA EverySeedIsOne ==
    ASSUME NEW tables, Complete(tables), NEW order \in Lots, NEW s \in Slots
    PROVE  \E team \in Teams : Seeds(tables, Orders[order])[s] = {team}
<1> DEFINE key == AnnexCKey(tables, Orders[order])
<1>1. \A g \in Groups : TeamsOf(g) \subseteq Teams
  BY DEF TeamsOf, Teams, MatchesOf
<1>2. CASE s.type = "group"
  <2>1. Seeds(tables, Orders[order])[s] = InPlace(s.place, tables[s.group])
    BY <1>2, GroupSeed
  <2>2. s.group \in Groups /\ s.place \in 1..3
    BY SlotsAre
  <2> QED
    BY <1>1, <2>1, <2>2, OneInPlace
<1>3. CASE s.type # "group"
  <2>1. key \in DOMAIN AnnexC
    BY KeyIsFull
  <2>2. s \in Thirds
    BY <1>3, SlotsAre DEF Thirds
  <2>3. Seeds(tables, Orders[order])[s] = InPlace(3, tables[AnnexC[key][s.group]])
    BY <1>3, <2>1 DEF Seeds
  <2>4. AnnexC[key][s.group] \in Groups
    BY <2>1, <2>2, RowsAre
  <2> QED
    BY <1>1, <2>3, <2>4, OneInPlace
<1> QED
  BY <1>2, <1>3

\* FIFA's seeding has one team for each place, however the groups end and the lots fall
\* (r32_resolver.py 97-175).
THEOREM FifaSeedsEveryPlace ==
    \A t \in Truths, l \in Lots, s \in Slots : \E team \in Teams : FifaSeeds[t][l][s] = {team}
<1> SUFFICES ASSUME NEW t \in Truths, NEW l \in Lots, NEW s \in Slots
             PROVE  \E team \in Teams : FifaSeeds[t][l][s] = {team}
  OBVIOUS
<1> DEFINE sheet == [g \in Groups |-> [m \in MatchesOf(g) |-> t[m]]]
           tables == [g \in Groups |-> Tables[g][[m \in MatchesOf(g) |-> t[m]]][l]]
<1>1. t \in [Matches -> GoalPairs]
  BY GeometryAssumption
<1>2. FifaSeeds[t][l] = Seeds(tables, Orders[l])
  BY DEF FifaSeeds
<1>3. ASSUME NEW g \in Groups
      PROVE  /\ tables[g].place \in Bijection(TeamsOf(g), 1..Cardinality(TeamsOf(g)))
             /\ tables[g].line \in [TeamsOf(g) -> Threes]
  <2>1. sheet[g] \in [MatchesOf(g) -> GoalPairs]
    BY <1>1 DEF MatchesOf
  <2>2. sheet[g] \in [MatchesOf(g) -> GoalPairs \cup {NoScore}]
    BY <2>1
  <2>3. InTable(ResultsOn(sheet[g])) = TeamsOf(g)
    BY <2>1, <2>2, SheetsRecord
  <2>4. tables[g] = Tables[g][sheet[g]][l]
    OBVIOUS
  <2> HIDE DEF sheet, tables
  <2> QED
    BY <2>2, <2>3, <2>4, EveryTeamHasAPlace
<1>4. Complete(tables)
  BY <1>3 DEF Complete
<1> HIDE DEF tables
<1> QED
  BY <1>2, <1>4, EverySeedIsOne

TrueTables == [g \in Groups |-> TrueTable(g)]

\* FIFA's seeds are those of the true tables, and there is one team for a place.
LEMMA TrueSeeds ==
    ASSUME TypeOK, NEW s \in Slots
    PROVE  /\ TrueSeed(s) = Seeds(TrueTables, Orders[lots])[s]
           /\ \E team \in Teams : TrueSeed(s) = {team}
<1>1. truth \in Truths /\ lots \in Lots
  BY DEF TypeOK
<1>2. FifaSeeds[truth][lots] = Seeds(TrueTables, Orders[lots])
  BY <1>1 DEF FifaSeeds, TrueTables, TrueTable, TrueSheet
<1> QED
  BY <1>1, <1>2, FifaSeedsEveryPlace DEF TrueSeed

\* Tables that leave nothing to the alphabet give the same qualified thirds under any lots.
LEMMA SeedsNeedNoAlphabet ==
    ASSUME NEW tables, DOMAIN ThirdLines(tables) \subseteq Teams,
           ThirdTies(ThirdLines(tables)) = {}, NEW l \in Lots, NEW k \in Lots
    PROVE  Seeds(tables, Orders[l]) = Seeds(tables, Orders[k])
<1> DEFINE line == ThirdLines(tables)
<1>1. IsFiniteSet(DOMAIN line)
  BY TeamsAreFinite, FS_Subset
<1>2. \A t \in DOMAIN line : Orders[l][t] \in Int /\ Orders[k][t] \in Int
  BY GeometryAssumption
<1>3. ThirdOrder(line, Orders[l]) = ThirdOrder(line, Orders[k])
  <2> HIDE DEF line
  <2>1. ThirdTies(line) = {}
    BY DEF line
  <2> QED
    BY <1>1, <1>2, <2>1, ThirdsNeedNoAlphabet
<1>4. BestThirds(tables, Orders[l]) = BestThirds(tables, Orders[k])
  BY <1>3 DEF BestThirds
<1>5. AnnexCKey(tables, Orders[l]) = AnnexCKey(tables, Orders[k])
  BY <1>4 DEF AnnexCKey
<1> QED
  BY <1>5 DEF Seeds

\* The third-placed teams of our tables are teams.
LEMMA ThirdsAreTeams ==
    ASSUME TypeOK
    PROVE  DOMAIN ThirdLines(OurTables) \subseteq Teams
<1>1. ASSUME NEW g \in Groups PROVE InPlace(3, OurTables[g]) \subseteq Teams
  <2>1. OurTables[g] = OurTable(g)
    BY DEF OurTables
  <2>2. DOMAIN OurTable(g).place \subseteq Teams
    BY TablesOfState, TableParts
  <2> QED
    BY <2>1, <2>2 DEF InPlace
<1> QED
  BY <1>1 DEF ThirdLines

\* A place the resolver fills from right results that left nothing to the alphabet is FIFA's.
LEMMA SeedsTrue ==
    ASSUME TypeOK
    PROVE  SeedsAreTrue
<1>1. ASSUME NEW s \in Slots, s.type = "group", Resolved[s] # {},
             Clean(s.group), NoTies(s.group)
      PROVE  Resolved[s] = TrueSeed(s)
  <2>1. s.group \in Groups /\ Settled(s.group)
    BY <1>1, SlotsAre DEF Resolved
  <2>2. Resolved[s] = InPlace(s.place, OurTable(s.group))
    BY <1>1, <2>1, GroupSeed DEF Resolved, OurTables
  <2>3. TrueSeed(s) = InPlace(s.place, TrueTable(s.group))
    <3>1. TrueSeed(s) = Seeds(TrueTables, Orders[lots])[s]
      BY TrueSeeds
    <3>2. Seeds(TrueTables, Orders[lots])[s] = InPlace(s.place, TrueTables[s.group])
      BY <1>1, GroupSeed
    <3>3. TrueTables[s.group] = TrueTable(s.group)
      BY <2>1 DEF TrueTables
    <3> QED
      BY <3>1, <3>2, <3>3
  <2> QED
    BY <1>1, <2>1, <2>2, <2>3, AlphabetIsLots
<1>2. ASSUME NEW s \in Slots, s.type # "group", Resolved[s] # {},
             \A g \in Groups : Clean(g), GroupWarnings \cup ThirdWarnings = {}
      PROVE  Resolved[s] = TrueSeed(s)
  <2>1. \A g \in Groups : Settled(g)
    BY <1>2 DEF Resolved
  <2>2. \A g \in Groups : OurTable(g) = TrueTable(g)
    <3>1. \A g \in Groups : NoTies(g)
      BY <1>2 DEF GroupWarnings, NoTies
    <3> QED
      BY <1>2, <2>1, <3>1, AlphabetIsLots
  <2>3. OurTables = TrueTables
    BY <2>2 DEF OurTables, TrueTables
  <2>4. Seeds(OurTables, Orders["alphabet"]) = Seeds(OurTables, Orders[lots])
    <3>1. ThirdTies(ThirdLines(OurTables)) = {}
      BY <1>2 DEF ThirdWarnings
    <3>2. "alphabet" \in Lots /\ lots \in Lots
      BY GeometryAssumption DEF TypeOK
    <3> QED
      BY <3>1, <3>2, ThirdsAreTeams, SeedsNeedNoAlphabet
  <2>5. Resolved[s] = Seeds(OurTables, Orders["alphabet"])[s]
    BY <1>2, <2>1 DEF Resolved
  <2> QED
    BY <2>3, <2>4, <2>5, TrueSeeds
<1> QED
  BY <1>1, <1>2 DEF SeedsAreTrue

\* While nothing recorded is wrong and no table warned, what is shown of a place is FIFA's.
AllRight == (\A g \in Groups : Clean(g)) /\ GroupWarnings \cup ThirdWarnings = {}

LEMMA ShownIsTrue ==
    ASSUME IInv, AllRight, NEW s \in Slots
    PROVE  /\ Shown[s] \subseteq TrueSeed(s)
           /\ Shown[s] # {} => Shown[s] = TrueSeed(s)
<1>1. CASE lineup[s] # TBD
  <2>1. Shown[s] = {lineup[s]}
    BY <1>1 DEF Shown
  <2> QED
    BY <1>1, <2>1 DEF IInv, NamesAreTrue
<1>2. CASE lineup[s] = TBD
  <2>1. Shown[s] = Resolved[s]
    BY <1>2 DEF Shown
  <2>2. ASSUME Resolved[s] # {} PROVE Resolved[s] = TrueSeed(s)
    <3>1. SeedsAreTrue
      BY SeedsTrue DEF IInv
    <3>2. s.type = "group" => NoTies(s.group)
      BY SlotsAre DEF AllRight, GroupWarnings, NoTies
    <3>3. s.type = "group" => Clean(s.group)
      BY SlotsAre DEF AllRight
    <3> QED
      BY <2>2, <3>1, <3>2, <3>3 DEF SeedsAreTrue, AllRight
  <2> QED
    BY <2>1, <2>2
<1> QED
  BY <1>1, <1>2

\* Two places of the tables hold no team in common.
LEMMA PlacesApart ==
    ASSUME TypeOK, NEW g \in Groups, NEW h \in Groups, NEW i, NEW j, g # h \/ i # j
    PROVE  InPlace(i, TrueTable(g)) \cap InPlace(j, TrueTable(h)) = {}
<1>1. /\ DOMAIN TrueTable(g).place \subseteq TeamsOf(g)
      /\ DOMAIN TrueTable(h).place \subseteq TeamsOf(h)
  BY TablesOfState, TableParts
<1>2. CASE g # h
  BY <1>1, <1>2, GroupsApart DEF InPlace
<1>3. CASE g = h
  BY <1>3 DEF InPlace
<1> QED
  BY <1>2, <1>3

\* The group a slot takes its team from.
TrueKey == AnnexCKey(TrueTables, Orders[lots])
SourceOf(s) == IF s.type = "group" THEN s.group ELSE AnnexC[TrueKey][s.group]

\* The one team of a place holds that place in the table of the group it comes from.
LEMMA SeedComesFrom ==
    ASSUME TypeOK, NEW s \in Slots
    PROVE  /\ SourceOf(s) \in Groups
           /\ TrueSeed(s) = InPlace(s.place, TrueTable(SourceOf(s)))
           /\ s.type # "group" => TrueKey \in DOMAIN AnnexC /\ s \in Thirds /\ s.place = 3
<1>1. TrueSeed(s) = Seeds(TrueTables, Orders[lots])[s] /\ TrueSeed(s) # {}
  BY TrueSeeds
<1>2. CASE s.type = "group"
  <2>1. Seeds(TrueTables, Orders[lots])[s] = InPlace(s.place, TrueTables[s.group])
    BY <1>2, GroupSeed
  <2>2. TrueTables[s.group] = TrueTable(s.group)
    BY SlotsAre DEF TrueTables
  <2> QED
    BY <1>1, <1>2, <2>1, <2>2, SlotsAre DEF SourceOf
<1>3. CASE s.type # "group"
  <2>1. s.place = 3 /\ s \in Thirds
    BY <1>3, SlotsAre DEF Thirds
  <2>2. TrueSeed(s) = IF TrueKey \in DOMAIN AnnexC
                      THEN InPlace(3, TrueTables[AnnexC[TrueKey][s.group]]) ELSE {}
    BY <1>1, <1>3 DEF Seeds, TrueKey
  <2>3. TrueKey \in DOMAIN AnnexC
    BY <1>1, <2>2
  <2>4. AnnexC[TrueKey][s.group] \in Groups
    BY <2>1, <2>3, RowsAre
  <2>5. SourceOf(s) = AnnexC[TrueKey][s.group]
    BY <1>3 DEF SourceOf
  <2>6. TrueTables[SourceOf(s)] = TrueTable(SourceOf(s))
    BY <2>4, <2>5 DEF TrueTables
  <2> QED
    BY <2>1, <2>2, <2>3, <2>4, <2>5, <2>6
<1> QED
  BY <1>2, <1>3

\* FIFA puts no team in two slots.
LEMMA SeedsApart ==
    ASSUME TypeOK, NEW s \in Slots, NEW r \in Slots, s # r
    PROVE  TrueSeed(s) \cap TrueSeed(r) = {}
<1>1. CASE s.type = "group" /\ r.type = "group"
  <2>1. s.group # r.group \/ s.place # r.place
    BY <1>1, SlotsAre
  <2>2. SourceOf(s) = s.group /\ SourceOf(r) = r.group
    BY <1>1 DEF SourceOf
  <2> QED
    BY <2>1, <2>2, SeedComesFrom, PlacesApart
<1>2. CASE s.type # "group" /\ r.type # "group"
  <2>1. s.type = "third" /\ r.type = "third"
    BY <1>2, SlotsAre
  <2>2. s.group # r.group
    BY <2>1, SlotsAre
  <2>3. SourceOf(s) # SourceOf(r)
    BY <1>2, <2>2, SeedComesFrom, RowsAre DEF SourceOf
  <2> QED
    BY <2>3, SeedComesFrom, PlacesApart
<1>3. CASE s.place # r.place
  BY <1>3, SeedComesFrom, PlacesApart
<1>4. s.type # "group" => s.place = 3
  BY SlotsAre
<1>5. r.type # "group" => r.place = 3
  BY SlotsAre
<1>6. s.type = "group" => s.place \in 1..2
  BY SlotsAre
<1>7. r.type = "group" => r.place \in 1..2
  BY SlotsAre
<1> QED
  BY <1>1, <1>2, <1>3, <1>4, <1>5, <1>6, <1>7

\* No team is shown twice.
LEMMA ShownOnce ==
    ASSUME IInv
    PROVE  NobodyShownTwice
<1> SUFFICES ASSUME AllRight, NEW s \in Slots, NEW r \in Slots, s # r
             PROVE  Shown[s] \cap Shown[r] = {}
  BY DEF NobodyShownTwice, AllRight
<1>1. Shown[s] \subseteq TrueSeed(s) /\ Shown[r] \subseteq TrueSeed(r)
  BY ShownIsTrue
<1>2. TrueSeed(s) \cap TrueSeed(r) = {}
  BY SeedsApart DEF IInv
<1> QED
  BY <1>1, <1>2

\* FIFA's round has as many teams as places.
LEMMA RoundIsFull ==
    ASSUME TypeOK
    PROVE  LET round == UNION {TrueSeed(s) : s \in Slots}
           IN  round \subseteq Teams /\ Cardinality(round) = Cardinality(Slots)
<1> DEFINE round == UNION {TrueSeed(s) : s \in Slots}
           seed == [s \in Slots |-> CHOOSE t \in Teams : TrueSeed(s) = {t}]
<1>1. \A s \in Slots : seed[s] \in Teams /\ TrueSeed(s) = {seed[s]}
  <2> SUFFICES ASSUME NEW s \in Slots PROVE seed[s] \in Teams /\ TrueSeed(s) = {seed[s]}
    OBVIOUS
  <2>1. PICK t \in Teams : TrueSeed(s) = {t}
    BY TrueSeeds
  <2>2. seed[s] = CHOOSE u \in Teams : TrueSeed(s) = {u}
    OBVIOUS
  <2> QED
    BY ONLY <2>1, <2>2
<1> HIDE DEF seed
<1>2. \A s, r \in Slots : seed[s] = seed[r] => s = r
  BY <1>1, SeedsApart
<1>3. \A t \in round : \E s \in Slots : seed[s] = t
  BY <1>1
<1>4. seed \in [Slots -> round]
  BY <1>1 DEF seed
<1>5. round \subseteq Teams
  BY <1>1
<1> HIDE DEF round
<1>6. IsFiniteSet(round)
  BY <1>5, TeamsAreFinite, FS_Subset
<1>7. seed \in Injection(Slots, round) /\ seed \in Surjection(Slots, round)
  BY <1>2, <1>3, <1>4, Fun_IsInj, Fun_IsSurj
<1>8. Cardinality(round) = Cardinality(Slots)
  BY <1>6, <1>7, FS_Injection
<1> QED
  BY <1>5, <1>8 DEF round

\* A team reported out is in no place of FIFA's, and whoever has none is reported out.
LEMMA OutAreOut ==
    ASSUME IInv
    PROVE  OutIsOut
<1> DEFINE round == UNION {TrueSeed(s) : s \in Slots}
<1> SUFFICES ASSUME AllRight, Eliminated # {}
             PROVE  /\ Eliminated = Teams \ round
                    /\ Cardinality(Teams \ Eliminated) = Cardinality(Slots)
  BY DEF OutIsOut, AllRight
<1>1. FullySeeded(Shown) /\ Eliminated = Teams \ UNION {Shown[s] : s \in Slots}
  BY DEF Eliminated
<1>2. \A s \in Slots : Shown[s] = TrueSeed(s)
  BY <1>1, ShownIsTrue DEF FullySeeded
<1>3. Eliminated = Teams \ round
  BY <1>1, <1>2
<1>4. round \subseteq Teams /\ Cardinality(round) = Cardinality(Slots)
  BY RoundIsFull DEF IInv
<1>5. Teams \ Eliminated = round
  BY <1>3, <1>4
<1> QED
  BY <1>3, <1>4, <1>5

\* Groups that are over and that the verifier finds in agreement with the final table hold
\* FIFA's group places.
LEMMA VerifiedTrue ==
    ASSUME TypeOK
    PROVE  VerifiedSeedsTrue
<1> SUFFICES ASSUME NEW lag \in Lags, NEW s \in Slots \ Thirds,
                    Settled(s.group), s.group \notin Disagreements(lag),
                    ServedTable(s.group, lag) = TrueTable(s.group)
             PROVE  Resolved[s] = TrueSeed(s)
  BY DEF VerifiedSeedsTrue
<1>1. s.type = "group" /\ s.group \in Groups
  BY SlotsAre DEF Thirds
<1>2. OurTable(s.group).place = TrueTable(s.group).place
  BY <1>1 DEF Disagreements
<1>3. Resolved[s] = InPlace(s.place, OurTable(s.group))
  BY <1>1, GroupSeed DEF Resolved, OurTables
<1>4. TrueSeed(s) = InPlace(s.place, TrueTable(s.group))
  <2>1. TrueSeed(s) = Seeds(TrueTables, Orders[lots])[s]
    BY TrueSeeds
  <2>2. Seeds(TrueTables, Orders[lots])[s] = InPlace(s.place, TrueTables[s.group])
    BY <1>1, GroupSeed
  <2>3. TrueTables[s.group] = TrueTable(s.group)
    BY <1>1 DEF TrueTables
  <2> QED
    BY <2>1, <2>2, <2>3
<1> QED
  BY <1>2, <1>3, <1>4 DEF InPlace

-----------------------------------------------------------------------------
(***************************************************************************)
(* The behaviours.                                                         *)
(***************************************************************************)

\* What is true of a bracket holds before anything is known.
LEMMA InitInv == Init => IInv
<1> SUFFICES ASSUME Init PROVE IInv
  OBVIOUS
<1>1. truth \in [Matches -> GoalPairs]
  BY GeometryAssumption DEF Init
<1>2. score \in [Matches -> GoalPairs \cup {NoScore}]
  BY <1>1 DEF Init
<1>3. TypeOK
  BY <1>2, GeometryAssumption DEF Init, TypeOK
<1>4. NamesAreTrue
  BY DEF Init, NamesAreTrue
<1> QED
  BY <1>3, <1>4 DEF IInv

\* The results on the pitch and the lots are drawn once.
LEMMA TruthStands == Next => UNCHANGED <<truth, lots>>
BY DEF Next, Final, Mistype, Correct, TypeScore, FinishBare, Unfinish, Publish, Unpublish,
       CheckDrift, DismissDrift

\* Every step keeps the types.
LEMMA NextTypeOK == TypeOK /\ [Next]_vars => TypeOK'
<1> SUFFICES ASSUME TypeOK, [Next]_vars PROVE TypeOK'
  OBVIOUS
<1>0. truth \in [Matches -> GoalPairs]
  BY GeometryAssumption DEF TypeOK
<1>1. ASSUME NEW m \in Matches, Final(m) PROVE TypeOK'
  BY <1>0, <1>1 DEF TypeOK, Final
<1>2. ASSUME NEW m \in Matches, NEW s \in GoalPairs, Mistype(m, s) PROVE TypeOK'
  BY <1>2, GeometryAssumption DEF TypeOK, Mistype, TypeScore
<1>3. ASSUME NEW m \in Matches, Correct(m) PROVE TypeOK'
  BY <1>0, <1>3 DEF TypeOK, Correct, TypeScore
<1>4. ASSUME NEW m \in Matches, FinishBare(m) PROVE TypeOK'
  BY <1>4, GeometryAssumption DEF TypeOK, FinishBare
<1>5. ASSUME NEW m \in Matches, Unfinish(m) PROVE TypeOK'
  BY <1>5, GeometryAssumption DEF TypeOK, Unfinish
<1>6. ASSUME NEW batch \in Batches, Publish(batch) PROVE TypeOK'
  <2>1. \A s \in Slots : (CHOOSE t \in Teams : t \in TrueSeed(s)) \in Teams
    BY TrueSeeds
  <2>2. lineup' \in [Slots -> Teams \cup {TBD}]
    BY <1>6, <2>1 DEF TypeOK, Publish
  <2> QED
    BY <1>6, <2>2 DEF TypeOK, Publish
<1>7. ASSUME NEW lag \in Lags, CheckDrift(lag) PROVE TypeOK'
  <2>1. Disagreements(lag) \subseteq Groups
    BY DEF Disagreements
  <2>2. \A event \in drift' : DOMAIN event \subseteq Groups
    BY <1>7, <2>1 DEF TypeOK, CheckDrift
  <2> QED
    BY <1>7, <2>2 DEF TypeOK, CheckDrift
<1>8. ASSUME NEW event \in drift, DismissDrift(event) PROVE TypeOK'
  BY <1>8 DEF TypeOK, DismissDrift
<1>9. ASSUME NEW batch \in Batches, Unpublish(batch) PROVE TypeOK'
  <2>1. lineup' \in [Slots -> Teams \cup {TBD}]
    BY <1>9 DEF TypeOK, Unpublish
  <2> QED
    BY <1>9, <2>1, GeometryAssumption DEF TypeOK, Unpublish
<1>10. ASSUME UNCHANGED vars PROVE TypeOK'
  BY <1>10 DEF TypeOK, vars
<1> QED
  BY <1>1, <1>2, <1>3, <1>4, <1>5, <1>6, <1>7, <1>8, <1>9, <1>10 DEF Next

\* A name is only written for the team that is to have the place, and never another after.
LEMMA NextNamesAreTrue == IInv /\ [Next]_vars => NamesAreTrue'
<1> SUFFICES ASSUME IInv, [Next]_vars, NEW s \in Slots, lineup'[s] # TBD
             PROVE  TrueSeed(s)' = {lineup'[s]}
  BY DEF NamesAreTrue
<1>1. TrueSeed(s)' = TrueSeed(s)
  <2>1. truth' = truth /\ lots' = lots
    BY TruthStands DEF vars
  <2> QED
    BY <2>1 DEF TrueSeed
<1>2. CASE lineup' = lineup
  BY <1>1, <1>2 DEF IInv, NamesAreTrue
<1>3. ASSUME NEW batch \in Batches, Publish(batch) PROVE TrueSeed(s) = {lineup'[s]}
  <2>1. CASE s \in batch
    <3>1. PICK team \in Teams : TrueSeed(s) = {team}
      BY TrueSeeds DEF IInv
    <3>2. lineup'[s] = CHOOSE t \in Teams : t \in TrueSeed(s)
      BY <1>3, <2>1 DEF Publish
    <3>3. lineup'[s] \in TrueSeed(s)
      BY <3>1, <3>2
    <3> QED
      BY <3>1, <3>3
  <2>2. CASE s \notin batch
    <3>1. lineup'[s] = lineup[s]
      BY <1>3, <2>2 DEF Publish
    <3> QED
      BY <3>1 DEF IInv, NamesAreTrue
  <2> QED
    BY <2>1, <2>2
<1>4. ASSUME NEW batch \in Batches, Unpublish(batch) PROVE TrueSeed(s) = {lineup'[s]}
  <2>1. s \notin batch /\ lineup'[s] = lineup[s]
    BY <1>4 DEF Unpublish
  <2> QED
    BY <2>1 DEF IInv, NamesAreTrue
<1>5. \/ lineup' = lineup
      \/ \E batch \in Batches : Publish(batch)
      \/ \E batch \in Batches : Unpublish(batch)
  BY DEF Next, vars, Final, Mistype, Correct, TypeScore, FinishBare, Unfinish, CheckDrift,
         DismissDrift
<1> QED
  BY <1>1, <1>2, <1>3, <1>4, <1>5

\* Every behaviour stays within the types and the names FIFA publishes.
THEOREM NamesStayTrue == Spec => []IInv
<1>1. IInv /\ [Next]_vars => IInv'
  BY NextTypeOK, NextNamesAreTrue DEF IInv
<1> QED
  BY <1>1, InitInv, PTL DEF Spec

\* Whatever way a place of the first round is filled, from a settled table, by Football-Data
\* or with the verifier's agreement, the team in it is FIFA's, and is shown once.
THEOREM TheBracketIsTrue == Spec => []BracketIsTrue
<1>1. IInv => BracketIsTrue
  BY SeedsTrue, ShownOnce, VerifiedTrue DEF BracketIsTrue, IInv
<1> QED
  BY <1>1, NamesStayTrue, PTL

\* A team reported out is in no place of the round.
THEOREM WhoIsOutIsOut == Spec => []OutIsOut
BY NamesStayTrue, OutAreOut, PTL

\* A group place moves only for a result of that group.
LEMMA PlaceMovesForAResult ==
    ASSUME NEW s \in Slots, s.type = "group", Resolved[s] # {},
           \A m \in MatchesOf(s.group) \cap finished : m \in finished' /\ score'[m] = score[m]
    PROVE  Resolved'[s] = Resolved[s]
<1>0. s.group \in Groups
  BY SlotsAre
<1>1. Settled(s.group)
  BY DEF Resolved
<1>2. Settled(s.group)' /\ Counted(s.group)' = Counted(s.group)
  BY <1>1 DEF Settled, Counted
<1>3. OurTable(s.group)' = OurTable(s.group)
  BY <1>2 DEF OurTable
<1>4. Resolved[s] = InPlace(s.place, OurTable(s.group))
  BY <1>0, <1>1, GroupSeed DEF Resolved, OurTables
<1>5. Resolved'[s] = InPlace(s.place, OurTable(s.group)')
  BY <1>0, <1>2, GroupSeed DEF Resolved, OurTables
<1> QED
  BY <1>3, <1>4, <1>5

\* An event names only groups that erred, that the alphabet decided, or whose served table
\* is not the final one.
LEMMA DriftHasCause ==
    ASSUME TypeOK, [Next]_vars, NEW event \in drift' \ drift, NEW g \in DOMAIN event
    PROVE  ~Clean(g) \/ ~NoTies(g) \/ event[g].theirs # TrueTable(g)
<1>1. PICK lag \in Lags : CheckDrift(lag)
  BY DEF Next, vars, Final, Mistype, Correct, TypeScore, FinishBare, Unfinish, Publish,
         Unpublish, CheckDrift, DismissDrift
<1>2. event = [h \in Disagreements(lag) |->
                  [ours |-> OurTable(h), theirs |-> ServedTable(h, lag)]]
  BY <1>1 DEF CheckDrift
<1>3. g \in Disagreements(lag) /\ event[g].theirs = ServedTable(g, lag)
  BY <1>2
<1>4. g \in Groups /\ Settled(g) /\ OurTable(g) # ServedTable(g, lag)
  BY <1>3 DEF Disagreements
<1> QED
  BY <1>3, <1>4, AlphabetIsLots

\* A place moves only for a result of its group, however results arrive, are mistyped or are
\* taken back; and the verifier names no group that neither erred nor tied, unless the table
\* it was served was itself behind.
THEOREM TheSeedsStand == Spec => SeedsStand
<1>1. IInv /\ [Next]_vars =>
        [LET before == Resolved
             after == Resolved'
         IN  \A s \in Slots :
                s.type = "group" /\ before[s] # {} /\ after[s] # before[s] =>
                    \E m \in MatchesOf(s.group) \cap finished :
                        m \notin finished' \/ score'[m] # score[m]]_vars
  BY PlaceMovesForAResult
<1>2. IInv /\ [Next]_vars =>
        [\A event \in drift' \ drift : \A g \in DOMAIN event :
            ~Clean(g) \/ ~NoTies(g) \/ event[g].theirs # TrueTable(g)]_vars
  BY DriftHasCause DEF IInv
<1> QED
  BY <1>1, <1>2, NamesStayTrue, PTL DEF Spec, SeedsStand, ResolvedStands, DriftIsExplained
=============================================================================
