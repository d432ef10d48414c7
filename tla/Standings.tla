----------------------------- MODULE Standings -----------------------------
(***************************************************************************)
(* The tables of the group stage (services/standings.py): points, then     *)
(* head to head among the teams level on points and again among those it   *)
(* leaves level, then the goals of the whole group, then the alphabet.     *)
(*                                                                         *)
(* The code ranks by sorting and cutting the list where the key changes.   *)
(* Here an order is a set of pairs <<t, u>>, t ahead of u, and a set of    *)
(* tied teams is resolved by a function on the subsets of the group, which *)
(* calls itself on proper subsets only, as _resolve_group_tie does.        *)
(*                                                                         *)
(* A result is a record [home, away, hg, ag] of teams and goals; the       *)
(* alphabet is a function from teams to numbers.                           *)
(***************************************************************************)
EXTENDS Integers, FiniteSets, FiniteSetsExt, Sums

\* Python compares tuples: the first difference decides.
Above(a, b) ==
    \E i \in DOMAIN a : a[i] > b[i] /\ \A j \in 1..(i - 1) : a[j] = b[j]

Scored(t, r) == IF r.home = t THEN r.hg ELSE r.ag
Conceded(t, r) == IF r.home = t THEN r.ag ELSE r.hg

Played(t, results) == {r \in results : t \in {r.home, r.away}}
Won(t, results) == {r \in Played(t, results) : Scored(t, r) > Conceded(t, r)}
Drawn(t, results) == {r \in Played(t, results) : r.hg = r.ag}

\* One line of a table: points, goal difference, goals for.
Points(t, results) == 3 * Cardinality(Won(t, results)) + Cardinality(Drawn(t, results))
Difference(t, results) ==
    SumOver([r \in results |-> Scored(t, r) - Conceded(t, r)], Played(t, results))
GoalsFor(t, results) == SumOver([r \in results |-> Scored(t, r)], Played(t, results))

Line(t, results) == <<Points(t, results), Difference(t, results), GoalsFor(t, results)>>
Goals(t, results) == <<Difference(t, results), GoalsFor(t, results)>>

\* Only teams with a counted result are in a table at all.
InTable(results) == {r.home : r \in results} \cup {r.away : r \in results}

\* The results between the teams of S.
Between(S, results) == {r \in results : r.home \in S /\ r.away \in S}

Level(S, key) == {{u \in S : key[u] = key[t]} : t \in S}

\* _rank_by_overall_then_alpha, and the ties it leaves to the alphabet.
ByOverall(S, results, alphabet) ==
    {p \in S \X S :
        \/ Above(Goals(p[1], results), Goals(p[2], results))
        \/ /\ Goals(p[1], results) = Goals(p[2], results)
           /\ alphabet[p[1]] < alphabet[p[2]]}

AlphabetTies(S, results) ==
    {C \in Level(S, [t \in S |-> Goals(t, results)]) : Cardinality(C) > 1}

MiniTable(S, results) == [t \in S |-> Line(t, Between(S, results))]

\* _resolve_group_tie: those whom head to head leaves level are resolved among themselves,
\* unless it separated nobody.
Resolve(S, ahead, results, alphabet) ==
    LET table == MiniTable(S, results)
        level == Level(S, table)
    IN  {p \in S \X S : Above(table[p[1]], table[p[2]])}
        \cup IF level = {S} THEN ByOverall(S, results, alphabet)
             ELSE UNION {ahead[C] : C \in level}

ByHeadToHead(results, alphabet) ==
    LET ahead[S \in SUBSET InTable(results)] == Resolve(S, ahead, results, alphabet)
    IN  ahead

\* The ties that it leaves to the alphabet.
Unresolved(S, ties, results) ==
    LET level == Level(S, MiniTable(S, results))
    IN  IF level = {S} THEN AlphabetTies(S, results) ELSE UNION {ties[C] : C \in level}

HeadToHeadTies(results) ==
    LET ties[S \in SUBSET InTable(results)] == Unresolved(S, ties, results)
    IN  ties

OnPoints(results) ==
    Level(InTable(results), [t \in InTable(results) |-> Points(t, results)])

\* _apply_fifa_tiebreakers of one group, and the warnings it returns.
GroupOrder(results, alphabet) ==
    {p \in InTable(results) \X InTable(results) :
        Points(p[1], results) > Points(p[2], results)}
    \cup UNION {ByHeadToHead(results, alphabet)[S] : S \in OnPoints(results)}

GroupTies(results) == UNION {HeadToHeadTies(results)[S] : S \in OnPoints(results)}

PlaceOf(t, order) == 1 + Cardinality({p \in order : p[2] = t})

\* Third-placed teams meet nobody's results but their own: points, goals, alphabet.
ThirdOrder(line, alphabet) ==
    {p \in (DOMAIN line) \X (DOMAIN line) :
        \/ Above(line[p[1]], line[p[2]])
        \/ line[p[1]] = line[p[2]] /\ alphabet[p[1]] < alphabet[p[2]]}

ThirdTies(line) == {C \in Level(DOMAIN line, line) : Cardinality(C) > 1}
=============================================================================
