-------------------------- MODULE MCQualification --------------------------
(***************************************************************************)
(* Qualification with three groups of three teams and two thirds of three: *)
(* group A is still open, B has one match left, C is over.                 *)
(***************************************************************************)
EXTENDS Qualification

CONSTANTS A1, A2, A3, B1, B2, B3, C1, C2, C3

MCMatch(g, t, u) == [group |-> g, home |-> t, away |-> u]

MCFixture ==
    [m \in {"a1", "a2", "a3", "b1", "b2", "b3", "c1", "c2", "c3"} |->
        CASE m = "a1" -> MCMatch("A", A1, A2)
          [] m = "a2" -> MCMatch("A", A2, A3)
          [] m = "a3" -> MCMatch("A", A3, A1)
          [] m = "b1" -> MCMatch("B", B1, B2)
          [] m = "b2" -> MCMatch("B", B2, B3)
          [] m = "b3" -> MCMatch("B", B3, B1)
          [] m = "c1" -> MCMatch("C", C1, C2)
          [] m = "c2" -> MCMatch("C", C2, C3)
          [] m = "c3" -> MCMatch("C", C1, C3)]

MCPlayed0 == {"b1", "b2", "c1", "c2", "c3"}

MCGoalPairs == {<<1, 0>>, <<0, 1>>, <<2, 1>>}

\* Group A in a circle that nothing separates, in one that goals separate, and in order;
\* group B in a circle, or in order with its third level with that of C.
MCTruths ==
    {[m \in DOMAIN MCFixture |->
        CASE m = "a1" -> a[1] [] m = "a2" -> a[2] [] m = "a3" -> a[3] [] m = "b3" -> b
          [] OTHER -> <<1, 0>>] :
        a \in {<< <<1, 0>>, <<1, 0>>, <<1, 0>> >>, << <<1, 0>>, <<1, 0>>, <<2, 1>> >>,
                << <<0, 1>>, <<1, 0>>, <<0, 1>> >>, << <<2, 1>>, <<0, 1>>, <<0, 1>> >>},
        b \in {<<1, 0>>, <<0, 1>>}}

\* The served table may be behind on the last match of B, or also count for the last of A
\* the goal with which it began.
MCLags ==
    {<<>>, [m \in {"b3"} |-> NoScore],
     [m \in {"a3", "b3"} |-> IF m = "a3" THEN <<1, 0>> ELSE NoScore]}

MCTeams == {A1, A2, A3, B1, B2, B3, C1, C2, C3}

MCAlphabet ==
    [t \in MCTeams |->
        CASE t = A1 -> 1 [] t = A2 -> 2 [] t = A3 -> 3
          [] t = B1 -> 4 [] t = B2 -> 5 [] t = B3 -> 6
          [] t = C1 -> 7 [] t = C2 -> 8 [] t = C3 -> 9]

MCOrders ==
    [order \in {"alphabet", "reversed"} |->
        IF order = "alphabet" THEN MCAlphabet ELSE [t \in MCTeams |-> 10 - MCAlphabet[t]]]

At(g, i) == [type |-> "group", group |-> g, place |-> i]
ThirdAgainst(g) == [type |-> "third", group |-> g, place |-> 3]

MCBatches ==
    {{At("A", 1), ThirdAgainst("A"), At("B", 2), At("C", 2)},
     {At("B", 1), ThirdAgainst("B"), At("C", 1), At("A", 2)}}

MCSlots == UNION MCBatches

MCAnnexC ==
    [key \in {{"A", "B"}, {"A", "C"}, {"B", "C"}} |->
        [g \in {"A", "B"} |->
            CASE key = {"A", "B"} -> IF g = "A" THEN "B" ELSE "A"
              [] key = {"A", "C"} -> IF g = "A" THEN "C" ELSE "A"
              [] key = {"B", "C"} -> IF g = "A" THEN "B" ELSE "C"]]
=============================================================================
