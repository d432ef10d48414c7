----------------------------- MODULE MCKnockout -----------------------------
(***************************************************************************)
(* Knockout with eight teams from the quarter-finals on: one semi-final    *)
(* and the final are open; the names of one quarter-final are still slots. *)
(***************************************************************************)
EXTENDS Knockout

MCMatches == {"q1", "q2", "q3", "q4", "s1", "s2", "f"}
MCOver0 == {"q1", "q2", "q3", "q4", "s2"}
MCNamed0 == {"q2", "q3", "q4"}
MCRound == [m \in MCMatches |->
    CASE m \in {"q1", "q2", "q3", "q4"} -> 1 [] m \in {"s1", "s2"} -> 2 [] m = "f" -> 3]
MCSource == [m \in MCMatches |->
    CASE m = "s1" -> <<"q1", "q2">> [] m = "s2" -> <<"q3", "q4">> [] m = "f" -> <<"s1", "s2">>
      [] OTHER -> <<>>]
MCFirstLineup == [m \in {"q1", "q2", "q3", "q4"} |->
    CASE m = "q1" -> <<"t1", "t2">> [] m = "q2" -> <<"t3", "t4">>
      [] m = "q3" -> <<"t5", "t6">> [] m = "q4" -> <<"t7", "t8">>]
MCSlot == [m \in MCMatches |->
    CASE m = "q1" -> <<"slot:q1:h", "slot:q1:a">> [] m = "q2" -> <<"slot:q2:h", "slot:q2:a">>
      [] m = "q3" -> <<"slot:q3:h", "slot:q3:a">> [] m = "q4" -> <<"slot:q4:h", "slot:q4:a">>
      [] m = "s1" -> <<"slot:s1:h", "slot:s1:a">> [] m = "s2" -> <<"slot:s2:h", "slot:s2:a">>
      [] m = "f" -> <<"slot:f:h", "slot:f:a">>]

MCTopTeams == {"t1", "t2", "t7"}
MCTruths ==
    {[m \in MCMatches |-> IF m = "s1" THEN a ELSE IF m = "f" THEN a ELSE 1] :
        a \in 1..2}

MCEntries == {"e1", "e2", "e3"}
MCPicks == [e \in MCEntries |->
    CASE e = "e1" -> <<{"t1", "t3", "t5", "t7"}, {"t1", "t5"}, {"t1", "t5"}, {"t1"}>>
      [] e = "e2" -> <<{"t2", "t3", "t5", "t8"}, {"t2", "t3"}, {"t3", "t5"}, {"t3"}>>
      [] e = "e3" -> <<{"t1", "t4", "t5", "t7"}, {"t1", "t5"}, {"t5", "t1"}, {"t5"}>>]
MCAdvance == <<40, 50, 75, 100>>

MCQuestions == {"dark_horse", "most_goals"}
MCCategory == [q \in MCQuestions |-> IF q = "dark_horse" THEN "top_flop" ELSE "group_stage"]
MCWorth == [q \in MCQuestions |-> IF q = "dark_horse" THEN 20 ELSE 15]
MCAnswer == [e \in MCEntries |-> [q \in MCQuestions |->
    CASE e = "e1" -> "t2" [] e = "e2" -> "t3" [] e = "e3" -> "t4"]]
MCAnswerSets == [q \in MCQuestions |->
    IF q = "dark_horse" THEN {{}, {"t2"}} ELSE {{}, {"t3", "t4"}}]

MCForecast == [e \in MCEntries |->
    CASE e = "e1" -> <<1, 0>> [] e = "e2" -> <<2, 0>> [] e = "e3" -> <<1, 1>>]
MCGroupScore0 == <<1, 0>>
MCGroupScores == {<<1, 0>>, <<1, 1>>}
MCSurprise == [c \in (1..3) \X (1..3) |-> IF 2 * c[1] < c[2] THEN 4 ELSE 0]
=============================================================================
