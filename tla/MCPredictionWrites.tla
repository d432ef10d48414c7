------------------------ MODULE MCPredictionWrites ------------------------
(***************************************************************************)
(* PredictionWrites with two rounds after the first, and the brackets that *)
(* matter: two complete ones, one whose champion lost in the first round,  *)
(* one without first-round picks, and a champion alone.                    *)
(***************************************************************************)
EXTENDS PredictionWrites

CONSTANTS A, B, C, D

Sent(first, finalists, champion) ==
    [r \in 0..2 |-> IF r = 0 THEN first ELSE IF r = 1 THEN finalists ELSE champion]

\* Four places, two, one.
MCPlaces == [r \in 0..2 |-> 2 ^ (2 - r)]

MCTeams == {A, B, C, D}

MCScores == {[home |-> 1, away |-> 0], [home |-> 0, away |-> 1]}

MCBrackets ==
    {Sent(MCTeams, {A, B}, {A}), Sent(MCTeams, {A, B}, {C}),
     Sent({}, {A, B}, {A}), Sent({}, {}, {B})}
=============================================================================
