------------------------------ MODULE MCFeeds ------------------------------
(***************************************************************************)
(* What comes from outside and what is published, for TLC: the match       *)
(* reports, the odds file, the forecast and the sheet.  They share no      *)
(* state that a property reads, so a behaviour follows one of them: their  *)
(* states add up where a product would multiply them.                      *)
(*                                                                         *)
(* The forecast runs from the semi-finals on: four teams, three entries    *)
(* that differ in finalists, winner and bonus answers, and points so close *)
(* that every entry wins, ties and loses in some completion.               *)
(***************************************************************************)
EXTENDS WinProbability

MCMatches == {1, 2, 3}
MCRound == [m \in MCMatches |-> IF m = 3 THEN 2 ELSE 1]
MCFeeders == [m \in MCMatches |-> IF m = 3 THEN <<1, 2>> ELSE <<>>]
MCFirstPair == [m \in {1, 2} |-> IF m = 1 THEN <<"t1", "t2">> ELSE <<"t3", "t4">>]
MCTeams == {"t1", "t2", "t3", "t4"}
MCTopTeams == {"t1", "t3"}
MCEntries == {"e1", "e2", "e3"}
MCPicks == [e \in MCEntries |->
    CASE e = "e1" -> {<<"t1", 1>>, <<"t1", 2>>, <<"t3", 2>>, <<"t1", 3>>}
      [] e = "e2" -> {<<"t4", 1>>, <<"t1", 2>>, <<"t4", 2>>, <<"t4", 3>>}
      [] e = "e3" -> {<<"t2", 1>>, <<"t2", 2>>, <<"t3", 2>>, <<"t3", 3>>}]
MCWorth == <<1, 2, 4>>
MCFixed == [e \in MCEntries |-> IF e = "e3" THEN 1 ELSE 0]
MCQuestions == {"dark_horse", "flop"}
MCBonus == [e \in MCEntries |-> [q \in MCQuestions |->
    IF q = "dark_horse" THEN (IF e = "e2" THEN "t4" ELSE "t2")
                        ELSE (IF e = "e1" THEN "t3" ELSE "t1")]]
MCBonusWorth == [q \in MCQuestions |-> IF q = "dark_horse" THEN 2 ELSE 3]
MCAnswerSets == [q \in MCQuestions |->
    IF q = "dark_horse" THEN {{}, {"t4"}} ELSE {{}, {"t1", "t3"}}]
MCQuotes ==
    {[reach |-> <<>>, odds |-> <<>>], [reach |-> <<1, 3>>, odds |-> <<2, 1>>],
     [reach |-> <<0, 0>>, odds |-> <<2, 1>>], [reach |-> <<0, 1>>, odds |-> <<>>]}

-----------------------------------------------------------------------------
CONSTANTS MaxGoals, MaxKicks
VARIABLES match, late, listing, fixture
Reports == INSTANCE MatchReports

CONSTANT MaxVersion
VARIABLES version, board, building, push, sheet, leftover
Sheet == INSTANCE PublishedSheet

CONSTANTS Priced, MaxRound
VARIABLES round, file, state, temporary, call, served
Odds == INSTANCE OddsFile

VARIABLE part

reportVars == <<match, late, listing, fixture>>
sheetVars == <<version, board, building, push, sheet, leftover>>
oddsVars == <<round, file, state, temporary, call, served>>
feedsVars == <<part, vars, reportVars, sheetVars, oddsVars>>

FeedsInit ==
    /\ part \in {"forecast", "reports", "sheet", "odds"}
    /\ Init /\ Reports!ReportsInit /\ Sheet!SheetInit /\ Odds!OddsInit
    /\ part # "reports" => match.stage = "group"   \* one start for each other part

FeedsNext ==
    \/ /\ part = "forecast" /\ Next
       /\ UNCHANGED <<part, reportVars, sheetVars, oddsVars>>
    \/ /\ part = "reports" /\ Reports!ReportsNext
       /\ UNCHANGED <<part, vars, sheetVars, oddsVars>>
    \/ /\ part = "sheet" /\ Sheet!SheetNext
       /\ UNCHANGED <<part, vars, reportVars, oddsVars>>
    \/ /\ part = "odds" /\ Odds!OddsNext
       /\ UNCHANGED <<part, vars, reportVars, sheetVars>>

FeedsSpec == FeedsInit /\ [][FeedsNext]_feedsVars

-----------------------------------------------------------------------------
(* The 90-minute result, once held, is kept until one of the two totals    *)
(* that NinetyKept names is stored over it, and no final credits the wrong *)
(* team (MatchReports!NinetyKept, MatchReports!FinalsAreTrue).             *)
ReportsAreTrue == Reports!NinetyKept /\ Reports!FinalsAreTrue

(* The tabs of a whole push stand in the order they were read, and a       *)
(* knockout final reaches them (PublishedSheet!TabsKeepOrder,              *)
(* PublishedSheet!KnockoutReachesSheet).                                   *)
SheetIsCurrent == Sheet!TabsKeepOrder /\ Sheet!KnockoutReachesSheet

(* A known price is not lost but to an unreadable file or a listing        *)
(* without bookmakers (OddsFile!PricesStay).                               *)
PricesStay == Odds!PricesStay
=============================================================================
