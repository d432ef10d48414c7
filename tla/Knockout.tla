------------------------------ MODULE Knockout ------------------------------
(***************************************************************************)
(* What the knockout rounds pay and to whom: results and published names   *)
(* arrive, are mistyped and taken back; scoring.py credits every team with *)
(* the furthest round it reached, ko_lineup_resolver.py says who plays and *)
(* who is out, bonus.py settles the questions, and a rebuild of the        *)
(* leaderboard reads all of it in two parts, between which anybody may     *)
(* commit. From the board come the group-stage prize and the side prize.   *)
(*                                                                         *)
(* The fixtures of a later round hold slot names until Football-Data names *)
(* them; the first round's teams are known (module Qualification).         *)
(***************************************************************************)
EXTENDS Integers, FiniteSets, FiniteSetsExt, Sums

CONSTANTS
    Matches, Round,   \* match -> 1..Rounds
    Rounds,
    Source,           \* match -> the matches whose winners meet, <<>> in the first round
    FirstLineup,      \* first-round match -> its teams
    Slot,             \* match -> its two slot names
    TopTeams,         \* fifa_top_teams
    Over0, Named0,    \* the matches that are over, and named, when a behaviour starts
    Truths,           \* bound: the winners' sides, each a function from Matches to 1..2
    Entries,
    Picks,            \* entry -> round -> the teams it sends there, Rounds + 1 the champion
    Advance,          \* round -> points
    Questions, Category, Worth,
    Answer,           \* entry -> question -> team
    AnswerSets,       \* bound: question -> the answers an administrator may record
    Forecast,         \* entry -> score predicted for the group match
    GroupScores,      \* bound: the results of the group match, the first of which is
    GroupScore0,      \* on record when a behaviour starts
    OutcomePoints, ExactPoints, Cap,
    Surprise,         \* <<correct, predictors>> -> the rarity bonus before the cap
    MaxEdits          \* bound: corrections and administrative edits

ASSUME BracketAssumption ==
    /\ \A m \in Matches : Round[m] \in 1..Rounds
    /\ Source \in [Matches -> {<<>>} \cup (Matches \X Matches)]
    /\ \A m \in Matches : Source[m] = <<>> <=> Round[m] = 1
    /\ \A m \in Matches : Round[m] > 1 =>
          \A i \in 1..2 : Source[m][i] \in Matches /\ Round[Source[m][i]] = Round[m] - 1
    /\ \A m \in Matches : Round[m] < Rounds =>
          \E n \in Matches, i \in 1..2 : Source[n] # <<>> /\ Source[n][i] = m
    /\ Cardinality({m \in Matches : Round[m] = Rounds}) = 1

Teams == UNION {{FirstLineup[m][1], FirstLineup[m][2]} : m \in DOMAIN FirstLineup}
Nobody == "nobody"

ASSUME KnockoutAssumption ==
    /\ IsFiniteSet(Matches) /\ IsFiniteSet(Entries) /\ IsFiniteSet(Questions)
    /\ Nobody \notin Entries
    /\ Rounds \in Nat \ {0}
    /\ DOMAIN FirstLineup = {m \in Matches : Source[m] = <<>>}
    /\ \A m \in Matches, i \in 1..2 : Slot[m][i] \notin Teams
    /\ Over0 \cup Named0 \subseteq Matches
    /\ \A m \in Over0 \cup Named0 : \A i \in DOMAIN Source[m] : Source[m][i] \in Over0
    /\ Truths \subseteq [Matches -> 1..2]
    /\ Advance \in [1..(Rounds + 1) -> Nat]
    /\ Category \in [Questions -> {"group_stage", "top_flop", "awards"}]
    /\ Worth \in [Questions -> Nat]
    /\ \A q \in Questions : AnswerSets[q] \subseteq SUBSET Teams
    /\ GroupScore0 \in GroupScores
    /\ OutcomePoints \in Nat /\ ExactPoints \in Nat /\ Cap \in Nat /\ MaxEdits \in Nat
    /\ \A n \in 1..Cardinality(Entries) : \A c \in 1..n : Surprise[<<c, n>>] \in Nat

FinalMatch == CHOOSE m \in Matches : Round[m] = Rounds

VARIABLES
    truth,      \* who wins on the pitch
    finished,   \* fixtures whose status is FINISHED
    score,      \* the side the score row gives the match to, 0 without a row
    names,      \* the names in the fixtures
    gate,       \* knockout_scoring_enabled
    answers,    \* question -> the correct answers recorded
    group,      \* the result of the group match
    eligible,   \* entries submitted, not disabled, not withdrawn
    reading,    \* what the rebuild under way has read, NoRead when there is none
    posted,     \* the last board, NoBoard before the first
    stale,      \* what has been committed since the rebuild of the board began
    dirty,      \* what has been committed since the rebuild under way began
    announced,  \* the entry announced as winner of the group stage
    moved,      \* what has been committed since the board of the announcement was read
    edits       \* count of corrections and edits

tables == <<truth, finished, score, names, gate, answers, group, eligible>>
knockoutVars == <<truth, finished, score, names, gate, answers, group, eligible,
          reading, posted, stale, dirty, announced, moved, edits>>

NoRead == <<>>
NoBoard == <<>>

-----------------------------------------------------------------------------
(***************************************************************************)
(* Who plays, who is out, who reached what.                                *)
(***************************************************************************)

Recorded == {m \in finished : score[m] # 0}

\* KoLineupResolver: the winner of the source once it is FINISHED and scored, else the name
\* the fixture holds.
Lineup[m \in Matches] ==
    IF Source[m] = <<>> THEN FirstLineup[m]
    ELSE [i \in 1..2 |->
            LET s == Source[m][i]
            IN  IF s \in Recorded THEN Lineup[s][score[s]] ELSE names[m][i]]

\* get_eliminated_teams, its first path.
Eliminated == {Lineup[m][3 - score[m]] : m \in Recorded}

\* The names scoring works with: only first-round slots are resolved.
MutantRawNames(m) == names[m]

Credited(m) == IF Source[m] = <<>> THEN FirstLineup[m] ELSE names[m]

\* The best credit the rows of ms give a team: the round of a fixture it is seeded into, the
\* next one for the winner of a recorded match.
Reached(t, ms) ==
    Max({0}
        \cup {Round[m] : m \in {n \in ms : t \in {Credited(n)[1], Credited(n)[2]}}}
        \cup {Round[m] + 1 : m \in {n \in ms \cap Recorded : Credited(n)[score[n]] = t}})

\* get_actual_advancement. The query has no ORDER BY, and "winner" is missing from
\* stage_ranking: any row of the champion that comes after the final's overwrites the credit,
\* and the best of those rows is what remains. late are the rows after the final's.
Champion(t) ==
    FinalMatch \in finished /\ score[FinalMatch] # 0
        /\ Credited(FinalMatch)[score[FinalMatch]] = t

Credit(t, late) ==
    LET after == {m \in late : t \in {Credited(m)[1], Credited(m)[2]}}
    IN  IF Champion(t) /\ after # {} THEN Reached(t, after) ELSE Reached(t, Matches)

Advancement(late) == [t \in Teams |-> Credit(t, late)]

\* The orders that make a difference.
RowOrders ==
    SUBSET {m \in Matches \ {FinalMatch} : Champion(Credited(m)[1]) \/ Champion(Credited(m)[2])}

-----------------------------------------------------------------------------
(***************************************************************************)
(* The bonus questions.                                                    *)
(***************************************************************************)

\* compute_team_progress: FINISHED fixtures by the names they hold, slot names included.
Playing == UNION {{names[m][1], names[m][2]} : m \in finished}

Progress ==
    [t \in Playing |->
        IF FinalMatch \in Recorded /\ names[FinalMatch][score[FinalMatch]] = t THEN Rounds + 1
        ELSE Max({Round[m] : m \in {n \in finished : t \in {names[n][1], names[n][2]}}})]

\* compute_dark_horse and compute_bottlers, the suggestions an administrator sees.
Furthest(p, S) == {t \in S : \A u \in S : p[u] <= p[t]}

DarkHorse == LET p == Progress IN Furthest(p, DOMAIN p \ TopTeams)

\* A top team without a finished fixture stands at the group stage; the winner is excused.
Bottlers ==
    LET p == Progress
        at(t) == IF t \in DOMAIN p THEN p[t] ELSE 0
        blamed == {t \in TopTeams \cap Teams : at(t) # Rounds + 1}
    IN  {t \in blamed : \A u \in blamed : at(t) <= at(u)}

\* calculate_bonus_points and _load_bonus_splits: two queries, one matcher.
Right(e, ans) == {q \in Questions : Answer[e][q] \in ans[q]}
Bonus(e, ans) == SumOver(Worth, Right(e, ans))

\* Group-stage questions count for the group column, everything else for the other one.
GroupBonus(e, ans) == SumOver(Worth, {q \in Right(e, ans) : Category[q] = "group_stage"})
KnockoutBonus(e, ans) == SumOver(Worth, {q \in Right(e, ans) : Category[q] # "group_stage"})

-----------------------------------------------------------------------------
(***************************************************************************)
(* The points of an entry and the board.                                   *)
(***************************************************************************)

Outcome(s) == IF s[1] > s[2] THEN "1" ELSE IF s[1] < s[2] THEN "2" ELSE "X"

\* get_all_outcome_counts: <<right, all>> of the eligible entries.
Counts(crowd, result) ==
    <<Cardinality({e \in crowd : Outcome(Forecast[e]) = Outcome(result)}), Cardinality(crowd)>>

Rarity(counts) ==
    IF counts[1] = 0 THEN 0
    ELSE IF Surprise[counts] > Cap THEN Cap ELSE Surprise[counts]

\* compute_match_points, as _add_match_points_to_phase files it.
MatchLine(e, result, counts) ==
    LET hit == Outcome(Forecast[e]) = Outcome(result)
        exact == Forecast[e] = result
    IN  [outcome |-> IF hit THEN OutcomePoints ELSE 0,
         rarity |-> IF hit THEN Rarity(counts) ELSE 0,
         exact |-> IF exact THEN ExactPoints ELSE 0]

\* calculate_advancement_points of the picks of one entry, and the gate.
Picked(e) == {p \in (1..(Rounds + 1)) \X Teams : p[2] \in Picks[e][p[1]]}

BracketPoints(e, credit, open) ==
    IF ~open THEN 0
    ELSE SumOver([p \in Picked(e) |-> Advance[p[1]]],
                 {p \in Picked(e) : credit[p[2]] >= p[1]})

\* One row, from what the first part of the rebuild read and what the second finds. The
\* outcome that counts predictors is the score's of the second part.
Row(e, r) ==
    [match |-> MatchLine(e, group, r.counts[Outcome(group)]),
     bracket |-> BracketPoints(e, r.credit, r.gate),
     bonus |-> Bonus(e, answers),
     bonusGroup |-> GroupBonus(e, r.answers),
     bonusKnockout |-> KnockoutBonus(e, r.answers),
     alive |-> Picks[e][Rounds + 1] \cap r.out = {}]

Total(row) == row.match.outcome + row.match.rarity + row.match.exact + row.bracket + row.bonus

\* The Pts cells of an entry in the exported matrix (build_combined_picks_points_rows), which
\* computes every cell from the tables and does not look at the gate: a match, a pick of team
\* t for round r, an answer.
MatchCell(e) ==
    LET line == MatchLine(e, group, Counts(eligible, group))
    IN  line.outcome + line.rarity + line.exact

MutantExactRound(r, t, credit) == IF credit[t] = r THEN Advance[r] ELSE 0

PickCell(r, t, credit) == IF credit[t] >= r THEN Advance[r] ELSE 0

AnswerCell(e, q) == IF Answer[e][q] \in answers[q] THEN Worth[q] ELSE 0

SheetTotal(e, credit) ==
    MatchCell(e)
    + SumOver([p \in Picked(e) |-> PickCell(p[1], p[2], credit)], Picked(e))
    + SumOver([q \in Questions |-> AnswerCell(e, q)], Questions)

\* Sorting and sharing of places, total first, exact scores next.
Ahead(a, b) ==
    \/ Total(a) > Total(b)
    \/ Total(a) = Total(b) /\ a.match.exact > b.match.exact

Position(e, rows) == 1 + Cardinality({f \in DOMAIN rows : Ahead(rows[f], rows[e])})

\* group_stage_total and the head of get_group_stage_podium.
MutantWholeTotal(row) == Total(row)

GroupTotal(row) == row.match.outcome + row.match.rarity + row.match.exact + row.bonusGroup

PodiumHeads(rows) ==
    {e \in DOMAIN rows : \A f \in DOMAIN rows :
        \/ GroupTotal(rows[f]) < GroupTotal(rows[e])
        \/ GroupTotal(rows[f]) = GroupTotal(rows[e])
           /\ rows[f].match.exact <= rows[e].match.exact}

\* pick_trionda_recipient: down from the champion's rank to the first with an eligible
\* entry; those level there are separated by their group-stage total, or drawn for.
SidePrize(rows) ==
    LET barred == {e \in DOMAIN rows :
                      \A f \in DOMAIN rows : GroupTotal(rows[f]) <= GroupTotal(rows[e])}
        open == {e \in DOMAIN rows \ barred : Position(e, rows) > 1}
        first == {e \in open : \A f \in open : Position(e, rows) <= Position(f, rows)}
    IN  {e \in first : \A f \in first : GroupTotal(rows[f]) <= GroupTotal(rows[e])}

-----------------------------------------------------------------------------

LineupIn == [t \in Truths |->
    LET line[m \in Matches] ==
            IF Source[m] = <<>> THEN FirstLineup[m]
            ELSE [i \in 1..2 |-> line[Source[m][i]][t[Source[m][i]]]]
    IN  line]

TrueLineup(m) == LineupIn[truth][m]

\* Mid-way through the knockout rounds; the gate was opened when they began.
KnockoutInit ==
    /\ truth \in Truths
    /\ finished = Over0
    /\ score = [m \in Matches |-> IF m \in Over0 THEN truth[m] ELSE 0]
    /\ names = [m \in Matches |-> IF m \in Named0 THEN TrueLineup(m) ELSE Slot[m]]
    /\ gate = TRUE
    /\ answers = [q \in Questions |-> {}]
    /\ group = GroupScore0
    /\ eligible = Entries
    /\ reading = NoRead
    /\ posted = NoBoard
    /\ stale = {}
    /\ dirty = {}
    /\ announced = Nobody
    /\ moved = {}
    /\ edits = 0

\* Every commit is noted for the boards that do not hold it yet.
Note(what) ==
    /\ stale' = IF posted = NoBoard THEN {} ELSE stale \cup {what}
    /\ dirty' = IF reading = NoRead THEN {} ELSE dirty \cup {what}
    /\ moved' = IF announced = Nobody THEN {} ELSE moved \cup {what}
    /\ UNCHANGED <<truth, reading, posted, announced>>

Edited == edits < MaxEdits /\ edits' = edits + 1

\* On the pitch a match follows its sources.
Played(m) == \A i \in DOMAIN Source[m] : score[Source[m][i]] # 0

Final(m) ==
    /\ Played(m)
    /\ m \notin finished \/ score[m] # truth[m]
    /\ finished' = finished \cup {m}
    /\ score' = [score EXCEPT ![m] = truth[m]]
    /\ Note(IF score[m] \in {0, truth[m]} THEN "result" ELSE "correction")
    /\ UNCHANGED <<names, gate, answers, group, eligible, edits>>

\* update_score with the wrong side; the next Final corrects it.
Mistype(m) ==
    /\ Played(m) /\ m \notin Over0
    /\ Edited
    /\ finished' = finished \cup {m}
    /\ score' = [score EXCEPT ![m] = 3 - truth[m]]
    /\ Note("correction")
    /\ UNCHANGED <<names, gate, answers, group, eligible>>

Unfinish(m) ==
    /\ m \in finished \ Over0
    /\ Edited
    /\ finished' = finished \ {m}
    /\ Note("correction")
    /\ UNCHANGED <<score, names, gate, answers, group, eligible>>

\* A sync writes the names Football-Data serves over the slots.
PublishNames(m) ==
    /\ Played(m)
    /\ names[m] # TrueLineup(m)
    /\ names' = [names EXCEPT ![m] = TrueLineup(m)]
    /\ Note("names")
    /\ UNCHANGED <<finished, score, gate, answers, group, eligible, edits>>

SetGate(open) ==
    /\ gate # open
    /\ Edited
    /\ gate' = open
    /\ Note("gate")
    /\ UNCHANGED <<finished, score, names, answers, group, eligible>>

\* set_bonus_answer replaces the whole list.
SetAnswers(q, list) ==
    /\ answers[q] # list
    /\ Edited
    /\ answers' = [answers EXCEPT ![q] = list]
    /\ Note(Category[q])
    /\ UNCHANGED <<finished, score, names, gate, group, eligible>>

CorrectGroup(s) ==
    /\ group # s
    /\ Edited
    /\ group' = s
    /\ Note("group")
    /\ UNCHANGED <<finished, score, names, gate, answers, eligible>>

\* admin_disable_entry and admin_enable_entry.
SetEligible(e) ==
    /\ Edited
    /\ eligible' = IF e \in eligible THEN eligible \ {e} ELSE eligible \cup {e}
    /\ Note("eligible")
    /\ UNCHANGED <<finished, score, names, gate, answers, group>>

\* The first part of _rebuild_leaderboard: what is read once for all entries.
StartRebuild ==
    /\ reading = NoRead
    /\ \E late \in RowOrders :
          reading' = [eligible |-> eligible,
                      counts |-> [o \in {"1", "X", "2"} |->
                          <<Cardinality({e \in eligible : Outcome(Forecast[e]) = o}),
                            Cardinality(eligible)>>],
                      credit |-> Advancement(late),
                      gate |-> gate,
                      out |-> Eliminated,
                      answers |-> answers]
    /\ dirty' = {}
    /\ UNCHANGED <<tables, posted, stale, announced, moved, edits>>

\* The second: the entries one by one, the ranking, the new board.
FinishRebuild ==
    /\ reading # NoRead
    /\ posted' = [e \in reading.eligible |-> Row(e, reading)]
    /\ reading' = NoRead
    /\ stale' = dirty
    /\ dirty' = {}
    /\ UNCHANGED <<tables, announced, moved, edits>>

\* The group-stage winner is announced from the board of the day.
Announce ==
    /\ announced = Nobody
    /\ posted # NoBoard
    /\ announced' \in PodiumHeads(posted)
    /\ moved' = stale
    /\ UNCHANGED <<tables, reading, posted, stale, dirty, edits>>

KnockoutNext ==
    \/ \E m \in Matches : Final(m)
    \/ \E m \in Matches : Mistype(m)
    \/ \E m \in Matches : Unfinish(m)
    \/ \E m \in Matches : PublishNames(m)
    \/ \E open \in BOOLEAN : SetGate(open)
    \/ \E q \in Questions : \E list \in AnswerSets[q] : SetAnswers(q, list)
    \/ \E s \in GroupScores : CorrectGroup(s)
    \/ \E e \in Entries : SetEligible(e)
    \/ StartRebuild
    \/ FinishRebuild
    \/ Announce

KnockoutSpec == KnockoutInit /\ [][KnockoutNext]_knockoutVars

-----------------------------------------------------------------------------
(***************************************************************************)
(* Properties.                                                             *)
(***************************************************************************)

KnockoutTypeOK ==
    /\ truth \in Truths
    /\ finished \subseteq Matches
    /\ score \in [Matches -> 0..2]
    /\ gate \in BOOLEAN
    /\ answers \in [Questions -> SUBSET Teams]
    /\ group \in GroupScores
    /\ eligible \subseteq Entries
    /\ posted # NoBoard =>
          \A e \in DOMAIN posted : e \in Entries /\ posted[e].match.rarity \in 0..Cap
    /\ announced \in Entries \cup {Nobody}
    /\ edits \in 0..MaxEdits

Clean == \A m \in Recorded : score[m] = truth[m]
Over == {m \in Matches : score[m] # 0}
Won == {<<TrueLineup(m)[truth[m]], Round[m]>> : m \in Over}
TrulyReached(t, won) == Max({1} \cup {w[2] + 1 : w \in {w \in won : w[1] = t}})

\* Nothing is paid early: while the results on record are right, no team is credited with
\* more than it has reached, whoever writes which names when.  And nothing is forgotten: with
\* every match recorded and the later rounds named, every team but the champion is credited
\* with what it reached.  Both in whatever order the rows come (scoring.py 412-474).
Settled ==
    finished = Matches /\ \A m \in Matches : Source[m] # <<>> => names[m] # Slot[m]

CreditsAreDue ==
    Clean =>
        LET settled == Settled
            orders == RowOrders
            won == Won
        IN  \A t \in Teams :
                LET due == TrulyReached(t, won)
                IN  \A late \in orders :
                        LET credit == Credit(t, late)
                        IN  credit <= due /\ (settled /\ ~Champion(t) => credit = due)

\* "highest stage reached" (scoring.py:417), for the champion too.
HighestStageCredited ==
    \A late \in RowOrders, t \in Teams : Advancement(late)[t] = Reached(t, Matches)

\* Only losers are reported out, and all of them are, though fixtures still hold slots,
\* unless a match before theirs has lost its status.
LosersAreOut ==
    Clean =>
        LET losers == {TrueLineup(m)[3 - truth[m]] : m \in Recorded}
        IN  /\ Eliminated \cap Teams \subseteq losers
            /\ Over \subseteq finished => Eliminated = losers

\* What bonus.py suggests when the tournament is over and named is what happened.
SuggestionsSettle ==
    Clean /\ finished = Matches /\ (\A m \in Matches : names[m] # Slot[m]) =>
        LET reached == [t \in Teams |-> TrulyReached(t, Won)]
            outsiders == Teams \ TopTeams
        IN  /\ DarkHorse = {t \in outsiders : \A u \in outsiders : reached[u] <= reached[t]}
            /\ \A t \in Bottlers, u \in TopTeams \cap Teams : reached[t] <= reached[u]

\* "the split always sums to breakdown.bonus_question_points" (leaderboard.py:289) unless an
\* answer has been recorded since the rebuild began.
SplitAddsUp ==
    posted # NoBoard =>
        \A e \in DOMAIN posted :
            \/ posted[e].bonusGroup + posted[e].bonusKnockout = posted[e].bonus
            \/ stale \cap {Category[q] : q \in Questions} # {}

\* The cells of an entry in the public sheet add up to its total on a board that nothing has
\* overtaken: "the points scoring currently pays for that pick" (predictions_export.py:323),
\* while the gate is open and the two queries return their rows in the same order.
SheetAddsUp ==
    posted # NoBoard /\ stale = {} /\ gate =>
        \A e \in DOMAIN posted :
            \E late \in RowOrders : SheetTotal(e, Advancement(late)) = Total(posted[e])

\* Two implementations of one sum, twice (leaderboard.py 289, predictions_export.py 316-640).
BoardAddsUp == SplitAddsUp /\ SheetAddsUp

\* A knockout match never moves the group-stage prize: a total changes from one board to the
\* next only for a group result, a group answer or a change of the entries that compete.
GroupTotalsStand ==
    [][posted # NoBoard /\ posted' # posted =>
        \A e \in DOMAIN posted \cap DOMAIN posted' :
            GroupTotal(posted[e]) = GroupTotal(posted'[e])
            \/ stale \cap {"group", "group_stage", "eligible"} # {}]_knockoutVars

\* Bracket points, once on the board, are taken back only after a correction or the gate,
\* or when the order of the rows costs the champion its credit, also for earlier rounds.
BracketPointsStay ==
    [][posted # NoBoard /\ posted' # posted =>
        \A e \in DOMAIN posted \cap DOMAIN posted' :
            \/ posted[e].bracket <= posted'[e].bracket
            \/ stale \cap {"correction", "gate"} # {}
            \/ \E r \in 1..(Rounds + 1) : \E t \in Picks[e][r] : Champion(t)]_knockoutVars

\* Nobody collects both: the winner announced for the group stage does not get the side
\* prize, unless something the group totals rest on has changed since.
NoDoublePrize ==
    posted # NoBoard /\ announced \in SidePrize(posted) =>
        moved \cap {"group", "group_stage", "eligible"} # {}

\* The runs' properties: what the rounds say of the teams, what a board says of the entries,
\* and what one board may say that the next takes back.
RoundsAreTrue == CreditsAreDue /\ LosersAreOut /\ SuggestionsSettle
BoardIsSound == KnockoutTypeOK /\ BoardAddsUp /\ NoDoublePrize
TotalsStand == GroupTotalsStand /\ BracketPointsStay
=============================================================================
