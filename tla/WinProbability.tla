--------------------------- MODULE WinProbability ---------------------------
(***************************************************************************)
(* The win-probability forecast (backend/app/services/win_probability.py): *)
(* every completion of the open knockout bracket is scored for the whole   *)
(* pool, once with even chances and once with the market's, and the result *)
(* is kept in a cache like the leaderboard's.  Its inputs are read by four *)
(* groups of queries, each at its own moment: the bracket, the pool with   *)
(* its banked points, the open bonus questions, the prices.                *)
(*                                                                         *)
(* Chances are integers.  A match weighs <<h, a>> for its two sides, a     *)
(* completion weighs the product over its open matches, and the total of   *)
(* all completions is the product of h + a.                                *)
(***************************************************************************)
EXTENDS Integers, FiniteSets, FiniteSetsExt, Sums

CONSTANTS
    Matches,       \* match numbers: a match feeds only later ones
    Round,         \* [Matches -> 1..LastRound], the stage of each match
    Feeders,       \* [Matches -> <<>> or the pair of matches that feed it]
    FirstPair,     \* the teams of each match without feeders, once seeded
    Teams, TopTeams,
    Entries,
    Picks,         \* [Entries -> set of <<team, stage>>], stage LastRound + 1: winner
    Worth,         \* advancement points of each stage
    Fixed,         \* [Entries -> points no knockout match moves]
    Questions,     \* the bonus questions the bracket decides: dark_horse, flop
    Bonus,         \* [Entries -> [Questions -> Teams]], the entries' answers
    BonusWorth,    \* [Questions -> Nat]
    AnswerSets,    \* [Questions -> answers the administrator may record], {}: none
    Quotes,        \* what the markets may say of a match
    MaxEdits       \* bound: results taken back and answers recorded

LastRound == Max({Round[m] : m \in Matches})
Champion == LastRound + 1
Final == CHOOSE m \in Matches : Round[m] = LastRound

(* No answer may be recorded for a question, and an answer names teams.    *)
ASSUME AnswerAssumption ==
    /\ \A q \in Questions : {} \in AnswerSets[q] /\ AnswerSets[q] \subseteq SUBSET Teams
    /\ MaxEdits \in Nat

(* The bracket is a tree with one final: what is not a first match has two *)
(* feeders in the round before, every other match feeds one place, and the *)
(* places of the first matches hold different teams.                       *)
ASSUME TreeAssumption ==
    /\ IsFiniteSet(Matches) /\ Round \in [Matches -> Nat \ {0}]
    /\ Cardinality({m \in Matches : Round[m] = LastRound}) = 1
    /\ Feeders \in [Matches -> {<<>>} \cup (Matches \X Matches)]
    /\ \A m \in Matches : Feeders[m] = <<>> <=> Round[m] = 1
    /\ \A m \in Matches : Feeders[m] # <<>> =>
          \A s \in 1..2 : Round[Feeders[m][s]] = Round[m] - 1
    /\ \A m \in Matches : Round[m] < LastRound =>
          \E n \in Matches : Feeders[n] # <<>> /\ \E s \in 1..2 : Feeders[n][s] = m
    /\ \A m, n \in Matches : Feeders[m] # <<>> /\ Feeders[n] # <<>> =>
          \A s, t \in 1..2 : Feeders[m][s] = Feeders[n][t] => m = n /\ s = t
    /\ \A m \in Matches : Feeders[m] = <<>> => FirstPair[m] \in Teams \X Teams
    /\ \A m, n \in Matches : Feeders[m] = <<>> /\ Feeders[n] = <<>> =>
          \A s, t \in 1..2 : FirstPair[m][s] = FirstPair[n][t] => m = n /\ s = t

(* Somebody competes, for picks of teams and stages worth points; and what *)
(* quotes a match has a chance for one side.                               *)
ASSUME PoolAssumption ==
    /\ IsFiniteSet(Teams) /\ IsFiniteSet(Entries) /\ Entries # {} /\ IsFiniteSet(Questions)
    /\ \A e \in Entries : IsFiniteSet(Picks[e]) /\ Picks[e] \subseteq Teams \X (1..Champion)
    /\ \A n \in 1..Champion : Worth[n] \in Nat
    /\ \A e \in Entries : Fixed[e] \in Nat
    /\ \A q \in Questions : BonusWorth[q] \in Nat
    /\ \A quote \in Quotes :
          /\ quote.reach = <<>> \/ quote.reach \in Nat \X Nat
          /\ quote.odds # <<>> =>
                quote.odds \in Nat \X Nat /\ quote.odds[1] + quote.odds[2] > 0

VARIABLES
    seeded,        \* the first knockout round has its teams
    results,       \* each match: 0 not finished, or the side that won
    answers,       \* bonus_answers: the recorded answers of each question
    edits,
    signal,        \* a knockout finish whose invalidation is still to come
    cache,         \* the forecast in _cache
    build          \* the forecast being computed

vars == <<seeded, results, answers, edits, signal, cache, build>>

-----------------------------------------------------------------------------
Outcomes == {[m \in Matches |-> o[m]] : o \in [Matches -> 1..2]}

(* resolve_ref: a side is a team by name or the winner of an earlier match. *)
WinnersOf(o) ==
    LET w[m \in Matches] == IF Feeders[m] = <<>> THEN FirstPair[m][o[m]]
                                                 ELSE w[Feeders[m][o[m]]]
    IN w
Winners == [o \in Outcomes |-> WinnersOf(o)]
Side(o, m, s) == IF Feeders[m] = <<>> THEN FirstPair[m][s] ELSE Winners[o][Feeders[m][s]]
Pairing(o, m) == {Side(o, m, 1), Side(o, m, 2)}

(* resolve_known_state: a result counts once the matches that feed it do.  *)
Known(r) ==
    LET known[m \in Matches] == r[m] # 0 /\ (Feeders[m] # <<>> =>
                                    known[Feeders[m][1]] /\ known[Feeders[m][2]])
    IN {m \in Matches : known[m]}

(* enumerate_scenarios, and the open matches with two teams to price.      *)
Completions(r) == LET known == Known(r) IN {o \in Outcomes : \A m \in known : o[m] = r[m]}
Open(r) == Matches \ Known(r)
Resolvable(r) == {m \in Open(r) : Feeders[m] # <<>> =>
                                    {Feeders[m][1], Feeders[m][2]} \subseteq Known(r)}

(* build_advancement: the furthest stage each team is seeded into or wins. *)
Advancement == [o \in Outcomes |-> [t \in Teams |->
    Max({0} \cup {Round[m] : m \in {m \in Matches : t \in Pairing(o, m)}}
            \cup {Round[m] + 1 : m \in {m \in Matches : Winners[o][m] = t}})]]

-----------------------------------------------------------------------------
(* compute_dark_horse and compute_bottlers, on any record of progress.     *)
Settle(q, progress) ==
    LET field == IF q = "dark_horse" THEN Teams \ TopTeams
                                     ELSE {t \in TopTeams : progress[t] # Champion}
        best  == IF q = "dark_horse" THEN Max({progress[t] : t \in field})
                                     ELSE Min({progress[t] : t \in field})
    IN IF field = {} THEN {} ELSE {t \in field : progress[t] = best}

Hits(e, q, correct) == IF Bonus[e][q] \in correct THEN BonusWorth[q] ELSE 0

(* entry_ko_points: a pick pays if its team got that far.                  *)
KoPoints(e, advancement) ==
    SumOver([p \in Picks[e] |-> Worth[p[2]]], {p \in Picks[e] : advancement[p[1]] >= p[2]})

(* load_pool_predictions: the whole total but the knockout points in it.   *)
BankedBonus(e, paid) == SumOver([q \in Questions |-> Hits(e, q, paid[q])], Questions)
BasePoints(e, in) == Fixed[e] + BankedBonus(e, in.paid)

(* simulate_bonus_points: only the questions nobody has answered yet.      *)
MutantEveryQuestion(in) == Questions
Unsettled(in) == in.open
BonusPoints(e, in, o) ==
    SumOver([q \in Questions |-> Hits(e, q, Settle(q, Advancement[o]))], Unsettled(in))

(* What one reading may hold: the results, the recorded answers that are   *)
(* in the banked points, and the questions open when they were looked up.  *)
Readings ==
    {[results |-> r, paid |-> p, open |-> q] :
        r \in [Matches -> 0..2],
        p \in {a \in [Questions -> UNION {AnswerSets[q] : q \in Questions}] :
                   \A q \in Questions : a[q] \in AnswerSets[q]},
        q \in SUBSET Questions}
Read(b) == [results |-> b.results, paid |-> b.paid, open |-> b.open]

Scores ==
    [in \in Readings |-> [o \in Outcomes |-> [e \in Entries |->
        BasePoints(e, in) + KoPoints(e, Advancement[o]) + BonusPoints(e, in, o)]]]

(* simulate_pool: the entries on top share the win, the ranks are dense.   *)
Top(score) == {e \in Entries : \A f \in Entries : score[f] <= score[e]}
Rank(score, e) == 1 + Cardinality({score[f] : f \in {f \in Entries : score[f] > score[e]}})

-----------------------------------------------------------------------------
(* compute_match_win_probabilities.  Polymarket's two prices first, if     *)
(* both are there and not both zero; else the bookmakers' odds, whose draw *)
(* is shared out in proportion; else even chances.                         *)
Price(quote) ==
    IF quote.reach # <<>> /\ quote.reach[1] + quote.reach[2] > 0 THEN quote.reach
    ELSE IF quote.odds # <<>> THEN quote.odds
    ELSE <<1, 1>>

(* Only a match with two teams has a market; the others weigh <<1, 1>>.    *)
Prices(r, quoted) ==
    [m \in Matches |-> IF m \in Resolvable(r) THEN Price(quoted[m]) ELSE <<1, 1>>]

Weight(r, price, o) == ProductOver([m \in Matches |-> price[m][o[m]]], Open(r))
Total(r, price) == ProductOver([m \in Matches |-> price[m][1] + price[m][2]], Open(r))

(* A win is split in equal shares: Share parts make a whole one.           *)
Share == LET parts == 1..Cardinality(Entries) IN ProductOver([n \in parts |-> n], parts)
MutantWholeWin(tied) == Share
WinShare(tied) == Share \div Cardinality(tied)

(* simulate_pool: the win credit of an entry over a set of completions.    *)
Wins(in, price, e, S) ==
    SumOver([o \in S |-> Weight(in.results, price, o) * WinShare(Top(Scores[in][o]))],
            {o \in S : e \in Top(Scores[in][o])})
Mass(in, price, S) == SumOver([o \in S |-> Weight(in.results, price, o)], S)

(* _cumulative_from_exact: the chance of a team to reach at least a stage. *)
StageOdds(in, price, t, n) ==
    Mass(in, price, {o \in Completions(in.results) : Advancement[o][t] >= n})

(* build_entry_conditionals, before its divisions: the wins in the worlds  *)
(* of one champion, and on either side of a match.                         *)
TitleWorld(in, price, e, t) ==
    Wins(in, price, e, {o \in Completions(in.results) : Winners[o][Final] = t})
IfWon(in, price, e, m, s) ==
    Wins(in, price, e, {o \in Completions(in.results) : o[m] = s})

(* An entry without a win in any completion.                               *)
Dead(in) == {e \in Entries : \A o \in Completions(in.results) : e \notin Top(Scores[in][o])}

-----------------------------------------------------------------------------
None == [m \in Matches |-> 0]
Unanswered == [q \in Questions |-> {}]
NoBuild == [stage |-> "none", results |-> None, paid |-> Unanswered, open |-> {}, tags |-> {}]
NoCache == [there |-> FALSE, stale |-> FALSE, dead |-> {}, results |-> None, tags |-> {}]

(* What a forecast has missed since its queries: a result taken back, an   *)
(* answer recorded, a finish by the administrator, one whose invalidation  *)
(* it did not wait for.                                                    *)
Tags == {"undone", "answered", "byhand", "race"}
Finishes == {"byhand", "race"}

Init ==
    /\ seeded = FALSE /\ results = None /\ answers = Unanswered /\ edits = 0
    /\ signal = FALSE /\ cache = NoCache /\ build = NoBuild

Reading == build.stage \in {"bracket", "pool", "ready"}
Tagged(x, tag, applies) == IF applies THEN [x EXCEPT !.tags = @ \cup {tag}] ELSE x
Tell(tag) ==
    /\ cache' = Tagged(cache, tag, cache.there)
    /\ build' = Tagged(build, tag, Reading)

SeedRound ==
    /\ ~seeded /\ seeded' = TRUE
    /\ UNCHANGED <<results, answers, edits, signal, cache, build>>

Playable(m) ==
    /\ seeded /\ results[m] = 0
    /\ Feeders[m] # <<>> => results[Feeders[m][1]] # 0 /\ results[Feeders[m][2]] # 0

(* score_sync finishes a knockout match and then invalidates.              *)
FinishMatch(m, side) ==
    /\ Playable(m)
    /\ results' = [results EXCEPT ![m] = side]
    /\ signal' = TRUE
    /\ UNCHANGED <<seeded, answers, edits, cache, build>>

(* update_score finishes it too, and drops the leaderboard's cache alone.  *)
FinishByHand(m, side) ==
    /\ Playable(m)
    /\ results' = [results EXCEPT ![m] = side]
    /\ Tell("byhand")
    /\ UNCHANGED <<seeded, answers, edits, signal>>

(* update_fixture_status and update_score leave this cache alone.          *)
TakeBack(m) ==
    /\ results[m] # 0 /\ edits < MaxEdits /\ edits' = edits + 1
    /\ results' \in {[results EXCEPT ![m] = 0], [results EXCEPT ![m] = 3 - @]}
    /\ Tell("undone")
    /\ UNCHANGED <<seeded, answers, signal>>

(* set_bonus_answer drops the leaderboard's cache and not this one.        *)
Answer(q, correct) ==
    /\ correct # answers[q] /\ edits < MaxEdits /\ edits' = edits + 1
    /\ answers' = [answers EXCEPT ![q] = correct]
    /\ Tell("answered")
    /\ UNCHANGED <<seeded, results, signal>>

MutantExpires ==
    /\ signal /\ signal' = FALSE
    /\ cache' = [cache EXCEPT !.stale = cache.there]
    /\ build' = Tagged(build, "race", Reading)
    /\ UNCHANGED <<seeded, results, answers, edits>>
(* invalidate_win_probability_cache; a build in flight stores later.       *)
Invalidate ==
    /\ signal /\ signal' = FALSE
    /\ cache' = NoCache
    /\ build' = Tagged(build, "race", Reading)
    /\ UNCHANGED <<seeded, results, answers, edits>>

(* Thirty seconds, or expire_win_probability_cache after a group result.   *)
Expire ==
    /\ cache.there /\ ~cache.stale
    /\ cache' = [cache EXCEPT !.stale = TRUE]
    /\ UNCHANGED <<seeded, results, answers, edits, signal, build>>

-----------------------------------------------------------------------------
(* get_win_probability: a cold cache builds, a stale one is served and     *)
(* rebuilt, one build at a time.                                           *)
Start ==
    /\ build.stage = "none" /\ (~cache.there \/ cache.stale)
    /\ build' = [NoBuild EXCEPT !.stage = "started"]
    /\ UNCHANGED <<seeded, results, answers, edits, signal, cache>>

ReadBracket ==
    /\ build.stage = "started"
    /\ build' = [build EXCEPT !.stage = "bracket", !.results = results,
                              !.tags = IF signal THEN {"race"} ELSE {}]
    /\ UNCHANGED <<seeded, results, answers, edits, signal, cache>>

ReadPool ==
    /\ build.stage = "bracket"
    /\ build' = [build EXCEPT !.stage = "pool", !.paid = answers]
    /\ UNCHANGED <<seeded, results, answers, edits, signal, cache>>

(* load_bonus_simulation_config: open are those without an answer by now.  *)
ReadOpen ==
    /\ build.stage = "pool"
    /\ build' = [build EXCEPT !.stage = "ready", !.open = {q \in Questions : answers[q] = {}}]
    /\ UNCHANGED <<seeded, results, answers, edits, signal, cache>>

(* Without its first round the bracket has no teams to send on, and the    *)
(* simulation raises; so may any query.                                    *)
Store ==
    /\ build.stage = "ready" /\ seeded
    /\ cache' = [there |-> TRUE, stale |-> FALSE, dead |-> Dead(Read(build)),
                 results |-> build.results, tags |-> build.tags]
    /\ build' = NoBuild
    /\ UNCHANGED <<seeded, results, answers, edits, signal>>

Fail ==
    /\ build.stage # "none" /\ build' = NoBuild
    /\ UNCHANGED <<seeded, results, answers, edits, signal, cache>>

Next ==
    \/ SeedRound
    \/ \E m \in Matches : TakeBack(m)
    \/ \E m \in Matches : \E side \in 1..2 : FinishMatch(m, side) \/ FinishByHand(m, side)
    \/ \E q \in Questions : \E correct \in AnswerSets[q] : Answer(q, correct)
    \/ Invalidate \/ Expire
    \/ Start \/ ReadBracket \/ ReadPool \/ ReadOpen \/ Store \/ Fail

Spec == Init /\ [][Next]_vars

-----------------------------------------------------------------------------
TypeOK ==
    /\ seeded \in BOOLEAN /\ signal \in BOOLEAN /\ edits \in 0..MaxEdits
    /\ results \in [Matches -> 0..2]
    /\ \A q \in Questions : answers[q] \in AnswerSets[q]
    /\ cache \in [there : BOOLEAN, stale : BOOLEAN, dead : SUBSET Entries,
                  results : [Matches -> 0..2], tags : SUBSET Tags]
    /\ build \in [stage : {"none", "started", "bracket", "pool", "ready"},
                  results : [Matches -> 0..2], paid : [Questions -> SUBSET Teams],
                  open : SUBSET Questions, tags : SUBSET Tags]

(* The odds of a forecast add up, whatever the markets say: the chances to *)
(* win are one whole, split in full over the champions and over the sides  *)
(* of every match that can be priced; each such match is won as often as   *)
(* its price says; one team lifts the cup and two reach the final.         *)
AddsUp(in, price) ==
    LET all == Completions(in.results)
        whole == Total(in.results, price)
        win == [e \in Entries |-> Wins(in, price, e, all)]
    IN /\ whole > 0
       /\ SumOver(win, Entries) = whole * Share
       /\ \A e \in Entries :
             /\ win[e] = SumOver([t \in Teams |-> TitleWorld(in, price, e, t)], Teams)
             /\ \A m \in Resolvable(in.results) :
                   win[e] = IfWon(in, price, e, m, 1) + IfWon(in, price, e, m, 2)
       /\ \A m \in Resolvable(in.results), s \in 1..2 :
             Mass(in, price, {o \in all : o[m] = s}) * (price[m][1] + price[m][2])
                 = whole * price[m][s]
       /\ \A n \in 1..Champion :
             SumOver([t \in Teams |-> StageOdds(in, price, t, n)], Teams)
                 = whole * (IF n = Champion THEN 1
                            ELSE 2 * Cardinality({m \in Matches : Round[m] = n}))
AddsUpAlways ==
    [in \in Readings |->
        \A quoted \in [Resolvable(in.results) -> Quotes] : AddsUp(in, Prices(in.results, quoted))]
OddsAddUp == TypeOK /\ (build.stage = "ready" => AddsUpAlways[Read(build)])

(* compute_team_progress, once all is played: the rounds a team is in, and *)
(* the title of the final's winner.                                        *)
Furthest(o, t) == Max({0} \cup {Round[m] : m \in {m \in Matches : t \in Pairing(o, m)}})
Progress(o) ==
    [t \in Teams |-> IF Winners[o][Final] = t THEN Champion ELSE Furthest(o, t)]

(* get_actual_advancement, once all is played.  "winner" has no rank in    *)
(* its stage_ranking, so the champion keeps the title only if the final's  *)
(* row is the last of his that the query returns: `after` is the highest   *)
(* round of those behind it, 0 if none.                                    *)
Played(o, after) ==
    [t \in Teams |-> IF Winners[o][Final] = t THEN (IF after = 0 THEN Champion ELSE after + 1)
                                              ELSE Furthest(o, t)]

(* The points of the champion's picks that go with the title.              *)
TitleLost(e, o, after) ==
    IF after = 0 THEN 0
    ELSE SumOver([p \in Picks[e] |-> Worth[p[2]]],
                 {p \in Picks[e] : p[1] = Winners[o][Final] /\ p[2] > after + 1})

(* What the pool pays in the end: the advancement, and every bonus         *)
(* question once, by the recorded answer or by the one the administrator   *)
(* is suggested.                                                           *)
FinalScores ==
    [o \in Outcomes |-> [after \in 0..(LastRound - 1) |->
        [paid \in {in.paid : in \in Readings} |-> [e \in Entries |->
            Fixed[e]
            + KoPoints(e, Played(o, after))
            + SumOver([q \in Questions |->
                  Hits(e, q, IF paid[q] # {} THEN paid[q] ELSE Settle(q, Progress(o)))],
                  Questions)]]]]

(* A completion is worth what the pool would pay if it came true, every    *)
(* bonus question once, and more by exactly the points that the pool takes *)
(* away with the champion's title: build_advancement (142-171) claims "the *)
(* shape and semantics of" get_actual_advancement, which loses the title   *)
(* in some orders of its rows (scoring.py:422-428, 444-448, 478-481).  The *)
(* other exception: an answer recorded while the forecast was read         *)
(* (win_probability.py 332-343, 938-942).                                  *)
CountedOnce ==
    build.stage = "ready" /\ "answered" \notin build.tags =>
        \A o \in Completions(build.results), after \in 0..(LastRound - 1), e \in Entries :
            Scores[Read(build)][o][e] = FinalScores[o][after][build.paid][e]
                                        + TitleLost(e, o, after)

(* An entry the forecast leaves no way to win has none, however many       *)
(* matches are finished later, with a signal or by hand, until a result is *)
(* taken back or an answer recorded; as long as the pool leaves the        *)
(* champion his title.                                                     *)
NoComeback ==
    cache.there /\ cache.tags \subseteq Finishes =>
        \A o \in Outcomes : (\A m \in Matches : results[m] # 0 => o[m] = results[m]) =>
            cache.dead \cap Top(FinalScores[o][0][answers]) = {}

(* No forecast holds a finished match for open, but one that was read in   *)
(* the moment between a sync's commit and its invalidation or was in       *)
(* flight across it (score_sync.py 180-192), and one that was read before  *)
(* the administrator finished the match: update_score never drops this     *)
(* cache (api/scores.py:157-181).                                          *)
FinishIsKnown ==
    cache.there /\ cache.tags = {} /\ ~signal => cache.results = results

(* "ties share the lower rank number, e.g. 1-1-3" (simulate_pool).         *)
TiesShareTheLowerRank ==
    build.stage = "ready" =>
        \A o \in Completions(build.results) :
            LET score == Scores[Read(build)][o]
            IN \A e \in Entries :
                  Rank(score, e) = 1 + Cardinality({f \in Entries : score[f] > score[e]})

(* A forecast served knows every finish that was signalled, and an entry   *)
(* it leaves no chance never leads again (win_probability.py 1139-1250),   *)
(* with the exceptions NoComeback and FinishIsKnown name.                  *)
ForecastIsCurrent == NoComeback /\ FinishIsKnown

(* The inductive invariant of FinishIsKnown: so does the forecast being    *)
(* computed, from its first queries on.                                    *)
ForecastIInv ==
    /\ TypeOK
    /\ answers \in [Questions -> SUBSET Teams]
    /\ FinishIsKnown
    /\ Reading /\ build.tags = {} /\ ~signal => build.results = results

(* And that of CountedOnce and NoComeback: until the administrator steps   *)
(* in, the answers and the results a forecast has read stand.              *)
ReadingsStand ==
    /\ \A q \in Questions : build.paid[q] \in AnswerSets[q]
    /\ build.stage \in {"pool", "ready"} /\ "answered" \notin build.tags =>
          build.paid = answers
    /\ build.stage = "ready" /\ "answered" \notin build.tags =>
          build.open = {q \in Questions : answers[q] = {}}
    /\ Reading /\ build.tags \subseteq Finishes =>
          \A m \in Matches : build.results[m] # 0 => results[m] = build.results[m]
    /\ NoComeback
=============================================================================
