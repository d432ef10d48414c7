# PredictorV2: formal models

PredictorV2 is a prediction pool for a football tournament: players fill in
*entries* (match scores, a bracket, bonus answers), submit them before a
deadline, and follow a leaderboard while results come in. The backend is
FastAPI over SQLModel and PostgreSQL (`backend/app`): one process, one asyncio
event loop, with the scheduler of the score sync as a task in that same loop.
The frontend is SvelteKit and decides nothing the pool depends on.

This directory holds TLA+ models of the backend, the TLC configurations that
check them, and TLAPS proofs about them.

    tlc -config PredictionWrites.cfg MCPredictionWrites.tla    # check a run
    tlapm PredictionWritesProofs.tla                           # check the proofs

`PROJECT.json` lists the components, the runs, a mutation of the code for each
property, the source lines each definition models, the finding, the hazards and
the theorems.

## 1. Inventory

Concurrency in this system has one shape: coroutines on one event loop, where
code between two awaits is atomic, every database query is an await, and each
request (and each tick of the scheduler) works in a READ COMMITTED transaction
of its own. The ORM session keeps each row as first loaded and writes back only
the columns that changed. There are no version columns; `FOR UPDATE` is used
once, on the counter of entry references.

| Component | State it keeps | Operations | What makes it correct |
|---|---|---|---|
| Leaderboard cache (`leaderboard.py`) | `_cache`, `_cache_locks`, `_refresh_tasks` | serve, rebuild, background refresh, invalidate, expire | one rebuild per key; answers move forward; a fresh board is recent; every waiter returns |
| Entry lifecycle (`entries.py`) | `prediction_entries`, their phase rows | create, duplicate, submit, edit, withdraw, reinstate; the administrator's versions; the flip of drafts | stamp and status agree; official picks are frozen; the field closes; no draft outlives the deadline |
| Entry creation (`entries.py`) | entry numbers, the reference counter | count, number, lock, insert | numbers dense and in order; the lock is given up |
| Prediction writes (`predictions.py`, `locking.py`, `completeness.py`) | match, team and bonus predictions | single, batch, bracket, bonus; submission check; report; visibility | a submitted sheet is whole; a seen pick stands; a replaced one goes |
| Score sync (`score_sync.py`, `score_scheduler.py`) | `fixtures.status`, `scores` | live pass, resolution pass, commit, signals; administrator's edits | results stand; verified scores are locked; points are signalled; no match stays LIVE |
| Score providers (`external_scores.py`, `external/`) | none | normalise ESPN and Football-Data | the ninety-minute result and the winner are right |
| Fixture import (`fixture_sync.py`) | the same fixtures | import | never undoes what a report wrote |
| Standings, bracket (`standings.py`, `r32_resolver.py`, `ko_lineup_resolver.py`, `bracket_seeding.py`, `standings_verify.py`) | `standings_drift` | tables, slots, line-ups, eliminated teams, verification | a team shown is the team FIFA names; nobody out is in |
| Scoring, bonus, prizes (`scoring.py`, `bonus.py`, `group_stage_winner.py`, `tournament_champion.py`) | bonus answers | credits, points, split, prizes, suggestions | nothing paid early or forgotten; parts add up; prizes stand |
| Live projection, snapshots, audit (`live_projection.py`, `snapshots.py`, `final_audit.py`) | snapshot rows | project, insert a date's missing rows, compare | no dip and no double count at full time; the rows of a date are whole, of one ranking, and stand |
| Win probability (`win_probability.py`) | a cache of forecasts | enumerate the open bracket | the odds add up; nothing counted twice; no comeback |
| Accounts, pool close (`pool_close.py`, `users.py`) | `users` | sign-up, flags, close-out | somebody administers; nobody who counts is disabled |
| Sign-in (`api/auth.py`) | `magic_link_tokens` | ask, mail, open | a link opens one session |
| Desk, broadcasts (`api/admin.py`, `announcements.py`, `broadcast.py`) | switches, cards, audit rows | toggle, publish, send | audit rows tell the state; one story per broadcast; segments part the pool |
| Public sheet (`sheets_sync.py`, `predictions_export.py`) | a Google sheet | push | tabs keep their order; a final reaches it |
| Odds file (`odds_cache.py`) | `odds_cache.json` | refresh, merge, replace | a known price is not lost to a failure or a crash |
| Reports, analytics, e-mail templates, frontend, migrations | none of the pool's | | section 8 |

How they interact: the entry handlers, the prediction saves and the
administrator share the entry rows; a tick of the scheduler takes the snapshot,
flips drafts, syncs scores, resolves line-ups and pushes the sheet; the sync,
the import and the administrator share fixtures and scores; every commit that
moves points signals the caches after it. The snapshot, the audit, the sheet
and the pages read the board through its cache, and the pages add the live
projection. Outside are ESPN and Football-Data, which lag, flap and serve
partial data, the bookmakers' API, Google and the mail service.

What is hard: commits of others between a load and its commit; a rebuild or a
forecast in flight across an invalidation; failures that must release a lock;
reports that contradict earlier ones; names and results that arrive in any
order; tables and downloads that are behind; a deadline that passes, or is
moved, while requests are in flight; opening Phase 2, which moves the gate of
every write; a process that dies between two steps. `PROJECT.json` has each
hazard at its line.

## 2. Modules

| Module | Models |
|---|---|
| `ServedBoard` | abstract: the answers for a key move forward through the committed versions |
| `LeaderboardCache` | the cache, its locks, refresh tasks, writers and clock; implements `ServedBoard` |
| `EntryHandlers` | every entry handler as a pair: when it goes through, what it writes |
| `EntryLifecycle` | the handlers as atomic steps |
| `EntryTransactions` | the handlers as transactions: load, read the picks, commit or abort; the flip likewise |
| `EntryCreation` | `create_entry` query by query, with the row lock and the unique constraints |
| `PredictionWrites` | the rows of one entry's sheet: overlapping saves, the submission that judges them, the report that judges them again, the blind pool |
| `ScoreSync` | `sync_scores_once` query by query, the feeds, the administrator's edits, the world |
| `MatchReports` | one match goal by goal, its reports, the parsers, the ninety-minute freeze, the import |
| `Standings` | group tables with their tie-breaks, as functions |
| `Qualification` | group results to first-round slots: resolver, import, eliminated teams, verifier |
| `Knockout` | later rounds: line-ups, credits, both implementations of the points, split, prizes, suggestions |
| `LiveBoard` | the projection over the cached board; the audit beside it |
| `DailySnapshots` | the daily rows, entry by entry, whatever boards the ticks are given |
| `WinProbability` | the exact forecast and its cache |
| `Accounts`, `SignInLinks`, `PoolDesk`, `Audience` | accounts and close-out; sign-in links; switches, cards and broadcasts; the segments |
| `PublishedSheet`, `OddsFile` | the pushes of the sheet; the odds file and its crashes |
| `MC*` | instances for TLC |
| `Sums`, `SumTheorems` | sums and products over finite sets, and what holds of them |
| `*Proofs` | theorems about the module of that name; `EntryProofs` about the three entry modules, `BoardProofs` about the cache, the live board and the knockout rows, `PoolAdminProofs` about accounts, links, desk and segments, `FeedsProofs` about reports, sheet, odds file and forecast |

**Entries.** An entry is its owner, the statuses of its two phase rows, the
stamp, the flags, and one value for its predictions, since the duplicate check
compares whole prediction sets. `EntryHandlers` writes each handler once;
`EntryLifecycle` runs it in one step, `EntryTransactions` splits it at its
awaits: a session holds the row it loaded and commits the columns the handler
changes. `EntryCreation` opens up the one handler that takes a lock.

**PredictionWrites** goes below that: the rows themselves. A save remembers the
rows it found (`had`), because an UPDATE writes the columns that differ from
them and a DELETE removes only what it saw. Rows are told apart by identity, not
by content: the commit of a save takes the rows it deleted from the `had` of the
others, and what it inserted joins their `since`, rows their DELETE passes over
even when they hold the same pick; a bonus save has the answers it `adds` and
the rows it `drops`. The unique constraints reject the rest. `blind` remembers
whether the pool could see the picks when it loaded. A behaviour edits one part
of the sheet and the others are complete.

**LeaderboardCache.** A database version stands for everything a board is
computed from. A rebuild reads over several queries, so a board is a pair of the
versions its first and last query saw. `holder` is the `asyncio.Lock` of a key.

**ScoreSync** keeps a score opaque: which report it came from. Each call holds a
view per fixture: what it loaded, which columns it changed. **MatchReports** has
what is inside: goals, extra time, shootouts that providers fold into the total
or misreport; there one poll is one step. The history `ninety` of a fixture says
whether its ninety-minute result was missed, is held, or had a longer total
stored over it by one of the two writes `NinetyKept` names.

**Qualification** and **Knockout** fix at the start what happens on the pitch
and, for ties, the lots FIFA draws; the program knows neither. Their properties
compare what it shows and pays with that truth. The table the verifier is served
may be behind (`ServedTable`), on matches not counted yet or counted as they
stood, and an import of an older download may take published names back
(`Unpublish`). Knockout leaves the order of the
rows of a query open: a property about credits speaks of every order.

**LiveBoard** takes the cache as one board. Whatever is held (board, rebuild,
reader) carries *tags* for what it has missed: a result taken back, a team named
in the next round (which signals nothing), a commit whose invalidation it did
not wait for. A property excuses what the code cannot know, and nothing else.

**DailySnapshots** has the rows. A tick takes a board, asks for the date
afterwards and inserts later still, with the conflict per entry and date that
the code has; boards change in between and from tick to tick, so one date may
hold rows of several. Each row remembers whom it was ranked beside; the
properties are about what the rows of a date say together.

**WinProbability** finishes matches in two ways: the sync's, which invalidates
the cache, and the administrator's (`FinishByHand`), which does not and leaves a
tag. What the pool pays in the end (`FinalScores`) is `get_actual_advancement`
with the champion's title lost or kept by the order of the rows (`Played`).

**OddsFile**: a file that is there may read like a missing one, and a listed
fixture may quote a price or have no bookmakers. `Dropped` names what a call may
take away for these reasons.

**Accounts**, **SignInLinks** and **PoolDesk** read in one step and commit in a
later one. A request is marked *overtaken* (or *late*) when another commit, or
the clock, touches what it read; properties say that only such a request breaks
a rule. **Audience** follows one user, since a segment is a predicate on one.

Four MC modules compose components that share no state any property reads
(`MCFeeds`, `MCPoolAdmin`, `MCLiveBoard`, `MCScoreSync` with its two instances):
a variable `part` says which of them a behaviour follows, so that states add up
where a product would multiply them. Where components do share state, they are
in one module: cache, writers and scheduler; projection and audit; resolver,
import and verifier; scoring, line-ups and the board's rebuild.

## 3. Runs

| Run | Bounds | States | Shows |
|---|---|---|---|
| `LeaderboardCache` | 1 key, 2 requests and the refresh task, 1 writer, 2 commits, TTL 2, 1 failure | 187,310 | answers move forward (refinement), a fresh board is recent, waiters return, the board catches up |
| `EntryLifecycle` | 2 entries of 1 user, 2 complete sets and a partial one, limits 1 and 2 | 85,264 | stamp and status agree, twins come only from an administrator, no draft stays |
| `EntryTransactions` | 1 entry, 2 sessions and the scheduler | 244,572 | what a race may leave behind: late joiners, changed picks, torn rows; no draft stays |
| `EntryCreation` | 3 requests, 2 users, limit 2, 3 rows | 170,813 | numbers in order, nobody waits for ever |
| `PredictionWrites` | 2 sessions, 1 fixture, 4 teams in 3 rounds, 4 brackets, 1 question and 1 retired | 583,398 | a submitted sheet is whole and consistent, writes are kept, picks settle |
| `ScoreSync` | a group match with 2 syncs; a knockout tie with the scheduler's; both with edits | 502,271 | results stand, verified scores are locked, points are signalled, the tie is settled |
| `Qualification` | 3 groups of 3 teams, 4 open matches, 8 truths, 2 lots, 1 mistake, 1 revert, 1 drift event, tables behind on some matches | 72,544 | the bracket is true, who is out is out, seeds stand, seeds appear |
| `Knockout` | 8 teams, 3 rounds, 3 entries, one semi-final and the final open, 1 edit | 331,996 | rounds are true, the board adds up, totals and prizes stand |
| `LiveBoard` | 2 sides, 1 reader, 1 rebuild; 2 entries, 3 results, 2 dates; no bound on steps | 1,324,217 | board, page and audit agree; a date's rows are whole, of one ranking, and stand |
| `PoolAdmin` | 3 people, 2 requests; 2 links, 2 visits; 2 switches, 1 card, 2 desks; 8 days | 1,211,134 | only races break rules, the close-out is exact, links slip only in races, the desk tells true |
| `Feeds` | 4 teams, 3 matches, 3 entries; 1 goal a side a period; 2 versions; 2 fixtures, 3 rounds | 1,524,838 | odds add up, nothing counts twice, forecasts are current; reports are true; the sheet is current; prices stay |
| `HighestStageCredited` | as `Knockout` | | **violated**: the finding |

Why these bounds are enough. A race here is between one operation and one other,
or an operation and the scheduler: two or three actors meet every pair. Two
entries are enough for what relates entries (limit, twins, copy). One fixture is
enough for score properties, which speak of one; only the cap of fetches relates
fixtures, and no run covers it. Three rounds of the bracket have a first, a
middle and a last; three groups with two qualifying thirds have a third that
qualifies, one that does not, and an open group that decides which. The forecast
has entries that win, tie and lose in some completion. Each property has a
mutation in `PROJECT.json` that the same bounds tell from the code.
`MaxVersion`, `MaxFailures`, `MaxRows`, `MaxEdits`, `MaxMistakes`, `MaxReverts`,
`MaxGoals`, `MaxEvents`, `MaxKicks`, `MaxRound`, `MaxDay` and `LastDay` cap
counters and stand in the guards.

Deadlock is checked but for `Qualification`, `Knockout`, `HighestStageCredited`
and `PoolAdmin`: there a tournament ends, the bounded edits are spent and the
days run out, and the system may stop.

A property of a run may be a conjunction of named parts, each stated in its
module with the code it is about: `PicksAreWhole` is the inductive invariant of
PredictionWrites with `SubmittedIsComplete` and `ChainHolds`; `BracketIsTrue` is
the inductive invariant of Qualification (types, and names that are FIFA's) with
`SeedsAreTrue`, `NobodyShownTwice` and `VerifiedSeedsTrue`; `CupTieIsSettled`
also carries ScoreSync's invariant.

### What the races leave behind

Several properties hold only with an exception, and the exception is part of the
property. Identical entries come only from an administrator while requests do
not overlap; two submissions at once may also produce them. A stamp and a status
part only when a submit or an edit loaded in time lands on a withdrawn entry. A
save that read a draft may commit onto official picks; a submission it overtook
may be incomplete. Two bracket saves may leave a mix of both, two saves of one
score one side of each. Two demotions at once may leave no administrator. A
page between a commit and its invalidation may show a dip. A forecast under way
while a bonus question is answered may count it twice or not at all. A link that
was young when it was loaded still opens when it expires before the commit.

Other exceptions are no race; each is named in the comment of its property:

* a submitted sheet may be incomplete for the report where the two checks
  differ: scores saved while Phase 2 is open (`completeness.py:126` counts
  PHASE_1 rows), first-round picks, retired questions;
* a ninety-minute result is overwritten by a Football-Data total past regulation
  without regularTime, and by a bare total of a third-place match;
* a drift event may name a right group when the served table is behind;
* a forecast does not know a match the administrator finished, since
  `update_score` drops the leaderboard's cache only; and it pays the champion's
  pickers the title that the pool may take from them (the finding below);
* a stored price goes when the file is there and cannot be read, and when its
  fixture is listed again without bookmakers.

### The finding

`HighestStageCredited`: `get_actual_advancement` (`scoring.py:478`) compares
stages by a ranking without "winner", and the query has no order: a row of an
earlier round read after the final replaces the champion's credit, and those who
picked it lose the title's points. Its comment at line 418 promises the highest
stage reached. `CreditsAreDue` and `BracketPointsStay` except the champion for
that reason.

### Where words and code part

These but the last are stated as definitions in their modules, beside the line
they quote; the code does otherwise. No run checks them.

* `WithdrawnIsReinstatable` (EntryTransactions): a submission that commits after
  the flip leaves an entry nobody can bring back.
* `MaxEntriesEnforced`, `SubmittedNotEditable` (EntryLifecycle): a reinstatement
  does not count entries; opening Phase 2 moves the gate to a row still in
  draft.
* `FinishedStaysFinished`, `DeferredFinalsResolved` (ScoreSync): the demotion
  guard compares a report's status before a bare final is turned into LIVE; an
  unchanged report counts a fixture as settled.
* `SeamlessHandoff` (LiveBoard): naming a team in the next round signals
  nothing.
* `TiesShareTheLowerRank` (WinProbability): the ranks are dense.
* `StandingsTrackScores` (PublishedSheet): a group result only expires the
  board, and the push is served the old one.
* `is_phase2_bracket_locked` (`locking.py:95-114`): the Phase 2 bracket is shown
  as locked from `phase2_bracket_deadline` on, which opening Phase 2 sets; the
  writes compare with `phase2_deadline` (`predictions.py:109`), which nothing
  sets. No model has that deadline, since no write reads it.

Also met while modelling: a rebuild in flight stores its board after
`invalidate_cache`; the configured group-advance and group-position points are
never paid; `parse_summary_split` (`espn.py:144`) does not compare totals when
there is no extra-time entry; a score without extra time and level penalties
goes to the away side; the podium of the group stage moves when an entry is
disqualified; a second deletion of a card writes a second audit row, and the
account toggles write none; a tab stays blank when the call after its clearing
fails; corrections by hand never push the sheet; Pool Ghost and Lapsing, which a
test calls exclusive, overlap in the first days after kickoff; bonus answers,
manual scores and the knockout switch do not invalidate the forecasts.

## 4. Fairness

* `LeaderboardCache`: waiting for an `asyncio.Lock` is strongly fair, since it
  wakes its waiters in order. A holder's queries return or raise (weak), at most
  `MaxFailures` times. The scheduler calls every minute for ever
  (`run_scheduler_loop` catches everything), writers signal, the clock runs.
* `EntryLifecycle`, `EntryTransactions`: a request commits or is rolled back
  (weak, on the disjunction). The flip is tried every minute (weak) and does not
  fail every time (strong fairness of its commit).
* `EntryCreation`: PostgreSQL grants a row lock to its waiters in order (strong
  fairness of the lock); a request goes on or is rolled back (weak).
* `PredictionWrites`: a request ends, one way or another (weak). Nothing makes a
  player act.
* `ScoreSync` (the tie): the scheduler's sync runs every minute and not every
  call fails; time passes, matches end, finals are published. The on-demand sync
  and the administrator are never fair.
* `Qualification`: the feeds end up serving every final (weak).

The other specifications state no fairness and no liveness.

## 5. Proofs

TLAPS checks the following for every value of the constants, under the named
assumptions of each module (constants disjoint where the code's types are,
counts natural, some complete bracket exists).

* `BoardProofs`. The cache: `TypeCorrect`, `OneRebuildPerKey`,
  `FreshBoardsAreRecent`, `CacheServesForward`. Whoever is inside a rebuild
  holds its key's lock; a stored board and every answer lie behind any build
  that has begun to read; a span holds every commit older than itself. The last
  theorem is the step simulation of `ServedBoard`, and needs the order between a
  build and what was served, which the refinement alone does not say. The live
  board: `HeldCreditsAreBanked`, `CreditsHandOver`. Whoever holds a board holds
  what was banked, and, untagged and with no signal to come, what is paid now. A
  step either leaves tie, next round and gate as they are, or tells whoever has
  read; that is the whole proof. The daily rows: `DaysAreOneRanking`. A row is
  the place and the points of its entry on some board over those it was ranked
  beside; an insertion gives a row to everyone on its board, so whom a row names
  has one. Two rows that name each other come from one insertion, since the
  second would find the first in place; and on one board more points are a
  better place. The rows of the board: `TheBoardIsSound`, `TheTotalsStand`.
  Rebuild, board and announced winner each carry the set of what was committed
  since (what the newer missed, the older missed too), and hold what the tables
  say but for that: the answers, the field, the group-stage totals, and the
  credits from below, since only a correction lowers one. So the cells of the
  sheet, summed pick by pick and question by question, are the total; and who
  leads the group stage keeps leading it. The rounds: `TheRoundsAreTrue`.
  Matches are played in order (`PlayInOrder`) and a fixture holds its slots or
  its teams (`NamesAreDrawn`); the recursive line-ups of resolver and pitch have
  a solution, and by the earliest round where they would differ they do not, as
  long as no wrong result stands. Then a credit is a place or a win of the
  team's own, and, all played and named, a team that is not the champion has
  played in every round it earned, because every match before the final feeds
  another.
* `EntryProofs`. The handlers as atomic steps: `WithdrawalRecordsAgree`,
  `OfficialPicksStayFrozen`, `FieldStaysClosed`, `IdenticalEntriesAreAdminMade`.
  A row not yet created carries no stamp, else creation would break the
  agreement. For the last: two twins nobody has just brought back were twins
  before the step, because only a submission makes an entry compete and it looks
  for its twins. The handlers as transactions, for any number of sessions:
  `JoinersWereInTime`, `PicksComeFromDrafts`, `TearsAreStale`. What is in flight
  works on a row that exists; if the deadline closes its handler it loaded
  before it; a save loaded a draft. Creation: `NumbersFollowCommits`,
  `ReferencesNeverClash`. Whoever has counted holds the lock and its count is
  still right; a number read, however stale, has all smaller ones below it, so a
  stale number is a taken one.
* `PredictionWritesProofs`: `SubmissionsStand`, `SubmittedSheetsAreWhole`,
  `WritesAreKept`. A Phase 1 save in flight loaded while the pool was blind; a
  score row a save found is still there, since none is ever deleted; the rows of
  a bracket are those a save in flight found and those written since, and no row
  is both (`RowsAccounted`); a sheet checked and not overtaken still passes.
  From these, what a commit may do to a seen pick, to the rows it replaces and
  to a stored score. That a sheet which passed the check of a submission is
  complete for the report, but for what the two count differently, takes two
  inductions, done with the least number that fails: the champion is in every
  round below, and a bracket without a missing place has each round full,
  because the picks of the rounds add up to what the report expects.
* `ScoreSyncProofs`: `ResultsAreNotTakenBack`, `VerifiedScoresAreLocked`,
  `NoFinalIsFabricated`, `PointsReachTheCaches`. For every call and fixture,
  what it is about to write passed the guards on what it loaded, and what it is
  about to finish is counted.
* `PoolAdminProofs`: `ReadsHoldUntilOvertaken`, `GuardsFailOnlyInRaces`,
  `CloseOutIsExact` of the accounts; `VisitReadsHold`,
  `SlipsTakeOvertakenVisits` of the sign-in links; `DeskKeepsItsBooks` and
  `SegmentsDivide` of the desk; and `PoolIsSound`, the four promises together on
  the specification the run checks. What a request read still holds until a
  commit, or the clock, marks it as overtaken, or late; so a rule is broken only
  by a marked request.
* `SumTheorems`: a sum or a product is a fold over chosen elements; it does not
  depend on the choice. A sum splits over disjoint sets and over classes, adds
  up, is monotone, takes a common factor out, and may be taken over the pairs of
  a relation in either order. A finite set of integers has a greatest member.
* `QualificationProofs`: `EveryTeamHasAPlace`, `FifaSeedsEveryPlace`,
  `TheBracketIsTrue`, `WhoIsOutIsOut`, `TheSeedsStand`, for any groups,
  fixtures, results and lots. The recursion of head to head on subsets of a
  group has a solution (the closure of a set under the parts it is cut into), so
  its value obeys its definition. By the smallest subset that fails: where it
  reports no tie, two alphabets give one order, so FIFA's lots would give the
  same table. Each criterion splits those that differ in it and the next one
  ranks those it leaves level, so by the smallest subset that fails the whole
  chain is a strict order; the places are then a bijection, every group has one
  third, as many thirds qualify as a key of Annex C has letters, and each slot
  has one team. A served table with the final rows orders the group as FIFA
  does, so a settled group it does not contradict has FIFA's places. Two places
  hold no team in common, because the groups are apart and a row of Annex C is
  injective. So the round has as many teams as places.
* `FeedsProofs`: `PricesAreKept`, `SheetTellsTheBoard`, `ReportsStayTrue`,
  `ForecastsAreCurrent`, `ForecastsCountOnce`, `TheOddsAddUp`, and
  `FeedsAreSound` on the specification the run checks. A refresh holds what the
  file held when it began, or nothing when it could not read it, and what it
  merges takes away only what `Dropped` names; each tab of the sheet holds the
  version of the board its push was built from; a report in flight tells a state
  the match has been in. The forecast's cache: one under way knows every finish
  or is tagged with the race, or the administrator's finish (`ForecastIInv`),
  and until somebody corrects something, what it read of answers and results
  stands (`ReadingsStand`). So the completions still possible are among those it
  enumerated, and an entry that led in none of them leads in none that is left.
  That it pays each question once is then arithmetic, but for the two ways the
  code computes how far a team got; they agree since a team that lifts the cup
  is in the final, and whoever wins a match before it plays the next one; what
  the champion's row order costs is the worth of the picks above the round it
  falls to (`TitleLost`). The odds: who wins a match is the solution of a
  recursion over rounds, and by the earliest round that fails, no team is on two
  sides of a round. Finishing one more open match splits the completions in two,
  and by the smallest set of open matches, the weights of all completions add up
  to the product of the sums of each match, and those with one side given to
  that product with that side's factor. The credits of a completion are one
  whole (`Share` is divisible by any number of leaders); the double sums over
  entries and completions, teams and completions, are taken in the other order.

The assumptions on constants are evaluated in the runs. Those that say more than
types: `BracketAssumption` (a later match has two sources in the round before,
every match but the one final feeds another), `KnockoutAssumption` (a slot is no
team's name, and what is over or named at the start has its sources over, as
where matches are played in order), `SheetAssumption` (each round has half the
places of the one before), `GeometryAssumption` (a team plays in one group, a
row of Annex C is a bijection), `PlacesAssumption` (a group has three teams or
more, no two names or lots are equal, Annex C has a row for each set of
qualified groups, as the 495 of `thirdPlaceMapping.json` are), `TreeAssumption`
(one final, every other match feeds one place of the round above, the first
places hold different teams), `PoolAssumption` (somebody competes, points are
natural, what quotes a match leaves some side a chance).

The invariants the proofs rest on are checked by the runs for PredictionWrites,
ScoreSync, Qualification and LiveBoard; those of the other modules are stated
(`IInv` and the like, `KnockoutInv` in BoardProofs) and rest on the proofs.

Only model-checked: all liveness, since the prover has no fairness and no
`ENABLED`. Every invariant and every action property of a passing run has its
theorem.

## 6. What is not in a model that is there

* A rebuild's reads are one step in LiveBoard and Knockout has two; the spans of
  LeaderboardCache have first and last. The rows of one entry are loaded in one
  step although the code uses two queries.
* A write takes effect at its commit; the row locks a flush takes earlier only
  order commits, except in EntryCreation.
* MatchReports polls in one step; the concurrency of the calls is in ScoreSync.
* The Annex C table is a function over three groups; the Monte Carlo path of the
  forecast (above fifteen open matches) is left out.
* PublishedSheet has one build at a time and the Predictions cells are in
  Knockout; the Rarity tab reads like Predictions.
* `ResultsStand` excuses knockout fixtures, whose bare finals may be deferred,
  so it is the group match of its run that exercises it.
* LiveBoard's `StageReached` leaves out the order of the champion's rows, which
  Knockout has.
* One process: the deployment runs one, and the cache, its locks, the scheduler
  and the odds file rely on it.

## 7. Plan

What would come next, in this order:

1. The cap of eight resolutions a call, with a database that orders rows as it
   likes; postponed matches, once something says when they are looked at.
2. A tick of the scheduler as a whole: snapshot, flip, sync, resolve, push.
3. `simulator.py` and the Polymarket client, which stores an empty answer over
   the last good one.

## 8. Not modelled

Reports and statistics are read-only views over the state above. E-mail
templates, PostHog, exports beyond the points cells, formatting and layout
decide nothing. Passwords, JWTs, Google's protocol and the captcha are
cryptography and other people's services. Name and venue matching of the import
is one-off data. Legacy scoring modes and the legacy prediction endpoints stand
beside the code in use. The frontend copies bracket and standings for display.
Migrations, containers and scripts are operations. In PoolDesk, `paid` and the
profile of a user are left to EntryHandlers, and the audit feed only reads.
