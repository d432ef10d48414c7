-------------------------- MODULE PredictionWrites --------------------------
(***************************************************************************)
(* The predictions of one entry, row by row: the writes of                 *)
(* services/predictions.py behind api/entry_predictions.py, the submission *)
(* that judges them (_validate_phase1_complete), the report that judges    *)
(* them again (services/completeness.py) and the gates that show them to   *)
(* the pool (check_entry_visibility, the community view).                  *)
(*                                                                         *)
(* The owner may have several requests in flight.  Each is a READ          *)
(* COMMITTED transaction that loads the entry, checks it, reads the rows   *)
(* it is about to replace and commits later; an UPDATE writes the columns  *)
(* whose value differs from what was loaded, and a DELETE takes the rows   *)
(* it found, not others with the same content that a save inserted since.  *)
(* The entry stays active, paid for and unlike any other:                  *)
(* EntryTransactions has the rest of its life.                             *)
(*                                                                         *)
(* A behaviour edits one part of the sheet, chosen at its start; the other *)
(* parts are complete.  A round of the bracket has half the places of the  *)
(* one before it, and the last has one (the code's Rounds is 5).           *)
(***************************************************************************)
EXTENDS Integers, FiniteSets

CONSTANTS
    Fixtures,   \* the group stage
    Goals,      \* bound: the goals a side is given
    Scores,     \* bound: the scores a request may send
    Teams,
    Rounds,     \* rounds of the bracket after the first
    Places,     \* the places of each round: 32, 16, 8, 4, 2 and 1 (_BRACKET_EXPECTED)
    Brackets,   \* bound: the brackets a request may send
    Questions,  \* the bonus questions of the YAML
    Retired,    \* question ids of older rows, no longer in the YAML
    Sessions,   \* concurrent requests of the owner
    Parts,      \* bound: the parts of the sheet edited
    Phase2Parts \* bound: those edited while Phase 2 is open

ASSUME SheetAssumption ==
    /\ IsFiniteSet(Fixtures) /\ IsFiniteSet(Questions) /\ IsFiniteSet(Retired)
    /\ Goals \subseteq Nat /\ 0 \in Goals
    /\ Scores \subseteq [home : Goals, away : Goals]
    /\ IsFiniteSet(Teams)
    /\ Rounds \in Nat \ {0}
    /\ Places \in [0..Rounds -> Nat] /\ Places[Rounds] = 1
    /\ \A r \in 1..Rounds : Places[r - 1] = 2 * Places[r]
    /\ Brackets \subseteq [0..Rounds -> SUBSET Teams]
    /\ \E b \in Brackets : \A r \in 0..Rounds : Cardinality(b[r]) = Places[r]
    /\ Questions \cap Retired = {}
    /\ Parts \subseteq {"scores", "bracket", "bonus"}
    /\ Phase2Parts \subseteq Parts

VARIABLES
    part,      \* the part of the sheet this behaviour edits
    status,    \* the PHASE_1 row: draft or submitted
    matches,   \* match_predictions of the entry, NoPick where there is no row
    bracket,   \* team_predictions: phase -> round -> teams
    bonus,     \* bonus_predictions: the questions with an answer
    past,      \* the phase1_deadline is in the past
    phase2,    \* is_phase2_active
    locked,    \* fixtures within five minutes of kickoff, or past it
    finished,  \* fixtures whose status is FINISHED
    raced,     \* history: the rows changed after the check of the standing submission
    req        \* the requests in flight

sheet == <<matches, bracket, bonus>>
clocks == <<past, phase2, locked, finished>>
vars == <<part, status, matches, bracket, bonus, past, phase2, locked, finished, raced, req>>

-----------------------------------------------------------------------------

NoPick == [home |-> -1, away |-> -1, phase |-> 0]
MatchRow == [home : Goals, away : Goals, phase : {1, 2}]
Bracket == [0..Rounds -> SUBSET Teams]
NoBracket == [r \in 0..Rounds |-> {}]

\* Union of two sets of bracket rows, and what one has beyond the other.
Both(b, c) == [r \in 0..Rounds |-> b[r] \cup c[r]]
Beyond(b, c) == [r \in 0..Rounds |-> b[r] \ c[r]]

Idle == [op |-> "idle"]

\* A save keeps the rows it found (`had`) and whether the pool could not see them (`blind`).
\* Of a bracket, `had` is what is left of those rows, and `since` (history) the rows other
\* saves wrote after its DELETE; a bonus save has the answers it adds and the rows it drops.
ScoreSave == [op : {"score", "batch"}, phase : {1, 2}, want : Scores, fixture : Fixtures,
              had : MatchRow \cup {NoPick}, blind : BOOLEAN]
BracketSave == [op : {"bracket"}, phase : {1, 2}, want : Brackets, had : Bracket,
                since : Bracket, blind : BOOLEAN]
BonusSave == [op : {"bonus"}, phase : {1}, adds : SUBSET Questions,
              drops : SUBSET Questions, blind : BOOLEAN]
\* `overtaken`: a save committed after the submission's check.
Move == [op : {"submit", "publish", "edit"}, overtaken : BOOLEAN]
Overtaken == [op |-> "publish", overtaken |-> TRUE]

TypeOK ==
    /\ part \in Parts
    /\ status \in {"draft", "submitted"}
    /\ matches \in [Fixtures -> MatchRow \cup {NoPick}]
    /\ bracket \in [{1, 2} -> Bracket]
    /\ bonus \subseteq Questions \cup Retired
    /\ past \in BOOLEAN
    /\ phase2 \in BOOLEAN
    /\ locked \subseteq Fixtures
    /\ finished \subseteq Fixtures
    /\ raced \in BOOLEAN
    /\ req \in [Sessions -> ScoreSave \cup BracketSave \cup BonusSave \cup Move \cup {Idle}]

-----------------------------------------------------------------------------
(***************************************************************************)
(* What judges a sheet.                                                    *)
(***************************************************************************)

Picked == {f \in Fixtures : matches[f] # NoPick}

\* _validate_phase1_complete: the group fixtures in either phase, the places of every
\* round but the first, the chain of winners, and as many bonus rows as there are questions.
MutantNoGroups ==
    /\ \A r \in 1..Rounds : Cardinality(bracket[1][r]) >= Places[r]
    /\ \A r \in 2..Rounds : bracket[1][r] \subseteq bracket[1][r - 1]
    /\ Cardinality(bonus) >= Cardinality(Questions)

ValidatePhase1Complete ==
    /\ Picked = Fixtures
    /\ \A r \in 1..Rounds : Cardinality(bracket[1][r]) >= Places[r]
    /\ \A r \in 2..Rounds : bracket[1][r] \subseteq bracket[1][r - 1]
    /\ Cardinality(bonus) >= Cardinality(Questions)

\* check_all_eligible_entries: PHASE_1 rows only, all rounds, and current questions only;
\* the bracket by the number of its rows.
MissingMatches == {f \in Fixtures : matches[f].phase # 1}
MissingBonus == Questions \ bonus

\* expected_bracket_count sums the table, 63 in the code: a round has twice the places of
\* the next, so all of them have twice the first's but for the last's.
Expected == 2 * Places[0] - Places[Rounds]
Rows(b) == {row \in (0..Rounds) \X Teams : row[2] \in b[row[1]]}
MissingBracket == Expected - Cardinality(Rows(bracket[1]))

IsComplete == MissingMatches = {} /\ MissingBracket <= 0 /\ MissingBonus = {}

\* The pick of fixture f is shown to the rest of the pool: the entry's pages after the
\* deadline (check_entry_visibility), or the fixture's community view, which lists
\* submitted entries once the fixture is locked or finished.
CommunityOpen(f) == past \/ f \in locked \cup finished
Shown(f) == matches[f] # NoPick /\ (past \/ (CommunityOpen(f) /\ status = "submitted"))

-----------------------------------------------------------------------------
(***************************************************************************)
(* Loading: the checks of a request, and the rows it finds.                *)
(***************************************************************************)

\* get_current_phase.
CurrentPhase == IF phase2 THEN 2 ELSE 1

\* _validate_writeable: nothing sets phase2_deadline or moves a PHASE_2 row from draft.
MutantNoDeadline(p) == p = 1 => status = "draft"

Writeable(p) == p = 1 => status = "draft" /\ ~past

\* check_fixture_locked: the single save is refused, the batch skips the fixture.
FixtureLocked(f) == f \in locked

Loads(s, r) ==
    /\ req[s] = Idle
    /\ req' = [req EXCEPT ![s] = r]
    /\ UNCHANGED <<part, status, sheet, clocks, raced>>

LoadScore(s, op, f, want) ==
    /\ part = "scores"
    /\ ~FixtureLocked(f)
    /\ Writeable(CurrentPhase)
    /\ Loads(s, [op |-> op, phase |-> CurrentPhase, want |-> want, fixture |-> f,
                 had |-> matches[f], blind |-> ~(past \/ f \in locked)])

\* The DELETE is part of the load: it sees the rows committed by then.  Where two of them
\* meet, one waits for the other's end and passes over the rows it finds gone.
LoadBracket(s, want) ==
    /\ part = "bracket"
    /\ Writeable(CurrentPhase)
    /\ Loads(s, [op |-> "bracket", phase |-> CurrentPhase, want |-> want,
                 had |-> bracket[CurrentPhase], since |-> NoBracket, blind |-> ~past])

\* Unknown ids are skipped; an empty answer clears the question.  The update of an answer
\* changes no row here; that of a row deleted meanwhile fails (Fail).
LoadBonus(s, answers, clears) ==
    /\ part = "bonus"
    /\ Writeable(1)
    /\ Loads(s, [op |-> "bonus", phase |-> 1, adds |-> (answers \cap Questions) \ bonus,
                 drops |-> clears \cap Questions \cap bonus, blind |-> ~past])

LoadSubmit(s) ==
    /\ status = "draft"
    /\ ~past
    /\ Loads(s, [op |-> "submit", overtaken |-> FALSE])

LoadEdit(s) ==
    /\ status = "submitted"
    /\ ~past
    /\ Loads(s, [op |-> "edit", overtaken |-> FALSE])

-----------------------------------------------------------------------------
(***************************************************************************)
(* Committing.                                                             *)
(***************************************************************************)

\* The columns of an UPDATE: those that differ from what was loaded.
Updated(now, had, new) == [c \in DOMAIN new |-> IF new[c] # had[c] THEN new[c] ELSE now[c]]

\* uq_match_pred_entry_fixture: somebody inserted the row meanwhile.
ScoreClash(r) == r.had = NoPick /\ matches[r.fixture] # NoPick

\* The batch leaves a row with the same score alone, phase included.
ScoreAfter(r) ==
    LET new == [home |-> r.want.home, away |-> r.want.away, phase |-> r.phase]
    IN  IF r.had = NoPick THEN new
        ELSE IF r.op = "batch" /\ r.had.home = new.home /\ r.had.away = new.away
             THEN matches[r.fixture]
             ELSE Updated(matches[r.fixture], r.had, new)

\* What the DELETE leaves, and uq_team_pred_entry_phase_team_stage against it.
MutantRoundsSent(r) ==
    Beyond(bracket[r.phase], [i \in 0..Rounds |-> IF r.want[i] = {} THEN {} ELSE r.had[i]])

BracketLeft(r) == Beyond(bracket[r.phase], r.had)
BracketClash(r) == \E i \in 0..Rounds : BracketLeft(r)[i] \cap r.want[i] # {}

\* uq_bonus_pred_entry_q.
BonusClash(r) == r.adds \cap bonus # {}
BonusAfter(r) == (bonus \cup r.adds) \ r.drops

Saves(r) ==
    \/ /\ r.op \in {"score", "batch"} /\ ~ScoreClash(r)
       /\ matches' = [matches EXCEPT ![r.fixture] = ScoreAfter(r)]
       /\ UNCHANGED <<bracket, bonus>>
    \/ /\ r.op = "bracket" /\ ~BracketClash(r)
       /\ bracket' = [bracket EXCEPT ![r.phase] = Both(BracketLeft(r), r.want)]
       /\ UNCHANGED <<matches, bonus>>
    \/ /\ r.op = "bonus" /\ ~BonusClash(r)
       /\ bonus' = BonusAfter(r)
       /\ UNCHANGED <<matches, bracket>>

\* What the commit of save r leaves of request q: whoever has checked the sheet and not yet
\* submitted it did not see this save, and the rows r deleted are no longer q's to delete.
Meanwhile(q, r) ==
    IF q.op = "publish" THEN Overtaken
    ELSE IF q.op = "bracket" /\ r.op = "bracket" /\ q.phase = r.phase
    THEN [q EXCEPT !.had = Beyond(q.had, r.had),
                   !.since = Both(Beyond(q.since, r.had), r.want)]
    ELSE IF q.op = "bonus" /\ r.op = "bonus" THEN [q EXCEPT !.drops = q.drops \ r.drops]
    ELSE q

CommitSave(s) ==
    /\ Saves(req[s])
    /\ raced' = (raced \/ status = "submitted")
    /\ req' = [q \in Sessions |-> IF q = s THEN Idle ELSE Meanwhile(req[q], req[s])]
    /\ UNCHANGED <<part, status, clocks>>

CheckSubmit(s) ==
    /\ req[s].op = "submit"
    /\ req' = [req EXCEPT ![s] = IF ValidatePhase1Complete THEN [@ EXCEPT !.op = "publish"]
                                 ELSE Idle]
    /\ UNCHANGED <<part, status, sheet, clocks, raced>>

CommitSubmit(s) ==
    /\ req[s].op = "publish"
    /\ status' = "submitted"
    /\ raced' = req[s].overtaken
    /\ req' = [req EXCEPT ![s] = Idle]
    /\ UNCHANGED <<part, sheet, clocks>>

CommitEdit(s) ==
    /\ req[s].op = "edit"
    /\ status' = "draft"
    /\ raced' = FALSE
    /\ req' = [req EXCEPT ![s] = Idle]
    /\ UNCHANGED <<part, sheet, clocks>>

\* A unique constraint or the connection fails: the endpoint rolls back.
Fail(s) ==
    /\ req[s] # Idle
    /\ req' = [req EXCEPT ![s] = Idle]
    /\ UNCHANGED <<part, status, sheet, clocks, raced>>

-----------------------------------------------------------------------------
(***************************************************************************)
(* The clock and the admin.                                                *)
(***************************************************************************)

\* The deadline comes, or an admin sets it elsewhere.
MoveDeadline ==
    /\ past' = ~past
    /\ UNCHANGED <<part, status, sheet, phase2, locked, finished, raced, req>>

\* Five minutes before kickoff, or the kickoff is moved.
MoveKickoff(f) ==
    /\ part = "scores"
    /\ f \notin finished
    /\ locked' = IF f \in locked THEN locked \ {f} ELSE locked \cup {f}
    /\ UNCHANGED <<part, status, sheet, past, phase2, finished, raced, req>>

\* The admin records a final before its kickoff, which no write looks at; after it the
\* status adds nothing to the lock.
Finish(f) ==
    /\ part = "scores"
    /\ f \notin locked
    /\ finished' = finished \cup {f}
    /\ UNCHANGED <<part, status, sheet, past, phase2, locked, raced, req>>

\* activate_phase2 and deactivate_phase2.
SwitchPhase2 ==
    /\ part \in Phase2Parts
    /\ phase2' = ~phase2
    /\ UNCHANGED <<part, status, sheet, past, locked, finished, raced, req>>

-----------------------------------------------------------------------------

FullBracket == CHOOSE b \in Brackets : \A r \in 0..Rounds : Cardinality(b[r]) = Places[r]

Init ==
    /\ part \in Parts
    /\ status = "draft"
    /\ matches \in [Fixtures -> {NoPick, [home |-> 0, away |-> 0, phase |-> 1]}]
    /\ part # "scores" => Picked = Fixtures
    /\ bracket = [p \in {1, 2} |-> IF part # "bracket" /\ p = 1 THEN FullBracket ELSE NoBracket]
    /\ IF part = "bonus" THEN bonus \in SUBSET Retired ELSE bonus = Questions
    /\ past = FALSE
    /\ phase2 = FALSE
    /\ locked = {}
    /\ finished = {}
    /\ raced = FALSE
    /\ req = [s \in Sessions |-> Idle]

Next ==
    \/ \E s \in Sessions, op \in {"score", "batch"}, f \in Fixtures, want \in Scores :
          LoadScore(s, op, f, want)
    \/ \E s \in Sessions, want \in Brackets : LoadBracket(s, want)
    \/ \E s \in Sessions, answers, clears \in SUBSET (Questions \cup Retired) :
          answers \cap clears = {} /\ LoadBonus(s, answers, clears)
    \/ \E s \in Sessions : LoadSubmit(s)
    \/ \E s \in Sessions : LoadEdit(s)
    \/ \E s \in Sessions : CheckSubmit(s)
    \/ \E s \in Sessions : CommitSave(s)
    \/ \E s \in Sessions : CommitSubmit(s)
    \/ \E s \in Sessions : CommitEdit(s)
    \/ \E s \in Sessions : Fail(s)
    \/ MoveDeadline
    \/ \E f \in Fixtures : MoveKickoff(f)
    \/ \E f \in Fixtures : Finish(f)
    \/ SwitchPhase2

Spec == Init /\ [][Next]_vars

\* A request ends: it commits, is refused or is rolled back.
Ends(s) == CheckSubmit(s) \/ CommitSave(s) \/ CommitSubmit(s) \/ CommitEdit(s) \/ Fail(s)

FairSpec == Spec /\ \A s \in Sessions : WF_vars(Ends(s))

-----------------------------------------------------------------------------
(***************************************************************************)
(* The inductive invariant, in parts.                                      *)
(***************************************************************************)

\* A save of Phase 1 loaded before the pool could see what it is about to change.
InFlightBlind ==
    \A s \in Sessions :
        req[s].op \in {"score", "batch", "bracket", "bonus"} /\ req[s].phase = 1 => req[s].blind

\* Scores are never deleted: a row that a save found is still there.
RowsStay ==
    \A s \in Sessions :
        req[s].op \in {"score", "batch"} /\ req[s].had # NoPick =>
            matches[req[s].fixture] # NoPick

\* Every row of the phase is one a bracket save found or one written since, and not both.
RowsAccounted ==
    \A s \in Sessions : req[s].op = "bracket" =>
        \A r \in 0..Rounds :
            /\ bracket[req[s].phase][r] = req[s].had[r] \cup req[s].since[r]
            /\ req[s].had[r] \cap req[s].since[r] = {}

\* A sheet checked and not overtaken still passes.
CheckedStands ==
    \A s \in Sessions : req[s].op = "publish" /\ ~req[s].overtaken => ValidatePhase1Complete

SubmittedStands == status = "submitted" /\ ~raced => ValidatePhase1Complete

IInv ==
    TypeOK /\ InFlightBlind /\ RowsStay /\ RowsAccounted /\ CheckedStands /\ SubmittedStands

-----------------------------------------------------------------------------
(***************************************************************************)
(* Properties.                                                             *)
(***************************************************************************)

\* "All SUBMITTED + eligible entries MUST have every required pick" (completeness.py:3): the
\* submission's own check and the report judge differently, and agree on every entry whose
\* rows no save touched after the check, but for three things: the report misses a score
\* saved while Phase 2 was open, which the check takes in either phase (entries.py:977); the
\* check does not ask for first-round picks; and it counts an answer to a retired question.
SubmittedIsComplete ==
    status = "submitted" /\ ~raced =>
        /\ MissingMatches = {f \in Fixtures : matches[f].phase = 2}
        /\ Cardinality(bracket[1][0]) >= Places[0] => MissingBracket <= 0
        /\ bonus \cap Retired = {} => MissingBonus = {}

\* The champion of a submitted entry is one of its finalists, and so on down the rounds,
\* whatever its brackets were before, unless a save landed on it after the check.
ChainHolds ==
    status = "submitted" /\ ~raced =>
        \A r \in 2..Rounds : \A t \in bracket[1][r] : \A q \in 1..r : t \in bracket[1][q]

\* The blind pool: a pick the others can see is changed only by a request that loaded while
\* it was hidden, or one of Phase 2.
SeenPickStands ==
    \A f \in Fixtures : Shown(f) /\ matches'[f] # matches[f] =>
        \E s \in Sessions :
            /\ req[s].op \in {"score", "batch"} /\ req'[s] = Idle
            /\ req[s].fixture = f
            /\ req[s].blind \/ req[s].phase = 2

\* Replacing is replacing: a save leaves the bracket it sent and nothing else but the rows
\* other saves wrote after its DELETE, every one of which it leaves; two overlapping saves
\* mix their brackets, and neither brings back or keeps a row of an older one.
StalePickGoes ==
    \A s \in Sessions :
        req[s].op = "bracket" /\ req'[s] = Idle /\ bracket' # bracket =>
            bracket'[req[s].phase] = Both(req[s].want, req[s].since)

\* A stored score is one that was sent, goal for goal, unless another request changed the row
\* between this one's read and its commit: the two UPDATEs may then leave a score neither sent.
ScoreIsSent ==
    \A f \in Fixtures : matches'[f] # matches[f] =>
        \E s \in Sessions :
            /\ req[s].op \in {"score", "batch"} /\ req[s].fixture = f /\ req'[s] = Idle
            /\ \/ /\ matches'[f].home = req[s].want.home
                  /\ matches'[f].away = req[s].want.away
               \/ matches[f] # req[s].had

\* Once the deadline has passed for good and Phase 2 stays closed, what is still in flight
\* comes to an end and the predictions no longer change.
PicksSettle == <>[](past /\ ~phase2) => <>[][UNCHANGED sheet]_vars

\* The runs' properties.  A submission that nothing overtook is complete and consistent, and
\* the gates let nothing through that loaded late (PredictionWrites has one type invariant).
PicksAreWhole == IInv /\ SubmittedIsComplete /\ ChainHolds

\* What is seen stands, what is replaced goes, and what is stored was sent.
WritesStand == [][SeenPickStands /\ StalePickGoes /\ ScoreIsSent]_vars
=============================================================================
