--------------------------- MODULE EntryHandlers ---------------------------
(***************************************************************************)
(* The entry lifecycle handlers of backend/app/services/entries.py, each   *)
(* as a pair of operators: when the handler goes through (its checks, in   *)
(* terms of what it reads) and the columns it writes.  A handler that      *)
(* raises is rolled back by its endpoint and changes nothing.              *)
(*                                                                         *)
(* SQLAlchemy writes back only the columns a handler changed, so a write   *)
(* names the row `row` it loaded: EntryLifecycle runs each handler in one  *)
(* step, EntryTransactions lets other requests commit between its reads    *)
(* and its commit.                                                         *)
(*                                                                         *)
(* An entry's predictions are one value, the phase 1 signature the twin    *)
(* check compares (match scores, bracket, bonus answers): a member of      *)
(* Complete passes _validate_phase1_complete, Partial stands for all that  *)
(* do not.  `payees` holds the users with a paid_to in their profile.      *)
(***************************************************************************)
EXTENDS Integers, FiniteSets

CONSTANTS
    Entries,          \* the entries users may come to create
    Users,            \* the players
    Nobody,           \* the owner of an entry not yet created
    Complete,         \* complete prediction sets
    Partial,          \* an incomplete prediction set
    MaxEntriesChoices,\* the values an admin gives max_entries_per_user
    AllowWithdrawal,  \* allow_user_withdrawal
    AllowDuplicate,   \* allow_duplicate_from_existing
    BlockUnpaid       \* block_unpaid_entry_submission

ASSUME EntryAssumption ==
    /\ Nobody \notin Users
    /\ Partial \notin Complete
    /\ MaxEntriesChoices \subseteq Nat \ {0}
    /\ AllowWithdrawal \in BOOLEAN
    /\ AllowDuplicate \in BOOLEAN
    /\ BlockUnpaid \in BOOLEAN

VARIABLES
    owner,      \* user_id of each entry row, Nobody while there is no row
    phase1,     \* status of the PHASE_1 row
    phase2,     \* status of the PHASE_2 row
    withdrawn,  \* withdrawn_at is set
    disabled,   \* is_disabled
    paid,       \* paid
    picks,      \* the predictions saved for the entry
    payees,     \* the users who recorded who they paid
    past,       \* the competition's phase1_deadline is in the past
    maxEntries, \* max_entries_per_user
    phase2Open  \* is_phase2_active

rows == <<owner, phase1, phase2, withdrawn, disabled, paid, picks>>
competition == <<past, maxEntries, phase2Open, payees>>
entryVars == <<owner, phase1, phase2, withdrawn, disabled, paid, picks, payees,
               past, maxEntries, phase2Open>>

-----------------------------------------------------------------------------

Status == {"draft", "submitted", "withdrawn"}
Picks == Complete \cup {Partial}

Created == {e \in Entries : owner[e] # Nobody}

EntryTypeOK ==
    /\ owner \in [Entries -> Users \cup {Nobody}]
    /\ phase1 \in [Entries -> Status]
    /\ phase2 \in [Entries -> Status]
    /\ withdrawn \in [Entries -> BOOLEAN]
    /\ disabled \in [Entries -> BOOLEAN]
    /\ paid \in [Entries -> BOOLEAN]
    /\ picks \in [Entries -> Picks]
    /\ payees \subseteq Users
    /\ past \in BOOLEAN
    /\ maxEntries \in MaxEntriesChoices
    /\ phase2Open \in BOOLEAN

EntryInit ==
    /\ owner = [e \in Entries |-> Nobody]
    /\ phase1 = [e \in Entries |-> "draft"]
    /\ phase2 = [e \in Entries |-> "draft"]
    /\ withdrawn = [e \in Entries |-> FALSE]
    /\ disabled = [e \in Entries |-> FALSE]
    /\ paid = [e \in Entries |-> FALSE]
    /\ picks = [e \in Entries |-> Partial]
    /\ payees = {}
    /\ past = FALSE
    /\ maxEntries \in MaxEntriesChoices
    /\ phase2Open = FALSE

\* What a request loads of an entry before it checks anything.
Row(e) == [phase1 |-> phase1[e], phase2 |-> phase2[e], withdrawn |-> withdrawn[e],
           disabled |-> disabled[e]]

\* _ALLOWED_TRANSITIONS: the roles that may move a phase row from one status to another.
MayMove(from, to) ==
    CASE <<from, to>> = <<"draft", "submitted">>     -> {"user", "admin"}
      [] <<from, to>> = <<"submitted", "draft">>     -> {"user", "admin"}
      [] <<from, to>> = <<"draft", "withdrawn">>     -> {"user", "admin", "system"}
      [] <<from, to>> = <<"submitted", "withdrawn">> -> {"admin"}
      [] <<from, to>> = <<"withdrawn", "submitted">> -> {"admin"}
      [] <<from, to>> = <<"withdrawn", "draft">>     -> {"user"}
      [] OTHER                                       -> {}

\* _entry_is_active.
Active(e) == e \in Created /\ ~withdrawn[e] /\ ~disabled[e]

\* _count_user_entries: not withdrawn, regardless of is_disabled.
Standing(u) == {e \in Entries : owner[e] = u /\ ~withdrawn[e]}

\* The rows the leaderboard, the duplicate check and the pool close count.
Competing(e) == Active(e) /\ phase1[e] = "submitted"

\* _find_duplicate_eligible_entry: another competing entry of the owner, same predictions.
Twins(e) == {f \in Entries \ {e} : owner[f] = owner[e] /\ Competing(f) /\ picks[f] = picks[e]}

-----------------------------------------------------------------------------
(***************************************************************************)
(* create_entry and duplicate_entry.                                       *)
(***************************************************************************)

CreateAllowed(u) == ~past /\ Cardinality(Standing(u)) < maxEntries

CreateWrites(e, u, p) ==
    /\ owner' = [owner EXCEPT ![e] = u]
    /\ phase1' = [phase1 EXCEPT ![e] = "draft"]
    /\ phase2' = [phase2 EXCEPT ![e] = "draft"]
    /\ picks' = [picks EXCEPT ![e] = p]
    /\ UNCHANGED <<withdrawn, disabled, paid, competition>>

DuplicateAllowed(src, u) ==
    /\ owner[src] = u
    /\ AllowDuplicate
    /\ ~disabled[src]
    /\ CreateAllowed(u)

-----------------------------------------------------------------------------
(***************************************************************************)
(* The user's transitions, all closed by the deadline.                     *)
(***************************************************************************)

\* submit_entry checks the entry it loaded, and then, in queries of their own, its
\* predictions and those of the owner's competing entries.
Submittable(e) ==
    /\ Active(e)
    /\ "user" \in MayMove(phase1[e], "submitted")
    /\ BlockUnpaid => paid[e]
    /\ owner[e] \in payees

MutantNoTwinCheck(e) == picks[e] \in Complete

PicksAcceptable(e) == picks[e] \in Complete /\ Twins(e) = {}

MutantNoDeadline(e) == Submittable(e)

SubmitOpen(e) == Submittable(e) /\ ~past

SubmitWrites(e, row) ==
    /\ phase1' = [phase1 EXCEPT ![e] = "submitted"]
    /\ UNCHANGED <<owner, phase2, withdrawn, disabled, paid, picks, competition>>

EditAllowed(e) ==
    /\ Active(e)
    /\ ~past
    /\ "user" \in MayMove(phase1[e], "draft")

EditWrites(e, row) ==
    /\ phase1' = [phase1 EXCEPT ![e] = "draft"]
    /\ UNCHANGED <<owner, phase2, withdrawn, disabled, paid, picks, competition>>

\* Both phase rows must be movable, or the whole request fails.
WithdrawAllowed(e) ==
    /\ Active(e)
    /\ AllowWithdrawal
    /\ ~past
    /\ "user" \in MayMove(phase1[e], "withdrawn")
    /\ "user" \in MayMove(phase2[e], "withdrawn")

WithdrawWrites(e, row) ==
    /\ withdrawn' = [withdrawn EXCEPT ![e] = TRUE]
    /\ phase1' = [phase1 EXCEPT ![e] = "withdrawn"]
    /\ phase2' = [phase2 EXCEPT ![e] = "withdrawn"]
    /\ UNCHANGED <<owner, disabled, paid, picks, competition>>

ReinstateAllowed(e) ==
    /\ e \in Created
    /\ withdrawn[e]
    /\ ~disabled[e]
    /\ ~past

\* Only the phase rows loaded as withdrawn are written.
ReinstateWrites(e, row) ==
    /\ withdrawn' = [withdrawn EXCEPT ![e] = FALSE]
    /\ phase1' = [phase1 EXCEPT ![e] = IF row.phase1 = "withdrawn" THEN "draft" ELSE @]
    /\ phase2' = [phase2 EXCEPT ![e] = IF row.phase2 = "withdrawn" THEN "draft" ELSE @]
    /\ UNCHANGED <<owner, disabled, paid, picks, competition>>

\* _validate_writeable (services/predictions.py) for a phase 1 write: a bonus answer at any
\* time, a match score or the bracket while Phase 2 is closed.
MutantNoStatusGate(e) == Active(e) /\ ~past

SaveAllowed(e) == Active(e) /\ phase1[e] = "draft" /\ ~past

\* While Phase 2 is open the same gate looks at the PHASE_2 row and at phase2_deadline,
\* which no endpoint sets.  A match score then saved (its fixture not yet locked) replaces
\* the phase 1 score of the fixture and leaves the phase 1 signature.
LateSaveAllowed(e) == Active(e) /\ phase2Open /\ phase2[e] = "draft"

LateScores(e) == IF picks[e] \in Complete THEN Complete ELSE {Partial} \cup Complete

SaveWrites(e, p) ==
    /\ picks' = [picks EXCEPT ![e] = p]
    /\ UNCHANGED <<owner, phase1, phase2, withdrawn, disabled, paid, competition>>

-----------------------------------------------------------------------------
(***************************************************************************)
(* The admin's transitions, at any time, and the scheduler's.              *)
(***************************************************************************)

AdminWithdrawAllowed(e) ==
    /\ Active(e)
    /\ "admin" \in MayMove(phase1[e], "withdrawn")

AdminWithdrawWrites(e, row) ==
    /\ withdrawn' = [withdrawn EXCEPT ![e] = TRUE]
    /\ phase1' = [phase1 EXCEPT ![e] = "withdrawn"]
    /\ UNCHANGED <<owner, phase2, disabled, paid, picks, competition>>

AdminReinstateAllowed(e) ==
    /\ e \in Created
    /\ withdrawn[e]
    /\ ~disabled[e]
    /\ "admin" \in MayMove(phase1[e], "submitted")

MutantKeepsStamp(e, row) ==
    /\ phase1' = [phase1 EXCEPT ![e] = "submitted"]
    /\ UNCHANGED <<owner, phase2, withdrawn, disabled, paid, picks, competition>>

AdminReinstateWrites(e, row) ==
    /\ withdrawn' = [withdrawn EXCEPT ![e] = FALSE]
    /\ phase1' = [phase1 EXCEPT ![e] = "submitted"]
    /\ UNCHANGED <<owner, phase2, disabled, paid, picks, competition>>

SetDisabled(e, on) ==
    /\ disabled' = [disabled EXCEPT ![e] = on]
    /\ UNCHANGED <<owner, phase1, phase2, withdrawn, paid, picks, competition>>

SetPaid(e, on) ==
    /\ paid' = [paid EXCEPT ![e] = on]
    /\ UNCHANGED <<owner, phase1, phase2, withdrawn, disabled, picks, competition>>

\* flip_drafts_past_deadline: the drafts it selects, and what it does to them.  A disabled
\* draft is flipped too.
MutantActiveDrafts == {e \in Created : past /\ Active(e) /\ phase1[e] = "draft"}

Flippable == {e \in Created : past /\ ~withdrawn[e] /\ phase1[e] = "draft"}

FlipWrites(E) ==
    /\ withdrawn' = [e \in Entries |-> withdrawn[e] \/ e \in E]
    /\ phase1' = [e \in Entries |-> IF e \in E THEN "withdrawn" ELSE phase1[e]]
    /\ UNCHANGED <<owner, phase2, disabled, paid, picks, competition>>

-----------------------------------------------------------------------------
(***************************************************************************)
(* The competition row, and the owner's profile.                           *)
(***************************************************************************)

\* The clock passes phase1_deadline, or an admin moves it into the past or the future.
SetPast(b) ==
    /\ past' = b
    /\ UNCHANGED <<rows, maxEntries, phase2Open, payees>>

\* update_entry_settings: not below any user's standing entries.
SetMaxEntries(n) ==
    /\ \A u \in Users : Cardinality(Standing(u)) <= n
    /\ maxEntries' = n
    /\ UNCHANGED <<rows, past, phase2Open, payees>>

\* admin_open_phase2 (and POST /competition/phase2/activate): every entry has had its
\* PHASE_2 row since it was created, so none is added and none is changed.
SetPhase2Open(b) ==
    /\ phase2Open' = b
    /\ UNCHANGED <<rows, past, maxEntries, payees>>

\* PATCH /auth/me records paid_to, or blanks it.
SetPayee(u, on) ==
    /\ payees' = IF on THEN payees \cup {u} ELSE payees \ {u}
    /\ UNCHANGED <<rows, past, maxEntries, phase2Open>>

-----------------------------------------------------------------------------
\* A row not yet created carries no withdrawal for its creation to inherit.
BlankUnstamped == \A e \in Entries : e \notin Created => ~withdrawn[e]
=============================================================================
