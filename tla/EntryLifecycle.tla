--------------------------- MODULE EntryLifecycle ---------------------------
(***************************************************************************)
(* The entry lifecycle with every handler run from its first read to its   *)
(* commit in one step: what one request at a time does to the entries.     *)
(***************************************************************************)
EXTENDS EntryHandlers

-----------------------------------------------------------------------------

CreateEntry(e, u) ==
    /\ e \notin Created
    /\ CreateAllowed(u)
    /\ CreateWrites(e, u, Partial)

Duplicate(e, src, u) ==
    /\ e \notin Created
    /\ src \in Created
    /\ DuplicateAllowed(src, u)
    /\ CreateWrites(e, u, picks[src])

Submit(e) == SubmitOpen(e) /\ PicksAcceptable(e) /\ SubmitWrites(e, Row(e))

Edit(e) == EditAllowed(e) /\ EditWrites(e, Row(e))

Withdraw(e) == WithdrawAllowed(e) /\ WithdrawWrites(e, Row(e))

Reinstate(e) == ReinstateAllowed(e) /\ ReinstateWrites(e, Row(e))

SavePicks(e, p) == SaveAllowed(e) /\ SaveWrites(e, p)

SaveLateScores(e, p) == LateSaveAllowed(e) /\ p \in LateScores(e) /\ SaveWrites(e, p)

AdminWithdraw(e) == AdminWithdrawAllowed(e) /\ AdminWithdrawWrites(e, Row(e))

AdminReinstate(e) == AdminReinstateAllowed(e) /\ AdminReinstateWrites(e, Row(e))

Disable(e) == e \in Created /\ ~disabled[e] /\ SetDisabled(e, TRUE)

Enable(e) == e \in Created /\ disabled[e] /\ SetDisabled(e, FALSE)

MarkPaid(e, on) == e \in Created /\ paid[e] # on /\ SetPaid(e, on)

FlipDrafts == Flippable # {} /\ FlipWrites(Flippable)

DeadlinePasses == ~past /\ SetPast(TRUE)

DeadlineMoved == past /\ SetPast(FALSE)

ChangeMaxEntries(n) == n # maxEntries /\ SetMaxEntries(n)

NamePayee(u, on) == on # (u \in payees) /\ SetPayee(u, on)

OpenPhase2 == ~phase2Open /\ SetPhase2Open(TRUE)

ClosePhase2 == phase2Open /\ SetPhase2Open(FALSE)

AdminStep ==
    \/ \E e \in Entries : AdminWithdraw(e) \/ AdminReinstate(e) \/ Disable(e) \/ Enable(e)
    \/ \E e \in Entries, on \in BOOLEAN : MarkPaid(e, on)
    \/ \E n \in MaxEntriesChoices : ChangeMaxEntries(n)
    \/ OpenPhase2
    \/ ClosePhase2

UserStep ==
    \/ \E e \in Entries, u \in Users : CreateEntry(e, u)
    \/ \E e, src \in Entries, u \in Users : Duplicate(e, src, u)
    \/ \E e \in Entries : Submit(e) \/ Edit(e) \/ Withdraw(e) \/ Reinstate(e)
    \/ \E e \in Entries, p \in Picks : SavePicks(e, p) \/ SaveLateScores(e, p)
    \/ \E u \in Users, on \in BOOLEAN : NamePayee(u, on)

LifecycleNext == UserStep \/ AdminStep \/ FlipDrafts \/ DeadlinePasses \/ DeadlineMoved

LifecycleSpec == EntryInit /\ [][LifecycleNext]_entryVars

\* The scheduler's tick runs every minute whatever the ticks before it did.
FairLifecycle == LifecycleSpec /\ WF_entryVars(FlipDrafts)

-----------------------------------------------------------------------------
(***************************************************************************)
(* Properties.                                                             *)
(***************************************************************************)

\* The two records of a withdrawal agree: withdrawn_at (which the leaderboard, the entry
\* limit and the scheduler read) and the PHASE_1 status (which the transition table reads).
\* Seven handlers write one or both of them.
StatusMatchesStamp ==
    \A e \in Created : withdrawn[e] <=> phase1[e] = "withdrawn"

\* The inductive invariant.
LifecycleInv == EntryTypeOK /\ StatusMatchesStamp /\ BlankUnstamped

\* Before Phase 2 opens, no step changes the predictions of an entry that is official
\* before and after it: they change only through Edit, and never after the deadline.
OfficialPicksFrozen ==
    [][\A e \in Entries :
          phase1[e] = "submitted" /\ phase1'[e] = "submitted" /\ ~phase2Open
              => picks'[e] = picks[e]]_entryVars

\* "SUBMITTED - official, not editable" (models/entry.py:50), at any time.  Opening Phase 2
\* moves the gate to the PHASE_2 row, which submit_entry leaves in draft.
SubmittedNotEditable ==
    [][\A e \in Entries :
          phase1[e] = "submitted" /\ phase1'[e] = "submitted" => picks'[e] = picks[e]]_entryVars

\* Once the deadline is past (and while it is), an entry joins the competing field only by
\* an admin's decision: it was withdrawn and is reinstated, or disabled and is enabled.
FieldClosed ==
    [][past /\ past' =>
          \A e \in Entries : Competing(e)' /\ ~Competing(e) => withdrawn[e] \/ disabled[e]]_entryVars

\* "Reject identical predictions": before Phase 2 opens, two competing entries of one user
\* with the same predictions come only from an admin reinstating or enabling one of the
\* two, which checks nothing of the kind.
HasTwin(e) == Competing(e) /\ Twins(e) # {}

TwinsOnlyByAdmin ==
    [][~phase2Open => \A e \in Entries : HasTwin(e)' /\ ~HasTwin(e) =>
          \E f \in Entries : Competing(f)' /\ (withdrawn[f] \/ disabled[f])]_entryVars

\* When the deadline is past for good, the scheduler leaves no draft standing, disabled
\* drafts included: an admin who enables one later finds it withdrawn.
DraftsEventuallyWithdrawn ==
    <>[]past => <>[](\A e \in Created : ~withdrawn[e] => phase1[e] = "submitted")

\* "Multi-entry mode allows entries up to max_entries_per_user"
\* (docs/prediction-entries-requirements-spec.md:842).  reinstate_entry does not count: a
\* user who withdraws an entry, creates another and reinstates the first stands over it.
MaxEntriesEnforced ==
    \A u \in Users : Cardinality(Standing(u)) <= maxEntries
=============================================================================
