----------------------------- MODULE EntryProofs ----------------------------
(***************************************************************************)
(* Proofs about the entries, for any users, entries, prediction sets,      *)
(* settings and sessions: first EntryLifecycle, where requests do not      *)
(* overlap, then EntryTransactions, where they do.  What a session may do  *)
(* to a row later is settled when it loads the row (InFlightSound); the    *)
(* properties follow from what each commit writes.  Last EntryCreation,    *)
(* the one handler that takes a lock.                                      *)
(***************************************************************************)
EXTENDS EntryLifecycle, EntryTransactions, EntryCreation, SequenceTheorems, TLAPS

\* The empty table: well typed, nothing created, nothing withdrawn.
LEMMA EmptyTable == ASSUME EntryInit PROVE LifecycleInv
  BY EntryAssumption
     DEF EntryInit, LifecycleInv, EntryTypeOK, StatusMatchesStamp, BlankUnstamped, Status,
         Picks, Created

\* Every step keeps the table well typed.
LEMMA LifecycleTypeStep == ASSUME EntryTypeOK, [LifecycleNext]_entryVars PROVE EntryTypeOK'
<1> USE EntryAssumption DEF EntryTypeOK, Status, Picks, rows, competition
<1>1. ASSUME NEW e \in Entries, NEW u \in Users, CreateEntry(e, u) PROVE EntryTypeOK'
  BY <1>1 DEF CreateEntry, CreateWrites
<1>2. ASSUME NEW e \in Entries, NEW src \in Entries, NEW u \in Users, Duplicate(e, src, u)
      PROVE EntryTypeOK'
  BY <1>2 DEF Duplicate, CreateWrites
<1>3. ASSUME NEW e \in Entries, Submit(e) \/ Edit(e) PROVE EntryTypeOK'
  BY <1>3 DEF Submit, Edit, SubmitWrites, EditWrites
<1>4. ASSUME NEW e \in Entries, Withdraw(e) \/ AdminWithdraw(e) PROVE EntryTypeOK'
  BY <1>4 DEF Withdraw, WithdrawWrites, AdminWithdraw, AdminWithdrawWrites
<1>5. ASSUME NEW e \in Entries, Reinstate(e) \/ AdminReinstate(e) PROVE EntryTypeOK'
  BY <1>5 DEF Reinstate, ReinstateWrites, AdminReinstate, AdminReinstateWrites
<1>6. ASSUME NEW e \in Entries, NEW p \in Picks, SavePicks(e, p) \/ SaveLateScores(e, p)
      PROVE EntryTypeOK'
  BY <1>6 DEF SavePicks, SaveLateScores, SaveWrites
<1>7. ASSUME NEW e \in Entries, NEW on \in BOOLEAN, Disable(e) \/ Enable(e) \/ MarkPaid(e, on)
      PROVE EntryTypeOK'
  BY <1>7 DEF Disable, Enable, MarkPaid, SetDisabled, SetPaid
<1>8. CASE FlipDrafts
  BY <1>8 DEF FlipDrafts, FlipWrites
<1>9. ASSUME NEW n \in MaxEntriesChoices, ChangeMaxEntries(n) PROVE EntryTypeOK'
  BY <1>9 DEF ChangeMaxEntries, SetMaxEntries
<1>10. ASSUME NEW u \in Users, NEW on \in BOOLEAN, NamePayee(u, on) PROVE EntryTypeOK'
  BY <1>10 DEF NamePayee, SetPayee
<1>11. CASE OpenPhase2 \/ ClosePhase2 \/ DeadlinePasses \/ DeadlineMoved
  BY <1>11 DEF OpenPhase2, ClosePhase2, DeadlinePasses, DeadlineMoved, SetPhase2Open, SetPast
<1>12. CASE UNCHANGED entryVars
  BY <1>12 DEF entryVars
<1> QED
  BY <1>1, <1>2, <1>3, <1>4, <1>5, <1>6, <1>7, <1>8, <1>9, <1>10, <1>11, <1>12
     DEF LifecycleNext, UserStep, AdminStep

\* Each handler that writes withdrawn_at or the PHASE_1 status either writes both or is
\* kept away, by its guard, from the entries where the other would have to follow.
LEMMA LifecycleStampStep ==
    ASSUME LifecycleInv, [LifecycleNext]_entryVars PROVE (StatusMatchesStamp /\ BlankUnstamped)'
<1> USE EntryAssumption
    DEF LifecycleInv, EntryTypeOK, StatusMatchesStamp, BlankUnstamped, Status, Created, rows, competition
<1> DEFINE Goal == (StatusMatchesStamp /\ BlankUnstamped)'
<1>1. ASSUME NEW e \in Entries, NEW u \in Users, NEW p, e \notin Created, CreateWrites(e, u, p)
      PROVE Goal
  BY <1>1 DEF CreateWrites
<1>2. ASSUME NEW e \in Entries, Submit(e) \/ Edit(e) PROVE Goal
  BY <1>2 DEF Submit, SubmitOpen, Submittable, Active, SubmitWrites, Edit, EditAllowed,
              EditWrites
<1>3. ASSUME NEW e \in Entries, Withdraw(e) \/ AdminWithdraw(e) PROVE Goal
  BY <1>3 DEF Withdraw, WithdrawAllowed, WithdrawWrites, AdminWithdraw, AdminWithdrawAllowed,
              AdminWithdrawWrites, Active
<1>4. ASSUME NEW e \in Entries, Reinstate(e) PROVE Goal
  BY <1>4 DEF Reinstate, ReinstateAllowed, ReinstateWrites, Row
<1>5. ASSUME NEW e \in Entries, AdminReinstate(e) PROVE Goal
  BY <1>5 DEF AdminReinstate, AdminReinstateAllowed, AdminReinstateWrites
<1>6. CASE FlipDrafts
  BY <1>6 DEF FlipDrafts, Flippable, FlipWrites
<1>7. ASSUME UNCHANGED <<owner, phase1, withdrawn>> PROVE Goal
  BY <1>7
<1>8. ASSUME NEW e \in Entries, NEW p \in Picks, SavePicks(e, p) \/ SaveLateScores(e, p)
      PROVE UNCHANGED <<owner, phase1, withdrawn>>
  BY <1>8 DEF SavePicks, SaveLateScores, SaveWrites
<1>9. ASSUME NEW e \in Entries, NEW on \in BOOLEAN, Disable(e) \/ Enable(e) \/ MarkPaid(e, on)
      PROVE UNCHANGED <<owner, phase1, withdrawn>>
  BY <1>9 DEF Disable, Enable, MarkPaid, SetDisabled, SetPaid
<1>10. ASSUME NEW u \in Users, NEW on \in BOOLEAN, NamePayee(u, on)
       PROVE UNCHANGED <<owner, phase1, withdrawn>>
  BY <1>10 DEF NamePayee, SetPayee
<1>11. ASSUME \/ \E n \in MaxEntriesChoices : ChangeMaxEntries(n)
              \/ OpenPhase2 \/ ClosePhase2 \/ DeadlinePasses \/ DeadlineMoved
       PROVE UNCHANGED <<owner, phase1, withdrawn>>
  BY <1>11 DEF ChangeMaxEntries, SetMaxEntries, OpenPhase2, ClosePhase2, SetPhase2Open,
               DeadlinePasses, DeadlineMoved, SetPast
<1>12. CASE UNCHANGED entryVars
  BY <1>7, <1>12 DEF entryVars
<1> QED
  BY <1>1, <1>2, <1>3, <1>4, <1>5, <1>6, <1>7, <1>8, <1>9, <1>10, <1>11, <1>12
     DEF LifecycleNext, UserStep, AdminStep, CreateEntry, Duplicate

\* The inductive invariant holds in every reachable state.
LEMMA LifecycleInvariant == LifecycleSpec => []LifecycleInv
<1>1. EntryInit => LifecycleInv
  BY EmptyTable
<1>2. LifecycleInv /\ [LifecycleNext]_entryVars => LifecycleInv'
  BY LifecycleTypeStep, LifecycleStampStep DEF LifecycleInv
<1> QED
  BY <1>1, <1>2, PTL DEF LifecycleSpec

\* The two records of a withdrawal, withdrawn_at and the PHASE_1 status, always agree while
\* requests do not overlap, for any number of entries and users: no sequence of handlers
\* tears them apart.
THEOREM WithdrawalRecordsAgree == LifecycleSpec => []StatusMatchesStamp
<1>1. LifecycleInv => StatusMatchesStamp
  BY DEF LifecycleInv
<1> QED
  BY <1>1, LifecycleInvariant, PTL

\* Before Phase 2 opens, only edit_entry reopens the predictions of a submitted entry: no
\* step that leaves it submitted changes them.
THEOREM OfficialPicksStayFrozen == LifecycleSpec => OfficialPicksFrozen
<1> DEFINE Step == \A e \in Entries :
        phase1[e] = "submitted" /\ phase1'[e] = "submitted" /\ ~phase2Open => picks'[e] = picks[e]
<1>1. ASSUME LifecycleInv, [LifecycleNext]_entryVars PROVE [Step]_entryVars
  <2> SUFFICES ASSUME NEW f \in Entries, phase1[f] = "submitted", phase1'[f] = "submitted",
                      ~phase2Open
               PROVE picks'[f] = picks[f]
    OBVIOUS
  <2> USE <1>1, EntryAssumption DEF LifecycleInv, EntryTypeOK, Status, Created, rows, competition
  <2>1. ASSUME NEW e \in Entries, NEW u \in Users, NEW p, CreateWrites(e, u, p)
        PROVE picks'[f] = picks[f]
    BY <2>1 DEF CreateWrites
  <2>2. ASSUME NEW e \in Entries, NEW p \in Picks, SavePicks(e, p) PROVE picks'[f] = picks[f]
    BY <2>2 DEF SavePicks, SaveAllowed, SaveWrites
  <2>3. ASSUME NEW e \in Entries, NEW p \in Picks, SaveLateScores(e, p)
        PROVE picks'[f] = picks[f]
    BY <2>3 DEF SaveLateScores, LateSaveAllowed
  <2>4. ASSUME NEW e \in Entries,
               Submit(e) \/ Edit(e) \/ Withdraw(e) \/ Reinstate(e) \/ AdminWithdraw(e)
               \/ AdminReinstate(e)
        PROVE UNCHANGED picks
    BY <2>4 DEF Submit, SubmitWrites, Edit, EditWrites, Withdraw, WithdrawWrites, Reinstate,
                ReinstateWrites, AdminWithdraw, AdminWithdrawWrites, AdminReinstate,
                AdminReinstateWrites
  <2>5. ASSUME NEW e \in Entries, NEW on \in BOOLEAN, Disable(e) \/ Enable(e) \/ MarkPaid(e, on)
        PROVE UNCHANGED picks
    BY <2>5 DEF Disable, Enable, MarkPaid, SetDisabled, SetPaid
  <2>6. ASSUME NEW u \in Users, NEW on \in BOOLEAN, NamePayee(u, on) PROVE UNCHANGED picks
    BY <2>6 DEF NamePayee, SetPayee
  <2>7. ASSUME \/ \E n \in MaxEntriesChoices : ChangeMaxEntries(n)
               \/ OpenPhase2 \/ ClosePhase2 \/ DeadlinePasses \/ DeadlineMoved \/ FlipDrafts
        PROVE UNCHANGED picks
    BY <2>7 DEF ChangeMaxEntries, SetMaxEntries, OpenPhase2, ClosePhase2, SetPhase2Open,
                DeadlinePasses, DeadlineMoved, SetPast, FlipDrafts, FlipWrites
  <2>8. CASE UNCHANGED entryVars
    BY <2>8 DEF entryVars
  <2> QED
    BY <2>1, <2>2, <2>3, <2>4, <2>5, <2>6, <2>7, <2>8
       DEF LifecycleNext, UserStep, AdminStep, CreateEntry, Duplicate
<1> QED
  BY <1>1, LifecycleInvariant, PTL DEF LifecycleSpec, OfficialPicksFrozen

\* Once the deadline is past, no handler a user can call adds an entry to the competing
\* field: whoever joins it was withdrawn or disabled, which only an admin undoes by then.
THEOREM FieldStaysClosed == LifecycleSpec => FieldClosed
<1> DEFINE Step == past /\ past' =>
        \A e \in Entries : Competing(e)' /\ ~Competing(e) => withdrawn[e] \/ disabled[e]
<1>1. ASSUME LifecycleInv, [LifecycleNext]_entryVars PROVE [Step]_entryVars
  <2> SUFFICES ASSUME past, past', NEW f \in Entries, Competing(f)', ~withdrawn[f], ~disabled[f]
               PROVE Competing(f)
    OBVIOUS
  <2> USE <1>1, EntryAssumption
      DEF LifecycleInv, EntryTypeOK, Status, Competing, Active, Created, rows, competition
  <2>1. ASSUME NEW e \in Entries, NEW u \in Users, NEW p, CreateWrites(e, u, p)
        PROVE Competing(f)
    BY <2>1 DEF CreateWrites
  <2>2. ASSUME NEW e \in Entries, Submit(e) \/ Edit(e) \/ Withdraw(e) \/ Reinstate(e)
        PROVE Competing(f)
    BY <2>2 DEF Submit, SubmitOpen, Edit, EditAllowed, Withdraw, WithdrawAllowed, Reinstate,
                ReinstateAllowed
  <2>3. ASSUME NEW e \in Entries, AdminWithdraw(e) PROVE Competing(f)
    BY <2>3 DEF AdminWithdraw, AdminWithdrawWrites
  <2>4. ASSUME NEW e \in Entries, AdminReinstate(e) PROVE Competing(f)
    BY <2>4 DEF AdminReinstate, AdminReinstateAllowed, AdminReinstateWrites
  <2>5. ASSUME NEW e \in Entries, NEW on \in BOOLEAN, Disable(e) \/ Enable(e)
        PROVE Competing(f)
    BY <2>5 DEF Disable, Enable, SetDisabled
  <2>6. ASSUME UNCHANGED <<owner, phase1, withdrawn, disabled>> PROVE Competing(f)
    BY <2>6
  <2>7. ASSUME NEW e \in Entries,
               \/ \E p \in Picks : SavePicks(e, p) \/ SaveLateScores(e, p)
               \/ \E on \in BOOLEAN : MarkPaid(e, on)
        PROVE UNCHANGED <<owner, phase1, withdrawn, disabled>>
    BY <2>7 DEF SavePicks, SaveLateScores, SaveWrites, MarkPaid, SetPaid
  <2>8. ASSUME NEW u \in Users, NEW on \in BOOLEAN, NamePayee(u, on)
        PROVE UNCHANGED <<owner, phase1, withdrawn, disabled>>
    BY <2>8 DEF NamePayee, SetPayee
  <2>9. ASSUME \/ \E n \in MaxEntriesChoices : ChangeMaxEntries(n)
               \/ OpenPhase2 \/ ClosePhase2 \/ DeadlinePasses \/ DeadlineMoved
        PROVE UNCHANGED <<owner, phase1, withdrawn, disabled>>
    BY <2>9 DEF ChangeMaxEntries, SetMaxEntries, OpenPhase2, ClosePhase2, SetPhase2Open,
                DeadlinePasses, DeadlineMoved, SetPast
  <2>10. CASE FlipDrafts
    BY <2>10 DEF FlipDrafts, FlipWrites
  <2>11. CASE UNCHANGED entryVars
    BY <2>6, <2>11 DEF entryVars
  <2> QED
    BY <2>1, <2>2, <2>3, <2>4, <2>5, <2>6, <2>7, <2>8, <2>9, <2>10, <2>11
       DEF LifecycleNext, UserStep, AdminStep, CreateEntry, Duplicate
<1> QED
  BY <1>1, LifecycleInvariant, PTL DEF LifecycleSpec, FieldClosed

\* Two competing entries of one owner with the same predictions.
Twinned(e, g) ==
    /\ Competing(e) /\ Competing(g)
    /\ owner[e] = owner[g] /\ picks[e] = picks[g]

\* Twins that no administrator has just brought back were twins before the step: only a
\* submission makes an entry compete, and it looks for its twins.
LEMMA TwinsWereTwins ==
    ASSUME LifecycleInv, [LifecycleNext]_entryVars, ~phase2Open, NEW e \in Entries, NEW g \in Entries, e # g,
           Twinned(e, g)',
           ~withdrawn[e], ~disabled[e], ~withdrawn[g], ~disabled[g]
    PROVE  Twinned(e, g)
<1> USE EntryAssumption
    DEF LifecycleInv, EntryTypeOK, Status, Twinned, Competing, Active, Created, rows, competition
<1>1. ASSUME NEW x \in Entries, NEW u \in Users, NEW p, CreateWrites(x, u, p)
      PROVE Twinned(e, g)
  BY <1>1 DEF CreateWrites
<1>2. ASSUME NEW x \in Entries, Submit(x) PROVE Twinned(e, g)
  <2>1. Twins(x) = {} /\ UNCHANGED <<owner, withdrawn, disabled, picks>>
        /\ phase1' = [phase1 EXCEPT ![x] = "submitted"]
    BY <1>2 DEF Submit, PicksAcceptable, SubmitWrites
  <2>2. e # x
    BY <2>1 DEF Twins
  <2>3. g # x
    BY <2>1 DEF Twins
  <2> QED
    BY <2>1, <2>2, <2>3
<1>3. ASSUME NEW x \in Entries, Edit(x) \/ Withdraw(x) \/ AdminWithdraw(x) PROVE Twinned(e, g)
  BY <1>3 DEF Edit, EditWrites, Withdraw, WithdrawWrites, AdminWithdraw, AdminWithdrawWrites
<1>4. ASSUME NEW x \in Entries, Reinstate(x) \/ AdminReinstate(x) PROVE Twinned(e, g)
  BY <1>4 DEF Reinstate, ReinstateAllowed, ReinstateWrites, AdminReinstate,
              AdminReinstateAllowed, AdminReinstateWrites
<1>5. ASSUME NEW x \in Entries, NEW on \in BOOLEAN, Disable(x) \/ Enable(x) \/ MarkPaid(x, on)
      PROVE Twinned(e, g)
  BY <1>5 DEF Disable, Enable, MarkPaid, SetDisabled, SetPaid
<1>6. ASSUME NEW x \in Entries, NEW p \in Picks, SavePicks(x, p) \/ SaveLateScores(x, p)
      PROVE Twinned(e, g)
  BY <1>6 DEF SavePicks, SaveAllowed, SaveLateScores, LateSaveAllowed, SaveWrites
<1>7. CASE FlipDrafts
  BY <1>7 DEF FlipDrafts, FlipWrites
<1>8. ASSUME UNCHANGED <<owner, phase1, withdrawn, disabled, picks>> PROVE Twinned(e, g)
  BY <1>8
<1>9. ASSUME NEW u \in Users, NEW on \in BOOLEAN, NamePayee(u, on)
      PROVE UNCHANGED <<owner, phase1, withdrawn, disabled, picks>>
  BY <1>9 DEF NamePayee, SetPayee
<1>10. ASSUME \/ \E n \in MaxEntriesChoices : ChangeMaxEntries(n)
              \/ OpenPhase2 \/ ClosePhase2 \/ DeadlinePasses \/ DeadlineMoved
       PROVE UNCHANGED <<owner, phase1, withdrawn, disabled, picks>>
  BY <1>10 DEF ChangeMaxEntries, SetMaxEntries, OpenPhase2, ClosePhase2, SetPhase2Open,
               DeadlinePasses, DeadlineMoved, SetPast
<1>11. CASE UNCHANGED entryVars
  BY <1>8, <1>11 DEF entryVars
<1> QED
  BY <1>1, <1>2, <1>3, <1>4, <1>5, <1>6, <1>7, <1>8, <1>9, <1>10, <1>11
     DEF LifecycleNext, UserStep, AdminStep, CreateEntry, Duplicate

\* While requests do not overlap and Phase 2 is closed, identical competing entries of one
\* user come only from an administrator who reinstates or enables one (entries.py 1135-1143,
\* 1262-1330, 1790-1810).
THEOREM IdenticalEntriesAreAdminMade == LifecycleSpec => TwinsOnlyByAdmin
<1> DEFINE Step == ~phase2Open => \A e \in Entries : HasTwin(e)' /\ ~HasTwin(e) =>
        \E f \in Entries : Competing(f)' /\ (withdrawn[f] \/ disabled[f])
<1>1. ASSUME LifecycleInv, [LifecycleNext]_entryVars PROVE [Step]_entryVars
  <2> SUFFICES ASSUME ~phase2Open, NEW e \in Entries, HasTwin(e)',
                      \A f \in Entries : Competing(f)' => ~withdrawn[f] /\ ~disabled[f]
               PROVE HasTwin(e)
    OBVIOUS
  <2>1. PICK g \in Entries : g # e /\ Twinned(e, g)'
    BY DEF HasTwin, Twins, Twinned
  <2>2. Competing(e)' /\ Competing(g)'
    BY <2>1 DEF Twinned
  <2>3. Twinned(e, g)
    BY <1>1, <2>1, <2>2, TwinsWereTwins
  <2> QED
    BY <2>1, <2>3 DEF HasTwin, Twins, Twinned
<1> QED
  BY <1>1, LifecycleInvariant, PTL DEF LifecycleSpec, TwinsOnlyByAdmin

-----------------------------------------------------------------------------
\* What a session may commit: a submit has become a publish by then.
CommitOps == {"publish", "edit", "withdraw", "reinstate", "save", "adminWithdraw",
              "adminReinstate", "disable", "enable"}

-----------------------------------------------------------------------------
(***************************************************************************)
(* The inductive invariant.                                                *)
(***************************************************************************)

\* No entry, and nothing in flight.
LEMMA InitFacts == Init => IInv
  BY EntryAssumption
     DEF Init, EntryInit, IInv, TypeOK, EntryTypeOK, InFlightSound, BlankUnstamped, Status,
         Picks, Created, Idle

\* A session in flight holds a typed transaction.
LEMMA InFlightType ==
    ASSUME TypeOK, NEW s \in Sessions, txn[s] # Idle
    PROVE  /\ txn[s] \in Txn
           /\ txn[s].entry \in Entries /\ txn[s].row \in Rows
           /\ txn[s].op \in CommitOps \cup {"submit"}
  BY DEF TypeOK, Txn, RequestOps, CommitOps

\* Whatever a handler commits, the rows stay typed.
LEMMA WritesTyped ==
    ASSUME EntryTypeOK, NEW op \in CommitOps, NEW e \in Entries, NEW row \in Rows,
           CommitWrites(op, e, row)
    PROVE  EntryTypeOK'
<1> USE EntryAssumption DEF EntryTypeOK, Status, Picks, rows, competition
<1>1. CASE op = "publish"
  BY <1>1 DEF CommitWrites, SubmitWrites
<1>2. CASE op = "edit"
  BY <1>2 DEF CommitWrites, EditWrites
<1>3. CASE op = "withdraw"
  BY <1>3 DEF CommitWrites, WithdrawWrites
<1>4. CASE op = "reinstate"
  BY <1>4 DEF CommitWrites, ReinstateWrites
<1>5. CASE op = "save"
  BY <1>5 DEF CommitWrites, SaveWrites
<1>6. CASE op = "adminWithdraw"
  BY <1>6 DEF CommitWrites, AdminWithdrawWrites
<1>7. CASE op = "adminReinstate"
  BY <1>7 DEF CommitWrites, AdminReinstateWrites
<1>8. CASE op = "disable" \/ op = "enable"
  BY <1>8 DEF CommitWrites, SetDisabled
<1> QED
  BY <1>1, <1>2, <1>3, <1>4, <1>5, <1>6, <1>7, <1>8 DEF CommitOps

\* A commit writes existing rows and never their owner.
LEMMA WritesKeepOwners ==
    ASSUME NEW op \in CommitOps, NEW e \in Entries, NEW row \in Rows, CommitWrites(op, e, row)
    PROVE  UNCHANGED owner
  BY DEF CommitWrites, SubmitWrites, EditWrites, WithdrawWrites, ReinstateWrites, SaveWrites,
         AdminWithdrawWrites, AdminReinstateWrites, SetDisabled, CommitOps, competition

\* A commit stamps or unstamps its own entry only.
LEMMA WritesOneStamp ==
    ASSUME EntryTypeOK, NEW op \in CommitOps, NEW e \in Entries, NEW row \in Rows,
           CommitWrites(op, e, row)
    PROVE  \A f \in Entries : f # e =>
               /\ withdrawn'[f] = withdrawn[f] /\ phase1'[f] = phase1[f]
               /\ disabled'[f] = disabled[f] /\ picks'[f] = picks[f]
<1> USE DEF EntryTypeOK, rows, competition
<1>1. CASE op = "publish"
  BY <1>1 DEF CommitWrites, SubmitWrites
<1>2. CASE op = "edit"
  BY <1>2 DEF CommitWrites, EditWrites
<1>3. CASE op = "withdraw"
  BY <1>3 DEF CommitWrites, WithdrawWrites
<1>4. CASE op = "reinstate"
  BY <1>4 DEF CommitWrites, ReinstateWrites
<1>5. CASE op = "save"
  BY <1>5 DEF CommitWrites, SaveWrites
<1>6. CASE op = "adminWithdraw"
  BY <1>6 DEF CommitWrites, AdminWithdrawWrites
<1>7. CASE op = "adminReinstate"
  BY <1>7 DEF CommitWrites, AdminReinstateWrites
<1>8. CASE op = "disable" \/ op = "enable"
  BY <1>8 DEF CommitWrites, SetDisabled
<1> QED
  BY <1>1, <1>2, <1>3, <1>4, <1>5, <1>6, <1>7, <1>8 DEF CommitOps

\* No commit but a save's writes predictions.
LEMMA OnlySavesWritePicks ==
    ASSUME NEW op \in CommitOps, NEW e \in Entries, NEW row \in Rows,
           CommitWrites(op, e, row), op # "save"
    PROVE  UNCHANGED picks
  BY DEF CommitWrites, SubmitWrites, EditWrites, WithdrawWrites, ReinstateWrites,
         AdminWithdrawWrites, AdminReinstateWrites, SetDisabled, CommitOps

\* A handler the deadline closes, or a save, loads its row only while its checks hold.
LEMMA LoadSound ==
    ASSUME NEW op \in RequestOps, NEW e \in Entries, LoadAllowed(op, e)
    PROVE  /\ e \in Created
           /\ op \in ClosedByDeadline => ~past
           /\ op = "save" => phase1[e] = "draft"
  BY DEF LoadAllowed, RequestOps, ClosedByDeadline, SubmitOpen, Submittable, EditAllowed,
         WithdrawAllowed, ReinstateAllowed, SaveAllowed, AdminWithdrawAllowed,
         AdminReinstateAllowed, Active

\* Steps that load, abort or move only the competition leave the rows as they are.
LEMMA QuietSteps ==
    ASSUME [Next]_vars,
           ~(\E s \in Sessions : Commit(s)), ~FlipCommit,
           ~(\E e \in Entries, u \in Users : Create(e, u))
    PROVE  UNCHANGED rows
  BY DEF Next, Load, ReadPicks, Abort, FlipLoad, FlipFails, RecordPayee, SetPayee,
         MoveDeadline, SetPast, vars, entryVars, rows

\* What a commit is: of a session in flight, by a handler that writes, on an existing row.
LEMMA CommitFacts ==
    ASSUME IInv, NEW s \in Sessions, Commit(s)
    PROVE  /\ txn[s] # Idle
           /\ txn[s].op \in CommitOps
           /\ txn[s].entry \in Created
           /\ txn[s].row \in Rows
           /\ CommitWrites(txn[s].op, txn[s].entry, txn[s].row)
           /\ txn' = [txn EXCEPT ![s] = Idle]
           /\ UNCHANGED flip
<1>1. txn[s] # Idle
  BY DEF Commit, Idle
<1> QED
  BY <1>1, InFlightType DEF IInv, InFlightSound, Commit

\* The tables and the sessions stay well typed.
LEMMA TypeStep == ASSUME IInv, [Next]_vars PROVE TypeOK'
<1> USE EntryAssumption DEF IInv, TypeOK
<1>1. ASSUME NEW s \in Sessions, NEW op \in RequestOps, NEW e \in Entries, Load(s, op, e)
      PROVE TypeOK'
  <2>1. Row(e) \in Rows
    BY DEF Row, Rows, EntryTypeOK
  <2>2. [op |-> op, entry |-> e, row |-> Row(e), open |-> ~past] \in Txn
    BY <2>1 DEF Txn
  <2>3. txn' \in [Sessions -> Txn \cup {Idle}]
    BY <1>1, <2>2 DEF Load
  <2> QED
    BY <1>1, <2>3 DEF Load, entryVars, EntryTypeOK, Created
<1>2. ASSUME NEW s \in Sessions, ReadPicks(s) PROVE TypeOK'
  <2>1. txn[s] \in Txn
    BY <1>2 DEF ReadPicks, Idle
  <2>2. [txn[s] EXCEPT !.op = "publish"] \in Txn
    BY <2>1 DEF Txn
  <2>3. txn' \in [Sessions -> Txn \cup {Idle}]
    BY <1>2, <2>2 DEF ReadPicks
  <2> QED
    BY <1>2, <2>3 DEF ReadPicks, entryVars, EntryTypeOK
<1>3. ASSUME NEW s \in Sessions, Commit(s) PROVE TypeOK'
  <2>1. EntryTypeOK'
    BY <1>3, CommitFacts, WritesTyped DEF Created
  <2> QED
    BY <1>3, <2>1, CommitFacts
<1>4. ASSUME NEW s \in Sessions, Abort(s) PROVE TypeOK'
  BY <1>4 DEF Abort, entryVars, EntryTypeOK
<1>5. CASE FlipLoad \/ FlipFails
  BY <1>5 DEF FlipLoad, FlipFails, Flippable, Created, entryVars, EntryTypeOK
<1>6. CASE FlipCommit
  BY <1>6 DEF FlipCommit, FlipWrites, EntryTypeOK, Status, competition
<1>7. ASSUME NEW e \in Entries, NEW u \in Users, Create(e, u) PROVE TypeOK'
  BY <1>7 DEF Create, CreateWrites, EntryTypeOK, Status, Picks, competition
<1>8. ASSUME NEW u \in Users, RecordPayee(u) PROVE TypeOK'
  BY <1>8 DEF RecordPayee, SetPayee, EntryTypeOK, rows
<1>9. CASE MoveDeadline
  BY <1>9 DEF MoveDeadline, SetPast, EntryTypeOK, rows
<1>10. CASE UNCHANGED vars
  BY <1>10 DEF vars, entryVars, EntryTypeOK
<1> QED
  BY <1>1, <1>2, <1>3, <1>4, <1>5, <1>6, <1>7, <1>8, <1>9, <1>10 DEF Next

\* A session learns what it may do when it loads; nothing that happens later changes its
\* copy, and no row that exists ever goes away.
LEMMA SoundStep == ASSUME IInv, [Next]_vars PROVE InFlightSound'
<1> USE DEF IInv, TypeOK, InFlightSound
<1>1. ASSUME NEW s \in Sessions, NEW op \in RequestOps, NEW e \in Entries, Load(s, op, e)
      PROVE InFlightSound'
  <2>1. /\ e \in Created
        /\ op \in ClosedByDeadline => ~past
        /\ op = "save" => phase1[e] = "draft"
    BY <1>1, LoadSound DEF Load
  <2>2. UNCHANGED <<owner, flip>>
    BY <1>1 DEF Load, entryVars
  <2> QED
    BY <1>1, <2>1, <2>2 DEF Load, Row, Created
<1>2. ASSUME NEW s \in Sessions, ReadPicks(s) PROVE InFlightSound'
  <2>1. txn[s] \in Txn /\ txn[s] # Idle
    BY <1>2 DEF ReadPicks, Idle
  <2>2. UNCHANGED <<owner, flip>>
    BY <1>2 DEF ReadPicks, entryVars
  <2> QED
    BY <1>2, <2>1, <2>2 DEF ReadPicks, Txn, Created, ClosedByDeadline
<1>3. ASSUME NEW s \in Sessions, Commit(s) PROVE InFlightSound'
  <2>1. UNCHANGED owner
    BY <1>3, CommitFacts, WritesKeepOwners DEF Created
  <2> QED
    BY <1>3, <2>1, CommitFacts DEF Created
<1>4. ASSUME NEW s \in Sessions, Abort(s) PROVE InFlightSound'
  BY <1>4 DEF Abort, entryVars, Created
<1>5. CASE FlipLoad \/ FlipFails
  BY <1>5 DEF FlipLoad, FlipFails, Flippable, Created, entryVars
<1>6. CASE FlipCommit
  BY <1>6 DEF FlipCommit, FlipWrites, Created
<1>7. ASSUME NEW e \in Entries, NEW u \in Users, Create(e, u) PROVE InFlightSound'
  <2>1. Created \subseteq Created'
    BY <1>7, EntryAssumption DEF Create, CreateWrites, EntryTypeOK, Created
  <2> QED
    BY <1>7, <2>1 DEF Create
<1>8. CASE (\E u \in Users : RecordPayee(u)) \/ MoveDeadline
  BY <1>8 DEF RecordPayee, SetPayee, MoveDeadline, SetPast, rows, Created
<1>9. CASE UNCHANGED vars
  BY <1>9 DEF vars, entryVars, Created
<1> QED
  BY <1>1, <1>2, <1>3, <1>4, <1>5, <1>6, <1>7, <1>8, <1>9 DEF Next

\* Only existing rows are ever stamped.
LEMMA UnstampedStep == ASSUME IInv, [Next]_vars PROVE BlankUnstamped'
<1> USE DEF IInv, TypeOK, BlankUnstamped
<1>1. ASSUME NEW s \in Sessions, Commit(s) PROVE BlankUnstamped'
  <2>1. UNCHANGED owner
    BY <1>1, CommitFacts, WritesKeepOwners DEF Created
  <2>2. \A f \in Entries : f # txn[s].entry => withdrawn'[f] = withdrawn[f]
    BY <1>1, CommitFacts, WritesOneStamp DEF Created
  <2> QED
    BY <1>1, <2>1, <2>2, CommitFacts DEF Created
<1>2. CASE FlipCommit
  BY <1>2 DEF FlipCommit, FlipWrites, InFlightSound, EntryTypeOK, Created
<1>3. ASSUME NEW e \in Entries, NEW u \in Users, Create(e, u) PROVE BlankUnstamped'
  BY <1>3, EntryAssumption DEF Create, CreateWrites, EntryTypeOK, Created
<1> QED
  BY <1>1, <1>2, <1>3, QuietSteps DEF rows, Created

\* The inductive invariant holds in every reachable state.
LEMMA Invariant == Spec => []IInv
<1>1. Init => IInv
  BY InitFacts
<1>2. IInv /\ [Next]_vars => IInv'
  BY TypeStep, SoundStep, UnstampedStep DEF IInv
<1> QED
  BY <1>1, <1>2, PTL DEF Spec

-----------------------------------------------------------------------------
(***************************************************************************)
(* What no race can do.                                                    *)
(***************************************************************************)

\* Whatever the interleaving of any number of sessions, an entry joins the field after the
\* deadline only by an admin's commit, or by one of a request that passed its checks before
\* the deadline did.
THEOREM JoinersWereInTime == Spec => LateJoinersWereInTime
<1> DEFINE Joins(e) == past /\ past' /\ Competing(e)' /\ ~Competing(e)
           InTime(e, s) == /\ txn[s] # Idle
                           /\ txn[s].entry = e
                           /\ txn[s].open \/ txn[s].op \in {"adminReinstate", "enable"}
           Step == past /\ past' =>
                      \A e \in Entries : Competing(e)' /\ ~Competing(e) =>
                          \E s \in Sessions :
                              /\ txn[s] # Idle
                              /\ txn[s].entry = e
                              /\ txn[s].open \/ txn[s].op \in {"adminReinstate", "enable"}
<1>1. ASSUME IInv, [Next]_vars PROVE [Step]_vars
  <2> SUFFICES ASSUME NEW f \in Entries, Joins(f) PROVE \E s \in Sessions : InTime(f, s)
    OBVIOUS
  <2> USE <1>1 DEF IInv, TypeOK
  <2>1. ASSUME NEW s \in Sessions, Commit(s) PROVE InTime(f, s)
    <3> DEFINE op == txn[s].op
               e == txn[s].entry
    <3>1. /\ txn[s] # Idle /\ op \in CommitOps /\ e \in Created /\ txn[s].row \in Rows
          /\ CommitWrites(op, e, txn[s].row)
      BY <2>1, CommitFacts
    <3>2. UNCHANGED owner
      BY <3>1, WritesKeepOwners DEF Created
    <3>3. f = e
      BY <3>1, <3>2, WritesOneStamp DEF Competing, Active, Created
    <3>4. CASE op \in ClosedByDeadline
      BY <3>1, <3>3, <3>4 DEF InFlightSound
    <3>5. CASE op = "adminWithdraw"
      <4>1. withdrawn' = [withdrawn EXCEPT ![e] = TRUE]
        BY <3>1, <3>5 DEF CommitWrites, AdminWithdrawWrites
      <4> QED
        BY <3>1, <3>3, <4>1 DEF EntryTypeOK, Competing, Active, Created
    <3>6. CASE op = "disable"
      <4>1. disabled' = [disabled EXCEPT ![e] = TRUE]
        BY <3>1, <3>6 DEF CommitWrites, SetDisabled
      <4> QED
        BY <3>1, <3>3, <4>1 DEF EntryTypeOK, Competing, Active, Created
    <3>7. CASE op \in {"adminReinstate", "enable"}
      BY <3>1, <3>3, <3>7
    <3> QED
      BY <3>1, <3>4, <3>5, <3>6, <3>7 DEF CommitOps, ClosedByDeadline
  <2>2. CASE FlipCommit
    BY <2>2 DEF FlipCommit, FlipWrites, EntryTypeOK, Competing, Active, Created, competition
  <2>3. ASSUME NEW e \in Entries, NEW u \in Users, Create(e, u) PROVE FALSE
    BY <2>3 DEF Create, CreateAllowed
  <2>4. ~UNCHANGED rows
    BY DEF rows, Competing, Active, Created
  <2> QED
    BY <2>1, <2>2, <2>3, <2>4, QuietSteps
<1> QED
  BY <1>1, Invariant, PTL DEF Spec, LateJoinersWereInTime

\* However requests overlap, the predictions of an entry change only by the commit of a save
\* that read it as a draft before the deadline.
THEOREM PicksComeFromDrafts == Spec => PicksChangeFromDraft
<1> DEFINE Saves(e, s) == /\ txn[s] # Idle
                          /\ txn[s].op = "save" /\ txn[s].entry = e
                          /\ txn[s].open /\ txn[s].row.phase1 = "draft"
           Step == \A e \in Entries : e \in Created /\ picks'[e] # picks[e] =>
                      \E s \in Sessions :
                          /\ txn[s] # Idle
                          /\ txn[s].op = "save" /\ txn[s].entry = e
                          /\ txn[s].open /\ txn[s].row.phase1 = "draft"
<1>1. ASSUME IInv, [Next]_vars PROVE [Step]_vars
  <2> SUFFICES ASSUME NEW f \in Entries, f \in Created, picks'[f] # picks[f]
               PROVE \E s \in Sessions : Saves(f, s)
    OBVIOUS
  <2> USE <1>1 DEF IInv, TypeOK
  <2>1. ASSUME NEW s \in Sessions, Commit(s) PROVE Saves(f, s)
    <3> DEFINE op == txn[s].op
               e == txn[s].entry
    <3>1. /\ txn[s] # Idle /\ op \in CommitOps /\ e \in Created /\ txn[s].row \in Rows
          /\ CommitWrites(op, e, txn[s].row)
      BY <2>1, CommitFacts
    <3>2. f = e
      BY <3>1, WritesOneStamp DEF Created
    <3>3. op = "save"
      BY <3>1, OnlySavesWritePicks DEF Created
    <3> QED
      BY <3>1, <3>2, <3>3 DEF InFlightSound, ClosedByDeadline
  <2>2. CASE FlipCommit
    BY <2>2 DEF FlipCommit, FlipWrites
  <2>3. ASSUME NEW e \in Entries, NEW u \in Users, Create(e, u) PROVE FALSE
    BY <2>3 DEF Create, CreateWrites, EntryTypeOK
  <2> QED
    BY <2>1, <2>2, <2>3, QuietSteps DEF rows
<1> QED
  BY <1>1, Invariant, PTL DEF Spec, PicksChangeFromDraft

\* However requests overlap, only a status-only write that lands on a withdrawn entry, or
\* the reinstatement of an entry loaded torn, leaves a stamp without its status or a status
\* without its stamp.
THEOREM TearsAreStale == Spec => OnlyStaleWritesTear
<1> DEFINE Stale(e, s) == /\ txn[s] # Idle
                          /\ txn[s].entry = e
                          /\ \/ txn[s].op \in {"publish", "edit"} /\ withdrawn[e]
                             \/ txn[s].op = "reinstate" /\ txn[s].row.phase1 # "withdrawn"
           Step == \A e \in Entries : Torn(e)' /\ ~Torn(e) =>
                      \E s \in Sessions :
                          /\ txn[s] # Idle
                          /\ txn[s].entry = e
                          /\ \/ txn[s].op \in {"publish", "edit"} /\ withdrawn[e]
                             \/ txn[s].op = "reinstate" /\ txn[s].row.phase1 # "withdrawn"
<1>1. ASSUME IInv, [Next]_vars PROVE [Step]_vars
  <2> SUFFICES ASSUME NEW f \in Entries, Torn(f)', ~Torn(f)
               PROVE \E s \in Sessions : Stale(f, s)
    OBVIOUS
  <2> USE <1>1 DEF IInv, TypeOK
  <2>1. ASSUME NEW s \in Sessions, Commit(s) PROVE Stale(f, s)
    <3> DEFINE op == txn[s].op
               e == txn[s].entry
               row == txn[s].row
    <3>1. /\ txn[s] # Idle /\ op \in CommitOps /\ e \in Created /\ row \in Rows
          /\ CommitWrites(op, e, row)
      BY <2>1, CommitFacts
    <3>2. f = e
      BY <3>1, WritesOneStamp DEF Torn, Created
    <3>3. CASE op = "publish" \/ op = "edit"
      <4>1. UNCHANGED withdrawn /\ phase1'[f] # "withdrawn"
        BY <3>1, <3>2, <3>3 DEF CommitWrites, SubmitWrites, EditWrites, EntryTypeOK
      <4> QED
        BY <3>1, <3>2, <3>3, <4>1 DEF Torn, EntryTypeOK
    <3>4. CASE op = "withdraw" \/ op = "adminWithdraw"
      <4>1. withdrawn'[f] = TRUE /\ phase1'[f] = "withdrawn"
        BY <3>1, <3>2, <3>4
           DEF CommitWrites, WithdrawWrites, AdminWithdrawWrites, EntryTypeOK
      <4> QED
        BY <4>1 DEF Torn
    <3>5. CASE op = "reinstate"
      <4>1. CASE row.phase1 = "withdrawn"
        <5>1. withdrawn'[f] = FALSE /\ phase1'[f] = "draft"
          BY <3>1, <3>2, <3>5, <4>1 DEF CommitWrites, ReinstateWrites, EntryTypeOK
        <5> QED
          BY <5>1 DEF Torn
      <4> QED
        BY <3>1, <3>2, <3>5, <4>1
    <3>6. CASE op = "adminReinstate"
      <4>1. withdrawn'[f] = FALSE /\ phase1'[f] = "submitted"
        BY <3>1, <3>2, <3>6 DEF CommitWrites, AdminReinstateWrites, EntryTypeOK
      <4> QED
        BY <4>1 DEF Torn
    <3>7. CASE op = "save"
      BY <3>1, <3>7 DEF CommitWrites, SaveWrites, Torn
    <3>8. CASE op = "disable" \/ op = "enable"
      BY <3>1, <3>8 DEF CommitWrites, SetDisabled, Torn
    <3> QED
      BY <3>1, <3>3, <3>4, <3>5, <3>6, <3>7, <3>8 DEF CommitOps
  <2>2. CASE FlipCommit
    BY <2>2 DEF FlipCommit, FlipWrites, EntryTypeOK, Torn
  <2>3. ASSUME NEW e \in Entries, NEW u \in Users, Create(e, u) PROVE FALSE
    BY <2>3 DEF Create, CreateWrites, EntryTypeOK, BlankUnstamped, Torn
  <2> QED
    BY <2>1, <2>2, <2>3, QuietSteps DEF rows, Torn
<1> QED
  BY <1>1, Invariant, PTL DEF Spec, OnlyStaleWritesTear

-----------------------------------------------------------------------------
(***************************************************************************)
(* EntryCreation, for any number of requests, users and rows.              *)
(***************************************************************************)

EntryRow == [user : Players, number : Nat, reference : Nat, standing : BOOLEAN]

\* A row of the table.
LEMMA RowType == ASSUME CreationTypeOK, NEW i \in DOMAIN entries PROVE entries[i] \in EntryRow
<1>1. entries \in Seq(EntryRow)
  BY DEF CreationTypeOK, EntryRow
<1>2. i \in 1..Len(entries)
  BY <1>1
<1> QED
  BY <1>1, <1>2, ElementOfSeq

\* A user's next entry number is a number: the highest of them exists.
LEMMA NextNumberType == ASSUME LockInv, NEW u \in Players PROVE NextNumber(u) \in Nat
<1>1. Numbers(u) \subseteq Nat
  <2>1. \A i \in Own(u) : entries[i].number \in Nat
    BY RowType DEF LockInv, Own, EntryRow
  <2> QED
    BY <2>1 DEF Numbers
<1>2. Max(Numbers(u)) \in Numbers(u)
  BY <1>1 DEF LockInv, NumbersHaveTop, Max
<1>3. Max(Numbers(u)) \in Nat
  BY <1>1, <1>2
<1> QED
  BY <1>3 DEF NextNumber

\* An empty table and no request in flight.
LEMMA NoRowsYet == ASSUME CreationInit PROVE LockInv
<1>1. \A u \in Players : Numbers(u) = {0}
  BY DEF CreationInit, Numbers, Own
<1>2. entries \in Seq([user : Players, number : Nat, reference : Nat, standing : BOOLEAN])
  BY EmptySeq DEF CreationInit
<1>3. CreationTypeOK
  BY <1>2 DEF CreationInit, CreationTypeOK, Stages
<1>4. LockHeld /\ ReferenceCurrent /\ ReferencesInOrder /\ Sent
  BY DEF CreationInit, LockHeld, ReferenceCurrent, ReferencesInOrder, Sent
<1>5. NumbersHaveTop
  BY <1>1 DEF NumbersHaveTop
<1> QED
  BY <1>3, <1>4, <1>5 DEF LockInv

\* While the table is not written the numbers in it keep their highest.
LEMMA TopKept == ASSUME NumbersHaveTop, UNCHANGED entries PROVE NumbersHaveTop'
  BY DEF NumbersHaveTop, Numbers, Own

\* A request that counts touches neither the table nor the lock.
LEMMA CountStep == ASSUME LockInv, NEW r \in Requests, NEW u \in Players, Count(r, u) PROVE LockInv'
<1>1. NumbersHaveTop'
  BY TopKept DEF Count, LockInv
<1> QED
  BY <1>1
     DEF Count, LockInv, CreationTypeOK, LockHeld, ReferenceCurrent, ReferencesInOrder, Sent, Stages

\* A request reads a number of its own.
LEMMA NumberStep ==
    ASSUME LockInv, NEW r \in Requests, Number(r) PROVE LockInv'
<1>1. NumbersHaveTop'
  BY TopKept DEF Number, LockInv
<1>2. NextNumber(user[r]) \in Nat
  BY NextNumberType DEF Number, LockInv, Sent
<1> QED
  BY <1>1, <1>2
     DEF Number, LockInv, CreationTypeOK, LockHeld, ReferenceCurrent, ReferencesInOrder, Sent, Stages

\* Only a free competition row is locked.
LEMMA LockStep == ASSUME LockInv, NEW r \in Requests, LockCompetition(r) PROVE LockInv'
<1>1. NumbersHaveTop'
  BY TopKept DEF LockCompetition, Acquire, LockInv
<1> QED
  BY <1>1, CreationAssumption
     DEF LockCompetition, Acquire, LockInv, CreationTypeOK, LockHeld, ReferenceCurrent,
         ReferencesInOrder, Sent, Stages

\* The reference is counted while the lock keeps everyone from committing.
LEMMA ReferenceStep == ASSUME LockInv, NEW r \in Requests, Reference(r) PROVE LockInv'
<1>1. NumbersHaveTop'
  BY TopKept DEF Reference, LockInv
<1> QED
  BY <1>1
     DEF Reference, LockInv, CreationTypeOK, LockHeld, ReferenceCurrent, ReferencesInOrder, Sent, Stages

\* The end of a transaction, committed or not, leaves nothing of the request behind.
LEMMA RollbackStep == ASSUME LockInv, NEW r \in Requests, Rollback(r) PROVE LockInv'
<1>1. NumbersHaveTop'
  BY TopKept DEF Rollback, LockInv
<1> QED
  BY <1>1, CreationAssumption
     DEF Rollback, End, LockInv, CreationTypeOK, LockHeld, ReferenceCurrent, ReferencesInOrder, Sent, Stages

\* A commit appends the row whose reference it counted under the lock; nobody else holds a
\* reference then.  Its number or the highest so far is the highest after it.
LEMMA CommitStep == ASSUME LockInv, NEW r \in Requests, CommitEntry(r) PROVE LockInv'
<1> DEFINE row == [user |-> user[r], number |-> number[r], reference |-> reference[r],
                   standing |-> TRUE]
<1> USE DEF LockInv
<1>1. row \in EntryRow /\ entries \in Seq(EntryRow) /\ entries' = Append(entries, row)
  BY DEF CommitEntry, CreationTypeOK, EntryRow, Sent
<1>2. /\ Len(entries') = Len(entries) + 1
      /\ \A i \in 1..Len(entries) : entries'[i] = entries[i]
      /\ entries'[Len(entries) + 1] = row
      /\ DOMAIN entries = 1..Len(entries) /\ DOMAIN entries' = 1..(Len(entries) + 1)
      /\ Len(entries) \in Nat
  BY <1>1
<1>3. CreationTypeOK' /\ Sent'
  BY <1>1, CreationAssumption DEF CommitEntry, End, CreationTypeOK, Sent, EntryRow, Stages
<1>4. LockHeld'
  BY DEF CommitEntry, End, LockHeld, CreationTypeOK
<1>5. ReferenceCurrent'
  BY CreationAssumption DEF CommitEntry, End, LockHeld, ReferenceCurrent, CreationTypeOK
<1>6. ReferencesInOrder'
  BY <1>2 DEF CommitEntry, ReferenceCurrent, ReferencesInOrder
<1>7. NumbersHaveTop'
  <2> SUFFICES ASSUME NEW u \in Players
               PROVE  \E n \in Numbers(u)' : \A m \in Numbers(u)' : n >= m
    BY DEF NumbersHaveTop
  <2>1. Numbers(u) \subseteq Nat
    BY RowType DEF Numbers, Own, EntryRow
  <2>2. Numbers(u)' = Numbers(u) \cup (IF u = user[r] THEN {number[r]} ELSE {})
    BY <1>2 DEF Numbers, Own
  <2>3. PICK n \in Numbers(u) : \A m \in Numbers(u) : n >= m
    BY DEF NumbersHaveTop
  <2>4. number[r] \in Nat
    BY DEF CreationTypeOK
  <2> QED
    BY <2>1, <2>2, <2>3, <2>4
<1> QED
  BY <1>3, <1>4, <1>5, <1>6, <1>7

\* A withdrawal or a reinstatement changes no number and no reference.
LEMMA WithdrawStep == ASSUME LockInv, NEW i \in 1..MaxRows, WithdrawOrReinstate(i) PROVE LockInv'
<1> USE DEF LockInv
<1>1. /\ entries \in Seq(EntryRow) /\ i \in DOMAIN entries
      /\ entries' = [entries EXCEPT ![i].standing = ~@]
  BY DEF WithdrawOrReinstate, CreationTypeOK, EntryRow
<1>2. entries[i] \in EntryRow
  BY <1>1
<1>3. entries' \in Seq(EntryRow) /\ Len(entries') = Len(entries)
  <2>1. [entries[i] EXCEPT !.standing = ~@] \in EntryRow
    BY <1>2 DEF EntryRow
  <2>2. entries' = [entries EXCEPT ![i] = [entries[i] EXCEPT !.standing = ~@]]
    BY <1>1
  <2> QED
    BY <1>1, <2>1, <2>2, ExceptSeq
<1>4. /\ DOMAIN entries' = DOMAIN entries
      /\ \A j \in DOMAIN entries : /\ entries'[j].user = entries[j].user
                                  /\ entries'[j].number = entries[j].number
                                  /\ entries'[j].reference = entries[j].reference
  BY <1>1, <1>2 DEF EntryRow
<1>5. \A u \in Players : Numbers(u)' = Numbers(u)
  BY <1>4 DEF Numbers, Own
<1>6. NumbersHaveTop'
  BY <1>5 DEF NumbersHaveTop
<1> QED
  BY <1>3, <1>4, <1>6 DEF WithdrawOrReinstate, CreationTypeOK, EntryRow, LockHeld, ReferenceCurrent,
                          ReferencesInOrder, Sent

\* Every step keeps the first part of the invariant.
LEMMA LockInvStep == ASSUME LockInv, [CreationNext]_creationVars PROVE LockInv'
<1>1. CASE UNCHANGED creationVars
  <2>1. NumbersHaveTop'
    BY <1>1, TopKept DEF LockInv, creationVars
  <2> QED
    BY <1>1, <2>1
       DEF creationVars, LockInv, CreationTypeOK, LockHeld, ReferenceCurrent, ReferencesInOrder, Sent
<1> QED
  BY <1>1, CountStep, NumberStep, LockStep, ReferenceStep, CommitStep, RollbackStep,
     WithdrawStep DEF CreationNext

\* While the table is not written, what is known of the numbers in it stays known.
LEMMA OrderKept ==
    ASSUME UNCHANGED entries
    PROVE  NumbersInOrder => NumbersInOrder'
  BY DEF NumbersInOrder

\* A number just read leaves no gap: below the highest of a user's numbers there is none.
LEMMA FreshNumber ==
    ASSUME NumberingInv, NEW u \in Players
    PROVE  /\ NextNumber(u) \in Nat /\ NextNumber(u) >= 1
           /\ \A n \in 1..(NextNumber(u) - 1) : HasNumber(entries, Len(entries), u, n)
<1> USE DEF NumberingInv
<1>1. Numbers(u) \subseteq Nat
  BY RowType DEF LockInv, Numbers, Own, EntryRow
<1>2. Max(Numbers(u)) \in Numbers(u)
  BY <1>1 DEF LockInv, NumbersHaveTop, Max
<1>3. NextNumber(u) \in Nat /\ NextNumber(u) >= 1 /\ NextNumber(u) - 1 = Max(Numbers(u))
  BY <1>1, <1>2 DEF NextNumber
<1>4. ASSUME NEW n \in 1..Max(Numbers(u)) PROVE HasNumber(entries, Len(entries), u, n)
  <2>1. PICK i \in Own(u) : entries[i].number = Max(Numbers(u))
    <3>1. Max(Numbers(u)) # 0
      BY <1>1, <1>2, <1>4
    <3> QED
      BY <1>2, <3>1 DEF Numbers
  <2>2. HasNumber(entries, i, u, n)
    BY <1>4, <2>1 DEF NumbersInOrder, Own
  <2>3. i \in 1..Len(entries) /\ Len(entries) \in Nat
    BY <2>1 DEF Own, LockInv, CreationTypeOK
  <2> QED
    BY <2>2, <2>3 DEF HasNumber
<1> QED
  BY <1>3, <1>4

\* A commit that found its number free carries the user's next one: a lower number would be
\* taken, and below its own there is no gap.
LEMMA CommitInOrder ==
    ASSUME NumberingInv, NEW r \in Requests, CommitEntry(r) PROVE NumbersInOrder' /\ NoGapBelow'
<1> DEFINE row == [user |-> user[r], number |-> number[r], reference |-> reference[r],
                   standing |-> TRUE]
           N == Len(entries)
<1> USE DEF NumberingInv, LockInv
<1>1. row \in EntryRow /\ entries \in Seq(EntryRow) /\ entries' = Append(entries, row)
  BY DEF CommitEntry, CreationTypeOK, EntryRow, Sent
<1>2. /\ Len(entries') = N + 1
      /\ \A i \in 1..N : entries'[i] = entries[i]
      /\ entries'[N + 1] = row
      /\ DOMAIN entries = 1..N /\ DOMAIN entries' = 1..(N + 1)
      /\ N \in Nat
  BY <1>1
<1>3. /\ number[r] \in Nat /\ number[r] >= 1
      /\ \A n \in 1..(number[r] - 1) : HasNumber(entries, N, user[r], n)
  BY DEF CommitEntry, NoGapBelow, CreationTypeOK
<1>4. \A j \in 1..N : entries[j].number \in Nat
  BY <1>2, RowType DEF EntryRow
<1>5. \A u, n : \A i \in 0..N : HasNumber(entries, i, u, n) => HasNumber(entries', i, u, n)
  BY <1>2 DEF HasNumber
<1>6. \A u, n : HasNumber(entries, N, u, n) => HasNumber(entries', N + 1, u, n)
  BY <1>2 DEF HasNumber
<1>7. ASSUME NEW j \in 1..N, entries[j].user = user[r] PROVE entries[j].number < number[r]
  <2>1. CASE entries[j].number >= number[r]
    <3>1. HasNumber(entries, j, user[r], number[r])
      BY <1>2, <1>3, <1>4, <1>7, <2>1 DEF NumbersInOrder
    <3>2. NumberTaken(r)
      BY <1>2, <3>1 DEF HasNumber, NumberTaken
    <3> QED
      BY <3>2 DEF CommitEntry
  <2> QED
    BY <1>3, <1>4, <2>1
<1>8. NumbersInOrder'
  <2> SUFFICES ASSUME NEW i \in 1..(N + 1)
               PROVE /\ entries'[i].number >= 1
                     /\ \A j \in 1..(i - 1) : entries'[j].user = entries'[i].user
                                             => entries'[j].number < entries'[i].number
                     /\ \A n \in 1..entries'[i].number :
                            HasNumber(entries', i, entries'[i].user, n)
    BY <1>2 DEF NumbersInOrder
  <2>1. CASE i \in 1..N
    BY <1>2, <1>5, <2>1 DEF NumbersInOrder
  <2>2. CASE i = N + 1
    <3>1. entries'[i] = row
      BY <1>2, <2>2
    <3>2. \A j \in 1..N : entries'[j].user = user[r] => entries'[j].number < number[r]
      BY <1>2, <1>7
    <3>3. HasNumber(entries', N + 1, user[r], number[r])
      BY <1>2, <3>1 DEF HasNumber
    <3>4. ASSUME NEW n \in 1..number[r] PROVE HasNumber(entries', N + 1, user[r], n)
      <4>1. CASE n = number[r]
        BY <3>3, <4>1
      <4>2. CASE n \in 1..(number[r] - 1)
        BY <1>3, <1>6, <4>2
      <4> QED
        BY <1>3, <4>1, <4>2
    <3> QED
      BY <1>2, <1>3, <2>2, <3>1, <3>2, <3>4
  <2> QED
    BY <1>2, <2>1, <2>2
<1>9. NoGapBelow'
  <2> SUFFICES ASSUME NEW q \in Requests, pc'[q] \in {"numbered", "locked", "referenced"}
               PROVE /\ number'[q] >= 1
                     /\ \A n \in 1..(number'[q] - 1) : HasNumber(entries', N + 1, user'[q], n)
    BY <1>2 DEF NoGapBelow
  <2>1. q # r /\ pc[q] = pc'[q] /\ number'[q] = number[q] /\ user'[q] = user[q]
    BY DEF CommitEntry, End, CreationTypeOK
  <2> QED
    BY <1>6, <2>1 DEF NoGapBelow
<1> QED
  BY <1>8, <1>9

\* A change of withdrawn_at leaves the numbers where they are.
LEMMA WithdrawInOrder ==
    ASSUME NumberingInv, NEW i \in 1..MaxRows, WithdrawOrReinstate(i)
    PROVE  NumbersInOrder' /\ NoGapBelow'
<1> USE DEF NumberingInv, LockInv
<1>1. /\ entries \in Seq(EntryRow) /\ i \in 1..Len(entries)
      /\ entries' = [entries EXCEPT ![i].standing = ~@]
  BY DEF WithdrawOrReinstate, CreationTypeOK, EntryRow
<1>2. entries[i] \in EntryRow
  BY <1>1, ElementOfSeq
<1>3. /\ DOMAIN entries' = DOMAIN entries /\ Len(entries') = Len(entries)
      /\ DOMAIN entries = 1..Len(entries) /\ Len(entries) \in Nat
  <2>1. [entries[i] EXCEPT !.standing = ~@] \in EntryRow
    BY <1>2 DEF EntryRow
  <2>2. entries' = [entries EXCEPT ![i] = [entries[i] EXCEPT !.standing = ~@]]
    BY <1>1
  <2> QED
    BY <1>1, <2>1, <2>2, ExceptSeq
<1>4. \A j \in 1..Len(entries) : /\ entries'[j].user = entries[j].user
                                /\ entries'[j].number = entries[j].number
  BY <1>1, <1>2 DEF EntryRow
<1>5. \A u, n : \A k \in 0..Len(entries) :
          HasNumber(entries, k, u, n) => HasNumber(entries', k, u, n)
  BY <1>4 DEF HasNumber
<1>6. NumbersInOrder'
  BY <1>3, <1>4, <1>5 DEF NumbersInOrder
<1>7. NoGapBelow'
  <2>1. pc' = pc /\ user' = user /\ number' = number
    BY DEF WithdrawOrReinstate
  <2>2. \A u, n : HasNumber(entries, Len(entries), u, n) => HasNumber(entries', Len(entries), u, n)
    BY <1>3, <1>5
  <2> QED
    BY <1>3, <2>1, <2>2 DEF NoGapBelow
<1> QED
  BY <1>6, <1>7

\* Every step keeps the numbers in order.
LEMMA OrderStep ==
    ASSUME NumberingInv, [CreationNext]_creationVars
    PROVE  NumbersInOrder' /\ NoGapBelow'
<1> USE DEF NumberingInv
<1>1. ASSUME NEW r \in Requests, NEW u \in Players, Count(r, u)
      PROVE NumbersInOrder' /\ NoGapBelow'
  BY <1>1, OrderKept DEF Count, NoGapBelow, LockInv, CreationTypeOK
<1>2. ASSUME NEW r \in Requests, Number(r) PROVE NumbersInOrder' /\ NoGapBelow'
  <2>1. user[r] \in Players
    BY <1>2 DEF Number, LockInv, Sent
  <2>2. /\ NextNumber(user[r]) >= 1
        /\ \A n \in 1..(NextNumber(user[r]) - 1) : HasNumber(entries, Len(entries), user[r], n)
    BY <2>1, FreshNumber
  <2> QED
    BY <1>2, <2>2, OrderKept DEF Number, NoGapBelow, LockInv, CreationTypeOK
<1>3. ASSUME NEW r \in Requests, LockCompetition(r) \/ Reference(r)
      PROVE NumbersInOrder' /\ NoGapBelow'
  BY <1>3, OrderKept DEF LockCompetition, Acquire, Reference, NoGapBelow, LockInv, CreationTypeOK
<1>4. ASSUME NEW r \in Requests, Rollback(r) PROVE NumbersInOrder' /\ NoGapBelow'
  BY <1>4, OrderKept DEF Rollback, End, NoGapBelow, LockInv, CreationTypeOK
<1>5. CASE UNCHANGED creationVars
  BY <1>5, OrderKept DEF creationVars, NoGapBelow
<1> QED
  BY <1>1, <1>2, <1>3, <1>4, <1>5, CommitInOrder, WithdrawInOrder DEF CreationNext

\* The inductive invariant: whoever counts for a reference holds the competition row, its
\* count is current, and the numbers of each user have no gap, in every reachable state.
LEMMA CreationInvariant == CreationSpec => []NumberingInv
<1>1. CreationInit => NumberingInv
  <2>1. CreationInit => NumbersInOrder /\ NoGapBelow
    BY DEF CreationInit, NumbersInOrder, NoGapBelow
  <2> QED
    BY <2>1, NoRowsYet DEF NumberingInv
<1>2. NumberingInv /\ [CreationNext]_creationVars => NumberingInv'
  BY LockInvStep, OrderStep DEF NumberingInv
<1> QED
  BY <1>1, <1>2, PTL DEF CreationSpec

\* A user's entries carry 1, 2, 3 ... in the order of their commits, for any number of
\* concurrent requests, although nothing locks the number between its query and the insert:
\* a stale number is always one the unique constraint rejects.
THEOREM NumbersFollowCommits == CreationSpec => []NumbersInOrder
<1>1. NumberingInv => NumbersInOrder
  BY DEF NumberingInv
<1> QED
  BY <1>1, CreationInvariant, PTL

\* The FOR UPDATE on the competition row does its work: no request ever finds its reference
\* taken when it inserts, so uq_entry_competition_reference never rejects an entry.
THEOREM ReferencesNeverClash == CreationSpec => []ReferenceNeverClashes
<1>1. NumberingInv => ReferenceNeverClashes
  <2> SUFFICES ASSUME NumberingInv, NEW r \in Requests, pc[r] = "referenced", NEW i \in DOMAIN entries
               PROVE  entries[i].reference # reference[r]
    BY DEF ReferenceNeverClashes, ReferenceTaken
  <2>1. entries[i].reference = i /\ reference[r] = Len(entries) + 1
    BY DEF NumberingInv, LockInv, ReferencesInOrder, ReferenceCurrent
  <2>2. i \in 1..Len(entries) /\ Len(entries) \in Nat
    BY DEF NumberingInv, LockInv, CreationTypeOK
  <2> QED
    BY <2>1, <2>2
<1> QED
  BY <1>1, CreationInvariant, PTL
=============================================================================
