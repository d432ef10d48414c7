------------------------- MODULE EntryTransactions -------------------------
(***************************************************************************)
(* The entry handlers as database transactions.  Requests and the score    *)
(* scheduler share one event loop and every query is an await, so others   *)
(* commit between a handler's reads and its own commit.  Sessions are READ *)
(* COMMITTED, the entry is read without FOR UPDATE and its rows carry no   *)
(* version column: a commit writes the columns the handler changed over    *)
(* whatever is there by then.  create_entry runs in one step here          *)
(* (EntryCreation opens it up); a copy made by duplicate_entry is, for     *)
(* these races, an entry created and saved.  The settings, the paid flag   *)
(* and Phase 2 stay as they were.                                          *)
(***************************************************************************)
EXTENDS EntryHandlers

CONSTANTS
    Sessions    \* database sessions of concurrent requests

VARIABLES
    txn,        \* what each request's session has loaded and not yet committed
    flip        \* the drafts the scheduler has loaded and not yet flipped

vars == <<entryVars, txn, flip>>

-----------------------------------------------------------------------------

RequestOps == {"submit", "edit", "withdraw", "reinstate", "save", "adminWithdraw",
               "adminReinstate", "disable", "enable"}

Rows == [phase1 : Status, phase2 : Status, withdrawn : BOOLEAN, disabled : BOOLEAN]

\* `op` is what the session still has to do: a submit becomes "publish" once it has also
\* looked at the predictions.
\* `open` remembers whether the deadline was still ahead when it loaded.
Txn == [op : RequestOps \cup {"publish"}, entry : Entries, row : Rows, open : BOOLEAN]

Idle == [op |-> "idle"]

TypeOK ==
    /\ EntryTypeOK
    /\ txn \in [Sessions -> Txn \cup {Idle}]
    /\ flip \in SUBSET Entries

Init ==
    /\ EntryInit
    /\ txn = [s \in Sessions |-> Idle]
    /\ flip = {}

\* The checks a handler makes on the entry it has just loaded.
LoadAllowed(op, e) ==
    CASE op = "submit"         -> SubmitOpen(e)
      [] op = "edit"           -> EditAllowed(e)
      [] op = "withdraw"       -> WithdrawAllowed(e)
      [] op = "reinstate"      -> ReinstateAllowed(e)
      [] op = "save"           -> SaveAllowed(e)
      [] op = "adminWithdraw"  -> AdminWithdrawAllowed(e)
      [] op = "adminReinstate" -> AdminReinstateAllowed(e)
      [] op = "disable"        -> e \in Created /\ ~disabled[e]
      [] op = "enable"         -> e \in Created /\ disabled[e]

\* What its commit writes.
CommitWrites(op, e, row) ==
    CASE op = "publish"        -> SubmitWrites(e, row)
      [] op = "edit"           -> EditWrites(e, row)
      [] op = "withdraw"       -> WithdrawWrites(e, row)
      [] op = "reinstate"      -> ReinstateWrites(e, row)
      [] op = "save"           -> \E p \in Picks : SaveWrites(e, p)
      [] op = "adminWithdraw"  -> AdminWithdrawWrites(e, row)
      [] op = "adminReinstate" -> AdminReinstateWrites(e, row)
      [] op = "disable"        -> SetDisabled(e, TRUE)
      [] op = "enable"         -> SetDisabled(e, FALSE)

-----------------------------------------------------------------------------

Load(s, op, e) ==
    /\ txn[s] = Idle
    /\ LoadAllowed(op, e)
    /\ txn' = [txn EXCEPT ![s] = [op |-> op, entry |-> e, row |-> Row(e),
                                  open |-> ~past]]
    /\ UNCHANGED <<entryVars, flip>>

\* submit_entry's completeness and duplicate queries see the commits of their own moment;
\* either rejects the submission.
ReadPicks(s) ==
    /\ txn[s].op = "submit"
    /\ txn' = [txn EXCEPT ![s] = IF PicksAcceptable(txn[s].entry)
                                 THEN [txn[s] EXCEPT !.op = "publish"]
                                 ELSE Idle]
    /\ UNCHANGED <<entryVars, flip>>

Commit(s) ==
    /\ txn[s].op \notin {"idle", "submit"}
    /\ CommitWrites(txn[s].op, txn[s].entry, txn[s].row)
    /\ txn' = [txn EXCEPT ![s] = Idle]
    /\ UNCHANGED flip

\* The connection is lost or a later statement raises: the endpoint rolls back.
Abort(s) ==
    /\ txn[s] # Idle
    /\ txn' = [txn EXCEPT ![s] = Idle]
    /\ UNCHANGED <<entryVars, flip>>

\* flip_drafts_past_deadline: one query loads the drafts, one commit withdraws them.
FlipLoad ==
    /\ flip = {}
    /\ Flippable # {}
    /\ flip' = Flippable
    /\ UNCHANGED <<entryVars, txn>>

FlipCommit ==
    /\ flip # {}
    /\ FlipWrites(flip)
    /\ flip' = {}
    /\ UNCHANGED txn

\* A tick that raises is logged and rolled back; the loop goes on.
FlipFails ==
    /\ flip # {}
    /\ flip' = {}
    /\ UNCHANGED <<entryVars, txn>>

Create(e, u) ==
    /\ e \notin Created
    /\ CreateAllowed(u)
    /\ CreateWrites(e, u, Partial)
    /\ UNCHANGED <<txn, flip>>

RecordPayee(u) ==
    /\ SetPayee(u, u \notin payees)
    /\ UNCHANGED <<txn, flip>>

MoveDeadline ==
    /\ SetPast(~past)
    /\ UNCHANGED <<txn, flip>>

Next ==
    \/ \E s \in Sessions, op \in RequestOps, e \in Entries : Load(s, op, e)
    \/ \E s \in Sessions : ReadPicks(s)
    \/ \E s \in Sessions : Commit(s)
    \/ \E s \in Sessions : Abort(s)
    \/ FlipLoad
    \/ FlipCommit
    \/ FlipFails
    \/ \E e \in Entries, u \in Users : Create(e, u)
    \/ \E u \in Users : RecordPayee(u)
    \/ MoveDeadline

Spec == Init /\ [][Next]_vars

\* A request commits or is rolled back; the scheduler's tick comes every minute whatever
\* the ticks before it did, and does not fail every time.
FairSpec ==
    /\ Spec
    /\ \A s \in Sessions : WF_vars(ReadPicks(s) \/ Commit(s) \/ Abort(s))
    /\ WF_vars(FlipLoad)
    /\ SF_vars(FlipCommit)

-----------------------------------------------------------------------------
(***************************************************************************)
(* The inductive invariant, in parts.                                      *)
(***************************************************************************)

\* What is in flight works on rows that exist, a handler the deadline closes loaded its row
\* before it, and a save loaded a draft.
ClosedByDeadline == {"submit", "publish", "edit", "withdraw", "reinstate", "save"}

InFlightSound ==
    /\ \A s \in Sessions : txn[s] # Idle =>
          /\ txn[s].entry \in Created
          /\ txn[s].op \in ClosedByDeadline => txn[s].open
          /\ txn[s].op = "save" => txn[s].row.phase1 = "draft"
    /\ flip \subseteq Created

IInv == TypeOK /\ InFlightSound /\ BlankUnstamped

-----------------------------------------------------------------------------
(***************************************************************************)
(* Properties.                                                             *)
(***************************************************************************)

\* Whatever the interleaving, an entry joins the field after the deadline only by a commit
\* of an admin's, or of a request that passed its checks while the pool was open.
LateJoinersWereInTime ==
    [][past /\ past' =>
          \A e \in Entries : Competing(e)' /\ ~Competing(e) =>
              \E s \in Sessions :
                  /\ txn[s] # Idle
                  /\ txn[s].entry = e
                  /\ txn[s].open \/ txn[s].op \in {"adminReinstate", "enable"}]_vars

\* Whatever the interleaving, while Phase 2 is closed the predictions of an entry change only
\* by the commit of a save that read it as a draft before the deadline.  Such a save may
\* still land on picks a submission has made official meanwhile, never one that starts later.
PicksChangeFromDraft ==
    [][\A e \in Entries : e \in Created /\ picks'[e] # picks[e] =>
          \E s \in Sessions :
              /\ txn[s] # Idle
              /\ txn[s].op = "save" /\ txn[s].entry = e
              /\ txn[s].open /\ txn[s].row.phase1 = "draft"]_vars

\* The stamp and the status of a withdrawal part company only when a status-only write (a
\* submit or an edit) lands on a withdrawn entry, or a reinstatement of an entry already
\* torn is committed late: no withdrawal, flip or admin action tears an entry whatever it
\* races with.
Torn(e) == withdrawn[e] # (phase1[e] = "withdrawn")

OnlyStaleWritesTear ==
    [][\A e \in Entries : Torn(e)' /\ ~Torn(e) =>
          \E s \in Sessions :
              /\ txn[s] # Idle
              /\ txn[s].entry = e
              /\ \/ txn[s].op \in {"publish", "edit"} /\ withdrawn[e]
                 \/ txn[s].op = "reinstate" /\ txn[s].row.phase1 # "withdrawn"]_vars

\* Whatever requests are in flight when the deadline passes, and whatever ticks fail, once
\* it is past for good no entry stays a draft that has not been withdrawn.
NoDraftSurvives ==
    <>[]past => <>[](\A e \in Created : phase1[e] = "draft" => withdrawn[e])

\* WITHDRAWN is "non-terminal: admins can transition WITHDRAWN -> SUBMITTED"
\* (models/entry.py:54).  A submit that passes its checks before the deadline and commits
\* after the scheduler flipped its draft leaves status SUBMITTED under withdrawn_at: it
\* competes nowhere, and admin_reinstate_entry refuses the status.
WithdrawnIsReinstatable ==
    \A e \in Created : withdrawn[e] /\ ~disabled[e] => AdminReinstateAllowed(e)
=============================================================================
