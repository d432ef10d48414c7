---------------------------- MODULE MCLiveBoard ----------------------------
(***************************************************************************)
(* The readers of the board for TLC: the live projection with the audit,   *)
(* and the daily rows.  They share no state that a property reads, so a    *)
(* behaviour follows one of them: their states add up where a product      *)
(* would multiply them.                                                    *)
(***************************************************************************)
EXTENDS LiveBoard, DailySnapshots

MCResults == {<<0, 0>>, <<1, 0>>, <<1, 1>>}

VARIABLE part

readersVars == <<part, liveVars, snapshotVars>>

ReadersInit ==
    /\ part \in {"live", "daily"}
    /\ LiveInit /\ SnapshotInit
    /\ part = "live" => showing = <<>>   \* one start for the other part

ReadersNext ==
    \/ part = "live" /\ LiveNext /\ UNCHANGED <<part, snapshotVars>>
    \/ part = "daily" /\ SnapshotNext /\ UNCHANGED <<part, liveVars>>

ReadersSpec == ReadersInit /\ [][ReadersNext]_readersVars
=============================================================================
