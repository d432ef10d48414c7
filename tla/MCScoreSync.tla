---------------------------- MODULE MCScoreSync ----------------------------
(***************************************************************************)
(* ScoreSync twice: two concurrent calls on a group match, where every     *)
(* race is possible, or the scheduler's calls on a knockout match, where a *)
(* final may be deferred and fairness has something to bring about.        *)
(***************************************************************************)
EXTENDS ScoreSync

CONSTANTS Final, CupEdits, CupCorrections
VARIABLES cupStatus, cupScore, cupWorld, cupAge, cupSync
Cup == INSTANCE ScoreSync WITH
    Fixtures <- {Final}, Knockout <- {Final}, Syncs <- {Scheduler}, Edits <- CupEdits,
    Corrections <- CupCorrections,
    status <- cupStatus, score <- cupScore, world <- cupWorld, age <- cupAge, sync <- cupSync

VARIABLE part

cupVars == <<cupStatus, cupScore, cupWorld, cupAge, cupSync>>
allVars == <<part, vars, cupVars>>

InGroup(A) == part = "group" /\ A /\ UNCHANGED <<part, cupVars>>
InCup(A) == part = "cup" /\ A /\ UNCHANGED <<part, vars>>

\* TickFairness and FairSpec, for the knockout match.
CupFairness ==
    /\ WF_allVars(InCup(Cup!Begin(Scheduler)))
    /\ WF_allVars(InCup(\/ Cup!FindUnresolved(Scheduler) \/ Cup!Commit(Scheduler)
                        \/ Cup!Raise(Scheduler) \/ Cup!Signal(Scheduler)
                        \/ Cup!ApplyLive(Scheduler, Final) \/ Cup!Resolve(Scheduler, Final)))
    /\ SF_allVars(InCup(Cup!Commit(Scheduler)))
    /\ WF_allVars(InCup(Cup!TimePasses(Final)))
    /\ WF_allVars(InCup(Cup!Progress(Final)))

AllInit == part \in {"group", "cup"} /\ Init /\ Cup!Init
AllNext == InGroup(Next) \/ InCup(Cup!Next)
AllSpec == AllInit /\ [][AllNext]_allVars /\ CupFairness

-----------------------------------------------------------------------------
(* The knockout match: what a call knows of its row was true when it read  *)
(* it, its points reach the caches after the resolution pass too, and it   *)
(* does not stay LIVE for ever (ScoreSync!IInv, ScoreSync!PointsAreSignalled, *)
(* ScoreSync!NoMatchStaysLive).                                            *)
CupTieIsSettled == []Cup!IInv /\ Cup!PointsAreSignalled /\ Cup!NoMatchStaysLive
=============================================================================
