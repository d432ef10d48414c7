----------------------------- MODULE ServedBoard -----------------------------
(***************************************************************************)
(* What the consumers of one leaderboard may rely on, however the board is *)
(* cached: the answers they are given for a key only move forward.  A      *)
(* board is computed from several queries, so an answer is the span of the *)
(* versions those queries saw; consecutive spans never straddle.           *)
(***************************************************************************)
EXTENDS Integers

CONSTANTS Keys, MaxVersion

VARIABLES
    db,      \* the newest committed version of the scoring inputs
    answer   \* the span of the last board served for each key

vars == <<db, answer>>

Init ==
    /\ db = 0
    /\ answer = [k \in Keys |-> [lo |-> 0, hi |-> 0]]

Commit ==
    /\ db < MaxVersion
    /\ db' = db + 1
    /\ UNCHANGED answer

Serve(k) ==
    /\ \E lo, hi \in 0..db :
          /\ answer[k].hi <= lo
          /\ lo <= hi
          /\ answer' = [answer EXCEPT ![k] = [lo |-> lo, hi |-> hi]]
    /\ UNCHANGED db

Next == Commit \/ \E k \in Keys : Serve(k)

Spec == Init /\ [][Next]_vars
=============================================================================
