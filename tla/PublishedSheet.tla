--------------------------- MODULE PublishedSheet ---------------------------
(***************************************************************************)
(* The public Google sheet (services/sheets_sync.py): after a tick of the  *)
(* score scheduler that moved a score, and once at startup, the rows of    *)
(* every tab are built one tab after another and then pushed, each tab     *)
(* cleared and filled by calls of their own that may fail.                 *)
(*                                                                         *)
(* The Predictions tab reads the database; Standings, Summary and History  *)
(* each ask the leaderboard for a board and get what its cache serves: the *)
(* board in hand, however old, while a refresh runs.  A version counts the *)
(* commits that move points.  What LeaderboardCache models of the cache is *)
(* kept to one build at a time and the two signals; the Rarity tab reads   *)
(* like Predictions, and Rules is constant.                                *)
(***************************************************************************)
EXTENDS Integers

CONSTANTS MaxVersion  \* bound: commits that move points

VARIABLES
    version,   \* the newest commit that moves points
    board,     \* _cache["phase_1"]: the version it shows, -1 without a board, and fresh or not
    building,  \* the version a refresh in flight has read, -1 without one
    push,      \* sync_to_sheets
    sheet,     \* each tab: the version it shows, or Absent, or Blank
    leftover   \* the empty Sheet1 Google creates is still there

sheetVars == <<version, board, building, push, sheet, leftover>>

-----------------------------------------------------------------------------
Tabs == <<"Standings", "Predictions", "Summary", "History">>
FromBoard == {1, 3, 4}
None == -1
Absent == -2
Blank == -3

\* at: the version committed when the push was decided on; cause: what its tick did; raced:
\* a refresh was in flight then; whole: the last push got through.
Idle(whole) ==
    [pc |-> "idle", tab |-> 1, rows |-> [t \in 1..4 |-> None], at |-> push.at,
     cause |-> push.cause, raced |-> push.raced, whole |-> whole]

SheetInit ==
    /\ version = 0
    /\ board = [shows |-> None, fresh |-> FALSE]
    /\ building = None
    /\ push = [pc |-> "idle", tab |-> 1, rows |-> [t \in 1..4 |-> None], at |-> 0,
               cause |-> "startup", raced |-> FALSE, whole |-> FALSE]
    /\ sheet = [t \in 1..4 |-> Absent]
    /\ leftover = TRUE

-----------------------------------------------------------------------------
(***************************************************************************)
(* The board.                                                              *)
(***************************************************************************)
Commit == version < MaxVersion /\ version' = version + 1

\* expire_cache, invalidate_cache.
Expired == [shows |-> board.shows, fresh |-> FALSE]
Dropped == [shows |-> None, fresh |-> FALSE]

\* The administrator's corrections and manual syncs signal the cache and push nothing; time
\* expires a board.
Correct ==
    /\ Commit /\ board' \in {Expired, Dropped}
    /\ UNCHANGED <<building, push, sheet, leftover>>

Age ==
    /\ board.fresh /\ board' = Expired
    /\ UNCHANGED <<version, building, push, sheet, leftover>>

\* Somebody opens the leaderboard, or the refresh somebody started runs.
Visit ==
    /\ ~board.fresh /\ building = None
    /\ building' = version
    /\ UNCHANGED <<version, board, push, sheet, leftover>>

BuildEnds ==
    /\ building # None
    /\ board' = [shows |-> building, fresh |-> TRUE]
    /\ building' = None
    /\ UNCHANGED <<version, push, sheet, leftover>>

-----------------------------------------------------------------------------
(***************************************************************************)
(* The tick and its push.                                                  *)
(***************************************************************************)

\* A live score moves no points and signals nothing, a group final expires, a knockout
\* final invalidates.
Signalled(cause) ==
    CASE cause = "paint" -> board [] cause = "group" -> Expired [] cause = "knockout" -> Dropped

BeginPush(cause, v) ==
    push' = [Idle(FALSE) EXCEPT !.pc = "read", !.at = v, !.cause = cause,
                                !.raced = building # None]

Startup ==
    /\ push.pc = "down"
    /\ BeginPush("startup", version)
    /\ UNCHANGED <<version, board, building, sheet, leftover>>

Tick(cause) ==
    /\ push.pc = "idle"
    /\ IF cause = "paint" THEN UNCHANGED version ELSE Commit
    /\ board' = Signalled(cause)
    /\ BeginPush(cause, version')
    /\ UNCHANGED <<building, sheet, leftover>>

\* calculate_leaderboard: the board in hand, with a refresh started when it is not fresh;
\* without one the caller builds, or waits for the build in flight.
ReadBoard(t) ==
    \/ /\ board.shows # None
       /\ push' = [push EXCEPT !.rows[t] = board.shows, !.tab = t + 1]
       /\ building' = IF board.fresh \/ building # None THEN building ELSE version
       /\ UNCHANGED board
    \/ /\ board.shows = None /\ building = None
       /\ push' = [push EXCEPT !.rows[t] = version, !.tab = t + 1]
       /\ board' = [shows |-> version, fresh |-> TRUE]
       /\ UNCHANGED building

\* build_combined_picks_points_rows goes to the tables.
ReadTables(t) ==
    /\ push' = [push EXCEPT !.rows[t] = version, !.tab = t + 1]
    /\ UNCHANGED <<board, building>>

ReadRows ==
    /\ push.pc = "read" /\ push.tab <= 4
    /\ IF push.tab \in FromBoard THEN ReadBoard(push.tab) ELSE ReadTables(push.tab)
    /\ UNCHANGED <<version, sheet, leftover>>

OpenSpreadsheet ==
    /\ push.pc = "read" /\ push.tab = 5
    /\ push' = [push EXCEPT !.pc = "clear", !.tab = 1]
    /\ UNCHANGED <<version, board, building, sheet, leftover>>

\* _write_worksheet: find and clear the tab or add it, then one update.
ClearTab ==
    /\ push.pc = "clear" /\ push.tab <= 4
    /\ sheet' = [sheet EXCEPT ![push.tab] = Blank]
    /\ push' = [push EXCEPT !.pc = "fill"]
    /\ UNCHANGED <<version, board, building, leftover>>

FillTab ==
    /\ push.pc = "fill"
    /\ sheet' = [sheet EXCEPT ![push.tab] = push.rows[push.tab]]
    /\ push' = [push EXCEPT !.pc = "clear", !.tab = @ + 1]
    /\ UNCHANGED <<version, board, building, leftover>>

\* The formatting, and _drop_obsolete_tabs, which tolerates its own failures.
EndPush ==
    /\ push.pc = "clear" /\ push.tab = 5
    /\ push' = Idle(TRUE)
    /\ leftover' \in {leftover, FALSE}
    /\ UNCHANGED <<version, board, building, sheet>>

\* A call to Google or a query fails.  A failure to find or resize an existing tab is taken
\* for its absence, and adding a title that exists fails too: the push ends either way, with
\* the tab as it is, and nothing tries again before the next score.
MutantGoesOn ==
    /\ push.pc = "fill"
    /\ push' = [push EXCEPT !.pc = "clear", !.tab = @ + 1]
    /\ UNCHANGED <<version, board, building, sheet, leftover>>

PushFails ==
    /\ push.pc \in {"read", "clear", "fill"}
    /\ push' = Idle(FALSE)
    /\ UNCHANGED <<version, board, building, sheet, leftover>>

\* The process stops anywhere; its board is gone, the sheet is Google's.
Crash ==
    /\ push.pc # "down"
    /\ push' = [Idle(FALSE) EXCEPT !.pc = "down"]
    /\ board' = Dropped
    /\ building' = None
    /\ UNCHANGED <<version, sheet, leftover>>

SheetNext ==
    \/ push.pc # "down" /\ (Correct \/ Age \/ Visit \/ BuildEnds)
    \/ \E cause \in {"paint", "group", "knockout"} : Tick(cause)
    \/ Startup \/ ReadRows \/ OpenSpreadsheet \/ ClearTab \/ FillTab \/ EndPush
    \/ PushFails \/ Crash

SheetSpec == SheetInit /\ [][SheetNext]_sheetVars

-----------------------------------------------------------------------------
(***************************************************************************)
(* Properties.                                                             *)
(***************************************************************************)
Published == push.pc = "idle" /\ push.whole

(* A push that got through leaves no blank tab and no tab of a push before *)
(* it; its tabs may show different boards, but only in one direction: a    *)
(* tab further right never shows an older one, and Predictions is never    *)
(* behind Standings.                                                       *)
TabsKeepOrder ==
    Published =>
        /\ \A t \in 1..4 : sheet[t] \in 0..version
        /\ \A t \in 2..4 : sheet[1] <= sheet[t]
        /\ sheet[3] <= sheet[4]

(* A knockout final is on the sheet when the push of its tick is over,     *)
(* unless a refresh of the board was in flight when the tick committed.    *)
KnockoutReachesSheet ==
    Published /\ push.cause = "knockout" /\ ~push.raced => sheet[1] >= push.at

(* "A score moved -> refresh the published Google Sheet so the online      *)
(* standings track within one tick" (score_scheduler.py:90).               *)
StandingsTrackScores ==
    Published /\ push.cause \in {"group", "knockout"} => sheet[1] >= push.at

-----------------------------------------------------------------------------
(***************************************************************************)
(* The inductive invariant: whatever the cache will serve until the        *)
(* process stops is at least what it served before.                        *)
(***************************************************************************)
Causes == {"startup", "paint", "group", "knockout"}
Push == [pc : {"idle", "read", "clear", "fill", "down"}, tab : 1..5,
         rows : [1..4 -> Nat \cup {None}], at : Nat, cause : Causes,
         raced : BOOLEAN, whole : BOOLEAN]

SheetTypeOK ==
    /\ version \in Nat
    /\ board \in [shows : Nat \cup {None}, fresh : BOOLEAN]
    /\ building \in Nat \cup {None}
    /\ push \in Push
    /\ sheet \in [1..4 -> Int]

AtLeast(x) ==
    /\ x <= version
    /\ board.shows # None => x <= board.shows
    /\ building # None => x <= building

\* How many rows a push holds.
Held ==
    CASE push.pc = "read" -> push.tab - 1 [] push.pc \in {"clear", "fill"} -> 4 [] OTHER -> 0

InOrder(rows, n) ==
    /\ \A t \in 1..n : rows[t] \in 0..version /\ rows[1] <= rows[t]
    /\ n = 4 => rows[3] <= rows[4]

SheetIInv ==
    /\ SheetTypeOK
    /\ board.shows <= version /\ building <= version
    /\ building # None => board.shows <= building
    /\ InOrder(push.rows, Held)
    /\ \A t \in 1..Held : t \in FromBoard => AtLeast(push.rows[t])
    /\ push.pc \in {"clear", "fill"} => \A t \in 1..(push.tab - 1) : sheet[t] = push.rows[t]
    /\ push.pc = "fill" => push.tab \in 1..4
    /\ Published => InOrder(sheet, 4)
    /\ push.cause = "knockout" /\ ~push.raced =>
          /\ AtLeast(push.at)
          /\ Held > 0 => push.rows[1] >= push.at
          /\ Published => sheet[1] >= push.at
=============================================================================
