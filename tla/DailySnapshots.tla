--------------------------- MODULE DailySnapshots ---------------------------
(***************************************************************************)
(* The daily rows of the board (services/snapshots.py).  The scheduler's   *)
(* tick takes whatever board calculate_leaderboard gives out, dates it     *)
(* afterwards, and inserts a row for every entry that has none of that     *)
(* date.  Boards change between and during the ticks: points are won and   *)
(* corrected, entries join and leave the field.  Which boards are given    *)
(* out when is LeaderboardCache's affair: here any follows any.            *)
(***************************************************************************)
EXTENDS Naturals, FiniteSets

CONSTANTS
    Players,       \* the entries that can be on a board
    Results,       \* what they can have: <<total points, exact scores>>
    MaxDay         \* bound: the dates 1..MaxDay

ASSUME FieldAssumption ==
    /\ IsFiniteSet(Players) /\ Results \subseteq Nat \X Nat /\ MaxDay \in Nat \ {0}

VARIABLES
    showing,       \* the board given out: entry -> its result, for those in it
    tick,          \* the tick under way: its board, and its date, 0 before it has one
    today,         \* the date, UTC
    daily          \* leaderboard_snapshots: date -> entry -> row, NoRow where there is none

snapshotVars == <<showing, tick, today, daily>>

-----------------------------------------------------------------------------
Rankings == UNION {[field -> Results] : field \in SUBSET Players}
Dates == 1..MaxDay

(* (total_points, exact_scores), compared in that order; equals share a    *)
(* place, and the next one is counted from all before it.                  *)
Beats(a, b) == a[1] > b[1] \/ (a[1] = b[1] /\ a[2] > b[2])
PlaceOn(b, e) == 1 + Cardinality({x \in DOMAIN b : Beats(b[x], b[e])})

(* A row, and for the properties the entries it was ranked beside.         *)
RowOf(b, e) == [position |-> PlaceOn(b, e), points |-> b[e][1], beside |-> DOMAIN b]
NoRow == [position |-> 0, points |-> 0, beside |-> {}]

NoTick == [stage |-> "idle", board |-> <<>>, date |-> 0]

SnapshotTypeOK ==
    /\ showing \in Rankings
    /\ tick.stage \in {"idle", "taken", "dated"}
    /\ tick.stage # "idle" => tick.board \in Rankings
    /\ tick.stage = "dated" => tick.date \in Dates
    /\ today \in Dates
    /\ daily \in [Dates -> [Players -> [position : Nat, points : Nat,
                                         beside : SUBSET Players]]]

SnapshotInit ==
    /\ showing \in Rankings
    /\ tick = NoTick /\ today = 1
    /\ daily = [d \in Dates |-> [e \in Players |-> NoRow]]

-----------------------------------------------------------------------------
(* The board moves: results, corrections, entries enabled and disabled.    *)
Show ==
    /\ showing' \in Rankings \ {showing}
    /\ UNCHANGED <<tick, today, daily>>

(* take_daily_snapshots: an empty board is not looked at further.          *)
TakeBoard ==
    /\ tick.stage = "idle" /\ DOMAIN showing # {}
    /\ tick' = [tick EXCEPT !.stage = "taken", !.board = showing]
    /\ UNCHANGED <<showing, today, daily>>

(* The date is asked for once the board is there.                          *)
DateRows ==
    /\ tick.stage = "taken"
    /\ tick' = [tick EXCEPT !.stage = "dated", !.date = today]
    /\ UNCHANGED <<showing, today, daily>>

(* ON CONFLICT DO NOTHING, entry by entry in one statement: who has a row  *)
(* of the date keeps it, and everyone else on the board gets one, or, when *)
(* the statement or its commit fails, nobody does.                         *)
MutantRowByRow(d, b) ==
    {[daily EXCEPT ![d] = [e \in Players |->
        IF e \in some /\ daily[d][e] = NoRow THEN RowOf(b, e) ELSE daily[d][e]]] :
        some \in SUBSET DOMAIN b}

Inserted(d, b) ==
    {daily, [daily EXCEPT ![d] = [e \in Players |->
        IF e \in DOMAIN b /\ daily[d][e] = NoRow THEN RowOf(b, e) ELSE daily[d][e]]]}

InsertRows ==
    /\ tick.stage = "dated"
    /\ daily' \in Inserted(tick.date, tick.board)
    /\ tick' = NoTick
    /\ UNCHANGED <<showing, today>>

(* A failed read, or a restart.                                            *)
LoseTick ==
    /\ tick.stage # "idle" /\ tick' = NoTick
    /\ UNCHANGED <<showing, today, daily>>

(* Midnight, whatever tick is under way.                                   *)
Midnight ==
    /\ today < MaxDay /\ today' = today + 1
    /\ UNCHANGED <<showing, tick, daily>>

SnapshotNext == Show \/ TakeBoard \/ DateRows \/ InsertRows \/ LoseTick \/ Midnight

SnapshotSpec == SnapshotInit /\ [][SnapshotNext]_snapshotVars

-----------------------------------------------------------------------------
Has(d, e) == daily[d][e] # NoRow

(* Whoever was ranked beside an entry with a row of a date has one too: no *)
(* day is kept by halves (snapshots.py 40-46, 65-72).                      *)
DayIsWhole ==
    \A d \in Dates : \A e \in Players :
        Has(d, e) => \A x \in daily[d][e].beside : Has(d, x)

(* Later ticks add rows of other boards to a date, for entries that joined *)
(* since.  Two entries that were each ranked beside the other never come   *)
(* from two boards: the one with more points has the better place.         *)
DayIsOneRanking ==
    \A d \in Dates : \A x, y \in Players :
        /\ Has(d, x) /\ Has(d, y)
        /\ x \in daily[d][y].beside /\ y \in daily[d][x].beside
        /\ daily[d][x].points > daily[d][y].points
        => daily[d][x].position < daily[d][y].position

(* A row, once written, stands (snapshots.py 5-9).                         *)
RowsStand == \A d \in Dates : \A e \in Players : Has(d, e) => daily'[d][e] = daily[d][e]

(* The rows of a date are whole, agree with each other wherever they were  *)
(* ranked together, and are never written again, whatever boards, ticks    *)
(* across midnight, failures and restarts follow.                          *)
SnapshotsStand == [][DayIsWhole' /\ DayIsOneRanking' /\ RowsStand]_snapshotVars
=============================================================================
