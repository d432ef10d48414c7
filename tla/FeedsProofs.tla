---------------------------- MODULE FeedsProofs ----------------------------
(***************************************************************************)
(* What holds of the feeds and of what is published for every number of    *)
(* fixtures, rounds of the market, commits and goals; and of the forecast  *)
(* for every bracket, pool and quote.                                      *)
(***************************************************************************)
EXTENDS MCFeeds, SumTheorems

(***************************************************************************)
(* The odds file.                                                          *)
(***************************************************************************)
(* Every step of the odds file and of the call that refreshes it keeps the *)
(* invariant.                                                              *)
LEMMA PricesStep == ASSUME Odds!OddsIInv, [Odds!OddsNext]_oddsVars PROVE Odds!OddsIInv'
<1> USE DEF Odds!OddsIInv, Odds!OddsTypeOK, Odds!Prices, Odds!Dropped, Odds!Unpriced
<1>0. Odds!NoCall = [pc |-> "idle", read |-> "file", current |-> Odds!Unpriced,
                     listed |-> {}, quoted |-> {}, merged |-> Odds!Unpriced]
      /\ Odds!Unpriced \in [Priced -> Nat]
  BY DEF Odds!NoCall
<1>1. CASE Odds!AskOdds
  <2>0. UNCHANGED <<round, file, state, temporary>> /\ call.pc = "idle"
    BY <1>1 DEF Odds!AskOdds
  <2>1. CASE call' = call
    BY <2>0, <2>1
  <2>2. CASE call' = [Odds!NoCall EXCEPT !.pc = "fetch", !.current = file]
    <3>1. call' = [pc |-> "fetch", read |-> "file", current |-> file,
                   listed |-> {}, quoted |-> {}, merged |-> Odds!Unpriced]
      BY <1>0, <2>2
    <3> QED
      BY <1>0, <2>0, <3>1
  <2>3. CASE call' = [Odds!NoCall EXCEPT !.pc = "fetch", !.read = "nothing"]
    <3>1. call' = [pc |-> "fetch", read |-> "nothing", current |-> Odds!Unpriced,
                   listed |-> {}, quoted |-> {}, merged |-> Odds!Unpriced]
      BY <1>0, <2>3
    <3> QED
      BY <1>0, <2>0, <3>1
  <2> QED
    BY <1>1, <2>1, <2>2, <2>3 DEF Odds!AskOdds
<1>2. CASE Odds!FetchFails \/ Odds!WriteFails \/ Odds!StopProcess
  <2>1. call' = Odds!NoCall /\ UNCHANGED <<round, file, state, temporary>>
    BY <1>2 DEF Odds!FetchFails, Odds!WriteFails, Odds!StopProcess
  <2> QED
    BY <1>0, <2>1
<1>3. CASE Odds!Fetch
  <2>0. call.pc = "fetch" /\ UNCHANGED <<round, file, state, temporary>>
    BY <1>3 DEF Odds!Fetch
  <2>1. PICK listed \in SUBSET Priced : \E quoted \in SUBSET listed :
          call' = [call EXCEPT !.pc = "write", !.listed = listed, !.quoted = quoted,
                               !.merged = Odds!Merged(call.current, listed, quoted)]
    BY <1>3 DEF Odds!Fetch
  <2>a. PICK quoted \in SUBSET listed :
          call' = [call EXCEPT !.pc = "write", !.listed = listed, !.quoted = quoted,
                               !.merged = Odds!Merged(call.current, listed, quoted)]
    BY <2>1
  <2> DEFINE merged == Odds!Merged(call.current, listed, quoted)
  <2>2. /\ merged \in [Priced -> Nat]
        /\ \A i \in Priced : merged[i] <= round
        /\ \A i \in Priced : \/ i \notin quoted /\ (i \in listed \/ call.read = "nothing")
                            \/ file[i] <= merged[i]
    BY <2>0 DEF Odds!Merged
  <2> HIDE DEF merged
  <2>3. call' = [pc |-> "write", read |-> call.read, current |-> call.current,
                 listed |-> listed, quoted |-> quoted, merged |-> merged]
    BY <2>a DEF merged
  <2> QED
    <3>1. call' \in [pc : {"idle", "fetch", "write", "rename"}, read : {"file", "nothing"},
                     current : [Priced -> Nat], listed : SUBSET Priced, quoted : SUBSET Priced,
                     merged : [Priced -> Nat]]
      BY <2>2, <2>3
    <3>2. /\ call'.pc = "write" /\ call'.read = call.read /\ call'.current = call.current
          /\ call'.listed = listed /\ call'.quoted = quoted /\ call'.merged = merged
      BY <2>3
    <3> QED
      BY <2>0, <2>2, <3>1, <3>2
<1>4. CASE Odds!WriteTemporary
  <2>1. call' = [pc |-> "rename", read |-> call.read, current |-> call.current,
                 listed |-> call.listed, quoted |-> call.quoted, merged |-> call.merged]
        /\ call.pc = "write" /\ temporary' = call.merged /\ UNCHANGED <<round, file, state>>
    BY <1>4 DEF Odds!WriteTemporary
  <2> QED
    BY <2>1
<1>5. CASE Odds!Rename
  <2>1. call' = Odds!NoCall /\ file' = call.merged /\ temporary' = temporary /\ round' = round
        /\ call.pc = "rename"
    BY <1>5 DEF Odds!Rename
  <2> QED
    BY <1>0, <2>1
<1>6. CASE Odds!MarketMoves
  BY <1>6 DEF Odds!MarketMoves
<1>7. CASE Odds!FourHours
  BY <1>7 DEF Odds!FourHours
<1>8. CASE UNCHANGED oddsVars
  BY <1>8 DEF oddsVars
<1> QED
  BY <1>1, <1>2, <1>3, <1>4, <1>5, <1>6, <1>7, <1>8 DEF Odds!OddsNext

(* What a call holds is never older than the file, but where it may be.    *)
LEMMA PricesInvariant == Odds!OddsSpec => []Odds!OddsIInv
<1>1. Odds!OddsInit => Odds!OddsIInv
  BY DEF Odds!OddsInit, Odds!OddsIInv, Odds!OddsTypeOK, Odds!Prices, Odds!NoCall, Odds!Unpriced,
         Odds!Dropped
<1> QED
  BY <1>1, PricesStep, PTL DEF Odds!OddsSpec, Odds!oddsVars, oddsVars

\* What PricesStay says of a step.
PriceKept ==
    /\ \A i \in Priced : Odds!Dropped(i) \/ file[i] <= file'[i]
    /\ served' # served /\ state # "absent" =>
          /\ served'.error => call.read = "nothing"
          /\ \A i \in Priced : Odds!Dropped(i) \/ file[i] <= served'.quotes[i]

(* No step takes a known price away, and none answers with an older one.   *)
LEMMA PricesKept == ASSUME Odds!OddsIInv, [Odds!OddsNext]_oddsVars PROVE [PriceKept]_oddsVars
<1> USE DEF Odds!OddsIInv, Odds!OddsTypeOK, Odds!Prices
<1>1. \A q : ~Odds!Answer(q).error /\ Odds!Answer(q).quotes = q
  BY DEF Odds!Answer
<1>2. CASE Odds!AskOdds
  BY <1>1, <1>2 DEF Odds!AskOdds, PriceKept
<1>3. CASE Odds!FetchFails
  <2>1. CASE call.read = "nothing"
    BY <1>3, <2>1 DEF Odds!FetchFails, PriceKept, Odds!Dropped, Odds!Fault
  <2>2. CASE call.read = "file"
    <3>1. served' = Odds!Answer(file) /\ file' = file
      BY <1>3, <2>2 DEF Odds!FetchFails
    <3> QED
      BY <1>1, <3>1 DEF PriceKept
  <2> QED
    BY <2>1, <2>2
<1>4. CASE Odds!WriteFails \/ Odds!Rename
  <2>1. /\ served' = Odds!Answer(call.merged)
        /\ file' = file \/ file' = call.merged
        /\ call.pc \in {"write", "rename"}
    BY <1>4 DEF Odds!WriteFails, Odds!Rename
  <2> QED
    BY <1>1, <2>1 DEF PriceKept
<1>5. CASE UNCHANGED <<file, served>>
  BY <1>5 DEF PriceKept
<1> QED
  BY <1>2, <1>3, <1>4, <1>5
     DEF Odds!OddsNext, Odds!Fetch, Odds!WriteTemporary, Odds!MarketMoves, Odds!FourHours,
         Odds!StopProcess

(* No failure, short list or crash loses a known price: one goes only with *)
(* a file that cannot be read or with a fixture listed without bookmakers  *)
(* (odds_cache.py, _read_cache, _merge_matches and _write_atomic).         *)
THEOREM PricesAreKept == Odds!OddsSpec => PricesStay
<1>1. Odds!OddsIInv /\ [Odds!OddsNext]_oddsVars => [PriceKept]_oddsVars
  BY PricesKept
<1>2. Odds!OddsSpec => [][PriceKept]_oddsVars
  BY <1>1, PricesInvariant, PTL DEF Odds!OddsSpec, Odds!oddsVars, oddsVars
<1> QED
  BY <1>2 DEF PricesStay, Odds!PricesStay, PriceKept, Odds!oddsVars, oddsVars

(***************************************************************************)
(* The published sheet.                                                    *)
(***************************************************************************)

(* What a board served from now on shows is at least what was served       *)
(* before.                                                                 *)
LEMMA ServedForward ==
    ASSUME Sheet!SheetIInv, [Sheet!SheetNext]_sheetVars, NEW x \in Nat, Sheet!AtLeast(x)
    PROVE  Sheet!AtLeast(x)'
<1> USE DEF Sheet!SheetIInv, Sheet!SheetTypeOK, Sheet!AtLeast, Sheet!None
<1>1. Sheet!Expired.shows = board.shows /\ Sheet!Dropped.shows = Sheet!None
  BY DEF Sheet!Expired, Sheet!Dropped
<1>2. CASE Sheet!Correct
  BY <1>1, <1>2 DEF Sheet!Correct, Sheet!Commit
<1>3. CASE Sheet!Age \/ Sheet!Visit \/ Sheet!BuildEnds
  BY <1>1, <1>3 DEF Sheet!Age, Sheet!Visit, Sheet!BuildEnds
<1>4. ASSUME NEW cause \in {"paint", "group", "knockout"}, Sheet!Tick(cause) PROVE Sheet!AtLeast(x)'
  BY <1>1, <1>4 DEF Sheet!Tick, Sheet!Commit, Sheet!Signalled
<1>5. CASE Sheet!ReadRows
  <2>1. version' = version
    BY <1>5 DEF Sheet!ReadRows
  <2>2. \/ board' = board /\ building' \in {building, version}
        \/ board' = [shows |-> version, fresh |-> TRUE] /\ building' = building
    BY <1>5 DEF Sheet!ReadRows, Sheet!ReadBoard, Sheet!ReadTables
  <2> QED
    BY <2>1, <2>2
<1>6. CASE Sheet!Crash
  BY <1>1, <1>6 DEF Sheet!Crash
<1>7. CASE UNCHANGED <<version, board, building>>
  BY <1>7
<1> QED
  BY <1>2, <1>3, <1>4, <1>5, <1>6, <1>7
     DEF Sheet!SheetNext, Sheet!Startup, Sheet!OpenSpreadsheet, Sheet!ClearTab, Sheet!FillTab,
         Sheet!EndPush, Sheet!PushFails, sheetVars

(* The board and its refresh keep their types and their order.             *)
LEMMA BoardStep ==
    ASSUME Sheet!SheetIInv, [Sheet!SheetNext]_sheetVars
    PROVE  /\ version' \in Nat /\ version <= version'
           /\ board' \in [shows : Nat \cup {Sheet!None}, fresh : BOOLEAN]
           /\ building' \in Nat \cup {Sheet!None}
           /\ board'.shows <= version' /\ building' <= version'
           /\ building' # Sheet!None => board'.shows <= building'
<1> DEFINE Boards == [shows : Nat \cup {Sheet!None}, fresh : BOOLEAN]
<1>0. /\ version \in Nat /\ building \in Nat \cup {Sheet!None} /\ board \in Boards
      /\ board.shows \in Nat \cup {Sheet!None}
      /\ board.shows <= version /\ building <= version
      /\ building # Sheet!None => board.shows <= building
      /\ Sheet!None = -1
  BY DEF Sheet!SheetIInv, Sheet!SheetTypeOK, Sheet!None
<1>1. /\ Sheet!Expired.shows = board.shows /\ Sheet!Dropped.shows = Sheet!None
      /\ Sheet!Expired \in Boards /\ Sheet!Dropped \in Boards
  BY Zenon, <1>0 DEF Sheet!Expired, Sheet!Dropped
<1>2. \A n \in Nat : /\ [shows |-> n, fresh |-> TRUE] \in Boards
                     /\ [shows |-> n, fresh |-> TRUE].shows = n
  OBVIOUS
<1> HIDE DEF Boards
<1>3. CASE /\ version' \in Nat /\ version <= version'
           /\ board' \in {board, Sheet!Expired, Sheet!Dropped}
           /\ building' = building
  BY <1>0, <1>1, <1>3 DEF Boards
<1>4. CASE version' = version /\ board' = board /\ building' \in {building, version}
  BY <1>0, <1>4 DEF Boards
<1>5. CASE /\ version' = version /\ building' = Sheet!None
           /\ \/ board' = [shows |-> version, fresh |-> TRUE]
              \/ building # Sheet!None /\ board' = [shows |-> building, fresh |-> TRUE]
              \/ board' = Sheet!Dropped
  <2>1. board' \in Boards /\ board'.shows \in {version, building, Sheet!None}
    BY <1>0, <1>1, <1>2, <1>5
  <2> QED
    BY <1>0, <1>5, <2>1 DEF Boards
<1>6. CASE Sheet!Correct
  BY <1>0, <1>3, <1>6 DEF Sheet!Correct, Sheet!Commit
<1>7. ASSUME NEW cause \in {"paint", "group", "knockout"}, Sheet!Tick(cause)
      PROVE  /\ version' \in Nat /\ version <= version' /\ building' = building
             /\ board' \in {board, Sheet!Expired, Sheet!Dropped}
  BY <1>0, <1>7 DEF Sheet!Tick, Sheet!Commit, Sheet!Signalled
<1>8. CASE Sheet!Age \/ Sheet!Visit \/ Sheet!BuildEnds
  BY <1>0, <1>3, <1>4, <1>5, <1>8 DEF Sheet!Age, Sheet!Visit, Sheet!BuildEnds
<1>9. CASE Sheet!ReadRows
  BY <1>4, <1>5, <1>9 DEF Sheet!ReadRows, Sheet!ReadBoard, Sheet!ReadTables
<1>10. CASE Sheet!Crash
  BY <1>5, <1>10 DEF Sheet!Crash
<1>11. CASE UNCHANGED <<version, board, building>>
  BY <1>4, <1>11
<1> QED
  BY <1>3, <1>6, <1>7, <1>8, <1>9, <1>10, <1>11
     DEF Sheet!SheetNext, Sheet!Startup, Sheet!OpenSpreadsheet, Sheet!ClearTab, Sheet!FillTab,
         Sheet!EndPush, Sheet!PushFails, sheetVars

(* A row read is the only thing of a push that changes, with its tab.      *)
LEMMA RowTaken ==
    ASSUME push \in Sheet!Push, NEW t \in 1..4, NEW r \in Nat \cup {Sheet!None},
           push' = [push EXCEPT !.rows[t] = r, !.tab = t + 1]
    PROVE  /\ push' \in Sheet!Push
           /\ push'.pc = push.pc /\ push'.tab = t + 1
           /\ push'.rows = [push.rows EXCEPT ![t] = r]
           /\ push'.at = push.at /\ push'.cause = push.cause
           /\ push'.raced = push.raced /\ push'.whole = push.whole
<1>1. push' = [pc |-> push.pc, tab |-> t + 1, rows |-> [push.rows EXCEPT ![t] = r],
               at |-> push.at, cause |-> push.cause, raced |-> push.raced, whole |-> push.whole]
  BY DEF Sheet!Push
<1>2. /\ push.pc \in {"idle", "read", "clear", "fill", "down"} /\ t + 1 \in 1..5
      /\ [push.rows EXCEPT ![t] = r] \in [1..4 -> Nat \cup {Sheet!None}]
      /\ push.at \in Nat /\ push.cause \in Sheet!Causes
  BY DEF Sheet!Push
<1>3. push.raced \in BOOLEAN /\ push.whole \in BOOLEAN
  BY Zenon DEF Sheet!Push
<1> HIDE DEF Sheet!Push
<1>4. push' \in Sheet!Push
  BY Zenon, <1>1, <1>2, <1>3 DEF Sheet!Push
<1> QED
  BY Zenon, <1>1, <1>4

(* A push that has ended holds no rows and remembers why it ran.           *)
LEMMA IdlePush ==
    ASSUME push \in Sheet!Push, NEW whole \in BOOLEAN
    PROVE  /\ Sheet!Idle(whole) \in Sheet!Push
           /\ Sheet!Idle(whole).pc = "idle" /\ Sheet!Idle(whole).whole = whole
           /\ Sheet!Idle(whole).at = push.at /\ Sheet!Idle(whole).cause = push.cause
           /\ Sheet!Idle(whole).raced = push.raced
           /\ Sheet!Idle(whole).rows = [t \in 1..4 |-> Sheet!None]
<1>1. /\ 1 \in 1..5 /\ push.at \in Nat /\ push.cause \in Sheet!Causes
      /\ [t \in 1..4 |-> Sheet!None] \in [1..4 -> Nat \cup {Sheet!None}]
  BY DEF Sheet!Push
<1>2. push.raced \in BOOLEAN
  BY Zenon DEF Sheet!Push
<1>3. Sheet!Idle(whole) \in Sheet!Push
  BY Zenon, <1>1, <1>2 DEF Sheet!Push, Sheet!Idle
<1> QED
  BY Zenon, <1>3 DEF Sheet!Idle

(* A push that goes on keeps its rows and why it runs.                     *)
LEMMA PushMoved ==
    ASSUME push \in Sheet!Push, NEW p \in {"read", "clear", "fill"}, NEW k \in 1..5,
           \/ push' = [push EXCEPT !.pc = p, !.tab = k]
           \/ push' = [push EXCEPT !.pc = p] /\ k = push.tab
    PROVE  /\ push' \in Sheet!Push
           /\ push'.pc = p /\ push'.tab = k /\ push'.rows = push.rows
           /\ push'.at = push.at /\ push'.cause = push.cause /\ push'.raced = push.raced
<1>1. push' = [pc |-> p, tab |-> k, rows |-> push.rows, at |-> push.at, cause |-> push.cause,
               raced |-> push.raced, whole |-> push.whole]
  BY DEF Sheet!Push
<1>2. /\ push.rows \in [1..4 -> Nat \cup {Sheet!None}] /\ push.at \in Nat
      /\ push.cause \in Sheet!Causes
  BY DEF Sheet!Push
<1>3. push.raced \in BOOLEAN /\ push.whole \in BOOLEAN
  BY Zenon DEF Sheet!Push
<1>4. p \in {"idle", "read", "clear", "fill", "down"}
  OBVIOUS
<1>5. push' \in Sheet!Push
  BY Zenon, <1>1, <1>2, <1>3, <1>4 DEF Sheet!Push
<1> QED
  BY Zenon, <1>1, <1>5

(* A push that begins has read nothing.                                    *)
LEMMA PushBegun ==
    ASSUME push \in Sheet!Push, NEW v \in Nat, NEW cause \in Sheet!Causes,
           Sheet!BeginPush(cause, v)
    PROVE  /\ push' \in Sheet!Push
           /\ push'.pc = "read" /\ push'.tab = 1
           /\ push'.at = v /\ push'.cause = cause /\ push'.raced = (building # Sheet!None)
<1> DEFINE overlaps == building # Sheet!None
<1>1. push' = [Sheet!Idle(FALSE) EXCEPT !.pc = "read", !.at = v, !.cause = cause,
                                        !.raced = overlaps]
  BY DEF Sheet!BeginPush
<1>2. overlaps \in BOOLEAN
  OBVIOUS
<1> HIDE DEF overlaps
<1>3. push' = [pc |-> "read", tab |-> 1, rows |-> [t \in 1..4 |-> Sheet!None], at |-> v,
               cause |-> cause, raced |-> overlaps, whole |-> FALSE]
  BY Zenon, <1>1 DEF Sheet!Idle
<1>4. /\ "read" \in {"idle", "read", "clear", "fill", "down"} /\ 1 \in 1..5
      /\ [t \in 1..4 |-> Sheet!None] \in [1..4 -> Nat \cup {Sheet!None}]
  OBVIOUS
<1>5. push' \in Sheet!Push
  BY Zenon, <1>2, <1>3, <1>4 DEF Sheet!Push
<1> QED
  BY Zenon, <1>3, <1>5 DEF overlaps

(* The push of a process that stops.                                       *)
LEMMA PushGone ==
    ASSUME push \in Sheet!Push, NEW gone, gone = [Sheet!Idle(FALSE) EXCEPT !.pc = "down"]
    PROVE  /\ gone \in Sheet!Push /\ gone.pc = "down"
           /\ gone.at = push.at /\ gone.cause = push.cause /\ gone.raced = push.raced
<1> DEFINE g == [pc |-> "down", tab |-> 1, rows |-> [t \in 1..4 |-> Sheet!None],
                 at |-> push.at, cause |-> push.cause, raced |-> push.raced, whole |-> FALSE]
<1>1. gone = g
  BY Zenon DEF Sheet!Idle
<1>2. /\ "down" \in {"idle", "read", "clear", "fill", "down"} /\ 1 \in 1..5
      /\ [t \in 1..4 |-> Sheet!None] \in [1..4 -> Nat \cup {Sheet!None}]
      /\ push.at \in Nat /\ push.cause \in Sheet!Causes
  BY DEF Sheet!Push
<1>3. push.raced \in BOOLEAN
  BY Zenon DEF Sheet!Push
<1>4. g \in Sheet!Push
  BY Zenon, <1>2, <1>3 DEF Sheet!Push
<1>5. g.pc = "down" /\ g.at = push.at /\ g.cause = push.cause /\ g.raced = push.raced
  OBVIOUS
<1> HIDE DEF g
<1> QED
  BY ONLY <1>1, <1>4, <1>5

(* Every step of the board, of the push and of the sheet keeps the         *)
(* invariant.                                                              *)
LEMMA SheetStep == ASSUME Sheet!SheetIInv, [Sheet!SheetNext]_sheetVars PROVE Sheet!SheetIInv'
<1>0. /\ version \in Nat /\ push \in Sheet!Push /\ sheet \in [1..4 -> Int]
      /\ push.pc \in {"idle", "read", "clear", "fill", "down"} /\ push.tab \in 1..5
      /\ push.rows \in [1..4 -> Nat \cup {Sheet!None}] /\ push.at \in Nat
      /\ Sheet!None = -1 /\ Sheet!Blank = -3 /\ Sheet!Held \in 0..4
      /\ building \in Nat \cup {Sheet!None} /\ board.shows \in Nat \cup {Sheet!None}
      /\ board.shows <= version /\ building <= version
      /\ building # Sheet!None => board.shows <= building
  BY DEF Sheet!SheetIInv, Sheet!SheetTypeOK, Sheet!Push, Sheet!None, Sheet!Blank, Sheet!Held
<1>1. /\ version' \in Nat /\ version <= version'
      /\ board' \in [shows : Nat \cup {Sheet!None}, fresh : BOOLEAN]
      /\ building' \in Nat \cup {Sheet!None}
      /\ board'.shows <= version' /\ building' <= version'
      /\ building' # Sheet!None => board'.shows <= building'
  BY BoardStep
<1>2. \A x \in Nat : Sheet!AtLeast(x) => Sheet!AtLeast(x)'
  BY ServedForward
<1>3. /\ Sheet!InOrder(push.rows, Sheet!Held)
      /\ \A t \in 1..Sheet!Held : t \in Sheet!FromBoard => Sheet!AtLeast(push.rows[t])
      /\ push.pc \in {"clear", "fill"} => \A t \in 1..(push.tab - 1) : sheet[t] = push.rows[t]
      /\ push.pc = "fill" => push.tab \in 1..4
      /\ Sheet!Published => Sheet!InOrder(sheet, 4)
      /\ push.cause = "knockout" /\ ~push.raced =>
            /\ Sheet!AtLeast(push.at)
            /\ Sheet!Held > 0 => push.rows[1] >= push.at
            /\ Sheet!Published => sheet[1] >= push.at
  BY DEF Sheet!SheetIInv
<1> DEFINE Goes ==
      /\ push' \in Sheet!Push /\ sheet' \in [1..4 -> Int]
      /\ Sheet!InOrder(push.rows, Sheet!Held)'
      /\ (\A t \in 1..Sheet!Held : t \in Sheet!FromBoard => Sheet!AtLeast(push.rows[t]))'
      /\ push'.pc \in {"clear", "fill"} => \A t \in 1..(push'.tab - 1) : sheet'[t] = push'.rows[t]
      /\ push'.pc = "fill" => push'.tab \in 1..4
      /\ Sheet!Published' => Sheet!InOrder(sheet, 4)'
      /\ push'.cause = "knockout" /\ ~push'.raced =>
            /\ Sheet!AtLeast(push.at)'
            /\ Sheet!Held' > 0 => push'.rows[1] >= push'.at
            /\ Sheet!Published' => sheet'[1] >= push'.at
<1> SUFFICES Goes
  BY <1>1 DEF Sheet!SheetIInv, Sheet!SheetTypeOK, Sheet!None
<1>4. \A t \in 1..Sheet!Held : push.rows[t] \in Nat
  BY <1>0, <1>3 DEF Sheet!InOrder
\* The rows held by a push that goes on with them.
<1>5. ASSUME push'.rows = push.rows, push'.at = push.at, push'.cause = push.cause,
             push'.raced = push.raced, Sheet!Held' = Sheet!Held
      PROVE  /\ Sheet!InOrder(push.rows, Sheet!Held)'
             /\ (\A t \in 1..Sheet!Held : t \in Sheet!FromBoard => Sheet!AtLeast(push.rows[t]))'
             /\ push'.cause = "knockout" /\ ~push'.raced =>
                   Sheet!AtLeast(push.at)' /\ (Sheet!Held' > 0 => push'.rows[1] >= push'.at)
  <2>1. Sheet!InOrder(push.rows, Sheet!Held)'
    BY <1>0, <1>1, <1>3, <1>5 DEF Sheet!InOrder
  <2>2. ASSUME NEW t \in 1..Sheet!Held, t \in Sheet!FromBoard PROVE Sheet!AtLeast(push.rows[t])'
    <3> DEFINE x == push.rows[t]
    <3>1. x \in Nat /\ Sheet!AtLeast(x)
      BY <1>3, <1>4, <2>2
    <3>2. push'.rows[t] = x
      BY <1>5
    <3> QED
      BY <1>2, <3>1, <3>2 DEF Sheet!AtLeast
  <2>3. ASSUME push.cause = "knockout", ~push.raced PROVE Sheet!AtLeast(push.at)'
    BY <1>0, <1>2, <1>3, <1>5, <2>3 DEF Sheet!AtLeast
  <2> QED
    BY <1>3, <1>5, <2>1, <2>2, <2>3 DEF Sheet!FromBoard
<1>6. CASE UNCHANGED <<push, sheet>>
  <2>1. Sheet!Held' = Sheet!Held /\ (Sheet!Published' <=> Sheet!Published)
    BY <1>6 DEF Sheet!Held, Sheet!Published
  <2>2. Sheet!InOrder(sheet, 4) => Sheet!InOrder(sheet, 4)'
    BY <1>0, <1>1, <1>6 DEF Sheet!InOrder
  <2> QED
    BY <1>0, <1>3, <1>5, <1>6, <2>1, <2>2
\* No push, or one that has read nothing yet.
<1>7. ASSUME push' \in Sheet!Push, UNCHANGED sheet, push'.pc \in {"idle", "read", "down"},
             Sheet!Held' = 0, ~Sheet!Published',
             push'.cause = "knockout" /\ ~push'.raced => Sheet!AtLeast(push.at)'
      PROVE  Goes
  BY <1>0, <1>1, <1>7 DEF Sheet!InOrder
<1>8. CASE push.pc # "down" /\ (Sheet!Correct \/ Sheet!Age \/ Sheet!Visit \/ Sheet!BuildEnds)
  BY <1>6, <1>8 DEF Sheet!Correct, Sheet!Age, Sheet!Visit, Sheet!BuildEnds
<1>9. ASSUME NEW cause \in {"paint", "group", "knockout"}, Sheet!Tick(cause)
      PROVE  Goes
  <2>1. Sheet!BeginPush(cause, version') /\ UNCHANGED <<sheet, building>>
    BY <1>9 DEF Sheet!Tick
  <2>2. /\ push' \in Sheet!Push /\ push'.pc = "read" /\ push'.tab = 1
        /\ push'.at = version' /\ push'.cause = cause /\ push'.raced = (building # Sheet!None)
    BY <1>0, <1>1, <2>1, PushBegun DEF Sheet!Causes
  <2>3. Sheet!Held' = 0 /\ ~Sheet!Published'
    BY <2>2 DEF Sheet!Held, Sheet!Published
  <2>4. ASSUME push'.cause = "knockout", ~push'.raced PROVE Sheet!AtLeast(push.at)'
    <3>1. board' = Sheet!Dropped /\ building' = Sheet!None
      BY <1>9, <2>1, <2>2, <2>4 DEF Sheet!Tick, Sheet!Signalled
    <3> QED
      BY <1>1, <2>2, <3>1 DEF Sheet!AtLeast, Sheet!Dropped
  <2> QED
    BY <1>7, <2>1, <2>2, <2>3, <2>4
<1>10. CASE Sheet!Startup
  <2>1. Sheet!BeginPush("startup", version) /\ UNCHANGED <<sheet, building>>
    BY <1>10 DEF Sheet!Startup
  <2>2. push' \in Sheet!Push /\ push'.pc = "read" /\ push'.tab = 1 /\ push'.cause = "startup"
    BY <1>0, <2>1, PushBegun DEF Sheet!Causes
  <2>3. Sheet!Held' = 0 /\ ~Sheet!Published'
    BY <2>2 DEF Sheet!Held, Sheet!Published
  <2> QED
    BY <1>7, <2>1, <2>2, <2>3
<1>11. CASE Sheet!ReadRows
  <2> PICK t : t = push.tab
    OBVIOUS
  <2> PICK r : r = IF t \in Sheet!FromBoard /\ board.shows # Sheet!None THEN board.shows ELSE version
    OBVIOUS
  <2>0. t \in 1..4 /\ r \in Nat /\ r \in {board.shows, version}
        /\ (t \notin Sheet!FromBoard => r = version)
    BY <1>0, <1>11 DEF Sheet!ReadRows
  <2>1. /\ push' = [push EXCEPT !.rows[t] = r, !.tab = t + 1]
        /\ t \in Sheet!FromBoard =>
              \/ r = board.shows /\ board' = board /\ building' \in {building, version}
              \/ board.shows = Sheet!None /\ r = version /\ building = Sheet!None
                 /\ building' = building /\ board' = [shows |-> version, fresh |-> TRUE]
    <3>1. CASE t \in Sheet!FromBoard
      BY <1>0, <1>11, <3>1 DEF Sheet!ReadRows, Sheet!ReadBoard
    <3>2. CASE t \notin Sheet!FromBoard
      BY <1>0, <1>11, <3>2 DEF Sheet!ReadRows, Sheet!ReadTables
    <3> QED
      BY <3>1, <3>2
  <2>2. push.pc = "read" /\ version' = version /\ UNCHANGED sheet
    BY <1>11 DEF Sheet!ReadRows
  <2>3. /\ push' \in Sheet!Push
        /\ push'.pc = "read" /\ push'.tab = t + 1
        /\ push'.rows = [push.rows EXCEPT ![t] = r]
        /\ push'.at = push.at /\ push'.cause = push.cause /\ push'.raced = push.raced
    <3>1. push' = [push EXCEPT !.rows[t] = r, !.tab = t + 1]
      BY <2>1
    <3>2. push \in Sheet!Push /\ t \in 1..4 /\ r \in Nat \cup {Sheet!None}
      BY <1>0, <2>0
    <3>3. push.pc = "read"
      BY <2>2
    <3> QED
      BY ONLY <3>1, <3>2, <3>3, RowTaken
  <2>4. Sheet!Held = t - 1 /\ Sheet!Held' = t /\ ~Sheet!Published'
    BY <2>0, <2>1, <2>2, <2>3 DEF Sheet!Held, Sheet!Published
  <2>5. /\ push'.rows[t] = r
        /\ \A u \in 1..(t - 1) : push'.rows[u] = push.rows[u] /\ push.rows[u] \in Nat
    <3>1. push'.rows[t] = r
      BY <1>0, <2>0, <2>3
    <3>2. ASSUME NEW u \in 1..(t - 1) PROVE push'.rows[u] = push.rows[u] /\ push.rows[u] \in Nat
      BY <1>0, <1>4, <2>0, <2>3, <2>4
    <3> QED
      BY <3>1, <3>2
  <2>6. t \in Sheet!FromBoard => Sheet!AtLeast(r)'
    BY <1>0, <1>1, <2>0, <2>1, <2>2 DEF Sheet!AtLeast, Sheet!None
  <2>7. ASSUME NEW x \in Nat, Sheet!AtLeast(x) PROVE x <= r
    BY <1>0, <2>0, <2>1, <2>7 DEF Sheet!AtLeast, Sheet!FromBoard
  <2>8. \A u \in 1..(t - 1) : u \in Sheet!FromBoard => push.rows[u] <= r
    BY <1>3, <2>4, <2>5, <2>7
  <2>9. Sheet!InOrder(push.rows, Sheet!Held)'
    <3>1. r \in 0..version' /\ push'.rows[1] <= r
      BY <1>0, <2>0, <2>1, <2>2, <2>5, <2>8 DEF Sheet!FromBoard
    <3>2. \A u \in 1..(t - 1) : push.rows[u] \in 0..version /\ push.rows[1] <= push.rows[u]
      BY <1>3, <2>4 DEF Sheet!InOrder
    <3>3. t = 4 => push'.rows[3] <= push'.rows[4]
      BY <2>5, <2>8 DEF Sheet!FromBoard
    <3> QED
      BY <2>0, <2>1, <2>2, <2>4, <2>5, <3>1, <3>2, <3>3 DEF Sheet!InOrder
  <2>10. (\A u \in 1..Sheet!Held : u \in Sheet!FromBoard => Sheet!AtLeast(push.rows[u]))'
    <3>1. ASSUME NEW u \in 1..t, u \in Sheet!FromBoard PROVE Sheet!AtLeast(push.rows[u])'
      <4>1. CASE u = t
        BY <2>5, <2>6, <3>1, <4>1 DEF Sheet!AtLeast
      <4>2. CASE u # t
        <5> DEFINE x == push.rows[u]
        <5>1. x \in Nat /\ Sheet!AtLeast(x) /\ push'.rows[u] = x
          BY <1>3, <2>0, <2>1, <2>4, <2>5, <3>1, <4>2
        <5> QED
          BY <1>2, <5>1 DEF Sheet!AtLeast
      <4> QED
        BY <4>1, <4>2
    <3> QED
      BY <2>4, <3>1
  <2>11. ASSUME push'.cause = "knockout", ~push'.raced
         PROVE  Sheet!AtLeast(push.at)' /\ (Sheet!Held' > 0 => push'.rows[1] >= push'.at)
    <3>1. Sheet!AtLeast(push.at) /\ Sheet!AtLeast(push.at)'
      BY <1>0, <1>2, <1>3, <2>3, <2>11 DEF Sheet!AtLeast
    <3>2. CASE t = 1
      <4>1. push.at <= r
        BY <1>0, <2>7, <3>1
      <4> QED
        BY <1>0, <2>0, <2>3, <2>5, <3>1, <3>2, <4>1
    <3>3. CASE t # 1
      <4>1. push.rows[1] >= push.at
        BY <1>3, <2>0, <2>3, <2>4, <2>11, <3>3
      <4>2. push'.rows[1] = push.rows[1]
        BY <2>0, <2>5, <3>3
      <4> QED
        BY <2>3, <3>1, <4>1, <4>2
    <3> QED
      BY <3>1, <3>2, <3>3
  <2> QED
    BY <1>0, <2>2, <2>3, <2>4, <2>9, <2>10, <2>11
<1>12. CASE Sheet!OpenSpreadsheet
  <2>1. /\ push.pc = "read" /\ push.tab = 5 /\ UNCHANGED sheet
        /\ push' = [push EXCEPT !.pc = "clear", !.tab = 1]
    BY <1>12 DEF Sheet!OpenSpreadsheet
  <2>2. /\ push' \in Sheet!Push /\ push'.pc = "clear" /\ push'.tab = 1 /\ push'.rows = push.rows
        /\ push'.at = push.at /\ push'.cause = push.cause /\ push'.raced = push.raced
    BY <1>0, <2>1, PushMoved
  <2>3. Sheet!Held' = Sheet!Held /\ ~Sheet!Published'
    BY <2>1, <2>2 DEF Sheet!Held, Sheet!Published
  <2> QED
    BY <1>0, <1>5, <2>1, <2>2, <2>3
<1>13. CASE Sheet!ClearTab
  <2>1. /\ push.pc = "clear" /\ push.tab \in 1..4
        /\ push' = [push EXCEPT !.pc = "fill"]
        /\ sheet' = [sheet EXCEPT ![push.tab] = Sheet!Blank]
    BY <1>0, <1>13 DEF Sheet!ClearTab
  <2>2. /\ push' \in Sheet!Push /\ push'.pc = "fill" /\ push'.tab = push.tab
        /\ push'.rows = push.rows
        /\ push'.at = push.at /\ push'.cause = push.cause /\ push'.raced = push.raced
    BY <1>0, <2>1, PushMoved
  <2>3. Sheet!Held' = Sheet!Held /\ ~Sheet!Published'
    BY <2>1, <2>2 DEF Sheet!Held, Sheet!Published
  <2>4. /\ sheet' \in [1..4 -> Int]
        /\ \A t \in 1..(push.tab - 1) : sheet'[t] = push.rows[t]
    BY <1>0, <1>3, <2>1
  <2> QED
    BY <1>0, <1>5, <2>1, <2>2, <2>3, <2>4
<1>14. CASE Sheet!FillTab
  <2>1. /\ push.pc = "fill" /\ push.tab \in 1..4
        /\ push' = [push EXCEPT !.pc = "clear", !.tab = push.tab + 1]
        /\ sheet' = [sheet EXCEPT ![push.tab] = push.rows[push.tab]]
    BY <1>0, <1>3, <1>14 DEF Sheet!FillTab
  <2>2. /\ push' \in Sheet!Push /\ push'.pc = "clear" /\ push'.tab = push.tab + 1
        /\ push'.rows = push.rows
        /\ push'.at = push.at /\ push'.cause = push.cause /\ push'.raced = push.raced
    <3>1. push.tab + 1 \in 1..5
      BY <2>1
    <3> QED
      BY <1>0, <2>1, <3>1, PushMoved
  <2>3. Sheet!Held' = Sheet!Held /\ ~Sheet!Published'
    BY <2>1, <2>2 DEF Sheet!Held, Sheet!Published
  <2>4. push.rows[push.tab] \in Int
    BY <1>0, <2>1
  <2>5. /\ sheet' \in [1..4 -> Int]
        /\ \A t \in 1..push.tab : sheet'[t] = push.rows[t]
    BY <1>0, <1>3, <2>1, <2>4
  <2> QED
    BY <1>0, <1>5, <2>1, <2>2, <2>3, <2>5
<1>15. CASE Sheet!EndPush
  <2>1. push.pc = "clear" /\ push.tab = 5 /\ UNCHANGED <<version, board, building, sheet>>
    BY <1>15 DEF Sheet!EndPush
  <2>9. push' = Sheet!Idle(TRUE)
    BY <1>15 DEF Sheet!EndPush
  <2>2. /\ push' \in Sheet!Push /\ push'.pc = "idle"
        /\ push'.at = push.at /\ push'.cause = push.cause /\ push'.raced = push.raced
    BY <1>0, <2>9, IdlePush
  <2>3. Sheet!Held = 4 /\ Sheet!Held' = 0
    BY <2>1, <2>2 DEF Sheet!Held
  <2>4. \A t \in 1..4 : sheet[t] = push.rows[t]
    BY <1>3, <2>1
  <2>5. Sheet!InOrder(sheet, 4)'
    BY <1>3, <2>1, <2>3, <2>4 DEF Sheet!InOrder
  <2>6. Sheet!InOrder(push.rows, Sheet!Held)'
    BY <2>3 DEF Sheet!InOrder
  <2>7. ASSUME push'.cause = "knockout", ~push'.raced
        PROVE  Sheet!AtLeast(push.at)' /\ sheet'[1] >= push'.at
    <3>1. Sheet!AtLeast(push.at)'
      BY <1>0, <1>2, <1>3, <2>2, <2>7 DEF Sheet!AtLeast
    <3>2. push.rows[1] >= push.at
      BY <1>3, <2>2, <2>3, <2>7
    <3> QED
      BY <2>1, <2>2, <2>4, <3>1, <3>2
  <2> QED
    BY <1>0, <2>1, <2>2, <2>3, <2>5, <2>6, <2>7
<1>16. CASE Sheet!PushFails
  <2>1. push' = Sheet!Idle(FALSE) /\ UNCHANGED <<version, board, building, sheet>>
    BY <1>16 DEF Sheet!PushFails
  <2>2. /\ push' \in Sheet!Push /\ push'.pc = "idle" /\ push'.whole = FALSE
        /\ push'.at = push.at /\ push'.cause = push.cause /\ push'.raced = push.raced
    BY <1>0, <2>1, IdlePush
  <2>3. Sheet!Held' = 0 /\ ~Sheet!Published'
    BY <2>2 DEF Sheet!Held, Sheet!Published
  <2>4. push'.cause = "knockout" /\ ~push'.raced => Sheet!AtLeast(push.at)'
    BY <1>0, <1>2, <1>3, <2>2 DEF Sheet!AtLeast
  <2> QED
    BY <1>7, <2>1, <2>2, <2>3, <2>4
<1>17. CASE Sheet!Crash
  <2>1. push' = [Sheet!Idle(FALSE) EXCEPT !.pc = "down"] /\ UNCHANGED sheet
    BY <1>17 DEF Sheet!Crash
  <2>2. /\ push' \in Sheet!Push /\ push'.pc = "down"
        /\ push'.at = push.at /\ push'.cause = push.cause /\ push'.raced = push.raced
    BY <1>0, <2>1, PushGone
  <2>3. Sheet!Held' = 0 /\ ~Sheet!Published'
    BY <2>2 DEF Sheet!Held, Sheet!Published
  <2>4. push'.cause = "knockout" /\ ~push'.raced => Sheet!AtLeast(push.at)'
    BY <1>0, <1>2, <1>3, <2>2 DEF Sheet!AtLeast
  <2> QED
    BY <1>7, <2>1, <2>2, <2>3, <2>4
<1>18. CASE UNCHANGED sheetVars
  BY <1>6, <1>18 DEF sheetVars
<1> QED
  BY <1>8, <1>9, <1>10, <1>11, <1>12, <1>13, <1>14, <1>15, <1>16, <1>17, <1>18
     DEF Sheet!SheetNext

(* The invariant of the board, the push and the sheet, at any time.        *)
LEMMA SheetInvariant == Sheet!SheetSpec => []Sheet!SheetIInv
<1>1. Sheet!SheetInit => Sheet!SheetIInv
  <2> SUFFICES ASSUME Sheet!SheetInit PROVE Sheet!SheetIInv
    OBVIOUS
  <2> DEFINE p == [pc |-> "idle", tab |-> 1, rows |-> [t \in 1..4 |-> Sheet!None], at |-> 0,
                   cause |-> "startup", raced |-> FALSE, whole |-> FALSE]
  <2>1. push = p /\ board = [shows |-> Sheet!None, fresh |-> FALSE]
        /\ sheet = [t \in 1..4 |-> Sheet!Absent] /\ version = 0 /\ building = Sheet!None
    BY DEF Sheet!SheetInit
  <2>2. /\ "idle" \in {"idle", "read", "clear", "fill", "down"} /\ 1 \in 1..5 /\ 0 \in Nat
        /\ [t \in 1..4 |-> Sheet!None] \in [1..4 -> Nat \cup {Sheet!None}]
        /\ "startup" \in Sheet!Causes
    BY DEF Sheet!Causes
  <2>3. p \in Sheet!Push
    BY Zenon, <2>2 DEF Sheet!Push
  <2>4. p.pc = "idle" /\ p.whole = FALSE /\ p.cause = "startup"
    OBVIOUS
  <2> HIDE DEF p
  <2>5. Sheet!SheetTypeOK
    <3>1. board \in [shows : Nat \cup {Sheet!None}, fresh : BOOLEAN]
      BY Zenon, <2>1
    <3>2. sheet \in [1..4 -> Int] /\ version \in Nat /\ building \in Nat \cup {Sheet!None}
      BY <2>1 DEF Sheet!Absent
    <3> QED
      BY <2>1, <2>3, <3>1, <3>2 DEF Sheet!SheetTypeOK
  <2>6. Sheet!Held = 0 /\ ~Sheet!Published
    BY <2>1, <2>4 DEF Sheet!Held, Sheet!Published
  <2> QED
    BY <2>1, <2>4, <2>5, <2>6 DEF Sheet!SheetIInv, Sheet!InOrder, Sheet!None
<1> QED
  BY <1>1, SheetStep, PTL DEF Sheet!SheetSpec, Sheet!sheetVars, sheetVars

(* The tabs of a whole push show boards in the order they were read, and a *)
(* knockout final is among them unless a refresh was in flight.            *)
THEOREM SheetTellsTheBoard == Sheet!SheetSpec => []SheetIsCurrent
<1>1. Sheet!SheetIInv => SheetIsCurrent
  BY DEF Sheet!SheetIInv, SheetIsCurrent, Sheet!TabsKeepOrder, Sheet!KnockoutReachesSheet,
         Sheet!InOrder, Sheet!SheetTypeOK, Sheet!Published, Sheet!Push
<1> QED
  BY <1>1, SheetInvariant, PTL

(***************************************************************************)
(* The match reports.                                                      *)
(***************************************************************************)
(* A score is never the value for none.                                    *)
LEMMA ScoreIsThere ==
    ASSUME NEW reg, NEW et, NEW pens
    PROVE  [reg |-> reg, et |-> et, pens |-> pens] # Reports!Null
BY DEF Reports!Null

(* How pairs of goals are added and taken apart.                           *)
LEMMA GoalsAdd ==
    /\ Reports!Nil0 \in Reports!Goals
    /\ \A x \in Reports!Goals : x # Reports!Null
    /\ \A x \in Reports!Known : Reports!OrZero(x) \in Reports!Goals
    /\ \A x \in Reports!Known, y \in Reports!Known :
          (x = Reports!Null \/ y = Reports!Null) => Reports!Plus(x, y) = Reports!Null
    /\ \A x \in Reports!Goals, y \in Reports!Goals :
          /\ Reports!Plus(x, y) \in Reports!Goals
          /\ Reports!Plus(x, y)[1] = x[1] + y[1] /\ Reports!Plus(x, y)[2] = x[2] + y[2]
    /\ \A x, y : Reports!Minus(x, y)[1] = x[1] - y[1] /\ Reports!Minus(x, y)[2] = x[2] - y[2]
<1>1. Reports!Nil0 \in Reports!Goals /\ \A x \in Reports!Goals : x # Reports!Null
  BY DEF Reports!Nil0, Reports!Goals, Reports!Null
<1>2. \A x \in Reports!Known : Reports!OrZero(x) \in Reports!Goals
  BY <1>1 DEF Reports!Known, Reports!OrZero
<1>3. \A x \in Reports!Known, y \in Reports!Known :
          (x = Reports!Null \/ y = Reports!Null) => Reports!Plus(x, y) = Reports!Null
  BY DEF Reports!Plus
<1>4. ASSUME NEW x \in Reports!Goals, NEW y \in Reports!Goals
      PROVE  /\ Reports!Plus(x, y) \in Reports!Goals
             /\ Reports!Plus(x, y)[1] = x[1] + y[1] /\ Reports!Plus(x, y)[2] = x[2] + y[2]
  <2>1. Reports!Plus(x, y) = <<x[1] + y[1], x[2] + y[2]>>
    BY <1>1 DEF Reports!Plus
  <2>2. x[1] \in Nat /\ x[2] \in Nat /\ y[1] \in Nat /\ y[2] \in Nat
    BY DEF Reports!Goals
  <2>3. x[1] + y[1] \in Nat /\ x[2] + y[2] \in Nat
    BY <2>2
  <2> QED
    BY <2>1, <2>3 DEF Reports!Goals
<1>5. \A x, y : Reports!Minus(x, y)[1] = x[1] - y[1] /\ Reports!Minus(x, y)[2] = x[2] - y[2]
  BY DEF Reports!Minus
<1> QED
  BY <1>1, <1>2, <1>3, <1>4, <1>5

\* What the row may take from a report e.
Faithful(e) ==
    /\ e.status \in Reports!Statuses
    /\ e.reg \in Reports!Goals /\ e.et \in Reports!Known /\ e.pens \in Reports!Known
    /\ e.status = "finished" => match.at = "over"
    /\ e.bare => /\ Reports!PastRegulation /\ e.et = Reports!Null
                 /\ Reports!AtMost(match.reg, e.reg)
    /\ e.told /\ Reports!PastRegulation => e.reg = match.reg
    /\ e.et # Reports!Null => Reports!AtMost(e.reg, e.et)
    /\ e.status = "finished" /\ e.has => Reports!Outcome(e) \in Reports!Credit

(* The running total is the regulation result, plus extra time if there is *)
(* any.                                                                    *)
LEMMA PlayAddsUp ==
    ASSUME Reports!ReportsTypeOK, Reports!AsPlayed
    PROVE  /\ match.reg \in Reports!Goals /\ match.et \in Reports!Known
           /\ match.pens \in Reports!Known
           /\ Reports!Play \in Reports!Goals
           /\ \A i \in 1..2 : match.reg[i] \in Nat /\ Reports!Play[i] \in Nat
           /\ match.et = Reports!Null => Reports!Play = match.reg
           /\ match.et # Reports!Null =>
                 \A i \in 1..2 : match.et[i] \in Nat /\ Reports!Play[i] = match.reg[i] + match.et[i]
<1>1. /\ match.reg \in Reports!Goals /\ match.et \in Reports!Known
      /\ match.pens \in Reports!Known
  BY DEF Reports!ReportsTypeOK
<1>2. CASE match.et = Reports!Null
  <2>1. Reports!Play \in Reports!Goals
        /\ Reports!Play[1] = match.reg[1] /\ Reports!Play[2] = match.reg[2]
    BY <1>1, <1>2, GoalsAdd DEF Reports!Play, Reports!OrZero, Reports!Nil0, Reports!Goals
  <2> QED
    BY <1>1, <1>2, <2>1 DEF Reports!Goals
<1>3. CASE match.et # Reports!Null
  <2>1. match.et \in Reports!Goals
    BY <1>1, <1>3 DEF Reports!Known
  <2>2. Reports!Play \in Reports!Goals
        /\ Reports!Play[1] = match.reg[1] + match.et[1]
        /\ Reports!Play[2] = match.reg[2] + match.et[2]
    BY <1>1, <1>3, <2>1, GoalsAdd DEF Reports!Play, Reports!OrZero
  <2> QED
    BY <1>1, <1>3, <2>1, <2>2 DEF Reports!Goals
<1> QED
  BY <1>2, <1>3

(* Whatever Football-Data leaves out, its report is faithful: the legs     *)
(* taken from fullTime have the winner of the shootout, and the score      *)
(* after extra time adds up (_to_external_score).                          *)
LEMMA FootballDataFaithful ==
    ASSUME Reports!ReportsTypeOK, Reports!AsPlayed, NEW p \in Reports!FootballDataSays
    PROVE  Faithful(Reports!FromFootballData(p)) /\ ~Reports!FromFootballData(p).bare
<1> DEFINE e == Reports!FromFootballData(p)
           reg == IF p.regular # Reports!Null THEN p.regular ELSE p.full
           legs == Reports!Legs(p)
<1>1. /\ e.status = p.status /\ e.reg = Reports!OrZero(reg)
      /\ e.et = Reports!Plus(p.regular, p.extra) /\ e.pens = legs
  BY DEF Reports!FromFootballData
<1>2. /\ ~e.bare
      /\ e.told => p.regular # Reports!Null \/ match.et = Reports!Null
      /\ e.has => /\ reg # Reports!Null
                  /\ Reports!Duration = "PENALTY_SHOOTOUT" =>
                        legs # Reports!Null /\ ~Reports!Level(legs)
  BY Zenon DEF Reports!FromFootballData
<1> HIDE DEF e
<1>3. p.status \in Reports!Statuses /\ (p.status = "finished" => match.at = "over")
  BY DEF Reports!FootballDataSays, Reports!FootballDataStatuses, Reports!Statuses
<1>4. \/ /\ p.full = Reports!Plus(Reports!Play, Reports!OrZero(match.pens))
         /\ p.regular \in {match.reg, Reports!Null} /\ p.extra \in {match.et, Reports!Null}
         /\ p.penalty \in {match.pens, Reports!Nil0, Reports!Null}
         /\ match.et = Reports!Null => p.regular = Reports!Null /\ p.extra = Reports!Null
         /\ match.pens = Reports!Null => p.penalty = Reports!Null
      \/ /\ p.full = Reports!Null /\ p.regular = Reports!Null /\ p.extra = Reports!Null
         /\ p.penalty = Reports!Null
  BY DEF Reports!FootballDataSays
<1>5. /\ match.reg \in Reports!Goals /\ match.et \in Reports!Known
      /\ match.pens \in Reports!Known /\ Reports!Play \in Reports!Goals
  BY PlayAddsUp
<1>6. /\ p.full \in Reports!Known /\ p.regular \in {match.reg, Reports!Null}
      /\ p.extra \in {match.et, Reports!Null} /\ p.extra \in Reports!Known
      /\ p.regular \in Reports!Known
      /\ p.penalty \in {match.pens, Reports!Nil0, Reports!Null}
  BY <1>4, <1>5, GoalsAdd DEF Reports!Known
<1>7. e.reg \in Reports!Goals /\ e.et \in Reports!Known
  BY <1>1, <1>6, GoalsAdd DEF Reports!Known
<1>8. /\ Reports!PastRegulation /\ p.regular # Reports!Null => e.reg = match.reg
      /\ e.et # Reports!Null => Reports!AtMost(e.reg, e.et)
  <2>1. p.regular # Reports!Null => e.reg = match.reg
    BY <1>1, <1>5, <1>6, GoalsAdd DEF Reports!OrZero
  <2>2. ASSUME e.et # Reports!Null PROVE Reports!AtMost(e.reg, e.et)
    <3>1. p.regular \in Reports!Goals /\ p.extra \in Reports!Goals
      BY <1>1, <1>6, <2>2, GoalsAdd DEF Reports!Known
    <3>2. e.reg = p.regular /\ e.et[1] = p.regular[1] + p.extra[1]
          /\ e.et[2] = p.regular[2] + p.extra[2]
      BY <1>1, <1>6, <2>1, <3>1, GoalsAdd
    <3>3. /\ p.regular[1] \in Nat /\ p.regular[2] \in Nat
          /\ p.extra[1] \in Nat /\ p.extra[2] \in Nat
      BY <3>1 DEF Reports!Goals
    <3> QED
      BY <3>2, <3>3 DEF Reports!AtMost
  <2> QED
    BY <2>1, <2>2
\* The legs of a shootout: the reported ones, or what fullTime holds beyond the play.
<1> DEFINE derived == Reports!Minus(Reports!Minus(p.full, p.regular), Reports!OrZero(p.extra))
<1>9. \/ legs = p.penalty
      \/ /\ legs = derived /\ Reports!Duration = "PENALTY_SHOOTOUT"
         /\ p.full # Reports!Null /\ p.regular # Reports!Null
         /\ Reports!AtMost(Reports!Nil0, derived) /\ ~Reports!Level(derived)
  BY DEF Reports!Legs
<1>10. Reports!Duration = "PENALTY_SHOOTOUT" <=> match.pens # Reports!Null
  BY DEF Reports!Duration
<1>11. ASSUME legs = derived, match.pens # Reports!Null, p.full # Reports!Null,
              p.regular # Reports!Null, Reports!AtMost(Reports!Nil0, derived)
       PROVE  /\ legs \in Reports!Goals
              /\ legs[1] > legs[2] <=> match.pens[1] > match.pens[2]
  <2>1. /\ match.pens \in Reports!Goals /\ match.et \in Reports!Goals
        /\ match.et[1] = match.et[2] /\ p.regular = match.reg
        /\ p.full = Reports!Plus(Reports!Play, match.pens)
    BY <1>4, <1>5, <1>11 DEF Reports!AsPlayed, Reports!Known, Reports!Level, Reports!OrZero
  <2>2. /\ match.reg[1] \in Nat /\ match.reg[2] \in Nat /\ match.pens[1] \in Nat
        /\ match.pens[2] \in Nat /\ match.et[1] \in Nat /\ match.et[2] \in Nat
    BY <1>5, <2>1 DEF Reports!Goals
  <2>3. /\ p.full[1] = match.reg[1] + match.et[1] + match.pens[1]
        /\ p.full[2] = match.reg[2] + match.et[2] + match.pens[2]
    BY <1>5, <2>1, <2>2, GoalsAdd, PlayAddsUp
  <2>4. PICK x : x = Reports!OrZero(p.extra)
    OBVIOUS
  <2>5. x[1] = x[2] /\ x[1] \in Nat
    BY <1>6, <2>1, <2>2, <2>4 DEF Reports!OrZero, Reports!Nil0
  <2>6. /\ derived = <<p.full[1] - p.regular[1] - x[1], p.full[2] - p.regular[2] - x[2]>>
    BY <2>4 DEF Reports!Minus
  <2>7. /\ derived[1] = match.et[1] + match.pens[1] - x[1]
        /\ derived[2] = match.et[2] + match.pens[2] - x[2]
    BY <2>1, <2>2, <2>3, <2>5, <2>6
  <2>8. derived[1] \in Nat /\ derived[2] \in Nat
    BY <1>11, <2>2, <2>5, <2>7 DEF Reports!AtMost, Reports!Nil0
  <2>9. derived \in Reports!Goals
    BY <2>6, <2>8 DEF Reports!Goals
  <2> QED
    BY <1>11, <2>1, <2>2, <2>5, <2>7, <2>9
<1>12. e.pens \in Reports!Known
  BY <1>1, <1>5, <1>6, <1>9, <1>10, <1>11, GoalsAdd DEF Reports!Known
<1>13. ASSUME e.status = "finished", e.has PROVE Reports!Outcome(e) \in Reports!Credit
  <2>1. match.at = "over" /\ reg # Reports!Null
    BY <1>1, <1>2, <1>3, <1>13
  <2>2. CASE match.pens # Reports!Null
    <3>1. /\ legs # Reports!Null /\ ~Reports!Level(legs)
      BY <1>2, <1>10, <1>13, <2>2
    <3>2. legs[1] > legs[2] <=> match.pens[1] > match.pens[2]
      BY <1>6, <1>9, <1>10, <1>11, <2>2, <3>1 DEF Reports!Level, Reports!Nil0
    <3>3. match.pens[1] \in Nat /\ match.pens[2] \in Nat /\ match.pens[1] # match.pens[2]
      BY <1>5, <2>1, <2>2 DEF Reports!AsPlayed, Reports!Level, Reports!Known, Reports!Goals
    <3>4. Reports!Outcome(e) = Reports!Compare(match.pens)
      BY <1>1, <3>1, <3>2, <3>3 DEF Reports!Outcome, Reports!Compare
    <3> QED
      BY <2>2, <3>4 DEF Reports!Credit, Reports!WentThrough
  <2>3. CASE match.pens = Reports!Null
    <3>1. e.pens = Reports!Null
      BY <1>1, <1>4, <1>9, <1>10, <2>3
    <3>2. Reports!WentThrough = Reports!Compare(Reports!Play)
      BY <2>3 DEF Reports!WentThrough
    <3>3. p.full = Reports!Play
      <4>1. p.full = Reports!Plus(Reports!Play, Reports!Nil0)
        BY <1>4, <2>1, <2>3 DEF Reports!OrZero
      <4>2. p.full \in Reports!Goals /\ p.full[1] = Reports!Play[1] /\ p.full[2] = Reports!Play[2]
        BY <1>5, <4>1, GoalsAdd DEF Reports!Goals, Reports!Nil0
      <4> QED
        BY <1>5, <4>2 DEF Reports!Goals
    <3>4. CASE p.regular = Reports!Null
      <4>1. e.et = Reports!Null /\ e.reg = Reports!Play
        BY <1>1, <1>5, <1>6, <2>1, <3>3, <3>4, GoalsAdd DEF Reports!OrZero
      <4> QED
        BY <3>1, <3>2, <4>1 DEF Reports!Outcome, Reports!Credit
    <3>5. CASE p.regular # Reports!Null
      <4>1. p.regular = match.reg /\ match.et # Reports!Null /\ e.reg = match.reg
        BY <1>4, <1>6, <1>8, <3>5 DEF Reports!PastRegulation
      <4>2. match.stage # "group" /\ Reports!Compare(match.reg) = "X"
        BY <1>5, <4>1 DEF Reports!AsPlayed, Reports!Level, Reports!Compare, Reports!Goals
      <4>3. CASE e.et = Reports!Null
        BY <3>1, <4>1, <4>2, <4>3 DEF Reports!Outcome, Reports!Credit
      <4>4. CASE e.et # Reports!Null
        <5>1. p.extra = match.et /\ e.et = Reports!Plus(match.reg, match.et)
          BY <1>1, <1>6, <4>1, <4>4, GoalsAdd
        <5>2. e.et = Reports!Play
          BY <4>1, <5>1 DEF Reports!Play, Reports!OrZero
        <5> QED
          BY <3>1, <3>2, <4>4, <5>2 DEF Reports!Outcome, Reports!Credit
      <4> QED
        BY <4>3, <4>4
    <3> QED
      BY <3>4, <3>5
  <2> QED
    BY <2>2, <2>3
<1>14. e.told /\ Reports!PastRegulation => e.reg = match.reg
  BY <1>2, <1>8 DEF Reports!PastRegulation
<1>15. Faithful(e)
  BY <1>1, <1>2, <1>3, <1>7, <1>8, <1>12, <1>13, <1>14 DEF Faithful
<1> QED
  BY ONLY <1>2, <1>15 DEF e

(* So is ESPN's scoreboard, whose running total is marked bare past        *)
(* regulation.                                                             *)
LEMMA ScoreboardFaithful ==
    ASSUME Reports!ReportsTypeOK, Reports!AsPlayed
    PROVE  Faithful(Reports!Scoreboard)
<1> DEFINE e == Reports!Scoreboard
<1>1. /\ e.status = Reports!EspnStatus /\ e.reg = Reports!Play /\ e.et = Reports!Null
      /\ e.pens = match.pens
  BY DEF Reports!Scoreboard
<1>2. (e.bare => Reports!PastRegulation) /\ (e.told => ~Reports!PastRegulation)
  BY Zenon DEF Reports!Scoreboard
<1> HIDE DEF e
<1>3. e.status \in Reports!Statuses /\ (e.status = "finished" => match.at = "over")
  BY <1>1 DEF Reports!EspnStatus, Reports!Statuses
<1>4. /\ match.reg \in Reports!Goals /\ match.pens \in Reports!Known /\ e.reg \in Reports!Goals
      /\ e.et \in Reports!Known
  BY <1>1, PlayAddsUp DEF Reports!Known
<1>5. Reports!AtMost(match.reg, e.reg)
  BY <1>1, PlayAddsUp DEF Reports!AtMost
<1>6. ASSUME match.at = "over" PROVE Reports!Outcome(e) \in Reports!Credit
  <2>1. CASE match.pens = Reports!Null
    BY <1>1, <2>1 DEF Reports!Outcome, Reports!Credit, Reports!WentThrough
  <2>2. CASE match.pens # Reports!Null
    <3>1. match.pens[1] \in Nat /\ match.pens[2] \in Nat /\ match.pens[1] # match.pens[2]
      BY <1>4, <1>6, <2>2 DEF Reports!AsPlayed, Reports!Level, Reports!Known, Reports!Goals
    <3> QED
      BY <1>1, <2>2, <3>1 DEF Reports!Outcome, Reports!Credit, Reports!WentThrough, Reports!Compare
  <2> QED
    BY <2>1, <2>2
<1>7. Faithful(e)
  BY <1>1, <1>2, <1>3, <1>4, <1>5, <1>6 DEF Faithful
<1> QED
  BY ONLY <1>7 DEF e

(* And so is a scoreboard with the split of its summary laid over it.      *)
LEMMA EnrichedFaithful ==
    ASSUME Reports!ReportsTypeOK, Reports!AsPlayed, Reports!PastRegulation,
           NEW et \in Reports!Summaries
    PROVE  Faithful(Reports!Enriched(et))
<1> DEFINE e == Reports!Enriched(et)
<1>1. /\ e.status = Reports!EspnStatus /\ e.reg = match.reg /\ e.et = Reports!Listed(et)
      /\ e.pens = match.pens
  BY Zenon DEF Reports!Scoreboard, Reports!Enriched
<1>2. e.bare => Reports!Listed(et) = Reports!Null
  BY Zenon DEF Reports!Scoreboard, Reports!Enriched
<1> HIDE DEF e
<1>3. e.status \in Reports!Statuses /\ (e.status = "finished" => match.at = "over")
  BY <1>1 DEF Reports!EspnStatus, Reports!Statuses
<1>4. /\ match.reg \in Reports!Goals /\ match.pens \in Reports!Known
      /\ match.et # Reports!Null /\ match.et \in Reports!Goals
      /\ match.reg[1] \in Nat /\ match.reg[2] \in Nat
      /\ match.et[1] \in Nat /\ match.et[2] \in Nat
  BY PlayAddsUp DEF Reports!Known, Reports!PastRegulation, Reports!Goals
<1>5. \/ et = match.et /\ e.et = Reports!Play
      \/ et = Reports!Null /\ e.et = match.reg /\ match.pens # Reports!Null
      \/ et = Reports!Null /\ e.et = Reports!Null /\ match.pens = Reports!Null
  BY <1>1, <1>4 DEF Reports!Summaries, Reports!Listed, Reports!Play, Reports!OrZero
<1>6. e.et \in Reports!Known /\ (e.et # Reports!Null => Reports!AtMost(e.reg, e.et))
  BY <1>1, <1>4, <1>5, PlayAddsUp DEF Reports!Known, Reports!AtMost
<1>7. Reports!AtMost(match.reg, e.reg)
  BY <1>1, <1>4 DEF Reports!AtMost
<1>8. ASSUME match.at = "over" PROVE Reports!Outcome(e) \in Reports!Credit
  <2>1. CASE match.pens = Reports!Null
    <3>1. Reports!Compare(match.reg) = "X" /\ match.stage # "group"
      BY <1>4 DEF Reports!AsPlayed, Reports!Level, Reports!Compare
    <3> QED
      BY <1>1, <1>4, <1>5, <2>1, <3>1, PlayAddsUp
         DEF Reports!Outcome, Reports!Credit, Reports!WentThrough
  <2>2. CASE match.pens # Reports!Null
    <3>1. match.pens[1] \in Nat /\ match.pens[2] \in Nat /\ match.pens[1] # match.pens[2]
      BY <1>4, <1>8, <2>2 DEF Reports!AsPlayed, Reports!Level, Reports!Known, Reports!Goals
    <3> QED
      BY <1>1, <2>2, <3>1 DEF Reports!Outcome, Reports!Credit, Reports!WentThrough, Reports!Compare
  <2> QED
    BY <2>1, <2>2
<1>9. Faithful(e)
  BY <1>1, <1>2, <1>3, <1>4, <1>6, <1>7, <1>8 DEF Faithful
<1> QED
  BY ONLY <1>9 DEF e

\* What the invariant says of a row.
Row(x) ==
    /\ x \in [status : Reports!Statuses, named : BOOLEAN,
              score : {Reports!Null} \cup [reg : Reports!Goals, et : Reports!Known,
                                           pens : Reports!Known],
              ninety : Reports!Ninety, scored : BOOLEAN]
    /\ Reports!RowHolds(x)

(* The freeze keeps the 90-minute result of a row that has it, and what is *)
(* written from a faithful report is true (_score_fields_for).             *)
LEMMA FieldsFaithful ==
    ASSUME Reports!ReportsTypeOK, Reports!AsPlayed, NEW x, Row(x), NEW e, Faithful(e)
    PROVE  LET s == Reports!ScoreFields(x, e)
           IN  /\ s \in [reg : Reports!Goals, et : Reports!Known, pens : Reports!Known]
               /\ s # Reports!Null
               /\ s.et # Reports!Null => Reports!AtMost(s.reg, s.et)
               /\ e.status = "finished" /\ e.has =>
                     match.at = "over" /\ Reports!Outcome(s) \in Reports!Credit
               /\ /\ Reports!PastRegulation
                  /\ IF Reports!Frozen(e) THEN x.ninety = "held" ELSE e.told
                  => s.reg = match.reg
<1> PICK s : s = Reports!ScoreFields(x, e)
  OBVIOUS
<1>1. /\ e.reg \in Reports!Goals /\ e.et \in Reports!Known /\ e.pens \in Reports!Known
      /\ e.reg[1] \in Nat /\ e.reg[2] \in Nat
  BY DEF Faithful, Reports!Goals
<1>2. CASE ~Reports!Frozen(e)
  <2>1. s = [reg |-> e.reg, et |-> e.et, pens |-> e.pens]
    BY <1>2 DEF Reports!ScoreFields
  <2>2. s.reg = e.reg /\ s.et = e.et /\ s.pens = e.pens
    BY <2>1
  <2>3. s \in [reg : Reports!Goals, et : Reports!Known, pens : Reports!Known] /\ s # Reports!Null
    BY <1>1, <2>1, ScoreIsThere
  <2>4. Reports!Outcome(s) = Reports!Outcome(e)
    BY <2>2 DEF Reports!Outcome
  <2> QED
    BY <1>2, <2>2, <2>3, <2>4 DEF Faithful, Reports!Frozen
<1>3. CASE Reports!Frozen(e)
  <2>1. /\ Reports!PastRegulation /\ e.et = Reports!Null /\ Reports!AtMost(match.reg, e.reg)
    BY <1>3 DEF Reports!Frozen, Faithful
  <2>2. PICK kept : kept = IF x.score = Reports!Null THEN e.reg ELSE x.score.reg
    OBVIOUS
  <2>3. kept \in Reports!Goals /\ kept[1] \in Nat /\ kept[2] \in Nat
    BY <1>1, <2>2 DEF Row, Reports!Goals
  <2>4. PICK r : r = <<Reports!Smaller(kept[1], e.reg[1]), Reports!Smaller(kept[2], e.reg[2])>>
    OBVIOUS
  <2>5. /\ r \in Reports!Goals /\ r[1] <= e.reg[1] /\ r[2] <= e.reg[2]
        /\ kept[1] <= e.reg[1] /\ kept[2] <= e.reg[2] => r[1] = kept[1] /\ r[2] = kept[2]
    BY <1>1, <2>3, <2>4 DEF Reports!Smaller, Reports!Goals
  <2>6. s = [reg |-> r, et |-> e.reg, pens |-> e.pens]
    BY <1>3, <2>2, <2>4 DEF Reports!ScoreFields
  <2>7. s.reg = r /\ s.et = e.reg /\ s.pens = e.pens
    BY <2>6
  <2>8. s \in [reg : Reports!Goals, et : Reports!Known, pens : Reports!Known] /\ s # Reports!Null
    BY <1>1, <2>5, <2>6, ScoreIsThere DEF Reports!Known
  <2>9. Reports!Outcome(s) = Reports!Outcome(e)
    BY <1>1, <2>1, <2>7, GoalsAdd DEF Reports!Outcome
  <2>10. ASSUME x.ninety = "held" PROVE s.reg = match.reg
    <3>1. kept = match.reg
      BY <2>1, <2>2, <2>10 DEF Row, Reports!RowHolds
    <3> QED
      BY <2>1, <2>3, <2>5, <2>7, <3>1 DEF Reports!AtMost, Reports!Goals
  <2> QED
    BY <1>3, <2>5, <2>7, <2>8, <2>9, <2>10 DEF Faithful, Reports!AtMost
<1> QED
  BY <1>2, <1>3

\* The score of a row, and the fields of a row as a record.
ScoreCells == {Reports!Null} \cup [reg : Reports!Goals, et : Reports!Known, pens : Reports!Known]
Rows == [status : Reports!Statuses, named : BOOLEAN, score : ScoreCells, ninety : Reports!Ninety,
         scored : BOOLEAN]

(* A row with fields that hold.                                            *)
LEMMA RowIs ==
    ASSUME NEW st \in Reports!Statuses, NEW named \in BOOLEAN, NEW score \in ScoreCells,
           NEW ninety \in Reports!Ninety, NEW scored \in BOOLEAN,
           ninety = "held" =>
              score # Reports!Null /\ (Reports!PastRegulation => score.reg = match.reg),
           st = "finished" /\ scored /\ score # Reports!Null =>
              match.at = "over" /\ Reports!Outcome(score) \in Reports!Credit,
           score # Reports!Null /\ score.et # Reports!Null =>
              Reports!AtMost(score.reg, score.et),
           NEW x, x = [status |-> st, named |-> named, score |-> score, ninety |-> ninety,
                       scored |-> scored]
    PROVE  Row(x)
<1>1. x \in Rows
  BY Zenon DEF Rows
<1>2. x.status = st /\ x.score = score /\ x.ninety = ninety
  OBVIOUS
<1>3. x.scored => scored
  BY Zenon
<1>4. Reports!RowHolds(x)
  BY <1>2, <1>3 DEF Reports!RowHolds
<1> QED
  BY <1>1, <1>4 DEF Row, Rows, ScoreCells

(* What a row that holds says, field by field.                             *)
LEMMA RowGives ==
    ASSUME NEW x, Row(x)
    PROVE  /\ x.status \in Reports!Statuses /\ x.score \in ScoreCells
           /\ x.named \in BOOLEAN /\ x.ninety \in Reports!Ninety /\ x.scored \in BOOLEAN
           /\ x \in Rows
           /\ x.ninety = "held" =>
                 x.score # Reports!Null
                 /\ (Reports!PastRegulation => x.score.reg = match.reg)
           /\ x.status = "finished" /\ x.scored /\ x.score # Reports!Null =>
                 match.at = "over" /\ Reports!Outcome(x.score) \in Reports!Credit
           /\ x.score # Reports!Null /\ x.score.et # Reports!Null =>
                 Reports!AtMost(x.score.reg, x.score.et)
<1>1. x.named \in BOOLEAN /\ x.ninety \in Reports!Ninety /\ x.scored \in BOOLEAN
  BY Zenon DEF Row
<1>2. x.status \in Reports!Statuses /\ x.score \in ScoreCells /\ x \in Rows
  BY DEF Row, Rows, ScoreCells
<1> QED
  BY <1>1, <1>2 DEF Row, Reports!RowHolds

(* A faithful report leaves a true row behind (_apply_external_score).     *)
LEMMA WrittenHolds ==
    ASSUME Reports!ReportsTypeOK, Reports!AsPlayed, NEW x, Row(x), NEW e, Faithful(e),
           e.named \in BOOLEAN, e.told \in BOOLEAN
    PROVE  Row(Reports!Written(x, e))
<1> DEFINE n == x.named \/ e.named
           w == IF e.id THEN [x EXCEPT !.named = n] ELSE x
           st == Reports!Effective(e)
           ninety == IF Reports!Frozen(e) THEN w.ninety ELSE IF e.told THEN "held" ELSE "lumped"
           s == Reports!ScoreFields(x, e)
<1>1. n \in BOOLEAN
  OBVIOUS
<1>2. Row(w) /\ w.score = x.score /\ w.ninety = x.ninety
  <2>1. CASE e.id
    <3> HIDE DEF n
    <3>4. w = [x EXCEPT !.named = n] /\ x \in Rows
      BY <2>1, RowGives
    <3> HIDE DEF w
    <3>1. w = [status |-> x.status, named |-> n, score |-> x.score, ninety |-> x.ninety,
               scored |-> x.scored]
      BY ONLY <3>4 DEF Rows
    <3>2. Row(w)
      BY <1>1, <3>1, RowGives, RowIs
    <3>3. w.score = x.score /\ w.ninety = x.ninety
      BY Zenon, <3>1
    <3> QED
      BY <3>2, <3>3
  <2>2. CASE ~e.id
    BY <2>2
  <2> QED
    BY <2>1, <2>2
<1>3. Reports!Written(x, e) =
         IF Reports!Refused(x, e) THEN w
         ELSE IF st \notin Reports!ScoreBearing THEN [w EXCEPT !.status = st, !.scored = TRUE]
         ELSE [w EXCEPT !.status = st, !.score = s, !.scored = TRUE, !.ninety = ninety]
  BY Zenon DEF Reports!Written
<1>4. ninety \in Reports!Ninety
  BY <1>2, RowGives DEF Reports!Ninety
<1>5. st \in Reports!Statuses /\ (st = "finished" => e.status = "finished")
  BY DEF Reports!Effective, Faithful, Reports!Statuses
<1>6. /\ s \in ScoreCells /\ s # Reports!Null
      /\ s.et # Reports!Null => Reports!AtMost(s.reg, s.et)
      /\ e.status = "finished" /\ e.has =>
            match.at = "over" /\ Reports!Outcome(s) \in Reports!Credit
      /\ Reports!PastRegulation /\ (IF Reports!Frozen(e) THEN x.ninety = "held" ELSE e.told) =>
            s.reg = match.reg
  BY FieldsFaithful DEF ScoreCells
<1>7. Reports!PastRegulation /\ ninety = "held" => s.reg = match.reg
  BY Zenon, <1>2, <1>6
<1> HIDE DEF n, w, st, ninety, s
<1> PICK yes \in BOOLEAN : yes = TRUE
  OBVIOUS
<1>8. CASE Reports!Refused(x, e)
  BY Zenon, <1>2, <1>3, <1>8
<1>9. CASE ~Reports!Refused(x, e) /\ st \notin Reports!ScoreBearing
  <2>1. Reports!Written(x, e) =
           [status |-> st, named |-> w.named, score |-> w.score, ninety |-> w.ninety,
            scored |-> yes]
    <3>1. PICK y : y = Reports!Written(x, e)
      OBVIOUS
    <3>2. y = [w EXCEPT !.status = st, !.scored = yes] /\ w \in Rows
      BY <1>2, <1>3, <1>9, <3>1, RowGives
    <3>3. y = [status |-> st, named |-> w.named, score |-> w.score, ninety |-> w.ninety,
               scored |-> yes]
      BY ONLY <3>2 DEF Rows
    <3> QED
      BY ONLY <3>1, <3>3
  <2>2. st # "finished"
    BY <1>9 DEF Reports!ScoreBearing
  <2>3. /\ w.score \in ScoreCells /\ w.named \in BOOLEAN /\ w.ninety \in Reports!Ninety
        /\ w.ninety = "held" =>
              w.score # Reports!Null
              /\ (Reports!PastRegulation => w.score.reg = match.reg)
        /\ w.score # Reports!Null /\ w.score.et # Reports!Null =>
              Reports!AtMost(w.score.reg, w.score.et)
    BY Zenon, <1>2, RowGives
  <2> QED
    BY <1>5, <2>1, <2>2, <2>3, RowIs
<1>10. CASE ~Reports!Refused(x, e) /\ st \in Reports!ScoreBearing
  <2>1. Reports!Written(x, e) =
           [status |-> st, named |-> w.named, score |-> s, ninety |-> ninety, scored |-> yes]
    <3>1. PICK y : y = Reports!Written(x, e)
      OBVIOUS
    <3>2. y = [w EXCEPT !.status = st, !.score = s, !.scored = yes, !.ninety = ninety]
          /\ w \in Rows
      BY <1>2, <1>3, <1>10, <3>1, RowGives
    <3>3. y = [status |-> st, named |-> w.named, score |-> s, ninety |-> ninety,
               scored |-> yes]
      BY ONLY <3>2 DEF Rows
    <3> QED
      BY ONLY <3>1, <3>3
  <2>2. e.has
    BY <1>10 DEF Reports!Refused, st
  <2>3. w.named \in BOOLEAN
    BY <1>2, RowGives
  <2> QED
    BY <1>4, <1>5, <1>6, <1>7, <2>1, <2>2, <2>3, RowIs
<1> QED
  BY <1>8, <1>9, <1>10

\* The match as it is played.
MatchPlay == [stage : {"group", "knockout", "third_place"},
           at : {"before", "reg", "et", "pens", "over"}, known : BOOLEAN,
           reg : Reports!Goals, et : Reports!Known, pens : Reports!Known]

(* Goals and annulled goals: none after the end, and past regulation none  *)
(* for its result.                                                         *)
LEMMA MatchMoves ==
    ASSUME Reports!ReportsIInv,
           Reports!KickOff \/ (\E i \in 1..2 : Reports!Goal(i) \/ Reports!Annul(i))
    PROVE  /\ match' \in MatchPlay /\ Reports!AsPlayed' /\ UNCHANGED <<late, listing, fixture>>
           /\ match.at # "over"
           /\ match'.et # Reports!Null => match.et # Reports!Null /\ match'.reg = match.reg
<1>1. match \in MatchPlay /\ Reports!AsPlayed
  BY DEF Reports!ReportsIInv, Reports!ReportsTypeOK, MatchPlay
<1>2. CASE Reports!KickOff
  BY <1>1, <1>2 DEF Reports!KickOff, Reports!AsPlayed, MatchPlay, Reports!Level
<1>3. ASSUME NEW i \in 1..2, Reports!Goal(i) \/ Reports!Annul(i)
      PROVE  /\ match' \in MatchPlay /\ Reports!AsPlayed' /\ UNCHANGED <<late, listing, fixture>>
             /\ match.at # "over"
             /\ match'.et # Reports!Null => match.et # Reports!Null /\ match'.reg = match.reg
  <2>1. UNCHANGED <<late, listing, fixture>> /\ match.at # "over"
    BY <1>3 DEF Reports!Goal, Reports!Annul
  <2>2. CASE /\ match.at = "reg"
             /\ \E n \in Nat : match' = [match EXCEPT !.reg[i] = n]
    <3>1. match' \in MatchPlay /\ match'.et = match.et /\ match'.at = match.at
          /\ match'.pens = match.pens
      BY <1>1, <2>2 DEF MatchPlay, Reports!Goals
    <3>2. match.at = "reg" /\ match.et = Reports!Null /\ match.pens = Reports!Null
      BY <1>1, <2>2 DEF Reports!AsPlayed
    <3>3. match'.at = "reg" /\ match'.et = Reports!Null /\ match'.pens = Reports!Null
      BY <3>1, <3>2
    <3>4. Reports!AsPlayed'
      BY ONLY <3>3 DEF Reports!AsPlayed
    <3> QED
      BY ONLY <2>1, <3>1, <3>3, <3>4
  <2>3. CASE /\ match.at = "et"
             /\ \E n \in Nat : match' = [match EXCEPT !.et[i] = n]
    <3>1. match.et \in Reports!Goals /\ match.pens = Reports!Null
      BY <1>1, <2>3 DEF MatchPlay, Reports!AsPlayed, Reports!Known
    <3>2. match' \in MatchPlay /\ match'.et \in Reports!Goals /\ match'.at = match.at
          /\ match'.pens = match.pens /\ match'.reg = match.reg /\ match'.stage = match.stage
      BY <1>1, <2>3, <3>1 DEF MatchPlay, Reports!Goals, Reports!Known
    <3> QED
      BY <1>1, <2>1, <2>3, <3>1, <3>2, GoalsAdd DEF Reports!AsPlayed
  <2>4. CASE /\ match.at = "pens"
             /\ \E n \in Nat : match' = [match EXCEPT !.pens[i] = n]
    <3>1. match.pens \in Reports!Goals
      BY <1>1, <2>4 DEF MatchPlay, Reports!AsPlayed, Reports!Known
    <3>2. match' \in MatchPlay /\ match'.pens \in Reports!Goals /\ match'.at = match.at
          /\ match'.et = match.et /\ match'.reg = match.reg /\ match'.stage = match.stage
      BY <1>1, <2>4, <3>1 DEF MatchPlay, Reports!Goals, Reports!Known
    <3> QED
      BY <1>1, <2>1, <2>4, <3>1, <3>2, GoalsAdd DEF Reports!AsPlayed
  <2>5. CASE Reports!Goal(i)
    <3>1. match.at = "reg" => match.reg[i] \in Nat
      BY <1>1 DEF MatchPlay, Reports!Goals
    <3>2. match.at = "et" => match.et[i] \in Nat
      BY <1>1 DEF MatchPlay, Reports!Goals, Reports!AsPlayed, Reports!Known
    <3>3. match.at = "pens" => match.pens[i] \in Nat
      BY <1>1 DEF MatchPlay, Reports!Goals, Reports!AsPlayed, Reports!Known
    <3>4. CASE match.at = "reg" /\ match' = [match EXCEPT !.reg[i] = match.reg[i] + 1]
      <4>1. match.reg[i] + 1 \in Nat
        BY <3>1, <3>4
      <4> QED
        BY <2>2, <3>4, <4>1
    <3>5. CASE match.at = "et" /\ match' = [match EXCEPT !.et[i] = match.et[i] + 1]
      <4>1. match.et[i] + 1 \in Nat
        BY <3>2, <3>5
      <4> QED
        BY <2>3, <3>5, <4>1
    <3>6. CASE match.at = "pens" /\ match' = [match EXCEPT !.pens[i] = match.pens[i] + 1]
      <4>1. match.pens[i] + 1 \in Nat
        BY <3>3, <3>6
      <4> QED
        BY <2>4, <3>6, <4>1
    <3> QED
      BY <2>5, <3>4, <3>5, <3>6 DEF Reports!Goal
  <2>6. CASE Reports!Annul(i)
    <3>1. match.at = "reg" => match.reg[i] \in Nat
      BY <1>1 DEF MatchPlay, Reports!Goals
    <3>2. match.at = "et" => match.et[i] \in Nat
      BY <1>1 DEF MatchPlay, Reports!Goals, Reports!AsPlayed, Reports!Known
    <3>3. CASE /\ match.at = "reg" /\ match.reg[i] > 0
               /\ match' = [match EXCEPT !.reg[i] = match.reg[i] - 1]
      <4>1. match.reg[i] - 1 \in Nat
        BY <3>1, <3>3
      <4> QED
        BY <2>2, <3>3, <4>1
    <3>4. CASE /\ match.at = "et" /\ match.et[i] > 0
               /\ match' = [match EXCEPT !.et[i] = match.et[i] - 1]
      <4>1. match.et[i] - 1 \in Nat
        BY <3>2, <3>4
      <4> QED
        BY <2>3, <3>4, <4>1
    <3> QED
      BY <2>6, <3>3, <3>4 DEF Reports!Annul
  <2> QED
    BY <1>3, <2>5, <2>6
<1> QED
  BY <1>2, <1>3

(* The end of a period decides which period comes next.                    *)
LEMMA WhistleMoves ==
    ASSUME Reports!ReportsIInv, Reports!Whistle
    PROVE  /\ match' \in MatchPlay /\ Reports!AsPlayed' /\ UNCHANGED <<late, listing>>
           /\ match.at # "over"
           /\ \/ fixture' = [fixture EXCEPT !.ninety = IF fixture.score # Reports!Null
                                                      /\ fixture.score.reg = match.reg
                                             THEN "held" ELSE "missed"]
                 /\ match'.reg = match.reg
              \/ fixture' = fixture
                 /\ (match'.et # Reports!Null => match.et # Reports!Null /\ match'.reg = match.reg)
<1>1. match \in MatchPlay /\ Reports!AsPlayed
  BY DEF Reports!ReportsIInv, Reports!ReportsTypeOK, MatchPlay
<1>2. UNCHANGED <<late, listing>> /\ match.at # "over"
  BY DEF Reports!Whistle
<1>3. Reports!Nil0 \in Reports!Known /\ Reports!Level(Reports!Nil0)
      /\ Reports!Nil0 # Reports!Null
  BY GoalsAdd DEF Reports!Known, Reports!Level, Reports!Nil0
<1>4. CASE match.at = "reg"
  <2>1. match.et = Reports!Null /\ match.pens = Reports!Null
    BY <1>1, <1>4 DEF Reports!AsPlayed
  <2>2. fixture' = [fixture EXCEPT !.ninety = IF fixture.score # Reports!Null
                                             /\ fixture.score.reg = match.reg
                                             THEN "held" ELSE "missed"]
    BY <1>4 DEF Reports!Whistle
  <2>3. CASE match.stage # "group" /\ Reports!Level(match.reg)
    <3>1. match' = [match EXCEPT !.at = "et", !.et = Reports!Nil0]
      BY <1>4, <2>3 DEF Reports!Whistle
    <3>2. /\ match' \in MatchPlay /\ match'.at = "et" /\ match'.et = Reports!Nil0
          /\ match'.pens = match.pens /\ match'.reg = match.reg /\ match'.stage = match.stage
      BY <1>1, <1>3, <3>1 DEF MatchPlay
    <3> QED
      BY <1>2, <1>3, <2>1, <2>2, <2>3, <3>2 DEF Reports!AsPlayed, Reports!Level
  <2>4. CASE ~(match.stage # "group" /\ Reports!Level(match.reg))
    <3>1. match' = [match EXCEPT !.at = "over"]
      BY <1>4, <2>4 DEF Reports!Whistle
    <3>2. /\ match' \in MatchPlay /\ match'.at = "over" /\ match'.et = Reports!Null
          /\ match'.pens = Reports!Null /\ match'.reg = match.reg
      BY <1>1, <2>1, <3>1 DEF MatchPlay
    <3> QED
      BY <1>2, <2>2, <3>2 DEF Reports!AsPlayed
  <2> QED
    BY <2>3, <2>4
<1>5. CASE match.at = "et"
  <2>1. match.et # Reports!Null /\ match.pens = Reports!Null /\ fixture' = fixture
    BY <1>1, <1>5 DEF Reports!AsPlayed, Reports!Whistle
  <2>2. CASE Reports!Level(match.et)
    <3>1. match' = [match EXCEPT !.at = "pens", !.pens = Reports!Nil0]
      BY <1>5, <2>2 DEF Reports!Whistle
    <3>2. /\ match' \in MatchPlay /\ match'.at = "pens" /\ match'.et = match.et
          /\ match'.pens = Reports!Nil0 /\ match'.reg = match.reg
          /\ match'.stage = match.stage
      BY <1>1, <1>3, <3>1 DEF MatchPlay
    <3> QED
      BY <1>1, <1>2, <1>3, <2>1, <2>2, <3>2 DEF Reports!AsPlayed, Reports!Level
  <2>3. CASE ~Reports!Level(match.et)
    <3>1. match' = [match EXCEPT !.at = "over"]
      BY <1>5, <2>3 DEF Reports!Whistle
    <3>2. /\ match' \in MatchPlay /\ match'.at = "over" /\ match'.et = match.et
          /\ match'.pens = Reports!Null /\ match'.reg = match.reg
          /\ match'.stage = match.stage
      BY <1>1, <2>1, <3>1 DEF MatchPlay
    <3> QED
      BY <1>1, <1>2, <2>1, <3>2 DEF Reports!AsPlayed, Reports!Level
  <2> QED
    BY <2>2, <2>3
<1>6. CASE match.at = "pens"
  <2>1. /\ match.pens # Reports!Null /\ fixture' = fixture /\ ~Reports!Level(match.pens)
        /\ match' = [match EXCEPT !.at = "over"]
    BY <1>1, <1>6 DEF Reports!AsPlayed, Reports!Whistle
  <2>2. /\ match' \in MatchPlay /\ match'.at = "over" /\ match'.et = match.et
        /\ match'.pens = match.pens /\ match'.reg = match.reg /\ match'.stage = match.stage
    BY <1>1, <2>1 DEF MatchPlay
  <2> QED
    BY <1>1, <1>2, <2>1, <2>2 DEF Reports!AsPlayed, Reports!Level
<1> QED
  BY <1>4, <1>5, <1>6 DEF Reports!Whistle

(* Every step of the match, the polls, the imports and the administrator   *)
(* keeps the invariant.                                                    *)
LEMMA ReportsStep == ASSUME Reports!ReportsIInv, [Reports!ReportsNext]_reportVars
                     PROVE  Reports!ReportsIInv'
<1>1. /\ Reports!ReportsTypeOK /\ Reports!AsPlayed /\ Row(fixture)
      /\ match \in MatchPlay /\ listing \in [status : Reports!Statuses, named : BOOLEAN]
      /\ fixture \in Rows
  BY DEF Reports!ReportsIInv, Reports!ReportsTypeOK, Row, Rows, ScoreCells, MatchPlay
<1>2. match.known \in BOOLEAN /\ listing.named \in BOOLEAN
      /\ fixture.named \in BOOLEAN /\ fixture.ninety \in Reports!Ninety
      /\ fixture.scored \in BOOLEAN
  BY Zenon, <1>1 DEF MatchPlay, Rows
<1>3. ASSUME match' \in MatchPlay, Reports!AsPlayed', fixture' \in Rows, Reports!RowHolds(fixture)',
             listing' \in [status : Reports!Statuses, named : BOOLEAN]
      PROVE  Reports!ReportsIInv'
  BY <1>3 DEF Reports!ReportsIInv, Reports!ReportsTypeOK, Rows, ScoreCells, MatchPlay
\* The match stands still, as far as a row can tell.
<1>4. ASSUME match' \in MatchPlay, match'.at = match.at, match'.stage = match.stage,
             match'.reg = match.reg, match'.et = match.et, match'.pens = match.pens,
             Row(fixture'), listing' \in [status : Reports!Statuses, named : BOOLEAN]
      PROVE  Reports!ReportsIInv'
  <2>1. Reports!AsPlayed'
    BY <1>1, <1>4 DEF Reports!AsPlayed
  <2>2. Reports!Credit' = Reports!Credit
    BY <1>4 DEF Reports!Credit, Reports!WentThrough, Reports!Play
  <2>3. fixture' \in Rows /\ Reports!RowHolds(fixture')
    BY <1>4, RowGives DEF Row
  <2>4. Reports!RowHolds(fixture)'
    BY <1>4, <2>2, <2>3 DEF Reports!RowHolds, Reports!PastRegulation
  <2> QED
    BY <1>3, <1>4, <2>1, <2>3, <2>4
<1>5. CASE Reports!Draw
  <2>1. match' = [match EXCEPT !.known = TRUE] /\ UNCHANGED <<late, listing, fixture>>
    BY <1>5 DEF Reports!Draw
  <2>2. /\ match'.at = match.at /\ match'.stage = match.stage
        /\ match'.reg = match.reg /\ match'.et = match.et /\ match'.pens = match.pens
    BY <1>1, <2>1 DEF MatchPlay
  <2>3. match' \in MatchPlay
    BY <1>1, <2>1 DEF MatchPlay
  <2> QED
    BY <1>1, <1>4, <2>1, <2>2, <2>3
<1>6. CASE Reports!KickOff \/ (\E i \in 1..2 : Reports!Goal(i) \/ Reports!Annul(i))
  <2>1. /\ match' \in MatchPlay /\ Reports!AsPlayed' /\ UNCHANGED <<late, listing, fixture>>
        /\ match.at # "over"
        /\ match'.et # Reports!Null => match.et # Reports!Null /\ match'.reg = match.reg
    BY <1>6, MatchMoves
  <2>2. Reports!RowHolds(fixture)'
    BY <1>1, <2>1 DEF Row, Reports!RowHolds, Reports!PastRegulation
  <2> QED
    BY <1>1, <1>3, <2>1, <2>2
<1>7. CASE Reports!Whistle
  <2>1. /\ match' \in MatchPlay /\ Reports!AsPlayed' /\ UNCHANGED <<late, listing>>
        /\ match.at # "over"
    BY <1>7, WhistleMoves
  <2>2. CASE /\ fixture' = [fixture EXCEPT !.ninety = IF fixture.score # Reports!Null
                                                     /\ fixture.score.reg = match.reg
                                             THEN "held" ELSE "missed"]
             /\ match'.reg = match.reg
    <3> DEFINE ninety == IF fixture.score # Reports!Null /\ fixture.score.reg = match.reg
                         THEN "held" ELSE "missed"
    <3>1. ninety \in Reports!Ninety /\ fixture' = [fixture EXCEPT !.ninety = ninety]
      BY <2>2 DEF Reports!Ninety
    <3>2. ninety = "held" => fixture.score # Reports!Null /\ fixture.score.reg = match.reg
      OBVIOUS
    <3> HIDE DEF ninety
    <3>3. /\ fixture'.status = fixture.status /\ fixture'.score = fixture.score
          /\ fixture' = [status |-> fixture.status, named |-> fixture.named,
                         score |-> fixture.score, ninety |-> ninety,
                         scored |-> fixture.scored]
      BY <1>1, <3>1 DEF Rows
    <3>4. fixture.status \in Reports!Statuses /\ fixture.score \in ScoreCells
      BY <1>1 DEF Rows
    <3>5. fixture' \in Rows /\ fixture'.ninety = ninety /\ (fixture'.scored => fixture.scored)
      BY Zenon, <1>2, <3>1, <3>3, <3>4 DEF Rows
    <3>6. Reports!RowHolds(fixture)'
      BY <1>1, <2>1, <2>2, <3>2, <3>3, <3>5 DEF Row, Reports!RowHolds, Reports!PastRegulation
    <3> QED
      BY <1>1, <1>3, <2>1, <3>5, <3>6
  <2>3. CASE /\ fixture' = fixture
             /\ match'.et # Reports!Null => match.et # Reports!Null /\ match'.reg = match.reg
    <3>1. Reports!RowHolds(fixture)'
      BY <1>1, <2>1, <2>3 DEF Row, Reports!RowHolds, Reports!PastRegulation
    <3> QED
      BY <1>1, <1>3, <2>1, <2>3, <3>1
  <2> QED
    BY <1>7, <2>2, <2>3, WhistleMoves
<1>8. CASE Reports!TimePasses \/ UNCHANGED reportVars
  BY <1>1, <1>4, <1>8 DEF Reports!TimePasses, reportVars
<1>9. CASE Reports!Poll
  <2>1. \A p \in Reports!FootballDataSays :
           /\ Faithful(Reports!FromFootballData(p))
           /\ Reports!FromFootballData(p).named \in BOOLEAN
           /\ Reports!FromFootballData(p).told \in BOOLEAN
    <3> TAKE p \in Reports!FootballDataSays
    <3>1. Faithful(Reports!FromFootballData(p))
      BY <1>1, FootballDataFaithful
    <3> QED
      BY Zenon, <1>2, <3>1 DEF Reports!FromFootballData
  <2>2. ASSUME NEW e \in Reports!LiveReports, e # Reports!NoReport
        PROVE  Faithful(e) /\ e.named \in BOOLEAN /\ e.told \in BOOLEAN
    <3>1. CASE e = Reports!Scoreboard
      <4>1. Reports!Scoreboard.named \in BOOLEAN /\ Reports!Scoreboard.told \in BOOLEAN
        BY Zenon, <1>2 DEF Reports!Scoreboard
      <4> QED
        BY <1>1, <3>1, <4>1, ScoreboardFaithful
    <3>2. ASSUME Reports!PastRegulation, NEW et \in Reports!Summaries, e = Reports!Enriched(et)
          PROVE  Faithful(e) /\ e.named \in BOOLEAN /\ e.told \in BOOLEAN
      <4>1. Reports!Enriched(et).named \in BOOLEAN /\ Reports!Enriched(et).told \in BOOLEAN
        BY Zenon, <1>2 DEF Reports!Scoreboard, Reports!Enriched
      <4> QED
        BY <1>1, <3>2, <4>1, EnrichedFaithful
    <3>3. CASE \E p \in Reports!FootballDataSays : e = Reports!FromFootballData(p)
      BY <2>1, <3>3
    <3> QED
      BY Zenon, <2>2, <3>1, <3>2, <3>3 DEF Reports!LiveReports, Reports!EspnSays
  <2>3. PICK e \in Reports!LiveReports :
           LET x == IF Reports!Found(fixture, e) THEN Reports!Written(fixture, e) ELSE fixture
           IN  IF Reports!Unresolved(x) /\ ~(Reports!Found(fixture, e) /\ Reports!Seen(fixture, e))
               THEN fixture' \in {x} \cup {Reports!Written(x, Reports!FromFootballData(p)) :
                                              p \in Reports!FootballDataSays}
               ELSE fixture' = x
    BY Zenon, <1>9 DEF Reports!Poll
  <2>4. PICK x : x = IF Reports!Found(fixture, e) THEN Reports!Written(fixture, e) ELSE fixture
    OBVIOUS
  <2>5. Row(x)
    <3>1. CASE Reports!Found(fixture, e)
      <4>1. e # Reports!NoReport
        BY <3>1 DEF Reports!Found
      <4>2. Faithful(e) /\ e.named \in BOOLEAN /\ e.told \in BOOLEAN
        BY <2>2, <4>1
      <4> QED
        BY <1>1, <2>4, <3>1, <4>2, WrittenHolds
    <3>2. CASE ~Reports!Found(fixture, e)
      BY <1>1, <2>4, <3>2
    <3> QED
      BY <3>1, <3>2
  <2>6. fixture' = x \/ \E p \in Reports!FootballDataSays :
                            fixture' = Reports!Written(x, Reports!FromFootballData(p))
    BY <2>3, <2>4
  <2>7. Row(fixture')
    BY <1>1, <2>1, <2>5, <2>6, WrittenHolds
  <2>8. UNCHANGED <<match, late, listing>>
    BY <1>9 DEF Reports!Poll
  <2> QED
    BY <1>1, <1>4, <2>7, <2>8
\* A status, and perhaps a name, written over the row.
<1>10. ASSUME NEW st \in Reports!Statuses, NEW named \in BOOLEAN, NEW scored \in BOOLEAN,
              scored => st = fixture.status /\ fixture.scored,
              fixture' = [fixture EXCEPT !.status = st, !.named = named, !.scored = scored]
       PROVE  Row(fixture')
  <2>1. fixture' = [status |-> st, named |-> named, score |-> fixture.score,
                    ninety |-> fixture.ninety, scored |-> scored]
    BY <1>1, <1>10 DEF Rows
  <2>2. /\ fixture.score \in ScoreCells
        /\ fixture.ninety = "held" =>
              fixture.score # Reports!Null
              /\ (Reports!PastRegulation => fixture.score.reg = match.reg)
        /\ fixture.status = "finished" /\ fixture.scored /\ fixture.score # Reports!Null =>
              match.at = "over" /\ Reports!Outcome(fixture.score) \in Reports!Credit
        /\ fixture.score # Reports!Null /\ fixture.score.et # Reports!Null =>
              Reports!AtMost(fixture.score.reg, fixture.score.et)
    BY <1>1, RowGives
  <2>3. fixture.ninety \in Reports!Ninety /\ (scored => st = fixture.status /\ fixture.scored)
    BY <1>2, <1>10
  <2> QED
    BY ONLY <2>1, <2>2, <2>3, RowIs, st \in Reports!Statuses, named \in BOOLEAN, scored \in BOOLEAN
<1>11. ASSUME NEW r \in [status : Reports!Statuses, named : BOOLEAN], Reports!Upsert(r)
       PROVE  Row(fixture')
  <2> DEFINE scored == r.status = fixture.status /\ fixture.scored
  <2>1. r.status \in Reports!Statuses
    OBVIOUS
  <2>2. r.named \in BOOLEAN
    BY Zenon
  <2>3. scored \in BOOLEAN /\ (scored => r.status = fixture.status /\ fixture.scored)
    OBVIOUS
  <2>4. fixture' = [fixture EXCEPT !.status = r.status, !.named = r.named, !.scored = scored]
    BY Zenon, <1>11 DEF Reports!Upsert
  <2> HIDE DEF scored
  <2> QED
    BY <1>10, <2>1, <2>2, <2>3, <2>4
<1>12. CASE Reports!SyncFromApi
  <2>1. PICK st \in Reports!FootballDataStatuses :
           LET r == [status |-> st, named |-> match.known]
           IN  Reports!Upsert(r) /\ listing' \in {listing, r}
    BY Zenon, <1>12 DEF Reports!SyncFromApi
  <2>2. st \in Reports!Statuses
    BY DEF Reports!FootballDataStatuses, Reports!Statuses
  <2> DEFINE r == [status |-> st, named |-> match.known]
  <2>3. r \in [status : Reports!Statuses, named : BOOLEAN]
    BY Zenon, <1>2, <2>2
  <2>4. Reports!Upsert(r) /\ listing' \in {listing, r}
    BY <2>1
  <2>5. UNCHANGED <<match, late>>
    BY <1>12 DEF Reports!SyncFromApi
  <2> HIDE DEF r
  <2> QED
    BY <1>1, <1>4, <1>11, <2>3, <2>4, <2>5
<1>13. CASE Reports!SyncFromCache
  BY <1>1, <1>4, <1>11, <1>13 DEF Reports!SyncFromCache
<1>14. ASSUME NEW st \in {"scheduled", "live", "finished"}, Reports!SetStatus(st)
       PROVE  Reports!ReportsIInv'
  <2> DEFINE scored == st = fixture.status /\ fixture.scored
  <2>1. scored \in BOOLEAN /\ (scored => st = fixture.status /\ fixture.scored)
    OBVIOUS
  <2>2. fixture' = [fixture EXCEPT !.status = st, !.scored = scored]
        /\ UNCHANGED <<match, late, listing>>
    BY Zenon, <1>14 DEF Reports!SetStatus
  <2> HIDE DEF scored
  <2>3. fixture' = [status |-> st, named |-> fixture.named, score |-> fixture.score,
                    ninety |-> fixture.ninety, scored |-> scored]
    BY <1>1, <2>2 DEF Rows
  <2>4. /\ fixture.score \in ScoreCells
        /\ fixture.ninety = "held" =>
              fixture.score # Reports!Null
              /\ (Reports!PastRegulation => fixture.score.reg = match.reg)
        /\ fixture.status = "finished" /\ fixture.scored /\ fixture.score # Reports!Null =>
              match.at = "over" /\ Reports!Outcome(fixture.score) \in Reports!Credit
        /\ fixture.score # Reports!Null /\ fixture.score.et # Reports!Null =>
              Reports!AtMost(fixture.score.reg, fixture.score.et)
    BY <1>1, RowGives
  <2>5. Row(fixture')
    BY <1>2, <2>1, <2>3, <2>4, RowIs DEF Reports!Statuses
  <2> QED
    BY <1>1, <1>4, <2>2, <2>5
<1> QED
  BY <1>5, <1>6, <1>7, <1>8, <1>9, <1>12, <1>13, <1>14 DEF Reports!ReportsNext

(* The match is as it is played and the row true of it, at any time.       *)
LEMMA ReportsInvariant ==
    Reports!ReportsSpec => []Reports!ReportsIInv
<1>1. Reports!ReportsInit => Reports!ReportsIInv
  <2> SUFFICES ASSUME Reports!ReportsInit PROVE Reports!ReportsIInv
    OBVIOUS
  <2>1. PICK s \in {"group", "knockout", "third_place"} :
           match = [stage |-> s, at |-> "before", known |-> s = "group", reg |-> Reports!Nil0,
                    et |-> Reports!Null, pens |-> Reports!Null]
    BY Zenon DEF Reports!ReportsInit
  <2> DEFINE known == s = "group"
  <2>2. known \in BOOLEAN /\ match = [stage |-> s, at |-> "before", known |-> known,
                    reg |-> Reports!Nil0, et |-> Reports!Null, pens |-> Reports!Null]
    BY <2>1
  <2> HIDE DEF known
  <2>3. /\ Reports!Nil0 \in Reports!Goals /\ Reports!Null \in Reports!Known
        /\ Reports!Null \in ScoreCells /\ "scheduled" \in Reports!Statuses
        /\ "before" \in {"before", "reg", "et", "pens", "over"}
    BY GoalsAdd DEF Reports!Known, ScoreCells, Reports!Statuses
  <2>4. match \in MatchPlay
    BY Zenon, <2>2, <2>3 DEF MatchPlay
  <2>5. match.at = "before" /\ match.et = Reports!Null /\ match.pens = Reports!Null
    BY <2>2
  <2>6. match.known \in BOOLEAN
    BY Zenon, <2>4 DEF MatchPlay
  <2>7. /\ listing = [status |-> "scheduled", named |-> match.known]
        /\ fixture = [status |-> "scheduled", named |-> match.known, score |-> Reports!Null,
                      ninety |-> "missed", scored |-> TRUE]
    BY DEF Reports!ReportsInit
  <2>8. listing \in [status : Reports!Statuses, named : BOOLEAN]
    BY Zenon, <2>3, <2>6, <2>7
  <2>9. fixture \in Rows
    BY Zenon, <2>3, <2>6, <2>7 DEF Rows, Reports!Ninety
  <2>10. fixture.ninety = "missed" /\ fixture.status = "scheduled" /\ fixture.score = Reports!Null
    BY <2>7
  <2> QED
    BY <2>4, <2>5, <2>8, <2>9, <2>10
       DEF Reports!ReportsIInv, Reports!ReportsTypeOK, Reports!AsPlayed, Reports!RowHolds, MatchPlay,
           Rows, ScoreCells
<1> QED
  BY <1>1, ReportsStep, PTL DEF Reports!ReportsSpec, Reports!reportVars, reportVars

(* The 90-minute result is kept and no final credits the wrong team, for   *)
(* any number of goals, reports and imports.                               *)
THEOREM ReportsStayTrue ==
    Reports!ReportsSpec => []ReportsAreTrue
<1>1. Reports!ReportsIInv => ReportsAreTrue
  <2> SUFFICES ASSUME Reports!ReportsIInv PROVE ReportsAreTrue
    OBVIOUS
  <2>1. fixture.ninety \in Reports!Ninety
    BY DEF Reports!ReportsIInv, Reports!ReportsTypeOK
  <2> QED
    BY <2>1 DEF Reports!ReportsIInv, Reports!RowHolds, ReportsAreTrue, Reports!NinetyKept,
                Reports!FinalsAreTrue, Reports!Ninety
<1> QED
  BY <1>1, ReportsInvariant, PTL

(***************************************************************************)
(* The forecast.                                                           *)
(***************************************************************************)

\* What the forecast in hand and the one being computed are made of.
Forecasts == [there : BOOLEAN, stale : BOOLEAN, dead : SUBSET Entries,
              results : [Matches -> 0..2], tags : SUBSET Tags]
Builds == [stage : {"none", "started", "bracket", "pool", "ready"},
           results : [Matches -> 0..2], paid : [Questions -> SUBSET Teams],
           open : SUBSET Questions, tags : SUBSET Tags]

(* The blank cache and the blank build.                                    *)
LEMMA BlankForecasts ==
    /\ NoCache \in Forecasts /\ ~NoCache.there
    /\ NoBuild \in Builds /\ NoBuild.stage = "none"
<1>1. None \in [Matches -> 0..2] /\ Unanswered \in [Questions -> SUBSET Teams]
      /\ {} \in SUBSET Entries /\ {} \in SUBSET Tags /\ {} \in SUBSET Questions
      /\ "none" \in {"none", "started", "bracket", "pool", "ready"}
  BY DEF None, Unanswered
<1>2. NoCache \in Forecasts
  BY Zenon, <1>1 DEF NoCache, Forecasts
<1>3. ~NoCache.there
  BY Zenon DEF NoCache
<1>4. NoBuild \in Builds /\ NoBuild.stage = "none"
  BY <1>1 DEF NoBuild, Builds
<1> QED
  BY <1>2, <1>3, <1>4

(* A tag that applies makes a forecast one that has missed something.      *)
LEMMA TagsStay ==
    ASSUME NEW tag \in Tags, cache \in Forecasts, build \in Builds
    PROVE  /\ Tagged(cache, tag, cache.there) \in Forecasts
           /\ Tagged(cache, tag, cache.there).there = cache.there
           /\ Tagged(cache, tag, cache.there).results = cache.results
           /\ cache.there => Tagged(cache, tag, cache.there).tags # {}
           /\ Tagged(build, tag, Reading) \in Builds
           /\ Tagged(build, tag, Reading).stage = build.stage
           /\ Tagged(build, tag, Reading).results = build.results
           /\ Reading => Tagged(build, tag, Reading).tags # {}
<1>1. PICK c : c = Tagged(cache, tag, cache.there)
  OBVIOUS
<1>2. PICK b : b = Tagged(build, tag, Reading)
  OBVIOUS
<1>3. c \in Forecasts /\ c.there = cache.there /\ c.results = cache.results
      /\ (cache.there => c.tags # {})
  <2>1. CASE cache.there
    <3>1. c = [cache EXCEPT !.tags = cache.tags \cup {tag}]
      BY Zenon, <1>1, <2>1 DEF Tagged
    <3>2. c = [there |-> cache.there, stale |-> cache.stale, dead |-> cache.dead,
               results |-> cache.results, tags |-> cache.tags \cup {tag}]
      BY ONLY <3>1, cache \in Forecasts DEF Forecasts
    <3>3. cache.tags \cup {tag} \in SUBSET Tags /\ cache.dead \in SUBSET Entries
          /\ cache.results \in [Matches -> 0..2]
      BY DEF Forecasts
    <3>4. cache.there \in BOOLEAN /\ cache.stale \in BOOLEAN
      BY Zenon DEF Forecasts
    <3>5. c \in Forecasts /\ c.there = cache.there
      BY ONLY Zenon, <3>2, <3>3, <3>4 DEF Forecasts
    <3> QED
      BY <3>2, <3>5
  <2>2. CASE ~cache.there
    BY <1>1, <2>2 DEF Tagged
  <2> QED
    BY <2>1, <2>2
<1>4. b \in Builds /\ b.stage = build.stage /\ b.results = build.results
      /\ (Reading => b.tags # {})
  BY <1>2 DEF Tagged, Builds
<1> QED
  BY <1>1, <1>2, <1>3, <1>4

(* Every step of the bracket, the cache and the build keeps the invariant. *)
LEMMA ForecastStep == ASSUME ForecastIInv, [Next]_vars PROVE ForecastIInv'
<1>0. /\ seeded \in BOOLEAN /\ signal \in BOOLEAN /\ edits \in 0..MaxEdits
      /\ results \in [Matches -> 0..2] /\ answers \in [Questions -> SUBSET Teams]
      /\ \A q \in Questions : answers[q] \in AnswerSets[q]
      /\ cache \in Forecasts /\ build \in Builds
      /\ cache.there /\ cache.tags = {} /\ ~signal => cache.results = results
      /\ Reading /\ build.tags = {} /\ ~signal => build.results = results
  BY DEF ForecastIInv, TypeOK, Forecasts, Builds, FinishIsKnown
<1> SUFFICES
      /\ seeded' \in BOOLEAN /\ signal' \in BOOLEAN /\ edits' \in 0..MaxEdits
      /\ results' \in [Matches -> 0..2] /\ answers' \in [Questions -> SUBSET Teams]
      /\ \A q \in Questions : answers'[q] \in AnswerSets[q]
      /\ cache' \in Forecasts /\ build' \in Builds
      /\ cache'.there /\ cache'.tags = {} /\ ~signal' => cache'.results = results'
      /\ Reading' /\ build'.tags = {} /\ ~signal' => build'.results = results'
  BY DEF ForecastIInv, TypeOK, Forecasts, Builds, FinishIsKnown
<1>1. CASE SeedRound
  BY <1>0, <1>1 DEF SeedRound, Reading
<1>2. ASSUME NEW m \in Matches, NEW side \in 1..2, FinishMatch(m, side)
      PROVE  /\ results' \in [Matches -> 0..2] /\ signal' = TRUE
             /\ UNCHANGED <<seeded, answers, edits, cache, build>>
  BY <1>0, <1>2 DEF FinishMatch
<1>3. ASSUME NEW tag \in Tags, Tell(tag)
      PROVE  /\ cache' \in Forecasts /\ build' \in Builds
             /\ ~(cache'.there /\ cache'.tags = {}) /\ ~(Reading' /\ build'.tags = {})
  BY <1>0, <1>3, TagsStay DEF Tell, Reading
<1>b. ASSUME NEW m \in Matches, NEW side \in 1..2, FinishByHand(m, side)
      PROVE  /\ results' \in [Matches -> 0..2] /\ Tell("byhand")
             /\ UNCHANGED <<seeded, answers, edits, signal>>
  BY <1>0, <1>b DEF FinishByHand
<1>4. ASSUME NEW m \in Matches, TakeBack(m)
      PROVE  /\ edits' \in 0..MaxEdits /\ results' \in [Matches -> 0..2] /\ Tell("undone")
             /\ UNCHANGED <<seeded, answers, signal>>
  <2>1. results[m] \in 1..2
    BY <1>0, <1>4 DEF TakeBack
  <2>2. results' \in [Matches -> 0..2]
    BY <1>0, <1>4, <2>1 DEF TakeBack
  <2> QED
    BY <1>0, <1>4, <2>2, AnswerAssumption DEF TakeBack
<1>5. ASSUME NEW q \in Questions, NEW correct \in AnswerSets[q], Answer(q, correct)
      PROVE  /\ edits' \in 0..MaxEdits /\ answers' \in [Questions -> SUBSET Teams]
             /\ \A p \in Questions : answers'[p] \in AnswerSets[p]
             /\ Tell("answered") /\ UNCHANGED <<seeded, results, signal>>
  BY <1>0, <1>5, AnswerAssumption DEF Answer
<1>6. CASE Invalidate
  <2>1. /\ cache' = NoCache /\ build' = Tagged(build, "race", Reading) /\ signal' = FALSE
        /\ UNCHANGED <<seeded, results, answers, edits>>
    BY <1>6 DEF Invalidate
  <2>2. "race" \in Tags
    BY DEF Tags
  <2> QED
    BY <1>0, <2>1, <2>2, TagsStay, BlankForecasts DEF Reading
<1>7. CASE Expire
  <2>1. cache' = [cache EXCEPT !.stale = TRUE]
        /\ UNCHANGED <<seeded, results, answers, edits, signal, build>>
    BY <1>7 DEF Expire
  <2> PICK yes \in BOOLEAN : yes = TRUE
    OBVIOUS
  <2>2. cache' = [there |-> cache.there, stale |-> yes, dead |-> cache.dead,
                  results |-> cache.results, tags |-> cache.tags]
    BY <1>0, <2>1 DEF Forecasts
  <2>3. cache.there \in BOOLEAN
    BY Zenon, <1>0 DEF Forecasts
  <2>4. cache.dead \in SUBSET Entries /\ cache.results \in [Matches -> 0..2]
        /\ cache.tags \in SUBSET Tags
    BY <1>0 DEF Forecasts
  <2>5. cache' \in Forecasts /\ cache'.there = cache.there
    BY ONLY Zenon, <2>2, <2>3, <2>4, yes \in BOOLEAN DEF Forecasts
  <2>6. cache'.results = cache.results /\ cache'.tags = cache.tags
    BY ONLY <2>2
  <2> QED
    BY <1>0, <2>1, <2>5, <2>6 DEF Reading
<1>8. CASE Start
  BY <1>0, <1>8, BlankForecasts DEF Start, Builds, Reading
<1>9. CASE ReadBracket
  <2>1. build' \in Builds /\ build'.results = results
        /\ (build'.tags = {} => ~signal)
    BY <1>0, <1>9 DEF ReadBracket, Builds, Tags
  <2> QED
    BY <1>0, <1>9, <2>1 DEF ReadBracket
<1>10. CASE ReadPool
  BY <1>0, <1>10 DEF ReadPool, Builds, Reading
<1>11. CASE ReadOpen
  BY <1>0, <1>11 DEF ReadOpen, Builds, Reading
<1>12. CASE Store
  <2> DEFINE dead == Dead(Read(build))
  <2>1. dead \in SUBSET Entries
    BY DEF Dead
  <2>2. /\ cache' = [there |-> TRUE, stale |-> FALSE, dead |-> dead,
                     results |-> build.results, tags |-> build.tags]
        /\ build' = NoBuild /\ UNCHANGED <<seeded, results, answers, edits, signal>>
    BY Zenon, <1>12 DEF Store
  <2> HIDE DEF dead
  <2>3. build.results \in [Matches -> 0..2] /\ build.tags \in SUBSET Tags
    BY <1>0 DEF Builds
  <2>4. cache' \in Forecasts
    BY ONLY Zenon, <2>1, <2>2, <2>3 DEF Forecasts
  <2>5. cache'.results = build.results /\ cache'.tags = build.tags
    BY <2>2
  <2>6. Reading
    BY <1>12 DEF Store, Reading
  <2> QED
    BY <1>0, <2>2, <2>4, <2>5, <2>6, BlankForecasts DEF Reading
<1>13. CASE Fail
  BY <1>0, <1>13, BlankForecasts DEF Fail, Reading
<1>14. CASE UNCHANGED vars
  BY <1>0, <1>14 DEF vars, Reading
<1>15. CASE \E m \in Matches : TakeBack(m)
  BY <1>0, <1>3, <1>4, <1>15 DEF Tags, Reading
<1>17. CASE \E m \in Matches : \E side \in 1..2 : FinishMatch(m, side) \/ FinishByHand(m, side)
  BY <1>0, <1>2, <1>3, <1>b, <1>17 DEF Tags, Reading
<1>16. CASE \E q \in Questions : \E correct \in AnswerSets[q] : Answer(q, correct)
  BY <1>0, <1>3, <1>5, <1>16 DEF Tags
<1> QED
  BY <1>1, <1>6, <1>7, <1>8, <1>9, <1>10, <1>11, <1>12, <1>13, <1>14, <1>15, <1>16,
     <1>17 DEF Next

(* The invariant of the forecast, at any time.                             *)
LEMMA ForecastInvariant == Spec => []ForecastIInv
<1>1. ASSUME Init PROVE ForecastIInv
  <2>1. /\ seeded = FALSE /\ signal = FALSE /\ edits = 0 /\ results = None /\ answers = Unanswered
        /\ cache = NoCache /\ build = NoBuild
    BY <1>1 DEF Init
  <2>2. cache \in Forecasts /\ build \in Builds /\ ~cache.there /\ ~Reading
    BY <2>1, BlankForecasts DEF Reading
  <2>3. /\ results \in [Matches -> 0..2] /\ answers \in [Questions -> SUBSET Teams]
        /\ \A q \in Questions : answers[q] \in AnswerSets[q]
        /\ edits \in 0..MaxEdits
    BY <2>1, AnswerAssumption DEF None, Unanswered
  <2> QED
    BY <2>1, <2>2, <2>3 DEF ForecastIInv, TypeOK, FinishIsKnown, Forecasts, Builds
<1> QED
  BY <1>1, ForecastStep, PTL DEF Spec

-----------------------------------------------------------------------------
(***************************************************************************)
(* The bracket of the forecast.  A fact holds of every match if it holds   *)
(* of a match whenever it holds of those before: the earliest match where  *)
(* it failed would be one of these.                                        *)
(***************************************************************************)

\* The rounds are finitely many and one match is the last.
LEMMA RoundFacts ==
    /\ LastRound \in Nat \ {0} /\ Champion = LastRound + 1
    /\ \A m \in Matches : Round[m] \in 1..LastRound
    /\ Final \in Matches /\ Round[Final] = LastRound
    /\ \A m \in Matches : Round[m] = LastRound => m = Final
<1> DEFINE S == {Round[m] : m \in Matches}
           L == {m \in Matches : Round[m] = LastRound}
<1>1. PICK f : L = {f}
  <2>1. IsFiniteSet(L) /\ Cardinality(L) = 1
    BY TreeAssumption, FS_Subset
  <2> HIDE DEF L
  <2> QED
    BY <2>1, FS_Singleton
<1>2. f \in Matches /\ Round[f] = LastRound /\ \A m \in Matches : Round[m] = LastRound => m = f
  BY <1>1
<1>3. Final = f
  BY <1>2 DEF Final
<1>4. IsFiniteSet(S) /\ S \subseteq Nat \ {0} /\ S # {}
  <2>1. Round \in Surjection(Matches, S)
    BY TreeAssumption DEF Surjection
  <2>2. IsFiniteSet(S)
    <3> HIDE DEF S
    <3> QED
      BY <2>1, TreeAssumption, FS_Surjection
  <2> QED
    BY <1>2, <2>2, TreeAssumption
<1>5. LastRound = Max(S)
  BY DEF LastRound
<1>6. LastRound \in S /\ \A n \in S : n <= LastRound
  <2> HIDE DEF S
  <2>1. S \subseteq Int
    BY <1>4
  <2> QED
    BY <1>4, <1>5, <2>1, GreatestOf
<1>7. \A m \in Matches : Round[m] \in S
  OBVIOUS
<1>8. LastRound \in Nat \ {0} /\ \A m \in Matches : Round[m] \in 1..LastRound
  <2> HIDE DEF S
  <2>1. \A n \in S : n \in Nat /\ n # 0 /\ n <= LastRound
    BY <1>4, <1>6
  <2>2. LastRound \in Nat \ {0}
    BY <1>6, <2>1
  <2>3. ASSUME NEW m \in Matches PROVE Round[m] \in 1..LastRound
    BY ONLY <1>7, <2>1, <2>2
  <2> QED
    BY <2>2, <2>3
<1> QED
  BY <1>2, <1>3, <1>8 DEF Champion

\* Of any matches one comes no later than the others.
LEMMA EarliestMatch ==
    ASSUME NEW B \in SUBSET Matches, B # {}
    PROVE  \E m \in B : \A n \in B : Round[m] <= Round[n]
<1> DEFINE S == {Round[m] : m \in B}
<1>1. S \in SUBSET (0..LastRound) /\ S # {} /\ LastRound \in Nat
  BY RoundFacts
<1> HIDE DEF S
<1>2. PICK k \in S : \A j \in S : k <= j
  BY <1>1, LeastIn
<1> QED
  BY <1>2 DEF S

\* A match that is not a first one is fed by two, of the round before.
LEMMA FedByTwo ==
    ASSUME NEW m \in Matches
    PROVE  /\ Feeders[m] = <<>> <=> Round[m] = 1
           /\ Feeders[m] # <<>> =>
                 \A s \in 1..2 : /\ Feeders[m][s] \in Matches
                                 /\ Round[Feeders[m][s]] = Round[m] - 1
                                 /\ ~(Round[m] <= Round[Feeders[m][s]])
           /\ Feeders[m] = <<>> => \A s \in 1..2 : FirstPair[m][s] \in Teams
<1>1. Feeders[m] # <<>> => Feeders[m] \in Matches \X Matches
  BY TreeAssumption
<1>2. \A s \in 1..2 : s = 1 \/ s = 2
  OBVIOUS
<1>3. Feeders[m] # <<>> => \A s \in 1..2 : Feeders[m][s] \in Matches
  BY <1>1, <1>2
<1>4. Feeders[m] # <<>> => \A s \in 1..2 : Round[Feeders[m][s]] = Round[m] - 1
  BY TreeAssumption
<1>5. Feeders[m] = <<>> => \A s \in 1..2 : FirstPair[m][s] \in Teams
  BY <1>2, TreeAssumption
<1>6. Feeders[m] = <<>> <=> Round[m] = 1
  BY TreeAssumption
<1> QED
  BY <1>3, <1>4, <1>5, <1>6, RoundFacts

\* The winner of a match, from the winners of those before.
Sent(w, o, m) == IF Feeders[m] = <<>> THEN FirstPair[m][o[m]] ELSE w[Feeders[m][o[m]]]

\* The winners exist, whatever the sides.
LEMMA WinnersExist ==
    ASSUME NEW o \in Outcomes
    PROVE  \E f : f = [m \in Matches |-> Sent(f, o, m)]
<1> DEFINE Upto(k) == {m \in Matches : Round[m] <= k}
           Good(k) == \E f : f = [m \in Upto(k) |-> Sent(f, o, m)]
           Bad == {k \in 0..LastRound : ~Good(k)}
<1>0. o \in [Matches -> 1..2]
  BY DEF Outcomes
<1>1. LastRound \in Nat
  BY RoundFacts
<1>2. Good(0)
  <2>1. Upto(0) = {}
    BY RoundFacts
  <2> DEFINE f == [m \in Upto(0) |-> 0]
  <2>2. f = [m \in Upto(0) |-> Sent(f, o, m)]
    BY <2>1
  <2> QED
    BY <2>2
<1>3. ASSUME NEW k \in 1..LastRound, Good(k - 1) PROVE Good(k)
  <2>1. PICK f : f = [m \in Upto(k - 1) |-> Sent(f, o, m)]
    BY <1>3
  <2> DEFINE g == [m \in Upto(k) |-> Sent(f, o, m)]
  <2>2. Upto(k - 1) \subseteq Upto(k)
    BY RoundFacts
  <2>3. \A m \in Upto(k - 1) : g[m] = f[m]
    BY <2>1, <2>2
  <2>4. ASSUME NEW m \in Upto(k) PROVE Sent(f, o, m) = Sent(g, o, m)
    <3>1. CASE Feeders[m] = <<>>
      BY <3>1 DEF Sent
    <3>2. CASE Feeders[m] # <<>>
      <4>1. Feeders[m][o[m]] \in Upto(k - 1)
        BY <1>0, <1>1, <3>2, FedByTwo, RoundFacts
      <4> HIDE DEF g, Upto
      <4>2. f[Feeders[m][o[m]]] = g[Feeders[m][o[m]]]
        BY <2>3, <4>1
      <4> QED
        BY <3>2, <4>2 DEF Sent
    <3> QED
      BY <3>1, <3>2
  <2>5. g = [m \in Upto(k) |-> Sent(g, o, m)]
    <3>1. \A h : h = [m \in Upto(k) |-> Sent(f, o, m)]
                 /\ (\A m \in Upto(k) : Sent(f, o, m) = Sent(h, o, m))
                 => h = [m \in Upto(k) |-> Sent(h, o, m)]
      <4> HIDE DEF Upto
      <4> QED
        BY DEF Upto
    <3> QED
      BY <2>4, <3>1
  <2> HIDE DEF g
  <2> QED
    BY <2>5
<1>4. Bad = {}
  <2> SUFFICES ASSUME Bad # {} PROVE FALSE
    OBVIOUS
  <2>1. Bad \in SUBSET (0..LastRound)
    OBVIOUS
  <2>2. PICK k \in Bad : \A j \in Bad : k <= j
    <3> HIDE DEF Bad
    <3> QED
      BY <1>1, <2>1, LeastIn
  <2> HIDE DEF Good
  <2>3. k # 0 /\ k \in 0..LastRound /\ ~Good(k)
    BY <1>2
  <2>4. k \in 1..LastRound /\ k - 1 \in 0..LastRound /\ ~(k <= k - 1)
    BY <1>1, <2>3
  <2>5. Good(k - 1)
    BY <2>2, <2>4
  <2> QED
    BY <1>3, <2>3, <2>4, <2>5
<1>5. Good(LastRound)
  <2> HIDE DEF Good
  <2> QED
    BY <1>1, <1>4
<1>6. Upto(LastRound) = Matches
  BY RoundFacts
<1> QED
  BY <1>5, <1>6

\* The winner of a match is one of its two sides.
LEMMA WinnersHold ==
    ASSUME NEW o \in Outcomes, NEW m \in Matches
    PROVE  /\ o[m] \in 1..2
           /\ Winners[o][m] = Side(o, m, o[m])
<1> DEFINE Is(h) == h = [n \in Matches |-> IF Feeders[n] = <<>> THEN FirstPair[n][o[n]]
                                                                ELSE h[Feeders[n][o[n]]]]
<1>1. PICK f : f = [n \in Matches |-> Sent(f, o, n)]
  BY WinnersExist
<1>2. Is(f)
  BY <1>1 DEF Sent
<1>3. WinnersOf(o) = CHOOSE h : Is(h)
  BY Zenon DEF WinnersOf
<1>4. Is(WinnersOf(o))
  <2> HIDE DEF Is
  <2> QED
    BY <1>2, <1>3, Zenon
<1>5. Winners[o] = WinnersOf(o)
  BY DEF Winners
<1>6. Winners[o][m] = IF Feeders[m] = <<>> THEN FirstPair[m][o[m]]
                                           ELSE Winners[o][Feeders[m][o[m]]]
  BY <1>4, <1>5
<1>7. o[m] \in 1..2
  BY DEF Outcomes
<1> QED
  BY <1>6, <1>7 DEF Side

\* Every side is a team.
LEMMA SidesAreTeams ==
    ASSUME NEW o \in Outcomes, NEW m \in Matches
    PROVE  /\ \A s \in 1..2 : Side(o, m, s) \in Teams
           /\ Winners[o][m] \in Teams
<1> DEFINE Bad == {n \in Matches : \E s \in 1..2 : Side(o, n, s) \notin Teams}
<1>1. Bad = {}
  <2> SUFFICES ASSUME Bad # {} PROVE FALSE
    OBVIOUS
  <2>1. PICK n \in Bad : \A k \in Bad : Round[n] <= Round[k]
    <3>1. Bad \in SUBSET Matches
      OBVIOUS
    <3> HIDE DEF Bad
    <3> QED
      BY <3>1, EarliestMatch
  <2>2. PICK s \in 1..2 : Side(o, n, s) \notin Teams
    OBVIOUS
  <2>3. CASE Feeders[n] = <<>>
    BY <2>2, <2>3, FedByTwo DEF Side
  <2>4. CASE Feeders[n] # <<>>
    <3> DEFINE k == Feeders[n][s]
    <3>1. k \in Matches /\ ~(Round[n] <= Round[k])
      BY <2>4, FedByTwo
    <3>2. Side(o, n, s) = Winners[o][k]
      BY <2>4 DEF Side
    <3>3. k \notin Bad
      <4> HIDE DEF Bad
      <4> QED
        BY <2>1, <3>1
    <3>4. Winners[o][k] \in Teams
      BY <3>1, <3>3, WinnersHold
    <3> QED
      BY <2>2, <3>2, <3>4
  <2> QED
    BY <2>3, <2>4
<1>2. \A n \in Matches : \A s \in 1..2 : Side(o, n, s) \in Teams
  BY <1>1
<1> QED
  BY <1>2, WinnersHold

\* The sides of one round are different teams.
LEMMA SidesDiffer ==
    ASSUME NEW o \in Outcomes, NEW m \in Matches, NEW n \in Matches, Round[m] = Round[n],
           NEW s \in 1..2, NEW t \in 1..2, Side(o, m, s) = Side(o, n, t)
    PROVE  m = n /\ s = t
<1> DEFINE Bad == {a \in Matches : \E b \in Matches : \E i, j \in 1..2 :
                      Round[a] = Round[b] /\ Side(o, a, i) = Side(o, b, j) /\ ~(a = b /\ i = j)}
<1>1. Bad = {}
  <2> SUFFICES ASSUME Bad # {} PROVE FALSE
    OBVIOUS
  <2>1. PICK a \in Bad : \A k \in Bad : Round[a] <= Round[k]
    <3>1. Bad \in SUBSET Matches
      OBVIOUS
    <3> HIDE DEF Bad
    <3> QED
      BY <3>1, EarliestMatch
  <2>2. PICK b \in Matches, i \in 1..2, j \in 1..2 :
           Round[a] = Round[b] /\ Side(o, a, i) = Side(o, b, j) /\ ~(a = b /\ i = j)
    OBVIOUS
  <2>3. a \in Matches
    OBVIOUS
  <2> HIDE DEF Bad
  <2>4. CASE Feeders[a] = <<>>
    <3>1. Feeders[b] = <<>>
      BY <2>2, <2>3, <2>4, FedByTwo
    <3>2. FirstPair[a][i] = FirstPair[b][j]
      BY <2>2, <2>4, <3>1 DEF Side
    <3> QED
      BY <2>2, <2>3, <2>4, <3>1, <3>2, TreeAssumption
  <2>5. CASE Feeders[a] # <<>>
    <3> DEFINE f == Feeders[a][i]
               g == Feeders[b][j]
    <3>1. Feeders[b] # <<>>
      BY <2>2, <2>3, <2>5, FedByTwo
    <3>2. f \in Matches /\ g \in Matches /\ Round[f] = Round[g] /\ ~(Round[a] <= Round[f])
      BY <2>2, <2>3, <2>5, <3>1, FedByTwo
    <3>3. Winners[o][f] = Winners[o][g]
      BY <2>2, <2>5, <3>1 DEF Side
    <3>4. Side(o, f, o[f]) = Side(o, g, o[g]) /\ o[f] \in 1..2 /\ o[g] \in 1..2
      BY <3>2, <3>3, WinnersHold
    <3>5. f \notin Bad
      <4> HIDE DEF f
      <4> QED
        BY <2>1, <3>2
    <3>6. f = g
      <4> HIDE DEF f, g
      <4> QED
        BY <3>2, <3>4, <3>5 DEF Bad
    <3> QED
      BY <2>2, <2>3, <2>5, <3>1, <3>6, TreeAssumption
  <2> QED
    BY <2>4, <2>5
<1>2. m \notin Bad
  BY <1>1
<1> QED
  BY <1>2

\* Who wins a match that is not the last plays one of the next round.
LEMMA WinnersPlayOn ==
    ASSUME NEW o \in Outcomes, NEW m \in Matches, m # Final
    PROVE  \E n \in Matches : Round[n] = Round[m] + 1 /\ Winners[o][m] \in Pairing(o, n)
<1>1. Round[m] < LastRound
  BY RoundFacts
<1>2. PICK n \in Matches : Feeders[n] # <<>> /\ \E s \in 1..2 : Feeders[n][s] = m
  BY <1>1, TreeAssumption
<1>3. PICK s \in 1..2 : Feeders[n][s] = m
  BY <1>2
<1>4. Side(o, n, s) = Winners[o][m] /\ (s = 1 \/ s = 2)
  BY <1>2, <1>3 DEF Side
<1>5. Round[m] = Round[n] - 1
  BY <1>2, <1>3, FedByTwo
<1>6. Round[n] = Round[m] + 1
  BY <1>5, RoundFacts
<1> QED
  BY <1>4, <1>6 DEF Pairing

\* Who plays a match has played one of every round before.
LEMMA PlayedBefore ==
    ASSUME NEW o \in Outcomes, NEW t, NEW m \in Matches, t \in Pairing(o, m),
           NEW n \in 1..Round[m]
    PROVE  \E k \in Matches : Round[k] = n /\ t \in Pairing(o, k)
<1> SUFFICES ASSUME ~\E k \in Matches : Round[k] = n /\ t \in Pairing(o, k) PROVE FALSE
  OBVIOUS
<1> DEFINE Bad == {k \in Matches : t \in Pairing(o, k) /\ n <= Round[k]}
<1>1. m \in Bad
  BY RoundFacts
<1>2. PICK a \in Bad : \A k \in Bad : Round[a] <= Round[k]
  <2>1. Bad \in SUBSET Matches
    OBVIOUS
  <2> HIDE DEF Bad
  <2> QED
    BY <1>1, <2>1, EarliestMatch
<1>3. a \in Matches /\ t \in Pairing(o, a) /\ n <= Round[a] /\ Round[a] # n
  OBVIOUS
<1>4. PICK s \in 1..2 : t = Side(o, a, s)
  BY <1>3 DEF Pairing
<1>5. n \in Nat /\ n > 0 /\ Round[a] \in Nat /\ Round[a] # 1
  BY <1>3, RoundFacts
<1>6. Feeders[a] # <<>>
  BY <1>3, <1>5, FedByTwo
<1> DEFINE f == Feeders[a][s]
<1>7. f \in Matches /\ Round[f] = Round[a] - 1 /\ ~(Round[a] <= Round[f])
  BY <1>3, <1>6, FedByTwo
<1>8. t = Winners[o][f]
  BY <1>4, <1>6 DEF Side
<1>9. t \in Pairing(o, f)
  <2>1. o[f] = 1 \/ o[f] = 2
    BY <1>7, WinnersHold
  <2> QED
    BY <1>7, <1>8, <2>1, WinnersHold DEF Pairing
<1>10. n <= Round[f]
  BY <1>3, <1>5, <1>7
<1>11. f \in Bad
  BY <1>7, <1>9, <1>10
<1> HIDE DEF f, Bad
<1> QED
  BY <1>2, <1>7, <1>11

\* What a team has done in a completion: the rounds it plays, and one more for a win.
PlaysIn(o, t) == {Round[m] : m \in {m \in Matches : t \in Pairing(o, m)}}
WinsIn(o, t) == {Round[m] + 1 : m \in {m \in Matches : Winners[o][m] = t}}
Deeds(o, t) == {0} \cup PlaysIn(o, t) \cup WinsIn(o, t)

LEMMA DeedsAreRounds ==
    ASSUME NEW o \in Outcomes, NEW t \in Teams
    PROVE  /\ PlaysIn(o, t) \subseteq 1..LastRound /\ WinsIn(o, t) \subseteq 1..Champion
           /\ Deeds(o, t) \subseteq 0..Champion
           /\ Advancement[o][t] \in Deeds(o, t)
           /\ \A n \in Deeds(o, t) : n <= Advancement[o][t]
           /\ Champion \in WinsIn(o, t) <=> Winners[o][Final] = t
           /\ \A n \in WinsIn(o, t) : n # Champion => n \in PlaysIn(o, t)
<1>1. Advancement[o][t] = Max(Deeds(o, t))
  BY Zenon DEF Advancement, PlaysIn, WinsIn, Deeds
<1>2. PlaysIn(o, t) \subseteq 1..LastRound /\ WinsIn(o, t) \subseteq 1..Champion
  BY RoundFacts DEF PlaysIn, WinsIn
<1>3. Deeds(o, t) \subseteq 0..Champion
  BY <1>2, RoundFacts DEF Deeds
<1>6. Max(Deeds(o, t)) \in Deeds(o, t) /\ \A n \in Deeds(o, t) : n <= Max(Deeds(o, t))
  <2>1. IsFiniteSet(0..Champion)
    BY FS_Interval, RoundFacts
  <2>2. IsFiniteSet(Deeds(o, t))
    BY <1>3, <2>1, FS_Subset
  <2>3. Deeds(o, t) \subseteq Int
    BY <1>3, RoundFacts
  <2>4. Deeds(o, t) # {}
    BY DEF Deeds
  <2> QED
    BY <2>2, <2>3, <2>4, GreatestOf
<1>4. Champion \in WinsIn(o, t) <=> Winners[o][Final] = t
  <2>1. ASSUME Champion \in WinsIn(o, t) PROVE Winners[o][Final] = t
    <3>1. PICK m \in Matches : Winners[o][m] = t /\ Champion = Round[m] + 1
      BY <2>1 DEF WinsIn
    <3> QED
      BY <3>1, RoundFacts
  <2>2. ASSUME Winners[o][Final] = t PROVE Champion \in WinsIn(o, t)
    BY <2>2, RoundFacts DEF WinsIn
  <2> QED
    BY <2>1, <2>2
<1>5. ASSUME NEW n \in WinsIn(o, t), n # Champion PROVE n \in PlaysIn(o, t)
  <2>1. PICK m \in Matches : Winners[o][m] = t /\ n = Round[m] + 1
    BY DEF WinsIn
  <2>2. m # Final
    BY <1>5, <2>1, RoundFacts
  <2>3. PICK k \in Matches : Round[k] = Round[m] + 1 /\ Winners[o][m] \in Pairing(o, k)
    BY <2>2, WinnersPlayOn
  <2> QED
    BY <2>1, <2>3 DEF PlaysIn
<1> QED
  BY <1>1, <1>2, <1>3, <1>4, <1>5, <1>6

\* In a full bracket the two ways to credit a team, by what it plays and wins or by what it
\* plays alone, come to the same.
LEMMA ProgressIsAdvancement ==
    ASSUME NEW o \in Outcomes
    PROVE  Progress(o) = Advancement[o]
<1>1. ASSUME NEW t \in Teams PROVE Progress(o)[t] = Advancement[o][t]
  <2>1. Advancement[o][t] = Max(Deeds(o, t))
    BY Zenon DEF Advancement, PlaysIn, WinsIn, Deeds
  <2>2. Progress(o)[t] = IF Winners[o][Final] = t THEN Champion ELSE Max({0} \cup PlaysIn(o, t))
    BY Zenon DEF Progress, Furthest, PlaysIn
  <2>3. CASE Winners[o][Final] = t
    <3>1. Champion \in Deeds(o, t)
      BY <2>3, DeedsAreRounds DEF Deeds
    <3>2. Advancement[o][t] \in 0..Champion /\ Champion <= Advancement[o][t]
      BY <3>1, DeedsAreRounds
    <3>3. Advancement[o][t] = Champion
      BY <3>2, RoundFacts
    <3> QED
      BY <2>2, <2>3, <3>3
  <2>4. CASE Winners[o][Final] # t
    <3>1. WinsIn(o, t) \subseteq PlaysIn(o, t)
      BY <2>4, DeedsAreRounds
    <3>2. Deeds(o, t) = {0} \cup PlaysIn(o, t)
      BY <3>1 DEF Deeds
    <3> QED
      BY <2>1, <2>2, <2>4, <3>2
  <2> QED
    BY <2>3, <2>4
<1>2. Advancement[o] = [t \in Teams |-> Advancement[o][t]]
  BY Zenon DEF Advancement
<1>3. Progress(o) = [t \in Teams |-> Progress(o)[t]]
  BY Zenon DEF Progress
<1> QED
  BY <1>1, <1>2, <1>3, Zenon

\* A team reaches a round if it plays in it, and the title if it wins the final.
LEMMA WhoReaches ==
    ASSUME NEW o \in Outcomes, NEW t \in Teams
    PROVE  /\ Advancement[o][t] \in 0..Champion
           /\ Advancement[o][t] >= Champion <=> Winners[o][Final] = t
           /\ \A n \in 1..LastRound :
                 Advancement[o][t] >= n <=> \E m \in Matches : Round[m] = n /\ t \in Pairing(o, m)
<1> DEFINE a == Advancement[o][t]
<1>1. a \in Deeds(o, t) /\ \A n \in Deeds(o, t) : n <= a
  BY DeedsAreRounds
<1>2. a \in 0..Champion
  BY DeedsAreRounds
<1>3. a \in Nat /\ LastRound \in Nat /\ Champion = LastRound + 1
  BY <1>2, RoundFacts
<1> HIDE DEF a
<1>4. a >= Champion <=> Winners[o][Final] = t
  <2>1. a >= Champion <=> a = Champion
    BY <1>2, <1>3
  <2>2. Champion \in Deeds(o, t) <=> Winners[o][Final] = t
    <3>1. Champion \notin 1..LastRound /\ Champion # 0
      BY <1>3
    <3>2. PlaysIn(o, t) \subseteq 1..LastRound
          /\ (Champion \in WinsIn(o, t) <=> Winners[o][Final] = t)
      BY DeedsAreRounds
    <3> QED
      BY <3>1, <3>2 DEF Deeds
  <2>3. Champion \in Deeds(o, t) => a >= Champion
    BY <1>1, <1>3
  <2>4. a = Champion => Champion \in Deeds(o, t)
    BY <1>1
  <2> QED
    BY <2>1, <2>2, <2>3, <2>4
<1>5. ASSUME NEW n \in 1..LastRound, NEW m \in Matches, Round[m] = n, t \in Pairing(o, m)
      PROVE  a >= n
  <2>1. n \in Deeds(o, t)
    BY <1>5 DEF PlaysIn, Deeds
  <2> QED
    BY <1>1, <1>3, <2>1
<1>6. ASSUME NEW n \in 1..LastRound, a >= n
      PROVE  \E m \in Matches : Round[m] = n /\ t \in Pairing(o, m)
  <2>1. PICK m \in Matches : t \in Pairing(o, m) /\ n <= Round[m]
    <3>1. CASE Winners[o][Final] = t
      <4>1. o[Final] = 1 \/ o[Final] = 2
        BY RoundFacts, WinnersHold
      <4>2. t \in Pairing(o, Final)
        BY <3>1, <4>1, RoundFacts, WinnersHold DEF Pairing
      <4> QED
        BY <4>2, RoundFacts
    <3>2. CASE Winners[o][Final] # t
      <4>1. a \in PlaysIn(o, t)
        <5>1. a # 0
          BY <1>3, <1>6
        <5>2. a \in WinsIn(o, t) => a \in PlaysIn(o, t)
          BY <3>2, DeedsAreRounds
        <5> QED
          BY <1>1, <5>1, <5>2 DEF Deeds
      <4>2. PICK m \in Matches : t \in Pairing(o, m) /\ a = Round[m]
        BY <4>1 DEF PlaysIn
      <4> QED
        BY <1>6, <4>2, RoundFacts
    <3> QED
      BY <3>1, <3>2
  <2>2. n \in 1..Round[m]
    BY <2>1, RoundFacts
  <2> QED
    BY <2>1, <2>2, PlayedBefore
<1> QED
  BY <1>2, <1>4, <1>5, <1>6 DEF a

\* A match whose result counts is finished.
LEMMA KnownIsFinished ==
    ASSUME NEW r
    PROVE  Known(r) \subseteq {m \in Matches : r[m] # 0}
<1> DEFINE Counts(S, m) == r[m] # 0 /\ (Feeders[m] # <<>> => Feeders[m][1] \in S
                                                             /\ Feeders[m][2] \in S)
           K == UNION {S \in SUBSET Matches : \A m \in S : Counts(S, m)}
           f == [m \in Matches |-> m \in K]
           Is(h) == h = [m \in Matches |-> r[m] # 0 /\ (Feeders[m] # <<>> =>
                                              h[Feeders[m][1]] /\ h[Feeders[m][2]])]
<1>1. \A m \in Matches : m \in K <=> Counts(K, m)
  <2>1. ASSUME NEW m \in K PROVE Counts(K, m)
    OBVIOUS
  <2>2. ASSUME NEW m \in Matches, Counts(K, m) PROVE m \in K
    <3>1. \A n \in K : Counts(K \cup {m}, n)
      BY <2>1
    <3>2. Counts(K \cup {m}, m)
      BY <2>2
    <3>3. K \cup {m} \in SUBSET Matches
      OBVIOUS
    <3>4. \A S \in SUBSET Matches : (\A n \in S : Counts(S, n)) => S \subseteq K
      OBVIOUS
    <3> HIDE DEF K, Counts
    <3> QED
      BY <3>1, <3>2, <3>3, <3>4
  <2> HIDE DEF Counts
  <2> QED
    BY <2>1, <2>2
<1> HIDE DEF K
<1>2. Is(f)
  <2>1. \A m \in Matches : Feeders[m] # <<>> => Feeders[m][1] \in Matches
                                                /\ Feeders[m][2] \in Matches
    BY FedByTwo
  <2>2. \A m \in Matches : Counts(K, m) <=> (r[m] # 0 /\ (Feeders[m] # <<>> =>
                                              f[Feeders[m][1]] /\ f[Feeders[m][2]]))
    BY <2>1, Zenon
  <2>3. \A m \in Matches : (m \in K) = (r[m] # 0 /\ (Feeders[m] # <<>> =>
                                              f[Feeders[m][1]] /\ f[Feeders[m][2]]))
    <3> SUFFICES ASSUME NEW m \in Matches
                 PROVE  (m \in K) = (r[m] # 0 /\ (Feeders[m] # <<>> =>
                                              f[Feeders[m][1]] /\ f[Feeders[m][2]]))
      OBVIOUS
    <3>1. (m \in K) <=> (r[m] # 0 /\ (Feeders[m] # <<>> =>
                                              f[Feeders[m][1]] /\ f[Feeders[m][2]]))
      BY <1>1, <2>2, Zenon
    <3> HIDE DEF f
    <3> QED
      BY ONLY <3>1, SMT
  <2> QED
    BY <2>3, Zenon
<1>3. Known(r) = {m \in Matches : (CHOOSE h : Is(h))[m]}
  BY Zenon DEF Known
<1>4. PICK h : h = CHOOSE g : Is(g)
  OBVIOUS
<1>5. Is(h)
  <2> HIDE DEF Is
  <2> QED
    BY <1>2, <1>4, Zenon
<1>6. \A m \in Matches : h[m] = (r[m] # 0 /\ (Feeders[m] # <<>> =>
                                              h[Feeders[m][1]] /\ h[Feeders[m][2]]))
  BY <1>5, Zenon
<1>7. \A m \in Matches : h[m] => r[m] # 0
  BY <1>6, Zenon
<1>8. Known(r) = {m \in Matches : h[m]}
  <2> HIDE DEF Is
  <2> QED
    BY <1>3, <1>4, Zenon
<1> QED
  BY <1>7, <1>8, Zenon

-----------------------------------------------------------------------------
(***************************************************************************)
(* The scores of a completion (the forecast).                              *)
(***************************************************************************)

\* Picks and bonus answers are worth points.
LEMMA PointsAreWhole ==
    ASSUME NEW e \in Entries
    PROVE  /\ \A a : KoPoints(e, a) \in Int
           /\ \A q \in Questions : \A c : Hits(e, q, c) \in Nat
           /\ \A q \in Questions : Hits(e, q, {}) = 0
           /\ Fixed[e] \in Int
<1>1. ASSUME NEW a PROVE KoPoints(e, a) \in Int
  <2> DEFINE S == {p \in Picks[e] : a[p[1]] >= p[2]}
             f == [p \in Picks[e] |-> Worth[p[2]]]
  <2>1. \A p \in Picks[e] : f[p] \in Int
    BY PoolAssumption
  <2>2. IsFiniteSet(S) /\ S \subseteq Picks[e]
    BY PoolAssumption, FS_Subset
  <2> HIDE DEF S, f
  <2>3. SumOver(f, S) \in Int
    BY <2>1, <2>2, SumInt
  <2> QED
    BY <2>3 DEF KoPoints, S, f
<1>2. \A q \in Questions : \A c : Hits(e, q, c) \in Nat
  BY PoolAssumption DEF Hits
<1>3. \A q \in Questions : Hits(e, q, {}) = 0
  BY DEF Hits
<1>4. Fixed[e] \in Int
  BY PoolAssumption
<1> QED
  BY <1>1, <1>2, <1>3, <1>4

\* The pool pays the advancement of a completion, but for what goes with the title.
LEMMA PlayedPays ==
    ASSUME NEW o \in Outcomes, NEW after \in 0..(LastRound - 1), NEW e \in Entries
    PROVE  /\ TitleLost(e, o, after) \in Int
           /\ KoPoints(e, Advancement[o]) = KoPoints(e, Played(o, after)) + TitleLost(e, o, after)
<1> DEFINE f == [p \in Picks[e] |-> Worth[p[2]]]
           champion == Winners[o][Final]
           all == {p \in Picks[e] : Advancement[o][p[1]] >= p[2]}
           kept == {p \in Picks[e] : Played(o, after)[p[1]] >= p[2]}
           lost == {p \in Picks[e] : p[1] = champion /\ p[2] > after + 1}
<1>1. /\ KoPoints(e, Advancement[o]) = SumOver(f, all)
      /\ KoPoints(e, Played(o, after)) = SumOver(f, kept)
  BY DEF KoPoints
<1>2. TitleLost(e, o, after) = IF after = 0 THEN 0 ELSE SumOver(f, lost)
  BY DEF TitleLost
<1>3. \A p \in Picks[e] : f[p] \in Int
  BY PoolAssumption
<1>4. IsFiniteSet(kept) /\ IsFiniteSet(lost) /\ kept \subseteq Picks[e] /\ lost \subseteq Picks[e]
  BY PoolAssumption, FS_Subset
<1>5. champion \in Teams
  BY SidesAreTeams, RoundFacts
<1>6. /\ Advancement[o][champion] = Champion
      /\ \A t \in Teams \ {champion} : Played(o, after)[t] = Advancement[o][t]
      /\ Played(o, after)[champion] = IF after = 0 THEN Champion ELSE after + 1
      /\ \A t \in Teams : Advancement[o][t] \in 0..Champion
  <2>1. \A t \in Teams : Advancement[o][t] =
           IF champion = t THEN Champion ELSE Furthest(o, t)
    BY ProgressIsAdvancement DEF Progress
  <2>2. \A t \in Teams : Played(o, after)[t] =
           IF champion = t THEN (IF after = 0 THEN Champion ELSE after + 1) ELSE Furthest(o, t)
    BY DEF Played
  <2>3. \A t \in Teams : Advancement[o][t] \in 0..Champion
    BY DeedsAreRounds
  <2> HIDE DEF champion
  <2> QED
    BY <1>5, <2>1, <2>2, <2>3
<1>7. \A p \in Picks[e] : p[1] \in Teams /\ p[2] \in 1..Champion
  BY PoolAssumption
<1>8. LastRound \in Nat /\ Champion = LastRound + 1
  BY RoundFacts
<1> HIDE DEF f, champion
<1>9. CASE after = 0
  <2>1. all = kept
    BY <1>6, <1>7, <1>9
  <2>2. SumOver(f, kept) \in Int
    BY <1>3, <1>4, SumInt
  <2> HIDE DEF all, kept, lost
  <2> QED
    BY <1>1, <1>2, <1>9, <2>1, <2>2
<1>10. CASE after # 0
  <2>1. after \in Nat /\ after + 1 <= LastRound
    BY <1>8
  <2>2. \A p \in Picks[e] : p \in all <=> p \in kept \/ p \in lost
    <3> SUFFICES ASSUME NEW p \in Picks[e] PROVE p \in all <=> p \in kept \/ p \in lost
      OBVIOUS
    <3>1. CASE p[1] = champion
      BY <1>6, <1>7, <1>8, <1>10, <2>1, <3>1
    <3>2. CASE p[1] # champion
      BY <1>6, <1>7, <3>2
    <3> QED
      BY <3>1, <3>2
  <2>3. \A p \in Picks[e] : ~(p \in kept /\ p \in lost)
    BY <1>6, <1>7, <1>10, <2>1
  <2>4. all \subseteq Picks[e]
    OBVIOUS
  <2> HIDE DEF all, kept, lost
  <2>5. all = kept \cup lost /\ kept \cap lost = {}
    BY <1>4, <2>2, <2>3, <2>4
  <2>6. SumOver(f, all) = SumOver(f, kept) + SumOver(f, lost)
    BY <1>3, <1>4, <2>5, SumUnion
  <2>7. SumOver(f, lost) \in Int
    BY <1>3, <1>4, SumInt
  <2> QED
    BY <1>1, <1>2, <1>10, <2>6, <2>7
<1> QED
  BY <1>9, <1>10

\* A recorded answer pays once: where the open questions are those without one, the recorded
\* and the simulated together are what the pool would pay.
LEMMA EachQuestionOnce ==
    ASSUME NEW in \in Readings, in.open = {q \in Questions : in.paid[q] = {}},
           NEW o \in Outcomes, NEW after \in 0..(LastRound - 1), NEW e \in Entries
    PROVE  Scores[in][o][e] = FinalScores[o][after][in.paid][e] + TitleLost(e, o, after)
<1> DEFINE final == [q \in Questions |-> Hits(e, q, IF in.paid[q] # {} THEN in.paid[q]
                                                     ELSE Settle(q, Advancement[o]))]
           there == BasePoints(e, in) + KoPoints(e, Advancement[o]) + BonusPoints(e, in, o)
           pays == Fixed[e] + KoPoints(e, Played(o, after)) + SumOver(final, Questions)
<1>1. Scores[in][o][e] = there
  BY DEF Scores
<1>2. FinalScores[o][after][in.paid][e] = pays
  <2>1. in.paid \in {i.paid : i \in Readings}
    OBVIOUS
  <2>2. FinalScores[o][after][in.paid][e] =
          Fixed[e] + KoPoints(e, Played(o, after))
              + SumOver([q \in Questions |-> Hits(e, q, IF in.paid[q] # {} THEN in.paid[q]
                                                        ELSE Settle(q, Progress(o)))], Questions)
    BY <2>1 DEF FinalScores
  <2> QED
    BY <2>2, ProgressIsAdvancement, Zenon
<1>3. there = pays + TitleLost(e, o, after)
  <2> DEFINE banked == [q \in Questions |-> Hits(e, q, in.paid[q])]
             hoped == [q \in Questions |-> Hits(e, q, Settle(q, Advancement[o]))]
             left == [q \in Questions |-> IF q \in in.open THEN hoped[q] ELSE 0]
  <2>1. there = Fixed[e] + SumOver(banked, Questions) + KoPoints(e, Advancement[o])
                   + SumOver(hoped, in.open)
    BY DEF BasePoints, BankedBonus, BonusPoints, Unsettled
  <2>2. /\ \A q \in Questions : banked[q] \in Int /\ hoped[q] \in Int /\ left[q] \in Int
        /\ \A q \in Questions : final[q] = banked[q] + left[q]
    <3>1. \A q \in Questions : banked[q] \in Int /\ hoped[q] \in Int /\ left[q] \in Int
      BY PointsAreWhole
    <3>2. ASSUME NEW q \in Questions PROVE final[q] = banked[q] + left[q]
      <4>1. CASE in.paid[q] = {}
        <5>1. banked[q] = 0 /\ left[q] = hoped[q] /\ final[q] = hoped[q]
          BY <4>1, PointsAreWhole
        <5> HIDE DEF banked, left, hoped, final
        <5> QED
          BY <3>1, <5>1
      <4>2. CASE in.paid[q] # {}
        <5>1. left[q] = 0 /\ final[q] = banked[q]
          BY <4>2
        <5> HIDE DEF banked, left, hoped, final
        <5> QED
          BY <3>1, <5>1
      <4> QED
        BY <4>1, <4>2
    <3> QED
      BY <3>1, <3>2
  <2>3. in.open \subseteq Questions /\ IsFiniteSet(in.open) /\ IsFiniteSet(Questions)
    BY PoolAssumption, FS_Subset
  <2>4. /\ \A q \in Questions \ in.open : left[q] = 0
        /\ \A q \in in.open : left[q] = hoped[q]
    BY <2>3
  <2> DEFINE whole == final
  <2>5. \A q \in Questions : banked[q] \in Int /\ left[q] \in Int
                             /\ whole[q] = banked[q] + left[q]
    BY <2>2
  <2>6. \A q \in Questions : hoped[q] \in Int
    BY <2>2
  <2> HIDE DEF banked, hoped, left, whole
  <2>7. SumOver(left, Questions) = SumOver(left, in.open)
    BY <2>3, <2>4, <2>5, SumSupport
  <2>8. SumOver(left, in.open) = SumOver(hoped, in.open)
    BY <2>3, <2>4, SumEqual
  <2>9. SumOver(whole, Questions) = SumOver(banked, Questions) + SumOver(left, Questions)
    BY <2>3, <2>5, SumPlus
  <2>10. SumOver(banked, Questions) \in Int /\ SumOver(left, Questions) \in Int
    BY <2>3, <2>5, SumInt
  <2>11. /\ KoPoints(e, Advancement[o]) = KoPoints(e, Played(o, after)) + TitleLost(e, o, after)
         /\ TitleLost(e, o, after) \in Int
    BY PlayedPays
  <2>12. pays = Fixed[e] + KoPoints(e, Played(o, after)) + SumOver(whole, Questions)
    BY DEF whole
  <2>13. KoPoints(e, Played(o, after)) \in Int /\ Fixed[e] \in Int
    BY PointsAreWhole
  <2> HIDE DEF there, pays
  <2> QED
    BY <2>1, <2>7, <2>8, <2>9, <2>10, <2>11, <2>12, <2>13
<1> HIDE DEF there, pays
<1> QED
  BY <1>1, <1>2, <1>3

\* The scores of a completion are points.
LEMMA ScoresAreWhole ==
    ASSUME NEW in \in Readings, NEW o \in Outcomes, NEW after \in 0..(LastRound - 1),
           NEW e \in Entries
    PROVE  FinalScores[o][after][in.paid][e] \in Int
<1> DEFINE final == [q \in Questions |-> Hits(e, q, IF in.paid[q] # {} THEN in.paid[q]
                                                   ELSE Settle(q, Progress(o)))]
<1>1. \A q \in Questions : final[q] \in Int
  BY PointsAreWhole
<1> HIDE DEF final
<1>2. SumOver(final, Questions) \in Int
  BY <1>1, PoolAssumption, SumInt
<1>3. KoPoints(e, Played(o, after)) \in Int /\ Fixed[e] \in Int
  BY PointsAreWhole
<1>4. in.paid \in {i.paid : i \in Readings}
  OBVIOUS
<1>5. FinalScores[o][after][in.paid][e] =
         Fixed[e] + KoPoints(e, Played(o, after)) + SumOver(final, Questions)
  BY <1>4 DEF FinalScores, final
<1> QED
  BY <1>2, <1>3, <1>5

\* With the title left to the champion it is worth just that.
LEMMA EachCompletionPaid ==
    ASSUME NEW in \in Readings, in.open = {q \in Questions : in.paid[q] = {}},
           NEW o \in Outcomes
    PROVE  Scores[in][o] = FinalScores[o][0][in.paid]
<1>1. 0 \in 0..(LastRound - 1)
  BY RoundFacts
<1>2. in.paid \in {i.paid : i \in Readings}
  OBVIOUS
<1>3. PICK f : f = Scores[in][o]
  OBVIOUS
<1>4. PICK g : g = FinalScores[o][0][in.paid]
  OBVIOUS
<1>5. f = [e \in Entries |-> f[e]]
  BY <1>3 DEF Scores
<1>6. g = [e \in Entries |-> g[e]]
  BY <1>1, <1>2, <1>4 DEF FinalScores
<1>7. ASSUME NEW e \in Entries PROVE f[e] = g[e]
  <2>1. f[e] = g[e] + TitleLost(e, o, 0)
    BY <1>1, <1>3, <1>4, EachQuestionOnce
  <2>2. TitleLost(e, o, 0) = 0
    BY DEF TitleLost
  <2>3. g[e] \in Int
    BY <1>1, <1>4, ScoresAreWhole
  <2> QED
    BY <2>1, <2>2, <2>3
<1> QED
  BY ONLY <1>3, <1>4, <1>5, <1>6, <1>7

\* What a build has read is a reading.
LEMMA BuildsRead ==
    ASSUME build.results \in [Matches -> 0..2], build.open \subseteq Questions,
           build.paid \in [Questions -> SUBSET Teams],
           \A q \in Questions : build.paid[q] \in AnswerSets[q]
    PROVE  /\ Read(build) \in Readings
           /\ Read(build).results = build.results
           /\ Read(build).paid = build.paid /\ Read(build).open = build.open
<1>1. build.paid \in [Questions -> UNION {AnswerSets[q] : q \in Questions}]
  <2>1. \A q \in Questions : build.paid[q] \in UNION {AnswerSets[p] : p \in Questions}
    <3> SUFFICES ASSUME NEW q \in Questions
                 PROVE  build.paid[q] \in UNION {AnswerSets[p] : p \in Questions}
      OBVIOUS
    <3>1. AnswerSets[q] \in {AnswerSets[p] : p \in Questions}
      OBVIOUS
    <3> QED
      BY <3>1
  <2> QED
    BY <2>1
<1> DEFINE answered == {a \in [Questions -> UNION {AnswerSets[q] : q \in Questions}] :
                          \A q \in Questions : a[q] \in AnswerSets[q]}
<1>2. build.paid \in answered
  BY <1>1
<1>3. Read(build) = [results |-> build.results, paid |-> build.paid, open |-> build.open]
  BY DEF Read
<1>4. Readings = {[results |-> r, paid |-> p, open |-> q] :
                     r \in [Matches -> 0..2], p \in answered, q \in SUBSET Questions}
  BY DEF Readings
<1> HIDE DEF answered
<1>5. Read(build) \in Readings
  BY <1>2, <1>3, <1>4
<1> QED
  BY <1>3, <1>5

\* A tag leaves the rest of what was read alone.
LEMMA TagsLeave ==
    ASSUME NEW tag \in Tags, cache \in Forecasts, build \in Builds
    PROVE  /\ Tagged(cache, tag, cache.there).dead = cache.dead
           /\ Tagged(cache, tag, cache.there).there = cache.there
           /\ cache.there => Tagged(cache, tag, cache.there).tags = cache.tags \cup {tag}
           /\ Tagged(build, tag, Reading).stage = build.stage
           /\ Tagged(build, tag, Reading).results = build.results
           /\ Tagged(build, tag, Reading).paid = build.paid
           /\ Tagged(build, tag, Reading).open = build.open
           /\ Reading => Tagged(build, tag, Reading).tags = build.tags \cup {tag}
<1>1. /\ Tagged(cache, tag, cache.there).dead = cache.dead
      /\ Tagged(cache, tag, cache.there).there = cache.there
      /\ cache.there => Tagged(cache, tag, cache.there).tags = cache.tags \cup {tag}
  BY DEF Tagged, Forecasts
<1>2. /\ Tagged(build, tag, Reading).stage = build.stage
      /\ Tagged(build, tag, Reading).results = build.results
      /\ Tagged(build, tag, Reading).paid = build.paid
      /\ Tagged(build, tag, Reading).open = build.open
      /\ Reading => Tagged(build, tag, Reading).tags = build.tags \cup {tag}
  BY DEF Tagged, Builds
<1> QED
  BY <1>1, <1>2

\* An entry without a win in any completion that was read cannot lead when all is played.
LEMMA StoredDeadStayDead ==
    ASSUME ForecastIInv, ReadingsStand, build.stage = "ready", build.tags \subseteq Finishes,
           NEW o \in Outcomes, \A m \in Matches : results[m] # 0 => o[m] = results[m]
    PROVE  Dead(Read(build)) \cap Top(FinalScores[o][0][answers]) = {}
<1>1. build \in Builds
  BY DEF ForecastIInv, TypeOK, Builds
<1>2. /\ build.results \in [Matches -> 0..2] /\ build.open \subseteq Questions
      /\ build.paid \in [Questions -> SUBSET Teams]
  BY <1>1 DEF Builds
<1>3. /\ Read(build) \in Readings /\ Read(build).results = build.results
      /\ Read(build).paid = build.paid /\ Read(build).open = build.open
  BY <1>2, BuildsRead DEF ReadingsStand
<1>4. "answered" \notin build.tags
  BY DEF Finishes
<1>5. build.paid = answers /\ build.open = {q \in Questions : build.paid[q] = {}}
  BY <1>4 DEF ReadingsStand
<1>6. Scores[Read(build)][o] = FinalScores[o][0][answers]
  BY <1>3, <1>5, EachCompletionPaid
<1>7. o \in Completions(build.results)
  <2>1. \A m \in Matches : build.results[m] # 0 => results[m] = build.results[m]
    BY DEF ReadingsStand, Reading
  <2>2. \A m \in Known(build.results) : m \in Matches /\ build.results[m] # 0
    BY KnownIsFinished
  <2>3. \A m \in Known(build.results) : o[m] = build.results[m]
    BY <2>1, <2>2
  <2> QED
    BY <2>3 DEF Completions
<1>8. \A e \in Dead(Read(build)) : e \notin Top(Scores[Read(build)][o])
  BY <1>3, <1>7 DEF Dead
<1> QED
  BY <1>6, <1>8

\* Every step keeps what a forecast has read, and the dead of a stored one.
LEMMA ReadingsStep ==
    ASSUME ForecastIInv, ReadingsStand, [Next]_vars PROVE ReadingsStand'
<1>0. /\ cache \in Forecasts /\ build \in Builds /\ answers \in [Questions -> SUBSET Teams]
      /\ results \in [Matches -> 0..2]
      /\ \A q \in Questions : answers[q] \in AnswerSets[q]
      /\ \A q \in Questions : {} \in AnswerSets[q]
      /\ \A q \in Questions : build.paid[q] \in AnswerSets[q]
  BY AnswerAssumption DEF ForecastIInv, TypeOK, Forecasts, Builds, ReadingsStand
<1> DEFINE Kept == \A m \in Matches : build.results[m] # 0 => results[m] = build.results[m]
           Paid == build.stage \in {"pool", "ready"} /\ "answered" \notin build.tags =>
                      build.paid = answers
           Opens == build.stage = "ready" /\ "answered" \notin build.tags =>
                      build.open = {q \in Questions : answers[q] = {}}
           Stands == Reading /\ build.tags \subseteq Finishes => Kept
<1>a. Paid /\ Opens /\ Stands /\ NoComeback
  BY DEF ReadingsStand
<1> SUFFICES /\ \A q \in Questions : build'.paid[q] \in AnswerSets[q]
             /\ Paid' /\ Opens' /\ Stands' /\ NoComeback'
  BY DEF ReadingsStand
<1>1. CASE SeedRound
  BY <1>0, <1>a, <1>1 DEF SeedRound, Reading, NoComeback
<1>2. ASSUME NEW m \in Matches, NEW side \in 1..2, FinishMatch(m, side)
      PROVE  /\ \A q \in Questions : build'.paid[q] \in AnswerSets[q]
             /\ Paid' /\ Opens' /\ Stands' /\ NoComeback'
  <2>1. /\ results[m] = 0 /\ \A n \in Matches : n # m => results'[n] = results[n]
        /\ UNCHANGED <<seeded, answers, edits, cache, build>>
    BY <1>0, <1>2 DEF FinishMatch, Playable
  <2>2. \A n \in Matches : results[n] # 0 => results'[n] = results[n]
    BY <2>1
  <2>3. NoComeback'
    BY <1>a, <2>1, <2>2 DEF NoComeback
  <2>4. Stands'
    BY <1>a, <2>1, <2>2 DEF Reading
  <2> QED
    BY <1>0, <1>a, <2>1, <2>3, <2>4
<1>3. ASSUME NEW tag \in Tags, Tell(tag)
      PROVE  /\ build'.stage = build.stage /\ build'.results = build.results
             /\ build'.paid = build.paid /\ build'.open = build.open
             /\ Reading' = Reading /\ (Reading => build'.tags = build.tags \cup {tag})
             /\ cache'.there = cache.there /\ (cache.there => tag \in cache'.tags)
  BY <1>0, <1>3, TagsLeave DEF Tell, Reading
<1>b. ASSUME NEW m \in Matches, NEW side \in 1..2, FinishByHand(m, side)
      PROVE  /\ \A q \in Questions : build'.paid[q] \in AnswerSets[q]
             /\ Paid' /\ Opens' /\ Stands' /\ NoComeback'
  <2>1. /\ results[m] = 0 /\ \A n \in Matches : n # m => results'[n] = results[n]
        /\ Tell("byhand") /\ UNCHANGED answers /\ "byhand" \in Tags
    BY <1>0, <1>b DEF FinishByHand, Playable, Tags
  <2>2. \A n \in Matches : results[n] # 0 => results'[n] = results[n]
    BY <2>1
  <2>3. /\ build'.stage = build.stage /\ build'.results = build.results
        /\ build'.paid = build.paid /\ build'.open = build.open
        /\ Reading' = Reading /\ (Reading => build'.tags = build.tags \cup {"byhand"})
        /\ cache'.there = cache.there /\ cache'.dead = cache.dead
        /\ (cache.there => cache.tags \subseteq cache'.tags)
    BY <1>0, <2>1, TagsLeave DEF Tell, Reading
  <2>4. NoComeback'
    BY <1>a, <2>1, <2>2, <2>3 DEF NoComeback
  <2>5. Stands'
    BY <1>a, <2>2, <2>3
  <2> QED
    BY <1>0, <1>a, <2>1, <2>3, <2>4, <2>5 DEF Reading
<1>4. ASSUME NEW m \in Matches, TakeBack(m)
      PROVE  /\ \A q \in Questions : build'.paid[q] \in AnswerSets[q]
             /\ Paid' /\ Opens' /\ Stands' /\ NoComeback'
  <2>1. Tell("undone") /\ UNCHANGED answers /\ "undone" \in Tags
    BY <1>4 DEF TakeBack, Tags
  <2>2. Stands' /\ NoComeback'
    BY <1>3, <2>1 DEF NoComeback, Finishes
  <2> QED
    BY <1>0, <1>3, <1>a, <2>1, <2>2 DEF Reading
<1>5. ASSUME NEW q \in Questions, NEW correct \in AnswerSets[q], Answer(q, correct)
      PROVE  /\ \A p \in Questions : build'.paid[p] \in AnswerSets[p]
             /\ Paid' /\ Opens' /\ Stands' /\ NoComeback'
  <2>1. Tell("answered") /\ UNCHANGED results /\ "answered" \in Tags
    BY <1>5 DEF Answer, Tags
  <2>2. Paid' /\ Opens' /\ NoComeback'
    BY <1>3, <2>1 DEF NoComeback, Reading, Finishes
  <2> QED
    BY <1>0, <1>3, <1>a, <2>1, <2>2
<1>6. CASE Invalidate
  <2>1. /\ cache' = NoCache /\ build' = Tagged(build, "race", Reading) /\ "race" \in Tags
        /\ UNCHANGED <<seeded, results, answers, edits>>
    BY <1>6 DEF Invalidate, Tags
  <2>2. NoComeback'
    BY <2>1, BlankForecasts DEF NoComeback
  <2>3. /\ build'.stage = build.stage /\ build'.results = build.results
        /\ build'.paid = build.paid /\ build'.open = build.open
        /\ Reading' = Reading /\ (Reading => build'.tags = build.tags \cup {"race"})
    BY <1>0, <2>1, TagsLeave DEF Reading
  <2> QED
    BY <1>0, <1>a, <2>1, <2>2, <2>3 DEF Reading
<1>7. CASE Expire
  <2>1. /\ cache'.there = cache.there /\ cache'.dead = cache.dead /\ cache'.tags = cache.tags
        /\ UNCHANGED <<seeded, results, answers, edits, signal, build>>
    <3>1. cache.there = TRUE
      BY <1>0, <1>7 DEF Expire, Forecasts
    <3> QED
      BY <1>0, <1>7 DEF Expire, Forecasts
  <2> QED
    BY <1>0, <1>a, <2>1 DEF Reading, NoComeback
<1>8. CASE Start
  <2>1. build'.stage = "started" /\ build'.paid = Unanswered /\ UNCHANGED <<results, answers, cache>>
    BY <1>8 DEF Start, NoBuild
  <2> QED
    BY <1>0, <1>a, <2>1 DEF Reading, NoComeback, Unanswered
<1>9. CASE ReadBracket
  <2>1. /\ build'.stage = "bracket" /\ build'.paid = build.paid /\ build'.results = results
        /\ UNCHANGED <<results, answers, cache>>
    BY <1>0, <1>9 DEF ReadBracket, Builds
  <2> QED
    BY <1>0, <1>a, <2>1 DEF Reading, NoComeback
<1>10. CASE ReadPool
  <2>1. /\ build.stage = "bracket" /\ build'.stage = "pool" /\ build'.paid = answers
        /\ build'.results = build.results
        /\ build'.tags = build.tags /\ UNCHANGED <<results, answers, cache>>
    BY <1>0, <1>10 DEF ReadPool, Builds
  <2> QED
    BY <1>0, <1>a, <2>1 DEF Reading, NoComeback
<1>11. CASE ReadOpen
  <2>1. /\ build.stage = "pool" /\ build'.stage = "ready" /\ build'.paid = build.paid
        /\ build'.open = {q \in Questions : answers[q] = {}}
        /\ build'.results = build.results
        /\ build'.tags = build.tags /\ UNCHANGED <<results, answers, cache>>
    BY <1>0, <1>11 DEF ReadOpen, Builds
  <2> QED
    BY <1>0, <1>a, <2>1 DEF Reading, NoComeback
<1>12. CASE Store
  <2>1. /\ build.stage = "ready" /\ build' = NoBuild /\ UNCHANGED <<results, answers>>
        /\ cache'.dead = Dead(Read(build)) /\ cache'.tags = build.tags
    BY <1>12 DEF Store
  <2>2. NoComeback'
    BY <2>1, StoredDeadStayDead DEF NoComeback
  <2>3. build'.stage = "none" /\ build'.paid = Unanswered
    BY <2>1 DEF NoBuild
  <2> QED
    BY <1>0, <2>2, <2>3 DEF Reading, Unanswered
<1>13. CASE Fail
  <2>1. build'.stage = "none" /\ build'.paid = Unanswered /\ UNCHANGED <<results, answers, cache>>
    BY <1>13 DEF Fail, NoBuild
  <2> QED
    BY <1>0, <1>a, <2>1 DEF Reading, Unanswered, NoComeback
<1>14. CASE UNCHANGED vars
  BY <1>0, <1>a, <1>14 DEF vars, Reading, NoComeback
<1>15. CASE \E m \in Matches : TakeBack(m)
  BY <1>4, <1>15
<1>17. CASE \E m \in Matches : \E side \in 1..2 : FinishMatch(m, side) \/ FinishByHand(m, side)
  BY <1>2, <1>b, <1>17
<1>16. CASE \E q \in Questions : \E correct \in AnswerSets[q] : Answer(q, correct)
  BY <1>5, <1>16
<1> QED
  BY <1>1, <1>6, <1>7, <1>8, <1>9, <1>10, <1>11, <1>12, <1>13, <1>14, <1>15, <1>16,
     <1>17 DEF Next

\* What has been read stands, at any time.
LEMMA ReadingsInvariant == Spec => []ForecastIInv /\ []ReadingsStand
<1>1. ASSUME Init PROVE ReadingsStand
  <2>1. answers = Unanswered /\ cache = NoCache /\ build = NoBuild
    BY <1>1 DEF Init
  <2>2. ~cache.there /\ build.stage = "none" /\ build.paid = Unanswered
    BY <2>1, BlankForecasts DEF NoBuild
  <2> QED
    BY <2>2, AnswerAssumption DEF ReadingsStand, NoComeback, Reading, Unanswered
<1>2. ForecastIInv /\ ReadingsStand /\ [Next]_vars => ReadingsStand'
  BY ReadingsStep
<1>3. Spec => []ForecastIInv
  BY ForecastInvariant
<1> QED
  BY <1>1, <1>2, <1>3, PTL DEF Spec

(* A forecast served knows every finish that was signalled, and an entry   *)
(* it leaves no chance never leads again (win_probability.py 1139-1250),   *)
(* but where the administrator's own finish was not signalled, an answer   *)
(* was recorded or a result taken back.                                    *)
THEOREM ForecastsAreCurrent == Spec => [](TypeOK /\ ForecastIsCurrent)
<1>1. ForecastIInv /\ ReadingsStand => TypeOK /\ ForecastIsCurrent
  BY DEF ForecastIInv, ReadingsStand, ForecastIsCurrent
<1> QED
  BY <1>1, ReadingsInvariant, PTL

(* The points of a completion are what the pool would pay if it came true, *)
(* every bonus question once (win_probability.py 332-343, 938-942), and    *)
(* the points that go with the champion's title in an order of the rows    *)
(* that takes it away (scoring.py:422-428, 444-448, 478-481).              *)
THEOREM ForecastsCountOnce == Spec => []CountedOnce
<1>1. ASSUME ForecastIInv, ReadingsStand PROVE CountedOnce
  <2> SUFFICES ASSUME build.stage = "ready", "answered" \notin build.tags,
                      NEW o \in Completions(build.results),
                      NEW after \in 0..(LastRound - 1), NEW e \in Entries
               PROVE  Scores[Read(build)][o][e] = FinalScores[o][after][build.paid][e]
                                                  + TitleLost(e, o, after)
    BY DEF CountedOnce
  <2>1. build \in Builds
    BY <1>1 DEF ForecastIInv, TypeOK, Builds
  <2>2. /\ build.results \in [Matches -> 0..2] /\ build.open \subseteq Questions
        /\ build.paid \in [Questions -> SUBSET Teams]
    BY <2>1 DEF Builds
  <2>3. /\ Read(build) \in Readings
        /\ Read(build).paid = build.paid /\ Read(build).open = build.open
    BY <1>1, <2>2, BuildsRead DEF ReadingsStand
  <2>4. build.open = {q \in Questions : build.paid[q] = {}}
    BY <1>1 DEF ReadingsStand
  <2>5. o \in Outcomes
    BY DEF Completions
  <2> QED
    BY <2>3, <2>4, <2>5, EachQuestionOnce
<1> QED
  BY <1>1, ReadingsInvariant, PTL

-----------------------------------------------------------------------------
(***************************************************************************)
(* The odds of the forecast.  The completions that leave the matches       *)
(* outside a set as they are weigh, together, the product of what the      *)
(* prices of the set add up to: by the smallest set where they would not.  *)
(***************************************************************************)

\* The completions that differ from b in S alone; what one weighs in S, and several;
\* those where a match is decided; and what all should weigh.
Worlds(b, S) == {o \in Outcomes : \A m \in Matches \ S : o[m] = b[m]}
Chance(price, o, S) == ProductOver([m \in Matches |-> price[m][o[m]]], S)
Chances(price, S, W) == SumOver([o \in W |-> Chance(price, o, S)], W)
Decided(W, x, s) == {o \in W : o[x] = s}
AllChances(price, S) == ProductOver([m \in Matches |-> price[m][1] + price[m][2]], S)

PriceLists == {p \in [Matches -> Nat \X Nat] : \A m \in Matches : p[m][1] + p[m][2] > 0}

\* There are finitely many completions.
LEMMA OutcomesAreFinite ==
    /\ IsFiniteSet(Outcomes) /\ Outcomes = [Matches -> 1..2]
    /\ \A W \in SUBSET Outcomes : IsFiniteSet(W)
<1>1. Outcomes = [Matches -> 1..2]
  <2>1. \A o \in [Matches -> 1..2] : [m \in Matches |-> o[m]] = o
    OBVIOUS
  <2> QED
    BY <2>1 DEF Outcomes
<1> DEFINE F == [o \in [Matches -> 1..2] |-> {m \in Matches : o[m] = 1}]
<1>2. F \in Injection([Matches -> 1..2], SUBSET Matches)
  <2>1. F \in [[Matches -> 1..2] -> SUBSET Matches]
    OBVIOUS
  <2>2. ASSUME NEW o \in [Matches -> 1..2], NEW p \in [Matches -> 1..2], F[o] = F[p] PROVE o = p
    <3>1. \A m \in Matches : o[m] = 1 <=> p[m] = 1
      BY <2>2
    <3>2. \A m \in Matches : (o[m] = 1 \/ o[m] = 2) /\ (p[m] = 1 \/ p[m] = 2)
      OBVIOUS
    <3>3. \A m \in Matches : o[m] = p[m]
      BY <3>1, <3>2
    <3> QED
      BY <3>3
  <2> HIDE DEF F
  <2> QED
    BY <2>1, <2>2 DEF Injection, IsInjective
<1>3. IsFiniteSet(SUBSET Matches)
  BY TreeAssumption, FS_SUBSET
<1>4. IsFiniteSet(Outcomes)
  <2> HIDE DEF F
  <2> QED
    BY <1>1, <1>2, <1>3, FS_Injection
<1> QED
  BY <1>1, <1>4, FS_Subset

\* What a completion weighs is whole.
LEMMA ChanceIsWhole ==
    ASSUME NEW price \in PriceLists, NEW S \in SUBSET Matches
    PROVE  /\ \A o \in Outcomes : Chance(price, o, S) \in Int
           /\ \A W \in SUBSET Outcomes : Chances(price, S, W) \in Int
           /\ AllChances(price, S) \in Nat /\ AllChances(price, S) > 0
<1>1. IsFiniteSet(S)
  BY TreeAssumption, FS_Subset
<1>2. \A m \in Matches : /\ price[m][1] \in Nat /\ price[m][2] \in Nat
                         /\ price[m][1] + price[m][2] > 0
  BY DEF PriceLists
<1>3. ASSUME NEW o \in Outcomes PROVE Chance(price, o, S) \in Int
  <2> DEFINE f == [m \in Matches |-> price[m][o[m]]]
  <2>1. \A m \in Matches : o[m] = 1 \/ o[m] = 2
    BY WinnersHold
  <2>2. \A m \in S : f[m] \in Int
    BY <1>2, <2>1
  <2> HIDE DEF f
  <2>3. ProductOver(f, S) \in Int
    BY <1>1, <2>2, ProductInt
  <2> QED
    BY <2>3 DEF Chance, f
<1>4. ASSUME NEW W \in SUBSET Outcomes PROVE Chances(price, S, W) \in Int
  <2> DEFINE f == [o \in W |-> Chance(price, o, S)]
  <2>1. IsFiniteSet(W) /\ \A o \in W : f[o] \in Int
    BY <1>3, OutcomesAreFinite
  <2> HIDE DEF f
  <2>2. SumOver(f, W) \in Int
    BY <2>1, SumInt
  <2> QED
    BY <2>2 DEF Chances, f
<1>5. AllChances(price, S) \in Nat /\ AllChances(price, S) > 0
  <2> DEFINE f == [m \in Matches |-> price[m][1] + price[m][2]]
  <2>1. \A m \in S : f[m] \in Nat /\ f[m] > 0
    BY <1>2
  <2> HIDE DEF f
  <2>2. ProductOver(f, S) \in Nat /\ ProductOver(f, S) > 0
    BY <1>1, <2>1, ProductPositive
  <2> QED
    BY <2>2 DEF AllChances, f
<1> QED
  BY <1>3, <1>4, <1>5

\* The completions with one match decided, and what they weigh.
LEMMA OneDecided ==
    ASSUME NEW price \in PriceLists, NEW S \in SUBSET Matches, NEW x \in S,
           NEW b \in Outcomes, NEW s \in 1..2
    PROVE  LET W == Decided(Worlds(b, S), x, s)
           IN  /\ [b EXCEPT ![x] = s] \in Outcomes
               /\ W = Worlds([b EXCEPT ![x] = s], S \ {x})
               /\ Chances(price, S, W) = price[x][s] * Chances(price, S \ {x}, W)
<1> DEFINE W == Decided(Worlds(b, S), x, s)
           c == [b EXCEPT ![x] = s]
<1>1. c \in Outcomes /\ c[x] = s /\ \A m \in Matches \ {x} : c[m] = b[m]
  BY OutcomesAreFinite
<1>2. W = Worlds(c, S \ {x})
  <2>1. ASSUME NEW o \in W PROVE o \in Worlds(c, S \ {x})
    <3>1. o \in Outcomes /\ o[x] = s /\ \A m \in Matches \ S : o[m] = b[m]
      BY DEF Worlds, Decided
    <3>2. \A m \in Matches \ (S \ {x}) : o[m] = c[m]
      BY <1>1, <3>1
    <3> QED
      BY <3>1, <3>2 DEF Worlds
  <2>2. ASSUME NEW o \in Worlds(c, S \ {x}) PROVE o \in W
    <3>1. o \in Outcomes /\ \A m \in Matches \ (S \ {x}) : o[m] = c[m]
      BY DEF Worlds
    <3>2. o[x] = s /\ \A m \in Matches \ S : o[m] = b[m]
      BY <1>1, <3>1
    <3> QED
      BY <3>1, <3>2 DEF Worlds, Decided
  <2> QED
    BY <2>1, <2>2
<1>3. Chances(price, S, W) = price[x][s] * Chances(price, S \ {x}, W)
  <2> DEFINE f == [o \in W |-> Chance(price, o, S)]
             g == [o \in W |-> Chance(price, o, S \ {x})]
  <2>1. W \in SUBSET Outcomes /\ \A o \in W : o[x] = s
    BY DEF Worlds, Decided
  <2>2. \A m \in Matches : price[m][1] \in Nat /\ price[m][2] \in Nat
    BY DEF PriceLists
  <2>3. price[x][s] \in Int
    <3>1. s = 1 \/ s = 2
      OBVIOUS
    <3> QED
      BY <2>2, <3>1
  <2>4. ASSUME NEW o \in W PROVE f[o] = price[x][s] * g[o] /\ g[o] \in Int
    <3> DEFINE h == [m \in Matches |-> price[m][o[m]]]
    <3>1. \A m \in Matches : o[m] = 1 \/ o[m] = 2
      BY <2>1, WinnersHold
    <3>2. \A m \in S : h[m] \in Int
      BY <2>2, <3>1
    <3>3. h[x] = price[x][s]
      BY <2>1
    <3>4. IsFiniteSet(S)
      BY TreeAssumption, FS_Subset
    <3> HIDE DEF h
    <3>5. ProductOver(h, S) = h[x] * ProductOver(h, S \ {x})
      BY <3>2, <3>4, ProductStep
    <3>6. Chance(price, o, S) = price[x][s] * Chance(price, o, S \ {x})
      BY <3>3, <3>5 DEF Chance, h
    <3>7. Chance(price, o, S \ {x}) \in Int
      BY <2>1, ChanceIsWhole
    <3> QED
      BY <3>6, <3>7
  <2>5. IsFiniteSet(W)
    BY <2>1, OutcomesAreFinite
  <2> HIDE DEF f, g, W
  <2>6. SumOver(f, W) = price[x][s] * SumOver(g, W)
    BY <2>3, <2>4, <2>5, SumScale
  <2> QED
    BY <2>6 DEF Chances, f, g
<1> QED
  BY <1>1, <1>2, <1>3

\* What a set of completions weighs, in two parts.
LEMMA ChancesAddUp ==
    ASSUME NEW price \in PriceLists, NEW S \in SUBSET Matches, NEW W \in SUBSET Outcomes,
           NEW x \in Matches
    PROVE  Chances(price, S, W) = Chances(price, S, Decided(W, x, 1))
                                  + Chances(price, S, Decided(W, x, 2))
<1> DEFINE V(s) == Decided(W, x, s)
           f == [o \in W |-> Chance(price, o, S)]
           g(s) == [o \in V(s) |-> Chance(price, o, S)]
<1>1. /\ W = V(1) \cup V(2) /\ V(1) \cap V(2) = {}
      /\ IsFiniteSet(W) /\ IsFiniteSet(V(1)) /\ IsFiniteSet(V(2))
  <2>1. \A o \in W : o[x] = 1 \/ o[x] = 2
    BY WinnersHold
  <2> QED
    BY <2>1, OutcomesAreFinite DEF Decided
<1>2. \A o \in W : f[o] \in Int
  BY ChanceIsWhole
<1>3. \A s \in 1..2 : \A o \in V(s) : f[o] = g(s)[o]
  BY DEF Decided
<1>4. Chances(price, S, V(1)) = SumOver(g(1), V(1)) /\ Chances(price, S, V(2)) = SumOver(g(2), V(2))
      /\ Chances(price, S, W) = SumOver(f, W)
  BY DEF Chances
<1> HIDE DEF f, g, V
<1>5. SumOver(f, V(1)) = SumOver(g(1), V(1)) /\ SumOver(f, V(2)) = SumOver(g(2), V(2))
  BY <1>1, <1>3, SumEqual
<1>6. SumOver(f, V(1) \cup V(2)) = SumOver(f, V(1)) + SumOver(f, V(2))
  BY <1>1, <1>2, SumUnion
<1> QED
  BY <1>1, <1>4, <1>5, <1>6 DEF V

\* All the completions of a set weigh what its prices add up to.
LEMMA ChancesAreWhole ==
    ASSUME NEW price \in PriceLists, NEW S \in SUBSET Matches, NEW b \in Outcomes
    PROVE  Chances(price, S, Worlds(b, S)) = AllChances(price, S)
<1> DEFINE Bad == {T \in SUBSET S : \E c \in Outcomes :
                      Chances(price, T, Worlds(c, T)) # AllChances(price, T)}
<1>0. IsFiniteSet(S)
  BY TreeAssumption, FS_Subset
<1>1. Bad = {}
  <2> SUFFICES ASSUME Bad # {} PROVE FALSE
    OBVIOUS
  <2>1. PICK T \in Bad : \A q \in Bad : q \subseteq T => q = T
    <3>1. Bad \in SUBSET SUBSET S
      OBVIOUS
    <3> HIDE DEF Bad
    <3> QED
      BY <1>0, <3>1, SmallestSubset
  <2>2. PICK c \in Outcomes : Chances(price, T, Worlds(c, T)) # AllChances(price, T)
    OBVIOUS
  <2>3. T \in SUBSET Matches /\ IsFiniteSet(T)
    BY <1>0, FS_Subset
  <2>4. CASE T = {}
    <3>1. Worlds(c, {}) = {c}
      BY OutcomesAreFinite DEF Worlds
    <3> DEFINE f == [o \in {c} |-> Chance(price, o, {})]
    <3>2. Chance(price, c, {}) = 1 /\ AllChances(price, {}) = 1
      BY ProductEmpty DEF Chance, AllChances
    <3>3. \A o \in {c} : f[o] \in Int
      BY <3>2
    <3>4. f[c] = 1
      BY <3>2
    <3> HIDE DEF f
    <3>5. SumOver(f, {c}) = f[c] + SumOver(f, {c} \ {c})
      BY <3>3, FS_Singleton, SumStep
    <3>6. {c} \ {c} = {} /\ SumOver(f, {}) = 0
      BY SumEmpty
    <3>7. SumOver(f, {c}) = 1
      BY <3>4, <3>5, <3>6
    <3>8. Chances(price, {}, {c}) = 1
      BY <3>7 DEF Chances, f
    <3> QED
      BY <2>2, <2>4, <3>1, <3>2, <3>8
  <2>5. CASE T # {}
    <3>1. PICK x \in T : TRUE
      BY <2>5
    <3> DEFINE U == T \ {x}
               W(s) == Decided(Worlds(c, T), x, s)
               c1 == [c EXCEPT ![x] = 1]
               c2 == [c EXCEPT ![x] = 2]
    <3>2. U \in SUBSET Matches /\ x \in Matches
      BY <2>3
    <3>3. Chances(price, T, Worlds(c, T)) = Chances(price, T, W(1)) + Chances(price, T, W(2))
      <4>1. Worlds(c, T) \in SUBSET Outcomes
        BY DEF Worlds
      <4> QED
        BY <2>3, <3>2, <4>1, ChancesAddUp
    <3>11. \A s \in 1..2 :
              /\ [c EXCEPT ![x] = s] \in Outcomes
              /\ Decided(Worlds(c, T), x, s) = Worlds([c EXCEPT ![x] = s], T \ {x})
              /\ Chances(price, T, Decided(Worlds(c, T), x, s))
                    = price[x][s] * Chances(price, T \ {x}, Decided(Worlds(c, T), x, s))
      BY ONLY <2>3, x \in T, c \in Outcomes, price \in PriceLists, OneDecided
    <3>4. /\ c1 \in Outcomes /\ W(1) = Worlds(c1, U)
          /\ Chances(price, T, W(1)) = price[x][1] * Chances(price, U, W(1))
      BY <3>11
    <3>5. /\ c2 \in Outcomes /\ W(2) = Worlds(c2, U)
          /\ Chances(price, T, W(2)) = price[x][2] * Chances(price, U, W(2))
      BY <3>11
    <3>6. U \notin Bad /\ U \in SUBSET S
      BY <2>1
    <3> HIDE DEF U, c1, c2, W
    <3>7. /\ Chances(price, U, W(1)) = AllChances(price, U)
          /\ Chances(price, U, W(2)) = AllChances(price, U)
      BY <3>4, <3>5, <3>6
    <3>8. AllChances(price, T) = (price[x][1] + price[x][2]) * AllChances(price, U)
      <4> DEFINE f == [m \in Matches |-> price[m][1] + price[m][2]]
      <4>1. \A m \in T : f[m] \in Int
        BY <2>3 DEF PriceLists
      <4>2. f[x] = price[x][1] + price[x][2]
        BY <3>2
      <4> HIDE DEF f
      <4>3. ProductOver(f, T) = f[x] * ProductOver(f, T \ {x})
        BY <2>3, <4>1, ProductStep
      <4> QED
        BY <4>2, <4>3 DEF AllChances, f, U
    <3>9. price[x][1] \in Int /\ price[x][2] \in Int /\ AllChances(price, U) \in Int
      BY <3>2, ChanceIsWhole DEF PriceLists
    <3>10. \A i, j, k \in Int : (i + j) * k = i * k + j * k
      OBVIOUS
    <3> QED
      BY <2>2, <3>3, <3>4, <3>5, <3>7, <3>8, <3>9, <3>10
  <2> QED
    BY <2>4, <2>5
<1>2. S \notin Bad
  BY <1>1
<1> QED
  BY <1>2

\* One match set aside.
LEMMA AllChancesStep ==
    ASSUME NEW price \in PriceLists, NEW S \in SUBSET Matches, NEW x \in S
    PROVE  AllChances(price, S) = (price[x][1] + price[x][2]) * AllChances(price, S \ {x})
<1> DEFINE f == [m \in Matches |-> price[m][1] + price[m][2]]
<1>1. \A m \in S : f[m] \in Int
  BY DEF PriceLists
<1>2. f[x] = price[x][1] + price[x][2]
  OBVIOUS
<1>3. IsFiniteSet(S)
  BY TreeAssumption, FS_Subset
<1> HIDE DEF f
<1>4. ProductOver(f, S) = f[x] * ProductOver(f, S \ {x})
  BY <1>1, <1>3, ProductStep
<1> QED
  BY <1>2, <1>4 DEF AllChances, f

\* What the markets say makes prices, whatever they say.
LEMMA QuotesMakePrices ==
    ASSUME NEW r, NEW quoted \in [Resolvable(r) -> Quotes]
    PROVE  Prices(r, quoted) \in PriceLists
<1> DEFINE p == Prices(r, quoted)
<1>1. ASSUME NEW quote \in Quotes
      PROVE  Price(quote) \in Nat \X Nat /\ Price(quote)[1] + Price(quote)[2] > 0
  <2>1. /\ quote.reach = <<>> \/ quote.reach \in Nat \X Nat
        /\ quote.odds # <<>> =>
              quote.odds \in Nat \X Nat /\ quote.odds[1] + quote.odds[2] > 0
    BY PoolAssumption
  <2>2. <<1, 1>> \in Nat \X Nat /\ <<1, 1>>[1] + <<1, 1>>[2] > 0
    OBVIOUS
  <2> QED
    BY <2>1, <2>2 DEF Price
<1>2. ASSUME NEW m \in Matches PROVE p[m] \in Nat \X Nat /\ p[m][1] + p[m][2] > 0
  <2>1. p[m] = IF m \in Resolvable(r) THEN Price(quoted[m]) ELSE <<1, 1>>
    BY DEF Prices
  <2> HIDE DEF p
  <2>2. CASE m \in Resolvable(r)
    BY <1>1, <2>1, <2>2
  <2>3. CASE m \notin Resolvable(r)
    BY <2>1, <2>3
  <2> QED
    BY <2>2, <2>3
<1>3. p = [m \in Matches |-> p[m]]
  BY DEF Prices
<1> HIDE DEF p
<1>4. p \in PriceLists
  BY <1>2, <1>3 DEF PriceLists
<1> QED
  BY <1>4 DEF p

\* The completions of the results are the worlds of the open matches.
LEMMA CompletionsAreWorlds ==
    ASSUME NEW r \in [Matches -> 0..2]
    PROVE  /\ \E b \in Outcomes : Completions(r) = Worlds(b, Open(r))
           /\ Open(r) \in SUBSET Matches /\ Resolvable(r) \subseteq Open(r)
           /\ Completions(r) \in SUBSET Outcomes /\ IsFiniteSet(Completions(r))
<1> DEFINE b == [m \in Matches |-> IF m \in Known(r) THEN r[m] ELSE 1]
<1>1. Known(r) \subseteq Matches /\ \A m \in Known(r) : r[m] \in 1..2
  BY KnownIsFinished
<1>2. b \in Outcomes
  BY <1>1, OutcomesAreFinite
<1>3. Matches \ Open(r) = Known(r)
  BY <1>1 DEF Open
<1>4. \A m \in Known(r) : b[m] = r[m]
  BY <1>1
<1>5. Completions(r) = Worlds(b, Open(r))
  <2> HIDE DEF b
  <2> QED
    BY <1>3, <1>4 DEF Completions, Worlds
<1>6. Completions(r) \in SUBSET Outcomes
  BY DEF Completions
<1> QED
  BY <1>2, <1>5, <1>6, OutcomesAreFinite DEF Open, Resolvable

\* Equal shares of a win make a whole one.
LEMMA SharesMakeAWin ==
    /\ Share \in Nat
    /\ \A tied \in SUBSET Entries : tied # {} =>
          WinShare(tied) \in Nat /\ WinShare(tied) * Cardinality(tied) = Share
<1> DEFINE parts == 1..Cardinality(Entries)
           f == [n \in parts |-> n]
<1>1. IsFiniteSet(Entries) /\ Cardinality(Entries) \in Nat
  BY PoolAssumption, FS_CardinalityType
<1>2. IsFiniteSet(parts) /\ \A n \in parts : f[n] = n /\ n \in Nat /\ n > 0
  BY <1>1, FS_Interval
<1>3. Share = ProductOver(f, parts)
  BY DEF Share
<1>4. \A tied \in SUBSET Entries : tied # {} => Cardinality(tied) \in parts
  <2> SUFFICES ASSUME NEW tied \in SUBSET Entries, tied # {} PROVE Cardinality(tied) \in parts
    OBVIOUS
  <2>1. IsFiniteSet(tied) /\ Cardinality(tied) <= Cardinality(Entries)
    BY <1>1, FS_Subset
  <2>2. Cardinality(tied) \in Nat /\ Cardinality(tied) # 0
    BY <2>1, FS_CardinalityType, FS_EmptySet
  <2> QED
    BY <1>1, <2>1, <2>2
<1> HIDE DEF f, parts
<1>5. Share \in Nat
  BY <1>2, <1>3, ProductPositive
<1>6. ASSUME NEW tied \in SUBSET Entries, tied # {}
      PROVE  WinShare(tied) \in Nat /\ WinShare(tied) * Cardinality(tied) = Share
  <2>1. PICK k \in parts : k = Cardinality(tied)
    BY <1>4, <1>6
  <2>2. ProductOver(f, parts) = f[k] * ProductOver(f, parts \ {k})
    BY <1>2, ProductStep
  <2>3. \A n \in parts \ {k} : f[n] \in Nat /\ f[n] > 0
    BY <1>2
  <2>4. IsFiniteSet(parts \ {k})
    BY <1>2, FS_RemoveElement
  <2>5. PICK q \in Nat : q = ProductOver(f, parts \ {k})
    BY ONLY <2>3, <2>4, ProductPositive
  <2>6. k \in Nat /\ k > 0 /\ Share = k * q
    BY <1>2, <1>3, <2>2, <2>5
  <2>7. \A i, j \in Nat : i > 0 => (i * j) \div i = j /\ j * i = i * j
    OBVIOUS
  <2>8. Share \div k = q /\ q * k = Share
    BY <2>5, <2>6, <2>7
  <2> QED
    BY <2>1, <2>5, <2>8 DEF WinShare
<1> QED
  BY <1>5, <1>6

\* Somebody is on top.
LEMMA SomebodyLeads ==
    ASSUME NEW in \in Readings, NEW o \in Outcomes
    PROVE  Top(Scores[in][o]) # {} /\ Top(Scores[in][o]) \in SUBSET Entries
<1> DEFINE there(e) == BasePoints(e, in) + KoPoints(e, Advancement[o]) + BonusPoints(e, in, o)
           score == Scores[in][o]
           points == {score[e] : e \in Entries}
<1>1. score = [e \in Entries |-> there(e)]
  BY DEF Scores
<1>2. ASSUME NEW e \in Entries PROVE there(e) \in Int
  <2> DEFINE banked == [q \in Questions |-> Hits(e, q, in.paid[q])]
             hoped == [q \in Questions |-> Hits(e, q, Settle(q, Advancement[o]))]
  <2>1. \A q \in Questions : banked[q] \in Int /\ hoped[q] \in Int
    BY PointsAreWhole
  <2>2. in.open \subseteq Questions
    BY DEF Readings
  <2>3. IsFiniteSet(Questions) /\ IsFiniteSet(in.open)
    BY <2>2, PoolAssumption, FS_Subset
  <2>4. BasePoints(e, in) = Fixed[e] + SumOver(banked, Questions)
    BY DEF BasePoints, BankedBonus
  <2>5. BonusPoints(e, in, o) = SumOver(hoped, in.open)
    BY DEF BonusPoints, Unsettled
  <2> HIDE DEF banked, hoped
  <2>6. SumOver(banked, Questions) \in Int /\ SumOver(hoped, in.open) \in Int
    BY <2>1, <2>2, <2>3, SumInt
  <2>7. Fixed[e] \in Int /\ KoPoints(e, Advancement[o]) \in Int
    BY PointsAreWhole
  <2> QED
    BY <2>4, <2>5, <2>6, <2>7
<1>3. \A e \in Entries : score[e] \in Int
  BY <1>1, <1>2
<1> HIDE DEF score
<1>4. DOMAIN score = Entries /\ score \in Surjection(Entries, points)
  <2>1. DOMAIN score = Entries /\ score = [e \in Entries |-> score[e]]
    BY <1>1
  <2> QED
    BY <2>1 DEF Surjection
<1>5. points \subseteq Int /\ points # {}
  BY <1>3, PoolAssumption
<1> HIDE DEF points
<1>6. IsFiniteSet(points)
  BY <1>4, PoolAssumption, FS_Surjection
<1>7. Max(points) \in points /\ \A n \in points : n <= Max(points)
  BY <1>5, <1>6, GreatestOf
<1>8. PICK e \in Entries : \A f \in Entries : score[f] <= score[e]
  BY <1>7 DEF points
<1>9. Top(score) # {} /\ Top(score) \in SUBSET Entries
  BY <1>8 DEF Top
<1> QED
  BY <1>9 DEF score

\* As many teams reach a round as it has places, and one the title.
Reaching(o, n) == {t \in Teams : Advancement[o][t] >= n}
Places(n) == IF n = Champion THEN 1 ELSE 2 * Cardinality({m \in Matches : Round[m] = n})

LEMMA RoundsAreFull ==
    ASSUME NEW o \in Outcomes, NEW n \in 1..Champion
    PROVE  Cardinality(Reaching(o, n)) = Places(n) /\ Places(n) \in Nat
<1>1. CASE n = Champion
  <2>1. Reaching(o, n) = {Winners[o][Final]}
    <3>1. Winners[o][Final] \in Teams
      BY SidesAreTeams, RoundFacts
    <3> QED
      BY <1>1, <3>1, WhoReaches DEF Reaching
  <2>2. Cardinality(Reaching(o, n)) = 1
    BY <2>1, FS_Singleton
  <2> QED
    BY <1>1, <2>2 DEF Places
<1>2. CASE n # Champion
  <2> DEFINE L == {m \in Matches : Round[m] = n}
             f == [x \in L \X (1..2) |-> Side(o, x[1], x[2])]
  <2>1. n \in 1..LastRound
    BY <1>2, RoundFacts
  <2>2. IsFiniteSet(L) /\ IsFiniteSet(1..2) /\ Cardinality(1..2) = 2
    <3>1. IsFiniteSet(L)
      BY TreeAssumption, FS_Subset
    <3>2. IsFiniteSet(1..2) /\ Cardinality(1..2) = IF 1 > 2 THEN 0 ELSE 2 - 1 + 1
      BY ONLY 1 \in Int, 2 \in Int, FS_Interval
    <3> QED
      BY <3>1, <3>2
  <2>3. IsFiniteSet(L \X (1..2)) /\ Cardinality(L \X (1..2)) = Cardinality(L) * 2
        /\ Cardinality(L) \in Nat
    <3> HIDE DEF L
    <3> QED
      BY <2>2, FS_Product, FS_CardinalityType
  <2>4. \A x \in L \X (1..2) : x[1] \in Matches /\ Round[x[1]] = n /\ x[2] \in 1..2
                               /\ x = <<x[1], x[2]>>
    OBVIOUS
  <2>5. \A x, y \in L \X (1..2) : f[x] = f[y] => x = y
    <3> SUFFICES ASSUME NEW x \in L \X (1..2), NEW y \in L \X (1..2), f[x] = f[y] PROVE x = y
      OBVIOUS
    <3>1. Side(o, x[1], x[2]) = Side(o, y[1], y[2])
      OBVIOUS
    <3>2. x[1] = y[1] /\ x[2] = y[2]
      BY <2>4, <3>1, SidesDiffer
    <3> QED
      BY <2>4, <3>2
  <2>6. \A x \in L \X (1..2) : f[x] \in Reaching(o, n)
    <3> SUFFICES ASSUME NEW x \in L \X (1..2) PROVE f[x] \in Reaching(o, n)
      OBVIOUS
    <3>1. f[x] = Side(o, x[1], x[2]) /\ (x[2] = 1 \/ x[2] = 2)
      BY <2>4
    <3>2. f[x] \in Pairing(o, x[1]) /\ f[x] \in Teams
      BY <2>4, <3>1, SidesAreTeams DEF Pairing
    <3> HIDE DEF f
    <3> QED
      BY <2>1, <2>4, <3>2, WhoReaches DEF Reaching
  <2>7. \A t \in Reaching(o, n) : \E x \in L \X (1..2) : f[x] = t
    <3> SUFFICES ASSUME NEW t \in Reaching(o, n) PROVE \E x \in L \X (1..2) : f[x] = t
      OBVIOUS
    <3>1. PICK m \in Matches : Round[m] = n /\ t \in Pairing(o, m)
      BY <2>1, WhoReaches DEF Reaching
    <3>2. PICK s \in 1..2 : t = Side(o, m, s)
      BY <3>1 DEF Pairing
    <3>3. <<m, s>> \in L \X (1..2) /\ f[<<m, s>>] = t
      BY <3>1, <3>2
    <3> QED
      BY <3>3
  <2>8. f \in Bijection(L \X (1..2), Reaching(o, n))
    <3>1. f \in [L \X (1..2) -> Reaching(o, n)]
      BY <2>6
    <3> HIDE DEF f, L
    <3> QED
      BY <2>5, <2>7, <3>1 DEF Bijection, Injection, IsInjective, Surjection
  <2> HIDE DEF f
  <2>9. Cardinality(Reaching(o, n)) = Cardinality(L \X (1..2))
    <3> HIDE DEF L
    <3> QED
      BY <2>3, <2>8, FS_Bijection DEF ExistsBijection
  <2> HIDE DEF L
  <2>10. Cardinality(L) * 2 = 2 * Cardinality(L) /\ 2 * Cardinality(L) \in Nat
    BY <2>3
  <2> QED
    BY <1>2, <2>3, <2>9, <2>10 DEF Places, L
<1> QED
  BY <1>1, <1>2

\* Whom a set of completions lets win, and what the win is worth in each.
Winning(in, e, W) == {o \in W : e \in Top(Scores[in][o])}
Credit(in, price) ==
    [o \in Outcomes |-> Weight(in.results, price, o) * WinShare(Top(Scores[in][o]))]

\* The wins and the weights, as sums of these.
LEMMA WinsAreCredits ==
    ASSUME NEW in \in Readings, NEW price \in PriceLists, NEW W \in SUBSET Outcomes
    PROVE  /\ \A o \in Outcomes : Credit(in, price)[o] \in Int
           /\ \A e : Winning(in, e, W) \in SUBSET Outcomes /\ IsFiniteSet(Winning(in, e, W))
           /\ \A e : Wins(in, price, e, W) = SumOver(Credit(in, price), Winning(in, e, W))
           /\ Mass(in, price, W) = Chances(price, Open(in.results), W)
<1> DEFINE S == Open(in.results)
<1>1. S \in SUBSET Matches
  BY DEF Open
<1>2. \A o : Weight(in.results, price, o) = Chance(price, o, S)
  BY DEF Weight, Chance
<1>3. \A o \in Outcomes : Weight(in.results, price, o) \in Int
  BY <1>1, <1>2, ChanceIsWhole
<1>4. \A o \in Outcomes : WinShare(Top(Scores[in][o])) \in Int
  BY SomebodyLeads, SharesMakeAWin
<1>5. \A o \in Outcomes : Credit(in, price)[o] \in Int
  BY <1>3, <1>4 DEF Credit
<1>6. \A e : Winning(in, e, W) \in SUBSET Outcomes /\ IsFiniteSet(Winning(in, e, W))
  BY OutcomesAreFinite DEF Winning
<1>7. ASSUME NEW e PROVE Wins(in, price, e, W) = SumOver(Credit(in, price), Winning(in, e, W))
  <2> DEFINE f == [o \in W |-> Weight(in.results, price, o) * WinShare(Top(Scores[in][o]))]
  <2>1. Wins(in, price, e, W) = SumOver(f, Winning(in, e, W))
    BY Zenon DEF Wins, Winning
  <2>2. \A o \in Winning(in, e, W) : f[o] = Credit(in, price)[o]
    BY DEF Winning, Credit
  <2> HIDE DEF f
  <2>3. SumOver(f, Winning(in, e, W)) = SumOver(Credit(in, price), Winning(in, e, W))
    BY <1>6, <2>2, SumEqual
  <2> QED
    BY <2>1, <2>3
<1>8. Mass(in, price, W) = Chances(price, S, W)
  BY <1>2 DEF Mass, Chances
<1> QED
  BY <1>5, <1>6, <1>7, <1>8

\* All the entries together win every completion once.
LEMMA WinsMakeOne ==
    ASSUME NEW in \in Readings, NEW price \in PriceLists,
           NEW W \in SUBSET Outcomes
    PROVE  SumOver([e \in Entries |-> Wins(in, price, e, W)], Entries)
              = Mass(in, price, W) * Share
<1> DEFINE g == [e \in Entries |-> Wins(in, price, e, W)]
           f == Credit(in, price)
           w == [o \in W |-> Weight(in.results, price, o)]
           R == {p \in Entries \X W : p[1] \in Top(Scores[in][p[2]])}
           h == [o \in W |-> Weight(in.results, price, o) * Share]
<1>1. \A e \in Entries : g[e] = SumOver(f, Seconds(W, R, e))
  <2>1. \A e \in Entries : Seconds(W, R, e) = Winning(in, e, W)
    BY DEF Seconds, Winning
  <2> QED
    BY <2>1, WinsAreCredits
<1>2. \A o \in W : h[o] = f[o] * Cardinality(Firsts(Entries, R, o))
  <2> SUFFICES ASSUME NEW o \in W PROVE h[o] = f[o] * Cardinality(Firsts(Entries, R, o))
    OBVIOUS
  <2> DEFINE top == Top(Scores[in][o])
  <2>1. o \in Outcomes /\ top # {} /\ top \in SUBSET Entries
    BY SomebodyLeads
  <2>2. Firsts(Entries, R, o) = top
    BY <2>1 DEF Firsts
  <2>3. f[o] = Weight(in.results, price, o) * WinShare(top)
    BY <2>1 DEF Credit
  <2>4. h[o] = Weight(in.results, price, o) * Share
    OBVIOUS
  <2>5. WinShare(top) \in Nat /\ WinShare(top) * Cardinality(top) = Share
    BY <2>1, SharesMakeAWin
  <2>6. Weight(in.results, price, o) \in Int
    BY <2>1, ChanceIsWhole DEF Weight, Chance, Open
  <2>7. Cardinality(top) \in Nat
    BY <2>1, PoolAssumption, FS_Subset, FS_CardinalityType
  <2> HIDE DEF top, f, h, R
  <2>8. \A i, j, k \in Int : (i * j) * k = i * (j * k)
    OBVIOUS
  <2> QED
    BY <2>2, <2>3, <2>4, <2>5, <2>6, <2>7, <2>8
<1>3. IsFiniteSet(W) /\ IsFiniteSet(Entries) /\ \A o \in W : f[o] \in Int
  BY WinsAreCredits, OutcomesAreFinite, PoolAssumption
<1>4. \A o \in W : w[o] \in Int /\ h[o] = Share * w[o]
  <2>1. \A o \in W : Weight(in.results, price, o) \in Int
    BY ChanceIsWhole DEF Weight, Chance, Open
  <2> QED
    BY <2>1, SharesMakeAWin
<1>5. SumOver(w, W) = Mass(in, price, W)
  BY DEF Mass
<1>6. SumOver(w, W) \in Int /\ Share \in Int
  <2> HIDE DEF w
  <2> QED
    BY <1>3, <1>4, SumInt, SharesMakeAWin
<1> HIDE DEF f, h, w, R
<1>7. SumOver(g, Entries) = SumOver(h, W)
  <2> HIDE DEF g
  <2>1. TwoOrders(Entries, W, R, f, g, h)
    BY <1>1, <1>2, <1>3 DEF TwoOrders
  <2> QED
    BY <1>3, <2>1, SumsSwap
<1>8. SumOver(h, W) = Share * SumOver(w, W)
  <2>1. IsFiniteSet(W)
    BY <1>3
  <2>2. \A o \in W : w[o] \in Int /\ h[o] = Share * w[o]
    BY <1>4
  <2>3. Share \in Int
    BY <1>6
  <2> QED
    BY ONLY <2>1, <2>2, <2>3, SumScale
<1> QED
  BY <1>5, <1>6, <1>7, <1>8

\* The wins of an entry, champion by champion and side by side.
LEMMA WinsByChampion ==
    ASSUME NEW in \in Readings, NEW price \in PriceLists, NEW e \in Entries
    PROVE  Wins(in, price, e, Completions(in.results))
              = SumOver([t \in Teams |-> TitleWorld(in, price, e, t)], Teams)
<1> DEFINE C == Completions(in.results)
           A == Winning(in, e, C)
           f == Credit(in, price)
           c == [o \in A |-> Winners[o][Final]]
           g == [t \in Teams |-> TitleWorld(in, price, e, t)]
<1>1. C \in SUBSET Outcomes
  BY DEF Completions
<1>2. IsFiniteSet(A) /\ IsFiniteSet(Teams) /\ \A o \in A : f[o] \in Int
  BY <1>1, WinsAreCredits, PoolAssumption
<1>3. \A o \in A : c[o] \in Teams
  BY <1>1, SidesAreTeams, RoundFacts DEF Winning
<1>4. ASSUME NEW t \in Teams PROVE g[t] = SumOver(f, Class(A, c, t))
  <2> DEFINE V == {o \in C : Winners[o][Final] = t}
  <2>1. Winning(in, e, V) = Class(A, c, t)
    BY DEF Winning, Class
  <2>2. g[t] = Wins(in, price, e, V)
    BY DEF TitleWorld
  <2>3. V \in SUBSET Outcomes
    BY <1>1
  <2> HIDE DEF V
  <2>4. Wins(in, price, e, V) = SumOver(f, Winning(in, e, V))
    BY <2>3, WinsAreCredits
  <2> QED
    BY <2>1, <2>2, <2>4
<1>5. Wins(in, price, e, C) = SumOver(f, A)
  BY <1>1, WinsAreCredits
<1> HIDE DEF A, f, c, g
<1>6. SumOver(f, A) = SumOver(g, Teams)
  BY ONLY <1>2, <1>3, <1>4, SumByClass
<1> QED
  BY <1>5, <1>6 DEF g

LEMMA WinsBySide ==
    ASSUME NEW in \in Readings, NEW price \in PriceLists, NEW e \in Entries, NEW m \in Matches
    PROVE  Wins(in, price, e, Completions(in.results))
              = IfWon(in, price, e, m, 1) + IfWon(in, price, e, m, 2)
<1> DEFINE C == Completions(in.results)
           V(s) == {o \in C : o[m] = s}
           A(s) == Winning(in, e, V(s))
           f == Credit(in, price)
<1>1. C \in SUBSET Outcomes
  BY DEF Completions
<1>2. V(1) \in SUBSET Outcomes /\ V(2) \in SUBSET Outcomes
  BY <1>1
<1>3. Winning(in, e, C) = A(1) \cup A(2) /\ A(1) \cap A(2) = {}
  <2>1. \A o \in C : o[m] = 1 \/ o[m] = 2
    BY <1>1, WinnersHold
  <2> QED
    BY <2>1 DEF Winning
<1> HIDE DEF C
<1>4. /\ IfWon(in, price, e, m, 1) = Wins(in, price, e, V(1))
      /\ IfWon(in, price, e, m, 2) = Wins(in, price, e, V(2))
  BY DEF IfWon, C
<1> HIDE DEF V
<1>5. /\ Wins(in, price, e, V(1)) = SumOver(f, A(1)) /\ IsFiniteSet(A(1))
      /\ Wins(in, price, e, V(2)) = SumOver(f, A(2)) /\ IsFiniteSet(A(2))
      /\ Wins(in, price, e, C) = SumOver(f, Winning(in, e, C))
  BY <1>1, <1>2, WinsAreCredits
<1>6. \A o \in A(1) \cup A(2) : f[o] \in Int
  BY <1>2, WinsAreCredits
<1> HIDE DEF A, f
<1>7. SumOver(f, A(1) \cup A(2)) = SumOver(f, A(1)) + SumOver(f, A(2))
  BY <1>3, <1>5, <1>6, SumUnion
<1> QED
  BY <1>3, <1>4, <1>5, <1>7 DEF C

\* Every place of a round goes to a team, in every completion.
LEMMA StagesAreFull ==
    ASSUME NEW in \in Readings, NEW price \in PriceLists, NEW n \in 1..Champion
    PROVE  SumOver([t \in Teams |-> StageOdds(in, price, t, n)], Teams)
              = Mass(in, price, Completions(in.results)) * Places(n)
<1> DEFINE C == Completions(in.results)
           w == [o \in C |-> Weight(in.results, price, o)]
           g == [t \in Teams |-> StageOdds(in, price, t, n)]
           R == {p \in Teams \X C : Advancement[p[2]][p[1]] >= n}
           h == [o \in C |-> Weight(in.results, price, o) * Places(n)]
<1>1. C \in SUBSET Outcomes /\ IsFiniteSet(C) /\ IsFiniteSet(Teams)
  BY OutcomesAreFinite, PoolAssumption DEF Completions
<1>2. \A o \in C : w[o] \in Int
  BY <1>1, ChanceIsWhole DEF Weight, Chance, Open
<1>3. ASSUME NEW t \in Teams PROVE g[t] = SumOver(w, Seconds(C, R, t))
  <2> DEFINE V == {o \in C : Advancement[o][t] >= n}
             v == [o \in V |-> Weight(in.results, price, o)]
  <2>1. Seconds(C, R, t) = V
    BY DEF Seconds
  <2>2. g[t] = SumOver(v, V)
    BY DEF StageOdds, Mass
  <2>3. IsFiniteSet(V) /\ \A o \in V : v[o] = w[o]
    BY <1>1, FS_Subset
  <2> HIDE DEF V, v, w
  <2>4. SumOver(v, V) = SumOver(w, V)
    BY <2>3, SumEqual
  <2> QED
    BY <2>1, <2>2, <2>4
<1>4. ASSUME NEW o \in C PROVE h[o] = w[o] * Cardinality(Firsts(Teams, R, o))
  <2>1. Firsts(Teams, R, o) = Reaching(o, n)
    BY DEF Firsts, Reaching
  <2>2. Cardinality(Reaching(o, n)) = Places(n)
    BY <1>1, RoundsAreFull
  <2> QED
    BY <2>1, <2>2
<1>5. Places(n) \in Int
  <2>1. PICK o \in Outcomes : TRUE
    BY CompletionsAreWorlds DEF Readings
  <2> QED
    BY <2>1, RoundsAreFull
<1>6. \A o \in C : h[o] = Places(n) * w[o]
  BY <1>2, <1>5
<1>7. SumOver(w, C) = Mass(in, price, C)
  BY DEF Mass
<1> HIDE DEF C, w, g, R, h
<1>8. SumOver(g, Teams) = SumOver(h, C)
  <2>1. TwoOrders(Teams, C, R, w, g, h)
    BY <1>2, <1>3, <1>4 DEF TwoOrders
  <2> QED
    BY <1>1, <2>1, SumsSwap
<1>9. SumOver(h, C) = Places(n) * SumOver(w, C)
  BY <1>1, <1>2, <1>5, <1>6, SumScale
<1>10. SumOver(w, C) \in Int
  BY <1>1, <1>2, SumInt
<1> QED
  BY <1>5, <1>7, <1>8, <1>9, <1>10 DEF g, C

\* Whatever was read and whatever the markets say, the odds add up.
LEMMA OddsAlwaysAddUp ==
    ASSUME NEW in \in Readings
    PROVE  AddsUpAlways[in]
<1>1. in.results \in [Matches -> 0..2]
  BY DEF Readings
<1>2. ASSUME NEW quoted \in [Resolvable(in.results) -> Quotes]
      PROVE  AddsUp(in, Prices(in.results, quoted))
  <2>1. PICK price \in PriceLists : price = Prices(in.results, quoted)
    BY QuotesMakePrices
  <2> DEFINE all == Completions(in.results)
             S == Open(in.results)
             whole == Total(in.results, price)
             win == [e \in Entries |-> Wins(in, price, e, all)]
  <2>2. /\ all \in SUBSET Outcomes /\ IsFiniteSet(all) /\ S \in SUBSET Matches
        /\ Resolvable(in.results) \subseteq S
    BY <1>1, CompletionsAreWorlds
  <2>3. PICK b \in Outcomes : all = Worlds(b, S)
    BY <1>1, CompletionsAreWorlds
  <2>4. whole = AllChances(price, S)
    BY DEF Total, AllChances
  <2>5. whole \in Nat /\ whole > 0
    BY <2>2, <2>4, ChanceIsWhole
  <2>6. Mass(in, price, all) = whole
    <3>1. Mass(in, price, all) = Chances(price, S, all)
      BY <2>2, WinsAreCredits
    <3> QED
      BY <2>2, <2>3, <2>4, <3>1, ChancesAreWhole
  <2>7. SumOver(win, Entries) = whole * Share
    BY <2>2, <2>6, WinsMakeOne
  <2>8. ASSUME NEW e \in Entries
        PROVE  /\ win[e] = SumOver([t \in Teams |-> TitleWorld(in, price, e, t)], Teams)
               /\ \A m \in Resolvable(in.results) :
                     win[e] = IfWon(in, price, e, m, 1) + IfWon(in, price, e, m, 2)
    <3>1. win[e] = Wins(in, price, e, all)
      OBVIOUS
    <3> HIDE DEF win
    <3> QED
      BY <2>2, <3>1, WinsByChampion, WinsBySide
  <2>9. ASSUME NEW m \in Resolvable(in.results), NEW s \in 1..2
        PROVE  Mass(in, price, {o \in all : o[m] = s}) * (price[m][1] + price[m][2])
                  = whole * price[m][s]
    <3> DEFINE W == Decided(all, m, s)
               c == [b EXCEPT ![m] = s]
    <3>1. m \in S
      BY <2>2
    <3>2. /\ c \in Outcomes /\ W = Worlds(c, S \ {m})
          /\ Chances(price, S, W) = price[m][s] * Chances(price, S \ {m}, W)
      <4> HIDE DEF S, all
      <4> QED
        BY ONLY <2>2, <2>3, <3>1, s \in 1..2, b \in Outcomes, price \in PriceLists, OneDecided
    <3>3. Chances(price, S \ {m}, W) = AllChances(price, S \ {m})
      <4>1. S \ {m} \in SUBSET Matches
        BY <2>2
      <4> HIDE DEF S, W, c
      <4> QED
        BY <3>2, <4>1, ChancesAreWhole
    <3>4. AllChances(price, S) = (price[m][1] + price[m][2]) * AllChances(price, S \ {m})
      BY <2>2, <3>1, AllChancesStep
    <3>5. Mass(in, price, W) = Chances(price, S, W) /\ W = {o \in all : o[m] = s}
      <4>1. W \in SUBSET Outcomes
        BY <2>2 DEF Decided
      <4> QED
        BY <4>1, WinsAreCredits DEF Decided
    <3>6. /\ price[m][1] \in Int /\ price[m][2] \in Int /\ price[m][s] \in Int
          /\ AllChances(price, S \ {m}) \in Int
      <4>1. S \ {m} \in SUBSET Matches /\ m \in Matches /\ (s = 1 \/ s = 2)
        BY <2>2, <3>1
      <4>2. AllChances(price, S \ {m}) \in Int
        BY <4>1, ChanceIsWhole
      <4> QED
        BY <4>1, <4>2 DEF PriceLists
    <3> HIDE DEF W, c, S, whole, all
    <3>7. \A i, j, k \in Int : (i * j) * k = (k * j) * i
      OBVIOUS
    <3>8. price[m][1] + price[m][2] \in Int
      BY <3>6
    <3>9. whole = (price[m][1] + price[m][2]) * AllChances(price, S \ {m})
      BY <2>4, <3>4
    <3>10. Mass(in, price, W) = price[m][s] * AllChances(price, S \ {m})
      BY <3>2, <3>3, <3>5
    <3>11. Mass(in, price, W) * (price[m][1] + price[m][2]) = whole * price[m][s]
      BY ONLY <3>6, <3>7, <3>8, <3>9, <3>10
    <3> QED
      BY <3>5, <3>11
  <2>10. ASSUME NEW n \in 1..Champion
         PROVE  SumOver([t \in Teams |-> StageOdds(in, price, t, n)], Teams)
                   = whole * (IF n = Champion THEN 1
                              ELSE 2 * Cardinality({m \in Matches : Round[m] = n}))
    BY <2>6, StagesAreFull DEF Places
  <2>11. AddsUp(in, price)
    <3> HIDE DEF all, whole, win
    <3> QED
      BY <2>5, <2>7, <2>8, <2>9, <2>10 DEF AddsUp, all, whole, win
  <2> QED
    BY <2>1, <2>11
<1> QED
  BY <1>2 DEF AddsUpAlways

(* The odds of a forecast are one whole, however it is split, for every    *)
(* bracket, pool and quote (win_probability.py 466-640, 643-760).          *)
THEOREM TheOddsAddUp == Spec => []OddsAddUp
<1>1. ASSUME ForecastIInv, ReadingsStand PROVE OddsAddUp
  <2>1. TypeOK
    BY <1>1 DEF ForecastIInv
  <2>2. build \in Builds
    BY <2>1 DEF TypeOK, Builds
  <2>3. /\ build.results \in [Matches -> 0..2] /\ build.open \subseteq Questions
        /\ build.paid \in [Questions -> SUBSET Teams]
    BY <2>2 DEF Builds
  <2>4. Read(build) \in Readings
    BY <1>1, <2>3, BuildsRead DEF ReadingsStand
  <2> QED
    BY <2>1, <2>4, OddsAlwaysAddUp DEF OddsAddUp
<1> QED
  BY <1>1, ReadingsInvariant, PTL

(***************************************************************************)
(* Together.                                                               *)
(***************************************************************************)
(* A behaviour of the feeds is one of each of them.                        *)
LEMMA FeedsRun ==
    FeedsSpec => Spec /\ Reports!ReportsSpec /\ Sheet!SheetSpec /\ Odds!OddsSpec
<1>1. FeedsInit => Init /\ Reports!ReportsInit /\ Sheet!SheetInit /\ Odds!OddsInit
  BY DEF FeedsInit
<1>2. [FeedsNext]_feedsVars =>
         /\ [Next]_vars /\ [Reports!ReportsNext]_reportVars
         /\ [Sheet!SheetNext]_sheetVars /\ [Odds!OddsNext]_oddsVars
  BY DEF FeedsNext, feedsVars, vars, reportVars, sheetVars, oddsVars
<1> QED
  BY <1>1, <1>2, PTL
     DEF FeedsSpec, Spec, Reports!ReportsSpec, Sheet!SheetSpec, Odds!OddsSpec,
         Reports!reportVars, reportVars, Sheet!sheetVars, sheetVars, Odds!oddsVars, oddsVars

(* Of the feeds together: what was reported is true, the sheet is current, *)
(* no known price is lost, and a forecast adds up, counts what the pool    *)
(* would pay and misses no finish.                                         *)
THEOREM FeedsAreSound ==
    FeedsSpec => /\ []ReportsAreTrue /\ []SheetIsCurrent
                 /\ PricesStay
                 /\ []OddsAddUp /\ []CountedOnce
                 /\ [](TypeOK /\ ForecastIsCurrent)
BY FeedsRun, ReportsStayTrue, SheetTellsTheBoard, PricesAreKept, TheOddsAddUp, ForecastsCountOnce,
   ForecastsAreCurrent, PTL
=============================================================================
