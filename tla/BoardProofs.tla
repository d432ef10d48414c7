---------------------------- MODULE BoardProofs ----------------------------
(***************************************************************************)
(* Proofs about the board and what is on it: the cache that builds and     *)
(* serves it (LeaderboardCache), the projection laid over it while a match *)
(* is played (LiveBoard), the rows kept of it each day (DailySnapshots),   *)
(* and the rows the rounds and the bonus questions pay for (Knockout).     *)
(***************************************************************************)
EXTENDS LeaderboardCache, LiveBoard, DailySnapshots, Knockout, SumTheorems

-----------------------------------------------------------------------------
(***************************************************************************)
(* The cache.  For every set of keys, requests and writers, every TTL and  *)
(* every bound: it is type correct, rebuilds a key at most once at a time, *)
(* never calls a board fresh that is more than a TTL behind, and           *)
(* implements ServedBoard.                                                 *)
(***************************************************************************)

\* Ageing stays within the TTL.
LEMMA AgedType ==
    ASSUME NEW n \in Ages
    PROVE  Aged(n) \in Ages
BY CacheAssumption DEF Aged, Ages

\* The blank record a coroutine starts from is a board.
LEMMA NoBuildType == NoBuild \in Board
BY CacheAssumption DEF NoBuild, Board, Versions, Ages

\* What an answer keeps of a board is a span.
LEMMA SpanOfBoard ==
    ASSUME NEW b \in Board
    PROVE  [lo |-> b.lo, hi |-> b.hi] \in Span
BY DEF Board, Span

\* Every variable keeps its type, whatever the interleaving.
LEMMA TypeInit == Init => TypeOK
BY CacheAssumption, NoBuildType
   DEF Init, TypeOK, Actors, Span, Versions, Ages

\* Every step keeps every variable in its type, the bounds of its counters included.
LEMMA TypeStep == TypeOK /\ [Next]_vars => TypeOK'
<1> SUFFICES ASSUME TypeOK, [Next]_vars PROVE TypeOK'
  OBVIOUS
<1> USE CacheAssumption, NoBuildType DEF TypeOK, Actors, Holding
<1>1. ASSUME NEW r \in Requests, NEW k \in Keys, NEW f \in BOOLEAN, Call(r, k, f)
      PROVE  TypeOK'
  <2>1. CASE ServeCached(r, k)
    <3>1. [lo |-> board[k].lo, hi |-> board[k].hi] \in Span
      BY SpanOfBoard
    <3> QED BY <2>1, <3>1 DEF ServeCached, Respond
  <2>2. CASE WaitForRebuild(r, k, f)
    BY <2>2 DEF WaitForRebuild
  <2> QED BY <1>1, <2>1, <2>2 DEF Call
<1>2. ASSUME NEW a \in Actors, EnterFresh(a) PROVE TypeOK'
  <2>1. [lo |-> board[ask[a]].lo, hi |-> board[ask[a]].hi] \in Span
    BY SpanOfBoard
  <2> QED BY <1>2, <2>1 DEF EnterFresh, Respond
<1>3. ASSUME NEW a \in Actors, EnterBuild(a) PROVE TypeOK'
  BY <1>3 DEF EnterBuild, StartBuild
<1>4. ASSUME NEW a \in Actors, ReadFirst(a) PROVE TypeOK'
  BY <1>4 DEF ReadFirst, Board
<1>5. ASSUME NEW a \in Actors, ReadLast(a) PROVE TypeOK'
  BY <1>5 DEF ReadLast, Board
<1>6. ASSUME NEW a \in Actors, Publish(a) PROVE TypeOK'
  <2>1. [lo |-> build[a].lo, hi |-> build[a].hi] \in Span
    BY SpanOfBoard
  <2> QED BY <1>6, <2>1 DEF Publish, Store, Respond
<1>7. ASSUME NEW a \in Actors, Fail(a) PROVE TypeOK'
  BY <1>7 DEF Fail, RaiseWith
<1>8. ASSUME NEW w \in Writers, NEW s \in {"none", "invalidate", "expire"}, Commit(w, s)
      PROVE  TypeOK'
  BY <1>8 DEF Commit, Versions, Ages
<1>9. ASSUME NEW w \in Writers, InvalidateCache(w) PROVE TypeOK'
  BY <1>9 DEF InvalidateCache, DropAll
<1>10. CASE PostInvalidate
  BY <1>10 DEF PostInvalidate, DropAll
<1>11. ASSUME NEW w \in Writers, ExpireCache(w) PROVE TypeOK'
  BY <1>11 DEF ExpireCache, Board
<1>12. CASE Tick
  <2>1. commitAge' \in [Versions -> Ages]
    BY <1>12, AgedType DEF Tick
  <2>2. board' \in [Keys -> Board] /\ build' \in [Actors -> Board]
    BY <1>12, AgedType DEF Tick, Board
  <2> QED BY <1>12, <2>1, <2>2 DEF Tick
<1>13. CASE UNCHANGED vars
  BY <1>13 DEF vars
<1> QED
  BY <1>1, <1>2, <1>3, <1>4, <1>5, <1>6, <1>7, <1>8, <1>9, <1>10, <1>11, <1>12, <1>13
     DEF Next

\* In every reachable state the cache, its locks and the coroutines inside it are well
\* typed.
THEOREM TypeCorrect == Spec => []TypeOK
BY TypeInit, TypeStep, PTL DEF Spec

-----------------------------------------------------------------------------

\* The inductive invariant holds of a process just started.
LEMMA IInvInit == Init => IInv
<1> SUFFICES ASSUME Init PROVE IInv
  OBVIOUS
<1>1. TypeOK
  BY TypeInit
<1>2. HoldersHold
  BY DEF Init, HoldersHold, Holding
<1>3. BoardsInOrder
  <2>1. db = 0 /\ \A k \in Keys : answer[k].hi = 0 /\ k \notin cached
    BY DEF Init
  <2>2. ASSUME NEW k \in Keys PROVE answer[k].hi <= db
    BY <2>1
  <2> QED BY <2>1, <2>2 DEF BoardsInOrder
<1>4. BuildsInOrder
  BY DEF Init, BuildsInOrder
<1> QED BY <1>1, <1>2, <1>3, <1>4 DEF IInv

\* Whoever is inside the rebuild holds its key's lock: it is entered only with the lock
\* free, and left only by releasing it.
LEMMA LockStep == IInv /\ [Next]_vars => HoldersHold'
<1> SUFFICES ASSUME IInv, [Next]_vars PROVE HoldersHold'
  OBVIOUS
<1> USE CacheAssumption DEF IInv, TypeOK, HoldersHold, Actors, Holding
<1>1. ASSUME NEW r \in Requests, NEW k \in Keys, NEW f \in BOOLEAN, Call(r, k, f)
      PROVE  HoldersHold'
  BY <1>1 DEF Call, ServeCached, WaitForRebuild
<1>2. ASSUME NEW a \in Actors, EnterFresh(a) PROVE HoldersHold'
  BY <1>2 DEF EnterFresh
<1>3. ASSUME NEW a \in Actors, EnterBuild(a) PROVE HoldersHold'
  BY <1>3 DEF EnterBuild, StartBuild
<1>4. ASSUME NEW a \in Actors, ReadFirst(a) \/ ReadLast(a) PROVE HoldersHold'
  BY <1>4 DEF ReadFirst, ReadLast
<1>5. ASSUME NEW a \in Actors, Publish(a) PROVE HoldersHold'
  BY <1>5 DEF Publish, Store
<1>6. ASSUME NEW a \in Actors, Fail(a) PROVE HoldersHold'
  BY <1>6 DEF Fail, RaiseWith
<1>7. ASSUME NEW w \in Writers, NEW s \in {"none", "invalidate", "expire"}, Commit(w, s)
      PROVE  HoldersHold'
  BY <1>7 DEF Commit
<1>8. ASSUME NEW w \in Writers, InvalidateCache(w) \/ ExpireCache(w)
      PROVE  HoldersHold'
  BY <1>8 DEF InvalidateCache, ExpireCache
<1>9. CASE PostInvalidate \/ Tick
  BY <1>9 DEF PostInvalidate, Tick
<1>10. CASE UNCHANGED vars
  BY <1>10 DEF vars
<1> QED
  BY <1>1, <1>2, <1>3, <1>4, <1>5, <1>6, <1>7, <1>8, <1>9, <1>10 DEF Next
-----------------------------------------------------------------------------

\* Ages are integers, so that comparing them makes sense.
LEMMA SoundFacts ==
    ASSUME TypeOK
    PROVE  /\ db \in Nat
           /\ \A k \in Keys : board[k].lo \in Nat /\ board[k].hi \in Nat /\ board[k].age \in Ages
           /\ \A a \in Actors : build[a].lo \in Nat /\ build[a].hi \in Nat /\ build[a].age \in Ages
           /\ \A k \in Keys : answer[k].lo \in Nat /\ answer[k].hi \in Nat
           /\ \A v \in Versions : commitAge[v] \in Ages
BY CacheAssumption DEF TypeOK, Board, Span, Versions

\* A commit cannot make a board unsound: the new version is younger than every `now`.
LEMMA CommitKeepsSound ==
    ASSUME TypeOK, NEW b \in Board, Sound(b), db < MaxVersion
    PROVE  SoundAt(b, db + 1, [commitAge EXCEPT ![db + 1] = 0])
<1> USE CacheAssumption DEF Board, Versions, Ages
<1>1. ASSUME NEW v \in 1..(db + 1), [commitAge EXCEPT ![db + 1] = 0][v] > b.age
      PROVE  v <= b.lo
  <2>1. CASE v = db + 1
    BY <1>1, <2>1 DEF TypeOK
  <2>2. CASE v # db + 1
    BY <1>1, <2>2 DEF TypeOK, Sound, SoundAt
  <2> QED BY <2>1, <2>2
<1> QED BY <1>1 DEF TypeOK, Sound, SoundAt

\* A tick cannot either: what is at its cap stays there, and the rest ages together.
LEMMA TickKeepsSound ==
    ASSUME TypeOK, NEW b \in Board, Sound(b)
    PROVE  SoundAt([b EXCEPT !.age = Aged(@)], db, [v \in Versions |-> Aged(commitAge[v])])
<1> USE CacheAssumption DEF Board, Versions, Ages
<1> DEFINE c == [b EXCEPT !.age = Aged(@)]
           older == [v \in Versions |-> Aged(commitAge[v])]
<1>1. c.lo = b.lo /\ c.hi = b.hi /\ c.age = Aged(b.age)
  OBVIOUS
<1>2. ASSUME NEW v \in 1..db, older[v] > c.age
      PROVE  v <= c.lo
  <2>1. v \in Versions
    BY DEF TypeOK
  <2>2. commitAge[v] > b.age
    BY <1>1, <1>2, <2>1 DEF TypeOK, Aged
  <2> QED BY <1>1, <2>2 DEF Sound, SoundAt
<1> QED BY <1>1, <1>2 DEF Sound, SoundAt

\* The boards stay in order: a board is replaced only by one that was read after it, and
\* an answer is the board itself or older than the board that replaces it.
LEMMA BoardsStep == IInv /\ [Next]_vars => BoardsInOrder'
<1> SUFFICES ASSUME IInv, [Next]_vars PROVE BoardsInOrder'
  OBVIOUS
<1> USE CacheAssumption, SoundFacts DEF IInv, Actors
<1>0. TypeOK /\ TypeOK'
  BY TypeStep
<1>1. ASSUME NEW r \in Requests, NEW k \in Keys, NEW f \in BOOLEAN, Call(r, k, f)
      PROVE  BoardsInOrder'
  <2>1. CASE ServeCached(r, k)
    BY <2>1 DEF ServeCached, Respond, BoardsInOrder, Sound, SoundAt, TypeOK
  <2>2. CASE WaitForRebuild(r, k, f)
    BY <2>2 DEF WaitForRebuild, BoardsInOrder, Sound, SoundAt
  <2> QED BY <1>1, <2>1, <2>2 DEF Call
<1>2. ASSUME NEW a \in Actors, EnterFresh(a) PROVE BoardsInOrder'
  <2>1. ask[a] \in Keys /\ ask[a] \in cached /\ UNCHANGED <<db, commitAge, cached, board>>
    BY <1>2 DEF EnterFresh, IsFresh, TypeOK
  <2>2. CASE UNCHANGED answer
    BY <2>1, <2>2 DEF BoardsInOrder, Sound, SoundAt
  <2>3. CASE Respond(ask[a], board[ask[a]])
    BY <2>1, <2>3 DEF Respond, BoardsInOrder, Sound, SoundAt, TypeOK
  <2> QED BY <1>2, <2>2, <2>3 DEF EnterFresh
<1>3. ASSUME NEW a \in Actors, EnterBuild(a) PROVE BoardsInOrder'
  BY <1>3 DEF EnterBuild, StartBuild, BoardsInOrder, Sound, SoundAt
<1>4. ASSUME NEW a \in Actors, ReadFirst(a) \/ ReadLast(a) PROVE BoardsInOrder'
  BY <1>4 DEF ReadFirst, ReadLast, BoardsInOrder, Sound, SoundAt
<1>5. ASSUME NEW a \in Actors, Publish(a) PROVE BoardsInOrder'
  <2>1. /\ Sound(build[a])
        /\ answer[ask[a]].hi <= build[a].lo
    BY <1>5 DEF Publish, Store, BuildsInOrder
  <2>2. ask[a] \in Keys
    BY DEF TypeOK
  <2>3. /\ board' = [board EXCEPT ![ask[a]] = build[a]]
        /\ cached' = cached \cup {ask[a]}
        /\ UNCHANGED <<db, commitAge>>
        /\ \/ answer' = [answer EXCEPT ![ask[a]] = [lo |-> build[a].lo, hi |-> build[a].hi]]
           \/ UNCHANGED answer
    BY <1>5 DEF Publish, Store, Respond
  <2>4. ASSUME NEW k \in Keys, k # ask[a]
        PROVE  board'[k] = board[k] /\ answer'[k] = answer[k] /\ (k \in cached' => k \in cached)
    BY <2>2, <2>3, <2>4 DEF TypeOK
  <2>5. /\ board'[ask[a]] = build[a]
        /\ \/ answer'[ask[a]] = answer[ask[a]]
           \/ answer'[ask[a]] = [lo |-> build[a].lo, hi |-> build[a].hi]
    BY <2>2, <2>3 DEF TypeOK
  <2>6. ASSUME NEW k \in Keys
        PROVE  /\ answer'[k].hi <= db
               /\ k \in cached' =>
                     /\ Sound(board'[k])
                     /\ \/ answer'[k] = [lo |-> board'[k].lo, hi |-> board'[k].hi]
                        \/ answer'[k].hi <= board'[k].lo
    <3>1. CASE k = ask[a]
      BY <2>1, <2>2, <2>5, <3>1 DEF Sound, SoundAt, BoardsInOrder
    <3>2. CASE k # ask[a]
      BY <2>4, <3>2 DEF BoardsInOrder
    <3> QED BY <3>1, <3>2
  <2> QED BY <2>3, <2>6 DEF BoardsInOrder, Sound, SoundAt
<1>6. ASSUME NEW a \in Actors, Fail(a) PROVE BoardsInOrder'
  BY <1>6 DEF Fail, RaiseWith, BoardsInOrder, Sound, SoundAt
<1>7. ASSUME NEW w \in Writers, NEW s \in {"none", "invalidate", "expire"}, Commit(w, s)
      PROVE  BoardsInOrder'
  <2>1. ASSUME NEW k \in Keys, k \in cached PROVE Sound(board[k])'
    <3>1. SoundAt(board[k], db + 1, [commitAge EXCEPT ![db + 1] = 0])
      BY <1>7, <2>1, CommitKeepsSound DEF Commit, BoardsInOrder, TypeOK
    <3> QED BY <1>7, <3>1 DEF Commit, Sound
  <2> QED BY <1>7, <2>1 DEF Commit, BoardsInOrder
<1>8. ASSUME NEW w \in Writers, InvalidateCache(w) PROVE BoardsInOrder'
  BY <1>8 DEF InvalidateCache, DropAll, BoardsInOrder
<1>9. CASE PostInvalidate
  BY <1>9 DEF PostInvalidate, DropAll, BoardsInOrder
<1>10. ASSUME NEW w \in Writers, ExpireCache(w) PROVE BoardsInOrder'
  <2>1. ASSUME NEW k \in Keys
        PROVE  /\ board'[k].lo = board[k].lo /\ board'[k].hi = board[k].hi
               /\ board'[k].age = board[k].age
    BY <1>10 DEF ExpireCache, TypeOK, Board
  <2> QED BY <1>10, <2>1 DEF ExpireCache, BoardsInOrder, Sound, SoundAt
<1>11. CASE Tick
  <2>1. ASSUME NEW k \in Keys, k \in cached
        PROVE  /\ board'[k] = [board[k] EXCEPT !.age = Aged(@)]
               /\ board'[k].lo = board[k].lo
               /\ board'[k].hi = board[k].hi
    BY <1>11, <2>1 DEF Tick, TypeOK, Board
  <2>2. ASSUME NEW k \in Keys, k \in cached PROVE Sound(board[k])'
    <3>1. SoundAt([board[k] EXCEPT !.age = Aged(@)], db, [v \in Versions |-> Aged(commitAge[v])])
      BY <2>2, TickKeepsSound DEF BoardsInOrder, TypeOK
    <3> QED BY <1>11, <2>1, <2>2, <3>1 DEF Tick, Sound
  <2> QED BY <1>11, <2>1, <2>2 DEF Tick, BoardsInOrder
<1>12. CASE UNCHANGED vars
  BY <1>12 DEF vars, BoardsInOrder, Sound, SoundAt
<1> QED
  BY <1>1, <1>2, <1>3, <1>4, <1>5, <1>6, <1>7, <1>8, <1>9, <1>10, <1>11, <1>12 DEF Next

\* The builds stay in order: a build that begins to read sees at least what was committed
\* when its key's board was read, and the lock keeps any other build from publishing
\* between its first read and its own publication.
LEMMA BuildsStep == IInv /\ [Next]_vars => BuildsInOrder'
<1> SUFFICES ASSUME IInv, [Next]_vars PROVE BuildsInOrder'
  OBVIOUS
<1> USE CacheAssumption, SoundFacts DEF IInv, Actors, Holding
<1>0. TypeOK /\ TypeOK'
  BY TypeStep
<1>1. ASSUME NEW r \in Requests, NEW k \in Keys, NEW f \in BOOLEAN, Call(r, k, f)
      PROVE  BuildsInOrder'
  <2>1. CASE ServeCached(r, k)
    <3>1. ASSUME NEW b \in Actors, pc'[b] \in {"reading", "read"}
          PROVE  pc[b] = pc'[b] /\ ask'[b] = ask[b]
      BY <2>1, <3>1 DEF ServeCached, TypeOK
    <3>2. ASSUME NEW b \in Actors, pc'[b] \in {"reading", "read"}
          PROVE  answer'[ask[b]].hi <= build[b].lo
      BY <2>1, <3>1, <3>2 DEF ServeCached, Respond, BuildsInOrder, TypeOK
    <3> QED BY <2>1, <3>1, <3>2 DEF ServeCached, BuildsInOrder, Sound, SoundAt
  <2>2. CASE WaitForRebuild(r, k, f)
    BY <2>2 DEF WaitForRebuild, BuildsInOrder, Sound, SoundAt, TypeOK
  <2> QED BY <1>1, <2>1, <2>2 DEF Call
<1>2. ASSUME NEW a \in Actors, EnterFresh(a) PROVE BuildsInOrder'
  <2>1. ask[a] \in Keys /\ ask[a] \in cached
    BY <1>2 DEF EnterFresh, IsFresh, TypeOK
  <2>2. ASSUME NEW b \in Actors, pc'[b] \in {"reading", "read"}
        PROVE  pc[b] = pc'[b] /\ answer'[ask[b]].hi <= build[b].lo
    <3>1. pc[b] = pc'[b]
      BY <1>2, <2>2 DEF EnterFresh, TypeOK
    <3>2. CASE UNCHANGED answer
      BY <2>2, <3>1, <3>2 DEF BuildsInOrder
    <3>3. CASE Respond(ask[a], board[ask[a]])
      BY <2>1, <2>2, <3>1, <3>3 DEF Respond, BuildsInOrder, TypeOK
    <3> QED BY <1>2, <3>1, <3>2, <3>3 DEF EnterFresh
  <2> QED BY <1>2, <2>2 DEF EnterFresh, BuildsInOrder, Sound, SoundAt
<1>3. ASSUME NEW a \in Actors, EnterBuild(a) PROVE BuildsInOrder'
  BY <1>3 DEF EnterBuild, StartBuild, BuildsInOrder, Sound, SoundAt, TypeOK
<1>4. ASSUME NEW a \in Actors, ReadFirst(a) PROVE BuildsInOrder'
  <2>1. /\ build'[a].lo = db
        /\ build'[a].hi = db
        /\ \A b \in Actors : b # a => build'[b] = build[b] /\ pc'[b] = pc[b]
        /\ UNCHANGED <<db, commitAge, cached, board, ask, answer>>
    BY <1>4 DEF ReadFirst, TypeOK, Board
  <2>2. Sound(build[a])' /\ answer[ask[a]].hi <= db
        /\ (ask[a] \in cached => board[ask[a]].hi <= db)
    BY <2>1 DEF BoardsInOrder, Sound, SoundAt, TypeOK
  <2> QED BY <2>1, <2>2 DEF BuildsInOrder, Sound, SoundAt
<1>5. ASSUME NEW a \in Actors, ReadLast(a) PROVE BuildsInOrder'
  <2>1. /\ pc[a] = "reading"
        /\ build'[a].lo = build[a].lo
        /\ build'[a].age = build[a].age
        /\ build'[a].hi = db
        /\ \A b \in Actors : b # a => build'[b] = build[b] /\ pc'[b] = pc[b]
        /\ UNCHANGED <<db, commitAge, cached, board, ask, answer>>
    BY <1>5 DEF ReadLast, TypeOK, Board
  <2> QED BY <2>1 DEF BuildsInOrder, Sound, SoundAt
<1>6. ASSUME NEW a \in Actors, Publish(a) PROVE BuildsInOrder'
  <2>1. /\ pc[a] = "read"
        /\ pc'[a] = "idle"
        /\ UNCHANGED <<db, commitAge, ask>>
        /\ \A b \in Actors : b # a => build'[b] = build[b] /\ pc'[b] = pc[b]
        /\ \A k \in Keys : k # ask[a] =>
              /\ board'[k] = board[k]
              /\ answer'[k] = answer[k]
              /\ k \in cached' => k \in cached
    BY <1>6 DEF Publish, Store, Respond, TypeOK
  <2>2. ASSUME NEW b \in Actors, pc'[b] \in {"reading", "read"}
        PROVE  b # a /\ ask[b] # ask[a]
    BY <2>1, <2>2 DEF HoldersHold
  <2> QED BY <2>1, <2>2 DEF BuildsInOrder, Sound, SoundAt, TypeOK
<1>7. ASSUME NEW a \in Actors, Fail(a) PROVE BuildsInOrder'
  BY <1>7 DEF Fail, RaiseWith, BuildsInOrder, Sound, SoundAt, TypeOK
<1>8. ASSUME NEW w \in Writers, NEW s \in {"none", "invalidate", "expire"}, Commit(w, s)
      PROVE  BuildsInOrder'
  <2>1. ASSUME NEW b \in Actors, pc[b] \in {"reading", "read"} PROVE Sound(build[b])'
    <3>1. SoundAt(build[b], db + 1, [commitAge EXCEPT ![db + 1] = 0])
      BY <1>8, <2>1, CommitKeepsSound DEF Commit, BuildsInOrder, TypeOK
    <3> QED BY <1>8, <3>1 DEF Commit, Sound
  <2> QED BY <1>8, <2>1 DEF Commit, BuildsInOrder
<1>9. ASSUME NEW w \in Writers, InvalidateCache(w) PROVE BuildsInOrder'
  BY <1>9 DEF InvalidateCache, DropAll, BuildsInOrder, Sound, SoundAt
<1>10. CASE PostInvalidate
  BY <1>10 DEF PostInvalidate, DropAll, BuildsInOrder, Sound, SoundAt
<1>11. ASSUME NEW w \in Writers, ExpireCache(w) PROVE BuildsInOrder'
  <2>1. ASSUME NEW k \in Keys PROVE board'[k].hi = board[k].hi
    BY <1>11 DEF ExpireCache, TypeOK, Board
  <2> QED BY <1>11, <2>1 DEF ExpireCache, BuildsInOrder, Sound, SoundAt, TypeOK
<1>12. CASE Tick
  <2>1. ASSUME NEW b \in Actors, pc[b] \in {"reading", "read"}
        PROVE  /\ build'[b] = [build[b] EXCEPT !.age = Aged(@)]
               /\ build'[b].lo = build[b].lo
               /\ Sound(build[b])'
    <3>1. SoundAt([build[b] EXCEPT !.age = Aged(@)], db, [v \in Versions |-> Aged(commitAge[v])])
      BY <2>1, TickKeepsSound DEF BuildsInOrder, TypeOK
    <3>2. /\ build'[b] = [build[b] EXCEPT !.age = Aged(@)]
          /\ build'[b].lo = build[b].lo
      BY <1>12, <2>1 DEF Tick, TypeOK, Board
    <3> QED BY <1>12, <3>1, <3>2 DEF Tick, Sound
  <2>2. ASSUME NEW k \in Keys PROVE board'[k].hi = board[k].hi
    BY <1>12 DEF Tick, TypeOK, Board
  <2> QED BY <1>12, <2>1, <2>2 DEF Tick, BuildsInOrder, TypeOK
<1>13. CASE UNCHANGED vars
  BY <1>13 DEF vars, BuildsInOrder, Sound, SoundAt
<1> QED
  BY <1>1, <1>2, <1>3, <1>4, <1>5, <1>6, <1>7, <1>8, <1>9, <1>10, <1>11, <1>12, <1>13
     DEF Next

\* The invariant is inductive.
LEMMA Invariant == Spec => []IInv
<1>1. Init => IInv
  BY IInvInit
<1>2. IInv /\ [Next]_vars => IInv'
  BY TypeStep, LockStep, BoardsStep, BuildsStep DEF IInv
<1> QED BY <1>1, <1>2, PTL DEF Spec

-----------------------------------------------------------------------------

\* A key is rebuilt by at most one coroutine at a time.
THEOREM OneRebuildPerKey == Spec => []SingleFlight
<1>1. IInv => SingleFlight
  BY DEF IInv, HoldersHold, SingleFlight
<1> QED BY Invariant, <1>1, PTL

\* A board the cache calls fresh has seen every commit at least a TTL old.
THEOREM FreshBoardsAreRecent == Spec => []FreshIsRecent
<1>1. IInv => FreshIsRecent
  BY SoundFacts, CacheAssumption
     DEF IInv, FreshIsRecent, BoardsInOrder, Sound, SoundAt, IsFresh, TypeOK, Ages, Versions
<1> QED BY Invariant, <1>1, PTL

-----------------------------------------------------------------------------

\* An answer given out of the cache is the last one again, or a board read after it.
LEMMA AnswerFromCache ==
    ASSUME IInv, NEW k \in cached, Respond(k, board[k]), UNCHANGED db
    PROVE  [Served!Next]_(Served!vars)
<1> USE SoundFacts DEF IInv
<1>1. k \in Keys
  BY DEF TypeOK
<1>2. CASE answer[k] = [lo |-> board[k].lo, hi |-> board[k].hi]
  <2>1. answer' = answer
    BY <1>1, <1>2 DEF Respond, TypeOK
  <2> QED BY <2>1 DEF Served!vars
<1>3. CASE answer[k].hi <= board[k].lo
  <2> DEFINE lo == board[k].lo
             hi == board[k].hi
  <2>1. lo \in 0..db /\ hi \in 0..db /\ lo <= hi
    <3>1. lo <= hi /\ hi <= db
      BY <1>1 DEF BoardsInOrder, Sound, SoundAt
    <3>2. lo \in Nat /\ hi \in Nat /\ db \in Nat
      BY <1>1
    <3> QED BY <3>1, <3>2
  <2>2. answer' = [answer EXCEPT ![k] = [lo |-> lo, hi |-> hi]]
    BY DEF Respond
  <2> HIDE DEF lo, hi
  <2>3. answer[k].hi <= lo
    BY <1>3 DEF lo
  <2>4. Served!Serve(k)
    BY <2>1, <2>2, <2>3 DEF Served!Serve
  <2> QED BY <1>1, <2>4 DEF Served!Next
<1> QED BY <1>1, <1>2, <1>3 DEF BoardsInOrder

\* So is an answer a request built itself.
LEMMA AnswerFromBuild ==
    ASSUME IInv, NEW a \in Actors, pc[a] = "read", Respond(ask[a], build[a]), UNCHANGED db
    PROVE  Served!Next
<1> USE SoundFacts DEF IInv
<1> DEFINE lo == build[a].lo
           hi == build[a].hi
<1>1. ask[a] \in Keys
  BY DEF TypeOK
<1>2. lo \in 0..db /\ hi \in 0..db /\ lo <= hi /\ answer[ask[a]].hi <= lo
  BY DEF BuildsInOrder, Sound, SoundAt
<1>3. answer' = [answer EXCEPT ![ask[a]] = [lo |-> lo, hi |-> hi]]
  BY DEF Respond
<1> HIDE DEF lo, hi
<1>4. Served!Serve(ask[a])
  BY <1>2, <1>3 DEF Served!Serve
<1> QED BY <1>1, <1>4 DEF Served!Next

\* Every step of the cache is a commit, an answer that moves forward, or no step at all
\* to those who consume the board.
LEMMA RefinementStep == IInv /\ [Next]_vars => [Served!Next]_(Served!vars)
<1> SUFFICES ASSUME IInv, [Next]_vars PROVE [Served!Next]_(Served!vars)
  OBVIOUS
<1> USE DEF Served!vars
<1>1. ASSUME NEW r \in Requests, NEW k \in Keys, NEW f \in BOOLEAN, Call(r, k, f)
      PROVE  [Served!Next]_(Served!vars)
  BY <1>1, AnswerFromCache DEF Call, ServeCached, WaitForRebuild
<1>2. ASSUME NEW a \in Actors, EnterFresh(a) PROVE [Served!Next]_(Served!vars)
  BY <1>2, AnswerFromCache DEF EnterFresh, IsFresh
<1>3. ASSUME NEW a \in Actors, EnterBuild(a) \/ ReadFirst(a) \/ ReadLast(a) \/ Fail(a)
      PROVE  [Served!Next]_(Served!vars)
  BY <1>3 DEF EnterBuild, StartBuild, ReadFirst, ReadLast, Fail, RaiseWith
<1>4. ASSUME NEW a \in Actors, Publish(a) PROVE [Served!Next]_(Served!vars)
  BY <1>4, AnswerFromBuild DEF Publish, Store
<1>5. ASSUME NEW w \in Writers, NEW s \in {"none", "invalidate", "expire"}, Commit(w, s)
      PROVE  [Served!Next]_(Served!vars)
  BY <1>5 DEF Commit, Served!Next, Served!Commit
<1>6. ASSUME NEW w \in Writers, InvalidateCache(w) \/ ExpireCache(w)
      PROVE  [Served!Next]_(Served!vars)
  BY <1>6 DEF InvalidateCache, ExpireCache
<1>7. CASE PostInvalidate \/ Tick
  BY <1>7 DEF PostInvalidate, Tick
<1>8. CASE UNCHANGED vars
  BY <1>8 DEF vars
<1> QED BY <1>1, <1>2, <1>3, <1>4, <1>5, <1>6, <1>7, <1>8 DEF Next

\* The cache implements the service its consumers rely on: answers only move forward.
THEOREM CacheServesForward == Spec => ImplementsServedBoard
<1>1. Init => Served!Init
  BY DEF Init, Served!Init
<1> QED BY Invariant, RefinementStep, <1>1, PTL DEF Spec, ImplementsServedBoard, Served!Spec

-----------------------------------------------------------------------------
(***************************************************************************)
(* The live board: the inductive invariant, and that page, board and audit *)
(* agree but for what moved.  A step either leaves the tie, the next round *)
(* and the gate as they are, and then what is banked and paid stays, or it *)
(* tells whoever has read.                                                 *)
(***************************************************************************)

\* The board, the rebuild and the reader hold what they held, and remember what they missed.
HoldersKeep ==
    /\ cache'.there = cache.there /\ cache'.credits = cache.credits
    /\ cache.tags \subseteq cache'.tags
    /\ rebuild'.stage = rebuild.stage /\ rebuild'.own = rebuild.own
    /\ rebuild'.credits = rebuild.credits
    /\ rebuild.tags \subseteq rebuild'.tags
    /\ reader'.stage = reader.stage /\ reader'.kind = reader.kind
    /\ reader'.base = reader.base /\ reader'.other = reader.other
    /\ reader.tags \subseteq reader'.tags

Told(tag) ==
    /\ cache.there => tag \in cache'.tags
    /\ rebuild.stage = "read" => tag \in rebuild'.tags
    /\ reader.stage # "idle" => tag \in reader'.tags

\* The conjuncts of the invariant that are about what is held.
HeldInv == HeldIsBanked /\ HeldIsCurrent /\ ReaderIsCurrent /\ RequestWaits

\* A tag put on the board leaves what it holds.
LEMMA TagCache ==
    ASSUME LiveTypeOK, NEW tag \in Tags, NEW applies \in BOOLEAN, cache' = With(cache, tag, applies)
    PROVE  /\ cache' \in HeldBoard
           /\ cache'.there = cache.there /\ cache'.credits = cache.credits
           /\ cache.tags \subseteq cache'.tags
           /\ applies => tag \in cache'.tags
BY DEF With, LiveTypeOK, HeldBoard

\* The same of the rebuild under way.
LEMMA TagBuild ==
    ASSUME LiveTypeOK, NEW tag \in Tags, NEW applies \in BOOLEAN,
           rebuild' = With(rebuild, tag, applies)
    PROVE  /\ rebuild' \in Rebuilding
           /\ rebuild'.stage = rebuild.stage /\ rebuild'.own = rebuild.own
           /\ rebuild'.credits = rebuild.credits
           /\ rebuild.tags \subseteq rebuild'.tags
           /\ applies => tag \in rebuild'.tags
BY DEF With, LiveTypeOK, Rebuilding

\* And of the reader.
LEMMA TagReader ==
    ASSUME LiveTypeOK, NEW tag \in Tags, NEW applies \in BOOLEAN,
           reader' = With(reader, tag, applies)
    PROVE  /\ reader' \in Reader
           /\ reader'.stage = reader.stage /\ reader'.kind = reader.kind
           /\ reader'.base = reader.base /\ reader'.other = reader.other
           /\ reader.tags \subseteq reader'.tags
           /\ applies => tag \in reader'.tags
BY DEF With, LiveTypeOK, Reader

\* Tell reaches the board, the rebuild and the reader.
LEMMA TellFacts ==
    ASSUME LiveTypeOK, NEW tag \in Tags, Tell(tag)
    PROVE  /\ cache' \in HeldBoard /\ rebuild' \in Rebuilding /\ reader' \in Reader
           /\ HoldersKeep /\ Told(tag)
<1>1. cache.there \in BOOLEAN
  BY DEF LiveTypeOK, HeldBoard
<1> QED
  BY <1>1, TagCache, TagBuild, TagReader DEF Tell, HoldersKeep, Told

\* A commit that overtakes the reader alone.
LEMMA OvertakeFacts ==
    ASSUME LiveTypeOK, reader' = With(reader, "race", reader.stage # "idle"),
           UNCHANGED <<cache, rebuild>>
    PROVE  /\ cache' \in HeldBoard /\ rebuild' \in Rebuilding /\ reader' \in Reader
           /\ HoldersKeep
           /\ reader.stage # "idle" => reader'.tags # {}
<1>1. "race" \in Tags
  BY DEF Tags
<1> QED
  BY <1>1, TagReader DEF LiveTypeOK, HoldersKeep

\* A change of the inputs that takes nothing back, or is told; and that is signalled, told or
\* of no account.
LEMMA MovesKeep ==
    ASSUME HeldInv, HoldersKeep, pending => pending',
           reader.stage # "idle" => reader'.tags # {},
           Banked \subseteq Banked' \/ Told("undone"),
           Paid' = Paid \/ pending' \/ \E tag \in Tags : Told(tag)
    PROVE  HeldInv'
<1>1. HeldIsBanked'
  BY DEF HeldInv, HeldIsBanked, HoldersKeep, Told
<1>2. HeldIsCurrent'
  BY DEF HeldInv, HeldIsCurrent, HoldersKeep, Told
<1>3. ReaderIsCurrent' /\ RequestWaits'
  BY DEF HeldInv, ReaderIsCurrent, RequestWaits, HoldersKeep
<1> QED
  BY <1>1, <1>2, <1>3 DEF HeldInv

\* While the tie, the next round and the gate stay, so does all that is computed from them.
LEMMA QuietKeeps ==
    ASSUME UNCHANGED <<tie, next, scoring>>
    PROVE  Banked' = Banked /\ Paid' = Paid /\ Leading' = Leading
BY DEF Banked, StageReached, Paid, Leading

\* Only what is banked is paid.
LEMMA PaidIsBanked == Paid \subseteq Banked
BY DEF Paid

\* No credit that is held is projected as well.
LEMMA HeldNotProjected == HeldIsBanked => NeverTwice
BY DEF HeldIsBanked, NeverTwice, Deltas

\* What is paid or led for is a credit.
LEMMA CreditTypes == LiveTypeOK => Paid \subseteq Credits /\ Leading \subseteq Credits
BY DEF Paid, Banked, Leading, Credits
-----------------------------------------------------------------------------
\* No board, no rebuild, no reader.
LEMMA InitInv == LiveInit => LiveInv
<1> SUFFICES ASSUME LiveInit PROVE LiveInv
  OBVIOUS
<1>1. LiveTypeOK
  BY DEF LiveInit, LiveTypeOK, NoCache, NoRebuild, NoReader, HeldBoard, Rebuilding, Reader
<1>2. HeldInv
  BY DEF LiveInit, HeldInv, HeldIsBanked, HeldIsCurrent, ReaderIsCurrent, RequestWaits,
         NoCache, NoRebuild, NoReader
<1> QED
  BY <1>1, <1>2, HeldNotProjected DEF LiveInv, HeldInv

\* The steps that move the inputs.
LEMMA MovesInv ==
    ASSUME LiveInv,
           \/ \E lead \in Sides \cup {NoTeam} : Score(lead)
           \/ \E t \in Sides : Finish(t) \/ Seed(t)
           \/ UnFinish \/ Correct \/ WinNext \/ Switch
    PROVE  LiveTypeOK' /\ HeldInv'
<1> USE SidesAssumption
<1>0. LiveTypeOK /\ HeldInv
  BY DEF LiveInv, HeldInv
<1>1. ASSUME NEW lead \in Sides \cup {NoTeam}, Score(lead) PROVE LiveTypeOK' /\ HeldInv'
  <2>1. Banked' = Banked /\ Paid' = Paid
    BY <1>1 DEF Score, Banked, Paid, StageReached
  <2>2. tie' \in [status : {"scheduled", "live", "finished"}, leads : Sides \cup {NoTeam}]
    BY <1>1 DEF Score
  <2> QED
    BY <1>0, <1>1, <2>1, <2>2, OvertakeFacts, MovesKeep DEF Score, LiveTypeOK
<1>2. ASSUME NEW t \in Sides, Finish(t) PROVE LiveTypeOK' /\ HeldInv'
  <2>1. Banked \subseteq Banked'
    BY <1>2 DEF Finish, Banked, StageReached, Credits
  <2>2. tie' \in [status : {"scheduled", "live", "finished"}, leads : Sides \cup {NoTeam}]
    BY <1>2 DEF Finish
  <2> QED
    BY <1>0, <1>2, <2>1, <2>2, OvertakeFacts, MovesKeep DEF Finish, LiveTypeOK
<1>3. ASSUME NEW t \in Sides, Seed(t) PROVE LiveTypeOK' /\ HeldInv'
  <2>1. Banked \subseteq Banked'
    BY <1>0, <1>3 DEF Seed, Banked, StageReached, Credits, LiveTypeOK
  <2>2. next' \in [named : Sides \cup {NoTeam}, won : BOOLEAN]
    BY <1>0, <1>3 DEF Seed, LiveTypeOK
  <2>3. "seeded" \in Tags
    BY DEF Tags
  <2>4. /\ HoldersKeep /\ Told("seeded")
        /\ cache' \in HeldBoard /\ rebuild' \in Rebuilding /\ reader' \in Reader
    BY <1>0, <1>3, <2>3, TellFacts DEF Seed
  <2>5. reader.stage # "idle" => reader'.tags # {}
    BY <2>4 DEF Told
  <2> QED
    BY <1>0, <1>3, <2>1, <2>2, <2>3, <2>4, <2>5, MovesKeep DEF Seed, LiveTypeOK
<1>4. ASSUME UnFinish \/ Correct PROVE LiveTypeOK' /\ HeldInv'
  <2>1. tie' \in [status : {"scheduled", "live", "finished"}, leads : Sides \cup {NoTeam}]
    BY <1>0, <1>4 DEF UnFinish, Correct, LiveTypeOK
  <2>2. "undone" \in Tags
    BY DEF Tags
  <2>3. /\ HoldersKeep /\ Told("undone")
        /\ cache' \in HeldBoard /\ rebuild' \in Rebuilding /\ reader' \in Reader
    BY <1>0, <1>4, <2>2, TellFacts DEF UnFinish, Correct
  <2>4. reader.stage # "idle" => reader'.tags # {}
    BY <2>3 DEF Told
  <2>5. (pending => pending') /\ pending' \in BOOLEAN
    BY <1>0, <1>4 DEF UnFinish, Correct, LiveTypeOK
  <2>6. HeldInv'
    BY <1>0, <2>2, <2>3, <2>4, <2>5, MovesKeep
  <2> QED
    BY <1>0, <1>4, <2>1, <2>3, <2>5, <2>6 DEF UnFinish, Correct, LiveTypeOK
<1>5. ASSUME WinNext PROVE LiveTypeOK' /\ HeldInv'
  <2>1. Banked \subseteq Banked'
    BY <1>0, <1>5 DEF WinNext, Banked, StageReached, Credits, LiveTypeOK
  <2>2. next' \in [named : Sides \cup {NoTeam}, won : BOOLEAN]
    BY <1>0, <1>5 DEF WinNext, LiveTypeOK
  <2> QED
    BY <1>0, <1>5, <2>1, <2>2, OvertakeFacts, MovesKeep DEF WinNext, LiveTypeOK
<1>6. ASSUME Switch PROVE LiveTypeOK' /\ HeldInv'
  <2>1. Banked' = Banked
    BY <1>6 DEF Switch, Banked, StageReached
  <2>2. Paid' = Paid \/ pending'
    BY <1>6, <2>1 DEF Switch, Paid
  <2>3. (pending => pending') /\ pending' \in BOOLEAN
    BY <1>0, <1>6 DEF Switch, LiveTypeOK
  <2>4. scoring' \in {"off", "banked", "live"}
    BY <1>6 DEF Switch
  <2>5. /\ HoldersKeep /\ cache' \in HeldBoard /\ rebuild' \in Rebuilding /\ reader' \in Reader
        /\ reader.stage # "idle" => reader'.tags # {}
    BY <1>0, <1>6, OvertakeFacts DEF Switch
  <2>6. HeldInv'
    BY <1>0, <2>1, <2>2, <2>3, <2>5, MovesKeep
  <2> QED
    BY <1>0, <1>6, <2>3, <2>4, <2>5, <2>6 DEF Switch, LiveTypeOK
<1> QED
  BY <1>1, <1>2, <1>3, <1>4, <1>5, <1>6

\* Taking the board: from the cache, or by a rebuild of the request's own.
LEMMA AskInv ==
    ASSUME LiveInv, NEW kind \in {"page", "audit"}, NEW other \in SUBSET Credits,
           Ask(kind, other),
           reader.stage \in {"idle", "rescored"},
           kind = "audit" /\ reader.tags = {} => other = Paid,
           UNCHANGED <<tie, next, scoring, cache, pending>>
    PROVE  LiveTypeOK' /\ HeldInv'
<1>0. LiveTypeOK /\ HeldInv
  BY DEF LiveInv, HeldInv
<1>1. Banked' = Banked /\ Paid' = Paid /\ Leading' = Leading
  BY QuietKeeps
<1>2. CASE /\ cache.there
           /\ reader' = Held(cache, kind, other)
           /\ rebuild' = IF cache.stale /\ rebuild.stage = "none" THEN Start(FALSE) ELSE rebuild
  <2>1. reader' \in Reader
    BY <1>0, <1>2 DEF Held, Reader, LiveTypeOK, HeldBoard, Tags
  <2>2. rebuild' \in Rebuilding /\ (rebuild' = rebuild \/ rebuild'.stage = "started")
    BY <1>0, <1>2 DEF Start, NoRebuild, Rebuilding, LiveTypeOK
  <2>3. LiveTypeOK'
    BY <1>0, <2>1, <2>2 DEF LiveTypeOK
  <2>4. /\ reader'.stage = "taken" /\ reader'.kind = kind
        /\ reader'.base = cache.credits /\ reader'.other = other
        /\ reader'.tags = reader.tags \cup cache.tags \cup (IF pending THEN {"race"} ELSE {})
    BY <1>2 DEF Held
  <2>5. HeldIsBanked'
    BY <1>0, <1>1, <1>2, <2>2, <2>4 DEF HeldInv, HeldIsBanked
  <2>6. HeldIsCurrent'
    BY <1>0, <1>1, <2>2 DEF HeldInv, HeldIsCurrent
  <2>7. ReaderIsCurrent'
    BY <1>0, <1>1, <1>2, <2>4 DEF HeldInv, HeldIsCurrent, ReaderIsCurrent
  <2>8. RequestWaits'
    BY <1>0, <1>2 DEF HeldInv, RequestWaits, Start, NoRebuild
  <2> QED
    BY <2>3, <2>5, <2>6, <2>7, <2>8 DEF HeldInv
<1>3. CASE /\ ~cache.there /\ rebuild.stage = "none"
           /\ reader' = [reader EXCEPT !.stage = "waiting", !.kind = kind, !.other = other]
           /\ rebuild' = Start(TRUE)
  <2>1. reader' \in Reader /\ rebuild' \in Rebuilding /\ rebuild'.stage = "started"
    BY <1>0, <1>3 DEF Start, NoRebuild, Rebuilding, Reader, LiveTypeOK
  <2>2. LiveTypeOK'
    BY <1>0, <2>1 DEF LiveTypeOK
  <2>3. /\ reader'.stage = "waiting" /\ reader'.kind = kind
        /\ reader'.other = other /\ reader'.tags = reader.tags
    BY <1>0, <1>3 DEF LiveTypeOK, Reader
  <2>4. HeldInv'
    BY <1>0, <1>1, <1>3, <2>1, <2>3
       DEF HeldInv, HeldIsBanked, HeldIsCurrent, ReaderIsCurrent, RequestWaits
  <2> QED
    BY <2>2, <2>4
<1> QED
  BY <1>2, <1>3 DEF Ask

\* The steps of the cache.
LEMMA CacheInv ==
    ASSUME LiveInv, Invalidate \/ ReadInputs \/ StoreBoard \/ Expire \/ Crash
    PROVE  LiveTypeOK' /\ HeldInv'
<1>0. LiveTypeOK /\ HeldInv
  BY DEF LiveInv, HeldInv
<1>1. Banked' = Banked /\ Paid' = Paid /\ Leading' = Leading
  BY QuietKeeps DEF Invalidate, ReadInputs, StoreBoard, Expire, Crash
<1>2. NoCache \in HeldBoard /\ NoRebuild \in Rebuilding /\ NoReader \in Reader
  BY DEF NoCache, NoRebuild, NoReader, HeldBoard, Rebuilding, Reader
<1>3. ASSUME Invalidate PROVE LiveTypeOK' /\ HeldInv'
  <2>1. "race" \in Tags
    BY DEF Tags
  <2>2. /\ rebuild' \in Rebuilding
        /\ rebuild'.stage = rebuild.stage /\ rebuild'.own = rebuild.own
        /\ rebuild'.credits = rebuild.credits
        /\ rebuild.tags \subseteq rebuild'.tags
        /\ rebuild.stage = "read" => "race" \in rebuild'.tags
    BY <1>0, <1>3, <2>1, TagBuild DEF Invalidate
  <2>3. LiveTypeOK'
    BY <1>0, <1>2, <1>3, <2>2 DEF Invalidate, LiveTypeOK
  <2>4. ~cache'.there /\ reader' = reader
    BY <1>3 DEF Invalidate, NoCache
  <2>5. HeldInv'
    BY <1>0, <1>1, <2>2, <2>4, <1>3
       DEF HeldInv, HeldIsBanked, HeldIsCurrent, ReaderIsCurrent, RequestWaits, Invalidate
  <2> QED
    BY <2>3, <2>5
<1>4. ASSUME ReadInputs PROVE LiveTypeOK' /\ HeldInv'
  <2>1. /\ rebuild' \in Rebuilding /\ rebuild'.credits = Paid
        /\ cache' = cache /\ reader' = reader /\ pending' = pending
    BY <1>0, <1>4, CreditTypes DEF ReadInputs, LiveTypeOK, Rebuilding
  <2>2. LiveTypeOK'
    BY <1>0, <1>4, <2>1 DEF ReadInputs, LiveTypeOK
  <2>3. HeldInv'
    BY <1>0, <1>1, <1>4, <2>1, PaidIsBanked
       DEF HeldInv, HeldIsBanked, HeldIsCurrent, ReaderIsCurrent, RequestWaits, ReadInputs
  <2> QED
    BY <2>2, <2>3
<1>5. ASSUME StoreBoard PROVE LiveTypeOK' /\ HeldInv'
  <2>1. /\ cache' \in HeldBoard /\ cache'.credits = rebuild.credits /\ cache'.tags = rebuild.tags
        /\ pending' = pending /\ rebuild' = NoRebuild
    BY <1>0, <1>5 DEF StoreBoard, LiveTypeOK, HeldBoard, Rebuilding
  <2>2. rebuild'.stage = "none" /\ ~rebuild'.own /\ rebuild.stage = "read"
    BY <1>5 DEF StoreBoard, NoRebuild
  <2>3. CASE rebuild.own
    <3>1. reader' = Held(rebuild, reader.kind, reader.other)
      BY <1>5, <2>3 DEF StoreBoard
    <3>2. reader' \in Reader
      BY <1>0, <3>1 DEF Held, Reader, Rebuilding, LiveTypeOK, Tags
    <3>3. /\ reader'.stage = "taken" /\ reader'.kind = reader.kind
          /\ reader'.base = rebuild.credits /\ reader'.other = reader.other
          /\ reader'.tags = reader.tags \cup rebuild.tags \cup (IF pending THEN {"race"} ELSE {})
      BY <3>1 DEF Held
    <3>4. LiveTypeOK'
      BY <1>0, <1>2, <1>5, <2>1, <3>2 DEF StoreBoard, LiveTypeOK
    <3>5. HeldIsBanked' /\ HeldIsCurrent'
      BY <1>0, <1>1, <2>1, <2>2, <3>3 DEF HeldInv, HeldIsBanked, HeldIsCurrent
    <3>6. ReaderIsCurrent' /\ RequestWaits'
      BY <1>0, <1>1, <2>2, <2>3, <3>3 DEF HeldInv, HeldIsCurrent, ReaderIsCurrent, RequestWaits
    <3> QED
      BY <3>4, <3>5, <3>6 DEF HeldInv
  <2>4. CASE ~rebuild.own
    <3>1. reader' = reader
      BY <1>5, <2>4 DEF StoreBoard
    <3>2. LiveTypeOK'
      BY <1>0, <1>2, <1>5, <2>1, <3>1 DEF StoreBoard, LiveTypeOK
    <3>3. HeldInv'
      BY <1>0, <1>1, <1>5, <2>1, <2>2, <3>1
         DEF HeldInv, HeldIsBanked, HeldIsCurrent, ReaderIsCurrent, RequestWaits, StoreBoard
    <3> QED
      BY <3>2, <3>3
  <2> QED
    BY <2>3, <2>4
<1>6. ASSUME Expire PROVE LiveTypeOK' /\ HeldInv'
  <2>1. /\ cache' \in HeldBoard /\ cache'.there = cache.there
        /\ cache'.credits = cache.credits /\ cache'.tags = cache.tags
    BY <1>0, <1>6 DEF Expire, LiveTypeOK, HeldBoard
  <2> QED
    BY <1>0, <1>1, <1>6, <2>1
       DEF Expire, LiveTypeOK, HeldInv, HeldIsBanked, HeldIsCurrent, ReaderIsCurrent, RequestWaits
<1>7. ASSUME Crash PROVE LiveTypeOK' /\ HeldInv'
  BY <1>0, <1>2, <1>7 DEF Crash, LiveTypeOK, HeldInv, HeldIsBanked, HeldIsCurrent, ReaderIsCurrent,
                               RequestWaits,
     NoCache, NoRebuild, NoReader
<1> QED
  BY <1>3, <1>4, <1>5, <1>6, <1>7

\* The steps of a page and an audit.
LEMMA ReaderInv ==
    ASSUME LiveInv,
           \/ GetBoard \/ LookForLive \/ ServePage
           \/ Rescore \/ AuditBoard \/ Report
    PROVE  LiveTypeOK' /\ HeldInv'
<1>0. LiveTypeOK /\ HeldInv
  BY DEF LiveInv, HeldInv
<1>1. NoReader \in Reader /\ NoReader.stage = "idle"
  BY DEF NoReader, Reader
<1>2. ASSUME GetBoard PROVE LiveTypeOK' /\ HeldInv'
  BY <1>2, AskInv DEF GetBoard
<1>3. ASSUME LookForLive PROVE LiveTypeOK' /\ HeldInv'
  <2>1. Banked' = Banked /\ Paid' = Paid /\ Leading' = Leading
    BY <1>3, QuietKeeps DEF LookForLive
  <2>2. /\ reader' \in Reader
        /\ reader'.stage = "looked" /\ reader'.kind = reader.kind
        /\ reader'.base = reader.base /\ reader'.tags = reader.tags
        /\ reader'.other = (IF scoring = "live" THEN Leading ELSE {})
    BY <1>0, <1>3, CreditTypes DEF LookForLive, LiveTypeOK, Reader
  <2>3. LiveTypeOK'
    BY <1>0, <1>3, <2>2 DEF LookForLive, LiveTypeOK
  <2>4. HeldInv'
    BY <1>0, <1>3, <2>1, <2>2
       DEF HeldInv, HeldIsBanked, HeldIsCurrent, ReaderIsCurrent, RequestWaits, LookForLive
  <2> QED
    BY <2>3, <2>4
<1>4. ASSUME ServePage \/ Report PROVE LiveTypeOK' /\ HeldInv'
  <2>1. Banked' = Banked /\ Paid' = Paid
    BY <1>4, QuietKeeps DEF ServePage, Report
  <2> QED
    BY <1>0, <1>1, <1>4, <2>1 DEF ServePage, Report, LiveTypeOK, HeldInv,
       HeldIsBanked, HeldIsCurrent, ReaderIsCurrent, RequestWaits
<1>5. ASSUME Rescore PROVE LiveTypeOK' /\ HeldInv'
  <2>1. Banked' = Banked /\ Paid' = Paid
    BY <1>5, QuietKeeps DEF Rescore
  <2>2. /\ reader' \in Reader /\ reader'.stage = "rescored"
        /\ reader'.kind = "audit" /\ reader'.other = Paid
    BY <1>5, CreditTypes, <1>0 DEF Rescore, NoReader, Reader
  <2> QED
    BY <1>0, <1>5, <2>1, <2>2 DEF Rescore, LiveTypeOK, HeldInv, HeldIsBanked, HeldIsCurrent,
       ReaderIsCurrent, RequestWaits
<1>6. ASSUME AuditBoard PROVE LiveTypeOK' /\ HeldInv'
  <2>1. reader.stage = "rescored" /\ Ask("audit", reader.other)
    BY <1>6 DEF AuditBoard
  <2>2. reader.other \in SUBSET Credits /\ (reader.tags = {} => reader.other = Paid)
    BY <1>0, <2>1 DEF LiveTypeOK, Reader, HeldInv, ReaderIsCurrent
  <2> QED
    BY <1>6, <2>1, <2>2, AskInv DEF AuditBoard
<1> QED
  BY <1>2, <1>3, <1>4, <1>5, <1>6

\* Every step keeps the invariant of the live board.
LEMMA NextInv == LiveInv /\ [LiveNext]_liveVars => LiveInv'
<1> SUFFICES ASSUME LiveInv, [LiveNext]_liveVars PROVE LiveInv'
  OBVIOUS
<1>1. ASSUME UNCHANGED liveVars PROVE LiveTypeOK' /\ HeldInv'
  <2>1. Banked' = Banked /\ Paid' = Paid /\ Leading' = Leading
    BY <1>1, QuietKeeps DEF liveVars
  <2> QED
    BY <1>1, <2>1 DEF LiveInv, liveVars, LiveTypeOK, HeldInv, HeldIsBanked, HeldIsCurrent,
       ReaderIsCurrent, RequestWaits
<1>2. LiveTypeOK' /\ HeldInv'
  BY <1>1, MovesInv, CacheInv, ReaderInv DEF LiveNext
<1>3. NeverTwice'
  BY <1>2 DEF HeldInv, HeldIsBanked, NeverTwice, Deltas
<1> QED
  BY <1>2, <1>3 DEF LiveInv, HeldInv

\* What a page, a rebuild and the board hold was banked, is current until something moves, and
\* is never projected as well (live_projection.py 3-6, 54-68).
THEOREM HeldCreditsAreBanked == LiveSpec => []LiveInv
BY InitInv, NextInv, PTL DEF LiveSpec

\* A page on which nothing moved shows the leader's credit once, in the board or projected
\* (live_projection.py 8-15), and an audit on which nothing moved finds the board it computed
\* (final_audit.py 75-83).
THEOREM CreditsHandOver == LiveSpec => []BoardsAgree
<1>1. LiveInv => HandOver
  <2> SUFFICES ASSUME LiveInv, reader.stage = "looked", reader.tags = {}, scoring = "live",
                      NEW t \in Sides, tie.status # "scheduled", tie.leads = t
               PROVE  <<t, 1>> \in reader.base \cup Deltas
    BY DEF HandOver, Excused, Due
  <2>1. reader.base = Paid /\ reader.other = Leading
    BY DEF LiveInv, ReaderIsCurrent
  <2>2. Paid = Banked
    BY DEF Paid
  <2>3. CASE tie.status = "finished"
    <3>1. <<t, 1>> \in Banked
      BY <2>3 DEF Banked, StageReached, Credits
    <3> QED
      BY <2>1, <2>2, <3>1
  <2>4. CASE tie.status = "live"
    <3>1. <<t, 1>> \in Leading
      BY <2>4 DEF Leading
    <3> QED
      BY <2>1, <2>2, <3>1 DEF Deltas
  <2> QED
    BY <2>3, <2>4 DEF LiveInv, LiveTypeOK
<1>2. LiveInv => AlarmIsExplained
  BY DEF LiveInv, ReaderIsCurrent, AlarmIsExplained, Excused
<1> QED
  BY <1>1, <1>2, HeldCreditsAreBanked, PTL DEF BoardsAgree

-----------------------------------------------------------------------------
(***************************************************************************)
(* The daily rows.  Rows of one date that were ranked beside each other    *)
(* are rows of one board: a tick gives a row to everyone on its board who  *)
(* has none, so whoever an older row was ranked beside has one already.    *)
(***************************************************************************)

\* A row of entry e of a board.
IsRow(r, b, e) == b \in Rankings /\ e \in DOMAIN b /\ r = RowOf(b, e)

\* Whoever has a row has it from a board, and so do two entries ranked beside each other
\* from one board.
FromOneBoard ==
    \A d \in Dates : \A x, y \in Players :
        /\ Has(d, x) /\ Has(d, y) /\ x \in daily[d][y].beside /\ y \in daily[d][x].beside
        => \E b \in Rankings : IsRow(daily[d][x], b, x) /\ IsRow(daily[d][y], b, y)

BesideItself ==
    \A d \in Dates : \A e \in Players : Has(d, e) => e \in daily[d][e].beside

\* The inductive invariant of the daily rows.
DailyInv == SnapshotTypeOK /\ DayIsWhole /\ BesideItself /\ FromOneBoard

\* A row is a row, and no row is none.
LEMMA RowType ==
    ASSUME NEW b \in Rankings, NEW e \in DOMAIN b
    PROVE  /\ DOMAIN b \subseteq Players
           /\ RowOf(b, e) \in [position : Nat, points : Nat, beside : SUBSET Players]
           /\ RowOf(b, e).beside = DOMAIN b
           /\ RowOf(b, e) # NoRow
<1>1. PICK field \in SUBSET Players : b \in [field -> Results]
  BY DEF Rankings
<1>2. DOMAIN b = field /\ b[e] \in Nat \X Nat
  BY <1>1, FieldAssumption
<1>3. b[e][1] \in Nat
  BY <1>2
<1>4. {x \in DOMAIN b : Beats(b[x], b[e])} \subseteq Players
  BY <1>2
<1>5. IsFiniteSet({x \in DOMAIN b : Beats(b[x], b[e])})
  BY <1>4, FieldAssumption, FS_Subset
<1>6. PlaceOn(b, e) \in Nat
  BY <1>5, FS_CardinalityType DEF PlaceOn
<1> QED
  BY <1>2, <1>3, <1>6 DEF RowOf, NoRow

\* On one board, more points are a better place.
LEMMA PointsPlace ==
    ASSUME NEW b \in Rankings, NEW x \in DOMAIN b, NEW y \in DOMAIN b, b[x][1] > b[y][1]
    PROVE  PlaceOn(b, x) < PlaceOn(b, y)
<1> DEFINE ahead(e) == {z \in DOMAIN b : Beats(b[z], b[e])}
<1>1. PICK field \in SUBSET Players : b \in [field -> Results]
  BY DEF Rankings
<1>2. DOMAIN b = field /\ \A z \in field : b[z] \in Nat \X Nat
  BY <1>1, FieldAssumption
<1>3. \A z \in DOMAIN b : b[z][1] \in Nat /\ b[z][2] \in Nat
  BY <1>2
<1>4. IsFiniteSet(field)
  BY FieldAssumption, FS_Subset
<1>5. IsFiniteSet(ahead(x)) /\ IsFiniteSet(ahead(y))
  BY <1>2, <1>4, FS_Subset
<1>6. ahead(x) \subseteq ahead(y)
  BY <1>3 DEF Beats
<1>7. x \in ahead(y) /\ x \notin ahead(x)
  BY <1>3 DEF Beats
<1>8. Cardinality(ahead(x)) \in Nat /\ Cardinality(ahead(y)) \in Nat
  BY <1>5, FS_CardinalityType
<1>9. Cardinality(ahead(x)) < Cardinality(ahead(y))
  <2> HIDE DEF ahead
  <2>1. Cardinality(ahead(x)) <= Cardinality(ahead(y))
    BY <1>5, <1>6, FS_Subset
  <2>2. Cardinality(ahead(x)) # Cardinality(ahead(y))
    BY <1>5, <1>6, <1>7, FS_Subset
  <2> QED
    BY <1>8, <2>1, <2>2
<1> QED
  BY <1>8, <1>9 DEF PlaceOn

\* No rows, on the first day.
LEMMA DailyInit == SnapshotInit => DailyInv
<1> SUFFICES ASSUME SnapshotInit PROVE DailyInv
  OBVIOUS
<1>1. \A d \in Dates : \A e \in Players : daily[d][e] = NoRow
  BY DEF SnapshotInit
<1>2. SnapshotTypeOK
  BY FieldAssumption DEF SnapshotInit, SnapshotTypeOK, NoTick, NoRow, Dates
<1> QED
  BY <1>1, <1>2 DEF DailyInv, DayIsWhole, BesideItself, FromOneBoard, Has

\* What an insert leaves: the rows that were there, and one for each entry of the board that
\* had none.
LEMMA InsertedRows ==
    ASSUME DailyInv, NEW d \in Dates, NEW b \in Rankings, daily' \in Inserted(d, b)
    PROVE  \/ daily' = daily
           \/ /\ daily' \in [Dates -> [Players -> [position : Nat, points : Nat,
                                                    beside : SUBSET Players]]]
              /\ \A c \in Dates : c # d => daily'[c] = daily[c]
              /\ \A e \in Players : Has(d, e) \/ e \notin DOMAIN b => daily'[d][e] = daily[d][e]
              /\ \A e \in DOMAIN b : ~Has(d, e) => daily'[d][e] = RowOf(b, e)
<1> SUFFICES ASSUME daily' = [daily EXCEPT ![d] = [e \in Players |->
                        IF e \in DOMAIN b /\ daily[d][e] = NoRow THEN RowOf(b, e)
                                                                 ELSE daily[d][e]]]
             PROVE  /\ daily' \in [Dates -> [Players -> [position : Nat, points : Nat,
                                                          beside : SUBSET Players]]]
                    /\ \A c \in Dates : c # d => daily'[c] = daily[c]
                    /\ \A e \in Players :
                          Has(d, e) \/ e \notin DOMAIN b => daily'[d][e] = daily[d][e]
                    /\ \A e \in DOMAIN b : ~Has(d, e) => daily'[d][e] = RowOf(b, e)
  BY DEF Inserted
<1> DEFINE rows == [position : Nat, points : Nat, beside : SUBSET Players]
<1>1. daily \in [Dates -> [Players -> rows]]
  BY DEF DailyInv, SnapshotTypeOK
<1>2. \A e \in DOMAIN b : e \in Players /\ RowOf(b, e) \in rows
  BY RowType
<1> HIDE DEF rows
<1>3. [e \in Players |-> IF e \in DOMAIN b /\ daily[d][e] = NoRow THEN RowOf(b, e)
                                                                   ELSE daily[d][e]]
         \in [Players -> rows]
  BY <1>1, <1>2
<1>4. daily' \in [Dates -> [Players -> rows]]
  BY <1>1, <1>3
<1>5. daily'[d] = [e \in Players |-> IF e \in DOMAIN b /\ daily[d][e] = NoRow
                                      THEN RowOf(b, e) ELSE daily[d][e]]
  BY <1>1
<1>6. \A c \in Dates : c # d => daily'[c] = daily[c]
  BY <1>1
<1> QED
  BY <1>2, <1>4, <1>5, <1>6 DEF Has, rows

\* An insert keeps the invariant of the rows.
LEMMA InsertKeeps ==
    ASSUME DailyInv, NEW d \in Dates, NEW b \in Rankings, daily' \in Inserted(d, b)
    PROVE  /\ daily' \in [Dates -> [Players -> [position : Nat, points : Nat,
                                                 beside : SUBSET Players]]]
           /\ RowsStand /\ DayIsWhole' /\ BesideItself' /\ FromOneBoard'
<1>1. CASE daily' = daily
  BY <1>1 DEF DailyInv, SnapshotTypeOK, RowsStand, DayIsWhole, BesideItself, FromOneBoard, Has
<1>2. CASE daily' # daily
  <2>1. /\ daily' \in [Dates -> [Players -> [position : Nat, points : Nat,
                                              beside : SUBSET Players]]]
        /\ \A c \in Dates : c # d => daily'[c] = daily[c]
        /\ \A e \in Players : Has(d, e) \/ e \notin DOMAIN b => daily'[d][e] = daily[d][e]
        /\ \A e \in DOMAIN b : ~Has(d, e) => daily'[d][e] = RowOf(b, e)
    BY <1>2, InsertedRows
  <2>2. RowsStand
    BY <2>1 DEF RowsStand
  <2>3. \A c \in Dates : \A e \in Players :
           Has(c, e)' => Has(c, e) \/ (c = d /\ e \in DOMAIN b /\ daily'[d][e] = RowOf(b, e))
    BY <2>1 DEF Has
  <2>4. \A c \in Dates : \A e \in Players : Has(c, e) => Has(c, e)'
    BY <2>2 DEF RowsStand, Has
  <2>5. \A e \in DOMAIN b :
           /\ e \in Players /\ RowOf(b, e).beside = DOMAIN b /\ Has(d, e)'
           /\ IsRow(RowOf(b, e), b, e)
    BY <2>1, <2>4, RowType DEF Has, IsRow
  <2>6. DayIsWhole'
    <3> SUFFICES ASSUME NEW c \in Dates, NEW e \in Players, Has(c, e)',
                        NEW x \in daily'[c][e].beside
                 PROVE  Has(c, x)'
      BY DEF DayIsWhole
    <3>1. CASE Has(c, e)
      <4>1. x \in daily[c][e].beside /\ daily[c][e].beside \subseteq Players
        BY <2>2, <3>1 DEF RowsStand, DailyInv, SnapshotTypeOK
      <4>2. Has(c, x)
        BY <3>1, <4>1 DEF DailyInv, DayIsWhole
      <4> QED
        BY <2>4, <4>1, <4>2
    <3>2. CASE ~Has(c, e)
      BY <2>3, <2>5, <3>2
    <3> QED
      BY <3>1, <3>2
  <2>7. BesideItself'
    <3> SUFFICES ASSUME NEW c \in Dates, NEW e \in Players, Has(c, e)'
                 PROVE  e \in daily'[c][e].beside
      BY DEF BesideItself
    <3>1. CASE Has(c, e)
      BY <2>2, <3>1 DEF RowsStand, DailyInv, BesideItself
    <3>2. CASE ~Has(c, e)
      BY <2>3, <2>5, <3>2
    <3> QED
      BY <3>1, <3>2
  <2>8. FromOneBoard'
    <3> SUFFICES ASSUME NEW c \in Dates, NEW x \in Players, NEW y \in Players,
                        Has(c, x)', Has(c, y)',
                        x \in daily'[c][y].beside, y \in daily'[c][x].beside
                 PROVE  \E a \in Rankings : /\ IsRow(daily'[c][x], a, x)
                                            /\ IsRow(daily'[c][y], a, y)
      BY DEF FromOneBoard
    <3>1. CASE Has(c, x) /\ Has(c, y)
      <4>1. daily'[c][x] = daily[c][x] /\ daily'[c][y] = daily[c][y]
        BY <2>2, <3>1 DEF RowsStand
      <4> QED
        BY <3>1, <4>1 DEF DailyInv, FromOneBoard
    <3>2. CASE ~Has(c, x) /\ ~Has(c, y)
      BY <2>3, <2>5, <3>2
    <3>3. ASSUME Has(c, x), ~Has(c, y) PROVE FALSE
      <4>1. y \in daily[c][x].beside
        BY <2>2, <3>3 DEF RowsStand
      <4> QED
        BY <3>3, <4>1 DEF DailyInv, DayIsWhole
    <3>4. ASSUME ~Has(c, x), Has(c, y) PROVE FALSE
      <4>1. x \in daily[c][y].beside
        BY <2>2, <3>4 DEF RowsStand
      <4> QED
        BY <3>4, <4>1 DEF DailyInv, DayIsWhole
    <3> QED
      BY <3>1, <3>2, <3>3, <3>4
  <2> QED
    BY <2>1, <2>2, <2>6, <2>7, <2>8
<1> QED
  BY <1>1, <1>2

\* Every step keeps the invariant, and every row.
LEMMA DailyNext ==
    DailyInv /\ [SnapshotNext]_snapshotVars => DailyInv' /\ (RowsStand \/ UNCHANGED daily)
<1> SUFFICES ASSUME DailyInv, [SnapshotNext]_snapshotVars
             PROVE  DailyInv' /\ (RowsStand \/ UNCHANGED daily)
  OBVIOUS
<1>1. CASE InsertRows
  <2>1. tick.date \in Dates /\ tick.board \in Rankings
    BY <1>1 DEF InsertRows, DailyInv, SnapshotTypeOK
  <2>2. /\ daily' \in [Dates -> [Players -> [position : Nat, points : Nat,
                                              beside : SUBSET Players]]]
        /\ RowsStand /\ DayIsWhole' /\ BesideItself' /\ FromOneBoard'
    BY <1>1, <2>1, InsertKeeps DEF InsertRows
  <2>3. SnapshotTypeOK'
    BY <1>1, <2>2 DEF InsertRows, DailyInv, SnapshotTypeOK, NoTick
  <2> QED
    BY <2>2, <2>3 DEF DailyInv
<1>2. CASE Show \/ TakeBoard \/ DateRows \/ LoseTick \/ Midnight \/ UNCHANGED snapshotVars
  <2>1. UNCHANGED daily
    BY <1>2 DEF Show, TakeBoard, DateRows, LoseTick, Midnight, snapshotVars
  <2>2. DayIsWhole' /\ BesideItself' /\ FromOneBoard'
    BY <2>1 DEF DailyInv, DayIsWhole, BesideItself, FromOneBoard, Has
  <2>3. showing' \in Rankings
    BY <1>2 DEF DailyInv, SnapshotTypeOK, Show, TakeBoard, DateRows, LoseTick, Midnight,
                snapshotVars
  <2>4. today' \in Dates
    BY <1>2, FieldAssumption DEF DailyInv, SnapshotTypeOK, Show, TakeBoard, DateRows, LoseTick,
                Midnight, snapshotVars, Dates
  <2>5. /\ tick'.stage \in {"idle", "taken", "dated"}
        /\ tick'.stage # "idle" => tick'.board \in Rankings
        /\ tick'.stage = "dated" => tick'.date \in Dates
    <3>1. CASE LoseTick
      BY <3>1 DEF LoseTick, NoTick
    <3>2. CASE TakeBoard
      BY <3>2 DEF TakeBoard, DailyInv, SnapshotTypeOK
    <3>3. CASE DateRows
      BY <3>3 DEF DateRows, DailyInv, SnapshotTypeOK
    <3>4. CASE UNCHANGED tick
      BY <3>4 DEF DailyInv, SnapshotTypeOK
    <3> QED
      BY <1>2, <3>1, <3>2, <3>3, <3>4 DEF Show, Midnight, snapshotVars
  <2>6. SnapshotTypeOK'
    BY <2>1, <2>3, <2>4, <2>5 DEF DailyInv, SnapshotTypeOK
  <2> QED
    BY <2>1, <2>2, <2>6 DEF DailyInv
<1> QED
  BY <1>1, <1>2 DEF SnapshotNext

\* Rows that come from one board agree with each other.
LEMMA OneRanking == DailyInv => DayIsOneRanking
<1> SUFFICES ASSUME DailyInv, NEW d \in Dates, NEW x \in Players, NEW y \in Players,
                    Has(d, x), Has(d, y),
                    x \in daily[d][y].beside, y \in daily[d][x].beside,
                    daily[d][x].points > daily[d][y].points
             PROVE  daily[d][x].position < daily[d][y].position
  BY DEF DayIsOneRanking
<1>1. PICK b \in Rankings : IsRow(daily[d][x], b, x) /\ IsRow(daily[d][y], b, y)
  BY DEF DailyInv, FromOneBoard
<1>2. /\ x \in DOMAIN b /\ y \in DOMAIN b
      /\ daily[d][x].points = b[x][1] /\ daily[d][y].points = b[y][1]
      /\ daily[d][x].position = PlaceOn(b, x) /\ daily[d][y].position = PlaceOn(b, y)
  BY <1>1 DEF IsRow, RowOf
<1> QED
  BY <1>2, PointsPlace

\* The rows of a date are kept whole and never written again, and two entries ranked beside
\* each other are there from one board, in its order (snapshots.py 5-9, 40-76).
THEOREM DaysAreOneRanking == SnapshotSpec => SnapshotsStand
<1>1. DailyInv /\ [SnapshotNext]_snapshotVars => DailyInv'
  BY DailyNext
<1>2. DailyInv /\ [SnapshotNext]_snapshotVars => [RowsStand]_snapshotVars
  <2> SUFFICES ASSUME DailyInv, [SnapshotNext]_snapshotVars, ~UNCHANGED snapshotVars
               PROVE  RowsStand
    OBVIOUS
  <2>1. UNCHANGED daily => RowsStand
    BY DEF RowsStand
  <2> QED
    BY <2>1, DailyNext
<1>3. DailyInv => DayIsWhole /\ DayIsOneRanking
  BY OneRanking DEF DailyInv
<1> QED
  BY <1>1, <1>2, <1>3, DailyInit, PTL DEF SnapshotSpec, SnapshotsStand
-----------------------------------------------------------------------------
(***************************************************************************)
(* The rows of the board (Knockout).  A commit is noted for the rebuild    *)
(* under way, for the board that is up and for the prize announced from    *)
(* one, so each of them is what the tables say but for what is noted: the  *)
(* invariant says this of every column, and of the credits, which only a   *)
(* correction lowers.                                                      *)
(***************************************************************************)

\* The marks a group-stage total, bracket points and answers can change for.
GroupMarks == {"group", "group_stage", "eligible"}
BracketMarks == {"correction", "gate"}
Categories == {Category[q] : q \in Questions}

\* What the tables say now: the group-stage total of an entry, the best credit of each team,
\* and whether an entry sent the champion anywhere.
GroupNow(e) == MatchCell(e) + GroupBonus(e, answers)
ReachedNow == [t \in Teams |-> Reached(t, Matches)]
ChampionPicked(e) == \E r \in 1..(Rounds + 1) : \E t \in Picks[e][r] \cap Teams : Champion(t)

\* A fixture holds its slots or its teams.
NamesAreDrawn ==
    /\ names = [m \in Matches |-> names[m]]
    /\ \A m \in Matches : names[m] \in {Slot[m], TrueLineup(m)}

\* What the rebuild under way has read.
ReadIsSound ==
    reading # NoRead =>
        /\ reading.eligible \subseteq Entries
        /\ reading.credit \in [Teams -> 0..(Rounds + 1)] /\ reading.gate \in BOOLEAN
        /\ \A s \in GroupScores : reading.counts[Outcome(s)] = Counts(reading.eligible, s)
        /\ dirty \cap Categories = {} => reading.answers = answers
        /\ dirty \cap GroupMarks = {} =>
              /\ reading.eligible = eligible
              /\ \A e \in Entries : GroupBonus(e, reading.answers) = GroupBonus(e, answers)
        /\ dirty \cap BracketMarks = {} =>
              /\ reading.gate = gate
              /\ \A t \in Teams : reading.credit[t] <= ReachedNow[t]
        /\ dirty = {} => \E late \in RowOrders : reading.credit = Advancement(late)

\* What the board shows.
BoardHolds ==
    posted # NoBoard =>
        /\ \A e \in DOMAIN posted : e \in Entries /\ posted[e].bracket \in Nat
        /\ stale \cap Categories = {} =>
              \A e \in DOMAIN posted :
                  posted[e].bonusGroup + posted[e].bonusKnockout = posted[e].bonus
        /\ stale \cap GroupMarks = {} =>
              /\ DOMAIN posted = eligible
              /\ \A e \in eligible : GroupTotal(posted[e]) = GroupNow(e)
        /\ stale \cap BracketMarks = {} =>
              \A e \in DOMAIN posted : posted[e].bracket <= BracketPoints(e, ReachedNow, gate)
        /\ stale = {} =>
              \E late \in RowOrders : \A e \in DOMAIN posted :
                  /\ posted[e].match = MatchLine(e, group, Counts(eligible, group))
                  /\ posted[e].bracket = BracketPoints(e, Advancement(late), gate)
                  /\ posted[e].bonus = Bonus(e, answers)

\* The rebuild under way takes nothing back either.
ReadKeepsPoints ==
    reading # NoRead /\ posted # NoBoard /\ stale \cap BracketMarks = {} =>
        \A e \in DOMAIN posted :
            \/ ChampionPicked(e)
            \/ posted[e].bracket <= BracketPoints(e, reading.credit, reading.gate)

\* The winner announced for the group stage is ahead in the tables.
WinnerLeads ==
    announced # Nobody /\ moved \cap GroupMarks = {} =>
        /\ announced \in eligible
        /\ \A e \in eligible : GroupNow(e) <= GroupNow(announced)

\* What has been noted for the newer is noted for the older.
MarksNest ==
    /\ reading # NoRead /\ posted # NoBoard => dirty \subseteq stale
    /\ announced # Nobody /\ posted # NoBoard => stale \subseteq moved
    /\ announced # Nobody /\ reading # NoRead => dirty \subseteq moved

KnockoutInv ==
    /\ KnockoutTypeOK
    /\ NamesAreDrawn
    /\ ReadIsSound
    /\ BoardHolds
    /\ ReadKeepsPoints
    /\ WinnerLeads
    /\ MarksNest

\* Every step that changes the tables notes what it changed, and what it did not note is as
\* it was: the answers, the group-stage totals, and, but for a correction, the credits.
TableStep(what) ==
    /\ Note(what)
    /\ what \notin Categories => answers' = answers
    /\ what \notin GroupMarks =>
          /\ eligible' = eligible /\ group' = group
          /\ \A e \in Entries : GroupBonus(e, answers') = GroupBonus(e, answers)
    /\ what \notin BracketMarks =>
          /\ gate' = gate
          /\ \A t \in Teams : Reached(t, Matches) <= Reached(t, Matches)'
          /\ \A t \in Teams : Champion(t) => Champion(t)'

\* The teams, the crowd and the picks are finite.
LEMMA KnockoutFinite ==
    /\ IsFiniteSet(Teams)
    /\ \A e \in Entries : IsFiniteSet(Picked(e))
    /\ \A E \in SUBSET Entries : IsFiniteSet(E) /\ Cardinality(E) \in 0..Cardinality(Entries)
    /\ FinalMatch \in Matches
<1>1. IsFiniteSet(Teams)
  <2> DEFINE F == {{FirstLineup[m][1], FirstLineup[m][2]} : m \in DOMAIN FirstLineup}
  <2>1. IsFiniteSet(DOMAIN FirstLineup)
    BY KnockoutAssumption, FS_Subset
  <2>2. IsFiniteSet(F)
    <3> DEFINE f == [m \in DOMAIN FirstLineup |-> {FirstLineup[m][1], FirstLineup[m][2]}]
    <3>1. f \in Surjection(DOMAIN FirstLineup, F)
      BY DEF Surjection
    <3> HIDE DEF f, F
    <3> QED
      BY <2>1, <3>1, FS_Surjection
  <2>3. ASSUME NEW s \in F PROVE IsFiniteSet(s)
    <3>1. PICK m \in DOMAIN FirstLineup : s = {FirstLineup[m][1]} \cup {FirstLineup[m][2]}
      OBVIOUS
    <3> QED
      BY <3>1, FS_Singleton, FS_Union
  <2> HIDE DEF F
  <2>4. IsFiniteSet(UNION F)
    BY <2>2, <2>3, FS_UNION
  <2> QED
    BY <2>4 DEF Teams, F
<1>2. ASSUME NEW e \in Entries PROVE IsFiniteSet(Picked(e))
  <2>1. IsFiniteSet(1..(Rounds + 1))
    BY KnockoutAssumption, FS_Interval
  <2>2. IsFiniteSet((1..(Rounds + 1)) \X Teams)
    BY <1>1, <2>1, FS_Product
  <2> QED
    BY <2>2, FS_Subset DEF Picked
<1>3. ASSUME NEW E \in SUBSET Entries
      PROVE  IsFiniteSet(E) /\ Cardinality(E) \in 0..Cardinality(Entries)
  <2>1. IsFiniteSet(E) /\ Cardinality(E) <= Cardinality(Entries)
    BY KnockoutAssumption, FS_Subset
  <2>2. Cardinality(E) \in Nat /\ Cardinality(Entries) \in Nat
    BY <2>1, KnockoutAssumption, FS_CardinalityType
  <2> QED
    BY <2>1, <2>2
<1>4. FinalMatch \in Matches
  <2>1. {m \in Matches : Round[m] = Rounds} # {}
    BY BracketAssumption, FS_EmptySet
  <2> QED
    BY <2>1 DEF FinalMatch
<1> QED
  BY <1>1, <1>2, <1>3, <1>4

\* What a match pays is a natural number, its rarity bonus at most the cap.
LEMMA LineTypes ==
    ASSUME NEW E \in SUBSET Entries, NEW e, NEW s
    PROVE  /\ MatchLine(e, s, Counts(E, s)).outcome \in Nat
           /\ MatchLine(e, s, Counts(E, s)).rarity \in 0..Cap
           /\ MatchLine(e, s, Counts(E, s)).exact \in Nat
<1> DEFINE R == {f \in E : Outcome(Forecast[f]) = Outcome(s)}
           c == Cardinality(R)
           n == Cardinality(E)
<1>1. n \in 0..Cardinality(Entries) /\ c \in 0..n
  <2>1. IsFiniteSet(E) /\ n \in 0..Cardinality(Entries)
    BY KnockoutFinite
  <2>2. c <= n /\ IsFiniteSet(R)
    BY <2>1, FS_Subset
  <2> QED
    BY <2>1, <2>2, FS_CardinalityType
<1>2. Counts(E, s) = <<c, n>>
  BY DEF Counts
<1>3. Rarity(Counts(E, s)) \in 0..Cap
  <2> HIDE DEF c, n
  <2>1. CASE c = 0
    BY <1>2, <2>1, KnockoutAssumption DEF Rarity
  <2>2. CASE c # 0
    <3>1. Cardinality(Entries) \in Nat
      BY KnockoutAssumption, FS_CardinalityType
    <3>2. n \in 1..Cardinality(Entries) /\ c \in 1..n
      BY <1>1, <2>2, <3>1
    <3>3. Surprise[<<c, n>>] \in Nat
      BY <3>2, KnockoutAssumption
    <3> QED
      BY <1>2, <2>2, <3>3, KnockoutAssumption DEF Rarity
  <2> QED
    BY <2>1, <2>2
<1> QED
  BY <1>3, KnockoutAssumption DEF MatchLine

\* The two columns of the bonus split share out the bonus points.
LEMMA SplitShares ==
    ASSUME NEW e, NEW ans
    PROVE  /\ GroupBonus(e, ans) \in Nat /\ KnockoutBonus(e, ans) \in Nat
           /\ GroupBonus(e, ans) + KnockoutBonus(e, ans) = Bonus(e, ans)
<1> DEFINE R == Right(e, ans)
           A == {q \in R : Category[q] = "group_stage"}
           B == {q \in R : Category[q] # "group_stage"}
<1>1. IsFiniteSet(R) /\ R \subseteq Questions /\ \A q \in R : Worth[q] \in Nat
  BY KnockoutAssumption, FS_Subset DEF Right
<1>2. GroupBonus(e, ans) = SumOver(Worth, A) /\ KnockoutBonus(e, ans) = SumOver(Worth, B)
  BY DEF GroupBonus, KnockoutBonus
<1>3. IsFiniteSet(A) /\ IsFiniteSet(B) /\ A \cap B = {} /\ A \cup B = R
  BY <1>1, FS_Subset
<1>4. SumOver(Worth, A) \in Nat /\ SumOver(Worth, B) \in Nat
  <2>1. A \subseteq R /\ B \subseteq R
    OBVIOUS
  <2> HIDE DEF A, B, R
  <2> QED
    BY <1>1, <2>1, SumOfMore
<1>5. SumOver(Worth, A \cup B) = SumOver(Worth, A) + SumOver(Worth, B)
  <2>1. \A q \in A \cup B : Worth[q] \in Int
    BY <1>1, <1>3
  <2> HIDE DEF A, B, R
  <2> QED
    BY <1>3, <2>1, SumUnion
<1> QED
  BY <1>2, <1>3, <1>4, <1>5 DEF Bonus

\* Better credits pay no less, whoever's picks they pay.
LEMMA PointsGrow ==
    ASSUME NEW e \in Entries, NEW open \in BOOLEAN, NEW c, NEW d,
           \A r \in 1..(Rounds + 1) : \A t \in Picks[e][r] \cap Teams : c[t] >= r => d[t] >= r
    PROVE  /\ BracketPoints(e, c, open) \in Nat
           /\ BracketPoints(e, c, open) <= BracketPoints(e, d, open)
<1> DEFINE f == [p \in Picked(e) |-> Advance[p[1]]]
           C == {p \in Picked(e) : c[p[2]] >= p[1]}
           D == {p \in Picked(e) : d[p[2]] >= p[1]}
<1>1. CASE ~open
  BY <1>1 DEF BracketPoints
<1>2. CASE open
  <2>1. BracketPoints(e, c, open) = SumOver(f, C) /\ BracketPoints(e, d, open) = SumOver(f, D)
    BY <1>2 DEF BracketPoints
  <2>2. \A p \in Picked(e) : p[1] \in 1..(Rounds + 1) /\ p[2] \in Picks[e][p[1]] \cap Teams
    BY DEF Picked
  <2>3. C \subseteq D /\ D \subseteq Picked(e)
    BY <2>2
  <2>4. \A p \in Picked(e) : f[p] \in Nat
    BY <2>2, KnockoutAssumption
  <2>5. IsFiniteSet(D) /\ \A p \in D : f[p] \in Nat
    BY <2>3, <2>4, KnockoutFinite, FS_Subset
  <2> HIDE DEF f, C, D
  <2>6. SumOver(f, C) \in Nat /\ SumOver(f, C) <= SumOver(f, D)
    BY <2>3, <2>5, SumOfMore
  <2> QED
    BY <2>1, <2>6
<1> QED
  BY <1>1, <1>2

\* The marks that rows put on a team: its credit is the best of them.
Marks(t, ms) ==
    {0} \cup {Round[m] : m \in {n \in ms : t \in {Credited(n)[1], Credited(n)[2]}}}
        \cup {Round[m] + 1 : m \in {n \in ms \cap Recorded : Credited(n)[score[n]] = t}}

\* The best of the marks is one of them.
LEMMA ReachedIsBest ==
    ASSUME NEW t, NEW ms \in SUBSET Matches
    PROVE  /\ Reached(t, ms) \in 0..(Rounds + 1)
           /\ Reached(t, ms) \in Marks(t, ms)
           /\ \A k \in Marks(t, ms) : k <= Reached(t, ms)
<1>1. Marks(t, ms) \subseteq 0..(Rounds + 1)
  BY BracketAssumption, KnockoutAssumption DEF Marks
<1>2. IsFiniteSet(Marks(t, ms)) /\ Marks(t, ms) \subseteq Int /\ Marks(t, ms) # {}
  <2>1. IsFiniteSet(0..(Rounds + 1))
    BY KnockoutAssumption, FS_Interval
  <2>2. IsFiniteSet(Marks(t, ms))
    BY <1>1, <2>1, FS_Subset
  <2>3. 0 \in Marks(t, ms)
    BY DEF Marks
  <2> QED
    BY <1>1, <2>2, <2>3
<1>3. Max(Marks(t, ms)) \in Marks(t, ms) /\ \A k \in Marks(t, ms) : k <= Max(Marks(t, ms))
  BY <1>2, GreatestOf
<1>4. Reached(t, ms) = Max(Marks(t, ms))
  BY Zenon DEF Reached, Marks
<1> QED
  BY <1>1, <1>3, <1>4

\* No order of the rows credits a team with more than the best of all rows.
LEMMA CreditWithinReach ==
    ASSUME NEW t, NEW late \in RowOrders
    PROVE  /\ Credit(t, late) \in 0..(Rounds + 1)
           /\ Credit(t, late) <= Reached(t, Matches)
           /\ ~Champion(t) => Credit(t, late) = Reached(t, Matches)
<1> DEFINE after == {m \in late : t \in {Credited(m)[1], Credited(m)[2]}}
<1>1. after \in SUBSET Matches
  BY DEF RowOrders
<1>2. /\ Reached(t, after) \in 0..(Rounds + 1) /\ Reached(t, Matches) \in 0..(Rounds + 1)
      /\ Reached(t, after) \in Marks(t, after)
      /\ \A k \in Marks(t, Matches) : k <= Reached(t, Matches)
  BY <1>1, ReachedIsBest
<1>3. Marks(t, after) \subseteq Marks(t, Matches)
  BY <1>1 DEF Marks
<1>4. Reached(t, after) <= Reached(t, Matches)
  BY <1>2, <1>3
<1>5. Credit(t, late) = IF Champion(t) /\ after # {} THEN Reached(t, after)
                        ELSE Reached(t, Matches)
  BY DEF Credit
<1> HIDE DEF after
<1> QED
  BY <1>2, <1>4, <1>5, KnockoutAssumption

\* The same of the rows after a step.
LEMMA ReachedIsBestNext ==
    ASSUME NEW t
    PROVE  /\ Reached(t, Matches)' \in 0..(Rounds + 1)
           /\ \A k \in Marks(t, Matches)' : k \in 0..(Rounds + 1) /\ k <= Reached(t, Matches)'
<1> DEFINE S == Marks(t, Matches)'
<1>1. S \subseteq 0..(Rounds + 1) /\ S # {}
  BY BracketAssumption, KnockoutAssumption DEF Marks
<1>2. Reached(t, Matches)' = Max(S)
  BY Zenon DEF Reached, Marks
<1>3. IsFiniteSet(0..(Rounds + 1))
  BY KnockoutAssumption, FS_Interval
<1> HIDE DEF S
<1>4. IsFiniteSet(S)
  BY ONLY <1>1, <1>3, FS_Subset
<1>5. S \subseteq Int
  BY <1>1, KnockoutAssumption
<1>6. Max(S) \in S /\ \A k \in S : k <= Max(S)
  BY ONLY <1>1, <1>4, <1>5, GreatestOf
<1> QED
  BY <1>1, <1>2, <1>6 DEF S

\* Where new rows name more teams and change no recorded winner, credits only grow, and the
\* champion stays.
LEMMA CreditsGrow ==
    ASSUME KnockoutTypeOK, NamesAreDrawn, NEW t \in Teams,
           \A m \in Matches : names'[m] = names[m] \/ names[m] = Slot[m],
           Recorded \subseteq Recorded', \A m \in Recorded : score'[m] = score[m]
    PROVE  Reached(t, Matches) <= Reached(t, Matches)' /\ (Champion(t) => Champion(t)')
<1>1. ASSUME NEW m \in Matches, t \in {Credited(m)[1], Credited(m)[2]}
      PROVE  Credited(m)' = Credited(m)
  <2>1. CASE Source[m] = <<>>
    BY <2>1 DEF Credited
  <2>2. CASE Source[m] # <<>>
    <3>1. Credited(m) = names[m] /\ Credited(m)' = names'[m]
      BY <2>2 DEF Credited
    <3>2. names[m] # Slot[m]
      BY <1>1, <3>1, KnockoutAssumption
    <3> QED
      BY <3>1, <3>2
  <2> QED
    BY <2>1, <2>2
<1>2. \A m \in Recorded : m \in Matches /\ score[m] \in 1..2
  BY DEF KnockoutTypeOK, Recorded
<1>3. ASSUME NEW m \in Recorded, Credited(m)[score[m]] = t
      PROVE  m \in Recorded' /\ Credited(m)'[score'[m]] = t
  <2>1. score[m] = 1 \/ score[m] = 2
    BY <1>2
  <2>2. Credited(m)' = Credited(m)
    BY <1>1, <1>2, <1>3, <2>1
  <2> QED
    BY <1>3, <2>2
<1>4. Marks(t, Matches) \subseteq Marks(t, Matches)'
  <2> SUFFICES ASSUME NEW k \in Marks(t, Matches) PROVE k \in Marks(t, Matches)'
    OBVIOUS
  <2>1. CASE k = 0
    BY <2>1 DEF Marks
  <2>2. CASE \E m \in Matches : t \in {Credited(m)[1], Credited(m)[2]} /\ k = Round[m]
    <3>1. PICK m \in Matches : t \in {Credited(m)[1], Credited(m)[2]} /\ k = Round[m]
      BY <2>2
    <3>2. t \in {Credited(m)'[1], Credited(m)'[2]}
      BY <1>1, <3>1
    <3> HIDE DEF Credited
    <3> QED
      BY <3>1, <3>2 DEF Marks
  <2>3. CASE \E m \in Matches \cap Recorded : Credited(m)[score[m]] = t /\ k = Round[m] + 1
    <3>1. PICK m \in Matches \cap Recorded : Credited(m)[score[m]] = t /\ k = Round[m] + 1
      BY <2>3
    <3>2. m \in Recorded' /\ Credited(m)'[score'[m]] = t
      BY <1>3, <3>1
    <3> QED
      BY <3>1, <3>2 DEF Marks
  <2> QED
    BY <2>1, <2>2, <2>3 DEF Marks
<1>5. \A k \in Marks(t, Matches)' : k \in Int /\ k <= Reached(t, Matches)'
  BY ReachedIsBestNext, KnockoutAssumption
<1>6. Champion(t) => Champion(t)'
  <2> SUFFICES ASSUME Champion(t) PROVE Champion(t)'
    OBVIOUS
  <2>1. FinalMatch \in Recorded /\ Credited(FinalMatch)[score[FinalMatch]] = t
    BY DEF Champion, Recorded
  <2>2. FinalMatch \in Recorded' /\ Credited(FinalMatch)'[score'[FinalMatch]] = t
    BY <1>3, <2>1
  <2> QED
    BY <2>2 DEF Champion, Recorded
<1> QED
  BY <1>4, <1>5, <1>6, ReachedIsBest

\* Where neither names nor results change, nor do the credits.
LEMMA SameCredits ==
    ASSUME UNCHANGED <<finished, score, names>>
    PROVE  \A t \in Teams : /\ Reached(t, Matches)' = Reached(t, Matches)
                            /\ Champion(t)' = Champion(t)
BY Zenon DEF Reached, Champion, Credited, Recorded

\* A result, right or wrong, and the names that follow.
LEMMA ResultSteps ==
    ASSUME KnockoutTypeOK, NamesAreDrawn, NEW m \in Matches,
           Final(m) \/ Mistype(m) \/ Unfinish(m) \/ PublishNames(m)
    PROVE  \E what : TableStep(what)
<1>1. UNCHANGED <<answers, group, eligible, gate>>
  BY DEF Final, Mistype, Unfinish, PublishNames
<1>2. ASSUME NEW what, Note(what),
             what \notin BracketMarks =>
                /\ \A n \in Matches : names'[n] = names[n] \/ names[n] = Slot[n]
                /\ Recorded \subseteq Recorded' /\ \A n \in Recorded : score'[n] = score[n]
      PROVE  TableStep(what)
  <2>1. ASSUME what \notin BracketMarks, NEW t \in Teams
        PROVE  Reached(t, Matches) <= Reached(t, Matches)' /\ (Champion(t) => Champion(t)')
    BY <1>2, <2>1, CreditsGrow
  <2>2. \A e \in Entries : GroupBonus(e, answers') = GroupBonus(e, answers)
    BY <1>1
  <2> HIDE DEF Reached, Champion, GroupBonus, Note
  <2> QED
    BY <1>1, <1>2, <2>1, <2>2 DEF TableStep
<1>3. truth \in [Matches -> 1..2] /\ score \in [Matches -> 0..2] /\ finished \subseteq Matches
  BY KnockoutAssumption DEF KnockoutTypeOK
<1>4. CASE Final(m)
  <2>1. CASE score[m] \in {0, truth[m]}
    <3>1. /\ names' = names /\ finished' = finished \cup {m}
          /\ score' = [score EXCEPT ![m] = truth[m]]
          /\ m \notin finished \/ score[m] # truth[m]
      BY <1>4 DEF Final
    <3>2. m \notin Recorded /\ truth[m] # 0
      BY <1>3, <2>1, <3>1 DEF Recorded
    <3>3. Recorded \subseteq Recorded' /\ \A n \in Recorded : score'[n] = score[n]
      BY <1>3, <3>1, <3>2 DEF Recorded
    <3>4. Note("result")
      BY <1>4, <2>1 DEF Final
    <3> QED
      BY <1>2, <3>1, <3>3, <3>4
  <2>2. CASE score[m] \notin {0, truth[m]}
    <3>1. Note("correction") /\ "correction" \in BracketMarks
      BY <1>4, <2>2 DEF Final, BracketMarks
    <3> QED
      BY <1>2, <3>1
  <2> QED
    BY <2>1, <2>2
<1>5. CASE Mistype(m) \/ Unfinish(m)
  <2>1. Note("correction") /\ "correction" \in BracketMarks
    BY <1>5 DEF Mistype, Unfinish, BracketMarks
  <2> QED
    BY <1>2, <2>1
<1>6. CASE PublishNames(m)
  <2>1. /\ names[m] # TrueLineup(m) /\ names' = [names EXCEPT ![m] = TrueLineup(m)]
        /\ Note("names") /\ UNCHANGED <<finished, score>>
    BY <1>6 DEF PublishNames
  <2>2. \A n \in Matches : names'[n] = names[n] \/ names[n] = Slot[n]
    BY <2>1 DEF NamesAreDrawn
  <2>3. Recorded \subseteq Recorded' /\ \A n \in Recorded : score'[n] = score[n]
    BY <2>1 DEF Recorded
  <2> QED
    BY <1>2, <2>1, <2>2, <2>3
<1> QED
  BY <1>4, <1>5, <1>6

\* What an administrator sets.
LEMMA SettingSteps ==
    ASSUME KnockoutTypeOK,
           \/ \E open \in BOOLEAN : SetGate(open)
           \/ \E q \in Questions : \E list \in AnswerSets[q] : SetAnswers(q, list)
           \/ \E s \in GroupScores : CorrectGroup(s)
           \/ \E e \in Entries : SetEligible(e)
    PROVE  \E what : TableStep(what)
<1>1. UNCHANGED <<finished, score, names>>
  BY DEF SetGate, SetAnswers, CorrectGroup, SetEligible
<1>2. \A t \in Teams : /\ Reached(t, Matches) <= Reached(t, Matches)'
                       /\ Champion(t) => Champion(t)'
  <2>1. \A t \in Teams : Reached(t, Matches) \in 0..(Rounds + 1)
    BY ReachedIsBest
  <2> QED
    BY <1>1, <2>1, SameCredits, KnockoutAssumption
<1>3. CASE \E open \in BOOLEAN : SetGate(open)
  <2>1. Note("gate") /\ UNCHANGED <<answers, group, eligible>>
    BY <1>3 DEF SetGate
  <2>2. TableStep("gate")
    BY <1>2, <2>1 DEF TableStep, BracketMarks
  <2> QED
    BY <2>2
<1>4. CASE \E q \in Questions : \E list \in AnswerSets[q] : SetAnswers(q, list)
  <2>0. PICK q \in Questions : \E list \in AnswerSets[q] : SetAnswers(q, list)
    BY <1>4
  <2>1. PICK list \in AnswerSets[q] : SetAnswers(q, list)
    BY <2>0
  <2>2. /\ Note(Category[q]) /\ UNCHANGED <<group, eligible, gate>>
        /\ answers' = [answers EXCEPT ![q] = list]
    BY <2>1 DEF SetAnswers
  <2>3. ASSUME Category[q] # "group_stage", NEW e \in Entries
        PROVE  GroupBonus(e, answers') = GroupBonus(e, answers)
    <3>1. {p \in Right(e, answers') : Category[p] = "group_stage"}
            = {p \in Right(e, answers) : Category[p] = "group_stage"}
      BY <2>2, <2>3 DEF Right, KnockoutTypeOK
    <3> QED
      BY <3>1, Zenon DEF GroupBonus
  <2>4. Category[q] \in Categories
    BY DEF Categories
  <2>5. TableStep(Category[q])
    <3> HIDE DEF GroupBonus, Reached, Champion, Note
    <3> QED
      BY <1>2, <2>2, <2>3, <2>4 DEF TableStep, GroupMarks
  <2> QED
    BY <2>5
<1>5. CASE \E s \in GroupScores : CorrectGroup(s)
  <2>1. Note("group") /\ UNCHANGED <<answers, gate, eligible>>
    BY <1>5 DEF CorrectGroup
  <2>2. TableStep("group")
    BY <1>2, <2>1 DEF TableStep, GroupMarks
  <2> QED
    BY <2>2
<1>6. CASE \E e \in Entries : SetEligible(e)
  <2>1. Note("eligible") /\ UNCHANGED <<answers, gate, group>>
    BY <1>6 DEF SetEligible
  <2>2. TableStep("eligible")
    BY <1>2, <2>1 DEF TableStep, GroupMarks
  <2> QED
    BY <2>2
<1> QED
  BY <1>3, <1>4, <1>5, <1>6

\* What a step that changes the tables does not note, it leaves as good as it was.
LEMMA TableStepKeeps ==
    ASSUME KnockoutTypeOK, NEW what, TableStep(what)
    PROVE  /\ what \notin GroupMarks =>
                 eligible' = eligible /\ \A e \in Entries : GroupNow(e)' = GroupNow(e)
           /\ what \notin BracketMarks =>
                 /\ gate' = gate
                 /\ \A t \in Teams : ReachedNow[t] <= ReachedNow'[t]
                 /\ \A e \in Entries :
                       /\ ChampionPicked(e) => ChampionPicked(e)'
                       /\ BracketPoints(e, ReachedNow, gate) <= BracketPoints(e, ReachedNow', gate')
                       /\ BracketPoints(e, ReachedNow', gate') \in Nat
           /\ \A e \in Entries : BracketPoints(e, ReachedNow, gate) \in Nat
<1>1. ASSUME what \notin GroupMarks
      PROVE  eligible' = eligible /\ \A e \in Entries : GroupNow(e)' = GroupNow(e)
  <2>1. /\ eligible' = eligible /\ group' = group
        /\ \A e \in Entries : GroupBonus(e, answers') = GroupBonus(e, answers)
    BY <1>1 DEF TableStep
  <2>2. \A e \in Entries : MatchCell(e)' = MatchCell(e)
    BY <2>1 DEF MatchCell, MatchLine, Counts
  <2> HIDE DEF MatchCell, GroupBonus
  <2> QED
    BY <2>1, <2>2 DEF GroupNow
<1>2. \A t \in Teams : /\ ReachedNow[t] = Reached(t, Matches)
                       /\ ReachedNow'[t] = Reached(t, Matches)'
                       /\ ReachedNow[t] \in 0..(Rounds + 1) /\ ReachedNow'[t] \in 0..(Rounds + 1)
  <2>1. \A t : Reached(t, Matches) \in 0..(Rounds + 1) /\ Reached(t, Matches)' \in 0..(Rounds + 1)
    BY ReachedIsBest, ReachedIsBestNext
  <2> HIDE DEF Reached
  <2> QED
    BY <2>1 DEF ReachedNow
<1>3. ASSUME what \notin BracketMarks
      PROVE  /\ gate' = gate
             /\ \A t \in Teams : ReachedNow[t] <= ReachedNow'[t]
             /\ \A e \in Entries :
                   /\ ChampionPicked(e) => ChampionPicked(e)'
                   /\ BracketPoints(e, ReachedNow, gate) <= BracketPoints(e, ReachedNow', gate')
                   /\ BracketPoints(e, ReachedNow', gate') \in Nat
  <2>1. /\ gate' = gate
        /\ \A t \in Teams : Reached(t, Matches) <= Reached(t, Matches)'
        /\ \A t \in Teams : Champion(t) => Champion(t)'
    BY <1>3 DEF TableStep
  <2> HIDE DEF Reached, Champion, ReachedNow, BracketPoints
  <2>2. \A e \in Entries : ChampionPicked(e) => ChampionPicked(e)'
    BY <2>1 DEF ChampionPicked
  <2>3. \A t \in Teams : ReachedNow[t] <= ReachedNow'[t]
    BY <1>2, <2>1
  <2>4. ASSUME NEW e \in Entries
        PROVE  /\ BracketPoints(e, ReachedNow, gate) <= BracketPoints(e, ReachedNow', gate)
               /\ BracketPoints(e, ReachedNow', gate) \in Nat
    <3>1. gate \in BOOLEAN
      BY DEF KnockoutTypeOK
    <3>2. \A r \in 1..(Rounds + 1) : \A t \in Picks[e][r] \cap Teams :
             /\ ReachedNow[t] >= r => ReachedNow'[t] >= r
             /\ ReachedNow'[t] >= r => ReachedNow'[t] >= r
      BY <1>2, <2>3, KnockoutAssumption
    <3> QED
      BY <3>1, <3>2, PointsGrow
  <2> QED
    BY <2>1, <2>2, <2>3, <2>4
<1>4. \A e \in Entries : BracketPoints(e, ReachedNow, gate) \in Nat
  <2>1. gate \in BOOLEAN
    BY DEF KnockoutTypeOK
  <2> QED
    BY <2>1, PointsGrow
<1> QED
  BY <1>1, <1>3, <1>4

\* So whoever holds something has noted what it is not any more.
LEMMA TableStepInv ==
    ASSUME KnockoutInv, NEW what, TableStep(what)
    PROVE  ReadIsSound' /\ BoardHolds' /\ ReadKeepsPoints' /\ WinnerLeads' /\ MarksNest'
<1>1. /\ UNCHANGED <<truth, reading, posted, announced>>
      /\ posted # NoBoard => stale' = stale \cup {what}
      /\ reading # NoRead => dirty' = dirty \cup {what}
      /\ announced # Nobody => moved' = moved \cup {what}
  BY DEF TableStep, Note
<1>2. what \notin Categories => answers' = answers
  BY DEF TableStep
<1>3. /\ what \notin GroupMarks =>
            /\ eligible' = eligible
            /\ \A e \in Entries : GroupNow(e)' = GroupNow(e)
      /\ what \notin BracketMarks =>
            /\ gate' = gate
            /\ \A t \in Teams : ReachedNow[t] <= ReachedNow'[t]
            /\ \A e \in Entries :
                  /\ ChampionPicked(e) => ChampionPicked(e)'
                  /\ BracketPoints(e, ReachedNow, gate) <= BracketPoints(e, ReachedNow', gate')
                  /\ BracketPoints(e, ReachedNow', gate') \in Nat
      /\ \A e \in Entries : BracketPoints(e, ReachedNow, gate) \in Nat
  <2>1. KnockoutTypeOK
    BY DEF KnockoutInv
  <2> QED
    BY <2>1, TableStepKeeps, Zenon
<1>0. what \notin GroupMarks =>
         \A e \in Entries : GroupBonus(e, answers') = GroupBonus(e, answers)
  BY DEF TableStep
<1>4. \A t \in Teams : ReachedNow[t] \in Int /\ ReachedNow'[t] \in Int
  <2>1. \A t : Reached(t, Matches) \in 0..(Rounds + 1) /\ Reached(t, Matches)' \in 0..(Rounds + 1)
    BY ReachedIsBest, ReachedIsBestNext
  <2> HIDE DEF Reached
  <2> QED
    BY <2>1, KnockoutAssumption DEF ReachedNow
<1> HIDE DEF ReachedNow, BracketPoints, GroupBonus, GroupNow, ChampionPicked
<1>5. ReadIsSound'
  <2> SUFFICES ASSUME reading # NoRead
               PROVE  ReadIsSound'
    BY <1>1 DEF ReadIsSound
  <2>1. dirty' = dirty \cup {what}
    BY <1>1
  <2>2. /\ reading.eligible \subseteq Entries
        /\ reading.credit \in [Teams -> 0..(Rounds + 1)] /\ reading.gate \in BOOLEAN
        /\ \A s \in GroupScores : reading.counts[Outcome(s)] = Counts(reading.eligible, s)
    BY DEF KnockoutInv, ReadIsSound
  <2>3. dirty' \cap Categories = {} => reading.answers = answers'
    BY <1>2, <2>1 DEF KnockoutInv, ReadIsSound
  <2>4. dirty' \cap GroupMarks = {} =>
              /\ reading.eligible = eligible'
              /\ \A e \in Entries : GroupBonus(e, reading.answers) = GroupBonus(e, answers')
    BY <1>0, <1>3, <2>1 DEF KnockoutInv, ReadIsSound
  <2>5. dirty' \cap BracketMarks = {} =>
              /\ reading.gate = gate'
              /\ \A t \in Teams : reading.credit[t] <= ReachedNow'[t]
    <3> SUFFICES ASSUME dirty' \cap BracketMarks = {}
                 PROVE  /\ reading.gate = gate'
                        /\ \A t \in Teams : reading.credit[t] <= ReachedNow'[t]
      OBVIOUS
    <3>1. what \notin BracketMarks /\ dirty \cap BracketMarks = {}
      BY <2>1
    <3>2. /\ reading.gate = gate
          /\ \A t \in Teams : reading.credit[t] <= ReachedNow[t] /\ reading.credit[t] \in Int
      BY <2>2, <3>1, KnockoutAssumption DEF KnockoutInv, ReadIsSound
    <3> QED
      BY <1>3, <1>4, <3>1, <3>2
  <2>6. dirty' # {}
    BY <2>1
  <2> QED
    BY <1>1, <2>2, <2>3, <2>4, <2>5, <2>6 DEF ReadIsSound
<1>6. BoardHolds'
  <2> SUFFICES ASSUME posted # NoBoard
               PROVE  BoardHolds'
    BY <1>1 DEF BoardHolds
  <2>1. stale' = stale \cup {what}
    BY <1>1
  <2>2. \A e \in DOMAIN posted : e \in Entries /\ posted[e].bracket \in Nat
    BY DEF KnockoutInv, BoardHolds
  <2>3. stale' \cap Categories = {} =>
          \A e \in DOMAIN posted : posted[e].bonusGroup + posted[e].bonusKnockout = posted[e].bonus
    BY <2>1 DEF KnockoutInv, BoardHolds
  <2>4. stale' \cap GroupMarks = {} =>
              /\ DOMAIN posted = eligible'
              /\ \A e \in eligible' : GroupTotal(posted[e]) = GroupNow(e)'
    <3> HIDE DEF GroupTotal
    <3> QED
      BY <1>3, <2>1, <2>2 DEF KnockoutInv, BoardHolds
  <2>5. ASSUME stale' \cap BracketMarks = {}, NEW e \in DOMAIN posted
        PROVE  posted[e].bracket <= BracketPoints(e, ReachedNow', gate')
    <3>1. what \notin BracketMarks /\ stale \cap BracketMarks = {}
      BY <2>1, <2>5
    <3>2. posted[e].bracket <= BracketPoints(e, ReachedNow, gate)
      BY <3>1 DEF KnockoutInv, BoardHolds
    <3>3. /\ BracketPoints(e, ReachedNow, gate) <= BracketPoints(e, ReachedNow', gate')
          /\ BracketPoints(e, ReachedNow, gate) \in Nat
          /\ BracketPoints(e, ReachedNow', gate') \in Nat
          /\ posted[e].bracket \in Nat
      BY <1>3, <2>2, <3>1
    <3> QED
      BY <3>2, <3>3
  <2>6. stale' # {}
    BY <2>1
  <2> HIDE DEF GroupTotal
  <2> QED
    BY <1>1, <2>2, <2>3, <2>4, <2>5, <2>6 DEF BoardHolds
<1>7. ReadKeepsPoints'
  <2> SUFFICES ASSUME reading # NoRead, posted # NoBoard, stale' \cap BracketMarks = {},
                      NEW e \in DOMAIN posted
               PROVE  \/ ChampionPicked(e)'
                      \/ posted[e].bracket <= BracketPoints(e, reading.credit, reading.gate)
    BY <1>1 DEF ReadKeepsPoints
  <2>1. what \notin BracketMarks /\ stale \cap BracketMarks = {}
    BY <1>1
  <2>2. e \in Entries
    BY DEF KnockoutInv, BoardHolds
  <2> QED
    BY <1>3, <2>1, <2>2 DEF KnockoutInv, ReadKeepsPoints
<1>8. WinnerLeads'
  <2> SUFFICES ASSUME announced # Nobody, moved' \cap GroupMarks = {}
               PROVE  /\ announced \in eligible'
                      /\ \A e \in eligible' : GroupNow(e)' <= GroupNow(announced)'
    BY <1>1 DEF WinnerLeads
  <2>1. what \notin GroupMarks /\ moved \cap GroupMarks = {}
    BY <1>1
  <2>2. eligible' = eligible /\ \A e \in Entries : GroupNow(e)' = GroupNow(e)
    BY <1>3, <2>1
  <2>3. announced \in eligible /\ \A e \in eligible : GroupNow(e) <= GroupNow(announced)
    BY <2>1 DEF KnockoutInv, WinnerLeads
  <2>4. eligible \subseteq Entries
    BY DEF KnockoutInv, KnockoutTypeOK
  <2>5. GroupNow(announced)' = GroupNow(announced)
    BY <1>1, <2>2, <2>3, <2>4
  <2> QED
    BY <2>2, <2>3, <2>4, <2>5
<1>9. MarksNest'
  BY <1>1 DEF KnockoutInv, MarksNest
<1> QED
  BY <1>5, <1>6, <1>7, <1>8, <1>9

\* While the tables stand, so does all that is read from them.
LEMMA SameTables ==
    ASSUME UNCHANGED tables
    PROVE  /\ ReachedNow' = ReachedNow
           /\ \A e : GroupNow(e)' = GroupNow(e)
           /\ \A e : ChampionPicked(e)' <=> ChampionPicked(e)
           /\ RowOrders' = RowOrders /\ \A late : Advancement(late)' = Advancement(late)
           /\ NamesAreDrawn => NamesAreDrawn'
<1>1. \A t : Champion(t)' <=> Champion(t)
  BY DEF tables, Champion, Credited
<1>2. \A t, ms : Reached(t, ms)' = Reached(t, ms)
  BY Zenon DEF tables, Reached, Credited, Recorded
<1>3. \A m : Credited(m)' = Credited(m)
  BY DEF tables, Credited
<1>4. ReachedNow' = ReachedNow
  <2> HIDE DEF Reached
  <2> QED
    BY <1>2 DEF ReachedNow
<1>5. \A e : ChampionPicked(e)' <=> ChampionPicked(e)
  <2> HIDE DEF Champion
  <2> QED
    BY <1>1 DEF ChampionPicked
<1>6. \A e : GroupNow(e)' = GroupNow(e)
  BY Zenon DEF tables, GroupNow, MatchCell, MatchLine, Counts
<1>7. RowOrders' = RowOrders
  <2> HIDE DEF Champion, Credited
  <2> QED
    BY <1>1, <1>3 DEF RowOrders
<1>8. \A late : Advancement(late)' = Advancement(late)
  <2> HIDE DEF Champion, Credited, Reached
  <2>1. \A t, late : Credit(t, late)' = Credit(t, late)
    BY <1>1, <1>2, <1>3 DEF Credit
  <2> HIDE DEF Credit
  <2> QED
    BY <2>1 DEF Advancement
<1>9. NamesAreDrawn => NamesAreDrawn'
  BY DEF tables, NamesAreDrawn, TrueLineup
<1> QED
  BY <1>4, <1>5, <1>6, <1>7, <1>8, <1>9

\* The first board is still to come.
LEMMA KnockoutStart == KnockoutInit => KnockoutInv
<1> SUFFICES ASSUME KnockoutInit PROVE KnockoutInv
  OBVIOUS
<1>1. KnockoutTypeOK
  <2>1. truth \in [Matches -> 1..2]
    BY KnockoutAssumption DEF KnockoutInit
  <2>2. score \in [Matches -> 0..2]
    BY <2>1 DEF KnockoutInit
  <2>3. answers \in [Questions -> SUBSET Teams] /\ gate \in BOOLEAN
    BY DEF KnockoutInit
  <2> QED
    BY <2>2, <2>3, KnockoutAssumption DEF KnockoutInit, KnockoutTypeOK
<1>2. NamesAreDrawn
  BY DEF KnockoutInit, NamesAreDrawn
<1> QED
  BY <1>1, <1>2 DEF KnockoutInit, KnockoutInv, ReadIsSound, BoardHolds, ReadKeepsPoints,
                    WinnerLeads, MarksNest

\* Types and names survive a step that changes the tables.
LEMMA TableTypes ==
    ASSUME KnockoutTypeOK, NamesAreDrawn,
           \/ \E m \in Matches : Final(m) \/ Mistype(m) \/ Unfinish(m) \/ PublishNames(m)
           \/ \E open \in BOOLEAN : SetGate(open)
           \/ \E q \in Questions : \E list \in AnswerSets[q] : SetAnswers(q, list)
           \/ \E s \in GroupScores : CorrectGroup(s)
           \/ \E e \in Entries : SetEligible(e)
    PROVE  KnockoutTypeOK' /\ NamesAreDrawn'
<1>1. UNCHANGED <<truth, posted, announced>>
  BY DEF Note, Final, Mistype, Unfinish, PublishNames, SetGate, SetAnswers, CorrectGroup,
         SetEligible
<1>2. truth \in [Matches -> 1..2] /\ edits \in 0..MaxEdits
  BY KnockoutAssumption DEF KnockoutTypeOK
<1>3. edits' \in 0..MaxEdits
  BY <1>2, KnockoutAssumption
     DEF Edited, Final, Mistype, Unfinish, PublishNames, SetGate, SetAnswers, CorrectGroup,
         SetEligible
<1>4. finished' \subseteq Matches /\ score' \in [Matches -> 0..2]
  <2>1. CASE UNCHANGED <<finished, score>>
    BY <2>1 DEF KnockoutTypeOK
  <2>2. CASE \E m \in Matches : Final(m) \/ Mistype(m) \/ Unfinish(m)
    BY <1>2, <2>2 DEF Final, Mistype, Unfinish, KnockoutTypeOK
  <2> QED
    BY <2>1, <2>2 DEF PublishNames, SetGate, SetAnswers, CorrectGroup, SetEligible
<1>5. gate' \in BOOLEAN /\ group' \in GroupScores /\ eligible' \subseteq Entries
  BY DEF Final, Mistype, Unfinish, PublishNames, SetGate, SetAnswers, CorrectGroup,
         SetEligible, KnockoutTypeOK
<1>6. answers' \in [Questions -> SUBSET Teams]
  <2>1. CASE \E q \in Questions : \E list \in AnswerSets[q] : SetAnswers(q, list)
    BY <2>1, KnockoutAssumption DEF SetAnswers, KnockoutTypeOK
  <2>2. CASE UNCHANGED answers
    BY <2>2 DEF KnockoutTypeOK
  <2> QED
    BY <2>1, <2>2 DEF Final, Mistype, Unfinish, PublishNames, SetGate, CorrectGroup, SetEligible
<1>7. NamesAreDrawn'
  <2>1. \A m : TrueLineup(m)' = TrueLineup(m)
    BY <1>1, Zenon DEF TrueLineup
  <2> HIDE DEF TrueLineup
  <2>2. CASE UNCHANGED names
    BY <2>1, <2>2 DEF NamesAreDrawn
  <2>3. CASE \E m \in Matches : PublishNames(m)
    <3>1. PICK m \in Matches : names' = [names EXCEPT ![m] = TrueLineup(m)]
      BY <2>3 DEF PublishNames
    <3>2. names = [n \in Matches |-> names[n]]
          /\ \A n \in Matches : names[n] \in {Slot[n], TrueLineup(n)}
      BY DEF NamesAreDrawn
    <3>3. names' = [n \in Matches |-> IF n = m THEN TrueLineup(m) ELSE names[n]]
      BY <3>1, <3>2
    <3> QED
      BY <2>1, <3>2, <3>3 DEF NamesAreDrawn
  <2> QED
    BY <2>2, <2>3 DEF Final, Mistype, Unfinish, SetGate, SetAnswers, CorrectGroup, SetEligible
<1> QED
  BY <1>1, <1>3, <1>4, <1>5, <1>6, <1>7 DEF KnockoutTypeOK

\* The first part of a rebuild reads the tables of one moment.
LEMMA StartInv ==
    ASSUME KnockoutInv, StartRebuild
    PROVE  KnockoutInv'
<1>1. UNCHANGED tables /\ UNCHANGED <<posted, stale, announced, moved, edits>>
      /\ reading = NoRead /\ dirty' = {}
  BY DEF StartRebuild
<1>2. PICK late \in RowOrders :
          reading' = [eligible |-> eligible,
                      counts |-> [o \in {"1", "X", "2"} |->
                          <<Cardinality({e \in eligible : Outcome(Forecast[e]) = o}),
                            Cardinality(eligible)>>],
                      credit |-> Advancement(late),
                      gate |-> gate,
                      out |-> Eliminated,
                      answers |-> answers]
  BY DEF StartRebuild
<1>3. /\ reading'.eligible = eligible /\ reading'.credit = Advancement(late)
      /\ reading'.answers = answers
      /\ \A s : reading'.counts[Outcome(s)] = Counts(eligible, s)
  <2> HIDE DEF Advancement, Eliminated
  <2>1. \A s : Outcome(s) \in {"1", "X", "2"}
    BY DEF Outcome
  <2> QED
    BY <1>2, <2>1 DEF Counts
<1>4. reading'.gate = gate
  <2> HIDE DEF Advancement, Eliminated
  <2> QED
    BY <1>2, Zenon
<1>5. \A t \in Teams : /\ Advancement(late)[t] \in 0..(Rounds + 1)
                       /\ Advancement(late)[t] <= ReachedNow[t]
                       /\ ~Champion(t) => Advancement(late)[t] = ReachedNow[t]
  <2>1. \A t \in Teams : /\ Advancement(late)[t] = Credit(t, late)
                         /\ ReachedNow[t] = Reached(t, Matches)
    BY DEF Advancement, ReachedNow
  <2> HIDE DEF Advancement, ReachedNow, Credit, Reached, Champion
  <2> QED
    BY <2>1, CreditWithinReach
<1>6. Advancement(late) \in [Teams -> 0..(Rounds + 1)]
  BY <1>5 DEF Advancement
<1>7. KnockoutTypeOK' /\ NamesAreDrawn'
  <2>1. KnockoutTypeOK'
    BY <1>1 DEF tables, KnockoutInv, KnockoutTypeOK
  <2> QED
    BY <1>1, <2>1, SameTables DEF KnockoutInv
<1>8. /\ ReachedNow' = ReachedNow
      /\ \A e : GroupNow(e)' = GroupNow(e)
      /\ \A e : ChampionPicked(e)' <=> ChampionPicked(e)
      /\ RowOrders' = RowOrders /\ \A l : Advancement(l)' = Advancement(l)
      /\ eligible' = eligible /\ answers' = answers /\ gate' = gate /\ group' = group
  BY <1>1, SameTables DEF tables
<1>9. gate \in BOOLEAN /\ eligible \subseteq Entries
  BY DEF KnockoutInv, KnockoutTypeOK
<1> HIDE DEF Advancement, ReachedNow, GroupNow, ChampionPicked, RowOrders, Champion
<1>10. ReadIsSound'
  <2>1. \E l \in RowOrders' : reading'.credit = Advancement(l)'
    BY <1>3, <1>8
  <2>2. \A e \in Entries : GroupBonus(e, reading'.answers) = GroupBonus(e, answers')
    BY <1>3, <1>8
  <2>3. \A t \in Teams : reading'.credit[t] <= ReachedNow'[t]
    BY <1>3, <1>5, <1>8
  <2>4. /\ reading'.eligible = eligible' /\ reading'.answers = answers'
        /\ reading'.credit \in [Teams -> 0..(Rounds + 1)]
        /\ \A s \in GroupScores : reading'.counts[Outcome(s)] = Counts(reading'.eligible, s)
    BY <1>3, <1>6, <1>8
  <2>5. reading'.gate = gate' /\ reading'.gate \in BOOLEAN
    BY <1>4, <1>8, <1>9, Zenon
  <2>6. reading'.eligible \subseteq Entries
    BY <1>3, <1>9
  <2> QED
    BY <2>1, <2>2, <2>3, <2>4, <2>5, <2>6, Zenon DEF ReadIsSound
<1>11. BoardHolds'
  <2> HIDE DEF GroupTotal, MatchLine, Counts, BracketPoints, Bonus
  <2>1. posted' = posted /\ stale' = stale
    BY <1>1
  <2>2. BoardHolds
    BY DEF KnockoutInv
  <2> QED
    BY <1>8, <2>1, <2>2 DEF BoardHolds
<1>12. ReadKeepsPoints'
  <2> SUFFICES ASSUME posted # NoBoard, stale \cap BracketMarks = {},
                      NEW e \in DOMAIN posted, ~ChampionPicked(e)
               PROVE  posted[e].bracket <= BracketPoints(e, reading'.credit, reading'.gate)
    BY <1>1, <1>8 DEF ReadKeepsPoints
  <2>1. /\ e \in Entries /\ posted[e].bracket \in Nat
        /\ posted[e].bracket <= BracketPoints(e, ReachedNow, gate)
    BY DEF KnockoutInv, BoardHolds
  <2>2. \A r \in 1..(Rounds + 1) : \A t \in Picks[e][r] \cap Teams :
           Advancement(late)[t] = ReachedNow[t]
    BY <1>5 DEF ChampionPicked
  <2>3. /\ BracketPoints(e, ReachedNow, gate) <= BracketPoints(e, Advancement(late), gate)
        /\ BracketPoints(e, ReachedNow, gate) \in Nat
    <3>1. \A r \in 1..(Rounds + 1) : \A t \in Picks[e][r] \cap Teams :
             ReachedNow[t] >= r => Advancement(late)[t] >= r
      BY <2>2
    <3> QED
      BY <1>9, <2>1, <3>1, PointsGrow
  <2>4. BracketPoints(e, Advancement(late), gate) \in Nat
    BY <1>9, <2>1, PointsGrow
  <2>5. reading'.credit = Advancement(late) /\ reading'.gate = gate
    BY <1>3, <1>4
  <2> QED
    BY <2>1, <2>3, <2>4, <2>5
<1>13. WinnerLeads'
  BY <1>1, <1>8 DEF KnockoutInv, WinnerLeads
<1>14. MarksNest'
  BY <1>1 DEF KnockoutInv, MarksNest
<1> QED
  BY <1>7, <1>10, <1>11, <1>12, <1>13, <1>14 DEF KnockoutInv

\* What a row says of what was read.
LEMMA RowFacts ==
    ASSUME KnockoutInv, reading # NoRead, NEW e \in reading.eligible
    PROVE  LET row == Row(e, reading) IN
           /\ e \in Entries
           /\ row.match = MatchLine(e, group, Counts(reading.eligible, group))
           /\ row.match.rarity \in 0..Cap
           /\ row.bracket = BracketPoints(e, reading.credit, reading.gate)
           /\ row.bracket \in Nat
           /\ row.bonus = Bonus(e, answers)
           /\ row.bonusGroup = GroupBonus(e, reading.answers)
           /\ row.bonusGroup + row.bonusKnockout = Bonus(e, reading.answers)
           /\ GroupTotal(row) = row.match.outcome + row.match.rarity + row.match.exact
                                + GroupBonus(e, reading.answers)
<1> DEFINE row == Row(e, reading)
<1>1. /\ reading.eligible \subseteq Entries /\ reading.gate \in BOOLEAN
      /\ \A s \in GroupScores : reading.counts[Outcome(s)] = Counts(reading.eligible, s)
      /\ group \in GroupScores
  BY DEF KnockoutInv, ReadIsSound, KnockoutTypeOK
<1>2. /\ row.match = MatchLine(e, group, reading.counts[Outcome(group)])
      /\ row.bracket = BracketPoints(e, reading.credit, reading.gate)
      /\ row.bonus = Bonus(e, answers)
      /\ row.bonusGroup = GroupBonus(e, reading.answers)
      /\ row.bonusKnockout = KnockoutBonus(e, reading.answers)
  <2> HIDE DEF MatchLine, BracketPoints, Bonus, GroupBonus, KnockoutBonus
  <2> QED
    BY DEF Row
<1>3. row.match = MatchLine(e, group, Counts(reading.eligible, group))
  BY <1>1, <1>2
<1>4. row.match.rarity \in 0..Cap
  <2> HIDE DEF MatchLine
  <2> QED
    BY <1>1, <1>3, LineTypes DEF MatchLine
<1>5. row.bracket \in Nat
  <2> HIDE DEF row
  <2> QED
    BY <1>1, <1>2, PointsGrow
<1>6. row.bonusGroup + row.bonusKnockout = Bonus(e, reading.answers)
  <2> HIDE DEF row
  <2> QED
    BY <1>2, SplitShares
<1> QED
  BY <1>1, <1>2, <1>3, <1>4, <1>5, <1>6 DEF GroupTotal

\* The second part publishes the rows.
LEMMA FinishInv ==
    ASSUME KnockoutInv, FinishRebuild
    PROVE  KnockoutInv'
<1>1. /\ UNCHANGED tables /\ UNCHANGED <<announced, moved, edits>>
      /\ reading # NoRead /\ reading' = NoRead /\ stale' = dirty /\ dirty' = {}
      /\ posted' = [e \in reading.eligible |-> Row(e, reading)]
  BY DEF FinishRebuild
<1>2. /\ DOMAIN posted' = reading.eligible
      /\ \A e \in reading.eligible : posted'[e] = Row(e, reading)
  <2> HIDE DEF Row
  <2> QED
    BY <1>1
<1>3. /\ ReachedNow' = ReachedNow
      /\ \A e : GroupNow(e)' = GroupNow(e)
      /\ \A e : ChampionPicked(e)' <=> ChampionPicked(e)
      /\ RowOrders' = RowOrders /\ \A l : Advancement(l)' = Advancement(l)
      /\ eligible' = eligible /\ answers' = answers /\ gate' = gate /\ group' = group
      /\ NamesAreDrawn'
  BY <1>1, SameTables DEF tables, KnockoutInv
<1>4. \A e \in reading.eligible :
           /\ e \in Entries
           /\ posted'[e].match = MatchLine(e, group, Counts(reading.eligible, group))
           /\ posted'[e].match.rarity \in 0..Cap
           /\ posted'[e].bracket = BracketPoints(e, reading.credit, reading.gate)
           /\ posted'[e].bracket \in Nat
           /\ posted'[e].bonus = Bonus(e, answers)
           /\ posted'[e].bonusGroup = GroupBonus(e, reading.answers)
           /\ posted'[e].bonusGroup + posted'[e].bonusKnockout = Bonus(e, reading.answers)
           /\ GroupTotal(posted'[e]) = posted'[e].match.outcome + posted'[e].match.rarity
                 + posted'[e].match.exact + GroupBonus(e, reading.answers)
  <2> HIDE DEF Row, MatchLine, Counts, BracketPoints, Bonus, GroupBonus, GroupTotal
  <2> QED
    BY <1>1, <1>2, RowFacts
<1>5. KnockoutTypeOK'
  <2>1. \A e \in DOMAIN posted' : e \in Entries /\ posted'[e].match.rarity \in 0..Cap
    BY <1>2, <1>4
  <2> QED
    BY <1>1, <2>1 DEF tables, KnockoutInv, KnockoutTypeOK
<1>6. ReadIsSound' /\ ReadKeepsPoints'
  BY <1>1 DEF ReadIsSound, ReadKeepsPoints
<1>7. BoardHolds'
  <2>1. \A e \in DOMAIN posted' : e \in Entries /\ posted'[e].bracket \in Nat
    BY <1>2, <1>4
  <2>2. dirty \cap Categories = {} =>
          \A e \in DOMAIN posted' :
              posted'[e].bonusGroup + posted'[e].bonusKnockout = posted'[e].bonus
    BY <1>1, <1>2, <1>4 DEF KnockoutInv, ReadIsSound
  <2>3. ASSUME dirty \cap GroupMarks = {}
        PROVE  /\ DOMAIN posted' = eligible
               /\ \A e \in eligible : GroupTotal(posted'[e]) = GroupNow(e)
    <3>1. /\ reading.eligible = eligible
          /\ \A e \in Entries : GroupBonus(e, reading.answers) = GroupBonus(e, answers)
      BY <1>1, <2>3 DEF KnockoutInv, ReadIsSound
    <3> HIDE DEF GroupTotal, MatchLine, Counts, GroupBonus
    <3>2. \A e : GroupNow(e) = MatchLine(e, group, Counts(eligible, group)).outcome
                    + MatchLine(e, group, Counts(eligible, group)).rarity
                    + MatchLine(e, group, Counts(eligible, group)).exact
                    + GroupBonus(e, answers)
      BY DEF GroupNow, MatchCell
    <3> QED
      BY <1>2, <1>4, <3>1, <3>2
  <2>4. ASSUME dirty \cap BracketMarks = {}, NEW e \in DOMAIN posted'
        PROVE  posted'[e].bracket <= BracketPoints(e, ReachedNow, gate)
    <3>1. /\ reading.gate = gate /\ gate \in BOOLEAN
          /\ \A t \in Teams : reading.credit[t] <= ReachedNow[t]
          /\ reading.credit \in [Teams -> 0..(Rounds + 1)]
      BY <1>1, <2>4 DEF KnockoutInv, ReadIsSound
    <3>2. \A t \in Teams : ReachedNow[t] \in 0..(Rounds + 1)
      BY ReachedIsBest DEF ReachedNow
    <3>3. \A r \in 1..(Rounds + 1) : \A t \in Picks[e][r] \cap Teams :
             reading.credit[t] >= r => ReachedNow[t] >= r
      BY <3>1, <3>2, KnockoutAssumption
    <3>4. BracketPoints(e, reading.credit, gate) <= BracketPoints(e, ReachedNow, gate)
      BY <2>1, <3>1, <3>3, PointsGrow
    <3> QED
      BY <1>2, <1>4, <3>1, <3>4
  <2>5. ASSUME dirty = {}
        PROVE  \E late \in RowOrders : \A e \in DOMAIN posted' :
                  /\ posted'[e].match = MatchLine(e, group, Counts(eligible, group))
                  /\ posted'[e].bracket = BracketPoints(e, Advancement(late), gate)
                  /\ posted'[e].bonus = Bonus(e, answers)
    <3>1. dirty \cap Categories = {} /\ dirty \cap GroupMarks = {} /\ dirty \cap BracketMarks = {}
      BY <2>5
    <3>2. PICK late \in RowOrders : reading.credit = Advancement(late)
      BY <1>1, <2>5 DEF KnockoutInv, ReadIsSound
    <3>3. reading.gate = gate /\ reading.eligible = eligible
      BY <1>1, <3>1 DEF KnockoutInv, ReadIsSound
    <3> HIDE DEF MatchLine, Counts, BracketPoints, Bonus, Advancement
    <3> QED
      BY <1>2, <1>4, <3>2, <3>3
  <2> HIDE DEF GroupTotal, MatchLine, Counts, BracketPoints, Bonus, Advancement, ReachedNow,
               GroupNow, RowOrders
  <2> QED
    BY <1>1, <1>3, <2>1, <2>2, <2>3, <2>4, <2>5 DEF BoardHolds
<1>8. WinnerLeads'
  BY <1>1, <1>3 DEF KnockoutInv, WinnerLeads
<1>9. MarksNest'
  BY <1>1 DEF KnockoutInv, MarksNest
<1> QED
  BY <1>3, <1>5, <1>6, <1>7, <1>8, <1>9 DEF KnockoutInv

\* A group-stage total is a number.
LEMMA GroupNowType == eligible \subseteq Entries => \A e : GroupNow(e) \in Nat
<1> SUFFICES ASSUME eligible \subseteq Entries, NEW e PROVE GroupNow(e) \in Nat
  OBVIOUS
<1>1. GroupBonus(e, answers) \in Nat
  BY SplitShares
<1>2. MatchCell(e) \in Nat
  <2>1. /\ MatchLine(e, group, Counts(eligible, group)).outcome \in Nat
        /\ MatchLine(e, group, Counts(eligible, group)).rarity \in Nat
        /\ MatchLine(e, group, Counts(eligible, group)).exact \in Nat
    <3> HIDE DEF MatchLine
    <3> QED
      BY LineTypes, KnockoutAssumption
  <2> HIDE DEF MatchLine, Counts
  <2> QED
    BY <2>1 DEF MatchCell
<1> QED
  BY <1>1, <1>2 DEF GroupNow

\* The announcement takes the leader of the board.
LEMMA AnnounceInv ==
    ASSUME KnockoutInv, Announce
    PROVE  KnockoutInv'
<1>1. /\ UNCHANGED tables /\ UNCHANGED <<reading, posted, stale, dirty, edits>>
      /\ posted # NoBoard /\ announced' \in PodiumHeads(posted) /\ moved' = stale
  BY DEF Announce
<1>2. /\ ReachedNow' = ReachedNow
      /\ \A e : GroupNow(e)' = GroupNow(e)
      /\ \A e : ChampionPicked(e)' <=> ChampionPicked(e)
      /\ RowOrders' = RowOrders /\ \A l : Advancement(l)' = Advancement(l)
      /\ eligible' = eligible /\ answers' = answers /\ gate' = gate /\ group' = group
      /\ NamesAreDrawn'
  BY <1>1, SameTables DEF tables, KnockoutInv
<1>3. announced' \in DOMAIN posted /\ DOMAIN posted \subseteq Entries
  BY <1>1 DEF PodiumHeads, KnockoutInv, BoardHolds
<1>4. KnockoutTypeOK'
  BY <1>1, <1>3 DEF tables, KnockoutInv, KnockoutTypeOK
<1> HIDE DEF ReachedNow, GroupNow, ChampionPicked, RowOrders, Advancement, GroupTotal,
             MatchLine, Counts, BracketPoints, Bonus, GroupBonus
<1>5. ReadIsSound' /\ BoardHolds' /\ ReadKeepsPoints'
  BY <1>1, <1>2 DEF KnockoutInv, ReadIsSound, BoardHolds, ReadKeepsPoints
<1>6. WinnerLeads'
  <2> SUFFICES ASSUME stale \cap GroupMarks = {}
               PROVE  /\ announced' \in eligible
                      /\ \A e \in eligible : GroupNow(e) <= GroupNow(announced')
    <3>1. GroupNow(announced)' = GroupNow(announced')
      BY <1>1, <1>2 DEF GroupNow, MatchCell, tables
    <3> QED
      BY <1>1, <1>2, <3>1 DEF WinnerLeads
  <2>1. DOMAIN posted = eligible /\ \A e \in eligible : GroupTotal(posted[e]) = GroupNow(e)
    BY <1>1 DEF KnockoutInv, BoardHolds
  <2>2. \A e \in eligible : GroupNow(e) \in Nat
    BY GroupNowType DEF KnockoutInv, KnockoutTypeOK
  <2>3. \A f \in DOMAIN posted :
           \/ GroupTotal(posted[f]) < GroupTotal(posted[announced'])
           \/ GroupTotal(posted[f]) = GroupTotal(posted[announced'])
    BY <1>1 DEF PodiumHeads
  <2> QED
    BY <1>3, <2>1, <2>2, <2>3
<1>7. MarksNest'
  BY <1>1 DEF KnockoutInv, MarksNest
<1> QED
  BY <1>2, <1>4, <1>5, <1>6, <1>7 DEF KnockoutInv

\* Every step keeps the invariant.
LEMMA KnockoutStep == KnockoutInv /\ [KnockoutNext]_knockoutVars => KnockoutInv'
<1> SUFFICES ASSUME KnockoutInv, [KnockoutNext]_knockoutVars PROVE KnockoutInv'
  OBVIOUS
<1>1. ASSUME \/ \E m \in Matches : Final(m) \/ Mistype(m) \/ Unfinish(m) \/ PublishNames(m)
             \/ \E open \in BOOLEAN : SetGate(open)
             \/ \E q \in Questions : \E list \in AnswerSets[q] : SetAnswers(q, list)
             \/ \E s \in GroupScores : CorrectGroup(s)
             \/ \E e \in Entries : SetEligible(e)
      PROVE  KnockoutInv'
  <2>0. KnockoutTypeOK /\ NamesAreDrawn
    BY DEF KnockoutInv
  <2>1. KnockoutTypeOK' /\ NamesAreDrawn'
    BY <1>1, <2>0, TableTypes, Zenon
  <2>2. PICK what : TableStep(what)
    BY <1>1, <2>0, ResultSteps, SettingSteps, Zenon
  <2>3. ReadIsSound' /\ BoardHolds' /\ ReadKeepsPoints' /\ WinnerLeads' /\ MarksNest'
    BY <2>2, TableStepInv, Zenon
  <2> QED
    BY <2>1, <2>3 DEF KnockoutInv
<1>2. CASE UNCHANGED knockoutVars
  <2>1. UNCHANGED tables /\ UNCHANGED <<reading, posted, stale, dirty, announced, moved, edits>>
    BY <1>2 DEF knockoutVars, tables
  <2>2. /\ ReachedNow' = ReachedNow
        /\ \A e : GroupNow(e)' = GroupNow(e)
        /\ \A e : ChampionPicked(e)' <=> ChampionPicked(e)
        /\ RowOrders' = RowOrders /\ \A l : Advancement(l)' = Advancement(l)
        /\ eligible' = eligible /\ answers' = answers /\ gate' = gate /\ group' = group
        /\ NamesAreDrawn'
    BY <2>1, SameTables DEF tables, KnockoutInv
  <2>3. KnockoutTypeOK'
    BY <2>1 DEF tables, KnockoutInv, KnockoutTypeOK
  <2> HIDE DEF ReachedNow, GroupNow, ChampionPicked, RowOrders, Advancement, GroupTotal,
               MatchLine, Counts, BracketPoints, Bonus, GroupBonus
  <2>4. ReadIsSound' /\ BoardHolds' /\ ReadKeepsPoints'
    BY <2>1, <2>2 DEF KnockoutInv, ReadIsSound, BoardHolds, ReadKeepsPoints
  <2>5. WinnerLeads' /\ MarksNest'
    BY <2>1, <2>2 DEF KnockoutInv, WinnerLeads, MarksNest
  <2> QED
    BY <2>2, <2>3, <2>4, <2>5 DEF KnockoutInv
<1> QED
  BY <1>1, <1>2, StartInv, FinishInv, AnnounceInv DEF KnockoutNext

\* The columns, the types, the marks and the announced winner are what the invariant says in
\* every reachable state, for every bracket, crowd of entries, scoring and number of edits.
LEMMA KnockoutInvariant == KnockoutSpec => []KnockoutInv
BY KnockoutStart, KnockoutStep, PTL DEF KnockoutSpec

\* The cells of the exported sheet add up to the points that scoring pays for the same
\* tables, though the two sum over different sets.
LEMMA CellsAddUp ==
    ASSUME NEW e \in Entries, NEW credit, gate, eligible \subseteq Entries
    PROVE  SheetTotal(e, credit) =
              MatchCell(e) + BracketPoints(e, credit, gate) + Bonus(e, answers)
<1> DEFINE P == Picked(e)
           C == {p \in P : credit[p[2]] >= p[1]}
           f == [p \in P |-> Advance[p[1]]]
           g == [p \in P |-> PickCell(p[1], p[2], credit)]
           R == Right(e, answers)
           h == [q \in Questions |-> AnswerCell(e, q)]
<1>1. SumOver(g, P) = SumOver(f, C)
  <2>1. \A p \in P : p[1] \in 1..(Rounds + 1)
    BY DEF Picked
  <2>2. \A p \in P : f[p] \in Int /\ g[p] \in Int /\ (p \in C => g[p] = f[p])
                        /\ (p \notin C => g[p] = 0)
    BY <2>1, KnockoutAssumption DEF PickCell
  <2>3. IsFiniteSet(P) /\ C \subseteq P
    BY KnockoutFinite
  <2>4. IsFiniteSet(C)
    BY <2>3, FS_Subset
  <2> HIDE DEF P, C, f, g
  <2>5. SumOver(g, P) = SumOver(g, C)
    BY <2>2, <2>3, SumSupport
  <2>6. SumOver(g, C) = SumOver(f, C)
    <3>1. \A p \in C : g[p] = f[p]
      BY <2>2, <2>3
    <3> QED
      BY <2>4, <3>1, SumEqual
  <2> QED
    BY <2>5, <2>6
<1>2. SumOver(h, Questions) = SumOver(Worth, R)
  <2>1. R \subseteq Questions /\ IsFiniteSet(Questions)
    BY KnockoutAssumption DEF Right
  <2>2. \A q \in Questions : h[q] \in Int /\ (q \in R => h[q] = Worth[q])
                                /\ (q \notin R => h[q] = 0)
    BY KnockoutAssumption DEF AnswerCell, Right
  <2>3. IsFiniteSet(R)
    BY <2>1, FS_Subset
  <2> HIDE DEF h, R
  <2>4. SumOver(h, Questions) = SumOver(h, R)
    BY <2>1, <2>2, SumSupport
  <2>5. SumOver(h, R) = SumOver(Worth, R)
    <3>1. \A q \in R : h[q] = Worth[q]
      BY <2>1, <2>2
    <3> QED
      BY <2>3, <3>1, SumEqual
  <2> QED
    BY <2>4, <2>5
<1>3. SheetTotal(e, credit) = MatchCell(e) + SumOver(g, P) + SumOver(h, Questions)
  BY Zenon DEF SheetTotal
<1>4. BracketPoints(e, credit, gate) = SumOver(f, C) /\ Bonus(e, answers) = SumOver(Worth, R)
  BY DEF BracketPoints, Bonus
<1> HIDE DEF f, g, h, C, R, P
<1> QED
  BY <1>1, <1>2, <1>3, <1>4

\* What a board says of the entries: its two bonus columns and the cells of the public sheet
\* add up to its total, and nobody collects both prizes, unless something has moved since.
THEOREM TheBoardIsSound == KnockoutSpec => []BoardIsSound
<1>1. ASSUME KnockoutInv PROVE BoardIsSound
  <2>1. KnockoutTypeOK /\ BoardHolds /\ WinnerLeads /\ MarksNest
    BY <1>1 DEF KnockoutInv
  <2>2. SplitAddsUp
    BY <2>1 DEF BoardHolds, SplitAddsUp, Categories
  <2>3. SheetAddsUp
    <3> SUFFICES ASSUME posted # NoBoard, stale = {}, gate, NEW e \in DOMAIN posted
                 PROVE  \E late \in RowOrders :
                            SheetTotal(e, Advancement(late)) = Total(posted[e])
      BY DEF SheetAddsUp
    <3>1. PICK late \in RowOrders : \A f \in DOMAIN posted :
              /\ posted[f].match = MatchLine(f, group, Counts(eligible, group))
              /\ posted[f].bracket = BracketPoints(f, Advancement(late), gate)
              /\ posted[f].bonus = Bonus(f, answers)
      BY <2>1 DEF BoardHolds
    <3>2. e \in Entries /\ eligible \subseteq Entries
      BY <2>1 DEF BoardHolds, KnockoutTypeOK
    <3> HIDE DEF MatchLine, Counts, BracketPoints, Bonus, Advancement, RowOrders, SheetTotal
    <3>3. SheetTotal(e, Advancement(late)) =
              MatchCell(e) + BracketPoints(e, Advancement(late), gate) + Bonus(e, answers)
      BY <3>2, CellsAddUp
    <3>4. Total(posted[e]) = MatchCell(e) + posted[e].bracket + posted[e].bonus
      BY <3>1 DEF Total, MatchCell
    <3> QED
      BY <3>1, <3>3, <3>4
  <2>4. NoDoublePrize
    <3> SUFFICES ASSUME posted # NoBoard, announced \in SidePrize(posted),
                        moved \cap GroupMarks = {}
                 PROVE  FALSE
      BY DEF NoDoublePrize, GroupMarks
    <3>1. announced \in DOMAIN posted
             /\ ~\A f \in DOMAIN posted : GroupTotal(posted[f]) <= GroupTotal(posted[announced])
      BY DEF SidePrize
    <3>2. announced # Nobody
      BY <2>1, <3>1, KnockoutAssumption DEF BoardHolds
    <3>3. stale \cap GroupMarks = {}
      BY <2>1, <3>2 DEF MarksNest
    <3>4. DOMAIN posted = eligible /\ \A e \in eligible : GroupTotal(posted[e]) = GroupNow(e)
      BY <2>1, <3>3 DEF BoardHolds
    <3>5. announced \in eligible /\ \A e \in eligible : GroupNow(e) <= GroupNow(announced)
      BY <2>1, <3>2 DEF WinnerLeads
    <3> HIDE DEF GroupTotal, GroupNow
    <3> QED
      BY <3>1, <3>4, <3>5
  <2> QED
    BY <2>1, <2>2, <2>3, <2>4 DEF BoardIsSound, BoardAddsUp
<1> QED
  BY <1>1, KnockoutInvariant, PTL

\* What the next board may not take back: the group-stage totals unless something of the group
\* stage has moved, and bracket points unless a result was corrected, the gate was moved, or
\* the order of the rows costs the champion its credit.
THEOREM TheTotalsStand == KnockoutSpec => TotalsStand
<1>1. ASSUME KnockoutInv, [KnockoutNext]_knockoutVars, posted # NoBoard, posted' # posted,
             NEW e \in DOMAIN posted \cap DOMAIN posted'
      PROVE  /\ \/ GroupTotal(posted[e]) = GroupTotal(posted'[e])
                \/ stale \cap {"group", "group_stage", "eligible"} # {}
             /\ \/ posted[e].bracket <= posted'[e].bracket
                \/ stale \cap {"correction", "gate"} # {}
                \/ \E r \in 1..(Rounds + 1) : \E t \in Picks[e][r] : Champion(t)
  <2>1. FinishRebuild
    BY <1>1 DEF KnockoutNext, knockoutVars, Note, Final, Mistype, Unfinish, PublishNames,
                SetGate, SetAnswers, CorrectGroup, SetEligible, StartRebuild, Announce
  <2>2. /\ reading # NoRead /\ stale' = dirty
        /\ posted' = [f \in reading.eligible |-> Row(f, reading)]
        /\ UNCHANGED tables
    BY <2>1 DEF FinishRebuild
  <2>3. e \in reading.eligible /\ posted'[e] = Row(e, reading)
    <3> HIDE DEF Row
    <3> QED
      BY <1>1, <2>2
  <2>4. dirty \subseteq stale
    BY <1>1, <2>2 DEF KnockoutInv, MarksNest
  <2>5. ASSUME stale \cap GroupMarks = {}
        PROVE  GroupTotal(posted[e]) = GroupTotal(posted'[e])
    <3>1. e \in eligible /\ GroupTotal(posted[e]) = GroupNow(e)
      BY <1>1, <2>5 DEF KnockoutInv, BoardHolds
    <3>2. stale' \cap GroupMarks = {} /\ posted' # NoBoard
      <4>1. DOMAIN NoBoard = {}
        BY DEF NoBoard
      <4> QED
        BY <1>1, <2>2, <2>4, <2>5, <4>1
    <3>3. BoardHolds'
      BY <1>1, <2>1, FinishInv DEF KnockoutInv
    <3>4. eligible' = eligible /\ GroupNow(e)' = GroupNow(e)
      BY <2>2, SameTables DEF tables
    <3>5. GroupTotal(posted'[e]) = GroupNow(e)'
      <4> HIDE DEF GroupTotal, GroupNow
      <4> QED
        BY <3>1, <3>2, <3>3, <3>4 DEF BoardHolds
    <3> QED
      BY <3>1, <3>4, <3>5
  <2>6. ASSUME stale \cap BracketMarks = {}, ~ChampionPicked(e)
        PROVE  posted[e].bracket <= posted'[e].bracket
    <3>1. posted[e].bracket <= BracketPoints(e, reading.credit, reading.gate)
      BY <1>1, <2>2, <2>6 DEF KnockoutInv, ReadKeepsPoints
    <3>2. posted'[e].bracket = BracketPoints(e, reading.credit, reading.gate)
      <4> HIDE DEF Row, BracketPoints
      <4> QED
        BY <1>1, <2>2, <2>3, RowFacts
    <3> QED
      BY <3>1, <3>2
  <2>7. ChampionPicked(e) => \E r \in 1..(Rounds + 1) : \E t \in Picks[e][r] : Champion(t)
    <3> HIDE DEF Champion
    <3> QED
      BY DEF ChampionPicked
  <2> HIDE DEF Champion, ChampionPicked, GroupTotal
  <2> QED
    BY <2>5, <2>6, <2>7 DEF GroupMarks, BracketMarks
<1> DEFINE Group == posted # NoBoard /\ posted' # posted =>
                       \A e \in DOMAIN posted \cap DOMAIN posted' :
                           GroupTotal(posted[e]) = GroupTotal(posted'[e])
                           \/ stale \cap {"group", "group_stage", "eligible"} # {}
           Points == posted # NoBoard /\ posted' # posted =>
                       \A e \in DOMAIN posted \cap DOMAIN posted' :
                           \/ posted[e].bracket <= posted'[e].bracket
                           \/ stale \cap {"correction", "gate"} # {}
                           \/ \E r \in 1..(Rounds + 1) : \E t \in Picks[e][r] : Champion(t)
<1>2. KnockoutInv /\ [KnockoutNext]_knockoutVars => [Group]_knockoutVars /\ [Points]_knockoutVars
  BY <1>1, Zenon
<1>3. KnockoutSpec => [][Group]_knockoutVars /\ [][Points]_knockoutVars
  BY <1>2, KnockoutInvariant, PTL DEF KnockoutSpec
<1> QED
  BY <1>3 DEF TotalsStand, GroupTotalsStand, BracketPointsStay

-----------------------------------------------------------------------------
(***************************************************************************)
(* The rounds (Knockout).  Matches are played in order and the names of a  *)
(* fixture are its slots or its teams, so as long as no wrong side stands, *)
(* what scoring credits, what the resolver shows and what the suggestions  *)
(* count are, round after round, what happened on the pitch.  A line-up is *)
(* a recursive function on the matches; that it exists, and that a fact    *)
(* holds of all of it, is shown by the earliest round where it would not.  *)
(***************************************************************************)

\* Of any matches one comes no later than the others.
LEMMA EarliestOf ==
    ASSUME NEW B \in SUBSET Matches, B # {}
    PROVE  \E m \in B : \A n \in B : Round[m] <= Round[n]
<1> DEFINE S == {Round[m] : m \in B}
<1>1. S \in SUBSET (0..Rounds) /\ S # {} /\ Rounds \in Nat
  BY BracketAssumption, KnockoutAssumption
<1> HIDE DEF S
<1>2. PICK k \in S : \A j \in S : k <= j
  BY <1>1, LeastIn
<1> QED
  BY <1>2 DEF S

\* A match of a later round has two sources, of the round before.
LEMMA Sources ==
    ASSUME NEW m \in Matches, Source[m] # <<>>
    PROVE  /\ DOMAIN Source[m] = 1..2
           /\ \A i \in 1..2 : /\ Source[m][i] \in Matches
                              /\ Round[Source[m][i]] = Round[m] - 1
                              /\ Round[Source[m][i]] < Round[m]
<1>1. Source[m] \in Matches \X Matches /\ Round[m] \in 1..Rounds /\ Round[m] # 1
  BY BracketAssumption
<1>2. DOMAIN Source[m] = 1..2
  BY <1>1
<1>3. Round[m] > 1
  BY <1>1, KnockoutAssumption
<1>4. \A i \in 1..2 : Source[m][i] \in Matches /\ Round[Source[m][i]] = Round[m] - 1
  BY <1>3, BracketAssumption
<1> QED
  BY <1>1, <1>2, <1>4

\* Who enters a match, from the winning sides of the matches before it and, where there is
\* none, from a name.  Both line-ups are this, round after round.
Entrants(f, win, known, m) ==
    IF Source[m] = <<>> THEN FirstLineup[m]
    ELSE [i \in 1..2 |-> IF win[Source[m][i]] # 0 THEN f[Source[m][i]][win[Source[m][i]]]
                         ELSE known[m][i]]

\* A line-up exists, whatever the winning sides and the names.
LEMMA LineupExists ==
    ASSUME NEW win, NEW known
    PROVE  \E f : f = [m \in Matches |-> Entrants(f, win, known, m)]
<1> DEFINE Upto(k) == {m \in Matches : Round[m] <= k}
           Good(k) == \E f : f = [m \in Upto(k) |-> Entrants(f, win, known, m)]
           Bad == {k \in 0..Rounds : ~Good(k)}
<1>1. Rounds \in Nat
  BY KnockoutAssumption
<1>2. Good(0)
  <2>1. Upto(0) = {}
    BY BracketAssumption
  <2> DEFINE f == [m \in Upto(0) |-> FirstLineup[m]]
  <2>2. f = [m \in Upto(0) |-> Entrants(f, win, known, m)]
    BY <2>1
  <2> QED
    BY <2>2
<1>3. ASSUME NEW k \in 1..Rounds, Good(k - 1) PROVE Good(k)
  <2>1. PICK f : f = [m \in Upto(k - 1) |-> Entrants(f, win, known, m)]
    BY <1>3
  <2> DEFINE g == [m \in Upto(k) |-> Entrants(f, win, known, m)]
  <2>2. Upto(k - 1) \subseteq Upto(k)
    BY BracketAssumption, KnockoutAssumption
  <2>3. \A m \in Upto(k - 1) : g[m] = f[m]
    BY <2>1, <2>2
  <2>4. ASSUME NEW m \in Upto(k) PROVE Entrants(f, win, known, m) = Entrants(g, win, known, m)
    <3>1. CASE Source[m] = <<>>
      BY <3>1 DEF Entrants
    <3>2. CASE Source[m] # <<>>
      <4>1. \A i \in 1..2 : Source[m][i] \in Upto(k - 1)
        BY <3>2, <1>1, Sources, BracketAssumption
      <4> HIDE DEF g, Upto
      <4>2. \A i \in 1..2 : f[Source[m][i]] = g[Source[m][i]]
        BY <2>3, <4>1
      <4> QED
        BY <3>2, <4>2 DEF Entrants
    <3> QED
      BY <3>1, <3>2
  <2>5. g = [m \in Upto(k) |-> Entrants(g, win, known, m)]
    <3>1. \A h : h = [m \in Upto(k) |-> Entrants(f, win, known, m)]
                 /\ (\A m \in Upto(k) : Entrants(f, win, known, m) = Entrants(h, win, known, m))
                 => h = [m \in Upto(k) |-> Entrants(h, win, known, m)]
      <4> HIDE DEF Upto
      <4> QED
        BY DEF Upto
    <3> QED
      BY <2>4, <3>1
  <2> HIDE DEF g
  <2> QED
    BY <2>5
<1>4. Bad = {}
  <2> SUFFICES ASSUME Bad # {} PROVE FALSE
    OBVIOUS
  <2>1. Bad \in SUBSET (0..Rounds)
    OBVIOUS
  <2>2. PICK k \in Bad : \A j \in Bad : k <= j
    <3> HIDE DEF Bad
    <3> QED
      BY <1>1, <2>1, LeastIn
  <2> HIDE DEF Good
  <2>3. k # 0 /\ k \in 0..Rounds /\ ~Good(k)
    BY <1>2
  <2>4. k \in 1..Rounds /\ k - 1 \in 0..Rounds /\ ~(k <= k - 1)
    BY <1>1, <2>3
  <2>5. Good(k - 1)
    BY <2>2, <2>4
  <2> QED
    BY <1>3, <2>3, <2>4, <2>5
<1>5. Good(Rounds)
  <2> HIDE DEF Good
  <2> QED
    BY <1>1, <1>4
<1>6. Upto(Rounds) = Matches
  BY BracketAssumption, KnockoutAssumption
<1> QED
  BY <1>5, <1>6

\* The line-ups of the pitch obey their definition.
LEMMA LineupInHolds ==
    ASSUME NEW t \in Truths, NEW m \in Matches
    PROVE  LineupIn[t][m] =
              IF Source[m] = <<>> THEN FirstLineup[m]
              ELSE [i \in 1..2 |-> LineupIn[t][Source[m][i]][t[Source[m][i]]]]
<1> DEFINE Is(h) == h = [n \in Matches |->
                            IF Source[n] = <<>> THEN FirstLineup[n]
                            ELSE [i \in 1..2 |-> h[Source[n][i]][t[Source[n][i]]]]]
<1>1. PICK f : f = [n \in Matches |-> Entrants(f, t, t, n)]
  BY LineupExists
<1>2. ASSUME NEW n \in Matches
      PROVE  Entrants(f, t, t, n) = IF Source[n] = <<>> THEN FirstLineup[n]
                                    ELSE [i \in 1..2 |-> f[Source[n][i]][t[Source[n][i]]]]
  <2>1. CASE Source[n] = <<>>
    BY <2>1 DEF Entrants
  <2>2. CASE Source[n] # <<>>
    <3>1. \A i \in 1..2 : t[Source[n][i]] # 0
      <4>1. t \in [Matches -> 1..2]
        BY KnockoutAssumption
      <4> QED
        BY <2>2, <4>1, Sources
    <3> QED
      BY <2>2, <3>1 DEF Entrants
  <2> QED
    BY <2>1, <2>2
<1>3. Is(f)
  BY <1>1, <1>2
<1>4. LineupIn[t] = CHOOSE h : Is(h)
  BY Zenon DEF LineupIn
<1>5. Is(LineupIn[t])
  <2> HIDE DEF Is
  <2> QED
    BY <1>3, <1>4, Zenon
<1> QED
  BY <1>5

\* The line-ups that the resolver shows obey theirs.
LEMMA LineupHolds ==
    ASSUME NEW m \in Matches
    PROVE  Lineup[m] =
              IF Source[m] = <<>> THEN FirstLineup[m]
              ELSE [i \in 1..2 |-> IF Source[m][i] \in Recorded
                                   THEN Lineup[Source[m][i]][score[Source[m][i]]]
                                   ELSE names[m][i]]
<1> DEFINE win == [n \in Matches |-> IF n \in Recorded THEN score[n] ELSE 0]
           Is(h) == h = [n \in Matches |->
                            IF Source[n] = <<>> THEN FirstLineup[n]
                            ELSE [i \in 1..2 |->
                                    LET s == Source[n][i]
                                    IN  IF s \in Recorded THEN h[s][score[s]]
                                        ELSE names[n][i]]]
<1>1. PICK f : f = [n \in Matches |-> Entrants(f, win, names, n)]
  BY LineupExists
<1>2. ASSUME NEW n \in Matches
      PROVE  Entrants(f, win, names, n) =
                IF Source[n] = <<>> THEN FirstLineup[n]
                ELSE [i \in 1..2 |->
                        LET s == Source[n][i]
                        IN  IF s \in Recorded THEN f[s][score[s]] ELSE names[n][i]]
  <2>1. CASE Source[n] = <<>>
    BY <2>1 DEF Entrants
  <2>2. CASE Source[n] # <<>>
    <3>1. \A i \in 1..2 : LET s == Source[n][i] IN
              /\ s \in Recorded => win[s] = score[s] /\ win[s] # 0
              /\ s \notin Recorded => win[s] = 0
      <4>1. \A i \in 1..2 : Source[n][i] \in Matches
        BY <2>2, Sources
      <4> QED
        BY <4>1 DEF Recorded
    <3> HIDE DEF win
    <3> QED
      BY <2>2, <3>1 DEF Entrants
  <2> QED
    BY <2>1, <2>2
<1>3. Is(f)
  BY <1>1, <1>2
<1>4. Lineup = CHOOSE h : Is(h)
  BY Zenon DEF Lineup
<1>5. Is(Lineup)
  <2> HIDE DEF Is
  <2> QED
    BY <1>3, <1>4, Zenon
<1> QED
  BY <1>5

\* Matches are played in order: a match with a score, or with the names of its teams, has the
\* scores of its sources; and what is over has a score.
PlayInOrder ==
    /\ \A m \in finished : score[m] # 0
    /\ \A m \in Matches : score[m] # 0 \/ names[m] # Slot[m] => Played(m)

\* A line-up of the pitch names teams, and a later one the winners of the sources.
LEMMA TrueLineupFacts ==
    ASSUME KnockoutTypeOK, NEW m \in Matches
    PROVE  /\ Source[m] = <<>> => TrueLineup(m) = FirstLineup[m]
           /\ Source[m] # <<>> =>
                 \A i \in 1..2 : TrueLineup(m)[i] = TrueLineup(Source[m][i])[truth[Source[m][i]]]
<1>1. truth \in Truths
  BY DEF KnockoutTypeOK
<1>2. TrueLineup(m) = IF Source[m] = <<>> THEN FirstLineup[m]
                      ELSE [i \in 1..2 |-> LineupIn[truth][Source[m][i]][truth[Source[m][i]]]]
  BY <1>1, LineupInHolds, Zenon DEF TrueLineup
<1>3. \A n : TrueLineup(n) = LineupIn[truth][n]
  BY DEF TrueLineup
<1> HIDE DEF TrueLineup
<1> QED
  BY <1>2, <1>3

\* Who plays on the pitch is one of the teams of the first round.
LEMMA TrueLineupNamesTeams ==
    ASSUME KnockoutTypeOK
    PROVE  \A m \in Matches : \A i \in 1..2 : TrueLineup(m)[i] \in Teams
<1> DEFINE Bad == {m \in Matches : \E i \in 1..2 : TrueLineup(m)[i] \notin Teams}
<1>0. truth \in [Matches -> 1..2]
  BY KnockoutAssumption DEF KnockoutTypeOK
<1>1. Bad = {}
  <2> SUFFICES ASSUME Bad # {} PROVE FALSE
    OBVIOUS
  <2>1. PICK m \in Bad : \A n \in Bad : Round[m] <= Round[n]
    <3>1. Bad \in SUBSET Matches
      OBVIOUS
    <3> HIDE DEF Bad
    <3> QED
      BY <3>1, EarliestOf
  <2>2. PICK i \in 1..2 : TrueLineup(m)[i] \notin Teams
    OBVIOUS
  <2> HIDE DEF TrueLineup
  <2>3. CASE Source[m] = <<>>
    <3>1. TrueLineup(m) = FirstLineup[m] /\ m \in DOMAIN FirstLineup
      BY <2>3, TrueLineupFacts, KnockoutAssumption
    <3>2. FirstLineup[m][1] \in Teams /\ FirstLineup[m][2] \in Teams
      BY <3>1 DEF Teams
    <3>3. i = 1 \/ i = 2
      OBVIOUS
    <3> QED
      BY <2>2, <3>1, <3>2, <3>3
  <2>4. CASE Source[m] # <<>>
    <3> DEFINE s == Source[m][i]
    <3>1. s \in Matches /\ Round[s] < Round[m] /\ truth[s] \in 1..2
      BY <1>0, <2>4, Sources
    <3>2. ~(Round[m] <= Round[s])
      BY <3>1, BracketAssumption, KnockoutAssumption
    <3>3. s \notin Bad
      BY <2>1, <3>2
    <3>4. TrueLineup(m)[i] = TrueLineup(s)[truth[s]]
      BY <2>4, TrueLineupFacts
    <3> QED
      BY <2>2, <3>1, <3>3, <3>4
  <2> QED
    BY <2>3, <2>4
<1> QED
  BY <1>1

\* A team is credited with a place only if it is its own.
LEMMA CreditedIsTrue ==
    ASSUME KnockoutTypeOK, NamesAreDrawn, NEW m \in Matches, NEW i \in 1..2,
           Credited(m)[i] \in Teams
    PROVE  /\ Credited(m) = TrueLineup(m)
           /\ Source[m] # <<>> => names[m] # Slot[m]
<1>1. CASE Source[m] = <<>>
  BY <1>1, TrueLineupFacts DEF Credited
<1>2. CASE Source[m] # <<>>
  <2>1. Credited(m) = names[m] /\ names[m] \in {Slot[m], TrueLineup(m)}
    BY <1>2 DEF Credited, NamesAreDrawn
  <2>2. names[m] # Slot[m]
    BY <2>1, KnockoutAssumption
  <2> QED
    BY <2>1, <2>2
<1> QED
  BY <1>1, <1>2

\* What a team has truly reached: the first round, and one more for every match it has won.
Deserts(t) == {1} \cup {Round[m] + 1 : m \in {n \in Over : TrueLineup(n)[truth[n]] = t}}

\* The furthest of its deserts is where a team truly is.
LEMMA ReachedTruly ==
    ASSUME NEW t
    PROVE  /\ TrulyReached(t, Won) = Max(Deserts(t))
           /\ TrulyReached(t, Won) \in Deserts(t) /\ TrulyReached(t, Won) \in 1..(Rounds + 1)
           /\ \A k \in Deserts(t) : k \in 1..(Rounds + 1) /\ k <= TrulyReached(t, Won)
<1>1. Deserts(t) = {1} \cup {w[2] + 1 : w \in {w \in Won : w[1] = t}}
  <2>1. ASSUME NEW m \in Over, TrueLineup(m)[truth[m]] = t
        PROVE  Round[m] + 1 \in {w[2] + 1 : w \in {w \in Won : w[1] = t}}
    <3> DEFINE w == <<TrueLineup(m)[truth[m]], Round[m]>>
    <3>1. w \in Won /\ w[1] = t /\ w[2] = Round[m]
      BY <2>1 DEF Won
    <3> HIDE DEF w
    <3> QED
      BY <3>1
  <2>2. ASSUME NEW w \in Won, w[1] = t
        PROVE  w[2] + 1 \in Deserts(t)
    <3>1. PICK m \in Over : w = <<TrueLineup(m)[truth[m]], Round[m]>>
      BY DEF Won
    <3> QED
      BY <2>2, <3>1 DEF Deserts
  <2> HIDE DEF Won, TrueLineup
  <2> QED
    BY <2>1, <2>2 DEF Deserts
<1>2. Deserts(t) \subseteq 1..(Rounds + 1)
  BY BracketAssumption, KnockoutAssumption DEF Deserts, Over
<1>3. IsFiniteSet(1..(Rounds + 1))
  BY KnockoutAssumption, FS_Interval
<1>4. IsFiniteSet(Deserts(t))
  BY ONLY <1>2, <1>3, FS_Subset
<1>5. Deserts(t) \subseteq Int
  BY <1>2, KnockoutAssumption
<1>6. Deserts(t) # {}
  BY DEF Deserts
<1>7. Max(Deserts(t)) \in Deserts(t) /\ \A k \in Deserts(t) : k <= Max(Deserts(t))
  BY ONLY <1>4, <1>5, <1>6, GreatestOf
<1>8. TrulyReached(t, Won) = Max(Deserts(t))
  BY <1>1, Zenon DEF TrulyReached
<1> QED
  BY <1>2, <1>7, <1>8

\* While the results on record are right, every credit is for a place or a win of the team's
\* own, and with all of them on record none is missing.
LEMMA CreditsTrue ==
    ASSUME KnockoutTypeOK, NamesAreDrawn, PlayInOrder, Clean
    PROVE  \A t \in Teams :
              /\ Reached(t, Matches) <= TrulyReached(t, Won)
              /\ Settled => Reached(t, Matches) = TrulyReached(t, Won)
<1> SUFFICES ASSUME NEW t \in Teams
             PROVE  /\ Reached(t, Matches) <= TrulyReached(t, Won)
                    /\ Settled => Reached(t, Matches) = TrulyReached(t, Won)
  OBVIOUS
<1>0. /\ truth \in [Matches -> 1..2] /\ score \in [Matches -> 0..2]
      /\ \A m \in Recorded : m \in Matches /\ m \in Over /\ score[m] = truth[m]
  BY KnockoutAssumption DEF KnockoutTypeOK, Clean, Recorded, Over
<1>1. \A k \in Marks(t, Matches) : k = 0 \/ k \in Deserts(t)
  <2> SUFFICES ASSUME NEW k \in Marks(t, Matches), k # 0 PROVE k \in Deserts(t)
    OBVIOUS
  <2>1. CASE \E m \in Matches : t \in {Credited(m)[1], Credited(m)[2]} /\ k = Round[m]
    <3>1. PICK m \in Matches : t \in {Credited(m)[1], Credited(m)[2]} /\ k = Round[m]
      BY <2>1
    <3>2. PICK i \in 1..2 : Credited(m)[i] = t
      BY <3>1
    <3>3. Credited(m) = TrueLineup(m) /\ (Source[m] # <<>> => names[m] # Slot[m])
      BY <3>2, CreditedIsTrue
    <3>4. CASE Source[m] = <<>>
      BY <3>1, <3>4, BracketAssumption DEF Deserts
    <3>5. CASE Source[m] # <<>>
      <4> DEFINE s == Source[m][i]
      <4>1. s \in Matches /\ Round[s] = Round[m] - 1 /\ DOMAIN Source[m] = 1..2
        BY <3>5, Sources
      <4>2. score[s] # 0
        BY <3>3, <3>5, <4>1 DEF PlayInOrder, Played
      <4>3. TrueLineup(s)[truth[s]] = t
        BY <3>2, <3>3, <3>5, TrueLineupFacts
      <4>4. s \in Over /\ Round[s] + 1 = k
        BY <3>1, <4>1, <4>2, BracketAssumption, KnockoutAssumption DEF Over
      <4> HIDE DEF s, TrueLineup
      <4> QED
        BY <4>3, <4>4 DEF Deserts
    <3> QED
      BY <3>4, <3>5
  <2>2. CASE \E m \in Matches \cap Recorded : Credited(m)[score[m]] = t /\ k = Round[m] + 1
    <3>1. PICK m \in Matches \cap Recorded : Credited(m)[score[m]] = t /\ k = Round[m] + 1
      BY <2>2
    <3>2. m \in Over /\ score[m] = truth[m] /\ truth[m] \in 1..2
      BY <1>0
    <3>3. Credited(m) = TrueLineup(m)
      BY <3>1, <3>2, CreditedIsTrue
    <3> HIDE DEF TrueLineup, Credited
    <3> QED
      BY <3>1, <3>2, <3>3 DEF Deserts
  <2> QED
    BY <2>1, <2>2 DEF Marks
<1>2. /\ Reached(t, Matches) \in 0..(Rounds + 1) /\ Reached(t, Matches) \in Marks(t, Matches)
      /\ \A k \in Marks(t, Matches) : k <= Reached(t, Matches)
  BY ReachedIsBest
<1>3. /\ TrulyReached(t, Won) \in Deserts(t) /\ TrulyReached(t, Won) \in 1..(Rounds + 1)
      /\ \A k \in Deserts(t) : k \in 1..(Rounds + 1) /\ k <= TrulyReached(t, Won)
  BY ReachedTruly
<1>4. ASSUME Settled PROVE \A k \in Deserts(t) : k \in Marks(t, Matches)
  <2>1. 1 \in Marks(t, Matches)
    <3>1. PICK m \in DOMAIN FirstLineup : t \in {FirstLineup[m][1], FirstLineup[m][2]}
      BY DEF Teams
    <3>2. m \in Matches /\ Round[m] = 1 /\ Credited(m) = FirstLineup[m]
      BY BracketAssumption, KnockoutAssumption DEF Credited
    <3> HIDE DEF Credited
    <3> QED
      BY <3>1, <3>2 DEF Marks
  <2>2. ASSUME NEW m \in Over, TrueLineup(m)[truth[m]] = t
        PROVE  Round[m] + 1 \in Marks(t, Matches)
    <3>1. m \in Recorded /\ m \in Matches /\ score[m] = truth[m]
      BY <1>0, <1>4 DEF Settled, Recorded, Over
    <3>2. Credited(m) = TrueLineup(m)
      <4>1. CASE Source[m] = <<>>
        BY <3>1, <4>1, TrueLineupFacts DEF Credited
      <4>2. CASE Source[m] # <<>>
        BY <1>4, <3>1, <4>2 DEF Settled, NamesAreDrawn, Credited
      <4> QED
        BY <4>1, <4>2
    <3> HIDE DEF Credited, TrueLineup
    <3> QED
      BY <2>2, <3>1, <3>2 DEF Marks
  <2> HIDE DEF TrueLineup
  <2> QED
    BY <2>1, <2>2 DEF Deserts
<1> HIDE DEF Reached, TrulyReached, Marks, Deserts, Won
<1>5. Reached(t, Matches) <= TrulyReached(t, Won)
  BY <1>1, <1>2, <1>3, KnockoutAssumption
<1>6. ASSUME Settled PROVE TrulyReached(t, Won) <= Reached(t, Matches)
  BY <1>2, <1>3, <1>4, <1>6
<1> QED
  BY <1>2, <1>3, <1>5, <1>6, KnockoutAssumption

\* Whatever the order of the rows, the credits are due.
LEMMA CreditsAreDueThen ==
    ASSUME KnockoutTypeOK, NamesAreDrawn, PlayInOrder
    PROVE  CreditsAreDue
<1> SUFFICES ASSUME Clean, NEW t \in Teams, NEW late \in RowOrders
             PROVE  /\ Credit(t, late) <= TrulyReached(t, Won)
                    /\ Settled /\ ~Champion(t) => Credit(t, late) = TrulyReached(t, Won)
  BY Zenon DEF CreditsAreDue
<1>1. /\ Reached(t, Matches) <= TrulyReached(t, Won)
      /\ Settled => Reached(t, Matches) = TrulyReached(t, Won)
  BY CreditsTrue
<1>2. /\ Credit(t, late) \in 0..(Rounds + 1)
      /\ Credit(t, late) <= Reached(t, Matches)
      /\ ~Champion(t) => Credit(t, late) = Reached(t, Matches)
  BY CreditWithinReach
<1>3. Reached(t, Matches) \in 0..(Rounds + 1) /\ TrulyReached(t, Won) \in 1..(Rounds + 1)
  BY ReachedIsBest, ReachedTruly
<1> HIDE DEF Credit, Reached, TrulyReached, Won, Champion, Settled
<1> QED
  BY <1>1, <1>2, <1>3, KnockoutAssumption

\* The resolver shows teams where they are, slots elsewhere, and with the results of every
\* match before it a line-up of teams.
LEMMA LineupIsTrue ==
    ASSUME KnockoutTypeOK, NamesAreDrawn, PlayInOrder, Clean
    PROVE  \A m \in Matches : \A i \in 1..2 :
              /\ Lineup[m][i] \in Teams => Lineup[m][i] = TrueLineup(m)[i]
              /\ Over \subseteq finished /\ m \in Over => Lineup[m][i] = TrueLineup(m)[i]
<1> DEFINE Right1(m, i) == Lineup[m][i] \in Teams => Lineup[m][i] = TrueLineup(m)[i]
           Right2(m, i) == Over \subseteq finished /\ m \in Over => Lineup[m][i] = TrueLineup(m)[i]
           Bad == {m \in Matches : \E i \in 1..2 : ~Right1(m, i) \/ ~Right2(m, i)}
<1>0. /\ truth \in [Matches -> 1..2] /\ score \in [Matches -> 0..2]
      /\ \A m \in Recorded : m \in Matches /\ m \in Over /\ score[m] = truth[m]
  BY KnockoutAssumption DEF KnockoutTypeOK, Clean, Recorded, Over
<1>1. Bad = {}
  <2> SUFFICES ASSUME Bad # {} PROVE FALSE
    OBVIOUS
  <2>1. PICK m \in Bad : \A n \in Bad : Round[m] <= Round[n]
    <3>1. Bad \in SUBSET Matches
      OBVIOUS
    <3> HIDE DEF Bad
    <3> QED
      BY <3>1, EarliestOf
  <2>2. PICK i \in 1..2 : ~Right1(m, i) \/ ~Right2(m, i)
    OBVIOUS
  <2>3. m \in Matches
    OBVIOUS
  <2> HIDE DEF TrueLineup, Lineup
  <2>4. CASE Source[m] = <<>>
    <3>1. Lineup[m] = FirstLineup[m] /\ TrueLineup(m) = FirstLineup[m]
      BY <2>3, <2>4, LineupHolds, TrueLineupFacts
    <3> QED
      BY <2>2, <3>1
  <2>5. CASE Source[m] # <<>>
    <3> DEFINE s == Source[m][i]
    <3>1. s \in Matches /\ Round[s] < Round[m] /\ truth[s] \in 1..2 /\ DOMAIN Source[m] = 1..2
      BY <1>0, <2>5, Sources
    <3> HIDE DEF Bad, Right1, Right2
    <3>2. s \notin Bad
      <4>1. ~(Round[m] <= Round[s])
        BY <2>3, <3>1, BracketAssumption, KnockoutAssumption
      <4> QED
        BY <2>1, <4>1
    <3>3. TrueLineup(m)[i] = TrueLineup(s)[truth[s]]
      BY <2>3, <2>5, TrueLineupFacts
    <3>4. Lineup[m][i] = IF s \in Recorded THEN Lineup[s][score[s]] ELSE names[m][i]
      BY <2>3, <2>5, LineupHolds
    <3>5. Right1(s, truth[s]) /\ Right2(s, truth[s])
      BY <3>1, <3>2 DEF Bad
    <3> USE DEF Right1, Right2
    <3>6. CASE s \in Recorded
      <4>1. score[s] = truth[s] /\ s \in Over
        BY <1>0, <3>6
      <4>2. Lineup[m][i] = Lineup[s][truth[s]]
        BY <3>4, <3>6, <4>1
      <4>3. Right1(m, i) /\ Right2(m, i)
        BY <3>3, <3>5, <4>1, <4>2
      <4> QED
        BY <2>2, <4>3
    <3>7. CASE s \notin Recorded
      <4>1. Lineup[m][i] = names[m][i] /\ names[m] \in {Slot[m], TrueLineup(m)}
        BY <2>3, <3>4, <3>7 DEF NamesAreDrawn
      <4>2. Slot[m][i] \notin Teams
        BY <2>3, KnockoutAssumption
      <4>3. Right1(m, i)
        BY <4>1, <4>2
      <4>4. ASSUME Over \subseteq finished, m \in Over PROVE FALSE
        <5>1. score[s] # 0
          BY <2>3, <3>1, <4>4 DEF Over, PlayInOrder, Played
        <5> QED
          BY <3>1, <3>7, <4>4, <5>1 DEF Over, Recorded
      <4> QED
        BY <2>2, <4>3, <4>4
    <3> QED
      BY <3>6, <3>7
  <2> QED
    BY <2>4, <2>5
<1>2. \A m \in Matches : \A i \in 1..2 : Right1(m, i) /\ Right2(m, i)
  <2> HIDE DEF Right1, Right2
  <2> QED
    BY <1>1
<1> QED
  BY <1>2

\* So the losers, and nobody else, are out.
LEMMA LosersAreOutThen ==
    ASSUME KnockoutTypeOK, NamesAreDrawn, PlayInOrder
    PROVE  LosersAreOut
<1> SUFFICES ASSUME Clean
             PROVE  LET losers == {TrueLineup(m)[3 - truth[m]] : m \in Recorded} IN
                    /\ Eliminated \cap Teams \subseteq losers
                    /\ Over \subseteq finished => Eliminated = losers
  BY DEF LosersAreOut
<1>1. \A m \in Recorded : m \in Matches /\ m \in Over /\ score[m] = truth[m]
                             /\ 3 - score[m] \in 1..2
  BY KnockoutAssumption DEF KnockoutTypeOK, Clean, Recorded, Over
<1>2. \A m \in Matches : \A i \in 1..2 :
         /\ Lineup[m][i] \in Teams => Lineup[m][i] = TrueLineup(m)[i]
         /\ Over \subseteq finished /\ m \in Over => Lineup[m][i] = TrueLineup(m)[i]
  BY LineupIsTrue
<1> HIDE DEF Lineup, TrueLineup, Recorded
<1>3. \A m \in Recorded :
         /\ Lineup[m][3 - score[m]] \in Teams =>
               Lineup[m][3 - score[m]] = TrueLineup(m)[3 - truth[m]]
         /\ Over \subseteq finished => Lineup[m][3 - score[m]] = TrueLineup(m)[3 - truth[m]]
  BY <1>1, <1>2
<1> QED
  BY <1>3 DEF Eliminated

\* When the tournament is over and named, a team that is not the champion has played in every
\* round it earned and in no other.
LEMMA ProgressIsTrue ==
    ASSUME KnockoutTypeOK, NamesAreDrawn, PlayInOrder, Clean, finished = Matches,
           \A m \in Matches : names[m] # Slot[m]
    PROVE  Progress = [t \in Teams |-> TrulyReached(t, Won)]
<1>1. /\ truth \in [Matches -> 1..2]
      /\ \A m \in Matches : names[m] = TrueLineup(m)
      /\ \A m \in Matches : m \in Recorded /\ m \in Over /\ score[m] = truth[m]
  <2>1. Recorded = Matches /\ Over = Matches
    BY DEF PlayInOrder, Recorded, Over
  <2>2. \A m \in Matches : score[m] = truth[m]
    BY <2>1 DEF Clean
  <2> QED
    BY <2>1, <2>2, KnockoutAssumption DEF KnockoutTypeOK, NamesAreDrawn
<1>2. Playing = Teams
  <2> HIDE DEF TrueLineup
  <2>1. \A m \in Matches : names[m][1] \in Teams /\ names[m][2] \in Teams
    BY <1>1, TrueLineupNamesTeams
  <2>2. \A m \in DOMAIN FirstLineup : m \in finished /\ names[m] = FirstLineup[m]
    BY <1>1, TrueLineupFacts, KnockoutAssumption
  <2>3. Playing \subseteq Teams
    BY <2>1 DEF Playing
  <2>4. Teams \subseteq Playing
    BY <2>2 DEF Teams, Playing
  <2> QED
    BY <2>3, <2>4
<1>3. FinalMatch \in Matches /\ Round[FinalMatch] = Rounds
      /\ \A m \in Matches : Round[m] = Rounds => m = FinalMatch
  <2> DEFINE F == {m \in Matches : Round[m] = Rounds}
  <2>1. IsFiniteSet(F) /\ Cardinality(F) = 1
    BY BracketAssumption, KnockoutAssumption, FS_Subset
  <2>2. PICK x : F = {x}
    BY <2>1, FS_Singleton
  <2>3. x \in Matches /\ Round[x] = Rounds /\ \A m \in Matches : Round[m] = Rounds => m = x
    BY <2>2
  <2> QED
    BY <2>3 DEF FinalMatch
<1>4. ASSUME NEW t \in Teams
      PROVE  TrulyReached(t, Won) =
                IF FinalMatch \in Recorded /\ names[FinalMatch][score[FinalMatch]] = t
                THEN Rounds + 1
                ELSE Max({Round[m] : m \in {n \in finished : t \in {names[n][1], names[n][2]}}})
  <2>1. /\ TrulyReached(t, Won) = Max(Deserts(t))
        /\ TrulyReached(t, Won) \in 1..(Rounds + 1)
        /\ \A k \in Deserts(t) : k <= TrulyReached(t, Won)
    BY ReachedTruly
  <2> HIDE DEF TrulyReached, Won, TrueLineup
  <2>2. CASE TrueLineup(FinalMatch)[truth[FinalMatch]] = t
    <3>1. Rounds + 1 \in Deserts(t)
      BY <1>1, <1>3, <2>2 DEF Deserts
    <3>2. TrulyReached(t, Won) = Rounds + 1
      BY <2>1, <3>1, KnockoutAssumption
    <3> QED
      BY <1>1, <1>3, <2>2, <3>2
  <2>3. CASE TrueLineup(FinalMatch)[truth[FinalMatch]] # t
    <3> DEFINE P == {Round[m] : m \in {n \in finished : t \in {names[n][1], names[n][2]}}}
    <3>1. ASSUME NEW k \in Deserts(t) PROVE k \in P
      <4>1. CASE k = 1
        <5>1. PICK m \in DOMAIN FirstLineup : t \in {FirstLineup[m][1], FirstLineup[m][2]}
          BY DEF Teams
        <5>2. m \in Matches /\ Round[m] = 1 /\ names[m] = FirstLineup[m]
          BY <1>1, TrueLineupFacts, BracketAssumption, KnockoutAssumption
        <5> QED
          BY <4>1, <5>1, <5>2
      <4>2. CASE k # 1
        <5>1. PICK m \in Over : TrueLineup(m)[truth[m]] = t /\ k = Round[m] + 1
          BY <4>2 DEF Deserts
        <5>2. m \in Matches /\ Round[m] < Rounds
          BY <1>3, <2>3, <5>1, BracketAssumption, KnockoutAssumption DEF Over
        <5>3. PICK n \in Matches : \E i \in 1..2 : Source[n] # <<>> /\ Source[n][i] = m
          BY <5>2, BracketAssumption
        <5>4. PICK i \in 1..2 : Source[n] # <<>> /\ Source[n][i] = m
          BY <5>3
        <5>5. TrueLineup(n)[i] = t
          BY <5>1, <5>4, TrueLineupFacts
        <5>6. Round[n] = k
          <6>1. Round[m] = Round[n] - 1
            BY <5>4, Sources
          <6> QED
            BY <5>1, <5>2, <6>1, BracketAssumption, KnockoutAssumption
        <5>7. n \in finished /\ t \in {names[n][1], names[n][2]}
          BY <1>1, <5>5
        <5> QED
          BY <5>6, <5>7
      <4> QED
        BY <4>1, <4>2
    <3>2. ASSUME NEW k \in P PROVE k \in Deserts(t)
      <4>1. PICK n \in Matches : t \in {names[n][1], names[n][2]} /\ k = Round[n]
        OBVIOUS
      <4>2. PICK i \in 1..2 : TrueLineup(n)[i] = t
        BY <1>1, <4>1
      <4>3. CASE Source[n] = <<>>
        BY <4>1, <4>3, BracketAssumption DEF Deserts
      <4>4. CASE Source[n] # <<>>
        <5> DEFINE s == Source[n][i]
        <5>1. s \in Matches /\ Round[s] = Round[n] - 1
          BY <4>4, Sources
        <5>2. TrueLineup(s)[truth[s]] = t
          BY <4>2, <4>4, TrueLineupFacts
        <5>3. Round[s] + 1 = k
          BY <4>1, <5>1, BracketAssumption, KnockoutAssumption
        <5> HIDE DEF s
        <5> QED
          BY <1>1, <5>1, <5>2, <5>3 DEF Deserts
      <4> QED
        BY <4>3, <4>4
    <3> HIDE DEF P
    <3>3. P = Deserts(t)
      BY <3>1, <3>2
    <3>4. names[FinalMatch][score[FinalMatch]] # t
      BY <1>1, <1>3, <2>3
    <3> QED
      BY <2>1, <3>3, <3>4 DEF P
  <2> QED
    BY <2>2, <2>3
<1> HIDE DEF TrulyReached, Won
<1> QED
  BY <1>2, <1>4 DEF Progress

\* So the suggestions are what happened.
LEMMA SuggestionsSettleThen ==
    ASSUME KnockoutTypeOK, NamesAreDrawn, PlayInOrder
    PROVE  SuggestionsSettle
<1> DEFINE reached == [t \in Teams |-> TrulyReached(t, Won)]
           outsiders == Teams \ TopTeams
<1> SUFFICES ASSUME Clean, finished = Matches, \A m \in Matches : names[m] # Slot[m]
             PROVE  /\ DarkHorse = {t \in outsiders :
                                       \A u \in outsiders : reached[u] <= reached[t]}
                    /\ \A t \in Bottlers, u \in TopTeams \cap Teams : reached[t] <= reached[u]
  BY DEF SuggestionsSettle
<1>1. Progress = reached
  BY ProgressIsTrue
<1>2. \A t \in Teams : reached[t] \in 1..(Rounds + 1)
  BY ReachedTruly
<1>3. DOMAIN reached = Teams
  OBVIOUS
<1> HIDE DEF reached
<1>4. DarkHorse = {t \in outsiders : \A u \in outsiders : reached[u] <= reached[t]}
  BY <1>1, <1>3 DEF DarkHorse, Furthest
<1>5. ASSUME NEW t \in Bottlers, NEW u \in TopTeams \cap Teams PROVE reached[t] <= reached[u]
  <2>1. t \in TopTeams \cap Teams
        /\ \A v \in TopTeams \cap Teams :
              reached[v] # Rounds + 1 => reached[t] <= reached[v]
    BY <1>1, <1>3 DEF Bottlers
  <2>2. CASE reached[u] = Rounds + 1
    BY <1>2, <2>1, <2>2, KnockoutAssumption
  <2>3. CASE reached[u] # Rounds + 1
    BY <2>1, <2>3
  <2> QED
    BY <2>2, <2>3
<1> QED
  BY <1>4, <1>5

\* The order of play is there from the start, and no step loses it: what is taken back is a
\* status or a side, never a score.
LEMMA PlayInOrderStart == KnockoutInit => PlayInOrder
<1> SUFFICES ASSUME KnockoutInit PROVE PlayInOrder
  OBVIOUS
<1>1. truth \in [Matches -> 1..2] /\ Over0 \cup Named0 \subseteq Matches
  BY KnockoutAssumption DEF KnockoutInit
<1>2. \A m \in Matches : score[m] = IF m \in Over0 THEN truth[m] ELSE 0
  BY DEF KnockoutInit
<1>3. \A m \in Matches : score[m] # 0 \/ names[m] # Slot[m] => m \in Over0 \cup Named0
  BY <1>2 DEF KnockoutInit
<1>4. \A m \in Over0 : score[m] # 0
  BY <1>1, <1>2
<1>5. \A m \in Over0 \cup Named0 : Played(m)
  BY <1>4, KnockoutAssumption DEF Played
<1> QED
  BY <1>3, <1>4, <1>5 DEF PlayInOrder, KnockoutInit

\* No action of the model undoes it.
LEMMA PlayInOrderStep ==
    KnockoutTypeOK /\ PlayInOrder /\ [KnockoutNext]_knockoutVars => PlayInOrder'
<1> SUFFICES ASSUME KnockoutTypeOK, PlayInOrder, [KnockoutNext]_knockoutVars
             PROVE  PlayInOrder'
  OBVIOUS
<1>1. /\ truth \in [Matches -> 1..2] /\ score \in [Matches -> 0..2]
      /\ \A m \in Matches : Played(m) <=> \A i \in DOMAIN Source[m] :
                                              Source[m][i] \in Matches /\ score[Source[m][i]] # 0
  <2>1. \A m \in Matches : \A i \in DOMAIN Source[m] : Source[m][i] \in Matches
    <3> SUFFICES ASSUME NEW m \in Matches, NEW i \in DOMAIN Source[m]
                 PROVE  Source[m][i] \in Matches
      OBVIOUS
    <3>1. CASE Source[m] = <<>>
      BY <3>1
    <3>2. CASE Source[m] # <<>>
      BY <3>2, Sources
    <3> QED
      BY <3>1, <3>2
  <2> QED
    BY <2>1, KnockoutAssumption DEF KnockoutTypeOK, Played
<1>2. ASSUME UNCHANGED <<finished, score, names>> PROVE PlayInOrder'
  BY <1>2 DEF PlayInOrder, Played
<1>3. ASSUME NEW m \in Matches, Played(m), NEW side \in 1..2,
             score' = [score EXCEPT ![m] = side], finished' = finished \cup {m}, names' = names
      PROVE  PlayInOrder'
  <2>1. \A n \in Matches : score[n] # 0 => score'[n] # 0
    BY <1>1, <1>3
  <2>2. \A n \in Matches : Played(n) => Played(n)'
    BY <1>1, <2>1 DEF Played
  <2>3. \A n \in Matches : score'[n] # 0 => n = m \/ score[n] # 0
    BY <1>1, <1>3
  <2>4. score'[m] # 0 /\ finished \subseteq Matches
    BY <1>1, <1>3 DEF KnockoutTypeOK
  <2> QED
    BY <1>3, <2>1, <2>2, <2>3, <2>4 DEF PlayInOrder
<1>4. ASSUME NEW m \in Matches, Final(m) PROVE PlayInOrder'
  BY <1>1, <1>3, <1>4 DEF Final
<1>5. ASSUME NEW m \in Matches, Mistype(m) PROVE PlayInOrder'
  <2>1. 3 - truth[m] \in 1..2
    BY <1>1
  <2> QED
    BY <1>3, <1>5, <2>1 DEF Mistype
<1>6. ASSUME NEW m \in Matches, Unfinish(m) PROVE PlayInOrder'
  BY <1>6 DEF Unfinish, PlayInOrder, Played
<1>7. ASSUME NEW m \in Matches, PublishNames(m) PROVE PlayInOrder'
  <2>1. Played(m) /\ score' = score /\ finished' = finished
        /\ \A n : n # m => names'[n] = names[n]
    BY <1>7 DEF PublishNames
  <2> QED
    BY <2>1 DEF PlayInOrder, Played
<1> QED
  BY <1>2, <1>4, <1>5, <1>6, <1>7
     DEF KnockoutNext, knockoutVars, tables, SetGate, SetAnswers, CorrectGroup, SetEligible,
         StartRebuild, FinishRebuild, Announce

\* What the rounds say of the teams is true: no credit is paid early and none is forgotten,
\* the losers and nobody else are out, and the suggested answers are what happened.
THEOREM TheRoundsAreTrue == KnockoutSpec => []RoundsAreTrue
<1>1. KnockoutInv /\ PlayInOrder => RoundsAreTrue
  BY CreditsAreDueThen, LosersAreOutThen, SuggestionsSettleThen DEF RoundsAreTrue, KnockoutInv
<1>2. KnockoutInv => KnockoutTypeOK
  BY DEF KnockoutInv
<1> QED
  BY <1>1, <1>2, PlayInOrderStart, PlayInOrderStep, KnockoutInvariant, PTL DEF KnockoutSpec
=============================================================================
