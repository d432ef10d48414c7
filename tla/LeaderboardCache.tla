-------------------------- MODULE LeaderboardCache --------------------------
(***************************************************************************)
(* The leaderboard's in-process cache (backend/app/services/leaderboard.py) *)
(* one board per phase key, a TTL, stale-while-revalidate, and a           *)
(* single-flight lock per key.  win_probability.py holds a line-for-line   *)
(* copy of the same machinery with one key.                                *)
(*                                                                         *)
(* Every coroutine runs on one event loop, so code between two awaits is   *)
(* one step.  A rebuild awaits many queries between taking the lock and    *)
(* storing the board; the session is READ COMMITTED, so each query sees    *)
(* the newest commit of its own moment.  The model keeps the first and the *)
(* last of those queries: a board is the pair of the versions they saw.    *)
(*                                                                         *)
(* A version stands for the committed scoring inputs (scores, entries,     *)
(* bonus answers, gates).  Time is relative: a clock tick ages everything  *)
(* by one, up to TTL, because the code only ever compares ages with TTL.   *)
(***************************************************************************)
EXTENDS Integers

CONSTANTS
    Keys,         \* the cache keys: "overall", "phase_1", "phase_2"
    Overall,      \* the key the scheduler's daily snapshot reads
    Requests,     \* coroutines that call calculate_leaderboard
    Scheduler,    \* the one of them that is the score scheduler's loop
    Writers,      \* handlers that commit and then signal the cache
    TTL,          \* _cache_ttl in ticks
    MaxVersion,   \* bound: commits explored
    MaxFailures,  \* bound: rebuilds that raise
    Free          \* the holder of an asyncio.Lock nobody holds

ASSUME CacheAssumption ==
    /\ Requests \cap Keys = {}
    /\ Free \notin Requests \cup Keys
    /\ Scheduler \in Requests
    /\ Overall \in Keys
    /\ TTL \in Nat \ {0}
    /\ MaxVersion \in Nat
    /\ MaxFailures \in Nat

VARIABLES
    db,         \* the newest committed version of the scoring inputs
    commitAge,  \* ticks since each version was committed
    cached,     \* the keys present in _cache
    board,      \* _cache: the board of each key in cached
    holder,     \* _cache_locks: who holds each key's lock
    pc,         \* where each coroutine is inside the cache code
    ask,        \* the key each coroutine works for
    build,      \* the board a lock holder is computing
    signal,     \* what a writer that has committed has still to do
    failures,   \* rebuilds that have raised
    answer      \* the last board returned to a consumer of each key

vars == <<db, commitAge, cached, board, holder, pc, ask, build, signal,
          failures, answer>>

-----------------------------------------------------------------------------

\* A key names its own background task: _refresh_tasks holds at most one per key.
Actors == Requests \cup Keys

Holding == {"locked", "reading", "read"}

Versions == 0..MaxVersion
Ages == 0..TTL
Span == [lo : Versions, hi : Versions]
Board == [lo : Versions, hi : Versions, age : Ages, stale : BOOLEAN]

NoBuild == [lo |-> 0, hi |-> 0, age |-> 0, stale |-> FALSE]

Aged(n) == IF n < TTL THEN n + 1 ELSE n

\* _is_fresh, together with the `cache_key in _cache` test in front of every use.
IsFresh(k) == k \in cached /\ ~board[k].stale /\ board[k].age < TTL

TypeOK ==
    /\ db \in Versions
    /\ commitAge \in [Versions -> Ages]
    /\ cached \subseteq Keys
    /\ board \in [Keys -> Board]
    /\ holder \in [Keys -> Actors \cup {Free}]
    /\ pc \in [Actors -> {"idle", "queued", "forced"} \cup Holding]
    /\ ask \in [Actors -> Keys]
    /\ build \in [Actors -> Board]
    /\ signal \in [Writers -> {"none", "invalidate", "expire"}]
    /\ failures \in 0..MaxFailures
    /\ answer \in [Keys -> Span]

\* A process just started: empty dicts, and a database that has been quiet for a TTL.
Init ==
    /\ db = 0
    /\ commitAge = [v \in Versions |-> TTL]
    /\ cached = {}
    /\ board = [k \in Keys |-> NoBuild]
    /\ holder = [k \in Keys |-> Free]
    /\ pc = [a \in Actors |-> "idle"]
    /\ ask = [a \in Actors |-> IF a \in Keys THEN a ELSE Overall]
    /\ build = [a \in Actors |-> NoBuild]
    /\ signal = [w \in Writers |-> "none"]
    /\ failures = 0
    /\ answer = [k \in Keys |-> [lo |-> 0, hi |-> 0]]

-----------------------------------------------------------------------------
(***************************************************************************)
(* calculate_leaderboard.                                                  *)
(***************************************************************************)

Respond(k, b) == answer' = [answer EXCEPT ![k] = [lo |-> b.lo, hi |-> b.hi]]

\* The fast path: a cached board is returned at once, and one past its time also starts
\* the key's refresh task unless one is already in flight.
ServeCached(r, k) ==
    /\ pc[r] = "idle"
    /\ k \in cached
    /\ Respond(k, board[k])
    /\ ask' = [ask EXCEPT ![r] = k]
    /\ pc' = IF ~IsFresh(k) /\ pc[k] = "idle"
             THEN [pc EXCEPT ![k] = "queued"]
             ELSE pc
    /\ UNCHANGED <<db, commitAge, cached, board, holder, build, signal, failures>>

\* A cold key, or force_refresh (only an admin's request asks for it): wait for the lock.
WaitForRebuild(r, k, f) ==
    /\ pc[r] = "idle"
    /\ f \/ k \notin cached
    /\ pc' = [pc EXCEPT ![r] = IF f THEN "forced" ELSE "queued"]
    /\ ask' = [ask EXCEPT ![r] = k]
    /\ UNCHANGED <<db, commitAge, cached, board, holder, build, signal, failures,
                   answer>>

\* Under the lock the cache is looked at again; a board rebuilt meanwhile ends the wait.
EnterFresh(a) ==
    /\ pc[a] = "queued"
    /\ holder[ask[a]] = Free
    /\ IsFresh(ask[a])
    /\ pc' = [pc EXCEPT ![a] = "idle"]
    /\ IF a \in Requests
       THEN Respond(ask[a], board[ask[a]])
       ELSE UNCHANGED answer
    /\ UNCHANGED <<db, commitAge, cached, board, holder, ask, build, signal,
                   failures>>

\* Otherwise the holder starts a rebuild, whose `now` is read here.
StartBuild(a) ==
    /\ pc[a] = "forced" \/ (pc[a] = "queued" /\ ~IsFresh(ask[a]))
    /\ holder' = [holder EXCEPT ![ask[a]] = a]
    /\ pc' = [pc EXCEPT ![a] = "locked"]
    /\ build' = [build EXCEPT ![a] = NoBuild]
    /\ UNCHANGED <<db, commitAge, cached, board, ask, signal, failures, answer>>

MutantNoLock(a) == StartBuild(a)

EnterBuild(a) == holder[ask[a]] = Free /\ StartBuild(a)

-----------------------------------------------------------------------------
(***************************************************************************)
(* _rebuild_leaderboard, with the lock held.                               *)
(***************************************************************************)

ReadFirst(a) ==
    /\ pc[a] = "locked"
    /\ pc' = [pc EXCEPT ![a] = "reading"]
    /\ build' = [build EXCEPT ![a].lo = db, ![a].hi = db]
    /\ UNCHANGED <<db, commitAge, cached, board, holder, ask, signal, failures,
                   answer>>

ReadLast(a) ==
    /\ pc[a] = "reading"
    /\ pc' = [pc EXCEPT ![a] = "read"]
    /\ build' = [build EXCEPT ![a].hi = db]
    /\ UNCHANGED <<db, commitAge, cached, board, holder, ask, signal, failures,
                   answer>>

\* The board replaces the key's entry whatever happened to the cache meanwhile, the lock
\* is released, and a request returns what it built.
Store(a, b) ==
    LET k == ask[a] IN
    /\ pc[a] = "read"
    /\ cached' = cached \cup {k}
    /\ board' = [board EXCEPT ![k] = b]
    /\ holder' = [holder EXCEPT ![k] = Free]
    /\ pc' = [pc EXCEPT ![a] = "idle"]
    /\ build' = [build EXCEPT ![a] = NoBuild]
    /\ IF a \in Requests
       THEN Respond(k, b)
       ELSE UNCHANGED answer
    /\ UNCHANGED <<db, commitAge, ask, signal, failures>>

MutantLateNow(a) == Store(a, [build[a] EXCEPT !.age = 0])

Publish(a) == Store(a, build[a])

\* A query raises: `async with` releases the lock and the cache keeps what it had.  A
\* request ends in an error response, a refresh task in a log line.
RaiseWith(a, h) ==
    /\ pc[a] \in Holding
    /\ failures < MaxFailures
    /\ failures' = failures + 1
    /\ holder' = [holder EXCEPT ![ask[a]] = h]
    /\ pc' = [pc EXCEPT ![a] = "idle"]
    /\ build' = [build EXCEPT ![a] = NoBuild]
    /\ UNCHANGED <<db, commitAge, cached, board, ask, signal, answer>>

MutantKeepLock(a) == RaiseWith(a, a)

Fail(a) == RaiseWith(a, Free)

-----------------------------------------------------------------------------
(***************************************************************************)
(* The writers: a commit becomes visible before its handler resumes and    *)
(* signals the cache.  A manual score, a bonus answer, a gate change and a *)
(* knockout result invalidate; a group result expires; entry and fixture   *)
(* edits, withdrawals and payments say nothing to the cache.               *)
(***************************************************************************)

Commit(w, s) ==
    /\ signal[w] = "none"
    /\ db < MaxVersion
    /\ db' = db + 1
    /\ commitAge' = [commitAge EXCEPT ![db + 1] = 0]
    /\ signal' = [signal EXCEPT ![w] = s]
    /\ UNCHANGED <<cached, board, holder, pc, ask, build, failures, answer>>

\* invalidate_cache: by a writer, or by an admin's POST /leaderboard/invalidate.
DropAll ==
    /\ cached' = {}
    /\ board' = [k \in Keys |-> NoBuild]

InvalidateCache(w) ==
    /\ signal[w] = "invalidate"
    /\ DropAll
    /\ signal' = [signal EXCEPT ![w] = "none"]
    /\ UNCHANGED <<db, commitAge, holder, pc, ask, build, failures, answer>>

PostInvalidate ==
    /\ DropAll
    /\ UNCHANGED <<db, commitAge, holder, pc, ask, build, signal, failures,
                   answer>>

\* expire_cache.
ExpireCache(w) ==
    /\ signal[w] = "expire"
    /\ board' = [k \in Keys |-> IF k \in cached THEN [board[k] EXCEPT !.stale = TRUE]
                                                ELSE board[k]]
    /\ signal' = [signal EXCEPT ![w] = "none"]
    /\ UNCHANGED <<db, commitAge, cached, holder, pc, ask, build, failures,
                   answer>>

Tick ==
    /\ commitAge' = [v \in Versions |-> Aged(commitAge[v])]
    /\ board' = [k \in Keys |-> IF k \in cached THEN [board[k] EXCEPT !.age = Aged(@)]
                                                ELSE board[k]]
    /\ build' = [a \in Actors |-> IF pc[a] \in Holding
                                  THEN [build[a] EXCEPT !.age = Aged(@)]
                                  ELSE build[a]]
    /\ UNCHANGED <<db, cached, holder, pc, ask, signal, failures, answer>>

-----------------------------------------------------------------------------

\* The scheduler reads the overall board and never forces a rebuild.
MayAsk(r, k, f) == r = Scheduler => k = Overall /\ ~f

Enter(a) == EnterFresh(a) \/ EnterBuild(a)
Rebuild(a) == ReadFirst(a) \/ ReadLast(a) \/ Publish(a)
Call(r, k, f) == (~f /\ ServeCached(r, k)) \/ WaitForRebuild(r, k, f)

Next ==
    \/ \E r \in Requests, k \in Keys, f \in BOOLEAN : MayAsk(r, k, f) /\ Call(r, k, f)
    \/ \E a \in Actors : EnterFresh(a)
    \/ \E a \in Actors : EnterBuild(a)
    \/ \E a \in Actors : ReadFirst(a)
    \/ \E a \in Actors : ReadLast(a)
    \/ \E a \in Actors : Publish(a)
    \/ \E a \in Actors : Fail(a)
    \/ \E w \in Writers, s \in {"none", "invalidate", "expire"} : Commit(w, s)
    \/ \E w \in Writers : InvalidateCache(w)
    \/ PostInvalidate
    \/ \E w \in Writers : ExpireCache(w)
    \/ Tick

Spec == Init /\ [][Next]_vars

\* asyncio.Lock wakes its waiters first come, first served (SF); a query returns or raises
\* and raises only MaxFailures times (WF); the scheduler loop polls for ever (WF); the
\* clock runs (WF); a handler that committed resumes (WF).
FairSpec ==
    /\ Spec
    /\ \A a \in Actors : SF_vars(Enter(a)) /\ WF_vars(Rebuild(a))
    /\ WF_vars(Call(Scheduler, Overall, FALSE))
    /\ WF_vars(Tick)
    /\ \A w \in Writers : WF_vars(InvalidateCache(w) \/ ExpireCache(w))

-----------------------------------------------------------------------------
(***************************************************************************)
(* The inductive invariant, in parts.                                      *)
(***************************************************************************)

\* A board or a build at rest: its span is in order and committed, and every commit that
\* happened before its `now` is inside it.
SoundAt(b, version, age) ==
    /\ b.lo <= b.hi
    /\ b.hi <= version
    /\ \A v \in 1..version : age[v] > b.age => v <= b.lo

Sound(b) == SoundAt(b, db, commitAge)

\* Whoever is inside _rebuild_leaderboard holds the lock of the key it works for.
HoldersHold == \A a \in Actors : pc[a] \in Holding => holder[ask[a]] = a

BoardsInOrder ==
    \A k \in Keys :
        /\ answer[k].hi <= db
        /\ k \in cached =>
              /\ Sound(board[k])
              /\ \/ answer[k] = [lo |-> board[k].lo, hi |-> board[k].hi]
                 \/ answer[k].hi <= board[k].lo

\* A build that has begun to read started after its key's board, and everything served
\* for the key, had been read.
BuildsInOrder ==
    \A a \in Actors : pc[a] \in {"reading", "read"} =>
        /\ Sound(build[a])
        /\ answer[ask[a]].hi <= build[a].lo
        /\ ask[a] \in cached => board[ask[a]].hi <= build[a].lo

IInv == TypeOK /\ HoldersHold /\ BoardsInOrder /\ BuildsInOrder

-----------------------------------------------------------------------------
(***************************************************************************)
(* Properties.                                                             *)
(***************************************************************************)

\* Single flight: two coroutines never rebuild the same key at once, whichever of the
\* three ways (cold call, forced call, refresh task) brought them to _rebuild_leaderboard.
SingleFlight ==
    \A a, b \in Actors :
        pc[a] \in Holding /\ pc[b] \in Holding /\ ask[a] = ask[b] => a = b

\* A board that _is_fresh accepts has seen every commit at least a TTL old: whatever
\* signals were lost or never sent, a fresh board is never more than a TTL behind.  It
\* rests on `now` being read before the rebuild's first query.
FreshIsRecent ==
    \A k \in Keys : IsFresh(k) =>
        \A v \in 1..db : commitAge[v] >= TTL => v <= board[k].lo

\* A key's answers never go back in time and never straddle each other (ServedBoard):
\* unless it is the same board again, the oldest input of an answer is no older than the
\* newest input of the answer before it, across invalidations, forced rebuilds, refresh
\* tasks and rebuilds that raise.
Served == INSTANCE ServedBoard WITH
    Keys <- Keys, MaxVersion <- MaxVersion, db <- db, answer <- answer
ImplementsServedBoard == Served!Spec

\* Nobody waits for ever: every call that queued for a key's lock returns (with a board or
\* an error), and every refresh task ends, so the next stale read can start another.
EveryWaiterReturns ==
    \A a \in Actors : pc[a] # "idle" ~> pc[a] = "idle"

\* The overall board catches up: however the commits, failures, invalidations and forced
\* rebuilds interleave, the scheduler's polling brings every last commit into the cache.
EventuallyRecent ==
    []<>(Overall \in cached /\ board[Overall].lo = db)
=============================================================================
