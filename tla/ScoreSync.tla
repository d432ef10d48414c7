----------------------------- MODULE ScoreSync -----------------------------
(***************************************************************************)
(* sync_scores_once (backend/app/services/score_sync.py), run every minute *)
(* by the scheduler and on demand by an admin, beside the admin's own      *)
(* score and status edits.                                                 *)
(*                                                                         *)
(* One call is one transaction that awaits many times: fetch the live feed *)
(* (ESPN), load and change each fixture it names, look for fixtures the    *)
(* feed did not settle, fetch each of those from Football-Data, commit,    *)
(* signal the caches.  The session is READ COMMITTED and keeps a row as it *)
(* first loaded it (the identity map); the commit writes the columns the   *)
(* call changed and no other.  So each call carries a view of the rows it  *)
(* loaded, and between loading and commit others may commit.  The row      *)
(* locks an earlier flush takes are left out: they only order the commits. *)
(*                                                                         *)
(* A score is one value of Data (goals, extra time, shootout and the       *)
(* minute beside it); HALFTIME is LIVE and CANCELLED is POSTPONED, which   *)
(* the code treats alike.  Team names are left out: a fixture whose slot   *)
(* is not named yet is one ESPN's feed does not match.  The feeds are      *)
(* external: what they may report depends on how far the match really is.  *)
(***************************************************************************)
EXTENDS Integers, FiniteSets

CONSTANTS
    Fixtures,    \* fixtures with an external_id
    Knockout,    \* those from the round of 32 to the final
    Syncs,       \* concurrent calls of sync_scores_once
    Scheduler,   \* the scheduler's
    MaxFetches,  \* _MAX_RESOLVE_FETCHES
    Edits,       \* bound: the statuses an admin sets by hand
    Corrections  \* bound: the verified flags an admin saves a score with

ASSUME SyncAssumption ==
    /\ Knockout \subseteq Fixtures
    /\ Scheduler \in Syncs
    /\ MaxFetches \in Nat \ {0}
    /\ Edits \subseteq {"scheduled", "live", "finished", "postponed"}
    /\ Corrections \subseteq BOOLEAN

VARIABLES
    status,   \* fixtures.status
    score,    \* the scores row of each fixture; data is "none" while there is no row
    world,    \* how far the match really is, and whether both feeds have its final
    age,      \* now against the fixture's kickoff
    sync      \* each call of sync_scores_once

vars == <<status, score, world, age, sync>>

-----------------------------------------------------------------------------

Statuses == {"scheduled", "live", "finished", "postponed"}

\* In play; Football-Data's final before its correction (null penalties); ESPN's bare
\* total after extra time; the final with its split; what an admin entered.
Data == {"running", "early", "total", "final", "manual"}
NoScore == "none"

Score == [data : Data \cup {NoScore}, verified : BOOLEAN]
Payload == [status : Statuses, data : Data \cup {NoScore}, auth : BOOLEAN]

\* What a call knows of a fixture: status as loaded (`was`) and as changed, the score row
\* if loaded yet (`scored`) and as changed, and which of the two it changed.
View == [loaded : BOOLEAN, was : Statuses, status : Statuses, scored : BOOLEAN,
         data : Data \cup {NoScore}, verified : BOOLEAN, fresh : BOOLEAN,
         ws : BOOLEAN, wd : BOOLEAN]

Unloaded == [loaded |-> FALSE, was |-> "scheduled", status |-> "scheduled",
             scored |-> FALSE, data |-> NoScore, verified |-> FALSE, fresh |-> FALSE,
             ws |-> FALSE, wd |-> FALSE]

Absent == [status |-> "scheduled", data |-> NoScore, auth |-> FALSE]

Idle == [pc |-> "idle", feed |-> [f \in Fixtures |-> Absent],
         view |-> [f \in Fixtures |-> Unloaded], seen |-> {}, first |-> {}, last |-> {},
         fetches |-> 0, points |-> {}]

\* One call: the live reports still to apply, its views, the fixtures settled, those to
\* fetch first and last, the fetches made, and the fixtures whose points it moves.
Call == [pc : {"idle", "live", "resolve", "signal"},
         feed : [Fixtures -> Payload],
         view : [Fixtures -> View],
         seen : SUBSET Fixtures,
         first : SUBSET Fixtures,
         last : SUBSET Fixtures,
         fetches : 0..MaxFetches,
         points : SUBSET Fixtures]

TypeOK ==
    /\ status \in [Fixtures -> Statuses]
    /\ score \in [Fixtures -> Score]
    /\ world \in [Fixtures -> {"pre", "play", "over", "published"}]
    /\ age \in [Fixtures -> {"imminent", "window", "late", "old"}]
    /\ sync \in [Syncs -> Call]

Init ==
    /\ status = [f \in Fixtures |-> "scheduled"]
    /\ score = [f \in Fixtures |-> [data |-> NoScore, verified |-> FALSE]]
    /\ world = [f \in Fixtures |-> "pre"]
    /\ age = [f \in Fixtures |-> "imminent"]
    /\ sync = [s \in Syncs |-> Idle]

-----------------------------------------------------------------------------
(***************************************************************************)
(* What the feeds report.                                                  *)
(***************************************************************************)

Report(st, d) == [status |-> st, data |-> d, auth |-> TRUE]
Bare == [status |-> "finished", data |-> "total", auth |-> FALSE]

\* EspnScoreProvider: a match past regulation whose summary could not be read ends in a
\* bare total; any other final is authoritative.
EspnReports(f) ==
    {Absent} \cup
    (IF world[f] = "pre" THEN {Report("scheduled", NoScore)}
     ELSE IF world[f] = "play" THEN {Report("live", "running")}
     ELSE {Report("finished", "final")}
          \cup (IF f \in Knockout THEN {Bare} ELSE {})
          \cup (IF world[f] = "over" THEN {Report("live", "running")} ELSE {}))

\* FootballDataScoreProvider lags, flaps FINISHED -> TIMED, and serves FINISHED with no
\* score, until it has the final for good.
FootballDataReports(f) ==
    CASE world[f] = "pre"  -> {Absent, Report("scheduled", NoScore), Report("postponed", NoScore)}
      [] world[f] = "play" -> {Absent, Report("scheduled", NoScore), Report("live", "running"),
                               Report("postponed", "running")}
      [] world[f] = "over" -> {Absent, Report("scheduled", NoScore), Report("live", "running"),
                               Report("finished", NoScore), Report("finished", "early")}
      [] OTHER             -> {Report("finished", "final")}

-----------------------------------------------------------------------------
(***************************************************************************)
(* _apply_external_score, on the view v a call has of fixture f.           *)
(***************************************************************************)

ScoreBearing == {"live", "finished"}

\* A bare knockout final within four hours of kickoff is painted as LIVE.
MutantAlwaysDefer(f, p) == p.status = "finished" /\ ~p.auth /\ f \in Knockout

Deferred(f, p) ==
    /\ p.status = "finished"
    /\ ~p.auth
    /\ f \in Knockout
    /\ age[f] \in {"imminent", "window"}

Effective(f, p) == IF Deferred(f, p) THEN "live" ELSE p.status

\* The verified guard, the demotion guard and the null-score guard.
MutantNoVerifiedGuard(v, p) ==
    \/ v.status = "finished" /\ p.status # "finished"
    \/ p.status \in ScoreBearing /\ p.data = NoScore

MutantNoDemotionGuard(v, p) ==
    \/ v.verified
    \/ p.status \in ScoreBearing /\ p.data = NoScore

Refused(v, p) ==
    \/ v.verified
    \/ v.status = "finished" /\ p.status # "finished"
    \/ p.status \in ScoreBearing /\ p.data = NoScore

Unchanged(f, v, p) ==
    /\ v.status = Effective(f, p)
    /\ Effective(f, p) \in ScoreBearing => v.data = p.data

\* Whether the payload changes the row; a status that bears no score leaves the score be.
Changes(f, v, p) == ~Refused(v, p) /\ ~Unchanged(f, v, p)

Applied(f, v, p) ==
    LET st == Effective(f, p)
        d == IF st \in ScoreBearing THEN p.data ELSE v.data
    IN  IF Changes(f, v, p)
        THEN [v EXCEPT !.status = st, !.data = d,
                       !.ws = @ \/ st # v.status, !.wd = @ \/ d # v.data]
        ELSE v

\* result.points_relevant: a row changed to or at FINISHED.
MutantInsertsOnly(f, v, p) == Changes(f, v, p) /\ Effective(f, p) = "finished" /\ v.data = NoScore

MovesPoints(f, v, p) == Changes(f, v, p) /\ Effective(f, p) = "finished"

\* The fixture counts as settled this tick, unless its final was deferred just now.
Settled(f, v, p) == ~(Changes(f, v, p) /\ Deferred(f, p))

-----------------------------------------------------------------------------
(***************************************************************************)
(* One call of sync_scores_once.                                           *)
(***************************************************************************)

\* has_active_or_imminent_match, the scheduler's gate.
HasActive ==
    \E f \in Fixtures :
        \/ status[f] = "live"
        \/ status[f] = "scheduled" /\ age[f] \in {"imminent", "window"}

Begin(s) ==
    /\ sync[s].pc = "idle"
    /\ s = Scheduler => HasActive
    /\ \E feed \in [Fixtures -> Payload] :
          /\ \A f \in Fixtures : feed[f] \in EspnReports(f)
          /\ sync' = [sync EXCEPT ![s].pc = "live", ![s].feed = feed]
    /\ UNCHANGED <<status, score, world, age>>

\* The row as the call knows it: the fixture as first loaded, the score as of now unless
\* the call has read it before.
Loaded(s, f) ==
    LET v == sync[s].view[f]
        w == IF v.loaded THEN v
             ELSE [v EXCEPT !.loaded = TRUE, !.was = status[f], !.status = status[f]]
    IN  IF w.scored THEN w
        ELSE [w EXCEPT !.scored = TRUE, !.data = score[f].data,
                       !.verified = score[f].verified, !.fresh = score[f].data = NoScore]

Apply(s, f, p) ==
    LET v == Loaded(s, f)
    IN  [sync[s] EXCEPT !.view[f] = Applied(f, v, p),
                        !.points = IF MovesPoints(f, v, p) THEN @ \cup {f} ELSE @,
                        !.seen = IF Settled(f, v, p) THEN @ \cup {f} ELSE @]

ApplyLive(s, f) ==
    /\ sync[s].pc = "live"
    /\ sync[s].feed[f] # Absent
    /\ sync' = [sync EXCEPT ![s] = [Apply(s, f, sync[s].feed[f]) EXCEPT !.feed[f] = Absent]]
    /\ UNCHANGED <<status, score, world, age>>

\* _find_unresolved_fixtures sees the call's own changes, and what others have committed:
\* (A) in play, (B) kicked off and never seen in play; then (C) a knockout final without
\* penalties.
InPlayOrMissed(s) ==
    LET st(f) == IF sync[s].view[f].ws THEN sync[s].view[f].status ELSE status[f]
    IN  {f \in Fixtures : st(f) = "live" \/ (st(f) = "scheduled" /\ age[f] = "window")}

WithoutPenalties(s) ==
    LET v(f) == sync[s].view[f]
        st(f) == IF v(f).ws THEN v(f).status ELSE status[f]
        d(f) == IF v(f).wd THEN v(f).data ELSE score[f].data
    IN  {f \in Knockout : st(f) = "finished" /\ d(f) \notin {NoScore, "final"}
                          /\ ~score[f].verified /\ age[f] # "old"}

FindUnresolved(s) ==
    LET first == InPlayOrMissed(s) \ sync[s].seen
        last == WithoutPenalties(s) \ sync[s].seen
    IN  /\ sync[s].pc = "live"
        /\ \A f \in Fixtures : sync[s].feed[f] = Absent
        /\ sync' = [sync EXCEPT
              ![s].pc = "resolve", ![s].first = first, ![s].last = last,
              ![s].view = [f \in Fixtures |->
                  IF f \in first \cup last /\ ~sync[s].view[f].loaded
                  THEN [Unloaded EXCEPT !.loaded = TRUE, !.was = status[f], !.status = status[f]]
                  ELSE sync[s].view[f]]]
        /\ UNCHANGED <<status, score, world, age>>

\* One fetch from Football-Data, (A) and (B) before (C), at most MaxFetches of them.
ToFetch(s) ==
    IF sync[s].pc # "resolve" \/ sync[s].fetches = MaxFetches THEN {}
    ELSE IF sync[s].first # {} THEN sync[s].first ELSE sync[s].last

Resolve(s, f) ==
    /\ f \in ToFetch(s)
    /\ \E p \in FootballDataReports(f) :
          LET after == IF p = Absent THEN sync[s] ELSE Apply(s, f, p)
          IN  sync' = [sync EXCEPT ![s] = [after EXCEPT
                  !.first = @ \ {f}, !.last = @ \ {f}, !.fetches = @ + 1]]
    /\ UNCHANGED <<status, score, world, age>>

Done(s) == sync[s].pc = "resolve" /\ ToFetch(s) = {}

\* scores.fixture_id is unique: somebody inserted the row since this call found none.
Clash(s) ==
    \E f \in Fixtures :
        sync[s].view[f].fresh /\ sync[s].view[f].wd /\ score[f].data # NoScore

Commit(s) ==
    LET v == sync[s].view
    IN  /\ Done(s)
        /\ ~Clash(s)
        /\ status' = [f \in Fixtures |-> IF v[f].ws THEN v[f].status ELSE status[f]]
        /\ score' = [f \in Fixtures |->
              IF v[f].wd THEN [score[f] EXCEPT !.data = v[f].data] ELSE score[f]]
        /\ sync' = [sync EXCEPT ![s] =
              IF sync[s].points = {} THEN Idle
              ELSE [Idle EXCEPT !.pc = "signal", !.points = sync[s].points]]
        /\ UNCHANGED <<world, age>>

\* invalidate_cache if a knockout fixture moved points, else expire_cache.
Signal(s) ==
    /\ sync[s].pc = "signal"
    /\ sync' = [sync EXCEPT ![s] = Idle]
    /\ UNCHANGED <<status, score, world, age>>

\* The provider, a query or the commit raises, and the call leaves no trace.  Nothing is
\* visible before the commit, so raising earlier is the same.
Raise(s) ==
    /\ Done(s)
    /\ sync' = [sync EXCEPT ![s] = Idle]
    /\ UNCHANGED <<status, score, world, age>>

-----------------------------------------------------------------------------
(***************************************************************************)
(* The admin and the world.                                                *)
(***************************************************************************)

\* PUT /scores/{fixture}: the score, its verified flag, FINISHED; then invalidate_cache.
UpdateScore(f, verified) ==
    /\ score' = [score EXCEPT ![f] = [data |-> "manual", verified |-> verified]]
    /\ status' = [status EXCEPT ![f] = "finished"]
    /\ UNCHANGED <<world, age, sync>>

\* PATCH /fixtures/{fixture}/status and PUT /fixtures/{fixture}: no cache signal.
UpdateStatus(f, st) ==
    /\ status' = [status EXCEPT ![f] = st]
    /\ UNCHANGED <<score, world, age, sync>>

Progress(f) ==
    /\ \/ world[f] = "pre" /\ age[f] # "imminent" /\ world' = [world EXCEPT ![f] = "play"]
       \/ world[f] = "play" /\ world' = [world EXCEPT ![f] = "over"]
       \/ world[f] = "over" /\ world' = [world EXCEPT ![f] = "published"]
    /\ UNCHANGED <<status, score, age, sync>>

\* Kickoff, four hours after it, and twelve.
TimePasses(f) ==
    /\ \/ age[f] = "imminent" /\ age' = [age EXCEPT ![f] = "window"]
       \/ age[f] = "window" /\ age' = [age EXCEPT ![f] = "late"]
       \/ age[f] = "late" /\ age' = [age EXCEPT ![f] = "old"]
    /\ UNCHANGED <<status, score, world, sync>>

Next ==
    \/ \E s \in Syncs : Begin(s)
    \/ \E s \in Syncs, f \in Fixtures : ApplyLive(s, f)
    \/ \E s \in Syncs : FindUnresolved(s)
    \/ \E s \in Syncs, f \in Fixtures : Resolve(s, f)
    \/ \E s \in Syncs : Commit(s)
    \/ \E s \in Syncs : Signal(s)
    \/ \E s \in Syncs : Raise(s)
    \/ \E f \in Fixtures, verified \in Corrections : UpdateScore(f, verified)
    \/ \E f \in Fixtures, st \in Edits : UpdateStatus(f, st)
    \/ \E f \in Fixtures : Progress(f)
    \/ \E f \in Fixtures : TimePasses(f)

Spec == Init /\ [][Next]_vars

\* The scheduler calls every minute while a match is active, its fetches time out or
\* return, and not every call fails.
TickFairness ==
    /\ WF_vars(Begin(Scheduler))
    /\ WF_vars(FindUnresolved(Scheduler) \/ Commit(Scheduler) \/ Raise(Scheduler)
               \/ Signal(Scheduler)
               \/ \E f \in Fixtures : ApplyLive(Scheduler, f) \/ Resolve(Scheduler, f))
    /\ SF_vars(Commit(Scheduler))

TickSpec == Spec /\ TickFairness

\* Beside that, time passes, and matches are played and reported.
FairSpec == TickSpec /\ \A f \in Fixtures : WF_vars(TimePasses(f)) /\ WF_vars(Progress(f))

-----------------------------------------------------------------------------
(***************************************************************************)
(* The inductive invariant, in parts: what a call may hold of a row.       *)
(***************************************************************************)

\* Only what was loaded is changed, and a status not changed is the one loaded.
LoadedBeforeChanged(v) ==
    /\ v.ws \/ v.wd => v.scored
    /\ v.scored => v.loaded
    /\ ~v.ws => v.status = v.was

\* The guards have done their work on every row the call is about to write.
GuardsHold(s, f) ==
    LET v == sync[s].view[f] IN
    /\ v.wd \/ v.ws => ~v.verified
    /\ v.was = "finished" /\ f \notin Knockout => v.status = "finished"
    /\ v.ws /\ v.status = "finished" => v.data # NoScore

\* A row the call knows is still there, and one it inserts has a score.
RowsLast(s, f) ==
    LET v == sync[s].view[f] IN
    /\ v.wd => v.data # NoScore
    /\ v.scored /\ ~v.wd /\ v.data # NoScore => score[f].data # NoScore

\* What the call gives or corrects at FINISHED, it has counted.
PointsCounted(s, f) ==
    LET v == sync[s].view[f] IN
    v.status = "finished" /\ (v.ws \/ v.wd) => f \in sync[s].points

ViewInv ==
    \A s \in Syncs, f \in Fixtures :
        /\ LoadedBeforeChanged(sync[s].view[f])
        /\ GuardsHold(s, f)
        /\ RowsLast(s, f)
        /\ PointsCounted(s, f)

IInv == TypeOK /\ ViewInv

-----------------------------------------------------------------------------
(***************************************************************************)
(* Properties.                                                             *)
(***************************************************************************)

\* A call ends its transaction in this step.
Committing(s) == sync[s].pc = "resolve" /\ sync'[s].pc # "resolve"

\* A final once recorded is taken back by no report that comes later: only by the admin,
\* by a call that loaded the fixture before the final was committed, or by a bare knockout
\* final.
ResultsStand ==
    [][\A f \in Fixtures : status[f] = "finished" /\ status'[f] # "finished" =>
          \/ sync' = sync
          \/ \E s \in Syncs :
                /\ Committing(s)
                /\ sync[s].view[f].ws
                /\ sync[s].view[f].was # "finished" \/ f \in Knockout]_vars

\* "Admin-verified scores are locked against the API": a verified score is overwritten only
\* by the admin, or by a call that read it before it was verified.
VerifiedOverwrittenOnlyStale ==
    [][\A f \in Fixtures : score[f].verified /\ score'[f].data # score[f].data =>
          \/ sync' = sync
          \/ \E s \in Syncs :
                Committing(s) /\ sync[s].view[f].wd /\ ~sync[s].view[f].verified]_vars

\* A call finishes no match without its score, whatever nulls the feeds serve and whoever
\* else is writing: a FINISHED fixture with no row comes from the admin's status edit.
FinalsHaveScores ==
    [][\A f \in Fixtures :
          status'[f] = "finished" /\ score'[f].data = NoScore =>
              status[f] = "finished" \/ sync' = sync]_vars

\* A commit that gives, or corrects, the points of a match its call knows to be finished is
\* followed by a cache signal about that match, whatever the live and the resolution pass
\* each contributed to it.
Points(f) == IF status[f] = "finished" THEN score[f].data ELSE NoScore

PointsAreSignalled ==
    [][\A s \in Syncs, f \in Fixtures :
          /\ Committing(s)
          /\ sync[s].view[f].status = "finished"
          /\ Points(f)' \notin {Points(f), NoScore}
          => sync'[s].pc = "signal" /\ f \in sync'[s].points]_vars

\* No match stays LIVE for ever once the feeds have its final ("without this pass its
\* fixture would sit at LIVE with the last in-play score forever"), even if ESPN never
\* serves an authoritative final; unless an admin verified its score, which stops the sync.
NoMatchStaysLive ==
    \A f \in Fixtures :
        world[f] = "published" /\ status[f] = "live" ~> status[f] # "live" \/ score[f].verified

\* "A FINISHED fixture can only be touched by another FINISHED payload [...] letting that
\* through would un-finish a played match and claw back paid leaderboard points"
\* (score_sync.py:387).  The guard compares the payload before a bare knockout final is
\* turned into LIVE: such a final un-finishes the match Football-Data had finished.
FinishedStaysFinished ==
    [][\A f \in Fixtures :
          status[f] = "finished" /\ status'[f] # "finished" => sync' = sync]_vars

\* A bare knockout final is painted LIVE "so the FD resolution pass can land the
\* authoritative split" (score_sync.py:395).  Only the tick that changes the row leaves it
\* to that pass: while ESPN repeats the same report, Football-Data is not asked again, for
\* as long as the four hours last.
DeferredFinalsResolved ==
    \A f \in Knockout :
        [](age[f] \in {"imminent", "window"}) =>
            (world[f] = "published" /\ status[f] = "live"
                ~> status[f] # "live" \/ score[f].verified)
=============================================================================
