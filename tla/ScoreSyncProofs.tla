-------------------------- MODULE ScoreSyncProofs --------------------------
(***************************************************************************)
(* Proofs about ScoreSync, for any fixtures and any number of concurrent   *)
(* calls.  Everything follows from what a call may hold of one row (Good): *)
(* the guards are passed before a column is changed, and each change at    *)
(* FINISHED is counted.                                                    *)
(***************************************************************************)
EXTENDS ScoreSync, TLAPS

Good(v, f, exists, counted) ==
    /\ LoadedBeforeChanged(v)
    /\ v.wd \/ v.ws => ~v.verified
    /\ v.was = "finished" /\ f \notin Knockout => v.status = "finished"
    /\ v.ws /\ v.status = "finished" => v.data # NoScore
    /\ v.wd => v.data # NoScore
    /\ v.scored /\ ~v.wd /\ v.data # NoScore => exists
    /\ v.status = "finished" /\ (v.ws \/ v.wd) => counted

AllGood ==
    \A s \in Syncs, f \in Fixtures :
        Good(sync[s].view[f], f, score[f].data # NoScore, f \in sync[s].points)

\* The invariant, one row of one call at a time.
LEMMA GoodIsViewInv == ViewInv <=> AllGood
  BY DEF ViewInv, AllGood, Good, GuardsHold, RowsLast, PointsCounted

-----------------------------------------------------------------------------
(***************************************************************************)
(* One report applied to one row.                                          *)
(***************************************************************************)

\* What the feeds report is a payload.
LEMMA ReportTypes ==
  ASSUME NEW f \in Fixtures, world \in [Fixtures -> {"pre", "play", "over", "published"}]
  PROVE  /\ EspnReports(f) \subseteq Payload
         /\ FootballDataReports(f) \subseteq Payload
         /\ Absent \in Payload
<1>1. /\ \A st \in Statuses, d \in Data \cup {NoScore} : Report(st, d) \in Payload
      /\ Bare \in Payload
      /\ Absent \in Payload
  BY DEF Report, Bare, Absent, Payload, Statuses, Data
<1>2. /\ Report("scheduled", NoScore) \in Payload /\ Report("postponed", NoScore) \in Payload
      /\ Report("live", "running") \in Payload /\ Report("postponed", "running") \in Payload
      /\ Report("finished", NoScore) \in Payload /\ Report("finished", "early") \in Payload
      /\ Report("finished", "final") \in Payload
  BY <1>1 DEF Statuses, Data
<1>3. EspnReports(f) \subseteq Payload
  BY <1>1, <1>2 DEF EspnReports
<1>4. FootballDataReports(f) \subseteq Payload
  BY <1>1, <1>2 DEF FootballDataReports
<1> QED BY <1>1, <1>3, <1>4

\* A row just loaded, or loaded earlier, is known soundly.
LEMMA LoadedGood ==
  ASSUME TypeOK, ViewInv, NEW s \in Syncs, NEW f \in Fixtures
  PROVE  /\ Loaded(s, f) \in View
         /\ Loaded(s, f).loaded /\ Loaded(s, f).scored
         /\ Good(Loaded(s, f), f, score[f].data # NoScore, f \in sync[s].points)
<1> DEFINE v == sync[s].view[f]
           w == IF v.loaded THEN v
                ELSE [v EXCEPT !.loaded = TRUE, !.was = status[f], !.status = status[f]]
           x == IF w.scored THEN w
                ELSE [w EXCEPT !.scored = TRUE, !.data = score[f].data,
                               !.verified = score[f].verified, !.fresh = score[f].data = NoScore]
<1>1. /\ v \in View
      /\ status[f] \in Statuses
      /\ score[f].data \in Data \cup {NoScore}
      /\ score[f].verified \in BOOLEAN
  BY DEF TypeOK, Call, Score
<1>2. Good(v, f, score[f].data # NoScore, f \in sync[s].points)
  BY GoodIsViewInv DEF AllGood
<1>3. /\ w \in View
      /\ w.loaded
      /\ Good(w, f, score[f].data # NoScore, f \in sync[s].points)
  <2>1. CASE v.loaded
    BY <1>1, <1>2, <2>1
  <2>2. CASE ~v.loaded
    <3>1. w = [v EXCEPT !.loaded = TRUE, !.was = status[f], !.status = status[f]]
      BY <2>2
    <3>2. ~v.ws /\ ~v.wd /\ ~v.scored
      BY <1>1, <1>2, <2>2 DEF Good, LoadedBeforeChanged, View
    <3> HIDE DEF w
    <3> QED BY <1>1, <1>2, <3>1, <3>2 DEF Good, LoadedBeforeChanged, View
  <2> QED BY <2>1, <2>2
<1>4. /\ x \in View
      /\ x.loaded
      /\ x.scored
      /\ Good(x, f, score[f].data # NoScore, f \in sync[s].points)
  <2>1. CASE w.scored
    BY <1>3, <2>1
  <2>2. CASE ~w.scored
    <3>1. x = [w EXCEPT !.scored = TRUE, !.data = score[f].data,
                        !.verified = score[f].verified, !.fresh = score[f].data = NoScore]
      BY <2>2
    <3>2. ~w.wd /\ ~w.ws
      BY <1>3, <2>2 DEF Good, LoadedBeforeChanged, View
    <3>3. w \in View
      BY <1>3
    <3> HIDE DEF w, x
    <3>4. x \in View
      BY <1>1, <3>1, <3>3 DEF View
    <3>5. /\ x.loaded = w.loaded /\ x.was = w.was /\ x.status = w.status
          /\ x.ws = w.ws /\ x.wd = w.wd
          /\ x.scored = TRUE /\ x.data = score[f].data
      BY <3>1, <3>3 DEF View
    <3> QED BY <1>3, <2>2, <3>2, <3>4, <3>5 DEF Good, LoadedBeforeChanged
  <2> QED BY <2>1, <2>2
<1>5. Loaded(s, f) = x
  BY DEF Loaded
<1> HIDE DEF x
<1> QED BY <1>4, <1>5

\* A report applied to a row known soundly leaves it known soundly, once what it moves at
\* FINISHED is counted: each guard keeps one conjunct.
LEMMA AppliedGood ==
  ASSUME NEW f \in Fixtures, NEW v \in View, NEW p \in Payload,
         NEW exists \in BOOLEAN, NEW counted \in BOOLEAN,
         v.loaded, v.scored, Good(v, f, exists, counted)
  PROVE  /\ Applied(f, v, p) \in View
         /\ Good(Applied(f, v, p), f, exists, counted \/ MovesPoints(f, v, p))
<1> DEFINE st == Effective(f, p)
           d == IF st \in ScoreBearing THEN p.data ELSE v.data
<1>1. st \in Statuses /\ d \in Data \cup {NoScore}
  BY DEF Effective, Payload, View, Statuses
<1>2. CASE ~Changes(f, v, p)
  BY <1>2 DEF Applied, Good
<1>3. CASE Changes(f, v, p)
  <2> DEFINE y == [v EXCEPT !.status = st, !.data = d,
                            !.ws = @ \/ st # v.status, !.wd = @ \/ d # v.data]
  <2>1. Applied(f, v, p) = y
    BY <1>3 DEF Applied
  <2>2. ~v.verified
    BY <1>3 DEF Changes, Refused
  <2>3. v.status = "finished" => p.status = "finished"
    BY <1>3 DEF Changes, Refused
  <2>4. st \in ScoreBearing => p.data # NoScore
    BY <1>3 DEF Changes, Refused, Effective, Deferred, ScoreBearing
  <2>5. f \notin Knockout => st = p.status
    BY DEF Effective, Deferred
  <2>6. (v.wd \/ d # v.data) => d # NoScore
    BY <2>4 DEF Good
  <2>7. st = "finished" => MovesPoints(f, v, p)
    BY <1>3 DEF MovesPoints
  <2> HIDE DEF st, d
  <2>8. /\ y \in View
        /\ y.loaded /\ y.scored
        /\ y.verified = v.verified /\ y.was = v.was
        /\ y.status = st /\ y.data = d
        /\ y.ws = (v.ws \/ st # v.status) /\ y.wd = (v.wd \/ d # v.data)
    BY <1>1 DEF View
  <2>9. st = "finished" => d # NoScore
    BY <2>4 DEF d, ScoreBearing
  <2> HIDE DEF y
  <2>10. Good(y, f, exists, counted \/ MovesPoints(f, v, p))
    <3>1. LoadedBeforeChanged(y)
      BY <2>8 DEF LoadedBeforeChanged, Good, View
    <3>2. y.was = "finished" /\ f \notin Knockout => y.status = "finished"
      BY <2>3, <2>5, <2>8 DEF Good
    <3>3. y.scored /\ ~y.wd /\ y.data # NoScore => exists
      BY <2>8 DEF Good, View
    <3> QED BY <2>2, <2>6, <2>7, <2>8, <2>9, <3>1, <3>2, <3>3 DEF Good
  <2> QED BY <2>1, <2>8, <2>10
<1> QED BY <1>2, <1>3

\* One report applied by a call: the call it becomes is typed, and knows its rows soundly.
LEMMA ApplyGood ==
  ASSUME TypeOK, ViewInv, NEW s \in Syncs, NEW f \in Fixtures, NEW p \in Payload
  PROVE  /\ Apply(s, f, p) \in Call
         /\ Apply(s, f, p).pc = sync[s].pc
         /\ Apply(s, f, p).first = sync[s].first
         /\ Apply(s, f, p).last = sync[s].last
         /\ Apply(s, f, p).fetches = sync[s].fetches
         /\ \A g \in Fixtures :
               Good(Apply(s, f, p).view[g], g, score[g].data # NoScore,
                    g \in Apply(s, f, p).points)
<1> DEFINE v == Loaded(s, f)
           a == Applied(f, v, p)
           pts == IF MovesPoints(f, v, p) THEN sync[s].points \cup {f} ELSE sync[s].points
           sn == IF Settled(f, v, p) THEN sync[s].seen \cup {f} ELSE sync[s].seen
           c == [sync[s] EXCEPT !.view[f] = a, !.points = pts, !.seen = sn]
<1>1. v \in View /\ v.loaded /\ v.scored
      /\ Good(v, f, score[f].data # NoScore, f \in sync[s].points)
  BY LoadedGood
<1>2. MovesPoints(f, v, p) \in BOOLEAN
  BY DEF MovesPoints, Changes
<1>3. a \in View
      /\ Good(a, f, score[f].data # NoScore, f \in sync[s].points \/ MovesPoints(f, v, p))
  <2> DEFINE ex == score[f].data # NoScore
             cnt == f \in sync[s].points
  <2>1. ex \in BOOLEAN /\ cnt \in BOOLEAN /\ Good(v, f, ex, cnt)
    BY <1>1
  <2> HIDE DEF v, ex, cnt
  <2>2. Applied(f, v, p) \in View /\ Good(Applied(f, v, p), f, ex, cnt \/ MovesPoints(f, v, p))
    BY <1>1, <2>1, AppliedGood
  <2> QED BY <2>2 DEF v, ex, cnt
<1>4. Apply(s, f, p) = c
  BY DEF Apply
<1>5. pts \in SUBSET Fixtures /\ sn \in SUBSET Fixtures /\ sync[s] \in Call
  BY DEF TypeOK, Call
<1>6. \A g \in Fixtures : g \in pts <=> g \in sync[s].points \/ (g = f /\ MovesPoints(f, v, p))
  <2>1. CASE MovesPoints(f, v, p)
    BY <2>1, ZenonT(20)
  <2>2. CASE ~MovesPoints(f, v, p)
    BY <2>2, ZenonT(20)
  <2> QED BY <2>1, <2>2
<1> HIDE DEF v, a, pts, sn
<1>7. c \in Call
      /\ c.view = [sync[s].view EXCEPT ![f] = a] /\ c.points = pts
      /\ c.pc = sync[s].pc /\ c.first = sync[s].first /\ c.last = sync[s].last
      /\ c.fetches = sync[s].fetches
  BY <1>3, <1>5 DEF Call
<1> HIDE DEF c
<1>8. ASSUME NEW g \in Fixtures
      PROVE  Good(c.view[g], g, score[g].data # NoScore, g \in c.points)
  <2>1. CASE g = f
    BY <1>3, <1>5, <1>6, <1>7, <2>1 DEF Call, Good
  <2>2. CASE g # f
    <3>1. Good(sync[s].view[g], g, score[g].data # NoScore, g \in sync[s].points)
      BY GoodIsViewInv DEF AllGood
    <3>2. c.view[g] = sync[s].view[g] /\ (g \in c.points <=> g \in sync[s].points)
      BY <1>5, <1>6, <1>7, <2>2 DEF Call
    <3> QED BY <3>1, <3>2 DEF Good
  <2> QED BY <2>1, <2>2
<1> QED BY <1>4, <1>7, <1>8

-----------------------------------------------------------------------------
(***************************************************************************)
(* The steps.                                                              *)
(***************************************************************************)

\* A call that knows nothing knows it soundly.
LEMMA IdleGood ==
  /\ Idle \in Call
  /\ Unloaded \in View
  /\ \A g \in Fixtures, e \in BOOLEAN, c \in BOOLEAN : Good(Unloaded, g, e, c)
<1>1. Unloaded \in View
  BY DEF Unloaded, View, Statuses
<1>2. Absent \in Payload
  BY DEF Absent, Payload, Statuses
<1>3. Idle \in Call
  BY <1>1, <1>2, SyncAssumption DEF Idle, Call
<1>4. \A g \in Fixtures, e \in BOOLEAN, c \in BOOLEAN : Good(Unloaded, g, e, c)
  BY DEF Good, Unloaded, LoadedBeforeChanged
<1> QED BY <1>1, <1>3, <1>4

\* A step of one call that commits nothing.
LEMMA CallStep ==
  ASSUME IInv, NEW s \in Syncs, NEW c \in Call,
         sync' = [sync EXCEPT ![s] = c],
         UNCHANGED <<status, score, world, age>>,
         \A g \in Fixtures : Good(c.view[g], g, score[g].data # NoScore, g \in c.points)
  PROVE  IInv'
<1>1. TypeOK'
  BY DEF IInv, TypeOK
<1>2. ASSUME NEW t \in Syncs, NEW g \in Fixtures
      PROVE  Good(sync'[t].view[g], g, score'[g].data # NoScore, g \in sync'[t].points)
  <2>1. CASE t = s
    BY <2>1 DEF IInv, TypeOK
  <2>2. CASE t # s
    <3>1. sync'[t] = sync[t] /\ score' = score
      BY <2>2 DEF IInv, TypeOK
    <3>2. Good(sync[t].view[g], g, score[g].data # NoScore, g \in sync[t].points)
      BY GoodIsViewInv DEF IInv, AllGood
    <3> QED BY <3>1, <3>2
  <2> QED BY <2>1, <2>2
<1>3. AllGood'
  BY <1>2 DEF AllGood
<1>4. ViewInv'
  BY <1>3, GoodIsViewInv, PTL
<1> QED BY <1>1, <1>4 DEF IInv

\* A step that may write rows, and of a call does no more than end it.
LEMMA RowStep ==
  ASSUME IInv,
         status' \in [Fixtures -> Statuses],
         score' \in [Fixtures -> Score],
         UNCHANGED <<world>> \/ world' \in [Fixtures -> {"pre", "play", "over", "published"}],
         UNCHANGED <<age>> \/ age' \in [Fixtures -> {"imminent", "window", "late", "old"}],
         \A f \in Fixtures : score[f].data # NoScore => score'[f].data # NoScore,
         sync' \in [Syncs -> Call],
         \A t \in Syncs : sync'[t] = sync[t] \/ sync'[t].view = Idle.view
  PROVE  IInv'
<1>1. TypeOK'
  BY DEF IInv, TypeOK
<1>2. ASSUME NEW t \in Syncs, NEW g \in Fixtures
      PROVE  Good(sync'[t].view[g], g, score'[g].data # NoScore, g \in sync'[t].points)
  <2>1. CASE sync'[t].view = Idle.view
    <3> DEFINE ex == score'[g].data # NoScore
               cnt == g \in sync'[t].points
    <3>1. sync'[t].view[g] = Unloaded
      BY <2>1 DEF Idle
    <3>2. ex \in BOOLEAN /\ cnt \in BOOLEAN
      OBVIOUS
    <3> HIDE DEF ex, cnt
    <3>3. Good(Unloaded, g, ex, cnt)
      BY <3>2, IdleGood
    <3> QED BY <3>1, <3>3 DEF ex, cnt
  <2>2. CASE sync'[t] = sync[t]
    <3>1. Good(sync[t].view[g], g, score[g].data # NoScore, g \in sync[t].points)
      BY GoodIsViewInv DEF IInv, AllGood
    <3>2. score[g].data # NoScore => score'[g].data # NoScore
      OBVIOUS
    <3> QED BY <2>2, <3>1, <3>2 DEF Good
  <2> QED BY <2>1, <2>2
<1>3. AllGood'
  BY <1>2 DEF AllGood
<1>4. ViewInv'
  BY <1>3, GoodIsViewInv, PTL
<1> QED BY <1>1, <1>4 DEF IInv

\* A call that begins has reports to apply and no views.
LEMMA BeginStep ==
  ASSUME IInv, NEW s \in Syncs, Begin(s)
  PROVE  IInv'
<1>1. PICK feed \in [Fixtures -> Payload] :
         sync' = [sync EXCEPT ![s].pc = "live", ![s].feed = feed]
  BY DEF Begin
<1> DEFINE c == [sync[s] EXCEPT !.pc = "live", !.feed = feed]
<1>2. sync[s] \in Call
  BY DEF IInv, TypeOK
<1>3. c \in Call /\ c.view = sync[s].view /\ c.points = sync[s].points
  BY <1>2 DEF Call
<1>4. sync' = [sync EXCEPT ![s] = c]
  BY <1>1
<1>5. \A g \in Fixtures :
        Good(sync[s].view[g], g, score[g].data # NoScore, g \in sync[s].points)
  BY GoodIsViewInv DEF IInv, AllGood
<1> HIDE DEF c
<1>6. \A g \in Fixtures : Good(c.view[g], g, score[g].data # NoScore, g \in c.points)
  BY <1>3, <1>5
<1> QED BY <1>3, <1>4, <1>6, CallStep DEF Begin

\* A live report changes the views of its call only.
LEMMA ApplyLiveStep ==
  ASSUME IInv, NEW s \in Syncs, NEW f \in Fixtures, ApplyLive(s, f)
  PROVE  IInv'
<1> DEFINE a == Apply(s, f, sync[s].feed[f])
           c == [a EXCEPT !.feed[f] = Absent]
<1>1. sync[s].feed[f] \in Payload
  BY DEF IInv, TypeOK, Call
<1>2. a \in Call
      /\ \A g \in Fixtures : Good(a.view[g], g, score[g].data # NoScore, g \in a.points)
  BY <1>1, ApplyGood DEF IInv
<1>3. Absent \in Payload
  BY DEF Absent, Payload, Statuses
<1>4. sync' = [sync EXCEPT ![s] = c]
  BY DEF ApplyLive
<1> HIDE DEF a
<1>5. c \in Call /\ c.view = a.view /\ c.points = a.points
  BY <1>2, <1>3 DEF Call
<1> HIDE DEF c
<1>6. \A g \in Fixtures : Good(c.view[g], g, score[g].data # NoScore, g \in c.points)
  BY <1>2, <1>5
<1> QED BY <1>4, <1>5, <1>6, CallStep DEF ApplyLive

\* The query for unresolved fixtures loads rows and changes none.
LEMMA FindUnresolvedStep ==
  ASSUME IInv, NEW s \in Syncs, FindUnresolved(s)
  PROVE  IInv'
<1> DEFINE first == InPlayOrMissed(s) \ sync[s].seen
           last == WithoutPenalties(s) \ sync[s].seen
           known(f) == [Unloaded EXCEPT !.loaded = TRUE, !.was = status[f], !.status = status[f]]
           view == [f \in Fixtures |->
                      IF f \in first \cup last /\ ~sync[s].view[f].loaded
                      THEN known(f) ELSE sync[s].view[f]]
           c == [sync[s] EXCEPT !.pc = "resolve", !.first = first, !.last = last, !.view = view]
<1>1. sync[s] \in Call /\ status \in [Fixtures -> Statuses]
  BY DEF IInv, TypeOK
<1>2. first \in SUBSET Fixtures /\ last \in SUBSET Fixtures
  BY SyncAssumption DEF InPlayOrMissed, WithoutPenalties
<1>3. ASSUME NEW f \in Fixtures
      PROVE  /\ known(f) \in View
             /\ known(f).status = status[f] /\ known(f).was = status[f]
             /\ ~known(f).ws /\ ~known(f).wd /\ ~known(f).scored /\ known(f).loaded
  BY <1>1, IdleGood DEF View, Unloaded
<1>4. sync' = [sync EXCEPT ![s] = c]
  BY DEF FindUnresolved
<1> HIDE DEF first, last, known
<1>5. view \in [Fixtures -> View]
  BY <1>1, <1>3 DEF Call
<1>6. ASSUME NEW g \in Fixtures
      PROVE  Good(view[g], g, score[g].data # NoScore, g \in sync[s].points)
  <2>1. view[g] = known(g) \/ view[g] = sync[s].view[g]
    OBVIOUS
  <2>2. Good(sync[s].view[g], g, score[g].data # NoScore, g \in sync[s].points)
    BY GoodIsViewInv DEF IInv, AllGood
  <2>3. Good(known(g), g, score[g].data # NoScore, g \in sync[s].points)
    BY <1>3 DEF Good, LoadedBeforeChanged
  <2> QED BY <2>1, <2>2, <2>3
<1> HIDE DEF view
<1>7. c \in Call /\ c.view = view /\ c.points = sync[s].points
  BY <1>1, <1>2, <1>5 DEF Call
<1> HIDE DEF c
<1>8. \A g \in Fixtures : Good(c.view[g], g, score[g].data # NoScore, g \in c.points)
  BY <1>6, <1>7
<1> QED BY <1>4, <1>7, <1>8, CallStep DEF FindUnresolved

\* A fetched report changes the views of its call only, and one that is missing nothing.
LEMMA ResolveStep ==
  ASSUME IInv, NEW s \in Syncs, NEW f \in Fixtures, Resolve(s, f)
  PROVE  IInv'
<1>1. PICK p \in FootballDataReports(f) :
         sync' = [sync EXCEPT ![s] =
           [(IF p = Absent THEN sync[s] ELSE Apply(s, f, p)) EXCEPT
              !.first = @ \ {f}, !.last = @ \ {f}, !.fetches = @ + 1]]
  BY DEF Resolve
<1> DEFINE a == IF p = Absent THEN sync[s] ELSE Apply(s, f, p)
           c == [a EXCEPT !.first = @ \ {f}, !.last = @ \ {f}, !.fetches = @ + 1]
<1>2. p \in Payload
  BY <1>1, ReportTypes DEF IInv, TypeOK
<1>3. /\ a \in Call
      /\ a.fetches = sync[s].fetches
      /\ \A g \in Fixtures : Good(a.view[g], g, score[g].data # NoScore, g \in a.points)
  <2>1. CASE p = Absent
    <3>1. sync[s] \in Call
      BY DEF IInv, TypeOK
    <3>2. \A g \in Fixtures :
            Good(sync[s].view[g], g, score[g].data # NoScore, g \in sync[s].points)
      BY GoodIsViewInv DEF IInv, AllGood
    <3>3. a = sync[s]
      BY <2>1
    <3> HIDE DEF a
    <3> QED BY <3>1, <3>2, <3>3
  <2>2. CASE p # Absent
    <3>1. a = Apply(s, f, p)
      BY <2>2
    <3> HIDE DEF a
    <3> QED BY <1>2, <3>1, ApplyGood DEF IInv
  <2> QED BY <2>1, <2>2
<1>4. sync[s].fetches # MaxFetches /\ sync[s].fetches \in 0..MaxFetches
  BY DEF Resolve, ToFetch, IInv, TypeOK, Call
<1>5. sync' = [sync EXCEPT ![s] = c]
  BY <1>1
<1> HIDE DEF a
<1>6. c \in Call /\ c.view = a.view /\ c.points = a.points
  <2>1. a.fetches + 1 \in 0..MaxFetches
    BY <1>3, <1>4, SyncAssumption
  <2>2. a.first \ {f} \in SUBSET Fixtures /\ a.last \ {f} \in SUBSET Fixtures
    BY <1>3 DEF Call
  <2> QED BY <1>3, <2>1, <2>2 DEF Call
<1> HIDE DEF c
<1>7. \A g \in Fixtures : Good(c.view[g], g, score[g].data # NoScore, g \in c.points)
  BY <1>3, <1>6
<1> QED BY <1>5, <1>6, <1>7, CallStep DEF Resolve

\* A commit writes what the views changed: no row loses its score under another call.
LEMMA CommitStep ==
  ASSUME IInv, NEW s \in Syncs, Commit(s)
  PROVE  IInv'
<1> DEFINE v == sync[s].view
           c == IF sync[s].points = {} THEN Idle
                ELSE [Idle EXCEPT !.pc = "signal", !.points = sync[s].points]
<1>1. sync[s] \in Call /\ v \in [Fixtures -> View]
  BY DEF IInv, TypeOK, Call
<1>2. status' \in [Fixtures -> Statuses]
  BY <1>1 DEF Commit, IInv, TypeOK, View
<1>3. score' \in [Fixtures -> Score]
  BY <1>1 DEF Commit, IInv, TypeOK, View, Score
<1>4. ASSUME NEW f \in Fixtures, score[f].data # NoScore
      PROVE  score'[f].data # NoScore
  <2>1. v[f].wd => v[f].data # NoScore
    BY DEF IInv, ViewInv, RowsLast
  <2>2. score'[f] = IF v[f].wd THEN [score[f] EXCEPT !.data = v[f].data] ELSE score[f]
    BY DEF Commit
  <2> QED BY <1>4, <2>1, <2>2 DEF IInv, TypeOK, Score
<1>5. c \in Call /\ c.view = Idle.view
  BY <1>1, IdleGood DEF Call
<1>6. sync' = [sync EXCEPT ![s] = c]
  BY DEF Commit
<1> HIDE DEF c
<1>7. sync' \in [Syncs -> Call] /\ \A t \in Syncs : sync'[t] = sync[t] \/ sync'[t].view = Idle.view
  BY <1>5, <1>6 DEF IInv, TypeOK
<1> QED BY <1>2, <1>3, <1>4, <1>7, RowStep DEF Commit

\* A call that signals or fails writes nothing and forgets its views.
LEMMA EndStep ==
  ASSUME IInv, NEW s \in Syncs, Signal(s) \/ Raise(s)
  PROVE  IInv'
<1>1. sync' = [sync EXCEPT ![s] = Idle] /\ UNCHANGED <<status, score, world, age>>
  BY DEF Signal, Raise
<1>2. sync' \in [Syncs -> Call] /\ \A t \in Syncs : sync'[t] = sync[t] \/ sync'[t].view = Idle.view
  BY <1>1, IdleGood DEF IInv, TypeOK
<1> QED BY <1>1, <1>2, RowStep DEF IInv, TypeOK

\* The administrator's edits take no score away.
LEMMA AdminStep ==
  ASSUME IInv, NEW f \in Fixtures,
         \/ \E verified \in Corrections : UpdateScore(f, verified)
         \/ \E st \in Edits : UpdateStatus(f, st)
  PROVE  IInv'
<1>1. CASE \E verified \in Corrections : UpdateScore(f, verified)
  <2>1. PICK verified \in BOOLEAN : UpdateScore(f, verified)
    BY <1>1, SyncAssumption
  <2>2. [data |-> "manual", verified |-> verified] \in Score /\ "manual" # NoScore
    BY DEF Score, Data, NoScore
  <2>3. score' \in [Fixtures -> Score]
    BY <2>1, <2>2 DEF UpdateScore, IInv, TypeOK
  <2>4. status' \in [Fixtures -> Statuses]
    BY <2>1 DEF UpdateScore, IInv, TypeOK, Statuses
  <2>5. \A g \in Fixtures : score[g].data # NoScore => score'[g].data # NoScore
    BY <2>1, <2>2 DEF UpdateScore, IInv, TypeOK
  <2> QED BY <2>1, <2>3, <2>4, <2>5, RowStep DEF UpdateScore, IInv, TypeOK
<1>2. CASE \E st \in Edits : UpdateStatus(f, st)
  <2>1. PICK st \in Statuses : UpdateStatus(f, st)
    BY <1>2, SyncAssumption DEF Statuses
  <2>2. status' \in [Fixtures -> Statuses]
    BY <2>1 DEF UpdateStatus, IInv, TypeOK
  <2> QED BY <2>1, <2>2, RowStep DEF UpdateStatus, IInv, TypeOK
<1> QED BY <1>1, <1>2

\* The match and the clock change nothing a call knows.
LEMMA WorldStep ==
  ASSUME IInv, NEW f \in Fixtures, Progress(f) \/ TimePasses(f)
  PROVE  IInv'
<1>1. CASE Progress(f)
  <2>1. world' \in [Fixtures -> {"pre", "play", "over", "published"}]
    BY <1>1 DEF Progress, IInv, TypeOK
  <2> QED BY <1>1, <2>1, RowStep DEF Progress, IInv, TypeOK
<1>2. CASE TimePasses(f)
  <2>1. age' \in [Fixtures -> {"imminent", "window", "late", "old"}]
    BY <1>2 DEF TimePasses, IInv, TypeOK
  <2> QED BY <1>2, <2>1, RowStep DEF TimePasses, IInv, TypeOK
<1> QED BY <1>1, <1>2

\* No call is under way and no score recorded.
LEMMA InitInv == Init => IInv
<1> SUFFICES ASSUME Init PROVE IInv
  OBVIOUS
<1>1. TypeOK
  BY IdleGood DEF Init, TypeOK, Statuses, Score, Data
<1>2. AllGood
  <2> SUFFICES ASSUME NEW s \in Syncs, NEW g \in Fixtures
               PROVE  Good(sync[s].view[g], g, score[g].data # NoScore, g \in sync[s].points)
    BY DEF AllGood
  <2>1. sync[s].view[g] = Unloaded
    BY DEF Init, Idle
  <2>2. Good(Unloaded, g, FALSE, FALSE)
    BY IdleGood
  <2> QED BY <2>1, <2>2 DEF Good
<1> QED BY <1>1, <1>2, GoodIsViewInv DEF IInv

\* The inductive invariant holds in every reachable state.
LEMMA Invariant == Spec => []IInv
<1>1. ASSUME IInv, [Next]_vars
      PROVE  IInv'
  <2>1. CASE \E s \in Syncs : Begin(s)
    BY <1>1, <2>1, BeginStep
  <2>2. CASE \E s \in Syncs, f \in Fixtures : ApplyLive(s, f)
    BY <1>1, <2>2, ApplyLiveStep
  <2>3. CASE \E s \in Syncs : FindUnresolved(s)
    BY <1>1, <2>3, FindUnresolvedStep
  <2>4. CASE \E s \in Syncs, f \in Fixtures : Resolve(s, f)
    BY <1>1, <2>4, ResolveStep
  <2>5. CASE \E s \in Syncs : Commit(s)
    BY <1>1, <2>5, CommitStep
  <2>6. CASE \E s \in Syncs : Signal(s) \/ Raise(s)
    BY <1>1, <2>6, EndStep
  <2>7. CASE \/ \E f \in Fixtures, verified \in Corrections : UpdateScore(f, verified)
             \/ \E f \in Fixtures, st \in Edits : UpdateStatus(f, st)
    BY <1>1, <2>7, AdminStep
  <2>8. CASE \E f \in Fixtures : Progress(f) \/ TimePasses(f)
    BY <1>1, <2>8, WorldStep
  <2>9. CASE UNCHANGED vars
    BY <1>1, <2>9 DEF vars, IInv, TypeOK, ViewInv, GuardsHold, RowsLast, PointsCounted
  <2> QED BY <1>1, <2>1, <2>2, <2>3, <2>4, <2>5, <2>6, <2>7, <2>8, <2>9 DEF Next
<1> QED BY <1>1, InitInv, PTL DEF Spec

-----------------------------------------------------------------------------
(***************************************************************************)
(* What follows for the database.                                          *)
(***************************************************************************)

\* Who can write: an admin leaves every call as it is; a call writes when it ends its
\* transaction, exactly the columns its views changed.
LEMMA Writers ==
  ASSUME IInv, [Next]_vars, sync' # sync \/ UNCHANGED vars
  PROVE  \/ UNCHANGED <<status, score>>
         \/ \E s \in Syncs :
              /\ Commit(s)
              /\ Committing(s)
<1>1. ASSUME NEW s \in Syncs, Commit(s)
      PROVE  Committing(s)
  BY <1>1, IdleGood DEF Commit, Done, Committing, IInv, TypeOK, Idle, Call
<1>2. ASSUME NEW f \in Fixtures,
             \/ \E verified \in Corrections : UpdateScore(f, verified)
             \/ \E st \in Edits : UpdateStatus(f, st)
      PROVE  sync' = sync
  BY <1>2 DEF UpdateScore, UpdateStatus
<1>3. CASE UNCHANGED vars
  BY <1>3 DEF vars
<1>4. CASE Next /\ sync' # sync
  BY <1>1, <1>2, <1>4
     DEF Next, Begin, ApplyLive, FindUnresolved, Resolve, Signal, Raise, Progress, TimePasses
<1> QED BY <1>3, <1>4

\* A final is taken back only by the admin, by a call that had loaded the fixture before
\* it was finished, or by a bare knockout final: the guards of _apply_external_score hold
\* for any number of concurrent calls.
THEOREM ResultsAreNotTakenBack == Spec => ResultsStand
<1>1. ASSUME IInv, [Next]_vars, NEW f \in Fixtures,
             status[f] = "finished", status'[f] # "finished", sync' # sync
      PROVE  \E s \in Syncs :
               /\ Committing(s)
               /\ sync[s].view[f].ws
               /\ sync[s].view[f].was # "finished" \/ f \in Knockout
  <2>1. PICK s \in Syncs : Commit(s) /\ Committing(s)
    BY <1>1, Writers
  <2>2. sync[s].view[f].ws /\ sync[s].view[f].status # "finished"
    BY <1>1, <2>1 DEF Commit
  <2>3. sync[s].view[f].was = "finished" /\ f \notin Knockout => sync[s].view[f].status = "finished"
    BY <1>1 DEF IInv, ViewInv, GuardsHold
  <2> QED BY <2>1, <2>2, <2>3
<1>2. IInv /\ [Next]_vars =>
        [\A f \in Fixtures : status[f] = "finished" /\ status'[f] # "finished" =>
          \/ sync' = sync
          \/ \E s \in Syncs :
                /\ Committing(s)
                /\ sync[s].view[f].ws
                /\ sync[s].view[f].was # "finished" \/ f \in Knockout]_vars
  BY <1>1
<1> QED BY <1>2, Invariant, PTL DEF Spec, ResultsStand

\* A verified score is overwritten only by the admin, or by a call that had read it before
\* it was verified.
THEOREM VerifiedScoresAreLocked == Spec => VerifiedOverwrittenOnlyStale
<1>1. ASSUME IInv, [Next]_vars, NEW f \in Fixtures,
             score[f].verified, score'[f].data # score[f].data, sync' # sync
      PROVE  \E s \in Syncs :
               Committing(s) /\ sync[s].view[f].wd /\ ~sync[s].view[f].verified
  <2>1. PICK s \in Syncs : Commit(s) /\ Committing(s)
    BY <1>1, Writers
  <2>2. sync[s].view[f].wd
    BY <1>1, <2>1 DEF Commit
  <2>3. ~sync[s].view[f].verified
    BY <1>1, <2>2 DEF IInv, ViewInv, GuardsHold
  <2> QED BY <2>1, <2>2, <2>3
<1>2. IInv /\ [Next]_vars =>
        [\A f \in Fixtures : score[f].verified /\ score'[f].data # score[f].data =>
          \/ sync' = sync
          \/ \E s \in Syncs :
                Committing(s) /\ sync[s].view[f].wd /\ ~sync[s].view[f].verified]_vars
  BY <1>1
<1> QED BY <1>2, Invariant, PTL DEF Spec, VerifiedOverwrittenOnlyStale

\* No call finishes a match without its score.
THEOREM NoFinalIsFabricated == Spec => FinalsHaveScores
<1>1. ASSUME IInv, [Next]_vars, NEW f \in Fixtures,
             status'[f] = "finished", score'[f].data = NoScore,
             status[f] # "finished", sync' # sync
      PROVE  FALSE
  <2>1. PICK s \in Syncs : Commit(s)
    BY <1>1, Writers
  <2> DEFINE v == sync[s].view[f]
  <2>2. v.ws /\ v.status = "finished"
    BY <1>1, <2>1 DEF Commit
  <2>3. v.data # NoScore /\ v.scored
    BY <1>1, <2>2 DEF IInv, ViewInv, GuardsHold, LoadedBeforeChanged
  <2>4. CASE v.wd
    <3>1. score'[f] = [score[f] EXCEPT !.data = v.data] /\ score[f] \in Score
      BY <1>1, <2>1, <2>4 DEF Commit, IInv, TypeOK
    <3> QED BY <1>1, <2>3, <3>1 DEF Score
  <2>5. CASE ~v.wd
    <3>1. score'[f] = score[f]
      BY <2>1, <2>5 DEF Commit
    <3>2. score[f].data # NoScore
      BY <1>1, <2>3, <2>5 DEF IInv, ViewInv, RowsLast
    <3> QED BY <1>1, <3>1, <3>2
  <2> QED BY <2>4, <2>5
<1>2. IInv /\ [Next]_vars =>
        [\A f \in Fixtures :
          status'[f] = "finished" /\ score'[f].data = NoScore =>
              status[f] = "finished" \/ sync' = sync]_vars
  BY <1>1
<1> QED BY <1>2, Invariant, PTL DEF Spec, FinalsHaveScores

\* Points given or corrected by a call are followed by its cache signal.
THEOREM PointsReachTheCaches == Spec => PointsAreSignalled
<1>1. ASSUME IInv, [Next]_vars, NEW s \in Syncs, NEW f \in Fixtures,
             Committing(s), sync[s].view[f].status = "finished",
             Points(f)' \notin {Points(f), NoScore}
      PROVE  sync'[s].pc = "signal" /\ f \in sync'[s].points
  <2>1. sync' # sync
    BY <1>1 DEF Committing
  <2>2. PICK t \in Syncs : Commit(t) /\ Committing(t)
    BY <1>1, <2>1, Writers DEF Points
  <2>3. t = s
    BY <1>1, <2>2 DEF Commit, Committing, IInv, TypeOK
  <2> DEFINE v == sync[s].view[f]
  <2>4. v.ws \/ v.wd
    BY <1>1, <2>2, <2>3 DEF Commit, Points
  <2>5. f \in sync[s].points
    BY <1>1, <2>4 DEF IInv, ViewInv, PointsCounted
  <2>6. sync'[s] = [Idle EXCEPT !.pc = "signal", !.points = sync[s].points]
    BY <1>1, <2>2, <2>3, <2>5 DEF Commit, IInv, TypeOK
  <2> QED BY <2>5, <2>6, IdleGood DEF Call, Idle
<1>2. IInv /\ [Next]_vars =>
        [\A s \in Syncs, f \in Fixtures :
          /\ Committing(s)
          /\ sync[s].view[f].status = "finished"
          /\ Points(f)' \notin {Points(f), NoScore}
          => sync'[s].pc = "signal" /\ f \in sync'[s].points]_vars
  BY <1>1
<1> QED BY <1>2, Invariant, PTL DEF Spec, PointsAreSignalled
=============================================================================
