---------------------------- MODULE MatchReports ----------------------------
(***************************************************************************)
(* What a match report becomes on its way to the scores table: the parsers *)
(* of ESPN's and Football-Data's payloads (services/external_scores.py,    *)
(* services/external), the 90-minute freeze of score_sync, and the fixture *)
(* import that writes the same rows (services/fixture_sync.py).            *)
(*                                                                         *)
(* ScoreSync models the concurrency of the calls and keeps a score opaque; *)
(* here one match is played goal by goal and one poll is one step.  The    *)
(* database pays the 90-minute result and the team that goes through; the  *)
(* providers report a running total, the periods added up or apart, and a  *)
(* shootout that may be folded into the total or misreported.              *)
(*                                                                         *)
(* A pair <<home, away>> counts goals; Null is a value the payload or the  *)
(* row lacks.  Minutes, HALFTIME, CANCELLED and the verified flag are left *)
(* to ScoreSync.                                                           *)
(***************************************************************************)
EXTENDS Integers

CONSTANTS
    MaxGoals,  \* bound: goals of a side in regulation, and in extra time
    MaxKicks   \* bound: a side's goals in the shootout

VARIABLES
    match,    \* the match as it is played: never stored
    late,     \* more than four hours since kickoff
    listing,  \* the fixture list Football-Data last gave sync_from_api, as cached on disk
    fixture   \* the fixtures row and its scores row

reportVars == <<match, late, listing, fixture>>

-----------------------------------------------------------------------------
Null == <<>>
Nil0 == <<0, 0>>
Level(x) == x[1] = x[2]
OrZero(x) == IF x = Null THEN Nil0 ELSE x
Plus(x, y) == IF x = Null \/ y = Null THEN Null ELSE <<x[1] + y[1], x[2] + y[2]>>
Minus(x, y) == <<x[1] - y[1], x[2] - y[2]>>
AtMost(x, y) == x[1] <= y[1] /\ x[2] <= y[2]
Smaller(i, j) == IF i < j THEN i ELSE j

NoReport == [status |-> "none"]

ReportsInit ==
    /\ match \in {[stage |-> s, at |-> "before", known |-> s = "group", reg |-> Nil0,
                   et |-> Null, pens |-> Null] : s \in {"group", "knockout", "third_place"}}
    /\ late = FALSE
    /\ listing = [status |-> "scheduled", named |-> match.known]
    /\ fixture = [status |-> "scheduled", named |-> match.known, score |-> Null,
                  ninety |-> "missed", scored |-> TRUE]

-----------------------------------------------------------------------------
(***************************************************************************)
(* The match itself (external).                                            *)
(***************************************************************************)
Play == Plus(match.reg, OrZero(match.et))

Draw ==
    /\ ~match.known
    /\ match' = [match EXCEPT !.known = TRUE]
    /\ UNCHANGED <<late, listing, fixture>>

KickOff ==
    /\ match.at = "before" /\ match.known
    /\ match' = [match EXCEPT !.at = "reg"]
    /\ UNCHANGED <<late, listing, fixture>>

\* A goal in the running period, or the video assistant takes one of it back.
Goal(i) ==
    /\ \/ match.at = "reg" /\ match.reg[i] < MaxGoals /\ match' = [match EXCEPT !.reg[i] = @ + 1]
       \/ match.at = "et" /\ match.et[i] < MaxGoals /\ match' = [match EXCEPT !.et[i] = @ + 1]
       \/ match.at = "pens" /\ match.pens[i] < MaxKicks /\ match' = [match EXCEPT !.pens[i] = @ + 1]
    /\ UNCHANGED <<late, listing, fixture>>

Annul(i) ==
    /\ \/ match.at = "reg" /\ match.reg[i] > 0 /\ match' = [match EXCEPT !.reg[i] = @ - 1]
       \/ match.at = "et" /\ match.et[i] > 0 /\ match' = [match EXCEPT !.et[i] = @ - 1]
    /\ UNCHANGED <<late, listing, fixture>>

\* The end of a period.  History: the row holds the 90-minute result, or missed it.
Whistle ==
    /\ \/ /\ match.at = "reg"
          /\ IF match.stage # "group" /\ Level(match.reg)
             THEN match' = [match EXCEPT !.at = "et", !.et = Nil0]
             ELSE match' = [match EXCEPT !.at = "over"]
          /\ fixture' = [fixture EXCEPT
                !.ninety = IF fixture.score # Null /\ fixture.score.reg = match.reg
                           THEN "held" ELSE "missed"]
       \/ /\ match.at = "et"
          /\ IF Level(match.et) THEN match' = [match EXCEPT !.at = "pens", !.pens = Nil0]
                                ELSE match' = [match EXCEPT !.at = "over"]
          /\ UNCHANGED fixture
       \/ /\ match.at = "pens" /\ ~Level(match.pens)
          /\ match' = [match EXCEPT !.at = "over"]
          /\ UNCHANGED fixture
    /\ UNCHANGED <<late, listing>>

TimePasses ==
    /\ match.at # "before" /\ ~late /\ late' = TRUE
    /\ UNCHANGED <<match, listing, fixture>>

-----------------------------------------------------------------------------
(***************************************************************************)
(* Football-Data.  fullTime is everything added up, the shootout included; *)
(* regularTime and extraTime are the periods apart, absent in a match that *)
(* ends in 90 minutes and, at times, in one that does not; penalties may   *)
(* be level or missing although the shootout is over.                      *)
(***************************************************************************)
FootballDataStatuses ==
    CASE match.at = "before" -> {"scheduled"}
      [] match.at = "over"   -> {"scheduled", "live", "finished"}
      [] OTHER               -> {"live"}

Duration ==
    IF match.pens # Null THEN "PENALTY_SHOOTOUT"
    ELSE IF match.et # Null THEN "EXTRA_TIME" ELSE "REGULAR"

FootballDataSays ==
    [status   : FootballDataStatuses,
     full     : {Plus(Play, OrZero(match.pens))},
     regular  : IF match.et = Null THEN {Null} ELSE {match.reg, Null},
     extra    : IF match.et = Null THEN {Null} ELSE {match.et, Null},
     penalty  : IF match.pens = Null THEN {Null} ELSE {match.pens, Nil0, Null}]
    \cup (IF match.at \in {"before", "over"}
          THEN [status : FootballDataStatuses, full : {Null}, regular : {Null},
                extra : {Null}, penalty : {Null}]
          ELSE {})

\* _to_external_score.  The legs of a shootout are what fullTime holds beyond the play;
\* the reported ones are used where that is no result.
Legs(p) ==
    LET derived == Minus(Minus(p.full, p.regular), OrZero(p.extra))
    IN  IF /\ Duration = "PENALTY_SHOOTOUT" /\ p.full # Null /\ p.regular # Null
           /\ AtMost(Nil0, derived) /\ ~Level(derived)
        THEN derived ELSE p.penalty

FromFootballData(p) ==
    LET reg == IF p.regular # Null THEN p.regular ELSE p.full
        pens == Legs(p)
    IN  [status |-> p.status, id |-> TRUE, named |-> match.known,
         reg |-> OrZero(reg), et |-> Plus(p.regular, p.extra), pens |-> pens,
         bare |-> FALSE, auth |-> TRUE,
         has |-> /\ reg # Null
                 /\ Duration = "PENALTY_SHOOTOUT" => pens # Null /\ ~Level(pens),
         told |-> p.regular # Null \/ match.et = Null]

-----------------------------------------------------------------------------
(***************************************************************************)
(* ESPN.  The scoreboard has one running total; past regulation the        *)
(* event's summary lists the periods, when it can be read and when its     *)
(* list has caught up.                                                     *)
(***************************************************************************)
PastRegulation == match.et # Null

EspnStatus ==
    CASE match.at = "before" -> "scheduled" [] match.at = "over" -> "finished" [] OTHER -> "live"

Scoreboard ==
    [status |-> EspnStatus, id |-> FALSE, named |-> match.known,
     reg |-> Play, et |-> Null, pens |-> match.pens,
     bare |-> PastRegulation, auth |-> match.at = "over" /\ ~PastRegulation,
     has |-> TRUE, told |-> ~PastRegulation]

\* _parse_side: the score after extra time, from the periods listed (Null: not listed).
Listed(et) ==
    IF et # Null THEN Plus(match.reg, et) ELSE IF match.pens # Null THEN match.reg ELSE Null

\* parse_summary_split: a shootout has a winner, and the list adds up to the total.
Consistent(et) ==
    /\ match.pens # Null => ~Level(match.pens)
    /\ Listed(et) # Null => Listed(et) = Play

\* _enrich_knockout_splits overlays the split; the period stays, and freezes a row whose
\* split has no extra time.
Enriched(et) ==
    [Scoreboard EXCEPT !.reg = match.reg, !.et = Listed(et), !.pens = match.pens,
                       !.bare = Listed(et) = Null, !.auth = TRUE, !.told = Listed(et) # Null]

Summaries == {et \in {match.et, Null} : Consistent(et)}

\* fetch_live_scores: the event is skipped, bare, or enriched.
EspnSays ==
    {NoReport, Scoreboard}
    \cup (IF PastRegulation THEN {Enriched(et) : et \in Summaries} ELSE {})

\* FallbackScoreProvider: Football-Data's matches in play when ESPN raises.
LiveReports ==
    EspnSays \cup {FromFootballData(p) : p \in {q \in FootballDataSays : q.status = "live"}}

-----------------------------------------------------------------------------
(***************************************************************************)
(* _apply_external_score, on the fixture x.                                *)
(***************************************************************************)
ScoreBearing == {"live", "finished"}

\* The freeze of _score_fields_for: a knockout match past regulation, no split.
Frozen(e) == match.stage = "knockout" /\ e.bare

MutantNeverFrozen(x, e) == [reg |-> e.reg, et |-> e.et, pens |-> e.pens]

\* Frozen: the 90-minute result is the one captured before (else the running total), cut
\* to the running total, which is the score after extra time.
ScoreFields(x, e) ==
    IF ~Frozen(e) THEN [reg |-> e.reg, et |-> e.et, pens |-> e.pens]
    ELSE LET kept == IF x.score = Null THEN e.reg ELSE x.score.reg
         IN  [reg |-> <<Smaller(kept[1], e.reg[1]), Smaller(kept[2], e.reg[2])>>,
              et |-> e.reg, pens |-> e.pens]

\* A bare knockout final is painted LIVE for four hours after kickoff.
Deferred(e) ==
    e.status = "finished" /\ ~e.auth /\ match.stage = "knockout" /\ ~late

Effective(e) == IF Deferred(e) THEN "live" ELSE e.status

Refused(x, e) ==
    \/ x.status = "finished" /\ e.status # "finished"
    \/ Effective(e) \in ScoreBearing /\ ~e.has

\* History.  `scored`: the status came with the score beside it.  `ninety`: "held" once
\* the row has the 90-minute result, captured in regulation or told apart since; "lumped"
\* when a total of more than 90 minutes was then stored as one, which is what becomes of
\* a Football-Data report without regularTime, and of a bare total of a third-place match.
Written(x, e) ==
    LET w == IF e.id THEN [x EXCEPT !.named = @ \/ e.named] ELSE x
    IN  IF Refused(x, e) THEN w
        ELSE IF Effective(e) \notin ScoreBearing
        THEN [w EXCEPT !.status = Effective(e), !.scored = TRUE]
        ELSE [w EXCEPT !.status = Effective(e), !.score = ScoreFields(x, e), !.scored = TRUE,
                       !.ninety = IF Frozen(e) THEN @ ELSE IF e.told THEN "held" ELSE "lumped"]

\* Whether the poll counts the fixture as seen: a final deferred just now is not.
Seen(x, e) ==
    ~(/\ Deferred(e) /\ ~Refused(x, e)
      /\ <<x.status, x.score>> # <<"live", ScoreFields(x, e)>>)

\* _find_fixture: by external id, or by the names once the row has them.
Found(x, e) == e # NoReport /\ (e.id \/ (x.named /\ e.named))

\* _find_unresolved_fixtures: in play, missed, or a knockout final without penalties.
Unresolved(x) ==
    \/ x.status = "live"
    \/ x.status = "scheduled" /\ match.at # "before" /\ ~late
    \/ x.status = "finished" /\ match.stage # "group" /\ x.score # Null /\ x.score.pens = Null

\* One poll: the live report, then Football-Data's own of a fixture it did not settle.
Poll ==
    /\ \E e \in LiveReports :
         LET x == IF Found(fixture, e) THEN Written(fixture, e) ELSE fixture
         IN  IF Unresolved(x) /\ ~(Found(fixture, e) /\ Seen(fixture, e))
             THEN fixture' \in {x} \cup {Written(x, FromFootballData(p)) : p \in FootballDataSays}
             ELSE fixture' = x
    /\ UNCHANGED <<match, late, listing>>

-----------------------------------------------------------------------------
(***************************************************************************)
(* The other writers of the row.                                           *)
(***************************************************************************)
\* _upsert_fixtures writes the record's names and status over the row's: no guard, no score.
Upsert(r) ==
    fixture' = [fixture EXCEPT !.status = r.status, !.named = r.named,
                               !.scored = r.status = fixture.status /\ fixture.scored]

SyncFromApi ==
    /\ \E st \in FootballDataStatuses :
          LET r == [status |-> st, named |-> match.known]
          IN  Upsert(r) /\ listing' \in {listing, r}
    /\ UNCHANGED <<match, late>>

SyncFromCache ==
    /\ Upsert(listing)
    /\ UNCHANGED <<match, late, listing>>

\* PUT /fixtures/{fixture} and PATCH /fixtures/{fixture}/status.
SetStatus(st) ==
    /\ fixture' = [fixture EXCEPT !.status = st, !.scored = st = fixture.status /\ fixture.scored]
    /\ UNCHANGED <<match, late, listing>>

ReportsNext ==
    \/ Draw \/ KickOff \/ Whistle \/ TimePasses
    \/ \E i \in 1..2 : Goal(i) \/ Annul(i)
    \/ Poll \/ SyncFromApi \/ SyncFromCache
    \/ \E st \in {"scheduled", "live", "finished"} : SetStatus(st)

ReportsSpec == ReportsInit /\ [][ReportsNext]_reportVars

-----------------------------------------------------------------------------
(***************************************************************************)
(* Properties.                                                             *)
(***************************************************************************)
\* Score.outcome.
Compare(x) == IF x[1] > x[2] THEN "1" ELSE IF x[1] < x[2] THEN "2" ELSE "X"

Outcome(s) ==
    IF s.pens # Null THEN (IF s.pens[1] > s.pens[2] THEN "1" ELSE "2")
    ELSE IF s.et # Null THEN Compare(s.et) ELSE Compare(s.reg)

WentThrough == Compare(IF match.pens # Null THEN match.pens ELSE Play)

\* Whom a final may credit: a knockout row may be undecided.
Credit == {WentThrough} \cup (IF match.stage = "group" THEN {} ELSE {"X"})

(* The match points of a match that went on are paid from its 90-minute    *)
(* result: once captured, or told apart by a provider, no running total of *)
(* a knockout match, shootout, annulled goal, bare final or import moves   *)
(* it.  The exceptions: it was never captured; or a total was stored over  *)
(* it, of a Football-Data report past regulation without regularTime       *)
(* (external_scores.py:134-138), or of a bare one of a third-place match,  *)
(* which the freeze leaves out (score_sync.py:287-303).                    *)
NinetyKept ==
    PastRegulation =>
       fixture.ninety \in {"missed", "lumped"} \/ fixture.score.reg = match.reg

(* A final that came with its score never credits the wrong team, whatever *)
(* the providers left out of it: a knockout row is right or undecided, a   *)
(* group row right.  And goals only add up: the score after extra time is  *)
(* never below the 90-minute one.                                          *)
FinalsAreTrue ==
    /\ fixture.status = "finished" /\ fixture.scored /\ fixture.score # Null =>
          Outcome(fixture.score) \in Credit
    /\ fixture.score # Null /\ fixture.score.et # Null =>
          AtMost(fixture.score.reg, fixture.score.et)

-----------------------------------------------------------------------------
(***************************************************************************)
(* The inductive invariant.  How a match is played decides which sums and  *)
(* differences of its periods mean what the parsers take them for; the row *)
(* says no more of it than was told.                                       *)
(***************************************************************************)
Goals == [1..2 -> Nat]
Known == Goals \cup {Null}
Statuses == {"scheduled", "live", "finished"}
Ninety == {"missed", "held", "lumped"}

ReportsTypeOK ==
    /\ match \in [stage : {"group", "knockout", "third_place"},
                  at : {"before", "reg", "et", "pens", "over"}, known : BOOLEAN,
                  reg : Goals, et : Known, pens : Known]
    /\ listing \in [status : Statuses, named : BOOLEAN]
    /\ fixture \in [status : Statuses, named : BOOLEAN,
                    score : {Null} \cup [reg : Goals, et : Known, pens : Known],
                    ninety : Ninety, scored : BOOLEAN]

AsPlayed ==
    /\ match.at \in {"before", "reg"} => match.et = Null
    /\ match.at = "et" => match.et # Null /\ match.pens = Null
    /\ match.at = "pens" => match.pens # Null
    /\ match.et # Null => match.stage # "group" /\ Level(match.reg)
    /\ match.pens # Null => match.et # Null /\ Level(match.et)
    /\ match.at = "over" /\ match.pens # Null => ~Level(match.pens)

RowHolds(x) ==
    /\ x.ninety = "held" => x.score # Null /\ (PastRegulation => x.score.reg = match.reg)
    /\ x.status = "finished" /\ x.scored /\ x.score # Null =>
          match.at = "over" /\ Outcome(x.score) \in Credit
    /\ x.score # Null /\ x.score.et # Null => AtMost(x.score.reg, x.score.et)

ReportsIInv == ReportsTypeOK /\ AsPlayed /\ RowHolds(fixture)
=============================================================================
