----------------------------- MODULE LiveBoard -----------------------------
(***************************************************************************)
(* The live board: the knockout projection that                            *)
(* backend/app/services/live_projection.py lays over the cached board of   *)
(* services/leaderboard.py while a match is played, and its other reader,  *)
(* the final audit (services/final_audit.py).  A tie is played, its winner *)
(* is named in the next round's fixture, and a page takes the board first, *)
(* the live matches next and the banked advancement last, each from the    *)
(* newest commit of its own moment.  LeaderboardCache has the cache in     *)
(* full; here it is one board, built by one coroutine at a time.           *)
(***************************************************************************)
EXTENDS Naturals

CONSTANTS
    Sides,         \* the two teams of the tie
    NoTeam         \* a slot placeholder, or no leader

ASSUME SidesAssumption == NoTeam \notin Sides

VARIABLES
    tie,           \* the tie's fixture and score
    next,          \* who is named in the next round's fixture, and whether they won it
    scoring,       \* knockout scoring off, banked only, or projected live as well
    cache,         \* the board in _cache
    rebuild,       \* the rebuild in flight
    pending,       \* a commit whose invalidate_cache is still to come
    reader         \* a page or an audit under way

liveVars == <<tie, next, scoring, cache, rebuild, pending, reader>>

-----------------------------------------------------------------------------
(* A credit <<t, n>>: t got n rounds further than this one.                *)
Credits == Sides \X (1..2)

(* What a board, or whoever holds one, has missed since it was read: a     *)
(* result taken back ("undone"), a team named in the next round, which     *)
(* signals nothing ("seeded"), and a commit whose invalidation it did not  *)
(* wait for ("race"): a rebuild in flight across the invalidation, or a    *)
(* reader that took its board before it.                                   *)
Tags == {"undone", "seeded", "race"}

NoCache == [there |-> FALSE, credits |-> {}, stale |-> FALSE, tags |-> {}]
NoRebuild == [stage |-> "none", own |-> FALSE, credits |-> {}, tags |-> {}]
NoReader == [stage |-> "idle", kind |-> "page", base |-> {}, other |-> {}, tags |-> {}]

HeldBoard == [there : BOOLEAN, credits : SUBSET Credits, stale : BOOLEAN, tags : SUBSET Tags]
Rebuilding == [stage : {"none", "started", "read"}, own : BOOLEAN,
            credits : SUBSET Credits, tags : SUBSET Tags]
Reader == [stage : {"idle", "rescored", "waiting", "taken", "looked"},
           kind : {"page", "audit"}, base : SUBSET Credits,
           other : SUBSET Credits, tags : SUBSET Tags]

LiveTypeOK ==
    /\ tie \in [status : {"scheduled", "live", "finished"}, leads : Sides \cup {NoTeam}]
    /\ next \in [named : Sides \cup {NoTeam}, won : BOOLEAN]
    /\ scoring \in {"off", "banked", "live"}
    /\ cache \in HeldBoard /\ rebuild \in Rebuilding /\ pending \in BOOLEAN /\ reader \in Reader

LiveInit ==
    /\ tie = [status |-> "scheduled", leads |-> NoTeam]
    /\ next = [named |-> NoTeam, won |-> FALSE]
    /\ scoring = "live"
    /\ cache = NoCache /\ rebuild = NoRebuild /\ pending = FALSE /\ reader = NoReader

-----------------------------------------------------------------------------
(* get_actual_advancement: named in a round's fixture, or winner of a      *)
(* finished one, whichever takes the team further.                         *)
StageReached(t) ==
    IF next.named = t /\ next.won THEN 2
    ELSE IF next.named = t \/ (tie.status = "finished" /\ tie.leads = t) THEN 1
    ELSE 0

Banked == {c \in Credits : StageReached(c[1]) >= c[2]}
Paid == IF scoring # "off" THEN Banked ELSE {}

(* Add a tag to the boards that are read and to the reader under way.      *)
With(x, tag, applies) == IF applies THEN [x EXCEPT !.tags = @ \cup {tag}] ELSE x
Tell(tag) ==
    /\ cache' = With(cache, tag, cache.there)
    /\ rebuild' = With(rebuild, tag, rebuild.stage = "read")
    /\ reader' = With(reader, tag, reader.stage # "idle")

-----------------------------------------------------------------------------
(* score_sync and the admin's editors.  A live score says nothing to the   *)
(* cache; a knockout finish commits, then invalidates.                     *)
Score(lead) ==
    /\ tie.status = "scheduled" \/ (tie.status = "live" /\ tie.leads # lead)
    /\ tie' = [status |-> "live", leads |-> lead]
    /\ reader' = With(reader, "race", reader.stage # "idle")
    /\ UNCHANGED <<next, scoring, cache, rebuild, pending>>

(* A level match is decided by penalties.                                  *)
Finish(winner) ==
    /\ tie.status = "live" /\ tie.leads \in {winner, NoTeam}
    /\ tie' = [status |-> "finished", leads |-> winner]
    /\ pending' = TRUE
    /\ reader' = With(reader, "race", reader.stage # "idle")
    /\ UNCHANGED <<next, scoring, cache, rebuild>>

MutantExpires ==
    /\ pending
    /\ cache' = [cache EXCEPT !.stale = TRUE]
    /\ rebuild' = With(rebuild, "race", rebuild.stage = "read")
    /\ pending' = FALSE
    /\ UNCHANGED <<tie, next, scoring, reader>>
(* invalidate_cache drops the board; a rebuild that has read stores later. *)
Invalidate ==
    /\ pending
    /\ cache' = NoCache
    /\ rebuild' = With(rebuild, "race", rebuild.stage = "read")
    /\ pending' = FALSE
    /\ UNCHANGED <<tie, next, scoring, reader>>

(* update_fixture_status un-finishes a match and signals nothing;          *)
(* update_score corrects one, and signals.                                 *)
UnFinish ==
    /\ tie.status = "finished" /\ tie' = [tie EXCEPT !.status = "live"]
    /\ Tell("undone")
    /\ UNCHANGED <<next, scoring, pending>>

Correct ==
    /\ tie.status = "finished"
    /\ \E t \in Sides \ {tie.leads} : tie' = [tie EXCEPT !.leads = t]
    /\ pending' = TRUE
    /\ Tell("undone")
    /\ UNCHANGED <<next, scoring>>

(* The feed names the winner in the next round, whatever the tie's status. *)
Seed(t) ==
    /\ next.named = NoTeam /\ t = tie.leads
    /\ next' = [next EXCEPT !.named = t]
    /\ Tell("seeded")
    /\ UNCHANGED <<tie, scoring, pending>>

WinNext ==
    /\ next.named # NoTeam /\ ~next.won
    /\ next' = [next EXCEPT !.won = TRUE] /\ pending' = TRUE
    /\ reader' = With(reader, "race", reader.stage # "idle")
    /\ UNCHANGED <<tie, scoring, cache, rebuild>>

(* set_knockout_scoring_enabled invalidates, set_live_projection_enabled   *)
(* has no need to.                                                         *)
Switch ==
    /\ \E g \in {"off", "banked", "live"} \ {scoring} :
          /\ scoring' = g
          /\ IF "off" \in {g, scoring} THEN pending' = TRUE ELSE UNCHANGED pending
    /\ reader' = With(reader, "race", reader.stage # "idle")
    /\ UNCHANGED <<tie, next, cache, rebuild>>

-----------------------------------------------------------------------------
(* calculate_leaderboard.  A stale board is served and rebuilt behind the  *)
(* request's back; a cold cache makes the request rebuild.                 *)
Start(own) == [NoRebuild EXCEPT !.stage = "started", !.own = own]

Held(board, kind, other) ==
    [stage |-> "taken", kind |-> kind, base |-> board.credits, other |-> other,
     tags |-> reader.tags \cup board.tags \cup (IF pending THEN {"race"} ELSE {})]

Ask(kind, other) ==
    \/ /\ cache.there
       /\ reader' = Held(cache, kind, other)
       /\ rebuild' = IF cache.stale /\ rebuild.stage = "none" THEN Start(FALSE) ELSE rebuild
    \/ /\ ~cache.there /\ rebuild.stage = "none"
       /\ reader' = [reader EXCEPT !.stage = "waiting", !.kind = kind, !.other = other]
       /\ rebuild' = Start(TRUE)

GetBoard ==
    /\ reader.stage = "idle"
    /\ Ask("page", {})
    /\ UNCHANGED <<tie, next, scoring, cache, pending>>

ReadInputs ==
    /\ rebuild.stage = "started"
    /\ rebuild' = [rebuild EXCEPT !.stage = "read", !.credits = Paid]
    /\ UNCHANGED <<tie, next, scoring, cache, pending, reader>>

StoreBoard ==
    /\ rebuild.stage = "read"
    /\ cache' = [there |-> TRUE, credits |-> rebuild.credits, stale |-> FALSE,
                 tags |-> rebuild.tags]
    /\ reader' = IF rebuild.own THEN Held(rebuild, reader.kind, reader.other) ELSE reader
    /\ rebuild' = NoRebuild
    /\ UNCHANGED <<tie, next, scoring, pending>>

(* expire_cache after a group result, or 30 seconds gone by.               *)
Expire ==
    /\ cache.there /\ ~cache.stale
    /\ cache' = [cache EXCEPT !.stale = TRUE]
    /\ UNCHANGED <<tie, next, scoring, rebuild, pending, reader>>

-----------------------------------------------------------------------------
(* apply_live_projection: gates and live matches, then what is banked.  A  *)
(* level match has no leader, so penalties are not projected.              *)
Leading == {<<t, 1>> : t \in {t \in Sides : tie.status = "live" /\ tie.leads = t}}

LookForLive ==
    /\ reader.stage = "taken" /\ reader.kind = "page"
    /\ reader' = [reader EXCEPT !.stage = "looked",
                                !.other = IF scoring = "live" THEN Leading ELSE {}]
    /\ UNCHANGED <<tie, next, scoring, cache, rebuild, pending>>

MutantEveryAdvance == reader.other
(* _already_banked: the team reached that stage, or a later one.           *)
Deltas == reader.other \ Banked

(* project_rows works on copies: the cached rows stay as they are.         *)
ServePage ==
    /\ reader.stage = "looked"
    /\ reader' = NoReader
    /\ UNCHANGED <<tie, next, scoring, cache, rebuild, pending>>

(* run_final_audit scores from scratch first, and then takes the board.    *)
Rescore ==
    /\ reader.stage = "idle"
    /\ reader' = [NoReader EXCEPT !.stage = "rescored", !.kind = "audit", !.other = Paid]
    /\ UNCHANGED <<tie, next, scoring, cache, rebuild, pending>>

AuditBoard ==
    /\ reader.stage = "rescored" /\ Ask("audit", reader.other)
    /\ UNCHANGED <<tie, next, scoring, cache, pending>>

Report ==
    /\ reader.stage = "taken" /\ reader.kind = "audit"
    /\ reader' = NoReader
    /\ UNCHANGED <<tie, next, scoring, cache, rebuild, pending>>

-----------------------------------------------------------------------------
(* A restart forgets the cache, every request, and the pending signal.     *)
Crash ==
    /\ cache' = NoCache /\ rebuild' = NoRebuild /\ reader' = NoReader /\ pending' = FALSE
    /\ UNCHANGED <<tie, next, scoring>>

LiveNext ==
    \/ \E lead \in Sides \cup {NoTeam} : Score(lead)
    \/ \E t \in Sides : Finish(t) \/ Seed(t)
    \/ Invalidate \/ UnFinish \/ Correct \/ WinNext \/ Switch
    \/ GetBoard \/ ReadInputs \/ StoreBoard \/ Expire
    \/ LookForLive \/ ServePage
    \/ Rescore \/ AuditBoard \/ Report \/ Crash

LiveSpec == LiveInit /\ [][LiveNext]_liveVars

-----------------------------------------------------------------------------
(* The board, a rebuild and a reader hold what was banked, never what is   *)
(* projected, until a result is taken back (live_projection.py 3-6).       *)
HeldIsBanked ==
    /\ cache.there /\ "undone" \notin cache.tags => cache.credits \subseteq Banked
    /\ rebuild.stage = "read" /\ "undone" \notin rebuild.tags => rebuild.credits \subseteq Banked
    /\ reader.stage \in {"taken", "looked"} /\ "undone" \notin reader.tags =>
          reader.base \subseteq Banked

(* With no invalidation to come, a board that has missed nothing is what a *)
(* rebuild would give now.                                                 *)
HeldIsCurrent ==
    /\ cache.there /\ cache.tags = {} /\ ~pending => cache.credits = Paid
    /\ rebuild.stage = "read" /\ rebuild.tags = {} /\ ~pending => rebuild.credits = Paid

(* So is what a reader holds, as long as nothing moves under it.           *)
ReaderIsCurrent ==
    reader.tags = {} =>
        /\ reader.stage \in {"taken", "looked"} => reader.base = Paid
        /\ reader.stage = "rescored" => reader.other = Paid
        /\ reader.stage \in {"waiting", "taken"} /\ reader.kind = "audit" =>
              reader.other = Paid
        /\ reader.stage = "looked" =>
              reader.other = (IF scoring = "live" THEN Leading ELSE {})

(* The request that rebuilds the board itself waits for it.                *)
RequestWaits == rebuild.own => reader.stage = "waiting"

(* A credit is counted twice, in the board and in the projection, only if  *)
(* a result was taken back after the board was read                        *)
(* (live_projection.py 54-68).                                             *)
NeverTwice ==
    reader.stage = "looked" /\ "undone" \notin reader.tags =>
        reader.base \cap Deltas = {}

(* The inductive invariant: what is held is banked, and current until      *)
(* something moves; no credit of it is projected as well.                  *)
LiveInv ==
    /\ LiveTypeOK /\ HeldIsBanked /\ HeldIsCurrent
    /\ ReaderIsCurrent /\ RequestWaits /\ NeverTwice

(* The leader's credit passes from the projection to the board without a   *)
(* dip: a page served while nothing moved shows it, unless the page came   *)
(* between a commit and its invalidation, took a board whose rebuild was   *)
(* in flight across one, or the next round was seeded behind the board's   *)
(* back (live_projection.py 8-15, score_sync.py 178-196).                  *)
Excused == reader.tags # {}
Due == {<<t, 1>> : t \in {t \in Sides : tie.status # "scheduled" /\ tie.leads = t}}
HandOver ==
    reader.stage = "looked" /\ ~Excused /\ scoring = "live" =>
        Due \subseteq reader.base \cup Deltas

(* The audit reports a discrepancy only if something moved while it ran,   *)
(* or the board had missed something (final_audit.py 75-83).               *)
AlarmIsExplained ==
    reader.stage = "taken" /\ reader.kind = "audit" /\ ~Excused => reader.base = reader.other

(* The board and whoever reads beside it agree, but for what moved.        *)
BoardsAgree == HandOver /\ AlarmIsExplained

(* The docstring's promise, without the excuse of the seeding: a board     *)
(* that missed no result hands over seamlessly (live_projection.py 13-15). *)
SeamlessHandoff ==
    reader.stage = "looked" /\ reader.tags \subseteq {"seeded"} /\ scoring = "live" =>
        Due \subseteq reader.base \cup Deltas
=============================================================================
