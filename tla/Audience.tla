------------------------------ MODULE Audience ------------------------------
(***************************************************************************)
(* Who receives a broadcast (backend/app/services/broadcast.py): the       *)
(* segments are predicates on one user, so the module follows one user's   *)
(* account, entries and signs of life through the days of the tournament.  *)
(* A day is a number; 0 stands for a signal that was never sent.           *)
(***************************************************************************)
EXTENDS Integers

CONSTANTS
    Kickoff,       \* TOURNAMENT_START
    FreshDays,     \* LAPSING_FRESH_DAYS
    StaleDays,     \* LAPSING_STALE_DAYS
    LastDay        \* bound on the days explored

VARIABLES
    reachable,     \* the user is active and has given a name
    owns,          \* the kinds of entries the user owns
    column,        \* day of users.last_seen_at
    pageview,      \* day of the last $pageview PostHog holds
    today

audienceVars == <<reachable, owns, column, pageview, today>>

(* "torn": a SUBMITTED phase row under a withdrawn_at stamp, what a race   *)
(* between a submission and the scheduler leaves (EntryTransactions).      *)
Kinds == {"draft", "submitted", "withdrawn", "torn", "disabled"}

AudienceTypeOK ==
    /\ reachable \in BOOLEAN
    /\ owns \subseteq Kinds
    /\ today \in Nat /\ {column, pageview} \subseteq 0..today

AudienceInit ==
    /\ reachable = TRUE /\ owns = {} /\ today = 1
    /\ column = 0 /\ pageview = 0

(* An authenticated request moves the column (throttled, and any failure   *)
(* is swallowed); the browser sends the page view, if nothing blocks it.   *)
Visit ==
    /\ column' \in {column, today} /\ pageview' \in {pageview, today}
    /\ UNCHANGED <<reachable, owns, today>>

AccountMoves ==
    /\ reachable' = ~reachable
    /\ UNCHANGED <<owns, column, pageview, today>>

Leads == [draft |-> {"submitted", "withdrawn", "torn"}, submitted |-> {"withdrawn", "disabled"},
          withdrawn |-> {"submitted", "draft"}, torn |-> {}, disabled |-> {"submitted"}]

EntriesMove ==
    /\ \/ owns' = owns \cup {"draft"}
       \/ \E k \in owns : \E n \in Leads[k], more \in BOOLEAN :
             owns' = (IF more THEN owns ELSE owns \ {k}) \cup {n}
    /\ UNCHANGED <<reachable, column, pageview, today>>

DayPasses ==
    /\ today < LastDay
    /\ today' = today + 1
    /\ UNCHANGED <<reachable, owns, column, pageview>>

AudienceNext == Visit \/ AccountMoves \/ EntriesMove \/ DayPasses
AudienceSpec == AudienceInit /\ [][AudienceNext]_audienceVars

-----------------------------------------------------------------------------
HasSubmitted == owns \cap {"submitted", "torn", "disabled"} # {}
EligibleSubmitted == "submitted" \in owns

(* The engagement input: PostHog's day, or nothing when the fetch fails.   *)
Engagement == {pageview, 0}

PoolGhost(ph) == EligibleSubmitted /\ column < Kickoff /\ ph < Kickoff

InWindow(d) == d # 0 /\ today - StaleDays <= d /\ d < today - FreshDays
IsFresh(d) == d # 0 /\ d >= today - FreshDays

Lapsing(ph) ==
    /\ EligibleSubmitted
    /\ InWindow(column) \/ InWindow(ph)
    /\ ~(IsFresh(column) \/ IsFresh(ph))

Segments(ph) ==
    IF ~reachable THEN {}
    ELSE {s \in {"submitters", "no_entry", "draft_holders", "pool_ghost", "lapsing"} :
            CASE s = "submitters"    -> HasSubmitted
              [] s = "no_entry"      -> owns = {}
              [] s = "draft_holders" -> "draft" \in owns /\ ~HasSubmitted
              [] s = "pool_ghost"    -> PoolGhost(ph)
              [] s = "lapsing"       -> Lapsing(ph)}

(* No two of the pre-deadline segments share a user; ghosts and lapsing    *)
(* users are submitters; whoever was seen within FreshDays is neither a    *)
(* ghost of a running tournament nor lapsing; and nobody is both, except   *)
(* in the first StaleDays after kickoff, where a visit just before it      *)
(* counts for the one and not for the other (broadcast.py 14-25, 252-360;  *)
(* test_broadcast_cohorts_v2_176.py 299 calls the two exclusive).          *)
SegmentsPart ==
    \A ph \in Engagement : LET s == Segments(ph) IN
        /\ \A x, y \in s \cap {"submitters", "no_entry", "draft_holders"} : x = y
        /\ s \cap {"pool_ghost", "lapsing"} # {} => "submitters" \in s
        /\ IsFresh(column) \/ IsFresh(ph) => "lapsing" \notin s
        /\ today >= Kickoff + FreshDays /\ (IsFresh(column) \/ IsFresh(ph)) => "pool_ghost" \notin s
        /\ today >= Kickoff + StaleDays => ~({"pool_ghost", "lapsing"} \subseteq s)
        /\ owns # {} /\ reachable /\ s = {} => "draft" \notin owns /\ ~EligibleSubmitted
=============================================================================
