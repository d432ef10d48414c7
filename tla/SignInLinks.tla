---------------------------- MODULE SignInLinks ----------------------------
(***************************************************************************)
(* Passwordless sign-in (backend/app/api/auth.py, request_magic_link and   *)
(* verify_magic_link): a link is minted unless a young one is waiting,     *)
(* committed before its mail is sent, and opens one session before it      *)
(* expires.  Both handlers read in one step and commit in a later one; a   *)
(* request is late once another commit has touched what it read.           *)
(***************************************************************************)
EXTENDS Naturals, FiniteSets

CONSTANTS
    Owners,        \* people with an account
    Links,         \* rows of magic_link_tokens
    Visits,        \* requests of the two endpoints in flight
    NoLink         \* not a link

VARIABLES
    enabled,       \* is_active of each account, flipped by the Accounts module
    link,          \* the magic_link_tokens table
    opened,        \* how many sessions each link has opened
    visit          \* what each request has read

linkVars == <<enabled, link, opened, visit>>

Absent == [kind |-> "idle", who |-> CHOOSE p \in Owners : TRUE, link |-> NoLink,
           admits |-> FALSE, late |-> FALSE]
Link == [owner : Owners \cup {Absent.who}, age : {"unsent", "young", "old", "expired"},
         used : BOOLEAN, mailed : BOOLEAN]
Visit == [kind : {"idle", "ask", "open"}, who : Owners \cup {Absent.who}, link : Links \cup {NoLink},
          admits : BOOLEAN, late : BOOLEAN]

LinksTypeOK ==
    /\ enabled \in [Owners -> BOOLEAN]
    /\ link \in [Links -> Link]
    /\ opened \in [Links -> Nat]
    /\ visit \in [Visits -> Visit]

LinksInit ==
    /\ enabled = [p \in Owners |-> TRUE]
    /\ link = [l \in Links |-> [owner |-> Absent.who, age |-> "unsent",
                                used |-> FALSE, mailed |-> FALSE]]
    /\ opened = [l \in Links |-> 0]
    /\ visit = [v \in Visits |-> Absent]

-----------------------------------------------------------------------------
Commit(v, Touches(_)) ==
    visit' = [w \in Visits |->
                 CASE w = v -> Absent
                   [] w # v /\ visit[w].kind # "idle" /\ Touches(w) ->
                          [visit[w] EXCEPT !.late = TRUE]
                   [] OTHER -> visit[w]]

Fresh(l) == link[l].age = "young" /\ ~link[l].used
FreshOf(p) == {l \in Links : link[l].owner = p /\ Fresh(l)}

(* The newest unused link is young exactly when some unused link is.       *)
Throttled(p) == FreshOf(p) # {}

Ask(v, p) ==
    /\ visit[v] = Absent /\ enabled[p] /\ ~Throttled(p)
    /\ visit' = [visit EXCEPT ![v] = [kind |-> "ask", who |-> p, link |-> NoLink,
                                      admits |-> FALSE, late |-> FALSE]]
    /\ UNCHANGED <<enabled, link, opened>>

(* Sending fails after the row is committed: nobody holds that link, and   *)
(* it throttles its owner as any other.                                    *)
Mint(v, l) ==
    /\ visit[v].kind = "ask" /\ link[l].age = "unsent"
    /\ \E sent \in BOOLEAN :
          link' = [link EXCEPT ![l] = [owner |-> visit[v].who, age |-> "young",
                                       used |-> FALSE, mailed |-> sent]]
    /\ Commit(v, LAMBDA w : visit[w].kind = "ask" /\ visit[w].who = visit[v].who)
    /\ UNCHANGED <<enabled, opened>>

MutantUnspent(l) == link[l].mailed /\ link[l].age # "expired"
Valid(l) == link[l].mailed /\ ~link[l].used /\ link[l].age # "expired"

Verify(v, l) ==
    /\ visit[v] = Absent /\ Valid(l)
    /\ visit' = [visit EXCEPT ![v] =
           [kind |-> "open", who |-> link[l].owner, link |-> l,
            admits |-> enabled[link[l].owner], late |-> FALSE]]
    /\ UNCHANGED <<enabled, link, opened>>

(* An inactive account spends its link and gets no session.                *)
Spend(v) ==
    /\ visit[v].kind = "open"
    /\ link' = [link EXCEPT ![visit[v].link].used = TRUE]
    /\ opened' = [opened EXCEPT ![visit[v].link] = IF visit[v].admits THEN @ + 1 ELSE @]
    /\ Commit(v, LAMBDA w : visit[w].kind = "open" /\ visit[w].link = visit[v].link)
    /\ UNCHANGED enabled

Drop(v) ==
    /\ visit[v] # Absent
    /\ visit' = [visit EXCEPT ![v] = Absent]
    /\ UNCHANGED <<enabled, link, opened>>

Grow(l) ==
    /\ link[l].age \in {"young", "old"}
    /\ link' = [link EXCEPT ![l].age = IF @ = "young" THEN "old" ELSE "expired"]
    /\ UNCHANGED <<enabled, opened, visit>>

Flip(p) ==
    /\ enabled' = [enabled EXCEPT ![p] = ~@]
    /\ visit' = [v \in Visits |-> IF visit[v].kind = "open" /\ visit[v].who = p
                                  THEN [visit[v] EXCEPT !.late = TRUE] ELSE visit[v]]
    /\ UNCHANGED <<link, opened>>

LinksNext ==
    \/ \E v \in Visits :
           \/ \E p \in Owners : Ask(v, p)
           \/ \E l \in Links : Mint(v, l) \/ Verify(v, l)
           \/ Spend(v) \/ Drop(v)
    \/ \E l \in Links : Grow(l)
    \/ \E p \in Owners : Flip(p)

LinksSpec == LinksInit /\ [][LinksNext]_linkVars

-----------------------------------------------------------------------------
(* A second session of one link, a second young link of one person, and a  *)
(* session for an account already disabled: each takes two requests that   *)
(* overlap, the step that does it ending the one that was overtaken        *)
(* (auth.py 358-376, 413-426, 478-493).                                    *)
Slips ==
    \/ \E l \in Links : opened[l] > 0 /\ opened'[l] > opened[l]
    \/ \E p \in Owners : Cardinality(FreshOf(p)') > 1 /\ Cardinality(FreshOf(p)) < 2
    \/ \E l \in Links : opened'[l] > opened[l] /\ ~enabled[link[l].owner]

LinksSlipOnlyInRaces ==
    [][Slips => \E v \in Visits : visit[v].late /\ visit'[v] = Absent]_linkVars

(* What a request that is not late read still holds.                       *)
VisitStillHolds(v) ==
    CASE visit[v].kind = "ask"  -> FreshOf(visit[v].who) = {}
      [] visit[v].kind = "open" -> /\ ~link[visit[v].link].used
                                   /\ visit[v].admits => enabled[visit[v].who]
      [] OTHER                  -> TRUE

LinksIInv ==
    /\ LinksTypeOK
    /\ \A l \in Links : /\ ~link[l].used => opened[l] = 0
                        /\ link[l].age = "unsent" => ~link[l].used /\ ~link[l].mailed
                        /\ link[l].age # "unsent" => link[l].owner \in Owners
    /\ \A p \in Owners : IsFiniteSet(FreshOf(p))
    /\ \A v \in Visits :
          /\ visit[v].kind = "ask" => visit[v].who \in Owners
          /\ visit[v].kind = "open" => /\ visit[v].link \in Links
                                       /\ link[visit[v].link].age # "unsent"
                                       /\ visit[v].who = link[visit[v].link].owner
          /\ visit[v].kind = "idle" => visit[v] = Absent
          /\ ~visit[v].late => VisitStillHolds(v)
=============================================================================
