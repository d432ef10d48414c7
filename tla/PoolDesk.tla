------------------------------ MODULE PoolDesk ------------------------------
(***************************************************************************)
(* The administrator's desk: the release switches of the competition       *)
(* (backend/app/api/admin.py), the announcement cards                      *)
(* (api/announcements.py) and the broadcast mails (admin.py with           *)
(* services/email.py), each with the audit row written beside it.  A       *)
(* switch or card request loads, then commits what it changed; a broadcast *)
(* takes its audience, composes its tokens once and mails one person at a  *)
(* time, and the process may die anywhere.                                 *)
(***************************************************************************)
EXTENDS Naturals, FiniteSets

CONSTANTS
    People,        \* everybody who may be in an audience
    Switches,      \* release switches of the competition row
    Teller,        \* the one of those that lets a mail name the winner
    Cards,         \* ids of announcements
    Desks          \* concurrent requests

VARIABLES
    switch,        \* the competition row
    card,          \* the announcements table: absent, draft or published
    log,           \* what the audit rows, in commit order, say last
    desk,          \* what each request in flight has loaded and will write
    job,           \* the broadcast under way
    inbox          \* what each person got from that broadcast

deskVars == <<switch, card, log, desk, job, inbox>>

Waiting == [kind |-> "none"]
Shapes == {"absent", "draft", "published"}
Stories == {"winner", "placeholder"}
NoJob == [stage |-> "none"]
NoMail == [p \in People |-> {}]

DeskInit ==
    /\ switch = [s \in Switches |-> FALSE]
    /\ card = [c \in Cards |-> "absent"]
    /\ log = [switch |-> switch, card |-> card]
    /\ desk = [d \in Desks |-> Waiting]
    /\ job = NoJob /\ inbox = NoMail

Hold(d, work) ==
    /\ desk[d] = Waiting
    /\ desk' = [desk EXCEPT ![d] = work]
    /\ UNCHANGED <<switch, card, log, job, inbox>>
Close(d) == desk' = [desk EXCEPT ![d] = Waiting]

-----------------------------------------------------------------------------
(* set_post_deadline_live and its like: the session emits an UPDATE, and   *)
(* the handler an audit row, only if the value differs from the one loaded.*)
LoadSwitch(d, s, to) == Hold(d, [kind |-> "switch", of |-> s, from |-> switch[s], to |-> to])

MutantAlwaysWrites(work) == TRUE
Writes(work) == work.from # work.to

Audited(work) == work.from # work.to

CommitSwitch(d) ==
    LET work == desk[d] IN
    /\ work.kind = "switch"
    /\ switch' = IF Writes(work) THEN [switch EXCEPT ![work.of] = work.to] ELSE switch
    /\ log' = IF Audited(work) THEN [log EXCEPT !.switch[work.of] = work.to] ELSE log
    /\ Close(d)
    /\ UNCHANGED <<card, job, inbox>>

-----------------------------------------------------------------------------
(* An id is drawn fresh for each announcement.                             *)
CreateCard(d, c, as) ==
    /\ card[c] = "absent" /\ log.card[c] = "absent" /\ desk[d] = Waiting
    /\ card' = [card EXCEPT ![c] = as]
    /\ log' = [log EXCEPT !.card[c] = "created"]
    /\ UNCHANGED <<switch, desk, job, inbox>>

LoadCard(d, c, kind, as) ==
    /\ card[c] # "absent"
    /\ kind = "update" => as # card[c]          \* no change, no write and no audit row
    /\ Hold(d, [kind |-> kind, of |-> c, to |-> as])

(* The UPDATE of a row deleted meanwhile matches nothing: rolled back.     *)
CommitUpdate(d) ==
    /\ desk[d].kind = "update" /\ card[desk[d].of] # "absent"
    /\ card' = [card EXCEPT ![desk[d].of] = desk[d].to]
    /\ log' = [log EXCEPT !.card[desk[d].of] = "updated"]
    /\ Close(d)
    /\ UNCHANGED <<switch, job, inbox>>

(* A DELETE that matches nothing only warns: a second row is logged.       *)
CommitDelete(d) ==
    /\ desk[d].kind = "delete"
    /\ card' = [card EXCEPT ![desk[d].of] = "absent"]
    /\ log' = [log EXCEPT !.card[desk[d].of] = "deleted"]
    /\ Close(d)
    /\ UNCHANGED <<switch, job, inbox>>

Abandon(d) ==
    /\ desk[d] # Waiting
    /\ Close(d)
    /\ UNCHANGED <<switch, card, log, job, inbox>>

-----------------------------------------------------------------------------
(* send_broadcast.  The tokens are empty, and the placeholders left in the *)
(* text, unless the switch is on and the podium can be computed.           *)
Unchanged == UNCHANGED <<switch, card, log, desk>>

QueryAudience(audience) ==
    /\ job = NoJob
    /\ job' = [stage |-> "asked", audience |-> audience]
    /\ inbox' = NoMail /\ Unchanged

Tellable == IF switch[Teller] THEN Stories ELSE {"placeholder"}

Compose ==
    /\ job.stage = "asked"
    /\ \E story \in Tellable :
          job' = [stage |-> "sending", audience |-> job.audience, left |-> job.audience,
                  story |-> story, released |-> switch[Teller], sent |-> 0, failed |-> 0]
    /\ UNCHANGED inbox /\ Unchanged

Told(p) == job.story

(* A failure is an error of the mail service, or an answer that never came *)
(* for a mail that was accepted.                                           *)
Mail(p) ==
    /\ job.stage = "sending" /\ p \in job.left
    /\ \E ok \in BOOLEAN, accepted \in BOOLEAN :
          /\ ok => accepted
          /\ inbox' = IF accepted THEN [inbox EXCEPT ![p] = @ \cup {Told(p)}] ELSE inbox
          /\ job' = [job EXCEPT !.left = @ \ {p},
                                !.sent = IF ok THEN @ + 1 ELSE @,
                                !.failed = IF ok THEN @ ELSE @ + 1]
    /\ Unchanged

Record ==
    /\ job.stage = "sending" /\ job.left = {}
    /\ job' = [stage |-> "logged", size |-> Cardinality(job.audience), sent |-> job.sent,
               failed |-> job.failed, released |-> job.released]
    /\ UNCHANGED inbox /\ Unchanged

(* The process dies: mails are out and no audit row tells of them.         *)
Crash ==
    /\ job.stage \in {"asked", "sending"}
    /\ job' = NoJob /\ inbox' = NoMail
    /\ Unchanged

NextBroadcast ==
    /\ job.stage = "logged"
    /\ job' = NoJob /\ inbox' = NoMail
    /\ Unchanged

DeskNext ==
    \/ \E d \in Desks :
           \/ \E s \in Switches, to \in BOOLEAN : LoadSwitch(d, s, to)
           \/ \E c \in Cards, as \in {"draft", "published"} :
                  \/ CreateCard(d, c, as)
                  \/ \E kind \in {"update", "delete"} : LoadCard(d, c, kind, as)
           \/ CommitSwitch(d) \/ CommitUpdate(d) \/ CommitDelete(d) \/ Abandon(d)
    \/ \E audience \in SUBSET People : QueryAudience(audience)
    \/ Compose \/ \E p \in People : Mail(p)
    \/ Record \/ Crash \/ NextBroadcast

DeskSpec == DeskInit /\ [][DeskNext]_deskVars

-----------------------------------------------------------------------------
(* However requests overlap, the audit rows tell the state: the last one   *)
(* of a switch names its value, and a card is there exactly when its last  *)
(* row is not a deletion (admin.py 640-800, announcements.py 82-180).      *)
LogTellsAll ==
    /\ log.switch = switch
    /\ \A c \in Cards : (card[c] # "absent") <=> (log.card[c] \in {"created", "updated"})

(* A broadcast tells everybody the same story, names a winner only if the  *)
(* switch was on when it was composed, and its audit row brackets the      *)
(* mails delivered (admin.py 2203-2290, email.py 2612-2660).               *)
OneStoryPerBroadcast ==
    LET got == {p \in People : inbox[p] # {}} IN
    /\ \A p, q \in got : inbox[p] = inbox[q] /\ Cardinality(inbox[p]) = 1
    /\ \A p \in got : "winner" \in inbox[p] => job.released
    /\ job.stage = "logged" => /\ job.sent <= Cardinality(got)
                               /\ Cardinality(got) <= job.size
                               /\ job.sent + job.failed = job.size

-----------------------------------------------------------------------------
(* The shapes of the state, and the account a broadcast keeps of itself:   *)
(* each mail counted, nobody mailed twice, one story told.                 *)
Work == {Waiting}
        \cup [kind : {"switch"}, of : Switches, from : BOOLEAN, to : BOOLEAN]
        \cup [kind : {"update", "delete"}, of : Cards, to : {"draft", "published"}]

DeskTypeOK ==
    /\ switch \in [Switches -> BOOLEAN]
    /\ card \in [Cards -> Shapes]
    /\ log \in [switch : [Switches -> BOOLEAN],
                card : [Cards -> {"absent", "created", "updated", "deleted"}]]
    /\ desk \in [Desks -> Work]
    /\ inbox \in [People -> SUBSET Stories]

Got == {p \in People : inbox[p] # {}}
Mailed == job.audience \ job.left

Sending ==
    /\ job \in [stage : {"sending"}, audience : SUBSET People, left : SUBSET People,
               story : Stories, released : BOOLEAN, sent : Nat, failed : Nat]
    /\ job.left \subseteq job.audience
    /\ job.story = "winner" => job.released
    /\ Got \subseteq Mailed
    /\ \A p \in Got : inbox[p] = {job.story}
    /\ IsFiniteSet(Mailed)
    /\ job.sent <= Cardinality(Got)
    /\ job.sent + job.failed = Cardinality(Mailed)

Logged ==
    /\ job.stage = "logged"
    /\ \E story \in Stories : /\ \A p \in Got : inbox[p] = {story}
                              /\ story = "winner" => job.released
    /\ job.sent <= Cardinality(Got)
    /\ Cardinality(Got) <= job.size
    /\ job.sent + job.failed = job.size

BroadcastIsStraight ==
    \/ job = NoJob /\ inbox = NoMail
    \/ job \in [stage : {"asked"}, audience : SUBSET People] /\ inbox = NoMail
    \/ Sending
    \/ Logged

DeskIInv == DeskTypeOK /\ LogTellsAll /\ BroadcastIsStraight
=============================================================================
