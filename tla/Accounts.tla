------------------------------ MODULE Accounts ------------------------------
(***************************************************************************)
(* The accounts of the pool: who joins, who administers, who is disabled.  *)
(* backend/app/api/auth.py opens accounts, api/admin.py flips their flags, *)
(* services/pool_close.py disables those without a counting submission.    *)
(* Every request reads in one step and commits in a later one (READ        *)
(* COMMITTED, rows as first loaded), so any two of them interleave.  A     *)
(* request is overtaken once another commit, or the clock, has touched     *)
(* what it read.                                                           *)
(***************************************************************************)
EXTENDS FiniteSets

CONSTANTS
    People,        \* one per email address
    Requests,      \* concurrent sessions of the database
    Founders,      \* the accounts seeded as administrators
    NoOne          \* not a person

ASSUME FoundersAssumption == Founders \subseteq People /\ Founders # {}
ASSUME NoOneAssumption == NoOne \notin People

VARIABLES
    account,       \* the users table
    entered,       \* what a person's entries amount to
    past,          \* the phase-1 deadline has passed
    req            \* what each request in flight has read

accountsVars == <<account, entered, past, req>>

Account == [exists : BOOLEAN, admin : BOOLEAN, active : BOOLEAN]
NoAccount == [exists |-> FALSE, admin |-> FALSE, active |-> FALSE]
NewAccount == [exists |-> TRUE, admin |-> FALSE, active |-> TRUE]

(* "withdrawn": submitted once, but the entry no longer competes.          *)
Entries == {"none", "withdrawn", "counting"}

Kinds == {"idle", "join", "admin", "active", "close"}
Request == [kind : Kinds, who : People \cup {NoOne}, read : BOOLEAN,
            rows : SUBSET People, overtaken : BOOLEAN]
Idle == [kind |-> "idle", who |-> NoOne, read |-> FALSE, rows |-> {},
         overtaken |-> FALSE]

AccountsTypeOK ==
    /\ account \in [People -> Account]
    /\ entered \in [People -> Entries]
    /\ past \in BOOLEAN
    /\ req \in [Requests -> Request]

AccountsInit ==
    /\ account = [p \in People |-> IF p \in Founders
                                   THEN [NewAccount EXCEPT !.admin = TRUE] ELSE NoAccount]
    /\ entered = [p \in People |-> "none"]
    /\ past = FALSE
    /\ req = [r \in Requests |-> Idle]

-----------------------------------------------------------------------------
(* get_admin_user: a valid token of an account that is active and an       *)
(* administrator's.  Whoever is active can sign in, so who holds a token   *)
(* at a given moment constrains nothing.                                   *)
Admins == {p \in People : account[p].admin /\ account[p].active}

Overtake(kinds) ==
    [r \in Requests |-> IF req[r].kind \in kinds
                        THEN [req[r] EXCEPT !.overtaken = TRUE] ELSE req[r]]
Finish(r, kinds) == req' = [Overtake(kinds) EXCEPT ![r] = Idle]

Hold(r, kind, p, read, rows) ==
    /\ req[r] = Idle
    /\ req' = [req EXCEPT ![r] = [kind |-> kind, who |-> p, read |-> read,
                                  rows |-> rows, overtaken |-> FALSE]]
    /\ UNCHANGED <<account, entered, past>>

AccountKinds == {"admin", "active", "close"}

-----------------------------------------------------------------------------
MutantAnyAdmin(p) == Admins # {}
(* toggle_user_admin: the last active administrator keeps the role.        *)
OthersAdminister(p) == Admins \ {p} # {}

LoadToggleAdmin(r, p) ==
    /\ Admins # {} /\ account[p].exists
    /\ account[p].admin => OthersAdminister(p)
    /\ Hold(r, "admin", p, account[p].admin, {})

CommitToggleAdmin(r) ==
    /\ req[r].kind = "admin"
    /\ account' = [account EXCEPT ![req[r].who].admin = ~req[r].read]
    /\ Finish(r, AccountKinds)
    /\ UNCHANGED <<entered, past>>

(* toggle_user_active: an administrator's account is never deactivated.    *)
LoadToggleActive(r, p) ==
    /\ Admins # {} /\ account[p].exists
    /\ ~(account[p].active /\ account[p].admin)
    /\ Hold(r, "active", p, account[p].active, {})

CommitToggleActive(r) ==
    /\ req[r].kind = "active"
    /\ account' = [account EXCEPT ![req[r].who].active = ~req[r].read]
    /\ Finish(r, AccountKinds)
    /\ UNCHANGED <<entered, past>>

-----------------------------------------------------------------------------
MutantNeverEntered ==
    {p \in People : account[p].active /\ ~account[p].admin /\ entered[p] = "none"}
(* close_pool: refused before the deadline; never an administrator, never  *)
(* somebody whose submission counts.                                       *)
Idlers == {p \in People : account[p].active /\ ~account[p].admin /\ entered[p] # "counting"}

LoadClose(r) ==
    /\ Admins # {} /\ past
    /\ Hold(r, "close", NoOne, FALSE, Idlers)

CommitClose(r) ==
    /\ req[r].kind = "close"
    /\ account' = [p \in People |-> IF p \in req[r].rows
                                    THEN [account[p] EXCEPT !.active = FALSE] ELSE account[p]]
    /\ Finish(r, AccountKinds)
    /\ UNCHANGED <<entered, past>>

-----------------------------------------------------------------------------
(* Joining: register, google_callback and request_magic_link look the      *)
(* email up, ask _signups_closed, and insert under a unique email.         *)
DoorOpen == ~past

LoadJoin(r, p) ==
    /\ ~account[p].exists /\ DoorOpen
    /\ Hold(r, "join", p, FALSE, {})

CommitJoin(r) ==
    /\ req[r].kind = "join" /\ ~account[req[r].who].exists
    /\ account' = [account EXCEPT ![req[r].who] = NewAccount]
    /\ Finish(r, {"join", "close"})
    /\ UNCHANGED <<entered, past>>

(* A unique constraint or a lost connection ends a request: rolled back.   *)
Abandon(r) ==
    /\ req[r] # Idle
    /\ req' = [req EXCEPT ![r] = Idle]
    /\ UNCHANGED <<account, entered, past>>

-----------------------------------------------------------------------------
(* Entries are submitted before the deadline, and withdrawn or reinstated  *)
(* at any time (EntryHandlers); the deadline passes, or is moved.          *)
EntriesMove(p) ==
    /\ account[p].exists
    /\ past => entered[p] # "none"
    /\ \E e \in Entries \ {"none", entered[p]} : entered' = [entered EXCEPT ![p] = e]
    /\ req' = Overtake({"close"})
    /\ UNCHANGED <<account, past>>

DeadlineMoves ==
    /\ past' = ~past
    /\ req' = Overtake({"join", "close"})
    /\ UNCHANGED <<account, entered>>

AccountsNext ==
    \/ \E r \in Requests, p \in People :
           LoadToggleAdmin(r, p) \/ LoadToggleActive(r, p) \/ LoadJoin(r, p)
    \/ \E r \in Requests :
           \/ CommitToggleAdmin(r) \/ CommitToggleActive(r)
           \/ LoadClose(r) \/ CommitClose(r)
           \/ CommitJoin(r) \/ Abandon(r)
    \/ \E p \in People : EntriesMove(p)
    \/ DeadlineMoves

AccountsSpec == AccountsInit /\ [][AccountsNext]_accountsVars

-----------------------------------------------------------------------------
(* What the guards of the handlers are there to prevent.                   *)
LockedOut == Admins # {} /\ Admins' = {}
AdminDisabled == \E p \in Admins : ~account'[p].active
JoinedLate == past /\ \E p \in People : ~account[p].exists /\ account'[p].exists

Commits(r) == req[r] # Idle /\ req'[r] = Idle

(* Only a race leaves the pool without an administrator, disables one, or  *)
(* opens an account after the deadline: the step that does is the commit   *)
(* of a request overtaken since its guards were checked                    *)
(* (admin.py 341-440, pool_close.py 13-14, auth.py 76-85).                 *)
OnlyRacesBreakRules ==
    [][LockedOut \/ AdminDisabled \/ JoinedLate
          => \E r \in Requests : req[r].overtaken /\ Commits(r)]_accountsVars

(* A close-out that nothing overtook leaves active exactly the             *)
(* administrators and the players whose submission counts, of those who    *)
(* were active, and runs only after the deadline (pool_close.py 1-19).     *)
Exact ==
    /\ past
    /\ \A p \in People :
          account'[p].active <=> account[p].active /\ (account[p].admin \/ entered[p] = "counting")

CloseIsExact ==
    [][\A r \in Requests : CommitClose(r) /\ ~req[r].overtaken => Exact]_accountsVars

(* What a request that was not overtaken read still holds.                 *)
ReadStillHolds(r) ==
    CASE req[r].kind = "admin"  -> /\ req[r].read = account[req[r].who].admin
                                   /\ req[r].read => OthersAdminister(req[r].who)
      [] req[r].kind = "active" -> /\ req[r].read = account[req[r].who].active
                                   /\ ~(account[req[r].who].active /\ account[req[r].who].admin)
      [] req[r].kind = "close"  -> past /\ req[r].rows = Idlers
      [] req[r].kind = "join"   -> ~past
      [] OTHER                  -> TRUE

AccountsIInv ==
    /\ AccountsTypeOK
    /\ \A p \in People : account[p].admin \/ account[p].active => account[p].exists
    /\ \A r \in Requests :
          /\ req[r].kind \in {"admin", "active"} =>
                req[r].who \in People /\ account[req[r].who].exists
          /\ req[r].kind = "join" => req[r].who \in People
          /\ ~req[r].overtaken => ReadStillHolds(r)
=============================================================================
