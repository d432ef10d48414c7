--------------------------- MODULE PoolAdminProofs --------------------------
(***************************************************************************)
(* Proofs about the administration of the pool (MCPoolAdmin): the accounts *)
(* first, then the sign-in links, the desk and the audiences, each for any *)
(* values of its constants.  The invariants say the same thing four times: *)
(* what a request read still holds until another commit marks the request. *)
(***************************************************************************)
EXTENDS MCPoolAdmin, FiniteSetTheorems, TLAPS

\* Founders only, nobody in flight.
LEMMA InitFacts == ASSUME AccountsInit PROVE AccountsIInv
<1>1. NoAccount \in Account /\ [NewAccount EXCEPT !.admin = TRUE] \in Account
      /\ [NewAccount EXCEPT !.admin = TRUE].exists
  BY DEF Account, NewAccount, NoAccount
<1>2. Idle \in Request /\ Idle.kind = "idle"
  BY DEF Idle, Request, Kinds
<1>3. AccountsTypeOK
  BY <1>1, <1>2 DEF AccountsInit, AccountsTypeOK, Entries
<1>4. \A p \in People : account[p].admin \/ account[p].active => account[p].exists
  BY <1>1 DEF AccountsInit, NoAccount
<1>5. \A r \in Requests : req[r].kind = "idle"
  BY <1>2 DEF AccountsInit
<1> QED
  BY <1>3, <1>4, <1>5 DEF AccountsIInv, ReadStillHolds

\* The end of request r leaves the others as they were, or overtaken.
LEMMA FinishFacts ==
    ASSUME AccountsTypeOK, NEW r \in Requests, NEW kinds, Finish(r, kinds)
    PROVE  /\ req' \in [Requests -> Request]
           /\ req'[r] = Idle
           /\ \A t \in Requests \ {r} :
                 /\ req'[t].kind = req[t].kind /\ req'[t].who = req[t].who
                 /\ req'[t].read = req[t].read /\ req'[t].rows = req[t].rows
                 /\ ~req'[t].overtaken => ~req[t].overtaken /\ req[t].kind \notin kinds
<1>1. Idle \in Request
  BY DEF Idle, Request, Kinds
<1>2. \A t \in Requests : [req[t] EXCEPT !.overtaken = TRUE] \in Request
  BY DEF AccountsTypeOK, Request
<1> QED
  BY <1>1, <1>2 DEF Finish, Overtake, AccountsTypeOK, Request

\* The same for a change from outside, which overtakes and ends nothing.
LEMMA OvertakeFacts ==
    ASSUME AccountsTypeOK, NEW kinds, req' = Overtake(kinds)
    PROVE  /\ req' \in [Requests -> Request]
           /\ \A t \in Requests :
                 /\ req'[t].kind = req[t].kind /\ req'[t].who = req[t].who
                 /\ req'[t].read = req[t].read /\ req'[t].rows = req[t].rows
                 /\ ~req'[t].overtaken => ~req[t].overtaken /\ req[t].kind \notin kinds
<1>1. \A t \in Requests : [req[t] EXCEPT !.overtaken = TRUE] \in Request
  BY DEF AccountsTypeOK, Request
<1> QED
  BY <1>1 DEF Overtake, AccountsTypeOK, Request

\* A request that is neither a flip, a close-out nor a registration has read nothing, and the
\* kinds that read accounts are the three that Finish overtakes.
LEMMA JoinOnly ==
    ASSUME AccountsIInv, NEW t \in Requests, ~req[t].overtaken, req[t].kind \notin AccountKinds
    PROVE  req[t].kind \in {"idle", "join"} /\ (req[t].kind = "join" => ~past)
<1>1. req[t] \in Request
  BY DEF AccountsIInv, AccountsTypeOK
<1>2. ReadStillHolds(t)
  BY DEF AccountsIInv
<1> QED
  BY <1>1, <1>2 DEF Request, Kinds, AccountKinds, ReadStillHolds

\* The commit of a flip, whichever flag it writes.
LEMMA FlipStep ==
    ASSUME AccountsIInv, NEW r \in Requests, CommitToggleAdmin(r) \/ CommitToggleActive(r)
    PROVE  AccountsIInv'
<1>1. req[r] \in Request /\ req[r].who \in People /\ account[req[r].who].exists
  BY DEF CommitToggleAdmin, CommitToggleActive, AccountsIInv, AccountsTypeOK
<1>2. Finish(r, AccountKinds) /\ UNCHANGED <<entered, past>>
  BY DEF CommitToggleAdmin, CommitToggleActive
<1>3. /\ account' \in [People -> Account]
      /\ \A p \in People : account'[p].exists <=> account[p].exists
      /\ \A p \in People : account'[p].admin \/ account'[p].active => account'[p].exists
  <2>1. req[r].read \in BOOLEAN
    BY <1>1 DEF Request
  <2>2. \A x \in Account, b \in BOOLEAN :
            /\ [x EXCEPT !.admin = b] \in Account /\ [x EXCEPT !.admin = b].exists = x.exists
            /\ [x EXCEPT !.active = b] \in Account /\ [x EXCEPT !.active = b].exists = x.exists
    BY DEF Account
  <2>3. PICK x \in Account : /\ account' = [account EXCEPT ![req[r].who] = x]
                             /\ x.exists = account[req[r].who].exists
    <3>1. account[req[r].who] \in Account /\ (~req[r].read) \in BOOLEAN
      BY <1>1, <2>1 DEF AccountsIInv, AccountsTypeOK
    <3>2. CASE CommitToggleAdmin(r)
      <4> DEFINE x == [account[req[r].who] EXCEPT !.admin = ~req[r].read]
      <4>1. account' = [account EXCEPT ![req[r].who] = x]
        BY <3>2 DEF CommitToggleAdmin
      <4>2. x \in Account /\ x.exists = account[req[r].who].exists
        BY <3>1, <2>2
      <4> QED
        BY <4>1, <4>2
    <3>3. CASE CommitToggleActive(r)
      <4> DEFINE x == [account[req[r].who] EXCEPT !.active = ~req[r].read]
      <4>1. account' = [account EXCEPT ![req[r].who] = x]
        BY <3>3 DEF CommitToggleActive
      <4>2. x \in Account /\ x.exists = account[req[r].who].exists
        BY <3>1, <2>2
      <4> QED
        BY <4>1, <4>2
    <3> QED
      BY <3>2, <3>3
  <2> QED
    BY <1>1, <2>3 DEF AccountsIInv, AccountsTypeOK
<1>4. AccountsTypeOK'
  BY <1>2, <1>3, FinishFacts DEF AccountsIInv, AccountsTypeOK
<1>5. ASSUME NEW t \in Requests
      PROVE  /\ req'[t].kind \in {"admin", "active"} =>
                    req'[t].who \in People /\ account'[req'[t].who].exists
             /\ req'[t].kind = "join" => req'[t].who \in People
             /\ ~req'[t].overtaken => ReadStillHolds(t)'
  <2>1. CASE t = r
    BY <2>1, <1>2, FinishFacts DEF Idle, ReadStillHolds, AccountsIInv
  <2>2. CASE t # r
    <3>1. /\ req'[t].kind = req[t].kind /\ req'[t].who = req[t].who
          /\ ~req'[t].overtaken => ~req[t].overtaken /\ req[t].kind \notin AccountKinds
      BY <2>2, <1>2, FinishFacts DEF AccountsIInv
    <3>2. ~req'[t].overtaken => ReadStillHolds(t)'
      BY <3>1, <1>2, JoinOnly DEF ReadStillHolds
    <3> QED
      BY <3>1, <3>2, <1>3 DEF AccountsIInv
  <2> QED
    BY <2>1, <2>2
<1> QED
  BY <1>3, <1>4, <1>5 DEF AccountsIInv

\* The commit of a close-out.
LEMMA CloseStep ==
    ASSUME AccountsIInv, NEW r \in Requests, CommitClose(r) PROVE AccountsIInv'
<1>1. req[r] \in Request
  BY DEF AccountsIInv, AccountsTypeOK
<1>2. Finish(r, AccountKinds) /\ UNCHANGED <<entered, past>>
  BY DEF CommitClose
<1>3. /\ account' \in [People -> Account]
      /\ \A p \in People : account'[p].exists <=> account[p].exists
      /\ \A p \in People : account'[p].admin \/ account'[p].active => account'[p].exists
  <2>1. \A p \in People :
            /\ account[p] \in Account
            /\ account'[p] = IF p \in req[r].rows THEN [account[p] EXCEPT !.active = FALSE]
                             ELSE account[p]
    BY DEF CommitClose, AccountsIInv, AccountsTypeOK
  <2>2. \A x \in Account : /\ [x EXCEPT !.active = FALSE] \in Account
                           /\ [x EXCEPT !.active = FALSE].exists = x.exists
    BY DEF Account
  <2>3. \A x \in Account : /\ [x EXCEPT !.active = FALSE].admin = x.admin
                           /\ [x EXCEPT !.active = FALSE].active = FALSE
    BY DEF Account
  <2>4. account' \in [People -> Account]
    BY <2>1, <2>2 DEF CommitClose
  <2>5. \A p \in People : account'[p].exists <=> account[p].exists
    BY <2>1, <2>2
  <2>6. \A p \in People : account'[p].admin \/ account'[p].active => account'[p].exists
    <3>1. \A p \in People : account'[p].admin = account[p].admin
      BY <2>1, <2>3
    <3>2. \A p \in People : account'[p].active = FALSE \/ account'[p].active = account[p].active
      BY <2>1, <2>3
    <3> QED
      BY <3>1, <3>2, <2>5 DEF AccountsIInv
  <2> QED
    BY <2>4, <2>5, <2>6
<1>4. AccountsTypeOK'
  BY <1>2, <1>3, FinishFacts DEF AccountsIInv, AccountsTypeOK
<1>5. ASSUME NEW t \in Requests
      PROVE  /\ req'[t].kind \in {"admin", "active"} =>
                    req'[t].who \in People /\ account'[req'[t].who].exists
             /\ req'[t].kind = "join" => req'[t].who \in People
             /\ ~req'[t].overtaken => ReadStillHolds(t)'
  <2>1. CASE t = r
    BY <2>1, <1>2, FinishFacts DEF Idle, ReadStillHolds, AccountsIInv
  <2>2. CASE t # r
    <3>1. /\ req'[t].kind = req[t].kind /\ req'[t].who = req[t].who
          /\ ~req'[t].overtaken => ~req[t].overtaken /\ req[t].kind \notin AccountKinds
      BY <2>2, <1>2, FinishFacts DEF AccountsIInv
    <3>2. ~req'[t].overtaken => ReadStillHolds(t)'
      BY <3>1, <1>2, JoinOnly DEF ReadStillHolds
    <3> QED
      BY <3>1, <3>2, <1>3 DEF AccountsIInv
  <2> QED
    BY <2>1, <2>2
<1> QED
  BY <1>3, <1>4, <1>5 DEF AccountsIInv

\* A new account is no administrator's: the flips in flight still read the truth.
LEMMA JoinStep ==
    ASSUME AccountsIInv, NEW r \in Requests, CommitJoin(r) PROVE AccountsIInv'
<1> DEFINE p == req[r].who
<1>1. p \in People /\ ~account[p].exists
  BY DEF CommitJoin, AccountsIInv
<1>2. Finish(r, {"join", "close"}) /\ UNCHANGED <<entered, past>>
  BY DEF CommitJoin
<1>3. /\ account' = [account EXCEPT ![p] = NewAccount] /\ account' \in [People -> Account]
      /\ account'[p] = NewAccount
      /\ \A q \in People \ {p} : account'[q] = account[q]
      /\ ~account[p].admin /\ ~account[p].active
  BY <1>1 DEF CommitJoin, NewAccount, AccountsIInv, AccountsTypeOK, Account
<1>4. AccountsTypeOK'
  BY <1>2, <1>3, FinishFacts DEF AccountsIInv, AccountsTypeOK
<1>5. Admins' = Admins
  BY <1>3 DEF Admins, NewAccount
<1>6. ASSUME NEW t \in Requests
      PROVE  /\ req'[t].kind \in {"admin", "active"} =>
                    req'[t].who \in People /\ account'[req'[t].who].exists
             /\ req'[t].kind = "join" => req'[t].who \in People
             /\ ~req'[t].overtaken => ReadStillHolds(t)'
  <2>1. CASE t = r
    BY <2>1, <1>2, FinishFacts DEF Idle, ReadStillHolds, AccountsIInv
  <2>2. CASE t # r
    <3>1. /\ req'[t].kind = req[t].kind /\ req'[t].who = req[t].who /\ req'[t].read = req[t].read
          /\ ~req'[t].overtaken => ~req[t].overtaken /\ req[t].kind \notin {"join", "close"}
      BY <2>2, <1>2, FinishFacts DEF AccountsIInv
    <3>2. req[t].kind \in {"admin", "active"} =>
              /\ req[t].who \in People \ {p} /\ account[req[t].who].exists
              /\ account'[req[t].who] = account[req[t].who]
      BY <1>1, <1>3 DEF AccountsIInv
    <3>3. ~req'[t].overtaken => ReadStillHolds(t)'
      <4> SUFFICES ASSUME ~req'[t].overtaken PROVE ReadStillHolds(t)'
        OBVIOUS
      <4>1. ReadStillHolds(t) /\ req[t].kind \notin {"join", "close"}
        BY <3>1 DEF AccountsIInv
      <4>2. CASE req[t].kind = "admin"
        BY <4>1, <4>2, <3>1, <3>2, <1>5 DEF ReadStillHolds, OthersAdminister
      <4>3. CASE req[t].kind = "active"
        BY <4>1, <4>3, <3>1, <3>2 DEF ReadStillHolds
      <4>4. CASE req[t].kind \notin {"admin", "active"}
        BY <4>1, <4>4, <3>1 DEF ReadStillHolds
      <4> QED
        BY <4>2, <4>3, <4>4
    <3> QED
      BY <3>1, <3>2, <3>3 DEF AccountsIInv
  <2> QED
    BY <2>1, <2>2
<1> QED
  BY <1>1, <1>3, <1>4, <1>6 DEF AccountsIInv, NewAccount

\* What a request may hold: the facts that ReadStillHolds asks for.
LEMMA HoldStep ==
    ASSUME AccountsIInv, NEW r \in Requests, NEW kind \in Kinds, NEW who \in People \cup {NoOne},
           NEW read \in BOOLEAN, NEW rows \in SUBSET People, Hold(r, kind, who, read, rows),
           kind \in {"admin", "active"} => who \in People /\ account[who].exists,
           kind = "join" => who \in People /\ ~past,
           kind = "admin" => read = account[who].admin /\ (read => OthersAdminister(who)),
           kind = "active" => /\ read = account[who].active
                              /\ ~(account[who].active /\ account[who].admin),
           kind = "close" => past /\ rows = Idlers
    PROVE  AccountsIInv'
<1> DEFINE held == [kind |-> kind, who |-> who, read |-> read, rows |-> rows,
                    overtaken |-> FALSE]
<1>1. UNCHANGED <<account, entered, past>> /\ Admins' = Admins /\ Idlers' = Idlers
  BY DEF Hold, Admins, Idlers
<1>2. held \in Request /\ req' = [req EXCEPT ![r] = held]
  BY DEF Request, Hold
<1>3. AccountsTypeOK'
  BY <1>1, <1>2 DEF AccountsIInv, AccountsTypeOK
<1>4. ASSUME NEW t \in Requests
      PROVE  /\ req'[t].kind \in {"admin", "active"} =>
                    req'[t].who \in People /\ account'[req'[t].who].exists
             /\ req'[t].kind = "join" => req'[t].who \in People
             /\ ~req'[t].overtaken => ReadStillHolds(t)'
  <2>1. CASE t = r
    <3>1. req'[t] = held
      BY <2>1, <1>2 DEF AccountsIInv, AccountsTypeOK
    <3> QED
      BY <3>1, <1>1 DEF ReadStillHolds, OthersAdminister
  <2>2. CASE t # r
    <3>1. req'[t] = req[t]
      BY <2>2, <1>2 DEF AccountsIInv, AccountsTypeOK
    <3> QED
      BY <3>1, <1>1 DEF AccountsIInv, ReadStillHolds, OthersAdminister
  <2> QED
    BY <2>1, <2>2
<1> QED
  BY <1>1, <1>3, <1>4 DEF AccountsIInv

\* A request that loads reads the accounts as they are.
LEMMA LoadStep ==
    ASSUME AccountsIInv, NEW r \in Requests,
           \/ \E p \in People : LoadToggleAdmin(r, p) \/ LoadToggleActive(r, p) \/ LoadJoin(r, p)
           \/ LoadClose(r)
    PROVE  AccountsIInv'
<1>1. ASSUME NEW p \in People, LoadToggleAdmin(r, p) PROVE AccountsIInv'
  <2>1. account[p].admin \in BOOLEAN /\ "admin" \in Kinds
    BY DEF AccountsIInv, AccountsTypeOK, Account, Kinds
  <2> QED
    BY <1>1, <2>1, HoldStep DEF LoadToggleAdmin
<1>2. ASSUME NEW p \in People, LoadToggleActive(r, p) PROVE AccountsIInv'
  <2>1. account[p].active \in BOOLEAN /\ "active" \in Kinds
    BY DEF AccountsIInv, AccountsTypeOK, Account, Kinds
  <2> QED
    BY <1>2, <2>1, HoldStep DEF LoadToggleActive
<1>3. ASSUME NEW p \in People, LoadJoin(r, p) PROVE AccountsIInv'
  <2>1. "join" \in Kinds /\ FALSE \in BOOLEAN /\ {} \in SUBSET People /\ p \in People \cup {NoOne}
    BY DEF Kinds
  <2>2. Hold(r, "join", p, FALSE, {}) /\ ~past
    BY <1>3 DEF LoadJoin, DoorOpen
  <2> QED
    BY <2>1, <2>2, HoldStep
<1>4. ASSUME LoadClose(r) PROVE AccountsIInv'
  <2>1. "close" \in Kinds /\ Idlers \in SUBSET People
    BY DEF Kinds, Idlers
  <2> QED
    BY <1>4, <2>1, HoldStep DEF LoadClose
<1> QED
  BY <1>1, <1>2, <1>3, <1>4

\* A request that ends without a commit.
LEMMA AbandonStep ==
    ASSUME AccountsIInv, NEW r \in Requests, Abandon(r) PROVE AccountsIInv'
<1>1. Idle \in Request
  BY DEF Idle, Request, Kinds
<1>2. Admins' = Admins /\ Idlers' = Idlers
  BY DEF Abandon, Admins, Idlers
<1> QED
  BY <1>1, <1>2
     DEF Abandon, AccountsIInv, AccountsTypeOK, ReadStillHolds, OthersAdminister, Idle

\* Entries and the deadline overtake the requests that read them.
LEMMA OutsideStep ==
    ASSUME AccountsIInv, (\E p \in People : EntriesMove(p)) \/ DeadlineMoves
    PROVE  AccountsIInv'
<1>1. UNCHANGED account /\ Admins' = Admins
  BY DEF EntriesMove, DeadlineMoves, Admins
<1>2. PICK kinds : /\ req' = Overtake(kinds) /\ "close" \in kinds
                   /\ past' = past \/ "join" \in kinds
  BY DEF EntriesMove, DeadlineMoves
<1>3. entered' \in [People -> Entries] /\ past' \in BOOLEAN
  BY DEF EntriesMove, DeadlineMoves, AccountsIInv, AccountsTypeOK
<1>4. AccountsTypeOK'
  BY <1>1, <1>2, <1>3, OvertakeFacts DEF AccountsIInv, AccountsTypeOK
<1>5. ASSUME NEW t \in Requests
      PROVE  /\ req'[t].kind \in {"admin", "active"} =>
                    req'[t].who \in People /\ account'[req'[t].who].exists
             /\ req'[t].kind = "join" => req'[t].who \in People
             /\ ~req'[t].overtaken => ReadStillHolds(t)'
  <2>1. /\ req'[t].kind = req[t].kind /\ req'[t].who = req[t].who /\ req'[t].read = req[t].read
        /\ ~req'[t].overtaken => ~req[t].overtaken /\ req[t].kind \notin kinds
    BY <1>2, OvertakeFacts DEF AccountsIInv
  <2>2. ~req'[t].overtaken => ReadStillHolds(t)'
    BY <2>1, <1>1, <1>2 DEF AccountsIInv, ReadStillHolds, OthersAdminister
  <2> QED
    BY <2>1, <2>2, <1>1 DEF AccountsIInv
<1> QED
  BY <1>1, <1>4, <1>5 DEF AccountsIInv

\* One step of the accounts.
LEMMA Inductive == ASSUME AccountsIInv, [AccountsNext]_accountsVars PROVE AccountsIInv'
<1>1. CASE UNCHANGED accountsVars
  <2>1. Admins' = Admins /\ Idlers' = Idlers
    BY <1>1 DEF accountsVars, Admins, Idlers
  <2> QED
    BY <1>1, <2>1
       DEF accountsVars, AccountsIInv, AccountsTypeOK, ReadStillHolds, OthersAdminister
<1>2. CASE AccountsNext
  BY <1>2, FlipStep, CloseStep, JoinStep, LoadStep, AbandonStep, OutsideStep DEF AccountsNext
<1> QED
  BY <1>1, <1>2

(* Every request that was not overtaken still reads the truth              *)
(* (admin.py 341-440, pool_close.py 131-170, auth.py 76-140).              *)
THEOREM ReadsHoldUntilOvertaken == AccountsSpec => []AccountsIInv
<1>1. AccountsInit => AccountsIInv
  BY InitFacts
<1>2. AccountsIInv /\ [AccountsNext]_accountsVars => AccountsIInv'
  BY Inductive
<1> QED
  BY <1>1, <1>2, PTL DEF AccountsSpec

\* While every active administrator's account stays as it is, nobody is locked out.
LEMMA AdminsKept ==
    ASSUME \A p \in Admins : account'[p] = account[p] PROVE ~LockedOut /\ ~AdminDisabled
<1>1. \A p \in Admins : p \in Admins'
  BY DEF Admins
<1> QED
  BY <1>1 DEF LockedOut, AdminDisabled, Admins

\* Where no overtaken request commits, the one that ends was not overtaken.
LEMMA EndsUnraced ==
    ASSUME AccountsIInv, ~\E r \in Requests : req[r].overtaken /\ Commits(r),
           NEW r \in Requests, NEW kinds, Finish(r, kinds), req[r].kind # "idle"
    PROVE  ~req[r].overtaken
<1>1. req'[r] = Idle
  BY FinishFacts DEF AccountsIInv
<1>2. req[r] # Idle
  BY DEF Idle
<1> QED
  BY <1>1, <1>2 DEF Commits

\* What a commit that nothing overtook leaves standing.
LEMMA SafeCommits ==
    ASSUME AccountsIInv, AccountsNext, ~\E r \in Requests : req[r].overtaken /\ Commits(r)
    PROVE  ~(LockedOut \/ AdminDisabled \/ JoinedLate)
<1>1. CASE UNCHANGED account
  BY <1>1 DEF LockedOut, AdminDisabled, JoinedLate, Admins
<1>2. ASSUME NEW r \in Requests, CommitToggleAdmin(r)
      PROVE  ~(LockedOut \/ AdminDisabled \/ JoinedLate)
  <2>1. ~req[r].overtaken
    BY <1>2, EndsUnraced DEF CommitToggleAdmin
  <2>2. ~req[r].overtaken /\ req[r].kind = "admin" /\ req[r].who \in People
    BY <1>2, <2>1 DEF AccountsIInv, CommitToggleAdmin
  <2>3. /\ req[r].read = account[req[r].who].admin
        /\ req[r].read => OthersAdminister(req[r].who)
        /\ account[req[r].who].exists
    BY <2>2 DEF AccountsIInv, ReadStillHolds
  <2>4. \A p \in People :
            /\ account'[p].active <=> account[p].active
            /\ account'[p].exists <=> account[p].exists
            /\ p # req[r].who => account'[p] = account[p]
            /\ p = req[r].who => (account'[p].admin <=> ~req[r].read)
    BY <1>2, <2>2 DEF CommitToggleAdmin, AccountsIInv, AccountsTypeOK, Account
  <2>5. ~LockedOut
    <3>1. CASE req[r].read
      <4>1. PICK p \in Admins : p # req[r].who
        BY <3>1, <2>3 DEF OthersAdminister
      <4> QED
        BY <4>1, <2>4 DEF LockedOut, Admins
    <3>2. CASE ~req[r].read
      BY <3>2, <2>3, <2>4 DEF LockedOut, Admins
    <3> QED
      BY <3>1, <3>2
  <2> QED
    BY <2>4, <2>5 DEF AdminDisabled, JoinedLate, Admins
<1>3. ASSUME NEW r \in Requests, CommitToggleActive(r)
      PROVE  ~(LockedOut \/ AdminDisabled \/ JoinedLate)
  <2>1. ~req[r].overtaken
    BY <1>3, EndsUnraced DEF CommitToggleActive
  <2>2. ~req[r].overtaken /\ req[r].kind = "active" /\ req[r].who \in People
    BY <1>3, <2>1 DEF AccountsIInv, CommitToggleActive
  <2>3. req[r].who \notin Admins
    BY <2>2 DEF AccountsIInv, ReadStillHolds, Admins
  <2>4. \A p \in People : /\ account'[p].exists <=> account[p].exists
                          /\ p # req[r].who => account'[p] = account[p]
    BY <1>3, <2>2 DEF CommitToggleActive, AccountsIInv, AccountsTypeOK, Account
  <2>5. \A p \in Admins : account'[p] = account[p]
    BY <2>3, <2>4 DEF Admins
  <2>6. ~JoinedLate
    BY <2>4 DEF JoinedLate
  <2> QED
    BY <2>5, <2>6, AdminsKept
<1>4. ASSUME NEW r \in Requests, CommitClose(r)
      PROVE  ~(LockedOut \/ AdminDisabled \/ JoinedLate)
  <2>1. ~req[r].overtaken
    BY <1>4, EndsUnraced DEF CommitClose
  <2>2. ~req[r].overtaken /\ req[r].rows = Idlers
    BY <1>4, <2>1 DEF AccountsIInv, ReadStillHolds, CommitClose
  <2>3. \A p \in People : /\ account'[p].exists <=> account[p].exists
                          /\ p \in Admins => account'[p] = account[p]
    BY <1>4, <2>2 DEF CommitClose, Idlers, Admins, AccountsIInv, AccountsTypeOK, Account
  <2>4. \A p \in Admins : account'[p] = account[p]
    BY <2>3 DEF Admins
  <2>5. ~JoinedLate
    BY <2>3 DEF JoinedLate
  <2> QED
    BY <2>4, <2>5, AdminsKept
<1>5. ASSUME NEW r \in Requests, CommitJoin(r)
      PROVE  ~(LockedOut \/ AdminDisabled \/ JoinedLate)
  <2>1. ~req[r].overtaken
    BY <1>5, EndsUnraced DEF CommitJoin
  <2>2. ~req[r].overtaken /\ req[r].kind = "join" /\ req[r].who \in People
    BY <1>5, <2>1 DEF AccountsIInv, CommitJoin
  <2>3. ~past /\ req[r].who \notin Admins
    BY <1>5, <2>2 DEF CommitJoin, AccountsIInv, ReadStillHolds, Admins
  <2>4. \A p \in People : p # req[r].who => account'[p] = account[p]
    BY <1>5 DEF CommitJoin, AccountsIInv, AccountsTypeOK
  <2>5. \A p \in Admins : account'[p] = account[p]
    BY <2>3, <2>4 DEF Admins
  <2>6. ~JoinedLate
    BY <2>3 DEF JoinedLate
  <2> QED
    BY <2>5, <2>6, AdminsKept
<1>6. UNCHANGED account \/ \E r \in Requests : \/ CommitToggleAdmin(r) \/ CommitToggleActive(r)
                                              \/ CommitClose(r) \/ CommitJoin(r)
  BY DEF AccountsNext, LoadToggleAdmin, LoadToggleActive, LoadJoin, LoadClose, Hold, Abandon,
         EntriesMove, DeadlineMoves
<1> QED
  BY <1>1, <1>2, <1>3, <1>4, <1>5, <1>6

(* The last administrator is lost, an administrator disabled or an account *)
(* opened late only by a commit overtaken since its guards were checked,   *)
(* however many requests overlap (admin.py 341-440, auth.py 76-85).        *)
THEOREM GuardsFailOnlyInRaces == AccountsSpec => OnlyRacesBreakRules
<1>1. AccountsIInv /\ [AccountsNext]_accountsVars =>
          [LockedOut \/ AdminDisabled \/ JoinedLate
               => \E r \in Requests : req[r].overtaken /\ Commits(r)]_accountsVars
  BY SafeCommits
<1> QED
  BY <1>1, ReadsHoldUntilOvertaken, PTL DEF AccountsSpec, OnlyRacesBreakRules

(* A close-out that nothing overtook disables exactly the active accounts  *)
(* that neither administer nor compete (pool_close.py 1-19).               *)
THEOREM CloseOutIsExact == AccountsSpec => CloseIsExact
<1>1. ASSUME AccountsIInv, NEW r \in Requests, CommitClose(r), ~req[r].overtaken PROVE Exact
  <2>1. past /\ req[r].rows = Idlers
    BY <1>1 DEF CommitClose, AccountsIInv, ReadStillHolds
  <2>2. \A p \in People : account'[p].active <=> account[p].active /\ p \notin Idlers
    BY <1>1, <2>1 DEF CommitClose, AccountsIInv, AccountsTypeOK, Account
  <2> QED
    BY <2>1, <2>2 DEF Exact, Idlers
<1>2. AccountsIInv /\ [AccountsNext]_accountsVars =>
          [\A r \in Requests : CommitClose(r) /\ ~req[r].overtaken => Exact]_accountsVars
  BY <1>1
<1> QED
  BY <1>2, ReadsHoldUntilOvertaken, PTL DEF AccountsSpec, CloseIsExact

-----------------------------------------------------------------------------
\* The instances count as this module does.
LEMMA SameCount ==
    /\ \A S : Desk!Cardinality(S) = Cardinality(S) /\ (Desk!IsFiniteSet(S) <=> IsFiniteSet(S))
    /\ \A S : SignIn!Cardinality(S) = Cardinality(S) /\ (SignIn!IsFiniteSet(S) <=> IsFiniteSet(S))
BY DEF Desk!Cardinality, SignIn!Cardinality, Cardinality,
       Desk!IsFiniteSet, SignIn!IsFiniteSet, IsFiniteSet

\* What one request leaves of another: the same reads, perhaps late.
Overtakes(w, touched) ==
    /\ visit'[w].kind = visit[w].kind /\ visit'[w].who = visit[w].who
    /\ visit'[w].link = visit[w].link
    /\ ~visit'[w].late => visit'[w] = visit[w] /\ ~(visit[w].kind # "idle" /\ touched)
    /\ visit[w].kind = "idle" => visit'[w] = visit[w]

\* A commit ends its request and makes late the others it touches.
LEMMA CommitFacts ==
    ASSUME SignIn!LinksTypeOK, NEW v \in Visits, NEW touched \in SUBSET Visits,
           SignIn!Commit(v, LAMBDA w : w \in touched)
    PROVE  /\ visit' \in [Visits -> SignIn!Visit] /\ visit'[v] = SignIn!Absent
           /\ \A w \in Visits \ {v} : Overtakes(w, w \in touched)
<1> USE DEF SignIn!LinksTypeOK
<1>1. SignIn!Absent \in SignIn!Visit
  BY DEF SignIn!Absent, SignIn!Visit
<1>2. ASSUME NEW w \in Visits
      PROVE  /\ [visit[w] EXCEPT !.late = TRUE] \in SignIn!Visit
             /\ [visit[w] EXCEPT !.late = TRUE].late
             /\ [visit[w] EXCEPT !.late = TRUE].kind = visit[w].kind
             /\ [visit[w] EXCEPT !.late = TRUE].who = visit[w].who
             /\ [visit[w] EXCEPT !.late = TRUE].link = visit[w].link
  BY DEF SignIn!Visit
<1>3. visit' = [w \in Visits |->
                 CASE w = v -> SignIn!Absent
                   [] w # v /\ visit[w].kind # "idle" /\ w \in touched ->
                          [visit[w] EXCEPT !.late = TRUE]
                   [] OTHER -> visit[w]]
  BY DEF SignIn!Commit
<1> DEFINE Late(w) == [visit[w] EXCEPT !.late = TRUE]
<1>4. visit' = [w \in Visits |-> IF w = v THEN SignIn!Absent
                                 ELSE IF visit[w].kind # "idle" /\ w \in touched THEN Late(w)
                                 ELSE visit[w]]
  <2> HIDE DEF Late
  <2> QED BY <1>3 DEF Late
<1>5. \A w \in Visits : Late(w) \in SignIn!Visit /\ Late(w).late /\ Late(w).kind = visit[w].kind
         /\ Late(w).who = visit[w].who /\ Late(w).link = visit[w].link
  BY <1>2
<1> HIDE DEF Late
<1> QED
  BY <1>1, <1>4, <1>5 DEF Overtakes

\* Parts of the invariant: of one link, of one request.
LinkHolds(l) ==
    /\ ~link[l].used => opened[l] = 0
    /\ link[l].age = "unsent" => ~link[l].used /\ ~link[l].mailed
    /\ link[l].age # "unsent" => link[l].owner \in Owners
VisitHolds(v) ==
    /\ visit[v].kind = "ask" => visit[v].who \in Owners
    /\ visit[v].kind = "open" => /\ visit[v].link \in Links
                                 /\ link[visit[v].link].age # "unsent"
                                 /\ visit[v].who = link[visit[v].link].owner
    /\ visit[v].kind = "idle" => visit[v] = SignIn!Absent
    /\ ~visit[v].late => SignIn!VisitStillHolds(v)

\* The invariant, part by part.
LEMMA LinksParts ==
    /\ SignIn!LinksIInv <=> /\ SignIn!LinksTypeOK
                            /\ \A l \in Links : LinkHolds(l)
                            /\ \A p \in Owners : IsFiniteSet(SignIn!FreshOf(p))
                            /\ \A v \in Visits : VisitHolds(v)
    /\ SignIn!LinksIInv' <=> /\ SignIn!LinksTypeOK'
                             /\ \A l \in Links : LinkHolds(l)'
                             /\ \A p \in Owners : IsFiniteSet(SignIn!FreshOf(p)')
                             /\ \A v \in Visits : VisitHolds(v)'
BY SameCount DEF SignIn!LinksIInv, LinkHolds, VisitHolds

\* A new visit, beside the others, where no link moves.
LEMMA NewVisit ==
    ASSUME SignIn!LinksIInv, NEW v \in Visits, NEW new \in SignIn!Visit,
           visit' = [visit EXCEPT ![v] = new], UNCHANGED <<enabled, link, opened>>, VisitHolds(v)'
    PROVE  SignIn!LinksIInv'
<1> USE LinksParts
<1>1. SignIn!LinksTypeOK'
  BY DEF SignIn!LinksTypeOK
<1>2. \A l \in Links : LinkHolds(l)'
  BY DEF LinkHolds
<1>3. \A p \in Owners : SignIn!FreshOf(p)' = SignIn!FreshOf(p)
  BY DEF SignIn!FreshOf, SignIn!Fresh
<1>4. ASSUME NEW w \in Visits \ {v} PROVE VisitHolds(w)'
  <2>1. visit'[w] = visit[w]
    BY DEF SignIn!LinksTypeOK
  <2>2. SignIn!FreshOf(visit[w].who)' = SignIn!FreshOf(visit[w].who)
    BY <2>1 DEF SignIn!FreshOf, SignIn!Fresh
  <2>3. VisitHolds(w)
    OBVIOUS
  <2> QED
    BY <2>1, <2>2, <2>3 DEF VisitHolds, SignIn!VisitStillHolds
<1>5. \A w \in Visits : VisitHolds(w)'
  BY <1>4
<1>6. \A p \in Owners : IsFiniteSet(SignIn!FreshOf(p)')
  BY <1>3
<1> QED
  BY <1>1, <1>2, <1>5, <1>6

\* A link is asked for when its owner has no fresh one.
LEMMA AskKeeps ==
    ASSUME SignIn!LinksIInv, NEW v \in Visits, NEW p \in Owners, SignIn!Ask(v, p)
    PROVE  SignIn!LinksIInv'
<1> DEFINE new == [kind |-> "ask", who |-> p, link |-> NoLink, admits |-> FALSE, late |-> FALSE]
<1>1. /\ visit' = [visit EXCEPT ![v] = new] /\ UNCHANGED <<enabled, link, opened>>
      /\ SignIn!FreshOf(p) = {}
  BY DEF SignIn!Ask, SignIn!Throttled
<1>2. new \in SignIn!Visit
  BY DEF SignIn!Visit
<1>3. visit'[v] = new /\ SignIn!FreshOf(p)' = {}
  BY <1>1 DEF SignIn!LinksIInv, SignIn!LinksTypeOK, SignIn!FreshOf, SignIn!Fresh
<1>4. new.kind = "ask" /\ new.who = p
  OBVIOUS
<1> HIDE DEF new
<1>5. VisitHolds(v)'
  BY <1>3, <1>4 DEF VisitHolds, SignIn!VisitStillHolds
<1> QED
  BY <1>1, <1>2, <1>5, NewVisit

\* A link is opened when it is unspent, with its owner's flag as it stands.
LEMMA VerifyKeeps ==
    ASSUME SignIn!LinksIInv, NEW v \in Visits, NEW l \in Links, SignIn!Verify(v, l)
    PROVE  SignIn!LinksIInv'
<1> DEFINE new == [kind |-> "open", who |-> link[l].owner, link |-> l,
                   admits |-> enabled[link[l].owner], late |-> FALSE]
<1>1. visit' = [visit EXCEPT ![v] = new] /\ UNCHANGED <<enabled, link, opened>>
  BY Zenon DEF SignIn!Verify
<1>2. link[l].used = FALSE /\ link[l].age # "unsent" /\ link[l].owner \in Owners
  BY LinksParts DEF SignIn!Verify, SignIn!Valid, LinkHolds, SignIn!LinksTypeOK, SignIn!Link
<1>4. enabled[link[l].owner] \in BOOLEAN
  BY <1>2 DEF SignIn!LinksIInv, SignIn!LinksTypeOK
<1>5. new \in SignIn!Visit
  BY <1>2, <1>4 DEF SignIn!Visit
<1>6. new.kind = "open" /\ new.who = link[l].owner /\ new.link = l
  OBVIOUS
<1>7. new.admits = enabled[link[l].owner]
  BY Zenon
<1> HIDE DEF new
<1>8. visit'[v] = new
  BY <1>1 DEF SignIn!LinksIInv, SignIn!LinksTypeOK
<1>9. VisitHolds(v)'
  BY <1>1, <1>2, <1>6, <1>7, <1>8 DEF VisitHolds, SignIn!VisitStillHolds
<1> QED
  BY <1>1, <1>5, <1>9, NewVisit

\* A request that ends without a commit changes nothing else.
LEMMA DropKeeps ==
    ASSUME SignIn!LinksIInv, NEW v \in Visits, SignIn!Drop(v)
    PROVE  SignIn!LinksIInv'
<1>1. SignIn!Absent \in SignIn!Visit /\ SignIn!Absent.kind = "idle"
  BY DEF SignIn!Absent, SignIn!Visit
<1>2. visit'[v] = SignIn!Absent
  BY DEF SignIn!Drop, SignIn!LinksIInv, SignIn!LinksTypeOK
<1>3. VisitHolds(v)'
  BY <1>1, <1>2 DEF VisitHolds, SignIn!VisitStillHolds
<1> QED
  BY <1>1, <1>3, NewVisit DEF SignIn!Drop

\* A minted link is fresh for its owner, and the other askers for that owner are late.
LEMMA MintKeeps ==
    ASSUME SignIn!LinksIInv, NEW v \in Visits, NEW l \in Links, SignIn!Mint(v, l)
    PROVE  SignIn!LinksIInv'
<1> USE LinksParts DEF SignIn!LinksTypeOK
<1> DEFINE who == visit[v].who
           touched == {w \in Visits : visit[w].kind = "ask" /\ visit[w].who = who}
<1>1. who \in Owners /\ link[l].age = "unsent" /\ opened[l] = 0 /\ UNCHANGED <<enabled, opened>>
  BY DEF SignIn!Mint, VisitHolds, LinkHolds
<1>2. PICK sent \in BOOLEAN : link' = [link EXCEPT ![l] = [owner |-> who, age |-> "young",
                                                        used |-> FALSE, mailed |-> sent]]
  BY DEF SignIn!Mint
<1>3. SignIn!Commit(v, LAMBDA w : w \in touched)
  BY DEF SignIn!Mint, SignIn!Commit
<1>4. /\ visit' \in [Visits -> SignIn!Visit] /\ visit'[v] = SignIn!Absent
      /\ \A w \in Visits \ {v} : Overtakes(w, w \in touched)
  BY <1>3, CommitFacts
<1>5. /\ link'[l].owner = who /\ link'[l].age = "young" /\ ~link'[l].used
      /\ link' \in [Links -> SignIn!Link]
      /\ \A m \in Links \ {l} : link'[m] = link[m]
  BY <1>1, <1>2 DEF SignIn!Link
<1>6. \A p : SignIn!FreshOf(p)' = IF p = who THEN SignIn!FreshOf(p) \cup {l} ELSE SignIn!FreshOf(p)
  BY <1>1, <1>5 DEF SignIn!FreshOf, SignIn!Fresh
<1>7. \A p \in Owners : IsFiniteSet(SignIn!FreshOf(p)')
  BY <1>6, FS_AddElement
<1>8. \A m \in Links : LinkHolds(m)'
  BY <1>1, <1>5 DEF LinkHolds
<1>9. ASSUME NEW w \in Visits PROVE VisitHolds(w)'
  <2>1. CASE w = v
    BY <1>4, <2>1 DEF VisitHolds, SignIn!Absent, SignIn!VisitStillHolds
  <2>2. CASE w # v
    <3>1. VisitHolds(w) /\ Overtakes(w, w \in touched)
      BY <1>4, <2>2
    <3>2. visit[w].kind = "open" => visit[w].link # l /\ link'[visit[w].link] = link[visit[w].link]
      BY <1>1, <1>5, <3>1 DEF VisitHolds
    <3>3. ~visit'[w].late /\ visit[w].kind = "ask" => visit[w].who # who
      BY <3>1 DEF Overtakes
    <3>4. ~visit'[w].late => SignIn!VisitStillHolds(w)'
      BY <1>1, <1>6, <3>1, <3>2, <3>3 DEF VisitHolds, SignIn!VisitStillHolds, Overtakes
    <3> QED
      BY <3>1, <3>2, <3>4 DEF VisitHolds, Overtakes
  <2> QED
    BY <2>1, <2>2
<1>10. SignIn!LinksTypeOK'
  BY <1>1, <1>4, <1>5
<1> QED
  BY <1>7, <1>8, <1>9, <1>10

\* A spent link is no longer fresh, and the other openers of that link are late.
LEMMA SpendKeeps ==
    ASSUME SignIn!LinksIInv, NEW v \in Visits, SignIn!Spend(v)
    PROVE  SignIn!LinksIInv'
<1> USE LinksParts DEF SignIn!LinksTypeOK
<1> DEFINE l == visit[v].link
           touched == {w \in Visits : visit[w].kind = "open" /\ visit[w].link = l}
<1>1. l \in Links /\ link[l].age # "unsent" /\ UNCHANGED enabled
  BY DEF SignIn!Spend, VisitHolds
<1>2. /\ link' = [link EXCEPT ![l].used = TRUE]
      /\ opened' = [opened EXCEPT ![l] = IF visit[v].admits THEN opened[l] + 1 ELSE opened[l]]
  BY DEF SignIn!Spend
<1>3. SignIn!Commit(v, LAMBDA w : w \in touched)
  BY DEF SignIn!Spend, SignIn!Commit
<1>4. /\ visit' \in [Visits -> SignIn!Visit] /\ visit'[v] = SignIn!Absent
      /\ \A w \in Visits \ {v} : Overtakes(w, w \in touched)
  BY <1>3, CommitFacts
<1> HIDE DEF l
<1>5. /\ link'[l].owner = link[l].owner /\ link'[l].age = link[l].age /\ link'[l].used
      /\ link' \in [Links -> SignIn!Link]
      /\ \A m \in Links \ {l} : link'[m] = link[m]
  BY <1>1, <1>2 DEF SignIn!Link
<1>6. opened' \in [Links -> Nat] /\ \A m \in Links \ {l} : opened'[m] = opened[m]
  BY <1>1, <1>2
<1>7. \A p : SignIn!FreshOf(p)' = SignIn!FreshOf(p) \ {l}
  BY <1>1, <1>5 DEF SignIn!FreshOf, SignIn!Fresh
<1>8. \A p \in Owners : IsFiniteSet(SignIn!FreshOf(p)')
  BY <1>7, FS_RemoveElement
<1>9. \A m \in Links : LinkHolds(m)'
  BY <1>1, <1>5, <1>6 DEF LinkHolds
<1>10. ASSUME NEW w \in Visits PROVE VisitHolds(w)'
  <2>1. CASE w = v
    BY <1>4, <2>1 DEF VisitHolds, SignIn!Absent, SignIn!VisitStillHolds
  <2>2. CASE w # v
    <3>1. VisitHolds(w) /\ Overtakes(w, w \in touched)
      BY <1>4, <2>2
    <3>2. visit[w].kind = "open" => /\ link'[visit[w].link].age = link[visit[w].link].age
                                    /\ link'[visit[w].link].owner = link[visit[w].link].owner
      BY <1>1, <1>5, <3>1 DEF VisitHolds
    <3>3. ~visit'[w].late /\ visit[w].kind = "open" => visit[w].link # l
      BY <3>1 DEF Overtakes
    <3>4. ~visit'[w].late => SignIn!VisitStillHolds(w)'
      BY <1>1, <1>5, <1>7, <3>1, <3>3 DEF VisitHolds, SignIn!VisitStillHolds, Overtakes
    <3> QED
      BY <3>1, <3>2, <3>4 DEF VisitHolds, Overtakes
  <2> QED
    BY <2>1, <2>2
<1>11. SignIn!LinksTypeOK'
  BY <1>1, <1>4, <1>5, <1>6
<1> QED
  BY <1>8, <1>9, <1>10, <1>11

\* Age takes links out of the fresh ones and touches no request.
LEMMA GrowKeeps ==
    ASSUME SignIn!LinksIInv, NEW l \in Links, SignIn!Grow(l)
    PROVE  SignIn!LinksIInv'
<1> USE LinksParts DEF SignIn!LinksTypeOK
<1>1. UNCHANGED <<enabled, opened, visit>> /\ link[l].age \in {"young", "old"}
  BY DEF SignIn!Grow
<1>2. PICK age \in {"old", "expired"} : link' = [link EXCEPT ![l].age = age]
  BY DEF SignIn!Grow
<1>3. /\ link'[l].owner = link[l].owner /\ link'[l].age = age
      /\ link' \in [Links -> SignIn!Link]
      /\ \A m \in Links \ {l} : link'[m] = link[m]
  BY <1>2 DEF SignIn!Link
<1>4. (link'[l].used <=> link[l].used) /\ (link'[l].mailed <=> link[l].mailed)
  BY <1>2 DEF SignIn!Link
<1>5. \A p : SignIn!FreshOf(p)' = SignIn!FreshOf(p) \ {l}
  BY <1>3 DEF SignIn!FreshOf, SignIn!Fresh
<1>6. \A p \in Owners : IsFiniteSet(SignIn!FreshOf(p)')
  BY <1>5, FS_RemoveElement
<1>7. \A m \in Links : LinkHolds(m)'
  BY <1>1, <1>3, <1>4 DEF LinkHolds
<1>8. ASSUME NEW w \in Visits PROVE VisitHolds(w)'
  <2>1. VisitHolds(w) /\ visit' = visit
    BY <1>1
  <2>2. visit[w].kind = "open" => /\ link'[visit[w].link].age # "unsent"
                                  /\ link'[visit[w].link].owner = link[visit[w].link].owner
                                  /\ (link'[visit[w].link].used <=> link[visit[w].link].used)
    BY <1>3, <1>4, <2>1 DEF VisitHolds
  <2> QED
    BY <1>1, <1>5, <2>1, <2>2 DEF VisitHolds, SignIn!VisitStillHolds
<1> QED
  BY <1>1, <1>3, <1>6, <1>7, <1>8

\* A flipped account makes its openers late.
LEMMA FlipKeeps ==
    ASSUME SignIn!LinksIInv, NEW p \in Owners, SignIn!Flip(p)
    PROVE  SignIn!LinksIInv'
<1> USE LinksParts DEF SignIn!LinksTypeOK
<1> DEFINE touched == {w \in Visits : visit[w].kind = "open" /\ visit[w].who = p}
           Late(w) == [visit[w] EXCEPT !.late = TRUE]
<1>1. /\ UNCHANGED <<link, opened>> /\ enabled' \in [Owners -> BOOLEAN]
      /\ \A q \in Owners \ {p} : enabled'[q] = enabled[q]
  BY DEF SignIn!Flip
<1>2. visit' = [w \in Visits |-> IF w \in touched THEN Late(w) ELSE visit[w]]
  BY DEF SignIn!Flip
<1>3. \A w \in Visits : Late(w) \in SignIn!Visit /\ Late(w).late /\ Late(w).kind = visit[w].kind
         /\ Late(w).who = visit[w].who /\ Late(w).link = visit[w].link
  BY DEF SignIn!Visit
<1> HIDE DEF Late
<1>4. visit' \in [Visits -> SignIn!Visit] /\ \A w \in Visits : Overtakes(w, w \in touched)
  BY <1>2, <1>3 DEF Overtakes
<1>5. \A q : SignIn!FreshOf(q)' = SignIn!FreshOf(q)
  BY <1>1 DEF SignIn!FreshOf, SignIn!Fresh
<1>6. \A l \in Links : LinkHolds(l)'
  BY <1>1 DEF LinkHolds
<1>7. ASSUME NEW w \in Visits PROVE VisitHolds(w)'
  <2>1. VisitHolds(w) /\ Overtakes(w, w \in touched) /\ link' = link
    BY <1>1, <1>4
  <2>2. ~visit'[w].late /\ visit[w].kind = "open" => visit[w].who # p /\ visit[w].who \in Owners
    BY <2>1 DEF Overtakes, VisitHolds, LinkHolds
  <2>3. ~visit'[w].late => SignIn!VisitStillHolds(w)'
    BY <1>1, <1>5, <2>1, <2>2 DEF VisitHolds, SignIn!VisitStillHolds, Overtakes
  <2> QED
    BY <2>1, <2>3 DEF VisitHolds, Overtakes
<1> QED
  BY <1>1, <1>4, <1>5, <1>6, <1>7

(* What a request of the sign-in endpoints read still holds until another  *)
(* commit makes the request late, for any people, links and requests       *)
(* (auth.py 349-500).                                                      *)
THEOREM VisitReadsHold == SignIn!LinksSpec => []SignIn!LinksIInv
<1>1. SignIn!LinksInit => SignIn!LinksIInv
  <2> SUFFICES ASSUME SignIn!LinksInit PROVE SignIn!LinksIInv
    OBVIOUS
  <2>1. SignIn!Absent \in SignIn!Visit /\ SignIn!Absent.kind = "idle"
    BY DEF SignIn!Absent, SignIn!Visit
  <2>2. SignIn!LinksTypeOK
    BY <2>1 DEF SignIn!LinksInit, SignIn!LinksTypeOK, SignIn!Link
  <2>3. \A l \in Links : LinkHolds(l)
    BY DEF SignIn!LinksInit, LinkHolds
  <2>4. \A p : SignIn!FreshOf(p) = {}
    BY DEF SignIn!LinksInit, SignIn!FreshOf, SignIn!Fresh
  <2>5. \A v \in Visits : VisitHolds(v)
    BY <2>1 DEF SignIn!LinksInit, VisitHolds, SignIn!VisitStillHolds
  <2> QED
    BY <2>2, <2>3, <2>4, <2>5, LinksParts, FS_EmptySet
<1>2. SignIn!LinksIInv /\ [SignIn!LinksNext]_linkVars => SignIn!LinksIInv'
  <2>1. SignIn!LinksIInv /\ UNCHANGED linkVars => SignIn!LinksIInv'
    BY DEF linkVars, SignIn!LinksIInv, SignIn!LinksTypeOK, SignIn!FreshOf, SignIn!Fresh,
           SignIn!VisitStillHolds
  <2> QED
    BY <2>1, AskKeeps, VerifyKeeps, DropKeeps, MintKeeps, SpendKeeps, GrowKeeps, FlipKeeps
       DEF SignIn!LinksNext
<1> QED
  BY <1>1, <1>2, PTL DEF SignIn!LinksSpec, SignIn!linkVars, linkVars

\* The three slips, each by a step that ends an overtaken request.
LEMMA SlipsAreLate ==
    ASSUME SignIn!LinksIInv, [SignIn!LinksNext]_linkVars, SignIn!Slips
    PROVE  \E v \in Visits : visit[v].late /\ visit'[v] = SignIn!Absent
<1> USE LinksParts DEF SignIn!LinksTypeOK
<1>1. ASSUME NEW p \in Owners, SignIn!FreshOf(p)' \subseteq SignIn!FreshOf(p)
      PROVE  ~(SignIn!Cardinality(SignIn!FreshOf(p)') > 1 /\ SignIn!Cardinality(SignIn!FreshOf(p)) < 2)
  <2>1. /\ IsFiniteSet(SignIn!FreshOf(p)) /\ IsFiniteSet(SignIn!FreshOf(p)')
        /\ Cardinality(SignIn!FreshOf(p)') <= Cardinality(SignIn!FreshOf(p))
    BY <1>1, FS_Subset
  <2>2. Cardinality(SignIn!FreshOf(p)') \in Nat /\ Cardinality(SignIn!FreshOf(p)) \in Nat
    BY <2>1, FS_CardinalityType
  <2> QED
    BY <2>1, <2>2, SameCount
<1>2. ASSUME UNCHANGED <<link, opened>> PROVE FALSE
  <2>1. \A p \in Owners : SignIn!FreshOf(p)' \subseteq SignIn!FreshOf(p)
    BY <1>2 DEF SignIn!FreshOf, SignIn!Fresh
  <2>2. opened' = opened
    BY <1>2
  <2> QED
    BY <1>1, <2>1, <2>2 DEF SignIn!Slips
<1>3. ASSUME NEW l \in Links, SignIn!Grow(l) PROVE FALSE
  <2>1. \A m \in Links : (link'[m].owner = link[m].owner) /\ (link'[m].used <=> link[m].used)
                         /\ (link'[m].age = "young" => link[m].age = "young")
    BY <1>3 DEF SignIn!Grow, SignIn!Link
  <2>2. \A p \in Owners : SignIn!FreshOf(p)' \subseteq SignIn!FreshOf(p)
    BY <2>1 DEF SignIn!FreshOf, SignIn!Fresh
  <2>3. opened' = opened
    BY <1>3 DEF SignIn!Grow
  <2> QED
    BY <1>1, <2>2, <2>3 DEF SignIn!Slips
<1>4. ASSUME NEW v \in Visits, SignIn!Spend(v)
      PROVE  visit[v].late /\ visit'[v] = SignIn!Absent
  <2> DEFINE l == visit[v].link
  <2>1. l \in Links /\ VisitHolds(v) /\ LinkHolds(l) /\ visit[v].kind = "open"
    BY <1>4 DEF SignIn!Spend, VisitHolds
  <2>2. /\ link' = [link EXCEPT ![l].used = TRUE]
        /\ opened' = [opened EXCEPT ![l] = IF visit[v].admits THEN opened[l] + 1 ELSE opened[l]]
    BY <1>4 DEF SignIn!Spend
  <2>3. \A p \in Owners : SignIn!FreshOf(p)' \subseteq SignIn!FreshOf(p)
    <3>1. \A m \in Links : (link'[m].owner = link[m].owner) /\ (link'[m].age = link[m].age)
                           /\ (~link'[m].used => ~link[m].used)
      BY <2>1, <2>2 DEF SignIn!Link
    <3> QED
      BY <3>1 DEF SignIn!FreshOf, SignIn!Fresh
  <2>4. \A m \in Links : opened'[m] > opened[m] => m = l /\ visit[v].admits
    BY <2>1, <2>2
  <2>5. ASSUME \E m \in Links : opened[m] > 0 /\ opened'[m] > opened[m] PROVE visit[v].late
    BY <2>1, <2>4, <2>5 DEF VisitHolds, LinkHolds, SignIn!VisitStillHolds
  <2>6. ASSUME \E m \in Links : opened'[m] > opened[m] /\ ~enabled[link[m].owner]
        PROVE  visit[v].late
    BY <2>1, <2>4, <2>6 DEF VisitHolds, SignIn!VisitStillHolds
  <2>7. visit[v].late
    BY <1>1, <2>3, <2>5, <2>6 DEF SignIn!Slips
  <2> QED
    BY <1>4, <2>7 DEF SignIn!Spend, SignIn!Commit
<1>5. ASSUME NEW v \in Visits, NEW l \in Links, SignIn!Mint(v, l)
      PROVE  visit[v].late /\ visit'[v] = SignIn!Absent
  <2> DEFINE who == visit[v].who
  <2>1. visit[v].kind = "ask" /\ link[l].age = "unsent" /\ opened' = opened
    BY <1>5 DEF SignIn!Mint
  <2>2. /\ link'[l].owner = who /\ link'[l].age = "young" /\ ~link'[l].used
        /\ \A m \in Links \ {l} : link'[m] = link[m]
    BY <1>5 DEF SignIn!Mint
  <2>3. \A p : SignIn!FreshOf(p)' = IF p = who THEN SignIn!FreshOf(p) \cup {l} ELSE SignIn!FreshOf(p)
    BY <2>1, <2>2 DEF SignIn!FreshOf, SignIn!Fresh
  <2>4. ~visit[v].late => \A p : p = who => SignIn!FreshOf(p)' = {l}
    <3>1. VisitHolds(v)
      OBVIOUS
    <3>2. ~visit[v].late => SignIn!FreshOf(who) = {}
      BY <2>1, <3>1 DEF VisitHolds, SignIn!VisitStillHolds
    <3> QED
      BY <2>3, <3>2
  <2>5. Cardinality({l}) = 1
    BY FS_Singleton
  <2>6. \A p \in Owners \ {who} : SignIn!FreshOf(p)' \subseteq SignIn!FreshOf(p)
    BY <2>3
  <2>7. PICK p \in Owners : /\ SignIn!Cardinality(SignIn!FreshOf(p)') > 1
                            /\ SignIn!Cardinality(SignIn!FreshOf(p)) < 2
    BY <2>1 DEF SignIn!Slips
  <2>8. visit[v].late
    <3>1. p = who
      BY <1>1, <2>6, <2>7
    <3>2. ~visit[v].late => SignIn!FreshOf(p)' = {l}
      BY <2>4, <3>1
    <3>3. SignIn!Cardinality({l}) = 1
      BY <2>5, SameCount
    <3> QED
      BY <2>7, <3>2, <3>3
  <2> QED
    BY <1>5, <2>8 DEF SignIn!Mint, SignIn!Commit
<1>6. ASSUME NEW v \in Visits, NEW p \in Owners, SignIn!Ask(v, p) PROVE UNCHANGED <<link, opened>>
  BY <1>6 DEF SignIn!Ask
<1>7. ASSUME NEW v \in Visits, NEW l \in Links, SignIn!Verify(v, l) PROVE UNCHANGED <<link, opened>>
  BY <1>7 DEF SignIn!Verify
<1>8. ASSUME NEW v \in Visits, SignIn!Drop(v) PROVE UNCHANGED <<link, opened>>
  BY <1>8 DEF SignIn!Drop
<1>9. ASSUME NEW p \in Owners, SignIn!Flip(p) PROVE UNCHANGED <<link, opened>>
  BY <1>9 DEF SignIn!Flip
<1>10. UNCHANGED linkVars => UNCHANGED <<link, opened>>
  BY DEF linkVars
<1> QED
  BY <1>2, <1>3, <1>4, <1>5, <1>6, <1>7, <1>8, <1>9, <1>10 DEF SignIn!LinksNext

(* One link opens two sessions, one person holds two young links, or a     *)
(* disabled account gets a session, only through a request that another    *)
(* commit overtook (auth.py 358-376, 413-426, 478-493).                    *)
THEOREM SlipsTakeOvertakenVisits == SignIn!LinksSpec => LinksSlipOnlyInRaces
<1> DEFINE Step == SignIn!Slips => \E v \in Visits : visit[v].late /\ visit'[v] = SignIn!Absent
<1>1. SignIn!LinksIInv /\ [SignIn!LinksNext]_linkVars => [Step]_linkVars
  BY SlipsAreLate
<1>2. SignIn!LinksSpec => [][Step]_linkVars
  BY <1>1, VisitReadsHold, PTL DEF SignIn!LinksSpec, SignIn!linkVars, linkVars
<1> QED
  BY <1>2 DEF LinksSlipOnlyInRaces, SignIn!LinksSlipOnlyInRaces, SignIn!linkVars, linkVars

-----------------------------------------------------------------------------
DeskShape == Desk!DeskTypeOK /\ Desk!LogTellsAll

\* A broadcast being sent is the one the invariant describes.
LEMMA SendingIs ==
    ASSUME Desk!BroadcastIsStraight
    PROVE  /\ job.stage = "sending" => Desk!Sending
           /\ job.stage = "logged" => Desk!Logged
           /\ job.stage = "asked" =>
                 job \in [stage : {"asked"}, audience : SUBSET Readers] /\ inbox = Desk!NoMail
BY DEF Desk!BroadcastIsStraight, Desk!Sending, Desk!Logged, Desk!NoJob

\* The requests of the desk leave the audit rows telling the state.
LEMMA RowsTell == 
    ASSUME DeskShape, Desk!BroadcastIsStraight, [Desk!DeskNext]_deskVars
    PROVE  DeskShape'
<1> USE DEF DeskShape, Desk!DeskTypeOK, Desk!LogTellsAll, Desk!Unchanged
<1> DEFINE Rest == UNCHANGED <<switch, card, log, desk>> /\ inbox' \in [Readers -> SUBSET Desk!Stories]
<1>1. \A d \in Desks : desk[d] \in Desk!Work
  OBVIOUS
<1>2. Desk!Waiting \in Desk!Work
  BY DEF Desk!Work
<1>3. ASSUME NEW d \in Desks, NEW s \in Switches, NEW to \in BOOLEAN, Desk!LoadSwitch(d, s, to)
      PROVE  DeskShape'
  <2> DEFINE w == [kind |-> "switch", of |-> s, from |-> switch[s], to |-> to]
  <2>1. w \in Desk!Work
    BY DEF Desk!Work
  <2>2. desk' = [desk EXCEPT ![d] = w] /\ UNCHANGED <<switch, card, log, inbox>>
    BY <1>3 DEF Desk!LoadSwitch, Desk!Hold
  <2> HIDE DEF w
  <2> QED
    BY <2>1, <2>2
<1>4. ASSUME NEW d \in Desks, Desk!CommitSwitch(d) PROVE DeskShape'
  <2>1. desk[d].of \in Switches /\ desk[d].to \in BOOLEAN
    BY <1>1, <1>4 DEF Desk!CommitSwitch, Desk!Work, Desk!Waiting
  <2>2. desk' = [desk EXCEPT ![d] = Desk!Waiting]
    BY <1>4 DEF Desk!CommitSwitch, Desk!Close
  <2>3. /\ switch' = switch /\ log' = log
        \/ /\ switch' = [switch EXCEPT ![desk[d].of] = desk[d].to]
           /\ log' = [log EXCEPT !.switch[desk[d].of] = desk[d].to]
    BY <1>4 DEF Desk!CommitSwitch, Desk!Writes, Desk!Audited
  <2>4. switch' \in [Switches -> BOOLEAN]
    BY <2>1, <2>3
  <2>5. log' \in [switch : [Switches -> BOOLEAN],
                  card : [Cards -> {"absent", "created", "updated", "deleted"}]]
    BY <2>1, <2>3
  <2>6. log'.switch = switch' /\ log'.card = log.card
    BY <2>1, <2>3
  <2>7. UNCHANGED <<card, inbox>>
    BY <1>4 DEF Desk!CommitSwitch
  <2> QED
    BY <1>2, <2>2, <2>4, <2>5, <2>6, <2>7
<1>5. ASSUME NEW d \in Desks, NEW c \in Cards, NEW as \in {"draft", "published"}, Desk!CreateCard(d, c, as)
      PROVE  DeskShape'
  BY <1>5 DEF Desk!CreateCard, Desk!Shapes
<1>6. ASSUME NEW d \in Desks, NEW c \in Cards, NEW as \in {"draft", "published"},
             NEW kind \in {"update", "delete"}, Desk!LoadCard(d, c, kind, as)
      PROVE  DeskShape'
  <2> DEFINE w == [kind |-> kind, of |-> c, to |-> as]
  <2>1. w \in Desk!Work
    BY DEF Desk!Work
  <2>2. desk' = [desk EXCEPT ![d] = w] /\ UNCHANGED <<switch, card, log, inbox>>
    BY <1>6 DEF Desk!LoadCard, Desk!Hold
  <2> HIDE DEF w
  <2> QED
    BY <2>1, <2>2
<1>7. ASSUME NEW d \in Desks, Desk!CommitUpdate(d) \/ Desk!CommitDelete(d) PROVE DeskShape'
  <2>1. desk[d].of \in Cards /\ desk[d].to \in {"draft", "published"}
    BY <1>1, <1>7 DEF Desk!CommitUpdate, Desk!CommitDelete, Desk!Work, Desk!Waiting
  <2> QED
    BY <1>2, <1>7, <2>1 DEF Desk!CommitUpdate, Desk!CommitDelete, Desk!Close, Desk!Shapes
<1>8. ASSUME NEW d \in Desks, Desk!Abandon(d) PROVE DeskShape'
  BY <1>2, <1>8 DEF Desk!Abandon, Desk!Close
<1>9. Rest => DeskShape'
  OBVIOUS
<1>10. Desk!NoMail \in [Readers -> SUBSET Desk!Stories]
  BY DEF Desk!NoMail
<1>11. ASSUME NEW p \in Readers, Desk!Mail(p) PROVE Rest
  <2>1. job.story \in Desk!Stories
    BY <1>11, SendingIs DEF Desk!Mail, Desk!Sending
  <2> QED
    BY <1>11, <2>1 DEF Desk!Mail, Desk!Told
<1>12. CASE \/ \E audience \in SUBSET Readers : Desk!QueryAudience(audience)
            \/ Desk!Compose \/ Desk!Record \/ Desk!Crash \/ Desk!NextBroadcast
  BY <1>9, <1>10, <1>12 DEF Desk!QueryAudience, Desk!Compose, Desk!Record, Desk!Crash, Desk!NextBroadcast
<1>13. CASE UNCHANGED deskVars
  BY <1>13 DEF deskVars
<1> QED
  BY <1>3, <1>4, <1>5, <1>6, <1>7, <1>8, <1>9, <1>11, <1>12, <1>13 DEF Desk!DeskNext

\* The steps of a broadcast keep its account straight.
LEMMA AccountStaysStraight ==
    ASSUME DeskShape, Desk!BroadcastIsStraight, [Desk!DeskNext]_deskVars
    PROVE  Desk!BroadcastIsStraight'
<1> USE SendingIs, SameCount
<1>1. Desk!NoMail \in [Readers -> SUBSET Desk!Stories]
  BY DEF Desk!NoMail
<1>2. ASSUME NEW audience \in SUBSET Readers, Desk!QueryAudience(audience) PROVE Desk!BroadcastIsStraight'
  BY <1>2 DEF Desk!QueryAudience, Desk!BroadcastIsStraight, Desk!NoMail
<1>3. CASE Desk!Compose
  <2>1. /\ job \in [stage : {"asked"}, audience : SUBSET Readers]
        /\ inbox = Desk!NoMail /\ inbox' = inbox
    BY <1>3 DEF Desk!Compose
  <2>2. switch[Teller] \in BOOLEAN
    BY TellerAssumption DEF DeskShape, Desk!DeskTypeOK
  <2>3. PICK story \in Desk!Tellable :
          job' = [stage |-> "sending", audience |-> job.audience, left |-> job.audience,
                  story |-> story, released |-> switch[Teller], sent |-> 0, failed |-> 0]
    BY <1>3 DEF Desk!Compose
  <2>4. story \in Desk!Stories /\ (story = "winner" => switch[Teller])
    BY DEF Desk!Tellable, Desk!Stories
  <2>5. Desk!Got' = {} /\ Desk!Mailed' = {}
    BY <2>1, <2>3 DEF Desk!Got, Desk!Mailed, Desk!NoMail
  <2>6. Desk!Sending'
    BY <2>1, <2>2, <2>3, <2>4, <2>5, FS_EmptySet DEF Desk!Sending
  <2> QED
    BY <2>6 DEF Desk!BroadcastIsStraight
<1>4. ASSUME NEW p \in Readers, Desk!Mail(p) PROVE Desk!BroadcastIsStraight'
  <2>1. Desk!Sending /\ p \in job.left
    BY <1>4 DEF Desk!Mail
  <2>2. PICK ok \in BOOLEAN, accepted \in BOOLEAN :
          /\ ok => accepted
          /\ inbox' = IF accepted THEN [inbox EXCEPT ![p] = @ \cup {job.story}] ELSE inbox
          /\ job' = [job EXCEPT !.left = @ \ {p},
                                !.sent = IF ok THEN @ + 1 ELSE @,
                                !.failed = IF ok THEN @ ELSE @ + 1]
    BY <1>4 DEF Desk!Mail, Desk!Told
  <2>3. p \notin Desk!Mailed /\ p \notin Desk!Got
    BY <2>1 DEF Desk!Mailed, Desk!Sending
  <2>4. Desk!Mailed' = Desk!Mailed \cup {p}
    BY <2>1, <2>2 DEF Desk!Mailed, Desk!Sending
  <2>5. Desk!Got' = IF accepted THEN Desk!Got \cup {p} ELSE Desk!Got
    BY <2>2, <2>3 DEF Desk!Got, DeskShape, Desk!DeskTypeOK
  <2>6. \A q \in Desk!Got' : inbox'[q] = {job.story}
    BY <2>1, <2>2, <2>3, <2>5 DEF Desk!Sending, Desk!Got, DeskShape, Desk!DeskTypeOK
  <2>7. IsFiniteSet(Desk!Mailed) /\ IsFiniteSet(Desk!Got)
    BY <2>1, FS_Subset DEF Desk!Sending
  <2>8. /\ IsFiniteSet(Desk!Mailed')
        /\ Cardinality(Desk!Mailed') = Cardinality(Desk!Mailed) + 1
        /\ Cardinality(Desk!Got') = IF accepted THEN Cardinality(Desk!Got) + 1 ELSE Cardinality(Desk!Got)
    BY <2>3, <2>4, <2>5, <2>7, FS_AddElement
  <2>9. Cardinality(Desk!Mailed) \in Nat /\ Cardinality(Desk!Got) \in Nat
    BY <2>7, FS_CardinalityType
  <2>10. Desk!Sending'
    <3>1. /\ job' \in [stage : {"sending"}, audience : SUBSET Readers, left : SUBSET Readers,
               story : Desk!Stories, released : BOOLEAN, sent : Nat, failed : Nat]
          /\ job'.left \subseteq job'.audience
          /\ job'.story = job.story /\ job'.released = job.released
      <4>1. job' \in [stage : {"sending"}, audience : SUBSET Readers, left : SUBSET Readers,
               story : Desk!Stories, released : BOOLEAN, sent : Nat, failed : Nat]
        <5> DEFINE sent == IF ok THEN job.sent + 1 ELSE job.sent
                   failed == IF ok THEN job.failed ELSE job.failed + 1
        <5>1. job' = [job EXCEPT !.left = job.left \ {p}, !.sent = sent, !.failed = failed]
          BY <2>2, Zenon
        <5>2. sent \in Nat /\ failed \in Nat /\ job.left \ {p} \in SUBSET Readers
          BY <2>1 DEF Desk!Sending
        <5> HIDE DEF sent, failed
        <5> QED
          BY <2>1, <5>1, <5>2 DEF Desk!Sending
      <4>2. job'.left \subseteq job'.audience /\ job'.story = job.story
        BY <2>1, <2>2 DEF Desk!Sending
      <4>3. job'.released = job.released
        BY <2>1, <2>2, Zenon DEF Desk!Sending
      <4> QED
        BY <4>1, <4>2, <4>3
    <3>2. job'.sent = (IF ok THEN job.sent + 1 ELSE job.sent)
          /\ job'.failed = IF ok THEN job.failed ELSE job.failed + 1
      BY <2>1, <2>2 DEF Desk!Sending
    <3>3. job'.sent <= Cardinality(Desk!Got') /\ job'.sent + job'.failed = Cardinality(Desk!Mailed')
      BY <2>1, <2>2, <2>8, <2>9, <3>2 DEF Desk!Sending
    <3>4. Desk!Got' \subseteq Desk!Mailed'
      BY <2>1, <2>4, <2>5 DEF Desk!Sending
    <3> QED
      BY <2>1, <2>6, <2>8, <3>1, <3>3, <3>4 DEF Desk!Sending
  <2> QED
    BY <2>10 DEF Desk!BroadcastIsStraight
<1>5. CASE Desk!Record
  <2>0. Desk!Sending
    BY <1>5, SendingIs DEF Desk!Record
  <2>1. /\ job.left = {} /\ inbox' = inbox
        /\ job' = [stage |-> "logged", size |-> Cardinality(job.audience), sent |-> job.sent,
               failed |-> job.failed, released |-> job.released]
    BY <1>5 DEF Desk!Record
  <2>2. Desk!Mailed = job.audience /\ Desk!Got' = Desk!Got
    BY <2>1 DEF Desk!Mailed, Desk!Got
  <2>3. Cardinality(Desk!Got) <= Cardinality(job.audience)
    BY <2>0, <2>1, <2>2, FS_Subset DEF Desk!Sending
  <2>4. \E story \in Desk!Stories :
                                       /\ \A p \in Desk!Got : inbox[p] = {story}
                                       /\ story = "winner" => job.released
    BY <2>0 DEF Desk!Sending
  <2>6. /\ job'.stage = "logged" /\ job'.sent = job.sent /\ job'.failed = job.failed
        /\ job'.size = Cardinality(job.audience)
    BY <2>1
  <2>7. job'.released = job.released
    BY <2>1, Zenon
  <2>5. Desk!Logged'
    BY <2>0, <2>1, <2>2, <2>3, <2>4, <2>6, <2>7 DEF Desk!Logged, Desk!Sending
  <2> QED
    BY <2>5 DEF Desk!BroadcastIsStraight
<1>6. CASE Desk!Crash \/ Desk!NextBroadcast
  BY <1>6 DEF Desk!Crash, Desk!NextBroadcast, Desk!BroadcastIsStraight
<1>7. CASE UNCHANGED <<job, inbox>>
  BY <1>7 DEF Desk!BroadcastIsStraight, Desk!Sending, Desk!Logged, Desk!Got, Desk!Mailed
<1> QED
  BY <1>2, <1>3, <1>4, <1>5, <1>6, <1>7
     DEF Desk!DeskNext, deskVars, Desk!LoadSwitch, Desk!LoadCard, Desk!Hold, Desk!CommitSwitch,
         Desk!CreateCard, Desk!CommitUpdate, Desk!CommitDelete, Desk!Abandon

(* The audit rows tell the state of the switches and cards, and a          *)
(* broadcast under way has mailed nobody twice, counted every mail it sent *)
(* and told one story (admin.py 640-800, 2203-2290, announcements.py).     *)
THEOREM DeskKeepsItsBooks == Desk!DeskSpec => []Desk!DeskIInv
<1>1. Desk!DeskInit => Desk!DeskIInv
  <2> SUFFICES ASSUME Desk!DeskInit PROVE Desk!DeskIInv
    OBVIOUS
  <2>1. Desk!DeskTypeOK
    BY DEF Desk!DeskInit, Desk!DeskTypeOK, Desk!Work, Desk!Waiting, Desk!NoMail, Desk!Shapes
  <2> QED
    BY <2>1 DEF Desk!DeskInit, Desk!DeskIInv, Desk!LogTellsAll, Desk!BroadcastIsStraight
<1>2. Desk!DeskIInv /\ [Desk!DeskNext]_deskVars => Desk!DeskIInv'
  BY RowsTell, AccountStaysStraight DEF Desk!DeskIInv, DeskShape
<1> QED
  BY <1>1, <1>2, PTL DEF Desk!DeskSpec, Desk!deskVars, deskVars

\* What the invariant of the desk says of everybody's mail.
LEMMA StraightIsOneStory ==
    ASSUME Desk!DeskIInv PROVE Desk!LogTellsAll /\ Desk!OneStoryPerBroadcast
<1> USE SameCount DEF Desk!DeskIInv
<1>1. ASSUME NEW story, NEW S \in SUBSET Readers, \A p \in S : inbox[p] = {story}
      PROVE  \A p, q \in S : inbox[p] = inbox[q] /\ Cardinality(inbox[p]) = 1
  BY <1>1, FS_Singleton
<1>2. CASE inbox = Desk!NoMail /\ job.stage # "logged"
  BY <1>2 DEF Desk!OneStoryPerBroadcast, Desk!NoMail
<1>3. CASE Desk!Sending
  <2>1. \A p, q \in Desk!Got : inbox[p] = inbox[q] /\ Cardinality(inbox[p]) = 1
    <3>1. Desk!Got \subseteq Readers /\ \A p \in Desk!Got : inbox[p] = {job.story}
      BY <1>3 DEF Desk!Sending, Desk!Got
    <3> QED
      BY <1>1, <3>1
  <2>2. \A p \in Desk!Got : "winner" \in inbox[p] => job.released
    BY <1>3 DEF Desk!Sending
  <2>3. job.stage # "logged"
    BY <1>3 DEF Desk!Sending
  <2> QED
    BY <2>1, <2>2, <2>3 DEF Desk!OneStoryPerBroadcast, Desk!Got
<1>4. CASE Desk!Logged
  <2>1. \A p, q \in Desk!Got : inbox[p] = inbox[q] /\ Cardinality(inbox[p]) = 1
    <3>1. Desk!Got \subseteq Readers
      BY DEF Desk!Got
    <3>2. PICK story \in Desk!Stories : \A p \in Desk!Got : inbox[p] = {story}
      BY <1>4 DEF Desk!Logged
    <3> QED
      BY <1>1, <3>1, <3>2
  <2>2. \A p \in Desk!Got : "winner" \in inbox[p] => job.released
    BY <1>4 DEF Desk!Logged
  <2>3. /\ job.sent <= Cardinality(Desk!Got)
        /\ Cardinality(Desk!Got) <= job.size
        /\ job.sent + job.failed = job.size
    BY <1>4 DEF Desk!Logged
  <2> QED
    BY <2>1, <2>2, <2>3 DEF Desk!OneStoryPerBroadcast, Desk!Got
<1> QED
  BY <1>2, <1>3, <1>4 DEF Desk!BroadcastIsStraight, Desk!NoJob

-----------------------------------------------------------------------------
\* The signals of a user are of days gone by.
LEMMA AudienceInvariant == Mail!AudienceSpec => []Mail!AudienceTypeOK
<1> USE DaysAssumption DEF Mail!AudienceTypeOK, Mail!Kinds
<1>1. Mail!AudienceInit => Mail!AudienceTypeOK
  BY DEF Mail!AudienceInit
<1>2. Mail!AudienceTypeOK /\ [Mail!AudienceNext]_mailVars => Mail!AudienceTypeOK'
  <2> SUFFICES ASSUME Mail!AudienceTypeOK, [Mail!AudienceNext]_mailVars
               PROVE  Mail!AudienceTypeOK'
    OBVIOUS
  <2>1. CASE Mail!Visit
    BY <2>1 DEF Mail!Visit
  <2>2. CASE Mail!AccountMoves
    BY <2>2 DEF Mail!AccountMoves
  <2>3. CASE Mail!EntriesMove
    <3>1. \A k \in Mail!Kinds : Mail!Leads[k] \subseteq Mail!Kinds
      BY DEF Mail!Leads
    <3>2. owns' \subseteq Mail!Kinds
      BY <2>3, <3>1 DEF Mail!EntriesMove
    <3> QED
      BY <2>3, <3>2 DEF Mail!EntriesMove
  <2>4. CASE Mail!DayPasses
    BY <2>4 DEF Mail!DayPasses
  <2>5. CASE UNCHANGED mailVars
    BY <2>5 DEF mailVars
  <2> QED
    BY <2>1, <2>2, <2>3, <2>4, <2>5 DEF Mail!AudienceNext
<1> QED
  BY <1>1, <1>2, PTL DEF Mail!AudienceSpec, Mail!audienceVars, mailVars

(* The segments of a broadcast divide the users as their names promise,    *)
(* whatever the deadlines and windows (broadcast.py 14-25, 252-360).       *)
THEOREM SegmentsDivide == ASSUME Mail!AudienceTypeOK PROVE Mail!SegmentsPart
<1> USE DaysAssumption DEF Mail!AudienceTypeOK
<1> SUFFICES ASSUME NEW ph \in Mail!Engagement
             PROVE  LET s == Mail!Segments(ph) IN
        /\ \A x, y \in s \cap {"submitters", "no_entry", "draft_holders"} : x = y
        /\ s \cap {"pool_ghost", "lapsing"} # {} => "submitters" \in s
        /\ Mail!IsFresh(column) \/ Mail!IsFresh(ph) => "lapsing" \notin s
        /\ today >= Kickoff + FreshDays /\ (Mail!IsFresh(column) \/ Mail!IsFresh(ph)) => "pool_ghost" \notin s
        /\ today >= Kickoff + StaleDays => ~({"pool_ghost", "lapsing"} \subseteq s)
        /\ owns # {} /\ reachable /\ s = {} => "draft" \notin owns /\ ~Mail!EligibleSubmitted
  BY DEF Mail!SegmentsPart
<1> DEFINE s == Mail!Segments(ph)
<1>0. ph \in Int
  BY DEF Mail!Engagement
<1>1. /\ "submitters" \in s <=> reachable /\ Mail!HasSubmitted
      /\ "no_entry" \in s <=> reachable /\ owns = {}
      /\ "draft_holders" \in s <=> reachable /\ "draft" \in owns /\ ~Mail!HasSubmitted
      /\ "pool_ghost" \in s <=> reachable /\ Mail!PoolGhost(ph)
      /\ "lapsing" \in s <=> reachable /\ Mail!Lapsing(ph)
  BY Zenon DEF Mail!Segments
<1>2. Mail!EligibleSubmitted => Mail!HasSubmitted
  BY DEF Mail!EligibleSubmitted, Mail!HasSubmitted
<1> HIDE DEF s
<1>3. \A x, y \in s \cap {"submitters", "no_entry", "draft_holders"} : x = y
  BY <1>1 DEF Mail!HasSubmitted
<1>4. s \cap {"pool_ghost", "lapsing"} # {} => "submitters" \in s
  BY <1>1, <1>2 DEF Mail!PoolGhost, Mail!Lapsing
<1>5. Mail!IsFresh(column) \/ Mail!IsFresh(ph) => "lapsing" \notin s
  BY <1>1 DEF Mail!Lapsing
<1>6. today >= Kickoff + FreshDays /\ (Mail!IsFresh(column) \/ Mail!IsFresh(ph)) => "pool_ghost" \notin s
  BY <1>0, <1>1 DEF Mail!PoolGhost, Mail!IsFresh
<1>7. today >= Kickoff + StaleDays => ~({"pool_ghost", "lapsing"} \subseteq s)
  BY <1>0, <1>1 DEF Mail!PoolGhost, Mail!Lapsing, Mail!InWindow
<1>8. owns # {} /\ reachable /\ s = {} => "draft" \notin owns /\ ~Mail!EligibleSubmitted
  BY <1>1, <1>2
<1> QED
  BY <1>3, <1>4, <1>5, <1>6, <1>7, <1>8 DEF s

-----------------------------------------------------------------------------
(* The administration run follows one of its four parts, so that what each *)
(* part keeps, the whole keeps.                                            *)
THEOREM PartsRun ==
    Spec => /\ AccountsSpec /\ SignIn!LinksSpec /\ Desk!DeskSpec /\ Mail!AudienceSpec
<1>1. Init => AccountsInit /\ SignIn!LinksInit /\ Desk!DeskInit /\ Mail!AudienceInit
  BY DEF Init
<1>2. [Next]_vars => /\ [AccountsNext]_accountsVars /\ [SignIn!LinksNext]_linkVars
                     /\ [Desk!DeskNext]_deskVars /\ [Mail!AudienceNext]_mailVars
  BY DEF Next, vars
<1> QED
  BY <1>1, <1>2, PTL
     DEF Spec, AccountsSpec, SignIn!LinksSpec, SignIn!linkVars, linkVars, Desk!DeskSpec,
         Desk!deskVars, deskVars, Mail!AudienceSpec, Mail!audienceVars, mailVars

(* In the pool as it is administered, only requests that overlap break a   *)
(* rule of the accounts or of the sign-in links, a close-out that nothing  *)
(* overtook is exact, the audit rows tell the state, a broadcast tells one *)
(* story and counts what it sent, and the segments divide the users.       *)
THEOREM PoolIsSound ==
    Spec => /\ OnlyRacesBreakRules /\ CloseIsExact /\ LinksSlipOnlyInRaces
            /\ []DeskTellsTrue
<1>1. Desk!DeskIInv /\ Mail!AudienceTypeOK => DeskTellsTrue
  BY StraightIsOneStory, SegmentsDivide DEF DeskTellsTrue
<1>2. Desk!DeskSpec /\ Mail!AudienceSpec => []DeskTellsTrue
  BY <1>1, DeskKeepsItsBooks, AudienceInvariant, PTL
<1> QED
  BY <1>2, PartsRun, GuardsFailOnlyInRaces, CloseOutIsExact, SlipsTakeOvertakenVisits
=============================================================================
