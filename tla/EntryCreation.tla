--------------------------- MODULE EntryCreation ---------------------------
(***************************************************************************)
(* create_entry (backend/app/services/entries.py) as a transaction, query  *)
(* by query: count the user's standing entries, take the user's next entry *)
(* number, lock the competition row (SELECT ... FOR UPDATE), count all     *)
(* entries for the reference, insert, commit.  duplicate_entry runs the    *)
(* same queries.  Each query sees the newest commit (READ COMMITTED), the  *)
(* lock is held to the end of the transaction, and two unique constraints  *)
(* guard the insert.  No row is ever deleted, so the table is a sequence.  *)
(***************************************************************************)
EXTENDS Integers, Sequences, FiniteSetsExt

CONSTANTS
    Requests,     \* concurrent POST /entries
    Players,      \* who sends them
    NoPlayer,     \* the user of a request not sent
    Free,         \* the holder of the competition row lock when nobody holds it
    MaxEntries,   \* max_entries_per_user
    MaxRows       \* bound: entries created

ASSUME CreationAssumption ==
    /\ Free \notin Requests
    /\ NoPlayer \notin Players
    /\ MaxEntries \in Nat \ {0}
    /\ MaxRows \in Nat

VARIABLES
    entries,    \* the committed prediction_entries, in order of commit
    lock,       \* who holds the competition row
    pc,         \* where each request is in create_entry
    user,       \* who sent it
    number,     \* the entry_number it read
    reference   \* the reference number it read

creationVars == <<entries, lock, pc, user, number, reference>>

Stages == {"idle", "counted", "numbered", "locked", "referenced"}

CreationTypeOK ==
    /\ entries \in Seq([user : Players, number : Nat, reference : Nat, standing : BOOLEAN])
    /\ lock \in Requests \cup {Free}
    /\ pc \in [Requests -> Stages]
    /\ user \in [Requests -> Players \cup {NoPlayer}]
    /\ number \in [Requests -> Nat]
    /\ reference \in [Requests -> Nat]

CreationInit ==
    /\ entries = <<>>
    /\ lock = Free
    /\ pc = [r \in Requests |-> "idle"]
    /\ user = [r \in Requests |-> NoPlayer]
    /\ number = [r \in Requests |-> 0]
    /\ reference = [r \in Requests |-> 0]

-----------------------------------------------------------------------------

Own(u) == {i \in DOMAIN entries : entries[i].user = u}
StandingOf(u) == {i \in Own(u) : entries[i].standing}

\* _count_user_entries against max_entries_per_user; a full user is refused at once.
Count(r, u) ==
    /\ pc[r] = "idle"
    /\ Cardinality(StandingOf(u)) < MaxEntries
    /\ user' = [user EXCEPT ![r] = u]
    /\ pc' = [pc EXCEPT ![r] = "counted"]
    /\ UNCHANGED <<entries, lock, number, reference>>

\* _next_entry_number: one more than the highest, withdrawn entries included.
Numbers(u) == {entries[i].number : i \in Own(u)} \cup {0}

NextNumber(u) == Max(Numbers(u)) + 1

Number(r) ==
    /\ pc[r] = "counted"
    /\ number' = [number EXCEPT ![r] = NextNumber(user[r])]
    /\ pc' = [pc EXCEPT ![r] = "numbered"]
    /\ UNCHANGED <<entries, lock, user, reference>>

\* _next_reference_number: the lock, and then the count under it.
Acquire(r, h) ==
    /\ pc[r] = "numbered"
    /\ lock' = h
    /\ pc' = [pc EXCEPT ![r] = "locked"]
    /\ UNCHANGED <<entries, user, number, reference>>

LockCompetition(r) == lock = Free /\ Acquire(r, r)

Reference(r) ==
    /\ pc[r] = "locked"
    /\ reference' = [reference EXCEPT ![r] = Len(entries) + 1]
    /\ pc' = [pc EXCEPT ![r] = "referenced"]
    /\ UNCHANGED <<entries, lock, user, number>>

\* uq_entry_competition_user_number and uq_entry_competition_reference.
MutantPartialIndex(r) ==
    \E i \in DOMAIN entries : /\ entries[i].user = user[r] /\ entries[i].number = number[r]
                              /\ entries[i].standing

NumberTaken(r) ==
    \E i \in DOMAIN entries : entries[i].user = user[r] /\ entries[i].number = number[r]
ReferenceTaken(r) == \E i \in DOMAIN entries : entries[i].reference = reference[r]

\* The transaction ends, and with it the row lock.
End(r, h) ==
    /\ lock' = h
    /\ pc' = [pc EXCEPT ![r] = "idle"]
    /\ user' = [user EXCEPT ![r] = NoPlayer]
    /\ number' = [number EXCEPT ![r] = 0]
    /\ reference' = [reference EXCEPT ![r] = 0]

CommitEntry(r) ==
    /\ pc[r] = "referenced"
    /\ ~NumberTaken(r)
    /\ ~ReferenceTaken(r)
    /\ Len(entries) < MaxRows
    /\ entries' = Append(entries, [user |-> user[r], number |-> number[r],
                                   reference |-> reference[r], standing |-> TRUE])
    /\ End(r, Free)

\* A constraint rejects the insert, or anything else raises: rollback.
MutantLeakyRollback(r) ==
    /\ pc[r] # "idle"
    /\ End(r, lock)
    /\ UNCHANGED entries

Rollback(r) ==
    /\ pc[r] # "idle"
    /\ End(r, IF lock = r THEN Free ELSE lock)
    /\ UNCHANGED entries

\* withdraw_entry and the reinstatements, at any time.
WithdrawOrReinstate(i) ==
    /\ i \in DOMAIN entries
    /\ entries' = [entries EXCEPT ![i].standing = ~@]
    /\ UNCHANGED <<lock, pc, user, number, reference>>

CreationNext ==
    \/ \E r \in Requests, u \in Players : Count(r, u)
    \/ \E r \in Requests : Number(r)
    \/ \E r \in Requests : LockCompetition(r)
    \/ \E r \in Requests : Reference(r)
    \/ \E r \in Requests : CommitEntry(r)
    \/ \E r \in Requests : Rollback(r)
    \/ \E i \in 1..MaxRows : WithdrawOrReinstate(i)

CreationSpec == CreationInit /\ [][CreationNext]_creationVars

\* The database grants the row lock first come, first served (SF), and a transaction takes
\* its next step or is rolled back (WF).
FairCreation ==
    /\ CreationSpec
    /\ \A r \in Requests :
          /\ SF_creationVars(LockCompetition(r))
          /\ WF_creationVars(\/ Number(r) \/ Reference(r) \/ CommitEntry(r)
                             \/ pc[r] # "numbered" /\ Rollback(r))

-----------------------------------------------------------------------------
(***************************************************************************)
(* Properties.                                                             *)
(***************************************************************************)

\* Whoever counts for a reference holds the competition row, and its count is still right:
\* the i-th entry of the competition is the i-th reference.
LockHeld == \A r \in Requests : pc[r] \in {"locked", "referenced"} => lock = r

ReferenceCurrent ==
    \A r \in Requests : pc[r] = "referenced" => reference[r] = Len(entries) + 1

ReferencesInOrder == \A i \in DOMAIN entries : entries[i].reference = i

\* A user's entries are numbered 1, 2, 3 ... in the order they were committed, although
\* the number is read before the lock: a stale number is always one already taken.
HasNumber(rows, i, u, n) == \E j \in 1..i : rows[j].user = u /\ rows[j].number = n

NumbersInOrder ==
    \A i \in DOMAIN entries :
        /\ entries[i].number >= 1
        /\ \A j \in 1..(i - 1) :
              entries[j].user = entries[i].user => entries[j].number < entries[i].number
        /\ \A n \in 1..entries[i].number : HasNumber(entries, i, entries[i].user, n)

\* A number read at any time leaves no gap below it.
NoGapBelow ==
    \A r \in Requests : pc[r] \in {"numbered", "locked", "referenced"} =>
        /\ number[r] >= 1
        /\ \A n \in 1..(number[r] - 1) : HasNumber(entries, Len(entries), user[r], n)

\* Every request in flight has a sender.
Sent == \A r \in Requests : pc[r] # "idle" => user[r] \in Players

\* The maximum _next_entry_number asks for exists.
NumbersHaveTop == \A u \in Players : \E n \in Numbers(u) : \A m \in Numbers(u) : n >= m

LockInv ==
    /\ CreationTypeOK
    /\ LockHeld
    /\ ReferenceCurrent
    /\ ReferencesInOrder
    /\ Sent
    /\ NumbersHaveTop

NumberingInv == LockInv /\ NumbersInOrder /\ NoGapBelow

\* The row lock does its work: no request ever finds its reference taken at the insert,
\* however the counts and commits of others interleave.
ReferenceNeverClashes ==
    \A r \in Requests : pc[r] = "referenced" => ~ReferenceTaken(r)

\* No request waits for the competition row for ever.
EveryRequestEnds == \A r \in Requests : pc[r] # "idle" ~> pc[r] = "idle"
=============================================================================
