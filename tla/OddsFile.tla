------------------------------ MODULE OddsFile ------------------------------
(***************************************************************************)
(* The shared file of bookmakers' odds (services/odds_cache.py): one       *)
(* process refreshes it under an asyncio.Lock when it is over four hours   *)
(* old, merges what the Odds API lists into what it knew, and replaces it  *)
(* by a write to a temporary file and a rename.                            *)
(*                                                                         *)
(* A price is the number of the market's round it was quoted in, 0 for     *)
(* none: a fixture the file does not hold, or holds without a bookmaker.   *)
(* Callers waiting for the lock read the file again, so one call is        *)
(* followed at a time.                                                     *)
(***************************************************************************)
EXTENDS Integers

CONSTANTS
    Priced,    \* the fixtures bookmakers price
    MaxRound   \* bound: the market's rounds

VARIABLES
    round,     \* the market's round
    file,      \* odds_cache.json: the price of each fixture
    state,     \* the file's: "absent", "fresh" or "stale"
    temporary, \* odds_cache.json.tmp
    call,      \* get_or_refresh_odds: whether it read the file, what it knows, was told, has merged
    served     \* the last answer, and whether it was an error

oddsVars == <<round, file, state, temporary, call, served>>

-----------------------------------------------------------------------------
Unpriced == [i \in Priced |-> 0]
NoCall ==
    [pc |-> "idle", read |-> "file", current |-> Unpriced,
     listed |-> {}, quoted |-> {}, merged |-> Unpriced]
Answer(q) == [quotes |-> q, error |-> FALSE]
Fault == [quotes |-> Unpriced, error |-> TRUE]

OddsInit ==
    /\ round = 1
    /\ file = Unpriced /\ state = "absent" /\ temporary = Unpriced
    /\ call = NoCall
    /\ served = Answer(Unpriced)

\* _read_cache and _is_stale: a file there may still be unreadable or no JSON (an
\* OSError, a JSONDecodeError), and then reads like a missing one.
AskOdds ==
    /\ call.pc = "idle"
    /\ \/ /\ state = "fresh"
          /\ served' = Answer(file) /\ UNCHANGED call
       \/ /\ state = "stale"
          /\ call' = [NoCall EXCEPT !.pc = "fetch", !.current = file] /\ UNCHANGED served
       \/ call' = [NoCall EXCEPT !.pc = "fetch", !.read = "nothing"] /\ UNCHANGED served
    /\ UNCHANGED <<round, file, state, temporary>>

\* No API key, an HTTP error, a body that is no list: what was read, or an error.
FetchFails ==
    /\ call.pc = "fetch"
    /\ served' = IF call.read = "nothing" THEN Fault ELSE Answer(call.current)
    /\ call' = NoCall
    /\ UNCHANGED <<round, file, state, temporary>>

\* _merge_matches: a fixture listed takes the record listed, which quotes a price or has
\* no bookmakers; the others keep theirs.
MutantReplaces(current, listed, quoted) ==
    [i \in Priced |-> IF i \in quoted THEN round ELSE 0]

Merged(current, listed, quoted) ==
    [i \in Priced |-> IF i \in quoted THEN round ELSE IF i \in listed THEN 0 ELSE current[i]]

Fetch ==
    /\ call.pc = "fetch"
    /\ \E listed \in SUBSET Priced : \E quoted \in SUBSET listed :
          call' = [call EXCEPT !.pc = "write", !.listed = listed, !.quoted = quoted,
                               !.merged = Merged(call.current, listed, quoted)]
    /\ UNCHANGED <<round, file, state, temporary, served>>

\* _write_atomic, its two calls; a write that fails is served all the same.
WriteTemporary ==
    /\ call.pc = "write"
    /\ temporary' = call.merged
    /\ call' = [call EXCEPT !.pc = "rename"]
    /\ UNCHANGED <<round, file, state, served>>

Rename ==
    /\ call.pc = "rename"
    /\ file' = temporary /\ state' = "fresh"
    /\ served' = Answer(call.merged)
    /\ call' = NoCall
    /\ UNCHANGED <<round, temporary>>

WriteFails ==
    /\ call.pc \in {"write", "rename"}
    /\ served' = Answer(call.merged)
    /\ call' = NoCall
    /\ UNCHANGED <<round, file, state, temporary>>

MarketMoves ==
    /\ round < MaxRound /\ round' = round + 1
    /\ UNCHANGED <<file, state, temporary, call, served>>

FourHours ==
    /\ state = "fresh" /\ state' = "stale"
    /\ UNCHANGED <<round, file, temporary, call, served>>

StopProcess ==
    /\ call.pc # "idle" /\ call' = NoCall
    /\ UNCHANGED <<round, file, state, temporary, served>>

OddsNext ==
    \/ AskOdds \/ FetchFails \/ Fetch \/ WriteTemporary \/ Rename \/ WriteFails
    \/ MarketMoves \/ FourHours \/ StopProcess

OddsSpec == OddsInit /\ [][OddsNext]_oddsVars

-----------------------------------------------------------------------------
(* What the call under way may take away: the price of a fixture the Odds  *)
(* API lists without a bookmaker; and, if the file was there and could not *)
(* be read, of one it does not list.                                       *)
Dropped(i) == i \notin call.quoted /\ (i \in call.listed \/ call.read = "nothing")

(* No failed fetch, short list, crash or half-written file takes a known   *)
(* price away or back to an older one, from the file or from an answer;    *)
(* and with a file there is no error.  "Never serve null / empty /         *)
(* corrupted" (odds_cache.py:23) has two exceptions: a file that is there  *)
(* and cannot be read (64-69: an error if the fetch fails as well, and if  *)
(* it does not, the fresh list alone replaces the file); and a fixture     *)
(* listed without bookmakers, which replaces the priced one (97-101).      *)
PricesStay ==
    [][/\ \A i \in Priced : Dropped(i) \/ file[i] <= file'[i]
       /\ served' # served /\ state # "absent" =>
             /\ served'.error => call.read = "nothing"
             /\ \A i \in Priced : Dropped(i) \/ file[i] <= served'.quotes[i]]_oddsVars

-----------------------------------------------------------------------------
(***************************************************************************)
(* The inductive invariant: what a call has read is still what the file    *)
(* holds, and what it has merged is no older but where it may be.          *)
(***************************************************************************)
Prices == [Priced -> Nat]

OddsTypeOK ==
    /\ round \in Nat \ {0}
    /\ file \in Prices /\ temporary \in Prices
    /\ call \in [pc : {"idle", "fetch", "write", "rename"}, read : {"file", "nothing"},
                 current : Prices, listed : SUBSET Priced, quoted : SUBSET Priced,
                 merged : Prices]

OddsIInv ==
    /\ OddsTypeOK
    /\ \A i \in Priced : file[i] <= round
    /\ call.read = "file" /\ call.pc # "idle" => call.current = file
    /\ call.read = "nothing" => call.current = Unpriced
    /\ call.pc \in {"idle", "fetch"} => call.listed = {} /\ call.quoted = {}
    /\ call.pc = "idle" => call.read = "file"
    /\ call.pc \in {"write", "rename"} =>
          \A i \in Priced : /\ call.merged[i] <= round
                            /\ Dropped(i) \/ file[i] <= call.merged[i]
    /\ call.pc = "rename" => temporary = call.merged
=============================================================================
