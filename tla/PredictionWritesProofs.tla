----------------------- MODULE PredictionWritesProofs -----------------------
(***************************************************************************)
(* Proofs about PredictionWrites, for any fixtures, brackets, questions    *)
(* and number of requests: what a request in flight found, and what the    *)
(* standing submission was checked against, stay what they were; so a      *)
(* write keeps what was seen, replaces what it found and stores what was   *)
(* sent, but for the races its statement names.  What stands is whole: the *)
(* counts of the submission's check are those of the report, and its chain *)
(* of winners reaches down to the first round.                             *)
(***************************************************************************)
EXTENDS PredictionWrites, FiniteSetTheorems, TLAPS

Request == ScoreSave \cup BracketSave \cup BonusSave \cup Move \cup {Idle}

\* The fields of a request, by what it does.
LEMMA RequestTypes ==
    ASSUME NEW r \in Request
    PROVE  /\ r.op \in {"score", "batch"} => r \in ScoreSave
           /\ r.op = "bracket" => r \in BracketSave
           /\ r.op = "bonus" => r \in BonusSave
           /\ r.op \in {"submit", "publish", "edit"} => r \in Move
           /\ r.op = "idle" => r = Idle
           /\ r = Idle => r.op = "idle"
BY DEF Request, ScoreSave, BracketSave, BonusSave, Move, Idle

LEMMA IdleIsRequest == Idle \in Request
BY DEF Request

\* Whatever judges a sheet reads the sheet alone.
LEMMA SameVerdict ==
    ASSUME UNCHANGED sheet
    PROVE  ValidatePhase1Complete' = ValidatePhase1Complete
BY DEF ValidatePhase1Complete, Picked, sheet

\* What the save of a score leaves is a row, since rows are never deleted.
LEMMA ScoreAfterIsRow ==
    ASSUME TypeOK, NEW r \in ScoreSave, r.had # NoPick => matches[r.fixture] # NoPick
    PROVE  ScoreAfter(r) \in MatchRow
<1> DEFINE new == [home |-> r.want.home, away |-> r.want.away, phase |-> r.phase]
<1>1. new \in MatchRow
  BY SheetAssumption DEF ScoreSave, MatchRow
<1>2. CASE r.had = NoPick
  BY <1>1, <1>2 DEF ScoreAfter
<1>3. CASE r.had # NoPick
  <2>1. matches[r.fixture] \in MatchRow /\ r.had \in MatchRow
    BY <1>3 DEF TypeOK, ScoreSave
  <2>2. DOMAIN new = {"home", "away", "phase"}
    OBVIOUS
  <2>3. Updated(matches[r.fixture], r.had, new) \in MatchRow
    BY <1>1, <2>1, <2>2 DEF Updated, MatchRow
  <2> QED
    BY <1>3, <2>1, <2>3 DEF ScoreAfter
<1> QED
  BY <1>2, <1>3

LEMMA RowIsPick == NoPick \notin MatchRow
BY SheetAssumption DEF NoPick, MatchRow

\* A draft, no request, and rows that are the first sheet of a behaviour.
LEMMA InitInv == Init => IInv
<1> SUFFICES ASSUME Init PROVE IInv
  OBVIOUS
<1>1. FullBracket \in Bracket
  BY SheetAssumption DEF FullBracket, Bracket
<1>2. NoBracket \in Bracket
  BY DEF NoBracket, Bracket
<1>3. bracket \in [{1, 2} -> Bracket]
  BY <1>1, <1>2 DEF Init
<1>4. [home |-> 0, away |-> 0, phase |-> 1] \in MatchRow
  BY SheetAssumption DEF MatchRow
<1>5. matches \in [Fixtures -> MatchRow \cup {NoPick}]
  BY <1>4 DEF Init
<1>6. bonus \subseteq Questions \cup Retired
  BY DEF Init
<1>7. TypeOK
  BY <1>3, <1>5, <1>6 DEF Init, TypeOK
<1>8. \A s \in Sessions : req[s].op = "idle"
  BY DEF Init, Idle
<1> QED
  BY <1>7, <1>8 DEF Init, IInv, InFlightBlind, RowsStay, RowsAccounted, CheckedStands,
     SubmittedStands

\* A request loads: it found what is there, and was refused what is already seen.
LEMMA LoadInv ==
    ASSUME IInv, NEW s \in Sessions, NEW r \in Request, Loads(s, r), r.op # "publish",
           r.op \in {"score", "batch", "bracket", "bonus"} /\ r.phase = 1 => r.blind,
           r.op \in {"score", "batch"} => r.had = matches[r.fixture],
           r.op = "bracket" => r.had = bracket[r.phase] /\ r.since = NoBracket
    PROVE  IInv'
<1>1. TypeOK'
  BY DEF IInv, TypeOK, Loads, Request, sheet, clocks
<1>2. /\ UNCHANGED <<status, matches, bracket, bonus, raced>>
      /\ \A q \in Sessions : req'[q] = IF q = s THEN r ELSE req[q]
  BY DEF IInv, TypeOK, Loads, sheet
<1>3. ValidatePhase1Complete' = ValidatePhase1Complete
  BY <1>2, SameVerdict DEF sheet
<1>4. InFlightBlind' /\ RowsStay'
  BY <1>2 DEF IInv, InFlightBlind, RowsStay
<1>5. CheckedStands' /\ SubmittedStands'
  BY <1>2, <1>3 DEF IInv, CheckedStands, SubmittedStands
<1>6. RowsAccounted'
  <2> SUFFICES ASSUME NEW q \in Sessions, req'[q].op = "bracket", NEW i \in 0..Rounds
               PROVE  /\ bracket[req'[q].phase][i] = req'[q].had[i] \cup req'[q].since[i]
                      /\ req'[q].had[i] \cap req'[q].since[i] = {}
    BY <1>2 DEF RowsAccounted
  <2>1. CASE q # s
    BY <1>2, <2>1 DEF IInv, RowsAccounted
  <2>2. CASE q = s
    BY <1>2, <2>2 DEF NoBracket
  <2> QED
    BY <2>1, <2>2
<1> QED
  BY <1>1, <1>4, <1>5, <1>6 DEF IInv

LEMMA LoadsInv ==
    ASSUME IInv,
           \/ \E s \in Sessions, op \in {"score", "batch"}, f \in Fixtures, want \in Scores :
                 LoadScore(s, op, f, want)
           \/ \E s \in Sessions, want \in Brackets : LoadBracket(s, want)
           \/ \E s \in Sessions, answers, clears \in SUBSET (Questions \cup Retired) :
                 answers \cap clears = {} /\ LoadBonus(s, answers, clears)
           \/ \E s \in Sessions : LoadSubmit(s) \/ LoadEdit(s)
    PROVE  IInv'
<1>0. TypeOK /\ CurrentPhase \in {1, 2}
  BY DEF IInv, CurrentPhase
<1>1. ASSUME NEW s \in Sessions, NEW op \in {"score", "batch"}, NEW f \in Fixtures,
             NEW want \in Scores, LoadScore(s, op, f, want)
      PROVE  IInv'
  <2> DEFINE r == [op |-> op, phase |-> CurrentPhase, want |-> want, fixture |-> f,
                   had |-> matches[f], blind |-> ~(past \/ f \in locked)]
  <2>1. r \in ScoreSave
    BY <1>0 DEF ScoreSave, TypeOK
  <2>2. Loads(s, r) /\ (r.phase = 1 => r.blind)
    BY <1>1 DEF LoadScore, Writeable, FixtureLocked
  <2>3. r.had = matches[r.fixture] /\ r.op \notin {"publish", "bracket"}
    OBVIOUS
  <2> HIDE DEF r
  <2> QED
    BY <2>1, <2>2, <2>3, LoadInv DEF Request
<1>2. ASSUME NEW s \in Sessions, NEW want \in Brackets, LoadBracket(s, want) PROVE IInv'
  <2> DEFINE r == [op |-> "bracket", phase |-> CurrentPhase, want |-> want,
                   had |-> bracket[CurrentPhase], since |-> NoBracket, blind |-> ~past]
  <2>1. r \in BracketSave
    BY <1>0 DEF BracketSave, TypeOK, NoBracket, Bracket
  <2>2. Loads(s, r) /\ (r.phase = 1 => r.blind)
    BY <1>2 DEF LoadBracket, Writeable
  <2>3. r.op = "bracket" /\ r.had = bracket[r.phase] /\ r.since = NoBracket
    OBVIOUS
  <2> HIDE DEF r
  <2> QED
    BY <2>1, <2>2, <2>3, LoadInv DEF Request
<1>3. ASSUME NEW s \in Sessions, NEW answers \in SUBSET (Questions \cup Retired),
             NEW clears \in SUBSET (Questions \cup Retired), LoadBonus(s, answers, clears)
      PROVE  IInv'
  <2> DEFINE r == [op |-> "bonus", phase |-> 1, adds |-> (answers \cap Questions) \ bonus,
                   drops |-> clears \cap Questions \cap bonus, blind |-> ~past]
  <2>1. r \in BonusSave
    BY <1>0 DEF BonusSave, TypeOK
  <2>2. Loads(s, r) /\ (r.phase = 1 => r.blind)
    BY <1>3 DEF LoadBonus, Writeable
  <2>3. r.op = "bonus"
    OBVIOUS
  <2> HIDE DEF r
  <2> QED
    BY <2>1, <2>2, <2>3, LoadInv DEF Request
<1>4. ASSUME NEW s \in Sessions, LoadSubmit(s) \/ LoadEdit(s) PROVE IInv'
  <2>1. PICK op \in {"submit", "edit"} : Loads(s, [op |-> op, overtaken |-> FALSE])
    BY <1>4 DEF LoadSubmit, LoadEdit
  <2> DEFINE r == [op |-> op, overtaken |-> FALSE]
  <2>2. r \in Move /\ r.op \in {"submit", "edit"}
    BY DEF Move
  <2>3. Loads(s, r)
    BY <2>1
  <2> HIDE DEF r
  <2> QED
    BY <2>2, <2>3, LoadInv DEF Request
<1> QED
  BY <1>1, <1>2, <1>3, <1>4

\* The sheet after a save.
LEMMA SavesFacts ==
    ASSUME TypeOK, RowsStay, NEW s \in Sessions, Saves(req[s])
    PROVE  /\ req[s].op \in {"score", "batch", "bracket", "bonus"}
           /\ matches' \in [Fixtures -> MatchRow \cup {NoPick}]
           /\ \A f \in Fixtures : matches[f] # NoPick => matches'[f] # NoPick
           /\ bracket' \in [{1, 2} -> Bracket]
           /\ bonus' \subseteq Questions \cup Retired
<1>1. req[s] \in Request
  BY DEF TypeOK, Request
<1>2. CASE /\ req[s].op \in {"score", "batch"}
           /\ matches' = [matches EXCEPT ![req[s].fixture] = ScoreAfter(req[s])]
           /\ UNCHANGED <<bracket, bonus>>
  <2>1. req[s] \in ScoreSave
    BY <1>1, <1>2, RequestTypes
  <2>2. ScoreAfter(req[s]) \in MatchRow
    BY <1>2, <2>1, ScoreAfterIsRow DEF RowsStay
  <2>3. req[s].fixture \in Fixtures /\ req[s].op \in {"score", "batch"}
    BY <2>1 DEF ScoreSave
  <2>4. matches' \in [Fixtures -> MatchRow \cup {NoPick}]
    BY <1>2, <2>2 DEF TypeOK
  <2>5. \A f \in Fixtures :
            matches'[f] = IF f = req[s].fixture THEN ScoreAfter(req[s]) ELSE matches[f]
    BY <1>2 DEF TypeOK
  <2>6. \A f \in Fixtures : matches[f] # NoPick => matches'[f] # NoPick
    BY <2>2, <2>5, RowIsPick
  <2>7. bracket' \in [{1, 2} -> Bracket] /\ bonus' \subseteq Questions \cup Retired
    BY <1>2 DEF TypeOK
  <2> QED
    BY <2>3, <2>4, <2>6, <2>7
<1>3. CASE /\ req[s].op = "bracket"
           /\ bracket' = [bracket EXCEPT ![req[s].phase] = Both(BracketLeft(req[s]), req[s].want)]
           /\ UNCHANGED <<matches, bonus>>
  <2>1. req[s] \in BracketSave
    BY <1>1, <1>3, RequestTypes
  <2>2. req[s].phase \in {1, 2} /\ req[s].want \in [0..Rounds -> SUBSET Teams]
    BY <2>1, SheetAssumption DEF BracketSave
  <2>3. BracketLeft(req[s]) \in Bracket
    BY <2>2 DEF BracketLeft, Beyond, Bracket, TypeOK
  <2>4. Both(BracketLeft(req[s]), req[s].want) \in Bracket
    BY <2>2, <2>3 DEF Both, Bracket
  <2> QED
    BY <1>3, <2>2, <2>4 DEF TypeOK
<1>4. CASE /\ req[s].op = "bonus" /\ bonus' = BonusAfter(req[s]) /\ UNCHANGED <<matches, bracket>>
  <2>1. req[s].adds \subseteq Questions
    BY <1>1, <1>4, RequestTypes DEF BonusSave
  <2> QED
    BY <1>4, <2>1 DEF BonusAfter, TypeOK
<1> QED
  BY <1>2, <1>3, <1>4 DEF Saves

\* What a save's commit leaves of another request: what it is, and whom it is hidden from.
LEMMA MeanwhileType ==
    ASSUME NEW q \in Request, NEW r \in Request, NEW m, m = Meanwhile(q, r)
    PROVE  /\ m \in Request
           /\ m.op = q.op
           /\ m = Idle => q = Idle
<1>1. CASE q.op = "publish"
  <2>1. m = Overtaken
    BY <1>1 DEF Meanwhile
  <2>2. Overtaken \in Move /\ Overtaken.op = "publish" /\ Overtaken # Idle
    BY DEF Overtaken, Move, Idle
  <2> QED
    BY <1>1, <2>1, <2>2 DEF Request
<1>2. CASE q.op = "bracket" /\ r.op = "bracket" /\ q.phase = r.phase
  <2>1. q \in BracketSave /\ r \in BracketSave
    BY <1>2, RequestTypes
  <2>2. r.want \in Bracket
    BY <2>1, SheetAssumption DEF BracketSave, Bracket
  <2>3. /\ Beyond(q.had, r.had) \in Bracket
        /\ Both(Beyond(q.since, r.had), r.want) \in Bracket
    BY <2>1, <2>2 DEF BracketSave, Bracket, Beyond, Both
  <2>4. m = [q EXCEPT !.had = Beyond(q.had, r.had),
                      !.since = Both(Beyond(q.since, r.had), r.want)]
    BY <1>2 DEF Meanwhile
  <2>5. m \in BracketSave /\ m.op = q.op
    BY <2>1, <2>3, <2>4 DEF BracketSave
  <2> QED
    BY <1>2, <2>5 DEF Request, Idle
<1>3. CASE q.op = "bonus" /\ r.op = "bonus"
  <2>1. q \in BonusSave /\ r \in BonusSave
    BY <1>3, RequestTypes
  <2>2. m = [q EXCEPT !.drops = q.drops \ r.drops]
    BY <1>3 DEF Meanwhile
  <2>3. m \in BonusSave /\ m.op = q.op
    BY <2>1, <2>2 DEF BonusSave
  <2> QED
    BY <1>3, <2>3 DEF Request, Idle
<1>4. CASE /\ q.op # "publish" /\ ~(q.op = "bonus" /\ r.op = "bonus")
           /\ ~(q.op = "bracket" /\ r.op = "bracket" /\ q.phase = r.phase)
  BY <1>4 DEF Meanwhile
<1> QED
  BY <1>1, <1>2, <1>3, <1>4

\* A request keeps its phase and its blindness, and a checked submission is overtaken.
Kept(q, m) == m.phase = q.phase /\ (q.blind => m.blind)

LEMMA MeanwhileKeeps ==
    ASSUME NEW q \in Request, NEW r \in Request, NEW m, m = Meanwhile(q, r)
    PROVE  /\ q.op = "publish" => m = Overtaken
           /\ q.op \notin {"publish", "bracket", "bonus"} => m = q
           /\ q.op \in {"bracket", "bonus"} => Kept(q, m)
<1>1. CASE q.op = "bracket" /\ r.op = "bracket" /\ q.phase = r.phase
  <2>1. q \in BracketSave
    BY <1>1, RequestTypes
  <2>2. m = [q EXCEPT !.had = Beyond(q.had, r.had),
                      !.since = Both(Beyond(q.since, r.had), r.want)]
    BY <1>1 DEF Meanwhile
  <2>3. m.phase = q.phase /\ m.blind = q.blind
    BY <2>1, <2>2 DEF BracketSave
  <2> QED
    BY <1>1, <2>3 DEF Kept
<1>2. CASE q.op = "bonus" /\ r.op = "bonus"
  <2>1. q \in BonusSave
    BY <1>2, RequestTypes
  <2>2. m = [q EXCEPT !.drops = q.drops \ r.drops]
    BY <1>2 DEF Meanwhile
  <2>3. m.phase = q.phase /\ m.blind = q.blind
    BY <2>1, <2>2 DEF BonusSave
  <2> QED
    BY <1>2, <2>3 DEF Kept
<1>3. CASE /\ q.op # "publish" /\ ~(q.op = "bonus" /\ r.op = "bonus")
           /\ ~(q.op = "bracket" /\ r.op = "bracket" /\ q.phase = r.phase)
  <2>1. m = q
    BY <1>3 DEF Meanwhile
  <2> QED
    BY <1>3, <2>1 DEF Kept
<1>4. CASE q.op = "publish"
  BY <1>4 DEF Meanwhile
<1> QED
  BY <1>1, <1>2, <1>3, <1>4

LEMMA MeanwhileBracket ==
    ASSUME NEW q \in Request, NEW r \in Request, NEW m, m = Meanwhile(q, r), q.op = "bracket"
    PROVE  /\ r.op = "bracket" /\ q.phase = r.phase =>
                 /\ m.phase = q.phase
                 /\ m.had = Beyond(q.had, r.had)
                 /\ m.since = Both(Beyond(q.since, r.had), r.want)
           /\ ~(r.op = "bracket" /\ q.phase = r.phase) => m = q
<1>1. CASE r.op = "bracket" /\ q.phase = r.phase
  <2>1. q \in BracketSave
    BY <1>1, RequestTypes
  <2>2. m = [q EXCEPT !.had = Beyond(q.had, r.had),
                      !.since = Both(Beyond(q.since, r.had), r.want)]
    BY <1>1 DEF Meanwhile
  <2> QED
    BY <1>1, <2>1, <2>2 DEF BracketSave
<1>2. CASE ~(r.op = "bracket" /\ q.phase = r.phase)
  BY <1>2 DEF Meanwhile
<1> QED
  BY <1>1, <1>2

\* A save deletes what it found and leaves what others wrote since.
LEMMA SavedBracket ==
    ASSUME IInv, NEW s \in Sessions, req[s].op = "bracket", Saves(req[s])
    PROVE  /\ req[s] \in BracketSave
           /\ BracketLeft(req[s]) = req[s].since
           /\ \A i \in 0..Rounds : req[s].since[i] \cap req[s].want[i] = {}
           /\ bracket' = [bracket EXCEPT ![req[s].phase] = Both(req[s].since, req[s].want)]
<1>1. req[s] \in BracketSave
  BY RequestTypes DEF IInv, TypeOK, Request
<1>2. BracketLeft(req[s]) = req[s].since
  BY <1>1 DEF IInv, RowsAccounted, BracketLeft, Beyond, BracketSave, Bracket
<1> QED
  BY <1>1, <1>2 DEF Saves, BracketClash

\* A save reaches the standing submission only by overtaking it.
LEMMA SaveInv == ASSUME IInv, NEW s \in Sessions, CommitSave(s) PROVE IInv'
<1>0. TypeOK /\ req \in [Sessions -> Request]
  BY DEF IInv, TypeOK, Request
<1>1. Saves(req[s]) /\ UNCHANGED <<part, status, past, phase2, locked, finished>>
      /\ raced' = (raced \/ status = "submitted")
  BY DEF CommitSave, clocks
<1>2. /\ matches' \in [Fixtures -> MatchRow \cup {NoPick}]
      /\ \A f \in Fixtures : matches[f] # NoPick => matches'[f] # NoPick
      /\ bracket' \in [{1, 2} -> Bracket] /\ bonus' \subseteq Questions \cup Retired
  BY <1>0, <1>1, SavesFacts DEF IInv
<1>3. \A q \in Sessions : req'[q] = IF q = s THEN Idle ELSE Meanwhile(req[q], req[s])
  BY DEF CommitSave
<1>4. \A q \in Sessions : req[q] \in Request
  BY <1>0
<1>5. req' \in [Sessions -> Request]
  <2>1. \A q \in Sessions : req'[q] \in Request
    BY <1>3, <1>4, MeanwhileType, IdleIsRequest
  <2> QED
    BY <2>1 DEF CommitSave
<1>6. TypeOK'
  BY <1>0, <1>1, <1>2, <1>5 DEF TypeOK, Request
<1>7. ASSUME NEW q \in Sessions
      PROVE  \/ req'[q].op = "idle"
             \/ req'[q] = req[q] /\ req[q].op \in {"score", "batch", "submit", "edit"}
             \/ /\ req'[q].op = req[q].op /\ req[q].op \in {"bracket", "bonus"}
                /\ Kept(req[q], req'[q])
             \/ req'[q] = Overtaken
  <2>1. CASE q = s
    BY <1>3, <2>1 DEF Idle
  <2>2. CASE q # s
    <3>1. req'[q] = Meanwhile(req[q], req[s]) /\ req[q] \in Request /\ req[s] \in Request
      BY <1>3, <1>4, <2>2
    <3>2. req[q].op \in {"score", "batch", "bracket", "bonus", "submit", "publish", "edit", "idle"}
      BY <3>1 DEF Request, ScoreSave, BracketSave, BonusSave, Move, Idle
    <3>3. req'[q].op = req[q].op
      BY <3>1, MeanwhileType
    <3>4. /\ req[q].op = "publish" => req'[q] = Overtaken
          /\ req[q].op \notin {"publish", "bracket", "bonus"} => req'[q] = req[q]
          /\ req[q].op \in {"bracket", "bonus"} => Kept(req[q], req'[q])
      BY <3>1, MeanwhileKeeps
    <3> QED
      BY <3>2, <3>3, <3>4
  <2> QED
    BY <2>1, <2>2
<1>8. InFlightBlind' /\ CheckedStands'
  <2>1. Overtaken.op = "publish" /\ Overtaken.overtaken
    BY DEF Overtaken
  <2> QED
    BY <1>7, <2>1 DEF IInv, InFlightBlind, CheckedStands, Kept
<1>9. RowsStay'
  <2> SUFFICES ASSUME NEW q \in Sessions, req'[q].op \in {"score", "batch"}, req'[q].had # NoPick
               PROVE  matches'[req'[q].fixture] # NoPick
    BY DEF RowsStay
  <2>1. req'[q] = req[q] /\ req[q] \in ScoreSave
    <3>1. Overtaken.op = "publish"
      BY DEF Overtaken
    <3>2. req'[q] = req[q] /\ req[q].op \in {"score", "batch"}
      BY <1>7, <3>1
    <3> QED
      BY <1>4, <3>2, RequestTypes
  <2> QED
    BY <1>2, <2>1 DEF IInv, RowsStay, ScoreSave
<1>10. SubmittedStands'
  BY <1>1 DEF SubmittedStands
<1>11. RowsAccounted'
  <2> SUFFICES ASSUME NEW q \in Sessions, req'[q].op = "bracket", NEW i \in 0..Rounds
               PROVE  /\ bracket'[req'[q].phase][i] = req'[q].had[i] \cup req'[q].since[i]
                      /\ req'[q].had[i] \cap req'[q].since[i] = {}
    BY DEF RowsAccounted
  <2>1. /\ req[q].op = "bracket" /\ req'[q] = Meanwhile(req[q], req[s]) /\ q # s
        /\ req[q] \in Request /\ req[s] \in Request
    <3>1. q # s
      BY <1>3 DEF Idle
    <3>2. req'[q] = Meanwhile(req[q], req[s]) /\ req[q] \in Request /\ req[s] \in Request
      BY <1>3, <1>4, <3>1
    <3> QED
      BY <3>1, <3>2, MeanwhileType
  <2>2. /\ bracket[req[q].phase][i] = req[q].had[i] \cup req[q].since[i]
        /\ req[q].had[i] \cap req[q].since[i] = {}
    BY <2>1 DEF IInv, RowsAccounted
  <2>3. req[q].phase \in {1, 2}
    BY <2>1, RequestTypes DEF BracketSave
  <2>4. CASE req[s].op # "bracket"
    BY <1>1, <2>1, <2>2, <2>4, MeanwhileBracket DEF Saves
  <2>5. CASE req[s].op = "bracket" /\ req[s].phase # req[q].phase
    <3>1. bracket'[req[q].phase] = bracket[req[q].phase]
      BY <1>0, <1>1, <2>3, <2>5, SavedBracket DEF TypeOK
    <3> QED
      BY <2>1, <2>2, <2>5, <3>1, MeanwhileBracket
  <2>6. CASE req[s].op = "bracket" /\ req[s].phase = req[q].phase
    <3>1. bracket'[req[q].phase][i] = req[s].since[i] \cup req[s].want[i]
      <4>1. bracket' = [bracket EXCEPT ![req[s].phase] = Both(req[s].since, req[s].want)]
        BY <1>1, <2>6, SavedBracket
      <4>2. bracket'[req[q].phase] = Both(req[s].since, req[s].want)
        BY <1>0, <2>3, <2>6, <4>1 DEF TypeOK
      <4> QED
        BY <4>2 DEF Both
    <3>2. req[s].since[i] \cap req[s].want[i] = {}
      BY <1>1, <2>6, SavedBracket
    <3>3. /\ req'[q].phase = req[q].phase
          /\ req'[q].had = Beyond(req[q].had, req[s].had)
          /\ req'[q].since = Both(Beyond(req[q].since, req[s].had), req[s].want)
      BY <2>1, <2>6, MeanwhileBracket
    <3>4. /\ req'[q].had[i] = req[q].had[i] \ req[s].had[i]
          /\ req'[q].since[i] = (req[q].since[i] \ req[s].had[i]) \cup req[s].want[i]
      BY <3>3 DEF Beyond, Both
    <3>5. /\ bracket[req[q].phase][i] = req[s].had[i] \cup req[s].since[i]
          /\ req[s].had[i] \cap req[s].since[i] = {}
      BY <2>6 DEF IInv, RowsAccounted
    <3>6. bracket'[req'[q].phase][i] = req[s].since[i] \cup req[s].want[i]
      BY <3>1, <3>3
    <3> QED
      BY ONLY <2>2, <3>2, <3>4, <3>5, <3>6
  <2> QED
    BY <2>4, <2>5, <2>6
<1> QED
  BY <1>6, <1>8, <1>9, <1>10, <1>11 DEF IInv

\* The owner's other commits, and a request that fails.
LEMMA MoveInv ==
    ASSUME IInv, NEW s \in Sessions, CheckSubmit(s) \/ CommitSubmit(s) \/ CommitEdit(s) \/ Fail(s)
    PROVE  IInv'
<1>0. TypeOK /\ req \in [Sessions -> Request]
  BY DEF IInv, TypeOK, Request
<1>1. UNCHANGED <<part, matches, bracket, bonus, past, phase2, locked, finished>>
  BY DEF CheckSubmit, CommitSubmit, CommitEdit, Fail, sheet, clocks
<1>2. ValidatePhase1Complete' = ValidatePhase1Complete
  BY <1>1, SameVerdict DEF sheet
<1>3. ASSUME NEW q \in Sessions, q # s PROVE req'[q] = req[q]
  BY <1>0, <1>3 DEF CheckSubmit, CommitSubmit, CommitEdit, Fail
<1>4. CASE CheckSubmit(s) /\ ValidatePhase1Complete
  <2>1. req[s] \in Move
    BY <1>0, <1>4, RequestTypes DEF CheckSubmit
  <2>2. req'[s] = [req[s] EXCEPT !.op = "publish"]
    BY <1>0, <1>4 DEF CheckSubmit
  <2>3. req'[s] \in Move /\ req'[s].op = "publish"
    BY <2>1, <2>2 DEF Move
  <2>4. req' \in [Sessions -> Request]
    BY <1>0, <1>3, <1>4, <2>3 DEF CheckSubmit, Request
  <2>5. UNCHANGED <<status, raced>>
    BY <1>4 DEF CheckSubmit
  <2>6. TypeOK'
    BY <1>0, <1>1, <2>4, <2>5 DEF TypeOK, Request
  <2>7. InFlightBlind' /\ RowsStay' /\ RowsAccounted' /\ CheckedStands' /\ SubmittedStands'
    BY <1>1, <1>2, <1>3, <1>4, <2>3, <2>5 DEF IInv, InFlightBlind, RowsStay, RowsAccounted,
       CheckedStands, SubmittedStands
  <2> QED
    BY <2>6, <2>7 DEF IInv
<1>5. CASE req'[s] = Idle /\ (CheckSubmit(s) \/ CommitSubmit(s) \/ CommitEdit(s) \/ Fail(s))
  <2>1. req' \in [Sessions -> Request] /\ req'[s].op = "idle"
    BY <1>0, <1>5 DEF CheckSubmit, CommitSubmit, CommitEdit, Fail, Request, Idle
  <2>2. status' \in {"draft", "submitted"} /\ raced' \in BOOLEAN
    <3>1. CASE CommitSubmit(s)
      <4>1. req[s] \in Move
        BY <1>0, <3>1, RequestTypes DEF CommitSubmit
      <4> QED
        BY <3>1, <4>1 DEF CommitSubmit, Move
    <3> QED
      BY <1>0, <1>5, <3>1 DEF CheckSubmit, CommitEdit, Fail, TypeOK
  <2>3. TypeOK'
    BY <1>0, <1>1, <2>1, <2>2 DEF TypeOK, Request
  <2>4. InFlightBlind' /\ RowsStay' /\ RowsAccounted' /\ CheckedStands'
    BY <1>1, <1>2, <1>3, <2>1 DEF IInv, InFlightBlind, RowsStay, RowsAccounted, CheckedStands
  <2>5. SubmittedStands'
    BY <1>2, <1>5 DEF IInv, CheckedStands, SubmittedStands, CheckSubmit, CommitSubmit, CommitEdit,
       Fail
  <2> QED
    BY <2>3, <2>4, <2>5 DEF IInv
<1>6. req'[s] = Idle \/ (CheckSubmit(s) /\ ValidatePhase1Complete)
  BY <1>0 DEF CheckSubmit, CommitSubmit, CommitEdit, Fail
<1> QED
  BY <1>4, <1>5, <1>6

\* The clock and the administrator leave the sheet and the requests alone.
LEMMA ClockInv ==
    ASSUME IInv,
           \/ MoveDeadline \/ SwitchPhase2
           \/ \E f \in Fixtures : MoveKickoff(f) \/ Finish(f)
           \/ UNCHANGED vars
    PROVE  IInv'
<1>1. UNCHANGED <<part, status, matches, bracket, bonus, raced, req>>
  BY DEF MoveDeadline, SwitchPhase2, MoveKickoff, Finish, vars, sheet
<1>2. /\ past' \in BOOLEAN /\ phase2' \in BOOLEAN
      /\ locked' \subseteq Fixtures /\ finished' \subseteq Fixtures
  BY DEF IInv, TypeOK, MoveDeadline, SwitchPhase2, MoveKickoff, Finish, vars
<1>3. ValidatePhase1Complete' = ValidatePhase1Complete
  BY <1>1, SameVerdict DEF sheet
<1> QED
  BY <1>1, <1>2, <1>3 DEF IInv, TypeOK, InFlightBlind, RowsStay, RowsAccounted, CheckedStands,
     SubmittedStands

LEMMA NextInv == IInv /\ [Next]_vars => IInv'
<1> SUFFICES ASSUME IInv, [Next]_vars PROVE IInv'
  OBVIOUS
<1>1. CASE \E s \in Sessions :
            CommitSave(s) \/ CheckSubmit(s) \/ CommitSubmit(s) \/ CommitEdit(s) \/ Fail(s)
  BY <1>1, SaveInv, MoveInv
<1>2. CASE \/ MoveDeadline \/ SwitchPhase2
           \/ \E f \in Fixtures : MoveKickoff(f) \/ Finish(f)
           \/ UNCHANGED vars
  BY <1>2, ClockInv
<1>3. CASE \/ \E s \in Sessions, op \in {"score", "batch"}, f \in Fixtures, want \in Scores :
                 LoadScore(s, op, f, want)
           \/ \E s \in Sessions, want \in Brackets : LoadBracket(s, want)
           \/ \E s \in Sessions, answers, clears \in SUBSET (Questions \cup Retired) :
                 answers \cap clears = {} /\ LoadBonus(s, answers, clears)
           \/ \E s \in Sessions : LoadSubmit(s) \/ LoadEdit(s)
  BY <1>3, LoadsInv
<1> QED
  BY <1>1, <1>2, <1>3 DEF Next

\* A standing submission that no save overtook still passes the check it passed
\* (entries.py 1133-1160); a save in flight loaded before the pool could see what it changes.
THEOREM SubmissionsStand == Spec => []IInv
BY InitInv, NextInv, PTL DEF Spec

\* The score a save stores is the one it sent, when it finds the row it read.
LEMMA ScoreAfterIsSent ==
    ASSUME TypeOK, NEW r \in ScoreSave, matches[r.fixture] = r.had,
           ScoreAfter(r) # matches[r.fixture]
    PROVE  ScoreAfter(r).home = r.want.home /\ ScoreAfter(r).away = r.want.away
<1> DEFINE new == [home |-> r.want.home, away |-> r.want.away, phase |-> r.phase]
<1>1. CASE r.had = NoPick
  BY <1>1 DEF ScoreAfter
<1>2. CASE r.had # NoPick
  <2>1. ScoreAfter(r) = Updated(r.had, r.had, new)
    BY <1>2 DEF ScoreAfter
  <2>2. DOMAIN new = {"home", "away", "phase"}
    OBVIOUS
  <2>3. Updated(r.had, r.had, new).home = new.home /\ Updated(r.had, r.had, new).away = new.away
    BY <2>2 DEF Updated
  <2> QED
    BY <2>1, <2>3
<1> QED
  BY <1>1, <1>2

\* A save keeps its word.
LEMMA SaveKeeps ==
    ASSUME IInv, NEW s \in Sessions, CommitSave(s)
    PROVE  SeenPickStands /\ StalePickGoes /\ ScoreIsSent
<1>0. TypeOK /\ req[s] \in Request
  BY DEF IInv, TypeOK, Request
<1>1. Saves(req[s]) /\ req'[s] = Idle
  BY DEF CommitSave
<1>2. ASSUME NEW q \in Sessions, q # s, req'[q] = Idle PROVE req[q].op # "bracket"
  <2>1. req'[q] = Meanwhile(req[q], req[s]) /\ req[q] \in Request
    BY <1>0, <1>2 DEF CommitSave, TypeOK, Request
  <2>2. req[q] = Idle
    BY <1>0, <1>2, <2>1, MeanwhileType
  <2> QED
    BY <2>2 DEF Idle
<1>3. CASE req[s].op \in {"score", "batch"} /\ bracket' = bracket
           /\ matches' = [matches EXCEPT ![req[s].fixture] = ScoreAfter(req[s])]
  <2>1. req[s] \in ScoreSave /\ req[s].phase \in {1, 2}
    BY <1>0, <1>3, RequestTypes DEF ScoreSave
  <2>2. \A f \in Fixtures : matches'[f] # matches[f] =>
            f = req[s].fixture /\ matches'[f] = ScoreAfter(req[s])
    BY <1>0, <1>3 DEF TypeOK
  <2>3. SeenPickStands
    BY <1>1, <1>3, <2>1, <2>2 DEF SeenPickStands, IInv, InFlightBlind
  <2>4. ScoreIsSent
    BY <1>0, <1>1, <1>3, <2>1, <2>2, ScoreAfterIsSent DEF ScoreIsSent
  <2> QED
    BY <1>3, <2>3, <2>4 DEF StalePickGoes
<1>4. CASE req[s].op = "bracket" /\ matches' = matches
           /\ bracket' = [bracket EXCEPT ![req[s].phase] = Both(BracketLeft(req[s]), req[s].want)]
  <2>1. req[s] \in BracketSave /\ req[s].phase \in {1, 2}
    BY <1>0, <1>4, RequestTypes DEF BracketSave
  <2>2. bracket'[req[s].phase] = Both(BracketLeft(req[s]), req[s].want)
    BY <1>0, <1>4, <2>1 DEF TypeOK
  <2>3. bracket'[req[s].phase] = Both(req[s].want, req[s].since)
    <3>1. BracketLeft(req[s]) = req[s].since
      BY <1>1, <1>4, SavedBracket
    <3> QED
      BY <2>2, <3>1 DEF Both
  <2>4. StalePickGoes
    BY <1>2, <2>3 DEF StalePickGoes
  <2> QED
    BY <1>4, <2>4 DEF SeenPickStands, ScoreIsSent
<1>5. CASE matches' = matches /\ bracket' = bracket
  BY <1>5 DEF SeenPickStands, StalePickGoes, ScoreIsSent
<1> QED
  BY <1>1, <1>3, <1>4, <1>5 DEF Saves

\* Nothing else writes a row.
LEMMA StepKeeps == IInv /\ [Next]_vars => [SeenPickStands /\ StalePickGoes /\ ScoreIsSent]_vars
<1> SUFFICES ASSUME IInv, [Next]_vars PROVE SeenPickStands /\ StalePickGoes /\ ScoreIsSent
  OBVIOUS
<1>1. CASE \E s \in Sessions : CommitSave(s)
  BY <1>1, SaveKeeps
<1>2. CASE matches' = matches /\ bracket' = bracket
  BY <1>2 DEF SeenPickStands, StalePickGoes, ScoreIsSent
<1>3. (\E s \in Sessions : CommitSave(s)) \/ (matches' = matches /\ bracket' = bracket)
  BY DEF Next, vars, sheet, Loads, LoadScore, LoadBracket, LoadBonus, LoadSubmit, LoadEdit,
     CheckSubmit, CommitSubmit, CommitEdit, Fail, MoveDeadline, MoveKickoff, Finish, SwitchPhase2
<1> QED
  BY <1>1, <1>2, <1>3

\* A pick the pool sees changes only by a request that loaded while it was hidden (or one of
\* Phase 2); a bracket save leaves what it sent and what others wrote since its DELETE, and
\* nothing else; a stored score is the one sent unless its row changed under the request
\* (predictions.py 153-470).
THEOREM WritesAreKept == Spec => WritesStand
BY SubmissionsStand, StepKeeps, PTL DEF Spec, WritesStand
-----------------------------------------------------------------------------
(***************************************************************************)
(* What the checks of a submission say of the whole sheet.                 *)
(***************************************************************************)

Less == OpToRel(<, Nat)

\* Numbers are well founded: what makes the climb through the rounds end.
LEMMA LeastOf ==
    ASSUME NEW S, S \subseteq Nat, S # {}
    PROVE  \E m \in S : \A n \in S : m <= n
<1>1. IsWellFoundedOn(Less, Nat)
  BY NatLessThanWellFounded DEF Less
<1>2. \A x, y \in Nat : <<x, y>> \in Less <=> x < y
  BY DEF Less, OpToRel
<1>3. PICK m \in S : \A n \in S : <<n, m>> \notin Less
  BY <1>1, WFMin
<1>4. ASSUME NEW n \in S PROVE m <= n
  <2>1. m \in Nat /\ n \in Nat
    OBVIOUS
  <2>2. ~(n < m)
    BY <1>2, <1>3, <2>1
  <2> QED
    BY <2>1, <2>2, SMT
<1> QED
  BY <1>4

\* A team of a later round is in every round before it but the first.
LEMMA ChainReachesDown ==
    ASSUME TypeOK, \A r \in 2..Rounds : bracket[1][r] \subseteq bracket[1][r - 1],
           NEW r \in 2..Rounds, NEW t \in bracket[1][r], NEW q \in 1..r
    PROVE  t \in bracket[1][q]
<1> DEFINE Gaps == {d \in 0..(r - 1) : t \notin bracket[1][r - d]}
<1>0. Rounds \in Nat /\ r \in Nat /\ q \in Nat
  BY SheetAssumption
<1>1. Gaps = {}
  <2> SUFFICES ASSUME Gaps # {} PROVE FALSE
    OBVIOUS
  <2>1. PICK d \in Gaps : \A e \in Gaps : d <= e
    <3>1. Gaps \subseteq Nat
      BY <1>0
    <3> QED
      BY <3>1, LeastOf
  <2>2. d \in 0..(r - 1) /\ t \notin bracket[1][r - d]
    OBVIOUS
  <2>3. d # 0
    BY <1>0, <2>2
  <2>4. d - 1 \in 0..(r - 1) /\ d - 1 \notin Gaps
    BY <1>0, <2>1, <2>2, <2>3
  <2>5. t \in bracket[1][r - (d - 1)]
    BY <2>4
  <2>6. r - (d - 1) \in 2..Rounds /\ (r - (d - 1)) - 1 = r - d
    BY <1>0, <2>2, <2>3
  <2> QED
    BY <2>2, <2>5, <2>6
<1>2. r - q \in 0..(r - 1) /\ r - (r - q) = q
  BY <1>0
<1> QED
  BY <1>1, <1>2

\* The rows of a round, and of the rounds up to one.
RowsOf(b, k) == {k} \X b[k]
RowsUpTo(b, k) == {row \in (0..k) \X Teams : row[2] \in b[row[1]]}

LEMMA RoundIsCounted ==
    ASSUME NEW b \in Bracket, NEW k \in 0..Rounds, Cardinality(b[k]) >= Places[k]
    PROVE  /\ IsFiniteSet(RowsOf(b, k))
           /\ Cardinality(RowsOf(b, k)) \in Nat /\ Cardinality(RowsOf(b, k)) >= Places[k]
<1>1. b[k] \in SUBSET Teams
  BY DEF Bracket
<1>2. IsFiniteSet(b[k])
  BY <1>1, FS_Subset, SheetAssumption
<1>3. IsFiniteSet({k}) /\ Cardinality({k}) = 1
  BY FS_Singleton
<1>4. IsFiniteSet(RowsOf(b, k)) /\ Cardinality(RowsOf(b, k)) = 1 * Cardinality(b[k])
  BY <1>2, <1>3, FS_Product DEF RowsOf
<1>5. Cardinality(b[k]) \in Nat
  BY <1>2, FS_CardinalityType
<1> QED
  BY <1>4, <1>5

\* Full rounds add up to the bracket the report expects.
LEMMA RoundsAddUp ==
    ASSUME NEW b \in Bracket, \A r \in 0..Rounds : Cardinality(b[r]) >= Places[r]
    PROVE  /\ Cardinality(Rows(b)) \in Nat
           /\ Cardinality(Rows(b)) >= Expected
<1> DEFINE Full(k) == /\ IsFiniteSet(RowsUpTo(b, k)) /\ Cardinality(RowsUpTo(b, k)) \in Nat
                      /\ Cardinality(RowsUpTo(b, k)) >= 2 * Places[0] - Places[k]
           Short == {k \in 0..Rounds : ~Full(k)}
<1>0. /\ Rounds \in Nat /\ Places \in [0..Rounds -> Nat]
      /\ \A r \in 1..Rounds : Places[r - 1] = 2 * Places[r]
  BY SheetAssumption
<1>1. Full(0)
  <2>1. RowsUpTo(b, 0) = RowsOf(b, 0)
    BY <1>0 DEF RowsUpTo, RowsOf, Bracket
  <2>2. 0 \in 0..Rounds /\ Places[0] \in Nat
    BY <1>0
  <2> QED
    BY <2>1, <2>2, RoundIsCounted
<1>2. ASSUME NEW k \in 1..Rounds, Full(k - 1) PROVE Full(k)
  <2>1. k \in 0..Rounds /\ k - 1 \in 0..Rounds /\ k \in Nat
    BY <1>0
  <2>2. RowsUpTo(b, k) = RowsUpTo(b, k - 1) \cup RowsOf(b, k)
    <3>1. 0..k = 0..(k - 1) \cup {k}
      BY <2>1
    <3>2. b[k] \subseteq Teams
      BY <2>1 DEF Bracket
    <3> QED
      BY <3>1, <3>2 DEF RowsUpTo, RowsOf
  <2>3. RowsUpTo(b, k - 1) \cap RowsOf(b, k) = {}
    BY <2>1 DEF RowsUpTo, RowsOf
  <2>4. /\ IsFiniteSet(RowsOf(b, k))
        /\ Cardinality(RowsOf(b, k)) \in Nat /\ Cardinality(RowsOf(b, k)) >= Places[k]
    BY <2>1, RoundIsCounted
  <2>5. /\ IsFiniteSet(RowsUpTo(b, k))
        /\ Cardinality(RowsUpTo(b, k)) =
              Cardinality(RowsUpTo(b, k - 1)) + Cardinality(RowsOf(b, k)) - 0
    BY <1>2, <2>2, <2>3, <2>4, FS_Union, FS_EmptySet
  <2>6. /\ Places[k] \in Nat /\ Places[k - 1] = 2 * Places[k] /\ Places[0] \in Nat
    BY <1>0, <2>1
  <2> QED
    BY <1>2, <2>4, <2>5, <2>6
<1> HIDE DEF Full
<1>3. Short = {}
  <2> SUFFICES ASSUME Short # {} PROVE FALSE
    OBVIOUS
  <2>1. PICK k \in Short : \A e \in Short : k <= e
    <3>1. Short \subseteq Nat
      BY <1>0
    <3> QED
      BY <3>1, LeastOf
  <2>2. k # 0 /\ k \in 0..Rounds /\ ~Full(k)
    BY <1>1
  <2>3. k \in 1..Rounds /\ k - 1 \in 0..Rounds /\ k - 1 \notin Short
    BY <1>0, <2>1, <2>2
  <2> QED
    BY <1>2, <2>2, <2>3
<1>4. Full(Rounds)
  BY <1>0, <1>3
<1> QED
  BY <1>4 DEF Full, Rows, RowsUpTo, Expected

\* What passes the check of a submission is complete for the report, and consistent.
LEMMA PassedIsWhole ==
    ASSUME TypeOK, ValidatePhase1Complete
    PROVE  /\ MissingMatches = {f \in Fixtures : matches[f].phase = 2}
           /\ Cardinality(bracket[1][0]) >= Places[0] => MissingBracket <= 0
           /\ bonus \cap Retired = {} => MissingBonus = {}
           /\ \A r \in 2..Rounds : \A t \in bracket[1][r] : \A q \in 1..r : t \in bracket[1][q]
<1>1. ASSUME Cardinality(bracket[1][0]) >= Places[0] PROVE MissingBracket <= 0
  <2>1. bracket[1] \in Bracket /\ Rounds \in Nat
    BY SheetAssumption DEF TypeOK
  <2>2. ASSUME NEW r \in 0..Rounds PROVE Cardinality(bracket[1][r]) >= Places[r]
    BY <1>1, <2>1 DEF ValidatePhase1Complete
  <2>3. /\ Cardinality(Rows(bracket[1])) \in Nat
        /\ Cardinality(Rows(bracket[1])) >= Expected
    BY <2>1, <2>2, RoundsAddUp
  <2>4. Expected \in Int
    <3>1. Places[0] \in Nat /\ Places[Rounds] = 1
      BY <2>1, SheetAssumption
    <3> QED
      BY <3>1 DEF Expected
  <2> QED
    BY <2>3, <2>4 DEF MissingBracket
<1>2. ASSUME bonus \cap Retired = {} PROVE MissingBonus = {}
  <2>1. bonus \in SUBSET Questions /\ IsFiniteSet(Questions)
    BY <1>2, SheetAssumption DEF TypeOK
  <2>2. IsFiniteSet(bonus) /\ Cardinality(bonus) <= Cardinality(Questions)
    BY <2>1, FS_Subset
  <2>3. Cardinality(bonus) \in Nat /\ Cardinality(Questions) \in Nat
    BY <2>1, <2>2, FS_CardinalityType
  <2>4. Cardinality(Questions) = Cardinality(bonus)
    BY <2>2, <2>3 DEF ValidatePhase1Complete
  <2>5. Questions = bonus
    BY <2>1, <2>4, FS_Subset
  <2> QED
    BY <2>5 DEF MissingBonus
<1>3. \A r \in 2..Rounds : bracket[1][r] \subseteq bracket[1][r - 1]
  BY DEF ValidatePhase1Complete
<1>4. MissingMatches = {f \in Fixtures : matches[f].phase = 2}
  <2>1. ASSUME NEW f \in Fixtures PROVE matches[f].phase \in {1, 2}
    <3>1. matches[f] # NoPick
      BY DEF ValidatePhase1Complete, Picked
    <3>2. matches[f] \in MatchRow
      BY <3>1 DEF TypeOK
    <3> QED
      BY <3>2 DEF MatchRow
  <2> QED
    BY <2>1 DEF MissingMatches
<1> QED
  BY <1>1, <1>2, <1>3, <1>4, ChainReachesDown

\* A submission that no save overtook is complete and its champion won all the way: the
\* check before it (entries.py 938-1077) and the report after it (completeness.py 92-249)
\* count differently, and agree but for scores saved under Phase 2, first-round picks and
\* retired questions.
THEOREM SubmittedSheetsAreWhole == Spec => []PicksAreWhole
<1>1. IInv => PicksAreWhole
  BY PassedIsWhole DEF IInv, SubmittedStands, PicksAreWhole, SubmittedIsComplete, ChainHolds
<1> QED
  BY <1>1, SubmissionsStand, PTL
=============================================================================
