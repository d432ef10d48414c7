--------------------------- MODULE Qualification ---------------------------
(***************************************************************************)
(* From the group results to the first knockout round: the results arrive, *)
(* are mistyped, corrected and taken back; r32_resolver.py fills the slots *)
(* of the round from the settled tables while the fixtures still hold      *)
(* placeholders; Football-Data writes the names FIFA publishes; get_       *)
(* eliminated_teams reads off who is out; and standings_verify.py compares *)
(* the settled tables with Football-Data's.                                *)
(*                                                                         *)
(* What happened on the pitch (truth) and the lots FIFA draws when nothing *)
(* else separates two teams are fixed when a behaviour starts; the program *)
(* knows neither, and puts the alphabet in the place of the lots.          *)
(*                                                                         *)
(* The number of groups (12 in the code), of qualifying thirds (8), the    *)
(* slots and the Annex C table are parameters.                             *)
(***************************************************************************)
EXTENDS Standings

CONSTANTS
    Groups,
    Fixture,      \* match -> [group, home, away]: the group fixtures
    GoalPairs,    \* bound: <<hg, ag>>, the scores of a match
    Orders,       \* the alphabet ("alphabet") and the lots FIFA may draw: team -> number
    Truths,       \* bound: the true results, each a function from Matches to GoalPairs
    Played0,      \* the matches that are over when a behaviour starts
    Qualifiers,   \* how many thirds qualify
    Slots,        \* the places of the first round: [type, group, place]
    Batches,      \* bound: the slots whose names Football-Data serves together
    AnnexC,       \* set of groups -> group of the winner faced -> group of the third
    Lags,         \* bound: what Football-Data's table may count of the matches it is behind on
    MaxMistakes,  \* bound: mistyped or missing scores
    MaxReverts,   \* bound: imports that take a status or published names back
    MaxEvents     \* bound: drift events open at once

Matches == DOMAIN Fixture
Teams == {Fixture[m].home : m \in Matches} \cup {Fixture[m].away : m \in Matches}
MatchesOf(g) == {m \in Matches : Fixture[m].group = g}
TeamsOf(g) == {Fixture[m].home : m \in MatchesOf(g)} \cup {Fixture[m].away : m \in MatchesOf(g)}
Lots == DOMAIN Orders
Thirds == {s \in Slots : s.type = "third"}

ASSUME GeometryAssumption ==
    /\ IsFiniteSet(Matches)
    /\ \A m \in Matches : Fixture[m].group \in Groups /\ Fixture[m].home # Fixture[m].away
    /\ \A m, n \in Matches :
          {Fixture[m].home, Fixture[m].away} \cap {Fixture[n].home, Fixture[n].away} # {} =>
              Fixture[m].group = Fixture[n].group
    /\ "alphabet" \in Lots /\ \A order \in Lots : Orders[order] \in [Teams -> Int]
    /\ Played0 \subseteq Matches
    /\ Truths \subseteq [Matches -> GoalPairs]
    /\ Slots \subseteq [type : {"group"}, group : Groups, place : 1..2]
                       \cup [type : {"third"}, group : Groups, place : {3}]
    /\ UNION Batches = Slots
    /\ \A key \in DOMAIN AnnexC :
          /\ key \subseteq Groups
          /\ Cardinality(key) = Qualifiers
          /\ DOMAIN AnnexC[key] = {s.group : s \in Thirds}
          /\ {AnnexC[key][g] : g \in DOMAIN AnnexC[key]} = key
          /\ \A g, h \in DOMAIN AnnexC[key] : g # h => AnnexC[key][g] # AnnexC[key][h]
    /\ \A lag \in Lags : /\ DOMAIN lag \subseteq Matches
                         /\ lag \in [DOMAIN lag -> GoalPairs \cup {<<>>}]
    /\ MaxMistakes \in Nat /\ MaxReverts \in Nat /\ MaxEvents \in Nat

\* Every group has a third, no two teams have one name or draw one lot, and Annex C has a
\* row for whichever groups the qualified thirds come from.
ASSUME PlacesAssumption ==
    /\ GoalPairs \subseteq Nat \X Nat
    /\ IsFiniteSet(Groups) /\ Qualifiers \in 0..Cardinality(Groups)
    /\ \A g \in Groups : Cardinality(TeamsOf(g)) >= 3
    /\ \A order \in Lots : \A t, u \in Teams : Orders[order][t] = Orders[order][u] => t = u
    /\ \A key \in SUBSET Groups : Cardinality(key) = Qualifiers => key \in DOMAIN AnnexC

VARIABLES
    truth,     \* the results on the pitch
    lots,      \* FIFA's order of teams nothing else separates
    finished,  \* fixtures whose status is FINISHED
    score,     \* the score rows, NoScore where there is none
    verified,  \* fixtures whose score an administrator typed: no sync touches them
    lineup,    \* the names in the first-round fixtures, TBD for a placeholder
    drift,     \* the open drift events, each its groups with our table and theirs
    mistakes,  \* count of the mistakes made
    reverts    \* count of the statuses and names taken back

vars == <<truth, lots, finished, score, verified, lineup, drift, mistakes, reverts>>

NoScore == <<>>
TBD == "TBD"

ASSUME NamesAssumption == TBD \notin Teams

TypeOK ==
    /\ truth \in Truths
    /\ lots \in Lots
    /\ finished \subseteq Matches
    /\ score \in [Matches -> GoalPairs \cup {NoScore}]
    /\ lineup \in [Slots -> Teams \cup {TBD}]
    /\ verified \subseteq Matches
    /\ \A event \in drift : DOMAIN event \subseteq Groups
    /\ mistakes \in 0..MaxMistakes
    /\ reverts \in 0..MaxReverts

-----------------------------------------------------------------------------
(***************************************************************************)
(* The tables.                                                             *)
(***************************************************************************)

\* A sheet gives the counted score of each fixture of a group, NoScore for one not counted.
SheetsOf(g) ==
    {[m \in MatchesOf(g) |-> s[m]] : s \in [MatchesOf(g) -> GoalPairs \cup {NoScore}]}

ResultsOn(sheet) ==
    {[home |-> Fixture[m].home, away |-> Fixture[m].away, hg |-> sheet[m][1], ag |-> sheet[m][2]] :
        m \in {n \in DOMAIN sheet : sheet[n] # NoScore}}

\* The table of a sheet: the line and the place of every team, and the alphabetical ties.
Table(results, alphabet) ==
    LET order == GroupOrder(results, alphabet)
    IN  [line |-> [t \in InTable(results) |-> Line(t, results)],
         place |-> [t \in InTable(results) |-> PlaceOf(t, order)],
         ties |-> GroupTies(results)]

\* Every table there can be.
Tables ==
    [g \in Groups |-> [sheet \in SheetsOf(g) |-> [order \in Lots |->
        Table(ResultsOn(sheet), Orders[order])]]]

\* get_actual_group_standings: FINISHED fixtures that have a score.
Counted(g) == [m \in MatchesOf(g) |-> IF m \in finished THEN score[m] ELSE NoScore]

TrueSheet(g) == [m \in MatchesOf(g) |-> truth[m]]

\* Every fixture of the group is FINISHED, with or without a score.
Settled(g) == MatchesOf(g) \subseteq finished

OurTable(g) == Tables[g][Counted(g)]["alphabet"]
OurTables == [g \in Groups |-> OurTable(g)]
TrueTable(g) == Tables[g][TrueSheet(g)][lots]

\* The table Football-Data serves, in FIFA's order: right but for the matches it is behind
\* on, of which it counts nothing yet, or a score from before the end.
ServedTable(g, lag) ==
    Tables[g][[m \in MatchesOf(g) |-> IF m \in DOMAIN lag THEN lag[m] ELSE truth[m]]][lots]

InPlace(i, table) == {t \in DOMAIN table.place : table.place[t] = i}

\* The lines of the third-placed teams, who meet nobody's results but their own.
ThirdLines(tables) ==
    [t \in UNION {InPlace(3, tables[g]) : g \in Groups} |->
        tables[CHOOSE g \in Groups : t \in InPlace(3, tables[g])].line[t]]

BestThirds(tables, alphabet) ==
    LET line == ThirdLines(tables)
        order == ThirdOrder(line, alphabet)
    IN  {t \in DOMAIN line : PlaceOf(t, order) <= Qualifiers}

\* The groups whose third qualifies: the key into Annex C.
AnnexCKey(tables, alphabet) ==
    LET best == BestThirds(tables, alphabet)
    IN  {g \in Groups : InPlace(3, tables[g]) \cap best # {}}

\* The teams of each slot, at most one, by R32_SOURCES and the Annex C row.
Seeds(tables, alphabet) ==
    LET key == AnnexCKey(tables, alphabet)
    IN  [s \in Slots |->
            IF s.type = "group" THEN InPlace(s.place, tables[s.group])
            ELSE IF key \in DOMAIN AnnexC THEN InPlace(3, tables[AnnexC[key][s.group]])
            ELSE {}]

\* FIFA's own seeding.
FifaSeeds ==
    [t \in Truths |-> [l \in Lots |->
        Seeds([g \in Groups |-> Tables[g][[m \in MatchesOf(g) |-> t[m]]][l]], Orders[l])]]

TrueSeed(s) == FifaSeeds[truth][lots][s]

\* R32Resolver: group places of settled groups; thirds once all groups are.
MutantEarlyThirds ==
    LET seeds == Seeds(OurTables, Orders["alphabet"])
    IN  [s \in Slots |-> IF Settled(s.group) THEN seeds[s] ELSE {}]

Resolved ==
    LET seeds == Seeds(OurTables, Orders["alphabet"])
    IN  [s \in Slots |->
            IF IF s.type = "group" THEN Settled(s.group) ELSE \A g \in Groups : Settled(g)
            THEN seeds[s]
            ELSE {}]

\* resolve_r32_pair: names that have been written stand.
Shown ==
    LET resolved == Resolved
    IN  [s \in Slots |-> IF lineup[s] # TBD THEN {lineup[s]} ELSE resolved[s]]

\* get_eliminated_teams, its second path: the round is fully seeded, and they are not in it.
MutantHalfSeeded(shown) == \E s \in Slots : shown[s] # {}

FullySeeded(shown) == \A s \in Slots : shown[s] # {}

Eliminated ==
    LET shown == Shown
    IN  IF FullySeeded(shown) THEN Teams \ UNION {shown[s] : s \in Slots} ELSE {}

\* The warnings of the tables: the teams the alphabet separated.
GroupWarnings == UNION {OurTable(g).ties : g \in Groups}
ThirdWarnings == ThirdTies(ThirdLines(OurTables))

\* compare_standings over the settled groups: the lines and places of the two tables.
MutantUnsettled(lag) ==
    {g \in Groups :
        \/ OurTable(g).line # ServedTable(g, lag).line
        \/ OurTable(g).place # ServedTable(g, lag).place}

Disagreements(lag) ==
    {g \in Groups : Settled(g) /\
        \/ OurTable(g).line # ServedTable(g, lag).line
        \/ OurTable(g).place # ServedTable(g, lag).place}

-----------------------------------------------------------------------------

Init ==
    /\ truth \in Truths
    /\ lots \in Lots
    /\ finished = Played0
    /\ score = [m \in Matches |-> IF m \in Played0 THEN truth[m] ELSE NoScore]
    /\ verified = {}
    /\ lineup = [s \in Slots |-> TBD]
    /\ drift = {}
    /\ mistakes = 0
    /\ reverts = 0

MutantSkipsScored(m) ==
    /\ m \notin verified
    /\ score[m] = NoScore
    /\ finished' = finished \cup {m}
    /\ score' = [score EXCEPT ![m] = truth[m]]
    /\ UNCHANGED <<truth, lots, verified, lineup, drift, mistakes, reverts>>

\* A sync lands the final; a verified fixture is left alone, status and all.
Final(m) ==
    /\ m \notin verified
    /\ m \notin finished \/ score[m] # truth[m]
    /\ finished' = finished \cup {m}
    /\ score' = [score EXCEPT ![m] = truth[m]]
    /\ UNCHANGED <<truth, lots, verified, lineup, drift, mistakes, reverts>>

\* update_score by an administrator.
TypeScore(m, s) ==
    /\ finished' = finished \cup {m}
    /\ score' = [score EXCEPT ![m] = s]
    /\ verified' = verified \cup {m}
    /\ UNCHANGED <<truth, lots, lineup, drift, reverts>>

Mistype(m, s) ==
    /\ s # truth[m]
    /\ mistakes < MaxMistakes
    /\ TypeScore(m, s)
    /\ mistakes' = mistakes + 1

Correct(m) ==
    /\ m \in verified
    /\ TypeScore(m, truth[m])
    /\ UNCHANGED mistakes

\* update_fixture_status: FINISHED, whether there is a score or not.
FinishBare(m) ==
    /\ m \notin finished
    /\ mistakes < MaxMistakes
    /\ finished' = finished \cup {m}
    /\ mistakes' = mistakes + 1
    /\ UNCHANGED <<truth, lots, score, verified, lineup, drift, reverts>>

\* A fixture import or an administrator takes the status back; the score stays.
Unfinish(m) ==
    /\ m \in finished \ Played0
    /\ reverts < MaxReverts
    /\ finished' = finished \ {m}
    /\ reverts' = reverts + 1
    /\ UNCHANGED <<truth, lots, score, verified, lineup, drift, mistakes>>

\* After the finals Football-Data serves the names of some fixtures, and the next sync
\* writes them over the placeholders.
Publish(batch) ==
    /\ \A m \in Matches : score[m] # NoScore
    /\ \E s \in batch : lineup[s] = TBD
    /\ lineup' = [s \in Slots |->
          IF s \in batch THEN CHOOSE t \in Teams : t \in TrueSeed(s) ELSE lineup[s]]
    /\ UNCHANGED <<truth, lots, finished, score, verified, drift, mistakes, reverts>>

\* An import of an older download (sync_from_cache) writes the placeholders back over the
\* names: _upsert_fixtures takes every field as it comes.
Unpublish(batch) ==
    /\ \E s \in batch : lineup[s] # TBD
    /\ reverts < MaxReverts
    /\ lineup' = [s \in Slots |-> IF s \in batch THEN TBD ELSE lineup[s]]
    /\ reverts' = reverts + 1
    /\ UNCHANGED <<truth, lots, finished, score, verified, drift, mistakes>>

\* trigger_standings_drift_check: an event for the groups that disagree with whatever table
\* is served, with the rows of both.
CheckDrift(lag) ==
    /\ Disagreements(lag) # {}
    /\ Cardinality(drift) < MaxEvents
    /\ drift' = drift \cup {[g \in Disagreements(lag) |->
                              [ours |-> OurTable(g), theirs |-> ServedTable(g, lag)]]}
    /\ UNCHANGED <<truth, lots, finished, score, verified, lineup, mistakes, reverts>>

DismissDrift(event) ==
    /\ drift' = drift \ {event}
    /\ UNCHANGED <<truth, lots, finished, score, verified, lineup, mistakes, reverts>>

Next ==
    \/ \E m \in Matches : Final(m)
    \/ \E m \in Matches \ Played0, s \in GoalPairs : Mistype(m, s)
    \/ \E m \in Matches : Correct(m)
    \/ \E m \in Matches : FinishBare(m)
    \/ \E m \in Matches : Unfinish(m)
    \/ \E batch \in Batches : Publish(batch)
    \/ \E batch \in Batches : Unpublish(batch)
    \/ \E lag \in Lags : CheckDrift(lag)
    \/ \E event \in drift : DismissDrift(event)

Spec == Init /\ [][Next]_vars

\* The feeds end up serving every final.
FairSpec == Spec /\ \A m \in Matches : WF_vars(Final(m))

-----------------------------------------------------------------------------
(***************************************************************************)
(* Properties.                                                             *)
(***************************************************************************)

\* A name that has been written is the one FIFA gives the place.
NamesAreTrue == \A s \in Slots : lineup[s] # TBD => TrueSeed(s) = {lineup[s]}

IInv == TypeOK /\ NamesAreTrue

\* What is recorded of group g is what happened.
Clean(g) == \A m \in MatchesOf(g) \cap finished : score[m] = truth[m]
NoTies(g) == OurTable(g).ties = {}

\* The resolver shows the teams FIFA will publish (r32_resolver.py:5), however few matches
\* are left elsewhere: from right results, a group place it fills is the true one unless the
\* tables warned of an alphabetical tie, and so is a third unless any table did.
SeedsAreTrue ==
    LET resolved == Resolved
        allClean == (\A g \in Groups : Clean(g)) /\ GroupWarnings \cup ThirdWarnings = {}
    IN  \A s \in Slots :
            /\ resolved[s] # {}
            /\ IF s.type = "group" THEN Clean(s.group) /\ NoTies(s.group) ELSE allClean
            => resolved[s] = TrueSeed(s)

\* While what is recorded is right and nothing was left to the alphabet, no team is shown in
\* two slots, though some names are Football-Data's and others the resolver's own.
NobodyShownTwice ==
    /\ \A g \in Groups : Clean(g)
    /\ GroupWarnings \cup ThirdWarnings = {}
    => LET shown == Shown
       IN  \A s, r \in Slots : s # r => shown[s] \cap shown[r] = {}

\* A team reported out is out, and whoever else is in: while results are right and nothing
\* was left to the alphabet, as many teams stay as the round has places, also when some
\* fixtures hold published names and others do not.
OutIsOut ==
    /\ \A g \in Groups : Clean(g)
    /\ GroupWarnings \cup ThirdWarnings = {}
    => LET out == Eliminated
       IN  out # {} => /\ out = Teams \ UNION {TrueSeed(s) : s \in Slots}
                       /\ Cardinality(Teams \ out) = Cardinality(Slots)

\* A group place, once shown, changes only when a counted result of that same group is
\* changed or taken back; a result that arrives late elsewhere never moves it.
ResolvedStands ==
    [][LET before == Resolved
           after == Resolved'
       IN  \A s \in Slots :
              s.type = "group" /\ before[s] # {} /\ after[s] # before[s] =>
                  \E m \in MatchesOf(s.group) \cap finished :
                      m \notin finished' \/ score'[m] # score[m]]_vars

\* "That looks like drift but isn't" (standings_verify.py:230): an event names a group only
\* when a result of it is wrong or missing, the alphabet decided one of its places, or the
\* rows it keeps of the served table are not the final ones.
DriftIsExplained ==
    [][\A event \in drift' \ drift : \A g \in DOMAIN event :
          ~Clean(g) \/ ~NoTies(g) \/ event[g].theirs # TrueTable(g)]_vars

\* When a group is over and the verifier does not name it, its places are FIFA's, unless the
\* table it was compared with was itself behind; the thirds are not compared with anything.
VerifiedSeedsTrue ==
    LET resolved == Resolved
    IN  \A lag \in Lags :
            LET named == Disagreements(lag)
            IN  \A s \in Slots \ Thirds :
                    /\ Settled(s.group) /\ s.group \notin named
                    /\ ServedTable(s.group, lag) = TrueTable(s.group)
                    => resolved[s] = TrueSeed(s)

\* Once the finals have come, the round is seeded without waiting for Football-Data, unless
\* a fixture an administrator verified has lost its status: no sync finishes it again.
SeedsAppear == <>[](verified \subseteq finished) => <>[]FullySeeded(Shown)

\* The runs' properties.  Whatever way a place is filled, with the verifier's agreement or
\* before it, the team in it is the right one and is shown once.
BracketIsTrue == IInv /\ SeedsAreTrue /\ NobodyShownTwice /\ VerifiedSeedsTrue

\* A place moves only for a result of its group, and an alarm names only groups that erred,
\* tied or were compared with a table that was behind.
SeedsStand == ResolvedStands /\ DriftIsExplained
=============================================================================
