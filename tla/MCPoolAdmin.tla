---------------------------- MODULE MCPoolAdmin ----------------------------
(***************************************************************************)
(* The administration of the pool for TLC: the accounts, the sign-in       *)
(* links, the desk and the audiences.  The four share no state that a      *)
(* property reads, so a behaviour follows one of them: their states add    *)
(* up where a product would multiply them.                                 *)
(***************************************************************************)
EXTENDS Accounts, Naturals

CONSTANTS Owners, Links, Visits, NoLink
VARIABLES enabled, link, opened, visit
SignIn == INSTANCE SignInLinks

CONSTANTS Readers, Switches, Teller, Cards, Desks
ASSUME TellerAssumption == Teller \in Switches
VARIABLES switch, card, log, desk, job, inbox
Desk == INSTANCE PoolDesk WITH People <- Readers

CONSTANTS Kickoff, FreshDays, StaleDays, LastDay
ASSUME DaysAssumption == {Kickoff, FreshDays, StaleDays, LastDay} \subseteq Nat
VARIABLES reachable, owns, column, pageview, today
Mail == INSTANCE Audience

VARIABLE part

linkVars == <<enabled, link, opened, visit>>
deskVars == <<switch, card, log, desk, job, inbox>>
mailVars == <<reachable, owns, column, pageview, today>>
vars == <<part, accountsVars, linkVars, deskVars, mailVars>>

Init ==
    /\ part \in {"accounts", "links", "desk", "audience"}
    /\ AccountsInit /\ SignIn!LinksInit /\ Desk!DeskInit /\ Mail!AudienceInit

Next ==
    \/ /\ part = "accounts" /\ AccountsNext
       /\ UNCHANGED <<part, linkVars, deskVars, mailVars>>
    \/ /\ part = "links" /\ SignIn!LinksNext
       /\ UNCHANGED <<part, accountsVars, deskVars, mailVars>>
    \/ /\ part = "desk" /\ Desk!DeskNext
       /\ UNCHANGED <<part, accountsVars, linkVars, mailVars>>
    \/ /\ part = "audience" /\ Mail!AudienceNext
       /\ UNCHANGED <<part, accountsVars, linkVars, deskVars>>

Spec == Init /\ [][Next]_vars

-----------------------------------------------------------------------------
(* Only requests that overlap break a rule of the accounts or of the       *)
(* sign-in links (Accounts!OnlyRacesBreakRules,                            *)
(* SignInLinks!LinksSlipOnlyInRaces).                                      *)
LinksSlipOnlyInRaces == SignIn!LinksSlipOnlyInRaces

(* The audit rows, the mails and the state agree, and a mail goes to the   *)
(* people of its segment and to no other (PoolDesk!LogTellsAll,            *)
(* PoolDesk!OneStoryPerBroadcast, Audience!SegmentsPart).                  *)
DeskTellsTrue == Desk!LogTellsAll /\ Desk!OneStoryPerBroadcast /\ Mail!SegmentsPart
=============================================================================
