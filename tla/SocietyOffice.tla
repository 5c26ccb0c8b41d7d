----------------------------- MODULE SocietyOffice -----------------------------
(***************************************************************************)
(* The office of a society: the committee's roster, the homes of           *)
(* newcomers, the books of its events and the desk that hands out reports, *)
(* all over the same tables.  The desks meet in the roster, which decides  *)
(* who approves a newcomer and who reads which report.  A day says how     *)
(* many messages each desk gets.                                           *)
(***************************************************************************)
EXTENDS Onboarding, SponsorLedger, ReportDesk

CONSTANT Days  \* bound: [taps, joins, entries, calls] a behaviour may have

ASSUME OfficeAssumption ==
  Days \subseteq [{"taps", "joins", "entries", "calls"} -> Nat]

VARIABLE day

officeVars == <<rosterVars, joinVars, ledgerVars, deskVars, day>>

Init ==
  /\ RosterInit
  /\ JoinInit
  /\ LedgerInit
  /\ DeskInit
  /\ day \in Days
  \* A desk without messages has no need of more than one start.
  /\ day.joins = 0 => byApproval
  /\ day.entries = 0 => stage = [e \in EventIds |-> CHOOSE s \in Stages : TRUE]

Roster ==
  /\ day.taps > 0
  /\ RosterNext
  /\ taps' <= day.taps
  /\ UNCHANGED <<joinVars, ledgerVars, deskVars, day>>

Joining ==
  /\ day.joins > 0
  /\ JoinNext
  /\ joins' <= day.joins
  /\ UNCHANGED <<rosterVars, ledgerVars, deskVars, day>>

Books ==
  /\ day.entries > 0
  /\ LedgerNext
  /\ entries' <= day.entries
  /\ UNCHANGED <<rosterVars, joinVars, deskVars, day>>

Desk ==
  /\ day.calls > 0
  /\ DeskNext
  /\ calls' <= day.calls
  /\ UNCHANGED <<rosterVars, joinVars, ledgerVars, day>>

Next == Roster \/ Joining \/ Books \/ Desk

Spec == Init /\ [][Next]_officeVars

-------------------------------------------------------------------------------
(* Types of everything the office keeps, and the bounds of the day.        *)
OfficeTypeOK ==
  /\ RosterTypeOK
  /\ JoinTypeOK
  /\ LedgerTypeOK
  /\ DeskTypeOK
  /\ day \in Days
===============================================================================
