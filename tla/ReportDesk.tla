------------------------------ MODULE ReportDesk ------------------------------
(***************************************************************************)
(* Who gets which report, by which door, and what is recorded of it.  A    *)
(* member of the committee calls a route of the reports API, or picks a    *)
(* report from the chat menu, which always asks for a PDF.  The handler    *)
(* checks the role and computes the report, writes the access to the audit *)
(* log, and hands the document over: three steps, and the log may fail.    *)
(*                                                                         *)
(* A handler is the code it checks and logs, whether it reports on an      *)
(* event or on the member's own society, and the formats it renders.       *)
(***************************************************************************)
EXTENDS CommitteeRoster

CONSTANTS
  KnownEvent,  \* is there an event to report on
  AuditReaders,\* AUDIT_READ_ROLES of the configuration
  MaxCalls,    \* bound: reports asked for in a behaviour
  MaxFaults    \* bound: failing writes of the access log

ASSUME ReportDeskAssumption ==
  /\ KnownEvent \in BOOLEAN
  /\ MaxCalls \in Nat
  /\ MaxFaults \in Nat

VARIABLES
  desk,       \* desk[p]: the request of member p under way
  accessLog,  \* audit rows of report accesses
  outbox,     \* documents handed over
  faults,     \* failed writes of the access log
  calls       \* reports asked for so far

deskVars == <<desk, accessLog, outbox, faults, calls>>

MoneyKeepers == {"chairman", "treasurer"}

REPORT_PERMISSIONS ==
  [GOVERNANCE_AUDIT |-> {"chairman"},
   EVENT_FINANCIAL_SUMMARY |-> MoneyKeepers,
   FLAT_PAYMENTS |-> MoneyKeepers,
   BLOCK_PAYMENTS |-> MoneyKeepers,
   SPONSOR_CONTRIBUTIONS |-> MoneyKeepers,
   CONTRIBUTION_REFUNDS |-> MoneyKeepers,
   BALANCE_CONTINUITY |-> MoneyKeepers,
   MEMBER_REFUNDS |-> MoneyKeepers,
   MEMBER_DIRECTORY |-> {"chairman", "secretary"},
   ONBOARDING_STATUS |-> {"chairman", "secretary"},
   ANNOUNCEMENT_HISTORY |-> {"chairman", "secretary"},
   LEDGER |-> OVERRIDE_ROLES,
   FOOD_PASS_OPERATIONS |-> {"chairman", "secretary", "committee_member"},
   PENDING_PAYMENTS_OPERATIONS |-> Roles,
   EXPENSE_SUMMARY |-> OVERRIDE_ROLES,
   EVENT_PARTICIPATION |-> {"chairman", "secretary", "committee_member"}]

Files == {"csv", "excel", "pdf"}

(* What the registry of the chat lets be asked for of each report.         *)
SupportedFormats ==
  [code \in DOMAIN REPORT_PERMISSIONS |->
     CASE code = "EVENT_PARTICIPATION" -> {"csv"}
       [] code \in {"ANNOUNCEMENT_HISTORY", "PENDING_PAYMENTS_OPERATIONS", "EXPENSE_SUMMARY"} ->
            {"csv", "excel"}
       [] OTHER -> Files]

OnEvent(code, renders) == [code |-> code, scope |-> "event", renders |-> renders]

OnSociety(code, renders) == [code |-> code, scope |-> "society", renders |-> renders]

(***************************************************************************)
(* The routes of the API: a view (JSON), an export, or both.               *)
(***************************************************************************)
event_summary == OnEvent("EVENT_FINANCIAL_SUMMARY", {"JSON"} \cup Files)
flat_payment_report == OnEvent("FLAT_PAYMENTS", {"JSON"} \cup Files)
block_payment_report == OnEvent("BLOCK_PAYMENTS", {"JSON"} \cup Files)
export_sponsor_contributions == OnEvent("SPONSOR_CONTRIBUTIONS", Files)
export_contribution_refunds == OnEvent("CONTRIBUTION_REFUNDS", Files)
export_balance_continuity == OnSociety("BALANCE_CONTINUITY", Files)
export_member_refunds == OnEvent("MEMBER_REFUNDS", Files)
export_ledger == OnEvent("LEDGER", Files)
food_pass_operations_report == OnEvent("FOOD_PASS_OPERATIONS", {"JSON"} \cup Files)
pending_payments_report == OnEvent("PENDING_PAYMENTS_OPERATIONS", {"JSON", "csv", "excel"})
expense_summary_report == OnEvent("EXPENSE_SUMMARY", {"JSON", "csv", "excel"})
participation_report == OnEvent("EVENT_PARTICIPATION", {"JSON"})
export_governance_audit == OnSociety("GOVERNANCE_AUDIT", Files)
read_protected_audit_events == OnSociety("GOVERNANCE_AUDIT", {"JSON"})
export_member_directory == OnSociety("MEMBER_DIRECTORY", Files)
export_onboarding_status == OnSociety("ONBOARDING_STATUS", Files)
export_announcement_history == OnSociety("ANNOUNCEMENT_HISTORY", {"csv", "excel"})

ApiHandlers ==
  {event_summary, flat_payment_report, block_payment_report, export_sponsor_contributions,
   export_contribution_refunds, export_balance_continuity, export_member_refunds,
   export_ledger, food_pass_operations_report, pending_payments_report,
   expense_summary_report, participation_report, export_governance_audit,
   read_protected_audit_events, export_member_directory, export_onboarding_status,
   export_announcement_history}

(***************************************************************************)
(* The handlers behind the chat menu.  Two of them render a PDF of no      *)
(* bytes, one only ever renders CSV, one spreadsheets only.                *)
(***************************************************************************)
ChatFinancial ==
  {OnEvent(code, Files) : code \in {"EVENT_FINANCIAL_SUMMARY", "FLAT_PAYMENTS", "BLOCK_PAYMENTS"}}

ChatGifts == {OnEvent("SPONSOR_CONTRIBUTIONS", Files), OnEvent("CONTRIBUTION_REFUNDS", Files)}

ChatBalances ==
  {OnSociety("BALANCE_CONTINUITY", Files), OnEvent("MEMBER_REFUNDS", Files), OnEvent("LEDGER", Files)}

ChatAdmin ==
  {OnSociety("MEMBER_DIRECTORY", Files), OnSociety("ONBOARDING_STATUS", Files),
   OnSociety("ANNOUNCEMENT_HISTORY", {"csv", "excel"}), OnSociety("GOVERNANCE_AUDIT", Files)}

ChatOperations ==
  {OnEvent("FOOD_PASS_OPERATIONS", Files),
   OnEvent("PENDING_PAYMENTS_OPERATIONS", {"csv", "excel"}),
   OnEvent("EXPENSE_SUMMARY", {"csv", "excel"}),
   OnEvent("EVENT_PARTICIPATION", {"csv"})}

ChatHandlers == ChatFinancial \cup ChatGifts \cup ChatBalances \cup ChatAdmin \cup ChatOperations

NoCall == [step |-> "none"]

DeskInit ==
  /\ desk = [p \in People |-> NoCall]
  /\ accessLog = {}
  /\ outbox = {}
  /\ faults = 0
  /\ calls = 0

(* authorize_committee_member_report and ensure_report_access.             *)
MayRead(p, code) == p \in InCommittee /\ roster[p].role \in REPORT_PERMISSIONS[code]

Found(h) == h.scope = "event" => KnownEvent

Call(p, h, format, unsupported) ==
  /\ desk[p] = NoCall
  /\ calls < MaxCalls
  /\ MayRead(p, h.code)
  /\ Found(h)
  /\ calls' = calls + 1
  /\ desk' = [desk EXCEPT ![p] =
                [step |-> "checked", number |-> calls + 1, code |-> h.code, format |-> format,
                 document |-> IF format \in h.renders THEN format ELSE unsupported]]
  /\ UNCHANGED <<accessLog, outbox, faults>>

(* A route logs whatever format is asked for and refuses the unsupported   *)
(* ones after that.                                                        *)
CallApi(p, h, format) ==
  /\ format = "JSON" => "JSON" \in h.renders
  /\ format # "JSON" => h.renders # {"JSON"}
  /\ h = read_protected_audit_events => roster[p].role \in AuditReaders
  /\ Call(p, h, format, "refusal")

(* Variant: the registry's formats are not looked at. *)
MenuOffersAny(h) == TRUE

(* The registry refuses what it does not list; the menu shows it anyway.   *)
MenuOffers(h) == "pdf" \in SupportedFormats[h.code]

CallChat(p, h) ==
  /\ MenuOffers(h)
  /\ Call(p, h, "pdf", "blank")

LogRow(p) == [by |-> p, code |-> desk[p].code, format |-> desk[p].format, number |-> desk[p].number]

RecordAccess(p) ==
  /\ desk[p].step = "checked"
  /\ accessLog' = accessLog \cup {LogRow(p)}
  /\ desk' = [desk EXCEPT ![p].step = "recorded"]
  /\ UNCHANGED <<outbox, faults, calls>>

(* Variant: a failing write is not tried again. *)
AfterFaultOnce(step) == "recorded"

(* The write is tried again on a session of its own; if that fails too,    *)
(* the request goes on without it.                                         *)
AfterFault(step) == IF step = "checked" THEN "again" ELSE "recorded"

LogFails(p) ==
  /\ desk[p].step \in {"checked", "again"}
  /\ faults < MaxFaults
  /\ faults' = faults + 1
  /\ desk' = [desk EXCEPT ![p].step = AfterFault(@)]
  /\ UNCHANGED <<accessLog, outbox, calls>>

RecordAgain(p) ==
  /\ desk[p].step = "again"
  /\ accessLog' = accessLog \cup {LogRow(p)}
  /\ desk' = [desk EXCEPT ![p].step = "recorded"]
  /\ UNCHANGED <<outbox, faults, calls>>

HandOver(p) ==
  /\ desk[p].step = "recorded"
  /\ outbox' = IF desk[p].document = "refusal" THEN outbox
               ELSE outbox \cup {[to |-> p, code |-> desk[p].code, asked |-> desk[p].format,
                                  document |-> desk[p].document, number |-> desk[p].number]}
  /\ desk' = [desk EXCEPT ![p] = NoCall]
  /\ UNCHANGED <<accessLog, faults, calls>>

(* The process dies, or the request's own session, after its failed write, *)
(* no longer answers what is left to read.                                 *)
Abandon(p) ==
  /\ desk[p] # NoCall
  /\ desk' = [desk EXCEPT ![p] = NoCall]
  /\ UNCHANGED <<accessLog, outbox, faults, calls>>

Request(p) ==
  \/ \E h \in ApiHandlers, format \in Files \cup {"JSON", "other"} : CallApi(p, h, format)
  \/ \E h \in ChatHandlers : CallChat(p, h)
  \/ RecordAccess(p)
  \/ LogFails(p)
  \/ RecordAgain(p)
  \/ HandOver(p)
  \/ Abandon(p)

DeskNext == \E p \in People : Request(p)

-------------------------------------------------------------------------------
(* Types: a request under way is for a report its member was allowed, and  *)
(* nothing is logged or handed over that was not asked for (api/reports).  *)
DeskTypeOK ==
  /\ \A p \in People :
       desk[p] # NoCall =>
         /\ desk[p].step \in {"checked", "again", "recorded"}
         /\ desk[p].code \in DOMAIN REPORT_PERMISSIONS
         /\ desk[p].number \in 1..calls
  /\ \A row \in accessLog : row.by \in People /\ row.number \in 1..calls
  /\ \A d \in outbox : d.to \in People /\ d.number \in 1..calls
  /\ faults \in 0..MaxFaults
  /\ calls \in 0..MaxCalls

(* A document handed over is what was asked for, never a blank one, and    *)
(* its access is in the audit log, for that member, report and format; one *)
(* failing write of the log does not change that, two do                   *)
(* (record_report_access, WHATSAPP_REPORT_DEFINITIONS).                    *)
SoundDelivery ==
  \A d \in outbox :
    /\ d.document = d.asked
    /\ faults <= 1 =>
         [by |-> d.to, code |-> d.code, format |-> d.asked, number |-> d.number] \in accessLog
===============================================================================
