---------------------------- MODULE MCChatDialogues ----------------------------
(* A newcomer, residents and committee members, with one or two dialogues each. *)
EXTENDS ChatDialogues

Sender(role, registered, topics, state, asks) ==
  [role |-> role, registered |-> registered, topics |-> topics, event |-> state,
   asks |-> asks]

Pairs ==
  {Sender(NoRole, FALSE, {"JOIN"}, "CLOSED", 1),
   Sender(NoRole, TRUE, {"JOIN", "REFUND_REQUEST"}, "EVENT_DAY", 2),
   Sender(NoRole, TRUE, {"ADD_PASS_COUNTS"}, "LOCKED", 2),
   Sender(NoRole, TRUE, {"VIEW_BALANCE"}, "DRAFT", 1),
   Sender(NoRole, TRUE, {"MAKE_PAYMENT", "PAY_CUSTOM"}, "DRAFT", 2),
   Sender("chairman", TRUE, {"ADD_EVENT"}, "DRAFT", 1),
   Sender("secretary", TRUE, {"ADD_EXPENSE", "REPORT_OPTIONS", "SUMMARY"}, "EVENT_DAY", 1),
   Sender("treasurer", TRUE, {"REFUND_SPONSOR"}, "EVENT_DAY", 1),
   Sender("treasurer", TRUE, {"REMIND_FLAT", "ANNOUNCE_EVENT"}, "LOCKED", 2),
   Sender("committee_member", TRUE, {"ADD_SPONSOR"}, "EVENT_DAY", 1)}
===============================================================================
