----------------------------- MODULE ChatDialogues -----------------------------
(* The guided dialogues of one WhatsApp sender.  A menu row or a command asks  *)
(* a question; what the sender writes next is its answer.  The questions open  *)
(* are kept in five dictionaries in memory, and each message is handled by a    *)
(* thread of its own that reads them, calls a service and writes them back.     *)
EXTENDS Integers, Sequences, FiniteSets, SocietyRules

CONSTANTS Threads,   \* threads that handle messages of the sender
          Setups,    \* who the sender is and which dialogues are considered
          MaxAsked,  \* bound: dialogues opened, in a setup that asks as many
          MaxEvents  \* bound: events of the society

WizardSteps == <<"name", "event_date", "food_types", "charge_per_adult",
                 "charge_per_child", "payment_deadline">>

PendingSteps ==
  [ADD_EXPENSE      |-> <<"reason", "amount">>,
   ADD_SPONSOR      |-> <<"sponsor_type", "sponsor_name", "amount_or_details">>,
   REFUND_SPONSOR   |-> <<"contribution_code", "amount", "reason", "override_reason">>,
   REMIND_FLAT      |-> <<"flat_number">>,
   ANNOUNCE_EVENT   |-> <<"message_body">>,
   ANNOUNCE_SOCIETY |-> <<"message_body">>]

PendingTopics == DOMAIN PendingSteps
Announcements == {"ANNOUNCE_EVENT", "ANNOUNCE_SOCIETY"}
Selections == {"VIEW_BALANCE", "MAKE_PAYMENT"}
FinanceTopics == Selections \cup {"PAY_CUSTOM", "REFUND_REQUEST", "ADD_PASS_COUNTS"}
Reports == {"REPORT_OPTIONS", "SUMMARY"}
Commands == PendingTopics \cup Reports \cup {"ADD_EVENT"}
Topics == FinanceTopics \cup Commands \cup {"JOIN"}

StepsOf(topic) ==
  IF topic = "ADD_EVENT" THEN WizardSteps
  ELSE IF topic \in PendingTopics THEN PendingSteps[topic]
  ELSE IF topic = "JOIN" THEN <<"code", "flat">>
  ELSE IF topic \in Selections THEN <<"event", "selected">>
  ELSE <<"answer">>

(* What a message says, as far as the dialogues tell: a command, a row that    *)
(* names an event, a row of the reports, digits, other words, or cancel.        *)
Messages == Commands \cup {"pick", "row", "number", "words", "cancel"}

ASSUME DialogueAssumption ==
  /\ Setups \subseteq [role : Roles \cup {NoRole}, registered : BOOLEAN,
                       topics : SUBSET Topics, event : EventStates \cup {"none"},
                       asks : 0..MaxAsked]
  /\ MaxAsked \in Nat /\ MaxEvents \in Nat \ {0}

VARIABLES setup,     \* sender and scope
          event,     \* state of the society's latest event, or "none"
          events,    \* number of events
          shown,     \* rows that open a dialogue and have been sent so far
          dialogue,  \* every dialogue opened, in the order they were opened
          join, finance, creation, pending, \* the dialogue in each dictionary, or 0
          export,    \* a report selection is in its dictionary
          thread,    \* what each thread is doing
          alone      \* no message arrived while another was handled

stores == <<join, finance, creation, pending, export>>
vars == <<setup, event, events, shown, dialogue, stores, thread, alone>>

Committee == setup.role # NoRole
InProgress == {"ACTIVE", "LOCKED", "EVENT_DAY"}
Open(q) == q # 0 /\ q \in {join, finance, creation, pending}

Idle == [at |-> "idle", msg |-> "words", intent |-> "none", then |-> "nothing",
         q |-> 0, step |-> "none"]

(* carried counts, up to 2, how often the dialogue's request was carried out;  *)
(* complete says whether every answer had been given then.                      *)
NewDialogue(topic, step, answered) ==
  [topic |-> topic, step |-> step, answered |-> answered, carried |-> 0, complete |-> TRUE]

Asked == Len(dialogue)
MayAsk(topic) == topic \in setup.topics /\ Asked < setup.asks
First(topic) == StepsOf(topic)[1]
Ask(topic) == dialogue' = Append(dialogue, NewDialogue(topic, First(topic), {}))
Position(topic, step) == CHOOSE i \in DOMAIN StepsOf(topic) : StepsOf(topic)[i] = step
Before(topic, step) == {StepsOf(topic)[i] : i \in 1..Position(topic, step) - 1}

Init ==
  /\ setup \in Setups
  /\ event = setup.event
  /\ events = IF setup.event = "none" THEN 0 ELSE 1
  /\ shown = {}
  /\ dialogue = <<>>
  /\ join = 0 /\ finance = 0 /\ creation = 0 /\ pending = 0
  /\ export = FALSE
  /\ thread = [t \in Threads |-> Idle]
  /\ alone = TRUE

-------------------------------------------------------------------------------
(* The rules the menus and the shared handler apply to an event's state *)

GatedStates ==
  [i \in {"ADD_EXPENSE", "ADD_SPONSOR", "REFUND_SPONSOR", "REMIND_FLAT"} |-> InProgress]

Refuses(intent, state) ==
  /\ state # "none"
  /\ IF Committee
     THEN \/ intent = "ADD_EVENT" /\ state # "DRAFT"
          \/ intent \in DOMAIN GatedStates /\ state \notin GatedStates[intent]
     ELSE intent \in {"ADD_PASS", "PAY", "REFUND"} /\ state \notin InProgress

RolesFor(topic) ==
  CASE topic \in {"ADD_EVENT", "ADD_EXPENSE"} -> {"chairman", "secretary"}
    [] topic \in {"REFUND_SPONSOR", "REMIND_FLAT"} -> {"chairman", "treasurer"}
    [] OTHER -> Roles

-------------------------------------------------------------------------------
(* Menus and their rows.  A row that was sent once can be tapped at any time. *)

Known == Committee \/ setup.registered

(* The rows of the menus that lead to a dialogue; a sender who is not known is *)
(* invited to join instead.                                                     *)
Show(rows) == shown' = shown \cup ((IF Known THEN rows ELSE {"JOIN"}) \cap setup.topics)

Participation == Show(IF Refuses("ADD_PASS", event) THEN {} ELSE {"ADD_PASS_COUNTS"})
PaymentsMenu == Show({"VIEW_BALANCE"})
FinanceMenu == Show(IF Refuses("PAY", event) THEN {} ELSE {"MAKE_PAYMENT", "REFUND_REQUEST"})
SocietyMenu == Show({"JOIN"})

Browse ==
  /\ Participation \/ PaymentsMenu \/ FinanceMenu \/ SocietyMenu
  /\ UNCHANGED <<setup, event, events, dialogue, stores, thread, alone>>

(* A message that overlaps another ends the quiet. *)
Interrupts == alone' = (alone /\ \A t \in Threads : thread[t] = Idle)

TapJoin ==
  /\ "JOIN" \in shown /\ MayAsk("JOIN")
  /\ Ask("JOIN") /\ join' = Asked + 1
  /\ UNCHANGED <<shown, finance>>

TapPass ==
  /\ "ADD_PASS_COUNTS" \in shown /\ MayAsk("ADD_PASS_COUNTS")
  /\ ~Refuses("ADD_PASS", event)
  /\ Ask("ADD_PASS_COUNTS") /\ finance' = Asked + 1
  /\ UNCHANGED <<shown, join>>

TapCustom ==
  /\ "PAY_CUSTOM" \in shown /\ MayAsk("PAY_CUSTOM")
  /\ Ask("PAY_CUSTOM") /\ finance' = Asked + 1
  /\ UNCHANGED <<shown, join>>

TapRefund ==
  /\ "REFUND_REQUEST" \in shown /\ MayAsk("REFUND_REQUEST")
  /\ ~Refuses("REFUND", event)
  /\ Ask("REFUND_REQUEST") /\ finance' = Asked + 1
  /\ UNCHANGED <<shown, join>>

(* The event selected for this row before, the latest one while it is in       *)
(* progress, or the only one.                                                   *)
KnowsEvent(topic) ==
  \/ finance # 0 /\ dialogue[finance].topic = topic /\ dialogue[finance].step = "selected"
  \/ event \in InProgress
  \/ events = 1

AskEvent(topic) ==
  /\ topic \in shown /\ ~KnowsEvent(topic) /\ MayAsk(topic)
  /\ Ask(topic) /\ finance' = Asked + 1
  /\ UNCHANGED <<shown, join>>

(* The row's own session ends with the answer. *)
Settled(topic) ==
  finance' = IF finance # 0 /\ dialogue[finance].topic = topic THEN 0 ELSE finance

TapBalance ==
  \/ AskEvent("VIEW_BALANCE")
  \/ /\ "VIEW_BALANCE" \in shown /\ KnowsEvent("VIEW_BALANCE")
     /\ Settled("VIEW_BALANCE")
     /\ UNCHANGED <<shown, dialogue, join>>

(* With nothing outstanding there is no list and the session stays. *)
TapPayment ==
  \/ AskEvent("MAKE_PAYMENT")
  \/ /\ "MAKE_PAYMENT" \in shown /\ KnowsEvent("MAKE_PAYMENT")
     /\ \/ /\ Settled("MAKE_PAYMENT")
           /\ shown' = shown \cup ({"PAY_CUSTOM"} \cap setup.topics)
        \/ UNCHANGED <<shown, finance>>
     /\ UNCHANGED <<dialogue, join>>

Tap ==
  /\ TapJoin \/ TapPass \/ TapCustom \/ TapRefund \/ TapBalance \/ TapPayment
  /\ Interrupts
  /\ UNCHANGED <<setup, event, events, creation, pending, export, thread>>

-------------------------------------------------------------------------------
(* A typed message: session flows, then the shared handler *)

Go(t, change) == thread' = [thread EXCEPT ![t] = change]
Handle(t, intent, q, then) ==
  Go(t, [thread[t] EXCEPT !.at = "handler", !.intent = intent, !.q = q, !.then = then])

Hear(t, m) ==
  /\ thread[t] = Idle
  /\ m \in Commands => m \in setup.topics
  /\ m = "pick" => setup.topics \cap Selections # {}
  /\ m = "row" => setup.topics \cap Reports # {}
  /\ Go(t, [Idle EXCEPT !.at = "session", !.msg = m])
  /\ Interrupts
  /\ UNCHANGED <<setup, event, events, shown, dialogue, stores>>

(* While a join is open it takes whatever the menus do not: first as the join  *)
(* code, then as the flat.                                                      *)
JoinReply(t) ==
  /\ join # 0
  /\ IF dialogue[join].step = "code"
     THEN Go(t, [thread[t] EXCEPT !.at = "code", !.q = join])
     ELSE Handle(t, "JOIN", join, "end join")
  /\ UNCHANGED <<dialogue, finance>>

(* The code is looked up; a valid one is saved, with the flat asked next. *)
CodeChecked(t) ==
  /\ thread[t].at = "code"
  /\ \/ UNCHANGED <<dialogue, join>>
     \/ /\ thread[t].msg \in {"number", "words"}
        /\ dialogue' = [dialogue EXCEPT ![thread[t].q].step = "flat",
                                        ![thread[t].q].answered = {"code"}]
        /\ join' = thread[t].q
  /\ Go(t, Idle)
  /\ UNCHANGED <<setup, event, events, shown, finance, creation, pending, export, alone>>

(* The event is saved, but no handler of the menus takes the row again. *)
PickReply(t) ==
  /\ dialogue[finance].topic \in Selections /\ thread[t].msg = "pick"
  /\ dialogue' = [dialogue EXCEPT ![finance].step = "selected", ![finance].answered = {"event"}]
  /\ Go(t, Idle)
  /\ UNCHANGED finance

(* Variant: the word cancel is only known while an amount is asked. *)
CancelAmount(t) ==
  /\ thread[t].msg = "cancel" /\ dialogue[finance].topic = "PAY_CUSTOM"
  /\ finance' = 0
  /\ Go(t, Idle)
  /\ UNCHANGED dialogue

CancelReply(t) ==
  /\ thread[t].msg = "cancel"
  /\ finance' = 0
  /\ Go(t, Idle)
  /\ UNCHANGED dialogue

Digits(m) == m = "number"

(* Does the finance question take this message as its answer? *)
TakesAnswer(m) ==
  /\ m # "cancel"
  /\ \/ dialogue[finance].topic = "PAY_CUSTOM" /\ Digits(m)
     \/ dialogue[finance].topic \in {"REFUND_REQUEST", "ADD_PASS_COUNTS"}

FinanceAnswer(t) ==
  /\ TakesAnswer(thread[t].msg)
  /\ \/ /\ dialogue[finance].topic = "PAY_CUSTOM"
        /\ Handle(t, "PAY", finance, "end finance")
     \/ /\ dialogue[finance].topic = "REFUND_REQUEST"
        /\ \E intent \in {"REFUND", "unknown"} : Handle(t, intent, finance, "end finance")
     \/ /\ dialogue[finance].topic = "ADD_PASS_COUNTS"
        /\ Handle(t, "ADD_PASS", finance, "end if done") \/ Go(t, Idle)
  /\ UNCHANGED <<dialogue, finance>>

FinanceReply(t) ==
  /\ join = 0 /\ finance # 0
  /\ PickReply(t) \/ CancelReply(t) \/ FinanceAnswer(t)

(* What no session takes goes to the shared handler as it is. *)
PassOn(t) ==
  /\ join = 0
  /\ finance # 0 =>
       /\ ~(dialogue[finance].topic \in Selections /\ thread[t].msg = "pick")
       /\ thread[t].msg # "cancel"
       /\ ~TakesAnswer(thread[t].msg)
  /\ Handle(t, IF thread[t].msg \in Commands THEN thread[t].msg
               ELSE IF thread[t].msg = "row" THEN "EXPORT_SELECTION" ELSE "none", 0, "nothing")
  /\ UNCHANGED <<dialogue, finance>>

Session(t) ==
  /\ thread[t].at = "session"
  /\ JoinReply(t) \/ FinanceReply(t) \/ PassOn(t)
  /\ UNCHANGED <<setup, event, events, shown, join, creation, pending, export, alone>>

(* Digits select a report while a report selection is open; other replies of a *)
(* committee member go to the event being set up, then to the pending action.   *)
Resolved(t) ==
  IF thread[t].intent # "none" THEN thread[t].intent
  ELSE IF Digits(thread[t].msg) /\ export THEN "EXPORT_SELECTION"
  ELSE IF Committee /\ creation # 0 THEN "ADD_EVENT"
  ELSE IF Committee /\ pending # 0 THEN "COMMITTEE_PENDING_ACTION"
  ELSE "unknown"

(* The question a message answered ends with it, or only with a success. *)
Finished(t, done) ==
  IF \/ thread[t].then \in {"end join", "end finance"}
     \/ thread[t].then = "end if done" /\ done
  THEN [thread[t] EXCEPT !.at = "after"] ELSE Idle

(* Nothing is carried out. *)
Refuse(t) ==
  /\ \/ Refuses(Resolved(t), event)
     \/ Resolved(t) = "unknown"
     \/ ~Committee /\ thread[t].intent \in Commands
     \/ Resolved(t) = "ADD_EVENT" /\ setup.role \notin RolesFor("ADD_EVENT")
  /\ Go(t, Finished(t, FALSE))
  /\ UNCHANGED <<event, events, dialogue, stores>>

Serve(t) ==
  /\ Resolved(t) \in {"JOIN", "ADD_PASS", "PAY", "REFUND", "EXPORT_SELECTION"}
  /\ Go(t, [thread[t] EXCEPT !.at = "service", !.intent = Resolved(t)])
  /\ UNCHANGED <<dialogue, stores>>

(* The reports are asked for, or one about an event while none is in progress. *)
Asks(t) ==
  \/ thread[t].intent = "REPORT_OPTIONS"
  \/ thread[t].intent = "SUMMARY" /\ event \notin InProgress

(* Another page, or the event the reports are about, of a row no other         *)
(* dialogue has taken.                                                          *)
Turns(t) == thread[t].intent = "EXPORT_SELECTION" /\ thread[t].msg = "row"

(* A list is sent and the selection is saved, each time again. *)
OpenReports(t) ==
  /\ Committee /\ (Asks(t) \/ Turns(t))
  /\ export' = TRUE
  /\ Go(t, Idle)
  /\ UNCHANGED <<dialogue, join, finance, creation, pending>>

(* The summary of an event in progress is sent at once. *)
Summarise(t) ==
  /\ Committee /\ thread[t].intent = "SUMMARY" /\ event \in InProgress
  /\ Go(t, Idle)
  /\ UNCHANGED <<dialogue, stores>>

NeedsEvent(topic) == topic \notin Announcements \cup {"REFUND_SPONSOR"}

(* The first argument that is missing is asked for; it may be any of them. *)
StepSet(topic) == {StepsOf(topic)[i] : i \in DOMAIN StepsOf(topic)}

(* Variant: the arguments are forgotten. *)
ResumedBlank(topic, step) == NewDialogue(topic, step, {})

(* A dialogue that starts after the steps the command's arguments answered. *)
Resumed(topic, step) == NewDialogue(topic, step, Before(topic, step))

(* A command that opens a dialogue drops the one pending, even when the role   *)
(* or the event does not allow it; its arguments may answer the first steps.    *)
StartPending(t) ==
  LET topic == thread[t].intent
  IN  /\ Committee /\ topic \in PendingTopics
      /\ \/ /\ setup.role \in RolesFor(topic) /\ MayAsk(topic)
            /\ event = "none" => ~NeedsEvent(topic)
            /\ \E step \in StepSet(topic) :
                 dialogue' = Append(dialogue, Resumed(topic, step))
            /\ pending' = Asked + 1
         \/ /\ pending' = 0
            /\ UNCHANGED dialogue
      /\ Go(t, Idle)
      /\ UNCHANGED <<join, finance, creation, export>>

(* With all fields given the event is made at once; a form with errors changes *)
(* nothing.                                                                     *)
StartEvent(t) ==
  /\ Committee /\ thread[t].intent = "ADD_EVENT"
  /\ setup.role \in RolesFor("ADD_EVENT")
  /\ \/ /\ MayAsk("ADD_EVENT")
        /\ Ask("ADD_EVENT") /\ creation' = Asked + 1
        /\ UNCHANGED <<event, events>>
     \/ /\ events < MaxEvents
        /\ event' = "DRAFT" /\ events' = events + 1
        /\ creation' = 0
        /\ UNCHANGED dialogue
     \/ UNCHANGED <<event, events, dialogue, creation>>
  /\ Go(t, Idle)
  /\ UNCHANGED <<join, finance, pending, export>>

(* The thread goes on with the dialogue it found and with the step it is at. *)
Look(t, q) ==
  Go(t, [thread[t] EXCEPT !.at = "reply", !.intent = Resolved(t), !.q = q,
                          !.step = dialogue[q].step])

ContinueEvent(t) ==
  /\ thread[t].intent # "ADD_EVENT" /\ Resolved(t) = "ADD_EVENT"
  /\ setup.role \in RolesFor("ADD_EVENT")
  /\ Look(t, creation)
  /\ UNCHANGED <<dialogue, stores>>

ContinuePending(t) ==
  /\ Resolved(t) = "COMMITTEE_PENDING_ACTION"
  /\ IF \/ thread[t].msg = "cancel"
        \/ event = "none" /\ dialogue[pending].topic \notin Announcements
     THEN Go(t, Idle) /\ pending' = 0
     ELSE Look(t, pending) /\ UNCHANGED pending
  /\ UNCHANGED <<dialogue, join, finance, creation, export>>

Dispatch(t) ==
  /\ thread[t].at = "handler"
  /\ \/ Refuse(t)
     \/ /\ ~Refuses(Resolved(t), event)
        /\ \/ StartEvent(t)
           \/ /\ Serve(t) \/ OpenReports(t) \/ Summarise(t) \/ StartPending(t)
                 \/ ContinueEvent(t) \/ ContinuePending(t)
              /\ UNCHANGED <<event, events>>
  /\ UNCHANGED <<setup, shown, alone>>

-------------------------------------------------------------------------------
(* Answers of the committee's dialogues *)

Last(topic) == IF topic = "REFUND_SPONSOR" THEN "reason"
               ELSE StepsOf(topic)[Len(StepsOf(topic))]
After(topic, step) == StepsOf(topic)[Position(topic, step) + 1]

(* Does the step take the message?  Both outcomes where it depends on the text. *)
Accepts(step, m) ==
  CASE step \in {"amount", "charge_per_adult", "charge_per_child"} -> {Digits(m)}
    [] step \in {"event_date", "sponsor_type", "payment_deadline"} -> {FALSE, m = "words"}
    [] step = "amount_or_details" -> {TRUE, Digits(m)}
    [] OTHER -> {TRUE}

(* Carried out, up to twice, with or without all the answers. *)
Carried(q, given) ==
  [dialogue[q] EXCEPT !.carried = IF @ < 2 THEN @ + 1 ELSE @,
                      !.complete = @ /\ Before(dialogue[q].topic, Last(dialogue[q].topic)) \subseteq given]

Reject(t) ==
  /\ FALSE \in Accepts(thread[t].step, thread[t].msg)
  /\ Go(t, Idle)
  /\ UNCHANGED <<events, event, dialogue, stores>>

(* Variant: one step too far. *)
NextStepFar(q, step) ==
  IF dialogue[q].topic = "ADD_EVENT" /\ dialogue[q].step # Last("ADD_EVENT")
  THEN Last("ADD_EVENT")
  ELSE After(dialogue[q].topic, step)

(* A pending action names the step that follows; the event's set-up takes the  *)
(* one after the step the dialogue has reached by now.                          *)
NextStep(q, step) ==
  IF dialogue[q].topic = "ADD_EVENT" THEN After("ADD_EVENT", dialogue[q].step)
                                     ELSE After(dialogue[q].topic, step)

(* The answer is kept, the step moved on and the dialogue saved again. *)
Advance(t) ==
  LET q == thread[t].q
  IN  /\ TRUE \in Accepts(thread[t].step, thread[t].msg)
      /\ thread[t].step \notin {Last(dialogue[q].topic), "override_reason"}
      /\ IF dialogue[q].topic = "ADD_EVENT" /\ dialogue[q].step = Last("ADD_EVENT")
         THEN /\ creation' = 0
              /\ UNCHANGED <<dialogue, pending>>
         ELSE /\ dialogue' = [dialogue EXCEPT ![q].answered = @ \cup {thread[t].step},
                                              ![q].step = NextStep(q, thread[t].step)]
              /\ IF dialogue[q].topic = "ADD_EVENT"
                 THEN creation' = q /\ UNCHANGED pending
                 ELSE pending' = q /\ UNCHANGED creation
      /\ Go(t, Idle)
      /\ UNCHANGED <<events, event, join, finance, export>>

(* Most actions are dropped from the dictionary before the service is called. *)
DropAndServe(t) ==
  LET q == thread[t].q
  IN  /\ TRUE \in Accepts(thread[t].step, thread[t].msg)
      /\ dialogue[q].topic \notin {"ADD_EVENT", "REFUND_SPONSOR"}
      /\ thread[t].step = Last(dialogue[q].topic)
      /\ pending' = 0
      /\ \/ dialogue' = [dialogue EXCEPT ![q] = Carried(q, dialogue[q].answered)]
         \/ UNCHANGED dialogue
      /\ Go(t, Idle)
      /\ UNCHANGED <<events, event, join, finance, creation, export>>

(* An event, and a sponsor's refund, are committed first. *)
ServeFirst(t) ==
  LET q == thread[t].q
      then == [thread[t] EXCEPT !.at = "served"]
  IN  /\ TRUE \in Accepts(thread[t].step, thread[t].msg)
      /\ dialogue[q].topic \in {"ADD_EVENT", "REFUND_SPONSOR"}
      /\ thread[t].step \in {Last(dialogue[q].topic), "override_reason"}
      /\ \/ /\ dialogue[q].topic = "ADD_EVENT" => events < MaxEvents
            /\ dialogue' = [dialogue EXCEPT ![q] = Carried(q, dialogue[q].answered)]
            /\ IF dialogue[q].topic = "ADD_EVENT"
               THEN event' = "DRAFT" /\ events' = events + 1
               ELSE UNCHANGED <<event, events>>
            /\ Go(t, [then EXCEPT !.then = "done"])
         \/ /\ UNCHANGED <<event, events, dialogue>>
            /\ \/ Go(t, [then EXCEPT !.then = "failed"])
               \/ thread[t].step = "reason" /\ Go(t, [then EXCEPT !.then = "needs override"])
      /\ UNCHANGED stores

Reply(t) ==
  /\ thread[t].at = "reply"
  /\ Reject(t) \/ Advance(t) \/ DropAndServe(t) \/ ServeFirst(t)
  /\ UNCHANGED <<setup, shown, alone>>

(* The dialogue ends with success; a refund that needs an override asks for    *)
(* the reason; a failure ends a first attempt only.                             *)
Served(t) ==
  LET q == thread[t].q
      keeps == thread[t].then = "failed" /\ thread[t].step # "reason"
  IN  /\ thread[t].at = "served"
      /\ IF dialogue[q].topic = "ADD_EVENT"
         THEN /\ creation' = IF keeps THEN creation ELSE 0
              /\ UNCHANGED <<dialogue, pending>>
         ELSE /\ UNCHANGED creation
              /\ IF thread[t].then = "needs override"
                 THEN /\ dialogue' = [dialogue EXCEPT ![q].answered = @ \cup {"reason"},
                                                      ![q].step = "override_reason"]
                      /\ pending' = q
                 ELSE /\ pending' = IF keeps THEN pending ELSE 0
                      /\ UNCHANGED dialogue
      /\ Go(t, Idle)
      /\ UNCHANGED <<setup, event, events, shown, join, finance, export, alone>>

-------------------------------------------------------------------------------
(* Services called for a member, or for a report *)

(* A report that was sent ends the selection; another request is carried out,  *)
(* or refused by its service.                                                   *)
Service(t) ==
  /\ thread[t].at = "service"
  /\ IF thread[t].intent = "EXPORT_SELECTION"
     THEN /\ export' \in {FALSE, export}
          /\ Go(t, Idle)
          /\ UNCHANGED dialogue
     ELSE /\ \/ /\ dialogue' = [dialogue EXCEPT ![thread[t].q] = Carried(thread[t].q, dialogue[thread[t].q].answered)]
                /\ Go(t, Finished(t, TRUE))
             \/ /\ Go(t, Finished(t, FALSE))
                /\ UNCHANGED dialogue
          /\ UNCHANGED export
  /\ UNCHANGED <<setup, event, events, shown, join, finance, creation, pending, alone>>

(* Variant: the question stays open until the request succeeds. *)
EndKept(t) ==
  /\ thread[t].at = "after"
  /\ Go(t, Idle)
  /\ UNCHANGED <<setup, event, events, shown, dialogue, stores, alone>>

(* Whatever the dictionary holds by now is dropped. *)
End(t) ==
  /\ thread[t].at = "after"
  /\ IF thread[t].then = "end join" THEN join' = 0 /\ UNCHANGED finance
                                    ELSE finance' = 0 /\ UNCHANGED join
  /\ Go(t, Idle)
  /\ UNCHANGED <<setup, event, events, shown, dialogue, creation, pending, export, alone>>

-------------------------------------------------------------------------------
(* Other members and the automatic closing move the event on, and the process  *)
(* may restart: what is in memory is gone.                                      *)
EventMoves ==
  /\ \/ /\ event \notin {"none", "CLOSED"}
        /\ event' = [DRAFT |-> "ACTIVE", ACTIVE |-> "LOCKED", LOCKED |-> "EVENT_DAY",
                      EVENT_DAY |-> "CLOSED"][event]
        /\ UNCHANGED events
     \/ /\ event \in {"none", "DRAFT"} /\ events < MaxEvents
        /\ event' = "DRAFT" /\ events' = events + 1
  /\ UNCHANGED <<setup, shown, dialogue, stores, thread, alone>>

Restart ==
  /\ join' = 0 /\ finance' = 0 /\ creation' = 0 /\ pending' = 0 /\ export' = FALSE
  /\ thread' = [t \in Threads |-> Idle]
  /\ UNCHANGED <<setup, event, events, shown, dialogue, alone>>

Work(t) == \/ Session(t) \/ CodeChecked(t) \/ Dispatch(t) \/ Reply(t)
           \/ Served(t) \/ Service(t) \/ End(t)

Next ==
  \/ Browse \/ Tap \/ EventMoves \/ Restart
  \/ \E t \in Threads : Work(t) \/ \E m \in Messages : Hear(t, m)

Spec == Init /\ [][Next]_vars

(* A thread goes on by itself.  A sender who wants to get out of a dialogue    *)
(* goes on answering: with a valid join code and a flat while a join is open,   *)
(* with cancel otherwise.                                                       *)
FairSpec ==
  /\ Spec
  /\ \A t \in Threads : WF_vars(Work(t))
  /\ SF_vars(\E t \in Threads : CodeChecked(t) /\ dialogue' # dialogue)
  /\ SF_vars(\E t \in Threads : Hear(t, "words") /\ join # 0)
  /\ SF_vars(\E t \in Threads : Hear(t, "cancel") /\ join = 0)

-------------------------------------------------------------------------------
(* Properties *)

StepNames == UNION {StepSet(topic) : topic \in Topics}

ThreadState ==
  [at : {"idle", "session", "code", "handler", "service", "reply", "served", "after"},
   msg : Messages,
   intent : Commands \cup {"none", "unknown", "JOIN", "ADD_PASS", "PAY", "REFUND",
                           "EXPORT_SELECTION", "COMMITTEE_PENDING_ACTION"},
   then : {"nothing", "end join", "end finance", "end if done", "done", "failed", "needs override"},
   q : 0..MaxAsked,
   step : StepNames \cup {"none"}]

AskedIn(store, topics) == store = 0 \/ (store \in 1..Asked /\ dialogue[store].topic \in topics)

(* Every dictionary holds a dialogue of its own kind, at a step of its topic;  *)
(* a pending action has the answers of the steps before the one it asks.        *)
TypeOK ==
  /\ setup \in Setups
  /\ event \in EventStates \cup {"none"} /\ events \in 0..MaxEvents
  /\ shown \subseteq Topics
  /\ Asked <= MaxAsked
  /\ \A q \in 1..Asked :
       /\ dialogue[q].topic \in Topics
       /\ dialogue[q].step \in StepSet(dialogue[q].topic)
       /\ dialogue[q].answered \subseteq StepSet(dialogue[q].topic)
       /\ dialogue[q].carried \in 0..2 /\ dialogue[q].complete \in BOOLEAN
       /\ dialogue[q].topic \in PendingTopics =>
            Before(dialogue[q].topic, dialogue[q].step) \subseteq dialogue[q].answered
  /\ AskedIn(join, {"JOIN"}) /\ AskedIn(finance, FinanceTopics)
  /\ AskedIn(creation, {"ADD_EVENT"}) /\ AskedIn(pending, PendingTopics)
  /\ export \in BOOLEAN /\ alone \in BOOLEAN
  /\ thread \in [Threads -> ThreadState]

(* Of messages that do not overlap, one at most carries out what a dialogue    *)
(* asked for: nobody pays, joins or refunds a sponsor twice for one question.   *)
CarriedOnceWhenAlone == alone => \A q \in 1..Asked : dialogue[q].carried <= 1

(* ... and it is carried out with an answer to every question of the dialogue. *)
CompleteWhenAlone == alone => \A q \in 1..Asked : dialogue[q].complete

(* A member's dialogue does not last for ever when the sender goes on: it ends  *)
(* by an answer, by cancel, by a newer one or by a restart.                     *)
MemberDialoguesEnd ==
  \A q \in 1..MaxAsked : (q \in {join, finance}) ~> ~(q \in {join, finance})
===============================================================================
