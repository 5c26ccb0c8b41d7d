----------------------------- MODULE EventPayments -----------------------------
(***************************************************************************)
(* The member accounts of one event: food passes, the payment row of each  *)
(* flat, payment and refund requests, and refunds, as the services of      *)
(* app/modules/payments and app/modules/events/food_pass_service.py keep   *)
(* them in PostgreSQL under READ COMMITTED.                                *)
(*                                                                         *)
(* Every inbound message is handled on a database session of its own, and  *)
(* many are handled at once.  A session reads rows, keeps what it read in  *)
(* mapped objects, and writes at commit only the columns it changed from   *)
(* the values it loaded.  An action here is one read, one lock or one      *)
(* commit of a session: another session may run between any two of them.   *)
(* An exception, a failed commit and a killed process all end a session    *)
(* the same way: what it has not committed is rolled back, its locks fall. *)
(***************************************************************************)
EXTENDS Integers, SocietyRules

CONSTANTS Sessions,    \* database sessions that may be open at once
          Flats,       \* flats of the society
          Amounts,     \* amounts a payment or refund message may name
          Totals,      \* amounts the counts of a pass may come to
          RequestIds,  \* bound: rows payment_requests and refund_requests can get
          NoRequest,   \* the request of a job that has none
          Reached,     \* bound: the states the event moves between
          MaxReceipts  \* bound: a flat that has paid in this much pays no more

ASSUME ConstantsOK ==
  /\ Amounts \subseteq Nat \ {0}
  /\ Totals \subseteq Nat
  /\ NoRequest \notin RequestIds
  /\ Reached \subseteq EventStates
  /\ MaxReceipts \in Nat

VARIABLES
  state,     \* WorkflowState.current_state of the event
  pass,      \* pass[f]: the flat's row in event_food_passes
  rows,      \* rows[f]: how many rows of payments the flat has
  pay,       \* pay[f]: the columns of the flat's row in payments
  refunds,   \* refunds[f]: sum of the flat's rows in refunds
  requests,  \* requests[r]: row r of payment_requests or refund_requests
  pc,        \* pc[s]: where session s is
  job,       \* job[s]: what session s was asked to do
  seen,      \* seen[s]: the payment row as session s loaded it
  seenPass,  \* seenPass[s]: the pass row as session s loaded it
  receipts,  \* history: sum of the payments ever committed for the flat
  done       \* history: how often request r has been paid or refunded

tables == <<state, pass, rows, pay, refunds, requests>>
session == <<pc, job, seen, seenPass>>
history == <<receipts, done>>
vars == <<state, pass, rows, pay, refunds, requests,
          pc, job, seen, seenPass, receipts, done>>

-------------------------------------------------------------------------------
(* Rows and session states *)

Statuses == {"pending", "partial", "paid", "refunded"}

PassRow == [booked : BOOLEAN, total : Nat]
PaymentRow == [expected : Nat, paid : Nat, status : Statuses]
RequestRow == [status : {"requested", "approved"}, kind : {"PAY", "REFUND"},
               flat : Flats, amount : Amounts]

NoPass == [booked |-> FALSE, total |-> 0]
NoPayment == [expected |-> 0, paid |-> 0, status |-> "pending"]
NoRow == [status |-> "absent"]

(* A job books a pass, files a request (ASK) or moves money. *)
Job == [kind : {"BOOK", "ASK_PAY", "ASK_REFUND", "PAY", "REFUND"},
        flat : Flats, amount : Amounts \cup Totals,
        request : RequestIds \cup {NoRequest}]
NoJob == [kind |-> "NONE"]

(* The points where a session that refunds holds the FOR UPDATE lock. *)
HoldsLock == {"refundLocked", "refundSummed", "refundFlushed"}

Labels == HoldsLock \cup
          {"idle", "bookPass", "bookPayment", "bookWrite", "askWrite",
           "payPass", "payRead", "payWrite", "refundLock", "approveWrite"}

Locked(f) == \E s \in Sessions : pc[s] \in HoldsLock /\ job[s].flat = f

Goto(s, label) == pc' = [pc EXCEPT ![s] = label]

Open(s, label, work) ==
  /\ pc[s] = "idle"
  /\ Goto(s, label)
  /\ job' = [job EXCEPT ![s] = work]
  /\ UNCHANGED <<seen, seenPass, tables, history>>

(* Faulty variant: the session goes back to the pool with its job. *)
CloseKeepsJob(s) ==
  /\ Goto(s, "idle")
  /\ seen' = [seen EXCEPT ![s] = NoPayment]
  /\ seenPass' = [seenPass EXCEPT ![s] = NoPass]
  /\ UNCHANGED job

(* The session is closed and what it loaded is dropped with it. *)
Close(s) ==
  /\ Goto(s, "idle")
  /\ job' = [job EXCEPT ![s] = NoJob]
  /\ seen' = [seen EXCEPT ![s] = NoPayment]
  /\ seenPass' = [seenPass EXCEPT ![s] = NoPass]

Rollback(s) == Close(s) /\ UNCHANGED <<tables, history>>

(* A flush writes a column only when its value differs from the loaded one. *)
Flush(current, loaded, new) == IF new = loaded THEN current ELSE new

Init ==
  /\ state = "ACTIVE"
  /\ pass = [f \in Flats |-> NoPass]
  /\ rows = [f \in Flats |-> 0]
  /\ pay = [f \in Flats |-> NoPayment]
  /\ refunds = [f \in Flats |-> 0]
  /\ requests = [r \in RequestIds |-> NoRow]
  /\ pc = [s \in Sessions |-> "idle"]
  /\ job = [s \in Sessions |-> NoJob]
  /\ seen = [s \in Sessions |-> NoPayment]
  /\ seenPass = [s \in Sessions |-> NoPass]
  /\ receipts = [f \in Flats |-> 0]
  /\ done = [r \in RequestIds |-> 0]

-------------------------------------------------------------------------------
(* The event's state moves under the sessions: activate, lock, start, close, *)
(* each possible from every state by override.                               *)

Transition ==
  /\ state' \in Reached
  /\ UNCHANGED <<pass, rows, pay, refunds, requests, session, history>>

-------------------------------------------------------------------------------
(* FoodPassService.add_or_update_pass.  A resident passes no performer, so   *)
(* an override is open only to committee members, who always send a reason.  *)

BookBegin(s, f, total, role) ==
  /\ MayProceed(state, "ADD_PASS", role, role # NoRole)
  /\ Open(s, "bookPass",
          [kind |-> "BOOK", flat |-> f, amount |-> total,
           request |-> NoRequest])

BookReadPass(s) ==
  /\ pc[s] = "bookPass"
  /\ Goto(s, "bookPayment")
  /\ seenPass' = [seenPass EXCEPT ![s] = pass[job[s].flat]]
  /\ UNCHANGED <<job, seen, tables, history>>

(* A later statement, so it may see commits the pass read did not. *)
BookReadPayment(s) ==
  /\ pc[s] = "bookPayment"
  /\ Goto(s, "bookWrite")
  /\ seen' = [seen EXCEPT ![s] = pay[job[s].flat]]
  /\ UNCHANGED <<job, seenPass, tables, history>>

(* The status a booking gives the payment, from the amount it loaded as paid. *)
BookedStatus(paid, total) ==
  IF paid >= total THEN "paid" ELSE IF paid > 0 THEN "partial" ELSE "pending"

(* Faulty variant: no unique constraint on (event, flat). *)
BookInsertUnchecked(s) ==
  LET f == job[s].flat IN
  /\ pc[s] = "bookWrite"
  /\ ~seenPass[s].booked
  /\ pass' = [pass EXCEPT ![f] = [booked |-> TRUE, total |-> job[s].amount]]
  /\ rows' = [rows EXCEPT ![f] = @ + 1]
  /\ pay' = [pay EXCEPT ![f].expected = job[s].amount]
  /\ Close(s)
  /\ UNCHANGED <<state, refunds, requests, history>>

(* No pass was seen: pass and payment row are inserted together.  The unique  *)
(* constraint on (event, flat) fails the commit when a pass is there by now.  *)
BookInsert(s) ==
  LET f == job[s].flat IN
  /\ pc[s] = "bookWrite"
  /\ ~seenPass[s].booked
  /\ ~pass[f].booked
  /\ pass' = [pass EXCEPT ![f] = [booked |-> TRUE, total |-> job[s].amount]]
  /\ rows' = [rows EXCEPT ![f] = @ + 1]
  /\ pay' = [pay EXCEPT ![f].expected = job[s].amount]
  /\ Close(s)
  /\ UNCHANGED <<state, refunds, requests, history>>

BookInsertConflict(s) ==
  /\ pc[s] = "bookWrite"
  /\ ~seenPass[s].booked
  /\ pass[job[s].flat].booked
  /\ Rollback(s)

(* A pass was seen: both rows are updated, column by column. *)
BookUpdate(s) ==
  LET f == job[s].flat
      total == job[s].amount
      status == BookedStatus(seen[s].paid, total)
  IN
  /\ pc[s] = "bookWrite"
  /\ seenPass[s].booked
  /\ total # seen[s].expected \/ status # seen[s].status => ~Locked(f)
  /\ pass' = [pass EXCEPT ![f].total = Flush(@, seenPass[s].total, total)]
  /\ pay' = [pay EXCEPT ![f].expected = Flush(@, seen[s].expected, total),
                        ![f].status = Flush(@, seen[s].status, status)]
  /\ Close(s)
  /\ UNCHANGED <<state, rows, refunds, requests, history>>

-------------------------------------------------------------------------------
(* Requests of residents: PaymentRequestService.request_payment and           *)
(* RefundRequestService.request_refund.  A resident passes no performer, so   *)
(* no override is possible.  A request like one still pending is not filed    *)
(* again: the pending one is returned.                                        *)

Pending(kind, f, amount) ==
  {r \in RequestIds : requests[r] = [status |-> "requested", kind |-> kind,
                                     flat |-> f, amount |-> amount]}

Unused(r) == /\ requests[r] = NoRow
             /\ \A t \in Sessions : pc[t] = "askWrite" => job[t].request # r

AskPayment(s, f, amount, r) ==
  /\ Unused(r)
  /\ Allows(state, "REQUEST_PAYMENT")
  /\ pass[f].booked
  /\ Pending("PAY", f, amount) = {}
  /\ Open(s, "askWrite", [kind |-> "ASK_PAY", flat |-> f, amount |-> amount,
                          request |-> r])

AskRefund(s, f, amount, r) ==
  /\ Unused(r)
  /\ Allows(state, "REQUEST_REFUND")
  /\ rows[f] > 0
  /\ pay[f].paid > 0
  /\ Pending("REFUND", f, amount) = {}
  /\ Open(s, "askWrite", [kind |-> "ASK_REFUND", flat |-> f,
                          amount |-> amount, request |-> r])

AskCommit(s) ==
  /\ pc[s] = "askWrite"
  /\ requests' = [requests EXCEPT ![job[s].request] =
                    [status |-> "requested",
                     kind |-> IF job[s].kind = "ASK_PAY" THEN "PAY" ELSE "REFUND",
                     flat |-> job[s].flat,
                     amount |-> job[s].amount]]
  /\ Close(s)
  /\ UNCHANGED <<state, pass, rows, pay, refunds, history>>

-------------------------------------------------------------------------------
(* Money is moved for a request that was still pending when it was loaded, or *)
(* directly when the event's state asks for no request.  "approve payment" is *)
(* gated by the state of the event, "pay" and "refund" of a committee member  *)
(* with a pending request like it are not.  require_committee_action lets in  *)
(* only roles that may also override, and every caller gives a reason, so the *)
(* workflow check that follows never refuses: it only decides whether the     *)
(* audit row says override.                                                   *)

Approvable(kind, r) ==
  /\ requests[r] # NoRow
  /\ requests[r].status = "requested"
  /\ requests[r].kind = kind

RequestFirst(kind) ==
  Allows(state, IF kind = "PAY" THEN "REQUEST_PAYMENT" ELSE "REQUEST_REFUND")

(* The workflow action that moves the money. *)
MoneyAction(kind) == IF kind = "PAY" THEN "MARK_PAID" ELSE "REQUEST_REFUND"

MoveMoney(s, kind, f, amount, r, role) ==
  /\ role \in ROLE_ACTIONS[kind]
  /\ kind = "PAY" => receipts[f] < MaxReceipts
  /\ MayProceed(state, MoneyAction(kind), role, TRUE)
  /\ Open(s, IF kind = "PAY" THEN "payPass" ELSE "refundLock",
          [kind |-> kind, flat |-> f, amount |-> amount, request |-> r])

ApproveRequest(s, kind, r, role) ==
  /\ Approvable(kind, r)
  /\ MoveMoney(s, kind, requests[r].flat, requests[r].amount, r, role)

MoveDirectly(s, kind, f, amount, role) ==
  /\ Pending(kind, f, amount) = {}
  /\ ~RequestFirst(kind)
  /\ MoveMoney(s, kind, f, amount, NoRequest, role)

(* After the money's commit the request is marked in a second transaction,    *)
(* whatever its status has become.                                            *)
MoneyMoved(s) ==
  LET r == job[s].request IN
  IF r = NoRequest
  THEN Close(s) /\ UNCHANGED done
  ELSE /\ Goto(s, "approveWrite")
       /\ done' = [done EXCEPT ![r] = @ + 1]
       /\ UNCHANGED <<job, seen, seenPass>>

ApproveCommit(s) ==
  /\ pc[s] = "approveWrite"
  /\ requests' = [requests EXCEPT ![job[s].request].status = "approved"]
  /\ Close(s)
  /\ UNCHANGED <<state, pass, rows, pay, refunds, history>>

-------------------------------------------------------------------------------
(* PaymentService.record_payment: no row is locked; the new amount is the     *)
(* loaded one plus the payment.                                               *)

PayReadPass(s) ==
  LET f == job[s].flat IN
  /\ pc[s] = "payPass"
  /\ \/ /\ pass[f].booked
        /\ Goto(s, "payRead")
        /\ seenPass' = [seenPass EXCEPT ![s] = pass[f]]
        /\ UNCHANGED <<job, seen, tables, history>>
     \/ ~pass[f].booked /\ Rollback(s)

PayRead(s) ==
  /\ pc[s] = "payRead"
  /\ Goto(s, "payWrite")
  /\ seen' = [seen EXCEPT ![s] = pay[job[s].flat]]
  /\ UNCHANGED <<job, seenPass, tables, history>>

(* Faulty variant: a payment marks the whole total of the pass as paid. *)
PayCommitInFull(s) ==
  LET f == job[s].flat IN
  /\ pc[s] = "payWrite"
  /\ ~Locked(f)
  /\ pay' = [pay EXCEPT ![f].paid = seenPass[s].total, ![f].status = "paid"]
  /\ receipts' = [receipts EXCEPT ![f] = @ + job[s].amount]
  /\ MoneyMoved(s)
  /\ UNCHANGED <<state, pass, rows, refunds, requests>>

PayCommit(s) ==
  LET f == job[s].flat
      paid == seen[s].paid + job[s].amount
      status == IF paid >= seenPass[s].total THEN "paid" ELSE "partial"
  IN
  /\ pc[s] = "payWrite"
  /\ ~Locked(f)
  /\ pay' = [pay EXCEPT ![f].paid = paid,
                        ![f].status = Flush(@, seen[s].status, status)]
  /\ receipts' = [receipts EXCEPT ![f] = @ + job[s].amount]
  /\ MoneyMoved(s)
  /\ UNCHANGED <<state, pass, rows, refunds, requests>>

-------------------------------------------------------------------------------
(* RefundService.process_refund: the payment row is locked, the refunds are   *)
(* summed before the insert and once more after it.                           *)

(* Faulty variant: the payment row is read without FOR UPDATE. *)
RefundReadUnlocked(s) ==
  LET f == job[s].flat IN
  /\ pc[s] = "refundLock"
  /\ \/ /\ rows[f] > 0 /\ pay[f].paid > 0
        /\ Goto(s, "refundLocked")
        /\ seen' = [seen EXCEPT ![s] = pay[f]]
        /\ UNCHANGED <<job, seenPass, tables, history>>
     \/ ~(rows[f] > 0 /\ pay[f].paid > 0) /\ Rollback(s)

RefundLock(s) ==
  LET f == job[s].flat IN
  /\ pc[s] = "refundLock"
  /\ ~Locked(f)
  /\ \/ /\ rows[f] > 0 /\ pay[f].paid > 0
        /\ Goto(s, "refundLocked")
        /\ seen' = [seen EXCEPT ![s] = pay[f]]
        /\ UNCHANGED <<job, seenPass, tables, history>>
     \/ ~(rows[f] > 0 /\ pay[f].paid > 0) /\ Rollback(s)

(* Faulty variant: the refund is compared with the paid amount on its own. *)
RefundCheckAlone(s, here, next) ==
  LET fits == job[s].amount <= seen[s].paid IN
  /\ pc[s] = here
  /\ \/ fits /\ Goto(s, next) /\ UNCHANGED <<job, seen, seenPass, tables, history>>
     \/ ~fits /\ Rollback(s)

(* Faulty variant: a refund that does not fit still approves its request. *)
RefundCheckIgnored(s, here, next) ==
  LET fits == refunds[job[s].flat] + job[s].amount <= seen[s].paid
      after == IF fits THEN next ELSE "approveWrite"
  IN
  /\ pc[s] = here
  /\ fits \/ job[s].request # NoRequest
  /\ Goto(s, after)
  /\ UNCHANGED <<job, seen, seenPass, tables, history>>

(* Faulty variant: a refund that does not fit leaves its transaction open. *)
RefundCheckLeaks(s, here, next) ==
  /\ pc[s] = here
  /\ refunds[job[s].flat] + job[s].amount <= seen[s].paid
  /\ Goto(s, next)
  /\ UNCHANGED <<job, seen, seenPass, tables, history>>

(* One of the two checks of the sum, and where the session goes from it. *)
RefundCheck(s, here, next) ==
  LET fits == refunds[job[s].flat] + job[s].amount <= seen[s].paid IN
  /\ pc[s] = here
  /\ \/ /\ fits
        /\ Goto(s, next)
        /\ UNCHANGED <<job, seen, seenPass, tables, history>>
     \/ ~fits /\ Rollback(s)

RefundSum(s) == RefundCheck(s, "refundLocked", "refundSummed")

RefundFlush(s) == RefundCheck(s, "refundSummed", "refundFlushed")

RefundCommit(s) ==
  LET f == job[s].flat IN
  /\ pc[s] = "refundFlushed"
  /\ refunds' = [refunds EXCEPT ![f] = @ + job[s].amount]
  /\ pay' = [pay EXCEPT ![f].status = "refunded"]
  /\ MoneyMoved(s)
  /\ UNCHANGED <<state, pass, rows, requests, receipts>>

-------------------------------------------------------------------------------
(* A session fails or its process is killed; what it had committed stays. *)
Abort(s) == pc[s] # "idle" /\ Rollback(s)

Begin(s) ==
  \/ \E f \in Flats, total \in Totals, role \in Roles \cup {NoRole} :
       BookBegin(s, f, total, role)
  \/ \E f \in Flats, amount \in Amounts :
       \/ \E r \in RequestIds : AskPayment(s, f, amount, r)
       \/ \E r \in RequestIds : AskRefund(s, f, amount, r)
       \/ \E kind \in {"PAY", "REFUND"}, role \in Roles :
            MoveDirectly(s, kind, f, amount, role)
  \/ \E kind \in {"PAY", "REFUND"}, r \in RequestIds, role \in Roles :
       ApproveRequest(s, kind, r, role)

(* The steps of a handler that wait for nobody ... *)
Run(s) ==
  \/ BookReadPass(s) \/ BookReadPayment(s)
  \/ BookInsert(s) \/ BookInsertConflict(s)
  \/ AskCommit(s) \/ PayReadPass(s) \/ PayRead(s)
  \/ RefundSum(s) \/ RefundFlush(s) \/ RefundCommit(s) \/ ApproveCommit(s)

(* ... and those that may wait for the row lock. *)
Acquire(s) == BookUpdate(s) \/ PayCommit(s) \/ RefundLock(s)

Next ==
  \/ Transition
  \/ \E s \in Sessions : Begin(s) \/ Run(s) \/ Acquire(s) \/ Abort(s)

Spec == Init /\ [][Next]_vars

(* A handler's thread keeps running, and PostgreSQL serves the waiters of a   *)
(* row lock in turn; nothing makes a message arrive or a process fail.        *)
FairSpec == /\ Spec
            /\ \A s \in Sessions : WF_vars(Run(s)) /\ SF_vars(Acquire(s))

-------------------------------------------------------------------------------
(* Properties *)

TablesOK ==
  /\ state \in EventStates
  /\ pass \in [Flats -> PassRow]
  /\ rows \in [Flats -> Nat]
  /\ pay \in [Flats -> PaymentRow]
  /\ refunds \in [Flats -> Nat]
  /\ requests \in [RequestIds -> RequestRow \cup {NoRow}]
  /\ receipts \in [Flats -> Nat]
  /\ done \in [RequestIds -> Nat]

SessionsOK ==
  /\ pc \in [Sessions -> Labels]
  /\ job \in [Sessions -> Job \cup {NoJob}]
  /\ seen \in [Sessions -> PaymentRow]
  /\ seenPass \in [Sessions -> PassRow]
  /\ \A s \in Sessions : pc[s] = "idle" <=> job[s] = NoJob

(* Rows and session copies have their columns' values, and a session has a    *)
(* job from the message it opens with until it closes, never past it.         *)
TypeOK == TablesOK /\ SessionsOK

(* A flat has one payment row from its first booking on and none before:      *)
(* payments has no unique constraint, it is the one on food passes, and the   *)
(* common transaction of both inserts, that keeps two first bookings of a     *)
(* flat from leaving two accounts behind.                                     *)
OneAccountPerPass ==
  \A f \in Flats : rows[f] = IF pass[f].booked THEN 1 ELSE 0

(* However payments, bookings and refunds interleave, the account never shows *)
(* more than was paid in: stale reads of record_payment may lose money of the *)
(* resident, they never invent any.                                           *)
PaidNeverExceedsReceipts == \A f \in Flats : pay[f].paid <= receipts[f]

(* No more money leaves a flat's account than ever came in, approvals that    *)
(* run twice and payments that overwrite one another included.                *)
RefundedNeverExceedsReceipts == \A f \in Flats : refunds[f] <= receipts[f]

(* The promise of the two services to a flat: only a payment changes what the *)
(* account shows, and a refund commits only while the account still covers    *)
(* all refunds with it - what was checked under the lock is what is there at  *)
(* the commit.                                                                *)
Account == INSTANCE FlatAccount
             WITH received <- receipts,
                  shown <- [f \in Flats |-> pay[f].paid],
                  returned <- refunds

ImplementsFlatAccount == Account!Spec

(* A request shown as approved has had its money moved, whatever crash came   *)
(* between the two transactions of the approval.                              *)
ApprovedIsSettled ==
  \A r \in RequestIds : requests[r].status = "approved" => done[r] > 0

(* Every handler comes to an end: no session waits for a row lock forever.    *)
HandlersEnd == \A s \in Sessions : pc[s] # "idle" ~> pc[s] = "idle"

(* The status test of approve_request, "is no longer pending", read as what   *)
(* it is for: a payment request is recorded as a payment at most once.        *)
RequestPaidOnce ==
  \A r \in RequestIds :
     requests[r] # NoRow /\ requests[r].kind = "PAY" => done[r] <= 1

(* The guard of process_refund, "Refund amount exceeds paid amount", read as  *)
(* a fact about the account: refunds stay within what it shows as paid.       *)
RefundsWithinPaid == \A f \in Flats : refunds[f] <= pay[f].paid
===============================================================================
