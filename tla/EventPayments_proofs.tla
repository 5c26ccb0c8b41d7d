------------------------- MODULE EventPayments_proofs -------------------------
(***************************************************************************)
(* Theorems about EventPayments for every set of sessions, flats, amounts, *)
(* pass totals and requests.                                               *)
(*                                                                         *)
(* TypeOK is not inductive: a step reads job[s] and requests[r], and what  *)
(* it finds there depends on where the session is.  JobShape says what.    *)
(* The safety properties rest on what a session knows between its steps:   *)
(* the lock holder's copy of the paid amount is current (HolderIsCurrent), *)
(* no two sessions hold a flat's lock (OneHolder), the sum a refund has    *)
(* checked still holds (SumStillFits), and the stale copy of a payment in  *)
(* progress is of an amount that was really received (CopyWasReceived).    *)
(***************************************************************************)
EXTENDS EventPayments, TLAPS

MoneyLabels == HoldsLock \cup {"payPass", "payRead", "payWrite", "refundLock"}

BookLabels == {"bookPass", "bookPayment", "bookWrite"}

JobShape ==
  \A s \in Sessions :
    /\ pc[s] = "askWrite" =>
         job[s].amount \in Amounts /\ job[s].request \in RequestIds
    /\ pc[s] \in MoneyLabels \cup {"approveWrite"} =>
         /\ job[s].request # NoRequest => requests[job[s].request] # NoRow
         /\ job[s].amount \in Amounts
    /\ pc[s] = "approveWrite" => job[s].request # NoRequest

OneHolder ==
  \A s, t \in Sessions :
    /\ pc[s] \in HoldsLock
    /\ pc[t] \in HoldsLock
    /\ job[s].flat = job[t].flat
    => s = t

HolderIsCurrent ==
  \A s \in Sessions :
    pc[s] \in HoldsLock => seen[s].paid = pay[job[s].flat].paid

SumStillFits ==
  \A s \in Sessions :
    pc[s] \in {"refundSummed", "refundFlushed"} =>
      refunds[job[s].flat] + job[s].amount <= seen[s].paid

CopyWasReceived ==
  \A s \in Sessions :
    pc[s] = "payWrite" => seen[s].paid <= receipts[job[s].flat]

ApprovalIsSettled ==
  \A s \in Sessions : pc[s] = "approveWrite" => done[job[s].request] > 0

TypeInv == TypeOK /\ JobShape

LockInv == OneHolder /\ HolderIsCurrent /\ SumStillFits

MoneyInv ==
  CopyWasReceived /\ PaidNeverExceedsReceipts /\ RefundedNeverExceedsReceipts

SettledInv == ApprovalIsSettled /\ ApprovedIsSettled

IInv == TypeInv /\ OneAccountPerPass /\ LockInv /\ MoneyInv /\ SettledInv

-------------------------------------------------------------------------------
(* The types of the variables and the shapes of the jobs *)

(* The empty database and idle sessions have their types.                     *)
LEMMA InitType == Init => TypeInv
BY ConstantsOK DEF Init, TypeInv, TypeOK, TablesOK, SessionsOK, JobShape, PassRow,
   PaymentRow, NoPass, NoPayment, NoRow, NoJob, Labels, HoldsLock, MoneyLabels,
   EventStates, Statuses

(* What a session's job may be once it is under way. *)
LEMMA JobTyped ==
  ASSUME TypeInv, NEW s \in Sessions, pc[s] # "idle"
  PROVE  /\ job[s] \in Job
         /\ job[s].flat \in Flats
         /\ job[s].amount \in Nat
         /\ job[s].request \in RequestIds \cup {NoRequest}
BY ConstantsOK DEF TypeInv, TypeOK, SessionsOK, Job, NoJob

(* Rows of requests are never deleted. *)
RequestsStay ==
  \A r \in RequestIds : requests[r] # NoRow => requests'[r] # NoRow

(* A new job leaves every other session as it was. *)
LEMMA OpenType ==
  ASSUME TypeInv, NEW s \in Sessions, NEW work \in Job,
         NEW label \in {"bookPass", "askWrite", "payPass", "refundLock"},
         Open(s, label, work),
         label = "askWrite" => work.amount \in Amounts /\ work.request \in RequestIds,
         label \in {"payPass", "refundLock"} =>
           /\ work.request # NoRequest => requests[work.request] # NoRow
           /\ work.amount \in Amounts
  PROVE  TypeInv'
<1>1. work # NoJob
  BY DEF Job, NoJob
<1>2. TypeOK'
  BY <1>1 DEF TypeInv, TypeOK, TablesOK, SessionsOK, Open, Goto, tables, history,
              Labels, HoldsLock
<1>3. JobShape'
  BY <1>1 DEF TypeInv, TypeOK, SessionsOK, JobShape, Open, Goto, tables, history,
              MoneyLabels, HoldsLock
<1> QED BY <1>2, <1>3 DEF TypeInv

(* A session that closes leaves well-shaped jobs behind, whatever it wrote. *)
LEMMA CloseType ==
  ASSUME TypeInv, NEW s \in Sessions, Close(s), TablesOK', RequestsStay
  PROVE  TypeInv'
<1>1. SessionsOK'
  BY DEF TypeInv, TypeOK, SessionsOK, Close, Goto, Labels, HoldsLock, NoPayment,
         NoPass, PaymentRow, PassRow, Statuses
<1>2. JobShape'
  BY JobTyped DEF TypeInv, TypeOK, SessionsOK, JobShape, RequestsStay, Close, Goto,
                  MoneyLabels, HoldsLock
<1> QED BY <1>1, <1>2 DEF TypeInv, TypeOK

(* A rolled back session leaves the tables as they were.                      *)
LEMMA RollbackType ==
  ASSUME TypeInv, NEW s \in Sessions, Rollback(s)
  PROVE  TypeInv'
<1>1. TablesOK' /\ RequestsStay
  BY DEF Rollback, tables, history, TypeInv, TypeOK, TablesOK, RequestsStay
<1> QED BY <1>1, CloseType DEF Rollback

(* A session that goes on keeps its job, and its copies have row types. *)
LEMMA ContinueType ==
  ASSUME TypeInv, NEW s \in Sessions, pc[s] # "idle", TablesOK', RequestsStay,
         NEW label \in Labels \ {"idle", "askWrite"}, Goto(s, label), job' = job,
         seen' \in [Sessions -> PaymentRow], seenPass' \in [Sessions -> PassRow],
         label \in MoneyLabels \cup {"approveWrite"} =>
           pc[s] \in MoneyLabels,
         label = "approveWrite" => job[s].request # NoRequest
  PROVE  TypeInv'
<1>1. SessionsOK'
  BY DEF TypeInv, TypeOK, SessionsOK, Goto
<1>2. JobShape'
  BY JobTyped DEF TypeInv, TypeOK, SessionsOK, JobShape, RequestsStay, Goto,
                  MoneyLabels, HoldsLock
<1> QED BY <1>1, <1>2 DEF TypeInv, TypeOK

(* A handler starts with a job of its kind, and a money job names the         *)
(* filed request it was started for.                                          *)
LEMMA BeginType ==
  ASSUME TypeInv, NEW s \in Sessions, Begin(s)
  PROVE  TypeInv'
<1> USE ConstantsOK
<1>1. CASE \E f \in Flats, total \in Totals, role \in Roles \cup {NoRole} :
             BookBegin(s, f, total, role)
  BY <1>1, OpenType DEF BookBegin, Job
<1>2. ASSUME NEW f \in Flats, NEW amount \in Amounts, NEW r \in RequestIds,
             AskPayment(s, f, amount, r) \/ AskRefund(s, f, amount, r)
      PROVE  TypeInv'
  <2>1. CASE AskPayment(s, f, amount, r)
    BY <2>1, OpenType DEF AskPayment, Job
  <2>2. CASE AskRefund(s, f, amount, r)
    BY <2>2, OpenType DEF AskRefund, Job
  <2> QED BY <1>2, <2>1, <2>2
<1>3. ASSUME NEW kind \in {"PAY", "REFUND"}, NEW f \in Flats,
             NEW amount \in Amounts, NEW r \in RequestIds \cup {NoRequest},
             NEW role \in Roles,
             r # NoRequest => requests[r] # NoRow,
             MoveMoney(s, kind, f, amount, r, role)
      PROVE  TypeInv'
  BY <1>3, OpenType DEF MoveMoney, Job
<1>4. CASE \E f \in Flats, amount \in Amounts, kind \in {"PAY", "REFUND"},
              role \in Roles : MoveDirectly(s, kind, f, amount, role)
  BY <1>3, <1>4 DEF MoveDirectly
<1>5. CASE \E kind \in {"PAY", "REFUND"}, r \in RequestIds, role \in Roles :
              ApproveRequest(s, kind, r, role)
  <2>1. PICK kind \in {"PAY", "REFUND"}, r \in RequestIds, role \in Roles :
               ApproveRequest(s, kind, r, role)
    BY <1>5
  <2>2. requests[r] \in RequestRow
    BY <2>1 DEF TypeInv, TypeOK, TablesOK, ApproveRequest, Approvable
  <2>3. requests[r].flat \in Flats /\ requests[r].amount \in Amounts
    BY <2>2 DEF RequestRow
  <2> QED BY <1>3, <2>1, <2>3 DEF ApproveRequest, Approvable
<1> QED BY <1>1, <1>2, <1>4, <1>5 DEF Begin

(* A step that only reads changes no table. *)
LEMMA ReadType ==
  ASSUME TypeInv, UNCHANGED <<tables, history>>
  PROVE  TablesOK' /\ RequestsStay
BY DEF tables, history, TypeInv, TypeOK, TablesOK, RequestsStay

(* A booking writes counts of a job and a status it computed. *)
LEMMA BookType ==
  ASSUME TypeInv, NEW s \in Sessions,
         \/ BookReadPass(s) \/ BookReadPayment(s) \/ BookInsert(s)
         \/ BookInsertConflict(s) \/ BookUpdate(s)
  PROVE  TypeInv'
<1>1. pc[s] # "idle"
  BY DEF BookReadPass, BookReadPayment, BookInsert, BookInsertConflict, BookUpdate
<1>2. job[s].flat \in Flats /\ job[s].amount \in Nat
  BY <1>1, JobTyped
<1>3. CASE BookReadPass(s)
  <2>1. seenPass' \in [Sessions -> PassRow] /\ seen' \in [Sessions -> PaymentRow]
    BY <1>2, <1>3 DEF BookReadPass, TypeInv, TypeOK, TablesOK, SessionsOK
  <2> QED BY <1>1, <1>3, <2>1, ReadType, ContinueType
          DEF BookReadPass, Labels, MoneyLabels, HoldsLock
<1>4. CASE BookReadPayment(s)
  <2>1. seenPass' \in [Sessions -> PassRow] /\ seen' \in [Sessions -> PaymentRow]
    BY <1>2, <1>4 DEF BookReadPayment, TypeInv, TypeOK, TablesOK, SessionsOK
  <2> QED BY <1>1, <1>4, <2>1, ReadType, ContinueType
          DEF BookReadPayment, Labels, MoneyLabels, HoldsLock
<1>5. CASE BookInsert(s)
  <2>1. pass' \in [Flats -> PassRow]
    BY <1>2, <1>5 DEF BookInsert, TypeInv, TypeOK, TablesOK, PassRow
  <2>2. pay' \in [Flats -> PaymentRow]
    BY <1>2, <1>5 DEF BookInsert, TypeInv, TypeOK, TablesOK, PaymentRow
  <2>3. rows' \in [Flats -> Nat]
    BY <1>2, <1>5 DEF BookInsert, TypeInv, TypeOK, TablesOK
  <2>4. TablesOK' /\ RequestsStay
    BY <1>5, <2>1, <2>2, <2>3 DEF BookInsert, TypeInv, TypeOK, TablesOK, history,
                                  RequestsStay
  <2> QED BY <1>5, <2>4, CloseType DEF BookInsert
<1>6. CASE BookInsertConflict(s)
  BY <1>6, RollbackType DEF BookInsertConflict
<1>7. CASE BookUpdate(s)
  <2> DEFINE total == job[s].amount
             status == BookedStatus(seen[s].paid, total)
  <2>1. status \in Statuses
    BY DEF BookedStatus, Statuses
  <2>2. pass' \in [Flats -> PassRow]
    BY <1>2, <1>7 DEF BookUpdate, Flush, TypeInv, TypeOK, TablesOK, PassRow
  <2>3. pay' \in [Flats -> PaymentRow]
    BY <1>2, <1>7, <2>1 DEF BookUpdate, Flush, TypeInv, TypeOK, TablesOK, PaymentRow
  <2>4. TablesOK' /\ RequestsStay
    BY <1>7, <2>2, <2>3 DEF BookUpdate, TypeInv, TypeOK, TablesOK, history,
                            RequestsStay
  <2> QED BY <1>7, <2>4, CloseType DEF BookUpdate
<1> QED BY <1>3, <1>4, <1>5, <1>6, <1>7

(* After the money has moved the session closes, or goes on to its request. *)
LEMMA MoneyMovedType ==
  ASSUME TypeInv, NEW s \in Sessions, pc[s] \in MoneyLabels, MoneyMoved(s),
         (done' \in [RequestIds -> Nat]) => TablesOK' /\ RequestsStay
  PROVE  TypeInv'
<1>1. pc[s] # "idle"
  BY DEF MoneyLabels, HoldsLock
<1>2. CASE job[s].request = NoRequest
  <2>1. Close(s) /\ done' \in [RequestIds -> Nat]
    BY <1>2 DEF MoneyMoved, TypeInv, TypeOK, TablesOK
  <2> QED BY <2>1, CloseType
<1>3. CASE job[s].request # NoRequest
  <2>1. job[s].request \in RequestIds
    BY <1>1, <1>3, JobTyped
  <2>2. /\ Goto(s, "approveWrite")
        /\ UNCHANGED <<job, seen, seenPass>>
        /\ done' = [done EXCEPT ![job[s].request] = @ + 1]
    BY <1>3 DEF MoneyMoved
  <2>3. done' \in [RequestIds -> Nat]
    BY <2>1, <2>2 DEF TypeInv, TypeOK, TablesOK
  <2>4. seen' \in [Sessions -> PaymentRow] /\ seenPass' \in [Sessions -> PassRow]
    BY <2>2 DEF TypeInv, TypeOK, SessionsOK
  <2> QED BY <1>1, <1>3, <2>2, <2>3, <2>4, ContinueType DEF Labels
<1> QED BY <1>2, <1>3

(* Filing a request and marking one. *)
LEMMA RequestType ==
  ASSUME TypeInv, NEW s \in Sessions, AskCommit(s) \/ ApproveCommit(s)
  PROVE  TypeInv'
<1> DEFINE r == job[s].request
<1>1. CASE AskCommit(s)
  <2>1. r \in RequestIds /\ job[s].flat \in Flats /\ job[s].amount \in Amounts
    BY <1>1, JobTyped DEF AskCommit, TypeInv, JobShape
  <2>2. requests'[r] \in RequestRow /\ requests'[r] # NoRow
    BY <1>1, <2>1 DEF AskCommit, TypeInv, TypeOK, TablesOK, RequestRow, NoRow
  <2>3. TablesOK' /\ RequestsStay
    BY <1>1, <2>1, <2>2 DEF AskCommit, TypeInv, TypeOK, TablesOK, history,
                            RequestsStay
  <2> QED BY <1>1, <2>3, CloseType DEF AskCommit
<1>2. CASE ApproveCommit(s)
  <2>1. r \in RequestIds /\ requests[r] \in RequestRow
    BY <1>2, JobTyped DEF ApproveCommit, TypeInv, TypeOK, TablesOK, JobShape
  <2>2. requests'[r] \in RequestRow /\ requests'[r] # NoRow
    BY <1>2, <2>1 DEF ApproveCommit, TypeInv, TypeOK, TablesOK, RequestRow, NoRow
  <2>3. TablesOK' /\ RequestsStay
    BY <1>2, <2>1, <2>2 DEF ApproveCommit, TypeInv, TypeOK, TablesOK, history,
                            RequestsStay
  <2> QED BY <1>2, <2>3, CloseType DEF ApproveCommit
<1> QED BY <1>1, <1>2

(* Recording a payment: the reads copy rows, the commit writes a computed     *)
(* status and a sum of naturals.                                              *)
LEMMA PayType ==
  ASSUME TypeInv, NEW s \in Sessions, PayReadPass(s) \/ PayRead(s) \/ PayCommit(s)
  PROVE  TypeInv'
<1> DEFINE f == job[s].flat
<1>1. pc[s] # "idle" /\ pc[s] \in MoneyLabels
  BY DEF PayReadPass, PayRead, PayCommit, MoneyLabels
<1>2. f \in Flats /\ job[s].amount \in Nat
  BY <1>1, JobTyped
<1>3. CASE PayReadPass(s)
  <2>1. CASE Rollback(s)
    BY <2>1, RollbackType
  <2>2. CASE /\ Goto(s, "payRead")
             /\ seenPass' = [seenPass EXCEPT ![s] = pass[f]]
             /\ UNCHANGED <<job, seen, tables, history>>
    <3>1. seenPass' \in [Sessions -> PassRow] /\ seen' \in [Sessions -> PaymentRow]
      BY <1>2, <2>2 DEF TypeInv, TypeOK, TablesOK, SessionsOK
    <3> QED BY <1>1, <2>2, <3>1, ReadType, ContinueType DEF Labels
  <2> QED BY <1>3, <2>1, <2>2 DEF PayReadPass
<1>4. CASE PayRead(s)
  <2>1. seenPass' \in [Sessions -> PassRow] /\ seen' \in [Sessions -> PaymentRow]
    BY <1>2, <1>4 DEF PayRead, TypeInv, TypeOK, TablesOK, SessionsOK
  <2> QED BY <1>1, <1>4, <2>1, ReadType, ContinueType DEF PayRead, Labels
<1>5. CASE PayCommit(s)
  <2>1. seen[s].paid \in Nat
    BY DEF TypeInv, TypeOK, SessionsOK, PaymentRow
  <2>2. pay' \in [Flats -> PaymentRow]
    BY <1>2, <1>5, <2>1 DEF PayCommit, Flush, TypeInv, TypeOK, TablesOK, PaymentRow,
                            Statuses
  <2>3. receipts' \in [Flats -> Nat]
    BY <1>2, <1>5 DEF PayCommit, TypeInv, TypeOK, TablesOK
  <2>4. (done' \in [RequestIds -> Nat]) => TablesOK' /\ RequestsStay
    BY <1>5, <2>2, <2>3 DEF PayCommit, TypeInv, TypeOK, TablesOK, RequestsStay
  <2> QED BY <1>1, <1>5, <2>4, MoneyMovedType DEF PayCommit
<1> QED BY <1>3, <1>4, <1>5

(* Recording a refund: the steps under the lock only read, the commit adds    *)
(* to the flat's refunds.                                                     *)
LEMMA RefundType ==
  ASSUME TypeInv, NEW s \in Sessions,
         RefundLock(s) \/ RefundSum(s) \/ RefundFlush(s) \/ RefundCommit(s)
  PROVE  TypeInv'
<1> DEFINE f == job[s].flat
<1>1. pc[s] # "idle" /\ pc[s] \in MoneyLabels
  BY DEF RefundLock, RefundSum, RefundFlush, RefundCheck, RefundCommit, MoneyLabels,
         HoldsLock
<1>2. f \in Flats /\ job[s].amount \in Nat
  BY <1>1, JobTyped
<1>3. CASE RefundLock(s)
  <2>1. CASE Rollback(s)
    BY <2>1, RollbackType
  <2>2. CASE /\ Goto(s, "refundLocked")
             /\ seen' = [seen EXCEPT ![s] = pay[f]]
             /\ UNCHANGED <<job, seenPass, tables, history>>
    <3>1. seenPass' \in [Sessions -> PassRow] /\ seen' \in [Sessions -> PaymentRow]
      BY <1>2, <2>2 DEF TypeInv, TypeOK, TablesOK, SessionsOK
    <3> QED BY <1>1, <2>2, <3>1, ReadType, ContinueType DEF Labels, HoldsLock
  <2> QED BY <1>3, <2>1, <2>2 DEF RefundLock
<1>4. ASSUME NEW here, NEW label \in {"refundSummed", "refundFlushed"},
             RefundCheck(s, here, label)
      PROVE  TypeInv'
  <2>1. CASE Rollback(s)
    BY <2>1, RollbackType
  <2>2. CASE /\ Goto(s, label)
             /\ UNCHANGED <<job, seen, seenPass, tables, history>>
    <3>1. seenPass' \in [Sessions -> PassRow] /\ seen' \in [Sessions -> PaymentRow]
      BY <2>2 DEF TypeInv, TypeOK, SessionsOK
    <3> QED BY <1>1, <2>2, <3>1, ReadType, ContinueType DEF Labels, HoldsLock
  <2> QED BY <1>4, <2>1, <2>2 DEF RefundCheck
<1>5. CASE RefundCommit(s)
  <2>1. pay' \in [Flats -> PaymentRow]
    BY <1>2, <1>5 DEF RefundCommit, TypeInv, TypeOK, TablesOK, PaymentRow, Statuses
  <2>2. refunds' \in [Flats -> Nat]
    BY <1>2, <1>5 DEF RefundCommit, TypeInv, TypeOK, TablesOK
  <2>3. (done' \in [RequestIds -> Nat]) => TablesOK' /\ RequestsStay
    BY <1>5, <2>1, <2>2 DEF RefundCommit, TypeInv, TypeOK, TablesOK, RequestsStay
  <2> QED BY <1>1, <1>5, <2>3, MoneyMovedType DEF RefundCommit
<1> QED BY <1>3, <1>4, <1>5 DEF RefundSum, RefundFlush

(* Every step keeps the types and the shape of the jobs.                      *)
LEMMA TypeStep == TypeInv /\ [Next]_vars => TypeInv'
<1> SUFFICES ASSUME TypeInv, [Next]_vars PROVE TypeInv'
  OBVIOUS
<1>1. CASE UNCHANGED vars
  BY <1>1 DEF vars, TypeInv, TypeOK, TablesOK, SessionsOK, JobShape
<1>2. CASE Transition
  BY <1>2, ConstantsOK DEF Transition, session, history, TypeInv, TypeOK, TablesOK,
                           SessionsOK, JobShape
<1>3. ASSUME NEW s \in Sessions, Begin(s) \/ Run(s) \/ Acquire(s) \/ Abort(s)
      PROVE  TypeInv'
  <2>1. CASE Begin(s)
    BY <2>1, BeginType
  <2>2. CASE Run(s)
    BY <2>2, BookType, RequestType, PayType, RefundType DEF Run
  <2>3. CASE Acquire(s)
    BY <2>3, BookType, PayType, RefundType DEF Acquire
  <2>4. CASE Abort(s)
    BY <2>4, RollbackType DEF Abort
  <2> QED BY <1>3, <2>1, <2>2, <2>3, <2>4
<1> QED BY <1>1, <1>2, <1>3 DEF Next

(* Every reachable row, session and copy has the values its columns allow, for *)
(* any number of sessions, flats and requests.                                 *)
THEOREM TypeCorrect == Spec => []TypeOK
<1>1. TypeInv => TypeOK
  BY DEF TypeInv
<1> QED BY InitType, TypeStep, <1>1, PTL DEF Spec
-------------------------------------------------------------------------------
(* What a step of one session leaves alone *)

SessionStep(s) == Begin(s) \/ Run(s) \/ Acquire(s) \/ Abort(s)

OthersStay(s) ==
  \A t \in Sessions \ {s} :
    pc'[t] = pc[t] /\ job'[t] = job[t] /\ seen'[t] = seen[t]

(* No money moves, no lock is held after, and no request becomes approved but  *)
(* the one whose money session s has moved.                                    *)
QuietStep(s) ==
  /\ \A f \in Flats : pay'[f].paid = pay[f].paid
  /\ UNCHANGED <<refunds, receipts, done>>
  /\ pc'[s] \notin HoldsLock \cup {"payWrite", "approveWrite"}
  /\ \A r \in RequestIds :
       requests'[r].status = "approved" =>
         \/ requests[r].status = "approved"
         \/ pc[s] = "approveWrite" /\ r = job[s].request

(* The lock is taken with a fresh copy of the payment ...                      *)
TakesLock(s) ==
  /\ ~Locked(job[s].flat)
  /\ Goto(s, "refundLocked")
  /\ seen' = [seen EXCEPT ![s] = pay[job[s].flat]]
  /\ UNCHANGED <<job, tables, history>>

(* ... and kept after a sum that fits.                                         *)
KeepsLock(s) ==
  \E label \in {"refundSummed", "refundFlushed"} :
    /\ pc[s] \in HoldsLock
    /\ refunds[job[s].flat] + job[s].amount <= seen[s].paid
    /\ Goto(s, label)
    /\ UNCHANGED <<job, seen, tables, history>>

(* A closing session ends idle and disturbs no other.                         *)
LEMMA CloseQuiet ==
  ASSUME TypeInv, NEW s \in Sessions, Close(s)
  PROVE  OthersStay(s) /\ pc'[s] = "idle"
BY DEF TypeInv, TypeOK, SessionsOK, Close, Goto, OthersStay

(* A rolled back session moves no money and takes no lock.                    *)
LEMMA RollbackQuiet ==
  ASSUME TypeInv, NEW s \in Sessions, Rollback(s)
  PROVE  OthersStay(s) /\ QuietStep(s)
BY CloseQuiet DEF Rollback, QuietStep, tables, history, HoldsLock

(* Starting a handler moves no money and takes no lock.                       *)
LEMMA BeginQuiet ==
  ASSUME TypeInv, NEW s \in Sessions, Begin(s)
  PROVE  OthersStay(s) /\ QuietStep(s)
<1>1. PICK label \in {"bookPass", "askWrite", "payPass", "refundLock"} :
             \E work : Open(s, label, work)
  BY DEF Begin, BookBegin, AskPayment, AskRefund, MoveDirectly, ApproveRequest,
         MoveMoney
<1>2. PICK work : Open(s, label, work)
  BY <1>1
<1> QED BY <1>1, <1>2 DEF Open, Goto, tables, history, OthersStay, QuietStep, HoldsLock,
                    TypeInv, TypeOK, SessionsOK

(* Booking or changing a pass never writes paid_amount nor refunds.           *)
LEMMA BookQuiet ==
  ASSUME TypeInv, NEW s \in Sessions,
         \/ BookReadPass(s) \/ BookReadPayment(s) \/ BookInsert(s)
         \/ BookInsertConflict(s) \/ BookUpdate(s)
  PROVE  OthersStay(s) /\ QuietStep(s)
<1> USE DEF TypeInv, TypeOK, TablesOK, SessionsOK
<1>1. CASE BookReadPass(s)
  BY <1>1 DEF BookReadPass, Goto, tables, history, OthersStay, QuietStep, HoldsLock
<1>2. CASE BookReadPayment(s)
  BY <1>2 DEF BookReadPayment, Goto, tables, history, OthersStay, QuietStep, HoldsLock
<1>3. CASE BookInsertConflict(s)
  BY <1>3, RollbackQuiet DEF BookInsertConflict
<1>4. CASE BookInsert(s)
  <2>1. \A f \in Flats : pay'[f].paid = pay[f].paid
    BY <1>4 DEF BookInsert, PaymentRow
  <2> QED BY <1>4, <2>1, CloseQuiet DEF BookInsert, QuietStep, HoldsLock, history
<1>5. CASE BookUpdate(s)
  <2>1. \A f \in Flats : pay'[f].paid = pay[f].paid
    BY <1>5 DEF BookUpdate, PaymentRow
  <2> QED BY <1>5, <2>1, CloseQuiet DEF BookUpdate, QuietStep, HoldsLock, history
<1> QED BY <1>1, <1>2, <1>3, <1>4, <1>5

(* Filing a request, or marking one whose money has moved, moves no money.    *)
LEMMA RequestQuiet ==
  ASSUME TypeInv, NEW s \in Sessions, AskCommit(s) \/ ApproveCommit(s)
  PROVE  OthersStay(s) /\ QuietStep(s)
<1> DEFINE r == job[s].request
<1>1. pc[s] # "idle" /\ requests \in [RequestIds -> RequestRow \cup {NoRow}]
  BY DEF AskCommit, ApproveCommit, TypeInv, TypeOK, TablesOK
<1>2. \A q \in RequestIds : requests'[q].status = "approved" =>
         \/ requests[q].status = "approved"
         \/ pc[s] = "approveWrite" /\ q = r
  BY <1>1 DEF AskCommit, ApproveCommit
<1>3. Close(s) /\ UNCHANGED <<pay, refunds, receipts, done>>
  BY DEF AskCommit, ApproveCommit, history
<1> QED BY <1>2, <1>3, CloseQuiet DEF QuietStep, HoldsLock

(* After its commit a money service returns, or goes on to its request.       *)
LEMMA MoneyMovedFrame ==
  ASSUME TypeInv, NEW s \in Sessions, MoneyMoved(s)
  PROVE  /\ OthersStay(s)
         /\ pc'[s] \in {"idle", "approveWrite"}
BY CloseQuiet DEF MoneyMoved, Goto, OthersStay, TypeInv, TypeOK, SessionsOK

(* Every step of a session is of one of six kinds. *)
LEMMA StepKinds ==
  ASSUME TypeInv, NEW s \in Sessions, SessionStep(s)
  PROVE  /\ OthersStay(s)
         /\ \/ QuietStep(s) \/ PayRead(s) \/ PayCommit(s)
            \/ TakesLock(s) \/ KeepsLock(s) \/ RefundCommit(s)
<1> USE DEF TypeInv, TypeOK, SessionsOK
<1>1. CASE PayReadPass(s)
  <2>1. CASE Rollback(s)
    BY <2>1, RollbackQuiet
  <2>2. CASE /\ Goto(s, "payRead")
             /\ UNCHANGED <<job, seen, tables, history>>
    BY <2>2 DEF Goto, tables, history, OthersStay, QuietStep, HoldsLock
  <2> QED BY <1>1, <2>1, <2>2 DEF PayReadPass
<1>2. CASE PayRead(s)
  BY <1>2 DEF PayRead, Goto, OthersStay
<1>3. CASE PayCommit(s)
  BY <1>3, MoneyMovedFrame DEF PayCommit
<1>4. CASE RefundLock(s)
  <2>1. CASE Rollback(s)
    BY <2>1, RollbackQuiet
  <2>2. CASE TakesLock(s)
    BY <2>2 DEF TakesLock, Goto, OthersStay
  <2> QED BY <1>4, <2>1, <2>2 DEF RefundLock, TakesLock
<1>5. CASE RefundSum(s) \/ RefundFlush(s)
  <2>1. CASE Rollback(s)
    BY <2>1, RollbackQuiet
  <2>2. CASE KeepsLock(s)
    BY <2>2 DEF KeepsLock, Goto, OthersStay
  <2> QED BY <1>5, <2>1, <2>2 DEF RefundSum, RefundFlush, RefundCheck, KeepsLock,
                                  HoldsLock
<1>6. CASE RefundCommit(s)
  BY <1>6, MoneyMovedFrame DEF RefundCommit
<1>7. CASE Abort(s)
  BY <1>7, RollbackQuiet DEF Abort
<1> QED BY <1>1, <1>2, <1>3, <1>4, <1>5, <1>6, <1>7, BeginQuiet, BookQuiet,
           RequestQuiet DEF SessionStep, Run, Acquire
-------------------------------------------------------------------------------
(* One account per pass *)

(* A second payment row never appears: the insert is refused by the unique    *)
(* constraint, and an update writes the row it has read.                      *)
LEMMA AccountStep ==
  ASSUME TypeInv, OneAccountPerPass, NEW s \in Sessions, SessionStep(s)
  PROVE  OneAccountPerPass'
<1> USE DEF OneAccountPerPass, TypeInv, TypeOK, TablesOK, PassRow
<1>1. CASE BookInsert(s)
  BY <1>1, JobTyped DEF BookInsert
<1>2. CASE BookUpdate(s)
  <2>1. \A f \in Flats : pass'[f].booked = pass[f].booked
    BY <1>2 DEF BookUpdate
  <2> QED BY <1>2, <2>1 DEF BookUpdate
<1>3. UNCHANGED <<pass, rows>> \/ BookInsert(s) \/ BookUpdate(s)
  BY DEF SessionStep, Begin, BookBegin, AskPayment, AskRefund, MoveDirectly,
     ApproveRequest, MoveMoney, Open, Run, BookReadPass, BookReadPayment,
     BookInsertConflict, AskCommit, PayReadPass, PayRead, RefundSum, RefundFlush,
     RefundCheck, RefundCommit, ApproveCommit, Acquire, PayCommit, RefundLock, Abort,
     Rollback, tables, history
<1> QED BY <1>1, <1>2, <1>3

-------------------------------------------------------------------------------
(* The lock and what its holder knows *)

(* A session that does not hold the lock after its step disturbs no holder as  *)
(* long as the rows of the flats the others hold stay as they are.             *)
LEMMA OutsideLock ==
  ASSUME TypeInv, LockInv, NEW s \in Sessions, OthersStay(s), pc'[s] \notin HoldsLock,
         \A t \in Sessions \ {s} : pc[t] \in HoldsLock =>
           /\ pay'[job[t].flat].paid = pay[job[t].flat].paid
           /\ refunds'[job[t].flat] = refunds[job[t].flat]
  PROVE  LockInv'
<1>1. OneHolder' /\ HolderIsCurrent'
  BY DEF LockInv, OneHolder, HolderIsCurrent, OthersStay
<1>2. SumStillFits'
  BY DEF LockInv, SumStillFits, OthersStay, HoldsLock
<1> QED BY <1>1, <1>2 DEF LockInv

(* The payment row has one refunding session at a time, and what it read      *)
(* under the lock stays current until it commits or rolls back.               *)
LEMMA LockStep ==
  ASSUME TypeInv, LockInv, NEW s \in Sessions, SessionStep(s)
  PROVE  LockInv'
<1> DEFINE f == job[s].flat
<1>1. OthersStay(s)
  BY StepKinds
<1>2. CASE QuietStep(s)
  <2>1. \A t \in Sessions : pc[t] \in HoldsLock => job[t].flat \in Flats
    BY JobTyped DEF HoldsLock
  <2> QED BY <1>1, <1>2, <2>1, OutsideLock DEF QuietStep
<1>3. CASE PayRead(s)
  BY <1>1, <1>3, OutsideLock DEF PayRead, Goto, tables, history, HoldsLock, TypeInv,
                                 TypeOK, SessionsOK
<1>4. CASE PayCommit(s)
  <2>1. \A t \in Sessions : pc[t] \in HoldsLock => job[t].flat # f
    BY <1>4 DEF PayCommit, Locked
  <2>2. \A t \in Sessions : pc[t] \in HoldsLock => job[t].flat \in Flats
    BY JobTyped DEF HoldsLock
  <2>3. \A g \in Flats : g # f => pay'[g].paid = pay[g].paid
    BY <1>4 DEF PayCommit, TypeInv, TypeOK, TablesOK
  <2>4. pc'[s] \notin HoldsLock
    BY <1>4, MoneyMovedFrame DEF PayCommit, HoldsLock
  <2> QED BY <1>1, <1>4, <2>1, <2>2, <2>3, <2>4, OutsideLock DEF PayCommit
<1>5. CASE TakesLock(s)
  <2>1. /\ pc'[s] = "refundLocked"
        /\ seen'[s] = pay[f]
        /\ UNCHANGED <<job, pay, refunds>>
    BY <1>5 DEF TakesLock, Goto, tables, TypeInv, TypeOK, SessionsOK
  <2>2. \A t \in Sessions : pc[t] \in HoldsLock => job[t].flat # f
    BY <1>5 DEF TakesLock, Locked
  <2>3. OneHolder'
    BY <1>1, <2>1, <2>2 DEF OthersStay, LockInv, OneHolder
  <2>4. HolderIsCurrent'
    BY <1>1, <2>1 DEF OthersStay, LockInv, HolderIsCurrent
  <2>5. SumStillFits'
    BY <1>1, <2>1 DEF OthersStay, LockInv, SumStillFits
  <2> QED BY <2>3, <2>4, <2>5 DEF LockInv
<1>6. CASE KeepsLock(s)
  <2>1. /\ pc[s] \in HoldsLock
        /\ pc'[s] \in {"refundSummed", "refundFlushed"}
        /\ refunds[f] + job[s].amount <= seen[s].paid
        /\ UNCHANGED <<job, seen, pay, refunds>>
    BY <1>6 DEF KeepsLock, Goto, tables, TypeInv, TypeOK, SessionsOK
  <2>2. OneHolder'
    BY <1>1, <2>1 DEF OthersStay, LockInv, OneHolder
  <2>3. HolderIsCurrent'
    BY <1>1, <2>1 DEF OthersStay, LockInv, HolderIsCurrent
  <2>4. SumStillFits'
    BY <1>1, <2>1 DEF OthersStay, LockInv, SumStillFits
  <2> QED BY <2>2, <2>3, <2>4 DEF LockInv
<1>7. CASE RefundCommit(s)
  <2>1. \A t \in Sessions \ {s} : pc[t] \in HoldsLock => job[t].flat # f
    BY <1>7 DEF RefundCommit, LockInv, OneHolder, HoldsLock
  <2>2. \A g \in Flats : g # f => refunds'[g] = refunds[g]
    BY <1>7 DEF RefundCommit, TypeInv, TypeOK, TablesOK
  <2>3. \A g \in Flats : pay'[g].paid = pay[g].paid
    BY <1>7 DEF RefundCommit, TypeInv, TypeOK, TablesOK, PaymentRow
  <2>4. \A t \in Sessions : pc[t] \in HoldsLock => job[t].flat \in Flats
    BY JobTyped DEF HoldsLock
  <2>5. pc'[s] \notin HoldsLock
    BY <1>7, MoneyMovedFrame DEF RefundCommit, HoldsLock
  <2> QED BY <1>1, <2>1, <2>2, <2>3, <2>4, <2>5, OutsideLock
<1> QED BY StepKinds, <1>2, <1>3, <1>4, <1>5, <1>6, <1>7

-------------------------------------------------------------------------------
(* The money *)

(* A refund that commits fits the paid amount of the row, not of a copy.       *)
LEMMA RefundFits ==
  ASSUME TypeInv, LockInv, NEW s \in Sessions, RefundCommit(s)
  PROVE  refunds[job[s].flat] + job[s].amount <= pay[job[s].flat].paid
BY DEF RefundCommit, LockInv, SumStillFits, HolderIsCurrent, HoldsLock

(* No step shows, or pays back, more than was received.                       *)
LEMMA MoneyStep ==
  ASSUME TypeInv, LockInv, MoneyInv, NEW s \in Sessions, SessionStep(s)
  PROVE  MoneyInv'
<1> DEFINE f == job[s].flat
<1> USE DEF MoneyInv, CopyWasReceived, PaidNeverExceedsReceipts,
            RefundedNeverExceedsReceipts
<1>1. OthersStay(s)
  BY StepKinds
<1>2. CASE QuietStep(s)
  BY <1>1, <1>2 DEF QuietStep, OthersStay
<1>3. CASE PayRead(s)
  <2>1. /\ pc[s] = "payRead"
        /\ f \in Flats
        /\ seen'[s] = pay[f]
        /\ UNCHANGED <<job, pay, refunds, receipts>>
    BY <1>3, JobTyped DEF PayRead, tables, history, TypeInv, TypeOK, SessionsOK
  <2> QED BY <1>1, <2>1 DEF OthersStay
<1>4. CASE PayCommit(s)
  <2>1. pc[s] = "payWrite" /\ f \in Flats /\ job[s].amount \in Nat
    BY <1>4, JobTyped DEF PayCommit
  <2>2. seen[s].paid \in Nat /\ receipts \in [Flats -> Nat]
    BY DEF TypeInv, TypeOK, TablesOK, SessionsOK, PaymentRow
  <2>3. \A g \in Flats : pay'[g].paid =
          IF g = f THEN seen[s].paid + job[s].amount ELSE pay[g].paid
    BY <1>4, <2>1 DEF PayCommit, TypeInv, TypeOK, TablesOK, PaymentRow
  <2>4. \A g \in Flats : receipts'[g] =
          IF g = f THEN receipts[g] + job[s].amount ELSE receipts[g]
    BY <1>4, <2>1, <2>2 DEF PayCommit
  <2>5. \A g \in Flats : receipts[g] <= receipts'[g]
    BY <2>1, <2>2, <2>4
  <2>6. PaidNeverExceedsReceipts'
    BY <2>1, <2>2, <2>3, <2>4
  <2>7. RefundedNeverExceedsReceipts'
    <3>1. refunds' = refunds /\ refunds \in [Flats -> Nat]
      BY <1>4 DEF PayCommit, TypeInv, TypeOK, TablesOK
    <3>2. receipts' \in [Flats -> Nat]
      BY <1>4, <2>1, <2>2 DEF PayCommit
    <3> QED BY <2>2, <2>5, <3>1, <3>2
  <2>8. CopyWasReceived'
    <3> SUFFICES ASSUME NEW t \in Sessions, pc'[t] = "payWrite"
                 PROVE  seen'[t].paid <= receipts'[job'[t].flat]
      OBVIOUS
    <3>1. t # s
      BY <1>4, MoneyMovedFrame DEF PayCommit
    <3>2. pc[t] = "payWrite" /\ job'[t] = job[t] /\ seen'[t] = seen[t]
      BY <1>1, <3>1 DEF OthersStay
    <3>3. job[t].flat \in Flats /\ seen[t].paid \in Nat
      BY <3>2, JobTyped DEF TypeInv, TypeOK, SessionsOK, PaymentRow
    <3> QED BY <2>2, <2>4, <2>1, <3>2, <3>3
  <2> QED BY <2>6, <2>7, <2>8
<1>5. CASE TakesLock(s) \/ KeepsLock(s)
  <2>1. /\ UNCHANGED <<pay, refunds, receipts>>
        /\ pc'[s] \in HoldsLock
    BY <1>5 DEF TakesLock, KeepsLock, Goto, tables, history, HoldsLock, TypeInv, TypeOK,
                SessionsOK
  <2> QED BY <1>1, <2>1 DEF OthersStay, HoldsLock
<1>6. CASE RefundCommit(s)
  <2>1. f \in Flats /\ job[s].amount \in Nat
    BY <1>6, JobTyped DEF RefundCommit
  <2>2. receipts' = receipts /\ \A g \in Flats : pay'[g].paid = pay[g].paid
    BY <1>6, <2>1 DEF RefundCommit, TypeInv, TypeOK, TablesOK, PaymentRow
  <2>3. pc'[s] # "payWrite"
    BY <1>6, MoneyMovedFrame DEF RefundCommit
  <2>4. RefundedNeverExceedsReceipts'
    <3>1. refunds[f] + job[s].amount <= pay[f].paid
      BY <1>6, RefundFits
    <3>2. pay[f].paid \in Nat /\ receipts[f] \in Nat /\ refunds \in [Flats -> Nat]
      BY <2>1 DEF TypeInv, TypeOK, TablesOK, PaymentRow
    <3>3. refunds' = [refunds EXCEPT ![f] = @ + job[s].amount]
      BY <1>6 DEF RefundCommit
    <3> QED BY <2>1, <2>2, <3>1, <3>2, <3>3
  <2> QED BY <1>1, <2>2, <2>3, <2>4 DEF OthersStay
<1> QED BY StepKinds, <1>2, <1>3, <1>4, <1>5, <1>6
-------------------------------------------------------------------------------
(* Approved requests *)

(* Moving the money of a request is counted before the request is marked.      *)
LEMMA MoneyMovedSettles ==
  ASSUME TypeInv, SettledInv, NEW s \in Sessions, pc[s] # "idle", MoneyMoved(s),
         OthersStay(s), UNCHANGED requests
  PROVE  SettledInv'
<1> DEFINE r == job[s].request
<1>1. \A q \in RequestIds : done'[q] \in Nat /\ done[q] \in Nat /\ done[q] <= done'[q]
  BY DEF MoneyMoved, TypeInv, TypeOK, TablesOK
<1>2. ApprovedIsSettled'
  BY <1>1 DEF SettledInv, ApprovedIsSettled
<1>3. ApprovalIsSettled'
  <2> SUFFICES ASSUME NEW t \in Sessions, pc'[t] = "approveWrite"
               PROVE  done'[job'[t].request] > 0
    BY DEF ApprovalIsSettled
  <2>1. CASE t = s
    <3>1. r # NoRequest
      BY <2>1, CloseQuiet DEF MoneyMoved
    <3>2. r \in RequestIds
      BY <3>1, JobTyped
    <3> QED BY <2>1, <3>1, <3>2 DEF MoneyMoved, TypeInv, TypeOK, TablesOK
  <2>2. CASE t # s
    <3>1. pc[t] = "approveWrite" /\ job'[t] = job[t]
      BY <2>2 DEF OthersStay
    <3>2. job[t].request \in RequestIds
      BY <3>1, JobTyped DEF TypeInv, JobShape
    <3> QED BY <1>1, <3>1, <3>2 DEF SettledInv, ApprovalIsSettled
  <2> QED BY <2>1, <2>2
<1> QED BY <1>2, <1>3 DEF SettledInv

(* A request is marked approved after its money moved, never before.          *)
LEMMA SettledStep ==
  ASSUME TypeInv, SettledInv, NEW s \in Sessions, SessionStep(s)
  PROVE  SettledInv'
<1>1. OthersStay(s)
  BY StepKinds
<1>2. CASE QuietStep(s)
  BY <1>1, <1>2 DEF QuietStep, OthersStay, SettledInv, ApprovalIsSettled,
                    ApprovedIsSettled
<1>3. CASE PayRead(s) \/ TakesLock(s) \/ KeepsLock(s)
  <2>1. UNCHANGED <<requests, done>> /\ pc'[s] # "approveWrite"
    BY <1>3 DEF PayRead, TakesLock, KeepsLock, Goto, tables, history, TypeInv, TypeOK,
                SessionsOK
  <2> QED BY <1>1, <2>1 DEF OthersStay, SettledInv, ApprovalIsSettled,
                            ApprovedIsSettled
<1>4. CASE PayCommit(s) \/ RefundCommit(s)
  BY <1>1, <1>4, MoneyMovedSettles DEF PayCommit, RefundCommit
<1> QED BY StepKinds, <1>2, <1>3, <1>4

-------------------------------------------------------------------------------
(* The inductive invariant and the theorems it gives *)

(* The inductive invariant holds of the empty database.                       *)
LEMMA InitInv == Init => IInv
<1> SUFFICES ASSUME Init PROVE IInv
  OBVIOUS
<1>1. OneAccountPerPass /\ LockInv /\ MoneyInv /\ SettledInv
  BY DEF Init, OneAccountPerPass, LockInv, OneHolder, HolderIsCurrent, SumStillFits,
         MoneyInv, CopyWasReceived, PaidNeverExceedsReceipts,
         RefundedNeverExceedsReceipts, SettledInv, ApprovalIsSettled,
         ApprovedIsSettled, NoPass, NoPayment, NoRow, HoldsLock
<1> QED BY <1>1, InitType DEF IInv

(* Every step keeps the inductive invariant.                                  *)
LEMMA InvStep == IInv /\ [Next]_vars => IInv'
<1> SUFFICES ASSUME IInv, [Next]_vars PROVE IInv'
  OBVIOUS
<1>1. TypeInv'
  BY TypeStep DEF IInv
<1>2. CASE UNCHANGED vars \/ Transition
  <2>1. UNCHANGED <<pass, rows, pay, refunds, requests, pc, job, seen, receipts, done>>
    BY <1>2 DEF vars, Transition, session, history
  <2> QED BY <1>1, <2>1
          DEF IInv, OneAccountPerPass, LockInv, OneHolder, HolderIsCurrent,
              SumStillFits, MoneyInv, CopyWasReceived, PaidNeverExceedsReceipts,
              RefundedNeverExceedsReceipts, SettledInv, ApprovalIsSettled,
              ApprovedIsSettled
<1>3. ASSUME NEW s \in Sessions, SessionStep(s) PROVE IInv'
  BY <1>1, <1>3, AccountStep, LockStep, MoneyStep, SettledStep DEF IInv
<1> QED BY <1>2, <1>3 DEF Next, SessionStep

(* The inductive invariant holds in every reachable state.                    *)
THEOREM Invariance == Spec => []IInv
BY InitInv, InvStep, PTL DEF Spec

(* A flat never gets a second payment row, whatever first bookings race.       *)
THEOREM AccountCorrect == Spec => []OneAccountPerPass
<1>1. IInv => OneAccountPerPass
  BY DEF IInv
<1> QED BY <1>1, Invariance, PTL

(* Interleaved payments and bookings never make an account show more money     *)
(* than was received.                                                          *)
THEOREM PaidCorrect == Spec => []PaidNeverExceedsReceipts
<1>1. IInv => PaidNeverExceedsReceipts
  BY DEF IInv, MoneyInv
<1> QED BY <1>1, Invariance, PTL

(* No interleaving of refunds, approved twice or not, pays back more than was  *)
(* received from the flat.                                                     *)
THEOREM RefundedCorrect == Spec => []RefundedNeverExceedsReceipts
<1>1. IInv => RefundedNeverExceedsReceipts
  BY DEF IInv, MoneyInv
<1> QED BY <1>1, Invariance, PTL

(* A request is marked approved only once its money has moved.                 *)
THEOREM ApprovedCorrect == Spec => []ApprovedIsSettled
<1>1. IInv => ApprovedIsSettled
  BY DEF IInv, SettledInv
<1> QED BY <1>1, Invariance, PTL

-------------------------------------------------------------------------------
(* The account of a flat is what FlatAccount says *)

Shown == [f \in Flats |-> pay[f].paid]

(* A payment is a Receive: what it writes was received before or comes with it. *)
LEMMA PayCommitReceives ==
  ASSUME IInv, NEW s \in Sessions, PayCommit(s),
         NEW f \in Flats, f = job[s].flat, NEW amount, amount = job[s].amount
  PROVE  Account!Receive(f, amount)
<1> DEFINE sum == seen[s].paid + amount
<1>1. pc[s] = "payWrite" /\ amount \in Nat
  BY JobTyped DEF PayCommit, IInv
<1>2. seen[s].paid \in Nat /\ receipts \in [Flats -> Nat]
      /\ pay \in [Flats -> PaymentRow]
  BY DEF IInv, TypeInv, TypeOK, TablesOK, SessionsOK, PaymentRow
<1>3. receipts' = [receipts EXCEPT ![f] = @ + amount] /\ refunds' = refunds
  BY DEF PayCommit
<1>4. sum \in 0..receipts'[f]
  BY <1>1, <1>2, <1>3 DEF IInv, MoneyInv, CopyWasReceived
<1>5. \A g \in Flats : pay'[g].paid = IF g = f THEN sum ELSE pay[g].paid
  BY <1>1, <1>2 DEF PayCommit, PaymentRow
<1>6. Shown' = [Shown EXCEPT ![f] = sum]
  BY <1>5 DEF Shown
<1> QED BY <1>3, <1>4, <1>6 DEF Account!Receive, Shown

(* A refund is a Return: the lock makes the checked sum the current one.        *)
LEMMA RefundCommitReturns ==
  ASSUME IInv, NEW s \in Sessions, RefundCommit(s),
         NEW f \in Flats, f = job[s].flat, NEW amount, amount = job[s].amount
  PROVE  Account!Return(f, amount)
<1>1. refunds[f] + amount <= Shown[f]
  BY RefundFits DEF IInv, Shown
<1>2. \A g \in Flats : pay'[g].paid = pay[g].paid
  BY DEF RefundCommit, IInv, TypeInv, TypeOK, TablesOK, PaymentRow
<1>3. Shown' = Shown
  BY <1>2 DEF Shown
<1> QED BY <1>1, <1>3 DEF Account!Return, RefundCommit, Shown

(* Whatever else a session does leaves the account alone.                       *)
LEMMA OtherStepsStutter ==
  ASSUME IInv, NEW s \in Sessions, SessionStep(s), ~PayCommit(s), ~RefundCommit(s)
  PROVE  UNCHANGED Account!vars
<1>1. /\ UNCHANGED <<receipts, refunds>>
      /\ \A f \in Flats : pay'[f].paid = pay[f].paid
  BY StepKinds DEF IInv, QuietStep, PayRead, TakesLock, KeepsLock, tables, history
<1>2. Shown' = Shown
  BY <1>1 DEF Shown
<1> QED BY <1>1, <1>2 DEF Account!vars, Shown

(* Payments, bookings, refunds and approvals of any number of sessions keep the *)
(* promise of FlatAccount: they show no more than was received, and return no   *)
(* more than they show.                                                         *)
THEOREM AccountRefinement == Spec => ImplementsFlatAccount
<1>1. Init => Account!Init
  BY DEF Init, Account!Init, NoPayment
<1>2. IInv /\ [Next]_vars => [Account!Next]_(Account!vars)
  <2> SUFFICES ASSUME IInv, [Next]_vars PROVE [Account!Next]_(Account!vars)
    OBVIOUS
  <2>1. CASE UNCHANGED vars \/ Transition
    <3>1. UNCHANGED <<pay, receipts, refunds>>
      BY <2>1 DEF vars, Transition, history
    <3>2. Shown' = Shown
      BY <3>1 DEF Shown
    <3> QED BY <3>1, <3>2 DEF Account!vars, Shown
  <2>2. ASSUME NEW s \in Sessions, SessionStep(s)
        PROVE  [Account!Next]_(Account!vars)
    <3>1. CASE PayCommit(s) \/ RefundCommit(s)
      <4>1. PICK f \in Flats, amount \in Amounts : f = job[s].flat /\ amount = job[s].amount
        BY <3>1, JobTyped DEF IInv, TypeInv, JobShape, PayCommit, RefundCommit,
                              MoneyLabels, HoldsLock
      <4>2. Account!Receive(f, amount) \/ Account!Return(f, amount)
        BY <3>1, <4>1, PayCommitReceives, RefundCommitReturns
      <4>3. Account!Next
        BY <4>2 DEF Account!Next
      <4> QED BY <4>3
    <3>2. CASE ~PayCommit(s) /\ ~RefundCommit(s)
      BY <2>2, <3>2, OtherStepsStutter
    <3> QED BY <3>1, <3>2
  <2> QED BY <2>1, <2>2 DEF Next, SessionStep
<1> QED BY <1>1, <1>2, Invariance, PTL DEF Spec, ImplementsFlatAccount, Account!Spec
===============================================================================
