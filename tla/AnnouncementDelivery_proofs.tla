---------------------- MODULE AnnouncementDelivery_proofs ----------------------
(***************************************************************************)
(* For any number of members, threads, faults and attempts: what is on     *)
(* record as delivered was taken by the provider, as NoticeBook says,      *)
(* however claims overlap and wherever a thread stops; the types; and      *)
(* what holds while no two threads send at once: nobody is told twice, the *)
(* limit of attempts is kept and the counts are at most one behind.        *)
(***************************************************************************)
EXTENDS AnnouncementDelivery, FiniteSetTheorems, TLAPS

Working == {"mark", "refresh", "send", "record"}

(* The part of the types the argument needs: a thread at work on a         *)
(* delivery holds one that has a row.                                      *)
RowsAndThreads ==
  /\ rows \in [Members -> Row \cup {NoRow}]
  /\ taken \in [Members -> 0..2]
  /\ thread \in [Threads -> ThreadState]
  /\ \A t \in Threads : thread[t].at \in Working =>
       thread[t].member \in Members /\ rows[thread[t].member] # NoRow

(* "sent", in a row or in a thread about to record it, is said only of     *)
(* what the provider took.                                                 *)
SentWasTaken ==
  /\ \A m \in Members :
       rows[m] # NoRow /\ (rows[m].sent \/ rows[m].status = "sent") => taken[m] > 0
  /\ \A t \in Threads :
       thread[t].at = "record" /\ thread[t].outcome = "sent" => taken[thread[t].member] > 0

SentIInv == RowsAndThreads /\ SentWasTaken

(* A thread's batch and the queue's jobs are for deliveries that have a    *)
(* row.                                                                    *)
WorkHasRow ==
  /\ DOMAIN jobs = Members
  /\ \A m \in Members : rows[m] = NoRow => jobs[m] = [entries |-> 0, retries |-> 0]
  /\ \A t \in Threads : \A m \in thread[t].todo : rows[m] # NoRow

DeliveryIInv == SentIInv /\ WorkHasRow

-------------------------------------------------------------------------------
(* The types of rows and threads, one by one; a thread at work has a row.   *)
LEMMA DeliveryTypes ==
  ASSUME SentIInv
  PROVE  /\ rows \in [Members -> Row \cup {NoRow}] /\ taken \in [Members -> 0..2]
         /\ thread \in [Threads -> ThreadState]
         /\ \A m \in Members : rows[m] # NoRow => rows[m] \in Row
         /\ \A t \in Threads : thread[t] \in ThreadState
         /\ \A t \in Threads : thread[t].at \in Working =>
              thread[t].member \in Members /\ rows[thread[t].member] \in Row
BY DEF SentIInv, RowsAndThreads

(* A thread between deliveries, with whatever it still has to do.           *)
LEMMA IdleState ==
  /\ Idle \in ThreadState /\ Idle.at = "idle" /\ Idle.outcome = "sent"
  /\ \A todo \in SUBSET Members :
       LET rest == [Idle EXCEPT !.at = "next", !.todo = todo]
       IN  rest \in ThreadState /\ rest.at = "next"
<1>1. Idle \in ThreadState /\ Idle.at = "idle" /\ Idle.outcome = "sent"
  BY DeliveryAssumption DEF Idle, ThreadState, Statuses, Outcomes
<1>2. ASSUME NEW todo \in SUBSET Members
      PROVE  LET rest == [Idle EXCEPT !.at = "next", !.todo = todo]
             IN  rest \in ThreadState /\ rest.at = "next"
  BY <1>1 DEF ThreadState
<1> QED BY <1>1, <1>2

(* One thread moves on, rows keep what they say of sent deliveries.        *)
LEMMA ThreadMoves ==
  ASSUME SentIInv, NEW t \in Threads, NEW rec \in ThreadState,
         thread' = [thread EXCEPT ![t] = rec],
         rows' \in [Members -> Row \cup {NoRow}],
         \A m \in Members : rows[m] # NoRow => rows'[m] # NoRow,
         UNCHANGED taken,
         rec.at \in Working => rec.member \in Members /\ rows'[rec.member] # NoRow,
         rec.at = "record" /\ rec.outcome = "sent" => taken[rec.member] > 0,
         \A m \in Members :
           rows'[m] # NoRow /\ (rows'[m].sent \/ rows'[m].status = "sent") => taken[m] > 0
  PROVE  SentIInv'
<1>1. thread \in [Threads -> ThreadState] /\ taken \in [Members -> 0..2]
  BY DeliveryTypes
<1>2. thread'[t] = rec /\ \A u \in Threads : u # t => thread'[u] = thread[u]
  BY <1>1
<1>3. thread' \in [Threads -> ThreadState]
  BY <1>1
<1>4. \A u \in Threads : thread'[u].at \in Working =>
        thread'[u].member \in Members /\ rows'[thread'[u].member] # NoRow
  BY <1>2 DEF SentIInv, RowsAndThreads
<1>5. SentWasTaken'
  BY <1>2 DEF SentIInv, SentWasTaken
<1> QED BY <1>1, <1>3, <1>4, <1>5 DEF SentIInv, RowsAndThreads

(* Nothing is written, the thread has what it needs for its next step.     *)
LEMMA ThreadReads ==
  ASSUME SentIInv, NEW t \in Threads, NEW rec \in ThreadState,
         thread' = [thread EXCEPT ![t] = rec], UNCHANGED <<rows, taken>>,
         rec.at \in Working => rec.member \in Members /\ rows[rec.member] # NoRow,
         rec.at = "record" /\ rec.outcome = "sent" => taken[rec.member] > 0
  PROVE  SentIInv'
<1>1. rows' \in [Members -> Row \cup {NoRow}]
  BY DeliveryTypes
<1>2. \A m \in Members :
        rows'[m] # NoRow /\ (rows'[m].sent \/ rows'[m].status = "sent") => taken[m] > 0
  BY DEF SentIInv, SentWasTaken
<1> QED BY <1>1, <1>2, ThreadMoves

(* The chat command writes rows that say nothing of having been sent.       *)
LEMMA QueueKeeps ==
  ASSUME SentIInv, Queue
  PROVE  SentIInv' /\ \A m \in Members : ~(rows[m] # NoRow) /\ (rows'[m] # NoRow => ~rows'[m].sent)
<1>1. PICK T : rows' = [m \in Members |->
                 IF m \in T THEN [status |-> "pending", attempts |-> 0, sent |-> FALSE] ELSE NoRow]
  BY DEF Queue
<1>2. UNCHANGED <<taken, thread>> /\ \A m \in Members : ~(rows[m] # NoRow)
  BY DEF Queue, Announced
<1> DEFINE row == [status |-> "pending", attempts |-> 0, sent |-> FALSE]
<1>3. row \in Row /\ row.sent = FALSE /\ row.status = "pending"
  BY DeliveryAssumption DEF Row, Statuses
<1> HIDE DEF row
<1>4. \A m \in Members : rows'[m] = row \/ rows'[m] = NoRow
  BY <1>1 DEF row
<1>5. rows' \in [Members -> Row \cup {NoRow}]
  BY <1>1, <1>3 DEF row
<1>6. \A m \in Members : rows'[m] # NoRow => rows'[m].sent = FALSE /\ rows'[m].status = "pending"
  BY <1>3, <1>4
<1>7. \A t \in Threads : ~(thread[t].at \in Working)
  BY <1>2 DEF SentIInv, RowsAndThreads
<1>8. RowsAndThreads'
  BY <1>2, <1>5, <1>7 DEF SentIInv, RowsAndThreads
<1>9. SentWasTaken'
  BY <1>2, <1>6, <1>7 DEF SentWasTaken, Working
<1> QED BY <1>2, <1>6, <1>8, <1>9 DEF SentIInv

(* What NoticeBook sees of a state.                                        *)
Took == {m \in Members : taken[m] > 0}
OnRecord == {m \in Members : rows[m] # NoRow /\ rows[m].sent}

(* Claiming rows sets their status to processing: it neither takes nor      *)
(* records.                                                                 *)
LEMMA ClaimKeeps ==
  ASSUME SentIInv, NEW t \in Threads, Claim(t)
  PROVE  SentIInv' /\ UNCHANGED <<Took, OnRecord>>
<1>1. PICK batch \in SUBSET {m \in Members : Claimable(m)} :
        /\ rows' = [m \in Members |->
             IF m \in batch THEN [rows[m] EXCEPT !.status = "processing"] ELSE rows[m]]
        /\ IF setup.backend = "rq" THEN UNCHANGED thread
           ELSE thread' = [thread EXCEPT ![t] = [Idle EXCEPT !.at = "next", !.todo = batch]]
  BY DEF Claim
<1>2. UNCHANGED taken
  BY DEF Claim
<1>3. \A m \in Members : rows[m] # NoRow => rows[m] \in Row
  BY DeliveryTypes
<1>4. \A r \in Row : /\ [r EXCEPT !.status = "processing"] \in Row
                     /\ [r EXCEPT !.status = "processing"].sent = r.sent
                     /\ [r EXCEPT !.status = "processing"].status = "processing"
  BY DEF Row, Statuses
<1>5. \A m \in Members :
        \/ rows'[m] = rows[m]
        \/ /\ rows[m] # NoRow /\ rows'[m] \in Row
           /\ rows'[m].sent = rows[m].sent /\ rows'[m].status = "processing"
  <2> TAKE m \in Members
  <2>1. CASE m \in batch
    <3>1. rows[m] # NoRow
      BY <1>1, <2>1 DEF Claimable
    <3>2. rows'[m] = [rows[m] EXCEPT !.status = "processing"]
      BY <1>1, <2>1
    <3> QED BY <1>3, <1>4, <3>1, <3>2
  <2>2. CASE m \notin batch
    BY <1>1, <2>2
  <2> QED BY <2>1, <2>2
<1>6. rows \in [Members -> Row \cup {NoRow}]
  BY DeliveryTypes
<1>7. rows' \in [Members -> Row \cup {NoRow}]
  <2>1. rows' = [m \in Members |-> rows'[m]]
    BY <1>1
  <2>2. \A m \in Members : rows'[m] \in Row \cup {NoRow}
    BY <1>5, <1>6
  <2> QED BY <2>1, <2>2
<1>8. \A m \in Members : rows[m] # NoRow => rows'[m] # NoRow
  BY <1>5, RowAssumption
<1>9. \A m \in Members :
        rows'[m] # NoRow /\ (rows'[m].sent \/ rows'[m].status = "sent") => taken[m] > 0
  <2> SUFFICES ASSUME NEW m \in Members, rows'[m] # NoRow,
                      rows'[m].sent \/ rows'[m].status = "sent"
               PROVE  rows[m] # NoRow /\ (rows[m].sent \/ rows[m].status = "sent")
    BY DEF SentIInv, SentWasTaken
  <2>1. CASE rows'[m] = rows[m]
    BY <2>1
  <2>2. CASE rows[m] # NoRow /\ rows'[m].sent = rows[m].sent /\ rows'[m].status = "processing"
    BY <2>2
  <2> QED BY <1>5, <2>1, <2>2
<1>10. UNCHANGED <<Took, OnRecord>>
  <2>1. \A m \in Members : (rows'[m] # NoRow /\ rows'[m].sent) <=> (rows[m] # NoRow /\ rows[m].sent)
    BY <1>5, RowAssumption
  <2> QED BY <1>2, <2>1 DEF Took, OnRecord
<1>11. CASE setup.backend = "rq"
  <2>1. UNCHANGED thread
    BY <1>1, <1>11
  <2>2. RowsAndThreads'
    BY <1>2, <1>7, <1>8, <2>1 DEF SentIInv, RowsAndThreads
  <2>3. SentWasTaken'
    BY <1>2, <1>9, <2>1 DEF SentIInv, SentWasTaken
  <2> QED BY <1>10, <2>2, <2>3 DEF SentIInv
<1>12. CASE setup.backend # "rq"
  <2> DEFINE rest == [Idle EXCEPT !.at = "next", !.todo = batch]
  <2>1. thread' = [thread EXCEPT ![t] = rest]
    BY <1>1, <1>12
  <2>2. rest \in ThreadState /\ rest.at = "next"
    BY IdleState
  <2> HIDE DEF rest
  <2>3. SentIInv'
    BY <1>2, <1>7, <1>8, <1>9, <2>1, <2>2, ThreadMoves DEF Working
  <2> QED BY <1>10, <2>3
<1> QED BY <1>11, <1>12

(* A thread that loads a row does not take over more than the row says.     *)
LEMMA LoadKeeps ==
  ASSUME SentIInv, NEW t \in Threads, NEW m \in Members, NEW rest \in SUBSET Members,
         Load(t, m, rest), UNCHANGED <<rows, taken>>, rows[m] # NoRow
  PROVE  SentIInv'
<1> DEFINE next == [Idle EXCEPT !.at = "next", !.todo = rest]
           mark == [Idle EXCEPT !.at = "mark", !.todo = rest, !.member = m,
                                !.status = rows[m].status]
<1>1. rows[m].status \in Statuses
  BY DeliveryTypes DEF Row
<1>2. mark \in ThreadState /\ mark.at = "mark" /\ mark.member = m
  BY <1>1, IdleState DEF ThreadState
<1>3. next \in ThreadState /\ next.at = "next"
  BY IdleState
<1>4. PICK rec \in {Idle, next, mark} : thread' = [thread EXCEPT ![t] = rec]
  BY DEF Load
<1> HIDE DEF next, mark
<1>5. rec \in ThreadState /\ (rec.at \in Working => rec.member = m) /\ rec.at # "record"
  BY <1>2, <1>3, <1>4, IdleState DEF Working
<1> QED BY <1>4, <1>5, ThreadReads

(* The commit of processing leaves the sending times as they are.           *)
LEMMA MarkKeeps ==
  ASSUME SentIInv, NEW t \in Threads, Mark(t)
  PROVE  SentIInv' /\ UNCHANGED <<Took, OnRecord>> /\ thread'[t].todo = thread[t].todo
<1> DEFINE m == thread[t].member
           rec == [thread[t] EXCEPT !.at = "refresh", !.status = "pending"]
<1>1. thread[t] \in ThreadState /\ m \in Members /\ rows[m] \in Row /\ rows[m] # NoRow
  BY DeliveryTypes, RowAssumption DEF Mark, Working
<1>2. thread' = [thread EXCEPT ![t] = rec] /\ UNCHANGED taken
  BY DeliveryTypes DEF Mark
<1>3. rec \in ThreadState /\ rec.at = "refresh" /\ rec.member = m /\ rec.todo = thread[t].todo
  BY <1>1 DEF ThreadState, Statuses
<1>4. rows' = rows \/ rows' = [rows EXCEPT ![m] = [rows[m] EXCEPT !.status = "processing"]]
  BY DEF Mark
<1>5. thread'[t] = rec
  BY <1>2, DeliveryTypes
<1> HIDE DEF rec
<1> DEFINE r == [rows[m] EXCEPT !.status = "processing"]
<1>6. r \in Row /\ r.sent = rows[m].sent /\ r.status = "processing" /\ r # NoRow
  BY <1>1, RowAssumption DEF Row, Statuses
<1> HIDE DEF r, m
<1>7. CASE rows' = rows
  <2>1. SentIInv'
    BY <1>1, <1>2, <1>3, <1>7, ThreadReads
  <2> QED BY <1>2, <1>3, <1>5, <1>7, <2>1 DEF Took, OnRecord
<1>8. CASE rows' = [rows EXCEPT ![m] = r]
  <2>1. rows \in [Members -> Row \cup {NoRow}]
    BY DeliveryTypes
  <2>2. rows' \in [Members -> Row \cup {NoRow}]
    BY <1>6, <1>8, <2>1
  <2>3. rows'[m] = r /\ \A n \in Members : n # m => rows'[n] = rows[n]
    BY <1>1, <1>8, <2>1
  <2>4. \A n \in Members : rows[n] # NoRow => rows'[n] # NoRow
    BY <1>6, <2>3
  <2>5. \A n \in Members :
          rows'[n] # NoRow /\ (rows'[n].sent \/ rows'[n].status = "sent") => taken[n] > 0
    <3> SUFFICES ASSUME NEW n \in Members, rows'[n] # NoRow,
                        rows'[n].sent \/ rows'[n].status = "sent"
                 PROVE  rows[n] # NoRow /\ (rows[n].sent \/ rows[n].status = "sent")
      BY DEF SentIInv, SentWasTaken
    <3> QED BY <1>1, <1>6, <2>3
  <2>6. SentIInv'
    BY <1>1, <1>2, <1>3, <2>2, <2>4, <2>5, ThreadMoves
  <2>7. \A n \in Members : (rows'[n] # NoRow /\ rows'[n].sent) <=> (rows[n] # NoRow /\ rows[n].sent)
    BY <1>1, <1>6, <2>3
  <2> QED BY <1>2, <1>3, <1>5, <2>6, <2>7 DEF Took, OnRecord
<1> QED BY <1>4, <1>7, <1>8 DEF r

(* A thread that reloads a row which says sent may record so: the provider  *)
(* took it.                                                                 *)
LEMMA RefreshKeeps ==
  ASSUME SentIInv, NEW t \in Threads, Refresh(t)
  PROVE  SentIInv' /\ thread'[t].todo = thread[t].todo
<1> DEFINE m == thread[t].member
           copy == [thread[t] EXCEPT !.status = rows[m].status, !.attempts = rows[m].attempts]
<1>1. thread[t] \in ThreadState /\ m \in Members /\ rows[m] \in Row /\ rows[m] # NoRow
  BY DeliveryTypes, RowAssumption DEF Refresh, Working
<1>2. UNCHANGED <<rows, taken>>
  BY DEF Refresh
<1>3. copy \in ThreadState /\ copy.member = m /\ copy.todo = thread[t].todo
  BY <1>1 DEF ThreadState, Row
<1>4. \/ /\ rows[m].status = "sent"
         /\ thread' = [thread EXCEPT ![t] = [copy EXCEPT !.at = "record", !.outcome = "sent"]]
      \/ thread' = [thread EXCEPT ![t] = [copy EXCEPT !.at = "send"]]
      \/ \E o \in {"skipped", "error"} :
           thread' = [thread EXCEPT ![t] = [copy EXCEPT !.at = "record", !.outcome = o]]
  BY DEF Refresh
<1> HIDE DEF copy
<1>5. \A o \in Outcomes : LET rec == [copy EXCEPT !.at = "record", !.outcome = o]
                          IN  /\ rec \in ThreadState /\ rec.member = m /\ rec.outcome = o
                              /\ rec.todo = thread[t].todo
  BY <1>3 DEF ThreadState
<1>6. LET rec == [copy EXCEPT !.at = "send"]
      IN  /\ rec \in ThreadState /\ rec.member = m /\ rec.at = "send"
          /\ rec.todo = thread[t].todo
  BY <1>3 DEF ThreadState
<1>7. PICK rec \in ThreadState :
        /\ thread' = [thread EXCEPT ![t] = rec] /\ rec.member = m
        /\ rec.todo = thread[t].todo
        /\ rec.at = "record" /\ rec.outcome = "sent" => rows[m].status = "sent"
  <2>1. "sent" \in Outcomes /\ "skipped" \in Outcomes /\ "error" \in Outcomes
    BY DEF Outcomes
  <2> QED BY <1>4, <1>5, <1>6, <2>1
<1>8. rec.at = "record" /\ rec.outcome = "sent" => taken[m] > 0
  BY <1>1, <1>7 DEF SentIInv, SentWasTaken
<1>9. SentIInv'
  BY <1>1, <1>2, <1>7, <1>8, ThreadReads
<1>10. thread'[t] = rec
  BY <1>7, DeliveryTypes
<1> QED BY <1>7, <1>9, <1>10

(* Sending takes the notice of the thread's member, or of nobody.           *)
LEMMA SendKeeps ==
  ASSUME SentIInv, NEW t \in Threads, Send(t)
  PROVE  /\ SentIInv' /\ UNCHANGED OnRecord /\ thread'[t].todo = thread[t].todo
         /\ Took' = Took \/ Took' = Took \cup {thread[t].member}
         /\ thread[t].member \in Members
<1> DEFINE m == thread[t].member
<1>1. thread[t] \in ThreadState /\ m \in Members /\ rows[m] # NoRow
  BY DeliveryTypes, RowAssumption DEF Send, Working
<1>2. UNCHANGED rows /\ rows \in [Members -> Row \cup {NoRow}] /\ taken \in [Members -> 0..2]
      /\ thread \in [Threads -> ThreadState]
  BY DeliveryTypes DEF Send
<1>3. PICK o \in Outcomes :
        /\ thread' = [thread EXCEPT ![t].at = "record", ![t].outcome = o]
        /\ (taken' = taken /\ o # "sent") \/ Takes(m)
  BY DEF Send, Outcomes
<1> DEFINE rec == [thread[t] EXCEPT !.at = "record", !.outcome = o]
<1>4. /\ rec \in ThreadState /\ rec.at = "record" /\ rec.member = m /\ rec.outcome = o
      /\ rec.todo = thread[t].todo
  BY <1>1 DEF ThreadState
<1>5. thread' = [thread EXCEPT ![t] = rec]
  BY <1>2, <1>3
<1> HIDE DEF rec, m
<1>6. CASE taken' = taken /\ o # "sent"
  <2>1. SentIInv'
    BY <1>1, <1>2, <1>4, <1>5, <1>6, ThreadReads
  <2>2. thread'[t] = rec
    BY <1>2, <1>5
  <2> QED BY <1>1, <1>2, <1>4, <1>6, <2>1, <2>2 DEF Took, OnRecord, m
<1>7. CASE Takes(m)
  <2>1. taken[m] \in 0..2
    BY <1>1, <1>2
  <2> DEFINE k == IF taken[m] < 2 THEN taken[m] + 1 ELSE taken[m]
  <2>2. k \in 0..2 /\ k > 0 /\ taken' = [taken EXCEPT ![m] = k]
    BY <1>7, <2>1 DEF Takes
  <2> HIDE DEF k
  <2>3. taken' \in [Members -> 0..2]
    BY <1>2, <2>2
  <2>4. taken'[m] = k /\ \A n \in Members : n # m => taken'[n] = taken[n]
    BY <1>1, <1>2, <2>2
  <2>5. \A n \in Members : taken[n] > 0 => taken'[n] > 0
    BY <2>2, <2>4
  <2>6. taken'[m] > 0
    BY <2>2, <2>4
  <2>7. thread'[t] = rec /\ \A u \in Threads : u # t => thread'[u] = thread[u]
    BY <1>2, <1>5
  <2>8. RowsAndThreads'
    <3>1. thread' \in [Threads -> ThreadState]
      BY <1>2, <1>4, <1>5
    <3>2. \A u \in Threads : thread'[u].at \in Working =>
            thread'[u].member \in Members /\ rows'[thread'[u].member] # NoRow
      <4> TAKE u \in Threads
      <4>1. CASE u = t
        BY <1>1, <1>2, <1>4, <2>7, <4>1
      <4>2. CASE u # t
        BY <1>2, <2>7, <4>2 DEF SentIInv, RowsAndThreads
      <4> QED BY <4>1, <4>2
    <3> QED BY <1>2, <2>3, <3>1, <3>2 DEF RowsAndThreads
  <2>9. SentWasTaken'
    <3>1. \A n \in Members :
            rows'[n] # NoRow /\ (rows'[n].sent \/ rows'[n].status = "sent") => taken'[n] > 0
      BY <1>2, <2>5 DEF SentIInv, SentWasTaken
    <3>2. ASSUME NEW u \in Threads, thread'[u].at = "record", thread'[u].outcome = "sent"
          PROVE  taken'[thread'[u].member] > 0
      <4>1. CASE u = t
        BY <1>4, <2>6, <2>7, <4>1
      <4>2. CASE u # t
        <5>1. thread[u].at = "record" /\ thread[u].outcome = "sent" /\ thread'[u].member = thread[u].member
          BY <2>7, <3>2, <4>2
        <5>2. thread[u].member \in Members
          BY <5>1, DeliveryTypes DEF Working
        <5> QED BY <2>5, <5>1, <5>2 DEF SentIInv, SentWasTaken
      <4> QED BY <4>1, <4>2
    <3> QED BY <3>1, <3>2 DEF SentWasTaken
  <2>10. Took' = Took \cup {m}
    <3>1. ASSUME NEW n \in Members PROVE taken'[n] > 0 <=> taken[n] > 0 \/ n = m
      BY <2>4, <2>6
    <3> QED BY <1>1, <3>1 DEF Took
  <2> QED BY <1>1, <1>2, <1>4, <2>7, <2>8, <2>9, <2>10 DEF OnRecord, SentIInv, m
<1> QED BY <1>3, <1>6, <1>7

(* Only an outcome "sent" leads to the status "sent".                      *)
LEMMA StatusOfOutcome ==
  ASSUME NEW outcome \in Outcomes, NEW attempts \in Nat
  PROVE  /\ NextStatus(outcome, attempts) \in Statuses
         /\ NextStatus(outcome, attempts) = "sent" => outcome = "sent"
<1>1. CASE outcome \in {"sent", "skipped"}
  BY <1>1 DEF NextStatus, Statuses
<1>2. CASE outcome = "error"
  BY <1>2 DEF NextStatus, Statuses
<1>3. CASE outcome = "transient"
  BY <1>3 DEF NextStatus, Statuses
<1> QED BY <1>1, <1>2, <1>3 DEF Outcomes

(* After a delivery a thread is idle or goes on with its batch.             *)
LEMMA RestState ==
  ASSUME NEW t \in Threads, thread[t] \in ThreadState
  PROVE  /\ Rest(t) \in ThreadState /\ Rest(t).at \in {"idle", "next"}
         /\ Rest(t).todo \subseteq thread[t].todo
<1> DEFINE next == [Idle EXCEPT !.at = "next", !.todo = thread[t].todo]
<1>1. thread[t].todo \in SUBSET Members
  BY DEF ThreadState
<1>2. next \in ThreadState /\ next.at = "next"
  BY <1>1, IdleState
<1>3. next.todo = thread[t].todo /\ Idle.todo = {}
  BY DEF Idle
<1>4. Rest(t) \in {Idle, next}
  BY DEF Rest
<1> HIDE DEF next
<1> QED BY <1>2, <1>3, <1>4, IdleState

(* Recording writes a sending time only into the row of a notice that was   *)
(* taken.                                                                   *)
LEMMA RecordKeeps ==
  ASSUME SentIInv, NEW t \in Threads, Record(t)
  PROVE  /\ SentIInv' /\ UNCHANGED Took /\ thread'[t].todo \subseteq thread[t].todo
         /\ \/ OnRecord' = OnRecord
            \/ thread[t].member \in Took /\ OnRecord' = OnRecord \cup {thread[t].member}
         /\ \A n \in Members : rows[n] # NoRow => rows'[n] # NoRow
<1> DEFINE m == thread[t].member
           outcome == thread[t].outcome
           said == NextStatus(outcome, OneMore(thread[t].attempts))
           status == IF said = thread[t].status THEN rows[m].status ELSE said
           tried == OneMore(thread[t].attempts)
           stamp == rows[m].sent \/ outcome = "sent"
           row == [status |-> status, attempts |-> tried, sent |-> stamp]
<1>1. /\ thread[t] \in ThreadState /\ m \in Members /\ rows[m] \in Row /\ rows[m] # NoRow
      /\ rows \in [Members -> Row \cup {NoRow}] /\ taken \in [Members -> 0..2]
      /\ thread \in [Threads -> ThreadState] /\ thread[t].at = "record"
  BY DeliveryTypes, RowAssumption DEF Record, Working
<1>2. rows' = [rows EXCEPT ![m] = row] /\ thread' = [thread EXCEPT ![t] = Rest(t)] /\ UNCHANGED taken
  BY <1>1 DEF Record
<1>3. outcome \in Outcomes /\ thread[t].attempts \in 0..MaxAttempts + 1 /\ rows[m].status \in Statuses
      /\ rows[m].sent \in BOOLEAN
  BY <1>1 DEF ThreadState, Row
<1>4. tried \in 0..MaxAttempts + 1
  BY <1>3, DeliveryAssumption DEF OneMore
<1>5. said \in Statuses /\ (said = "sent" => outcome = "sent")
  BY <1>3, <1>4, StatusOfOutcome
<1>6. status \in Statuses /\ (status = "sent" => rows[m].status = "sent" \/ outcome = "sent")
  BY <1>3, <1>5
<1>7. stamp \in BOOLEAN /\ (stamp <=> rows[m].sent \/ outcome = "sent")
  OBVIOUS
<1> HIDE DEF tried, said, status, stamp
<1>8. row \in Row /\ row.status = status /\ row.sent = stamp
  BY <1>4, <1>6, <1>7 DEF Row
<1> HIDE DEF row
<1>9. outcome = "sent" => taken[m] > 0
  BY <1>1 DEF SentIInv, SentWasTaken
<1> HIDE DEF m, outcome
<1>10. rows'[m] = row /\ \A n \in Members : n # m => rows'[n] = rows[n]
  BY <1>1, <1>2
<1>11. rows' \in [Members -> Row \cup {NoRow}]
  BY <1>1, <1>2, <1>8
<1>12. row # NoRow /\ \A n \in Members : rows[n] # NoRow => rows'[n] # NoRow
  BY <1>8, <1>10, RowAssumption
<1>13. ASSUME NEW n \in Members, rows'[n] # NoRow, rows'[n].sent \/ rows'[n].status = "sent"
       PROVE  taken[n] > 0
  <2>1. CASE n # m
    BY <1>10, <1>13, <2>1 DEF SentIInv, SentWasTaken
  <2>2. CASE n = m
    <3>1. stamp \/ status = "sent"
      BY <1>8, <1>10, <1>13, <2>2
    <3>2. rows[m].sent \/ rows[m].status = "sent" \/ outcome = "sent"
      BY <1>6, <1>7, <3>1
    <3> QED BY <1>1, <1>9, <2>2, <3>2 DEF SentIInv, SentWasTaken
  <2> QED BY <2>1, <2>2
<1>14. Rest(t) \in ThreadState /\ Rest(t).at \in {"idle", "next"} /\ Rest(t).todo \subseteq thread[t].todo
  BY <1>1, RestState
<1>15. SentIInv'
  BY <1>2, <1>11, <1>12, <1>13, <1>14, ThreadMoves DEF Working
<1>16. thread'[t] = Rest(t)
  BY <1>1, <1>2
<1>17. OnRecord' = IF stamp THEN OnRecord \cup {m} ELSE OnRecord
  <2>1. ASSUME NEW n \in Members, n # m
        PROVE  (rows'[n] # NoRow /\ rows'[n].sent) <=> (rows[n] # NoRow /\ rows[n].sent)
    BY <1>10, <2>1
  <2>2. (rows'[m] # NoRow /\ rows'[m].sent) <=> stamp
    BY <1>8, <1>10, <1>12
  <2>3. CASE stamp
    BY <1>1, <2>1, <2>2, <2>3 DEF OnRecord
  <2>4. CASE ~stamp
    <3>1. ~rows[m].sent
      BY <1>7, <2>4
    <3> QED BY <1>1, <2>1, <2>2, <2>4, <3>1 DEF OnRecord
  <2> QED BY <2>3, <2>4
<1>18. \/ OnRecord' = OnRecord
       \/ m \in Took /\ OnRecord' = OnRecord \cup {m}
  <2>1. CASE stamp
    <3>1. rows[m].sent \/ outcome = "sent"
      BY <1>7, <2>1
    <3>2. taken[m] > 0
      BY <1>1, <1>9, <3>1 DEF SentIInv, SentWasTaken
    <3> QED BY <1>1, <1>17, <2>1, <3>2 DEF Took
  <2>2. CASE ~stamp
    BY <1>17, <2>2
  <2> QED BY <2>1, <2>2
<1>19. UNCHANGED Took
  BY <1>2 DEF Took
<1> QED BY <1>12, <1>14, <1>15, <1>16, <1>18, <1>19 DEF m

(* A thread that stops leaves rows and provider alone.                      *)
LEMMA StopKeeps ==
  ASSUME SentIInv, NEW t \in Threads, Stop(t)
  PROVE  SentIInv' /\ UNCHANGED <<Took, OnRecord>>
<1>1. SentIInv'
  BY IdleState, ThreadReads DEF Stop, Working
<1> QED BY <1>1 DEF Stop, Took, OnRecord

-------------------------------------------------------------------------------
(* A row, once there, stays, and work is added only for rows that are there. *)
LEMMA WorkKeeps ==
  ASSUME WorkHasRow, DOMAIN jobs' = Members,
         \A m \in Members : rows[m] # NoRow => rows'[m] # NoRow,
         \A m \in Members : jobs'[m] = jobs[m] \/ rows'[m] # NoRow,
         \A t \in Threads : thread'[t].todo \subseteq Members,
         \A t \in Threads : \A m \in thread'[t].todo : m \in thread[t].todo \/ rows[m] # NoRow
  PROVE  WorkHasRow'
BY DEF WorkHasRow

(* The queue grows only by jobs for the rows at hand.                      *)
LEMMA EnqueueAdds ==
  ASSUME DOMAIN jobs = Members, NEW batch, EnqueueAll(batch)
  PROVE  DOMAIN jobs' = Members /\ \A m \in Members : m \in batch \/ jobs'[m] = jobs[m]
<1>1. CASE setup.backend = "local"
  BY <1>1 DEF EnqueueAll
<1>2. CASE setup.backend # "local"
  <2>1. PICK reached \in SUBSET batch :
          jobs' = [m \in Members |->
            IF m \in reached
            THEN [entries |-> OneEntryMore(jobs[m].entries), retries |-> MaxAttempts - 1]
            ELSE jobs[m]]
    BY <1>2 DEF EnqueueAll
  <2> QED BY <2>1
<1> QED BY <1>1, <1>2

(* Before the command there are no rows, and nothing was taken.             *)
LEMMA DeliveryStart == ASSUME Init PROVE DeliveryIInv /\ Took = {} /\ OnRecord = {}
<1>1. rows = [m \in Members |-> NoRow] /\ thread = [t \in Threads |-> Idle]
      /\ taken = [m \in Members |-> 0] /\ jobs = [m \in Members |-> [entries |-> 0, retries |-> 0]]
  BY DEF Init
<1>2. \A t \in Threads : ~(thread[t].at \in Working) /\ thread[t].at # "record"
  BY <1>1, IdleState DEF Working
<1>3. RowsAndThreads
  <2>1. rows \in [Members -> Row \cup {NoRow}] /\ taken \in [Members -> 0..2]
    BY <1>1
  <2>2. thread \in [Threads -> ThreadState]
    BY <1>1, IdleState
  <2> QED BY <1>2, <2>1, <2>2 DEF RowsAndThreads
<1>4. SentWasTaken
  BY <1>1, <1>2 DEF SentWasTaken
<1>5. WorkHasRow
  BY <1>1 DEF WorkHasRow, Idle
<1>6. Took = {} /\ OnRecord = {}
  BY <1>1 DEF Took, OnRecord
<1> QED BY <1>3, <1>4, <1>5, <1>6 DEF DeliveryIInv, SentIInv

(* A step keeps the invariant and is a step of the book or none of it.     *)
BookStep == \/ UNCHANGED <<Took, OnRecord>>
            \/ \E m \in Members : Took' = Took \cup {m} /\ UNCHANGED OnRecord
            \/ \E m \in Took : OnRecord' = OnRecord \cup {m} /\ UNCHANGED Took

(* Queueing is no step of NoticeBook, and jobs are made for rows only.      *)
LEMMA QueueStep == ASSUME DeliveryIInv, Queue PROVE DeliveryIInv' /\ BookStep
<1>1. SentIInv' /\ \A m \in Members : ~(rows[m] # NoRow) /\ (rows'[m] # NoRow => ~rows'[m].sent)
  BY QueueKeeps DEF DeliveryIInv
<1>2. UNCHANGED <<Took, OnRecord>>
  <2>1. UNCHANGED taken
    BY DEF Queue
  <2> QED BY <1>1, <2>1 DEF Took, OnRecord
<1>3. PICK T \in Targets("event") \cup Targets("society") :
        /\ rows' = [m \in Members |->
             IF m \in T THEN [status |-> "pending", attempts |-> 0, sent |-> FALSE] ELSE NoRow]
        /\ EnqueueAll(T)
  BY DEF Queue
<1>4. DOMAIN jobs' = Members /\ \A m \in Members : m \in T \/ jobs'[m] = jobs[m]
  BY <1>3, EnqueueAdds DEF DeliveryIInv, WorkHasRow
<1> DEFINE row == [status |-> "pending", attempts |-> 0, sent |-> FALSE]
<1>5. row \in Row
  BY DeliveryAssumption DEF Row, Statuses
<1>6. \A m \in Members : m \in T => rows'[m] # NoRow
  <2> HIDE DEF row
  <2>1. row # NoRow
    BY <1>5, RowAssumption
  <2> QED BY <1>3, <2>1 DEF row
<1>7. UNCHANGED thread /\ \A t \in Threads : thread[t].todo \subseteq Members
  BY <1>1, DeliveryTypes DEF Queue, ThreadState, DeliveryIInv
<1>8. WorkHasRow'
  BY <1>1, <1>4, <1>6, <1>7, WorkKeeps DEF DeliveryIInv
<1> QED BY <1>1, <1>2, <1>8 DEF DeliveryIInv, BookStep

(* Nor is claiming, whether the batch stays with the thread or goes to RQ.  *)
LEMMA ClaimStep ==
  ASSUME DeliveryIInv, NEW t \in Threads, Claim(t) PROVE DeliveryIInv' /\ BookStep
<1>1. SentIInv' /\ UNCHANGED <<Took, OnRecord>>
  BY ClaimKeeps DEF DeliveryIInv
<1>2. PICK batch \in SUBSET {m \in Members : Claimable(m)} :
        /\ rows' = [m \in Members |->
             IF m \in batch THEN [rows[m] EXCEPT !.status = "processing"] ELSE rows[m]]
        /\ EnqueueAll(batch)
        /\ \/ UNCHANGED thread
           \/ thread' = [thread EXCEPT ![t] = [Idle EXCEPT !.at = "next", !.todo = batch]]
  BY DEF Claim
<1>3. \A m \in batch : m \in Members /\ rows[m] # NoRow
  BY <1>2 DEF Claimable
<1>4. DOMAIN jobs' = Members /\ \A m \in Members : m \in batch \/ jobs'[m] = jobs[m]
  BY <1>2, EnqueueAdds DEF DeliveryIInv, WorkHasRow
<1>5. \A m \in Members : rows[m] # NoRow => rows'[m] # NoRow
  <2> TAKE m \in Members
  <2>1. HAVE rows[m] # NoRow
  <2>2. rows[m] \in Row
    BY <2>1, DeliveryTypes DEF DeliveryIInv
  <2>3. [rows[m] EXCEPT !.status = "processing"] \in Row
    BY <2>2 DEF Row, Statuses
  <2> QED BY <1>2, <2>1, <2>3, RowAssumption
<1>6. thread \in [Threads -> ThreadState]
  BY DeliveryTypes DEF DeliveryIInv
<1>7. \A u \in Threads : thread'[u] = thread[u] \/ thread'[u].todo = batch
  <2> DEFINE next == [Idle EXCEPT !.at = "next", !.todo = batch]
  <2>1. next.todo = batch
    BY DEF Idle
  <2>2. UNCHANGED thread \/ thread' = [thread EXCEPT ![t] = next]
    BY <1>2
  <2> HIDE DEF next
  <2> QED BY <1>6, <2>1, <2>2
<1>8. WorkHasRow'
  <2>1. \A u \in Threads : thread[u].todo \subseteq Members
    BY <1>6 DEF ThreadState
  <2> QED BY <1>3, <1>4, <1>5, <1>7, <2>1, WorkKeeps DEF DeliveryIInv
<1> QED BY <1>1, <1>8 DEF DeliveryIInv, BookStep

(* A thread's work leaves jobs, and its batch but for what it takes.       *)
LEMMA ThreadWorks ==
  ASSUME DeliveryIInv, NEW t \in Threads, NEW rec, thread' = [thread EXCEPT ![t] = rec],
         rec.todo \subseteq thread[t].todo, DOMAIN jobs' = Members,
         \A m \in Members : rows[m] # NoRow => rows'[m] # NoRow,
         \A m \in Members : jobs'[m] = jobs[m] \/ rows[m] # NoRow
  PROVE  WorkHasRow'
<1>1. thread \in [Threads -> ThreadState] /\ \A u \in Threads : thread[u].todo \subseteq Members
  BY DeliveryTypes DEF DeliveryIInv, ThreadState
<1>2. thread'[t] = rec /\ \A u \in Threads : u # t => thread'[u] = thread[u]
  BY <1>1
<1>3. \A u \in Threads : thread'[u].todo \subseteq thread[u].todo
  BY <1>2
<1> QED BY <1>1, <1>3, WorkKeeps DEF DeliveryIInv

(* Nor is loading a row, from the batch or for a job.                       *)
LEMMA LoadWorks ==
  ASSUME DeliveryIInv, NEW t \in Threads, NEW m \in Members, NEW rest, rest \subseteq thread[t].todo,
         Load(t, m, rest), UNCHANGED <<rows, taken>>, rows[m] # NoRow,
         DOMAIN jobs' = Members, \A n \in Members : jobs'[n] = jobs[n] \/ rows[n] # NoRow
  PROVE  DeliveryIInv' /\ BookStep
<1>1. rest \in SUBSET Members
  BY DeliveryTypes DEF DeliveryIInv, ThreadState
<1>2. SentIInv'
  BY <1>1, LoadKeeps DEF DeliveryIInv
<1> DEFINE next == [Idle EXCEPT !.at = "next", !.todo = rest]
           mark == [Idle EXCEPT !.at = "mark", !.todo = rest, !.member = m,
                                !.status = rows[m].status]
<1>3. PICK rec \in {Idle, next, mark} : thread' = [thread EXCEPT ![t] = rec]
  BY DEF Load
<1>4. Idle.todo = {} /\ next.todo = rest /\ mark.todo = rest
  BY DEF Idle
<1> HIDE DEF next, mark
<1>5. rec.todo \subseteq thread[t].todo
  BY <1>3, <1>4
<1>6. WorkHasRow'
  BY <1>3, <1>5, ThreadWorks
<1> QED BY <1>2, <1>6 DEF DeliveryIInv, BookStep, Took, OnRecord

(* Every step keeps the invariant and is one of NoticeBook's or none.       *)
LEMMA DeliveryStep ==
  ASSUME DeliveryIInv, [Next]_vars PROVE DeliveryIInv' /\ BookStep
<1>1. CASE UNCHANGED vars
  BY <1>1 DEF vars, DeliveryIInv, SentIInv, RowsAndThreads, SentWasTaken, WorkHasRow,
              BookStep, Took, OnRecord
<1>2. CASE Queue
  BY <1>2, QueueStep
<1>3. ASSUME NEW t \in Threads, Claim(t) PROVE DeliveryIInv' /\ BookStep
  BY <1>3, ClaimStep
<1>4. ASSUME NEW t \in Threads, NEW m \in Members, TakeFromBatch(t, m)
      PROVE  DeliveryIInv' /\ BookStep
  <2>1. rows[m] # NoRow /\ DOMAIN jobs = Members
    BY <1>4 DEF TakeFromBatch, DeliveryIInv, WorkHasRow
  <2>2. Load(t, m, thread[t].todo \ {m}) /\ UNCHANGED <<rows, taken, jobs>>
    BY <1>4 DEF TakeFromBatch
  <2> QED BY <2>1, <2>2, LoadWorks
<1>5. ASSUME NEW t \in Threads, NEW m \in Members, TakeJob(t, m)
      PROVE  DeliveryIInv' /\ BookStep
  <2>1. DOMAIN jobs = Members
    BY DEF DeliveryIInv, WorkHasRow
  <2>2. Load(t, m, {}) /\ UNCHANGED <<rows, taken>>
    BY <1>5 DEF TakeJob
  <2>3. rows[m] # NoRow
    <3>1. jobs[m].entries > 0
      BY <1>5 DEF TakeJob
    <3>2. rows[m] = NoRow => jobs[m].entries = 0
      BY DEF DeliveryIInv, WorkHasRow
    <3> QED BY <3>1, <3>2
  <2>4. jobs' = [jobs EXCEPT ![m].entries = @ - 1]
    BY <1>5 DEF TakeJob
  <2>5. DOMAIN jobs' = Members /\ \A n \in Members : jobs'[n] = jobs[n] \/ rows[n] # NoRow
    BY <2>1, <2>3, <2>4
  <2> QED BY <2>2, <2>3, <2>5, LoadWorks
<1>6. ASSUME NEW t \in Threads, Mark(t) PROVE DeliveryIInv' /\ BookStep
  <2>1. SentIInv' /\ UNCHANGED <<Took, OnRecord>> /\ thread'[t].todo = thread[t].todo
    BY <1>6, MarkKeeps DEF DeliveryIInv
  <2>2. UNCHANGED jobs /\ DOMAIN jobs = Members
    BY <1>6 DEF Mark, DeliveryIInv, WorkHasRow
  <2>3. \A m \in Members : rows[m] # NoRow => rows'[m] # NoRow
    <3> TAKE m \in Members
    <3>1. HAVE rows[m] # NoRow
    <3>2. rows[m] \in Row /\ rows \in [Members -> Row \cup {NoRow}]
      BY <3>1, DeliveryTypes DEF DeliveryIInv
    <3>3. [rows[m] EXCEPT !.status = "processing"] \in Row
      BY <3>2 DEF Row, Statuses
    <3>4. rows'[m] = rows[m] \/ rows'[m] = [rows[m] EXCEPT !.status = "processing"]
      BY <1>6, <3>2 DEF Mark
    <3> QED BY <3>1, <3>3, <3>4, RowAssumption
  <2>4. thread' = [thread EXCEPT ![t] = thread'[t]]
    BY <1>6, DeliveryTypes DEF Mark, DeliveryIInv
  <2>5. WorkHasRow'
    BY <2>1, <2>2, <2>3, <2>4, ThreadWorks
  <2> QED BY <2>1, <2>5 DEF DeliveryIInv, BookStep
<1>7. ASSUME NEW t \in Threads, Refresh(t) PROVE DeliveryIInv' /\ BookStep
  <2>1. SentIInv' /\ thread'[t].todo = thread[t].todo
    BY <1>7, RefreshKeeps DEF DeliveryIInv
  <2>2. UNCHANGED <<rows, taken, jobs>> /\ DOMAIN jobs = Members
    BY <1>7 DEF Refresh, DeliveryIInv, WorkHasRow
  <2>3. \E rec : thread' = [thread EXCEPT ![t] = rec]
    BY <1>7 DEF Refresh
  <2>4. thread' = [thread EXCEPT ![t] = thread'[t]]
    BY <2>3, DeliveryTypes DEF DeliveryIInv
  <2>5. WorkHasRow'
    BY <2>1, <2>2, <2>4, ThreadWorks
  <2> QED BY <2>1, <2>2, <2>5 DEF DeliveryIInv, BookStep, Took, OnRecord
<1>8. ASSUME NEW t \in Threads, Send(t) PROVE DeliveryIInv' /\ BookStep
  <2>1. /\ SentIInv' /\ UNCHANGED OnRecord /\ thread'[t].todo = thread[t].todo
        /\ Took' = Took \/ Took' = Took \cup {thread[t].member}
        /\ thread[t].member \in Members
    BY <1>8, SendKeeps DEF DeliveryIInv
  <2>2. UNCHANGED <<rows, jobs>> /\ DOMAIN jobs = Members
    BY <1>8 DEF Send, DeliveryIInv, WorkHasRow
  <2>3. thread' = [thread EXCEPT ![t] = thread'[t]]
    BY <1>8, DeliveryTypes DEF Send, DeliveryIInv
  <2>4. WorkHasRow'
    BY <2>1, <2>2, <2>3, ThreadWorks
  <2> QED BY <2>1, <2>4 DEF DeliveryIInv, BookStep
<1>9. ASSUME NEW t \in Threads, Record(t) PROVE DeliveryIInv' /\ BookStep
  <2>1. /\ SentIInv' /\ UNCHANGED Took /\ thread'[t].todo \subseteq thread[t].todo
        /\ \/ OnRecord' = OnRecord
           \/ thread[t].member \in Took /\ OnRecord' = OnRecord \cup {thread[t].member}
        /\ \A n \in Members : rows[n] # NoRow => rows'[n] # NoRow
    BY <1>9, RecordKeeps DEF DeliveryIInv
  <2>2. DOMAIN jobs = Members
    BY DEF DeliveryIInv, WorkHasRow
  <2>3. rows[thread[t].member] # NoRow
    BY <1>9, DeliveryTypes, RowAssumption DEF Record, Working, DeliveryIInv
  <2>4. DOMAIN jobs' = Members /\ \A n \in Members : jobs'[n] = jobs[n] \/ rows[n] # NoRow
    <3>1. \/ jobs' = jobs
          \/ \E job : jobs' = [jobs EXCEPT ![thread[t].member] = job]
      BY <1>9 DEF Record
    <3> QED BY <2>2, <2>3, <3>1
  <2>5. thread' = [thread EXCEPT ![t] = thread'[t]]
    BY <1>9, DeliveryTypes DEF Record, DeliveryIInv
  <2>6. WorkHasRow'
    BY <2>1, <2>4, <2>5, ThreadWorks
  <2> QED BY <2>1, <2>6 DEF DeliveryIInv, BookStep
<1>10. ASSUME NEW t \in Threads, Stop(t) PROVE DeliveryIInv' /\ BookStep
  <2>1. SentIInv' /\ UNCHANGED <<Took, OnRecord>>
    BY <1>10, StopKeeps DEF DeliveryIInv
  <2>2. UNCHANGED <<rows, jobs>> /\ thread' = [thread EXCEPT ![t] = Idle] /\ DOMAIN jobs = Members
    BY <1>10 DEF Stop, DeliveryIInv, WorkHasRow
  <2>3. Idle.todo \subseteq thread[t].todo
    BY DEF Idle
  <2>4. WorkHasRow'
    BY <2>2, <2>3, ThreadWorks
  <2> QED BY <2>1, <2>4 DEF DeliveryIInv, BookStep
<1> QED BY <1>1, <1>2, <1>3, <1>4, <1>5, <1>6, <1>7, <1>8, <1>9, <1>10 DEF Next, Work

(* The invariant itself: rows, threads and jobs fit together, and "sent"   *)
(* is said only of notices the provider took                               *)
(* (src/app/modules/announcements/delivery_worker.py).                     *)
THEOREM DeliveryInvariance == Spec => []DeliveryIInv
<1>1. Init => DeliveryIInv
  BY DeliveryStart
<1>2. DeliveryIInv /\ [Next]_vars => DeliveryIInv'
  BY DeliveryStep
<1> QED BY <1>1, <1>2, PTL DEF Spec

(* The delivery of an announcement keeps NoticeBook's promise: a sending   *)
(* time stands only in the row of a notice the provider took, and is never *)
(* taken back, whichever threads claim, retry or stop in between.          *)
THEOREM BookOfNotices == Spec => ImplementsNoticeBook
<1>1. Init => Book!Init
  BY DeliveryStart DEF Book!Init, Took, OnRecord
<1>2. BookStep => [Book!Next]_(Book!vars)
  <2> SUFFICES ASSUME BookStep PROVE [Book!Next]_(Book!vars)
    OBVIOUS
  <2>1. CASE UNCHANGED <<Took, OnRecord>>
    BY <2>1 DEF Book!vars, Took, OnRecord
  <2>2. ASSUME NEW m \in Members, Took' = Took \cup {m}, UNCHANGED OnRecord
        PROVE  Book!Take(m)
    BY <2>2 DEF Book!Take, Took, OnRecord
  <2>3. ASSUME NEW m \in Took, OnRecord' = OnRecord \cup {m}, UNCHANGED Took
        PROVE  Book!Record(m) /\ m \in Members
    BY <2>3 DEF Book!Record, Took, OnRecord
  <2> QED BY <2>1, <2>2, <2>3 DEF BookStep, Book!Next
<1>3. DeliveryIInv /\ [Next]_vars => [Book!Next]_(Book!vars)
  BY <1>2, DeliveryStep
<1> QED BY <1>1, <1>3, DeliveryInvariance, PTL DEF Spec, ImplementsNoticeBook, Book!Spec

-------------------------------------------------------------------------------
(* Types                                                                   *)

(* What the types say beyond rows and threads.                             *)
QueueTyped ==
  /\ setup \in Setups
  /\ sentCount \in 0..Cardinality(Members)
  /\ jobs \in [Members -> [entries : 0..MaxJobs, retries : 0..MaxAttempts - 1]]
  /\ faults \in 0..setup.faults
  /\ alone \in BOOLEAN

(* The types in the invariant and those of the queue are the module's.      *)
LEMMA DeliveryTyping == DeliveryIInv /\ QueueTyped => TypeOK
BY DEF DeliveryIInv, SentIInv, RowsAndThreads, QueueTyped, TypeOK, Working

(* The backend is one of two, and the faults can be counted.                *)
LEMMA SetupIs ==
  ASSUME setup \in Setups
  PROVE  setup.backend \in {"local", "rq"} /\ setup.faults \in Nat
<1>1. setup \in [backend : {"local", "rq"}, targets : Nat, faults : Nat]
  BY DeliveryAssumption
<1> QED BY <1>1

(* The rows that say sent are at most the members.                          *)
LEMMA SentIsCounted == Sent \in 0..Cardinality(Members)
<1> DEFINE S == {m \in Members : rows[m] # NoRow /\ rows[m].status = "sent"}
<1>1. S \subseteq Members /\ IsFiniteSet(Members)
  BY DeliveryAssumption
<1> HIDE DEF S
<1>2. /\ IsFiniteSet(S) /\ Cardinality(S) <= Cardinality(Members)
      /\ Cardinality(Members) \in Nat /\ Cardinality(S) \in Nat
  BY <1>1, FS_Subset, FS_CardinalityType
<1> QED BY <1>2 DEF Sent, S

(* Enqueueing keeps the numbers of jobs and of faults in their bounds.      *)
LEMMA EnqueueTyped ==
  ASSUME QueueTyped, NEW batch, EnqueueAll(batch)
  PROVE  /\ jobs' \in [Members -> [entries : 0..MaxJobs, retries : 0..MaxAttempts - 1]]
         /\ faults' \in 0..setup.faults
<1>1. CASE setup.backend = "local"
  BY <1>1 DEF EnqueueAll, QueueTyped
<1>2. CASE setup.backend # "local"
  <2>1. PICK reached \in SUBSET batch :
          /\ reached # batch => faults < setup.faults
          /\ faults' = IF reached = batch THEN faults ELSE faults + 1
          /\ jobs' = [m \in Members |->
               IF m \in reached
               THEN [entries |-> OneEntryMore(jobs[m].entries), retries |-> MaxAttempts - 1]
               ELSE jobs[m]]
    BY <1>2 DEF EnqueueAll
  <2>2. faults' \in 0..setup.faults
    BY <2>1, SetupIs DEF QueueTyped
  <2>3. ASSUME NEW m \in Members
        PROVE  [entries |-> OneEntryMore(jobs[m].entries), retries |-> MaxAttempts - 1]
                 \in [entries : 0..MaxJobs, retries : 0..MaxAttempts - 1]
    <3>1. jobs[m].entries \in 0..MaxJobs
      BY DEF QueueTyped
    <3>2. OneEntryMore(jobs[m].entries) \in 0..MaxJobs
      BY <3>1, DeliveryAssumption DEF OneEntryMore
    <3> QED BY <3>2, DeliveryAssumption
  <2>4. jobs' \in [Members -> [entries : 0..MaxJobs, retries : 0..MaxAttempts - 1]]
    BY <2>1, <2>3 DEF QueueTyped
  <2> QED BY <2>2, <2>4
<1> QED BY <1>1, <1>2

(* At first there are no jobs and no counts.                                *)
LEMMA QueueTypedStarts == Init => QueueTyped
<1> SUFFICES ASSUME Init PROVE QueueTyped
  OBVIOUS
<1>1. setup \in Setups /\ faults = 0 /\ sentCount = 0
  BY DEF Init
<1>2. alone \in BOOLEAN
  BY Zenon DEF Init
<1>3. faults \in 0..setup.faults
  BY <1>1, SetupIs
<1>4. sentCount \in 0..Cardinality(Members)
  BY <1>1, DeliveryAssumption, FS_CardinalityType
<1>5. jobs \in [Members -> [entries : 0..MaxJobs, retries : 0..MaxAttempts - 1]]
  BY DeliveryAssumption DEF Init
<1> QED BY <1>1, <1>2, <1>3, <1>4, <1>5 DEF QueueTyped

(* Every step keeps the types of jobs, counts and faults.                   *)
LEMMA QueueTypedStep ==
  ASSUME DeliveryIInv, QueueTyped, [Next]_vars
  PROVE  QueueTyped'
<1> DEFINE Job == [entries : 0..MaxJobs, retries : 0..MaxAttempts - 1]
<1>1. CASE UNCHANGED <<setup, sentCount, jobs, faults, alone>>
  BY <1>1 DEF QueueTyped
<1>2. CASE Queue
  <2>1. jobs' \in [Members -> Job] /\ faults' \in 0..setup.faults
    BY <1>2, EnqueueTyped DEF Queue
  <2> QED BY <1>2, <2>1 DEF Queue, QueueTyped
<1>3. ASSUME NEW t \in Threads, Claim(t) PROVE QueueTyped'
  <2>1. UNCHANGED <<setup, sentCount>> /\ \E batch : EnqueueAll(batch)
    BY <1>3 DEF Claim
  <2>2. jobs' \in [Members -> Job] /\ faults' \in 0..setup.faults
    BY <2>1, EnqueueTyped
  <2>3. alone' \in BOOLEAN
    <3>1. UNCHANGED alone \/ alone' = (alone /\ \A u \in Threads : thread[u] = Idle)
      BY <1>3 DEF Claim
    <3> QED BY <3>1, Zenon DEF QueueTyped
  <2> QED BY <2>1, <2>2, <2>3 DEF QueueTyped
<1>4. ASSUME NEW t \in Threads, NEW m \in Members, TakeJob(t, m) PROVE QueueTyped'
  <2>1. UNCHANGED <<setup, sentCount, faults>> /\ jobs[m].entries > 0
        /\ jobs' = [jobs EXCEPT ![m].entries = @ - 1]
    BY <1>4 DEF TakeJob
  <2>2. alone' \in BOOLEAN
    <3>1. alone' = (alone /\ \A u \in Threads : thread[u] = Idle)
      BY <1>4 DEF TakeJob
    <3> QED BY <3>1, Zenon
  <2>3. jobs' \in [Members -> Job]
    <3> DEFINE job == [jobs[m] EXCEPT !.entries = @ - 1]
    <3>1. job \in Job
      BY <2>1, DeliveryAssumption DEF QueueTyped
    <3>2. jobs' = [jobs EXCEPT ![m] = job]
      BY <2>1
    <3> HIDE DEF job
    <3> QED BY <3>1, <3>2 DEF QueueTyped
  <2> QED BY <2>1, <2>2, <2>3 DEF QueueTyped
<1>5. ASSUME NEW t \in Threads, Send(t) \/ Stop(t) PROVE QueueTyped'
  <2>1. UNCHANGED <<setup, sentCount, jobs>>
        /\ \/ UNCHANGED <<faults, alone>>
           \/ faults < setup.faults /\ faults' = faults + 1 /\ alone' = FALSE
    BY <1>5 DEF Send, Stop
  <2>2. faults' \in 0..setup.faults
    BY <2>1, SetupIs DEF QueueTyped
  <2>3. alone' \in BOOLEAN
    BY <2>1, Zenon DEF QueueTyped
  <2> QED BY <2>1, <2>2, <2>3 DEF QueueTyped
<1>6. ASSUME NEW t \in Threads, Record(t) PROVE QueueTyped'
  <2> DEFINE m == thread[t].member
             job == [entries |-> OneEntryMore(jobs[m].entries), retries |-> jobs[m].retries - 1]
  <2>1. m \in Members
    BY <1>6, DeliveryTypes DEF Record, Working, DeliveryIInv
  <2>2. UNCHANGED <<setup, faults, alone>> /\ sentCount' \in {sentCount, Sent}
    BY <1>6 DEF Record
  <2>3. jobs' = jobs \/ (jobs[m].retries > 0 /\ jobs' = [jobs EXCEPT ![m] = job])
    BY <1>6 DEF Record
  <2>4. jobs[m] \in Job /\ (jobs[m].retries > 0 => job \in Job)
    <3>1. jobs[m] \in Job
      BY <2>1 DEF QueueTyped
    <3>2. OneEntryMore(jobs[m].entries) \in 0..MaxJobs
      BY <3>1, DeliveryAssumption DEF OneEntryMore
    <3> QED BY <3>1, <3>2, DeliveryAssumption
  <2> HIDE DEF job
  <2>5. jobs' \in [Members -> Job]
    BY <2>1, <2>3, <2>4 DEF QueueTyped
  <2>6. sentCount' \in 0..Cardinality(Members)
    BY <2>2, SentIsCounted DEF QueueTyped
  <2> QED BY <2>2, <2>5, <2>6 DEF QueueTyped
<1>7. ASSUME NEW t \in Threads, Mark(t) \/ Refresh(t) \/ \E m \in Members : TakeFromBatch(t, m)
      PROVE  UNCHANGED <<setup, sentCount, jobs, faults, alone>>
  BY <1>7 DEF Mark, Refresh, TakeFromBatch
<1> QED BY <1>1, <1>2, <1>3, <1>4, <1>5, <1>6, <1>7 DEF Next, Work, vars

(* Rows, counts, jobs and the threads' copies keep their types for any     *)
(* number of members, threads, retries and faults.                         *)
THEOREM DeliveryTyped == Spec => []TypeOK
<1>1. Init => DeliveryIInv /\ QueueTyped
  BY DeliveryStart, QueueTypedStarts
<1>2. DeliveryIInv /\ QueueTyped /\ [Next]_vars => (DeliveryIInv /\ QueueTyped)'
  BY DeliveryStep, QueueTypedStep
<1> QED BY <1>1, <1>2, DeliveryTyping, PTL DEF Spec

-------------------------------------------------------------------------------
(* One thread at a time                                                    *)

(* The recipients of the announcement have WhatsApp ids of their own.      *)
OnePhoneEach == \A m, n \in Announced : PhoneOf[m] = PhoneOf[n] => m = n

OneBusy == alone => \A t, u \in Threads : thread[t] # Idle /\ thread[u] # Idle => t = u

(* A thread with this record is about to write that the notice was taken.  *)
Delivered(rec, m) == rec.at = "record" /\ rec.member = m /\ rec.outcome = "sent"

(* What was taken was taken once and is in its row, or about to be; whoever *)
(* works on a delivery otherwise works on one that was not taken.          *)
ToldOnce ==
  alone =>
    /\ \A m \in Members : taken[m] > 0 =>
         taken[m] = 1 /\ rows[m] # NoRow /\ (rows[m].sent \/ \E t \in Threads : Delivered(thread[t], m))
    /\ \A t \in Threads : thread[t].at \in Working /\ ~Delivered(thread[t], thread[t].member) =>
         taken[thread[t].member] = 0

(* Nobody but the scheduler's process works in the local backend.          *)
NoJobs == setup.backend = "local" => \A m \in Members : jobs[m].entries = 0

AloneIInv == OnePhoneEach /\ OneBusy /\ ToldOnce /\ NoJobs

(* What a step leaves of the rows as far as ToldOnce is concerned.         *)
SameSent == \A m \in Members : rows[m] # NoRow => rows'[m] # NoRow /\ rows'[m].sent = rows[m].sent

SameRecipients == \A m \in Members : rows'[m] # NoRow <=> rows[m] # NoRow

(* While nobody is added, one row for each phone stays one.                 *)
LEMMA RecipientsStay ==
  ASSUME OnePhoneEach, SameRecipients
  PROVE  OnePhoneEach'
BY DEF OnePhoneEach, SameRecipients, Announced

(* An idle thread has delivered nothing and has nothing left to do.         *)
LEMMA IdleIs == Idle.at = "idle" /\ Idle.todo = {} /\ \A m : ~Delivered(Idle, m)
BY DEF Idle, Delivered

(* While one thread works and the others are idle, what is to be shown is  *)
(* about that thread.                                                      *)
LEMMA SoleWorks ==
  ASSUME DeliveryIInv, AloneIInv, alone, NEW t \in Threads, NEW rec \in ThreadState,
         thread[t] # Idle \/ \A u \in Threads : thread[u] = Idle,
         thread' = [thread EXCEPT ![t] = rec]
  PROVE  /\ thread'[t] = rec /\ OneBusy'
         /\ \A u \in Threads : u # t => thread[u] = Idle /\ thread'[u] = Idle
         /\ \A m \in Members : taken[m] > 0 =>
              taken[m] = 1 /\ rows[m] # NoRow /\ (rows[m].sent \/ Delivered(thread[t], m))
         /\ thread[t].at \in Working /\ ~Delivered(thread[t], thread[t].member) =>
              taken[thread[t].member] = 0
<1>1. thread \in [Threads -> ThreadState]
  BY DeliveryTypes DEF DeliveryIInv
<1>2. thread'[t] = rec /\ \A u \in Threads : u # t => thread'[u] = thread[u]
  BY <1>1
<1>3. \A u \in Threads : u # t => thread[u] = Idle
  BY DEF AloneIInv, OneBusy
<1>4. OneBusy'
  BY <1>2, <1>3 DEF OneBusy
<1>5. ASSUME NEW m \in Members, taken[m] > 0
      PROVE  taken[m] = 1 /\ rows[m] # NoRow /\ (rows[m].sent \/ Delivered(thread[t], m))
  <2>1. taken[m] = 1 /\ rows[m] # NoRow /\ (rows[m].sent \/ \E u \in Threads : Delivered(thread[u], m))
    BY <1>5 DEF AloneIInv, ToldOnce
  <2> QED BY <1>3, <2>1, IdleIs
<1>6. thread[t].at \in Working /\ ~Delivered(thread[t], thread[t].member) =>
        taken[thread[t].member] = 0
  BY DEF AloneIInv, ToldOnce
<1> QED BY <1>2, <1>3, <1>4, <1>5, <1>6

(* If one thread alone is at work, and what was taken was taken once and is *)
(* recorded or in its hand, the record holds after its step.                *)
LEMMA ToldOnceKept ==
  ASSUME NEW t \in Threads, NEW rec \in ThreadState, thread'[t] = rec,
         \A u \in Threads : u # t => thread'[u] = Idle,
         \A m \in Members : taken'[m] > 0 =>
           taken'[m] = 1 /\ rows'[m] # NoRow /\ (rows'[m].sent \/ Delivered(rec, m)),
         rec.at \in Working /\ ~Delivered(rec, rec.member) => taken'[rec.member] = 0
  PROVE  ToldOnce'
<1>1. ASSUME NEW u \in Threads, u # t PROVE thread'[u].at \notin Working
  BY <1>1, IdleIs DEF Working
<1>2. \A u \in Threads : thread'[u].at \in Working /\ ~Delivered(thread'[u], thread'[u].member) =>
        taken'[thread'[u].member] = 0
  BY <1>1
<1>3. \A m \in Members : taken'[m] > 0 =>
        taken'[m] = 1 /\ rows'[m] # NoRow /\ (rows'[m].sent \/ \E u \in Threads : Delivered(thread'[u], m))
  OBVIOUS
<1> QED BY <1>2, <1>3 DEF ToldOnce, Delivered

-------------------------------------------------------------------------------
(* What each step of a thread does                                         *)

(* Loading a row leaves the thread at rest, or about to mark a row that has *)
(* no sending time.                                                         *)
LEMMA LoadDoes ==
  ASSUME DeliveryIInv, NEW t \in Threads, NEW m \in Members, NEW rest \in SUBSET Members,
         Load(t, m, rest), rows[m] # NoRow
  PROVE  \E rec \in ThreadState :
           /\ thread' = [thread EXCEPT ![t] = rec]
           /\ \/ rec.at \in {"idle", "next"} /\ rec.todo \subseteq rest
              \/ rec.at = "mark" /\ rec.member = m /\ rec.todo = rest /\ ~rows[m].sent
<1> DEFINE next == [Idle EXCEPT !.at = "next", !.todo = rest]
           mark == [Idle EXCEPT !.at = "mark", !.todo = rest, !.member = m,
                                !.status = rows[m].status]
<1>1. rows[m].status \in Statuses
  BY DeliveryTypes DEF Row, DeliveryIInv
<1>2. mark \in ThreadState /\ mark.at = "mark" /\ mark.member = m /\ mark.todo = rest
  BY <1>1, IdleState DEF ThreadState
<1>3. next \in ThreadState /\ next.at = "next" /\ next.todo = rest
  BY IdleState DEF ThreadState
<1>4. \/ \E rec \in {Idle, next} : thread' = [thread EXCEPT ![t] = rec]
      \/ thread' = [thread EXCEPT ![t] = mark] /\ ~rows[m].sent
  BY DEF Load
<1> HIDE DEF next, mark
<1>5. Idle \in ThreadState /\ Idle.at = "idle" /\ Idle.todo \subseteq rest
  BY IdleState, IdleIs
<1> QED BY <1>2, <1>3, <1>4, <1>5

(* Marking writes processing over the status at most, and goes on to the    *)
(* reload.                                                                  *)
LEMMA MarkDoes ==
  ASSUME DeliveryIInv, NEW t \in Threads, Mark(t)
  PROVE  LET m == thread[t].member
         IN  /\ m \in Members /\ rows[m] # NoRow
             /\ \E rec \in ThreadState :
                  /\ thread' = [thread EXCEPT ![t] = rec]
                  /\ rec.at = "refresh" /\ rec.member = m /\ rec.todo = thread[t].todo
             /\ rows'[m] # NoRow /\ rows'[m].sent = rows[m].sent /\ rows'[m].attempts = rows[m].attempts
             /\ rows'[m].status \in {"processing", rows[m].status}
             /\ \A n \in Members : n # m => rows'[n] = rows[n]
<1> DEFINE m == thread[t].member
           rec == [thread[t] EXCEPT !.at = "refresh", !.status = "pending"]
           r == [rows[m] EXCEPT !.status = "processing"]
<1>1. /\ thread[t] \in ThreadState /\ m \in Members /\ rows[m] \in Row /\ rows[m] # NoRow
      /\ rows \in [Members -> Row \cup {NoRow}]
  BY DeliveryTypes, RowAssumption DEF Mark, Working, DeliveryIInv
<1>2. thread' = [thread EXCEPT ![t] = rec]
  BY DeliveryTypes DEF Mark, DeliveryIInv
<1>3. rec \in ThreadState /\ rec.at = "refresh" /\ rec.member = m /\ rec.todo = thread[t].todo
  BY <1>1 DEF ThreadState, Statuses
<1>4. rows' = rows \/ rows' = [rows EXCEPT ![m] = r]
  BY DEF Mark
<1>5. /\ r \in Row /\ r.sent = rows[m].sent /\ r.status = "processing" /\ r.attempts = rows[m].attempts
  BY <1>1 DEF Row, Statuses
<1> HIDE DEF rec, r
<1>6. r # NoRow
  BY <1>5, RowAssumption
<1>7. (rows'[m] = rows[m] \/ rows'[m] = r) /\ \A n \in Members : n # m => rows'[n] = rows[n]
  BY <1>1, <1>4
<1> HIDE DEF m
<1> QED BY <1>1, <1>2, <1>3, <1>5, <1>6, <1>7 DEF m

(* The reload copies the row; a thread gets past it to a success only if    *)
(* the row says sent.                                                       *)
LEMMA RefreshDoes ==
  ASSUME DeliveryIInv, NEW t \in Threads, Refresh(t)
  PROVE  LET m == thread[t].member
         IN  /\ m \in Members /\ rows[m] # NoRow /\ thread[t].at = "refresh"
             /\ \E rec \in ThreadState :
                  /\ thread' = [thread EXCEPT ![t] = rec]
                  /\ rec.at \in {"send", "record"} /\ rec.member = m /\ rec.todo = thread[t].todo
                  /\ rec.status = rows[m].status /\ rec.attempts = rows[m].attempts
                  /\ Delivered(rec, m) => rows[m].status = "sent"
<1> DEFINE m == thread[t].member
           copy == [thread[t] EXCEPT !.status = rows[m].status, !.attempts = rows[m].attempts]
<1>1. thread[t] \in ThreadState /\ m \in Members /\ rows[m] \in Row /\ rows[m] # NoRow
      /\ thread[t].at = "refresh"
  BY DeliveryTypes, RowAssumption DEF Refresh, Working, DeliveryIInv
<1>2. /\ copy \in ThreadState /\ copy.member = m /\ copy.todo = thread[t].todo
      /\ copy.status = rows[m].status /\ copy.attempts = rows[m].attempts
  BY <1>1 DEF ThreadState, Row
<1>3. \/ /\ rows[m].status = "sent"
         /\ thread' = [thread EXCEPT ![t] = [copy EXCEPT !.at = "record", !.outcome = "sent"]]
      \/ thread' = [thread EXCEPT ![t] = [copy EXCEPT !.at = "send"]]
      \/ \E o \in {"skipped", "error"} :
           thread' = [thread EXCEPT ![t] = [copy EXCEPT !.at = "record", !.outcome = o]]
  BY DEF Refresh
<1> HIDE DEF copy
<1>4. \A o \in Outcomes : LET rec == [copy EXCEPT !.at = "record", !.outcome = o]
                          IN  /\ rec \in ThreadState /\ rec.member = m /\ rec.outcome = o
                              /\ rec.at = "record" /\ rec.todo = thread[t].todo
                              /\ rec.status = rows[m].status /\ rec.attempts = rows[m].attempts
  BY <1>2 DEF ThreadState
<1>5. LET rec == [copy EXCEPT !.at = "send"]
      IN  /\ rec \in ThreadState /\ rec.member = m /\ rec.at = "send"
          /\ rec.todo = thread[t].todo
          /\ rec.status = rows[m].status /\ rec.attempts = rows[m].attempts
  BY <1>2 DEF ThreadState
<1>6. "sent" \in Outcomes /\ "skipped" \in Outcomes /\ "error" \in Outcomes
  BY DEF Outcomes
<1> HIDE DEF m
<1>7. \E rec \in ThreadState :
        /\ thread' = [thread EXCEPT ![t] = rec]
        /\ rec.at \in {"send", "record"} /\ rec.member = m /\ rec.todo = thread[t].todo
        /\ rec.status = rows[m].status /\ rec.attempts = rows[m].attempts
        /\ Delivered(rec, m) => rows[m].status = "sent"
  <2>1. CASE thread' = [thread EXCEPT ![t] = [copy EXCEPT !.at = "send"]]
    BY <1>5, <2>1 DEF Delivered
  <2>2. CASE rows[m].status = "sent" /\
             thread' = [thread EXCEPT ![t] = [copy EXCEPT !.at = "record", !.outcome = "sent"]]
    BY <1>4, <1>6, <2>2
  <2>3. CASE \E o \in {"skipped", "error"} :
               thread' = [thread EXCEPT ![t] = [copy EXCEPT !.at = "record", !.outcome = o]]
    BY <1>4, <1>6, <2>3 DEF Delivered
  <2> QED BY <1>3, <2>1, <2>2, <2>3
<1> QED BY <1>1, <1>7 DEF m

(* While alone, the provider's answer is true: taken and a success, or      *)
(* neither.                                                                 *)
LEMMA SendDoes ==
  ASSUME DeliveryIInv, NEW t \in Threads, Send(t)
  PROVE  LET m == thread[t].member
         IN  /\ m \in Members /\ rows[m] # NoRow /\ thread[t].at = "send"
             /\ \E rec \in ThreadState :
                  /\ thread' = [thread EXCEPT ![t] = rec]
                  /\ rec.at = "record" /\ rec.member = m /\ rec.todo = thread[t].todo
                  /\ rec.status = thread[t].status /\ rec.attempts = thread[t].attempts
                  /\ alone' => \/ Takes(m) /\ rec.outcome = "sent"
                               \/ UNCHANGED taken /\ rec.outcome # "sent"
<1> DEFINE m == thread[t].member
<1>1. /\ thread[t] \in ThreadState /\ m \in Members /\ rows[m] # NoRow /\ thread[t].at = "send"
      /\ thread \in [Threads -> ThreadState]
  BY DeliveryTypes, RowAssumption DEF Send, Working, DeliveryIInv
<1>2. PICK o \in Outcomes :
        /\ thread' = [thread EXCEPT ![t].at = "record", ![t].outcome = o]
        /\ alone' => (Takes(m) /\ o = "sent") \/ (UNCHANGED taken /\ o # "sent")
  <2>1. "sent" \in Outcomes /\ "error" \in Outcomes /\ "transient" \in Outcomes
    BY DEF Outcomes
  <2>2. CASE Takes(m) /\ thread' = [thread EXCEPT ![t].at = "record", ![t].outcome = "sent"]
    BY <2>1, <2>2
  <2>3. CASE /\ \E o \in {"error", "transient"} :
                  thread' = [thread EXCEPT ![t].at = "record", ![t].outcome = o]
             /\ UNCHANGED taken
    BY <2>1, <2>3
  <2>4. CASE alone' = FALSE /\ thread' = [thread EXCEPT ![t].at = "record", ![t].outcome = "transient"]
    BY <2>1, <2>4
  <2> QED BY <2>2, <2>3, <2>4 DEF Send
<1> DEFINE rec == [thread[t] EXCEPT !.at = "record", !.outcome = o]
<1>3. /\ rec \in ThreadState /\ rec.at = "record" /\ rec.member = m /\ rec.outcome = o
      /\ rec.todo = thread[t].todo
      /\ rec.status = thread[t].status /\ rec.attempts = thread[t].attempts
  BY <1>1 DEF ThreadState
<1>4. thread' = [thread EXCEPT ![t] = rec]
  BY <1>1, <1>2
<1> HIDE DEF rec
<1> QED BY <1>1, <1>2, <1>3, <1>4

(* Recording writes the outcome, the attempt and, unless the copy said so   *)
(* already, the status, in the thread's row and no other.                   *)
LEMMA RecordDoes ==
  ASSUME DeliveryIInv, NEW t \in Threads, Record(t)
  PROVE  LET m == thread[t].member
             said == NextStatus(thread[t].outcome, OneMore(thread[t].attempts))
         IN  /\ m \in Members /\ rows[m] # NoRow /\ thread[t].at = "record" /\ thread[t] \in ThreadState
             /\ thread' = [thread EXCEPT ![t] = Rest(t)]
             /\ Rest(t) \in ThreadState /\ Rest(t).at \in {"idle", "next"}
             /\ Rest(t).todo \subseteq thread[t].todo
             /\ rows'[m] # NoRow /\ rows'[m].attempts = OneMore(thread[t].attempts)
             /\ rows'[m].status = (IF said = thread[t].status THEN rows[m].status ELSE said)
             /\ rows'[m].sent = (rows[m].sent \/ thread[t].outcome = "sent")
             /\ \A n \in Members : n # m => rows'[n] = rows[n]
             /\ UNCHANGED taken
<1> DEFINE m == thread[t].member
           said == NextStatus(thread[t].outcome, OneMore(thread[t].attempts))
           status == IF said = thread[t].status THEN rows[m].status ELSE said
           tried == OneMore(thread[t].attempts)
           stamp == rows[m].sent \/ thread[t].outcome = "sent"
           row == [status |-> status, attempts |-> tried, sent |-> stamp]
<1>1. /\ thread[t] \in ThreadState /\ m \in Members /\ rows[m] # NoRow
      /\ rows \in [Members -> Row \cup {NoRow}]
      /\ thread \in [Threads -> ThreadState] /\ thread[t].at = "record"
  BY DeliveryTypes, RowAssumption DEF Record, Working, DeliveryIInv
<1>2. rows' = [rows EXCEPT ![m] = row] /\ thread' = [thread EXCEPT ![t] = Rest(t)] /\ UNCHANGED taken
  BY <1>1 DEF Record
<1>3. rows'[m] # NoRow
  BY <1>1, RecordKeeps DEF DeliveryIInv
<1> HIDE DEF tried, said, status, stamp
<1>4. rows'[m] = row /\ \A n \in Members : n # m => rows'[n] = rows[n]
  BY <1>1, <1>2
<1>5. Rest(t) \in ThreadState /\ Rest(t).at \in {"idle", "next"} /\ Rest(t).todo \subseteq thread[t].todo
  BY <1>1, RestState
<1>6. row.attempts = tried /\ row.status = status /\ row.sent = stamp
  OBVIOUS
<1> QED BY <1>1, <1>2, <1>3, <1>4, <1>5, <1>6 DEF tried, said, status, stamp

-------------------------------------------------------------------------------
(* Nobody is told twice                                                    *)

(* A step of one thread, with what is left to show of it.                  *)
LEMMA WorkerAlone ==
  ASSUME DeliveryIInv, AloneIInv, NEW t \in Threads, NEW rec \in ThreadState,
         thread' = [thread EXCEPT ![t] = rec], SameRecipients, setup' = setup,
         setup.backend = "local" => jobs' = jobs,
         alone' => alone /\ (thread[t] # Idle \/ \A u \in Threads : thread[u] = Idle),
         alone' => \A m \in Members : taken'[m] > 0 =>
                     taken'[m] = 1 /\ rows'[m] # NoRow /\ (rows'[m].sent \/ Delivered(rec, m)),
         alone' /\ rec.at \in Working /\ ~Delivered(rec, rec.member) => taken'[rec.member] = 0
  PROVE  AloneIInv'
<1>1. OnePhoneEach'
  BY RecipientsStay DEF AloneIInv
<1>2. NoJobs'
  BY DEF AloneIInv, NoJobs
<1>3. CASE ~alone'
  BY <1>1, <1>2, <1>3 DEF AloneIInv, OneBusy, ToldOnce
<1>4. CASE alone'
  <2>1. /\ thread'[t] = rec /\ OneBusy'
        /\ \A u \in Threads : u # t => thread'[u] = Idle
    <3>1. alone /\ (thread[t] # Idle \/ \A u \in Threads : thread[u] = Idle)
      BY <1>4
    <3>2. alone /\ thread' = [thread EXCEPT ![t] = rec] /\ DeliveryIInv /\ AloneIInv
      BY <3>1
    <3>3. thread'[t] = rec
      BY <3>1, <3>2, SoleWorks
    <3>4. OneBusy'
      BY <3>1, <3>2, SoleWorks
    <3>5. \A u \in Threads : u # t => thread'[u] = Idle
      BY <3>1, <3>2, SoleWorks
    <3> QED BY <3>3, <3>4, <3>5
  <2>2. ToldOnce'
    BY <1>4, <2>1, ToldOnceKept
  <2> QED BY <1>1, <1>2, <2>1, <2>2 DEF AloneIInv
<1> QED BY <1>3, <1>4

(* Queueing while nothing is under way makes one row for each phone.        *)
LEMMA QueueAlone ==
  ASSUME DeliveryIInv, AloneIInv, Queue
  PROVE  AloneIInv'
<1>1. PICK T \in Targets("event") \cup Targets("society") :
        /\ rows' = [m \in Members |->
             IF m \in T THEN [status |-> "pending", attempts |-> 0, sent |-> FALSE] ELSE NoRow]
        /\ EnqueueAll(T)
  BY DEF Queue
<1>2. UNCHANGED <<setup, thread, taken, alone>> /\ \A m \in Members : rows[m] = NoRow
  BY DEF Queue, Announced
<1>3. OnePhoneEach'
  <2>1. \A m, n \in T : PhoneOf[n] = PhoneOf[m] => n = m
    BY DEF Targets
  <2>2. \A m \in Members : rows'[m] # NoRow => m \in T
    BY <1>1
  <2> QED BY <2>1, <2>2 DEF OnePhoneEach, Announced
<1>4. OneBusy'
  BY <1>2 DEF AloneIInv, OneBusy
<1>5. NoJobs'
  BY <1>1, <1>2 DEF AloneIInv, NoJobs, EnqueueAll
<1>6. ToldOnce'
  <2> SUFFICES ASSUME alone' PROVE ToldOnce'
    BY DEF ToldOnce
  <2>1. \A m \in Members : ~(taken[m] > 0)
    BY <1>2 DEF AloneIInv, ToldOnce
  <2>2. \A t \in Threads : ~(thread[t].at \in Working)
    BY <1>2, DeliveryTypes, RowAssumption DEF DeliveryIInv
  <2> QED BY <1>2, <2>1, <2>2 DEF ToldOnce
<1> QED BY <1>3, <1>4, <1>5, <1>6 DEF AloneIInv

(* What a claim does to a row.                                             *)
LEMMA ClaimDoes ==
  ASSUME DeliveryIInv, NEW t \in Threads, Claim(t)
  PROVE  \E batch \in SUBSET {m \in Members : Claimable(m)} :
           /\ \A m \in batch : /\ rows[m] # NoRow /\ rows'[m] # NoRow
                               /\ rows'[m].status = "processing" /\ rows'[m].sent = rows[m].sent
                               /\ rows'[m].attempts = rows[m].attempts
           /\ \A m \in Members : m \notin batch => rows'[m] = rows[m]
           /\ EnqueueAll(batch)
           /\ \/ setup.backend = "rq" /\ UNCHANGED <<thread, alone>>
              \/ /\ setup.backend # "rq"
                 /\ \E rec \in ThreadState :
                      thread' = [thread EXCEPT ![t] = rec] /\ rec.at = "next" /\ rec.todo = batch
                 /\ alone' = (alone /\ \A u \in Threads : thread[u] = Idle)
<1>1. PICK batch \in SUBSET {m \in Members : Claimable(m)} :
        /\ rows' = [m \in Members |->
             IF m \in batch THEN [rows[m] EXCEPT !.status = "processing"] ELSE rows[m]]
        /\ EnqueueAll(batch)
        /\ IF setup.backend = "rq" THEN UNCHANGED <<thread, alone>>
           ELSE /\ thread' = [thread EXCEPT ![t] = [Idle EXCEPT !.at = "next", !.todo = batch]]
                /\ alone' = (alone /\ \A u \in Threads : thread[u] = Idle)
  BY DEF Claim
<1>2. ASSUME NEW m \in batch
      PROVE  /\ rows[m] # NoRow /\ rows'[m] # NoRow
             /\ rows'[m].status = "processing" /\ rows'[m].sent = rows[m].sent
             /\ rows'[m].attempts = rows[m].attempts
  <2> DEFINE r == [rows[m] EXCEPT !.status = "processing"]
  <2>1. m \in Members /\ rows[m] # NoRow
    BY DEF Claimable
  <2>2. rows[m] \in Row
    BY <2>1, DeliveryTypes DEF DeliveryIInv
  <2>3. r \in Row /\ r.status = "processing" /\ r.sent = rows[m].sent /\ r.attempts = rows[m].attempts
    BY <2>2 DEF Row, Statuses
  <2>4. rows'[m] = r
    BY <1>1, <2>1
  <2> HIDE DEF r
  <2> QED BY <2>1, <2>3, <2>4, RowAssumption
<1>3. \A m \in Members : m \notin batch => rows'[m] = rows[m]
  BY <1>1
<1> DEFINE rest == [Idle EXCEPT !.at = "next", !.todo = batch]
<1>4. rest \in ThreadState /\ rest.at = "next" /\ rest.todo = batch
  BY IdleState DEF ThreadState
<1>5. \/ setup.backend = "rq" /\ UNCHANGED <<thread, alone>>
      \/ /\ setup.backend # "rq" /\ thread' = [thread EXCEPT ![t] = rest]
         /\ alone' = (alone /\ \A u \in Threads : thread[u] = Idle)
  BY <1>1
<1> HIDE DEF rest
<1> QED BY <1>1, <1>2, <1>3, <1>4, <1>5

(* A claim by the only thread at work keeps the others idle.                *)
LEMMA ClaimAlone ==
  ASSUME DeliveryIInv, AloneIInv, NEW t \in Threads, Claim(t)
  PROVE  AloneIInv'
<1>1. PICK batch \in SUBSET {m \in Members : Claimable(m)} :
        /\ \A m \in batch : /\ rows[m] # NoRow /\ rows'[m] # NoRow /\ rows'[m].sent = rows[m].sent
        /\ \A m \in Members : m \notin batch => rows'[m] = rows[m]
        /\ EnqueueAll(batch)
        /\ \/ setup.backend = "rq" /\ UNCHANGED <<thread, alone>>
           \/ /\ setup.backend # "rq"
              /\ \E rec \in ThreadState :
                   thread' = [thread EXCEPT ![t] = rec] /\ rec.at = "next" /\ rec.todo = batch
              /\ alone' = (alone /\ \A u \in Threads : thread[u] = Idle)
  BY ClaimDoes
<1>2. UNCHANGED <<setup, taken>>
  BY DEF Claim
<1>3. \A m \in Members : /\ rows'[m] # NoRow <=> rows[m] # NoRow
                         /\ rows[m] # NoRow => rows'[m].sent = rows[m].sent
  BY <1>1
<1>4. setup.backend = "local" => jobs' = jobs
  BY <1>1 DEF EnqueueAll
<1>5. CASE setup.backend = "rq" /\ UNCHANGED <<thread, alone>>
  <2>1. OnePhoneEach'
    BY <1>3, RecipientsStay DEF AloneIInv, SameRecipients
  <2>2. OneBusy' /\ NoJobs'
    BY <1>2, <1>5 DEF AloneIInv, OneBusy, NoJobs
  <2>3. ToldOnce'
    BY <1>2, <1>3, <1>5 DEF AloneIInv, ToldOnce, Delivered
  <2> QED BY <2>1, <2>2, <2>3 DEF AloneIInv
<1>6. CASE setup.backend # "rq"
  <2>1. PICK rec \in ThreadState : thread' = [thread EXCEPT ![t] = rec] /\ rec.at = "next"
    BY <1>1, <1>6
  <2>2. alone' => alone /\ \A u \in Threads : thread[u] = Idle
    BY <1>1, <1>6
  <2>3. ASSUME alone', NEW m \in Members, taken'[m] > 0
        PROVE  taken'[m] = 1 /\ rows'[m] # NoRow /\ (rows'[m].sent \/ Delivered(rec, m))
    <3>1. taken[m] = 1 /\ rows[m] # NoRow /\ (rows[m].sent \/ Delivered(thread[t], m))
      BY <1>2, <2>1, <2>2, <2>3, SoleWorks
    <3>2. ~Delivered(thread[t], m)
      BY <2>2, <2>3, IdleIs
    <3> QED BY <1>2, <1>3, <3>1, <3>2
  <2>4. SameRecipients /\ rec.at \notin Working
    BY <1>3, <2>1 DEF SameRecipients, Working
  <2> QED BY <1>2, <1>4, <2>1, <2>2, <2>3, <2>4, WorkerAlone
<1> QED BY <1>1, <1>5, <1>6

(* A delivery that is loaded to be sent has not been sent.                 *)
LEMMA LoadAlone ==
  ASSUME DeliveryIInv, AloneIInv, NEW t \in Threads, NEW m \in Members, NEW rest \in SUBSET Members,
         Load(t, m, rest), rows[m] # NoRow, UNCHANGED <<setup, rows, taken>>,
         setup.backend = "local" => jobs' = jobs, thread[t].at \in {"idle", "next"},
         alone' => alone /\ (thread[t] # Idle \/ \A u \in Threads : thread[u] = Idle)
  PROVE  AloneIInv'
<1>1. PICK rec \in ThreadState :
        /\ thread' = [thread EXCEPT ![t] = rec]
        /\ \/ rec.at \in {"idle", "next"}
           \/ rec.at = "mark" /\ rec.member = m /\ ~rows[m].sent
  BY LoadDoes
<1>2. ASSUME alone', NEW n \in Members, taken[n] > 0
      PROVE  taken[n] = 1 /\ rows[n] # NoRow /\ rows[n].sent
  <2>1. taken[n] = 1 /\ rows[n] # NoRow /\ (rows[n].sent \/ Delivered(thread[t], n))
    BY <1>1, <1>2, SoleWorks
  <2> QED BY <2>1 DEF Delivered
<1>3. ASSUME alone', rec.at \in Working PROVE taken[rec.member] = 0
  <2>1. rec.member = m /\ ~rows[m].sent
    BY <1>1, <1>3 DEF Working
  <2>2. taken[m] \in 0..2
    BY DeliveryTypes DEF DeliveryIInv
  <2> QED BY <1>2, <1>3, <2>1, <2>2
<1>4. SameRecipients
  BY DEF SameRecipients
<1> QED BY <1>1, <1>2, <1>3, <1>4, WorkerAlone

(* The steps of a delivery keep, while alone, one thread at work whose      *)
(* notice was not taken before.                                             *)
LEMMA StepsAlone ==
  ASSUME DeliveryIInv, AloneIInv, NEW t \in Threads,
         Mark(t) \/ Refresh(t) \/ Send(t) \/ Record(t)
  PROVE  AloneIInv'
<1> DEFINE m == thread[t].member
<1>1. /\ UNCHANGED setup /\ (alone' => alone) /\ thread[t] # Idle /\ thread[t].at \in Working
      /\ m \in Members /\ taken \in [Members -> 0..2]
  <2>1. /\ UNCHANGED setup /\ (alone' => alone) /\ thread[t].at \in Working
    BY DEF Mark, Refresh, Send, Record, Working
  <2>2. m \in Members /\ taken \in [Members -> 0..2]
    BY <2>1, DeliveryTypes DEF DeliveryIInv
  <2> QED BY <2>1, <2>2, IdleIs DEF Working
<1>2. CASE Mark(t)
  <2>1. PICK rec \in ThreadState :
          thread' = [thread EXCEPT ![t] = rec] /\ rec.at = "refresh" /\ rec.member = m
    BY <1>2, MarkDoes
  <2>2. /\ rows[m] # NoRow /\ rows'[m] # NoRow /\ rows'[m].sent = rows[m].sent
        /\ \A n \in Members : n # m => rows'[n] = rows[n]
    BY <1>2, MarkDoes
  <2>3. UNCHANGED <<taken, jobs>> /\ thread[t].at = "mark"
    BY <1>2 DEF Mark
  <2>4. SameRecipients
    BY <2>2 DEF SameRecipients
  <2>5. ASSUME alone', NEW n \in Members, taken'[n] > 0
        PROVE  taken'[n] = 1 /\ rows'[n] # NoRow /\ (rows'[n].sent \/ Delivered(rec, n))
    <3>1. taken[n] = 1 /\ rows[n] # NoRow /\ (rows[n].sent \/ Delivered(thread[t], n))
      BY <1>1, <2>1, <2>3, <2>5, SoleWorks
    <3> QED BY <2>2, <2>3, <3>1 DEF Delivered
  <2>6. alone' => taken'[m] = 0
    <3>1. ~Delivered(thread[t], m)
      BY <2>3 DEF Delivered
    <3> QED BY <1>1, <2>1, <2>3, <3>1, SoleWorks
  <2> HIDE DEF m
  <2> QED BY <1>1, <2>1, <2>3, <2>4, <2>5, <2>6, WorkerAlone
<1>3. CASE Refresh(t)
  <2>1. PICK rec \in ThreadState :
          /\ thread' = [thread EXCEPT ![t] = rec] /\ rec.member = m
          /\ Delivered(rec, m) => rows[m].status = "sent"
    BY <1>3, RefreshDoes
  <2>2. UNCHANGED <<rows, taken, jobs>> /\ thread[t].at = "refresh" /\ rows[m] # NoRow
    BY <1>3, RefreshDoes DEF Refresh
  <2>3. SameRecipients
    BY <2>2 DEF SameRecipients
  <2>4. ASSUME alone', NEW n \in Members, taken'[n] > 0
        PROVE  taken'[n] = 1 /\ rows'[n] # NoRow /\ (rows'[n].sent \/ Delivered(rec, n))
    <3>1. taken[n] = 1 /\ rows[n] # NoRow /\ (rows[n].sent \/ Delivered(thread[t], n))
      BY <1>1, <2>1, <2>2, <2>4, SoleWorks
    <3> QED BY <2>2, <3>1 DEF Delivered
  <2>5. alone' => taken'[m] = 0
    <3>1. ~Delivered(thread[t], m)
      BY <2>2 DEF Delivered
    <3> QED BY <1>1, <2>1, <2>2, <3>1, SoleWorks
  <2> HIDE DEF m
  <2> QED BY <1>1, <2>1, <2>2, <2>3, <2>4, <2>5, WorkerAlone
<1>4. CASE Send(t)
  <2>1. PICK rec \in ThreadState :
          /\ thread' = [thread EXCEPT ![t] = rec] /\ rec.at = "record" /\ rec.member = m
          /\ alone' => (Takes(m) /\ rec.outcome = "sent") \/ (UNCHANGED taken /\ rec.outcome # "sent")
    <3>1. \E rec \in ThreadState :
            /\ thread' = [thread EXCEPT ![t] = rec] /\ rec.at = "record" /\ rec.member = m
            /\ alone' => \/ Takes(m) /\ rec.outcome = "sent"
                         \/ UNCHANGED taken /\ rec.outcome # "sent"
      BY <1>4, SendDoes
    <3> QED BY <3>1
  <2>2. UNCHANGED <<rows, jobs>> /\ thread[t].at = "send" /\ rows[m] # NoRow
    BY <1>4, SendDoes DEF Send
  <2>3. SameRecipients
    BY <2>2 DEF SameRecipients
  <2>4. alone' => /\ taken[m] = 0
                  /\ \A n \in Members : taken[n] > 0 => taken[n] = 1 /\ rows[n] # NoRow /\ rows[n].sent
    <3>1. \A n \in Members : ~Delivered(thread[t], n)
      BY <2>2 DEF Delivered
    <3> QED BY <1>1, <2>1, <3>1, SoleWorks
  <2>5. ASSUME alone', Takes(m) PROVE taken'[m] = 1 /\ \A n \in Members : n # m => taken'[n] = taken[n]
    BY <1>1, <2>4, <2>5 DEF Takes
  <2>6. ASSUME alone', NEW n \in Members, taken'[n] > 0
        PROVE  taken'[n] = 1 /\ rows'[n] # NoRow /\ (rows'[n].sent \/ Delivered(rec, n))
    <3>1. CASE UNCHANGED taken
      BY <2>2, <2>4, <2>6, <3>1
    <3>2. CASE Takes(m) /\ rec.outcome = "sent"
      BY <2>1, <2>2, <2>4, <2>5, <2>6, <3>2 DEF Delivered
    <3> QED BY <2>1, <2>6, <3>1, <3>2
  <2>7. ASSUME alone', ~Delivered(rec, m) PROVE taken'[m] = 0
    <3>1. UNCHANGED taken
      BY <2>1, <2>7 DEF Delivered
    <3> QED BY <2>4, <2>7, <3>1
  <2> HIDE DEF m
  <2> QED BY <1>1, <2>1, <2>2, <2>3, <2>6, <2>7, WorkerAlone
<1>5. CASE Record(t)
  <2> DEFINE rec == Rest(t)
  <2>1. /\ thread' = [thread EXCEPT ![t] = rec] /\ rec.at \in {"idle", "next"}
        /\ rec \in ThreadState
        /\ rows[m] # NoRow /\ rows'[m] # NoRow /\ UNCHANGED taken
        /\ rows'[m].sent = (rows[m].sent \/ thread[t].outcome = "sent")
        /\ \A n \in Members : n # m => rows'[n] = rows[n]
    BY <1>5, RecordDoes
  <2>2. setup.backend = "local" => jobs' = jobs
    BY <1>5 DEF Record, Raised
  <2> HIDE DEF rec
  <2>3. SameRecipients
    BY <2>1 DEF SameRecipients
  <2>4. ASSUME alone', NEW n \in Members, taken'[n] > 0
        PROVE  taken'[n] = 1 /\ rows'[n] # NoRow /\ (rows'[n].sent \/ Delivered(rec, n))
    <3>1. taken[n] = 1 /\ rows[n] # NoRow /\ (rows[n].sent \/ Delivered(thread[t], n))
      BY <1>1, <2>1, <2>4, SoleWorks
    <3>2. CASE n = m
      BY <2>1, <3>1, <3>2 DEF Delivered
    <3>3. CASE n # m
      BY <2>1, <3>1, <3>3 DEF Delivered
    <3> QED BY <3>2, <3>3
  <2>5. rec.at \notin Working
    BY <2>1 DEF Working
  <2> QED BY <1>1, <2>1, <2>2, <2>3, <2>4, <2>5, WorkerAlone
<1> QED BY <1>2, <1>3, <1>4, <1>5

(* Nothing was taken and nobody is at work at first.                        *)
LEMMA AloneStarts == Init => AloneIInv
<1> SUFFICES ASSUME Init PROVE AloneIInv
  OBVIOUS
<1>1. /\ \A m \in Members : rows[m] = NoRow /\ taken[m] = 0 /\ jobs[m].entries = 0
      /\ \A t \in Threads : thread[t] = Idle
  BY DEF Init
<1>2. \A t \in Threads : thread[t].at \notin Working
  BY <1>1, IdleIs DEF Working
<1> QED BY <1>1, <1>2 DEF AloneIInv, OnePhoneEach, Announced, OneBusy, ToldOnce, NoJobs

(* Every step keeps the invariant of deliveries that do not overlap.        *)
LEMMA AloneStep == DeliveryIInv /\ AloneIInv /\ [Next]_vars => AloneIInv'
<1> SUFFICES ASSUME DeliveryIInv, AloneIInv, [Next]_vars PROVE AloneIInv'
  OBVIOUS
<1>1. CASE UNCHANGED vars
  BY <1>1 DEF vars, AloneIInv, OnePhoneEach, Announced, OneBusy, ToldOnce, NoJobs, Delivered
<1>2. ASSUME NEW t \in Threads, NEW m \in Members, TakeFromBatch(t, m) PROVE AloneIInv'
  <2>1. rows[m] # NoRow /\ thread[t].todo \in SUBSET Members /\ thread[t].at = "next" /\ thread[t] # Idle
    BY <1>2, DeliveryTypes, IdleIs DEF TakeFromBatch, DeliveryIInv, WorkHasRow, ThreadState
  <2>2. Load(t, m, thread[t].todo \ {m}) /\ UNCHANGED <<setup, rows, taken, jobs, alone>>
    BY <1>2 DEF TakeFromBatch
  <2> QED BY <2>1, <2>2, LoadAlone
<1>3. ASSUME NEW t \in Threads, NEW m \in Members, TakeJob(t, m) PROVE AloneIInv'
  <2>1. /\ Load(t, m, {}) /\ UNCHANGED <<setup, rows, taken>> /\ jobs[m].entries > 0
        /\ thread[t].at = "idle" /\ alone' = (alone /\ \A u \in Threads : thread[u] = Idle)
    BY <1>3, IdleIs DEF TakeJob
  <2>2. rows[m] # NoRow
    BY <2>1 DEF DeliveryIInv, WorkHasRow
  <2>3. setup.backend # "local"
    BY <2>1 DEF AloneIInv, NoJobs
  <2>4. {} \in SUBSET Members
    OBVIOUS
  <2> QED BY <2>1, <2>2, <2>3, <2>4, LoadAlone
<1>4. ASSUME NEW t \in Threads, Stop(t) PROVE AloneIInv'
  <2>1. /\ thread' = [thread EXCEPT ![t] = Idle] /\ alone' = FALSE
        /\ UNCHANGED <<setup, rows, jobs, taken>>
    BY <1>4 DEF Stop
  <2>2. SameRecipients
    BY <2>1 DEF SameRecipients
  <2> QED BY <2>1, <2>2, IdleState, IdleIs, WorkerAlone DEF Working
<1> QED BY <1>1, <1>2, <1>3, <1>4, QueueAlone, ClaimAlone, StepsAlone DEF Next, Work

(* While no two threads send at once, none stops and the provider answers,  *)
(* each phone gets the announcement at most once, members who share one     *)
(* included: a row is loaded to be sent only by the thread at work, and     *)
(* only while it has no sending time (process_announcement_delivery).       *)
THEOREM ToldOnceAlone == Spec => []ToldOnceWhenAlone
<1>1. Init => DeliveryIInv /\ AloneIInv
  BY DeliveryStart, AloneStarts
<1>2. DeliveryIInv /\ AloneIInv /\ [Next]_vars => (DeliveryIInv /\ AloneIInv)'
  BY DeliveryStep, AloneStep
<1>3. AloneIInv => ToldOnceWhenAlone
  BY DEF AloneIInv, OnePhoneEach, ToldOnce, ToldOnceWhenAlone, Announced
<1> QED BY <1>1, <1>2, <1>3, PTL DEF Spec

-------------------------------------------------------------------------------
(* Attempts and the summary row, in the local backend                      *)

(* A delivery in the hands of the thread at work has an attempt left.      *)
Untried(m) == rows[m].status = "processing" /\ rows[m].attempts < MaxAttempts

WithinLimit(m) == /\ rows[m].attempts <= MaxAttempts
                  /\ Claimable(m) => rows[m].attempts < MaxAttempts

Underway(rec) ==
  /\ \A m \in rec.todo : Untried(m)
  /\ rec.at \in Working => Untried(rec.member) /\ rec.member \notin rec.todo
  /\ rec.at \in {"send", "record"} =>
       rec.status = "processing" /\ rec.attempts = rows[rec.member].attempts

AloneLocal == alone /\ setup.backend = "local"

AttemptsLeft ==
  AloneLocal => /\ \A m \in Announced : WithinLimit(m)
                /\ \A t \in Threads : Underway(thread[t])

LocalIInv == AttemptsLeft /\ SummaryOneBehindWhenAlone

SaysSent(m) == rows[m] # NoRow /\ rows[m].status = "sent"

(* The count of sent rows is the same when no row changes what it says.     *)
LEMMA SentSame ==
  ASSUME \A m \in Members : SaysSent(m)' <=> SaysSent(m)
  PROVE  Sent' = Sent
<1> DEFINE S == {m \in Members : SaysSent(m)}
<1>1. {m \in Members : SaysSent(m)'} = S
  OBVIOUS
<1> QED BY <1>1 DEF Sent, SaysSent

(* One row more says sent: the count is one more.                           *)
LEMMA SentOneMore ==
  ASSUME NEW m \in Members, ~SaysSent(m), SaysSent(m)',
         \A n \in Members : n # m => (SaysSent(n)' <=> SaysSent(n))
  PROVE  Sent' = Sent + 1
<1> DEFINE S == {n \in Members : SaysSent(n)}
           T == {n \in Members : SaysSent(n)'}
<1>1. T = S \cup {m} /\ m \notin S
  OBVIOUS
<1>2. IsFiniteSet(S)
  BY DeliveryAssumption, FS_Subset
<1>3. Sent = Cardinality(S) /\ Sent' = Cardinality(T)
  BY DEF Sent, SaysSent
<1> HIDE DEF S, T
<1> QED BY <1>1, <1>2, <1>3, FS_AddElement

(* An idle thread carries no attempt and no outcome.                        *)
LEMMA IdleUnderway == Underway(Idle)
BY IdleIs DEF Underway, Working

(* The limit of attempts holds after a step of the only thread at work if   *)
(* it holds of the rows and of what the thread has in hand.                 *)
LEMMA AttemptsKept ==
  ASSUME DeliveryIInv, AloneIInv, NEW t \in Threads, NEW rec \in ThreadState,
         thread' = [thread EXCEPT ![t] = rec], setup' = setup,
         AloneLocal' => alone /\ (thread[t] # Idle \/ \A u \in Threads : thread[u] = Idle),
         AloneLocal' => \A m \in Members : rows'[m] # NoRow => WithinLimit(m)',
         AloneLocal' => Underway(rec)'
  PROVE  AttemptsLeft'
<1> SUFFICES ASSUME AloneLocal' PROVE AttemptsLeft'
  BY DEF AttemptsLeft
<1>1. alone /\ (thread[t] # Idle \/ \A u \in Threads : thread[u] = Idle)
  OBVIOUS
<1>2. thread'[t] = rec
  BY <1>1, SoleWorks
<1>3. \A u \in Threads : u # t => thread'[u] = Idle
  BY <1>1, SoleWorks
<1>4. Underway(Idle)'
  BY IdleIs DEF Underway, Working
<1>5. ASSUME NEW u \in Threads PROVE (Underway(thread[u]))'
  <2>1. CASE u = t
    BY <1>2, <2>1 DEF Underway, Untried
  <2>2. CASE u # t
    BY <1>3, <1>4, <2>2 DEF Underway, Untried
  <2> QED BY <2>1, <2>2
<1> QED BY <1>5 DEF AttemptsLeft, Announced

(* A step that leaves the rows and the count.                              *)
LEMMA ReadsLocal ==
  ASSUME DeliveryIInv, AloneIInv, LocalIInv, NEW t \in Threads, NEW rec \in ThreadState,
         thread' = [thread EXCEPT ![t] = rec], UNCHANGED <<setup, rows, sentCount>>,
         AloneLocal' => alone /\ (thread[t] # Idle \/ \A u \in Threads : thread[u] = Idle),
         AloneLocal' => Underway(rec)
  PROVE  LocalIInv'
<1>1. AloneLocal' => AloneLocal
  BY DEF AloneLocal
<1>2. AloneLocal' => \A m \in Members : rows'[m] # NoRow => WithinLimit(m)'
  BY <1>1 DEF LocalIInv, AttemptsLeft, Announced, WithinLimit, Claimable
<1>3. AloneLocal' => Underway(rec)'
  BY DEF Underway, Untried
<1>4. AttemptsLeft'
  BY <1>2, <1>3, AttemptsKept
<1>5. Sent' = Sent
  BY DEF Sent
<1>6. SummaryOneBehindWhenAlone'
  BY <1>1, <1>5 DEF LocalIInv, SummaryOneBehindWhenAlone, AloneLocal
<1> QED BY <1>4, <1>6 DEF LocalIInv

(* New rows have no attempts, and the counts start at none.                 *)
LEMMA QueueLocal ==
  ASSUME DeliveryIInv, QueueTyped, AloneIInv, LocalIInv, Queue
  PROVE  LocalIInv'
<1>1. PICK T : rows' = [m \in Members |->
                 IF m \in T THEN [status |-> "pending", attempts |-> 0, sent |-> FALSE] ELSE NoRow]
  BY DEF Queue
<1>2. UNCHANGED <<setup, sentCount, thread, alone>> /\ \A m \in Members : rows[m] = NoRow
  BY DEF Queue, Announced
<1>3. \A m \in Members : rows'[m] # NoRow => rows'[m].status = "pending" /\ rows'[m].attempts = 0
  BY <1>1
<1>4. \A m \in Members : rows'[m] # NoRow => WithinLimit(m)'
  BY <1>3, DeliveryAssumption DEF WithinLimit, Claimable
<1>5. \A t \in Threads : thread[t].todo = {} /\ thread[t].at \notin Working
  <2> TAKE t \in Threads
  <2>1. thread[t].todo \subseteq Members
    BY DeliveryTypes DEF DeliveryIInv, ThreadState
  <2>2. thread[t].todo = {}
    BY <1>2, <2>1 DEF DeliveryIInv, WorkHasRow
  <2>3. thread[t].at \notin Working
    BY <1>2, DeliveryTypes, RowAssumption DEF DeliveryIInv
  <2> QED BY <2>2, <2>3
<1>6. \A t \in Threads : (Underway(thread[t]))'
  BY <1>2, <1>5 DEF Underway, Working
<1>7. AttemptsLeft'
  BY <1>4, <1>6 DEF AttemptsLeft, Announced
<1>8. \A m \in Members : SaysSent(m)' <=> SaysSent(m)
  BY <1>2, <1>3 DEF SaysSent
<1>9. Sent' = Sent
  BY <1>8, SentSame
<1>10. SummaryOneBehindWhenAlone'
  BY <1>2, <1>9 DEF LocalIInv, SummaryOneBehindWhenAlone
<1> QED BY <1>7, <1>10 DEF LocalIInv

(* Only rows with an attempt left are claimed by the local backend.         *)
LEMMA ClaimLocal ==
  ASSUME DeliveryIInv, AloneIInv, LocalIInv, NEW t \in Threads, Claim(t)
  PROVE  LocalIInv'
<1>1. PICK batch \in SUBSET {m \in Members : Claimable(m)} :
        /\ \A m \in batch : /\ rows[m] # NoRow /\ rows'[m] # NoRow
                            /\ rows'[m].status = "processing" /\ rows'[m].sent = rows[m].sent
                            /\ rows'[m].attempts = rows[m].attempts
        /\ \A m \in Members : m \notin batch => rows'[m] = rows[m]
        /\ \/ setup.backend = "rq" /\ UNCHANGED <<thread, alone>>
           \/ /\ setup.backend # "rq"
              /\ \E rec \in ThreadState :
                   thread' = [thread EXCEPT ![t] = rec] /\ rec.at = "next" /\ rec.todo = batch
              /\ alone' = (alone /\ \A u \in Threads : thread[u] = Idle)
  BY ClaimDoes
<1>2. UNCHANGED <<setup, sentCount>>
  BY DEF Claim
<1>3. CASE setup.backend = "rq"
  BY <1>2, <1>3 DEF LocalIInv, AttemptsLeft, SummaryOneBehindWhenAlone, AloneLocal
<1>4. CASE setup.backend # "rq"
  <2>1. PICK rec \in ThreadState :
          thread' = [thread EXCEPT ![t] = rec] /\ rec.at = "next" /\ rec.todo = batch
    BY <1>1, <1>4
  <2>2. AloneLocal' => AloneLocal /\ \A u \in Threads : thread[u] = Idle
    BY <1>1, <1>2, <1>4 DEF AloneLocal
  <2>3. ASSUME AloneLocal', NEW m \in Members, rows'[m] # NoRow
        PROVE  WithinLimit(m)' /\ (m \in batch => Untried(m)')
    <3>1. rows[m] # NoRow => WithinLimit(m)
      BY <2>2, <2>3 DEF LocalIInv, AttemptsLeft, Announced
    <3>2. CASE m \in batch
      <4>1. Claimable(m) /\ rows[m] # NoRow
        BY <1>1, <3>2
      <4>2. rows[m].attempts <= MaxAttempts /\ rows[m].attempts < MaxAttempts
        BY <3>1, <4>1 DEF WithinLimit
      <4> QED BY <1>1, <3>2, <4>2 DEF WithinLimit, Untried
    <3>3. CASE m \notin batch
      BY <1>1, <2>3, <3>1, <3>3 DEF WithinLimit, Claimable
    <3> QED BY <3>2, <3>3
  <2>4. AloneLocal' => Underway(rec)'
    <3>1. AloneLocal' => \A m \in batch : Untried(m)'
      BY <1>1, <2>3
    <3> QED BY <2>1, <3>1 DEF Underway, Working
  <2>5. AttemptsLeft'
    <3>1. AloneLocal' => alone /\ (thread[t] # Idle \/ \A u \in Threads : thread[u] = Idle)
      BY <2>2 DEF AloneLocal
    <3> QED BY <1>2, <2>1, <2>3, <2>4, <3>1, AttemptsKept
  <2>6. \A m \in Members : SaysSent(m)' <=> SaysSent(m)
    BY <1>1 DEF SaysSent, Claimable
  <2>7. Sent' = Sent
    BY <2>6, SentSame
  <2>8. SummaryOneBehindWhenAlone'
    BY <1>2, <2>2, <2>7 DEF LocalIInv, SummaryOneBehindWhenAlone, AloneLocal
  <2> QED BY <2>5, <2>8 DEF LocalIInv
<1> QED BY <1>3, <1>4

(* What the thread at work may count on.                                   *)
LEMMA UnderwayNow ==
  ASSUME AttemptsLeft, AloneLocal, NEW t \in Threads
  PROVE  Underway(thread[t])
BY DEF AttemptsLeft

(* A thread loads from its batch a row with an attempt left, or passes over *)
(* it.                                                                      *)
LEMMA TakeLocal ==
  ASSUME DeliveryIInv, AloneIInv, LocalIInv, NEW t \in Threads, NEW m \in Members, TakeFromBatch(t, m)
  PROVE  LocalIInv'
<1>1. /\ thread[t].at = "next" /\ thread[t] # Idle /\ m \in thread[t].todo
      /\ thread[t].todo \in SUBSET Members /\ rows[m] # NoRow
  BY DeliveryTypes, IdleIs DEF TakeFromBatch, DeliveryIInv, WorkHasRow, ThreadState
<1>2. UNCHANGED <<setup, rows, sentCount, alone>> /\ Load(t, m, thread[t].todo \ {m})
  BY DEF TakeFromBatch
<1>3. PICK rest \in SUBSET Members : rest = thread[t].todo \ {m}
  BY <1>1
<1>4. PICK rec \in ThreadState :
        /\ thread' = [thread EXCEPT ![t] = rec]
        /\ \/ rec.at \in {"idle", "next"} /\ rec.todo \subseteq rest
           \/ rec.at = "mark" /\ rec.member = m /\ rec.todo = rest
  BY <1>1, <1>2, <1>3, LoadDoes
<1>5. ASSUME AloneLocal' PROVE Underway(rec) /\ alone
  <2>1. AloneLocal
    BY <1>2, <1>5 DEF AloneLocal
  <2>2. \A n \in thread[t].todo : Untried(n)
    BY <2>1, UnderwayNow DEF LocalIInv, Underway
  <2>3. \A n \in rec.todo : Untried(n)
    BY <1>3, <1>4, <2>2
  <2>4. rec.at \in Working => Untried(rec.member) /\ rec.member \notin rec.todo /\ rec.at = "mark"
    BY <1>1, <1>3, <1>4, <2>2 DEF Working
  <2> QED BY <2>1, <2>3, <2>4 DEF Underway, Working, AloneLocal
<1> QED BY <1>1, <1>2, <1>4, <1>5, ReadsLocal

(* Marking leaves the attempts and what was sent as they are.               *)
LEMMA MarkLocal ==
  ASSUME DeliveryIInv, AloneIInv, LocalIInv, NEW t \in Threads, Mark(t)
  PROVE  LocalIInv'
<1>0. PICK m \in Members : m = thread[t].member
  BY MarkDoes
<1>1. PICK rec \in ThreadState :
        /\ thread' = [thread EXCEPT ![t] = rec]
        /\ rec.at = "refresh" /\ rec.member = m /\ rec.todo = thread[t].todo
  BY <1>0, MarkDoes
<1>2. /\ m \in Members /\ rows[m] # NoRow /\ rows'[m] # NoRow
      /\ rows'[m].sent = rows[m].sent /\ rows'[m].attempts = rows[m].attempts
      /\ rows'[m].status \in {"processing", rows[m].status}
      /\ \A n \in Members : n # m => rows'[n] = rows[n]
  BY <1>0, MarkDoes
<1>3. UNCHANGED <<setup, sentCount, alone>> /\ thread[t].at = "mark" /\ thread[t] # Idle
  BY IdleIs DEF Mark
<1>4. thread[t].todo \subseteq Members
  BY DeliveryTypes DEF DeliveryIInv, ThreadState
<1>5. AloneLocal' => AloneLocal
  BY <1>3 DEF AloneLocal
<1>6. AloneLocal => /\ Untried(m) /\ m \notin thread[t].todo
                    /\ \A n \in thread[t].todo : Untried(n)
  BY <1>0, <1>3, UnderwayNow DEF LocalIInv, Underway, Working
<1>7. AloneLocal => rows'[m].status = "processing" /\ rows[m].status = "processing"
  BY <1>2, <1>6 DEF Untried
<1>8. ASSUME AloneLocal' PROVE Underway(rec)'
  BY <1>1, <1>2, <1>4, <1>5, <1>6, <1>7, <1>8 DEF Underway, Untried
<1>9. ASSUME AloneLocal', NEW n \in Members, rows'[n] # NoRow PROVE WithinLimit(n)'
  <2>1. rows[n] # NoRow => WithinLimit(n)
    BY <1>5, <1>9 DEF LocalIInv, AttemptsLeft, Announced
  <2>2. CASE n = m
    <3>1. rows[m].attempts <= MaxAttempts
      BY <1>2, <2>1, <2>2 DEF WithinLimit
    <3>2. rows[m].attempts < MaxAttempts
      BY <1>5, <1>6, <1>9 DEF Untried
    <3> QED BY <1>2, <2>2, <3>1, <3>2 DEF WithinLimit
  <2>3. CASE n # m
    BY <1>2, <1>9, <2>1, <2>3 DEF WithinLimit, Claimable
  <2> QED BY <2>2, <2>3
<1>10. AttemptsLeft'
  <2>1. AloneLocal' => alone /\ (thread[t] # Idle \/ \A u \in Threads : thread[u] = Idle)
    BY <1>3, <1>5 DEF AloneLocal
  <2> QED BY <1>1, <1>3, <1>8, <1>9, <2>1, AttemptsKept
<1>11. SummaryOneBehindWhenAlone'
  <2> SUFFICES ASSUME AloneLocal' PROVE sentCount' \in {Sent', Sent' - 1}
    BY DEF SummaryOneBehindWhenAlone, AloneLocal
  <2>1. \A n \in Members : SaysSent(n)' <=> SaysSent(n)
    BY <1>2, <1>5, <1>7 DEF SaysSent
  <2>2. Sent' = Sent
    BY <2>1, SentSame
  <2> QED BY <1>3, <1>5, <2>2 DEF LocalIInv, SummaryOneBehindWhenAlone, AloneLocal
<1> QED BY <1>10, <1>11 DEF LocalIInv

(* The reload copies the row's attempts.                                    *)
LEMMA RefreshLocal ==
  ASSUME DeliveryIInv, AloneIInv, LocalIInv, NEW t \in Threads, Refresh(t)
  PROVE  LocalIInv'
<1> DEFINE m == thread[t].member
<1>1. PICK rec \in ThreadState :
        /\ thread' = [thread EXCEPT ![t] = rec]
        /\ rec.at \in {"send", "record"} /\ rec.member = m /\ rec.todo = thread[t].todo
        /\ rec.status = rows[m].status /\ rec.attempts = rows[m].attempts
  BY RefreshDoes
<1>2. UNCHANGED <<setup, rows, sentCount, alone>> /\ thread[t].at = "refresh" /\ thread[t] # Idle
  BY IdleIs DEF Refresh
<1>3. AloneLocal => /\ Untried(m) /\ m \notin thread[t].todo
                    /\ \A n \in thread[t].todo : Untried(n)
  BY <1>2, UnderwayNow DEF LocalIInv, Underway, Working
<1> HIDE DEF m
<1>4. ASSUME AloneLocal' PROVE Underway(rec) /\ alone
  <2>1. AloneLocal
    BY <1>2, <1>4 DEF AloneLocal
  <2>2. rows[m].status = "processing"
    BY <1>3, <2>1 DEF Untried
  <2> QED BY <1>1, <1>3, <2>1, <2>2 DEF Underway, AloneLocal
<1> QED BY <1>1, <1>2, <1>4, ReadsLocal

(* Sending changes no row: the attempt is still the thread's.               *)
LEMMA SendLocal ==
  ASSUME DeliveryIInv, AloneIInv, LocalIInv, NEW t \in Threads, Send(t)
  PROVE  LocalIInv'
<1> DEFINE m == thread[t].member
<1>1. PICK rec \in ThreadState :
        /\ thread' = [thread EXCEPT ![t] = rec]
        /\ rec.at = "record" /\ rec.member = m /\ rec.todo = thread[t].todo
        /\ rec.status = thread[t].status /\ rec.attempts = thread[t].attempts
  BY SendDoes
<1>2. UNCHANGED <<setup, rows, sentCount>> /\ thread[t].at = "send" /\ thread[t] # Idle
      /\ (alone' => alone)
  BY IdleIs DEF Send
<1>3. ASSUME AloneLocal' PROVE Underway(rec) /\ alone
  <2>1. AloneLocal
    BY <1>2, <1>3 DEF AloneLocal
  <2>2. Underway(thread[t])
    BY <2>1, UnderwayNow DEF LocalIInv
  <2> QED BY <1>1, <1>2, <2>1, <2>2 DEF Underway, Working, AloneLocal
<1> QED BY <1>1, <1>2, <1>3, ReadsLocal

(* One attempt more, within the limit; a retry only below it.              *)
LEMMA NextStatusIs ==
  ASSUME NEW outcome \in Outcomes, NEW attempts
  PROVE  /\ NextStatus(outcome, attempts) \in {"sent", "skipped", "failed", "pending"}
         /\ NextStatus(outcome, attempts) = "pending" => attempts < MaxAttempts
<1>1. CASE outcome \in {"sent", "skipped"}
  BY <1>1 DEF NextStatus
<1>2. CASE outcome = "error"
  BY <1>2 DEF NextStatus
<1>3. CASE outcome = "transient"
  BY <1>3 DEF NextStatus
<1> QED BY <1>1, <1>2, <1>3 DEF Outcomes

(* Recording adds the one attempt there was left, and counts before it      *)
(* writes: the counts miss at most this outcome.                            *)
LEMMA RecordLocal ==
  ASSUME DeliveryIInv, QueueTyped, AloneIInv, LocalIInv, NEW t \in Threads, Record(t)
  PROVE  LocalIInv'
<1>0. PICK m \in Members : m = thread[t].member
  BY RecordDoes
<1> DEFINE said == NextStatus(thread[t].outcome, OneMore(thread[t].attempts))
<1>1. /\ m \in Members /\ rows[m] # NoRow /\ thread[t].at = "record" /\ thread[t] \in ThreadState
      /\ rows'[m] # NoRow /\ rows'[m].attempts = OneMore(thread[t].attempts)
      /\ rows'[m].status = (IF said = thread[t].status THEN rows[m].status ELSE said)
      /\ \A n \in Members : n # m => rows'[n] = rows[n]
  BY <1>0, RecordDoes
<1>2. PICK rec \in ThreadState :
        /\ thread' = [thread EXCEPT ![t] = rec]
        /\ rec.at \in {"idle", "next"} /\ rec.todo \subseteq thread[t].todo
  BY RecordDoes
<1>3. /\ UNCHANGED <<setup, alone>> /\ thread[t] # Idle
      /\ sentCount' = (IF said = "pending" THEN sentCount ELSE Sent)
  BY <1>0, <1>1, IdleIs DEF Record
<1>4. thread[t].todo \subseteq Members /\ thread[t].attempts \in 0..MaxAttempts + 1
      /\ thread[t].outcome \in Outcomes
  BY <1>1 DEF ThreadState
<1>5. /\ said \in {"sent", "skipped", "failed", "pending"}
      /\ said = "pending" => OneMore(thread[t].attempts) < MaxAttempts
  BY <1>4, NextStatusIs
<1>6. AloneLocal' => AloneLocal
  BY <1>3 DEF AloneLocal
<1>7. AloneLocal => /\ Untried(m) /\ m \notin thread[t].todo
                    /\ \A n \in thread[t].todo : Untried(n)
                    /\ thread[t].status = "processing" /\ thread[t].attempts = rows[m].attempts
  BY <1>0, <1>1, UnderwayNow DEF LocalIInv, Underway, Working
<1> HIDE DEF said
<1>8. AloneLocal => /\ rows'[m].attempts <= MaxAttempts
                    /\ rows'[m].status = said
                    /\ rows[m].status = "processing"
  <2> SUFFICES ASSUME AloneLocal
               PROVE  /\ rows'[m].attempts <= MaxAttempts
                      /\ rows'[m].status = said
                      /\ rows[m].status = "processing"
    OBVIOUS
  <2>1. rows[m].status = "processing" /\ thread[t].attempts < MaxAttempts
    BY <1>7 DEF Untried
  <2>2. OneMore(thread[t].attempts) <= MaxAttempts
    BY <1>4, <2>1, DeliveryAssumption DEF OneMore
  <2>3. rows'[m].status = said
    BY <1>1, <1>5, <1>7
  <2> QED BY <1>1, <2>1, <2>2, <2>3
<1>9. ASSUME AloneLocal' PROVE Underway(rec)'
  <2>1. \A n \in rec.todo : Untried(n)'
    BY <1>1, <1>2, <1>4, <1>6, <1>7, <1>9 DEF Untried
  <2> QED BY <1>2, <2>1 DEF Underway, Working
<1>10. ASSUME AloneLocal', NEW n \in Members, rows'[n] # NoRow PROVE WithinLimit(n)'
  <2>1. rows[n] # NoRow => WithinLimit(n)
    BY <1>6, <1>10 DEF LocalIInv, AttemptsLeft, Announced
  <2>2. CASE n = m
    BY <1>1, <1>5, <1>6, <1>8, <1>10, <2>2 DEF WithinLimit, Claimable
  <2>3. CASE n # m
    BY <1>1, <1>10, <2>1, <2>3 DEF WithinLimit, Claimable
  <2> QED BY <2>2, <2>3
<1>11. AttemptsLeft'
  <2>1. AloneLocal' => alone /\ (thread[t] # Idle \/ \A u \in Threads : thread[u] = Idle)
    BY <1>3, <1>6 DEF AloneLocal
  <2> QED BY <1>2, <1>3, <1>9, <1>10, <2>1, AttemptsKept
<1>12. SummaryOneBehindWhenAlone'
  <2> SUFFICES ASSUME AloneLocal' PROVE sentCount' \in {Sent', Sent' - 1}
    BY DEF SummaryOneBehindWhenAlone, AloneLocal
  <2>1. ~SaysSent(m) /\ \A n \in Members : n # m => (SaysSent(n)' <=> SaysSent(n))
    BY <1>1, <1>6, <1>8 DEF SaysSent
  <2>2. Sent \in Nat
    BY SentIsCounted, DeliveryAssumption, FS_CardinalityType
  <2>3. CASE said = "sent"
    <3>1. SaysSent(m)'
      BY <1>1, <1>6, <1>8, <2>3 DEF SaysSent
    <3>2. Sent' = Sent + 1
      BY <1>1, <2>1, <3>1, SentOneMore
    <3> QED BY <1>3, <2>2, <2>3, <3>2
  <2>4. CASE said # "sent"
    <3>1. ~SaysSent(m)'
      BY <1>1, <1>6, <1>8, <2>4 DEF SaysSent
    <3>2. Sent' = Sent
      BY <2>1, <3>1, SentSame
    <3>3. sentCount \in {Sent, Sent - 1}
      BY <1>6 DEF LocalIInv, SummaryOneBehindWhenAlone, AloneLocal
    <3> QED BY <1>3, <3>2, <3>3
  <2> QED BY <2>3, <2>4
<1> QED BY <1>11, <1>12 DEF LocalIInv

(* No attempts and nothing sent at first.                                   *)
LEMMA LocalStarts == Init => LocalIInv
<1> SUFFICES ASSUME Init PROVE LocalIInv
  OBVIOUS
<1>1. /\ \A m \in Members : rows[m] = NoRow
      /\ \A t \in Threads : thread[t] = Idle
      /\ sentCount = 0
  BY DEF Init
<1>2. AttemptsLeft
  BY <1>1, IdleUnderway DEF AttemptsLeft, Announced
<1>3. Sent = 0
  <2>1. {m \in Members : rows[m] # NoRow /\ rows[m].status = "sent"} = {}
    BY <1>1
  <2> QED BY <2>1, FS_EmptySet DEF Sent
<1> QED BY <1>1, <1>2, <1>3 DEF LocalIInv, SummaryOneBehindWhenAlone

(* Every step keeps the limit of attempts and the counts.                   *)
LEMMA LocalStep ==
  DeliveryIInv /\ QueueTyped /\ AloneIInv /\ LocalIInv /\ [Next]_vars => LocalIInv'
<1> SUFFICES ASSUME DeliveryIInv, QueueTyped, AloneIInv, LocalIInv, [Next]_vars PROVE LocalIInv'
  OBVIOUS
<1>1. CASE UNCHANGED vars
  BY <1>1 DEF vars, LocalIInv, AttemptsLeft, AloneLocal, Announced, WithinLimit, Claimable, Underway,
              Untried, SummaryOneBehindWhenAlone, Sent
<1>2. ASSUME NEW t \in Threads, NEW m \in Members, TakeJob(t, m) PROVE LocalIInv'
  <2>1. jobs[m].entries > 0 /\ UNCHANGED setup
    BY <1>2 DEF TakeJob
  <2>2. ~AloneLocal'
    BY <2>1 DEF AloneIInv, NoJobs, AloneLocal
  <2> QED BY <2>2 DEF LocalIInv, AttemptsLeft, SummaryOneBehindWhenAlone, AloneLocal
<1>3. ASSUME NEW t \in Threads, Stop(t) PROVE LocalIInv'
  <2>1. ~AloneLocal'
    BY <1>3 DEF Stop, AloneLocal
  <2> QED BY <2>1 DEF LocalIInv, AttemptsLeft, SummaryOneBehindWhenAlone, AloneLocal
<1> QED BY <1>1, <1>2, <1>3, QueueLocal, ClaimLocal, TakeLocal, MarkLocal, RefreshLocal, SendLocal,
           RecordLocal DEF Next, Work

(* Rows and threads fit together in every reachable state; while no two     *)
(* threads send at once, none stops and every answer arrives, one thread    *)
(* has the row and the provider took what is recorded (delivery_worker.py). *)
THEOREM AloneInvariance == Spec => [](DeliveryIInv /\ QueueTyped /\ AloneIInv /\ LocalIInv)
<1>1. Init => DeliveryIInv /\ QueueTyped /\ AloneIInv /\ LocalIInv
  BY DeliveryStart, QueueTypedStarts, AloneStarts, LocalStarts
<1>2. DeliveryIInv /\ QueueTyped /\ AloneIInv /\ LocalIInv /\ [Next]_vars
        => (DeliveryIInv /\ QueueTyped /\ AloneIInv /\ LocalIInv)'
  BY DeliveryStep, QueueTypedStep, AloneStep, LocalStep
<1> QED BY <1>1, <1>2, PTL DEF Spec

(* In the local backend and with no two threads at once, a delivery is     *)
(* tried at most ANNOUNCEMENT_RETRY_MAX times, whatever the provider does:  *)
(* only rows with an attempt left are claimed, and the thread's count is    *)
(* the row's.                                                              *)
THEOREM TriedWithinLimit == Spec => []TriedWithinLimitWhenAlone
<1>1. LocalIInv => TriedWithinLimitWhenAlone
  BY DEF LocalIInv, AttemptsLeft, AloneLocal, WithinLimit, TriedWithinLimitWhenAlone
<1> QED BY <1>1, AloneInvariance, PTL

(* In the local backend and alone, the counts of the announcement, taken   *)
(* before the outcome is written, miss at most the outcome recorded last    *)
(* (_refresh_announcement_summary).                                        *)
THEOREM SummaryOneBehind == Spec => []SummaryOneBehindWhenAlone
<1>1. LocalIInv => SummaryOneBehindWhenAlone
  BY DEF LocalIInv
<1> QED BY <1>1, AloneInvariance, PTL
===============================================================================
