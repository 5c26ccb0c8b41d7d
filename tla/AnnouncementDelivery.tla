------------------------- MODULE AnnouncementDelivery -------------------------
(* One announcement: its recipients are resolved and queued by a chat         *)
(* command, then claimed, sent and recorded by the delivery worker, in the    *)
(* scheduler's process ("local") or by RQ jobs ("rq").  A thread keeps its    *)
(* own copy of a delivery row from one commit to the next, the provider may   *)
(* take a notice without saying so, and a thread may stop anywhere.            *)
EXTENDS Integers, FiniteSets

CONSTANTS Members,      \* member identities of the society
          Phones,       \* WhatsApp ids
          PhoneOf,      \* [Members -> Phones \cup {NoPhone}]
          NoPhone,
          Active,       \* members with an active flat mapping
          Paid,         \* members of a flat that has paid for the event in full
          Threads,      \* threads of chat handlers, scheduler and RQ workers
          Setups,       \* ANNOUNCEMENT_DISPATCH_BACKEND, with the bounds considered
          MaxAttempts,  \* ANNOUNCEMENT_RETRY_MAX
          BatchSize,    \* ANNOUNCEMENT_BATCH_SIZE
          NoRow,
          MaxJobs       \* bound: entries of one job on the RQ queue

ASSUME DeliveryAssumption ==
  /\ IsFiniteSet(Members) /\ Active \subseteq Members /\ Paid \subseteq Members
  /\ PhoneOf \in [Members -> Phones \cup {NoPhone}]
  /\ Setups \subseteq [backend : {"local", "rq"}, targets : Nat, faults : Nat]
  /\ MaxAttempts \in Nat \ {0} /\ BatchSize \in Nat \ {0}
  /\ MaxJobs \in Nat \ {0}

VARIABLES setup,     \* the configured backend; bounds: deliveries of the
                     \* announcement, and stops, silent sends and lost enqueues
          rows,      \* announcement_deliveries, by member
          sentCount, \* announcements.sent_count; the other counts go with it
          jobs,      \* RQ: entries on the queue and retries left, by member
          thread,    \* what each thread is doing, with its copy of the row
          taken,     \* notices the provider took, by member, counted up to 2
          faults,    \* what has gone wrong so far
          alone      \* no two threads sent at once and nothing went wrong

vars == <<setup, rows, sentCount, jobs, thread, taken, faults, alone>>

Statuses == {"pending", "processing", "sent", "failed", "skipped"}
Row == [status : Statuses, attempts : 0..MaxAttempts + 1, sent : BOOLEAN]
Outcomes == {"sent", "skipped", "error", "transient"}

ASSUME RowAssumption == NoRow \notin Row

(* A thread holds the status and the attempts it has loaded. *)
Idle == [at |-> "idle", todo |-> {}, member |-> NoRow, status |-> "pending",
         attempts |-> 0, outcome |-> "sent"]

(* Variant: a row left in processing is never claimed again. *)
ClaimableOnce(m) == /\ rows[m] # NoRow
                    /\ ~rows[m].sent
                    /\ rows[m].status = "pending"

(* Rows the claim and the enqueuing query select. *)
Claimable(m) == /\ rows[m] # NoRow
                /\ ~rows[m].sent
                /\ rows[m].status \in {"pending", "processing"}

(* Bound: MaxJobs entries stand for all further ones. *)
OneEntryMore(entries) == IF entries < MaxJobs THEN entries + 1 ELSE entries

(* Variant: a delivery counts as sent while it is being sent. *)
SentOrSending ==
  Cardinality({m \in Members : rows[m] # NoRow /\ rows[m].status \in {"sent", "processing"}})

(* What _refresh_announcement_summary counts. *)
Sent == Cardinality({m \in Members : rows[m] # NoRow /\ rows[m].status = "sent"})

(* Bound: one attempt above the limit stands for all of them. *)
OneMore(attempts) == IF attempts > MaxAttempts THEN attempts ELSE attempts + 1

Announced == {m \in Members : rows[m] # NoRow}

Init ==
  /\ setup \in Setups
  /\ rows = [m \in Members |-> NoRow]
  /\ sentCount = 0
  /\ jobs = [m \in Members |-> [entries |-> 0, retries |-> 0]]
  /\ thread = [t \in Threads |-> Idle]
  /\ taken = [m \in Members |-> 0]
  /\ faults = 0
  /\ alone = TRUE

-------------------------------------------------------------------------------
(* Queueing *)

Candidates(scope) == IF scope = "event" THEN Active \cap Paid ELSE Active

(* Variant: members who share a WhatsApp id each get the notice. *)
TargetsByMember(scope) == {{m \in Candidates(scope) : PhoneOf[m] # NoPhone}}

(* Members without a WhatsApp id are left out; of those that share one, the   *)
(* query's order, which nothing fixes, decides who gets the notice.            *)
Targets(scope) ==
  LET reachable == {m \in Candidates(scope) : PhoneOf[m] # NoPhone}
  IN  {T \in SUBSET reachable :
         /\ \A m \in reachable : \E n \in T : PhoneOf[n] = PhoneOf[m]
         /\ \A m, n \in T : PhoneOf[n] = PhoneOf[m] => n = m}

(* A job id names the delivery: enqueuing it again overwrites the job's       *)
(* retries and adds another entry of the same id.  Redis may be unreachable,   *)
(* or the process stop, before all of them are on the queue.                   *)
EnqueueAll(batch) ==
  IF setup.backend = "local" THEN UNCHANGED <<jobs, faults>>
  ELSE \E reached \in SUBSET batch :
         /\ reached # batch => faults < setup.faults
         /\ faults' = IF reached = batch THEN faults ELSE faults + 1
         /\ jobs' = [m \in Members |->
              IF m \in reached
              THEN [entries |-> OneEntryMore(jobs[m].entries), retries |-> MaxAttempts - 1]
              ELSE jobs[m]]

(* The announcement, its rows and its total are one commit; the handler then  *)
(* enqueues a job for each row.                                                *)
Queue ==
  /\ Announced = {}
  /\ \E T \in Targets("event") \cup Targets("society") :
       /\ Cardinality(T) <= setup.targets
       /\ rows' = [m \in Members |->
            IF m \in T THEN [status |-> "pending", attempts |-> 0, sent |-> FALSE]
                       ELSE NoRow]
       /\ EnqueueAll(T)
  /\ UNCHANGED <<setup, sentCount, thread, taken, alone>>

-------------------------------------------------------------------------------
(* Sending *)

(* The scheduler's run claims a batch in one transaction; rows that are       *)
(* already being processed are claimed again.  It sends them itself, one by    *)
(* one, or leaves them to RQ.                                                  *)
Claim(t) ==
  /\ thread[t] = Idle
  /\ \E batch \in SUBSET {m \in Members : Claimable(m)} :
       /\ batch # {} /\ Cardinality(batch) <= BatchSize
       /\ Cardinality(batch) < BatchSize => batch = {m \in Members : Claimable(m)}
       /\ rows' = [m \in Members |->
            IF m \in batch THEN [rows[m] EXCEPT !.status = "processing"] ELSE rows[m]]
       /\ EnqueueAll(batch)
       /\ IF setup.backend = "rq" THEN UNCHANGED <<thread, alone>>
          ELSE /\ thread' = [thread EXCEPT ![t] = [Idle EXCEPT !.at = "next", !.todo = batch]]
               /\ alone' = (alone /\ \A u \in Threads : thread[u] = Idle)
  /\ UNCHANGED <<setup, sentCount, taken>>

(* The thread goes on with what is left of its batch. *)
Rest(t) == IF thread[t].todo = {} THEN Idle
           ELSE [Idle EXCEPT !.at = "next", !.todo = thread[t].todo]

(* process_announcement_delivery loads the row; one that was sent is passed. *)
Load(t, m, rest) ==
  thread' = [thread EXCEPT ![t] =
    IF rows[m].sent \/ rows[m].status = "sent"
    THEN IF rest = {} THEN Idle ELSE [Idle EXCEPT !.at = "next", !.todo = rest]
    ELSE [Idle EXCEPT !.at = "mark", !.todo = rest, !.member = m,
                   !.status = rows[m].status]]

TakeFromBatch(t, m) ==
  /\ thread[t].at = "next" /\ m \in thread[t].todo
  /\ Load(t, m, thread[t].todo \ {m})
  /\ UNCHANGED <<setup, rows, sentCount, jobs, taken, faults, alone>>

TakeJob(t, m) ==
  /\ thread[t] = Idle
  /\ jobs[m].entries > 0
  /\ jobs' = [jobs EXCEPT ![m].entries = @ - 1]
  /\ Load(t, m, {})
  /\ alone' = (alone /\ \A u \in Threads : thread[u] = Idle)
  /\ UNCHANGED <<setup, rows, sentCount, taken, faults>>

(* The commit writes the status only if it differs from the loaded one. *)
Mark(t) ==
  /\ thread[t].at = "mark"
  /\ rows' = IF thread[t].status = "processing" THEN rows
             ELSE [rows EXCEPT ![thread[t].member].status = "processing"]
  /\ thread' = [thread EXCEPT ![t].at = "refresh", ![t].status = "pending"]
  /\ UNCHANGED <<setup, sentCount, jobs, taken, faults, alone>>

(* The first access after the commit reloads the row.  One that is sent by    *)
(* now counts as sent again; without opt-in, template or valid payload nothing *)
(* is sent.                                                                     *)
Refresh(t) ==
  /\ thread[t].at = "refresh"
  /\ LET now == rows[thread[t].member]
         copy == [thread[t] EXCEPT !.status = now.status, !.attempts = now.attempts]
     IN  \/ /\ now.status = "sent"
            /\ thread' = [thread EXCEPT ![t] = [copy EXCEPT !.at = "record", !.outcome = "sent"]]
         \/ /\ now.status # "sent"
            /\ \/ thread' = [thread EXCEPT ![t] = [copy EXCEPT !.at = "send"]]
               \/ \E o \in {"skipped", "error"} :
                    thread' = [thread EXCEPT ![t] = [copy EXCEPT !.at = "record", !.outcome = o]]
  /\ UNCHANGED <<setup, rows, sentCount, jobs, taken, faults, alone>>

Takes(m) == taken' = [taken EXCEPT ![m] = IF @ < 2 THEN @ + 1 ELSE @]

(* Variant: a request that times out is taken for a success. *)
SendAssumed(t) ==
  /\ thread[t].at = "send"
  /\ \/ Takes(thread[t].member)
     \/ UNCHANGED taken
  /\ thread' = [thread EXCEPT ![t].at = "record", ![t].outcome = "sent"]
  /\ UNCHANGED <<setup, rows, sentCount, jobs, faults, alone>>

(* The provider takes the notice, refuses it for good or for now, or takes it *)
(* and lets the request time out, which counts as a failure for now.           *)
Send(t) ==
  /\ thread[t].at = "send"
  /\ \/ /\ Takes(thread[t].member)
        /\ thread' = [thread EXCEPT ![t].at = "record", ![t].outcome = "sent"]
        /\ UNCHANGED <<faults, alone>>
     \/ /\ \E o \in {"error", "transient"} :
             thread' = [thread EXCEPT ![t].at = "record", ![t].outcome = o]
        /\ UNCHANGED <<taken, faults, alone>>
     \/ /\ faults < setup.faults
        /\ Takes(thread[t].member)
        /\ thread' = [thread EXCEPT ![t].at = "record", ![t].outcome = "transient"]
        /\ faults' = faults + 1
        /\ alone' = FALSE
  /\ UNCHANGED <<setup, rows, sentCount, jobs>>

(* Variant: the attempt just made is not counted. *)
NextStatusLate(outcome, attempts) ==
  CASE outcome \in {"sent", "skipped"} -> outcome
    [] outcome = "error" -> "failed"
    [] outcome = "transient" -> IF attempts <= MaxAttempts THEN "pending" ELSE "failed"

(* Variant: the outcome itself is stored as the status. *)
NextStatusRaw(outcome, attempts) == outcome

(* The status an outcome leads to, after one more attempt. *)
NextStatus(outcome, attempts) ==
  CASE outcome \in {"sent", "skipped"} -> outcome
    [] outcome = "error" -> "failed"
    [] outcome = "transient" -> IF attempts < MaxAttempts THEN "pending" ELSE "failed"

(* An exception that RQ sees puts the job back while it has retries left. *)
Raised(t) == setup.backend = "rq" /\ thread[t].outcome \in {"error", "transient"}

(* The counts are taken before the commit writes this row (the session does   *)
(* not flush by itself), and not at all when the retry is deferred.  The       *)
(* commit writes the columns that differ from the thread's copy.               *)
Record(t) ==
  /\ thread[t].at = "record"
  /\ LET m == thread[t].member
         copy == thread[t]
         status == NextStatus(thread[t].outcome, OneMore(copy.attempts))
     IN  /\ rows' = [rows EXCEPT ![m] =
              [status |-> IF status = copy.status THEN @.status ELSE status,
               attempts |-> OneMore(copy.attempts),
               sent |-> @.sent \/ thread[t].outcome = "sent"]]
         /\ sentCount' = IF status = "pending" THEN sentCount ELSE Sent
         /\ jobs' = IF Raised(t) /\ jobs[m].retries > 0
                    THEN [jobs EXCEPT ![m] =
                           [entries |-> OneEntryMore(@.entries),
                            retries |-> @.retries - 1]]
                    ELSE jobs
  /\ thread' = [thread EXCEPT ![t] = Rest(t)]
  /\ UNCHANGED <<setup, taken, faults, alone>>

(* The process is stopped, the job times out or the database fails: the rest  *)
(* of the batch stays as it is.                                                *)
Stop(t) ==
  /\ thread[t] # Idle
  /\ faults < setup.faults
  /\ faults' = faults + 1
  /\ thread' = [thread EXCEPT ![t] = Idle]
  /\ alone' = FALSE
  /\ UNCHANGED <<setup, rows, sentCount, jobs, taken>>

-------------------------------------------------------------------------------
(* A thread goes on by itself ... *)
Work(t) == \/ \E m \in Members : TakeFromBatch(t, m)
           \/ Mark(t) \/ Refresh(t) \/ Send(t) \/ Record(t)

Next ==
  \/ Queue
  \/ \E t \in Threads :
          \/ Claim(t) \/ Work(t) \/ Stop(t)
          \/ \E m \in Members : TakeJob(t, m)

Spec == Init /\ [][Next]_vars

(* ... the scheduler claims every 30 seconds and RQ's workers, which are       *)
(* processes of their own, serve their queue.  Nothing makes a command arrive  *)
(* or a thread stop.                                                            *)
FairSpec == /\ Spec
            /\ \A t \in Threads : WF_vars(Work(t)) /\ WF_vars(Claim(t))
            /\ \A m \in Members : SF_vars(\E t \in Threads : TakeJob(t, m))

-------------------------------------------------------------------------------
(* Properties *)

ThreadState == [at : {"idle", "next", "mark", "refresh", "send", "record"}, todo : SUBSET Members,
                member : Members \cup {NoRow}, status : Statuses, attempts : 0..MaxAttempts + 1,
                outcome : Outcomes]

(* Rows, counts, jobs and the threads' copies keep their types; a thread that *)
(* is at work on a delivery holds a row of it.                                 *)
TypeOK ==
  /\ setup \in Setups
  /\ rows \in [Members -> Row \cup {NoRow}]
  /\ sentCount \in 0..Cardinality(Members)
  /\ jobs \in [Members -> [entries : 0..MaxJobs, retries : 0..MaxAttempts - 1]]
  /\ thread \in [Threads -> ThreadState]
  /\ taken \in [Members -> 0..2]
  /\ faults \in 0..setup.faults
  /\ alone \in BOOLEAN
  /\ \A t \in Threads : thread[t].at \in {"mark", "refresh", "send", "record"} =>
       /\ thread[t].member \in Members
       /\ rows[thread[t].member] # NoRow

(* A delivery with a sending time was taken by the provider, whatever other    *)
(* threads did with the row in between, and the time is never taken back.      *)
Book == INSTANCE NoticeBook WITH
          taken <- {m \in Members : taken[m] > 0},
          recorded <- {m \in Members : rows[m] # NoRow /\ rows[m].sent}

ImplementsNoticeBook == Book!Spec

(* While no two threads send at once, none stops and the provider answers,    *)
(* nobody gets the announcement twice, members who share a phone included.     *)
ToldOnceWhenAlone ==
  alone => \A m, n \in Members :
    PhoneOf[m] = PhoneOf[n] /\ taken[m] > 0 /\ taken[n] > 0 => m = n /\ taken[m] = 1

(* With the local backend and no two threads at once, a delivery is tried at  *)
(* most ANNOUNCEMENT_RETRY_MAX times.                                          *)
TriedWithinLimitWhenAlone ==
  alone /\ setup.backend = "local" =>
    \A m \in Announced : rows[m].attempts <= MaxAttempts

(* In the local backend and alone, the counts miss at most the outcome that   *)
(* was recorded last.                                                          *)
SummaryOneBehindWhenAlone ==
  alone /\ setup.backend = "local" => sentCount \in {Sent, Sent - 1}

(* Every delivery is sent, skipped or given up in the end, whatever stopped    *)
(* on the way and however threads overlapped.                                  *)
DeliveriesSettle ==
  Announced # {} ~> \A m \in Announced :
    rows[m].sent \/ rows[m].status \in {"failed", "skipped"}
===============================================================================
