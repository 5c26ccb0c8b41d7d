---------------------------- MODULE InboundWebhook -----------------------------
(* The WhatsApp and Telegram webhooks.  A provider's call is counted against  *)
(* the rate limits, stored as an envelope and answered; a background task then *)
(* claims each message's key, handles it and replies.  Tasks of several calls  *)
(* run in parallel, the provider delivers a call again when it likes, and the  *)
(* process may restart between any two steps.                                  *)
EXTENDS Integers, Sequences, FiniteSets

CONSTANTS Messages,     \* the provider's messages; every one has an id
          Senders,
          SenderOf,     \* [Messages -> Senders]
          Calls,        \* HTTP calls of a provider
          Content,      \* [Calls -> Seq(Messages)]: the messages parsed out of a call
          Limited,      \* calls of WhatsApp; Telegram's have no rate limit
          Provider,     \* the address WhatsApp's calls come from
          MaxRequests,  \* WHATSAPP_WEBHOOK_RATE_LIMIT_MAX_REQUESTS
          MaxMessages,  \* WHATSAPP_SENDER_SPAM_MAX_MESSAGES
          NoEnvelope,
          MaxEnvelopes, \* bound: calls accepted
          MaxFaults     \* bound: restarts, aborted tasks and failed writes

ASSUME WebhookAssumption ==
  /\ SenderOf \in [Messages -> Senders]
  /\ Content \in [Calls -> Seq(Messages)]
  /\ Limited \subseteq Calls
  /\ Provider \notin Senders
  /\ MaxRequests \in Nat \ {0} /\ MaxMessages \in Nat \ {0}
  /\ MaxEnvelopes \in Nat /\ MaxFaults \in Nat

VARIABLES hits,        \* Redis: hits in the current window, by sender and address
          envelopes,   \* inbound_webhook_envelopes, with the call each one stores
          task,        \* the background task of each envelope
          keys,        \* webhook_idempotency_keys
          handled,     \* how often a message was carried out, up to 2
          deadLetters, \* channel_dead_letters, by message
          retries,     \* _RETRY_QUEUE: the envelope and position each entry is for
          faults,      \* what has gone wrong so far
          outage,      \* the store of keys has been unavailable
          lossy        \* a task, the queue or a dead letter was lost

vars == <<hits, envelopes, task, keys, handled, deadLetters, retries, faults, outage, lossy>>

Envelopes == 1..MaxEnvelopes
Statuses == {"queued", "processing", "processed", "failed"}

(* A row of inbound_webhook_envelopes, or the transient one of a call that    *)
(* could not be stored.                                                        *)
Envelope == [call : Calls, status : Statuses, stored : BOOLEAN]

ASSUME EnvelopeAssumption == NoEnvelope \notin Envelope

(* A task's place in the call, and the failures it has met. *)
NoTask == [at |-> "none", i |-> 1, failed |-> FALSE, recoverable |-> FALSE]

(* The message a task is at. *)
Message(e) == Content[envelopes[e].call][task[e].i]

Init ==
  /\ hits = [s \in Senders \cup {Provider} |-> 0]
  /\ envelopes = [e \in Envelopes |-> NoEnvelope]
  /\ task = [e \in Envelopes |-> NoTask]
  /\ keys = {}
  /\ handled = [m \in Messages |-> 0]
  /\ deadLetters = {}
  /\ retries = {}
  /\ faults = 0
  /\ outage = FALSE /\ lossy = FALSE

-------------------------------------------------------------------------------
(* The HTTP call *)

(* Bound: counts above a limit are not told apart. *)
AtMost(n, limit) == IF n > limit THEN limit + 1 ELSE n

(* Every hit counts, those of calls that are then refused included. *)
Hit(s, n, limit) == AtMost(hits[s] + n, limit)

(* The counts after the call and its first n messages. *)
HitsUpTo(c, n) ==
  [s \in Senders \cup {Provider} |->
     IF s = Provider THEN Hit(s, 1, MaxRequests)
     ELSE Hit(s, Cardinality({j \in 1..n : SenderOf[Content[c][j]] = s}), MaxMessages)]

(* Positions at which the sender of the message is over the limit. *)
Excess(c) ==
  {i \in 1..Len(Content[c]) : HitsUpTo(c, i)[SenderOf[Content[c][i]]] > MaxMessages}

(* The call is over the address's limit, or one of its senders is over his:   *)
(* all of it is refused, and the messages counted so far stay counted.         *)
Refuse(c) ==
  /\ c \in Limited
  /\ \/ /\ HitsUpTo(c, 0)[Provider] > MaxRequests
        /\ hits' = HitsUpTo(c, 0)
     \/ /\ HitsUpTo(c, 0)[Provider] <= MaxRequests
        /\ \E i \in Excess(c) : /\ \A j \in Excess(c) : i <= j
                                /\ hits' = HitsUpTo(c, i)
  /\ UNCHANGED <<envelopes, task, keys, handled, deadLetters, retries, faults, outage, lossy>>

(* A call without messages for the society is answered and counted. *)
Ignore(c) ==
  /\ Content[c] = <<>>
  /\ c \in Limited /\ HitsUpTo(c, 0)[Provider] <= MaxRequests
  /\ hits' = HitsUpTo(c, 0)
  /\ UNCHANGED <<envelopes, task, keys, handled, deadLetters, retries, faults, outage, lossy>>

(* Time passes and the oldest hit leaves the window. *)
Slide(s) ==
  /\ hits[s] > 0
  /\ hits' = [hits EXCEPT ![s] = @ - 1]
  /\ UNCHANGED <<envelopes, task, keys, handled, deadLetters, retries, faults, outage, lossy>>

(* The next envelope's id. *)
IsNext(e) == /\ envelopes[e] = NoEnvelope
             /\ \A f \in 1..(e - 1) : envelopes[f] # NoEnvelope

(* Without Redis nothing is counted, and without the database the envelope is *)
(* transient: its status is not kept.  The task is started all the same.       *)
Accept(c) ==
  /\ Content[c] # <<>>
  /\ \E e \in Envelopes, counting, stored \in BOOLEAN :
       /\ IsNext(e)
       /\ IF counting /\ c \in Limited
          THEN /\ HitsUpTo(c, 0)[Provider] <= MaxRequests /\ Excess(c) = {}
               /\ hits' = HitsUpTo(c, Len(Content[c]))
          ELSE UNCHANGED hits
       /\ ~counting \/ ~stored => faults < MaxFaults
       /\ faults' = IF counting /\ stored THEN faults ELSE faults + 1
       /\ envelopes' = [envelopes EXCEPT ![e] =
            [call |-> c, status |-> "queued", stored |-> stored]]
       /\ task' = [task EXCEPT ![e] = [NoTask EXCEPT !.at = "queued"]]
  /\ UNCHANGED <<keys, handled, deadLetters, retries, outage, lossy>>

-------------------------------------------------------------------------------
(* The background task *)

(* A status that cannot be written is passed over. *)
MarkStatus(e, s) ==
  \/ /\ envelopes' = [envelopes EXCEPT ![e].status = IF envelopes[e].stored THEN s ELSE @]
     /\ UNCHANGED faults
  \/ /\ envelopes[e].stored /\ faults < MaxFaults
     /\ faults' = faults + 1
     /\ UNCHANGED envelopes

Start(e) ==
  /\ task[e].at = "queued"
  /\ task' = [task EXCEPT ![e].at = "claim"]
  /\ MarkStatus(e, "processing")
  /\ UNCHANGED <<hits, keys, handled, deadLetters, retries, outage, lossy>>

HasNext(e) == task[e].at = "claim" /\ task[e].i <= Len(Content[envelopes[e].call])

(* Variant: the key is looked up and a message that has one is handled again  *)
(* when its task has not replied yet.                                          *)
ClaimUnanswered(e) ==
  /\ HasNext(e)
  /\ \/ /\ Message(e) \notin keys \/ handled[Message(e)] = 0
        /\ keys' = keys \cup {Message(e)}
        /\ task' = [task EXCEPT ![e].at = "handle"]
        /\ UNCHANGED <<faults, outage>>
     \/ /\ Message(e) \in keys /\ handled[Message(e)] > 0
        /\ task' = [task EXCEPT ![e].i = @ + 1]
        /\ UNCHANGED <<keys, faults, outage>>
  /\ UNCHANGED <<hits, envelopes, handled, deadLetters, retries, lossy>>

(* The key's insert decides: a duplicate is skipped.  With the store down the *)
(* message is handled unclaimed.                                               *)
Claim(e) ==
  /\ HasNext(e)
  /\ \/ /\ Message(e) \notin keys
        /\ keys' = keys \cup {Message(e)}
        /\ task' = [task EXCEPT ![e].at = "handle"]
        /\ UNCHANGED <<faults, outage>>
     \/ /\ Message(e) \in keys
        /\ task' = [task EXCEPT ![e].i = @ + 1]
        /\ UNCHANGED <<keys, faults, outage>>
     \/ /\ faults < MaxFaults
        /\ faults' = faults + 1 /\ outage' = TRUE
        /\ task' = [task EXCEPT ![e].at = "handle"]
        /\ UNCHANGED keys
  /\ UNCHANGED <<hits, envelopes, handled, deadLetters, retries, lossy>>

(* The task at the next message, with what it has met noted. *)
Past(e, outcome) ==
  [at |-> "claim", i |-> task[e].i + 1,
   failed |-> task[e].failed \/ outcome = "failed",
   recoverable |-> task[e].recoverable \/ outcome = "recoverable"]

(* Variant: a failure the provider may recover from is only noted. *)
SettleLater(e, outcome) ==
  /\ task' = [task EXCEPT ![e] = Past(e, outcome)]
  /\ deadLetters' = IF outcome = "failed" THEN deadLetters \cup {Message(e)} ELSE deadLetters
  /\ UNCHANGED <<retries, faults, lossy>>

(* What follows a message: on to the next one, after putting one that failed  *)
(* in the dead letters or, when the provider may recover, the whole call on    *)
(* the retry queue.  A dead letter that cannot be written is logged only.      *)
Settle(e, outcome) ==
  /\ task' = [task EXCEPT ![e] = Past(e, outcome)]
  /\ retries' = IF outcome = "recoverable" THEN retries \cup {<<e, task[e].i>>} ELSE retries
  /\ \/ /\ deadLetters' = IF outcome = "failed" THEN deadLetters \cup {Message(e)}
                          ELSE deadLetters
        /\ UNCHANGED <<faults, lossy>>
     \/ /\ outcome = "failed" /\ faults < MaxFaults
        /\ faults' = faults + 1 /\ lossy' = TRUE
        /\ UNCHANGED deadLetters

(* The dialogues or the command handler carry the message out; they may fail  *)
(* before, or after what they did is committed.                                *)
Handle(e) ==
  /\ task[e].at = "handle"
  /\ \E done \in BOOLEAN, outcome \in {"ok", "recoverable", "failed"} :
       /\ outcome = "ok" => done
       /\ handled' = IF done
                     THEN [handled EXCEPT ![Message(e)] = IF @ < 2 THEN @ + 1 ELSE @]
                     ELSE handled
       /\ IF outcome = "ok"
          THEN /\ task' = [task EXCEPT ![e].at = "reply"]
               /\ UNCHANGED <<deadLetters, retries, faults, lossy>>
          ELSE Settle(e, outcome)
  /\ UNCHANGED <<hits, envelopes, keys, outage>>

(* The provider's client raises a failure that may pass, or another one. *)
Reply(e) ==
  /\ task[e].at = "reply"
  /\ \E outcome \in {"ok", "recoverable", "failed"} : Settle(e, outcome)
  /\ UNCHANGED <<hits, envelopes, keys, handled, outage>>

(* Variant: a failure that is not final does not show in the status. *)
FinalStatusOptimistic(e) == IF task[e].failed THEN "failed" ELSE "processed"

(* Variant: a call to be retried has a status of its own. *)
FinalStatusRetrying(e) ==
  IF task[e].failed THEN "failed" ELSE IF task[e].recoverable THEN "retrying" ELSE "processed"

(* One message's final failure prevails over another's scheduled retry. *)
FinalStatus(e) ==
  IF task[e].failed THEN "failed" ELSE IF task[e].recoverable THEN "queued" ELSE "processed"

Finish(e) ==
  /\ task[e].at = "claim" /\ ~HasNext(e)
  /\ task' = [task EXCEPT ![e].at = "done"]
  /\ MarkStatus(e, FinalStatus(e))
  /\ UNCHANGED <<hits, keys, handled, deadLetters, retries, outage, lossy>>

Running(e) == task[e].at \in {"queued", "claim", "handle", "reply"}

(* The client is not configured: the task ends before its first message and   *)
(* the envelope stays as it is.                                                *)
Abort(e) ==
  /\ task[e].at = "claim" /\ task[e].i = 1
  /\ faults < MaxFaults
  /\ faults' = faults + 1 /\ lossy' = TRUE
  /\ task' = [task EXCEPT ![e].at = "lost"]
  /\ UNCHANGED <<hits, envelopes, keys, handled, deadLetters, retries, outage>>

(* Tasks and the retry queue live in the process's memory; no one looks at    *)
(* the envelopes that are left.                                                *)
Restart ==
  /\ faults < MaxFaults
  /\ faults' = faults + 1 /\ lossy' = TRUE
  /\ task' = [e \in Envelopes |-> IF Running(e) THEN [task[e] EXCEPT !.at = "lost"] ELSE task[e]]
  /\ retries' = {}
  /\ UNCHANGED <<hits, envelopes, keys, handled, deadLetters, outage>>

-------------------------------------------------------------------------------
Work(e) == Start(e) \/ Claim(e) \/ Handle(e) \/ Reply(e) \/ Finish(e)

(* process_whatsapp_retry_queue and process_telegram_retry_queue have no      *)
(* caller: nothing takes an entry off the retry queue.                         *)
Next ==
  \/ \E c \in Calls : Refuse(c) \/ Ignore(c) \/ Accept(c)
  \/ \E s \in Senders \cup {Provider} : Slide(s)
  \/ \E e \in Envelopes : Work(e) \/ Abort(e)
  \/ Restart

Spec == Init /\ [][Next]_vars

(* A started task goes on: it runs in a thread of its own. *)
FairSpec == Spec /\ \A e \in Envelopes : WF_vars(Work(e))

-------------------------------------------------------------------------------
(* Properties *)

Task == [at : {"none", "queued", "claim", "handle", "reply", "done", "lost"},
         i : Nat \ {0}, failed : BOOLEAN, recoverable : BOOLEAN]

(* Rows and tasks keep their types; a task has an envelope, and one that is   *)
(* at a message has not passed the end of its call.                            *)
TypeOK ==
  /\ hits \in [Senders \cup {Provider} -> Nat]
  /\ envelopes \in [Envelopes -> Envelope \cup {NoEnvelope}]
  /\ task \in [Envelopes -> Task]
  /\ keys \subseteq Messages
  /\ handled \in [Messages -> 0..2]
  /\ deadLetters \subseteq Messages
  /\ retries \subseteq Envelopes \X (Nat \ {0})
  /\ faults \in 0..MaxFaults
  /\ outage \in BOOLEAN /\ lossy \in BOOLEAN
  /\ \A e \in Envelopes : task[e].at # "none" <=> envelopes[e] # NoEnvelope
  /\ \A e \in Envelopes : task[e].at \in {"handle", "reply"} =>
       task[e].i <= Len(Content[envelopes[e].call])

(* While the store of keys answers, a message that is delivered again, in the *)
(* same call or in another, in parallel or after a restart, is claimed by one  *)
(* task and carried out at most once.                                          *)
Log == INSTANCE MessageLog WITH claimed <- keys, effects <- handled

ImplementsMessageLog == Log!Spec

(* A message was carried out, is kept for somebody to look at, or waits. *)
Settled(m) ==
  \/ handled[m] > 0
  \/ m \in deadLetters
  \/ \E r \in retries : Content[envelopes[r[1]].call][r[2]] = m

(* A message of a finished call, skipped duplicates included, is settled or   *)
(* in the hands of another task, unless a task, the queue or a letter was lost.*)
NothingVanishes ==
  ~lossy => \A e \in Envelopes : task[e].at = "done" =>
    \A i \in 1..Len(Content[envelopes[e].call]) :
      LET m == Content[envelopes[e].call][i]
      IN  \/ Settled(m)
          \/ \E f \in Envelopes : task[f].at \in {"handle", "reply"} /\ Message(f) = m

(* The stored status tells what is left to do: a call that was worked on is   *)
(* queued only with an entry on the retry queue and processed only without,    *)
(* and failed only with a dead letter.                                         *)
StatusIsTrue ==
  ~lossy /\ faults = 0 => \A e \in Envelopes : task[e].at = "done" =>
    LET scheduled == \E r \in retries : r[1] = e
        messages == {Content[envelopes[e].call][i] : i \in 1..Len(Content[envelopes[e].call])}
    IN  /\ envelopes[e].status = "queued" => scheduled
        /\ envelopes[e].status = "processed" => ~scheduled
        /\ envelopes[e].status = "failed" => messages \cap deadLetters # {}

(* A claimed message, whose further deliveries are all skipped, is settled in *)
(* the end, unless something was lost.                                         *)
ClaimedSettles == \A m \in Messages : m \in keys ~> (Settled(m) \/ lossy)

(* README.md:44 promises "retry queues": an envelope that was put back to     *)
(* "queued" for a retry ends up processed or failed.                           *)
QueuedIsFinished ==
  \A e \in Envelopes :
    task[e].at = "done" /\ envelopes[e].status = "queued" ~>
      (faults > 0 \/ (task[e].at = "done" /\ envelopes[e].status \in {"processed", "failed"}))
===============================================================================
