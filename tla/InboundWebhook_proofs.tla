------------------------- MODULE InboundWebhook_proofs -------------------------
(***************************************************************************)
(* For any number of calls, messages, tasks and faults: a message of the   *)
(* provider is carried out at most once, as MessageLog says, until the     *)
(* store of keys has failed to answer; types; what becomes of the messages  *)
(* of a finished call, and that its status says so.                        *)
(***************************************************************************)
EXTENDS InboundWebhook, FiniteSetTheorems, TLAPS

(* The part of the types the argument needs: a task that is at a message   *)
(* has an envelope and is within its call.                                 *)
TasksPlaced ==
  /\ envelopes \in [Envelopes -> Envelope \cup {NoEnvelope}]
  /\ task \in [Envelopes -> Task]
  /\ handled \in [Messages -> 0..2]
  /\ outage \in BOOLEAN
  /\ \A e \in Envelopes : task[e].at # "none" => envelopes[e] # NoEnvelope
  /\ \A e \in Envelopes : task[e].at \in {"handle", "reply"} =>
       task[e].i <= Len(Content[envelopes[e].call])

Handling(e) == task[e].at = "handle"

(* Who is about to carry a message out holds its key, and holds it alone.  *)
OneHolder ==
  ~outage =>
    /\ \A e \in Envelopes : Handling(e) => Message(e) \in keys /\ handled[Message(e)] = 0
    /\ \A e, f \in Envelopes : Handling(e) /\ Handling(f) /\ Message(e) = Message(f) => e = f
    /\ \A m \in Messages : m \notin keys => handled[m] = 0

WebhookIInv == TasksPlaced /\ OneHolder

-------------------------------------------------------------------------------
(* The message a task is at is one of its envelope's call.                  *)
LEMMA WithinCall ==
  ASSUME WebhookIInv, NEW e \in Envelopes, envelopes[e] # NoEnvelope,
         task[e].i <= Len(Content[envelopes[e].call])
  PROVE  Message(e) \in Messages /\ envelopes[e] \in Envelope
<1>1. envelopes[e] \in Envelope /\ envelopes[e].call \in Calls
  BY DEF WebhookIInv, TasksPlaced, Envelope
<1>2. task[e].i \in Nat \ {0}
  BY DEF WebhookIInv, TasksPlaced, Task
<1>3. Content[envelopes[e].call] \in Seq(Messages)
  BY <1>1, WebhookAssumption
<1>4. task[e].i \in 1..Len(Content[envelopes[e].call])
  BY <1>2, <1>3
<1> QED BY <1>1, <1>3, <1>4 DEF Message

(* A step that leaves keys, effects and outage alone, starts handling      *)
(* nothing, and keeps the call and position of every task at a message.    *)
LEMMA NobodyStarts ==
  ASSUME WebhookIInv, TasksPlaced', UNCHANGED <<keys, handled, outage>>,
         \A e \in Envelopes : Handling(e)' => Handling(e) /\ Message(e)' = Message(e)
  PROVE  WebhookIInv'
<1>1. OneHolder'
  BY DEF WebhookIInv, OneHolder
<1> QED BY <1>1 DEF WebhookIInv

(* Writing a status changes no envelope's call, and makes or loses no       *)
(* envelope.                                                                *)
LEMMA MarkStatusFacts ==
  ASSUME TasksPlaced, NEW e \in Envelopes, envelopes[e] # NoEnvelope, NEW s \in Statuses,
         MarkStatus(e, s)
  PROVE  /\ envelopes' \in [Envelopes -> Envelope \cup {NoEnvelope}]
         /\ \A f \in Envelopes : /\ envelopes'[f] = NoEnvelope <=> envelopes[f] = NoEnvelope
                                 /\ envelopes'[f].call = envelopes[f].call
<1>1. envelopes \in [Envelopes -> Envelope \cup {NoEnvelope}] /\ envelopes[e] \in Envelope
  BY DEF TasksPlaced
<1>2. CASE UNCHANGED envelopes
  BY <1>1, <1>2
<1>3. CASE envelopes' = [envelopes EXCEPT ![e].status = IF envelopes[e].stored THEN s ELSE @]
  <2> DEFINE st == IF envelopes[e].stored THEN s ELSE envelopes[e].status
             row == [envelopes[e] EXCEPT !.status = st]
  <2>1. st \in Statuses
    BY <1>1 DEF Envelope
  <2>2. envelopes' = [envelopes EXCEPT ![e] = row]
    BY <1>3
  <2> HIDE DEF st
  <2>3. row \in Envelope /\ row.call = envelopes[e].call
    BY <1>1, <2>1 DEF Envelope
  <2> HIDE DEF row
  <2>4. row # NoEnvelope
    BY <2>3, EnvelopeAssumption
  <2> QED BY <1>1, <2>2, <2>3, <2>4
<1> QED BY <1>2, <1>3 DEF MarkStatus

(* One task moves, and no envelope changes its call.                       *)
LEMMA TaskMoves ==
  ASSUME WebhookIInv, NEW e \in Envelopes, envelopes[e] # NoEnvelope, NEW rec \in Task,
         task' = [task EXCEPT ![e] = rec],
         envelopes' \in [Envelopes -> Envelope \cup {NoEnvelope}],
         \A f \in Envelopes : /\ envelopes'[f] = NoEnvelope <=> envelopes[f] = NoEnvelope
                              /\ envelopes'[f].call = envelopes[f].call,
         handled' \in [Messages -> 0..2], outage' \in BOOLEAN,
         rec.at \in {"handle", "reply"} => rec.i <= Len(Content[envelopes[e].call])
  PROVE  /\ TasksPlaced'
         /\ task'[e] = rec /\ (rec.i = task[e].i => Message(e)' = Message(e))
         /\ \A f \in Envelopes : f # e => Handling(f)' = Handling(f) /\ Message(f)' = Message(f)
<1>1. task'[e] = rec /\ \A f \in Envelopes : f # e => task'[f] = task[f]
  BY DEF WebhookIInv, TasksPlaced
<1>2. TasksPlaced'
  BY <1>1 DEF WebhookIInv, TasksPlaced
<1> QED BY <1>1, <1>2 DEF Message, Handling

(* What the types say of one task: its place, and the envelope it belongs   *)
(* to.                                                                      *)
LEMMA TaskFacts ==
  ASSUME WebhookIInv, NEW e \in Envelopes
  PROVE  /\ task[e] \in Task /\ task[e].i \in Nat \ {0}
         /\ task[e].at # "none" => envelopes[e] # NoEnvelope /\ envelopes[e] \in Envelope
         /\ envelopes \in [Envelopes -> Envelope \cup {NoEnvelope}]
         /\ handled \in [Messages -> 0..2] /\ outage \in BOOLEAN
         /\ task \in [Envelopes -> Task]
BY DEF WebhookIInv, TasksPlaced, Task

(* The task leaves its message, if it was at one.                          *)
LEMMA TaskLeaves ==
  ASSUME WebhookIInv, NEW e \in Envelopes, task[e].at # "none", NEW rec \in Task,
         task' = [task EXCEPT ![e] = rec], rec.at \notin {"handle", "reply"},
         envelopes' \in [Envelopes -> Envelope \cup {NoEnvelope}],
         \A f \in Envelopes : /\ envelopes'[f] = NoEnvelope <=> envelopes[f] = NoEnvelope
                              /\ envelopes'[f].call = envelopes[f].call,
         UNCHANGED <<keys, handled, outage>>
  PROVE  WebhookIInv'
<1>1. /\ TasksPlaced' /\ task'[e] = rec
      /\ \A f \in Envelopes : f # e => Handling(f)' = Handling(f) /\ Message(f)' = Message(f)
  BY TaskFacts, TaskMoves
<1>2. ~Handling(e)'
  BY <1>1 DEF Handling
<1> QED BY <1>1, <1>2, NobodyStarts

(* Steps that leave the envelopes alone keep what tasks rely on.            *)
LEMMA SameEnvelopes ==
  ASSUME WebhookIInv, envelopes' = envelopes
  PROVE  /\ envelopes' \in [Envelopes -> Envelope \cup {NoEnvelope}]
         /\ \A f \in Envelopes : /\ envelopes'[f] = NoEnvelope <=> envelopes[f] = NoEnvelope
                                 /\ envelopes'[f].call = envelopes[f].call
BY DEF WebhookIInv, TasksPlaced

(* A call that is accepted gets an envelope of its own; no task holds a     *)
(* message of it yet.                                                       *)
LEMMA AcceptKeeps ==
  ASSUME WebhookIInv, NEW c \in Calls, Accept(c)
  PROVE  WebhookIInv'
<1>1. UNCHANGED <<keys, handled, outage>>
  BY DEF Accept
<1>2. PICK e \in Envelopes, stored \in BOOLEAN :
        /\ IsNext(e)
        /\ envelopes' = [envelopes EXCEPT ![e] = [call |-> c, status |-> "queued", stored |-> stored]]
        /\ task' = [task EXCEPT ![e] = [NoTask EXCEPT !.at = "queued"]]
  BY DEF Accept
<1> DEFINE row == [call |-> c, status |-> "queued", stored |-> stored]
           rec == [NoTask EXCEPT !.at = "queued"]
<1>3. row \in Envelope
  BY DEF Envelope, Statuses
<1>4. rec \in Task /\ rec.at = "queued"
  <2>1. NoTask \in Task
    BY DEF NoTask, Task
  <2> QED BY <2>1 DEF Task
<1> HIDE DEF row, rec
<1>5. row # NoEnvelope
  BY <1>3, EnvelopeAssumption
<1>6. /\ envelopes'[e] = row /\ task'[e] = rec
      /\ \A f \in Envelopes : f # e => envelopes'[f] = envelopes[f] /\ task'[f] = task[f]
  BY <1>2 DEF row, rec, WebhookIInv, TasksPlaced
<1>7. TasksPlaced'
  <2>1. envelopes' \in [Envelopes -> Envelope \cup {NoEnvelope}] /\ task' \in [Envelopes -> Task]
    BY <1>2, <1>3, <1>4 DEF row, rec, WebhookIInv, TasksPlaced
  <2>2. \A f \in Envelopes : task'[f].at # "none" => envelopes'[f] # NoEnvelope
    BY <1>5, <1>6 DEF WebhookIInv, TasksPlaced
  <2>3. \A f \in Envelopes : task'[f].at \in {"handle", "reply"} =>
          task'[f].i <= Len(Content[envelopes'[f].call])
    BY <1>4, <1>6 DEF WebhookIInv, TasksPlaced
  <2> QED BY <1>1, <2>1, <2>2, <2>3 DEF WebhookIInv, TasksPlaced
<1>8. \A f \in Envelopes : Handling(f)' => Handling(f) /\ Message(f)' = Message(f)
  BY <1>4, <1>6 DEF Handling, Message
<1> QED BY <1>1, <1>7, <1>8, NobodyStarts

(* A task that starts is at the claim of its first message, holding         *)
(* nothing.                                                                 *)
LEMMA StartKeeps ==
  ASSUME WebhookIInv, NEW e \in Envelopes, Start(e)
  PROVE  WebhookIInv'
<1> DEFINE rec == [task[e] EXCEPT !.at = "claim"]
<1>1. /\ task[e].at = "queued" /\ task' = [task EXCEPT ![e] = rec] /\ MarkStatus(e, "processing")
      /\ UNCHANGED <<keys, handled, outage>>
  BY DEF Start
<1>2. rec \in Task /\ rec.at = "claim"
  BY TaskFacts DEF Task
<1> HIDE DEF rec
<1>3. "processing" \in Statuses
  BY DEF Statuses
<1>4. envelopes[e] # NoEnvelope /\ TasksPlaced
  BY <1>1, TaskFacts DEF WebhookIInv
<1>5. /\ envelopes' \in [Envelopes -> Envelope \cup {NoEnvelope}]
      /\ \A f \in Envelopes : /\ envelopes'[f] = NoEnvelope <=> envelopes[f] = NoEnvelope
                              /\ envelopes'[f].call = envelopes[f].call
  BY <1>1, <1>3, <1>4, MarkStatusFacts
<1> QED BY <1>1, <1>2, <1>5, TaskLeaves

(* A task finishes past its last message, holding nothing.                  *)
LEMMA FinishKeeps ==
  ASSUME WebhookIInv, NEW e \in Envelopes, Finish(e)
  PROVE  WebhookIInv'
<1> DEFINE rec == [task[e] EXCEPT !.at = "done"]
<1>1. /\ task[e].at = "claim" /\ task' = [task EXCEPT ![e] = rec] /\ MarkStatus(e, FinalStatus(e))
      /\ UNCHANGED <<keys, handled, outage>>
  BY DEF Finish
<1>2. rec \in Task /\ rec.at = "done"
  BY TaskFacts DEF Task
<1> HIDE DEF rec
<1>3. FinalStatus(e) \in Statuses
  BY DEF FinalStatus, Statuses
<1>4. envelopes[e] # NoEnvelope /\ TasksPlaced
  BY <1>1, TaskFacts DEF WebhookIInv
<1>5. /\ envelopes' \in [Envelopes -> Envelope \cup {NoEnvelope}]
      /\ \A f \in Envelopes : /\ envelopes'[f] = NoEnvelope <=> envelopes[f] = NoEnvelope
                              /\ envelopes'[f].call = envelopes[f].call
  BY <1>1, <1>3, <1>4, MarkStatusFacts
<1> QED BY <1>1, <1>2, <1>5, TaskLeaves

(* A client that is not configured ends the task before it claims anything. *)
LEMMA AbortKeeps ==
  ASSUME WebhookIInv, NEW e \in Envelopes, Abort(e)
  PROVE  WebhookIInv'
<1> DEFINE rec == [task[e] EXCEPT !.at = "lost"]
<1>1. /\ task[e].at = "claim" /\ task' = [task EXCEPT ![e] = rec]
      /\ UNCHANGED <<envelopes, keys, handled, outage>>
  BY DEF Abort
<1>2. rec \in Task /\ rec.at = "lost"
  BY TaskFacts DEF Task
<1> HIDE DEF rec
<1> QED BY <1>1, <1>2, SameEnvelopes, TaskLeaves

(* A restart drops the tasks; the keys they claimed stay, so nobody claims  *)
(* again.                                                                   *)
LEMMA RestartKeeps ==
  ASSUME WebhookIInv, Restart
  PROVE  WebhookIInv'
<1>1. /\ task' = [e \in Envelopes |-> IF Running(e) THEN [task[e] EXCEPT !.at = "lost"] ELSE task[e]]
      /\ UNCHANGED <<envelopes, keys, handled, outage>>
  BY DEF Restart
<1>2. \A e \in Envelopes : [task[e] EXCEPT !.at = "lost"] \in Task /\ [task[e] EXCEPT !.at = "lost"].at = "lost"
  BY TaskFacts DEF Task
<1>3. \A e \in Envelopes : \/ task'[e] = task[e] /\ task[e].at \notin {"handle", "reply"}
                           \/ task'[e] = [task[e] EXCEPT !.at = "lost"] /\ task[e].at # "none"
  BY <1>1 DEF Running
<1>4. \A e \in Envelopes : /\ task'[e] \in Task
                           /\ task'[e].at \notin {"handle", "reply"}
                           /\ task'[e].at # "none" => task[e].at # "none"
  BY <1>2, <1>3, TaskFacts
<1>5. TasksPlaced'
  BY <1>1, <1>4 DEF WebhookIInv, TasksPlaced
<1> QED BY <1>1, <1>4, <1>5, NobodyStarts DEF Handling

-------------------------------------------------------------------------------
(* The key's insert lets one task in; the others pass the message by.      *)
LEMMA ClaimKeeps ==
  ASSUME WebhookIInv, NEW e \in Envelopes, Claim(e)
  PROVE  WebhookIInv' /\ [Log!Next]_(Log!vars)
<1> DEFINE enters == [task[e] EXCEPT !.at = "handle"]
           passes == [task[e] EXCEPT !.i = @ + 1]
           m == Message(e)
<1>1. /\ task[e].at = "claim" /\ task[e].i <= Len(Content[envelopes[e].call])
      /\ UNCHANGED <<envelopes, handled>>
  BY DEF Claim, HasNext
<1>2. m \in Messages /\ envelopes[e] # NoEnvelope
  BY <1>1, TaskFacts, WithinCall
<1>3. enters \in Task /\ enters.at = "handle" /\ enters.i = task[e].i
  BY TaskFacts DEF Task
<1>4. passes \in Task /\ passes.at = "claim"
  BY <1>1, TaskFacts DEF Task
<1> HIDE DEF enters, passes
<1>5. CASE task' = [task EXCEPT ![e] = passes] /\ UNCHANGED <<keys, outage>>
  <2>1. WebhookIInv'
    BY <1>1, <1>4, <1>5, SameEnvelopes, TaskLeaves
  <2> QED BY <1>1, <1>5, <2>1 DEF Log!vars
<1>6. CASE /\ m \notin keys /\ keys' = keys \cup {m} /\ UNCHANGED outage
           /\ task' = [task EXCEPT ![e] = enters]
  <2>1. /\ TasksPlaced' /\ task'[e] = enters /\ Message(e)' = m
        /\ \A f \in Envelopes : f # e => Handling(f)' = Handling(f) /\ Message(f)' = Message(f)
    BY <1>1, <1>2, <1>3, <1>6, SameEnvelopes, TaskFacts, TaskMoves
  <2>2. OneHolder'
    <3> SUFFICES ASSUME ~outage PROVE OneHolder'
      BY <1>6 DEF OneHolder
    <3>1. handled[m] = 0 /\ \A f \in Envelopes : Handling(f) => Message(f) # m
      BY <1>2, <1>6 DEF WebhookIInv, OneHolder
    <3>2. \A f \in Envelopes : Handling(f)' => Message(f)' \in keys' /\ handled'[Message(f)'] = 0
      BY <1>1, <1>6, <2>1, <3>1 DEF WebhookIInv, OneHolder
    <3>3. \A f, g \in Envelopes :
            Handling(f)' /\ Handling(g)' /\ Message(f)' = Message(g)' => f = g
      BY <2>1, <3>1 DEF WebhookIInv, OneHolder
    <3>4. \A n \in Messages : n \notin keys' => handled'[n] = 0
      BY <1>1, <1>6 DEF WebhookIInv, OneHolder
    <3> QED BY <3>2, <3>3, <3>4 DEF OneHolder
  <2>3. Log!Claim(m)
    BY <1>1, <1>6 DEF Log!Claim
  <2> QED BY <1>2, <2>1, <2>2, <2>3 DEF WebhookIInv, Log!Next
<1>7. CASE outage' = TRUE /\ UNCHANGED keys /\ task' = [task EXCEPT ![e] = enters]
  <2>1. TasksPlaced'
    BY <1>1, <1>2, <1>3, <1>7, SameEnvelopes, TaskFacts, TaskMoves
  <2>2. OneHolder'
    BY <1>7 DEF OneHolder
  <2>3. Log!Fail
    BY <1>1, <1>7 DEF Log!Fail
  <2> QED BY <2>1, <2>2, <2>3 DEF WebhookIInv, Log!Next
<1> QED BY <1>5, <1>6, <1>7 DEF Claim, enters, passes

(* Wherever the task goes from a message it has carried out or given up,   *)
(* it is not handling it any more.                                         *)
LEMMA SettleMoves ==
  ASSUME WebhookIInv, NEW e \in Envelopes, task[e].at \in {"handle", "reply"}, NEW outcome,
         Settle(e, outcome)
  PROVE  \E rec \in Task : task' = [task EXCEPT ![e] = rec] /\ rec.at = "claim"
<1> DEFINE f == task[e].failed \/ outcome = "failed"
           r == task[e].recoverable \/ outcome = "recoverable"
           rec == [at |-> "claim", i |-> task[e].i + 1, failed |-> f, recoverable |-> r]
<1>1. f \in BOOLEAN /\ r \in BOOLEAN
  BY Zenon
<1>2. task' = [task EXCEPT ![e] = rec]
  BY Zenon DEF Settle, Past
<1> HIDE DEF f, r
<1>3. rec \in Task /\ rec.at = "claim"
  BY <1>1, TaskFacts DEF Task
<1> QED BY <1>2, <1>3

(* Carrying a message out is MessageLog's effect of a claimed message, its  *)
(* first one as long as the store of keys answered.                         *)
LEMMA HandleKeeps ==
  ASSUME WebhookIInv, NEW e \in Envelopes, Handle(e)
  PROVE  WebhookIInv' /\ [Log!Next]_(Log!vars)
<1> DEFINE m == Message(e)
<1>1. task[e].at = "handle" /\ UNCHANGED <<envelopes, keys, outage>>
  BY DEF Handle
<1>2. m \in Messages /\ envelopes[e] # NoEnvelope
  BY <1>1, TaskFacts, WithinCall DEF WebhookIInv, TasksPlaced
<1>3. \E rec \in Task : task' = [task EXCEPT ![e] = rec] /\ rec.at \in {"claim", "reply"}
                        /\ (rec.at = "reply" => rec.i = task[e].i)
  <2>1. CASE task' = [task EXCEPT ![e].at = "reply"]
    <3> DEFINE rec == [task[e] EXCEPT !.at = "reply"]
    <3>1. rec \in Task /\ rec.at = "reply" /\ rec.i = task[e].i
      BY TaskFacts DEF Task
    <3>2. task' = [task EXCEPT ![e] = rec]
      BY <2>1
    <3> QED BY <3>1, <3>2
  <2>2. CASE \E outcome : Settle(e, outcome)
    BY <1>1, <2>2, SettleMoves
  <2> QED BY <2>1, <2>2 DEF Handle
<1>4. PICK rec \in Task : /\ task' = [task EXCEPT ![e] = rec] /\ rec.at \in {"claim", "reply"}
                          /\ rec.at = "reply" => rec.i = task[e].i
  BY <1>3
<1>5. \/ handled' = handled
      \/ handled' = [handled EXCEPT ![m] = IF @ < 2 THEN @ + 1 ELSE @]
  BY DEF Handle
<1>6. handled \in [Messages -> 0..2] /\ handled' \in [Messages -> 0..2]
  BY <1>2, <1>5, TaskFacts
<1>7. /\ TasksPlaced' /\ task'[e] = rec
      /\ \A f \in Envelopes : f # e => Handling(f)' = Handling(f) /\ Message(f)' = Message(f)
  BY <1>1, <1>2, <1>4, <1>6, SameEnvelopes, TaskFacts, TaskMoves DEF WebhookIInv, TasksPlaced
<1>8. ~Handling(e)' /\ Handling(e)
  BY <1>1, <1>4, <1>7 DEF Handling
<1>9. ~outage => /\ m \in keys /\ handled[m] = 0
                 /\ \A f \in Envelopes : f # e /\ Handling(f) => Message(f) # m
  BY <1>8 DEF WebhookIInv, OneHolder
<1>10. OneHolder'
  <2> SUFFICES ASSUME ~outage PROVE OneHolder'
    BY <1>1 DEF OneHolder
  <2>1. \A n \in Messages : n # m => handled'[n] = handled[n]
    BY <1>2, <1>5, <1>6
  <2>2. \A f \in Envelopes : Handling(f)' =>
          f # e /\ Handling(f) /\ Message(f)' = Message(f) /\ Message(f) \in Messages /\ Message(f) # m
    <3> SUFFICES ASSUME NEW f \in Envelopes, Handling(f)'
                 PROVE  f # e /\ Handling(f) /\ Message(f)' = Message(f) /\ Message(f) \in Messages
                        /\ Message(f) # m
      OBVIOUS
    <3>1. f # e /\ Handling(f) /\ Message(f)' = Message(f)
      BY <1>7, <1>8
    <3>2. Message(f) \in Messages
      BY <3>1, TaskFacts, WithinCall DEF WebhookIInv, TasksPlaced, Handling
    <3> QED BY <1>9, <3>1, <3>2
  <2>3. \A f \in Envelopes : Handling(f)' => Message(f)' \in keys' /\ handled'[Message(f)'] = 0
    BY <1>1, <2>1, <2>2 DEF WebhookIInv, OneHolder
  <2>4. \A f, g \in Envelopes : Handling(f)' /\ Handling(g)' /\ Message(f)' = Message(g)' => f = g
    BY <2>2 DEF WebhookIInv, OneHolder
  <2>5. \A n \in Messages : n \notin keys' => handled'[n] = 0
    BY <1>1, <1>9, <2>1 DEF WebhookIInv, OneHolder
  <2> QED BY <2>3, <2>4, <2>5 DEF OneHolder
<1>11. [Log!Next]_(Log!vars)
  <2>1. CASE handled' = handled
    BY <1>1, <2>1 DEF Log!vars
  <2>2. CASE handled' = [handled EXCEPT ![m] = IF @ < 2 THEN @ + 1 ELSE @]
    <3>1. Log!TakeEffect(m)
      BY <1>1, <1>9, <2>2 DEF Log!TakeEffect
    <3> QED BY <1>2, <3>1 DEF Log!Next
  <2> QED BY <1>5, <2>1, <2>2
<1> QED BY <1>7, <1>10, <1>11 DEF WebhookIInv

(* Answering a message leaves keys and effects alone.                       *)
LEMMA ReplyKeeps ==
  ASSUME WebhookIInv, NEW e \in Envelopes, Reply(e)
  PROVE  WebhookIInv'
<1>1. task[e].at = "reply" /\ UNCHANGED <<envelopes, keys, handled, outage>>
  BY DEF Reply
<1>2. PICK rec \in Task : task' = [task EXCEPT ![e] = rec] /\ rec.at = "claim"
  BY <1>1, SettleMoves DEF Reply
<1> QED BY <1>1, <1>2, SameEnvelopes, TaskLeaves

-------------------------------------------------------------------------------
(* At first nothing is claimed and nothing carried out, as in MessageLog.   *)
LEMMA WebhookStart == Init => WebhookIInv /\ Log!Init
<1> SUFFICES ASSUME Init PROVE WebhookIInv /\ Log!Init
  OBVIOUS
<1>1. NoTask \in Task /\ NoTask.at = "none"
  BY DEF NoTask, Task
<1>2. \A e \in Envelopes : task[e] = NoTask
  BY DEF Init
<1>3. handled \in [Messages -> 0..2]
  BY DEF Init
<1>4. TasksPlaced
  BY <1>1, <1>2, <1>3 DEF Init, TasksPlaced
<1>5. OneHolder
  BY <1>1, <1>2 DEF Init, OneHolder, Handling
<1> QED BY <1>4, <1>5 DEF Init, WebhookIInv, Log!Init

(* Every step keeps the invariant and is one of MessageLog's steps or none. *)
LEMMA WebhookStep == WebhookIInv /\ [Next]_vars => WebhookIInv' /\ [Log!Next]_(Log!vars)
<1> SUFFICES ASSUME WebhookIInv, [Next]_vars PROVE WebhookIInv' /\ [Log!Next]_(Log!vars)
  OBVIOUS
<1>1. ASSUME NEW c \in Calls, Refuse(c) \/ Ignore(c)
      PROVE  UNCHANGED <<envelopes, task, keys, handled, outage>>
  BY <1>1 DEF Refuse, Ignore
<1>2. ASSUME NEW s \in Senders \cup {Provider}, Slide(s)
      PROVE  UNCHANGED <<envelopes, task, keys, handled, outage>>
  BY <1>2 DEF Slide
<1>3. CASE UNCHANGED <<envelopes, task, keys, handled, outage>>
  BY <1>3 DEF WebhookIInv, TasksPlaced, OneHolder, Handling, Message, Log!vars
<1>4. ASSUME NEW c \in Calls, Accept(c) PROVE WebhookIInv' /\ UNCHANGED <<keys, handled, outage>>
  BY <1>4, AcceptKeeps DEF Accept
<1>5. ASSUME NEW e \in Envelopes, Start(e) \/ Finish(e) \/ Reply(e) \/ Abort(e)
      PROVE  WebhookIInv' /\ UNCHANGED <<keys, handled, outage>>
  BY <1>5, StartKeeps, FinishKeeps, ReplyKeeps, AbortKeeps DEF Start, Finish, Reply, Abort
<1>6. ASSUME NEW e \in Envelopes, Claim(e) \/ Handle(e)
      PROVE  WebhookIInv' /\ [Log!Next]_(Log!vars)
  BY <1>6, ClaimKeeps, HandleKeeps
<1>7. CASE Restart
  BY <1>7, RestartKeeps DEF Restart, Log!vars
<1> QED BY <1>1, <1>2, <1>3, <1>4, <1>5, <1>6, <1>7 DEF Next, Work, vars, Log!vars

(* Redelivered in the same call or in another one, in parallel or after a  *)
(* restart, a message of the provider is claimed by one task and carried   *)
(* out at most once while the store of keys answers: every step of the     *)
(* webhook is one of MessageLog's, or none (claim_idempotency_key).        *)
THEOREM LogRefinement == Spec => ImplementsMessageLog
<1>1. Spec => []WebhookIInv
  BY WebhookStart, WebhookStep, PTL DEF Spec
<1> QED BY <1>1, WebhookStart, WebhookStep, PTL DEF Spec, ImplementsMessageLog, Log!Spec

-------------------------------------------------------------------------------
(* Types                                                                   *)

(* What the types say beyond the places of tasks.                          *)
RowsTyped ==
  /\ hits \in [Senders \cup {Provider} -> Nat]
  /\ keys \subseteq Messages /\ deadLetters \subseteq Messages
  /\ retries \subseteq Envelopes \X (Nat \ {0})
  /\ faults \in 0..MaxFaults /\ lossy \in BOOLEAN
  /\ \A e \in Envelopes : envelopes[e] # NoEnvelope => task[e].at # "none"

(* The types of tasks and of the other rows are the module's type           *)
(* invariant.                                                               *)
LEMMA TypesAre == WebhookIInv /\ RowsTyped => TypeOK
BY DEF WebhookIInv, TasksPlaced, RowsTyped, TypeOK

(* A request counts for its senders and its provider only.                  *)
LEMMA CountsTyped ==
  ASSUME hits \in [Senders \cup {Provider} -> Nat], NEW c \in Calls, NEW n \in Nat
  PROVE  HitsUpTo(c, n) \in [Senders \cup {Provider} -> Nat]
<1> DEFINE from(s) == {j \in 1..n : SenderOf[Content[c][j]] = s}
<1>1. ASSUME NEW s PROVE Cardinality(from(s)) \in Nat
  <2>1. IsFiniteSet(1..n)
    BY FS_Interval
  <2>2. IsFiniteSet(from(s))
    BY <2>1, FS_Subset
  <2> QED BY <2>2, FS_CardinalityType
<1>2. ASSUME NEW s \in Senders \cup {Provider}, NEW k \in Nat, NEW limit \in Nat
      PROVE  Hit(s, k, limit) \in Nat
  BY <1>2 DEF Hit, AtMost
<1> HIDE DEF from
<1>3. ASSUME NEW s \in Senders \cup {Provider}
      PROVE  (IF s = Provider THEN Hit(s, 1, MaxRequests)
              ELSE Hit(s, Cardinality(from(s)), MaxMessages)) \in Nat
  BY <1>1, <1>2, WebhookAssumption
<1> QED BY <1>3 DEF HitsUpTo, from

(* The empty tables have their types.                                       *)
LEMMA RowsStart == Init => RowsTyped
<1> SUFFICES ASSUME Init PROVE RowsTyped
  OBVIOUS
<1>1. hits \in [Senders \cup {Provider} -> Nat]
  BY DEF Init
<1>2. faults \in 0..MaxFaults
  BY WebhookAssumption DEF Init
<1>3. lossy \in BOOLEAN
  BY Zenon DEF Init
<1>4. \A e \in Envelopes : envelopes[e] = NoEnvelope
  BY DEF Init
<1> QED BY <1>1, <1>2, <1>3, <1>4 DEF Init, RowsTyped

(* A task that only changes its place, or only its message.                *)
LEMMA PlaceChanges ==
  ASSUME WebhookIInv, NEW e \in Envelopes, NEW x,
         \/ task' = [task EXCEPT ![e].at = x]
         \/ task' = [task EXCEPT ![e].i = @ + 1] /\ x = task[e].at
  PROVE  /\ task' = [task EXCEPT ![e] = task'[e]] /\ task'[e].at = x
         /\ task'[e].i = (IF task' = [task EXCEPT ![e].at = x] THEN task[e].i ELSE task[e].i + 1)
         /\ task'[e].failed = task[e].failed /\ task'[e].recoverable = task[e].recoverable
         /\ \A f \in Envelopes : f # e => task'[f] = task[f]
<1>1. task \in [Envelopes -> Task] /\ task[e] \in Task
  BY TaskFacts
<1>2. CASE task' = [task EXCEPT ![e].at = x]
  BY <1>1, <1>2 DEF Task
<1>3. CASE task' # [task EXCEPT ![e].at = x] /\ task' = [task EXCEPT ![e].i = @ + 1] /\ x = task[e].at
  BY <1>1, <1>3 DEF Task
<1> QED BY <1>2, <1>3

(* Rate counters stay natural numbers, whether a request counts or a window *)
(* ends.                                                                    *)
LEMMA HitsStep ==
  ASSUME RowsTyped, [Next]_vars
  PROVE  hits' \in [Senders \cup {Provider} -> Nat]
<1>1. hits \in [Senders \cup {Provider} -> Nat]
  BY DEF RowsTyped
<1>2. ASSUME NEW c \in Calls, Refuse(c) \/ Ignore(c) \/ Accept(c)
      PROVE  hits' \in [Senders \cup {Provider} -> Nat]
  <2>1. Len(Content[c]) \in Nat /\ 0 \in Nat
    BY WebhookAssumption
  <2>2. \A i \in 1..Len(Content[c]) : i \in Nat
    BY <2>1
  <2>3. hits' = hits \/ \E n \in Nat : hits' = HitsUpTo(c, n)
    <3>1. CASE Refuse(c)
      BY <2>1, <2>2, <3>1 DEF Refuse, Excess
    <3>2. CASE Ignore(c)
      BY <2>1, <3>2 DEF Ignore
    <3>3. CASE Accept(c)
      BY <2>1, <3>3 DEF Accept
    <3> QED BY <1>2, <3>1, <3>2, <3>3
  <2> QED BY <1>1, <2>3, CountsTyped
<1>3. ASSUME NEW s \in Senders \cup {Provider}, Slide(s)
      PROVE  hits' \in [Senders \cup {Provider} -> Nat]
  BY <1>1, <1>3 DEF Slide
<1>4. ASSUME NEW e \in Envelopes, Work(e) \/ Abort(e)
      PROVE  hits' = hits
  BY <1>4 DEF Work, Start, Claim, Handle, Reply, Finish, Abort
<1>5. CASE Restart
  BY <1>1, <1>5 DEF Restart
<1> QED BY <1>1, <1>2, <1>3, <1>4, <1>5 DEF Next, vars

(* Whatever the outcome, what is noted is about the message the task is at. *)
LEMMA SettleWrites ==
  ASSUME WebhookIInv, RowsTyped, NEW e \in Envelopes, task[e].at \in {"handle", "reply"},
         NEW outcome, Settle(e, outcome)
  PROVE  /\ deadLetters' \subseteq Messages /\ retries' \subseteq Envelopes \X (Nat \ {0})
         /\ faults' \in 0..MaxFaults /\ lossy' \in BOOLEAN
<1>1. Message(e) \in Messages /\ task[e].i \in Nat \ {0}
  BY TaskFacts, WithinCall DEF WebhookIInv, TasksPlaced
<1>2. retries' = retries \/ retries' = retries \cup {<<e, task[e].i>>}
  BY DEF Settle
<1>3. deadLetters' = deadLetters \/ deadLetters' = deadLetters \cup {Message(e)}
  BY DEF Settle
<1>4. UNCHANGED <<faults, lossy>> \/ (faults < MaxFaults /\ faults' = faults + 1 /\ lossy' = TRUE)
  BY DEF Settle
<1>5. retries' \subseteq Envelopes \X (Nat \ {0})
  BY <1>1, <1>2 DEF RowsTyped
<1>6. deadLetters' \subseteq Messages
  BY <1>1, <1>3 DEF RowsTyped
<1>7. faults' \in 0..MaxFaults
  BY <1>4, WebhookAssumption DEF RowsTyped
<1>8. lossy' \in BOOLEAN
  BY <1>4, Zenon DEF RowsTyped
<1> QED BY <1>5, <1>6, <1>7, <1>8

(* Every step keeps the types of rows, letters, retry entries and counts.   *)
LEMMA RowsStep ==
  ASSUME WebhookIInv, RowsTyped, [Next]_vars
  PROVE  RowsTyped'
<1> USE WebhookAssumption
<1>0. hits' \in [Senders \cup {Provider} -> Nat]
  BY HitsStep
<1>1. ASSUME UNCHANGED <<envelopes, task, keys, deadLetters, retries, faults, lossy>>
      PROVE  RowsTyped'
  BY <1>0, <1>1 DEF RowsTyped
<1>2. ASSUME NEW c \in Calls, Accept(c) PROVE RowsTyped'
  <2>1. PICK e \in Envelopes : \E row :
          /\ envelopes' = [envelopes EXCEPT ![e] = row]
          /\ task' = [task EXCEPT ![e] = [NoTask EXCEPT !.at = "queued"]]
          /\ faults' = faults \/ (faults < MaxFaults /\ faults' = faults + 1)
    BY <1>2 DEF Accept
  <2>2. UNCHANGED <<keys, deadLetters, retries, lossy>>
    BY <1>2 DEF Accept
  <2>3. \A f \in Envelopes : envelopes'[f] # NoEnvelope => task'[f].at # "none"
    BY <2>1 DEF NoTask, WebhookIInv, TasksPlaced, RowsTyped
  <2>4. faults' \in 0..MaxFaults
    BY <2>1 DEF RowsTyped
  <2> QED BY <1>0, <2>2, <2>3, <2>4 DEF RowsTyped
<1>3. ASSUME NEW e \in Envelopes, Start(e) \/ Finish(e) PROVE RowsTyped'
  <2>1. PICK s \in Statuses : MarkStatus(e, s)
    BY <1>3 DEF Start, Finish, FinalStatus, Statuses
  <2>2. envelopes[e] # NoEnvelope /\ task[e].at # "none"
    BY <1>3, TaskFacts DEF Start, Finish
  <2>3. \A f \in Envelopes : envelopes'[f] = NoEnvelope <=> envelopes[f] = NoEnvelope
    BY <2>1, <2>2, MarkStatusFacts DEF WebhookIInv
  <2>4. \A f \in Envelopes : task[f].at # "none" => task'[f].at # "none"
    <3>1. CASE task' = [task EXCEPT ![e].at = "claim"]
      BY <3>1, PlaceChanges
    <3>2. CASE task' = [task EXCEPT ![e].at = "done"]
      BY <3>2, PlaceChanges
    <3> QED BY <1>3, <3>1, <3>2 DEF Start, Finish
  <2>5. faults' \in 0..MaxFaults
    BY <2>1 DEF MarkStatus, RowsTyped
  <2>6. UNCHANGED <<keys, deadLetters, retries, lossy>>
    BY <1>3 DEF Start, Finish
  <2> QED BY <1>0, <2>3, <2>4, <2>5, <2>6 DEF RowsTyped
<1>4. ASSUME NEW e \in Envelopes, Claim(e) PROVE RowsTyped'
  <2>1. Message(e) \in Messages
    BY <1>4, TaskFacts, WithinCall DEF Claim, HasNext
  <2>2. keys' \subseteq Messages
    BY <1>4, <2>1 DEF Claim, RowsTyped
  <2>3. \A f \in Envelopes : task[f].at # "none" => task'[f].at # "none"
    <3>1. CASE task' = [task EXCEPT ![e].at = "handle"]
      BY <3>1, PlaceChanges
    <3>2. CASE task' = [task EXCEPT ![e].i = @ + 1]
      BY <3>2, PlaceChanges
    <3> QED BY <1>4, <3>1, <3>2 DEF Claim
  <2>4. faults' \in 0..MaxFaults
    BY <1>4 DEF Claim, RowsTyped
  <2>5. UNCHANGED <<envelopes, deadLetters, retries, lossy>>
    BY <1>4 DEF Claim
  <2> QED BY <1>0, <2>2, <2>3, <2>4, <2>5 DEF RowsTyped
<1>5. ASSUME NEW e \in Envelopes, Handle(e) \/ Reply(e) PROVE RowsTyped'
  <2>1. task[e].at \in {"handle", "reply"} /\ UNCHANGED <<envelopes, keys>>
    BY <1>5 DEF Handle, Reply
  <2>2. \/ \E outcome : Settle(e, outcome)
        \/ /\ task' = [task EXCEPT ![e].at = "reply"]
           /\ UNCHANGED <<deadLetters, retries, faults, lossy>>
    BY <1>5 DEF Handle, Reply
  <2>3. /\ deadLetters' \subseteq Messages /\ retries' \subseteq Envelopes \X (Nat \ {0})
        /\ faults' \in 0..MaxFaults /\ lossy' \in BOOLEAN
    BY <2>1, <2>2, SettleWrites DEF RowsTyped
  <2>4. \A f \in Envelopes : task[f].at # "none" => task'[f].at # "none"
    <3>1. CASE task' = [task EXCEPT ![e].at = "reply"]
      BY <3>1 DEF WebhookIInv, TasksPlaced
    <3>2. CASE \E rec \in Task : task' = [task EXCEPT ![e] = rec] /\ rec.at = "claim"
      BY <3>2 DEF WebhookIInv, TasksPlaced
    <3> QED BY <2>1, <2>2, <3>1, <3>2, SettleMoves
  <2> QED BY <1>0, <2>1, <2>3, <2>4 DEF RowsTyped
<1>6. ASSUME NEW e \in Envelopes, Abort(e) PROVE RowsTyped'
  <2>1. \A f \in Envelopes : task[f].at # "none" => task'[f].at # "none"
    BY <1>6 DEF Abort, WebhookIInv, TasksPlaced
  <2> QED BY <1>0, <1>6, <2>1 DEF Abort, RowsTyped
<1>7. CASE Restart
  <2>1. \A f \in Envelopes : task[f].at # "none" => task'[f].at # "none"
    BY <1>7 DEF Restart, WebhookIInv, TasksPlaced
  <2>2. /\ UNCHANGED <<envelopes, keys, deadLetters>> /\ retries' = {} /\ lossy' = TRUE
        /\ faults < MaxFaults /\ faults' = faults + 1
    BY <1>7 DEF Restart
  <2> QED BY <1>0, <2>1, <2>2 DEF RowsTyped
<1>8. ASSUME NEW c \in Calls, Refuse(c) \/ Ignore(c)
      PROVE  UNCHANGED <<envelopes, task, keys, deadLetters, retries, faults, lossy>>
  BY <1>8 DEF Refuse, Ignore
<1>9. ASSUME NEW s \in Senders \cup {Provider}, Slide(s)
      PROVE  UNCHANGED <<envelopes, task, keys, deadLetters, retries, faults, lossy>>
  BY <1>9 DEF Slide
<1> QED BY <1>1, <1>2, <1>3, <1>4, <1>5, <1>6, <1>7, <1>8, <1>9 DEF Next, Work, vars

(* Rows, counts and tasks keep their types for any number of calls and     *)
(* envelopes; a task has an envelope and, at a message, is within its call. *)
THEOREM WebhookTyped == Spec => []TypeOK
<1>1. Init => WebhookIInv /\ RowsTyped
  BY WebhookStart, RowsStart
<1>2. WebhookIInv /\ RowsTyped /\ [Next]_vars => (WebhookIInv /\ RowsTyped)'
  BY WebhookStep, RowsStep
<1> QED BY <1>1, <1>2, TypesAre, PTL DEF Spec

-------------------------------------------------------------------------------
(* What becomes of the messages                                            *)

Moving(e) == task[e].at \in {"handle", "reply"}

(* Some task is at the message, carrying it out or answering it.           *)
InHand(m) == \E f \in Envelopes : Moving(f) /\ Message(f) = m

Followed(m) == Settled(m) \/ InHand(m)

(* Nobody is answered about a message that was not carried out.            *)
Answered == \A e \in Envelopes : task[e].at = "reply" => handled[Message(e)] > 0

EntriesPlaced == \A r \in retries : envelopes[r[1]] # NoEnvelope

EndsReached ==
  \A e \in Envelopes : task[e].at = "done" => task[e].i > Len(Content[envelopes[e].call])

(* While nothing fails, the status of a finished call is what its task met. *)
StatusWritten ==
  faults = 0 => \A e \in Envelopes : envelopes[e] # NoEnvelope =>
    /\ envelopes[e].stored = TRUE
    /\ task[e].at = "done" => envelopes[e].status = FinalStatus(e)

(* What a task has met is on the retry queue and among the dead letters.   *)
Noted ==
  ~lossy => \A e \in Envelopes :
    /\ task[e].recoverable = TRUE <=> \E r \in retries : r[1] = e
    /\ task[e].failed = TRUE => \E i \in 1..Len(Content[envelopes[e].call]) :
                                  Content[envelopes[e].call][i] \in deadLetters

(* A key, and a message that a task has left behind, is settled or in the  *)
(* hands of a task.                                                        *)
KeysFollowed == ~lossy => \A m \in keys : Followed(m)

PassedFollowed ==
  ~lossy => \A e \in Envelopes : envelopes[e] # NoEnvelope =>
    \A i \in 1..Len(Content[envelopes[e].call]) :
      i < task[e].i => Followed(Content[envelopes[e].call][i])

Notes == Answered /\ EntriesPlaced /\ EndsReached /\ StatusWritten /\ Noted
FollowIInv == Notes /\ KeysFollowed /\ PassedFollowed

(* What is settled stays so, and a call that is stored keeps its messages.  *)
RecordsStay ==
  /\ \A m \in Messages : handled[m] > 0 => handled'[m] > 0
  /\ deadLetters \subseteq deadLetters' /\ retries \subseteq retries'
  /\ \A f \in Envelopes : envelopes[f] # NoEnvelope =>
       envelopes'[f] # NoEnvelope /\ envelopes'[f].call = envelopes[f].call

(* A task leaves a message only settled.                                   *)
HandsPass ==
  \A f \in Envelopes, m \in Messages : Moving(f) /\ Message(f) = m =>
    \/ Moving(f)' /\ Message(f)' = m
    \/ Settled(m)'

(* A message that was settled stays so while records are only added.        *)
LEMMA SettledStays ==
  ASSUME RowsTyped, EntriesPlaced, RecordsStay, NEW m \in Messages, Settled(m)
  PROVE  Settled(m)'
<1>1. CASE handled[m] > 0 \/ m \in deadLetters
  BY <1>1 DEF RecordsStay, Settled
<1>2. CASE \E r \in retries : Content[envelopes[r[1]].call][r[2]] = m
  <2>1. PICK r \in retries : Content[envelopes[r[1]].call][r[2]] = m
    BY <1>2
  <2>2. r[1] \in Envelopes /\ envelopes[r[1]] # NoEnvelope /\ r \in retries'
    BY <2>1 DEF RowsTyped, EntriesPlaced, RecordsStay
  <2>3. envelopes'[r[1]].call = envelopes[r[1]].call
    BY <2>2 DEF RecordsStay
  <2> QED BY <2>1, <2>2, <2>3 DEF Settled
<1> QED BY <1>1, <1>2 DEF Settled

(* Who follows a message hands it to a record or keeps it.                  *)
LEMMA FollowedStays ==
  ASSUME RowsTyped, EntriesPlaced, RecordsStay, HandsPass, NEW m \in Messages, Followed(m)
  PROVE  Followed(m)'
<1>1. CASE Settled(m)
  BY <1>1, SettledStays DEF Followed
<1>2. CASE InHand(m)
  <2>1. PICK f \in Envelopes : Moving(f) /\ Message(f) = m
    BY <1>2 DEF InHand
  <2> QED BY <2>1 DEF HandsPass, Followed, InHand
<1> QED BY <1>1, <1>2 DEF Followed

(* Every message of an envelope's call is a message.                        *)
LEMMA MessagesOf ==
  ASSUME WebhookIInv, NEW e \in Envelopes, envelopes[e] # NoEnvelope,
         NEW i \in 1..Len(Content[envelopes[e].call])
  PROVE  Content[envelopes[e].call][i] \in Messages
BY WebhookAssumption DEF WebhookIInv, TasksPlaced, Envelope

(* One task moves.  The hypotheses are what its step has to show: what it  *)
(* leaves is settled, what it passes by is followed, a key it took is in    *)
(* its hands, and its notes are where its record says.                     *)
LEMMA OneMoves ==
  ASSUME WebhookIInv, RowsTyped, FollowIInv,
         NEW e \in Envelopes, NEW rec \in Task, NEW msg, msg = Message(e),
         envelopes[e] # NoEnvelope, envelopes'[e] # NoEnvelope,
         task' = [task EXCEPT ![e] = rec],
         \A f \in Envelopes : f # e => envelopes'[f] = envelopes[f],
         envelopes'[e].call = envelopes[e].call, envelopes'[e].stored = envelopes[e].stored,
         \A m \in Messages : handled[m] > 0 => handled'[m] > 0,
         deadLetters \subseteq deadLetters', retries \subseteq retries',
         \A r \in retries' : r \in retries \/ r[1] = e,
         lossy => lossy', faults' = 0 => faults = 0,
         rec.at = "reply" => rec.i = task[e].i /\ handled'[msg] > 0,
         rec.at = "done" => rec.i > Len(Content[envelopes[e].call]),
         faults' = 0 /\ rec.at = "done" => envelopes'[e].status = FinalStatus(e)',
         ~lossy' => rec.recoverable = TRUE <=> \E r \in retries' : r[1] = e,
         ~lossy' /\ rec.failed = TRUE =>
           \E i \in 1..Len(Content[envelopes[e].call]) : Content[envelopes[e].call][i] \in deadLetters',
         ~lossy' /\ Moving(e) =>
           \/ rec.at \in {"handle", "reply"} /\ rec.i = task[e].i
           \/ Settled(msg)',
         ~lossy' => \/ rec.i = task[e].i
                    \/ rec.i = task[e].i + 1 /\ (Followed(msg) \/ Followed(msg)'),
         ~lossy' => \A m \in keys' : m \in keys \/ InHand(m)'
  PROVE  FollowIInv'
<1>1. /\ task'[e] = rec /\ task \in [Envelopes -> Task] /\ task[e].i \in Nat \ {0}
      /\ \A f \in Envelopes : f # e => task'[f] = task[f]
  BY TaskFacts
<1>2. /\ rec.i = task[e].i => Message(e)' = msg
      /\ \A f \in Envelopes : f # e => Message(f)' = Message(f)
  BY <1>1 DEF Message
<1>3. RecordsStay
  BY DEF RecordsStay
<1>4. Answered'
  <2>1. ASSUME NEW f \in Envelopes, f # e, task'[f].at = "reply" PROVE handled'[Message(f)'] > 0
    <3>1. task[f].at = "reply" /\ handled[Message(f)] > 0
      BY <1>1, <2>1 DEF FollowIInv, Notes, Answered
    <3>2. Message(f) \in Messages
      BY <3>1, TaskFacts, WithinCall DEF WebhookIInv, TasksPlaced
    <3> QED BY <1>2, <2>1, <3>1, <3>2
  <2> QED BY <1>1, <1>2, <2>1 DEF Answered
<1>5. EntriesPlaced'
  BY <1>3 DEF FollowIInv, Notes, EntriesPlaced, RecordsStay, RowsTyped
<1>6. EndsReached'
  BY <1>1 DEF FollowIInv, Notes, EndsReached
<1>7. StatusWritten'
  <2> SUFFICES ASSUME faults' = 0, NEW f \in Envelopes, envelopes'[f] # NoEnvelope
               PROVE  /\ envelopes'[f].stored = TRUE
                      /\ task'[f].at = "done" => envelopes'[f].status = FinalStatus(f)'
    BY DEF StatusWritten
  <2>1. CASE f = e
    BY <1>1, <2>1 DEF FollowIInv, Notes, StatusWritten
  <2>2. CASE f # e
    BY <1>1, <2>2 DEF FollowIInv, Notes, StatusWritten, FinalStatus
  <2> QED BY <2>1, <2>2
<1>8. Noted'
  <2> SUFFICES ASSUME ~lossy', NEW f \in Envelopes
               PROVE  /\ task'[f].recoverable = TRUE <=> \E r \in retries' : r[1] = f
                      /\ task'[f].failed = TRUE => \E i \in 1..Len(Content[envelopes'[f].call]) :
                                    Content[envelopes'[f].call][i] \in deadLetters'
    BY DEF Noted
  <2>1. CASE f = e
    BY <1>1, <2>1
  <2>2. CASE f # e
    <3>1. /\ task[f].recoverable = TRUE <=> \E r \in retries : r[1] = f
          /\ task[f].failed = TRUE => \E i \in 1..Len(Content[envelopes[f].call]) :
                                        Content[envelopes[f].call][i] \in deadLetters
      BY DEF FollowIInv, Notes, Noted
    <3>2. (\E r \in retries : r[1] = f) <=> \E r \in retries' : r[1] = f
      BY <2>2
    <3> QED BY <1>1, <2>2, <3>1, <3>2
  <2> QED BY <2>1, <2>2
<1>9. ASSUME ~lossy' PROVE HandsPass
  <2> SUFFICES ASSUME NEW f \in Envelopes, NEW m \in Messages, Moving(f), Message(f) = m
               PROVE  (Moving(f)' /\ Message(f)' = m) \/ Settled(m)'
    BY DEF HandsPass
  <2> QED BY <1>1, <1>2, <1>9 DEF Moving
<1>10. ASSUME ~lossy', NEW m \in Messages, Followed(m) PROVE Followed(m)'
  BY <1>3, <1>9, <1>10, FollowedStays DEF FollowIInv, Notes
<1>11. KeysFollowed'
  <2> SUFFICES ASSUME ~lossy', NEW m \in keys' PROVE Followed(m)'
    BY DEF KeysFollowed
  <2>1. CASE m \in keys
    <3>1. m \in Messages /\ Followed(m)
      BY <2>1 DEF RowsTyped, FollowIInv, KeysFollowed
    <3> QED BY <3>1, <1>10
  <2>2. CASE InHand(m)'
    BY <2>2 DEF Followed
  <2> QED BY <2>1, <2>2
<1>12. PassedFollowed'
  <2> SUFFICES ASSUME ~lossy', NEW f \in Envelopes, envelopes'[f] # NoEnvelope,
                      NEW i \in 1..Len(Content[envelopes'[f].call]), i < task'[f].i
               PROVE  (Followed(Content[envelopes[f].call][i]))'
    BY DEF PassedFollowed
  <2>1. envelopes[f] # NoEnvelope /\ envelopes'[f].call = envelopes[f].call
    OBVIOUS
  <2>2. i \in 1..Len(Content[envelopes[f].call])
    BY <2>1
  <2>3. PICK m \in Messages : m = Content[envelopes[f].call][i]
    BY <2>1, <2>2, MessagesOf
  <2>4. m = Content[envelopes'[f].call][i]
    BY <2>1, <2>3
  <2>5. Followed(m)'
    <3>1. CASE i < task[f].i
      <4>1. Followed(m)
        BY <2>1, <2>2, <2>3, <3>1 DEF FollowIInv, PassedFollowed
      <4> QED BY <4>1, <1>10
    <3>2. CASE ~(i < task[f].i)
      <4>1. f = e /\ rec.i = task[e].i + 1 /\ i = task[e].i
        BY <1>1, <3>2, TaskFacts
      <4>2. m = msg
        BY <2>3, <4>1 DEF Message
      <4>3. Followed(msg) \/ Followed(msg)'
        BY <4>1, <1>1
      <4> QED BY <1>10, <4>2, <4>3
    <3> QED BY <3>1, <3>2
  <2> QED BY <2>4, <2>5 DEF Followed, Settled, InHand
<1> QED BY <1>4, <1>5, <1>6, <1>7, <1>8, <1>11, <1>12 DEF FollowIInv, Notes

(* The status is written or not, the rest of the envelope stays.           *)
LEMMA MarkStatusRest ==
  ASSUME WebhookIInv, RowsTyped, NEW e \in Envelopes, envelopes[e] # NoEnvelope,
         NEW s \in Statuses, MarkStatus(e, s)
  PROVE  /\ envelopes'[e] # NoEnvelope /\ envelopes'[e].call = envelopes[e].call
         /\ envelopes'[e].stored = envelopes[e].stored
         /\ \A f \in Envelopes : f # e => envelopes'[f] = envelopes[f]
         /\ faults' = 0 => faults = 0
         /\ faults' = 0 /\ envelopes[e].stored = TRUE => envelopes'[e].status = s
<1>1. envelopes \in [Envelopes -> Envelope \cup {NoEnvelope}] /\ envelopes[e] \in Envelope
      /\ faults \in Nat
  BY WebhookAssumption DEF WebhookIInv, TasksPlaced, RowsTyped
<1>2. envelopes'[e] # NoEnvelope
  BY MarkStatusFacts DEF WebhookIInv
<1>3. CASE envelopes' = [envelopes EXCEPT ![e].status = IF envelopes[e].stored THEN s ELSE @]
           /\ UNCHANGED faults
  BY <1>1, <1>2, <1>3 DEF Envelope
<1>4. CASE UNCHANGED envelopes /\ faults' = faults + 1
  BY <1>1, <1>2, <1>4
<1> QED BY <1>3, <1>4 DEF MarkStatus

(* Starting a task follows up all messages of its call: none is past yet.   *)
LEMMA StartFollows ==
  ASSUME WebhookIInv, RowsTyped, FollowIInv, NEW e \in Envelopes, Start(e)
  PROVE  FollowIInv'
<1> DEFINE rec == task'[e]
           msg == Message(e)
<1>1. /\ task[e].at = "queued" /\ task' = [task EXCEPT ![e].at = "claim"]
      /\ MarkStatus(e, "processing") /\ "processing" \in Statuses
      /\ UNCHANGED <<keys, handled, deadLetters, retries, lossy>>
  BY DEF Start, Statuses
<1>2. /\ task' = [task EXCEPT ![e] = rec] /\ rec.at = "claim" /\ rec.i = task[e].i
      /\ rec.failed = task[e].failed /\ rec.recoverable = task[e].recoverable
  BY <1>1, PlaceChanges
<1>3. rec \in Task
  BY <1>1, TaskFacts DEF Task
<1>4. envelopes[e] # NoEnvelope
  BY <1>1, TaskFacts
<1>5. /\ envelopes'[e] # NoEnvelope /\ envelopes'[e].call = envelopes[e].call
      /\ envelopes'[e].stored = envelopes[e].stored
      /\ \A f \in Envelopes : f # e => envelopes'[f] = envelopes[f]
      /\ faults' = 0 => faults = 0
  BY <1>1, <1>4, MarkStatusRest
<1>6. ~lossy => /\ task[e].recoverable = TRUE <=> \E r \in retries : r[1] = e
                /\ task[e].failed = TRUE => \E i \in 1..Len(Content[envelopes[e].call]) :
                                              Content[envelopes[e].call][i] \in deadLetters
  BY DEF FollowIInv, Notes, Noted
<1>7. ~Moving(e)
  BY <1>1 DEF Moving
<1> HIDE DEF rec, msg
<1> QED BY <1>1, <1>2, <1>3, <1>4, <1>5, <1>6, <1>7, OneMoves

(* A task finishes with its messages settled or in other hands, and writes  *)
(* the status that says what it met.                                        *)
LEMMA FinishFollows ==
  ASSUME WebhookIInv, RowsTyped, FollowIInv, NEW e \in Envelopes, Finish(e)
  PROVE  FollowIInv'
<1> DEFINE rec == task'[e]
           s == FinalStatus(e)
<1>1. /\ task[e].at = "claim" /\ ~HasNext(e) /\ task' = [task EXCEPT ![e].at = "done"]
      /\ MarkStatus(e, s) /\ s \in Statuses
      /\ UNCHANGED <<keys, handled, deadLetters, retries, lossy>>
  BY DEF Finish, FinalStatus, Statuses
<1>2. /\ task' = [task EXCEPT ![e] = rec] /\ rec.at = "done" /\ rec.i = task[e].i
      /\ rec.failed = task[e].failed /\ rec.recoverable = task[e].recoverable
  BY <1>1, PlaceChanges
<1>3. rec \in Task
  BY <1>1, TaskFacts DEF Task
<1>4. envelopes[e] # NoEnvelope /\ envelopes[e].call \in Calls
  BY <1>1, TaskFacts DEF Envelope
<1>5. /\ envelopes'[e] # NoEnvelope /\ envelopes'[e].call = envelopes[e].call
      /\ envelopes'[e].stored = envelopes[e].stored
      /\ \A f \in Envelopes : f # e => envelopes'[f] = envelopes[f]
      /\ faults' = 0 => faults = 0
      /\ faults' = 0 /\ envelopes[e].stored = TRUE => envelopes'[e].status = s
  BY <1>1, <1>4, MarkStatusRest
<1>6. ~lossy => /\ task[e].recoverable = TRUE <=> \E r \in retries : r[1] = e
                /\ task[e].failed = TRUE => \E i \in 1..Len(Content[envelopes[e].call]) :
                                              Content[envelopes[e].call][i] \in deadLetters
  BY DEF FollowIInv, Notes, Noted
<1>7. ~Moving(e)
  BY <1>1 DEF Moving
<1>8. task[e].i > Len(Content[envelopes[e].call])
  BY <1>1, <1>4, TaskFacts, WebhookAssumption DEF HasNext
<1>9. s = FinalStatus(e)'
  BY <1>2 DEF FinalStatus
<1>10. faults' = 0 => envelopes'[e].status = FinalStatus(e)'
  BY <1>4, <1>5, <1>9 DEF FollowIInv, Notes, StatusWritten
<1>11. PICK msg : msg = Message(e)
  OBVIOUS
<1> HIDE DEF rec, s
<1> QED BY <1>1, <1>2, <1>3, <1>4, <1>5, <1>6, <1>7, <1>8, <1>10, <1>11, OneMoves

(* A duplicate is passed by, and its key says that it is followed.         *)
LEMMA ClaimFollows ==
  ASSUME WebhookIInv, RowsTyped, FollowIInv, NEW e \in Envelopes, Claim(e)
  PROVE  FollowIInv'
<1> DEFINE rec == task'[e]
<1>0. PICK msg : msg = Message(e)
  OBVIOUS
<1>1. /\ task[e].at = "claim" /\ task[e].i <= Len(Content[envelopes[e].call])
      /\ UNCHANGED <<envelopes, handled, deadLetters, retries, lossy>>
  BY DEF Claim, HasNext
<1>2. /\ task' = [task EXCEPT ![e] = rec] /\ rec.at \in {"claim", "handle"}
      /\ rec.failed = task[e].failed /\ rec.recoverable = task[e].recoverable
      /\ \/ rec.at = "handle" /\ rec.i = task[e].i
         \/ rec.at = "claim" /\ rec.i = task[e].i + 1 /\ msg \in keys
      /\ rec.at = "claim" => UNCHANGED keys
      /\ \A m \in keys' : m \in keys \/ (m = msg /\ rec.at = "handle")
  <2>1. CASE task' = [task EXCEPT ![e].at = "handle"] /\ (UNCHANGED keys \/ keys' = keys \cup {msg})
    <3>1. /\ task' = [task EXCEPT ![e] = rec] /\ rec.at = "handle" /\ rec.i = task[e].i
          /\ rec.failed = task[e].failed /\ rec.recoverable = task[e].recoverable
      BY <2>1, PlaceChanges
    <3> HIDE DEF rec
    <3> QED BY <2>1, <3>1
  <2>2. CASE task' = [task EXCEPT ![e].i = @ + 1] /\ UNCHANGED keys /\ msg \in keys
    <3>1. task[e].i \in Nat /\ task'[e].i = task[e].i + 1
      BY <2>2, TaskFacts DEF Task
    <3>2. /\ task' = [task EXCEPT ![e] = rec] /\ rec.at = "claim"
          /\ rec.failed = task[e].failed /\ rec.recoverable = task[e].recoverable
      BY <1>1, <2>2, PlaceChanges
    <3> HIDE DEF rec
    <3>3. rec.i = task[e].i + 1
      BY <3>1 DEF rec
    <3> QED BY <2>2, <3>2, <3>3
  <2> QED BY <1>0, <2>1, <2>2 DEF Claim
<1>3. rec \in Task
  <2>1. task[e] \in Task /\ task[e].i + 1 \in Nat \ {0}
    BY TaskFacts
  <2>2. CASE task' = [task EXCEPT ![e].at = "handle"]
    BY <2>1, <2>2, TaskFacts DEF Task
  <2>3. CASE task' = [task EXCEPT ![e].i = @ + 1]
    BY <2>1, <2>3, TaskFacts DEF Task
  <2> QED BY <2>2, <2>3 DEF Claim
<1>4. envelopes[e] # NoEnvelope
  BY <1>1, TaskFacts
<1>5. ~lossy => /\ task[e].recoverable = TRUE <=> \E r \in retries : r[1] = e
                /\ task[e].failed = TRUE => \E i \in 1..Len(Content[envelopes[e].call]) :
                                              Content[envelopes[e].call][i] \in deadLetters
  BY DEF FollowIInv, Notes, Noted
<1>6. ~Moving(e)
  BY <1>1 DEF Moving
<1>7. ~lossy /\ msg \in keys => Followed(msg)
  BY DEF FollowIInv, KeysFollowed
<1>8. faults' = 0 => faults = 0
  BY WebhookAssumption DEF Claim, RowsTyped
<1>9. rec.at = "handle" => InHand(msg)'
  <2>1. rec.at = "handle" => Moving(e)' /\ Message(e)' = msg
    BY <1>0, <1>1, <1>2 DEF Moving, Message
  <2> QED BY <2>1 DEF InHand
<1> HIDE DEF rec
<1> QED BY <1>0, <1>1, <1>2, <1>3, <1>4, <1>5, <1>6, <1>7, <1>8, <1>9, OneMoves

(* A message is left carried out, among the dead letters or with an entry   *)
(* on the retry queue.                                                      *)
LEMMA SettleFollows ==
  ASSUME WebhookIInv, RowsTyped, FollowIInv, NEW e \in Envelopes,
         task[e].at \in {"handle", "reply"}, NEW outcome \in {"ok", "recoverable", "failed"},
         Settle(e, outcome), UNCHANGED <<envelopes, keys>>,
         outcome = "ok" => handled'[Message(e)] > 0,
         \A m \in Messages : handled[m] > 0 => handled'[m] > 0
  PROVE  FollowIInv'
<1> DEFINE f == task[e].failed \/ outcome = "failed"
           r == task[e].recoverable \/ outcome = "recoverable"
           rec == [at |-> "claim", i |-> task[e].i + 1, failed |-> f, recoverable |-> r]
<1>0. PICK msg : msg = Message(e)
  OBVIOUS
<1>1. /\ f \in BOOLEAN /\ r \in BOOLEAN
      /\ f = TRUE <=> task[e].failed = TRUE \/ outcome = "failed"
      /\ r = TRUE <=> task[e].recoverable = TRUE \/ outcome = "recoverable"
  <2>1. task[e].failed \in BOOLEAN /\ task[e].recoverable \in BOOLEAN
    BY TaskFacts DEF Task
  <2> QED BY <2>1, Zenon
<1>2. task' = [task EXCEPT ![e] = rec]
  BY Zenon DEF Settle, Past
<1> HIDE DEF f, r
<1>3. rec \in Task /\ rec.at = "claim" /\ rec.i = task[e].i + 1 /\ rec.failed = f /\ rec.recoverable = r
  BY <1>1, TaskFacts DEF Task
<1> HIDE DEF rec
<1>4. /\ envelopes[e] # NoEnvelope /\ msg \in Messages
      /\ task[e].i \in 1..Len(Content[envelopes[e].call])
      /\ msg = Content[envelopes[e].call][task[e].i]
  <2>1. envelopes[e] # NoEnvelope /\ task[e].i <= Len(Content[envelopes[e].call]) /\ task[e].i \in Nat \ {0}
    BY TaskFacts DEF WebhookIInv, TasksPlaced
  <2>2. msg \in Messages /\ envelopes[e].call \in Calls
    BY <1>0, <2>1, WithinCall DEF Envelope
  <2>3. Len(Content[envelopes[e].call]) \in Nat
    BY <2>2, WebhookAssumption
  <2> QED BY <1>0, <2>1, <2>2, <2>3 DEF Message
<1>5. /\ retries' = (IF outcome = "recoverable" THEN retries \cup {<<e, task[e].i>>} ELSE retries)
      /\ deadLetters' = deadLetters \/ deadLetters' = deadLetters \cup {msg}
      /\ ~lossy' => /\ ~lossy
                    /\ outcome = "failed" => deadLetters' = deadLetters \cup {msg}
      /\ lossy => lossy'
      /\ faults' = 0 => faults = 0
  <2>1. /\ retries' = (IF outcome = "recoverable" THEN retries \cup {<<e, task[e].i>>} ELSE retries)
        /\ deadLetters' = deadLetters \/ deadLetters' = deadLetters \cup {msg}
    BY <1>0 DEF Settle
  <2>2. \/ /\ deadLetters' = IF outcome = "failed" THEN deadLetters \cup {msg} ELSE deadLetters
           /\ UNCHANGED <<faults, lossy>>
        \/ faults' = faults + 1 /\ lossy' = TRUE
    BY <1>0 DEF Settle
  <2>3. faults' = 0 => faults = 0
    BY <2>2, WebhookAssumption DEF RowsTyped
  <2> QED BY <2>1, <2>2, <2>3
<1>6. retries \subseteq retries' /\ \A q \in retries' : q \in retries \/ q[1] = e
  BY <1>5
<1>7. ~lossy' => (rec.recoverable = TRUE <=> \E q \in retries' : q[1] = e)
  <2>1. ~lossy => (task[e].recoverable = TRUE <=> \E q \in retries : q[1] = e)
    BY DEF FollowIInv, Notes, Noted
  <2>2. CASE outcome = "recoverable"
    <3>1. <<e, task[e].i>> \in retries' /\ <<e, task[e].i>>[1] = e
      BY <1>5, <2>2
    <3> QED BY <1>1, <1>3, <2>2, <3>1
  <2>3. CASE outcome # "recoverable"
    BY <1>1, <1>3, <1>5, <2>1, <2>3
  <2> QED BY <2>2, <2>3
<1>8. ~lossy' /\ rec.failed = TRUE =>
        \E i \in 1..Len(Content[envelopes[e].call]) : Content[envelopes[e].call][i] \in deadLetters'
  <2>1. ~lossy /\ task[e].failed = TRUE =>
          \E i \in 1..Len(Content[envelopes[e].call]) : Content[envelopes[e].call][i] \in deadLetters
    BY DEF FollowIInv, Notes, Noted
  <2> QED BY <1>1, <1>3, <1>4, <1>5, <2>1
<1>9. ~lossy' => Settled(msg)'
  <2> SUFFICES ASSUME ~lossy' PROVE Settled(msg)'
    OBVIOUS
  <2>1. CASE outcome = "ok"
    BY <1>0, <2>1 DEF Settled
  <2>2. CASE outcome = "failed"
    BY <1>5, <2>2 DEF Settled
  <2>3. CASE outcome = "recoverable"
    <3>1. <<e, task[e].i>> \in retries'
      BY <1>5, <2>3
    <3>2. Content[envelopes'[<<e, task[e].i>>[1]].call][<<e, task[e].i>>[2]] = msg
      BY <1>4
    <3> QED BY <3>1, <3>2 DEF Settled
  <2> QED BY <2>1, <2>2, <2>3
<1> QED BY <1>0, <1>2, <1>3, <1>4, <1>5, <1>6, <1>7, <1>8, <1>9, OneMoves DEF Followed

(* A task gets past a message it could not carry out only with a dead       *)
(* letter or an entry on the retry queue, or with the mark that the letter  *)
(* was lost.                                                                *)
LEMMA HandleFollows ==
  ASSUME WebhookIInv, RowsTyped, FollowIInv, NEW e \in Envelopes, Handle(e)
  PROVE  FollowIInv'
<1>0. PICK msg : msg = Message(e)
  OBVIOUS
<1>1. /\ task[e].at = "handle" /\ UNCHANGED <<envelopes, keys, outage>>
      /\ envelopes[e] # NoEnvelope
  BY TaskFacts DEF Handle
<1>2. msg \in Messages /\ handled \in [Messages -> 0..2]
  BY <1>0, <1>1, TaskFacts, WithinCall DEF WebhookIInv, TasksPlaced
<1>3. PICK done \in BOOLEAN, outcome \in {"ok", "recoverable", "failed"} :
        /\ outcome = "ok" => done
        /\ handled' = IF done
                      THEN [handled EXCEPT ![msg] = IF @ < 2 THEN @ + 1 ELSE @]
                      ELSE handled
        /\ IF outcome = "ok"
           THEN /\ task' = [task EXCEPT ![e].at = "reply"]
                /\ UNCHANGED <<deadLetters, retries, faults, lossy>>
           ELSE Settle(e, outcome)
  BY <1>0 DEF Handle
<1>4. \A m \in Messages : handled[m] > 0 => handled'[m] > 0
  BY <1>2, <1>3
<1>5. outcome = "ok" => handled'[msg] > 0
  BY <1>2, <1>3
<1>6. CASE outcome # "ok"
  BY <1>1, <1>3, <1>4, <1>6, SettleFollows
<1>7. CASE outcome = "ok"
  <2> DEFINE rec == task'[e]
  <2>1. /\ task' = [task EXCEPT ![e].at = "reply"]
        /\ UNCHANGED <<deadLetters, retries, faults, lossy>>
    BY <1>3, <1>7
  <2>2. /\ task' = [task EXCEPT ![e] = rec] /\ rec.at = "reply" /\ rec.i = task[e].i
        /\ rec.failed = task[e].failed /\ rec.recoverable = task[e].recoverable
    BY <2>1, PlaceChanges
  <2>3. rec \in Task
    BY <2>1, TaskFacts DEF Task
  <2>4. ~lossy => /\ task[e].recoverable = TRUE <=> \E r \in retries : r[1] = e
                  /\ task[e].failed = TRUE => \E i \in 1..Len(Content[envelopes[e].call]) :
                                                Content[envelopes[e].call][i] \in deadLetters
    BY DEF FollowIInv, Notes, Noted
  <2> HIDE DEF rec
  <2> QED BY <1>0, <1>1, <1>4, <1>5, <1>7, <2>1, <2>2, <2>3, <2>4, OneMoves
<1> QED BY <1>6, <1>7

(* A message that is answered was carried out: it is settled whatever       *)
(* becomes of the answer.                                                   *)
LEMMA ReplyFollows ==
  ASSUME WebhookIInv, RowsTyped, FollowIInv, NEW e \in Envelopes, Reply(e)
  PROVE  FollowIInv'
<1>1. task[e].at = "reply" /\ UNCHANGED <<envelopes, keys, handled>>
  BY DEF Reply
<1>2. PICK outcome \in {"ok", "recoverable", "failed"} : Settle(e, outcome)
  BY DEF Reply
<1>3. handled'[Message(e)] > 0
  BY <1>1 DEF FollowIInv, Notes, Answered
<1> QED BY <1>1, <1>2, <1>3, SettleFollows

(* A task that ends for want of a client leaves the mark that something was *)
(* lost.                                                                    *)
LEMMA AbortFollows ==
  ASSUME WebhookIInv, RowsTyped, FollowIInv, NEW e \in Envelopes, Abort(e)
  PROVE  FollowIInv'
<1> DEFINE rec == task'[e]
<1>0. PICK msg : msg = Message(e)
  OBVIOUS
<1>1. /\ task[e].at = "claim" /\ task' = [task EXCEPT ![e].at = "lost"]
      /\ faults' = faults + 1 /\ lossy' = TRUE
      /\ UNCHANGED <<envelopes, keys, handled, deadLetters, retries>>
  BY DEF Abort
<1>2. task' = [task EXCEPT ![e] = rec] /\ rec.at = "lost"
  BY <1>1, PlaceChanges
<1>5. rec \in Task
  BY <1>1, TaskFacts DEF Task
<1>3. envelopes[e] # NoEnvelope
  BY <1>1, TaskFacts
<1>4. faults' # 0
  BY <1>1, WebhookAssumption DEF RowsTyped
<1> HIDE DEF rec
<1> QED BY <1>0, <1>1, <1>2, <1>3, <1>4, <1>5, OneMoves

(* What a restart drops, it drops with the mark that something was lost.    *)
LEMMA RestartFollows ==
  ASSUME WebhookIInv, RowsTyped, FollowIInv, Restart
  PROVE  FollowIInv'
<1>1. /\ task' = [e \in Envelopes |-> IF Running(e) THEN [task[e] EXCEPT !.at = "lost"] ELSE task[e]]
      /\ faults' = faults + 1 /\ lossy' = TRUE /\ retries' = {}
      /\ UNCHANGED <<envelopes, handled>>
  BY DEF Restart
<1>2. faults' # 0
  BY <1>1, WebhookAssumption DEF RowsTyped
<1>3. \A e \in Envelopes : /\ task'[e].at \notin {"reply"}
                           /\ task'[e].at = "done" => task'[e] = task[e]
  BY <1>1, TaskFacts DEF Running, Task
<1>4. Answered' /\ EntriesPlaced'
  BY <1>1, <1>3 DEF Answered, EntriesPlaced
<1>5. EndsReached'
  BY <1>1, <1>3 DEF FollowIInv, Notes, EndsReached
<1> QED BY <1>1, <1>2, <1>4, <1>5
        DEF FollowIInv, Notes, StatusWritten, Noted, KeysFollowed, PassedFollowed

(* A new envelope has no task that is done, so nothing is to be shown of    *)
(* it.                                                                      *)
LEMMA AcceptFollows ==
  ASSUME WebhookIInv, RowsTyped, FollowIInv, NEW c \in Calls, Accept(c)
  PROVE  FollowIInv'
<1>1. PICK e \in Envelopes, stored \in BOOLEAN :
        /\ envelopes[e] = NoEnvelope
        /\ envelopes' = [envelopes EXCEPT ![e] = [call |-> c, status |-> "queued", stored |-> stored]]
        /\ task' = [task EXCEPT ![e] = [NoTask EXCEPT !.at = "queued"]]
        /\ (stored = TRUE /\ faults' = faults) \/ faults' = faults + 1
  BY DEF Accept, IsNext
<1>2. UNCHANGED <<keys, handled, deadLetters, retries, lossy>>
  BY DEF Accept
<1> DEFINE row == [call |-> c, status |-> "queued", stored |-> stored]
           rec == [NoTask EXCEPT !.at = "queued"]
<1>3. rec.at = "queued" /\ rec.i = 1 /\ rec.failed = FALSE /\ rec.recoverable = FALSE
  BY DEF NoTask
<1>4. row.stored = stored /\ row \in Envelope
  BY DEF Envelope, Statuses
<1> HIDE DEF row, rec
<1>5. /\ envelopes'[e] = row /\ task'[e] = rec /\ row # NoEnvelope
      /\ \A f \in Envelopes : f # e => envelopes'[f] = envelopes[f] /\ task'[f] = task[f]
  BY <1>1, <1>4, EnvelopeAssumption DEF row, rec, WebhookIInv, TasksPlaced
<1>7. task[e].at = "none"
  BY <1>1 DEF WebhookIInv, TasksPlaced
<1>8. faults' = 0 => faults = 0 /\ stored = TRUE
  BY <1>1, WebhookAssumption DEF RowsTyped
<1>9. \A f \in Envelopes : f # e => Message(f)' = Message(f)
  BY <1>5 DEF Message
<1>10. RecordsStay
  BY <1>1, <1>2, <1>5 DEF RecordsStay
<1>11. HandsPass
  BY <1>5, <1>7, <1>9 DEF HandsPass, Moving
<1>12. \A r \in retries : r[1] # e
  BY <1>1 DEF FollowIInv, Notes, EntriesPlaced
<1>13. Answered'
  BY <1>2, <1>3, <1>5, <1>9 DEF FollowIInv, Notes, Answered
<1>14. EntriesPlaced'
  BY <1>2, <1>5, <1>12 DEF FollowIInv, Notes, EntriesPlaced, RowsTyped
<1>15. EndsReached'
  BY <1>3, <1>5 DEF FollowIInv, Notes, EndsReached
<1>16. StatusWritten'
  <2> SUFFICES ASSUME faults' = 0, NEW f \in Envelopes, envelopes'[f] # NoEnvelope
               PROVE  /\ envelopes'[f].stored = TRUE
                      /\ task'[f].at = "done" => envelopes'[f].status = FinalStatus(f)'
    BY DEF StatusWritten
  <2>1. CASE f = e
    BY <1>3, <1>4, <1>5, <1>8, <2>1
  <2>2. CASE f # e
    BY <1>5, <1>8, <2>2 DEF FollowIInv, Notes, StatusWritten, FinalStatus
  <2> QED BY <2>1, <2>2
<1>17. Noted'
  <2> SUFFICES ASSUME ~lossy', NEW f \in Envelopes
               PROVE  /\ task'[f].recoverable = TRUE <=> \E r \in retries' : r[1] = f
                      /\ task'[f].failed = TRUE => \E i \in 1..Len(Content[envelopes'[f].call]) :
                                    Content[envelopes'[f].call][i] \in deadLetters'
    BY DEF Noted
  <2>1. CASE f = e
    BY <1>2, <1>3, <1>5, <1>12, <2>1
  <2>2. CASE f # e
    BY <1>2, <1>5, <2>2 DEF FollowIInv, Notes, Noted
  <2> QED BY <2>1, <2>2
<1>18. \A m \in Messages : Followed(m) => Followed(m)'
  BY <1>10, <1>11, FollowedStays DEF FollowIInv, Notes
<1>19. KeysFollowed'
  <2> SUFFICES ASSUME ~lossy', NEW m \in keys' PROVE Followed(m)'
    BY DEF KeysFollowed
  <2>1. m \in Messages /\ Followed(m)
    BY <1>2 DEF RowsTyped, FollowIInv, KeysFollowed
  <2> QED BY <1>18, <2>1
<1>20. PassedFollowed'
  <2> SUFFICES ASSUME ~lossy', NEW f \in Envelopes, envelopes'[f] # NoEnvelope,
                      NEW i \in 1..Len(Content[envelopes'[f].call]), i < task'[f].i
               PROVE  (Followed(Content[envelopes[f].call][i]))'
    BY DEF PassedFollowed
  <2>1. f # e
    BY <1>3, <1>5
  <2>2. envelopes[f] # NoEnvelope /\ envelopes'[f] = envelopes[f] /\ task'[f] = task[f] /\ ~lossy
    BY <1>2, <1>5, <2>1
  <2>3. i \in 1..Len(Content[envelopes[f].call])
    BY <2>2
  <2>4. PICK m \in Messages : m = Content[envelopes[f].call][i]
    BY <2>2, <2>3, MessagesOf
  <2>5. Followed(m)
    BY <2>2, <2>3, <2>4 DEF FollowIInv, PassedFollowed
  <2>6. Followed(m)'
    BY <1>18, <2>5
  <2> QED BY <2>2, <2>4, <2>6 DEF Followed, Settled, InHand
<1> QED BY <1>13, <1>14, <1>15, <1>16, <1>17, <1>19, <1>20 DEF FollowIInv, Notes

(* Nothing has to be followed at first.                                     *)
LEMMA FollowStart == Init => FollowIInv
<1> SUFFICES ASSUME Init PROVE FollowIInv
  OBVIOUS
<1>1. /\ \A e \in Envelopes : envelopes[e] = NoEnvelope /\ task[e] = NoTask
      /\ keys = {} /\ retries = {}
  BY DEF Init
<1>2. NoTask.at = "none" /\ NoTask.failed = FALSE /\ NoTask.recoverable = FALSE
  BY DEF NoTask
<1>3. Notes
  BY <1>1, <1>2 DEF Notes, Answered, EntriesPlaced, EndsReached, StatusWritten, Noted
<1> QED BY <1>1, <1>3 DEF FollowIInv, KeysFollowed, PassedFollowed

(* Every step keeps each message of a worked call settled or in hand.       *)
LEMMA FollowStep == WebhookIInv /\ RowsTyped /\ FollowIInv /\ [Next]_vars => FollowIInv'
<1> SUFFICES ASSUME WebhookIInv, RowsTyped, FollowIInv, [Next]_vars PROVE FollowIInv'
  OBVIOUS
<1>1. ASSUME NEW c \in Calls, Refuse(c) \/ Ignore(c)
      PROVE  UNCHANGED <<envelopes, task, keys, handled, deadLetters, retries, faults, lossy>>
  BY <1>1 DEF Refuse, Ignore
<1>2. ASSUME NEW s \in Senders \cup {Provider}, Slide(s)
      PROVE  UNCHANGED <<envelopes, task, keys, handled, deadLetters, retries, faults, lossy>>
  BY <1>2 DEF Slide
<1>3. CASE UNCHANGED <<envelopes, task, keys, handled, deadLetters, retries, faults, lossy>>
  BY <1>3 DEF FollowIInv, Notes, Answered, EntriesPlaced, EndsReached, StatusWritten, Noted,
       KeysFollowed, PassedFollowed, Followed, Settled, InHand, Moving, Message, FinalStatus
<1>4. ASSUME NEW e \in Envelopes, Work(e) \/ Abort(e) PROVE FollowIInv'
  BY <1>4, StartFollows, ClaimFollows, HandleFollows, ReplyFollows, FinishFollows, AbortFollows
     DEF Work
<1> QED BY <1>1, <1>2, <1>3, <1>4, AcceptFollows, RestartFollows DEF Next, vars

(* A message of a finished call, delivered again or not, is settled or in  *)
(* the hands of a task: its own task passed it only so, and whoever took    *)
(* its key is still at it or settled it.                                   *)
LEMMA NobodyIsLost == WebhookIInv /\ FollowIInv => NothingVanishes
<1> SUFFICES ASSUME WebhookIInv, FollowIInv, ~lossy, NEW e \in Envelopes, task[e].at = "done",
                    NEW i \in 1..Len(Content[envelopes[e].call])
             PROVE  Followed(Content[envelopes[e].call][i])
  BY DEF NothingVanishes, Followed, InHand, Moving
<1>1. envelopes[e] # NoEnvelope /\ task[e].i \in Nat /\ envelopes[e].call \in Calls
  BY TaskFacts DEF Envelope
<1>2. Len(Content[envelopes[e].call]) \in Nat
  BY <1>1, WebhookAssumption
<1>3. i < task[e].i
  BY <1>1, <1>2 DEF FollowIInv, Notes, EndsReached
<1> QED BY <1>1, <1>3 DEF FollowIInv, PassedFollowed

(* What the invariant says of a finished task is what its status tells.     *)
LEMMA StatusTells == WebhookIInv /\ FollowIInv => StatusIsTrue
<1> SUFFICES ASSUME WebhookIInv, FollowIInv, ~lossy, faults = 0, NEW e \in Envelopes,
                    task[e].at = "done"
             PROVE  /\ envelopes[e].status = "queued" => \E r \in retries : r[1] = e
                    /\ envelopes[e].status = "processed" => ~\E r \in retries : r[1] = e
                    /\ envelopes[e].status = "failed" =>
                         {Content[envelopes[e].call][i] : i \in 1..Len(Content[envelopes[e].call])}
                           \cap deadLetters # {}
  BY DEF StatusIsTrue
<1>1. envelopes[e] # NoEnvelope /\ task[e].failed \in BOOLEAN /\ task[e].recoverable \in BOOLEAN
  BY TaskFacts DEF Task
<1>2. envelopes[e].status = FinalStatus(e)
  BY <1>1 DEF FollowIInv, Notes, StatusWritten
<1>3. /\ task[e].recoverable = TRUE <=> \E r \in retries : r[1] = e
      /\ task[e].failed = TRUE => \E i \in 1..Len(Content[envelopes[e].call]) :
                                    Content[envelopes[e].call][i] \in deadLetters
  BY DEF FollowIInv, Notes, Noted
<1>4. /\ FinalStatus(e) = "queued" => task[e].recoverable = TRUE
      /\ FinalStatus(e) = "processed" => task[e].recoverable = FALSE
      /\ FinalStatus(e) = "failed" => task[e].failed = TRUE
  BY <1>1 DEF FinalStatus
<1> QED BY <1>2, <1>3, <1>4

(* Keys, rows and tasks fit together in every reachable state, and the      *)
(* messages a task is past are settled or in other hands                    *)
(* (process_whatsapp_envelope).                                             *)
THEOREM WebhookInvariance == Spec => [](WebhookIInv /\ RowsTyped /\ FollowIInv)
<1>1. Init => WebhookIInv /\ RowsTyped /\ FollowIInv
  BY WebhookStart, RowsStart, FollowStart
<1>2. WebhookIInv /\ RowsTyped /\ FollowIInv /\ [Next]_vars => (WebhookIInv /\ RowsTyped /\ FollowIInv)'
  BY WebhookStep, RowsStep, FollowStep
<1> QED BY <1>1, <1>2, PTL DEF Spec

(* A message of a call whose task has finished was carried out, is a dead  *)
(* letter, waits on the retry queue or is in the hands of another task,    *)
(* unless a task, the queue or a letter was lost (process_whatsapp_envelope *)
(* and the key it inserts first).                                          *)
THEOREM MessagesKept == Spec => []NothingVanishes
BY WebhookInvariance, NobodyIsLost, PTL

(* While nothing fails, the status written at the end of a call says what  *)
(* is left to do about it.                                                 *)
THEOREM StatusesTrue == Spec => []StatusIsTrue
BY WebhookInvariance, StatusTells, PTL
===============================================================================
