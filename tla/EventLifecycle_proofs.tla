------------------------ MODULE EventLifecycle_proofs ------------------------
(***************************************************************************)
(* Theorems about EventLifecycle for every set of sessions and every       *)
(* number of events.                                                       *)
(*                                                                         *)
(* The argument: a command that was gated has loaded the very state its    *)
(* transition starts from, and a state that was loaded is one the event    *)
(* has been in (Fits).  So a stale commit can only repeat a state that was *)
(* reached in order.  The auto-close job has no gate; it has read the      *)
(* state from the workflow row, since without a performer the engine       *)
(* grants nothing by override.                                             *)
(***************************************************************************)
EXTENDS EventLifecycle, TLAPS

(* What a session under way has loaded and been granted.                      *)
Fits(s) ==
  /\ pc[s] # "idle" => job[s] \in Job
  /\ pc[s] = "create" => s \in Sessions /\ job[s].event \in EventIds \ rows
  /\ pc[s] = "lookup" => s \in Sessions /\ job[s].blind /\ job[s].action \in Transitions
  /\ pc[s] \in {"check", "write"} =>
       /\ job[s].action \in Transitions
       /\ job[s].event \in rows
       /\ seen[s].status \in visited[job[s].event]
       /\ s \in Sessions =>
            job[s].blind \/ seen[s].status = Before[job[s].action]
       /\ s = Scheduler => job[s].action = "CLOSE_EVENT" /\ ~job[s].blind
  /\ pc[s] = "write" =>
       /\ seen[s].current \in visited[job[s].event]
       /\ s = Scheduler => seen[s].current = "EVENT_DAY"

AllFit == \A s \in AllSessions : Fits(s)

(* Two creations under way never have the same number.                        *)
NumbersDiffer ==
  \A s, t \in Sessions :
    pc[s] = "create" /\ pc[t] = "create" /\ job[s].event = job[t].event => s = t

(* Both rows of an event hold states it has been in.                          *)
RowsVisited ==
  /\ \A e \in rows : {status[e], current[e]} \subseteq visited[e]
  /\ \A e \in EventIds \ rows : status[e] = "DRAFT" /\ current[e] = "DRAFT"

IInv == TypeOK /\ AllFit /\ NumbersDiffer /\ RowsVisited /\ NoStateSkipped /\ RowsAgree

-------------------------------------------------------------------------------
(* Frames *)

OthersStay(s) ==
  \A t \in AllSessions \ {s} : pc'[t] = pc[t] /\ job'[t] = job[t] /\ seen'[t] = seen[t]

(* An event can only gain states, and only a creation adds an event.          *)
HistoryGrows(s) ==
  /\ rows \subseteq rows'
  /\ \A e \in rows : visited[e] \subseteq visited'[e]
  /\ \A e \in rows' \ rows : pc[s] = "create" /\ job[s].event = e

(* A step of one session leaves the others with what they have.               *)
LEMMA FitKept ==
  ASSUME IInv, NEW s \in AllSessions, OthersStay(s), HistoryGrows(s), Fits(s)'
  PROVE  AllFit'
<1> SUFFICES ASSUME NEW t \in AllSessions, t # s PROVE Fits(t)'
  BY DEF AllFit
<1>1. Fits(t) /\ Fits(s)
  BY DEF IInv, AllFit
<1>2. pc'[t] = pc[t] /\ job'[t] = job[t] /\ seen'[t] = seen[t]
  BY DEF OthersStay
<1>3. pc[t] = "create" => job[t].event \notin rows'
  <2> SUFFICES ASSUME pc[t] = "create", job[t].event \in rows' PROVE FALSE
    OBVIOUS
  <2>1. job[t].event \notin rows /\ t \in Sessions
    BY <1>1 DEF Fits
  <2>2. pc[s] = "create" /\ job[s].event = job[t].event
    BY <2>1 DEF HistoryGrows
  <2>3. s \in Sessions
    BY <1>1, <2>2 DEF Fits
  <2> QED BY <2>1, <2>2, <2>3 DEF IInv, NumbersDiffer
<1> QED BY <1>1, <1>2, <1>3 DEF Fits, HistoryGrows

(* A session that closes keeps the sessions' part of the type invariant.      *)
LEMMA CloseFrame ==
  ASSUME SessionsOK, rows \subseteq rows', NEW s \in AllSessions, Close(s)
  PROVE  SessionsOK' /\ OthersStay(s) /\ pc'[s] = "idle"
BY DEF SessionsOK, Close, Goto, OthersStay, Labels, Seen, Nothing, EventStates

(* Sessions that close create nothing.                                        *)
LEMMA NumbersKept ==
  ASSUME IInv, NEW s \in AllSessions, OthersStay(s), pc'[s] # "create"
  PROVE  NumbersDiffer'
BY DEF IInv, NumbersDiffer, OthersStay, AllSessions

(* A session that closes and leaves the tables alone keeps the invariant.     *)
LEMMA RollbackKeeps ==
  ASSUME IInv, NEW s \in AllSessions, Rollback(s)
  PROVE  IInv'
<1>1. UNCHANGED <<tables, history>> /\ Close(s)
  BY DEF Rollback
<1>2. SessionsOK' /\ OthersStay(s) /\ pc'[s] = "idle"
  BY <1>1, CloseFrame DEF IInv, TypeOK, tables
<1>3. AllFit'
  <2>1. Fits(s)'
    BY <1>2 DEF Fits
  <2>2. HistoryGrows(s)
    BY <1>1 DEF HistoryGrows, tables, history
  <2> QED BY <1>2, <2>1, <2>2, FitKept
<1>4. NumbersDiffer'
  BY <1>2, NumbersKept
<1>5. TypeOK' /\ RowsVisited' /\ NoStateSkipped' /\ RowsAgree'
  BY <1>1, <1>2 DEF IInv, TypeOK, TablesOK, HistoryOK, RowsVisited, NoStateSkipped,
                    RowsAgree, tables, history
<1> QED BY <1>3, <1>4, <1>5 DEF IInv

(* A step that only moves one session on, with what it has read.              *)
LEMMA ReadKeeps ==
  ASSUME IInv, NEW s \in AllSessions, UNCHANGED <<tables, history>>, OthersStay(s),
         SessionsOK', Fits(s)', NumbersDiffer'
  PROVE  IInv'
<1>1. AllFit'
  <2>1. HistoryGrows(s)
    BY DEF HistoryGrows, tables, history
  <2> QED BY <2>1, FitKept
<1>2. TypeOK' /\ RowsVisited' /\ NoStateSkipped' /\ RowsAgree'
  BY DEF IInv, TypeOK, TablesOK, HistoryOK, RowsVisited, NoStateSkipped,
         RowsAgree, tables, history
<1> QED BY <1>1, <1>2 DEF IInv

-------------------------------------------------------------------------------
(* The steps *)

(* Before the first event nothing is under way.                               *)
LEMMA InitIInv == Init => IInv
<1> SUFFICES ASSUME Init PROVE IInv
  OBVIOUS
<1>1. \A s \in AllSessions : pc[s] = "idle"
  BY DEF Init
<1>2. TypeOK
  BY DEF Init, TypeOK, TablesOK, SessionsOK, HistoryOK, Labels, Seen, Nothing, EventStates
<1>3. AllFit /\ NumbersDiffer
  BY <1>1 DEF AllFit, Fits, NumbersDiffer, AllSessions
<1>4. RowsVisited /\ NoStateSkipped /\ RowsAgree
  BY DEF Init, RowsVisited, NoStateSkipped, RowsAgree
<1> QED BY <1>2, <1>3, <1>4 DEF IInv

(* "add event" takes a number nobody has.                                     *)
LEMMA CreateBeginKeeps ==
  ASSUME IInv, NEW s \in Sessions, NEW e \in EventIds, NEW role \in Roles,
         CreateBegin(s, e, role)
  PROVE  IInv'
<1> USE DEF AllSessions
<1>1. /\ pc[s] = "idle" /\ pc' = [pc EXCEPT ![s] = "create"]
      /\ job' = [job EXCEPT ![s] =
                   [action |-> "CREATE_EVENT", event |-> e, blind |-> FALSE]]
      /\ UNCHANGED <<tables, history>> /\ UNCHANGED seen
  BY DEF CreateBegin, Open, Goto
<1>2. e \notin Taken
  <2>1. \A d \in Taken : d < e
    BY DEF CreateBegin, IsNextNumber
  <2> QED BY <2>1 DEF EventIds
<1>3. OthersStay(s) /\ SessionsOK' /\ pc'[s] = "create" /\ job'[s].event = e /\ job'[s] \in Job
  BY <1>1 DEF IInv, TypeOK, SessionsOK, OthersStay, Labels, Job, tables
<1>4. Fits(s)'
  BY <1>1, <1>2, <1>3 DEF Fits, Taken, tables
<1>5. NumbersDiffer'
  BY <1>2, <1>3 DEF IInv, NumbersDiffer, OthersStay, Taken
<1> QED BY <1>1, <1>3, <1>4, <1>5, ReadKeeps

(* The new event starts in DRAFT, in both rows.                               *)
LEMMA CreateCommitKeeps ==
  ASSUME IInv, NEW s \in AllSessions, CreateCommit(s)
  PROVE  IInv'
<1>1. PICK e \in EventIds \ rows : e = job[s].event /\ pc[s] = "create"
  BY DEF CreateCommit, IInv, AllFit, Fits
<1>2. /\ rows' = rows \cup {e}
      /\ visited' = [visited EXCEPT ![e] = {"DRAFT"}]
      /\ UNCHANGED <<status, current, overdue, overlapped, blind>>
      /\ Close(s)
  BY <1>1 DEF CreateCommit
<1>3. SessionsOK' /\ OthersStay(s) /\ pc'[s] = "idle"
  BY <1>2, CloseFrame DEF IInv, TypeOK
<1>4. TypeOK'
  BY <1>1, <1>2, <1>3 DEF IInv, TypeOK, TablesOK, HistoryOK, EventStates
<1>5. visited'[e] = {"DRAFT"} /\ \A d \in rows : visited'[d] = visited[d]
  BY <1>1, <1>2 DEF IInv, TypeOK, TablesOK, HistoryOK
<1>6. AllFit'
  <2>1. Fits(s)'
    BY <1>3 DEF Fits
  <2>2. HistoryGrows(s)
    BY <1>1, <1>2, <1>5 DEF HistoryGrows
  <2> QED BY <1>3, <2>1, <2>2, FitKept
<1>7. NumbersDiffer'
  BY <1>3, NumbersKept
<1>8. RowsVisited' /\ RowsAgree'
  BY <1>1, <1>2, <1>5 DEF IInv, RowsVisited, RowsAgree
<1>9. NoStateSkipped'
  BY <1>1, <1>2, <1>5 DEF IInv, NoStateSkipped, Transitions, After, Before
<1> QED BY <1>4, <1>6, <1>7, <1>8, <1>9 DEF IInv

(* A command that passed the gate has loaded the state it starts from.        *)
LEMMA CommandKeeps ==
  ASSUME IInv, NEW s \in Sessions, NEW action \in Transitions, NEW e \in rows,
         NEW role \in Roles, Command(s, action, e, role)
  PROVE  IInv'
<1> USE DEF AllSessions
<1>1. /\ pc[s] = "idle" /\ pc' = [pc EXCEPT ![s] = "check"]
      /\ job' = [job EXCEPT ![s] = [action |-> action, event |-> e, blind |-> FALSE]]
      /\ UNCHANGED <<tables, history>>
      /\ seen' = [seen EXCEPT ![s].status = status[e]] /\ status[e] = Before[action]
  BY DEF Command, Open, Goto
<1>2. e \in EventIds /\ status[e] \in EventStates /\ status[e] \in visited[e]
  BY DEF IInv, TypeOK, TablesOK, RowsVisited
<1>3. /\ OthersStay(s) /\ SessionsOK' /\ pc'[s] = "check"
      /\ job'[s] \in Job /\ job'[s].action = action /\ job'[s].event = e
      /\ seen'[s].status = status[e]
  BY <1>1, <1>2 DEF IInv, TypeOK, SessionsOK, OthersStay, Labels, Job, Seen, tables
<1>4. Fits(s)'
  BY <1>1, <1>2, <1>3, LifecycleConstantsOK DEF Fits, tables, history
<1>5. NumbersDiffer'
  BY <1>3, NumbersKept
<1> QED BY <1>1, <1>3, <1>4, <1>5, ReadKeeps

(* A message that found no event is marked as such.                           *)
LEMMA CommandBlindKeeps ==
  ASSUME IInv, NEW s \in Sessions, NEW action \in Transitions, NEW role \in Roles,
         CommandBlind(s, action, role)
  PROVE  IInv'
<1> USE DEF AllSessions
<1>1. /\ pc[s] = "idle" /\ pc' = [pc EXCEPT ![s] = "lookup"]
      /\ job' = [job EXCEPT ![s] = [action |-> action, event |-> NoEvent, blind |-> TRUE]]
      /\ UNCHANGED <<tables, history>> /\ UNCHANGED seen
  BY DEF CommandBlind, Open, Goto
<1>2. /\ OthersStay(s) /\ SessionsOK' /\ pc'[s] = "lookup"
      /\ job'[s] \in Job /\ job'[s].action = action /\ job'[s].blind
  BY <1>1 DEF IInv, TypeOK, SessionsOK, OthersStay, Labels, Job, tables
<1>3. Fits(s)'
  BY <1>1, <1>2 DEF Fits
<1>4. NumbersDiffer'
  BY <1>2, NumbersKept
<1> QED BY <1>1, <1>2, <1>3, <1>4, ReadKeeps

(* The late look for an event loads a state that event is in.                 *)
LEMMA LookupKeeps ==
  ASSUME IInv, NEW s \in AllSessions, Lookup(s)
  PROVE  IInv'
<1>1. CASE Rollback(s)
  BY <1>1, RollbackKeeps
<1>2. CASE ~Rollback(s)
  <2>1. PICK e \in rows :
          /\ pc[s] = "lookup" /\ pc' = [pc EXCEPT ![s] = "check"]
          /\ job' = [job EXCEPT ![s].event = e]
          /\ seen' = [seen EXCEPT ![s].status = status[e]]
          /\ UNCHANGED <<tables, history>>
    BY <1>2 DEF Lookup, Goto
  <2>2. /\ s \in Sessions /\ job[s] \in Job /\ job[s].blind /\ job[s].action \in Transitions
    BY <2>1 DEF IInv, AllFit, Fits
  <2>3. e \in EventIds /\ status[e] \in EventStates /\ status[e] \in visited[e]
    BY DEF IInv, TypeOK, TablesOK, RowsVisited
  <2>4. /\ job'[s] \in Job /\ job'[s].event = e /\ job'[s].blind
        /\ job'[s].action = job[s].action
    BY <2>1, <2>2, <2>3 DEF IInv, TypeOK, SessionsOK, Job
  <2>5. /\ OthersStay(s) /\ SessionsOK' /\ pc'[s] = "check" /\ seen'[s].status = status[e]
    BY <2>1, <2>2, <2>3, <2>4
       DEF IInv, TypeOK, SessionsOK, OthersStay, Labels, Seen, tables
  <2>6. Fits(s)'
    BY <2>1, <2>2, <2>3, <2>4, <2>5, LifecycleConstantsOK DEF Fits, tables, history
  <2>7. NumbersDiffer'
    BY <2>5, NumbersKept
  <2> QED BY <2>1, <2>5, <2>6, <2>7, ReadKeeps
<1> QED BY <1>1, <1>2

(* The engine grants the job nothing but the closing of an event in EVENT_DAY. *)
LEMMA JobNeedsEventDay ==
  ASSUME NEW state \in EventStates, MayProceed(state, "CLOSE_EVENT", NoRole, TRUE)
  PROVE  state = "EVENT_DAY"
BY DEF MayProceed, NeedsOverride, Allows, STATE_RULES, MoneyActions, EventStates,
       NoRole, OVERRIDE_ROLES

(* The check loads the workflow row's state.                                  *)
LEMMA CheckKeeps ==
  ASSUME IInv, NEW s \in AllSessions, Check(s)
  PROVE  IInv'
<1>1. CASE Rollback(s)
  BY <1>1, RollbackKeeps
<1>2. CASE ~Rollback(s)
  <2>1. PICK e : e = job[s].event
    OBVIOUS
  <2>2. /\ pc[s] = "check" /\ pc' = [pc EXCEPT ![s] = "write"]
        /\ seen' = [seen EXCEPT ![s].current = current[e]]
        /\ UNCHANGED <<job, tables, history>>
        /\ \E role \in Performers(s) : MayProceed(current[e], job[s].action, role, TRUE)
    BY <1>2, <2>1 DEF Check, Goto
  <2>3. Fits(s) /\ e \in rows
    BY <2>1, <2>2 DEF IInv, AllFit, Fits
  <2>4. e \in EventIds /\ current[e] \in EventStates /\ current[e] \in visited[e]
    BY <2>3 DEF IInv, TypeOK, TablesOK, RowsVisited
  <2>5. s = Scheduler => current[e] = "EVENT_DAY"
    <3> SUFFICES ASSUME s = Scheduler PROVE current[e] = "EVENT_DAY"
      OBVIOUS
    <3>1. job[s].action = "CLOSE_EVENT" /\ MayProceed(current[e], "CLOSE_EVENT", NoRole, TRUE)
      BY <2>2, <2>3 DEF Fits, Performers
    <3> QED BY <2>4, <3>1, JobNeedsEventDay
  <2>6. /\ OthersStay(s) /\ SessionsOK' /\ pc'[s] = "write"
        /\ seen'[s].status = seen[s].status /\ seen'[s].current = current[e]
    BY <2>2, <2>3, <2>4 DEF IInv, TypeOK, SessionsOK, OthersStay, Labels, Seen, tables, Fits
  <2>7. Fits(s)'
    BY <2>1, <2>2, <2>3, <2>4, <2>5, <2>6 DEF Fits, tables, history
  <2>8. NumbersDiffer'
    BY <2>6, NumbersKept
  <2> QED BY <2>2, <2>6, <2>7, <2>8, ReadKeeps
<1> QED BY <1>1, <1>2

(* What a transition leaves in the rows and histories of its event.           *)
CommitEffect(s, e, state) ==
  /\ status' = [status EXCEPT ![e] = Flush(@, seen[s].status, state)]
  /\ current' = [current EXCEPT ![e] = Flush(@, seen[s].current, state)]
  /\ visited' = [visited EXCEPT ![e] = @ \cup {state}]
  /\ overlapped' = IF seen[s] = [status |-> status[e], current |-> current[e]]
                   THEN overlapped ELSE overlapped \cup {e}
  /\ blind' = IF job[s].blind THEN blind \cup {e} ELSE blind
  /\ UNCHANGED <<rows, overdue>>

(* The state a gated transition leads from is one its event has been in.      *)
LEMMA CommitFrom ==
  ASSUME IInv, NEW s \in AllSessions, Commit(s)
  PROVE  /\ pc[s] = "write" /\ job[s].action \in Transitions /\ job[s].event \in rows
         /\ CommitEffect(s, job[s].event, After[job[s].action])
         /\ Close(s)
         /\ job[s].blind \/ Before[job[s].action] \in visited[job[s].event]
<1>1. Fits(s) /\ pc[s] = "write"
  BY DEF IInv, AllFit, Commit
<1>2. s \in Sessions \/ s = Scheduler
  BY DEF AllSessions
<1>3. job[s].blind \/ Before[job[s].action] \in visited[job[s].event]
  BY <1>1, <1>2 DEF Fits, Before
<1> QED BY <1>1, <1>3 DEF Fits, Commit, CommitEffect

(* Overlapping or not, a transition's commit keeps the invariant.             *)
LEMMA CommitKeeps ==
  ASSUME IInv, NEW s \in AllSessions, Commit(s)
  PROVE  IInv'
<1>1. PICK e \in rows, a \in Transitions :
        /\ e = job[s].event /\ a = job[s].action
        /\ CommitEffect(s, e, After[a]) /\ Close(s)
        /\ job[s].blind \/ Before[a] \in visited[e]
  BY CommitFrom
<1> DEFINE state == After[a]
<1>2. state \in EventStates /\ e \in EventIds
  BY DEF Transitions, After, EventStates, IInv, TypeOK, TablesOK
<1>3. SessionsOK' /\ OthersStay(s) /\ pc'[s] = "idle"
  <2>1. rows' = rows
    BY <1>1 DEF CommitEffect
  <2> QED BY <1>1, <2>1, CloseFrame DEF IInv, TypeOK
<1>4. /\ status'[e] \in {status[e], state} /\ current'[e] \in {current[e], state}
      /\ visited'[e] = visited[e] \cup {state}
      /\ \A d \in EventIds \ {e} : /\ status'[d] = status[d] /\ current'[d] = current[d]
                                  /\ visited'[d] = visited[d]
  BY <1>1, <1>2 DEF CommitEffect, Flush, IInv, TypeOK, TablesOK, HistoryOK
<1>5. TypeOK'
  <2>1. TablesOK'
    BY <1>1, <1>2 DEF CommitEffect, Flush, IInv, TypeOK, TablesOK
  <2>2. HistoryOK'
    BY <1>1, <1>2 DEF CommitEffect, IInv, TypeOK, HistoryOK
  <2> QED BY <1>3, <2>1, <2>2 DEF TypeOK
<1>6. AllFit'
  <2>1. Fits(s)'
    BY <1>3 DEF Fits
  <2>2. HistoryGrows(s)
    BY <1>1, <1>4 DEF HistoryGrows, CommitEffect, IInv, TypeOK, TablesOK
  <2> QED BY <1>3, <2>1, <2>2, FitKept
<1>7. NumbersDiffer'
  BY <1>3, NumbersKept
<1>8. RowsVisited'
  BY <1>1, <1>4 DEF CommitEffect, IInv, TypeOK, TablesOK, RowsVisited
<1>9. NoStateSkipped'
  <2> SUFFICES ASSUME NEW d \in rows' \ blind', NEW b \in Transitions,
                      After[b] \in visited'[d]
               PROVE  Before[b] \in visited'[d]
    BY DEF NoStateSkipped
  <2>1. d \in rows \ blind /\ d \in EventIds
    BY <1>1 DEF CommitEffect, IInv, TypeOK, TablesOK
  <2>2. CASE d # e
    BY <1>4, <2>1, <2>2 DEF IInv, NoStateSkipped
  <2>3. CASE d = e /\ b = a
    <3>1. ~job[s].blind
      BY <1>1, <2>3 DEF CommitEffect
    <3> QED BY <1>1, <1>4, <2>3, <3>1
  <2>4. CASE d = e /\ b # a
    <3>1. After[b] # After[a]
      BY <2>4 DEF Transitions, After
    <3> QED BY <1>4, <2>1, <2>4, <3>1 DEF IInv, NoStateSkipped
  <2> QED BY <2>2, <2>3, <2>4
<1>10. RowsAgree'
  <2> SUFFICES ASSUME NEW d \in rows' \ overlapped' PROVE status'[d] = current'[d]
    BY DEF RowsAgree
  <2>1. d \in rows \ overlapped /\ d \in EventIds
    BY <1>1 DEF CommitEffect, IInv, TypeOK, TablesOK
  <2>2. CASE d # e
    BY <1>4, <2>1, <2>2 DEF IInv, RowsAgree
  <2>3. CASE d = e
    <3>1. seen[s] = [status |-> status[e], current |-> current[e]]
      BY <1>1, <2>3 DEF CommitEffect
    <3>2. status'[e] = state /\ current'[e] = state
      BY <1>1, <1>2, <3>1 DEF CommitEffect, Flush, IInv, TypeOK, TablesOK
    <3> QED BY <2>3, <3>2
  <2> QED BY <2>2, <2>3
<1> QED BY <1>5, <1>6, <1>7, <1>8, <1>9, <1>10 DEF IInv

(* The job's look at an overdue event, and its second one.                    *)
LEMMA AutoKeeps ==
  ASSUME IInv, AutoReload \/ \E e \in EventIds : AutoClose(e)
  PROVE  IInv'
<1> USE DEF AllSessions
<1>1. CASE AutoReload
  <2>1. PICK e \in rows :
          /\ e = job[Scheduler].event /\ pc[Scheduler] = "check"
          /\ seen' = [seen EXCEPT ![Scheduler].status = status[e]]
          /\ UNCHANGED <<tables, pc, job, history>>
    BY <1>1 DEF AutoReload, IInv, AllFit, Fits
  <2>2. status[e] \in EventStates /\ status[e] \in visited[e]
    BY DEF IInv, TypeOK, TablesOK, RowsVisited
  <2>3. /\ OthersStay(Scheduler) /\ SessionsOK' /\ seen'[Scheduler].status = status[e]
        /\ pc'[Scheduler] = "check" /\ job' = job
    BY <2>1, <2>2 DEF IInv, TypeOK, SessionsOK, OthersStay, Seen, tables
  <2>4. Fits(Scheduler)
    BY DEF IInv, AllFit
  <2>5. Fits(Scheduler)'
    BY <2>1, <2>2, <2>3, <2>4, LifecycleConstantsOK DEF Fits, tables, history
  <2>6. NumbersDiffer'
    BY <2>3, NumbersKept
  <2> QED BY <2>1, <2>3, <2>5, <2>6, ReadKeeps
<1>2. ASSUME NEW e \in EventIds, AutoClose(e) PROVE IInv'
  <2>1. /\ pc[Scheduler] = "idle" /\ pc' = [pc EXCEPT ![Scheduler] = "check"]
        /\ job' = [job EXCEPT ![Scheduler] =
                     [action |-> "CLOSE_EVENT", event |-> e, blind |-> FALSE]]
        /\ seen' = [seen EXCEPT ![Scheduler].status = status[e]]
        /\ UNCHANGED <<tables, history>> /\ e \in rows
    BY <1>2 DEF AutoClose, Open, Goto
  <2>2. status[e] \in EventStates /\ status[e] \in visited[e]
    BY <2>1 DEF IInv, TypeOK, TablesOK, RowsVisited
  <2>3. /\ OthersStay(Scheduler) /\ SessionsOK' /\ pc'[Scheduler] = "check"
        /\ job'[Scheduler] \in Job /\ job'[Scheduler].action = "CLOSE_EVENT"
        /\ job'[Scheduler].event = e /\ ~job'[Scheduler].blind
        /\ seen'[Scheduler].status = status[e]
    BY <2>1, <2>2
       DEF IInv, TypeOK, SessionsOK, OthersStay, Labels, Job, Seen, tables, Transitions
  <2>4. Fits(Scheduler)'
    BY <2>1, <2>2, <2>3, LifecycleConstantsOK DEF Fits, tables, history, Transitions
  <2>5. NumbersDiffer'
    BY <2>3, NumbersKept
  <2> QED BY <2>1, <2>3, <2>4, <2>5, ReadKeeps
<1> QED BY <1>1, <1>2

(* Every step keeps the invariant.                                            *)
LEMMA NextIInv == IInv /\ [Next]_vars => IInv'
<1> SUFFICES ASSUME IInv, [Next]_vars PROVE IInv'
  OBVIOUS
<1>1. ASSUME NEW s \in Sessions, Begin(s) PROVE IInv'
  BY <1>1, CreateBeginKeeps, CommandKeeps, CommandBlindKeeps DEF Begin
<1>2. ASSUME NEW s \in AllSessions, Run(s) \/ Abort(s) PROVE IInv'
  BY <1>2, CreateCommitKeeps, LookupKeeps, CheckKeeps, CommitKeeps, RollbackKeeps
     DEF Run, Abort
<1>3. ASSUME NEW e \in EventIds, TimePasses(e) PROVE IInv'
  BY <1>3 DEF TimePasses, history, IInv, TypeOK, TablesOK, SessionsOK, HistoryOK, AllFit,
              Fits, NumbersDiffer, RowsVisited, NoStateSkipped, RowsAgree
<1>4. CASE UNCHANGED vars
  BY <1>4 DEF vars, IInv, TypeOK, TablesOK, SessionsOK, HistoryOK, AllFit,
              Fits, NumbersDiffer, RowsVisited, NoStateSkipped, RowsAgree
<1> QED BY <1>1, <1>2, <1>3, <1>4, AutoKeeps DEF Next

(* The inductive invariant of the event lifecycle.                            *)
THEOREM LifecycleInvariance == Spec => []IInv
BY InitIInv, NextIInv, PTL DEF Spec

(* Rows and session copies have their columns' values.                        *)
THEOREM LifecycleTypeCorrect == Spec => []TypeOK
<1>1. IInv => TypeOK
  BY DEF IInv
<1> QED BY <1>1, LifecycleInvariance, PTL

(* No interleaving of commands and of the auto-close job makes an event skip  *)
(* a state.                                                                   *)
THEOREM NothingSkipped == Spec => []NoStateSkipped
<1>1. IInv => NoStateSkipped
  BY DEF IInv
<1> QED BY <1>1, LifecycleInvariance, PTL

(* Only an overlapping transition can part the two rows of an event.          *)
THEOREM RowsCorrect == Spec => []RowsAgree
<1>1. IInv => RowsAgree
  BY DEF IInv
<1> QED BY <1>1, LifecycleInvariance, PTL

(* Without an overlap an event moves in order, whatever is overridden.        *)
THEOREM OrderCorrect == Spec => MovesInOrderAlone
<1> DEFINE Moved(e) ==
      status'[e] # status[e] =>
        \E action \in Transitions : status[e] = Before[action] /\ status'[e] = After[action]
<1>1. IInv /\ [Next]_vars => \A e \in rows \ (overlapped' \cup blind') : Moved(e)
  <2> SUFFICES ASSUME IInv, Next, NEW e \in rows \ (overlapped' \cup blind'),
                      status'[e] # status[e]
               PROVE  \E action \in Transitions :
                        status[e] = Before[action] /\ status'[e] = After[action]
    BY DEF vars
  <2>1. PICK s \in AllSessions : Commit(s)
    BY DEF Next, Begin, Run, Abort, CreateBegin, CreateCommit, Command, CommandBlind, Lookup,
           Check, TimePasses, AutoClose, AutoReload, Open, Rollback, tables
  <2>2. PICK a \in Transitions :
          /\ a = job[s].action /\ pc[s] = "write"
          /\ CommitEffect(s, job[s].event, After[a])
    BY <2>1, CommitFrom
  <2>3. job[s].event = e /\ e \in EventIds
    BY <2>2 DEF CommitEffect, IInv, TypeOK, TablesOK
  <2>4. /\ seen[s] = [status |-> status[e], current |-> current[e]]
        /\ ~job[s].blind /\ e \notin overlapped
    BY <2>2, <2>3 DEF CommitEffect
  <2>5. status'[e] = After[a]
    BY <2>2, <2>3, <2>4 DEF CommitEffect, Flush, IInv, TypeOK, TablesOK
  <2>6. Fits(s)
    BY DEF IInv, AllFit
  <2>7. CASE s \in Sessions
    BY <2>2, <2>4, <2>5, <2>6, <2>7 DEF Fits
  <2>8. CASE s = Scheduler
    <3>1. a = "CLOSE_EVENT" /\ current[e] = "EVENT_DAY"
      BY <2>2, <2>4, <2>6, <2>8 DEF Fits
    <3>2. status[e] = "EVENT_DAY"
      BY <2>4, <3>1 DEF IInv, RowsAgree
    <3> QED BY <2>5, <3>1, <3>2 DEF Before
  <2> QED BY <2>7, <2>8 DEF AllSessions
<1> QED BY <1>1, LifecycleInvariance, PTL DEF Spec, MovesInOrderAlone
===============================================================================
