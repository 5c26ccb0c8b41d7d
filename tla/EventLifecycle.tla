---------------------------- MODULE EventLifecycle ----------------------------
(***************************************************************************)
(* The events of a society and their states, as EventService moves them    *)
(* for chat commands and for the auto-close job.  The state of an event is *)
(* kept twice: in events.status, which gates chat commands, and in         *)
(* workflow_state.current_state, which the workflow engine decides by.  A  *)
(* handler loads the event when the message arrives and the workflow row   *)
(* when the service runs, and its commit writes of each only what differs  *)
(* from what it loaded.  No row is locked.                                 *)
(***************************************************************************)
EXTENDS Integers, FiniteSets, SocietyRules

CONSTANTS Sessions,   \* database sessions of chat messages
          Scheduler,  \* the database session of the auto-close job
          MaxEvents   \* bound: events the society can get

ASSUME LifecycleConstantsOK ==
  /\ Scheduler \notin Sessions
  /\ MaxEvents \in Nat \ {0}

VARIABLES
  rows,        \* the committed events, numbered by created_at
  status,      \* status[e]: events.status
  current,     \* current[e]: workflow_state.current_state
  overdue,     \* events whose date is min_age_hours ago
  pc,          \* pc[s]: where session s is
  job,         \* job[s]: what session s was asked to do
  seen,        \* seen[s]: both states of the event as session s loaded them
  visited,     \* history: states event e has had, in either row
  overlapped,  \* history: events changed from a copy that was out of date
  blind        \* history: events moved for a message older than any event

tables == <<rows, status, current, overdue>>
history == <<visited, overlapped, blind>>
vars == <<rows, status, current, overdue, pc, job, seen,
          visited, overlapped, blind>>

-------------------------------------------------------------------------------
(* Commands, rows and session states *)

EventIds == 1..MaxEvents

AllSessions == Sessions \cup {Scheduler}

Transitions == {"ACTIVATE_EVENT", "LOCK_PASSES", "START_EVENT", "CLOSE_EVENT"}

(* The state a transition's command is gated by, and the one it leads to.     *)
Before == [ACTIVATE_EVENT |-> "DRAFT", LOCK_PASSES |-> "ACTIVE",
           START_EVENT |-> "LOCKED", CLOSE_EVENT |-> "EVENT_DAY"]
After == [ACTIVATE_EVENT |-> "ACTIVE", LOCK_PASSES |-> "LOCKED",
          START_EVENT |-> "EVENT_DAY", CLOSE_EVENT |-> "CLOSED"]

(* Roles the handler accepts for each command. *)
EventRoles == {"chairman", "secretary"}
CommandRoles ==
  [a \in Transitions |-> IF a = "CLOSE_EVENT" THEN EventRoles \cup {"treasurer"}
                         ELSE EventRoles]

(* "activate event" and "close event" look for an event themselves when the   *)
(* message has found none.                                                    *)
LooksAgain == {"ACTIVATE_EVENT", "CLOSE_EVENT"}

NoEvent == 0

(* blind: when the message came the society had no event. *)
Job == [action : Transitions \cup {"CREATE_EVENT"}, event : EventIds \cup {NoEvent},
        blind : BOOLEAN]
NoJob == [action |-> "NONE"]

Seen == [status : EventStates, current : EventStates]
Nothing == [status |-> "DRAFT", current |-> "DRAFT"]

Labels == {"idle", "create", "lookup", "check", "write"}

(* created_at is the time a transaction began, so the numbers of creations    *)
(* under way are taken, and the latest event is the highest committed one.    *)
Taken == rows \cup {job[s].event : s \in {t \in Sessions : pc[t] = "create"}}

IsLatest(e) == e \in rows /\ \A d \in rows : d <= e

IsNextNumber(e) == (\A d \in Taken : d < e) /\ e - 1 \in Taken \cup {NoEvent}

Goto(s, label) == pc' = [pc EXCEPT ![s] = label]

Open(s, label, action, e, unseen) ==
  /\ pc[s] = "idle"
  /\ Goto(s, label)
  /\ job' = [job EXCEPT ![s] = [action |-> action, event |-> e, blind |-> unseen]]
  /\ UNCHANGED <<tables, history>>

Close(s) ==
  /\ Goto(s, "idle")
  /\ job' = [job EXCEPT ![s] = NoJob]
  /\ seen' = [seen EXCEPT ![s] = Nothing]

Rollback(s) == Close(s) /\ UNCHANGED <<tables, history>>

Flush(column, loaded, new) == IF new = loaded THEN column ELSE new

Init ==
  /\ rows = {}
  /\ status = [e \in EventIds |-> "DRAFT"]
  /\ current = [e \in EventIds |-> "DRAFT"]
  /\ overdue = {}
  /\ pc = [s \in AllSessions |-> "idle"]
  /\ job = [s \in AllSessions |-> NoJob]
  /\ seen = [s \in AllSessions |-> Nothing]
  /\ visited = [e \in EventIds |-> {}]
  /\ overlapped = {}
  /\ blind = {}

-------------------------------------------------------------------------------
(* "add event": EventService.create_event.  The workflow engine is not asked. *)

CreateBegin(s, e, role) ==
  /\ role \in EventRoles
  /\ rows = {} \/ \E d \in rows : IsLatest(d) /\ status[d] = "DRAFT"
  /\ IsNextNumber(e)
  /\ Open(s, "create", "CREATE_EVENT", e, FALSE)
  /\ UNCHANGED seen

CreateCommit(s) ==
  /\ pc[s] = "create"
  /\ rows' = rows \cup {job[s].event}
  /\ visited' = [visited EXCEPT ![job[s].event] = {"DRAFT"}]
  /\ Close(s)
  /\ UNCHANGED <<status, current, overdue, overlapped, blind>>

-------------------------------------------------------------------------------
(* The transitions.  A message loads the latest event, and its status as      *)
(* loaded decides whether the command may run.                                *)

(* Faulty variant: the state of the event does not gate the command. *)
CommandUngated(s, action, e, role) ==
  /\ role \in CommandRoles[action]
  /\ IsLatest(e)
  /\ Open(s, "check", action, e, FALSE)
  /\ seen' = [seen EXCEPT ![s].status = status[e]]

Command(s, action, e, role) ==
  /\ role \in CommandRoles[action]
  /\ IsLatest(e)
  /\ status[e] = Before[action]
  /\ Open(s, "check", action, e, FALSE)
  /\ seen' = [seen EXCEPT ![s].status = status[e]]

(* Without an event nothing gates the command. *)
CommandBlind(s, action, role) ==
  /\ role \in CommandRoles[action]
  /\ rows = {}
  /\ action \in LooksAgain
  /\ Open(s, "lookup", action, NoEvent, TRUE)
  /\ UNCHANGED seen

(* Faulty variant: finding no event does not end the command. *)
LookupNone(s) ==
  /\ pc[s] = "lookup"
  /\ rows = {}
  /\ Goto(s, "check")
  /\ UNCHANGED <<job, seen, tables, history>>

Lookup(s) ==
  /\ pc[s] = "lookup"
  /\ \/ rows = {} /\ Rollback(s)
     \/ \E e \in rows :
          /\ IsLatest(e)
          /\ Goto(s, "check")
          /\ job' = [job EXCEPT ![s].event = e]
          /\ seen' = [seen EXCEPT ![s].status = status[e]]
          /\ UNCHANGED <<tables, history>>

(* Whom the engine takes for the performer: the job has none. *)
Performers(s) ==
  IF s = Scheduler THEN {NoRole} ELSE CommandRoles[job[s].action]

(* Faulty variant: an action without a performer is always refused. *)
CheckNeedsPerformer(s) ==
  /\ pc[s] = "check"
  /\ \/ /\ s # Scheduler
        /\ Goto(s, "write")
        /\ seen' = [seen EXCEPT ![s].current = current[job[s].event]]
        /\ UNCHANGED <<job, tables, history>>
     \/ s = Scheduler /\ Rollback(s)

(* Faulty variant: what needs no performer needs no permission either. *)
CheckTrustsJob(s) ==
  /\ pc[s] = "check"
  /\ Goto(s, "write")
  /\ seen' = [seen EXCEPT ![s].current = current[job[s].event]]
  /\ UNCHANGED <<job, tables, history>>

(* The workflow row is loaded, and the engine decides on that copy: by        *)
(* override where the state forbids the action, a reason being always given.  *)
Check(s) ==
  LET state == current[job[s].event]
      granted == \E role \in Performers(s) :
                   MayProceed(state, job[s].action, role, TRUE)
  IN
  /\ pc[s] = "check"
  /\ \/ /\ granted
        /\ Goto(s, "write")
        /\ seen' = [seen EXCEPT ![s].current = state]
        /\ UNCHANGED <<job, tables, history>>
     \/ ~granted /\ Rollback(s)

(* Faulty variant: the event's status is left as it is. *)
CommitHalf(s) ==
  LET e == job[s].event
      state == After[job[s].action]
      fresh == seen[s] = [status |-> status[e], current |-> current[e]]
  IN
  /\ pc[s] = "write"
  /\ current' = [current EXCEPT ![e] = Flush(@, seen[s].current, state)]
  /\ visited' = [visited EXCEPT ![e] = @ \cup {state}]
  /\ overlapped' = IF fresh THEN overlapped ELSE overlapped \cup {e}
  /\ blind' = IF job[s].blind THEN blind \cup {e} ELSE blind
  /\ Close(s)
  /\ UNCHANGED <<rows, overdue, status>>

Commit(s) ==
  LET e == job[s].event
      state == After[job[s].action]
      fresh == seen[s] = [status |-> status[e], current |-> current[e]]
  IN
  /\ pc[s] = "write"
  /\ status' = [status EXCEPT ![e] = Flush(@, seen[s].status, state)]
  /\ current' = [current EXCEPT ![e] = Flush(@, seen[s].current, state)]
  /\ visited' = [visited EXCEPT ![e] = @ \cup {state}]
  /\ overlapped' = IF fresh THEN overlapped ELSE overlapped \cup {e}
  /\ blind' = IF job[s].blind THEN blind \cup {e} ELSE blind
  /\ Close(s)
  /\ UNCHANGED <<rows, overdue>>

-------------------------------------------------------------------------------
(* The auto-close job: run_event_auto_close_job looks for overdue events that *)
(* neither row shows as closed, and closes them one by one.                   *)

TimePasses(e) ==
  /\ e \in rows
  /\ overdue' = overdue \cup {e}
  /\ UNCHANGED <<rows, status, current, pc, job, seen, history>>

AutoClose(e) ==
  /\ e \in rows \cap overdue
  /\ status[e] # "CLOSED"
  /\ current[e] # "CLOSED"
  /\ Open(Scheduler, "check", "CLOSE_EVENT", e, FALSE)
  /\ seen' = [seen EXCEPT ![Scheduler].status = status[e]]

(* An event that waits behind another is loaded again after its commit. *)
AutoReload ==
  /\ pc[Scheduler] = "check"
  /\ seen' = [seen EXCEPT ![Scheduler].status = status[job[Scheduler].event]]
  /\ UNCHANGED <<tables, pc, job, history>>

-------------------------------------------------------------------------------
(* A session fails or its process is killed. *)
Abort(s) == pc[s] # "idle" /\ Rollback(s)

Begin(s) ==
  \/ \E e \in EventIds, role \in Roles : CreateBegin(s, e, role)
  \/ \E action \in Transitions, role \in Roles :
       \/ \E e \in rows : Command(s, action, e, role)
       \/ CommandBlind(s, action, role)

Run(s) == CreateCommit(s) \/ Lookup(s) \/ Check(s) \/ Commit(s)

Next ==
  \/ \E s \in Sessions : Begin(s)
  \/ \E s \in AllSessions : Run(s) \/ Abort(s)
  \/ \E e \in EventIds : TimePasses(e) \/ AutoClose(e)
  \/ AutoReload

Spec == Init /\ [][Next]_vars

Closing(e) == pc[Scheduler] # "idle" /\ job[Scheduler].event = e

(* A handler's thread keeps running.  The job runs every day and looks at     *)
(* every event that qualifies; neither it nor the database fails every time   *)
(* it gets to the same event.                                                 *)
FairSpec == /\ Spec
            /\ \A s \in Sessions : WF_vars(Run(s))
            /\ \A e \in EventIds :
                 /\ SF_vars(AutoClose(e))
                 /\ SF_vars(Closing(e) /\ Check(Scheduler))
                 /\ SF_vars(Closing(e) /\ Commit(Scheduler))

-------------------------------------------------------------------------------
(* Properties *)

TablesOK ==
  /\ rows \subseteq EventIds
  /\ status \in [EventIds -> EventStates]
  /\ current \in [EventIds -> EventStates]
  /\ overdue \subseteq rows

SessionsOK ==
  /\ pc \in [AllSessions -> Labels]
  /\ job \in [AllSessions -> Job \cup {NoJob}]
  /\ seen \in [AllSessions -> Seen]
  /\ \A s \in AllSessions :
       pc[s] \in {"check", "write"} => job[s].action \in Transitions /\ job[s].event \in rows

HistoryOK ==
  /\ visited \in [EventIds -> SUBSET EventStates]
  /\ overlapped \subseteq rows
  /\ blind \subseteq rows

(* Rows and session copies have their columns' values; a transition is always *)
(* under way on a committed event.                                            *)
TypeOK == TablesOK /\ SessionsOK /\ HistoryOK

(* Whatever transitions overlap, an event has been through all earlier states *)
(* before either of its rows says the next: a stale commit may take it back,  *)
(* none takes it past a state, unless its command was sent before the society *)
(* had an event to gate it by.                                                *)
NoStateSkipped ==
  \A e \in rows \ blind : \A action \in Transitions :
    After[action] \in visited[e] => Before[action] \in visited[e]

(* The rows that hold the state of an event agree as long as no transition of *)
(* it was committed from an outdated copy.                                    *)
RowsAgree == \A e \in rows \ overlapped : status[e] = current[e]

(* As long as no transition of an event was committed from an outdated copy,  *)
(* the event moves along the documented progression, one state at a time, for *)
(* all the overrides the engine grants: the gate on the status and the rule   *)
(* on the workflow row see the same state.                                    *)
MovesInOrderAlone ==
  [][\A e \in rows \ (overlapped' \cup blind') :
       status'[e] # status[e] =>
         \E action \in Transitions :
           status[e] = Before[action] /\ status'[e] = After[action]]_vars

(* An overdue event in EVENT_DAY is closed by the job in the end, unless an   *)
(* overlapping transition, or a command sent before there was an event, parts *)
(* its rows or takes it back.                                                 *)
OverdueClosesAlone ==
  \A e \in EventIds :
    (e \in overdue /\ status[e] = "EVENT_DAY" /\ current[e] = "EVENT_DAY")
      ~> (status[e] = "CLOSED" \/ e \in overlapped \cup blind)
===============================================================================
