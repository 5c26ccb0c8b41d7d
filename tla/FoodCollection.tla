---------------------------- MODULE FoodCollection ----------------------------
(***************************************************************************)
(* The food counter of one event: booked plates, tokens, the counter row   *)
(* and plates served, as FoodCollectionService keeps them under READ       *)
(* COMMITTED while several committee members serve at once.  An action is  *)
(* one read, one lock or one commit of a session; an exception or a killed *)
(* process rolls back what the session has not committed.                  *)
(***************************************************************************)
EXTENDS Integers, FiniteSets, SocietyRules

CONSTANTS Sessions,   \* database sessions that may be open at once: the pool's
          Flats,      \* flats of the society
          MaxPlates,  \* bound: plates a pass can be booked for
          Counts,     \* bound: the counts that occur
          Earlier,    \* Earlier[f]: no-token plates of earlier events
          Reached     \* bound: the states the event moves between

ASSUME FoodConstantsOK ==
  /\ IsFiniteSet(Sessions)
  /\ MaxPlates \in Nat \ {0}
  /\ Counts \subseteq 1..MaxPlates
  /\ Earlier \in [Flats -> Nat]
  /\ Reached \subseteq EventStates

VARIABLES
  state,    \* WorkflowState.current_state of the event
  plates,   \* plates[f]: counts of the flat's food pass, 0 without a pass
  tokens,   \* rows of event_food_tokens, numbered within their flat
  served,   \* the tokens whose served_at is set
  counter,  \* the event's row of event_food_counters
  audits,   \* audits[f]: FLAT_LOOKUP_NO_TOKEN rows of the flat, of any event
  pc,       \* pc[s]: where session s is
  job,      \* job[s]: what session s was asked to do
  seen,     \* seen[s]: what session s has read
  handed    \* history: handed[f]: plates the flat was told it was served

tables == <<state, plates, tokens, served, counter, audits>>
vars == <<state, plates, tokens, served, counter, audits, pc, job, seen, handed>>

-------------------------------------------------------------------------------
(* Rows and session states *)

TokenIds == Flats \X (1..MaxPlates)

Counter == [exists : BOOLEAN, isOpen : BOOLEAN, expired : BOOLEAN]
NoCounter == [exists |-> FALSE, isOpen |-> FALSE, expired |-> FALSE]

(* number is the token to serve, 0 as long as a lookup has none. *)
TokenJob == [kind : {"TOKEN"}, flat : Flats, number : 1..MaxPlates]
LookupJob == [kind : {"FLAT"}, flat : Flats, number : 0..MaxPlates]
BookJob == [kind : {"BOOK"}, flat : Flats, number : 1..MaxPlates]
EventJob == [kind : {"GENERATE", "OPEN"}]
Job == TokenJob \cup LookupJob \cup BookJob \cup EventJob
NoJob == [kind |-> "NONE"]

(* superseded: the counter was opened again since the session loaded it. *)
Seen == [counter : Counter, superseded : BOOLEAN, plan : [Flats -> 0..MaxPlates],
         entitled : 0..MaxPlates, eaten : Nat]
Nothing == [counter |-> NoCounter, superseded |-> FALSE, plan |-> [f \in Flats |-> 0],
            entitled |-> 0, eaten |-> 0]

HoldsEvent == {"genLocked", "genCounted", "genPlanned"}

Labels == HoldsEvent \cup
          {"idle", "genLock", "openRead", "openWrite", "serveCounter", "closeWrite",
           "serveToken", "serveWrite", "flatToken", "flatEntitled", "flatServed",
           "flatAudits", "flatWrite", "bookWrite"}

(* SELECT ... FOR UPDATE of the event: nobody may change the event's row, nor *)
(* insert a row that refers to it.                                            *)
EventLocked == \E s \in Sessions : pc[s] \in HoldsEvent

TokensOf(f) == {t \in tokens : t[1] = f}

Unserved(f) == TokensOf(f) \ served

ServedOf(f) == TokensOf(f) \cap served

Token(s) == <<job[s].flat, job[s].number>>

Goto(s, label) == pc' = [pc EXCEPT ![s] = label]

Open(s, label, work) ==
  /\ pc[s] = "idle"
  /\ Goto(s, label)
  /\ job' = [job EXCEPT ![s] = work]
  /\ UNCHANGED <<tables, seen, handed>>

Continue(s, label) == Goto(s, label) /\ UNCHANGED <<tables, job, handed>>

Close(s) ==
  /\ Goto(s, "idle")
  /\ job' = [job EXCEPT ![s] = NoJob]
  /\ seen' = [seen EXCEPT ![s] = Nothing]

Rollback(s) == Close(s) /\ UNCHANGED <<tables, handed>>

Init ==
  /\ state = "ACTIVE"
  /\ plates = [f \in Flats |-> 0]
  /\ tokens = {}
  /\ served = {}
  /\ counter = NoCounter
  /\ audits = Earlier
  /\ pc = [s \in Sessions |-> "idle"]
  /\ job = [s \in Sessions |-> NoJob]
  /\ seen = [s \in Sessions |-> Nothing]
  /\ handed = [f \in Flats |-> 0]

-------------------------------------------------------------------------------
(* The surroundings: the event changes state, time passes the counter's       *)
(* closing time, a pass is booked or changed (add_or_update_pass checks the   *)
(* state first and commits later; an insert refers to the event).             *)

Transition ==
  /\ ~EventLocked
  /\ state' \in Reached
  /\ UNCHANGED <<plates, tokens, served, counter, audits, pc, job, seen, handed>>

Expire ==
  /\ counter.exists
  /\ counter' = [counter EXCEPT !.expired = TRUE]
  /\ UNCHANGED <<state, plates, tokens, served, audits, pc, job, seen, handed>>

BookBegin(s, f, n, role) ==
  /\ MayProceed(state, "ADD_PASS", role, role # NoRole)
  /\ Open(s, "bookWrite", [kind |-> "BOOK", flat |-> f, number |-> n])

BookWrite(s) ==
  /\ pc[s] = "bookWrite"
  /\ plates[job[s].flat] = 0 => ~EventLocked
  /\ plates' = [plates EXCEPT ![job[s].flat] = job[s].number]
  /\ Close(s)
  /\ UNCHANGED <<state, tokens, served, counter, audits, handed>>

-------------------------------------------------------------------------------
(* FoodCollectionService.generate_tokens_for_event: the state is checked      *)
(* before the event's row is locked, everything else under the lock.          *)

(* The check of a food operation: every committee role may ask for one. *)
FoodAllowed(action, role, reasonGiven) ==
  role \in Roles /\ MayProceed(state, action, role, reasonGiven)

GenerateBegin(s, role, reasonGiven) ==
  /\ FoodAllowed("GENERATE_FOOD_TOKENS", role, reasonGiven)
  /\ Open(s, "genLock", [kind |-> "GENERATE"])

(* Faulty variant: the event is read without FOR UPDATE. *)
GenerateUnlocked(s) ==
  /\ pc[s] = "genLock"
  /\ Continue(s, "genLocked")
  /\ UNCHANGED seen
GenerateLock(s) ==
  /\ pc[s] = "genLock"
  /\ ~EventLocked
  /\ Continue(s, "genLocked")
  /\ UNCHANGED seen

(* Faulty variant: finding tokens leaves the transaction, and its lock, open. *)
GenerateCountLeaks(s) ==
  /\ pc[s] = "genLocked"
  /\ tokens = {}
  /\ Continue(s, "genCounted")
  /\ UNCHANGED seen

GenerateCount(s) ==
  /\ pc[s] = "genLocked"
  /\ \/ tokens = {} /\ Continue(s, "genCounted") /\ UNCHANGED seen
     \/ tokens # {} /\ Rollback(s)

GeneratePlan(s) ==
  /\ pc[s] = "genCounted"
  /\ Continue(s, "genPlanned")
  /\ seen' = [seen EXCEPT ![s].plan = plates]

(* One new token for every plate of the passes as they were read. *)
NewTokens(plan) ==
  UNION {{<<f, Cardinality(TokensOf(f)) + n>> : n \in 1..plan[f]} : f \in Flats}

GenerateCommit(s) ==
  /\ pc[s] = "genPlanned"
  /\ tokens' = tokens \cup NewTokens(seen[s].plan)
  /\ Close(s)
  /\ UNCHANGED <<state, plates, served, counter, audits, handed>>

-------------------------------------------------------------------------------
(* FoodCollectionService.open_food_counter.  The row is read, changed and     *)
(* written back; is_open is written only if the copy said closed.             *)

OpenBegin(s, role, reasonGiven) ==
  /\ FoodAllowed("OPEN_FOOD_COUNTER", role, reasonGiven)
  /\ Open(s, "openRead", [kind |-> "OPEN"])

OpenRead(s) ==
  /\ pc[s] = "openRead"
  /\ Continue(s, "openWrite")
  /\ seen' = [seen EXCEPT ![s].counter = counter]

OpenInsert(s) ==
  /\ pc[s] = "openWrite"
  /\ ~seen[s].counter.exists
  /\ ~EventLocked
  /\ \/ /\ ~counter.exists
        /\ counter' = [exists |-> TRUE, isOpen |-> TRUE, expired |-> FALSE]
        /\ Close(s)
        /\ UNCHANGED <<state, plates, tokens, served, audits, handed>>
     \/ counter.exists /\ Rollback(s)

(* A lookup between its two looks at the counter now holds an old copy.       *)
OpenUpdate(s) ==
  /\ pc[s] = "openWrite"
  /\ seen[s].counter.exists
  /\ counter' = [counter EXCEPT !.isOpen = @ \/ ~seen[s].counter.isOpen,
                                !.expired = FALSE]
  /\ Goto(s, "idle")
  /\ job' = [job EXCEPT ![s] = NoJob]
  /\ seen' = [t \in Sessions |->
                IF t = s THEN Nothing
                ELSE [seen[t] EXCEPT !.superseded = (pc[t] = "flatToken")]]
  /\ UNCHANGED <<state, plates, tokens, served, audits, handed>>

-------------------------------------------------------------------------------
(* verify_and_serve_token and serve_by_flat_lookup.  Both check the state and *)
(* the counter first; a counter past its time is closed in a commit of its    *)
(* own and nothing is served.                                                 *)

VerifyBegin(s, f, number, role, reasonGiven) ==
  /\ FoodAllowed("SERVE_FOOD_TOKEN", role, reasonGiven)
  /\ Open(s, "serveCounter", [kind |-> "TOKEN", flat |-> f, number |-> number])

FlatBegin(s, f, role, reasonGiven) ==
  /\ FoodAllowed("SERVE_FOOD_TOKEN", role, reasonGiven)
  /\ Open(s, "serveCounter", [kind |-> "FLAT", flat |-> f, number |-> 0])

ServeCounter(s) ==
  /\ pc[s] = "serveCounter"
  /\ \/ ~counter.isOpen /\ Rollback(s)
     \/ /\ counter.isOpen
        /\ Continue(s, IF counter.expired THEN "closeWrite"
                       ELSE IF job[s].kind = "TOKEN" THEN "serveToken" ELSE "flatToken")
        /\ UNCHANGED seen

CloseExpired(s) ==
  /\ pc[s] = "closeWrite"
  /\ counter' = [counter EXCEPT !.isOpen = FALSE]
  /\ Close(s)
  /\ UNCHANGED <<state, plates, tokens, served, audits, handed>>

(* Faulty variant: a code no token was generated for is not refused. *)
ServeTokenUnknown(s) ==
  /\ pc[s] = "serveToken"
  /\ Token(s) \notin served
  /\ Continue(s, "serveWrite")
  /\ UNCHANGED seen

ServeToken(s) ==
  /\ pc[s] = "serveToken"
  /\ \/ /\ Token(s) \in tokens \ served
        /\ Continue(s, "serveWrite")
        /\ UNCHANGED seen
     \/ Token(s) \notin tokens \ served /\ Rollback(s)

(* Faulty variant: the row is written by its id alone. *)
ServeWriteBlindly(s) ==
  /\ pc[s] = "serveWrite"
  /\ served' = served \cup {Token(s)}
  /\ handed' = [handed EXCEPT ![job[s].flat] = @ + 1]
  /\ Close(s)
  /\ UNCHANGED <<state, plates, tokens, counter, audits>>

(* UPDATE ... WHERE served_at IS NULL: the loser of a race waits for the row, *)
(* finds served_at set, and rejects.                                          *)
ServeWrite(s) ==
  /\ pc[s] = "serveWrite"
  /\ \/ /\ Token(s) \notin served
        /\ served' = served \cup {Token(s)}
        /\ handed' = [handed EXCEPT ![job[s].flat] = @ + 1]
        /\ Close(s)
        /\ UNCHANGED <<state, plates, tokens, counter, audits>>
     \/ Token(s) \in served /\ Rollback(s)

(* The flat's first unserved token (they share one created_at) is served by   *)
(* verify_and_serve_token: the state is read again, with no reason to         *)
(* override, and the copy of the counter is asked again for its closing time. *)
FlatToken(s) ==
  /\ pc[s] = "flatToken"
  /\ Allows(state, "SERVE_FOOD_TOKEN")
  /\ \E t \in Unserved(job[s].flat), late \in BOOLEAN :
       /\ ~seen[s].superseded => late = counter.expired
       /\ Goto(s, IF late THEN "closeWrite" ELSE "serveWrite")
       /\ job' = [job EXCEPT ![s].number = t[2]]
  /\ UNCHANGED <<seen, tables, handed>>

FlatRefused(s) ==
  /\ pc[s] = "flatToken"
  /\ Unserved(job[s].flat) # {}
  /\ ~Allows(state, "SERVE_FOOD_TOKEN")
  /\ Rollback(s)

(* Without one, what the flat is entitled to and what it had are counted,     *)
(* a statement each.                                                          *)
FlatNoToken(s) ==
  /\ pc[s] = "flatToken"
  /\ Unserved(job[s].flat) = {}
  /\ Continue(s, "flatEntitled")
  /\ UNCHANGED seen

FlatEntitled(s) ==
  /\ pc[s] = "flatEntitled"
  /\ Continue(s, "flatServed")
  /\ seen' = [seen EXCEPT ![s].entitled = plates[job[s].flat]]

FlatServed(s) ==
  /\ pc[s] = "flatServed"
  /\ Continue(s, "flatAudits")
  /\ seen' = [seen EXCEPT ![s].eaten = Cardinality(ServedOf(job[s].flat))]

(* Faulty variant: plates served without a token are not counted. *)
FlatAuditsForgotten(s) ==
  /\ pc[s] = "flatAudits"
  /\ seen[s].entitled > seen[s].eaten
  /\ Continue(s, "flatWrite")
  /\ UNCHANGED seen

FlatAudits(s) ==
  LET left == seen[s].entitled - (seen[s].eaten + audits[job[s].flat]) IN
  /\ pc[s] = "flatAudits"
  /\ \/ left > 0 /\ Continue(s, "flatWrite") /\ UNCHANGED seen
     \/ left <= 0 /\ Rollback(s)

FlatWrite(s) ==
  /\ pc[s] = "flatWrite"
  /\ audits' = [audits EXCEPT ![job[s].flat] = @ + 1]
  /\ handed' = [handed EXCEPT ![job[s].flat] = @ + 1]
  /\ Close(s)
  /\ UNCHANGED <<state, plates, tokens, served, counter>>
-------------------------------------------------------------------------------
(* A session fails or its process is killed. *)
Abort(s) == pc[s] # "idle" /\ Rollback(s)

Begin(s) ==
  \/ \E f \in Flats, n \in Counts, role \in Roles \cup {NoRole} : BookBegin(s, f, n, role)
  \/ \E f \in Flats, n \in 1..MaxPlates, role \in Roles, reasonGiven \in BOOLEAN :
       VerifyBegin(s, f, n, role, reasonGiven)
  \/ \E role \in Roles, reasonGiven \in BOOLEAN :
       \/ \E f \in Flats : FlatBegin(s, f, role, reasonGiven)
       \/ GenerateBegin(s, role, reasonGiven)
       \/ OpenBegin(s, role, reasonGiven)

Run(s) ==
  \/ GenerateCount(s) \/ GeneratePlan(s) \/ GenerateCommit(s)
  \/ OpenRead(s) \/ OpenUpdate(s)
  \/ ServeCounter(s) \/ CloseExpired(s) \/ ServeToken(s) \/ ServeWrite(s)
  \/ FlatToken(s) \/ FlatRefused(s) \/ FlatNoToken(s) \/ FlatEntitled(s)
  \/ FlatServed(s) \/ FlatAudits(s) \/ FlatWrite(s)

(* The steps that may wait for the event's row. *)
Acquire(s) == GenerateLock(s) \/ OpenInsert(s) \/ BookWrite(s)

Next ==
  \/ Transition \/ Expire
  \/ \E s \in Sessions : Begin(s) \/ Run(s) \/ Acquire(s) \/ Abort(s)

Spec == Init /\ [][Next]_vars

(* Threads of handlers keep running, PostgreSQL serves the waiters of a row   *)
(* lock in turn; nothing makes a message arrive, time pass or a process fail. *)
FairSpec == /\ Spec
            /\ \A s \in Sessions : WF_vars(Run(s)) /\ SF_vars(Acquire(s))

-------------------------------------------------------------------------------
(* Properties *)

TablesOK ==
  /\ state \in EventStates
  /\ plates \in [Flats -> 0..MaxPlates]
  /\ tokens \subseteq TokenIds
  /\ served \subseteq tokens
  /\ counter \in Counter
  /\ audits \in [Flats -> Nat]
  /\ handed \in [Flats -> Nat]

SessionsOK ==
  /\ pc \in [Sessions -> Labels]
  /\ job \in [Sessions -> Job \cup {NoJob}]
  /\ seen \in [Sessions -> Seen]

(* Rows have their columns' values; only a generated token is ever served.    *)
TypeOK == TablesOK /\ SessionsOK

(* Every plate handed out is on record once: as a served token or as an audit *)
(* row of a plate without one.  Two counters scanning the same code, or one   *)
(* scanning it while the other looks the flat up, hand out one plate.         *)
PlatesAreOnRecord ==
  \A f \in Flats :
    handed[f] = Cardinality(ServedOf(f)) + (audits[f] - Earlier[f])

(* The promise of the food counter, with the tables in the place of its book: *)
(* one generation of tokens however many ask for one at once, no token used   *)
(* twice, every plate recorded in the commit that hands it out.               *)
Book == INSTANCE PlateBook
          WITH issued <- tokens, used <- served,
               manual <- [f \in Flats |-> audits[f] - Earlier[f]]

ImplementsPlateBook == Book!Spec

(* Plates without a token go past the booked ones by at most what the other   *)
(* sessions have in flight: every session counts the audit rows it can see.   *)
OverrunIsBounded ==
  \A f \in Flats :
    LET writing == {s \in Sessions : pc[s] = "flatWrite" /\ job[s].flat = f}
        manual == audits[f] - Earlier[f]
    IN  manual > 0 \/ writing # {} =>
          manual + Cardinality(writing) <= MaxPlates + Cardinality(Sessions) - 1

(* Every handler comes to an end: none waits for the event's row forever.     *)
HandlersEnd == \A s \in Sessions : pc[s] # "idle" ~> pc[s] = "idle"

(* "If no entitlement remains, rejects": a plate without a token is recorded  *)
(* only for a flat that has had fewer plates than its pass is booked for.     *)
NoTokenPlateIsEntitled ==
  [][\A f \in Flats : audits'[f] > audits[f] => handed[f] < plates[f]]_vars
===============================================================================
