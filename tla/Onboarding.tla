------------------------------ MODULE Onboarding ------------------------------
(***************************************************************************)
(* How a newcomer gets a home in the society: the join request with the    *)
(* code of the society, the list of open requests and their approval by    *)
(* the chairman, or the immediate assignment when the society asks for no  *)
(* approval.                                                               *)
(*                                                                         *)
(* A message is handled by a worker: it reads, decides and commits in      *)
(* steps another worker can come between.  Nothing in the tables keeps two *)
(* requests or two homes of one newcomer apart, only the reads do.  The    *)
(* audit rows written with every step are left out.                        *)
(***************************************************************************)
EXTENDS CommitteeRoster

CONSTANTS
  Newcomers,  \* identifiers that ask to join
  Flats,      \* flat numbers of exactly one active flat
  Workers,    \* handlers at work at the same time
  MaxJoins,   \* bound: messages in a behaviour
  MaxCrashes  \* bound: workers lost before they are done

ASSUME OnboardingAssumption ==
  /\ MaxJoins \in Nat
  /\ MaxCrashes \in Nat

VARIABLES
  byApproval, \* the society's config: does joining need an approval
  known,      \* newcomers with a committed member_identities row
  homes,      \* homes[i][f]: active user_flat_mappings rows of i at f
  requests,   \* pending_users rows: who, flat, whether approved, number
  work,       \* work[w]: what worker w has read and is about to do
  crowded,    \* TRUE once two workers were busy at the same time
  joins,      \* messages so far
  crashes     \* workers lost so far

joinVars == <<byApproval, known, homes, requests, work, crowded, joins, crashes>>

(***************************************************************************)
(* step: "look" found no mapping, "ask" found no open request and will     *)
(* insert one, "assign" will insert a mapping, "mark" will set request     *)
(* number req approved.  fresh: the worker holds an identity not committed *)
(* yet.                                                                    *)
(***************************************************************************)
Free == [step |-> "free", who |-> Nobody, flat |-> Nobody, req |-> 0, fresh |-> FALSE]

NewRequest(who, flat) ==
  [who |-> who, flat |-> flat, approved |-> FALSE, number |-> Cardinality(requests) + 1]

Open(i) == {q \in requests : q.who = i /\ ~q.approved}

Mapped(i) == \E f \in Flats : homes[i][f] > 0

JoinInit ==
  /\ byApproval \in BOOLEAN
  /\ known = {}
  /\ homes = [i \in Newcomers |-> [f \in Flats |-> 0]]
  /\ requests = {}
  /\ work = [w \in Workers |-> Free]
  /\ crowded = FALSE
  /\ joins = 0
  /\ crashes = 0

Busy == {w \in Workers : work[w] # Free}

Goes(w, rec) == work' = [work EXCEPT ![w] = rec]

Message(w) ==
  /\ work[w] = Free
  /\ joins < MaxJoins
  /\ joins' = joins + 1
  /\ crowded' = (crowded \/ Busy # {})

(***************************************************************************)
(* JOIN: the identity is found, or inserted without a commit.  A second    *)
(* worker that inserts the same identity waits for the first and then      *)
(* fails, which changes nothing.  A newcomer with an active mapping is     *)
(* refused.                                                                *)
(***************************************************************************)
Join(w, i, f) ==
  /\ Message(w)
  /\ ~Mapped(i)
  /\ i \notin known => \A v \in Busy : ~(work[v].who = i /\ work[v].fresh)
  /\ Goes(w, [Free EXCEPT !.step = "look", !.who = i, !.flat = f, !.fresh = i \notin known])
  /\ UNCHANGED <<byApproval, known, homes, requests, crashes>>

(* Variant: every join inserts a request of its own. *)
NeedsRequestAlways(i) == TRUE

(* A newcomer with an open request is answered with its code.              *)
NeedsRequest(i) == Open(i) = {}

LookUpRequest(w) ==
  LET me == work[w] IN
  /\ me.step = "look"
  /\ byApproval
  /\ Goes(w, IF NeedsRequest(me.who) THEN [me EXCEPT !.step = "ask"] ELSE Free)
  /\ UNCHANGED <<byApproval, known, homes, requests, crowded, joins, crashes>>

Ask(w) ==
  LET me == work[w] IN
  /\ me.step = "ask"
  /\ known' = known \cup {me.who}
  /\ requests' = requests \cup {NewRequest(me.who, me.flat)}
  /\ Goes(w, Free)
  /\ UNCHANGED <<byApproval, homes, crowded, joins, crashes>>

(* assign_user_to_flat finds the mapping of this newcomer to this flat.    *)
HasHome(i, f) == homes[i][f] > 0

(* No approval asked for: the mapping is inserted at once.                 *)
LookUpHome(w) ==
  LET me == work[w] IN
  /\ me.step = "look"
  /\ ~byApproval
  /\ Goes(w, IF HasHome(me.who, me.flat) THEN Free ELSE [me EXCEPT !.step = "assign"])
  /\ UNCHANGED <<byApproval, known, homes, requests, crowded, joins, crashes>>

(* Variant: the request is closed before the mapping is looked for. *)
StepOfApprovalMark(i, f) == "mark"

StepOfApproval(i, f) == IF HasHome(i, f) THEN "mark" ELSE "assign"

(***************************************************************************)
(* APPROVE, by a chairman: the request must be open and its flat exist.    *)
(* The assignment commits by itself, the request is closed by a commit of  *)
(* its own.                                                                *)
(***************************************************************************)
Approve(w, p, q) ==
  /\ Message(w)
  /\ p \in Chairmen
  /\ ~q.approved
  /\ Goes(w, [step |-> StepOfApproval(q.who, q.flat), who |-> q.who, flat |-> q.flat,
              req |-> q.number, fresh |-> FALSE])
  /\ UNCHANGED <<byApproval, known, homes, requests, crashes>>

Assign(w) ==
  LET me == work[w] IN
  /\ me.step = "assign"
  /\ known' = known \cup {me.who}
  /\ homes' = [homes EXCEPT ![me.who][me.flat] = @ + 1]
  /\ Goes(w, IF me.req = 0 THEN Free ELSE [me EXCEPT !.step = "mark"])
  /\ UNCHANGED <<byApproval, requests, crowded, joins, crashes>>

Mark(w) ==
  LET me == work[w] IN
  /\ me.step = "mark"
  /\ requests' = {[q EXCEPT !.approved = @ \/ q.number = me.req] : q \in requests}
  /\ Goes(w, Free)
  /\ UNCHANGED <<byApproval, known, homes, crowded, joins, crashes>>

(* A worker dies between two commits; what it had not committed is gone.   *)
Crash(w) ==
  /\ work[w] # Free
  /\ crashes < MaxCrashes
  /\ crashes' = crashes + 1
  /\ Goes(w, Free)
  /\ UNCHANGED <<byApproval, known, homes, requests, crowded, joins>>

JoinStep(w) ==
  \/ \E i \in Newcomers, f \in Flats : Join(w, i, f)
  \/ \E p \in People, q \in requests : Approve(w, p, q)
  \/ LookUpRequest(w)
  \/ Ask(w)
  \/ LookUpHome(w)
  \/ Assign(w)
  \/ Mark(w)
  \/ Crash(w)

JoinNext == \E w \in Workers : JoinStep(w)

OnboardingSpec ==
  /\ RosterInit /\ JoinInit
  /\ [][\/ JoinNext /\ UNCHANGED rosterVars
        \/ RosterNext /\ UNCHANGED joinVars]_<<rosterVars, joinVars>>

-------------------------------------------------------------------------------
(* Types: requests are numbered, name a newcomer, and who is at work on    *)
(* one names its newcomer and flat (pending_users, user_flat_mappings).    *)
JoinTypeOK ==
  /\ byApproval \in BOOLEAN
  /\ known \subseteq Newcomers
  /\ homes \in [Newcomers -> [Flats -> Nat]]
  /\ \A q \in requests :
       /\ DOMAIN q = {"who", "flat", "approved", "number"}
       /\ q.who \in known /\ q.flat \in Flats /\ q.approved \in BOOLEAN
       /\ q.number \in 1..Cardinality(requests)
  /\ \A w \in Busy : work[w].who \in Newcomers /\ work[w].flat \in Flats
  /\ crowded \in BOOLEAN
  /\ joins \in 0..MaxJoins
  /\ crashes \in 0..MaxCrashes

(* As long as no two workers were busy at once, a newcomer has at most one *)
(* home and one open request, crashes between the two commits of an        *)
(* approval and repeated joins and approvals included.                     *)
OneHomeEach ==
  crowded \/ \A i \in Newcomers :
    /\ Cardinality(Open(i)) <= 1
    /\ \A f, g \in Flats : homes[i][f] > 0 /\ homes[i][g] > 0 => f = g /\ homes[i][f] = 1

(* What JOIN_STATUS answers: approved, pending or not found.               *)
Standing(i) == IF Mapped(i) THEN 2 ELSE IF Open(i) # {} THEN 1 ELSE 0

(* Who was told that the request is pending or approved is never told less *)
(* later: not by a crash, and not by two workers at the same request.      *)
StandingNeverFalls == [][\A i \in Newcomers : Standing(i)' >= Standing(i)]_joinVars
===============================================================================
