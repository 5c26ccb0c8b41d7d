------------------------ MODULE FoodCollection_proofs ------------------------
(***************************************************************************)
(* Theorems about FoodCollection for every set of sessions and flats, every *)
(* bound on plates and every history of earlier events.                    *)
(*                                                                         *)
(* Two facts make the food counter's promise inductive: whoever is past    *)
(* the count of tokens holds the event's row alone and there are no tokens *)
(* yet (LockInv), and a session that is about to serve a token holds one   *)
(* that exists (JobShape).                                                 *)
(***************************************************************************)
EXTENDS FoodCollection, FiniteSetTheorems, TLAPS

LookupLabels == {"flatToken", "flatEntitled", "flatServed", "flatAudits", "flatWrite"}

JobShape ==
  \A s \in Sessions :
    /\ pc[s] = "serveCounter" => job[s] \in TokenJob \cup LookupJob
    /\ pc[s] = "serveToken" => job[s] \in TokenJob
    /\ pc[s] = "serveWrite" =>
         job[s] \in TokenJob \cup LookupJob /\ Token(s) \in tokens
    /\ pc[s] \in LookupLabels => job[s] \in LookupJob
    /\ pc[s] = "bookWrite" => job[s] \in BookJob

LockInv ==
  /\ \A s, t \in Sessions : pc[s] \in HoldsEvent /\ pc[t] \in HoldsEvent => s = t
  /\ \A s \in Sessions : pc[s] \in {"genCounted", "genPlanned"} => tokens = {}

IInv == TypeOK /\ JobShape /\ LockInv /\ PlatesAreOnRecord

-------------------------------------------------------------------------------
(* Steps by what they change *)

SessionStep(s) == Begin(s) \/ Run(s) \/ Acquire(s) \/ Abort(s)

OthersStay(s) ==
  \A t \in Sessions \ {s} : pc'[t] = pc[t] /\ job'[t] = job[t]

(* No token is made or used and no plate handed out.                           *)
BookStays == UNCHANGED <<tokens, served, audits, handed>>

(* Sessions that close have nothing left to keep a promise about.              *)
LEMMA CloseFrame ==
  ASSUME SessionsOK, NEW s \in Sessions, Close(s)
  PROVE  SessionsOK' /\ OthersStay(s) /\ pc'[s] = "idle"
BY FoodConstantsOK
   DEF SessionsOK, Close, Goto, OthersStay, Labels, HoldsEvent, Nothing, NoCounter,
       Seen, Counter

(* A session that goes on keeps its job.                                       *)
LEMMA ContinueFrame ==
  ASSUME SessionsOK, NEW s \in Sessions, NEW label \in Labels, Continue(s, label),
         seen' \in [Sessions -> Seen]
  PROVE  /\ SessionsOK' /\ OthersStay(s)
         /\ pc'[s] = label /\ job'[s] = job[s]
         /\ UNCHANGED tables /\ BookStays
BY DEF SessionsOK, Continue, Goto, OthersStay, tables, BookStays

(* Steps of the others keep the shape of jobs, as tokens are never deleted.    *)
LEMMA ShapeKept ==
  ASSUME JobShape, NEW s \in Sessions, OthersStay(s), tokens \subseteq tokens',
         /\ pc'[s] = "serveCounter" => job'[s] \in TokenJob \cup LookupJob
         /\ pc'[s] = "serveToken" => job'[s] \in TokenJob
         /\ pc'[s] = "serveWrite" =>
              job'[s] \in TokenJob \cup LookupJob /\ Token(s)' \in tokens'
         /\ pc'[s] \in LookupLabels => job'[s] \in LookupJob
         /\ pc'[s] = "bookWrite" => job'[s] \in BookJob
  PROVE  JobShape'
<1> SUFFICES ASSUME NEW t \in Sessions, t # s
             PROVE  /\ pc'[t] = "serveCounter" => job'[t] \in TokenJob \cup LookupJob
                    /\ pc'[t] = "serveToken" => job'[t] \in TokenJob
                    /\ pc'[t] = "serveWrite" =>
                         job'[t] \in TokenJob \cup LookupJob /\ Token(t)' \in tokens'
                    /\ pc'[t] \in LookupLabels => job'[t] \in LookupJob
                    /\ pc'[t] = "bookWrite" => job'[t] \in BookJob
  BY DEF JobShape
<1>1. pc'[t] = pc[t] /\ job'[t] = job[t]
  BY DEF OthersStay
<1> QED BY <1>1 DEF JobShape, Token

(* A step that neither touches tokens and plates nor takes the event's row.    *)
LEMMA QuietStep ==
  ASSUME IInv, NEW s \in Sessions, TypeOK', OthersStay(s), BookStays,
         pc'[s] \notin HoldsEvent,
         /\ pc'[s] = "serveCounter" => job'[s] \in TokenJob \cup LookupJob
         /\ pc'[s] = "serveToken" => job'[s] \in TokenJob
         /\ pc'[s] = "serveWrite" =>
              job'[s] \in TokenJob \cup LookupJob /\ Token(s)' \in tokens'
         /\ pc'[s] \in LookupLabels => job'[s] \in LookupJob
         /\ pc'[s] = "bookWrite" => job'[s] \in BookJob
  PROVE  IInv'
<1>1. JobShape'
  BY ShapeKept DEF IInv, BookStays
<1>2. LockInv'
  BY DEF IInv, LockInv, OthersStay, BookStays, HoldsEvent
<1>3. PlatesAreOnRecord'
  BY DEF IInv, PlatesAreOnRecord, BookStays, ServedOf, TokensOf
<1> QED BY <1>1, <1>2, <1>3 DEF IInv

(* A session that closes without touching the book keeps the invariant.       *)
LEMMA CloseQuiet ==
  ASSUME IInv, NEW s \in Sessions, Close(s), TablesOK', BookStays
  PROVE  IInv'
<1>1. TypeOK' /\ OthersStay(s) /\ pc'[s] = "idle"
  BY CloseFrame DEF IInv, TypeOK
<1> QED BY <1>1, QuietStep DEF HoldsEvent, LookupLabels

(* A rolled back session keeps the invariant.                                 *)
LEMMA RollbackQuiet ==
  ASSUME IInv, NEW s \in Sessions, Rollback(s)
  PROVE  IInv'
<1>1. TablesOK' /\ BookStays
  BY DEF Rollback, tables, IInv, TypeOK, TablesOK, BookStays
<1> QED BY <1>1, CloseQuiet DEF Rollback

(* A session that reads on, outside the event's lock.                          *)
LEMMA ContinueQuiet ==
  ASSUME IInv, NEW s \in Sessions, NEW label \in Labels \ HoldsEvent, Continue(s, label),
         seen' \in [Sessions -> Seen],
         label # "serveCounter" /\ label # "bookWrite",
         label = "serveToken" => job[s] \in TokenJob,
         label = "serveWrite" => job[s] \in TokenJob /\ Token(s) \in tokens,
         label \in LookupLabels => job[s] \in LookupJob
  PROVE  IInv'
<1>1. /\ SessionsOK' /\ OthersStay(s)
      /\ pc'[s] = label /\ job'[s] = job[s]
      /\ UNCHANGED tables /\ BookStays
  BY ContinueFrame DEF IInv, TypeOK
<1>2. TablesOK'
  BY <1>1 DEF tables, BookStays, IInv, TypeOK, TablesOK
<1>3. Token(s)' = Token(s) /\ tokens' = tokens
  BY <1>1 DEF Token, BookStays
<1> QED BY <1>1, <1>2, <1>3, QuietStep DEF TypeOK

(* A session that starts with a job of its kind keeps the invariant.          *)
LEMMA OpenQuiet ==
  ASSUME IInv, NEW s \in Sessions, NEW label, NEW work, Open(s, label, work),
         \/ label = "bookWrite" /\ work \in BookJob
         \/ label = "serveCounter" /\ work \in TokenJob \cup LookupJob
         \/ label \in {"genLock", "openRead"} /\ work \in EventJob
  PROVE  IInv'
<1>1. /\ TypeOK' /\ OthersStay(s) /\ BookStays
      /\ pc'[s] = label /\ job'[s] = work
  BY DEF IInv, TypeOK, TablesOK, SessionsOK, Open, Goto, tables, Labels, HoldsEvent,
         Job, OthersStay, BookStays
<1> QED BY <1>1, QuietStep DEF HoldsEvent, LookupLabels

(* Every handler starts with a job of its kind.                               *)
LEMMA BeginQuiet ==
  ASSUME IInv, NEW s \in Sessions, Begin(s)
  PROVE  IInv'
<1>1. ASSUME NEW f \in Flats, NEW n \in Counts, NEW role, BookBegin(s, f, n, role)
      PROVE  IInv'
  <2>1. n \in 1..MaxPlates
    BY FoodConstantsOK
  <2> QED BY <1>1, <2>1, OpenQuiet DEF BookBegin, BookJob
<1>2. ASSUME NEW f \in Flats, NEW n \in 1..MaxPlates, NEW role, NEW reasonGiven,
             VerifyBegin(s, f, n, role, reasonGiven)
      PROVE  IInv'
  BY <1>2, OpenQuiet DEF VerifyBegin, TokenJob
<1>3. ASSUME NEW f \in Flats, NEW role, NEW reasonGiven, FlatBegin(s, f, role, reasonGiven)
      PROVE  IInv'
  <2> DEFINE work == [kind |-> "FLAT", flat |-> f, number |-> 0]
  <2>1. work \in LookupJob
    BY FoodConstantsOK DEF LookupJob
  <2>2. Open(s, "serveCounter", work)
    BY <1>3 DEF FlatBegin
  <2> QED BY <2>1, <2>2, OpenQuiet
<1>4. ASSUME NEW role, NEW reasonGiven,
             GenerateBegin(s, role, reasonGiven) \/ OpenBegin(s, role, reasonGiven)
      PROVE  IInv'
  BY <1>4, OpenQuiet DEF GenerateBegin, OpenBegin, EventJob
<1> QED BY <1>1, <1>2, <1>3, <1>4 DEF Begin

(* Booking a pass changes neither tokens nor plates on record.                *)
LEMMA BookQuiet ==
  ASSUME IInv, NEW s \in Sessions, BookWrite(s)
  PROVE  IInv'
<1>1. job[s].number \in 0..MaxPlates
  BY FoodConstantsOK DEF BookWrite, IInv, JobShape, BookJob
<1>2. TablesOK' /\ BookStays
  BY <1>1 DEF BookWrite, IInv, TypeOK, TablesOK, BookStays
<1> QED BY <1>2, CloseQuiet DEF BookWrite

-------------------------------------------------------------------------------
(* Generating tokens *)

(* The first tokens of an event are numbered from one in each flat.           *)
LEMMA FirstTokens ==
  ASSUME tokens = {}, NEW plan \in [Flats -> 0..MaxPlates]
  PROVE  NewTokens(plan) \subseteq TokenIds
<1>1. \A f \in Flats : Cardinality(TokensOf(f)) = 0
  BY FS_EmptySet DEF TokensOf
<1>2. ASSUME NEW f \in Flats, NEW n \in 1..plan[f]
      PROVE  <<f, Cardinality(TokensOf(f)) + n>> \in TokenIds
  <2>1. n \in 1..MaxPlates /\ 0 + n = n
    BY FoodConstantsOK
  <2> QED BY <1>1, <2>1 DEF TokenIds
<1> QED BY <1>2 DEF NewTokens

(* Whoever is past the count of tokens holds the event's row, alone, and no   *)
(* tokens exist yet; so what it commits are the first ones.                   *)
LEMMA GenerateStep ==
  ASSUME IInv, NEW s \in Sessions,
         \/ GenerateLock(s) \/ GenerateCount(s) \/ GeneratePlan(s) \/ GenerateCommit(s)
  PROVE  IInv'
<1>1. CASE Rollback(s)
  BY <1>1, RollbackQuiet
<1>2. ASSUME NEW label \in HoldsEvent, Continue(s, label), seen' \in [Sessions -> Seen],
             pc[s] \in HoldsEvent \/ ~EventLocked,
             label \in {"genCounted", "genPlanned"} => tokens = {}
      PROVE  IInv'
  <2>1. /\ SessionsOK' /\ OthersStay(s)
        /\ pc'[s] = label /\ job'[s] = job[s]
        /\ UNCHANGED tables /\ BookStays
    BY <1>2, ContinueFrame DEF IInv, TypeOK, Labels
  <2>2. TypeOK'
    BY <2>1 DEF tables, BookStays, IInv, TypeOK, TablesOK
  <2>3. JobShape'
    BY <1>2, <2>1, ShapeKept DEF IInv, BookStays, HoldsEvent, LookupLabels
  <2>4. LockInv'
    BY <1>2, <2>1 DEF IInv, LockInv, OthersStay, BookStays, EventLocked
  <2>5. PlatesAreOnRecord'
    BY <2>1 DEF IInv, PlatesAreOnRecord, BookStays, ServedOf, TokensOf
  <2> QED BY <2>2, <2>3, <2>4, <2>5 DEF IInv
<1>3. CASE GenerateLock(s)
  BY <1>2, <1>3 DEF GenerateLock, HoldsEvent, IInv, TypeOK, SessionsOK
<1>4. CASE GenerateCount(s)
  BY <1>1, <1>2, <1>4 DEF GenerateCount, HoldsEvent, IInv, TypeOK, SessionsOK
<1>5. CASE GeneratePlan(s)
  <2>1. seen' \in [Sessions -> Seen]
    BY <1>5 DEF GeneratePlan, IInv, TypeOK, TablesOK, SessionsOK, Seen
  <2> QED BY <1>2, <1>5, <2>1 DEF GeneratePlan, HoldsEvent, IInv, LockInv
<1>6. CASE GenerateCommit(s)
  <2>1. pc[s] = "genPlanned" /\ tokens = {} /\ served = {}
    BY <1>6 DEF GenerateCommit, IInv, LockInv, TypeOK, TablesOK
  <2>2. tokens' \subseteq TokenIds /\ UNCHANGED <<served, audits, handed>>
    BY <1>6, <2>1, FirstTokens DEF GenerateCommit, IInv, TypeOK, SessionsOK, Seen
  <2>3. TablesOK'
    BY <1>6, <2>1, <2>2 DEF GenerateCommit, IInv, TypeOK, TablesOK
  <2>4. SessionsOK' /\ OthersStay(s) /\ pc'[s] = "idle"
    BY <1>6, CloseFrame DEF GenerateCommit, IInv, TypeOK
  <2>5. JobShape'
    BY <2>1, <2>4, ShapeKept DEF IInv, LookupLabels
  <2>6. LockInv'
    BY <2>1, <2>4 DEF IInv, LockInv, OthersStay, HoldsEvent
  <2>7. PlatesAreOnRecord'
    <3>1. \A f \in Flats : ServedOf(f) = {} /\ ServedOf(f)' = {}
      BY <2>1, <2>2 DEF ServedOf
    <3> QED BY <2>2, <3>1 DEF IInv, PlatesAreOnRecord
  <2> QED BY <2>3, <2>4, <2>5, <2>6, <2>7 DEF IInv, TypeOK
<1> QED BY <1>3, <1>4, <1>5, <1>6
-------------------------------------------------------------------------------
(* A flat's tokens are finitely many, however many flats there are. *)

(* The served tokens of one flat can be counted.                              *)
LEMMA ServedFinite ==
  ASSUME TablesOK, NEW f \in Flats
  PROVE  /\ IsFiniteSet(ServedOf(f))
         /\ Cardinality(ServedOf(f)) \in Nat
<1> DEFINE all == {<<f, n>> : n \in 1..MaxPlates}
           numbered == [n \in 1..MaxPlates |-> <<f, n>>]
<1>1. IsFiniteSet(1..MaxPlates)
  BY FS_Interval, FoodConstantsOK
<1>2. TokensOf(f) \subseteq all
  BY DEF TokensOf, TablesOK, TokenIds
<1>3. numbered \in Surjection(1..MaxPlates, all)
  BY DEF Surjection
<1>4. IsFiniteSet(all)
  BY <1>1, <1>3, FS_Surjection
<1>5. IsFiniteSet(ServedOf(f))
  BY <1>2, <1>4, FS_Subset DEF ServedOf
<1> QED BY <1>5, FS_CardinalityType

-------------------------------------------------------------------------------
(* The counter *)

(* Opening and closing the counter changes neither tokens nor plates.         *)
LEMMA CounterStep ==
  ASSUME IInv, NEW s \in Sessions,
         OpenRead(s) \/ OpenInsert(s) \/ OpenUpdate(s) \/ CloseExpired(s)
  PROVE  IInv'
<1> USE DEF IInv, TypeOK, TablesOK, SessionsOK
<1>1. CASE OpenRead(s)
  <2>1. seen' \in [Sessions -> Seen]
    BY <1>1 DEF OpenRead, Seen
  <2> QED BY <1>1, <2>1, ContinueQuiet DEF OpenRead, Labels, HoldsEvent, LookupLabels
<1>2. CASE OpenInsert(s)
  <2>1. CASE Rollback(s)
    BY <2>1, RollbackQuiet
  <2>2. CASE /\ counter' = [exists |-> TRUE, isOpen |-> TRUE, expired |-> FALSE]
             /\ Close(s)
             /\ UNCHANGED <<state, plates, tokens, served, audits, handed>>
    BY <2>2, CloseQuiet DEF Counter, BookStays
  <2> QED BY <1>2, <2>1, <2>2 DEF OpenInsert
<1>3. CASE OpenUpdate(s)
  <2>1. (counter.isOpen \/ ~seen[s].counter.isOpen) \in BOOLEAN
    BY DEF Counter, Seen
  <2>2. counter' \in Counter
    BY <1>3, <2>1 DEF OpenUpdate, Counter
  <2>3. OthersStay(s) /\ pc'[s] = "idle" /\ BookStays
    BY <1>3 DEF OpenUpdate, Goto, OthersStay, BookStays
  <2>4. Nothing \in Seen
    BY FoodConstantsOK DEF Nothing, NoCounter, Seen, Counter
  <2>5. \A t \in Sessions :
          [seen[t] EXCEPT !.superseded = (pc[t] = "flatToken")] \in Seen
    BY DEF Seen
  <2>6. SessionsOK'
    BY <1>3, <2>4, <2>5 DEF OpenUpdate, Goto, Labels
  <2>7. TablesOK'
    BY <1>3, <2>2 DEF OpenUpdate
  <2> QED BY <2>3, <2>6, <2>7, QuietStep DEF HoldsEvent, LookupLabels
<1>4. CASE CloseExpired(s)
  BY <1>4, CloseQuiet DEF CloseExpired, Counter, BookStays
<1> QED BY <1>1, <1>2, <1>3, <1>4

-------------------------------------------------------------------------------
(* Serving *)

(* The checks before a plate is handed out only read, and a token that passes *)
(* them exists.                                                               *)
LEMMA ServeReads ==
  ASSUME IInv, NEW s \in Sessions,
         \/ ServeCounter(s) \/ ServeToken(s) \/ FlatToken(s) \/ FlatRefused(s)
         \/ FlatNoToken(s) \/ FlatEntitled(s) \/ FlatServed(s) \/ FlatAudits(s)
  PROVE  IInv'
<1>1. CASE Rollback(s)
  BY <1>1, RollbackQuiet
<1>2. CASE ServeCounter(s)
  <2>1. job[s].kind = "TOKEN" => job[s] \in TokenJob
    BY <1>2 DEF ServeCounter, IInv, JobShape, TokenJob, LookupJob
  <2>2. job[s].kind # "TOKEN" => job[s] \in LookupJob
    BY <1>2 DEF ServeCounter, IInv, JobShape, TokenJob, LookupJob
  <2>3. seen' = seen => seen' \in [Sessions -> Seen]
    BY DEF IInv, TypeOK, SessionsOK
  <2> QED BY <1>1, <1>2, <2>1, <2>2, <2>3, ContinueQuiet
          DEF ServeCounter, Labels, HoldsEvent, LookupLabels
<1>3. CASE ServeToken(s)
  <2>1. job[s] \in TokenJob /\ seen \in [Sessions -> Seen]
    BY <1>3 DEF ServeToken, IInv, JobShape, TypeOK, SessionsOK
  <2> QED BY <1>1, <1>3, <2>1, ContinueQuiet
          DEF ServeToken, Labels, HoldsEvent, LookupLabels
<1>4. CASE FlatToken(s)
  <2>1. PICK t \in Unserved(job[s].flat), late \in BOOLEAN :
          /\ Goto(s, IF late THEN "closeWrite" ELSE "serveWrite")
          /\ job' = [job EXCEPT ![s].number = t[2]]
    BY <1>4 DEF FlatToken
  <2>2. job[s] \in LookupJob
    BY <1>4 DEF FlatToken, IInv, JobShape, LookupLabels
  <2>3. t \in tokens /\ t[1] = job[s].flat /\ t \in TokenIds
    BY DEF Unserved, TokensOf, IInv, TypeOK, TablesOK
  <2>4. t[2] \in 0..MaxPlates /\ t = <<job[s].flat, t[2]>>
    BY <2>3, FoodConstantsOK DEF TokenIds
  <2>5. /\ job'[s] = [job[s] EXCEPT !.number = t[2]]
        /\ pc'[s] \in {"closeWrite", "serveWrite"}
        /\ OthersStay(s)
    BY <2>1 DEF IInv, TypeOK, SessionsOK, Goto, OthersStay
  <2>6. job'[s] \in LookupJob /\ job'[s].flat = job[s].flat /\ job'[s].number = t[2]
    BY <2>2, <2>4, <2>5 DEF LookupJob
  <2>7. Token(s)' = t /\ tokens' = tokens
    BY <1>4, <2>4, <2>6 DEF Token, FlatToken, tables
  <2>8. SessionsOK'
    BY <1>4, <2>1, <2>6 DEF IInv, TypeOK, SessionsOK, FlatToken, Goto, Labels, Job
  <2>9. TablesOK' /\ BookStays
    BY <1>4 DEF FlatToken, tables, IInv, TypeOK, TablesOK, BookStays
  <2> QED BY <2>3, <2>5, <2>6, <2>7, <2>8, <2>9, QuietStep
          DEF HoldsEvent, LookupLabels, TypeOK
<1>5. CASE FlatRefused(s)
  BY <1>1, <1>5 DEF FlatRefused
<1>6. CASE FlatNoToken(s) \/ FlatEntitled(s) \/ FlatServed(s) \/ FlatAudits(s)
  <2>1. job[s] \in LookupJob
    BY <1>6 DEF FlatNoToken, FlatEntitled, FlatServed, FlatAudits, IInv, JobShape,
                LookupLabels
  <2>2. Cardinality(ServedOf(job[s].flat)) \in Nat
    BY <2>1, ServedFinite DEF IInv, TypeOK, LookupJob
  <2>3. seen \in [Sessions -> Seen] /\ plates \in [Flats -> 0..MaxPlates]
    BY DEF IInv, TypeOK, TablesOK, SessionsOK
  <2>4. CASE FlatEntitled(s)
    <3>1. seen' \in [Sessions -> Seen]
      BY <2>1, <2>3, <2>4, FoodConstantsOK DEF FlatEntitled, Seen, LookupJob
    <3> QED BY <2>1, <2>4, <3>1, ContinueQuiet
            DEF FlatEntitled, Labels, HoldsEvent, LookupLabels
  <2>5. CASE FlatServed(s)
    <3>1. seen' \in [Sessions -> Seen]
      BY <2>2, <2>3, <2>5 DEF FlatServed, Seen
    <3> QED BY <2>1, <2>5, <3>1, ContinueQuiet
            DEF FlatServed, Labels, HoldsEvent, LookupLabels
  <2>6. CASE FlatNoToken(s) \/ FlatAudits(s)
    BY <1>1, <2>1, <2>3, <2>6, ContinueQuiet
       DEF FlatNoToken, FlatAudits, Labels, HoldsEvent, LookupLabels
  <2> QED BY <1>6, <2>4, <2>5, <2>6
<1> QED BY <1>2, <1>3, <1>4, <1>5, <1>6

(* A served token is new on record, and so is the plate.                       *)
LEMMA ServeWriteStep ==
  ASSUME IInv, NEW s \in Sessions, ServeWrite(s)
  PROVE  IInv'
<1> DEFINE f == job[s].flat
           t == Token(s)
<1>1. CASE Rollback(s)
  BY <1>1, RollbackQuiet
<1>2. CASE /\ t \notin served
           /\ served' = served \cup {t}
           /\ handed' = [handed EXCEPT ![f] = @ + 1]
           /\ Close(s)
           /\ UNCHANGED <<state, plates, tokens, counter, audits>>
  <2>1. t \in tokens /\ f \in Flats /\ t = <<f, job[s].number>>
    BY DEF ServeWrite, IInv, JobShape, TokenJob, LookupJob, Token
  <2>2. SessionsOK' /\ OthersStay(s) /\ pc'[s] = "idle"
    BY <1>2, CloseFrame DEF IInv, TypeOK
  <2>3. TablesOK'
    BY <1>2, <2>1 DEF IInv, TypeOK, TablesOK
  <2>4. JobShape'
    BY <1>2, <2>2, ShapeKept DEF IInv, LookupLabels
  <2>5. LockInv'
    BY <1>2, <2>2 DEF IInv, LockInv, OthersStay, HoldsEvent
  <2>6. PlatesAreOnRecord'
    <3> SUFFICES ASSUME NEW g \in Flats
                 PROVE  handed'[g] = Cardinality(ServedOf(g)') + (audits'[g] - Earlier[g])
      BY DEF PlatesAreOnRecord
    <3>1. /\ IsFiniteSet(ServedOf(g))
          /\ Cardinality(ServedOf(g)) \in Nat
          /\ handed[g] = Cardinality(ServedOf(g)) + (audits[g] - Earlier[g])
          /\ audits'[g] = audits[g] /\ audits[g] \in Nat /\ Earlier[g] \in Nat
      BY <1>2, ServedFinite, FoodConstantsOK
         DEF IInv, TypeOK, TablesOK, PlatesAreOnRecord
    <3>2. CASE g = f
      <4>1. ServedOf(g)' = ServedOf(g) \cup {t}
        BY <1>2, <2>1, <3>2 DEF ServedOf, TokensOf
      <4>2. t \notin ServedOf(g)
        BY <1>2 DEF ServedOf
      <4>3. Cardinality(ServedOf(g)') = Cardinality(ServedOf(g)) + 1
        BY <3>1, <4>1, <4>2, FS_AddElement
      <4>4. handed'[g] = handed[g] + 1
        BY <1>2, <3>2 DEF IInv, TypeOK, TablesOK
      <4> QED BY <3>1, <4>3, <4>4
    <3>3. CASE g # f
      <4>1. ServedOf(g)' = ServedOf(g)
        BY <1>2, <2>1, <3>3 DEF ServedOf, TokensOf
      <4>2. handed'[g] = handed[g]
        BY <1>2, <3>3 DEF IInv, TypeOK, TablesOK
      <4> QED BY <3>1, <4>1, <4>2
    <3> QED BY <3>2, <3>3
  <2> QED BY <2>2, <2>3, <2>4, <2>5, <2>6 DEF IInv, TypeOK
<1> QED BY <1>1, <1>2 DEF ServeWrite

(* A plate without a token is handed out with its audit row.                   *)
LEMMA FlatWriteStep ==
  ASSUME IInv, NEW s \in Sessions, FlatWrite(s)
  PROVE  IInv'
<1>1. job[s].flat \in Flats
  BY DEF FlatWrite, IInv, JobShape, LookupLabels, LookupJob
<1>2. SessionsOK' /\ OthersStay(s) /\ pc'[s] = "idle"
  BY CloseFrame DEF FlatWrite, IInv, TypeOK
<1>3. TablesOK'
  BY <1>1 DEF FlatWrite, IInv, TypeOK, TablesOK
<1>4. JobShape'
  BY <1>2, ShapeKept DEF FlatWrite, IInv, LookupLabels
<1>5. LockInv'
  BY <1>2 DEF FlatWrite, IInv, LockInv, OthersStay, HoldsEvent
<1>6. PlatesAreOnRecord'
  <2> SUFFICES ASSUME NEW g \in Flats
               PROVE  handed'[g] = Cardinality(ServedOf(g)') + (audits'[g] - Earlier[g])
    BY DEF PlatesAreOnRecord
  <2>1. /\ Cardinality(ServedOf(g)) \in Nat
        /\ handed[g] = Cardinality(ServedOf(g)) + (audits[g] - Earlier[g])
        /\ audits[g] \in Nat /\ Earlier[g] \in Nat
    BY ServedFinite, FoodConstantsOK DEF IInv, TypeOK, TablesOK, PlatesAreOnRecord
  <2>2. ServedOf(g)' = ServedOf(g)
    BY DEF FlatWrite, ServedOf, TokensOf
  <2>3. \/ handed'[g] = handed[g] /\ audits'[g] = audits[g]
        \/ handed'[g] = handed[g] + 1 /\ audits'[g] = audits[g] + 1
    BY DEF FlatWrite, IInv, TypeOK, TablesOK
  <2> QED BY <2>1, <2>2, <2>3
<1> QED BY <1>2, <1>3, <1>4, <1>5, <1>6 DEF IInv, TypeOK

-------------------------------------------------------------------------------
(* The inductive invariant *)

(* The inductive invariant holds before the first token.                      *)
LEMMA InitInv == Init => IInv
<1> SUFFICES ASSUME Init PROVE IInv
  OBVIOUS
<1>1. TypeOK
  BY FoodConstantsOK
     DEF Init, TypeOK, TablesOK, SessionsOK, EventStates, Labels, HoldsEvent, Seen, Nothing,
         NoCounter, Counter
<1>2. JobShape /\ LockInv
  BY DEF Init, JobShape, LockInv, LookupLabels, HoldsEvent
<1>3. PlatesAreOnRecord
  <2> SUFFICES ASSUME NEW f \in Flats
               PROVE  handed[f] = Cardinality(ServedOf(f)) + (audits[f] - Earlier[f])
    BY DEF PlatesAreOnRecord
  <2>1. Cardinality(ServedOf(f)) = 0
    BY FS_EmptySet DEF Init, ServedOf
  <2> QED BY <2>1, FoodConstantsOK DEF Init
<1> QED BY <1>1, <1>2, <1>3 DEF IInv

(* Every step keeps the inductive invariant.                                  *)
LEMMA InvStep == IInv /\ [Next]_vars => IInv'
<1> SUFFICES ASSUME IInv, [Next]_vars PROVE IInv'
  OBVIOUS
<1>1. CASE UNCHANGED vars \/ Transition \/ Expire
  <2>1. /\ state' \in EventStates
        /\ counter' \in Counter
        /\ UNCHANGED <<plates, tokens, served, audits, pc, job, seen, handed>>
    BY <1>1, FoodConstantsOK DEF vars, Transition, Expire, IInv, TypeOK, TablesOK, Counter
  <2> QED BY <2>1 DEF IInv, TypeOK, TablesOK, SessionsOK, JobShape, Token, LockInv,
                      PlatesAreOnRecord, ServedOf, TokensOf
<1>2. ASSUME NEW s \in Sessions, SessionStep(s) PROVE IInv'
  <2>1. CASE Begin(s)
    BY <2>1, BeginQuiet
  <2>2. CASE Run(s)
    BY <2>2, GenerateStep, CounterStep, ServeReads, ServeWriteStep, FlatWriteStep DEF Run
  <2>3. CASE Acquire(s)
    BY <2>3, GenerateStep, CounterStep, BookQuiet DEF Acquire
  <2>4. CASE Abort(s)
    BY <2>4, RollbackQuiet DEF Abort
  <2> QED BY <1>2, <2>1, <2>2, <2>3, <2>4 DEF SessionStep
<1> QED BY <1>1, <1>2 DEF Next, SessionStep

(* The inductive invariant holds in every reachable state.                    *)
LEMMA Invariance == Spec => []IInv
BY InitInv, InvStep, PTL DEF Spec

(* Rows, jobs and copies have the values they may have, and only generated      *)
(* tokens are served, for any number of sessions, flats and plates.             *)
THEOREM FoodTypeCorrect == Spec => []TypeOK
<1>1. IInv => TypeOK
  BY DEF IInv
<1> QED BY <1>1, Invariance, PTL

(* However many counters serve at once, every plate handed out is on record     *)
(* exactly once.                                                                *)
THEOREM PlatesCorrect == Spec => []PlatesAreOnRecord
<1>1. IInv => PlatesAreOnRecord
  BY DEF IInv
<1> QED BY <1>1, Invariance, PTL

-------------------------------------------------------------------------------
(* Plates over the entitlement.  A lookup gets past the count only while the   *)
(* audit rows it sees are fewer than the plates a pass can have; after that    *)
(* each session writes at most one row.                                        *)

Writing(f) == {s \in Sessions : pc[s] = "flatWrite" /\ job[s].flat = f}

Overrun(f) == (audits[f] - Earlier[f]) + Cardinality(Writing(f))

(* The plates of a flat, and those in flight, over all its events.             *)
LEMMA WritingFinite ==
  ASSUME TypeOK, NEW f \in Flats
  PROVE  /\ IsFiniteSet(Writing(f))
         /\ Cardinality(Writing(f)) \in Nat
         /\ Cardinality(Writing(f)) <= Cardinality(Sessions)
         /\ Cardinality(Sessions) \in Nat
         /\ audits[f] \in Nat /\ Earlier[f] \in Nat
         /\ MaxPlates \in Nat
<1>1. Writing(f) \in SUBSET Sessions
  BY DEF Writing
<1>2. IsFiniteSet(Sessions)
  BY FoodConstantsOK
<1>3. IsFiniteSet(Writing(f)) /\ Cardinality(Writing(f)) <= Cardinality(Sessions)
  BY <1>1, <1>2, FS_Subset
<1>4. Cardinality(Writing(f)) \in Nat /\ Cardinality(Sessions) \in Nat
  BY <1>2, <1>3, FS_CardinalityType
<1>5. audits[f] \in Nat /\ Earlier[f] \in Nat /\ MaxPlates \in Nat
  BY FoodConstantsOK DEF TypeOK, TablesOK
<1> QED BY <1>3, <1>4, <1>5

(* No step lets more lookups of a flat pass, unless they saw plates left; and  *)
(* a row is written by a lookup that had passed.                               *)
LEMMA OverrunKept ==
  ASSUME TypeOK, TypeOK', OverrunIsBounded, NEW f \in Flats,
         \/ Writing(f)' \subseteq Writing(f) /\ audits'[f] = audits[f]
         \/ audits[f] < MaxPlates /\ audits'[f] = audits[f]
         \/ \E s \in Writing(f) : /\ Writing(f)' \subseteq Writing(f) \ {s}
                                 /\ audits'[f] = audits[f] + 1
  PROVE  audits'[f] - Earlier[f] > 0 \/ Writing(f)' # {} =>
           Overrun(f)' <= MaxPlates + Cardinality(Sessions) - 1
<1>1. /\ IsFiniteSet(Writing(f))
      /\ Cardinality(Writing(f)) \in Nat
      /\ Cardinality(Sessions) \in Nat
      /\ audits[f] \in Nat /\ Earlier[f] \in Nat
      /\ MaxPlates \in Nat
  BY WritingFinite
<1>2. /\ IsFiniteSet(Writing(f)')
      /\ Cardinality(Writing(f)') \in Nat
      /\ Cardinality(Writing(f)') <= Cardinality(Sessions)
  <2>1. Writing(f)' \in SUBSET Sessions
    BY DEF Writing
  <2>2. IsFiniteSet(Sessions)
    BY FoodConstantsOK
  <2>3. IsFiniteSet(Writing(f)') /\ Cardinality(Writing(f)') <= Cardinality(Sessions)
    BY <2>1, <2>2, FS_Subset
  <2> QED BY <2>3, FS_CardinalityType
<1>3. audits[f] - Earlier[f] > 0 \/ Writing(f) # {} =>
        Overrun(f) <= MaxPlates + Cardinality(Sessions) - 1
  BY DEF OverrunIsBounded, Overrun, Writing
<1>4. Overrun(f)' = (audits'[f] - Earlier[f]) + Cardinality(Writing(f)')
  BY DEF Overrun
<1>5. CASE Writing(f)' \subseteq Writing(f) /\ audits'[f] = audits[f]
  <2>1. Cardinality(Writing(f)') <= Cardinality(Writing(f))
    BY <1>1, <1>5, FS_Subset
  <2> QED BY <1>1, <1>2, <1>3, <1>4, <1>5, <2>1 DEF Overrun
<1>6. CASE audits[f] < MaxPlates /\ audits'[f] = audits[f]
  BY <1>1, <1>2, <1>4, <1>6
<1>7. CASE \E s \in Writing(f) : /\ Writing(f)' \subseteq Writing(f) \ {s}
                                /\ audits'[f] = audits[f] + 1
  <2>1. PICK s \in Writing(f) : /\ Writing(f)' \subseteq Writing(f) \ {s}
                                /\ audits'[f] = audits[f] + 1
    BY <1>7
  <2>2. /\ IsFiniteSet(Writing(f) \ {s})
        /\ Cardinality(Writing(f) \ {s}) = Cardinality(Writing(f)) - 1
    BY <1>1, FS_RemoveElement
  <2>3. Cardinality(Writing(f)') <= Cardinality(Writing(f)) - 1
    BY <2>1, <2>2, FS_Subset
  <2> QED BY <1>1, <1>2, <1>3, <1>4, <2>1, <2>3 DEF Overrun
<1> QED BY <1>5, <1>6, <1>7

(* A session moves itself only.                                                *)
LEMMA OthersUntouched ==
  ASSUME SessionsOK, NEW s \in Sessions, SessionStep(s)
  PROVE  OthersStay(s)
BY DEF SessionsOK, OthersStay, SessionStep, Begin, Run, Acquire, Abort, BookBegin,
       VerifyBegin, FlatBegin, GenerateBegin, OpenBegin, Open, BookWrite, GenerateLock,
       GenerateCount, GeneratePlan, GenerateCommit, OpenRead, OpenInsert, OpenUpdate,
       ServeCounter, CloseExpired, ServeToken, ServeWrite, FlatToken, FlatRefused,
       FlatNoToken, FlatEntitled, FlatServed, FlatAudits, FlatWrite, Rollback, Close,
       Continue, Goto

(* Only the count of audit rows leads to the writing of one.                   *)
LEMMA OnlyAuditsPass ==
  ASSUME SessionsOK, NEW s \in Sessions, SessionStep(s), ~FlatAudits(s), ~FlatWrite(s)
  PROVE  pc'[s] # "flatWrite" /\ audits' = audits
BY DEF SessionsOK, SessionStep, Begin, Run, Acquire, Abort, BookBegin,
       VerifyBegin, FlatBegin, GenerateBegin, OpenBegin, Open, BookWrite, GenerateLock,
       GenerateCount, GeneratePlan, GenerateCommit, OpenRead, OpenInsert, OpenUpdate,
       ServeCounter, CloseExpired, ServeToken, ServeWrite, FlatToken, FlatRefused,
       FlatNoToken, FlatEntitled, FlatServed, Rollback, Close, Continue, Goto, tables

(* Every step of a session keeps the bound.                                    *)
LEMMA OverrunStep ==
  ASSUME IInv, IInv', OverrunIsBounded, NEW s \in Sessions, SessionStep(s)
  PROVE  OverrunIsBounded'
<1> SUFFICES ASSUME NEW f \in Flats
             PROVE  audits'[f] - Earlier[f] > 0 \/ Writing(f)' # {} =>
                      Overrun(f)' <= MaxPlates + Cardinality(Sessions) - 1
  BY DEF OverrunIsBounded, Writing, Overrun
<1>1. TypeOK /\ TypeOK' /\ SessionsOK /\ OthersStay(s)
  BY OthersUntouched DEF IInv, TypeOK
<1>2. CASE pc'[s] # "flatWrite" /\ audits' = audits
  <2>1. Writing(f)' \subseteq Writing(f)
    BY <1>1, <1>2 DEF Writing, OthersStay
  <2> QED BY <1>1, <1>2, <2>1, OverrunKept
<1>3. CASE FlatAudits(s) /\ ~Rollback(s)
  <2>1. /\ Continue(s, "flatWrite")
        /\ seen[s].entitled - (seen[s].eaten + audits[job[s].flat]) > 0
    BY <1>3 DEF FlatAudits
  <2>2. job[s].flat \in Flats
    BY <1>3 DEF FlatAudits, IInv, JobShape, LookupLabels, LookupJob
  <2>3. seen[s].entitled \in 0..MaxPlates /\ seen[s].eaten \in Nat
    BY <1>1 DEF SessionsOK, Seen
  <2>4. audits[job[s].flat] \in Nat /\ MaxPlates \in Nat
    BY <1>1, <2>2, FoodConstantsOK DEF TypeOK, TablesOK
  <2>5. audits[job[s].flat] < MaxPlates
    BY <2>1, <2>3, <2>4
  <2>6. audits' = audits /\ job'[s] = job[s]
    BY <2>1 DEF Continue, tables
  <2>7. CASE f = job[s].flat
    BY <1>1, <2>5, <2>6, <2>7, OverrunKept
  <2>8. CASE f # job[s].flat
    <3>1. Writing(f)' \subseteq Writing(f)
      BY <1>1, <2>6, <2>8 DEF Writing, OthersStay
    <3> QED BY <1>1, <2>6, <3>1, OverrunKept
  <2> QED BY <2>7, <2>8
<1>4. CASE FlatWrite(s)
  <2>1. pc[s] = "flatWrite" /\ pc'[s] = "idle" /\ audits' = [audits EXCEPT ![job[s].flat] = @ + 1]
    BY <1>1, <1>4, CloseFrame DEF FlatWrite
  <2>2. Writing(f)' \subseteq Writing(f) \ {s}
    BY <1>1, <2>1 DEF Writing, OthersStay
  <2>3. CASE f = job[s].flat
    <3>1. s \in Writing(f) /\ audits'[f] = audits[f] + 1
      BY <1>1, <2>1, <2>3 DEF Writing, TypeOK, TablesOK
    <3> QED BY <1>1, <2>2, <3>1, OverrunKept
  <2>4. CASE f # job[s].flat
    <3>1. audits'[f] = audits[f]
      BY <1>1, <2>1, <2>4 DEF TypeOK, TablesOK
    <3> QED BY <1>1, <2>2, <3>1, OverrunKept
  <2> QED BY <2>3, <2>4
<1>5. CASE Rollback(s)
  <2>1. pc'[s] = "idle" /\ audits' = audits
    BY <1>1, <1>5, CloseFrame DEF Rollback, tables
  <2> QED BY <1>2, <2>1
<1> QED BY <1>1, <1>2, <1>3, <1>4, <1>5, OnlyAuditsPass

(* However many sessions look one flat up at once, what it gets without tokens *)
(* passes the largest booking by less than one plate for each of them.         *)
THEOREM OverrunCorrect == Spec => []OverrunIsBounded
<1>1. Init => OverrunIsBounded
  <2> SUFFICES ASSUME Init, NEW f \in Flats
               PROVE  audits[f] - Earlier[f] = 0 /\ Writing(f) = {}
    BY DEF OverrunIsBounded, Writing
  <2>1. Earlier[f] \in Nat
    BY FoodConstantsOK
  <2> QED BY <2>1 DEF Init, Writing
<1>2. IInv /\ IInv' /\ OverrunIsBounded /\ [Next]_vars => OverrunIsBounded'
  <2>1. CASE UNCHANGED <<audits, pc, job>>
    BY <2>1 DEF OverrunIsBounded
  <2>2. UNCHANGED vars \/ Transition \/ Expire => UNCHANGED <<audits, pc, job>>
    BY DEF vars, Transition, Expire
  <2> QED BY <2>1, <2>2, OverrunStep DEF Next, SessionStep
<1> QED BY <1>1, <1>2, Invariance, PTL DEF Spec

-------------------------------------------------------------------------------
(* The promise of PlateBook is kept *)

Manual == [f \in Flats |-> audits[f] - Earlier[f]]

(* The steps that only read, and those that write other tables.                *)
LEMMA StutterSteps ==
  ASSUME NEW s \in Sessions, SessionStep(s),
         ~GenerateCommit(s), ~FlatWrite(s), ~ServeWrite(s)
  PROVE  BookStays
BY DEF SessionStep, Begin, Run, Acquire, Abort, BookBegin, VerifyBegin, FlatBegin,
       GenerateBegin, OpenBegin, Open, BookWrite, GenerateLock, GenerateCount,
       GeneratePlan, OpenRead, OpenInsert, OpenUpdate, ServeCounter, CloseExpired,
       ServeToken, FlatToken, FlatRefused, FlatNoToken, FlatEntitled, FlatServed,
       FlatAudits, Rollback, Continue, tables, BookStays

(* Steps that leave the book alone are stutters of PlateBook.                 *)
LEMMA StutterMaps == BookStays => UNCHANGED Book!vars
<1> SUFFICES ASSUME BookStays PROVE UNCHANGED Book!vars
  OBVIOUS
<1>1. Manual' = Manual
  BY DEF BookStays, Manual
<1> QED BY <1>1 DEF BookStays, Book!vars, Manual

(* Generating is an Issue, serving a token a Use, serving a flat without one  *)
(* a HandWithoutToken, and anything else a stutter.                           *)
LEMMA SessionMaps ==
  ASSUME IInv, NEW s \in Sessions, SessionStep(s)
  PROVE  [Book!Next]_(Book!vars)
<1>1. CASE GenerateCommit(s)
  <2>1. tokens = {} /\ tokens' \in SUBSET TokenIds
    BY <1>1, FirstTokens DEF GenerateCommit, IInv, LockInv, TypeOK, SessionsOK, Seen
  <2>2. Manual' = Manual
    BY <1>1 DEF GenerateCommit, Manual
  <2>3. Book!Issue
    BY <1>1, <2>1, <2>2 DEF GenerateCommit, Book!Issue, Manual
  <2> QED BY <2>3 DEF Book!Next
<1>2. CASE FlatWrite(s)
  <2>1. PICK f \in Flats : f = job[s].flat
    BY <1>2 DEF FlatWrite, IInv, JobShape, LookupLabels, LookupJob
  <2>2. audits \in [Flats -> Nat] /\ audits' = [audits EXCEPT ![f] = @ + 1]
    BY <1>2, <2>1 DEF FlatWrite, IInv, TypeOK, TablesOK
  <2>3. \A g \in Flats : audits'[g] - Earlier[g] =
          IF g = f THEN (audits[g] - Earlier[g]) + 1 ELSE audits[g] - Earlier[g]
    <3> TAKE g \in Flats
    <3>1. audits[g] \in Nat
      BY <2>2
    <3>2. Earlier[g] \in Nat
      BY FoodConstantsOK
    <3>3. audits'[g] = IF g = f THEN audits[g] + 1 ELSE audits[g]
      BY <2>2
    <3> QED BY <3>1, <3>2, <3>3
  <2>4. Manual' = [Manual EXCEPT ![f] = @ + 1]
    BY <2>3 DEF Manual
  <2>5. Book!HandWithoutToken(f)
    BY <1>2, <2>1, <2>4 DEF FlatWrite, Book!HandWithoutToken, Manual
  <2> QED BY <2>5 DEF Book!Next
<1>3. CASE ServeWrite(s)
  <2>1. CASE Rollback(s)
    BY <2>1, StutterMaps DEF Rollback, tables, BookStays
  <2>2. CASE ~Rollback(s)
    <3>1. PICK t \in TokenIds : t = Token(s) /\ t \in tokens /\ t[1] = job[s].flat
      BY <1>3 DEF ServeWrite, IInv, JobShape, TypeOK, TablesOK, Token
    <3>2. Manual' = Manual
      BY <1>3, <2>2 DEF ServeWrite, Manual
    <3>3. Book!Use(t)
      BY <1>3, <2>2, <3>1, <3>2 DEF ServeWrite, Book!Use, Manual
    <3> QED BY <3>3 DEF Book!Next
  <2> QED BY <2>1, <2>2
<1>4. CASE ~GenerateCommit(s) /\ ~FlatWrite(s) /\ ~ServeWrite(s)
  BY <1>4, StutterSteps, StutterMaps
<1> QED BY <1>1, <1>2, <1>3, <1>4

(* Tokens of an event are issued once and every plate is recorded by the commit *)
(* that hands it out: the food counter implements PlateBook.                    *)
THEOREM BookRefinement == Spec => ImplementsPlateBook
<1>1. Init => Book!Init
  <2> SUFFICES ASSUME Init PROVE Book!Init
    OBVIOUS
  <2>1. \A f \in Flats : audits[f] - Earlier[f] = 0
    BY FoodConstantsOK DEF Init
  <2> QED BY <2>1 DEF Init, Book!Init
<1>2. IInv /\ [Next]_vars => [Book!Next]_(Book!vars)
  <2> SUFFICES ASSUME IInv, [Next]_vars PROVE [Book!Next]_(Book!vars)
    OBVIOUS
  <2>1. CASE UNCHANGED vars \/ Transition \/ Expire
    BY <2>1, StutterMaps DEF vars, Transition, Expire, BookStays
  <2>2. ASSUME NEW s \in Sessions, SessionStep(s) PROVE [Book!Next]_(Book!vars)
    BY <2>2, SessionMaps
  <2> QED BY <2>1, <2>2 DEF Next, SessionStep
<1> QED BY <1>1, <1>2, Invariance, PTL DEF Spec, ImplementsPlateBook, Book!Spec
===============================================================================
