-------------------------- MODULE ChatDialogues_proofs --------------------------
(***************************************************************************)
(* The guided dialogues of any sender, with any number of threads,         *)
(* questions and events: every dictionary holds dialogues of its own kind  *)
(* at one of their steps, and as long as no two messages overlap a         *)
(* dialogue's request is carried out once, with every answer given.        *)
(***************************************************************************)
EXTENDS ChatDialogues, TLAPS

-------------------------------------------------------------------------------
(* What the program's own steps establish. *)

Record == [topic : Topics, step : StepNames, answered : SUBSET StepNames, carried : 0..2,
           complete : BOOLEAN]

(* A question whose answer carries the request out at once.                *)
OneAnswer == {"PAY_CUSTOM", "REFUND_REQUEST", "ADD_PASS_COUNTS"}
Guided == PendingTopics \cup {"ADD_EVENT"}

(* The dialogue is at a step of its topic, after those already answered.   *)
WellStepped(d) ==
  /\ d.step \in StepSet(d.topic)
  /\ d.answered \subseteq StepSet(d.topic)
  /\ d.topic \in PendingTopics => Before(d.topic, d.step) \subseteq d.answered
  /\ d.topic = "JOIN" /\ d.step = "flat" => "code" \in d.answered

DialoguesTyped ==
  /\ dialogue \in Seq(Record) /\ Asked <= MaxAsked
  /\ \A q \in 1..Asked : WellStepped(dialogue[q])

StoresTyped ==
  /\ setup \in Setups
  /\ event \in EventStates \cup {"none"} /\ events \in 0..MaxEvents
  /\ shown \subseteq Topics
  /\ AskedIn(join, {"JOIN"}) /\ AskedIn(finance, FinanceTopics)
  /\ AskedIn(creation, {"ADD_EVENT"}) /\ AskedIn(pending, PendingTopics)
  /\ export \in BOOLEAN /\ alone \in BOOLEAN

(* What the dialogue a thread has found is about, and how far it was.      *)
About(rec, topics) == rec.q \in 1..Asked /\ dialogue[rec.q].topic \in topics

Knows(rec) ==
  /\ rec.at = "code" => About(rec, {"JOIN"})
  /\ rec.at \in {"handler", "service", "after"} =>
       /\ rec.then \in {"nothing", "end join", "end finance", "end if done"}
       /\ rec.then = "nothing" =>
            rec.intent \notin {"JOIN", "ADD_PASS", "PAY", "REFUND"} /\ rec.at # "after"
       /\ rec.then = "end join" => About(rec, {"JOIN"}) /\ dialogue[rec.q].step = "flat"
       /\ rec.then \in {"end finance", "end if done"} => About(rec, OneAnswer)
  /\ rec.at \in {"handler", "service"} /\ rec.then # "nothing" =>
       rec.intent \in {"JOIN", "ADD_PASS", "PAY", "REFUND", "unknown"}
  /\ rec.at \in {"reply", "served"} =>
       /\ About(rec, Guided)
       /\ rec.step \in StepSet(dialogue[rec.q].topic)
       /\ dialogue[rec.q].topic \in PendingTopics =>
            Before(dialogue[rec.q].topic, rec.step) \subseteq dialogue[rec.q].answered
  /\ rec.at = "handler" => rec.intent # "COMMITTEE_PENDING_ACTION"
  /\ rec.at = "service" => rec.intent \in {"JOIN", "ADD_PASS", "PAY", "REFUND", "EXPORT_SELECTION"}
  /\ rec.at = "served" =>
       /\ dialogue[rec.q].topic \in {"ADD_EVENT", "REFUND_SPONSOR"}
       /\ rec.then \in {"done", "failed", "needs override"}
       /\ rec.then = "needs override" => rec.step = "reason"

ThreadsTyped ==
  /\ thread \in [Threads -> ThreadState]
  /\ \A t \in Threads : Knows(thread[t])

ChatTypes == DialoguesTyped /\ StoresTyped /\ ThreadsTyped

-------------------------------------------------------------------------------
(* While no two messages overlap. *)

QuietBut(t) == \A u \in Threads \ {t} : thread[u] = Idle

OneBusy == alone => \A t \in Threads : thread[t] # Idle => QuietBut(t)

(* Once, completely, and in order.                                         *)
DialoguesSound ==
  alone => \A q \in 1..Asked :
    /\ dialogue[q].carried <= 1 /\ dialogue[q].complete
    /\ dialogue[q].topic = "ADD_EVENT" =>
         Before("ADD_EVENT", dialogue[q].step) \subseteq dialogue[q].answered

(* The dictionary a guided dialogue is kept in.                            *)
Kept(q) == IF dialogue[q].topic = "ADD_EVENT" THEN creation ELSE pending
Fresh(q) == dialogue[q].carried = 0

(* An open dialogue has not been carried out, but for the one that the     *)
(* thread at work, rec, has just carried out and is about to drop.         *)
Follows(rec) ==
  /\ \A q \in 1..Asked : Open(q) =>
       Fresh(q) \/ (rec.at \in {"after", "served"} /\ rec.q = q)
  /\ rec.at \in {"code", "handler", "service", "after"} =>
       /\ rec.at = "code" \/ rec.then = "end join" => rec.q = join
       /\ rec.at # "code" /\ rec.then \in {"end finance", "end if done"} => rec.q = finance
       /\ rec.at # "after" /\ (rec.at = "code" \/ rec.then # "nothing") => Fresh(rec.q)
  /\ rec.at \in {"reply", "served"} =>
       /\ rec.q = Kept(rec.q)
       /\ rec.step = dialogue[rec.q].step
       /\ rec.at = "reply" \/ rec.then # "done" => Fresh(rec.q)

OneFollows == alone => \A t \in Threads : QuietBut(t) => Follows(thread[t])

AloneIInv == OneBusy /\ DialoguesSound /\ OneFollows

-------------------------------------------------------------------------------
(***************************************************************************)
(* The steps of a dialogue: each occurs once, and they follow one another. *)
(***************************************************************************)
LEMMA TopicsAre ==
  /\ PendingTopics = {"ADD_EXPENSE", "ADD_SPONSOR", "REFUND_SPONSOR", "REMIND_FLAT",
                      "ANNOUNCE_EVENT", "ANNOUNCE_SOCIETY"}
  /\ Topics = {"VIEW_BALANCE", "MAKE_PAYMENT", "PAY_CUSTOM", "REFUND_REQUEST", "ADD_PASS_COUNTS",
               "ADD_EXPENSE", "ADD_SPONSOR", "REFUND_SPONSOR", "REMIND_FLAT", "ANNOUNCE_EVENT",
               "ANNOUNCE_SOCIETY", "REPORT_OPTIONS", "SUMMARY", "ADD_EVENT", "JOIN"}
<1>1. PendingTopics = {"ADD_EXPENSE", "ADD_SPONSOR", "REFUND_SPONSOR", "REMIND_FLAT",
                       "ANNOUNCE_EVENT", "ANNOUNCE_SOCIETY"}
  BY DEF PendingTopics, PendingSteps
<1> QED BY <1>1 DEF Topics, FinanceTopics, Selections, Commands, Reports

(* The steps of each topic, in the order in which they are asked.           *)
LEMMA StepsAre ==
  /\ StepsOf("ADD_EVENT") = <<"name", "event_date", "food_types", "charge_per_adult",
                              "charge_per_child", "payment_deadline">>
  /\ StepsOf("JOIN") = <<"code", "flat">>
  /\ StepsOf("ADD_EXPENSE") = <<"reason", "amount">>
  /\ StepsOf("ADD_SPONSOR") = <<"sponsor_type", "sponsor_name", "amount_or_details">>
  /\ StepsOf("REFUND_SPONSOR") = <<"contribution_code", "amount", "reason", "override_reason">>
  /\ StepsOf("REMIND_FLAT") = <<"flat_number">>
  /\ StepsOf("ANNOUNCE_EVENT") = <<"message_body">>
  /\ StepsOf("ANNOUNCE_SOCIETY") = <<"message_body">>
  /\ \A topic \in Selections : StepsOf(topic) = <<"event", "selected">>
  /\ \A topic \in OneAnswer \cup Reports : StepsOf(topic) = <<"answer">>
<1>1. StepsOf("ADD_EVENT") = WizardSteps
  BY DEF StepsOf
<1>2. StepsOf("JOIN") = <<"code", "flat">>
  BY TopicsAre DEF StepsOf
<1>3. \A topic \in PendingTopics : StepsOf(topic) = PendingSteps[topic]
  BY TopicsAre DEF StepsOf
<1>4. \A topic \in Selections : StepsOf(topic) = <<"event", "selected">>
  BY TopicsAre DEF StepsOf, Selections
<1>5. \A topic \in OneAnswer \cup Reports : StepsOf(topic) = <<"answer">>
  BY TopicsAre DEF StepsOf, OneAnswer, Reports, Selections
<1> QED BY <1>1, <1>2, <1>3, <1>4, <1>5, TopicsAre DEF WizardSteps, PendingSteps

(* A list of different steps.                                              *)
Listed(s) == /\ DOMAIN s = 1..Len(s) /\ Len(s) \in Nat \ {0}
             /\ \A i, j \in 1..Len(s) : s[i] = s[j] => i = j

(* They are named steps, at least one, and none is asked twice.             *)
LEMMA StepsListed == \A topic \in Topics : Listed(StepsOf(topic))
<1>1. Listed(StepsOf("ADD_EVENT"))
  <2> SUFFICES ASSUME NEW s, s = <<"name", "event_date", "food_types", "charge_per_adult",
                                   "charge_per_child", "payment_deadline">>
               PROVE  Listed(s)
    BY StepsAre
  <2>1. Len(s) = 6 /\ DOMAIN s = 1..6 /\ 6 \in Nat \ {0}
    OBVIOUS
  <2>2. \A i, j \in 1..6 : s[i] = s[j] => i = j
    OBVIOUS
  <2>3. Len(s) \in Nat \ {0} /\ DOMAIN s = 1..Len(s)
    BY <2>1
  <2>4. \A i, j \in 1..Len(s) : s[i] = s[j] => i = j
    BY <2>1, <2>2, Zenon
  <2> QED BY <2>3, <2>4, Zenon DEF Listed
<1>2. Listed(StepsOf("REFUND_SPONSOR"))
  <2> SUFFICES ASSUME NEW s, s = <<"contribution_code", "amount", "reason", "override_reason">>
               PROVE  Listed(s)
    BY StepsAre
  <2>1. Len(s) = 4 /\ DOMAIN s = 1..4 /\ 4 \in Nat \ {0}
    OBVIOUS
  <2>2. \A i, j \in 1..4 : s[i] = s[j] => i = j
    OBVIOUS
  <2>3. Len(s) \in Nat \ {0} /\ DOMAIN s = 1..Len(s)
    BY <2>1
  <2>4. \A i, j \in 1..Len(s) : s[i] = s[j] => i = j
    BY <2>1, <2>2, Zenon
  <2> QED BY <2>3, <2>4, Zenon DEF Listed
<1>3. Listed(StepsOf("ADD_SPONSOR"))
  <2> SUFFICES ASSUME NEW s, s = <<"sponsor_type", "sponsor_name", "amount_or_details">>
               PROVE  Listed(s)
    BY StepsAre
  <2>1. Len(s) = 3 /\ DOMAIN s = 1..3 /\ 3 \in Nat \ {0}
    OBVIOUS
  <2>2. \A i, j \in 1..3 : s[i] = s[j] => i = j
    OBVIOUS
  <2>3. Len(s) \in Nat \ {0} /\ DOMAIN s = 1..Len(s)
    BY <2>1
  <2>4. \A i, j \in 1..Len(s) : s[i] = s[j] => i = j
    BY <2>1, <2>2, Zenon
  <2> QED BY <2>3, <2>4, Zenon DEF Listed
<1>4. \A a, b : a # b => Listed(<<a, b>>)
  <2> SUFFICES ASSUME NEW a, NEW b, a # b, NEW s, s = <<a, b>>
               PROVE  Listed(s)
    OBVIOUS
  <2>1. Len(s) = 2 /\ DOMAIN s = 1..2 /\ 2 \in Nat \ {0}
    OBVIOUS
  <2>2. \A i, j \in 1..2 : s[i] = s[j] => i = j
    OBVIOUS
  <2>3. Len(s) \in Nat \ {0} /\ DOMAIN s = 1..Len(s)
    BY <2>1
  <2>4. \A i, j \in 1..Len(s) : s[i] = s[j] => i = j
    BY <2>1, <2>2, Zenon
  <2> QED BY <2>3, <2>4, Zenon DEF Listed
<1>5. \A a : Listed(<<a>>)
  <2> SUFFICES ASSUME NEW a, NEW s, s = <<a>>
               PROVE  Listed(s)
    OBVIOUS
  <2>1. Len(s) = 1 /\ DOMAIN s = 1..1 /\ 1 \in Nat \ {0}
    OBVIOUS
  <2>2. \A i, j \in 1..1 : s[i] = s[j] => i = j
    OBVIOUS
  <2>3. Len(s) \in Nat \ {0} /\ DOMAIN s = 1..Len(s)
    BY <2>1
  <2>4. \A i, j \in 1..Len(s) : s[i] = s[j] => i = j
    BY <2>1, <2>2, Zenon
  <2> QED BY <2>3, <2>4, Zenon DEF Listed
<1>6. \A topic \in {"JOIN", "ADD_EXPENSE"} \cup Selections : Listed(StepsOf(topic))
  BY <1>4, StepsAre
<1>7. \A topic \in {"REMIND_FLAT", "ANNOUNCE_EVENT", "ANNOUNCE_SOCIETY"} \cup OneAnswer \cup Reports :
        Listed(StepsOf(topic))
  BY <1>5, StepsAre
<1> QED BY <1>1, <1>2, <1>3, <1>6, <1>7, TopicsAre DEF Selections, OneAnswer, Reports

(* The steps of a topic as a set.                                           *)
LEMMA StepSetIs ==
  ASSUME NEW topic \in Topics
  PROVE  /\ StepSet(topic) \subseteq StepNames
         /\ \A i \in 1..Len(StepsOf(topic)) : StepsOf(topic)[i] \in StepSet(topic)
         /\ \A step \in StepSet(topic) : \E i \in 1..Len(StepsOf(topic)) : step = StepsOf(topic)[i]
         /\ First(topic) \in StepSet(topic)
<1>1. Listed(StepsOf(topic))
  BY StepsListed
<1>2. DOMAIN StepsOf(topic) = 1..Len(StepsOf(topic))
  BY <1>1 DEF Listed
<1>3. 1 \in 1..Len(StepsOf(topic))
  BY <1>1 DEF Listed
<1>4. StepSet(topic) \subseteq StepNames
  BY DEF StepNames
<1> QED BY <1>2, <1>3, <1>4 DEF StepSet, First

(* Where a step is, which steps are before it and which one follows.        *)
LEMMA PositionIs ==
  ASSUME NEW topic \in Topics, NEW i \in 1..Len(StepsOf(topic))
  PROVE  /\ Position(topic, StepsOf(topic)[i]) = i
         /\ Before(topic, StepsOf(topic)[i]) = {StepsOf(topic)[j] : j \in 1..i - 1}
         /\ After(topic, StepsOf(topic)[i]) = StepsOf(topic)[i + 1]
<1>1. Listed(StepsOf(topic))
  BY StepsListed
<1>2. DOMAIN StepsOf(topic) = 1..Len(StepsOf(topic))
  BY <1>1 DEF Listed
<1>3. Position(topic, StepsOf(topic)[i]) = i
  BY <1>1, <1>2 DEF Position, Listed
<1> QED BY <1>3 DEF Before, After

(* The steps before a step of a topic are steps of it.                      *)
LEMMA BeforeIsSteps ==
  ASSUME NEW topic \in Topics, NEW step \in StepSet(topic)
  PROVE  Before(topic, step) \subseteq StepSet(topic)
<1>1. PICK i \in 1..Len(StepsOf(topic)) : step = StepsOf(topic)[i]
  BY StepSetIs
<1>2. Len(StepsOf(topic)) \in Nat
  BY StepsListed DEF Listed
<1>3. Before(topic, step) = {StepsOf(topic)[j] : j \in 1..i - 1}
  BY <1>1, PositionIs
<1> QED BY <1>2, <1>3, StepSetIs

(* An answer that is not the last leads to the next step, and completes    *)
(* the steps before it.                                                    *)
LEMMA NextStepIs ==
  ASSUME NEW topic \in Guided, NEW step \in StepSet(topic),
         step \notin {Last(topic), "override_reason"}
  PROVE  /\ After(topic, step) \in StepSet(topic)
         /\ Before(topic, After(topic, step)) \subseteq Before(topic, step) \cup {step}
<1>0. topic \in Topics
  BY TopicsAre DEF Guided
<1>1. PICK i \in 1..Len(StepsOf(topic)) : step = StepsOf(topic)[i]
  BY <1>0, StepSetIs
<1>2. Len(StepsOf(topic)) \in Nat
  BY <1>0, StepsListed DEF Listed
<1>3. i # Len(StepsOf(topic))
  <2>1. CASE topic = "REFUND_SPONSOR"
    <3>1. Last(topic) = "reason"
      BY <2>1 DEF Last
    <3>2. Len(StepsOf(topic)) = 4 /\ StepsOf(topic)[4] = "override_reason"
      BY <2>1, StepsAre
    <3> QED BY <1>1, <3>2
  <2>2. CASE topic # "REFUND_SPONSOR"
    BY <1>1, <2>2 DEF Last
  <2> QED BY <2>1, <2>2
<1>4. i + 1 \in 1..Len(StepsOf(topic))
  BY <1>2, <1>3
<1>5. /\ After(topic, step) = StepsOf(topic)[i + 1]
      /\ Before(topic, step) = {StepsOf(topic)[j] : j \in 1..i - 1}
      /\ Before(topic, StepsOf(topic)[i + 1]) = {StepsOf(topic)[j] : j \in 1..(i + 1) - 1}
  BY <1>0, <1>1, <1>4, PositionIs
<1>6. \A j \in 1..(i + 1) - 1 : j \in 1..i - 1 \/ j = i
  BY <1>2
<1> QED BY <1>0, <1>1, <1>4, <1>5, <1>6, StepSetIs

(* The last question of a dialogue, and what has been asked before it.     *)
LEMMA LastStepIs ==
  /\ \A topic \in PendingTopics \ {"REFUND_SPONSOR"} : Last(topic) \in StepSet(topic)
  /\ Last("REFUND_SPONSOR") = "reason" /\ Last("ADD_EVENT") = "payment_deadline"
  /\ "override_reason" \notin StepSet("ADD_EVENT") /\ "reason" \notin StepSet("ADD_EVENT")
  /\ {"reason", "override_reason"} \subseteq StepSet("REFUND_SPONSOR")
  /\ Before("REFUND_SPONSOR", "override_reason") = Before("REFUND_SPONSOR", "reason") \cup {"reason"}
  /\ Before("JOIN", Last("JOIN")) = {"code"}
  /\ \A topic \in OneAnswer : Before(topic, Last(topic)) = {}
<1>1. \A topic \in PendingTopics \ {"REFUND_SPONSOR"} : Last(topic) \in StepSet(topic)
  <2> SUFFICES ASSUME NEW topic \in PendingTopics, topic # "REFUND_SPONSOR"
               PROVE  Last(topic) \in StepSet(topic)
    OBVIOUS
  <2>1. topic \in Topics
    BY TopicsAre
  <2>2. Len(StepsOf(topic)) \in 1..Len(StepsOf(topic))
    BY <2>1, StepsListed DEF Listed
  <2> QED BY <2>1, <2>2, StepSetIs DEF Last
<1>2. Last("REFUND_SPONSOR") = "reason" /\ Last("ADD_EVENT") = "payment_deadline"
  <2>1. Last("ADD_EVENT") = StepsOf("ADD_EVENT")[Len(StepsOf("ADD_EVENT"))]
    BY DEF Last
  <2>2. Last("REFUND_SPONSOR") = "reason"
    BY DEF Last
  <2>3. Len(StepsOf("ADD_EVENT")) = 6 /\ StepsOf("ADD_EVENT")[6] = "payment_deadline"
    BY StepsAre
  <2> QED BY <2>1, <2>2, <2>3
<1>3. "override_reason" \notin StepSet("ADD_EVENT") /\ "reason" \notin StepSet("ADD_EVENT")
  BY StepsAre DEF StepSet
<1>4. "REFUND_SPONSOR" \in Topics /\ "JOIN" \in Topics /\ OneAnswer \subseteq Topics
  BY TopicsAre DEF OneAnswer
<1>5. /\ "reason" = StepsOf("REFUND_SPONSOR")[3] /\ 3 \in 1..Len(StepsOf("REFUND_SPONSOR"))
      /\ "override_reason" = StepsOf("REFUND_SPONSOR")[4]
      /\ 4 \in 1..Len(StepsOf("REFUND_SPONSOR"))
  BY StepsAre
<1>6. {"reason", "override_reason"} \subseteq StepSet("REFUND_SPONSOR")
  BY <1>4, <1>5, StepSetIs
<1>7. Before("REFUND_SPONSOR", "override_reason") = Before("REFUND_SPONSOR", "reason") \cup {"reason"}
  <2>1. Before("REFUND_SPONSOR", "reason") = {StepsOf("REFUND_SPONSOR")[j] : j \in 1..3 - 1}
    BY <1>4, <1>5, PositionIs
  <2>2. Before("REFUND_SPONSOR", "override_reason") = {StepsOf("REFUND_SPONSOR")[j] : j \in 1..4 - 1}
    BY <1>4, <1>5, PositionIs
  <2>3. \A j : j \in 1..4 - 1 <=> (j \in 1..3 - 1 \/ j = 3)
    OBVIOUS
  <2> QED BY <1>5, <2>1, <2>2, <2>3
<1>8. Before("JOIN", Last("JOIN")) = {"code"}
  <2>0. StepsOf("JOIN") = <<"code", "flat">> /\ Last("JOIN") = StepsOf("JOIN")[Len(StepsOf("JOIN"))]
    BY StepsAre DEF Last
  <2>1. Last("JOIN") = StepsOf("JOIN")[2] /\ 2 \in 1..Len(StepsOf("JOIN")) /\ StepsOf("JOIN")[1] = "code"
    BY <2>0
  <2>2. Before("JOIN", Last("JOIN")) = {StepsOf("JOIN")[j] : j \in 1..2 - 1}
    BY <1>4, <2>1, PositionIs
  <2>3. 1..2 - 1 = {1}
    OBVIOUS
  <2> QED BY <2>1, <2>2, <2>3
<1>9. ASSUME NEW topic \in OneAnswer PROVE Before(topic, Last(topic)) = {}
  <2>1. Last(topic) = StepsOf(topic)[1] /\ 1 \in 1..Len(StepsOf(topic))
    BY StepsAre DEF Last, OneAnswer
  <2>0. topic \in Topics
    BY <1>4
  <2>2. Before(topic, Last(topic)) = {StepsOf(topic)[j] : j \in 1..1 - 1}
    BY <2>0, <2>1, PositionIs
  <2> QED BY <2>2
<1> QED BY <1>1, <1>2, <1>3, <1>6, <1>7, <1>8, <1>9

-------------------------------------------------------------------------------
(***************************************************************************)
(* Dialogues are opened and move on; none is forgotten.                    *)
(***************************************************************************)
Further(d, e) ==
  /\ e.topic = d.topic
  /\ d.topic \in PendingTopics => d.answered \subseteq e.answered
  /\ d.topic = "JOIN" /\ d.step = "flat" => e.step = "flat"

Grows ==
  /\ Asked' \in Nat /\ Asked <= Asked'
  /\ \A q \in 1..Asked : Further(dialogue[q], dialogue'[q])

(* Every dialogue asked is a record at one of its topic's steps.            *)
LEMMA RecordsAre ==
  ASSUME DialoguesTyped
  PROVE  /\ Asked \in 0..MaxAsked
         /\ \A q \in 1..Asked : dialogue[q] \in Record /\ WellStepped(dialogue[q])
BY DialogueAssumption DEF DialoguesTyped, Asked

(* Dialogues that stay the same have only grown.                            *)
LEMMA SameGrows == DialoguesTyped /\ UNCHANGED dialogue => Grows
BY RecordsAre DEF Grows, Further, Asked

(* A new dialogue has its answers and was not carried out.                  *)
LEMMA NewRecord ==
  ASSUME NEW topic \in Topics, NEW step \in StepSet(topic), NEW answered \in SUBSET StepSet(topic)
  PROVE  /\ NewDialogue(topic, step, answered) \in Record
         /\ NewDialogue(topic, step, answered) =
              [topic |-> topic, step |-> step, answered |-> answered, carried |-> 0, complete |-> TRUE]
<1>1. StepSet(topic) \subseteq StepNames
  BY StepSetIs
<1>2. step \in StepNames /\ answered \in SUBSET StepNames
  BY <1>1
<1> QED BY <1>2 DEF NewDialogue, Record

(* A dialogue more leaves those before as they are.                         *)
LEMMA AppendDoes ==
  ASSUME DialoguesTyped, Asked < MaxAsked, NEW d \in Record, WellStepped(d),
         dialogue' = Append(dialogue, d)
  PROVE  /\ DialoguesTyped' /\ Grows
         /\ Asked' = Asked + 1 /\ dialogue'[Asked + 1] = d
         /\ \A q \in 1..Asked : dialogue'[q] = dialogue[q]
<1>1. dialogue \in Seq(Record) /\ Asked \in Nat /\ MaxAsked \in Nat
  BY DialogueAssumption DEF DialoguesTyped, Asked
<1>2. /\ dialogue' \in Seq(Record) /\ Asked' = Asked + 1 /\ dialogue'[Asked + 1] = d
      /\ \A q \in 1..Asked : dialogue'[q] = dialogue[q]
  BY <1>1 DEF Asked
<1>3. \A q \in 1..Asked' : q \in 1..Asked \/ q = Asked + 1
  BY <1>1, <1>2
<1>4. \A q \in 1..Asked' : WellStepped(dialogue'[q])
  BY <1>2, <1>3, RecordsAre
<1>5. Asked' <= MaxAsked /\ Asked <= Asked' /\ Asked' \in Nat
  BY <1>1, <1>2
<1>6. DialoguesTyped'
  BY <1>2, <1>4, <1>5 DEF DialoguesTyped, WellStepped
<1> QED BY <1>2, <1>5, <1>6 DEF Grows, Further

(* A dialogue that goes on keeps its topic and its answers; the others      *)
(* stay.                                                                    *)
LEMMA ChangeDoes ==
  ASSUME DialoguesTyped, NEW q \in 1..Asked, NEW d \in Record, WellStepped(d),
         Further(dialogue[q], d), dialogue' = [dialogue EXCEPT ![q] = d]
  PROVE  /\ DialoguesTyped' /\ Grows
         /\ Asked' = Asked /\ dialogue'[q] = d
         /\ \A p \in 1..Asked : p # q => dialogue'[p] = dialogue[p]
<1>1. dialogue \in Seq(Record) /\ Asked \in Nat
  BY DEF DialoguesTyped, Asked
<1>2. /\ dialogue' \in Seq(Record) /\ Asked' = Asked /\ dialogue'[q] = d
      /\ \A p \in 1..Asked : p # q => dialogue'[p] = dialogue[p]
  BY <1>1 DEF Asked
<1>3. \A p \in 1..Asked' : WellStepped(dialogue'[p])
  BY <1>2, RecordsAre
<1>4. DialoguesTyped'
  BY <1>2, <1>3 DEF DialoguesTyped, WellStepped
<1>5. \A p \in 1..Asked : Further(dialogue[p], dialogue'[p])
  BY <1>2 DEF Further
<1> QED BY <1>1, <1>2, <1>4, <1>5 DEF Grows

(* What a thread has found out about its dialogue stays true.              *)
LEMMA KnowsStays ==
  ASSUME DialoguesTyped, Grows, NEW rec \in ThreadState, Knows(rec)
  PROVE  Knows(rec)'
<1>1. Asked \in Nat /\ Asked' \in Nat /\ rec.q \in Nat
  <2>1. Asked \in 0..MaxAsked /\ MaxAsked \in Nat
    BY RecordsAre, DialogueAssumption
  <2>2. rec.q \in 0..MaxAsked
    BY DEF ThreadState
  <2>3. Asked' \in Nat
    BY DEF Grows
  <2> QED BY <2>1, <2>2, <2>3
<1>2. \A topics : About(rec, topics) =>
        /\ About(rec, topics)'
        /\ dialogue'[rec.q].topic = dialogue[rec.q].topic
        /\ (dialogue[rec.q].topic \in PendingTopics =>
              dialogue[rec.q].answered \subseteq dialogue'[rec.q].answered)
        /\ (dialogue[rec.q].topic = "JOIN" /\ dialogue[rec.q].step = "flat" =>
              dialogue'[rec.q].step = "flat")
  BY <1>1 DEF About, Grows, Further
<1>3. CASE rec.at \notin {"code", "handler", "service", "after", "reply", "served"}
  BY <1>3 DEF Knows
<1>4. CASE rec.at = "code"
  BY <1>2, <1>4 DEF Knows
<1>5. CASE rec.at \in {"handler", "service", "after"}
  <2>1. rec.then = "end join" =>
          (About(rec, {"JOIN"}))' /\ dialogue'[rec.q].step = "flat"
    BY <1>2, <1>5 DEF Knows, About
  <2>2. rec.then \in {"end finance", "end if done"} => (About(rec, OneAnswer))'
    BY <1>2, <1>5 DEF Knows
  <2> QED BY <1>5, <2>1, <2>2 DEF Knows
<1>6. CASE rec.at \in {"reply", "served"}
  <2>1. About(rec, Guided)
    BY <1>6 DEF Knows
  <2>2. (About(rec, Guided))' /\ dialogue'[rec.q].topic = dialogue[rec.q].topic
    BY <1>2, <2>1
  <2>3. dialogue[rec.q].topic \in PendingTopics =>
          dialogue[rec.q].answered \subseteq dialogue'[rec.q].answered
    BY <1>2, <2>1
  <2> QED BY <1>6, <2>2, <2>3 DEF Knows
<1> QED BY <1>3, <1>4, <1>5, <1>6

(* A thread without a message is about no dialogue.                         *)
LEMMA IdleIs ==
  /\ Idle \in ThreadState /\ Idle.at = "idle" /\ Idle.then = "nothing"
  /\ Knows(Idle) /\ Knows(Idle)'
<1>1. Idle \in ThreadState
  BY DialogueAssumption DEF Idle, ThreadState, Messages
<1>2. Idle.at = "idle" /\ Idle.then = "nothing"
  BY DEF Idle
<1> QED BY <1>1, <1>2 DEF Knows

(* The fields of a thread, and the records its steps make of it.           *)
Stages == {"idle", "session", "code", "handler", "service", "reply", "served", "after"}
Intents == Commands \cup {"none", "unknown", "JOIN", "ADD_PASS", "PAY", "REFUND",
                         "EXPORT_SELECTION", "COMMITTEE_PENDING_ACTION"}
Errands == {"nothing", "end join", "end finance", "end if done", "done", "failed",
            "needs override"}
Numbers == 0..MaxAsked
Marks == StepNames \cup {"none"}

(* What a thread has in hand, field by field.                               *)
LEMMA ThreadStateIs ==
  ThreadState = [at : Stages, msg : Messages, intent : Intents, then : Errands,
                 q : Numbers, step : Marks]
BY DEF ThreadState, Stages, Intents, Errands, Numbers, Marks

Handled(b, intent, q, then) ==
  [b EXCEPT !.at = "handler", !.intent = intent, !.q = q, !.then = then]
Looked(b, intent, q, step) ==
  [b EXCEPT !.at = "reply", !.intent = intent, !.q = q, !.step = step]
Checking(b, q) == [b EXCEPT !.at = "code", !.q = q]
Called(b, intent) == [b EXCEPT !.at = "service", !.intent = intent]
Leaving(b) == [b EXCEPT !.at = "after"]
Answered(b, then) == [[b EXCEPT !.at = "served"] EXCEPT !.then = then]

(* The stages of a message are told apart.                                  *)
LEMMA StagesAre ==
  /\ "code" \in Stages /\ "handler" \in Stages /\ "reply" \in Stages /\ "service" \in Stages
  /\ "after" \in Stages /\ "served" \in Stages
BY DEF Stages

(* A thread that goes to the handler takes its intent, dialogue and errand  *)
(* along.                                                                   *)
LEMMA HandledIs ==
  ASSUME NEW b \in ThreadState, NEW q \in Numbers, NEW intent \in Intents, NEW then \in Errands
  PROVE  /\ Handled(b, intent, q, then) \in ThreadState
         /\ Handled(b, intent, q, then).at = "handler"
         /\ Handled(b, intent, q, then).intent = intent
         /\ Handled(b, intent, q, then).q = q
         /\ Handled(b, intent, q, then).then = then
<1>1. b \in [at : Stages, msg : Messages, intent : Intents, then : Errands, q : Numbers, step : Marks]
  BY ThreadStateIs
<1>2. Handled(b, intent, q, then)
        \in [at : Stages, msg : Messages, intent : Intents, then : Errands, q : Numbers, step : Marks]
  BY <1>1, StagesAre DEF Handled
<1>3. Handled(b, intent, q, then).at = "handler" /\ Handled(b, intent, q, then).intent = intent
  BY <1>1 DEF Handled
<1>4. Handled(b, intent, q, then).q = q /\ Handled(b, intent, q, then).then = then
  BY <1>1 DEF Handled
<1> QED BY <1>2, <1>3, <1>4, ThreadStateIs

(* A thread that has looked a guided dialogue up holds its number and its   *)
(* step.                                                                    *)
LEMMA LookedIs ==
  ASSUME NEW b \in ThreadState, NEW q \in Numbers, NEW intent \in Intents, NEW step \in Marks
  PROVE  /\ Looked(b, intent, q, step) \in ThreadState
         /\ Looked(b, intent, q, step).at = "reply"
         /\ Looked(b, intent, q, step).q = q
         /\ Looked(b, intent, q, step).step = step
<1>1. b \in [at : Stages, msg : Messages, intent : Intents, then : Errands, q : Numbers, step : Marks]
  BY ThreadStateIs
<1>2. Looked(b, intent, q, step)
        \in [at : Stages, msg : Messages, intent : Intents, then : Errands, q : Numbers, step : Marks]
  BY <1>1, StagesAre DEF Looked
<1>3. Looked(b, intent, q, step).at = "reply" /\ Looked(b, intent, q, step).q = q
  BY <1>1 DEF Looked
<1>4. Looked(b, intent, q, step).step = step
  BY <1>1 DEF Looked
<1> QED BY <1>2, <1>3, <1>4, ThreadStateIs

(* A thread that checks a join code holds the number of the dialogue.       *)
LEMMA CheckingIs ==
  ASSUME NEW b \in ThreadState, NEW q \in Numbers
  PROVE  /\ Checking(b, q) \in ThreadState
         /\ Checking(b, q).at = "code" /\ Checking(b, q).q = q
<1>1. b \in [at : Stages, msg : Messages, intent : Intents, then : Errands, q : Numbers, step : Marks]
  BY ThreadStateIs
<1>2. Checking(b, q)
        \in [at : Stages, msg : Messages, intent : Intents, then : Errands, q : Numbers, step : Marks]
  BY <1>1, StagesAre DEF Checking
<1>3. Checking(b, q).at = "code" /\ Checking(b, q).q = q
  BY <1>1 DEF Checking
<1> QED BY <1>2, <1>3, ThreadStateIs

(* A thread in the service keeps its dialogue and errand.                   *)
LEMMA CalledIs ==
  ASSUME NEW b \in ThreadState, NEW intent \in Intents
  PROVE  /\ Called(b, intent) \in ThreadState
         /\ Called(b, intent).at = "service" /\ Called(b, intent).intent = intent
         /\ Called(b, intent).q = b.q /\ Called(b, intent).then = b.then
<1>1. b \in [at : Stages, msg : Messages, intent : Intents, then : Errands, q : Numbers, step : Marks]
  BY ThreadStateIs
<1>2. Called(b, intent)
        \in [at : Stages, msg : Messages, intent : Intents, then : Errands, q : Numbers, step : Marks]
  BY <1>1, StagesAre DEF Called
<1>3. Called(b, intent).at = "service" /\ Called(b, intent).intent = intent
  BY <1>1 DEF Called
<1>4. Called(b, intent).q = b.q /\ Called(b, intent).then = b.then
  BY <1>1 DEF Called
<1> QED BY <1>2, <1>3, <1>4, ThreadStateIs

(* So does one that is about to end its dialogue.                           *)
LEMMA LeavingIs ==
  ASSUME NEW b \in ThreadState
  PROVE  /\ Leaving(b) \in ThreadState /\ Leaving(b).at = "after"
         /\ Leaving(b).q = b.q /\ Leaving(b).then = b.then
<1>1. b \in [at : Stages, msg : Messages, intent : Intents, then : Errands, q : Numbers, step : Marks]
  BY ThreadStateIs
<1>2. Leaving(b)
        \in [at : Stages, msg : Messages, intent : Intents, then : Errands, q : Numbers, step : Marks]
  BY <1>1, StagesAre DEF Leaving
<1>3. Leaving(b).at = "after" /\ Leaving(b).q = b.q /\ Leaving(b).then = b.then
  BY <1>1 DEF Leaving
<1> QED BY <1>2, <1>3, ThreadStateIs

(* A thread that comes back from the service holds the outcome, and the     *)
(* dialogue as it was.                                                      *)
LEMMA AnsweredIs ==
  ASSUME NEW b \in ThreadState, NEW then \in Errands
  PROVE  /\ Answered(b, then) \in ThreadState
         /\ Answered(b, then).at = "served" /\ Answered(b, then).then = then
         /\ Answered(b, then).q = b.q /\ Answered(b, then).step = b.step
<1>1. b \in [at : Stages, msg : Messages, intent : Intents, then : Errands, q : Numbers, step : Marks]
  BY ThreadStateIs
<1>2. Answered(b, then)
        \in [at : Stages, msg : Messages, intent : Intents, then : Errands, q : Numbers, step : Marks]
  BY <1>1, StagesAre DEF Answered
<1>3. Answered(b, then).at = "served" /\ Answered(b, then).then = then
  BY <1>1 DEF Answered
<1>4. Answered(b, then).q = b.q /\ Answered(b, then).step = b.step
  BY <1>1 DEF Answered
<1> QED BY <1>2, <1>3, <1>4, ThreadStateIs

Dispatched(t, intent, q, then) ==
  \E rec \in ThreadState :
    /\ Go(t, rec)
    /\ rec.at = "handler" /\ rec.intent = intent /\ rec.q = q /\ rec.then = then

(* Giving a message to the handler says what for, and changes no            *)
(* dictionary.                                                              *)
LEMMA HandleDoes ==
  ASSUME NEW t \in Threads, NEW q \in Numbers, NEW intent \in Intents, NEW then \in Errands,
         thread[t] \in ThreadState, Handle(t, intent, q, then)
  PROVE  Dispatched(t, intent, q, then)
<1> DEFINE rec == Handled(thread[t], intent, q, then)
<1>1. Go(t, rec)
  BY DEF Handle, Handled
<1>2. rec \in ThreadState
  BY HandledIs
<1>3. rec.at = "handler"
  BY HandledIs
<1>4. rec.intent = intent /\ rec.q = q /\ rec.then = then
  BY HandledIs
<1> QED BY <1>1, <1>2, <1>3, <1>4 DEF Dispatched

-------------------------------------------------------------------------------
(***************************************************************************)
(* One thread takes a step, and ends as rec.                               *)
(***************************************************************************)
Sound(d) ==
  /\ d.carried <= 1 /\ d.complete
  /\ d.topic = "ADD_EVENT" => Before("ADD_EVENT", d.step) \subseteq d.answered

ChatIInv == ChatTypes /\ AloneIInv

(* The thread at work, while it is alone.                                  *)
LEMMA AtWork ==
  ASSUME ChatIInv, NEW t \in Threads, thread[t] # Idle, alone
  PROVE  /\ QuietBut(t) /\ Follows(thread[t])
         /\ \A q \in 1..Asked : Sound(dialogue[q])
BY DEF ChatIInv, AloneIInv, OneBusy, OneFollows, DialoguesSound, Sound

(* A thread that is at work and knows what it is about, with dialogues that *)
(* have only grown and stores of their kinds, keeps the invariant; alone,   *)
(* if the open dialogues follow from what it has in hand.                   *)
LEMMA StepKeeps ==
  ASSUME ChatIInv, NEW t \in Threads, thread[t] # Idle, alone' = alone,
         NEW rec \in ThreadState, Go(t, rec), Knows(rec)',
         Grows, DialoguesTyped', StoresTyped',
         alone => Follows(rec)' /\ \A q \in 1..Asked' : Sound(dialogue'[q])
  PROVE  ChatIInv'
<1>1. /\ thread \in [Threads -> ThreadState] /\ DialoguesTyped
      /\ thread' = [thread EXCEPT ![t] = rec]
      /\ thread'[t] = rec /\ \A u \in Threads : u # t => thread'[u] = thread[u]
  BY DEF ChatIInv, ChatTypes, ThreadsTyped, Go
<1>2. ThreadsTyped'
  <2>1. thread' \in [Threads -> ThreadState]
    BY <1>1
  <2>2. ASSUME NEW u \in Threads PROVE Knows(thread[u])'
    <3>1. PICK v \in ThreadState : v = thread[u]
      BY <1>1
    <3>2. Knows(v)
      BY <3>1 DEF ChatIInv, ChatTypes, ThreadsTyped
    <3>3. Knows(v)'
      BY <1>1, <3>2, KnowsStays
    <3>4. PICK w \in ThreadState : w = thread'[u]
      BY <2>1
    <3>5. w = rec \/ w = v
      BY <1>1, <3>1, <3>4
    <3>6. Knows(w)'
      BY <3>3, <3>5
    <3> QED BY <3>4, <3>6 DEF Knows, About
  <2> QED BY <2>1, <2>2 DEF ThreadsTyped
<1>3. OneBusy'
  <2> SUFFICES ASSUME alone, NEW u \in Threads, thread'[u] # Idle, NEW v \in Threads, v # u
               PROVE  thread'[v] = Idle
    BY DEF OneBusy, QuietBut
  <2>1. \A w \in Threads : w # t => thread[w] = Idle
    BY AtWork DEF QuietBut
  <2> QED BY <1>1, <2>1
<1>4. DialoguesSound'
  BY DEF DialoguesSound, Sound
<1>5. OneFollows'
  <2> SUFFICES ASSUME alone, NEW u \in Threads, \A v \in Threads \ {u} : thread'[v] = Idle
               PROVE  Follows(thread[u])'
    BY DEF OneFollows, QuietBut
  <2>1. \A w \in Threads : w # t => thread[w] = Idle
    BY AtWork DEF QuietBut
  <2>2. thread'[u] = rec
    BY <1>1, <2>1
  <2>3. Follows(rec)'
    OBVIOUS
  <2> QED BY <2>2, <2>3 DEF Follows, Kept, Fresh
<1> QED BY <1>2, <1>3, <1>4, <1>5 DEF ChatIInv, ChatTypes, AloneIInv

(* A thread that has done its work, and has left nothing to drop.          *)
LEMMA FollowsIdle ==
  (Follows(Idle) <=> \A q \in 1..Asked : Open(q) => Fresh(q))'
BY IdleIs DEF Follows

(* Dialogues that stay the same stay sound.                                 *)
LEMMA SoundStays ==
  ASSUME ChatIInv, alone, UNCHANGED dialogue
  PROVE  \A q \in 1..Asked' : Sound(dialogue'[q])
BY DEF ChatIInv, AloneIInv, DialoguesSound, Sound, Asked

(* A thread of which nobody else can tell that it went on.                 *)
LEMMA QuietStep ==
  ASSUME ChatIInv, NEW t \in Threads, thread[t] # Idle,
         NEW rec \in ThreadState, Go(t, rec),
         UNCHANGED <<setup, event, events, shown, dialogue, stores, alone>>,
         Knows(rec), alone => Follows(rec)
  PROVE  ChatIInv'
<1>1. DialoguesTyped' /\ Grows
  <2>1. DialoguesTyped
    BY DEF ChatIInv, ChatTypes
  <2>2. DialoguesTyped'
    BY <2>1 DEF DialoguesTyped, Asked
  <2> QED BY <2>1, <2>2, SameGrows
<1>2. StoresTyped'
  BY DEF ChatIInv, ChatTypes, StoresTyped, AskedIn, Asked, stores
<1>3. Knows(rec)'
  BY <1>1, KnowsStays DEF ChatIInv, ChatTypes
<1>4. alone => Follows(rec)' /\ \A q \in 1..Asked' : Sound(dialogue'[q])
  <2>1. Follows(rec) => Follows(rec)'
    BY DEF Follows, Open, Fresh, Kept, Asked, stores
  <2> QED BY <2>1, SoundStays
<1> QED BY <1>1, <1>2, <1>3, <1>4, StepKeeps

-------------------------------------------------------------------------------
(***************************************************************************)
(* A message is taken by a session, or passed on.                          *)
(***************************************************************************)
LEMMA TypesHold ==
  ASSUME ChatIInv
  PROVE  /\ DialoguesTyped /\ StoresTyped
         /\ \A t \in Threads : thread[t] \in ThreadState /\ Knows(thread[t])
         /\ \A store \in {join, finance, creation, pending} :
              store # 0 => store \in 1..Asked /\ store \in 1..MaxAsked
         /\ join # 0 => dialogue[join].topic = "JOIN"
         /\ finance # 0 => dialogue[finance].topic \in FinanceTopics
         /\ creation # 0 => dialogue[creation].topic = "ADD_EVENT"
         /\ pending # 0 => dialogue[pending].topic \in PendingTopics
<1>1. DialoguesTyped /\ StoresTyped
  BY DEF ChatIInv, ChatTypes
<1>2. Asked \in 0..MaxAsked /\ MaxAsked \in Nat
  BY <1>1, RecordsAre, DialogueAssumption
<1> QED BY <1>1, <1>2 DEF ChatIInv, ChatTypes, ThreadsTyped, StoresTyped, AskedIn

(* Alone, and not about to drop what it has carried out.                   *)
LEMMA AllFresh ==
  ASSUME ChatIInv, NEW t \in Threads, thread[t] # Idle, alone, thread[t].at \notin {"after", "served"}
  PROVE  \A q \in 1..Asked : Open(q) => Fresh(q)
BY AtWork DEF Follows

(* A thread may drop its message unless it has just carried a dialogue out. *)
LEMMA GoesIdle ==
  ASSUME ChatIInv, NEW t \in Threads, thread[t] # Idle, Go(t, Idle),
         UNCHANGED <<setup, event, events, shown, dialogue, stores, alone>>,
         thread[t].at \notin {"after", "served"}
  PROVE  ChatIInv'
<1>1. alone => Follows(Idle)
  BY AllFresh, IdleIs DEF Follows
<1> QED BY <1>1, IdleIs, QuietStep

(* An answer to a join goes to the check of the code or, with the code      *)
(* known, to the handler.                                                   *)
LEMMA JoinReplyKeeps ==
  ASSUME ChatIInv, NEW t \in Threads, Session(t), JoinReply(t)
  PROVE  ChatIInv'
<1>1. /\ thread[t].at = "session" /\ thread[t] # Idle /\ join # 0
      /\ UNCHANGED <<setup, event, events, shown, dialogue, stores, alone>>
  BY IdleIs DEF Session, JoinReply, stores
<1>2. /\ thread[t] \in ThreadState /\ join \in 1..Asked /\ join \in 0..MaxAsked
      /\ dialogue[join].topic = "JOIN"
  BY <1>1, TypesHold
<1>3. dialogue[join].step \in {"code", "flat"}
  <2>1. dialogue[join].step \in StepSet("JOIN")
    BY <1>2, TypesHold, RecordsAre DEF WellStepped
  <2>2. StepSet("JOIN") \subseteq {"code", "flat"}
    BY StepsAre DEF StepSet
  <2> QED BY <2>1, <2>2
<1>4. alone => \A q \in 1..Asked : Open(q) => Fresh(q)
  BY <1>1, AllFresh
<1>5. Open(join)
  BY <1>1 DEF Open
<1>6. CASE dialogue[join].step = "code"
  <2>0. thread[t] \in ThreadState
    BY <1>2
  <2>1. PICK n \in Numbers : n = join
    BY <1>2 DEF Numbers
  <2>2. PICK rec \in ThreadState : rec = Checking(thread[t], n) /\ rec.at = "code" /\ rec.q = n
    BY <2>0, CheckingIs
  <2>3. Go(t, rec)
    BY <1>6, <2>1, <2>2 DEF JoinReply, Checking
  <2>4. Knows(rec)
    BY <1>2, <2>1, <2>2 DEF Knows, About
  <2>5. alone => Follows(rec)
    BY <1>2, <1>4, <1>5, <2>1, <2>2 DEF Follows
  <2> QED BY <1>1, <2>3, <2>4, <2>5, QuietStep
<1>7. CASE dialogue[join].step = "flat"
  <2>0. thread[t] \in ThreadState /\ "JOIN" \in Intents /\ "end join" \in Errands
    BY <1>2 DEF Intents, Errands
  <2>1. PICK n \in Numbers : n = join
    BY <1>2 DEF Numbers
  <2>2. Handle(t, "JOIN", n, "end join")
    BY <1>7, <2>1 DEF JoinReply
  <2>3. PICK rec \in ThreadState :
          /\ Go(t, rec)
          /\ rec.at = "handler" /\ rec.intent = "JOIN" /\ rec.q = n /\ rec.then = "end join"
    <3>1. Dispatched(t, "JOIN", n, "end join")
      BY <2>0, <2>2, HandleDoes
    <3> QED BY <3>1 DEF Dispatched
  <2>4. Knows(rec)
    BY <1>2, <1>7, <2>1, <2>3 DEF Knows, About
  <2>5. alone => Follows(rec)
    BY <1>2, <1>4, <1>5, <2>1, <2>3 DEF Follows
  <2> QED BY <1>1, <2>3, <2>4, <2>5, QuietStep
<1> QED BY <1>3, <1>6, <1>7

(* An answer to a question about money goes to the handler with its         *)
(* dialogue.                                                                *)
LEMMA FinanceAnswerKeeps ==
  ASSUME ChatIInv, NEW t \in Threads, Session(t), join = 0, finance # 0, FinanceAnswer(t)
  PROVE  ChatIInv'
<1>1. /\ thread[t].at = "session" /\ thread[t] # Idle
      /\ UNCHANGED <<setup, event, events, shown, creation, pending, export, alone>>
      /\ UNCHANGED <<join, dialogue, finance>>
  BY IdleIs DEF Session, FinanceAnswer
<1>2. /\ thread[t] \in ThreadState /\ finance \in 1..Asked /\ finance \in 0..MaxAsked
  BY TypesHold
<1>3. alone => \A q \in 1..Asked : Open(q) => Fresh(q)
  BY <1>1, AllFresh
<1>4. Open(finance) /\ dialogue[finance].topic \in OneAnswer
  BY DEF Open, FinanceAnswer, OneAnswer
<1>5. ASSUME NEW intent \in {"PAY", "REFUND", "unknown", "ADD_PASS"},
             NEW then \in {"end finance", "end if done"}, Handle(t, intent, finance, then)
      PROVE  ChatIInv'
  <2>0. thread[t] \in ThreadState /\ intent \in Intents /\ then \in Errands
    BY <1>2 DEF Intents, Errands
  <2>1. PICK n \in Numbers : n = finance
    BY <1>2 DEF Numbers
  <2>2. Handle(t, intent, n, then)
    BY <1>5, <2>1
  <2>3. PICK rec \in ThreadState :
          /\ Go(t, rec)
          /\ rec.at = "handler" /\ rec.intent = intent /\ rec.q = n /\ rec.then = then
    <3>1. Dispatched(t, intent, n, then)
      BY <2>0, <2>2, HandleDoes
    <3> QED BY <3>1 DEF Dispatched
  <2>4. Knows(rec)
    BY <1>2, <1>4, <2>1, <2>3 DEF Knows, About
  <2>5. alone => Follows(rec)
    BY <1>2, <1>3, <1>4, <2>1, <2>3 DEF Follows
  <2> QED BY <1>1, <2>3, <2>4, <2>5, QuietStep DEF stores
<1>6. ASSUME Go(t, Idle) PROVE ChatIInv'
  BY <1>1, <1>6, GoesIdle DEF stores
<1> QED BY <1>5, <1>6 DEF FinanceAnswer

(* A number that picks an event moves the selection on to what is done with *)
(* it.                                                                      *)
LEMMA PickReplyKeeps ==
  ASSUME ChatIInv, NEW t \in Threads, Session(t), finance # 0, PickReply(t)
  PROVE  ChatIInv'
<1>1. /\ thread[t].at = "session" /\ thread[t] # Idle /\ Go(t, Idle)
      /\ UNCHANGED <<setup, event, events, shown, join, finance, creation, pending, export, alone>>
      /\ dialogue[finance].topic \in Selections
  BY IdleIs DEF Session, PickReply
<1>2. finance \in 1..Asked /\ DialoguesTyped /\ StoresTyped /\ dialogue[finance] \in Record
  BY TypesHold, RecordsAre
<1> DEFINE d == [dialogue[finance] EXCEPT !.step = "selected", !.answered = {"event"}]
<1>3. dialogue' = [dialogue EXCEPT ![finance] = d]
  BY DEF PickReply
<1>4. {"event", "selected"} \subseteq StepSet(dialogue[finance].topic)
  BY <1>1, StepsAre DEF StepSet
<1>5. StepSet(dialogue[finance].topic) \subseteq StepNames
  BY <1>2, StepSetIs DEF Record
<1>6. /\ d \in Record
      /\ d.topic = dialogue[finance].topic /\ d.step = "selected" /\ d.answered = {"event"}
      /\ d.carried = dialogue[finance].carried /\ d.complete = dialogue[finance].complete
  BY <1>2, <1>4, <1>5 DEF Record
<1> HIDE DEF d
<1>7. d.topic \notin PendingTopics /\ d.topic \notin {"JOIN", "ADD_EVENT"}
  BY <1>1, <1>6, TopicsAre DEF Selections
<1>8. WellStepped(d) /\ Further(dialogue[finance], d)
  BY <1>4, <1>6, <1>7 DEF WellStepped, Further
<1>9. /\ DialoguesTyped' /\ Grows /\ Asked' = Asked /\ dialogue'[finance] = d
      /\ \A p \in 1..Asked : p # finance => dialogue'[p] = dialogue[p]
  BY <1>2, <1>3, <1>6, <1>8, ChangeDoes
<1>10. StoresTyped'
  BY <1>1, <1>2, <1>6, <1>9 DEF StoresTyped, AskedIn
<1>11. ASSUME alone PROVE Follows(Idle)' /\ \A q \in 1..Asked' : Sound(dialogue'[q])
  <2>1. \A q \in 1..Asked : Open(q) => Fresh(q)
    BY <1>1, <1>11, AllFresh
  <2>2. (\A q \in 1..Asked : Open(q) => Fresh(q))'
    BY <1>1, <1>6, <1>9, <2>1 DEF Open, Fresh
  <2>3. \A q \in 1..Asked : Sound(dialogue[q])
    BY <1>1, <1>11, AtWork
  <2>4. Sound(d)
    BY <1>2, <1>6, <1>7, <2>3 DEF Sound
  <2> QED BY <1>9, <2>2, <2>3, <2>4, FollowsIdle
<1> QED BY <1>1, <1>9, <1>10, <1>11, IdleIs, StepKeeps

(* A cancel closes the dialogue about money, whichever one offered it.      *)
LEMMA CancelReplyKeeps ==
  ASSUME ChatIInv, NEW t \in Threads, Session(t), CancelReply(t)
  PROVE  ChatIInv'
<1>1. /\ thread[t].at = "session" /\ thread[t] # Idle /\ Go(t, Idle) /\ finance' = 0
      /\ UNCHANGED <<setup, event, events, shown, join, dialogue, creation, pending, export, alone>>
  BY IdleIs DEF Session, CancelReply
<1>2. DialoguesTyped /\ StoresTyped /\ DialoguesTyped' /\ Grows /\ Asked' = Asked
  <2>1. DialoguesTyped /\ StoresTyped
    BY TypesHold
  <2>2. DialoguesTyped' /\ Asked' = Asked
    BY <1>1, <2>1 DEF DialoguesTyped, Asked
  <2> QED BY <1>1, <2>1, <2>2, SameGrows
<1>3. StoresTyped'
  BY <1>1, <1>2 DEF StoresTyped, AskedIn
<1>4. ASSUME alone PROVE Follows(Idle)' /\ \A q \in 1..Asked' : Sound(dialogue'[q])
  <2>1. \A q \in 1..Asked : Open(q) => Fresh(q)
    BY <1>1, <1>4, AllFresh
  <2>2. (\A q \in 1..Asked : Open(q) => Fresh(q))'
    BY <1>1, <1>2, <2>1 DEF Open, Fresh
  <2> QED BY <1>1, <1>4, <2>2, FollowsIdle, SoundStays
<1> QED BY <1>1, <1>2, <1>3, <1>4, IdleIs, StepKeeps

(* A message no dialogue takes goes to the handler with no errand.          *)
LEMMA PassOnKeeps ==
  ASSUME ChatIInv, NEW t \in Threads, Session(t), PassOn(t)
  PROVE  ChatIInv'
<1>1. /\ thread[t].at = "session" /\ thread[t] # Idle
      /\ UNCHANGED <<setup, event, events, shown, dialogue, stores, alone>>
  BY IdleIs DEF Session, PassOn, stores
<1>2. thread[t] \in ThreadState /\ MaxAsked \in Nat
  BY TypesHold, DialogueAssumption
<1>3. PICK intent \in Commands \cup {"EXPORT_SELECTION", "none"} : Handle(t, intent, 0, "nothing")
  BY DEF PassOn
<1>4. PICK rec \in ThreadState :
        /\ Go(t, rec)
        /\ rec.at = "handler" /\ rec.intent = intent /\ rec.q = 0 /\ rec.then = "nothing"
  <2>1. 0 \in Numbers /\ intent \in Intents /\ "nothing" \in Errands
    BY <1>2 DEF Numbers, Intents, Errands
  <2>2. Dispatched(t, intent, 0, "nothing")
    BY <1>2, <1>3, <2>1, HandleDoes
  <2> QED BY <2>2 DEF Dispatched
<1>7. intent \notin {"JOIN", "ADD_PASS", "PAY", "REFUND", "COMMITTEE_PENDING_ACTION"}
  BY TopicsAre DEF Commands, Reports
<1>8. Knows(rec)
  BY <1>4, <1>7 DEF Knows
<1>9. alone => Follows(rec)
  BY <1>1, <1>4, AllFresh DEF Follows
<1> QED BY <1>1, <1>4, <1>8, <1>9, QuietStep

(* Whichever dictionary is asked first, the thread is about what it found   *)
(* there.                                                                   *)
LEMMA SessionKeeps ==
  ASSUME ChatIInv, NEW t \in Threads, Session(t)
  PROVE  ChatIInv'
BY JoinReplyKeeps, FinanceAnswerKeeps, PickReplyKeeps, CancelReplyKeeps, PassOnKeeps
   DEF Session, FinanceReply

(* A code that was found moves its dialogue to the flat; one that was not   *)
(* leaves it.                                                               *)
LEMMA CodeCheckedKeeps ==
  ASSUME ChatIInv, NEW t \in Threads, CodeChecked(t)
  PROVE  ChatIInv'
<1>1. /\ thread[t].at = "code" /\ thread[t] # Idle /\ Go(t, Idle)
      /\ UNCHANGED <<setup, event, events, shown, finance, creation, pending, export, alone>>
  BY IdleIs DEF CodeChecked
<1>2. CASE UNCHANGED <<dialogue, join>>
  BY <1>1, <1>2, GoesIdle DEF stores
<1>3. CASE /\ dialogue' = [dialogue EXCEPT ![thread[t].q].step = "flat",
                                           ![thread[t].q].answered = {"code"}]
           /\ join' = thread[t].q
  <2>1. PICK q \in 1..Asked : q = thread[t].q /\ dialogue[q].topic = "JOIN"
    BY <1>1, TypesHold DEF Knows, About
  <2>2. DialoguesTyped /\ StoresTyped /\ dialogue[q] \in Record
    BY TypesHold, RecordsAre
  <2> DEFINE d == [dialogue[q] EXCEPT !.step = "flat", !.answered = {"code"}]
  <2>3. dialogue' = [dialogue EXCEPT ![q] = d]
    BY <1>3, <2>1
  <2>4. {"code", "flat"} \subseteq StepSet("JOIN") /\ StepSet("JOIN") \subseteq StepNames
    <3>1. {"code", "flat"} \subseteq StepSet("JOIN")
      BY StepsAre DEF StepSet
    <3> QED BY <3>1, TopicsAre, StepSetIs
  <2>5. /\ d \in Record
        /\ d.topic = "JOIN" /\ d.step = "flat" /\ d.answered = {"code"}
        /\ d.carried = dialogue[q].carried /\ d.complete = dialogue[q].complete
    BY <2>1, <2>2, <2>4 DEF Record
  <2> HIDE DEF d
  <2>6. WellStepped(d) /\ Further(dialogue[q], d)
    BY <2>1, <2>4, <2>5, TopicsAre DEF WellStepped, Further
  <2>7. /\ DialoguesTyped' /\ Grows /\ Asked' = Asked /\ dialogue'[q] = d
        /\ \A p \in 1..Asked : p # q => dialogue'[p] = dialogue[p]
    BY <2>2, <2>3, <2>5, <2>6, ChangeDoes
  <2>8. \A p \in 1..Asked : dialogue'[p].topic = dialogue[p].topic
    BY <2>1, <2>5, <2>7
  <2>9. StoresTyped'
    BY <1>1, <1>3, <2>1, <2>2, <2>7, <2>8 DEF StoresTyped, AskedIn
  <2>10. ASSUME alone PROVE Follows(Idle)' /\ \A p \in 1..Asked' : Sound(dialogue'[p])
    <3>1. \A p \in 1..Asked : Open(p) => Fresh(p)
      BY <1>1, <2>10, AllFresh
    <3>2. Fresh(q) /\ \A p \in 1..Asked : Sound(dialogue[p])
      BY <1>1, <2>1, <2>10, AtWork DEF Follows
    <3>3. \A p \in 1..Asked : Open(p)' => Open(p) \/ p = q
      BY <1>1, <1>3, <2>1 DEF Open
    <3>4. \A p \in 1..Asked : Fresh(p) => Fresh(p)'
      BY <2>5, <2>7 DEF Fresh
    <3>5. (\A p \in 1..Asked : Open(p) => Fresh(p))'
      BY <2>7, <3>1, <3>2, <3>3, <3>4
    <3>6. Sound(d)
      BY <2>1, <2>5, <3>2 DEF Sound
    <3> QED BY <2>7, <3>2, <3>5, <3>6, FollowsIdle
  <2> QED BY <1>1, <2>7, <2>9, <2>10, IdleIs, StepKeeps
<1> QED BY <1>2, <1>3 DEF CodeChecked


-------------------------------------------------------------------------------
(***************************************************************************)
(* The shared handler turns a message away, or finds what it is for.       *)
(***************************************************************************)
(* A thread has done its work, with what it leaves sound and not yet       *)
(* carried out.                                                            *)
LEMMA EndsIdle ==
  ASSUME ChatIInv, NEW t \in Threads, thread[t] # Idle, Go(t, Idle), alone' = alone,
         Grows, DialoguesTyped', StoresTyped',
         alone => \A q \in 1..Asked' : Sound(dialogue'[q]) /\ (Open(q) => Fresh(q))'
  PROVE  ChatIInv'
<1>1. alone => Follows(Idle)'
  BY FollowsIdle
<1> QED BY <1>1, IdleIs, StepKeeps

(* A thread whose request is done, and whose question is to be dropped.    *)
MayLeave(t, rec) ==
  /\ rec.at = "after" /\ rec.q = thread[t].q /\ rec.then = thread[t].then
  /\ rec.then \in {"end join", "end finance", "end if done"}

(* After the handler a thread is done, or about to end its dialogue.        *)
LEMMA FinishedIs ==
  ASSUME ChatIInv, NEW t \in Threads, thread[t].at \in {"handler", "service"}, NEW done \in BOOLEAN
  PROVE  /\ Finished(t, done) \in ThreadState
         /\ Finished(t, done) = Idle \/ MayLeave(t, Finished(t, done))
         /\ done /\ thread[t].then # "nothing" => MayLeave(t, Finished(t, done))
<1>1. /\ thread[t] \in ThreadState
      /\ thread[t].then \in {"nothing", "end join", "end finance", "end if done"}
  BY TypesHold DEF Knows
<1>2. /\ Leaving(thread[t]) \in ThreadState
      /\ thread[t].then # "nothing" => MayLeave(t, Leaving(thread[t]))
  BY <1>1, LeavingIs DEF MayLeave
<1>3. Finished(t, done) = Leaving(thread[t]) \/ Finished(t, done) = Idle
  BY DEF Finished, Leaving
<1>4. thread[t].then = "nothing" => Finished(t, done) = Idle
  BY DEF Finished
<1>5. done /\ thread[t].then # "nothing" => Finished(t, done) = Leaving(thread[t])
  BY <1>1 DEF Finished, Leaving
<1> QED BY <1>2, <1>3, <1>4, <1>5, IdleIs

(* Who is about to end a dialogue has got it from its own errand.           *)
LEMMA LeaverKnows ==
  ASSUME ChatIInv, NEW t \in Threads, thread[t].at \in {"handler", "service"},
         NEW rec \in ThreadState, MayLeave(t, rec)
  PROVE  Knows(rec)
<1>1. Knows(thread[t])
  BY TypesHold
<1> QED BY <1>1 DEF MayLeave, Knows, About

(* A handler that did not carry the request out leaves the dialogue as it   *)
(* was.                                                                     *)
LEMMA FinishedKeeps ==
  ASSUME ChatIInv, NEW t \in Threads, thread[t].at \in {"handler", "service"},
         Go(t, Finished(t, FALSE)),
         UNCHANGED <<setup, event, events, shown, dialogue, stores, alone>>
  PROVE  ChatIInv'
<1>1. thread[t] # Idle
  BY IdleIs
<1>2. PICK rec \in ThreadState : rec = Finished(t, FALSE)
  BY FinishedIs
<1>3. rec = Idle \/ MayLeave(t, rec)
  BY <1>2, FinishedIs
<1>4. CASE rec = Idle
  BY <1>1, <1>2, <1>4, GoesIdle
<1>5. CASE MayLeave(t, rec)
  <2>1. alone => Follows(thread[t])
    BY <1>1, AtWork
  <2>2. alone => \A q \in 1..Asked : Open(q) => Fresh(q)
    BY <1>1, AllFresh
  <2>3. alone => Follows(rec)
    BY <1>5, <2>1, <2>2 DEF Follows, MayLeave
  <2> QED BY <1>1, <1>2, <1>5, <2>3, LeaverKnows, QuietStep
<1> QED BY <1>3, <1>4, <1>5

(* A message without an intent is resolved to one of the open dialogues, or *)
(* to none.                                                                 *)
LEMMA ResolvedIs ==
  ASSUME ChatIInv, NEW t \in Threads
  PROVE  /\ Resolved(t) \in Intents
         /\ thread[t].intent # "none" => Resolved(t) = thread[t].intent
         /\ thread[t].intent = "none" =>
              Resolved(t) \in {"EXPORT_SELECTION", "ADD_EVENT", "COMMITTEE_PENDING_ACTION", "unknown"}
         /\ thread[t].intent = "none" /\ Resolved(t) = "ADD_EVENT" => creation # 0
         /\ thread[t].intent = "none" /\ Resolved(t) = "COMMITTEE_PENDING_ACTION" => pending # 0
<1>1. thread[t].intent \in Intents
  BY TypesHold, ThreadStateIs
<1>2. {"EXPORT_SELECTION", "ADD_EVENT", "COMMITTEE_PENDING_ACTION", "unknown"} \subseteq Intents
  BY DEF Intents, Commands
<1> QED BY <1>1, <1>2 DEF Resolved

(* Carrying out what a one-answer dialogue asked for counts on this         *)
(* dialogue alone, once while it is fresh.                                  *)
LEMMA ServeKeeps ==
  ASSUME ChatIInv, NEW t \in Threads, thread[t].at = "handler", Serve(t),
         UNCHANGED <<setup, event, events, shown, alone>>
  PROVE  ChatIInv'
<1>1. /\ thread[t] # Idle /\ thread[t] \in ThreadState /\ Knows(thread[t])
      /\ UNCHANGED <<setup, event, events, shown, dialogue, stores, alone>>
  BY IdleIs, TypesHold DEF Serve
<1>2. Resolved(t) \in Intents
  BY ResolvedIs
<1>3. PICK rec \in ThreadState : rec = Called(thread[t], Resolved(t))
  BY <1>1, <1>2, CalledIs
<1>4. /\ rec.at = "service" /\ rec.intent = Resolved(t)
      /\ rec.q = thread[t].q /\ rec.then = thread[t].then
  BY <1>1, <1>2, <1>3, CalledIs
<1>5. Go(t, rec)
  BY <1>3 DEF Serve, Called
<1>6. Resolved(t) \in {"JOIN", "ADD_PASS", "PAY", "REFUND", "EXPORT_SELECTION"}
  BY DEF Serve
<1>7. /\ thread[t].then \in {"nothing", "end join", "end finance", "end if done"}
      /\ thread[t].then = "nothing" => Resolved(t) \notin {"JOIN", "ADD_PASS", "PAY", "REFUND"}
      /\ thread[t].then # "nothing" => Resolved(t) \in {"JOIN", "ADD_PASS", "PAY", "REFUND", "unknown"}
  BY <1>1, ResolvedIs DEF Knows
<1>8. /\ thread[t].then = "end join" => About(thread[t], {"JOIN"}) /\ dialogue[thread[t].q].step = "flat"
      /\ thread[t].then \in {"end finance", "end if done"} => About(thread[t], OneAnswer)
  BY <1>1 DEF Knows
<1>9. Knows(rec)
  BY <1>4, <1>6, <1>7, <1>8 DEF Knows, About
<1>10. alone => Follows(rec)
  <2>1. alone => Follows(thread[t])
    BY <1>1, AtWork
  <2>2. alone => \A q \in 1..Asked : Open(q) => Fresh(q)
    BY <1>1, AllFresh
  <2> QED BY <1>4, <2>1, <2>2 DEF Follows
<1> QED BY <1>1, <1>5, <1>9, <1>10, QuietStep

(* The dictionaries may only lose what they held.                          *)
LEMMA DropKeeps ==
  ASSUME ChatIInv, NEW t \in Threads, thread[t].at \in {"handler", "service", "reply"}, Go(t, Idle),
         UNCHANGED <<setup, shown, dialogue, join, finance, alone>>,
         event' \in EventStates \cup {"none"}, events' \in 0..MaxEvents, export' \in BOOLEAN,
         creation' \in {0, creation}, pending' \in {0, pending}
  PROVE  ChatIInv'
<1>1. thread[t] # Idle /\ thread[t].at \notin {"after", "served"}
  BY IdleIs
<1>2. DialoguesTyped /\ StoresTyped /\ DialoguesTyped' /\ Grows /\ Asked' = Asked
  <2>1. DialoguesTyped /\ StoresTyped
    BY TypesHold
  <2>2. DialoguesTyped' /\ Asked' = Asked
    BY <2>1 DEF DialoguesTyped, Asked
  <2> QED BY <2>1, <2>2, SameGrows
<1>3. StoresTyped'
  BY <1>2 DEF StoresTyped, AskedIn
<1>4. ASSUME alone PROVE \A q \in 1..Asked' : Sound(dialogue'[q]) /\ (Open(q) => Fresh(q))'
  <2>1. \A q \in 1..Asked : Open(q) => Fresh(q)
    BY <1>1, <1>4, AllFresh
  <2>2. (\A q \in 1..Asked : Open(q) => Fresh(q))'
    BY <1>2, <2>1 DEF Open, Fresh
  <2> QED BY <1>4, <2>2, SoundStays
<1> QED BY <1>1, <1>2, <1>3, <1>4, EndsIdle

(* A question is asked: its dialogue is the newest.                        *)
Asking(topic, step, answered) ==
  /\ topic \in Topics /\ step \in StepSet(topic) /\ answered \in SUBSET StepSet(topic)
  /\ WellStepped(NewDialogue(topic, step, answered))
  /\ topic = "ADD_EVENT" => Before("ADD_EVENT", step) \subseteq answered
  /\ Asked < MaxAsked
  /\ dialogue' = Append(dialogue, NewDialogue(topic, step, answered))

(* A new question is not carried out, complete, and leaves the others       *)
(* alone.                                                                   *)
LEMMA AskingDoes ==
  ASSUME ChatIInv, NEW topic, NEW step, NEW answered, Asking(topic, step, answered)
  PROVE  /\ DialoguesTyped' /\ Grows /\ Asked' = Asked + 1
         /\ dialogue'[Asked + 1].topic = topic
         /\ dialogue'[Asked + 1].carried = 0 /\ Sound(dialogue'[Asked + 1])
         /\ \A q \in 1..Asked : dialogue'[q] = dialogue[q]
<1> DEFINE d == NewDialogue(topic, step, answered)
<1>1. d \in Record /\ WellStepped(d)
  BY NewRecord DEF Asking
<1>2. /\ d.topic = topic /\ d.carried = 0 /\ d.complete /\ d.step = step /\ d.answered = answered
  BY DEF NewDialogue
<1>3. Sound(d)
  BY <1>2 DEF Sound, Asking
<1>4. DialoguesTyped /\ Asked < MaxAsked /\ dialogue' = Append(dialogue, d)
  BY TypesHold DEF Asking
<1> HIDE DEF d
<1> QED BY <1>1, <1>2, <1>3, <1>4, AppendDoes

(* A topic is asked from its first step, with nothing answered.             *)
LEMMA AskingFirst ==
  ASSUME ChatIInv, NEW topic \in Topics, MayAsk(topic), Ask(topic)
  PROVE  Asking(topic, First(topic), {})
<1>1. First(topic) \in StepSet(topic)
  BY StepSetIs
<1>2. Before(topic, First(topic)) = {}
  <2>1. 1 \in 1..Len(StepsOf(topic)) /\ First(topic) = StepsOf(topic)[1]
    BY StepsListed DEF Listed, First
  <2>2. Before(topic, First(topic)) = {StepsOf(topic)[j] : j \in 1..1 - 1}
    BY <2>1, PositionIs
  <2> QED BY <2>2
<1>3. Asked < MaxAsked
  <2>1. setup.asks \in 0..MaxAsked
    BY TypesHold, DialogueAssumption DEF StoresTyped
  <2>2. Asked \in Nat /\ MaxAsked \in Nat
    BY TypesHold, RecordsAre, DialogueAssumption
  <2> QED BY <2>1, <2>2 DEF MayAsk
<1>4. First("JOIN") = "code"
  BY StepsAre DEF First
<1>5. WellStepped(NewDialogue(topic, First(topic), {}))
  BY <1>1, <1>2, <1>4 DEF WellStepped, NewDialogue
<1> QED BY <1>1, <1>2, <1>3, <1>5 DEF Asking, Ask

(* A command that brings its answers along is asked on from a later step,   *)
(* with those before answered.                                              *)
LEMMA AskingResumed ==
  ASSUME ChatIInv, NEW topic \in PendingTopics, MayAsk(topic), NEW step \in StepSet(topic),
         dialogue' = Append(dialogue, Resumed(topic, step))
  PROVE  Asking(topic, step, Before(topic, step))
<1>1. topic \in Topics /\ topic \notin {"JOIN", "ADD_EVENT"}
  BY TopicsAre
<1>2. Before(topic, step) \subseteq StepSet(topic)
  BY <1>1, BeforeIsSteps
<1>3. Asked < MaxAsked
  <2>1. setup.asks \in 0..MaxAsked
    BY TypesHold, DialogueAssumption DEF StoresTyped
  <2>2. Asked \in Nat /\ MaxAsked \in Nat
    BY TypesHold, RecordsAre, DialogueAssumption
  <2> QED BY <2>1, <2>2 DEF MayAsk
<1>4. WellStepped(NewDialogue(topic, step, Before(topic, step)))
  BY <1>1, <1>2 DEF WellStepped, NewDialogue
<1> QED BY <1>1, <1>2, <1>3, <1>4 DEF Asking, Resumed

(* A handler asks, and keeps the new dialogue in the dictionary of its     *)
(* topic.                                                                  *)
LEMMA AskKeeps ==
  ASSUME ChatIInv, NEW t \in Threads, thread[t].at = "handler", Go(t, Idle),
         UNCHANGED <<setup, event, events, shown, join, finance, export, alone>>,
         NEW topic, NEW step, NEW answered, Asking(topic, step, answered),
         \/ topic = "ADD_EVENT" /\ creation' = Asked + 1 /\ UNCHANGED pending
         \/ topic \in PendingTopics /\ pending' = Asked + 1 /\ UNCHANGED creation
  PROVE  ChatIInv'
<1>1. thread[t] # Idle
  BY IdleIs
<1>2. DialoguesTyped /\ StoresTyped /\ Asked \in Nat
  BY TypesHold, RecordsAre
<1>3. /\ DialoguesTyped' /\ Grows /\ Asked' = Asked + 1
      /\ dialogue'[Asked + 1].topic = topic
      /\ dialogue'[Asked + 1].carried = 0 /\ Sound(dialogue'[Asked + 1])
      /\ \A q \in 1..Asked : dialogue'[q] = dialogue[q]
  BY AskingDoes
<1>4. StoresTyped'
  <2>1. AskedIn(join, {"JOIN"})' /\ AskedIn(finance, FinanceTopics)'
    BY <1>2, <1>3 DEF StoresTyped, AskedIn
  <2>2. AskedIn(creation, {"ADD_EVENT"})'
    BY <1>2, <1>3 DEF StoresTyped, AskedIn
  <2>3. AskedIn(pending, PendingTopics)'
    BY <1>2, <1>3 DEF StoresTyped, AskedIn
  <2> QED BY <1>2, <2>1, <2>2, <2>3 DEF StoresTyped
<1>5. ASSUME alone PROVE \A q \in 1..Asked' : Sound(dialogue'[q]) /\ (Open(q) => Fresh(q))'
  <2> SUFFICES ASSUME NEW q \in 1..Asked'
               PROVE  Sound(dialogue'[q]) /\ (Open(q) => Fresh(q))'
    OBVIOUS
  <2>1. \A p \in 1..Asked : Sound(dialogue[p]) /\ (Open(p) => Fresh(p))
    BY <1>1, <1>5, AtWork, AllFresh
  <2>2. q \in 1..Asked \/ q = Asked + 1
    BY <1>2, <1>3
  <2>3. CASE q = Asked + 1
    BY <1>3, <2>3 DEF Fresh
  <2>4. CASE q \in 1..Asked
    <3>1. q # Asked + 1
      BY <1>2, <2>4
    <3> QED BY <1>3, <2>1, <2>4, <3>1 DEF Open, Fresh
  <2> QED BY <2>2, <2>3, <2>4
<1> QED BY <1>1, <1>3, <1>4, <1>5, EndsIdle

(* The stores that a step leaves alone keep their types.                    *)
LEMMA StoresKept ==
  ASSUME ChatIInv
  PROVE  event \in EventStates \cup {"none"} /\ events \in 0..MaxEvents /\ export \in BOOLEAN
BY TypesHold DEF StoresTyped

(* Opening the list of exports or sending a summary asks no guided          *)
(* question.                                                                *)
LEMMA OpenReportsKeeps ==
  ASSUME ChatIInv, NEW t \in Threads, thread[t].at = "handler", OpenReports(t) \/ Summarise(t),
         UNCHANGED <<setup, event, events, shown, alone>>
  PROVE  ChatIInv'
<1>1. /\ Go(t, Idle) /\ UNCHANGED <<dialogue, join, finance, creation, pending>>
      /\ export' = TRUE \/ export' = export
  BY DEF OpenReports, Summarise, stores
<1>2. export' \in BOOLEAN
  BY <1>1, StoresKept
<1> QED BY <1>1, <1>2, StoresKept, DropKeeps

(* A committee command starts its dialogue in the dictionary of pending     *)
(* actions.                                                                 *)
LEMMA StartPendingKeeps ==
  ASSUME ChatIInv, NEW t \in Threads, thread[t].at = "handler", StartPending(t),
         UNCHANGED <<setup, event, events, shown, alone>>
  PROVE  ChatIInv'
<1> DEFINE topic == thread[t].intent
<1>1. /\ Go(t, Idle) /\ topic \in PendingTopics
      /\ UNCHANGED <<join, finance, creation, export>>
  BY DEF StartPending
<1>2. CASE pending' = 0 /\ UNCHANGED dialogue
  BY <1>1, <1>2, StoresKept, DropKeeps
<1>3. CASE /\ MayAsk(topic) /\ pending' = Asked + 1
           /\ \E step \in StepSet(topic) : dialogue' = Append(dialogue, Resumed(topic, step))
  <2>1. PICK step \in StepSet(topic) : dialogue' = Append(dialogue, Resumed(topic, step))
    BY <1>3
  <2>2. Asking(topic, step, Before(topic, step))
    BY <1>1, <1>3, <2>1, AskingResumed
  <2> QED BY <1>1, <1>3, <2>2, AskKeeps
<1> QED BY <1>2, <1>3 DEF StartPending

(* Creating an event starts its dialogue, or creates one at once.           *)
LEMMA StartEventKeeps ==
  ASSUME ChatIInv, NEW t \in Threads, thread[t].at = "handler", StartEvent(t),
         UNCHANGED <<setup, shown, alone>>
  PROVE  ChatIInv'
<1>1. Go(t, Idle) /\ UNCHANGED <<join, finance, pending, export>>
  BY DEF StartEvent
<1>2. CASE /\ MayAsk("ADD_EVENT") /\ Ask("ADD_EVENT") /\ creation' = Asked + 1
           /\ UNCHANGED <<event, events>>
  <2>1. Asking("ADD_EVENT", First("ADD_EVENT"), {})
    BY <1>2, TopicsAre, AskingFirst
  <2> QED BY <1>1, <1>2, <2>1, AskKeeps
<1>3. CASE /\ events < MaxEvents /\ event' = "DRAFT" /\ events' = events + 1
           /\ creation' = 0 /\ UNCHANGED dialogue
  <2>1. events' \in 0..MaxEvents /\ event' \in EventStates \cup {"none"}
    BY <1>3, StoresKept, DialogueAssumption DEF EventStates
  <2> QED BY <1>1, <1>3, <2>1, StoresKept, DropKeeps
<1>4. CASE UNCHANGED <<event, events, dialogue, creation>>
  BY <1>1, <1>4, StoresKept, DropKeeps
<1> QED BY <1>2, <1>3, <1>4 DEF StartEvent

(* A thread takes up the dialogue a dictionary holds, at the step it is at. *)
LEMMA LookKeeps ==
  ASSUME ChatIInv, NEW t \in Threads, thread[t].at = "handler",
         NEW q \in 1..Asked, Open(q), dialogue[q].topic \in Guided, q = Kept(q), Look(t, q),
         UNCHANGED <<setup, event, events, shown, dialogue, stores, alone>>
  PROVE  ChatIInv'
<1>1. thread[t] # Idle /\ thread[t] \in ThreadState /\ Resolved(t) \in Intents
  BY IdleIs, TypesHold, ResolvedIs
<1>2. WellStepped(dialogue[q]) /\ dialogue[q] \in Record
  BY TypesHold, RecordsAre
<1>3. PICK step \in Marks : step = dialogue[q].step
  BY <1>2 DEF Record, Marks
<1>4. q \in Numbers
  BY TypesHold, RecordsAre, DialogueAssumption DEF Numbers
<1>5. PICK rec \in ThreadState : rec = Looked(thread[t], Resolved(t), q, step)
  BY <1>1, <1>4, LookedIs
<1>6. rec.at = "reply" /\ rec.q = q /\ rec.step = step
  BY <1>1, <1>4, <1>5, LookedIs
<1>7. Go(t, rec)
  BY <1>3, <1>5 DEF Look, Looked
<1>8. Knows(rec)
  BY <1>2, <1>3, <1>6 DEF Knows, About, WellStepped
<1>9. alone => Follows(rec)
  <2>1. alone => \A p \in 1..Asked : Open(p) => Fresh(p)
    BY <1>1, AllFresh
  <2> QED BY <1>3, <1>6, <2>1 DEF Follows
<1> QED BY <1>1, <1>7, <1>8, <1>9, QuietStep

(* A thread that continues an event's creation has looked up the one that   *)
(* is open.                                                                 *)
LEMMA ContinueEventKeeps ==
  ASSUME ChatIInv, NEW t \in Threads, thread[t].at = "handler", ContinueEvent(t),
         UNCHANGED <<setup, event, events, shown, alone>>
  PROVE  ChatIInv'
<1>1. creation # 0
  BY ResolvedIs DEF ContinueEvent
<1>2. PICK q \in 1..Asked : q = creation
  BY <1>1, TypesHold
<1>3. dialogue[q].topic = "ADD_EVENT" /\ Open(q) /\ q = Kept(q)
  BY <1>1, <1>2, TypesHold DEF Open, Kept
<1>4. Look(t, q) /\ UNCHANGED <<dialogue, stores>>
  BY <1>2 DEF ContinueEvent
<1> QED BY <1>3, <1>4, LookKeeps DEF Guided

(* A thread that continues a pending action has looked up the one that is   *)
(* open.                                                                    *)
LEMMA ContinuePendingKeeps ==
  ASSUME ChatIInv, NEW t \in Threads, thread[t].at = "handler", ContinuePending(t),
         UNCHANGED <<setup, event, events, shown, alone>>
  PROVE  ChatIInv'
<1>1. UNCHANGED <<dialogue, join, finance, creation, export>>
  BY DEF ContinuePending
<1>2. CASE Go(t, Idle) /\ pending' = 0
  BY <1>1, <1>2, StoresKept, DropKeeps
<1>3. CASE Look(t, pending) /\ UNCHANGED pending
  <2>1. pending # 0
    <3>1. CASE thread[t].intent = "none"
      BY <3>1, ResolvedIs DEF ContinuePending
    <3>2. CASE thread[t].intent # "none"
      <4>1. thread[t].intent = "COMMITTEE_PENDING_ACTION"
        BY <3>2, ResolvedIs DEF ContinuePending
      <4>2. thread[t].intent # "COMMITTEE_PENDING_ACTION"
        BY TypesHold DEF Knows
      <4> QED BY <4>1, <4>2
    <3> QED BY <3>1, <3>2
  <2>2. PICK q \in 1..Asked : q = pending
    BY <2>1, TypesHold
  <2>3. dialogue[q].topic \in PendingTopics
    BY <2>1, <2>2, TypesHold
  <2>4. dialogue[q].topic # "ADD_EVENT"
    BY <2>3, TopicsAre
  <2>5. Open(q) /\ q = Kept(q)
    BY <2>1, <2>2, <2>4 DEF Open, Kept
  <2> QED BY <1>1, <1>3, <2>2, <2>3, <2>5, LookKeeps DEF Guided, stores
<1> QED BY <1>2, <1>3 DEF ContinuePending

(* Whatever an intent is dispatched to keeps the invariant.                 *)
LEMMA DispatchKeeps ==
  ASSUME ChatIInv, NEW t \in Threads, Dispatch(t)
  PROVE  ChatIInv'
<1>1. thread[t].at = "handler" /\ UNCHANGED <<setup, shown, alone>>
  BY DEF Dispatch
<1>2. CASE Refuse(t)
  BY <1>1, <1>2, FinishedKeeps DEF Refuse
<1>3. CASE StartEvent(t)
  BY <1>1, <1>3, StartEventKeeps
<1>4. CASE Serve(t) /\ UNCHANGED <<event, events>>
  BY <1>1, <1>4, ServeKeeps
<1>5. CASE (OpenReports(t) \/ Summarise(t)) /\ UNCHANGED <<event, events>>
  BY <1>1, <1>5, OpenReportsKeeps
<1>6. CASE StartPending(t) /\ UNCHANGED <<event, events>>
  BY <1>1, <1>6, StartPendingKeeps
<1>7. CASE ContinueEvent(t) /\ UNCHANGED <<event, events>>
  BY <1>1, <1>7, ContinueEventKeeps
<1>8. CASE ContinuePending(t) /\ UNCHANGED <<event, events>>
  BY <1>1, <1>8, ContinuePendingKeeps
<1> QED BY <1>2, <1>3, <1>4, <1>5, <1>6, <1>7, <1>8 DEF Dispatch

-------------------------------------------------------------------------------
(***************************************************************************)
(* An answer is kept, or the request of its dialogue carried out.          *)
(***************************************************************************)
LEMMA KindsApart ==
  ASSUME ChatIInv, NEW q \in 1..Asked
  PROVE  /\ dialogue[q].topic = "JOIN" => q \notin {finance, creation, pending}
         /\ dialogue[q].topic \in FinanceTopics => q \notin {join, creation, pending}
         /\ dialogue[q].topic = "ADD_EVENT" => q \notin {join, finance, pending}
         /\ dialogue[q].topic \in PendingTopics => q \notin {join, finance, creation}
<1>1. q # 0
  BY TypesHold, RecordsAre
<1>2. /\ "JOIN" \notin FinanceTopics \cup PendingTopics \cup {"ADD_EVENT"}
      /\ "ADD_EVENT" \notin FinanceTopics \cup PendingTopics
      /\ FinanceTopics \cap PendingTopics = {}
  BY TopicsAre DEF FinanceTopics, Selections
<1> QED BY <1>1, <1>2, TypesHold

(* The thread that has found its dialogue.                                 *)
LEMMA AtReply ==
  ASSUME ChatIInv, NEW t \in Threads, thread[t].at \in {"reply", "served"}
  PROVE  /\ thread[t] # Idle /\ thread[t] \in ThreadState /\ Knows(thread[t])
         /\ thread[t].q \in 1..Asked /\ dialogue[thread[t].q].topic \in Guided
         /\ dialogue[thread[t].q] \in Record /\ WellStepped(dialogue[thread[t].q])
         /\ thread[t].step \in StepSet(dialogue[thread[t].q].topic)
         /\ dialogue[thread[t].q].topic \in PendingTopics =>
              Before(dialogue[thread[t].q].topic, thread[t].step) \subseteq dialogue[thread[t].q].answered
         /\ alone => /\ Follows(thread[t])
                     /\ thread[t].q = Kept(thread[t].q)
                     /\ thread[t].step = dialogue[thread[t].q].step
                     /\ thread[t].at = "reply" \/ thread[t].then # "done" => Fresh(thread[t].q)
                     /\ \A p \in 1..Asked : Open(p) => Fresh(p) \/ p = thread[t].q
                     /\ \A p \in 1..Asked : Sound(dialogue[p])
<1>1. thread[t] # Idle /\ thread[t] \in ThreadState /\ Knows(thread[t])
  BY IdleIs, TypesHold
<1>2. thread[t].q \in 1..Asked /\ dialogue[thread[t].q].topic \in Guided
  BY <1>1 DEF Knows, About
<1>3. dialogue[thread[t].q] \in Record /\ WellStepped(dialogue[thread[t].q])
  BY <1>2, TypesHold, RecordsAre
<1>4. /\ thread[t].step \in StepSet(dialogue[thread[t].q].topic)
      /\ dialogue[thread[t].q].topic \in PendingTopics =>
           Before(dialogue[thread[t].q].topic, thread[t].step) \subseteq dialogue[thread[t].q].answered
  BY <1>1 DEF Knows
<1>5. ASSUME alone
      PROVE  /\ Follows(thread[t])
             /\ thread[t].q = Kept(thread[t].q)
             /\ thread[t].step = dialogue[thread[t].q].step
             /\ thread[t].at = "reply" \/ thread[t].then # "done" => Fresh(thread[t].q)
             /\ \A p \in 1..Asked : Open(p) => Fresh(p) \/ p = thread[t].q
             /\ \A p \in 1..Asked : Sound(dialogue[p])
  <2>1. Follows(thread[t]) /\ \A p \in 1..Asked : Sound(dialogue[p])
    BY <1>1, <1>5, AtWork
  <2> QED BY <2>1 DEF Follows
<1> QED BY <1>1, <1>2, <1>3, <1>4, <1>5

(* Carried out once more.                                                  *)
LEMMA CarriedDoes ==
  ASSUME ChatIInv, NEW q \in 1..Asked,
         dialogue' = [dialogue EXCEPT ![q] = Carried(q, dialogue[q].answered)]
  PROVE  /\ DialoguesTyped' /\ Grows /\ Asked' = Asked
         /\ dialogue'[q].topic = dialogue[q].topic /\ dialogue'[q].step = dialogue[q].step
         /\ dialogue'[q].answered = dialogue[q].answered
         /\ \A p \in 1..Asked : p # q => dialogue'[p] = dialogue[p]
         /\ Fresh(q) /\ Sound(dialogue[q])
              /\ Before(dialogue[q].topic, Last(dialogue[q].topic)) \subseteq dialogue[q].answered
            => Sound(dialogue'[q])
<1> DEFINE d == Carried(q, dialogue[q].answered)
           all == Before(dialogue[q].topic, Last(dialogue[q].topic)) \subseteq dialogue[q].answered
<1>1. DialoguesTyped /\ dialogue[q] \in Record /\ WellStepped(dialogue[q])
  BY TypesHold, RecordsAre
<1>2. /\ d.topic = dialogue[q].topic /\ d.step = dialogue[q].step
      /\ d.answered = dialogue[q].answered
      /\ d.carried = IF dialogue[q].carried < 2 THEN dialogue[q].carried + 1 ELSE dialogue[q].carried
  BY <1>1 DEF Carried, Record
<1>3. d.complete = (dialogue[q].complete /\ all)
  BY <1>1 DEF Carried, Record
<1>4. d \in Record
  <2> DEFINE c == IF dialogue[q].carried < 2 THEN dialogue[q].carried + 1 ELSE dialogue[q].carried
             b == dialogue[q].complete /\ all
  <2>1. c \in 0..2
    BY <1>1 DEF Record
  <2>2. b \in BOOLEAN
    OBVIOUS
  <2>3. d = [dialogue[q] EXCEPT !.carried = c, !.complete = b]
    BY DEF Carried
  <2> HIDE DEF c, b, d
  <2> QED BY <1>1, <2>1, <2>2, <2>3 DEF Record
<1>5. Fresh(q) /\ Sound(dialogue[q]) /\ all => Sound(d)
  <2>1. Fresh(q) => d.carried <= 1
    BY <1>2 DEF Fresh
  <2>2. dialogue[q].complete /\ all => d.complete
    BY <1>3, Zenon
  <2>3. Sound(dialogue[q]) => (d.topic = "ADD_EVENT" => Before("ADD_EVENT", d.step) \subseteq d.answered)
    BY <1>2 DEF Sound
  <2> HIDE DEF d, all
  <2> QED BY <2>1, <2>2, <2>3 DEF Sound
<1>6. WellStepped(d) /\ Further(dialogue[q], d)
  BY <1>1, <1>2 DEF WellStepped, Further
<1>7. dialogue' = [dialogue EXCEPT ![q] = d]
  OBVIOUS
<1>8. all <=> Before(dialogue[q].topic, Last(dialogue[q].topic)) \subseteq dialogue[q].answered
  OBVIOUS
<1> HIDE DEF d, all
<1>9. /\ DialoguesTyped' /\ Grows /\ Asked' = Asked /\ dialogue'[q] = d
      /\ \A p \in 1..Asked : p # q => dialogue'[p] = dialogue[p]
  BY <1>1, <1>4, <1>6, <1>7, ChangeDoes
<1> QED BY <1>2, <1>5, <1>8, <1>9

(* A valid answer moves the dialogue to the step that follows the one it    *)
(* answers.                                                                 *)
LEMMA AdvanceKeeps ==
  ASSUME ChatIInv, NEW t \in Threads, thread[t].at = "reply", Advance(t),
         UNCHANGED <<setup, shown, alone>>
  PROVE  ChatIInv'
<1>1. PICK q \in 1..Asked : q = thread[t].q
  BY AtReply
<1>2. /\ thread[t] # Idle /\ dialogue[q].topic \in Guided
      /\ dialogue[q] \in Record /\ WellStepped(dialogue[q])
      /\ thread[t].step \in StepSet(dialogue[q].topic)
      /\ dialogue[q].topic \in PendingTopics =>
           Before(dialogue[q].topic, thread[t].step) \subseteq dialogue[q].answered
  BY <1>1, AtReply
<1>3. /\ Go(t, Idle) /\ UNCHANGED <<events, event, join, finance, export>>
      /\ thread[t].step \notin {Last(dialogue[q].topic), "override_reason"}
  BY <1>1 DEF Advance
<1>4. CASE creation' = 0 /\ UNCHANGED <<dialogue, pending>>
  BY <1>3, <1>4, StoresKept, DropKeeps
<1>5. CASE /\ ~(dialogue[q].topic = "ADD_EVENT" /\ dialogue[q].step = Last("ADD_EVENT"))
           /\ dialogue' = [dialogue EXCEPT ![q].answered = @ \cup {thread[t].step},
                                           ![q].step = NextStep(q, thread[t].step)]
           /\ IF dialogue[q].topic = "ADD_EVENT"
              THEN creation' = q /\ UNCHANGED pending
              ELSE pending' = q /\ UNCHANGED creation
  <2> DEFINE topic == dialogue[q].topic
             next == NextStep(q, thread[t].step)
             given == dialogue[q].answered \cup {thread[t].step}
             d == [dialogue[q] EXCEPT !.answered = given, !.step = next]
  <2>1. next \in StepSet(topic)
    <3>1. CASE topic = "ADD_EVENT"
      <4>1. dialogue[q].step \in StepSet(topic) \ {Last(topic), "override_reason"}
        BY <1>2, <1>5, <3>1, LastStepIs DEF WellStepped
      <4> QED BY <1>2, <3>1, <4>1, NextStepIs DEF NextStep
    <3>2. CASE topic # "ADD_EVENT"
      BY <1>2, <1>3, <3>2, NextStepIs DEF NextStep
    <3> QED BY <3>1, <3>2
  <2>2. topic \in PendingTopics => Before(topic, next) \subseteq given
    <3> SUFFICES ASSUME topic \in PendingTopics
                 PROVE  Before(topic, next) \subseteq given
      OBVIOUS
    <3>1. topic # "ADD_EVENT"
      BY TopicsAre
    <3>2. next = After(topic, thread[t].step)
      BY <3>1 DEF NextStep
    <3>3. Before(topic, next) \subseteq Before(topic, thread[t].step) \cup {thread[t].step}
      BY <1>2, <1>3, <3>2, NextStepIs
    <3> QED BY <1>2, <3>3
  <2>3. topic \in Topics /\ topic # "JOIN" /\ (topic = "ADD_EVENT" \/ topic \in PendingTopics)
    BY <1>2, TopicsAre DEF Guided
  <2>4. StepSet(topic) \subseteq StepNames
    BY <2>3, StepSetIs
  <2>5. given \subseteq StepSet(topic)
    BY <1>2 DEF WellStepped
  <2>6. dialogue' = [dialogue EXCEPT ![q] = d]
    BY <1>5
  <2> HIDE DEF next, given
  <2>7. /\ d \in Record /\ d.topic = topic /\ d.step = next /\ d.answered = given
        /\ d.carried = dialogue[q].carried /\ d.complete = dialogue[q].complete
    <3>1. next \in StepNames /\ given \in SUBSET StepNames
      BY <2>1, <2>4, <2>5
    <3> QED BY <1>2, <3>1 DEF Record
  <2> HIDE DEF d
  <2>8. WellStepped(d)
    BY <2>1, <2>2, <2>3, <2>5, <2>7 DEF WellStepped
  <2>9. Further(dialogue[q], d)
    BY <2>3, <2>7 DEF Further, given
  <2>10. /\ DialoguesTyped' /\ Grows /\ Asked' = Asked /\ dialogue'[q] = d
         /\ \A p \in 1..Asked : p # q => dialogue'[p] = dialogue[p]
    BY <2>6, <2>7, <2>8, <2>9, TypesHold, ChangeDoes
  <2>11. \A p \in 1..Asked : dialogue'[p].topic = dialogue[p].topic /\ dialogue'[p].carried = dialogue[p].carried
    BY <2>7, <2>10
  <2>12. StoresTyped'
    <3>1. StoresTyped
      BY TypesHold
    <3>2. AskedIn(join, {"JOIN"})' /\ AskedIn(finance, FinanceTopics)'
      BY <1>3, <2>10, <2>11, <3>1 DEF StoresTyped, AskedIn
    <3>3. AskedIn(creation, {"ADD_EVENT"})'
      BY <1>5, <2>3, <2>10, <2>11, <3>1 DEF StoresTyped, AskedIn
    <3>4. AskedIn(pending, PendingTopics)'
      BY <1>5, <2>3, <2>10, <2>11, <3>1 DEF StoresTyped, AskedIn
    <3> QED BY <1>3, <3>1, <3>2, <3>3, <3>4 DEF StoresTyped
  <2>13. ASSUME alone PROVE \A p \in 1..Asked' : Sound(dialogue'[p]) /\ (Open(p) => Fresh(p))'
    <3>1. /\ Fresh(q) /\ thread[t].step = dialogue[q].step
          /\ \A p \in 1..Asked : Sound(dialogue[p]) /\ (Open(p) => Fresh(p))
      BY <1>1, <1>2, <2>13, AtReply, AllFresh
    <3>2. Sound(d)
      <4>1. topic = "ADD_EVENT" => Before("ADD_EVENT", next) \subseteq given
        <5> SUFFICES ASSUME topic = "ADD_EVENT"
                     PROVE  Before("ADD_EVENT", next) \subseteq given
          OBVIOUS
        <5>1. next = After("ADD_EVENT", dialogue[q].step)
          BY DEF NextStep, next
        <5>2. dialogue[q].step \in StepSet("ADD_EVENT") \ {Last("ADD_EVENT"), "override_reason"}
          BY <1>2, <1>5, LastStepIs DEF WellStepped
        <5>3. Before("ADD_EVENT", next) \subseteq Before("ADD_EVENT", dialogue[q].step) \cup {dialogue[q].step}
          BY <5>1, <5>2, NextStepIs DEF Guided
        <5>4. Before("ADD_EVENT", dialogue[q].step) \subseteq dialogue[q].answered
          BY <3>1 DEF Sound
        <5> QED BY <3>1, <5>3, <5>4 DEF given
      <4>2. d.complete /\ d.carried <= 1
        BY <2>7, <3>1 DEF Sound
      <4> QED BY <2>7, <4>1, <4>2 DEF Sound
    <3>3. \A p \in 1..Asked : Open(p)' => Fresh(p)
      BY <1>3, <1>5, <3>1 DEF Open
    <3>4. \A p \in 1..Asked : Fresh(p) => Fresh(p)'
      BY <2>11 DEF Fresh
    <3> QED BY <2>10, <3>1, <3>2, <3>3, <3>4
  <2> QED BY <1>2, <1>3, <2>10, <2>12, <2>13, EndsIdle
<1> QED BY <1>1, <1>4, <1>5 DEF Advance

(* All that is asked before the last question has been answered.           *)
LEMMA AllAnswered ==
  ASSUME ChatIInv, NEW t \in Threads, thread[t].at = "reply", alone,
         NEW q, q = thread[t].q,
         thread[t].step \in {Last(dialogue[q].topic), "override_reason"}
  PROVE  Before(dialogue[q].topic, Last(dialogue[q].topic)) \subseteq dialogue[q].answered
<1>1. /\ q \in 1..Asked /\ dialogue[q].topic \in Guided /\ thread[t].step \in StepSet(dialogue[q].topic)
      /\ dialogue[q].topic \in PendingTopics =>
           Before(dialogue[q].topic, thread[t].step) \subseteq dialogue[q].answered
      /\ thread[t].step = dialogue[q].step /\ Sound(dialogue[q]) /\ WellStepped(dialogue[q])
  BY AtReply
<1>2. CASE dialogue[q].topic = "ADD_EVENT"
  BY <1>1, <1>2, LastStepIs DEF Sound
<1>3. CASE dialogue[q].topic = "REFUND_SPONSOR"
  BY <1>1, <1>3, LastStepIs, TopicsAre
<1>4. CASE dialogue[q].topic \in PendingTopics \ {"REFUND_SPONSOR"}
  <2>1. thread[t].step # "override_reason"
    <3>1. \A topic \in {"ADD_EXPENSE", "ADD_SPONSOR", "REMIND_FLAT", "ANNOUNCE_EVENT", "ANNOUNCE_SOCIETY"} :
            "override_reason" \notin StepSet(topic)
      BY StepsAre DEF StepSet
    <3> QED BY <1>1, <1>4, <3>1, TopicsAre
  <2> QED BY <1>1, <1>4, <2>1
<1> QED BY <1>1, <1>2, <1>3, <1>4 DEF Guided

(* A dialogue removed before its service runs is not open when it is        *)
(* carried out.                                                             *)
LEMMA DropAndServeKeeps ==
  ASSUME ChatIInv, NEW t \in Threads, thread[t].at = "reply", DropAndServe(t),
         UNCHANGED <<setup, shown, alone>>
  PROVE  ChatIInv'
<1>1. PICK q \in 1..Asked : q = thread[t].q
  BY AtReply
<1>2. /\ Go(t, Idle) /\ pending' = 0 /\ thread[t] # Idle
      /\ UNCHANGED <<events, event, join, finance, creation, export>>
      /\ dialogue[q].topic \notin {"ADD_EVENT", "REFUND_SPONSOR"}
      /\ thread[t].step = Last(dialogue[q].topic)
  BY <1>1, AtReply DEF DropAndServe
<1>3. CASE UNCHANGED dialogue
  BY <1>2, <1>3, StoresKept, DropKeeps
<1>4. CASE dialogue' = [dialogue EXCEPT ![q] = Carried(q, dialogue[q].answered)]
  <2>1. /\ DialoguesTyped' /\ Grows /\ Asked' = Asked
        /\ dialogue'[q].topic = dialogue[q].topic
        /\ \A p \in 1..Asked : p # q => dialogue'[p] = dialogue[p]
        /\ Fresh(q) /\ Sound(dialogue[q])
             /\ Before(dialogue[q].topic, Last(dialogue[q].topic)) \subseteq dialogue[q].answered
           => Sound(dialogue'[q])
    BY <1>4, CarriedDoes
  <2>2. \A p \in 1..Asked : dialogue'[p].topic = dialogue[p].topic
    BY <2>1
  <2>3. StoresTyped'
    BY <1>2, <2>1, <2>2, TypesHold DEF StoresTyped, AskedIn
  <2>4. ASSUME alone PROVE \A p \in 1..Asked' : Sound(dialogue'[p]) /\ (Open(p) => Fresh(p))'
    <3>1. Fresh(q) /\ \A p \in 1..Asked : Sound(dialogue[p]) /\ (Open(p) => Fresh(p))
      BY <1>1, <1>2, <2>4, AtReply, AllFresh
    <3>2. Sound(dialogue'[q])
      BY <1>1, <1>2, <2>1, <2>4, <3>1, AllAnswered
    <3>3. dialogue[q].topic \in PendingTopics
      BY <1>1, <1>2, AtReply DEF Guided
    <3>4. ~Open(q)'
      BY <1>2, <3>3, KindsApart DEF Open
    <3>5. \A p \in 1..Asked : p # q => (Open(p)' => Open(p)) /\ (Fresh(p)' <=> Fresh(p))
      BY <1>2, <2>1 DEF Open, Fresh
    <3> QED BY <2>1, <3>1, <3>2, <3>4, <3>5
  <2> QED BY <1>2, <2>1, <2>3, <2>4, EndsIdle
<1> QED BY <1>1, <1>3, <1>4 DEF DropAndServe

(* An event or a sponsor's refund is carried out before its dialogue is     *)
(* removed, and the dialogue stays in the hand of its thread.               *)
LEMMA ServeFirstKeeps ==
  ASSUME ChatIInv, NEW t \in Threads, thread[t].at = "reply", ServeFirst(t),
         UNCHANGED <<setup, shown, alone>>
  PROVE  ChatIInv'
<1>1. PICK q \in 1..Asked : q = thread[t].q
  BY AtReply
<1>2. /\ thread[t] # Idle /\ thread[t] \in ThreadState
      /\ dialogue[q].topic \in {"ADD_EVENT", "REFUND_SPONSOR"}
      /\ thread[t].step \in {Last(dialogue[q].topic), "override_reason"}
      /\ UNCHANGED stores
  BY <1>1, AtReply DEF ServeFirst
<1>3. ASSUME NEW then \in {"done", "failed", "needs override"}, NEW rec \in ThreadState,
             rec = Answered(thread[t], then), then = "needs override" => thread[t].step = "reason"
      PROVE  /\ Knows(rec) /\ rec.at = "served" /\ rec.then = then
             /\ rec.q = q /\ rec.step = thread[t].step
  <2>1. /\ rec.at = "served" /\ rec.then = then /\ rec.q = q /\ rec.step = thread[t].step
    <3>1. then \in Errands
      BY DEF Errands
    <3> QED BY <1>1, <1>2, <1>3, <3>1, AnsweredIs
  <2>2. /\ About(thread[t], Guided) /\ thread[t].step \in StepSet(dialogue[q].topic)
        /\ dialogue[q].topic \in PendingTopics =>
             Before(dialogue[q].topic, thread[t].step) \subseteq dialogue[q].answered
    BY <1>1, AtReply DEF Knows
  <2> QED BY <1>1, <1>2, <1>3, <2>1, <2>2 DEF Knows, About
<1>4. \A then \in {"done", "failed", "needs override"} : Answered(thread[t], then) \in ThreadState
  BY <1>2, AnsweredIs DEF Errands
<1>5. ASSUME NEW then \in {"failed", "needs override"}, Go(t, Answered(thread[t], then)),
             then = "needs override" => thread[t].step = "reason",
             UNCHANGED <<event, events, dialogue>>
      PROVE  ChatIInv'
  <2>1. PICK rec \in ThreadState : rec = Answered(thread[t], then)
    BY <1>4
  <2>2. /\ Knows(rec) /\ rec.at = "served" /\ rec.then = then
        /\ rec.q = q /\ rec.step = thread[t].step
    BY <1>3, <1>5, <2>1
  <2>3. alone => Follows(rec)
    <3>1. alone => /\ q = Kept(q) /\ thread[t].step = dialogue[q].step /\ Fresh(q)
                   /\ \A p \in 1..Asked : Open(p) => Fresh(p)
      BY <1>1, <1>2, AtReply, AllFresh
    <3> QED BY <1>5, <2>2, <3>1 DEF Follows
  <2> QED BY <1>2, <1>5, <2>1, <2>2, <2>3, QuietStep
<1>6. CASE /\ dialogue[q].topic = "ADD_EVENT" => events < MaxEvents
           /\ dialogue' = [dialogue EXCEPT ![q] = Carried(q, dialogue[q].answered)]
           /\ IF dialogue[q].topic = "ADD_EVENT"
              THEN event' = "DRAFT" /\ events' = events + 1
              ELSE UNCHANGED <<event, events>>
           /\ Go(t, Answered(thread[t], "done"))
  <2>1. PICK rec \in ThreadState : rec = Answered(thread[t], "done")
    BY <1>4
  <2>2. /\ Knows(rec) /\ rec.at = "served" /\ rec.then = "done"
        /\ rec.q = q /\ rec.step = thread[t].step
    BY <1>3, <2>1
  <2>3. /\ DialoguesTyped' /\ Grows /\ Asked' = Asked
        /\ dialogue'[q].topic = dialogue[q].topic /\ dialogue'[q].step = dialogue[q].step
        /\ \A p \in 1..Asked : p # q => dialogue'[p] = dialogue[p]
        /\ Fresh(q) /\ Sound(dialogue[q])
             /\ Before(dialogue[q].topic, Last(dialogue[q].topic)) \subseteq dialogue[q].answered
           => Sound(dialogue'[q])
    BY <1>6, CarriedDoes
  <2>4. \A p \in 1..Asked : dialogue'[p].topic = dialogue[p].topic
    BY <2>3
  <2>5. event' \in EventStates \cup {"none"} /\ events' \in 0..MaxEvents
    BY <1>6, StoresKept, DialogueAssumption DEF EventStates
  <2>6. StoresTyped'
    BY <1>2, <2>3, <2>4, <2>5, TypesHold DEF StoresTyped, AskedIn, stores
  <2>7. Knows(rec)'
    BY <2>2, <2>3, TypesHold, KnowsStays
  <2>8. ASSUME alone PROVE Follows(rec)' /\ \A p \in 1..Asked' : Sound(dialogue'[p])
    <3>1. /\ q = Kept(q) /\ thread[t].step = dialogue[q].step /\ Fresh(q)
          /\ \A p \in 1..Asked : Sound(dialogue[p]) /\ (Open(p) => Fresh(p))
      BY <1>1, <1>2, <2>8, AtReply, AllFresh
    <3>2. Sound(dialogue'[q])
      BY <1>1, <1>2, <2>3, <2>8, <3>1, AllAnswered
    <3>3. Kept(q)' = q
      BY <1>2, <2>3, <3>1 DEF Kept, stores
    <3>4. \A p \in 1..Asked : p # q => (Open(p) => Fresh(p))'
      BY <1>2, <2>3, <3>1 DEF Open, Fresh, stores
    <3>5. Follows(rec)'
      BY <2>2, <2>3, <3>1, <3>3, <3>4 DEF Follows
    <3> QED BY <2>3, <3>1, <3>2, <3>5
  <2> QED BY <1>2, <1>6, <2>1, <2>3, <2>6, <2>7, <2>8, StepKeeps
<1> QED BY <1>1, <1>5, <1>6 DEF ServeFirst, Answered

(* Whatever an answer leads to keeps the invariant.                         *)
LEMMA ReplyKeeps ==
  ASSUME ChatIInv, NEW t \in Threads, Reply(t)
  PROVE  ChatIInv'
<1>1. thread[t].at = "reply" /\ UNCHANGED <<setup, shown, alone>>
  BY DEF Reply
<1>2. CASE Reject(t)
  BY <1>1, <1>2, AtReply, GoesIdle DEF Reject
<1> QED BY <1>1, <1>2, AdvanceKeeps, DropAndServeKeeps, ServeFirstKeeps DEF Reply

-------------------------------------------------------------------------------
(***************************************************************************)
(* What has been carried out leaves its dictionary.                        *)
(***************************************************************************)
(* One dialogue is dropped, after it has been carried out or has failed.   *)
LEMMA LeavesDone ==
  ASSUME ChatIInv, NEW t \in Threads, thread[t].at \in {"served", "after"}, Go(t, Idle),
         UNCHANGED <<setup, event, events, shown, dialogue, export, alone>>,
         join' \in {0, join}, finance' \in {0, finance},
         creation' \in {0, creation}, pending' \in {0, pending},
         alone => Fresh(thread[t].q) \/ thread[t].q \notin {join', finance', creation', pending'}
  PROVE  ChatIInv'
<1>1. thread[t] # Idle
  BY IdleIs
<1>2. DialoguesTyped /\ StoresTyped /\ DialoguesTyped' /\ Grows /\ Asked' = Asked
  <2>1. DialoguesTyped /\ StoresTyped
    BY TypesHold
  <2>2. DialoguesTyped' /\ Asked' = Asked
    BY <2>1 DEF DialoguesTyped, Asked
  <2> QED BY <2>1, <2>2, SameGrows
<1>3. StoresTyped'
  <2>1. AskedIn(join, {"JOIN"})' /\ AskedIn(finance, FinanceTopics)'
    BY <1>2 DEF StoresTyped, AskedIn
  <2>2. AskedIn(creation, {"ADD_EVENT"})' /\ AskedIn(pending, PendingTopics)'
    BY <1>2 DEF StoresTyped, AskedIn
  <2> QED BY <1>2, <2>1, <2>2 DEF StoresTyped
<1>4. ASSUME alone PROVE \A p \in 1..Asked' : Sound(dialogue'[p]) /\ (Open(p) => Fresh(p))'
  <2>1. \A p \in 1..Asked : Open(p) => Fresh(p) \/ p = thread[t].q
    BY <1>1, <1>4, AtWork DEF Follows
  <2>2. \A p \in 1..Asked : Open(p)' => Open(p) /\ p \in {join', finance', creation', pending'}
    BY DEF Open
  <2>3. \A p \in 1..Asked : Fresh(p)' <=> Fresh(p)
    BY DEF Fresh
  <2>4. \A p \in 1..Asked : Open(p)' => Fresh(p)
    <3> SUFFICES ASSUME NEW p \in 1..Asked, Open(p)' PROVE Fresh(p)
      OBVIOUS
    <3>1. CASE p = thread[t].q
      BY <1>4, <2>2, <3>1
    <3>2. CASE p # thread[t].q
      BY <2>1, <2>2, <3>2
    <3> QED BY <3>1, <3>2
  <2> QED BY <1>2, <1>4, <2>3, <2>4, SoundStays
<1> QED BY <1>1, <1>2, <1>3, <1>4, EndsIdle

(* After the service the thread removes the dialogue it carried out, or     *)
(* asks for the reason of an override.                                      *)
LEMMA ServedKeeps ==
  ASSUME ChatIInv, NEW t \in Threads, Served(t)
  PROVE  ChatIInv'
<1>1. PICK q \in 1..Asked : q = thread[t].q
  BY AtReply DEF Served
<1>2. /\ thread[t].at = "served" /\ thread[t] # Idle /\ Go(t, Idle)
      /\ UNCHANGED <<setup, event, events, shown, join, finance, export, alone>>
      /\ dialogue[q].topic \in {"ADD_EVENT", "REFUND_SPONSOR"}
      /\ thread[t].then \in {"done", "failed", "needs override"}
      /\ thread[t].then = "needs override" => thread[t].step = "reason"
  BY <1>1, AtReply DEF Served, Knows
<1>3. alone /\ thread[t].then # "done" => Fresh(q)
  BY <1>1, <1>2, AtReply
<1> DEFINE keeps == thread[t].then = "failed" /\ thread[t].step # "reason"
<1>4. CASE dialogue[q].topic = "ADD_EVENT"
  <2>1. creation' = (IF keeps THEN creation ELSE 0) /\ UNCHANGED <<dialogue, pending>>
    BY <1>1, <1>4 DEF Served
  <2>2. q \notin {join, finance, pending} /\ q # 0
    BY <1>4, KindsApart, TypesHold, RecordsAre
  <2>3. alone => Fresh(q) \/ q \notin {join', finance', creation', pending'}
    BY <1>2, <1>3, <2>1, <2>2
  <2> QED BY <1>1, <1>2, <2>1, <2>3, LeavesDone
<1>5. CASE dialogue[q].topic = "REFUND_SPONSOR" /\ thread[t].then # "needs override"
  <2>1. pending' = (IF keeps THEN pending ELSE 0) /\ UNCHANGED <<dialogue, creation>>
    BY <1>1, <1>5 DEF Served
  <2>2. q \notin {join, finance, creation} /\ q # 0
    <3>1. dialogue[q].topic \in PendingTopics
      BY <1>5, TopicsAre
    <3> QED BY <3>1, KindsApart, TypesHold, RecordsAre
  <2>3. alone => Fresh(q) \/ q \notin {join', finance', creation', pending'}
    BY <1>2, <1>3, <2>1, <2>2
  <2> QED BY <1>1, <1>2, <2>1, <2>3, LeavesDone
<1>6. CASE dialogue[q].topic = "REFUND_SPONSOR" /\ thread[t].then = "needs override"
  <2> DEFINE given == dialogue[q].answered \cup {"reason"}
             d == [dialogue[q] EXCEPT !.answered = given, !.step = "override_reason"]
  <2>1. dialogue' = [dialogue EXCEPT ![q] = d] /\ pending' = q /\ UNCHANGED creation
    BY <1>1, <1>6 DEF Served
  <2>2. /\ dialogue[q] \in Record /\ WellStepped(dialogue[q])
        /\ thread[t].step = "reason"
        /\ Before("REFUND_SPONSOR", "reason") \subseteq dialogue[q].answered
    BY <1>1, <1>2, <1>6, AtReply, TopicsAre
  <2>3. {"reason", "override_reason"} \subseteq StepSet("REFUND_SPONSOR")
    BY LastStepIs
  <2>4. given \subseteq StepSet("REFUND_SPONSOR") /\ Before("REFUND_SPONSOR", "override_reason") \subseteq given
    BY <1>6, <2>2, <2>3, LastStepIs DEF WellStepped
  <2>5. StepSet("REFUND_SPONSOR") \subseteq StepNames
    BY TopicsAre, StepSetIs
  <2> HIDE DEF given
  <2>6. /\ d \in Record /\ d.topic = "REFUND_SPONSOR" /\ d.step = "override_reason" /\ d.answered = given
        /\ d.carried = dialogue[q].carried /\ d.complete = dialogue[q].complete
    <3>1. "override_reason" \in StepNames /\ given \in SUBSET StepNames
      BY <2>3, <2>4, <2>5
    <3> QED BY <1>6, <2>2, <3>1 DEF Record
  <2> HIDE DEF d
  <2>7. WellStepped(d)
    BY <2>3, <2>4, <2>6 DEF WellStepped
  <2>8. Further(dialogue[q], d)
    BY <1>6, <2>6 DEF Further, given
  <2>9. /\ DialoguesTyped' /\ Grows /\ Asked' = Asked /\ dialogue'[q] = d
        /\ \A p \in 1..Asked : p # q => dialogue'[p] = dialogue[p]
    BY <2>1, <2>6, <2>7, <2>8, TypesHold, ChangeDoes
  <2>10. \A p \in 1..Asked : dialogue'[p].topic = dialogue[p].topic /\ dialogue'[p].carried = dialogue[p].carried
    BY <1>6, <2>6, <2>9
  <2>11. StoresTyped'
    <3>1. StoresTyped /\ "REFUND_SPONSOR" \in PendingTopics
      BY TypesHold, TopicsAre
    <3>2. AskedIn(join, {"JOIN"})' /\ AskedIn(finance, FinanceTopics)'
      BY <1>2, <2>9, <2>10, <3>1 DEF StoresTyped, AskedIn
    <3>3. AskedIn(creation, {"ADD_EVENT"})'
      BY <2>1, <2>9, <2>10, <3>1 DEF StoresTyped, AskedIn
    <3>4. AskedIn(pending, PendingTopics)'
      BY <1>6, <2>1, <2>9, <2>10, <3>1 DEF StoresTyped, AskedIn
    <3> QED BY <1>2, <3>1, <3>2, <3>3, <3>4 DEF StoresTyped
  <2>12. ASSUME alone PROVE \A p \in 1..Asked' : Sound(dialogue'[p]) /\ (Open(p) => Fresh(p))'
    <3>1. /\ Fresh(q) /\ \A p \in 1..Asked : Open(p) => Fresh(p) \/ p = q
          /\ \A p \in 1..Asked : Sound(dialogue[p])
      BY <1>1, <1>2, <1>6, <2>12, AtReply
    <3>2. Sound(d)
      BY <1>6, <2>6, <3>1 DEF Sound
    <3>3. \A p \in 1..Asked : Open(p)' => Fresh(p)
      BY <1>2, <2>1, <3>1 DEF Open
    <3>4. \A p \in 1..Asked : Fresh(p) => Fresh(p)'
      BY <2>10 DEF Fresh
    <3> QED BY <2>9, <3>1, <3>2, <3>3, <3>4
  <2> QED BY <1>2, <2>9, <2>11, <2>12, EndsIdle
<1> QED BY <1>2, <1>4, <1>5, <1>6

(* The thread that carried a dialogue out removes the one it holds.         *)
LEMMA EndKeeps ==
  ASSUME ChatIInv, NEW t \in Threads, End(t)
  PROVE  ChatIInv'
<1>1. /\ thread[t].at = "after" /\ thread[t] # Idle /\ Go(t, Idle)
      /\ UNCHANGED <<setup, event, events, shown, dialogue, creation, pending, export, alone>>
  BY IdleIs DEF End
<1>2. Knows(thread[t])
  BY TypesHold
<1>3. CASE thread[t].then = "end join"
  <2>1. PICK q \in 1..Asked : q = thread[t].q /\ dialogue[q].topic = "JOIN"
    BY <1>1, <1>2, <1>3 DEF Knows, About
  <2>2. join' = 0 /\ UNCHANGED finance
    BY <1>3 DEF End
  <2>3. q \notin {join', finance', creation', pending'}
    BY <1>1, <2>1, <2>2, KindsApart, TypesHold, RecordsAre
  <2> QED BY <1>1, <2>1, <2>2, <2>3, LeavesDone
<1>4. CASE thread[t].then # "end join"
  <2>1. PICK q \in 1..Asked : q = thread[t].q /\ dialogue[q].topic \in FinanceTopics
    BY <1>1, <1>2, <1>4 DEF Knows, About, OneAnswer, FinanceTopics
  <2>2. finance' = 0 /\ UNCHANGED join
    BY <1>4 DEF End
  <2>3. q \notin {join', finance', creation', pending'}
    BY <1>1, <2>1, <2>2, KindsApart, TypesHold, RecordsAre
  <2> QED BY <1>1, <2>1, <2>2, <2>3, LeavesDone
<1> QED BY <1>3, <1>4

(* The service of a one-answer dialogue runs once for the thread that holds *)
(* it.                                                                      *)
LEMMA ServiceKeeps ==
  ASSUME ChatIInv, NEW t \in Threads, Service(t)
  PROVE  ChatIInv'
<1>1. /\ thread[t].at = "service" /\ thread[t] # Idle /\ Knows(thread[t])
      /\ UNCHANGED <<setup, event, events, shown, join, finance, creation, pending, alone>>
  BY IdleIs, TypesHold DEF Service
<1>2. CASE thread[t].intent = "EXPORT_SELECTION"
  <2>1. export' \in {FALSE, export} /\ Go(t, Idle) /\ UNCHANGED dialogue
    BY <1>2 DEF Service
  <2>2. export' \in BOOLEAN
    BY <2>1, StoresKept
  <2> QED BY <1>1, <2>1, <2>2, StoresKept, DropKeeps
<1>3. CASE Go(t, Finished(t, FALSE)) /\ UNCHANGED <<dialogue, export>>
  BY <1>1, <1>3, FinishedKeeps DEF stores
<1>4. CASE /\ thread[t].intent # "EXPORT_SELECTION"
           /\ dialogue' = [dialogue EXCEPT ![thread[t].q] = Carried(thread[t].q, dialogue[thread[t].q].answered)]
           /\ Go(t, Finished(t, TRUE)) /\ UNCHANGED export
  <2>1. thread[t].then \in {"end join", "end finance", "end if done"}
    BY <1>1, <1>4 DEF Knows
  <2>2. PICK q \in 1..Asked : q = thread[t].q
    BY <1>1, <2>1 DEF Knows, About
  <2>3. PICK rec \in ThreadState : rec = Finished(t, TRUE)
    BY <1>1, FinishedIs
  <2>4. MayLeave(t, rec)
    BY <1>1, <2>1, <2>3, FinishedIs
  <2>5. Knows(rec)
    BY <1>1, <2>4, LeaverKnows
  <2>6. /\ DialoguesTyped' /\ Grows /\ Asked' = Asked
        /\ dialogue'[q].topic = dialogue[q].topic
        /\ \A p \in 1..Asked : p # q => dialogue'[p] = dialogue[p]
        /\ Fresh(q) /\ Sound(dialogue[q])
             /\ Before(dialogue[q].topic, Last(dialogue[q].topic)) \subseteq dialogue[q].answered
           => Sound(dialogue'[q])
    BY <1>4, <2>2, CarriedDoes
  <2>7. Knows(rec)'
    BY <2>5, <2>6, TypesHold, KnowsStays
  <2>8. \A p \in 1..Asked : dialogue'[p].topic = dialogue[p].topic
    BY <2>6
  <2>9. StoresTyped'
    BY <1>1, <1>4, <2>6, <2>8, TypesHold DEF StoresTyped, AskedIn
  <2>10. Before(dialogue[q].topic, Last(dialogue[q].topic)) \subseteq dialogue[q].answered
    <3>1. CASE thread[t].then = "end join"
      <4>1. dialogue[q].topic = "JOIN" /\ dialogue[q].step = "flat" /\ WellStepped(dialogue[q])
        BY <1>1, <2>2, <3>1, TypesHold, RecordsAre DEF Knows, About
      <4> QED BY <4>1, LastStepIs DEF WellStepped
    <3>2. CASE thread[t].then # "end join"
      <4>1. dialogue[q].topic \in OneAnswer
        BY <1>1, <2>1, <2>2, <3>2 DEF Knows, About
      <4> QED BY <4>1, LastStepIs
    <3> QED BY <3>1, <3>2
  <2>11. ASSUME alone PROVE Follows(rec)' /\ \A p \in 1..Asked' : Sound(dialogue'[p])
    <3>1. Follows(thread[t]) /\ \A p \in 1..Asked : Sound(dialogue[p]) /\ (Open(p) => Fresh(p))
      BY <1>1, <2>11, AtWork, AllFresh
    <3>2. /\ Fresh(q) /\ (thread[t].then = "end join" => q = join)
          /\ thread[t].then # "end join" => q = finance
      BY <1>1, <2>1, <2>2, <3>1 DEF Follows
    <3>3. Sound(dialogue'[q])
      BY <2>6, <2>10, <3>1, <3>2
    <3>4. \A p \in 1..Asked : p # q => (Open(p) => Fresh(p))'
      BY <1>1, <2>6, <3>1 DEF Open, Fresh
    <3>5. rec.at = "after" /\ rec.q = q /\ rec.then = thread[t].then
      BY <2>2, <2>4 DEF MayLeave
    <3>6. Follows(rec)'
      BY <1>1, <2>1, <2>6, <3>2, <3>4, <3>5 DEF Follows
    <3> QED BY <2>6, <3>1, <3>3, <3>6
  <2> QED BY <1>1, <1>4, <2>3, <2>6, <2>7, <2>9, <2>11, StepKeeps
<1> QED BY <1>2, <1>3, <1>4 DEF Service

(* Every step of a thread keeps the invariant.                              *)
LEMMA WorkKeeps ==
  ASSUME ChatIInv, NEW t \in Threads, Work(t)
  PROVE  ChatIInv'
BY SessionKeeps, CodeCheckedKeeps, DispatchKeeps, ReplyKeeps, ServedKeeps, ServiceKeeps, EndKeeps
   DEF Work

-------------------------------------------------------------------------------
(***************************************************************************)
(* The menus, other members, a restart, and a new message.                 *)
(***************************************************************************)
(* No thread moves: what each knows stays true, and the one at work, if    *)
(* any, still follows its dialogue.                                        *)
LEMMA ThreadsStay ==
  ASSUME ChatIInv, UNCHANGED thread, Grows, DialoguesTyped', StoresTyped', alone' => alone,
         alone' => \A q \in 1..Asked' : Sound(dialogue'[q]),
         alone' => \A t \in Threads : QuietBut(t) => Follows(thread[t])'
  PROVE  ChatIInv'
<1>1. ThreadsTyped'
  <2>1. thread' \in [Threads -> ThreadState]
    BY DEF ChatIInv, ChatTypes, ThreadsTyped
  <2>2. ASSUME NEW u \in Threads PROVE Knows(thread[u])'
    <3>1. PICK v \in ThreadState : v = thread[u]
      BY TypesHold
    <3>2. Knows(v)
      BY <3>1, TypesHold
    <3>3. Knows(v)'
      BY <3>2, TypesHold, KnowsStays
    <3> QED BY <3>1, <3>3 DEF Knows, About
  <2> QED BY <2>1, <2>2 DEF ThreadsTyped
<1>2. OneBusy'
  BY DEF ChatIInv, AloneIInv, OneBusy, QuietBut
<1>3. DialoguesSound'
  BY DEF DialoguesSound, Sound
<1>4. OneFollows'
  BY DEF OneFollows, QuietBut
<1> QED BY <1>1, <1>2, <1>3, <1>4 DEF ChatIInv, ChatTypes, AloneIInv

(* Steps that ask nothing and leave threads and stores alone keep it.       *)
LEMMA NothingAsked ==
  ASSUME ChatIInv,
         UNCHANGED <<dialogue, join, finance, creation, pending, export, thread, alone>>,
         setup' \in Setups, shown' \subseteq Topics,
         event' \in EventStates \cup {"none"}, events' \in 0..MaxEvents
  PROVE  ChatIInv'
<1>1. DialoguesTyped /\ StoresTyped /\ DialoguesTyped' /\ Grows /\ Asked' = Asked
  <2>1. DialoguesTyped /\ StoresTyped
    BY TypesHold
  <2>2. DialoguesTyped' /\ Asked' = Asked
    BY <2>1 DEF DialoguesTyped, Asked
  <2> QED BY <2>1, <2>2, SameGrows
<1>2. StoresTyped'
  BY <1>1 DEF StoresTyped, AskedIn
<1>3. alone => \A t \in Threads : QuietBut(t) => Follows(thread[t])'
  <2> SUFFICES ASSUME alone, NEW t \in Threads, QuietBut(t) PROVE Follows(thread[t])'
    OBVIOUS
  <2>1. Follows(thread[t])
    BY DEF ChatIInv, AloneIInv, OneFollows
  <2> QED BY <2>1, <1>1 DEF Follows, Open, Fresh, Kept
<1>4. alone => \A q \in 1..Asked' : Sound(dialogue'[q])
  BY SoundStays
<1> QED BY <1>1, <1>2, <1>3, <1>4, ThreadsStay

(* What the sender of an instance may do.                                   *)
LEMMA SetupIs ==
  ASSUME ChatIInv
  PROVE  setup \in Setups /\ setup.topics \subseteq Topics /\ setup.asks \in 0..MaxAsked
         /\ shown \subseteq Topics
BY TypesHold, DialogueAssumption DEF StoresTyped

(* Reading a menu shows topics and asks nothing.                            *)
LEMMA BrowseKeeps ==
  ASSUME ChatIInv, Browse
  PROVE  ChatIInv'
<1>1. shown' \subseteq shown \cup setup.topics
  BY DEF Browse, Participation, PaymentsMenu, FinanceMenu, SocietyMenu, Show
<1>2. shown' \subseteq Topics
  BY <1>1, SetupIs
<1> QED BY <1>2, SetupIs, StoresKept, NothingAsked DEF Browse, stores

(* The event moves without a dialogue.                                      *)
LEMMA EventMovesKeeps ==
  ASSUME ChatIInv, EventMoves
  PROVE  ChatIInv'
<1>1. event' \in EventStates \cup {"none"} /\ events' \in 0..MaxEvents
  <2>1. CASE event \notin {"none", "CLOSED"} /\ UNCHANGED events
             /\ event' = [DRAFT |-> "ACTIVE", ACTIVE |-> "LOCKED", LOCKED |-> "EVENT_DAY",
                          EVENT_DAY |-> "CLOSED"][event]
    BY <2>1, StoresKept DEF EventStates
  <2>2. CASE events < MaxEvents /\ event' = "DRAFT" /\ events' = events + 1
    BY <2>2, StoresKept, DialogueAssumption DEF EventStates
  <2> QED BY <2>1, <2>2 DEF EventMoves
<1> QED BY <1>1, SetupIs, NothingAsked DEF EventMoves, stores

(* With every thread idle, nothing open has been carried out.              *)
LEMMA AllQuiet ==
  ASSUME ChatIInv, alone, \A u \in Threads : thread[u] = Idle, NEW t \in Threads
  PROVE  \A q \in 1..Asked : Open(q) => Fresh(q)
<1>1. Follows(Idle)
  BY DEF ChatIInv, AloneIInv, OneFollows, QuietBut
<1> QED BY <1>1, IdleIs DEF Follows

(* A tapped row is a message of its own, which may overlap one under way:   *)
(* alone then no longer holds, else the open dialogues are as fresh as      *)
(* before.                                                                  *)
LEMMA TapQuiet ==
  ASSUME ChatIInv, Interrupts, UNCHANGED <<setup, event, events, creation, pending, export, thread>>,
         Grows, DialoguesTyped', shown' \subseteq Topics,
         AskedIn(join, {"JOIN"})', AskedIn(finance, FinanceTopics)',
         alone => \A q \in 1..Asked' : Sound(dialogue'[q]),
         (\A q \in 1..Asked : Open(q) => Fresh(q)) => (\A q \in 1..Asked : Open(q) => Fresh(q))'
  PROVE  ChatIInv'
<1>1. alone' \in BOOLEAN /\ (alone' => alone /\ \A u \in Threads : thread[u] = Idle)
  BY DEF Interrupts
<1>2. StoresTyped'
  <2>1. AskedIn(creation, {"ADD_EVENT"})' /\ AskedIn(pending, PendingTopics)'
    <3>1. StoresTyped /\ Asked \in Nat
      BY TypesHold, RecordsAre
    <3> QED BY <3>1 DEF StoresTyped, AskedIn, Grows, Further
  <2> QED BY <1>1, <2>1, TypesHold DEF StoresTyped
<1>3. ASSUME alone', NEW t \in Threads PROVE Follows(thread[t])'
  <2>1. (\A q \in 1..Asked : Open(q) => Fresh(q))'
    BY <1>1, <1>3, AllQuiet
  <2>2. thread[t]' = Idle
    BY <1>1, <1>3
  <2> QED BY <2>1, <2>2, IdleIs DEF Follows
<1>4. alone' => \A t \in Threads : QuietBut(t) => Follows(thread[t])'
  BY <1>3
<1>5. (alone' => alone) /\ (alone' => \A q \in 1..Asked' : Sound(dialogue'[q]))
  BY <1>1
<1> QED BY <1>2, <1>4, <1>5, ThreadsStay

(* A tapped row that asks starts a fresh dialogue in the place of an older  *)
(* one.                                                                     *)
LEMMA TapAsks ==
  ASSUME ChatIInv, Interrupts, UNCHANGED <<setup, event, events, shown, creation, pending, export, thread>>,
         NEW topic \in Topics, MayAsk(topic), Ask(topic),
         \/ topic = "JOIN" /\ join' = Asked + 1 /\ UNCHANGED finance
         \/ topic \in FinanceTopics /\ finance' = Asked + 1 /\ UNCHANGED join
  PROVE  ChatIInv'
<1>1. Asking(topic, First(topic), {})
  BY AskingFirst
<1>2. /\ DialoguesTyped' /\ Grows /\ Asked' = Asked + 1 /\ Asked \in Nat
      /\ dialogue'[Asked + 1].topic = topic
      /\ dialogue'[Asked + 1].carried = 0 /\ Sound(dialogue'[Asked + 1])
      /\ \A q \in 1..Asked : dialogue'[q] = dialogue[q]
  BY <1>1, AskingDoes, TypesHold, RecordsAre
<1>3. StoresTyped
  BY TypesHold
<1>4. AskedIn(join, {"JOIN"})'
  BY <1>2, <1>3 DEF StoresTyped, AskedIn
<1>5. AskedIn(finance, FinanceTopics)'
  BY <1>2, <1>3 DEF StoresTyped, AskedIn
<1>6. \A q \in 1..Asked' : q \in 1..Asked \/ q = Asked + 1
  BY <1>2
<1>7. alone => \A q \in 1..Asked' : Sound(dialogue'[q])
  BY <1>2, <1>6 DEF ChatIInv, AloneIInv, DialoguesSound, Sound
<1>8. ASSUME \A q \in 1..Asked : Open(q) => Fresh(q)
      PROVE  (\A q \in 1..Asked : Open(q) => Fresh(q))'
  <2> SUFFICES ASSUME NEW q \in 1..Asked', Open(q)' PROVE Fresh(q)'
    OBVIOUS
  <2>1. CASE q = Asked + 1
    BY <1>2, <2>1 DEF Fresh
  <2>2. CASE q \in 1..Asked
    <3>1. q # Asked + 1
      BY <1>2, <2>2
    <3> QED BY <1>2, <1>8, <2>2, <3>1 DEF Open, Fresh
  <2> QED BY <1>6, <2>1, <2>2
<1> QED BY <1>2, <1>4, <1>5, <1>7, <1>8, SetupIs, TapQuiet

(* A tapped row that answers or cancels changes no dialogue.                *)
LEMMA TapAnswers ==
  ASSUME ChatIInv, Interrupts,
         UNCHANGED <<setup, event, events, dialogue, join, creation, pending, export, thread>>,
         finance' \in {0, finance}, shown' \subseteq Topics
  PROVE  ChatIInv'
<1>1. DialoguesTyped /\ StoresTyped /\ DialoguesTyped' /\ Grows /\ Asked' = Asked
  <2>1. DialoguesTyped /\ StoresTyped
    BY TypesHold
  <2>2. DialoguesTyped' /\ Asked' = Asked
    BY <2>1 DEF DialoguesTyped, Asked
  <2> QED BY <2>1, <2>2, SameGrows
<1>2. AskedIn(join, {"JOIN"})' /\ AskedIn(finance, FinanceTopics)'
  BY <1>1 DEF StoresTyped, AskedIn
<1>3. (\A q \in 1..Asked : Open(q) => Fresh(q)) => (\A q \in 1..Asked : Open(q) => Fresh(q))'
  BY <1>1 DEF Open, Fresh
<1>4. alone => \A q \in 1..Asked' : Sound(dialogue'[q])
  BY SoundStays
<1> QED BY <1>1, <1>2, <1>3, <1>4, TapQuiet

(* Every tap keeps the invariant.                                           *)
LEMMA TapKeeps ==
  ASSUME ChatIInv, Tap
  PROVE  ChatIInv'
<1>1. Interrupts /\ UNCHANGED <<setup, event, events, creation, pending, export, thread>>
  BY DEF Tap
<1>2. FinanceTopics \subseteq Topics /\ "JOIN" \in Topics
  BY DEF Topics
<1>3. {"VIEW_BALANCE", "MAKE_PAYMENT", "PAY_CUSTOM", "REFUND_REQUEST", "ADD_PASS_COUNTS"} \subseteq FinanceTopics
  BY DEF FinanceTopics, Selections
<1>4. CASE TapJoin
  BY <1>1, <1>2, <1>4, TapAsks DEF TapJoin
<1>5. ASSUME NEW topic \in FinanceTopics, MayAsk(topic), Ask(topic), finance' = Asked + 1,
             UNCHANGED <<shown, join>>
      PROVE  ChatIInv'
  BY <1>1, <1>2, <1>5, TapAsks
<1>6. CASE TapPass \/ TapCustom \/ TapRefund
  BY <1>3, <1>5, <1>6 DEF TapPass, TapCustom, TapRefund
<1>7. ASSUME UNCHANGED <<dialogue, join>>, finance' \in {0, finance}, shown' \subseteq Topics
      PROVE  ChatIInv'
  BY <1>1, <1>7, TapAnswers
<1>8. CASE TapBalance
  <2>1. CASE AskEvent("VIEW_BALANCE")
    BY <1>3, <1>5, <2>1 DEF AskEvent
  <2>2. CASE Settled("VIEW_BALANCE") /\ UNCHANGED <<shown, dialogue, join>>
    BY <1>7, <2>2, SetupIs DEF Settled
  <2> QED BY <1>8, <2>1, <2>2 DEF TapBalance
<1>9. CASE TapPayment
  <2>1. CASE AskEvent("MAKE_PAYMENT")
    BY <1>3, <1>5, <2>1 DEF AskEvent
  <2>2. CASE /\ Settled("MAKE_PAYMENT") /\ UNCHANGED <<dialogue, join>>
             /\ shown' = shown \cup ({"PAY_CUSTOM"} \cap setup.topics)
    BY <1>7, <2>2, SetupIs DEF Settled
  <2>3. CASE UNCHANGED <<shown, finance, dialogue, join>>
    BY <1>7, <2>3, SetupIs
  <2> QED BY <1>9, <2>1, <2>2, <2>3 DEF TapPayment
<1> QED BY <1>4, <1>6, <1>8, <1>9 DEF Tap

(* A restart empties the dictionaries and drops the threads.                *)
LEMMA RestartKeeps ==
  ASSUME ChatIInv, Restart
  PROVE  ChatIInv'
<1>1. /\ join' = 0 /\ finance' = 0 /\ creation' = 0 /\ pending' = 0 /\ export' = FALSE
      /\ thread' = [t \in Threads |-> Idle]
      /\ UNCHANGED <<setup, event, events, shown, dialogue, alone>>
  BY DEF Restart
<1>2. DialoguesTyped' /\ Asked' = Asked
  BY <1>1, TypesHold DEF DialoguesTyped, Asked
<1>3. StoresTyped'
  BY <1>1, <1>2, TypesHold DEF StoresTyped, AskedIn
<1>4. ThreadsTyped'
  <2>1. \A t \in Threads : thread'[t] = Idle
    BY <1>1
  <2>2. ASSUME NEW t \in Threads PROVE Knows(thread[t])'
    BY <2>1, IdleIs DEF Knows
  <2> QED BY <1>1, <2>2, IdleIs DEF ThreadsTyped
<1>5. OneBusy'
  BY <1>1 DEF OneBusy
<1>6. DialoguesSound'
  BY <1>1, <1>2 DEF ChatIInv, AloneIInv, DialoguesSound
<1>7. OneFollows'
  <2> SUFFICES ASSUME NEW t \in Threads PROVE Follows(thread[t])'
    BY DEF OneFollows
  <2>1. thread'[t] = Idle
    BY <1>1
  <2>2. \A q \in 1..Asked' : ~Open(q)'
    BY <1>1 DEF Open
  <2> QED BY <2>1, <2>2, IdleIs DEF Follows
<1> QED BY <1>2, <1>3, <1>4, <1>5, <1>6, <1>7 DEF ChatIInv, ChatTypes, AloneIInv

(* A text that arrives while another one is under way ends the claim of     *)
(* messages one at a time.                                                  *)
LEMMA HearKeeps ==
  ASSUME ChatIInv, NEW t \in Threads, NEW m \in Messages, Hear(t, m)
  PROVE  ChatIInv'
<1>1. /\ thread[t] = Idle /\ Interrupts
      /\ UNCHANGED <<setup, event, events, shown, dialogue, stores>>
  BY DEF Hear
<1>2. PICK rec \in ThreadState : rec = [Idle EXCEPT !.at = "session", !.msg = m]
  BY IdleIs DEF ThreadState
<1>3. rec.at = "session"
  BY <1>2, IdleIs DEF ThreadState
<1>4. /\ thread \in [Threads -> ThreadState] /\ thread' = [thread EXCEPT ![t] = rec]
      /\ thread'[t] = rec /\ \A u \in Threads : u # t => thread'[u] = thread[u]
  BY <1>2 DEF Hear, Go, ChatIInv, ChatTypes, ThreadsTyped
<1>5. rec # Idle
  BY <1>3, IdleIs
<1>6. DialoguesTyped' /\ Grows /\ Asked' = Asked
  <2>1. DialoguesTyped' /\ Asked' = Asked
    BY <1>1, TypesHold DEF DialoguesTyped, Asked
  <2> QED BY <1>1, <2>1, TypesHold, SameGrows
<1>7. alone' \in BOOLEAN /\ (alone' => alone /\ \A u \in Threads : thread[u] = Idle)
  BY <1>1 DEF Interrupts
<1>8. StoresTyped'
  BY <1>1, <1>6, <1>7, TypesHold DEF StoresTyped, AskedIn, stores
<1>9. ThreadsTyped'
  <2>1. thread' \in [Threads -> ThreadState]
    BY <1>4
  <2>2. ASSUME NEW u \in Threads PROVE Knows(thread[u])'
    <3>1. PICK w \in ThreadState : w = thread'[u]
      BY <2>1
    <3>2. Knows(w)'
      <4>1. CASE u = t
        BY <1>3, <1>4, <3>1, <4>1 DEF Knows
      <4>2. CASE u # t
        BY <1>4, <1>6, <3>1, <4>2, TypesHold, KnowsStays
      <4> QED BY <4>1, <4>2
    <3> QED BY <3>1, <3>2 DEF Knows, About
  <2> QED BY <2>1, <2>2 DEF ThreadsTyped
<1>10. OneBusy'
  BY <1>4, <1>7 DEF OneBusy, QuietBut
<1>11. DialoguesSound'
  BY <1>1, <1>6, <1>7 DEF ChatIInv, AloneIInv, DialoguesSound
<1>12. OneFollows'
  <2> SUFFICES ASSUME alone', NEW u \in Threads, QuietBut(u)' PROVE Follows(thread[u])'
    BY DEF OneFollows
  <2>1. u = t
    BY <1>4, <1>5 DEF QuietBut
  <2>2. \A q \in 1..Asked : Open(q) => Fresh(q)
    BY <1>7, AllQuiet
  <2>3. (\A q \in 1..Asked : Open(q) => Fresh(q))'
    BY <1>1, <1>6, <2>2 DEF Open, Fresh, stores
  <2>4. thread'[u] = rec
    BY <1>4, <2>1
  <2> QED BY <1>3, <2>3, <2>4 DEF Follows
<1> QED BY <1>6, <1>8, <1>9, <1>10, <1>11, <1>12 DEF ChatIInv, ChatTypes, AloneIInv

(* Nothing was asked yet.                                                   *)
LEMMA ChatStarts == Init => ChatIInv
<1> SUFFICES ASSUME Init PROVE ChatIInv
  OBVIOUS
<1>1. dialogue \in Seq(Record) /\ Asked = 0
  BY DEF Init, Asked
<1>2. DialoguesTyped
  BY <1>1, DialogueAssumption DEF DialoguesTyped
<1>3. setup \in Setups /\ setup.event \in EventStates \cup {"none"} /\ MaxEvents \in Nat \ {0}
  BY DialogueAssumption DEF Init
<1>4. StoresTyped
  <2>1. AskedIn(join, {"JOIN"}) /\ AskedIn(finance, FinanceTopics)
    BY DEF Init, AskedIn
  <2>2. AskedIn(creation, {"ADD_EVENT"}) /\ AskedIn(pending, PendingTopics)
    BY DEF Init, AskedIn
  <2>3. event \in EventStates \cup {"none"} /\ events \in 0..MaxEvents
    BY <1>3 DEF Init
  <2>4. shown \subseteq Topics /\ export \in BOOLEAN /\ alone \in BOOLEAN
    BY DEF Init
  <2> QED BY <1>3, <2>1, <2>2, <2>3, <2>4 DEF StoresTyped
<1>5. \A t \in Threads : thread[t] = Idle
  BY DEF Init
<1>6. ThreadsTyped
  <2>1. thread \in [Threads -> ThreadState]
    BY IdleIs DEF Init
  <2> QED BY <1>5, <2>1, IdleIs DEF ThreadsTyped
<1>7. OneBusy /\ DialoguesSound
  BY <1>1, <1>5 DEF OneBusy, QuietBut, DialoguesSound
<1>8. OneFollows
  <2>1. Follows(Idle)
    BY <1>1, IdleIs DEF Follows
  <2> QED BY <1>5, <2>1 DEF OneFollows
<1> QED BY <1>2, <1>4, <1>6, <1>7, <1>8 DEF ChatIInv, ChatTypes, AloneIInv

(* Every step keeps the invariant.                                          *)
LEMMA ChatSteps == ChatIInv /\ [Next]_vars => ChatIInv'
<1> SUFFICES ASSUME ChatIInv, [Next]_vars PROVE ChatIInv'
  OBVIOUS
<1>1. CASE UNCHANGED vars
  BY <1>1, SetupIs, StoresKept, NothingAsked DEF vars, stores
<1>2. CASE Next
  BY <1>2, BrowseKeeps, TapKeeps, EventMovesKeeps, RestartKeeps, WorkKeeps, HearKeeps DEF Next
<1> QED BY <1>1, <1>2

-------------------------------------------------------------------------------
(***************************************************************************)
(* The theorems.                                                           *)
(***************************************************************************)
(* Every dictionary holds a dialogue of its own kind at a step of its      *)
(* topic, every thread works on a dialogue that fits what it does, and as  *)
(* long as no messages overlap an open dialogue has not been carried out,  *)
(* but for the one its thread is about to drop.                            *)
THEOREM ChatInvariance == Spec => []ChatIInv
BY ChatStarts, ChatSteps, PTL DEF Spec

(* A dictionary never holds a dialogue of another kind, and a pending      *)
(* action has the answers of the steps before the one it asks.             *)
THEOREM ChatTyped == Spec => []TypeOK
<1>1. ChatIInv => TypeOK
  <2> SUFFICES ASSUME ChatIInv PROVE TypeOK
    OBVIOUS
  <2>1. DialoguesTyped /\ StoresTyped
    BY TypesHold
  <2>2. ASSUME NEW q \in 1..Asked
        PROVE  /\ dialogue[q].topic \in Topics
               /\ dialogue[q].step \in StepSet(dialogue[q].topic)
               /\ dialogue[q].answered \subseteq StepSet(dialogue[q].topic)
               /\ dialogue[q].carried \in 0..2 /\ dialogue[q].complete \in BOOLEAN
               /\ dialogue[q].topic \in PendingTopics =>
                    Before(dialogue[q].topic, dialogue[q].step) \subseteq dialogue[q].answered
    <3>1. dialogue[q] \in Record /\ WellStepped(dialogue[q])
      BY <2>1, RecordsAre
    <3>2. dialogue[q].topic \in Topics /\ dialogue[q].carried \in 0..2 /\ dialogue[q].complete \in BOOLEAN
      BY <3>1 DEF Record
    <3> QED BY <3>1, <3>2 DEF WellStepped
  <2>3. Asked <= MaxAsked
    BY <2>1 DEF DialoguesTyped
  <2>4. thread \in [Threads -> ThreadState]
    BY DEF ChatIInv, ChatTypes, ThreadsTyped
  <2> QED BY <2>1, <2>2, <2>3, <2>4 DEF TypeOK, StoresTyped
<1> QED BY <1>1, ChatInvariance, PTL

(* Nobody joins, pays or refunds a sponsor twice for one question, as long *)
(* as no two messages overlap.                                             *)
THEOREM CarriedOnce == Spec => []CarriedOnceWhenAlone
<1>1. ChatIInv => CarriedOnceWhenAlone
  BY DEF ChatIInv, AloneIInv, DialoguesSound, CarriedOnceWhenAlone
<1> QED BY <1>1, ChatInvariance, PTL

(* ... and what is carried out has an answer to every question before it.  *)
THEOREM CompleteAnswers == Spec => []CompleteWhenAlone
<1>1. ChatIInv => CompleteWhenAlone
  BY DEF ChatIInv, AloneIInv, DialoguesSound, CompleteWhenAlone
<1> QED BY <1>1, ChatInvariance, PTL
===============================================================================
