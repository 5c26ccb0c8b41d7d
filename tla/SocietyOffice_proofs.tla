-------------------------- MODULE SocietyOffice_proofs --------------------------
(***************************************************************************)
(* Theorems about who belongs, and about the office as a whole.            *)
(*                                                                         *)
(* The roster, for any number of members, roles on offer and messages: the *)
(* types of rows and dialogues, that a removal removes whom the sender was *)
(* asked about, and that members who do not confirm at the same time never *)
(* leave the committee without a chairman.                                 *)
(*                                                                         *)
(* Joining, for any number of newcomers, flats, workers and crashes,       *)
(* whatever the committee does meanwhile: the types of requests and homes, *)
(* that nobody's standing falls, and that workers who do not overlap give  *)
(* each newcomer one home and one open request.                            *)
(*                                                                         *)
(* The desks of the office keep their promises together: what is proved of *)
(* the roster, of joining and of the books alone holds of every behaviour  *)
(* of the office, and so does what is proved here of the report desk.      *)
(***************************************************************************)
EXTENDS SocietyOffice, SponsorLedger_proofs, FunctionTheorems

-------------------------------------------------------------------------------
(* The roster.                                                             *)

(* A change in hand names a member and, unless it removes, a role.         *)
HandNamed ==
  \A p \in People : hand[p] # Idle =>
    /\ hand[p].member \in People
    /\ hand[p].action # "REMOVE" => hand[p].role \in Roles

(* A removal that has got its member was asked about as it stands.         *)
RemovalAsked ==
  \A p \in People :
    dialogue[p].action = "REMOVE" /\ dialogue[p].member # Nobody => asked[p] = dialogue[p]

(* Until two sessions had a change in hand, the only one in hand has been  *)
(* checked against the rows as they are.                                   *)
OneChecked ==
  ~together =>
    /\ \A p, q \in People : hand[p] # Idle /\ hand[q] # Idle => p = q
    /\ \A p \in People : hand[p] # Idle => Accepts(hand[p])

RosterIInv ==
  /\ RosterTypeOK
  /\ HandNamed
  /\ RemovalAsked
  /\ RemovalAsAsked
  /\ OneChecked
  /\ ChairmanRemains

-------------------------------------------------------------------------------
(* Facts about the records and the rows. *)

(* No dialogue, a dialogue and the markers are told apart.                  *)
LEMMA Records ==
  /\ NoDialogue = Idle /\ NoDialogue \notin Dialogues
  /\ \A d \in Dialogues : d.action \in Actions /\ d # Idle
                          /\ d.member \in People \cup {Nobody} /\ d.role \in Roles \cup {NoRole}
  /\ NoDialogue.action = "NONE" /\ NoDialogue.member = Nobody /\ NoDialogue.role = NoRole
  /\ NoRole \notin Roles /\ "NONE" \notin Actions
BY DEF NoDialogue, Idle, Dialogues, Actions, Roles, NoRole

(* Only what stands in the rows makes a chairman.                          *)
LEMMA ChairmanRow ==
  ASSUME NEW m
  PROVE  m \in Chairmen <=> m \in People /\ roster[m].active /\ roster[m].role = "chairman"
BY DEF Chairmen, InCommittee

(* An accepted change names a member of the society and the role it needs. *)
LEMMA AcceptedNamed ==
  ASSUME RosterTypeOK, NEW d \in Dialogues, Accepts(d)
  PROVE  /\ d.member \in People
         /\ d.action # "REMOVE" => d.role \in Roles
<1>1. d.action \in Actions /\ d.member \in People \cup {Nobody} /\ d.role \in Roles \cup {NoRole}
  BY Records
<1>2. InCommittee \subseteq People
  BY DEF InCommittee
<1> QED BY <1>1, <1>2 DEF Accepts, Actions

(* A step that leaves rows and changes in hand alone, and keeps with a new *)
(* removal the question it was asked with.                                 *)
LEMMA MenuKept ==
  ASSUME RosterIInv, NEW p \in People, NEW d \in Dialogues \cup {NoDialogue},
         Tap(p), Keep(p, d),
         asked' = asked \/ asked' = [asked EXCEPT ![p] = d],
         d.action = "REMOVE" /\ d.member # Nobody => asked'[p] = d
  PROVE  RosterIInv'
<1>1. /\ roster' = roster /\ hand' = hand /\ misled' = misled /\ together' = together
      /\ dialogue' = [dialogue EXCEPT ![p] = d] /\ hand[p] = Idle
      /\ taps' = taps + 1 /\ taps < MaxTaps
  BY DEF Keep, Tap
<1>2. RosterTypeOK'
  BY <1>1, RosterAssumption DEF RosterIInv, RosterTypeOK, InCommittee
<1>3. \A q \in People : q # p => asked'[q] = asked[q] /\ dialogue'[q] = dialogue[q]
  BY <1>1 DEF RosterIInv, RosterTypeOK
<1>4. dialogue'[p] = d
  BY <1>1 DEF RosterIInv, RosterTypeOK
<1>5. HandNamed' /\ OneChecked' /\ ChairmanRemains'
  BY <1>1 DEF RosterIInv, HandNamed, OneChecked, ChairmanRemains, Accepts, LastChairman,
     Chairmen, InCommittee
<1>6. RemovalAsked'
  BY <1>3, <1>4 DEF RosterIInv, RemovalAsked
<1>7. RemovalAsAsked'
  BY <1>1, <1>3, Records DEF RosterIInv, RemovalAsAsked
<1> QED BY <1>2, <1>5, <1>6, <1>7 DEF RosterIInv

(* Opening the menu starts a dialogue that has asked for nothing.           *)
LEMMA BeginKeeps ==
  ASSUME RosterIInv, NEW p \in People, NEW a \in Actions, Begin(p, a)
  PROVE  RosterIInv'
<1> DEFINE d == [NoDialogue EXCEPT !.action = a]
<1>1. d \in Dialogues /\ d.member = Nobody
  BY DEF NoDialogue, Dialogues, Roles, NoRole
<1> QED BY <1>1, MenuKept DEF Begin

(* A tapped member becomes the one asked about, however old the list.       *)
LEMMA SelectMemberKeeps ==
  ASSUME RosterIInv, NEW p \in People, NEW m \in People, SelectMember(p, m)
  PROVE  RosterIInv'
<1> DEFINE d == [dialogue[p] EXCEPT !.member = m]
<1>1. dialogue[p] \in Dialogues
  BY Records DEF SelectMember, RosterIInv, RosterTypeOK
<1>2. d \in Dialogues
  BY <1>1 DEF Dialogues
<1>3. /\ Tap(p) /\ Keep(p, d)
      /\ asked' = IF d.action = "REMOVE" THEN [asked EXCEPT ![p] = d] ELSE asked
  BY DEF SelectMember
<1>4. d.action = "REMOVE" => asked'[p] = d
  BY <1>3 DEF RosterIInv, RosterTypeOK
<1> HIDE DEF d
<1> QED BY <1>2, <1>3, <1>4, MenuKept

(* A tapped role joins the dialogue that is open, and the question is asked *)
(* anew.                                                                    *)
LEMMA SelectRoleKeeps ==
  ASSUME RosterIInv, NEW p \in People, NEW r \in MenuRoles, SelectRole(p, r)
  PROVE  RosterIInv'
<1> DEFINE d == [dialogue[p] EXCEPT !.role = r]
<1>1. dialogue[p] \in Dialogues
  BY Records DEF SelectRole, RosterIInv, RosterTypeOK
<1>2. d \in Dialogues /\ d.action # "REMOVE"
  BY <1>1, RosterAssumption DEF Dialogues, SelectRole
<1>3. Tap(p) /\ Keep(p, d) /\ asked' = [asked EXCEPT ![p] = d]
  BY DEF SelectRole
<1> HIDE DEF d
<1> QED BY <1>2, <1>3, MenuKept

(* A dialogue that ends holds no change and asks nothing.                   *)
LEMMA ClearKeeps ==
  ASSUME RosterIInv, NEW p \in People, Tap(p), Keep(p, NoDialogue), UNCHANGED asked
  PROVE  RosterIInv'
BY MenuKept, Records

(* "yes": an accepted change passes from the menu into the session's hand. *)
LEMMA ConfirmKeeps ==
  ASSUME RosterIInv, NEW p \in People, ConfirmYes(p)
  PROVE  RosterIInv'
<1> DEFINE d == dialogue[p]
<1>1. /\ hand[p] = Idle /\ taps < MaxTaps /\ taps' = taps + 1 /\ p \in InCommittee
      /\ roster' = roster /\ asked' = asked /\ misled' = misled
  BY DEF ConfirmYes, Tap
<1>2. d \in Dialogues
  BY Records DEF ConfirmYes, RosterIInv, RosterTypeOK
<1>3. CASE Accepts(d)
  <2>1. /\ hand' = [hand EXCEPT ![p] = d] /\ dialogue' = dialogue
        /\ together' = (together \/ \E q \in People : hand[q] # Idle)
    BY <1>3 DEF ConfirmYes
  <2>2. d.member \in People /\ (d.action # "REMOVE" => d.role \in Roles)
    BY <1>2, <1>3, AcceptedNamed DEF RosterIInv
  <2>3. hand'[p] = d /\ \A q \in People : q # p => hand'[q] = hand[q]
    BY <2>1 DEF RosterIInv, RosterTypeOK
  <2>4. RosterTypeOK'
    BY <1>1, <1>2, <2>1, <2>2, <2>3, RosterAssumption DEF RosterIInv, RosterTypeOK, InCommittee
  <2>5. HandNamed'
    BY <2>2, <2>3 DEF RosterIInv, HandNamed
  <2>6. RemovalAsked'
    BY <1>1, <2>1 DEF RosterIInv, RemovalAsked
  <2>7. RemovalAsAsked'
    <3>1. d.action = "REMOVE" => asked[p] = d
      BY <2>2, RosterAssumption DEF RosterIInv, RemovalAsked
    <3> QED BY <1>1, <2>3, <3>1 DEF RosterIInv, RemovalAsAsked
  <2>8. ~together' => ~together /\ \A q \in People : hand[q] = Idle
    BY <2>1 DEF RosterIInv, RosterTypeOK
  <2>9. OneChecked'
    <3>1. \A e : Accepts(e)' <=> Accepts(e)
      BY <1>1 DEF Accepts, LastChairman, Chairmen, InCommittee
    <3> QED BY <1>3, <2>3, <2>8, <3>1 DEF OneChecked
  <2>10. ChairmanRemains'
    BY <1>1, <2>8 DEF RosterIInv, ChairmanRemains, Chairmen, InCommittee
  <2> QED BY <2>4, <2>5, <2>6, <2>7, <2>9, <2>10 DEF RosterIInv
<1>4. CASE ~Accepts(d)
  <2>1. Tap(p) /\ Keep(p, NoDialogue) /\ UNCHANGED asked
    BY <1>4 DEF ConfirmYes, Keep
  <2> QED BY <2>1, ClearKeeps
<1> QED BY <1>3, <1>4

(* What a commit makes of the rows keeps their types.                      *)
LEMMA AppliedRows ==
  ASSUME RosterIInv, NEW p \in People, hand[p] # Idle
  PROVE  /\ hand[p] \in Dialogues /\ hand[p].member \in People
         /\ Applied(hand[p]) \in [People -> [role : Roles \cup {NoRole}, active : BOOLEAN]]
         /\ \A q \in People : Applied(hand[p])[q].active => Applied(hand[p])[q].role # NoRole
         /\ \A q \in People : q # hand[p].member => Applied(hand[p])[q] = roster[q]
         /\ hand[p].action = "ADD" =>
              Applied(hand[p])[hand[p].member] = [role |-> hand[p].role, active |-> TRUE]
         /\ hand[p].action = "CHANGE_ROLE" =>
              /\ Applied(hand[p])[hand[p].member].active = roster[hand[p].member].active
              /\ Applied(hand[p])[hand[p].member].role = hand[p].role
<1> DEFINE d == hand[p]
<1>1. d \in Dialogues /\ d.action \in Actions
  BY Records DEF RosterIInv, RosterTypeOK
<1>2. d.member \in People /\ (d.action # "REMOVE" => d.role \in Roles)
  BY DEF RosterIInv, HandNamed
<1>3. roster \in [People -> [role : Roles \cup {NoRole}, active : BOOLEAN]]
  BY DEF RosterIInv, RosterTypeOK
<1>4. \A q \in People : roster[q].active => roster[q].role # NoRole
  BY DEF RosterIInv, RosterTypeOK, InCommittee
<1>5. CASE d.action = "ADD"
  <2>1. Applied(d) = [roster EXCEPT ![d.member] = [role |-> d.role, active |-> TRUE]]
    BY <1>5 DEF Applied
  <2> QED BY <1>1, <1>2, <1>3, <1>4, <1>5, <2>1, Records
<1>6. CASE d.action = "REMOVE"
  <2> DEFINE gone == [roster[d.member] EXCEPT !.active = FALSE]
  <2>1. Applied(d) = [roster EXCEPT ![d.member] = gone]
    BY <1>6 DEF Applied
  <2>2. gone \in [role : Roles \cup {NoRole}, active : BOOLEAN] /\ gone.active = FALSE
    BY <1>2, <1>3
  <2> HIDE DEF gone
  <2>3. Applied(d)[d.member] = gone /\ \A q \in People : q # d.member => Applied(d)[q] = roster[q]
    BY <1>2, <1>3, <2>1
  <2>4. Applied(d) \in [People -> [role : Roles \cup {NoRole}, active : BOOLEAN]]
    BY <1>2, <1>3, <2>1, <2>2
  <2>5. \A q \in People : Applied(d)[q].active => Applied(d)[q].role # NoRole
    BY <1>4, <2>2, <2>3
  <2> QED BY <1>1, <1>2, <1>6, <2>3, <2>4, <2>5
<1>7. CASE d.action = "CHANGE_ROLE"
  <2>1. Applied(d) = [roster EXCEPT ![d.member] = [roster[d.member] EXCEPT !.role = d.role]]
    BY <1>7 DEF Applied
  <2> QED BY <1>1, <1>2, <1>3, <1>4, <1>7, <2>1, Records
<1> QED BY <1>1, <1>5, <1>6, <1>7 DEF Actions

(* The heart of the matter: a checked change leaves a chairman.            *)
LEMMA CheckedLeavesChairman ==
  ASSUME RosterIInv, NEW p \in People, hand[p] # Idle, Accepts(hand[p]), Chairmen # {},
         hand[p].action = "ADD" => roster[hand[p].member] = NoRow,
         roster' = Applied(hand[p])
  PROVE  Chairmen' # {}
<1> DEFINE d == hand[p]
<1>1. \A m : m \in Chairmen' <=> m \in People /\ roster'[m].active /\ roster'[m].role = "chairman"
  BY DEF Chairmen, InCommittee
<1>2. d.action \in Actions
  BY AppliedRows, Records
<1>3. PICK c \in Chairmen : TRUE
  OBVIOUS
<1>4. \A m \in Chairmen : m # d.member => m \in Chairmen'
  <2>1. \A q \in People : q # d.member => roster'[q] = roster[q]
    BY AppliedRows
  <2>2. \A m \in Chairmen : m \in People /\ roster[m].active /\ roster[m].role = "chairman"
    BY ChairmanRow
  <2> HIDE DEF d
  <2> QED BY <1>1, <2>1, <2>2
<1>5. CASE d.action = "ADD"
  <2>1. c # d.member
    BY <1>3, <1>5, ChairmanRow DEF NoRow
  <2> QED BY <1>3, <1>4, <2>1
<1>6. CASE d.action # "ADD" /\ ~LastChairman(d.member)
  <2>1. PICK b \in Chairmen : b # d.member
    BY <1>3, <1>6 DEF LastChairman
  <2> QED BY <1>4, <2>1
<1>7. CASE d.action = "CHANGE_ROLE" /\ d.role = "chairman"
  <2>1. d.member \in Chairmen'
    BY <1>1, <1>7, AppliedRows DEF Accepts, InCommittee
  <2> QED BY <2>1
<1>8. \/ d.action = "ADD"
      \/ ~LastChairman(d.member)
      \/ d.action = "CHANGE_ROLE" /\ d.role = "chairman"
  <2>1. CASE d.action = "REMOVE"
    BY <2>1 DEF Accepts
  <2>2. CASE d.action = "CHANGE_ROLE"
    BY <2>2 DEF Accepts
  <2> QED BY <1>2, <2>1, <2>2 DEF Actions
<1> QED BY <1>5, <1>6, <1>7, <1>8

(* A change checked alone against the rows as they are leaves a chairman.   *)
LEMMA CommitKeeps ==
  ASSUME RosterIInv, NEW p \in People, Commit(p)
  PROVE  RosterIInv'
<1> DEFINE d == hand[p]
<1>1. /\ d # Idle /\ (d.action = "ADD" => roster[d.member] = NoRow)
      /\ roster' = Applied(d) /\ misled' = (misled \/ ~Made(d, roster'))
      /\ hand' = [hand EXCEPT ![p] = Idle] /\ dialogue' = [dialogue EXCEPT ![p] = NoDialogue]
      /\ asked' = asked /\ together' = together /\ taps' = taps
  BY DEF Commit
<1>2. /\ hand'[p] = Idle /\ dialogue'[p] = NoDialogue
      /\ \A q \in People : q # p => hand'[q] = hand[q] /\ dialogue'[q] = dialogue[q]
  BY <1>1 DEF RosterIInv, RosterTypeOK
<1>3. RosterTypeOK'
  <2>1. misled' \in BOOLEAN
    BY <1>1 DEF RosterIInv, RosterTypeOK
  <2>2. /\ roster' \in [People -> [role : Roles \cup {NoRole}, active : BOOLEAN]]
        /\ \A q \in InCommittee' : roster'[q].role # NoRole
    BY <1>1, AppliedRows DEF InCommittee
  <2> QED BY <1>1, <1>2, <2>1, <2>2 DEF RosterIInv, RosterTypeOK
<1>4. HandNamed' /\ RemovalAsked'
  BY <1>1, <1>2, Records DEF RosterIInv, HandNamed, RemovalAsked
<1>5. RemovalAsAsked'
  BY <1>1, <1>2, Records DEF RosterIInv, RemovalAsAsked
<1>6. OneChecked'
  <2>1. ~together => \A q \in People : hand'[q] = Idle
    BY <1>1, <1>2 DEF RosterIInv, OneChecked
  <2> QED BY <1>1, <2>1 DEF OneChecked
<1>7. ChairmanRemains'
  <2> SUFFICES ASSUME ~together PROVE Chairmen' # {}
    BY <1>1 DEF ChairmanRemains
  <2>1. Accepts(d) /\ Chairmen # {}
    BY <1>1 DEF RosterIInv, OneChecked, ChairmanRemains
  <2> QED BY <1>1, <2>1, CheckedLeavesChairman
<1> QED BY <1>3, <1>4, <1>5, <1>6, <1>7 DEF RosterIInv

(* Changes in hand are dropped, dialogues may be: nothing is left to keep. *)
LEMMA DropKeeps ==
  ASSUME RosterIInv,
         roster' = roster, asked' = asked, together' = together, taps' = taps, misled' = misled,
         hand' \in [People -> Dialogues \cup {Idle}],
         dialogue' \in [People -> Dialogues \cup {NoDialogue}],
         \A q \in People : hand'[q] \in {Idle, hand[q]},
         \A q \in People : dialogue'[q] \in {NoDialogue, dialogue[q]}
  PROVE  RosterIInv'
<1>1. RosterTypeOK'
  BY DEF RosterIInv, RosterTypeOK, InCommittee
<1>2. HandNamed' /\ RemovalAsked' /\ RemovalAsAsked'
  BY Records DEF RosterIInv, HandNamed, RemovalAsked, RemovalAsAsked
<1>3. OneChecked' /\ ChairmanRemains'
  BY DEF RosterIInv, OneChecked, ChairmanRemains, Accepts, LastChairman, Chairmen, InCommittee
<1> QED BY <1>1, <1>2, <1>3 DEF RosterIInv

(* A typed command is rolled back: it holds no change and writes no row.    *)
LEMMA TextKeeps ==
  ASSUME RosterIInv, NEW p \in People, NEW d \in Commands, TextCommand(p, d)
  PROVE  RosterIInv'
<1>1. /\ taps' = taps + 1 /\ taps < MaxTaps /\ misled' \in BOOLEAN
      /\ UNCHANGED <<roster, dialogue, asked, hand, together>>
  BY DEF TextCommand, Tap, RosterIInv, RosterTypeOK
<1>2. RosterTypeOK'
  BY <1>1, RosterAssumption DEF RosterIInv, RosterTypeOK, InCommittee
<1>3. HandNamed' /\ RemovalAsked' /\ RemovalAsAsked' /\ OneChecked' /\ ChairmanRemains'
  BY <1>1 DEF RosterIInv, HandNamed, RemovalAsked, RemovalAsAsked, OneChecked, ChairmanRemains,
     Accepts, LastChairman, Chairmen, InCommittee
<1> QED BY <1>2, <1>3 DEF RosterIInv

-------------------------------------------------------------------------------
(* A committee that starts with a chairman, and nobody in a dialogue.       *)
LEMMA RosterStart == RosterInit => RosterIInv
<1> SUFFICES ASSUME RosterInit PROVE RosterIInv
  OBVIOUS
<1>1. PICK roll \in FirstRolls :
        roster = [p \in People |-> [role |-> roll[p], active |-> roll[p] # NoRole]]
  BY DEF RosterInit
<1>2. roll \in [People -> Roles \cup {NoRole}] /\ \E p \in People : roll[p] = "chairman"
  BY RosterAssumption
<1>3. RosterTypeOK
  <2>1. roster \in [People -> [role : Roles \cup {NoRole}, active : BOOLEAN]]
    BY <1>1, <1>2
  <2>2. \A p \in InCommittee : roster[p].role # NoRole
    BY <1>1 DEF InCommittee
  <2>3. \A p \in People : hand[p] = Idle
    BY DEF RosterInit
  <2>4. 0 \in 0..MaxTaps
    BY RosterAssumption
  <2> QED BY <2>1, <2>2, <2>3, <2>4, Records DEF RosterInit, RosterTypeOK
<1>4. Chairmen # {}
  BY <1>1, <1>2 DEF Chairmen, InCommittee, NoRole
<1>5. HandNamed /\ RemovalAsked /\ RemovalAsAsked /\ OneChecked
  BY Records DEF RosterInit, HandNamed, RemovalAsked, RemovalAsAsked, OneChecked
<1> QED BY <1>3, <1>4, <1>5 DEF RosterIInv, ChairmanRemains

(* Every step of the roster keeps its invariant.                            *)
LEMMA RosterStep == RosterIInv /\ [RosterNext]_rosterVars => RosterIInv'
<1> SUFFICES ASSUME RosterIInv, [RosterNext]_rosterVars PROVE RosterIInv'
  OBVIOUS
<1>1. ASSUME NEW p \in People, Menu(p) PROVE RosterIInv'
  <2>1. CASE View(p) \/ ConfirmNo(p) \/ ConfirmSame(p)
    BY <2>1, ClearKeeps DEF View, ConfirmNo, ConfirmSame
  <2>2. CASE \E a \in Actions : Begin(p, a)
    BY <2>2, BeginKeeps
  <2>3. CASE \E m \in People : SelectMember(p, m)
    BY <2>3, SelectMemberKeeps
  <2>4. CASE \E r \in MenuRoles : SelectRole(p, r)
    BY <2>4, SelectRoleKeeps
  <2>5. CASE ConfirmYes(p)
    BY <2>5, ConfirmKeeps
  <2>6. CASE Commit(p)
    BY <2>6, CommitKeeps
  <2>7. CASE CommitFails(p)
    <3>1. /\ hand' = [hand EXCEPT ![p] = Idle]
          /\ UNCHANGED <<roster, dialogue, asked, misled, together, taps>>
      BY <2>7 DEF CommitFails
    <3>2. /\ hand' \in [People -> Dialogues \cup {Idle}]
          /\ \A q \in People : hand'[q] \in {Idle, hand[q]}
      BY <3>1 DEF RosterIInv, RosterTypeOK
    <3>3. dialogue' \in [People -> Dialogues \cup {NoDialogue}]
      BY <3>1 DEF RosterIInv, RosterTypeOK
    <3> QED BY <3>1, <3>2, <3>3, DropKeeps
  <2> QED BY <1>1, <2>1, <2>2, <2>3, <2>4, <2>5, <2>6, <2>7 DEF Menu
<1>2. ASSUME NEW p \in People, NEW d \in Commands, TextCommand(p, d) PROVE RosterIInv'
  BY <1>2, TextKeeps
<1>3. CASE Restart
  BY <1>3, DropKeeps DEF Restart
<1>4. CASE UNCHANGED rosterVars
  <2>1. /\ hand' \in [People -> Dialogues \cup {Idle}]
        /\ dialogue' \in [People -> Dialogues \cup {NoDialogue}]
        /\ UNCHANGED <<roster, dialogue, asked, hand, misled, together, taps>>
    BY <1>4 DEF rosterVars, RosterIInv, RosterTypeOK
  <2> QED BY <2>1, DropKeeps
<1> QED BY <1>1, <1>2, <1>3, <1>4 DEF RosterNext

(* The inductive invariant holds in every behaviour of the roster.         *)
THEOREM RosterInvariance == RosterSpec => []RosterIInv
BY RosterStart, RosterStep, PTL DEF RosterSpec

(* The rows of committee_members, the dialogues and the checked changes    *)
(* keep their types.                                                       *)
THEOREM RosterTyped == RosterSpec => []RosterTypeOK
<1>1. RosterIInv => RosterTypeOK
  BY DEF RosterIInv
<1> QED BY <1>1, RosterInvariance, PTL

(* Counting the chairmen before a removal or a demotion is enough as long  *)
(* as no two sessions hold a checked change (ui_router): however many      *)
(* members, old lists and restarts, a chairman remains.                    *)
THEOREM ChairmanStays == RosterSpec => []ChairmanRemains
<1>1. RosterIInv => ChairmanRemains
  BY DEF RosterIInv
<1> QED BY <1>1, RosterInvariance, PTL

(* A "yes" removes whom the last question to its sender named, though the  *)
(* menu keeps one dialogue for lists and questions of any age.             *)
THEOREM RemovalWasAsked == RosterSpec => []RemovalAsAsked
<1>1. RosterIInv => RemovalAsAsked
  BY DEF RosterIInv
<1> QED BY <1>1, RosterInvariance, PTL

-------------------------------------------------------------------------------
(* Joining: the part of the office that it is, whoever is on the committee. *)
JoinSpec == JoinInit /\ [][JoinNext]_joinVars

Steps == {"free", "look", "ask", "assign", "mark"}

WorkRecord ==
  [step : Steps, who : Newcomers \cup {Nobody}, flat : Flats \cup {Nobody}, req : Nat,
   fresh : BOOLEAN]

PendingUser == [who : Newcomers, flat : Flats, approved : BOOLEAN, number : Nat]

RowsTyped ==
  /\ byApproval \in BOOLEAN
  /\ known \subseteq Newcomers
  /\ homes \in [Newcomers -> [Flats -> Nat]]
  /\ requests \subseteq PendingUser
  /\ \A q \in requests : q.who \in known
  /\ crowded \in BOOLEAN
  /\ joins \in 0..MaxJoins
  /\ crashes \in 0..MaxCrashes

(* Requests are numbered without repetition.                               *)
Numbered ==
  /\ IsFiniteSet(requests)
  /\ \A q \in requests : q.number \in 1..Cardinality(requests)
  /\ \A q, r \in requests : q.number = r.number => q = r

(* What a worker is about to do fits the rows: the request it will close   *)
(* is its newcomer's, who has a home by then.                              *)
JobFits(me) ==
  \/ me = Free
  \/ /\ me.step \in Steps \ {"free"}
     /\ me.who \in Newcomers /\ me.flat \in Flats
     /\ me.req \in 0..Cardinality(requests)
     /\ \A q \in requests : q.number = me.req => q.who = me.who
     /\ me.step = "mark" => HasHome(me.who, me.flat)

JobsFit == work \in [Workers -> WorkRecord] /\ \A w \in Workers : JobFits(work[w])

(* The rows as workers leave them that never overlapped.                   *)
HomesAgree ==
  /\ ~byApproval => requests = {}
  /\ \A q, r \in requests : ~q.approved /\ ~r.approved /\ q.who = r.who => q = r
  /\ \A i \in Newcomers, f, g \in Flats :
       homes[i][f] > 0 /\ homes[i][g] > 0 => f = g /\ homes[i][f] = 1
  /\ \A q \in requests, f \in Flats : ~q.approved /\ homes[q.who][f] > 0 => f = q.flat

(* What such a worker has read is still so.                                *)
ReadHolds(me) ==
  /\ me.step \in {"look", "ask", "assign"} => ~Mapped(me.who)
  /\ me.step = "ask" => byApproval /\ Open(me.who) = {}
  /\ me.step = "assign" =>
       \A q \in requests : q.who = me.who /\ ~q.approved => q.flat = me.flat

Alone ==
  ~crowded =>
    /\ \A v, w \in Workers : work[v] # Free /\ work[w] # Free => v = w
    /\ \A w \in Workers : work[w] # Free => ReadHolds(work[w])
    /\ HomesAgree

JoinIInv == RowsTyped /\ Numbered /\ JobsFit /\ Alone

-------------------------------------------------------------------------------
(* A worker without a job is told apart from every job.                     *)
LEMMA WorkFacts ==
  /\ Free.step = "free" /\ Free.req = 0 /\ Free \in WorkRecord
  /\ \A me : JobFits(me) /\ me # Free => me.step # "free"
BY DEF Free, WorkRecord, Steps, JobFits

(* Who shares everything with everybody of a set is alone in it.           *)
LEMMA AtMostOne ==
  ASSUME NEW S, \A x, y \in S : x = y
  PROVE  IsFiniteSet(S) /\ Cardinality(S) <= 1
<1>1. CASE S = {}
  BY <1>1, FS_EmptySet
<1>2. CASE S # {}
  <2>1. PICK x \in S : TRUE
    BY <1>2
  <2>2. S = {x}
    BY <2>1
  <2>3. IsFiniteSet({x}) /\ Cardinality({x}) = 1
    BY FS_Singleton
  <2> QED BY <2>2, <2>3
<1> QED BY <1>1, <1>2

(* Only one number is new.                                                 *)
LEMMA NewNumber ==
  ASSUME RowsTyped, Numbered, NEW i \in Newcomers, NEW f \in Flats
  PROVE  LET n == NewRequest(i, f)
             after == requests \cup {n}
         IN  /\ n \in PendingUser /\ n \notin requests
             /\ n.who = i /\ n.flat = f /\ ~n.approved
             /\ n.number = Cardinality(requests) + 1
             /\ IsFiniteSet(after) /\ Cardinality(after) = Cardinality(requests) + 1
             /\ Cardinality(requests) \in Nat
             /\ \A q \in requests : q.number # n.number
<1> DEFINE n == NewRequest(i, f)
<1>1. IsFiniteSet(requests) /\ Cardinality(requests) \in Nat
  BY FS_CardinalityType DEF Numbered
<1>2. n = [who |-> i, flat |-> f, approved |-> FALSE, number |-> Cardinality(requests) + 1]
  BY DEF NewRequest
<1>3. n \in PendingUser
  BY <1>1, <1>2 DEF PendingUser
<1>4. /\ n.who = i /\ n.flat = f /\ n.approved = FALSE
      /\ n.number = Cardinality(requests) + 1
  BY <1>2
<1>5. \A q \in requests : q.number # n.number
  BY <1>1, <1>4 DEF Numbered
<1> HIDE DEF n
<1>6. n \notin requests
  BY <1>5
<1>7. /\ IsFiniteSet(requests \cup {n})
      /\ Cardinality(requests \cup {n}) = Cardinality(requests) + 1
  BY <1>1, <1>6, FS_AddElement
<1> QED BY <1>1, <1>3, <1>4, <1>5, <1>6, <1>7 DEF n

(* Closing a request leaves the others and every number alone.             *)
Closed(q, n) == [q EXCEPT !.approved = @ \/ q.number = n]

(* Closing a request changes its approval and nothing else.                 *)
LEMMA ClosedFields ==
  ASSUME NEW q \in PendingUser, NEW n
  PROVE  /\ Closed(q, n) \in PendingUser
         /\ Closed(q, n).who = q.who /\ Closed(q, n).flat = q.flat
         /\ Closed(q, n).number = q.number
         /\ Closed(q, n).approved <=> q.approved \/ q.number = n
BY DEF Closed, PendingUser

(* Closing keeps the requests as many, each with a number of its own.       *)
LEMMA ClosedNumbered ==
  ASSUME RowsTyped, Numbered, NEW n
  PROVE  LET after == {Closed(q, n) : q \in requests}
         IN  /\ IsFiniteSet(after) /\ Cardinality(after) = Cardinality(requests)
             /\ after \subseteq PendingUser
             /\ \A q, r \in after : q.number = r.number => q = r
<1> DEFINE after == {Closed(q, n) : q \in requests}
           close == [q \in requests |-> Closed(q, n)]
<1>1. requests \subseteq PendingUser
  BY DEF RowsTyped
<1>2. \A q \in requests : Closed(q, n) \in PendingUser /\ Closed(q, n).number = q.number
  BY <1>1, ClosedFields
<1>3. close \in [requests -> after] /\ \A r \in after : \E q \in requests : close[q] = r
  OBVIOUS
<1>4. \A q, r \in requests : close[q] = close[r] => q = r
  BY <1>2 DEF Numbered
<1>5. close \in Bijection(requests, after)
  BY <1>3, <1>4, Fun_IsBij
<1>6. IsFiniteSet(after) /\ Cardinality(after) = Cardinality(requests)
  BY <1>5, FS_Bijection DEF Numbered, ExistsBijection
<1>7. \A q, r \in after : q.number = r.number => q = r
  BY <1>2 DEF Numbered
<1> QED BY <1>2, <1>6, <1>7

-------------------------------------------------------------------------------
(* Worker w goes on without changing a row: every other job still fits.    *)
LEMMA WorkerOnly ==
  ASSUME JoinIInv, NEW w \in Workers, NEW rec \in WorkRecord, Goes(w, rec), JobFits(rec),
         UNCHANGED <<byApproval, known, homes, requests>>,
         joins' \in 0..MaxJoins, crashes' \in 0..MaxCrashes, crowded' \in BOOLEAN,
         ~crowded' => /\ ~crowded
                      /\ \A v \in Workers : v # w => work[v] = Free
                      /\ rec # Free => ReadHolds(rec)
  PROVE  JoinIInv'
<1>1. work' = [work EXCEPT ![w] = rec] /\ work \in [Workers -> WorkRecord]
  BY DEF Goes, JoinIInv, JobsFit
<1>2. work'[w] = rec /\ \A v \in Workers : v # w => work'[v] = work[v]
  BY <1>1
<1>3. RowsTyped'
  BY DEF JoinIInv, RowsTyped
<1>4. Numbered'
  BY DEF JoinIInv, Numbered
<1>5. JobsFit'
  <2>1. \A me : JobFits(me)' <=> JobFits(me)
    BY DEF JobFits, HasHome, Free
  <2>2. \A v \in Workers : JobFits(work[v])
    BY DEF JoinIInv, JobsFit
  <2>3. \A v \in Workers : JobFits(work'[v])
    BY <1>2, <2>2
  <2>4. work' \in [Workers -> WorkRecord]
    BY <1>1
  <2>5. \A v \in Workers : JobFits(work[v])'
    BY <2>1, <2>3
  <2> QED BY <2>4, <2>5 DEF JobsFit
<1>6. Alone'
  <2> SUFFICES ASSUME ~crowded'
               PROVE  /\ \A v, u \in Workers : work'[v] # Free /\ work'[u] # Free => v = u
                      /\ \A v \in Workers : work'[v] # Free => ReadHolds(work[v])'
                      /\ HomesAgree'
    BY DEF Alone, Free
  <2>1. \A me : ReadHolds(me)' <=> ReadHolds(me)
    BY DEF ReadHolds, Mapped, Open
  <2>2. \A v \in Workers : work'[v] # Free => v = w
    BY <1>2
  <2>3. \A v \in Workers : work'[v] # Free => ReadHolds(work'[v])
    BY <1>2, <2>2
  <2>4. \A v \in Workers : work'[v] # Free => ReadHolds(work[v])'
    BY <2>1, <2>3
  <2>5. HomesAgree'
    BY DEF JoinIInv, Alone, HomesAgree
  <2> QED BY <2>2, <2>4, <2>5
<1> QED BY <1>3, <1>4, <1>5, <1>6 DEF JoinIInv

(* A message taken by a free worker: alone, it is the only one at work.    *)
LEMMA MessageTaken ==
  ASSUME JoinIInv, NEW w \in Workers, Message(w), UNCHANGED crashes
  PROVE  /\ joins' \in 0..MaxJoins /\ crashes' \in 0..MaxCrashes /\ crowded' \in BOOLEAN
         /\ ~crowded' => ~crowded /\ \A v \in Workers : work[v] = Free
<1>1. joins' \in 0..MaxJoins
  BY OnboardingAssumption DEF Message, JoinIInv, RowsTyped
<1>2. crashes' \in 0..MaxCrashes
  BY DEF JoinIInv, RowsTyped
<1>3. crowded' = (crowded \/ Busy # {})
  BY DEF Message
<1>4. crowded' \in BOOLEAN
  BY <1>3, Zenon
<1>5. ~crowded' => ~crowded /\ Busy = {}
  BY <1>3, Zenon
<1>6. Busy = {} => \A v \in Workers : work[v] = Free
  BY DEF Busy
<1> QED BY <1>1, <1>2, <1>4, <1>5, <1>6

(* What a worker that never overlapped another may rely on.                *)
LEMMA WorkerAlone ==
  ASSUME JoinIInv, NEW w \in Workers, work[w] # Free
  PROVE  /\ JobFits(work[w]) /\ work[w] \in WorkRecord
         /\ ~crowded => /\ \A v \in Workers : v # w => work[v] = Free
                        /\ ReadHolds(work[w]) /\ HomesAgree
BY DEF JoinIInv, JobsFit, Alone

(* The bounds on messages and crashes hold where their counters do not      *)
(* move.                                                                    *)
LEMMA CountersKept ==
  ASSUME JoinIInv, UNCHANGED <<crowded, joins, crashes>>
  PROVE  joins' \in 0..MaxJoins /\ crashes' \in 0..MaxCrashes /\ crowded' \in BOOLEAN
BY DEF JoinIInv, RowsTyped

(* A JOIN starts a worker that has looked nothing up.                       *)
LEMMA JoinKeeps ==
  ASSUME JoinIInv, NEW w \in Workers, NEW i \in Newcomers, NEW f \in Flats, Join(w, i, f)
  PROVE  JoinIInv'
<1> DEFINE new == i \notin known
           rec == [Free EXCEPT !.step = "look", !.who = i, !.flat = f, !.fresh = new]
<1>0. new \in BOOLEAN
  BY Zenon
<1>4. Goes(w, rec) /\ Message(w) /\ ~Mapped(i) /\ UNCHANGED <<byApproval, known, homes, requests, crashes>>
  BY DEF Join
<1> HIDE DEF new
<1>1. Free \in WorkRecord /\ Free.req = 0
  BY WorkFacts
<1>2. rec \in WorkRecord
  BY <1>0, <1>1 DEF WorkRecord, Steps
<1>3. rec.step = "look" /\ rec.who = i /\ rec.flat = f /\ rec.req = 0
  BY <1>1 DEF WorkRecord
<1> HIDE DEF rec
<1>5. JobFits(rec)
  <2>1. Cardinality(requests) \in Nat /\ \A q \in requests : q.number # 0
    BY FS_CardinalityType DEF JoinIInv, Numbered
  <2> QED BY <1>3, <2>1 DEF JobFits, Steps
<1>6. ReadHolds(rec)
  BY <1>3, <1>4 DEF ReadHolds
<1> QED BY <1>2, <1>4, <1>5, <1>6, MessageTaken, WorkerOnly

(* An approval starts with an open request, of the newcomer it will give a  *)
(* home.                                                                    *)
LEMMA ApproveKeeps ==
  ASSUME JoinIInv, NEW w \in Workers, NEW p, NEW q \in requests, Approve(w, p, q)
  PROVE  JoinIInv'
<1> DEFINE rec == [step |-> StepOfApproval(q.who, q.flat), who |-> q.who, flat |-> q.flat,
                   req |-> q.number, fresh |-> FALSE]
<1>1. q.who \in Newcomers /\ q.flat \in Flats /\ q.number \in Nat
  BY DEF JoinIInv, RowsTyped, PendingUser
<1>2. rec.step \in {"mark", "assign"} /\ (rec.step = "mark" <=> HasHome(q.who, q.flat))
  BY DEF StepOfApproval
<1>3. rec \in WorkRecord
  BY <1>1, <1>2 DEF WorkRecord, Steps
<1>4. rec.who = q.who /\ rec.flat = q.flat /\ rec.req = q.number
  OBVIOUS
<1>5. Goes(w, rec) /\ Message(w) /\ ~q.approved /\ UNCHANGED <<byApproval, known, homes, requests, crashes>>
  BY DEF Approve
<1> HIDE DEF rec
<1>6. JobFits(rec)
  <2>1. q.number \in 0..Cardinality(requests) /\ \A r \in requests : r.number = q.number => r.who = q.who
    BY FS_CardinalityType DEF JoinIInv, Numbered
  <2> QED BY <1>1, <1>2, <1>4, <2>1 DEF JobFits, Steps
<1>7. ~crowded => ReadHolds(rec)
  <2> SUFFICES ASSUME ~crowded, rec.step = "assign" PROVE ReadHolds(rec)
    BY <1>2 DEF ReadHolds
  <2>1. HomesAgree
    BY DEF JoinIInv, Alone
  <2>2. ~Mapped(q.who)
    BY <1>1, <1>2, <1>5, <2>1 DEF HomesAgree, Mapped, HasHome
  <2>3. \A r \in requests : r.who = q.who /\ ~r.approved => r.flat = q.flat
    BY <1>5, <2>1 DEF HomesAgree
  <2> QED BY <1>2, <1>4, <2>2, <2>3 DEF ReadHolds
<1> QED BY <1>3, <1>5, <1>6, <1>7, MessageTaken, WorkerOnly

(* A worker that ends without a commit leaves the rows as they are.         *)
LEMMA FreeKeeps ==
  ASSUME JoinIInv, NEW w \in Workers, work[w] # Free, Goes(w, Free),
         UNCHANGED <<byApproval, known, homes, requests, crowded, joins>>,
         crashes' \in 0..MaxCrashes
  PROVE  JoinIInv'
<1>1. joins' \in 0..MaxJoins /\ crowded' \in BOOLEAN
  BY DEF JoinIInv, RowsTyped
<1>2. JobFits(Free)
  BY DEF JobFits
<1> QED BY <1>1, <1>2, WorkFacts, WorkerAlone, WorkerOnly

(* A crash loses what the worker had in hand and no row.                    *)
LEMMA CrashKeeps ==
  ASSUME JoinIInv, NEW w \in Workers, Crash(w)
  PROVE  JoinIInv'
<1>1. crashes' \in 0..MaxCrashes
  BY OnboardingAssumption DEF Crash, JoinIInv, RowsTyped
<1> QED BY <1>1, FreeKeeps DEF Crash

(* A worker that finds no open request goes on to ask; while alone, none    *)
(* comes in between.                                                        *)
LEMMA LookUpRequestKeeps ==
  ASSUME JoinIInv, NEW w \in Workers, LookUpRequest(w)
  PROVE  JoinIInv'
<1> DEFINE me == work[w]
           rec == [me EXCEPT !.step = "ask"]
<1>1. /\ me.step = "look" /\ byApproval /\ me # Free
      /\ UNCHANGED <<byApproval, known, homes, requests, crowded, joins, crashes>>
  BY WorkFacts DEF LookUpRequest
<1>2. CASE NeedsRequest(me.who)
  <2>1. Goes(w, rec)
    BY <1>2 DEF LookUpRequest
  <2>2. rec \in WorkRecord /\ rec.step = "ask" /\ rec.who = me.who /\ rec.flat = me.flat
        /\ rec.req = me.req
    BY <1>1, WorkerAlone DEF WorkRecord, Steps
  <2> HIDE DEF rec
  <2>3. JobFits(rec)
    BY <1>1, <2>2, WorkerAlone DEF JobFits, Steps
  <2>4. ~crowded => ReadHolds(rec)
    BY <1>1, <1>2, <2>2, WorkerAlone DEF ReadHolds, NeedsRequest
  <2> QED BY <1>1, <2>1, <2>2, <2>3, <2>4, WorkerAlone, CountersKept, WorkerOnly
<1>3. CASE ~NeedsRequest(me.who)
  <2>1. Goes(w, Free)
    BY <1>3 DEF LookUpRequest
  <2> QED BY <1>1, <2>1, CountersKept, FreeKeeps
<1> QED BY <1>2, <1>3

(* A worker that finds no home for its newcomer goes on to give one.        *)
LEMMA LookUpHomeKeeps ==
  ASSUME JoinIInv, NEW w \in Workers, LookUpHome(w)
  PROVE  JoinIInv'
<1> DEFINE me == work[w]
           rec == [me EXCEPT !.step = "assign"]
<1>1. /\ me.step = "look" /\ ~byApproval /\ me # Free
      /\ UNCHANGED <<byApproval, known, homes, requests, crowded, joins, crashes>>
  BY WorkFacts DEF LookUpHome
<1>2. CASE ~HasHome(me.who, me.flat)
  <2>1. Goes(w, rec)
    BY <1>2 DEF LookUpHome
  <2>2. rec \in WorkRecord /\ rec.step = "assign" /\ rec.who = me.who /\ rec.flat = me.flat
        /\ rec.req = me.req
    BY <1>1, WorkerAlone DEF WorkRecord, Steps
  <2> HIDE DEF rec
  <2>3. JobFits(rec)
    BY <1>1, <2>2, WorkerAlone DEF JobFits, Steps
  <2>4. ~crowded => ReadHolds(rec)
    BY <1>1, <2>2, WorkerAlone DEF ReadHolds, HomesAgree
  <2> QED BY <1>1, <2>1, <2>2, <2>3, <2>4, WorkerAlone, CountersKept, WorkerOnly
<1>3. CASE HasHome(me.who, me.flat)
  <2>1. Goes(w, Free)
    BY <1>3 DEF LookUpHome
  <2> QED BY <1>1, <2>1, CountersKept, FreeKeeps
<1> QED BY <1>2, <1>3

-------------------------------------------------------------------------------
(* A request of a newcomer without a home and without an open request.     *)
LEMMA AskKeeps ==
  ASSUME JoinIInv, NEW w \in Workers, Ask(w)
  PROVE  JoinIInv'
<1> DEFINE me == work[w]
           n == NewRequest(me.who, me.flat)
<1>1. /\ me.step = "ask" /\ me # Free /\ known' = known \cup {me.who}
      /\ requests' = requests \cup {n} /\ work' = [work EXCEPT ![w] = Free]
      /\ UNCHANGED <<byApproval, homes, crowded, joins, crashes>>
  BY WorkFacts DEF Ask, Goes
<1>2. me.who \in Newcomers /\ me.flat \in Flats
  BY <1>1, WorkerAlone DEF JobFits
<1>3. work'[w] = Free /\ \A v \in Workers : v # w => work'[v] = work[v]
  BY <1>1 DEF JoinIInv, JobsFit
<1>n. /\ n \in PendingUser /\ n.who = me.who /\ n.flat = me.flat /\ ~n.approved
      /\ n.number = Cardinality(requests) + 1 /\ Cardinality(requests) \in Nat
      /\ IsFiniteSet(requests \cup {n})
      /\ Cardinality(requests \cup {n}) = Cardinality(requests) + 1
      /\ \A q \in requests : q.number # n.number
  <2>1. RowsTyped /\ Numbered
    BY DEF JoinIInv
  <2> HIDE DEF me
  <2> QED BY <1>2, <2>1, NewNumber
<1> HIDE DEF n
<1>4. /\ n \in PendingUser /\ n.who = me.who /\ n.flat = me.flat /\ ~n.approved
      /\ n.number = Cardinality(requests) + 1 /\ Cardinality(requests) \in Nat
      /\ IsFiniteSet(requests') /\ Cardinality(requests') = Cardinality(requests) + 1
      /\ \A q \in requests : q.number # n.number
  BY <1>1, <1>n
<1>5. RowsTyped'
  BY <1>1, <1>2, <1>4 DEF JoinIInv, RowsTyped
<1>6. Numbered'
  BY <1>1, <1>4 DEF JoinIInv, Numbered
<1>7. JobsFit'
  <2>1. \A job \in WorkRecord : JobFits(job) => JobFits(job)'
    <3> SUFFICES ASSUME NEW job \in WorkRecord, JobFits(job), job # Free PROVE JobFits(job)'
      BY DEF JobFits, Free
    <3>1. job.req \in 0..Cardinality(requests') /\ job.req # n.number
      BY <1>4 DEF JobFits
    <3> QED BY <1>1, <3>1 DEF JobFits, HasHome
  <2>2. \A v \in Workers : work'[v] \in WorkRecord /\ JobFits(work'[v])
    BY <1>3, WorkFacts DEF JoinIInv, JobsFit, JobFits
  <2>3. \A v \in Workers : JobFits(work[v])'
    BY <2>1, <2>2
  <2>4. work' \in [Workers -> WorkRecord]
    BY <1>1, WorkFacts DEF JoinIInv, JobsFit
  <2> QED BY <2>3, <2>4 DEF JobsFit
<1>8. Alone'
  <2> SUFFICES ASSUME ~crowded PROVE (\A v \in Workers : work'[v] = Free) /\ HomesAgree'
    BY <1>1 DEF Alone, Free
  <2>1. (\A v \in Workers : v # w => work[v] = Free) /\ ReadHolds(me) /\ HomesAgree
    BY <1>1, WorkerAlone
  <2>2. byApproval /\ ~Mapped(me.who) /\ \A q \in requests : q.who = me.who => q.approved
    BY <1>1, <2>1 DEF ReadHolds, Open
  <2>3. \A f \in Flats : ~(homes[me.who][f] > 0)
    BY <2>2 DEF Mapped
  <2> QED BY <1>1, <1>3, <1>4, <2>1, <2>2, <2>3 DEF HomesAgree
<1> QED BY <1>5, <1>6, <1>7, <1>8 DEF JoinIInv

(* Homes only become more.                                                 *)
LEMMA AssignGrows ==
  ASSUME JoinIInv, NEW w \in Workers, Assign(w)
  PROVE  LET me == work[w]
         IN  /\ me # Free /\ me.who \in Newcomers /\ me.flat \in Flats
             /\ homes' \in [Newcomers -> [Flats -> Nat]]
             /\ homes'[me.who][me.flat] = homes[me.who][me.flat] + 1
             /\ \A i \in Newcomers, f \in Flats :
                  i # me.who \/ f # me.flat => homes'[i][f] = homes[i][f]
             /\ \A i \in Newcomers, f \in Flats :
                  homes[i][f] \in Nat /\ homes'[i][f] >= homes[i][f]
<1> DEFINE me == work[w]
<1>1. me.step = "assign" /\ me # Free /\ homes' = [homes EXCEPT ![me.who][me.flat] = @ + 1]
  BY WorkFacts DEF Assign
<1>2. me.who \in Newcomers /\ me.flat \in Flats
  BY <1>1, WorkerAlone DEF JobFits
<1>3. homes \in [Newcomers -> [Flats -> Nat]]
  BY DEF JoinIInv, RowsTyped
<1> HIDE DEF me
<1>4. homes' \in [Newcomers -> [Flats -> Nat]]
  BY <1>1, <1>2, <1>3
<1>5. \A i \in Newcomers, f \in Flats :
        homes'[i][f] = IF i = me.who /\ f = me.flat THEN homes[i][f] + 1 ELSE homes[i][f]
  BY <1>1, <1>2, <1>3
<1>6. \A i \in Newcomers, f \in Flats : homes[i][f] \in Nat
  BY <1>3
<1> QED BY <1>1, <1>2, <1>4, <1>5, <1>6 DEF me

(* A home is given to a newcomer who, while workers do not overlap, has     *)
(* none.                                                                    *)
LEMMA AssignKeeps ==
  ASSUME JoinIInv, NEW w \in Workers, Assign(w)
  PROVE  JoinIInv'
<1> DEFINE me == work[w]
<1>0. /\ me.step = "assign" /\ known' = known \cup {me.who}
      /\ work' = [work EXCEPT ![w] = IF me.req = 0 THEN Free ELSE [me EXCEPT !.step = "mark"]]
      /\ UNCHANGED <<byApproval, requests, crowded, joins, crashes>>
  BY DEF Assign, Goes
<1>2. /\ me # Free /\ me.who \in Newcomers /\ me.flat \in Flats
      /\ homes' \in [Newcomers -> [Flats -> Nat]]
      /\ homes'[me.who][me.flat] = homes[me.who][me.flat] + 1
      /\ \A i \in Newcomers, f \in Flats :
           i # me.who \/ f # me.flat => homes'[i][f] = homes[i][f]
      /\ \A i \in Newcomers, f \in Flats : homes[i][f] \in Nat /\ homes'[i][f] >= homes[i][f]
  BY AssignGrows
<1>3. JobFits(me) /\ me \in WorkRecord
  BY <1>2, WorkerAlone
<1>4. PICK after \in WorkRecord :
        /\ after = [me EXCEPT !.step = "mark"]
        /\ after.step = "mark" /\ after.who = me.who /\ after.flat = me.flat /\ after.req = me.req
  <2> DEFINE marked == [me EXCEPT !.step = "mark"]
  <2>1. marked \in WorkRecord /\ marked.step = "mark" /\ marked.who = me.who
        /\ marked.flat = me.flat /\ marked.req = me.req
    BY <1>3 DEF WorkRecord, Steps
  <2> HIDE DEF marked
  <2>2. \E after \in WorkRecord :
          /\ after = marked
          /\ after.step = "mark" /\ after.who = me.who /\ after.flat = me.flat /\ after.req = me.req
    BY <2>1
  <2> QED BY <2>2 DEF marked
<1> DEFINE rec == IF me.req = 0 THEN Free ELSE after
<1>1. /\ me.step = "assign" /\ known' = known \cup {me.who} /\ work' = [work EXCEPT ![w] = rec]
      /\ UNCHANGED <<byApproval, requests, crowded, joins, crashes>>
  BY <1>0, <1>4
<1>5. work'[w] = rec /\ \A v \in Workers : v # w => work'[v] = work[v]
  BY <1>1 DEF JoinIInv, JobsFit
<1>6. RowsTyped'
  BY <1>1, <1>2 DEF JoinIInv, RowsTyped
<1>7. Numbered'
  BY <1>1 DEF JoinIInv, Numbered
<1>8. JobsFit'
  <2>1. \A job \in WorkRecord : JobFits(job) => JobFits(job)'
    <3> SUFFICES ASSUME NEW job \in WorkRecord, JobFits(job), job # Free PROVE JobFits(job)'
      BY DEF JobFits, Free
    <3>1. job.who \in Newcomers /\ job.flat \in Flats /\ (HasHome(job.who, job.flat) => HasHome(job.who, job.flat)')
      BY <1>2 DEF JobFits, HasHome
    <3> QED BY <1>1, <3>1 DEF JobFits
  <2>2. JobFits(after)'
    BY <1>1, <1>2, <1>3, <1>4 DEF JobFits, HasHome, Steps
  <2>4. \A v \in Workers : v # w => JobFits(work'[v])
    BY <1>5 DEF JoinIInv, JobsFit
  <2>5. \A v \in Workers : v # w => work'[v] \in WorkRecord
    BY <1>5 DEF JoinIInv, JobsFit
  <2>6. \A v \in Workers : JobFits(work[v])'
    BY <1>5, <2>1, <2>2, <2>4, <2>5 DEF JobFits, Free
  <2>7. work' \in [Workers -> WorkRecord]
    BY <1>1, <1>4, WorkFacts DEF JoinIInv, JobsFit
  <2> QED BY <2>6, <2>7 DEF JobsFit
<1>9. Alone'
  <2> SUFFICES ASSUME ~crowded
               PROVE  /\ \A v \in Workers : v # w => work'[v] = Free
                      /\ work'[w] # Free => work'[w].step = "mark"
                      /\ HomesAgree'
    BY <1>1 DEF Alone, ReadHolds, Free
  <2>1. (\A v \in Workers : v # w => work[v] = Free) /\ ReadHolds(me) /\ HomesAgree
    BY <1>2, WorkerAlone
  <2>2. /\ \A f \in Flats : ~(homes[me.who][f] > 0)
        /\ \A q \in requests : q.who = me.who /\ ~q.approved => q.flat = me.flat
    BY <1>1, <2>1 DEF ReadHolds, Mapped
  <2>3. homes[me.who][me.flat] = 0
    BY <1>2, <2>2
  <2>4. \A f \in Flats : homes'[me.who][f] > 0 => f = me.flat /\ homes'[me.who][f] = 1
    BY <1>2, <2>2, <2>3
  <2>5. requests \subseteq PendingUser
    BY DEF JoinIInv, RowsTyped
  <2>6. HomesAgree'
    <3>1. \A i \in Newcomers, f, g \in Flats :
            homes'[i][f] > 0 /\ homes'[i][g] > 0 => f = g /\ homes'[i][f] = 1
      BY <1>2, <2>1, <2>4 DEF HomesAgree
    <3>2. \A q \in requests, f \in Flats : ~q.approved /\ homes'[q.who][f] > 0 => f = q.flat
      BY <1>2, <2>1, <2>2, <2>4, <2>5 DEF HomesAgree, PendingUser
    <3> QED BY <1>1, <2>1, <3>1, <3>2 DEF HomesAgree
  <2> QED BY <1>4, <1>5, <2>1, <2>6
<1> QED BY <1>6, <1>7, <1>8, <1>9 DEF JoinIInv

(* Closing keeps who asked for what, and opens nothing.                    *)
LEMMA MarkCloses ==
  ASSUME JoinIInv, NEW w \in Workers, Mark(w)
  PROVE  LET me == work[w]
         IN  /\ me # Free /\ me.step = "mark"
             /\ IsFiniteSet(requests') /\ Cardinality(requests') = Cardinality(requests)
             /\ requests' \subseteq PendingUser
             /\ \A q, r \in requests' : q.number = r.number => q = r
             /\ \A r \in requests' : \E q \in requests :
                  /\ r.who = q.who /\ r.flat = q.flat /\ r.number = q.number
                  /\ r.approved <=> q.approved \/ q.number = me.req
                  /\ r = Closed(q, me.req)
             /\ \A q \in requests : \E r \in requests' :
                  /\ r.who = q.who /\ (r.approved => q.approved \/ q.number = me.req)
<1> DEFINE me == work[w]
           after(n) == {Closed(q, n) : q \in requests}
<1>1. me.step = "mark" /\ me # Free /\ requests' = after(me.req)
  BY WorkFacts DEF Mark, Closed
<1>2. \A n : /\ IsFiniteSet(after(n)) /\ Cardinality(after(n)) = Cardinality(requests)
             /\ after(n) \subseteq PendingUser
             /\ \A q, r \in after(n) : q.number = r.number => q = r
  BY ClosedNumbered DEF JoinIInv
<1>3. \A q \in requests :
        /\ Closed(q, me.req).who = q.who /\ Closed(q, me.req).flat = q.flat
        /\ Closed(q, me.req).number = q.number
        /\ Closed(q, me.req).approved <=> q.approved \/ q.number = me.req
  BY ClosedFields DEF JoinIInv, RowsTyped
<1> HIDE DEF me
<1>4. /\ IsFiniteSet(after(me.req)) /\ Cardinality(after(me.req)) = Cardinality(requests)
      /\ after(me.req) \subseteq PendingUser
      /\ \A q, r \in after(me.req) : q.number = r.number => q = r
  BY <1>2
<1>5. \A r \in after(me.req) : \E q \in requests : r = Closed(q, me.req)
  OBVIOUS
<1>6. \A q \in requests : Closed(q, me.req) \in after(me.req)
  OBVIOUS
<1> HIDE DEF after
<1>7. \A r \in requests' : \E q \in requests :
        /\ r.who = q.who /\ r.flat = q.flat /\ r.number = q.number
        /\ r.approved <=> q.approved \/ q.number = me.req
        /\ r = Closed(q, me.req)
  BY <1>1, <1>3, <1>5
<1>8. \A q \in requests : \E r \in requests' :
        r.who = q.who /\ (r.approved => q.approved \/ q.number = me.req)
  BY <1>1, <1>3, <1>6
<1> QED BY <1>1, <1>4, <1>7, <1>8 DEF me

(* The second commit closes the request of a newcomer who has a home by     *)
(* then.                                                                    *)
LEMMA MarkKeeps ==
  ASSUME JoinIInv, NEW w \in Workers, Mark(w)
  PROVE  JoinIInv'
<1> DEFINE me == work[w]
<1>1. /\ work' = [work EXCEPT ![w] = Free]
      /\ UNCHANGED <<byApproval, known, homes, crowded, joins, crashes>>
  BY DEF Mark, Goes
<1>2. work'[w] = Free /\ \A v \in Workers : v # w => work'[v] = work[v]
  BY <1>1 DEF JoinIInv, JobsFit
<1>3. /\ me # Free
      /\ IsFiniteSet(requests') /\ Cardinality(requests') = Cardinality(requests)
      /\ requests' \subseteq PendingUser
      /\ \A q, r \in requests' : q.number = r.number => q = r
  BY MarkCloses
<1>4. \A r \in requests' : \E q \in requests :
        /\ r.who = q.who /\ r.flat = q.flat /\ r.number = q.number
        /\ ~r.approved => ~q.approved
        /\ r = Closed(q, me.req)
  BY MarkCloses
<1>5. RowsTyped'
  BY <1>1, <1>3, <1>4 DEF JoinIInv, RowsTyped
<1>6. Numbered'
  BY <1>3, <1>4 DEF JoinIInv, Numbered
<1>7. JobsFit'
  <2>1. \A job \in WorkRecord : JobFits(job) => JobFits(job)'
    BY <1>1, <1>3, <1>4 DEF JobFits, HasHome, Free
  <2>2. \A v \in Workers : work'[v] \in WorkRecord /\ JobFits(work'[v])
    BY <1>2, WorkFacts DEF JoinIInv, JobsFit, JobFits
  <2>3. \A v \in Workers : JobFits(work[v])'
    BY <2>1, <2>2
  <2>4. work' \in [Workers -> WorkRecord]
    BY <1>1, WorkFacts DEF JoinIInv, JobsFit
  <2> QED BY <2>3, <2>4 DEF JobsFit
<1>8. Alone'
  <2> SUFFICES ASSUME ~crowded PROVE (\A v \in Workers : work'[v] = Free) /\ HomesAgree'
    BY <1>1 DEF Alone, Free
  <2>1. (\A v \in Workers : v # w => work[v] = Free) /\ HomesAgree
    BY <1>3, WorkerAlone
  <2>2. \A q, r \in requests' : ~q.approved /\ ~r.approved /\ q.who = r.who => q = r
    BY <1>4, <2>1 DEF HomesAgree
  <2>3. \A r \in requests', f \in Flats : ~r.approved /\ homes[r.who][f] > 0 => f = r.flat
    BY <1>4, <2>1 DEF HomesAgree
  <2>4. ~byApproval => requests' = {}
    BY <1>4, <2>1 DEF HomesAgree
  <2> QED BY <1>1, <1>2, <2>1, <2>2, <2>3, <2>4 DEF HomesAgree
<1> QED BY <1>5, <1>6, <1>7, <1>8 DEF JoinIInv

-------------------------------------------------------------------------------
(* Nobody has asked yet.                                                    *)
LEMMA JoinStart == JoinInit => JoinIInv
<1> SUFFICES ASSUME JoinInit PROVE JoinIInv
  OBVIOUS
<1>1. IsFiniteSet({}) /\ Cardinality({}) = 0
  BY FS_EmptySet
<1>2. RowsTyped /\ Numbered
  <2>1. homes \in [Newcomers -> [Flats -> Nat]]
    BY DEF JoinInit
  <2>2. 0 \in 0..MaxJoins /\ 0 \in 0..MaxCrashes
    BY OnboardingAssumption
  <2>3. byApproval \in BOOLEAN /\ crowded \in BOOLEAN
    BY DEF JoinInit
  <2> QED BY <1>1, <2>1, <2>2, <2>3 DEF JoinInit, RowsTyped, Numbered
<1>3. \A w \in Workers : work[w] = Free
  BY DEF JoinInit
<1>4. JobsFit
  BY <1>3, WorkFacts DEF JoinInit, JobsFit, JobFits
<1>5. Alone
  BY <1>3 DEF JoinInit, Alone, HomesAgree
<1> QED BY <1>2, <1>4, <1>5 DEF JoinIInv

(* Every step of a worker keeps the invariant of joining.                   *)
LEMMA JoinStepKeeps == JoinIInv /\ [JoinNext]_joinVars => JoinIInv'
<1> SUFFICES ASSUME JoinIInv, [JoinNext]_joinVars PROVE JoinIInv'
  OBVIOUS
<1>1. CASE UNCHANGED joinVars
  BY <1>1 DEF joinVars, JoinIInv, RowsTyped, Numbered, JobsFit, JobFits, HasHome, Alone, ReadHolds,
     HomesAgree, Mapped, Open, Free
<1>2. ASSUME NEW w \in Workers, JoinStep(w) PROVE JoinIInv'
  <2>1. CASE \E i \in Newcomers, f \in Flats : Join(w, i, f)
    BY <2>1, JoinKeeps
  <2>2. CASE \E p \in People, q \in requests : Approve(w, p, q)
    BY <2>2, ApproveKeeps
  <2>3. CASE LookUpRequest(w) \/ LookUpHome(w)
    BY <2>3, LookUpRequestKeeps, LookUpHomeKeeps
  <2>4. CASE Ask(w) \/ Assign(w) \/ Mark(w)
    BY <2>4, AskKeeps, AssignKeeps, MarkKeeps
  <2>5. CASE Crash(w)
    BY <2>5, CrashKeeps
  <2> QED BY <1>2, <2>1, <2>2, <2>3, <2>4, <2>5 DEF JoinStep
<1> QED BY <1>1, <1>2 DEF JoinNext

(* The inductive invariant of joining.                                     *)
THEOREM JoinInvariance == JoinSpec => []JoinIInv
BY JoinStart, JoinStepKeeps, PTL DEF JoinSpec

(* The types in the invariant are the module's.                             *)
LEMMA JoinTyped == JoinIInv => JoinTypeOK
<1> SUFFICES ASSUME JoinIInv PROVE JoinTypeOK
  OBVIOUS
<1>1. \A q \in requests :
        /\ DOMAIN q = {"who", "flat", "approved", "number"}
        /\ q.who \in known /\ q.flat \in Flats /\ q.approved \in BOOLEAN
        /\ q.number \in 1..Cardinality(requests)
  BY DEF JoinIInv, RowsTyped, Numbered, PendingUser
<1>2. \A w \in Busy : work[w].who \in Newcomers /\ work[w].flat \in Flats
  BY DEF Busy, JoinIInv, JobsFit, JobFits
<1> QED BY <1>1, <1>2 DEF JoinIInv, RowsTyped, JoinTypeOK

(* The invariant has the rule of one home and one open request.             *)
LEMMA JoinOneHome == JoinIInv => OneHomeEach
<1> SUFFICES ASSUME JoinIInv, ~crowded, NEW i \in Newcomers
             PROVE  /\ Cardinality(Open(i)) <= 1
                    /\ \A f, g \in Flats :
                         homes[i][f] > 0 /\ homes[i][g] > 0 => f = g /\ homes[i][f] = 1
  BY DEF OneHomeEach
<1>1. HomesAgree
  BY DEF JoinIInv, Alone
<1>2. \A q, r \in Open(i) : q = r
  BY <1>1 DEF Open, HomesAgree
<1> QED BY <1>1, <1>2, AtMostOne DEF HomesAgree

(* Homes and requests stay, and a request is closed for who has a home.    *)
LEMMA StandingStays ==
  ASSUME JoinIInv, [JoinNext]_joinVars, NEW i \in Newcomers
  PROVE  Standing(i)' >= Standing(i)
<1> SUFFICES /\ Mapped(i) => Mapped(i)'
             /\ ~Mapped(i) /\ Open(i) # {} => Mapped(i)' \/ Open(i)' # {}
  BY DEF Standing
<1>1. CASE UNCHANGED <<homes, requests>>
  BY <1>1 DEF Mapped, Open
<1>2. ASSUME NEW w \in Workers, Ask(w) PROVE homes' = homes /\ requests \subseteq requests'
  BY <1>2 DEF Ask
<1>3. ASSUME NEW w \in Workers, Assign(w)
      PROVE  requests' = requests /\ (Mapped(i) => Mapped(i)')
  <2>1. requests' = requests
    BY <1>3 DEF Assign
  <2>2. \A f \in Flats : homes[i][f] > 0 => homes'[i][f] > 0
    <3>1. \A f \in Flats : homes[i][f] \in Nat /\ homes'[i][f] >= homes[i][f]
      BY <1>3, AssignGrows
    <3>2. homes' \in [Newcomers -> [Flats -> Nat]]
      BY <1>3, AssignGrows
    <3> QED BY <3>1, <3>2
  <2> QED BY <2>1, <2>2 DEF Mapped
<1>4. ASSUME NEW w \in Workers, Mark(w), ~Mapped(i)
      PROVE  homes' = homes /\ (Open(i) # {} => Open(i)' # {})
  <2> DEFINE me == work[w]
  <2>1. homes' = homes
    BY <1>4 DEF Mark
  <2>2. me # Free /\ me.step = "mark"
    BY <1>4, MarkCloses
  <2>3. /\ me.who \in Newcomers /\ me.flat \in Flats /\ HasHome(me.who, me.flat)
        /\ \A q \in requests : q.number = me.req => q.who = me.who
    BY <2>2, WorkerAlone DEF JobFits
  <2>4. me.who # i
    BY <1>4, <2>3 DEF Mapped, HasHome
  <2>5. \A q \in Open(i) : \E r \in requests' : r.who = i /\ ~r.approved
    <3> SUFFICES ASSUME NEW q \in Open(i) PROVE \E r \in requests' : r.who = i /\ ~r.approved
      OBVIOUS
    <3>1. q \in requests /\ q.who = i /\ ~q.approved /\ q.number # me.req
      BY <2>3, <2>4 DEF Open
    <3>2. PICK r \in requests' : r.who = q.who /\ (r.approved => q.approved \/ q.number = me.req)
      BY <1>4, <3>1, MarkCloses
    <3> QED BY <3>1, <3>2
  <2> QED BY <2>1, <2>5 DEF Open
<1>5. ASSUME NEW w \in Workers, Mark(w) PROVE homes' = homes
  BY <1>5 DEF Mark
<1>6. ASSUME NEW w \in Workers, JoinStep(w)
      PROVE  UNCHANGED <<homes, requests>> \/ Ask(w) \/ Assign(w) \/ Mark(w)
  BY <1>6 DEF JoinStep, Join, Approve, LookUpRequest, LookUpHome, Crash
<1>7. UNCHANGED <<homes, requests>> \/ \E w \in Workers : Ask(w) \/ Assign(w) \/ Mark(w)
  BY <1>6 DEF JoinNext, joinVars
<1>8. CASE \E w \in Workers : Ask(w)
  BY <1>2, <1>8 DEF Mapped, Open
<1>9. CASE \E w \in Workers : Assign(w)
  BY <1>3, <1>9 DEF Open
<1>10. CASE \E w \in Workers : Mark(w)
  BY <1>4, <1>5, <1>10 DEF Mapped
<1> QED BY <1>1, <1>7, <1>8, <1>9, <1>10

(* Who was told "pending" or "approved" by JOIN_STATUS is never told less, *)
(* with any number of workers at once and crashes between the two commits  *)
(* of an approval (admin_approval_service).                                *)
THEOREM JoinStanding == JoinSpec => StandingNeverFalls
<1>1. JoinIInv /\ [JoinNext]_joinVars => [\A i \in Newcomers : Standing(i)' >= Standing(i)]_joinVars
  BY StandingStays
<1> QED BY <1>1, JoinInvariance, PTL DEF JoinSpec, StandingNeverFalls

(* Workers that do not overlap give each newcomer one home and one open    *)
(* request, though no constraint of pending_users and user_flat_mappings   *)
(* does, whatever crashed and whatever was asked or approved again.        *)
THEOREM JoinHomes == JoinSpec => []OneHomeEach
BY JoinInvariance, JoinOneHome, PTL

-------------------------------------------------------------------------------
(***************************************************************************)
(* The office.                                                             *)
(***************************************************************************)
(* The rows of committee_members change by the roster's own actions only.  *)
THEOREM OfficeKeepsRoster == Spec => RosterSpec
<1>1. Init => RosterInit
  BY DEF Init
<1>2. [Next]_officeVars => [RosterNext]_rosterVars
  BY DEF Next, Roster, Joining, Books, Desk, officeVars
<1> QED BY <1>1, <1>2, PTL DEF Spec, RosterSpec

(* Requests and homes change by the steps of joining only.                 *)
THEOREM OfficeKeepsJoining == Spec => JoinSpec
<1>1. Init => JoinInit
  BY DEF Init
<1>2. [Next]_officeVars => [JoinNext]_joinVars
  BY DEF Next, Roster, Joining, Books, Desk, officeVars
<1> QED BY <1>1, <1>2, PTL DEF Spec, JoinSpec

(* As long as no two members confirm at the same time, the office has a    *)
(* chairman to approve newcomers, whatever goes on at the other desks      *)
(* (ui_router counts the chairmen before a removal or demotion).           *)
THEOREM OfficeChairman == Spec => []ChairmanRemains
BY OfficeKeepsRoster, ChairmanStays, PTL

(* Nobody is removed from the committee but whom the last question named.  *)
THEOREM OfficeRemovals == Spec => []RemovalAsAsked
BY OfficeKeepsRoster, RemovalWasAsked, PTL

(* Nobody's join request or home is lost, though a chairman who approves   *)
(* may be removed meanwhile and a worker may die between its two commits.  *)
THEOREM OfficeStanding == Spec => StandingNeverFalls
BY OfficeKeepsJoining, JoinStanding, PTL

(* One home and one open request each, as long as workers do not overlap.  *)
THEOREM OfficeHomes == Spec => []OneHomeEach
BY OfficeKeepsJoining, JoinHomes, PTL

-------------------------------------------------------------------------------
(***************************************************************************)
(* The desk of the reports.  What it hands out was rendered as asked, and  *)
(* is on record unless two writes of the log have failed: a request that   *)
(* tries its log a second time has seen one failure, and goes on without a *)
(* row only after another.                                                 *)
(***************************************************************************)
Formats == Files \cup {"JSON", "other"}

Codes == DOMAIN REPORT_PERMISSIONS

Requests ==
  [step : {"checked", "again", "recorded"}, number : 1..calls, code : Codes,
   format : Formats, document : Formats \cup {"refusal"}]

DeskTypes ==
  /\ calls \in 0..MaxCalls
  /\ faults \in 0..MaxFaults
  /\ desk \in [People -> {NoCall} \cup Requests]
  /\ accessLog \subseteq [by : People, code : Codes, format : Formats, number : 1..calls]
  /\ outbox \subseteq [to : People, code : Codes, asked : Formats, document : Formats,
                       number : 1..calls]

RequestsAreSound ==
  \A p \in People : desk[p] # NoCall =>
    /\ desk[p].document \in {desk[p].format, "refusal"}
    /\ desk[p].step = "again" => faults >= 1
    /\ desk[p].step = "recorded" /\ faults <= 1 => LogRow(p) \in accessLog

DeskIInv == DeskTypes /\ RequestsAreSound /\ SoundDelivery

(* Every desk of the API and of the chat reports under a code the table of *)
(* permissions knows, and the chat's menu shows only what can be a PDF.    *)
LEMMA HandlerCodes ==
  /\ \A h \in ApiHandlers : h.code \in Codes
  /\ \A h \in ChatHandlers : h.code \in Codes /\ (MenuOffers(h) => "pdf" \in h.renders)
<1>1. \A h \in ApiHandlers : h.code \in Codes
  BY DEF ApiHandlers, Codes, REPORT_PERMISSIONS, OnEvent, OnSociety, event_summary,
     flat_payment_report, block_payment_report, export_sponsor_contributions,
     export_contribution_refunds, export_balance_continuity, export_member_refunds,
     export_ledger, food_pass_operations_report, pending_payments_report,
     expense_summary_report, participation_report, export_governance_audit,
     read_protected_audit_events, export_member_directory, export_onboarding_status,
     export_announcement_history
<1>2. \A h \in ChatHandlers : h.code \in Codes
  BY DEF ChatHandlers, ChatFinancial, ChatGifts, ChatBalances, ChatAdmin, ChatOperations,
     OnEvent, OnSociety, Codes, REPORT_PERMISSIONS
<1>3. ASSUME NEW h \in ChatHandlers, MenuOffers(h)
      PROVE  "pdf" \in h.renders
  <2>1. h.renders = Files \/ h.code \in {"ANNOUNCEMENT_HISTORY", "PENDING_PAYMENTS_OPERATIONS",
                                        "EXPENSE_SUMMARY", "EVENT_PARTICIPATION"}
    BY DEF ChatHandlers, ChatFinancial, ChatGifts, ChatBalances, ChatAdmin, ChatOperations,
       OnEvent, OnSociety
  <2>2. CASE h.renders = Files
    BY <2>2 DEF Files
  <2>3. CASE h.code \in {"ANNOUNCEMENT_HISTORY", "PENDING_PAYMENTS_OPERATIONS", "EXPENSE_SUMMARY"}
    BY <1>2, <1>3, <2>3 DEF MenuOffers, SupportedFormats, Codes
  <2>4. CASE h.code = "EVENT_PARTICIPATION"
    BY <1>2, <1>3, <2>4 DEF MenuOffers, SupportedFormats, Codes
  <2> QED BY <2>1, <2>2, <2>3, <2>4
<1> QED BY <1>1, <1>2, <1>3

(* Nobody has called yet.                                                   *)
LEMMA DeskStarts == DeskInit => DeskIInv
BY ReportDeskAssumption DEF DeskInit, DeskIInv, DeskTypes, RequestsAreSound, SoundDelivery

(* What a call puts on the desk: rendered as asked or refused.             *)
LEMMA CallKeeps ==
  ASSUME DeskIInv, NEW p \in People, NEW h, h.code \in Codes, NEW format \in Formats,
         NEW unsupported \in Formats \cup {"refusal", "blank"},
         format \in h.renders \/ unsupported = "refusal",
         Call(p, h, format, unsupported)
  PROVE  DeskIInv'
<1> DEFINE document == IF format \in h.renders THEN format ELSE unsupported
           r == [step |-> "checked", number |-> calls + 1, code |-> h.code, format |-> format,
                 document |-> document]
<1>1. document \in {format, "refusal"}
  OBVIOUS
<1>2. calls \in Nat /\ calls' = calls + 1 /\ calls' \in 0..MaxCalls /\ 1..calls \subseteq 1..calls'
  BY ReportDeskAssumption DEF Call, DeskIInv, DeskTypes
<1>3. desk' = [desk EXCEPT ![p] = r] /\ UNCHANGED <<accessLog, outbox, faults>>
  BY DEF Call
<1> HIDE DEF document
<1>4. r \in Requests'
  BY <1>1, <1>2 DEF Requests
<1>5. Requests \subseteq Requests'
  BY <1>2 DEF Requests
<1>6. r # NoCall /\ r.step = "checked" /\ r.document = document /\ r.format = format
  BY DEF NoCall
<1> HIDE DEF r
<1>7. DeskTypes'
  <2>1. desk' \in [People -> {NoCall} \cup Requests']
    BY <1>3, <1>4, <1>5 DEF DeskIInv, DeskTypes
  <2>2. accessLog' \subseteq [by : People, code : Codes, format : Formats, number : 1..calls']
    BY <1>2, <1>3 DEF DeskIInv, DeskTypes
  <2>3. outbox' \subseteq [to : People, code : Codes, asked : Formats, document : Formats,
                          number : 1..calls']
    BY <1>2, <1>3 DEF DeskIInv, DeskTypes
  <2> QED BY <1>2, <1>3, <2>1, <2>2, <2>3 DEF DeskIInv, DeskTypes
<1>8. RequestsAreSound'
  <2> SUFFICES ASSUME NEW q \in People, desk'[q] # NoCall
               PROVE  /\ desk'[q].document \in {desk'[q].format, "refusal"}
                      /\ desk'[q].step = "again" => faults' >= 1
                      /\ desk'[q].step = "recorded" /\ faults' <= 1 => LogRow(q)' \in accessLog'
    BY DEF RequestsAreSound
  <2>1. CASE q = p
    BY <1>1, <1>3, <1>6, <2>1 DEF DeskIInv, DeskTypes
  <2>2. CASE q # p
    BY <1>3, <2>2 DEF DeskIInv, DeskTypes, RequestsAreSound, LogRow
  <2> QED BY <2>1, <2>2
<1>9. SoundDelivery'
  BY <1>3 DEF DeskIInv, SoundDelivery
<1> QED BY <1>7, <1>8, <1>9 DEF DeskIInv

(* A request only moves on: its member, code, format and document stay.    *)
LEMMA StepTyped ==
  ASSUME DeskTypes, NEW p \in People, desk[p] # NoCall,
         NEW step \in {"checked", "again", "recorded"}
  PROVE  [desk EXCEPT ![p].step = step] \in [People -> {NoCall} \cup Requests]
<1>1. desk[p] \in Requests
  BY DEF DeskTypes
<1>2. [desk[p] EXCEPT !.step = step] \in Requests
  BY <1>1 DEF Requests
<1> QED BY <1>2 DEF DeskTypes

(* A call under way is told apart from none.                                *)
LEMMA NoStep == NoCall.step = "none" /\ \A r \in Requests : r.step # "none"
BY DEF NoCall, Requests

(* A call that is logged hands over what it asked for, with the row on      *)
(* record.                                                                  *)
LEMMA RecordKeeps ==
  ASSUME DeskIInv, NEW p \in People, RecordAccess(p) \/ RecordAgain(p)
  PROVE  DeskIInv'
<1>1. /\ desk[p].step \in {"checked", "again"}
      /\ accessLog' = accessLog \cup {LogRow(p)}
      /\ desk' = [desk EXCEPT ![p].step = "recorded"]
      /\ UNCHANGED <<outbox, faults, calls>>
  BY DEF RecordAccess, RecordAgain
<1>2. desk[p] # NoCall /\ desk[p] \in Requests
  BY <1>1, NoStep DEF DeskIInv, DeskTypes
<1>3. desk' \in [People -> {NoCall} \cup Requests]
  BY <1>1, <1>2, StepTyped DEF DeskIInv
<1>4. LogRow(p) \in [by : People, code : Codes, format : Formats, number : 1..calls]
  BY <1>2 DEF Requests, LogRow
<1>5. LogRow(p) = [by |-> p, code |-> desk'[p].code, format |-> desk'[p].format,
                   number |-> desk'[p].number]
  BY <1>1, <1>2 DEF LogRow, DeskIInv, DeskTypes, Requests
<1>6. DeskTypes'
  BY <1>1, <1>3, <1>4 DEF DeskIInv, DeskTypes, Requests
<1>7. RequestsAreSound'
  <2> SUFFICES ASSUME NEW q \in People, desk'[q] # NoCall
               PROVE  /\ desk'[q].document \in {desk'[q].format, "refusal"}
                      /\ desk'[q].step = "again" => faults' >= 1
                      /\ desk'[q].step = "recorded" /\ faults' <= 1 => LogRow(q)' \in accessLog'
    BY DEF RequestsAreSound
  <2>1. CASE q = p
    <3>1. desk'[p].document = desk[p].document /\ desk'[p].format = desk[p].format
          /\ desk'[p].step = "recorded"
      BY <1>1, <1>2 DEF DeskIInv, DeskTypes, Requests
    <3>2. LogRow(p)' \in accessLog'
      BY <1>1, <1>5 DEF LogRow
    <3> QED BY <1>2, <2>1, <3>1, <3>2 DEF DeskIInv, RequestsAreSound
  <2>2. CASE q # p
    BY <1>1, <2>2 DEF DeskIInv, DeskTypes, RequestsAreSound, LogRow
  <2> QED BY <2>1, <2>2
<1>8. SoundDelivery'
  BY <1>1 DEF DeskIInv, SoundDelivery
<1> QED BY <1>6, <1>7, <1>8 DEF DeskIInv

(* A first failure leaves the request to try again; only a second, which   *)
(* finds one counted already, lets it go on unrecorded.                    *)
LEMMA FaultKeeps ==
  ASSUME DeskIInv, NEW p \in People, LogFails(p)
  PROVE  DeskIInv'
<1> DEFINE step == AfterFault(desk[p].step)
<1>1. /\ desk[p].step \in {"checked", "again"}
      /\ faults < MaxFaults /\ faults' = faults + 1
      /\ UNCHANGED <<accessLog, outbox, calls>>
  BY DEF LogFails
<1>2. desk[p] # NoCall /\ desk[p] \in Requests
  BY <1>1, NoStep DEF DeskIInv, DeskTypes
<1>3. desk' = [desk EXCEPT ![p].step = step]
  BY DEF LogFails
<1>4. step \in {"again", "recorded"} /\ (step = "recorded" => desk[p].step = "again")
  BY <1>1 DEF AfterFault
<1> HIDE DEF step
<1>5. faults \in Nat /\ faults' \in 0..MaxFaults /\ faults' >= 1
  BY <1>1, ReportDeskAssumption DEF DeskIInv, DeskTypes
<1>6. DeskTypes'
  <2>1. desk' \in [People -> {NoCall} \cup Requests]
    BY <1>2, <1>3, <1>4, StepTyped DEF DeskIInv
  <2> QED BY <1>1, <1>5, <2>1 DEF DeskIInv, DeskTypes, Requests
<1>7. RequestsAreSound'
  <2> SUFFICES ASSUME NEW q \in People, desk'[q] # NoCall
               PROVE  /\ desk'[q].document \in {desk'[q].format, "refusal"}
                      /\ desk'[q].step = "again" => faults' >= 1
                      /\ desk'[q].step = "recorded" /\ faults' <= 1 => LogRow(q)' \in accessLog'
    BY DEF RequestsAreSound
  <2>1. CASE q = p
    <3>1. desk'[p].document = desk[p].document /\ desk'[p].format = desk[p].format
          /\ desk'[p].step = step
      BY <1>2, <1>3 DEF DeskIInv, DeskTypes, Requests
    <3>2. step = "recorded" => faults' > 1
      BY <1>1, <1>2, <1>4, <1>5 DEF DeskIInv, RequestsAreSound
    <3> QED BY <1>2, <1>5, <2>1, <3>1, <3>2 DEF DeskIInv, RequestsAreSound
  <2>2. CASE q # p
    BY <1>1, <1>3, <1>5, <2>2 DEF DeskIInv, DeskTypes, RequestsAreSound, LogRow
  <2> QED BY <2>1, <2>2
<1>8. SoundDelivery'
  <2>1. faults' <= 1 => faults <= 1
    BY <1>1, <1>5
  <2> QED BY <1>1, <2>1 DEF DeskIInv, SoundDelivery
<1> QED BY <1>6, <1>7, <1>8 DEF DeskIInv

(* A request leaves the desk: its document handed over, refused, or lost.  *)
LEMMA LeavesDesk ==
  ASSUME DeskIInv, NEW p \in People, HandOver(p) \/ Abandon(p)
  PROVE  DeskIInv'
<1> DEFINE row == [to |-> p, code |-> desk[p].code, asked |-> desk[p].format,
                   document |-> desk[p].document, number |-> desk[p].number]
<1>1. desk' = [desk EXCEPT ![p] = NoCall] /\ UNCHANGED <<accessLog, faults, calls>>
  BY DEF HandOver, Abandon
<1>2. outbox' \subseteq outbox \cup {row}
      /\ (outbox' # outbox => desk[p].step = "recorded" /\ desk[p].document # "refusal")
  BY DEF HandOver, Abandon
<1>3. ASSUME outbox' # outbox
      PROVE  /\ row \in [to : People, code : Codes, asked : Formats, document : Formats,
                           number : 1..calls]
             /\ row.document = row.asked
             /\ faults <= 1 => [by |-> row.to, code |-> row.code, format |-> row.asked,
                                 number |-> row.number] \in accessLog
  <2>1. desk[p] # NoCall /\ desk[p] \in Requests
    BY <1>2, <1>3, NoStep DEF DeskIInv, DeskTypes
  <2>2. desk[p].document = desk[p].format
    BY <1>2, <1>3, <2>1 DEF DeskIInv, RequestsAreSound
  <2>3. row \in [to : People, code : Codes, asked : Formats, document : Formats, number : 1..calls]
    BY <2>1, <2>2 DEF Requests
  <2>4. faults <= 1 => LogRow(p) \in accessLog
    BY <1>2, <1>3, <2>1 DEF DeskIInv, RequestsAreSound
  <2> QED BY <2>2, <2>3, <2>4 DEF LogRow
<1> HIDE DEF row
<1>4. DeskTypes'
  <2>1. desk' \in [People -> {NoCall} \cup Requests]
    BY <1>1 DEF DeskIInv, DeskTypes
  <2>2. outbox' \subseteq [to : People, code : Codes, asked : Formats, document : Formats,
                          number : 1..calls]
    BY <1>2, <1>3 DEF DeskIInv, DeskTypes
  <2> QED BY <1>1, <2>1, <2>2 DEF DeskIInv, DeskTypes, Requests
<1>5. RequestsAreSound'
  BY <1>1 DEF DeskIInv, DeskTypes, RequestsAreSound, LogRow
<1>6. SoundDelivery'
  BY <1>1, <1>2, <1>3 DEF DeskIInv, SoundDelivery
<1> QED BY <1>4, <1>5, <1>6 DEF DeskIInv

(* Every step of a call keeps the desk's invariant.                         *)
LEMMA DeskStep == DeskIInv /\ [DeskNext]_deskVars => DeskIInv'
<1> SUFFICES ASSUME DeskIInv, [DeskNext]_deskVars PROVE DeskIInv'
  OBVIOUS
<1>1. CASE UNCHANGED deskVars
  BY <1>1 DEF deskVars, DeskIInv, DeskTypes, Requests, RequestsAreSound, LogRow, SoundDelivery
<1>2. ASSUME NEW p \in People, Request(p)
      PROVE  DeskIInv'
  <2>1. ASSUME NEW h \in ApiHandlers, NEW format \in Files \cup {"JSON", "other"},
               CallApi(p, h, format)
        PROVE  DeskIInv'
    BY <2>1, HandlerCodes, CallKeeps DEF CallApi, Formats
  <2>2. ASSUME NEW h \in ChatHandlers, CallChat(p, h)
        PROVE  DeskIInv'
    BY <2>2, HandlerCodes, CallKeeps DEF CallChat, Formats, Files
  <2> QED BY <1>2, <2>1, <2>2, RecordKeeps, FaultKeeps, LeavesDesk DEF Request
<1> QED BY <1>1, <1>2 DEF DeskNext

(* The calls under way, the access log and what was handed over are what   *)
(* members asked for, in every behaviour of the office.                    *)
THEOREM OfficeDesk == Spec => []DeskIInv
<1>1. Init => DeskInit
  BY DEF Init
<1>2. [Next]_officeVars => [DeskNext]_deskVars
  BY DEF Next, Roster, Joining, Books, Desk, officeVars
<1> QED BY <1>1, <1>2, DeskStarts, DeskStep, PTL DEF Spec

(* Calls, the access log and what was handed over keep their types          *)
(* (app/modules/reports).                                                   *)
THEOREM OfficeDeskTypes == Spec => []DeskTypeOK
<1>1. DeskIInv => DeskTypeOK
  BY DEF DeskIInv, DeskTypes, DeskTypeOK, Requests, Codes
<1> QED BY <1>1, OfficeDesk, PTL

(* What is handed over is what was asked for, and on record unless two     *)
(* writes of the log failed, whatever happens to the roster meanwhile      *)
(* (record_report_access retries once on a session of its own).            *)
THEOREM OfficeDelivers == Spec => []SoundDelivery
BY OfficeDesk, PTL DEF DeskIInv

-------------------------------------------------------------------------------
(***************************************************************************)
(* The books of the office, and everything it keeps.                       *)
(***************************************************************************)
(* The books change by the clerks' steps only, so what these keep holds of *)
(* every behaviour of the office.                                          *)
THEOREM OfficeBooks == Spec => []LedgerIInv
<1>1. Init => LedgerInit
  BY DEF Init
<1>2. [Next]_officeVars => [LedgerNext]_ledgerVars
  BY DEF Next, Roster, Joining, Books, Desk, officeVars
<1> QED BY <1>1, <1>2, LedgerStarts, LedgerStep, PTL DEF Spec

(* Whatever integers the clerks type, what came in kind is not returned in *)
(* money; no more of a contribution goes back than was given, unless two   *)
(* clerks returned some of it at the same time; and then by no more than   *)
(* one return for every further clerk                                      *)
(* (contribution_refund_service sums the rows without a lock and tests the *)
(* sum from above only).                                                   *)
THEOREM OfficeGifts == Spec => []GiftsNotOverReturned
BY GiftsHold, OfficeBooks, PTL

(* The reports agree with the money that changed hands and with one        *)
(* another, up to what each leaves out, for any number of events, flats,   *)
(* blocks, contributions and expenses (app/modules/reports).               *)
THEOREM OfficeReports == Spec => []ReportsReconcile
BY OfficeBooks, LedgerReconciles, PTL

(* Types of everything the office keeps.                                   *)
THEOREM OfficeTyped == Spec => []OfficeTypeOK
<1>1. Spec => []RosterTypeOK
  BY OfficeKeepsRoster, RosterTyped, PTL
<1>2. Spec => []JoinTypeOK
  BY OfficeKeepsJoining, JoinInvariance, JoinTyped, PTL
<1>3. Spec => []LedgerTypeOK
  BY OfficeBooks, LedgerTyped, PTL
<1>4. Init => day \in Days
  BY DEF Init
<1>5. day \in Days /\ [Next]_officeVars => (day \in Days)'
  BY DEF Next, Roster, Joining, Books, Desk, officeVars
<1>6. Spec => [](day \in Days)
  BY <1>4, <1>5, PTL DEF Spec
<1> QED BY <1>1, <1>2, <1>3, <1>6, OfficeDeskTypes, PTL DEF OfficeTypeOK
===============================================================================
