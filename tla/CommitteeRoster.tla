---------------------------- MODULE CommitteeRoster ----------------------------
(***************************************************************************)
(* The committee of a society: the rows of committee_members, the guided   *)
(* menu by which a member of the committee adds, removes or re-roles       *)
(* another, and the typed commands of the same effect.                     *)
(*                                                                         *)
(* The menu keeps, per sender and in memory only, the action under way and *)
(* the member and role tapped so far; a "yes" acts on what is kept at that *)
(* moment.  Lists and questions sent earlier stay on the sender's screen,  *)
(* so any of their rows may be tapped at any time.  What a "yes" reads and *)
(* the commit of what it decided are two steps: the sessions of two        *)
(* members see each other's work only once it is committed.                *)
(***************************************************************************)
EXTENDS SocietyRules, Naturals, FiniteSets

CONSTANTS
  People,     \* phone numbers, each a sender and at most one committee row
  FirstRolls, \* the committees a behaviour may start with: a role each
  Nobody,     \* no phone number
  MenuRoles,  \* the roles the list of the menu offers
  MaxTaps     \* bound: taps and typed commands in a behaviour

ASSUME RosterAssumption ==
  /\ FirstRolls \subseteq [People -> Roles \cup {NoRole}]
  /\ \A roll \in FirstRolls : \E p \in People : roll[p] = "chairman"
  /\ Nobody \notin People
  /\ MenuRoles \subseteq Roles
  /\ MaxTaps \in Nat

VARIABLES
  roster,     \* roster[p]: the row of phone number p, role NoRole if none
  dialogue,   \* dialogue[p]: what the menu keeps of sender p
  asked,      \* asked[p]: the last "Confirm" question sent to p
  hand,       \* hand[p]: the checked change p's session is about to commit
  misled,     \* TRUE once a sender was told of a change the rows do not have
  together,   \* TRUE once two sessions had a checked change in hand
  taps        \* taps and commands so far

rosterVars == <<roster, dialogue, asked, hand, misled, together, taps>>

Actions == {"ADD", "REMOVE", "CHANGE_ROLE"}

(* CommitteeManagementSessionState; NoDialogue when the sender has none. *)
Dialogues ==
  [action : Actions, member : People \cup {Nobody}, role : Roles \cup {NoRole}]

NoDialogue == [action |-> "NONE", member |-> Nobody, role |-> NoRole]

Idle == NoDialogue

NoRow == [role |-> NoRole, active |-> FALSE]

InCommittee == {p \in People : roster[p].active}

Chairmen == {p \in InCommittee : roster[p].role = "chairman"}

(* chairman_count <= 1, asked of a chairman. *)
LastChairman(m) == Chairmen = {m}

RosterInit ==
  /\ roster \in {[p \in People |-> [role |-> roll[p], active |-> roll[p] # NoRole]] :
                   roll \in FirstRolls}
  /\ dialogue = [p \in People |-> NoDialogue]
  /\ asked = [p \in People |-> NoDialogue]
  /\ hand = [p \in People |-> Idle]
  /\ misled = FALSE
  /\ together = FALSE
  /\ taps = 0

(* A message of an active committee member, who waits for its handler.     *)
Tap(p) ==
  /\ p \in InCommittee
  /\ hand[p] = Idle
  /\ taps < MaxTaps
  /\ taps' = taps + 1

Keep(p, d) ==
  /\ dialogue' = [dialogue EXCEPT ![p] = d]
  /\ UNCHANGED <<roster, hand, misled, together>>

View(p) == Tap(p) /\ Keep(p, NoDialogue) /\ UNCHANGED asked

(* Variant: the menu reuses what it kept of an earlier action. *)
BeginKept(p, action) ==
  /\ Tap(p)
  /\ Keep(p, [dialogue[p] EXCEPT !.action = action])
  /\ UNCHANGED asked

Begin(p, action) ==
  /\ Tap(p)
  /\ Keep(p, [NoDialogue EXCEPT !.action = action])
  /\ UNCHANGED asked

(***************************************************************************)
(* A row of the list of members.  To add, any identity is taken as it is;  *)
(* to remove or re-role, the member must still be active.  Only a removal  *)
(* is confirmed next, the others ask for a role first.                     *)
(***************************************************************************)
SelectMember(p, m) ==
  LET d == [dialogue[p] EXCEPT !.member = m] IN
  /\ Tap(p)
  /\ dialogue[p].action \in Actions
  /\ dialogue[p].action # "ADD" => m \in InCommittee
  /\ Keep(p, d)
  /\ asked' = IF d.action = "REMOVE" THEN [asked EXCEPT ![p] = d] ELSE asked

SelectRole(p, r) ==
  LET d == [dialogue[p] EXCEPT !.role = r] IN
  /\ Tap(p)
  /\ dialogue[p].action \in {"ADD", "CHANGE_ROLE"}
  /\ Keep(p, d)
  /\ asked' = [asked EXCEPT ![p] = d]

ConfirmNo(p) ==
  /\ Tap(p)
  /\ dialogue[p] # NoDialogue
  /\ Keep(p, NoDialogue)
  /\ UNCHANGED asked

(***************************************************************************)
(* "yes": what the handler reads before it writes.  Refusals drop what was *)
(* kept.                                                                   *)
(***************************************************************************)
(* Variant: an addition needs a role but no member. *)
AcceptsUnnamed(d) ==
  CASE d.action = "ADD" -> d.role # NoRole /\ d.member \notin InCommittee
    [] d.action = "REMOVE" -> d.member \in InCommittee /\ ~LastChairman(d.member)
    [] OTHER -> /\ d.member \in InCommittee
                /\ d.role # NoRole
                /\ d.role # "chairman" => ~LastChairman(d.member)

(* Variant: the last chairman may be given another role. *)
AcceptsNoCount(d) ==
  CASE d.action = "ADD" -> d.member # Nobody /\ d.role # NoRole /\ d.member \notin InCommittee
    [] d.action = "REMOVE" -> d.member \in InCommittee /\ ~LastChairman(d.member)
    [] OTHER -> d.member \in InCommittee /\ d.role # NoRole

Accepts(d) ==
  CASE d.action = "ADD" -> d.member # Nobody /\ d.role # NoRole /\ d.member \notin InCommittee
    [] d.action = "REMOVE" -> d.member \in InCommittee /\ ~LastChairman(d.member)
    [] OTHER -> /\ d.member \in InCommittee
                /\ d.role # NoRole
                /\ d.role # "chairman" => ~LastChairman(d.member)

(* A role set to the value just read: the commit has nothing to write.     *)
SameRole(d) == d.action = "CHANGE_ROLE" /\ d.role = roster[d.member].role

ConfirmSame(p) ==
  /\ Tap(p)
  /\ Accepts(dialogue[p])
  /\ SameRole(dialogue[p])
  /\ Keep(p, NoDialogue)
  /\ UNCHANGED asked

ConfirmYes(p) ==
  /\ Tap(p)
  /\ dialogue[p] # NoDialogue
  /\ ~(Accepts(dialogue[p]) /\ SameRole(dialogue[p]))
  /\ IF Accepts(dialogue[p])
     THEN /\ hand' = [hand EXCEPT ![p] = dialogue[p]]
          /\ together' = (together \/ \E q \in People : hand[q] # Idle)
          /\ UNCHANGED dialogue
     ELSE /\ dialogue' = [dialogue EXCEPT ![p] = NoDialogue]
          /\ UNCHANGED <<hand, together>>
  /\ UNCHANGED <<roster, asked, misled>>

(* The rows after change d. *)
Applied(d) ==
  [roster EXCEPT ![d.member] =
     CASE d.action = "ADD" -> [role |-> d.role, active |-> TRUE]
       [] d.action = "REMOVE" -> [@ EXCEPT !.active = FALSE]
       [] OTHER -> [@ EXCEPT !.role = d.role]]

(* Whether rows r have what the reply to change d says was done.           *)
Made(d, r) ==
  CASE d.action = "ADD" -> r[d.member] = [role |-> d.role, active |-> TRUE]
    [] d.action = "REMOVE" -> ~r[d.member].active
    [] OTHER -> r[d.member].role = d.role

(***************************************************************************)
(* The commit.  A phone number is unique over the rows, removed ones       *)
(* included, so adding one that has a row fails, and the failure leaves    *)
(* the handler without a reply and without clearing what was kept.         *)
(***************************************************************************)
Commit(p) ==
  LET d == hand[p] IN
  /\ d # Idle
  /\ d.action = "ADD" => roster[d.member] = NoRow
  /\ roster' = Applied(d)
  /\ misled' = (misled \/ ~Made(d, roster'))
  /\ hand' = [hand EXCEPT ![p] = Idle]
  /\ dialogue' = [dialogue EXCEPT ![p] = NoDialogue]
  /\ UNCHANGED <<asked, together, taps>>

CommitFails(p) ==
  LET d == hand[p] IN
  /\ d.action = "ADD"
  /\ roster[d.member] # NoRow
  /\ hand' = [hand EXCEPT ![p] = Idle]
  /\ UNCHANGED <<roster, dialogue, asked, misled, together, taps>>

(***************************************************************************)
(* The typed commands: CommitteeMemberService refuses anyone but an active *)
(* chairman, adds or revives a row, never removes or demotes the last      *)
(* chairman.  The service flushes and leaves the commit to its caller; the *)
(* handler replies that the change was saved and closes the session, which *)
(* rolls it back.                                                          *)
(***************************************************************************)
ServiceAccepts(p, d) ==
  /\ p \in Chairmen
  /\ CASE d.action = "ADD" -> d.member \notin InCommittee
       [] d.action = "REMOVE" -> /\ roster[d.member] # NoRow
                                 /\ d.member \in InCommittee => ~LastChairman(d.member)
       [] OTHER -> /\ d.member \in InCommittee
                   /\ d.role # "chairman" => ~LastChairman(d.member)

TextCommand(p, d) ==
  /\ Tap(p)
  /\ ServiceAccepts(p, d)
  /\ misled' = (misled \/ ~Made(d, roster))
  /\ UNCHANGED <<roster, dialogue, asked, hand, together>>

Commands ==
  {[action |-> "REMOVE", member |-> m, role |-> NoRole] : m \in People}
  \cup {[action |-> a, member |-> m, role |-> r] :
          a \in {"ADD", "CHANGE_ROLE"}, m \in People, r \in MenuRoles}

(* What the menu keeps and what a session has in hand are in memory. *)
Restart ==
  /\ \E p \in People : dialogue[p] # NoDialogue \/ hand[p] # Idle
  /\ dialogue' = [p \in People |-> NoDialogue]
  /\ hand' = [p \in People |-> Idle]
  /\ UNCHANGED <<roster, asked, misled, together, taps>>

Menu(p) ==
  \/ View(p)
  \/ \E a \in Actions : Begin(p, a)
  \/ \E m \in People : SelectMember(p, m)
  \/ \E r \in MenuRoles : SelectRole(p, r)
  \/ ConfirmNo(p)
  \/ ConfirmSame(p)
  \/ ConfirmYes(p)
  \/ Commit(p)
  \/ CommitFails(p)

RosterNext ==
  \/ \E p \in People : Menu(p)
  \/ \E p \in People, d \in Commands : TextCommand(p, d)
  \/ Restart

RosterSpec == RosterInit /\ [][RosterNext]_rosterVars

-------------------------------------------------------------------------------
(* Types: a row has a role exactly when it exists, an active row exists,   *)
(* and a change in hand names a member (committee_members, the session).   *)
RosterTypeOK ==
  /\ roster \in [People -> [role : Roles \cup {NoRole}, active : BOOLEAN]]
  /\ \A p \in InCommittee : roster[p].role # NoRole
  /\ dialogue \in [People -> Dialogues \cup {NoDialogue}]
  /\ asked \in [People -> Dialogues \cup {NoDialogue}]
  /\ hand \in [People -> Dialogues \cup {Idle}]
  /\ \A p \in People : hand[p] # Idle => hand[p].member \in People
  /\ misled \in BOOLEAN
  /\ together \in BOOLEAN
  /\ taps \in 0..MaxTaps

(* As long as no two members confirmed at the same time, the committee     *)
(* keeps a chairman: every removal and demotion counts the chairmen first. *)
ChairmanRemains == together \/ Chairmen # {}

(* A member about to be removed by a "yes" is the one named by the last    *)
(* question the sender was asked, whatever rows of older lists were tapped *)
(* in between and whatever restarts came (ui_router, the shared session).  *)
RemovalAsAsked ==
  \A p \in People : hand[p].action = "REMOVE" => asked[p] = hand[p]

(* Who is told that a change of the committee was made can rely on it: the *)
(* rows have it when the reply is sent.                                    *)
RepliesTrue == ~misled
===============================================================================
