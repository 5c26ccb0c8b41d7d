----------------------------- MODULE SocietyRules -----------------------------
(***************************************************************************)
(* The static policy every service of the agent consults: the states of an *)
(* event, the actions each state allows, the committee roles, and the      *)
(* decision the workflow engine takes.  These are pure operators; the      *)
(* modules that model services EXTEND this one.                            *)
(***************************************************************************)

EventStates == {"DRAFT", "ACTIVE", "LOCKED", "EVENT_DAY", "CLOSED"}

(* The money movements LOCKED and EVENT_DAY share with ACTIVE. *)
MoneyActions == {"ADD_EXPENSE", "ADD_CONTRIBUTION", "REQUEST_PAYMENT",
                 "REQUEST_REFUND", "REFUND_CONTRIBUTION"}

STATE_RULES ==
  [DRAFT     |-> {"CREATE_EVENT", "ACTIVATE_EVENT"},
   ACTIVE    |-> MoneyActions \cup {"ADD_PASS", "MARK_PAID", "LOCK_PASSES"},
   LOCKED    |-> MoneyActions \cup {"MARK_PAID", "START_EVENT",
                                    "GENERATE_FOOD_TOKENS"},
   EVENT_DAY |-> MoneyActions \cup {"GENERATE_FOOD_TOKENS", "CLOSE_EVENT",
                                    "OPEN_FOOD_COUNTER", "SERVE_FOOD_TOKEN"},
   CLOSED    |-> {}]

(***************************************************************************)
(* Roles.  NoRole is a sender who is not an active committee member.       *)
(***************************************************************************)

Roles == {"chairman", "secretary", "treasurer", "committee_member"}

NoRole == "resident"

OVERRIDE_ROLES == {"chairman", "secretary", "treasurer"}

(* The roles is_action_allowed accepts for the two money actions. *)
ROLE_ACTIONS ==
  [PAY    |-> {"chairman", "treasurer"},
   REFUND |-> {"chairman", "treasurer"}]

(***************************************************************************)
(* WorkflowEngine.check_action followed by what every caller does with its *)
(* decision: proceed when the state allows the action, proceed with an     *)
(* override (and its audit row) when the performer may override and gave a *)
(* reason, raise otherwise.                                                *)
(***************************************************************************)

Allows(state, action) == action \in STATE_RULES[state]

NeedsOverride(state, action, role, reasonGiven) ==
  /\ ~Allows(state, action)
  /\ role \in OVERRIDE_ROLES
  /\ reasonGiven

MayProceed(state, action, role, reasonGiven) ==
  \/ Allows(state, action)
  \/ NeedsOverride(state, action, role, reasonGiven)
===============================================================================
