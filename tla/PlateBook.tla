------------------------------- MODULE PlateBook -------------------------------
(***************************************************************************)
(* What the food counter promises: the tokens of an event are issued once, *)
(* all together, and every plate handed out goes on record as exactly one  *)
(* token used up or one plate without a token.                             *)
(***************************************************************************)
EXTENDS Integers

CONSTANTS Flats, TokenIds  \* a token names its flat first

VARIABLES issued,  \* tokens of the event
          used,    \* tokens a plate was handed out for
          manual,  \* manual[f]: plates handed out without a token
          handed   \* handed[f]: plates handed out to the flat

vars == <<issued, used, manual, handed>>

Init ==
  /\ issued = {}
  /\ used = {}
  /\ manual = [f \in Flats |-> 0]
  /\ handed = [f \in Flats |-> 0]

Issue ==
  /\ issued = {}
  /\ issued' \in SUBSET TokenIds
  /\ UNCHANGED <<used, manual, handed>>

Use(t) ==
  /\ t \in issued \ used
  /\ used' = used \cup {t}
  /\ handed' = [handed EXCEPT ![t[1]] = @ + 1]
  /\ UNCHANGED <<issued, manual>>

HandWithoutToken(f) ==
  /\ manual' = [manual EXCEPT ![f] = @ + 1]
  /\ handed' = [handed EXCEPT ![f] = @ + 1]
  /\ UNCHANGED <<issued, used>>

Next ==
  \/ Issue
  \/ \E t \in TokenIds : Use(t)
  \/ \E f \in Flats : HandWithoutToken(f)

Spec == Init /\ [][Next]_vars
===============================================================================
