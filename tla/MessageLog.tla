------------------------------ MODULE MessageLog -------------------------------
(* What inbound processing promises about a provider's message: however often *)
(* it is delivered, it is claimed once and takes effect at most once, unless   *)
(* the store of claimed keys has been unavailable.                             *)
EXTENDS Naturals

CONSTANT Messages

VARIABLES claimed,  \* messages whose key is taken
          effects,  \* [Messages -> 0..2]: how often one took effect, up to 2
          outage    \* the store has been unavailable

vars == <<claimed, effects, outage>>

Init == claimed = {} /\ effects = [m \in Messages |-> 0] /\ outage = FALSE

Claim(m) == /\ m \notin claimed
            /\ claimed' = claimed \cup {m}
            /\ UNCHANGED <<effects, outage>>

TakeEffect(m) == /\ outage \/ (m \in claimed /\ effects[m] = 0)
                 /\ effects' = [effects EXCEPT ![m] = IF @ < 2 THEN @ + 1 ELSE @]
                 /\ UNCHANGED <<claimed, outage>>

Fail == outage' = TRUE /\ UNCHANGED <<claimed, effects>>

Next == (\E m \in Messages : Claim(m) \/ TakeEffect(m)) \/ Fail

Spec == Init /\ [][Next]_vars

(* Nobody's command is carried out twice. *)
AtMostOnce == ~outage => \A m \in Messages : effects[m] <= 1
===============================================================================
