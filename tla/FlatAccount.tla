------------------------------ MODULE FlatAccount ------------------------------
(***************************************************************************)
(* What the payment and refund services promise a flat about its money:    *)
(* the account never shows more than was received, and money is returned   *)
(* only as long as all returns together are covered by what it shows.      *)
(* Receiving may lose some of what an earlier payment showed (payments are *)
(* recorded without a lock); nothing but receiving changes what is shown.  *)
(***************************************************************************)
EXTENDS Integers

CONSTANTS Flats, Amounts

VARIABLES received,  \* received[f]: money received from the flat
          shown,     \* shown[f]: what the account shows as paid
          returned   \* returned[f]: money returned to the flat

vars == <<received, shown, returned>>

Init ==
  /\ received = [f \in Flats |-> 0]
  /\ shown = [f \in Flats |-> 0]
  /\ returned = [f \in Flats |-> 0]

Receive(f, amount) ==
  /\ received' = [received EXCEPT ![f] = @ + amount]
  /\ \E sum \in 0..received'[f] : shown' = [shown EXCEPT ![f] = sum]
  /\ UNCHANGED returned

Return(f, amount) ==
  /\ returned[f] + amount <= shown[f]
  /\ returned' = [returned EXCEPT ![f] = @ + amount]
  /\ UNCHANGED <<received, shown>>

Next == \E f \in Flats, amount \in Amounts : Receive(f, amount) \/ Return(f, amount)

Spec == Init /\ [][Next]_vars
===============================================================================
