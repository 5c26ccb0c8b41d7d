------------------------------ MODULE NoticeBook ------------------------------
(* What an announcement promises its recipients: a notice is on record as     *)
(* delivered only once the provider has taken it, and what was taken or put   *)
(* on record stays so.                                                         *)
CONSTANT Members

VARIABLES taken,    \* members whose notice the provider has taken
          recorded  \* members whose notice is on record as delivered

vars == <<taken, recorded>>

Init == taken = {} /\ recorded = {}

(* The provider takes a notice, whether or not the sender learns of it. *)
Take(m) == /\ m \in Members
           /\ taken' = taken \cup {m}
           /\ UNCHANGED recorded

(* Only a notice that was taken is recorded. *)
Record(m) == /\ m \in taken
             /\ recorded' = recorded \cup {m}
             /\ UNCHANGED taken

Next == \E m \in Members : Take(m) \/ Record(m)

Spec == Init /\ [][Next]_vars

(* What is on record is true. *)
RecordIsTrue == recorded \subseteq taken /\ taken \subseteq Members
===============================================================================
