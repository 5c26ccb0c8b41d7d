------------------------ MODULE MCAnnouncementDelivery ------------------------
(* Three members of one society, two of whom share a WhatsApp id.             *)
EXTENDS AnnouncementDelivery, TLC

CONSTANTS m1, m2, m3, p1, p2

SharedPhones == m1 :> p1 @@ m2 :> p2 @@ m3 :> p1

(* A batch of two deliveries and no fault, or one delivery and one fault. *)
Small == {[backend |-> "local", targets |-> 2, faults |-> 0],
          [backend |-> "local", targets |-> 1, faults |-> 1],
          [backend |-> "rq", targets |-> 1, faults |-> 1]}
===============================================================================
