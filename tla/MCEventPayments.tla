---------------------------- MODULE MCEventPayments ----------------------------
(* EventPayments on one flat: sessions of different flats share no row. *)
EXTENDS EventPayments

CONSTANTS s1, s2, r1, r2
===============================================================================
