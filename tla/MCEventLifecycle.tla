--------------------------- MODULE MCEventLifecycle ---------------------------
(* EventLifecycle with two chat sessions. *)
EXTENDS EventLifecycle

CONSTANTS s1, s2
===============================================================================
