--------------------------- MODULE MCFoodCollection ---------------------------
(* FoodCollection in the first year of the society. *)
EXTENDS FoodCollection

CONSTANTS s1, s2, s3

(* No flat was handed a plate without a token at an earlier event. *)
NoneEarlier == [f \in Flats |-> 0]
===============================================================================
