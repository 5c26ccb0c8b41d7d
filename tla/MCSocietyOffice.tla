--------------------------- MODULE MCSocietyOffice ---------------------------
EXTENDS SocietyOffice, TLC

CONSTANTS p1, p2, p3, f1, f2

(* Two chairmen and an empty row, or one of three roles each. *)
Rolls ==
  {p1 :> "chairman" @@ p2 :> "chairman" @@ p3 :> NoRole,
   p1 :> "chairman" @@ p2 :> "treasurer" @@ p3 :> "secretary"}

(* The clerks of the books are p1 and p2: one may override, one may not. *)
RoleOfClerk == p1 :> "chairman" @@ p2 :> "committee_member"

Blocks == f1 :> "A" @@ f2 :> "B"

(* Two spellings of one expense. *)
Titles == "hall" :> "Hall" @@ "HALL" :> "Hall"

FirstAccounts ==
  f1 :> [due |-> 3, joined |-> TRUE, paid |-> 0, refunds |-> <<>>]
  @@ f2 :> [due |-> 0, joined |-> FALSE, paid |-> 0, refunds |-> <<>>]

(* What the clerks type for a contribution or a return; 2 is the largest. *)
Typed == {-1, 0, 1, 2}

DayOf(t, j, e, c) == [taps |-> t, joins |-> j, entries |-> e, calls |-> c]

WorkingDays == {DayOf(6, 0, 0, 0), DayOf(0, 4, 0, 0), DayOf(0, 0, 3, 0), DayOf(1, 0, 0, 1)}
==============================================================================
