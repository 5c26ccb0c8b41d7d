CONSTANTS
  Threads = {t1, t2}
  Setups <- Pairs
  MaxAsked = 2
  MaxEvents = 2
CHECK_DEADLOCK FALSE
SPECIFICATION FairSpec
INVARIANTS
  TypeOK
  CarriedOnceWhenAlone
  CompleteWhenAlone
PROPERTIES
  MemberDialoguesEnd
