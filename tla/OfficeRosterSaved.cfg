SPECIFICATION Spec
CONSTANTS
  p1 = p1
  p2 = p2
  p3 = p3
  f1 = f1
  f2 = f2
  People = {p1, p2, p3}
  FirstRolls <- Rolls
  Nobody = nobody
  MenuRoles = {"chairman", "treasurer"}
  MaxTaps = 6
  Newcomers = {n1, n2}
  Flats = {f1, f2}
  Workers = {w1, w2}
  MaxJoins = 4
  MaxCrashes = 1
  NumEvents = 2
  Clerks = {p1, p2}
  ClerkRole <- RoleOfClerk
  Accounts <- FirstAccounts
  Amounts = {1, 2}
  SponsorAmounts <- Typed
  Largest = 2
  Stages = {"ACTIVE", "CLOSED"}
  MaxEntries = 3
  BlockOf <- Blocks
  TitleOf <- Titles
  KnownEvent = TRUE
  AuditReaders = {"chairman"}
  MaxCalls = 1
  MaxFaults = 2
  Days <- WorkingDays
INVARIANT RepliesTrue
CHECK_DEADLOCK FALSE
