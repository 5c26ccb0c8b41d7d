CONSTANTS
  s1 = s1
  s2 = s2
  r1 = r1
  r2 = r2
  Sessions = {s1, s2}
  Flats = {f1}
  Amounts = {1}
  Totals = {2}
  RequestIds = {r1}
  NoRequest = NoRequest
  MaxReceipts = 2
  Reached = {"ACTIVE", "CLOSED"}
SPECIFICATION FairSpec
INVARIANTS
  TypeOK
  OneAccountPerPass
  PaidNeverExceedsReceipts
  RefundedNeverExceedsReceipts
  ApprovedIsSettled
PROPERTIES
  ImplementsFlatAccount
  HandlersEnd
