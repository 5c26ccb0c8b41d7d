CONSTANTS
  m1 = m1
  m2 = m2
  s1 = s1
  c1 = c1
  c2 = c2
  c3 = c3
  Messages = {m1, m2}
  Senders = {s1}
  SenderOf <- Sent
  Calls = {c1, c2, c3}
  Content <- Carried
  Limited = {c2, c3}
  Provider = Provider
  MaxRequests = 1
  MaxMessages = 1
  NoEnvelope = NoEnvelope
  MaxEnvelopes = 2
  MaxFaults = 2
CHECK_DEADLOCK FALSE
SPECIFICATION FairSpec
INVARIANTS
  TypeOK
  NothingVanishes
  StatusIsTrue
PROPERTIES
  ImplementsMessageLog
  ClaimedSettles
