CONSTANTS
  m1 = m1
  m2 = m2
  m3 = m3
  p1 = p1
  p2 = p2
  Members = {m1, m2, m3}
  Phones = {p1, p2}
  PhoneOf <- SharedPhones
  NoPhone = NoPhone
  NoRow = NoRow
  Active = {m1, m2, m3}
  Paid = {m1, m3}
  Threads = {t1, t2}
  MaxAttempts = 2
  BatchSize = 2
  Setups <- Small
  MaxJobs = 2
CHECK_DEADLOCK FALSE
SPECIFICATION FairSpec
INVARIANTS
  TypeOK
  ToldOnceWhenAlone
  TriedWithinLimitWhenAlone
  SummaryOneBehindWhenAlone
PROPERTIES
  ImplementsNoticeBook
  DeliveriesSettle
