CONSTANTS
  s1 = s1
  s2 = s2
  s3 = s3
  Sessions = {s1, s2}
  Flats = {f1}
  MaxPlates = 2
  Counts = {2}
  Earlier <- NoneEarlier
  Reached = {"ACTIVE", "EVENT_DAY"}
SPECIFICATION FairSpec
INVARIANTS
  TypeOK
  PlatesAreOnRecord
  OverrunIsBounded
PROPERTIES
  ImplementsPlateBook
  HandlersEnd
