CONSTANTS
  s1 = s1
  s2 = s2
  s3 = s3
  Sessions = {s1, s2}
  Flats = {f1}
  MaxPlates = 1
  Counts = {1}
  Earlier <- NoneEarlier
  Reached = {"ACTIVE", "EVENT_DAY"}
SPECIFICATION Spec
PROPERTY NoTokenPlateIsEntitled
