SPECIFICATION Spec
CONSTANTS
  word = word
  standard = standard
  u1 = u1
  u2 = u2
  Kinds = {"Date"}
  MaxSafe = 4
  ColumnMax = 7
  Second = 2
  Minute = 4
  Day = 8
  Zone <- MCWest
  Texts <- MCTexts
  Empty = Empty
  Fallback = standard
  Ids = {u1, u2}
  Fraction = Fraction
  NegativeZero = NegativeZero
  Null = Null
  Other = Other
  Malformed = Malformed
  Contents <- Anything
  Wire <- Sent
  None = None
INVARIANTS
  SavedIsShown
