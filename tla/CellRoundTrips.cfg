SPECIFICATION Spec
CONSTANTS
  word = word
  standard = standard
  u1 = u1
  u2 = u2
  Kinds = {"Text", "Str", "Bool", "UUID", "Int", "Num", "Ints", "Time", "TimeLocal", "Date", "TimeOfDay"}
  MaxSafe = 4
  ColumnMax = 7
  Second = 2
  Minute = 4
  Day = 8
  Zone = 2
  Texts <- MCTexts
  Empty = Empty
  Fallback = standard
  Ids = {u1, u2}
  Fraction = Fraction
  NegativeZero = NegativeZero
  Null = Null
  Other = Other
  Malformed = Malformed
  Contents <- Anything
  Wire <- Sent
  None = None
INVARIANTS
  TypeOK
  SavedIsShown
PROPERTIES
  UntouchedIsUnreported
  UntouchedIsKept
