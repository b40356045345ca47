SPECIFICATION FairSpec
CONSTANTS
  c1 = c1
  c2 = c2
  p1 = p1
  p2 = p2
  en = en
  ru = ru
  noKey = noKey
  a = a
  b = b
  f = f
  g = g
  n1 = n1
  n2 = n2
  n3 = n3
  n4 = n4
  title = title
  note = note
  text = text
  x = x
  y = y
  Calls = {c1, c2}
  Parents = {p1, p2}
  Keys = {en, ru}
  EmptyKey = noKey
  KeyRank <- MCKeyRank
  Ids = {a, b, f, g, n1, n2, n3, n4}
  Cells = {title, note, text}
  Values = {x, y}
  Null = Null
  Bad = Bad
  NoId = NoId
  Patches <- MCPatches
  Locking <- Varied
  InitialRows <- MCRows
  MaxOpen = 2
  Absent = Absent
  None = None
INVARIANTS
  TypeOK
  RowsStayHome
PROPERTIES
  ListsAsSent
  UnsentIsUntouched
  OthersUntouched
  EchoIsCommitted
  EverySaveReturns
ACTION_CONSTRAINT
  Selected
