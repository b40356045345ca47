SPECIFICATION Spec
CONSTANTS
  c1 = c1
  c2 = c2
  c3 = c3
  p1 = p1
  p2 = p2
  noKey = noKey
  en = en
  ru = ru
  words = words
  slugs = slugs
  slug = slug
  title = title
  note = note
  x = x
  y = y
  Parents = {p1}
  Keys = {noKey, en, ru}
  EmptyKey = noKey
  KeyRank <- MCKeyRank
  Tables = {words, slugs}
  TableOf <- MCTableOf
  CellRank <- MCCellRank
  Cells = {title, note, slug}
  Clears <- Policies
  NotNull = {title, slug}
  Texts = {x, y}
  Empty = Empty
  Null = Null
  Other = Other
  Bad = Bad
  Bodies <- HalfCleared
  InitialRows <- MCRows
  Calls = {c1, c2}
  LocksParent = TRUE
  MaxOpen = 2
  Absent = Absent
  None = None
INVARIANTS
  SentFormsAreSaved
