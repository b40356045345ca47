SPECIFICATION Spec
CONSTANTS
  c1 = c1
  c2 = c2
  c3 = c3
  i1 = i1
  i2 = i2
  title = title
  cover = cover
  tags = tags
  notes = notes
  key = key
  en = en
  ru = ru
  x = x
  y = y
  z = z
  nil = nil
  Calls = {c1, c2, c3}
  Ids = {i1, i2}
  InitialIds = {i1}
  Plain = {title}
  DeferredCols = {cover}
  Lists = {tags, notes}
  Rels = {tags}
  Keyed = {notes}
  Resolves = {tags}
  Resolve <- MCResolve
  Keys = {EmptyKey, en, ru}
  EmptyKey = EmptyKey
  KeyRank <- MCKeyRank
  Whole = Whole
  Reread = Reread
  Rank <- MCRank
  Values = {x, y, z, nil}
  Text <- MCText
  Null = Null
  Bad = Bad
  HookRow <- MCHookRow
  Payloads <- MCPayloads
  Seed <- MCSeed
  MaxOpen = 2
  LossyCommit = FALSE
  NoBody = NoBody
  Absent = Absent
  None = None
INVARIANTS
  WholeLists
  JournalTellsTheTruth
PROPERTY
  KeepsContract
ACTION_CONSTRAINT
  AloneNext
SYMMETRY
  Anonymous
