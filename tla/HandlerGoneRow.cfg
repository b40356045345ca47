SPECIFICATION Spec
CONSTANTS
  r1 = r1
  r2 = r2
  r3 = r3
  i1 = i1
  i2 = i2
  x = x
  y = y
  draft = draft
  final = final
  pic = pic
  title = title
  note = note
  state = state
  names = names
  cover = cover
  gallery = gallery
  rank = rank
  extra = extra
  Null = Null
  Absent = Absent
  None = None
  KeyedMaps <- MCKeyedMaps
  IdLists <- MCIdLists
  Policy = "allow"
  Admits <- MCAdmits
  Requests = {r1, r2}
  Ids = {i1, i2}
  InitialIds = {i1}
  Seed <- MCSeed
  BlankRow <- MCBlank
  Put <- MCPut
  Bodies <- MCTied
  Disabled = {}
  Schema <- MCSchema
  Prepares <- MCPrepares
  MaxOpen = 2
INVARIANT
  SuccessShowsARow
