SPECIFICATION Spec
CONSTANTS
  a = a
  b = b
  en = en
  ru = ru
  main = main
  extra = extra
  small = small
  large = large
  p = p
  q = q
  Names = {a, b}
  Keys = {en, ru}
  Choices <- MCChoices
  NullValue = NullValue
  NoName = NoName
  Registries <- MCRegistries
  Typo = Typo
  NoGroup = NoGroup
  Cells <- MCCells
  Blocks <- MCBlocks
  Requests = {p, q}
  Locales = {en, ru}
  Locale <- MCLocale
  Unlabelled = Unlabelled
  MaxEntries = 2
  MaxEffort = 2
INVARIANTS
  TypeOK
  SentIsParsed
  FormIsAccepted
  EveryFieldShown
  OwnWordsOnly
ACTION_CONSTRAINT Promising
CHECK_DEADLOCK FALSE
