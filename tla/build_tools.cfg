SPECIFICATION MCSpec
CONSTANTS
  Tokens <- AllTokens
  Indexes <- SomeIndexes
  Templates <- SomeTemplates
  Filters <- SomeFilters
  Bindings = {b1, b2}
  Dirs = {cuda, old}
  Names = {add}
  MaxVersion = 4
INVARIANTS
  TypesOK
  ExportRight
  DescriptionRight
  ScrapeRight
  OwnWords
  NothingUnsaid
  CommittedInSync
CHECK_DEADLOCK FALSE
