SPECIFICATION FairSpec
CONSTANTS
  status = status
  ctype = ctype
  custom = custom
  v200 = v200
  text = text
  none = none
  Names <- MCNames
  Values <- MCValues
  NameSize <- MCNameSize
  ValueSize <- MCValueSize
  StaticTable <- MCStaticTable
  DefaultMaxSize = 84
  StatusBase = status
  Stoi <- MCStoi
  Codes <- MCCodes
  AlpnOutcomes = {"h2", "other", "none", "error"}
  VerboseChoices = {FALSE, TRUE}
  Requests <- Fragmented
  MaxPayload = 2
  Cap = 2
  Replies <- Mixed
  MaxFrame = 2
  W = 3
  HeaderFlags <- AnyFlags
  EmptyBodyEnd = {"data"}
  Extra <- Strange
  LateExtra = TRUE
  DataPadding = {FALSE, TRUE}
  EmptyData = FALSE
  MayPush = TRUE
  MaxExtra = 1
  MayClose = TRUE
INVARIANTS WindowsConserved ResponseFaithful ClientConforms
PROPERTY Ends
