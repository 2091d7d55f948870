SPECIFICATION FairSpec
CONSTANTS
  status = status
  ctype = ctype
  custom = custom
  v200 = v200
  text = text
  none = none
  Names <- MCNames
  Values <- MCValues
  NameSize <- MCNameSize
  ValueSize <- MCValueSize
  StaticTable <- MCStaticTable
  DefaultMaxSize = 84
  StatusBase = status
  Stoi <- MCStoi
  Codes <- MCCodes
  AlpnOutcomes = {"h2"}
  VerboseChoices = {FALSE}
  Requests <- Fragmented
  MaxPayload = 2
  Cap = 3
  Replies <- Bodies
  MaxFrame = 2
  W = 3
  HeaderFlags <- AnyFlags
  EmptyBodyEnd = {"data"}
  Extra <- MCExtra
  LateExtra = FALSE
  DataPadding = {FALSE}
  EmptyData = FALSE
  MayPush = FALSE
  MaxExtra = 2
  MayClose = FALSE
INVARIANTS TypeOK WindowsConserved ResponseFaithful ClientConforms RequestIntact
PROPERTIES HandshakeFirst Responds
