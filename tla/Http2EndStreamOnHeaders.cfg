SPECIFICATION FairSpec
CONSTANTS
  status = status
  ctype = ctype
  custom = custom
  v200 = v200
  text = text
  none = none
  Names <- MCNames
  Values <- MCValues
  NameSize <- MCNameSize
  ValueSize <- MCValueSize
  StaticTable <- MCStaticTable
  DefaultMaxSize = 84
  StatusBase = status
  Stoi <- MCStoi
  Codes <- MCCodes
  AlpnOutcomes = {"h2"}
  VerboseChoices = {FALSE}
  Requests <- Short
  MaxPayload = 2
  Cap = 2
  Replies <- EmptyBodies
  MaxFrame = 2
  W = 3
  HeaderFlags <- NoFlags
  EmptyBodyEnd = {"headers"}
  Extra <- NoExtra
  LateExtra = FALSE
  DataPadding = {FALSE}
  EmptyData = FALSE
  MayPush = FALSE
  MaxExtra = 0
  MayClose = FALSE
PROPERTY Ends
CHECK_DEADLOCK FALSE
