SPECIFICATION Spec
CONSTANTS
  status = status
  ctype = ctype
  custom = custom
  ok = ok
  text = text
  none = none
  Names <- MCNames
  Values <- MCValues
  NameSize <- MCNameSize
  ValueSize <- MCValueSize
  StaticTable <- MCStaticTable
  DefaultMaxSize = 84
  Pseudo <- MCPseudo
  Sendable <- NonEmptyHeaders
  Encodings <- StaticEncodings
  MaxHeaders = 3
  MaxSizes <- MCMaxSizes
INVARIANTS TypeOK DecodedAsSent LegalBlockDecodes TablesAgree
