SPECIFICATION Spec
CONSTANTS
  Messages <- MCMessages
  StatusCodes <- MCStatusCodes
  ContentLengths <- MCContentLengths
  TransferEncodings <- MCTransferEncodings
  OtherHeaders <- MCOtherHeaders
  ChunkSizes <- MCChunkSizes
  MayClose = TRUE
  Scenarios <- MCScenarios
  OptionNames <- MCOptionNames
  Lower <- MCLower
  Urls <- MCUrls
  MaxLine = 4
INVARIANTS TypeOK ConnectsAsAsked RequestFaithful ExitReports ResponseExact InexactOnlyAtEof
PROPERTIES Exits Responds
