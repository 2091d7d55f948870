SPECIFICATION Spec
CONSTANTS
  StaticTable <- MCStaticTable
  DefaultMaxSize = 240
  HuffmanText <- MCHuffmanText
  Items <- MCItems
  Requests <- MCRequests
  MaxItems = 2
  Overflowed <- MCOverflowed
  MaxCut = 30
INVARIANTS TypeOK EncodedAsRfc
PROPERTIES Advances DecodesBlock
