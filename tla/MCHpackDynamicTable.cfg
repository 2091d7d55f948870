SPECIFICATION Spec
CONSTANTS
  short = short
  long = long
  empty = empty
  text = text
  Names <- MCNames
  Values <- MCValues
  NameSize <- MCNameSize
  ValueSize <- MCValueSize
  StaticTable <- MCStaticTable
  MaxSizes <- MCMaxSizes
  DefaultMaxSize = 110
INVARIANTS TypeOK SizeTracked WithinLimit
PROPERTY ImplementsRfc7541
