SPECIFICATION MCSpec
CONSTANTS
  Lists = {aList}
  SetColls = {aSet}
  Maps = {aMap}
  aList = aList
  aSet = aSet
  aMap = aMap
  Elements = {1, 2}
  InitialHeaps <- Few
  MaxSize = 3
  MaxDepth = 2
  Budget = 3
  EqualsMayAct = TRUE
  EachOps = {"flatMap", "filter", "exists"}
  IntMax = 127
  MaxAlignment = 3
  ScaleMax = 3
  IntDigits = 3
  RangeInputs <- MCRanges
  PowInputs <- MCPowInputs
  IntPairs <- MCIntPairs
  Decimals <- MCDecimals
  Operands <- MCOperands
  Scales <- MCScales
  FileContents <- MCFileContents
  Offsets <- MCOffsets
  MaxOffset = 6
  MaxRead = 2
  MaxFaults = 2
INVARIANTS
  LibraryTypeOK
  OnlyEqualsDisturbs
  HandedOutOnce
  RangeYieldsProgression
  NumbersAreExact
  FilesReadAlike
PROPERTIES
  RangeAdvances
  SortPermutes
