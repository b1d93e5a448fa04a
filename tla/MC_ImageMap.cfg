CONSTANTS
  MaxAddr = 4
  Bytes = {0, 1}
  Names <- MC_Names
  MappingNames = {"$x"}
  BinFiles <- MC_BinFiles
  Elves <- MC_Elves
  NmLists <- MC_NmLists
  Loads = {0, 1}
  Offsets = {0, 1}
  Sizes = {None, 1}
  WordSizes = {2}
  WriteData <- MC_WriteData
  MaxOps = 4
  None = None
SPECIFICATION Spec
INVARIANTS
  TypeOK
  SymLookupCurrent
\* A client stops after MaxOps calls.
CHECK_DEADLOCK FALSE
