CONSTANTS
  MaxRecs <- MC_MaxRecs
  ASz <- MC_ASz
  NoData = NoData
SPECIFICATION Spec
INVARIANT RecordsAsWritten
CHECK_DEADLOCK FALSE
