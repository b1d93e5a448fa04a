CONSTANTS
  MaxRecs <- MC_MaxRecs
  ASz <- MC_ASz
  NoData = NoData
SPECIFICATION FairSpec
INVARIANTS TypeOK StreamComplete
PROPERTIES StreamRefinement ReadToTheEnd
CHECK_DEADLOCK FALSE
