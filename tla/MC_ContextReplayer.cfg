CONSTANTS
  fA = fA
  fB = fB
  nA = nA
  NoProc = NoProc
  NoName = NoName
  NoMap = NoMap
  i1 = i1
  i2 = i2
  c0 = c0
  c1 = c1
  NoTime = NoTime
  Cpus <- MC_Cpus
  HistLen <- MC_HistLen
  FileMaps <- MC_FileMaps
  NoId = NoId
  NoFile = NoFile
  Anon = fB
  BuildIds <- MC_BuildIds
  BuildIdHdr <- MC_BuildIdHdr
  DiskId <- MC_DiskId
  CacheFiles <- MC_CacheFiles
  Pids <- MC_Pids
  ThreadIds <- MC_ThreadIds
  MaxAddr <- MC_MaxAddr
  Files <- MC_Files
  Names <- MC_Names
  MaxRecs <- MC_MaxRecs
SPECIFICATION ReplaySpec
INVARIANTS
  TypeOK
  LookupSound
  BuildIdResolved
  ReplayInTimeOrder
PROPERTIES
  MapsAppendOnly
\* A stream ends after MaxRecs records or once an assertion has raised.
CHECK_DEADLOCK FALSE
