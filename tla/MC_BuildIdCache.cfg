\* Five calls or rebuilds, from an empty cache or none at all; or the PMU
\* harness over three input files, two passes and counts 0..2; or perf_parse
\* of every list of up to MaxItems events and groups; or the AUX linkage of
\* two CPUs with two chunks each.
CONSTANTS
  f1 = f1
  f2 = f2
  i1 = i1
  i2 = i2
  None = None
  Files <- MC_Files
  Ids <- MC_Ids
  MaxOps = 5
  CsvFiles <- MC_CsvFiles
  Repeat = 2
  Counts = {0, 1, 2}
  EventTexts <- MC_EventTexts
  GroupSuffixes <- MC_GroupSuffixes
  MaxItems = 3
  NoList = NoList
  NCpus <- MC_NCpus
  AuxIds <- MC_AuxIds
  MaxChunks <- MC_MaxChunks
SPECIFICATION MC_Spec
INVARIANTS
  LinksResolve
  RelationVerdicts
  SummaryReportsFailures
  ParseAsDocumented
  TypeOK
  AuxConservation
  AttachSameInstance
PROPERTIES
  CallsTakeEffect
\* A behaviour ends after MaxOps calls, at the harness's last summary, once
\* every chunk of trace is written and read, or when a call has raised.
CHECK_DEADLOCK FALSE
