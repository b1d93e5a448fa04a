CONSTANTS
  NoList = NoList
  NCpus <- MC_NCpus
  AuxIds <- MC_AuxIds
  MaxChunks <- MC_MaxChunks
SPECIFICATION AuxSpec
INVARIANTS
  AuxAttachedToOwnBuffer
\* The capture ends once every chunk is written and read, or the reader
\* has raised.
CHECK_DEADLOCK FALSE
