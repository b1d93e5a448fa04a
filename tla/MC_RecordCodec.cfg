\* One event: every sample layout of the variable-length fields with the
\* fixed fields around the timestamp, and MMAP records with and without
\* sample_id_all; time() called once, before or after unpack().
CONSTANTS
  Universe <- MC_LayoutUniverse
  ReadFormats <- MC_ReadFormats
  Abis = {2}
  NRegs = 1
  Injected = {FALSE, TRUE}
  HwIdx = {FALSE, TRUE}
  NEvents = {1}
  Kinds = {"SAMPLE", "MMAP"}
  Nrs = {0, 1}
  Bnrs = {0, 1}
  UStacks = {0, 8}
  TimeCalls = 1
  None = None
SPECIFICATION Spec
INVARIANTS TypeOK DecodeInverts TimeStable
CHECK_DEADLOCK FALSE
