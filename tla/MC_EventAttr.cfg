\* Two objects, each built field by field at the default size or at 64
\* bytes, or read from one of the raw images; up to three calls.  Or an
\* EventConfig configured any number of times from the specifiers of
\* MC_Specs on one of two machines.
CONSTANTS
  Objs = {p, q}
  Vals = {1}
  Sizes = {64, 112}
  Raws <- MC_Raws
  KwNames = {"config2", "freq", "precise_ip", "sample_period", "sample_freq",
             "wakeup_events", "wakeup_watermark", "size", "bad_key"}
  MaxOps = 3
  None = None
  NoEq = NoEq
  NotNum = NotNum
  Ask = Ask
  Machines <- MC_Machines
  PerfEventMap <- MC_PerfEventMap
  CountConsts <- MC_CountConsts
  RawHex <- MC_RawHex
  HwCache <- MC_HwCache
  Specs <- MC_Specs
  SinkTerms <- MC_SinkTerms
SPECIFICATION DescSpec
INVARIANTS TypeOK SetFieldsEncoded ConfigEncodesTerms EventOwnsPmu
PROPERTY DefaultsKeepSet
CHECK_DEADLOCK FALSE
