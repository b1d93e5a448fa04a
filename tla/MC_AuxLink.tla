----------------------------- MODULE MC_AuxLink -----------------------------
(***************************************************************************)
(* Two CPUs, two chunks of trace each: enough for an AUX record on either  *)
(* side of its AUXTRACE buffer, for a buffer holding two chunks, and for   *)
(* the records of two CPUs to interleave.  The identifiers are listed in  *)
(* CPU order, as perf writes them.                                         *)
(***************************************************************************)
EXTENDS AuxLink

MC_NCpus     == 2
MC_AuxIds    == <<11, 12>>
MC_MaxChunks == 2

=============================================================================
