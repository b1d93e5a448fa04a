--------------------------- MODULE MC_RecordCodec ---------------------------
(* Instances of RecordCodec for TLC.                                       *)
EXTENDS RecordCodec

\* The variable-length fields, with the fixed fields before the timestamp
\* of a sample (IDENTIFIER) and after it in a non-sample record (CPU,
\* IDENTIFIER): one event, every layout of its samples.
MC_LayoutUniverse == {"IDENTIFIER", "TIME", "CPU", "READ", "CALLCHAIN", "BRANCH_STACK",
                      "REGS_USER", "STACK_USER"}
MC_ReadFormats == {{}, {"GROUP", "TE", "TR", "FID"}}
====
