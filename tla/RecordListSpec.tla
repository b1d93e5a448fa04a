--------------------------- MODULE RecordListSpec ---------------------------
(***************************************************************************)
(* What record iteration in stream order promises (spec.md, "Record        *)
(* iteration ... stream order"): the records yielded are the records the   *)
(* writer put in the data section, in the order it put them, a compressed  *)
(* chunk standing for the records it holds.  The reader may stop early (a  *)
(* structural error, the end of a cut stream) but never yields a record    *)
(* out of order, twice, or one that was not written.                       *)
(***************************************************************************)
EXTENDS Naturals, Sequences

CONSTANT Recs          \* logical records

VARIABLES
  written,   \* the logical records written so far
  yielded    \* the records yielded so far

vars == <<written, yielded>>

Init == written = <<>> /\ yielded = <<>>

\* The writer appends one record, or a chunk of several.
Write == /\ Len(written') > Len(written)
         /\ SubSeq(written', 1, Len(written)) = written
         /\ \A i \in 1..Len(written') : written'[i] \in Recs
         /\ UNCHANGED yielded

\* The reader yields the next written record.
Yield == /\ Len(yielded) < Len(written)
         /\ yielded' = Append(yielded, written[Len(yielded) + 1])
         /\ UNCHANGED written

Spec == Init /\ [][Write \/ Yield]_vars

=============================================================================
