----------------------------- MODULE MC_DataMap -----------------------------
(* DataMap with a 5-byte address space and four add calls: enough for a   *)
(* range nested two deep, a range enclosing two earlier siblings, adjacent *)
(* ranges (limit = base), identical ranges and partial overlaps.           *)
EXTENDS DataMap

MC_MaxAddr == 5
MC_MaxAdds == 4
=============================================================================
