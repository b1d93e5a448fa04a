---------------------------- MODULE DataMapSpec ----------------------------
(***************************************************************************)
(* What a DataMap promises, without the tree: it remembers every range it  *)
(* was asked to add (DataMap.log), keeps the non-empty ones, and its       *)
(* consistency check rejects the map exactly when two of the kept ranges   *)
(* overlap without one containing the other.  A rejected map raises, and   *)
(* the file being opened is abandoned, so nothing is added after that.     *)
(***************************************************************************)
EXTENDS Naturals, Sequences, FiniteSets

CONSTANTS
  MaxAddr,   \* addresses are 0..MaxAddr-1
  MaxAdds    \* number of DataMap.add calls in one behaviour

VARIABLES
  log,       \* every range passed to add, in call order
  ranges,    \* log indices of the ranges kept (size > 0)
  status     \* "ok", or "failed" once check() has raised

vars == <<log, ranges, status>>

Extent == [base : 0..MaxAddr-1, size : 0..MaxAddr]

Lo(r) == r.base
Hi(r) == r.base + r.size

\* The two containment-compatible relations between non-empty ranges
Inside(r, q)   == Lo(q) <= Lo(r) /\ Hi(r) <= Hi(q)
Disjoint(r, q) == Hi(r) <= Lo(q) \/ Hi(q) <= Lo(r)

\* A laminar family: every two ranges are nested or disjoint.
Laminar(L, S) ==
  \A i, j \in S :
    LET r == L[i]  q == L[j]
    IN  Inside(r, q) \/ Inside(q, r) \/ Disjoint(r, q)

Init ==
  /\ log = <<>>
  /\ ranges = {}
  /\ status = "ok"

Add(b, s) ==
  /\ status = "ok"
  /\ Len(log) < MaxAdds
  /\ log' = Append(log, [base |-> b, size |-> s])
  /\ ranges' = IF s > 0 THEN ranges \cup {Len(log) + 1} ELSE ranges
  /\ status' = IF Laminar(log', ranges') THEN "ok" ELSE "failed"

Next == \E b \in 0..MaxAddr-1, s \in 0..MaxAddr :
          b + s <= MaxAddr /\ Add(b, s)

Spec == Init /\ [][Next]_vars

=============================================================================
