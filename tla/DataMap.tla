------------------------------ MODULE DataMap -------------------------------
(***************************************************************************)
(* The hierarchical range map of datamap.py (DataMap / DataRange).         *)
(*                                                                         *)
(* PerfData.open_and_read_header adds every region of the file it parses  *)
(* (header, attribute table, data section, sub-header descriptors,        *)
(* sub-headers, id arrays) and DataMap.add re-runs the consistency check   *)
(* after each insertion, so the tree is the parser's guard against         *)
(* offset arithmetic that puts two sections on top of each other.          *)
(*                                                                         *)
(* A DataRange object is identified by its index in DataMap.log (1, 2,     *)
(* ...); TOP, the root range with base None, is 0.  The subranges list of  *)
(* each range is kids[p].  r.parent is not modelled: add, find and check   *)
(* never read it (only descent(), a printing helper, does).                *)
(***************************************************************************)
EXTENDS Naturals, Sequences, SequencesExt, FiniteSets

CONSTANTS
  MaxAddr,   \* addresses are 0..MaxAddr-1
  MaxAdds    \* number of DataMap.add calls in one behaviour

ASSUME MaxAddr \in Nat \ {0} /\ MaxAdds \in Nat \ {0}

TOP   == 0
Nodes == 1..MaxAdds

VARIABLES
  log,       \* DataMap.log without its TOP entry: [base, size] per add call
  kids,      \* kids[p]: DataRange.subranges of p, ordered by base address
  status     \* "ok", or "failed" once check() has raised AssertionError

vars == <<log, kids, status>>

Extent == [base : 0..MaxAddr-1, size : 0..MaxAddr]

Lo(r) == r.base
Hi(r) == r.base + r.size              \* DataRange.limit()

\* DataRange.contains(addr, size) for a node p other than TOP; TOP contains all.
Covers(p, r)     == p = TOP \/ (Lo(log[p]) <= Lo(r) /\ Hi(r) <= Hi(log[p]))
CoversAddr(p, a) == p = TOP \/ (Lo(log[p]) <= a /\ a + 1 <= Hi(log[p]))

\* add_range, first loop: the first subrange containing r takes the insertion.
RECURSIVE Descend(_, _)
Descend(p, r) ==
  LET i == SelectInSeq(kids[p], LAMBDA c : Covers(c, r))
  IN  IF i = 0 THEN p ELSE Descend(kids[p][i], r)

\* add_range's "assert not down": a subrange that r contains was met before
\* the subrange that contains r, at some level of the descent.
RECURSIVE DownBeforeUp(_, _)
DownBeforeUp(p, r) ==
  LET i == SelectInSeq(kids[p], LAMBDA c : Covers(c, r))
  IN  /\ i # 0
      /\ \/ \E j \in 1..i-1 : Lo(r) <= Lo(log[kids[p][j]]) /\ Hi(log[kids[p][j]]) <= Hi(r)
         \/ DownBeforeUp(kids[p][i], r)

\* r contains the existing range c (range.contains_range(r)).
Encloses(r, c) == Lo(r) <= Lo(log[c]) /\ Hi(log[c]) <= Hi(r)

\* Mutant: the loop stops only at a subrange starting strictly after r's limit.
InsertIndexStrict(s, r) ==
  LET k == SelectInSeq(s, LAMBDA c : Hi(r) < Lo(log[c]))
  IN  IF k = 0 THEN Len(s) ELSE k - 1

\* Position after which r goes among the remaining subranges: the loop stops
\* at the first subrange that starts at or after r's limit.
InsertIndex(s, r) ==
  LET k == SelectInSeq(s, LAMBDA c : Hi(r) <= Lo(log[c]))
  IN  IF k = 0 THEN Len(s) ELSE k - 1

(***************************************************************************)
(* DataRange.check() walked from TOP, over the log L and lists K: every    *)
(* subrange lies in its parent, and consecutive subranges are in order and *)
(* do not overlap.                                                         *)
(***************************************************************************)
CheckOK(L, K) ==
  \A p \in DOMAIN K : \A i \in 1..Len(K[p]) :
    LET c == K[p][i]
    IN  /\ p = TOP \/ (Lo(L[p]) <= Lo(L[c]) /\ Hi(L[c]) <= Hi(L[p]))
        /\ i > 1 => LET q == K[p][i-1]
                    IN  Lo(L[q]) <= Lo(L[c]) /\ Lo(L[c]) >= Hi(L[q])

\* Mutant: the "if size:" test of DataMap.add is dropped.
InTreeAlways(s) == TRUE

\* DataMap.add puts a range in the tree only when its size is non-zero.
InTree(s) == s > 0

Init ==
  /\ log = <<>>
  /\ kids = [p \in {TOP} \cup Nodes |-> <<>>]
  /\ status = "ok"

(***************************************************************************)
(* DataMap.add(base, size): log the range; a zero-size range is not put in *)
(* the tree.  Otherwise add_range from TOP: descend into the subrange that *)
(* contains it; at the level where none does, move the subranges it        *)
(* contains under it (range.add_range(r), in their order), drop them from  *)
(* the level, insert it by address, then check() the whole map.            *)
(***************************************************************************)
Add(b, s) ==
  LET r    == [base |-> b, size |-> s]
      n    == Len(log) + 1
      t    == Descend(TOP, r)
      down == SelectSeq(kids[t], LAMBDA c : Encloses(r, c))
      rest == SelectSeq(kids[t], LAMBDA c : ~Encloses(r, c))
      K    == [kids EXCEPT ![t] = InsertAt(rest, InsertIndex(rest, r) + 1, n),
                           ![n] = down]
  IN  /\ status = "ok"
      /\ Len(log) < MaxAdds
      /\ log' = Append(log, r)
      /\ IF ~InTree(s)
           THEN UNCHANGED <<kids, status>>
         ELSE IF DownBeforeUp(TOP, r)
           THEN /\ status' = "failed"
                /\ UNCHANGED kids
         ELSE /\ kids' = K
              /\ status' = IF CheckOK(log', K) THEN "ok" ELSE "failed"

Next == \E b \in 0..MaxAddr-1, s \in 0..MaxAddr :
          b + s <= MaxAddr /\ Add(b, s)

Spec == Init /\ [][Next]_vars

-----------------------------------------------------------------------------
(* Queries                                                                 *)

\* Mutant: find stops at the top-level subrange instead of descending.
FindShallow(p, a) ==
  LET i == SelectInSeq(kids[p], LAMBDA c : CoversAddr(c, a))
  IN  IF i = 0 THEN p ELSE kids[p][i]

\* DataRange.find(n) from TOP: descend through find_subrange.
RECURSIVE FindFrom(_, _)
FindFrom(p, a) ==
  LET i == SelectInSeq(kids[p], LAMBDA c : CoversAddr(c, a))
  IN  IF i = 0 THEN p ELSE FindFrom(kids[p][i], a)

\* DataMap.find(n): the most specific range from TOP.  DataMap.contains(n):
\* some top-level subrange holds n (find_subrange of TOP is not None).
Find(a) == FindFrom(TOP, a)
DataMapContains(a) == SelectInSeq(kids[TOP], LAMBDA c : CoversAddr(c, a)) # 0

\* Mutant: the next gap starts at the previous subrange's base, not its limit.
UnmappedFromBase(p) ==
  LET s     == kids[p]
      start(i) == IF i = 1 THEN Lo(log[p]) ELSE Lo(log[s[i-1]])
      inner == { [base |-> start(i), size |-> Lo(log[s[i]]) - start(i)] :
                   i \in {j \in 1..Len(s) : start(j) < Lo(log[s[j]])} }
      last  == IF s = <<>> THEN Lo(log[p]) ELSE Hi(log[s[Len(s)]])
  IN  inner \cup (IF last < Hi(log[p])
                    THEN {[base |-> last, size |-> Hi(log[p]) - last]}
                    ELSE {})

\* DataRange.iter_unmapped() of a node p: the gaps between its subranges.
Unmapped(p) ==
  LET s     == kids[p]
      start(i) == IF i = 1 THEN Lo(log[p]) ELSE Hi(log[s[i-1]])
      inner == { [base |-> start(i), size |-> Lo(log[s[i]]) - start(i)] :
                   i \in {j \in 1..Len(s) : start(j) < Lo(log[s[j]])} }
      last  == IF s = <<>> THEN Lo(log[p]) ELSE Hi(log[s[Len(s)]])
  IN  inner \cup (IF last < Hi(log[p])
                    THEN {[base |-> last, size |-> Hi(log[p]) - last]}
                    ELSE {})

-----------------------------------------------------------------------------
(* Properties                                                              *)

\* Ranges of the map, read from the log alone: the non-empty ones.
Kept == {i \in 1..Len(log) : log[i].size > 0}

\* Types; the subrange lists hold only logged, non-empty ranges.
TypeOK ==
  /\ log \in Seq(Extent) /\ Len(log) <= MaxAdds
  /\ kids \in [{TOP} \cup Nodes -> Seq(Kept)]
  /\ status \in {"ok", "failed"}

\* Every node reachable from p through the subrange lists.
RECURSIVE Reach(_)
Reach(p) == UNION {{c} \cup Reach(c) : c \in ToSet(kids[p])}

(***************************************************************************)
(* Refinement: the tree built by add_range holds exactly the non-empty     *)
(* ranges added so far (none lost or invented by the re-parenting), and    *)
(* check() fails exactly when those ranges stop being nested-or-disjoint.  *)
(* A correct perf.data file never trips the check; an overlapping one      *)
(* always does.                                                            *)
(***************************************************************************)
Abstract == INSTANCE DataMapSpec WITH ranges <- Reach(TOP)
DataMapRefinement == Abstract!Spec

(***************************************************************************)
(* While the map is consistent, find(a) returns the most specific range    *)
(* holding a: no other range holding a lies strictly inside it, and of     *)
(* ranges with the same extent it is the last one added (add_range nests   *)
(* an identical range inside the earlier one); TOP only if none holds a,   *)
(* and contains(a) (PerfData.seek's guard) holds exactly when some range   *)
(* does.                                                                   *)
(***************************************************************************)
FindMostSpecific ==
  status = "ok" =>
    \A a \in 0..MaxAddr-1 :
      LET f       == Find(a)
          holders == {i \in Kept : Lo(log[i]) <= a /\ a < Hi(log[i])}
      IN  /\ (f = TOP) <=> (holders = {})
          /\ DataMapContains(a) <=> (holders # {})
          /\ f # TOP =>
               /\ f \in holders
               /\ \A q \in holders \ {f} :
                    ~ (Encloses(log[f], q) /\ (log[q] # log[f] \/ q > f))

(***************************************************************************)
(* iter_unmapped of any range, with its subranges, tiles the range: every  *)
(* address of it is in exactly one subrange or one reported gap.  This is  *)
(* what the "unmapped area" dump of perf_data's self-test relies on.       *)
(***************************************************************************)
UnmappedTiles ==
  status = "ok" =>
    \A p \in Reach(TOP) :
      \A a \in Lo(log[p])..Hi(log[p])-1 :
        LET pieces == {log[c] : c \in ToSet(kids[p])} \cup Unmapped(p)
        IN  Cardinality({x \in pieces : Lo(x) <= a /\ a < Hi(x)}) = 1

=============================================================================
