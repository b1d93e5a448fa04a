---------------------------- MODULE SortedReplay ----------------------------
(***************************************************************************)
(* PerfDataReader.records(sorted_time) over PerfData.records(sorted_time)  *)
(* (perf_data.py): the replayer fed the records of a capture, in stream    *)
(* order or sorted by time.                                                *)
(*                                                                         *)
(* The kernel makes events in time order: a FORK is written to the ring   *)
(* buffer of the parent's CPU, an MMAP to that of the CPU the process runs *)
(* on.  perf record copies the CPUs' buffers in turn, so the data section *)
(* holds each CPU's records in that CPU's order, interleaved in any way.   *)
(* A record carries its time when the event has sample_id_all and         *)
(* PERF_SAMPLE_TIME, else r.t is None.  records(sorted_time=True) makes a *)
(* first pass in stream order, sorts the list by time (None as 0) and     *)
(* yields it; records() yields stream order.  PerfDataReader handles each *)
(* record as ContextReplayer does.                                         *)
(*                                                                         *)
(* The records of ContextReplayer's general case (any stream, with loss)  *)
(* remain a third source, so that one specification covers both.          *)
(***************************************************************************)
EXTENDS ContextReplayer

CONSTANTS
  Cpus,       \* CPUs whose ring buffers perf record copies
  HistLen,    \* kernel events in one capture
  FileMaps,   \* extents and files an MMAP of the capture may carry
  NoTime      \* r.t is None

VARIABLES
  src,        \* the records' source: "lossy" (any stream), "stream" or "sorted"
  timed,      \* the records carry their time
  hist,       \* the kernel's events, in time order
  order,      \* the records in the order records() yields them
  pos         \* records yielded so far

fvars   == <<src, timed, hist, order, pos>>
allvars == <<vars, fvars>>

-----------------------------------------------------------------------------
(* The kernel and perf record                                              *)

KEvents ==
  [kind : {"FORK"}, pid : Pids, ppid : Pids, m : {NoMap}] \cup
  {[kind |-> "MMAP", pid |-> p, ppid |-> p,
    m |-> [pid |-> p, lo |-> x.lo, len |-> x.len, file |-> x.file]] : p \in Pids, x \in FileMaps}

\* A forked process does nothing before its FORK and is forked once; a
\* process never forked runs from the start; a parent runs when it forks.
Forked(h, p)      == {i \in 1..Len(h) : h[i].kind = "FORK" /\ h[i].pid = p}
Running(h, p, i)  == \A j \in Forked(h, p) : j < i
ValidHistory(h) ==
  \A i \in 1..Len(h) :
    /\ h[i].kind = "FORK" =>
         Forked(h, h[i].pid) = {i} /\ h[i].pid # h[i].ppid /\ Running(h, h[i].ppid, i)
    /\ h[i].kind = "MMAP" => Running(h, h[i].pid, i)

\* The kernel's view after the events h: a child starts with a copy of its
\* parent's mappings, an mmap adds one.
KernelStep(M, e) ==
  IF e.kind = "FORK" THEN [M EXCEPT ![e.pid] = M[e.ppid]]
                     ELSE [M EXCEPT ![e.pid] = Append(@, e.m)]
KernelMaps(h) == FoldLeft(KernelStep, [p \in Pids |-> <<>>], h)

\* The record of event i, written on CPU c.
Record(h, i, c, t) ==
  [kind |-> h[i].kind, pid |-> h[i].pid, ppid |-> h[i].ppid, m |-> h[i].m,
   cpu |-> c, kt |-> i, t |-> IF t THEN i ELSE NoTime]

\* The data sections perf record can write from the records rs.
DataSections(rs) ==
  {f \in SetToSeqs(ToSet(rs)) :
     \A i, j \in 1..Len(f) : i < j /\ f[i].cpu = f[j].cpu => f[i].kt < f[j].kt}

-----------------------------------------------------------------------------
(* PerfData.records                                                        *)

\* rectime(r): the record's time, 0 when it has none.
RecTime(r) == IF r.t = NoTime THEN 0 ELSE r.t

\* sorted(..., key=rectime): Python's sort is stable, so records with equal
\* keys keep their stream order.
SortedByTime(s) ==
  LET before(i, j) == RecTime(s[i]) < RecTime(s[j]) \/ (RecTime(s[i]) = RecTime(s[j]) /\ i < j)
      ix == SortSeq([i \in 1..Len(s) |-> i], before)
  IN  [k \in 1..Len(s) |-> s[ix[k]]]

\* Mutant: the sorted_time flag is not passed down.
RecordsOrderUnsorted(sorted, s) == s

\* records(sorted_time): the first pass of raw_records, sorted; otherwise
\* raw_records itself.
RecordsOrder(sorted, s) == IF sorted THEN SortedByTime(s) ELSE s

-----------------------------------------------------------------------------
(* PerfDataReader.records                                                  *)

ReplayInit ==
  /\ Init
  /\ pos = 0
  /\ \/ /\ src = "lossy" /\ timed = FALSE /\ hist = <<>> /\ order = <<>>
     \/ /\ src \in {"stream", "sorted"}
        /\ timed \in BOOLEAN
        /\ hist \in {h \in [1..HistLen -> KEvents] : ValidHistory(h)}
        /\ \E cpu \in [1..HistLen -> Cpus] :
             \E f \in DataSections([i \in 1..HistLen |-> Record(hist, i, cpu[i], timed)]) :
               order = RecordsOrder(src = "sorted", f)

\* The next record records() yields, handled as the replayer handles it.
ReadRecord ==
  /\ src # "lossy" /\ pos < Len(order)
  /\ LET r == order[pos + 1]
     IN  \/ r.kind = "FORK" /\ Fork(r.pid, r.ppid, r.pid)
         \/ r.kind = "MMAP" /\ Mmap(r.pid, r.pid, r.m)
  /\ pos' = pos + 1
  /\ UNCHANGED <<src, timed, hist, order>>

ReplayNext ==
  \/ src = "lossy" /\ Next /\ UNCHANGED fvars
  \/ ReadRecord

ReplaySpec == ReplayInit /\ [][ReplayNext]_allvars

-----------------------------------------------------------------------------
(* Properties                                                              *)

\* A process's mapping list as the kernel made it (what the yield adds left out).
Extents(p) ==
  IF p \in DOMAIN procs
    THEN [i \in 1..Len(procs[p]) |->
            [pid |-> procs[p][i].pid, lo |-> procs[p][i].lo,
             len |-> procs[p][i].len, file |-> procs[p][i].file]]
    ELSE <<>>

(***************************************************************************)
(* spec.md: the replay component reconstructs each process's mapping      *)
(* context as records are consumed in time order.  Iterating a capture    *)
(* whose records carry their time with records(sorted_time=True), after   *)
(* any number of records every process holds exactly the mappings the     *)
(* kernel gave it up to that point, in the kernel's order: a child the     *)
(* copy of its parent's at the fork, then its own, however perf record     *)
(* interleaved the CPUs' buffers.                                          *)
(***************************************************************************)
ReplayInTimeOrder ==
  src = "sorted" /\ timed =>
    \A p \in Pids : Extents(p) = KernelMaps(SubSeq(hist, 1, pos))[p]

=============================================================================
