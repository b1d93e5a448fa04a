--------------------------- MODULE ContextReplayer --------------------------
(***************************************************************************)
(* PerfDataReader (perf_data.py): the replay of process and thread context *)
(* over the record stream.  After yielding each record, records() updates  *)
(* its tables: COMM names a thread and binds it to its process, FORK       *)
(* creates a thread (and a process, cloning the parent's mapping list),    *)
(* MMAP/MMAP2 appends to the process's mapping list, EXIT is passed by.    *)
(* lookup_addr answers "what is mapped at this address for this process".  *)
(*                                                                         *)
(* Records arrive in any order the kernel and perf can produce, with any   *)
(* of them lost (PERF_RECORD_LOST): a stream is any sequence of well-      *)
(* formed records.  ThreadInfo.process and ProcessInfo.threads are one     *)
(* relation, kept here as threads[tid].proc.  Mapping records keep only    *)
(* what lookup uses: the pid, the extent and the mapped file, and what the *)
(* yield of the record adds to it: the build id found for (pid, file) in   *)
(* the HEADER_BUILD_ID table and the file resolved for that build id in    *)
(* the build-id cache or on disk.                                          *)
(***************************************************************************)
EXTENDS Naturals, Integers, Sequences, SequencesExt, FiniteSets

CONSTANTS
  Pids,        \* user process ids (also the tid of each main thread)
  ThreadIds,   \* tids of secondary threads (disjoint from Pids)
  MaxAddr,     \* addresses are 0..MaxAddr-1
  Files,       \* mapped files
  Names,       \* thread names carried by COMM
  MaxRecs,     \* records in one stream
  NoProc,      \* ThreadInfo.process is None
  NoName,      \* ThreadInfo.thread_name is None
  NoMap,       \* find_addr / lookup_addr returned None
  BuildIds,    \* build ids
  Anon,        \* the file name "//anon" of an anonymous mapping
  BuildIdHdr,  \* HEADER_BUILD_ID entries, in file order: [pid, file, bid]
  DiskId,      \* file_buildid: the build id of each file on disk, or NoId
  CacheFiles,  \* per build id, the files in its cache directory (0: absent)
  NoId,        \* build_id() returned None
  NoFile       \* file_cached is None

ASSUME Pids \subseteq Nat \ {0} /\ ThreadIds \subseteq Nat \ {0} /\ Pids \cap ThreadIds = {}

KERNEL == -1                       \* kernel_space = ProcessInfo(-1)
SWAPPER == 0                       \* swapper_thread = ThreadInfo(0, ...)
AllPids == Pids \cup {KERNEL}
AllTids == Pids \cup ThreadIds \cup {SWAPPER}

Mapping == [pid : AllPids, lo : 0..MaxAddr-1, len : 1..MaxAddr, file : Files]

\* A mapping record as yielded: with its build id and resolved file.
CachePath(id) == <<"cache", id>>
Resolved == [pid : AllPids, lo : 0..MaxAddr-1, len : 1..MaxAddr, file : Files,
             bid : BuildIds \cup {NoId},
             cached : Files \cup {CachePath(id) : id \in BuildIds} \cup {NoFile}]

VARIABLES
  cacheOn,   \* PerfData.buildid_cache is not None (fixed when the file is opened)
  threads,   \* PerfDataReader.threads: tid -> [name, proc]
  procs,     \* PerfDataReader.procs: pid -> ProcessInfo.maps
  status,    \* "ok", or "failed" once an assertion has raised
  nrec,      \* records consumed
  last,      \* the record consumed by the last step (history)
  lineage    \* pids whose mappings p may hold: itself and its fork ancestors (history)

vars == <<cacheOn, threads, procs, status, nrec, last, lineage>>

-----------------------------------------------------------------------------
(* The tables                                                              *)

\* Mutants of get_proc: the new ProcessInfo is not stored in the table;
\* a new ProcessInfo replaces an existing one.
GetProcNoRegister(P, pid) == P
GetProcFresh(P, pid)      == (pid :> <<>>) @@ P

\* get_proc(pid): the process table with pid present.
GetProc(P, pid) == IF pid \in DOMAIN P THEN P ELSE (pid :> <<>>) @@ P

\* ThreadInfo(tid, name, process): a process given here is bound at once
\* (set_process on a fresh thread).
ThreadInfo(name, proc) == [name |-> name, proc |-> proc]

\* get_thread(tid): the thread table with tid present, process unknown.
GetThread(T, tid) ==
  IF tid \in DOMAIN T THEN T ELSE (tid :> ThreadInfo(NoName, NoProc)) @@ T

\* ThreadInfo.set_process: binds once; a different process raises.
SetProcessOK(T, tid, p) == T[tid].proc \in {NoProc, p}
SetProcess(T, tid, p)   == [T EXCEPT ![tid].proc = p]

\* Mutant: the limit of a mapping is taken as inside it.
FindAddrInclusive(maps, a) ==
  LET i == SelectInSeq(maps, LAMBDA m : m.lo <= a /\ a <= m.lo + m.len)
  IN  IF i = 0 THEN NoMap ELSE maps[i]

\* ProcessInfo.find_addr: the first mapping in the list that covers a.
FindAddr(maps, a) ==
  LET i == SelectInSeq(maps, LAMBDA m : m.lo <= a /\ a < m.lo + m.len)
  IN  IF i = 0 THEN NoMap ELSE maps[i]

\* find_proc(tid): the process of a known thread.
FindProc(tid) == IF tid \in DOMAIN threads THEN threads[tid].proc ELSE NoProc

\* lookup_addr(pid, addr): the process found through the thread table under
\* pid, then the kernel's mappings.
LookupAddr(pid, a) ==
  LET p == FindProc(pid)
      m == IF p # NoProc THEN FindAddr(procs[p], a) ELSE NoMap
  IN  IF m # NoMap THEN m ELSE FindAddr(procs[KERNEL], a)

\* lookup_addr_all(addr): the kernel's mapping alone when lookup_addr(-1)
\* finds one (-1 is no thread, so only the kernel's list is searched);
\* otherwise the mapping of every other process whose list covers addr.
LookupAddrAll(a) ==
  LET mr == LookupAddr(KERNEL, a)
      hit(p) == FindAddr(procs[p], a) # NoMap
  IN  IF mr # NoMap THEN {<<KERNEL, mr>>}
      ELSE {<<p, FindAddr(procs[p], a)>> : p \in {q \in DOMAIN procs \ {KERNEL} : hit(q)}}

-----------------------------------------------------------------------------
(* Build-id resolution                                                     *)

\* build_id_map: each HEADER_BUILD_ID entry stored under (pid, filename),
\* a later entry replacing an earlier one.
HeaderMap ==
  FoldLeft(LAMBDA map, e : (<<e.pid, e.file>> :> e.bid) @@ map,
           [k \in {} |-> NoId], BuildIdHdr)

\* Mutant: the wildcard entry is consulted before the process's own.
BuildIdWildcardFirst(pid, file) ==
  CASE file = Anon                            -> NoId
    [] <<KERNEL, file>> \in DOMAIN HeaderMap -> HeaderMap[<<KERNEL, file>>]
    [] <<pid, file>> \in DOMAIN HeaderMap    -> HeaderMap[<<pid, file>>]
    [] OTHER                                 -> NoId

\* PerfData.build_id(pid, filename): none for an anonymous mapping, else
\* the entry for (pid, filename), else the wildcard entry (-1, filename).
BuildId(pid, file) ==
  CASE file = Anon                            -> NoId
    [] <<pid, file>> \in DOMAIN HeaderMap    -> HeaderMap[<<pid, file>>]
    [] <<KERNEL, file>> \in DOMAIN HeaderMap -> HeaderMap[<<KERNEL, file>>]
    [] OTHER                                 -> NoId

\* BuildIDCacheRO.id_cache_contents(id): the cached file for id when its
\* directory holds exactly one file (id_file), else none.
IdCacheContents(id) == IF CacheFiles[id] = 1 THEN CachePath(id) ELSE NoFile

\* BuildIDCache.id_matching_file(id, filename): the cached copy, else the
\* file itself when its build id on disk is id.
IdMatchingFile(id, file) ==
  IF IdCacheContents(id) = NoFile /\ DiskId[file] = id
    THEN file ELSE IdCacheContents(id)

\* Mutant: without a cache, the mapped file is taken without reading its id.
FileCachedUnchecked(bid, file) ==
  CASE bid = NoId -> NoFile
    [] cacheOn    -> IdMatchingFile(bid, file)
    [] OTHER      -> file

\* records(): r.file_cached for a mapping record with build id bid.
FileCached(bid, file) ==
  CASE bid = NoId             -> NoFile
    [] cacheOn                -> IdMatchingFile(bid, file)
    [] DiskId[file] = bid     -> file
    [] OTHER                  -> NoFile

\* The record as records() yields it, before the context update.
Resolve(m) ==
  LET b == BuildId(m.pid, m.file)
  IN  [pid |-> m.pid, lo |-> m.lo, len |-> m.len, file |-> m.file,
       bid |-> b, cached |-> FileCached(b, m.file)]

-----------------------------------------------------------------------------
(* PerfDataReader.__init__ and the handlers of records()                  *)

\* PerfData.set_buildid_cache(buildid_cache): None runs without a cache; a
\* BuildIDCache object, "" (~/.debug) or a directory name gives one.
CacheArgs == {"None", "BuildIDCache", "home", "dir"}
SetBuildidCache(arg) == arg # "None"

Init ==
  /\ \E arg \in CacheArgs : cacheOn = SetBuildidCache(arg)
  /\ threads = (SWAPPER :> ThreadInfo("swapper", KERNEL))
  /\ procs = (KERNEL :> <<>>)
  /\ status = "ok"
  /\ nrec = 0
  /\ last = [kind |-> "none", pid |-> KERNEL, ppid |-> KERNEL, tid |-> SWAPPER]
  /\ lineage = [p \in AllPids |-> {p}]

\* Every record is consumed by one step, while the stream lasts and nothing
\* has raised.
Consume(kind, pid, ppid, tid) ==
  /\ status = "ok" /\ nrec < MaxRecs
  /\ nrec' = nrec + 1
  /\ last' = [kind |-> kind, pid |-> pid, ppid |-> ppid, tid |-> tid]

\* PERF_RECORD_COMM: get_thread(tid).set_process(get_proc(pid)), then the name.
Comm(pid, tid, name) ==
  LET T == GetThread(threads, tid)
  IN  /\ Consume("COMM", pid, pid, tid)
      /\ procs' = GetProc(procs, pid)
      /\ IF SetProcessOK(T, tid, pid)
           THEN /\ threads' = [SetProcess(T, tid, pid) EXCEPT ![tid].name = name]
                /\ UNCHANGED status
           ELSE /\ threads' = T
                /\ status' = "failed"      \* "thread changed process"
      /\ UNCHANGED <<cacheOn, lineage>>

(***************************************************************************)
(* PERF_RECORD_FORK.  A new process (pid # ppid, its main thread tid =     *)
(* pid) gets a copy of the parent's mapping list when the parent is known; *)
(* a new thread joins its process.  The thread inherits the name of ptid   *)
(* (the forking thread, here the parent's main thread) when it is known.   *)
(***************************************************************************)
\* p.maps = copy.copy(self.procs[r.ppid].maps), for a new process whose
\* parent is known.
ForkMaps(P, pid, ppid) ==
  IF pid # ppid /\ ppid \in DOMAIN P THEN [P EXCEPT ![pid] = P[ppid]] ELSE P

Fork(pid, ppid, tid) ==
  LET P  == ForkMaps(GetProc(procs, pid), pid, ppid)
      T  == GetThread(threads, tid)
      T1 == SetProcess(T, tid, pid)
  IN  /\ Consume("FORK", pid, ppid, tid)
      /\ procs' = P
      /\ UNCHANGED cacheOn
      /\ IF SetProcessOK(T, tid, pid)
           THEN /\ threads' = IF ppid \in DOMAIN T1
                                THEN [T1 EXCEPT ![tid].name = T1[ppid].name]
                                ELSE T1
                /\ UNCHANGED status
           ELSE /\ threads' = T
                /\ status' = "failed"
      /\ lineage' = IF pid # ppid /\ ppid \in DOMAIN procs
                      THEN [lineage EXCEPT ![pid] = @ \cup lineage[ppid]]
                      ELSE lineage

\* PERF_RECORD_MMAP / MMAP2: append to get_proc(pid).maps.
Mmap(pid, tid, m) ==
  LET P == GetProc(procs, pid)
  IN  /\ Consume("MMAP", pid, pid, tid)
      /\ procs' = [P EXCEPT ![pid] = Append(@, Resolve(m))]
      /\ UNCHANGED <<cacheOn, threads, status, lineage>>

\* PERF_RECORD_EXIT: passed through, nothing is forgotten.
Exit(pid, tid) ==
  /\ Consume("EXIT", pid, pid, tid)
  /\ UNCHANGED <<cacheOn, threads, procs, status, lineage>>

\* The well-formed records: a main thread has tid = pid, other threads
\* belong to one process at a time; kernel mappings come from pid -1.
Next ==
  \/ \E pid \in Pids, tid \in ThreadIds \cup {0}, n \in Names :
       Comm(pid, IF tid = 0 THEN pid ELSE tid, n)
  \/ \E pid, ppid \in Pids : pid # ppid /\ Fork(pid, ppid, pid)
  \/ \E pid \in Pids, tid \in ThreadIds : Fork(pid, pid, tid)
  \/ \E pid \in AllPids, m \in Mapping :
       /\ m.pid = pid /\ m.lo + m.len <= MaxAddr
       /\ Mmap(pid, IF pid = KERNEL THEN SWAPPER ELSE pid, m)
  \/ \E pid \in Pids : Exit(pid, pid)

Spec == Init /\ [][Next]_vars

-----------------------------------------------------------------------------
(* Properties                                                              *)

\* Types; a thread's process, once known, is in the process table.
TypeOK ==
  /\ DOMAIN threads \subseteq AllTids
  /\ \A t \in DOMAIN threads :
       /\ threads[t].name \in Names \cup {NoName, "swapper"}
       /\ threads[t].proc \in DOMAIN procs \cup {NoProc}
  /\ DOMAIN procs \subseteq AllPids /\ KERNEL \in DOMAIN procs
  /\ \A p \in DOMAIN procs : procs[p] \in Seq(Resolved)
  /\ status \in {"ok", "failed"} /\ nrec \in 0..MaxRecs

Covering(maps, a) == {i \in 1..Len(maps) : maps[i].lo <= a /\ a < maps[i].lo + maps[i].len}

(***************************************************************************)
(* For a process known by its main thread, lookup_addr finds a mapping     *)
(* exactly when its own list or the kernel's covers the address; what it   *)
(* returns covers the address and was made by the process itself, by a     *)
(* fork ancestor before the fork, or by the kernel: no MMAP is filed under *)
(* another process and no fork copies from outside the lineage.  Over all *)
(* processes, lookup_addr_all answers the kernel alone when it covers the  *)
(* address, else exactly the processes whose lists cover it, each with a   *)
(* covering mapping of its own lineage.                                    *)
(***************************************************************************)
LookupSound ==
  /\ \A p \in (DOMAIN procs \cap DOMAIN threads) \ {KERNEL} : \A a \in 0..MaxAddr-1 :
       LET r == LookupAddr(p, a)
       IN  /\ (r = NoMap) <=> (Covering(procs[p], a) = {} /\ Covering(procs[KERNEL], a) = {})
           /\ r # NoMap => r.lo <= a /\ a < r.lo + r.len /\ r.pid \in lineage[p] \cup {KERNEL}
  /\ \A a \in 0..MaxAddr-1 :
       LET all     == LookupAddrAll(a)
           holders == {q \in DOMAIN procs : Covering(procs[q], a) # {}}
       IN  /\ {e[1] : e \in all} = IF KERNEL \in holders THEN {KERNEL} ELSE holders
           /\ \A e \in all : /\ e[2].lo <= a /\ a < e[2].lo + e[2].len
                            /\ e[2].pid \in lineage[e[1]] \cup {KERNEL}

(***************************************************************************)
(* spec.md: build-id metadata is indexed by (process id, filename), with   *)
(* -1 as the any-process fallback, and a mapping record resolves a cached  *)
(* or on-disk file with a matching build id.  Every mapping a process      *)
(* holds, the copies a fork gave it included, carries the build id of the  *)
(* last HEADER_BUILD_ID entry for its own (pid, file), else of the last    *)
(* wildcard entry, none for //anon; the file it names has that build id    *)
(* (the cache's single copy of it, or the mapped file as read on disk),    *)
(* and a mapped file whose build id on disk matches is always found.       *)
(***************************************************************************)
BuildIdResolved ==
  \A p \in DOMAIN procs : \A i \in 1..Len(procs[p]) :
    LET m   == procs[p][i]
        own == SelectLastInSeq(BuildIdHdr, LAMBDA e : e.pid = m.pid /\ e.file = m.file)
        any == SelectLastInSeq(BuildIdHdr, LAMBDA e : e.pid = KERNEL /\ e.file = m.file)
    IN  /\ (m.bid # NoId) <=> (m.file # Anon /\ (own # 0 \/ any # 0))
        /\ m.bid # NoId =>
             m.bid = BuildIdHdr[IF own # 0 THEN own ELSE any].bid
        /\ m.cached # NoFile =>
             \/ m.cached = CachePath(m.bid) /\ CacheFiles[m.bid] = 1
             \/ m.cached = m.file /\ DiskId[m.file] = m.bid
        /\ m.bid # NoId /\ DiskId[m.file] = m.bid => m.cached # NoFile

(***************************************************************************)
(* Replay only moves forward (spec: "nothing is ever removed"): a mapping  *)
(* list only grows, except that the FORK creating a process replaces its   *)
(* list by the parent's list as it stood; no process is dropped.           *)
(***************************************************************************)
MapsAppendOnly ==
  [][ \A p \in DOMAIN procs :
        /\ p \in DOMAIN procs'
        /\ \/ IsPrefix(procs[p], procs'[p])
           \/ /\ last'.kind = "FORK" /\ last'.pid = p /\ last'.ppid # p
              /\ procs'[p] = procs[last'.ppid]
    ]_procs

(***************************************************************************)
(* spec.md: the replayer answers "what was mapped at address A ... at this *)
(* point in the stream", and find(process_id, address) checks the named    *)
(* process's mapping list first.  A process whose own list covers A is     *)
(* answered with the latest of its mappings covering A: whether or not a   *)
(* COMM or FORK for its main thread was received, and also after an exec   *)
(* (or an munmap and mmap) put a new mapping where an older one was.       *)
(***************************************************************************)
LookupAsSpecified ==
  \A p \in (DOMAIN procs) \ {KERNEL} : \A a \in 0..MaxAddr-1 :
    LET own == SelectLastInSeq(procs[p], LAMBDA m : m.lo <= a /\ a < m.lo + m.len)
    IN  own # 0 => LookupAddr(p, a) = procs[p][own]

=============================================================================
