------------------------ MODULE MC_ContextReplayer -------------------------
(***************************************************************************)
(* Two processes (1 and 2, each its own main thread), one secondary thread *)
(* (3), the kernel; a 2-byte address space, so that two mappings can       *)
(* coincide, nest or be disjoint; two files; four records per stream:      *)
(* enough for a mapping, a fork, a second mapping at the same address and  *)
(* a COMM or EXIT in any order.  The build-id table and the cache are     *)
(* chosen so that every branch of build_id and of the file resolution is   *)
(* taken, with and without a cache.                                        *)
(***************************************************************************)
EXTENDS SortedReplay

CONSTANTS fA, fB, nA, i1, i2, c0, c1

MC_Pids      == {1, 2}
MC_ThreadIds == {3}
MC_MaxAddr   == 2
MC_Files     == {fA, fB}
MC_Names     == {nA}
MC_MaxRecs   == 4

\* fB is //anon.  HEADER_BUILD_ID names fA twice for process 1 (the later
\* entry wins), fA for any process, and //anon; on disk fA has build id i2;
\* the cache holds one copy of i1 and two files under i2 (no single copy).
MC_BuildIds   == {i1, i2}
MC_BuildIdHdr == << [pid |-> 1,  file |-> fA, bid |-> i2],
                    [pid |-> 1,  file |-> fA, bid |-> i1],
                    [pid |-> -1, file |-> fA, bid |-> i2],
                    [pid |-> -1, file |-> fB, bid |-> i1] >>
MC_DiskId     == (fA :> i2) @@ (fB :> NoId)
MC_CacheFiles == (i1 :> 1) @@ (i2 :> 2)

\* Captures of three kernel events on two CPUs: a mapping of the parent, a
\* fork and a mapping of the child is the least for a child's MMAP to land
\* before its FORK in the data section; two extents, one nested in the other.
MC_Cpus     == {c0, c1}
MC_HistLen  == 3
MC_FileMaps == {[lo |-> 0, len |-> 1, file |-> fA], [lo |-> 0, len |-> 2, file |-> fB]}

=============================================================================
