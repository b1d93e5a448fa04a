--------------------------- MODULE MC_EventTable ---------------------------
(***************************************************************************)
(* Three captures, as perf record lays them out:                           *)
(*  - one event (perf's default layout for a single event: no identifier   *)
(*    field in any record, sample_id_all set);                             *)
(*  - two events with PERF_SAMPLE_IDENTIFIER (current perf), differing in  *)
(*    PERF_SAMPLE_CPU so that a record decoded with the wrong descriptor   *)
(*    is told apart;                                                       *)
(*  - two events with PERF_SAMPLE_ID (older perf), two CPUs for e2.        *)
(* Each is read in file mode and in pipe mode, with and without            *)
(* HEADER_EVENT_DESC.                                                      *)
(***************************************************************************)
EXTENDS EventTable

CONSTANTS e1, e2

MC_Events == {e1, e2}
MC_Ids    == {1, 2, 3}

MC_Captures ==
  { [evs  |-> <<e1>>,
     attr |-> [e \in MC_Events |-> [st |-> {"IP", "TID", "TIME"}, sample_id_all |-> TRUE]],
     ids  |-> [e \in MC_Events |-> {1}]],
    [evs  |-> <<e1, e2>>,
     attr |-> (e1 :> [st |-> {"IDENTIFIER", "IP", "TID", "TIME"}, sample_id_all |-> TRUE]) @@
              (e2 :> [st |-> {"IDENTIFIER", "IP", "TID", "TIME", "CPU"}, sample_id_all |-> TRUE]),
     ids  |-> (e1 :> {1}) @@ (e2 :> {2})],
    [evs  |-> <<e1, e2>>,
     attr |-> (e1 :> [st |-> {"ID", "IP", "TID", "TIME", "CPU"}, sample_id_all |-> TRUE]) @@
              (e2 :> [st |-> {"ID", "IP", "TID", "TIME", "CPU", "PERIOD"}, sample_id_all |-> TRUE]),
     ids  |-> (e1 :> {1}) @@ (e2 :> {2, 3})] }

=============================================================================
