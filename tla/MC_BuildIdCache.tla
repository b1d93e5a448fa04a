---------------------------- MODULE MC_BuildIdCache -------------------------
(***************************************************************************)
(* Two files and two build ids: enough for two files with one build id (a *)
(* copy, or a stripped and an unstripped build), and for a file rebuilt    *)
(* with a new build id between two calls.                                  *)
(*                                                                         *)
(* The same run checks the PMU harness, the other command-line tool,       *)
(* perf_parse over every list of up to MaxItems events and groups, and the *)
(* AUX linkage of raw_records: a behaviour runs one of the four, chosen at *)
(* the start.  For the linkage, two CPUs with two chunks of trace each:    *)
(* an AUX record on either side of its AUXTRACE buffer, a buffer holding   *)
(* two chunks, the records of two CPUs interleaved; the identifiers in CPU *)
(* order, as perf writes them.                                             *)
(***************************************************************************)
EXTENDS BuildIdCache, PmuHarness, PerfParse, AuxLink

CONSTANTS f1, f2, i1, i2

VARIABLE tool

MC_Files == {f1, f2}
MC_Ids   == {i1, i2}

\* sbsa_pmu_input.csv with one relation, with two, and with a second whose
\* event code is not hexadecimal.
MC_CsvFiles ==
  { <<[hex |-> TRUE, code |-> 17]>>,
    <<[hex |-> TRUE, code |-> 17], [hex |-> TRUE, code |-> 8]>>,
    <<[hex |-> TRUE, code |-> 17], [hex |-> FALSE, code |-> 0]>> }

\* A plain event, a PMU event whose terms hold a comma, and one with a
\* modifier after the closing slash.
MC_EventTexts ==
  { <<"a">>, <<"c", "/", "t", ",", "v", "/">>, <<"c", "/", "t", "/", "k">> }

MC_GroupSuffixes == { <<":", "u">> }

MC_NCpus     == 2
MC_AuxIds    == <<11, 12>>
MC_MaxChunks == 2

MC_Init ==
  /\ tool \in {"buildid", "pmu", "parse", "aux"}
  /\ Init /\ HInit /\ AuxInit
  \* the components a behaviour does not run stay in one initial state
  /\ tool # "buildid" => root = FALSE /\ disk = [f \in Files |-> i1]
  /\ tool # "pmu"     => ~scaling /\ ~command /\ csv = <<[hex |-> TRUE, code |-> 17]>>
  /\ IF tool = "parse" THEN ParseInit ELSE input = <<>>
  /\ tool # "aux"     => hasIds /\ nEvents = 1

MC_Next ==
  \/ tool = "buildid" /\ Next    /\ UNCHANGED <<hvars, auxvars, tool, input>>
  \/ tool = "pmu"     /\ HNext   /\ UNCHANGED <<vars, auxvars, tool, input>>
  \/ tool = "aux"     /\ AuxNext /\ UNCHANGED <<vars, hvars, tool, input>>

MC_Spec == MC_Init /\ [][MC_Next]_<<vars, hvars, auxvars, tool, input>>

=============================================================================
