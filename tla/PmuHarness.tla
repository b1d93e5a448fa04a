----------------------------- MODULE PmuHarness -----------------------------
(***************************************************************************)
(* The SBSA PMU relationship harness (pmuval/sbsa_acs_pmu.py).            *)
(*                                                                         *)
(* The script reads the relations of sbsa_pmu_input.csv (rule, event code, *)
(* reason), then for each of --repeat passes tests every relation: it opens *)
(* the event as a raw counter (retrying as user space only when the open   *)
(* fails with OSError), runs the workload, reads the counter into          *)
(* total[x] and asks the relation whether it accepts the readings.  With   *)
(* --scaling each relation is run three times with growing working sets    *)
(* (x = 0, 1, 2) and judged at x = 2 on the three counts, which must be    *)
(* non-zero and non-decreasing; otherwise one count, which must be         *)
(* positive.  After each pass the totals are printed.                      *)
(*                                                                         *)
(* A counter reading is a value of Counts; the kernel's answer to          *)
(* perf_event_open and the exit status of the command are free choices.   *)
(* An exception the script does not catch, or sys.exit, ends it in        *)
(* "exited".                                                               *)
(***************************************************************************)
EXTENDS Naturals, Sequences, FiniteSets

CONSTANTS
  CsvFiles,   \* contents of sbsa_pmu_input.csv: sequences of lines
  Repeat,     \* --repeat
  Counts      \* values a counter can read

VARIABLES
  hphase,     \* "start", "pass", "test", "summary", "done" or "exited"
  scaling,    \* --scaling given
  command,    \* a command to run was given
  csv,        \* the lines of sbsa_pmu_input.csv
  rels,       \* list(read_relations()): the event code of each relation
  i,          \* the pass, 0..Repeat-1
  ri,         \* the relation being tested
  x,          \* the scaling step
  total,      \* the global total[0..2]
  ntests,     \* r.n_tests
  nfails,     \* r.n_fails
  total_tests,
  total_fails,
  printed,    \* the summaries printed: <<tests, fails>> per pass
  seen,       \* the counts read for the relation's current test (history)
  verdicts    \* per relation, for each completed test, whether the rule holds (history)

hvars == <<hphase, scaling, command, csv, rels, i, ri, x, total, ntests, nfails,
           total_tests, total_fails, printed, seen, verdicts>>


-----------------------------------------------------------------------------
(* read_relations and Relation.accepts                                     *)

\* read_relations: a line without its three fields fails to unpack, and
\* echeck(sup) is int(sup, 16), whose ValueError is not the BadEvent the
\* loop catches; either ends the script before any test.
BadCode(lines)       == \E k \in 1..Len(lines) : ~lines[k].hex
ReadRelations(lines) == [k \in 1..Len(lines) |-> lines[k].code]

\* Relation.accepts(vsub)
Accepts(sc, vsub) ==
  IF sc THEN ~(vsub[0] = 0 \/ vsub[1] = 0 \/ vsub[2] = 0)
             /\ ~(vsub[0] > vsub[1] \/ vsub[1] > vsub[2])
        ELSE vsub[0] > 0

\* Witness.accepts: with --scaling, only the third run is judged.
WitnessAccepts(sc, xx, tot) == IF sc /\ xx # 2 THEN TRUE ELSE Accepts(sc, tot)

\* Mutant: total_fails = r.n_fails instead of +=.
AddTotalAssign(t, n) == n

\* total_tests += r.n_tests, total_fails += r.n_fails
AddTotal(t, n) == t + n

\* open_event: a first OSError is retried as user space only
\* (exclude_kernel); a failure of the retry raises out of the script.
OpenOutcomes == {"ok", "retried", "failed"}

\* Workload.run: a command that exits non-zero ends the script (sys.exit).
RunFails(cmd, status) == cmd /\ status # 0

\* Witness.read: total[self.m.x] = the counter's value.
ReadWitness(tot, xx, v) == [tot EXCEPT ![xx] = v]

\* The steps of a relation: x = 0, 1, 2 with --scaling, else 0.
LastX(sc) == IF sc THEN 2 ELSE 0

-----------------------------------------------------------------------------

HInit ==
  /\ hphase = "start"
  /\ scaling \in BOOLEAN
  /\ command \in BOOLEAN
  /\ csv \in CsvFiles
  /\ rels = <<>>
  /\ i = 0 /\ ri = 1 /\ x = 0
  /\ total = [k \in 0..2 |-> 0]
  /\ ntests = <<>> /\ nfails = <<>>
  /\ total_tests = 0 /\ total_fails = 0
  /\ printed = <<>>
  /\ seen = <<>>
  /\ verdicts = <<>>

\* rels = list(read_relations()): a bad event code raises out of the script.
Load ==
  /\ hphase = "start"
  /\ IF BadCode(csv)
       THEN hphase' = "exited" /\ UNCHANGED <<rels, ntests, nfails, verdicts>>
       ELSE /\ hphase' = IF Repeat = 0 THEN "done" ELSE "pass"
            /\ rels' = ReadRelations(csv)
            /\ ntests' = [k \in DOMAIN rels' |-> 0]
            /\ nfails' = [k \in DOMAIN rels' |-> 0]
            /\ verdicts' = [k \in DOMAIN rels' |-> <<>>]
  /\ UNCHANGED <<scaling, command, csv, i, ri, x, total, total_tests, total_fails, printed, seen>>

\* for r in rels: total[0] = total[1] = total[2] = 0, then the tests of r.
StartRelation ==
  /\ hphase = "pass"
  /\ IF ri > Len(rels)
       THEN hphase' = "summary" /\ UNCHANGED total
       ELSE hphase' = "test" /\ total' = [k \in 0..2 |-> 0]
  /\ x' = 0 /\ seen' = <<>>
  /\ UNCHANGED <<scaling, command, csv, rels, i, ri, ntests, nfails, total_tests, total_fails, printed, verdicts>>

\* Mutant: every scaling run counted as a test.
CountTestEveryRun(sc, xx) == TRUE

\* test_relation counts the test at the last scaling step only.
CountTest(sc, xx) == ~sc \/ xx = 2

\* test_relation(r, x): open_event, run the workload, read the counter into
\* total[x] and judge it; then n_tests and n_fails.  After the last step of r the pass
\* adds r.n_tests and r.n_fails to its totals.
TestRelation ==
  /\ hphase = "test"
  /\ \E open \in OpenOutcomes, status \in {0, 1}, v \in Counts :
       IF open = "failed" \/ RunFails(command, status)
         THEN hphase' = "exited"
              /\ UNCHANGED <<ri, x, total, ntests, nfails, total_tests, total_fails, seen, verdicts>>
         ELSE LET tot    == ReadWitness(total, x, v)
                  ok     == WitnessAccepts(scaling, x, tot)
                  count  == CountTest(scaling, x)
                  nt     == IF count THEN [ntests EXCEPT ![ri] = @ + 1] ELSE ntests
                  nf     == IF count /\ ~ok THEN [nfails EXCEPT ![ri] = @ + 1] ELSE nfails
                  s      == Append(seen, v)
                  last   == x = LastX(scaling)
              IN  /\ total' = tot
                  /\ ntests' = nt /\ nfails' = nf
                  /\ seen' = s
                  /\ IF last
                       THEN /\ hphase' = "pass" /\ ri' = ri + 1 /\ x' = 0
                            /\ total_tests' = AddTotal(total_tests, nt[ri])
                            /\ total_fails' = AddTotal(total_fails, nf[ri])
                            /\ verdicts' = [verdicts EXCEPT ![ri] =
                                              Append(@, IF scaling THEN \A k \in 1..3 : s[k] > 0 /\ (k > 1 => s[k-1] <= s[k])
                                                                   ELSE s[1] > 0)]
                       ELSE /\ hphase' = "test" /\ x' = x + 1 /\ UNCHANGED <<ri, total_tests, total_fails, verdicts>>
  /\ UNCHANGED <<scaling, command, csv, rels, i, printed>>

\* The summary after each pass.
Summary ==
  /\ hphase = "summary"
  /\ printed' = Append(printed, <<total_tests, total_fails>>)
  /\ i' = i + 1 /\ ri' = 1
  /\ hphase' = IF i + 1 < Repeat THEN "pass" ELSE "done"
  /\ UNCHANGED <<scaling, command, csv, rels, x, total, ntests, nfails, total_tests, total_fails, seen, verdicts>>

HNext == Load \/ StartRelation \/ TestRelation \/ Summary

HSpec == HInit /\ [][HNext]_hvars

-----------------------------------------------------------------------------
(* Properties                                                              *)

(***************************************************************************)
(* sbsa_acs_pmu.py: each relation's n_tests counts the passes that tested *)
(* it, and n_fails those whose counts break the SBSA rule the relation     *)
(* checks: with --scaling, three non-zero counts that grow with the        *)
(* working set, otherwise a positive count.  It takes the three            *)
(* test_relation calls of a scaling test, total[] shared between them,      *)
(* and Witness.accepts judging only the last, to get right.                *)
(***************************************************************************)
RelationVerdicts ==
  hphase \notin {"start", "exited"} =>
    \A r \in DOMAIN rels :
      /\ ntests[r] = Len(verdicts[r])
      /\ nfails[r] = Cardinality({k \in 1..Len(verdicts[r]) : ~verdicts[r][k]})

(***************************************************************************)
(* The summary printed after pass k reports failures (Total Failed > 0)   *)
(* exactly when some relation broke its rule in one of the first k       *)
(* passes: the script's verdict is read from that line.  The totals add  *)
(* r.n_fails after each relation, and n_fails persists across passes.     *)
(***************************************************************************)
SummaryReportsFailures ==
  \A k \in 1..Len(printed) :
    printed[k][2] > 0 <=> \E r \in DOMAIN rels, j \in 1..k : ~verdicts[r][j]

=============================================================================
