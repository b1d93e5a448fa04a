---------------------------- MODULE MC_EventAttr ----------------------------
(* Instances of EventAttr and EventConfig for TLC.                         *)
EXTENDS EventConfig

\* Two attributes as perf record writes them into perf.data: a sampling
\* event in frequency mode at the default size, and a counting event in
\* period mode at PERF_ATTR_SIZE_VER0 (64 bytes, no config2).
MC_Raws ==
  { [size |-> 112,
     raw |-> [f \in Fields |-> IF f \in {"type", "config", "freq", "_wakeup_watermark_or_events"}
                               THEN 1 ELSE IF f = "_sample_period_or_freq" THEN 2 ELSE 0]],
    [size |-> 64,
     raw |-> [f \in Fields |-> IF f = "config" THEN 2 ELSE 0]] }

\* Two machines.  An Arm one: a CPU PMU with a 2-bit event field, a 2-bit
\* umask and a 1-bit flag in config1, and a named event whose umask must
\* be given; CoreSight ETM with a cycacc bit, sinkid in config2, one sink
\* and a cpumask; no "cpu" PMU.  And one whose "cpu" PMU has named events.
ArmPmu == [word |-> "config", lo |-> 0, hi |-> 1]
MC_Machines ==
  { [types       |-> ("armv8_pmuv3" :> 8) @@ ("cs_etm" :> 9),
     cpumask     |-> ("armv8_pmuv3" :> None) @@ ("cs_etm" :> 3),
     formats     |-> ("armv8_pmuv3" :> (("event" :> ArmPmu)
                                        @@ ("umask" :> [word |-> "config", lo |-> 2, hi |-> 3])
                                        @@ ("flag" :> [word |-> "config1", lo |-> 0, hi |-> 0])))
                     @@ ("cs_etm" :> (("cycacc" :> [word |-> "config", lo |-> 2, hi |-> 2])
                                      @@ ("sinkid" :> [word |-> "config2", lo |-> 0, hi |-> 1]))),
     events      |-> ("armv8_pmuv3" :> ("ev" :> <<[f |-> "event", v |-> 2], [f |-> "umask", v |-> Ask]>>)),
     tracepoints |-> (<<"sched", <<"switch">>>> :> 7),
     sinks       |-> ("@etr" :> 1)],
    [types       |-> ("cpu" :> 4),
     cpumask     |-> ("cpu" :> None),
     formats     |-> ("cpu" :> (("event" :> ArmPmu)
                                @@ ("umask" :> [word |-> "config", lo |-> 2, hi |-> 3]))),
     events      |-> ("cpu" :> ("cycles-t" :> <<[f |-> "event", v |-> 1]>>)),
     tracepoints |-> (<<"sched", <<"switch">>>> :> 7),
     sinks       |-> None] }

MC_PerfEventMap == ("cycles" :> <<0, 0>>)
MC_CountConsts ==
     ("PERF_COUNT_HW_INSTRUCTIONS" :> [hw |-> TRUE,  sw |-> FALSE, val |-> 1])
  @@ ("PERF_COUNT_HW_CACHE_L1D"    :> [hw |-> TRUE,  sw |-> FALSE, val |-> 0])
  @@ ("PERF_COUNT_SW_DUMMY"        :> [hw |-> FALSE, sw |-> TRUE,  val |-> 9])
MC_RawHex == ("r1a" :> 26)
MC_HwCache == ("L1-dcache-loads" :> 0)
MC_SinkTerms == {"@etr", "@nosink"}

T(f, v) == [f |-> f, v |-> v]

\* Terms of a PMU event: every case of the field loop and of named events.
PmuParams ==
  { <<T("event", 3), T("umask", 1)>>, <<T("ev", NoEq), T("umask", 3)>>, <<T("ev", NoEq)>>,
    <<T("ev", NoEq), T("event", 1), T("umask", 0)>>, <<T("nosuch", NoEq)>>,
    <<T("cycles-t", NoEq), T("umask", 2)>>,
    <<T("event", 5)>>, <<T("event", NotNum)>>, <<T("event", 1), T("event", 2)>>,
    <<T("config", 4), T("event", 1)>>, <<T("config", NotNum)>>,
    <<T("period", 2), T("time", 0), T("flag", NoEq)>>, <<T("percore", NoEq)>>,
    <<T("bogus", 1)>>, <<T("", 1)>>, <<T("@etr", NoEq), T("cycacc", NoEq)>>,
    <<T("@nosink", NoEq)>>, <<Blank>> }

\* Terms of a perf_event_map name ("cycles/.../").
MapParams ==
  { <<T("period", 2)>>, <<T("config", NotNum)>>,
    <<T("freq", 1), T("inherit", NoEq), T("call-graph", NotNum), T("stack-size", 1)>>,
    <<T("time", 1), T("no-inherit", NoEq), T("name", NotNum)>> }

Mods == {<<>>, <<<<"u", "p">>>>, <<<<"p", "p", "p", "p">>>>, <<<<"P", "I", "D", "S">>>>, <<<<"z">>>>}

Spec0(b, segs) == [base |-> b, slashes |-> 0, params |-> <<>>, emods |-> <<>>, segs |-> segs]

MC_Specs ==
     {Spec0(b, segs) : b \in {"r1a", "cycles", "PERF_COUNT_HW_INSTRUCTIONS", "PERF_COUNT_HW_CACHE_L1D",
                              "PERF_COUNT_SW_DUMMY", "L1-dcache-loads", "foo", "cycles-t"},
                       segs \in Mods}
  \cup {Spec0("mem", segs) : segs \in {<<<<"0">>>>, <<<<"0">>, <<"r", "w">>>>, <<<<"z">>>>}}
  \cup {Spec0("sched", <<<<x>>>>) : x \in {"switch", "exit"}}
  \cup {[base |-> b, slashes |-> 2, params |-> ps, emods |-> em, segs |-> <<>>] :
          b \in {"armv8_pmuv3", "cs_etm", "cpu", "nopmu"}, ps \in PmuParams, em \in {<<>>, <<"k">>}}
  \cup {[base |-> "cycles", slashes |-> 2, params |-> ps, emods |-> <<>>, segs |-> <<>>] : ps \in MapParams}
  \cup {[base |-> "armv8_pmuv3", slashes |-> 1, params |-> <<>>, emods |-> <<"u">>, segs |-> <<>>]}
====
