----------------------------- MODULE EventConfig -----------------------------
(***************************************************************************)
(* EventConfig (perf_espec.py): an event specifier of "perf -e" turned     *)
(* into a PerfEventAttr and the settings around it.                        *)
(*                                                                         *)
(* configure(e) resets the object, splits e at ':' and the first part at   *)
(* '/', and dispatches on the name: a raw code, a name of perf_event_map,  *)
(* a PERF_COUNT_ constant, a PMU of sysfs with fields ("pmu/f=v,.../"),    *)
(* a breakpoint ("mem:addr:rwx"), a tracepoint ("group:event"), a cache    *)
(* event, or a retry as "cpu/name/".  Field values are packed into the     *)
(* config words by the PMU's format (set_custom_parameter); the other      *)
(* colon segments are modifiers.  The attribute is EventAttr's object, and *)
(* every write goes through its setters.                                   *)
(*                                                                         *)
(* A specifier is abstracted to its parts: base (the name before '/'),     *)
(* slashes (how many '/' the first part has), params (its terms), emods    *)
(* (the characters after the last '/') and segs (the colon segments, each  *)
(* a sequence of characters).  A term is [f, v]: v a number, NotNum (a     *)
(* string int(v, 0) refuses), NoEq (no '=') or Ask ('?' in sysfs).  The    *)
(* machine's sysfs and the name tables are the environment.                *)
(***************************************************************************)
EXTENDS EventAttr, Bitwise

CONSTANTS
  Machines,     \* sysfs of a machine: [types, cpumask, formats, events, tracepoints, sinks]
  PerfEventMap, \* perf_event_map: name -> <<type, config>>
  CountConsts,  \* the PERF_COUNT_ globals: name -> [hw, sw, val] (hw: starts PERF_COUNT_HW_)
  RawHex,       \* names "r<hex>": name -> the hex value
  HwCache,      \* hw_cache_event_code: name -> code
  Specs,        \* the specifiers given to configure
  SinkTerms,    \* terms "@sink" naming a CoreSight sink
  NoEq, NotNum, Ask

PERF_TYPE_HARDWARE == 0
PERF_TYPE_SOFTWARE == 1
PERF_TYPE_TRACEPOINT == 2
PERF_TYPE_HW_CACHE == 3
PERF_TYPE_RAW == 4
PERF_TYPE_BREAKPOINT == 5
PERF_SAMPLE_TIME == 4
PERF_SAMPLE_READ == 16
PERF_SAMPLE_CALLCHAIN == 32
PRECISE_MAX == 3
PerfAttrSizeDefault == 112

ConfigWords == {"config", "config1", "config2"}

\* predefined_fields: terms of any PMU, handled by set_generic_parameter.
PredefinedFields ==
  {"config", "config1", "config2", "name", "period", "freq", "branch-type", "time",
   "call-graph", "stack-size", "no-inherit", "inherit", "max-stack", "nr",
   "overwrite", "no-overwrite", "driver-config", "percore", "aux-output"}

Blank == [f |-> "", v |-> NoEq]

-----------------------------------------------------------------------------
(* Dictionaries in insertion order, as sequences of <<key, value>>.        *)

Keys(d) == {d[i][1] : i \in 1..Len(d)}
Get(d, k) == (CHOOSE p \in ToSet(d) : p[1] = k)[2]
Put(d, k, v) ==
  IF k \in Keys(d) THEN [i \in 1..Len(d) |-> IF d[i][1] = k THEN <<k, v>> ELSE d[i]]
                   ELSE Append(d, <<k, v>>)

\* int(s, 0)
ParseInt(v) == IF v \in Nat THEN v ELSE None

\* int(seg, 0) succeeds: the segment is digits ("0" and "1" stand for them).
IsInt(seg) == seg # <<>> /\ \A i \in 1..Len(seg) : seg[i] \in {"0", "1"}

\* parameter_map: a blank term is skipped, "f" means "f=1", and a term
\* with an empty field name fails the assertion.
ParameterMap(ts) ==
  FoldLeft(LAMBDA r, t :
             CASE r.err # "ok" \/ t = Blank -> r
               [] t.f = ""                  -> [r EXCEPT !.err = "AssertionError"]
               [] OTHER -> [r EXCEPT !.d = Put(@, t.f, IF t.v = NoEq THEN 1 ELSE t.v)],
           [d |-> <<>>, err |-> "ok"], ts)

-----------------------------------------------------------------------------
(* The object.  A step works on s: EventAttr's [a, err] with the other     *)
(* attributes; once an exception is raised later steps do nothing.        *)

\* PerfEventAttr() with _set_all_valid(): the default size, every bit valid.
DefaultAttr == [Fresh(PerfAttrSizeDefault) EXCEPT !.valid = {f \in Fields : Ix(f) < PerfAttrSizeDefault * 8}]

\* Mutant: reset() leaves PMU and cpumask as they were.
ResetKeepPmu(s) == [s EXCEPT !.a = DefaultAttr, !.err = "ok", !.log = <<>>, !.extra = <<>>]

\* reset(): a new attribute, no errors, no modifiers, no PMU or cpumask.
Reset(s) ==
  [s EXCEPT !.a = DefaultAttr, !.err = "ok", !.log = <<>>, !.extra = <<>>,
            !.pmu = None, !.cpumask = None]

\* EventConfig(): a reset object.
NewEventConfig ==
  Reset([a |-> DefaultAttr, err |-> "ok", log |-> <<>>, space |-> <<>>, extra |-> <<>>,
         pmu |-> None, cpumask |-> None])

Report(s, k) == IF s.err = "ok" THEN [s EXCEPT !.log = Append(@, k)] ELSE s

SetAll(s, kvs) == FoldLeft(LAMBDA t, x : SetAttr(t, x[1], x[2]), s, kvs)

\* self.attr.n |= v, and self.attr.n &= ~v
OrInto(s, n, v) ==
  LET g == GetAttr(s.a, n)
  IN  CASE s.err # "ok"            -> s
        [] g.err # "ok"            -> Fail(s, g.err)
        [] g.v = None \/ v = None  -> Fail(s, "TypeError")
        [] OTHER                   -> SetAttr(s, n, g.v | v)
ClearBits(s, n, v) ==
  LET g == GetAttr(s.a, n)
  IN  IF s.err # "ok" \/ g.v = None THEN Fail(s, "TypeError") ELSE SetAttr(s, n, g.v - (g.v & v))

IsValid(s) ==
  s.log = <<>> /\ GetAttr(s.a, "config").v # None /\ GetAttr(s.a, "type").v # None

-----------------------------------------------------------------------------
(* set_generic_parameter and set_custom_parameter                          *)

\* name= sets self.name and call-graph= self.perf_call_graph, which are not
\* part of the attribute; stack-size= assigns attr.stack_user, a plain
\* instance attribute the attribute's bytes never carry.
SetGenericParameter(s, p, svalue, value0, merge) ==
  LET value == IF value0 = None THEN ParseInt(svalue) ELSE value0
  IN  CASE s.err # "ok"          -> s
        [] p \in ConfigWords     -> IF merge THEN OrInto(s, p, value) ELSE SetAttr(s, p, value)
        [] p \in {"name", "stack-size"} -> s
        [] p = "period"          -> SetAttr(s, "sample_period", value)
        [] p = "freq"            -> SetAttr(s, "sample_freq", value)
        [] p = "time"            -> IF value \notin {None, 0} THEN OrInto(s, "sample_type", PERF_SAMPLE_TIME)
                                    ELSE ClearBits(s, "sample_type", PERF_SAMPLE_TIME)
        [] p = "call-graph"      -> OrInto(s, "sample_type", PERF_SAMPLE_CALLCHAIN)
        [] p = "no-inherit"      -> SetAttr(s, "inherit", 0)
        [] p = "inherit"         -> SetAttr(s, "inherit", 1)
        [] OTHER                 -> Report(s, "unexpected generic parameter")

\* Mutant: the field's width taken as rhi - rlo.
SetCustomParameterNarrow(m, s, f, value0) ==
  LET value == IF value0 = None THEN 1 ELSE value0
      fmts  == m.formats[s.pmu]
  IN  CASE s.err # "ok"        -> s
        [] f \notin DOMAIN fmts -> Report(s, "unknown field")
        [] OTHER ->
             LET maxval == 2^(fmts[f].hi - fmts[f].lo) - 1
             IN  SetGenericParameter(s, fmts[f].word, None, (value & maxval) * 2^fmts[f].lo, TRUE)

\* The PMU's format file "configN:lo-hi" places the field; a value wider
\* than the field is cut to its width (with a message on stderr) and OR-ed
\* into the config word.  A value that is not a number counts as 1.
SetCustomParameter(m, s, f, value0) ==
  LET value == IF value0 = None THEN 1 ELSE value0
      fmts  == m.formats[s.pmu]
  IN  CASE s.err # "ok"        -> s
        [] f \notin DOMAIN fmts -> Report(s, "unknown field")
        [] OTHER ->
             LET maxval == 2^(fmts[f].hi - fmts[f].lo + 1) - 1
             IN  SetGenericParameter(s, fmts[f].word, None, (value & maxval) * 2^fmts[f].lo, TRUE)

-----------------------------------------------------------------------------
(* configure                                                               *)

\* The modifier characters: p and P the precision, u k h G H the spaces
\* counted, I exclude_idle, D pinned, S PERF_SAMPLE_READ; anything else
\* is reported.
Modifier(s, c) ==
  CASE s.err # "ok"                 -> s
    [] c = "p"                      -> SetAttr(s, "precise_ip", GetAttr(s.a, "precise_ip").v + 1)
    [] c = "P"                      -> SetAttr(s, "precise_ip", PRECISE_MAX)
    [] c \in {"u", "k", "h", "G", "H"} -> [s EXCEPT !.space = Append(@, c)]
    [] c = "I"                      -> SetAttr(s, "exclude_idle", 1)
    [] c = "D"                      -> SetAttr(s, "pinned", 1)
    [] c = "S"                      -> OrInto(s, "sample_type", PERF_SAMPLE_READ)
    [] OTHER                        -> [Report(s, "invalid modifier") EXCEPT !.extra = Append(@, c)]

\* self.modifiers = ''.join(espec[1:]), each character in turn.
Modifiers(s, espec) == FoldLeft(Modifier, s, FlattenSeq(Tail(espec)))

\* The field loop of a PMU event: predefined terms are merged by
\* set_generic_parameter, "@sink" terms of cs_etm name a sink of sysfs
\* (packed as sinkid; an unknown sink is skipped), any other term is a
\* format field.
FieldTerm(m, s, f, vals) ==
  LET value == ParseInt(vals)
  IN  CASE s.err # "ok"              -> s
        [] f \in PredefinedFields    -> SetGenericParameter(s, f, vals, value, TRUE)
        [] f \in SinkTerms /\ s.pmu = "cs_etm" ->
             CASE m.sinks = None            -> Fail(s, "AssertionError")
               [] f \in DOMAIN m.sinks      -> SetCustomParameter(m, s, "sinkid", m.sinks[f])
               [] OTHER                     -> s
        [] OTHER                     -> SetCustomParameter(m, s, f, value)
FieldLoop(m, s, d) == FoldLeft(LAMBDA t, x : FieldTerm(m, t, x[1], x[2]), s, d)

\* A named event of the PMU: its sysfs specifier's fields, each "?" filled
\* from the user's terms (or reported missing), a fixed one given again
\* reported; then every user term is added, overriding.
NamedEventFields(s, spec, user) ==
  LET step(r, x) ==
        CASE x[2] = Ask /\ x[1] \in Keys(user) -> [r EXCEPT !.d = Put(@, x[1], Get(user, x[1]))]
          [] x[2] = Ask                         -> [r EXCEPT !.s = Report(@, "missing field")]
          [] x[1] \in Keys(user)                -> [r EXCEPT !.s = Report(@, "already has field")]
          [] OTHER                              -> r
      r1 == FoldLeft(step, [s |-> s, d |-> spec], spec)
  IN  [s |-> r1.s, d |-> FoldLeft(LAMBDA d, x : Put(d, x[1], x[2]), r1.d, user)]

\* "pmu/terms/": an unknown PMU is reported unless quiet and ends the call;
\* otherwise type, PMU and cpumask come from sysfs and the config words
\* start at 0.  A first term without '=' names an event when the PMU has
\* named events: an unknown one is reported and the next line's reference
\* to PMU (not self.PMU) raises NameError; when quiet, event_fields stays
\* unbound and the loop raises UnboundLocalError.
CustomEvent(m, s, b, params, quiet, espec) ==
  IF b \notin DOMAIN m.types
  THEN IF quiet THEN s ELSE Report(s, "unknown hardware PMU")
  ELSE
    LET t0   == SetAll([s EXCEPT !.pmu = b, !.cpumask = m.cpumask[b]],
                       <<<<"type", m.types[b]>>, <<"config", 0>>, <<"config1", 0>>, <<"config2", 0>>>>)
        name == params[1]
        pm   == ParameterMap(params)
        user == ParameterMap(Tail(params))
    IN  IF b \in DOMAIN m.events /\ name.v = NoEq
        THEN IF name.f \in DOMAIN m.events[b]
             THEN LET spec == ParameterMap(m.events[b][name.f])
                      r    == NamedEventFields(t0, spec.d, user.d)
                  IN  IF user.err # "ok" THEN Fail(t0, user.err)
                      ELSE Modifiers(FieldLoop(m, r.s, r.d), espec)
             ELSE IF quiet THEN Fail(t0, "UnboundLocalError")
                  ELSE Fail(Report(t0, "unknown event of subsystem"), "NameError")
        ELSE IF pm.err # "ok" THEN Fail(t0, pm.err)
             ELSE Modifiers(FieldLoop(m, t0, pm.d), espec)

\* "mem:addr[:rwx]": int(addr, 0) is evaluated first; then update() sets
\* type and config and raises AttributeError at bp_addr, a property with
\* no setter, so the bp_type loop after it is never reached.
Breakpoint(s, espec) ==
  IF ~IsInt(espec[2]) THEN Fail(s, "ValueError")
  ELSE Fail(UpdateKwarg(UpdateKwarg(s, "type", PERF_TYPE_BREAKPOINT), "config", 0), "AttributeError")

\* "group:event": the tracepoint's id, or a report; no modifiers.
Tracepoint(m, s, b, espec) ==
  IF <<b, espec[2]>> \in DOMAIN m.tracepoints
  THEN SetAll(s, <<<<"type", PERF_TYPE_TRACEPOINT>>, <<"config", m.tracepoints[<<b, espec[2]>>]>>>>)
  ELSE Report(s, "unknown tracepoint")

RECURSIVE Configure(_, _, _, _)

\* Any other name: a cache event, else configure("cpu/name/", quiet=True),
\* whose exceptions are swallowed with what it did to the object; then
\* the JSON lookup, which raises NameError (PMUdesc is never imported:
\* the import is of PMUdescx) and is swallowed, and a report.
BareName(m, s, b) ==
  IF b \in DOMAIN HwCache
  THEN UpdateKwarg(UpdateKwarg(s, "type", PERF_TYPE_HW_CACHE), "config", HwCache[b])
  ELSE LET r == Configure(m, s, [base |-> "cpu", slashes |-> 2, params |-> <<[f |-> b, v |-> NoEq]>>,
                                 emods |-> <<>>, segs |-> <<>>], TRUE)
       IN  IF r.err = "ok" THEN r
           ELSE Report([r EXCEPT !.err = "ok"], "unknown event")

\* self.configure(e, quiet) on machine m, self being s.
Configure(m, s, e, quiet) ==
  LET s1 == SetAll([Reset(s) EXCEPT !.space = <<>>], <<<<"type", None>>, <<"config", None>>, <<"config1", 0>>, <<"config2", 0>>,
                            <<"bp_type", None>>, <<"inherit", None>>,
                            <<"exclude_hv", 1>>, <<"exclude_guest", 1>>>>)
      s2 == IF e.slashes = 1 THEN Report(s1, "bad event") ELSE s1
      params == CASE e.slashes = 0 -> <<>> [] e.slashes = 1 -> <<Blank>> [] OTHER -> e.params
      espec  == <<e.base>> \o (IF e.emods # <<>> THEN <<e.emods>> ELSE <<>>) \o e.segs
      whole  == e.slashes = 0
      b      == e.base
  IN  CASE whole /\ b \in DOMAIN RawHex ->
             Modifiers(UpdateKwarg(UpdateKwarg(s2, "type", PERF_TYPE_RAW), "config", RawHex[b]), espec)
        [] b \in DOMAIN PerfEventMap ->
             LET t  == SetAll(s2, <<<<"type", PerfEventMap[b][1]>>, <<"config", PerfEventMap[b][2]>>>>)
                 pm == ParameterMap(params)
             IN  IF pm.err # "ok" THEN Fail(t, pm.err)
                 ELSE Modifiers(FoldLeft(LAMBDA u, x : SetGenericParameter(u, x[1], x[2], None, FALSE),
                                         t, pm.d), espec)
        [] whole /\ b \in DOMAIN CountConsts ->
             LET c == CountConsts[b]
             IN  Modifiers(CASE c.hw -> SetAll(s2, <<<<"type", PERF_TYPE_HARDWARE>>, <<"config", c.val>>>>)
                             [] c.sw -> SetAll(s2, <<<<"type", PERF_TYPE_SOFTWARE>>, <<"config", c.val>>>>)
                             [] OTHER -> s2, espec)
        [] params # <<>> -> CustomEvent(m, s2, b, params, quiet, espec)
        [] whole /\ b = "mem" /\ Len(espec) \in {2, 3} -> Breakpoint(s2, espec)
        [] whole /\ Len(espec) = 2 -> Tracepoint(m, s2, b, espec)
        [] OTHER -> BareName(m, s2, b)

-----------------------------------------------------------------------------
(* The object of a caller, and the descriptor run                          *)

VARIABLES
  mode,    \* which object the behaviour exercises: "attr" or "config"
  mach,    \* the machine's sysfs
  ec,      \* the EventConfig object
  given    \* the specifier of the last configure, or None

cvars == <<mode, mach, ec, given>>

\* EventConfig(e), or configure(e) on an object: a call that raises
\* leaves the object as the exception found it.
ConfigureEvent(e) ==
  /\ ec' = Configure(mach, ec, e, FALSE)
  /\ given' = e
  /\ UNCHANGED <<mode, mach>>

\* EventConfig() (reset) on some machine, beside the PerfEventAttr objects
\* of EventAttr; a behaviour exercises one or the other.
DescInit ==
  /\ Init
  /\ ec = NewEventConfig /\ given = None
  /\ \/ mode = "attr" /\ mach = CHOOSE m \in Machines : TRUE
     \/ mode = "config" /\ mach \in Machines
        /\ attrs = [o \in Objs |-> Fresh(PerfAttrSizeDefault)]

DescNext ==
  \/ mode = "attr" /\ Next /\ UNCHANGED cvars
  \/ mode = "config" /\ \E e \in Specs : ConfigureEvent(e) /\ UNCHANGED vars

DescSpec == DescInit /\ [][DescNext]_<<vars, cvars>>

-----------------------------------------------------------------------------
(* Properties                                                              *)

Returned == given # None /\ ec.err = "ok" /\ IsValid(ec)

\* The specifier's named event, if its first term names one of the PMU's.
NamedEvent(e) ==
  /\ e.base \in DOMAIN mach.events
  /\ e.params # <<>> /\ e.params[1].v = NoEq
  /\ e.params[1].f \in DOMAIN mach.events[e.base]

\* The fields the user asked for, and the value of each: the last term
\* naming it ("f" alone meaning 1), or the named event's fixed value.
UserTerms(e) == IF NamedEvent(e) THEN Tail(e.params) ELSE e.params
FixedTerms(e) ==
  IF NamedEvent(e) THEN {t \in ToSet(mach.events[e.base][e.params[1].f]) : t.v # Ask} ELSE {}
Asked(e) == {t.f : t \in ToSet(UserTerms(e)) \cup FixedTerms(e)} \ {""}
AskedValue(e, f) ==
  LET us == {i \in 1..Len(UserTerms(e)) : UserTerms(e)[i].f = f}
      t  == IF us # {} THEN UserTerms(e)[CHOOSE i \in us : \A j \in us : j <= i]
                       ELSE CHOOSE x \in FixedTerms(e) : x.f = f
  IN  IF t.v = NoEq THEN 1 ELSE t.v

\* What the kernel reads from a field of format x.
Width(x) == x.hi - x.lo + 1
Decode(a, x) == (FieldGet(a, x.word) \div 2^x.lo) % 2^Width(x)
FieldMask(x) == 2^(x.hi + 1) - 2^x.lo

(***************************************************************************)
(* A PMU event "pmu/f=v,.../" (or a named event of the PMU with its "?"    *)
(* fields given) that configure accepts as valid, whose terms are numbers *)
(* for fields of the PMU's format (beside predefined terms other than the *)
(* config words): the kernel reads back from the config words every value *)
(* asked for, cut to its field's width, and no bit outside the fields     *)
(* asked for is set.  This is the merge of set_custom_parameter's masks   *)
(* and shifts across terms, named-event defaults and user values.         *)
(***************************************************************************)
ConfigEncodesTerms ==
  LET e    == given
      fmts == mach.formats[e.base]
  IN  Returned /\ e.slashes = 2 /\ e.base \in DOMAIN mach.types
      /\ e.base \notin DOMAIN PerfEventMap
      /\ (\A f \in Asked(e) : \/ f \in DOMAIN fmts /\ AskedValue(e, f) \in Nat
                              \/ f \in PredefinedFields \ ConfigWords)
      => /\ \A f \in Asked(e) \cap DOMAIN fmts :
               Decode(ec.a, fmts[f]) = AskedValue(e, f) % 2^Width(fmts[f])
         /\ \A w \in ConfigWords :
               LET mask == FoldSet(LAMBDA f, acc : acc + FieldMask(fmts[f]), 0,
                                   {f \in Asked(e) \cap DOMAIN fmts : fmts[f].word = w})
               IN  FieldGet(ec.a, w) & mask = FieldGet(ec.a, w)

(***************************************************************************)
(* An event that configure accepts as valid and that names a PMU is an    *)
(* event of that PMU: its type is the PMU's, and it is opened on the PMU's *)
(* cpumask.  The retry of a bare name as "cpu/name/" leaves the cpu PMU,   *)
(* its type and cpumask on the object when it raises; only a report after *)
(* it keeps that object from being used.                                   *)
(***************************************************************************)
EventOwnsPmu ==
  Returned /\ ec.pmu # None =>
    /\ GetAttr(ec.a, "type").v = mach.types[ec.pmu]
    /\ ec.cpumask = mach.cpumask[ec.pmu]

====
