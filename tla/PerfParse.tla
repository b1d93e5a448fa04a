------------------------------ MODULE PerfParse ------------------------------
(***************************************************************************)
(* perf_parse.perf_parse (perf_parse.py): the list of events given to     *)
(* -e, as a list of groups.  A comma separates events, except between the  *)
(* slashes of a PMU event (cpu/event=1,umask=2/); braces make a group, and *)
(* a :modifier after the closing brace is appended to each of its events.  *)
(*                                                                         *)
(* A string is a sequence of one-character strings; Python's 0-based      *)
(* indices and slices are kept, so that the translation can be read        *)
(* against the code.  An AssertionError is a result with ok = FALSE.       *)
(***************************************************************************)
EXTENDS Integers, Sequences, SequencesExt

\* str.find(c): the index of the first c, or -1.
Find(s, c) == SelectInSeq(s, LAMBDA e : e = c) - 1

\* s[a:] and s[a:b] (0 <= a <= b <= len(s)), clamped as Python does.
From(s, a)     == IF a >= Len(s) THEN <<>> ELSE SubSeq(s, a + 1, Len(s))
Slice(s, a, b) == SubSeq(s, a + 1, b)

Ok(v) == [ok |-> TRUE, v |-> v]
Err   == [ok |-> FALSE, v |-> <<>>]

\* flatten(group, suffix): every event of the group's lists, with the suffix.
Flatten(group, suffix) ==
  LET evs == FlattenSeq(group) IN [k \in 1..Len(evs) |-> evs[k] \o suffix]

RECURSIVE PerfParse(_), ParseGroup(_), ParseEvent(_)

\* s starts with '{': the group up to the first '}', its suffix, the rest.
\* The suffix test reads s[kix+1], a single character, so it finds no
\* comma and the suffix runs to the end of s.
ParseGroup(s) ==
  LET kix    == Find(s, "}")
      group  == PerfParse(Slice(s, 1, kix))
      hasSfx == From(s, kix + 1) # <<>> /\ s[kix + 2] = ":"
      cix    == Find(<<s[kix + 2]>>, ",")
      suffix == CASE ~hasSfx  -> <<>>
                  [] cix >= 0 -> Slice(s, kix + 1, kix + 1 + cix)
                  [] OTHER    -> From(s, kix + 1)
      next   == kix + (IF hasSfx /\ cix >= 0 THEN cix ELSE Len(suffix))
      rest   == PerfParse(From(s, next + 1))
  IN  CASE kix < 0                                -> Err
        [] ~group.ok                              -> Err
        [] hasSfx /\ ~(suffix # <<>> /\ suffix[1] = ":") -> Err
        [] ~rest.ok                               -> Err
        [] OTHER -> Ok(<<Flatten(group.v, suffix)>> \o rest.v)

\* Mutant: the comma search ignores the slashes of a PMU event.
ParseEventNoSlash(s) ==
  LET cix == Find(s, ",")
      rest == PerfParse(From(s, cix + 1))
  IN  CASE cix < 0   -> Ok(<<<<s>>>>)
        [] ~rest.ok  -> Err
        [] OTHER     -> Ok(<<<<Slice(s, 0, cix)>>>> \o rest.v)

\* An event: up to the next comma, or, when a slash comes first, up to the
\* first comma after the closing slash.
ParseEvent(s) ==
  LET cix0  == Find(s, ",")
      six   == Find(s, "/")
      slash == six >= 0 /\ (cix0 < 0 \/ six < cix0)
      csix0 == Find(From(s, six + 1), "/")
      csix  == csix0 + six + 1
      c2    == Find(From(s, csix + 1), ",")
      cix   == IF slash THEN (IF c2 >= 0 THEN c2 + csix + 1 ELSE c2) ELSE cix0
      rest  == PerfParse(From(s, cix + 1))
  IN  CASE slash /\ csix0 < 0 -> Err
        [] cix < 0            -> Ok(<<<<s>>>>)
        [] ~rest.ok           -> Err
        [] OTHER              -> Ok(<<<<Slice(s, 0, cix)>>>> \o rest.v)

PerfParse(s) ==
  CASE s = <<>>     -> Ok(<<>>)
    [] s[1] = ","   -> PerfParse(Tail(s))
    [] s[1] = "{"   -> ParseGroup(s)
    [] OTHER        -> ParseEvent(s)

-----------------------------------------------------------------------------
(* The list syntax the module docstring describes, as a generator: a list  *)
(* of items, each an event or a group of events with an optional suffix,   *)
(* written with separators of one or more commas, and what it denotes.     *)

CONSTANTS
  EventTexts,   \* events as written: names, PMU events with terms, modifiers
  GroupSuffixes, \* group suffixes, :<modifiers>
  MaxItems      \* items in one list

VARIABLE input  \* the list given to -e (<<>> when none is parsed)

Items ==
  [grp : {FALSE}, evs : {<<e>> : e \in EventTexts}, sfx : {<<>>}] \cup
  [grp : {TRUE}, evs : SeqOf(EventTexts, 2) \ {<<>>}, sfx : {<<>>} \cup GroupSuffixes]

\* Lists as perf stat takes them, with a leading, doubled or trailing comma;
\* a group's suffix, when there is one, ends the string (the one place the
\* unit tests put it: ParseGroup takes everything after ':' as the suffix).
Inputs ==
  {in \in [items : SeqOf(Items, MaxItems) \ {<<>>}, lead : BOOLEAN,
           seps : [1..MaxItems -> {<<",">>, <<",", ",">>}], trail : BOOLEAN] :
     \A k \in 1..Len(in.items) :
       in.items[k].sfx # <<>> => k = Len(in.items) /\ ~in.trail}

JoinWith(evs, sep) ==
  FoldLeft(LAMBDA acc, e : IF acc = <<>> THEN e ELSE acc \o sep \o e, <<>>, evs)

Written(it) ==
  IF it.grp THEN <<"{">> \o JoinWith(it.evs, <<",">>) \o <<"}">> \o it.sfx
            ELSE it.evs[1]

Render(in) ==
  (IF in.lead THEN <<",">> ELSE <<>>)
  \o FoldLeft(LAMBDA acc, k : IF k = 1 THEN Written(in.items[1])
                              ELSE acc \o in.seps[k] \o Written(in.items[k]),
              <<>>, [k \in 1..Len(in.items) |-> k])
  \o (IF in.trail THEN <<",">> ELSE <<>>)

Denoted(in) ==
  [k \in 1..Len(in.items) |->
     [j \in 1..Len(in.items[k].evs) |-> in.items[k].evs[j] \o in.items[k].sfx]]

ParseInit == input \in Inputs

(***************************************************************************)
(* perf_parse docstring: the result has one list per group, in order, and *)
(* a singleton list per event outside braces.  For every list of events,   *)
(* PMU events whose terms hold commas, groups and extra commas, perf_parse *)
(* returns exactly the groups written, the suffix of a final group         *)
(* appended to each of its events.                                          *)
(***************************************************************************)
ParseAsDocumented ==
  input # <<>> =>
    LET r == PerfParse(Render(input)) IN r.ok /\ r.v = Denoted(input)

=============================================================================
