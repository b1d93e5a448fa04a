------------------------------ MODULE EventAttr ------------------------------
(***************************************************************************)
(* PerfEventAttr (perf_attr.py): the perf_event_attr structure with        *)
(* validity tracking per field.                                            *)
(*                                                                         *)
(* An object holds the raw bytes (_raw) and _valid, the validity indices   *)
(* (ix) of the fields that have been set; a field that is not valid reads  *)
(* as None.  Two fields are unions read through properties:                *)
(* _sample_period_or_freq is sample_period or sample_freq as the freq bit  *)
(* says, _wakeup_watermark_or_events is wakeup_events or wakeup_watermark  *)
(* as the watermark bit says.  Names that are neither fields nor           *)
(* properties become plain instance attributes when assigned.              *)
(*                                                                         *)
(* The raw bytes are kept per field: no two modelled fields share a bit,   *)
(* and setbitof and _Bits.set_value change only their field's bits.  A    *)
(* field's ix is unique, so _valid is kept as a set of fields.  The model *)
(* follows Python 3, where hasattr propagates every exception other than  *)
(* AttributeError.                                                         *)
(***************************************************************************)
EXTENDS Naturals, Sequences, SequencesExt, FiniteSets

CONSTANTS
  Objs,      \* the PerfEventAttr objects a caller holds
  Vals,      \* non-zero values of the integer fields
  Sizes,     \* size of an object built field by field (perf_attr_size_default)
  Raws,      \* raw images read from perf.data: records [size, raw]
  KwNames,   \* keyword names passed to update and set_defaults
  MaxOps,    \* calls per behaviour
  None       \* Python None

\* The descriptors (class attributes of PerfEventAttr) of the modelled
\* fields: _Field(fmt, pos), _Bit(pos, n), _Bits(fmt, pos, n, b); w is
\* struct.calcsize(fmt).
Layout ==
     ("type"                        :> [k |-> "Field", pos |-> 0,  n |-> 0,  w |-> 4, b |-> 0])
  @@ ("config"                      :> [k |-> "Field", pos |-> 8,  n |-> 0,  w |-> 8, b |-> 0])
  @@ ("_sample_period_or_freq"      :> [k |-> "Field", pos |-> 16, n |-> 0,  w |-> 8, b |-> 0])
  @@ ("sample_type"                 :> [k |-> "Field", pos |-> 24, n |-> 0,  w |-> 8, b |-> 0])
  @@ ("inherit"                     :> [k |-> "Bit",   pos |-> 40, n |-> 1,  w |-> 0, b |-> 1])
  @@ ("pinned"                      :> [k |-> "Bit",   pos |-> 40, n |-> 2,  w |-> 0, b |-> 1])
  @@ ("exclude_hv"                  :> [k |-> "Bit",   pos |-> 40, n |-> 6,  w |-> 0, b |-> 1])
  @@ ("exclude_idle"                :> [k |-> "Bit",   pos |-> 40, n |-> 7,  w |-> 0, b |-> 1])
  @@ ("freq"                        :> [k |-> "Bit",   pos |-> 40, n |-> 10, w |-> 0, b |-> 1])
  @@ ("watermark"                   :> [k |-> "Bit",   pos |-> 40, n |-> 14, w |-> 0, b |-> 1])
  @@ ("precise_ip"                  :> [k |-> "Bits",  pos |-> 40, n |-> 15, w |-> 8, b |-> 2])
  @@ ("exclude_guest"               :> [k |-> "Bit",   pos |-> 40, n |-> 20, w |-> 0, b |-> 1])
  @@ ("context_switch"              :> [k |-> "Bit",   pos |-> 40, n |-> 26, w |-> 0, b |-> 1])
  @@ ("_wakeup_watermark_or_events" :> [k |-> "Field", pos |-> 48, n |-> 0,  w |-> 4, b |-> 0])
  @@ ("bp_type"                     :> [k |-> "Field", pos |-> 52, n |-> 0,  w |-> 4, b |-> 0])
  @@ ("config1"                     :> [k |-> "Field", pos |-> 56, n |-> 0,  w |-> 8, b |-> 0])
  @@ ("config2"                     :> [k |-> "Field", pos |-> 64, n |-> 0,  w |-> 8, b |-> 0])

Fields == DOMAIN Layout

\* The validity index and the end position of a field's bytes.
Ix(f)   == Layout[f].pos * 8 + Layout[f].n
Epos(f) == IF Layout[f].k = "Bit" THEN Layout[f].pos + Layout[f].n \div 8 + 1
           ELSE Layout[f].pos + Layout[f].w

\* The union properties: the selector bit, the value it must have, and the
\* field that stores the value.
Member ==
     ("sample_period"    :> [sel |-> "freq",      is |-> 0, store |-> "_sample_period_or_freq"])
  @@ ("sample_freq"      :> [sel |-> "freq",      is |-> 1, store |-> "_sample_period_or_freq"])
  @@ ("wakeup_events"    :> [sel |-> "watermark", is |-> 0, store |-> "_wakeup_watermark_or_events"])
  @@ ("wakeup_watermark" :> [sel |-> "watermark", is |-> 1, store |-> "_wakeup_watermark_or_events"])

\* The names _fields_in_address_order yields for a union whose selector is
\* None; assigning one creates an instance attribute of that name.
CombPF == "{ sample_period, sample_freq }"
CombWW == "{ wakeup_events, wakeup_watermark }"
Junk   == {CombPF, CombWW}

\* The values a caller passes for a name: bits take 0 or 1, a _Bits field
\* any value up to one past its width, every other name an integer.
Dom(n) == CASE n \in Fields /\ Layout[n].k = "Bit"  -> {0, 1}
            [] n \in Fields /\ Layout[n].k = "Bits" -> 0..2^Layout[n].b
            [] OTHER                                -> Vals

\* An object; a bit or bit range of the raw bytes holds a value of its width.
Attr == {a \in [size : Nat, raw : [Fields -> Nat], valid : SUBSET Fields,
                extra : [Junk -> SUBSET (Nat \cup {None})]] :
           \A f \in Fields : Layout[f].k # "Field" => a.raw[f] < 2^Layout[f].b}

\* PerfEventAttr(size=s): a zeroed buffer, nothing valid.
Fresh(s) == [size |-> s, raw |-> [f \in Fields |-> 0], valid |-> {},
             extra |-> [j \in Junk |-> {}]]

\* PerfEventAttr(raw): every bit below size*8 valid (_set_all_valid).
FromRaw(r) == [size |-> r.size, raw |-> r.raw,
               valid |-> {f \in Fields : Ix(f) < r.size * 8},
               extra |-> [j \in Junk |-> {}]]

-----------------------------------------------------------------------------
(* Reading and writing one name.  A step works on [a, err]: the object and *)
(* "ok" or the exception raised; once raised, later writes do nothing.      *)

Res(v)   == [err |-> "ok", v |-> v]
Raise(e) == [err |-> e, v |-> None]
Truthy(x) == x \notin {None, 0}

\* _FieldBase.__get__
FieldGet(a, f) == IF f \in a.valid THEN a.raw[f] ELSE None

\* getattr(obj, n)
GetAttr(a, n) ==
  CASE n \in Fields        -> Res(FieldGet(a, n))
    [] n = "size"          -> Res(a.size)
    [] n \in DOMAIN Member ->
         IF Truthy(FieldGet(a, Member[n].sel)) = (Member[n].is = 1)
         THEN Res(FieldGet(a, Member[n].store)) ELSE Raise("AssertionError")
    [] n \in Junk /\ a.extra[n] # {} -> Res(CHOOSE v \in a.extra[n] : TRUE)
    [] OTHER               -> Raise("AttributeError")

Fail(s, e) == IF s.err = "ok" THEN [s EXCEPT !.err = e] ELSE s

\* set_value: setbitof keeps the low bit of a _Bit's value; _Field and
\* _Bits pack the value whole.
StoreValue(f, v) == IF Layout[f].k = "Bit" THEN v % 2 ELSE v

SetFieldNoSizeCheck(s, f, v) ==
  CASE s.err # "ok" -> s
    [] v = None     -> [s EXCEPT !.a.valid = @ \ {f}]
    [] Layout[f].k = "Bits" /\ v > 2^Layout[f].b - 1 -> Fail(s, "AssertionError")
    [] OTHER -> [s EXCEPT !.a.raw[f] = StoreValue(f, v),
                          !.a.valid = @ \cup {f}]

SetFieldNoMaskCheck(s, f, v) ==
  CASE s.err # "ok" -> s
    [] v = None     -> [s EXCEPT !.a.valid = @ \ {f}]
    [] Epos(f) > s.a.size -> Fail(s, "AssertionError")
    [] OTHER -> [s EXCEPT !.a.raw[f] = StoreValue(f, v),
                          !.a.valid = @ \cup {f}]

\* _FieldBase.__set__ with set_value: None clears the valid bit; a value
\* past the object's size, or too wide for a _Bits, fails the assertion.
SetField(s, f, v) ==
  CASE s.err # "ok" -> s
    [] v = None     -> [s EXCEPT !.a.valid = @ \ {f}]
    [] Epos(f) > s.a.size -> Fail(s, "AssertionError")
    [] Layout[f].k = "Bits" /\ v > 2^Layout[f].b - 1 -> Fail(s, "AssertionError")
    [] OTHER -> [s EXCEPT !.a.raw[f] = StoreValue(f, v),
                          !.a.valid = @ \cup {f}]

\* obj.__setattr__(n, v): a union setter writes its selector, then the value.
SetAttr(s, n, v) ==
  CASE s.err # "ok"        -> s
    [] n \in Fields        -> SetField(s, n, v)
    [] n \in DOMAIN Member -> SetField(SetField(s, Member[n].sel, Member[n].is), Member[n].store, v)
    [] n \in Junk          -> [s EXCEPT !.a.extra[n] = {v}]
    [] OTHER               -> Fail(s, "AttributeError")   \* size has no setter

\* is_settable_field: hasattr, then the union names.
IsSettable(a, n) ==
  LET g == GetAttr(a, n)
  IN  CASE g.err = "AttributeError" -> Res(n \in DOMAIN Member)
        [] g.err # "ok"             -> g
        [] OTHER                    -> Res(TRUE)

\* The public fields in address order (_class_fields_in_address_order).
PublicFields == Fields \ {"_sample_period_or_freq", "_wakeup_watermark_or_events"}
SortedFields ==
  [i \in 1..Cardinality(PublicFields) |->
     CHOOSE f \in PublicFields : Cardinality({g \in PublicFields : Ix(g) < Ix(f)}) = i - 1]

\* _fields_in_address_order(): a union's name follows its selector's value.
UnionName(a, sel, comb, m0, m1) ==
  CASE FieldGet(a, sel) = None -> comb
    [] FieldGet(a, sel) = 0    -> m0
    [] OTHER                   -> m1

FieldsInAddressOrder(a) ==
  LET item(f) ==
        CASE f = "type"   -> <<<<f, FieldGet(a, f)>>, <<"size", a.size>>>>
          [] f = "config" -> <<<<f, FieldGet(a, f)>>,
                              <<UnionName(a, "freq", CombPF, "sample_period", "sample_freq"),
                                FieldGet(a, "_sample_period_or_freq")>>>>
          [] f = "context_switch" ->
                             <<<<f, FieldGet(a, f)>>,
                              <<UnionName(a, "watermark", CombWW, "wakeup_events", "wakeup_watermark"),
                                FieldGet(a, "_wakeup_watermark_or_events")>>>>
          [] OTHER        -> <<<<f, FieldGet(a, f)>>>>
  IN  FoldLeft(LAMBDA acc, f : acc \o item(f), <<>>, SortedFields)

\* update(other): copy every name other yields, size excepted.
UpdateFrom(s, b) ==
  FoldLeft(LAMBDA t, x : IF x[1] = "size" THEN t ELSE SetAttr(t, x[1], x[2]),
           s, FieldsInAddressOrder(b))

\* update(n=v): the name must be settable, else TypeError.
UpdateKwarg(s, n, v) ==
  LET ok == IsSettable(s.a, n)
  IN  CASE s.err # "ok" -> s
        [] ok.err # "ok" -> Fail(s, ok.err)
        [] ~ok.v         -> Fail(s, "TypeError")
        [] OTHER         -> SetAttr(s, n, v)

DefaultKwargAlways(s, n, v) ==
  IF n \in {"sample_freq", "sample_period"}
  THEN SetAttr(s, n, v)
  ELSE LET g == GetAttr(s.a, n)
           t == IF g.err = "ok" /\ g.v = None THEN SetAttr(s, n, v) ELSE s
       IN  [t EXCEPT !.err = "ok"]

\* set_defaults(n=v): a union member is written outright while freq is
\* None; any other name only when it reads None, and every exception of
\* the read or the write is swallowed (what the write did stays done).
DefaultKwarg(s, n, v) ==
  IF n \in {"sample_freq", "sample_period"} /\ FieldGet(s.a, "freq") = None
  THEN SetAttr(s, n, v)
  ELSE LET g == GetAttr(s.a, n)
           t == IF g.err = "ok" /\ g.v = None THEN SetAttr(s, n, v) ELSE s
       IN  [t EXCEPT !.err = "ok"]

\* set_defaults(other): every name other yields that reads None here; a
\* read that raises is not caught.
DefaultsFrom(s, b) ==
  FoldLeft(LAMBDA t, x :
             LET g == GetAttr(t.a, x[1])
             IN  CASE t.err # "ok" -> t
                   [] g.err # "ok" -> Fail(t, g.err)
                   [] g.v = None   -> SetAttr(t, x[1], x[2])
                   [] OTHER        -> t,
           s, FieldsInAddressOrder(b))

-----------------------------------------------------------------------------
VARIABLES
  attrs,     \* the objects
  status,    \* "ok", or the exception the last call raised
  call,      \* the last call: [op, o]
  ops        \* calls made

vars == <<attrs, status, call, ops>>

Init ==
  /\ attrs \in [Objs -> {Fresh(s) : s \in Sizes} \cup {FromRaw(r) : r \in Raws}]
  /\ status = "ok"
  /\ call = [op |-> "init", o |-> CHOOSE o \in Objs : TRUE]
  /\ ops = 0

\* A call on object o that leaves step result s (or raises s.err).
Done(op, o, s) ==
  /\ attrs' = [attrs EXCEPT ![o] = s.a]
  /\ status' = s.err
  /\ call' = [op |-> op, o |-> o]
  /\ ops' = ops + 1

Ready == status = "ok" /\ ops < MaxOps

\* attr.update(**{n: v})
Update(o, n, v) ==
  /\ Ready
  /\ Done("update", o, UpdateKwarg([a |-> attrs[o], err |-> "ok"], n, v))

\* attr.update(other)
UpdateOther(o, b) ==
  /\ Ready /\ o # b
  /\ Done("update", o, UpdateFrom([a |-> attrs[o], err |-> "ok"], attrs[b]))

\* attr.set_defaults(**{n: v})
SetDefaults(o, n, v) ==
  /\ Ready
  /\ Done("set_defaults", o, DefaultKwarg([a |-> attrs[o], err |-> "ok"], n, v))

\* attr.set_defaults(other)
SetDefaultsOther(o, b) ==
  /\ Ready /\ o # b
  /\ Done("set_defaults", o, DefaultsFrom([a |-> attrs[o], err |-> "ok"], attrs[b]))

\* o = copy.copy(b): the bytes and the valid set, no instance attributes.
Copy(o, b) ==
  /\ Ready /\ o # b
  /\ Done("copy", o, [a |-> [attrs[b] EXCEPT !.extra = [j \in Junk |-> {}]], err |-> "ok"])

Next ==
  \E o \in Objs :
    \/ \E n \in KwNames : \E v \in Dom(n) \cup {None} : Update(o, n, v) \/ SetDefaults(o, n, v)
    \/ \E b \in Objs : UpdateOther(o, b) \/ SetDefaultsOther(o, b) \/ Copy(o, b)

Spec == Init /\ [][Next]_vars

-----------------------------------------------------------------------------
TypeOK ==
  /\ attrs \in [Objs -> Attr]
  /\ status \in {"ok", "AssertionError", "AttributeError", "TypeError"}
  /\ call \in [op : {"init", "update", "set_defaults", "copy"}, o : Objs]
  /\ ops \in 0..MaxOps

\* Every field that reads as set lies within the object's size, so
\* bytes() carries it and PerfEventAttr(bytes()) reads it back: __set__
\* refuses a field past the end, and a raw image marks valid only the
\* fields inside it.
SetFieldsEncoded ==
  \A o \in Objs : \A f \in attrs[o].valid : Epos(f) <= attrs[o].size

\* A union is tagged when its selector bit is set or it holds no value.
UnionsTagged(a) ==
  \A m \in {"sample_period", "wakeup_events"} :
    FieldGet(a, Member[m].store) # None => FieldGet(a, Member[m].sel) # None

\* set_defaults "sets defaults for any fields that haven't already been
\* set", and "sample_freq=xx should not override sample_period=xx": on an
\* object whose unions are tagged, a set_defaults call (with keywords or
\* with another object) never changes what a field or union property that
\* read as a value reads.
DefaultsKeepSet ==
  [][call'.op = "set_defaults" /\ UnionsTagged(attrs[call'.o]) =>
       \A n \in Fields \cup DOMAIN Member :
         LET g == GetAttr(attrs[call'.o], n)
         IN  g.err = "ok" /\ g.v # None => GetAttr(attrs'[call'.o], n) = g]_vars

=============================================================================
