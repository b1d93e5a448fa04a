---------------------------- MODULE RecordCodec -----------------------------
(***************************************************************************)
(* PerfRecord.unpack, unpack_sample_id, time() and the field offsets of    *)
(* perf_abi.py: the decoding of a kernel record whose layout is fixed by   *)
(* the event's sample_type, checked against the layout the kernel writes   *)
(* (perf_event_open(2), "PERF_RECORD_SAMPLE" and "sample_id").             *)
(*                                                                         *)
(* A payload is a sequence of 8-byte words.  Each word the kernel writes   *)
(* carries the name of the field it belongs to (its tag) and a number (a   *)
(* count or size, or -1 for all ones); a decoder that loses its place      *)
(* reads a word under the wrong name.  The decoder keeps a byte offset, as *)
(* the code's d = d[k:] does, so a 4-byte read leaves it mid-word.         *)
(***************************************************************************)
EXTENDS Naturals, Integers, Sequences, SequencesExt, FiniteSets

CONSTANTS
  Universe,     \* the PERF_SAMPLE_* flags an event may have
  Abis,         \* PERF_SAMPLE_REGS_ABI_* values the kernel may report
  NRegs,        \* registers in sample_regs_user / sample_regs_intr
  ReadFormats,  \* read_format values, as sets of PERF_FORMAT_* names
  Injected,     \* whether the sample went through the perf inject bug
  HwIdx,        \* whether branch_sample_type has PERF_SAMPLE_BRANCH_HW_INDEX
  NEvents,      \* how many events the file describes
  Kinds,        \* record types: "SAMPLE", "MMAP"
  Nrs,          \* callchain lengths
  Bnrs,         \* branch stack lengths
  UStacks,      \* user stack sizes in bytes (multiples of 8)
  TimeCalls,    \* how many times time() is called on the record
  None          \* a field left None

W(tag, n) == [tag |-> tag, n |-> n]
Junk  == W("JUNK", 0)         \* 8 bytes read across two words
Short == W("SHORT", 0)        \* fewer than 8 bytes: struct.unpack raises

\* A word read as unsigned ("Q", "I"): -1 is all ones, larger than any
\* record.
AllOnes == 2^24
U(w) == IF w.n < 0 THEN AllOnes ELSE w.n

\* The order in which unpack() tests the sample_type bits.
SampleOrder == <<"IDENTIFIER", "IP", "TID", "TIME", "ADDR", "ID", "STREAM_ID",
                 "CPU", "PERIOD", "READ", "CALLCHAIN", "RAW", "BRANCH_STACK",
                 "REGS_USER", "STACK_USER", "WEIGHT", "DATA_SRC", "TRANSACTION",
                 "REGS_INTR", "PHYS_ADDR", "CGROUP">>
Fixed == {"IDENTIFIER", "IP", "TID", "TIME", "ADDR", "ID", "STREAM_ID", "CPU",
          "PERIOD", "WEIGHT", "DATA_SRC", "TRANSACTION", "PHYS_ADDR", "CGROUP"}

\* The word a one-word field holds: the identifier twice, under ID.
Tag(f) == IF f = "IDENTIFIER" THEN "ID" ELSE f

\* The trailing fields of a non-sample record, in the order unpack_sample_id
\* takes them off the end.
TrailOrder == <<"IDENTIFIER", "CPU", "STREAM_ID", "ID", "TIME", "TID">>

Rep(n, w) == [i \in 1..n |-> w]

\* A one-word field of event e's record: ID and IDENTIFIER hold e's identifier.
IdWord(f, e) == W(Tag(f), IF Tag(f) = "ID" THEN e ELSE 0)

-----------------------------------------------------------------------------
(* The reference: what the kernel writes (perf_output_sample,             *)
(* __perf_event__output_id_sample).                                        *)

KernelRegs(abi) == <<W("ABI", abi)>> \o (IF abi = 0 THEN <<>> ELSE Rep(NRegs, W("REG", 0)))

KernelRead(rf) ==
  LET times == (IF "TE" \in rf THEN <<W("TE", 0)>> ELSE <<>>)
                 \o (IF "TR" \in rf THEN <<W("TR", 0)>> ELSE <<>>)
      one   == <<W("VAL", 0)>> \o (IF "FID" \in rf THEN <<W("VID", 0)>> ELSE <<>>)
  IN  IF "GROUP" \in rf THEN <<W("NR", 1)>> \o times \o one
      ELSE <<W("VAL", 0)>> \o times \o (IF "FID" \in rf THEN <<W("VID", 0)>> ELSE <<>>)

KernelField(a, e, s, f) ==
  CASE f \in Fixed          -> <<IdWord(f, e)>>
    [] f = "READ"           -> KernelRead(a.rf)
    [] f = "CALLCHAIN"      -> <<W("NR", s.nr)>> \o Rep(s.nr, W("IPS", 0))
    [] f = "RAW"            -> <<W("RAWSZ", s.raw)>> \o Rep((4 + s.raw) \div 8 - 1, W("RAWDATA", 0))
    [] f = "BRANCH_STACK"   ->
         <<W("BNR", s.bnr)>>
           \o (IF a.hwidx THEN <<W("HWIDX", 0)>>
               ELSE IF s.inject THEN <<W("HWIDX", -1)>> ELSE <<>>)
           \o FoldLeft(LAMBDA acc, i : acc \o <<W("FROM", 0), W("TO", 0), W("BFLAGS", 0)>>,
                       <<>>, [i \in 1..s.bnr |-> i])
    [] f = "REGS_USER"      -> KernelRegs(s.abi)
    [] f = "REGS_INTR"      -> KernelRegs(s.abi)
    [] f = "STACK_USER"     ->
         <<W("USZ", s.ustack)>> \o Rep(s.ustack \div 8, W("STACK", 0))
           \o (IF s.ustack # 0 THEN <<W("DYN", 0)>> ELSE <<>>)

\* The payload of a PERF_RECORD_SAMPLE, and of a PERF_RECORD_MMAP with its
\* sample_id fields (written in the reverse of TrailOrder).
KernelSample(a, e, s) ==
  FoldLeft(LAMBDA acc, f : acc \o (IF f \in a.st THEN KernelField(a, e, s, f) ELSE <<>>),
           <<>>, SampleOrder)
KernelMmap(a, e) ==
  <<W("BODY", 0), W("FILENAME", 0)>>
    \o (IF a.sid_all
          THEN FoldLeft(LAMBDA acc, f : (IF f \in a.st THEN <<IdWord(f, e)>> ELSE <<>>) \o acc,
                        <<>>, TrailOrder)
          ELSE <<>>)

-----------------------------------------------------------------------------
(* The decoder.  A decode state is the byte offset into the payload d, the *)
(* reads made (each the field names expected and the words found), the     *)
(* timestamp taken, the anomalies noted, and whether it raised.            *)

Dec0 == [off |-> 0, end |-> 0, reads |-> <<>>, last |-> Junk, t |-> None, notes |-> 0, failed |-> FALSE]

\* The 8 bytes at byte offset o of payload p.
WordAt(p, o) == IF o % 8 = 0 THEN p[o \div 8 + 1] ELSE Junk

Fail(acc) == [acc EXCEPT !.failed = TRUE]

\* struct.unpack of k u64 words at the offset: raises if d is too short.
ReadQs(p, acc, tags) ==
  LET k == Len(tags)
      ws == [i \in 1..k |-> WordAt(p, acc.off + 8 * (i - 1))]
  IN  IF acc.failed THEN acc
      ELSE IF acc.off + 8 * k > 8 * Len(p) THEN [acc EXCEPT !.failed = TRUE]
      ELSE [acc EXCEPT !.off = @ + 8 * k,
                       !.reads = Append(@, [exp |-> tags, got |-> ws]),
                       !.last = IF k = 0 THEN Junk ELSE ws[k]]
Q(p, acc, tag) == ReadQs(p, acc, <<tag>>)

\* n words of one field, n taken from the record: raises when d is short.
ReadN(p, acc, n, tag) ==
  IF ~acc.failed /\ acc.off + 8 * n > 8 * Len(p) THEN Fail(acc) ELSE ReadQs(p, acc, Rep(n, tag))

\* struct.unpack("I", d[:4]): the low half of an aligned word holds its
\* number; the high half of a word is not a field of its own.
U32(p, acc, tag) ==
  LET w == IF acc.off % 8 = 0 THEN WordAt(p, acc.off) ELSE W("HIGH", 0)
  IN  IF acc.failed THEN acc
      ELSE IF acc.off + 4 > 8 * Len(p) THEN [acc EXCEPT !.failed = TRUE]
      ELSE [acc EXCEPT !.off = @ + 4, !.last = w,
                       !.reads = Append(@, [exp |-> <<tag>>, got |-> <<w>>])]

\* Mutant: the offset moves on by k even past the end of d.
SkipUnclamped(p, acc, k) == IF acc.failed THEN acc ELSE [acc EXCEPT !.off = @ + k]

\* d = d[k:]: a slice, never raises.
Skip(p, acc, k) ==
  IF acc.failed THEN acc
  ELSE [acc EXCEPT !.off = IF @ + k > 8 * Len(p) THEN 8 * Len(p) ELSE @ + k]


\* ReadFormat.unpack
DecRead(rf, p, acc) ==
  LET Times(x) == LET x1 == IF "TE" \in rf THEN Q(p, x, "TE") ELSE x
                  IN  IF "TR" \in rf THEN Q(p, x1, "TR") ELSE x1
      Vid(x)   == IF "FID" \in rf THEN Q(p, x, "VID") ELSE x
  IN  IF "GROUP" \in rf
        THEN LET a1 == Q(p, acc, "NR")
             IN  IF ~a1.failed /\ U(a1.last) > Len(p) THEN Fail(a1)   \* runs off the end
                 ELSE FoldLeft(LAMBDA x, i : Vid(Q(p, x, "VAL")), Times(a1),
                               [i \in 1..(IF a1.failed THEN 0 ELSE U(a1.last)) |-> i])
        ELSE Vid(Times(Q(p, acc, "VAL")))

\* PerfRegSample.sample: the ABI word, then one register per bit of
\* sample_regs, read as 4 bytes for ABI_32 and 8 for ABI_64.
DecRegs(p, acc) ==
  LET a1 == Q(p, acc, "ABI")
  IN  IF a1.failed \/ NRegs = 0 THEN a1
      ELSE IF U(a1.last) = 2 THEN ReadQs(p, a1, [i \in 1..NRegs |-> "REG"])
      ELSE IF U(a1.last) = 1 THEN FoldLeft(LAMBDA x, i : U32(p, x, "REG"), a1, [i \in 1..NRegs |-> i])
      ELSE Fail(a1)                  \* "unknown PERF_SAMPLE_REGS_USER ABI"

BranchEntries(n) == FoldLeft(LAMBDA acc, i : acc \o <<"FROM", "TO", "BFLAGS">>, <<>>, [i \in 1..n |-> i])

\* The branch stack: bnr, hw_idx if HW_INDEX is set or the perf inject
\* sentinel -1 when it is not (skipped with a warning), then bnr entries.
DecBranch(a, p, acc) ==
  LET a1  == Q(p, acc, "BNR")
      bnr == U(a1.last)
      a2  == IF a1.failed THEN a1
             ELSE IF a.hwidx
               THEN LET h == Q(p, a1, "HWIDX")
                    IN  IF ~h.failed /\ h.last.n > bnr THEN Fail(h) ELSE h
             ELSE IF bnr > 0
               THEN IF a1.off + 8 > 8 * Len(p) THEN Fail(a1)
                    ELSE IF WordAt(p, a1.off).n = -1 THEN Skip(p, a1, 8)
                    ELSE a1
             ELSE a1
  IN  IF a2.failed THEN a2
      ELSE IF bnr * 24 > 8 * Len(p) - a2.off THEN Fail(a2)  \* "invalid branch stack count"
      ELSE ReadQs(p, a2, BranchEntries(bnr))

\* Mutant: dyn_size is not read.
DecStackNoDyn(p, acc) == Skip(p, Q(p, acc, "USZ"), U(Q(p, acc, "USZ").last))

\* The user stack: size, the bytes, and dyn_size when size is not 0.
DecStack(p, acc) ==
  LET a1 == Q(p, acc, "USZ")
      a2 == Skip(p, a1, U(a1.last))
  IN  IF ~a1.failed /\ U(a1.last) # 0 THEN Q(p, a2, "DYN") ELSE a2

\* One sample_type bit of unpack()'s if-chain.
DecField(a, p, acc, f) ==
  CASE f \in Fixed        -> LET x == Q(p, acc, Tag(f))
                             IN  IF f = "TIME" /\ ~x.failed THEN [x EXCEPT !.t = x.last] ELSE x
    [] f = "READ"         -> DecRead(a.rf, p, acc)
    [] f = "CALLCHAIN"    -> LET x == Q(p, acc, "NR")
                             IN  ReadN(p, x, U(x.last), "IPS")
    [] f = "RAW"          -> LET x == U32(p, acc, "RAWSZ") IN Skip(p, x, U(x.last))
    [] f = "BRANCH_STACK" -> DecBranch(a, p, acc)
    [] f \in {"REGS_USER", "REGS_INTR"} -> DecRegs(p, acc)
    [] f = "STACK_USER"   -> DecStack(p, acc)

\* The sample branch of PerfRecord.unpack, with its closing check for bytes
\* left over.
DecodeSample(a, p) ==
  LET x == FoldLeft(LAMBDA acc, f : IF f \in a.st THEN DecField(a, p, acc, f) ELSE acc,
                    Dec0, SampleOrder)
  IN  IF ~x.failed /\ x.off < 8 * Len(p) THEN [x EXCEPT !.notes = @ + 1] ELSE x

\* unpack_sample_id: the trailing fields, taken 8 bytes at a time off the
\* end of d (d[-8:] raises when d is shorter).
PopQ(p, acc, f) ==
  IF acc.failed THEN acc
  ELSE IF acc.end < 8 THEN Fail(acc)
  ELSE LET w == WordAt(p, acc.end - 8)
       IN  [acc EXCEPT !.end = @ - 8, !.reads = Append(@, [exp |-> <<Tag(f)>>, got |-> <<w>>]),
                       !.t = IF f = "TIME" THEN w ELSE @]

TrailFields == ToSet(TrailOrder)

\* The non-sample branch of unpack() for PERF_RECORD_MMAP: strip the
\* trailing fields when the attribute has any, then "iiQQQ" and the file
\* name from what is left.
DecodeMmap(a, p) ==
  LET x  == IF a.sid_all /\ a.st \cap TrailFields # {}
              THEN FoldLeft(LAMBDA acc, f : IF f \in a.st THEN PopQ(p, acc, f) ELSE acc,
                            [Dec0 EXCEPT !.end = 8 * Len(p)], TrailOrder)
              ELSE [Dec0 EXCEPT !.end = 8 * Len(p)]
      d  == SubSeq(p, 1, x.end \div 8)
      b  == Q(d, x, "BODY")
  IN  IF x.failed THEN x ELSE ReadQs(d, b, Rep(Len(d) - 1, "FILENAME"))

-----------------------------------------------------------------------------
(* The field offsets used before a record is decoded                      *)

SampleTimeOffset(a) ==
  IF "TIME" \in a.st THEN 8 * Cardinality(a.st \cap {"IDENTIFIER", "IP", "TID"}) ELSE None

\* Mutant: CPU is forgotten in the count of the fields after TIME.
NonSampleTimeOffsetNoCpu(a) ==
  IF a.sid_all /\ "TIME" \in a.st
    THEN -8 * (Cardinality(a.st \cap {"IDENTIFIER", "STREAM_ID", "ID"}) + 1) ELSE None

NonSampleTimeOffset(a) ==
  IF a.sid_all /\ "TIME" \in a.st
    THEN -8 * (Cardinality(a.st \cap {"IDENTIFIER", "CPU", "STREAM_ID", "ID"}) + 1) ELSE None

SampleIdOffset(a) ==
  CASE "IDENTIFIER" \in a.st -> 0
    [] "ID" \in a.st         -> 8 * Cardinality(a.st \cap {"IP", "TID", "TIME", "ADDR"})
    [] OTHER                 -> None

NonSampleIdOffset(a) ==
  CASE ~a.sid_all            -> None
    [] "IDENTIFIER" \in a.st -> -8
    [] "ID" \in a.st         -> -8 * (Cardinality(a.st \cap {"CPU", "STREAM_ID"}) + 1)
    [] OTHER                 -> None

\* raw[off:off+8] for an offset from the start (>= 0) or the end (< 0) of
\* the payload: the word, or Short when struct.unpack would raise.
Peek(p, off) ==
  LET o == IF off >= 0 THEN off ELSE 8 * Len(p) + off
  IN  IF o < 0 \/ o + 8 > 8 * Len(p) THEN Short ELSE WordAt(p, o)

\* A decode state that found every field where the kernel put it and nothing more.
Faithful(x) ==
  /\ x.notes = 0
  /\ \A i \in 1..Len(x.reads) :
       /\ Len(x.reads[i].got) = Len(x.reads[i].exp)
       /\ \A j \in 1..Len(x.reads[i].exp) : x.reads[i].got[j].tag = x.reads[i].exp[j]

\* What the model keeps of a decode: where it stopped, whether it raised,
\* and whether every field was found where the kernel put it.
Outcome(x) == [off |-> x.off, failed |-> x.failed, faithful |-> Faithful(x)]

-----------------------------------------------------------------------------
(* One record of one event, from the file to its decoded fields           *)

Attr    == [st : SUBSET Universe, sid_all : BOOLEAN, hwidx : HwIdx, rf : ReadFormats]
Content == [nr : Nrs, raw : {4}, bnr : Bnrs, abi : Abis, ustack : UStacks, inject : Injected]


VARIABLES
  attrs,     \* the events' attributes; event i has identifier i
  nAdded,    \* events added by add_event so far
  sidOff,    \* PerfData.sample_id_offset
  nsidOff,   \* PerfData.non_sample_id_offset
  src,       \* the event whose ring the record came from
  kind,      \* the record's type
  content,   \* the variable-length parts of a sample
  ea,        \* r.event_attr: the index of its event, or 0 for None
  t,         \* r.t
  unpacked,  \* r.has_been_unpacked
  dec,       \* the decode of the last unpack(), or None
  returned,  \* the values time() returned, in order
  status     \* "ok", or "failed" once an assertion or struct.error raised

vars == <<attrs, nAdded, sidOff, nsidOff, src, kind, content, ea, t, unpacked, dec, returned, status>>

\* The record's payload (r.data()) as the kernel wrote it.
Payload ==
  IF kind = "SAMPLE" THEN KernelSample(attrs[src], src, content) ELSE KernelMmap(attrs[src], src)

Init ==
  /\ \E n \in NEvents : attrs \in [1..n -> Attr]
  /\ src \in DOMAIN attrs
  /\ kind \in Kinds
  /\ content \in Content
  /\ nAdded = 0 /\ sidOff = None /\ nsidOff = None
  /\ ea = 0 /\ t = None /\ unpacked = FALSE /\ dec = None /\ returned = <<>>
  /\ status = "ok"

\* PerfData.add_event: the first event fixes the identifier offsets, every
\* later one must agree with them.
AddEvent ==
  LET i == nAdded + 1
      a == attrs[i]
  IN  /\ status = "ok" /\ nAdded < Len(attrs)
      /\ nAdded' = i
      /\ IF i = 1
           THEN /\ sidOff' = SampleIdOffset(a) /\ nsidOff' = NonSampleIdOffset(a)
                /\ UNCHANGED status
           ELSE /\ status' = IF sidOff = SampleIdOffset(a) /\ nsidOff = NonSampleIdOffset(a)
                             THEN status ELSE "failed"
                /\ UNCHANGED <<sidOff, nsidOff>>
      /\ UNCHANGED <<attrs, src, kind, content, ea, t, unpacked, dec, returned>>

\* PerfData.get_record_event: with one event it is the default; otherwise
\* the identifier is read at the common offset, 0 meaning the default.
GetRecordEvent ==
  LET off == IF kind = "SAMPLE" THEN sidOff ELSE nsidOff
      w   == Peek(Payload, off)
  IN  /\ status = "ok" /\ nAdded = Len(attrs) /\ ea = 0
      /\ IF Len(attrs) = 1 THEN ea' = 1 /\ UNCHANGED status
         ELSE IF off = None \/ w = Short THEN status' = "failed" /\ UNCHANGED ea
         ELSE IF w.n = 0 THEN ea' = 1 /\ UNCHANGED status
         ELSE IF w.n \in DOMAIN attrs THEN ea' = w.n /\ UNCHANGED status
         ELSE status' = "failed" /\ UNCHANGED ea
      /\ UNCHANGED <<attrs, nAdded, sidOff, nsidOff, src, kind, content, t, unpacked, dec, returned>>

\* PerfRecord.time(): r.t once known, else the word at the time offset of
\* the record's attribute.
Time ==
  LET off == IF kind = "SAMPLE" THEN SampleTimeOffset(attrs[ea]) ELSE NonSampleTimeOffset(attrs[ea])
      w   == Peek(Payload, off)
  IN  /\ status = "ok" /\ ea # 0 /\ Len(returned) < TimeCalls
      /\ IF t # None \/ unpacked \/ off = None
           THEN returned' = Append(returned, t) /\ UNCHANGED <<t, status>>
         ELSE IF w = Short THEN status' = "failed" /\ UNCHANGED <<t, returned>>
         ELSE t' = w /\ returned' = Append(returned, w) /\ UNCHANGED status
      /\ UNCHANGED <<attrs, nAdded, sidOff, nsidOff, src, kind, content, ea, unpacked, dec>>

\* PerfRecord.unpack with the record's attribute.
Unpack ==
  LET x == IF kind = "SAMPLE" THEN DecodeSample(attrs[ea], Payload) ELSE DecodeMmap(attrs[ea], Payload)
  IN  /\ status = "ok" /\ ea # 0 /\ ~unpacked
      /\ dec' = Outcome(x)
      /\ IF x.failed
           THEN status' = "failed" /\ UNCHANGED <<t, unpacked>>
           ELSE /\ unpacked' = TRUE
                /\ t' = IF x.t # None THEN x.t ELSE t
                /\ UNCHANGED status
      /\ UNCHANGED <<attrs, nAdded, sidOff, nsidOff, src, kind, content, ea, returned>>

Next == AddEvent \/ GetRecordEvent \/ Time \/ Unpack

Spec == Init /\ [][Next]_vars

-----------------------------------------------------------------------------
(* Properties                                                              *)

\* The file's events share their identifier offsets and the record's
\* identifier can be located: otherwise add_event or get_record_event
\* rejects the file, as it must.
Associable ==
  \/ Len(attrs) = 1
  \/ /\ \A i \in DOMAIN attrs : /\ SampleIdOffset(attrs[i]) = SampleIdOffset(attrs[1])
                                /\ NonSampleIdOffset(attrs[i]) = NonSampleIdOffset(attrs[1])
     /\ (IF kind = "SAMPLE" THEN SampleIdOffset(attrs[1]) ELSE NonSampleIdOffset(attrs[1])) # None

\* The one layout the decoder's comment gives up on: the perf inject word
\* before an empty branch stack.
InjectedEmptyStack ==
  /\ kind = "SAMPLE" /\ "BRANCH_STACK" \in attrs[src].st /\ ~attrs[src].hwidx
  /\ content.inject /\ content.bnr = 0

\* The timestamp the record carries where time() and unpack() look for it.
TimeField ==
  IF "TIME" \in attrs[src].st /\ (kind = "SAMPLE" \/ attrs[src].sid_all) THEN W("TIME", 0) ELSE None

TypeOK ==
  /\ attrs \in Seq(Attr) /\ src \in DOMAIN attrs /\ content \in Content
  /\ nAdded \in 0..Len(attrs) /\ ea \in 0..Len(attrs)
  /\ unpacked \in BOOLEAN /\ status \in {"ok", "failed"}
  /\ Len(returned) <= TimeCalls
  /\ dec # None => dec.off \in 0..8 * Len(Payload)

(***************************************************************************)
(* unpack() inverts the kernel's encoding: for every supported layout the *)
(* record decodes without raising, each field is read from the words the  *)
(* kernel wrote for it, and no bytes are left over.                       *)
(***************************************************************************)
DecodeInverts ==
  Associable /\ ~InjectedEmptyStack => status = "ok" /\ (dec # None => dec.faithful)

(***************************************************************************)
(* time() answers the record's timestamp, the same before unpack() (from  *)
(* the precomputed offset) as after it (from the decoded field).          *)
(***************************************************************************)
TimeStable ==
  Associable =>
    /\ \A i \in 1..Len(returned) : returned[i] = TimeField
    /\ unpacked => t = TimeField

=============================================================================
