----------------------------- MODULE EventTable -----------------------------
(***************************************************************************)
(* The event-descriptor table of PerfData (perf_data.py) and the step that *)
(* associates a kernel-type record with an event (get_record_event).       *)
(*                                                                         *)
(* A capture is a list of events, each with its perf_event_attr (only the  *)
(* parts that fix where a record's identifier sits are kept: sample_type   *)
(* flags and sample_id_all) and its set of identifiers, one per CPU.       *)
(* The table is filled                                                     *)
(*  - in file mode, once, by open_and_read_header: HEADER_EVENT_DESC (if   *)
(*    the file has it) through add_events, then the attribute section;     *)
(*  - in pipe mode, by PERF_RECORD_HEADER_ATTR (one per event) and         *)
(*    PERF_RECORD_HEADER_FEATURE(HEADER_EVENT_DESC) records met in the     *)
(*    data stream by raw_records, which may describe the same events.     *)
(* Records are decoded in between, in stream order.                        *)
(***************************************************************************)
EXTENDS Naturals, Integers, Sequences, SequencesExt, FiniteSets

CONSTANTS
  Events,      \* event names (model values)
  Ids,         \* event identifiers; 0 is the identifier of synthesized records
  Captures,    \* possible captures: [evs : Seq(Events), attr : [Events -> Attr],
               \*                     ids : [Events -> SUBSET Ids]]
  None,        \* Python None (an offset that cannot be located)
  Unset,       \* an attribute never assigned (sample_id_offset before any event)
  NoEvent      \* default_event_attr is None

Flags == {"IDENTIFIER", "ID", "IP", "TID", "TIME", "ADDR", "CPU", "STREAM_ID", "PERIOD"}
Attr  == [st : SUBSET Flags, sample_id_all : BOOLEAN]

\* Every capture lists distinct events whose identifier sets are disjoint
\* and non-empty (the kernel hands out each identifier once).
ASSUME \A c \in Captures :
         /\ c.evs \in Seq(Events) /\ c.evs # <<>>
         /\ \A i, j \in 1..Len(c.evs) : i # j => c.evs[i] # c.evs[j]
         /\ \A e \in ToSet(c.evs) : c.ids[e] # {} /\ 0 \notin c.ids[e]
         /\ \A e, f \in ToSet(c.evs) : e # f => c.ids[e] \cap c.ids[f] = {}

VARIABLES
  cap,       \* the capture being read
  pipe,      \* PerfData.is_pipe_mode
  phase,     \* file mode: "closed" before open_and_read_header, then "open"
  hasDesc,   \* file mode: the file carries HEADER_EVENT_DESC
  sent,      \* pipe mode: number of HEADER_ATTR records read so far
  featSent,  \* pipe mode: the FEATURE(HEADER_EVENT_DESC) record has been read
  tbl,       \* the PerfData fields of the table (see EmptyTable)
  decoded    \* the last kernel record decoded: its event, id, kind, result

vars == <<cap, pipe, phase, hasDesc, sent, featSent, tbl, decoded>>

-----------------------------------------------------------------------------
(* perf_abi.py: where the identifier sits in a record of attribute a      *)

Bytes(a, fs) == 8 * Cardinality(a.st \cap fs)

\* record_sample_id_offset: from the start of a sample's payload.
SampleIdOffset(a) ==
  IF "IDENTIFIER" \in a.st THEN 0
  ELSE IF "ID" \in a.st THEN Bytes(a, {"IP", "TID", "TIME", "ADDR"})
  ELSE None

\* record_non_sample_id_offset: negative, from the end of a non-sample record.
NonSampleIdOffset(a) ==
  IF ~a.sample_id_all THEN None
  ELSE IF "IDENTIFIER" \in a.st THEN -8
  ELSE IF "ID" \in a.st THEN -(8 + Bytes(a, {"CPU", "STREAM_ID"}))
  ELSE None

-----------------------------------------------------------------------------
(* PerfData.__init__: the table is empty; n_events and sample_id_offset  *)
(* do not exist until open_and_read_header (file mode) or the first       *)
(* add_event sets them.                                                   *)

EmptyTable ==
  [event_descs |-> <<>>, event_attrs |-> <<>>, event_index |-> <<>>,
   n_events |-> Unset, default_event_attr |-> NoEvent,
   sample_id_offset |-> Unset, non_sample_id_offset |-> Unset, ok |-> TRUE]

\* Mutants of add_event: the new descriptor's index off by one (the new
\* count instead of len(event_descs) before the append); only the first
\* identifier of the event indexed.
AddEventOffByOne(T, e, ids) ==
  LET n == Len(T.event_descs) + 1
  IN  IF ~T.ok \/ (pipe /\ ids # None /\ ids \subseteq DOMAIN T.event_index) THEN T
      ELSE [T EXCEPT !.event_descs = Append(@, [ev |-> e, ids |-> ids]),
                     !.event_attrs = Append(@, e), !.n_events = n,
                     !.sample_id_offset = IF n = 1 THEN SampleIdOffset(cap.attr[e]) ELSE @,
                     !.non_sample_id_offset = IF n = 1 THEN NonSampleIdOffset(cap.attr[e]) ELSE @,
                     !.default_event_attr = IF @ = NoEvent THEN e ELSE @,
                     !.event_index = IF ids = None THEN @ ELSE [i \in ids |-> n] @@ @]

AddEventFirstIdOnly(T, e, ids) ==
  LET n  == Len(T.event_descs) + 1
      lo == {CHOOSE i \in ids : \A j \in ids : i <= j}
  IN  IF ~T.ok \/ (pipe /\ ids # None /\ ids \subseteq DOMAIN T.event_index) THEN T
      ELSE [T EXCEPT !.event_descs = Append(@, [ev |-> e, ids |-> ids]),
                     !.event_attrs = Append(@, e), !.n_events = n,
                     !.sample_id_offset = IF n = 1 THEN SampleIdOffset(cap.attr[e]) ELSE @,
                     !.non_sample_id_offset = IF n = 1 THEN NonSampleIdOffset(cap.attr[e]) ELSE @,
                     !.default_event_attr = IF @ = NoEvent THEN e ELSE @,
                     !.event_index = IF ids = None THEN @ ELSE [i \in lo |-> n - 1] @@ @]

\* PerfData.add_event(ea, ids): ids = None for the attribute section.
AddEvent(T, e, ids) ==
  LET a    == cap.attr[e]
      eix  == Len(T.event_descs)
      n    == eix + 1
      sid  == SampleIdOffset(a)
      nsid == NonSampleIdOffset(a)
      idx  == IF ids = None THEN T.event_index
              ELSE [i \in ids |-> eix] @@ T.event_index
  IN  IF ~T.ok THEN T
      \* pipe mode: the same events may arrive twice
      ELSE IF pipe /\ ids # None /\ ids \subseteq DOMAIN T.event_index THEN T
      ELSE IF n > 1 /\ (sid # T.sample_id_offset \/ nsid # T.non_sample_id_offset)
        THEN [T EXCEPT !.ok = FALSE]
      ELSE IF ids # None /\ ids \cap DOMAIN T.event_index # {}
        THEN [T EXCEPT !.ok = FALSE]          \* "event id is duplicated"
      ELSE [T EXCEPT !.event_descs = Append(@, [ev |-> e, ids |-> ids]),
                     !.event_attrs = Append(@, e),
                     !.n_events = n,
                     !.sample_id_offset = IF n = 1 THEN sid ELSE @,
                     !.non_sample_id_offset = IF n = 1 THEN nsid ELSE @,
                     !.default_event_attr = IF @ = NoEvent THEN e ELSE @,
                     !.event_index = idx]

\* PerfData.add_events(d): HEADER_EVENT_DESC lists every event with its ids.
AddEvents(T) ==
  FoldLeft(LAMBDA U, e : AddEvent(U, e, cap.ids[e]),
           [T EXCEPT !.event_attrs = <<>>, !.n_events = 0],
           cap.evs)

\* The attribute-section loop of open_and_read_header: events without ids,
\* unless HEADER_EVENT_DESC already supplied them (then only compared).
AttrSection(T) ==
  IF T.n_events > 0 THEN T
  ELSE FoldLeft(LAMBDA U, e : AddEvent(U, e, None), T, cap.evs)

-----------------------------------------------------------------------------
(* get_record_event: the attribute a kernel record of kind k whose        *)
(* identifier field holds rid is decoded with (an event), or "fail".      *)

\* event_index_by_id: the descriptor index of an identifier; a table of one
\* descriptor answers 0 for any identifier.
EventIndexById(T, ident) ==
  IF ident \in DOMAIN T.event_index THEN T.event_index[ident]
  ELSE IF T.n_events = 1 THEN 0
  ELSE None

\* event_desc_by_id / event_attr_by_id: the event of that descriptor, or None.
EventAttrById(T, ident) ==
  LET eix == EventIndexById(T, ident)
  IN  IF eix = None THEN None ELSE T.event_descs[eix + 1].ev

\* Mutant: the default descriptor is used whenever there are fewer than two.
AssociateDefaultWhenFew(T, k, rid) ==
  LET off == IF k = "sample" THEN T.sample_id_offset ELSE T.non_sample_id_offset
  IN  IF T.n_events \in {0, 1} THEN T.default_event_attr
      ELSE IF off \in {Unset, None} THEN "fail"
      ELSE IF rid # 0 /\ rid \in DOMAIN T.event_index
        THEN T.event_descs[T.event_index[rid] + 1].ev
      ELSE IF rid # 0 \/ T.default_event_attr = NoEvent THEN "fail"
      ELSE T.default_event_attr

Associate(T, k, rid) ==
  LET off == IF k = "sample" THEN T.sample_id_offset ELSE T.non_sample_id_offset
  IN  IF T.n_events = 1 THEN T.default_event_attr
      ELSE IF off \in {Unset, None} THEN "fail"   \* "record identifier not locatable"
      ELSE IF rid # 0
        THEN IF rid \in DOMAIN T.event_index /\ EventAttrById(T, rid) # None
               THEN EventAttrById(T, rid)
               ELSE "fail"
      ELSE IF T.default_event_attr = NoEvent THEN "fail"
      ELSE T.default_event_attr

-----------------------------------------------------------------------------
(* The reader                                                              *)

NoRec == [ev |-> NoEvent, rid |-> 0, kind |-> "none", result |-> NoEvent]

\* All metadata precedes the data: perf writes the attributes (and, when it
\* emits features, HEADER_EVENT_DESC) before the first kernel record.
MetadataDone ==
  phase = "open" /\ (pipe => sent = Len(cap.evs) /\ featSent = hasDesc)

Init ==
  /\ cap \in Captures
  /\ pipe \in BOOLEAN
  /\ hasDesc \in BOOLEAN
  /\ phase = IF pipe THEN "open" ELSE "closed"
  /\ sent = 0
  /\ featSent = FALSE
  /\ tbl = EmptyTable
  /\ decoded = NoRec

-----------------------------------------------------------------------------
(* The sub-headers of a file                                               *)

HEADER_BUILD_ID   == 2
HEADER_VERSION    == 5
HEADER_EVENT_DESC == 12

\* self.flags of a file as perf record writes it: build ids and the version
\* always, HEADER_EVENT_DESC when the file carries it.
HeaderFlags(desc) ==
  {HEADER_BUILD_ID, HEADER_VERSION} \cup (IF desc THEN {HEADER_EVENT_DESC} ELSE {})

\* has_header / headers(): the sub-headers whose bit is set, in bit order.
Headers(flags) == SetToSortSeq(flags, <)

\* process_header(htype, hdata): HEADER_EVENT_DESC goes to add_events;
\* HEADER_VERSION and HEADER_COMPRESSED set perf_data_version and the
\* compression fields, which the table does not hold; others are ignored.
ProcessHeader(T, h) == IF h = HEADER_EVENT_DESC THEN AddEvents(T) ELSE T

\* open_and_read_header on a file: n_events = 0, the header loop (which
\* calls add_events for HEADER_EVENT_DESC), then the attribute section.
OpenFile ==
  /\ ~pipe /\ phase = "closed"
  /\ LET T0 == [tbl EXCEPT !.n_events = 0]
     IN  tbl' = AttrSection(FoldLeft(ProcessHeader, T0, Headers(HeaderFlags(hasDesc))))
  /\ phase' = "open"
  /\ UNCHANGED <<cap, pipe, hasDesc, sent, featSent, decoded>>

\* raw_records meets PERF_RECORD_HEADER_ATTR for the next event in the list.
RecvHeaderAttr ==
  /\ pipe /\ tbl.ok /\ sent < Len(cap.evs)
  /\ tbl' = AddEvent(tbl, cap.evs[sent + 1], cap.ids[cap.evs[sent + 1]])
  /\ sent' = sent + 1
  /\ UNCHANGED <<cap, pipe, phase, hasDesc, featSent, decoded>>

\* raw_records meets PERF_RECORD_HEADER_FEATURE carrying HEADER_EVENT_DESC;
\* process_header hands it to add_events.
RecvEventDescFeature ==
  /\ pipe /\ tbl.ok /\ hasDesc /\ ~featSent
  /\ tbl' = ProcessHeader(tbl, HEADER_EVENT_DESC)
  /\ featSent' = TRUE
  /\ UNCHANGED <<cap, pipe, phase, hasDesc, sent, decoded>>

\* A kernel record of event e, kind k, identifier field rid, is decoded.
\* Synthesized records (initial MMAP, COMM...) carry identifier 0.
DecodeRecord(e, k, rid) ==
  /\ MetadataDone /\ tbl.ok
  /\ decoded' = [ev |-> e, rid |-> rid, kind |-> k, result |-> Associate(tbl, k, rid)]
  /\ UNCHANGED <<cap, pipe, phase, hasDesc, sent, featSent, tbl>>

Next ==
  \/ OpenFile
  \/ RecvHeaderAttr
  \/ RecvEventDescFeature
  \/ \E e \in ToSet(cap.evs), k \in {"sample", "other"} :
       \E rid \in cap.ids[e] \cup (IF k = "other" THEN {0} ELSE {}) :
         DecodeRecord(e, k, rid)

Spec == Init /\ [][Next]_vars

-----------------------------------------------------------------------------
(* Properties                                                              *)

\* Types; every index entry names an existing descriptor (0-based).
TypeOK ==
  /\ cap \in Captures /\ pipe \in BOOLEAN /\ hasDesc \in BOOLEAN
  /\ phase \in {"closed", "open"} /\ sent \in 0..Len(cap.evs) /\ featSent \in BOOLEAN
  /\ tbl.n_events \in 0..Len(tbl.event_descs) \cup {Unset}
  /\ tbl.default_event_attr \in ToSet(cap.evs) \cup {NoEvent}
  /\ \A i \in DOMAIN tbl.event_index : tbl.event_index[i] \in 0..Len(tbl.event_descs) - 1

(***************************************************************************)
(* event_index and event_descs agree, whatever mix of HEADER_ATTR and      *)
(* HEADER_EVENT_DESC records built them: an identifier maps to the one    *)
(* descriptor that lists it, and every listed identifier is indexed.       *)
(***************************************************************************)
IndexConsistent ==
  \A k \in 1..Len(tbl.event_descs) :
    LET d == tbl.event_descs[k]
    IN  d.ids # None =>
          \A i \in d.ids : i \in DOMAIN tbl.event_index /\ tbl.event_index[i] = k - 1

(***************************************************************************)
(* get_record_event never decodes a record with the wrong attributes: it   *)
(* may raise, but a record it associates gets the perf_event_attr of the   *)
(* event that produced it (of event #0, perf's default, for a synthesized  *)
(* record), whichever order the pipe metadata arrived in.                  *)
(***************************************************************************)
AssociationSound ==
  decoded # NoRec /\ decoded.result # "fail" =>
    cap.attr[decoded.result] =
      cap.attr[IF decoded.rid = 0 THEN cap.evs[1] ELSE decoded.ev]

(***************************************************************************)
(* spec.md: association fails only for an identifier the table does not   *)
(* know, when the table does not have exactly one descriptor.  A record   *)
(* of a declared event whose identifier is indexed, or of the only event  *)
(* of a capture, is associated.                                            *)
(***************************************************************************)
AssociationSucceeds ==
  decoded # NoRec /\ decoded.result = "fail" =>
    /\ Len(tbl.event_descs) # 1
    /\ decoded.rid \notin DOMAIN tbl.event_index

=============================================================================
