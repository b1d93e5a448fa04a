------------------------------ MODULE AuxLink -------------------------------
(***************************************************************************)
(* The linkage of PERF_RECORD_AUX to PERF_RECORD_AUXTRACE records done by  *)
(* PerfData.read_record and PerfData.raw_records (perf_data.py).           *)
(*                                                                         *)
(* An AUX-area event (CoreSight ETM, SPE) is opened on every CPU, one      *)
(* identifier per CPU.  The kernel writes trace into a CPU's AUX ring and, *)
(* for each chunk, a PERF_RECORD_AUX into that CPU's main ring.  perf      *)
(* record copies the main ring into the file and, separately, the new part *)
(* of the AUX ring as a PERF_RECORD_AUXTRACE record (idx = the CPU's mmap  *)
(* index) followed by the data.  The reader then walks the file:           *)
(* AUXTRACE_INFO sets the trace type, AUX records wait in pending_aux      *)
(* under their identifier, and an AUXTRACE record takes every pending AUX  *)
(* record of the identifier its idx selects.                               *)
(*                                                                         *)
(* Chunks are numbered per CPU; an AUX record names its chunk (its         *)
(* aux_offset), an AUXTRACE record the range of chunks its data holds.     *)
(***************************************************************************)
EXTENDS Naturals, Sequences, SequencesExt, FiniteSets

CONSTANTS
  NCpus,       \* CPUs 0..NCpus-1, each with its own rings
  AuxIds,      \* the AUX event's identifiers, in CPU order (HEADER_EVENT_DESC)
  MaxChunks,   \* chunks of trace per CPU
  NoList       \* r.aux_records never assigned

Cpus == 0..NCpus-1
ASSUME AuxIds \in Seq(Nat \ {0}) /\ Len(AuxIds) = NCpus

AuxRec      == [kind : {"AUX"}, cpu : Cpus, chunk : 1..MaxChunks, id : ToSet(AuxIds)]

\* Keys of pending_aux: identifiers, or raw idx values when the descriptor
\* has no id list.
Keys == ToSet(AuxIds) \cup Cpus

VARIABLES
  head,      \* kernel: chunks written into each CPU's AUX ring
  ring,      \* kernel: AUX records in each CPU's main ring, not yet copied
  tail,      \* perf record: chunks of each CPU already written as AUXTRACE
  file,      \* the data section as written
  hasIds,    \* the AUX event's descriptor carries its id list
  nEvents,   \* n_events: the AUX event alone, or with perf's dummy event
  pos,       \* reader: records of file consumed
  infoType,  \* PerfData.auxtrace_info_type is set
  auxEvent,  \* PerfData.aux_event is set
  pending,   \* raw_records' pending_aux: key -> list of AUX records
  bufs,      \* AUXTRACE records read, each with its aux_records
  rstatus     \* "ok", or "failed" once an assertion has raised

env    == <<head, ring, tail, file, hasIds, nEvents>>
reader == <<pos, infoType, auxEvent, pending, bufs, rstatus>>
auxvars   == <<env, reader>>

AuxInit ==
  /\ head = [c \in Cpus |-> 0]
  /\ ring = [c \in Cpus |-> <<>>]
  /\ tail = [c \in Cpus |-> 0]
  /\ file = <<[kind |-> "AUXTRACE_INFO"]>>  \* synthesized before any data
  /\ hasIds \in BOOLEAN
  /\ nEvents \in {1, 2}
  /\ pos = 0
  /\ infoType = FALSE
  /\ auxEvent = FALSE
  /\ pending = [k \in Keys |-> <<>>]
  /\ bufs = <<>>
  /\ rstatus = "ok"

-----------------------------------------------------------------------------
(* The kernel and perf record (the writer of the stream)                  *)

\* The kernel closes an AUX chunk on CPU c (perf_aux_output_end): the data
\* is in the AUX ring and a PERF_RECORD_AUX is in the main ring.
Produce(c) ==
  /\ head[c] < MaxChunks
  /\ head' = [head EXCEPT ![c] = @ + 1]
  /\ ring' = [ring EXCEPT ![c] = Append(@, [kind |-> "AUX", cpu |-> c,
                                             chunk |-> head[c] + 1, id |-> AuxIds[c + 1]])]
  /\ UNCHANGED <<tail, file, hasIds, nEvents, reader>>

\* perf record copies CPU c's main ring into the file.
CopyMain(c) ==
  /\ ring[c] # <<>>
  /\ file' = file \o ring[c]
  /\ ring' = [ring EXCEPT ![c] = <<>>]
  /\ UNCHANGED <<head, tail, hasIds, nEvents, reader>>

\* perf record copies the new part of CPU c's AUX ring: one AUXTRACE record.
CopyAux(c) ==
  /\ tail[c] < head[c]
  /\ file' = Append(file, [kind |-> "AUXTRACE", idx |-> c, lo |-> tail[c] + 1, hi |-> head[c]])
  /\ tail' = [tail EXCEPT ![c] = head[c]]
  /\ UNCHANGED <<head, ring, hasIds, nEvents, reader>>

-----------------------------------------------------------------------------
(* The reader                                                              *)

\* event_desc_by_id(id): found through the index, or the only descriptor.
AuxEventFound == hasIds \/ nEvents = 1

\* Mutant: the first identifier is taken whatever the idx.
AuxtraceKeyFirst(r) == IF hasIds THEN AuxIds[1] ELSE r.idx

\* The pending_aux key an AUXTRACE record selects: aux_event.ids[r.idx], or
\* r.idx itself when the descriptor has no ids.
AuxtraceKey(r) == IF hasIds THEN AuxIds[r.idx + 1] ELSE r.idx

\* The record raw_records handles next.
Current == file[pos + 1]

Consuming ==
  /\ rstatus = "ok" /\ pos < Len(file)
  /\ pos' = pos + 1

\* PERF_RECORD_AUXTRACE_INFO: remember the trace type; a second one raises.
ReadInfo ==
  /\ Consuming /\ Current.kind = "AUXTRACE_INFO"
  /\ IF infoType THEN rstatus' = "failed" ELSE UNCHANGED rstatus
  /\ infoType' = TRUE
  /\ UNCHANGED <<env, auxEvent, pending, bufs>>

\* Mutant: pending_aux[r.id] = [r], dropping the AUX records already waiting.
PendingReplace(P, r) == [P EXCEPT ![r.id] = <<r>>]

\* pending_aux.setdefault(r.id, []).append(r), as two statements.
PendingAdd(P, r) == [P EXCEPT ![r.id] = Append(@, r)]

\* PERF_RECORD_AUX: read_record finds the AUX event (and asserts there is
\* only one), raw_records appends the record to pending_aux[r.id].
ReadAux ==
  /\ Consuming /\ Current.kind = "AUX"
  /\ IF AuxEventFound
       THEN /\ auxEvent' = TRUE
            /\ pending' = PendingAdd(pending, Current)
            /\ UNCHANGED rstatus
       ELSE /\ rstatus' = "failed"      \* "can't find event descriptor"
            /\ UNCHANGED <<auxEvent, pending>>
  /\ UNCHANGED <<env, infoType, bufs>>

\* Mutant: the branch without aux_event forgets to set aux_records.
AttachNoEvent(r) == [r EXCEPT !.aux = NoList]

\* The AUXTRACE record as raw_records leaves it when no AUX record was seen.
AttachEmpty(r) == r

(***************************************************************************)
(* PERF_RECORD_AUXTRACE: requires AUXTRACE_INFO; with no AUX record seen   *)
(* yet it gets no AUX records; otherwise it takes, and removes, the list   *)
(* pending under its key.                                                  *)
(***************************************************************************)
ReadAuxtrace ==
  LET r == [kind |-> "AUXTRACE", idx |-> Current.idx, lo |-> Current.lo,
             hi |-> Current.hi, aux |-> <<>>]
      k == AuxtraceKey(Current)
  IN  /\ Consuming /\ Current.kind = "AUXTRACE"
      /\ IF ~infoType
           THEN /\ rstatus' = "failed"  \* "seen PERF_RECORD_AUXTRACE without info"
                /\ UNCHANGED <<pending, bufs>>
         ELSE IF ~auxEvent
           THEN /\ bufs' = Append(bufs, AttachEmpty(r))
                /\ UNCHANGED <<pending, rstatus>>
         ELSE /\ bufs' = Append(bufs, [r EXCEPT !.aux = pending[k]])
              /\ pending' = [pending EXCEPT ![k] = <<>>]
              /\ UNCHANGED rstatus
      /\ UNCHANGED <<env, infoType, auxEvent>>

AuxNext ==
  \/ \E c \in Cpus : Produce(c) \/ CopyMain(c) \/ CopyAux(c)
  \/ ReadInfo
  \/ ReadAux
  \/ ReadAuxtrace

AuxSpec == AuxInit /\ [][AuxNext]_auxvars

-----------------------------------------------------------------------------
(* The HEADER_AUXTRACE index and aux_data_segment                          *)

\* PerfDataEventDesc.id_index(id), as read_record sets an AUX record's idx:
\* the 0-based position of id in the descriptor's ids; without ids the
\* identifier itself ("TBD: assume it's zero-based").
IdIndex(id) == IF hasIds THEN SelectInSeq(AuxIds, LAMBDA x : x = id) - 1 ELSE id

\* auxtrace_buffers(idx): HEADER_AUXTRACE lists the offset of every AUXTRACE
\* record perf record wrote, in file order; each is read back with
\* read_record (asserted to be an AUXTRACE record) and cached, and those of
\* mmap index idx are yielded.  The buffers written so far are a prefix of
\* that list.
AuxtraceBuffers(idx) == SelectSeq(file, LAMBDA r : r.kind = "AUXTRACE" /\ r.idx = idx)

\* aux_data_segment() of AUX record a: the first buffer of its idx whose
\* range holds a's chunk; NoList where the code asserts "can't find
\* AUXTRACE buffer for AUX".
AuxDataSegment(a) ==
  LET bs == AuxtraceBuffers(IdIndex(a.id))
      i  == SelectInSeq(bs, LAMBDA b : b.lo <= a.chunk /\ a.chunk <= b.hi)
  IN  IF i = 0 THEN NoList ELSE bs[i]

-----------------------------------------------------------------------------
(* Properties                                                              *)

\* Types; every AUXTRACE record read has its aux_records list.
TypeOK ==
  /\ head \in [Cpus -> 0..MaxChunks] /\ tail \in [Cpus -> 0..MaxChunks]
  /\ \A c \in Cpus : tail[c] <= head[c] /\ ring[c] \in Seq(AuxRec)
  /\ pos \in 0..Len(file)
  /\ pending \in [Keys -> Seq(AuxRec)]
  /\ \A i \in 1..Len(bufs) : bufs[i].aux \in Seq(AuxRec)
  /\ rstatus \in {"ok", "failed"}

\* The AUX records the reader has consumed.
AuxSeen == {file[i] : i \in {j \in 1..pos : file[j].kind = "AUX"}}

\* How many entries pending_aux and the aux_records lists hold, and which.
PlacedCount ==
  FoldFunction(LAMBDA s, n : Len(s) + n, 0, pending)
    + FoldSeq(LAMBDA b, n : Len(b.aux) + n, 0, bufs)
PlacedSet ==
  UNION {ToSet(pending[k]) : k \in Keys} \cup UNION {ToSet(bufs[i].aux) : i \in 1..Len(bufs)}

(***************************************************************************)
(* No AUX record is lost or duplicated by the linkage: each one read sits  *)
(* exactly once, either still in pending_aux or in the aux_records of one *)
(* AUXTRACE record, whatever the interleaving of CPUs and rings.           *)
(***************************************************************************)
AuxConservation ==
  rstatus = "ok" => PlacedSet = AuxSeen /\ PlacedCount = Cardinality(AuxSeen)

(***************************************************************************)
(* An AUXTRACE buffer only takes AUX records of its own event instance:    *)
(* the CPU whose ring its data came from (idx) is the CPU of every AUX     *)
(* record attached to it.                                                  *)
(***************************************************************************)
AttachSameInstance ==
  \A i \in 1..Len(bufs) : \A r \in ToSet(bufs[i].aux) : r.cpu = bufs[i].idx

(***************************************************************************)
(* raw_records' comments (perf_data.py:1255, :1279): an AUX record waits    *)
(* in pending_aux for "this AUX record's AUXTRACE buffer", which the      *)
(* 0-based index "matches up" with it.  So the buffer an AUX record is    *)
(* attached to is the one that holds its data, the buffer                  *)
(* aux_data_segment finds for it.  perf record copies the main and the AUX *)
(* rings separately, so an AUX record can reach the file after its buffer.*)
(***************************************************************************)
AuxAttachedToOwnBuffer ==
  \A i \in 1..Len(bufs) : \A a \in ToSet(bufs[i].aux) :
    AuxDataSegment(a) = [kind |-> "AUXTRACE", idx |-> bufs[i].idx,
                         lo |-> bufs[i].lo, hi |-> bufs[i].hi]

=============================================================================
