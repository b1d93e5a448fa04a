---------------------------- MODULE RecordStream ----------------------------
(***************************************************************************)
(* The data section as raw0_records walks it (perf_data.py): read_record   *)
(* reads an 8-byte header and the rest of the record, the AUX buffer after *)
(* a PERF_RECORD_AUXTRACE is read or stepped over, and a                   *)
(* PERF_RECORD_COMPRESSED is expanded into the records it holds, which     *)
(* are split by their size fields and yielded one at a time.               *)
(*                                                                         *)
(* The stream is a sequence of 8-byte units: a record header (kind, size   *)
(* in units, AUX buffer size, and for a compressed chunk the records it    *)
(* holds), then the rest of the record ("B"), then for AUXTRACE the AUX    *)
(* buffer ("X").  perf record is the writer; in pipe mode the reader runs  *)
(* beside it and a read blocks until the bytes it asks for are there or    *)
(* the writer has gone; in file mode the reader opens the finished file.   *)
(* perf record may die at any point, leaving a cut stream (pipe) or a      *)
(* header whose data size was never filled in (file).                      *)
(***************************************************************************)
EXTENDS Naturals, Integers, Sequences, SequencesExt

CONSTANTS
  MaxRecs,   \* logical records perf record writes
  ASz,       \* units in an AUX buffer
  NoData     \* r.aux_data is None (stepped over, or not a buffer record)

Main == {"SAMPLE", "AUX"}                  \* records from the main ring
Recs == Main \cup {"AUXTRACE"}             \* logical records
Kinds == Recs \cup {"COMPRESSED"}

\* r.size of each kind, in units; the AUX buffer follows AUXTRACE.
RecSize == [k \in Kinds |-> IF k = "SAMPLE" \/ k = "COMPRESSED" THEN 2 ELSE 1]

Hdr(k, sub) == [t |-> k, size |-> RecSize[k],
                asz |-> IF k = "AUXTRACE" THEN ASz ELSE 0, sub |-> sub]

\* A unit that is not a header: the rest of a record, or AUX data.
Fill(c) == [t |-> c, size |-> 0, asz |-> 0, sub |-> <<>>]

\* The bytes of one record as the writer produces them.
Enc(k) == <<Hdr(k, <<>>)>> \o [i \in 1..RecSize[k]-1 |-> Fill("B")]
            \o [i \in 1..Hdr(k, <<>>).asz |-> Fill("X")]

\* The bytes of a chunk of records, and of the PERF_RECORD_COMPRESSED that
\* holds them (decompression gives back the chunk's bytes).
EncAll(ks) == FoldLeft(LAMBDA acc, k : acc \o Enc(k), <<>>, ks)
EncCompressed(ks) == <<Hdr("COMPRESSED", EncAll(ks)), Fill("B")>>

VARIABLES
  stream,    \* the bytes written so far
  logical,   \* the records written so far (history)
  wstate,    \* perf record: "open", "closed", or "crashed"
  pipe,      \* is_pipe_mode
  data,      \* raw0_records(data=...)
  rstate,    \* reader: "idle" before open, "ok", "done", or "failed"
  eoff,      \* the offset of the next record
  dataEnd,   \* self.data_end (file mode)
  ucd,       \* the decompressed bytes not yet split
  auxEvent,  \* self.aux_event is set
  out        \* the records yielded

wvars == <<stream, logical, wstate>>
rvars == <<rstate, eoff, dataEnd, ucd, auxEvent, out>>
vars  == <<wvars, pipe, data, rvars>>

Init ==
  /\ stream = <<>> /\ logical = <<>> /\ wstate = "open"
  /\ pipe \in BOOLEAN /\ data \in BOOLEAN
  /\ rstate = "idle" /\ eoff = 0 /\ dataEnd = 0 /\ ucd = <<>>
  /\ auxEvent = FALSE /\ out = <<>>

-----------------------------------------------------------------------------
(* perf record                                                             *)

Emit(k) ==
  /\ wstate = "open" /\ Len(logical) < MaxRecs
  /\ stream' = stream \o Enc(k)
  /\ logical' = Append(logical, k)
  /\ UNCHANGED <<wstate, pipe, data, rvars>>

\* perf record -z: records of the main ring go out as one compressed chunk.
EmitCompressed(ks) ==
  /\ wstate = "open" /\ Len(logical) + Len(ks) <= MaxRecs
  /\ stream' = stream \o EncCompressed(ks)
  /\ logical' = logical \o ks
  /\ UNCHANGED <<wstate, pipe, data, rvars>>

Close ==
  /\ wstate = "open"
  /\ wstate' = "closed"
  /\ UNCHANGED <<stream, logical, pipe, data, rvars>>

\* perf record dies after writing n units of its next record.
Crash(k, n) ==
  /\ wstate = "open" /\ Len(logical) < MaxRecs
  /\ stream' = stream \o SubSeq(Enc(k), 1, n)
  /\ logical' = Append(logical, k)
  /\ wstate' = "crashed"
  /\ UNCHANGED <<pipe, data, rvars>>

-----------------------------------------------------------------------------
(* The reader                                                              *)

\* open_and_read_header and the start of raw0_records.  A file is read once
\* perf record has finished; its data size is only filled in by a clean
\* exit.  A pipe is read as it is written, data_end None.
Open ==
  /\ rstate = "idle"
  /\ ~pipe => wstate # "open"
  /\ rstate' = "ok"
  /\ dataEnd' = IF ~pipe /\ wstate = "closed" THEN Len(stream) ELSE 0
  /\ UNCHANGED <<wvars, pipe, data, eoff, ucd, auxEvent, out>>

\* Mutant: the loop stops one unit before data_end.
DataLeftEarly(e) == e + 1 < dataEnd

\* The while condition of raw0_records in file mode.
DataLeft(e) == e < dataEnd

\* Units a read can return: in file mode the whole file is there; in pipe
\* mode a read waits until the writer has gone or written enough.
Avail == Len(stream) - eoff

\* Mutant: a pipe only ends when perf record exits cleanly.
WriterClosed == wstate = "closed"

\* The read of a pipe returns short or empty once no writer holds it open,
\* whether perf record exited or died.
WriterGone == wstate # "open"

\* Mutant: the AUX buffer is taken as everything that is left.
AuxReadAll(left) == IF left > 0 THEN left ELSE 0

\* self.f.read(r.auxtrace_size): at most the buffer size.
AuxRead(left) == IF left <= 0 THEN 0 ELSE IF left < ASz THEN left ELSE ASz

\* Mutant: the AUX buffer is not stepped over.
AdvanceNoAux(e, h) == e + h.size

\* eoff += r.size, and += r.auxtrace_size after a PERF_RECORD_AUXTRACE.
Advance(e, h) == e + h.size + h.asz

\* A yielded record: its kind and its AUX data (units read, or NoData).
Yielded(k, got) == [t |-> k, got |-> got]

\* Bytes taken for a header that are not one: the size field is garbage
\* and what follows is misparsed; the model yields a record nobody wrote
\* and stops.
Garbage == Yielded("JUNK", NoData)

(***************************************************************************)
(* One iteration of the loop of raw0_records, read_record inside it.  In   *)
(* pipe mode an empty read ends the loop once the writer has gone; a       *)
(* record shorter than its size field raises (PerfRecord's size assert).   *)
(***************************************************************************)
ReadRecord ==
  LET h    == stream[eoff + 1]
      need == h.size + h.asz
  IN  /\ rstate = "ok" /\ ucd = <<>>
      /\ IF pipe THEN Avail > 0 ELSE DataLeft(eoff)
      /\ pipe => (Avail >= need \/ WriterGone)
      /\ IF h.t \in {"B", "X"}
           THEN /\ rstate' = "failed" /\ out' = Append(out, Garbage)
                /\ UNCHANGED <<eoff, ucd, auxEvent>>
         ELSE IF Avail < h.size
           THEN /\ rstate' = "failed"
                /\ UNCHANGED <<eoff, ucd, auxEvent, out>>
         ELSE /\ eoff' = Advance(eoff, h)
              /\ UNCHANGED rstate
              /\ CASE h.t = "COMPRESSED" ->
                        /\ ucd' = h.sub
                        /\ UNCHANGED <<auxEvent, out>>
                   [] h.t = "AUXTRACE" ->
                        /\ out' = Append(out, Yielded(h.t,
                                    IF data \/ pipe THEN AuxRead(Avail - h.size) ELSE NoData))
                        /\ UNCHANGED <<ucd, auxEvent>>
                   [] h.t = "AUX" ->
                        /\ out' = Append(out, Yielded(h.t, NoData))
                        /\ auxEvent' = TRUE
                        /\ UNCHANGED ucd
                   [] OTHER ->
                        /\ out' = Append(out, Yielded(h.t, NoData))
                        /\ UNCHANGED <<ucd, auxEvent>>
      /\ UNCHANGED <<wvars, pipe, data, dataEnd>>

\* The end of the loop: data_end reached, or the pipe read found nothing.
EndOfData ==
  /\ rstate = "ok" /\ ucd = <<>>
  /\ IF pipe THEN Avail <= 0 /\ WriterGone ELSE ~DataLeft(eoff)
  /\ rstate' = "done"
  /\ UNCHANGED <<wvars, pipe, data, eoff, dataEnd, ucd, auxEvent, out>>

\* The loop over a decompressed chunk: take size bytes as a record made by
\* PerfDataRecord directly, not by read_record.
ExpandSub ==
  LET h == ucd[1]
  IN  /\ rstate = "ok" /\ ucd # <<>>
      /\ out' = Append(out, Yielded(h.t, NoData))
      /\ ucd' = SubSeq(ucd, h.size + 1, Len(ucd))
      /\ UNCHANGED <<wvars, pipe, data, rstate, eoff, dataEnd, auxEvent>>

Next ==
  \/ \E k \in Recs : Emit(k)
  \/ \E a, b \in Main : EmitCompressed(<<a, b>>)
  \/ Close
  \/ \E k \in Recs : \E n \in 0..Len(Enc(k))-1 : Crash(k, n)
  \/ Open \/ ReadRecord \/ EndOfData \/ ExpandSub

Spec == Init /\ [][Next]_vars

\* One pass of the reader's loop.
ReaderStep == Open \/ ReadRecord \/ EndOfData \/ ExpandSub

(***************************************************************************)
(* The caller iterates records() to the end ("for r in pd.records()"), so  *)
(* the reader's loop keeps taking steps while one is possible; perf record *)
(* is not assumed to stop.                                                 *)
(***************************************************************************)
FairSpec == Spec /\ WF_vars(ReaderStep)

-----------------------------------------------------------------------------
(* Properties                                                              *)

\* Types; what a yielded record carries.
TypeOK ==
  /\ logical \in Seq(Recs) /\ Len(logical) <= MaxRecs
  /\ wstate \in {"open", "closed", "crashed"}
  /\ rstate \in {"idle", "ok", "done", "failed"}
  /\ eoff \in Nat /\ dataEnd \in 0..Len(stream)
  /\ \A i \in 1..Len(out) :
       /\ out[i].t \in Recs \cup {"JUNK"}
       /\ out[i].got \in 0..ASz \cup {NoData}

(***************************************************************************)
(* Refinement: raw0_records yields the records perf record wrote, in the   *)
(* order written, compressed or not, and never one it did not write        *)
(* (including after a crash cut the stream anywhere): the offset           *)
(* arithmetic over records, AUX buffers and decompressed chunks never      *)
(* loses its place.                                                        *)
(***************************************************************************)
Abstract == INSTANCE RecordListSpec WITH
              written <- logical, yielded <- [i \in 1..Len(out) |-> out[i].t]
StreamRefinement == Abstract!Spec

(***************************************************************************)
(* A capture perf record finished cleanly is read without error, and when  *)
(* the loop ends every record written has been yielded, in file mode with  *)
(* or without the AUX data and in pipe mode.                               *)
(***************************************************************************)
StreamComplete ==
  wstate = "closed" =>
    /\ rstate # "failed"
    /\ rstate = "done" => Len(out) = Len(logical)

(***************************************************************************)
(* Once perf record has gone, the reader's loop ends: after a clean exit   *)
(* with every record written yielded (file or pipe), after a crash with    *)
(* the end of the data or an error.  No read of a pipe whose writer died   *)
(* waits for ever, and no offset leaves the loop spinning.                 *)
(***************************************************************************)
ReadToTheEnd ==
  /\ wstate = "closed" ~> (rstate = "done" /\ Len(out) = Len(logical))
  /\ wstate = "crashed" ~> rstate \in {"done", "failed"}

(***************************************************************************)
(* spec.md: the container yields the records as written: an AUXTRACE      *)
(* record "is immediately followed in the byte stream by its raw buffer of *)
(* declared size" (a truncated section is a StructuralError, "never        *)
(* silently recovered"), and compressed records are "transparently         *)
(* expanded into a sub-stream of ordinary records".  Every AUXTRACE record *)
(* yielded with its data carries the whole buffer, and once a              *)
(* PERF_RECORD_AUX has been yielded read_record's AUX step has found the   *)
(* AUX event (aux_event) that raw_records' AUXTRACE linkage depends on.    *)
(***************************************************************************)
RecordsAsWritten ==
  /\ \A i \in 1..Len(out) :
       out[i].t = "AUXTRACE" /\ out[i].got # NoData => out[i].got = ASz
  /\ (\E i \in 1..Len(out) : out[i].t = "AUX") => auxEvent

=============================================================================
