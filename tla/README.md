# TLA+ models of pyperf

This directory holds TLA+ models of `pyperf`
(`src/linux_app/pmu_app/pyperf/pyperf/`). pyperf reads and writes the perf.data
container that `perf record` produces. The PMU validation harness
(`pmuval/sbsa_acs_pmu.py`) uses it to check captures. Every module is
translated from the Python source; `PROJECT.json` maps each definition to the
lines it models.

pyperf is single-threaded and synchronous, so the models contain no threads.
The only fairness is on the reader's record loop (see Fairness). The hard
behaviours come from the **input**, not from concurrency:

- the order in which metadata and records arrive;
- records that never arrive (`PERF_RECORD_LOST`, a capture truncated by a
  crash);
- tables that build up over a stream and are consulted later;
- boundary values in offsets and sizes.

The models let TLC enumerate every short input of the kinds the kernel and
perf produce, and they check what the code does with each one.

## 1. Inventory

| Component (spec.md name) | Source | State it keeps | Operations that change it |
|---|---|---|---|
| RangeMap: `DataMap`/`DataRange` | `datamap.py` | `log` of all ranges; a tree of subranges ordered by base | `add` (descends through `add_range`, then `check`) |
| EventDescriptor: `PerfEventAttr` | `perf_attr.py` | a raw byte image plus the set of fields explicitly set | `__setattr__` of the fields, `update`, `set_defaults`, the period/freq and wakeup unions |
| Event specifier: `EventConfig` | `perf_espec.py` 196-596 | the attribute, `name`, `pmu`, `cpumask`, `valid`, the error log | `__init__`, `reset`, `configure` (every kind of specifier), `set_custom_parameter`, `set_generic_parameter`, `report`; `is_valid` |
| RecordCodec: `PerfRecord.unpack` | `perf_abi.py` | per record: the decoded fields and a list of decode anomalies | `unpack` (sample field order; trailing `sample_id_all` fields; per-kind payloads), `time()` |
| Event table | `perf_data.py` 386-780, 1001-1045 | `event_descs`, `event_attrs`, `event_index`, `n_events`, `default_event_attr`, the identifier offsets | `add_event`, `add_events`, the sub-header loop and attribute section of `open_and_read_header`, HEADER_ATTR and FEATURE records in `raw_records`; the lookups `event_index_by_id`, `event_attr_by_id` |
| Record stream | `perf_data.py` 1083-1192 | the file offset `eoff`, `data_end` | `read_record`, `raw0_records` (skipping AUXTRACE payloads, expanding COMPRESSED) |
| AUX linkage | `perf_data.py` 1105-1118, 1225-1296 | `aux_event`, `auxtrace_info_type`, `pending_aux` | AUX, AUXTRACE, AUXTRACE_INFO and ITRACE_START handling; the HEADER_AUXTRACE lookups `id_index`, `auxtrace_buffers`, `aux_data_segment` |
| Sorted iteration | `perf_data.py` 1308-1334, 1501-1506 | the sorted list of the first pass | `records(sorted_time=True)`: first pass, stable sort by time (missing time = 0), materialise; `PerfDataReader.records` passes the flag down |
| Writer | `perf_data.py` 548-638 | header descriptors, `section_data.size` | `open_and_write_header`, `write_record`, `write_headers_as_records`, `close` (backpatches descriptors) |
| Image map: `imagemap`, `Symtab` | `imagemap.py` | `images` (base, end, data, deferred); `syms`, the sorted-address cache `sym_addr`, `sym_names` | `add_bin`, `add_elf`, `add_ko`, `add_nm_syms`, `write`, and the lookups, which sort the table and load deferred images |
| Build-id cache: `BuildIDCache` | `perf_buildid.py` 136-395 | the cache directory and its index, per-file directories, the copies `<dir>/f/id`, the index links `.build-id/<id>` | `create`, `add_file`, `remove_file`, `purge_file`, `clear`, the command line (`--update`, `--list`, `--list-all`); the lookups `contains_id`, `id_cache_contents`, `list` |
| Event list parser: `perf_parse` | `perf_parse.py` | none (a pure function) | `perf_parse` (groups, group suffixes, PMU events whose terms hold commas) |
| PMU validation harness | `pmuval/sbsa_acs_pmu.py` | the relations, the global `total[0..2]`, each relation's `n_tests`/`n_fails`, the pass totals | `read_relations`, the pass and relation loops of the main program, `test_relation` (`open_event` with its retry, `Workload.run`, `Witness.read`/`accepts`), the summary |
| ContextReplayer: `PerfDataReader` | `perf_data.py` 1361-1551 | `threads` (tid → name, process), `procs` (pid → list of mappings) | COMM, FORK, MMAP/MMAP2 and EXIT handling in `records()`, with the build-id resolution of MMAP records (`build_id`, `BuildIDCacheRO.id_matching_file`, `set_buildid_cache`); `lookup_addr`, `lookup_addr_all` |

The remaining files are listed in `PROJECT.json` as `not_modelled`, each with
its reason:

- zstd decoding;
- the ELF reader (its results enter `ImageMap` as constant file descriptors);
- sysfs;
- the rest of event-spec parsing (`events()`, `__str__`);
- the enum tables and utilities;
- the AUX decoders;
- the build scripts.

**How the components interact.**

- `PerfData.open_and_read_header` does three things:
  - it feeds every file region to the DataMap, which rejects overlapping
    sections;
  - it fills the event table from HEADER_EVENT_DESC and the attribute section;
  - it dispatches the other sub-headers.
- In pipe mode there are no headers. The same metadata arrives as
  HEADER_ATTR and HEADER_FEATURE records in the data stream, interleaved with
  everything else.
- `raw_records` associates each kernel record with an event through the
  table (`get_record_event`). It does this by reading the record's identifier
  at an offset that the table has fixed. It then calls the codec.
- The same loop links AUX records to AUXTRACE buffers.
- `PerfDataReader.records()` replays COMM, FORK and MMAP records into
  per-process mapping lists. Analysis code queries those lists with
  `lookup_addr`.

**Hard behaviours**, all listed as hazards in `PROJECT.json`:

- A pipe stream may describe the same events twice: once in HEADER_ATTR
  records and once in FEATURE(HEADER_EVENT_DESC). The outcome depends on
  which comes first.
- Records can be lost. A process can be known from its MMAP records but not
  from its COMM or FORK.
- Mappings are never removed, and a fork copies the parent's mappings.
  Replaced mappings therefore stay in the list.
- AUX and AUXTRACE records may arrive in either order.
- The data section may be truncated.
- Compressed chunks contain sub-records with their own size fields.
- A writer may stop before `close` backpatches the header, or in the middle
  of a record or of an AUX buffer written to a pipe.
- A sample's layout depends on the flags of its event; one field misread
  shifts every field after it.

**Properties that make each component correct.**

- **DataMap:**
  - the tree holds exactly the non-empty ranges;
  - `check` fails exactly when two ranges overlap without nesting;
  - `find` returns the most specific range, and `contains` holds exactly
    where some range covers the address;
  - the gaps reported by `iter_unmapped` tile each range.
- **Event table:**
  - the identifier index agrees with the descriptors;
  - no record is decoded with another event's attributes;
  - a record whose identifier the table knows, or a record of a
    single-event capture, is always associated.
- **Replayer:**
  - lookups are complete;
  - every answer comes from the process's lineage or from the kernel;
  - `lookup_addr_all` names exactly the processes holding the address
    (the kernel alone when it does);
  - the answer is the *current* mapping;
  - fed a timed capture with `records(sorted_time=True)`, every process
    holds exactly the mappings the kernel gave it so far, however perf
    record interleaved the CPUs' buffers;
  - mapping lists only grow, or are cloned at fork;
  - every mapping carries the build id HEADER_BUILD_ID gives its (pid, file),
    the process's own entry before the wildcard, and names a file that has
    that build id.
- **AUX linkage:**
  - no AUX record is lost or duplicated between `pending_aux` and the
    buffers' `aux_records`;
  - a buffer only takes AUX records of its own CPU;
  - (violated, Finding 4) the buffer an AUX record is attached to is the
    one `aux_data_segment` finds for it, as the code's comments say.
- **Record stream:**
  - the records yielded are a prefix of the records written, in order
    (a refinement of `RecordListSpec`);
  - a capture that perf record closed is read to the end without error;
  - once perf record has exited or died, the reader's loop ends (liveness,
    under weak fairness of the loop);
  - an AUXTRACE record comes with its whole buffer (violated);
  - an AUX record inside a compressed chunk sets `aux_event` (violated).
- **Record codec:**
  - `unpack` inverts the kernel's encoding for every supported layout;
  - `time()` gives the same answer before and after `unpack`;
  - registers of every ABI the kernel reports are decoded (not checked by a
    run any more; see Findings, "Also noted").
- **Build-id cache:**
  - no index link is left pointing at nothing, whatever calls failed;
  - a call that reports success has the effect it promises on lookups.
- **Event descriptor:**
  - a field reads as set only when the attribute's bytes carry it, so
    `PerfEventAttr(bytes())` reads it back;
  - a bit field holds a value of its width;
  - `set_defaults` never overrides a value that reads as set (shown for
    attributes whose unions carry their selector; see Findings for the
    others).

## 2. Modules

Modules are listed in the order they were built. `MC_*` modules instantiate
them for TLC.

### `DataMapSpec` (abstract) and `DataMap` (`datamap.py`)

**DataMapSpec.** This is the abstract specification. It keeps:

- the log of `add` calls;
- the set of kept (non-empty) ranges;
- the status, which becomes `failed` once the ranges stop being a laminar
  family (every two ranges nested or disjoint).

**DataMap.** This module keeps the tree as `kids[p]`, the subrange list of
node `p`. Node 0 is TOP, and node `i` is the `i`-th range added.

- `Add` is `DataMap.add` with the whole of `add_range` inside it:
  - the descent to the first covering subrange;
  - the `assert not down` failure;
  - moving the enclosed subranges under the new node;
  - insertion by address;
  - the `check()` that follows.
- Zero sizes stay out of the tree (`if size:`).
- `FindFrom` models the descent of `find` (`Find` starts it at TOP),
  `DataMapContains` models `contains`, and `Unmapped` models `iter_unmapped`.
- `DataMapRefinement` is `DataMapSpec!Spec`, with `ranges` mapped to the set
  of nodes reachable in the tree.

### `EventTable` (`perf_data.py`, `perf_abi.py` offsets)

**State.**

- `tbl` is the record of PerfData's table fields, named as in the code.
- `n_events` and the offsets start `Unset`. In pipe mode,
  `open_and_read_header` returns before assigning `n_events`.

**Inputs.** A capture is drawn from `Captures`. It has:

- an ordered list of events;
- each event's `sample_type` and `sample_id_all`, which are what fix where a
  record's identifier sits;
- each event's identifier set.

**Actions.**

- `OpenFile`: file mode. The sub-header loop (`HeaderFlags`, `Headers`,
  `ProcessHeader` folded over the flags in bit order, HEADER_EVENT_DESC
  through `add_events`), then the attribute loop.
- `RecvHeaderAttr`, `RecvEventDescFeature`: pipe mode.
- `DecodeRecord(e, kind, rid)`: `get_record_event` for a record of event `e`
  whose identifier field holds `rid`. `rid` is 0 for synthesized records.
  A known identifier is resolved through `EventAttrById`
  (`event_attr_by_id` over `event_index_by_id`).

`add_event` and `add_events` are operators folded over the event list, so that
one action is one call of the code.

### `ContextReplayer` (`PerfDataReader`, `ThreadInfo`, `ProcessInfo`)

**State.**

- `threads[tid]` is `[name, proc]`. `ThreadInfo.process` and
  `ProcessInfo.threads` are one relation.
- `procs[pid]` is the mapping list.
- `status` becomes `failed` when an assertion raises.

**Actions.** One action per record kind:

- `Comm`;
- `Fork`, with the clone in `ForkMaps`;
- `Mmap`;
- `Exit`.

`LookupAddr` is `lookup_addr` and `LookupAddrAll` is `lookup_addr_all` as
operators; the properties quantify over them. `ThreadInfo` is the
constructor of a thread entry.

**Build ids.** `records()` resolves a build id for each MMAP record as it
yields it, before the context update, and the record stored in the mapping
list carries it. `Resolve` is that step:

- `HeaderMap` is `build_id_map`, the HEADER_BUILD_ID entries folded in file
  order so that a later entry for a (pid, file) replaces an earlier one;
- `BuildId` is `PerfData.build_id`: none for `//anon` (`Anon`), else the
  entry for (pid, file), else the wildcard entry (−1, file);
- `IdCacheContents` and `IdMatchingFile` are the cache's read path: the
  single file of the build id's cache directory, else the mapped file when
  its build id on disk (`DiskId`, standing for `file_buildid`) matches;
- `FileCached` is the branch in `records()`: through the cache when one is
  configured (`cacheOn`, chosen in `Init` through `SetBuildidCache` from the
  argument forms `set_buildid_cache` accepts), else the mapped file when its
  build id matches.

The HEADER_BUILD_ID table, the build ids on disk and the cache directory
contents (`CacheFiles`) are constants: the replayer reads them and never
changes them.

**History variables.** Two history variables serve only the properties:

- `last` is the last record;
- `lineage` is a process and its fork ancestors.

**Inputs.** Any sequence of well-formed records is allowed, since any record
may be lost:

- a main thread has tid = pid;
- a secondary thread is never a pid;
- kernel mappings come from pid −1.

### `SortedReplay` (`PerfData.records`, `PerfDataReader.records`)

`SortedReplay` EXTENDS `ContextReplayer` and adds where the records come
from. `src` chooses the source: `"lossy"` keeps ContextReplayer's arbitrary
stream with loss (its `Next`), `"stream"` and `"sorted"` read a capture.

**Environment (the kernel and perf record).** `hist` is the kernel's FORK and
MMAP events in time order (`ValidHistory`: a child acts only after its single
FORK, a parent runs when it forks). `KernelMaps` folds them into each
process's mappings as the kernel holds them. Each event is written to the
ring buffer of some CPU; perf record copies the buffers in turn, so the data
section (`DataSections`) is any interleaving that keeps each CPU's order.
`timed` says whether records carry a time (`sample_id_all` with
PERF_SAMPLE_TIME); without it `r.t` is None.

**Reader.** `RecordsOrder` is `PerfData.records`: with `sorted_time` the
first pass is sorted by `rectime` (None as 0), a stable sort (`SortedByTime`);
otherwise stream order. `ReadRecord` takes the next record and handles it
with ContextReplayer's `Fork` or `Mmap`, as `PerfDataReader.records` does.

### `AuxLink` (`read_record`, the AUX cases of `raw_records`)

**Environment (the writer of the stream).** One AUX event is opened per CPU,
with one identifier per CPU, listed in CPU order.

- `Produce(c)`: the kernel closes an AUX chunk on CPU `c`. The data goes into
  the AUX ring and a PERF_RECORD_AUX (naming its chunk) into the main ring.
- `CopyMain(c)`: perf record copies CPU `c`'s main ring into the file.
- `CopyAux(c)`: perf record copies the new part of the AUX ring as one
  AUXTRACE record covering a range of chunks.

The two copies are independent, so an AUX record may land before or after
the buffer that holds its data. The file starts with AUXTRACE_INFO, which
perf synthesizes first. Whether the descriptor has an id list (`hasIds`) and
whether a dummy event is present (`nEvents`) are drawn in `Init`.

**Reader.** One action per record kind of `raw_records`:

- `ReadInfo`: AUXTRACE_INFO. A second one raises.
- `ReadAux`: `read_record` finds the event (`event_desc_by_id`, which works
  through the index or for a lone event), sets `aux_event`, and
  `raw_records` appends the record to `pending_aux[r.id]`.
- `ReadAuxtrace`: this asserts info was seen. With `aux_event` unset the
  buffer gets no AUX records. Otherwise the key is `ids[idx]`, or `idx`
  without ids, and the buffer takes and removes the list pending there.

**HEADER_AUXTRACE lookups.** `IdIndex` is `id_index` (the position of an
identifier in the id list, or the identifier itself without one),
`AuxtraceBuffers` the file's AUXTRACE records of an idx, and `AuxDataSegment`
is `aux_data_segment`: the buffer of the AUX record's idx whose chunks cover
the record's. `AuxAttachedToOwnBuffer` compares it with the linkage.
`AuxInit`, `AuxNext` and `AuxSpec` carry the prefix so that the module can be
hosted beside `BuildIdCache` in one run.

### `RecordListSpec` (abstract) and `RecordStream` (`read_record`, `raw0_records`)

**RecordListSpec.** What iteration in stream order promises: `written` is the
list of logical records, which only grows (`Write`, one record or a chunk);
`yielded` grows by the next written record (`Yield`). Nothing is yielded out
of order, twice, or unwritten.

**RecordStream.** The data section is a sequence of 8-byte units. A record
is its header unit (kind, size, AUX buffer size, and for a compressed chunk
the units it holds) followed by `B` units; an AUXTRACE record is followed by
its buffer of `X` units.

- **Writer (perf record):** `Emit(k)` appends a record, `EmitCompressed(ks)`
  a PERF_RECORD_COMPRESSED holding several, `Close` finishes the capture,
  `Crash(k, n)` writes the first `n` units of a record and stops.
- **Reader:** `Open` is the start of `raw0_records`: a pipe reads beside the
  writer; a file is opened when the writer is gone, with `data_end` the
  data size the header holds (0 after a crash, as perf never rewrote it).
  `ReadRecord` is `read_record` plus the loop body: a header that is not a
  header raises; a short record ends the stream; the AUX buffer is read or
  stepped over and `eoff` moves past it; COMPRESSED fills `ucd`; AUX sets
  `aux_event`. In pipe mode a read blocks until its bytes are there or the
  writer is gone. `EndOfData` is the loop's exit; `ExpandSub` yields the next
  sub-record of `ucd`, bypassing `read_record`.
- `StreamRefinement` maps `written` to the records emitted and `yielded` to
  the kinds of the records yielded.
- `FairSpec` adds weak fairness on `ReaderStep` (the four reader actions);
  `ReadToTheEnd` says that once the writer is gone the loop reaches its end.

### `RecordCodec` (`PerfRecord.unpack`, `time`, the offsets of `perf_abi.py`)

**Words.** A payload is a sequence of 8-byte words, each carrying the name
of the field it belongs to and a number (a count or size; −1 is all ones).
The decoder keeps a byte offset, as `d = d[k:]` does, so a 4-byte read
leaves it mid-word and the next 8-byte read returns junk. A struct read
beyond the end raises; a slice never does.

**Reference encoder.** `KernelSample` and `KernelMmap` write the layouts of
perf_event_open(2): the sample fields in kernel order (the read format, the
callchain, the raw blob with its u32 size, the branch stack with the hw_idx
word when HW_INDEX is set, registers as u64 after the ABI word, the user
stack with `dyn_size`), and the `sample_id_all` fields after a non-sample
body. A sample rewritten by the 2020 perf inject carries the hw_idx word as
−1 without HW_INDEX.

**Decoder.** `DecodeSample` is the `if st & PERF_SAMPLE_*` chain of `unpack`,
a fold of `DecField` over `SampleOrder`, with `DecRead` (`ReadFormat`),
`DecRegs` (`PerfRegSample.sample`), `DecBranch` (the workaround and the
entry-count assertion) and `DecStack`, then the leftover-bytes note.
`DecodeMmap` pops the trailing fields off the end (`unpack_sample_id`) and
reads the MMAP body and file name from what is left.

**Actions.** `Init` picks the events' attributes, the event that wrote the
record, its kind and the sizes of its variable parts. `AddEvent` is
`add_event`'s offset agreement, `GetRecordEvent` is `get_record_event`
(reading the identifier at the common offset when there are several events),
`Time` is `time()` and `Unpack` is `unpack()`. The model keeps of a decode
only where it stopped, whether it raised, and whether every field was found
where the kernel wrote it.

### `ImageMap` (`imagemap.py`: `Symtab`, `image`, `imagemap`)

The image map is the library the trace decoders use to read program text
and name addresses. It is outside spec.md's core.

**State.**

- `images` is the list searched front to back. An image has `base`, `end`,
  its `data`, `deferred` (data not yet read from the file) and `mutable`
  (a `bytearray` from `add_bin`, or the `bytes` the ELF reader returns).
- `syms`, `symAddr` and `symNames` are `Symtab`'s list, its sorted-address
  cache (`None` after an `add`) and its name index.
- `res` and `status` are what the last call returned or raised.
- `call` and `added` (every symbol added, in order) are history variables
  for the properties.

**Files.** A plain file is a byte sequence. An ELF file is a record of what
`elf.ELF` and the binutils give: `elf_type`, `machine`, the lines `nm`
prints, the `.text` lines of `objdump -T`, the program headers and the
section headers.

**Actions.** One action per public call:

- `AddBin` (`add_bin`, also `add_file`'s path for non-ELF files);
- `AddElf(e, load, isKo)` (`add_elf` and `add_ko`), which adds the symbols
  (`ElfSyms`: `nm` with the Thumb-bit map and the mapping-symbol reject, or
  the `objdump -T` fallback), then the deferred segment images, or for a
  kernel module raises where `saddr` is read;
- `AddNmSyms`;
- `FindSym`, `FindExactSym`, `DescSym`, `FindSymName`;
- `ReadAt` (`read`, `read16`/`read32` with `struct.unpack`);
- `Write`.

`EnsureSorted` is a stable insertion sort (`list.sort`), and `BisectRight`
is `bisect.bisect_right` as a recursive binary search.

### `EventAttr` (`perf_attr.py`: `PerfEventAttr`)

**State.** `attrs` maps each object a caller holds to a record:

- `size` is `len(_raw)`;
- `raw` is the byte image, kept per field (no two modelled fields share a
  bit, and `setbitof` and `_Bits.set_value` change only their own bits);
- `valid` is `_valid`, kept as the set of fields whose `ix` it holds;
- `extra` holds the plain instance attributes that `__setattr__` creates
  for the combined names `_fields_in_address_order` yields for a union whose
  selector is None.

`status` is the exception the last call raised, if any. `call` records the
last call for the action property.

**Fields.** Seventeen fields stand for the forty, with the positions of the
code: `type`, `config`, `sample_type`, the two union stores, the selector
bits `freq` and `watermark`, the 2-bit `precise_ip`, `context_switch` (after
which the wakeup union is yielded), the bits `inherit`, `pinned`,
`exclude_hv`, `exclude_idle` and `exclude_guest`, `bp_type`, `config1`, and
`config2`, which a 64-byte attribute lacks. The fields beyond the first nine
are those `EventConfig` writes.

**Actions.** One per public call: `Update` (`update(**kw)`, through
`is_settable_field`), `UpdateOther` (`update(other)`), `SetDefaults`,
`SetDefaultsOther` and `Copy` (`__copy__`). A call is a fold of `SetAttr`
(the descriptor `__set__` or a union setter) over the names, and stops at the
first exception, leaving what was already written. `GetAttr` is `getattr`,
with the union getters' assertions. The model follows Python 3, where
`hasattr` lets every exception but AttributeError through.

### `EventConfig` (`perf_espec.py`: `EventConfig`)

EventConfig extends EventAttr: the attribute an `EventConfig` holds is an
EventAttr record, written through the same `SetAttr`, so a value too wide
for its field raises as `_Bits.set_value` does.

**State.** `ec` is the object: `a` (its attribute), `pmu`, `cpumask`,
`log` (the messages of `report`, so that `valid` is an empty log), `err`
(the exception `configure` raised, if any) and `extra` (modifiers reported
as unknown). `mach` is the machine: its PMUs with their type, cpumask,
sysfs formats (word and bit range) and named events, the tracepoint
directory and the CoreSight sinks, all read from `/sys` by the code and
constant here. `given` is the last specifier.

**Specifiers.** A specifier is a record of what `configure` splits it into:
the base name, the number of slashes, the `a=v` terms (a value, no `=`
(`NoEq`) or a string that is not a number (`NotNum`)), the modifiers after
`//:` and the colon-separated segments. `ParameterMap` builds the dict of
terms in insertion order; a later term of the same name replaces the value
but keeps its place.

**Actions.** `ConfigureEvent(e)` is `event(e)`: `Configure` from a fresh
object (`__init__` calls `reset`, and `configure` resets again), with every
branch of `configure` as one operator: `CustomEvent` (PMU events, named
events through `NamedEventFields`, the term loop `FieldLoop`, sink terms),
`Breakpoint` (`mem:`), `Tracepoint`, `BareName` (hardware-cache names, the
retry as `cpu/<name>/` with `quiet=True`, the JSON fallback) and the raw,
mapped and `PERF_COUNT_*` cases; `Modifiers` folds `Modifier` over the
suffix characters. An exception stops the fold where it was raised. The
event_attr run hosts both modules, in two modes chosen at the start.

### `BuildIdCache` (`perf_buildid.py`: `BuildIDCache`)

**State.** The directories and links of `~/.debug`:

- `root` and `idx`: the cache directory and its `.build-id` index exist;
- `names`: the per-file directories `<dir>/f`;
- `dirs`: the copies, pairs `<<f, id>>` for `<dir>/f/id/elf`;
- `links[id]`: the file whose copy the link `.build-id/<id>` names;
- `disk[f]`: the build id of `f` on disk now (`file_buildid`).

`Lookup(id)` follows the link as `os.path.exists` and `id_cache_contents` do,
so an id is cached when its link exists and names an existing copy.

**Actions.** `Create`, `AddFile`, `RemoveFile`, `PurgeFile`, `Clear` and
`CliUpdate` (the `--update` branch of the command line) and `CliList`
(`--list`, `--list-all`, which filter on `IsValid`) are the calls;
`Rebuild` changes a file's build id between calls. A call that raises keeps
what it did before the exception: `add_file` without an index has made the
copy; `purge_file` whose `os.listdir` reaches an id without a link has
removed the links of the ids listed before it (any subset, since the order of
`os.listdir` is unspecified). Later calls go on from there, as the next
command line would. The hex layout of the link names (`xx/yyyy...`) is
abstracted to the id.

### `PmuHarness` (`pmuval/sbsa_acs_pmu.py`)

**State.** `hphase` is where the script is: before reading the CSV, between
relations of a pass (`"pass"`), inside a relation's test (`"test"`), at the
summary, done, or ended by an exception or `sys.exit` (`"exited"`). `csv` is
the file's lines, each an event code or a line that `int(_, 16)` rejects;
`rels` the codes read; `i`, `ri` and `x` the loop variables of the main
program; `total` the global `total[0..2]`; `ntests` and `nfails` each
relation's counters; `total_tests`, `total_fails` and `printed` the pass
totals and the summaries printed. `seen` and `verdicts` are history: the
counts read for the current test, and for each finished test whether the
SBSA rule held.

**Actions.** `Load` is `list(read_relations())`; `StartRelation` is the
head of `for r in rels` (resetting `total`), or the end of the pass;
`TestRelation` is one `test_relation(r, x)` call: `open_event` succeeds, is
retried as user space only, or raises; `Workload.run` may `sys.exit`; the
counter reads a value of `Counts` into `total[x]`; `Witness.accepts` judges
(only at `x = 2` with `--scaling`); the test is counted; after the last step
the relation's counters are added to the totals. `Summary` prints and starts
the next pass.

### `PerfParse` (`perf_parse.py`)

`PerfParse`, `ParseGroup` and `ParseEvent` translate the three branches of
`perf_parse` over strings as sequences of characters, with Python's 0-based
`find` and slices; an AssertionError is a result with `ok` false. The second
half of the module generates lists as the docstring describes them (events,
PMU events with comma-separated terms, groups of up to two events, a group
suffix, leading, doubled and trailing commas) and says what each denotes.
The variable `input` is chosen once in `ParseInit`; there are no actions.

### Planned

1. Multi-event identification in `RecordCodec` (two events whose identifier
   offsets agree, the identifier read from the payload). Until then
   `EventTable` checks association at the level of identifiers.

The **writer** (`open_and_write_header`, `write_record`, `close`) is not
modelled because no path of it completes under Python 3:

- in file mode `open_and_write_header` calls `self.seek`, which needs the
  DataMap that only `open_and_read_header` creates;
- writing an event calls `evd.attr.encode()` (`perf_data.py:584`), which
  `PerfEventAttr` does not define;
- in pipe mode it writes bytes to the text-mode `sys.stdout`, and `close`
  calls `tell()` on the pipe.

## 3. Runs

| Run | Config | Expect | What it shows |
|---|---|---|---|
| `datamap` | `MC_DataMap.cfg` | pass | Covers every sequence of 4 `add` calls over a 5-byte file (137,821 states). The tree refines the laminar-family spec. `find` is most specific. Unmapped gaps tile every range. |
| `event_table` | `MC_EventTable.cfg` | pass | Covers 3 capture layouts × file/pipe × with/without HEADER_EVENT_DESC × every metadata order. The index is consistent and no record is decoded with the wrong attributes. |
| `event_table_assoc` | `MC_EventTable_assoc.cfg` | violation | ATTR then FEATURE(EVENT_DESC) in a single-event pipe capture leaves `n_events` = 0. Every later record then fails to associate. |
| `replayer` | `MC_ContextReplayer.cfg` | pass | Covers streams of 4 records over pids {1,2}, thread 3 and the kernel, with 2 addresses and 2 files, with and without a build-id cache. Lookups are complete and sound (`LookupSound`); every mapping carries the build id of its (pid, file) and a file with that build id (`BuildIdResolved`); mapping lists only grow or are cloned at fork (`MapsAppendOnly`). The same run reads every capture of 3 FORK and MMAP events on 2 CPUs, in stream order or sorted, timed or not: sorted and timed, every process's mappings are the kernel's after every record (`ReplayInTimeOrder`) (367,830 states). |
| `replayer_lookup` | `MC_ContextReplayer_lookup.cfg` | violation | `LookupAsSpecified`. The counterexample is a single MMAP for pid 1 whose COMM was lost: the lookup for pid 1 ignores that mapping. The model also reaches COMM, MMAP(fA at 0), MMAP(fB at 0), where the lookup still answers fA. |
| `aux_own_buffer` | `MC_AuxLink.cfg` | violation | `AuxAttachedToOwnBuffer`. On one CPU: perf record copies chunk 1's AUX data, then the main ring with its AUX record, then chunk 2's data; the AUX record of chunk 1 is attached to the buffer of chunk 2. |
| `record_stream` | `MC_RecordStream.cfg` | pass | Covers every stream of up to 4 SAMPLE, AUX and AUXTRACE records, plain or in compressed chunks, cut by a crash at any unit, read as a file (with and without AUX data) or as a pipe beside the writer (19,622 states). The reader yields a prefix of what was written, in order, and all of it for a closed capture. Under weak fairness of the reader's loop, once perf record exits or dies the loop ends, with every record after a clean exit (`ReadToTheEnd`). |
| `record_written` | `MC_RecordStream_written.cfg` | violation | `RecordsAsWritten`. The counterexample: perf record dies inside an AUX buffer written to a pipe, and the AUXTRACE record is yielded with a short buffer as if the stream were complete. The model also reaches a PERF_RECORD_AUX inside a compressed chunk, yielded without `read_record`, so `aux_event` stays unset. |
| `codec_layout` | `MC_RecordCodec.cfg` | pass | Covers every sample of one event whose `sample_type` mixes IDENTIFIER, TIME, CPU, READ (plain, or grouped with times and ids), CALLCHAIN, BRANCH_STACK (with and without HW_INDEX, with the perf inject word), REGS_USER and STACK_USER, and MMAP records with and without `sample_id_all` (393,216 states). `unpack` reads every field from the words written for it and leaves nothing over; `time()` agrees before and after `unpack`. |
| `buildid_cache` | `MC_BuildIdCache.cfg` | pass | Covers every sequence of five calls and rebuilds over two files and two build ids, from an existing cache or none, with `--list` and `--list-all`. No index link is left dangling (`LinksResolve`), and every call that reports success leaves the lookups as it promises (`CallsTakeEffect`). The run also reaches the AssertionError, FileNotFoundError, FileExistsError and TypeError described under Findings. In a second mode it runs the PMU harness: each relation's test and failure counts follow the SBSA rule applied to that relation's own readings (`RelationVerdicts`), and each pass's summary reports failures exactly when one happened (`SummaryReportsFailures`). In a third it parses every list of the generator: `perf_parse` returns the groups written (`ParseAsDocumented`). In a fourth it runs the AUX linkage over 2 CPUs × 2 chunks each, the main and AUX rings copied in every order, with and without an id list, and one or two events: AUX records are conserved (`AuxConservation`) and never cross CPUs (`AttachSameInstance`) (380,820 states in all). |
| `imagemap` | `MC_ImageMap.cfg` | pass | Covers every sequence of 4 calls over a plain file, an Arm shared object, a stripped AArch64 executable, a kernel module and a kallsyms-style listing (646,109 states). Every symbol lookup answers from all symbols added so far, whatever adds, sorts and lookups came before. |
| `event_attr` | `MC_EventAttr.cfg` | pass | Covers every sequence of three `update`, `set_defaults` and `copy` calls, with keywords or with the other object, on two attributes built field by field (64 or 112 bytes) or read from a frequency-mode or a period-mode raw image. Every set field is inside the attribute's bytes, bit fields keep their width, and `set_defaults` overrides nothing on an attribute whose unions are tagged. The same run configures every specifier of the set below on two machines (140,142 states in all): for a valid PMU event whose terms are numbers, each format field decodes to its value modulo its width and no other config bit is set (`ConfigEncodesTerms`), and an event bound to a PMU has that PMU's type and cpumask (`EventOwnsPmu`). |

### Bounds

**DataMap.** Four ranges in five addresses are enough to produce:

- nesting three deep;
- identical ranges;
- adjacent ranges;
- adopting two subranges at once;
- every overlap shape.

**EventTable.** The captures are the three layouts perf produces:

- a single event with no identifier field;
- several events with PERF_SAMPLE_IDENTIFIER;
- several events with PERF_SAMPLE_ID.

The two events of a capture differ in a flag that does not move the
identifier, so a wrong association is visible. One event has two
identifiers (two CPUs).

**ContextReplayer.** Four records are enough for:

- fork, then exec at the parent's address;
- a second mapping at the same address;
- a lost COMM;
- a thread of a forked process;
- a COMM arriving after a MMAP.

A 2-byte address space gives disjoint, nested and identical mappings.

For the file-driven sources, three kernel events on two CPUs are the least
for every misordering: a child's MMAP written on another CPU before its
FORK, a parent's MMAP after the fork copied into the file after it, and two
MMAPs of a process that migrated read in reverse. Two files of lengths 1
and 2 make the order of mappings visible to the comparison.
The build-id table names fA twice for process 1 (the later entry wins), fA
for any process and `//anon` (fB); fA's build id on disk is i2; the cache
holds a single copy of i1 and two files under i2. With and without a cache,
these take every branch of `build_id`, `id_matching_file` and the file
resolution in `records()`.

**AuxLink.** Two CPUs are the least that tell a right `ids[idx]` from a wrong
one. Two chunks per CPU are the least that let an AUX record wait for a later
buffer, and that let one buffer cover two chunks.

**ImageMap.** A 4-byte address space and four calls. This is enough for:

- two sources of symbols with a lookup between and after them;
- two symbols at one address (`f` from the kallsyms listing and the Arm
  object);
- a mapping symbol, an undefined line and an empty name;
- a map, a write and a read back;
- a deferred segment longer in memory than in the file;
- a kernel module, and `add_ko` of a file that is not one.

**EventAttr.** Two objects, so that `update(other)`, `set_defaults(other)`
and `copy` have a partner. Sizes 64 and 112 put `config2` outside one of
them. The raw images are one in frequency mode and one in period mode. Three
calls reach an untagged union (`update(freq=None)` or an update from an
object without `freq`) and a `set_defaults` after it. One value per
integer field is enough: a union written through the other member still
changes what its property reads.

**EventConfig.** Two machines: an Arm one (a CPU PMU `armv8_pmuv3` with
no "cpu" PMU, and `cs_etm` with a cpumask, a sink and a sink field in
`config2`) and one with a "cpu" PMU whose type equals PERF_TYPE_RAW, as on
x86. Formats of 1 and 2 bits in `config` and `config1` put neighbouring
fields side by side, so a mask one bit wide spills into the next field.
The specifiers take every branch of `configure`: each base name kind, with
the modifier strings `up`, `pppp`, `PIDS` and an unknown one; PMU events with
18 term lists (full-width and too-wide values, repeated terms, non-numbers,
named events with and without their `?` term, predefined terms, sink terms,
an unknown term, a blank); mapped names with the predefined terms;
breakpoints and tracepoints that exist and that do not.

**RecordStream.** Four records reach a compressed chunk holding two records
next to plain ones, two AUXTRACE records, and a crash inside any record or
buffer. An AUX buffer of 2 units can be cut in its middle. Samples are 2
units so that a cut inside a record differs from a cut between records.

**RecordCodec.** One event and eight flags: every variable-length field,
and the fixed fields that move the timestamp (IDENTIFIER before it in a
sample, IDENTIFIER and CPU after it in a non-sample record). Lengths 0 and 1
for the callchain and branch stack, 0 and 8 bytes for the user stack, one
register: each reaches both sides of every size test in the decoder (`bnr >
0`, `size != 0`, the entry-count assertion). The read formats are the plain
one and the grouped one with both times and ids, which between them take
every branch of `ReadFormat.unpack`.

**BuildIdCache.** Two files and two build ids are the least for two files
sharing a build id and for a file rebuilt with a new one. Five calls reach
the longest failure described under Findings (two adds, two purges) with one
call to spare, and `clear` followed by `add_file`.

**PmuHarness.** One relation, two relations, or one relation followed by a
line that does not parse; two passes, so that counters persist from one pass
into the next; counts 0, 1 and 2, which give zero, equal and growing scaling
series; with and without `--scaling` and a command, and every outcome of
`perf_event_open`.

**PerfParse.** Three event texts: a name, a PMU event with two terms
separated by a comma (`c/t,v/`), and a PMU event with a modifier after its
closing slash; groups of one or two events, the suffix `:u`, up to three
items, separators of one or two commas, a leading and a trailing comma. That
is every branch of the parser, and every way a comma can appear.

### Fairness

Only `record_stream` assumes fairness: `WF_vars(ReaderStep)` in `FairSpec`.
Every use of the stream iterates `records()` in a `for` loop to its end, and
each step of `raw0_records` (read a header, read or skip the AUX buffer,
expand a chunk, leave the loop) is enabled until it is taken. perf record is
given no fairness: it may stop at any time, and `ReadToTheEnd` only speaks of
behaviours in which it has exited or died.

### Deadlock

- DataMap, ContextReplayer (with SortedReplay), RecordStream, RecordCodec, ImageMap,
  EventAttr and BuildIdCache (with PmuHarness, PerfParse and AuxLink) use
  `CHECK_DEADLOCK FALSE`: a behaviour ends
  after its bounded number of calls or records, or when an assertion has
  raised.
- EventTable checks deadlock. Decoding stays enabled once the metadata is
  complete.

### Mutants

Every property of a passing run has a mutant in `PROJECT.json`. A mutant is a
plausible bug in the mapped code, and TLC finds it:

- an off-by-one in insertion or index assignment;
- a dropped `if size:`;
- a `find` that stops at the top level;
- gaps measured from a base;
- indexing only the first identifier;
- using the default descriptor for n_events 0;
- `get_proc` that does not store, or that replaces, a process;
- an inclusive mapping limit;
- the mapped file taken without reading its build id when there is no cache;
- `pending_aux` overwritten instead of appended;
- the AUXTRACE key taken from the first identifier whatever the idx;
- `aux_records` left unset when no AUX was seen;
- the AUX buffer read whatever is left, `eoff` not moved past the buffer,
  the data-end test one unit early, the end of a pipe seen only on a clean
  exit;
- `sorted_time` not passed down to `PerfData.records`;
- a slice that moves past the end, `dyn_size` not read, CPU left out of the
  time offset of a non-sample record;
- `Symtab.add` that keeps the sorted cache, the Thumb bit taken off every
  Arm address;
- `__set__` without its size assertion, `_Bits.set_value` without its mask
  assertion, `set_defaults` writing `sample_freq`/`sample_period` whatever
  `freq` says;
- `reset` that keeps the previous specifier's PMU and cpumask, a format
  field masked one bit too narrow;
- `remove_file` removing the copy before testing the link, `add_file`
  keeping an existing link;
- every scaling run of `test_relation` counted as a test,
  `total_fails = r.n_fails` in place of `+=`;
- a comma search in `perf_parse` that ignores the slashes of a PMU event.

## 4. Findings

1. **`event_table_assoc`** (code bug, `perf_data.py:687`). `add_events` zeroes
   `n_events`, and `add_event` returns early for events already known through
   HEADER_ATTR. After HEADER_ATTR then FEATURE(HEADER_EVENT_DESC), `n_events`
   is 0 while the table holds one descriptor. For a single-event capture
   without an identifier field, `get_record_event` then raises "record
   identifier not locatable" for every record. spec.md says the default
   descriptor covers records that cannot otherwise be associated.
   Current perf emits features before attributes. The failure needs the other
   order, as produced by older perf or by stream rewriting.
2. **`replayer_lookup`** (divergence, `perf_data.py:1472` and `:1426`).
   spec.md says `find(process_id, address)` checks the named process's list
   first. The code departs from that in two ways:
   - `lookup_addr` reaches the process through the thread table, so a
     process whose COMM and FORK were lost is answered from the kernel maps
     only;
   - `find_addr` returns the oldest covering mapping, so a fork followed by
     exec of a binary at the parent's address (common with non-PIE
     executables) keeps resolving to the parent's binary.
3. **`record_written`** (divergence, `perf_data.py:1149` and `:1167`). The AUX buffer
   after an AUXTRACE record is read with `self.f.read(r.auxtrace_size)` and
   the length is never checked. When perf record dies while writing the
   buffer into a pipe, the record is yielded with a short buffer, `eoff`
   moves past the missing bytes, and the next empty read ends the loop like
   a normal end of stream. spec.md calls a truncated section a structural
   error that is never silently recovered.
   The same property catches the compressed case. The records of
   a PERF_RECORD_COMPRESSED are built and yielded without `read_record`, so
   an AUX record among them never sets `aux_event` (nor `r.idx`). With
   `perf record -z` the AUX records are in the compressed main ring; every
   AUXTRACE buffer is then linked as if no AUX record had been seen. spec.md
   says compressed records are expanded "transparently".
4. **`aux_own_buffer`** (code bug, `perf_data.py:1285`). `raw_records`
   keeps each AUX record in `pending_aux` and hands the whole list to the
   next AUXTRACE record of the same identifier. Its comments say the record
   waits for "this AUX record's AUXTRACE buffer" (line 1255) and that the
   index "matches this AUXTRACE up with AUX records" (line 1279). perf record
   copies the main ring and the AUX ring separately, so the AUXTRACE record
   holding a chunk can reach the file before the chunk's AUX record. That
   buffer then takes nothing, or the records of earlier chunks, and the AUX
   record is attached to the next buffer of its CPU, whose range does not
   contain its `aux_offset`; `aux_data_segment` finds its data in the
   earlier buffer. A decoder that reads a buffer's `aux_records` gets
   segments of another buffer.

Also noted while modelling, without a run of their own:

- **Stream-order replay** (`perf_data.py:1506`). `PerfDataReader.records()`
  defaults to `sorted_time=False`, and then replays the records in the order
  perf record copied the CPUs' buffers. spec.md says the replay consumes
  records in time order. `SortedReplay` with `src = "stream"` reaches: a
  child's MMAP before its FORK (the FORK then replaces the child's list with
  the parent's, losing the mapping); a parent's MMAP written before the fork
  but copied after it (the child inherits it); and two MMAPs of a migrated
  process in reverse. Without timestamps, sorting keeps stream order, so
  `sorted_time=True` does not help such a capture either.

- **User registers under ABI_NONE and ABI_32** (`perf_abi.py:128` and
  `:121`). `PerfRegSample.sample` asserts "unknown ABI" for
  PERF_SAMPLE_REGS_ABI_NONE, which the kernel reports, with no register
  words, for a sample with no user context (a kernel thread). For
  PERF_SAMPLE_REGS_ABI_32 it reads 4-byte registers although the kernel
  writes every register as a u64, so every later field is misread.
  `RecordCodec`'s `DecRegs` models both branches; a run with those ABIs
  finds `DecodeInverts` violated at the first such sample, and the passing
  run reports registers under ABI_64 only.
- **`purge_file` asserts after two files shared a build id**
  (`perf_buildid.py:329`). `add_file --force` of a second file whose build id
  is cached for a first replaces the link, leaving the first copy with no
  link. `purge_file` of the first then removes the link of the shared id,
  which names the second file's copy; `purge_file` of the second fails its
  `islink` assertion, and that copy can only be removed by `clear`. The
  `buildid_cache` run reaches it in four calls. Two files with one build id
  are common (a copied binary, a stripped and an unstripped build).
- **`add_file` without an index** (`perf_buildid.py:274`). The command line
  never calls `create()`. On a home without `~/.debug/.build-id`, and after
  `--purge-all` (`clear`), `add_file` copies the file and then raises
  FileNotFoundError at `os.mkdir` of `.build-id/xx`; `create()` then raises
  FileExistsError because the cache directory exists. `--update` calls
  `add_file(opts.add)` with `opts.add` None and raises TypeError
  (`perf_buildid.py:389`).

- **No build ids in a piped capture** (`perf_data.py:960`). `build_id_map`
  is filled only from the HEADER_BUILD_ID section of a seekable file. In a
  pipe, the build ids arrive as PERF_RECORD_HEADER_BUILD_ID records or as a
  FEATURE record with HEADER_BUILD_ID. `raw_records` passes the first
  through, and `process_header` ignores the second. No mapping of a piped
  capture gets a build id, although spec.md says metadata arrives embedded as
  records in that mode. The replayer model starts from the table of a
  seekable file.

- **`PerfEventAttr.set_defaults` can override a set period**
  (`perf_attr.py:250`, reached through `:366`). `update(other)` from an
  attribute whose `freq` is unset copies `freq` as None, and passes the
  union's value to a plain attribute named `{ sample_period, sample_freq }`.
  The receiver keeps its period with no selector. `set_defaults(sample_freq=x)`
  then takes the `freq is None` branch and overwrites the period, which the
  docstring says must not happen. `event_attr` reaches this state; its
  `DefaultsKeepSet` is stated for tagged unions for this reason. Checked
  in Python: `PerfEventAttr(sample_period=100).update(PerfEventAttr(config1=7))`
  followed by `set_defaults(sample_freq=4000)` leaves `freq` 1 and the value
  4000.
- Under Python 3, `is_settable_field` calls `hasattr`, which lets the
  union getters' AssertionError through, so `PerfEventAttr(sample_freq=100)`
  raises unless `freq` is already 1 (`perf_attr.py:220`); the module's own
  `test()` fails at line 435. `set_defaults(other)` raises AttributeError on
  the combined union name whenever `other` has no `freq` or no `watermark`
  (`perf_attr.py:261`).
- `add_elf(..., is_ko=True)`, which `add_ko` calls, reads the undefined
  names `saddr` and `i` at the first executable section (`imagemap.py:591`):
  adding any kernel module with code raises NameError after its symbols were
  added. `write` into an image loaded by `add_elf` raises TypeError, since the
  data is the immutable `bytes` the ELF reader returns (`imagemap.py:678`).
  Each is reached by a single call. `read16`/`read32` at the end of a
  segment whose `memsz` exceeds its `filesz` raise `struct.error`
  (`imagemap.py:334`); the `imagemap` run reaches it.

- The perf inject workaround is noted with `sev="warning"`, which `note()`
  drops (`perf_abi.py:325`), so the record's anomaly list does not show it;
  spec.md says the defect is flagged.

- `read_elf_symlist` falls back to `objdump -T` when `nm` finds no
  symbols, and adds those symbols without `symbol_real_address` or
  `is_mapping_symbol` (`imagemap.py:260`). For a stripped 32-bit Arm shared
  object, Thumb function addresses then keep bit 0, and a lookup of a
  function's entry names the previous symbol.
- Without an id list in the AUX event's descriptor, `id_index` returns the
  identifier itself (`perf_data.py:297`), so AUXTRACE buffers are keyed by
  `idx` while AUX records wait under their identifier: no AUX record is ever
  attached, and `aux_data_segment` finds no buffer. `AuxLink` reaches this
  (`hasIds` false); `AuxAttachedToOwnBuffer` only speaks of attached records.
- `find_image` takes the first image containing the whole range. With
  overlapping images, a write through one image and a read of a sub-range
  through another disagree. No property states what overlapping images
  should give.

- **`EventConfig.configure`** (`perf_espec.py`), reached in the
  `event_attr` run, with no property contradicted since neither the
  docstrings nor spec.md says what these inputs should give:
  - `mem:` specifiers always raise AttributeError: `bp_addr` is a plain
    name on `PerfEventAttr` with no setter (`perf_espec.py:427`);
  - the JSON fallback names `PMUdesc`, of which only `PMUdescx` is
    imported, so its NameError is swallowed and the fallback never works
    (`:469`);
  - an unknown named event raises NameError from `PMU.event_names()`, or
    with `quiet=True` UnboundLocalError, which the bare-name retry swallows
    (`:394`);
  - `stack-size=` sets `attr.stack_user`, which the attribute never
    carries; a term value that is not a number is taken as 1; `config=`
    with a non-number in a PMU event raises TypeError;
  - `PERF_COUNT_HW_CACHE_*` names are taken as hardware events, so
    `PERF_COUNT_HW_CACHE_L1D` counts cycles (`:344`);
  - `:pppp` raises AssertionError from the 2-bit `precise_ip`;
  - on a machine without a "cpu" PMU an unknown bare name gives an invalid
    event with no message, and hardware-cache names with modifiers reach the
    tracepoint branch and are reported;
  - a failed `cpu/<name>/` retry leaves the cpu PMU and its cpumask on the
    object (`:462`);
  - values past a format's width are printed and truncated (`:523`).

- **`perf_parse` and a group suffix** (`perf_parse.py:46`). The comma that
  ends a group's suffix is searched for in `s[kix+1]`, one character, so
  none is found and the suffix runs to the end of the string: `{a}:u,b`
  gives `[['a:u,b']]`, and `{a}:u,` gives `[['a:u,']]`. The parser also
  accepts `a}` as an event and `{}` as an empty group. The generator of
  `PerfParse` puts a suffix only at the end of a list for this reason.
- **Harness totals with `--repeat`** (`sbsa_acs_pmu.py:344`). After each
  relation the pass adds `r.n_tests` and `r.n_fails`, which count every pass
  so far, so the totals printed after pass k count the tests of pass 1 k
  times: with two relations the second summary says 6 tests, not 4. The
  `buildid_cache` run reaches it; `SummaryReportsFailures` holds because
  only zero and non-zero are read from the failure count.
- **Harness exits** (`sbsa_acs_pmu.py:156`, `:251`, `:117`). An
  `open_event` whose user-space retry also fails, a command that exits
  non-zero, or a CSV code that is not hexadecimal (a ValueError, not the
  BadEvent the loop catches) ends the script with no summary of the passes
  already run. `Witness.accepts` reads the main program's loop variable `x`
  rather than the monitor's step.

## 5. Not modelled

- **Byte-level formats.** Byte layouts are abstracted to what the properties
  distinguish: 8-byte units in RecordStream, named words in RecordCodec.
  Attributes are reduced to the fields that fix a layout; mappings to a pid,
  an extent and a file. The non-sample record types other than MMAP have
  fixed struct layouts and are not decoded in the model.
- **zstd.** Decompression of a PERF_RECORD_COMPRESSED is taken as giving back
  the bytes of the records it holds.
- **Output and diagnostics.** Printing, debug output and diagnostics are left
  out.
- **Build-id files.** `file_buildid` (reading the ELF note) and the
  directories of the cache are constants of ContextReplayer; the cache's
  maintenance commands are modelled separately in BuildIdCache.
- **Other components.** The components listed as `not_modelled` in
  `PROJECT.json` are out of TLC's reach (zstd, ELF), are pure I/O (sysfs),
  or have no state machine (enum tables). Of `perf_espec.py`,
  `events()` (group parsing), `__str__` and the hardware-cache
  name tables are not modelled; multi-range sysfs formats, which raise, are
  not generated.
- **Harness I/O.** Of `sbsa_acs_pmu.py`, argument parsing, the pysweep
  workloads of `Workload.prepare` (code outside this repository's Python),
  `show_witness` and the perf_event_open system call itself are left out; a
  counter reading is a free value.
