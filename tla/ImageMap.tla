------------------------------ MODULE ImageMap -------------------------------
(***************************************************************************)
(* imagemap.py: an address space made of images (program text loaded at   *)
(* an address) and a symbol table, as used to decode instruction traces.   *)
(*                                                                         *)
(* imagemap.images is a list searched front to back; an image added by     *)
(* add_bin holds a bytearray, an image of an ELF segment is "deferred":    *)
(* its data() is read from the file on first use.  Symtab keeps its        *)
(* symbols as an unsorted list plus a cache of their sorted addresses      *)
(* (sym_addr), rebuilt by ensure_sorted after any add.                     *)
(*                                                                         *)
(* Files are described by constants: a plain file is a byte sequence, an   *)
(* ELF file a record of what elf.ELF and the binutils read from it.  The   *)
(* external addr2line and symbolizer processes are not modelled.           *)
(***************************************************************************)
EXTENDS Naturals, Integers, Sequences, SequencesExt, FiniteSets

CONSTANTS
  MaxAddr,       \* addresses are 0..MaxAddr-1
  Bytes,         \* byte values
  Names,         \* symbol names as nm prints them
  MappingNames,  \* the names is_mapping_symbol_ARM accepts ($a, $t.1, ...)
  BinFiles,      \* contents of plain (non-ELF) files
  Elves,         \* ELF files
  NmLists,       \* nm-format symbol lists (add_nm_syms, e.g. /proc/kallsyms)
  Loads,         \* load addresses passed to add_elf / add_ko
  Offsets,       \* file offsets passed to add_bin
  Sizes,         \* sizes passed to add_bin (or None)
  WordSizes,     \* 2 for read16, 4 for read32
  WriteData,     \* byte strings passed to write
  MaxOps,        \* calls made on one imagemap
  None

Addrs == 0..MaxAddr-1

(* An ELF file: elf_type, machine, the lines nm prints ([undef, addr,     *)
(* name]), the .text lines of objdump -T ([addr, name]), the program      *)
(* headers and, for a relocatable file, the section headers.              *)
NmLine  == [undef : BOOLEAN, addr : Addrs, name : Names]
\* "huge": filesz above 0x100000000 (seen in /proc/kcore), its data not modelled.
Segment == [type : {"LOAD", "NOTE"}, x : BOOLEAN, huge : BOOLEAN, vaddr : Addrs, memsz : Nat, bytes : Seq(Bytes)]
Section == [alloc : BOOLEAN, progbits : BOOLEAN, exec : BOOLEAN]

ASSUME \A e \in Elves : e.etype \in {"EXEC", "DYN", "REL"} /\ e.machine \in {"ARM", "AARCH64", "X86"}

(* An image: base_addr, end_addr, the data, and whether data() has still  *)
(* to read it (deferred); "mutable" is TRUE for a bytearray, FALSE for the *)
(* bytes the ELF reader returns.                                           *)
Image == [base : Addrs, end : Nat, data : Seq(Bytes), deferred : BOOLEAN, mutable : BOOLEAN]

VARIABLES
  images,    \* imagemap.images
  syms,      \* Symtab.syms: <<addr, name>> pairs
  symAddr,   \* Symtab.sym_addr: None, or the addresses of syms once sorted
  symNames,  \* Symtab.sym_names: name -> addr
  res,       \* what the last call returned
  status,    \* "ok", or the exception the last call raised
  added,     \* history: every symbol added, in order
  call,      \* history: the last call and its arguments
  ops        \* calls made

symtab == <<syms, symAddr, symNames>>
vars == <<images, syms, symAddr, symNames, res, status, added, call, ops>>

-----------------------------------------------------------------------------
(* Symtab                                                                  *)

\* Symtab.add: append, drop the sorted cache, name -> addr (last one wins).
SymAddNoReset(S, a, n) == [S EXCEPT !.syms = Append(@, <<a, n>>), !.names = (n :> a) @@ @]
SymAdd(S, a, n) ==
  [S EXCEPT !.syms = Append(@, <<a, n>>), !.addr = None, !.names = (n :> a) @@ @]

\* list.sort(key=addr): a stable sort, inserting each pair after the
\* pairs with an address not above its own.
RECURSIVE SortByAddr(_)
SortByAddr(s) ==
  IF s = <<>> THEN s
  ELSE LET r == SortByAddr(Tail(s))
           k == Cardinality({i \in 1..Len(r) : r[i][1] < Head(s)[1]})
       IN  SubSeq(r, 1, k) \o <<Head(s)>> \o SubSeq(r, k + 1, Len(r))

\* ensure_sorted: sort and rebuild sym_addr when the cache was dropped.
EnsureSorted(S) ==
  IF S.addr # None THEN S
  ELSE LET s == SortByAddr(S.syms)
       IN  [S EXCEPT !.syms = s, !.addr = [i \in 1..Len(s) |-> s[i][1]]]

\* bisect.bisect_right(xs, a) on xs[lo+1..hi].
RECURSIVE BisectRight(_, _, _, _)
BisectRight(xs, a, lo, hi) ==
  IF lo >= hi THEN lo
  ELSE LET mid == (lo + hi) \div 2
       IN  IF a < xs[mid + 1] THEN BisectRight(xs, a, lo, mid)
                              ELSE BisectRight(xs, a, mid + 1, hi)

\* find_sym_by_addr on a sorted table: the pair before the bisection point.
FindSymByAddr(S, a) ==
  LET ix == BisectRight(S.addr, a, 0, Len(S.addr))
  IN  IF ix > 0 THEN S.syms[ix] ELSE None

\* find_sym_by_name: the address last added under the name.
FindSymByName(S, n) == IF n \in DOMAIN S.names THEN S.names[n] ELSE None

-----------------------------------------------------------------------------
(* Reading symbol lists                                                    *)

\* Mutant: the Thumb bit is taken off every address.
RealAddressDecrement(e, a) == IF e.machine = "ARM" THEN a - 1 ELSE a

\* elf.symbol_real_address_ARM clears the Thumb bit; other machines keep it.
RealAddress(e, a) == IF e.machine = "ARM" THEN a - (a % 2) ELSE a
\* elf.is_mapping_symbol_ARM, used for 32- and 64-bit Arm.
IsMappingSymbol(e, n) == e.machine \in {"ARM", "AARCH64"} /\ n \in MappingNames

\* read_nm_symlist: the lines kept (defined, named, not rejected), with
\* address map(addr) + load.  An address past the modelled space is cut.
NmKept(lines, e, load) ==
  SelectSeq(lines, LAMBDA l : ~l.undef /\ l.name # "" /\ (e = None \/ ~IsMappingSymbol(e, l.name)))
NmAddr(l, e, load) == (IF e = None THEN l.addr ELSE RealAddress(e, l.addr)) + load

\* Adding a list of (addr, name) pairs to the table, in order.
AddAll(S, pairs) == FoldLeft(LAMBDA T, p : SymAdd(T, p[1], p[2]), S, pairs)

(***************************************************************************)
(* read_elf_symlist: nm's symbols; when nm found none, objdump -T's .text  *)
(* symbols, added with load but with neither map nor reject.               *)
(***************************************************************************)
ElfSyms(e, load) ==
  LET kept == NmKept(e.nm, e, load)
  IN  IF kept # <<>> THEN [i \in 1..Len(kept) |-> <<NmAddr(kept[i], e, load), kept[i].name>>]
      ELSE [i \in 1..Len(e.dyn) |-> <<e.dyn[i].addr + load, e.dyn[i].name>>]

NmSyms(lines) ==
  LET kept == NmKept(lines, None, 0)
  IN  [i \in 1..Len(kept) |-> <<kept[i].addr, kept[i].name>>]

-----------------------------------------------------------------------------
(* Images                                                                  *)

\* image.contains(addr, size)
ImageContains(im, a, n) == im.base <= a /\ a + n <= im.end

\* find_image: the index of the first image containing the range, or 0.
FindImage(a, n) == SelectInSeq(images, LAMBDA im : ImageContains(im, a, n))

\* image.data(): a deferred image reads its segment now.
Loaded(im) == [im EXCEPT !.deferred = FALSE]

\* Python slicing: the elements of s from i+1 to j that exist.
Slice(s, i, j) == SubSeq(s, i + 1, IF j < Len(s) THEN j ELSE Len(s))

\* image(base_addr, data, ...): a bytearray copy of the blob, or a
\* deferred segment whose extent is the segment's memory size.
BinImage(bin, addr)   == [base |-> addr, end |-> addr + Len(bin), data |-> bin, deferred |-> FALSE, mutable |-> TRUE]
SegImage(seg, addr)   == [base |-> addr, end |-> addr + seg.memsz, data |-> seg.bytes, deferred |-> TRUE, mutable |-> FALSE]

\* An ELF program header add_elf maps: loadable, executable, and at most
\* 4GB of file data.
Mapped(seg) == seg.type = "LOAD" /\ seg.x /\ ~seg.huge
\* A section layout_sections() would place (add_elf with is_ko).
Placed(sec) == sec.alloc /\ sec.progbits /\ sec.exec

-----------------------------------------------------------------------------
(* The imagemap calls                                                      *)

ST == [syms |-> syms, addr |-> symAddr, names |-> symNames]
SetST(S) == syms' = S.syms /\ symAddr' = S.addr /\ symNames' = S.names

Init ==
  /\ images = <<>>
  /\ syms = <<>> /\ symAddr = None /\ symNames = <<>>
  /\ res = None /\ status = "ok" /\ added = <<>> /\ call = <<"none">> /\ ops = 0

Call(c) == ops < MaxOps /\ ops' = ops + 1 /\ call' = c

\* add_bin(fn, addr, offset=offset, size=size), also the path add_file
\* takes for a non-ELF file or a non-zero offset.  add_segment asserts
\* load_addr (0) <= addr.
AddBin(f, addr, offset, size) ==
  LET bin == IF size = None THEN Slice(f, offset, Len(f)) ELSE Slice(f, offset, offset + size)
  IN  /\ Call(<<"add_bin", addr>>)
      /\ images' = Append(images, BinImage(bin, addr))
      /\ res' = Len(images') /\ status' = "ok"
      /\ UNCHANGED <<syms, symAddr, symNames, added>>

(***************************************************************************)
(* add_elf(fn, load) and add_ko(fn, load): the symbols first, then the     *)
(* code.  Any type but ET_DYN ignores the load address; add_ko returns at  *)
(* once unless the file is ET_REL.  For an ELF file each mapped program    *)
(* header becomes a deferred image at vaddr + load.  For a kernel module   *)
(* the first section layout_sections() would place raises NameError        *)
(* (saddr and i are not defined there) after the symbols were added.       *)
(***************************************************************************)
AddElf(e, load0, isKo) ==
  LET load == IF ~isKo /\ e.etype # "DYN" THEN 0 ELSE load0
      new  == ElfSyms(e, load)
      segs == SelectSeq(e.segs, Mapped)
  IN  /\ Call(<<IF isKo THEN "add_ko" ELSE "add_elf", load0>>)
      /\ IF isKo /\ e.etype # "REL"
           THEN /\ res' = None /\ status' = "ok"
                /\ UNCHANGED <<images, syms, symAddr, symNames, added>>
           ELSE /\ SetST(AddAll(ST, new))
                /\ added' = added \o new
                /\ IF isKo
                     THEN /\ images' = images /\ res' = None
                          /\ status' = IF \E i \in DOMAIN e.secs : Placed(e.secs[i])
                                         THEN "NameError" ELSE "ok"
                     ELSE /\ images' = images \o [i \in 1..Len(segs) |-> SegImage(segs[i], segs[i].vaddr + load)]
                          /\ res' = None /\ status' = "ok"

\* add_nm_syms(fn): the lines of an nm listing (or /proc/kallsyms).
AddNmSyms(lines) ==
  /\ Call(<<"add_nm_syms">>)
  /\ SetST(AddAll(ST, NmSyms(lines)))
  /\ added' = added \o NmSyms(lines)
  /\ res' = Len(NmSyms(lines)) /\ status' = "ok"
  /\ UNCHANGED images

\* The lookups: each sorts the table first (ensure_sorted).
\* find_sym_by_addr, find_exact_sym_by_addr and desc_sym_by_addr.
FindSym(a) ==
  LET S == EnsureSorted(ST)
  IN  /\ Call(<<"find_sym_by_addr", a>>)
      /\ SetST(S)
      /\ res' = FindSymByAddr(S, a) /\ status' = "ok"
      /\ UNCHANGED <<images, added>>

FindExactSym(a) ==
  LET S == EnsureSorted(ST)
      st == FindSymByAddr(S, a)
  IN  /\ Call(<<"find_exact_sym_by_addr", a>>)
      /\ SetST(S)
      /\ res' = IF st = None \/ st[1] # a THEN None ELSE st[2]
      /\ status' = "ok"
      /\ UNCHANGED <<images, added>>

\* "name", "name+offset" or the address in hex; asserts the offset > 0.
DescSym(a) ==
  LET S == EnsureSorted(ST)
      st == FindSymByAddr(S, a)
  IN  /\ Call(<<"desc_sym_by_addr", a>>)
      /\ SetST(S)
      /\ res' = CASE st = None -> <<"hex", a>>
                  [] st[1] = a -> <<"name", st[2]>>
                  [] OTHER     -> <<"offset", st[2], a - st[1]>>
      /\ status' = IF st # None /\ st[1] # a /\ a - st[1] <= 0 THEN "AssertionError" ELSE "ok"
      /\ UNCHANGED <<images, added>>

FindSymName(n) ==
  /\ Call(<<"find_sym_by_name", n>>)
  /\ res' = FindSymByName(ST, n) /\ status' = "ok"
  /\ UNCHANGED <<images, syms, symAddr, symNames, added>>

\* read(addr, size): the slice of the first image containing the range,
\* loading a deferred image; read16/read32 then struct.unpack it, which
\* raises on a slice of the wrong length.
ReadAt(a, n, unpack) ==
  LET i  == FindImage(a, n)
      im == images[i]
      s  == Slice(im.data, a - im.base, a - im.base + n)
  IN  /\ Call(<<IF unpack THEN "read_word" ELSE "read", a, n>>)
      /\ UNCHANGED <<syms, symAddr, symNames, added>>
      /\ IF i = 0
           THEN res' = None /\ status' = "ok" /\ UNCHANGED images
           ELSE /\ images' = [images EXCEPT ![i] = Loaded(@)]
                /\ IF ~unpack THEN res' = s /\ status' = "ok"
                   ELSE IF Len(s) # n THEN res' = None /\ status' = "struct.error"
                   ELSE /\ res' = FoldRight(LAMBDA b, v : b + 256 * v, s, 0)
                        /\ status' = "ok"

\* write(addr, s): asserts an image contains the range, then assigns the
\* slice of its data(), which only a bytearray allows.
Write(a, s) ==
  LET n  == Len(s)
      i  == FindImage(a, n)
      im == images[i]
      o  == a - im.base
  IN  /\ Call(<<"write", a, s>>)
      /\ res' = None
      /\ UNCHANGED <<syms, symAddr, symNames, added>>
      /\ IF i = 0
           THEN status' = "AssertionError" /\ UNCHANGED images
           ELSE /\ images' = [images EXCEPT ![i] =
                     IF im.mutable
                       THEN [Loaded(im) EXCEPT !.data = SubSeq(@, 1, o) \o s \o SubSeq(@, o + n + 1, Len(@))]
                       ELSE Loaded(im)]
                /\ status' = IF im.mutable THEN "ok" ELSE "TypeError"

Next ==
  \/ \E f \in BinFiles, a \in Addrs, o \in Offsets, z \in Sizes : AddBin(f, a, o, z)
  \/ \E e \in Elves, l \in Loads, k \in BOOLEAN : AddElf(e, l, k)
  \/ \E l \in NmLists : AddNmSyms(l)
  \/ \E a \in Addrs : FindSym(a) \/ FindExactSym(a) \/ DescSym(a)
  \/ \E n \in Names : FindSymName(n)
  \/ \E a \in Addrs, n \in 1..2 : ReadAt(a, n, FALSE)
  \/ \E a \in Addrs, n \in WordSizes : ReadAt(a, n, TRUE)
  \/ \E a \in Addrs, s \in WriteData : Write(a, s)

Spec == Init /\ [][Next]_vars

-----------------------------------------------------------------------------
(* Properties                                                              *)

TypeOK ==
  /\ images \in Seq(Image)
  /\ syms \in Seq(Nat \X Names) /\ added \in Seq(Nat \X Names)
  /\ symAddr = None \/ symAddr \in Seq(Nat)
  /\ DOMAIN symNames \subseteq Names
  /\ status \in {"ok", "NameError", "AssertionError", "TypeError", "struct.error"}
  /\ ops \in 0..MaxOps

\* The symbol a lookup of address a should find: among all symbols added so
\* far, those at the highest address not above a, and of those the latest.
NearestSym(a) ==
  LET below == {i \in DOMAIN added : added[i][1] <= a}
      top   == {i \in below : \A j \in below : added[j][1] <= added[i][1]}
  IN  IF below = {} THEN None ELSE added[Max(top)]

(***************************************************************************)
(* Symtab.find_sym_by_addr (and find_exact_sym_by_addr, desc_sym_by_addr   *)
(* built on it) answers from the whole table as it stands: whatever        *)
(* sequence of adds, sorts and lookups came before, the sorted-address     *)
(* cache sym_addr never makes a lookup miss a symbol added since, and      *)
(* bisect_right after the stable sort picks the latest of several symbols  *)
(* at one address.                                                         *)
(***************************************************************************)
SymLookupCurrent ==
  LET a == call[2]
      n == NearestSym(a)
  IN  /\ call[1] = "find_sym_by_addr" => res = n
      /\ call[1] = "find_exact_sym_by_addr" => res = IF n # None /\ n[1] = a THEN n[2] ELSE None
      /\ call[1] = "desc_sym_by_addr" /\ n # None =>
           res = IF n[1] = a THEN <<"name", n[2]>> ELSE <<"offset", n[2], a - n[1]>>

=============================================================================
