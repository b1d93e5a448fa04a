---------------------------- MODULE BuildIdCache ----------------------------
(***************************************************************************)
(* BuildIDCache (perf_buildid.py): the build-id cache in ~/.debug, as the  *)
(* command line of the module and the readers see it.  A cached copy of a *)
(* file f with build id id is the directory <dir>/f/id holding "elf"; the  *)
(* index is a symbolic link .build-id/<id> -> ../../f/id.  contains_id and *)
(* id_cache_contents follow the link, so an id is cached when its link     *)
(* exists and the directory it names exists.                               *)
(*                                                                         *)
(* A call runs to its end or raises; the cache on disk keeps what the call *)
(* did up to the exception, and later calls go on from there.  The files   *)
(* on disk may be rebuilt between calls, changing their build ids.  The    *)
(* layout of the link names (two hex digits, then the rest) is abstracted  *)
(* to the id: a link directory .build-id/xx exists whenever .build-id does *)
(* and is needed.                                                          *)
(***************************************************************************)
EXTENDS Naturals, FiniteSets

CONSTANTS
  Files,     \* absolute paths of ELF files that may be cached
  Ids,       \* build ids
  MaxOps,    \* calls and rebuilds in one behaviour
  None       \* no link; a lookup that found nothing

Errors == {"AssertionError", "FileNotFoundError", "FileExistsError", "TypeError"}

VARIABLES
  root,      \* the cache directory self.dir exists
  idx,       \* its index directory self.idx (.build-id) exists
  names,     \* the per-file directories <dir>/f
  dirs,      \* the copies: pairs <<f, id>> whose directory <dir>/f/id exists
  links,     \* links[id]: the file whose copy .build-id/<id> points to, or None
  disk,      \* disk[f]: the build id of f as it is now on disk (file_buildid)
  status,    \* how the last call ended: "ok" or the exception it raised
  call,      \* the last call, its file and what it returned (history)
  ops        \* calls and rebuilds so far

vars == <<root, idx, names, dirs, links, disk, status, call, ops>>

-----------------------------------------------------------------------------
(* The read path                                                           *)

\* contains_id / id_cache_contents: the link exists and resolves.  The copy
\* it names, or None.
Lookup(id) ==
  IF links[id] # None /\ <<links[id], id>> \in dirs THEN <<links[id], id>> ELSE None

ContainsId(id) == Lookup(id) # None

\* list(): the (id, file) pairs read back from the links.
Listed == {<<id, links[id]>> : id \in {i \in Ids : links[i] # None}}

-----------------------------------------------------------------------------
(* The calls                                                               *)

Init ==
  /\ root \in BOOLEAN
  /\ idx = root                  \* a cache created by perf or by create(), or none
  /\ names = {} /\ dirs = {}
  /\ links = [id \in Ids |-> None]
  /\ disk \in [Files -> Ids]
  /\ status = "ok"
  /\ call = [op |-> "none", f |-> None, ret |-> None]
  /\ ops = 0

Step(op, f, ret, st) ==
  /\ ops' = ops + 1
  /\ call' = [op |-> op, f |-> f, ret |-> ret]
  /\ status' = st

\* create(): makes the directory and its index unless the index exists;
\* os.mkdir(self.dir) raises when only the directory exists.
Create ==
  /\ ops < MaxOps
  /\ IF idx
       THEN /\ Step("create", None, None, "ok")
            /\ UNCHANGED <<root, idx>>
       ELSE IF root
       THEN /\ Step("create", None, None, "FileExistsError")
            /\ UNCHANGED <<root, idx>>
       ELSE /\ Step("create", None, None, "ok")
            /\ root' = TRUE /\ idx' = TRUE
  /\ UNCHANGED <<names, dirs, links, disk>>

\* Mutant: an existing link is kept rather than replaced.
AddLinkKeep(l, id, f) == IF l[id] # None THEN l ELSE [l EXCEPT ![id] = f]

\* The link made by add_file: an existing link that resolves is removed
\* first and the new one points to f.
AddLink(l, id, f) == [l EXCEPT ![id] = f]

(***************************************************************************)
(* add_file(f, force): returns False when the id is cached and force is    *)
(* not given.  Otherwise it makes <dir>/f/id (os.makedirs creates the      *)
(* cache directory too) and copies f to elf there; then it makes the link. *)
(* Without the index directory the mkdir of .build-id/xx raises            *)
(* FileNotFoundError; a link that exists but does not resolve is not       *)
(* removed and os.symlink raises FileExistsError.  The copy stays.         *)
(***************************************************************************)
AddFile(f, force) ==
  LET id == disk[f]
  IN  /\ ops < MaxOps
      /\ IF ContainsId(id) /\ ~force
           THEN /\ Step("add", f, FALSE, "ok")
                /\ UNCHANGED <<root, names, dirs, links>>
           ELSE /\ root' = TRUE
                /\ names' = names \cup {f}
                /\ dirs' = dirs \cup {<<f, id>>}
                /\ CASE ~idx ->
                          /\ Step("add", f, None, "FileNotFoundError")
                          /\ UNCHANGED links
                     [] links[id] # None /\ <<links[id], id>> \notin dirs' ->
                          /\ Step("add", f, None, "FileExistsError")
                          /\ UNCHANGED links
                     [] OTHER ->
                          /\ Step("add", f, TRUE, "ok")
                          /\ links' = AddLink(links, id, f)
      /\ UNCHANGED <<idx, disk>>

\* Mutant: the copy is removed before the link, so the link no longer
\* resolves when it is tested and is left behind.
RemoveLinkAfterCopy(l, d, id, f) ==
  LET d1 == d \ {<<f, id>>}
  IN  IF l[id] # None /\ <<l[id], id>> \in d1 THEN [l EXCEPT ![id] = None] ELSE l

\* remove_file's link step: the link is removed when it resolves (whichever
\* file's copy it names).
RemoveLink(l, d, id, f) ==
  IF l[id] # None /\ <<l[id], id>> \in d THEN [l EXCEPT ![id] = None] ELSE l

(***************************************************************************)
(* remove_file(f, force): the cached entry for f's current build id.       *)
(* Returns False when the id is not cached and force is not given;         *)
(* otherwise removes the link and the directory <dir>/f/id.  The bare      *)
(* <dir>/f stays.                                                          *)
(***************************************************************************)
RemoveFile(f, force) ==
  LET id == disk[f]
  IN  /\ ops < MaxOps
      /\ IF ~ContainsId(id) /\ ~force
           THEN /\ Step("remove", f, FALSE, "ok")
                /\ UNCHANGED <<dirs, links>>
           ELSE /\ Step("remove", f, TRUE, "ok")
                /\ links' = RemoveLink(links, dirs, id, f)
                /\ dirs' = dirs \ {<<f, id>>}
      /\ UNCHANGED <<root, idx, names, disk>>

(***************************************************************************)
(* purge_file(f): 0 when <dir>/f does not exist.  Otherwise, for each id   *)
(* directory under it in os.listdir order, asserts the link .build-id/<id> *)
(* is a symbolic link and removes it; then removes <dir>/f.  An id with no *)
(* link raises AssertionError after the links of the ids listed before it  *)
(* were removed, and nothing is removed from <dir>/f.                      *)
(***************************************************************************)
PurgeFile(f) ==
  LET ids    == {id \in Ids : <<f, id>> \in dirs}
      linked == {id \in ids : links[id] # None}
  IN  /\ ops < MaxOps
      /\ CASE f \notin names ->
                /\ Step("purge", f, 0, "ok")
                /\ UNCHANGED <<names, dirs, links>>
           [] linked = ids ->
                /\ Step("purge", f, Cardinality(ids), "ok")
                /\ links' = [id \in Ids |-> IF id \in ids THEN None ELSE links[id]]
                /\ dirs' = {p \in dirs : p[1] # f}
                /\ names' = names \ {f}
           [] OTHER ->
                \E before \in SUBSET linked :
                  /\ Step("purge", f, None, "AssertionError")
                  /\ links' = [id \in Ids |-> IF id \in before THEN None ELSE links[id]]
                  /\ UNCHANGED <<names, dirs>>
      /\ UNCHANGED <<root, idx, disk>>

\* clear(): shutil.rmtree(self.dir), which raises when it does not exist.
Clear ==
  /\ ops < MaxOps
  /\ IF root
       THEN /\ Step("clear", None, None, "ok")
            /\ root' = FALSE /\ idx' = FALSE /\ names' = {} /\ dirs' = {}
            /\ links' = [id \in Ids |-> None]
       ELSE /\ Step("clear", None, None, "FileNotFoundError")
            /\ UNCHANGED <<root, idx, names, dirs, links>>
  /\ UNCHANGED disk

\* The command line's --update calls add_file(opts.add), and opts.add is
\* None on that branch: os.path.isfile(None) raises TypeError.
CliUpdate ==
  /\ ops < MaxOps
  /\ Step("update", None, None, "TypeError")
  /\ UNCHANGED <<root, idx, names, dirs, links, disk>>

\* BuildID.is_valid of a listed entry: the file it names now has that id.
IsValid(e) == disk[e[2]] = e[1]

\* The command line's --list / --list-all (on BuildIDCacheRO): list() reads
\* nothing when .build-id does not exist; the entries are printed, the
\* invalid ones only with --list-all.
CliList(all) ==
  /\ ops < MaxOps
  /\ LET es == IF idx THEN Listed ELSE {}
     IN  Step(IF all THEN "list-all" ELSE "list", None,
              IF all THEN es ELSE {e \in es : IsValid(e)}, "ok")
  /\ UNCHANGED <<root, idx, names, dirs, links, disk>>

\* A file is rebuilt on disk between two calls: its build id changes.
Rebuild(f) ==
  /\ ops < MaxOps
  /\ \E id \in Ids \ {disk[f]} : disk' = [disk EXCEPT ![f] = id]
  /\ Step("rebuild", f, None, "ok")
  /\ UNCHANGED <<root, idx, names, dirs, links>>

Next ==
  \/ Create
  \/ Clear
  \/ CliUpdate
  \/ \E all \in BOOLEAN : CliList(all)
  \/ \E f \in Files :
       \/ \E force \in BOOLEAN : AddFile(f, force) \/ RemoveFile(f, force)
       \/ PurgeFile(f)
       \/ Rebuild(f)

Spec == Init /\ [][Next]_vars

-----------------------------------------------------------------------------
(* Properties                                                              *)

(***************************************************************************)
(* Every entry list() reads back from the index names a copy that exists:  *)
(* whatever add_file, remove_file, purge_file and clear did before, and    *)
(* however they failed, no link of .build-id is left pointing at nothing   *)
(* (such a link would make the next add_file of that id raise).            *)
(***************************************************************************)
LinksResolve == \A e \in Listed : <<e[2], e[1]>> \in dirs

(***************************************************************************)
(* A call that reports success has its effect on what readers find: after *)
(* add_file returns True the build id of f leads to f's new copy; after    *)
(* remove_file returns True that build id is not cached; after purge_file  *)
(* f has no copies and no build id leads to one.                           *)
(***************************************************************************)
CallsTakeEffect ==
  [][ /\ call'.op = "add" /\ call'.ret = TRUE =>
         (Lookup(disk[call.f]) = <<call.f, disk[call.f]>>)'
      /\ call'.op = "remove" /\ call'.ret = TRUE =>
         (Lookup(disk[call.f]) = None)'
      /\ call'.op = "purge" /\ status' = "ok" =>
         (\A id \in Ids : <<call.f, id>> \notin dirs /\ (Lookup(id) = None \/ Lookup(id)[1] # call.f))'
    ]_vars

=============================================================================
