------------------------------- MODULE DirMap -------------------------------
(***************************************************************************)
(* The directory side of hooksqfs: sqfs_opendir, enumerate_dir,            *)
(* sqfs_readdir and sqfs_closedir (sqfs_mgr.c, lines 904-955 and           *)
(* 1017-1219) called by several threads, and g_xSqfsMgr.dir_map, which     *)
(* says for which DIR pointers the image's entries follow the real ones.   *)
(*                                                                         *)
(* A DIR pointer is an address of the heap.  libc's closedir frees it with *)
(* no lock of ours held, and the next opendir of any thread may get it     *)
(* again.  Each critical section of these functions is one step; the       *)
(* reentrant mutex itself is modelled in FdMap.                            *)
(*                                                                         *)
(* The application uses a stream only between opendir's return and its own *)
(* closedir, and closes a stream no other call is using (POSIX).           *)
(***************************************************************************)
EXTENDS Naturals, Sequences

CONSTANTS
  Threads,     \* application threads
  Ptrs,        \* addresses a DIR object can have
  Names,       \* names of directory entries
  Dirs,        \* paths given to opendir
  Inside,      \* the paths sqfs_check_path_then_convert accepts
  RealDirs,    \* the paths that are directories of the real filesystem
  RealList,    \* the entries of each of them, as readdir lists them
  ImageKind,   \* what the image has at a path: "absent", "file" or "dir"
  ImageList,   \* the entries of each directory of the image
  MaxOpens,    \* bound: DIR objects made in a behaviour
  None

ASSUME DirMapAssumption ==
  /\ Inside \subseteq Dirs /\ RealDirs \subseteq Dirs
  /\ RealList \in [RealDirs -> Seq(Names)]
  /\ ImageKind \in [Dirs -> {"absent", "file", "dir"}]
  /\ ImageList \in [Dirs -> Seq(Names)]
  /\ MaxOpens \in Nat
  /\ None \notin Ptrs \cup Names \cup Dirs

VARIABLES
  pc,          \* where each thread is: "app" outside any hooked call
  call,        \* the call each thread is making; ptr is underlying_dir
  saved_errno, \* of a sqfs_opendir that has failed and not yet returned
  dir_map,     \* g_xSqfsMgr.dir_map: a set of entries
  heap,        \* the DIR objects
  opens,       \* number of DIR objects made so far, source of gen
  held,        \* streams the application has and has not closed
  got,         \* the names readdir has returned for each stream in held
  eof          \* the streams in held for which readdir has returned NULL

vars == <<pc, call, saved_errno, dir_map, heap, opens, held, got, eof>>

(* gen identifies one life of an address, from opendir to closedir; no     *)
(* code compares it.                                                       *)
Gens   == 0 .. MaxOpens
Entry  == [key : Ptrs, gen : Gens, is_real_dir : BOOLEAN, list : Seq(Names),
           current : Nat, reached_end : BOOLEAN]
Free   == [dir |-> None, gen |-> 0, pos |-> 0]
DIR    == [dir : Dirs \cup {None}, gen : Gens, pos : Nat]
Stream == [ptr : Ptrs, gen : Gens, dir : Dirs]
Call   == [op : {"none", "opendir", "readdir", "closedir"},
           ptr : Ptrs \cup {None}, gen : Gens, dir : Dirs \cup {None}]
NoCall == [op |-> "none", ptr |-> None, gen |-> 0, dir |-> None]
PCs    == {"app", "open_real", "open_image", "open_undo", "find", "real"}

Init ==
  /\ pc = [t \in Threads |-> "app"]
  /\ call = [t \in Threads |-> NoCall]
  /\ saved_errno = [t \in Threads |-> "OK"]
  /\ dir_map = {}
  /\ heap = [p \in Ptrs |-> Free]
  /\ opens = 0
  /\ held = {}
  /\ got = [g \in Gens |-> <<>>]
  /\ eof = {}

-----------------------------------------------------------------------------
Goto(t, label) == pc' = [pc EXCEPT ![t] = label]

Return(t) ==
  /\ Goto(t, "app")
  /\ call' = [call EXCEPT ![t] = NoCall]
  /\ saved_errno' = [saved_errno EXCEPT ![t] = "OK"]

(* HASH_FIND_PTR(g_xSqfsMgr.dir_map, &dirp, found).                        *)
HASH_FIND_PTR(ptr) == {e \in dir_map : e.key = ptr}

(* libc's opendir: a DIR object at a free address.  The object made by     *)
(* create_backing_dir is on an empty directory nobody reads; dir = None.   *)
NewDIR(p, dir) ==
  /\ opens < MaxOpens
  /\ heap[p] = Free
  /\ heap' = [heap EXCEPT ![p] = [dir |-> dir, gen |-> opens + 1, pos |-> 0]]
  /\ opens' = opens + 1

Hand(t, p, gen) == held' = held \cup {[ptr |-> p, gen |-> gen, dir |-> call[t].dir]}

-----------------------------------------------------------------------------
(* The application enters a hooked call.                                   *)

call_opendir(t, d) ==
  /\ pc[t] = "app"
  /\ call' = [call EXCEPT ![t] = [op |-> "opendir", ptr |-> None, gen |-> 0, dir |-> d]]
  /\ Goto(t, "open_real")
  /\ UNCHANGED <<saved_errno, dir_map, heap, opens, held, got, eof>>

Use(t, op, h) ==
  /\ pc[t] = "app"
  /\ call' = [call EXCEPT ![t] = [op |-> op, ptr |-> h.ptr, gen |-> h.gen, dir |-> h.dir]]
  /\ Goto(t, "find")
  /\ UNCHANGED <<saved_errno, dir_map, heap, opens>>

call_readdir(t, h) == Use(t, "readdir", h) /\ UNCHANGED <<held, got, eof>>

call_closedir(t, h) ==
  /\ \A u \in Threads : call[u].gen # h.gen
  /\ Use(t, "closedir", h)
  /\ held' = held \ {h}
  /\ got' = [got EXCEPT ![h.gen] = <<>>]
  /\ eof' = eof \ {h.gen}

-----------------------------------------------------------------------------
(* sqfs_opendir.                                                           *)

(* g_xLibcFuncs.opendir(name) succeeds.                                    *)
opendir_real(t, p) ==
  /\ pc[t] = "open_real"
  /\ call[t].dir \in RealDirs
  /\ NewDIR(p, call[t].dir)
  /\ call' = [call EXCEPT ![t] = [op |-> "opendir", ptr |-> p, gen |-> opens + 1,
                                  dir |-> call[t].dir]]
  /\ Goto(t, "open_image")
  /\ UNCHANGED <<saved_errno, dir_map, held, got, eof>>

(* It fails: no such directory, or EACCES, EMFILE, ENOMEM.                 *)
opendir_real_fails(t) ==
  /\ pc[t] = "open_real"
  /\ Goto(t, "open_image")
  /\ UNCHANGED <<call, saved_errno, dir_map, heap, opens, held, got, eof>>

(* The path is outside the prefix, no image is loaded, or sqfs_find_inode  *)
(* fails, for whatever reason: the real directory alone.                   *)
opendir_upper_only(t) ==
  /\ pc[t] = "open_image"
  /\ call[t].ptr # None
  /\ Hand(t, call[t].ptr, call[t].gen)
  /\ Return(t)
  /\ UNCHANGED <<dir_map, heap, opens, got, eof>>

(* Neither layer has the path.                                             *)
opendir_nowhere(t) ==
  /\ pc[t] = "open_image"
  /\ call[t].dir \notin Inside \/ ImageKind[call[t].dir] = "absent"
  /\ call[t].ptr = None
  /\ Return(t)
  /\ UNCHANGED <<dir_map, heap, opens, held, got, eof>>

(* Mutant: result is NULL and underlying_dir is forgotten.                 *)
opendir_gives_up_leaks(t, e) ==
  /\ Return(t)
  /\ UNCHANGED <<dir_map, heap, opens, held, got, eof>>

(* out: a real directory that was opened is closed after the unlock.       *)
opendir_gives_up(t, e) ==
  /\ IF call[t].ptr = None
     THEN Return(t)
     ELSE /\ Goto(t, "open_undo")
          /\ saved_errno' = [saved_errno EXCEPT ![t] = e]
          /\ UNCHANGED call
  /\ UNCHANGED <<dir_map, heap, opens, held, got, eof>>

(* The inode is not a directory.                                           *)
opendir_not_dir(t) ==
  /\ pc[t] = "open_image"
  /\ call[t].dir \in Inside /\ ImageKind[call[t].dir] = "file"
  /\ opendir_gives_up(t, "ENOTDIR")

(* sqfs_dir_reader_create, sqfs_find_inode, sqfs_dir_reader_open_dir,      *)
(* create_backing_dir fails, or malloc when the directory is a real one.   *)
opendir_error(t) ==
  /\ pc[t] = "open_image"
  /\ call[t].dir \in Inside
  /\ opendir_gives_up(t, "ENOMEM")

(* create_backing_dir has made a DIR object, then malloc of the            *)
(* DirMapEntry fails: the object is closed after the unlock like a real    *)
(* directory.                                                              *)
opendir_malloc_fails(t, p) ==
  /\ pc[t] = "open_image"
  /\ call[t].dir \in Inside /\ ImageKind[call[t].dir] = "dir"
  /\ call[t].ptr = None
  /\ NewDIR(p, None)
  /\ call' = [call EXCEPT ![t] = [op |-> "opendir", ptr |-> p, gen |-> opens + 1,
                                  dir |-> call[t].dir]]
  /\ saved_errno' = [saved_errno EXCEPT ![t] = "ENOMEM"]
  /\ Goto(t, "open_undo")
  /\ UNCHANGED <<dir_map, held, got, eof>>

opendir_undo(t) ==
  /\ pc[t] = "open_undo"
  /\ heap' = [heap EXCEPT ![call[t].ptr] = Free]
  /\ Return(t)
  /\ UNCHANGED <<dir_map, opens, held, got, eof>>

(* enumerate_dir: the whole listing, or after any error none of it.        *)
enumerate_dir(dir) == {ImageList[dir], <<>>}

(* HASH_ADD_PTR and enumerate_dir.                                         *)
AddEntry(t, p, gen, is_real_dir) ==
  \E list \in enumerate_dir(call[t].dir) :
    dir_map' = dir_map \cup
      {[key |-> p, gen |-> gen, is_real_dir |-> is_real_dir, list |-> list,
        current |-> 0, reached_end |-> FALSE]}

(* A directory of both layers.                                             *)
opendir_merge(t) ==
  /\ pc[t] = "open_image"
  /\ call[t].dir \in Inside /\ ImageKind[call[t].dir] = "dir"
  /\ call[t].ptr # None
  /\ AddEntry(t, call[t].ptr, call[t].gen, TRUE)
  /\ Hand(t, call[t].ptr, call[t].gen)
  /\ Return(t)
  /\ UNCHANGED <<heap, opens, got, eof>>

(* A directory of the image only: create_backing_dir makes the DIR object. *)
opendir_lower_only(t, p) ==
  /\ pc[t] = "open_image"
  /\ call[t].dir \in Inside /\ ImageKind[call[t].dir] = "dir"
  /\ call[t].ptr = None
  /\ NewDIR(p, None)
  /\ AddEntry(t, p, opens + 1, FALSE)
  /\ Hand(t, p, opens + 1)
  /\ Return(t)
  /\ UNCHANGED <<got, eof>>

-----------------------------------------------------------------------------
(* sqfs_readdir.                                                           *)

RealNames(d) == IF d.dir = None THEN <<>> ELSE RealList[d.dir]

(* The result goes to the application: a name, or NULL.                    *)
Gives(t, name) == got' = [got EXCEPT ![call[t].gen] = Append(@, name)] /\ UNCHANGED eof
GivesNull(t)   == eof' = eof \cup {call[t].gen} /\ UNCHANGED got

(* libc's readdir on the object at p, when it has more entries.            *)
RealMore(p) == heap[p].pos < Len(RealNames(heap[p]))
RealNext(t, p) ==
  /\ RealMore(p)
  /\ Gives(t, RealNames(heap[p])[heap[p].pos + 1])
  /\ heap' = [heap EXCEPT ![p] = [dir |-> @.dir, gen |-> @.gen, pos |-> @.pos + 1]]

(* Not in dir_map: unlock, then libc.  sqfs_closedir begins the same way.  *)
find_miss(t) ==
  /\ pc[t] = "find"
  /\ HASH_FIND_PTR(call[t].ptr) = {}
  /\ Goto(t, "real")
  /\ UNCHANGED <<call, saved_errno, dir_map, heap, opens, held, got, eof>>

real_readdir(t) ==
  /\ pc[t] = "real" /\ call[t].op = "readdir"
  /\ \/ RealNext(t, call[t].ptr)
     \/ ~RealMore(call[t].ptr) /\ GivesNull(t) /\ UNCHANGED heap
  /\ Return(t)
  /\ UNCHANGED <<dir_map, opens, held>>

InMap(t, op, e) == pc[t] = "find" /\ call[t].op = op /\ e \in HASH_FIND_PTR(call[t].ptr)

(* found->is_real_dir and the real directory has another entry.            *)
readdir_upper(t, e) ==
  /\ InMap(t, "readdir", e)
  /\ e.is_real_dir
  /\ RealNext(t, e.key)
  /\ Return(t)
  /\ UNCHANGED <<dir_map, opens, held>>

(* dir_entry_current, NULL (0) standing for the head of the list, and its  *)
(* successor, NULL after the last node.                                    *)
Node(e) == IF e.current = 0 THEN 1 ELSE e.current

(* Mutant: a list pointer that runs past the last node.                    *)
Successor_past_end(e) == Node(e) + 1

Successor(e) == IF Node(e) = Len(e.list) THEN 0 ELSE Node(e) + 1

AtNode(e, current, reached_end) ==
  [key |-> e.key, gen |-> e.gen, is_real_dir |-> e.is_real_dir, list |-> e.list,
   current |-> current, reached_end |-> reached_end]

(* Mutant: dir_entry_list_reached_end does not exist.                      *)
readdir_lower_no_latch(t, e) ==
  /\ InMap(t, "readdir", e)
  /\ ~(e.is_real_dir /\ RealMore(e.key))
  /\ e.list # <<>>
  /\ Gives(t, e.list[Node(e)])
  /\ dir_map' = (dir_map \ {e}) \cup {AtNode(e, Successor(e), FALSE)}
  /\ Return(t)
  /\ UNCHANGED <<heap, opens, held>>

(* The next entry of the image.                                            *)
readdir_lower(t, e) ==
  /\ InMap(t, "readdir", e)
  /\ ~(e.is_real_dir /\ RealMore(e.key))
  /\ ~e.reached_end /\ e.list # <<>>
  /\ Gives(t, e.list[Node(e)])
  /\ dir_map' = (dir_map \ {e}) \cup {AtNode(e, Successor(e), Successor(e) = 0)}
  /\ Return(t)
  /\ UNCHANGED <<heap, opens, held>>

readdir_end(t, e) ==
  /\ InMap(t, "readdir", e)
  /\ ~(e.is_real_dir /\ RealMore(e.key))
  /\ e.reached_end \/ e.list = <<>>
  /\ GivesNull(t)
  /\ Return(t)
  /\ UNCHANGED <<dir_map, heap, opens, held>>

-----------------------------------------------------------------------------
(* sqfs_closedir: HASH_DEL under the mutex, libc's closedir after it.      *)

(* Mutant: HASH_DEL is missing.                                            *)
closedir_keeps_entry(t, e) ==
  /\ InMap(t, "closedir", e)
  /\ Goto(t, "real")
  /\ UNCHANGED <<call, saved_errno, dir_map, heap, opens, held, got, eof>>

closedir_hit(t, e) ==
  /\ InMap(t, "closedir", e)
  /\ dir_map' = dir_map \ {e}
  /\ Goto(t, "real")
  /\ UNCHANGED <<call, saved_errno, heap, opens, held, got, eof>>

real_closedir(t) ==
  /\ pc[t] = "real" /\ call[t].op = "closedir"
  /\ heap' = [heap EXCEPT ![call[t].ptr] = Free]
  /\ Return(t)
  /\ UNCHANGED <<dir_map, opens, held, got, eof>>

-----------------------------------------------------------------------------
Calls(t) ==
  \/ \E d \in Dirs : call_opendir(t, d)
  \/ \E h \in held : call_readdir(t, h) \/ call_closedir(t, h)

Step(t) ==
  \/ \E p \in Ptrs : opendir_real(t, p) \/ opendir_lower_only(t, p) \/ opendir_malloc_fails(t, p)
  \/ opendir_real_fails(t)
  \/ opendir_upper_only(t) \/ opendir_nowhere(t) \/ opendir_merge(t)
  \/ opendir_not_dir(t) \/ opendir_error(t) \/ opendir_undo(t)
  \/ find_miss(t) \/ real_readdir(t) \/ real_closedir(t)
  \/ \E e \in dir_map : \/ readdir_upper(t, e) \/ readdir_lower(t, e)
                        \/ readdir_end(t, e) \/ closedir_hit(t, e)

Next == \E t \in Threads : Calls(t) \/ Step(t)

Spec == Init /\ [][Next]_vars

-----------------------------------------------------------------------------
(* Type invariant.                                                         *)
TypeOK ==
  /\ pc \in [Threads -> PCs]
  /\ call \in [Threads -> Call]
  /\ dir_map \subseteq Entry
  /\ \A e \in dir_map : e.current <= Len(e.list)
  /\ heap \in [Ptrs -> DIR]
  /\ opens \in Gens
  /\ held \subseteq Stream
  /\ got \in [Gens -> Seq(Names)]
  /\ eof \subseteq Gens

(* dir_map never outlives a DIR object: an address listed in it is the     *)
(* stream it was listed for, though closedir frees the address outside the *)
(* mutex and another thread's opendir may get it at once.                  *)
NoStaleDir == \A e \in dir_map : heap[e.key] # Free /\ heap[e.key].gen = e.gen

(* Every DIR object belongs to the application or to the one thread that   *)
(* is opening or closing it: no failure path of sqfs_opendir loses one.    *)
NoDirLeak ==
  \A p \in Ptrs : heap[p] # Free =>
    \/ \E h \in held : h.ptr = p /\ h.gen = heap[p].gen
    \/ \E t \in Threads : /\ call[t].ptr = p /\ call[t].gen = heap[p].gen
                          /\ \/ pc[t] \in {"open_image", "open_undo"}
                             \/ call[t].op = "closedir" /\ pc[t] \in {"find", "real"}

(* What a stream should list: the real entries, then the image's.          *)
Listing(h) ==
  LET tails == {e.list : e \in HASH_FIND_PTR(h.ptr)}
  IN RealNames(heap[h.ptr]) \o (IF tails = {} THEN <<>> ELSE CHOOSE l \in tails : TRUE)

(* Each entry of either layer is delivered exactly once and in order,      *)
(* whichever threads share the stream, and readdir's NULL comes after all  *)
(* of them and stays: a caller's loop neither misses an entry nor starts   *)
(* over (dir_entry_list_reached_end).                                      *)
MergedListing ==
  \A h \in held :
    /\ Len(got[h.gen]) <= Len(Listing(h))
    /\ got[h.gen] = SubSeq(Listing(h), 1, Len(got[h.gen]))
    /\ h.gen \in eof => got[h.gen] = Listing(h)

(* Agent.md, lines 18-19: if a file is in both layers the real one is      *)
(* used, and merging two directories obeys that rule, so no name is listed *)
(* twice.                                                                  *)
NoDuplicateNames ==
  \A h \in held : \A i, j \in 1 .. Len(got[h.gen]) :
    got[h.gen][i] = got[h.gen][j] => i = j
=============================================================================
