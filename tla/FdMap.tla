------------------------------- MODULE FdMap -------------------------------
(***************************************************************************)
(* The descriptor side of hooksqfs under concurrency: sqfs_open, sqfs_read,*)
(* sqfs_pread(64), sqfs_lseek(64), sqfs_close and sqfs_close_nocancel      *)
(* (sqfs_mgr.c, lines 510-902) called by several threads, the map          *)
(* g_xSqfsMgr.fd_map, the recursive mutex that guards it, and the kernel's *)
(* descriptor table, which no lock of ours guards.                         *)
(*                                                                         *)
(* A file of the image is handed to the application as the number of an    *)
(* empty memfd (its "backing" descriptor); fd_map says which numbers those *)
(* are.  Everything rests on fd_map and the kernel agreeing about them.    *)
(*                                                                         *)
(* The application is any program that uses a descriptor only between      *)
(* open's return and its own single close of it; other calls on the same   *)
(* descriptor may still be running when that close is issued.              *)
(***************************************************************************)
EXTENDS SeekOps

CONSTANTS
  Threads,     \* application threads
  Fds,         \* the process' descriptor numbers (RLIMIT_NOFILE of them)
  ImageFd,     \* the descriptor libsquashfs reads the image through
  Inodes,      \* inodes of the image
  RealFiles,   \* files of the real filesystem
  Size,        \* the size of each file
  Count,       \* the byte count of every read
  SeekArgs,    \* the arguments of lseek and pread calls
  MaxOpens,    \* bound: successful opens in a behaviour
  Backing,     \* kernel object: the empty file made by create_backing_fd
  Image,       \* kernel object: the squashfs image
  None

Files == Inodes \cup RealFiles

ASSUME FdMapAssumption ==
  /\ Fds \subseteq Nat /\ ImageFd \in Fds
  /\ Inodes \cap RealFiles = {}
  /\ {Backing, Image, None} \cap Files = {}
  /\ Backing # Image /\ None \notin {Backing, Image}
  /\ None \notin Threads
  /\ Size \in [Files -> 0 .. I64_MAX]
  /\ Count \in Nat
  /\ SeekArgs \subseteq [offset : Off64, whence : Whence, wide : BOOLEAN]
  /\ MaxOpens \in Nat

VARIABLES
  pc,          \* where each thread is: "app" outside any hooked call
  call,        \* the call each thread is making
  found,       \* the FDMapEntry pointer a thread holds, as the entry's gen
  off,         \* the offset argument of the libsquashfs read in progress
  ret,         \* what the last call of each thread returned
  owner,       \* g_xSqfsMgr.mutex: the owning thread, or None
  depth,       \* g_xSqfsMgr.mutex: the recursion count
  fd_map,      \* g_xSqfsMgr.fd_map: a set of entries
  kfd,         \* the kernel's descriptor table
  opens,       \* number of descriptors created so far, source of gen
  held         \* descriptors the application has and has not closed

mutex == <<owner, depth>>
vars  == <<pc, call, found, off, ret, owner, depth, fd_map, kfd, opens, held>>

(* gen identifies one life of a descriptor number, from its creation to    *)
(* its close.  It stands for the malloc'ed FDMapEntry in fd_map and for    *)
(* the open file description in kfd; no code compares it.                  *)
Gens    == 0 .. MaxOpens
Arg     == [offset : Off64, whence : Whence, wide : BOOLEAN]
NoArg   == [offset |-> 0, whence |-> "SEEK_SET", wide |-> TRUE]
Entry   == [key : Fds, inode : Inodes, offset : Nat, gen : Gens]
KDesc   == [obj : RealFiles \cup {Backing, Image}, gen : Gens, off : Nat]
Closed  == [obj |-> None, gen |-> 0, off |-> 0]
Handle  == [fd : Fds, gen : Gens, file : Files]
Ops     == {"none", "open", "read", "pread", "lseek", "close"}
Call    == [op : Ops, fd : Fds, gen : Gens, file : Files \cup {None}, arg : Arg]
NoCall  == [op |-> "none", fd |-> ImageFd, gen |-> 0, file |-> None, arg |-> NoArg]
Ret     == [src : Files \cup {Backing, Image, None}, off : Nat, n : Nat]
NoRet   == [src |-> None, off |-> 0, n |-> 0]
PCs     == {"app",
            "open_real", "open_lock", "open_find", "open_nest", "open_found",
            "open_add", "open_undo", "open_undone",
            "lock", "io", "io_nest", "io_done", "real"}

Init ==
  /\ pc = [t \in Threads |-> "app"]
  /\ call = [t \in Threads |-> NoCall]
  /\ found = [t \in Threads |-> 0]
  /\ off = [t \in Threads |-> 0]
  /\ ret = [t \in Threads |-> NoRet]
  /\ owner = None /\ depth = 0
  /\ fd_map = {}
  /\ kfd = [fd \in Fds |-> IF fd = ImageFd
                           THEN [obj |-> Image, gen |-> 0, off |-> 0]
                           ELSE Closed]
  /\ opens = 0
  /\ held = {}

-----------------------------------------------------------------------------
(* Mutex, map and kernel.                                                  *)

(* sqfs_lock: PTHREAD_MUTEX_RECURSIVE, so the owner may lock again.        *)
sqfs_lock(t) ==
  /\ owner \in {None, t}
  /\ owner' = t
  /\ depth' = depth + 1

(* Mutant: an unlock that ignores the recursion count.                     *)
sqfs_unlock_all(t) == depth' = 0 /\ owner' = None

sqfs_unlock(t) ==
  /\ depth' = depth - 1
  /\ owner' = IF depth = 1 THEN None ELSE t

(* Mutant: a section that forgets to take the mutex.                       *)
Unlocked == UNCHANGED mutex

(* A critical section that makes no call which could interleave with the   *)
(* kernel's table is one step: it needs the mutex and gives it back.       *)
Critical == owner = None /\ UNCHANGED mutex

(* HASH_FIND_INT(g_xSqfsMgr.fd_map, &fd, found): any entry with the key.   *)
HASH_FIND_INT(fd) == {e \in fd_map : e.key = fd}

(* An entry, or a kernel description, moved to position o.                 *)
EntryAt(e, o) == [key |-> e.key, inode |-> e.inode, offset |-> o, gen |-> e.gen]
DescAt(d, o)  == [obj |-> d.obj, gen |-> d.gen, off |-> o]

Goto(t, label) == pc' = [pc EXCEPT ![t] = label]

(* The call returns r and its local variables are gone.                    *)
Return(t, r) ==
  /\ Goto(t, "app")
  /\ ret' = [ret EXCEPT ![t] = r]
  /\ call' = [call EXCEPT ![t] = NoCall]
  /\ found' = [found EXCEPT ![t] = 0]
  /\ off' = [off EXCEPT ![t] = 0]

(* The kernel gives out the lowest free number.                            *)
IsOpen(fd)     == kfd[fd].obj # None
LowestFree(fd) == ~IsOpen(fd) /\ \A f \in Fds : f < fd => IsOpen(f)

(* The bytes a kernel object holds; a memfd nobody wrote to is empty.      *)
ObjSize(obj) == IF obj \in RealFiles THEN Size[obj] ELSE 0

-----------------------------------------------------------------------------
(* The application enters a hooked call.                                   *)

Invoke(t, op, h, arg) ==
  /\ pc[t] = "app"
  /\ call' = [call EXCEPT ![t] = [op |-> op, fd |-> h.fd, gen |-> h.gen,
                                  file |-> h.file, arg |-> arg]]
  /\ ret' = [ret EXCEPT ![t] = NoRet]
  /\ UNCHANGED <<found, off, owner, depth, fd_map, kfd, opens>>

call_open(t) ==
  /\ Invoke(t, "open", NoCall, NoArg)
  /\ Goto(t, "open_real")
  /\ UNCHANGED held

call_read(t, h)     == Invoke(t, "read", h, NoArg) /\ Goto(t, "lock") /\ UNCHANGED held
call_pread(t, h, a) == Invoke(t, "pread", h, a) /\ Goto(t, "lock") /\ UNCHANGED held
call_lseek(t, h, a) == Invoke(t, "lseek", h, a) /\ Goto(t, "lock") /\ UNCHANGED held
call_close(t, h)    == Invoke(t, "close", h, NoArg) /\ Goto(t, "lock")
                       /\ held' = held \ {h}

-----------------------------------------------------------------------------
(* sqfs_open.                                                              *)

(* The kernel makes a fresh descriptor fd for obj.                         *)
CreateFd(fd, obj) ==
  /\ opens < MaxOpens
  /\ LowestFree(fd)
  /\ kfd' = [kfd EXCEPT ![fd] = [obj |-> obj, gen |-> opens + 1, off |-> 0]]
  /\ opens' = opens + 1

(* g_xLibcFuncs.open succeeds: the real file wins and sqfs_open returns.   *)
sqfs_open_real(t, fd, r) ==
  /\ pc[t] = "open_real"
  /\ CreateFd(fd, r)
  /\ held' = held \cup {[fd |-> fd, gen |-> opens + 1, file |-> r]}
  /\ Return(t, [src |-> r, off |-> 0, n |-> 0])
  /\ UNCHANGED <<owner, depth, fd_map>>

(* The real open fails and sqfs_check_path_then_convert refuses the path.  *)
sqfs_open_refused(t) ==
  /\ pc[t] = "open_real"
  /\ Return(t, NoRet)
  /\ UNCHANGED <<owner, depth, fd_map, kfd, opens, held>>

(* The real open fails and the path lies under the prefix.                 *)
sqfs_open_convert(t) ==
  /\ pc[t] = "open_real"
  /\ Goto(t, "open_lock")
  /\ UNCHANGED <<call, found, off, ret, owner, depth, fd_map, kfd, opens, held>>

(* The lock, and sqfs_find_inode: libsquashfs reads metadata from the      *)
(* image, or serves it from its cache.                                     *)
sqfs_open_lock(t) ==
  /\ pc[t] = "open_lock"
  /\ sqfs_lock(t)
  /\ \E label \in {"open_find", "open_found"} : Goto(t, label)
  /\ UNCHANGED <<call, found, off, ret, fd_map, kfd, opens, held>>

(* sqfs_find_inode yields an inode and create_backing_fd a descriptor.     *)
create_backing_fd(t, fd, i) ==
  /\ pc[t] = "open_found"
  /\ CreateFd(fd, Backing)
  /\ call' = [call EXCEPT ![t] = [op |-> "open", fd |-> fd, gen |-> opens + 1,
                                  file |-> i, arg |-> NoArg]]
  /\ Goto(t, "open_add")
  /\ UNCHANGED <<found, off, ret, owner, depth, fd_map, held>>

(* HASH_ADD_INT, unlock, return fd.                                        *)
sqfs_open_add(t) ==
  LET c == call[t]
  IN /\ pc[t] = "open_add"
     /\ fd_map' = fd_map \cup {[key |-> c.fd, inode |-> c.file, offset |-> 0,
                                gen |-> c.gen]}
     /\ held' = held \cup {[fd |-> c.fd, gen |-> c.gen, file |-> c.file]}
     /\ sqfs_unlock(t)
     /\ Return(t, [src |-> c.file, off |-> 0, n |-> 0])
     /\ UNCHANGED <<kfd, opens>>

(* Mutant: goto error_and_free_inode, past the close.                      *)
sqfs_open_malloc_fails_leaks(t) ==
  /\ pc[t] = "open_add"
  /\ Goto(t, "open_undone")
  /\ UNCHANGED <<call, found, off, ret, owner, depth, fd_map, kfd, opens, held>>

(* malloc of the FDMapEntry fails: goto error_and_free_fd.                 *)
sqfs_open_malloc_fails(t) ==
  /\ pc[t] = "open_add"
  /\ Goto(t, "open_undo")
  /\ UNCHANGED <<call, found, off, ret, owner, depth, fd_map, kfd, opens, held>>

(* error_and_free_fd: g_xLibcFuncs.close(fd).                              *)
sqfs_open_undo(t) ==
  /\ pc[t] = "open_undo"
  /\ kfd' = [kfd EXCEPT ![call[t].fd] = Closed]
  /\ Goto(t, "open_undone")
  /\ UNCHANGED <<call, found, off, ret, owner, depth, fd_map, opens, held>>

(* The inode is not found, no backing descriptor can be made, or the       *)
(* failure above: unlock and return -1.                                    *)
sqfs_open_fails(t) ==
  /\ pc[t] \in {"open_found", "open_undone"}
  /\ sqfs_unlock(t)
  /\ Return(t, NoRet)
  /\ UNCHANGED <<fd_map, kfd, opens, held>>

-----------------------------------------------------------------------------
(* libsquashfs reads the image while the caller holds the mutex.  Its      *)
(* pread is hooked too: the same thread locks again, must not find the     *)
(* image's descriptor in fd_map, unlocks and goes on to the real pread.    *)
(* One such read per library call stands for any number of them.           *)

image_pread_lock(t) ==
  /\ pc[t] \in {"open_find", "io"}
  /\ sqfs_lock(t)
  /\ Goto(t, IF pc[t] = "io" THEN "io_nest" ELSE "open_nest")
  /\ UNCHANGED <<call, found, off, ret, fd_map, kfd, opens, held>>

(* Mutant: g_xLibcFuncs.pread is still the patched function, not funchook's *)
(* trampoline, so the hook calls itself.                                   *)
image_pread_reenters(t) ==
  /\ pc[t] \in {"open_nest", "io_nest"}
  /\ HASH_FIND_INT(ImageFd) = {}
  /\ sqfs_unlock(t)
  /\ Goto(t, IF pc[t] = "io_nest" THEN "io" ELSE "open_find")
  /\ UNCHANGED <<call, found, off, ret, fd_map, kfd, opens, held>>

image_pread_miss(t) ==
  /\ pc[t] \in {"open_nest", "io_nest"}
  /\ HASH_FIND_INT(ImageFd) = {}
  /\ sqfs_unlock(t)
  /\ Goto(t, IF pc[t] = "io_nest" THEN "io_done" ELSE "open_found")
  /\ UNCHANGED <<call, found, off, ret, fd_map, kfd, opens, held>>

-----------------------------------------------------------------------------
(* sqfs_read, sqfs_pread, sqfs_pread64.                                    *)

(* The descriptor is not in fd_map: unlock, go to the real function.  The  *)
(* same code opens sqfs_lseek, sqfs_lseek64 and sqfs_close_impl.           *)
find_miss(t) ==
  /\ pc[t] = "lock"
  /\ Critical
  /\ HASH_FIND_INT(call[t].fd) = {}
  /\ Goto(t, "real")
  /\ UNCHANGED <<call, found, off, ret, fd_map, kfd, opens, held>>

(* Mutant: no check of a negative pread offset.                            *)
read_hit_unchecked(t, e) ==
  /\ pc[t] = "lock"
  /\ call[t].op \in {"read", "pread"}
  /\ sqfs_lock(t)
  /\ e \in HASH_FIND_INT(call[t].fd)
  /\ found' = [found EXCEPT ![t] = e.gen]
  /\ off' = [off EXCEPT ![t] = IF call[t].op = "read" THEN e.offset
                               ELSE call[t].arg.offset]
  /\ \E label \in {"io", "io_done"} : Goto(t, label)
  /\ UNCHANGED <<call, ret, fd_map, kfd, opens, held>>

(* The descriptor is in fd_map: keep the mutex, call libsquashfs with the  *)
(* entry's offset (read) or the argument (pread); the data block comes     *)
(* from the image or from the library's cache.                             *)
read_hit(t, e) ==
  /\ pc[t] = "lock"
  /\ call[t].op \in {"read", "pread"}
  /\ call[t].op = "pread" => call[t].arg.offset >= 0
  /\ sqfs_lock(t)
  /\ e \in HASH_FIND_INT(call[t].fd)
  /\ found' = [found EXCEPT ![t] = e.gen]
  /\ off' = [off EXCEPT ![t] = IF call[t].op = "read" THEN e.offset
                               ELSE call[t].arg.offset]
  /\ \E label \in {"io", "io_done"} : Goto(t, label)
  /\ UNCHANGED <<call, ret, fd_map, kfd, opens, held>>

(* sqfs_pread_mapped refuses a negative offset.                            *)
pread_negative(t) ==
  /\ pc[t] = "lock"
  /\ call[t].op = "pread" /\ call[t].arg.offset < 0
  /\ Critical
  /\ HASH_FIND_INT(call[t].fd) # {}
  /\ Return(t, NoRet)
  /\ UNCHANGED <<fd_map, kfd, opens, held>>

(* Mutant: pread moves the position like read.                             *)
read_done_moves(t, e) ==
  LET n == sqfs_data_reader_read(Size[e.inode], off[t], Count)
  IN /\ pc[t] = "io_done"
     /\ e \in fd_map /\ e.gen = found[t]
     /\ fd_map' = (fd_map \ {e}) \cup {EntryAt(e, e.offset + n)}
     /\ sqfs_unlock(t)
     /\ Return(t, [src |-> e.inode, off |-> off[t], n |-> n])
     /\ UNCHANGED <<kfd, opens, held>>

(* libsquashfs has the data: found->offset += ret (read only), unlock.     *)
read_done(t, e) ==
  LET n == sqfs_data_reader_read(Size[e.inode], off[t], Count)
  IN /\ pc[t] = "io_done"
     /\ e \in fd_map /\ e.gen = found[t]
     /\ fd_map' = IF call[t].op = "read"
                  THEN (fd_map \ {e}) \cup {EntryAt(e, e.offset + n)}
                  ELSE fd_map
     /\ sqfs_unlock(t)
     /\ Return(t, [src |-> e.inode, off |-> off[t], n |-> n])
     /\ UNCHANGED <<kfd, opens, held>>

(* libsquashfs reports an error: errno, unlock, return -1.                 *)
read_fails(t) ==
  /\ pc[t] = "io_done"
  /\ sqfs_unlock(t)
  /\ Return(t, NoRet)
  /\ UNCHANGED <<fd_map, kfd, opens, held>>

-----------------------------------------------------------------------------
(* sqfs_lseek and sqfs_lseek64 (arg.wide) on an entry of fd_map.           *)

lseek_hit(t, e) ==
  LET a   == call[t].arg
      res == sqfs_lseek_mapped(Size[e.inode], e.offset, a.offset, a.whence,
                               MaxReturn(a.wide))
  IN /\ pc[t] = "lock"
     /\ call[t].op = "lseek"
     /\ Critical
     /\ e \in HASH_FIND_INT(call[t].fd)
     /\ \/ /\ res.err = "OK"
           /\ fd_map' = (fd_map \ {e}) \cup {EntryAt(e, res.out)}
           /\ Return(t, [src |-> e.inode, off |-> res.out, n |-> 0])
        \/ /\ res.err # "OK"
           /\ Return(t, NoRet)
           /\ UNCHANGED fd_map
     /\ UNCHANGED <<kfd, opens, held>>

-----------------------------------------------------------------------------
(* Mutant: HASH_DEL is missing.                                            *)
close_hit_keeps_entry(t, e) ==
  /\ pc[t] = "lock"
  /\ call[t].op = "close"
  /\ Critical
  /\ e \in HASH_FIND_INT(call[t].fd)
  /\ Goto(t, "real")
  /\ UNCHANGED <<call, found, off, ret, fd_map, kfd, opens, held>>

(* sqfs_close_impl on an entry of fd_map: the entry goes first, under the  *)
(* mutex; the number is given back to the kernel only afterwards.          *)
close_hit(t, e) ==
  /\ pc[t] = "lock"
  /\ call[t].op = "close"
  /\ Critical
  /\ e \in HASH_FIND_INT(call[t].fd)
  /\ fd_map' = fd_map \ {e}
  /\ Goto(t, "real")
  /\ UNCHANGED <<call, found, off, ret, kfd, opens, held>>

-----------------------------------------------------------------------------
(* The real libc functions, on whatever the number denotes by then.        *)

real_read(t) ==
  LET d == kfd[call[t].fd]
      o == IF call[t].op = "pread" THEN call[t].arg.offset ELSE d.off
      n == sqfs_data_reader_read(ObjSize(d.obj), o, Count)
  IN /\ pc[t] = "real"
     /\ call[t].op \in {"read", "pread"}
     /\ IF d.obj = None \/ o < 0
        THEN Return(t, NoRet) /\ UNCHANGED kfd
        ELSE /\ Return(t, [src |-> d.obj, off |-> o, n |-> n])
             /\ kfd' = IF call[t].op = "read"
                       THEN [kfd EXCEPT ![call[t].fd] = DescAt(d, d.off + n)] ELSE kfd
     /\ UNCHANGED <<owner, depth, fd_map, opens, held>>

real_lseek(t) ==
  LET d   == kfd[call[t].fd]
      a   == call[t].arg
      res == sqfs_lseek_mapped(ObjSize(d.obj), d.off, a.offset, a.whence,
                               MaxReturn(a.wide))
  IN /\ pc[t] = "real"
     /\ call[t].op = "lseek"
     /\ IF d.obj = None \/ res.err # "OK"
        THEN Return(t, NoRet) /\ UNCHANGED kfd
        ELSE /\ Return(t, [src |-> d.obj, off |-> res.out, n |-> 0])
             /\ kfd' = [kfd EXCEPT ![call[t].fd] = DescAt(d, res.out)]
     /\ UNCHANGED <<owner, depth, fd_map, opens, held>>

(* The real function reports an error, or there is none (pread64 or        *)
(* lseek64 was not found: ENOSYS).                                         *)
real_fails(t) ==
  /\ pc[t] = "real"
  /\ call[t].op \in {"read", "pread", "lseek"}
  /\ Return(t, NoRet)
  /\ UNCHANGED <<owner, depth, fd_map, kfd, opens, held>>

real_close(t) ==
  /\ pc[t] = "real"
  /\ call[t].op = "close"
  /\ kfd' = [kfd EXCEPT ![call[t].fd] = Closed]
  /\ Return(t, NoRet)
  /\ UNCHANGED <<owner, depth, fd_map, opens, held>>

-----------------------------------------------------------------------------
(* What the application may start, and what a thread inside a call does.   *)
Calls(t) ==
  \/ call_open(t)
  \/ \E h \in held : call_read(t, h) \/ call_close(t, h)
  \/ \E h \in held, a \in SeekArgs : call_pread(t, h, a) \/ call_lseek(t, h, a)

Step(t) ==
  \/ \E fd \in Fds, r \in RealFiles : sqfs_open_real(t, fd, r)
  \/ sqfs_open_refused(t) \/ sqfs_open_convert(t) \/ sqfs_open_lock(t)
  \/ \E fd \in Fds, i \in Inodes : create_backing_fd(t, fd, i)
  \/ sqfs_open_add(t) \/ sqfs_open_malloc_fails(t) \/ sqfs_open_undo(t)
  \/ sqfs_open_fails(t)
  \/ image_pread_lock(t) \/ image_pread_miss(t)
  \/ find_miss(t) \/ pread_negative(t) \/ read_fails(t)
  \/ \E e \in fd_map : \/ read_hit(t, e) \/ read_done(t, e)
                       \/ lseek_hit(t, e) \/ close_hit(t, e)
  \/ real_read(t) \/ real_lseek(t) \/ real_fails(t) \/ real_close(t)

Next == \E t \in Threads : Calls(t) \/ Step(t)

Spec == Init /\ [][Next]_vars

(* A thread inside a call is scheduled and its kernel calls return: they   *)
(* are on regular files.  Nothing is assumed about who gets the mutex.     *)
Fairness == \A t \in Threads : WF_vars(Step(t))
FairSpec == Spec /\ Fairness

-----------------------------------------------------------------------------
(* Closes that no hook sees.  Only close and __close_nocancel are hooked;  *)
(* __close_nocancel_nostatus, dup2, close_range and raw system calls free  *)
(* the number without sqfs_close_impl running.                             *)
close_unhooked(t, h) ==
  /\ pc[t] = "app"
  /\ held' = held \ {h}
  /\ kfd' = [kfd EXCEPT ![h.fd] = Closed]
  /\ UNCHANGED <<pc, call, found, off, ret, owner, depth, fd_map, opens>>

NextUnhooked == Next \/ \E t \in Threads, h \in held : close_unhooked(t, h)
SpecUnhooked == Init /\ [][NextUnhooked]_vars

-----------------------------------------------------------------------------
(* Type invariant.                                                         *)
TypeOK ==
  /\ pc \in [Threads -> PCs]
  /\ call \in [Threads -> Call]
  /\ found \in [Threads -> Gens]
  /\ off \in [Threads -> Nat]
  /\ ret \in [Threads -> Ret]
  /\ owner \in Threads \cup {None}
  /\ depth \in 0 .. 2
  /\ fd_map \subseteq Entry
  /\ kfd \in [Fds -> KDesc \cup {Closed}]
  /\ opens \in Gens
  /\ held \subseteq Handle

(* fd_map never outlives the descriptor: a number listed in fd_map denotes *)
(* the backing file it was listed for, in every interleaving of opens,     *)
(* closes and reuse of the number by the kernel (RE/why-hook-close-        *)
(* nocancel.md calls the opposite a stale entry).  It needs HASH_DEL to    *)
(* come before real_close in sqfs_close_impl.                              *)
NoStaleEntry ==
  \A e \in fd_map : kfd[e.key].obj = Backing /\ kfd[e.key].gen = e.gen

InLibraryRead(t) == pc[t] \in {"io", "io_nest", "io_done"}

(* The FDMapEntry and the inode a read is using are not freed under it by  *)
(* a concurrent close: sqfs_close_impl frees them under the mutex a reader *)
(* holds.                                                                  *)
NoUseAfterFree ==
  \A t \in Threads : InLibraryRead(t) =>
    \E e \in fd_map : e.gen = found[t] /\ e.key = call[t].fd

(* Every backing descriptor is either mapped or in the hands of the one    *)
(* thread that is opening or closing it: no failure path of sqfs_open and  *)
(* no close leaks it.                                                      *)
NoFdLeak ==
  \A fd \in Fds : kfd[fd].obj = Backing =>
    \/ \E e \in fd_map : e.key = fd
    \/ \E t \in Threads : /\ call[t].fd = fd /\ call[t].gen = kfd[fd].gen
                          /\ \/ pc[t] \in {"open_add", "open_undo"}
                             \/ pc[t] = "real" /\ call[t].op = "close"

(* A read, pread or lseek that returns while its descriptor is still open  *)
(* in the application has acted on the file that descriptor was opened on: *)
(* an image file is never served from its empty backing file, a real file  *)
(* never from the image.                                                   *)
ServedFromOpenedFile ==
  [][\A t \in Threads :
       /\ pc[t] # "app" /\ pc'[t] = "app"
       /\ call[t].op \in {"read", "pread", "lseek"}
       => \A h \in held : h.fd = call[t].fd /\ h.gen = call[t].gen
            => ret'[t].src \in {h.file, None}]_vars

(* libsquashfs' own reads of the image happen with the mutex held and are  *)
(* hooked: "same-thread reentry must pass through" (sqfs_mgr.c:84).  The   *)
(* thread that owns the mutex always gives it up, so it neither blocks on  *)
(* itself nor takes the image's descriptor for a mapped one.               *)
LockReleased ==
  \A t \in Threads : owner = t ~> owner # t

-----------------------------------------------------------------------------
(* The inductive invariant behind the safety properties.                   *)

MutexPCs == {"open_find", "open_nest", "open_found", "open_add", "open_undo",
             "open_undone", "io", "io_nest", "io_done"}
NestPCs  == {"open_nest", "io_nest"}

(* The recursive mutex is held exactly by the thread inside a section, and *)
(* its recursion count is 2 exactly during libsquashfs' own hooked read.   *)
MutexInv ==
  /\ \A t \in Threads : owner = t <=> pc[t] \in MutexPCs
  /\ owner = None => depth = 0
  /\ \A t \in Threads :
       owner = t => depth = IF pc[t] \in NestPCs THEN 2 ELSE 1

(* No two descriptors share a gen, and gen 0 is the image's.               *)
KernelInv ==
  /\ kfd[ImageFd].obj = Image /\ kfd[ImageFd].gen = 0
  /\ \A fd \in Fds : kfd[fd].gen <= opens
  /\ \A f1, f2 \in Fds : IsOpen(f1) /\ IsOpen(f2) /\ kfd[f1].gen = kfd[f2].gen
                         => f1 = f2
  /\ \A t \in Threads : call[t].gen <= opens

(* Descriptor fd is in its gen-th life, and it is not the image.           *)
Alive(fd, gen) == gen > 0 /\ IsOpen(fd) /\ kfd[fd].gen = gen

MapInv == \A e1, e2 \in fd_map : e1.key = e2.key => e1 = e2

Opening(t) == pc[t] \in {"open_add", "open_undo"}
Closing(t) == call[t].op = "close" /\ pc[t] \in {"lock", "real"}

(* A descriptor belongs to the application (held), or to the one thread    *)
(* that is opening it, or to the one thread that is closing it.            *)
HeldInv ==
  /\ \A h \in held : Alive(h.fd, h.gen)
  /\ \A h1, h2 \in held : h1.fd = h2.fd => h1 = h2
  /\ \A h \in held : \/ h.file \in RealFiles /\ kfd[h.fd].obj = h.file
                     \/ \E e \in fd_map : e.key = h.fd /\ e.inode = h.file

SoleOpener(t) ==
  /\ call[t].op = "open" /\ call[t].file \in Inodes
  /\ Alive(call[t].fd, call[t].gen)
  /\ kfd[call[t].fd].obj = Backing
  /\ \A e \in fd_map : e.key # call[t].fd
  /\ \A h \in held : h.fd # call[t].fd
  /\ \A u \in Threads \ {t} : call[u].gen # call[t].gen

SoleCloser(t) ==
  /\ Alive(call[t].fd, call[t].gen)
  /\ pc[t] = "real" => \A e \in fd_map : e.key # call[t].fd
  /\ \A h \in held : h.fd # call[t].fd
  /\ \A u \in Threads \ {t} : Closing(u) => call[u].fd # call[t].fd

OpeningInv == \A t \in Threads : Opening(t) => SoleOpener(t)
ClosingInv == \A t \in Threads : Closing(t) => SoleCloser(t)

(* A call that missed fd_map and whose descriptor is still the             *)
(* application's is about to act on a real file.                           *)
MissInv ==
  \A t \in Threads, h \in held :
    pc[t] = "real" /\ h.fd = call[t].fd /\ h.gen = call[t].gen => h.file \in RealFiles

DescInv ==
  /\ KernelInv /\ NoStaleEntry /\ MapInv
  /\ HeldInv /\ OpeningInv /\ ClosingInv /\ MissInv
  /\ NoUseAfterFree /\ NoFdLeak

(* Only sqfs_open reaches the real open.                                   *)
CallInv == \A t \in Threads : pc[t] = "open_real" => call[t].op = "open"

(* Everything above at once: true initially and kept by every step.        *)
IInv == TypeOK /\ MutexInv /\ CallInv /\ DescInv
=============================================================================
