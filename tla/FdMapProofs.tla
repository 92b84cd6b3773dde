---------------------------- MODULE FdMapProofs ----------------------------
(***************************************************************************)
(* The safety properties of FdMap for any number of threads, descriptors,  *)
(* files and opens, and that FdMap implements OpenFiles.                   *)
(***************************************************************************)
EXTENDS FdMapRefinement, SeekOpsProofs

(* A result with a source, a position and a count is a return value.       *)
LEMMA RetType ==
  /\ NoRet \in Ret
  /\ \A src \in Files \cup {Backing, Image, None}, o \in Nat, n \in Nat :
       [src |-> src, off |-> o, n |-> n] \in Ret
  BY DEF NoRet, Ret

(* The constants and the values built from them are well typed.            *)
LEMMA ConstTypes ==
  /\ ImageFd \in Fds /\ NoArg \in Arg /\ NoCall \in Call
  /\ SeekArgs \subseteq Arg /\ 0 \in Gens
  /\ \A f \in Files : Size[f] \in Nat
  /\ MaxOpens \in Nat /\ Count \in Nat
  <1>1. NoArg \in Arg
    BY WidthAssumption DEF NoArg, Arg, Off64, Whence
  <1>2. \A f \in Files : Size[f] \in Nat
    BY FdMapAssumption
  <1> QED
    BY <1>1, <1>2, FdMapAssumption DEF NoCall, Call, Ops, Arg, Gens

(* The record types of calls and handles, field by field.                  *)
LEMMA Fields ==
  ASSUME TypeOK, NEW t \in Threads
  PROVE  /\ call[t].op \in Ops /\ call[t].fd \in Fds /\ call[t].gen \in Gens
         /\ call[t].file \in Files \cup {None} /\ call[t].arg \in Arg
         /\ call[t].arg.offset \in Int
         /\ off[t] \in Nat /\ found[t] \in Gens
         /\ kfd[call[t].fd] \in KDesc \cup {Closed}
         /\ \A e \in fd_map : e \in Entry
         /\ \A h \in held : h.fd \in Fds /\ h.gen \in Gens /\ h.file \in Files
  BY WidthAssumption DEF TypeOK, Call, Arg, Off64, Handle

(* Mutex steps leave the recursion count between 0 and 2.                  *)
LEMMA DepthType ==
  ASSUME TypeOK, MutexInv, NEW t \in Threads
  PROVE  /\ sqfs_unlock(t) /\ pc[t] \in MutexPCs
              => owner' \in Threads \cup {None} /\ depth' \in 0 .. 2
         /\ sqfs_lock(t) /\ pc[t] \notin NestPCs
              => owner' \in Threads \cup {None} /\ depth' \in 0 .. 2
  <1>1. depth \in 0 .. 2 /\ owner \in Threads \cup {None} /\ None \notin Threads
    BY FdMapAssumption DEF TypeOK
  <1>2. ASSUME sqfs_unlock(t), pc[t] \in MutexPCs
        PROVE  owner' \in Threads \cup {None} /\ depth' \in 0 .. 2
    BY <1>1, <1>2 DEF sqfs_unlock, MutexInv
  <1>3. ASSUME sqfs_lock(t), pc[t] \notin NestPCs
        PROVE  owner' \in Threads \cup {None} /\ depth' \in 0 .. 2
    BY <1>1, <1>3 DEF sqfs_lock, MutexInv
  <1> QED
    BY <1>2, <1>3

(* Returning keeps the thread-local state well typed.                      *)
LEMMA ReturnType ==
  ASSUME TypeOK, NEW t \in Threads, NEW r \in Ret, Return(t, r)
  PROVE  /\ pc' \in [Threads -> PCs] /\ call' \in [Threads -> Call]
         /\ found' \in [Threads -> Gens] /\ off' \in [Threads -> Nat]
         /\ ret' \in [Threads -> Ret]
  BY ConstTypes DEF TypeOK, Return, Goto, PCs

(* A call by the application keeps the types.                              *)
LEMMA CallType ==
  ASSUME TypeOK, NEW t \in Threads, Calls(t)
  PROVE  TypeOK'
  <1>1. ASSUME NEW op \in Ops, NEW h, NEW arg \in Arg, NEW label \in PCs,
               h.fd \in Fds, h.gen \in Gens, h.file \in Files \cup {None},
               Invoke(t, op, h, arg), Goto(t, label), held' \subseteq held
        PROVE  TypeOK'
    <2>1. [op |-> op, fd |-> h.fd, gen |-> h.gen, file |-> h.file, arg |-> arg] \in Call
      BY <1>1 DEF Call
    <2> QED
      BY <1>1, <2>1, RetType DEF TypeOK, Invoke, Goto
  <1>2. CASE call_open(t)
    BY <1>1, <1>2, ConstTypes DEF call_open, Ops, PCs, NoCall
  <1>3. ASSUME NEW h \in held, call_read(t, h) \/ call_close(t, h) PROVE TypeOK'
    <2>1. h.fd \in Fds /\ h.gen \in Gens /\ h.file \in Files \cup {None}
      BY Fields
    <2> QED
      BY <1>1, <1>3, <2>1, ConstTypes DEF call_read, call_close, Ops, PCs
  <1>4. ASSUME NEW h \in held, NEW a \in SeekArgs, call_pread(t, h, a) \/ call_lseek(t, h, a)
        PROVE  TypeOK'
    <2>1. h.fd \in Fds /\ h.gen \in Gens /\ h.file \in Files \cup {None} /\ a \in Arg
      BY Fields, ConstTypes
    <2> QED
      BY <1>1, <1>4, <2>1 DEF call_pread, call_lseek, Ops, PCs
  <1> QED
    BY <1>2, <1>3, <1>4 DEF Calls

(* Every step of sqfs_open but its last keeps the types.                   *)
LEMMA OpenType ==
  ASSUME TypeOK, MutexInv, NEW t \in Threads
  PROVE  /\ \A fd \in Fds, r \in RealFiles : sqfs_open_real(t, fd, r) => TypeOK'
         /\ \A fd \in Fds, i \in Inodes : create_backing_fd(t, fd, i) => TypeOK'
         /\ sqfs_open_refused(t) => TypeOK'
         /\ sqfs_open_convert(t) => TypeOK'
         /\ sqfs_open_lock(t) => TypeOK'
         /\ sqfs_open_malloc_fails(t) => TypeOK'
         /\ sqfs_open_undo(t) => TypeOK'
         /\ sqfs_open_fails(t) => TypeOK'
  <1>1. ASSUME NEW fd \in Fds, NEW obj \in RealFiles \cup {Backing}, CreateFd(fd, obj)
        PROVE  kfd' \in [Fds -> KDesc \cup {Closed}] /\ opens' \in Gens /\ opens + 1 \in Gens
    <2>1. opens + 1 \in Gens
      BY <1>1, ConstTypes DEF CreateFd, TypeOK, Gens
    <2>2. [obj |-> obj, gen |-> opens + 1, off |-> 0] \in KDesc
      BY <2>1 DEF KDesc
    <2> QED
      BY <1>1, <2>1, <2>2 DEF CreateFd, TypeOK
  <1>2. ASSUME NEW fd \in Fds, NEW r \in RealFiles, sqfs_open_real(t, fd, r) PROVE TypeOK'
    <2>1. kfd' \in [Fds -> KDesc \cup {Closed}] /\ opens' \in Gens /\ opens + 1 \in Gens
      BY <1>1, <1>2 DEF sqfs_open_real
    <2>2. [fd |-> fd, gen |-> opens + 1, file |-> r] \in Handle
      BY <2>1 DEF Handle, Files
    <2>3. [src |-> r, off |-> 0, n |-> 0] \in Ret
      BY RetType DEF Files
    <2> QED
      BY <1>2, <2>1, <2>2, <2>3, ReturnType DEF sqfs_open_real, TypeOK
  <1>3. ASSUME NEW fd \in Fds, NEW i \in Inodes, create_backing_fd(t, fd, i) PROVE TypeOK'
    <2>1. kfd' \in [Fds -> KDesc \cup {Closed}] /\ opens' \in Gens /\ opens + 1 \in Gens
      BY <1>1, <1>3 DEF create_backing_fd
    <2>2. [op |-> "open", fd |-> fd, gen |-> opens + 1, file |-> i, arg |-> NoArg] \in Call
      BY <2>1, ConstTypes DEF Call, Files, Ops
    <2>3. call' \in [Threads -> Call]
      BY <1>3, <2>2 DEF create_backing_fd, TypeOK
    <2> QED
      BY <1>3, <2>1, <2>3 DEF create_backing_fd, TypeOK, Goto, PCs
  <1>4. ASSUME sqfs_open_refused(t) PROVE TypeOK'
    BY <1>4, ReturnType, RetType DEF sqfs_open_refused, TypeOK
  <1>5. ASSUME sqfs_open_convert(t) PROVE TypeOK'
    BY <1>5 DEF sqfs_open_convert, TypeOK, Goto, PCs
  <1>6. ASSUME sqfs_open_lock(t) PROVE TypeOK'
    <2>1. owner' \in Threads \cup {None} /\ depth' \in 0 .. 2
      BY <1>6, DepthType DEF sqfs_open_lock, NestPCs
    <2> QED
      BY <1>6, <2>1 DEF sqfs_open_lock, TypeOK, Goto, PCs
  <1>7. ASSUME sqfs_open_malloc_fails(t) PROVE TypeOK'
    BY <1>7 DEF sqfs_open_malloc_fails, TypeOK, Goto, PCs
  <1>8. ASSUME sqfs_open_undo(t) PROVE TypeOK'
    BY <1>8 DEF sqfs_open_undo, TypeOK, Goto, PCs
  <1>9. ASSUME sqfs_open_fails(t) PROVE TypeOK'
    <2>1. owner' \in Threads \cup {None} /\ depth' \in 0 .. 2
      BY <1>9, DepthType DEF sqfs_open_fails, MutexPCs
    <2> QED
      BY <1>9, <2>1, ReturnType, RetType DEF sqfs_open_fails, TypeOK
  <1> QED
    BY <1>2, <1>3, <1>4, <1>5, <1>6, <1>7, <1>8, <1>9

(* sqfs_open_add needs to know that the thread holds an inode.             *)
LEMMA AddType ==
  ASSUME TypeOK, MutexInv, OpeningInv, NEW t \in Threads, sqfs_open_add(t)
  PROVE  TypeOK'
  <1>1. call[t].file \in Inodes /\ call[t].fd \in Fds /\ call[t].gen \in Gens
    BY Fields DEF OpeningInv, SoleOpener, sqfs_open_add, Opening
  <1>2. [key |-> call[t].fd, inode |-> call[t].file, offset |-> 0, gen |-> call[t].gen] \in Entry
    BY <1>1 DEF Entry
  <1>3. [fd |-> call[t].fd, gen |-> call[t].gen, file |-> call[t].file] \in Handle
    BY <1>1 DEF Handle, Files
  <1>4. [src |-> call[t].file, off |-> 0, n |-> 0] \in Ret
    BY <1>1, RetType DEF Files
  <1>5. owner' \in Threads \cup {None} /\ depth' \in 0 .. 2
    BY DepthType DEF sqfs_open_add, MutexPCs
  <1>6. /\ pc' \in [Threads -> PCs] /\ call' \in [Threads -> Call]
        /\ found' \in [Threads -> Gens] /\ off' \in [Threads -> Nat]
        /\ ret' \in [Threads -> Ret]
    BY <1>4, ReturnType DEF sqfs_open_add
  <1> QED
    BY <1>2, <1>3, <1>5, <1>6 DEF sqfs_open_add, TypeOK

(* The steps of read, pread, lseek and close that look into fd_map, and    *)
(* libsquashfs' own hooked read, keep the types.                           *)
LEMMA MappedType ==
  ASSUME TypeOK, MutexInv, NEW t \in Threads
  PROVE  /\ image_pread_lock(t) => TypeOK'
         /\ image_pread_miss(t) => TypeOK'
         /\ find_miss(t) => TypeOK'
         /\ pread_negative(t) => TypeOK'
         /\ read_fails(t) => TypeOK'
         /\ real_fails(t) => TypeOK'
         /\ \A e \in fd_map : read_hit(t, e) => TypeOK'
         /\ \A e \in fd_map : read_done(t, e) => TypeOK'
         /\ \A e \in fd_map : lseek_hit(t, e) => TypeOK'
         /\ \A e \in fd_map : close_hit(t, e) => TypeOK'
  <1>1. ASSUME image_pread_lock(t) PROVE TypeOK'
    <2>1. owner' \in Threads \cup {None} /\ depth' \in 0 .. 2
      BY <1>1, DepthType DEF image_pread_lock, NestPCs
    <2> QED
      BY <1>1, <2>1 DEF image_pread_lock, TypeOK, Goto, PCs
  <1>2. ASSUME image_pread_miss(t) PROVE TypeOK'
    <2>1. owner' \in Threads \cup {None} /\ depth' \in 0 .. 2
      BY <1>2, DepthType DEF image_pread_miss, MutexPCs
    <2> QED
      BY <1>2, <2>1 DEF image_pread_miss, TypeOK, Goto, PCs
  <1>4. ASSUME find_miss(t) PROVE TypeOK'
    BY <1>4 DEF find_miss, Critical, mutex, TypeOK, Goto, PCs
  <1>5. ASSUME pread_negative(t) PROVE TypeOK'
    BY <1>5, ReturnType, RetType DEF pread_negative, Critical, mutex, TypeOK
  <1>3. ASSUME real_fails(t) PROVE TypeOK'
    BY <1>3, ReturnType, RetType DEF real_fails, TypeOK
  <1>6. ASSUME read_fails(t) PROVE TypeOK'
    <2>1. owner' \in Threads \cup {None} /\ depth' \in 0 .. 2
      BY <1>6, DepthType DEF read_fails, MutexPCs
    <2> QED
      BY <1>6, <2>1, ReturnType, RetType DEF read_fails, TypeOK
  <1>7. ASSUME NEW e \in fd_map, read_hit(t, e) PROVE TypeOK'
    <2>1. owner' \in Threads \cup {None} /\ depth' \in 0 .. 2
      BY <1>7, DepthType DEF read_hit, NestPCs
    <2>2. e.gen \in Gens /\ e.offset \in Nat
      BY Fields DEF Entry
    <2>3. (IF call[t].op = "read" THEN e.offset ELSE call[t].arg.offset) \in Nat
      BY <1>7, <2>2, Fields DEF read_hit
    <2>4. found' \in [Threads -> Gens] /\ off' \in [Threads -> Nat]
      BY <1>7, <2>2, <2>3 DEF read_hit, TypeOK
    <2> QED
      BY <1>7, <2>1, <2>4 DEF read_hit, TypeOK, Goto, PCs
  <1>8. ASSUME NEW e \in fd_map, NEW o \in Nat
        PROVE  (fd_map \ {e}) \cup {EntryAt(e, o)} \subseteq Entry
    BY DEF TypeOK, Entry, EntryAt
  <1>9. ASSUME NEW e \in fd_map PROVE e.inode \in Files /\ e.offset \in Nat /\ Size[e.inode] \in Nat
    BY Fields, ConstTypes DEF Entry, Files
  <1>10. ASSUME NEW e \in fd_map, read_done(t, e) PROVE TypeOK'
    <2> DEFINE n == sqfs_data_reader_read(Size[e.inode], off[t], Count)
    <2>1. n \in Nat
      BY <1>9, Fields, ConstTypes, ReadNat
    <2>2. fd_map' \subseteq Entry
      <3>1. e.offset + n \in Nat
        BY <1>9, <2>1
      <3>2. (fd_map \ {e}) \cup {EntryAt(e, e.offset + n)} \subseteq Entry
        BY <1>8, <3>1
      <3> QED
        BY <1>10, <3>2 DEF read_done, TypeOK
    <2>3. [src |-> e.inode, off |-> off[t], n |-> n] \in Ret
      BY <1>9, <2>1, Fields, RetType
    <2>4. owner' \in Threads \cup {None} /\ depth' \in 0 .. 2
      BY <1>10, DepthType DEF read_done, MutexPCs
    <2>5. Return(t, [src |-> e.inode, off |-> off[t], n |-> n])
      BY <1>10 DEF read_done
    <2> HIDE DEF n
    <2>6. /\ pc' \in [Threads -> PCs] /\ call' \in [Threads -> Call]
          /\ found' \in [Threads -> Gens] /\ off' \in [Threads -> Nat]
          /\ ret' \in [Threads -> Ret]
      BY <2>3, <2>5, ReturnType
    <2> QED
      BY <1>10, <2>2, <2>4, <2>6 DEF read_done, TypeOK
  <1>11. ASSUME NEW e \in fd_map, lseek_hit(t, e) PROVE TypeOK'
    <2> DEFINE a   == call[t].arg
               res == sqfs_lseek_mapped(Size[e.inode], e.offset, a.offset, a.whence,
                                        MaxReturn(a.wide))
    <2>1. a.offset \in Off64 /\ MaxReturn(a.wide) \in Nat
      BY Fields, WidthAssumption DEF Arg, MaxReturn
    <2>2. res.out \in Nat
      BY <1>9, <2>1, SeekNat
    <2>3. CASE /\ fd_map' = (fd_map \ {e}) \cup {EntryAt(e, res.out)}
               /\ Return(t, [src |-> e.inode, off |-> res.out, n |-> 0])
      <3> HIDE DEF res
      <3>1. [src |-> e.inode, off |-> res.out, n |-> 0] \in Ret
        BY <1>9, <2>2, RetType
      <3>2. /\ pc' \in [Threads -> PCs] /\ call' \in [Threads -> Call]
            /\ found' \in [Threads -> Gens] /\ off' \in [Threads -> Nat]
            /\ ret' \in [Threads -> Ret]
        BY <2>3, <3>1, ReturnType
      <3>3. fd_map' \subseteq Entry
        BY <1>8, <2>2, <2>3
      <3> QED
        BY <1>11, <3>2, <3>3 DEF lseek_hit, Critical, mutex, TypeOK
    <2>4. CASE Return(t, NoRet) /\ UNCHANGED fd_map
      <3>1. /\ pc' \in [Threads -> PCs] /\ call' \in [Threads -> Call]
            /\ found' \in [Threads -> Gens] /\ off' \in [Threads -> Nat]
            /\ ret' \in [Threads -> Ret]
        BY <2>4, RetType, ReturnType
      <3> QED
        BY <1>11, <2>4, <3>1 DEF lseek_hit, Critical, mutex, TypeOK
    <2> QED
      BY <1>11, <2>3, <2>4 DEF lseek_hit
  <1>12. ASSUME NEW e \in fd_map, close_hit(t, e) PROVE TypeOK'
    BY <1>12 DEF close_hit, Critical, mutex, TypeOK, Goto, PCs
  <1> QED
    BY <1>1, <1>2, <1>3, <1>4, <1>5, <1>6, <1>7, <1>10, <1>11, <1>12

(* The real read, lseek and close keep the types.                          *)
LEMMA RealType ==
  ASSUME TypeOK, NEW t \in Threads
  PROVE  /\ real_read(t) => TypeOK'
         /\ real_lseek(t) => TypeOK'
         /\ real_close(t) => TypeOK'
  <1> DEFINE d == kfd[call[t].fd]
  <1>0. /\ d \in KDesc \cup {Closed} /\ d.off \in Nat
        /\ ObjSize(d.obj) \in Nat
        /\ d.obj # None => d.obj \in Files \cup {Backing, Image, None}
    BY Fields, ConstTypes DEF KDesc, Closed, ObjSize, Files
  <1>1. ASSUME NEW o \in Nat, d.obj # None
        PROVE  [kfd EXCEPT ![call[t].fd] = DescAt(d, o)] \in [Fds -> KDesc \cup {Closed}]
    <2>1. DescAt(d, o) \in KDesc
      BY <1>0, <1>1 DEF DescAt, KDesc, Closed
    <2> QED
      BY <2>1, Fields DEF TypeOK
  <1>2. ASSUME real_read(t) PROVE TypeOK'
    <2> DEFINE o == IF call[t].op = "pread" THEN call[t].arg.offset ELSE d.off
               n == sqfs_data_reader_read(ObjSize(d.obj), o, Count)
    <2>1. o \in Int
      BY <1>0, Fields
    <2>2. CASE Return(t, NoRet) /\ UNCHANGED kfd
      BY <1>2, <2>2, RetType, ReturnType DEF real_read, TypeOK
    <2>3. CASE ~(d.obj = None \/ o < 0)
      <3>1. o \in Nat
        BY <2>1, <2>3
      <3>2. n \in Nat
        BY <1>0, <3>1, ConstTypes, ReadNat
      <3>3. /\ Return(t, [src |-> d.obj, off |-> o, n |-> n])
            /\ kfd' = IF call[t].op = "read"
                      THEN [kfd EXCEPT ![call[t].fd] = DescAt(d, d.off + n)] ELSE kfd
        BY <1>2, <2>3 DEF real_read
      <3> HIDE DEF n
      <3>4. kfd' \in [Fds -> KDesc \cup {Closed}]
        BY <1>0, <1>1, <2>3, <3>2, <3>3 DEF TypeOK
      <3>5. [src |-> d.obj, off |-> o, n |-> n] \in Ret
        BY <1>0, <2>3, <3>1, <3>2, RetType
      <3>6. /\ pc' \in [Threads -> PCs] /\ call' \in [Threads -> Call]
            /\ found' \in [Threads -> Gens] /\ off' \in [Threads -> Nat]
            /\ ret' \in [Threads -> Ret]
        BY <3>3, <3>5, ReturnType
      <3> QED
        BY <1>2, <3>4, <3>6 DEF real_read, TypeOK
    <2> QED
      BY <1>2, <2>2, <2>3 DEF real_read
  <1>3. ASSUME real_lseek(t) PROVE TypeOK'
    <2> DEFINE a   == call[t].arg
               res == sqfs_lseek_mapped(ObjSize(d.obj), d.off, a.offset, a.whence,
                                        MaxReturn(a.wide))
    <2>1. a.offset \in Off64 /\ MaxReturn(a.wide) \in Nat
      BY Fields, WidthAssumption DEF Arg, MaxReturn
    <2>2. res.out \in Nat
      BY <1>0, <2>1, SeekNat
    <2>3. CASE Return(t, NoRet) /\ UNCHANGED kfd
      BY <1>3, <2>3, RetType, ReturnType DEF real_lseek, TypeOK
    <2>4. CASE ~(d.obj = None \/ res.err # "OK")
      <3>1. /\ Return(t, [src |-> d.obj, off |-> res.out, n |-> 0])
            /\ kfd' = [kfd EXCEPT ![call[t].fd] = DescAt(d, res.out)]
        BY <1>3, <2>4 DEF real_lseek
      <3> HIDE DEF res
      <3>2. kfd' \in [Fds -> KDesc \cup {Closed}]
        BY <1>1, <2>2, <2>4, <3>1
      <3>3. [src |-> d.obj, off |-> res.out, n |-> 0] \in Ret
        BY <1>0, <2>2, <2>4, RetType
      <3>4. /\ pc' \in [Threads -> PCs] /\ call' \in [Threads -> Call]
            /\ found' \in [Threads -> Gens] /\ off' \in [Threads -> Nat]
            /\ ret' \in [Threads -> Ret]
        BY <3>1, <3>3, ReturnType
      <3>5. UNCHANGED <<owner, depth, fd_map, opens, held>>
        BY <1>3 DEF real_lseek
      <3>6. /\ owner' \in Threads \cup {None} /\ depth' \in 0 .. 2
            /\ fd_map' \subseteq Entry /\ opens' \in Gens /\ held' \subseteq Handle
        BY <3>5 DEF TypeOK
      <3> QED
        BY <3>2, <3>4, <3>6, Zenon DEF TypeOK
    <2> QED
      BY <1>3, <2>3, <2>4 DEF real_lseek
  <1>4. ASSUME real_close(t) PROVE TypeOK'
    BY <1>4, RetType, ReturnType DEF real_close, TypeOK
  <1> QED
    BY <1>2, <1>3, <1>4

(* Every step keeps the types.                                             *)
LEMMA TypeStep ==
  ASSUME TypeOK, MutexInv, OpeningInv, [Next]_vars
  PROVE  TypeOK'
  <1>1. ASSUME NEW t \in Threads, Calls(t) PROVE TypeOK'
    BY <1>1, CallType
  <1>2. ASSUME NEW t \in Threads, Step(t) PROVE TypeOK'
    BY <1>2, OpenType, AddType, MappedType, RealType DEF Step
  <1>3. CASE UNCHANGED vars
    BY <1>3 DEF vars, TypeOK
  <1> QED
    BY <1>1, <1>2, <1>3 DEF Next

-----------------------------------------------------------------------------
(* The mutex.                                                              *)

(* A step of t that neither touches the mutex nor crosses the boundary of  *)
(* a section keeps MutexInv; so do lock and unlock steps that do both.     *)
LEMMA MutexFrame ==
  ASSUME TypeOK, MutexInv, NEW t \in Threads, NEW label,
         pc' = [pc EXCEPT ![t] = label],
         \/ /\ UNCHANGED mutex
            /\ pc[t] \in MutexPCs <=> label \in MutexPCs
            /\ pc[t] \notin NestPCs /\ label \notin NestPCs
         \/ /\ sqfs_lock(t) /\ label \in MutexPCs /\ pc[t] \notin NestPCs
            /\ pc[t] \in MutexPCs <=> label \in NestPCs
         \/ /\ sqfs_unlock(t) /\ pc[t] \in MutexPCs /\ label \notin NestPCs
            /\ pc[t] \in NestPCs <=> label \in MutexPCs
  PROVE  MutexInv'
  <1>0. /\ depth \in 0 .. 2 /\ owner \in Threads \cup {None} /\ None \notin Threads
        /\ pc' \in [Threads -> PCs \cup {label}] /\ pc'[t] = label
        /\ \A u \in Threads \ {t} : pc'[u] = pc[u]
        /\ NestPCs \subseteq MutexPCs
    BY FdMapAssumption DEF TypeOK, NestPCs, MutexPCs
  <1>1. CASE /\ UNCHANGED mutex
             /\ pc[t] \in MutexPCs <=> label \in MutexPCs
             /\ pc[t] \notin NestPCs /\ label \notin NestPCs
    BY <1>0, <1>1 DEF MutexInv, mutex
  <1>2. CASE /\ sqfs_lock(t) /\ label \in MutexPCs /\ pc[t] \notin NestPCs
             /\ pc[t] \in MutexPCs <=> label \in NestPCs
    BY <1>0, <1>2 DEF MutexInv, sqfs_lock
  <1>3. CASE /\ sqfs_unlock(t) /\ pc[t] \in MutexPCs /\ label \notin NestPCs
             /\ pc[t] \in NestPCs <=> label \in MutexPCs
    BY <1>0, <1>3 DEF MutexInv, sqfs_unlock
  <1> QED
    BY <1>1, <1>2, <1>3

(* Every step keeps the recursive mutex with the thread in its critical    *)
(* section: sqfs_lock and sqfs_unlock are paired on every path, the error  *)
(* exits and the nested hook included.                                     *)
LEMMA MutexStep ==
  ASSUME TypeOK, MutexInv, [Next]_vars
  PROVE  MutexInv'
  <1>1. ASSUME NEW t \in Threads, Calls(t) PROVE MutexInv'
    BY <1>1, MutexFrame
       DEF Calls, call_open, call_read, call_close, call_pread, call_lseek, Invoke, Goto,
           mutex, MutexPCs, NestPCs
  <1>2. ASSUME NEW t \in Threads, Step(t) PROVE MutexInv'
    <2>1. ASSUME NEW fd \in Fds, NEW r \in RealFiles, sqfs_open_real(t, fd, r)
          PROVE  MutexInv'
      BY <2>1, MutexFrame DEF sqfs_open_real, Return, Goto, mutex, MutexPCs, NestPCs
    <2>2. CASE sqfs_open_refused(t)
      BY <2>2, MutexFrame DEF sqfs_open_refused, Return, Goto, mutex, MutexPCs, NestPCs
    <2>3. CASE sqfs_open_convert(t)
      BY <2>3, MutexFrame DEF sqfs_open_convert, Goto, mutex, MutexPCs, NestPCs
    <2>4. CASE sqfs_open_lock(t)
      BY <2>4, MutexFrame DEF sqfs_open_lock, Goto, MutexPCs, NestPCs
    <2>5. ASSUME NEW fd \in Fds, NEW i \in Inodes, create_backing_fd(t, fd, i)
          PROVE  MutexInv'
      BY <2>5, MutexFrame DEF create_backing_fd, Goto, mutex, MutexPCs, NestPCs
    <2>6. CASE sqfs_open_add(t)
      BY <2>6, MutexFrame DEF sqfs_open_add, Return, Goto, MutexPCs, NestPCs
    <2>7. CASE sqfs_open_malloc_fails(t)
      BY <2>7, MutexFrame DEF sqfs_open_malloc_fails, Goto, mutex, MutexPCs, NestPCs
    <2>8. CASE sqfs_open_undo(t)
      BY <2>8, MutexFrame DEF sqfs_open_undo, Goto, mutex, MutexPCs, NestPCs
    <2>9. CASE sqfs_open_fails(t)
      BY <2>9, MutexFrame DEF sqfs_open_fails, Return, Goto, MutexPCs, NestPCs
    <2>10. CASE image_pread_lock(t)
      BY <2>10, MutexFrame DEF image_pread_lock, Goto, MutexPCs, NestPCs
    <2>11. CASE image_pread_miss(t)
      BY <2>11, MutexFrame DEF image_pread_miss, Goto, MutexPCs, NestPCs
    <2>13. CASE find_miss(t)
      BY <2>13, MutexFrame DEF find_miss, Critical, Goto, mutex, MutexPCs, NestPCs
    <2>14. CASE pread_negative(t)
      BY <2>14, MutexFrame DEF pread_negative, Critical, Return, Goto, mutex, MutexPCs, NestPCs
    <2>12. CASE real_fails(t)
      BY <2>12, MutexFrame DEF real_fails, Return, Goto, mutex, MutexPCs, NestPCs
    <2>15. CASE read_fails(t)
      BY <2>15, MutexFrame DEF read_fails, Return, Goto, MutexPCs, NestPCs
    <2>16. ASSUME NEW e \in fd_map, read_hit(t, e) PROVE MutexInv'
      BY <2>16, MutexFrame DEF read_hit, Goto, MutexPCs, NestPCs
    <2>17. ASSUME NEW e \in fd_map, read_done(t, e) PROVE MutexInv'
      BY <2>17, MutexFrame DEF read_done, Return, Goto, MutexPCs, NestPCs
    <2>18. ASSUME NEW e \in fd_map, lseek_hit(t, e) PROVE MutexInv'
      BY <2>18, MutexFrame DEF lseek_hit, Critical, Return, Goto, mutex, MutexPCs, NestPCs
    <2>19. ASSUME NEW e \in fd_map, close_hit(t, e) PROVE MutexInv'
      BY <2>19, MutexFrame DEF close_hit, Critical, Goto, mutex, MutexPCs, NestPCs
    <2>20. CASE real_read(t)
      BY <2>20, MutexFrame DEF real_read, Return, Goto, mutex, MutexPCs, NestPCs
    <2>21. CASE real_lseek(t)
      BY <2>21, MutexFrame DEF real_lseek, Return, Goto, mutex, MutexPCs, NestPCs
    <2>22. CASE real_close(t)
      BY <2>22, MutexFrame DEF real_close, Return, Goto, mutex, MutexPCs, NestPCs
    <2> QED
      BY <1>2, <2>1, <2>2, <2>3, <2>4, <2>5, <2>6, <2>7, <2>8, <2>9, <2>10, <2>11,
         <2>12, <2>13, <2>14, <2>15, <2>16, <2>17, <2>18, <2>19, <2>20, <2>21, <2>22 DEF Step
  <1>3. CASE UNCHANGED vars
    BY <1>3 DEF vars, MutexInv
  <1> QED
    BY <1>1, <1>2, <1>3 DEF Next

-----------------------------------------------------------------------------
(* The descriptors.                                                        *)

(* A step that changes no entry and no description but for a position.     *)
SameEntry(e, f) == e.key = f.key /\ e.gen = f.gen /\ e.inode = f.inode

Quiet ==
  /\ \A fd \in Fds : kfd'[fd].obj = kfd[fd].obj /\ kfd'[fd].gen = kfd[fd].gen
  /\ \A e \in fd_map : \E f \in fd_map' : SameEntry(e, f)
  /\ \A f \in fd_map' : \E e \in fd_map : SameEntry(e, f)
  /\ MapInv'
  /\ held' = held /\ opens' = opens

(* A step of t leaves the other threads' local state alone.                *)
LocalTo(t) ==
  \A u \in Threads \ {t} : pc'[u] = pc[u] /\ call'[u] = call[u] /\ found'[u] = found[u]

(* Where the numbers and gens of a state live.                             *)
LEMMA DescTypes ==
  ASSUME TypeOK
  PROVE  /\ opens \in Nat
         /\ \A fd \in Fds : kfd[fd].gen \in Nat
         /\ \A u \in Threads : call[u].fd \in Fds /\ call[u].gen \in Nat /\ call[u].op \in Ops
         /\ \A e \in fd_map : e.key \in Fds /\ e.gen \in Nat /\ e.inode \in Inodes
         /\ \A h \in held : h.fd \in Fds /\ h.gen \in Nat /\ h.file \in Files
         /\ ImageFd \in Fds
  <1>1. Gens \subseteq Nat
    BY FdMapAssumption DEF Gens
  <1>2. \A fd \in Fds : kfd[fd].gen \in Nat
    <2>1. \A fd \in Fds : kfd[fd] \in KDesc \cup {Closed}
      BY DEF TypeOK
    <2>2. \A d \in KDesc : d.gen \in Gens
      BY DEF KDesc
    <2>3. Closed.gen \in Nat
      BY DEF Closed
    <2>4. \A d \in KDesc \cup {Closed} : d.gen \in Nat
      <3> TAKE d \in KDesc \cup {Closed}
      <3>1. CASE d \in KDesc
        BY <1>1, <2>2, <3>1
      <3>2. CASE d = Closed
        BY <2>3, <3>2
      <3> QED
        BY <3>1, <3>2
    <2> QED
      BY <2>1, <2>4
  <1>3. \A u \in Threads : call[u] \in Call
    BY DEF TypeOK
  <1>4. \A u \in Threads : call[u].fd \in Fds /\ call[u].gen \in Nat /\ call[u].op \in Ops
    BY <1>1, <1>3 DEF Call
  <1>5. \A e \in fd_map : e.key \in Fds /\ e.gen \in Nat /\ e.inode \in Inodes
    BY <1>1 DEF TypeOK, Entry
  <1>6. \A h \in held : h.fd \in Fds /\ h.gen \in Nat /\ h.file \in Files
    BY <1>1 DEF TypeOK, Handle
  <1> QED
    BY <1>1, <1>2, <1>4, <1>5, <1>6, FdMapAssumption DEF TypeOK

(* The thread is the only owner of a descriptor.                           *)
OwnsFd(t) == Opening(t) \/ (Closing(t) /\ pc[t] = "real")

(* A quiet step of t keeps DescInv if t keeps what it owns, claims nothing *)
(* new, and knows what it must know before it goes to libsquashfs or to    *)
(* the real function.                                                      *)
LEMMA QuietStep ==
  ASSUME TypeOK, TypeOK', DescInv, NEW t \in Threads, Quiet, LocalTo(t),
         call'[t].gen \in {0, call[t].gen} \cup {h.gen : h \in held},
         Opening(t)' => Opening(t),
         Closing(t)' => Closing(t),
         OwnsFd(t) => OwnsFd(t)',
         OwnsFd(t) \/ Closing(t)' \/ pc'[t] = "real" => call'[t] = call[t],
         pc'[t] = "real" /\ pc[t] # "real" => HASH_FIND_INT(call[t].fd) = {},
         InLibraryRead(t)' => \E e \in fd_map : e.gen = found'[t] /\ e.key = call'[t].fd
  PROVE  DescInv'
  <1>1. KernelInv'
    BY DescTypes DEF DescInv, Quiet, LocalTo, KernelInv, HeldInv, Alive, IsOpen
  <1>2. NoStaleEntry'
    BY DescTypes DEF DescInv, Quiet, NoStaleEntry, SameEntry
  <1>3. MapInv'
    BY DEF Quiet
  <1>4. HeldInv'
    BY DescTypes DEF DescInv, Quiet, HeldInv, Alive, IsOpen, SameEntry
  <1>5. OpeningInv'
    <2> SUFFICES ASSUME NEW u \in Threads, Opening(u)' PROVE SoleOpener(u)'
      BY DEF OpeningInv
    <2>1. Opening(u) /\ call'[u] = call[u]
      BY DEF LocalTo, Opening, OwnsFd
    <2>2. SoleOpener(u)
      BY <2>1 DEF DescInv, OpeningInv
    <2>3. \A h \in held : h.gen # call[u].gen
      BY <2>2, DescTypes DEF DescInv, KernelInv, HeldInv, SoleOpener, Alive
    <2>4. \A v \in Threads \ {u} : call'[v].gen # call[u].gen
      BY <2>2, <2>3 DEF LocalTo, SoleOpener, Alive
    <2> QED
      BY <2>1, <2>2, <2>4, DescTypes DEF Quiet, SameEntry, SoleOpener, Alive, IsOpen
  <1>6. ClosingInv'
    <2> SUFFICES ASSUME NEW u \in Threads, Closing(u)' PROVE SoleCloser(u)'
      BY DEF ClosingInv
    <2>1. Closing(u) /\ call'[u] = call[u]
      BY DEF LocalTo, Closing
    <2>2. SoleCloser(u)
      BY <2>1 DEF DescInv, ClosingInv
    <2>3. \A v \in Threads \ {u} : Closing(v)' => call'[v].fd # call[u].fd
      BY <2>2 DEF LocalTo, SoleCloser, Closing
    <2>4. pc'[u] = "real" => \A f \in fd_map' : f.key # call[u].fd
      BY <2>1, <2>2 DEF LocalTo, Quiet, SameEntry, SoleCloser, HASH_FIND_INT
    <2> QED
      BY <2>1, <2>2, <2>3, <2>4, DescTypes DEF Quiet, SoleCloser, Alive, IsOpen
  <1>7. MissInv'
    BY DescTypes DEF DescInv, Quiet, LocalTo, MissInv, HeldInv, HASH_FIND_INT
  <1>8. NoUseAfterFree'
    BY DescTypes DEF DescInv, Quiet, LocalTo, NoUseAfterFree, InLibraryRead, SameEntry
  <1>9. NoFdLeak'
    BY DescTypes DEF DescInv, Quiet, LocalTo, NoFdLeak, SameEntry, OwnsFd, Opening, Closing
  <1> QED
    BY <1>1, <1>2, <1>3, <1>4, <1>5, <1>6, <1>7, <1>8, <1>9 DEF DescInv

(* A step that leaves map, kernel and application alone is quiet.          *)
LEMMA Untouched ==
  ASSUME DescInv, UNCHANGED <<fd_map, kfd, opens, held>>
  PROVE  Quiet
  BY DEF DescInv, Quiet, MapInv, SameEntry

(* A return changes nothing of another thread.                             *)
LEMMA ReturnLocal ==
  ASSUME TypeOK, NEW t \in Threads, NEW r, Return(t, r)
  PROVE  LocalTo(t) /\ pc'[t] = "app" /\ call'[t] = NoCall
  BY DEF TypeOK, Return, Goto, LocalTo

(* A jump changes nothing of another thread.                               *)
LEMMA GotoLocal ==
  ASSUME TypeOK, NEW t \in Threads, NEW label, Goto(t, label), UNCHANGED <<call, found>>
  PROVE  LocalTo(t) /\ pc'[t] = label /\ call'[t] = call[t] /\ found'[t] = found[t]
  BY DEF TypeOK, Goto, LocalTo

(* A thread that owns no descriptor returns.                               *)
LEMMA QuietReturn ==
  ASSUME TypeOK, TypeOK', DescInv, NEW t \in Threads, NEW r, Quiet, Return(t, r), ~OwnsFd(t)
  PROVE  DescInv'
  <1>1. LocalTo(t) /\ pc'[t] = "app" /\ call'[t] = NoCall
    BY ReturnLocal
  <1>2. call'[t].gen = 0
    BY <1>1 DEF NoCall
  <1>3. ~Opening(t)' /\ ~Closing(t)' /\ ~InLibraryRead(t)' /\ pc'[t] # "real"
    BY <1>1 DEF Opening, Closing, InLibraryRead
  <1> QED
    BY <1>1, <1>2, <1>3, QuietStep

(* A thread that owns no descriptor moves on inside an open or a read.     *)
LEMMA QuietGoto ==
  ASSUME TypeOK, TypeOK', DescInv, NEW t \in Threads, NEW label,
         UNCHANGED <<call, found, fd_map, kfd, opens, held>>, Goto(t, label), ~OwnsFd(t),
         label \notin {"open_add", "open_undo", "lock", "real"},
         label \in {"io", "io_nest", "io_done"} => InLibraryRead(t)
  PROVE  DescInv'
  <1>1. LocalTo(t) /\ pc'[t] = label /\ call'[t] = call[t] /\ found'[t] = found[t]
    BY GotoLocal
  <1>2. ~Opening(t)' /\ ~Closing(t)' /\ pc'[t] # "real"
    BY <1>1 DEF Opening, Closing
  <1>3. InLibraryRead(t)' => \E e \in fd_map : e.gen = found'[t] /\ e.key = call'[t].fd
    BY <1>1 DEF InLibraryRead, DescInv, NoUseAfterFree
  <1> QED
    BY <1>1, <1>2, <1>3, QuietStep, Untouched

(* The application's calls other than close.                               *)
LEMMA CallStep ==
  ASSUME TypeOK, TypeOK', DescInv, NEW t \in Threads
  PROVE  /\ call_open(t) => DescInv'
         /\ \A h \in held : call_read(t, h) => DescInv'
         /\ \A h \in held, a \in SeekArgs :
              call_pread(t, h, a) \/ call_lseek(t, h, a) => DescInv'
  <1>1. ASSUME NEW op \in {"open", "read", "pread", "lseek"}, NEW h, NEW a, NEW label,
               h.gen \in {0} \cup {g.gen : g \in held}, label \in {"lock", "open_real"},
               Invoke(t, op, h, a), Goto(t, label), UNCHANGED held
        PROVE  DescInv'
    <2>1. LocalTo(t) /\ pc'[t] = label /\ call'[t].op = op /\ call'[t].gen = h.gen
      BY <1>1 DEF Invoke, Goto, LocalTo, TypeOK
    <2>2. Quiet
      BY <1>1, Untouched DEF Invoke
    <2>3. ~OwnsFd(t)
      BY <1>1 DEF Invoke, OwnsFd, Opening, Closing
    <2>4. ~Opening(t)' /\ ~Closing(t)' /\ ~InLibraryRead(t)' /\ pc'[t] # "real"
      BY <1>1, <2>1 DEF Opening, Closing, InLibraryRead
    <2> QED
      BY <1>1, <2>1, <2>2, <2>3, <2>4, QuietStep
  <1>2. ASSUME call_open(t) PROVE DescInv'
    BY <1>1, <1>2 DEF call_open, NoCall
  <1>3. ASSUME NEW h \in held, call_read(t, h) PROVE DescInv'
    BY <1>1, <1>3 DEF call_read
  <1>4. ASSUME NEW h \in held, NEW a \in SeekArgs, call_pread(t, h, a) \/ call_lseek(t, h, a)
        PROVE  DescInv'
    BY <1>1, <1>4 DEF call_pread, call_lseek
  <1> QED
    BY <1>2, <1>3, <1>4

(* The steps inside a call that change no descriptor but for a position.   *)
LEMMA QuietActions ==
  ASSUME TypeOK, TypeOK', DescInv, NEW t \in Threads
  PROVE  /\ sqfs_open_refused(t) => DescInv'
         /\ sqfs_open_convert(t) => DescInv'
         /\ sqfs_open_lock(t) => DescInv'
         /\ sqfs_open_malloc_fails(t) => DescInv'
         /\ sqfs_open_fails(t) => DescInv'
         /\ image_pread_lock(t) => DescInv'
         /\ image_pread_miss(t) => DescInv'
         /\ find_miss(t) => DescInv'
         /\ pread_negative(t) => DescInv'
         /\ read_fails(t) => DescInv'
         /\ real_fails(t) => DescInv'
         /\ \A e \in fd_map : read_hit(t, e) => DescInv'
  <1>1. ASSUME sqfs_open_refused(t) PROVE DescInv'
    <2>1. ~OwnsFd(t)
      BY <1>1 DEF sqfs_open_refused, OwnsFd, Opening, Closing
    <2> QED
      BY <1>1, <2>1, QuietReturn, Untouched DEF sqfs_open_refused
  <1>2. ASSUME sqfs_open_convert(t) PROVE DescInv'
    <2>1. ~OwnsFd(t)
      BY <1>2 DEF sqfs_open_convert, OwnsFd, Opening, Closing
    <2> QED
      BY <1>2, <2>1, QuietGoto DEF sqfs_open_convert
  <1>3. ASSUME sqfs_open_lock(t) PROVE DescInv'
    <2>1. ~OwnsFd(t)
      BY <1>3 DEF sqfs_open_lock, OwnsFd, Opening, Closing
    <2> QED
      BY <1>3, <2>1, QuietGoto DEF sqfs_open_lock
  <1>4. ASSUME sqfs_open_malloc_fails(t) PROVE DescInv'
    <2>1. LocalTo(t) /\ pc'[t] = "open_undo" /\ call'[t] = call[t]
      BY <1>4, GotoLocal DEF sqfs_open_malloc_fails
    <2>2. Opening(t) /\ OwnsFd(t)' /\ ~InLibraryRead(t)' /\ ~Closing(t)'
      BY <1>4, <2>1 DEF sqfs_open_malloc_fails, OwnsFd, Opening, Closing, InLibraryRead
    <2> QED
      BY <1>4, <2>1, <2>2, QuietStep, Untouched DEF sqfs_open_malloc_fails
  <1>5. ASSUME sqfs_open_fails(t) PROVE DescInv'
    <2>1. ~OwnsFd(t)
      BY <1>5 DEF sqfs_open_fails, OwnsFd, Opening, Closing
    <2> QED
      BY <1>5, <2>1, QuietReturn, Untouched DEF sqfs_open_fails
  <1>6. ASSUME image_pread_lock(t) PROVE DescInv'
    <2>1. ~OwnsFd(t) /\ (pc[t] = "io" => InLibraryRead(t))
      BY <1>6 DEF image_pread_lock, OwnsFd, Opening, Closing, InLibraryRead
    <2> QED
      BY <1>6, <2>1, QuietGoto DEF image_pread_lock
  <1>7. ASSUME image_pread_miss(t) PROVE DescInv'
    <2>1. ~OwnsFd(t) /\ (pc[t] = "io_nest" => InLibraryRead(t))
      BY <1>7 DEF image_pread_miss, OwnsFd, Opening, Closing, InLibraryRead
    <2> QED
      BY <1>7, <2>1, QuietGoto DEF image_pread_miss
  <1>9. ASSUME find_miss(t) PROVE DescInv'
    <2>1. LocalTo(t) /\ pc'[t] = "real" /\ call'[t] = call[t]
      BY <1>9, GotoLocal DEF find_miss
    <2>2. ~OwnsFd(t) /\ ~Opening(t)' /\ (Closing(t)' => Closing(t)) /\ ~InLibraryRead(t)'
      BY <1>9, <2>1 DEF find_miss, OwnsFd, Opening, Closing, InLibraryRead
    <2> QED
      BY <1>9, <2>1, <2>2, QuietStep, Untouched DEF find_miss
  <1>10. ASSUME pread_negative(t) PROVE DescInv'
    <2>1. ~OwnsFd(t)
      BY <1>10 DEF pread_negative, OwnsFd, Opening, Closing
    <2> QED
      BY <1>10, <2>1, QuietReturn, Untouched DEF pread_negative
  <1>8. ASSUME real_fails(t) PROVE DescInv'
    <2>1. ~OwnsFd(t)
      BY <1>8 DEF real_fails, OwnsFd, Opening, Closing
    <2> QED
      BY <1>8, <2>1, QuietReturn, Untouched DEF real_fails
  <1>11. ASSUME read_fails(t) PROVE DescInv'
    <2>1. ~OwnsFd(t)
      BY <1>11 DEF read_fails, OwnsFd, Opening, Closing
    <2> QED
      BY <1>11, <2>1, QuietReturn, Untouched DEF read_fails
  <1>12. ASSUME NEW e \in fd_map, read_hit(t, e) PROVE DescInv'
    <2>1. LocalTo(t) /\ pc'[t] \in {"io", "io_done"} /\ call'[t] = call[t] /\ found'[t] = e.gen
      BY <1>12 DEF read_hit, Goto, LocalTo, TypeOK
    <2>2. e.key = call[t].fd
      BY <1>12 DEF read_hit, HASH_FIND_INT
    <2>3. ~OwnsFd(t) /\ ~Opening(t)' /\ ~Closing(t)'
      BY <1>12, <2>1 DEF read_hit, OwnsFd, Opening, Closing
    <2> QED
      BY <1>12, <2>1, <2>2, <2>3, QuietStep, Untouched DEF read_hit
  <1> QED
    BY <1>1, <1>2, <1>3, <1>4, <1>5, <1>6, <1>7, <1>8, <1>9, <1>10, <1>11, <1>12

(* Moving the position of an fd_map entry (read, lseek) is quiet.          *)
LEMMA EntryMoves ==
  ASSUME DescInv, NEW e \in fd_map, NEW o,
         fd_map' = (fd_map \ {e}) \cup {EntryAt(e, o)}, UNCHANGED <<kfd, opens, held>>
  PROVE  Quiet
  <1>1. SameEntry(e, EntryAt(e, o))
    BY DEF SameEntry, EntryAt
  <1>2. \A f \in fd_map : f # e => f.key # e.key
    BY DEF DescInv, MapInv
  <1>3. MapInv'
    BY <1>1, <1>2 DEF DescInv, MapInv, SameEntry
  <1> QED
    BY <1>1, <1>3 DEF Quiet, SameEntry

(* Moving the position of a real file is quiet.                            *)
LEMMA DescMoves ==
  ASSUME TypeOK, DescInv, NEW fd \in Fds, NEW o,
         kfd' = [kfd EXCEPT ![fd] = DescAt(kfd[fd], o)], UNCHANGED <<fd_map, opens, held>>
  PROVE  Quiet
  <1>1. \A f \in Fds : kfd'[f].obj = kfd[f].obj /\ kfd'[f].gen = kfd[f].gen
    BY DEF TypeOK, DescAt
  <1> QED
    BY <1>1 DEF DescInv, Quiet, MapInv, SameEntry

(* The steps that move a position and return.                              *)
LEMMA MoveActions ==
  ASSUME TypeOK, TypeOK', DescInv, NEW t \in Threads
  PROVE  /\ \A e \in fd_map : read_done(t, e) => DescInv'
         /\ \A e \in fd_map : lseek_hit(t, e) => DescInv'
         /\ real_read(t) => DescInv'
         /\ real_lseek(t) => DescInv'
  <1>1. ASSUME NEW e \in fd_map, read_done(t, e) PROVE DescInv'
    <2>1. ~OwnsFd(t)
      BY <1>1 DEF read_done, OwnsFd, Opening, Closing
    <2>2. Quiet
      BY <1>1, EntryMoves, Untouched DEF read_done
    <2> QED
      BY <1>1, <2>1, <2>2, QuietReturn DEF read_done
  <1>2. ASSUME NEW e \in fd_map, lseek_hit(t, e) PROVE DescInv'
    <2>1. ~OwnsFd(t)
      BY <1>2 DEF lseek_hit, OwnsFd, Opening, Closing
    <2>2. Quiet
      BY <1>2, EntryMoves, Untouched DEF lseek_hit
    <2>3. \E r : Return(t, r)
      BY <1>2 DEF lseek_hit
    <2> QED
      BY <2>1, <2>2, <2>3, QuietReturn
  <1>3. ASSUME real_read(t) PROVE DescInv'
    <2>1. ~OwnsFd(t)
      BY <1>3 DEF real_read, OwnsFd, Opening, Closing
    <2>2. Quiet
      <3>1. \/ UNCHANGED kfd
            \/ \E o : kfd' = [kfd EXCEPT ![call[t].fd] = DescAt(kfd[call[t].fd], o)]
        BY <1>3 DEF real_read
      <3>2. call[t].fd \in Fds /\ UNCHANGED <<fd_map, opens, held>>
        BY <1>3, DescTypes DEF real_read
      <3> QED
        BY <3>1, <3>2, DescMoves, Untouched
    <2>3. \E r : Return(t, r)
      BY <1>3 DEF real_read
    <2> QED
      BY <2>1, <2>2, <2>3, QuietReturn
  <1>4. ASSUME real_lseek(t) PROVE DescInv'
    <2>1. ~OwnsFd(t)
      BY <1>4 DEF real_lseek, OwnsFd, Opening, Closing
    <2>2. Quiet
      <3>1. \/ UNCHANGED kfd
            \/ \E o : kfd' = [kfd EXCEPT ![call[t].fd] = DescAt(kfd[call[t].fd], o)]
        BY <1>4 DEF real_lseek
      <3>2. call[t].fd \in Fds /\ UNCHANGED <<fd_map, opens, held>>
        BY <1>4, DescTypes DEF real_lseek
      <3> QED
        BY <3>1, <3>2, DescMoves, Untouched
    <2>3. \E r : Return(t, r)
      BY <1>4 DEF real_lseek
    <2> QED
      BY <2>1, <2>2, <2>3, QuietReturn
  <1> QED
    BY <1>1, <1>2, <1>3, <1>4

(* call_close: the descriptor passes from the application to the closing   *)
(* thread.                                                                 *)
LEMMA CallCloseStep ==
  ASSUME TypeOK, DescInv, NEW t \in Threads, NEW h \in held, call_close(t, h)
  PROVE  DescInv'
  <1>1. /\ LocalTo(t) /\ pc'[t] = "lock" /\ pc[t] = "app"
        /\ call'[t].op = "close" /\ call'[t].fd = h.fd /\ call'[t].gen = h.gen
        /\ UNCHANGED <<kfd, fd_map, opens>> /\ held' = held \ {h}
    BY DEF call_close, Invoke, Goto, LocalTo, TypeOK
  <1>2. /\ ~Opening(t)' /\ ~Opening(t) /\ ~Closing(t) /\ Closing(t)' /\ ~InLibraryRead(t)'
        /\ \A u \in Threads \ {t} : Opening(u)' = Opening(u) /\ Closing(u)' = Closing(u)
    BY <1>1 DEF Opening, Closing, InLibraryRead, LocalTo
  <1>3. Alive(h.fd, h.gen) /\ h.gen <= opens /\ \A g \in held' : g \in held /\ g.fd # h.fd
    BY <1>1, DescTypes DEF DescInv, HeldInv, KernelInv, Alive
  <1>4. KernelInv'
    BY <1>1, <1>3, DescTypes DEF DescInv, LocalTo, KernelInv, IsOpen
  <1>5. NoStaleEntry' /\ MapInv'
    BY <1>1 DEF DescInv, NoStaleEntry, MapInv
  <1>6. HeldInv'
    BY <1>1 DEF DescInv, HeldInv, Alive, IsOpen
  <1>7. OpeningInv'
    <2> SUFFICES ASSUME NEW u \in Threads, Opening(u)' PROVE SoleOpener(u)'
      BY DEF OpeningInv
    <2>1. u # t /\ Opening(u) /\ call'[u] = call[u]
      BY <1>1, <1>2 DEF LocalTo
    <2>2. SoleOpener(u)
      BY <2>1 DEF DescInv, OpeningInv
    <2>3. h.gen # call[u].gen
      BY <1>3, <2>2, DescTypes DEF DescInv, KernelInv, SoleOpener, Alive
    <2> QED
      BY <1>1, <2>1, <2>2, <2>3 DEF LocalTo, SoleOpener, Alive, IsOpen
  <1>8. ClosingInv'
    <2> SUFFICES ASSUME NEW u \in Threads, Closing(u)' PROVE SoleCloser(u)'
      BY DEF ClosingInv
    <2>1. CASE u = t
      <3>1. \A v \in Threads \ {t} : Closing(v)' => call'[v].fd # h.fd
        BY <1>1, <1>2 DEF DescInv, ClosingInv, SoleCloser, LocalTo
      <3> QED
        BY <1>1, <1>3, <2>1, <3>1 DEF SoleCloser, Alive, IsOpen
    <2>2. CASE u # t
      <3>1. Closing(u) /\ call'[u] = call[u] /\ pc'[u] = pc[u]
        BY <1>1, <1>2, <2>2 DEF LocalTo
      <3>2. SoleCloser(u)
        BY <3>1 DEF DescInv, ClosingInv
      <3>3. \A v \in Threads \ {u} : Closing(v)' => call'[v].fd # call[u].fd
        BY <1>1, <1>2, <3>2 DEF SoleCloser, LocalTo
      <3> QED
        BY <1>1, <3>1, <3>2, <3>3 DEF SoleCloser, Alive, IsOpen
    <2> QED
      BY <2>1, <2>2
  <1>9. MissInv'
    BY <1>1 DEF DescInv, MissInv, LocalTo
  <1>10. NoUseAfterFree'
    BY <1>1, <1>2 DEF DescInv, NoUseAfterFree, InLibraryRead, LocalTo
  <1>11. NoFdLeak'
    BY <1>1 DEF DescInv, NoFdLeak, LocalTo
  <1> QED
    BY <1>4, <1>5, <1>6, <1>7, <1>8, <1>9, <1>10, <1>11 DEF DescInv

(* A fresh descriptor is not one that anybody has.                         *)
LEMMA Fresh ==
  ASSUME TypeOK, DescInv, NEW fd \in Fds, NEW obj, CreateFd(fd, obj),
         obj # None
  PROVE  /\ ~IsOpen(fd) /\ fd # ImageFd
         /\ opens' = opens + 1 /\ kfd' \in [Fds -> KDesc \cup {Closed}
                                                 \cup {[obj |-> obj, gen |-> opens + 1, off |-> 0]}]
         /\ kfd'[fd].obj = obj /\ kfd'[fd].gen = opens + 1
         /\ \A f \in Fds \ {fd} : kfd'[f] = kfd[f]
         /\ \A e \in fd_map : e.key # fd
         /\ \A h \in held : h.fd # fd /\ h.gen # opens + 1
         /\ \A u \in Threads : call[u].gen # opens + 1
         /\ \A u \in Threads : Opening(u) \/ Closing(u) => call[u].fd # fd
  <1>1. ~IsOpen(fd)
    BY DEF CreateFd, LowestFree
  <1>2. fd # ImageFd
    BY <1>1, FdMapAssumption DEF DescInv, KernelInv, IsOpen
  <1>3. \A e \in fd_map : e.key # fd
    BY <1>1, FdMapAssumption DEF DescInv, NoStaleEntry, IsOpen
  <1>4. \A h \in held : h.fd # fd /\ h.gen # opens + 1
    BY <1>1, DescTypes DEF DescInv, HeldInv, KernelInv, Alive
  <1>5. \A u \in Threads : call[u].gen # opens + 1
    BY DescTypes DEF DescInv, KernelInv
  <1>6. \A u \in Threads : Opening(u) \/ Closing(u) => call[u].fd # fd
    BY <1>1 DEF DescInv, OpeningInv, ClosingInv, SoleOpener, SoleCloser, Alive
  <1>7. /\ kfd' \in [Fds -> KDesc \cup {Closed} \cup {[obj |-> obj, gen |-> opens + 1, off |-> 0]}]
        /\ kfd'[fd].obj = obj /\ kfd'[fd].gen = opens + 1 /\ opens' = opens + 1
        /\ \A f \in Fds \ {fd} : kfd'[f] = kfd[f]
    BY DEF CreateFd, TypeOK
  <1> QED
    BY <1>1, <1>2, <1>3, <1>4, <1>5, <1>6, <1>7

(* What a fresh descriptor keeps, whoever gets it.                         *)
LEMMA FreshKeeps ==
  ASSUME TypeOK, DescInv, NEW t \in Threads, NEW fd \in Fds, NEW obj, CreateFd(fd, obj),
         obj # None, LocalTo(t), UNCHANGED fd_map,
         call'[t].gen <= opens + 1, call'[t].gen \in Nat
  PROVE  KernelInv' /\ NoStaleEntry' /\ MapInv'
  <1>1. KernelInv'
    <2>1. kfd'[ImageFd].obj = Image /\ kfd'[ImageFd].gen = 0
      BY Fresh, DescTypes DEF DescInv, KernelInv
    <2>2. \A f \in Fds : kfd'[f].gen <= opens'
      BY Fresh, DescTypes DEF DescInv, KernelInv
    <2>3. \A f1, f2 \in Fds : IsOpen(f1)' /\ IsOpen(f2)' /\ kfd'[f1].gen = kfd'[f2].gen
                              => f1 = f2
      BY Fresh, DescTypes DEF DescInv, KernelInv, IsOpen
    <2>4. \A u \in Threads : call'[u].gen <= opens'
      BY Fresh, DescTypes DEF DescInv, KernelInv, LocalTo
    <2> QED
      BY <2>1, <2>2, <2>3, <2>4 DEF KernelInv
  <1>2. NoStaleEntry'
    BY Fresh, DescTypes DEF DescInv, NoStaleEntry
  <1>3. MapInv'
    BY DEF DescInv, MapInv
  <1> QED
    BY <1>1, <1>2, <1>3

(* sqfs_open of a real file.                                               *)
LEMMA OpenRealStep ==
  ASSUME TypeOK, DescInv, NEW t \in Threads, NEW fd \in Fds, NEW r \in RealFiles,
         sqfs_open_real(t, fd, r)
  PROVE  DescInv'
  <1> DEFINE new == [fd |-> fd, gen |-> opens + 1, file |-> r]
  <1>0. r # None /\ r # Backing
    BY FdMapAssumption DEF Files
  <1>1. CreateFd(fd, r) /\ LocalTo(t) /\ pc'[t] = "app" /\ call'[t] = NoCall /\ pc[t] = "open_real"
        /\ fd_map' = fd_map /\ held' = held \cup {new}
    BY ReturnLocal DEF sqfs_open_real
  <1>2. /\ ~IsOpen(fd) /\ opens' = opens + 1
        /\ kfd'[fd].obj = r /\ kfd'[fd].gen = opens + 1
        /\ \A f \in Fds \ {fd} : kfd'[f] = kfd[f]
        /\ \A e \in fd_map : e.key # fd
        /\ \A h \in held : h.fd # fd /\ h.gen # opens + 1
        /\ \A u \in Threads : call[u].gen # opens + 1
        /\ \A u \in Threads : Opening(u) \/ Closing(u) => call[u].fd # fd
    BY <1>0, <1>1, Fresh
  <1>3. /\ ~Opening(t)' /\ ~Closing(t)' /\ ~InLibraryRead(t)'
        /\ \A u \in Threads \ {t} : Opening(u)' = Opening(u) /\ Closing(u)' = Closing(u)
    BY <1>1 DEF Opening, Closing, InLibraryRead, LocalTo
  <1>4. KernelInv' /\ NoStaleEntry' /\ MapInv'
    <2>1. call'[t].gen = 0
      BY <1>1 DEF NoCall
    <2> QED
      BY <1>0, <1>1, <2>1, FreshKeeps, DescTypes
  <1>5. HeldInv'
    <2>1. opens + 1 > 0 /\ kfd'[fd].obj # None /\ kfd'[fd].gen = opens + 1
      BY <1>0, <1>2, DescTypes
    <2>2. \A h \in held' : Alive(h.fd, h.gen)'
      BY <1>1, <1>2, <2>1, DescTypes DEF DescInv, HeldInv, Alive, IsOpen
    <2>3. \A h1, h2 \in held' : h1.fd = h2.fd => h1 = h2
      BY <1>1, <1>2 DEF DescInv, HeldInv
    <2>4. \A h \in held' : \/ h.file \in RealFiles /\ kfd'[h.fd].obj = h.file
                           \/ \E e \in fd_map' : e.key = h.fd /\ e.inode = h.file
      BY <1>1, <1>2, DescTypes DEF DescInv, HeldInv
    <2> QED
      BY <2>2, <2>3, <2>4 DEF HeldInv
  <1>6. OpeningInv'
    <2> SUFFICES ASSUME NEW u \in Threads, Opening(u)' PROVE SoleOpener(u)'
      BY DEF OpeningInv
    <2>1. u # t /\ Opening(u) /\ call'[u] = call[u] /\ SoleOpener(u)
      BY <1>1, <1>3 DEF DescInv, OpeningInv, LocalTo
    <2>2. \A v \in Threads \ {u} : call'[v].gen # call[u].gen
      BY <1>1, <2>1 DEF SoleOpener, LocalTo, Alive, NoCall
    <2> QED
      BY <1>1, <1>2, <2>1, <2>2, DescTypes DEF SoleOpener, Alive, IsOpen
  <1>7. ClosingInv'
    <2> SUFFICES ASSUME NEW u \in Threads, Closing(u)' PROVE SoleCloser(u)'
      BY DEF ClosingInv
    <2>1. u # t /\ Closing(u) /\ call'[u] = call[u] /\ pc'[u] = pc[u] /\ SoleCloser(u)
      BY <1>1, <1>3 DEF DescInv, ClosingInv, LocalTo
    <2>2. \A v \in Threads \ {u} : Closing(v)' => call'[v].fd # call[u].fd
      BY <1>1, <1>3, <2>1 DEF SoleCloser, LocalTo
    <2> QED
      BY <1>1, <1>2, <2>1, <2>2, DescTypes DEF SoleCloser, Alive, IsOpen
  <1>8. MissInv'
    BY <1>1, <1>2 DEF DescInv, MissInv, LocalTo
  <1>9. NoUseAfterFree'
    BY <1>1, <1>3 DEF DescInv, NoUseAfterFree, InLibraryRead, LocalTo
  <1>10. NoFdLeak'
    BY <1>0, <1>1, <1>2 DEF DescInv, NoFdLeak, LocalTo
  <1> QED
    BY <1>4, <1>5, <1>6, <1>7, <1>8, <1>9, <1>10 DEF DescInv

(* create_backing_fd: the opening thread becomes the owner of the number.  *)
LEMMA BackingStep ==
  ASSUME TypeOK, MutexInv, DescInv, NEW t \in Threads, NEW fd \in Fds, NEW i \in Inodes,
         create_backing_fd(t, fd, i)
  PROVE  DescInv'
  <1>0. Backing # None
    BY FdMapAssumption
  <1>1. /\ CreateFd(fd, Backing) /\ LocalTo(t)
        /\ pc[t] = "open_found" /\ pc'[t] = "open_add"
        /\ call'[t].op = "open" /\ call'[t].fd = fd /\ call'[t].gen = opens + 1
        /\ call'[t].file = i /\ fd_map' = fd_map /\ held' = held
    BY DEF create_backing_fd, Goto, LocalTo, TypeOK
  <1>2. /\ ~IsOpen(fd) /\ opens' = opens + 1
        /\ kfd'[fd].obj = Backing /\ kfd'[fd].gen = opens + 1
        /\ \A f \in Fds \ {fd} : kfd'[f] = kfd[f]
        /\ \A e \in fd_map : e.key # fd
        /\ \A h \in held : h.fd # fd /\ h.gen # opens + 1
        /\ \A u \in Threads : call[u].gen # opens + 1
        /\ \A u \in Threads : Opening(u) \/ Closing(u) => call[u].fd # fd
    BY <1>0, <1>1, Fresh
  <1>3. /\ Opening(t)' /\ ~Closing(t)' /\ ~InLibraryRead(t)'
        /\ \A u \in Threads \ {t} : Opening(u)' = Opening(u) /\ Closing(u)' = Closing(u)
    BY <1>1 DEF Opening, Closing, InLibraryRead, LocalTo
  <1>4. KernelInv' /\ NoStaleEntry' /\ MapInv'
    BY <1>0, <1>1, FreshKeeps, DescTypes
  <1>5. HeldInv'
    BY <1>1, <1>2, DescTypes DEF DescInv, HeldInv, Alive, IsOpen
  <1>6. OpeningInv'
    <2> SUFFICES ASSUME NEW u \in Threads, Opening(u)' PROVE SoleOpener(u)'
      BY DEF OpeningInv
    <2>1. CASE u = t
      <3>1. \A v \in Threads \ {t} : call'[v].gen # opens + 1
        BY <1>1, <1>2 DEF LocalTo
      <3> QED
        BY <1>0, <1>1, <1>2, <2>1, <3>1, DescTypes DEF SoleOpener, Alive, IsOpen
    <2>2. CASE u # t
      <3>1. Opening(u)
        BY <1>3, <2>2
      <3> QED
        BY <1>1, <2>2, <3>1 DEF Opening, MutexInv, MutexPCs
    <2> QED
      BY <2>1, <2>2
  <1>7. ClosingInv'
    <2> SUFFICES ASSUME NEW u \in Threads, Closing(u)' PROVE SoleCloser(u)'
      BY DEF ClosingInv
    <2>1. u # t /\ Closing(u) /\ call'[u] = call[u] /\ pc'[u] = pc[u] /\ SoleCloser(u)
      BY <1>1, <1>3 DEF DescInv, ClosingInv, LocalTo
    <2>2. \A v \in Threads \ {u} : Closing(v)' => call'[v].fd # call[u].fd
      BY <1>1, <1>3, <2>1 DEF SoleCloser, LocalTo
    <2> QED
      BY <1>1, <1>2, <2>1, <2>2, DescTypes DEF SoleCloser, Alive, IsOpen
  <1>8. MissInv'
    BY <1>1 DEF DescInv, MissInv, LocalTo
  <1>9. NoUseAfterFree'
    BY <1>1, <1>3 DEF DescInv, NoUseAfterFree, InLibraryRead, LocalTo
  <1>10. NoFdLeak'
    BY <1>1, <1>2 DEF DescInv, NoFdLeak, LocalTo
  <1> QED
    BY <1>4, <1>5, <1>6, <1>7, <1>8, <1>9, <1>10 DEF DescInv

(* HASH_ADD_INT: the number passes from the opening thread to the          *)
(* application, with its entry.                                            *)
LEMMA AddStep ==
  ASSUME TypeOK, MutexInv, DescInv, NEW t \in Threads, sqfs_open_add(t)
  PROVE  DescInv'
  <1> DEFINE c == call[t]
             e == [key |-> c.fd, inode |-> c.file, offset |-> 0, gen |-> c.gen]
             h == [fd |-> c.fd, gen |-> c.gen, file |-> c.file]
  <1>1. /\ LocalTo(t) /\ pc[t] = "open_add" /\ pc'[t] = "app" /\ call'[t] = NoCall
        /\ fd_map' = fd_map \cup {e} /\ held' = held \cup {h} /\ UNCHANGED <<kfd, opens>>
    BY ReturnLocal DEF sqfs_open_add
  <1>2. SoleOpener(t)
    BY <1>1 DEF DescInv, OpeningInv, Opening
  <1>3. /\ ~Opening(t)' /\ ~Closing(t)' /\ ~InLibraryRead(t)'
        /\ \A u \in Threads \ {t} : Opening(u)' = Opening(u) /\ Closing(u)' = Closing(u)
    BY <1>1 DEF Opening, Closing, InLibraryRead, LocalTo
  <1>4. e.key = c.fd /\ e.gen = c.gen /\ e.inode = c.file
        /\ h.fd = c.fd /\ h.gen = c.gen /\ h.file = c.file
    OBVIOUS
  <1> HIDE DEF e, h
  <1>5. KernelInv'
    BY <1>1, DescTypes DEF DescInv, KernelInv, LocalTo, IsOpen, NoCall
  <1>6. NoStaleEntry' /\ MapInv'
    BY <1>1, <1>2, <1>4 DEF DescInv, NoStaleEntry, MapInv, SoleOpener, Alive
  <1>7. HeldInv'
    BY <1>1, <1>2, <1>4 DEF DescInv, HeldInv, SoleOpener, Alive, IsOpen
  <1>8. OpeningInv'
    <2> SUFFICES ASSUME NEW u \in Threads, Opening(u)' PROVE FALSE
      BY DEF OpeningInv
    <2>1. u # t /\ Opening(u)
      BY <1>3
    <2> QED
      BY <1>1, <2>1 DEF Opening, MutexInv, MutexPCs
  <1>9. ClosingInv'
    <2> SUFFICES ASSUME NEW u \in Threads, Closing(u)' PROVE SoleCloser(u)'
      BY DEF ClosingInv
    <2>1. u # t /\ Closing(u) /\ call'[u] = call[u] /\ pc'[u] = pc[u] /\ SoleCloser(u)
      BY <1>1, <1>3 DEF DescInv, ClosingInv, LocalTo
    <2>2. c.fd # call[u].fd
      BY <1>2, <2>1 DEF SoleCloser, SoleOpener, Alive
    <2>3. \A v \in Threads \ {u} : Closing(v)' => call'[v].fd # call[u].fd
      BY <1>1, <1>3, <2>1 DEF SoleCloser, LocalTo
    <2> QED
      BY <1>1, <1>4, <2>1, <2>2, <2>3 DEF SoleCloser, Alive, IsOpen
  <1>10. MissInv'
    BY <1>1, <1>2, <1>4 DEF DescInv, MissInv, LocalTo, SoleOpener
  <1>11. NoUseAfterFree'
    BY <1>1, <1>3 DEF DescInv, NoUseAfterFree, InLibraryRead, LocalTo
  <1>12. NoFdLeak'
    BY <1>1, <1>4 DEF DescInv, NoFdLeak, LocalTo
  <1> QED
    BY <1>5, <1>6, <1>7, <1>8, <1>9, <1>10, <1>11, <1>12 DEF DescInv

(* The sole owner of a number gives it back to the kernel.                 *)
LEMMA FreeStep ==
  ASSUME TypeOK, DescInv, NEW t \in Threads, NEW fd \in Fds, fd # ImageFd,
         kfd' = [kfd EXCEPT ![fd] = Closed], UNCHANGED <<fd_map, held, opens>>,
         LocalTo(t), call'[t].gen \in {0, call[t].gen},
         pc'[t] \in {"app", "open_undone"}, OwnsFd(t) => call[t].fd = fd,
         \A e \in fd_map : e.key # fd,
         \A h \in held : h.fd # fd,
         \A u \in Threads \ {t} : Opening(u) \/ Closing(u) => call[u].fd # fd
  PROVE  DescInv'
  <1>1. /\ ~Opening(t)' /\ ~Closing(t)' /\ ~InLibraryRead(t)' /\ pc'[t] # "real"
        /\ \A u \in Threads \ {t} : Opening(u)' = Opening(u) /\ Closing(u)' = Closing(u)
    BY DEF Opening, Closing, InLibraryRead, LocalTo
  <1>2. kfd'[fd].obj = None /\ kfd'[fd].gen = 0 /\ \A f \in Fds \ {fd} : kfd'[f] = kfd[f]
    BY DEF Closed, TypeOK
  <1>3. KernelInv'
    BY <1>2, DescTypes DEF DescInv, KernelInv, IsOpen, LocalTo
  <1>4. NoStaleEntry' /\ MapInv'
    BY <1>2, DescTypes DEF DescInv, NoStaleEntry, MapInv
  <1>5. HeldInv'
    BY <1>2, DescTypes DEF DescInv, HeldInv, Alive, IsOpen
  <1>6. OpeningInv'
    <2> SUFFICES ASSUME NEW u \in Threads, Opening(u)' PROVE SoleOpener(u)'
      BY DEF OpeningInv
    <2>1. u # t /\ Opening(u) /\ call'[u] = call[u] /\ SoleOpener(u) /\ call[u].fd # fd
      BY <1>1 DEF DescInv, OpeningInv, LocalTo
    <2>2. \A v \in Threads \ {u} : call'[v].gen # call[u].gen
      BY <2>1 DEF SoleOpener, LocalTo, Alive
    <2> QED
      BY <1>2, <2>1, <2>2, DescTypes DEF SoleOpener, Alive, IsOpen
  <1>7. ClosingInv'
    <2> SUFFICES ASSUME NEW u \in Threads, Closing(u)' PROVE SoleCloser(u)'
      BY DEF ClosingInv
    <2>1. /\ u # t /\ Closing(u) /\ call'[u] = call[u] /\ pc'[u] = pc[u] /\ SoleCloser(u)
          /\ call[u].fd # fd
      BY <1>1 DEF DescInv, ClosingInv, LocalTo
    <2>2. \A v \in Threads \ {u} : Closing(v)' => call'[v].fd # call[u].fd
      BY <1>1, <2>1 DEF SoleCloser, LocalTo
    <2> QED
      BY <1>2, <2>1, <2>2, DescTypes DEF SoleCloser, Alive, IsOpen
  <1>8. MissInv'
    BY <1>1 DEF DescInv, MissInv, LocalTo
  <1>9. NoUseAfterFree'
    BY <1>1 DEF DescInv, NoUseAfterFree, InLibraryRead, LocalTo
  <1>10. NoFdLeak'
    <2> SUFFICES ASSUME NEW f \in Fds, kfd'[f].obj = Backing
                 PROVE  \/ \E e \in fd_map' : e.key = f
                        \/ \E u \in Threads :
                             /\ call'[u].fd = f /\ call'[u].gen = kfd'[f].gen
                             /\ \/ pc'[u] \in {"open_add", "open_undo"}
                                \/ pc'[u] = "real" /\ call'[u].op = "close"
      BY DEF NoFdLeak
    <2>1. f # fd /\ kfd'[f] = kfd[f]
      BY <1>2, FdMapAssumption
    <2>2. CASE \E e \in fd_map : e.key = f
      BY <2>2
    <2>3. ASSUME NEW u \in Threads, call[u].fd = f, call[u].gen = kfd[f].gen,
                 \/ pc[u] \in {"open_add", "open_undo"}
                 \/ pc[u] = "real" /\ call[u].op = "close"
          PROVE  \E v \in Threads :
                             /\ call'[v].fd = f /\ call'[v].gen = kfd'[f].gen
                             /\ \/ pc'[v] \in {"open_add", "open_undo"}
                                \/ pc'[v] = "real" /\ call'[v].op = "close"
      <3>1. u # t
        BY <2>1, <2>3 DEF OwnsFd, Opening, Closing
      <3> QED
        BY <2>1, <2>3, <3>1 DEF LocalTo
    <2> QED
      BY <2>1, <2>2, <2>3 DEF DescInv, NoFdLeak
  <1> QED
    BY <1>3, <1>4, <1>5, <1>6, <1>7, <1>8, <1>9, <1>10 DEF DescInv

(* An opener and a closer never mean the same number.                      *)
LEMMA Exclusive ==
  ASSUME MutexInv, DescInv, NEW t \in Threads, NEW u \in Threads \ {t},
         Opening(t) \/ Closing(t), Opening(u) \/ Closing(u)
  PROVE  call[u].fd # call[t].fd
  <1>1. CASE Opening(t) /\ Opening(u)
    BY <1>1 DEF MutexInv, Opening, MutexPCs
  <1>2. CASE Opening(t) /\ Closing(u)
    BY <1>2 DEF DescInv, OpeningInv, ClosingInv, SoleOpener, SoleCloser, Alive
  <1>3. CASE Closing(t) /\ Opening(u)
    BY <1>3 DEF DescInv, OpeningInv, ClosingInv, SoleOpener, SoleCloser, Alive
  <1>4. CASE Closing(t) /\ Closing(u)
    BY <1>4 DEF DescInv, ClosingInv, SoleCloser
  <1> QED
    BY <1>1, <1>2, <1>3, <1>4

(* error_and_free_fd.                                                      *)
LEMMA UndoStep ==
  ASSUME TypeOK, MutexInv, DescInv, NEW t \in Threads, sqfs_open_undo(t)
  PROVE  DescInv'
  <1>1. /\ LocalTo(t) /\ pc'[t] = "open_undone" /\ call'[t] = call[t]
        /\ kfd' = [kfd EXCEPT ![call[t].fd] = Closed] /\ UNCHANGED <<fd_map, held, opens>>
    BY GotoLocal DEF sqfs_open_undo
  <1>2. Opening(t) /\ SoleOpener(t) /\ call[t].fd \in Fds
    BY DescTypes DEF sqfs_open_undo, Opening, DescInv, OpeningInv
  <1>3. call[t].fd # ImageFd
    BY <1>2 DEF DescInv, KernelInv, SoleOpener, Alive
  <1> QED
    BY <1>1, <1>2, <1>3, FreeStep, Exclusive DEF SoleOpener

(* real_close, after HASH_DEL or for a descriptor that was never mapped.   *)
LEMMA RealCloseStep ==
  ASSUME TypeOK, MutexInv, DescInv, NEW t \in Threads, real_close(t)
  PROVE  DescInv'
  <1>1. /\ LocalTo(t) /\ pc'[t] = "app" /\ call'[t] = NoCall
        /\ kfd' = [kfd EXCEPT ![call[t].fd] = Closed] /\ UNCHANGED <<fd_map, held, opens>>
    BY ReturnLocal DEF real_close
  <1>2. Closing(t) /\ pc[t] = "real" /\ SoleCloser(t) /\ call[t].fd \in Fds
    BY DescTypes DEF real_close, Closing, DescInv, ClosingInv
  <1>3. call[t].fd # ImageFd /\ call'[t].gen = 0
    BY <1>1, <1>2 DEF DescInv, KernelInv, SoleCloser, Alive, NoCall
  <1> QED
    BY <1>1, <1>2, <1>3, FreeStep, Exclusive DEF SoleCloser

(* HASH_DEL: the entry disappears while the number is still taken.         *)
LEMMA CloseHitStep ==
  ASSUME TypeOK, MutexInv, DescInv, NEW t \in Threads, NEW e \in fd_map, close_hit(t, e)
  PROVE  DescInv'
  <1>1. /\ LocalTo(t) /\ pc'[t] = "real" /\ call'[t] = call[t] /\ pc[t] = "lock"
        /\ call[t].op = "close" /\ e.key = call[t].fd /\ owner = None
        /\ fd_map' = fd_map \ {e} /\ UNCHANGED <<kfd, held, opens>>
    BY GotoLocal DEF close_hit, Critical, HASH_FIND_INT
  <1>2. /\ Closing(t) /\ Closing(t)' /\ ~Opening(t) /\ ~Opening(t)' /\ ~InLibraryRead(t)'
        /\ \A u \in Threads \ {t} : Opening(u)' = Opening(u) /\ Closing(u)' = Closing(u)
    BY <1>1 DEF Opening, Closing, InLibraryRead, LocalTo
  <1>3. SoleCloser(t)
    BY <1>2 DEF DescInv, ClosingInv
  <1>4. \A f \in fd_map' : f \in fd_map /\ f.key # call[t].fd
    BY <1>1 DEF DescInv, MapInv
  <1>5. KernelInv' /\ NoStaleEntry' /\ MapInv'
    BY <1>1, <1>4 DEF DescInv, KernelInv, NoStaleEntry, MapInv, LocalTo, IsOpen
  <1>6. HeldInv'
    BY <1>1, <1>3 DEF DescInv, HeldInv, SoleCloser, Alive, IsOpen
  <1>7. OpeningInv'
    <2> SUFFICES ASSUME NEW u \in Threads, Opening(u)' PROVE SoleOpener(u)'
      BY DEF OpeningInv
    <2>1. u # t /\ Opening(u) /\ call'[u] = call[u] /\ SoleOpener(u)
      BY <1>1, <1>2 DEF DescInv, OpeningInv, LocalTo
    <2> QED
      BY <1>1, <1>4, <2>1 DEF SoleOpener, LocalTo, Alive, IsOpen
  <1>8. ClosingInv'
    <2> SUFFICES ASSUME NEW u \in Threads, Closing(u)' PROVE SoleCloser(u)'
      BY DEF ClosingInv
    <2>1. Closing(u) /\ call'[u] = call[u] /\ SoleCloser(u)
      BY <1>1, <1>2 DEF DescInv, ClosingInv, LocalTo
    <2>2. pc'[u] = "real" => \A f \in fd_map' : f.key # call[u].fd
      BY <1>1, <1>4, <2>1 DEF SoleCloser, LocalTo
    <2>3. \A v \in Threads \ {u} : Closing(v)' => call'[v].fd # call[u].fd
      BY <1>1, <1>2, <2>1 DEF SoleCloser, LocalTo
    <2> QED
      BY <1>1, <2>1, <2>2, <2>3 DEF SoleCloser, Alive, IsOpen
  <1>9. MissInv'
    BY <1>1, <1>3 DEF DescInv, MissInv, LocalTo, SoleCloser
  <1>10. NoUseAfterFree'
    <2> SUFFICES ASSUME NEW u \in Threads, InLibraryRead(u)' PROVE FALSE
      BY DEF NoUseAfterFree
    <2>1. u # t /\ pc[u] \in MutexPCs
      BY <1>1, <1>2 DEF InLibraryRead, LocalTo, MutexPCs
    <2> QED
      BY <1>1, <2>1, FdMapAssumption DEF MutexInv
  <1>11. NoFdLeak'
    <2> SUFFICES ASSUME NEW f \in Fds, kfd'[f].obj = Backing
                 PROVE  \/ \E g \in fd_map' : g.key = f
                        \/ \E u \in Threads :
                             /\ call'[u].fd = f /\ call'[u].gen = kfd'[f].gen
                             /\ \/ pc'[u] \in {"open_add", "open_undo"}
                                \/ pc'[u] = "real" /\ call'[u].op = "close"
      BY DEF NoFdLeak
    <2>1. CASE f = call[t].fd
      BY <1>1, <1>3, <2>1 DEF SoleCloser, Alive
    <2>2. CASE f # call[t].fd
      BY <1>1, <2>2 DEF DescInv, NoFdLeak, LocalTo
    <2> QED
      BY <2>1, <2>2
  <1> QED
    BY <1>5, <1>6, <1>7, <1>8, <1>9, <1>10, <1>11 DEF DescInv

-----------------------------------------------------------------------------
(* Where a thread is: a step moves the thread that takes it and no other,  *)
(* and only call_open leads to the real open.                              *)
LEMMA StepLocal ==
  ASSUME TypeOK, NEW t \in Threads, Calls(t) \/ Step(t), NEW u \in Threads \ {t}
  PROVE  pc'[u] = pc[u] /\ call'[u] = call[u]
  <1>1. CASE Calls(t)
    BY <1>1 DEF TypeOK, Calls, call_open, call_read, call_close, call_pread, call_lseek,
                Invoke, Goto
  <1>2. ASSUME NEW label, Goto(t, label), UNCHANGED call
        PROVE  pc'[u] = pc[u] /\ call'[u] = call[u]
    BY <1>2 DEF TypeOK, Goto
  <1>3. ASSUME NEW r, Return(t, r)
        PROVE  pc'[u] = pc[u] /\ call'[u] = call[u]
    BY <1>3 DEF TypeOK, Return, Goto
  <1>4. CASE Step(t)
    <2>1. ASSUME NEW fd \in Fds, NEW i \in Inodes, create_backing_fd(t, fd, i)
          PROVE  pc'[u] = pc[u] /\ call'[u] = call[u]
      BY <2>1 DEF TypeOK, create_backing_fd, Goto
    <2>2. ASSUME NEW e \in fd_map, lseek_hit(t, e)
          PROVE  pc'[u] = pc[u] /\ call'[u] = call[u]
      BY <2>2, <1>3 DEF lseek_hit
    <2>3. ASSUME NEW e \in fd_map, read_hit(t, e) \/ read_done(t, e) \/ close_hit(t, e)
          PROVE  pc'[u] = pc[u] /\ call'[u] = call[u]
      BY <2>3, <1>2, <1>3 DEF read_hit, read_done, close_hit
    <2>4. CASE real_read(t) \/ real_lseek(t) \/ real_close(t)
      BY <2>4, <1>3 DEF real_read, real_lseek, real_close
    <2>5. ASSUME NEW fd \in Fds, NEW r \in RealFiles, sqfs_open_real(t, fd, r)
          PROVE  pc'[u] = pc[u] /\ call'[u] = call[u]
      BY <2>5, <1>3 DEF sqfs_open_real
    <2>6. CASE sqfs_open_refused(t) \/ sqfs_open_convert(t) \/ sqfs_open_lock(t)
      BY <2>6, <1>2, <1>3 DEF sqfs_open_refused, sqfs_open_convert, sqfs_open_lock
    <2>7. CASE \/ sqfs_open_add(t) \/ sqfs_open_malloc_fails(t) \/ sqfs_open_undo(t)
               \/ sqfs_open_fails(t)
      BY <2>7, <1>2, <1>3
         DEF sqfs_open_add, sqfs_open_malloc_fails, sqfs_open_undo, sqfs_open_fails
    <2>8. CASE \/ image_pread_lock(t) \/ image_pread_miss(t)
               \/ find_miss(t) \/ pread_negative(t) \/ read_fails(t) \/ real_fails(t)
      BY <2>8, <1>2, <1>3 DEF image_pread_lock, image_pread_miss, find_miss,
                              pread_negative, read_fails, real_fails
    <2> QED
      BY <1>4, <2>1, <2>2, <2>3, <2>4, <2>5, <2>6, <2>7, <2>8 DEF Step
  <1> QED
    BY <1>1, <1>4

(* Only an open is ever at the real open.                                  *)
LEMMA CallInvStep ==
  ASSUME TypeOK, CallInv, [Next]_vars
  PROVE  CallInv'
  <1>1. CASE UNCHANGED vars
    BY <1>1 DEF vars, CallInv
  <1>2. ASSUME NEW t \in Threads, Calls(t) \/ Step(t)
        PROVE  pc'[t] = "open_real" => call'[t].op = "open"
    <2>1. CASE Calls(t)
      BY <1>2, <2>1 DEF TypeOK, Calls, call_open, call_read, call_close, call_pread, call_lseek,
                Invoke, Goto
    <2>2. ASSUME NEW label, Goto(t, label), label # "open_real"
          PROVE  pc'[t] # "open_real"
      BY <2>2 DEF TypeOK, Goto
    <2>3. ASSUME NEW r, Return(t, r)
          PROVE  pc'[t] # "open_real"
      BY <2>3 DEF TypeOK, Return, Goto
    <2>4. CASE Step(t)
      <3>1. ASSUME NEW fd \in Fds, NEW i \in Inodes, create_backing_fd(t, fd, i)
            PROVE  pc'[t] # "open_real"
        BY <3>1, <2>2 DEF create_backing_fd
      <3>2. ASSUME NEW e \in fd_map, lseek_hit(t, e)
            PROVE  pc'[t] # "open_real"
        BY <3>2, <2>3 DEF lseek_hit
      <3>3. ASSUME NEW e \in fd_map, read_hit(t, e) \/ read_done(t, e) \/ close_hit(t, e)
            PROVE  pc'[t] # "open_real"
        BY <3>3, <2>2, <2>3 DEF read_hit, read_done, close_hit
      <3>4. CASE real_read(t) \/ real_lseek(t) \/ real_close(t)
        BY <3>4, <2>3 DEF real_read, real_lseek, real_close
      <3>5. ASSUME NEW fd \in Fds, NEW r \in RealFiles, sqfs_open_real(t, fd, r)
            PROVE  pc'[t] # "open_real"
        BY <3>5, <2>3 DEF sqfs_open_real
      <3>6. CASE sqfs_open_refused(t) \/ sqfs_open_convert(t) \/ sqfs_open_lock(t)
        BY <3>6, <2>2, <2>3 DEF sqfs_open_refused, sqfs_open_convert, sqfs_open_lock
      <3>7. CASE \/ sqfs_open_add(t) \/ sqfs_open_malloc_fails(t) \/ sqfs_open_undo(t)
                 \/ sqfs_open_fails(t)
        BY <3>7, <2>2, <2>3
           DEF sqfs_open_add, sqfs_open_malloc_fails, sqfs_open_undo, sqfs_open_fails
      <3>8. CASE \/ image_pread_lock(t) \/ image_pread_miss(t)
                 \/ find_miss(t) \/ pread_negative(t) \/ read_fails(t) \/ real_fails(t)
        BY <3>8, <2>2, <2>3 DEF image_pread_lock, image_pread_miss, find_miss,
                                pread_negative, read_fails, real_fails
      <3> QED
        BY <2>4, <3>1, <3>2, <3>3, <3>4, <3>5, <3>6, <3>7, <3>8 DEF Step
    <2> QED
      BY <1>2, <2>1, <2>4
  <1> QED
    BY <1>1, <1>2, StepLocal DEF Next, CallInv

-----------------------------------------------------------------------------
(* IInv is inductive.                                                      *)
LEMMA InitOK == Init => IInv
  <1> SUFFICES ASSUME Init PROVE IInv
    OBVIOUS
  <1>1. [obj |-> Image, gen |-> 0, off |-> 0] \in KDesc
    BY ConstTypes DEF KDesc
  <1>2. TypeOK
    BY <1>1, ConstTypes, RetType, FdMapAssumption DEF Init, TypeOK, PCs
  <1>3. MutexInv /\ CallInv
    BY FdMapAssumption DEF Init, MutexInv, MutexPCs, CallInv
  <1>4. KernelInv
    BY ConstTypes DEF Init, KernelInv, IsOpen, Closed, NoCall
  <1>5. NoStaleEntry /\ MapInv /\ HeldInv /\ MissInv
    BY DEF Init, NoStaleEntry, MapInv, HeldInv, MissInv
  <1>6. OpeningInv /\ ClosingInv /\ NoUseAfterFree
    BY DEF Init, OpeningInv, ClosingInv, NoUseAfterFree, Opening, Closing, InLibraryRead
  <1>7. NoFdLeak
    BY FdMapAssumption DEF Init, NoFdLeak, Closed
  <1> QED
    BY <1>2, <1>3, <1>4, <1>5, <1>6, <1>7 DEF IInv, DescInv

(* Every step keeps descriptors, map and owners in agreement.              *)
LEMMA DescStep ==
  ASSUME TypeOK, TypeOK', MutexInv, DescInv, [Next]_vars
  PROVE  DescInv'
  <1>1. ASSUME NEW t \in Threads, Calls(t) PROVE DescInv'
    BY <1>1, CallStep, CallCloseStep DEF Calls
  <1>2. ASSUME NEW t \in Threads, Step(t) PROVE DescInv'
    BY <1>2, QuietActions, MoveActions, OpenRealStep, BackingStep, AddStep, UndoStep,
       RealCloseStep, CloseHitStep DEF Step
  <1>3. CASE UNCHANGED vars
    BY <1>3 DEF vars, DescInv, KernelInv, NoStaleEntry, MapInv, HeldInv, OpeningInv, ClosingInv,
                MissInv, NoUseAfterFree, NoFdLeak, SoleOpener, SoleCloser, Opening, Closing,
                Alive, IsOpen, InLibraryRead
  <1> QED
    BY <1>1, <1>2, <1>3 DEF Next

(* The invariant is inductive.                                             *)
LEMMA NextOK == IInv /\ [Next]_vars => IInv'
  <1> SUFFICES ASSUME IInv, [Next]_vars PROVE IInv'
    OBVIOUS
  <1>1. TypeOK'
    BY TypeStep DEF IInv, DescInv
  <1>2. MutexInv' /\ CallInv' /\ DescInv'
    BY <1>1, MutexStep, CallInvStep, DescStep DEF IInv
  <1> QED
    BY <1>1, <1>2 DEF IInv

(* The inductive invariant holds in every reachable state.                 *)
THEOREM Invariance == Spec => []IInv
  <1> QED
    BY InitOK, NextOK, PTL DEF Spec

(* Every reachable state is well typed, and in it the recursion count of   *)
(* g_xSqfsMgr.mutex never passes 2.                                        *)
THEOREM TypeCorrect == Spec => []TypeOK
  <1>1. IInv => TypeOK
    BY DEF IInv
  <1> QED
    BY Invariance, <1>1, PTL

(* With every close hooked, fd_map never holds a stale entry, for any      *)
(* number of threads and descriptors.                                      *)
THEOREM NeverStale == Spec => []NoStaleEntry
  <1>1. IInv => NoStaleEntry
    BY DEF IInv, DescInv
  <1> QED
    BY Invariance, <1>1, PTL

(* sqfs_close_impl never frees the entry or inode of a read in progress.   *)
THEOREM NeverFreedInUse == Spec => []NoUseAfterFree
  <1>1. IInv => NoUseAfterFree
    BY DEF IInv, DescInv
  <1> QED
    BY Invariance, <1>1, PTL

(* No path of sqfs_open or sqfs_close_impl loses a backing descriptor.     *)
THEOREM NeverLeaked == Spec => []NoFdLeak
  <1>1. IInv => NoFdLeak
    BY DEF IInv, DescInv
  <1> QED
    BY Invariance, <1>1, PTL

-----------------------------------------------------------------------------
(* What a descriptor the application still has leads to: its own entry of  *)
(* fd_map if there is one, else the real file it was opened on.            *)
LEMMA HandleFile ==
  ASSUME IInv, NEW h \in held
  PROVE  /\ \A e \in fd_map : e.key = h.fd => e.inode = h.file
         /\ h.file \in RealFiles => kfd[h.fd].obj = h.file
  <1>1. CASE h.file \in RealFiles /\ kfd[h.fd].obj = h.file
    BY <1>1, FdMapAssumption DEF IInv, DescInv, NoStaleEntry, Files
  <1>2. CASE \E e \in fd_map : e.key = h.fd /\ e.inode = h.file
    <2>1. h.file \in Inodes
      BY <1>2, DescTypes DEF IInv
    <2> QED
      BY <1>2, <2>1, FdMapAssumption DEF IInv, DescInv, MapInv
  <1> QED
    BY <1>1, <1>2 DEF IInv, DescInv, HeldInv

(* An entry is told apart by its gen.                                      *)
LEMMA GenUnique ==
  ASSUME IInv, NEW e1 \in fd_map, NEW e2 \in fd_map, e1.gen = e2.gen
  PROVE  e1.key = e2.key
  <1>1. e1.key \in Fds /\ e2.key \in Fds
    BY DescTypes DEF IInv
  <1>2. /\ kfd[e1.key].obj = Backing /\ kfd[e2.key].obj = Backing
        /\ kfd[e1.key].gen = kfd[e2.key].gen
    BY DEF IInv, DescInv, NoStaleEntry
  <1>3. IsOpen(e1.key) /\ IsOpen(e2.key)
    BY <1>2, FdMapAssumption DEF IsOpen
  <1> QED
    BY <1>1, <1>2, <1>3 DEF IInv, DescInv, KernelInv

(* What a returning call leaves in ret.                                    *)
LEMMA ReturnSrc ==
  ASSUME TypeOK, NEW t \in Threads, NEW r, Return(t, r)
  PROVE  ret'[t] = r
  BY DEF TypeOK, Return

(* The step by which thread t returns from a read, pread or lseek on a     *)
(* descriptor h the application still has.                                 *)
LEMMA ServedStep ==
  ASSUME IInv, NEW t \in Threads, Step(t), pc'[t] = "app",
         call[t].op \in {"read", "pread", "lseek"},
         NEW h \in held, h.fd = call[t].fd, h.gen = call[t].gen
  PROVE  ret'[t].src \in {h.file, None}
  <1>0. TypeOK /\ NoRet.src = None
    BY DEF IInv, NoRet
  <1>1. ASSUME Return(t, NoRet) PROVE ret'[t].src \in {h.file, None}
    BY <1>0, <1>1, ReturnSrc
  <1>2. ASSUME NEW label, Goto(t, label), label # "app" PROVE FALSE
    BY <1>0, <1>2 DEF Goto, TypeOK
  <1>3. ASSUME NEW fd \in Fds, NEW r \in RealFiles, sqfs_open_real(t, fd, r) PROVE FALSE
    BY <1>3 DEF IInv, CallInv, sqfs_open_real
  <1>4. ASSUME NEW fd \in Fds, NEW i \in Inodes, create_backing_fd(t, fd, i) PROVE FALSE
    BY <1>4, <1>2 DEF create_backing_fd
  <1>5. CASE sqfs_open_add(t)
    BY <1>5 DEF IInv, DescInv, OpeningInv, Opening, SoleOpener, sqfs_open_add
  <1>6. CASE \/ sqfs_open_refused(t) \/ sqfs_open_fails(t) \/ pread_negative(t)
             \/ read_fails(t) \/ real_fails(t) \/ real_close(t)
    BY <1>6, <1>1 DEF sqfs_open_refused, sqfs_open_fails, pread_negative, read_fails,
                      real_fails, real_close
  <1>7. CASE \/ sqfs_open_convert(t) \/ sqfs_open_lock(t) \/ sqfs_open_malloc_fails(t)
             \/ sqfs_open_undo(t) \/ find_miss(t)
    BY <1>7, <1>2 DEF sqfs_open_convert, sqfs_open_lock, sqfs_open_malloc_fails, sqfs_open_undo,
                      find_miss
  <1>8. CASE image_pread_lock(t) \/ image_pread_miss(t)
    BY <1>8, <1>2 DEF image_pread_lock, image_pread_miss
  <1>9. ASSUME NEW e \in fd_map, read_hit(t, e) \/ close_hit(t, e) PROVE FALSE
    BY <1>9, <1>2 DEF read_hit, close_hit
  <1>10. ASSUME NEW e \in fd_map, read_done(t, e) PROVE ret'[t].src \in {h.file, None}
    <2>1. e.key = call[t].fd
      BY <1>10, GenUnique DEF read_done, IInv, DescInv, NoUseAfterFree, InLibraryRead
    <2>2. ret'[t].src = e.inode
      BY <1>0, <1>10, ReturnSrc DEF read_done
    <2> QED
      BY <2>1, <2>2, HandleFile
  <1>11. ASSUME NEW e \in fd_map, lseek_hit(t, e) PROVE ret'[t].src \in {h.file, None}
    <2>1. e.key = call[t].fd
      BY <1>11 DEF lseek_hit, HASH_FIND_INT
    <2>2. ret'[t].src \in {e.inode, None}
      BY <1>0, <1>11, ReturnSrc DEF lseek_hit
    <2> QED
      BY <2>1, <2>2, HandleFile
  <1>12. CASE real_read(t) \/ real_lseek(t)
    <2>1. pc[t] = "real"
      BY <1>12 DEF real_read, real_lseek
    <2>2. kfd[call[t].fd].obj = h.file
      BY <2>1, HandleFile DEF IInv, DescInv, MissInv
    <2>3. ret'[t].src \in {kfd[call[t].fd].obj, None}
      BY <1>0, <1>12, ReturnSrc DEF real_read, real_lseek
    <2> QED
      BY <2>2, <2>3
  <1> QED
    BY <1>3, <1>4, <1>5, <1>6, <1>7, <1>8, <1>9, <1>10, <1>11, <1>12 DEF Step

(* A call returns data of the file its descriptor was opened on, however   *)
(* opens, reads and closes of any number of threads interleave.            *)
THEOREM AlwaysServed == Spec => ServedFromOpenedFile
  <1> DEFINE A == \A t \in Threads :
                    /\ pc[t] # "app" /\ pc'[t] = "app"
                    /\ call[t].op \in {"read", "pread", "lseek"}
                    => \A h \in held : h.fd = call[t].fd /\ h.gen = call[t].gen
                         => ret'[t].src \in {h.file, None}
  <1>1. IInv /\ [Next]_vars => [A]_vars
    <2> SUFFICES ASSUME IInv, Next PROVE A
      OBVIOUS
    <2>1. PICK u \in Threads : Calls(u) \/ Step(u)
      BY DEF Next
    <2> SUFFICES ASSUME NEW t \in Threads, pc[t] # "app", pc'[t] = "app",
                        call[t].op \in {"read", "pread", "lseek"},
                        NEW h \in held, h.fd = call[t].fd, h.gen = call[t].gen
                 PROVE  ret'[t].src \in {h.file, None}
      OBVIOUS
    <2>2. t = u
      BY <2>1, StepLocal DEF IInv
    <2>3. ~Calls(t)
      BY DEF Calls, call_open, call_read, call_close, call_pread, call_lseek, Invoke
    <2> QED
      BY <2>1, <2>2, <2>3, ServedStep
  <1> QED
    BY <1>1, Invariance, PTL DEF Spec, ServedFromOpenedFile

-----------------------------------------------------------------------------
(* FdMap implements OpenFiles: every step of the hooked calls is a step of *)
(* the atomic calls, or one that changes nothing the application can tell. *)

(* The inductive invariant so far says which object a number denotes.      *)
(* That a step has the effect of an atomic call needs more: which call a   *)
(* thread is in, and that what it read before is still true.               *)
OpenPCs == {"open_real", "open_lock", "open_find", "open_nest", "open_found", "open_add",
            "open_undo", "open_undone"}
FdOps   == {"read", "pread", "lseek", "close"}

(* Where a thread is tells what it was called for.                         *)
PcOK(t) ==
  /\ pc[t] = "app" => call[t] = NoCall
  /\ pc[t] \in OpenPCs => call[t].op = "open"
  /\ pc[t] \in {"lock", "real"} => call[t].op \in FdOps
  /\ InLibraryRead(t) => call[t].op \in {"read", "pread"}

(* Only the image's number denotes the image, and a position in an empty   *)
(* backing file can be reported.                                           *)
NumberInv ==
  \A fd \in Fds :
    /\ kfd[fd].obj = Image => fd = ImageFd
    /\ kfd[fd].obj = Backing => kfd[fd].off <= I64_MAX

(* The life of a number that a call names is over, or it is still the life *)
(* of that number; a call that missed fd_map is not about a mapped life.   *)
LifeOK(t) ==
  call[t].op \in FdOps =>
    /\ call[t].fd # ImageFd
    /\ \A fd \in Fds : IsOpen(fd) /\ kfd[fd].gen = call[t].gen => fd = call[t].fd
    /\ pc[t] = "real" => \A e \in fd_map : e.gen # call[t].gen

(* While libsquashfs reads, the entry's position stays where it was when   *)
(* the read began.                                                         *)
ReadOK(t) ==
  InLibraryRead(t) =>
    /\ call[t].op = "read" => \A e \in fd_map : e.gen = found[t] => off[t] = e.offset
    /\ call[t].op = "pread" => off[t] = call[t].arg.offset

RefInv ==
  /\ IInv /\ NumberInv
  /\ \A t \in Threads : PcOK(t) /\ LifeOK(t) /\ ReadOK(t)

-----------------------------------------------------------------------------
(* A step moves the thread that takes it and no other.                     *)
Others(t) ==
  \A u \in Threads \ {t} : /\ pc'[u] = pc[u] /\ call'[u] = call[u]
                           /\ found'[u] = found[u] /\ off'[u] = off[u]

LEMMA OthersStep ==
  ASSUME TypeOK, NEW t \in Threads, Calls(t) \/ Step(t)
  PROVE  Others(t)
  <1> SUFFICES ASSUME NEW u \in Threads \ {t}
               PROVE  found'[u] = found[u] /\ off'[u] = off[u]
    BY StepLocal DEF Others
  <1>1. CASE Calls(t)
    BY <1>1 DEF Calls, call_open, call_read, call_close, call_pread, call_lseek, Invoke
  <1>2. ASSUME NEW r, Return(t, r)
        PROVE  found'[u] = found[u] /\ off'[u] = off[u]
    BY <1>2 DEF TypeOK, Return
  <1>3. CASE Step(t)
    <2>1. ASSUME NEW fd \in Fds, NEW i \in Inodes, create_backing_fd(t, fd, i)
          PROVE  found'[u] = found[u] /\ off'[u] = off[u]
      BY <2>1 DEF create_backing_fd
    <2>2. ASSUME NEW e \in fd_map, lseek_hit(t, e) \/ read_done(t, e)
          PROVE  found'[u] = found[u] /\ off'[u] = off[u]
      BY <2>2, <1>2 DEF lseek_hit, read_done
    <2>3. ASSUME NEW e \in fd_map, read_hit(t, e) \/ close_hit(t, e)
          PROVE  found'[u] = found[u] /\ off'[u] = off[u]
      BY <2>3 DEF TypeOK, read_hit, close_hit
    <2>4. CASE real_read(t) \/ real_lseek(t) \/ real_close(t) \/ real_fails(t)
      BY <2>4, <1>2 DEF real_read, real_lseek, real_close, real_fails
    <2>5. ASSUME NEW fd \in Fds, NEW r \in RealFiles, sqfs_open_real(t, fd, r)
          PROVE  found'[u] = found[u] /\ off'[u] = off[u]
      BY <2>5, <1>2 DEF sqfs_open_real
    <2>6. CASE sqfs_open_refused(t) \/ sqfs_open_add(t) \/ sqfs_open_fails(t)
      BY <2>6, <1>2 DEF sqfs_open_refused, sqfs_open_add, sqfs_open_fails
    <2>7. CASE \/ sqfs_open_convert(t) \/ sqfs_open_lock(t) \/ sqfs_open_malloc_fails(t)
               \/ sqfs_open_undo(t) \/ image_pread_lock(t) \/ image_pread_miss(t)
               \/ find_miss(t)
      BY <2>7 DEF sqfs_open_convert, sqfs_open_lock, sqfs_open_malloc_fails, sqfs_open_undo,
                  image_pread_lock, image_pread_miss, find_miss
    <2>8. CASE pread_negative(t) \/ read_fails(t)
      BY <2>8, <1>2 DEF pread_negative, read_fails
    <2> QED
      BY <1>3, <2>1, <2>2, <2>3, <2>4, <2>5, <2>6, <2>7, <2>8 DEF Step
  <1> QED
    BY <1>1, <1>3

(* The position a successful seek reports fits off64_t.                    *)
LEMMA SeekBound ==
  ASSUME NEW size \in Nat, NEW cur \in Nat, NEW a \in Arg,
         sqfs_lseek_mapped(size, cur, a.offset, a.whence, MaxReturn(a.wide)).err = "OK"
  PROVE  sqfs_lseek_mapped(size, cur, a.offset, a.whence, MaxReturn(a.wide)).out
           \in 0 .. I64_MAX
  <1> DEFINE max == MaxReturn(a.wide)
             new == sqfs_seek_calculate(size, cur, a.offset, a.whence)
             res == sqfs_lseek_mapped(size, cur, a.offset, a.whence, max)
  <1>1. a.offset \in Off64
    BY DEF Arg
  <1>2. max \in Nat /\ max <= I64_MAX /\ I64_MAX \in Nat
    BY WidthAssumption DEF MaxReturn
  <1>3. res.out \in Nat
    BY <1>1, <1>2, SeekNat
  <1>4. res = IF new.err = "OK" /\ new.out > max THEN Fail("EOVERFLOW") ELSE new
    BY DEF sqfs_lseek_mapped
  <1> HIDE DEF max, new
  <1>5. Fail("EOVERFLOW").err # "OK"
    BY DEF Fail
  <1>6. res.err = "OK"
    BY DEF max
  <1> HIDE DEF res
  <1>7. res = new /\ ~(new.out > max)
    BY <1>4, <1>5, <1>6
  <1>8. res.out <= max
    BY <1>2, <1>3, <1>7
  <1>9. res.out \in 0 .. I64_MAX
    BY <1>2, <1>3, <1>8
  <1> QED
    BY <1>9 DEF res, max

(* What a step does to the kernel's table: nothing, a fresh descriptor, a  *)
(* close of the number the thread has, or a move of a position.            *)
KernelMove(t) ==
  \/ kfd' = kfd
  \/ \E fd \in Fds, obj \in RealFiles \cup {Backing} : CreateFd(fd, obj)
  \/ kfd' = [kfd EXCEPT ![call[t].fd] = Closed] /\ call[t].fd # ImageFd
  \/ \E o \in Nat :
       /\ kfd' = [kfd EXCEPT ![call[t].fd] = DescAt(kfd[call[t].fd], o)]
       /\ IsOpen(call[t].fd)
       /\ kfd[call[t].fd].obj = Backing => o <= I64_MAX

LEMMA DescFields ==
  ASSUME TypeOK, NEW fd \in Fds
  PROVE  /\ kfd[fd].off \in Nat /\ kfd[fd].gen \in Nat
         /\ kfd[fd].obj \in RealFiles \cup {Backing, Image, None}
         /\ ObjSize(kfd[fd].obj) \in Nat
  <1>1. kfd[fd] \in KDesc \cup {Closed}
    BY DEF TypeOK
  <1>2. kfd[fd].off \in Nat /\ kfd[fd].gen \in Nat
    BY <1>1, ConstTypes DEF KDesc, Closed, Gens
  <1>3. kfd[fd].obj \in RealFiles \cup {Backing, Image, None}
    BY <1>1 DEF KDesc, Closed
  <1>4. ObjSize(kfd[fd].obj) \in Nat
    BY ConstTypes DEF ObjSize, Files
  <1> QED
    BY <1>2, <1>3, <1>4

(* A number the application or an open in progress has is not the image's. *)
LEMMA NotImage ==
  ASSUME TypeOK, KernelInv, NEW fd \in Fds, NEW gen, Alive(fd, gen)
  PROVE  fd # ImageFd
  <1>1. kfd[ImageFd].gen = 0 /\ kfd[fd].gen = gen /\ gen > 0
    BY DEF KernelInv, Alive
  <1>2. kfd[fd].gen \in Nat
    BY DescFields
  <1> QED
    BY <1>1, <1>2

LEMMA KernelStep ==
  ASSUME RefInv, NEW t \in Threads, Calls(t) \/ Step(t)
  PROVE  KernelMove(t)
  <1>0. TypeOK /\ call[t].fd \in Fds /\ call[t].arg \in Arg /\ KernelInv
    BY Fields DEF RefInv, IInv, DescInv
  <1>1. CASE Calls(t)
    BY <1>1 DEF Calls, call_open, call_read, call_close, call_pread, call_lseek, Invoke,
                KernelMove
  <1>2. ASSUME NEW fd \in Fds, NEW i \in Inodes, create_backing_fd(t, fd, i)
        PROVE  KernelMove(t)
    BY <1>2 DEF create_backing_fd, KernelMove
  <1>3. ASSUME NEW fd \in Fds, NEW r \in RealFiles, sqfs_open_real(t, fd, r)
        PROVE  KernelMove(t)
    BY <1>3 DEF sqfs_open_real, KernelMove
  <1>4. ASSUME NEW e \in fd_map,
               read_hit(t, e) \/ read_done(t, e) \/ lseek_hit(t, e) \/ close_hit(t, e)
        PROVE  KernelMove(t)
    BY <1>4 DEF read_hit, read_done, lseek_hit, close_hit, KernelMove
  <1>5. CASE \/ sqfs_open_refused(t) \/ sqfs_open_convert(t) \/ sqfs_open_lock(t)
             \/ sqfs_open_add(t) \/ sqfs_open_malloc_fails(t) \/ sqfs_open_fails(t)
             \/ image_pread_lock(t) \/ image_pread_miss(t) \/ find_miss(t)
             \/ pread_negative(t) \/ read_fails(t) \/ real_fails(t)
    BY <1>5 DEF sqfs_open_refused, sqfs_open_convert, sqfs_open_lock, sqfs_open_add,
                sqfs_open_malloc_fails, sqfs_open_fails, image_pread_lock, image_pread_miss,
                find_miss, pread_negative, read_fails, real_fails, KernelMove
  <1>6. CASE sqfs_open_undo(t)
    <2>1. Alive(call[t].fd, call[t].gen)
      BY <1>6 DEF sqfs_open_undo, RefInv, IInv, DescInv, OpeningInv, Opening, SoleOpener
    <2> QED
      BY <1>0, <1>6, <2>1, NotImage DEF sqfs_open_undo, KernelMove
  <1>7. CASE real_close(t)
    <2>1. Alive(call[t].fd, call[t].gen)
      BY <1>7 DEF real_close, RefInv, IInv, DescInv, ClosingInv, Closing, SoleCloser
    <2> QED
      BY <1>0, <1>7, <2>1, NotImage DEF real_close, KernelMove
  <1> DEFINE d == kfd[call[t].fd]
  <1>d. d.off \in Nat /\ ObjSize(d.obj) \in Nat
    BY <1>0, DescFields
  <1>8. CASE real_read(t)
    <2> DEFINE n == sqfs_data_reader_read(ObjSize(d.obj), d.off, Count)
    <2>1. n \in Nat /\ (d.off >= ObjSize(d.obj) => n = 0)
      BY <1>d, ReadNat, ConstTypes
    <2>2. d.obj = Backing => d.off + n <= I64_MAX
      <3>1. d.obj = Backing => ObjSize(d.obj) = 0
        BY FdMapAssumption DEF ObjSize, Files
      <3>2. d.obj = Backing => d.off <= I64_MAX
        BY <1>0 DEF RefInv, NumberInv
      <3>3. I64_MAX \in Nat
        BY WidthAssumption
      <3> HIDE DEF d, n
      <3> QED
        BY <1>d, <2>1, <3>1, <3>2, <3>3
    <2>3. \/ kfd' = kfd
          \/ /\ kfd' = [kfd EXCEPT ![call[t].fd] = DescAt(d, d.off + n)]
             /\ IsOpen(call[t].fd)
      <3>1. CASE call[t].op = "read"
        BY <1>8, <3>1 DEF real_read, IsOpen
      <3>2. CASE call[t].op # "read"
        BY <1>8, <3>2 DEF real_read
      <3> QED
        BY <3>1, <3>2
    <2>4. d.off + n \in Nat
      BY <1>d, <2>1
    <2> HIDE DEF n
    <2> QED
      BY <2>2, <2>3, <2>4 DEF KernelMove
  <1>9. CASE real_lseek(t)
    <2> DEFINE a == call[t].arg
               res == sqfs_lseek_mapped(ObjSize(d.obj), d.off, a.offset, a.whence,
                                        MaxReturn(a.wide))
    <2>1. \/ kfd' = kfd
          \/ /\ kfd' = [kfd EXCEPT ![call[t].fd] = DescAt(d, res.out)]
             /\ IsOpen(call[t].fd) /\ res.err = "OK"
      BY <1>9 DEF real_lseek, IsOpen
    <2>2. res.err = "OK" => res.out \in 0 .. I64_MAX
      BY <1>0, <1>d, SeekBound
    <2>3. I64_MAX \in Nat
      BY WidthAssumption
    <2> HIDE DEF res
    <2> QED
      BY <2>1, <2>2, <2>3 DEF KernelMove
  <1> QED
    BY <1>1, <1>2, <1>3, <1>4, <1>5, <1>6, <1>7, <1>8, <1>9 DEF Step


(* An open number is in the life it was in before the step, or in one that *)
(* no call knows yet.                                                      *)
LEMMA Lives ==
  ASSUME RefInv, NEW t \in Threads, KernelMove(t), NEW fd \in Fds, IsOpen(fd)'
  PROVE  \/ /\ IsOpen(fd)
            /\ kfd'[fd].gen = kfd[fd].gen /\ kfd'[fd].obj = kfd[fd].obj
         \/ /\ kfd'[fd].gen = opens + 1 /\ kfd'[fd].obj \in RealFiles \cup {Backing}
            /\ kfd'[fd].off = 0
  <1>0. TypeOK /\ call[t].fd \in Fds
    BY Fields DEF RefInv, IInv
  <1>1. CASE kfd' = kfd
    BY <1>1 DEF IsOpen
  <1>2. ASSUME NEW f \in Fds, NEW obj \in RealFiles \cup {Backing}, CreateFd(f, obj)
        PROVE  \/ kfd'[fd] = kfd[fd]
               \/ /\ kfd'[fd].gen = opens + 1 /\ kfd'[fd].obj \in RealFiles \cup {Backing}
                  /\ kfd'[fd].off = 0
    BY <1>0, <1>2 DEF TypeOK, CreateFd
  <1>3. CASE kfd' = [kfd EXCEPT ![call[t].fd] = Closed]
    BY <1>0, <1>3 DEF TypeOK, IsOpen, Closed
  <1>4. ASSUME NEW o, kfd' = [kfd EXCEPT ![call[t].fd] = DescAt(kfd[call[t].fd], o)]
        PROVE  kfd'[fd].gen = kfd[fd].gen /\ kfd'[fd].obj = kfd[fd].obj
    BY <1>0, <1>4 DEF TypeOK, DescAt
  <1> QED
    BY <1>1, <1>2, <1>3, <1>4 DEF KernelMove, IsOpen

LEMMA NumberStep ==
  ASSUME RefInv, NEW t \in Threads, KernelMove(t)
  PROVE  NumberInv'
  <1> SUFFICES ASSUME NEW fd \in Fds
               PROVE  /\ kfd'[fd].obj = Image => fd = ImageFd
                      /\ kfd'[fd].obj = Backing => kfd'[fd].off <= I64_MAX
    BY DEF NumberInv
  <1>0. /\ TypeOK /\ NumberInv /\ call[t].fd \in Fds
        /\ Image \notin RealFiles /\ Image # Backing /\ Image # None /\ Backing # None
        /\ 0 <= I64_MAX
    BY Fields, FdMapAssumption, WidthAssumption DEF RefInv, IInv, Files
  <1>1. kfd'[fd].obj = Image => fd = ImageFd
    BY <1>0, Lives DEF NumberInv, IsOpen
  <1>2. CASE kfd' = kfd
    BY <1>0, <1>1, <1>2 DEF NumberInv
  <1>3. ASSUME NEW f \in Fds, NEW obj \in RealFiles \cup {Backing}, CreateFd(f, obj)
        PROVE  kfd'[fd] = kfd[fd] \/ kfd'[fd].off = 0
    BY <1>0, <1>3 DEF TypeOK, CreateFd
  <1>4. CASE kfd' = [kfd EXCEPT ![call[t].fd] = Closed]
    BY <1>0, <1>1, <1>4 DEF TypeOK, Closed, NumberInv
  <1>5. ASSUME NEW o \in Nat,
               kfd' = [kfd EXCEPT ![call[t].fd] = DescAt(kfd[call[t].fd], o)],
               kfd[call[t].fd].obj = Backing => o <= I64_MAX
        PROVE  kfd'[fd].obj = Backing => kfd'[fd].off <= I64_MAX
    BY <1>0, <1>5 DEF TypeOK, DescAt, NumberInv
  <1> QED
    BY <1>0, <1>1, <1>2, <1>3, <1>4, <1>5 DEF KernelMove, NumberInv

(* What a step does to fd_map: nothing, or under the mutex an entry comes, *)
(* moves or goes.                                                          *)
MapMove(t) ==
  \/ fd_map' = fd_map
  \/ /\ pc[t] = "open_add"
     /\ fd_map' = fd_map \cup {[key |-> call[t].fd, inode |-> call[t].file, offset |-> 0,
                                gen |-> call[t].gen]}
  \/ /\ owner = None \/ pc[t] = "io_done"
     /\ \E e \in fd_map : \/ \E o \in Nat : fd_map' = (fd_map \ {e}) \cup {EntryAt(e, o)}
                          \/ fd_map' = fd_map \ {e}

LEMMA MapStep ==
  ASSUME RefInv, NEW t \in Threads, Calls(t) \/ Step(t)
  PROVE  MapMove(t)
  <1>0. TypeOK /\ call[t].arg \in Arg /\ off[t] \in Nat
    BY Fields DEF RefInv, IInv
  <1>1. CASE Calls(t)
    BY <1>1 DEF Calls, call_open, call_read, call_close, call_pread, call_lseek, Invoke,
                MapMove
  <1>2. ASSUME NEW fd \in Fds, NEW i \in Inodes, create_backing_fd(t, fd, i)
        PROVE  MapMove(t)
    BY <1>2 DEF create_backing_fd, MapMove
  <1>3. ASSUME NEW fd \in Fds, NEW r \in RealFiles, sqfs_open_real(t, fd, r)
        PROVE  MapMove(t)
    BY <1>3 DEF sqfs_open_real, MapMove
  <1>4. ASSUME NEW e \in fd_map, read_hit(t, e) \/ close_hit(t, e)
        PROVE  MapMove(t)
    BY <1>4 DEF read_hit, close_hit, Critical, MapMove
  <1>5. CASE \/ sqfs_open_refused(t) \/ sqfs_open_convert(t) \/ sqfs_open_lock(t)
             \/ sqfs_open_undo(t) \/ sqfs_open_malloc_fails(t) \/ sqfs_open_fails(t)
             \/ image_pread_lock(t) \/ image_pread_miss(t) \/ find_miss(t)
             \/ pread_negative(t) \/ read_fails(t) \/ real_fails(t)
             \/ real_read(t) \/ real_lseek(t) \/ real_close(t)
    BY <1>5 DEF sqfs_open_refused, sqfs_open_convert, sqfs_open_lock, sqfs_open_undo,
                sqfs_open_malloc_fails, sqfs_open_fails, image_pread_lock, image_pread_miss,
                find_miss, pread_negative, read_fails, real_fails, real_read, real_lseek,
                real_close, MapMove
  <1>6. CASE sqfs_open_add(t)
    BY <1>6 DEF sqfs_open_add, MapMove
  <1>7. ASSUME NEW e \in fd_map, read_done(t, e) PROVE MapMove(t)
    <2> DEFINE n == sqfs_data_reader_read(Size[e.inode], off[t], Count)
    <2>1. e.offset \in Nat /\ e.inode \in Files
      BY <1>0 DEF TypeOK, Entry, Files
    <2>2. n \in Nat
      BY <1>0, <2>1, ReadNat, ConstTypes
    <2>3. e.offset + n \in Nat
      BY <2>1, <2>2
    <2>4. /\ pc[t] = "io_done"
          /\ fd_map' = fd_map \/ fd_map' = (fd_map \ {e}) \cup {EntryAt(e, e.offset + n)}
      BY <1>7 DEF read_done
    <2> HIDE DEF n
    <2> QED
      BY <2>3, <2>4 DEF MapMove
  <1>8. ASSUME NEW e \in fd_map, lseek_hit(t, e) PROVE MapMove(t)
    <2> DEFINE a == call[t].arg
               res == sqfs_lseek_mapped(Size[e.inode], e.offset, a.offset, a.whence,
                                        MaxReturn(a.wide))
    <2>1. e.offset \in Nat /\ Size[e.inode] \in Nat
      BY <1>0, ConstTypes DEF TypeOK, Entry, Files
    <2>2. res.err = "OK" => res.out \in Nat
      BY <1>0, <2>1, SeekBound
    <2>3. /\ owner = None
          /\ \/ fd_map' = fd_map
             \/ res.err = "OK" /\ fd_map' = (fd_map \ {e}) \cup {EntryAt(e, res.out)}
      BY <1>8 DEF lseek_hit, Critical
    <2> HIDE DEF res
    <2> QED
      BY <2>2, <2>3 DEF MapMove
  <1> QED
    BY <1>1, <1>2, <1>3, <1>4, <1>5, <1>6, <1>7, <1>8 DEF Step


(* What a step does to the thread that takes it: the call returns, begins, *)
(* goes on in sqfs_open, misses or leaves fd_map, or reads the image.      *)
ThreadMove(t) ==
  \/ pc'[t] = "app" /\ call'[t] = NoCall
  \/ /\ pc[t] = "app" /\ pc'[t] = "lock" /\ UNCHANGED <<kfd, fd_map>>
     /\ call'[t].op \in FdOps
     /\ \E h \in held : call'[t].fd = h.fd /\ call'[t].gen = h.gen
  \/ pc'[t] \in OpenPCs /\ call'[t].op = "open"
  \/ /\ pc[t] = "lock" /\ pc'[t] = "real" /\ call'[t] = call[t]
     /\ find_miss(t) \/ \E e \in fd_map : close_hit(t, e)
  \/ /\ InLibraryRead(t)' /\ call'[t] = call[t] /\ UNCHANGED fd_map
     /\ \/ \E e \in fd_map : read_hit(t, e)
        \/ InLibraryRead(t) /\ UNCHANGED <<found, off>>

LEMMA ThreadStep ==
  ASSUME RefInv, NEW t \in Threads, Calls(t) \/ Step(t)
  PROVE  ThreadMove(t)
  <1>0. TypeOK /\ PcOK(t)
    BY DEF RefInv, IInv
  <1>1. CASE Calls(t)
    <2>1. ASSUME NEW h \in held, call_read(t, h) \/ call_close(t, h)
          PROVE  ThreadMove(t)
      BY <1>0, <2>1 DEF TypeOK, call_read, call_close, Invoke, Goto, FdOps, ThreadMove
    <2>2. ASSUME NEW h \in held, NEW a \in SeekArgs, call_pread(t, h, a) \/ call_lseek(t, h, a)
          PROVE  ThreadMove(t)
      BY <1>0, <2>2 DEF TypeOK, call_pread, call_lseek, Invoke, Goto, FdOps, ThreadMove
    <2>3. CASE call_open(t)
      BY <1>0, <2>3 DEF TypeOK, call_open, Invoke, Goto, OpenPCs, ThreadMove
    <2> QED
      BY <1>1, <2>1, <2>2, <2>3 DEF Calls
  <1>2. ASSUME NEW r, Return(t, r) PROVE ThreadMove(t)
    BY <1>0, <1>2, ReturnLocal DEF ThreadMove
  <1>3. ASSUME NEW label \in OpenPCs, pc[t] \in OpenPCs, Goto(t, label), UNCHANGED call
        PROVE  ThreadMove(t)
    BY <1>0, <1>3 DEF TypeOK, Goto, PcOK, ThreadMove
  <1>4. ASSUME NEW fd \in Fds, NEW i \in Inodes, create_backing_fd(t, fd, i)
        PROVE  ThreadMove(t)
    BY <1>0, <1>4 DEF TypeOK, create_backing_fd, Goto, OpenPCs, ThreadMove
  <1>5. ASSUME NEW fd \in Fds, NEW r \in RealFiles, sqfs_open_real(t, fd, r)
        PROVE  ThreadMove(t)
    BY <1>2, <1>5 DEF sqfs_open_real
  <1>6. CASE sqfs_open_refused(t) \/ sqfs_open_add(t) \/ sqfs_open_fails(t) \/ pread_negative(t)
    BY <1>2, <1>6 DEF sqfs_open_refused, sqfs_open_add, sqfs_open_fails, pread_negative
  <1>7. CASE read_fails(t) \/ real_fails(t) \/ real_close(t)
    BY <1>2, <1>7 DEF read_fails, real_fails, real_close
  <1>8. CASE real_read(t) \/ real_lseek(t)
    BY <1>2, <1>8 DEF real_read, real_lseek
  <1>9. CASE \/ sqfs_open_convert(t) \/ sqfs_open_lock(t) \/ sqfs_open_malloc_fails(t)
             \/ sqfs_open_undo(t)
    BY <1>3, <1>9 DEF sqfs_open_convert, sqfs_open_lock, sqfs_open_malloc_fails,
                      sqfs_open_undo, OpenPCs
  <1>10. CASE find_miss(t)
    BY <1>0, <1>10 DEF TypeOK, find_miss, Goto, ThreadMove
  <1>11. ASSUME NEW e \in fd_map, close_hit(t, e) PROVE ThreadMove(t)
    BY <1>0, <1>11 DEF TypeOK, close_hit, Goto, ThreadMove
  <1>12. ASSUME NEW e \in fd_map, read_done(t, e) \/ lseek_hit(t, e) PROVE ThreadMove(t)
    BY <1>2, <1>12 DEF read_done, lseek_hit
  <1>13. ASSUME NEW e \in fd_map, read_hit(t, e) PROVE ThreadMove(t)
    BY <1>0, <1>13 DEF TypeOK, read_hit, Goto, InLibraryRead, ThreadMove
  <1>14. CASE image_pread_lock(t)
    <2>1. CASE pc[t] = "io"
      BY <1>0, <1>14, <2>1 DEF TypeOK, image_pread_lock, Goto, InLibraryRead, ThreadMove
    <2>2. CASE pc[t] = "open_find"
      BY <1>3, <1>14, <2>2 DEF image_pread_lock, OpenPCs
    <2> QED
      BY <1>14, <2>1, <2>2 DEF image_pread_lock
  <1>15. CASE image_pread_miss(t)
    <2>1. CASE pc[t] = "io_nest"
      BY <1>0, <1>15, <2>1 DEF TypeOK, image_pread_miss, Goto, InLibraryRead, ThreadMove
    <2>2. CASE pc[t] = "open_nest"
      BY <1>3, <1>15, <2>2 DEF image_pread_miss, OpenPCs
    <2> QED
      BY <1>15, <2>1, <2>2 DEF image_pread_miss
  <1> QED
    BY <1>1, <1>4, <1>5, <1>6, <1>7, <1>8, <1>9, <1>10, <1>11, <1>12, <1>13, <1>14, <1>15
       DEF Step

(* The new parts of the invariant, for the thread that takes the step and  *)
(* for the others.                                                         *)
LEMMA PcStep ==
  ASSUME RefInv, NEW t \in Threads, ThreadMove(t), Others(t), NEW u \in Threads
  PROVE  PcOK(u)'
  <1>1. CASE u # t
    BY <1>1 DEF RefInv, PcOK, Others, InLibraryRead
  <1>2. CASE u = t
    <2>0. PcOK(t)
      BY DEF RefInv
    <2>1. ASSUME NEW e \in fd_map, read_hit(t, e) PROVE call[t].op \in {"read", "pread"}
      BY <2>1 DEF read_hit
    <2> QED
      BY <1>2, <2>0, <2>1 DEF PcOK, ThreadMove, OpenPCs, InLibraryRead
  <1> QED
    BY <1>1, <1>2

(* Every entry was there before the step, or it is for the number a thread *)
(* in sqfs_open has just been given.                                       *)
LEMMA EntryLives ==
  ASSUME NEW t \in Threads, MapMove(t), NEW e \in fd_map'
  PROVE  \/ \E f \in fd_map : f.gen = e.gen
         \/ pc[t] = "open_add" /\ e.gen = call[t].gen
  BY DEF MapMove, EntryAt

LEMMA LifeStep ==
  ASSUME RefInv, NEW t \in Threads, ThreadMove(t), Others(t), MapMove(t), KernelMove(t),
         NEW u \in Threads
  PROVE  LifeOK(u)'
  <1>0. /\ TypeOK /\ DescInv /\ LifeOK(u) /\ LifeOK(t)
        /\ opens \in Nat /\ call[u].gen \in Nat /\ call[u].gen <= opens
    BY DescTypes DEF RefInv, IInv, DescInv, KernelInv
  <1>1. ASSUME call'[u] = call[u], call[u].op \in FdOps
        PROVE  /\ call'[u].fd # ImageFd
               /\ \A fd \in Fds : IsOpen(fd)' /\ kfd'[fd].gen = call'[u].gen
                                  => fd = call'[u].fd
    <2>1. \A fd \in Fds : IsOpen(fd)' /\ kfd'[fd].gen = call[u].gen
                          => IsOpen(fd) /\ kfd[fd].gen = call[u].gen
      BY <1>0, Lives
    <2> QED
      BY <1>0, <1>1, <2>1 DEF LifeOK
  <1>2. CASE u # t
    <2>1. call'[u] = call[u] /\ pc'[u] = pc[u]
      BY <1>2 DEF Others
    <2>2. pc[t] = "open_add" => call[u].gen # call[t].gen
      BY <1>0, <1>2 DEF DescInv, OpeningInv, Opening, SoleOpener
    <2>3. call[u].op \in FdOps /\ pc[u] = "real" => \A e \in fd_map' : e.gen # call[u].gen
      BY <1>0, <2>2, EntryLives DEF LifeOK
    <2> QED
      BY <1>1, <2>1, <2>3 DEF LifeOK
  <1>3. CASE u = t
    <2> SUFFICES ASSUME call'[t].op \in FdOps
                 PROVE  /\ call'[t].fd # ImageFd
                        /\ \A fd \in Fds : IsOpen(fd)' /\ kfd'[fd].gen = call'[t].gen
                                           => fd = call'[t].fd
                        /\ pc'[t] = "real" => \A e \in fd_map' : e.gen # call'[t].gen
      BY <1>3 DEF LifeOK
    <2>1. CASE pc'[t] = "app" /\ call'[t] = NoCall
      BY <2>1 DEF NoCall, FdOps
    <2>2. ASSUME NEW h \in held, call'[t].fd = h.fd, call'[t].gen = h.gen,
                 pc'[t] = "lock", UNCHANGED <<kfd, fd_map>>
          PROVE  /\ call'[t].fd # ImageFd
                 /\ \A fd \in Fds : IsOpen(fd)' /\ kfd'[fd].gen = call'[t].gen
                                    => fd = call'[t].fd
                 /\ pc'[t] # "real"
      <3>1. h.fd \in Fds /\ Alive(h.fd, h.gen)
        BY <1>0, DescTypes DEF DescInv, HeldInv
      <3>2. h.fd # ImageFd
        BY <1>0, <3>1, NotImage DEF DescInv
      <3>3. \A fd \in Fds : IsOpen(fd) /\ kfd[fd].gen = h.gen => fd = h.fd
        BY <1>0, <3>1 DEF DescInv, KernelInv, Alive
      <3> QED
        BY <2>2, <3>2, <3>3 DEF IsOpen
    <2>3. CASE pc'[t] \in OpenPCs /\ call'[t].op = "open"
      BY <2>3 DEF FdOps
    <2>4. ASSUME find_miss(t) \/ \E e \in fd_map : close_hit(t, e), call'[t] = call[t]
          PROVE  \A e \in fd_map' : e.gen # call'[t].gen
      <3>1. /\ fd_map' \subseteq fd_map
            /\ \A e \in fd_map' : e.key # call[t].fd
        <4>1. CASE find_miss(t)
          BY <4>1 DEF find_miss, HASH_FIND_INT
        <4>2. ASSUME NEW e \in fd_map, close_hit(t, e)
              PROVE  fd_map' = fd_map \ {e} /\ e.key = call[t].fd
          BY <4>2 DEF close_hit, HASH_FIND_INT
        <4> QED
          BY <1>0, <2>4, <4>1, <4>2 DEF DescInv, MapInv
      <3>2. ASSUME NEW e \in fd_map, e.gen = call[t].gen PROVE e.key = call[t].fd
        <4>1. e.key \in Fds /\ IsOpen(e.key) /\ kfd[e.key].gen = e.gen
          BY <1>0, DescTypes, FdMapAssumption DEF DescInv, NoStaleEntry, IsOpen
        <4> QED
          BY <1>0, <2>4, <3>2, <4>1 DEF LifeOK
      <3> QED
        BY <2>4, <3>1, <3>2
    <2>5. CASE InLibraryRead(t)' /\ call'[t] = call[t]
      BY <1>1, <1>3, <2>5 DEF InLibraryRead
    <2> QED
      BY <1>1, <1>3, <2>1, <2>2, <2>3, <2>4, <2>5 DEF ThreadMove
  <1> QED
    BY <1>2, <1>3

LEMMA ReadStep ==
  ASSUME RefInv, NEW t \in Threads, ThreadMove(t), Others(t), MapMove(t),
         NEW u \in Threads
  PROVE  ReadOK(u)'
  <1>0. /\ TypeOK /\ DescInv /\ MutexInv /\ ReadOK(u)
        /\ None \notin Threads
    BY FdMapAssumption DEF RefInv, IInv
  <1>1. CASE u # t
    <2> SUFFICES ASSUME InLibraryRead(u)' PROVE ReadOK(u)'
      BY DEF ReadOK
    <2>1. InLibraryRead(u)
      BY <1>1 DEF Others, InLibraryRead
    <2>2. owner = u
      BY <1>0, <2>1 DEF MutexInv, InLibraryRead, MutexPCs
    <2>3. pc[t] \notin MutexPCs /\ owner # None
      BY <1>0, <1>1, <2>2 DEF MutexInv
    <2>4. fd_map' = fd_map
      BY <2>3 DEF MapMove, MutexPCs
    <2> QED
      BY <1>0, <1>1, <2>1, <2>4 DEF ReadOK, Others
  <1>2. CASE u = t
    <2> SUFFICES ASSUME InLibraryRead(t)' PROVE ReadOK(t)'
      BY <1>2 DEF ReadOK
    <2>1. ASSUME NEW e \in fd_map, read_hit(t, e) PROVE ReadOK(t)'
      <3>1. /\ found'[t] = e.gen /\ call' = call /\ fd_map' = fd_map
            /\ off'[t] = IF call[t].op = "read" THEN e.offset ELSE call[t].arg.offset
        BY <1>0, <2>1 DEF TypeOK, read_hit
      <3>2. \A f \in fd_map : f.gen = e.gen => f = e
        BY <1>0, GenUnique DEF RefInv, DescInv, MapInv
      <3> QED
        BY <3>1, <3>2 DEF ReadOK
    <2>2. CASE InLibraryRead(t) /\ call'[t] = call[t] /\ UNCHANGED <<found, off, fd_map>>
      BY <1>0, <1>2, <2>2 DEF ReadOK
    <2> QED
      BY <2>1, <2>2 DEF ThreadMove, InLibraryRead, OpenPCs
  <1> QED
    BY <1>1, <1>2

(* The whole invariant is inductive.                                       *)
LEMMA RefInit == Init => RefInv
  <1> SUFFICES ASSUME Init PROVE RefInv
    OBVIOUS
  <1>1. IInv
    BY InitOK
  <1>2. \A fd \in Fds : kfd[fd].obj = IF fd = ImageFd THEN Image ELSE None
    BY DEF Init, Closed
  <1>3. NumberInv
    BY <1>2, FdMapAssumption DEF NumberInv
  <1>4. \A t \in Threads : pc[t] = "app" /\ call[t] = NoCall /\ NoCall.op = "none"
    BY DEF Init, NoCall
  <1>5. \A t \in Threads : PcOK(t) /\ LifeOK(t) /\ ReadOK(t)
    BY <1>4 DEF PcOK, LifeOK, ReadOK, OpenPCs, FdOps, InLibraryRead
  <1> QED
    BY <1>1, <1>3, <1>5 DEF RefInv

LEMMA RefNext == RefInv /\ [Next]_vars => RefInv'
  <1> SUFFICES ASSUME RefInv, [Next]_vars PROVE RefInv'
    OBVIOUS
  <1>1. IInv'
    BY NextOK DEF RefInv
  <1>2. ASSUME NEW t \in Threads, Calls(t) \/ Step(t) PROVE RefInv'
    <2>1. TypeOK
      BY DEF RefInv, IInv
    <2>2. ThreadMove(t) /\ Others(t) /\ MapMove(t) /\ KernelMove(t)
      BY <1>2, <2>1, ThreadStep, OthersStep, MapStep, KernelStep
    <2>3. NumberInv'
      BY <2>2, NumberStep
    <2>4. \A u \in Threads : PcOK(u)' /\ LifeOK(u)' /\ ReadOK(u)'
      BY <2>2, PcStep, LifeStep, ReadStep
    <2> QED
      BY <1>1, <2>3, <2>4 DEF RefInv
  <1>3. CASE UNCHANGED vars
    <2>1. NumberInv'
      BY <1>3 DEF RefInv, NumberInv, vars
    <2>2. \A u \in Threads : PcOK(u)' /\ LifeOK(u)' /\ ReadOK(u)'
      BY <1>3 DEF RefInv, PcOK, LifeOK, ReadOK, InLibraryRead, IsOpen, vars
    <2> QED
      BY <1>1, <2>1, <2>2 DEF RefInv
  <1> QED
    BY <1>2, <1>3 DEF Next

(* In every reachable state a thread's place, its call, the number it      *)
(* names and the position it read agree with fd_map and the kernel.        *)
THEOREM RefInvariance == Spec => []RefInv
  <1> QED
    BY RefInit, RefNext, PTL DEF Spec


-----------------------------------------------------------------------------
(* The descriptor table the application sees.                              *)
EntryDesc(e)   == [fd |-> e.key, gen |-> e.gen, file |-> e.inode, off |-> e.offset]
KernelDesc(fd) == [fd |-> fd, gen |-> kfd[fd].gen, file |-> kfd[fd].obj, off |-> kfd[fd].off]
IsReal(fd)     == kfd[fd].obj \in RealFiles

LEMMA TableIs ==
  AbsTable = {EntryDesc(e) : e \in fd_map} \cup {KernelDesc(fd) : fd \in {f \in Fds : IsReal(f)}}
  BY DEF AbsTable, EntryDesc, KernelDesc, IsReal

LEMMA TableIsNext ==
  AbsTable' = {EntryDesc(e) : e \in fd_map'}
              \cup {KernelDesc(fd)' : fd \in {f \in Fds : IsReal(f)'}}
  BY DEF AbsTable, EntryDesc, KernelDesc, IsReal

(* Every description is the one life of its number.                        *)
LEMMA TableLives ==
  ASSUME RefInv, NEW d \in AbsTable
  PROVE  /\ d.fd \in Fds /\ IsOpen(d.fd) /\ kfd[d.fd].gen = d.gen
         /\ \/ d \in {EntryDesc(e) : e \in fd_map} /\ kfd[d.fd].obj = Backing
            \/ d = KernelDesc(d.fd) /\ IsReal(d.fd)
  <1>0. TypeOK /\ NoStaleEntry
    BY DEF RefInv, IInv, DescInv
  <1>1. ASSUME NEW e \in fd_map, d = EntryDesc(e)
        PROVE  d.fd \in Fds /\ IsOpen(d.fd) /\ kfd[d.fd].gen = d.gen /\ kfd[d.fd].obj = Backing
    BY <1>0, <1>1, DescTypes, FdMapAssumption DEF EntryDesc, NoStaleEntry, IsOpen
  <1>2. ASSUME NEW fd \in Fds, IsReal(fd), d = KernelDesc(fd)
        PROVE  /\ d.fd = fd /\ d.fd \in Fds /\ IsOpen(d.fd) /\ kfd[d.fd].gen = d.gen
               /\ IsReal(d.fd)
    BY <1>2, FdMapAssumption DEF KernelDesc, IsReal, IsOpen, Files
  <1> QED
    BY <1>1, <1>2, TableIs

(* No two descriptions have the same number.                               *)
LEMMA TableByFd ==
  ASSUME RefInv, NEW d1 \in AbsTable, NEW d2 \in AbsTable, d1.fd = d2.fd
  PROVE  d1 = d2
  <1>1. Backing \notin RealFiles /\ MapInv
    BY FdMapAssumption DEF Files, RefInv, IInv, DescInv
  <1>2. CASE kfd[d1.fd].obj = Backing
    <2>1. PICK e1 \in fd_map, e2 \in fd_map : d1 = EntryDesc(e1) /\ d2 = EntryDesc(e2)
      BY <1>1, <1>2, TableLives DEF IsReal
    <2>2. e1 = e2
      BY <1>1, <2>1 DEF MapInv, EntryDesc
    <2> QED
      BY <2>1, <2>2
  <1>3. CASE kfd[d1.fd].obj # Backing
    BY <1>3, TableLives
  <1> QED
    BY <1>2, <1>3

(* The ways in which a step changes the table.                             *)
LEMMA TableSame ==
  ASSUME UNCHANGED fd_map,
         \A fd \in Fds : IsReal(fd) \/ IsReal(fd)' => kfd'[fd] = kfd[fd]
  PROVE  AbsTable' = AbsTable
  <1>1. {f \in Fds : IsReal(f)'} = {f \in Fds : IsReal(f)}
    BY DEF IsReal
  <1>2. \A fd \in {f \in Fds : IsReal(f)} : KernelDesc(fd)' = KernelDesc(fd)
    BY DEF KernelDesc
  <1> QED
    BY <1>1, <1>2, TableIs, TableIsNext

LEMMA TableAddEntry ==
  ASSUME NEW e, fd_map' = fd_map \cup {e}, UNCHANGED kfd
  PROVE  AbsTable' = AbsTable \cup {EntryDesc(e)}
  <1>1. {EntryDesc(f) : f \in fd_map'} = {EntryDesc(f) : f \in fd_map} \cup {EntryDesc(e)}
    OBVIOUS
  <1>2. {KernelDesc(fd)' : fd \in {f \in Fds : IsReal(f)'}}
          = {KernelDesc(fd) : fd \in {f \in Fds : IsReal(f)}}
    BY DEF KernelDesc, IsReal
  <1> QED
    BY <1>1, <1>2, TableIs, TableIsNext

LEMMA TableAddReal ==
  ASSUME TypeOK, NEW fd \in Fds, ~IsReal(fd), NEW x, x.obj \in RealFiles,
         kfd' = [kfd EXCEPT ![fd] = x], UNCHANGED fd_map
  PROVE  AbsTable' = AbsTable \cup {[fd |-> fd, gen |-> x.gen, file |-> x.obj, off |-> x.off]}
  <1>1. kfd'[fd] = x /\ \A f \in Fds \ {fd} : kfd'[f] = kfd[f]
    BY DEF TypeOK
  <1>2. {f \in Fds : IsReal(f)'} = {f \in Fds : IsReal(f)} \cup {fd}
    BY <1>1 DEF IsReal
  <1>3. /\ KernelDesc(fd)' = [fd |-> fd, gen |-> x.gen, file |-> x.obj, off |-> x.off]
        /\ \A f \in {g \in Fds : IsReal(g)} : KernelDesc(f)' = KernelDesc(f)
    BY <1>1 DEF KernelDesc
  <1> QED
    BY <1>2, <1>3, TableIs, TableIsNext

LEMMA TableDelEntry ==
  ASSUME RefInv, NEW e \in fd_map, fd_map' = fd_map \ {e}, UNCHANGED kfd
  PROVE  AbsTable' = AbsTable \ {EntryDesc(e)}
  <1>1. \A d \in {KernelDesc(fd) : fd \in {f \in Fds : IsReal(f)}} : d # EntryDesc(e)
    <2> SUFFICES ASSUME NEW fd \in Fds, IsReal(fd), KernelDesc(fd) = EntryDesc(e) PROVE FALSE
      OBVIOUS
    <2>1. fd = e.key
      BY DEF KernelDesc, EntryDesc
    <2> QED
      BY <2>1, FdMapAssumption DEF RefInv, IInv, DescInv, NoStaleEntry, IsReal, Files
  <1>2. \A f \in fd_map : EntryDesc(f) = EntryDesc(e) => f = e
    BY DEF RefInv, IInv, DescInv, MapInv, EntryDesc
  <1>3. {KernelDesc(fd)' : fd \in {f \in Fds : IsReal(f)'}}
          = {KernelDesc(fd) : fd \in {f \in Fds : IsReal(f)}}
    BY DEF KernelDesc, IsReal
  <1>4. {EntryDesc(f) : f \in fd_map'} = {EntryDesc(f) : f \in fd_map} \ {EntryDesc(e)}
    BY <1>2
  <1> QED
    BY <1>1, <1>3, <1>4, TableIs, TableIsNext

LEMMA TableMoveEntry ==
  ASSUME RefInv, NEW e \in fd_map, NEW o, fd_map' = (fd_map \ {e}) \cup {EntryAt(e, o)},
         UNCHANGED kfd
  PROVE  AbsTable' = (AbsTable \ {EntryDesc(e)}) \cup {[EntryDesc(e) EXCEPT !.off = o]}
  <1>1. \A d \in {KernelDesc(fd) : fd \in {f \in Fds : IsReal(f)}} : d # EntryDesc(e)
    <2> SUFFICES ASSUME NEW fd \in Fds, IsReal(fd), KernelDesc(fd) = EntryDesc(e) PROVE FALSE
      OBVIOUS
    <2>1. fd = e.key
      BY DEF KernelDesc, EntryDesc
    <2> QED
      BY <2>1, FdMapAssumption DEF RefInv, IInv, DescInv, NoStaleEntry, IsReal, Files
  <1>2. \A f \in fd_map : EntryDesc(f) = EntryDesc(e) => f = e
    BY DEF RefInv, IInv, DescInv, MapInv, EntryDesc
  <1>3. {KernelDesc(fd)' : fd \in {f \in Fds : IsReal(f)'}}
          = {KernelDesc(fd) : fd \in {f \in Fds : IsReal(f)}}
    BY DEF KernelDesc, IsReal
  <1>4. EntryDesc(EntryAt(e, o)) = [EntryDesc(e) EXCEPT !.off = o]
    BY DEF EntryDesc, EntryAt
  <1>5. {EntryDesc(f) : f \in fd_map'}
          = ({EntryDesc(f) : f \in fd_map} \ {EntryDesc(e)}) \cup {EntryDesc(EntryAt(e, o))}
    BY <1>2
  <1> QED
    BY <1>1, <1>3, <1>4, <1>5, TableIs, TableIsNext

(* The number fd of a real file is closed, or its position moves.          *)
LEMMA TableReal ==
  ASSUME RefInv, NEW fd \in Fds, IsReal(fd), NEW x, kfd' = [kfd EXCEPT ![fd] = x],
         UNCHANGED fd_map
  PROVE  /\ KernelDesc(fd) \in AbsTable
         /\ x.obj \notin RealFiles => AbsTable' = AbsTable \ {KernelDesc(fd)}
         /\ x.obj \in RealFiles =>
              AbsTable' = (AbsTable \ {KernelDesc(fd)})
                          \cup {[fd |-> fd, gen |-> x.gen, file |-> x.obj, off |-> x.off]}
  <1>0. TypeOK
    BY DEF RefInv, IInv
  <1>1. kfd'[fd] = x /\ \A f \in Fds \ {fd} : kfd'[f] = kfd[f]
    BY <1>0 DEF TypeOK
  <1>2. KernelDesc(fd) \in AbsTable
    BY TableIs
  <1>3. \A e \in fd_map : EntryDesc(e) # KernelDesc(fd)
    <2> SUFFICES ASSUME NEW e \in fd_map, KernelDesc(fd) = EntryDesc(e) PROVE FALSE
      OBVIOUS
    <2>1. fd = e.key
      BY DEF KernelDesc, EntryDesc
    <2> QED
      BY <2>1, FdMapAssumption DEF RefInv, IInv, DescInv, NoStaleEntry, IsReal, Files
  <1>4. \A f \in Fds \ {fd} : /\ KernelDesc(f)' = KernelDesc(f) /\ (IsReal(f)' <=> IsReal(f))
                              /\ KernelDesc(f) # KernelDesc(fd)
    BY <1>1 DEF KernelDesc, IsReal
  <1>5. {KernelDesc(f) : f \in {g \in Fds \ {fd} : IsReal(g)}}
          = {KernelDesc(f) : f \in {g \in Fds : IsReal(g)}} \ {KernelDesc(fd)}
    BY <1>4
  <1>6. {KernelDesc(f)' : f \in {g \in Fds \ {fd} : IsReal(g)'}}
          = {KernelDesc(f) : f \in {g \in Fds \ {fd} : IsReal(g)}}
    BY <1>4
  <1>7. CASE x.obj \notin RealFiles
    <2>1. {g \in Fds : IsReal(g)'} = {g \in Fds \ {fd} : IsReal(g)'}
      BY <1>1, <1>7 DEF IsReal
    <2>2. {EntryDesc(e) : e \in fd_map'} = {EntryDesc(e) : e \in fd_map} \ {KernelDesc(fd)}
      BY <1>3
    <2> QED
      BY <1>2, <1>5, <1>6, <1>7, <2>1, <2>2, TableIs, TableIsNext
  <1>8. CASE x.obj \in RealFiles
    <2>1. {g \in Fds : IsReal(g)'} = {g \in Fds \ {fd} : IsReal(g)'} \cup {fd}
      BY <1>1, <1>8 DEF IsReal
    <2>2. {EntryDesc(e) : e \in fd_map'} = {EntryDesc(e) : e \in fd_map} \ {KernelDesc(fd)}
      BY <1>3
    <2>3. KernelDesc(fd)' = [fd |-> fd, gen |-> x.gen, file |-> x.obj, off |-> x.off]
      BY <1>1 DEF KernelDesc
    <2> QED
      BY <1>2, <1>5, <1>6, <1>8, <2>1, <2>2, <2>3, TableIs, TableIsNext
  <1> QED
    BY <1>2, <1>7, <1>8

-----------------------------------------------------------------------------
(* The application's side of a step: a call begins or returns.             *)
AbsCalls == [t \in Threads |-> AbsCall(call[t])]

LEMMA AbsNoCall == AbsCall(NoCall).op = "none"
  BY DEF AbsCall, NoCall

LEMMA AbsReturn ==
  ASSUME TypeOK, NEW t \in Threads, NEW r, Return(t, r), call[t].op # "none"
  PROVE  Abs!Return(t, r)
  <1>1. AbsCall(call[t]).op # "none"
    BY DEF AbsCall
  <1>2. AbsCall(call[t]) # AbsCall(NoCall)
    BY <1>1, AbsNoCall
  <1>3. /\ \A u \in Threads \ {t} : call'[u] = call[u]
        /\ call'[t] = NoCall /\ ret' = [ret EXCEPT ![t] = r]
    BY DEF Return, TypeOK
  <1>4. AbsCalls' = [AbsCalls EXCEPT ![t] = AbsCall(NoCall)]
    BY <1>3 DEF AbsCalls
  <1> QED
    BY <1>2, <1>3, <1>4 DEF Abs!Return, AbsCalls


LEMMA AbsInvoke ==
  ASSUME RefInv, NEW t \in Threads, NEW op, NEW h, NEW arg, Invoke(t, op, h, arg)
  PROVE  /\ op = "open" /\ arg = NoArg =>
              Abs!Invoke(t, op, AbsCall(NoCall).fd, AbsCall(NoCall).gen, arg)
         /\ op # "open" => Abs!Invoke(t, op, h.fd, h.gen, arg)
  <1> DEFINE c == [op |-> op, fd |-> h.fd, gen |-> h.gen, file |-> h.file, arg |-> arg]
  <1>1. call[t] = NoCall
    BY DEF RefInv, PcOK, Invoke
  <1>2. call' = [call EXCEPT ![t] = c] /\ ret' = [ret EXCEPT ![t] = NoRet]
    BY DEF Invoke
  <1>3. AbsTable' = AbsTable
    BY TableSame DEF Invoke
  <1>4. AbsCalls' = [AbsCalls EXCEPT ![t] = AbsCall(c)]
    <2>1. call'[t] = c /\ \A u \in Threads \ {t} : call'[u] = call[u]
      BY <1>2 DEF RefInv, IInv, TypeOK
    <2> HIDE DEF c
    <2> QED
      BY <2>1 DEF AbsCalls
  <1>5. /\ c.op = op /\ c.fd = h.fd /\ c.gen = h.gen /\ c.arg = arg
    OBVIOUS
  <1> HIDE DEF c
  <1>6. op # "open" => AbsCall(c) = [op |-> op, fd |-> h.fd, gen |-> h.gen, arg |-> arg]
    BY <1>5 DEF AbsCall
  <1>7. NoCall.op # "open"
    BY DEF NoCall
  <1>8. AbsCall(NoCall).fd = NoCall.fd /\ AbsCall(NoCall).gen = NoCall.gen
    BY <1>7 DEF AbsCall
  <1>9. op = "open" =>
          AbsCall(c) = [op |-> op, fd |-> AbsCall(NoCall).fd, gen |-> AbsCall(NoCall).gen,
                        arg |-> NoArg]
    BY <1>5, <1>8 DEF AbsCall
  <1> QED
    BY <1>1, <1>2, <1>3, <1>4, <1>6, <1>9 DEF Abs!Invoke, AbsCalls

(* A call that begins here begins there.                                   *)
LEMMA SimCalls ==
  ASSUME RefInv, NEW t \in Threads, Calls(t)
  PROVE  Abs!Next
  <1>1. CASE call_open(t)
    <2>1. Invoke(t, "open", NoCall, NoArg) /\ held' = held
      BY <1>1 DEF call_open
    <2>2. Abs!CallOpen(t)
      BY <2>1, AbsInvoke DEF Abs!CallOpen
    <2> QED
      BY <2>2 DEF Abs!Next
  <1>2. ASSUME NEW h \in held, call_read(t, h) \/ call_close(t, h) PROVE Abs!Next
    <2>1. CASE call_read(t, h)
      <3>1. Abs!Invoke(t, "read", h.fd, h.gen, NoArg) /\ held' = held
        BY <2>1, AbsInvoke DEF call_read
      <3> QED
        BY <3>1 DEF Abs!Next, Abs!CallOn
    <2>2. CASE call_close(t, h)
      <3>1. Abs!Invoke(t, "close", h.fd, h.gen, NoArg) /\ held' = held \ {h}
        BY <2>2, AbsInvoke DEF call_close
      <3> QED
        BY <3>1 DEF Abs!Next, Abs!CallOn
    <2> QED
      BY <1>2, <2>1, <2>2
  <1>3. ASSUME NEW h \in held, NEW a \in SeekArgs, call_pread(t, h, a) \/ call_lseek(t, h, a)
        PROVE  Abs!Next
    <2>1. PICK op \in {"pread", "lseek"} : Abs!Invoke(t, op, h.fd, h.gen, a) /\ held' = held
      BY <1>3, AbsInvoke DEF call_pread, call_lseek
    <2>2. Abs!CallOn(t, h)
      BY <2>1 DEF Abs!CallOn
    <2> QED
      BY <2>2 DEF Abs!Next
  <1> QED
    BY <1>1, <1>2, <1>3 DEF Calls

(* The call of a thread, as the application made it.                       *)
LEMMA AbsCallFields ==
  ASSUME NEW t \in Threads
  PROVE  /\ AbsCalls[t].op = call[t].op
         /\ call[t].op # "open" => /\ AbsCalls[t].fd = call[t].fd
                                   /\ AbsCalls[t].gen = call[t].gen
                                   /\ AbsCalls[t].arg = call[t].arg
  BY DEF AbsCalls, AbsCall

(* A step inside a call that the application cannot tell.                  *)
LEMMA SimStutter ==
  ASSUME RefInv, NEW t \in Threads, UNCHANGED <<fd_map, held, ret>>,
         UNCHANGED call \/ (call[t].op = "open" /\ call'[t].op = "open" /\ Others(t)),
         \A fd \in Fds : IsReal(fd) \/ IsReal(fd)' => kfd'[fd] = kfd[fd]
  PROVE  UNCHANGED Abs!vars
  <1>1. AbsTable' = AbsTable
    BY TableSame
  <1>2. \A u \in Threads : AbsCall(call'[u]) = AbsCall(call[u])
    BY DEF AbsCall, Others
  <1>3. AbsCalls' = AbsCalls
    BY <1>2 DEF AbsCalls
  <1> QED
    BY <1>1, <1>3 DEF Abs!vars, AbsCalls

(* A call fails and changes nothing.                                       *)
LEMMA SimFailed ==
  ASSUME RefInv, NEW t \in Threads, Return(t, NoRet), UNCHANGED <<fd_map, kfd, held>>,
         call[t].op \in Ops \ {"none", "close"}
  PROVE  Abs!Next
  <1>1. AbsTable' = AbsTable
    BY TableSame
  <1>2. Abs!Return(t, NoRet)
    BY AbsReturn DEF RefInv, IInv
  <1>3. Abs!Failed(t)
    BY <1>1, <1>2, AbsCallFields DEF Abs!Failed, AbsCalls
  <1> QED
    BY <1>3 DEF Abs!Next


(* The arithmetic of OpenFiles is that of SeekOps.                         *)
LEMMA AbsArithmetic ==
  /\ \A s, o, c : Abs!sqfs_data_reader_read(s, o, c) = sqfs_data_reader_read(s, o, c)
  /\ \A s, c, o, w, m : Abs!sqfs_lseek_mapped(s, c, o, w, m) = sqfs_lseek_mapped(s, c, o, w, m)
  /\ \A w : Abs!MaxReturn(w) = MaxReturn(w)
  <1>1. \A s, o, c : Abs!sqfs_data_reader_read(s, o, c) = sqfs_data_reader_read(s, o, c)
    BY Zenon DEF Abs!sqfs_data_reader_read, sqfs_data_reader_read
  <1>2. \A w : Abs!MaxReturn(w) = MaxReturn(w)
    BY Zenon DEF Abs!MaxReturn, MaxReturn
  <1>3. /\ \A e : Abs!Fail(e) = Fail(e)
        /\ \A v : Abs!Result(v) = Result(v)
        /\ \A x : Abs!ToU64(x) = ToU64(x)
    BY Zenon DEF Abs!ToU64, ToU64, Abs!Fail, Fail, Abs!Result, Result
  <1>4. \A b, o : Abs!sqfs_seek_add(b, o) = sqfs_seek_add(b, o)
    BY <1>3, Zenon DEF Abs!sqfs_seek_add, sqfs_seek_add
  <1>5. \A s, c, o, w : Abs!sqfs_seek_calculate(s, c, o, w) = sqfs_seek_calculate(s, c, o, w)
    BY <1>3, <1>4, SMT DEF Abs!sqfs_seek_calculate, sqfs_seek_calculate
  <1>6. \A s, c, o, w, m : Abs!sqfs_lseek_mapped(s, c, o, w, m) = sqfs_lseek_mapped(s, c, o, w, m)
    BY <1>3, <1>5, Zenon DEF Abs!sqfs_lseek_mapped, sqfs_lseek_mapped
  <1> QED
    BY <1>1, <1>2, <1>6

-----------------------------------------------------------------------------
(* sqfs_open takes effect when the real open succeeds, or at HASH_ADD_INT. *)
LEMMA SimOpenReal ==
  ASSUME RefInv, NEW t \in Threads, NEW fd \in Fds, NEW r \in RealFiles,
         sqfs_open_real(t, fd, r)
  PROVE  Abs!Next
  <1>0. TypeOK /\ DescInv /\ r # None /\ r \in Files /\ opens \in Nat /\ MaxOpens \in Nat
    BY FdMapAssumption, DescTypes DEF RefInv, IInv, Files
  <1>1. /\ pc[t] = "open_real" /\ CreateFd(fd, r) /\ UNCHANGED fd_map
        /\ held' = held \cup {[fd |-> fd, gen |-> opens + 1, file |-> r]}
        /\ Return(t, [src |-> r, off |-> 0, n |-> 0])
    BY DEF sqfs_open_real
  <1>2. call[t].op = "open"
    BY <1>1 DEF RefInv, PcOK, OpenPCs
  <1>3. ~IsOpen(fd) /\ kfd' = [kfd EXCEPT ![fd] = [obj |-> r, gen |-> opens + 1, off |-> 0]]
    BY <1>1 DEF CreateFd, LowestFree
  <1>4. ~IsReal(fd)
    BY <1>3, FdMapAssumption DEF IsOpen, IsReal, Files
  <1>5. AbsTable' = AbsTable \cup {[fd |-> fd, gen |-> opens + 1, file |-> r, off |-> 0]}
    <2> DEFINE x == [obj |-> r, gen |-> opens + 1, off |-> 0]
    <2>1. x.obj = r /\ x.gen = opens + 1 /\ x.off = 0 /\ kfd' = [kfd EXCEPT ![fd] = x]
      BY <1>3
    <2> HIDE DEF x
    <2> QED
      BY <1>0, <1>1, <1>4, <2>1, TableAddReal
  <1>6. ASSUME NEW d \in AbsTable PROVE d.fd # fd /\ d.gen # opens + 1
    <2>1. d.fd \in Fds /\ IsOpen(d.fd) /\ kfd[d.fd].gen = d.gen
      BY TableLives
    <2>2. kfd[d.fd].gen <= opens /\ kfd[d.fd].gen \in Nat
      BY <1>0, <2>1, DescTypes DEF DescInv, KernelInv
    <2> QED
      BY <1>0, <1>3, <2>1, <2>2
  <1>7. Abs!Return(t, [src |-> r, off |-> 0, n |-> 0])
    BY <1>0, <1>1, <1>2, AbsReturn
  <1>8. AbsCalls[t].op = "open"
    BY <1>2, AbsCallFields
  <1>9. Abs!Open(t, fd, opens + 1, r)
    BY <1>1, <1>5, <1>6, <1>7, <1>8 DEF Abs!Open, AbsCalls
  <1>10. opens + 1 \in 1 .. MaxOpens
    BY <1>0, <1>1 DEF CreateFd
  <1> QED
    BY <1>0, <1>9, <1>10 DEF Abs!Next

LEMMA SimOpenAdd ==
  ASSUME RefInv, NEW t \in Threads, sqfs_open_add(t)
  PROVE  Abs!Next
  <1> DEFINE c == call[t]
             e == [key |-> c.fd, inode |-> c.file, offset |-> 0, gen |-> c.gen]
  <1>0. TypeOK /\ DescInv /\ MaxOpens \in Nat /\ c.fd \in Fds /\ c.gen \in Gens
    BY FdMapAssumption, Fields DEF RefInv, IInv
  <1>1. /\ pc[t] = "open_add" /\ UNCHANGED kfd
        /\ fd_map' = fd_map \cup {e}
        /\ held' = held \cup {[fd |-> c.fd, gen |-> c.gen, file |-> c.file]}
        /\ Return(t, [src |-> c.file, off |-> 0, n |-> 0])
    BY DEF sqfs_open_add
  <1>2. SoleOpener(t)
    BY <1>0, <1>1 DEF DescInv, OpeningInv, Opening
  <1>3. c.op = "open" /\ c.file \in Inodes /\ Alive(c.fd, c.gen) /\ kfd[c.fd].obj = Backing
    BY <1>2 DEF SoleOpener
  <1>4. AbsTable' = AbsTable \cup {[fd |-> c.fd, gen |-> c.gen, file |-> c.file, off |-> 0]}
    <2>1. EntryDesc(e) = [fd |-> c.fd, gen |-> c.gen, file |-> c.file, off |-> 0]
      BY DEF EntryDesc
    <2> HIDE DEF e
    <2> QED
      BY <1>1, <2>1, TableAddEntry
  <1>5. ASSUME NEW d \in AbsTable PROVE d.fd # c.fd /\ d.gen # c.gen
    <2>1. d.fd \in Fds /\ IsOpen(d.fd) /\ kfd[d.fd].gen = d.gen
      BY TableLives
    <2>2. d.gen = c.gen => d.fd = c.fd
      BY <1>0, <1>3, <2>1 DEF DescInv, KernelInv, Alive
    <2>3. d.fd # c.fd
      <3>1. \A f \in fd_map : f.key # c.fd
        BY <1>2 DEF SoleOpener
      <3>2. ~IsReal(c.fd)
        BY <1>3, FdMapAssumption DEF IsReal, Files
      <3> QED
        BY <3>1, <3>2, TableLives DEF EntryDesc
    <2> QED
      BY <2>2, <2>3
  <1>6. Abs!Return(t, [src |-> c.file, off |-> 0, n |-> 0])
    BY <1>0, <1>1, <1>3, AbsReturn
  <1>7. AbsCalls[t].op = "open"
    BY <1>3, AbsCallFields
  <1>8. Abs!Open(t, c.fd, c.gen, c.file)
    BY <1>1, <1>4, <1>5, <1>6, <1>7 DEF Abs!Open, AbsCalls
  <1>9. c.gen \in 1 .. MaxOpens /\ c.file \in Files
    BY <1>0, <1>3 DEF Alive, Gens, Files
  <1> QED
    BY <1>0, <1>8, <1>9 DEF Abs!Next

-----------------------------------------------------------------------------
(* A read or pread of an image file takes effect when libsquashfs is done. *)
LEMMA SimReadDone ==
  ASSUME RefInv, NEW t \in Threads, NEW e \in fd_map, read_done(t, e)
  PROVE  Abs!Next
  <1> DEFINE n == sqfs_data_reader_read(Size[e.inode], off[t], Count)
             d == EntryDesc(e)
  <1>0. TypeOK /\ PcOK(t) /\ ReadOK(t) /\ off[t] \in Nat
    BY Fields DEF RefInv, IInv
  <1>1. /\ InLibraryRead(t) /\ e.gen = found[t] /\ UNCHANGED <<kfd, held>>
        /\ Return(t, [src |-> e.inode, off |-> off[t], n |-> n])
        /\ fd_map' = IF call[t].op = "read"
                     THEN (fd_map \ {e}) \cup {EntryAt(e, e.offset + n)} ELSE fd_map
    BY DEF read_done, InLibraryRead
  <1>2. e.key = call[t].fd
    BY <1>1, GenUnique DEF RefInv, IInv, DescInv, NoUseAfterFree
  <1>3. /\ d \in AbsTable /\ d.fd = e.key /\ d.file = e.inode /\ d.off = e.offset
    BY TableIs DEF EntryDesc
  <1>4. call[t].op \in {"read", "pread"}
    BY <1>0, <1>1 DEF PcOK
  <1>5. /\ AbsCalls[t].op = call[t].op /\ AbsCalls[t].fd = call[t].fd
        /\ AbsCalls[t].arg = call[t].arg
    BY <1>4, AbsCallFields
  <1>6. Abs!Return(t, [src |-> e.inode, off |-> off[t], n |-> n])
    BY <1>0, <1>1, <1>4, AbsReturn
  <1>7. CASE call[t].op = "read"
    <2>1. off[t] = e.offset
      BY <1>0, <1>1, <1>7 DEF ReadOK
    <2>2. AbsTable' = (AbsTable \ {d}) \cup {[d EXCEPT !.off = e.offset + n]}
      BY <1>1, <1>7, TableMoveEntry
    <2>3. n = sqfs_data_reader_read(Size[d.file], d.off, Count)
      BY <1>3, <2>1
    <2> HIDE DEF n, d
    <2>4. Abs!Read(t, d)
      BY <1>1, <1>2, <1>3, <1>5, <1>6, <1>7, <2>1, <2>2, <2>3, AbsArithmetic
         DEF Abs!Read, AbsCalls
    <2> QED
      BY <1>3, <2>4 DEF Abs!Next
  <1>8. CASE call[t].op = "pread"
    <2>1. off[t] = call[t].arg.offset
      BY <1>0, <1>1, <1>8 DEF ReadOK
    <2>2. AbsTable' = AbsTable
      BY <1>1, <1>8, TableSame
    <2>3. n = sqfs_data_reader_read(Size[d.file], call[t].arg.offset, Count)
      BY <1>3, <2>1
    <2>4. call[t].arg.offset >= 0
      BY <1>0, <2>1
    <2> HIDE DEF n, d
    <2>5. Abs!PRead(t, d)
      BY <1>1, <1>2, <1>3, <1>5, <1>6, <1>8, <2>1, <2>2, <2>3, <2>4, AbsArithmetic
         DEF Abs!PRead, AbsCalls
    <2> QED
      BY <1>3, <2>5 DEF Abs!Next
  <1> QED
    BY <1>4, <1>7, <1>8

(* A seek on an image file is one step under the mutex.                    *)
LEMMA SimLseekHit ==
  ASSUME RefInv, NEW t \in Threads, NEW e \in fd_map, lseek_hit(t, e)
  PROVE  Abs!Next
  <1> DEFINE a == call[t].arg
             res == sqfs_lseek_mapped(Size[e.inode], e.offset, a.offset, a.whence,
                                      MaxReturn(a.wide))
             d == EntryDesc(e)
  <1>0. TypeOK
    BY DEF RefInv, IInv
  <1>1. /\ call[t].op = "lseek" /\ e.key = call[t].fd /\ UNCHANGED <<kfd, held>>
        /\ \/ /\ res.err = "OK"
              /\ fd_map' = (fd_map \ {e}) \cup {EntryAt(e, res.out)}
              /\ Return(t, [src |-> e.inode, off |-> res.out, n |-> 0])
           \/ Return(t, NoRet) /\ UNCHANGED fd_map
    BY DEF lseek_hit, HASH_FIND_INT
  <1>2. CASE Return(t, NoRet) /\ UNCHANGED fd_map
    BY <1>1, <1>2, SimFailed DEF Ops
  <1>3. CASE /\ res.err = "OK"
             /\ fd_map' = (fd_map \ {e}) \cup {EntryAt(e, res.out)}
             /\ Return(t, [src |-> e.inode, off |-> res.out, n |-> 0])
    <2>1. /\ d \in AbsTable /\ d.fd = e.key /\ d.file = e.inode /\ d.off = e.offset
      BY TableIs DEF EntryDesc
    <2>2. AbsTable' = (AbsTable \ {d}) \cup {[d EXCEPT !.off = res.out]}
      BY <1>1, <1>3, TableMoveEntry
    <2>3. /\ AbsCalls[t].op = "lseek" /\ AbsCalls[t].fd = call[t].fd /\ AbsCalls[t].arg = a
      BY <1>1, AbsCallFields
    <2>4. Abs!Return(t, [src |-> d.file, off |-> res.out, n |-> 0])
      BY <1>0, <1>1, <1>3, <2>1, AbsReturn
    <2>5. res = sqfs_lseek_mapped(Size[d.file], d.off, a.offset, a.whence, MaxReturn(a.wide))
      BY <2>1
    <2> HIDE DEF res, d, a
    <2>6. Abs!LSeek(t, d)
      BY <1>1, <1>3, <2>1, <2>2, <2>3, <2>4, <2>5, AbsArithmetic DEF Abs!LSeek, AbsCalls
    <2> QED
      BY <2>1, <2>6 DEF Abs!Next
  <1> QED
    BY <1>1, <1>2, <1>3


-----------------------------------------------------------------------------
(* A close of an image file takes effect at HASH_DEL.                      *)
LEMMA SimCloseHit ==
  ASSUME RefInv, NEW t \in Threads, NEW e \in fd_map, close_hit(t, e)
  PROVE  Abs!Next
  <1> DEFINE d == EntryDesc(e)
  <1>1. /\ pc[t] = "lock" /\ call[t].op = "close" /\ e.key = call[t].fd
        /\ fd_map' = fd_map \ {e} /\ UNCHANGED <<call, ret, kfd, held>>
    BY DEF close_hit, HASH_FIND_INT
  <1>2. Alive(call[t].fd, call[t].gen) /\ kfd[e.key].gen = e.gen
    BY <1>1 DEF RefInv, IInv, DescInv, ClosingInv, Closing, SoleCloser, NoStaleEntry
  <1>3. d \in AbsTable /\ d.fd = e.key /\ d.gen = e.gen
    BY TableIs DEF EntryDesc
  <1>4. d.fd = call[t].fd /\ d.gen = call[t].gen
    BY <1>1, <1>2, <1>3 DEF Alive
  <1>5. AbsTable' = AbsTable \ {d}
    BY <1>1, TableDelEntry
  <1>6. /\ AbsCalls[t].op = "close" /\ AbsCalls[t].fd = call[t].fd
        /\ AbsCalls[t].gen = call[t].gen /\ AbsCalls' = AbsCalls
    BY <1>1, AbsCallFields DEF AbsCalls
  <1> HIDE DEF d
  <1>7. Abs!Close(t, d)
    BY <1>1, <1>4, <1>5, <1>6 DEF Abs!Close, AbsCalls
  <1> QED
    BY <1>3, <1>7 DEF Abs!Next

(* A call that reaches the real function and finds no real file there has  *)
(* lost the race with a close.                                             *)
LEMMA RaceLost ==
  ASSUME RefInv, NEW t \in Threads, pc[t] = "real", call[t].op \in FdOps,
         ~IsReal(call[t].fd)
  PROVE  Abs!LostRace(t)
  <1>1. LifeOK(t)
    BY DEF RefInv
  <1>2. ASSUME NEW d \in AbsTable, d.gen = call[t].gen PROVE FALSE
    <2>1. d.fd \in Fds /\ IsOpen(d.fd) /\ kfd[d.fd].gen = d.gen
      BY TableLives
    <2>2. d.fd = call[t].fd
      BY <1>1, <1>2, <2>1 DEF LifeOK
    <2>3. PICK e \in fd_map : d = EntryDesc(e)
      BY <2>2, TableLives
    <2>4. e.gen = d.gen
      BY <2>3 DEF EntryDesc
    <2> QED
      BY <1>1, <1>2, <2>4 DEF LifeOK
  <1>3. AbsCalls[t].gen = call[t].gen
    BY AbsCallFields DEF FdOps
  <1> QED
    BY <1>2, <1>3 DEF Abs!LostRace, AbsCalls

LEMMA SimEmpty ==
  ASSUME RefInv, NEW t \in Threads, pc[t] = "real", call[t].op \in {"read", "pread", "lseek"},
         ~IsReal(call[t].fd), NEW o \in 0 .. I64_MAX,
         Return(t, [src |-> Backing, off |-> o, n |-> 0]), UNCHANGED <<held, fd_map>>,
         \A fd \in Fds : IsReal(fd) \/ IsReal(fd)' => kfd'[fd] = kfd[fd]
  PROVE  Abs!Next
  <1>1. Abs!LostRace(t)
    BY RaceLost DEF FdOps
  <1>2. Abs!Return(t, [src |-> Backing, off |-> o, n |-> 0])
    BY AbsReturn DEF RefInv, IInv
  <1>3. AbsTable' = AbsTable
    BY TableSame
  <1>4. AbsCalls[t].op \in {"read", "pread", "lseek"}
    BY AbsCallFields
  <1>5. Abs!ReadEmpty(t)
    BY <1>1, <1>2, <1>3, <1>4 DEF Abs!ReadEmpty, AbsCalls
  <1> QED
    BY <1>5 DEF Abs!Next

(* What a number denotes that is open, not a real file, and not the        *)
(* image's.                                                                *)
LEMMA OnlyBacking ==
  ASSUME RefInv, NEW t \in Threads, call[t].op \in FdOps, ~IsReal(call[t].fd),
         kfd[call[t].fd].obj # None
  PROVE  kfd[call[t].fd].obj = Backing /\ kfd[call[t].fd].off \in 0 .. I64_MAX
  <1>1. TypeOK /\ call[t].fd \in Fds
    BY Fields DEF RefInv, IInv
  <1>2. call[t].fd # ImageFd
    BY DEF RefInv, LifeOK
  <1>3. kfd[call[t].fd].obj = Backing
    BY <1>1, <1>2, DescFields DEF RefInv, NumberInv, IsReal
  <1>4. kfd[call[t].fd].off <= I64_MAX /\ kfd[call[t].fd].off \in Nat /\ I64_MAX \in Nat
    BY <1>1, <1>3, DescFields, WidthAssumption DEF RefInv, NumberInv
  <1> QED
    BY <1>3, <1>4

(* A position of an empty backing file moves: no description changes.      *)
LEMMA BackingMoves ==
  ASSUME RefInv, NEW fd \in Fds, kfd[fd].obj = Backing, NEW o,
         kfd' = [kfd EXCEPT ![fd] = DescAt(kfd[fd], o)] \/ kfd' = kfd
  PROVE  \A f \in Fds : IsReal(f) \/ IsReal(f)' => kfd'[f] = kfd[f]
  <1>1. Backing \notin RealFiles
    BY FdMapAssumption DEF Files
  <1>2. CASE kfd' = kfd
    BY <1>2
  <1>3. CASE kfd' = [kfd EXCEPT ![fd] = DescAt(kfd[fd], o)]
    <2>1. kfd'[fd].obj = Backing /\ \A f \in Fds \ {fd} : kfd'[f] = kfd[f]
      BY <1>3 DEF RefInv, IInv, TypeOK, DescAt
    <2> QED
      BY <1>1, <2>1 DEF IsReal
  <1> QED
    BY <1>2, <1>3

(* A read or pread by the real function.                                   *)
LEMMA SimRealRead ==
  ASSUME RefInv, NEW t \in Threads, real_read(t)
  PROVE  Abs!Next
  <1> DEFINE fd == call[t].fd
             d  == kfd[fd]
             o  == IF call[t].op = "pread" THEN call[t].arg.offset ELSE d.off
             n  == sqfs_data_reader_read(ObjSize(d.obj), o, Count)
             k  == KernelDesc(fd)
  <1>0. /\ TypeOK /\ fd \in Fds /\ call[t].arg \in Arg
        /\ d.off \in Nat /\ ObjSize(d.obj) \in Nat
    BY Fields, DescFields DEF RefInv, IInv
  <1>1. /\ pc[t] = "real" /\ call[t].op \in {"read", "pread"} /\ UNCHANGED <<fd_map, held>>
        /\ IF d.obj = None \/ o < 0
           THEN Return(t, NoRet) /\ UNCHANGED kfd
           ELSE /\ Return(t, [src |-> d.obj, off |-> o, n |-> n])
                /\ kfd' = IF call[t].op = "read"
                          THEN [kfd EXCEPT ![fd] = DescAt(d, d.off + n)] ELSE kfd
    BY DEF real_read
  <1>2. /\ AbsCalls[t].op = call[t].op /\ AbsCalls[t].fd = fd /\ AbsCalls[t].arg = call[t].arg
    BY <1>1, AbsCallFields
  <1>3. (o \in Int /\ o <= I64_MAX) \/ (call[t].op = "read" /\ o = d.off)
    BY <1>0, <1>1, WidthAssumption DEF Arg, Off64
  <1>4. CASE d.obj = None \/ o < 0
    BY <1>1, <1>4, SimFailed DEF Ops
  <1>5. CASE d.obj # None /\ ~(o < 0) /\ ~IsReal(fd)
    <2>1. d.obj = Backing /\ d.off \in 0 .. I64_MAX
      BY <1>1, <1>5, OnlyBacking DEF FdOps
    <2>2. o \in 0 .. I64_MAX
      BY <1>3, <1>5, <2>1, WidthAssumption
    <2>3. n = 0
      <3>1. ObjSize(d.obj) = 0
        BY <2>1, FdMapAssumption DEF ObjSize, Files
      <3>2. o \in Nat /\ o >= 0
        BY <2>2, WidthAssumption
      <3> HIDE DEF o, d
      <3> QED
        BY <3>1, <3>2, ReadNat, ConstTypes
    <2>4. Return(t, [src |-> Backing, off |-> o, n |-> 0])
      BY <1>1, <1>5, <2>1, <2>3
    <2>5. \A f \in Fds : IsReal(f) \/ IsReal(f)' => kfd'[f] = kfd[f]
      <3>1. kfd' = [kfd EXCEPT ![fd] = DescAt(kfd[fd], d.off + n)] \/ kfd' = kfd
        BY <1>1, <1>5
      <3> HIDE DEF n, o, fd
      <3> QED
        BY <1>0, <2>1, <3>1, BackingMoves
    <2> HIDE DEF o
    <2> QED
      BY <1>1, <1>5, <2>2, <2>4, <2>5, SimEmpty
  <1>6. CASE ~(o < 0) /\ IsReal(fd)
    <2>0. d.obj # None /\ ObjSize(d.obj) = Size[d.obj]
      BY <1>6, FdMapAssumption DEF IsReal, ObjSize, Files
    <2>1. k \in AbsTable
      BY <1>0, <1>6, TableIs
    <2>2. k.fd = fd /\ k.gen = d.gen /\ k.file = d.obj /\ k.off = d.off
      BY DEF KernelDesc
    <2>3. Return(t, [src |-> d.obj, off |-> o, n |-> n])
      BY <1>1, <1>6, <2>0
    <2>4. Abs!Return(t, [src |-> d.obj, off |-> o, n |-> n])
      BY <1>0, <1>1, <2>3, AbsReturn
    <2>5. CASE call[t].op = "read"
      <3>1. o = d.off /\ n = sqfs_data_reader_read(Size[k.file], k.off, Count)
        BY <2>0, <2>2, <2>5
      <3>2. kfd' = [kfd EXCEPT ![fd] = DescAt(d, d.off + n)]
        BY <1>1, <1>6, <2>0, <2>5
      <3>3. AbsTable' = (AbsTable \ {k}) \cup {[k EXCEPT !.off = d.off + n]}
        <4> DEFINE x == DescAt(d, d.off + n)
        <4>1. x.obj = d.obj /\ x.gen = d.gen /\ x.off = d.off + n /\ x.obj \in RealFiles
          BY <1>6 DEF DescAt, IsReal
        <4>2. [fd |-> fd, gen |-> x.gen, file |-> x.obj, off |-> x.off]
                = [k EXCEPT !.off = d.off + n]
          BY <4>1 DEF KernelDesc
        <4>3. kfd' = [kfd EXCEPT ![fd] = x]
          BY <3>2
        <4> HIDE DEF x
        <4>4. AbsTable' = (AbsTable \ {KernelDesc(fd)})
                          \cup {[fd |-> fd, gen |-> x.gen, file |-> x.obj, off |-> x.off]}
          BY <1>0, <1>1, <1>6, <4>1, <4>3, TableReal
        <4> QED
          BY <4>2, <4>4
      <3> HIDE DEF n, o, k, d, fd
      <3>4. Abs!Read(t, k)
        BY <1>1, <1>2, <2>2, <2>4, <2>5, <3>1, <3>3, AbsArithmetic DEF Abs!Read, AbsCalls
      <3> QED
        BY <2>1, <3>4 DEF Abs!Next
    <2>6. CASE call[t].op = "pread"
      <3>1. o = call[t].arg.offset /\ n = sqfs_data_reader_read(Size[k.file], o, Count)
        BY <2>0, <2>2, <2>6
      <3>2. kfd' = kfd
        BY <1>1, <1>6, <2>0, <2>6
      <3>3. AbsTable' = AbsTable
        BY <1>1, <3>2, TableSame
      <3>4. call[t].arg.offset >= 0
        BY <1>6, <1>0, <3>1 DEF Arg, Off64
      <3> HIDE DEF n, o, k, d, fd
      <3>5. Abs!PRead(t, k)
        BY <1>1, <1>2, <2>2, <2>4, <2>6, <3>1, <3>3, <3>4, AbsArithmetic
           DEF Abs!PRead, AbsCalls
      <3> QED
        BY <2>1, <3>5 DEF Abs!Next
    <2> QED
      BY <1>1, <2>5, <2>6
  <1> QED
    BY <1>4, <1>5, <1>6


(* A seek by the real function.                                            *)
LEMMA SimRealLseek ==
  ASSUME RefInv, NEW t \in Threads, real_lseek(t)
  PROVE  Abs!Next
  <1> DEFINE fd  == call[t].fd
             d   == kfd[fd]
             a   == call[t].arg
             res == sqfs_lseek_mapped(ObjSize(d.obj), d.off, a.offset, a.whence,
                                      MaxReturn(a.wide))
             k   == KernelDesc(fd)
  <1>0. TypeOK /\ fd \in Fds /\ a \in Arg /\ d.off \in Nat /\ ObjSize(d.obj) \in Nat
    BY Fields, DescFields DEF RefInv, IInv
  <1>1. /\ pc[t] = "real" /\ call[t].op = "lseek" /\ UNCHANGED <<fd_map, held>>
        /\ IF d.obj = None \/ res.err # "OK"
           THEN Return(t, NoRet) /\ UNCHANGED kfd
           ELSE /\ Return(t, [src |-> d.obj, off |-> res.out, n |-> 0])
                /\ kfd' = [kfd EXCEPT ![fd] = DescAt(d, res.out)]
    BY DEF real_lseek
  <1>2. AbsCalls[t].op = "lseek" /\ AbsCalls[t].fd = fd /\ AbsCalls[t].arg = a
    BY <1>1, AbsCallFields
  <1>3. CASE d.obj = None \/ res.err # "OK"
    BY <1>1, <1>3, SimFailed DEF Ops
  <1>4. CASE d.obj # None /\ res.err = "OK" /\ ~IsReal(fd)
    <2>1. d.obj = Backing
      BY <1>1, <1>4, OnlyBacking DEF FdOps
    <2>2. res.out \in 0 .. I64_MAX
      BY <1>0, <1>4, SeekBound
    <2> HIDE DEF res
    <2>3. Return(t, [src |-> Backing, off |-> res.out, n |-> 0])
      BY <1>1, <1>4, <2>1
    <2>4. \A f \in Fds : IsReal(f) \/ IsReal(f)' => kfd'[f] = kfd[f]
      BY <1>0, <1>1, <1>4, <2>1, BackingMoves
    <2> QED
      BY <1>1, <1>4, <2>2, <2>3, <2>4, SimEmpty
  <1>5. CASE res.err = "OK" /\ IsReal(fd)
    <2>0. d.obj # None /\ ObjSize(d.obj) = Size[d.obj]
      BY <1>5, FdMapAssumption DEF IsReal, ObjSize, Files
    <2>1. k \in AbsTable
      BY <1>0, <1>5, TableIs
    <2>2. k.fd = fd /\ k.gen = d.gen /\ k.file = d.obj /\ k.off = d.off
      BY DEF KernelDesc
    <2>3. res = sqfs_lseek_mapped(Size[k.file], k.off, a.offset, a.whence, MaxReturn(a.wide))
      BY <2>0, <2>2
    <2> HIDE DEF res
    <2>4. /\ Return(t, [src |-> d.obj, off |-> res.out, n |-> 0])
          /\ kfd' = [kfd EXCEPT ![fd] = DescAt(d, res.out)]
      BY <1>1, <1>5, <2>0
    <2>5. Abs!Return(t, [src |-> k.file, off |-> res.out, n |-> 0])
      BY <1>0, <1>1, <2>2, <2>4, AbsReturn
    <2>6. AbsTable' = (AbsTable \ {k}) \cup {[k EXCEPT !.off = res.out]}
      <3> DEFINE x == DescAt(d, res.out)
      <3>1. x.obj = d.obj /\ x.gen = d.gen /\ x.off = res.out /\ x.obj \in RealFiles
        BY <1>5 DEF DescAt, IsReal
      <3>2. [fd |-> fd, gen |-> x.gen, file |-> x.obj, off |-> x.off]
              = [k EXCEPT !.off = res.out]
        BY <3>1 DEF KernelDesc
      <3>3. kfd' = [kfd EXCEPT ![fd] = x]
        BY <2>4
      <3> HIDE DEF x
      <3>4. AbsTable' = (AbsTable \ {KernelDesc(fd)})
                        \cup {[fd |-> fd, gen |-> x.gen, file |-> x.obj, off |-> x.off]}
        BY <1>0, <1>1, <1>5, <3>1, <3>3, TableReal
      <3> QED
        BY <3>2, <3>4
    <2> HIDE DEF k, d, fd, a
    <2>7. Abs!LSeek(t, k)
      BY <1>1, <1>2, <1>5, <2>2, <2>3, <2>5, <2>6, AbsArithmetic DEF Abs!LSeek, AbsCalls
    <2> QED
      BY <2>1, <2>7 DEF Abs!Next
  <1> QED
    BY <1>3, <1>4, <1>5

(* The kernel's close is the close of a real file; of an image file, which *)
(* HASH_DEL has closed already, it is only the return.                     *)
LEMMA SimRealClose ==
  ASSUME RefInv, NEW t \in Threads, real_close(t)
  PROVE  Abs!Next
  <1> DEFINE fd == call[t].fd
             k  == KernelDesc(fd)
  <1>0. TypeOK /\ fd \in Fds
    BY Fields DEF RefInv, IInv
  <1>1. /\ pc[t] = "real" /\ call[t].op = "close" /\ UNCHANGED <<fd_map, held>>
        /\ kfd' = [kfd EXCEPT ![fd] = Closed] /\ Return(t, NoRet)
    BY DEF real_close
  <1>2. Alive(fd, call[t].gen)
    BY <1>1 DEF RefInv, IInv, DescInv, ClosingInv, Closing, SoleCloser
  <1>3. /\ AbsCalls[t].op = "close" /\ AbsCalls[t].fd = fd /\ AbsCalls[t].gen = call[t].gen
    BY <1>1, AbsCallFields
  <1>4. Abs!Return(t, NoRet)
    BY <1>0, <1>1, AbsReturn
  <1>5. Closed.obj \notin RealFiles
    BY FdMapAssumption DEF Closed, Files
  <1>6. CASE IsReal(fd)
    <2>1. k \in AbsTable /\ AbsTable' = AbsTable \ {k}
      BY <1>0, <1>1, <1>5, <1>6, TableReal
    <2>2. k.fd = fd /\ k.gen = call[t].gen
      BY <1>2 DEF KernelDesc, Alive
    <2> HIDE DEF k, fd
    <2>3. Abs!Close(t, k)
      BY <1>1, <1>3, <1>4, <2>1, <2>2 DEF Abs!Close, AbsCalls
    <2> QED
      BY <2>1, <2>3 DEF Abs!Next
  <1>7. CASE ~IsReal(fd)
    <2>1. Abs!LostRace(t)
      BY <1>1, <1>7, RaceLost DEF FdOps
    <2>2. /\ kfd'[fd] = Closed
          /\ \A f \in Fds \ {fd} : kfd'[f] = kfd[f]
      BY <1>0, <1>1 DEF TypeOK
    <2>3. AbsTable' = AbsTable
      BY <1>1, <1>5, <1>7, <2>2, TableSame DEF IsReal
    <2>4. Abs!CloseReturns(t)
      BY <1>1, <1>3, <1>4, <2>1, <2>3 DEF Abs!CloseReturns, AbsCalls
    <2> QED
      BY <2>4 DEF Abs!Next
  <1> QED
    BY <1>6, <1>7

-----------------------------------------------------------------------------
(* The steps of sqfs_open around its effect.                               *)
LEMMA SimOpenInside ==
  ASSUME RefInv, NEW t \in Threads
  PROVE  /\ \A fd \in Fds, i \in Inodes :
              create_backing_fd(t, fd, i) => UNCHANGED Abs!vars
         /\ sqfs_open_undo(t) => UNCHANGED Abs!vars
  <1>0. TypeOK /\ Backing \notin RealFiles /\ None \notin RealFiles /\ call[t].fd \in Fds
    BY FdMapAssumption, Fields DEF RefInv, IInv, Files
  <1>1. ASSUME NEW fd \in Fds, NEW i \in Inodes, create_backing_fd(t, fd, i)
        PROVE  UNCHANGED Abs!vars
    <2>1. /\ pc[t] = "open_found" /\ CreateFd(fd, Backing) /\ UNCHANGED <<ret, fd_map, held>>
      BY <1>1 DEF create_backing_fd
    <2>2. call[t].op = "open" /\ call'[t].op = "open"
      BY <1>0, <1>1, <2>1 DEF create_backing_fd, RefInv, PcOK, OpenPCs, TypeOK
    <2>3. Others(t)
      BY <1>0, <1>1, OthersStep DEF Step
    <2>4. ~IsReal(fd) /\ ~IsReal(fd)' /\ \A f \in Fds \ {fd} : kfd'[f] = kfd[f]
      BY <1>0, <2>1 DEF CreateFd, LowestFree, IsOpen, IsReal, TypeOK
    <2> QED
      BY <2>1, <2>2, <2>3, <2>4, SimStutter
  <1>2. CASE sqfs_open_undo(t)
    <2>1. /\ UNCHANGED <<call, ret, fd_map, held>>
          /\ kfd' = [kfd EXCEPT ![call[t].fd] = Closed]
      BY <1>2 DEF sqfs_open_undo
    <2>2. kfd[call[t].fd].obj = Backing
      BY <1>2 DEF sqfs_open_undo, RefInv, IInv, DescInv, OpeningInv, Opening, SoleOpener
    <2>3. /\ ~IsReal(call[t].fd) /\ ~IsReal(call[t].fd)'
          /\ \A f \in Fds \ {call[t].fd} : kfd'[f] = kfd[f]
      <3>1. kfd'[call[t].fd] = Closed /\ \A f \in Fds \ {call[t].fd} : kfd'[f] = kfd[f]
        BY <1>0, <2>1 DEF TypeOK
      <3>2. kfd'[call[t].fd].obj = None /\ call'[t].fd = call[t].fd
        BY <2>1, <3>1 DEF Closed
      <3> QED
        BY <1>0, <2>2, <3>1, <3>2 DEF IsReal
    <2>4. \A f \in Fds : IsReal(f) \/ IsReal(f)' => kfd'[f] = kfd[f]
      BY <2>1, <2>3
    <2> QED
      BY <2>1, <2>4, SimStutter
  <1> QED
    BY <1>1, <1>2

(* Locking, missing and libsquashfs' own reads.                            *)
LEMMA SimInside ==
  ASSUME RefInv, NEW t \in Threads,
         \/ sqfs_open_convert(t) \/ sqfs_open_lock(t) \/ sqfs_open_malloc_fails(t)
         \/ image_pread_lock(t) \/ image_pread_miss(t) \/ find_miss(t)
         \/ \E e \in fd_map : read_hit(t, e)
  PROVE  UNCHANGED Abs!vars
  <1>1. UNCHANGED <<call, ret, fd_map, held, kfd>>
    BY DEF sqfs_open_convert, sqfs_open_lock, sqfs_open_malloc_fails, image_pread_lock,
           image_pread_miss, find_miss, read_hit
  <1> QED
    BY <1>1, SimStutter

(* The failures.                                                           *)
LEMMA SimFails ==
  ASSUME RefInv, NEW t \in Threads,
         \/ sqfs_open_refused(t) \/ sqfs_open_fails(t) \/ pread_negative(t)
         \/ read_fails(t) \/ real_fails(t)
  PROVE  Abs!Next
  <1>1. Return(t, NoRet) /\ UNCHANGED <<fd_map, kfd, held>>
    BY DEF sqfs_open_refused, sqfs_open_fails, pread_negative, read_fails, real_fails
  <1>2. PcOK(t)
    BY DEF RefInv
  <1>3. call[t].op \in {"open", "read", "pread", "lseek"}
    BY <1>2 DEF sqfs_open_refused, sqfs_open_fails, pread_negative, read_fails, real_fails,
                PcOK, OpenPCs, InLibraryRead
  <1> QED
    BY <1>1, <1>3, SimFailed DEF Ops

(* Every step of FdMap is a step of OpenFiles or changes none of it.       *)
LEMMA SimStep ==
  ASSUME RefInv, [Next]_vars
  PROVE  [Abs!Next]_(Abs!vars)
  <1>1. ASSUME NEW t \in Threads, Calls(t) PROVE Abs!Next
    BY <1>1, SimCalls
  <1>2. ASSUME NEW t \in Threads, Step(t) PROVE Abs!Next \/ UNCHANGED Abs!vars
    BY <1>2, SimOpenReal, SimOpenAdd, SimReadDone, SimLseekHit, SimCloseHit, SimRealRead,
       SimRealLseek, SimRealClose, SimOpenInside, SimInside, SimFails DEF Step
  <1>3. CASE UNCHANGED vars
    <2>1. AbsTable' = AbsTable
      BY <1>3, TableSame DEF vars
    <2> QED
      BY <1>3, <2>1 DEF vars, Abs!vars
  <1> QED
    BY <1>1, <1>2, <1>3 DEF Next

LEMMA SimInit ==
  ASSUME Init
  PROVE  Abs!Init
  <1>1. fd_map = {} /\ held = {} /\ call = [t \in Threads |-> NoCall]
        /\ ret = [t \in Threads |-> NoRet]
    BY DEF Init
  <1>2. \A fd \in Fds : kfd[fd].obj \in {Image, None}
    BY DEF Init, Closed
  <1>3. \A fd \in Fds : ~IsReal(fd)
    BY <1>2, FdMapAssumption DEF IsReal, Files
  <1>4. AbsTable = {}
    BY <1>1, <1>3, TableIs
  <1>5. AbsCalls = [t \in Threads |-> AbsCall(NoCall)]
    BY <1>1 DEF AbsCalls
  <1> QED
    BY <1>1, <1>4, <1>5 DEF Abs!Init, AbsCalls

(* open, read, pread, lseek and close, hooked and run by any number of     *)
(* threads in any interleaving with the kernel, are the atomic calls of    *)
(* OpenFiles: an open takes effect at HASH_ADD_INT, a read when            *)
(* libsquashfs is done, a close at HASH_DEL.                               *)
THEOREM Implements == Spec => ImplementsOpenFiles
  <1>1. Init => Abs!Init
    BY SimInit
  <1>2. RefInv /\ [Next]_vars => [Abs!Next]_(Abs!vars)
    BY SimStep
  <1> QED
    BY <1>1, <1>2, RefInvariance, PTL DEF Spec, ImplementsOpenFiles, Abs!Spec


=============================================================================
