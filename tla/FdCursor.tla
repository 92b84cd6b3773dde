----------------------------- MODULE FdCursor ------------------------------
(***************************************************************************)
(* One squashfs-backed descriptor used by one thread: the position kept in *)
(* FDMapEntry.offset under read, pread, pread64, lseek and lseek64 with    *)
(* every argument the C types admit (sqfs_mgr.c, lines 587-852, the        *)
(* branches where HASH_FIND_INT finds the descriptor).  Locking and the    *)
(* map itself are modelled in FdMap.                                       *)
(***************************************************************************)
EXTENDS SeekOps

CONSTANTS
  SIZE_MAX,  \* the largest size_t: U32_MAX in a 32-bit build, more in a 64-bit one
  MaxSize    \* bound: the largest file of the image considered

ASSUME CursorAssumption ==
  /\ SIZE_MAX \in Nat /\ SIZE_MAX >= U32_MAX
  /\ MaxSize \in 0 .. I64_MAX

VARIABLES
  size,      \* sqfs_inode_size(found->inode), fixed while the descriptor is open
  offset,    \* FDMapEntry.offset
  last       \* the last call with its arguments and result (for the properties)

vars == <<size, offset, last>>

NoCall == [op |-> "none", arg |-> 0, whence |-> "SEEK_SET", count |-> 0,
           err |-> "OK", out |-> 0]

Done(op, arg, whence, count, res) ==
  last' = [op |-> op, arg |-> arg, whence |-> whence, count |-> count,
           err |-> res.err, out |-> res.out]

Init ==
  /\ size \in 0 .. MaxSize
  /\ offset = 0
  /\ last = NoCall

(* Mutant: the position advances by what was asked, not what was read.     *)
sqfs_read_by_count(count) ==
  LET ret == sqfs_data_reader_read(size, offset, count)
  IN /\ offset' = offset + count
     /\ Done("read", offset, "SEEK_CUR", count, Result(ret))
     /\ UNCHANGED size

(* sqfs_read: data from the current position, then found->offset += ret.   *)
sqfs_read(count) ==
  LET ret == sqfs_data_reader_read(size, offset, count)
  IN /\ offset' = offset + ret
     /\ Done("read", offset, "SEEK_CUR", count, Result(ret))
     /\ UNCHANGED size

(* sqfs_read when libsquashfs reports an error: the position is kept.      *)
sqfs_read_fails(count) ==
  /\ Done("read", offset, "SEEK_CUR", count, Fail("EIO"))
  /\ UNCHANGED <<size, offset>>

(* Mutant: pread reads at the descriptor's own position.                   *)
sqfs_pread_at_cursor(count, pos) ==
  /\ Done("pread", pos, "SEEK_SET", count,
          IF pos < 0 THEN Fail("EINVAL")
          ELSE Result(sqfs_data_reader_read(size, offset, count)))
  /\ UNCHANGED <<size, offset>>

(* sqfs_pread / sqfs_pread64 through sqfs_pread_mapped.                    *)
sqfs_pread_mapped(count, pos) ==
  /\ Done("pread", pos, "SEEK_SET", count,
          IF pos < 0 THEN Fail("EINVAL")
          ELSE Result(sqfs_data_reader_read(size, pos, count)))
  /\ UNCHANGED <<size, offset>>

(* sqfs_pread_mapped when libsquashfs reports an error.                    *)
sqfs_pread_fails(count, pos) ==
  /\ pos >= 0
  /\ Done("pread", pos, "SEEK_SET", count, Fail("EIO"))
  /\ UNCHANGED <<size, offset>>

sqfs_pread(count, pos)   == pos \in OffT  /\ sqfs_pread_mapped(count, pos)
sqfs_pread64(count, pos) == pos \in Off64 /\ sqfs_pread_mapped(count, pos)

(* The common body of sqfs_lseek and sqfs_lseek64.                         *)
Seek(op, arg, whence, wide) ==
  LET res == sqfs_lseek_mapped(size, offset, arg, whence, MaxReturn(wide))
  IN /\ offset' = IF res.err = "OK" THEN res.out ELSE offset
     /\ Done(op, arg, whence, 0, res)
     /\ UNCHANGED size

sqfs_lseek(arg, whence)   == arg \in OffT  /\ Seek("lseek", arg, whence, FALSE)
sqfs_lseek64(arg, whence) == arg \in Off64 /\ Seek("lseek64", arg, whence, TRUE)

Counts  == 0 .. SIZE_MAX
Whences == Whence \cup {"unknown"}

Next ==
  \/ \E count \in Counts : sqfs_read(count) \/ sqfs_read_fails(count)
  \/ \E count \in Counts, pos \in Off64 :
       sqfs_pread(count, pos) \/ sqfs_pread64(count, pos) \/ sqfs_pread_fails(count, pos)
  \/ \E arg \in Off64, whence \in Whences :
       sqfs_lseek(arg, whence) \/ sqfs_lseek64(arg, whence)

Spec == Init /\ [][Next]_vars

-----------------------------------------------------------------------------
(* Type invariant.                                                         *)
TypeOK ==
  /\ size \in 0 .. I64_MAX
  /\ offset \in U64
  /\ last.out \in U64

(* The position of a descriptor is always an off64_t: no sequence of       *)
(* reads and seeks takes FDMapEntry.offset (a uint64_t) past INT64_MAX,    *)
(* so lseek64(fd, 0, SEEK_CUR) can always report it.                       *)
CursorRepresentable == offset <= I64_MAX

(* What lseek promises, over unbounded integers: the base selected by      *)
(* whence plus the offset.                                                 *)
Target(whence, arg) ==
  IF whence = "SEEK_CUR" THEN offset + arg
  ELSE IF whence = "SEEK_END" THEN size + arg
  ELSE IF whence = "SEEK_HOLE" THEN size
  ELSE arg

Admissible(whence, arg) ==
  /\ whence = "SEEK_DATA" => arg \in 0 .. size - 1
  /\ whence = "SEEK_HOLE" => arg \in 0 .. size

(* A seek succeeds exactly when the true target is a non-negative value    *)
(* of the caller's offset type, and then the position and the result are   *)
(* that target; otherwise the position does not move (sqfs_seek_add's      *)
(* unsigned arithmetic and the max_return check never wrap or truncate).   *)
SeekExact ==
  [][last'.op \in {"lseek", "lseek64"} =>
       LET w  == last'.whence
           a  == last'.arg
           ok == /\ w \in Whence
                 /\ Admissible(w, a)
                 /\ Target(w, a) \in 0 .. MaxReturn(last'.op = "lseek64")
       IN IF ok
          THEN last'.err = "OK" /\ last'.out = Target(w, a) /\ offset' = last'.out
          ELSE last'.err # "OK" /\ offset' = offset
    ]_vars

(* A successful read of zero bytes means end of file ("Success or EOF",    *)
(* sqfs_mgr.c:607): callers such as shared_read_main stop reading on 0.    *)
ZeroMeansEOF ==
  last.op \in {"read", "pread"} /\ last.err = "OK" /\ last.out = 0
    => last.count = 0 \/ last.arg >= size
=============================================================================
