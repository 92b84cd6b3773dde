------------------------------ MODULE SeekOps ------------------------------
(***************************************************************************)
(* The offset arithmetic of a squashfs-backed descriptor (sqfs_mgr.c,      *)
(* lines 629-799): sqfs_seek_add, sqfs_seek_calculate, sqfs_lseek_mapped,  *)
(* and the libsquashfs call sqfs_data_reader_read as the code uses it.     *)
(*                                                                         *)
(* Machine integers are represented by their largest values, so that the   *)
(* model can use four-bit "64-bit" integers and still meet every boundary. *)
(***************************************************************************)
EXTENDS Integers

CONSTANTS
  U64_MAX,   \* UINT64_MAX
  I64_MAX,   \* INT64_MAX: the largest off64_t
  OFF_MAX,   \* the largest off_t (2^31-1 in the default BITS=32 build)
  U32_MAX    \* the largest sqfs_u32, the type of libsquashfs' byte counts

ASSUME WidthAssumption ==
  /\ I64_MAX \in Nat \ {0}
  /\ U64_MAX = 2 * I64_MAX + 1
  /\ OFF_MAX \in 1 .. I64_MAX
  /\ U32_MAX \in Nat /\ U32_MAX >= 4

U64   == 0 .. U64_MAX
Off64 == -(I64_MAX + 1) .. I64_MAX      \* off64_t
OffT  == -(OFF_MAX + 1) .. OFF_MAX      \* off_t

Whence == {"SEEK_SET", "SEEK_CUR", "SEEK_END", "SEEK_DATA", "SEEK_HOLE"}

(* The cast (uint64_t)x of an int64_t.                                     *)
ToU64(x) == IF x < 0 THEN x + U64_MAX + 1 ELSE x

Fail(e)   == [err |-> e, out |-> 0]
Result(v) == [err |-> "OK", out |-> v]

(* Mutant: the distance of a negative offset forgets the one it shifted by. *)
sqfs_seek_add_off_by_one(base, offset) ==
  LET distance == ToU64(-(offset + 1))
  IN IF offset < 0
     THEN IF distance > base THEN Fail("EINVAL") ELSE Result(base - distance)
     ELSE IF U64_MAX - base < offset THEN Fail("EOVERFLOW") ELSE Result(base + offset)

(* int sqfs_seek_add(base, offset, *out): the distance of a negative       *)
(* offset is formed without ever negating INT64_MIN.                       *)
sqfs_seek_add(base, offset) ==
  LET distance == ToU64(-(offset + 1)) + 1
  IN IF offset < 0
     THEN IF distance > base THEN Fail("EINVAL") ELSE Result(base - distance)
     ELSE IF U64_MAX - base < offset THEN Fail("EOVERFLOW") ELSE Result(base + offset)

(* int sqfs_seek_calculate(fd_record, offset, whence, *new_offset), for a  *)
(* descriptor at position cur of an inode of the given size.               *)
sqfs_seek_calculate(size, cur, offset, whence) ==
  IF whence = "SEEK_SET" THEN sqfs_seek_add(0, offset)
  ELSE IF whence = "SEEK_CUR" THEN sqfs_seek_add(cur, offset)
  ELSE IF whence = "SEEK_END" THEN sqfs_seek_add(size, offset)
  ELSE IF whence \notin {"SEEK_DATA", "SEEK_HOLE"} \/ offset < 0 THEN Fail("EINVAL")
  ELSE IF whence = "SEEK_DATA"
       THEN IF offset >= size THEN Fail("ENXIO") ELSE Result(offset)
       ELSE IF offset > size THEN Fail("ENXIO") ELSE Result(size)

(* The bound a caller passes as max_return: INT64_MAX for lseek64 and      *)
(* max_signed_value_for_size(sizeof(off_t)) for lseek.                     *)
MaxReturn(wide) == IF wide THEN I64_MAX ELSE OFF_MAX

(* Mutant: no comparison with max_return.                                  *)
sqfs_lseek_mapped_unbounded(size, cur, offset, whence, max_return) ==
  sqfs_seek_calculate(size, cur, offset, whence)

(* int sqfs_lseek_mapped(...): on "OK" the descriptor moves to out, on any *)
(* error its position is left alone.                                       *)
sqfs_lseek_mapped(size, cur, offset, whence, max_return) ==
  LET new == sqfs_seek_calculate(size, cur, offset, whence)
  IN IF new.err = "OK" /\ new.out > max_return THEN Fail("EOVERFLOW") ELSE new

(* sqfs_data_reader_read of libsquashfs: the count parameter is a sqfs_u32 *)
(* (a wider size_t is truncated by the call), the result a sqfs_s32, so a  *)
(* request is cut to less than half the range; the rest is the file's end. *)
sqfs_data_reader_read(size, offset, count) ==
  LET arg  == count % (U32_MAX + 1)
      half == U32_MAX \div 2
      want == IF arg >= half THEN half - 1 ELSE arg
  IN IF offset >= size THEN 0
     ELSE IF size - offset < want THEN size - offset
     ELSE want
=============================================================================
