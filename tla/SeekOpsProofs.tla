--------------------------- MODULE SeekOpsProofs ---------------------------
(***************************************************************************)
(* What the offset arithmetic of SeekOps computes, for integers of every   *)
(* width that satisfies WidthAssumption.                                   *)
(***************************************************************************)
EXTENDS SeekOps, TLAPS

(* A libsquashfs read returns a byte count, and never reads past the end.  *)
LEMMA ReadNat ==
  ASSUME NEW size \in Nat, NEW o \in Nat, NEW count \in Nat
  PROVE  /\ sqfs_data_reader_read(size, o, count) \in Nat
         /\ o <= size => o + sqfs_data_reader_read(size, o, count) <= size
         /\ o >= size => sqfs_data_reader_read(size, o, count) = 0
  <1> DEFINE arg == count % (U32_MAX + 1)
             half == U32_MAX \div 2
  <1>1. arg \in Nat
    BY WidthAssumption
  <1>2. half \in Nat /\ half >= 1
    BY WidthAssumption
  <1> HIDE DEF arg, half
  <1>3. (IF arg >= half THEN half - 1 ELSE arg) \in Nat
    BY <1>1, <1>2
  <1>4. \A want \in Nat :
           LET n == IF o >= size THEN 0 ELSE IF size - o < want THEN size - o ELSE want
           IN n \in Nat /\ (o <= size => o + n <= size) /\ (o >= size => n = 0)
    OBVIOUS
  <1> QED
    BY <1>3, <1>4 DEF sqfs_data_reader_read, arg, half

(* A request that fits sqfs_u32 is answered with zero bytes only at the    *)
(* end of the file.                                                        *)
LEMMA ReadZero ==
  ASSUME NEW size \in Nat, NEW o \in Nat, NEW count \in 1 .. U32_MAX,
         sqfs_data_reader_read(size, o, count) = 0
  PROVE  o >= size
  <1>1. count % (U32_MAX + 1) = count
    BY WidthAssumption
  <1>2. U32_MAX \div 2 >= 2 /\ U32_MAX \div 2 \in Nat
    BY WidthAssumption
  <1> QED
    BY <1>1, <1>2, WidthAssumption DEF sqfs_data_reader_read

(* sqfs_seek_add is addition over the integers, refused outside the        *)
(* unsigned range: the cast and the "+ 1" of the distance never wrap.      *)
LEMMA SeekAdd ==
  ASSUME NEW base \in Nat, NEW offset \in Off64
  PROVE  LET r == sqfs_seek_add(base, offset)
         IN /\ r = Result(base + offset) \/ r.err \in {"EINVAL", "EOVERFLOW"}
            /\ r.out \in Nat
            /\ base <= U64_MAX => 
                 (r.err = "OK" <=> base + offset >= 0 /\ base + offset <= U64_MAX)
  <1>0. offset \in Int /\ U64_MAX \in Nat
    BY WidthAssumption DEF Off64
  <1>1. CASE offset < 0
    <2> DEFINE distance == ToU64(-(offset + 1)) + 1
    <2>1. distance = -offset
      BY <1>0, <1>1 DEF ToU64
    <2>2. CASE distance > base
      <3>1. sqfs_seek_add(base, offset) = Fail("EINVAL")
        BY <1>0, <1>1, <2>2 DEF sqfs_seek_add
      <3> QED
        BY <1>0, <1>1, <2>1, <2>2, <3>1 DEF Fail, Result
    <2>3. CASE distance <= base
      <3>1. sqfs_seek_add(base, offset) = Result(base - distance)
        BY <1>0, <1>1, <2>1, <2>3 DEF sqfs_seek_add
      <3> QED
        BY <1>0, <1>1, <2>1, <2>3, <3>1 DEF Fail, Result
    <2> QED
      BY <1>0, <2>1, <2>2, <2>3
  <1>2. CASE offset >= 0
    <2>1. CASE U64_MAX - base < offset
      <3>1. sqfs_seek_add(base, offset) = Fail("EOVERFLOW")
        BY <1>0, <1>2, <2>1 DEF sqfs_seek_add
      <3> QED
        BY <1>0, <1>2, <2>1, <3>1 DEF Fail, Result
    <2>2. CASE U64_MAX - base >= offset
      <3>1. sqfs_seek_add(base, offset) = Result(base + offset)
        BY <1>0, <1>2, <2>2 DEF sqfs_seek_add
      <3> QED
        BY <1>0, <1>2, <2>2, <3>1 DEF Fail, Result
    <2> QED
      BY <1>0, <2>1, <2>2
  <1> QED
    BY <1>0, <1>1, <1>2

(* lseek's result for every whence: the target over the integers when the  *)
(* caller's type can hold it, and otherwise an error.                      *)
LEMMA SeekMapped ==
  ASSUME NEW size \in 0 .. I64_MAX, NEW cur \in 0 .. I64_MAX, NEW offset \in Off64,
         NEW whence, NEW max \in 1 .. I64_MAX
  PROVE  LET r == sqfs_lseek_mapped(size, cur, offset, whence, max)
             Adds(base) == IF base + offset \in 0 .. max THEN r = Result(base + offset)
                                                         ELSE r.err # "OK"
         IN /\ whence = "SEEK_SET" => Adds(0)
            /\ whence = "SEEK_CUR" => Adds(cur)
            /\ whence = "SEEK_END" => Adds(size)
            /\ whence = "SEEK_DATA" => IF offset \in 0 .. size - 1 /\ offset <= max
                                       THEN r = Result(offset) ELSE r.err # "OK"
            /\ whence = "SEEK_HOLE" => IF offset \in 0 .. size /\ size <= max
                                       THEN r = Result(size) ELSE r.err # "OK"
            /\ whence \notin Whence => r.err # "OK"
            /\ r.out \in Nat
            /\ r.err = "OK" => r.out <= max
  <1> DEFINE new == sqfs_seek_calculate(size, cur, offset, whence)
             r   == sqfs_lseek_mapped(size, cur, offset, whence, max)
             Adds(base) == IF base + offset \in 0 .. max THEN r = Result(base + offset)
                                                         ELSE r.err # "OK"
  <1>0. /\ offset \in Int /\ size \in Nat /\ cur \in Nat /\ max \in Nat
        /\ U64_MAX \in Nat /\ max <= U64_MAX /\ size <= U64_MAX /\ cur <= U64_MAX
    BY WidthAssumption DEF Off64
  <1>1. ASSUME NEW base \in Nat, base <= U64_MAX, new = sqfs_seek_add(base, offset)
        PROVE  Adds(base) /\ r.out \in Nat /\ (r.err = "OK" => r.out <= max)
    <2> DEFINE q == sqfs_seek_add(base, offset)
    <2>1. /\ q = Result(base + offset) \/ q.err \in {"EINVAL", "EOVERFLOW"}
          /\ q.out \in Nat
          /\ q.err = "OK" <=> base + offset >= 0 /\ base + offset <= U64_MAX
      BY <1>1, SeekAdd
    <2>2. r = IF q.err = "OK" /\ q.out > max THEN Fail("EOVERFLOW") ELSE q
      BY <1>1 DEF sqfs_lseek_mapped
    <2> HIDE DEF q, r
    <2>3. CASE q = Result(base + offset)
      BY <1>0, <2>1, <2>2, <2>3 DEF Result, Fail
    <2>4. CASE q.err \in {"EINVAL", "EOVERFLOW"}
      BY <1>0, <2>1, <2>2, <2>4 DEF Result, Fail
    <2> QED
      BY <2>1, <2>3, <2>4
  <1>2. r = IF new.err = "OK" /\ new.out > max THEN Fail("EOVERFLOW") ELSE new
    BY DEF sqfs_lseek_mapped
  <1>3. CASE whence = "SEEK_SET"
    <2>1. new = sqfs_seek_add(0, offset)
      BY <1>3 DEF sqfs_seek_calculate
    <2>2. Adds(0) /\ r.out \in Nat /\ (r.err = "OK" => r.out <= max)
      BY <1>0, <1>1, <2>1
    <2> QED
      BY <1>3, <2>2 DEF Whence
  <1>4. CASE whence = "SEEK_CUR"
    <2>1. new = sqfs_seek_add(cur, offset)
      BY <1>4 DEF sqfs_seek_calculate
    <2>2. Adds(cur) /\ r.out \in Nat /\ (r.err = "OK" => r.out <= max)
      BY <1>0, <1>1, <2>1
    <2> QED
      BY <1>4, <2>2 DEF Whence
  <1>5. CASE whence = "SEEK_END"
    <2>1. new = sqfs_seek_add(size, offset)
      BY <1>5 DEF sqfs_seek_calculate
    <2>2. Adds(size) /\ r.out \in Nat /\ (r.err = "OK" => r.out <= max)
      BY <1>0, <1>1, <2>1
    <2> QED
      BY <1>5, <2>2 DEF Whence
  <1>6. CASE whence = "SEEK_DATA"
    <2>1. new = IF offset < 0 THEN Fail("EINVAL")
                ELSE IF offset >= size THEN Fail("ENXIO") ELSE Result(offset)
      BY <1>6 DEF sqfs_seek_calculate
    <2> QED
      BY <1>0, <1>2, <1>6, <2>1 DEF Fail, Result, Whence
  <1>7. CASE whence = "SEEK_HOLE"
    <2>1. new = IF offset < 0 THEN Fail("EINVAL")
                ELSE IF offset > size THEN Fail("ENXIO") ELSE Result(size)
      BY <1>7 DEF sqfs_seek_calculate
    <2> QED
      BY <1>0, <1>2, <1>7, <2>1 DEF Fail, Result, Whence
  <1>8. CASE whence \notin Whence
    <2>1. new = Fail("EINVAL")
      BY <1>8 DEF sqfs_seek_calculate, Whence
    <2> QED
      BY <1>0, <1>2, <1>8, <2>1 DEF Fail, Result, Whence
  <1> QED
    BY <1>3, <1>4, <1>5, <1>6, <1>7, <1>8 DEF Whence

(* Whatever the position, a seek yields a natural number.                  *)
LEMMA SeekNat ==
  ASSUME NEW size \in Nat, NEW cur \in Nat, NEW offset \in Off64,
         NEW whence, NEW max \in Nat
  PROVE  sqfs_lseek_mapped(size, cur, offset, whence, max).out \in Nat
  <1> DEFINE new == sqfs_seek_calculate(size, cur, offset, whence)
  <1>1. /\ sqfs_seek_add(0, offset).out \in Nat
        /\ sqfs_seek_add(cur, offset).out \in Nat
        /\ sqfs_seek_add(size, offset).out \in Nat
    BY SeekAdd
  <1>2. offset \in Int
    BY WidthAssumption DEF Off64
  <1>3. new.out \in Nat
    BY <1>1, <1>2 DEF sqfs_seek_calculate, Fail, Result
  <1> HIDE DEF new
  <1>4. sqfs_lseek_mapped(size, cur, offset, whence, max)
          = IF new.err = "OK" /\ new.out > max THEN Fail("EOVERFLOW") ELSE new
    BY DEF sqfs_lseek_mapped, new
  <1> QED
    BY <1>3, <1>4 DEF Fail
=============================================================================
