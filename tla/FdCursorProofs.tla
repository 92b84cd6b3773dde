-------------------------- MODULE FdCursorProofs ---------------------------
(***************************************************************************)
(* The properties of FdCursor for integers and files of every size.        *)
(***************************************************************************)
EXTENDS FdCursor, SeekOpsProofs

(* The position is an off64_t and so is the file's size: what the steps    *)
(* need of one another.                                                    *)
IInv == TypeOK /\ CursorRepresentable

(* A freshly opened descriptor is at position 0.                           *)
LEMMA InitOK == Init => IInv
  <1> SUFFICES ASSUME Init PROVE IInv
    OBVIOUS
  <1> QED
    BY WidthAssumption, CursorAssumption
       DEF Init, IInv, TypeOK, CursorRepresentable, U64, NoCall

(* The values a step works on are of the types SeekMapped speaks of.       *)
LEMMA Ranges ==
  ASSUME IInv
  PROVE  /\ size \in 0 .. I64_MAX /\ offset \in 0 .. I64_MAX
         /\ I64_MAX \in Nat /\ U64_MAX \in Nat /\ I64_MAX <= U64_MAX
         /\ \A wide \in BOOLEAN : MaxReturn(wide) \in 1 .. I64_MAX
  BY WidthAssumption DEF IInv, TypeOK, CursorRepresentable, U64, MaxReturn

(* Every seek, successful or not, is the one SeekExact describes.          *)
LEMMA SeekStep ==
  ASSUME IInv, NEW op, NEW arg \in Off64, NEW whence, NEW wide \in BOOLEAN,
         Seek(op, arg, whence, wide)
  PROVE  /\ IF /\ whence \in Whence
               /\ Admissible(whence, arg)
               /\ Target(whence, arg) \in 0 .. MaxReturn(wide)
            THEN last'.err = "OK" /\ last'.out = Target(whence, arg) /\ offset' = last'.out
            ELSE last'.err # "OK" /\ offset' = offset
         /\ last'.out \in U64 /\ offset' \in 0 .. I64_MAX /\ size' = size
         /\ last'.op = op /\ last'.arg = arg /\ last'.whence = whence
  <1> DEFINE max == MaxReturn(wide)
             r   == sqfs_lseek_mapped(size, offset, arg, whence, max)
             Adds(base) == IF base + arg \in 0 .. max THEN r = Result(base + arg)
                                                      ELSE r.err # "OK"
  <1>0. /\ size \in 0 .. I64_MAX /\ offset \in 0 .. I64_MAX /\ max \in 1 .. I64_MAX
        /\ I64_MAX \in Nat /\ U64_MAX \in Nat /\ I64_MAX <= U64_MAX /\ arg \in Int
    BY Ranges, WidthAssumption DEF Off64
  <1>1. /\ whence = "SEEK_SET" => Adds(0)
        /\ whence = "SEEK_CUR" => Adds(offset)
        /\ whence = "SEEK_END" => Adds(size)
        /\ whence = "SEEK_DATA" => IF arg \in 0 .. size - 1 /\ arg <= max
                                   THEN r = Result(arg) ELSE r.err # "OK"
        /\ whence = "SEEK_HOLE" => IF arg \in 0 .. size /\ size <= max
                                   THEN r = Result(size) ELSE r.err # "OK"
        /\ whence \notin Whence => r.err # "OK"
        /\ r.out \in Nat
        /\ r.err = "OK" => r.out <= max
    BY <1>0, SeekMapped
  <1>2. /\ last' = [op |-> op, arg |-> arg, whence |-> whence, count |-> 0,
                    err |-> r.err, out |-> r.out]
        /\ offset' = IF r.err = "OK" THEN r.out ELSE offset
        /\ size' = size
    BY DEF Seek, Done
  <1> HIDE DEF r, max
  <1>3. r.err = "OK" => offset' \in 0 .. I64_MAX
    BY <1>0, <1>1, <1>2
  <1>4. last'.out \in U64
    <2>1. r.err = "OK" => r.out \in U64
      BY <1>0, <1>1 DEF U64
    <2>2. r.err # "OK" => r.out = 0
      BY <1>0 DEF r, sqfs_lseek_mapped, sqfs_seek_calculate, sqfs_seek_add, Fail, Result
    <2> QED
      BY <1>0, <1>2, <2>1, <2>2 DEF U64
  <1>5. IF /\ whence \in Whence
           /\ Admissible(whence, arg)
           /\ Target(whence, arg) \in 0 .. max
        THEN r = Result(Target(whence, arg))
        ELSE r.err # "OK"
    BY <1>0, <1>1 DEF Whence, Admissible, Target
  <1> QED
    BY <1>0, <1>2, <1>3, <1>4, <1>5 DEF Result, max

(* sqfs_read moves the position no further than the end of the file, or    *)
(* not at all when it is already past it.                                  *)
LEMMA ReadStep ==
  ASSUME IInv, NEW count \in Counts, sqfs_read(count)
  PROVE  IInv'
  <1> DEFINE ret == sqfs_data_reader_read(size, offset, count)
  <1>1. /\ size \in 0 .. I64_MAX /\ offset \in 0 .. I64_MAX /\ count \in Nat
        /\ size \in Nat /\ offset \in Nat
        /\ I64_MAX \in Nat /\ U64_MAX \in Nat /\ I64_MAX <= U64_MAX
    BY Ranges, CursorAssumption DEF Counts
  <1>2. /\ ret \in Nat
        /\ offset <= size => offset + ret <= size
        /\ offset >= size => ret = 0
    BY <1>1, ReadNat
  <1>3. offset' = offset + ret /\ size' = size /\ last'.out = ret
    BY DEF sqfs_read, Done, Result
  <1> HIDE DEF ret
  <1> QED
    BY <1>1, <1>2, <1>3 DEF IInv, TypeOK, CursorRepresentable, U64

(* sqfs_pread and sqfs_pread64 leave the position alone.                   *)
LEMMA PreadStep ==
  ASSUME IInv, NEW count \in Counts, NEW pos \in Off64, sqfs_pread_mapped(count, pos)
  PROVE  IInv'
  <1> DEFINE ret == sqfs_data_reader_read(size, pos, count)
  <1>1. /\ size \in 0 .. I64_MAX /\ offset \in 0 .. I64_MAX /\ count \in Nat
        /\ size \in Nat /\ offset \in Nat
        /\ I64_MAX \in Nat /\ U64_MAX \in Nat /\ I64_MAX <= U64_MAX /\ pos \in Int
    BY Ranges, CursorAssumption, WidthAssumption DEF Counts, Off64
  <1>2. ASSUME pos \in Nat
        PROVE  /\ ret \in Nat
               /\ pos <= size => pos + ret <= size
               /\ pos >= size => ret = 0
    BY <1>1, <1>2, ReadNat
  <1>3. /\ offset' = offset /\ size' = size
        /\ last'.out = IF pos < 0 THEN 0 ELSE ret
    BY DEF sqfs_pread_mapped, Done, Result, Fail
  <1> HIDE DEF ret
  <1> QED
    BY <1>1, <1>2, <1>3 DEF IInv, TypeOK, CursorRepresentable, U64

(* The invariant is inductive.                                             *)
LEMMA NextOK ==
  ASSUME IInv, [Next]_vars
  PROVE  IInv'
  <1>1. ASSUME NEW count \in Counts, sqfs_read(count) PROVE IInv'
    BY <1>1, ReadStep
  <1>2. ASSUME NEW count \in Counts, sqfs_read_fails(count) PROVE IInv'
    BY <1>2, Ranges DEF sqfs_read_fails, Done, Fail, IInv, TypeOK, CursorRepresentable, U64
  <1>3. ASSUME NEW count \in Counts, NEW pos \in Off64,
               sqfs_pread(count, pos) \/ sqfs_pread64(count, pos)
        PROVE  IInv'
    BY <1>3, PreadStep DEF sqfs_pread, sqfs_pread64
  <1>4. ASSUME NEW arg \in Off64, NEW whence \in Whences,
               sqfs_lseek(arg, whence) \/ sqfs_lseek64(arg, whence)
        PROVE  IInv'
    <2>1. Seek("lseek", arg, whence, FALSE) \/ Seek("lseek64", arg, whence, TRUE)
      BY <1>4 DEF sqfs_lseek, sqfs_lseek64
    <2>2. last'.out \in U64 /\ offset' \in 0 .. I64_MAX /\ size' = size
      BY <2>1, SeekStep
    <2> QED
      BY <2>2, Ranges DEF IInv, TypeOK, CursorRepresentable, U64
  <1>5. ASSUME NEW count \in Counts, NEW pos \in Off64, sqfs_pread_fails(count, pos) PROVE IInv'
    BY <1>5, Ranges DEF sqfs_pread_fails, Done, Fail, IInv, TypeOK, CursorRepresentable, U64
  <1>6. CASE UNCHANGED vars
    BY <1>6 DEF vars, IInv, TypeOK, CursorRepresentable
  <1> QED
    BY <1>1, <1>2, <1>3, <1>4, <1>5, <1>6 DEF Next

(* The position of a descriptor is always an off64_t: no sequence of reads *)
(* and seeks takes FDMapEntry.offset past INT64_MAX.                       *)
THEOREM CursorRepresentableHolds == Spec => []CursorRepresentable
  <1>1. IInv => CursorRepresentable
    BY DEF IInv
  <1> QED
    BY InitOK, NextOK, <1>1, PTL DEF Spec

(* The type invariant.                                                     *)
THEOREM TypeOKHolds == Spec => []TypeOK
  <1>1. IInv => TypeOK
    BY DEF IInv
  <1> QED
    BY InitOK, NextOK, <1>1, PTL DEF Spec

(* A seek succeeds exactly when the true target is a non-negative value    *)
(* of the caller's offset type; otherwise the position does not move.      *)
THEOREM SeekExactHolds == Spec => SeekExact
  <1> DEFINE Exact ==
        last'.op \in {"lseek", "lseek64"} =>
          LET w  == last'.whence
              a  == last'.arg
              ok == /\ w \in Whence
                    /\ Admissible(w, a)
                    /\ Target(w, a) \in 0 .. MaxReturn(last'.op = "lseek64")
          IN IF ok
             THEN last'.err = "OK" /\ last'.out = Target(w, a) /\ offset' = last'.out
             ELSE last'.err # "OK" /\ offset' = offset
  <1>1. ASSUME IInv, [Next]_vars
        PROVE  [Exact]_vars
    <2>1. ASSUME NEW count \in Counts, NEW pos \in Off64,
                 \/ sqfs_read(count) \/ sqfs_read_fails(count)
                 \/ sqfs_pread(count, pos) \/ sqfs_pread64(count, pos)
                 \/ sqfs_pread_fails(count, pos)
          PROVE  Exact
      <3>1. last'.op \in {"read", "pread"}
        BY <2>1 DEF sqfs_read, sqfs_read_fails, sqfs_pread, sqfs_pread64,
                    sqfs_pread_mapped, sqfs_pread_fails, Done
      <3> QED
        BY <3>1
    <2>2. ASSUME NEW arg \in Off64, NEW whence \in Whences, sqfs_lseek(arg, whence)
          PROVE  Exact
      <3>1. Seek("lseek", arg, whence, FALSE)
        BY <2>2 DEF sqfs_lseek
      <3>2. last'.op = "lseek" /\ last'.arg = arg /\ last'.whence = whence
        BY <1>1, <3>1, SeekStep
      <3>3. IF /\ whence \in Whence
               /\ Admissible(whence, arg)
               /\ Target(whence, arg) \in 0 .. MaxReturn(FALSE)
            THEN last'.err = "OK" /\ last'.out = Target(whence, arg) /\ offset' = last'.out
            ELSE last'.err # "OK" /\ offset' = offset
        BY <1>1, <3>1, SeekStep
      <3>4. (last'.op = "lseek64") = FALSE
        BY <3>2
      <3> QED
        BY <3>2, <3>3, <3>4
    <2>3. ASSUME NEW arg \in Off64, NEW whence \in Whences, sqfs_lseek64(arg, whence)
          PROVE  Exact
      <3>1. Seek("lseek64", arg, whence, TRUE)
        BY <2>3 DEF sqfs_lseek64
      <3>2. last'.op = "lseek64" /\ last'.arg = arg /\ last'.whence = whence
        BY <1>1, <3>1, SeekStep
      <3>3. IF /\ whence \in Whence
               /\ Admissible(whence, arg)
               /\ Target(whence, arg) \in 0 .. MaxReturn(TRUE)
            THEN last'.err = "OK" /\ last'.out = Target(whence, arg) /\ offset' = last'.out
            ELSE last'.err # "OK" /\ offset' = offset
        BY <1>1, <3>1, SeekStep
      <3>4. (last'.op = "lseek64") = TRUE
        BY <3>2
      <3> QED
        BY <3>2, <3>3, <3>4
    <2>4. 0 \in Off64
      BY WidthAssumption DEF Off64
    <2>5. CASE Next
      <3> HIDE DEF Exact
      <3> QED
        BY <2>1, <2>2, <2>3, <2>4, <2>5 DEF Next
    <2> QED
      BY <1>1, <2>5
  <1> QED
    BY InitOK, NextOK, <1>1, PTL DEF Spec, SeekExact

(* Where size_t is no wider than sqfs_u32 (the default 32-bit build), a    *)
(* read of zero bytes means end of file; the FdCursor64 run shows why the  *)
(* hypothesis is needed.                                                   *)
THEOREM ZeroMeansEOFHolds ==
  ASSUME SIZE_MAX = U32_MAX
  PROVE  Spec => []ZeroMeansEOF
  <1>1. Init => ZeroMeansEOF
    BY DEF Init, ZeroMeansEOF, NoCall
  <1>2. ASSUME IInv, ZeroMeansEOF, [Next]_vars
        PROVE  ZeroMeansEOF'
    <2>0. size \in Nat /\ offset \in Nat
      BY <1>2, Ranges
    <2>1. ASSUME NEW count \in Counts, sqfs_read(count) PROVE ZeroMeansEOF'
      <3>1. /\ last'.count = count /\ last'.arg = offset /\ size' = size
            /\ last'.out = sqfs_data_reader_read(size, offset, count)
        BY <2>1 DEF sqfs_read, Done, Result
      <3>2. count = 0 \/ count \in 1 .. U32_MAX
        BY WidthAssumption DEF Counts
      <3> QED
        BY <2>0, <3>1, <3>2, ReadZero DEF ZeroMeansEOF
    <2>2. ASSUME NEW count \in Counts, sqfs_read_fails(count) PROVE ZeroMeansEOF'
      BY <2>2 DEF sqfs_read_fails, Done, Fail, ZeroMeansEOF
    <2>3. ASSUME NEW count \in Counts, NEW pos \in Off64, sqfs_pread_mapped(count, pos)
          PROVE  ZeroMeansEOF'
      <3>0. pos \in Int
        BY WidthAssumption DEF Off64
      <3>1. CASE pos < 0
        BY <2>3, <3>1 DEF sqfs_pread_mapped, Done, Fail, ZeroMeansEOF
      <3>2. CASE pos >= 0
        <4>1. /\ last'.count = count /\ last'.arg = pos /\ size' = size
              /\ last'.out = sqfs_data_reader_read(size, pos, count)
          BY <2>3, <3>0, <3>2 DEF sqfs_pread_mapped, Done, Result
        <4>2. count = 0 \/ count \in 1 .. U32_MAX
          BY WidthAssumption DEF Counts
        <4>3. pos \in Nat
          BY <3>0, <3>2
        <4> QED
          BY <2>0, <4>1, <4>2, <4>3, ReadZero DEF ZeroMeansEOF
      <3> QED
        BY <3>0, <3>1, <3>2
    <2>4. ASSUME NEW arg \in Off64, NEW whence \in Whences,
                 sqfs_lseek(arg, whence) \/ sqfs_lseek64(arg, whence)
          PROVE  ZeroMeansEOF'
      <3>1. last'.op \in {"lseek", "lseek64"}
        BY <1>2, <2>4, SeekStep DEF sqfs_lseek, sqfs_lseek64
      <3> QED
        BY <3>1 DEF ZeroMeansEOF
    <2>5. ASSUME NEW count \in Counts, NEW pos \in Off64, sqfs_pread_fails(count, pos)
          PROVE  ZeroMeansEOF'
      BY <2>5 DEF sqfs_pread_fails, Done, Fail, ZeroMeansEOF
    <2>6. CASE UNCHANGED vars
      BY <1>2, <2>6 DEF vars, ZeroMeansEOF
    <2> QED
      BY <1>2, <2>1, <2>2, <2>3, <2>4, <2>5, <2>6 DEF Next, sqfs_pread, sqfs_pread64
  <1> QED
    BY InitOK, NextOK, <1>1, <1>2, PTL DEF Spec
=============================================================================
