------------------------------ MODULE MCFdMap ------------------------------
(***************************************************************************)
(* Instance of FdMap for TLC: machine integers of four bits, one image     *)
(* file, one real file, the image on descriptor 0.                         *)
(***************************************************************************)
EXTENDS FdMapRefinement, TLC

CONSTANTS t1, t2, i1, r1

MCSize == (i1 :> 3) @@ (r1 :> 2)

(* One argument a pread refuses, one that moves, one that a 32-bit lseek   *)
(* cannot report.                                                          *)
MCSeekArgs == {[offset |-> -1, whence |-> "SEEK_CUR", wide |-> TRUE],
               [offset |-> 2,  whence |-> "SEEK_END", wide |-> FALSE]}
MCOneSeek == {[offset |-> 1,  whence |-> "SEEK_SET", wide |-> TRUE]}

Symmetry == Permutations(Threads)
=============================================================================
