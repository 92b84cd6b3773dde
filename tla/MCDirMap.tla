------------------------------ MODULE MCDirMap ------------------------------
(***************************************************************************)
(* Instance of DirMap for TLC: a directory of both layers that share a     *)
(* name, one of the image only, one outside the prefix, and a real         *)
(* directory where the image has a file.                                   *)
(***************************************************************************)
EXTENDS DirMap, TLC

CONSTANTS a, b, c, both, lower, outside, clash, t1, t2, p1, p2

MCRealList  == (both :> <<a, b>>) @@ (outside :> <<c>>) @@ (clash :> <<a>>)
MCImageKind == (both :> "dir") @@ (lower :> "dir") @@ (outside :> "absent")
               @@ (clash :> "file")
MCImageList == (both :> <<b, c>>) @@ (lower :> <<a>>) @@ (outside :> <<>>)
               @@ (clash :> <<>>)

Symmetry == Permutations(Threads) \cup Permutations(Ptrs)
=============================================================================
