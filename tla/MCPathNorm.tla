----------------------------- MODULE MCPathNorm -----------------------------
(* Instances of PathNorm: all strings over slash, dot and one letter up to *)
(* a length.  A component of one letter and one of two are enough to tell  *)
(* apart a name, a longer name that starts alike, and the dot names.       *)
EXTENDS PathNorm

MCChars == {"/", ".", "a"}

Strings(n) == BoundedSeq(Chars, n)

(* Every usable path, and one that is too long.                            *)
MCPathnames == Strings(PATH_MAX - 1) \cup {[i \in 1 .. PATH_MAX |-> "a"]}

(* Every absolute prefix of up to four characters.                         *)
MCPrefixes == {s \in Strings(4) : Absolute(s)}

MCImageFiles == {NULL, <<"/", "a", "/", "a">>}

(* One prefix for the statements that do not depend on it.                 *)
MCOnePrefix == {<<"/", "a">>}
=============================================================================
