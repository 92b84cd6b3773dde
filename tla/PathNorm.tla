------------------------------ MODULE PathNorm ------------------------------
(***************************************************************************)
(* The lexical test that decides which paths belong to the overlay:        *)
(* path_normalize_lexical, path_equals_normalized, path_relative_to_root   *)
(* (utils.c, lines 124-335) and sqfs_check_path_then_convert (sqfs_mgr.c,  *)
(* lines 302-320).                                                         *)
(*                                                                         *)
(* A path is a sequence of characters, because repeated slashes, the       *)
(* length of a component and the size of a buffer all matter here.  The    *)
(* reference is a walk over a directory tree without symbolic links.       *)
(***************************************************************************)
EXTENDS Integers, SequencesExt

CONSTANTS
  Chars,       \* the characters of paths
  PATH_MAX,    \* size of every path buffer, the terminating NUL included
  Pathnames,   \* the paths the application may pass
  PrefixValues,   \* the values HOOKSQFS_PREFIX may have
  ImageFiles,  \* the values HOOKSQFS_FILE may have; NULL: not set
  NULL

ASSUME PathNormAssumption ==
  /\ PATH_MAX \in Nat /\ PATH_MAX > 1
  /\ {"/", "."} \subseteq Chars /\ "false" \notin Chars
  /\ Pathnames \subseteq Seq(Chars) /\ PrefixValues \subseteq Seq(Chars)
  /\ ImageFiles \subseteq Seq(Chars) \cup {NULL}
  /\ NULL \notin Seq(Chars)

Slash  == <<"/">>
Dot    == <<".">>
DotDot == <<".", ".">>
Fail   == <<"false">>      \* the function returned false

Absolute(s) == s # <<>> /\ s[1] = "/"

-----------------------------------------------------------------------------
(* Normalisation.                                                          *)

(* A loop over the elements of s: what it holds after k of them.           *)
Loop(step(_, _), init, s) ==
  LET at[k \in 0 .. Len(s)] == IF k = 0 THEN init ELSE step(at[k - 1], s[k])
  IN at

(* strsep(&p, "/") until it returns NULL: the strings between slashes.     *)
split(tokens, c) ==
  IF c = "/" THEN Append(tokens, <<>>)
  ELSE [tokens EXCEPT ![Len(tokens)] = Append(@, c)]

Tokens(s) == Loop(split, << <<>> >>, s)[Len(s)]

(* Mutant: empty components are not skipped.                               *)
push_keeps_empty(parts, token, absolute) ==
  IF token = Dot THEN parts
  ELSE IF token # DotDot THEN Append(parts, token)
  ELSE IF parts # <<>> /\ Last(parts) # DotDot THEN Front(parts)
  ELSE IF absolute THEN parts ELSE Append(parts, token)

(* The body of the loop over the tokens.                                   *)
push(parts, token, absolute) ==
  IF token \in {<<>>, Dot} THEN parts
  ELSE IF token # DotDot THEN Append(parts, token)
  ELSE IF parts # <<>> /\ Last(parts) # DotDot THEN Front(parts)
  ELSE IF absolute THEN parts ELSE Append(parts, token)

(* parts[0 .. count-1] after each token, and after the last one.           *)
PartsAfter(tokens, absolute) ==
  Loop(LAMBDA parts, token : push(parts, token, absolute), <<>>, tokens)

Parts(tokens, absolute) == PartsAfter(tokens, absolute)[Len(tokens)]

(* out is a buffer of PATH_MAX bytes in all callers.                       *)
append_str(out, s) ==
  IF out = Fail \/ Len(s) >= PATH_MAX - Len(out) THEN Fail ELSE out \o s

(* A component after what is already in out.  The slash depends on the     *)
(* length of out, not on whether out ends in a slash.                      *)
rebuild(out, part) ==
  append_str(IF Len(out) > 1 THEN append_str(out, Slash) ELSE out, part)

Rebuilt(out, parts) == Loop(rebuild, out, parts)[Len(parts)]

path_normalize_lexical(in) ==
  LET absolute == Absolute(in)
      out == Rebuilt(IF absolute THEN append_str(<<>>, Slash) ELSE <<>>,
                     Parts(Tokens(in), absolute))
  IN IF Len(in) >= PATH_MAX THEN Fail
     ELSE IF out = <<>> THEN append_str(out, Dot) ELSE out

path_equals_normalized(a, b) ==
  /\ a # NULL /\ b # NULL
  /\ path_normalize_lexical(a) # Fail /\ path_normalize_lexical(b) # Fail
  /\ path_normalize_lexical(a) = path_normalize_lexical(b)

-----------------------------------------------------------------------------
(* path_relative_to_root: Fail, or the string left in relative_out.        *)

(* Mutant: no test that the root ends at a component of the path.          *)
below_unchecked(norm_root, norm_path) ==
  IF ~IsPrefix(norm_root, norm_path) THEN Fail
  ELSE IF norm_path = norm_root THEN <<>>
  ELSE SubSeq(norm_path, Len(norm_root) + 2, Len(norm_path))

(* For a root other than "/".                                              *)
below(norm_root, norm_path) ==
  IF ~IsPrefix(norm_root, norm_path) THEN Fail
  ELSE IF norm_path = norm_root THEN <<>>
  ELSE IF norm_path[Len(norm_root) + 1] # "/" THEN Fail
  ELSE SubSeq(norm_path, Len(norm_root) + 2, Len(norm_path))

(* relative_out is as large as norm_path, so the copy always fits; a       *)
(* normalised root has no trailing slash to strip.                         *)
path_relative_to_root(root, path) ==
  LET norm_root == path_normalize_lexical(root)
      norm_path == path_normalize_lexical(path)
  IN IF norm_root = Fail \/ norm_path = Fail THEN Fail
     ELSE IF norm_root # Slash THEN below(norm_root, norm_path)
     ELSE IF Absolute(norm_path) THEN Tail(norm_path) ELSE Fail

-----------------------------------------------------------------------------
(* The environment and the last call of sqfs_check_path_then_convert.      *)
VARIABLES prefix, image, pathname, ret, relative

vars == <<prefix, image, pathname, ret, relative>>

Init ==
  /\ prefix \in PrefixValues /\ image \in ImageFiles
  /\ pathname = NULL /\ ret = "none" /\ relative = Fail

(* Mutant: the result of path_relative_to_root is not looked at.           *)
sqfs_convert_unchecked(p) ==
  /\ ret = "none"
  /\ pathname' = p
  /\ IF path_equals_normalized(p, image)
     THEN ret' = "ENOENT" /\ relative' = Fail
     ELSE ret' = "OK" /\ relative' = path_relative_to_root(prefix, p)
  /\ UNCHANGED <<prefix, image>>

sqfs_check_path_then_convert(p) ==
  LET rel == path_relative_to_root(prefix, p)
  IN /\ ret = "none"
     /\ pathname' = p
     /\ IF path_equals_normalized(p, image) \/ rel = Fail
        THEN ret' = "ENOENT" /\ relative' = Fail
        ELSE ret' = "OK" /\ relative' = rel
     /\ UNCHANGED <<prefix, image>>

(* pathname is NULL.                                                       *)
sqfs_check_path_null ==
  /\ ret = "none"
  /\ ret' = "EFAULT"
  /\ UNCHANGED <<prefix, image, pathname, relative>>

(* The hook that asked goes on; the next call starts.                      *)
next_call ==
  /\ ret # "none"
  /\ pathname' = NULL /\ ret' = "none" /\ relative' = Fail
  /\ UNCHANGED <<prefix, image>>

Next == sqfs_check_path_null \/ next_call \/ \E p \in Pathnames : sqfs_check_path_then_convert(p)

Spec == Init /\ [][Next]_vars

-----------------------------------------------------------------------------
(* The reference: where a walk that starts in directory dir and follows s  *)
(* ends.  The parent of the root is the root.                              *)
visit(dir, token) ==
  IF token \in {<<>>, Dot} THEN dir
  ELSE IF token # DotDot THEN Append(dir, token)
  ELSE IF dir = <<>> THEN dir ELSE Front(dir)

Visit(dir, tokens) == Loop(visit, dir, tokens)[Len(tokens)]

Walk(dir, s) == Visit(IF Absolute(s) THEN <<>> ELSE dir, Tokens(s))

(* A path that fits the buffers.                                           *)
Usable(s) == s # NULL /\ Len(s) < PATH_MAX

Components(s) == IF s = <<>> THEN <<>> ELSE Tokens(s)

(* Type invariant.                                                         *)
TypeOK ==
  /\ prefix \in PrefixValues /\ image \in ImageFiles
  /\ pathname \in Pathnames \cup {NULL}
  /\ ret \in {"none", "OK", "ENOENT", "EFAULT"}
  /\ (relative # Fail) = (ret = "OK")
  /\ Len(relative) < PATH_MAX

(* A call with an absolute path is sent to the image exactly when the path *)
(* leads to the prefix or below it and not to the image file itself,       *)
(* however it is spelled ("//", "/./", "..", a trailing slash, "/hook2"    *)
(* beside "/hook"), and what is looked up in the image is the rest of the  *)
(* path: no "..", ".", empty or absolute component gets through.  A        *)
(* relative path is refused, whatever the working directory: the code      *)
(* never asks for it, so a path that leads below the prefix from there is  *)
(* left out, contrary to Readme.md:33 and Agent.md:17.  HOOKSQFS_PREFIX    *)
(* and HOOKSQFS_FILE are absolute, as Readme.md and Agent.md demand.       *)
InsideIffUnder ==
  /\ Usable(pathname) /\ Usable(prefix)
  /\ Absolute(prefix) /\ (image # NULL => Absolute(image))
  => LET there == Walk(<<>>, pathname)
         top   == Walk(<<>>, prefix)
         self  == Usable(image) /\ Walk(<<>>, image) = there
     IN /\ Absolute(pathname) => (ret = "OK") = (IsPrefix(top, there) /\ ~self)
        /\ ~Absolute(pathname) => ret = "ENOENT"
        /\ ret = "OK" => top \o Components(relative) = there /\ Walk(top, relative) = there

(* A path that fits in PATH_MAX bytes never runs over parts[PATH_MAX / 2], *)
(* which the longest one can fill exactly, and its normal form always fits *)
(* in the output buffer: append_str's failures are never met.              *)
BuffersFit ==
  Usable(pathname) =>
    /\ \A k \in 0 .. Len(Tokens(pathname)) :
         Len(PartsAfter(Tokens(pathname), Absolute(pathname))[k]) <= PATH_MAX \div 2
    /\ path_normalize_lexical(pathname) # Fail

(* utils.c, lines 166-168: "Split the path by '/', then process '.', '..', *)
(* and empty components.  This is lexical normalization only": the normal  *)
(* form of a path names the same file as the path, from any directory.     *)
MeaningKept ==
  Usable(pathname) =>
    \A dir \in {<<>>, << <<"a">>, <<"a">> >>} :
      Walk(dir, path_normalize_lexical(pathname)) = Walk(dir, pathname)
=============================================================================
