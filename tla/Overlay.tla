------------------------------ MODULE Overlay ------------------------------
(***************************************************************************)
(* Which layer answers for a path: sqfs_open, sqfs_access and sqfs_xstat   *)
(* (sqfs_mgr.c, lines 302-356, 461-585 and 957-1015).  Each tries the real *)
(* function first and, when that fails, sqfs_check_path_then_convert and   *)
(* the image.  Other processes may change the real filesystem between the  *)
(* two; the image never changes.                                           *)
(*                                                                         *)
(* What a descriptor does after open is modelled in FdMap; opendir, in     *)
(* DirMap.                                                                 *)
(***************************************************************************)

CONSTANTS
  Paths,       \* the paths the application uses
  Inside,      \* the ones sqfs_check_path_then_convert accepts: under
               \* HOOKSQFS_PREFIX and not HOOKSQFS_FILE itself
  InImage,     \* the ones sqfs_find_inode finds in the image
  ImageBits,   \* the permission bits, of {"r", "x"}, set in their st_mode
  Upper,       \* what other processes may put at each path
  None

(* "noparent": not even the directory is there; "absent": it could be      *)
(* created; "hidden": a directory on the way cannot be searched;           *)
(* "denied": no permission on the file; "readonly": no write permission;   *)
(* "large": a file whose size does not fit off_t (the 32-bit build).       *)
RealStates == {"noparent", "absent", "hidden", "denied", "readonly", "file", "large", "dir"}

ASSUME OverlayAssumption ==
  /\ Inside \subseteq Paths /\ InImage \subseteq Paths
  /\ ImageBits \in [InImage -> SUBSET {"r", "x"}]
  /\ Upper \in [Paths -> SUBSET RealStates \ {{}}]
  /\ None \notin Paths \cup {"real", "image"}

VARIABLES
  real,        \* what the real filesystem has at each path
  pc,          \* "app", or "image" after the real function has failed
  call,        \* the call in progress
  fresh,       \* its path has not changed since the real function ran
  ret,         \* the call that has just returned and its outcome
  seen,        \* layers that have answered for a path since it last changed
  granted,     \* paths access(W_OK) has granted since they last changed
  troubled     \* paths on which a real function has failed since they last
               \* changed, other than for want of the path (ENOENT)

history == <<seen, granted, troubled>>
vars    == <<real, pc, call, fresh, ret, history>>

Flags      == {{}, {"w"}, {"w", "creat"}, {"w", "creat", "excl"}}  \* {} is O_RDONLY
Modes      == SUBSET {"r", "w", "x"}                               \* {} is F_OK
StatArgs   == {{}, {"bad"}}        \* "bad": buf is NULL, or ver is not 3
Layers     == {"real", "image"}
Errnos     == {"OK", "ENOENT", "EACCES", "EEXIST", "EISDIR", "EOVERFLOW", "EROFS",
               "EFAULT", "EINVAL", "ENOMEM"}
Call       == [op : {"open", "access", "xstat"}, path : Paths,
               arg : Flags \cup Modes \cup StatArgs, errno : Errnos]
NoCall     == [op |-> "none", path |-> None, arg |-> {}, errno |-> "OK"]
NoRet      == [call |-> NoCall, src |-> None, err |-> "OK", fresh |-> TRUE]

Init ==
  /\ real \in [Paths -> RealStates] /\ \A p \in Paths : real[p] \in Upper[p]
  /\ pc = "app" /\ call = NoCall /\ fresh = TRUE /\ ret = NoRet
  /\ seen = [p \in Paths |-> {}]
  /\ granted = {} /\ troubled = {}

-----------------------------------------------------------------------------
(* What the real functions may return for a path in state s.  Whatever is  *)
(* there, each may fail for a reason of its own: ENOMEM stands for EMFILE, *)
(* ENFILE, EINTR, ENOSPC, EIO and the like too.                            *)

Exists(s)  == s \notin {"noparent", "absent"}
Permits(s) == CASE s = "dir"               -> {"r", "w", "x"}
                [] s \in {"file", "large"} -> {"r", "w"}
                [] s = "readonly"          -> {"r"}
                [] OTHER                   -> {}

real_open(s, flags) ==
  LET needs == IF "w" \in flags THEN "w" ELSE "r"
  IN {"ENOMEM"} \cup
     {IF ~Exists(s) THEN IF s = "absent" /\ "creat" \in flags THEN "OK" ELSE "ENOENT"
      ELSE IF "excl" \in flags /\ s # "hidden" THEN "EEXIST"
      ELSE IF needs \notin Permits(s) THEN "EACCES"
      ELSE IF s = "dir" /\ "w" \in flags THEN "EISDIR"
      ELSE IF s = "large" THEN "EOVERFLOW" ELSE "OK"}

real_access(s, mode) ==
  {"ENOMEM"} \cup
  {IF ~Exists(s) THEN "ENOENT"
   ELSE IF s # "hidden" /\ mode \subseteq Permits(s) THEN "OK" ELSE "EACCES"}

(* A ver other than 3 may be one libc knows.                               *)
real_xstat(s, arg) ==
  {"ENOMEM"} \cup (IF arg = {} THEN {} ELSE {"EFAULT", "EINVAL"}) \cup
  {IF ~Exists(s) THEN "ENOENT"
   ELSE IF s = "hidden" THEN "EACCES" ELSE IF s = "large" THEN "EOVERFLOW" ELSE "OK"}

-----------------------------------------------------------------------------
(* The history forgets a path that changes; layers are those that have     *)
(* answered since.                                                         *)
Changes(p, layers) ==
  /\ seen' = [seen EXCEPT ![p] = layers]
  /\ granted' = granted \ {p} /\ troubled' = troubled \ {p}

(* A call ends: c with the errno of its real attempt, the layer it was     *)
(* answered from, and its own errno.                                       *)
Finish(c, src, err) ==
  /\ pc' = "app" /\ call' = NoCall /\ fresh' = TRUE
  /\ ret' = [call |-> c, src |-> src, err |-> err, fresh |-> fresh]

(* The success of a call during which the path did not change.             *)
Record(c, src) ==
  /\ seen' = [seen EXCEPT ![c.path] = @ \cup {src}]
  /\ granted' = IF c.op = "access" /\ "w" \in c.arg THEN granted \cup {c.path} ELSE granted
  /\ UNCHANGED troubled

(* Mutant: the result of the real function is not looked at.               *)
Attempt_ignored(op, p, arg, e) ==
  /\ pc = "app"
  /\ pc' = "image" /\ call' = [op |-> op, path |-> p, arg |-> arg, errno |-> e]
  /\ ret' = NoRet
  /\ UNCHANGED <<fresh, history>>

(* The real function ran and returned e.                                   *)
Attempt(op, p, arg, e) ==
  LET c == [op |-> op, path |-> p, arg |-> arg, errno |-> e]
  IN /\ pc = "app"
     /\ IF e = "OK"
        THEN Finish(c, "real", "OK") /\ Record(c, "real")
        ELSE /\ pc' = "image" /\ call' = c /\ ret' = NoRet
             /\ troubled' = IF e = "ENOENT" THEN troubled ELSE troubled \cup {p}
             /\ UNCHANGED <<fresh, seen, granted>>

(* sqfs_open, first half; O_CREAT may make the file.                       *)
sqfs_open_creates(p, flags) ==
  /\ pc = "app"
  /\ real[p] = "absent" /\ "OK" \in real_open(real[p], flags)
  /\ Finish([op |-> "open", path |-> p, arg |-> flags, errno |-> "OK"], "real", "OK")
  /\ Changes(p, {"real"})
  /\ real' = [real EXCEPT ![p] = "file"]

sqfs_open(p, flags) ==
  /\ \E e \in real_open(real[p], flags) :
       ~(real[p] = "absent" /\ e = "OK") /\ Attempt("open", p, flags, e)
  /\ UNCHANGED real

(* Mutant: the image is asked before the real filesystem.                  *)
sqfs_access_image_first(p, mode) ==
  /\ \E e \in IF p \in Inside \cap InImage THEN {"ENOENT"} ELSE real_access(real[p], mode) :
       Attempt("access", p, mode, e)
  /\ UNCHANGED real

sqfs_access(p, mode) ==
  /\ \E e \in real_access(real[p], mode) : Attempt("access", p, mode, e)
  /\ UNCHANGED real

sqfs_xstat(p, arg) ==
  /\ \E e \in real_xstat(real[p], arg) : Attempt("xstat", p, arg, e)
  /\ UNCHANGED real

-----------------------------------------------------------------------------
(* The second half, after the real function has failed.                    *)

Answer(src, err) ==
  /\ pc = "image"
  /\ Finish(call, src, err)
  /\ IF src = "image" /\ fresh THEN Record(call, src) ELSE UNCHANGED history
  /\ UNCHANGED real

(* sqfs_check_path_then_convert returns ENOENT: sqfs_open restores the     *)
(* real errno, sqfs_access and sqfs_xstat report that ENOENT.              *)
path_refused ==
  /\ call.path \notin Inside
  /\ Answer(None, IF call.op = "open" THEN call.errno ELSE "ENOENT")

(* sqfs_xstat looks at its other arguments before it asks the image.       *)
Looks == call.path \in Inside /\ ~(call.op = "xstat" /\ "bad" \in call.arg)

(* Mutant: an open for writing is not looked up in the image.              *)
not_in_image_or_write ==
  /\ Looks
  /\ call.path \in InImage => call.op = "open" /\ "w" \in call.arg
  /\ Answer(None, "ENOENT")

(* sqfs_find_inode finds nothing.                                          *)
not_in_image ==
  /\ Looks /\ call.path \notin InImage
  /\ Answer(None, "ENOENT")

(* libsquashfs, create_backing_fd or malloc fails; ENOMEM stands for every *)
(* errno such a failure may have (errno_from_sqfs and the system calls).   *)
image_error ==
  /\ pc = "image"
  /\ Looks
  /\ Answer(None, "ENOMEM")

(* A backing descriptor, whatever the flags were.                          *)
sqfs_open_image ==
  /\ call.op = "open" /\ call.path \in Inside \cap InImage
  /\ Answer("image", "OK")

(* Mutant: W_OK is not refused.                                            *)
image_access_writable(p, mode) ==
  IF ~(mode \cap {"r", "x"} \subseteq ImageBits[p]) THEN "EACCES" ELSE "OK"

image_access(p, mode) ==
  IF "w" \in mode THEN "EROFS"
  ELSE IF ~(mode \subseteq ImageBits[p]) THEN "EACCES"
  ELSE "OK"

sqfs_access_image ==
  /\ call.op = "access" /\ call.path \in Inside \cap InImage
  /\ LET e == image_access(call.path, call.arg)
     IN Answer(IF e = "OK" THEN "image" ELSE None, e)

sqfs_xstat_image ==
  /\ call.op = "xstat" /\ Looks /\ call.path \in InImage
  /\ Answer("image", "OK")

(* buf is NULL, or ver is not 3.                                           *)
sqfs_xstat_bad_args ==
  /\ call.path \in Inside /\ ~Looks
  /\ Answer(None, "EFAULT")

(* Another process changes a path, perhaps between the two halves.         *)
other_process(p, s) ==
  /\ real[p] # s
  /\ real' = [real EXCEPT ![p] = s]
  /\ ret' = IF ret.call.path = p THEN NoRet ELSE ret
  /\ Changes(p, {})
  /\ fresh' = (fresh /\ p # call.path)
  /\ UNCHANGED <<pc, call>>

Next ==
  \/ \E p \in Paths : \/ \E f \in Flags : sqfs_open(p, f) \/ sqfs_open_creates(p, f)
                      \/ \E m \in Modes : sqfs_access(p, m)
                      \/ \E a \in StatArgs : sqfs_xstat(p, a)
                      \/ \E s \in Upper[p] : other_process(p, s)
  \/ path_refused \/ not_in_image \/ image_error
  \/ sqfs_open_image \/ sqfs_access_image \/ sqfs_xstat_image \/ sqfs_xstat_bad_args

Spec == Init /\ [][Next]_vars

-----------------------------------------------------------------------------
(* Type invariant.                                                         *)
TypeOK ==
  /\ real \in [Paths -> RealStates]
  /\ pc \in {"app", "image"}
  /\ call \in Call \cup {NoCall} /\ ret.call \in Call \cup {NoCall}
  /\ (pc = "image") = (call.errno # "OK")
  /\ ret.src \in Layers \cup {None} /\ ret.err \in Errnos
  /\ fresh \in BOOLEAN
  /\ seen \in [Paths -> SUBSET Layers]
  /\ granted \subseteq Paths /\ troubled \subseteq Paths

(* A path of the image under the prefix is never reported missing, even    *)
(* when another process removes the real file between the two lookups.     *)
(* (An image is loaded, and /tmp exists where memfd_create does not:       *)
(* otherwise the code's own errors are ENOENT.)                            *)
FoundWhenPresent ==
  ret.call.path \in Inside \cap InImage => ret.err # "ENOENT"

(* As long as a path does not change, open, access and __xstat answer for  *)
(* it from one layer, so that size, permission and data belong to one      *)
(* file, unless a real function has failed on it other than with ENOENT.   *)
(* The code falls back to the image after any failure, and each of them    *)
(* does split a path that both layers have: EACCES (__xstat real, open     *)
(* image), EOVERFLOW of a file over 2 GiB in the 32-bit build (access      *)
(* real, open and __xstat image), EISDIR, EEXIST, EMFILE.                  *)
OneLayerPerPath ==
  \A p \in Paths : seen[p] = Layers => p \in troubled

(* A path that access(W_OK) reported writable is one of the real           *)
(* filesystem: as long as it does not change, an open for writing ends on  *)
(* a backing descriptor, which loses what is written, only after a failure *)
(* of the real open other than ENOENT (EISDIR for a directory of both      *)
(* layers, EOVERFLOW, EEXIST with O_EXCL, EMFILE).                         *)
WritableMeansUpper ==
  (/\ ret.call.op = "open" /\ "w" \in ret.call.arg /\ ret.err = "OK"
   /\ ret.fresh /\ ret.call.path \in granted)
  => ret.src = "real" \/ ret.call.errno # "ENOENT"
=============================================================================
