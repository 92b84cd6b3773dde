--------------------------- MODULE OverlayProofs ---------------------------
(***************************************************************************)
(* The safety properties of Overlay for any set of paths, any prefix and   *)
(* any image.                                                              *)
(***************************************************************************)
EXTENDS Overlay, TLAPS

Calls == Call \cup {NoCall}

(* The places of the call.                                                 *)
PlaceInv ==
  /\ ret \in [call : Calls, src : Layers \cup {None}, err : Errnos, fresh : BOOLEAN]
  /\ pc = "app" => call = NoCall /\ fresh
  /\ pc = "image" => call \in Call /\ call.errno # "OK" /\ ret = NoRet

(* As long as nobody has changed the path, a real attempt that failed with *)
(* ENOENT means that it does not exist, and one that failed otherwise has  *)
(* been noted: for the call in progress and the one that returned.         *)
FailedInv ==
  /\ pc = "image" /\ fresh =>
       IF call.errno = "ENOENT" THEN ~Exists(real[call.path]) ELSE call.path \in troubled
  /\ ret.call # NoCall /\ ret.fresh /\ ret.call.errno = "ENOENT"
       => ~Exists(real[ret.call.path])

(* A real attempt that succeeded is the answer.                            *)
AnswerInv == ret.call \in Call /\ ret.call.errno = "OK" => ret.src = "real"

(* What the history says about the real filesystem as it is now.           *)
HistoryInv ==
  /\ \A p \in Paths : "real" \in seen[p] => Exists(real[p])
  /\ \A p \in Paths : "image" \in seen[p] => ~Exists(real[p]) \/ p \in troubled
  /\ \A p \in granted : Exists(real[p])

IInv == TypeOK /\ PlaceInv /\ FailedInv /\ AnswerInv /\ HistoryInv /\ FoundWhenPresent

-----------------------------------------------------------------------------
(* The real functions: one that succeeds, without creating the file, finds *)
(* it, and ENOENT is returned only where there is nothing.                 *)
LEMMA RealFacts ==
  ASSUME NEW s \in RealStates, NEW arg
  PROVE  /\ \A e \in real_open(s, arg) :
              e \in Errnos /\ (e = "OK" /\ s # "absent" => Exists(s)) /\ (e = "ENOENT" => ~Exists(s))
         /\ \A e \in real_access(s, arg) :
              e \in Errnos /\ (e = "OK" => Exists(s)) /\ (e = "ENOENT" => ~Exists(s))
         /\ \A e \in real_xstat(s, arg) :
              e \in Errnos /\ (e = "OK" => Exists(s)) /\ (e = "ENOENT" => ~Exists(s))
  <1>1. \A e \in real_open(s, arg) :
          e \in Errnos /\ (e = "OK" /\ s # "absent" => Exists(s)) /\ (e = "ENOENT" => ~Exists(s))
    BY DEF Errnos, real_open, Exists
  <1>2. \A e \in real_access(s, arg) :
          e \in Errnos /\ (e = "OK" => Exists(s)) /\ (e = "ENOENT" => ~Exists(s))
    BY DEF Errnos, real_access, Exists
  <1>3. \A e \in real_xstat(s, arg) :
          e \in Errnos /\ (e = "OK" => Exists(s)) /\ (e = "ENOENT" => ~Exists(s))
    BY DEF Errnos, real_xstat, Exists
  <1> QED
    BY <1>1, <1>2, <1>3

-----------------------------------------------------------------------------
(* Initially nothing has happened.                                         *)
LEMMA InitOK == Init => IInv
  <1> SUFFICES ASSUME Init PROVE IInv
    OBVIOUS
  <1>1. NoRet \in [call : Calls, src : Layers \cup {None}, err : Errnos, fresh : BOOLEAN]
    BY DEF NoRet, Calls, Errnos
  <1>2. NoRet.call = NoCall /\ NoCall.errno = "OK" /\ NoCall.path = None /\ NoCall \notin Call
    BY OverlayAssumption DEF NoRet, NoCall, Call
  <1>3. TypeOK /\ PlaceInv
    BY <1>1, <1>2 DEF Init, TypeOK, PlaceInv, Calls
  <1>4. FailedInv /\ AnswerInv /\ HistoryInv /\ FoundWhenPresent
    BY <1>2, OverlayAssumption DEF Init, FailedInv, AnswerInv, HistoryInv, FoundWhenPresent
  <1> QED
    BY <1>3, <1>4 DEF IInv

(* The real function runs: its success is an answer, its failure is        *)
(* remembered.                                                             *)
LEMMA AttemptOK ==
  ASSUME IInv, NEW op \in {"open", "access", "xstat"}, NEW p \in Paths,
         NEW arg \in Flags \cup Modes \cup StatArgs, NEW e \in Errnos,
         e = "OK" => Exists(real[p]), e = "ENOENT" => ~Exists(real[p]),
         Attempt(op, p, arg, e), UNCHANGED real
  PROVE  IInv'
  <1> DEFINE c == [op |-> op, path |-> p, arg |-> arg, errno |-> e]
  <1>1. c \in Call /\ c.path = p /\ c.op = op /\ c.arg = arg /\ c.errno = e /\ c # NoCall
    BY OverlayAssumption DEF Call, NoCall
  <1> HIDE DEF c
  <1>2. CASE e = "OK"
    <2>1. /\ pc' = "app" /\ call' = NoCall /\ fresh' = TRUE
          /\ ret' = [call |-> c, src |-> "real", err |-> "OK", fresh |-> fresh]
      BY <1>2 DEF Attempt, Finish, c
    <2>2. /\ seen' = [seen EXCEPT ![p] = @ \cup {"real"}]
          /\ granted' = IF op = "access" /\ "w" \in arg THEN granted \cup {p} ELSE granted
          /\ troubled' = troubled
      BY <1>1, <1>2 DEF Attempt, Record, c
    <2>3. TypeOK' /\ PlaceInv'
      BY <1>1, <2>1, <2>2, OverlayAssumption
      DEF IInv, TypeOK, PlaceInv, Calls, NoCall, Errnos, Layers
    <2>4. FailedInv' /\ AnswerInv' /\ FoundWhenPresent'
      BY <1>1, <1>2, <2>1 DEF FailedInv, AnswerInv, FoundWhenPresent, Layers
    <2>5. HistoryInv'
      BY <1>1, <1>2, <2>2 DEF IInv, TypeOK, HistoryInv, Layers
    <2> QED
      BY <2>3, <2>4, <2>5 DEF IInv
  <1>3. CASE e # "OK"
    <2>1. /\ pc = "app" /\ pc' = "image" /\ call' = c /\ ret' = NoRet
          /\ troubled' = IF e = "ENOENT" THEN troubled ELSE troubled \cup {p}
          /\ UNCHANGED <<fresh, seen, granted>>
      BY <1>3 DEF Attempt, c
    <2>2. TypeOK' /\ PlaceInv'
      <3>1. NoRet \in [call : Calls, src : Layers \cup {None}, err : Errnos, fresh : BOOLEAN]
        BY DEF NoRet, Calls, Errnos
      <3> QED
        BY <1>1, <1>3, <2>1, <3>1 DEF IInv, TypeOK, PlaceInv, Calls
    <2>3. FailedInv' /\ AnswerInv' /\ FoundWhenPresent'
      <3>1. NoRet.call = NoCall /\ NoCall.path = None /\ NoCall \notin Call
        BY OverlayAssumption DEF NoRet, NoCall, Call
      <3> QED
        BY <1>1, <2>1, <3>1, OverlayAssumption DEF FailedInv, AnswerInv, FoundWhenPresent
    <2>4. HistoryInv'
      BY <2>1 DEF IInv, HistoryInv
    <2> QED
      BY <2>2, <2>3, <2>4 DEF IInv
  <1> QED
    BY <1>2, <1>3

(* An answer after the real function has failed: no write permission from  *)
(* the image, and no ENOENT for what the image has.                        *)
LEMMA AnswerOK ==
  ASSUME IInv, NEW src \in {"image", None}, NEW err \in Errnos, Answer(src, err),
         src = "image" /\ call.op = "access" => "w" \notin call.arg,
         call.path \in Inside \cap InImage => err # "ENOENT"
  PROVE  IInv'
  <1>1. /\ pc = "image" /\ pc' = "app" /\ call' = NoCall /\ fresh' = TRUE
        /\ ret' = [call |-> call, src |-> src, err |-> err, fresh |-> fresh]
        /\ UNCHANGED real
    BY DEF Answer, Finish
  <1>2. /\ call \in Call /\ call.errno # "OK" /\ call.path \in Paths
        /\ fresh => IF call.errno = "ENOENT" THEN ~Exists(real[call.path])
                    ELSE call.path \in troubled
    BY <1>1 DEF IInv, PlaceInv, FailedInv, Call
  <1>3. /\ HistoryInv' /\ seen' \in [Paths -> SUBSET Layers]
        /\ granted' \subseteq Paths /\ troubled' = troubled
    <2>1. CASE src = "image" /\ fresh
      <3>1. /\ seen' = [seen EXCEPT ![call.path] = @ \cup {"image"}]
            /\ granted' = granted /\ troubled' = troubled
        BY <2>1 DEF Answer, Record
      <3> QED
        BY <1>1, <1>2, <2>1, <3>1 DEF IInv, TypeOK, HistoryInv, Layers
    <2>2. CASE ~(src = "image" /\ fresh)
      <3>1. seen' = seen /\ granted' = granted /\ troubled' = troubled
        BY <2>2 DEF Answer, history
      <3> QED
        BY <1>1, <3>1 DEF IInv, TypeOK, HistoryInv
    <2> QED
      BY <2>1, <2>2
  <1>4. TypeOK' /\ PlaceInv'
    BY <1>1, <1>2, <1>3 DEF IInv, TypeOK, PlaceInv, Calls, NoCall, Layers
  <1>5. FailedInv' /\ AnswerInv' /\ FoundWhenPresent'
    BY <1>1, <1>2 DEF FailedInv, AnswerInv, FoundWhenPresent, Layers
  <1> QED
    BY <1>3, <1>4, <1>5 DEF IInv

(* O_CREAT makes a file: the history of its path is forgotten.             *)
LEMMA CreatesOK ==
  ASSUME IInv, NEW p \in Paths, NEW flags \in Flags, sqfs_open_creates(p, flags)
  PROVE  IInv'
  <1> DEFINE c == [op |-> "open", path |-> p, arg |-> flags, errno |-> "OK"]
  <1>1. /\ pc' = "app" /\ call' = NoCall /\ fresh' = TRUE
        /\ ret' = [call |-> c, src |-> "real", err |-> "OK", fresh |-> fresh]
        /\ real' = [real EXCEPT ![p] = "file"]
        /\ seen' = [seen EXCEPT ![p] = {"real"}]
        /\ granted' = granted \ {p} /\ troubled' = troubled \ {p}
    BY DEF sqfs_open_creates, Finish, Changes
  <1>2. c \in Call /\ c.path = p /\ c.errno = "OK"
    BY DEF Call, Errnos
  <1> HIDE DEF c
  <1>3. TypeOK' /\ PlaceInv'
    BY <1>1, <1>2 DEF IInv, TypeOK, PlaceInv, Calls, NoCall, Errnos, Layers, RealStates
  <1>4. FailedInv' /\ AnswerInv' /\ FoundWhenPresent'
    BY <1>1, <1>2 DEF FailedInv, AnswerInv, FoundWhenPresent, Layers
  <1>5. HistoryInv'
    BY <1>1 DEF IInv, TypeOK, HistoryInv, Exists
  <1> QED
    BY <1>3, <1>4, <1>5 DEF IInv

(* Another process changes a path: what was known of it is forgotten.      *)
LEMMA OtherOK ==
  ASSUME IInv, NEW p \in Paths, NEW s \in RealStates, other_process(p, s)
  PROVE  IInv'
  <1>1. /\ real' = [real EXCEPT ![p] = s]
        /\ ret' = IF ret.call.path = p THEN NoRet ELSE ret
        /\ seen' = [seen EXCEPT ![p] = {}]
        /\ granted' = granted \ {p} /\ troubled' = troubled \ {p}
        /\ fresh' = (fresh /\ p # call.path) /\ pc' = pc /\ call' = call
    BY DEF other_process, Changes
  <1>2. NoCall.path # p /\ NoRet.call = NoCall
    BY OverlayAssumption DEF NoCall, NoRet
  <1>3. TypeOK' /\ PlaceInv'
    <2>1. NoRet \in [call : Calls, src : Layers \cup {None}, err : Errnos, fresh : BOOLEAN]
      BY DEF NoRet, Calls, Errnos
    <2>2. fresh' \in BOOLEAN /\ (pc' = "app" => fresh')
      BY <1>1, <1>2 DEF IInv, TypeOK, PlaceInv
    <2> QED
      BY <1>1, <2>1, <2>2 DEF IInv, TypeOK, PlaceInv, Calls
  <1>4. FailedInv'
    <2>1. ASSUME pc' = "image", fresh'
          PROVE  IF call.errno = "ENOENT" THEN ~Exists(real'[call.path])
                 ELSE call.path \in troubled'
      <3>1. call \in Call /\ call.path # p /\ call.path \in Paths
        BY <1>1, <2>1 DEF IInv, PlaceInv, Call
      <3>2. IF call.errno = "ENOENT" THEN ~Exists(real[call.path]) ELSE call.path \in troubled
        BY <1>1, <2>1 DEF IInv, FailedInv
      <3> QED
        BY <1>1, <3>1, <3>2 DEF IInv, TypeOK
    <2>2. ASSUME ret'.call # NoCall, ret'.fresh, ret'.call.errno = "ENOENT"
          PROVE  ~Exists(real'[ret'.call.path])
      <3>1. ret' = ret /\ ret.call \in Call /\ ret.call.path # p /\ ret.call.path \in Paths
        BY <1>1, <1>2, <2>2 DEF IInv, PlaceInv, Calls, Call
      <3>2. ~Exists(real[ret.call.path])
        BY <2>2, <3>1 DEF IInv, FailedInv
      <3> QED
        BY <1>1, <3>1, <3>2 DEF IInv, TypeOK
    <2> QED
      BY <1>1, <2>1, <2>2 DEF FailedInv
  <1>5. AnswerInv' /\ FoundWhenPresent'
    BY <1>1, <1>2, OverlayAssumption
    DEF IInv, AnswerInv, FoundWhenPresent, NoRet, NoCall, Call
  <1>6. HistoryInv'
    BY <1>1 DEF IInv, TypeOK, HistoryInv, Exists
  <1> QED
    BY <1>3, <1>4, <1>5, <1>6 DEF IInv

-----------------------------------------------------------------------------
(* The first half of each call is an Attempt with a real result.           *)
LEMMA FirstHalfOK ==
  ASSUME IInv, NEW p \in Paths
  PROVE  /\ \A f \in Flags : sqfs_open(p, f) => IInv'
         /\ \A m \in Modes : sqfs_access(p, m) => IInv'
         /\ \A a \in StatArgs : sqfs_xstat(p, a) => IInv'
  <1>1. real[p] \in RealStates
    BY DEF IInv, TypeOK
  <1>2. ASSUME NEW f \in Flags, sqfs_open(p, f) PROVE IInv'
    <2>1. PICK e \in real_open(real[p], f) :
            ~(real[p] = "absent" /\ e = "OK") /\ Attempt("open", p, f, e)
      BY <1>2 DEF sqfs_open
    <2>2. e \in Errnos /\ (e = "OK" => Exists(real[p])) /\ (e = "ENOENT" => ~Exists(real[p]))
      BY <1>1, <2>1, RealFacts
    <2>3. UNCHANGED real
      BY <1>2 DEF sqfs_open
    <2> QED
      BY <2>1, <2>2, <2>3, AttemptOK
  <1>3. ASSUME NEW m \in Modes, sqfs_access(p, m) PROVE IInv'
    <2>1. PICK e \in real_access(real[p], m) : Attempt("access", p, m, e)
      BY <1>3 DEF sqfs_access
    <2>2. e \in Errnos /\ (e = "OK" => Exists(real[p])) /\ (e = "ENOENT" => ~Exists(real[p]))
      BY <1>1, <2>1, RealFacts
    <2>3. UNCHANGED real
      BY <1>3 DEF sqfs_access
    <2> QED
      BY <2>1, <2>2, <2>3, AttemptOK
  <1>4. ASSUME NEW a \in StatArgs, sqfs_xstat(p, a) PROVE IInv'
    <2>1. PICK e \in real_xstat(real[p], a) : Attempt("xstat", p, a, e)
      BY <1>4 DEF sqfs_xstat
    <2>2. e \in Errnos /\ (e = "OK" => Exists(real[p])) /\ (e = "ENOENT" => ~Exists(real[p]))
      BY <1>1, <2>1, RealFacts
    <2>3. UNCHANGED real
      BY <1>4 DEF sqfs_xstat
    <2> QED
      BY <2>1, <2>2, <2>3, AttemptOK
  <1> QED
    BY <1>2, <1>3, <1>4

(* The second half is an Answer.                                           *)
LEMMA SecondHalfOK ==
  ASSUME IInv
  PROVE  /\ path_refused \/ not_in_image \/ image_error => IInv'
         /\ sqfs_open_image \/ sqfs_access_image \/ sqfs_xstat_image => IInv'
         /\ sqfs_xstat_bad_args => IInv'
  <1>1. pc = "image" => call.errno \in Errnos /\ call.errno # "OK"
    BY DEF IInv, PlaceInv, Call
  <1>a. None # "image"
    BY OverlayAssumption
  <1>2. {"OK", "ENOENT", "EFAULT", "ENOMEM", "EROFS", "EACCES"} \subseteq Errnos
    BY DEF Errnos
  <1>3. CASE path_refused
    <2>1. PICK err \in Errnos : Answer(None, err) /\ err # "OK" /\ call.path \notin Inside
      BY <1>1, <1>2, <1>3 DEF path_refused, Answer
    <2> QED
      BY <1>a, <2>1, AnswerOK
  <1>4. CASE not_in_image
    BY <1>2, <1>4, <1>a, AnswerOK DEF not_in_image
  <1>5. CASE image_error
    BY <1>2, <1>5, <1>a, AnswerOK DEF image_error, Looks
  <1>6. CASE sqfs_open_image
    BY <1>2, <1>6, AnswerOK DEF sqfs_open_image
  <1>7. CASE sqfs_access_image
    <2> DEFINE e == image_access(call.path, call.arg)
    <2>1. e \in Errnos /\ e # "ENOENT" /\ (e = "OK" => "w" \notin call.arg)
      BY <1>2 DEF image_access
    <2>2. Answer(IF e = "OK" THEN "image" ELSE None, e)
      BY <1>7 DEF sqfs_access_image
    <2> HIDE DEF e
    <2> QED
      BY <1>a, <2>1, <2>2, AnswerOK
  <1>8. CASE sqfs_xstat_image
    BY <1>2, <1>8, AnswerOK DEF sqfs_xstat_image
  <1>9. CASE sqfs_xstat_bad_args
    BY <1>2, <1>9, <1>a, AnswerOK DEF sqfs_xstat_bad_args
  <1> QED
    BY <1>3, <1>4, <1>5, <1>6, <1>7, <1>8, <1>9

(* Every step keeps the invariant.                                         *)
LEMMA NextOK == IInv /\ [Next]_vars => IInv'
  <1> SUFFICES ASSUME IInv, [Next]_vars PROVE IInv'
    OBVIOUS
  <1>1. ASSUME NEW p \in Paths, NEW f \in Flags, sqfs_open(p, f) \/ sqfs_open_creates(p, f)
        PROVE  IInv'
    BY <1>1, FirstHalfOK, CreatesOK
  <1>2. ASSUME NEW p \in Paths, NEW m \in Modes, sqfs_access(p, m) PROVE IInv'
    BY <1>2, FirstHalfOK
  <1>3. ASSUME NEW p \in Paths, NEW a \in StatArgs, sqfs_xstat(p, a) PROVE IInv'
    BY <1>3, FirstHalfOK
  <1>4. ASSUME NEW p \in Paths, NEW s \in Upper[p], other_process(p, s) PROVE IInv'
    <2>1. s \in RealStates
      BY OverlayAssumption
    <2> QED
      BY <1>4, <2>1, OtherOK
  <1>5. CASE UNCHANGED vars
    BY <1>5 DEF vars, history, IInv, TypeOK, PlaceInv, FailedInv, AnswerInv, HistoryInv,
                FoundWhenPresent
  <1> QED
    BY <1>1, <1>2, <1>3, <1>4, <1>5, SecondHalfOK DEF Next

(* Every reachable state satisfies the inductive invariant.                *)
THEOREM Invariance == Spec => []IInv
  <1>1. Init => IInv
    BY InitOK
  <1>2. IInv /\ [Next]_vars => IInv'
    BY NextOK
  <1> QED
    BY <1>1, <1>2, PTL DEF Spec

(* The variables of sqfs_open, sqfs_access and sqfs_xstat keep their types, *)
(* and the image is asked only after the real function has failed.         *)
THEOREM TypeCorrect == Spec => []TypeOK
  <1>1. IInv => TypeOK
    BY DEF IInv
  <1> QED
    BY <1>1, Invariance, PTL

(* sqfs_open, sqfs_access and sqfs_xstat never report ENOENT for a path of *)
(* the image under the prefix, whatever other processes do meanwhile.      *)
THEOREM NeverMissing == Spec => []FoundWhenPresent
  <1>1. IInv => FoundWhenPresent
    BY DEF IInv
  <1> QED
    BY <1>1, Invariance, PTL

(* As long as a path does not change, open, access and __xstat answer for  *)
(* it from one layer, unless a real function failed on it other than with  *)
(* ENOENT: "real" was seen only where something exists, "image" only where *)
(* nothing does or after such a failure.                                   *)
THEOREM AlwaysOneLayer == Spec => []OneLayerPerPath
  <1>1. IInv => OneLayerPerPath
    BY DEF IInv, HistoryInv, OneLayerPerPath, Layers
  <1> QED
    BY <1>1, Invariance, PTL

(* After access(W_OK) has granted a path, an open for writing of the path, *)
(* unchanged since, ends on a backing descriptor of the image only if the  *)
(* real open failed other than with ENOENT.                                *)
THEOREM GrantedIsReal == Spec => []WritableMeansUpper
  <1>1. IInv => WritableMeansUpper
    <2> SUFFICES ASSUME IInv, ret.call.op = "open", ret.fresh, ret.call.path \in granted,
                        ret.call.errno = "ENOENT"
                 PROVE  FALSE
      BY DEF WritableMeansUpper
    <2>1. ret.call # NoCall
      BY DEF NoCall
    <2>2. ~Exists(real[ret.call.path])
      BY <2>1 DEF IInv, FailedInv
    <2>3. Exists(real[ret.call.path])
      BY DEF IInv, HistoryInv
    <2> QED
      BY <2>2, <2>3
  <1> QED
    BY <1>1, Invariance, PTL
=============================================================================
