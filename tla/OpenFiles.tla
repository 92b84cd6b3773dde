----------------------------- MODULE OpenFiles -----------------------------
(***************************************************************************)
(* What the descriptor side of hooksqfs promises: a POSIX descriptor table *)
(* shared by threads, in which a file of the image is as good as a real    *)
(* one.  Every open, read, pread, lseek and close takes effect in one step *)
(* between its call and its return.                                        *)
(*                                                                         *)
(* There is one concession.  A read, pread or lseek still running when the *)
(* application closes its descriptor may behave as on an empty file: POSIX *)
(* leaves the race to the application, and the code lets it see through to *)
(* the empty backing file.                                                 *)
(***************************************************************************)
EXTENDS SeekOps

CONSTANTS
  Threads, Fds, Files, Size, Count, SeekArgs, MaxOpens,
  Empty,       \* the source of data in a call that lost the race with a close
  NoCall,      \* the call of a thread that makes none
  NoArg, NoRet

VARIABLES
  table,       \* open descriptions: the number, its life, the file, the position
  held,        \* descriptors the application has and has not closed
  call,        \* the call each thread is making
  ret          \* what its last call returned

vars == <<table, held, call, ret>>

Init ==
  /\ table = {} /\ held = {}
  /\ call = [t \in Threads |-> NoCall]
  /\ ret = [t \in Threads |-> NoRet]

Invoke(t, op, fd, gen, arg) ==
  /\ call[t] = NoCall
  /\ call' = [call EXCEPT ![t] = [op |-> op, fd |-> fd, gen |-> gen, arg |-> arg]]
  /\ ret' = [ret EXCEPT ![t] = NoRet]
  /\ UNCHANGED table

CallOpen(t) == Invoke(t, "open", NoCall.fd, NoCall.gen, NoArg) /\ UNCHANGED held

CallOn(t, h) ==
  \/ Invoke(t, "read", h.fd, h.gen, NoArg) /\ UNCHANGED held
  \/ \E a \in SeekArgs, op \in {"pread", "lseek"} :
       Invoke(t, op, h.fd, h.gen, a) /\ UNCHANGED held
  \/ Invoke(t, "close", h.fd, h.gen, NoArg) /\ held' = held \ {h}

Return(t, r) ==
  /\ call[t] # NoCall
  /\ call' = [call EXCEPT ![t] = NoCall]
  /\ ret' = [ret EXCEPT ![t] = r]

(* A new description starts at position 0, under a number no other open    *)
(* description has.                                                        *)
Open(t, fd, gen, f) ==
  /\ call[t].op = "open"
  /\ \A d \in table : d.fd # fd /\ d.gen # gen
  /\ table' = table \cup {[fd |-> fd, gen |-> gen, file |-> f, off |-> 0]}
  /\ held' = held \cup {[fd |-> fd, gen |-> gen, file |-> f]}
  /\ Return(t, [src |-> f, off |-> 0, n |-> 0])

(* A read delivers the bytes at the position and moves past exactly those, *)
(* in one step: concurrent readers never get the same byte twice.          *)
Read(t, d) ==
  LET n == sqfs_data_reader_read(Size[d.file], d.off, Count)
  IN /\ call[t].op = "read" /\ d.fd = call[t].fd
     /\ table' = (table \ {d}) \cup {[d EXCEPT !.off = @ + n]}
     /\ Return(t, [src |-> d.file, off |-> d.off, n |-> n])
     /\ UNCHANGED held

PRead(t, d) ==
  LET o == call[t].arg.offset
  IN /\ call[t].op = "pread" /\ d.fd = call[t].fd
     /\ o >= 0
     /\ Return(t, [src |-> d.file, off |-> o,
                   n |-> sqfs_data_reader_read(Size[d.file], o, Count)])
     /\ UNCHANGED <<table, held>>

LSeek(t, d) ==
  LET a   == call[t].arg
      res == sqfs_lseek_mapped(Size[d.file], d.off, a.offset, a.whence,
                               MaxReturn(a.wide))
  IN /\ call[t].op = "lseek" /\ d.fd = call[t].fd
     /\ res.err = "OK"
     /\ table' = (table \ {d}) \cup {[d EXCEPT !.off = res.out]}
     /\ Return(t, [src |-> d.file, off |-> res.out, n |-> 0])
     /\ UNCHANGED held

(* An open, read, pread or lseek may fail; it then changes nothing.        *)
Failed(t) ==
  /\ call[t].op # "close"
  /\ Return(t, NoRet)
  /\ UNCHANGED <<table, held>>

(* The descriptor was closed while the call was running.                   *)
LostRace(t) == \A d \in table : d.gen # call[t].gen

ReadEmpty(t) ==
  /\ call[t].op \in {"read", "pread", "lseek"}
  /\ LostRace(t)
  /\ \E o \in 0 .. I64_MAX : Return(t, [src |-> Empty, off |-> o, n |-> 0])
  /\ UNCHANGED <<table, held>>

(* A close frees the description it names and no other, then returns.      *)
Close(t, d) ==
  /\ call[t].op = "close" /\ d.fd = call[t].fd /\ d.gen = call[t].gen
  /\ table' = table \ {d}
  /\ UNCHANGED held
  /\ Return(t, NoRet) \/ UNCHANGED <<call, ret>>

CloseReturns(t) ==
  /\ call[t].op = "close" /\ LostRace(t)
  /\ Return(t, NoRet)
  /\ UNCHANGED <<table, held>>

Next ==
  \E t \in Threads :
    \/ CallOpen(t)
    \/ \E h \in held : CallOn(t, h)
    \/ \E fd \in Fds, gen \in 1 .. MaxOpens, f \in Files : Open(t, fd, gen, f)
    \/ \E d \in table : Read(t, d) \/ PRead(t, d) \/ LSeek(t, d) \/ Close(t, d)
    \/ Failed(t) \/ ReadEmpty(t) \/ CloseReturns(t)

Spec == Init /\ [][Next]_vars
=============================================================================
