-------------------------- MODULE FdMapRefinement --------------------------
(***************************************************************************)
(* FdMap implements OpenFiles.  A description of an image file is open     *)
(* from HASH_ADD_INT to HASH_DEL; one of a real file, as long as the       *)
(* kernel has it.  In between, a backing descriptor is nobody's.           *)
(***************************************************************************)
EXTENDS FdMap

AbsTable ==
  {[fd |-> e.key, gen |-> e.gen, file |-> e.inode, off |-> e.offset] : e \in fd_map}
  \cup {[fd |-> fd, gen |-> kfd[fd].gen, file |-> kfd[fd].obj, off |-> kfd[fd].off] :
          fd \in {f \in Fds : kfd[f].obj \in RealFiles}}

(* The call as the application made it: an open in progress has no number. *)
AbsCall(c) ==
  IF c.op = "open"
  THEN [op |-> "open", fd |-> NoCall.fd, gen |-> NoCall.gen, arg |-> NoArg]
  ELSE [op |-> c.op, fd |-> c.fd, gen |-> c.gen, arg |-> c.arg]

Abs == INSTANCE OpenFiles WITH
         table  <- AbsTable,
         call   <- [t \in Threads |-> AbsCall(call[t])],
         NoCall <- AbsCall(NoCall),
         Empty  <- Backing

(* The hooked calls, with their mutex, map and kernel steps interleaved by *)
(* several threads, behave as the atomic calls of OpenFiles.               *)
ImplementsOpenFiles == Abs!Spec
=============================================================================
