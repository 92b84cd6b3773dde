-------------------------- MODULE MCHookLifecycle --------------------------
(* Symbol tables of the instance: a 32-bit glibc, where every name has its *)
(* own address; a 64-bit one, where pread64 and lseek64 are aliases; each  *)
(* with and without __close_nocancel, or with it an alias of close; and a  *)
(* libc that lacks __xstat.                                                *)
EXTENDS HookLifecycle

Own   == [f \in Funcs |-> f]
Alias == [Own EXCEPT !["pread64"] = "pread", !["lseek64"] = "lseek"]

MCSymTables ==
  {[Own EXCEPT !["__xstat"] = "NULL"]} \cup
  {[s EXCEPT !["__close_nocancel"] = a] :
     s \in {Own, Alias}, a \in {"__close_nocancel", "close", "NULL"}}
=============================================================================
