---------------------------- MODULE BackingNames ----------------------------
(***************************************************************************)
(* How backing objects get a name under /tmp and lose it again:            *)
(* create_backing_dir (mkdir, opendir, rmdir) and create_backing_fd        *)
(* (memfd_create or, without it, open with O_EXCL and unlink), utils.c,    *)
(* lines 22-122.                                                           *)
(*                                                                         *)
(* Names are made of the kind, the pid and a counter of the process.       *)
(* Processes of different pid namespaces may share /tmp and have the same  *)
(* pid; a process may die between any two steps, and a new one get its     *)
(* pid.  Within a process the callers hold g_xSqfsMgr.mutex, so that one   *)
(* thread at a time is in here.  Nobody else removes names of ours.        *)
(***************************************************************************)
EXTENDS Integers, FiniteSets

CONSTANTS
  Procs,       \* processes that use /tmp at the same time
  Pid,         \* the pid of each
  MaxTries,    \* length of the loop, 128 in the code
  MaxId,       \* bound: counter values
  MaxCrashes   \* bound: crashes in a behaviour

ASSUME BackingAssumption ==
  /\ MaxTries \in Nat \ {0} /\ MaxId \in Nat /\ MaxCrashes \in Nat
  /\ DOMAIN Pid = Procs

VARIABLES
  tmp,         \* the entries of /tmp: a name, and the process that made it
  pc,          \* where each process is
  kind,        \* what it is making: a "dir" or a "file"
  counter,     \* the static counter of each of the two functions
  tries,       \* i: how many tries have failed
  name,        \* path: the name in use
  life,        \* how many processes have run in this place
  got,         \* the object that opendir or open returned
  ret,         \* the outcome of the last call
  rival,       \* another process of this pid was creating during the call
  crashes      \* number of crashes

vars == <<tmp, pc, kind, counter, tries, name, life, got, ret, rival, crashes>>

Kinds   == {"dir", "file"}
Names   == Kinds \X {Pid[p] : p \in Procs} \X (0 .. MaxId)
Objects == [name : Names, by : Procs, life : 0 .. MaxCrashes]
None    == <<>>

Taken(n) == \E e \in tmp : e.name = n
Mine(p)  == [name |-> name[p], by |-> p, life |-> life[p]]
Busy(p)  == pc[p] # "idle"

Init ==
  /\ tmp = {}
  /\ pc = [p \in Procs |-> "idle"] /\ kind = [p \in Procs |-> "dir"]
  /\ counter = [p \in Procs |-> [k \in Kinds |-> 0]]
  /\ tries = [p \in Procs |-> 0] /\ name = [p \in Procs |-> None]
  /\ life = [p \in Procs |-> 0] /\ got = [p \in Procs |-> None]
  /\ ret = [p \in Procs |-> "none"] /\ rival = [p \in Procs |-> FALSE]
  /\ crashes = 0

-----------------------------------------------------------------------------
(* A call enters the loop over names.  From now until they end, it and the *)
(* calls in progress of the same pid are rivals.                           *)
Begin(p, k) ==
  LET others == {q \in Procs \ {p} : Pid[q] = Pid[p] /\ Busy(q)}
  IN /\ pc[p] = "idle"
     /\ counter[p][k] + MaxTries <= MaxId
     /\ pc' = [pc EXCEPT ![p] = "try"] /\ kind' = [kind EXCEPT ![p] = k]
     /\ tries' = [tries EXCEPT ![p] = 0] /\ ret' = [ret EXCEPT ![p] = "none"]
     /\ rival' = [q \in Procs |-> IF q = p THEN others # {} ELSE rival[q] \/ q \in others]
     /\ UNCHANGED <<tmp, counter, name, life, got, crashes>>

(* A call returns; its locals are gone.                                    *)
Return(p, r) ==
  /\ pc' = [pc EXCEPT ![p] = "idle"] /\ ret' = [ret EXCEPT ![p] = r]
  /\ kind' = [kind EXCEPT ![p] = "dir"] /\ tries' = [tries EXCEPT ![p] = 0]
  /\ name' = [name EXCEPT ![p] = None] /\ got' = [got EXCEPT ![p] = None]
  /\ UNCHANGED <<life, rival, crashes>>

create_backing_dir(p) == Begin(p, "dir")

(* memfd_create fails with ENOSYS or EINVAL.                               *)
create_unlinked_tmp_fd(p) == Begin(p, "file")

(* memfd_create succeeds, or fails with another error.                     *)
create_memfd(p) ==
  /\ pc[p] = "idle"
  /\ \E r \in {"OK", "error"} : Return(p, r)
  /\ UNCHANGED <<tmp, counter>>

(* The next name: atomic_fetch_add of the counter.                         *)
NewName(p) == <<kind[p], Pid[p], counter[p][kind[p]]>>

(* Mutant: the counter is not advanced.                                    *)
NextId_stays(p) == counter' = counter

NextId(p) == counter' = [counter EXCEPT ![p][kind[p]] = @ + 1]

(* Mutant: one try too many.                                               *)
try_exists_once_more(p) ==
  /\ pc[p] = "try" /\ Taken(NewName(p))
  /\ NextId(p)
  /\ IF tries[p] = MaxTries THEN Return(p, "EEXIST")
     ELSE /\ tries' = [tries EXCEPT ![p] = @ + 1]
          /\ UNCHANGED <<pc, kind, name, life, got, ret, rival, crashes>>
  /\ UNCHANGED tmp

(* mkdir, or open with O_CREAT and O_EXCL, finds the name taken.           *)
try_exists(p) ==
  /\ pc[p] = "try" /\ Taken(NewName(p))
  /\ NextId(p)
  /\ IF tries[p] + 1 = MaxTries THEN Return(p, "EEXIST")
     ELSE /\ tries' = [tries EXCEPT ![p] = @ + 1]
          /\ UNCHANGED <<pc, kind, name, life, got, ret, rival, crashes>>
  /\ UNCHANGED tmp

(* Mutant: a directory that exists already is used.                        *)
try_creates_or_uses(p) ==
  LET new == [name |-> NewName(p), by |-> p, life |-> life[p]]
  IN /\ pc[p] = "try"
     /\ NextId(p)
     /\ name' = [name EXCEPT ![p] = NewName(p)]
     /\ tmp' = IF Taken(NewName(p)) THEN tmp ELSE tmp \cup {new}
     /\ got' = [got EXCEPT ![p] = IF kind[p] = "dir" THEN None ELSE new]
     /\ pc' = [pc EXCEPT ![p] = IF kind[p] = "dir" THEN "made" ELSE "opened"]
     /\ UNCHANGED <<kind, tries, life, ret, rival, crashes>>

(* It makes the object; open has it open at once.                          *)
try_creates(p) ==
  /\ pc[p] = "try" /\ ~Taken(NewName(p))
  /\ NextId(p)
  /\ name' = [name EXCEPT ![p] = NewName(p)]
  /\ LET new == [name |-> NewName(p), by |-> p, life |-> life[p]]
     IN /\ tmp' = tmp \cup {new}
        /\ got' = [got EXCEPT ![p] = IF kind[p] = "dir" THEN None ELSE new]
  /\ pc' = [pc EXCEPT ![p] = IF kind[p] = "dir" THEN "made" ELSE "opened"]
  /\ UNCHANGED <<kind, tries, life, ret, rival, crashes>>

(* It fails for another reason: the call fails.                            *)
try_fails(p) ==
  /\ pc[p] = "try"
  /\ NextId(p)
  /\ Return(p, "error")
  /\ UNCHANGED tmp

(* opendir looks the path up again.                                        *)
opendir(p) ==
  /\ pc[p] = "made"
  /\ \E e \in tmp : e.name = name[p] /\ got' = [got EXCEPT ![p] = e]
  /\ pc' = [pc EXCEPT ![p] = "opened"]
  /\ UNCHANGED <<tmp, kind, counter, tries, name, life, ret, rival, crashes>>

(* The path is gone, or the process has no descriptor left.                *)
opendir_fails(p) ==
  /\ pc[p] = "made"
  /\ pc' = [pc EXCEPT ![p] = "opened"]
  /\ UNCHANGED <<tmp, kind, counter, tries, name, life, got, ret, rival, crashes>>

(* Mutant: a directory that could not be opened is left in /tmp.           *)
remove_if_opened(p) ==
  /\ pc[p] = "opened"
  /\ tmp' = IF got[p] = None THEN tmp ELSE {e \in tmp : e.name # name[p]}
  /\ Return(p, IF got[p] = None THEN "error" ELSE "OK")
  /\ UNCHANGED counter

(* rmdir or unlinkat, whether the object could be opened or not.           *)
remove_name(p) ==
  /\ pc[p] = "opened"
  /\ tmp' = {e \in tmp : e.name # name[p]}
  /\ Return(p, IF got[p] = None THEN "error" ELSE "OK")
  /\ UNCHANGED counter

(* The process dies and another one gets its pid.  Its names stay.         *)
crash(p) ==
  /\ crashes < MaxCrashes
  /\ crashes' = crashes + 1
  /\ life' = [life EXCEPT ![p] = @ + 1]
  /\ pc' = [pc EXCEPT ![p] = "idle"] /\ ret' = [ret EXCEPT ![p] = "none"]
  /\ counter' = [counter EXCEPT ![p] = [k \in Kinds |-> 0]]
  /\ tries' = [tries EXCEPT ![p] = 0] /\ name' = [name EXCEPT ![p] = None]
  /\ got' = [got EXCEPT ![p] = None]
  /\ kind' = [kind EXCEPT ![p] = "dir"]
  /\ UNCHANGED <<tmp, rival>>

Step(p) ==
  \/ try_exists(p) \/ try_creates(p) \/ try_fails(p)
  \/ opendir(p) \/ opendir_fails(p) \/ remove_name(p)

Next ==
  \E p \in Procs : \/ create_backing_dir(p) \/ create_memfd(p) \/ create_unlinked_tmp_fd(p)
                   \/ Step(p) \/ crash(p)

Spec == Init /\ [][Next]_vars

-----------------------------------------------------------------------------
(* Type invariant.                                                         *)
TypeOK ==
  /\ tmp \subseteq Objects
  /\ pc \in [Procs -> {"idle", "try", "made", "opened"}] /\ kind \in [Procs -> Kinds]
  /\ counter \in [Procs -> [Kinds -> 0 .. MaxId]] /\ tries \in [Procs -> 0 .. MaxTries]
  /\ name \in [Procs -> Names \cup {None}] /\ got \in [Procs -> Objects \cup {None}]
  /\ life \in [Procs -> 0 .. MaxCrashes] /\ crashes \in 0 .. MaxCrashes
  /\ ret \in [Procs -> {"none", "OK", "error", "EEXIST"}]
  /\ rival \in [Procs -> BOOLEAN]

(* From mkdir or open to rmdir or unlink a name denotes the object its     *)
(* process has just made, whatever processes with the same pid do and      *)
(* whatever a crash has left: what is opened by name is its own, and what  *)
(* is removed is nobody else's.                                            *)
OwnName ==
  \A p \in Procs : pc[p] \in {"made", "opened"} =>
    /\ \A e \in tmp : e.name = name[p] => e = Mine(p)
    /\ Mine(p) \in tmp
    /\ got[p] \in {Mine(p), None}

(* A name in /tmp belongs to a creation in progress, or to a process that  *)
(* has died; each death leaves one at most.  Failures leave none.          *)
OnlyCrashesLeave ==
  /\ \A e \in tmp : e.life = life[e.by] =>
       pc[e.by] \in {"made", "opened"} /\ name[e.by] = e.name
  /\ Cardinality({e \in tmp : e.life # life[e.by]}) <= crashes

(* A process that creates alone in its pid gives up with EEXIST only when  *)
(* the dead have left as many names as it makes tries: the counter steps   *)
(* over each of them.                                                      *)
StepsOverLeftovers ==
  \A p \in Procs : ret[p] = "EEXIST" /\ ~rival[p] => crashes >= MaxTries
=============================================================================
