--------------------------- MODULE HookLifecycle ---------------------------
(***************************************************************************)
(* The life of the hooks (hooksqfs.c): the constructor looks libc's        *)
(* functions up, loads the image, has funchook prepare a trampoline per    *)
(* function and patch the functions' entries; the destructor takes it all  *)
(* back.  Other threads call libc meanwhile, and any step may fail.        *)
(*                                                                         *)
(* Code addresses are named after functions; two names may have the same   *)
(* address (pread64 and pread in a 64-bit glibc).  funchook is external:   *)
(* prepare copies the code at a function's address into a trampoline and   *)
(* stores the trampoline in the caller's pointer, install patches the      *)
(* addresses in that order, uninstall restores them, destroy frees the     *)
(* trampolines.                                                            *)
(***************************************************************************)
EXTENDS ImageLoad, FiniteSetsExt

CONSTANTS
  Main,        \* the thread that runs constructor and destructor
  SymTables    \* what dlsym may find: each name's address, or "NULL"

VARIABLES
  phase,       \* where Main is in the constructor or destructor
  exiting,     \* the destructor has begun
  sym,         \* libc's symbol table
  libc,        \* g_xLibcFuncs
  saved,       \* g_xTrampoline: the entries before installation
  hooks,       \* hooks_funchook # NULL
  next,        \* the hook to prepare next
  tramp,       \* where each function's trampoline leads
  patched,     \* the hook each address has been patched to jump to
  stuck,       \* funchook_uninstall has failed on patched entries
  at,          \* where each thread is in a hooked call
  hook,        \* the hook it is in
  ptr          \* the pointer it has read from g_xLibcFuncs

hookVars == <<phase, exiting, sym, libc, saved, hooks, next, tramp, patched, stuck>>
callVars == <<at, hook, ptr>>
vars     == <<imageVars, hookVars, callVars>>

(* The functions in the order in which install_hooks prepares them.        *)
Order == << "open", "read", "pread", "lseek", "pread64", "lseek64", "close",
            "__close_nocancel", "opendir", "readdir", "closedir", "access", "__xstat" >>
Funcs == {Order[i] : i \in 1 .. Len(Order)}

(* Values of a function pointer.                                           *)
NullPtr  == <<"null", "NULL">>
Entry(a) == IF a = "NULL" THEN NullPtr ELSE <<"entry", a>>
Tramp(f) == <<"tramp", f>>

ASSUME LifecycleAssumption ==
  /\ Main \in Threads
  /\ SymTables \subseteq [Funcs -> Funcs \cup {"NULL"}]

Init ==
  /\ InitImage
  /\ phase = "populate" /\ exiting = FALSE /\ sym \in SymTables
  /\ libc = [f \in Funcs |-> NullPtr] /\ saved = libc
  /\ hooks = FALSE /\ next = 1
  /\ tramp = [f \in Funcs |-> "none"] /\ patched = [f \in Funcs |-> "none"]
  /\ stuck = FALSE
  /\ at = [t \in Threads |-> "idle"]
  /\ hook = [t \in Threads |-> "none"] /\ ptr = [t \in Threads |-> NullPtr]

-----------------------------------------------------------------------------
(* The constructor.                                                        *)

Originals == [f \in Funcs |->
  Entry(IF f = "__close_nocancel" /\ sym[f] = "NULL" THEN sym["close"] ELSE sym[f])]

vPopulateLibcFuncPtrs ==
  /\ phase = "populate"
  /\ libc' = Originals
  /\ phase' = "load" /\ step' = [step EXCEPT ![Main] = "load"]
  /\ UNCHANGED <<owner, img, live, loads, stage, listers>>
  /\ UNCHANGED <<exiting, sym, saved, hooks, next, tramp, patched, stuck, callVars>>

bLibcFuncPtrsLoaded == \A f \in Funcs : libc[f] # NullPtr

(* After sqfs_mgr_load_image, whose result is not looked at.  A missing    *)
(* function, or a failure of funchook_create, and nothing is hooked.       *)
install_hooks ==
  /\ phase = "load" /\ step[Main] = "idle"
  /\ IF ~bLibcFuncPtrsLoaded
     THEN phase' = "app" /\ UNCHANGED <<saved, hooks>>
     ELSE /\ saved' = libc
          /\ \/ hooks' = TRUE /\ phase' = "prepare"
             \/ UNCHANGED hooks /\ phase' = "app"
  /\ UNCHANGED <<exiting, sym, libc, next, tramp, patched, stuck, callVars, imageVars>>

(* The alias guards.  Those of pread64 and lseek64 look at g_xLibcFuncs,   *)
(* where pread and lseek are trampolines by now.                           *)
Skipped(f) ==
  \/ f = "pread64" /\ libc[f] = libc["pread"]
  \/ f = "lseek64" /\ libc[f] = libc["lseek"]
  \/ f = "__close_nocancel" /\ saved[f] \in {NullPtr, saved["close"]}

(* The code that a trampoline made now from address a continues with.      *)
CodeAt(a) == IF patched[a] = "none" THEN "libc" ELSE patched[a]

(* Mutant: each function is patched as soon as it is prepared.             *)
prepare_hook_and_patch ==
  LET f == Order[next]
  IN /\ phase = "prepare" /\ next <= Len(Order)
     /\ IF Skipped(f) THEN UNCHANGED <<libc, tramp, patched>>
        ELSE /\ tramp' = [tramp EXCEPT ![f] = CodeAt(libc[f][2])]
             /\ libc' = [libc EXCEPT ![f] = Tramp(f)]
             /\ patched' = [patched EXCEPT ![libc[f][2]] = f]
     /\ next' = next + 1
     /\ UNCHANGED <<phase, exiting, sym, saved, hooks, stuck, callVars, imageVars>>

prepare_hook ==
  LET f == Order[next]
  IN /\ phase = "prepare" /\ next <= Len(Order)
     /\ IF Skipped(f) THEN UNCHANGED <<libc, tramp>>
        ELSE /\ tramp' = [tramp EXCEPT ![f] = CodeAt(libc[f][2])]
             /\ libc' = [libc EXCEPT ![f] = Tramp(f)]
     /\ next' = next + 1
     /\ UNCHANGED <<phase, exiting, sym, saved, hooks, patched, stuck, callVars, imageVars>>

prepare_hook_fails ==
  /\ phase = "prepare" /\ next <= Len(Order)
  /\ ~Skipped(Order[next])
  /\ phase' = "uninstall"
  /\ UNCHANGED <<exiting, sym, libc, saved, hooks, next, tramp, patched, stuck, callVars, imageVars>>

(* The first k hooks of Order patched: of two with one address, the later. *)
PatchedBy(k) ==
  [a \in Funcs |->
     LET mine == {i \in 1 .. k : tramp[Order[i]] # "none" /\ saved[Order[i]] = Entry(a)}
     IN IF mine = {} THEN "none" ELSE Order[Max(mine)]]

funchook_install ==
  /\ phase = "prepare" /\ next > Len(Order)
  /\ patched' = PatchedBy(Len(Order))
  /\ phase' = "app"
  /\ UNCHANGED <<exiting, sym, libc, saved, hooks, next, tramp, stuck, callVars, imageVars>>

(* Mutant: a failed installation is left as it is.                         *)
funchook_install_fails_and_stays ==
  /\ phase = "prepare" /\ next > Len(Order)
  /\ \E k \in 0 .. Len(Order) - 1 : patched' = PatchedBy(k)
  /\ phase' = "app"
  /\ UNCHANGED <<exiting, sym, libc, saved, hooks, next, tramp, stuck, callVars, imageVars>>

(* It may fail after some of the entries.                                  *)
funchook_install_fails ==
  /\ phase = "prepare" /\ next > Len(Order)
  /\ \E k \in 0 .. Len(Order) - 1 : patched' = PatchedBy(k)
  /\ phase' = "uninstall"
  /\ UNCHANGED <<exiting, sym, libc, saved, hooks, next, tramp, stuck, callVars, imageVars>>

-----------------------------------------------------------------------------
(* uninstall_hooks, from the constructor after a failure or from the       *)
(* destructor.  Each call is a step, for other threads are running.        *)

hooksqfs_fini ==
  /\ phase = "app" /\ at[Main] = "idle" /\ step[Main] = "idle"
  /\ exiting' = TRUE
  /\ phase' = IF hooks THEN "uninstall" ELSE "done"
  /\ UNCHANGED <<sym, libc, saved, hooks, next, tramp, patched, stuck, callVars, imageVars>>

funchook_uninstall ==
  /\ phase = "uninstall"
  /\ patched' = [a \in Funcs |-> "none"]
  /\ phase' = "destroy"
  /\ UNCHANGED <<exiting, sym, libc, saved, hooks, next, tramp, stuck, callVars, imageVars>>

(* Its failure, also for want of an installation, is logged only.          *)
funchook_uninstall_fails ==
  /\ phase = "uninstall"
  /\ stuck' = (\E a \in Funcs : patched[a] # "none")
  /\ phase' = "destroy"
  /\ UNCHANGED <<exiting, sym, libc, saved, hooks, next, tramp, patched, callVars, imageVars>>

funchook_destroy ==
  /\ phase = "destroy"
  /\ \/ tramp' = [f \in Funcs |-> IF tramp[f] = "none" THEN "none" ELSE "freed"]
     \/ UNCHANGED tramp                                         \* it fails
  /\ phase' = "restore"
  /\ UNCHANGED <<exiting, sym, libc, saved, hooks, next, patched, stuck, callVars, imageVars>>

uninstall_hooks ==
  /\ phase = "restore"
  /\ hooks' = FALSE /\ libc' = saved
  /\ phase' = IF exiting THEN "done" ELSE "app"
  /\ UNCHANGED <<exiting, sym, saved, next, tramp, patched, stuck, callVars, imageVars>>

-----------------------------------------------------------------------------
(* A thread calls libc.  The call of an unpatched function changes nothing *)
(* here; Main makes calls only outside constructor and destructor.         *)

MayRun(t) == (t = Main => phase = "app") /\ \A u \in Threads : at[u] # "crashed"

(* Through the functions of g_xLibcFuncs that each hook calls.             *)
RealCalls(f) == CASE f = "open"    -> {"open", "close"}
                  [] f = "opendir" -> {"opendir", "closedir"}
                  [] OTHER         -> {f}

enter_hook(t, f) ==
  /\ MayRun(t) /\ at[t] = "idle" /\ step[t] = "idle"
  /\ sym[f] # "NULL" /\ patched[sym[f]] # "none"
  /\ at' = [at EXCEPT ![t] = "hook"] /\ hook' = [hook EXCEPT ![t] = patched[sym[f]]]
  /\ UNCHANGED <<ptr, hookVars, imageVars>>

(* The hook reads the pointer, and jumps a moment later.                   *)
read_pointer(t) ==
  /\ MayRun(t) /\ at[t] = "hook" /\ step[t] = "idle"
  /\ \E g \in RealCalls(hook[t]) : ptr' = [ptr EXCEPT ![t] = libc[g]]
  /\ at' = [at EXCEPT ![t] = "jump"]
  /\ UNCHANGED <<hook, hookVars, imageVars>>

(* The code a pointer leads to: "libc", a hook, or freed memory.           *)
Resolve(p) == IF p[1] = "tramp" THEN tramp[p[2]] ELSE CodeAt(p[2])

jump(t) ==
  LET code == Resolve(ptr[t])
  IN /\ MayRun(t) /\ at[t] = "jump"
     /\ at' = [at EXCEPT ![t] = IF code = "freed" THEN "crashed" ELSE "hook"]
     /\ hook' = [hook EXCEPT ![t] = IF code \in Funcs THEN code ELSE @]
     /\ ptr' = [ptr EXCEPT ![t] = NullPtr]
     /\ UNCHANGED <<hookVars, imageVars>>

(* The hook looks a path up in the image.                                  *)
lookup(t) ==
  /\ MayRun(t) /\ at[t] = "hook" /\ hook[t] \in {"open", "opendir", "access", "__xstat"}
  /\ find_begin(t)
  /\ UNCHANGED <<hookVars, callVars>>

leave_hook(t) ==
  /\ MayRun(t) /\ at[t] = "hook" /\ step[t] = "idle"
  /\ at' = [at EXCEPT ![t] = "idle"] /\ hook' = [hook EXCEPT ![t] = "none"]
  /\ UNCHANGED <<ptr, hookVars, imageVars>>

(* A developer's call of test_sqfs_listing, once the constructor is over.  *)
list(t) ==
  /\ MayRun(t) /\ at[t] = "idle" /\ phase = "app"
  /\ test_sqfs_listing(t)
  /\ UNCHANGED <<hookVars, callVars>>

image_step(t) ==
  /\ \A u \in Threads : at[u] # "crashed"
  /\ ImageStep(t)
  /\ UNCHANGED <<hookVars, callVars>>

(* hooksqfs_init, with the steps of ImageLoad between its first two.       *)
constructor ==
  \/ vPopulateLibcFuncPtrs \/ install_hooks \/ prepare_hook \/ prepare_hook_fails
  \/ funchook_install \/ funchook_install_fails

destructor ==
  \/ hooksqfs_fini \/ funchook_uninstall \/ funchook_uninstall_fails
  \/ funchook_destroy \/ uninstall_hooks

Next ==
  \/ constructor \/ destructor
  \/ \E t \in Threads : \/ \E f \in Funcs : enter_hook(t, f)
                        \/ read_pointer(t) \/ jump(t) \/ leave_hook(t)
                        \/ lookup(t) \/ list(t) \/ image_step(t)

Spec == Init /\ [][Next]_vars

-----------------------------------------------------------------------------
(* Type invariant.                                                         *)
TypeOK ==
  /\ ImageTypeOK
  /\ phase \in {"populate", "load", "prepare", "app", "uninstall", "destroy", "restore", "done"}
  /\ exiting \in BOOLEAN /\ hooks \in BOOLEAN /\ stuck \in BOOLEAN
  /\ next \in 1 .. Len(Order) + 1
  /\ \A f \in Funcs : {libc[f], saved[f]} \subseteq {Tramp(f), NullPtr} \cup {Entry(a) : a \in Funcs}
  /\ tramp \in [Funcs -> {"none", "libc", "freed"} \cup Funcs]
  /\ patched \in [Funcs -> Funcs \cup {"none"}]
  /\ at \in [Threads -> {"idle", "hook", "jump", "crashed"}]
  /\ \A t \in Threads : (at[t] = "jump") = (ptr[t] # NullPtr)

(* Where a hook goes on to the real function it never comes back to a      *)
(* hook, although the real function is patched, in every order of          *)
(* prepare, install, uninstall and calls in progress, and although pread64 *)
(* and lseek64 may be prepared on an address that is prepared already.     *)
(* Only a funchook_uninstall that fails on patched entries breaks this:    *)
(* uninstall_hooks then points g_xLibcFuncs at them all the same.          *)
NoHookLoop ==
  ~stuck => \A t \in Threads : at[t] = "jump" => Resolve(ptr[t]) \notin Funcs

(* After the constructor either every function that exists is hooked, or,  *)
(* whichever step failed, no function is and g_xLibcFuncs holds the real   *)
(* ones; the same after the destructor.                                    *)
AllOrNothing ==
  phase \in {"app", "done"} /\ ~stuck =>
    IF hooks THEN \A f \in Funcs : sym[f] # "NULL" => patched[sym[f]] # "none"
    ELSE libc = Originals /\ \A a \in Funcs : patched[a] = "none"
=============================================================================
