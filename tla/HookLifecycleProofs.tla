------------------------ MODULE HookLifecycleProofs ------------------------
(***************************************************************************)
(* The safety properties of HookLifecycle and of ImageLoad in it, for any  *)
(* number of threads and loads and for any symbol tables.                  *)
(***************************************************************************)
EXTENDS HookLifecycle, TLAPS

-----------------------------------------------------------------------------
(* The image.                                                              *)

(* The places where a thread holds the mutex.                              *)
Holding == {"loading", "load_out", "listing", "list_out", "finding"}

MutexInv == \A t \in Threads : step[t] \in Holding <=> owner = t

(* The fields that are set: those of the calls a load has made; otherwise  *)
(* all or none.                                                            *)
LoadInv ==
  /\ \A t \in Threads : step[t] = "loading" =>
       /\ loads > 0
       /\ img["file"] # 0 <=> stage > 1
       /\ img["compressor"] # 0 <=> stage > 4
       /\ img["data_reader"] # 0 <=> stage > 6
  /\ (\A t \in Threads : step[t] # "loading") =>
       \A f, g \in Fields : (img[f] = 0) <=> (img[g] = 0)
  /\ \A t \in Threads : step[t] \in {"listing", "finding"} => \A f \in Fields : img[f] # 0

(* The objects that exist are the ones pointed to.                         *)
LiveInv ==
  \A f \in Fields, n \in 1 .. MaxLoads : <<f, n>> \in live <=> img[f] = n

ImageInv == ImageTypeOK /\ MutexInv /\ LoadInv /\ LiveInv

(* What the calls of sqfs_mgr_load_image set.                              *)
LEMMA LoadCalls ==
  /\ Len(Stages) = 7
  /\ \A s \in 1 .. 7 : /\ Stages[s] \in DOMAIN Sets <=> s \in {1, 4, 6}
                       /\ Stages[s] = "open_file" <=> s = 1
  /\ Sets[Stages[1]] = "file" /\ Sets[Stages[4]] = "compressor"
  /\ Sets[Stages[6]] = "data_reader"
<1>1. /\ Stages[1] = "open_file" /\ Stages[2] = "super_read" /\ Stages[3] = "config_init"
      /\ Stages[4] = "compressor_create" /\ Stages[5] = "read_options"
      /\ Stages[6] = "data_reader_create" /\ Stages[7] = "load_fragment_table"
  BY DEF Stages
<1>2. DOMAIN Sets = {"open_file", "compressor_create", "data_reader_create"}
  BY DEF Sets
<1>3. /\ Sets["open_file"] = "file" /\ Sets["compressor_create"] = "compressor"
      /\ Sets["data_reader_create"] = "data_reader"
  BY DEF Sets
<1>4. Len(Stages) = 7
  BY DEF Stages
<1>5. ASSUME NEW s \in 1 .. 7
      PROVE  /\ Stages[s] \in DOMAIN Sets <=> s \in {1, 4, 6}
             /\ Stages[s] = "open_file" <=> s = 1
  <2>1. s = 1 \/ s = 2 \/ s = 3 \/ s = 4 \/ s = 5 \/ s = 6 \/ s = 7
    OBVIOUS
  <2> QED  BY <1>1, <1>2, <2>1
<1> QED  BY <1>1, <1>3, <1>4, <1>5

(* The start.                                                              *)
LEMMA ImageStart == InitImage => ImageInv
<1> SUFFICES ASSUME InitImage PROVE ImageInv
  OBVIOUS
<1>1. ImageTypeOK
  BY LoadCalls, ImageLoadAssumption DEF InitImage, ImageTypeOK, Fields
<1>2. MutexInv
  BY ImageLoadAssumption DEF InitImage, MutexInv, Holding
<1>3. LoadInv
  BY DEF InitImage, LoadInv, Fields
<1>4. LiveInv
  BY DEF InitImage, LiveInv, Fields
<1> QED  BY <1>1, <1>2, <1>3, <1>4 DEF ImageInv

(* A step that moves one thread and the mutex with it.                     *)
LEMMA MutexMoves ==
  ASSUME ImageInv, NEW t \in Threads, NEW s, Go(t, s),
         \/ owner = None /\ owner' = t /\ s \in Holding
         \/ owner = t /\ owner' = None /\ s \notin Holding
         \/ owner' = owner /\ (s \in Holding <=> step[t] \in Holding)
  PROVE  MutexInv'
BY ImageLoadAssumption DEF ImageInv, ImageTypeOK, MutexInv, Go

LEMMA LoadLock ==
  ASSUME ImageInv, NEW t \in Threads, load_lock(t) PROVE ImageInv'
<1> USE DEF ImageInv
<1>1. ImageTypeOK'
  BY LoadCalls, ImageLoadAssumption DEF ImageTypeOK, load_lock, Go
<1>2. MutexInv'
  BY MutexMoves DEF load_lock, Holding
<1>3. \A u \in Threads : step[u] \notin Holding
  BY ImageLoadAssumption DEF load_lock, MutexInv
<1>4. LoadInv'
  <2>1. ASSUME NEW u \in Threads, step'[u] = "loading"
        PROVE  /\ loads' > 0
               /\ img'["file"] # 0 <=> stage' > 1
               /\ img'["compressor"] # 0 <=> stage' > 4
               /\ img'["data_reader"] # 0 <=> stage' > 6
    BY <1>3, <2>1, ImageLoadAssumption
    DEF load_lock, Go, ImageTypeOK, LoadInv, Holding, sqfs_mgr_loaded_locked, Fields
  <2>2. \A f, g \in Fields : (img'[f] = 0) <=> (img'[g] = 0)
    BY <1>3 DEF load_lock, LoadInv, Holding
  <2>3. \A u \in Threads : step'[u] \in {"listing", "finding"} => FALSE
    BY <1>3 DEF load_lock, Go, ImageTypeOK, Holding
  <2> QED  BY <2>1, <2>2, <2>3 DEF LoadInv
<1>5. LiveInv'
  BY DEF load_lock, LiveInv
<1> QED  BY <1>1, <1>2, <1>4, <1>5

LEMMA LoadOk ==
  ASSUME ImageInv, NEW t \in Threads, load_ok(t) PROVE ImageInv'
<1> USE DEF ImageInv
<1>1. /\ stage \in 1 .. 7 /\ loads \in 1 .. MaxLoads /\ owner = t /\ step[t] = "loading"
      /\ \A u \in Threads : u # t => step[u] \notin Holding
  BY LoadCalls, ImageLoadAssumption DEF load_ok, ImageTypeOK, MutexInv, LoadInv, Holding
<1>2. /\ img["file"] # 0 <=> stage > 1
      /\ img["compressor"] # 0 <=> stage > 4
      /\ img["data_reader"] # 0 <=> stage > 6
  BY <1>1 DEF LoadInv
<1>3. \/ /\ stage \notin {1, 4, 6} /\ img' = img /\ live' = live
      \/ \E f \in Fields : /\ img[f] = 0 /\ img' = [img EXCEPT ![f] = loads]
                           /\ live' = live \cup {<<f, loads>>}
                           /\ f = "file" <=> stage = 1
                           /\ f = "compressor" <=> stage = 4
                           /\ f = "data_reader" <=> stage = 6
  BY <1>1, <1>2, LoadCalls DEF load_ok, Fields
<1>4. \/ stage < 7 /\ stage' = stage + 1 /\ step' = step
      \/ stage = 7 /\ stage' = stage /\ step' = [step EXCEPT ![t] = "load_out"]
  BY <1>1, LoadCalls DEF load_ok, Go
<1>5. ImageTypeOK'
  BY <1>1, <1>3, <1>4, LoadCalls, ImageLoadAssumption DEF ImageTypeOK, load_ok
<1>6. MutexInv'
  BY <1>1, <1>4 DEF load_ok, MutexInv, ImageTypeOK, Holding
<1>7. LoadInv'
  <2>1. /\ img'["file"] # 0 <=> stage >= 1
        /\ img'["compressor"] # 0 <=> stage >= 4
        /\ img'["data_reader"] # 0 <=> stage >= 6
    BY <1>1, <1>2, <1>3 DEF ImageTypeOK, Fields
  <2>2. ASSUME NEW u \in Threads, step'[u] \in Holding
        PROVE  u = t
    BY <1>1, <1>4, <2>2 DEF ImageTypeOK
  <2>3. CASE stage < 7
    BY <1>1, <1>4, <2>1, <2>2, <2>3 DEF LoadInv, load_ok, Holding, Fields
  <2>4. CASE stage = 7
    BY <1>1, <1>4, <2>1, <2>2, <2>4 DEF LoadInv, load_ok, Holding, Fields, ImageTypeOK
  <2> QED  BY <1>1, <2>3, <2>4
<1>8. LiveInv'
  <2>1. CASE img' = img /\ live' = live
    BY <2>1 DEF LiveInv
  <2>2. ASSUME NEW f \in Fields, img[f] = 0, img' = [img EXCEPT ![f] = loads],
               live' = live \cup {<<f, loads>>}
        PROVE  LiveInv'
    <3> SUFFICES ASSUME NEW g \in Fields, NEW n \in 1 .. MaxLoads
                 PROVE  <<g, n>> \in live' <=> img'[g] = n
      BY DEF LiveInv
    <3>1. <<g, n>> \in live <=> img[g] = n
      BY DEF LiveInv
    <3>2. <<g, n>> \in live' <=> <<g, n>> \in live \/ (g = f /\ n = loads)
      BY <2>2
    <3>3. img'[g] = IF g = f THEN loads ELSE img[g]
      BY <2>2 DEF ImageTypeOK
    <3> QED  BY <3>1, <3>2, <3>3, <2>2
  <2> QED  BY <1>3, <2>1, <2>2
<1> QED  BY <1>5, <1>6, <1>7, <1>8

(* The unloading.                                                          *)
LEMMA Unload ==
  ASSUME ImageInv, sqfs_mgr_unload_image
  PROVE  /\ img' \in [Fields -> 0 .. MaxLoads] /\ live' \subseteq Fields \X (1 .. MaxLoads)
         /\ \A f \in Fields : img'[f] = 0
         /\ LiveInv'
<1> USE DEF ImageInv
<1>1. /\ img' \in [Fields -> 0 .. MaxLoads] /\ live' \subseteq Fields \X (1 .. MaxLoads)
      /\ \A f \in Fields : img'[f] = 0
  BY ImageLoadAssumption DEF ImageTypeOK, sqfs_mgr_unload_image
<1>2. ASSUME NEW f \in Fields, NEW n \in 1 .. MaxLoads PROVE <<f, n>> \notin live'
  BY ImageLoadAssumption DEF LiveInv, sqfs_mgr_unload_image
<1>3. \A f \in Fields, n \in 1 .. MaxLoads : img'[f] # n
  BY <1>1, ImageLoadAssumption
<1>4. LiveInv'
  BY <1>2, <1>3 DEF LiveInv
<1> QED  BY <1>1, <1>4

LEMMA LoadFails ==
  ASSUME ImageInv, NEW t \in Threads, load_fails(t) PROVE ImageInv'
<1> USE DEF ImageInv
<1>1. /\ stage \in 1 .. 7 /\ owner = t /\ step[t] = "loading"
      /\ \A u \in Threads : u # t => step[u] \notin Holding
  BY LoadCalls, ImageLoadAssumption DEF load_fails, ImageTypeOK, MutexInv, Holding
<1>2. /\ img' \in [Fields -> 0 .. MaxLoads] /\ live' \subseteq Fields \X (1 .. MaxLoads)
      /\ \A f \in Fields : img'[f] = 0
      /\ LiveInv'
  <2>1. CASE stage = 1
    <3>1. img' = img /\ live' = live
      BY <1>1, <2>1, LoadCalls DEF load_fails
    <3>2. \A f \in Fields : img[f] = 0
      BY <1>1, <2>1 DEF LoadInv, Fields
    <3> QED  BY <3>1, <3>2 DEF ImageTypeOK, LiveInv
  <2>2. CASE stage # 1
    BY <1>1, <2>2, LoadCalls, Unload DEF load_fails
  <2> QED  BY <2>1, <2>2
<1>3. step' = [step EXCEPT ![t] = "load_out"]
  BY DEF load_fails, Go
<1>4. ImageTypeOK'
  BY <1>2, <1>3 DEF ImageTypeOK, load_fails
<1>5. MutexInv'
  BY <1>1, <1>3 DEF load_fails, MutexInv, ImageTypeOK, Holding
<1>6. LoadInv'
  BY <1>1, <1>2, <1>3 DEF LoadInv, ImageTypeOK, Holding
<1> QED  BY <1>2, <1>4, <1>5, <1>6

(* A step that moves a thread out of no load and into none and leaves the  *)
(* image as it is.                                                         *)
LEMMA ImageKept ==
  ASSUME ImageInv, NEW t \in Threads, NEW s, Go(t, s),
         s \in {"idle", "load", "load_out", "list", "listing", "list_out", "finding"},
         step[t] # "loading", UNCHANGED <<img, live, loads, stage>>,
         s \in {"listing", "finding"} => sqfs_mgr_loaded_locked
  PROVE  LoadInv' /\ LiveInv' /\ step' \in [Threads -> {"idle", "load", "loading", "load_out", "list",
                           "listing", "list_out", "finding"}]
<1> USE DEF ImageInv
<1>1. step' = [step EXCEPT ![t] = s] /\ step[t] # "loading" /\ s # "loading"
  BY DEF Go
<1>2. \A u \in Threads : step'[u] = "loading" <=> step[u] = "loading"
  BY <1>1 DEF ImageTypeOK
<1>3. \A u \in Threads : step'[u] \in {"listing", "finding"} =>
        step[u] \in {"listing", "finding"} \/ sqfs_mgr_loaded_locked
  BY <1>1 DEF ImageTypeOK
<1>4. LoadInv'
  BY <1>2, <1>3 DEF LoadInv, sqfs_mgr_loaded_locked
<1>5. LiveInv'
  BY DEF LiveInv
<1>6. step' \in [Threads -> {"idle", "load", "loading", "load_out", "list",
                           "listing", "list_out", "finding"}]
  BY <1>1 DEF ImageTypeOK
<1> QED  BY <1>4, <1>5, <1>6

LEMMA LoadOut ==
  ASSUME ImageInv, NEW t \in Threads, load_out(t) PROVE ImageInv'
<1> USE DEF ImageInv
<1> DEFINE s == IF t \in listers THEN "list" ELSE "idle"
<1>1. owner = t /\ Go(t, s) /\ owner' = None /\ step[t] = "load_out"
      /\ UNCHANGED <<img, live, loads, stage, listers>>
  BY DEF load_out, MutexInv, Holding
<1>2. s \in {"list", "idle"}
  OBVIOUS
<1> HIDE DEF s
<1>3. MutexInv'
  BY <1>1, <1>2, MutexMoves DEF Holding
<1>4. LoadInv' /\ LiveInv' /\ ImageTypeOK'
  BY <1>1, <1>2, ImageKept DEF ImageTypeOK
<1> QED  BY <1>3, <1>4

LEMMA TestListing ==
  ASSUME ImageInv, NEW t \in Threads, test_sqfs_listing(t) PROVE ImageInv'
<1> USE DEF ImageInv
<1>1. MutexInv'
  BY MutexMoves DEF Holding, test_sqfs_listing
<1>2. LoadInv' /\ LiveInv' /\ ImageTypeOK'
  BY ImageKept DEF ImageTypeOK, test_sqfs_listing
<1> QED  BY <1>1, <1>2

LEMMA ListLock ==
  ASSUME ImageInv, NEW t \in Threads, list_lock(t) PROVE ImageInv'
<1> USE DEF ImageInv
<1> DEFINE s == IF sqfs_mgr_loaded_locked THEN "listing" ELSE "list_out"
<1>1. owner = None /\ Go(t, s) /\ owner' = t /\ step[t] = "list"
      /\ UNCHANGED <<img, live, loads, stage, listers>>
  BY DEF list_lock
<1>2. s \in {"listing", "list_out"} /\ (s = "listing" => sqfs_mgr_loaded_locked)
  OBVIOUS
<1> HIDE DEF s
<1>3. MutexInv'
  BY <1>1, <1>2, MutexMoves DEF Holding
<1>4. LoadInv' /\ LiveInv' /\ ImageTypeOK'
  BY <1>1, <1>2, ImageKept DEF ImageTypeOK
<1> QED  BY <1>3, <1>4

LEMMA ListOut ==
  ASSUME ImageInv, NEW t \in Threads, list_out(t) PROVE ImageInv'
<1> USE DEF ImageInv
<1>1. /\ owner = t /\ \A u \in Threads : u # t => step[u] \notin Holding
  BY ImageLoadAssumption DEF list_out, MutexInv, Holding
<1>2. /\ img' \in [Fields -> 0 .. MaxLoads] /\ live' \subseteq Fields \X (1 .. MaxLoads)
      /\ \A f \in Fields : img'[f] = 0
      /\ LiveInv'
  BY Unload DEF list_out
<1>3. step' = [step EXCEPT ![t] = "idle"]
  BY DEF list_out, Go
<1>4. ImageTypeOK'
  BY <1>2, <1>3 DEF ImageTypeOK, list_out
<1>5. MutexInv'
  BY <1>1, MutexMoves DEF list_out, Holding
<1>6. LoadInv'
  BY <1>1, <1>2, <1>3 DEF LoadInv, ImageTypeOK, Holding
<1> QED  BY <1>2, <1>4, <1>5, <1>6

LEMMA FindBegin ==
  ASSUME ImageInv, NEW t \in Threads, find_begin(t) PROVE ImageInv'
<1> USE DEF ImageInv
<1>1. MutexInv'
  BY MutexMoves DEF Holding, find_begin
<1>2. LoadInv' /\ LiveInv' /\ ImageTypeOK'
  BY ImageKept DEF ImageTypeOK, find_begin
<1> QED  BY <1>1, <1>2

LEMMA FindEnd ==
  ASSUME ImageInv, NEW t \in Threads, find_end(t) PROVE ImageInv'
<1> USE DEF ImageInv
<1>1. owner = t
  BY DEF find_end, MutexInv, Holding
<1>2. MutexInv'
  BY <1>1, MutexMoves DEF Holding, find_end
<1>3. LoadInv' /\ LiveInv' /\ ImageTypeOK'
  BY ImageKept DEF ImageTypeOK, find_end
<1> QED  BY <1>2, <1>3

LEMMA ImageSteps ==
  ASSUME ImageInv, NEW t \in Threads, ImageStep(t) PROVE ImageInv'
BY LoadLock, LoadOk, LoadFails, LoadOut, ListLock, ListOut, FindEnd DEF ImageStep

-----------------------------------------------------------------------------
(* The hooks.                                                              *)

NonePatched == \A a \in Funcs : patched[a] = "none"

(* What the hook f calls is reached through trampolines.                   *)
Through(f) == \A g \in RealCalls(f) : libc[g] = Tramp(g)

(* Before the installation no entry is patched and no thread in a hook.    *)
QuietInv ==
  phase \in {"populate", "load", "prepare"} =>
    /\ NonePatched /\ ~stuck /\ (hooks => phase = "prepare")
    /\ \A t \in Threads : at[t] = "idle"
    /\ phase # "prepare" => next = 1 /\ \A f \in Funcs : tramp[f] = "none"

(* Once there is something to take back, the real functions are saved.     *)
SavedInv ==
  /\ phase = "load" => libc = Originals
  /\ (\/ phase \in {"prepare", "uninstall", "destroy", "restore"}
      \/ hooks \/ ~NonePatched \/ \E t \in Threads : at[t] # "idle")
     => /\ saved = Originals
        /\ \A f \in Funcs : saved[f] # NullPtr /\ libc[f] \in {Tramp(f), saved[f]}

(* How far prepare_hook is: every function before next has its trampoline, *)
(* but for an alias of close; those from next on are untouched.            *)
PrepareInv ==
  phase = "prepare" =>
    /\ hooks
    /\ \A i \in 1 .. 13 : i < next =>
         \/ libc[Order[i]] = Tramp(Order[i]) /\ tramp[Order[i]] = "libc"
         \/ /\ Order[i] = "__close_nocancel" /\ saved[Order[i]] = saved["close"]
            /\ tramp[Order[i]] = "none"
    /\ \A i \in 1 .. 13 : i >= next =>
         libc[Order[i]] = saved[Order[i]] /\ tramp[Order[i]] = "none"

TrampInv == \A f \in Funcs : tramp[f] \in {"none", "libc", "freed"}

(* A patched entry leads to a hook that does not come back to an entry; so *)
(* does a hook in progress, unless the patches are gone; and a pointer     *)
(* that a thread has read.                                                 *)
PatchInv ==
  ~stuck =>
    /\ \A a \in Funcs : patched[a] # "none" => Through(patched[a])
    /\ \A t \in Threads : at[t] \in {"hook", "jump"} => Through(hook[t]) \/ NonePatched
    /\ \A t \in Threads : at[t] = "jump" =>
         (\E f \in Funcs : ptr[t] = Tramp(f)) \/ NonePatched
    /\ phase \in {"destroy", "restore"} => NonePatched

CallInv ==
  \A t \in Threads :
    /\ at[t] \in {"hook", "jump"} => hook[t] \in Funcs
    /\ at[t] = "jump" =>
         ptr[t] \in {Tramp(f) : f \in Funcs} \cup {Entry(a) : a \in Funcs}

HookTypeOK ==
  /\ phase \in {"populate", "load", "prepare", "app", "uninstall", "destroy", "restore", "done"}
  /\ exiting \in BOOLEAN /\ hooks \in BOOLEAN /\ stuck \in BOOLEAN
  /\ next \in 1 .. Len(Order) + 1
  /\ \A f \in Funcs : {libc[f], saved[f]} \subseteq {Tramp(f), NullPtr} \cup {Entry(a) : a \in Funcs}
  /\ tramp \in [Funcs -> {"none", "libc", "freed"} \cup Funcs]
  /\ patched \in [Funcs -> Funcs \cup {"none"}]
  /\ at \in [Threads -> {"idle", "hook", "jump", "crashed"}]
  /\ \A t \in Threads : (at[t] = "jump") = (ptr[t] # NullPtr)

(* What TypeOK does not say.                                               *)
MoreTypeOK ==
  /\ libc = [f \in Funcs |-> libc[f]] /\ saved = [f \in Funcs |-> saved[f]]
  /\ sym \in [Funcs -> Funcs \cup {"NULL"}]
  /\ hook = [t \in Threads |-> hook[t]] /\ ptr = [t \in Threads |-> ptr[t]]

HookInv ==
  /\ HookTypeOK /\ MoreTypeOK /\ QuietInv /\ SavedInv /\ PrepareInv /\ TrampInv
  /\ PatchInv /\ CallInv /\ AllOrNothing

StartInv == phase = "populate" => step[Main] = "idle"

IInv == ImageInv /\ HookInv /\ StartInv

(* The functions.                                                          *)
LEMMA Names ==
  /\ Len(Order) = 13
  /\ \A i \in 1 .. 13 : Order[i] \in Funcs
  /\ \A f \in Funcs : \E i \in 1 .. 13 : f = Order[i]
  /\ \A i, j \in 1 .. 13 : Order[i] = Order[j] => i = j
  /\ Order[3] = "pread" /\ Order[4] = "lseek" /\ Order[5] = "pread64"
  /\ Order[6] = "lseek64" /\ Order[7] = "close" /\ Order[8] = "__close_nocancel"
  /\ {"open", "close", "opendir", "closedir", "pread", "lseek"} \subseteq Funcs
  /\ "none" \notin Funcs /\ "libc" \notin Funcs /\ "freed" \notin Funcs /\ "NULL" \notin Funcs
<1>1. Len(Order) = 13
  BY DEF Order
<1>2. /\ Order[1] = "open" /\ Order[2] = "read" /\ Order[3] = "pread" /\ Order[4] = "lseek"
      /\ Order[5] = "pread64" /\ Order[6] = "lseek64" /\ Order[7] = "close"
      /\ Order[8] = "__close_nocancel" /\ Order[9] = "opendir" /\ Order[10] = "readdir"
      /\ Order[11] = "closedir" /\ Order[12] = "access" /\ Order[13] = "__xstat"
  BY DEF Order
<1>3. \A i \in 1 .. 13 : i = 1 \/ i = 2 \/ i = 3 \/ i = 4 \/ i = 5 \/ i = 6 \/ i = 7 \/ i = 8
                         \/ i = 9 \/ i = 10 \/ i = 11 \/ i = 12 \/ i = 13
  OBVIOUS
<1>4. \A i, j \in 1 .. 13 : Order[i] = Order[j] => i = j
  BY <1>2, <1>3
<1>5. /\ \A i \in 1 .. 13 : Order[i] \in Funcs
      /\ \A f \in Funcs : \E i \in 1 .. 13 : f = Order[i]
  BY <1>1 DEF Funcs
<1>6. {"open", "close", "opendir", "closedir", "pread", "lseek"} \subseteq Funcs
  BY <1>2, <1>5
<1>7. "none" \notin Funcs /\ "libc" \notin Funcs /\ "freed" \notin Funcs /\ "NULL" \notin Funcs
  BY <1>2, <1>3, <1>5
<1> QED  BY <1>1, <1>2, <1>4, <1>5, <1>6, <1>7

LEMMA Pointers ==
  /\ Entry("NULL") = NullPtr
  /\ \A f \in Funcs : /\ Tramp(f) # NullPtr /\ Tramp(f)[1] = "tramp" /\ Tramp(f)[2] = f
                      /\ Entry(f) # NullPtr /\ Entry(f)[1] = "entry" /\ Entry(f)[2] = f
  /\ \A f, g \in Funcs : Tramp(f) # Entry(g)
BY Names DEF Entry, Tramp, NullPtr

LEMMA Calls ==
  ASSUME NEW f \in Funcs
  PROVE  /\ RealCalls(f) \subseteq Funcs
         /\ "__close_nocancel" \in RealCalls(f) => f = "__close_nocancel"
BY Names DEF RealCalls

(* What vPopulateLibcFuncPtrs finds.                                       *)
LEMMA OriginalPointers ==
  ASSUME MoreTypeOK
  PROVE  /\ Originals = [f \in Funcs |-> Originals[f]]
         /\ \A f \in Funcs : /\ Originals[f] = NullPtr \/ \E a \in Funcs : Originals[f] = Entry(a)
                             /\ sym[f] # "NULL" => Originals[f] = Entry(sym[f])
BY Names, Pointers DEF MoreTypeOK, Originals

(* The greatest of a set of positions.                                     *)
LEMMA Greatest ==
  ASSUME NEW S, S \subseteq 1 .. 13, S # {} PROVE Max(S) \in S
<1>1. \E x \in S : \A y \in S : x >= y
  <2> SUFFICES ASSUME \A x \in S : \E y \in S : y > x PROVE FALSE
    OBVIOUS
  <2>1. 13 \notin S  OBVIOUS
  <2>2. 12 \notin S  BY <2>1
  <2>3. 11 \notin S  BY <2>1, <2>2
  <2>4. 10 \notin S  BY <2>1, <2>2, <2>3
  <2>5. 9 \notin S  BY <2>1, <2>2, <2>3, <2>4
  <2>6. 8 \notin S  BY <2>1, <2>2, <2>3, <2>4, <2>5
  <2>7. 7 \notin S  BY <2>1, <2>2, <2>3, <2>4, <2>5, <2>6
  <2>8. \A x \in S : x <= 6  BY <2>1, <2>2, <2>3, <2>4, <2>5, <2>6, <2>7
  <2>9. \A x \in S : x <= 3  BY <2>8
  <2>10. \A x \in S : x <= 1  BY <2>9
  <2>11. PICK x \in S : TRUE  OBVIOUS
  <2>12. PICK y \in S : y > x  BY <2>11
  <2> QED  BY <2>10, <2>11, <2>12
<1> QED  BY <1>1 DEF Max

(* What funchook_install patches.                                          *)
LEMMA Patches ==
  ASSUME NEW k \in 0 .. 13
  PROVE  /\ PatchedBy(k) \in [Funcs -> Funcs \cup {"none"}]
         /\ \A a \in Funcs : PatchedBy(k)[a] # "none" =>
              \E i \in 1 .. 13 : PatchedBy(k)[a] = Order[i] /\ tramp[Order[i]] # "none"
         /\ \A a \in Funcs, i \in 1 .. k :
              tramp[Order[i]] # "none" /\ saved[Order[i]] = Entry(a) => PatchedBy(k)[a] # "none"
<1> DEFINE mine(a) == {i \in 1 .. k : tramp[Order[i]] # "none" /\ saved[Order[i]] = Entry(a)}
<1>1. \A a \in Funcs : PatchedBy(k)[a] = IF mine(a) = {} THEN "none" ELSE Order[Max(mine(a))]
  BY DEF PatchedBy
<1>2. PatchedBy(k) = [a \in Funcs |-> PatchedBy(k)[a]]
  BY DEF PatchedBy
<1>3. ASSUME NEW a \in Funcs, mine(a) # {}
      PROVE  Max(mine(a)) \in 1 .. 13 /\ tramp[Order[Max(mine(a))]] # "none"
  <2>1. mine(a) \subseteq 1 .. 13
    OBVIOUS
  <2>2. Max(mine(a)) \in mine(a)
    BY <1>3, <2>1, Greatest
  <2> QED  BY <2>1, <2>2
<1>4. ASSUME NEW a \in Funcs, NEW i \in 1 .. k, tramp[Order[i]] # "none", saved[Order[i]] = Entry(a)
      PROVE  mine(a) # {}
  BY <1>4
<1>5. \A a \in Funcs : PatchedBy(k)[a] # "none" <=> mine(a) # {}
  <2> HIDE DEF mine
  <2> QED  BY <1>1, <1>3, Names
<1>6. \A a \in Funcs : PatchedBy(k)[a] # "none" =>
              \E i \in 1 .. 13 : PatchedBy(k)[a] = Order[i] /\ tramp[Order[i]] # "none"
  <2> HIDE DEF mine
  <2> QED  BY <1>1, <1>3
<1>7. \A a \in Funcs : PatchedBy(k)[a] \in Funcs \cup {"none"}
  BY <1>6, Names
<1>8. PatchedBy(k) \in [Funcs -> Funcs \cup {"none"}]
  BY <1>2, <1>7
<1>9. \A a \in Funcs, i \in 1 .. k :
              tramp[Order[i]] # "none" /\ saved[Order[i]] = Entry(a) => PatchedBy(k)[a] # "none"
  <2> HIDE DEF mine
  <2> QED  BY <1>4, <1>5
<1> QED  BY <1>6, <1>8, <1>9

(* The start, and the steps that the hooks do not see.                     *)
LEMMA HookStart == Init => HookInv /\ StartInv
<1> SUFFICES ASSUME Init PROVE HookInv /\ StartInv
  OBVIOUS
<1>1. HookTypeOK
  <2>1. \A t \in Threads : at[t] # "jump" /\ ptr[t] = NullPtr
    BY DEF Init
  <2>2. \A f \in Funcs : libc[f] = NullPtr /\ saved[f] = NullPtr
    BY DEF Init
  <2>3. phase = "populate" /\ exiting = FALSE /\ hooks = FALSE /\ stuck = FALSE /\ next = 1
    BY DEF Init
  <2>4. /\ tramp \in [Funcs -> {"none", "libc", "freed"} \cup Funcs]
        /\ patched \in [Funcs -> Funcs \cup {"none"}]
        /\ at \in [Threads -> {"idle", "hook", "jump", "crashed"}]
    BY DEF Init
  <2>5. \A t \in Threads : (at[t] = "jump") = (ptr[t] # NullPtr)
    BY <2>1
  <2>6. \A f \in Funcs : {libc[f], saved[f]} \subseteq {Tramp(f), NullPtr} \cup {Entry(a) : a \in Funcs}
    BY <2>2
  <2>7. next \in 1 .. Len(Order) + 1
    BY <2>3, Names
  <2> QED  BY <2>3, <2>4, <2>5, <2>6, <2>7 DEF HookTypeOK
<1>2. MoreTypeOK
  BY LifecycleAssumption DEF Init, MoreTypeOK
<1>3. QuietInv /\ SavedInv /\ PrepareInv /\ TrampInv /\ PatchInv
  BY DEF Init, QuietInv, SavedInv, PrepareInv, TrampInv, PatchInv, NonePatched
<1>4. CallInv /\ AllOrNothing
  BY DEF Init, CallInv, AllOrNothing
<1>5. StartInv
  BY LifecycleAssumption DEF Init, InitImage, StartInv
<1> QED  BY <1>1, <1>2, <1>3, <1>4, <1>5 DEF HookInv

LEMMA HooksKept ==
  ASSUME HookInv, UNCHANGED <<hookVars, callVars>> PROVE HookInv'
<1> USE DEF HookInv, hookVars, callVars
<1>1. HookTypeOK'
  BY DEF HookTypeOK
<1>2. MoreTypeOK'
  BY DEF MoreTypeOK
<1>3. QuietInv' /\ SavedInv' /\ PrepareInv' /\ TrampInv'
  BY DEF QuietInv, SavedInv, PrepareInv, TrampInv, NonePatched, Originals
<1>4. PatchInv' /\ CallInv' /\ AllOrNothing'
  BY DEF PatchInv, CallInv, AllOrNothing, NonePatched, Through, Originals
<1> QED  BY <1>1, <1>2, <1>3, <1>4

-----------------------------------------------------------------------------
(* The steps of constructor and destructor: no thread moves in a hook.     *)

LEMMA Populate ==
  ASSUME HookInv, vPopulateLibcFuncPtrs PROVE HookInv'
<1> USE DEF HookInv
<1>1. /\ phase = "populate" /\ phase' = "load" /\ libc' = Originals
      /\ UNCHANGED <<exiting, sym, saved, hooks, next, tramp, patched, stuck, at, hook, ptr>>
  BY DEF vPopulateLibcFuncPtrs, callVars
<1>2. Originals' = Originals
  BY <1>1 DEF Originals
<1>3. HookTypeOK'
  BY <1>1, OriginalPointers DEF HookTypeOK
<1>4. MoreTypeOK'
  BY <1>1, OriginalPointers DEF MoreTypeOK
<1>5. QuietInv' /\ PrepareInv' /\ TrampInv'
  BY <1>1 DEF QuietInv, PrepareInv, TrampInv, NonePatched
<1>6. NonePatched' /\ ~hooks /\ ~stuck /\ \A t \in Threads : at[t] = "idle"
  BY <1>1 DEF QuietInv, NonePatched
<1>7. SavedInv'
  BY <1>1, <1>2, <1>6 DEF SavedInv
<1>8. PatchInv' /\ CallInv' /\ AllOrNothing'
  BY <1>1, <1>6 DEF PatchInv, CallInv, AllOrNothing, NonePatched
<1> QED  BY <1>3, <1>4, <1>5, <1>7, <1>8

LEMMA Install ==
  ASSUME HookInv, install_hooks PROVE HookInv'
<1> USE DEF HookInv
<1>1. /\ phase = "load"
      /\ UNCHANGED <<exiting, sym, libc, next, tramp, patched, stuck, at, hook, ptr>>
  BY DEF install_hooks, callVars
<1>2. libc = Originals /\ Originals' = Originals
  BY <1>1 DEF SavedInv, Originals
<1>3. NonePatched' /\ ~hooks /\ ~stuck /\ \A t \in Threads : at[t] = "idle"
  BY <1>1 DEF QuietInv, NonePatched
<1>4. \/ phase' = "app" /\ hooks' = FALSE /\ saved' \in {saved, libc}
      \/ /\ phase' = "prepare" /\ hooks' = TRUE /\ saved' = libc
         /\ \A f \in Funcs : libc[f] # NullPtr
  BY <1>3 DEF install_hooks, bLibcFuncPtrsLoaded, HookTypeOK
<1>5. HookTypeOK'
  BY <1>1, <1>4 DEF HookTypeOK
<1>6. MoreTypeOK'
  BY <1>1, <1>4 DEF MoreTypeOK
<1>7. QuietInv' /\ TrampInv'
  BY <1>1, <1>3, <1>4 DEF QuietInv, TrampInv
<1>8. SavedInv'
  BY <1>1, <1>2, <1>3, <1>4 DEF SavedInv
<1>9. PrepareInv'
  <2>1. next = 1 /\ \A f \in Funcs : tramp[f] = "none"
    BY <1>1 DEF QuietInv
  <2> QED  BY <1>1, <1>4, <2>1, Names DEF PrepareInv
<1>10. PatchInv' /\ CallInv'
  BY <1>1, <1>3, <1>4 DEF PatchInv, CallInv, NonePatched
<1>11. AllOrNothing'
  BY <1>1, <1>2, <1>3, <1>4 DEF AllOrNothing, NonePatched
<1> QED  BY <1>5, <1>6, <1>7, <1>8, <1>9, <1>10, <1>11

(* The alias guards pass only an alias of close by.                        *)
LEMMA OnlyCloseSkipped ==
  ASSUME HookInv, phase = "prepare", next <= 13
  PROVE  /\ Order[next] \in Funcs /\ next \in 1 .. 13
         /\ libc[Order[next]] = saved[Order[next]] /\ tramp[Order[next]] = "none"
         /\ \E a \in Funcs : saved[Order[next]] = Entry(a)
         /\ Skipped(Order[next]) <=> /\ Order[next] = "__close_nocancel"
                                     /\ saved[Order[next]] = saved["close"]
<1> USE DEF HookInv
<1>1. next \in 1 .. 13 /\ Order[next] \in Funcs
  BY Names DEF HookTypeOK
<1>2. libc[Order[next]] = saved[Order[next]] /\ tramp[Order[next]] = "none"
  BY <1>1 DEF PrepareInv
<1>3. \A f \in Funcs : \E a \in Funcs : saved[f] = Entry(a)
  BY OriginalPointers DEF SavedInv
<1>4. ASSUME NEW i \in 1 .. 4, i < next, i = 3 \/ i = 4 PROVE libc[Order[next]] # libc[Order[i]]
  <2>1. libc[Order[i]] = Tramp(Order[i]) /\ Order[i] \in Funcs
    BY <1>4, Names DEF PrepareInv
  <2> QED  BY <1>1, <1>2, <1>3, <2>1, Pointers
<1>5. Order[next] = "pread64" => libc[Order[next]] # libc["pread"]
  BY <1>1, <1>4, Names
<1>6. Order[next] = "lseek64" => libc[Order[next]] # libc["lseek"]
  BY <1>1, <1>4, Names
<1>7. saved[Order[next]] # NullPtr
  BY <1>1, <1>3, Pointers
<1>8. Skipped(Order[next]) <=> /\ Order[next] = "__close_nocancel"
                               /\ saved[Order[next]] = saved["close"]
  BY <1>5, <1>6, <1>7 DEF Skipped
<1> QED  BY <1>1, <1>2, <1>3, <1>8

LEMMA PrepareHook ==
  ASSUME HookInv, prepare_hook PROVE HookInv'
<1> USE DEF HookInv
<1> DEFINE f == Order[next]
<1>1. /\ phase = "prepare" /\ next <= 13 /\ next' = next + 1
      /\ UNCHANGED <<phase, exiting, sym, saved, hooks, patched, stuck, at, hook, ptr>>
  BY Names DEF prepare_hook, callVars
<1>2. /\ f \in Funcs /\ next \in 1 .. 13 /\ libc[f] = saved[f] /\ tramp[f] = "none"
      /\ \E a \in Funcs : saved[f] = Entry(a)
      /\ Skipped(f) <=> f = "__close_nocancel" /\ saved[f] = saved["close"]
  BY <1>1, OnlyCloseSkipped
<1>3. CodeAt(libc[f][2]) = "libc"
  BY <1>1, <1>2, Pointers DEF CodeAt, QuietInv, NonePatched
<1>4. \/ f = "__close_nocancel" /\ saved[f] = saved["close"] /\ libc' = libc /\ tramp' = tramp
      \/ libc' = [libc EXCEPT ![f] = Tramp(f)] /\ tramp' = [tramp EXCEPT ![f] = "libc"]
  BY <1>2, <1>3 DEF prepare_hook
<1>5. Originals' = Originals
  BY <1>1 DEF Originals
<1>6. \A i \in 1 .. 13 : Order[i] \in Funcs /\ (Order[i] = f => i = next)
  BY <1>2, Names
<1> HIDE DEF f
<1>7. HookTypeOK'
  <2>1. next' \in 1 .. Len(Order) + 1
    BY <1>1, <1>2, Names
  <2>2. tramp' \in [Funcs -> {"none", "libc", "freed"} \cup Funcs]
    BY <1>2, <1>4 DEF HookTypeOK
  <2>3. \A g \in Funcs : {libc'[g], saved'[g]} \subseteq {Tramp(g), NullPtr} \cup {Entry(a) : a \in Funcs}
    <3>1. \A g \in Funcs : libc'[g] \in {libc[g], Tramp(g)}
      BY <1>2, <1>4 DEF MoreTypeOK
    <3> QED  BY <1>1, <3>1 DEF HookTypeOK
  <2> QED  BY <1>1, <2>1, <2>2, <2>3 DEF HookTypeOK
<1>8. MoreTypeOK'
  BY <1>1, <1>4 DEF MoreTypeOK
<1>9. QuietInv'
  BY <1>1 DEF QuietInv, NonePatched
<1>10. SavedInv'
  <2>1. \A g \in Funcs : libc'[g] \in {libc[g], Tramp(g)}
    BY <1>2, <1>4 DEF MoreTypeOK
  <2>2. saved = Originals /\ \A g \in Funcs : saved[g] # NullPtr /\ libc[g] \in {Tramp(g), saved[g]}
    BY <1>1 DEF SavedInv
  <2> QED  BY <1>1, <1>5, <2>1, <2>2 DEF SavedInv
<1>11. PrepareInv'
  <2>1. \A g \in Funcs : g # f => libc'[g] = libc[g] /\ tramp'[g] = tramp[g]
    BY <1>2, <1>4 DEF MoreTypeOK, HookTypeOK
  <2>2. \/ libc'[f] = Tramp(f) /\ tramp'[f] = "libc"
        \/ f = "__close_nocancel" /\ saved[f] = saved["close"] /\ tramp'[f] = "none"
    BY <1>2, <1>4 DEF MoreTypeOK, HookTypeOK
  <2>3. ASSUME NEW i \in 1 .. 13, i < next'
        PROVE  \/ libc'[Order[i]] = Tramp(Order[i]) /\ tramp'[Order[i]] = "libc"
               \/ /\ Order[i] = "__close_nocancel" /\ saved'[Order[i]] = saved'["close"]
                  /\ tramp'[Order[i]] = "none"
    <3>1. CASE i = next
      BY <1>1, <2>2, <3>1 DEF f
    <3>2. CASE i < next
      BY <1>1, <1>2, <1>6, <2>1, <3>2 DEF PrepareInv
    <3> QED  BY <1>1, <1>2, <2>3, <3>1, <3>2
  <2>4. ASSUME NEW i \in 1 .. 13, i >= next'
        PROVE  libc'[Order[i]] = saved'[Order[i]] /\ tramp'[Order[i]] = "none"
    BY <1>1, <1>2, <1>6, <2>1, <2>4 DEF PrepareInv
  <2> QED  BY <1>1, <2>3, <2>4 DEF PrepareInv
<1>12. TrampInv'
  BY <1>2, <1>4 DEF TrampInv, HookTypeOK
<1>13. PatchInv' /\ CallInv' /\ AllOrNothing'
  BY <1>1 DEF PatchInv, CallInv, AllOrNothing, QuietInv, NonePatched
<1> QED  BY <1>7, <1>8, <1>9, <1>10, <1>11, <1>12, <1>13

(* A step that gives up the constructor.                                   *)
LEMMA PrepareFails ==
  ASSUME HookInv, prepare_hook_fails PROVE HookInv'
<1> USE DEF HookInv
<1>1. /\ phase = "prepare" /\ phase' = "uninstall"
      /\ UNCHANGED <<exiting, sym, libc, saved, hooks, next, tramp, patched, stuck, at, hook, ptr>>
  BY DEF prepare_hook_fails, callVars
<1>2. HookTypeOK'
  BY <1>1 DEF HookTypeOK
<1>3. MoreTypeOK'
  BY <1>1 DEF MoreTypeOK
<1>4. QuietInv' /\ SavedInv' /\ PrepareInv' /\ TrampInv'
  BY <1>1 DEF QuietInv, SavedInv, PrepareInv, TrampInv, NonePatched, Originals
<1>5. PatchInv' /\ CallInv' /\ AllOrNothing'
  BY <1>1 DEF PatchInv, CallInv, AllOrNothing, NonePatched, Through
<1> QED  BY <1>2, <1>3, <1>4, <1>5

(* Whichever entries funchook_install has patched, the hooks behind them   *)
(* call trampolines only.                                                  *)
LEMMA Installed ==
  ASSUME HookInv, phase = "prepare", next > 13, NEW k \in 0 .. 13, patched' = PatchedBy(k),
         phase' \in {"app", "uninstall"}, phase' = "app" => k = 13,
         UNCHANGED <<exiting, sym, libc, saved, hooks, next, tramp, stuck, at, hook, ptr>>
  PROVE  HookInv'
<1> USE DEF HookInv
<1>1. \A i \in 1 .. 13 :
         \/ libc[Order[i]] = Tramp(Order[i]) /\ tramp[Order[i]] = "libc"
         \/ /\ Order[i] = "__close_nocancel" /\ saved[Order[i]] = saved["close"]
            /\ tramp[Order[i]] = "none"
  <2>1. \A i \in 1 .. 13 : i < next
    BY Names DEF HookTypeOK
  <2> QED  BY <2>1 DEF PrepareInv
<1>2. \A g \in Funcs : \/ libc[g] = Tramp(g) /\ tramp[g] = "libc"
                       \/ g = "__close_nocancel" /\ saved[g] = saved["close"] /\ tramp[g] = "none"
  BY <1>1, Names
<1>3. ASSUME NEW a \in Funcs, patched'[a] # "none" PROVE Through(patched'[a])
  <2>1. PICK i \in 1 .. 13 : patched'[a] = Order[i] /\ tramp[Order[i]] # "none"
    BY <1>3, Patches
  <2>2. Order[i] \in Funcs
    BY Names
  <2>3. \A g \in RealCalls(Order[i]) : g \in Funcs /\ (g = "__close_nocancel" => tramp[g] # "none")
    BY <2>1, <2>2, Calls
  <2> QED  BY <1>2, <2>1, <2>3 DEF Through
<1>4. /\ saved = Originals /\ Originals' = Originals /\ hooks = TRUE /\ stuck = FALSE
      /\ \A t \in Threads : at[t] = "idle"
  BY DEF SavedInv, Originals, PrepareInv, QuietInv, HookTypeOK
<1>5. HookTypeOK'
  <2>1. patched' \in [Funcs -> Funcs \cup {"none"}]
    BY Patches
  <2> QED  BY <2>1 DEF HookTypeOK
<1>6. MoreTypeOK'
  BY DEF MoreTypeOK
<1>7. QuietInv' /\ PrepareInv' /\ TrampInv'
  BY DEF QuietInv, PrepareInv, TrampInv
<1>8. SavedInv'
  BY <1>4 DEF SavedInv
<1>9. CallInv'
  BY DEF CallInv
<1>10. PatchInv'
  <2>1. (\A a \in Funcs : patched[a] # "none" => Through(patched[a]))'
    BY <1>3 DEF Through
  <2> QED  BY <1>4, <2>1 DEF PatchInv
<1>11. AllOrNothing'
  <2>1. SUFFICES ASSUME k = 13, NEW f \in Funcs, sym[f] # "NULL" PROVE patched'[sym[f]] # "none"
    BY <1>4 DEF AllOrNothing
  <2>2. saved[f] = Entry(sym[f]) /\ sym[f] \in Funcs
    BY <1>4, <2>1, OriginalPointers DEF MoreTypeOK
  <2>3. \E i \in 1 .. 13 : tramp[Order[i]] # "none" /\ saved[Order[i]] = Entry(sym[f])
    <3>1. CASE tramp[f] = "libc"
      BY <2>2, <3>1, Names
    <3>2. CASE f = "__close_nocancel" /\ saved[f] = saved["close"]
      BY <1>1, <2>2, <3>2, Names
    <3> QED  BY <1>2, <3>1, <3>2
  <2> QED  BY <2>1, <2>2, <2>3, Patches
<1> QED  BY <1>5, <1>6, <1>7, <1>8, <1>9, <1>10, <1>11

LEMMA InstallSteps ==
  ASSUME HookInv, funchook_install \/ funchook_install_fails PROVE HookInv'
<1>1. CASE funchook_install
  BY <1>1, Installed, Names DEF funchook_install, callVars
<1>2. CASE funchook_install_fails
  <2>1. PICK k \in 0 .. 12 : patched' = PatchedBy(k)
    BY <1>2, Names DEF funchook_install_fails
  <2>2. k \in 0 .. 13
    OBVIOUS
  <2> QED  BY <1>2, <2>1, <2>2, Installed, Names DEF funchook_install_fails, callVars
<1> QED  BY <1>1, <1>2

LEMMA Fini ==
  ASSUME HookInv, hooksqfs_fini PROVE HookInv'
<1> USE DEF HookInv
<1>1. /\ phase = "app" /\ exiting' = TRUE
      /\ (phase' = "uninstall" /\ hooks = TRUE) \/ (phase' = "done" /\ hooks = FALSE)
      /\ UNCHANGED <<sym, libc, saved, hooks, next, tramp, patched, stuck, at, hook, ptr>>
  BY DEF hooksqfs_fini, callVars, HookTypeOK
<1>2. HookTypeOK'
  BY <1>1 DEF HookTypeOK
<1>3. MoreTypeOK'
  BY <1>1 DEF MoreTypeOK
<1>4. QuietInv' /\ SavedInv' /\ PrepareInv' /\ TrampInv'
  BY <1>1 DEF QuietInv, SavedInv, PrepareInv, TrampInv, NonePatched, Originals
<1>5. PatchInv' /\ CallInv' /\ AllOrNothing'
  BY <1>1 DEF PatchInv, CallInv, AllOrNothing, NonePatched, Through, Originals
<1> QED  BY <1>2, <1>3, <1>4, <1>5

LEMMA Uninstall ==
  ASSUME HookInv, funchook_uninstall \/ funchook_uninstall_fails PROVE HookInv'
<1> USE DEF HookInv
<1>1. /\ phase = "uninstall" /\ phase' = "destroy"
      /\ UNCHANGED <<exiting, sym, libc, saved, hooks, next, tramp, at, hook, ptr>>
  BY DEF funchook_uninstall, funchook_uninstall_fails, callVars
<1>2. /\ stuck' \in BOOLEAN /\ (stuck' \/ NonePatched')
      /\ patched' \in [Funcs -> Funcs \cup {"none"}]
  <2>1. CASE funchook_uninstall
    BY <2>1 DEF funchook_uninstall, HookTypeOK, NonePatched
  <2>2. CASE funchook_uninstall_fails
    <3>1. stuck' = (\E a \in Funcs : patched[a] # "none") /\ patched' = patched
      BY <2>2 DEF funchook_uninstall_fails
    <3>2. stuck' \in BOOLEAN /\ (stuck' \/ NonePatched')
      BY <3>1, Zenon DEF NonePatched
    <3> QED  BY <3>1, <3>2 DEF HookTypeOK
  <2> QED  BY <2>1, <2>2
<1>3. HookTypeOK'
  BY <1>1, <1>2 DEF HookTypeOK
<1>4. MoreTypeOK'
  BY <1>1 DEF MoreTypeOK
<1>5. QuietInv' /\ PrepareInv' /\ TrampInv'
  BY <1>1 DEF QuietInv, PrepareInv, TrampInv
<1>6. SavedInv'
  BY <1>1 DEF SavedInv, Originals
<1>7. PatchInv' /\ CallInv' /\ AllOrNothing'
  BY <1>1, <1>2 DEF PatchInv, CallInv, AllOrNothing, NonePatched
<1> QED  BY <1>3, <1>4, <1>5, <1>6, <1>7

LEMMA Destroy ==
  ASSUME HookInv, funchook_destroy PROVE HookInv'
<1> USE DEF HookInv
<1>1. /\ phase = "destroy" /\ phase' = "restore"
      /\ UNCHANGED <<exiting, sym, libc, saved, hooks, next, patched, stuck, at, hook, ptr>>
  BY DEF funchook_destroy, callVars
<1>2. tramp' \in [Funcs -> {"none", "libc", "freed"} \cup Funcs] /\ TrampInv'
  BY DEF funchook_destroy, HookTypeOK, TrampInv
<1>3. HookTypeOK'
  BY <1>1, <1>2 DEF HookTypeOK
<1>4. MoreTypeOK'
  BY <1>1 DEF MoreTypeOK
<1>5. QuietInv' /\ PrepareInv'
  BY <1>1 DEF QuietInv, PrepareInv
<1>6. SavedInv'
  BY <1>1 DEF SavedInv, Originals
<1>7. PatchInv' /\ CallInv' /\ AllOrNothing'
  BY <1>1 DEF PatchInv, CallInv, AllOrNothing, NonePatched, Through
<1> QED  BY <1>2, <1>3, <1>4, <1>5, <1>6, <1>7

LEMMA Restore ==
  ASSUME HookInv, uninstall_hooks PROVE HookInv'
<1> USE DEF HookInv
<1>1. /\ phase = "restore" /\ phase' \in {"done", "app"} /\ hooks' = FALSE /\ libc' = saved
      /\ UNCHANGED <<exiting, sym, saved, next, tramp, patched, stuck, at, hook, ptr>>
  BY DEF uninstall_hooks, callVars
<1>2. saved = Originals /\ Originals' = Originals /\ \A f \in Funcs : saved[f] # NullPtr
  BY <1>1 DEF SavedInv, Originals
<1>3. stuck' \/ NonePatched'
  BY <1>1 DEF PatchInv, NonePatched
<1>4. HookTypeOK'
  BY <1>1 DEF HookTypeOK
<1>5. MoreTypeOK'
  BY <1>1 DEF MoreTypeOK
<1>6. QuietInv' /\ PrepareInv' /\ TrampInv'
  BY <1>1 DEF QuietInv, PrepareInv, TrampInv
<1>7. SavedInv'
  BY <1>1, <1>2 DEF SavedInv
<1>8. PatchInv' /\ CallInv'
  BY <1>1, <1>3 DEF PatchInv, CallInv, NonePatched
<1>9. AllOrNothing'
  BY <1>1, <1>2, <1>3 DEF AllOrNothing, NonePatched
<1> QED  BY <1>4, <1>5, <1>6, <1>7, <1>8, <1>9

-----------------------------------------------------------------------------
(* The steps of a thread in a hooked call.                                 *)

LEMMA EnterHook ==
  ASSUME HookInv, NEW t \in Threads, NEW f \in Funcs, enter_hook(t, f) PROVE HookInv'
<1> USE DEF HookInv
<1> DEFINE h == patched[sym[f]]
<1>1. /\ at[t] = "idle" /\ sym[f] \in Funcs /\ h \in Funcs
      /\ at' = [at EXCEPT ![t] = "hook"] /\ hook' = [hook EXCEPT ![t] = h] /\ ptr' = ptr
      /\ UNCHANGED <<phase, exiting, sym, libc, saved, hooks, next, tramp, patched, stuck>>
  BY DEF enter_hook, hookVars, MoreTypeOK, HookTypeOK
<1>2. ~NonePatched /\ (~stuck => Through(h))
  BY <1>1, Names DEF NonePatched, PatchInv
<1> HIDE DEF h
<1>3. \A u \in Threads : /\ u # t => at'[u] = at[u] /\ hook'[u] = hook[u]
                         /\ at'[t] = "hook" /\ hook'[t] = h
  BY <1>1 DEF HookTypeOK, MoreTypeOK
<1>4. HookTypeOK'
  <2>1. \A u \in Threads : (at'[u] = "jump") = (ptr'[u] # NullPtr)
    <3>1. ASSUME NEW u \in Threads PROVE at'[u] = "jump" <=> at[u] = "jump"
      BY <1>1, <1>3
    <3> QED  BY <1>1, <3>1 DEF HookTypeOK
  <2>2. at' \in [Threads -> {"idle", "hook", "jump", "crashed"}]
    BY <1>1 DEF HookTypeOK
  <2> QED  BY <1>1, <2>1, <2>2 DEF HookTypeOK
<1>5. MoreTypeOK'
  BY <1>1 DEF MoreTypeOK
<1>6. QuietInv'
  BY <1>1, <1>2 DEF QuietInv
<1>7. SavedInv' /\ PrepareInv' /\ TrampInv' /\ AllOrNothing'
  BY <1>1, <1>2 DEF SavedInv, PrepareInv, TrampInv, AllOrNothing, Originals
<1>8. PatchInv'
  BY <1>1, <1>2, <1>3 DEF PatchInv, NonePatched, Through
<1>9. CallInv'
  BY <1>1, <1>3 DEF CallInv
<1> QED  BY <1>4, <1>5, <1>6, <1>7, <1>8, <1>9

LEMMA ReadPointer ==
  ASSUME HookInv, NEW t \in Threads, read_pointer(t) PROVE HookInv'
<1> USE DEF HookInv
<1>1. /\ at[t] = "hook" /\ at' = [at EXCEPT ![t] = "jump"] /\ hook' = hook
      /\ UNCHANGED <<phase, exiting, sym, libc, saved, hooks, next, tramp, patched, stuck>>
  BY DEF read_pointer, hookVars
<1>2. PICK g \in RealCalls(hook[t]) : ptr' = [ptr EXCEPT ![t] = libc[g]]
  BY DEF read_pointer
<1>3. hook[t] \in Funcs /\ g \in Funcs
  BY <1>1, <1>2, Calls DEF CallInv
<1>4. saved = Originals /\ \A f \in Funcs : saved[f] # NullPtr /\ libc[f] \in {Tramp(f), saved[f]}
  BY <1>1 DEF SavedInv
<1>5. libc[g] = Tramp(g) \/ \E a \in Funcs : libc[g] = Entry(a)
  BY <1>3, <1>4, OriginalPointers
<1>6. libc[g] # NullPtr
  BY <1>3, <1>5, Pointers
<1>7. ~stuck => libc[g] = Tramp(g) \/ NonePatched
  BY <1>1, <1>2 DEF PatchInv, Through
<1>8. \A u \in Threads : /\ u # t => at'[u] = at[u] /\ ptr'[u] = ptr[u]
                         /\ at'[t] = "jump" /\ ptr'[t] = libc[g]
  BY <1>1, <1>2 DEF HookTypeOK, MoreTypeOK
<1>9. HookTypeOK'
  <2>1. \A u \in Threads : (at'[u] = "jump") = (ptr'[u] # NullPtr)
    <3>1. ASSUME NEW u \in Threads PROVE (at'[u] = "jump") = (ptr'[u] # NullPtr)
      <4>1. CASE u = t
        BY <1>6, <1>8, <4>1
      <4>2. CASE u # t
        BY <1>8, <4>2 DEF HookTypeOK
      <4> QED  BY <4>1, <4>2
    <3> QED  BY <3>1
  <2>2. at' \in [Threads -> {"idle", "hook", "jump", "crashed"}]
    BY <1>1 DEF HookTypeOK
  <2> QED  BY <1>1, <2>1, <2>2 DEF HookTypeOK
<1>10. MoreTypeOK'
  BY <1>1, <1>2 DEF MoreTypeOK
<1>11. QuietInv'
  BY <1>1, <1>8 DEF QuietInv, NonePatched
<1>12. SavedInv'
  BY <1>1, <1>4 DEF SavedInv, Originals
<1>13. PrepareInv' /\ TrampInv' /\ AllOrNothing'
  BY <1>1 DEF PrepareInv, TrampInv, AllOrNothing, Originals
<1>14. PatchInv'
  BY <1>1, <1>3, <1>7, <1>8 DEF PatchInv, NonePatched, Through
<1>15. CallInv'
  BY <1>1, <1>3, <1>5, <1>8 DEF CallInv
<1> QED  BY <1>9, <1>10, <1>11, <1>12, <1>13, <1>14, <1>15

(* Where a pointer leads: to a hook only after a failed uninstallation.    *)
LEMMA NoLoop ==
  ASSUME HookInv, NEW t \in Threads, at[t] = "jump"
  PROVE  /\ Resolve(ptr[t]) \in {"none", "libc", "freed"} \cup Funcs
         /\ ~stuck => Resolve(ptr[t]) \notin Funcs
<1> USE DEF HookInv
<1>1. CASE \E f \in Funcs : ptr[t] = Tramp(f)
  <2>1. PICK f \in Funcs : ptr[t] = Tramp(f)
    BY <1>1
  <2>2. Resolve(ptr[t]) = tramp[f]
    BY <2>1, Pointers DEF Resolve
  <2> QED  BY <2>2, Names DEF TrampInv
<1>2. CASE \E a \in Funcs : ptr[t] = Entry(a)
  <2>1. PICK a \in Funcs : ptr[t] = Entry(a)
    BY <1>2
  <2>2. Resolve(ptr[t]) = IF patched[a] = "none" THEN "libc" ELSE patched[a]
    BY <2>1, Pointers DEF Resolve, CodeAt
  <2>3. \A f \in Funcs : ptr[t] # Tramp(f)
    BY <2>1, Pointers
  <2>4. ~stuck => NonePatched
    BY <2>3 DEF PatchInv
  <2> QED  BY <2>2, <2>4, Names DEF HookTypeOK, NonePatched
<1> QED  BY <1>1, <1>2 DEF CallInv

LEMMA Jump ==
  ASSUME HookInv, NEW t \in Threads, jump(t) PROVE HookInv'
<1> USE DEF HookInv
<1> DEFINE code == Resolve(ptr[t])
<1>1. /\ at[t] = "jump"
      /\ at' = [at EXCEPT ![t] = IF code = "freed" THEN "crashed" ELSE "hook"]
      /\ hook' = [hook EXCEPT ![t] = IF code \in Funcs THEN code ELSE hook[t]]
      /\ ptr' = [ptr EXCEPT ![t] = NullPtr]
      /\ UNCHANGED <<phase, exiting, sym, libc, saved, hooks, next, tramp, patched, stuck>>
  BY DEF jump, hookVars, MoreTypeOK
<1>2. ~stuck => code \notin Funcs
  BY <1>1, NoLoop
<1> HIDE DEF code
<1>3. /\ \A u \in Threads : u # t => at'[u] = at[u] /\ ptr'[u] = ptr[u] /\ hook'[u] = hook[u]
      /\ at'[t] \in {"crashed", "hook"} /\ ptr'[t] = NullPtr
      /\ hook'[t] \in Funcs /\ (~stuck => hook'[t] = hook[t])
  BY <1>1, <1>2 DEF HookTypeOK, MoreTypeOK, CallInv
<1>4. HookTypeOK'
  <2>1. \A u \in Threads : (at'[u] = "jump") = (ptr'[u] # NullPtr)
    <3>1. ASSUME NEW u \in Threads PROVE (at'[u] = "jump") = (ptr'[u] # NullPtr)
      <4>1. CASE u = t
        BY <1>3, <4>1
      <4>2. CASE u # t
        BY <1>3, <4>2 DEF HookTypeOK
      <4> QED  BY <4>1, <4>2
    <3> QED  BY <3>1
  <2>2. at' \in [Threads -> {"idle", "hook", "jump", "crashed"}]
    BY <1>1 DEF HookTypeOK
  <2> QED  BY <1>1, <2>1, <2>2 DEF HookTypeOK
<1>5. MoreTypeOK'
  BY <1>1 DEF MoreTypeOK
<1>6. QuietInv'
  BY <1>1, <1>3 DEF QuietInv, NonePatched
<1>7. SavedInv'
  BY <1>1 DEF SavedInv, Originals
<1>8. PrepareInv' /\ TrampInv' /\ AllOrNothing'
  BY <1>1 DEF PrepareInv, TrampInv, AllOrNothing, Originals
<1>9. PatchInv'
  BY <1>1, <1>3 DEF PatchInv, NonePatched, Through
<1>10. CallInv'
  BY <1>1, <1>3 DEF CallInv
<1> QED  BY <1>4, <1>5, <1>6, <1>7, <1>8, <1>9, <1>10

LEMMA LeaveHook ==
  ASSUME HookInv, NEW t \in Threads, leave_hook(t) PROVE HookInv'
<1> USE DEF HookInv
<1>1. /\ at[t] = "hook" /\ at' = [at EXCEPT ![t] = "idle"]
      /\ hook' = [hook EXCEPT ![t] = "none"] /\ ptr' = ptr
      /\ UNCHANGED <<phase, exiting, sym, libc, saved, hooks, next, tramp, patched, stuck>>
  BY DEF leave_hook, hookVars
<1>2. /\ \A u \in Threads : u # t => at'[u] = at[u] /\ hook'[u] = hook[u]
      /\ at'[t] = "idle"
  BY <1>1 DEF HookTypeOK, MoreTypeOK
<1>3. HookTypeOK'
  <2>1. \A u \in Threads : (at'[u] = "jump") = (ptr'[u] # NullPtr)
    <3>1. ASSUME NEW u \in Threads PROVE at'[u] = "jump" <=> at[u] = "jump"
      BY <1>1, <1>2
    <3> QED  BY <1>1, <3>1 DEF HookTypeOK
  <2>2. at' \in [Threads -> {"idle", "hook", "jump", "crashed"}]
    BY <1>1 DEF HookTypeOK
  <2> QED  BY <1>1, <2>1, <2>2 DEF HookTypeOK
<1>4. MoreTypeOK'
  BY <1>1 DEF MoreTypeOK
<1>5. QuietInv'
  BY <1>1, <1>2 DEF QuietInv, NonePatched
<1>6. SavedInv'
  <2>1. saved = Originals /\ \A f \in Funcs : saved[f] # NullPtr /\ libc[f] \in {Tramp(f), saved[f]}
    BY <1>1 DEF SavedInv
  <2>2. phase = "load" => libc = Originals
    BY DEF SavedInv
  <2> QED  BY <1>1, <2>1, <2>2 DEF SavedInv, Originals
<1>7. PrepareInv' /\ TrampInv' /\ AllOrNothing'
  BY <1>1 DEF PrepareInv, TrampInv, AllOrNothing, Originals
<1>8. PatchInv'
  BY <1>1, <1>2 DEF PatchInv, NonePatched, Through
<1>9. CallInv'
  BY <1>1, <1>2 DEF CallInv
<1> QED  BY <1>3, <1>4, <1>5, <1>6, <1>7, <1>8, <1>9

-----------------------------------------------------------------------------
(* Together.                                                               *)

LEMMA MainCalls ==
  ASSUME IInv, constructor \/ destructor PROVE IInv'
<1> USE DEF IInv
<1>1. CASE vPopulateLibcFuncPtrs
  <2>1. /\ Go(Main, "load") /\ step[Main] = "idle" /\ Main \in Threads /\ phase' = "load"
        /\ UNCHANGED <<owner, img, live, loads, stage, listers>>
    BY <1>1, LifecycleAssumption DEF vPopulateLibcFuncPtrs, StartInv, Go
  <2>2. MutexInv'
    BY <2>1, MutexMoves DEF Holding
  <2>3. LoadInv' /\ LiveInv' /\ ImageTypeOK'
    BY <2>1, ImageKept DEF ImageTypeOK, ImageInv
  <2> QED  BY <1>1, <2>1, <2>2, <2>3, Populate DEF ImageInv, StartInv
<1>2. ASSUME install_hooks \/ prepare_hook \/ prepare_hook_fails \/ funchook_install
             \/ funchook_install_fails \/ destructor
      PROVE  ImageInv' /\ StartInv'
  <2>1. imageVars' = imageVars /\ phase' # "populate"
    BY <1>2 DEF install_hooks, prepare_hook, prepare_hook_fails, funchook_install,
       funchook_install_fails, destructor, hooksqfs_fini, funchook_uninstall,
       funchook_uninstall_fails, funchook_destroy, uninstall_hooks
  <2>2. StartInv'
    BY <2>1 DEF StartInv
  <2> QED  BY <2>1, <2>2 DEF imageVars, ImageInv, ImageTypeOK, MutexInv, LoadInv, LiveInv
<1>3. ASSUME install_hooks \/ prepare_hook \/ prepare_hook_fails \/ funchook_install
             \/ funchook_install_fails \/ destructor
      PROVE  HookInv'
  BY <1>3, Install, PrepareHook, PrepareFails, InstallSteps, Fini, Uninstall, Destroy, Restore
  DEF destructor
<1> QED  BY <1>1, <1>2, <1>3 DEF constructor

LEMMA ThreadCalls ==
  ASSUME IInv, NEW t \in Threads,
         \/ \E f \in Funcs : enter_hook(t, f)
         \/ read_pointer(t) \/ jump(t) \/ leave_hook(t)
  PROVE  IInv'
<1>1. UNCHANGED <<imageVars, hookVars>>
  BY DEF enter_hook, read_pointer, jump, leave_hook
<1>2. HookInv'
  BY EnterHook, ReadPointer, Jump, LeaveHook DEF IInv
<1>3. ImageInv' /\ StartInv'
  BY <1>1 DEF IInv, imageVars, hookVars, StartInv, ImageInv, ImageTypeOK, MutexInv, LoadInv, LiveInv
<1> QED  BY <1>2, <1>3 DEF IInv

LEMMA ImageCalls ==
  ASSUME IInv, NEW t \in Threads, lookup(t) \/ list(t) \/ image_step(t) PROVE IInv'
<1>1. UNCHANGED <<hookVars, callVars>>
  BY DEF lookup, list, image_step
<1>2. HookInv'
  BY <1>1, HooksKept DEF IInv
<1>3. ImageInv'
  BY FindBegin, TestListing, ImageSteps DEF IInv, lookup, list, image_step
<1>4. StartInv'
  <2> SUFFICES ASSUME phase = "populate" PROVE step'[Main] = "idle"
    BY <1>1 DEF StartInv, hookVars
  <2>1. step[Main] = "idle" /\ \A u \in Threads : at[u] = "idle"
    BY DEF IInv, HookInv, StartInv, QuietInv
  <2>2. image_step(t)
    BY <2>1 DEF lookup, list
  <2>3. step[t] # "idle" /\ \E s : step' = [step EXCEPT ![t] = s] \/ step' = step
    BY <2>2 DEF image_step, ImageStep, load_lock, load_ok, load_fails, load_out, list_lock,
       list_out, find_end, Go
  <2> QED  BY <2>1, <2>3, LifecycleAssumption DEF IInv, ImageInv, ImageTypeOK
<1> QED  BY <1>2, <1>3, <1>4 DEF IInv

(* The inductive invariant: the image is whole outside a load, the hooks   *)
(* in place are reached through trampolines only, and the pointers that    *)
(* uninstall_hooks will put back are the real ones.                        *)
THEOREM Invariance == Spec => []IInv
<1>1. Init => IInv
  BY ImageStart, HookStart DEF IInv, Init
<1>2. IInv /\ [Next]_vars => IInv'
  <2> SUFFICES ASSUME IInv, [Next]_vars PROVE IInv'
    OBVIOUS
  <2>1. CASE Next
    BY <2>1, MainCalls, ThreadCalls, ImageCalls DEF Next
  <2>2. CASE UNCHANGED vars
    <3>1. HookInv'
      BY <2>2, HooksKept DEF vars, IInv
    <3>2. ImageInv' /\ StartInv'
      BY <2>2 DEF vars, IInv, imageVars, hookVars, StartInv, ImageInv, ImageTypeOK, MutexInv,
         LoadInv, LiveInv
    <3> QED  BY <3>1, <3>2 DEF IInv
  <2> QED  BY <2>1, <2>2
<1> QED  BY <1>1, <1>2, PTL DEF Spec

(* Every variable of constructor, destructor, hooks and image keeps its    *)
(* type, and a thread holds a function pointer exactly between its reading *)
(* from g_xLibcFuncs and the jump.                                         *)
THEOREM TypeCorrect == Spec => []TypeOK
<1>1. IInv => TypeOK
  BY DEF IInv, ImageInv, HookInv, HookTypeOK, TypeOK
<1> QED  BY <1>1, Invariance, PTL

(* A hook that goes on to the real function never arrives in a hook, for   *)
(* any symbol table and any number of threads inside the hooks.            *)
THEOREM NeverLoops == Spec => []NoHookLoop
<1>1. IInv => NoHookLoop
  BY NoLoop DEF IInv, NoHookLoop
<1> QED  BY <1>1, Invariance, PTL

(* Constructor and destructor leave all functions hooked or none, with     *)
(* g_xLibcFuncs as it was found.                                           *)
THEOREM HooksAllOrNone == Spec => []AllOrNothing
<1>1. IInv => AllOrNothing
  BY DEF IInv, HookInv
<1> QED  BY <1>1, Invariance, PTL

(* With the mutex free the image is loaded completely or not at all, and   *)
(* no object of libsquashfs is leaked or dangling.                         *)
THEOREM AlwaysWhole == Spec => []ImageWhole
<1>1. IInv => ImageWhole
  <2> SUFFICES ASSUME IInv PROVE ImageWhole
    OBVIOUS
  <2>1. ASSUME owner = None, NEW f \in Fields, NEW g \in Fields PROVE (img[f] = 0) = (img[g] = 0)
    <3>1. img[f] = 0 <=> img[g] = 0
      BY <2>1, ImageLoadAssumption DEF IInv, ImageInv, MutexInv, LoadInv, Holding
    <3> QED  BY <3>1
  <2>2. live \subseteq {<<f, img[f]>> : f \in {g \in Fields : img[g] # 0}}
    <3> SUFFICES ASSUME NEW x \in live
                 PROVE  x \in {<<f, img[f]>> : f \in {g \in Fields : img[g] # 0}}
      OBVIOUS
    <3>1. PICK f \in Fields, n \in 1 .. MaxLoads : x = <<f, n>>
      BY DEF IInv, ImageInv, ImageTypeOK
    <3>2. img[f] = n
      BY <3>1 DEF IInv, ImageInv, LiveInv
    <3> QED  BY <3>1, <3>2, ImageLoadAssumption
  <2>3. ASSUME NEW f \in Fields, img[f] # 0 PROVE <<f, img[f]>> \in live
    BY <2>3, ImageLoadAssumption DEF IInv, ImageInv, ImageTypeOK, LiveInv
  <2> QED  BY <2>1, <2>2, <2>3 DEF ImageWhole
<1> QED  BY <1>1, Invariance, PTL

(* A thread that lists the image or looks a path up in it has a whole      *)
(* image for as long as it does.                                           *)
THEOREM ImageInUse == Spec => []UsersHaveImage
<1>1. IInv => UsersHaveImage
  BY ImageLoadAssumption DEF IInv, ImageInv, ImageTypeOK, LoadInv, LiveInv, UsersHaveImage
<1> QED  BY <1>1, Invariance, PTL
=============================================================================
