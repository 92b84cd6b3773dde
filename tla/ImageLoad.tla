----------------------------- MODULE ImageLoad -----------------------------
(***************************************************************************)
(* The image behind the hooks: sqfs_mgr_load_image, sqfs_mgr_unload_image  *)
(* and test_sqfs_listing (sqfs_mgr.c, lines 63-76, 111-116, 204-300 and    *)
(* 1239-1334), which loads the image, lists it and unloads it.  Any call   *)
(* of libsquashfs may fail, and several threads may be listing.            *)
(*                                                                         *)
(* Objects of libsquashfs are numbered by the load that made them; a       *)
(* pointer is the number of its object, 0 for NULL.  The file object is    *)
(* released with sqfs_free, which gives back its memory and not the        *)
(* descriptor in it.                                                       *)
(***************************************************************************)
EXTENDS Integers, Sequences

CONSTANTS
  Threads,
  MaxLoads,    \* bound: loads that get past the test of HOOKSQFS_FILE
  None

ASSUME ImageLoadAssumption == MaxLoads \in Nat /\ None \notin Threads

VARIABLES
  owner,       \* g_xSqfsMgr.mutex: the owning thread, or None
  img,         \* g_xSqfsMgr.file, .compressor and .data_reader
  live,        \* the objects that exist
  loads,       \* number of loads so far
  step,        \* where each thread is in the code of this module
  stage,       \* the call the loading thread makes next
  listers      \* the threads inside test_sqfs_listing

imageVars == <<owner, img, live, loads, step, stage, listers>>

Fields == {"file", "compressor", "data_reader"}

(* The calls of sqfs_mgr_load_image in their order, and the field that     *)
(* each one sets.                                                          *)
Stages == << "open_file", "super_read", "config_init", "compressor_create",
             "read_options", "data_reader_create", "load_fragment_table" >>
Sets == [s \in {"open_file", "compressor_create", "data_reader_create"} |->
           CASE s = "open_file" -> "file"
             [] s = "compressor_create" -> "compressor"
             [] s = "data_reader_create" -> "data_reader"]

InitImage ==
  /\ owner = None
  /\ img = [f \in Fields |-> 0] /\ live = {} /\ loads = 0 /\ stage = 1
  /\ step = [t \in Threads |-> "idle"]
  /\ listers = {}

sqfs_mgr_loaded_locked == \A f \in Fields : img[f] # 0

Go(t, s) == step' = [step EXCEPT ![t] = s]

-----------------------------------------------------------------------------
(* Mutant: the compressor is destroyed and its pointer kept.               *)
sqfs_mgr_unload_image_dangling ==
  /\ live' = live \ {<<f, img[f]>> : f \in Fields}
  /\ img' = [img EXCEPT !["file"] = 0, !["data_reader"] = 0]

(* The caller holds the mutex.                                             *)
sqfs_mgr_unload_image ==
  /\ live' = live \ {<<f, img[f]>> : f \in Fields}
  /\ img' = [f \in Fields |-> 0]

(* sqfs_mgr_load_image, until its first call of libsquashfs.               *)
load_lock(t) ==
  /\ step[t] = "load" /\ owner = None
  /\ owner' = t
  /\ IF sqfs_mgr_loaded_locked
     THEN Go(t, "load_out") /\ UNCHANGED <<loads, stage>>
     ELSE \/ Go(t, "load_out") /\ UNCHANGED <<loads, stage>>    \* HOOKSQFS_FILE not set
          \/ /\ loads < MaxLoads
             /\ loads' = loads + 1 /\ stage' = 1 /\ Go(t, "loading")
  /\ UNCHANGED <<img, live, listers>>

(* Mutant: the load goes on after its last call.                           *)
load_ok_past_end(t) ==
  /\ step[t] = "loading"
  /\ IF Stages[stage] \in DOMAIN Sets
     THEN LET f == Sets[Stages[stage]]
          IN img' = [img EXCEPT ![f] = loads] /\ live' = live \cup {<<f, loads>>}
     ELSE UNCHANGED <<img, live>>
  /\ stage' = stage + 1
  /\ UNCHANGED <<owner, loads, listers, step>>

(* The next call succeeds.  An image without compressor options skips      *)
(* read_options.                                                           *)
load_ok(t) ==
  /\ step[t] = "loading"
  /\ IF Stages[stage] \in DOMAIN Sets
     THEN LET f == Sets[Stages[stage]]
          IN img' = [img EXCEPT ![f] = loads] /\ live' = live \cup {<<f, loads>>}
     ELSE UNCHANGED <<img, live>>
  /\ IF stage < Len(Stages) THEN stage' = stage + 1 /\ UNCHANGED step
     ELSE Go(t, "load_out") /\ UNCHANGED stage
  /\ UNCHANGED <<owner, loads, listers>>

(* The next call fails; without a file there is nothing to unload.         *)
load_fails(t) ==
  /\ step[t] = "loading"
  /\ IF Stages[stage] = "open_file" THEN UNCHANGED <<img, live>> ELSE sqfs_mgr_unload_image
  /\ Go(t, "load_out")
  /\ UNCHANGED <<owner, loads, stage, listers>>

load_out(t) ==
  /\ step[t] = "load_out"
  /\ owner' = None
  /\ Go(t, IF t \in listers THEN "list" ELSE "idle")
  /\ UNCHANGED <<img, live, loads, stage, listers>>

-----------------------------------------------------------------------------
test_sqfs_listing(t) ==
  /\ step[t] = "idle"
  /\ Go(t, "load") /\ listers' = listers \cup {t}
  /\ UNCHANGED <<owner, img, live, loads, stage>>

(* Mutant: the image is taken to be there because it has just been loaded. *)
list_lock_trusting(t) ==
  /\ step[t] = "list" /\ owner = None
  /\ owner' = t
  /\ Go(t, "listing")
  /\ UNCHANGED <<img, live, loads, stage, listers>>

(* The mutex was free since the load: another thread may have unloaded.    *)
list_lock(t) ==
  /\ step[t] = "list" /\ owner = None
  /\ owner' = t
  /\ Go(t, IF sqfs_mgr_loaded_locked THEN "listing" ELSE "list_out")
  /\ UNCHANGED <<img, live, loads, stage, listers>>

(* The end of the listing, whether it was complete or a call failed.  Its  *)
(* own objects (directory reader, inodes, entries) live in "listing" only. *)
list_out(t) ==
  /\ step[t] \in {"listing", "list_out"}
  /\ sqfs_mgr_unload_image
  /\ owner' = None
  /\ Go(t, "idle") /\ listers' = listers \ {t}
  /\ UNCHANGED <<loads, stage>>

(* sqfs_find_inode in a hook, with the mutex held; without an image it     *)
(* returns at once.                                                        *)
find_begin(t) ==
  /\ step[t] = "idle" /\ owner = None
  /\ sqfs_mgr_loaded_locked
  /\ owner' = t /\ Go(t, "finding")
  /\ UNCHANGED <<img, live, loads, stage, listers>>

find_end(t) ==
  /\ step[t] = "finding"
  /\ owner' = None /\ Go(t, "idle")
  /\ UNCHANGED <<img, live, loads, stage, listers>>

(* The steps of a thread that is inside this module.                       *)
ImageStep(t) ==
  \/ load_lock(t) \/ load_ok(t) \/ load_fails(t) \/ load_out(t)
  \/ list_lock(t) \/ list_out(t) \/ find_end(t)

-----------------------------------------------------------------------------
ImageTypeOK ==
  /\ owner \in Threads \cup {None}
  /\ img \in [Fields -> 0 .. MaxLoads] /\ live \subseteq Fields \X (1 .. MaxLoads)
  /\ loads \in 0 .. MaxLoads /\ stage \in 1 .. Len(Stages)
  /\ step \in [Threads -> {"idle", "load", "loading", "load_out", "list",
                           "listing", "list_out", "finding"}]
  /\ listers \subseteq Threads

(* Whenever the mutex is free the image is there completely or not at all, *)
(* whatever call of the load failed (sqfs_mgr.c, line 66: the other fields *)
(* mean nothing while file is NULL, yet unload tests them one by one); and *)
(* the objects that exist are exactly those the manager points to: none is *)
(* leaked by a failed load, no pointer dangles for the next load or unload *)
(* to destroy again.                                                       *)
ImageWhole ==
  /\ owner = None => \A f, g \in Fields : (img[f] = 0) = (img[g] = 0)
  /\ live = {<<f, img[f]>> : f \in {g \in Fields : img[g] # 0}}

(* A thread that lists the image or looks a path up in it has a whole      *)
(* image all the while: it looked under the mutex, not before.             *)
UsersHaveImage ==
  \A t \in Threads : step[t] \in {"listing", "finding"} =>
    \A f \in Fields : <<f, img[f]>> \in live
=============================================================================
