# A TLA+ development for hooksqfs

hooksqfs is an `LD_PRELOAD` library that patches libc's file functions so that a
program sees a squashfs image as a read-only layer under a directory of the real
filesystem. This directory holds TLA+ models of its core, translated from
`sqfs_mgr.c`, `utils.c` and `hooksqfs.c`, TLC configurations that check them on
small instances, and TLAPS proofs for all values of the constants.

Contents: inventory of the system, modules, runs, proofs, disagreements between
code and documentation, limits, plan.

## 1. Inventory

| Part | Source | State it keeps | Operations |
|---|---|---|---|
| Descriptor operations | sqfs_mgr.c 510-902 | `fd_map`: descriptor number to inode and position | open, read, pread, pread64, lseek, lseek64, close, `__close_nocancel` |
| Seek arithmetic | sqfs_mgr.c 700-799 | none (works on `FDMapEntry.offset`) | `sqfs_seek_add`, `sqfs_seek_calculate`, `sqfs_lseek_mapped` |
| Directory operations | sqfs_mgr.c 904-955, 1017-1219 | `dir_map`: DIR pointer to a list of entries and a position in it | opendir, readdir, closedir |
| Path calls | sqfs_mgr.c 302-508, 957-1015 | none | open, access, `__xstat`: real function first, then the image |
| Mutex | sqfs_mgr.c 78-109 | one recursive mutex for both maps and the readers | lock, unlock |
| Image | sqfs_mgr.c 63-76, 111-116, 204-300, 1239-1334 | file, super block, compressor, data reader | load (in the constructor), unload (after a failed load, or by `test_sqfs_listing`) |
| Backing objects | utils.c 22-122 | counters of names under `/tmp` | `create_backing_fd`, `create_backing_dir` |
| Path normalisation | utils.c 124-335 | none | lexical normalisation, prefix test |
| Hook installation | hooksqfs.c | two tables of function pointers, the funchook object | constructor, destructor |
| Logging | logging.c | log descriptor, filter | `log_msg`, `log_hook` |
| Test program | test_concurrent.c | none | threads that read one file separately and through one shared descriptor |

How they interact. The application calls libc; the patched entry jumps to the hook.
A hook on a path calls the real function, and on failure converts the path and asks
libsquashfs. A hook on a descriptor or a DIR looks the handle up in a map and either
calls libsquashfs or goes on to the real function. An image file is handed out as
the number of an empty memfd (the *backing* descriptor), an image directory as the
DIR of a removed temporary directory, so the handle is a real one that only the maps
tell apart from others.

What is hard here:

* The maps are under our mutex, but the handles are given out and taken back by the
  kernel and by libc's heap, with no lock of ours held. A number or an address can
  have a new owner between any two steps of a hook.
* libsquashfs reads the image with functions that are hooked too, while the mutex is
  held: every library call re-enters the hooks on the same thread.
* Some ways to close a descriptor are not hooked.
* Other processes change the real filesystem between the real call and the lookup
  in the image.
* Failure exits after a handle has been made must give back the handle and the mutex.
  The constructor has some twenty calls that may fail, and must then leave the
  process as if the library were not there.
* The names of backing objects under `/tmp` outlive a process that dies, and may be
  wanted by a process with the same pid in another pid namespace.
* Whether a path is in the overlay is decided on its spelling alone.
* Seek arithmetic mixes signed, unsigned, 32-bit and 64-bit types; libsquashfs' byte
  counts are 32-bit.

`PROJECT.json` lists each of these hazards at its line, with the properties that
cover it or the reason why none does.

## 2. Modules

| Module | Models | Role |
|---|---|---|
| `SeekOps` | sqfs_mgr.c 629-799 | the offset arithmetic as operators, machine integers by their largest values |
| `FdCursor` | sqfs_mgr.c 587-852, found branches | one descriptor, one thread, every argument |
| `FdMap` | sqfs_mgr.c 53-109, 510-902 | descriptor operations of several threads, mutex, `fd_map`, kernel table |
| `OpenFiles` | | abstract specification: a descriptor table with atomic operations |
| `FdMapRefinement` | | the mapping from `FdMap` to `OpenFiles` |
| `DirMap` | sqfs_mgr.c 904-955, 1017-1219 | directory operations of several threads, `dir_map`, DIR addresses |
| `Overlay` | sqfs_mgr.c 302-356, 461-585, 957-1015 | which layer answers for a path |
| `PathNorm` | utils.c 124-335; sqfs_mgr.c 302-320 | lexical normalisation and the prefix test, against a walk over a tree |
| `ImageLoad` | sqfs_mgr.c 63-76, 111-116, 204-300, 1239-1334 | load, unload and listing of the image, every call failing |
| `HookLifecycle` | hooksqfs.c | constructor and destructor, composed with `ImageLoad` and with threads calling libc |
| `BackingNames` | utils.c 22-122 | names under `/tmp`: creation, retry, removal, crash |
| `MCFdMap`, `MCDirMap`, `MCOverlay`, `MCPathNorm`, `MCHookLifecycle`, `MCBackingNames` | | instances for TLC |
| `SeekOpsProofs`, `FdCursorProofs`, `FdMapProofs`, `DirMapProofs`, `OverlayProofs`, `PathNormProofs`, `HookLifecycleProofs`, `BackingNamesProofs` | | lemmas, theorems and their proofs; `FdMapProofs` also proves the refinement, `HookLifecycleProofs` the properties of `ImageLoad` |

Definitions keep the names of the functions they model; `PROJECT.json` maps each to
its lines. Definitions whose comment begins "Mutant" are plausible bugs, used only to
show that each property can fail.

**FdMap.** `fd_map` is a set of records with the fields of `FDMapEntry`; `kfd` is
the kernel's table (what a number denotes, and for a real file its position);
`owner` and `depth` are the recursive mutex; `pc`, `call`, `found`, `off`, `ret` are
each thread's place, arguments and locals. `gen` numbers the lives of a descriptor
number; the code never compares it, and it stands for the identity of the
`FDMapEntry` and of the open file description. A critical section that calls nothing
outside is one step (`Critical`); one that calls libsquashfs or the kernel is split
at each such call, with the mutex held. Real functions that run after the unlock are
steps of their own. The application uses a descriptor only between open's return
and its own close, but a close may be issued while other calls on it are running.

**DirMap.** Addresses of DIR objects come from a small set and are reused at once
after libc's closedir. `current` is `dir_entry_current` as an index, 0 for NULL.
A stream may be shared by threads; it is closed by one that no other call is using.

**Overlay.** `real` says what the real filesystem has at a path: nothing, not even
the parent, a file, a read-only file, a file without permission or in a directory that
cannot be searched, a file too large for off_t, a directory. A real function may
return each errno that what is there can cause, and may fail for a reason of its
own whatever is there (`ENOMEM` stands for EMFILE, EINTR, ENOSPC and the rest); the code
asks the image after any failure. Each hook is two steps, the real attempt and the
answer from the image, and `other_process` may come between. `seen`, `granted` and
`troubled` record, for the properties, the layers that answered, the paths access(W_OK)
granted and those on which a real function failed other than with ENOENT, each since
the path last changed.

**PathNorm.** A path is a sequence of characters: whether a slash is written depends
on lengths, and so does every overflow test. Each loop of path_normalize_lexical is a
`Loop`: a recursive function from the number of elements it has seen to what it then
holds. `Tokens` is what strsep returns one after the other, `push` what is done with
a token and `PartsAfter` the array after each of them, `rebuild` and `append_str` the
second loop. `Walk` is the reference: where one ends who follows the path from a
directory, component by component.

**ImageLoad.** Each of the seven calls of sqfs_mgr_load_image is a step that
succeeds or fails; `live` holds the library objects that exist, `img` the pointers
of the manager. The mutex is held by one thread throughout a load or a listing and
is free between the two halves of test_sqfs_listing, as in the code. The mutex is not
recursive here: nothing of this module is called with it held.

**HookLifecycle.** Code addresses are named after functions, `sym` is what dlsym finds
(names may share an address). `libc` is g_xLibcFuncs, `saved` g_xTrampoline; `tramp`
says where each trampoline leads and `patched` which hook an address jumps to, both
funchook's state. Each call of funchook is a step of the constructing or destroying
thread. Other threads are inside hooks meanwhile: reading the pointer and jumping
through it are two steps. A thread that jumps into a freed trampoline is "crashed",
and the process takes no more steps.

**BackingNames.** `/tmp` is a set of objects, each with its name and its maker; mkdir,
opendir and rmdir (or open and unlink) are steps that look the name up anew, so the
model could confuse two objects of one name. `crash` ends a process between any two
steps and starts another with its pid and its counters at 0.

How the modules fit. `HookLifecycle` starts in the unhooked process and ends with the
hooks installed and the image loaded, which is where `FdMap`, `DirMap` and `Overlay` begin;
its `AllOrNothing` and `ImageWhole` are what they assume. `PathNorm` justifies the set
`Inside` of `DirMap` and `Overlay`; `BackingNames` the unnamed, private backing objects of
`FdMap` and `DirMap`.

## 3. Runs

| Run | Instance | Checks | Result |
|---|---|---|---|
| `fd_cursor` | 4-bit "64-bit" integers, 3-bit off_t and count, sizes 0..6 | `TypeOK`, `CursorRepresentable`, `ZeroMeansEOF`, `SeekExact` | holds |
| `fd_map` | 2 threads, 2 free numbers, 1 image and 1 real file, 3 opens | `TypeOK`, `NoStaleEntry`, `NoUseAfterFree`, `NoFdLeak`, `ServedFromOpenedFile`, `IInv`, `ImplementsOpenFiles` | holds, 440 thousand states |
| `fd_map_liveness` | the same, 2 opens, fairness | `LockReleased` | holds |
| `dir_map` | 2 threads, 2 addresses, 4 directories, 3 opens | `TypeOK`, `NoStaleDir`, `NoDirLeak`, `MergedListing` | holds, 306 thousand states |
| `overlay` | 3 paths: in the image, under the prefix only, outside; the first in every real state | `TypeOK`, `FoundWhenPresent`, `OneLayerPerPath`, `WritableMeansUpper` | holds, 263 thousand states |
| `lifecycle` | 2 threads, 7 symbol tables, 2 loads | `TypeOK`, `NoHookLoop`, `AllOrNothing`, `ImageWhole`, `UsersHaveImage` | holds, 1.7 million states |
| `path_norm` | every path of up to 7 characters over `/`, `.`, `a`, every absolute prefix of up to 4, PATH_MAX 8 | `TypeOK`, `InsideIffUnder`, `BuffersFit` | holds, 262 thousand states |
| `backing` | 2 processes of one pid, 2 tries, 3 counter values, 2 crashes | `TypeOK`, `OwnName`, `OnlyCrashesLeave`, `StepsOverLeftovers` | holds, 913 thousand states |
| `fd_cursor_64`, `fd_map_unhooked`, `dir_map_duplicates`, `path_norm_relative` | smaller | one documented statement each | violated, see section 5 |

Why the bounds are enough. The arithmetic depends only on the order of the limits
(off_t below off64_t below uint64_t), which four bits show, and the proofs cover
every width. Two threads and two free numbers give each race its two actors and a
number to be reused; three opens let a number have a second life while another
descriptor is open. Four directories are the four cases sqfs_opendir distinguishes.
`MaxOpens` in `FdMap` and `DirMap` bounds the opens of a behaviour, `MaxSize` in `FdCursor`
the file; at the bound, an open fails as with EMFILE. In `lifecycle`, two loads
(`MaxLoads`) are the constructor's and one more, so that an image can be unloaded and
loaded again; the symbol tables are a 32-bit libc (all addresses different) and a
64-bit one (pread64 is pread, lseek64 is lseek), each with `__close_nocancel`
of its own, shared with close or missing, and one libc without `__xstat`. In
`path_norm`, 7 characters hold a name beside a longer one that starts alike, `..` above
the root, and four slashes or components, which fill `parts[PATH_MAX / 2]`. In
`backing`, two crashes leave as many names as a call has tries (`MaxTries`; 128 in the
code), so giving up is reached; `MaxId` bounds the counters, which allows each
process a second call.

In `overlay`, the constant `Upper` says what may be at each path: anything at the one
that both layers can have, where the calls can disagree; nothing or a file at the one
the image lacks and an unreadable file at the one outside, enough for every answer
these can get. The properties speak of one path at a time, and the proofs allow any
`Upper`.

All runs check for deadlock but `lifecycle`, whose process ends after the destructor
or with a crashed thread.

Fairness. `LockReleased` assumes weak fairness of each thread's steps inside a
call: the scheduler runs every runnable thread, and the system calls of a hook
(memfd_create, pread on the image, close) return. Nothing is assumed about
who gets the mutex next, and nothing about the application calling anything.
pthread mutexes are not fair, so "every call returns" is not claimed.

## 4. Proofs

Checked by TLAPS, for any constants that satisfy the named assumptions
(`WidthAssumption`, `CursorAssumption`, `FdMapAssumption`, `DirMapAssumption`,
`OverlayAssumption`, `PathNormAssumption`, `ImageLoadAssumption`, `LifecycleAssumption`,
`BackingAssumption`), which TLC evaluates in the runs. They say which sets and values
are distinct and that bounds are numbers; none limits the number of threads,
descriptors, addresses, paths, processes or crashes, or the length of a path.

| Module | Theorems |
|---|---|
| `SeekOpsProofs` | lemmas: `SeekAdd` and `SeekMapped` say what the unsigned arithmetic computes over the integers; `ReadNat`, `ReadZero` bound a read |
| `FdCursorProofs` | `TypeOKHolds`, `CursorRepresentableHolds`, `SeekExactHolds` for every width and size; `ZeroMeansEOFHolds` under the additional assumption `SIZE_MAX = U32_MAX`, the 32-bit build (in the 64-bit build it is false) |
| `FdMapProofs` | `Invariance`, `TypeCorrect`, `NeverStale`, `NeverFreedInUse`, `NeverLeaked`, `AlwaysServed`; `RefInvariance`, `Implements` (`FdMap` implements `OpenFiles`) |
| `DirMapProofs` | `Invariance`, `TypeCorrect`, `NeverStale`, `NeverLeaked`, `ListsMerged` |
| `OverlayProofs` | `Invariance`, `TypeCorrect`, `NeverMissing`, `AlwaysOneLayer`, `GrantedIsReal` |
| `PathNormProofs` | `Invariance`, `TypeCorrect`, `BuffersAlwaysFit`, `InsideExactlyUnder`; `AbsoluteMeaningKept` and `NoTrailingSlash` about path_normalize_lexical itself |
| `HookLifecycleProofs` | `Invariance`, `TypeCorrect`, `NeverLoops`, `HooksAllOrNone`, `AlwaysWhole`, `ImageInUse` |
| `BackingNamesProofs` | `Invariance`, `TypeCorrect`, `AlwaysOwnName`, `FailuresLeaveNothing`, `GivesUpOnlyWhenFull` |

In each module `Invariance` is `Spec => []IInv` for an inductive invariant that was
model-checked on the instance of the module's run before it was proved; the other
theorems follow from it. None of the safety properties is inductive as it stands.
What the invariants add:

**FdMap.** `NoStaleEntry` is broken by a close of a number that somebody else has
open, so the invariant must say who owns each descriptor: the application
(`HeldInv`), the one thread that is opening it (`OpeningInv`), or the one thread that
is closing it, whose entry is gone once it is past the mutex (`ClosingInv`).
`NoUseAfterFree` needs the mutex to be held exactly in the critical sections
(`MutexInv`, which also fixes the recursion count). `ServedFromOpenedFile` needs that
a call which missed `fd_map`, and whose descriptor the application still has, is on a
real file (`MissInv`), and that a life of a number is never mistaken for another
(`KernelInv`). TLC checks this `IInv` in run `fd_map`.

**FdMap implements OpenFiles.** The mapping takes the open descriptions from `fd_map`
and from the kernel's table, and hides the number of an open in progress. The step
that takes effect is: the real open or HASH_ADD_INT; the return of libsquashfs
(`read_done`) or of the real read; the seek; HASH_DEL (`close_hit`) or the kernel's
close of a real file. All other steps change nothing that OpenFiles has. Two of these
claims need more than `IInv`, which `RefInv` adds. A read of the image uses the
position it loaded before libsquashfs ran, and nobody has moved it meanwhile
(`ReadOK`: the mutex is held throughout). A call that finds the empty backing file
under its number may behave as on an empty file only if its descriptor has been
closed: `LifeOK` says that the life a call names belongs to no other number and, past
the miss, to no entry of `fd_map`.

**DirMap.** As in `FdMap`, each DIR object belongs to the application's stream and
its readers, or to the one thread that opens or closes it (`CallInv`, `OwnerInv`).
`MergedListing` is about finished listings; the invariant needs every unfinished one:
what a stream has delivered is the first `n` names of the real list followed by the
image's, where `n` is the position of the DIR object plus what `dir_entry_current` has
passed (`ProgressInv`), and nothing of the image has been delivered before the real
list ended.

**Overlay.** If nobody has changed the path since a real attempt failed, then either it
failed with ENOENT and nothing is there, or the path is one of the troubled (`FailedInv`).
What the history says of the real filesystem is true of it now (`HistoryInv`): it has
a path that it answered for or granted, and it lacks one that the image answered for,
the troubled excepted.

**HookLifecycle and ImageLoad.** A thread holds the mutex exactly inside load, listing
and lookup; during a load the fields that are set are those of the calls made so far,
otherwise all or none; the objects that exist are the ones pointed to (`ImageInv`).
For the hooks (`HookInv`): a patched entry leads to a hook that goes on through a
trampoline, and so do the hook a thread is in and a pointer it has read but not yet
used, unless all patches are gone (`PatchInv`); how far the constructor has come says
which functions have a trampoline, aliases of close excepted (`PrepareInv`); whenever
there is something to take back, the saved pointers are those dlsym found (`SavedInv`).

**BackingNames.** A name has one entry, with its maker's pid (`TmpInv`). A process in
the loop has met a taken name in each try so far, and without a rival these names are
still there (`TriedInv`); by a count of finite sets the dead must have left them.

**PathNorm.** The state machine is small: `IInv` says that the answer in the variables is
the one for the path and the environment in the variables. The work is in the loops,
which run over sequences of any length.

* Induction. The induction theorems of the library have a predicate as parameter, which
  the provers cannot instantiate. `NatSetInduction` states induction with a set in its
  place (from `WFMin`: a nonempty set of numbers has a least element), and
  `SeqSetInduction` the same for sequences built with Append. From these follow that a
  `Loop` exists (`LoopExists`), and what each loop does with one more element
  (`TokensAppend`, `PartsAppend`, `RebuiltAppend`, `VisitAppend`).
* Nothing overflows. `Weight` of a list is what its elements take up, each with a slash.
  The tokens of a path of length n weigh n + 1 (`TokensWeight`); `push` never
  makes the parts heavier than the tokens read so far (`PartsWeight`); no part is empty,
  so k parts weigh at least 2k (`CountWeight`). Hence at most PATH_MAX / 2 parts, and an
  output that fits (`CountFits`, `NormalForm`).
* The parts are the place. For an absolute path they are names, without `.` and `..`,
  and equal to where the walk ends (`PartsAreVisited`).
* The normal form says everything. Splitting the normal form of a list of names gives
  the names back (`TokensRender`), so different places have different normal forms
  (`RenderInjective`: the test against the image file), and the string test of
  path_relative_to_root (prefix, then a slash) is the prefix order on lists of names
  (`RelativeNames`: the test against the prefix).

`NoTrailingSlash` justifies that the model has no loop for trailing slashes of the root,
and `RelativeType` (the rest of a path is shorter than the path) that it has no failing
copy to relative_out.

Only model-checked, and why:

* `LockReleased`: liveness under fairness is out of the prover's reach.
* The four statements of section 5, which the code violates.

## 5. Where the code and its documentation disagree

| Run | Statement | What the code does |
|---|---|---|
| `fd_map_unhooked` | RE/why-hook-close-nocancel.md:92: after hooking `__close_nocancel`, a reused real descriptor is no longer taken for a sqfs one | `__close_nocancel_nostatus`, dup2, close_range and raw system calls are not hooked; after one of them a real file with the same number is read from the image |
| `fd_cursor_64` | sqfs_mgr.c:607 "Success or EOF" | in a 64-bit build a count of 2^32 is truncated to 0 and read returns 0 before the end |
| `dir_map_duplicates` | Agent.md:18-19: merged listings use the real file | a name of both layers is listed twice |
| `path_norm_relative` | utils.c:166-168 "Split the path by '/', then process '.', '..', and empty components" | a slash is written only if the output is longer than 1: `a/b` becomes `ab` |

Seen while modelling, with no run of its own because one assignment or one branch
decides it:

* A real directory where the image has a regular file: opendir closes the real one and
  fails with ENOTDIR (sqfs_mgr.c:1073); Readme.md:33 says real filesystem first.
* access and `__xstat` overwrite the errno of the real call with ENOENT for paths
  outside the prefix (sqfs_mgr.c:486, 975); Readme.md:32 says they are passed through.
* An open for writing of a file of the image succeeds on a memfd and what is written
  is lost (sqfs_mgr.c:550); Readme.md:4-6 calls the real filesystem the writable layer.
* The code falls back to the image after any failure of the real call. Readme.md:33-34
  and the comment at sqfs_mgr.c:482 restrict that to missing paths, Agent.md:17
  allows any failure; the model follows the code. So a path that both layers have can
  be split between them: a file over 2 GiB in the 32-bit build is real for access and
  the image's for open and `__xstat` (EOVERFLOW), an unreadable one is real for `__xstat` and
  the image's for open (EACCES), and a directory of both layers that access(W_OK) has
  granted is opened for writing on a backing descriptor of the image (EISDIR). EEXIST
  with O_EXCL, EMFILE, EINTR and the like do the same. `OneLayerPerPath` and
  `WritableMeansUpper` except exactly the calls whose real function failed other than
  with ENOENT: missing paths are handled as Readme.md says, nothing is promised of others.
* A relative path is never sent to the image, whatever the working directory
  (utils.c:277 for the prefix `/`, 299 for others): after a chdir below the prefix the
  image's files are missing under their relative names. Readme.md:33-34 and Agent.md:17
  promise the fallback for every path inside the prefix. `InsideIffUnder` states the
  refusal.
* uninstall_hooks restores g_xLibcFuncs even after a funchook_uninstall that failed:
  hooks then call themselves. And funchook_destroy frees trampolines through which a
  thread may be about to jump (hooksqfs.c:116, 121). `NoHookLoop` excludes the former,
  the model shows the latter as a "crashed" thread.
* sqfs_mgr_unload_image gives the file object back with sqfs_free, which leaves the
  image's descriptor open (sqfs_mgr.c:216).
* test_sqfs_listing unloads the image although fd_map may have entries, and sqfs_read
  does not ask for a data reader (sqfs_mgr.c:1332). The function is a developer's
  check that no hook calls.

## 6. Assumptions and limits

* Data are (file, offset, length); bytes, decompression and the metadata format are
  libsquashfs' business. One hooked read of the image stands for any number of them
  in one library call.
* `FdMap`, `DirMap` and `Overlay` start after the constructor, with the hooks installed, an
  image loaded and pthread_mutexattr_settype successful. Without an image the paths of
  the image are none.
* `InsideIffUnder` is about an absolute prefix and an absolute name of the image file,
  which Agent.md:14-15 and Readme.md:29 ask for, and about trees without symbolic links:
  the code's test is lexical. That a call goes to the image exactly when its path
  leads below the prefix is claimed of absolute paths only; of relative ones, that they
  are refused (section 5). `TypeOK` and `BuffersFit` need none of this.
* In `PathNorm` a path is a sequence over `Chars`, of which only `/` and `.` are special;
  the value `Fail`, for a function that returned false, is not such a sequence.
* In `BackingNames` nobody but this library makes or removes names of its pattern, and
  rmdir and unlink of an existing, empty object succeed.
* uthash is a set of entries; its own memory management is not modelled.
* Applications that use a descriptor after closing it, duplicate it, fork while
  another thread is in a hook, or call hooks from signal handlers are outside.
* libc's readdir is assumed to return NULL only at the end.
* Out of the prover's reach: liveness and ENABLED.
* Not modelled: stat field conversion (assignments from an inode to a struct, no
  state and no branch that another part depends on); logging (a descriptor and a
  filter that no other part reads, written with a raw system call that is not
  hooked); the test program (a client: `FdMap` makes every call it makes, in every
  order); the build files; funchook, uthash, libsquashfs and libc but for their
  effects at the calls above. What can go wrong in them is among the hazards, with
  a note.

## 7. Plan

Done: `SeekOps`, `FdCursor`, `FdMap` with its abstract specification, `DirMap`, `Overlay`,
`PathNorm`, `ImageLoad`, `HookLifecycle`, `BackingNames`; every safety property the runs
check is proved, and so is the refinement. What would come next:

1. In `DirMap`, the reason why the real opendir failed, so that a listing without the
   upper layer after EMFILE can be told from a directory that is not there.
2. `Overlay` over the paths of `PathNorm` in place of the set `Inside`, so that the two
   theorems about them become one.
