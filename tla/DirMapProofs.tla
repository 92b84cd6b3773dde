---------------------------- MODULE DirMapProofs ----------------------------
(***************************************************************************)
(* The safety properties of DirMap for any number of threads, addresses,   *)
(* directories and opens.                                                  *)
(***************************************************************************)
EXTENDS DirMap, SequenceTheorems, TLAPS

(* Address p is in its life g.                                             *)
Lives(p, g) == p \in Ptrs /\ g # 0 /\ heap[p].gen = g

(* Thread t is opening or closing the object of its call: no other call    *)
(* and no stream of the application is on it.                              *)
Sole(t) == call[t].ptr # None /\ call[t].op # "readdir"

HeapInv ==
  /\ \A p \in Ptrs : heap[p] # Free =>
       /\ heap[p].gen \in 1 .. opens
       /\ heap[p].dir \in RealDirs \cup {None}
       /\ heap[p].pos <= Len(RealNames(heap[p]))
  /\ \A p, q \in Ptrs : heap[p].gen # 0 /\ heap[p].gen = heap[q].gen => p = q

(* What a thread in a call knows.                                          *)
ThreadOK(t) ==
  /\ pc[t] = "app" => call[t].op = "none"
  /\ pc[t] \in {"open_real", "open_image", "open_undo"} =>
       call[t].op = "opendir" /\ call[t].dir \in Dirs
  /\ pc[t] \in {"app", "open_real"} => call[t].ptr = None
  /\ pc[t] \in {"find", "real"} => call[t].op \in {"readdir", "closedir"}
  /\ pc[t] \in {"open_undo", "find", "real"} => call[t].ptr # None
  /\ call[t].ptr = None => call[t].gen = 0
  /\ call[t].ptr # None => Lives(call[t].ptr, call[t].gen)
  /\ pc[t] = "open_image" /\ call[t].ptr # None =>
       heap[call[t].ptr].dir # None /\ heap[call[t].ptr].pos = 0
  /\ call[t].op = "readdir" => \E h \in held : h.ptr = call[t].ptr /\ h.gen = call[t].gen
  /\ Sole(t) => /\ \A h \in held : h.gen # call[t].gen
                /\ \A u \in Threads : u # t => call[u].gen # call[t].gen
  /\ \A e \in dir_map : e.key = call[t].ptr => pc[t] = "find"

CallInv == \A t \in Threads : ThreadOK(t)

(* An entry is of the object at its address, which is on a real directory  *)
(* or on the empty one; dir_entry_current is in the list, and NULL at its  *)
(* end.                                                                    *)
EntryOK(e) ==
  /\ Lives(e.key, e.gen)
  /\ e.is_real_dir <=> heap[e.key].dir # None
  /\ e.current <= Len(e.list)
  /\ e.reached_end => e.current = 0 /\ e.list # <<>>

MapInv ==
  /\ \A e \in dir_map : EntryOK(e)
  /\ \A e, f \in dir_map : e.key = f.key => e = f

HeldInv ==
  /\ \A h \in held : Lives(h.ptr, h.gen)
  /\ \A h, k \in held : h.gen = k.gen => h = k

(* A stream that the application does not have is fresh.                   *)
FreshInv ==
  \A g \in Gens : (\A h \in held : h.gen # g) => got[g] = <<>> /\ g \notin eof

(* s is the first n of the elements of r followed by those of l.           *)
Follows(s, r, l, n) ==
  /\ Len(s) = n /\ n <= Len(r) + Len(l)
  /\ \A i \in 1 .. n : s[i] = IF i <= Len(r) THEN r[i] ELSE l[i - Len(r)]

(* The entries of the image that have been delivered.                      *)
Delivered(e) == IF e.reached_end THEN Len(e.list) ELSE Node(e) - 1

(* What the application has of a stream, told from the position of the     *)
(* DIR object and of the entry.                                            *)
Progress(h) ==
  LET d == heap[h.ptr]
      r == RealNames(d)
  IN /\ (\A e \in dir_map : e.key # h.ptr) =>
          /\ Follows(got[h.gen], r, <<>>, d.pos)
          /\ h.gen \in eof => d.pos = Len(r)
     /\ \A e \in dir_map : e.key = h.ptr =>
          /\ Follows(got[h.gen], r, e.list, d.pos + Delivered(e))
          /\ Delivered(e) > 0 => d.pos = Len(r)
          /\ h.gen \in eof => d.pos = Len(r) /\ Delivered(e) = Len(e.list)

ProgressInv == \A h \in held : Progress(h)

(* An object is the application's or the thread's that is alone on it.     *)
OwnerInv ==
  \A p \in Ptrs : heap[p] # Free =>
    \/ \E h \in held : h.ptr = p
    \/ \E t \in Threads : Sole(t) /\ call[t].ptr = p

IInv ==
  /\ TypeOK /\ HeapInv /\ CallInv /\ MapInv /\ HeldInv /\ OwnerInv /\ FreshInv /\ ProgressInv

-----------------------------------------------------------------------------
(* Operators.                                                              *)

LEMMA Nones ==
  /\ Free.gen = 0 /\ Free.dir = None /\ Free.pos = 0 /\ Free \in DIR
  /\ NoCall \in Call /\ NoCall.op = "none" /\ NoCall.ptr = None /\ NoCall.gen = 0
  /\ None \notin Ptrs /\ None \notin Dirs /\ 0 \in Gens /\ Gens \subseteq Nat
BY DirMapAssumption DEF Free, DIR, NoCall, Call, Gens

(* The fields of calls, objects, entries and handles.                      *)
LEMMA FieldTypes ==
  ASSUME TypeOK
  PROVE  /\ \A t \in Threads : /\ call[t].op \in {"none", "opendir", "readdir", "closedir"}
                               /\ call[t].ptr \in Ptrs \cup {None}
                               /\ call[t].gen \in Gens /\ call[t].dir \in Dirs \cup {None}
         /\ \A p \in Ptrs : /\ heap[p].dir \in Dirs \cup {None} /\ heap[p].gen \in Gens
                            /\ heap[p].pos \in Nat
         /\ \A e \in dir_map : /\ e.key \in Ptrs /\ e.gen \in Gens /\ e.list \in Seq(Names)
                               /\ e.current \in Nat /\ e.is_real_dir \in BOOLEAN
                               /\ e.reached_end \in BOOLEAN
         /\ \A h \in held : h.ptr \in Ptrs /\ h.gen \in Gens /\ h.dir \in Dirs
         /\ opens \in Nat /\ opens \in Gens
<1>1. \A t \in Threads : call[t] \in Call
  BY DEF TypeOK
<1>2. \A p \in Ptrs : heap[p] \in DIR
  BY DEF TypeOK
<1>3. \A e \in dir_map : e \in Entry
  BY DEF TypeOK
<1>4. \A h \in held : h \in Stream
  BY DEF TypeOK
<1>5. opens \in Nat /\ opens \in Gens
  BY DirMapAssumption DEF TypeOK, Gens
<1>6. \A e \in dir_map : e.is_real_dir \in BOOLEAN /\ e.reached_end \in BOOLEAN
  BY <1>3, Zenon DEF Entry
<1>7. \A e \in dir_map : e.key \in Ptrs /\ e.gen \in Gens /\ e.list \in Seq(Names) /\ e.current \in Nat
  BY <1>3 DEF Entry
<1> QED  BY <1>1, <1>2, <1>4, <1>5, <1>6, <1>7 DEF Call, DIR, Stream

LEMMA RealNamesType ==
  ASSUME TypeOK, HeapInv, NEW p \in Ptrs PROVE RealNames(heap[p]) \in Seq(Names)
BY DirMapAssumption, Nones DEF HeapInv, RealNames, Free

(* One more element.                                                       *)
LEMMA FollowsAppend ==
  ASSUME NEW s \in Seq(Names), NEW r \in Seq(Names), NEW l \in Seq(Names), NEW n \in Nat,
         Follows(s, r, l, n), n < Len(r) + Len(l),
         NEW x \in Names, x = IF n + 1 <= Len(r) THEN r[n + 1] ELSE l[n + 1 - Len(r)]
  PROVE  Follows(Append(s, x), r, l, n + 1)
<1>1. Len(s) = n /\ Len(r) \in Nat /\ Len(l) \in Nat
  BY DEF Follows
<1>2. Len(Append(s, x)) = n + 1 /\ Append(s, x)[n + 1] = x
  BY <1>1
<1>3. \A i \in 1 .. n : Append(s, x)[i] = s[i]
  BY <1>1
<1>4. ASSUME NEW i \in 1 .. n + 1
      PROVE  Append(s, x)[i] = IF i <= Len(r) THEN r[i] ELSE l[i - Len(r)]
  <2>1. CASE i = n + 1
    BY <1>1, <1>2, <2>1
  <2>2. CASE i # n + 1
    <3>1. i \in 1 .. n
      BY <2>2
    <3> QED  BY <1>3, <3>1 DEF Follows
  <2> QED  BY <2>1, <2>2
<1> QED  BY <1>1, <1>2, <1>4 DEF Follows

LEMMA FollowsNothing ==
  ASSUME NEW r \in Seq(Names), NEW l \in Seq(Names) PROVE Follows(<<>>, r, l, 0)
BY DEF Follows

(* What Follows says of the concatenation.                                 *)
LEMMA FollowsIs ==
  ASSUME NEW s \in Seq(Names), NEW r \in Seq(Names), NEW l \in Seq(Names), NEW n \in Nat,
         Follows(s, r, l, n)
  PROVE  /\ Len(s) <= Len(r \o l) /\ s = SubSeq(r \o l, 1, Len(s))
         /\ n = Len(r) + Len(l) => s = r \o l
<1>1. /\ r \o l \in Seq(Names) /\ Len(r \o l) = Len(r) + Len(l)
      /\ \A i \in 1 .. Len(r) + Len(l) : (r \o l)[i] = IF i <= Len(r) THEN r[i] ELSE l[i - Len(r)]
  BY ConcatProperties
<1>2. Len(s) = n /\ n <= Len(r) + Len(l) /\ Len(r) \in Nat /\ Len(l) \in Nat
  BY DEF Follows
<1>3. \A i \in 1 .. n : s[i] = (r \o l)[i]
  BY <1>1, <1>2 DEF Follows
<1> DEFINE c == r \o l
<1> HIDE DEF c
<1>4. c \in Seq(Names) /\ n <= Len(c) /\ \A i \in 1 .. n : s[i] = c[i]
  BY <1>1, <1>2, <1>3 DEF c
<1>5. SubSeq(c, 1, n) \in Seq(Names) /\ Len(SubSeq(c, 1, n)) = n
      /\ \A i \in 1 .. n : SubSeq(c, 1, n)[i] = c[i]
  BY <1>2, <1>4
<1>6. s = SubSeq(c, 1, n)
  BY <1>2, <1>4, <1>5, SeqEqual
<1>7. n = Len(c) => s = c
  BY <1>2, <1>4, SeqEqual
<1> QED  BY <1>1, <1>2, <1>6, <1>7 DEF c

-----------------------------------------------------------------------------
(* What a step leaves alone.                                               *)

(* Another thread, by a step of t: t frees at most the object it alone is  *)
(* on; streams appear for that object or a new one, and disappear when no  *)
(* call is on them; entries appear for that object or a new one.           *)
LEMMA OthersKept ==
  ASSUME TypeOK, HeapInv, CallInv, MapInv, HeldInv, NEW t \in Threads, NEW u \in Threads, u # t,
         pc'[u] = pc[u], call'[u] = call[u], \A w \in Threads : w # t => call'[w] = call[w],
         \A p \in Ptrs : \/ heap'[p] = heap[p]
                         \/ /\ heap'[p].gen = heap[p].gen /\ heap'[p].dir = heap[p].dir
                            /\ \E h \in held : h.ptr = p
                         \/ heap[p] = Free
                         \/ Sole(t) /\ p = call[t].ptr,
         \A h \in held : h \in held' \/ \A w \in Threads : call[w].gen # h.gen,
         \A h \in held' : h \in held \/ h.gen = opens + 1 \/ (Sole(t) /\ h.gen = call[t].gen),
         \/ call'[t].gen \in {0, call[t].gen, opens + 1}
         \/ \E h \in held : h.gen = call'[t].gen,
         \A e \in dir_map' : \/ \E f \in dir_map : f.key = e.key
                             \/ e.key \in Ptrs /\ heap[e.key] = Free
                             \/ Sole(t) /\ e.key = call[t].ptr
  PROVE  ThreadOK(u)'
<1>1. ThreadOK(u) /\ ThreadOK(t)
  BY DEF CallInv
<1>2. ASSUME call[u].ptr # None
      PROVE  /\ heap[call[u].ptr] # Free /\ call[u].gen # 0 /\ call[u].gen <= opens
             /\ ~(Sole(t) /\ call[u].ptr = call[t].ptr)
             /\ heap'[call[u].ptr].gen = heap[call[u].ptr].gen
             /\ heap'[call[u].ptr].dir = heap[call[u].ptr].dir
  <2>1. call[u].ptr \in Ptrs /\ call[u].gen # 0 /\ heap[call[u].ptr].gen = call[u].gen
    BY <1>1, <1>2 DEF ThreadOK, Lives
  <2>2. heap[call[u].ptr] # Free /\ call[u].gen <= opens
    BY <2>1, Nones DEF HeapInv
  <2>3. ASSUME Sole(t), call[u].ptr = call[t].ptr PROVE FALSE
    <3>1. call[t].gen = call[u].gen
      BY <1>1, <1>2, <2>1, <2>3 DEF ThreadOK, Lives
    <3> QED  BY <1>1, <2>3, <3>1 DEF ThreadOK
  <2> QED  BY <2>1, <2>2, <2>3
<1>3. call[u].ptr # None => Lives(call[u].ptr, call[u].gen)'
  BY <1>1, <1>2 DEF ThreadOK, Lives
<1>4. ASSUME pc[u] = "open_image", call[u].ptr # None
      PROVE  heap'[call[u].ptr].dir # None /\ heap'[call[u].ptr].pos = 0
  <2>1. call[u].ptr \in Ptrs /\ \A h \in held : h.ptr # call[u].ptr
    BY <1>1, <1>4 DEF ThreadOK, Sole, Lives, HeldInv
  <2>2. heap'[call[u].ptr] = heap[call[u].ptr]
    BY <1>2, <1>4, <2>1
  <2> QED  BY <1>1, <1>4, <2>2 DEF ThreadOK
<1>5. call[u].op = "readdir" => \E h \in held' : h.ptr = call[u].ptr /\ h.gen = call[u].gen
  BY <1>1 DEF ThreadOK
<1>6. ASSUME Sole(u)
      PROVE  /\ \A h \in held' : h.gen # call[u].gen
             /\ \A w \in Threads : w # u => call'[w].gen # call[u].gen
  <2>1. /\ \A h \in held : h.gen # call[u].gen
        /\ \A w \in Threads : w # u => call[w].gen # call[u].gen
        /\ call[u].ptr # None
    BY <1>1, <1>6 DEF ThreadOK, Sole
  <2>2. call[u].gen # 0 /\ call[u].gen # opens + 1
    BY <1>2, <2>1, FieldTypes, Nones
  <2>3. \A h \in held' : h.gen # call[u].gen
    BY <2>1, <2>2
  <2>4. call'[t].gen # call[u].gen
    BY <2>1, <2>2
  <2> QED  BY <2>1, <2>3, <2>4
<1>7. \A e \in dir_map' : e.key = call[u].ptr => pc[u] = "find"
  <2> SUFFICES ASSUME NEW e \in dir_map', e.key = call[u].ptr PROVE pc[u] = "find"
    OBVIOUS
  <2>1. CASE \E f \in dir_map : f.key = e.key
    BY <1>1, <2>1 DEF ThreadOK
  <2>2. CASE (e.key \in Ptrs /\ heap[e.key] = Free) \/ (Sole(t) /\ e.key = call[t].ptr)
    <3>1. call[u].ptr # None
      BY <2>2, Nones DEF Sole
    <3> QED  BY <1>2, <2>2, <3>1
  <2> QED  BY <2>1, <2>2
<1>8. Sole(u)' <=> Sole(u)
  BY DEF Sole
<1> QED  BY <1>1, <1>3, <1>4, <1>5, <1>6, <1>7, <1>8 DEF ThreadOK

(* A stream that the step does not touch.                                  *)
LEMMA StreamKept ==
  ASSUME NEW h, h \in held, Progress(h), heap'[h.ptr] = heap[h.ptr], got'[h.gen] = got[h.gen],
         h.gen \in eof' <=> h.gen \in eof,
         \A e : e.key = h.ptr => (e \in dir_map' <=> e \in dir_map)
  PROVE  Progress(h)'
BY DEF Progress

(* Two streams are on two objects.                                         *)
LEMMA StreamsApart ==
  ASSUME TypeOK, HeapInv, HeldInv, NEW h \in held, NEW k \in held, h # k
  PROVE  h.ptr # k.ptr /\ h.gen # k.gen
BY DEF HeldInv, Lives

(* Where a step takes its thread.                                          *)
LEMMA Gone ==
  ASSUME TypeOK, NEW t \in Threads, NEW label \in PCs, Goto(t, label)
  PROVE  /\ pc' \in [Threads -> PCs] /\ pc'[t] = label
         /\ \A u \in Threads : u # t => pc'[u] = pc[u]
BY DEF TypeOK, Goto

LEMMA Called ==
  ASSUME TypeOK, NEW t \in Threads, NEW c \in Call, call' = [call EXCEPT ![t] = c]
  PROVE  /\ call' \in [Threads -> Call] /\ call'[t] = c
         /\ \A u \in Threads : u # t => call'[u] = call[u]
BY DEF TypeOK

LEMMA Returned ==
  ASSUME TypeOK, NEW t \in Threads, Return(t)
  PROVE  /\ pc' \in [Threads -> PCs] /\ call' \in [Threads -> Call]
         /\ call'[t] = NoCall /\ ~Sole(t)'
         /\ \A u \in Threads : u # t => pc'[u] = pc[u] /\ call'[u] = call[u]
         /\ dir_map' \subseteq Entry => ThreadOK(t)'
<1>1. /\ pc' \in [Threads -> PCs] /\ pc'[t] = "app"
      /\ \A u \in Threads : u # t => pc'[u] = pc[u]
  BY Gone DEF Return, PCs
<1>2. /\ call' \in [Threads -> Call] /\ call'[t] = NoCall
      /\ \A u \in Threads : u # t => call'[u] = call[u]
  BY Called, Nones DEF Return
<1>3. ~Sole(t)'
  BY <1>2, Nones DEF Sole
<1>4. dir_map' \subseteq Entry => ThreadOK(t)'
  <2>1. dir_map' \subseteq Entry => \A e \in dir_map' : e.key # None
    BY Nones DEF Entry
  <2> QED  BY <1>1, <1>2, <1>3, <2>1, Nones DEF ThreadOK
<1> QED  BY <1>1, <1>2, <1>3, <1>4

(* A step that only its thread sees.                                       *)
LEMMA Quiet ==
  ASSUME IInv, NEW t \in Threads, pc' \in [Threads -> PCs], call' \in [Threads -> Call],
         \A u \in Threads : u # t => pc'[u] = pc[u] /\ call'[u] = call[u],
         UNCHANGED <<dir_map, heap, opens, held, got, eof>>,
         call'[t].gen \in {0, call[t].gen} \/ \E h \in held : h.gen = call'[t].gen,
         Sole(t) => Sole(t)' /\ call'[t].ptr = call[t].ptr,
         ThreadOK(t)'
  PROVE  IInv'
<1>1. TypeOK'
  BY DEF IInv, TypeOK
<1>2. HeapInv' /\ MapInv' /\ HeldInv' /\ FreshInv'
  BY DEF IInv, HeapInv, MapInv, EntryOK, Lives, HeldInv, FreshInv
<1>3. ASSUME NEW u \in Threads, u # t PROVE ThreadOK(u)'
  BY <1>3, OthersKept DEF IInv
<1>4. CallInv'
  BY <1>3 DEF CallInv
<1>5. OwnerInv'
  <2>1. \A u \in Threads : Sole(u) => Sole(u)' /\ call'[u].ptr = call[u].ptr
    BY DEF Sole
  <2> QED  BY <2>1 DEF IInv, OwnerInv
<1>6. ProgressInv'
  BY DEF IInv, ProgressInv, Progress
<1> QED  BY <1>1, <1>2, <1>4, <1>5, <1>6 DEF IInv

LEMMA QuietReturn ==
  ASSUME IInv, NEW t \in Threads, Return(t), ~Sole(t),
         UNCHANGED <<dir_map, heap, opens, held, got, eof>>
  PROVE  IInv'
<1>1. dir_map' \subseteq Entry
  BY DEF IInv, TypeOK
<1>2. /\ pc' \in [Threads -> PCs] /\ call' \in [Threads -> Call] /\ call'[t].gen = 0
      /\ \A u \in Threads : u # t => pc'[u] = pc[u] /\ call'[u] = call[u]
      /\ ThreadOK(t)'
  BY <1>1, Returned, Nones DEF IInv
<1> QED  BY <1>2, Quiet

LEMMA QuietGoto ==
  ASSUME IInv, NEW t \in Threads, NEW label \in PCs, Goto(t, label),
         UNCHANGED <<call, dir_map, heap, opens, held, got, eof>>, ThreadOK(t)'
  PROVE  IInv'
<1>1. /\ pc' \in [Threads -> PCs] /\ \A u \in Threads : u # t => pc'[u] = pc[u]
  BY Gone DEF IInv
<1>2. call' \in [Threads -> Call] /\ call'[t].gen = call[t].gen /\ (Sole(t) => Sole(t)')
  BY DEF IInv, TypeOK, Sole
<1> QED  BY <1>1, <1>2, Quiet

LEMMA CallOpendir ==
  ASSUME IInv, NEW t \in Threads, NEW d \in Dirs, call_opendir(t, d) PROVE IInv'
<1> DEFINE c == [op |-> "opendir", ptr |-> None, gen |-> 0, dir |-> d]
<1>1. c \in Call
  BY Nones DEF Call
<1>2. c.op = "opendir" /\ c.ptr = None /\ c.gen = 0 /\ c.dir = d
  OBVIOUS
<1>3. /\ call' = [call EXCEPT ![t] = c] /\ Goto(t, "open_real") /\ pc[t] = "app"
      /\ UNCHANGED <<dir_map, heap, opens, held, got, eof>>
  BY DEF call_opendir
<1> HIDE DEF c
<1>4. /\ pc' \in [Threads -> PCs] /\ pc'[t] = "open_real"
      /\ \A u \in Threads : u # t => pc'[u] = pc[u]
  BY <1>3, Gone DEF IInv, PCs
<1>5. /\ call' \in [Threads -> Call] /\ call'[t] = c
      /\ \A u \in Threads : u # t => call'[u] = call[u]
  BY <1>1, <1>3, Called DEF IInv
<1>6. ThreadOK(t)'
  BY <1>2, <1>3, <1>4, <1>5, FieldTypes, Nones DEF IInv, ThreadOK, Sole
<1>7. ~Sole(t)
  BY <1>3 DEF IInv, CallInv, ThreadOK, Sole
<1> QED  BY <1>2, <1>3, <1>4, <1>5, <1>6, <1>7, Quiet

LEMMA CallReaddir ==
  ASSUME IInv, NEW t \in Threads, NEW h \in held, call_readdir(t, h) PROVE IInv'
<1> DEFINE c == [op |-> "readdir", ptr |-> h.ptr, gen |-> h.gen, dir |-> h.dir]
<1>1. c \in Call
  BY FieldTypes DEF Call, IInv
<1>2. c.op = "readdir" /\ c.ptr = h.ptr /\ c.gen = h.gen
  OBVIOUS
<1>3. /\ call' = [call EXCEPT ![t] = c] /\ Goto(t, "find") /\ pc[t] = "app"
      /\ UNCHANGED <<dir_map, heap, opens, held, got, eof>>
  BY DEF call_readdir, Use
<1> HIDE DEF c
<1>4. /\ pc' \in [Threads -> PCs] /\ pc'[t] = "find"
      /\ \A u \in Threads : u # t => pc'[u] = pc[u]
  BY <1>3, Gone DEF IInv, PCs
<1>5. /\ call' \in [Threads -> Call] /\ call'[t] = c
      /\ \A u \in Threads : u # t => call'[u] = call[u]
  BY <1>1, <1>3, Called DEF IInv
<1>6. ThreadOK(t)'
  BY <1>2, <1>3, <1>4, <1>5, FieldTypes, Nones DEF IInv, ThreadOK, Sole, HeldInv, Lives
<1>7. ~Sole(t)
  BY <1>3 DEF IInv, CallInv, ThreadOK, Sole
<1> QED  BY <1>2, <1>3, <1>4, <1>5, <1>6, <1>7, Quiet

LEMMA RealFails ==
  ASSUME IInv, NEW t \in Threads, opendir_real_fails(t) PROVE IInv'
<1>1. /\ pc[t] = "open_real" /\ Goto(t, "open_image") /\ "open_image" \in PCs
      /\ UNCHANGED <<call, dir_map, heap, opens, held, got, eof>>
  BY DEF opendir_real_fails, PCs
<1>2. pc'[t] = "open_image" /\ ThreadOK(t)
  BY <1>1, Gone DEF IInv, CallInv
<1>3. ThreadOK(t)'
  BY <1>1, <1>2, FieldTypes, Nones DEF IInv, ThreadOK, Sole
<1> QED  BY <1>1, <1>3, QuietGoto

LEMMA FindMiss ==
  ASSUME IInv, NEW t \in Threads, find_miss(t) PROVE IInv'
<1>1. /\ pc[t] = "find" /\ Goto(t, "real") /\ "real" \in PCs
      /\ \A e \in dir_map : e.key # call[t].ptr
      /\ UNCHANGED <<call, dir_map, heap, opens, held, got, eof>>
  BY DEF find_miss, PCs, HASH_FIND_PTR
<1>2. pc'[t] = "real" /\ ThreadOK(t)
  BY <1>1, Gone DEF IInv, CallInv
<1>3. ThreadOK(t)'
  BY <1>1, <1>2 DEF ThreadOK, Sole, Lives
<1> QED  BY <1>1, <1>3, QuietGoto

LEMMA GivesUp ==
  ASSUME IInv, NEW t \in Threads, pc[t] = "open_image", NEW e, opendir_gives_up(t, e)
  PROVE  IInv'
<1>1. UNCHANGED <<dir_map, heap, opens, held, got, eof>>
  BY DEF opendir_gives_up
<1>2. CASE call[t].ptr = None
  BY <1>1, <1>2, QuietReturn DEF opendir_gives_up, Sole
<1>3. CASE call[t].ptr # None
  <2>1. Goto(t, "open_undo") /\ call' = call /\ "open_undo" \in PCs
    BY <1>3 DEF opendir_gives_up, PCs
  <2>2. pc'[t] = "open_undo" /\ ThreadOK(t)
    BY <2>1, Gone DEF IInv, CallInv
  <2>3. ThreadOK(t)'
    BY <1>1, <1>3, <2>1, <2>2 DEF ThreadOK, Sole, Lives
  <2> QED  BY <1>1, <2>1, <2>3, QuietGoto
<1> QED  BY <1>2, <1>3

LEMMA OpendirFails ==
  ASSUME IInv, NEW t \in Threads,
         opendir_nowhere(t) \/ opendir_not_dir(t) \/ opendir_error(t)
  PROVE  IInv'
BY GivesUp, QuietReturn DEF opendir_nowhere, opendir_not_dir, opendir_error, Sole

-----------------------------------------------------------------------------
(* A new object, at an address and with a life that nobody knows.          *)
LEMMA New ==
  ASSUME IInv, NEW p \in Ptrs, NEW dir \in RealDirs \cup {None}, NewDIR(p, dir)
  PROVE  /\ heap' \in [Ptrs -> DIR] /\ opens' = opens + 1 /\ opens' \in Gens /\ opens + 1 # 0
         /\ heap[p] = Free /\ heap'[p].gen = opens + 1 /\ heap'[p].dir = dir /\ heap'[p].pos = 0
         /\ \A q \in Ptrs : q # p => heap'[q] = heap[q]
         /\ HeapInv'
         /\ \A h \in held : h.ptr # p /\ h.gen # opens + 1
         /\ \A e \in dir_map : e.key # p
         /\ \A u \in Threads : call[u].ptr # p /\ call[u].gen # opens + 1
<1>1. opens \in Nat /\ opens + 1 \in Gens /\ opens' = opens + 1 /\ heap[p] = Free
  BY FieldTypes, DirMapAssumption DEF NewDIR, IInv, Gens
<1> DEFINE n == [dir |-> dir, gen |-> opens + 1, pos |-> 0]
<1>2. n \in DIR /\ n.gen = opens + 1 /\ n.dir = dir /\ n.pos = 0
  BY <1>1, DirMapAssumption DEF DIR
<1>3. heap' = [heap EXCEPT ![p] = n]
  BY DEF NewDIR
<1> HIDE DEF n
<1>4. /\ heap' \in [Ptrs -> DIR] /\ heap'[p] = n
      /\ \A q \in Ptrs : q # p => heap'[q] = heap[q]
  BY <1>2, <1>3 DEF IInv, TypeOK
<1>5. \A q \in Ptrs : heap[q].gen <= opens /\ heap[q].gen \in Nat
  BY <1>1, Nones, FieldTypes DEF IInv, HeapInv
<1>6. RealNames(n) \in Seq(Names)
  BY <1>2, DirMapAssumption, Nones DEF RealNames
<1>7. HeapInv'
  <2>1. ASSUME NEW q \in Ptrs, heap'[q] # Free
        PROVE  /\ heap'[q].gen \in 1 .. opens' /\ heap'[q].dir \in RealDirs \cup {None}
               /\ heap'[q].pos <= Len(RealNames(heap'[q]))
    <3>1. CASE q = p
      BY <1>1, <1>2, <1>4, <1>6, <3>1
    <3>2. CASE q # p
      BY <1>1, <1>4, <2>1, <3>2 DEF IInv, HeapInv
    <3> QED  BY <3>1, <3>2
  <2>2. ASSUME NEW q \in Ptrs, NEW r \in Ptrs, heap'[q].gen # 0, heap'[q].gen = heap'[r].gen
        PROVE  q = r
    BY <1>1, <1>2, <1>4, <1>5, <2>2 DEF IInv, HeapInv
  <2> QED  BY <2>1, <2>2 DEF HeapInv
<1>8. /\ \A h \in held : h.ptr # p /\ h.gen # opens + 1
      /\ \A e \in dir_map : e.key # p
  BY <1>1, <1>5, Nones DEF IInv, HeldInv, MapInv, EntryOK, Lives
<1>9. \A u \in Threads : call[u].ptr # p /\ call[u].gen # opens + 1
  BY <1>1, <1>5, Nones DEF IInv, CallInv, ThreadOK, Lives
<1> QED  BY <1>1, <1>2, <1>4, <1>7, <1>8, <1>9

(* It belongs to the thread.                                               *)
LEMMA NewOwned ==
  ASSUME IInv, NEW t \in Threads, NEW p \in Ptrs, NEW dir \in RealDirs \cup {None},
         call[t].ptr = None, call[t].dir \in Dirs, NewDIR(p, dir),
         call' = [call EXCEPT ![t] = [op |-> "opendir", ptr |-> p, gen |-> opens + 1,
                                      dir |-> call[t].dir]],
         NEW label \in {"open_image", "open_undo"}, Goto(t, label),
         label = "open_image" => dir # None,
         UNCHANGED <<dir_map, held, got, eof>>
  PROVE  IInv'
<1> DEFINE c == [op |-> "opendir", ptr |-> p, gen |-> opens + 1, dir |-> call[t].dir]
<1>1. /\ heap' \in [Ptrs -> DIR] /\ opens' = opens + 1 /\ opens' \in Gens /\ opens + 1 # 0
      /\ heap[p] = Free /\ heap'[p].gen = opens + 1 /\ heap'[p].dir = dir /\ heap'[p].pos = 0
      /\ \A q \in Ptrs : q # p => heap'[q] = heap[q]
      /\ HeapInv'
      /\ \A h \in held : h.ptr # p /\ h.gen # opens + 1
      /\ \A e \in dir_map : e.key # p
      /\ \A u \in Threads : call[u].ptr # p /\ call[u].gen # opens + 1
  BY New
<1>2. c \in Call /\ c.op = "opendir" /\ c.ptr = p /\ c.gen = opens + 1 /\ c.dir = call[t].dir
  BY <1>1 DEF Call
<1>3. call' = [call EXCEPT ![t] = c]
  OBVIOUS
<1> HIDE DEF c
<1>4. /\ call' \in [Threads -> Call] /\ call'[t] = c
      /\ \A u \in Threads : u # t => call'[u] = call[u]
  BY <1>2, <1>3, Called DEF IInv
<1>5. /\ pc' \in [Threads -> PCs] /\ pc'[t] = label
      /\ \A u \in Threads : u # t => pc'[u] = pc[u]
  BY Gone DEF IInv, PCs
<1>6. TypeOK'
  BY <1>1, <1>4, <1>5 DEF IInv, TypeOK
<1>7. ASSUME NEW u \in Threads, u # t PROVE ThreadOK(u)'
  <2>1. call'[t].gen = opens + 1
    BY <1>2, <1>4
  <2> QED  BY <1>1, <1>4, <1>5, <1>7, <2>1, OthersKept DEF IInv
<1>8. ThreadOK(t)'
  BY <1>1, <1>2, <1>4, <1>5, Nones DEF ThreadOK, Sole, Lives
<1>9. CallInv'
  BY <1>7, <1>8 DEF CallInv
<1>10. MapInv' /\ HeldInv'
  BY <1>1, FieldTypes DEF IInv, MapInv, EntryOK, Lives, HeldInv
<1>11. FreshInv'
  BY DEF IInv, FreshInv
<1>12. OwnerInv'
  <2>1. Sole(t)' /\ call'[t].ptr = p
    BY <1>2, <1>4, Nones DEF Sole
  <2>2. \A u \in Threads : Sole(u) => Sole(u)' /\ call'[u].ptr = call[u].ptr
    BY <1>4 DEF Sole
  <2> QED  BY <1>1, <2>1, <2>2 DEF IInv, OwnerInv
<1>13. ProgressInv'
  <2> SUFFICES ASSUME NEW h \in held PROVE Progress(h)'
    BY DEF ProgressInv
  <2>1. heap'[h.ptr] = heap[h.ptr] /\ Progress(h)
    BY <1>1, FieldTypes DEF IInv, ProgressInv
  <2> QED  BY <2>1, StreamKept
<1> QED  BY <1>1, <1>6, <1>9, <1>10, <1>11, <1>12, <1>13 DEF IInv

LEMMA OpendirReal ==
  ASSUME IInv, NEW t \in Threads, NEW p \in Ptrs, opendir_real(t, p) PROVE IInv'
<1>1. call[t].ptr = None
  BY DEF opendir_real, IInv, CallInv, ThreadOK
<1>2. call[t].dir \in RealDirs /\ call[t].dir \in Dirs /\ call[t].dir # None
  BY DirMapAssumption DEF opendir_real
<1> QED  BY <1>1, <1>2, NewOwned DEF opendir_real

LEMMA MallocFails ==
  ASSUME IInv, NEW t \in Threads, NEW p \in Ptrs, opendir_malloc_fails(t, p) PROVE IInv'
BY NewOwned, DirMapAssumption DEF opendir_malloc_fails

-----------------------------------------------------------------------------
(* The application gets a stream: on the object its thread alone is on, or *)
(* on a new one; with an entry of dir_map or without.                      *)
FreshEntry(e, p, g) ==
  e \in Entry /\ e.key = p /\ e.gen = g /\ e.current = 0 /\ e.reached_end = FALSE

LEMMA HandOver ==
  ASSUME IInv, NEW t \in Threads, NEW p \in Ptrs, NEW g \in Gens, NEW d \in Dirs, NEW E,
         held' = held \cup {[ptr |-> p, gen |-> g, dir |-> d]},
         dir_map' = dir_map \cup E,
         \A e \in E : FreshEntry(e, p, g) /\ (e.is_real_dir <=> heap'[p].dir # None),
         \A e, f \in E : e = f,
         \A e \in dir_map : e.key # p,
         \A h \in held : h.ptr # p /\ h.gen # g,
         Return(t), UNCHANGED <<got, eof>>,
         heap' \in [Ptrs -> DIR], HeapInv', opens' \in Gens,
         g # 0, heap'[p].gen = g, heap'[p].pos = 0,
         \A q \in Ptrs : q # p => heap'[q] = heap[q],
         \/ heap[p] = Free /\ g = opens + 1 /\ ~Sole(t)
         \/ heap' = heap /\ Sole(t) /\ p = call[t].ptr /\ g = call[t].gen
  PROVE  IInv'
<1> DEFINE n == [ptr |-> p, gen |-> g, dir |-> d]
<1>1. n \in Stream /\ n.ptr = p /\ n.gen = g
  BY DEF Stream
<1>2. held' = held \cup {n}
  OBVIOUS
<1> HIDE DEF n
<1>3. /\ pc' \in [Threads -> PCs] /\ call' \in [Threads -> Call]
      /\ call'[t] = NoCall /\ ~Sole(t)'
      /\ \A u \in Threads : u # t => pc'[u] = pc[u] /\ call'[u] = call[u]
      /\ dir_map' \subseteq Entry => ThreadOK(t)'
  BY Returned DEF IInv
<1>4. \A e \in E : e \in Entry /\ e.key = p /\ e.gen = g /\ e.current = 0 /\ ~e.reached_end
  BY DEF FreshEntry
<1>5. \A e \in E : e.list \in Seq(Names)
  BY <1>4 DEF Entry
<1>6. TypeOK'
  <2>1. \A e \in E : e.current <= Len(e.list)
    BY <1>4, <1>5
  <2> QED  BY <1>1, <1>2, <1>3, <1>4, <2>1 DEF IInv, TypeOK
<1>7. ASSUME NEW u \in Threads, u # t PROVE ThreadOK(u)'
  <2>1. call'[t].gen = 0
    BY <1>3, Nones
  <2>2. \A e \in dir_map' : e \in dir_map \/ e.key = p
    BY <1>4
  <2>3. \A e \in dir_map' : \/ \E f \in dir_map : f.key = e.key
                            \/ e.key \in Ptrs /\ heap[e.key] = Free
                            \/ Sole(t) /\ e.key = call[t].ptr
    BY <2>2
  <2>4. \A h \in held' : h \in held \/ h.gen = opens + 1 \/ (Sole(t) /\ h.gen = call[t].gen)
    BY <1>1, <1>2
  <2>5. \A q \in Ptrs : heap'[q] = heap[q] \/ heap[q] = Free
    OBVIOUS
  <2>6. \A h \in held : h \in held'
    OBVIOUS
  <2>7. TypeOK /\ HeapInv /\ CallInv /\ MapInv /\ HeldInv
    BY DEF IInv
  <2> QED  BY <1>3, <1>7, <2>1, <2>3, <2>4, <2>5, <2>6, <2>7, OthersKept
<1>8. CallInv'
  BY <1>3, <1>6, <1>7 DEF CallInv, TypeOK
<1>9. MapInv'
  <2>1. ASSUME NEW e \in dir_map PROVE EntryOK(e)'
    BY FieldTypes DEF IInv, MapInv, EntryOK, Lives
  <2>2. ASSUME NEW e \in E PROVE EntryOK(e)'
    <3>1. 0 <= Len(e.list)
      BY <1>5
    <3> QED  BY <1>4, <3>1 DEF EntryOK, Lives
  <2>3. \A e, f \in dir_map' : e.key = f.key => e = f
    BY <1>4 DEF IInv, MapInv
  <2> QED  BY <2>1, <2>2, <2>3 DEF MapInv
<1>10. HeldInv'
  BY <1>1, <1>2, FieldTypes DEF IInv, HeldInv, Lives
<1>11. FreshInv'
  BY <1>2 DEF IInv, FreshInv
<1>12. OwnerInv'
  <2>1. \A u \in Threads : u # t /\ Sole(u) => Sole(u)' /\ call'[u].ptr = call[u].ptr
    BY <1>3 DEF Sole
  <2>2. ASSUME NEW q \in Ptrs, heap'[q] # Free, q # p
        PROVE  (\E h \in held' : h.ptr = q) \/ \E u \in Threads : Sole(u)' /\ call'[u].ptr = q
    <3>1. heap[q] # Free
      BY <2>2
    <3>2. CASE \E h \in held : h.ptr = q
      BY <1>2, <3>2
    <3>3. CASE \E u \in Threads : Sole(u) /\ call[u].ptr = q
      <4>1. PICK u \in Threads : Sole(u) /\ call[u].ptr = q
        BY <3>3
      <4>2. u # t
        BY <2>2, <4>1
      <4> QED  BY <2>1, <4>1, <4>2
    <3> QED  BY <3>1, <3>2, <3>3 DEF IInv, OwnerInv
  <2>3. n \in held' /\ n.ptr = p
    BY <1>1, <1>2
  <2> QED  BY <2>2, <2>3 DEF OwnerInv
<1>13. ProgressInv'
  <2>1. ASSUME NEW h \in held PROVE Progress(h)'
    <3>1. h.ptr \in Ptrs /\ h.ptr # p /\ Progress(h)
      BY FieldTypes DEF IInv, ProgressInv
    <3>2. \A e : e.key = h.ptr => (e \in dir_map' <=> e \in dir_map)
      BY <1>4, <3>1
    <3>3. heap'[h.ptr] = heap[h.ptr]
      BY <3>1
    <3> QED  BY <3>1, <3>2, <3>3, StreamKept
  <2>2. Progress(n)'
    <3>1. got'[g] = <<>> /\ g \notin eof'
      BY DEF IInv, FreshInv
    <3>2. RealNames(heap'[p]) \in Seq(Names)
      <4>1. heap'[p].dir \in RealDirs \cup {None}
        BY Nones DEF HeapInv
      <4> QED  BY <4>1, DirMapAssumption, Nones DEF RealNames
    <3>3. \A e \in dir_map' : e.key = p =>
            e \in E /\ Delivered(e) = 0 /\ Follows(<<>>, RealNames(heap'[p]), e.list, 0)
      BY <1>4, <1>5, <3>2, FollowsNothing DEF Delivered, Node
    <3>4. Follows(<<>>, RealNames(heap'[p]), <<>>, 0)
      BY <3>2, FollowsNothing, EmptySeq
    <3> QED  BY <1>1, <3>1, <3>3, <3>4 DEF Progress
  <2> QED  BY <1>2, <2>1, <2>2 DEF ProgressInv
<1> QED  BY <1>6, <1>8, <1>9, <1>10, <1>11, <1>12, <1>13 DEF IInv

(* enumerate_dir gives a list of names.                                    *)
LEMMA NewEntry ==
  ASSUME TypeOK, NEW t \in Threads, call[t].dir \in Dirs, NEW p \in Ptrs, NEW g \in Gens,
         NEW real \in BOOLEAN, AddEntry(t, p, g, real)
  PROVE  \E e : dir_map' = dir_map \cup {e} /\ FreshEntry(e, p, g) /\ e.is_real_dir = real
<1>1. PICK list \in enumerate_dir(call[t].dir) :
        dir_map' = dir_map \cup
          {[key |-> p, gen |-> g, is_real_dir |-> real, list |-> list,
            current |-> 0, reached_end |-> FALSE]}
  BY DEF AddEntry
<1>2. list \in Seq(Names)
  <2>1. ImageList[call[t].dir] \in Seq(Names)
    BY DirMapAssumption
  <2>2. <<>> \in Seq(Names)
    BY EmptySeq
  <2> QED  BY <2>1, <2>2 DEF enumerate_dir
<1> DEFINE e == [key |-> p, gen |-> g, is_real_dir |-> real, list |-> list,
                 current |-> 0, reached_end |-> FALSE]
<1>3. e \in Entry
  BY <1>2 DEF Entry
<1>4. e.key = p /\ e.gen = g /\ e.current = 0 /\ e.reached_end = FALSE /\ e.is_real_dir = real
  OBVIOUS
<1>5. dir_map' = dir_map \cup {e}
  BY <1>1
<1> HIDE DEF e
<1>6. FreshEntry(e, p, g)
  BY <1>3, <1>4 DEF FreshEntry
<1> QED  BY <1>4, <1>5, <1>6

LEMMA OpendirUpper ==
  ASSUME IInv, NEW t \in Threads, opendir_upper_only(t) \/ opendir_merge(t) PROVE IInv'
<1> DEFINE p == call[t].ptr
           g == call[t].gen
<1>1. /\ pc[t] = "open_image" /\ p # None /\ Return(t) /\ heap' = heap /\ opens' = opens
      /\ got' = got /\ eof' = eof
      /\ held' = held \cup {[ptr |-> p, gen |-> g, dir |-> call[t].dir]}
  BY DEF opendir_upper_only, opendir_merge, Hand
<1>2. ThreadOK(t)
  BY DEF IInv, CallInv
<1>3. /\ p \in Ptrs /\ g \in Gens /\ call[t].dir \in Dirs /\ Sole(t)
      /\ g # 0 /\ heap[p].gen = g /\ heap[p].dir # None /\ heap[p].pos = 0
      /\ \A e \in dir_map : e.key # p
      /\ \A h \in held : h.gen # g
  BY <1>1, <1>2, FieldTypes DEF IInv, ThreadOK, Sole, Lives
<1>4. \A h \in held : h.ptr # p
  BY <1>3 DEF IInv, HeldInv, Lives
<1>5. /\ heap' \in [Ptrs -> DIR] /\ HeapInv' /\ opens' \in Gens
  BY <1>1 DEF IInv, TypeOK, HeapInv
<1>6. p = call[t].ptr /\ g = call[t].gen
  OBVIOUS
<1>7. CASE opendir_upper_only(t)
  <2> DEFINE E == {}
  <2>1. dir_map' = dir_map \cup E
    BY <1>7 DEF opendir_upper_only
  <2>2. /\ \A e \in E : FreshEntry(e, p, g) /\ (e.is_real_dir <=> heap'[p].dir # None)
        /\ \A e, f \in E : e = f
    OBVIOUS
  <2> HIDE DEF p, g, E
  <2>3. heap'[p].gen = g /\ heap'[p].pos = 0 /\ \A q \in Ptrs : q # p => heap'[q] = heap[q]
    BY <1>1, <1>3
  <2> QED  BY <1>1, <1>3, <1>4, <1>5, <1>6, <2>1, <2>2, <2>3, HandOver
<1>8. CASE opendir_merge(t)
  <2>1. PICK e : dir_map' = dir_map \cup {e} /\ FreshEntry(e, p, g) /\ e.is_real_dir = TRUE
    BY <1>3, <1>8, NewEntry DEF opendir_merge, IInv
  <2> DEFINE E == {e}
  <2> HIDE DEF p, g
  <2>2. /\ dir_map' = dir_map \cup E
        /\ \A f \in E : FreshEntry(f, p, g) /\ (f.is_real_dir <=> heap'[p].dir # None)
        /\ \A f, k \in E : f = k
    BY <1>1, <1>3, <2>1
  <2> HIDE DEF E
  <2>3. heap'[p].gen = g /\ heap'[p].pos = 0 /\ \A q \in Ptrs : q # p => heap'[q] = heap[q]
    BY <1>1, <1>3
  <2> QED  BY <1>1, <1>3, <1>4, <1>5, <1>6, <2>2, <2>3, HandOver
<1> QED  BY <1>7, <1>8

LEMMA OpendirLower ==
  ASSUME IInv, NEW t \in Threads, NEW p \in Ptrs, opendir_lower_only(t, p) PROVE IInv'
<1> DEFINE g == opens + 1
<1>1. /\ call[t].ptr = None /\ NewDIR(p, None) /\ AddEntry(t, p, g, FALSE)
      /\ call[t].dir \in Dirs /\ Return(t) /\ got' = got /\ eof' = eof
      /\ held' = held \cup {[ptr |-> p, gen |-> g, dir |-> call[t].dir]}
  BY DirMapAssumption DEF opendir_lower_only, Hand
<1>2. /\ heap' \in [Ptrs -> DIR] /\ opens' = opens + 1 /\ opens' \in Gens /\ opens + 1 # 0
      /\ heap[p] = Free /\ heap'[p].gen = g /\ heap'[p].dir = None /\ heap'[p].pos = 0
      /\ \A q \in Ptrs : q # p => heap'[q] = heap[q]
      /\ HeapInv'
      /\ \A h \in held : h.ptr # p /\ h.gen # g
      /\ \A e \in dir_map : e.key # p
  BY <1>1, New
<1>3. PICK e : dir_map' = dir_map \cup {e} /\ FreshEntry(e, p, g) /\ e.is_real_dir = FALSE
  BY <1>1, <1>2, NewEntry DEF IInv
<1>4. g = opens + 1 /\ g \in Gens /\ g # 0 /\ ~Sole(t)
  BY <1>1, <1>2 DEF Sole
<1> HIDE DEF g
<1> DEFINE E == {e}
<1>5. /\ dir_map' = dir_map \cup E
      /\ \A f \in E : FreshEntry(f, p, g) /\ (f.is_real_dir <=> heap'[p].dir # None)
      /\ \A f, k \in E : f = k
  BY <1>2, <1>3
<1> HIDE DEF E
<1> QED  BY <1>1, <1>2, <1>4, <1>5, HandOver

-----------------------------------------------------------------------------
(* readdir touches one stream, its object and its entry.                   *)
LEMMA ReadFrame ==
  ASSUME IInv, NEW t \in Threads, NEW h \in held, call[t].op = "readdir",
         Return(t), held' = held, opens' = opens,
         heap' \in [Ptrs -> DIR], \A q \in Ptrs : q # h.ptr => heap'[q] = heap[q],
         heap'[h.ptr].gen = heap[h.ptr].gen, heap'[h.ptr].dir = heap[h.ptr].dir,
         heap'[h.ptr].pos <= Len(RealNames(heap'[h.ptr])),
         got' \in [Gens -> Seq(Names)], \A g \in Gens : g # h.gen => got'[g] = got[g],
         eof \subseteq eof', eof' \subseteq eof \cup {h.gen},
         dir_map' \subseteq Entry,
         \A e : e.key # h.ptr => (e \in dir_map' <=> e \in dir_map),
         \A e \in dir_map' : e.key = h.ptr => EntryOK(e)' /\ \E f \in dir_map : f.key = h.ptr,
         \A e, f \in dir_map' : e.key = h.ptr /\ f.key = h.ptr => e = f,
         Progress(h)'
  PROVE  IInv'
<1>1. /\ pc' \in [Threads -> PCs] /\ call' \in [Threads -> Call]
      /\ call'[t] = NoCall /\ ~Sole(t)' /\ ThreadOK(t)'
      /\ \A u \in Threads : u # t => pc'[u] = pc[u] /\ call'[u] = call[u]
  BY Returned DEF IInv
<1>2. h.ptr \in Ptrs /\ h.gen \in Gens /\ h.gen # 0 /\ heap[h.ptr].gen = h.gen
  BY FieldTypes DEF IInv, HeldInv, Lives
<1>3. \A q \in Ptrs : heap'[q].gen = heap[q].gen /\ heap'[q].dir = heap[q].dir
  OBVIOUS
<1>4. \A e \in dir_map' : EntryOK(e)'
  <2>1. ASSUME NEW e \in dir_map', e.key # h.ptr PROVE EntryOK(e)'
    <3>1. e \in dir_map /\ e.key \in Ptrs
      BY <2>1, FieldTypes DEF IInv
    <3> QED  BY <1>3, <3>1 DEF IInv, MapInv, EntryOK, Lives
  <2> QED  BY <2>1
<1>5. TypeOK'
  <2>1. \A e \in dir_map' : e.current <= Len(e.list)
    BY <1>4 DEF EntryOK
  <2>2. eof' \subseteq Gens
    BY <1>2 DEF IInv, TypeOK
  <2> QED  BY <1>1, <2>1, <2>2 DEF IInv, TypeOK
<1>6. HeapInv'
  <2>1. ASSUME NEW q \in Ptrs, heap'[q] # Free
        PROVE  /\ heap'[q].gen \in 1 .. opens' /\ heap'[q].dir \in RealDirs \cup {None}
               /\ heap'[q].pos <= Len(RealNames(heap'[q]))
    <3>1. CASE q = h.ptr
      <4>1. heap[q] # Free
        BY <1>2, <3>1, Nones
      <4> QED  BY <3>1, <4>1, <1>2 DEF IInv, HeapInv
    <3>2. CASE q # h.ptr
      BY <2>1, <3>2 DEF IInv, HeapInv
    <3> QED  BY <3>1, <3>2
  <2>2. \A q, r \in Ptrs : heap'[q].gen # 0 /\ heap'[q].gen = heap'[r].gen => q = r
    BY <1>3 DEF IInv, HeapInv
  <2> QED  BY <2>1, <2>2 DEF HeapInv
<1>7. ASSUME NEW u \in Threads, u # t PROVE ThreadOK(u)'
  <2>1. call'[t].gen = 0
    BY <1>1, Nones
  <2>2. \A q \in Ptrs : \/ heap'[q] = heap[q]
                        \/ /\ heap'[q].gen = heap[q].gen /\ heap'[q].dir = heap[q].dir
                           /\ \E k \in held : k.ptr = q
    BY <1>3
  <2>3. \A e \in dir_map' : \E f \in dir_map : f.key = e.key
    OBVIOUS
  <2>4. TypeOK /\ HeapInv /\ CallInv /\ MapInv /\ HeldInv
    BY DEF IInv
  <2> QED  BY <1>1, <1>7, <2>1, <2>2, <2>3, <2>4, OthersKept
<1>8. CallInv'
  BY <1>1, <1>7 DEF CallInv
<1>9. MapInv'
  <2>1. ASSUME NEW e \in dir_map', NEW f \in dir_map', e.key = f.key PROVE e = f
    BY <2>1 DEF IInv, MapInv
  <2> QED  BY <1>4, <2>1 DEF MapInv
<1>10. HeldInv'
  BY <1>3, FieldTypes DEF IInv, HeldInv, Lives
<1>11. FreshInv'
  BY DEF IInv, FreshInv
<1>12. OwnerInv'
  <2>1. \A u \in Threads : Sole(u) => Sole(u)' /\ call'[u].ptr = call[u].ptr
    BY <1>1 DEF Sole
  <2>2. \A q \in Ptrs : heap'[q] # Free => heap[q] # Free
    BY <1>2, Nones
  <2> QED  BY <2>1, <2>2 DEF IInv, OwnerInv
<1>13. ProgressInv'
  <2>1. ASSUME NEW k \in held, k # h PROVE Progress(k)'
    <3>1. k.ptr # h.ptr /\ k.gen # h.gen
      BY <2>1, StreamsApart DEF IInv
    <3>2. k.ptr \in Ptrs /\ k.gen \in Gens /\ Progress(k)
      BY FieldTypes DEF IInv, ProgressInv
    <3>3. heap'[k.ptr] = heap[k.ptr] /\ got'[k.gen] = got[k.gen] /\ (k.gen \in eof' <=> k.gen \in eof)
      BY <3>1, <3>2
    <3>4. \A e : e.key = k.ptr => (e \in dir_map' <=> e \in dir_map)
      BY <3>1
    <3> QED  BY <3>2, <3>3, <3>4, StreamKept
  <2> QED  BY <2>1 DEF ProgressInv
<1> QED  BY <1>5, <1>6, <1>8, <1>9, <1>10, <1>11, <1>12, <1>13 DEF IInv

(* The stream of a readdir.                                                *)
LEMMA Reader ==
  ASSUME IInv, NEW t \in Threads, call[t].op = "readdir"
  PROVE  \E h \in held :
           /\ h.ptr = call[t].ptr /\ h.gen = call[t].gen /\ h.ptr \in Ptrs /\ h.gen \in Gens
           /\ Progress(h) /\ heap[h.ptr].pos <= Len(RealNames(heap[h.ptr]))
           /\ RealNames(heap[h.ptr]) \in Seq(Names) /\ got[h.gen] \in Seq(Names)
<1>1. PICK h \in held : h.ptr = call[t].ptr /\ h.gen = call[t].gen
  BY DEF IInv, CallInv, ThreadOK
<1>2. h.ptr \in Ptrs /\ h.gen \in Gens /\ Progress(h)
  BY FieldTypes DEF IInv, ProgressInv
<1>3. RealNames(heap[h.ptr]) \in Seq(Names) /\ got[h.gen] \in Seq(Names)
  BY <1>2, RealNamesType DEF IInv, TypeOK
<1>4. heap[h.ptr] # Free
  BY <1>2, Nones DEF IInv, HeldInv, Lives
<1>5. heap[h.ptr].pos <= Len(RealNames(heap[h.ptr]))
  BY <1>2, <1>4 DEF IInv, HeapInv
<1> QED  BY <1>1, <1>2, <1>3, <1>5

LEMMA DeliveredType ==
  ASSUME TypeOK, NEW e \in dir_map PROVE Delivered(e) \in Nat
BY FieldTypes DEF Delivered, Node

(* The real directory has another entry.                                   *)
LEMMA ReadReal ==
  ASSUME IInv, NEW t \in Threads, call[t].op = "readdir", RealNext(t, call[t].ptr),
         Return(t), UNCHANGED <<dir_map, opens, held>>
  PROVE  IInv'
<1>1. PICK h \in held :
        /\ h.ptr = call[t].ptr /\ h.gen = call[t].gen /\ h.ptr \in Ptrs /\ h.gen \in Gens
        /\ Progress(h) /\ heap[h.ptr].pos <= Len(RealNames(heap[h.ptr]))
        /\ RealNames(heap[h.ptr]) \in Seq(Names) /\ got[h.gen] \in Seq(Names)
  BY Reader
<1> DEFINE d == heap[h.ptr]
           r == RealNames(d)
           x == r[d.pos + 1]
           n == [dir |-> d.dir, gen |-> d.gen, pos |-> d.pos + 1]
<1>2. d.pos \in Nat /\ d.dir \in Dirs \cup {None} /\ d.gen \in Gens
  BY <1>1, FieldTypes DEF IInv
<1>3. d.pos < Len(r) /\ Len(r) \in Nat /\ x \in Names
  BY <1>1, <1>2 DEF RealNext, RealMore
<1>4. n \in DIR /\ n.dir = d.dir /\ n.gen = d.gen /\ n.pos = d.pos + 1
  BY <1>2 DEF DIR
<1>5. heap' = [heap EXCEPT ![h.ptr] = n] /\ got' = [got EXCEPT ![h.gen] = Append(got[h.gen], x)]
      /\ eof' = eof
  BY <1>1 DEF RealNext, Gives, IInv, TypeOK
<1>6. RealNames(n) = r
  BY <1>4 DEF RealNames
<1>7. d = heap[h.ptr] /\ r = RealNames(d)
  OBVIOUS
<1>8. r \in Seq(Names)
  BY <1>1
<1>9. x = r[d.pos + 1]
  OBVIOUS
<1> HIDE DEF n, x, r, d
<1>10. /\ heap' \in [Ptrs -> DIR] /\ heap'[h.ptr] = n
       /\ \A q \in Ptrs : q # h.ptr => heap'[q] = heap[q]
  BY <1>1, <1>4, <1>5 DEF IInv, TypeOK
<1>11. /\ got' \in [Gens -> Seq(Names)] /\ got'[h.gen] = Append(got[h.gen], x)
       /\ \A g \in Gens : g # h.gen => got'[g] = got[g]
  BY <1>1, <1>3, <1>5 DEF IInv, TypeOK
<1>12. ASSUME NEW l \in Seq(Names), Follows(got[h.gen], r, l, d.pos)
       PROVE  Follows(got'[h.gen], r, l, d.pos + 1)
  <2>1. d.pos < Len(r) + Len(l) /\ d.pos + 1 <= Len(r)
    BY <1>2, <1>3
  <2> QED  BY <1>1, <1>2, <1>3, <1>8, <1>9, <1>11, <1>12, <2>1, FollowsAppend
<1>13. Progress(h)'
  <2>1. ASSUME \A e \in dir_map : e.key # h.ptr
        PROVE  Follows(got'[h.gen], r, <<>>, d.pos + 1) /\ h.gen \notin eof
    <3>1. Follows(got[h.gen], r, <<>>, d.pos) /\ (h.gen \in eof => d.pos = Len(r))
      BY <1>1, <1>7, <2>1 DEF Progress
    <3>2. <<>> \in Seq(Names)
      BY EmptySeq
    <3>3. Follows(got'[h.gen], r, <<>>, d.pos + 1)
      BY <1>12, <3>1, <3>2
    <3> QED  BY <1>2, <1>3, <3>1, <3>3
  <2>2. ASSUME NEW e \in dir_map, e.key = h.ptr
        PROVE  /\ Follows(got'[h.gen], r, e.list, d.pos + 1 + Delivered(e))
               /\ Delivered(e) = 0 /\ h.gen \notin eof
    <3>1. /\ Follows(got[h.gen], r, e.list, d.pos + Delivered(e))
          /\ Delivered(e) > 0 => d.pos = Len(r)
          /\ h.gen \in eof => d.pos = Len(r)
      BY <1>1, <1>7, <2>2 DEF Progress
    <3>2. Delivered(e) = 0 /\ h.gen \notin eof
      BY <1>2, <1>3, <3>1, DeliveredType DEF IInv
    <3>3. d.pos + Delivered(e) = d.pos /\ d.pos + 1 + Delivered(e) = d.pos + 1
      BY <1>2, <3>2
    <3>4. e.list \in Seq(Names)
      BY FieldTypes DEF IInv
    <3> QED  BY <1>12, <3>1, <3>2, <3>3, <3>4
  <2> QED  BY <1>4, <1>5, <1>6, <1>10, <2>1, <2>2 DEF Progress
<1>14. heap'[h.ptr].pos <= Len(RealNames(heap'[h.ptr]))
  BY <1>2, <1>3, <1>4, <1>6, <1>10
<1>15. /\ dir_map' \subseteq Entry
       /\ \A e \in dir_map' : e.key = h.ptr => EntryOK(e)' /\ \E f \in dir_map : f.key = h.ptr
       /\ \A e, f \in dir_map' : e.key = h.ptr /\ f.key = h.ptr => e = f
  BY <1>4, <1>7, <1>10 DEF IInv, TypeOK, MapInv, EntryOK, Lives
<1> QED  BY <1>4, <1>5, <1>7, <1>10, <1>11, <1>13, <1>14, <1>15, ReadFrame

(* The image has another entry.                                            *)
LEMMA ReadLower ==
  ASSUME IInv, NEW t \in Threads, NEW e \in dir_map, readdir_lower(t, e) PROVE IInv'
<1>1. /\ call[t].op = "readdir" /\ e.key = call[t].ptr
      /\ ~(e.is_real_dir /\ RealMore(e.key)) /\ ~e.reached_end /\ e.list # <<>>
      /\ Return(t) /\ heap' = heap /\ opens' = opens /\ held' = held
      /\ dir_map' = (dir_map \ {e}) \cup {AtNode(e, Successor(e), Successor(e) = 0)}
  BY DEF readdir_lower, InMap, HASH_FIND_PTR
<1>2. PICK h \in held :
        /\ h.ptr = call[t].ptr /\ h.gen = call[t].gen /\ h.ptr \in Ptrs /\ h.gen \in Gens
        /\ Progress(h) /\ heap[h.ptr].pos <= Len(RealNames(heap[h.ptr]))
        /\ RealNames(heap[h.ptr]) \in Seq(Names) /\ got[h.gen] \in Seq(Names)
  BY <1>1, Reader
<1> DEFINE r == RealNames(heap[h.ptr])
           pos == heap[h.ptr].pos
           x == e.list[Node(e)]
           n == AtNode(e, Successor(e), Successor(e) = 0)
<1>3. /\ EntryOK(e) /\ e.key = h.ptr /\ e.list \in Seq(Names) /\ e.current \in Nat
      /\ e.gen \in Gens /\ e.is_real_dir \in BOOLEAN /\ e.key \in Ptrs
  BY <1>1, <1>2, FieldTypes DEF IInv, MapInv
<1>4. pos \in Nat /\ pos = Len(r) /\ Len(r) \in Nat
  <2>1. pos \in Nat /\ pos <= Len(r) /\ Len(r) \in Nat
    BY <1>2, FieldTypes DEF IInv
  <2>2. CASE e.is_real_dir
    BY <1>1, <1>3, <2>1, <2>2 DEF RealMore
  <2>3. CASE ~e.is_real_dir
    <3>1. r = <<>>
      BY <1>3, <2>3 DEF EntryOK, RealNames
    <3> QED  BY <2>1, <3>1
  <2> QED  BY <2>2, <2>3
<1>5. /\ Len(e.list) \in Nat /\ Node(e) \in 1 .. Len(e.list) /\ Delivered(e) = Node(e) - 1
      /\ x \in Names
  <2>1. Len(e.list) \in Nat /\ Len(e.list) # 0
    BY <1>1, <1>3, EmptySeq
  <2>2. Node(e) \in 1 .. Len(e.list)
    BY <1>3, <2>1 DEF EntryOK, Node
  <2> QED  BY <1>1, <1>3, <2>1, <2>2 DEF Delivered
<1>6. /\ n.key = e.key /\ n.gen = e.gen /\ n.is_real_dir = e.is_real_dir /\ n.list = e.list
      /\ n.current = Successor(e)
  BY DEF AtNode
<1>7. n.reached_end = (Successor(e) = 0)
  BY DEF AtNode
<1>8. Successor(e) \in Nat /\ Successor(e) <= Len(e.list)
  BY <1>5 DEF Successor
<1>9. n \in Entry
  <2>1. (Successor(e) = 0) \in BOOLEAN
    BY Zenon
  <2> QED  BY <1>3, <1>8, <2>1 DEF Entry, AtNode
<1>10. n.reached_end <=> Successor(e) = 0
  BY <1>7
<1>11. got' = [got EXCEPT ![h.gen] = Append(got[h.gen], x)] /\ eof' = eof
  BY <1>2 DEF readdir_lower, Gives, IInv, TypeOK
<1>12. dir_map' = (dir_map \ {e}) \cup {n}
  BY <1>1
<1>13. r = RealNames(heap[h.ptr]) /\ pos = heap[h.ptr].pos /\ x = e.list[Node(e)] /\ r \in Seq(Names)
  BY <1>2
<1> HIDE DEF r, pos, x, n
<1>14. Delivered(n) = Node(e)
  <2>1. CASE Node(e) = Len(e.list)
    BY <1>5, <1>6, <1>10, <2>1 DEF Delivered, Successor
  <2>2. CASE Node(e) # Len(e.list)
    <3>1. Successor(e) = Node(e) + 1 /\ Successor(e) # 0
      BY <1>5, <2>2 DEF Successor
    <3>2. Delivered(n) = Node(n) - 1 /\ Node(n) = Node(e) + 1
      BY <1>6, <1>10, <3>1 DEF Delivered, Node
    <3> QED  BY <1>5, <3>2
  <2> QED  BY <2>1, <2>2
<1>15. /\ got' \in [Gens -> Seq(Names)] /\ got'[h.gen] = Append(got[h.gen], x)
       /\ \A g \in Gens : g # h.gen => got'[g] = got[g]
  BY <1>2, <1>5, <1>11 DEF IInv, TypeOK
<1>16. /\ Follows(got[h.gen], r, e.list, pos + Delivered(e))
       /\ h.gen \in eof => Delivered(e) = Len(e.list)
  BY <1>2, <1>3, <1>13 DEF Progress
<1>17. h.gen \notin eof
  BY <1>5, <1>16
<1>18. Follows(got'[h.gen], r, e.list, pos + Delivered(n))
  <2> DEFINE k == pos + Delivered(e)
  <2>1. /\ k \in Nat /\ k < Len(r) + Len(e.list) /\ ~(k + 1 <= Len(r)) /\ k + 1 - Len(r) = Node(e)
        /\ pos + Delivered(n) = k + 1
    <3>1. Node(e) \in Nat /\ Node(e) >= 1 /\ Node(e) <= Len(e.list)
      BY <1>5
    <3>2. k = Len(r) + (Node(e) - 1) /\ pos + Delivered(n) = Len(r) + Node(e)
      BY <1>4, <1>5, <1>14
    <3> HIDE DEF k
    <3>3. k \in Nat /\ k + 1 = Len(r) + Node(e)
      BY <1>4, <3>1, <3>2
    <3>4. pos + Delivered(n) = k + 1
      BY <3>2, <3>3
    <3>5. k < Len(r) + Len(e.list)
      BY <1>4, <1>5, <3>1, <3>3
    <3>6. ~(k + 1 <= Len(r))
      BY <1>4, <3>1, <3>3
    <3>7. k + 1 - Len(r) = Node(e)
      BY <1>4, <3>1, <3>3
    <3> QED  BY <3>3, <3>4, <3>5, <3>6, <3>7
  <2>2. Follows(got[h.gen], r, e.list, k)
    BY <1>16
  <2> HIDE DEF k
  <2>3. x = IF k + 1 <= Len(r) THEN r[k + 1] ELSE e.list[k + 1 - Len(r)]
    BY <1>13, <2>1
  <2>4. Follows(Append(got[h.gen], x), r, e.list, k + 1)
    BY <1>2, <1>3, <1>5, <1>13, <2>1, <2>2, <2>3, FollowsAppend
  <2> QED  BY <1>15, <2>1, <2>4
<1>19. \A f \in dir_map' : f.key = h.ptr => f = n
  BY <1>3, <1>12 DEF IInv, MapInv
<1>20. n \in dir_map' /\ n.key = h.ptr
  BY <1>3, <1>6, <1>12
<1>21. Progress(h)'
  <2>1. heap'[h.ptr] = heap[h.ptr] /\ h.gen \notin eof'
    BY <1>1, <1>11, <1>17
  <2> QED  BY <1>4, <1>6, <1>13, <1>18, <1>19, <1>20, <2>1 DEF Progress
<1>22. EntryOK(n)'
  BY <1>1, <1>3, <1>6, <1>8, <1>10 DEF EntryOK, Lives
<1>23. \A f : f.key # h.ptr => (f \in dir_map' <=> f \in dir_map)
  BY <1>3, <1>6, <1>12
<1>24. dir_map' \subseteq Entry
  BY <1>9, <1>12 DEF IInv, TypeOK
<1>25. /\ heap' \in [Ptrs -> DIR] /\ heap'[h.ptr].pos <= Len(RealNames(heap'[h.ptr]))
  BY <1>1, <1>2 DEF IInv, TypeOK
<1> QED  BY <1>1, <1>3, <1>11, <1>15, <1>19, <1>21, <1>22, <1>23, <1>24, <1>25, ReadFrame

(* Neither layer has another entry.                                        *)
LEMMA ReadNull ==
  ASSUME IInv, NEW t \in Threads, call[t].op = "readdir", GivesNull(t), Return(t),
         UNCHANGED <<heap, dir_map, opens, held>>,
         (\A e \in dir_map : e.key # call[t].ptr) => ~RealMore(call[t].ptr),
         \A e \in dir_map : e.key = call[t].ptr =>
           ~(e.is_real_dir /\ RealMore(e.key)) /\ (e.reached_end \/ e.list = <<>>)
  PROVE  IInv'
<1>1. PICK h \in held :
        /\ h.ptr = call[t].ptr /\ h.gen = call[t].gen /\ h.ptr \in Ptrs /\ h.gen \in Gens
        /\ Progress(h) /\ heap[h.ptr].pos <= Len(RealNames(heap[h.ptr]))
        /\ RealNames(heap[h.ptr]) \in Seq(Names) /\ got[h.gen] \in Seq(Names)
  BY Reader
<1>2. eof' = eof \cup {h.gen} /\ got' = got
  BY <1>1 DEF GivesNull
<1>3. heap[h.ptr].pos \in Nat /\ Len(RealNames(heap[h.ptr])) \in Nat
  BY <1>1, FieldTypes DEF IInv
<1>4. ~RealMore(h.ptr) => heap[h.ptr].pos = Len(RealNames(heap[h.ptr]))
  BY <1>1, <1>3 DEF RealMore
<1>5. ASSUME NEW e \in dir_map, e.key = h.ptr
      PROVE  heap[h.ptr].pos = Len(RealNames(heap[h.ptr])) /\ Delivered(e) = Len(e.list)
  <2>1. EntryOK(e) /\ e.list \in Seq(Names) /\ (e.is_real_dir <=> heap[h.ptr].dir # None)
    BY <1>5, FieldTypes DEF IInv, MapInv, EntryOK
  <2>2. ~e.is_real_dir => RealNames(heap[h.ptr]) = <<>>
    BY <2>1 DEF RealNames
  <2>3. heap[h.ptr].pos = Len(RealNames(heap[h.ptr]))
    BY <1>1, <1>3, <1>4, <1>5, <2>2, EmptySeq
  <2>4. e.reached_end => Delivered(e) = Len(e.list)
    BY DEF Delivered
  <2>5. e.list = <<>> => e.current = 0 /\ ~e.reached_end /\ Len(e.list) = 0
    BY <2>1, FieldTypes DEF EntryOK, IInv
  <2>6. e.list = <<>> => Delivered(e) = Len(e.list)
    BY <2>5 DEF Delivered, Node
  <2> QED  BY <1>1, <1>5, <2>3, <2>4, <2>6
<1>6. Progress(h)'
  BY <1>1, <1>2, <1>4, <1>5 DEF Progress
<1>7. \A e \in dir_map : EntryOK(e)'
  BY DEF IInv, MapInv, EntryOK, Lives
<1>8. /\ heap' \in [Ptrs -> DIR] /\ got' \in [Gens -> Seq(Names)] /\ dir_map' \subseteq Entry
  BY <1>2 DEF IInv, TypeOK
<1>9. \A e, f \in dir_map : e.key = f.key => e = f
  BY DEF IInv, MapInv
<1> QED  BY <1>1, <1>2, <1>6, <1>7, <1>8, <1>9, ReadFrame

LEMMA ReadSteps ==
  ASSUME IInv, NEW t \in Threads,
         \/ real_readdir(t)
         \/ \E e \in dir_map : readdir_upper(t, e) \/ readdir_lower(t, e) \/ readdir_end(t, e)
  PROVE  IInv'
<1>1. CASE real_readdir(t)
  <2>1. \A e \in dir_map : e.key # call[t].ptr
    BY <1>1 DEF real_readdir, IInv, CallInv, ThreadOK
  <2>2. CASE RealNext(t, call[t].ptr)
    BY <1>1, <2>2, ReadReal DEF real_readdir
  <2>3. CASE ~RealMore(call[t].ptr) /\ GivesNull(t) /\ UNCHANGED heap
    BY <1>1, <2>1, <2>3, ReadNull DEF real_readdir
  <2> QED  BY <1>1, <2>2, <2>3 DEF real_readdir
<1>2. ASSUME NEW e \in dir_map, readdir_upper(t, e) PROVE IInv'
  BY <1>2, ReadReal DEF readdir_upper, InMap, HASH_FIND_PTR
<1>3. ASSUME NEW e \in dir_map, readdir_end(t, e) PROVE IInv'
  <2>1. /\ call[t].op = "readdir" /\ e.key = call[t].ptr
        /\ ~(e.is_real_dir /\ RealMore(e.key)) /\ (e.reached_end \/ e.list = <<>>)
        /\ GivesNull(t) /\ Return(t) /\ UNCHANGED <<heap, dir_map, opens, held>>
    BY <1>3 DEF readdir_end, InMap, HASH_FIND_PTR
  <2>2. \A f \in dir_map : f.key = call[t].ptr => f = e
    BY <2>1 DEF IInv, MapInv
  <2> QED  BY <2>1, <2>2, ReadNull
<1> QED  BY <1>1, <1>2, <1>3, ReadLower

-----------------------------------------------------------------------------
(* closedir: the stream passes from the application to the thread,         *)
LEMMA CallClosedir ==
  ASSUME IInv, NEW t \in Threads, NEW h \in held, call_closedir(t, h) PROVE IInv'
<1> DEFINE c == [op |-> "closedir", ptr |-> h.ptr, gen |-> h.gen, dir |-> h.dir]
<1>1. h.ptr \in Ptrs /\ h.gen \in Gens /\ h.dir \in Dirs /\ Lives(h.ptr, h.gen)
  BY FieldTypes DEF IInv, HeldInv
<1>2. c \in Call /\ c.op = "closedir" /\ c.ptr = h.ptr /\ c.gen = h.gen
  BY <1>1 DEF Call
<1>3. /\ pc[t] = "app" /\ call' = [call EXCEPT ![t] = c] /\ Goto(t, "find")
      /\ UNCHANGED <<dir_map, heap, opens>> /\ held' = held \ {h}
      /\ got' = [got EXCEPT ![h.gen] = <<>>] /\ eof' = eof \ {h.gen}
      /\ \A u \in Threads : call[u].gen # h.gen
  BY DEF call_closedir, Use
<1> HIDE DEF c
<1>4. /\ pc' \in [Threads -> PCs] /\ pc'[t] = "find"
      /\ \A u \in Threads : u # t => pc'[u] = pc[u]
  BY <1>3, Gone DEF IInv, PCs
<1>5. /\ call' \in [Threads -> Call] /\ call'[t] = c
      /\ \A u \in Threads : u # t => call'[u] = call[u]
  BY <1>2, <1>3, Called DEF IInv
<1>6. /\ got' \in [Gens -> Seq(Names)] /\ got'[h.gen] = <<>>
      /\ \A g \in Gens : g # h.gen => got'[g] = got[g]
  <2>1. <<>> \in Seq(Names)
    BY EmptySeq
  <2> QED  BY <1>1, <1>3, <2>1 DEF IInv, TypeOK
<1>7. TypeOK'
  BY <1>3, <1>4, <1>5, <1>6 DEF IInv, TypeOK
<1>8. \A k \in held' : k \in held /\ k.gen # h.gen /\ k.ptr # h.ptr
  BY <1>3, StreamsApart DEF IInv
<1>9. ThreadOK(t)'
  BY <1>1, <1>2, <1>3, <1>4, <1>5, <1>8, Nones DEF ThreadOK, Sole, Lives
<1>10. ASSUME NEW u \in Threads, u # t PROVE ThreadOK(u)'
  <2>1. \E k \in held : k.gen = call'[t].gen
    BY <1>2, <1>5
  <2>2. \A k \in held : k \in held' \/ \A w \in Threads : call[w].gen # k.gen
    BY <1>3
  <2>3. TypeOK /\ HeapInv /\ CallInv /\ MapInv /\ HeldInv
    BY DEF IInv
  <2> QED  BY <1>3, <1>4, <1>5, <1>8, <1>10, <2>1, <2>2, <2>3, OthersKept
<1>11. CallInv'
  BY <1>9, <1>10 DEF CallInv
<1>12. HeapInv' /\ MapInv' /\ HeldInv'
  BY <1>3, <1>8 DEF IInv, HeapInv, MapInv, EntryOK, Lives, HeldInv
<1>13. FreshInv'
  <2>1. ASSUME NEW g \in Gens, \A k \in held' : k.gen # g PROVE got'[g] = <<>> /\ g \notin eof'
    <3>1. CASE g = h.gen
      BY <1>3, <1>6, <3>1
    <3>2. CASE g # h.gen
      <4>1. \A k \in held : k.gen # g
        BY <1>3, <2>1, <3>2
      <4> QED  BY <1>3, <1>6, <3>2, <4>1 DEF IInv, FreshInv
    <3> QED  BY <3>1, <3>2
  <2> QED  BY <2>1 DEF FreshInv
<1>14. OwnerInv'
  <2>1. Sole(t)' /\ call'[t].ptr = h.ptr
    BY <1>1, <1>2, <1>5, Nones DEF Sole
  <2>2. ~Sole(t)
    BY <1>3 DEF IInv, CallInv, ThreadOK, Sole
  <2>3. \A u \in Threads : Sole(u) => Sole(u)' /\ call'[u].ptr = call[u].ptr
    BY <1>5, <2>2 DEF Sole
  <2>4. ASSUME NEW q \in Ptrs, heap[q] # Free
        PROVE  (\E k \in held' : k.ptr = q) \/ \E u \in Threads : Sole(u)' /\ call'[u].ptr = q
    <3>1. CASE \E k \in held : k.ptr = q
      BY <1>3, <2>1, <3>1
    <3>2. CASE \E u \in Threads : Sole(u) /\ call[u].ptr = q
      BY <2>3, <3>2
    <3> QED  BY <2>4, <3>1, <3>2 DEF IInv, OwnerInv
  <2> QED  BY <1>3, <2>4 DEF OwnerInv
<1>15. ProgressInv'
  <2> SUFFICES ASSUME NEW k \in held' PROVE Progress(k)'
    BY DEF ProgressInv
  <2>1. k \in held /\ k.gen # h.gen /\ k.gen \in Gens /\ Progress(k)
    BY <1>8, FieldTypes DEF IInv, ProgressInv
  <2>2. heap'[k.ptr] = heap[k.ptr] /\ got'[k.gen] = got[k.gen] /\ (k.gen \in eof' <=> k.gen \in eof)
    BY <1>3, <1>6, <2>1
  <2> QED  BY <1>3, <2>1, <2>2, StreamKept
<1> QED  BY <1>7, <1>11, <1>12, <1>13, <1>14, <1>15 DEF IInv

(* its entry goes,                                                         *)
LEMMA ClosedirHit ==
  ASSUME IInv, NEW t \in Threads, NEW e \in dir_map, closedir_hit(t, e) PROVE IInv'
<1>1. /\ pc[t] = "find" /\ call[t].op = "closedir" /\ e.key = call[t].ptr
      /\ dir_map' = dir_map \ {e} /\ Goto(t, "real")
      /\ UNCHANGED <<call, heap, opens, held, got, eof>>
  BY DEF closedir_hit, InMap, HASH_FIND_PTR
<1>2. /\ pc' \in [Threads -> PCs] /\ pc'[t] = "real"
      /\ \A u \in Threads : u # t => pc'[u] = pc[u]
  BY <1>1, Gone DEF IInv, PCs
<1>3. \A f \in dir_map' : f \in dir_map /\ f.key # call[t].ptr
  BY <1>1 DEF IInv, MapInv
<1>4. ThreadOK(t)
  BY DEF IInv, CallInv
<1>5. Sole(t) /\ \A h \in held : h.gen # call[t].gen
  BY <1>1, <1>4 DEF ThreadOK, Sole
<1>6. \A h \in held : h.ptr # call[t].ptr
  BY <1>4, <1>5 DEF IInv, HeldInv, Lives, ThreadOK, Sole
<1>7. TypeOK'
  BY <1>1, <1>2 DEF IInv, TypeOK
<1>8. ThreadOK(t)'
  BY <1>1, <1>2, <1>3, <1>4 DEF ThreadOK, Sole, Lives
<1>9. ASSUME NEW u \in Threads, u # t PROVE ThreadOK(u)'
  <2>1. TypeOK /\ HeapInv /\ CallInv /\ MapInv /\ HeldInv
    BY DEF IInv
  <2> QED  BY <1>1, <1>2, <1>3, <1>9, <2>1, OthersKept
<1>10. CallInv'
  BY <1>8, <1>9 DEF CallInv
<1>11. HeapInv' /\ MapInv' /\ HeldInv' /\ FreshInv'
  BY <1>1, <1>3 DEF IInv, HeapInv, MapInv, EntryOK, Lives, HeldInv, FreshInv
<1>12. OwnerInv'
  BY <1>1 DEF IInv, OwnerInv, Sole
<1>13. ProgressInv'
  <2> SUFFICES ASSUME NEW h \in held PROVE Progress(h)'
    BY <1>1 DEF ProgressInv
  <2>1. \A f : f.key = h.ptr => (f \in dir_map' <=> f \in dir_map)
    BY <1>1, <1>6
  <2>2. Progress(h)
    BY DEF IInv, ProgressInv
  <2> QED  BY <1>1, <2>1, <2>2, StreamKept
<1> QED  BY <1>7, <1>10, <1>11, <1>12, <1>13 DEF IInv

(* and the object is freed, as it is on the failure path of opendir.       *)
LEMMA FreeObject ==
  ASSUME IInv, NEW t \in Threads, Sole(t), pc[t] # "find",
         heap' = [heap EXCEPT ![call[t].ptr] = Free], Return(t),
         UNCHANGED <<dir_map, opens, held, got, eof>>
  PROVE  IInv'
<1> DEFINE p == call[t].ptr
<1>1. ThreadOK(t)
  BY DEF IInv, CallInv
<1>2. /\ p \in Ptrs /\ heap[p].gen = call[t].gen /\ call[t].gen # 0
      /\ \A h \in held : h.gen # call[t].gen
      /\ \A e \in dir_map : e.key # p
      /\ \A u \in Threads : u # t => call[u].gen # call[t].gen
  BY <1>1 DEF ThreadOK, Sole, Lives
<1>3. \A h \in held : h.ptr # p
  BY <1>2 DEF IInv, HeldInv, Lives
<1>4. p = call[t].ptr
  OBVIOUS
<1> HIDE DEF p
<1>5. /\ heap' \in [Ptrs -> DIR] /\ heap'[p] = Free /\ heap'[p].gen = 0
      /\ \A q \in Ptrs : q # p => heap'[q] = heap[q]
  BY <1>2, <1>4, Nones DEF IInv, TypeOK
<1>6. dir_map' \subseteq Entry
  BY DEF IInv, TypeOK
<1>7. /\ pc' \in [Threads -> PCs] /\ call' \in [Threads -> Call]
      /\ call'[t].gen = 0 /\ ThreadOK(t)'
      /\ \A u \in Threads : u # t => pc'[u] = pc[u] /\ call'[u] = call[u]
  BY <1>6, Returned, Nones DEF IInv
<1>8. TypeOK'
  BY <1>5, <1>7 DEF IInv, TypeOK
<1>9. HeapInv'
  BY <1>5 DEF IInv, HeapInv
<1>10. ASSUME NEW u \in Threads, u # t PROVE ThreadOK(u)'
  <2>1. TypeOK /\ HeapInv /\ CallInv /\ MapInv /\ HeldInv
    BY DEF IInv
  <2>2. \A q \in Ptrs : heap'[q] = heap[q] \/ (Sole(t) /\ q = call[t].ptr)
    BY <1>4, <1>5
  <2> QED  BY <1>7, <1>10, <2>1, <2>2, OthersKept
<1>11. CallInv'
  BY <1>7, <1>10 DEF CallInv
<1>12. MapInv' /\ HeldInv'
  BY <1>2, <1>3, <1>5, FieldTypes DEF IInv, MapInv, EntryOK, Lives, HeldInv
<1>13. FreshInv'
  BY DEF IInv, FreshInv
<1>14. OwnerInv'
  <2>1. \A u \in Threads : u # t /\ Sole(u) => Sole(u)' /\ call'[u].ptr = call[u].ptr
    BY <1>7 DEF Sole
  <2>2. ASSUME NEW q \in Ptrs, heap'[q] # Free
        PROVE  (\E h \in held : h.ptr = q) \/ \E u \in Threads : Sole(u)' /\ call'[u].ptr = q
    <3>1. q # p /\ heap[q] # Free
      BY <1>5, <2>2
    <3>2. CASE \E h \in held : h.ptr = q
      BY <3>2
    <3>3. CASE \E u \in Threads : Sole(u) /\ call[u].ptr = q
      <4>1. PICK u \in Threads : Sole(u) /\ call[u].ptr = q
        BY <3>3
      <4>2. u # t
        BY <1>4, <3>1, <4>1
      <4> QED  BY <2>1, <4>1, <4>2
    <3> QED  BY <3>1, <3>2, <3>3 DEF IInv, OwnerInv
  <2> QED  BY <2>2 DEF OwnerInv
<1>15. ProgressInv'
  <2> SUFFICES ASSUME NEW h \in held PROVE Progress(h)'
    BY DEF ProgressInv
  <2>1. heap'[h.ptr] = heap[h.ptr] /\ Progress(h)
    BY <1>3, <1>5, FieldTypes DEF IInv, ProgressInv
  <2> QED  BY <2>1, StreamKept
<1> QED  BY <1>8, <1>9, <1>11, <1>12, <1>13, <1>14, <1>15 DEF IInv

LEMMA FreeSteps ==
  ASSUME IInv, NEW t \in Threads, opendir_undo(t) \/ real_closedir(t) PROVE IInv'
<1>1. ThreadOK(t)
  BY DEF IInv, CallInv
<1>2. Sole(t) /\ pc[t] # "find"
  BY <1>1 DEF opendir_undo, real_closedir, ThreadOK, Sole
<1> QED  BY <1>2, FreeObject DEF opendir_undo, real_closedir

-----------------------------------------------------------------------------
(* Together.                                                               *)

LEMMA Start == Init => IInv
<1> SUFFICES ASSUME Init PROVE IInv
  OBVIOUS
<1>1. TypeOK
  <2>1. <<>> \in Seq(Names)
    BY EmptySeq
  <2>2. got \in [Gens -> Seq(Names)]
    BY <2>1 DEF Init
  <2> QED  BY <2>2, Nones DEF Init, TypeOK, PCs
<1>2. HeapInv
  BY Nones DEF Init, HeapInv
<1>3. CallInv
  BY Nones DEF Init, CallInv, ThreadOK, Sole
<1>4. MapInv /\ HeldInv /\ OwnerInv /\ FreshInv /\ ProgressInv
  BY DEF Init, MapInv, HeldInv, OwnerInv, FreshInv, ProgressInv
<1> QED  BY <1>1, <1>2, <1>3, <1>4 DEF IInv

LEMMA Stutter == IInv /\ UNCHANGED vars => IInv'
<1> SUFFICES ASSUME IInv, UNCHANGED vars PROVE IInv'
  OBVIOUS
<1> USE DEF IInv, vars
<1>1. TypeOK'
  BY DEF TypeOK
<1>2. HeapInv' /\ MapInv' /\ HeldInv' /\ FreshInv'
  BY DEF HeapInv, MapInv, EntryOK, Lives, HeldInv, FreshInv
<1>3. CallInv' /\ OwnerInv'
  BY DEF CallInv, ThreadOK, Lives, Sole, OwnerInv
<1>4. ProgressInv'
  BY DEF ProgressInv, Progress
<1> QED  BY <1>1, <1>2, <1>3, <1>4

(* The inductive invariant: who is on each object (the application's       *)
(* stream and its readers, or one thread that opens or closes it), what    *)
(* the entry of an object says, and how far each stream has been read.     *)
THEOREM Invariance == Spec => []IInv
<1>1. IInv /\ [Next]_vars => IInv'
  <2> SUFFICES ASSUME IInv, [Next]_vars PROVE IInv'
    OBVIOUS
  <2>1. ASSUME NEW t \in Threads, Calls(t) PROVE IInv'
    BY <2>1, CallOpendir, CallReaddir, CallClosedir DEF Calls
  <2>2. ASSUME NEW t \in Threads, Step(t) PROVE IInv'
    BY <2>2, OpendirReal, OpendirLower, MallocFails, RealFails, OpendirUpper, OpendirFails,
       FindMiss, FreeSteps, ReadSteps, ClosedirHit DEF Step
  <2> QED  BY <2>1, <2>2, Stutter DEF Next
<1> QED  BY <1>1, Start, PTL DEF Spec

(* Every variable keeps its type, and dir_entry_current stays in its list. *)
THEOREM TypeCorrect == Spec => []TypeOK
<1>1. IInv => TypeOK
  BY DEF IInv
<1> QED  BY <1>1, Invariance, PTL

(* An address in dir_map is always the stream it was put there for, for    *)
(* any number of threads and addresses.                                    *)
THEOREM NeverStale == Spec => []NoStaleDir
<1>1. IInv => NoStaleDir
  BY Nones DEF IInv, MapInv, EntryOK, Lives, NoStaleDir
<1> QED  BY <1>1, Invariance, PTL

(* No path through sqfs_opendir and sqfs_closedir loses a DIR object.      *)
THEOREM NeverLeaked == Spec => []NoDirLeak
<1>1. IInv => NoDirLeak
  <2> SUFFICES ASSUME IInv, NEW p \in Ptrs, heap[p] # Free
               PROVE  \/ \E h \in held : h.ptr = p /\ h.gen = heap[p].gen
                      \/ \E t \in Threads : /\ call[t].ptr = p /\ call[t].gen = heap[p].gen
                                            /\ \/ pc[t] \in {"open_image", "open_undo"}
                                               \/ call[t].op = "closedir" /\ pc[t] \in {"find", "real"}
    BY DEF NoDirLeak
  <2>1. CASE \E h \in held : h.ptr = p
    BY <2>1 DEF IInv, HeldInv, Lives
  <2>2. ASSUME NEW t \in Threads, Sole(t), call[t].ptr = p
        PROVE  /\ call[t].gen = heap[p].gen
               /\ \/ pc[t] \in {"open_image", "open_undo"}
                  \/ call[t].op = "closedir" /\ pc[t] \in {"find", "real"}
    <3>1. ThreadOK(t) /\ pc[t] \in PCs
      BY DEF IInv, CallInv, TypeOK
    <3> QED  BY <2>2, <3>1 DEF ThreadOK, Sole, Lives, PCs
  <2> QED  BY <2>1, <2>2 DEF IInv, OwnerInv
<1> QED  BY <1>1, Invariance, PTL

(* readdir delivers the real entries and then the image's, each once and   *)
(* in order, and NULL only after all of them, whichever threads share the  *)
(* stream.                                                                 *)
THEOREM ListsMerged == Spec => []MergedListing
<1>1. IInv => MergedListing
  <2> SUFFICES ASSUME IInv, NEW h \in held
               PROVE  /\ Len(got[h.gen]) <= Len(Listing(h))
                      /\ got[h.gen] = SubSeq(Listing(h), 1, Len(got[h.gen]))
                      /\ h.gen \in eof => got[h.gen] = Listing(h)
    BY DEF MergedListing
  <2> DEFINE r == RealNames(heap[h.ptr])
             s == got[h.gen]
             pos == heap[h.ptr].pos
  <2>1. h.ptr \in Ptrs /\ h.gen \in Gens /\ Progress(h) /\ pos \in Nat
    BY FieldTypes DEF IInv, ProgressInv
  <2>2. r \in Seq(Names) /\ s \in Seq(Names) /\ Len(r) \in Nat
    BY <2>1, RealNamesType DEF IInv, TypeOK
  <2>3. ASSUME NEW l \in Seq(Names), NEW n \in Nat, Listing(h) = r \o l, Follows(s, r, l, n),
               h.gen \in eof => n = Len(r) + Len(l)
        PROVE  /\ Len(s) <= Len(Listing(h)) /\ s = SubSeq(Listing(h), 1, Len(s))
               /\ h.gen \in eof => s = Listing(h)
    <3> HIDE DEF r, s
    <3> QED  BY <2>2, <2>3, FollowsIs
  <2>4. CASE \A e \in dir_map : e.key # h.ptr
    <3>1. {e.list : e \in HASH_FIND_PTR(h.ptr)} = {}
      BY <2>4 DEF HASH_FIND_PTR
    <3>2. Listing(h) = r \o <<>>
      BY <3>1 DEF Listing
    <3>3. Follows(s, r, <<>>, pos) /\ (h.gen \in eof => pos = Len(r))
      BY <2>1, <2>4 DEF Progress
    <3>4. <<>> \in Seq(Names) /\ Len(<<>>) = 0
      BY EmptySeq
    <3> HIDE DEF r, s, pos
    <3>5. h.gen \in eof => pos = Len(r) + Len(<<>>)
      BY <2>2, <3>3, <3>4
    <3>6. /\ Len(s) <= Len(Listing(h)) /\ s = SubSeq(Listing(h), 1, Len(s))
          /\ h.gen \in eof => s = Listing(h)
      BY <2>1, <2>3, <3>2, <3>3, <3>4, <3>5
    <3> QED  BY <3>6 DEF s
  <2>5. ASSUME NEW e \in dir_map, e.key = h.ptr
        PROVE  /\ Len(s) <= Len(Listing(h)) /\ s = SubSeq(Listing(h), 1, Len(s))
               /\ h.gen \in eof => s = Listing(h)
    <3>1. {f.list : f \in HASH_FIND_PTR(h.ptr)} = {e.list}
      BY <2>5 DEF HASH_FIND_PTR, IInv, MapInv
    <3>2. Listing(h) = r \o e.list
      BY <3>1 DEF Listing
    <3>3. /\ Follows(s, r, e.list, pos + Delivered(e))
          /\ h.gen \in eof => pos = Len(r) /\ Delivered(e) = Len(e.list)
      BY <2>1, <2>5 DEF Progress
    <3>4. e.list \in Seq(Names) /\ Delivered(e) \in Nat
      BY FieldTypes, DeliveredType DEF IInv
    <3> HIDE DEF r, s, pos
    <3>5. pos + Delivered(e) \in Nat
      BY <2>1, <3>4
    <3> QED  BY <2>3, <3>2, <3>3, <3>4, <3>5
  <2> QED  BY <2>4, <2>5
<1> QED  BY <1>1, Invariance, PTL
=============================================================================
