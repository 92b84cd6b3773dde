------------------------ MODULE BackingNamesProofs ------------------------
(***************************************************************************)
(* The safety properties of BackingNames for any number of processes, any  *)
(* pids, any length of the loop over names and any number of crashes.      *)
(***************************************************************************)
EXTENDS BackingNames, FiniteSetTheorems, TLAPS

(* What the dead have left.                                                *)
Dead == {e \in tmp : e.life # life[e.by]}

(* In the loop there is a try left, and room for the counter.              *)
LoopInv ==
  \A p \in Procs : pc[p] = "try" =>
    /\ tries[p] < MaxTries
    /\ counter[p][kind[p]] + (MaxTries - tries[p]) <= MaxId

(* A name has one entry, which bears its maker's pid.                      *)
TmpInv ==
  /\ IsFiniteSet(tmp)
  /\ \A e \in tmp : e.name[2] = Pid[e.by] /\ e.life <= life[e.by]
  /\ \A e, f \in tmp : e.name = f.name => e = f
  /\ \A p \in Procs : life[p] <= crashes

(* Without a rival, a process is the only one of its pid that creates.     *)
RivalInv ==
  \A p, q \in Procs : Busy(p) /\ ~rival[p] /\ p # q /\ Pid[p] = Pid[q] => ~Busy(q)

(* Without a rival, the names tried in vain are still there.               *)
TriedInv ==
  \A p \in Procs : pc[p] = "try" /\ ~rival[p] =>
    \A i \in counter[p][kind[p]] - tries[p] .. counter[p][kind[p]] - 1 :
      Taken(<<kind[p], Pid[p], i>>)

IInv ==
  /\ TypeOK /\ LoopInv /\ TmpInv /\ RivalInv /\ TriedInv
  /\ OwnName /\ OnlyCrashesLeave /\ StepsOverLeftovers

-----------------------------------------------------------------------------
(* The fields of what is in /tmp.                                          *)
LEMMA Fields ==
  ASSUME TypeOK
  PROVE  /\ \A e \in tmp : e.name \in Names /\ e.by \in Procs /\ e.life \in 0 .. MaxCrashes
         /\ \A p \in Procs : kind[p] \in Kinds /\ counter[p][kind[p]] \in 0 .. MaxId
         /\ \A p \in Procs : tries[p] \in 0 .. MaxTries /\ life[p] \in 0 .. MaxCrashes
         /\ MaxTries \in Nat /\ MaxId \in Nat /\ MaxCrashes \in Nat /\ crashes \in Nat
  BY BackingAssumption DEF TypeOK, Objects

(* A new object of a process that is trying.                               *)
LEMMA NewObject ==
  ASSUME TypeOK, LoopInv, NEW p \in Procs, pc[p] = "try"
  PROVE  /\ NewName(p) \in Names /\ NewName(p)[2] = Pid[p]
         /\ [name |-> NewName(p), by |-> p, life |-> life[p]] \in Objects
         /\ counter[p][kind[p]] + 1 \in 0 .. MaxId
  <1>1. counter[p][kind[p]] \in 0 .. MaxId /\ kind[p] \in Kinds
    BY Fields
  <1>2. NewName(p) \in Names
    BY <1>1 DEF NewName, Names
  <1>3. [name |-> NewName(p), by |-> p, life |-> life[p]] \in Objects
    BY <1>2, Fields DEF Objects
  <1>4. counter[p][kind[p]] + 1 \in 0 .. MaxId
    BY <1>1, Fields DEF LoopInv
  <1> QED
    BY <1>2, <1>3, <1>4 DEF NewName

(* Initially /tmp is empty.                                                *)
LEMMA InitOK == Init => IInv
  <1> SUFFICES ASSUME Init PROVE IInv
    OBVIOUS
  <1>1. TypeOK
    BY BackingAssumption DEF Init, TypeOK, Kinds
  <1>2. LoopInv /\ RivalInv /\ TriedInv /\ OwnName /\ StepsOverLeftovers
    BY DEF Init, LoopInv, RivalInv, TriedInv, OwnName, StepsOverLeftovers, Busy
  <1>3. TmpInv
    BY FS_EmptySet DEF Init, TmpInv
  <1>4. OnlyCrashesLeave
    <2>1. {e \in tmp : e.life # life[e.by]} = {}
      BY DEF Init
    <2> QED
      BY <2>1, FS_EmptySet DEF Init, OnlyCrashesLeave
  <1> QED
    BY <1>1, <1>2, <1>3, <1>4 DEF IInv

(* A call begins.                                                          *)
LEMMA BeginOK ==
  ASSUME IInv, NEW p \in Procs, NEW k \in Kinds, Begin(p, k)
  PROVE  IInv'
  <1> USE DEF Begin
  <1>1. TypeOK'
    <2>1. rival \in [Procs -> BOOLEAN]
      BY DEF IInv, TypeOK
    <2>2. rival' \in [Procs -> BOOLEAN]
      BY <2>1, Zenon
    <2> QED
      BY <2>2, Fields DEF IInv, TypeOK
  <1>a. counter[p][k] \in 0 .. MaxId /\ counter' = counter
    BY DEF IInv, TypeOK
  <1>2. LoopInv'
    <2> SUFFICES ASSUME NEW q \in Procs, pc'[q] = "try"
                 PROVE  /\ tries'[q] < MaxTries
                        /\ counter'[q][kind'[q]] + (MaxTries - tries'[q]) <= MaxId
      BY DEF LoopInv
    <2>1. CASE q = p
      BY <1>a, <2>1, BackingAssumption DEF IInv, TypeOK
    <2>2. CASE q # p
      BY <2>2 DEF IInv, TypeOK, LoopInv
    <2> QED
      BY <2>1, <2>2
  <1>3. TmpInv' /\ OnlyCrashesLeave' /\ OwnName'
    BY DEF IInv, TypeOK, TmpInv, OnlyCrashesLeave, OwnName, Mine
  <1>4. RivalInv'
    BY DEF IInv, TypeOK, RivalInv, Busy
  <1>5. TriedInv'
    <2> SUFFICES ASSUME NEW q \in Procs, pc'[q] = "try", ~rival'[q],
                        NEW i \in counter'[q][kind'[q]] - tries'[q] .. counter'[q][kind'[q]] - 1
                 PROVE  Taken(<<kind[q], Pid[q], i>>)'
      BY DEF TriedInv, Taken
    <2>1. CASE q = p
      BY <1>a, <2>1 DEF IInv, TypeOK
    <2>2. CASE q # p
      BY <2>2 DEF IInv, TypeOK, TriedInv, Taken
    <2> QED
      BY <2>1, <2>2
  <1>6. StepsOverLeftovers'
    BY DEF IInv, TypeOK, StepsOverLeftovers
  <1> QED
    BY <1>1, <1>2, <1>3, <1>4, <1>5, <1>6 DEF IInv

(* An entry under a name of p's pid, while p tries without a rival, was    *)
(* left by a process that has died.                                        *)
LEMMA TakenByDead ==
  ASSUME IInv, NEW p \in Procs, pc[p] = "try", ~rival[p],
         NEW e \in tmp, e.name[2] = Pid[p]
  PROVE  e \in Dead
  <1> SUFFICES ASSUME e.life = life[e.by] PROVE FALSE
    BY DEF Dead
  <1>1. e.by \in Procs /\ Pid[e.by] = Pid[p]
    BY Fields DEF IInv, TmpInv
  <1>2. pc[e.by] \in {"made", "opened"}
    BY DEF IInv, OnlyCrashesLeave
  <1> QED
    BY <1>1, <1>2 DEF IInv, RivalInv, Busy

(* The counting argument: a process without a rival has a dead entry for   *)
(* each name it has found taken, and there is one per crash at most.       *)
LEMMA TriesCounted ==
  ASSUME IInv, NEW p \in Procs, pc[p] = "try", ~rival[p], Taken(NewName(p))
  PROVE  tries[p] + 1 <= crashes
  <1> DEFINE c == counter[p][kind[p]]
             I == c - tries[p] .. c
             nm(i) == <<kind[p], Pid[p], i>>
             f == [i \in I |-> CHOOSE e \in tmp : e.name = nm(i)]
  <1>1. c \in Nat /\ tries[p] \in Nat /\ crashes \in Nat
    BY Fields DEF IInv
  <1>2. ASSUME NEW i \in I PROVE Taken(nm(i))
    <2>1. CASE i = c
      BY <2>1 DEF NewName
    <2>2. CASE i # c
      BY <1>1, <1>2, <2>2 DEF IInv, TriedInv
    <2> QED
      BY <2>1, <2>2
  <1>3. ASSUME NEW i \in I PROVE f[i] \in Dead /\ f[i].name = nm(i)
    <2>1. f[i] \in tmp /\ f[i].name = nm(i)
      BY <1>2 DEF Taken
    <2>2. nm(i)[2] = Pid[p]
      OBVIOUS
    <2> HIDE DEF f, nm
    <2> QED
      BY <2>1, <2>2, TakenByDead
  <1>4. f \in [I -> Dead]
    BY <1>3
  <1>5. ASSUME NEW i \in I, NEW j \in I, f[i] = f[j] PROVE i = j
    <2>1. nm(i) = nm(j)
      BY <1>3, <1>5
    <2> QED
      BY <2>1
  <1>6. f \in Injection(I, Dead)
    <2> HIDE DEF f, I
    <2> QED
      BY <1>4, <1>5 DEF Injection, IsInjective
  <1>7. IsFiniteSet(Dead) /\ Cardinality(Dead) \in Nat /\ Cardinality(Dead) <= crashes
    <2>1. Dead \in SUBSET tmp /\ IsFiniteSet(tmp)
      BY DEF IInv, TmpInv, Dead
    <2>2. IsFiniteSet(Dead)
      BY <2>1, FS_Subset
    <2>3. Cardinality(Dead) <= crashes
      BY DEF IInv, OnlyCrashesLeave, Dead
    <2> QED
      BY <2>2, <2>3, FS_CardinalityType
  <1>8. Cardinality(I) = tries[p] + 1
    <2>1. c - tries[p] \in Int /\ c \in Int /\ ~(c - tries[p] > c)
      BY <1>1
    <2>2. Cardinality(I) = c - (c - tries[p]) + 1
      <3> HIDE DEF c
      <3> QED
        BY <2>1, FS_Interval
    <2> QED
      BY <1>1, <2>2
  <1>9. Cardinality(I) <= Cardinality(Dead)
    <2> HIDE DEF f, I
    <2> QED
      BY <1>6, <1>7, FS_Injection
  <1> QED
    BY <1>1, <1>7, <1>8, <1>9

(* A call that has nothing in /tmp returns.                                *)
LEMMA QuietReturnOK ==
  ASSUME IInv, NEW p \in Procs, NEW r \in {"none", "OK", "error", "EEXIST"},
         pc[p] \in {"idle", "try"}, Return(p, r), tmp' = tmp,
         counter' \in [Procs -> [Kinds -> 0 .. MaxId]],
         \A q \in Procs \ {p} : counter'[q] = counter[q],
         r = "EEXIST" /\ ~rival[p] => crashes >= MaxTries
  PROVE  IInv'
  <1> USE DEF Return
  <1>1. TypeOK'
    <2>1. "dir" \in Kinds /\ 0 \in 0 .. MaxTries
      BY BackingAssumption DEF Kinds
    <2> QED
      BY <2>1 DEF IInv, TypeOK
  <1>2. LoopInv'
    BY DEF IInv, LoopInv, TypeOK
  <1>3. TmpInv' /\ OwnName'
    BY DEF IInv, TypeOK, TmpInv, OwnName, Mine
  <1>4. OnlyCrashesLeave'
    <2>1. \A e \in tmp : e.life = life[e.by] => e.by # p
      BY DEF IInv, OnlyCrashesLeave
    <2> QED
      BY <2>1, Fields DEF IInv, TypeOK, OnlyCrashesLeave
  <1>5. RivalInv'
    BY DEF IInv, TypeOK, RivalInv, Busy
  <1>6. TriedInv'
    BY DEF IInv, TypeOK, TriedInv, Taken
  <1>7. StepsOverLeftovers'
    BY DEF IInv, TypeOK, StepsOverLeftovers
  <1> QED
    BY <1>1, <1>2, <1>3, <1>4, <1>5, <1>6, <1>7 DEF IInv

(* The counter after a try.                                                *)
LEMMA NextIdType ==
  ASSUME IInv, NEW p \in Procs, pc[p] = "try", NextId(p)
  PROVE  /\ counter' \in [Procs -> [Kinds -> 0 .. MaxId]]
         /\ \A q \in Procs \ {p} : counter'[q] = counter[q]
         /\ counter'[p][kind[p]] = counter[p][kind[p]] + 1
  <1>1. kind[p] \in Kinds /\ counter[p][kind[p]] + 1 \in 0 .. MaxId
    BY NewObject, Fields DEF IInv
  <1>2. counter \in [Procs -> [Kinds -> 0 .. MaxId]]
    BY DEF IInv, TypeOK
  <1> QED
    BY <1>1, <1>2 DEF NextId

(* A name is found taken: the last try, or one more.                       *)
LEMMA ExistsOK ==
  ASSUME IInv, NEW p \in Procs, try_exists(p)
  PROVE  IInv'
  <1>1. pc[p] = "try" /\ Taken(NewName(p)) /\ NextId(p) /\ tmp' = tmp
    BY DEF try_exists
  <1>2. tries[p] \in Nat /\ MaxTries \in Nat /\ crashes \in Nat /\ tries[p] < MaxTries
    BY <1>1, Fields DEF IInv, LoopInv
  <1>3. CASE tries[p] + 1 = MaxTries
    <2>1. Return(p, "EEXIST")
      BY <1>3 DEF try_exists
    <2>2. ~rival[p] => crashes >= MaxTries
      BY <1>1, <1>2, <1>3, TriesCounted
    <2> QED
      BY <1>1, <2>1, <2>2, NextIdType, QuietReturnOK
  <1>4. CASE tries[p] + 1 # MaxTries
    <2>1. /\ tries' = [tries EXCEPT ![p] = @ + 1]
          /\ UNCHANGED <<pc, kind, name, life, got, ret, rival, crashes>>
      BY <1>4 DEF try_exists
    <2>2. tries[p] + 1 \in 0 .. MaxTries /\ tries'[p] = tries[p] + 1
      BY <1>2, <2>1 DEF IInv, TypeOK
    <2>3. TypeOK'
      BY <1>1, <2>1, <2>2, NextIdType DEF IInv, TypeOK
    <2>4. LoopInv'
      <3> SUFFICES ASSUME NEW q \in Procs, pc[q] = "try"
                   PROVE  /\ tries'[q] < MaxTries
                          /\ counter'[q][kind[q]] + (MaxTries - tries'[q]) <= MaxId
        BY <2>1 DEF LoopInv
      <3>1. CASE q = p
        BY <1>1, <1>2, <1>4, <2>2, <3>1, NextIdType, Fields DEF IInv, LoopInv
      <3>2. CASE q # p
        BY <1>1, <2>1, <3>2, NextIdType DEF IInv, TypeOK, LoopInv
      <3> QED
        BY <3>1, <3>2
    <2>5. TmpInv' /\ OwnName' /\ OnlyCrashesLeave' /\ RivalInv' /\ StepsOverLeftovers'
      BY <1>1, <2>1
      DEF IInv, TmpInv, OwnName, Mine, OnlyCrashesLeave, RivalInv, Busy, StepsOverLeftovers
    <2>6. TriedInv'
      <3> SUFFICES ASSUME NEW q \in Procs, pc[q] = "try", ~rival[q],
                          NEW i \in counter'[q][kind[q]] - tries'[q] .. counter'[q][kind[q]] - 1
                   PROVE  Taken(<<kind[q], Pid[q], i>>)
        BY <1>1, <2>1 DEF TriedInv, Taken
      <3>1. CASE q = p /\ i = counter[p][kind[p]]
        BY <1>1, <3>1 DEF NewName
      <3>2. CASE q = p /\ i # counter[p][kind[p]]
        <4>1. i \in counter[p][kind[p]] - tries[p] .. counter[p][kind[p]] - 1
          <5>1. /\ counter'[p][kind[p]] = counter[p][kind[p]] + 1
                /\ counter[p][kind[p]] \in Nat /\ tries[p] \in Nat
            BY <1>1, <1>2, NextIdType, Fields DEF IInv
          <5>2. i \in (counter[p][kind[p]] + 1) - (tries[p] + 1) .. (counter[p][kind[p]] + 1) - 1
            BY <2>2, <3>2, <5>1
          <5>3. ASSUME NEW c \in Nat, NEW n \in Nat, NEW j \in (c + 1) - (n + 1) .. (c + 1) - 1,
                       j # c
                PROVE  j \in c - n .. c - 1
            BY <5>3
          <5> QED
            BY <3>2, <5>1, <5>2, <5>3
        <4> QED
          BY <3>2, <4>1 DEF IInv, TriedInv
      <3>3. CASE q # p
        BY <1>1, <2>1, <3>3, NextIdType DEF IInv, TypeOK, TriedInv
      <3> QED
        BY <3>1, <3>2, <3>3
    <2> QED
      BY <2>3, <2>4, <2>5, <2>6 DEF IInv
  <1> QED
    BY <1>3, <1>4

(* A name is made: it was free, so it is this process' own.                *)
LEMMA CreatesOK ==
  ASSUME IInv, NEW p \in Procs, try_creates(p)
  PROVE  IInv'
  <1> DEFINE new == [name |-> NewName(p), by |-> p, life |-> life[p]]
  <1>1. /\ pc[p] = "try" /\ NextId(p) /\ tmp' = tmp \cup {new}
        /\ name' = [name EXCEPT ![p] = NewName(p)]
        /\ got' = [got EXCEPT ![p] = IF kind[p] = "dir" THEN None ELSE new]
        /\ pc' = [pc EXCEPT ![p] = IF kind[p] = "dir" THEN "made" ELSE "opened"]
        /\ UNCHANGED <<kind, tries, life, ret, rival, crashes>>
    BY DEF try_creates
  <1>2. new \in Objects /\ NewName(p) \in Names /\ NewName(p)[2] = Pid[p]
    BY <1>1, NewObject DEF IInv
  <1>3. new.name = NewName(p) /\ new.by = p /\ new.life = life[p]
    OBVIOUS
  <1>4. \A e \in tmp : e.name # NewName(p)
    BY DEF try_creates, Taken
  <1> HIDE DEF new
  <1>5. pc'[p] \in {"made", "opened"} /\ name'[p] = NewName(p) /\ Mine(p)' = new
    BY <1>1 DEF IInv, TypeOK, Mine, new
  <1>6. TypeOK'
    BY <1>1, <1>2, NextIdType DEF IInv, TypeOK
  <1>7. LoopInv' /\ RivalInv' /\ StepsOverLeftovers'
    <2>1. LoopInv'
      BY <1>1, <1>5, NextIdType DEF IInv, TypeOK, LoopInv
    <2>2. RivalInv'
      BY <1>1 DEF IInv, TypeOK, RivalInv, Busy
    <2> QED
      BY <1>1, <2>1, <2>2 DEF IInv, StepsOverLeftovers
  <1>8. TmpInv'
    <2>1. IsFiniteSet(tmp')
      BY <1>1, FS_AddElement DEF IInv, TmpInv
    <2>2. \A e \in tmp' : e.name[2] = Pid[e.by] /\ e.life <= life'[e.by]
      BY <1>1, <1>2, <1>3, Fields DEF IInv, TmpInv
    <2>3. \A e, f \in tmp' : e.name = f.name => e = f
      BY <1>1, <1>3, <1>4 DEF IInv, TmpInv
    <2> QED
      BY <1>1, <2>1, <2>2, <2>3 DEF IInv, TmpInv
  <1>9. TriedInv'
    <2> SUFFICES ASSUME NEW q \in Procs, pc'[q] = "try", ~rival[q],
                        NEW i \in counter'[q][kind[q]] - tries[q] .. counter'[q][kind[q]] - 1
                 PROVE  \E e \in tmp' : e.name = <<kind[q], Pid[q], i>>
      BY <1>1 DEF TriedInv, Taken
    <2>1. q # p /\ pc[q] = "try" /\ counter'[q] = counter[q]
      BY <1>1, <1>5, NextIdType DEF IInv, TypeOK
    <2> QED
      BY <1>1, <2>1 DEF IInv, TriedInv, Taken
  <1>10. OwnName'
    <2> SUFFICES ASSUME NEW q \in Procs, pc'[q] \in {"made", "opened"}
                 PROVE  /\ \A e \in tmp' : e.name = name'[q] => e = Mine(q)'
                        /\ Mine(q)' \in tmp' /\ got'[q] \in {Mine(q)', None}
      BY DEF OwnName
    <2>1. CASE q = p
      BY <1>1, <1>3, <1>4, <1>5, <2>1 DEF IInv, TypeOK
    <2>2. CASE q # p
      <3>1. Mine(q)' = Mine(q) /\ pc[q] \in {"made", "opened"} /\ name'[q] = name[q]
            /\ got'[q] = got[q]
        BY <1>1, <2>2 DEF IInv, TypeOK, Mine
      <3>2. Mine(q) \in tmp /\ Mine(q).name = name[q]
        BY <3>1 DEF IInv, OwnName, Mine
      <3>3. new.name # name[q]
        BY <1>3, <1>4, <3>2
      <3> QED
        BY <1>1, <3>1, <3>2, <3>3 DEF IInv, OwnName
    <2> QED
      BY <2>1, <2>2
  <1>11. OnlyCrashesLeave'
    <2>1. \A e \in tmp' : e.life = life'[e.by] =>
            pc'[e.by] \in {"made", "opened"} /\ name'[e.by] = e.name
      BY <1>1, <1>3, <1>5, Fields DEF IInv, TypeOK, OnlyCrashesLeave
    <2>2. {e \in tmp' : e.life # life'[e.by]} = {e \in tmp : e.life # life[e.by]}
      BY <1>1, <1>3
    <2> QED
      BY <1>1, <2>1, <2>2 DEF IInv, OnlyCrashesLeave
  <1> QED
    BY <1>6, <1>7, <1>8, <1>9, <1>10, <1>11 DEF IInv

(* opendir finds the process' own directory, or fails.                     *)
LEMMA OpendirOK ==
  ASSUME IInv, NEW p \in Procs, opendir(p) \/ opendir_fails(p)
  PROVE  IInv'
  <1>1. /\ pc[p] = "made" /\ pc' = [pc EXCEPT ![p] = "opened"]
        /\ UNCHANGED <<tmp, kind, counter, tries, name, life, ret, rival, crashes>>
    BY DEF opendir, opendir_fails
  <1>2. got' = got \/ \E e \in tmp : e.name = name[p] /\ got' = [got EXCEPT ![p] = e]
    BY DEF opendir, opendir_fails
  <1>3. Mine(p) \in tmp /\ got[p] \in {Mine(p), None}
        /\ (\A e \in tmp : e.name = name[p] => e = Mine(p))
    BY <1>1 DEF IInv, OwnName
  <1>4. got' = got \/ got' = [got EXCEPT ![p] = Mine(p)]
    BY <1>2, <1>3
  <1>5. TypeOK'
    BY <1>1, <1>3, <1>4 DEF IInv, TypeOK
  <1>6. LoopInv' /\ TriedInv'
    BY <1>1 DEF IInv, TypeOK, LoopInv, TriedInv, Taken
  <1>7. TmpInv' /\ RivalInv' /\ StepsOverLeftovers'
    BY <1>1 DEF IInv, TypeOK, TmpInv, RivalInv, Busy, StepsOverLeftovers
  <1>8. OwnName'
    BY <1>1, <1>3, <1>4 DEF IInv, TypeOK, OwnName, Mine
  <1>9. OnlyCrashesLeave'
    BY <1>1, Fields DEF IInv, TypeOK, OnlyCrashesLeave
  <1> QED
    BY <1>5, <1>6, <1>7, <1>8, <1>9 DEF IInv

(* The name is removed: the process' own entry and no other.               *)
LEMMA RemoveOK ==
  ASSUME IInv, NEW p \in Procs, remove_name(p)
  PROVE  IInv'
  <1>1. PICK r \in {"error", "OK"} : Return(p, r)
    BY DEF remove_name
  <1>2. pc[p] = "opened" /\ counter' = counter
    BY DEF remove_name
  <1>3. tmp' = tmp \ {Mine(p)}
    <2>1. Mine(p) \in tmp /\ Mine(p).name = name[p]
          /\ (\A e \in tmp : e.name = name[p] => e = Mine(p))
      BY <1>2 DEF IInv, OwnName, Mine
    <2> QED
      BY <2>1 DEF remove_name
  <1>4. \A q \in Procs \ {p} : Mine(q) # Mine(p)
    BY DEF Mine
  <1> USE DEF Return
  <1>5. TypeOK'
    <2>1. "dir" \in Kinds /\ 0 \in 0 .. MaxTries
      BY BackingAssumption DEF Kinds
    <2> QED
      BY <1>1, <1>2, <1>3, <2>1 DEF IInv, TypeOK
  <1>6. LoopInv' /\ RivalInv' /\ StepsOverLeftovers'
    <2>1. LoopInv'
      BY <1>1, <1>2 DEF IInv, TypeOK, LoopInv
    <2>2. RivalInv'
      BY <1>1 DEF IInv, TypeOK, RivalInv, Busy
    <2> QED
      BY <1>1, <2>1, <2>2 DEF IInv, TypeOK, StepsOverLeftovers
  <1>7. TmpInv'
    BY <1>1, <1>3, FS_RemoveElement DEF IInv, TmpInv
  <1>8. TriedInv'
    <2> SUFFICES ASSUME NEW q \in Procs, pc'[q] = "try", ~rival[q],
                        NEW i \in counter[q][kind'[q]] - tries'[q] .. counter[q][kind'[q]] - 1
                 PROVE  \E e \in tmp' : e.name = <<kind'[q], Pid[q], i>>
      BY <1>1, <1>2 DEF TriedInv, Taken
    <2>1. q # p /\ pc[q] = "try" /\ kind'[q] = kind[q] /\ tries'[q] = tries[q]
      BY <1>1 DEF IInv, TypeOK
    <2>2. PICK e \in tmp : e.name = <<kind[q], Pid[q], i>>
      BY <2>1 DEF IInv, TriedInv, Taken
    <2>3. e \in Dead
      BY <2>1, <2>2, TakenByDead
    <2>4. e # Mine(p)
      BY <2>3 DEF Dead, Mine
    <2> QED
      BY <1>3, <2>1, <2>2, <2>4
  <1>9. OwnName'
    BY <1>1, <1>3, <1>4 DEF IInv, TypeOK, OwnName, Mine
  <1>10. OnlyCrashesLeave'
    <2>1. \A e \in tmp' : e.life = life[e.by] => e.by # p
      BY <1>3 DEF IInv, TypeOK, Objects, OnlyCrashesLeave, Mine
    <2>2. \A e \in tmp' : e.life = life'[e.by] =>
            pc'[e.by] \in {"made", "opened"} /\ name'[e.by] = e.name
      BY <1>1, <1>3, <2>1, Fields DEF IInv, TypeOK, OnlyCrashesLeave
    <2>3. {e \in tmp' : e.life # life'[e.by]} = Dead
      BY <1>1, <1>3 DEF Dead, Mine
    <2> QED
      BY <1>1, <2>2, <2>3 DEF IInv, OnlyCrashesLeave, Dead
  <1> QED
    BY <1>5, <1>6, <1>7, <1>8, <1>9, <1>10 DEF IInv

(* A process dies: the entry it was creating, if any, joins the dead.      *)
LEMMA CrashOK ==
  ASSUME IInv, NEW p \in Procs, crash(p)
  PROVE  IInv'
  <1> USE DEF crash
  <1>1. life[p] \in Nat /\ crashes \in Nat /\ life[p] <= crashes /\ crashes' = crashes + 1
        /\ crashes' \in 0 .. MaxCrashes /\ life[p] + 1 \in 0 .. MaxCrashes
    BY Fields, BackingAssumption DEF IInv, TypeOK, TmpInv
  <1>2. TypeOK'
    <2>1. "dir" \in Kinds /\ 0 \in 0 .. MaxTries /\ 0 \in 0 .. MaxId
      BY BackingAssumption DEF Kinds
    <2> QED
      BY <1>1, <2>1 DEF IInv, TypeOK
  <1>3. LoopInv' /\ RivalInv' /\ TriedInv'
    <2>1. LoopInv'
      BY DEF IInv, TypeOK, LoopInv
    <2>2. RivalInv'
      BY DEF IInv, TypeOK, RivalInv, Busy
    <2>3. TriedInv'
      BY DEF IInv, TypeOK, TriedInv, Taken
    <2> QED
      BY <2>1, <2>2, <2>3
  <1>4. TmpInv'
    BY <1>1, Fields DEF IInv, TypeOK, TmpInv
  <1>5. OwnName'
    BY DEF IInv, TypeOK, OwnName, Mine
  <1>6. StepsOverLeftovers'
    BY <1>1, Fields DEF IInv, TypeOK, StepsOverLeftovers
  <1>7. OnlyCrashesLeave'
    <2>1. \A e \in tmp : e.life = life'[e.by] => e.by # p
      BY <1>1, Fields DEF IInv, TypeOK, TmpInv
    <2>2. \A e \in tmp' : e.life = life'[e.by] =>
            pc'[e.by] \in {"made", "opened"} /\ name'[e.by] = e.name
      BY <2>1, Fields DEF IInv, TypeOK, OnlyCrashesLeave
    <2>3. Dead' \subseteq Dead \cup {Mine(p)}
      <3> SUFFICES ASSUME NEW e \in tmp, e.life # life'[e.by], e.life = life[e.by]
                   PROVE  e = Mine(p)
        BY DEF Dead
      <3>1. e.by = p
        BY Fields DEF IInv, TypeOK
      <3>2. pc[p] \in {"made", "opened"} /\ name[p] = e.name
        BY <3>1 DEF IInv, OnlyCrashesLeave
      <3> QED
        BY <3>2 DEF IInv, OwnName
    <2>4. IsFiniteSet(Dead) /\ Cardinality(Dead) \in Nat /\ Cardinality(Dead) <= crashes
      <3>1. Dead \in SUBSET tmp /\ IsFiniteSet(tmp)
        BY DEF IInv, TmpInv, Dead
      <3>2. Cardinality(Dead) <= crashes
        BY DEF IInv, OnlyCrashesLeave, Dead
      <3> QED
        BY <3>1, <3>2, FS_Subset, FS_CardinalityType
    <2>5. IsFiniteSet(Dead \cup {Mine(p)}) /\ Cardinality(Dead \cup {Mine(p)}) <= crashes + 1
          /\ Cardinality(Dead \cup {Mine(p)}) \in Nat
      <3> HIDE DEF crash
      <3>1. /\ IsFiniteSet(Dead \cup {Mine(p)})
            /\ Cardinality(Dead \cup {Mine(p)})
                 = IF Mine(p) \in Dead THEN Cardinality(Dead) ELSE Cardinality(Dead) + 1
        BY <2>4, FS_AddElement, Zenon
      <3> QED
        BY <1>1, <2>4, <3>1
    <2>6. Cardinality(Dead') <= Cardinality(Dead \cup {Mine(p)}) /\ Cardinality(Dead') \in Nat
      BY <2>3, <2>5, FS_Subset, FS_CardinalityType
    <2>7. Cardinality(Dead') <= crashes'
      BY <1>1, <2>5, <2>6
    <2> QED
      BY <2>2, <2>7 DEF OnlyCrashesLeave, Dead
  <1> QED
    BY <1>2, <1>3, <1>4, <1>5, <1>6, <1>7 DEF IInv

(* Every step keeps the invariant.                                         *)
LEMMA NextOK == IInv /\ [Next]_vars => IInv'
  <1> SUFFICES ASSUME IInv, [Next]_vars PROVE IInv'
    OBVIOUS
  <1>1. ASSUME NEW p \in Procs, create_backing_dir(p) \/ create_unlinked_tmp_fd(p)
        PROVE  IInv'
    <2>1. "dir" \in Kinds /\ "file" \in Kinds
      BY DEF Kinds
    <2> QED
      BY <1>1, <2>1, BeginOK DEF create_backing_dir, create_unlinked_tmp_fd
  <1>2. ASSUME NEW p \in Procs, create_memfd(p) PROVE IInv'
    <2>1. counter' \in [Procs -> [Kinds -> 0 .. MaxId]] /\ counter' = counter
      BY <1>2 DEF create_memfd, IInv, TypeOK
    <2>2. PICK r \in {"OK", "error"} : Return(p, r)
      BY <1>2 DEF create_memfd
    <2> QED
      BY <1>2, <2>1, <2>2, QuietReturnOK DEF create_memfd
  <1>3. ASSUME NEW p \in Procs, try_fails(p) PROVE IInv'
    <2>1. pc[p] = "try" /\ NextId(p) /\ Return(p, "error") /\ tmp' = tmp
      BY <1>3 DEF try_fails
    <2> QED
      BY <2>1, NextIdType, QuietReturnOK
  <1>4. ASSUME NEW p \in Procs, Step(p) \/ crash(p) PROVE IInv'
    BY <1>3, <1>4, ExistsOK, CreatesOK, OpendirOK, RemoveOK, CrashOK DEF Step
  <1>5. CASE UNCHANGED vars
    <2> USE <1>5 DEF vars
    <2>1. TypeOK' /\ LoopInv' /\ TmpInv' /\ RivalInv'
      BY DEF IInv, TypeOK, LoopInv, TmpInv, RivalInv, Busy
    <2>2. TriedInv' /\ OwnName' /\ OnlyCrashesLeave' /\ StepsOverLeftovers'
      BY DEF IInv, TriedInv, Taken, OwnName, Mine, OnlyCrashesLeave, StepsOverLeftovers
    <2> QED
      BY <2>1, <2>2 DEF IInv
  <1> QED
    BY <1>1, <1>2, <1>4, <1>5 DEF Next

(* Every reachable state satisfies the inductive invariant.                *)
THEOREM Invariance == Spec => []IInv
  <1>1. Init => IInv
    BY InitOK
  <1>2. IInv /\ [Next]_vars => IInv'
    BY NextOK
  <1> QED
    BY <1>1, <1>2, PTL DEF Spec

(* The variables of create_backing_fd and create_backing_dir keep their    *)
(* types; the counters stay within the names of a call's tries.            *)
THEOREM TypeCorrect == Spec => []TypeOK
  <1>1. IInv => TypeOK
    BY DEF IInv
  <1> QED
    BY <1>1, Invariance, PTL

(* What create_backing_dir and create_unlinked_tmp_fd open and remove by   *)
(* name is what they made, for any processes that share /tmp.              *)
THEOREM AlwaysOwnName == Spec => []OwnName
  <1>1. IInv => OwnName
    BY DEF IInv
  <1> QED
    BY <1>1, Invariance, PTL

(* The library leaves at most one name in /tmp per process that dies, and  *)
(* none by failing.                                                        *)
THEOREM FailuresLeaveNothing == Spec => []OnlyCrashesLeave
  <1>1. IInv => OnlyCrashesLeave
    BY DEF IInv
  <1> QED
    BY <1>1, Invariance, PTL

(* Without a rival of the same pid the loop over names gives up only if    *)
(* the dead outnumber its tries, for 128 tries or any other number.        *)
THEOREM GivesUpOnlyWhenFull == Spec => []StepsOverLeftovers
  <1>1. IInv => StepsOverLeftovers
    BY DEF IInv
  <1> QED
    BY <1>1, Invariance, PTL
=============================================================================
