--------------------------- MODULE SnapshotProofs ---------------------------
(***************************************************************************)
(* Proofs about module Snapshot, for any number of threads and updates:    *)
(* every scan is atomic, and none takes more collects than there are       *)
(* threads.                                                                *)
(***************************************************************************)
EXTENDS Snapshot, FiniteSetTheorems, WellFoundedInduction, TLAPS

-----------------------------------------------------------------------------
(* The inductive invariant                                                 *)

Scanning(t) == pc[t] \in {"collectOld", "collectNew"}

\* What the program counter says of the thread's other variables.
ControlOK(t) ==
    /\ window[t] = {} <=> ~Scanning(t)
    /\ ~Scanning(t) => tid[t] = 1
    /\ pc[t] # "idle" => regs[t].label < MaxUpdates
    /\ pc[t] # "collectNew" => moved[t] = {} /\ collects[t] = 0
    /\ pc[t] = "collectNew" => collects[t] = Cardinality(moved[t]) + 1

\* t has read r from the register of u in a scan that was called when memory
\* held b.  If u has updated its register twice since then, it called its last
\* scan after t did, and returned from it before t does.
Read(t, b, u, r) ==
    /\ b[u] <= r.label
    /\ r.label <= regs[u].label
    /\ r.label >= b[u] + 2 => r.snap \in window[t]

\* Memory held b when t called scan, and has only grown since.
Since(t, b) ==
    /\ values(regs) \in window[t]
    /\ b[t] = regs[t].label
    /\ \A u \in Thread :
        /\ b[u] <= regs[u].label
        /\ regs[u].label >= b[u] + 2 => regs[u].snap \in window[t]
        /\ regs[u].label >= b[u] + 1 => /\ window[u] \subseteq window[t]
                                        /\ pc[u] = "store" => result[u] \in window[t]

\* Memory held v between the two collects, of which the second has come to tid.
Between(t, v) ==
    \A u \in Thread :
        /\ oldCopy[t][u].label <= v[u]
        /\ v[u] <= regs[u].label
        /\ u < tid[t] => v[u] <= newCopy[t][u].label

CollectsOK(t, b) ==
    /\ pc[t] = "collectOld" =>
        \A u \in Thread : u < tid[t] => Read(t, b, u, oldCopy[t][u])
    /\ pc[t] = "collectNew" =>
        /\ \A u \in Thread : /\ Read(t, b, u, oldCopy[t][u])
                             /\ u < tid[t] => Read(t, b, u, newCopy[t][u])
                             /\ u \in moved[t] => oldCopy[t][u].label >= b[u] + 1
        /\ \E v \in window[t] : Between(t, v)

ScanOK(t) == Scanning(t) => \E b \in window[t] : Since(t, b) /\ CollectsOK(t, b)

SnapshotInv ==
    /\ TypeOK
    /\ \A t \in Thread : ControlOK(t) /\ ScanOK(t)

-----------------------------------------------------------------------------
(* Helpers                                                                 *)

\* The fields of a register or of a copy of one.
LEMMA ValueFields ==
    /\ \A r \in SnapValue : r.label \in 0..MaxUpdates /\ r.label \in Nat /\ r.snap \in Vector
    /\ \A a \in [Thread -> SnapValue] :
        /\ values(a) \in Vector
        /\ \A u \in Thread : values(a)[u] = a[u].label
    /\ \A v \in Vector, u \in Thread : v[u] \in Nat
BY MaxUpdatesAssumption DEF SnapValue, Vector, values

\* The types of one thread's variables.
LEMMA OwnTypes ==
    ASSUME TypeOK, NEW t \in Thread
    PROVE  /\ regs[t] \in SnapValue /\ pc[t] \in PCState
           /\ oldCopy[t] \in [Thread -> SnapValue] /\ newCopy[t] \in [Thread -> SnapValue]
           /\ moved[t] \in SUBSET Thread /\ tid[t] \in Thread
           /\ result[t] \in Vector /\ window[t] \in SUBSET Vector /\ collects[t] \in Nat
           /\ regs[t].label \in Nat
BY ValueFields DEF TypeOK

\* Threads are numbered from 1 on.
LEMMA ThreadFacts ==
    /\ 1 \in Thread /\ NumThread \in Nat
    /\ \A u \in Thread : u \in Nat /\ 1 <= u /\ u <= NumThread
    /\ \A u \in Thread : u < NumThread => u + 1 \in Thread
BY NumThreadAssumption DEF Thread

\* What SnapValue stands in for an unfilled local array is one.
LEMMA InitialTypes ==
    /\ initialValue \in SnapValue /\ initialArray \in [Thread -> SnapValue]
    /\ values(initialArray) = [t \in Thread |-> 0] /\ [t \in Thread |-> 0] \in Vector
BY MaxUpdatesAssumption DEF initialValue, initialArray, SnapValue, Vector, values

\* A non-empty set of threads has a first one.
LEMMA FirstMember == ASSUME NEW S \in SUBSET Thread, S # {} PROVE first(S) \in S
<1> DEFINE R == {p \in Nat \X Nat : p[1] < p[2]}
<1>1. IsWellFoundedOn(R, Nat)
  BY NatLessThanWellFounded DEF OpToRel
<1>2. S \subseteq Nat
  BY ThreadFacts
<1>3. PICK u \in S : \A v \in S : <<v, u>> \notin R
  <2> HIDE DEF R
  <2> QED
    BY <1>1, <1>2, WFMin
<1>4. \A v \in S : u <= v
  <2>1. ASSUME NEW v \in S, ~(u <= v) PROVE <<v, u>> \in R
    BY <1>2, <2>1
  <2> QED
    BY <1>3, <2>1
<1> QED
  BY <1>4 DEF first

\* A step of t that writes no register leaves the scans of others as they are.
LEMMA OtherScans ==
    ASSUME SnapshotInv, NEW t \in Thread, NEW u \in Thread, u # t,
           regs' = regs,
           oldCopy'[u] = oldCopy[u], newCopy'[u] = newCopy[u], moved'[u] = moved[u],
           tid'[u] = tid[u],
           \A w \in Thread \ {t} : /\ pc'[w] = pc[w]
                                   /\ window'[w] = window[w]
                                   /\ result'[w] = result[w],
           window'[t] \subseteq window[t] \cup {values(regs)},
           pc'[t] = "store" => result'[t] \in window[t]
    PROVE  ScanOK(u)'
<1> SUFFICES ASSUME Scanning(u)' PROVE \E b \in window'[u] : Since(u, b)' /\ CollectsOK(u, b)'
  BY DEF ScanOK
<1>1. Scanning(u)
  BY DEF Scanning
<1>2. PICK b \in window[u] : Since(u, b) /\ CollectsOK(u, b)
  BY <1>1 DEF SnapshotInv, ScanOK
<1>3. values(regs)' = values(regs)
  BY DEF values
<1>4. Since(u, b)'
  BY <1>2, <1>3 DEF Since
<1>5. CollectsOK(u, b)'
  BY <1>2 DEF CollectsOK, Read, Between
<1> QED
  BY <1>2, <1>4, <1>5

\* The variables of the other threads stay as they are.
OthersStay(t) ==
    \A u \in Thread \ {t} :
        /\ pc'[u] = pc[u] /\ tid'[u] = tid[u] /\ result'[u] = result[u]
        /\ oldCopy'[u] = oldCopy[u] /\ newCopy'[u] = newCopy[u] /\ moved'[u] = moved[u]
        /\ window'[u] = window[u] /\ collects'[u] = collects[u]

\* For a step of t that writes no register, only t's own part is to be shown.
LEMMA OwnPart ==
    ASSUME SnapshotInv, NEW t \in Thread, TypeOK', regs' = regs, OthersStay(t),
           window'[t] \subseteq window[t] \cup {values(regs)},
           pc'[t] = "store" => result'[t] \in window[t],
           ControlOK(t)', ScanOK(t)'
    PROVE  SnapshotInv'
<1>1. ASSUME NEW u \in Thread, u # t PROVE ControlOK(u)' /\ ScanOK(u)'
  <2>1. ControlOK(u)'
    BY <1>1 DEF SnapshotInv, ControlOK, Scanning, OthersStay
  <2>2. ScanOK(u)'
    BY <1>1, OtherScans DEF OthersStay
  <2> QED
    BY <2>1, <2>2
<1> QED
  BY <1>1 DEF SnapshotInv

-----------------------------------------------------------------------------
(* The steps                                                               *)

\* A call of scan: what memory holds now is where its window begins.
LEMMA CallScanInv ==
    ASSUME SnapshotInv, NEW t \in Thread, CallScan(t)
    PROVE  SnapshotInv'
<1>0. TypeOK /\ ControlOK(t)
  BY DEF SnapshotInv
<1>1. /\ pc[t] = "idle" /\ regs[t].label < MaxUpdates
      /\ pc'[t] = "collectOld" /\ window'[t] = {values(regs)}
      /\ UNCHANGED <<regs, oldCopy, newCopy, moved, tid, result, collects>>
      /\ OthersStay(t)
  BY <1>0 DEF CallScan, TypeOK, copies, OthersStay
<1>2. values(regs) \in Vector
  BY <1>0, ValueFields DEF TypeOK
<1>3. TypeOK'
  BY <1>0, <1>1, <1>2 DEF TypeOK, CallScan, PCState
<1>4. ControlOK(t)'
  BY <1>0, <1>1 DEF ControlOK, Scanning
<1>5. ScanOK(t)'
  <2> DEFINE b == values(regs)
  <2>1. \A u \in Thread : b[u] = regs[u].label /\ regs[u].label \in Nat
    BY <1>0, ValueFields, OwnTypes DEF TypeOK
  <2>2. Since(t, b)'
    BY <1>1, <2>1 DEF Since, values
  <2>3. CollectsOK(t, b)'
    BY <1>0, <1>1, ThreadFacts DEF CollectsOK, ControlOK, Scanning
  <2> QED
    BY <1>1, <2>2, <2>3 DEF ScanOK
<1> QED
  BY <1>1, <1>3, <1>4, <1>5, OwnPart

\* A register that t reads now has been read since t called scan.
LEMMA ReadNow ==
    ASSUME TypeOK, NEW t \in Thread, NEW b \in Vector, Since(t, b), NEW u \in Thread
    PROVE  Read(t, b, u, regs[u])
BY OwnTypes, ValueFields DEF Since, Read

\* A pass of the first collect's loop.
LEMMA CollectOldInv ==
    ASSUME SnapshotInv, NEW t \in Thread, CollectOld(t)
    PROVE  SnapshotInv'
<1> DEFINE k == tid[t]
<1>0. /\ TypeOK /\ ControlOK(t) /\ ScanOK(t) /\ pc[t] = "collectOld"
      /\ k \in Thread /\ k \in Nat /\ NumThread \in Nat
      /\ \A u \in Thread : u \in Nat /\ u <= NumThread
  BY OwnTypes, ThreadFacts DEF SnapshotInv, CollectOld
<1>1. /\ UNCHANGED <<regs, newCopy, moved, result, window>>
      /\ oldCopy' = [oldCopy EXCEPT ![t] = [oldCopy[t] EXCEPT ![k] = regs[k]]]
      /\ \/ /\ k < NumThread
            /\ tid' = [tid EXCEPT ![t] = k + 1]
            /\ UNCHANGED <<pc, collects>>
         \/ /\ k = NumThread
            /\ tid' = [tid EXCEPT ![t] = 1]
            /\ pc' = [pc EXCEPT ![t] = "collectNew"]
            /\ collects' = [collects EXCEPT ![t] = 1]
  <2>1. UNCHANGED <<regs, newCopy, moved, result, window>>
    BY DEF CollectOld
  <2>2. oldCopy' = [oldCopy EXCEPT ![t] = [oldCopy[t] EXCEPT ![k] = regs[k]]]
    BY DEF CollectOld
  <2>3. \/ k < NumThread /\ tid' = [tid EXCEPT ![t] = tid[t] + 1] /\ UNCHANGED <<pc, collects>>
        \/ /\ ~(k < NumThread)
           /\ tid' = [tid EXCEPT ![t] = 1]
           /\ pc' = [pc EXCEPT ![t] = "collectNew"]
           /\ collects' = [collects EXCEPT ![t] = 1]
    BY <1>0 DEF CollectOld, TypeOK
  <2>4. k < NumThread \/ k = NumThread
    BY <1>0
  <2> QED
    BY <2>1, <2>2, <2>3, <2>4
<1>2. TypeOK'
  <2>1. oldCopy' \in [Thread -> [Thread -> SnapValue]]
    BY <1>0, <1>1 DEF TypeOK
  <2>2. tid' \in [Thread -> Thread]
    <3>1. 1 \in Thread /\ (k < NumThread => k + 1 \in Thread)
      BY <1>0, ThreadFacts
    <3> HIDE DEF k
    <3> QED
      BY <1>0, <1>1, <3>1 DEF TypeOK
  <2> QED
    BY <1>0, <1>1, <2>1, <2>2 DEF TypeOK, PCState
<1>3. OthersStay(t)
  BY <1>0, <1>1 DEF OthersStay, TypeOK
<1>4. /\ pc'[t] = IF k < NumThread THEN "collectOld" ELSE "collectNew"
      /\ tid'[t] = IF k < NumThread THEN k + 1 ELSE 1
      /\ collects'[t] = IF k < NumThread THEN collects[t] ELSE 1
      /\ oldCopy'[t] = [oldCopy[t] EXCEPT ![k] = regs[k]]
  BY <1>0, <1>1 DEF TypeOK
<1>5. \A u \in Thread : oldCopy'[t][u] = IF u = k THEN regs[k] ELSE oldCopy[t][u]
  BY <1>0, <1>4, OwnTypes
<1>6. ControlOK(t)'
  <2>1. moved'[t] = {} /\ Cardinality({}) + 1 = 1 /\ tid[t] = k
    BY <1>0, <1>1, FS_EmptySet DEF ControlOK
  <2> HIDE DEF k
  <2> QED
    BY <1>0, <1>1, <1>4, <2>1 DEF ControlOK, Scanning
<1>7. ScanOK(t)'
  <2>1. PICK b \in window[t] : Since(t, b) /\ CollectsOK(t, b)
    BY <1>0 DEF ScanOK, Scanning
  <2>2. b \in Vector /\ values(regs) \in window[t] /\ values(regs) \in Vector
    BY <1>0, <2>1, ValueFields DEF TypeOK, Since
  <2>3. Since(t, b)'
    BY <1>1, <1>3, <1>4, <2>1 DEF Since, values, OthersStay
  <2>4. ASSUME NEW u \in Thread, u < k + 1 PROVE Read(t, b, u, oldCopy[t][u])'
    <3>1. Read(t, b, u, oldCopy'[t][u])
      BY <1>0, <1>5, <2>1, <2>2, <2>4, ReadNow DEF CollectsOK
    <3> QED
      BY <1>1, <3>1 DEF Read
  <2>5. Between(t, values(regs))' \/ k < NumThread
    <3>1. SUFFICES ASSUME k = NumThread, NEW u \in Thread
                   PROVE  oldCopy'[t][u].label <= values(regs)[u] /\ values(regs)[u] <= regs[u].label
      BY <1>0, <1>1, <1>4, ThreadFacts DEF Between, values
    <3>2. Read(t, b, u, oldCopy[t][u])'
      BY <1>0, <2>4, <3>1
    <3>3. values(regs)[u] = regs[u].label /\ regs[u].label \in Nat
      BY <1>0, ValueFields, OwnTypes DEF TypeOK
    <3> QED
      BY <1>1, <3>2, <3>3 DEF Read
  <2>6. CollectsOK(t, b)'
    <3>1. CASE k < NumThread
      BY <1>4, <2>4, <3>1 DEF CollectsOK
    <3>2. CASE k = NumThread
      <4>1. \A u \in Thread : Read(t, b, u, oldCopy[t][u])'
        BY <1>0, <2>4, <3>2
      <4>2. moved'[t] = {} /\ \A u \in Thread : ~(u < tid'[t])
        BY <1>0, <1>1, <1>4, <3>2, ThreadFacts DEF ControlOK
      <4>3. \E v \in window'[t] : Between(t, v)'
        <5>1. values(regs)' \in window'[t] /\ ~(k < NumThread)
          BY <1>0, <1>1, <2>2, <3>2 DEF values
        <5> QED
          BY <2>5, <5>1
      <4> QED
        BY <1>4, <3>2, <4>1, <4>2, <4>3 DEF CollectsOK
    <3> QED
      BY <1>0, <3>1, <3>2
  <2> QED
    BY <1>1, <2>1, <2>3, <2>6 DEF ScanOK
<1> QED
  BY <1>0, <1>1, <1>2, <1>3, <1>4, <1>6, <1>7, OwnPart

\* What the second of two collects says, once its last register is read: every
\* value read was there after the call, memory held some v between the two
\* collects, and who was marked before had updated by then.
Collected(t, b, v, new) ==
    /\ b \in window[t] /\ v \in window[t] /\ Since(t, b)
    /\ \A u \in Thread :
        /\ Read(t, b, u, oldCopy[t][u])
        /\ Read(t, b, u, new[u])
        /\ oldCopy[t][u].label <= v[u]
        /\ v[u] <= new[u].label
        /\ u \in moved[t] => oldCopy[t][u].label >= b[u] + 1

\* The last read of a collect: the collect is between two vectors of labels.
LEMMA LastRead ==
    ASSUME SnapshotInv, NEW t \in Thread, pc[t] = "collectNew", tid[t] = NumThread,
           NEW new, new = [newCopy[t] EXCEPT ![tid[t]] = regs[tid[t]]]
    PROVE  /\ new \in [Thread -> SnapValue]
           /\ \E b, v \in Vector : Collected(t, b, v, new)
<1>0. /\ TypeOK /\ ScanOK(t) /\ NumThread \in Thread /\ NumThread \in Nat
      /\ \A u \in Thread : u \in Nat /\ u <= NumThread
  BY OwnTypes, ThreadFacts DEF SnapshotInv
<1>1. /\ new \in [Thread -> SnapValue]
      /\ \A u \in Thread : new[u] = IF u = NumThread THEN regs[u] ELSE newCopy[t][u]
  BY <1>0, OwnTypes
<1>2. PICK b \in window[t] : Since(t, b) /\ CollectsOK(t, b)
  BY <1>0 DEF ScanOK, Scanning
<1>3. PICK v \in window[t] : Between(t, v)
  BY <1>2 DEF CollectsOK
<1>4. b \in Vector /\ v \in Vector
  BY <1>0, <1>2, <1>3, OwnTypes
<1>5. ASSUME NEW u \in Thread
      PROVE  /\ Read(t, b, u, oldCopy[t][u])
             /\ Read(t, b, u, new[u])
             /\ oldCopy[t][u].label <= v[u]
             /\ v[u] <= new[u].label
             /\ u \in moved[t] => oldCopy[t][u].label >= b[u] + 1
  <2>1. u < NumThread \/ u = NumThread
    <3>1. u \in Nat /\ u <= NumThread /\ NumThread \in Nat
      BY <1>0
    <3> QED
      BY <3>1
  <2>2. Read(t, b, u, new[u])
    BY <1>0, <1>1, <1>2, <1>4, <2>1, ReadNow DEF CollectsOK
  <2>3. v[u] <= new[u].label
    BY <1>0, <1>1, <1>3, <2>1 DEF Between
  <2> QED
    BY <1>2, <1>3, <2>2, <2>3 DEF CollectsOK, Between
<1> QED
  BY <1>1, <1>2, <1>4, <1>5 DEF Collected

\* A scan that returns what its second collect read returns a vector that
\* memory held between the two collects, and one that returns the scan of a
\* thread that moved twice returns a vector that memory held after its call.
LEMMA Returned ==
    ASSUME SnapshotInv, NEW t \in Thread, NEW new \in [Thread -> SnapValue],
           NEW b \in Vector, NEW v \in Vector, Collected(t, b, v, new)
    PROVE  /\ different(oldCopy[t], new) = {} => values(new) \in window[t]
           /\ \A u \in different(oldCopy[t], new) : u \in moved[t] => new[u].snap \in window[t]
<1>0. \A u \in Thread : /\ oldCopy[t][u].label \in Nat /\ new[u].label \in Nat
                        /\ b[u] \in Nat /\ v[u] \in Nat
  BY OwnTypes, ValueFields DEF SnapshotInv
<1>1. ASSUME different(oldCopy[t], new) = {} PROVE values(new) \in window[t]
  <2>1. \A u \in Thread : oldCopy[t][u].label = new[u].label
    BY <1>1 DEF different
  <2>2. ASSUME NEW u \in Thread PROVE values(new)[u] = v[u]
    <3>1. values(new)[u] = new[u].label
      BY ValueFields
    <3>2. new[u].label <= v[u] /\ v[u] <= new[u].label
      BY <2>1 DEF Collected
    <3>3. new[u].label \in Nat /\ v[u] \in Nat
      BY <1>0
    <3> QED
      BY <3>1, <3>2, <3>3
  <2>3. values(new) = v
    BY <2>2, ValueFields DEF Vector
  <2> QED
    BY <2>3 DEF Collected
<1>2. ASSUME NEW u \in different(oldCopy[t], new), u \in moved[t] PROVE new[u].snap \in window[t]
  <2>1. u \in Thread /\ oldCopy[t][u].label # new[u].label
    BY DEF different
  <2>2. new[u].label >= b[u] + 2
    BY <1>0, <1>2, <2>1 DEF Collected
  <2> QED
    BY <2>1, <2>2 DEF Collected, Read
<1> QED
  BY <1>1, <1>2

\* A thread never sees its own register move while it scans.
LEMMA OwnStill ==
    ASSUME SnapshotInv, NEW t \in Thread, pc[t] = "collectNew"
    PROVE  t \notin moved[t]
<1>1. PICK b \in window[t] : Since(t, b) /\ CollectsOK(t, b)
  BY DEF SnapshotInv, ScanOK, Scanning
<1>2. b[t] \in Nat /\ oldCopy[t][t].label \in Nat
  BY OwnTypes, ValueFields DEF SnapshotInv
<1> QED
  BY <1>1, <1>2 DEF Since, CollectsOK, Read

\* Any set of threads is finite.
LEMMA ThreadsFinite ==
    /\ IsFiniteSet(Thread) /\ Cardinality(Thread) = NumThread
    /\ \A S \in SUBSET Thread : IsFiniteSet(S)
<1>1. IsFiniteSet(Thread) /\ Cardinality(Thread) = NumThread
  BY NumThreadAssumption, FS_Interval DEF Thread
<1> QED
  BY <1>1, FS_Subset

\* The effect of returning from scan.
LEMMA ReturnInv ==
    ASSUME SnapshotInv, NEW t \in Thread, NEW v \in window[t], Scanning(t),
           regs' = regs, tid' = [tid EXCEPT ![t] = 1], Return(t, v)
    PROVE  SnapshotInv'
<1>0. TypeOK /\ ControlOK(t) /\ v \in Vector /\ 1 \in Thread
  BY OwnTypes, ThreadFacts DEF SnapshotInv
<1>1. /\ pc'[t] = "store" /\ window'[t] = {} /\ moved'[t] = {} /\ collects'[t] = 0
      /\ tid'[t] = 1 /\ result'[t] = v
  BY <1>0 DEF Return, TypeOK
<1>2. TypeOK'
  <2>1. /\ oldCopy' \in [Thread -> [Thread -> SnapValue]]
        /\ newCopy' \in [Thread -> [Thread -> SnapValue]]
    BY <1>0, InitialTypes DEF Return, TypeOK
  <2>2. /\ tid' \in [Thread -> Thread] /\ result' \in [Thread -> Vector]
        /\ pc' \in [Thread -> PCState] /\ moved' \in [Thread -> SUBSET Thread]
        /\ window' \in [Thread -> SUBSET Vector] /\ collects' \in [Thread -> Nat]
    BY <1>0 DEF Return, TypeOK, PCState
  <2> QED
    BY <1>0, <2>1, <2>2 DEF TypeOK
<1>3. OthersStay(t)
  BY <1>0 DEF OthersStay, Return, TypeOK
<1>4. ControlOK(t)' /\ ScanOK(t)'
  BY <1>0, <1>1 DEF ControlOK, ScanOK, Scanning
<1> QED
  BY <1>1, <1>2, <1>3, <1>4, OwnPart

\* A second collect that finds somebody has moved for the first time becomes
\* the first collect of the next comparison.
LEMMA MarkInv ==
    ASSUME SnapshotInv, NEW t \in Thread, pc[t] = "collectNew",
           NEW new \in [Thread -> SnapValue], NEW b \in Vector, NEW v \in Vector,
           Collected(t, b, v, new),
           NEW u \in different(oldCopy[t], new), u \notin moved[t],
           tid' = [tid EXCEPT ![t] = 1],
           moved' = [moved EXCEPT ![t] = moved[t] \cup {u}],
           oldCopy' = [oldCopy EXCEPT ![t] = new],
           newCopy' = [newCopy EXCEPT ![t] = initialArray],
           collects' = [collects EXCEPT ![t] = collects[t] + 1],
           UNCHANGED <<regs, pc, result, window>>
    PROVE  SnapshotInv'
<1>0. /\ TypeOK /\ ControlOK(t) /\ 1 \in Thread
      /\ u \in Thread /\ oldCopy[t][u].label # new[u].label
      /\ \A w \in Thread : w \in Nat /\ 1 <= w
  BY ThreadFacts DEF SnapshotInv, different
<1>1. /\ pc'[t] = "collectNew" /\ window'[t] = window[t]
      /\ tid'[t] = 1 /\ moved'[t] = moved[t] \cup {u} /\ oldCopy'[t] = new
      /\ collects'[t] = collects[t] + 1
  BY <1>0 DEF TypeOK
<1>2. TypeOK'
  <2>1. /\ oldCopy' \in [Thread -> [Thread -> SnapValue]]
        /\ newCopy' \in [Thread -> [Thread -> SnapValue]]
    BY <1>0, InitialTypes DEF TypeOK
  <2>2. /\ tid' \in [Thread -> Thread] /\ moved' \in [Thread -> SUBSET Thread]
        /\ collects' \in [Thread -> Nat]
    BY <1>0 DEF TypeOK
  <2> QED
    BY <1>0, <2>1, <2>2 DEF TypeOK
<1>3. OthersStay(t)
  BY <1>0 DEF OthersStay, TypeOK
<1>4. ControlOK(t)'
  <2>1. Cardinality(moved[t] \cup {u}) = Cardinality(moved[t]) + 1
    BY <1>0, OwnTypes, ThreadsFinite, FS_AddElement
  <2> QED
    BY <1>0, <1>1, <2>1 DEF ControlOK, Scanning
<1>5. \A w \in Thread : /\ new[w].label \in Nat /\ oldCopy[t][w].label \in Nat
                        /\ b[w] \in Nat /\ v[w] \in Nat
  BY <1>0, OwnTypes, ValueFields
<1>6. Since(t, b)'
  BY <1>1, <1>3 DEF Collected, Since, values, OthersStay
<1>7. ASSUME NEW w \in Thread
      PROVE  /\ Read(t, b, w, new[w])'
             /\ w \in moved'[t] => new[w].label >= b[w] + 1
             /\ ~(w < tid'[t])
  <2>1. Read(t, b, w, new[w])'
    BY <1>1 DEF Collected, Read
  <2>2. /\ b[w] <= oldCopy[t][w].label
        /\ oldCopy[t][w].label <= v[w] /\ v[w] <= new[w].label
        /\ w \in moved[t] => oldCopy[t][w].label >= b[w] + 1
    BY DEF Collected, Read
  <2>3. w \in moved'[t] => w \in moved[t] \/ oldCopy[t][w].label # new[w].label
    BY <1>0, <1>1
  <2>4. w \in moved'[t] => new[w].label >= b[w] + 1
    BY <1>5, <2>2, <2>3, SMTT(30)
  <2>5. ~(w < tid'[t])
    BY <1>0, <1>1
  <2> QED
    BY <2>1, <2>4, <2>5
<1>8. values(regs)' \in window'[t] /\ Between(t, values(regs))'
  <2>1. values(regs)' = values(regs) /\ values(regs) \in window[t]
    BY DEF values, Collected, Since
  <2>2. ASSUME NEW w \in Thread
        PROVE  /\ new[w].label <= values(regs)[w] /\ values(regs)[w] <= regs[w].label
               /\ ~(w < tid'[t])
    <3>1. values(regs)[w] = regs[w].label /\ regs[w].label \in Nat
      BY <1>0, OwnTypes, ValueFields DEF TypeOK
    <3> QED
      BY <1>7, <3>1 DEF Collected, Read
  <2> QED
    BY <1>1, <2>1, <2>2 DEF Between
<1>9. CollectsOK(t, b)'
  BY <1>1, <1>7, <1>8 DEF CollectsOK
<1>10. ScanOK(t)'
  BY <1>1, <1>6, <1>9 DEF ScanOK, Collected
<1> QED
  BY <1>1, <1>2, <1>3, <1>4, <1>10, OwnPart

\* A pass of a later collect's loop, and the comparison behind the last one.
LEMMA CollectNewInv ==
    ASSUME SnapshotInv, NEW t \in Thread, CollectNew(t)
    PROVE  SnapshotInv'
<1> SUFFICES ASSUME NEW k, k = tid[t],
                    NEW new, new = [newCopy[t] EXCEPT ![k] = regs[k]]
             PROVE  SnapshotInv'
  OBVIOUS
<1>0. /\ TypeOK /\ ControlOK(t) /\ ScanOK(t) /\ pc[t] = "collectNew" /\ regs' = regs
      /\ k \in Thread /\ k \in Nat /\ NumThread \in Nat /\ k <= NumThread
      /\ new \in [Thread -> SnapValue]
  BY OwnTypes, ThreadFacts DEF SnapshotInv, CollectNew
<1>1. CASE k < NumThread
  <2>1. /\ newCopy' = [newCopy EXCEPT ![t] = new]
        /\ tid' = [tid EXCEPT ![t] = k + 1]
        /\ UNCHANGED <<regs, pc, oldCopy, moved, result, window, collects>>
    BY <1>0, <1>1 DEF CollectNew, TypeOK
  <2>2. /\ newCopy'[t] = new /\ tid'[t] = k + 1 /\ k + 1 \in Thread
    BY <1>0, <1>1, <2>1, ThreadFacts DEF TypeOK
  <2>3. TypeOK' /\ OthersStay(t)
    BY <1>0, <2>1, <2>2 DEF TypeOK, OthersStay
  <2>4. ControlOK(t)'
    BY <1>0, <2>1 DEF ControlOK, Scanning
  <2>5. PICK b \in window[t] : Since(t, b) /\ CollectsOK(t, b)
    BY <1>0 DEF ScanOK, Scanning
  <2>6. PICK v \in window[t] : Between(t, v)
    BY <1>0, <2>5 DEF CollectsOK
  <2>7. Since(t, b)'
    BY <2>1, <2>5 DEF Since, values
  <2>8. ASSUME NEW u \in Thread, u < k + 1
        PROVE  Read(t, b, u, new[u])' /\ v[u] <= new[u].label
    <3>1. (u < k \/ u = k) /\ b \in Vector
      BY <1>0, <2>5, <2>8, ThreadFacts, OwnTypes
    <3>2. new[u] = IF u = k THEN regs[u] ELSE newCopy[t][u]
      BY <1>0, OwnTypes
    <3>3. Read(t, b, u, new[u]) /\ v[u] <= new[u].label
      BY <1>0, <2>5, <2>6, <3>1, <3>2, ReadNow DEF CollectsOK, Between
    <3> QED
      BY <2>1, <3>3 DEF Read
  <2>9. Between(t, v)'
    BY <2>1, <2>2, <2>6, <2>8 DEF Between
  <2>10. CollectsOK(t, b)'
    <3>1. \A u \in Thread : /\ Read(t, b, u, oldCopy[t][u])'
                            /\ u \in moved'[t] => oldCopy'[t][u].label >= b[u] + 1
      BY <1>0, <2>1, <2>5 DEF CollectsOK, Read
    <3>2. \E w \in window'[t] : Between(t, w)'
      BY <2>1, <2>6, <2>9
    <3> QED
      BY <1>0, <2>1, <2>2, <2>8, <3>1, <3>2 DEF CollectsOK
  <2>11. ScanOK(t)'
    BY <2>1, <2>5, <2>7, <2>10 DEF ScanOK
  <2> QED
    BY <1>0, <2>1, <2>3, <2>4, <2>11, OwnPart
<1>2. CASE k = NumThread
  <2>1. tid' = [tid EXCEPT ![t] = 1] /\ Compare(t, new)
    BY <1>0, <1>2 DEF CollectNew
  <2>2. PICK b \in Vector, v \in Vector : Collected(t, b, v, new)
    BY <1>0, <1>2, LastRead
  <2> DEFINE diff == different(oldCopy[t], new)
  <2>3. /\ diff = {} => values(new) \in window[t]
        /\ \A u \in diff : u \in moved[t] => new[u].snap \in window[t]
    BY <1>0, <2>2, Returned
  <2>4. diff # {} => first(diff) \in diff
    BY FirstMember DEF different
  <2>5. CASE diff = {} /\ Return(t, values(new))
    BY <1>0, <2>1, <2>3, <2>5, ReturnInv DEF Scanning
  <2>6. CASE diff # {} /\ first(diff) \in moved[t] /\ Return(t, new[first(diff)].snap)
    BY <1>0, <2>1, <2>3, <2>4, <2>6, ReturnInv DEF Scanning
  <2>7. CASE /\ diff # {} /\ first(diff) \notin moved[t]
             /\ moved' = [moved EXCEPT ![t] = moved[t] \cup {first(diff)}]
             /\ oldCopy' = [oldCopy EXCEPT ![t] = new]
             /\ newCopy' = [newCopy EXCEPT ![t] = initialArray]
             /\ collects' = [collects EXCEPT ![t] = collects[t] + 1]
             /\ UNCHANGED <<pc, result, window>>
    BY <1>0, <2>1, <2>2, <2>4, <2>7, MarkInv
  <2> QED
    BY <1>0, <2>1, <2>5, <2>6, <2>7 DEF Compare, TypeOK
<1> QED
  BY <1>0, <1>1, <1>2

\* The rest of update: memory grows by one value, and every scan sees it.
LEMMA StoreInv ==
    ASSUME SnapshotInv, NEW t \in Thread, Store(t)
    PROVE  SnapshotInv'
<1> SUFFICES ASSUME NEW r, r = [label |-> regs[t].label + 1, snap |-> result[t]]
             PROVE  SnapshotInv'
  OBVIOUS
<1>0. /\ TypeOK /\ ControlOK(t) /\ pc[t] = "store"
      /\ regs[t].label < MaxUpdates /\ regs[t].label \in Nat /\ result[t] \in Vector
  BY OwnTypes DEF SnapshotInv, Store, ControlOK
<1>1. /\ r \in SnapValue /\ r.label = regs[t].label + 1 /\ r.snap = result[t]
  BY <1>0, MaxUpdatesAssumption DEF SnapValue
<1>2. /\ regs' = [regs EXCEPT ![t] = r]
      /\ window' = [u \in Thread |-> IF window[u] = {} THEN {} ELSE window[u] \cup {values(regs')}]
      /\ pc' = [pc EXCEPT ![t] = "idle"]
      /\ UNCHANGED <<oldCopy, newCopy, moved, tid, result, collects>>
  BY DEF Store, copies
<1>3. /\ regs' \in [Thread -> SnapValue] /\ regs'[t] = r /\ pc'[t] = "idle"
      /\ \A u \in Thread \ {t} : regs'[u] = regs[u] /\ pc'[u] = pc[u]
      /\ \A u \in Thread : window'[u] = IF window[u] = {} THEN {}
                                        ELSE window[u] \cup {values(regs')}
  BY <1>0, <1>1, <1>2 DEF TypeOK
<1>4. values(regs') \in Vector
  BY <1>3, ValueFields
<1>5. TypeOK'
  <2>1. window' \in [Thread -> SUBSET Vector]
    BY <1>0, <1>2, <1>4 DEF TypeOK
  <2>2. pc' \in [Thread -> PCState]
    BY <1>0, <1>2 DEF TypeOK, PCState
  <2> QED
    BY <1>0, <1>2, <1>3, <2>1, <2>2 DEF TypeOK
<1>6. window[t] = {} /\ window'[t] = {}
  BY <1>0, <1>3 DEF ControlOK, Scanning
<1>7. \A u \in Thread : /\ regs[u].label \in Nat /\ regs'[u].label \in Nat
                        /\ regs[u].label <= regs'[u].label
  BY <1>0, <1>1, <1>3, OwnTypes
<1>8. ASSUME NEW u \in Thread PROVE ControlOK(u)'
  <2>1. CASE u = t
    BY <1>0, <1>2, <1>3, <1>6, <2>1 DEF ControlOK, Scanning
  <2>2. CASE u # t
    <3>1. ControlOK(u) /\ (window'[u] = {} <=> window[u] = {})
      BY <1>3 DEF SnapshotInv
    <3> QED
      BY <1>2, <1>3, <2>2, <3>1 DEF ControlOK, Scanning
  <2> QED
    BY <2>1, <2>2
<1>9. ASSUME NEW u \in Thread, Scanning(u)' PROVE \E b \in window'[u] : Since(u, b)' /\ CollectsOK(u, b)'
  <2>1. u # t /\ Scanning(u) /\ regs'[u] = regs[u] /\ pc'[u] = pc[u]
    BY <1>3, <1>9 DEF Scanning
  <2>2. PICK b \in window[u] : Since(u, b) /\ CollectsOK(u, b)
    BY <2>1 DEF SnapshotInv, ScanOK
  <2>3. /\ window'[u] = window[u] \cup {values(regs')} /\ window[u] \subseteq window'[u]
        /\ \A w \in Thread : window[w] \subseteq window[u] => window'[w] \subseteq window'[u]
    BY <1>3, <2>2
  <2>4. \A w \in Thread : b[w] \in Nat
    BY <1>0, <2>2, OwnTypes, ValueFields
  <2>5. ASSUME NEW w \in Thread
        PROVE  /\ b[w] <= regs'[w].label
               /\ regs'[w].label >= b[w] + 2 => regs'[w].snap \in window'[u]
               /\ regs'[w].label >= b[w] + 1 => /\ window'[w] \subseteq window'[u]
                                                /\ pc'[w] = "store" => result'[w] \in window'[u]
    <3>1. CASE w = t
      <4>1. b[t] <= regs[t].label
            /\ (regs[t].label >= b[t] + 1 => result[t] \in window[u])
        BY <1>0, <2>2 DEF Since
      <4>2. b[t] <= r.label /\ (r.label >= b[t] + 2 => regs[t].label >= b[t] + 1)
        BY <1>0, <1>1, <2>4, <4>1
      <4> QED
        BY <1>1, <1>3, <1>6, <2>3, <3>1, <4>1, <4>2
    <3>2. CASE w # t
      BY <1>2, <1>3, <2>2, <2>3, <3>2 DEF Since
    <3> QED
      BY <3>1, <3>2
  <2>6. Since(u, b)'
    <3>1. values(regs)' = values(regs')
      BY DEF values
    <3> QED
      BY <2>1, <2>2, <2>3, <2>5, <3>1 DEF Since
  <2>7. ASSUME NEW w \in Thread, NEW a \in SnapValue, Read(u, b, w, a) PROVE Read(u, b, w, a)'
    BY <1>7, <2>3, <2>7, ValueFields DEF Read
  <2>8. ASSUME NEW v \in window[u], Between(u, v) PROVE v \in window'[u] /\ Between(u, v)'
    <3>1. v \in Vector
      BY <1>0, OwnTypes
    <3> QED
      BY <1>2, <1>7, <2>3, <2>8, <3>1, ValueFields DEF Between
  <2>9. CollectsOK(u, b)'
    <3>1. \A w \in Thread : oldCopy[u][w] \in SnapValue /\ newCopy[u][w] \in SnapValue
      BY <1>0, OwnTypes
    <3> QED
      BY <1>2, <2>1, <2>2, <2>7, <2>8, <3>1 DEF CollectsOK
  <2> QED
    BY <2>2, <2>3, <2>6, <2>9
<1> QED
  BY <1>5, <1>8, <1>9 DEF SnapshotInv, ScanOK

-----------------------------------------------------------------------------
(* The theorems                                                            *)

\* Before the first update.
LEMMA SnapshotInvInit == Init => SnapshotInv
<1> SUFFICES ASSUME Init PROVE SnapshotInv
  OBVIOUS
<1>1. /\ regs = initialArray /\ \A t \in Thread : /\ pc[t] = "idle" /\ moved[t] = {}
                                                 /\ tid[t] = 1 /\ window[t] = {} /\ collects[t] = 0
  BY DEF Init
<1>2. TypeOK
  BY InitialTypes, ThreadFacts DEF Init, TypeOK, PCState
<1> QED
  BY <1>1, <1>2 DEF SnapshotInv, ControlOK, ScanOK, Scanning

\* Every step of a thread keeps what scans rely on.
LEMMA SnapshotInvStep == SnapshotInv /\ [Next]_vars => SnapshotInv'
<1> SUFFICES ASSUME SnapshotInv, [Next]_vars PROVE SnapshotInv'
  OBVIOUS
<1>1. CASE UNCHANGED vars
  <2>1. TypeOK'
    BY <1>1 DEF vars, copies, SnapshotInv, TypeOK
  <2>2. ASSUME NEW t \in Thread PROVE ControlOK(t)'
    BY <1>1 DEF vars, copies, SnapshotInv, ControlOK, Scanning
  <2>3. ASSUME NEW t \in Thread PROVE ScanOK(t)'
    <3>1. \A b : Since(t, b)' <=> Since(t, b)
      BY <1>1 DEF vars, copies, Since, values
    <3>2. \A b : CollectsOK(t, b)' <=> CollectsOK(t, b)
      BY <1>1 DEF vars, copies, CollectsOK, Read, Between
    <3> QED
      BY <1>1, <3>1, <3>2 DEF vars, SnapshotInv, ScanOK, Scanning
  <2> QED
    BY <2>1, <2>2, <2>3 DEF SnapshotInv
<1>2. ASSUME NEW t \in Thread, update(t) PROVE SnapshotInv'
  BY <1>2, CallScanInv, CollectOldInv, CollectNewInv, StoreInv DEF update
<1> QED
  BY <1>1, <1>2 DEF Next, Finished

\* The invariant of updates and scans holds for ever, for any number of threads.
THEOREM SnapshotInvariant == Spec => []SnapshotInv
BY SnapshotInvInit, SnapshotInvStep, PTL DEF Spec

\* Every variable keeps its type: in particular no register is read or
\* written beyond the array, and a label counts no further than the updates.
THEOREM SnapshotTypes == Spec => []TypeOK
<1>1. SnapshotInv => TypeOK
  BY DEF SnapshotInv
<1> QED
  BY <1>1, SnapshotInvariant, PTL

\* A scan ends after one more collect than there are threads at the latest,
\* as each of the others can be marked once and the thread itself never.
THEOREM SnapshotWaitFree == Spec => []WaitFree
<1>1. SnapshotInv => WaitFree
  <2> SUFFICES ASSUME SnapshotInv, NEW t \in Thread PROVE collects[t] <= NumThread
    BY DEF WaitFree
  <2>1. ControlOK(t) /\ moved[t] \in SUBSET Thread
    BY OwnTypes DEF SnapshotInv
  <2>2. CASE pc[t] # "collectNew"
    BY <2>1, <2>2, ThreadFacts DEF ControlOK
  <2>3. CASE pc[t] = "collectNew"
    <3>1. moved[t] \subseteq Thread \ {t}
      BY <2>1, <2>3, OwnStill
    <3>2. /\ IsFiniteSet(Thread \ {t})
          /\ Cardinality(Thread \ {t}) = NumThread - 1
      BY ThreadsFinite, FS_RemoveElement
    <3>3. /\ Cardinality(moved[t]) <= NumThread - 1
          /\ Cardinality(moved[t]) \in Nat /\ NumThread \in Nat
      BY <2>1, <3>1, <3>2, ThreadsFinite, ThreadFacts, FS_Subset, FS_CardinalityType
    <3> QED
      BY <2>1, <2>3, <3>3 DEF ControlOK
  <2> QED
    BY <2>2, <2>3
<1> QED
  BY <1>1, SnapshotInvariant, PTL

-----------------------------------------------------------------------------
(* Every scan is atomic                                                    *)

\* What the steps of a scan and an update are in the abstract object: its call
\* and its return, its write, and nothing for the collects in between.
LEMMA AtomicStep ==
    ASSUME SnapshotInv, SnapshotInv', [Next]_vars
    PROVE  [Atomic!ANext]_(Atomic!aVars)
<1>0. TypeOK
  BY DEF SnapshotInv
<1>1. ASSUME UNCHANGED <<regs, window, result>> PROVE UNCHANGED Atomic!aVars
  BY <1>1 DEF Atomic!aVars, values
<1>2. CASE UNCHANGED vars
  BY <1>1, <1>2 DEF vars
<1>3. ASSUME NEW t \in Thread, CallScan(t) PROVE Atomic!ANext
  <2>1. /\ window[t] = {} /\ window' = [window EXCEPT ![t] = {values(regs)}]
        /\ regs' = regs /\ result' = result
    BY <1>3 DEF CallScan, SnapshotInv, ControlOK, Scanning
  <2>2. Atomic!CallScan(t)
    BY <2>1 DEF Atomic!CallScan, values
  <2> QED
    BY <2>2 DEF Atomic!ANext
<1>4. ASSUME NEW t \in Thread, CollectOld(t) PROVE UNCHANGED Atomic!aVars
  BY <1>1, <1>4 DEF CollectOld
<1>5. ASSUME NEW t \in Thread, NEW v \in window[t], regs' = regs, Return(t, v)
      PROVE  Atomic!ANext
  <2>1. Atomic!ReturnFromScan(t, v)
    BY <1>5 DEF Return, Atomic!ReturnFromScan, values
  <2> QED
    BY <2>1 DEF Atomic!ANext
<1>6. ASSUME NEW t \in Thread, CollectNew(t) PROVE Atomic!ANext \/ UNCHANGED Atomic!aVars
  <2> SUFFICES ASSUME NEW k, k = tid[t],
                      NEW new, new = [newCopy[t] EXCEPT ![k] = regs[k]]
               PROVE  Atomic!ANext \/ UNCHANGED Atomic!aVars
    OBVIOUS
  <2>1. /\ pc[t] = "collectNew" /\ regs' = regs /\ k \in Thread
        /\ k < NumThread \/ k = NumThread
    <3>1. k \in Thread
      BY <1>0, OwnTypes
    <3>2. k \in Nat /\ k <= NumThread /\ NumThread \in Nat
      BY <3>1, ThreadFacts
    <3> QED
      BY <1>6, <3>1, <3>2 DEF CollectNew
  <2>2. CASE k < NumThread
    BY <1>1, <1>6, <2>2 DEF CollectNew
  <2>3. CASE k = NumThread
    <3>1. Compare(t, new)
      BY <1>6, <2>1, <2>3, ThreadFacts DEF CollectNew
    <3>2. new \in [Thread -> SnapValue] /\ \E b, v \in Vector : Collected(t, b, v, new)
      BY <2>1, <2>3, LastRead
    <3> DEFINE diff == different(oldCopy[t], new)
    <3>3. /\ diff = {} => values(new) \in window[t]
          /\ \A u \in diff : u \in moved[t] => new[u].snap \in window[t]
      BY <3>2, Returned
    <3>4. diff # {} => first(diff) \in diff
      BY FirstMember DEF different
    <3>5. CASE diff = {} /\ Return(t, values(new))
      BY <1>5, <2>1, <3>3, <3>5
    <3>6. CASE diff # {} /\ first(diff) \in moved[t] /\ Return(t, new[first(diff)].snap)
      BY <1>5, <2>1, <3>3, <3>4, <3>6
    <3>7. CASE UNCHANGED <<pc, result, window>>
      BY <1>1, <2>1, <3>7
    <3> QED
      BY <3>1, <3>5, <3>6, <3>7 DEF Compare
  <2> QED
    BY <2>1, <2>2, <2>3
<1>7. ASSUME NEW t \in Thread, Store(t) PROVE Atomic!ANext
  <2>1. /\ window[t] = {} /\ result' = result
        /\ regs' = [regs EXCEPT ![t] = [label |-> regs[t].label + 1, snap |-> result[t]]]
        /\ window' = [u \in Thread |->
                        IF window[u] = {} THEN {} ELSE window[u] \cup {values(regs')}]
    BY <1>7 DEF Store, SnapshotInv, ControlOK, Scanning
  <2>2. values(regs)' = values(regs')
    BY DEF values
  <2>3. values(regs') = [values(regs) EXCEPT ![t] = @ + 1]
    BY <1>0, <2>1 DEF values, TypeOK
  <2>4. Atomic!Write(t)
    BY <2>1, <2>2, <2>3 DEF Atomic!Write
  <2> QED
    BY <2>4 DEF Atomic!ANext
<1> QED
  BY <1>1, <1>2, <1>3, <1>4, <1>6, <1>7 DEF Next, update, Finished

\* Refinement: however the reads of a scan and the writes of others interleave,
\* a scan returns a vector that the registers held together between its call
\* and its return.
THEOREM SnapshotAtomic == Spec => ScansAtomic
<1>1. Init => Atomic!AInit
  <2> SUFFICES ASSUME Init PROVE Atomic!AInit
    OBVIOUS
  <2>1. values(regs) = [t \in Thread |-> 0] /\ values(regs) = values(initialArray)
    BY InitialTypes DEF Init
  <2> QED
    BY <2>1 DEF Init, Atomic!AInit
<1>2. SnapshotInv /\ SnapshotInv' /\ [Next]_vars => [Atomic!ANext]_(Atomic!aVars)
  BY AtomicStep
<1> QED
  BY <1>1, <1>2, SnapshotInvariant, PTL DEF Spec, ScansAtomic, Atomic!ASpec
=============================================================================
