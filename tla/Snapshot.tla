------------------------------ MODULE Snapshot ------------------------------
(***************************************************************************)
(* The wait-free atomic snapshot of project2 (include/Snapshot.hpp,        *)
(* src/Snapshot.cpp): every thread has a register, and calls update for    *)
(* ever (updateFunc of main.cpp).  update scans all registers, and writes  *)
(* its value to its own together with the scan's result, which lets it     *)
(* help a scan that its writes disturb.                                    *)
(*                                                                         *)
(* Each atomic_load of a shared register is a step, and so is the one      *)
(* atomic_store to it.  Copies and comparisons of a thread's local arrays  *)
(* belong to the step before.  The data are abstracted in one respect: the *)
(* value written is the label.  The code draws random values and never     *)
(* looks at them, so different values are the case that tells most.        *)
(***************************************************************************)
EXTENDS Naturals, FiniteSets

CONSTANTS
    NumThread,
    MaxUpdates      \* bound: updates per thread

ASSUME NumThreadAssumption == NumThread \in Nat \ {0}
ASSUME MaxUpdatesAssumption == MaxUpdates \in Nat

Thread == 1..NumThread

VARIABLES
    regs,           \* Snapshot::regs, a SnapValue for each thread
    pc,             \* where each thread is in update()
    oldCopy,        \* scan's local variables
    newCopy,
    moved,          \*   the set of threads for which it is true
    tid,            \* the loop counter of collect
    result,         \* what scan returned: update's local variable snap
    window,         \* history: the vectors the registers held since the call
                    \*   of scan, empty outside scan
    collects        \* history: how many collects this scan has completed

copies == <<oldCopy, newCopy, moved>>
vars == <<regs, pc, copies, tid, result, window, collects>>

Vector == [Thread -> 0..MaxUpdates]
SnapValue == [label : 0..MaxUpdates, snap : Vector]
PCState == {"idle", "collectOld", "collectNew", "store"}

values(array) == [t \in Thread |-> array[t].label]

\* The local arrays hold null pointers before the collects fill them; the
\* initial SnapValue stands in, which no step reads.
initialValue == [label |-> 0, snap |-> [t \in Thread |-> 0]]
initialArray == [t \in Thread |-> initialValue]

Init ==
    /\ regs = initialArray
    /\ pc = [t \in Thread |-> "idle"]
    /\ oldCopy = [t \in Thread |-> initialArray]
    /\ newCopy = [t \in Thread |-> initialArray]
    /\ moved = [t \in Thread |-> {}]
    /\ tid = [t \in Thread |-> 1]
    /\ result = [t \in Thread |-> values(initialArray)]
    /\ window = [t \in Thread |-> {}]
    /\ collects = [t \in Thread |-> 0]

-----------------------------------------------------------------------------
\* update calls scan, which calls collect(oldCopy).
CallScan(t) ==
    /\ pc[t] = "idle"
    /\ regs[t].label < MaxUpdates
    /\ pc' = [pc EXCEPT ![t] = "collectOld"]
    /\ window' = [window EXCEPT ![t] = {values(regs)}]
    /\ UNCHANGED <<regs, copies, tid, result, collects>>

\* Faulty variant: the marks of one scan are still there in the next.
ReturnKeepingMarks(t, v) ==
    /\ pc' = [pc EXCEPT ![t] = "store"]
    /\ result' = [result EXCEPT ![t] = v]
    /\ oldCopy' = [oldCopy EXCEPT ![t] = initialArray]
    /\ newCopy' = [newCopy EXCEPT ![t] = initialArray]
    /\ window' = [window EXCEPT ![t] = {}]
    /\ collects' = [collects EXCEPT ![t] = 0]
    /\ UNCHANGED moved

\* scan returns v; its local variables are gone.
Return(t, v) ==
    /\ pc' = [pc EXCEPT ![t] = "store"]
    /\ result' = [result EXCEPT ![t] = v]
    /\ oldCopy' = [oldCopy EXCEPT ![t] = initialArray]
    /\ newCopy' = [newCopy EXCEPT ![t] = initialArray]
    /\ moved' = [moved EXCEPT ![t] = {}]
    /\ window' = [window EXCEPT ![t] = {}]
    /\ collects' = [collects EXCEPT ![t] = 0]

\* The comparison of the two collects, `new` being the second: the first
\* thread whose label differs decides.
different(old, new) == {u \in Thread : old[u].label # new[u].label}
first(S) == CHOOSE u \in S : \A v \in S : u <= v

\* Faulty variant: a thread is never marked as moved.
CompareNotMarking(t, new) ==
    IF different(oldCopy[t], new) = {} THEN Return(t, values(new))
    ELSE /\ oldCopy' = [oldCopy EXCEPT ![t] = new]
         /\ newCopy' = [newCopy EXCEPT ![t] = initialArray]
         /\ collects' = [collects EXCEPT ![t] = @ + 1]
         /\ UNCHANGED <<pc, moved, result, window>>

Compare(t, new) ==
    LET diff == different(oldCopy[t], new)
        u == first(diff)
    IN  \/ /\ diff = {}
           /\ Return(t, values(new))
        \/ /\ diff # {} /\ u \in moved[t]
           /\ Return(t, new[u].snap)
        \/ /\ diff # {} /\ u \notin moved[t]
           /\ moved' = [moved EXCEPT ![t] = @ \cup {u}]
           /\ oldCopy' = [oldCopy EXCEPT ![t] = new]
           /\ newCopy' = [newCopy EXCEPT ![t] = initialArray]
           /\ collects' = [collects EXCEPT ![t] = @ + 1]
           /\ UNCHANGED <<pc, result, window>>

\* Faulty variant: the loop goes one register too far.
CollectOldTooFar(t) ==
    /\ pc[t] = "collectOld"
    /\ oldCopy' = [oldCopy EXCEPT ![t][tid[t]] = regs[tid[t]]]
    /\ tid' = [tid EXCEPT ![t] = IF @ <= NumThread THEN @ + 1 ELSE 1]
    /\ UNCHANGED <<regs, newCopy, moved, pc, collects, result, window>>

\* One pass of the first collect's loop.
CollectOld(t) ==
    /\ pc[t] = "collectOld"
    /\ oldCopy' = [oldCopy EXCEPT ![t][tid[t]] = regs[tid[t]]]
    /\ IF tid[t] < NumThread
         THEN /\ tid' = [tid EXCEPT ![t] = @ + 1]
              /\ UNCHANGED <<pc, collects>>
         ELSE /\ tid' = [tid EXCEPT ![t] = 1]
              /\ pc' = [pc EXCEPT ![t] = "collectNew"]
              /\ collects' = [collects EXCEPT ![t] = 1]
    /\ UNCHANGED <<regs, newCopy, moved, result, window>>

\* One pass of a later collect's loop, the last one with what follows it.
CollectNew(t) ==
    LET new == [newCopy[t] EXCEPT ![tid[t]] = regs[tid[t]]]
    IN  /\ pc[t] = "collectNew"
        /\ IF tid[t] < NumThread
             THEN /\ newCopy' = [newCopy EXCEPT ![t] = new]
                  /\ tid' = [tid EXCEPT ![t] = @ + 1]
                  /\ UNCHANGED <<pc, oldCopy, moved, result, window, collects>>
             ELSE /\ tid' = [tid EXCEPT ![t] = 1]
                  /\ Compare(t, new)
        /\ UNCHANGED regs

\* The rest of update.  Only t writes its register, so its load and its
\* store of it are one step.
Store(t) ==
    LET newValue == [label |-> regs[t].label + 1, snap |-> result[t]]
    IN  /\ pc[t] = "store"
        /\ regs' = [regs EXCEPT ![t] = newValue]
        /\ window' = [u \in Thread |->
                        IF window[u] = {} THEN {} ELSE window[u] \cup {values(regs')}]
        /\ pc' = [pc EXCEPT ![t] = "idle"]
        /\ UNCHANGED <<copies, tid, result, collects>>

update(t) == CallScan(t) \/ CollectOld(t) \/ CollectNew(t) \/ Store(t)

\* The bound: the program stops the threads after a minute instead.
Finished ==
    /\ \A t \in Thread : pc[t] = "idle" /\ regs[t].label = MaxUpdates
    /\ UNCHANGED vars

Next == (\E t \in Thread : update(t)) \/ Finished

Spec == Init /\ [][Next]_vars

-----------------------------------------------------------------------------
TypeOK ==
    /\ regs \in [Thread -> SnapValue]
    /\ pc \in [Thread -> PCState]
    /\ oldCopy \in [Thread -> [Thread -> SnapValue]]
    /\ newCopy \in [Thread -> [Thread -> SnapValue]]
    /\ moved \in [Thread -> SUBSET Thread]
    /\ tid \in [Thread -> Thread]
    /\ result \in [Thread -> Vector]
    /\ window \in [Thread -> SUBSET Vector]
    /\ collects \in [Thread -> Nat]

\* Refinement: each scan returns a vector that the registers held all
\* together at one moment between its call and its return, even when it
\* returns another thread's scan.
Atomic == INSTANCE AtomicSnapshot WITH memory <- values(regs), seen <- window
ScansAtomic == Atomic!ASpec

\* Wait-freedom: however often the other threads write in the meantime, a
\* scan ends after at most NumThread + 1 collects.
WaitFree == \A t \in Thread : collects[t] <= NumThread
=============================================================================
