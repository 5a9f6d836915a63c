----------------------------- MODULE SpinLocks -----------------------------
(***************************************************************************)
(* The spin locks of lab11, each guarding a counter that all threads       *)
(* increment.  The variable `program` says which one runs:                 *)
(*   "tas"   prac_taslock.cpp: test-and-set                                *)
(*   "ttas"  prac_ttaslock.cpp: read until the lock is free, test-and-set  *)
(*   "clh"   prac_clhlock.cpp: a queue of nodes; a thread spins on the     *)
(*           node of its predecessor, which it takes over when it unlocks  *)
(*                                                                         *)
(* Each access to shared memory is a step, and they take effect in the     *)
(* order of the program.  A spin that finds nothing new is not a step.     *)
(***************************************************************************)
EXTENDS Naturals

CONSTANTS
    NumThread,
    NumWork         \* calls of lock per thread

Thread == 1..NumThread
Node == 0..NumThread    \* the lock's own node is 0

VARIABLES
    program,
    cnt_global,
    object_tas,     \* the lock of tas and ttas
    tail,           \* clh: the node of the thread that came last
    node,           \* clh: 1 while the thread of the node waits or has the lock
    myNode,
    pred,
    pc,
    i,              \* increments each thread has completed
    register        \* the value of cnt_global it has read

clh == <<tail, node, myNode, pred>>
vars == <<program, cnt_global, object_tas, clh, pc, i, register>>

Program == {"tas", "ttas", "clh"}

Fresh ==
    /\ cnt_global = 0
    /\ object_tas = 0
    /\ tail = 0
    /\ node = [n \in Node |-> IF n = 0 THEN 0 ELSE 1]
    /\ myNode = [t \in Thread |-> t]
    /\ pred = [t \in Thread |-> 0]
    /\ pc = [t \in Thread |-> "idle"]
    /\ i = [t \in Thread |-> 0]
    /\ register = [t \in Thread |-> 0]

Init == program \in Program /\ Fresh

goto(t, label) == pc' = [pc EXCEPT ![t] = label]
\* A thread calls lock, as a loop of NumWork rounds does.
call(t) == pc[t] = "idle" /\ i[t] < NumWork

-----------------------------------------------------------------------------
\* ttas: the lock looks free.
Test(t) ==
    /\ program = "ttas"
    /\ call(t)
    /\ object_tas # 1
    /\ goto(t, "swap")
    /\ UNCHANGED <<program, cnt_global, object_tas, clh, i, register>>

\* Faulty variant: the old value of the lock is not looked at again.
TestAndSetBlindly(t) ==
    /\ \/ program = "tas" /\ call(t) /\ object_tas = 0
       \/ program = "ttas" /\ pc[t] = "swap"
    /\ object_tas' = 1
    /\ goto(t, "load")
    /\ UNCHANGED <<program, cnt_global, clh, i, register>>

\* __sync_lock_test_and_set: the thread whose old value is 0 has the lock;
\* another one tries again, or reads until the lock looks free again.
TestAndSet(t) ==
    /\ \/ program = "tas" /\ call(t) /\ object_tas = 0
       \/ program = "ttas" /\ pc[t] = "swap"
    /\ object_tas' = 1
    /\ goto(t, IF object_tas = 0 THEN "load" ELSE "idle")
    /\ UNCHANGED <<program, cnt_global, clh, i, register>>

\* clh: the node says that its thread waits ...
Announce(t) ==
    /\ program = "clh"
    /\ call(t)
    /\ node' = [node EXCEPT ![myNode[t]] = 1]
    /\ goto(t, "swap")
    /\ UNCHANGED <<program, cnt_global, object_tas, tail, myNode, pred, i, register>>

\* ... and is put behind the last one ...
Enqueue(t) ==
    /\ program = "clh"
    /\ pc[t] = "swap"
    /\ pred' = [pred EXCEPT ![t] = tail]
    /\ tail' = myNode[t]
    /\ goto(t, "spin")
    /\ UNCHANGED <<program, cnt_global, object_tas, node, myNode, i, register>>

\* ... which is through.
Spin(t) ==
    /\ pc[t] = "spin"
    /\ node[pred[t]] = 0
    /\ goto(t, "load")
    /\ UNCHANGED <<program, cnt_global, object_tas, clh, i, register>>

\* cnt_global++.
Load(t) ==
    /\ pc[t] = "load"
    /\ register' = [register EXCEPT ![t] = cnt_global]
    /\ goto(t, "store")
    /\ UNCHANGED <<program, cnt_global, object_tas, clh, i>>

Store(t) ==
    /\ pc[t] = "store"
    /\ cnt_global' = register[t] + 1
    /\ i' = [i EXCEPT ![t] = @ + 1]
    /\ goto(t, "unlock")
    /\ UNCHANGED <<program, object_tas, clh, register>>

Unlock(t) ==
    /\ pc[t] = "unlock"
    /\ IF program = "clh"
         THEN /\ node' = [node EXCEPT ![myNode[t]] = 0]
              /\ goto(t, "adopt")
              /\ UNCHANGED object_tas
         ELSE /\ object_tas' = 0
              /\ goto(t, "idle")
              /\ UNCHANGED node
    /\ UNCHANGED <<program, cnt_global, tail, myNode, pred, i, register>>

\* Faulty variant: the thread keeps its node, on which another may spin.
AdoptNone(t) ==
    /\ pc[t] = "adopt"
    /\ goto(t, "idle")
    /\ UNCHANGED <<program, cnt_global, object_tas, clh, i, register>>

\* The predecessor's node is the thread's from now on.
Adopt(t) ==
    /\ pc[t] = "adopt"
    /\ myNode' = [myNode EXCEPT ![t] = pred[t]]
    /\ goto(t, "idle")
    /\ UNCHANGED <<program, cnt_global, object_tas, tail, node, pred, i, register>>

-----------------------------------------------------------------------------
thread_work(t) ==
    \/ Test(t) \/ TestAndSet(t)
    \/ Announce(t) \/ Enqueue(t) \/ Spin(t)
    \/ Load(t) \/ Store(t)
    \/ Unlock(t) \/ Adopt(t)

Finished == \A t \in Thread : pc[t] = "idle" /\ i[t] = NumWork
Joined == Finished /\ UNCHANGED vars

Next == (\E t \in Thread : thread_work(t)) \/ Joined
Fairness == \A t \in Thread : WF_vars(thread_work(t))
Spec == Init /\ [][Next]_vars /\ Fairness

-----------------------------------------------------------------------------
\* No increment of the unprotected counter is lost.
CounterExact ==
    LET sum[n \in 0..NumThread] == IF n = 0 THEN 0 ELSE sum[n - 1] + i[n]
    IN  cnt_global = sum[NumThread]

\* The nodes that circulate: no two threads have the same, no two wait for the
\* same, and a node somebody waits for belongs to no thread, or to one that is
\* waiting for the lock or has it: it will not be set to 1 for another call.
owned(t) == IF pc[t] = "adopt" THEN pred[t] ELSE myNode[t]
Waiting(t) == pc[t] = "spin"
HasLock(t) == pc[t] \in {"load", "store", "unlock"}
NodesOwned ==
    program = "clh" => \A t, u \in Thread : t # u =>
        /\ owned(t) # owned(u)
        /\ Waiting(t) /\ Waiting(u) => pred[t] # pred[u]
        /\ Waiting(t) /\ owned(u) = pred[t] => Waiting(u) \/ HasLock(u)
=============================================================================
