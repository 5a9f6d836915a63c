-------------------------- MODULE SpinLocksProofs --------------------------
(***************************************************************************)
(* Proofs about the spin locks of lab11, for any number of threads: each   *)
(* of the three locks keeps all but one thread out, the nodes of the CLH   *)
(* lock circulate without being used twice, and so no increment of the     *)
(* counter is lost.                                                        *)
(***************************************************************************)
EXTENDS SpinLocks, WellFoundedInduction, TLAPS

-----------------------------------------------------------------------------
(* The inductive invariant                                                 *)

TypeOK ==
    /\ program \in Program
    /\ cnt_global \in Nat
    /\ object_tas \in {0, 1}
    /\ tail \in Node
    /\ node \in [Node -> {0, 1}]
    /\ myNode \in [Thread -> Node]
    /\ pred \in [Thread -> Node]
    /\ pc \in [Thread -> {"idle", "swap", "spin", "load", "store", "unlock", "adopt"}]
    /\ i \in [Thread -> Nat]
    /\ register \in [Thread -> Nat]

\* tas and ttas: who has the lock has set the variable.
SetOK ==
    program # "clh" =>
        /\ \A t \in Thread : pc[t] \in {"idle", "swap", "load", "store", "unlock"}
        /\ \A t \in Thread : HasLock(t) => object_tas = 1

\* clh: the threads that stand in line, and that have the lock at its head.
Queued(t) == Waiting(t) \/ HasLock(t)

\* clh: there is a node no thread owns.  It is down; the first thread in line
\* spins on it, and every other one on the node of another thread in line.
LineOK(free) ==
    /\ node[free] = 0
    /\ \A t \in Thread : owned(t) # free
    /\ \A t, u \in Thread : t # u => owned(t) # owned(u)
    /\ \A t \in Thread : Queued(t) \/ pc[t] = "swap" => node[myNode[t]] = 1
    /\ \A t \in Thread : Queued(t) =>
          \/ pred[t] = free
          \/ \E u \in Thread : u # t /\ Queued(u) /\ pred[t] = myNode[u]
    /\ \A t, u \in Thread : t # u /\ Queued(t) /\ Queued(u) => pred[t] # pred[u]
    /\ tail = free \/ \E u \in Thread : Queued(u) /\ tail = myNode[u]
    /\ \A t \in Thread : Queued(t) => pred[t] # tail
    /\ \A t \in Thread : HasLock(t) => pred[t] = free

\* Whatever the lock, one thread has it at most, and the counter is what that
\* thread has read.
Exclusive ==
    /\ \A t, u \in Thread : HasLock(t) /\ HasLock(u) => t = u
    /\ \A t \in Thread : pc[t] = "store" => register[t] = cnt_global

LockInv ==
    /\ TypeOK
    /\ SetOK
    /\ program = "clh" => \E free \in Node : LineOK(free)
    /\ Exclusive

-----------------------------------------------------------------------------
(* The lock                                                                *)

\* The variables keep their types.
LEMMA TypeStep ==
    ASSUME NumThread \in Nat, TypeOK, [Next]_vars PROVE TypeOK'
<1>0. Thread \subseteq Node
  BY DEF Thread, Node
<1>1. CASE UNCHANGED vars
  BY <1>1 DEF vars, clh, TypeOK
<1>2. ASSUME NEW t \in Thread, thread_work(t) PROVE TypeOK'
  <2>1. CASE Test(t)
    BY <2>1 DEF Test, goto, clh, TypeOK
  <2>2. CASE TestAndSet(t)
    BY <2>2 DEF TestAndSet, goto, clh, TypeOK
  <2>3. CASE Announce(t)
    BY <2>3 DEF Announce, goto, TypeOK
  <2>4. CASE Enqueue(t)
    BY <2>4 DEF Enqueue, goto, TypeOK
  <2>5. CASE Spin(t)
    BY <2>5 DEF Spin, goto, clh, TypeOK
  <2>6. CASE Load(t)
    BY <2>6 DEF Load, goto, clh, TypeOK
  <2>7. CASE Store(t)
    BY <2>7 DEF Store, goto, clh, TypeOK
  <2>8. CASE Unlock(t)
    BY <2>8 DEF Unlock, goto, TypeOK
  <2>9. CASE Adopt(t)
    BY <2>9 DEF Adopt, goto, TypeOK
  <2> QED
    BY <1>2, <2>1, <2>2, <2>3, <2>4, <2>5, <2>6, <2>7, <2>8, <2>9 DEF thread_work
<1> QED
  BY <1>1, <1>2 DEF Next, Joined

\* tas and ttas: the variable is set while a thread has the lock, and that
\* keeps the others out.
LEMMA SetStep ==
    ASSUME TypeOK, SetOK, Exclusive, program # "clh", NEW t \in Thread, thread_work(t)
    PROVE  /\ program' = program
           /\ SetOK'
           /\ \A u, w \in Thread : HasLock(u)' /\ HasLock(w)' => u = w
<1>0. /\ pc \in [Thread -> {"idle", "swap", "spin", "load", "store", "unlock", "adopt"}]
      /\ \A u \in Thread : pc[u] \in {"idle", "swap", "load", "store", "unlock"}
      /\ \A u \in Thread : HasLock(u) => object_tas = 1
      /\ \A u, w \in Thread : HasLock(u) /\ HasLock(w) => u = w
  BY DEF TypeOK, SetOK, Exclusive
<1>1. CASE Test(t)
  <2>1. \A u \in Thread : pc'[u] = IF u = t THEN "swap" ELSE pc[u]
    BY <1>0, <1>1 DEF Test, goto
  <2> QED
    BY <1>0, <1>1, <2>1 DEF Test, clh, SetOK, HasLock, call
<1>2. CASE TestAndSet(t)
  <2>1. \A u \in Thread : pc'[u] = IF u = t THEN IF object_tas = 0 THEN "load" ELSE "idle"
                                            ELSE pc[u]
    BY <1>0, <1>2 DEF TestAndSet, goto
  <2> QED
    BY <1>0, <1>2, <2>1 DEF TestAndSet, clh, SetOK, HasLock
<1>3. CASE Load(t)
  <2>1. \A u \in Thread : pc'[u] = IF u = t THEN "store" ELSE pc[u]
    BY <1>0, <1>3 DEF Load, goto
  <2> QED
    BY <1>0, <1>3, <2>1 DEF Load, clh, SetOK, HasLock
<1>4. CASE Store(t)
  <2>1. \A u \in Thread : pc'[u] = IF u = t THEN "unlock" ELSE pc[u]
    BY <1>0, <1>4 DEF Store, goto
  <2> QED
    BY <1>0, <1>4, <2>1 DEF Store, clh, SetOK, HasLock
<1>5. CASE Unlock(t)
  <2>1. \A u \in Thread : pc'[u] = IF u = t THEN "idle" ELSE pc[u]
    BY <1>0, <1>5 DEF Unlock, goto
  <2> QED
    BY <1>0, <1>5, <2>1 DEF Unlock, SetOK, HasLock
<1> QED
  BY <1>0, <1>1, <1>2, <1>3, <1>4, <1>5
     DEF thread_work, Announce, Enqueue, Spin, Adopt

\* clh: a thread gets in line behind the last one, ...
LEMMA EnqueueLine ==
    ASSUME TypeOK, NEW free \in Node, LineOK(free), NEW t \in Thread, Enqueue(t)
    PROVE  LineOK(free)'
<1>0. /\ pc \in [Thread -> {"idle", "swap", "spin", "load", "store", "unlock", "adopt"}]
      /\ pred \in [Thread -> Node]
  BY DEF TypeOK
<1>1. /\ pc[t] = "swap" /\ tail' = myNode[t]
      /\ UNCHANGED <<node, myNode>>
      /\ \A u \in Thread : pc'[u] = IF u = t THEN "spin" ELSE pc[u]
      /\ \A u \in Thread : pred'[u] = IF u = t THEN tail ELSE pred[u]
  BY <1>0 DEF Enqueue, goto
<1>2. \A u \in Thread : /\ Queued(u)' <=> u = t \/ Queued(u)
                        /\ owned(u)' = owned(u)
                        /\ HasLock(u)' <=> HasLock(u)
                        /\ Queued(u) => owned(u) = myNode[u]
  BY <1>1 DEF Queued, Waiting, HasLock, owned
<1>3. ~Queued(t) /\ ~HasLock(t) /\ owned(t) = myNode[t]
  BY <1>1 DEF Queued, Waiting, HasLock, owned
<1>4. \A u \in Thread : Queued(u) => pred[u] # myNode[t] /\ pred[u] # tail
  BY <1>2, <1>3 DEF LineOK
<1>5. tail # myNode[t]
  BY <1>2, <1>3 DEF LineOK
<1>6. /\ node'[free] = 0
      /\ \A u \in Thread : owned(u)' # free
      /\ \A u, w \in Thread : u # w => owned(u)' # owned(w)'
  BY <1>1, <1>2 DEF LineOK
<1>7. \A u \in Thread : Queued(u)' \/ pc'[u] = "swap" => node'[myNode'[u]] = 1
  BY <1>1, <1>2 DEF LineOK
<1>8. \A u \in Thread : Queued(u)' =>
          \/ pred'[u] = free
          \/ \E w \in Thread : w # u /\ Queued(w)' /\ pred'[u] = myNode'[w]
  <2> SUFFICES ASSUME NEW u \in Thread, Queued(u)', pred'[u] # free
               PROVE  \E w \in Thread : w # u /\ Queued(w)' /\ pred'[u] = myNode'[w]
    OBVIOUS
  <2>1. CASE u = t
    <3>1. PICK w \in Thread : Queued(w) /\ tail = myNode[w]
      BY <1>1, <2>1 DEF LineOK
    <3> QED
      BY <1>1, <1>2, <1>3, <2>1, <3>1
  <2>2. CASE u # t
    <3>1. PICK w \in Thread : w # u /\ Queued(w) /\ pred[u] = myNode[w]
      BY <1>1, <1>2, <2>2 DEF LineOK
    <3> QED
      BY <1>1, <1>2, <2>2, <3>1
  <2> QED
    BY <2>1, <2>2
<1>9. \A u, w \in Thread : u # w /\ Queued(u)' /\ Queued(w)' => pred'[u] # pred'[w]
  BY <1>1, <1>2, <1>4 DEF LineOK
<1>10. tail' = free \/ \E u \in Thread : Queued(u)' /\ tail' = myNode'[u]
  BY <1>1, <1>2
<1>11. \A u \in Thread : Queued(u)' => pred'[u] # tail'
  BY <1>1, <1>2, <1>4, <1>5
<1>12. \A u \in Thread : HasLock(u)' => pred'[u] = free
  BY <1>1, <1>2, <1>3 DEF LineOK
<1> QED
  BY <1>6, <1>7, <1>8, <1>9, <1>10, <1>11, <1>12 DEF LineOK

\* ... and when the first one unlocks, its node becomes the free one.
LEMMA UnlockLine ==
    ASSUME TypeOK, NEW free \in Node, LineOK(free), NEW t \in Thread, Unlock(t),
           program = "clh"
    PROVE  /\ \E f \in Node : f = myNode[t] /\ LineOK(f)'
           /\ \A u \in Thread : ~HasLock(u)'
<1>0. /\ pc \in [Thread -> {"idle", "swap", "spin", "load", "store", "unlock", "adopt"}]
      /\ node \in [Node -> {0, 1}] /\ myNode \in [Thread -> Node]
  BY DEF TypeOK
<1>1. /\ pc[t] = "unlock"
      /\ UNCHANGED <<tail, pred, myNode>>
      /\ \A u \in Thread : pc'[u] = IF u = t THEN "adopt" ELSE pc[u]
      /\ \A n \in Node : node'[n] = IF n = myNode[t] THEN 0 ELSE node[n]
      /\ \A u \in Thread : myNode[u] \in Node
  BY <1>0 DEF Unlock, goto
<1>2. \A u \in Thread : /\ Queued(u)' <=> u # t /\ Queued(u)
                        /\ owned(u)' = IF u = t THEN pred[t] ELSE owned(u)
                        /\ HasLock(u)' <=> u # t /\ HasLock(u)
                        /\ Queued(u) => owned(u) = myNode[u]
  BY <1>1 DEF Queued, Waiting, HasLock, owned
<1>3. /\ Queued(t) /\ HasLock(t) /\ owned(t) = myNode[t] /\ pred[t] = free
      /\ \A u \in Thread : HasLock(u) => Queued(u)
      /\ \A u \in Thread : pc[u] = "swap" => owned(u) = myNode[u]
  BY <1>1 DEF Queued, Waiting, HasLock, owned, LineOK
<1>4. /\ node'[myNode[t]] = 0
      /\ \A u \in Thread : owned(u)' # myNode[t]
      /\ \A u, w \in Thread : u # w => owned(u)' # owned(w)'
  BY <1>1, <1>2, <1>3 DEF LineOK
<1>5. \A u \in Thread : Queued(u)' \/ pc'[u] = "swap" => node'[myNode'[u]] = 1
  <2> SUFFICES ASSUME NEW u \in Thread, Queued(u)' \/ pc'[u] = "swap"
               PROVE  node'[myNode'[u]] = 1
    OBVIOUS
  <2>1. u # t /\ (Queued(u) \/ pc[u] = "swap") /\ owned(u) = myNode[u]
    BY <1>1, <1>2, <1>3
  <2>2. myNode[u] # myNode[t] /\ node[myNode[u]] = 1
    BY <1>3, <2>1 DEF LineOK
  <2> QED
    BY <1>1, <2>2
<1>6. \A u \in Thread : Queued(u)' =>
          \/ pred'[u] = myNode[t]
          \/ \E w \in Thread : w # u /\ Queued(w)' /\ pred'[u] = myNode'[w]
  <2> SUFFICES ASSUME NEW u \in Thread, Queued(u)', pred'[u] # myNode[t]
               PROVE  \E w \in Thread : w # u /\ Queued(w)' /\ pred'[u] = myNode'[w]
    OBVIOUS
  <2>1. u # t /\ Queued(u) /\ pred[u] # free
    BY <1>2, <1>3 DEF LineOK
  <2>2. PICK w \in Thread : w # u /\ Queued(w) /\ pred[u] = myNode[w]
    BY <2>1 DEF LineOK
  <2> QED
    BY <1>1, <1>2, <2>2
<1>7. \A u, w \in Thread : u # w /\ Queued(u)' /\ Queued(w)' => pred'[u] # pred'[w]
  BY <1>1, <1>2 DEF LineOK
<1>8. tail' = myNode[t] \/ \E u \in Thread : Queued(u)' /\ tail' = myNode'[u]
  BY <1>1, <1>2, <1>3 DEF LineOK
<1>9. \A u \in Thread : Queued(u)' => pred'[u] # tail'
  BY <1>1, <1>2 DEF LineOK
<1>10. \A u \in Thread : ~HasLock(u)'
  BY <1>2, <1>3 DEF LineOK
<1>11. ASSUME NEW f \in Node, f = myNode[t] PROVE LineOK(f)'
  BY <1>1, <1>4, <1>5, <1>6, <1>7, <1>8, <1>9, <1>10, <1>11 DEF LineOK
<1> QED
  BY <1>1, <1>10, <1>11

\* A step of a thread that leaves its place in line and its node alone.
LEMMA SameLine ==
    ASSUME NEW free \in Node, LineOK(free), NEW t \in Thread,
           UNCHANGED <<tail, pred>>,
           \A n \in Node : node'[n] = node[n] \/ (n = myNode[t] /\ node'[n] = 1),
           \A u \in Thread \ {t} : pc'[u] = pc[u],
           \A u \in Thread : owned(u)' = owned(u) /\ (Queued(u)' <=> Queued(u)),
           \A u \in Thread \ {t} : myNode'[u] = myNode[u],
           Queued(t) \/ pc'[t] = "swap" =>
             myNode'[t] = myNode[t] /\ node'[myNode[t]] = 1,
           HasLock(t)' => pred[t] = free,
           owned(t) = myNode[t] \/ node' = node,
           \A u \in Thread : myNode[u] \in Node
    PROVE  LineOK(free)'
<1>1. node'[free] = 0
  BY DEF LineOK
<1>2. \A u \in Thread : Queued(u)' \/ pc'[u] = "swap" => node'[myNode'[u]] = 1
  BY DEF LineOK
<1>3. \A u \in Thread : Queued(u)' =>
          \/ pred'[u] = free
          \/ \E w \in Thread : w # u /\ Queued(w)' /\ pred'[u] = myNode'[w]
  BY DEF LineOK
<1>4. tail' = free \/ \E u \in Thread : Queued(u)' /\ tail' = myNode'[u]
  BY DEF LineOK
<1>5. \A u \in Thread : HasLock(u)' => pred'[u] = free
  BY DEF LineOK, HasLock
<1> QED
  BY <1>1, <1>2, <1>3, <1>4, <1>5 DEF LineOK

\* clh: the line stays in order, and lets its first thread in only.
LEMMA LineStep ==
    ASSUME TypeOK, Exclusive, NEW free \in Node, LineOK(free), program = "clh",
           NEW t \in Thread, thread_work(t)
    PROVE  /\ program' = program
           /\ \E f \in Node : LineOK(f)'
           /\ \A u, w \in Thread : HasLock(u)' /\ HasLock(w)' => u = w
<1>0. /\ pc \in [Thread -> {"idle", "swap", "spin", "load", "store", "unlock", "adopt"}]
      /\ node \in [Node -> {0, 1}] /\ myNode \in [Thread -> Node]
      /\ \A u \in Thread : myNode[u] \in Node
      /\ \A u, w \in Thread : HasLock(u) /\ HasLock(w) => u = w
  BY DEF TypeOK, Exclusive
<1>1. CASE Announce(t)
  <2>1. /\ UNCHANGED <<program, tail, pred, myNode>>
        /\ pc[t] = "idle"
        /\ \A u \in Thread : pc'[u] = IF u = t THEN "swap" ELSE pc[u]
        /\ \A n \in Node : node'[n] = IF n = myNode[t] THEN 1 ELSE node[n]
    BY <1>0, <1>1 DEF Announce, goto, call
  <2>2. /\ \A u \in Thread : owned(u)' = owned(u) /\ (Queued(u)' <=> Queued(u))
        /\ \A u \in Thread : HasLock(u)' <=> HasLock(u)
        /\ owned(t) = myNode[t] /\ ~HasLock(t)
    BY <2>1 DEF owned, Queued, Waiting, HasLock
  <2>3. LineOK(free)'
    BY <1>0, <2>1, <2>2, SameLine
  <2> QED
    BY <1>0, <2>1, <2>2, <2>3
<1>2. CASE Enqueue(t)
  <2>1. \A u \in Thread : HasLock(u)' <=> HasLock(u)
    BY <1>0, <1>2 DEF Enqueue, goto, HasLock
  <2> QED
    BY <1>0, <1>2, <2>1, EnqueueLine DEF Enqueue
<1>3. CASE Spin(t)
  <2>1. /\ UNCHANGED <<program, tail, pred, myNode, node>>
        /\ pc[t] = "spin" /\ node[pred[t]] = 0
        /\ \A u \in Thread : pc'[u] = IF u = t THEN "load" ELSE pc[u]
    BY <1>0, <1>3 DEF Spin, goto, clh
  <2>2. /\ \A u \in Thread : owned(u)' = owned(u) /\ (Queued(u)' <=> Queued(u))
        /\ \A u \in Thread : HasLock(u)' <=> u = t \/ HasLock(u)
        /\ \A u \in Thread : HasLock(u) => Queued(u)
        /\ Queued(t) /\ owned(t) = myNode[t] /\ ~HasLock(t)
    BY <2>1 DEF owned, Queued, Waiting, HasLock
  <2>3. pred[t] = free /\ node[myNode[t]] = 1
    BY <2>1, <2>2 DEF LineOK
  <2>4. \A u \in Thread : ~HasLock(u)
    BY <2>2, <2>3 DEF LineOK
  <2>5. LineOK(free)'
    BY <1>0, <2>1, <2>2, <2>3, SameLine
  <2> QED
    BY <2>1, <2>2, <2>4, <2>5
<1>4. CASE Load(t) \/ Store(t)
  <2>1. /\ UNCHANGED <<program, tail, pred, myNode, node>>
        /\ HasLock(t)
        /\ \A u \in Thread \ {t} : pc'[u] = pc[u]
        /\ pc'[t] \in {"store", "unlock"}
    BY <1>0, <1>4 DEF Load, Store, goto, clh, HasLock
  <2>2. /\ \A u \in Thread : owned(u)' = owned(u) /\ (Queued(u)' <=> Queued(u))
        /\ \A u \in Thread : HasLock(u)' <=> HasLock(u)
        /\ Queued(t) /\ owned(t) = myNode[t]
    BY <2>1 DEF owned, Queued, Waiting, HasLock
  <2>3. pred[t] = free /\ node[myNode[t]] = 1
    BY <2>1, <2>2 DEF LineOK
  <2>4. LineOK(free)'
    BY <1>0, <2>1, <2>2, <2>3, SameLine
  <2> QED
    BY <1>0, <2>1, <2>2, <2>4
<1>5. CASE Unlock(t)
  <2>1. program' = program
    BY <1>5 DEF Unlock
  <2> QED
    BY <1>5, <2>1, UnlockLine
<1>6. CASE Adopt(t)
  <2>1. /\ UNCHANGED <<program, tail, pred, node>>
        /\ pc[t] = "adopt"
        /\ \A u \in Thread : pc'[u] = IF u = t THEN "idle" ELSE pc[u]
        /\ \A u \in Thread : myNode'[u] = IF u = t THEN pred[t] ELSE myNode[u]
    BY <1>0, <1>6 DEF Adopt, goto
  <2>2. /\ \A u \in Thread : owned(u)' = owned(u) /\ (Queued(u)' <=> Queued(u))
        /\ \A u \in Thread : HasLock(u)' <=> HasLock(u)
        /\ ~Queued(t) /\ ~HasLock(t)
    BY <2>1 DEF owned, Queued, Waiting, HasLock
  <2>3. LineOK(free)'
    BY <1>0, <2>1, <2>2, SameLine
  <2> QED
    BY <1>0, <2>1, <2>2, <2>3
<1> QED
  BY <1>1, <1>2, <1>3, <1>4, <1>5, <1>6 DEF thread_work, Test, TestAndSet

-----------------------------------------------------------------------------
(* The counter                                                             *)

\* What the thread that has the lock has read stays true.
LEMMA RegisterStep ==
    ASSUME TypeOK, Exclusive, NEW t \in Thread, thread_work(t),
           \A u, w \in Thread : HasLock(u)' /\ HasLock(w)' => u = w
    PROVE  Exclusive'
<1>0. /\ pc \in [Thread -> {"idle", "swap", "spin", "load", "store", "unlock", "adopt"}]
      /\ register \in [Thread -> Nat]
      /\ \A u, w \in Thread : HasLock(u) /\ HasLock(w) => u = w
      /\ \A u \in Thread : pc[u] = "store" => register[u] = cnt_global
  BY DEF TypeOK, Exclusive
<1>1. \A u \in Thread : pc'[u] = "store" => register'[u] = cnt_global'
  <2>1. CASE Load(t)
    <3>1. /\ cnt_global' = cnt_global /\ HasLock(t)
          /\ \A u \in Thread : /\ pc'[u] = IF u = t THEN "store" ELSE pc[u]
                               /\ register'[u] = IF u = t THEN cnt_global ELSE register[u]
      BY <1>0, <2>1 DEF Load, goto, HasLock
    <3> QED
      BY <1>0, <3>1
  <2>2. CASE Store(t)
    <3>1. /\ HasLock(t) /\ pc[t] = "store"
          /\ \A u \in Thread : pc'[u] = IF u = t THEN "unlock" ELSE pc[u]
      BY <1>0, <2>2 DEF Store, goto, HasLock
    <3>2. \A u \in Thread : u # t => pc[u] # "store"
      BY <1>0, <3>1 DEF HasLock
    <3> QED
      BY <3>1, <3>2
  <2>3. CASE ~Load(t) /\ ~Store(t)
    <3>1. /\ UNCHANGED <<cnt_global, register>>
          /\ pc'[t] # "store"
          /\ \A u \in Thread : u # t => pc'[u] = pc[u]
      BY <1>0, <2>3
         DEF thread_work, Test, TestAndSet, Announce, Enqueue, Spin, Unlock, Adopt, goto
    <3> QED
      BY <1>0, <3>1
  <2> QED
    BY <2>1, <2>2, <2>3
<1> QED
  BY <1>1 DEF Exclusive

\* f adds up the increments of the threads.
IsSum(f, c) == f = [n \in 0..NumThread |-> IF n = 0 THEN 0 ELSE f[n - 1] + c[n]]

\* The counter is the number of increments.
SumOK == \E f \in [0..NumThread -> Nat] : IsSum(f, i) /\ cnt_global = f[NumThread]

\* There is only one way to add them up.
LEMMA SumUnique ==
    ASSUME NumThread \in Nat, NEW c, NEW f, NEW g, IsSum(f, c), IsSum(g, c)
    PROVE  f = g
<1> DEFINE D == {n \in 0..NumThread : f[n] # g[n]}
           R == {p \in Nat \X Nat : p[1] < p[2]}
<1>1. /\ \A n \in 0..NumThread : f[n] = IF n = 0 THEN 0 ELSE f[n - 1] + c[n]
      /\ \A n \in 0..NumThread : g[n] = IF n = 0 THEN 0 ELSE g[n - 1] + c[n]
  <2>1. /\ f = [n \in 0..NumThread |-> IF n = 0 THEN 0 ELSE f[n - 1] + c[n]]
        /\ g = [n \in 0..NumThread |-> IF n = 0 THEN 0 ELSE g[n - 1] + c[n]]
    BY DEF IsSum
  <2> QED
    BY <2>1, Zenon
<1>2. D = {}
  <2> SUFFICES ASSUME D # {} PROVE FALSE
    OBVIOUS
  <2>1. IsWellFoundedOn(R, Nat)
    BY NatLessThanWellFounded DEF OpToRel
  <2>2. D \subseteq Nat
    OBVIOUS
  <2>3. PICK d \in D : \A e \in D : <<e, d>> \notin R
    <3> HIDE DEF R, D
    <3> QED
      BY <2>1, <2>2, WFMin
  <2>4. d \in 0..NumThread /\ f[d] # g[d]
    OBVIOUS
  <2>5. d # 0
    BY <1>1, <2>4
  <2>6. d - 1 \in 0..NumThread
    BY <2>4, <2>5
  <2>7. <<d - 1, d>> \in R
    BY <2>4, <2>5
  <2>8. f[d - 1] = g[d - 1]
    BY <2>3, <2>6, <2>7
  <2> QED
    BY <1>1, <2>4, <2>5, <2>8
<1>3. \A n \in 0..NumThread : f[n] = g[n]
  BY <1>2
<1>4. f = [n \in 0..NumThread |-> f[n]]
  BY Zenon DEF IsSum
<1>5. g = [n \in 0..NumThread |-> g[n]]
  BY Zenon DEF IsSum
<1> QED
  BY <1>3, <1>4, <1>5, Zenon

\* One increment more adds one to the sum.
LEMMA SumIncrement ==
    ASSUME NumThread \in Nat, NEW c \in [Thread -> Nat], NEW t \in Thread,
           NEW f \in [0..NumThread -> Nat], IsSum(f, c)
    PROVE  \E g \in [0..NumThread -> Nat] :
               IsSum(g, [c EXCEPT ![t] = @ + 1]) /\ g[NumThread] = f[NumThread] + 1
<1> DEFINE g == [n \in 0..NumThread |-> IF n < t THEN f[n] ELSE f[n] + 1]
           d == [c EXCEPT ![t] = @ + 1]
<1>1. t \in Nat /\ 0 < t /\ t <= NumThread
  BY DEF Thread
<1>2. \A n \in 0..NumThread : f[n] \in Nat /\ f[n] = IF n = 0 THEN 0 ELSE f[n - 1] + c[n]
  <2>1. f = [n \in 0..NumThread |-> IF n = 0 THEN 0 ELSE f[n - 1] + c[n]]
    BY DEF IsSum
  <2>2. \A n \in 0..NumThread : f[n] = IF n = 0 THEN 0 ELSE f[n - 1] + c[n]
    BY <2>1, Zenon
  <2> QED
    BY <2>2
<1>3. g \in [0..NumThread -> Nat]
  BY <1>2
<1>4. g[NumThread] = f[NumThread] + 1
  BY <1>1
<1>5. \A n \in 0..NumThread : g[n] = IF n = 0 THEN 0 ELSE g[n - 1] + d[n]
  <2> SUFFICES ASSUME NEW n \in 0..NumThread
               PROVE  g[n] = IF n = 0 THEN 0 ELSE g[n - 1] + d[n]
    OBVIOUS
  <2>1. CASE n = 0
    BY <1>1, <1>2, <2>1
  <2>2. CASE n # 0
    <3>1. n - 1 \in 0..NumThread /\ n \in Thread
      BY <2>2 DEF Thread
    <3>2. /\ g[n] = IF n < t THEN f[n] ELSE f[n] + 1
          /\ g[n - 1] = IF n - 1 < t THEN f[n - 1] ELSE f[n - 1] + 1
      BY <3>1
    <3>3. d[n] = IF n = t THEN c[n] + 1 ELSE c[n]
      BY <3>1
    <3>4. /\ f[n] = f[n - 1] + c[n] /\ f[n] \in Nat /\ f[n - 1] \in Nat /\ c[n] \in Nat
      BY <1>2, <2>2, <3>1
    <3> HIDE DEF g, d
    <3> QED
      BY <1>1, <2>2, <3>2, <3>3, <3>4, SMTT(30)
  <2> QED
    BY <2>1, <2>2
<1>6. IsSum(g, d)
  <2>1. g = [n \in 0..NumThread |-> g[n]]
    BY <1>3, Zenon
  <2>2. g = [n \in 0..NumThread |-> IF n = 0 THEN 0 ELSE g[n - 1] + d[n]]
    <3> HIDE DEF g, d
    <3> QED
      BY <1>5, <2>1, Zenon
  <2> QED
    BY <2>2 DEF IsSum
<1> QED
  BY <1>3, <1>4, <1>6

\* SumOK is CounterExact.
LEMMA SumIsExact == ASSUME NumThread \in Nat, SumOK PROVE CounterExact
<1> DEFINE sum == CHOOSE f : f = [n \in 0..NumThread |-> IF n = 0 THEN 0 ELSE f[n - 1] + i[n]]
<1>1. PICK f \in [0..NumThread -> Nat] : IsSum(f, i) /\ cnt_global = f[NumThread]
  BY DEF SumOK
<1>2. f = [n \in 0..NumThread |-> IF n = 0 THEN 0 ELSE f[n - 1] + i[n]]
  BY <1>1 DEF IsSum
<1>3. sum = [n \in 0..NumThread |-> IF n = 0 THEN 0 ELSE sum[n - 1] + i[n]]
  BY <1>2, Zenon
<1>4. IsSum(sum, i)
  BY <1>3 DEF IsSum
<1>5. sum = f
  <2> HIDE DEF sum
  <2> QED
    BY <1>1, <1>4, SumUnique
<1> QED
  BY <1>1, <1>5, Zenon DEF CounterExact

\* A step counts what it increments.
LEMMA SumStep ==
    ASSUME NumThread \in Nat, TypeOK, Exclusive, SumOK, NEW t \in Thread, thread_work(t)
    PROVE  SumOK'
<1>1. CASE Store(t)
  <2>1. /\ pc[t] = "store" /\ cnt_global' = register[t] + 1
        /\ i' = [i EXCEPT ![t] = @ + 1]
    BY <1>1 DEF Store
  <2>2. cnt_global' = cnt_global + 1
    BY <2>1 DEF Exclusive
  <2>3. PICK f \in [0..NumThread -> Nat] : IsSum(f, i) /\ cnt_global = f[NumThread]
    BY DEF SumOK
  <2>4. i \in [Thread -> Nat]
    BY DEF TypeOK
  <2>5. PICK g \in [0..NumThread -> Nat] :
             IsSum(g, [i EXCEPT ![t] = @ + 1]) /\ g[NumThread] = f[NumThread] + 1
    BY <2>3, <2>4, SumIncrement
  <2>6. \E h \in [0..NumThread -> Nat] : IsSum(h, i') /\ cnt_global' = h[NumThread]
    BY <2>1, <2>2, <2>3, <2>5
  <2> QED
    BY <2>6 DEF SumOK, IsSum
<1>2. CASE ~Store(t)
  <2>1. UNCHANGED <<cnt_global, i>>
    BY <1>2 DEF thread_work, Test, TestAndSet, Announce, Enqueue, Spin, Load, Unlock, Adopt
  <2> QED
    BY <2>1 DEF SumOK, IsSum
<1> QED
  BY <1>1, <1>2

\* Before the first increment, the sum is zero.
LEMMA SumInit == ASSUME NumThread \in Nat, Fresh PROVE SumOK
<1> DEFINE f == [n \in 0..NumThread |-> 0]
<1>1. /\ cnt_global = 0 /\ i = [t \in Thread |-> 0]
  BY DEF Fresh
<1>2. \A n \in 0..NumThread : f[n] = IF n = 0 THEN 0 ELSE f[n - 1] + i[n]
  <2> SUFFICES ASSUME NEW n \in 0..NumThread, n # 0 PROVE f[n] = f[n - 1] + i[n]
    OBVIOUS
  <2>1. n - 1 \in 0..NumThread /\ n \in Thread
    BY DEF Thread
  <2> QED
    BY <1>1, <2>1
<1>3. IsSum(f, i)
  <2>1. f = [n \in 0..NumThread |-> f[n]]
    BY Zenon
  <2> HIDE DEF f
  <2>2. f = [n \in 0..NumThread |-> IF n = 0 THEN 0 ELSE f[n - 1] + i[n]]
    BY <1>2, <2>1, Zenon
  <2> QED
    BY <2>2 DEF IsSum
<1>4. f \in [0..NumThread -> Nat] /\ f[NumThread] = 0
  OBVIOUS
<1> QED
  BY <1>1, <1>3, <1>4 DEF SumOK

-----------------------------------------------------------------------------
(* The theorems                                                            *)

LockInvAll == LockInv /\ SumOK

\* At first nobody is in line, and the lock's own node is the free one.
LEMMA LockInit == ASSUME NumThread \in Nat, Init PROVE LockInvAll
<1>0. /\ program \in Program /\ tail = 0 /\ object_tas = 0 /\ cnt_global = 0
      /\ node = [n \in Node |-> IF n = 0 THEN 0 ELSE 1]
      /\ myNode = [t \in Thread |-> t] /\ pred = [t \in Thread |-> 0]
      /\ pc = [t \in Thread |-> "idle"] /\ i = [t \in Thread |-> 0]
      /\ register = [t \in Thread |-> 0]
  BY DEF Init, Fresh
<1>1. /\ 0 \in Node /\ \A t \in Thread : t \in Node /\ t # 0
  BY DEF Node, Thread
<1>2. TypeOK
  BY <1>0, <1>1 DEF TypeOK
<1>3. SetOK /\ Exclusive
  BY <1>0 DEF SetOK, Exclusive, HasLock
<1>4. LineOK(0)
  BY <1>0, <1>1 DEF LineOK, Queued, Waiting, HasLock, owned
<1>5. SumOK
  BY SumInit DEF Init
<1> QED
  BY <1>1, <1>2, <1>3, <1>4, <1>5 DEF LockInvAll, LockInv

\* A step of the threads keeps the invariant.
LEMMA LockStep == ASSUME NumThread \in Nat, LockInvAll, [Next]_vars PROVE LockInvAll'
<1>0. TypeOK /\ SetOK /\ Exclusive /\ SumOK /\ TypeOK'
  BY TypeStep DEF LockInvAll, LockInv
<1>1. CASE UNCHANGED vars
  <2>1. UNCHANGED <<program, cnt_global, object_tas, tail, node, myNode, pred, pc, i, register>>
    BY <1>1 DEF vars, clh
  <2>2. \A free \in Node : LineOK(free) => LineOK(free)'
    BY <2>1 DEF LineOK, Queued, Waiting, HasLock, owned
  <2>3. SetOK' /\ Exclusive'
    BY <1>0, <2>1 DEF SetOK, Exclusive, HasLock
  <2>4. SumOK'
    BY <1>0, <2>1 DEF SumOK, IsSum
  <2> QED
    BY <1>0, <2>1, <2>2, <2>3, <2>4 DEF LockInvAll, LockInv
<1>2. ASSUME NEW t \in Thread, thread_work(t) PROVE LockInvAll'
  <2>1. SumOK'
    BY <1>0, <1>2, SumStep
  <2>2. CASE program = "clh"
    <3>1. PICK free \in Node : LineOK(free)
      BY <2>2 DEF LockInvAll, LockInv
    <3>2. /\ program' = program
          /\ \E f \in Node : LineOK(f)'
          /\ \A u, w \in Thread : HasLock(u)' /\ HasLock(w)' => u = w
      BY <1>0, <1>2, <2>2, <3>1, LineStep
    <3>3. Exclusive'
      BY <1>0, <1>2, <3>2, RegisterStep
    <3> QED
      BY <1>0, <2>1, <2>2, <3>2, <3>3 DEF LockInvAll, LockInv, SetOK
  <2>3. CASE program # "clh"
    <3>1. /\ program' = program
          /\ SetOK'
          /\ \A u, w \in Thread : HasLock(u)' /\ HasLock(w)' => u = w
      BY <1>0, <1>2, <2>3, SetStep
    <3>2. Exclusive'
      BY <1>0, <1>2, <3>1, RegisterStep
    <3> QED
      BY <1>0, <2>1, <2>3, <3>1, <3>2 DEF LockInvAll, LockInv
  <2> QED
    BY <2>2, <2>3
<1> QED
  BY <1>1, <1>2 DEF Next, Joined

\* What the line says of the nodes.
LEMMA LineNodes == LockInv => NodesOwned
<1> SUFFICES ASSUME LockInv, program = "clh",
                    NEW t \in Thread, NEW u \in Thread, t # u
             PROVE  /\ owned(t) # owned(u)
                    /\ Waiting(t) /\ Waiting(u) => pred[t] # pred[u]
                    /\ Waiting(t) /\ owned(u) = pred[t] => Waiting(u) \/ HasLock(u)
  BY DEF NodesOwned
<1>1. PICK free \in Node : LineOK(free)
  BY DEF LockInv
<1>2. \A w \in Thread : Queued(w) => owned(w) = myNode[w]
  BY DEF Queued, Waiting, HasLock, owned
<1>3. ASSUME Waiting(t), owned(u) = pred[t] PROVE Waiting(u) \/ HasLock(u)
  <2>1. PICK w \in Thread : Queued(w) /\ pred[t] = myNode[w]
    BY <1>1, <1>3 DEF LineOK, Queued
  <2>2. w = u
    BY <1>1, <1>2, <1>3, <2>1 DEF LineOK
  <2> QED
    BY <2>1, <2>2 DEF Queued
<1> QED
  BY <1>1, <1>3 DEF LineOK, Queued

\* All three locks exclude, for any number of threads and calls.
THEOREM LocksInvariant == ASSUME NumThread \in Nat PROVE Spec => []LockInvAll
<1>1. Init => LockInvAll
  BY LockInit
<1>2. LockInvAll /\ [Next]_vars => LockInvAll'
  BY LockStep
<1> QED
  BY <1>1, <1>2, PTL DEF Spec

\* The nodes of the CLH lock circulate without being used twice.
THEOREM LocksNodesOwned == ASSUME NumThread \in Nat PROVE Spec => []NodesOwned
<1>1. LockInvAll => NodesOwned
  BY LineNodes DEF LockInvAll
<1> QED
  BY <1>1, LocksInvariant, PTL

\* No increment of the counter that the lock guards is lost.
THEOREM LocksCounterExact == ASSUME NumThread \in Nat PROVE Spec => []CounterExact
<1>1. LockInvAll => CounterExact
  BY SumIsExact DEF LockInvAll
<1> QED
  BY <1>1, LocksInvariant, PTL
=============================================================================
