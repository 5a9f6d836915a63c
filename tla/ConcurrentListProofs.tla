------------------------ MODULE ConcurrentListProofs ------------------------
(***************************************************************************)
(* Proofs about module ConcurrentList, for any number of threads, keys and *)
(* calls: the lists of lab12 stay sorted, no call but list_contains of the *)
(* list with one lock uses a node that has been freed, the optimistic list *)
(* starts over only when another thread has changed it, and each call      *)
(* takes effect in one moment.                                             *)
(***************************************************************************)
EXTENDS ConcurrentList, WellFoundedInduction, TLAPS

-----------------------------------------------------------------------------
(* The inductive invariant                                                 *)

Label == {"idle", "start", "search", "lockCurr", "validate", "check",
          "unlockPrev", "unlockCurr", "compare", "free"}

TypeOK ==
    /\ program \in Program
    /\ key \in [Node -> 0..MaxKey + 1]
    /\ next \in [Node -> Node \cup {null}]
    /\ mutex \in [Node -> Thread \cup {Nobody}]
    /\ freed \subseteq Node
    /\ i \in [Thread -> 0..MaxWork]
    /\ pc \in [Thread -> Label]
    /\ call \in [Thread -> [type : {"A", "R", "C"}, value : Key]]
    /\ answer \in [Thread -> {"unknown", "true", "false"}]
    /\ prev \in [Thread -> Node] /\ curr \in [Thread -> Node] /\ it \in [Thread -> Node]
    /\ disturbed \in [Thread -> BOOLEAN]

\* The nodes that have been in the list, whether they still are or not: keys
\* grow along their pointers.
Used == {n \in Node : n = tail \/ next[n] # null}
UsedOK ==
    /\ key[head] = 0 /\ key[tail] = MaxKey + 1 /\ next[tail] = null
    /\ \A n \in Used \ {tail} : next[n] \in Used /\ key[n] < key[next[n]]
    /\ \A t \in Thread, j \in 1..MaxWork : j > i[t] => next[<<t, j>>] = null

\* S is in the order of the keys k, and x leads from each node to the next.
Sorted(S, k, x) ==
    /\ head \in S /\ tail \in S
    /\ \A n \in S \ {tail} :
        /\ x[n] \in S /\ k[n] < k[x[n]]
        /\ \A m \in S : k[m] <= k[n] \/ k[x[n]] <= k[m]
    /\ \A m, n \in S : k[m] = k[n] => m = n
ListOK == Sorted(List, key, next)

\* Where a thread can be, and whether its call has been decided.
PcOK(t) ==
    /\ program = "coarse" =>
           pc[t] \in {"idle", "start", "check", "unlockPrev", "compare", "free"}
    /\ program = "fine" =>
           pc[t] \in {"idle", "start", "lockCurr", "check", "unlockPrev", "unlockCurr", "free"}
    /\ program = "optimistic" => pc[t] \notin {"compare", "free"}
    /\ pc[t] \in {"start", "search", "lockCurr", "validate", "check"} => answer[t] = "unknown"
    /\ pc[t] \in {"compare", "free"} => answer[t] # "unknown"
    /\ pc[t] = "free" => call[t].type = "R" /\ answer[t] = "true"
    /\ program # "optimistic" /\ pc[t] \in {"unlockPrev", "unlockCurr"} => answer[t] # "unknown"

\* The node of list_add is new until the call has been decided.
MineOK(t) ==
    pc[t] # "idle" =>
        /\ i[t] > 0
        /\ call[t].type = "A" => /\ key[myNode(t)] = value(t)
                                 /\ answer[t] = "unknown" => next[myNode(t)] = null

\* A search goes along nodes that have been in the list, in their order.
SearchOK(t) ==
    /\ pc[t] \in {"search", "lockCurr", "validate", "check", "unlockPrev"} =>
           /\ prev[t] \in Used /\ curr[t] \in Used
           /\ key[prev[t]] < key[curr[t]] /\ key[prev[t]] < value(t)
    /\ pc[t] = "validate" => it[t] \in Used

\* The mutexes a thread holds.
HoldOK(t) ==
    /\ program = "coarse" /\ pc[t] \in {"check", "unlockPrev"} => mutex[head] = t
    /\ program # "coarse" =>
        /\ pc[t] \in {"lockCurr", "validate", "check", "unlockPrev"} => mutex[prev[t]] = t
        /\ pc[t] \in {"validate", "check", "unlockPrev", "unlockCurr"} => mutex[curr[t]] = t

\* A thread that has unlinked a node and is not through with it.
Unlinked(t) ==
    /\ pc[t] \in {"unlockPrev", "unlockCurr", "free"}
    /\ call[t].type = "R" /\ answer[t] = "true"

\* Nodes that a thread has locked and found in the list stay there.
PlaceOK(t) ==
    /\ pc[t] = "check" \/ (program = "fine" /\ pc[t] = "lockCurr") =>
           prev[t] \in List /\ next[prev[t]] = curr[t]
    /\ pc[t] = "unlockPrev" /\ answer[t] # "unknown" => prev[t] \in List
    /\ pc[t] \in {"unlockPrev", "unlockCurr"} /\ answer[t] # "unknown" /\ ~Unlinked(t) =>
           curr[t] \in List

\* A validation does not meet a node that was unlinked before it was locked:
\* there are nodes, closed under the pointers, which leave it out.
Avoids(nodes, n) ==
    /\ List \subseteq nodes /\ n \notin nodes
    /\ \A m \in nodes \ {tail} : next[m] \in nodes
ReachOK(t) ==
    pc[t] = "validate" =>
        prev[t] \in List \/ \E nodes \in SUBSET Node : it[t] \in nodes /\ Avoids(nodes, prev[t])

\* If nobody has changed the list, the search has found its place in it.
CalmOK(t) ==
    program = "optimistic" /\ ~disturbed[t] /\ pc[t] \in {"search", "lockCurr", "validate"} =>
        /\ prev[t] \in List /\ next[prev[t]] = curr[t]
        /\ pc[t] = "validate" => it[t] \in List /\ key[it[t]] <= key[prev[t]]

\* What is free or going to be is not in the list, and is freed once.
FreedOK ==
    /\ freed \subseteq Used \ List
    /\ program = "optimistic" => freed = {}
    /\ \A t \in Thread : Unlinked(t) => curr[t] \in Used \ (List \cup freed)
    /\ \A t, u \in Thread : Unlinked(t) /\ Unlinked(u) /\ curr[t] = curr[u] => t = u

ThreadOK(t) ==
    /\ PcOK(t) /\ MineOK(t) /\ SearchOK(t) /\ HoldOK(t)
    /\ PlaceOK(t) /\ ReachOK(t) /\ CalmOK(t)

ListInv == TypeOK /\ UsedOK /\ ListOK /\ FreedOK /\ \A t \in Thread : ThreadOK(t)

-----------------------------------------------------------------------------
(* Nodes and sorted lists                                                  *)

\* The head and the tail are two nodes, those of the threads are others, and
\* null is none.
LEMMA NodeFacts ==
    /\ head \in Node /\ tail \in Node /\ head # tail /\ null \notin Node
    /\ \A t \in Thread, j \in 1..MaxWork :
        /\ <<t, j>> \in Node /\ <<t, j>> # head /\ <<t, j>> # tail
        /\ \A u \in Thread, k \in 1..MaxWork : <<t, j>> = <<u, k>> => t = u /\ j = k
<1>1. head # tail
  BY DEF head, tail
<1>2. null \notin Node
  BY DEF null, Node, head, tail
<1>3. \A t \in Thread, j \in 1..MaxWork : /\ <<t, j>> \in Node
                                          /\ <<t, j>> # head /\ <<t, j>> # tail
  BY DEF Node, head, tail, Thread
<1> QED
  BY <1>1, <1>2, <1>3 DEF Node

\* A set of numbers has a least one.
LEMMA Least ==
    ASSUME NEW D \in SUBSET Nat, D # {}
    PROVE  \E d \in D : \A e \in D : d <= e
<1> DEFINE R == {p \in Nat \X Nat : p[1] < p[2]}
<1>1. IsWellFoundedOn(R, Nat)
  BY NatLessThanWellFounded DEF OpToRel
<1>2. PICK d \in D : \A e \in D : <<e, d>> \notin R
  <2> HIDE DEF R
  <2> QED
    BY <1>1, WFMin
<1>3. \A e \in D : d <= e
  <2> SUFFICES ASSUME NEW e \in D, ~(d <= e) PROVE FALSE
    OBVIOUS
  <2>1. e \in Nat /\ d \in Nat /\ e < d
    OBVIOUS
  <2>2. <<e, d>> \in R
    BY <2>1
  <2> QED
    BY <1>2, <2>2
<1> QED
  BY <1>3

\* A set of nodes has one whose key is the least, and one whose key is the
\* greatest below a bound.
LEMMA LeastKey ==
    ASSUME NEW k \in [Node -> Nat], NEW S \in SUBSET Node, S # {}
    PROVE  \E s \in S : \A m \in S : k[s] <= k[m]
<1> DEFINE D == {k[m] : m \in S}
<1>1. D \in SUBSET Nat /\ D # {}
  OBVIOUS
<1>2. PICK d \in D : \A e \in D : d <= e
  <2> HIDE DEF D
  <2> QED
    BY <1>1, Least
<1> QED
  BY <1>2

\* See LeastKey.
LEMMA GreatestKey ==
    ASSUME NEW k \in [Node -> Nat], NEW S \in SUBSET Node, S # {}, NEW b \in Nat,
           \A m \in S : k[m] <= b
    PROVE  \E s \in S : \A m \in S : k[m] <= k[s]
<1> DEFINE c == [n \in Node |-> IF n \in S THEN b - k[n] ELSE 0]
<1>1. c \in [Node -> Nat]
  <2>1. \A m \in S : b - k[m] \in Nat
    OBVIOUS
  <2> QED
    BY <2>1
<1>2. PICK s \in S : \A m \in S : c[s] <= c[m]
  <2> HIDE DEF c
  <2> QED
    BY <1>1, LeastKey
<1>3. \A m \in S : k[m] <= k[s]
  <2> SUFFICES ASSUME NEW m \in S PROVE k[m] <= k[s]
    OBVIOUS
  <2>1. b - k[s] <= b - k[m]
    BY <1>2
  <2> QED
    BY <2>1
<1> QED
  BY <1>3

\* What is reached from the head by pointers x.
ListOf(x) ==
    {n \in Node : \A nodes \in SUBSET Node :
        (head \in nodes /\ \A m \in nodes \ {tail} : x[m] \in nodes) => n \in nodes}

\* Sorted nodes are what is reached from the head: if one were not, then the
\* first of them would have a predecessor that is reached and points to it.
LEMMA SortedIsList ==
    ASSUME NEW k \in [Node -> Nat], NEW x, NEW S \in SUBSET Node, Sorted(S, k, x),
           k[head] = 0, \A m \in Node : k[m] <= k[tail]
    PROVE  ListOf(x) = S
<1>1. ListOf(x) \subseteq S
  BY DEF ListOf, Sorted
<1>2. ASSUME NEW nodes \in SUBSET Node, head \in nodes,
             \A m \in nodes \ {tail} : x[m] \in nodes
      PROVE  S \subseteq nodes
  <2> SUFFICES ASSUME S \ nodes # {} PROVE FALSE
    OBVIOUS
  <2>1. PICK s \in S \ nodes : \A m \in S \ nodes : k[s] <= k[m]
    BY LeastKey
  <2> DEFINE below == {m \in S : k[m] < k[s]}
  <2>2. head \in below
    <3>1. head \in S /\ s # head /\ head \in Node /\ k[s] # k[head]
      BY <1>2, <2>1, NodeFacts DEF Sorted
    <3> QED
      BY <3>1
  <2>3. PICK p \in below : \A m \in below : k[m] <= k[p]
    <3>1. below \in SUBSET Node /\ below # {} /\ k[s] \in Nat /\ \A m \in below : k[m] <= k[s]
      BY <2>2
    <3> HIDE DEF below
    <3> QED
      BY <3>1, GreatestKey
  <2>4. /\ p \in S /\ k[p] < k[s] /\ k[p] \in Nat /\ k[s] \in Nat /\ tail \in Node
        /\ k[s] <= k[tail]
    BY <2>3, NodeFacts
  <2>5. p # tail
    BY <2>4
  <2>6. x[p] \in S /\ k[p] < k[x[p]] /\ k[x[p]] <= k[s] /\ k[x[p]] \in Nat
    BY <2>4, <2>5 DEF Sorted
  <2>7. ~(k[x[p]] < k[s])
    BY <2>3, <2>4, <2>6
  <2>8. x[p] = s
    BY <2>4, <2>6, <2>7 DEF Sorted
  <2>9. p \in nodes
    BY <2>1, <2>4
  <2> QED
    BY <1>2, <2>1, <2>5, <2>8, <2>9
<1>3. S \subseteq ListOf(x)
  BY <1>2 DEF ListOf
<1> QED
  BY <1>1, <1>3

\* A new node between two that follow each other.
LEMMA SortedInsert ==
    ASSUME NEW k \in [Node -> Nat], NEW x \in [Node -> Node \cup {null}],
           NEW S \in SUBSET Node, Sorted(S, k, x),
           NEW p \in S \ {tail}, NEW m \in Node \ S, k[p] < k[m], k[m] < k[x[p]]
    PROVE  Sorted(S \cup {m}, k, [x EXCEPT ![p] = m, ![m] = x[p]])
<1> DEFINE y == [x EXCEPT ![p] = m, ![m] = x[p]]
           T == S \cup {m}
<1>0. /\ head \in S /\ tail \in S /\ p # m /\ m # tail
      /\ \A n \in S \ {tail} :
          /\ x[n] \in S /\ k[n] < k[x[n]]
          /\ \A l \in S : k[l] <= k[n] \/ k[x[n]] <= k[l]
      /\ \A l, n \in S : k[l] = k[n] => l = n
  BY DEF Sorted
<1>1. y[p] = m /\ y[m] = x[p] /\ \A n \in S \ {p} : y[n] = x[n]
  BY <1>0
<1>2. /\ \A n \in Node : k[n] \in Nat
      /\ x[p] \in S /\ p \in Node /\ m \in Node
  BY <1>0
<1>3. \A n \in S : k[n] <= k[p] \/ k[x[p]] <= k[n]
  BY <1>0
<1>4. \A n \in S : k[n] # k[m]
  BY <1>2, <1>3
<1> HIDE DEF y
<1>5. \A n \in T \ {tail} : y[n] \in T /\ k[n] < k[y[n]]
  BY <1>0, <1>1, <1>2
<1>6. ASSUME NEW n \in T \ {tail}, NEW l \in T
      PROVE  k[l] <= k[n] \/ k[y[n]] <= k[l]
  <2>1. CASE n = p
    BY <1>1, <1>2, <1>3, <2>1
  <2>2. CASE n = m
    BY <1>1, <1>2, <1>3, <2>2
  <2>3. CASE n \in S \ {p}
    <3>1. /\ y[n] = x[n] /\ x[n] \in S /\ k[n] \in Nat /\ k[x[n]] \in Nat /\ k[l] \in Nat
          /\ k[n] < k[x[n]]
      BY <1>0, <1>1, <1>2, <2>3
    <3>2. CASE l \in S
      BY <1>0, <2>3, <3>1, <3>2
    <3>3. CASE l = m
      <4>1. k[p] <= k[n] \/ k[x[n]] <= k[p]
        BY <1>0, <2>3
      <4>2. k[n] <= k[p] \/ k[x[p]] <= k[n]
        BY <1>3, <2>3
      <4>3. k[n] # k[p]
        BY <1>0, <2>3
      <4> QED
        BY <1>2, <3>1, <3>3, <4>1, <4>2, <4>3
    <3> QED
      BY <3>2, <3>3
  <2> QED
    BY <2>1, <2>2, <2>3
<1>7. \A l, n \in T : k[l] = k[n] => l = n
  BY <1>0, <1>4
<1> QED
  BY <1>0, <1>5, <1>6, <1>7 DEF Sorted, y

\* The node after p is left out.
LEMMA SortedUnlink ==
    ASSUME NEW k \in [Node -> Nat], NEW x \in [Node -> Node \cup {null}],
           NEW S \in SUBSET Node, Sorted(S, k, x), k[head] = 0,
           NEW p \in S \ {tail}, x[p] # tail
    PROVE  Sorted(S \ {x[p]}, k, [x EXCEPT ![p] = x[x[p]]])
<1> DEFINE c == x[p]
           y == [x EXCEPT ![p] = x[c]]
           T == S \ {c}
<1>0. /\ head \in S /\ tail \in S
      /\ \A n \in S \ {tail} :
          /\ x[n] \in S /\ k[n] < k[x[n]]
          /\ \A l \in S : k[l] <= k[n] \/ k[x[n]] <= k[l]
      /\ \A l, n \in S : k[l] = k[n] => l = n
  BY DEF Sorted
<1>1. /\ c \in S \ {tail} /\ k[p] < k[c] /\ x[c] \in S /\ k[c] < k[x[c]]
      /\ \A n \in Node : k[n] \in Nat
  BY <1>0
<1>2. c # head /\ p # c /\ x[c] # c
  BY <1>1
<1>3. y[p] = x[c] /\ \A n \in S \ {p} : y[n] = x[n]
  BY <1>0
<1> HIDE DEF c, y
<1>4. \A n \in S \ {p, tail} : x[n] # c
  <2> SUFFICES ASSUME NEW n \in S \ {p, tail}, x[n] = c PROVE FALSE
    OBVIOUS
  <2>1. k[p] <= k[n] \/ k[c] <= k[p]
    BY <1>0
  <2>2. k[n] <= k[p] \/ k[c] <= k[n]
    BY <1>0 DEF c
  <2>3. k[n] < k[c] /\ k[n] # k[p]
    BY <1>0
  <2> QED
    BY <1>1, <2>1, <2>2, <2>3
<1>5. \A n \in T \ {tail} : y[n] \in T /\ k[n] < k[y[n]]
  <2> SUFFICES ASSUME NEW n \in T \ {tail} PROVE y[n] \in T /\ k[n] < k[y[n]]
    OBVIOUS
  <2>1. CASE n = p
    BY <1>1, <1>2, <1>3, <2>1
  <2>2. CASE n # p
    BY <1>0, <1>3, <1>4, <2>2
  <2> QED
    BY <2>1, <2>2
<1>6. ASSUME NEW n \in T \ {tail}, NEW l \in T
      PROVE  k[l] <= k[n] \/ k[y[n]] <= k[l]
  <2>1. CASE n = p
    <3>1. k[l] <= k[p] \/ k[c] <= k[l]
      BY <1>0 DEF c
    <3>2. k[l] <= k[c] \/ k[x[c]] <= k[l]
      BY <1>0, <1>1
    <3>3. k[l] # k[c]
      BY <1>0, <1>1
    <3> QED
      BY <1>1, <1>3, <2>1, <3>1, <3>2, <3>3
  <2>2. CASE n # p
    BY <1>0, <1>3, <2>2
  <2> QED
    BY <2>1, <2>2
<1>7. head \in T /\ tail \in T /\ \A l, n \in T : k[l] = k[n] => l = n
  BY <1>0, <1>1, <1>2
<1> QED
  BY <1>5, <1>6, <1>7 DEF Sorted, c, y

-----------------------------------------------------------------------------
(* What the invariant says of the nodes a thread is at                     *)

\* The numbers of calls and keys are natural numbers.
LEMMA Constants ==
    /\ NumThread \in Nat /\ MaxKey \in Nat /\ MaxWork \in Nat
    /\ 0..MaxKey + 1 \subseteq Nat /\ 0..MaxWork \subseteq Nat
    /\ Key \subseteq Nat /\ \A v \in Key : 0 < v /\ v < MaxKey + 1
BY NumThreadAssumption, MaxKeyAssumption, MaxWorkAssumption DEF Key

\* The nodes of the list have been used; its pointers stay inside; a key
\* between two nodes that follow each other is in no node.
LEMMA InList ==
    ASSUME TypeOK, ListOK
    PROVE  /\ List \in SUBSET Used /\ Used \in SUBSET Node
           /\ head \in List /\ tail \in List
           /\ \A n \in List \ {tail} :
                 /\ next[n] \in List /\ key[n] < key[next[n]]
                 /\ \A m \in List : key[m] <= key[n] \/ key[next[n]] <= key[m]
           /\ \A m, n \in List : key[m] = key[n] => m = n
<1>1. /\ head \in List /\ tail \in List
      /\ \A n \in List \ {tail} :
            /\ next[n] \in List /\ key[n] < key[next[n]]
            /\ \A m \in List : key[m] <= key[n] \/ key[next[n]] <= key[m]
      /\ \A m, n \in List : key[m] = key[n] => m = n
  BY DEF ListOK, Sorted
<1>2. List \subseteq Node
  BY DEF List
<1>3. List \subseteq Used
  BY <1>1, <1>2, NodeFacts DEF Used
<1> QED
  BY <1>1, <1>3 DEF Used

\* Keys are natural numbers, and the tail has the greatest.
LEMMA KeyBounds ==
    ASSUME TypeOK, UsedOK
    PROVE  /\ key \in [Node -> Nat] /\ key[head] = 0 /\ key[tail] = MaxKey + 1
           /\ \A n \in Node : key[n] <= key[tail]
           /\ \A t \in Thread : value(t) \in Nat /\ 0 < value(t) /\ value(t) < key[tail]
<1>1. key \in [Node -> 0..MaxKey + 1] /\ key[head] = 0 /\ key[tail] = MaxKey + 1
  BY DEF TypeOK, UsedOK
<1>2. \A t \in Thread : value(t) \in Key
  BY DEF TypeOK, value
<1>3. \A n \in Node : key[n] \in Nat /\ key[n] <= MaxKey + 1
  <2> SUFFICES ASSUME NEW n \in Node PROVE key[n] \in Nat /\ key[n] <= MaxKey + 1
    OBVIOUS
  <2>1. key[n] \in 0..MaxKey + 1
    BY <1>1
  <2> QED
    BY <2>1, Constants
<1>4. key \in [Node -> Nat]
  BY <1>1, Constants
<1>5. \A t \in Thread : value(t) \in Nat /\ 0 < value(t) /\ value(t) < key[tail]
  BY <1>1, <1>2, Constants
<1> QED
  BY <1>1, <1>3, <1>4, <1>5

\* As long as no pointer changes, the list has its nodes.
LEMMA SameList ==
    ASSUME next' = next
    PROVE  List' = List /\ Used' = Used
BY DEF List, Closed, Used

\* The node of a call that has begun is one of its thread's; that of list_add
\* has not been used before the call is decided.
LEMMA MyNode ==
    ASSUME ListInv, NEW t \in Thread, pc[t] # "idle"
    PROVE  /\ myNode(t) \in Node /\ myNode(t) # head /\ myNode(t) # tail
           /\ \A u \in Thread : u # t /\ pc[u] # "idle" => myNode(u) # myNode(t)
           /\ call[t].type = "A" /\ answer[t] = "unknown" => myNode(t) \notin Used
<1>1. \A u \in Thread : pc[u] # "idle" => i[u] \in 1..MaxWork
  <2> SUFFICES ASSUME NEW u \in Thread, pc[u] # "idle" PROVE i[u] \in 1..MaxWork
    OBVIOUS
  <2>1. i[u] > 0 /\ i[u] \in 0..MaxWork
    BY DEF ListInv, ThreadOK, MineOK, TypeOK
  <2> QED
    BY <2>1, Constants
<1>2. call[t].type = "A" /\ answer[t] = "unknown" => next[myNode(t)] = null
  BY DEF ListInv, ThreadOK, MineOK
<1> QED
  BY <1>1, <1>2, NodeFacts DEF myNode, Used

-----------------------------------------------------------------------------
(* Steps that change no pointer                                            *)

\* Such a step of thread t leaves another thread u where it is.
LEMMA OthersKept ==
    ASSUME ListInv, NEW t \in Thread, NEW u \in Thread, u # t,
           program' = program, next' = next,
           \A n \in Used : key'[n] = key[n],
           key'[myNode(u)] = key[myNode(u)],
           \A n \in Node : mutex'[n] = mutex[n] \/ mutex[n] \in {t, Nobody},
           i'[u] = i[u], call'[u] = call[u], pc'[u] = pc[u], answer'[u] = answer[u],
           prev'[u] = prev[u], curr'[u] = curr[u], it'[u] = it[u],
           disturbed'[u] = disturbed[u]
    PROVE  ThreadOK(u)'
<1>1. List' = List /\ Used' = Used
  BY SameList
<1>2. TypeOK /\ ListOK /\ ThreadOK(u)
  BY DEF ListInv
<1>3. prev[u] \in Node /\ curr[u] \in Node /\ it[u] \in Node /\ head \in Node /\ u # Nobody
  BY <1>2, NodeFacts, NobodyAssumption DEF TypeOK
<1>4. PcOK(u)' /\ MineOK(u)'
  BY <1>2 DEF ThreadOK, PcOK, MineOK, myNode, value
<1>5. SearchOK(u)'
  BY <1>1, <1>2 DEF ThreadOK, SearchOK, value
<1>6. HoldOK(u)'
  BY <1>2, <1>3 DEF ThreadOK, HoldOK
<1>7. PlaceOK(u)' /\ ReachOK(u)'
  BY <1>1, <1>2 DEF ThreadOK, PlaceOK, ReachOK, Avoids, Unlinked
<1>8. CalmOK(u)'
  <2>1. prev[u] \in List => key'[prev[u]] = key[prev[u]]
    BY <1>2, InList
  <2>2. it[u] \in List => key'[it[u]] = key[it[u]]
    BY <1>2, InList
  <2> QED
    BY <1>1, <1>2, <2>1, <2>2 DEF ThreadOK, CalmOK
<1> QED
  BY <1>4, <1>5, <1>6, <1>7, <1>8 DEF ThreadOK

\* Nor does it disturb what holds of all nodes.
LEMMA NodesKept ==
    ASSUME ListInv, next' = next,
           \A n \in Used : key'[n] = key[n],
           \A u \in Thread : i'[u] \in Nat /\ i'[u] >= i[u]
    PROVE  UsedOK' /\ ListOK'
<1>1. List' = List /\ Used' = Used
  BY SameList
<1>2. TypeOK /\ UsedOK /\ ListOK
  BY DEF ListInv
<1>3. List \subseteq Used /\ head \in Used /\ tail \in Used
  BY <1>2, InList
<1>4. ListOK'
  BY <1>1, <1>2, <1>3 DEF ListOK, Sorted
<1>5. \A n \in Used \ {tail} : next[n] \in Used
  BY <1>2 DEF UsedOK
<1>6. \A u \in Thread, j \in 1..MaxWork : j > i'[u] => j > i[u]
  <2>1. \A u \in Thread : i[u] \in Nat /\ i'[u] \in Nat /\ i'[u] >= i[u]
    BY <1>2, Constants DEF TypeOK
  <2>2. 1..MaxWork \subseteq Nat
    BY Constants
  <2> QED
    BY <2>1, <2>2
<1>7. UsedOK'
  BY <1>1, <1>2, <1>3, <1>5, <1>6 DEF UsedOK
<1> QED
  BY <1>4, <1>7

\* If it unlinks and frees nothing, neither does it disturb what holds of the
\* nodes that are not in the list any more.
LEMMA FreedKept ==
    ASSUME ListInv, next' = next, program' = program, freed' = freed,
           \A u \in Thread : Unlinked(u)' => Unlinked(u) /\ curr'[u] = curr[u]
    PROVE  FreedOK'
<1>1. List' = List /\ Used' = Used
  BY SameList
<1>2. FreedOK
  BY DEF ListInv
<1>3. (freed \subseteq Used \ List)'
  BY <1>1, <1>2 DEF FreedOK
<1>4. (program = "optimistic" => freed = {})'
  BY <1>2 DEF FreedOK
<1>5. ASSUME NEW u \in Thread, Unlinked(u)'
      PROVE  curr'[u] \in Used' \ (List' \cup freed')
  BY <1>1, <1>2, <1>5 DEF FreedOK
<1>6. ASSUME NEW u \in Thread, NEW w \in Thread, Unlinked(u)', Unlinked(w)', curr'[u] = curr'[w]
      PROVE  u = w
  BY <1>2, <1>6 DEF FreedOK
<1> QED
  BY <1>3, <1>4, <1>5, <1>6 DEF FreedOK

\* A step of thread t that leaves pointers, keys and calls alone, and takes
\* and gives back mutexes only for itself.
Local(t) ==
    /\ UNCHANGED <<program, key, next, freed, i, call>>
    /\ \A n \in Node : mutex'[n] = mutex[n] \/ mutex[n] \in {t, Nobody}
    /\ \A u \in Thread \ {t} :
        /\ pc'[u] = pc[u] /\ answer'[u] = answer[u] /\ disturbed'[u] = disturbed[u]
        /\ prev'[u] = prev[u] /\ curr'[u] = curr[u] /\ it'[u] = it[u]

\* Such a step keeps the invariant, if it does for the thread itself.
LEMMA LocalKept ==
    ASSUME ListInv, NEW t \in Thread, Local(t), TypeOK', ThreadOK(t)',
           Unlinked(t)' => Unlinked(t) /\ curr'[t] = curr[t]
    PROVE  ListInv'
<1>1. UNCHANGED <<program, key, next, freed, i, call>>
  BY DEF Local
<1>2. ASSUME NEW u \in Thread, u # t
      PROVE  ThreadOK(u)' /\ (Unlinked(u)' => Unlinked(u) /\ curr'[u] = curr[u])
  <2>1. /\ pc'[u] = pc[u] /\ answer'[u] = answer[u] /\ disturbed'[u] = disturbed[u]
        /\ prev'[u] = prev[u] /\ curr'[u] = curr[u] /\ it'[u] = it[u]
        /\ \A n \in Node : mutex'[n] = mutex[n] \/ mutex[n] \in {t, Nobody}
    BY <1>2 DEF Local
  <2>2. ThreadOK(u)'
    BY <1>1, <1>2, <2>1, OthersKept
  <2> QED
    BY <1>1, <2>1, <2>2 DEF Unlinked
<1>3. \A u \in Thread : i'[u] \in Nat /\ i'[u] >= i[u]
  <2>1. \A u \in Thread : i'[u] = i[u] /\ i[u] \in Nat
    BY <1>1, Constants DEF ListInv, TypeOK
  <2> QED
    BY <2>1
<1>4. UsedOK' /\ ListOK'
  BY <1>1, <1>3, NodesKept
<1>5. FreedOK'
  BY <1>1, <1>2, FreedKept
<1> QED
  BY <1>2, <1>4, <1>5 DEF ListInv

-----------------------------------------------------------------------------
(* The beginning                                                           *)

\* The list is empty: the tail follows the head.
LEMMA ListInvInit == Init => ListInv
<1> SUFFICES ASSUME Init PROVE ListInv
  OBVIOUS
<1>1. /\ key = [n \in Node |-> IF n = tail THEN MaxKey + 1 ELSE 0]
      /\ next = [n \in Node |-> IF n = head THEN tail ELSE null]
      /\ freed = {}
      /\ program \in Program
      /\ \A t \in Thread : pc[t] = "idle" /\ i[t] = 0
  BY DEF Init
<1>2. /\ next[head] = tail /\ next[tail] = null
      /\ key[head] = 0 /\ key[tail] = MaxKey + 1 /\ 0 < MaxKey + 1
  BY <1>1, NodeFacts, Constants
<1>3. TypeOK
  <2>1. key \in [Node -> 0..MaxKey + 1]
    BY <1>1, Constants
  <2>2. next \in [Node -> Node \cup {null}]
    BY <1>1, NodeFacts
  <2>3. i \in [Thread -> 0..MaxWork]
    BY Constants DEF Init
  <2>4. pc \in [Thread -> Label] /\ answer \in [Thread -> {"unknown", "true", "false"}]
    BY DEF Init, Label
  <2>5. call \in [Thread -> [type : {"A", "R", "C"}, value : Key]]
    BY MaxKeyAssumption DEF Init, Key
  <2>6. /\ program \in Program /\ freed \subseteq Node
        /\ mutex \in [Node -> Thread \cup {Nobody}]
        /\ prev \in [Thread -> Node] /\ curr \in [Thread -> Node] /\ it \in [Thread -> Node]
        /\ disturbed \in [Thread -> BOOLEAN]
    BY NodeFacts DEF Init
  <2> QED
    BY <2>1, <2>2, <2>3, <2>4, <2>5, <2>6 DEF TypeOK
<1>4. Used = {head, tail}
  BY <1>1, NodeFacts DEF Used
<1>5. Sorted({head, tail}, key, next)
  <2>1. \A n \in {head, tail} : key[n] = 0 \/ key[n] = MaxKey + 1
    BY <1>2
  <2>2. MaxKey + 1 \in Nat
    BY Constants
  <2>3. \A m \in {head, tail} : key[m] <= key[head] \/ key[next[head]] <= key[m]
    BY <1>2, <2>2
  <2>4. \A m, n \in {head, tail} : key[m] = key[n] => m = n
    BY <1>2, <2>2
  <2> QED
    BY <1>2, <2>3, <2>4, NodeFacts DEF Sorted
<1>6. UsedOK
  <2>1. \A t \in Thread, j \in 1..MaxWork : next[<<t, j>>] = null
    BY <1>1, NodeFacts
  <2>2. \A n \in Used \ {tail} : next[n] \in Used /\ key[n] < key[next[n]]
    BY <1>2, <1>4, NodeFacts
  <2> QED
    BY <1>2, <2>1, <2>2 DEF UsedOK
<1>7. List = {head, tail}
  <2>1. ListOf(next) = {head, tail}
    BY <1>3, <1>5, <1>6, KeyBounds, SortedIsList, NodeFacts
  <2> QED
    BY <2>1 DEF List, Closed, ListOf
<1>8. FreedOK
  BY <1>1 DEF FreedOK, Unlinked
<1>9. ASSUME NEW t \in Thread PROVE ThreadOK(t)
  BY <1>1 DEF ThreadOK, PcOK, MineOK, SearchOK, HoldOK, PlaceOK, ReachOK, CalmOK, Program
<1> QED
  BY <1>3, <1>5, <1>6, <1>7, <1>8, <1>9 DEF ListInv, ListOK

-----------------------------------------------------------------------------
(* Locking and searching                                                   *)

\* The call's own node is as it was, unless the call has been decided.
LEMMA MineKept ==
    ASSUME ListInv, NEW t \in Thread, Local(t), pc[t] # "idle",
           answer'[t] = answer[t] \/ answer'[t] # "unknown"
    PROVE  MineOK(t)'
BY DEF ListInv, ThreadOK, MineOK, Local, myNode, value

\* A thread that has the list's mutex finds its place.
LEMMA LockListInv ==
    ASSUME ListInv, NEW t \in Thread, LockList(t)
    PROVE  ListInv'
<1>1. PICK n \in List \ {tail} :
        /\ key[n] < value(t) /\ key[next[n]] >= value(t)
        /\ prev' = [prev EXCEPT ![t] = n] /\ curr' = [curr EXCEPT ![t] = next[n]]
  BY DEF LockList
<1>2. /\ program = "coarse" /\ pc[t] = "start" /\ mutex[head] = Nobody
      /\ mutex' = [mutex EXCEPT ![head] = t]
      /\ pc' = [pc EXCEPT ![t] = "check"]
      /\ UNCHANGED <<program, key, next, freed, i, call, answer, it, disturbed>>
  BY DEF LockList, goto
<1>3. TypeOK /\ ListOK /\ ThreadOK(t) /\ List' = List /\ Used' = Used
  BY <1>2, SameList DEF ListInv
<1>4. /\ n \in Used /\ n \in Node /\ next[n] \in Used /\ next[n] \in Node
      /\ key[n] < key[next[n]]
  BY <1>1, <1>3, InList
<1>5. /\ prev'[t] = n /\ curr'[t] = next[n] /\ pc'[t] = "check" /\ mutex'[head] = t
      /\ answer'[t] = answer[t]
  BY <1>1, <1>2, <1>3, NodeFacts DEF TypeOK
<1>6. Local(t)
  BY <1>1, <1>2, <1>3, NodeFacts DEF Local, TypeOK
<1>7. TypeOK'
  BY <1>1, <1>2, <1>3, <1>4, NodeFacts DEF TypeOK, Label
<1>8. ThreadOK(t)'
  <2>1. MineOK(t)'
    BY <1>2, <1>5, <1>6, MineKept
  <2>2. PcOK(t)'
    BY <1>2, <1>3, <1>5 DEF ThreadOK, PcOK
  <2>3. SearchOK(t)'
    BY <1>1, <1>2, <1>3, <1>4, <1>5 DEF SearchOK, value
  <2>4. HoldOK(t)' /\ PlaceOK(t)' /\ ReachOK(t)' /\ CalmOK(t)'
    BY <1>1, <1>2, <1>3, <1>5 DEF HoldOK, PlaceOK, ReachOK, CalmOK, Unlinked
  <2> QED
    BY <2>1, <2>2, <2>3, <2>4 DEF ThreadOK
<1> QED
  BY <1>5, <1>6, <1>7, <1>8, LocalKept DEF Unlinked

\* A thread that locks the head has found that and what follows it.
LEMMA LockHeadInv ==
    ASSUME ListInv, NEW t \in Thread, LockHead(t)
    PROVE  ListInv'
<1>2. /\ program = "fine" /\ pc[t] = "start" /\ mutex[head] = Nobody
      /\ mutex' = [mutex EXCEPT ![head] = t]
      /\ prev' = [prev EXCEPT ![t] = head] /\ curr' = [curr EXCEPT ![t] = next[head]]
      /\ pc' = [pc EXCEPT ![t] = "lockCurr"]
      /\ UNCHANGED <<program, key, next, freed, i, call, answer, it, disturbed>>
  BY DEF LockHead, goto
<1>3. TypeOK /\ UsedOK /\ ListOK /\ ThreadOK(t) /\ List' = List /\ Used' = Used
  BY <1>2, SameList DEF ListInv
<1>4. /\ head \in List /\ head \in Used /\ next[head] \in Used /\ next[head] \in Node
      /\ key[head] < key[next[head]] /\ key[head] < value(t)
  BY <1>3, InList, KeyBounds, NodeFacts
<1>5. /\ prev'[t] = head /\ curr'[t] = next[head] /\ pc'[t] = "lockCurr" /\ mutex'[head] = t
      /\ answer'[t] = answer[t]
  BY <1>2, <1>3, NodeFacts DEF TypeOK
<1>6. Local(t)
  BY <1>2, <1>3, NodeFacts DEF Local, TypeOK
<1>7. TypeOK'
  BY <1>2, <1>3, <1>4, NodeFacts DEF TypeOK, Label
<1>8. ThreadOK(t)'
  <2>1. MineOK(t)'
    BY <1>2, <1>5, <1>6, MineKept
  <2>2. PcOK(t)'
    BY <1>2, <1>3, <1>5 DEF ThreadOK, PcOK
  <2>3. SearchOK(t)'
    BY <1>2, <1>3, <1>4, <1>5 DEF SearchOK, value
  <2>4. HoldOK(t)' /\ PlaceOK(t)' /\ ReachOK(t)' /\ CalmOK(t)'
    BY <1>2, <1>3, <1>4, <1>5 DEF HoldOK, PlaceOK, ReachOK, CalmOK, Unlinked
  <2> QED
    BY <2>1, <2>2, <2>3, <2>4 DEF ThreadOK
<1> QED
  BY <1>5, <1>6, <1>7, <1>8, LocalKept DEF Unlinked

\* Going on, a thread keeps the mutex of the node that becomes its prev.
LEMMA AdvanceInv ==
    ASSUME ListInv, NEW t \in Thread, Advance(t)
    PROVE  ListInv'
<1>2. /\ program = "fine" /\ pc[t] = "check" /\ key[curr[t]] < value(t)
      /\ mutex' = [mutex EXCEPT ![prev[t]] = Nobody]
      /\ prev' = [prev EXCEPT ![t] = curr[t]] /\ curr' = [curr EXCEPT ![t] = next[curr[t]]]
      /\ pc' = [pc EXCEPT ![t] = "lockCurr"]
      /\ UNCHANGED <<program, key, next, freed, i, call, answer, it, disturbed>>
  BY DEF Advance, goto
<1>3. TypeOK /\ UsedOK /\ ListOK /\ ThreadOK(t) /\ List' = List /\ Used' = Used
  BY <1>2, SameList DEF ListInv
<1>a. /\ mutex[prev[t]] = t /\ mutex[curr[t]] = t
      /\ prev[t] \in List /\ next[prev[t]] = curr[t] /\ key[prev[t]] < value(t)
  BY <1>2, <1>3 DEF ThreadOK, HoldOK, PlaceOK, SearchOK
<1>b. prev[t] # tail /\ curr[t] # tail /\ curr[t] # prev[t]
  <2>1. key[prev[t]] # key[tail] /\ key[curr[t]] # key[tail]
    <3>1. /\ value(t) \in Nat /\ value(t) < key[tail]
          /\ key[prev[t]] \in Nat /\ key[curr[t]] \in Nat /\ key[tail] \in Nat
      BY <1>3, KeyBounds, NodeFacts DEF TypeOK
    <3> QED
      BY <1>2, <1>a, <3>1
  <2>2. key[prev[t]] < key[curr[t]]
    BY <1>2, <1>3 DEF ThreadOK, SearchOK
  <2>3. key[prev[t]] \in Nat
    BY <1>3, KeyBounds DEF TypeOK
  <2> QED
    BY <2>1, <2>2, <2>3
<1>4. /\ curr[t] \in List /\ curr[t] \in Used /\ next[curr[t]] \in Used
      /\ next[curr[t]] \in Node /\ curr[t] \in Node /\ key[curr[t]] < key[next[curr[t]]]
  BY <1>3, <1>a, <1>b, InList
<1>5. /\ prev'[t] = curr[t] /\ curr'[t] = next[curr[t]] /\ pc'[t] = "lockCurr"
      /\ mutex'[curr[t]] = t /\ answer'[t] = answer[t]
  BY <1>2, <1>3, <1>4, <1>a, <1>b DEF TypeOK
<1>6. Local(t)
  BY <1>2, <1>3, <1>a DEF Local, TypeOK
<1>7. TypeOK'
  BY <1>2, <1>3, <1>4, NodeFacts DEF TypeOK, Label
<1>8. ThreadOK(t)'
  <2>1. MineOK(t)'
    BY <1>2, <1>5, <1>6, MineKept
  <2>2. PcOK(t)'
    BY <1>2, <1>3, <1>5 DEF ThreadOK, PcOK
  <2>3. SearchOK(t)'
    BY <1>2, <1>3, <1>4, <1>5 DEF SearchOK, value
  <2>4. HoldOK(t)' /\ PlaceOK(t)' /\ ReachOK(t)' /\ CalmOK(t)'
    BY <1>2, <1>3, <1>4, <1>5 DEF HoldOK, PlaceOK, ReachOK, CalmOK, Unlinked
  <2> QED
    BY <2>1, <2>2, <2>3, <2>4 DEF ThreadOK
<1> QED
  BY <1>5, <1>6, <1>7, <1>8, LocalKept DEF Unlinked

\* The optimistic search begins at the head, undisturbed.
LEMMA StartSearchInv ==
    ASSUME ListInv, NEW t \in Thread, StartSearch(t)
    PROVE  ListInv'
<1>2. /\ program = "optimistic" /\ pc[t] = "start"
      /\ prev' = [prev EXCEPT ![t] = head] /\ curr' = [curr EXCEPT ![t] = next[head]]
      /\ disturbed' = [disturbed EXCEPT ![t] = FALSE]
      /\ pc' = [pc EXCEPT ![t] = "search"]
      /\ UNCHANGED <<program, key, next, mutex, freed, i, call, answer, it>>
  BY DEF StartSearch, goto, fields
<1>3. TypeOK /\ UsedOK /\ ListOK /\ ThreadOK(t) /\ List' = List /\ Used' = Used
  BY <1>2, SameList DEF ListInv
<1>4. /\ head \in List /\ head \in Used /\ next[head] \in Used /\ next[head] \in Node
      /\ key[head] < key[next[head]] /\ key[head] < value(t)
  BY <1>3, InList, KeyBounds, NodeFacts
<1>5. /\ prev'[t] = head /\ curr'[t] = next[head] /\ pc'[t] = "search"
      /\ answer'[t] = answer[t]
  BY <1>2, <1>3 DEF TypeOK
<1>6. Local(t)
  BY <1>2, <1>3 DEF Local, TypeOK
<1>7. TypeOK'
  BY <1>2, <1>3, <1>4, NodeFacts DEF TypeOK, Label
<1>8. ThreadOK(t)'
  <2>1. MineOK(t)'
    BY <1>2, <1>5, <1>6, MineKept
  <2>2. PcOK(t)'
    BY <1>2, <1>3, <1>5 DEF ThreadOK, PcOK
  <2>3. SearchOK(t)'
    BY <1>2, <1>3, <1>4, <1>5 DEF SearchOK, value
  <2>4. HoldOK(t)' /\ PlaceOK(t)' /\ ReachOK(t)' /\ CalmOK(t)'
    BY <1>2, <1>3, <1>4, <1>5 DEF HoldOK, PlaceOK, ReachOK, CalmOK, Unlinked
  <2> QED
    BY <2>1, <2>2, <2>3, <2>4 DEF ThreadOK
<1> QED
  BY <1>5, <1>6, <1>7, <1>8, LocalKept DEF Unlinked

\* It goes along the pointers; in the list, as long as it is undisturbed.
LEMMA SearchInv ==
    ASSUME ListInv, NEW t \in Thread, Search(t)
    PROVE  ListInv'
<1>2. /\ pc[t] = "search" /\ key[curr[t]] < value(t)
      /\ prev' = [prev EXCEPT ![t] = curr[t]] /\ curr' = [curr EXCEPT ![t] = next[curr[t]]]
      /\ UNCHANGED <<program, key, next, mutex, freed, pc, i, call, answer, it, disturbed>>
  BY DEF Search, fields
<1>3. TypeOK /\ UsedOK /\ ListOK /\ ThreadOK(t) /\ List' = List /\ Used' = Used
  BY <1>2, SameList DEF ListInv
<1>a. program = "optimistic"
  BY <1>2, <1>3 DEF TypeOK, Program, ThreadOK, PcOK
<1>b. curr[t] \in Used \ {tail}
  <2>1. key[curr[t]] # key[tail]
    <3>1. /\ value(t) \in Nat /\ value(t) < key[tail]
          /\ key[curr[t]] \in Nat /\ key[tail] \in Nat
      BY <1>3, KeyBounds, NodeFacts DEF TypeOK
    <3> QED
      BY <1>2, <3>1
  <2> QED
    BY <1>2, <1>3, <2>1 DEF ThreadOK, SearchOK
<1>4. /\ next[curr[t]] \in Used /\ key[curr[t]] < key[next[curr[t]]]
      /\ curr[t] \in Node /\ next[curr[t]] \in Node
  BY <1>3, <1>b DEF UsedOK, Used
<1>5. prev'[t] = curr[t] /\ curr'[t] = next[curr[t]] /\ pc'[t] = "search"
  BY <1>2, <1>3 DEF TypeOK
<1>6. Local(t)
  BY <1>2, <1>3 DEF Local, TypeOK
<1>7. TypeOK'
  BY <1>2, <1>3, <1>4 DEF TypeOK
<1>8. ThreadOK(t)'
  <2>1. MineOK(t)'
    BY <1>2, <1>5, <1>6, MineKept
  <2>2. PcOK(t)'
    BY <1>2, <1>3, <1>5 DEF ThreadOK, PcOK
  <2>3. SearchOK(t)'
    BY <1>2, <1>3, <1>b, <1>4, <1>5 DEF SearchOK, value
  <2>4. CalmOK(t)'
    <3>1. ~disturbed[t] => prev[t] \in List /\ next[prev[t]] = curr[t] /\ prev[t] # tail
      <4>1. ~disturbed[t] => prev[t] \in List /\ next[prev[t]] = curr[t]
        BY <1>2, <1>3, <1>a DEF ThreadOK, CalmOK
      <4>2. curr[t] # null
        BY <1>4, NodeFacts
      <4>3. next[tail] = null
        BY <1>3 DEF UsedOK
      <4> QED
        BY <4>1, <4>2, <4>3
    <3>2. ~disturbed[t] => curr[t] \in List
      BY <1>3, <3>1, InList
    <3> QED
      BY <1>2, <1>3, <1>5, <3>2 DEF CalmOK
  <2>5. HoldOK(t)' /\ PlaceOK(t)' /\ ReachOK(t)'
    BY <1>2, <1>3, <1>a, <1>5 DEF HoldOK, PlaceOK, ReachOK, Unlinked
  <2> QED
    BY <2>1, <2>2, <2>3, <2>4, <2>5 DEF ThreadOK
<1> QED
  BY <1>5, <1>6, <1>7, <1>8, LocalKept DEF Unlinked

\* The first mutex is taken where the search has come to.
LEMMA LockPrevInv ==
    ASSUME ListInv, NEW t \in Thread, LockPrev(t)
    PROVE  ListInv'
<1>2. /\ pc[t] = "search" /\ mutex[prev[t]] = Nobody
      /\ mutex' = [mutex EXCEPT ![prev[t]] = t]
      /\ pc' = [pc EXCEPT ![t] = "lockCurr"]
      /\ UNCHANGED <<program, key, next, freed, i, call, answer, prev, curr, it, disturbed>>
  BY DEF LockPrev, goto, locals
<1>3. TypeOK /\ ThreadOK(t) /\ List' = List /\ Used' = Used
  BY <1>2, SameList DEF ListInv
<1>a. program = "optimistic"
  BY <1>2, <1>3 DEF TypeOK, Program, ThreadOK, PcOK
<1>5. pc'[t] = "lockCurr" /\ mutex'[prev[t]] = t
  BY <1>2, <1>3 DEF TypeOK
<1>6. Local(t)
  BY <1>2, <1>3 DEF Local, TypeOK
<1>7. TypeOK'
  BY <1>2, <1>3 DEF TypeOK, Label
<1>8. ThreadOK(t)'
  <2>1. MineOK(t)'
    BY <1>2, <1>5, <1>6, MineKept
  <2>2. PcOK(t)' /\ SearchOK(t)'
    BY <1>2, <1>3, <1>a, <1>5 DEF ThreadOK, PcOK, SearchOK, value
  <2>3. HoldOK(t)' /\ PlaceOK(t)' /\ ReachOK(t)' /\ CalmOK(t)'
    BY <1>2, <1>3, <1>a, <1>5 DEF ThreadOK, HoldOK, PlaceOK, ReachOK, CalmOK, Unlinked
  <2> QED
    BY <2>1, <2>2, <2>3 DEF ThreadOK
<1> QED
  BY <1>5, <1>6, <1>7, <1>8, LocalKept DEF Unlinked

\* With the second mutex the hand-over-hand search has the next node, and the
\* optimistic one begins to validate, at the head.
LEMMA LockCurrInv ==
    ASSUME ListInv, NEW t \in Thread, LockCurr(t)
    PROVE  ListInv'
<1>2. /\ pc[t] = "lockCurr" /\ mutex[curr[t]] = Nobody
      /\ mutex' = [mutex EXCEPT ![curr[t]] = t]
      /\ it' = [it EXCEPT ![t] = head]
      /\ pc' = [pc EXCEPT ![t] = IF program = "fine" THEN "check" ELSE "validate"]
      /\ UNCHANGED <<program, key, next, freed, i, call, answer, prev, curr, disturbed>>
  BY DEF LockCurr, goto
<1>3. TypeOK /\ UsedOK /\ ListOK /\ ThreadOK(t) /\ List' = List /\ Used' = Used
  BY <1>2, SameList DEF ListInv
<1>a. /\ program # "coarse" /\ mutex[prev[t]] = t /\ t # Nobody
      /\ program # "fine" => program = "optimistic"
  BY <1>2, <1>3, NobodyAssumption DEF TypeOK, Program, ThreadOK, PcOK, HoldOK
<1>4. head \in List /\ head \in Used /\ head \in Node /\ key[head] <= key[prev[t]]
  <2>1. key[head] = 0 /\ key[prev[t]] \in Nat
    BY <1>3, KeyBounds DEF TypeOK
  <2> QED
    BY <1>3, <2>1, InList, NodeFacts
<1>5. /\ pc'[t] = IF program = "fine" THEN "check" ELSE "validate"
      /\ it'[t] = head /\ mutex'[curr[t]] = t /\ mutex'[prev[t]] = t
  BY <1>2, <1>3, <1>a DEF TypeOK
<1>6. Local(t)
  BY <1>2, <1>3 DEF Local, TypeOK
<1>7. TypeOK'
  BY <1>2, <1>3, <1>4 DEF TypeOK, Label
<1>8. ThreadOK(t)'
  <2>1. MineOK(t)'
    BY <1>2, <1>5, <1>6, MineKept
  <2>2. PcOK(t)' /\ SearchOK(t)'
    BY <1>2, <1>3, <1>a, <1>4, <1>5 DEF ThreadOK, PcOK, SearchOK, value
  <2>3. HoldOK(t)' /\ PlaceOK(t)'
    BY <1>2, <1>3, <1>a, <1>5 DEF ThreadOK, HoldOK, PlaceOK, Unlinked
  <2>4. CalmOK(t)'
    BY <1>2, <1>3, <1>a, <1>4, <1>5 DEF ThreadOK, CalmOK
  <2>5. ReachOK(t)'
    <3> SUFFICES ASSUME prev[t] \notin List
                 PROVE  \E nodes \in SUBSET Node :
                            head \in nodes /\ List \subseteq nodes /\ prev[t] \notin nodes
                            /\ \A m \in nodes \ {tail} : next[m] \in nodes
      BY <1>2, <1>3, <1>5 DEF ReachOK, Avoids
    <3>1. List \in SUBSET Node /\ \A m \in List \ {tail} : next[m] \in List
      BY <1>3, InList
    <3> QED
      BY <1>4, <3>1
  <2> QED
    BY <2>1, <2>2, <2>3, <2>4, <2>5 DEF ThreadOK
<1> QED
  BY <1>5, <1>6, <1>7, <1>8, LocalKept DEF Unlinked

-----------------------------------------------------------------------------
(* Validating                                                              *)

\* A validation goes along nodes before prev, and so not to the tail.
LEMMA ValidateInv ==
    ASSUME ListInv, NEW t \in Thread, Validate(t)
    PROVE  ListInv'
<1>2. /\ pc[t] = "validate" /\ key[it[t]] <= key[prev[t]] /\ it[t] # prev[t]
      /\ it' = [it EXCEPT ![t] = next[it[t]]]
      /\ UNCHANGED <<program, key, next, mutex, freed, pc, i, call, answer, prev, curr, disturbed>>
  BY DEF Validate, fields
<1>3. TypeOK /\ UsedOK /\ ListOK /\ ThreadOK(t) /\ List' = List /\ Used' = Used
  BY <1>2, SameList DEF ListInv
<1>a. program = "optimistic"
  BY <1>2, <1>3 DEF TypeOK, Program, ThreadOK, PcOK
<1>b. it[t] \in Used \ {tail}
  <2>1. key[it[t]] # key[tail]
    <3>1. /\ value(t) \in Nat /\ value(t) < key[tail] /\ key[prev[t]] < value(t)
          /\ key[prev[t]] \in Nat /\ key[it[t]] \in Nat /\ key[tail] \in Nat
      BY <1>2, <1>3, KeyBounds, NodeFacts DEF TypeOK, ThreadOK, SearchOK
    <3> QED
      BY <1>2, <3>1
  <2> QED
    BY <1>2, <1>3, <2>1 DEF ThreadOK, SearchOK
<1>4. next[it[t]] \in Used /\ next[it[t]] \in Node /\ it[t] \in Node
  BY <1>3, <1>b DEF UsedOK, Used
<1>5. it'[t] = next[it[t]] /\ pc'[t] = "validate"
  BY <1>2, <1>3 DEF TypeOK
<1>6. Local(t)
  BY <1>2, <1>3 DEF Local, TypeOK
<1>7. TypeOK'
  BY <1>2, <1>3, <1>4 DEF TypeOK
<1>8. ThreadOK(t)'
  <2>1. MineOK(t)'
    BY <1>2, <1>5, <1>6, MineKept
  <2>2. PcOK(t)' /\ SearchOK(t)'
    BY <1>2, <1>3, <1>a, <1>4, <1>5 DEF ThreadOK, PcOK, SearchOK, value
  <2>3. HoldOK(t)' /\ PlaceOK(t)'
    BY <1>2, <1>3, <1>a, <1>5 DEF ThreadOK, HoldOK, PlaceOK, Unlinked
  <2>4. CalmOK(t)'
    <3> SUFFICES ASSUME ~disturbed[t]
                 PROVE  /\ prev[t] \in List /\ next[prev[t]] = curr[t]
                        /\ next[it[t]] \in List /\ key[next[it[t]]] <= key[prev[t]]
      BY <1>2, <1>3, <1>5 DEF CalmOK
    <3>1. prev[t] \in List /\ next[prev[t]] = curr[t] /\ it[t] \in List
      BY <1>2, <1>3, <1>a DEF ThreadOK, CalmOK
    <3>2. /\ next[it[t]] \in List
          /\ key[prev[t]] <= key[it[t]] \/ key[next[it[t]]] <= key[prev[t]]
          /\ key[prev[t]] = key[it[t]] => prev[t] = it[t]
      BY <1>3, <1>b, <3>1, InList
    <3>3. key[prev[t]] \in Nat /\ key[it[t]] \in Nat /\ key[next[it[t]]] \in Nat
      BY <1>3, <1>4, KeyBounds DEF TypeOK
    <3>4. ~(key[prev[t]] <= key[it[t]])
      BY <1>2, <3>2, <3>3
    <3> QED
      BY <3>1, <3>2, <3>4
  <2>5. ReachOK(t)'
    <3>1. ASSUME NEW nodes \in SUBSET Node, it[t] \in nodes, Avoids(nodes, prev[t])
          PROVE  next[it[t]] \in nodes
      BY <1>b, <3>1 DEF Avoids
    <3>2. prev[t] \in List \/ \E nodes \in SUBSET Node : it[t] \in nodes /\ Avoids(nodes, prev[t])
      BY <1>2, <1>3 DEF ThreadOK, ReachOK
    <3>3. \A nodes \in SUBSET Node : Avoids(nodes, prev[t])' <=> Avoids(nodes, prev[t])
      BY <1>2, <1>3 DEF Avoids
    <3> QED
      BY <1>2, <1>3, <1>5, <3>1, <3>2 DEF ReachOK, Avoids
  <2> QED
    BY <2>1, <2>2, <2>3, <2>4, <2>5 DEF ThreadOK
<1> QED
  BY <1>5, <1>6, <1>7, <1>8, LocalKept DEF Unlinked

\* A validation that meets prev has come to it inside the list.
LEMMA ValidInv ==
    ASSUME ListInv, NEW t \in Thread, Valid(t)
    PROVE  ListInv'
<1>2. /\ pc[t] = "validate" /\ it[t] = prev[t] /\ next[it[t]] = curr[t]
      /\ pc' = [pc EXCEPT ![t] = "check"]
      /\ UNCHANGED <<program, key, next, mutex, freed, i, call, answer, prev, curr, it, disturbed>>
  BY DEF Valid, goto, fields, locals
<1>3. TypeOK /\ ThreadOK(t) /\ List' = List /\ Used' = Used
  BY <1>2, SameList DEF ListInv
<1>a. program = "optimistic"
  BY <1>2, <1>3 DEF TypeOK, Program, ThreadOK, PcOK
<1>5. pc'[t] = "check"
  BY <1>2, <1>3 DEF TypeOK
<1>6. Local(t)
  BY <1>2, <1>3 DEF Local, TypeOK
<1>7. TypeOK'
  BY <1>2, <1>3 DEF TypeOK, Label
<1>8. ThreadOK(t)'
  <2>1. MineOK(t)'
    BY <1>2, <1>5, <1>6, MineKept
  <2>2. PcOK(t)' /\ SearchOK(t)'
    BY <1>2, <1>3, <1>a, <1>5 DEF ThreadOK, PcOK, SearchOK, value
  <2>3. prev[t] \in List
    BY <1>2, <1>3 DEF ThreadOK, ReachOK, Avoids
  <2>4. HoldOK(t)' /\ PlaceOK(t)' /\ ReachOK(t)' /\ CalmOK(t)'
    BY <1>2, <1>3, <1>a, <1>5, <2>3 DEF ThreadOK, HoldOK, PlaceOK, ReachOK, CalmOK, Unlinked
  <2> QED
    BY <2>1, <2>2, <2>4 DEF ThreadOK
<1> QED
  BY <1>5, <1>6, <1>7, <1>8, LocalKept DEF Unlinked

\* A validation that fails sends the call to its unlocks, undecided.
LEMMA InvalidInv ==
    ASSUME ListInv, NEW t \in Thread, Invalid(t)
    PROVE  ListInv'
<1>2. /\ pc[t] = "validate"
      /\ pc' = [pc EXCEPT ![t] = "unlockPrev"]
      /\ UNCHANGED <<program, key, next, mutex, freed, i, call, answer, prev, curr, it, disturbed>>
  BY DEF Invalid, goto, fields, locals
<1>3. TypeOK /\ ThreadOK(t) /\ List' = List /\ Used' = Used
  BY <1>2, SameList DEF ListInv
<1>a. program = "optimistic" /\ answer[t] = "unknown"
  BY <1>2, <1>3 DEF TypeOK, Program, ThreadOK, PcOK
<1>5. pc'[t] = "unlockPrev"
  BY <1>2, <1>3 DEF TypeOK
<1>6. Local(t)
  BY <1>2, <1>3 DEF Local, TypeOK
<1>7. TypeOK'
  BY <1>2, <1>3 DEF TypeOK, Label
<1>8. ThreadOK(t)'
  <2>1. MineOK(t)'
    BY <1>2, <1>5, <1>6, MineKept
  <2>2. PcOK(t)' /\ SearchOK(t)'
    BY <1>2, <1>3, <1>a, <1>5 DEF ThreadOK, PcOK, SearchOK, value
  <2>4. HoldOK(t)' /\ PlaceOK(t)' /\ ReachOK(t)' /\ CalmOK(t)'
    BY <1>2, <1>3, <1>a, <1>5 DEF ThreadOK, HoldOK, PlaceOK, ReachOK, CalmOK, Unlinked
  <2> QED
    BY <2>1, <2>2, <2>4 DEF ThreadOK
<1> QED
  BY <1>2, <1>a, <1>6, <1>7, <1>8, LocalKept DEF Unlinked

-----------------------------------------------------------------------------
(* Deciding and letting go                                                 *)

\* The list a call has looked at still holds the nodes it has locked.
LEMMA LookInv ==
    ASSUME ListInv, NEW t \in Thread, Look(t)
    PROVE  ListInv'
<1>2. /\ pc[t] = "check"
      /\ answer' = [answer EXCEPT ![t] = IF call[t].type = "C" /\ Found(t) THEN "true" ELSE "false"]
      /\ pc' = [pc EXCEPT ![t] = "unlockPrev"]
      /\ UNCHANGED <<program, key, next, mutex, freed, i, call, prev, curr, it, disturbed>>
  BY DEF Look, Decide, goto
<1>3. TypeOK /\ UsedOK /\ ListOK /\ ThreadOK(t) /\ List' = List /\ Used' = Used
  BY <1>2, SameList DEF ListInv
<1>4. prev[t] \in List /\ curr[t] \in List
  <2>1. prev[t] \in List /\ next[prev[t]] = curr[t] /\ curr[t] # null
    BY <1>2, <1>3, NodeFacts DEF ThreadOK, PlaceOK, TypeOK
  <2>2. prev[t] # tail
    BY <1>3, <2>1 DEF UsedOK
  <2> QED
    BY <1>3, <2>1, <2>2, InList
<1>5. /\ pc'[t] = "unlockPrev" /\ answer'[t] \in {"true", "false"}
      /\ call[t].type # "C" => answer'[t] = "false"
  BY <1>2, <1>3 DEF TypeOK
<1>6. Local(t)
  BY <1>2, <1>3 DEF Local, TypeOK
<1>7. TypeOK'
  BY <1>2, <1>3 DEF TypeOK, Label
<1>8. ThreadOK(t)'
  <2>1. MineOK(t)'
    BY <1>2, <1>5, <1>6, MineKept
  <2>2. PcOK(t)' /\ SearchOK(t)'
    BY <1>2, <1>3, <1>5 DEF ThreadOK, PcOK, SearchOK, value
  <2>4. HoldOK(t)' /\ PlaceOK(t)' /\ ReachOK(t)' /\ CalmOK(t)'
    BY <1>2, <1>3, <1>4, <1>5 DEF ThreadOK, HoldOK, PlaceOK, ReachOK, CalmOK, Unlinked
  <2> QED
    BY <2>1, <2>2, <2>4 DEF ThreadOK
<1>9. ~Unlinked(t)'
  BY <1>2, <1>5 DEF Unlinked
<1> QED
  BY <1>6, <1>7, <1>8, <1>9, LocalKept

\* The list's mutex is given back by the one that has it.
LEMMA UnlockListInv ==
    ASSUME ListInv, NEW t \in Thread, UnlockList(t)
    PROVE  ListInv'
<1>2. /\ program = "coarse" /\ pc[t] = "unlockPrev"
      /\ mutex' = [mutex EXCEPT ![head] = Nobody]
      /\ pc' = [pc EXCEPT ![t] =
                   CASE call[t].type = "C" -> "compare"
                     [] call[t].type = "R" /\ answer[t] = "true" -> "free"
                     [] OTHER -> "idle"]
      /\ UNCHANGED <<program, key, next, freed, i, call, answer, prev, curr, it, disturbed>>
  BY DEF UnlockList, goto, locals
<1>3. TypeOK /\ ThreadOK(t) /\ List' = List /\ Used' = Used
  BY <1>2, SameList DEF ListInv
<1>a. mutex[head] = t /\ answer[t] # "unknown"
  BY <1>2, <1>3 DEF ThreadOK, HoldOK, PcOK
<1>5. /\ pc'[t] \in {"compare", "free", "idle"}
      /\ pc'[t] = "free" => call[t].type = "R" /\ answer[t] = "true"
      /\ \A u \in Thread \ {t} : pc'[u] = pc[u]
      /\ pc' \in [Thread -> Label]
  BY <1>2, <1>3 DEF TypeOK, Label
<1>6. Local(t)
  BY <1>2, <1>3, <1>a, <1>5 DEF Local, TypeOK
<1>7. TypeOK'
  BY <1>2, <1>3, <1>5 DEF TypeOK
<1>8. ThreadOK(t)'
  <2>1. MineOK(t)'
    BY <1>2, <1>5, <1>6, MineKept
  <2>2. PcOK(t)' /\ SearchOK(t)'
    BY <1>2, <1>3, <1>a, <1>5 DEF PcOK, SearchOK, value
  <2>4. HoldOK(t)' /\ PlaceOK(t)' /\ ReachOK(t)' /\ CalmOK(t)'
    BY <1>2, <1>3, <1>5 DEF HoldOK, PlaceOK, ReachOK, CalmOK
  <2> QED
    BY <2>1, <2>2, <2>4 DEF ThreadOK
<1>9. Unlinked(t)' => Unlinked(t) /\ curr'[t] = curr[t]
  BY <1>2, <1>5 DEF Unlinked
<1> QED
  BY <1>6, <1>7, <1>8, <1>9, LocalKept

\* A comparison touches no node of anybody else.
LEMMA CompareInv ==
    ASSUME ListInv, NEW t \in Thread, Compare(t)
    PROVE  ListInv'
<1>1. PICK a \in {"true", "false"} : answer' = [answer EXCEPT ![t] = a]
  BY DEF Compare
<1>2. /\ pc[t] = "compare" /\ pc' = [pc EXCEPT ![t] = "idle"]
      /\ UNCHANGED <<program, key, next, mutex, freed, i, call, prev, curr, it, disturbed>>
  BY DEF Compare, goto, fields
<1>3. TypeOK /\ ThreadOK(t)
  BY DEF ListInv
<1>5. pc'[t] = "idle" /\ answer'[t] = a
  BY <1>1, <1>2, <1>3 DEF TypeOK
<1>6. Local(t)
  BY <1>1, <1>2, <1>3 DEF Local, TypeOK
<1>7. TypeOK'
  BY <1>1, <1>2, <1>3 DEF TypeOK, Label
<1>8. ThreadOK(t)'
  BY <1>2, <1>3, <1>5
     DEF ThreadOK, PcOK, MineOK, SearchOK, HoldOK, PlaceOK, ReachOK, CalmOK, TypeOK, Program
<1> QED
  BY <1>5, <1>6, <1>7, <1>8, LocalKept DEF Unlinked

\* The first of the two mutexes is not the second one.
LEMMA UnlockPrevInv ==
    ASSUME ListInv, NEW t \in Thread, UnlockPrev(t)
    PROVE  ListInv'
<1>2. /\ program # "coarse" /\ pc[t] = "unlockPrev"
      /\ mutex' = [mutex EXCEPT ![prev[t]] = Nobody]
      /\ pc' = [pc EXCEPT ![t] = "unlockCurr"]
      /\ UNCHANGED <<program, key, next, freed, i, call, answer, prev, curr, it, disturbed>>
  BY DEF UnlockPrev, goto, locals
<1>3. TypeOK /\ UsedOK /\ ThreadOK(t) /\ List' = List /\ Used' = Used
  BY <1>2, SameList DEF ListInv
<1>a. mutex[prev[t]] = t /\ mutex[curr[t]] = t
  BY <1>2, <1>3 DEF ThreadOK, HoldOK
<1>b. prev[t] # curr[t]
  <2>1. key[prev[t]] < key[curr[t]] /\ key[prev[t]] \in Nat
    BY <1>2, <1>3, KeyBounds DEF ThreadOK, SearchOK, TypeOK
  <2> QED
    BY <2>1
<1>5. pc'[t] = "unlockCurr" /\ mutex'[curr[t]] = t
  BY <1>2, <1>3, <1>a, <1>b DEF TypeOK
<1>6. Local(t)
  BY <1>2, <1>3, <1>a DEF Local, TypeOK
<1>7. TypeOK'
  BY <1>2, <1>3 DEF TypeOK, Label
<1>8. ThreadOK(t)'
  <2>1. MineOK(t)'
    BY <1>2, <1>5, <1>6, MineKept
  <2>2. PcOK(t)' /\ SearchOK(t)'
    BY <1>2, <1>3, <1>5 DEF ThreadOK, PcOK, SearchOK, value
  <2>4. HoldOK(t)' /\ PlaceOK(t)' /\ ReachOK(t)' /\ CalmOK(t)'
    BY <1>2, <1>3, <1>5 DEF ThreadOK, HoldOK, PlaceOK, ReachOK, CalmOK, Unlinked
  <2> QED
    BY <2>1, <2>2, <2>4 DEF ThreadOK
<1>9. Unlinked(t)' => Unlinked(t) /\ curr'[t] = curr[t]
  BY <1>2, <1>5 DEF Unlinked
<1> QED
  BY <1>6, <1>7, <1>8, <1>9, LocalKept

\* Without its mutexes a call returns, starts over, or has a node to free.
LEMMA UnlockCurrInv ==
    ASSUME ListInv, NEW t \in Thread, UnlockCurr(t)
    PROVE  ListInv'
<1>2. /\ pc[t] = "unlockCurr"
      /\ mutex' = [mutex EXCEPT ![curr[t]] = Nobody]
      /\ pc' = [pc EXCEPT ![t] =
                   CASE answer[t] = "unknown" -> "start"
                     [] program = "fine" /\ call[t].type = "R" /\ answer[t] = "true" -> "free"
                     [] OTHER -> "idle"]
      /\ UNCHANGED <<program, key, next, freed, i, call, answer, prev, curr, it, disturbed>>
  BY DEF UnlockCurr, goto, locals
<1>3. TypeOK /\ ThreadOK(t) /\ List' = List /\ Used' = Used
  BY <1>2, SameList DEF ListInv
<1>a. program # "coarse" /\ mutex[curr[t]] = t
  BY <1>2, <1>3 DEF ThreadOK, HoldOK, PcOK
<1>5. /\ pc'[t] \in {"start", "free", "idle"}
      /\ pc'[t] = "start" => answer[t] = "unknown"
      /\ pc'[t] = "free" => program = "fine" /\ call[t].type = "R" /\ answer[t] = "true"
      /\ \A u \in Thread \ {t} : pc'[u] = pc[u]
      /\ pc' \in [Thread -> Label]
  BY <1>2, <1>3 DEF TypeOK, Label
<1>6. Local(t)
  BY <1>2, <1>3, <1>a, <1>5 DEF Local, TypeOK
<1>7. TypeOK'
  BY <1>2, <1>3, <1>5 DEF TypeOK
<1>8. ThreadOK(t)'
  <2>1. MineOK(t)'
    BY <1>2, <1>5, <1>6, MineKept
  <2>2. PcOK(t)' /\ SearchOK(t)'
    BY <1>2, <1>3, <1>a, <1>5 DEF PcOK, SearchOK, value
  <2>4. HoldOK(t)' /\ PlaceOK(t)' /\ ReachOK(t)' /\ CalmOK(t)'
    BY <1>2, <1>3, <1>5 DEF HoldOK, PlaceOK, ReachOK, CalmOK
  <2> QED
    BY <2>1, <2>2, <2>4 DEF ThreadOK
<1>9. Unlinked(t)' => Unlinked(t) /\ curr'[t] = curr[t]
  BY <1>2, <1>5 DEF Unlinked
<1> QED
  BY <1>6, <1>7, <1>8, <1>9, LocalKept

\* What is freed is in no list, and nobody else is going to free it.
LEMMA FreeInv ==
    ASSUME ListInv, NEW t \in Thread, Free(t)
    PROVE  ListInv'
<1>2. /\ pc[t] = "free" /\ freed' = freed \cup {curr[t]}
      /\ pc' = [pc EXCEPT ![t] = "idle"]
      /\ UNCHANGED <<program, key, next, mutex, i, call, answer, prev, curr, it, disturbed>>
  BY DEF Free, goto, locals
<1>3. TypeOK /\ FreedOK /\ ThreadOK(t) /\ List' = List /\ Used' = Used
  BY <1>2, SameList DEF ListInv
<1>a. Unlinked(t) /\ program # "optimistic"
  BY <1>2, <1>3 DEF ThreadOK, PcOK, Unlinked
<1>5. pc'[t] = "idle" /\ \A u \in Thread : u # t => pc'[u] = pc[u]
  BY <1>2, <1>3 DEF TypeOK
<1>7. TypeOK'
  BY <1>2, <1>3 DEF TypeOK, Label
<1>8. ThreadOK(t)'
  BY <1>2, <1>3, <1>5
     DEF ThreadOK, PcOK, MineOK, SearchOK, HoldOK, PlaceOK, ReachOK, CalmOK, TypeOK, Program
<1>9. ASSUME NEW u \in Thread, u # t
      PROVE  ThreadOK(u)'
  BY <1>2, <1>5, <1>9, OthersKept
<1>10. UsedOK' /\ ListOK'
  <2>1. \A u \in Thread : i'[u] = i[u] /\ i[u] \in Nat
    BY <1>2, <1>3, Constants DEF TypeOK
  <2>2. \A u \in Thread : i'[u] \in Nat /\ i'[u] >= i[u]
    BY <2>1
  <2> QED
    BY <1>2, <2>2, NodesKept
<1>11. FreedOK'
  <2>1. \A u \in Thread : Unlinked(u)' => u # t /\ Unlinked(u) /\ curr'[u] = curr[u]
    BY <1>2, <1>5 DEF Unlinked
  <2>2. curr[t] \in Used \ (List \cup freed)
    BY <1>3, <1>a DEF FreedOK
  <2>3. \A u \in Thread : Unlinked(u) /\ u # t =>
            curr[u] \in Used \ (List \cup freed) /\ curr[u] # curr[t]
    BY <1>3, <1>a DEF FreedOK
  <2>4. (freed \subseteq Used \ List /\ (program = "optimistic" => freed = {}))'
    BY <1>2, <1>3, <1>a, <2>2 DEF FreedOK
  <2>5. ASSUME NEW u \in Thread, Unlinked(u)'
        PROVE  curr'[u] \in Used' \ (List' \cup freed')
    BY <1>2, <1>3, <2>1, <2>3, <2>5
  <2>6. ASSUME NEW u \in Thread, NEW w \in Thread, Unlinked(u)', Unlinked(w)', curr'[u] = curr'[w]
        PROVE  u = w
    BY <1>3, <2>1, <2>6 DEF FreedOK
  <2> QED
    BY <2>4, <2>5, <2>6 DEF FreedOK
<1> QED
  BY <1>7, <1>8, <1>9, <1>10, <1>11 DEF ListInv

-----------------------------------------------------------------------------
(* Beginning                                                               *)

\* The key of a new node is written before anybody can see it.
LEMMA BeginInv ==
    ASSUME ListInv, NEW t \in Thread, Begin(t)
    PROVE  ListInv'
<1>1. PICK type \in {"A", "R", "C"}, v \in Key :
        /\ call' = [call EXCEPT ![t] = [type |-> type, value |-> v]]
        /\ key' = IF type = "A" THEN [key EXCEPT ![<<t, i'[t]>>] = v] ELSE key
  BY DEF Begin
<1>2. /\ pc[t] = "idle" /\ i[t] < MaxWork
      /\ i' = [i EXCEPT ![t] = i[t] + 1]
      /\ answer' = [answer EXCEPT ![t] = "unknown"]
      /\ pc' = [pc EXCEPT ![t] = "start"]
      /\ UNCHANGED <<program, next, mutex, freed, prev, curr, it, disturbed>>
  BY DEF Begin, goto
<1>3. TypeOK /\ UsedOK /\ ListOK /\ List' = List /\ Used' = Used
  BY <1>2, SameList DEF ListInv
<1>4. /\ i'[t] = i[t] + 1 /\ i[t] \in Nat /\ i'[t] \in Nat /\ i'[t] > i[t] /\ i'[t] > 0
      /\ i'[t] \in 1..MaxWork /\ i'[t] \in 0..MaxWork
      /\ \A u \in Thread : u # t => i'[u] = i[u] /\ i[u] \in Nat
  <2>1. i[t] \in 0..MaxWork /\ i'[t] = i[t] + 1
    BY <1>2, <1>3 DEF TypeOK
  <2>2. \A u \in Thread : u # t => i'[u] = i[u] /\ i[u] \in Nat
    BY <1>2, <1>3, Constants DEF TypeOK
  <2> QED
    BY <1>2, <2>1, <2>2, Constants
<1>5. <<t, i'[t]>> \in Node /\ <<t, i'[t]>> # head /\ <<t, i'[t]>> # tail
  BY <1>4, NodeFacts
<1>6. next[<<t, i'[t]>>] = null /\ <<t, i'[t]>> \notin Used
  BY <1>3, <1>4, <1>5 DEF UsedOK, Used
<1>7. /\ pc'[t] = "start" /\ answer'[t] = "unknown" /\ call'[t] = [type |-> type, value |-> v]
      /\ \A u \in Thread : u # t => pc'[u] = pc[u] /\ answer'[u] = answer[u] /\ call'[u] = call[u]
  BY <1>1, <1>2, <1>3 DEF TypeOK
<1>8. /\ key'[<<t, i'[t]>>] = v \/ type # "A"
      /\ \A n \in Node : n # <<t, i'[t]>> => key'[n] = key[n]
      /\ key' \in [Node -> 0..MaxKey + 1]
  <2>1. v \in 0..MaxKey + 1
    BY Constants DEF Key
  <2> QED
    BY <1>1, <1>3, <1>5, <2>1 DEF TypeOK
<1>9. TypeOK'
  <2>1. i' \in [Thread -> 0..MaxWork]
    BY <1>2, <1>3, <1>4 DEF TypeOK
  <2>2. call' \in [Thread -> [type : {"A", "R", "C"}, value : Key]]
    BY <1>1, <1>3 DEF TypeOK
  <2> QED
    BY <1>2, <1>3, <1>8, <2>1, <2>2 DEF TypeOK, Label
<1>10. \A n \in Used : key'[n] = key[n]
  BY <1>6, <1>8 DEF Used
<1>11. UsedOK' /\ ListOK'
  <2>1. \A u \in Thread : i'[u] \in Nat /\ i'[u] >= i[u]
    BY <1>4
  <2> QED
    BY <1>2, <1>10, <2>1, NodesKept
<1>12. FreedOK'
  <2>1. \A u \in Thread : Unlinked(u)' => Unlinked(u) /\ curr'[u] = curr[u]
    BY <1>2, <1>7 DEF Unlinked
  <2> QED
    BY <1>2, <2>1, FreedKept
<1>13. ASSUME NEW u \in Thread, u # t
       PROVE  ThreadOK(u)'
  <2>1. CASE pc[u] = "idle"
    <3>1. pc'[u] = "idle" /\ program' = program
      BY <1>2, <1>7, <1>13, <2>1
    <3> QED
      BY <1>3, <3>1
         DEF ThreadOK, PcOK, MineOK, SearchOK, HoldOK, PlaceOK, ReachOK, CalmOK, TypeOK, Program
  <2>2. CASE pc[u] # "idle"
    <3>1. myNode(u) \in Node /\ myNode(u) # <<t, i'[t]>>
      BY <1>13, <2>2, MyNode DEF myNode
    <3>2. key'[myNode(u)] = key[myNode(u)]
      BY <1>8, <3>1
    <3> QED
      BY <1>2, <1>4, <1>7, <1>10, <1>13, <3>2, OthersKept
  <2> QED
    BY <2>1, <2>2
<1>14. ThreadOK(t)'
  <2>1. MineOK(t)'
    BY <1>2, <1>4, <1>6, <1>7, <1>8 DEF MineOK, myNode, value
  <2>2. PcOK(t)'
    BY <1>2, <1>3, <1>7 DEF PcOK, TypeOK, Program
  <2>3. SearchOK(t)' /\ HoldOK(t)' /\ PlaceOK(t)' /\ ReachOK(t)' /\ CalmOK(t)'
    BY <1>7 DEF SearchOK, HoldOK, PlaceOK, ReachOK, CalmOK
  <2> QED
    BY <2>1, <2>2, <2>3 DEF ThreadOK
<1> QED
  BY <1>9, <1>11, <1>12, <1>13, <1>14 DEF ListInv

-----------------------------------------------------------------------------
(* Changing the list                                                       *)

\* While a thread decides, nobody else holds either of its two nodes.
LEMMA Exclusive ==
    ASSUME ListInv, NEW t \in Thread, NEW u \in Thread, u # t, pc[t] = "check"
    PROVE  /\ pc[u] \in {"lockCurr", "validate", "check", "unlockPrev"} =>
                  prev[u] # prev[t] /\ prev[u] # curr[t]
           /\ pc[u] \in {"validate", "check", "unlockPrev", "unlockCurr"} =>
                  curr[u] # prev[t] /\ curr[u] # curr[t]
<1>1. HoldOK(t) /\ HoldOK(u) /\ PcOK(u)
  BY DEF ListInv, ThreadOK
<1>2. CASE program = "coarse"
  BY <1>1, <1>2 DEF HoldOK, PcOK
<1>3. CASE program # "coarse"
  BY <1>1, <1>3 DEF HoldOK
<1> QED
  BY <1>2, <1>3

\* A call that decides has two neighbours in the list before it, and its key
\* is not below the first, nor above the second.
LEMMA Neighbours ==
    ASSUME ListInv, NEW t \in Thread, pc[t] = "check"
    PROVE  /\ prev[t] \in List \ {tail} /\ next[prev[t]] = curr[t] /\ curr[t] \in List
           /\ prev[t] # curr[t] /\ key[prev[t]] < value(t)
           /\ answer[t] = "unknown"
<1>1. TypeOK /\ UsedOK /\ ListOK /\ ThreadOK(t)
  BY DEF ListInv
<1>2. /\ prev[t] \in List /\ next[prev[t]] = curr[t] /\ answer[t] = "unknown"
      /\ key[prev[t]] < key[curr[t]] /\ key[prev[t]] < value(t) /\ curr[t] # null
  BY <1>1, NodeFacts DEF ThreadOK, PlaceOK, SearchOK, PcOK, TypeOK
<1>3. prev[t] # tail
  BY <1>1, <1>2 DEF UsedOK
<1>4. key[prev[t]] \in Nat
  BY <1>1, KeyBounds DEF TypeOK
<1>5. prev[t] # curr[t]
  BY <1>2, <1>4
<1> QED
  BY <1>1, <1>2, <1>3, <1>5, InList

\* The new node stands between its two neighbours, and in nobody's way.
LEMMA InsertInv ==
    ASSUME ListInv, NEW t \in Thread, Insert(t)
    PROVE  /\ ListInv'
           /\ List' = List \cup {myNode(t)} /\ myNode(t) \in Node \ List
           /\ key[myNode(t)] = value(t) /\ \A n \in List : key[n] # value(t)
<1> DEFINE m == myNode(t)
<1>1. /\ pc[t] = "check" /\ call[t].type = "A" /\ key[curr[t]] >= value(t)
      /\ key[curr[t]] # value(t)
      /\ answer' = [answer EXCEPT ![t] = "true"]
      /\ pc' = [pc EXCEPT ![t] = "unlockPrev"]
      /\ next' = [next EXCEPT ![prev[t]] = m, ![m] = curr[t]]
      /\ disturbed' = [u \in Thread |-> disturbed[u] \/ u # t]
      /\ UNCHANGED <<program, key, mutex, freed, i, call, prev, curr, it>>
  BY DEF Insert, Decide, Found, Disturb, goto
<1>2. TypeOK /\ UsedOK /\ ListOK /\ FreedOK /\ ThreadOK(t)
  BY DEF ListInv
<1>3. /\ prev[t] \in List \ {tail} /\ next[prev[t]] = curr[t] /\ curr[t] \in List
      /\ prev[t] # curr[t] /\ key[prev[t]] < value(t) /\ answer[t] = "unknown"
  BY <1>1, Neighbours
<1>4. /\ m \in Node /\ m # head /\ m # tail /\ m \notin Used /\ key[m] = value(t)
      /\ \A u \in Thread : u # t /\ pc[u] # "idle" => myNode(u) # m
  BY <1>1, <1>2, <1>3, MyNode DEF ThreadOK, MineOK
<1>5. /\ List \in SUBSET Used /\ Used \in SUBSET Node /\ head \in List /\ tail \in List
      /\ m \notin List /\ m # prev[t] /\ m # curr[t]
      /\ \A n \in List \ {tail} : next[n] \in List
  BY <1>2, <1>3, <1>4, InList
<1>6. /\ key \in [Node -> Nat] /\ value(t) \in Nat /\ key[curr[t]] \in Nat
      /\ key[head] = 0 /\ \A n \in Node : key[n] <= key[tail]
  BY <1>2, KeyBounds DEF TypeOK
<1>7. value(t) < key[curr[t]]
  BY <1>1, <1>6
<1> HIDE DEF m
<1>8. /\ next'[prev[t]] = m /\ next'[m] = curr[t]
      /\ \A n \in Node : n # prev[t] /\ n # m => next'[n] = next[n]
      /\ next' \in [Node -> Node \cup {null}]
  BY <1>1, <1>2, <1>3, <1>4, <1>5 DEF TypeOK
<1>9. Sorted(List \cup {m}, key, next')
  <2>1. next \in [Node -> Node \cup {null}]
    BY <1>2 DEF TypeOK
  <2>2. next' = [next EXCEPT ![prev[t]] = m, ![m] = next[prev[t]]]
    BY <1>1, <1>3
  <2>3. Sorted(List, key, next)
    BY <1>2 DEF ListOK
  <2>4. key[prev[t]] < key[m] /\ key[m] < key[next[prev[t]]]
    BY <1>3, <1>4, <1>7
  <2>5. List \in SUBSET Node /\ m \in Node \ List
    BY <1>4, <1>5
  <2> QED
    BY <1>3, <1>6, <2>1, <2>2, <2>3, <2>4, <2>5, SortedInsert
<1>10. List' = List \cup {m}
  <2>1. ListOf(next') = List \cup {m}
    BY <1>4, <1>5, <1>6, <1>9, SortedIsList
  <2> QED
    BY <2>1 DEF List, Closed, ListOf
<1>11. Used' = Used \cup {m}
  <2>1. m # null /\ curr[t] # null
    BY <1>3, <1>4, <1>5, NodeFacts
  <2>2. next[prev[t]] # null
    BY <1>3, <2>1
  <2> QED
    BY <1>3, <1>4, <1>5, <1>8, <2>1, <2>2 DEF Used
<1>12. TypeOK'
  <2>1. disturbed' \in [Thread -> BOOLEAN]
    BY <1>1
  <2> QED
    BY <1>1, <1>2, <1>8, <2>1 DEF TypeOK, Label
<1>13. ListOK'
  BY <1>1, <1>9, <1>10 DEF ListOK
<1>14. UsedOK'
  <2>1. next'[tail] = null
    BY <1>2, <1>3, <1>4, <1>8, NodeFacts DEF UsedOK
  <2>2. ASSUME NEW n \in Used' \ {tail}
        PROVE  next'[n] \in Used' /\ key[n] < key[next'[n]]
    <3>1. CASE n = m
      BY <1>3, <1>4, <1>5, <1>7, <1>8, <1>11, <3>1
    <3>2. CASE n = prev[t]
      BY <1>3, <1>4, <1>8, <1>11, <3>2
    <3>3. CASE n # m /\ n # prev[t]
      BY <1>2, <1>5, <1>8, <1>11, <2>2, <3>3 DEF UsedOK
    <3> QED
      BY <3>1, <3>2, <3>3
  <2>3. ASSUME NEW u \in Thread, NEW j \in 1..MaxWork, j > i[u]
        PROVE  next'[<<u, j>>] = null
    <3>1. next[<<u, j>>] = null /\ <<u, j>> \in Node
      BY <1>2, <2>3, NodeFacts DEF UsedOK
    <3>2. <<u, j>> # prev[t]
      BY <1>3, <1>5, <3>1, NodeFacts
    <3>3. <<u, j>> # m
      <4>1. i[u] \in Nat /\ i[t] \in Nat /\ j \in Nat
        BY <1>2, Constants DEF TypeOK
      <4> QED
        BY <2>3, <4>1 DEF m, myNode
    <3> QED
      BY <1>8, <3>1, <3>2, <3>3
  <2> QED
    BY <1>1, <1>2, <2>1, <2>2, <2>3 DEF UsedOK
<1>15. FreedOK'
  <2>1. \A u \in Thread : Unlinked(u)' => Unlinked(u) /\ curr'[u] = curr[u]
    <3>1. \A u \in Thread : u # t => pc'[u] = pc[u] /\ answer'[u] = answer[u]
      BY <1>1, <1>2 DEF TypeOK
    <3> QED
      BY <1>1, <3>1 DEF Unlinked
  <2>2. (freed \subseteq Used \ List /\ (program = "optimistic" => freed = {}))'
    BY <1>1, <1>2, <1>4, <1>10, <1>11 DEF FreedOK
  <2>3. ASSUME NEW u \in Thread, Unlinked(u)'
        PROVE  curr'[u] \in Used' \ (List' \cup freed')
    BY <1>1, <1>2, <1>4, <1>10, <1>11, <2>1, <2>3 DEF FreedOK
  <2>4. ASSUME NEW u \in Thread, NEW w \in Thread, Unlinked(u)', Unlinked(w)', curr'[u] = curr'[w]
        PROVE  u = w
    BY <1>2, <2>1, <2>4 DEF FreedOK
  <2> QED
    BY <2>2, <2>3, <2>4 DEF FreedOK
<1>16. ThreadOK(t)'
  <2>1. pc'[t] = "unlockPrev" /\ answer'[t] = "true"
    BY <1>1, <1>2 DEF TypeOK
  <2>2. PcOK(t)' /\ MineOK(t)'
    BY <1>1, <1>2, <2>1 DEF ThreadOK, PcOK, MineOK, myNode, value
  <2>3. SearchOK(t)' /\ HoldOK(t)'
    BY <1>1, <1>2, <1>11, <2>1 DEF ThreadOK, SearchOK, HoldOK, value
  <2>4. PlaceOK(t)' /\ ReachOK(t)' /\ CalmOK(t)'
    BY <1>1, <1>3, <1>10, <2>1 DEF PlaceOK, ReachOK, CalmOK
  <2> QED
    BY <2>2, <2>3, <2>4 DEF ThreadOK
<1>17. ASSUME NEW u \in Thread, u # t
       PROVE  ThreadOK(u)'
  <2>1. pc'[u] = pc[u] /\ answer'[u] = answer[u] /\ disturbed'[u] = TRUE
    BY <1>1, <1>2, <1>17 DEF TypeOK
  <2>2. ThreadOK(u) /\ prev[u] \in Node /\ curr[u] \in Node
    BY <1>2 DEF ListInv, TypeOK
  <2>3. PcOK(u)'
    BY <1>1, <2>1, <2>2 DEF ThreadOK, PcOK
  <2>4. MineOK(u)'
    <3>1. pc[u] # "idle" => myNode(u) \in Node /\ myNode(u) # m
      BY <1>4, <1>17, MyNode
    <3>2. next[prev[t]] # null
      BY <1>3, <1>5, NodeFacts
    <3>3. pc[u] # "idle" /\ next[myNode(u)] = null => next'[myNode(u)] = null
      BY <1>8, <3>1, <3>2
    <3> QED
      BY <1>1, <2>1, <2>2, <3>3 DEF ThreadOK, MineOK, myNode, value
  <2>5. SearchOK(u)' /\ HoldOK(u)'
    BY <1>1, <1>11, <2>1, <2>2 DEF ThreadOK, SearchOK, HoldOK, value
  <2>6. PlaceOK(u)'
    <3>1. pc[u] \in {"lockCurr", "check"} => prev[u] # prev[t] /\ prev[u] # m
      BY <1>1, <1>4, <1>17, <2>2, Exclusive DEF ThreadOK, SearchOK
    <3>2. pc[u] \in {"lockCurr", "check"} => next'[prev[u]] = next[prev[u]]
      BY <1>8, <2>2, <3>1
    <3> QED
      BY <1>1, <1>10, <2>1, <2>2, <3>2 DEF ThreadOK, PlaceOK, Unlinked
  <2>7. ReachOK(u)'
    <3> SUFFICES ASSUME pc[u] = "validate", prev[u] \notin List
                 PROVE  \E nodes \in SUBSET Node :
                            /\ it[u] \in nodes /\ List' \subseteq nodes /\ prev[u] \notin nodes
                            /\ \A n \in nodes \ {tail} : next'[n] \in nodes
      BY <1>1, <1>10, <2>1 DEF ReachOK, Avoids
    <3>1. PICK nodes \in SUBSET Node : it[u] \in nodes /\ Avoids(nodes, prev[u])
      BY <2>2 DEF ThreadOK, ReachOK
    <3>2. /\ List \subseteq nodes /\ prev[u] \notin nodes
          /\ \A n \in nodes \ {tail} : next[n] \in nodes
      BY <3>1 DEF Avoids
    <3>3. prev[u] # m
      BY <1>4, <2>2 DEF ThreadOK, SearchOK
    <3>4. \A n \in (nodes \cup {m}) \ {tail} : next'[n] \in nodes \cup {m}
      BY <1>3, <1>8, <3>2
    <3>5. nodes \cup {m} \in SUBSET Node
      BY <1>4
    <3> QED
      BY <1>10, <3>1, <3>2, <3>3, <3>4, <3>5
  <2>8. CalmOK(u)'
    BY <2>1 DEF CalmOK
  <2> QED
    BY <2>3, <2>4, <2>5, <2>6, <2>7, <2>8 DEF ThreadOK
<1>18. \A n \in List : key[n] # value(t)
  <2> SUFFICES ASSUME NEW n \in List, key[n] = value(t) PROVE FALSE
    OBVIOUS
  <2>1. key[n] <= key[prev[t]] \/ key[curr[t]] <= key[n]
    BY <1>2, <1>3, InList
  <2>2. key[prev[t]] \in Nat
    BY <1>3, <1>5, <1>6
  <2> QED
    BY <1>3, <1>6, <1>7, <2>1, <2>2
<1>19. ListInv'
  BY <1>12, <1>13, <1>14, <1>15, <1>16, <1>17 DEF ListInv
<1> QED
  BY <1>4, <1>5, <1>10, <1>18, <1>19 DEF m

\* The node that is unlinked leaves the list, and nobody else has it.
LEMMA UnlinkInv ==
    ASSUME ListInv, NEW t \in Thread, Unlink(t)
    PROVE  /\ ListInv'
           /\ List' = List \ {curr[t]} /\ curr[t] \in List \ {head, tail}
           /\ key[curr[t]] = value(t)
<1>1. /\ pc[t] = "check" /\ call[t].type = "R" /\ key[curr[t]] = value(t)
      /\ answer' = [answer EXCEPT ![t] = "true"]
      /\ pc' = [pc EXCEPT ![t] = "unlockPrev"]
      /\ next' = [next EXCEPT ![prev[t]] = next[curr[t]]]
      /\ disturbed' = [u \in Thread |-> disturbed[u] \/ u # t]
      /\ UNCHANGED <<program, key, mutex, freed, i, call, prev, curr, it>>
  BY DEF Unlink, Decide, Found, Disturb, goto
<1>2. TypeOK /\ UsedOK /\ ListOK /\ FreedOK /\ ThreadOK(t)
  BY DEF ListInv
<1>3. /\ prev[t] \in List \ {tail} /\ next[prev[t]] = curr[t] /\ curr[t] \in List
      /\ prev[t] # curr[t] /\ key[prev[t]] < value(t) /\ answer[t] = "unknown"
  BY <1>1, Neighbours
<1>4. /\ List \in SUBSET Used /\ Used \in SUBSET Node /\ head \in List /\ tail \in List
      /\ \A n \in List \ {tail} : next[n] \in List
  BY <1>2, InList
<1>5. /\ key \in [Node -> Nat] /\ value(t) \in Nat /\ 0 < value(t) /\ value(t) < key[tail]
      /\ key[tail] \in Nat /\ key[head] = 0 /\ \A n \in Node : key[n] <= key[tail]
  BY <1>2, KeyBounds, NodeFacts
<1>6. curr[t] # head /\ curr[t] # tail
  BY <1>1, <1>5
<1>7. next[curr[t]] \in List
  BY <1>3, <1>4, <1>6
<1>8. /\ next'[prev[t]] = next[curr[t]]
      /\ \A n \in Node : n # prev[t] => next'[n] = next[n]
      /\ next' \in [Node -> Node \cup {null}]
  BY <1>1, <1>2, <1>3, <1>4, <1>7 DEF TypeOK
<1>9. Sorted(List \ {curr[t]}, key, next')
  <2>1. next \in [Node -> Node \cup {null}]
    BY <1>2 DEF TypeOK
  <2>2. next' = [next EXCEPT ![prev[t]] = next[next[prev[t]]]]
    BY <1>1, <1>3
  <2>3. Sorted(List, key, next) /\ List \in SUBSET Node
    BY <1>2, <1>4 DEF ListOK
  <2> QED
    BY <1>3, <1>5, <1>6, <2>1, <2>2, <2>3, SortedUnlink
<1>10. List' = List \ {curr[t]}
  <2>1. ListOf(next') = List \ {curr[t]}
    BY <1>4, <1>5, <1>9, SortedIsList
  <2> QED
    BY <2>1 DEF List, Closed, ListOf
<1>11. Used' = Used
  <2>1. next[curr[t]] # null /\ next[prev[t]] # null
    BY <1>3, <1>4, <1>7, NodeFacts
  <2> QED
    BY <1>3, <1>4, <1>8, <2>1 DEF Used
<1>12. TypeOK'
  <2>1. disturbed' \in [Thread -> BOOLEAN]
    BY <1>1
  <2> QED
    BY <1>1, <1>2, <1>8, <2>1 DEF TypeOK, Label
<1>13. ListOK'
  BY <1>1, <1>9, <1>10 DEF ListOK
<1>14. UsedOK'
  <2>1. next'[tail] = null
    BY <1>2, <1>3, <1>8, NodeFacts DEF UsedOK
  <2>2. ASSUME NEW n \in Used' \ {tail}
        PROVE  next'[n] \in Used' /\ key[n] < key[next'[n]]
    <3>1. CASE n = prev[t]
      <4>1. key[prev[t]] < key[curr[t]] /\ key[curr[t]] < key[next[curr[t]]]
        BY <1>1, <1>2, <1>3, <1>4, <1>6 DEF UsedOK
      <4>2. key[prev[t]] \in Nat /\ key[curr[t]] \in Nat /\ key[next[curr[t]]] \in Nat
        BY <1>3, <1>4, <1>5, <1>7
      <4>3. key[prev[t]] < key[next[curr[t]]]
        BY <4>1, <4>2
      <4> QED
        BY <1>4, <1>7, <1>8, <1>11, <3>1, <4>3
    <3>2. CASE n # prev[t]
      BY <1>2, <1>4, <1>8, <1>11, <2>2, <3>2 DEF UsedOK
    <3> QED
      BY <3>1, <3>2
  <2>3. ASSUME NEW u \in Thread, NEW j \in 1..MaxWork, j > i[u]
        PROVE  next'[<<u, j>>] = null
    <3>1. next[<<u, j>>] = null /\ <<u, j>> \in Node
      BY <1>2, <2>3, NodeFacts DEF UsedOK
    <3>2. <<u, j>> # prev[t]
      BY <1>3, <1>4, <3>1, NodeFacts
    <3> QED
      BY <1>8, <3>1, <3>2
  <2> QED
    BY <1>1, <1>2, <2>1, <2>2, <2>3 DEF UsedOK
<1>15. FreedOK'
  <2>1. \A u \in Thread : Unlinked(u)' /\ u # t => Unlinked(u) /\ curr'[u] = curr[u]
    <3>1. \A u \in Thread : u # t => pc'[u] = pc[u] /\ answer'[u] = answer[u]
      BY <1>1, <1>2 DEF TypeOK
    <3> QED
      BY <1>1, <3>1 DEF Unlinked
  <2>2. (freed \subseteq Used \ List /\ (program = "optimistic" => freed = {}))'
    BY <1>1, <1>2, <1>10, <1>11 DEF FreedOK
  <2>3. ASSUME NEW u \in Thread, Unlinked(u)'
        PROVE  curr'[u] \in Used' \ (List' \cup freed')
    <3>1. CASE u = t
      BY <1>1, <1>2, <1>3, <1>4, <1>10, <1>11, <3>1 DEF FreedOK
    <3>2. CASE u # t
      BY <1>1, <1>2, <1>10, <1>11, <2>1, <2>3, <3>2 DEF FreedOK
    <3> QED
      BY <3>1, <3>2
  <2>4. ASSUME NEW u \in Thread, NEW w \in Thread, Unlinked(u)', Unlinked(w)', curr'[u] = curr'[w]
        PROVE  u = w
    <3>1. \A v \in Thread : Unlinked(v) => curr[v] # curr[t]
      BY <1>2, <1>3 DEF FreedOK
    <3>2. curr' = curr
      BY <1>1
    <3> QED
      BY <1>2, <2>1, <2>4, <3>1, <3>2 DEF FreedOK
  <2> QED
    BY <2>2, <2>3, <2>4 DEF FreedOK
<1>16. ThreadOK(t)'
  <2>1. pc'[t] = "unlockPrev" /\ answer'[t] = "true"
    BY <1>1, <1>2 DEF TypeOK
  <2>2. PcOK(t)' /\ MineOK(t)'
    BY <1>1, <1>2, <2>1 DEF ThreadOK, PcOK, MineOK, myNode, value
  <2>3. SearchOK(t)' /\ HoldOK(t)'
    BY <1>1, <1>2, <1>11, <2>1 DEF ThreadOK, SearchOK, HoldOK, value
  <2>4. PlaceOK(t)' /\ ReachOK(t)' /\ CalmOK(t)'
    BY <1>1, <1>3, <1>10, <2>1 DEF PlaceOK, ReachOK, CalmOK, Unlinked
  <2> QED
    BY <2>2, <2>3, <2>4 DEF ThreadOK
<1>17. ASSUME NEW u \in Thread, u # t
       PROVE  ThreadOK(u)'
  <2>1. pc'[u] = pc[u] /\ answer'[u] = answer[u] /\ disturbed'[u] = TRUE
    BY <1>1, <1>2, <1>17 DEF TypeOK
  <2>2. ThreadOK(u) /\ prev[u] \in Node /\ curr[u] \in Node
    BY <1>2 DEF ListInv, TypeOK
  <2>3. PcOK(u)'
    BY <1>1, <2>1, <2>2 DEF ThreadOK, PcOK
  <2>4. MineOK(u)'
    <3>1. pc[u] # "idle" => myNode(u) \in Node
      BY MyNode
    <3>2. next[prev[t]] # null
      BY <1>3, <1>4, NodeFacts
    <3>3. pc[u] # "idle" /\ next[myNode(u)] = null => next'[myNode(u)] = null
      BY <1>8, <3>1, <3>2
    <3> QED
      BY <1>1, <2>1, <2>2, <3>3 DEF ThreadOK, MineOK, myNode, value
  <2>5. SearchOK(u)' /\ HoldOK(u)'
    BY <1>1, <1>11, <2>1, <2>2 DEF ThreadOK, SearchOK, HoldOK, value
  <2>6. PlaceOK(u)'
    <3>1. /\ pc[u] \in {"lockCurr", "check", "unlockPrev"} =>
                 prev[u] # prev[t] /\ prev[u] # curr[t]
          /\ pc[u] \in {"unlockPrev", "unlockCurr"} => curr[u] # curr[t]
      BY <1>1, <1>17, Exclusive
    <3>2. pc[u] \in {"lockCurr", "check"} => next'[prev[u]] = next[prev[u]]
      BY <1>8, <2>2, <3>1
    <3> QED
      BY <1>1, <1>10, <2>1, <2>2, <3>1, <3>2 DEF ThreadOK, PlaceOK, Unlinked
  <2>7. ReachOK(u)'
    <3> SUFFICES ASSUME pc[u] = "validate", prev[u] \notin List'
                 PROVE  \E nodes \in SUBSET Node :
                            /\ it[u] \in nodes /\ List' \subseteq nodes /\ prev[u] \notin nodes
                            /\ \A n \in nodes \ {tail} : next'[n] \in nodes
      BY <1>1, <2>1 DEF ReachOK, Avoids
    <3>1. prev[u] # curr[t]
      BY <1>1, <1>17, Exclusive
    <3>2. prev[u] \notin List
      BY <1>10, <3>1
    <3>3. PICK nodes \in SUBSET Node : it[u] \in nodes /\ Avoids(nodes, prev[u])
      BY <2>2, <3>2 DEF ThreadOK, ReachOK
    <3>4. /\ List \subseteq nodes /\ prev[u] \notin nodes
          /\ \A n \in nodes \ {tail} : next[n] \in nodes
      BY <3>3 DEF Avoids
    <3>5. \A n \in nodes \ {tail} : next'[n] \in nodes
      BY <1>7, <1>8, <3>4
    <3> QED
      BY <1>10, <3>3, <3>4, <3>5
  <2>8. CalmOK(u)'
    BY <2>1 DEF CalmOK
  <2> QED
    BY <2>3, <2>4, <2>5, <2>6, <2>7, <2>8 DEF ThreadOK
<1>18. ListInv'
  BY <1>12, <1>13, <1>14, <1>15, <1>16, <1>17 DEF ListInv
<1> QED
  BY <1>1, <1>3, <1>6, <1>10, <1>18

-----------------------------------------------------------------------------
(* The invariant, and what follows from it                                 *)

\* Every step keeps the invariant.
LEMMA ListInvStep == ListInv /\ [Next]_vars => ListInv'
<1> SUFFICES ASSUME ListInv, [Next]_vars PROVE ListInv'
  OBVIOUS
<1>1. ASSUME NEW t \in Thread, ThreadFunc(t)
      PROVE  ListInv'
  BY <1>1, BeginInv, LockListInv, UnlockListInv, CompareInv, LockHeadInv, AdvanceInv,
     StartSearchInv, SearchInv, LockPrevInv, LockCurrInv, ValidateInv, ValidInv, InvalidInv,
     InsertInv, UnlinkInv, LookInv, UnlockPrevInv, UnlockCurrInv, FreeInv
     DEF ThreadFunc
<1>2. ASSUME UNCHANGED vars
      PROVE  ListInv'
  <2>1. UNCHANGED <<program, key, next, mutex, freed, i, pc, call, answer, prev, curr, it, disturbed>>
    BY <1>2 DEF vars, fields, locals
  <2>2. List' = List /\ Used' = Used
    BY <2>1, SameList
  <2>3. ASSUME NEW t \in Thread PROVE ThreadOK(t)'
    <3>1. ThreadOK(t)
      BY DEF ListInv
    <3>2. PcOK(t)' /\ MineOK(t)' /\ SearchOK(t)' /\ HoldOK(t)'
      BY <2>1, <2>2, <3>1 DEF ThreadOK, PcOK, MineOK, SearchOK, HoldOK, myNode, value
    <3>3. PlaceOK(t)' /\ ReachOK(t)' /\ CalmOK(t)'
      BY <2>1, <2>2, <3>1 DEF ThreadOK, PlaceOK, ReachOK, CalmOK, Unlinked, Avoids
    <3> QED
      BY <3>2, <3>3 DEF ThreadOK
  <2>4. TypeOK' /\ UsedOK' /\ ListOK'
    BY <2>1, <2>2 DEF ListInv, TypeOK, UsedOK, ListOK
  <2>5. FreedOK'
    BY <2>1, <2>2 DEF ListInv, FreedOK, Unlinked
  <2> QED
    BY <2>3, <2>4, <2>5 DEF ListInv
<1> QED
  BY <1>1, <1>2 DEF Next, Joined

\* The invariant holds.
THEOREM ListInvariant == Spec => []ListInv
BY ListInvInit, ListInvStep, PTL DEF Spec

\* The list always ends in the tail, and the keys in it increase: list_add,
\* list_remove and their interleavings in all three programs.
THEOREM ListStaysSorted == Spec => []ListSorted
<1>1. ListInv => ListSorted
  BY InList DEF ListInv, ListSorted
<1> QED
  BY <1>1, ListInvariant, PTL

\* No call reads, writes or unlocks a node that list_remove has freed, but for
\* the comparison that list_contains makes after its unlock.
THEOREM ListFreedOnlyCompared == Spec => []FreedOnlyCompared
<1>1. ASSUME ListInv PROVE FreedOnlyCompared
  <2> SUFFICES ASSUME NEW t \in Thread, ~(program = "coarse" /\ pc[t] = "compare")
               PROVE  InUse(t) \cap freed = {}
    BY DEF FreedOnlyCompared
  <2>1. FreedOK /\ TypeOK /\ ListOK /\ UsedOK /\ ThreadOK(t)
    BY <1>1 DEF ListInv
  <2>2. CASE program = "optimistic"
    BY <2>1, <2>2 DEF FreedOK
  <2>3. CASE program # "optimistic"
    <3>1. freed \cap List = {} /\ (Unlinked(t) => curr[t] \notin freed)
      BY <2>1 DEF FreedOK
    <3>2. pc[t] \in {"lockCurr", "check"} => prev[t] \in List /\ curr[t] \in List
      <4>1. pc[t] \in {"lockCurr", "check"} =>
                /\ prev[t] \in List /\ next[prev[t]] = curr[t] /\ curr[t] \in Node
        BY <2>1, <2>3 DEF ThreadOK, PlaceOK, PcOK, TypeOK, Program
      <4>2. next[tail] = null /\ null \notin Node
        BY <2>1, NodeFacts DEF UsedOK
      <4> QED
        BY <2>1, <4>1, <4>2, InList
    <3>3. /\ pc[t] = "unlockPrev" => prev[t] \in List
          /\ pc[t] \in {"unlockPrev", "unlockCurr"} => curr[t] \in List \/ Unlinked(t)
          /\ pc[t] = "free" => Unlinked(t)
      BY <2>1, <2>3 DEF ThreadOK, PlaceOK, PcOK, Unlinked
    <3>4. pc[t] \in {"idle", "start", "lockCurr", "check", "unlockPrev", "unlockCurr", "free"}
      BY <2>1, <2>3 DEF ThreadOK, PcOK, TypeOK, Program
    <3> QED
      BY <3>1, <3>2, <3>3, <3>4 DEF InUse
  <2> QED
    BY <2>2, <2>3
<1> QED
  BY <1>1, ListInvariant, PTL

\* A call of optimistic.cpp whose validation fails has been disturbed: in a
\* list nobody has changed since the search began, the validation meets prev.
THEOREM ListRetriesJustified == Spec => RetriesJustified
<1>1. ASSUME ListInv, [Next]_vars
      PROVE  [\A t \in Thread : pc[t] = "validate" /\ pc'[t] = "unlockPrev" => disturbed[t]]_pc
  <2> SUFFICES ASSUME NEW t \in Thread, pc[t] = "validate", pc'[t] = "unlockPrev", ~disturbed[t]
               PROVE  FALSE
    OBVIOUS
  <2>1. TypeOK /\ ThreadOK(t)
    BY <1>1 DEF ListInv
  <2>2. program = "optimistic"
    BY <2>1 DEF ThreadOK, PcOK, TypeOK, Program
  <2>3. /\ next[prev[t]] = curr[t] /\ key[it[t]] <= key[prev[t]]
        /\ key[it[t]] \in Nat /\ key[prev[t]] \in Nat
    BY <1>1, <2>1, <2>2, KeyBounds DEF ListInv, ThreadOK, CalmOK, TypeOK
  <2>4. ~Invalid(t)
    BY <2>3 DEF Invalid
  <2>5. PICK u \in Thread : ThreadFunc(u)
    BY <1>1 DEF Next, Joined, vars
  <2>6. CASE u # t
    <3>1. pc' = pc \/ \E l : pc' = [pc EXCEPT ![u] = l]
      BY <2>5 DEF ThreadFunc, goto, Begin, LockList, UnlockList, Compare, LockHead, Advance,
         StartSearch, Search, LockPrev, LockCurr, Validate, Valid, Invalid, Insert, Unlink, Look,
         Decide, UnlockPrev, UnlockCurr, Free
    <3> QED
      BY <2>1, <2>6, <3>1 DEF TypeOK
  <2>7. CASE u = t
    <3>1. Validate(t) \/ Valid(t)
      BY <2>4, <2>5, <2>7 DEF ThreadFunc, Begin, LockList, UnlockList, Compare, LockHead,
         Advance, StartSearch, Search, LockPrev, LockCurr, Insert, Unlink, Look,
         Decide, UnlockPrev, UnlockCurr, Free
    <3>2. pc' = pc \/ pc' = [pc EXCEPT ![t] = "check"]
      BY <3>1 DEF Validate, Valid, goto
    <3> QED
      BY <2>1, <3>2 DEF TypeOK
  <2> QED
    BY <2>6, <2>7
<1> QED
  BY <1>1, ListInvariant, PTL DEF Spec, RetriesJustified

-----------------------------------------------------------------------------
(* Linearizability: the lists implement a set of keys                      *)

\* The set of keys, and the calls with their answers, that the list stands for.
Keys == {key[n] : n \in List \ {head, tail}}
Call(t) ==
    IF pc[t] = "idle" THEN [type |-> "none"]
    ELSE [type |-> call[t].type, value |-> call[t].value, answer |-> answer[t]]
Calls == [t \in Thread |-> Call(t)]

\* In the beginning there are no keys and no calls.
LEMMA KeysInit == Init => KeySet!KInit
<1> SUFFICES ASSUME Init PROVE KeySet!KInit
  OBVIOUS
<1>1. TypeOK /\ UsedOK /\ ListOK
  BY ListInvInit DEF ListInv
<1>2. next[head] = tail
  BY NodeFacts DEF Init
<1>3. ASSUME NEW n \in List \ {head, tail} PROVE FALSE
  <2>1. key[n] <= key[head] \/ key[tail] <= key[n]
    BY <1>1, <1>2, InList, NodeFacts
  <2>2. /\ key[n] \in Nat /\ key[head] = 0 /\ key[tail] \in Nat /\ key[n] <= key[tail]
        /\ n \in List /\ head \in List /\ tail \in List
    BY <1>1, InList, KeyBounds, NodeFacts DEF Used
  <2>3. key[n] = key[head] \/ key[n] = key[tail]
    BY <2>1, <2>2
  <2> QED
    BY <1>1, <2>2, <2>3, InList
<1>4. {key[n] : n \in List \ {head, tail}} = {}
  BY <1>3
<1>5. \A t \in Thread : pc[t] = "idle"
  BY DEF Init
<1> QED
  BY <1>4, <1>5 DEF KeySet!KInit, KeySet!none

\* Whether its key is in the list, a call sees at the second of its two nodes.
LEMMA FoundInKeys ==
    ASSUME ListInv, NEW t \in Thread, pc[t] = "check", key[curr[t]] >= value(t)
    PROVE  Found(t) <=> value(t) \in Keys
<1>1. TypeOK /\ UsedOK /\ ListOK
  BY DEF ListInv
<1>2. /\ prev[t] \in List \ {tail} /\ next[prev[t]] = curr[t] /\ curr[t] \in List
      /\ key[prev[t]] < value(t)
  BY Neighbours
<1>3. /\ value(t) \in Nat /\ 0 < value(t) /\ value(t) < key[tail]
      /\ key[head] = 0 /\ key[tail] \in Nat /\ key[curr[t]] \in Nat /\ key[prev[t]] \in Nat
      /\ \A n \in List : key[n] \in Nat
  BY <1>1, InList, KeyBounds, NodeFacts DEF TypeOK, Used
<1>4. ASSUME Found(t) PROVE value(t) \in Keys
  <2>1. key[curr[t]] = value(t)
    BY <1>4 DEF Found
  <2>2. curr[t] # head /\ curr[t] # tail
    BY <1>3, <2>1
  <2> QED
    BY <1>2, <2>1, <2>2 DEF Keys
<1>5. ASSUME value(t) \in Keys PROVE Found(t)
  <2>1. PICK n \in List : key[n] = value(t)
    BY <1>5 DEF Keys
  <2>2. key[n] <= key[prev[t]] \/ key[curr[t]] <= key[n]
    BY <1>1, <1>2, InList
  <2>3. key[curr[t]] = value(t)
    BY <1>2, <1>3, <2>1, <2>2
  <2> QED
    BY <2>3 DEF Found
<1> QED
  BY <1>4, <1>5

\* The keys and calls of the abstract set, and how a step may change them.
LEMMA Abstracts ==
    /\ KeySet!kVars = <<Keys, Calls>>
    /\ \A t \in Thread : Calls[t] = Call(t)
    /\ next' = next /\ (\A n \in List : key'[n] = key[n]) => Keys' = Keys
BY SameList DEF KeySet!kVars, Keys, Calls, Call

\* A step inside a call that leaves pointers, keys and answer alone is none of
\* the abstract set.
LEMMA QuietStep ==
    ASSUME ListInv, NEW t \in Thread, UNCHANGED <<key, next, call, answer>>, pc[t] # "idle",
           NEW l \in Label \ {"idle"}, pc' = [pc EXCEPT ![t] = l]
    PROVE  UNCHANGED KeySet!kVars
<1>1. pc \in [Thread -> Label]
  BY DEF ListInv, TypeOK
<1>2. \A u \in Thread : pc'[u] = "idle" <=> pc[u] = "idle"
  BY <1>1
<1>3. Keys' = Keys
  BY SameList DEF Keys
<1>4. Calls' = Calls
  BY <1>2 DEF Calls, Call
<1> QED
  BY <1>3, <1>4 DEF KeySet!kVars, Keys, Calls, Call

\* A call that returns after it has been decided ends.
LEMMA EndStep ==
    ASSUME ListInv, NEW t \in Thread, UNCHANGED <<key, next, call>>, pc[t] # "idle",
           answer[t] # "unknown", pc' = [pc EXCEPT ![t] = "idle"],
           \A u \in Thread : u # t => answer'[u] = answer[u]
    PROVE  KeySet!End(t)
<1>1. /\ pc \in [Thread -> Label]
      /\ call[t].type \in {"A", "R", "C"}
  BY DEF ListInv, TypeOK
<1>2. pc'[t] = "idle" /\ \A u \in Thread : u # t => pc'[u] = pc[u]
  BY <1>1
<1>3. Keys' = Keys
  BY SameList DEF Keys
<1>4. Call(t) # [type |-> "none"] /\ Call(t).answer # "unknown"
  BY <1>1 DEF Call
<1>5. Calls' = [Calls EXCEPT ![t] = [type |-> "none"]]
  BY <1>2 DEF Calls, Call
<1> QED
  BY <1>3, <1>4, <1>5 DEF KeySet!End, KeySet!none, Keys, Calls, Call

\* A call begins.
LEMMA BeginStep ==
    ASSUME ListInv, NEW t \in Thread, Begin(t)
    PROVE  KeySet!Begin(t)
<1>1. PICK type \in {"A", "R", "C"}, v \in Key :
        /\ call' = [call EXCEPT ![t] = [type |-> type, value |-> v]]
        /\ key' = IF type = "A" THEN [key EXCEPT ![<<t, i'[t]>>] = v] ELSE key
  BY DEF Begin
<1>2. /\ pc[t] = "idle" /\ i[t] < MaxWork
      /\ i' = [i EXCEPT ![t] = i[t] + 1]
      /\ answer' = [answer EXCEPT ![t] = "unknown"]
      /\ pc' = [pc EXCEPT ![t] = "start"]
      /\ next' = next
  BY DEF Begin, goto
<1>3. TypeOK /\ UsedOK /\ ListOK
  BY DEF ListInv
<1>4. i'[t] > i[t] /\ i'[t] \in 1..MaxWork
  <2>1. i[t] \in 0..MaxWork /\ i'[t] = i[t] + 1
    BY <1>2, <1>3 DEF TypeOK
  <2> QED
    BY <1>2, <2>1, Constants
<1>5. <<t, i'[t]>> \notin List
  <2>1. next[<<t, i'[t]>>] = null /\ <<t, i'[t]>> # tail
    BY <1>3, <1>4, NodeFacts DEF UsedOK
  <2> QED
    BY <1>3, <2>1, InList DEF Used
<1>6. \A n \in List : key'[n] = key[n]
  BY <1>1, <1>3, <1>5, InList DEF TypeOK, Used
<1>7. Keys' = Keys
  BY <1>2, <1>6, SameList DEF Keys
<1> DEFINE c == [type |-> type, value |-> v, answer |-> "unknown"]
<1>8. c \in KeySet!Call /\ c.answer = "unknown"
  BY DEF KeySet!Call, KeySet!Answer
<1>9. /\ pc'[t] = "start" /\ answer'[t] = "unknown" /\ call'[t] = [type |-> type, value |-> v]
      /\ \A u \in Thread : u # t => pc'[u] = pc[u] /\ answer'[u] = answer[u] /\ call'[u] = call[u]
  BY <1>1, <1>2, <1>3 DEF TypeOK
<1>10. Calls' = [Calls EXCEPT ![t] = c]
  <2>1. Calls'[t] = c /\ \A u \in Thread : u # t => Calls'[u] = Calls[u]
    BY <1>9 DEF Calls, Call
  <2>2. Calls' = [u \in Thread |-> Calls'[u]] /\ Calls = [u \in Thread |-> Calls[u]]
    BY DEF Calls
  <2> HIDE DEF Calls, c
  <2> QED
    BY <2>1, <2>2
<1>11. Calls[t] = [type |-> "none"]
  BY <1>2 DEF Calls, Call
<1> QED
  BY <1>7, <1>8, <1>10, <1>11 DEF KeySet!Begin, KeySet!none, Keys, Calls, Call

\* A call that is decided takes effect: yes is what the set of keys says.
LEMMA EffectStep ==
    ASSUME ListInv, NEW t \in Thread, NEW yes \in BOOLEAN, Decide(t, yes),
           yes <=> IF call[t].type = "A" THEN value(t) \notin Keys ELSE value(t) \in Keys,
           Keys' = CASE call[t].type = "A" -> Keys \cup {value(t)}
                     [] call[t].type = "R" -> Keys \ {value(t)}
                     [] call[t].type = "C" -> Keys
    PROVE  KeySet!TakeEffect(t)
<1>1. /\ pc[t] = "check" /\ pc' = [pc EXCEPT ![t] = "unlockPrev"]
      /\ answer' = [answer EXCEPT ![t] = IF yes THEN "true" ELSE "false"]
      /\ call' = call
  BY DEF Decide, goto
<1>2. TypeOK /\ answer[t] = "unknown" /\ call[t].type \in {"A", "R", "C"}
  BY <1>1, Neighbours DEF ListInv, TypeOK
<1>3. /\ pc'[t] = "unlockPrev" /\ answer'[t] = IF yes THEN "true" ELSE "false"
      /\ \A u \in Thread : u # t => pc'[u] = pc[u] /\ answer'[u] = answer[u]
  BY <1>1, <1>2 DEF TypeOK
<1>4. Calls[t] = [type |-> call[t].type, value |-> value(t), answer |-> "unknown"]
  BY <1>1, <1>2 DEF Calls, Call, value
<1>5. Calls' = [Calls EXCEPT ![t].answer = IF yes THEN "true" ELSE "false"]
  <2>1. Calls'[t] = [Calls[t] EXCEPT !.answer = IF yes THEN "true" ELSE "false"]
    BY <1>1, <1>3, <1>4 DEF Calls, Call, value
  <2>2. \A u \in Thread : u # t => Calls'[u] = Calls[u]
    BY <1>1, <1>3 DEF Calls, Call
  <2>3. Calls' = [u \in Thread |-> Calls'[u]] /\ Calls = [u \in Thread |-> Calls[u]]
    BY DEF Calls
  <2> HIDE DEF Calls
  <2> QED
    BY <2>1, <2>2, <2>3
<1>6. Calls[t] # [type |-> "none"]
  BY <1>2, <1>4
<1>7. Calls[t].type = call[t].type /\ Calls[t].value = value(t) /\ Calls[t].answer = "unknown"
  BY <1>4
<1> DEFINE found == IF Calls[t].type = "A" THEN Calls[t].value \notin Keys
                    ELSE Calls[t].value \in Keys
<1>8. /\ Keys' = CASE Calls[t].type = "A" -> Keys \cup {Calls[t].value}
                   [] Calls[t].type = "R" -> Keys \ {Calls[t].value}
                   [] Calls[t].type = "C" -> Keys
      /\ Calls' = [Calls EXCEPT ![t].answer = IF found THEN "true" ELSE "false"]
  BY <1>5, <1>7
<1>9. (/\ Calls[t] # [type |-> "none"]
       /\ Calls[t].answer = "unknown"
       /\ Keys' = CASE Calls[t].type = "A" -> Keys \cup {Calls[t].value}
                    [] Calls[t].type = "R" -> Keys \ {Calls[t].value}
                    [] Calls[t].type = "C" -> Keys
       /\ Calls' = [Calls EXCEPT ![t].answer = IF found THEN "true" ELSE "false"])
      => KeySet!TakeEffect(t)
  BY DEF KeySet!TakeEffect, KeySet!none, Keys, Calls, Call
<1> QED
  BY <1>6, <1>7, <1>8, <1>9

\* Insert, Unlink and Look are the moments in which calls take effect.
LEMMA DecisionSteps ==
    ASSUME ListInv, NEW t \in Thread, Insert(t) \/ Unlink(t) \/ Look(t)
    PROVE  KeySet!TakeEffect(t)
<1>0. TypeOK /\ ListOK /\ UsedOK
  BY DEF ListInv
<1>1. CASE Insert(t)
  <2>1. call[t].type = "A" /\ ~Found(t) /\ Decide(t, TRUE) /\ key' = key
    BY <1>1 DEF Insert, Decide
  <2>2. /\ List' = List \cup {myNode(t)} /\ myNode(t) \in Node \ List
        /\ key[myNode(t)] = value(t)
    BY <1>1, InsertInv
  <2>3. value(t) \notin Keys
    BY <2>1, FoundInKeys DEF Decide
  <2>4. myNode(t) # head /\ myNode(t) # tail
    BY <1>0, <2>2, InList
  <2>5. Keys' = Keys \cup {value(t)}
    BY <2>1, <2>2, <2>4 DEF Keys
  <2> QED
    BY <2>1, <2>3, <2>5, EffectStep
<1>2. CASE Unlink(t)
  <2>1. call[t].type = "R" /\ Found(t) /\ Decide(t, TRUE) /\ key' = key
    BY <1>2 DEF Unlink, Decide
  <2>2. /\ List' = List \ {curr[t]} /\ curr[t] \in List \ {head, tail}
        /\ key[curr[t]] = value(t)
    BY <1>2, UnlinkInv
  <2>3. value(t) \in Keys
    BY <2>1, FoundInKeys DEF Decide
  <2>4. \A n \in List : key[n] = value(t) => n = curr[t]
    BY <1>0, <2>2, InList
  <2>5. Keys' = Keys \ {value(t)}
    BY <2>1, <2>2, <2>4 DEF Keys
  <2> QED
    BY <2>1, <2>3, <2>5, EffectStep
<1>3. CASE Look(t)
  <2> DEFINE yes == call[t].type = "C" /\ Found(t)
  <2>1. /\ Decide(t, yes) /\ key' = key /\ next' = next
        /\ \/ call[t].type = "A" /\ Found(t)
           \/ call[t].type = "R" /\ ~Found(t)
           \/ call[t].type = "C"
    BY <1>3 DEF Look, Decide
  <2>2. Found(t) <=> value(t) \in Keys
    BY <2>1, FoundInKeys DEF Decide
  <2>3. yes <=> IF call[t].type = "A" THEN value(t) \notin Keys ELSE value(t) \in Keys
    BY <2>1, <2>2
  <2>4. Keys' = Keys
    BY <2>1, SameList DEF Keys
  <2>5. Keys' = CASE call[t].type = "A" -> Keys \cup {value(t)}
                  [] call[t].type = "R" -> Keys \ {value(t)}
                  [] call[t].type = "C" -> Keys
    BY <2>1, <2>2, <2>4
  <2>6. yes \in BOOLEAN
    BY DEF Found
  <2> HIDE DEF yes
  <2> QED
    BY <2>1, <2>3, <2>5, <2>6, EffectStep
<1> QED
  BY <1>1, <1>2, <1>3

\* Every step of a list is a step of the set of keys, or none.
LEMMA KeysStep == ListInv /\ [Next]_vars => [KeySet!KNext]_(KeySet!kVars)
<1> SUFFICES ASSUME ListInv, [Next]_vars
             PROVE  KeySet!KNext \/ UNCHANGED KeySet!kVars
  OBVIOUS
<1>1. ASSUME NEW t \in Thread, ThreadFunc(t)
      PROVE  KeySet!KNext \/ UNCHANGED KeySet!kVars
  <2>0. TypeOK /\ ThreadOK(t)
    BY DEF ListInv
  <2>1. CASE Begin(t)
    BY <2>1, BeginStep DEF KeySet!KNext
  <2>2. CASE Insert(t) \/ Unlink(t) \/ Look(t)
    BY <2>2, DecisionSteps DEF KeySet!KNext
  <2>3. CASE LockList(t) \/ LockHead(t) \/ Advance(t) \/ StartSearch(t)
             \/ LockPrev(t) \/ LockCurr(t) \/ Valid(t) \/ Invalid(t) \/ UnlockPrev(t)
    <3>1. /\ UNCHANGED <<key, next, call, answer>> /\ pc[t] # "idle"
          /\ \E l \in Label \ {"idle"} : pc' = [pc EXCEPT ![t] = l]
      BY <2>3 DEF LockList, LockHead, Advance, StartSearch, LockPrev, LockCurr, Valid, Invalid,
         UnlockPrev, goto, Label, fields, locals
    <3> QED
      BY <3>1, QuietStep
  <2>4. CASE Search(t) \/ Validate(t)
    <3>1. UNCHANGED <<key, next, call, answer, pc>>
      BY <2>4 DEF Search, Validate, fields
    <3>2. Keys' = Keys
      BY <3>1, SameList DEF Keys
    <3>3. Calls' = Calls
      BY <3>1 DEF Calls, Call
    <3> QED
      BY <3>2, <3>3 DEF KeySet!kVars, Keys, Calls, Call
  <2>5. CASE Compare(t) \/ Free(t)
    <3>1. /\ UNCHANGED <<key, next, call>> /\ pc[t] \in {"compare", "free"}
          /\ pc' = [pc EXCEPT ![t] = "idle"]
          /\ answer' = answer \/ \E a : answer' = [answer EXCEPT ![t] = a]
      BY <2>5 DEF Compare, Free, goto, fields, locals
    <3>2. answer[t] # "unknown"
      BY <2>0, <3>1 DEF ThreadOK, PcOK
    <3>3. \A u \in Thread : u # t => answer'[u] = answer[u]
      BY <2>0, <3>1 DEF TypeOK
    <3> QED
      BY <3>1, <3>2, <3>3, EndStep DEF KeySet!KNext
  <2>6. CASE UnlockList(t) \/ UnlockCurr(t)
    <3>1. /\ UNCHANGED <<key, next, call, answer>> /\ pc[t] \in {"unlockPrev", "unlockCurr"}
          /\ \/ \E l \in Label \ {"idle"} : pc' = [pc EXCEPT ![t] = l]
             \/ pc' = [pc EXCEPT ![t] = "idle"] /\ answer[t] # "unknown"
      <4>1. CASE UnlockList(t)
        <5>1. answer[t] # "unknown"
          BY <2>0, <4>1 DEF UnlockList, ThreadOK, PcOK
        <5> QED
          BY <4>1, <5>1 DEF UnlockList, goto, Label, locals
      <4>2. CASE UnlockCurr(t)
        BY <4>2 DEF UnlockCurr, goto, Label, locals
      <4> QED
        BY <2>6, <4>1, <4>2
    <3>2. CASE \E l \in Label \ {"idle"} : pc' = [pc EXCEPT ![t] = l]
      BY <3>1, <3>2, QuietStep
    <3>3. CASE pc' = [pc EXCEPT ![t] = "idle"] /\ answer[t] # "unknown"
      BY <3>1, <3>3, EndStep DEF KeySet!KNext
    <3> QED
      BY <3>1, <3>2, <3>3
  <2> QED
    BY <1>1, <2>1, <2>2, <2>3, <2>4, <2>5, <2>6 DEF ThreadFunc
<1>2. ASSUME UNCHANGED vars
      PROVE  UNCHANGED KeySet!kVars
  <2>1. UNCHANGED <<key, next, pc, call, answer>>
    BY <1>2 DEF vars, fields, locals
  <2>2. Keys' = Keys
    BY <2>1, SameList DEF Keys
  <2>3. Calls' = Calls
    BY <2>1 DEF Calls, Call
  <2> QED
    BY <2>2, <2>3 DEF KeySet!kVars, Keys, Calls, Call
<1> QED
  BY <1>1, <1>2 DEF Next, Joined

\* Whatever the interleaving of list_add, list_remove and list_contains, in
\* each of the three programs a call answers for one moment of its duration.
THEOREM ListLinearizable == Spec => Linearizable
BY ListInvInit, KeysInit, ListInvStep, KeysStep, PTL
   DEF Spec, Linearizable, KeySet!KSpec
=============================================================================
