--------------------------- MODULE DatabaseProofs ---------------------------
(***************************************************************************)
(* Proofs about module LockTable, for any sets Txn and Record, and about   *)
(* module Database, which uses the lock table, for any number of threads   *)
(* and records, any MaxExecution and any width of the values.              *)
(***************************************************************************)
EXTENDS Database, SequenceTheorems, FiniteSetTheorems, TLAPS

-----------------------------------------------------------------------------
(* Type correctness                                                        *)

\* A transaction that has a deque of nodes has a last one.
LEMMA LastNode ==
    ASSUME NEW deque \in Seq(Node), deque # <<>>
    PROVE  deque[Len(deque)] \in Node /\ Len(deque) \in 1..Len(deque)
OBVIOUS

\* A node is its transaction and its record.
LEMMA NodeFields ==
    ASSUME NEW n \in Node
    PROVE  txnId(n) \in Txn /\ recordId(n) \in Record /\ n = <<txnId(n), recordId(n)>>
BY DEF Node, txnId, recordId

\* Insertion of a node keeps every variable in its type.
LEMMA AddNodeType ==
    ASSUME LTTypeOK, NEW t \in Txn, NEW r \in Record,
           NEW mode \in LockMode, NEW wait \in BOOLEAN,
           AddNode(t, r, mode, wait)
    PROVE  LTTypeOK'
<1>1. <<t, r>> \in Node
  BY DEF Node
<1>2. lockPerTxn[t] # <<>> => lockPerTxn[t][Len(lockPerTxn[t])] \in Node
  BY LastNode DEF LTTypeOK
<1>3. lockPerTxn' \in [Txn -> Seq(Node)]
  BY <1>1 DEF AddNode, LTTypeOK
<1>4. nextInTxn' \in [Node -> Node \cup {null}]
  BY <1>1, <1>2 DEF AddNode, LTTypeOK
<1>5. next' \in [Node -> Node \cup {null}] /\ prev' \in [Node -> Node \cup {null}]
  BY <1>1 DEF AddNode, LTTypeOK
<1>6. head' \in [Record -> Node \cup {null}] /\ tail' \in [Record -> Node \cup {null}]
  BY <1>1 DEF AddNode, LTTypeOK
<1>7. lockMode' \in [Node -> LockMode] /\ locked' \in [Node -> BOOLEAN]
  BY <1>1 DEF AddNode, LTTypeOK
<1>8. nodes' \subseteq Node /\ call' \in [Txn -> CallState]
  BY <1>1 DEF AddNode, LTTypeOK, CallState
<1> QED
  BY <1>3, <1>4, <1>5, <1>6, <1>7, <1>8 DEF AddNode, LTTypeOK

\* Deletion of a node keeps the variables it assigns in their types.
LEMMA DeleteNodeType ==
    ASSUME LTTypeOK, NEW t \in Txn, NEW n \in Node, lockPerTxn[t] # <<>>,
           NEW p \in [Node -> Node \cup {null}], NEW q \in [Node -> Node \cup {null}],
           DeleteNode(t, n, p, q)
    PROVE  /\ nodes' \subseteq Node
           /\ lockMode' \in [Node -> LockMode]
           /\ prev' \in [Node -> Node \cup {null}]
           /\ next' \in [Node -> Node \cup {null}]
           /\ nextInTxn' \in [Node -> Node \cup {null}]
           /\ lockPerTxn' \in [Txn -> Seq(Node)]
           /\ globalMtx' = globalMtx
           /\ call' = call
<1>1. Tail(lockPerTxn[t]) \in Seq(Node)
  BY DEF LTTypeOK
<1> QED
  BY <1>1 DEF DeleteNode, LTTypeOK, LockMode

\* The type invariant of the lock table is inductive.
LEMMA TypeStep == LTTypeOK /\ [LTNext]_ltVars => LTTypeOK'
<1> SUFFICES ASSUME LTTypeOK, [LTNext]_ltVars PROVE LTTypeOK'
  OBVIOUS
<1>1. ASSUME NEW t \in Txn, NEW r \in Record, addReaderLock(t, r) PROVE LTTypeOK'
  BY <1>1, AddNodeType DEF addReaderLock, WriterQueued, LockMode
<1>2. ASSUME NEW t \in Txn, NEW r \in Record, addWriterLock(t, r) PROVE LTTypeOK'
  BY <1>2, AddNodeType DEF addWriterLock, LockMode
<1>3. ASSUME NEW t \in Txn, NEW r \in Record, refuseLock(t, r) PROVE LTTypeOK'
  BY <1>3 DEF refuseLock, LTTypeOK, CallState
<1>4. ASSUME NEW t \in Txn, returnLocked(t) PROVE LTTypeOK'
  BY <1>4 DEF returnLocked, LTTypeOK, CallState
<1>5. ASSUME NEW t \in Txn, beginUnlock(t) PROVE LTTypeOK'
  BY <1>5 DEF beginUnlock, LTTypeOK, CallState
<1>6. ASSUME NEW t \in Txn, NEW n \in nodes, releaseOnly(t, n) PROVE LTTypeOK'
  <2>1. n \in Node /\ recordId(n) \in Record
    BY NodeFields DEF LTTypeOK
  <2> QED
    BY <1>6, <2>1, DeleteNodeType DEF releaseOnly, Releasing, LTTypeOK
<1>7. ASSUME NEW t \in Txn, NEW n \in nodes, releaseHead(t, n) PROVE LTTypeOK'
  <2>1. n \in Node /\ recordId(n) \in Record
    BY NodeFields DEF LTTypeOK
  <2>2. next[n] \in Node
    BY <1>7, <2>1 DEF releaseHead, LTTypeOK
  <2>3. [prev EXCEPT ![next[n]] = null] \in [Node -> Node \cup {null}]
    BY <2>2 DEF LTTypeOK
  <2> QED
    BY <1>7, <2>1, <2>2, <2>3, DeleteNodeType DEF releaseHead, Releasing, LTTypeOK
<1>8. ASSUME NEW t \in Txn, NEW n \in nodes, releaseInner(t, n) PROVE LTTypeOK'
  <2>1. n \in Node /\ recordId(n) \in Record
    BY NodeFields DEF LTTypeOK
  <2> DEFINE p == IF next[n] = null THEN prev ELSE [prev EXCEPT ![next[n]] = prev[n]]
             q == [next EXCEPT ![prev[n]] = next[n]]
  <2>2. p \in [Node -> Node \cup {null}] /\ q \in [Node -> Node \cup {null}]
    BY <2>1 DEF LTTypeOK
  <2>3. DeleteNode(t, n, p, q) /\ lockPerTxn[t] # <<>>
    BY <1>8 DEF releaseInner, Releasing
  <2>4. tail' \in [Record -> Node \cup {null}]
    BY <1>8, <2>1 DEF releaseInner, LTTypeOK
  <2> HIDE DEF p, q
  <2> QED
    BY <1>8, <2>1, <2>2, <2>3, <2>4, DeleteNodeType DEF releaseInner, LTTypeOK
<1>9. ASSUME NEW t \in Txn, wakeNext(t) PROVE LTTypeOK'
  BY <1>9 DEF wakeNext, LTTypeOK
<1>10. ASSUME NEW t \in Txn, endUnlock(t) PROVE LTTypeOK'
  BY <1>10 DEF endUnlock, LTTypeOK, CallState
<1>11. CASE UNCHANGED ltVars
  BY <1>11 DEF ltVars, LTTypeOK
<1> QED
  BY <1>1, <1>2, <1>3, <1>4, <1>5, <1>6, <1>7, <1>8, <1>9, <1>10, <1>11
     DEF LTNext, lock, unlockStep

-----------------------------------------------------------------------------
(* Insertion                                                               *)

\* What holds when addReaderLock and addWriterLock construct a node: the
\* search found a closed set of other transactions' nodes around the tail.
LEMMA SearchFailed ==
    ASSUME LTInv, NEW t \in Txn, NEW r \in Record, ~checkDeadlock(t, r)
    PROVE  \E C \in SUBSET nodes :
              /\ \A n \in C : txnId(n) # t
              /\ tail[r] # null => tail[r] \in C
              /\ ClosedUnder(prev, C)
              /\ ClosedUnder(nextInTxn, C)
<1>1. CASE tail[r] = null
  <2> WITNESS {} \in SUBSET nodes
  <2> QED BY <1>1 DEF ClosedUnder
<1>2. CASE tail[r] # null
  <2>1. PICK C \in SUBSET {n \in nodes : txnId(n) # t} :
            /\ tail[r] \in C
            /\ ClosedUnder(prev, C)
            /\ ClosedUnder(nextInTxn, C)
    BY <1>2 DEF checkDeadlock
  <2> QED
    BY <2>1
<1> QED
  BY <1>1, <1>2

\* A set of nodes that prev never leaves and that holds a record's tail holds
\* every node of the record.
LEMMA TailReaches ==
    ASSUME LTInv, NEW r \in Record, NEW C \in SUBSET nodes,
           tail[r] # null => tail[r] \in C, ClosedUnder(prev, C)
    PROVE  \A n \in nodes : recordId(n) = r => n \in C
<1> DEFINE S == {n \in nodes : recordId(n) = r /\ n \notin C}
<1> SUFFICES ASSUME S # {} PROVE FALSE
  OBVIOUS
<1>0. S \in SUBSET nodes /\ ListsLinked /\ ListsEnd /\ null \notin nodes
  BY NullAssumption DEF LTInv, LTTypeOK, Node
<1>1. PICK n \in S : next[n] \notin S
  BY <1>0 DEF ListsEnd
<1>2. next[n] # null => next[n] \in C /\ prev[next[n]] = n
  BY <1>0, <1>1 DEF ListsLinked
<1>3. next[n] = null => tail[r] = n
  BY <1>0 DEF ListsLinked
<1> QED
  BY <1>0, <1>2, <1>3 DEF ClosedUnder

\* The transaction has no node for the record yet: the new one is fresh.
LEMMA FreshNode ==
    ASSUME LTInv, NEW t \in Txn, NEW r \in Record, ~checkDeadlock(t, r)
    PROVE  <<t, r>> \notin nodes
<1>1. PICK C \in SUBSET nodes :
          /\ \A n \in C : txnId(n) # t
          /\ tail[r] # null => tail[r] \in C
          /\ ClosedUnder(prev, C)
          /\ ClosedUnder(nextInTxn, C)
  BY SearchFailed
<1>2. txnId(<<t, r>>) = t /\ recordId(<<t, r>>) = r
  BY DEF txnId, recordId
<1> QED
  BY <1>1, <1>2, TailReaches

\* The assignments of AddNode, one field at a time.
LEMMA AddNodeEffect ==
    ASSUME LTInv, NEW t \in Txn, NEW r \in Record,
           NEW mode \in LockMode, NEW wait \in BOOLEAN,
           <<t, r>> \notin nodes, AddNode(t, r, mode, wait)
    PROVE  LET new == <<t, r>> IN
           /\ new \in Node /\ new # null /\ txnId(new) = t /\ recordId(new) = r
           /\ nodes' = nodes \cup {new} /\ null \notin nodes'
           /\ lockMode'[new] = mode /\ locked'[new] = wait
           /\ prev'[new] = tail[r] /\ next'[new] = null /\ tail'[r] = new
           /\ \A n \in nodes : /\ n \in Node /\ n # new
                              /\ lockMode'[n] = lockMode[n]
                              /\ locked'[n] = locked[n]
                              /\ prev'[n] = prev[n]
                              /\ next'[n] = IF n = tail[r] THEN new ELSE next[n]
           /\ \A s \in Record \ {r} : tail'[s] = tail[s] /\ head'[s] = head[s]
           /\ head'[r] = IF tail[r] = null THEN new ELSE head[r]
           /\ tail[r] # null => tail[r] \in nodes /\ recordId(tail[r]) = r
<1>1. <<t, r>> \in Node /\ <<t, r>> # null
  BY NullAssumption DEF Node
<1>2. txnId(<<t, r>>) = t /\ recordId(<<t, r>>) = r
  BY DEF txnId, recordId
<1>3. tail[r] # null => tail[r] \in nodes /\ recordId(tail[r]) = r
  BY DEF LTInv, ListsLinked
<1>4. \A n \in nodes : n \in Node /\ n # null
  BY NullAssumption DEF LTInv, LTTypeOK, Node
<1>5. \A n \in nodes : next'[n] = IF n = tail[r] THEN <<t, r>> ELSE next[n]
  BY <1>1, <1>3, <1>4 DEF AddNode, LTInv, LTTypeOK
<1> QED
  BY <1>1, <1>2, <1>3, <1>4, <1>5 DEF AddNode, LTInv, LTTypeOK

\* A node appended to a list leaves all lists doubly linked with their ends.
LEMMA AddNodeLists ==
    ASSUME LTInv, NEW t \in Txn, NEW r \in Record,
           NEW mode \in LockMode, NEW wait \in BOOLEAN,
           <<t, r>> \notin nodes, AddNode(t, r, mode, wait)
    PROVE  ListsLinked' /\ ListsEnd'
<1> DEFINE new == <<t, r>>
<1>0. LTInv => ListsLinked /\ ListsEnd
  BY DEF LTInv
<1>1. ListsLinked'
  <2>1. ASSUME NEW n \in nodes
        PROVE  (/\ prev[n] # null => /\ prev[n] \in nodes
                                     /\ recordId(prev[n]) = recordId(n)
                                     /\ next[prev[n]] = n
                /\ next[n] # null => /\ next[n] \in nodes
                                     /\ recordId(next[n]) = recordId(n)
                                     /\ prev[next[n]] = n
                /\ prev[n] = null <=> head[recordId(n)] = n
                /\ next[n] = null <=> tail[recordId(n)] = n)'
    BY <1>0, <2>1, AddNodeEffect, NodeFields DEF ListsLinked
  <2>2. (/\ prev[new] # null => /\ prev[new] \in nodes
                                /\ recordId(prev[new]) = recordId(new)
                                /\ next[prev[new]] = new
         /\ next[new] # null => /\ next[new] \in nodes
                                /\ recordId(next[new]) = recordId(new)
                                /\ prev[next[new]] = new
         /\ prev[new] = null <=> head[recordId(new)] = new
         /\ next[new] = null <=> tail[recordId(new)] = new)'
    BY <1>0, AddNodeEffect DEF ListsLinked
  <2>3. \A s \in Record :
         (/\ head[s] # null => head[s] \in nodes /\ recordId(head[s]) = s
          /\ tail[s] # null => tail[s] \in nodes /\ recordId(tail[s]) = s
          /\ head[s] = null <=> tail[s] = null)'
    BY <1>0, AddNodeEffect DEF ListsLinked
  <2> QED
    BY <2>1, <2>2, <2>3, AddNodeEffect DEF ListsLinked
<1>2. ListsEnd'
  <2> SUFFICES ASSUME NEW S \in SUBSET nodes', S # {}
               PROVE  \E n \in S : next'[n] \notin S
    BY DEF ListsEnd
  <2>1. CASE new \in S
    BY <2>1, AddNodeEffect
  <2>2. CASE new \notin S
    <3>1. S \in SUBSET nodes
      BY <2>2, AddNodeEffect
    <3>2. PICK n \in S : next[n] \notin S
      BY <1>0, <3>1 DEF ListsEnd
    <3> QED
      BY <2>2, <3>1, <3>2, AddNodeEffect
  <2> QED
    BY <2>1, <2>2
<1> QED
  BY <1>1, <1>2

\* What AddNode does to the deques and to nextInTxn.
LEMMA AddNodeChain ==
    ASSUME LTInv, NEW t \in Txn, NEW r \in Record,
           NEW mode \in LockMode, NEW wait \in BOOLEAN,
           <<t, r>> \notin nodes, AddNode(t, r, mode, wait)
    PROVE  LET new == <<t, r>>
               deque == lockPerTxn[t]
           IN  /\ deque \in Seq(Node) /\ Len(deque) \in Nat
               /\ \A u \in Txn \ {t} : lockPerTxn'[u] = lockPerTxn[u]
               /\ lockPerTxn'[t] = Append(deque, new)
               /\ Len(lockPerTxn'[t]) = Len(deque) + 1
               /\ 1..Len(lockPerTxn'[t]) = 1..Len(deque) \cup {Len(deque) + 1}
               /\ lockPerTxn'[t][Len(deque) + 1] = new
               /\ \A i \in 1..Len(deque) : /\ i # Len(deque) + 1
                                          /\ lockPerTxn'[t][i] = deque[i]
               /\ nextInTxn'[new] = null
               /\ \A n \in nodes : /\ txnId(n) # t => nextInTxn'[n] = nextInTxn[n]
                                  /\ nextInTxn'[n] \in {nextInTxn[n], new}
               /\ \A i \in 1..Len(deque) :
                    nextInTxn'[deque[i]] = IF i < Len(deque) THEN deque[i + 1] ELSE new
<1> DEFINE new == <<t, r>>
           deque == lockPerTxn[t]
<1>0. LTTypeOK /\ DequesChained
  BY DEF LTInv
<1>1. deque \in Seq(Node) /\ Len(deque) \in Nat /\ new \in Node
  BY <1>0 DEF LTTypeOK, Node
<1>2. /\ \A u \in Txn \ {t} : lockPerTxn'[u] = lockPerTxn[u]
      /\ lockPerTxn'[t] = Append(deque, new)
  BY <1>0 DEF AddNode, LTTypeOK
<1>3. /\ Len(lockPerTxn'[t]) = Len(deque) + 1
      /\ 1..Len(lockPerTxn'[t]) = 1..Len(deque) \cup {Len(deque) + 1}
      /\ lockPerTxn'[t][Len(deque) + 1] = new
      /\ \A i \in 1..Len(deque) : i # Len(deque) + 1 /\ lockPerTxn'[t][i] = deque[i]
  BY <1>1, <1>2
<1>4. \A n \in nodes : n \in Node /\ n # new
  BY <1>0 DEF LTTypeOK
<1>5. CASE deque = <<>>
  <2>1. nextInTxn' = [nextInTxn EXCEPT ![new] = null]
    BY <1>5 DEF AddNode
  <2>2. nextInTxn'[new] = null /\ \A n \in nodes : nextInTxn'[n] = nextInTxn[n]
    BY <1>0, <1>1, <1>4, <2>1 DEF LTTypeOK
  <2>3. 1..Len(deque) = {}
    BY <1>5
  <2> QED
    BY <1>1, <1>2, <1>3, <2>2, <2>3
<1>6. CASE deque # <<>>
  <2> DEFINE back == deque[Len(deque)]
  <2>1. nextInTxn' = [nextInTxn EXCEPT ![new] = null, ![back] = new]
    BY <1>6 DEF AddNode
  <2>2. Len(deque) \in 1..Len(deque)
    BY <1>1, <1>6
  <2>3. back \in nodes /\ txnId(back) = t
    BY <1>0, <2>2 DEF DequesChained
  <2>4. /\ nextInTxn'[new] = null
        /\ \A n \in nodes : nextInTxn'[n] = IF n = back THEN new ELSE nextInTxn[n]
    BY <1>0, <1>1, <1>4, <2>1, <2>3 DEF LTTypeOK
  <2>5. ASSUME NEW i \in 1..Len(deque)
        PROVE  nextInTxn'[deque[i]] = IF i < Len(deque) THEN deque[i + 1] ELSE new
    <3>1. /\ deque[i] \in nodes
          /\ deque[i] = back => i = Len(deque)
          /\ nextInTxn[deque[i]] = IF i < Len(deque) THEN deque[i + 1] ELSE null
      BY <1>0, <2>2 DEF DequesChained
    <3>2. i < Len(deque) \/ i = Len(deque)
      BY <1>1
    <3> QED
      BY <1>1, <2>4, <3>1, <3>2
  <2> QED
    BY <1>1, <1>2, <1>3, <2>3, <2>4, <2>5
<1> QED
  BY <1>5, <1>6

\* Deques of the other transactions, and the pointers inside them, stay.
LEMMA AddNodeDeques ==
    ASSUME LTInv, NEW t \in Txn, NEW r \in Record,
           NEW mode \in LockMode, NEW wait \in BOOLEAN,
           <<t, r>> \notin nodes, AddNode(t, r, mode, wait)
    PROVE  DequesChained'
<1> DEFINE new == <<t, r>>
           deque == lockPerTxn[t]
<1>0. LTTypeOK /\ DequesChained
  BY DEF LTInv
<1>1. ASSUME NEW u \in Txn, u # t
      PROVE  (/\ \A n \in nodes : txnId(n) = u =>
                    \E i \in 1..Len(lockPerTxn[u]) : lockPerTxn[u][i] = n
              /\ \A i \in 1..Len(lockPerTxn[u]) :
                  /\ lockPerTxn[u][i] \in nodes
                  /\ txnId(lockPerTxn[u][i]) = u
                  /\ \A j \in 1..Len(lockPerTxn[u]) :
                        lockPerTxn[u][i] = lockPerTxn[u][j] => i = j
                  /\ nextInTxn[lockPerTxn[u][i]] =
                        IF i < Len(lockPerTxn[u]) THEN lockPerTxn[u][i + 1] ELSE null)'
  <2>1. lockPerTxn'[u] = lockPerTxn[u]
    BY <1>1, AddNodeChain
  <2>2. /\ nodes' = nodes \cup {new} /\ txnId(new) = t
        /\ \A n \in nodes : txnId(n) = u => nextInTxn'[n] = nextInTxn[n]
    BY <1>1, AddNodeEffect, AddNodeChain
  <2> QED
    BY <1>0, <1>1, <2>1, <2>2 DEF DequesChained
<1>2. (\A n \in nodes : txnId(n) = t =>
          \E i \in 1..Len(lockPerTxn[t]) : lockPerTxn[t][i] = n)'
  <2> SUFFICES ASSUME NEW n \in nodes', txnId(n) = t
               PROVE  \E i \in 1..Len(lockPerTxn'[t]) : lockPerTxn'[t][i] = n
    OBVIOUS
  <2>1. CASE n = new
    <3>1. /\ Len(deque) + 1 \in 1..Len(lockPerTxn'[t])
          /\ lockPerTxn'[t][Len(deque) + 1] = new
      BY AddNodeChain
    <3> QED
      BY <2>1, <3>1
  <2>2. CASE n \in nodes
    <3>1. PICK i \in 1..Len(deque) : deque[i] = n
      BY <1>0, <2>2 DEF DequesChained
    <3> QED
      BY <3>1, AddNodeChain
  <2> QED
    BY <2>1, <2>2, AddNodeEffect
<1>3. ASSUME NEW i \in 1..Len(lockPerTxn'[t])
      PROVE  (/\ lockPerTxn[t][i] \in nodes
              /\ txnId(lockPerTxn[t][i]) = t
              /\ \A j \in 1..Len(lockPerTxn[t]) :
                    lockPerTxn[t][i] = lockPerTxn[t][j] => i = j
              /\ nextInTxn[lockPerTxn[t][i]] =
                    IF i < Len(lockPerTxn[t]) THEN lockPerTxn[t][i + 1] ELSE null)'
  <2>0. /\ Len(lockPerTxn'[t]) = Len(deque) + 1 /\ Len(deque) \in Nat
        /\ 1..Len(lockPerTxn'[t]) = 1..Len(deque) \cup {Len(deque) + 1}
        /\ lockPerTxn'[t][Len(deque) + 1] = new
        /\ \A j \in 1..Len(deque) : lockPerTxn'[t][j] = deque[j]
    BY AddNodeChain
  <2>1. \A j \in 1..Len(deque) : /\ deque[j] \in nodes /\ deque[j] # new
                                 /\ txnId(deque[j]) = t
                                 /\ \A k \in 1..Len(deque) : deque[j] = deque[k] => j = k
    BY <1>0 DEF DequesChained
  <2>2. nodes' = nodes \cup {new} /\ txnId(new) = t
    BY AddNodeEffect
  <2>3. /\ lockPerTxn'[t][i] \in nodes'
        /\ txnId(lockPerTxn'[t][i]) = t
        /\ \A j \in 1..Len(lockPerTxn'[t]) :
              lockPerTxn'[t][i] = lockPerTxn'[t][j] => i = j
    BY <2>0, <2>1, <2>2
  <2>4. nextInTxn'[lockPerTxn'[t][i]] =
          IF i < Len(lockPerTxn'[t]) THEN lockPerTxn'[t][i + 1] ELSE null
    <3>1. CASE i = Len(deque) + 1
      <4>1. lockPerTxn'[t][i] = new /\ ~ (i < Len(lockPerTxn'[t]))
        BY <2>0, <3>1
      <4>2. nextInTxn'[new] = null
        BY AddNodeChain
      <4> QED
        BY <4>1, <4>2
    <3>2. CASE i # Len(deque) + 1
      <4>1. i \in 1..Len(deque) /\ i + 1 \in 1..Len(lockPerTxn'[t])
        BY <2>0, <3>2
      <4>2. nextInTxn'[deque[i]] = IF i < Len(deque) THEN deque[i + 1] ELSE new
        BY <4>1, AddNodeChain
      <4> QED
        BY <2>0, <4>1, <4>2, SMTT(30)
    <3> QED
      BY <3>1, <3>2
  <2> QED
    BY <2>3, <2>4
<1> QED
  BY <1>1, <1>2, <1>3 DEF DequesChained

\* No cycle arises: nothing leads to the new node but the last node of its
\* transaction, which the search did not find from the record's tail.
LEMMA AddNodeAcyclic ==
    ASSUME LTInv, NEW t \in Txn, NEW r \in Record,
           NEW mode \in LockMode, NEW wait \in BOOLEAN,
           ~checkDeadlock(t, r), AddNode(t, r, mode, wait)
    PROVE  WaitForAcyclic'
<1> DEFINE new == <<t, r>>
<1>0. LTTypeOK /\ WaitForAcyclic /\ DequesChained /\ new \notin nodes
  BY FreshNode DEF LTInv
<1>1. PICK C \in SUBSET nodes :
          /\ \A n \in C : txnId(n) # t
          /\ tail[r] # null => tail[r] \in C
          /\ ClosedUnder(prev, C)
          /\ ClosedUnder(nextInTxn, C)
  BY SearchFailed
<1>2. nextInTxn'[new] = null
  BY <1>0, AddNodeChain
<1>3. \A n \in nodes : nextInTxn'[n] \in {nextInTxn[n], new}
  BY <1>0, AddNodeChain
<1>4. \A n \in C : nextInTxn'[n] = nextInTxn[n]
  BY <1>0, <1>1, AddNodeChain
<1> SUFFICES ASSUME NEW S \in SUBSET nodes', S # {}
             PROVE  \E n \in S : prev'[n] \notin S /\ nextInTxn'[n] \notin S
  BY DEF WaitForAcyclic
<1>5. nodes' = nodes \cup {new} /\ null \notin S
  BY <1>0, AddNodeEffect
<1>6. CASE S \cap C # {}
  <2>1. PICK n \in S \cap C : prev[n] \notin S \cap C /\ nextInTxn[n] \notin S \cap C
    BY <1>0, <1>6 DEF WaitForAcyclic
  <2>2. prev'[n] = prev[n] /\ nextInTxn'[n] = nextInTxn[n]
    BY <1>0, <1>1, <1>4, <2>1, AddNodeEffect
  <2> QED
    BY <1>1, <1>5, <2>1, <2>2 DEF ClosedUnder
<1>7. CASE S \cap C = {} /\ new \in S
  BY <1>0, <1>1, <1>2, <1>5, <1>7, AddNodeEffect
<1>8. CASE S \cap C = {} /\ new \notin S
  <2>1. S \in SUBSET nodes
    BY <1>5, <1>8
  <2>2. PICK n \in S : prev[n] \notin S /\ nextInTxn[n] \notin S
    BY <1>0, <2>1 DEF WaitForAcyclic
  <2> QED
    BY <1>0, <1>3, <1>8, <2>1, <2>2, AddNodeEffect
<1> QED
  BY <1>6, <1>7, <1>8

\* A reader waits exactly when the record's tail is a writer or waits itself.
LEMMA ReaderWaits ==
    ASSUME LTInv, globalMtx = NoTxn, NEW r \in Record
    PROVE  WriterQueued(r) <=> /\ tail[r] # null
                               /\ lockMode[tail[r]] = "WRITE" \/ locked[tail[r]]
<1>0. LTTypeOK /\ ListsLinked /\ WaitForAcyclic /\ GrantsOK /\ iter = null
  BY DEF LTInv, MutexOK
<1>1. \A n \in nodes : n \in Node /\ n # null /\ lockMode[n] \in LockMode
                                            /\ locked[n] \in BOOLEAN
  BY <1>0, NullAssumption DEF LTTypeOK, Node
<1>2. ASSUME tail[r] # null, lockMode[tail[r]] # "WRITE", ~locked[tail[r]]
      PROVE  ~WriterQueued(r)
  <2> DEFINE C == {n \in nodes : lockMode[n] = "READ" /\ ~locked[n]}
  <2>1. tail[r] \in C
    BY <1>0, <1>1, <1>2 DEF ListsLinked, LockMode
  <2>2. ClosedUnder(prev, C)
    BY <1>0 DEF ListsLinked, GrantsOK, ClosedUnder
  <2> QED
    BY <2>1, <2>2 DEF WriterQueued
<1>3. ASSUME ~WriterQueued(r), tail[r] # null
      PROVE  lockMode[tail[r]] = "READ" /\ ~locked[tail[r]]
  <2>1. PICK C \in SUBSET {n \in nodes : lockMode[n] = "READ"} :
            tail[r] \in C /\ ClosedUnder(prev, C)
    BY <1>3 DEF WriterQueued
  <2> DEFINE L == {n \in C : locked[n]}
  <2>2. L \in SUBSET nodes
    BY <2>1
  <2>3. ASSUME NEW n \in L PROVE prev[n] \in L
    BY <1>0, <1>1, <2>1 DEF GrantsOK, ClosedUnder
  <2>4. L = {}
    BY <1>0, <2>2, <2>3 DEF WaitForAcyclic
  <2> QED
    BY <2>1, <2>4
<1>4. tail[r] = null => ~WriterQueued(r)
  BY DEF WriterQueued
<1>5. CASE tail[r] = null
  BY <1>4, <1>5
<1>6. CASE tail[r] # null
  <2>1. tail[r] \in nodes
    BY <1>0, <1>6 DEF ListsLinked
  <2>2. lockMode[tail[r]] = "READ" \/ lockMode[tail[r]] = "WRITE"
    BY <1>1, <2>1 DEF LockMode
  <2>3. WriterQueued(r) \in BOOLEAN
    BY DEF WriterQueued
  <2> QED
    BY <1>2, <1>3, <1>6, <2>2, <2>3
<1> QED
  BY <1>5, <1>6

\* The new node waits exactly when it has to, and its transaction for it alone.
LEMMA AddNodeGrants ==
    ASSUME LTInv, NEW t \in Txn, NEW r \in Record,
           NEW mode \in LockMode, NEW wait \in BOOLEAN,
           OutsideCall(t), globalMtx = NoTxn, <<t, r>> \notin nodes,
           AddNode(t, r, mode, wait),
           wait <=> /\ tail[r] # null
                    /\ \/ mode = "WRITE"
                       \/ lockMode[tail[r]] = "WRITE"
                       \/ locked[tail[r]]
    PROVE  MutexOK' /\ GrantsOK' /\ OnlyLastWaits' /\ SpinOK'
<1> DEFINE new == <<t, r>>
<1>0. LTTypeOK /\ ListsLinked /\ DequesChained /\ MutexOK /\ GrantsOK
           /\ OnlyLastWaits /\ SpinOK
  BY DEF LTInv
<1>1. globalMtx' = globalMtx /\ iter' = iter /\ iter = null
  BY <1>0 DEF MutexOK, AddNode
<1>2. /\ call'[t] = "spin"
      /\ \A u \in Txn \ {t} : call'[u] = call[u]
  BY <1>0 DEF AddNode, LTTypeOK
<1>3. MutexOK'
  BY <1>0, <1>1, <1>2, NoTxnAssumption DEF MutexOK
<1>4. \A n \in nodes : /\ lockMode[n] \in LockMode /\ locked[n] \in BOOLEAN
                       /\ prev[n] # null => prev[n] \in nodes
                       /\ txnId(n) \in Txn
  BY <1>0, NodeFields DEF LTTypeOK, ListsLinked
<1>5. GrantsOK'
  <2> SUFFICES ASSUME NEW n \in nodes'
               PROVE  (/\ ~locked[n] /\ lockMode[n] = "WRITE" => prev[n] = null
                       /\ ~locked[n] /\ lockMode[n] = "READ" /\ prev[n] # null =>
                             lockMode[prev[n]] = "READ" /\ ~locked[prev[n]]
                       /\ locked[n] /\ n # iter => prev[n] # null
                       /\ locked[n] /\ lockMode[n] = "READ" /\ n # iter =>
                             lockMode[prev[n]] = "WRITE" \/ locked[prev[n]])'
    BY DEF GrantsOK
  <2>1. CASE n \in nodes
    BY <1>0, <1>1, <1>4, <2>1, AddNodeEffect DEF GrantsOK
  <2>2. CASE n = new
    BY <1>1, <1>4, <2>2, AddNodeEffect DEF LockMode
  <2> QED
    BY <2>1, <2>2, AddNodeEffect
<1>6. OnlyLastWaits'
  <2> SUFFICES ASSUME NEW n \in nodes', locked'[n]
               PROVE  call'[txnId(n)] = "spin" /\ n = myLock(txnId(n))'
    BY DEF OnlyLastWaits
  <2>1. CASE n \in nodes
    <3>1. call[txnId(n)] = "spin" /\ n = myLock(txnId(n))
      BY <1>0, <2>1, AddNodeEffect DEF OnlyLastWaits
    <3>2. txnId(n) # t
      BY <3>1 DEF OutsideCall
    <3> QED
      BY <1>2, <1>4, <2>1, <3>1, <3>2, AddNodeChain DEF myLock
  <2>2. CASE n = new
    BY <1>2, <2>2, AddNodeEffect, AddNodeChain DEF myLock
  <2> QED
    BY <2>1, <2>2, AddNodeEffect
<1>7. SpinOK'
  <2>1. lockPerTxn'[t] # <<>>
    BY AddNodeChain
  <2> QED
    BY <1>0, <1>2, <2>1, AddNodeChain DEF SpinOK
<1> QED
  BY <1>3, <1>5, <1>6, <1>7

\* Adding a node keeps the whole invariant.
LEMMA AddReaderInv ==
    ASSUME LTInv, NEW t \in Txn, NEW r \in Record, addReaderLock(t, r)
    PROVE  LTInv'
<1>1. "READ" \in LockMode /\ WriterQueued(r) \in BOOLEAN
  BY DEF LockMode, WriterQueued
<1>2. OutsideCall(t) /\ globalMtx = NoTxn /\ ~checkDeadlock(t, r)
           /\ AddNode(t, r, "READ", WriterQueued(r)) /\ <<t, r>> \notin nodes
  BY FreshNode DEF addReaderLock
<1>3. LTTypeOK'
  BY <1>1, <1>2, AddNodeType DEF LTInv
<1>4. ListsLinked' /\ ListsEnd' /\ DequesChained' /\ WaitForAcyclic'
  BY <1>1, <1>2, AddNodeLists, AddNodeDeques, AddNodeAcyclic
<1>5. MutexOK' /\ GrantsOK' /\ OnlyLastWaits' /\ SpinOK'
  BY <1>1, <1>2, ReaderWaits, AddNodeGrants
<1> QED
  BY <1>3, <1>4, <1>5 DEF LTInv

\* addWriterLock: the new node waits behind the tail, if there is one.
LEMMA AddWriterInv ==
    ASSUME LTInv, NEW t \in Txn, NEW r \in Record, addWriterLock(t, r)
    PROVE  LTInv'
<1>1. "WRITE" \in LockMode /\ (tail[r] # null) \in BOOLEAN
  BY DEF LockMode
<1>2. OutsideCall(t) /\ globalMtx = NoTxn /\ ~checkDeadlock(t, r)
           /\ AddNode(t, r, "WRITE", tail[r] # null) /\ <<t, r>> \notin nodes
  BY FreshNode DEF addWriterLock
<1>3. LTTypeOK'
  BY <1>1, <1>2, AddNodeType DEF LTInv
<1>4. ListsLinked' /\ ListsEnd' /\ DequesChained' /\ WaitForAcyclic'
  BY <1>1, <1>2, AddNodeLists, AddNodeDeques, AddNodeAcyclic
<1>5. MutexOK' /\ GrantsOK' /\ OnlyLastWaits' /\ SpinOK'
  BY <1>1, <1>2, AddNodeGrants
<1> QED
  BY <1>3, <1>4, <1>5 DEF LTInv

-----------------------------------------------------------------------------
(* Removal                                                                 *)

\* The node unlock takes up is a granted one of its transaction, and nothing
\* but granted readers can be in front of it.
LEMMA ReleasedNode ==
    ASSUME LTInv, NEW t \in Txn, NEW n \in nodes, Releasing(t, n)
    PROVE  /\ txnId(n) = t /\ globalMtx = t /\ call[t] = "unlock" /\ iter = null
           /\ ~locked[n]
           /\ prev[n] = null <=> head[recordId(n)] = n
           /\ prev[n] # null => /\ lockMode[n] = "READ"
                                /\ lockMode[prev[n]] = "READ"
                                /\ ~locked[prev[n]]
<1>0. LTTypeOK /\ ListsLinked /\ DequesChained /\ MutexOK /\ GrantsOK /\ OnlyLastWaits
  BY DEF LTInv
<1>1. 1 \in 1..Len(lockPerTxn[t]) /\ lockPerTxn[t][1] = n
  BY <1>0 DEF Releasing, LTTypeOK
<1>2. txnId(n) = t
  BY <1>0, <1>1 DEF DequesChained
<1>3. ~locked[n]
  BY <1>0, <1>2 DEF OnlyLastWaits, Releasing
<1>4. lockMode[n] = "READ" \/ lockMode[n] = "WRITE"
  BY <1>0 DEF LTTypeOK, LockMode
<1> QED
  BY <1>0, <1>2, <1>3, <1>4 DEF MutexOK, Releasing, ListsLinked, GrantsOK

\* The assignments of DeleteNode, for the nodes that remain.
LEMMA DeleteNodeEffect ==
    ASSUME LTInv, NEW t \in Txn, NEW n \in nodes,
           NEW p \in [Node -> Node \cup {null}], NEW q \in [Node -> Node \cup {null}],
           DeleteNode(t, n, p, q)
    PROVE  /\ nodes' = nodes \ {n} /\ null \notin nodes
           /\ \A m \in nodes' : /\ lockMode'[m] = lockMode[m]
                               /\ nextInTxn'[m] = nextInTxn[m]
                               /\ prev'[m] = p[m] /\ next'[m] = q[m]
           /\ \A m \in nodes : /\ m \in Node
                              /\ lockMode[m] \in LockMode /\ locked[m] \in BOOLEAN
                              /\ txnId(m) \in Txn /\ recordId(m) \in Record
           /\ globalMtx' = globalMtx /\ call' = call
           /\ lockPerTxn'[t] = Tail(lockPerTxn[t])
           /\ \A u \in Txn \ {t} : lockPerTxn'[u] = lockPerTxn[u]
<1>1. LTTypeOK
  BY DEF LTInv
<1>2. nodes \subseteq Node /\ null \notin nodes
  BY <1>1, NullAssumption DEF LTTypeOK, Node
<1> QED
  BY <1>1, <1>2, NodeFields DEF LTTypeOK, DeleteNode

\* A transaction that releases its first lock leaves the chain of its others.
LEMMA DeleteNodeDeques ==
    ASSUME LTInv, NEW t \in Txn, NEW n \in nodes, Releasing(t, n),
           NEW p \in [Node -> Node \cup {null}], NEW q \in [Node -> Node \cup {null}],
           DeleteNode(t, n, p, q)
    PROVE  DequesChained'
<1> DEFINE deque == lockPerTxn[t]
<1>0. LTTypeOK /\ DequesChained
  BY DEF LTInv
<1>1. deque \in Seq(Node) /\ deque # <<>> /\ n = deque[1]
  BY <1>0 DEF LTTypeOK, Releasing
<1>2. /\ Len(deque) \in Nat \ {0}
      /\ lockPerTxn'[t] = Tail(deque)
      /\ Len(lockPerTxn'[t]) = Len(deque) - 1
      /\ \A i \in 1..Len(deque) - 1 : lockPerTxn'[t][i] = deque[i + 1]
  <2>1. lockPerTxn'[t] = Tail(deque)
    BY DeleteNodeEffect
  <2> QED
    BY <1>1, <2>1
<1>3. /\ \A i \in 1..Len(lockPerTxn'[t]) : /\ i + 1 \in 1..Len(deque)
                                           /\ lockPerTxn'[t][i] = deque[i + 1]
                                           /\ deque[i + 1] # n
      /\ \A i \in 1..Len(deque) : i # 1 => /\ i - 1 \in 1..Len(lockPerTxn'[t])
                                          /\ lockPerTxn'[t][i - 1] = deque[i]
  <2>1. \A i \in 1..Len(deque) : deque[i] = n => i = 1
    BY <1>0, <1>1, <1>2 DEF DequesChained
  <2> QED
    BY <1>2, <2>1
<1>4. ASSUME NEW u \in Txn, u # t
      PROVE  (/\ \A m \in nodes : txnId(m) = u =>
                    \E i \in 1..Len(lockPerTxn[u]) : lockPerTxn[u][i] = m
              /\ \A i \in 1..Len(lockPerTxn[u]) :
                  /\ lockPerTxn[u][i] \in nodes
                  /\ txnId(lockPerTxn[u][i]) = u
                  /\ \A j \in 1..Len(lockPerTxn[u]) :
                        lockPerTxn[u][i] = lockPerTxn[u][j] => i = j
                  /\ nextInTxn[lockPerTxn[u][i]] =
                        IF i < Len(lockPerTxn[u]) THEN lockPerTxn[u][i + 1] ELSE null)'
  <2>1. lockPerTxn'[u] = lockPerTxn[u] /\ nodes' = nodes \ {n} /\ txnId(n) = t
           /\ \A m \in nodes' : nextInTxn'[m] = nextInTxn[m]
    BY <1>4, DeleteNodeEffect, ReleasedNode
  <2> QED
    BY <1>0, <1>4, <2>1 DEF DequesChained
<1>5. ASSUME NEW m \in nodes', txnId(m) = t
      PROVE  \E i \in 1..Len(lockPerTxn'[t]) : lockPerTxn'[t][i] = m
  <2>1. PICK i \in 1..Len(deque) : deque[i] = m
    BY <1>0, <1>5, DeleteNodeEffect DEF DequesChained
  <2>2. i # 1
    BY <1>1, <2>1, DeleteNodeEffect
  <2> QED
    BY <1>3, <2>1, <2>2
<1>6. ASSUME NEW i \in 1..Len(lockPerTxn'[t])
      PROVE  (/\ lockPerTxn[t][i] \in nodes
              /\ txnId(lockPerTxn[t][i]) = t
              /\ \A j \in 1..Len(lockPerTxn[t]) :
                    lockPerTxn[t][i] = lockPerTxn[t][j] => i = j
              /\ nextInTxn[lockPerTxn[t][i]] =
                    IF i < Len(lockPerTxn[t]) THEN lockPerTxn[t][i + 1] ELSE null)'
  <2>1. /\ deque[i + 1] \in nodes /\ txnId(deque[i + 1]) = t
        /\ \A j \in 1..Len(deque) : deque[i + 1] = deque[j] => i + 1 = j
        /\ nextInTxn[deque[i + 1]] =
              IF i + 1 < Len(deque) THEN deque[(i + 1) + 1] ELSE null
    BY <1>0, <1>3 DEF DequesChained
  <2>2. deque[i + 1] \in nodes'
    BY <1>3, <2>1, DeleteNodeEffect, SMTT(30)
  <2>3. \A j \in 1..Len(lockPerTxn'[t]) : lockPerTxn'[t][i] = lockPerTxn'[t][j] => i = j
    <3> TAKE j \in 1..Len(lockPerTxn'[t])
    <3>1. /\ lockPerTxn'[t][i] = deque[i + 1] /\ lockPerTxn'[t][j] = deque[j + 1]
          /\ j + 1 \in 1..Len(deque) /\ i \in Nat /\ j \in Nat
      BY <1>2, <1>3
    <3>2. deque[i + 1] = deque[j + 1] => i + 1 = j + 1
      BY <2>1, <3>1
    <3> QED
      BY <3>1, <3>2
  <2>4. nextInTxn'[deque[i + 1]] = nextInTxn[deque[i + 1]]
    BY <2>2, DeleteNodeEffect
  <2>5. i + 1 < Len(deque) => /\ i + 1 \in 1..Len(lockPerTxn'[t])
                              /\ lockPerTxn'[t][i + 1] = deque[(i + 1) + 1]
    BY <1>2
  <2>6. i < Len(lockPerTxn'[t]) <=> i + 1 < Len(deque)
    BY <1>2
  <2> QED
    BY <1>3, <2>1, <2>2, <2>3, <2>4, <2>5, <2>6
<1> QED
  BY <1>4, <1>5, <1>6 DEF DequesChained

\* What the three ways of unlinking have in common, for the parts of the
\* invariant that do not look at the lists.
LEMMA ReleaseCommon ==
    ASSUME LTInv, NEW t \in Txn, NEW n \in nodes, Releasing(t, n),
           NEW p \in [Node -> Node \cup {null}], NEW q \in [Node -> Node \cup {null}],
           DeleteNode(t, n, p, q), locked' = locked
    PROVE  DequesChained' /\ OnlyLastWaits' /\ SpinOK'
<1>1. DequesChained'
  BY DeleteNodeDeques
<1>2. OnlyLastWaits'
  <2> SUFFICES ASSUME NEW m \in nodes', locked'[m]
               PROVE  call'[txnId(m)] = "spin" /\ m = myLock(txnId(m))'
    BY DEF OnlyLastWaits
  <2>1. m \in nodes /\ txnId(m) \in Txn /\ call' = call /\ call[t] = "unlock"
    BY DeleteNodeEffect, ReleasedNode
  <2>2. call[txnId(m)] = "spin" /\ m = myLock(txnId(m))
    BY <2>1 DEF LTInv, OnlyLastWaits
  <2>3. lockPerTxn'[txnId(m)] = lockPerTxn[txnId(m)]
    BY <2>1, <2>2, DeleteNodeEffect
  <2> QED
    BY <2>1, <2>2, <2>3 DEF myLock
<1>3. SpinOK'
  <2> SUFFICES ASSUME NEW u \in Txn, call'[u] = "spin" PROVE lockPerTxn'[u] # <<>>
    BY DEF SpinOK
  <2>1. u # t /\ call[u] = "spin"
    BY DeleteNodeEffect, ReleasedNode
  <2> QED
    BY <2>1, DeleteNodeEffect DEF LTInv, SpinOK
<1> QED
  BY <1>1, <1>2, <1>3

\* Releasing the only node of a record empties its list.
LEMMA ReleaseOnlyInv ==
    ASSUME LTInv, NEW t \in Txn, NEW n \in nodes, releaseOnly(t, n), LTTypeOK'
    PROVE  LTInv'
<1>0. /\ LTTypeOK /\ ListsLinked /\ WaitForAcyclic /\ ListsEnd /\ MutexOK /\ GrantsOK
      /\ Releasing(t, n) /\ DeleteNode(t, n, prev, next)
      /\ head[recordId(n)] = n /\ next[n] = null
      /\ locked' = locked /\ iter' = iter
      /\ head' = [head EXCEPT ![recordId(n)] = null]
      /\ tail' = [tail EXCEPT ![recordId(n)] = null]
  BY DEF LTInv, releaseOnly
<1>1. prev \in [Node -> Node \cup {null}] /\ next \in [Node -> Node \cup {null}]
  BY <1>0 DEF LTTypeOK
<1>2. /\ nodes' = nodes \ {n}
      /\ \A m \in nodes' : /\ prev'[m] = prev[m] /\ next'[m] = next[m]
                          /\ lockMode'[m] = lockMode[m]
                          /\ nextInTxn'[m] = nextInTxn[m]
                          /\ prev[m] # n /\ next[m] # n
  <2>1. prev[n] = null
    BY <1>0, ReleasedNode
  <2> QED
    BY <1>0, <1>1, <2>1, DeleteNodeEffect DEF ListsLinked
<1>3. DequesChained' /\ OnlyLastWaits' /\ SpinOK'
  BY <1>0, <1>1, ReleaseCommon
<1>4. ListsLinked'
  <2>1. tail[recordId(n)] = n
    BY <1>0 DEF ListsLinked
  <2>2. /\ head'[recordId(n)] = null /\ tail'[recordId(n)] = null
        /\ \A r \in Record \ {recordId(n)} : head'[r] = head[r] /\ tail'[r] = tail[r]
    BY <1>0, NodeFields DEF LTTypeOK
  <2>3. \A m \in nodes : /\ recordId(m) \in Record
                         /\ prev[m] # null => prev[m] \in nodes
                         /\ next[m] # null => next[m] \in nodes
                         /\ m # n => recordId(m) # recordId(n) \/
                                (prev[m] # null /\ next[m] # null)
    BY <1>0, <1>1, <2>1, DeleteNodeEffect DEF ListsLinked
  <2> QED
    BY <1>0, <1>1, <1>2, <2>1, <2>2, <2>3, DeleteNodeEffect DEF ListsLinked
<1>5. WaitForAcyclic' /\ ListsEnd'
  BY <1>0, <1>2 DEF WaitForAcyclic, ListsEnd
<1>6. MutexOK' /\ GrantsOK'
  <2>1. iter = null /\ call' = call /\ globalMtx' = globalMtx
    BY <1>0, <1>1, ReleasedNode, DeleteNodeEffect
  <2>2. \A m \in nodes' : prev[m] # null => prev[m] \in nodes'
    BY <1>0, <1>2 DEF ListsLinked
  <2> QED
    BY <1>0, <1>2, <2>1, <2>2 DEF MutexOK, GrantsOK
<1> QED
  BY <1>3, <1>4, <1>5, <1>6 DEF LTInv

\* Releasing the first node of a list hands the head to the next one.
LEMMA ReleaseHeadInv ==
    ASSUME LTInv, NEW t \in Txn, NEW n \in nodes, releaseHead(t, n), LTTypeOK'
    PROVE  LTInv'
<1> SUFFICES ASSUME NEW N, N = next[n],
                    NEW p, p = [prev EXCEPT ![N] = null]
             PROVE  LTInv'
  OBVIOUS
<1>0. /\ LTTypeOK /\ ListsLinked /\ WaitForAcyclic /\ ListsEnd /\ MutexOK /\ GrantsOK
      /\ Releasing(t, n) /\ DeleteNode(t, n, p, next)
      /\ head[recordId(n)] = n /\ N # null
      /\ locked' = locked /\ iter' = N /\ tail' = tail
      /\ head' = [head EXCEPT ![recordId(n)] = N]
  BY DEF LTInv, releaseHead
<1>1. N \in nodes /\ recordId(N) = recordId(n) /\ prev[N] = n /\ N # n
  <2>1. N \in nodes /\ recordId(N) = recordId(n) /\ prev[N] = n
    BY <1>0 DEF ListsLinked
  <2>2. prev[n] = null
    BY <1>0, ReleasedNode
  <2> QED
    BY <1>0, <2>1, <2>2, NullAssumption DEF LTTypeOK, Node
<1>2. /\ next \in [Node -> Node \cup {null}]
      /\ p \in [Node -> Node \cup {null}]
      /\ \A m \in nodes : p[m] = IF m = N THEN null ELSE prev[m]
  BY <1>0, <1>1 DEF LTTypeOK
<1>3. /\ nodes' = nodes \ {n} /\ null \notin nodes
      /\ call' = call /\ globalMtx' = globalMtx
      /\ \A m \in nodes' : /\ lockMode'[m] = lockMode[m]
                          /\ nextInTxn'[m] = nextInTxn[m]
                          /\ prev'[m] = p[m] /\ next'[m] = next[m]
      /\ \A m \in nodes : recordId(m) \in Record
  <2>1. DeleteNode(t, n, p, next) /\ next \in [Node -> Node \cup {null}]
           /\ p \in [Node -> Node \cup {null}]
    BY <1>0, <1>2
  <2>2. nodes' = nodes \ {n} /\ null \notin nodes
    BY <2>1, DeleteNodeEffect
  <2>3. call' = call /\ globalMtx' = globalMtx
    BY <2>1, DeleteNodeEffect
  <2>4. \A m \in nodes' : /\ lockMode'[m] = lockMode[m]
                          /\ nextInTxn'[m] = nextInTxn[m]
                          /\ prev'[m] = p[m] /\ next'[m] = next[m]
    BY <1>0, <2>1, <2>2 DEF DeleteNode, LTTypeOK
  <2>5. \A m \in nodes : recordId(m) \in Record
    BY <2>1, DeleteNodeEffect
  <2> QED
    BY <2>2, <2>3, <2>4, <2>5
<1>31. iter = null /\ globalMtx = t /\ prev[n] = null
  BY <1>0, ReleasedNode
<1>32. N \in nodes' /\ \A m \in nodes' : prev'[m] = IF m = N THEN null ELSE prev[m]
  BY <1>1, <1>2, <1>3
<1>33. \A m \in nodes : /\ prev[m] = n => m = N
                        /\ next[m] # n
  BY <1>0, <1>1, <1>3, <1>31 DEF ListsLinked
<1>4. DequesChained' /\ OnlyLastWaits' /\ SpinOK'
  BY <1>0, <1>2, ReleaseCommon
<1>5. ListsLinked'
  <2>1. /\ head'[recordId(n)] = N
        /\ \A r \in Record \ {recordId(n)} : head'[r] = head[r]
    BY <1>0, NodeFields DEF LTTypeOK
  <2>2. tail[recordId(n)] # n
    BY <1>0 DEF ListsLinked
  <2> QED
    BY <1>0, <1>1, <1>3, <1>32, <1>33, <2>1, <2>2 DEF ListsLinked
<1>6. WaitForAcyclic' /\ ListsEnd'
  <2>1. \A S \in SUBSET nodes' : null \notin S /\ S \in SUBSET nodes
    BY <1>3
  <2> QED
    BY <1>0, <1>3, <1>32, <2>1 DEF WaitForAcyclic, ListsEnd
<1>8. MutexOK'
  BY <1>0, <1>3, <1>31, <1>32, NoTxnAssumption DEF MutexOK
<1>9. GrantsOK'
  <2>1. \A m \in nodes' : m # N /\ prev[m] # null => prev[m] \in nodes'
    BY <1>0, <1>3, <1>33 DEF ListsLinked
  <2> QED
    BY <1>0, <1>3, <1>31, <1>32, <2>1 DEF GrantsOK
<1> QED
  BY <1>4, <1>5, <1>6, <1>8, <1>9 DEF LTInv

\* Releasing a reader within a list links its neighbours with each other.
LEMMA ReleaseInnerInv ==
    ASSUME LTInv, NEW t \in Txn, NEW n \in nodes, releaseInner(t, n), LTTypeOK'
    PROVE  LTInv'
<1> SUFFICES ASSUME NEW P, P = prev[n], NEW N, N = next[n],
                    NEW p, p = IF N = null THEN prev ELSE [prev EXCEPT ![N] = P],
                    NEW q, q = [next EXCEPT ![P] = N]
             PROVE  LTInv'
  OBVIOUS
<1>0. /\ LTTypeOK /\ ListsLinked /\ WaitForAcyclic /\ ListsEnd /\ MutexOK /\ GrantsOK
      /\ Releasing(t, n) /\ DeleteNode(t, n, p, q)
      /\ head[recordId(n)] # n
      /\ locked' = locked /\ iter' = iter /\ head' = head
      /\ tail' = IF N = null THEN [tail EXCEPT ![recordId(n)] = P] ELSE tail
  BY DEF LTInv, releaseInner
\* The node has a granted reader in front of it and is one itself.
<1>1. /\ P # null /\ lockMode[n] = "READ" /\ lockMode[P] = "READ"
      /\ ~locked[n] /\ ~locked[P]
      /\ iter = null /\ globalMtx = t
  BY <1>0, ReleasedNode
<1>2. /\ \A m \in nodes : m \in Node /\ m # null /\ recordId(m) \in Record
      /\ P \in nodes /\ recordId(P) = recordId(n) /\ next[P] = n
      /\ N # null => N \in nodes /\ recordId(N) = recordId(n) /\ prev[N] = n
  BY <1>0, <1>1, NodeFields, NullAssumption DEF LTTypeOK, ListsLinked, Node
<1>3. \A m \in nodes : /\ prev[m] = n => m = N
                       /\ next[m] = n => m = P
  BY <1>0, <1>1, <1>2 DEF ListsLinked
\* A node before or after itself would be a cycle.
<1>4. P # n /\ N # n /\ (N # null => P # N)
  <2>1. prev[n] # n
    <3>1. {n} \in SUBSET nodes /\ {n} # {}
      OBVIOUS
    <3> QED
      BY <1>0, <3>1 DEF WaitForAcyclic
  <2>2. next[n] # n
    <3>1. {n} \in SUBSET nodes /\ {n} # {}
      OBVIOUS
    <3> QED
      BY <1>0, <3>1 DEF ListsEnd
  <2>3. N # null => P # N
    <3> SUFFICES ASSUME N # null, P = N PROVE FALSE
      OBVIOUS
    <3>1. {n, N} \in SUBSET nodes /\ {n, N} # {}
      BY <1>2
    <3> QED
      BY <1>0, <1>2, <3>1 DEF WaitForAcyclic
  <2> QED
    BY <2>1, <2>2, <2>3
<1>5. /\ p \in [Node -> Node \cup {null}] /\ q \in [Node -> Node \cup {null}]
      /\ \A m \in nodes : p[m] = IF m = N THEN P ELSE prev[m]
      /\ \A m \in nodes : q[m] = IF m = P THEN N ELSE next[m]
  <2>1. /\ prev \in [Node -> Node \cup {null}] /\ next \in [Node -> Node \cup {null}]
        /\ P \in Node /\ N \in Node \cup {null}
    BY <1>0, <1>2 DEF LTTypeOK
  <2> QED
    BY <1>2, <2>1
<1>6. /\ nodes' = nodes \ {n}
      /\ call' = call /\ globalMtx' = globalMtx
      /\ \A m \in nodes' : lockMode'[m] = lockMode[m] /\ nextInTxn'[m] = nextInTxn[m]
      /\ \A m \in nodes' : prev'[m] = IF m = N THEN P ELSE prev[m]
      /\ \A m \in nodes' : next'[m] = IF m = P THEN N ELSE next[m]
  <2>1. nodes' = nodes \ {n} /\ call' = call /\ globalMtx' = globalMtx
    BY <1>0 DEF DeleteNode
  <2>2. \A m \in nodes' : lockMode'[m] = lockMode[m] /\ nextInTxn'[m] = nextInTxn[m]
    BY <1>0, <1>2, <2>1 DEF DeleteNode, LTTypeOK
  <2>3. \A m \in nodes' : prev'[m] = p[m] /\ next'[m] = q[m]
    BY <1>0, <1>2, <1>5, <2>1 DEF DeleteNode
  <2>4. \A m \in nodes' : m \in nodes
    BY <2>1
  <2> QED
    BY <1>5, <2>1, <2>2, <2>3, <2>4
<1>7. DequesChained' /\ OnlyLastWaits' /\ SpinOK'
  BY <1>0, <1>5, ReleaseCommon
<1>8. ListsLinked'
  <2>1. /\ tail'[recordId(n)] = IF N = null THEN P ELSE tail[recordId(n)]
        /\ \A r \in Record \ {recordId(n)} : tail'[r] = tail[r]
    BY <1>0, <1>2 DEF LTTypeOK
  <2>2. N = null <=> tail[recordId(n)] = n
    BY <1>0 DEF ListsLinked
  <2>3. ASSUME NEW m \in nodes'
        PROVE  (/\ prev[m] # null => /\ prev[m] \in nodes
                                     /\ recordId(prev[m]) = recordId(m)
                                     /\ next[prev[m]] = m
                /\ next[m] # null => /\ next[m] \in nodes
                                     /\ recordId(next[m]) = recordId(m)
                                     /\ prev[next[m]] = m
                /\ prev[m] = null <=> head[recordId(m)] = m
                /\ next[m] = null <=> tail[recordId(m)] = m)'
    <3>1. m \in nodes /\ m # n
      BY <1>6
    <3>2. (/\ prev[m] # null => /\ prev[m] \in nodes
                                /\ recordId(prev[m]) = recordId(m)
                                /\ next[prev[m]] = m
           /\ prev[m] = null <=> head[recordId(m)] = m)'
      BY <1>0, <1>1, <1>2, <1>3, <1>4, <1>6, <3>1 DEF ListsLinked
    <3>3. (next[m] # null => /\ next[m] \in nodes
                             /\ recordId(next[m]) = recordId(m)
                             /\ prev[next[m]] = m)'
      BY <1>0, <1>1, <1>2, <1>3, <1>4, <1>6, <3>1 DEF ListsLinked
    <3>4. (next[m] = null <=> tail[recordId(m)] = m)'
      BY <1>0, <1>2, <1>3, <1>4, <1>6, <2>1, <2>2, <3>1 DEF ListsLinked
    <3> QED
      BY <3>2, <3>3, <3>4
  <2>4. ASSUME NEW r \in Record
        PROVE  (/\ head[r] # null => head[r] \in nodes /\ recordId(head[r]) = r
                /\ tail[r] # null => tail[r] \in nodes /\ recordId(tail[r]) = r
                /\ head[r] = null <=> tail[r] = null)'
    <3>1. head[r] # n /\ (head[r] = null <=> tail[r] = null)
      BY <1>0, <1>2 DEF ListsLinked
    <3>2. tail'[r] # null => tail'[r] \in nodes' /\ recordId(tail'[r]) = r
      BY <1>0, <1>2, <1>4, <1>6, <2>1, <2>2 DEF ListsLinked
    <3>3. tail'[r] = null <=> tail[r] = null
      BY <1>1, <1>2, <2>1, <2>2
    <3> QED
      BY <1>0, <1>6, <3>1, <3>2, <3>3 DEF ListsLinked
  <2> QED
    BY <2>3, <2>4 DEF ListsLinked
<1>9. WaitForAcyclic'
  <2> SUFFICES ASSUME NEW S \in SUBSET nodes', S # {}
               PROVE  \E m \in S : prev'[m] \notin S /\ nextInTxn'[m] \notin S
    BY DEF WaitForAcyclic
  <2>1. S \in SUBSET nodes /\ n \notin S
    BY <1>6
  \* Only an edge of S from the successor to the predecessor is new; before
  \* the step it went by way of n.
  <2>2. CASE N \in S /\ P \in S
    <3>1. S \cup {n} \in SUBSET nodes /\ S \cup {n} # {}
      BY <2>1
    <3>2. PICK m \in S \cup {n} : prev[m] \notin S \cup {n} /\ nextInTxn[m] \notin S \cup {n}
      BY <1>0, <3>1 DEF WaitForAcyclic
    <3>3. m # n /\ m # N
      BY <1>2, <2>1, <2>2, <3>2
    <3> QED
      BY <1>6, <3>2, <3>3
  <2>3. CASE N \notin S \/ P \notin S
    <3>1. PICK m \in S : prev[m] \notin S /\ nextInTxn[m] \notin S
      BY <1>0, <2>1 DEF WaitForAcyclic
    <3> QED
      BY <1>6, <2>3, <3>1
  <2> QED
    BY <2>2, <2>3
<1>10. ListsEnd'
  <2> SUFFICES ASSUME NEW S \in SUBSET nodes', S # {}
               PROVE  \E m \in S : next'[m] \notin S
    BY DEF ListsEnd
  <2>1. S \in SUBSET nodes /\ n \notin S
    BY <1>6
  <2>2. CASE N \in S /\ P \in S
    <3>1. S \cup {n} \in SUBSET nodes /\ S \cup {n} # {}
      BY <2>1
    <3>2. PICK m \in S \cup {n} : next[m] \notin S \cup {n}
      BY <1>0, <3>1 DEF ListsEnd
    <3>3. m # n /\ m # P
      BY <1>2, <2>1, <2>2, <3>2
    <3> QED
      BY <1>6, <3>2, <3>3
  <2>3. CASE N \notin S \/ P \notin S
    <3>1. PICK m \in S : next[m] \notin S
      BY <1>0, <2>1 DEF ListsEnd
    <3> QED
      BY <1>6, <2>3, <3>1
  <2> QED
    BY <2>2, <2>3
<1>11. MutexOK'
  BY <1>0, <1>1, <1>6 DEF MutexOK
<1>12. GrantsOK'
  <2>1. \A m \in nodes : prev[m] # null => prev[m] \in nodes
    BY <1>0 DEF ListsLinked
  \* Behind a granted reader no reader waits.
  <2>2. N # null => ~(locked[N] /\ lockMode[N] = "READ")
    BY <1>0, <1>1, <1>2 DEF GrantsOK
  <2> QED
    BY <1>0, <1>1, <1>2, <1>3, <1>4, <1>6, <2>1, <2>2 DEF GrantsOK
<1> QED
  BY <1>7, <1>8, <1>9, <1>10, <1>11, <1>12 DEF LTInv

-----------------------------------------------------------------------------
(* The wake-up, and the steps that leave the table alone                   *)

\* The wake-up grants the head, and the readers that follow it one by one.
LEMMA WakeNextInv ==
    ASSUME LTInv, NEW t \in Txn, wakeNext(t), LTTypeOK'
    PROVE  LTInv'
<1> SUFFICES ASSUME NEW F, F = next[iter] PROVE LTInv'
  OBVIOUS
<1>0. /\ LTTypeOK /\ ListsLinked /\ DequesChained /\ WaitForAcyclic /\ ListsEnd
      /\ MutexOK /\ GrantsOK /\ OnlyLastWaits /\ SpinOK
      /\ call[t] = "unlock" /\ iter # null
      /\ locked' = [locked EXCEPT ![iter] = FALSE]
      /\ iter' = IF lockMode[iter] = "READ" /\ F # null /\ lockMode[F] = "READ"
                   THEN F ELSE null
      /\ UNCHANGED <<nodes, lockMode, prev, next, nextInTxn, head, tail,
                     lockPerTxn, globalMtx, call>>
  BY DEF LTInv, wakeNext
<1>1. /\ iter \in nodes
      /\ \A n \in nodes : n \in Node /\ n # null /\ (lockMode[n] = "READ" \/ lockMode[n] = "WRITE")
  BY <1>0, NullAssumption DEF MutexOK, LTTypeOK, Node, LockMode
<1>2. \A n \in nodes : locked'[n] <=> locked[n] /\ n # iter
  BY <1>0, <1>1 DEF LTTypeOK
<1>3. /\ ListsLinked' /\ DequesChained' /\ WaitForAcyclic' /\ ListsEnd' /\ SpinOK'
  BY <1>0 DEF ListsLinked, DequesChained, WaitForAcyclic, ListsEnd, SpinOK
<1>4. OnlyLastWaits'
  BY <1>0, <1>2 DEF OnlyLastWaits, myLock
<1>5. /\ \A n \in nodes : prev[n] # null => prev[n] \in nodes /\ next[prev[n]] = n
      /\ F # null => F \in nodes /\ prev[F] = iter
  BY <1>0, <1>1 DEF ListsLinked
<1>6. MutexOK'
  <2>1. globalMtx = t /\ globalMtx # NoTxn
    BY <1>0, NoTxnAssumption DEF MutexOK
  <2>2. iter' # null => /\ iter' = F /\ F \in nodes /\ prev[F] = iter
                        /\ lockMode[F] = "READ" /\ lockMode[iter] = "READ"
    BY <1>0, <1>5
  <2> QED
    BY <1>0, <1>1, <1>2, <2>1, <2>2 DEF MutexOK
<1>7. GrantsOK'
  <2> SUFFICES ASSUME NEW n \in nodes
               PROVE  (/\ ~locked[n] /\ lockMode[n] = "WRITE" => prev[n] = null
                       /\ ~locked[n] /\ lockMode[n] = "READ" /\ prev[n] # null =>
                             lockMode[prev[n]] = "READ" /\ ~locked[prev[n]]
                       /\ locked[n] /\ n # iter => prev[n] # null
                       /\ locked[n] /\ lockMode[n] = "READ" /\ n # iter =>
                             lockMode[prev[n]] = "WRITE" \/ locked[prev[n]])'
    BY <1>0 DEF GrantsOK
  <2>1. /\ prev'[n] = prev[n] /\ lockMode' = lockMode
        /\ prev[n] # null => prev[n] \in nodes
    BY <1>0, <1>5
  <2>2. CASE n = iter
    BY <1>0, <1>1, <1>2, <2>1, <2>2 DEF MutexOK
  <2>3. CASE n # iter /\ prev[n] = iter
    <3>1. n = F
      BY <1>0, <1>5, <2>3
    <3> QED
      BY <1>0, <1>1, <1>2, <2>1, <2>3, <3>1 DEF GrantsOK
  <2>4. CASE n # iter /\ prev[n] # iter
    BY <1>0, <1>1, <1>2, <2>1, <2>4 DEF GrantsOK
  <2> QED
    BY <2>2, <2>3, <2>4
<1> QED
  BY <1>3, <1>4, <1>6, <1>7 DEF LTInv

\* Steps that only move a transaction between the states of a call.
LEMMA CallOnlyInv ==
    ASSUME LTInv, LTTypeOK',
           UNCHANGED <<nodes, lockMode, locked, prev, next, nextInTxn, head, tail,
                       lockPerTxn, iter>>,
           MutexOK', OnlyLastWaits', SpinOK'
    PROVE  LTInv'
BY DEF LTInv, ListsLinked, DequesChained, WaitForAcyclic, ListsEnd, GrantsOK

\* Refusals, and the beginning and end of a call, leave the lists alone.
LEMMA CallStepsInv ==
    ASSUME LTInv, LTTypeOK', NEW t \in Txn,
           \/ \E r \in Record : refuseLock(t, r)
           \/ returnLocked(t) \/ beginUnlock(t) \/ endUnlock(t)
    PROVE  LTInv'
<1>0. LTTypeOK /\ MutexOK /\ OnlyLastWaits /\ SpinOK /\ DequesChained
  BY DEF LTInv
<1>1. \A n \in nodes : txnId(n) \in Txn
  BY <1>0, NodeFields DEF LTTypeOK
<1>2. CASE \E r \in Record : refuseLock(t, r)
  <2>1. MutexOK'
    BY <1>0, <1>2 DEF refuseLock, MutexOK, LTTypeOK, OutsideCall
  <2>2. OnlyLastWaits' /\ SpinOK'
    BY <1>0, <1>1, <1>2 DEF refuseLock, OnlyLastWaits, SpinOK, LTTypeOK, OutsideCall, myLock
  <2> QED
    BY <1>2, <2>1, <2>2, CallOnlyInv DEF refuseLock
<1>3. CASE returnLocked(t)
  <2>1. MutexOK'
    BY <1>0, <1>3 DEF returnLocked, MutexOK, LTTypeOK
  <2>2. OnlyLastWaits' /\ SpinOK'
    BY <1>0, <1>1, <1>3 DEF returnLocked, OnlyLastWaits, SpinOK, LTTypeOK, myLock
  <2> QED
    BY <1>3, <2>1, <2>2, CallOnlyInv DEF returnLocked
<1>4. CASE beginUnlock(t)
  <2>1. MutexOK'
    BY <1>0, <1>4, NoTxnAssumption DEF beginUnlock, MutexOK, LTTypeOK, OutsideCall
  <2>2. OnlyLastWaits' /\ SpinOK'
    BY <1>0, <1>1, <1>4 DEF beginUnlock, OnlyLastWaits, SpinOK, LTTypeOK, OutsideCall, myLock
  <2> QED
    BY <1>4, <2>1, <2>2, CallOnlyInv DEF beginUnlock
<1>5. CASE endUnlock(t)
  <2>1. MutexOK'
    BY <1>0, <1>5, NoTxnAssumption DEF endUnlock, MutexOK, LTTypeOK
  <2>2. OnlyLastWaits' /\ SpinOK'
    BY <1>0, <1>1, <1>5 DEF endUnlock, OnlyLastWaits, SpinOK, LTTypeOK, myLock
  <2> QED
    BY <1>5, <2>1, <2>2, CallOnlyInv DEF endUnlock
<1> QED
  BY <1>2, <1>3, <1>4, <1>5

-----------------------------------------------------------------------------
(* The theorems                                                            *)

\* The empty lock table.
LEMMA LTInvInit == LTInit => LTInv
<1> SUFFICES ASSUME LTInit PROVE LTInv
  OBVIOUS
<1>1. LTTypeOK
  BY DEF LTInit, LTTypeOK, LockMode, CallState
<1>2. MutexOK
  BY NoTxnAssumption DEF LTInit, MutexOK
<1>3. ListsLinked /\ DequesChained
  BY NodeFields DEF LTInit, ListsLinked, DequesChained
<1>4. WaitForAcyclic /\ ListsEnd /\ GrantsOK /\ OnlyLastWaits /\ SpinOK
  BY DEF LTInit, WaitForAcyclic, ListsEnd, GrantsOK, OnlyLastWaits, SpinOK
<1> QED
  BY <1>1, <1>2, <1>3, <1>4 DEF LTInv

\* The invariant of the lock table is inductive, whatever its clients do.
LEMMA LTInvStep == LTInv /\ [LTNext]_ltVars => LTInv'
<1> SUFFICES ASSUME LTInv, [LTNext]_ltVars PROVE LTInv'
  OBVIOUS
<1>1. LTTypeOK'
  BY TypeStep DEF LTInv
<1>2. CASE LTNext
  <2>1. PICK t \in Txn : \/ \E r \in Record : lock(t, r)
                         \/ returnLocked(t)
                         \/ beginUnlock(t)
                         \/ unlockStep(t)
    BY <1>2 DEF LTNext
  <2>2. ASSUME NEW r \in Record, addReaderLock(t, r) PROVE LTInv'
    BY <2>2, AddReaderInv
  <2>3. ASSUME NEW r \in Record, addWriterLock(t, r) PROVE LTInv'
    BY <2>3, AddWriterInv
  <2>4. ASSUME NEW n \in nodes, releaseOnly(t, n) PROVE LTInv'
    BY <1>1, <2>4, ReleaseOnlyInv
  <2>5. ASSUME NEW n \in nodes, releaseHead(t, n) PROVE LTInv'
    BY <1>1, <2>5, ReleaseHeadInv
  <2>6. ASSUME NEW n \in nodes, releaseInner(t, n) PROVE LTInv'
    BY <1>1, <2>6, ReleaseInnerInv
  <2>7. ASSUME wakeNext(t) PROVE LTInv'
    BY <1>1, <2>7, WakeNextInv
  <2>8. ASSUME \/ \E r \in Record : refuseLock(t, r)
               \/ returnLocked(t) \/ beginUnlock(t) \/ endUnlock(t)
        PROVE  LTInv'
    BY <1>1, <2>8, CallStepsInv
  <2> QED
    BY <2>1, <2>2, <2>3, <2>4, <2>5, <2>6, <2>7, <2>8 DEF lock, unlockStep
<1>3. CASE UNCHANGED ltVars
  <2>1. MutexOK' /\ OnlyLastWaits' /\ SpinOK'
    BY <1>3 DEF ltVars, LTInv, MutexOK, OnlyLastWaits, SpinOK, myLock
  <2> QED
    BY <1>1, <1>3, <2>1, CallOnlyInv DEF ltVars
<1> QED
  BY <1>2, <1>3

\* The inductive invariant holds in every reachable state of the lock table.
THEOREM LockTableInvariant == LTSpec => []LTInv
BY LTInvInit, LTInvStep, PTL DEF LTSpec

\* Every variable of the lock table keeps its type.
THEOREM LockTableTypes == LTSpec => []LTTypeOK
<1>1. LTInv => LTTypeOK
  BY DEF LTInv
<1> QED
  BY <1>1, LockTableInvariant, PTL

\* A granted writer is at the head of its list, every other granted node has
\* a granted reader in front of it, and such a chain would have no first node.
LEMMA InvExcludes == LTInv => LockExclusion
<1> SUFFICES ASSUME LTInv, NEW m \in nodes, NEW n \in nodes,
                    m # n, recordId(m) = recordId(n), Granted(m), Granted(n),
                    lockMode[m] = "WRITE"
             PROVE  FALSE
  BY DEF LockExclusion, LTInv, LTTypeOK, LockMode
<1>0. LTTypeOK /\ ListsLinked /\ WaitForAcyclic /\ GrantsOK
  BY DEF LTInv
<1>1. head[recordId(m)] = m
  BY <1>0 DEF ListsLinked, GrantsOK, Granted
<1> DEFINE S == {k \in nodes : recordId(k) = recordId(m) /\ ~locked[k] /\ k # m}
<1>2. S \in SUBSET nodes /\ n \in S
  BY DEF Granted
<1>3. ASSUME NEW k \in S PROVE prev[k] # m /\ prev[k] \in S
  <2>1. prev[k] # null
    BY <1>0, <1>1 DEF ListsLinked
  <2>2. lockMode[k] = "READ"
    BY <1>0, <2>1 DEF GrantsOK, LTTypeOK, LockMode
  <2> QED
    BY <1>0, <2>1, <2>2 DEF ListsLinked, GrantsOK
<1> QED
  BY <1>0, <1>2, <1>3 DEF WaitForAcyclic

\* Two transactions never hold conflicting locks on a record.
THEOREM Exclusion == LTSpec => []LockExclusion
BY LockTableInvariant, InvExcludes, PTL

\* Between two unlocks a node waits only for a reason: no wake-up is lost.
THEOREM WakeupsKept == LTSpec => []NoLostWakeup
<1>1. LTInv => NoLostWakeup
  <2> SUFFICES ASSUME LTInv, globalMtx = NoTxn, NEW n \in nodes, locked[n]
               PROVE  /\ prev[n] # null
                      /\ \/ lockMode[n] = "WRITE"
                         \/ lockMode[prev[n]] = "WRITE"
                         \/ locked[prev[n]]
    BY DEF NoLostWakeup
  <2>1. MutexOK /\ GrantsOK /\ lockMode[n] \in LockMode /\ n # null
    BY NullAssumption DEF LTInv, LTTypeOK, Node
  <2> QED
    BY <2>1 DEF MutexOK, GrantsOK, LockMode
<1> QED
  BY <1>1, LockTableInvariant, PTL

\* Nobody gets a second node for a record.
THEOREM OwnRecord == LTSpec => []OwnRecordRefused
<1>1. LTInv => OwnRecordRefused
  BY FreshNode DEF OwnRecordRefused
<1> QED
  BY <1>1, LockTableInvariant, PTL

-----------------------------------------------------------------------------
(* The lock table never deadlocks                                          *)

\* What is in front of a node is its predecessor and what is in front of that.
LEMMA AheadStep ==
    ASSUME LTInv, NEW m \in nodes, NEW k \in Ahead(m)
    PROVE  prev[m] \in nodes /\ (prev[m] = k \/ k \in Ahead(prev[m]))
<1>0. ListsLinked /\ k \in nodes /\ k # m
  BY DEF LTInv, Ahead
<1>1. prev[m] # null
  <2> SUFFICES ASSUME prev[m] = null PROVE FALSE
    OBVIOUS
  <2>1. {m} \in SUBSET nodes /\ m \in {m} /\ ClosedUnder(prev, {m})
    BY DEF ClosedUnder
  <2> QED
    BY <1>0, <2>1 DEF Ahead
<1>2. prev[m] \in nodes
  BY <1>0, <1>1 DEF ListsLinked
<1>3. ASSUME prev[m] # k, NEW C \in SUBSET nodes, prev[m] \in C, ClosedUnder(prev, C)
      PROVE  k \in C
  <2>1. C \cup {m} \in SUBSET nodes /\ m \in C \cup {m} /\ ClosedUnder(prev, C \cup {m})
    BY <1>3 DEF ClosedUnder
  <2> QED
    BY <1>0, <2>1 DEF Ahead
<1> QED
  BY <1>0, <1>2, <1>3 DEF Ahead

\* The node right before one that is ahead of p is ahead of p, too.
LEMMA AheadTransitive ==
    ASSUME NEW p \in nodes, NEW m \in Ahead(p), prev[m] \in nodes, prev[m] # p,
           null \notin nodes
    PROVE  prev[m] \in Ahead(p)
<1>1. ASSUME NEW C \in SUBSET nodes, p \in C, ClosedUnder(prev, C) PROVE prev[m] \in C
  BY <1>1 DEF Ahead, ClosedUnder
<1> QED
  BY <1>1 DEF Ahead

\* From a set of transactions that wait for one another, collect their nodes
\* and the nodes between: prev or nextInTxn leads from each to another.
LEMMA InvNoDeadlock == LTInv => DeadlockFree
<1> SUFFICES ASSUME LTInv, NEW W \in SUBSET Waiting, W # {},
                    \A t \in W : \E n \in Ahead(myLock(t)) : txnId(n) \in W
             PROVE  FALSE
  BY DEF DeadlockFree
<1>0. LTTypeOK /\ DequesChained /\ WaitForAcyclic /\ SpinOK
  BY DEF LTInv
<1>1. null \notin nodes
  BY <1>0, NullAssumption DEF LTTypeOK, Node
<1>2. ASSUME NEW t \in W
      PROVE  /\ t \in Txn /\ myLock(t) \in nodes /\ txnId(myLock(t)) = t
             /\ \A m \in nodes : txnId(m) = t /\ m # myLock(t) =>
                  nextInTxn[m] \in nodes /\ txnId(nextInTxn[m]) = t
  <2>1. t \in Txn /\ lockPerTxn[t] \in Seq(Node) /\ lockPerTxn[t] # <<>>
    BY <1>0 DEF Waiting, SpinOK, LTTypeOK
  <2>2. Len(lockPerTxn[t]) \in 1..Len(lockPerTxn[t]) /\ Len(lockPerTxn[t]) \in Nat
    BY <2>1
  <2>3. ASSUME NEW m \in nodes, txnId(m) = t, m # myLock(t)
        PROVE  nextInTxn[m] \in nodes /\ txnId(nextInTxn[m]) = t
    <3>1. PICK i \in 1..Len(lockPerTxn[t]) : lockPerTxn[t][i] = m
      BY <1>0, <2>1, <2>3 DEF DequesChained
    <3>2. i < Len(lockPerTxn[t]) /\ i + 1 \in 1..Len(lockPerTxn[t])
      BY <2>2, <2>3, <3>1 DEF myLock
    <3>3. nextInTxn[m] = lockPerTxn[t][i + 1]
      BY <1>0, <2>1, <3>1, <3>2 DEF DequesChained
    <3> QED
      BY <1>0, <2>1, <3>2, <3>3 DEF DequesChained
  <2> QED
    BY <1>0, <2>1, <2>2, <2>3 DEF DequesChained, myLock
<1> DEFINE Held == {m \in nodes : txnId(m) \in W}
           Between == {m \in nodes : \E t \in W : /\ m \in Ahead(myLock(t))
                                                /\ \E k \in Ahead(m) : txnId(k) \in W}
           S == Held \cup Between
<1>3. ASSUME NEW t \in W PROVE prev[myLock(t)] \in S
  <2>1. PICK k \in Ahead(myLock(t)) : txnId(k) \in W
    OBVIOUS
  <2>2. /\ prev[myLock(t)] \in nodes
        /\ prev[myLock(t)] = k \/ k \in Ahead(prev[myLock(t)])
    BY <1>2, AheadStep
  <2>3. prev[myLock(t)] # myLock(t)
    <3>1. {myLock(t)} \in SUBSET nodes /\ {myLock(t)} # {}
      BY <1>2
    <3> QED
      BY <1>0, <3>1 DEF WaitForAcyclic
  <2>4. prev[myLock(t)] \in Ahead(myLock(t))
    BY <1>1, <1>2, <2>2, <2>3 DEF Ahead, ClosedUnder
  <2> QED
    BY <2>1, <2>2, <2>4
<1>4. ASSUME NEW m \in Held PROVE prev[m] \in S \/ nextInTxn[m] \in S
  BY <1>2, <1>3
<1>5. ASSUME NEW m \in Between PROVE prev[m] \in S
  <2>1. PICK t \in W : m \in Ahead(myLock(t)) /\ \E k \in Ahead(m) : txnId(k) \in W
    OBVIOUS
  <2>2. PICK k \in Ahead(m) : txnId(k) \in W
    BY <2>1
  <2>3. prev[m] \in nodes /\ (prev[m] = k \/ k \in Ahead(prev[m]))
    BY AheadStep
  <2>4. CASE prev[m] = myLock(t)
    BY <1>2, <2>3, <2>4
  <2>5. CASE prev[m] # myLock(t)
    <3>1. prev[m] \in Ahead(myLock(t))
      BY <1>1, <1>2, <2>1, <2>3, <2>5, AheadTransitive
    <3> QED
      BY <2>1, <2>2, <2>3, <3>1
  <2> QED
    BY <2>4, <2>5
<1>6. S \in SUBSET nodes /\ S # {}
  BY <1>2
<1> HIDE DEF S, Held, Between
<1>7. PICK m \in S : prev[m] \notin S /\ nextInTxn[m] \notin S
  BY <1>0, <1>6 DEF WaitForAcyclic
<1>8. m \in Held \/ m \in Between
  BY DEF S
<1> QED
  BY <1>4, <1>5, <1>7, <1>8

\* No set of transactions ever waits for one another in a circle.
THEOREM NoDeadlock == LTSpec => []DeadlockFree
BY LockTableInvariant, InvNoDeadlock, PTL

-----------------------------------------------------------------------------
(* The lists are lines: the table implements LockQueues                    *)

\* The relation LockQueues calls inFront.
InFront == UNION {{<<m, n>> : m \in Ahead(n)} : n \in nodes}

\* A pair is in the relation when its first node is ahead of its second.
LEMMA InFrontPairs ==
    /\ \A m, n : <<m, n>> \in InFront <=> n \in nodes /\ m \in Ahead(n)
    /\ \A p \in InFront : p = <<p[1], p[2]>>
BY DEF InFront

\* After a request has joined, all older nodes of its record are in front of
\* it, and nothing has changed in front of them.
LEMMA AheadAfterAdd ==
    ASSUME LTInv, NEW t \in Txn, NEW r \in Record,
           NEW mode \in LockMode, NEW wait \in BOOLEAN,
           <<t, r>> \notin nodes, AddNode(t, r, mode, wait)
    PROVE  /\ \A n \in nodes : Ahead(n)' = Ahead(n)
           /\ Ahead(<<t, r>>)' = {k \in nodes : recordId(k) = r}
<1> DEFINE new == <<t, r>>
<1>0. ListsLinked /\ nodes' = nodes \cup {new} /\ null \notin nodes /\ new # null
  BY AddNodeEffect DEF LTInv
<1>1. \A n \in nodes : /\ prev'[n] = prev[n]
                       /\ prev[n] # null => /\ prev[n] \in nodes
                                            /\ recordId(prev[n]) = recordId(n)
  BY <1>0, AddNodeEffect DEF ListsLinked
<1>2. prev'[new] = tail[r] /\ (tail[r] # null => tail[r] \in nodes /\ recordId(tail[r]) = r)
  BY AddNodeEffect
<1>3. ASSUME NEW C \in SUBSET nodes, ClosedUnder(prev, C)
      PROVE  C \in SUBSET nodes' /\ ClosedUnder(prev', C)
  BY <1>0, <1>1, <1>3 DEF ClosedUnder
<1>4. ASSUME NEW C \in SUBSET nodes', ClosedUnder(prev', C)
      PROVE  C \cap nodes \in SUBSET nodes /\ ClosedUnder(prev, C \cap nodes)
  BY <1>0, <1>1, <1>4 DEF ClosedUnder
<1>5. ASSUME NEW n \in nodes PROVE Ahead(n)' = Ahead(n)
  <2>1. ClosedUnder(prev, nodes)
    BY <1>1 DEF ClosedUnder
  <2>2. ASSUME NEW m \in Ahead(n)' PROVE m \in Ahead(n)
    <3>1. m \in nodes
      BY <1>3, <2>1 DEF Ahead
    <3> QED
      BY <1>3, <3>1 DEF Ahead
  <2>3. ASSUME NEW m \in Ahead(n) PROVE m \in Ahead(n)'
    BY <1>0, <1>4 DEF Ahead
  <2> QED
    BY <2>2, <2>3
<1>6. Ahead(new)' = {k \in nodes : recordId(k) = r}
  <2> DEFINE R == {k \in nodes : recordId(k) = r}
  <2>1. ASSUME NEW m \in Ahead(new)' PROVE m \in R
    <3>1. R \cup {new} \in SUBSET nodes' /\ ClosedUnder(prev', R \cup {new})
      BY <1>0, <1>1, <1>2 DEF ClosedUnder
    <3> QED
      BY <3>1 DEF Ahead
  <2>2. ASSUME NEW m \in R, NEW C \in SUBSET nodes', new \in C, ClosedUnder(prev', C)
        PROVE  m \in C
    <3>1. tail[r] # null => tail[r] \in C \cap nodes
      BY <1>2, <2>2 DEF ClosedUnder
    <3>2. C \cap nodes \in SUBSET nodes /\ ClosedUnder(prev, C \cap nodes)
      BY <1>4, <2>2
    <3> QED
      BY <3>1, <3>2, TailReaches
  <2>3. ASSUME NEW m \in R PROVE m \in Ahead(new)'
    BY <1>0, <2>2 DEF Ahead
  <2> QED
    BY <2>1, <2>3
<1> QED
  BY <1>5, <1>6

\* After a node has been unlinked, the others have the same nodes in front of
\* them as before, save that one.
LEMMA AheadAfterDelete ==
    ASSUME LTInv, NEW n \in nodes, nodes' = nodes \ {n},
           \A m \in nodes' : prev'[m] = IF prev[m] = n THEN prev[n] ELSE prev[m],
           NEW m \in nodes'
    PROVE  Ahead(m)' = Ahead(m) \ {n}
<1>0. /\ ListsLinked /\ WaitForAcyclic /\ null \notin nodes
  BY NullAssumption DEF LTInv, LTTypeOK, Node
<1>1. prev[n] # n
  <2>1. {n} \in SUBSET nodes /\ {n} # {}
    OBVIOUS
  <2> QED
    BY <1>0, <2>1 DEF WaitForAcyclic
<1>2. ASSUME NEW k \in Ahead(m) \ {n}, NEW D \in SUBSET nodes', m \in D, ClosedUnder(prev', D)
      PROVE  k \in D
  <2> DEFINE C == D \cup {j \in {n} : \E i \in D : prev[i] = n}
  <2>1. C \in SUBSET nodes /\ m \in C
    BY <1>2
  <2>2. ASSUME NEW i \in C, prev[i] # null PROVE prev[i] \in C
    BY <1>2, <2>2 DEF ClosedUnder
  <2>3. ClosedUnder(prev, C)
    BY <2>2 DEF ClosedUnder
  <2>4. k \in C
    BY <2>1, <2>3 DEF Ahead
  <2> QED
    BY <2>4
<1>3. ASSUME NEW k \in Ahead(m)', NEW C \in SUBSET nodes, m \in C, ClosedUnder(prev, C)
      PROVE  k \in C
  <2>1. C \ {n} \in SUBSET nodes' /\ m \in C \ {n}
    BY <1>3
  <2>2. ClosedUnder(prev', C \ {n})
    BY <1>0, <1>1, <1>3 DEF ClosedUnder
  <2>3. \A D \in SUBSET nodes' : m \in D /\ ClosedUnder(prev', D) => k \in D
    BY <1>3 DEF Ahead, ClosedUnder
  <2> QED
    BY <2>1, <2>2, <2>3
<1>4. ASSUME NEW k \in Ahead(m) \ {n} PROVE k \in Ahead(m)'
  BY <1>2 DEF Ahead
<1>5. ASSUME NEW k \in Ahead(m)' PROVE k \in Ahead(m) \ {n}
  BY <1>3 DEF Ahead
<1> QED
  BY <1>4, <1>5

\* A request that the table takes in joins the line: it is granted at once
\* when no request in front of it conflicts with it, and only then.
LEMMA AddArrives ==
    ASSUME LTInv, NEW t \in Txn, NEW r \in Record,
           NEW mode \in LockMode, NEW wait \in BOOLEAN,
           <<t, r>> \notin nodes, AddNode(t, r, mode, wait),
           wait <=> \E k \in nodes : recordId(k) = r /\ (lockMode[k] = "WRITE" \/ mode = "WRITE")
    PROVE  Queues!Arrive(<<t, r>>, mode)
<1> DEFINE new == <<t, r>>
<1>0. /\ nodes' = nodes \cup {new} /\ lockMode'[new] = mode /\ locked'[new] = wait
      /\ recordId(new) = r
      /\ \A n \in nodes : lockMode'[n] = lockMode[n] /\ locked'[n] = locked[n]
  BY AddNodeEffect
<1>1. /\ \A n \in nodes : Ahead(n)' = Ahead(n)
      /\ Ahead(new)' = {k \in nodes : recordId(k) = r}
  BY AheadAfterAdd
<1>2. InFront' = InFront \cup {<<k, new>> : k \in {l \in nodes : l[2] = new[2]}}
  <2>1. Ahead(new)' = {l \in nodes : l[2] = new[2]}
    BY <1>0, <1>1 DEF recordId
  <2>2. InFront' = UNION {{<<m, n>> : m \in Ahead(n)'} : n \in nodes \cup {new}}
    BY <1>0 DEF InFront
  <2> QED
    BY <1>1, <2>1, <2>2 DEF InFront
<1>3. [n \in nodes' |-> lockMode'[n]]
        = [k \in nodes' |-> IF k = new THEN mode ELSE [n \in nodes |-> lockMode[n]][k]]
  BY <1>0
<1>4. Queues!Blocked(new)' <=> wait
  <2>1. \A m \in nodes' : <<m, new>> \in InFront' <=> m \in Ahead(new)'
    BY <1>0 DEF InFront
  <2>2. Queues!Blocked(new)'
          <=> \E m \in nodes' : /\ <<m, new>> \in InFront'
                                /\ lockMode'[m] = "WRITE" \/ lockMode'[new] = "WRITE"
    BY <1>0 DEF Queues!Blocked, Queues!Conflict, InFront
  <2> QED
    BY <1>0, <1>1, <2>1, <2>2
<1>5. {n \in nodes' : ~locked'[n]}
        = IF wait THEN {n \in nodes : ~locked[n]} ELSE {n \in nodes : ~locked[n]} \cup {new}
  BY <1>0
<1> QED
  BY <1>0, <1>2, <1>3, <1>4, <1>5 DEF Queues!Arrive, InFront

\* A record's list is empty when no live node is for the record.
LEMMA EmptyList ==
    ASSUME LTInv, NEW r \in Record
    PROVE  tail[r] # null <=> \E k \in nodes : recordId(k) = r
<1>1. {} \in SUBSET nodes /\ ClosedUnder(prev, {})
  BY DEF ClosedUnder
<1>2. tail[r] = null => ~ \E k \in nodes : recordId(k) = r
  BY <1>1, TailReaches
<1> QED
  BY <1>2 DEF LTInv, ListsLinked

\* The search of addReaderLock finds a writer exactly when there is one in the
\* record's list.
LEMMA WriterInLine ==
    ASSUME LTInv, NEW r \in Record
    PROVE  WriterQueued(r) <=> \E k \in nodes : recordId(k) = r /\ lockMode[k] = "WRITE"
<1>0. /\ LTTypeOK /\ ListsLinked /\ null \notin nodes
      /\ \A n \in nodes : lockMode[n] = "READ" \/ lockMode[n] = "WRITE"
  BY NullAssumption DEF LTInv, LTTypeOK, Node, LockMode
<1>1. ASSUME NEW k \in nodes, recordId(k) = r, lockMode[k] = "WRITE"
      PROVE  WriterQueued(r)
  <2>1. tail[r] # null
    BY <1>1, EmptyList
  <2>2. ASSUME NEW C \in SUBSET {n \in nodes : lockMode[n] = "READ"},
               tail[r] \in C, ClosedUnder(prev, C)
        PROVE  FALSE
    BY <1>1, <2>2, TailReaches
  <2> QED
    BY <2>1, <2>2 DEF WriterQueued
<1>2. ASSUME WriterQueued(r)
      PROVE  \E k \in nodes : recordId(k) = r /\ lockMode[k] = "WRITE"
  <2> DEFINE C == {n \in nodes : recordId(n) = r}
  <2>1. ASSUME \A n \in C : lockMode[n] = "READ" PROVE FALSE
    <3>1. C \in SUBSET {n \in nodes : lockMode[n] = "READ"}
      BY <2>1
    <3>2. tail[r] \in C /\ ClosedUnder(prev, C)
      BY <1>0, <1>2 DEF WriterQueued, ListsLinked, ClosedUnder
    <3> QED
      BY <1>2, <3>1, <3>2 DEF WriterQueued
  <2> QED
    BY <1>0, <2>1
<1> QED
  BY <1>1, <1>2 DEF WriterQueued

\* A node that unlock takes out of its list leaves the line.
LEMMA DeleteLeaves ==
    ASSUME LTInv, NEW n \in nodes, ~locked[n], nodes' = nodes \ {n},
           \A m \in nodes' : /\ prev'[m] = IF prev[m] = n THEN prev[n] ELSE prev[m]
                             /\ lockMode'[m] = lockMode[m]
                             /\ locked'[m] = locked[m]
    PROVE  Queues!Leave(n)
<1>1. \A m \in nodes' : Ahead(m)' = Ahead(m) \ {n}
  BY AheadAfterDelete
<1>2. InFront' = {p \in InFront : n \notin {p[1], p[2]}}
  <2>1. \A k, m : <<k, m>> \in InFront' <=> m \in nodes' /\ k \in Ahead(m)'
    BY DEF InFront
  <2>2. \A p \in InFront' : p = <<p[1], p[2]>>
    BY DEF InFront
  <2>3. ASSUME NEW p \in InFront' PROVE p \in InFront /\ n \notin {p[1], p[2]}
    BY <1>1, <2>1, <2>2, InFrontPairs
  <2>4. ASSUME NEW p \in InFront, n \notin {p[1], p[2]} PROVE p \in InFront'
    <3>1. p = <<p[1], p[2]>> /\ p[2] \in nodes' /\ p[1] \in Ahead(p[2])
      BY <2>4, InFrontPairs
    <3>2. p[1] \in Ahead(p[2])'
      BY <1>1, <2>4, <3>1
    <3> QED
      BY <2>1, <3>1, <3>2
  <2> QED
    BY <2>3, <2>4
<1>3. [m \in nodes' |-> lockMode'[m]] = Queues!Restrict([m \in nodes |-> lockMode[m]], nodes')
  BY DEF Queues!Restrict
<1>4. {m \in nodes' : ~locked'[m]} = {m \in nodes : ~locked[m]} \ {n}
  OBVIOUS
<1> QED
  BY <1>2, <1>3, <1>4 DEF Queues!Leave, InFront

\* Each of the three ways to unlink a node repairs the pointer of the node
\* behind it, if there is one, and no other.
LEMMA ReleaseLeaves ==
    ASSUME LTInv, NEW t \in Txn, NEW n \in nodes,
           releaseOnly(t, n) \/ releaseHead(t, n) \/ releaseInner(t, n)
    PROVE  Queues!Leave(n)
<1> DEFINE F == next[n]
<1>0. /\ LTTypeOK /\ n \in Node /\ null \notin nodes
      /\ \A m \in nodes : (prev[m] = n <=> F = m)
      /\ F # null => F \in nodes /\ F \in Node
  <2>1. LTTypeOK /\ ListsLinked /\ n \in Node /\ null \notin nodes
    BY NullAssumption DEF LTInv, LTTypeOK, Node
  <2>2. F # null => F \in nodes /\ prev[F] = n
    BY <2>1 DEF ListsLinked
  <2>3. \A m \in nodes : prev[m] = n => F = m
    BY <2>1 DEF ListsLinked
  <2> QED
    BY <2>1, <2>2, <2>3 DEF LTTypeOK
<1>1. Releasing(t, n)
  BY DEF releaseOnly, releaseHead, releaseInner
<1>2. ~locked[n] /\ (prev[n] = null <=> head[recordId(n)] = n)
  BY <1>1, ReleasedNode
<1> HIDE DEF F
<1>3. CASE releaseOnly(t, n)
  <2>1. F = null /\ DeleteNode(t, n, prev, next) /\ locked' = locked
    BY <1>3 DEF releaseOnly, F
  <2> QED
    BY <1>0, <1>2, <2>1, DeleteLeaves DEF DeleteNode, LTTypeOK
<1>4. CASE releaseHead(t, n)
  <2>1. /\ F # null /\ prev[n] = null /\ locked' = locked
        /\ DeleteNode(t, n, [prev EXCEPT ![F] = null], next)
    BY <1>2, <1>4 DEF releaseHead, F
  <2> QED
    BY <1>0, <1>2, <2>1, DeleteLeaves DEF DeleteNode, LTTypeOK
<1>5. CASE releaseInner(t, n)
  <2>1. /\ locked' = locked
        /\ DeleteNode(t, n, IF F = null THEN prev ELSE [prev EXCEPT ![F] = prev[n]],
                      [next EXCEPT ![prev[n]] = F])
    BY <1>5 DEF releaseInner, F
  <2> QED
    BY <1>0, <1>2, <2>1, DeleteLeaves DEF DeleteNode, LTTypeOK
<1> QED
  BY <1>3, <1>4, <1>5

\* While nodes, modes and links stay, so do the line, its modes and its order.
LEMMA LinesStay ==
    ASSUME UNCHANGED <<nodes, lockMode, prev>>
    PROVE  /\ InFront' = InFront
           /\ [n \in nodes' |-> lockMode'[n]] = [n \in nodes |-> lockMode[n]]
<1>1. \A n : Ahead(n)' = Ahead(n)
  BY DEF Ahead, ClosedUnder
<1> QED
  BY <1>1 DEF InFront

\* The node that the wake-up loop is about to reach is due: it is the head, or
\* a reader with nothing but granted readers in front of it.
LEMMA WakeDue ==
    ASSUME LTInv, iter # null
    PROVE  ~Queues!Blocked(iter)
<1>0. /\ LTTypeOK /\ ListsLinked /\ GrantsOK /\ iter \in nodes /\ null \notin nodes
      /\ prev[iter] # null => /\ lockMode[iter] = "READ"
                              /\ lockMode[prev[iter]] = "READ"
                              /\ ~locked[prev[iter]]
  BY NullAssumption DEF LTInv, MutexOK, LTTypeOK, Node
<1>1. ASSUME NEW m \in Ahead(iter)
      PROVE  lockMode[m] = "READ" /\ lockMode[iter] = "READ"
  <2> DEFINE C == {iter} \cup {k \in nodes : lockMode[k] = "READ" /\ ~locked[k]}
  <2>1. prev[iter] # null
    BY <1>0, AheadStep
  <2>2. C \in SUBSET nodes /\ iter \in C
    BY <1>0
  <2>3. ClosedUnder(prev, C)
    BY <1>0, <2>1 DEF ClosedUnder, ListsLinked, GrantsOK
  <2> QED
    BY <1>0, <2>1, <2>2, <2>3 DEF Ahead
<1>2. \A m : <<m, iter>> \in InFront => m \in nodes /\ m \in Ahead(iter)
  BY InFrontPairs DEF Ahead
<1> QED
  BY <1>0, <1>1, <1>2 DEF Queues!Blocked, Queues!Conflict, InFront

\* A pass of the wake-up loop grants a request that is due, or does nothing.
LEMMA WakeGrants ==
    ASSUME LTInv, NEW t \in Txn, wakeNext(t)
    PROVE  (\E n \in Queues!Request : Queues!Grant(n)) \/ UNCHANGED Queues!qVars
<1> SUFFICES ASSUME NEW k, k = iter
             PROVE  (\E n \in Queues!Request : Queues!Grant(n)) \/ UNCHANGED Queues!qVars
  OBVIOUS
<1>0. k \in Queues!Request
  BY DEF wakeNext, LTInv, MutexOK, LTTypeOK, Node, Queues!Request
<1>1. /\ iter \in nodes /\ iter # null /\ LTTypeOK
      /\ \A n \in nodes : locked'[n] <=> locked[n] /\ n # iter
  BY DEF wakeNext, LTInv, MutexOK, LTTypeOK
<1>2. UNCHANGED <<nodes, lockMode, prev>>
  BY DEF wakeNext
<1>3. InFront' = InFront
      /\ [n \in nodes' |-> lockMode'[n]] = [n \in nodes |-> lockMode[n]]
  BY <1>2, LinesStay
<1>4. {n \in nodes' : ~locked'[n]} = {n \in nodes : ~locked[n]} \cup {iter}
  BY <1>1, <1>2
<1>5. CASE locked[iter]
  <2>1. Queues!Grant(k)
    BY <1>1, <1>2, <1>3, <1>4, <1>5, WakeDue DEF Queues!Grant, InFront
  <2> QED
    BY <1>0, <2>1
<1>6. CASE ~locked[iter]
  BY <1>1, <1>2, <1>3, <1>4, <1>6 DEF Queues!qVars, InFront
<1> QED
  BY <1>5, <1>6

\* Every step of the lock table is one step of the lines, or none.
LEMMA QueuesStep ==
    ASSUME LTInv, [LTNext]_ltVars
    PROVE  [Queues!QNext]_(Queues!qVars)
<1>1. ASSUME UNCHANGED <<nodes, lockMode, locked, prev>> PROVE UNCHANGED Queues!qVars
  BY <1>1, LinesStay DEF Queues!qVars, InFront
<1>2. CASE UNCHANGED ltVars
  BY <1>1, <1>2 DEF ltVars
<1>3. CASE LTNext
  <2>0. PICK t \in Txn : \/ \E r \in Record : lock(t, r)
                         \/ returnLocked(t)
                         \/ beginUnlock(t)
                         \/ unlockStep(t)
    BY <1>3 DEF LTNext
  <2>1. ASSUME NEW r \in Record PROVE <<t, r>> \in Queues!Request
    BY DEF Queues!Request
  <2>2. ASSUME NEW r \in Record, addReaderLock(t, r) PROVE Queues!QNext
    <3>1. /\ <<t, r>> \notin nodes /\ AddNode(t, r, "READ", WriterQueued(r))
          /\ "READ" \in LockMode /\ WriterQueued(r) \in BOOLEAN
      BY <2>2, FreshNode DEF addReaderLock, LockMode, WriterQueued
    <3>2. WriterQueued(r) <=> \E k \in nodes : recordId(k) = r /\ lockMode[k] = "WRITE"
      BY WriterInLine
    <3>3. Queues!Arrive(<<t, r>>, "READ")
      BY <3>1, <3>2, AddArrives
    <3> QED
      BY <2>1, <3>3 DEF Queues!QNext
  <2>3. ASSUME NEW r \in Record, addWriterLock(t, r) PROVE Queues!QNext
    <3>1. /\ <<t, r>> \notin nodes /\ AddNode(t, r, "WRITE", tail[r] # null)
          /\ "WRITE" \in LockMode /\ (tail[r] # null) \in BOOLEAN
      BY <2>3, FreshNode DEF addWriterLock, LockMode
    <3>2. tail[r] # null <=> \E k \in nodes : recordId(k) = r
      BY EmptyList
    <3>3. Queues!Arrive(<<t, r>>, "WRITE")
      BY <3>1, <3>2, AddArrives
    <3> QED
      BY <2>1, <3>3 DEF Queues!QNext
  <2>4. ASSUME NEW n \in nodes, releaseOnly(t, n) \/ releaseHead(t, n) \/ releaseInner(t, n)
        PROVE  Queues!QNext
    <3>1. n \in Queues!Request
      BY DEF LTInv, LTTypeOK, Node, Queues!Request
    <3> QED
      BY <2>4, <3>1, ReleaseLeaves DEF Queues!QNext
  <2>5. ASSUME wakeNext(t) PROVE Queues!QNext \/ UNCHANGED Queues!qVars
    BY <2>5, WakeGrants DEF Queues!QNext
  <2>6. ASSUME \/ \E r \in Record : refuseLock(t, r)
               \/ returnLocked(t) \/ beginUnlock(t) \/ endUnlock(t)
        PROVE  UNCHANGED Queues!qVars
    BY <1>1, <2>6 DEF refuseLock, returnLocked, beginUnlock, endUnlock
  <2> QED
    BY <2>0, <2>2, <2>3, <2>4, <2>5, <2>6 DEF lock, unlockStep
<1> QED
  BY <1>2, <1>3

\* Refinement: whatever the clients do, the table is a set of lines in which a
\* request is granted when nothing in front conflicts with it and not before.
THEOREM TableIsFair == LTSpec => FirstComeFirstServed
<1>1. LTInit => Queues!QInit
  <2> SUFFICES ASSUME LTInit PROVE Queues!QInit
    OBVIOUS
  <2>1. nodes = {} /\ [n \in nodes |-> lockMode[n]] = <<>>
    BY DEF LTInit
  <2> QED
    BY <2>1 DEF Queues!QInit
<1>2. LTInv /\ [LTNext]_ltVars => [Queues!QNext]_(Queues!qVars)
  BY QueuesStep
<1> QED
  BY <1>1, <1>2, LockTableInvariant, PTL DEF LTSpec, FirstComeFirstServed, Queues!QSpec

-----------------------------------------------------------------------------
(* The database is a client of the lock table                              *)

\* A step of a thread is a step of the lock table or leaves the table alone.
LEMMA ThreadStep ==
    ASSUME LTTypeOK, NEW t \in Txn, Thread(t),
           target(t) \in Record \/ pc[t] # "lock"
    PROVE  [LTNext]_ltVars
<1>1. CASE CallLock(t)
  BY <1>1 DEF CallLock, LTNext, lock
<1>2. CASE LockRefused(t)
  BY <1>2 DEF LockRefused, LTNext, lock
<1>3. CASE CallUnlock(t)
  BY <1>3 DEF CallUnlock, LTNext
<1>4. CASE LockAcquired(t)
  BY <1>4 DEF LockAcquired, LTNext
<1>5. CASE Unlocking(t) \/ Unlocked(t)
  BY <1>5 DEF Unlocking, Unlocked, LTNext, unlockStep
<1>6. CASE \/ Choose(t) \/ Read(t) \/ AddLoad(t) \/ AddStore(t)
           \/ GetCommitId(t) \/ FlushLog(t) \/ Undo(t) \/ StashLog(t)
  BY <1>6 DEF Choose, Read, AddLoad, AddStore, GetCommitId, FlushLog, Undo, StashLog
<1> QED
  BY <1>1, <1>2, <1>3, <1>4, <1>5, <1>6 DEF Thread, AcquiringMutex, Running

\* A thread that is not at the beginning or at the end has its three records.
ArgsOK ==
    /\ args \in [Txn -> Arguments \cup {<<>>}]
    /\ op \in [Txn -> 1..3]
    /\ pc \in [Txn -> PCState]
    /\ commitId \in [Txn -> Nat]
    /\ executionOrder \in Nat
    /\ \A t \in Txn : pc[t] \notin {"begin", "done"} => args[t] \in Arguments

\* At the beginning: see ArgsOK.
LEMMA ArgsInit == DBInit => ArgsOK
BY DEF DBInit, ArgsOK, PCState

\* Only Choose draws arguments, and only GetCommitId a commit id.
LEMMA ArgsStep ==
    ASSUME ArgsOK, [DBNext]_dbVars
    PROVE  ArgsOK'
<1>1. ASSUME NEW t \in Txn, Thread(t) PROVE ArgsOK'
  <2>1. CASE Choose(t)
    BY <2>1 DEF Choose, goto, ArgsOK, PCState, dataVars
  <2>2. CASE CallLock(t) \/ LockRefused(t) \/ LockAcquired(t) \/ CallUnlock(t) \/ Unlocking(t)
    BY <2>2 DEF CallLock, LockRefused, LockAcquired, CallUnlock, Unlocking, goto, ArgsOK,
                PCState, localVars, dataVars
  <2>3. CASE Read(t)
    BY <2>3 DEF Read, Logged, goto, ArgsOK, PCState
  <2>4. CASE AddLoad(t)
    BY <2>4 DEF AddLoad, goto, ArgsOK, PCState, dataVars
  <2>5. CASE AddStore(t)
    BY <2>5 DEF AddStore, Logged, goto, ArgsOK, PCState
  <2>6. CASE GetCommitId(t)
    BY <2>6 DEF GetCommitId, goto, ArgsOK, PCState
  <2>7. CASE FlushLog(t) \/ Undo(t) \/ StashLog(t)
    BY <2>7 DEF FlushLog, Undo, StashLog, goto, ArgsOK, PCState, localVars
  <2>8. CASE Unlocked(t)
    <3>1. ASSUME commitId[t] = 0 PROVE ArgsOK'
      BY <2>8, <3>1 DEF Unlocked, goto, ArgsOK, PCState, dataVars
    <3>2. ASSUME commitId[t] # 0 PROVE ArgsOK'
      <4>1. pc' = [pc EXCEPT ![t] = IF commitId[t] \in 1..MaxExecution THEN "begin" ELSE "done"]
        BY <2>8, <3>2 DEF Unlocked, goto
      <4> QED
        BY <2>8, <3>2, <4>1 DEF Unlocked, ArgsOK, PCState, dataVars
    <3> QED
      BY <3>1, <3>2
  <2> QED
    BY <1>1, <2>1, <2>2, <2>3, <2>4, <2>5, <2>6, <2>7, <2>8 DEF Thread, AcquiringMutex, Running
<1>2. ASSUME UNCHANGED dbVars PROVE ArgsOK'
  BY <1>2 DEF dbVars, dataVars, localVars, ArgsOK
<1> QED
  BY <1>1, <1>2 DEF DBNext, Joined

\* The record that a thread is about to lock, read or write exists.
LEMMA TargetRecord ==
    ASSUME ArgsOK, NEW t \in Txn, args[t] \in Arguments
    PROVE  target(t) \in Record
BY DEF ArgsOK, target, Arguments

\* The program uses the lock table as the lock table may be used.
THEOREM DatabaseUsesLockTable == DBSpec => LTSpec /\ []ArgsOK
<1>1. DBInit => LTInit /\ LTInv /\ ArgsOK
  BY ArgsInit, LTInvInit DEF DBInit
<1>2. ASSUME LTInv, ArgsOK, [DBNext]_dbVars PROVE [LTNext]_ltVars
  <2>1. ASSUME NEW t \in Txn, Thread(t) PROVE [LTNext]_ltVars
    <3>1. pc[t] = "lock" => target(t) \in Record
      BY <1>2, TargetRecord DEF ArgsOK
    <3> QED
      BY <1>2, <2>1, <3>1, ThreadStep DEF LTInv
  <2>2. ASSUME UNCHANGED dbVars PROVE [LTNext]_ltVars
    BY <2>2 DEF dbVars
  <2> QED
    BY <1>2, <2>1, <2>2 DEF DBNext, Joined
<1>3. LTInv /\ ArgsOK /\ [DBNext]_dbVars => LTInv' /\ ArgsOK' /\ [LTNext]_ltVars
  BY <1>2, ArgsStep, LTInvStep
<1> QED
  BY <1>1, <1>3, PTL DEF DBSpec, LTSpec

\* No two threads hold conflicting locks on a record, and no set of threads
\* waits for one another, whatever the transactions and their number.
THEOREM DatabaseLocks == DBSpec => [](LockExclusion /\ DeadlockFree)
<1>1. LTInv => LockExclusion /\ DeadlockFree
  BY InvExcludes, InvNoDeadlock
<1> QED
  BY <1>1, DatabaseUsesLockTable, LockTableInvariant, PTL

-----------------------------------------------------------------------------
(* What ties a thread to its locks, its log and the records                *)

\* Where thread t is in transaction() says how many records it has asked for,
\* how many it has logged, where it is in the lock table and which commit id
\* it has.
ControlOK(t) ==
    /\ pc[t] \in {"begin", "done"} =>
          /\ Len(lockPerTxn[t]) = 0 /\ Len(log[t]) = 0
          /\ op[t] = 1 /\ commitId[t] = 0 /\ call[t] = "idle"
    /\ pc[t] = "done" => executionOrder > MaxExecution
    /\ pc[t] = "lock" =>
          /\ Len(lockPerTxn[t]) = op[t] - 1 /\ Len(log[t]) = op[t] - 1
          /\ commitId[t] = 0 /\ call[t] = "idle"
    /\ pc[t] \in {"wait", "access", "store"} =>
          /\ Len(lockPerTxn[t]) = op[t] /\ Len(log[t]) = op[t] - 1
          /\ commitId[t] = 0
          /\ call[t] = IF pc[t] = "wait" THEN "spin" ELSE "idle"
    /\ pc[t] = "store" => op[t] # 1 /\ before[t] = records[target(t)]
    /\ pc[t] \in {"commit", "flush"} =>
          /\ Len(lockPerTxn[t]) = 3 /\ Len(log[t]) = 3 /\ op[t] = 3
          /\ call[t] = "idle"
    /\ pc[t] = "commit" => commitId[t] = 0
    /\ pc[t] = "flush" => commitId[t] \in 1..MaxExecution
    /\ pc[t] = "undo" =>
          /\ Len(lockPerTxn[t]) = Len(log[t]) /\ OutsideCall(t)
          /\ commitId[t] = 0 \/ commitId[t] > MaxExecution
    /\ pc[t] = "unlock" => Len(log[t]) = 0
    /\ undone[t] <= Len(log[t])
    /\ pc[t] # "undo" => undone[t] = 0
    /\ Len(log[t]) <= 3
    /\ commitId[t] <= executionOrder

\* Until it unlocks, a thread's deque has its records in the order of its
\* operations; all but the first are for writing.
DequeOK(t) ==
    \A e \in 1..Len(lockPerTxn[t]) :
        /\ pc[t] # "unlock" =>
              /\ lockPerTxn[t][e] = <<t, args[t][e]>>
              /\ e = 1 => lockMode[lockPerTxn[t][e]] = "READ"
        /\ e # 1 => lockMode[lockPerTxn[t][e]] = "WRITE"

\* The log says what the operations did, and the records hold what the log
\* says: the after values, or the before values of what abort has put back.
EntriesOK(t) ==
    \A e \in 1..Len(log[t]) :
        /\ log[t][e].record = args[t][e]
        /\ e = 1 => log[t][e].before = record[t] /\ log[t][e].after = record[t]
        /\ e = 2 => log[t][e].after = Wrap(log[t][e].before + (record[t] + 1))
        /\ e = 3 => log[t][e].after = Wrap(log[t][e].before + (- record[t]))
        /\ records[args[t][e]] = IF e <= undone[t] THEN log[t][e].before ELSE log[t][e].after

ThreadOK(t) == ControlOK(t) /\ DequeOK(t) /\ EntriesOK(t)

\* The types that DBTypeOK leaves open.
Line == [id : 1..MaxExecution, entries : Seq(Record \X Value)]

DataTypeOK ==
    /\ records \in [Record -> Value]
    /\ log \in [Txn -> Seq(LogEntry)]
    /\ files \in [Txn -> Seq(Line)]
    /\ record \in [Txn -> Value]
    /\ before \in [Txn -> Value]
    /\ undone \in [Txn -> Nat]

DBInv ==
    /\ LTInv
    /\ ArgsOK
    /\ DataTypeOK
    /\ \A t \in Txn : ThreadOK(t)

\* No thread's work on its own variables touches those of another.
LEMMA OthersKept ==
    ASSUME LTInv, ArgsOK, DataTypeOK, NEW t \in Txn, Thread(t), NEW u \in Txn, u # t
    PROVE  /\ pc'[u] = pc[u] /\ args'[u] = args[u] /\ op'[u] = op[u]
           /\ record'[u] = record[u] /\ before'[u] = before[u] /\ undone'[u] = undone[u]
           /\ commitId'[u] = commitId[u] /\ log'[u] = log[u] /\ files'[u] = files[u]
<1>1. CASE Choose(t) \/ CallLock(t) \/ LockRefused(t) \/ LockAcquired(t)
  BY <1>1 DEF Choose, CallLock, LockRefused, LockAcquired, goto, dataVars, localVars, ArgsOK
<1>2. CASE Read(t) \/ AddLoad(t) \/ AddStore(t)
  BY <1>2 DEF Read, AddLoad, AddStore, Logged, goto, dataVars, ArgsOK, DataTypeOK
<1>3. CASE GetCommitId(t) \/ FlushLog(t) \/ Undo(t) \/ StashLog(t)
  BY <1>3 DEF GetCommitId, FlushLog, Undo, StashLog, goto, localVars, ArgsOK, DataTypeOK
<1>4. CASE CallUnlock(t) \/ Unlocking(t)
  BY <1>4 DEF CallUnlock, Unlocking, dataVars, localVars
<1>5. CASE Unlocked(t)
  BY <1>5 DEF Unlocked, goto, dataVars, ArgsOK, DataTypeOK
<1> QED
  BY <1>1, <1>2, <1>3, <1>4, <1>5 DEF Thread, AcquiringMutex, Running

\* lock() that does not refuse: the new node joins its transaction's deque.
LEMMA LockEffect ==
    ASSUME LTInv, NEW t \in Txn, NEW r \in Record,
           addReaderLock(t, r) \/ addWriterLock(t, r)
    PROVE  /\ lockPerTxn' = [lockPerTxn EXCEPT ![t] = Append(@, <<t, r>>)]
           /\ call' = [call EXCEPT ![t] = "spin"]
           /\ <<t, r>> \notin nodes
           /\ \A n \in nodes : lockMode'[n] = lockMode[n]
           /\ addReaderLock(t, r) => lockMode'[<<t, r>>] = "READ"
           /\ addWriterLock(t, r) => lockMode'[<<t, r>>] = "WRITE"
<1>1. ~checkDeadlock(t, r) /\ <<t, r>> \notin nodes
  BY FreshNode DEF addReaderLock, addWriterLock
<1>2. <<t, r>> \in Node /\ lockMode \in [Node -> LockMode] /\ lockPerTxn \in [Txn -> Seq(Node)]
  BY DEF Node, LTInv, LTTypeOK
<1>3. nodes \subseteq Node
  BY DEF LTInv, LTTypeOK
<1> QED
  BY <1>1, <1>2, <1>3 DEF addReaderLock, addWriterLock, AddNode

\* One pass of unlock: the first node leaves the deque.
LEMMA ReleaseEffect ==
    ASSUME LTInv, NEW t \in Txn, NEW n \in nodes,
           releaseOnly(t, n) \/ releaseHead(t, n) \/ releaseInner(t, n)
    PROVE  /\ lockPerTxn[t] # <<>> /\ n = lockPerTxn[t][1] /\ txnId(n) = t
           /\ lockPerTxn' = [lockPerTxn EXCEPT ![t] = Tail(@)]
           /\ call' = call /\ call[t] = "unlock"
           /\ \A m \in nodes : m # n => lockMode'[m] = lockMode[m]
<1>1. Releasing(t, n) /\ \E p, q : DeleteNode(t, n, p, q)
  BY DEF releaseOnly, releaseHead, releaseInner
<1>2. LTTypeOK
  BY DEF LTInv
<1>3. n = lockPerTxn[t][1] /\ lockPerTxn[t] # <<>>
  BY <1>1, <1>2 DEF Releasing, LTTypeOK
<1> QED
  BY <1>1, <1>2, <1>3, ReleasedNode DEF DeleteNode, LTTypeOK, Releasing

\* The nodes in a deque are live and its transaction's own.
LEMMA DequeNodes ==
    ASSUME LTInv, NEW t \in Txn, NEW e \in 1..Len(lockPerTxn[t])
    PROVE  lockPerTxn[t][e] \in nodes /\ txnId(lockPerTxn[t][e]) = t
BY DEF LTInv, DequesChained

\* A thread's steps leave the deques of the others alone, and the modes of
\* the nodes in them.
LEMMA OthersLocks ==
    ASSUME LTInv, ArgsOK, NEW t \in Txn, Thread(t), NEW u \in Txn, u # t
    PROVE  /\ lockPerTxn'[u] = lockPerTxn[u]
           /\ call'[u] = call[u]
           /\ \A e \in 1..Len(lockPerTxn[u]) :
                 lockMode'[lockPerTxn[u][e]] = lockMode[lockPerTxn[u][e]]
<1>0. LTTypeOK
  BY DEF LTInv
<1>1. CASE CallLock(t)
  <2>1. target(t) \in Record
    BY <1>1, TargetRecord DEF ArgsOK, CallLock
  <2>2. addReaderLock(t, target(t)) \/ addWriterLock(t, target(t))
    BY <1>1 DEF CallLock
  <2>3. \A e \in 1..Len(lockPerTxn[u]) : lockPerTxn[u][e] \in nodes
    BY DequeNodes
  <2>4. /\ lockPerTxn' = [lockPerTxn EXCEPT ![t] = Append(@, <<t, target(t)>>)]
        /\ call' = [call EXCEPT ![t] = "spin"]
        /\ \A n \in nodes : lockMode'[n] = lockMode[n]
    BY <2>1, <2>2, LockEffect
  <2> QED
    BY <1>0, <2>3, <2>4 DEF LTTypeOK
<1>2. ASSUME NEW n \in nodes, releaseOnly(t, n) \/ releaseHead(t, n) \/ releaseInner(t, n)
      PROVE  /\ lockPerTxn'[u] = lockPerTxn[u]
             /\ call'[u] = call[u]
             /\ \A e \in 1..Len(lockPerTxn[u]) :
                   lockMode'[lockPerTxn[u][e]] = lockMode[lockPerTxn[u][e]]
  <2>1. \A e \in 1..Len(lockPerTxn[u]) : lockPerTxn[u][e] \in nodes /\ txnId(lockPerTxn[u][e]) = u
    BY DequeNodes
  <2>2. /\ txnId(n) = t
        /\ lockPerTxn' = [lockPerTxn EXCEPT ![t] = Tail(@)]
        /\ call' = call
        /\ \A m \in nodes : m # n => lockMode'[m] = lockMode[m]
    BY <1>2, ReleaseEffect
  <2> QED
    BY <1>0, <2>1, <2>2 DEF LTTypeOK
<1>3. CASE LockRefused(t) \/ LockAcquired(t) \/ CallUnlock(t) \/ Unlocked(t)
  BY <1>0, <1>3 DEF LockRefused, LockAcquired, CallUnlock, Unlocked, refuseLock, returnLocked,
                    beginUnlock, endUnlock, LTTypeOK
<1>4. CASE Unlocking(t)
  BY <1>2, <1>4 DEF Unlocking, wakeNext
<1>5. CASE \/ Choose(t) \/ Read(t) \/ AddLoad(t) \/ AddStore(t)
           \/ GetCommitId(t) \/ FlushLog(t) \/ Undo(t) \/ StashLog(t)
  BY <1>5 DEF Choose, Read, AddLoad, AddStore, GetCommitId, FlushLog, Undo, StashLog, ltVars
<1> QED
  BY <1>1, <1>3, <1>4, <1>5 DEF Thread, AcquiringMutex, Running

\* Until it unlocks, a thread holds the locks in its deque, but for the one
\* that it waits for.
LEMMA HeldNode ==
    ASSUME DBInv, NEW t \in Txn, pc[t] # "unlock", NEW e \in 1..Len(lockPerTxn[t]),
           pc[t] # "wait" \/ e < Len(lockPerTxn[t])
    PROVE  /\ Granted(<<t, args[t][e]>>)
           /\ e # 1 => lockMode[<<t, args[t][e]>>] = "WRITE"
<1>0. LTTypeOK /\ DequesChained /\ OnlyLastWaits /\ ControlOK(t) /\ DequeOK(t) /\ pc[t] \in PCState
  BY DEF DBInv, LTInv, ThreadOK, ArgsOK
<1>1. lockPerTxn[t][e] = <<t, args[t][e]>> /\ (e # 1 => lockMode[lockPerTxn[t][e]] = "WRITE")
  BY <1>0 DEF DequeOK
<1>2. lockPerTxn[t] \in Seq(Node) /\ Len(lockPerTxn[t]) \in 1..Len(lockPerTxn[t])
  BY <1>0 DEF LTTypeOK
<1>3. lockPerTxn[t][e] \in nodes /\ txnId(lockPerTxn[t][e]) = t
  BY DequeNodes DEF DBInv
<1>4. ASSUME locked[lockPerTxn[t][e]] PROVE FALSE
  <2>1. call[t] = "spin" /\ lockPerTxn[t][e] = lockPerTxn[t][Len(lockPerTxn[t])]
    BY <1>0, <1>3, <1>4 DEF OnlyLastWaits, myLock
  <2>2. e = Len(lockPerTxn[t])
    BY <1>0, <1>2, <2>1 DEF DequesChained
  <2>3. pc[t] = "wait"
    BY <1>0, <1>2, <2>1 DEF ControlOK, OutsideCall, PCState
  <2> QED
    BY <1>2, <2>2, <2>3
<1> QED
  BY <1>1, <1>3, <1>4 DEF Granted

\* Two threads that hold the same record hold it as the first of their three.
LEMMA BothRead ==
    ASSUME DBInv, NEW t \in Txn, NEW u \in Txn, t # u,
           pc[t] # "unlock", NEW e \in 1..Len(lockPerTxn[t]),
           pc[t] # "wait" \/ e < Len(lockPerTxn[t]),
           pc[u] # "unlock", NEW f \in 1..Len(lockPerTxn[u]),
           pc[u] # "wait" \/ f < Len(lockPerTxn[u]),
           args[t][e] = args[u][f]
    PROVE  e = 1 /\ f = 1
<1>1. LockExclusion
  BY InvExcludes DEF DBInv
<1>2. /\ Granted(<<t, args[t][e]>>) /\ (e # 1 => lockMode[<<t, args[t][e]>>] = "WRITE")
      /\ Granted(<<u, args[u][f]>>) /\ (f # 1 => lockMode[<<u, args[u][f]>>] = "WRITE")
  BY HeldNode
<1>3. lockMode[<<t, args[t][e]>>] = "READ" /\ lockMode[<<u, args[u][f]>>] = "READ"
  BY <1>1, <1>2 DEF LockExclusion, Granted, recordId
<1> QED
  BY <1>2, <1>3

\* What a thread has logged it holds.
LEMMA LoggedHeld ==
    ASSUME DBInv, NEW t \in Txn, NEW e \in 1..Len(log[t])
    PROVE  /\ pc[t] # "unlock" /\ e \in 1..Len(lockPerTxn[t])
           /\ pc[t] # "wait" \/ e < Len(lockPerTxn[t])
           /\ e \in 1..3 /\ args[t] \in Arguments
<1>1. ControlOK(t) /\ pc[t] \in PCState /\ op[t] \in 1..3 /\ log[t] \in Seq(LogEntry)
  BY DEF DBInv, ThreadOK, ArgsOK, DataTypeOK
<1>2. Len(log[t]) \in Nat /\ Len(log[t]) # 0
  BY <1>1
<1>3. pc[t] \notin {"begin", "done", "unlock"}
  BY <1>1, <1>2 DEF ControlOK
<1> QED
  BY <1>1, <1>2, <1>3 DEF ControlOK, PCState, DBInv, ArgsOK

\* A thread that works on a record holds it.
LEMMA TargetHeld ==
    ASSUME DBInv, NEW t \in Txn, pc[t] \in {"access", "store"}
    PROVE  op[t] \in 1..Len(lockPerTxn[t]) /\ pc[t] # "unlock" /\ pc[t] # "wait"
<1> QED
  BY SMTT(30) DEF DBInv, ThreadOK, ControlOK, ArgsOK

\* abort puts a record back that only its thread holds, or one that has the
\* value already.
LEMMA UndoneRecord ==
    ASSUME DBInv, NEW t \in Txn, pc[t] = "undo", undone[t] < Len(log[t])
    PROVE  /\ undone[t] + 1 \in 1..Len(log[t])
           /\ log[t][undone[t] + 1].record = args[t][undone[t] + 1]
           /\ undone[t] = 0 => log[t][1].before = records[args[t][1]]
<1>1. log[t] \in Seq(LogEntry) /\ undone[t] \in Nat /\ EntriesOK(t)
  BY DEF DBInv, DataTypeOK, ThreadOK
<1>2. undone[t] + 1 \in 1..Len(log[t])
  BY <1>1
<1> QED
  BY <1>1, <1>2 DEF EntriesOK

\* The records that a thread has logged, or is about to store into, are not
\* changed by others.
LEMMA OthersRecords ==
    ASSUME DBInv, NEW t \in Txn, Thread(t), NEW u \in Txn, u # t,
           pc[u] # "unlock", NEW f \in 1..Len(lockPerTxn[u]),
           pc[u] # "wait" \/ f < Len(lockPerTxn[u])
    PROVE  records'[args[u][f]] = records[args[u][f]]
<1>0. records \in [Record -> Value]
  BY DEF DBInv, DataTypeOK
<1>1. CASE AddStore(t)
  <2>1. pc[t] = "store" /\ op[t] # 1
    BY <1>1 DEF AddStore, DBInv, ThreadOK, ControlOK
  <2>2. op[t] \in 1..Len(lockPerTxn[t])
    BY <2>1, TargetHeld
  <2>3. args[t][op[t]] # args[u][f]
    BY <2>1, <2>2, BothRead
  <2> QED
    BY <1>0, <1>1, <2>3 DEF AddStore, target
<1>2. CASE Undo(t)
  <2> DEFINE e == undone[t] + 1
  <2>1. pc[t] = "undo" /\ undone[t] < Len(log[t])
    BY <1>2 DEF Undo
  <2>2. e \in 1..Len(log[t]) /\ log[t][e].record = args[t][e]
    BY <2>1, UndoneRecord
  <2>3. e \in 1..Len(lockPerTxn[t])
    BY <2>2, LoggedHeld
  <2>4. args[t][e] = args[u][f] => e = 1
    BY <2>1, <2>3, BothRead
  <2>5. records' = [records EXCEPT ![args[t][e]] = log[t][e].before]
    BY <1>2, <2>2 DEF Undo
  <2>6. undone[t] \in Nat
    BY DEF DBInv, DataTypeOK
  <2>7. undone[t] = 0 => log[t][1].before = records[args[t][1]]
    BY <2>1, UndoneRecord
  <2>9. ASSUME args[t][e] = args[u][f] PROVE records'[args[u][f]] = records[args[u][f]]
    <3>1. undone[t] = 0 /\ e = 1
      BY <2>4, <2>6, <2>9
    <3>2. log[t][e].before = records[args[t][e]]
      BY <2>7, <3>1
    <3> HIDE DEF e
    <3> QED
      BY <1>0, <2>5, <2>9, <3>2
  <2>8. ASSUME args[t][e] # args[u][f] PROVE records'[args[u][f]] = records[args[u][f]]
    <3> HIDE DEF e
    <3> QED
      BY <1>0, <2>5, <2>8
  <2> QED
    BY <2>8, <2>9
<1>3. CASE ~AddStore(t) /\ ~Undo(t)
  BY <1>3 DEF Thread, AcquiringMutex, Running, Choose, CallLock, LockRefused, LockAcquired, Read,
              AddLoad, GetCommitId, FlushLog, StashLog, CallUnlock, Unlocking, Unlocked, dataVars
<1> QED
  BY <1>1, <1>2, <1>3

\* Arithmetic of the records: every sum is brought back to a value.
LEMMA WrapValue == \A v \in Int : Wrap(v) \in Value
BY ModulusAssumption DEF Wrap, Value

\* Values are numbers.
LEMMA ValueInt == Value \subseteq Int /\ Value \subseteq Nat
BY ModulusAssumption DEF Value

\* addLog keeps the logs well-formed.
LEMMA LoggedType ==
    ASSUME DataTypeOK, NEW t \in Txn, NEW r \in Record, NEW v \in Value, NEW w \in Value,
           Logged(t, r, v, w)
    PROVE  /\ log' \in [Txn -> Seq(LogEntry)]
           /\ log'[t] = Append(log[t], [record |-> r, before |-> v, after |-> w])
           /\ Len(log'[t]) = Len(log[t]) + 1
           /\ \A e \in 1..Len(log[t]) : log'[t][e] = log[t][e]
           /\ log'[t][Len(log[t]) + 1] = [record |-> r, before |-> v, after |-> w]
<1>1. [record |-> r, before |-> v, after |-> w] \in LogEntry
  BY DEF LogEntry
<1> QED
  BY <1>1 DEF Logged, DataTypeOK

\* A line of a log file, made from a log.
LEMMA LineType ==
    ASSUME NEW l \in Seq(LogEntry), NEW c \in 1..MaxExecution
    PROVE  [id |-> c, entries |-> [e \in DOMAIN l |-> <<l[e].record, l[e].after>>]] \in Line
<1>1. DOMAIN l = 1..Len(l) /\ Len(l) \in Nat
  OBVIOUS
<1>2. \A e \in 1..Len(l) : <<l[e].record, l[e].after>> \in Record \X Value
  <2>1. \A e \in 1..Len(l) : l[e] \in LogEntry
    BY <1>1
  <2> QED
    BY <2>1 DEF LogEntry
<1>3. [e \in DOMAIN l |-> <<l[e].record, l[e].after>>] \in [1..Len(l) -> Record \X Value]
  BY <1>1, <1>2
<1>4. [e \in DOMAIN l |-> <<l[e].record, l[e].after>>] \in Seq(Record \X Value)
  BY <1>1, <1>3, SeqDef
<1> QED
  BY <1>4 DEF Line

\* Every step keeps the types of records, locals, logs and files.
LEMMA DataTypeStep ==
    ASSUME DBInv, NEW t \in Txn, Thread(t)
    PROVE  DataTypeOK'
<1>0. DataTypeOK /\ ArgsOK /\ ControlOK(t) /\ Value \subseteq Int /\ Value \subseteq Nat
  BY ValueInt DEF DBInv, ThreadOK
<1>1. CASE \/ Choose(t) \/ CallLock(t) \/ LockRefused(t) \/ LockAcquired(t)
           \/ GetCommitId(t) \/ CallUnlock(t) \/ Unlocking(t)
  BY <1>0, <1>1 DEF Choose, CallLock, LockRefused, LockAcquired, GetCommitId, CallUnlock,
                    Unlocking, dataVars, localVars, DataTypeOK
<1>2. CASE Read(t)
  <2>1. target(t) \in Record
    BY <1>0, <1>2, TargetRecord DEF Read, ArgsOK
  <2>2. records[target(t)] \in Value
    BY <1>0, <2>1 DEF DataTypeOK
  <2>3. log' \in [Txn -> Seq(LogEntry)]
    BY <1>0, <1>2, <2>1, <2>2, LoggedType DEF Read
  <2> QED
    BY <1>0, <1>2, <2>2, <2>3 DEF Read, DataTypeOK
<1>3. CASE AddLoad(t)
  <2>1. target(t) \in Record
    BY <1>0, <1>3, TargetRecord DEF AddLoad, ArgsOK
  <2> QED
    BY <1>0, <1>3, <2>1 DEF AddLoad, DataTypeOK, dataVars
<1>4. CASE AddStore(t)
  <2> DEFINE sum == Wrap(before[t] + operand(t))
  <2>1. target(t) \in Record
    BY <1>0, <1>4, TargetRecord DEF AddStore, ArgsOK
  <2>2. before[t] \in Value /\ record[t] \in Int /\ 0 \in Value
    BY <1>0, ModulusAssumption DEF DataTypeOK, Value
  <2>3. operand(t) \in Int
    BY <2>2 DEF operand
  <2>4. sum \in Value
    <3>1. before[t] + operand(t) \in Int
      <4>1. before[t] \in Int
        BY <1>0, <2>2
      <4> QED
        BY <2>3, <4>1
    <3> QED
      BY <3>1, WrapValue
  <2>5. log' \in [Txn -> Seq(LogEntry)]
    BY <1>0, <1>4, <2>1, <2>2, <2>4, LoggedType DEF AddStore
  <2>6. records' = [records EXCEPT ![target(t)] = sum] /\ before' = [before EXCEPT ![t] = 0]
        /\ files' = files /\ record' = record /\ undone' = undone
    BY <1>4 DEF AddStore
  <2> HIDE DEF sum
  <2> QED
    BY <1>0, <2>2, <2>4, <2>5, <2>6 DEF DataTypeOK
<1>5. CASE FlushLog(t)
  <2>1. commitId[t] \in 1..MaxExecution /\ log[t] \in Seq(LogEntry)
    BY <1>0, <1>5 DEF FlushLog, ControlOK, DataTypeOK
  <2>2. PICK line \in Line : files' = [files EXCEPT ![t] = Append(@, line)]
    BY <1>5, <2>1, LineType DEF FlushLog
  <2> QED
    BY <1>0, <1>5, <2>2 DEF FlushLog, DataTypeOK, localVars
<1>6. CASE Undo(t)
  <2>1. undone[t] + 1 \in 1..Len(log[t]) /\ log[t] \in Seq(LogEntry)
    BY <1>0, <1>6 DEF Undo, DataTypeOK
  <2>2. log[t][undone[t] + 1] \in LogEntry
    BY <2>1
  <2>3. log[t][undone[t] + 1].before \in Value
    BY <2>2 DEF LogEntry
  <2>4. /\ records' = [records EXCEPT ![log[t][undone[t] + 1].record] = log[t][undone[t] + 1].before]
        /\ undone' = [undone EXCEPT ![t] = @ + 1]
        /\ UNCHANGED <<log, files, record, before>>
    BY <1>6 DEF Undo
  <2>5. records' \in [Record -> Value]
    BY <1>0, <2>3, <2>4 DEF DataTypeOK
  <2>6. undone' \in [Txn -> Nat]
    BY <1>0, <2>4 DEF DataTypeOK
  <2> QED
    BY <1>0, <2>4, <2>5, <2>6 DEF DataTypeOK
<1>7. CASE StashLog(t) \/ Unlocked(t)
  <2>1. 0 \in Value
    BY ModulusAssumption DEF Value
  <2>2. CASE StashLog(t)
    <3>1. /\ log' = [log EXCEPT ![t] = <<>>] /\ undone' = [undone EXCEPT ![t] = 0]
          /\ UNCHANGED <<records, files, record, before>>
      BY <2>2 DEF StashLog
    <3>2. <<>> \in Seq(LogEntry)
      OBVIOUS
    <3> QED
      BY <1>0, <3>1, <3>2 DEF DataTypeOK
  <2>3. CASE Unlocked(t)
    <3>1. record' = [record EXCEPT ![t] = 0] /\ UNCHANGED <<records, log, files, before, undone>>
      BY <2>3 DEF Unlocked, dataVars
    <3> QED
      BY <1>0, <2>1, <3>1 DEF DataTypeOK
  <2> QED
    BY <1>7, <2>2, <2>3
<1> QED
  BY <1>1, <1>2, <1>3, <1>4, <1>5, <1>6, <1>7 DEF Thread, AcquiringMutex, Running

\* What is right for a thread stays right when another takes a step.
LEMMA OthersOK ==
    ASSUME DBInv, NEW t \in Txn, Thread(t), NEW u \in Txn, u # t
    PROVE  ThreadOK(u)'
<1>0. LTInv /\ ArgsOK /\ DataTypeOK /\ ControlOK(u) /\ DequeOK(u) /\ EntriesOK(u)
  BY DEF DBInv, ThreadOK
<1>1. /\ pc'[u] = pc[u] /\ args'[u] = args[u] /\ op'[u] = op[u]
      /\ record'[u] = record[u] /\ before'[u] = before[u] /\ undone'[u] = undone[u]
      /\ commitId'[u] = commitId[u] /\ log'[u] = log[u] /\ files'[u] = files[u]
  BY <1>0, OthersKept
<1>2. /\ lockPerTxn'[u] = lockPerTxn[u] /\ call'[u] = call[u]
      /\ \A e \in 1..Len(lockPerTxn[u]) : lockMode'[lockPerTxn[u][e]] = lockMode[lockPerTxn[u][e]]
  BY <1>0, OthersLocks
<1>3. executionOrder \in Nat /\ executionOrder' \in Nat /\ executionOrder' >= executionOrder
  BY <1>0 DEF Thread, AcquiringMutex, Running, Choose, CallLock, LockRefused, LockAcquired,
              Read, AddLoad, AddStore, GetCommitId, FlushLog, Undo, StashLog, CallUnlock,
              Unlocking, Unlocked, dataVars, ArgsOK
<1>4. pc[u] = "store" => records'[target(u)] = records[target(u)]
  BY TargetHeld, OthersRecords DEF target
<1>5. \A e \in 1..Len(log[u]) : records'[args[u][e]] = records[args[u][e]]
  BY LoggedHeld, OthersRecords
<1>6. ControlOK(u)'
  <2>1. commitId[u] \in Nat
    BY <1>0 DEF ArgsOK
  <2> QED
    BY <1>0, <1>1, <1>2, <1>3, <1>4, <2>1, MaxExecutionAssumption DEF ControlOK, OutsideCall, target
<1>7. DequeOK(u)'
  BY <1>0, <1>1, <1>2 DEF DequeOK
<1>8. EntriesOK(u)'
  BY <1>0, <1>1, <1>5 DEF EntriesOK
<1> QED
  BY <1>6, <1>7, <1>8 DEF ThreadOK

\* The facts about thread t that its own steps start from.
LEMMA OwnFacts ==
    ASSUME DBInv, NEW t \in Txn
    PROVE  /\ ControlOK(t) /\ DequeOK(t) /\ EntriesOK(t)
           /\ pc \in [Txn -> PCState] /\ op \in [Txn -> 1..3] /\ commitId \in [Txn -> Nat]
           /\ executionOrder \in Nat
           /\ log \in [Txn -> Seq(LogEntry)] /\ Len(log[t]) \in Nat
           /\ lockPerTxn \in [Txn -> Seq(Node)] /\ Len(lockPerTxn[t]) \in Nat
           /\ call \in [Txn -> CallState] /\ undone \in [Txn -> Nat]
           /\ records \in [Record -> Value]
           /\ args \in [Txn -> Arguments \cup {<<>>}]
           /\ pc[t] \notin {"begin", "done"} => args[t] \in Arguments
           /\ pc[t] \notin {"begin", "done"} => target(t) \in Record
BY TargetRecord DEF DBInv, ThreadOK, ArgsOK, DataTypeOK, LTInv, LTTypeOK

\* A transaction starts.
LEMMA ChooseOK ==
    ASSUME DBInv, NEW t \in Txn, Choose(t)
    PROVE  ThreadOK(t)'
<1>1. /\ pc[t] = "begin" /\ pc' = [pc EXCEPT ![t] = "lock"]
      /\ UNCHANGED <<ltVars, dataVars, op, record, before, undone, commitId>>
  BY DEF Choose, goto
<1>2. Len(lockPerTxn[t]) = 0 /\ Len(log[t]) = 0
  BY <1>1, OwnFacts DEF ControlOK
<1>3. ControlOK(t)'
  BY <1>1, <1>2, OwnFacts DEF ControlOK, ltVars, dataVars
<1>4. DequeOK(t)' /\ EntriesOK(t)'
  BY <1>1, <1>2, OwnFacts DEF DequeOK, EntriesOK, ltVars, dataVars
<1> QED
  BY <1>3, <1>4 DEF ThreadOK

\* It asks for a lock: its deque grows by the record of its operation.
LEMMA CallLockOK ==
    ASSUME DBInv, NEW t \in Txn, CallLock(t)
    PROVE  ThreadOK(t)'
<1>0. ControlOK(t) /\ DequeOK(t) /\ EntriesOK(t) /\ LTInv /\ ArgsOK
  BY DEF DBInv, ThreadOK
<1>1. /\ pc[t] = "lock" /\ pc' = [pc EXCEPT ![t] = "wait"]
      /\ op[t] = 1 => addReaderLock(t, target(t))
      /\ op[t] # 1 => addWriterLock(t, target(t))
      /\ UNCHANGED <<dataVars, localVars>>
  BY DEF CallLock, goto
<1>2. target(t) \in Record
  BY <1>1, OwnFacts
<1>3. /\ lockPerTxn' = [lockPerTxn EXCEPT ![t] = Append(@, <<t, target(t)>>)]
      /\ call' = [call EXCEPT ![t] = "spin"]
      /\ \A n \in nodes : lockMode'[n] = lockMode[n]
      /\ op[t] = 1 => lockMode'[<<t, target(t)>>] = "READ"
      /\ op[t] # 1 => lockMode'[<<t, target(t)>>] = "WRITE"
  BY <1>0, <1>1, <1>2, LockEffect
<1>4. Len(lockPerTxn[t]) = op[t] - 1 /\ op[t] \in 1..3
  BY <1>1, OwnFacts DEF ControlOK
<1>5. /\ Len(lockPerTxn'[t]) = op[t]
      /\ lockPerTxn'[t][op[t]] = <<t, target(t)>>
      /\ \A e \in 1..Len(lockPerTxn[t]) : lockPerTxn'[t][e] = lockPerTxn[t][e]
  <2>1. <<t, target(t)>> \in Node
    BY <1>2 DEF Node
  <2> QED
    BY <1>3, <1>4, <2>1, OwnFacts
<1>6. ControlOK(t)'
  BY <1>1, <1>3, <1>4, <1>5, OwnFacts DEF ControlOK, dataVars, localVars
<1>7. DequeOK(t)'
  <2> SUFFICES ASSUME NEW e \in 1..Len(lockPerTxn'[t])
               PROVE  /\ lockPerTxn'[t][e] = <<t, args[t][e]>>
                      /\ e = 1 => lockMode'[lockPerTxn'[t][e]] = "READ"
                      /\ e # 1 => lockMode'[lockPerTxn'[t][e]] = "WRITE"
    BY <1>1 DEF DequeOK, localVars
  <2>1. CASE e = op[t]
    BY <1>3, <1>5, <2>1 DEF target
  <2>2. CASE e # op[t]
    <3>1. e \in 1..Len(lockPerTxn[t])
      BY <1>4, <1>5, <2>2
    <3>2. lockPerTxn[t][e] \in nodes
      BY <1>0, <3>1, DequeNodes
    <3> QED
      BY <1>0, <1>1, <1>3, <1>5, <3>1, <3>2 DEF DequeOK
  <2> QED
    BY <2>1, <2>2
<1>8. EntriesOK(t)'
  BY <1>0, <1>1 DEF EntriesOK, dataVars, localVars
<1> QED
  BY <1>6, <1>7, <1>8 DEF ThreadOK

\* The lock is refused or granted, or unlock begins: only the call changes.
LEMMA CallReturnsOK ==
    ASSUME DBInv, NEW t \in Txn, LockRefused(t) \/ LockAcquired(t) \/ CallUnlock(t)
    PROVE  ThreadOK(t)'
<1>0. ControlOK(t) /\ DequeOK(t) /\ EntriesOK(t)
  BY DEF DBInv, ThreadOK
<1>1. /\ UNCHANGED <<dataVars, localVars, lockPerTxn, lockMode>>
      /\ \/ pc[t] = "lock" /\ pc' = [pc EXCEPT ![t] = "undo"] /\ call' = [call EXCEPT ![t] = "refused"]
         \/ pc[t] = "wait" /\ pc' = [pc EXCEPT ![t] = "access"] /\ call' = [call EXCEPT ![t] = "idle"]
         \/ pc[t] = "unlock" /\ pc' = pc
  BY DEF LockRefused, LockAcquired, CallUnlock, refuseLock, returnLocked, beginUnlock, goto
<1>2. pc'[t] # "unlock" <=> pc[t] # "unlock"
  BY <1>1, OwnFacts
<1>3. ControlOK(t)'
  BY <1>0, <1>1, OwnFacts DEF ControlOK, OutsideCall, target, dataVars, localVars
<1>4. DequeOK(t)' /\ EntriesOK(t)'
  BY <1>0, <1>1, <1>2 DEF DequeOK, EntriesOK, dataVars, localVars
<1> QED
  BY <1>3, <1>4 DEF ThreadOK

\* read: the first entry of the log, whose values are what the record holds.
LEMMA ReadOK ==
    ASSUME DBInv, NEW t \in Txn, Read(t)
    PROVE  ThreadOK(t)'
<1> DEFINE v == records[target(t)]
<1>0. ControlOK(t) /\ DequeOK(t) /\ EntriesOK(t) /\ DataTypeOK
  BY DEF DBInv, ThreadOK
<1>1. /\ pc[t] = "access" /\ op[t] = 1
      /\ record' = [record EXCEPT ![t] = v]
      /\ Logged(t, target(t), v, v)
      /\ UNCHANGED <<ltVars, records, files, executionOrder, args, before, undone, commitId>>
  BY DEF Read
<1>2. target(t) \in Record /\ v \in Value /\ target(t) = args[t][1]
  BY <1>1, OwnFacts DEF target
<1>3. /\ Len(log[t]) = 0 /\ Len(lockPerTxn[t]) = 1 /\ undone[t] = 0 /\ call[t] = "idle"
      /\ commitId[t] = 0
  BY <1>0, <1>1, OwnFacts DEF ControlOK, PCState
<1>4. /\ Len(log'[t]) = 1
      /\ log'[t][1] = [record |-> target(t), before |-> v, after |-> v]
  <2> HIDE DEF v
  <2>1. /\ Len(log'[t]) = Len(log[t]) + 1
        /\ log'[t][Len(log[t]) + 1] = [record |-> target(t), before |-> v, after |-> v]
    BY <1>0, <1>1, <1>2, LoggedType
  <2> QED
    BY <1>3, <2>1
<1>5. pc'[t] = "lock" /\ op'[t] = 2 /\ record'[t] = v
  BY <1>0, <1>1, OwnFacts DEF Logged, goto, DataTypeOK
<1>6. ControlOK(t)'
  BY <1>0, <1>1, <1>3, <1>4, <1>5, OwnFacts DEF ControlOK, ltVars
<1>7. DequeOK(t)'
  BY <1>0, <1>1, <1>5 DEF DequeOK, ltVars
<1>8. EntriesOK(t)'
  BY <1>1, <1>2, <1>3, <1>4, <1>5 DEF EntriesOK
<1> QED
  BY <1>6, <1>7, <1>8 DEF ThreadOK

\* The first half of add: the value in hand is the value of the record.
LEMMA AddLoadOK ==
    ASSUME DBInv, NEW t \in Txn, AddLoad(t)
    PROVE  ThreadOK(t)'
<1>0. ControlOK(t) /\ DequeOK(t) /\ EntriesOK(t) /\ DataTypeOK
  BY DEF DBInv, ThreadOK
<1>1. /\ pc[t] = "access" /\ op[t] # 1 /\ pc' = [pc EXCEPT ![t] = "store"]
      /\ before' = [before EXCEPT ![t] = records[target(t)]]
      /\ UNCHANGED <<ltVars, dataVars, args, op, record, undone, commitId>>
  BY DEF AddLoad, goto
<1>2. before'[t] = records[target(t)]
  BY <1>0, <1>1 DEF DataTypeOK
<1>3. ControlOK(t)'
  BY <1>0, <1>1, <1>2, OwnFacts DEF ControlOK, OutsideCall, target, ltVars, dataVars
<1>4. DequeOK(t)' /\ EntriesOK(t)'
  BY <1>0, <1>1, OwnFacts DEF DequeOK, EntriesOK, ltVars, dataVars
<1> QED
  BY <1>3, <1>4 DEF ThreadOK

\* The records of a transaction are different from one another.
LEMMA ArgsDiffer ==
    ASSUME NEW a \in Arguments, NEW d \in 1..3, NEW e \in 1..3, d # e
    PROVE  a[d] # a[e] /\ a[d] \in Record /\ a[e] \in Record
BY DEF Arguments

\* The second half of add: store the sum and log it.
LEMMA AddStoreOK ==
    ASSUME DBInv, NEW t \in Txn, AddStore(t)
    PROVE  ThreadOK(t)'
<1> DEFINE r == target(t)
           v == before[t]
           w == Wrap(before[t] + operand(t))
<1>0. ControlOK(t) /\ DequeOK(t) /\ EntriesOK(t) /\ DataTypeOK /\ ArgsOK
  BY DEF DBInv, ThreadOK
<1>1. /\ pc[t] = "store" /\ op[t] \in 2..3 /\ r \in Record /\ r = args[t][op[t]]
      /\ args[t] \in Arguments
  BY OwnFacts DEF AddStore, ControlOK, target
<1>2. /\ records' = [records EXCEPT ![r] = w]
      /\ Logged(t, r, v, w)
      /\ UNCHANGED <<ltVars, files, executionOrder, args, record, undone, commitId>>
  BY DEF AddStore
<1>3. /\ Len(log[t]) = op[t] - 1 /\ Len(lockPerTxn[t]) = op[t] /\ undone[t] = 0
      /\ call[t] = "idle" /\ commitId[t] = 0
  BY <1>0, <1>1, OwnFacts DEF ControlOK, PCState
<1>4. v \in Value /\ w \in Value
  <2>1. v \in Value /\ v \in Int /\ record[t] \in Int
    BY <1>0, ValueInt DEF DataTypeOK
  <2>2. v + operand(t) \in Int
    BY <2>1 DEF operand
  <2> QED
    BY <2>1, <2>2, WrapValue
<1>5. /\ Len(log'[t]) = op[t]
      /\ \A e \in 1..op[t] - 1 : log'[t][e] = log[t][e]
      /\ log'[t][op[t]] = [record |-> r, before |-> v, after |-> w]
  <2> HIDE DEF r, v, w
  <2> QED
    BY <1>0, <1>1, <1>2, <1>3, <1>4, LoggedType
<1>6. /\ pc'[t] = (IF op[t] = 2 THEN "lock" ELSE "commit")
      /\ op'[t] = (IF op[t] = 2 THEN 3 ELSE 3)
  BY <1>1, <1>2, OwnFacts DEF Logged, goto
<1>7. ControlOK(t)'
  <2> HIDE DEF r, v, w
  <2> QED
    BY <1>0, <1>1, <1>2, <1>3, <1>5, <1>6, OwnFacts DEF ControlOK, ltVars
<1>8. DequeOK(t)'
  BY <1>0, <1>1, <1>2, <1>6 DEF DequeOK, ltVars
<1>9. EntriesOK(t)'
  <2> SUFFICES ASSUME NEW e \in 1..op[t]
               PROVE  /\ log'[t][e].record = args[t][e]
                      /\ e = 1 => log'[t][e].before = record[t] /\ log'[t][e].after = record[t]
                      /\ e = 2 => log'[t][e].after = Wrap(log'[t][e].before + (record[t] + 1))
                      /\ e = 3 => log'[t][e].after = Wrap(log'[t][e].before + (- record[t]))
                      /\ records'[args[t][e]] =
                            IF e <= undone[t] THEN log'[t][e].before ELSE log'[t][e].after
    BY <1>2, <1>5 DEF EntriesOK, Wrap
  <2>1. CASE e = op[t]
    <3>1. log'[t][e].record = args[t][e] /\ log'[t][e].before = v /\ log'[t][e].after = w
      BY <1>1, <1>5, <2>1
    <3>2. records'[args[t][e]] = w /\ ~(e <= undone[t])
      BY <1>0, <1>1, <1>2, <1>3, <2>1 DEF DataTypeOK
    <3> QED
      BY <1>1, <2>1, <3>1, <3>2 DEF operand
  <2>2. CASE e # op[t]
    <3>1. e \in 1..Len(log[t]) /\ e \in 1..3 /\ log'[t][e] = log[t][e]
      BY <1>1, <1>3, <1>5, <2>2
    <3>2. args[t][e] # r
      BY <1>1, <2>2, <3>1, ArgsDiffer
    <3>3. records'[args[t][e]] = records[args[t][e]]
      BY <1>0, <1>1, <1>2, <3>2 DEF DataTypeOK
    <3> QED
      BY <1>0, <3>1, <3>3 DEF EntriesOK
  <2> QED
    BY <2>1, <2>2
<1> QED
  BY <1>7, <1>8, <1>9 DEF ThreadOK

\* commit draws its id: within the limit to be flushed, past it to be undone.
LEMMA GetCommitIdOK ==
    ASSUME DBInv, NEW t \in Txn, GetCommitId(t)
    PROVE  ThreadOK(t)'
<1>0. ControlOK(t) /\ DequeOK(t) /\ EntriesOK(t) /\ MaxExecution \in Nat \ {0}
  BY MaxExecutionAssumption DEF DBInv, ThreadOK
<1>1. /\ pc[t] = "commit"
      /\ executionOrder' = executionOrder + 1
      /\ commitId' = [commitId EXCEPT ![t] = executionOrder + 1]
      /\ pc' = [pc EXCEPT ![t] = IF executionOrder + 1 > MaxExecution THEN "undo" ELSE "flush"]
      /\ UNCHANGED <<ltVars, records, log, files, args, op, record, before, undone>>
  BY DEF GetCommitId, goto
<1>2. ControlOK(t)'
  BY <1>0, <1>1, OwnFacts DEF ControlOK, OutsideCall, ltVars
<1>3. DequeOK(t)' /\ EntriesOK(t)'
  BY <1>0, <1>1, OwnFacts DEF DequeOK, EntriesOK, ltVars
<1> QED
  BY <1>2, <1>3 DEF ThreadOK

\* flushLog and stashLog leave the log empty.
LEMMA LogEmptiedOK ==
    ASSUME DBInv, NEW t \in Txn, FlushLog(t) \/ StashLog(t)
    PROVE  ThreadOK(t)'
<1>0. ControlOK(t) /\ DequeOK(t)
  BY DEF DBInv, ThreadOK
<1>1. /\ log' = [log EXCEPT ![t] = <<>>] /\ pc' = [pc EXCEPT ![t] = "unlock"]
      /\ undone'[t] = 0
      /\ UNCHANGED <<ltVars, records, executionOrder, args, op, record, before, commitId>>
  BY OwnFacts DEF FlushLog, StashLog, goto, localVars, ControlOK
<1>2. log'[t] = <<>> /\ Len(log'[t]) = 0
  BY <1>1, OwnFacts
<1>3. ControlOK(t)'
  BY <1>0, <1>1, <1>2, OwnFacts DEF ControlOK, ltVars
<1>4. DequeOK(t)' /\ EntriesOK(t)'
  BY <1>0, <1>1, <1>2, OwnFacts DEF DequeOK, EntriesOK, ltVars
<1> QED
  BY <1>3, <1>4 DEF ThreadOK

\* abort puts one more record back.
LEMMA UndoOK ==
    ASSUME DBInv, NEW t \in Txn, Undo(t)
    PROVE  ThreadOK(t)'
<1> DEFINE d == undone[t] + 1
<1>0. ControlOK(t) /\ DequeOK(t) /\ EntriesOK(t)
  BY DEF DBInv, ThreadOK
<1>1. /\ pc[t] = "undo" /\ undone[t] < Len(log[t]) /\ undone'[t] = d
      /\ UNCHANGED <<ltVars, log, files, executionOrder, pc, args, op, record, before, commitId>>
  BY OwnFacts DEF Undo
<1>2. /\ d \in 1..Len(log[t]) /\ log[t][d].record = args[t][d]
  BY <1>1, UndoneRecord
<1>3. records' = [records EXCEPT ![args[t][d]] = log[t][d].before]
  BY <1>2 DEF Undo
<1>4. \A e \in 1..Len(log[t]) : e \in 1..3 /\ args[t] \in Arguments
  BY LoggedHeld
<1>5. ControlOK(t)'
  BY <1>0, <1>1, OwnFacts DEF ControlOK, OutsideCall, ltVars
<1>6. DequeOK(t)'
  BY <1>0, <1>1 DEF DequeOK, ltVars
<1>7. ASSUME NEW e \in 1..Len(log[t])
      PROVE  records'[args[t][e]] = IF e <= d THEN log[t][e].before ELSE log[t][e].after
  <2>0. args[t][d] \in Record /\ args[t][e] \in Record /\ records \in [Record -> Value]
    BY <1>2, <1>4, OwnFacts DEF Arguments
  <2>1. CASE e = d
    BY <1>3, <2>0, <2>1
  <2>2. CASE e # d
    <3>1. args[t][e] # args[t][d]
      BY <1>2, <1>4, <2>2, ArgsDiffer
    <3>2. records'[args[t][e]] = records[args[t][e]]
      <4> HIDE DEF d
      <4> QED
        BY <1>3, <2>0, <3>1
    <3>3. e <= d <=> e <= undone[t]
      BY <2>2, OwnFacts
    <3> QED
      BY <1>0, <3>2, <3>3 DEF EntriesOK
  <2> QED
    BY <2>1, <2>2
<1>8. EntriesOK(t)'
  BY <1>0, <1>1, <1>7 DEF EntriesOK, Wrap
<1> QED
  BY <1>5, <1>6, <1>8 DEF ThreadOK

\* unlock at work: the deque shrinks, what is left are nodes for writing.
LEMMA UnlockingOK ==
    ASSUME DBInv, NEW t \in Txn, Unlocking(t)
    PROVE  ThreadOK(t)'
<1>0. ControlOK(t) /\ DequeOK(t) /\ EntriesOK(t) /\ LTInv
  BY DEF DBInv, ThreadOK
<1>1. pc[t] = "unlock" /\ Len(log[t]) = 0 /\ UNCHANGED <<dataVars, pc, localVars>>
  BY <1>0 DEF Unlocking, ControlOK
<1>2. ControlOK(t)'
  BY <1>0, <1>1 DEF ControlOK, dataVars, localVars
<1>3. DequeOK(t)'
  <2>1. ASSUME NEW n \in nodes, releaseOnly(t, n) \/ releaseHead(t, n) \/ releaseInner(t, n)
        PROVE  DequeOK(t)'
    <3>1. /\ lockPerTxn[t] # <<>> /\ n = lockPerTxn[t][1]
          /\ lockPerTxn' = [lockPerTxn EXCEPT ![t] = Tail(@)]
          /\ \A m \in nodes : m # n => lockMode'[m] = lockMode[m]
      BY <1>0, <2>1, ReleaseEffect
    <3>2. /\ Len(lockPerTxn'[t]) = Len(lockPerTxn[t]) - 1
          /\ \A e \in 1..Len(lockPerTxn[t]) - 1 : lockPerTxn'[t][e] = lockPerTxn[t][e + 1]
      BY <3>1, OwnFacts
    <3>3. ASSUME NEW e \in 1..Len(lockPerTxn'[t]), e # 1
          PROVE  lockMode'[lockPerTxn'[t][e]] = "WRITE"
      <4>1. e + 1 \in 1..Len(lockPerTxn[t]) /\ e + 1 # 1 /\ 1 \in 1..Len(lockPerTxn[t])
            /\ lockPerTxn'[t][e] = lockPerTxn[t][e + 1]
        BY <3>2, <3>3, OwnFacts
      <4>2. lockPerTxn[t][e + 1] \in nodes /\ lockPerTxn[t][e + 1] # n
        BY <1>0, <3>1, <4>1 DEF LTInv, DequesChained
      <4>3. lockMode[lockPerTxn[t][e + 1]] = "WRITE"
        BY <1>0, <4>1 DEF DequeOK
      <4> QED
        BY <3>1, <4>1, <4>2, <4>3
    <3> QED
      BY <1>1, <3>3 DEF DequeOK
  <2>2. CASE wakeNext(t)
    BY <1>0, <1>1, <2>2 DEF DequeOK, wakeNext, localVars
  <2> QED
    BY <2>1, <2>2 DEF Unlocking
<1>4. EntriesOK(t)'
  BY <1>1 DEF EntriesOK, dataVars
<1> QED
  BY <1>2, <1>3, <1>4 DEF ThreadOK

\* unlock returns: the thread has no lock left.
LEMMA UnlockedOK ==
    ASSUME DBInv, NEW t \in Txn, Unlocked(t)
    PROVE  ThreadOK(t)'
<1>0. ControlOK(t) /\ commitId[t] \in Nat /\ executionOrder \in Nat /\ MaxExecution \in Nat
  BY OwnFacts, MaxExecutionAssumption
<1>1. /\ pc[t] = "unlock" /\ lockPerTxn[t] = <<>> /\ Len(log[t]) = 0
      /\ call' = [call EXCEPT ![t] = "idle"]
      /\ op' = [op EXCEPT ![t] = 1] /\ commitId' = [commitId EXCEPT ![t] = 0]
      /\ UNCHANGED <<lockPerTxn, dataVars, undone>>
  BY <1>0 DEF Unlocked, endUnlock, ControlOK
<1>2. /\ pc'[t] \in {"lock", "begin", "done"}
      /\ pc'[t] = "done" => commitId[t] > MaxExecution
  <2>1. commitId[t] = 0 => pc' = [pc EXCEPT ![t] = "lock"]
    BY DEF Unlocked, goto
  <2>2. commitId[t] # 0 => pc' = [pc EXCEPT ![t] = IF commitId[t] \in 1..MaxExecution THEN "begin" ELSE "done"]
    BY DEF Unlocked, goto
  <2> QED
    BY <1>0, <2>1, <2>2, OwnFacts
<1>3. ControlOK(t)'
  BY <1>0, <1>1, <1>2, OwnFacts DEF ControlOK, dataVars
<1>4. DequeOK(t)' /\ EntriesOK(t)'
  BY <1>1 DEF DequeOK, EntriesOK, dataVars
<1> QED
  BY <1>3, <1>4 DEF ThreadOK

\* The invariant at the beginning: no thread has a lock, and no log an entry.
LEMMA DBInvInit == DBInit => DBInv
<1> SUFFICES ASSUME DBInit PROVE DBInv
  OBVIOUS
<1>1. LTInv /\ ArgsOK
  BY LTInvInit, ArgsInit DEF DBInit
<1>2. DataTypeOK
  BY ModulusAssumption DEF DBInit, DataTypeOK, Value
<1>3. ASSUME NEW t \in Txn PROVE ThreadOK(t)
  BY DEF DBInit, LTInit, ThreadOK, ControlOK, DequeOK, EntriesOK
<1> QED
  BY <1>1, <1>2, <1>3 DEF DBInv

\* The invariant in a step: the lock table takes one of its own, and no other
\* thread can touch what a transaction relies on.
LEMMA DBInvStep == DBInv /\ [DBNext]_dbVars => DBInv'
<1> SUFFICES ASSUME DBInv, [DBNext]_dbVars PROVE DBInv'
  OBVIOUS
<1>1. ASSUME NEW t \in Txn, Thread(t) PROVE DBInv'
  <2>1. LTInv'
    <3>1. LTTypeOK /\ (pc[t] = "lock" => target(t) \in Record)
      BY OwnFacts DEF DBInv, LTInv
    <3> QED
      BY <1>1, <3>1, ThreadStep, LTInvStep DEF DBInv
  <2>2. ArgsOK'
    BY <1>1, ArgsStep DEF DBInv, DBNext
  <2>3. DataTypeOK'
    BY <1>1, DataTypeStep
  <2>4. ThreadOK(t)'
    BY <1>1, ChooseOK, CallLockOK, CallReturnsOK, ReadOK, AddLoadOK, AddStoreOK, GetCommitIdOK,
       LogEmptiedOK, UndoOK, UnlockingOK, UnlockedOK DEF Thread, AcquiringMutex, Running
  <2>5. \A u \in Txn : ThreadOK(u)'
    BY <1>1, <2>4, OthersOK
  <2> QED
    BY <2>1, <2>2, <2>3, <2>5 DEF DBInv
<1>2. CASE UNCHANGED dbVars
  <2>1. LTInv' /\ ArgsOK'
    BY <1>2, LTInvStep, ArgsStep DEF DBInv, dbVars
  <2>2. DataTypeOK'
    BY <1>2 DEF DBInv, DataTypeOK, dbVars, dataVars, localVars
  <2>3. \A t \in Txn : ThreadOK(t)'
    BY <1>2 DEF DBInv, ThreadOK, ControlOK, DequeOK, EntriesOK, OutsideCall, target,
                dbVars, dataVars, localVars, ltVars
  <2> QED
    BY <2>1, <2>2, <2>3 DEF DBInv
<1> QED
  BY <1>1, <1>2 DEF DBNext, Joined

\* In every reachable state each thread holds the locks its position asks for,
\* and log and records agree.
THEOREM DatabaseInvariant == DBSpec => []DBInv
BY DBInvInit, DBInvStep, PTL DEF DBSpec

\* Every variable of the program keeps its type.
THEOREM DatabaseTypes == DBSpec => []DBTypeOK
<1>1. ASSUME DBInv PROVE DBTypeOK
  <2>1. LTTypeOK /\ ArgsOK /\ DataTypeOK /\ \A t \in Txn : ControlOK(t)
    BY <1>1 DEF DBInv, LTInv, ThreadOK
  <2>2. undone \in [Txn -> 0..3]
    <3>1. ASSUME NEW t \in Txn PROVE undone[t] \in 0..3
      <4>1. undone[t] \in Nat /\ Len(log[t]) \in Nat /\ ControlOK(t)
        BY <1>1, OwnFacts
      <4> QED
        BY <4>1 DEF ControlOK
    <3> QED
      BY <2>1, <3>1 DEF DataTypeOK
  <2>3. \A t \in Txn : \A l \in DOMAIN files[t] : files[t][l].id \in 1..MaxExecution
    <3>1. \A t \in Txn : \A l \in DOMAIN files[t] : files[t][l] \in Line
      BY <2>1 DEF DataTypeOK
    <3> QED
      BY <3>1 DEF Line
  <2> QED
    BY <2>1, <2>2, <2>3 DEF DBTypeOK, ArgsOK, DataTypeOK
<1> QED
  BY <1>1, DatabaseInvariant, PTL

-----------------------------------------------------------------------------
(* Races, and refusals                                                     *)

\* What a thread reads or writes it holds.
LEMMA AccessedHeld ==
    ASSUME DBInv, NEW t \in Txn, NEW r \in Reading(t) \cup Writing(t)
    PROVE  \E e \in 1..Len(lockPerTxn[t]) : /\ pc[t] # "unlock" /\ pc[t] # "wait"
                                            /\ r = args[t][e]
                                            /\ r \in Writing(t) /\ e = 1 =>
                                                 pc[t] = "undo" /\ undone[t] = 0
<1>0. ControlOK(t) /\ undone[t] \in Nat /\ op[t] \in 1..3
  BY OwnFacts
<1>1. CASE pc[t] \in {"access", "store"}
  <2>1. r = args[t][op[t]] /\ op[t] \in 1..Len(lockPerTxn[t]) /\ (pc[t] = "store" => op[t] # 1)
    BY <1>0, <1>1, TargetHeld DEF Reading, Writing, target, ControlOK
  <2>2. pc[t] = "access" => r \notin Writing(t)
    BY DEF Writing
  <2> QED
    BY <1>1, <2>1, <2>2
<1>2. CASE pc[t] = "undo"
  <2>1. undone[t] < Len(log[t]) /\ r = log[t][undone[t] + 1].record
    BY <1>2 DEF Reading, Writing
  <2>2. undone[t] + 1 \in 1..Len(log[t]) /\ r = args[t][undone[t] + 1]
    BY <1>2, <2>1, UndoneRecord
  <2>3. undone[t] + 1 \in 1..Len(lockPerTxn[t])
    BY <2>2, LoggedHeld
  <2> QED
    BY <1>0, <1>2, <2>2, <2>3
<1>3. CASE pc[t] \notin {"access", "store", "undo"}
  BY <1>3 DEF Reading, Writing
<1> QED
  BY <1>1, <1>2, <1>3

\* Accesses of two threads to one record meet only when abort stores into a
\* record it holds for reading the value that is there.
THEOREM DatabaseRaces == DBSpec => []RacesAreSilent
<1>1. ASSUME DBInv PROVE RacesAreSilent
  <2> SUFFICES ASSUME NEW t \in Txn, NEW u \in Txn, t # u,
                      NEW r \in Writing(t) \cap (Reading(u) \cup Writing(u))
               PROVE  pc[t] = "undo" /\ log[t][undone[t] + 1].before = records[r]
    BY DEF RacesAreSilent
  <2>1. PICK e \in 1..Len(lockPerTxn[t]) :
              /\ pc[t] # "unlock" /\ pc[t] # "wait" /\ r = args[t][e]
              /\ e = 1 => pc[t] = "undo" /\ undone[t] = 0
    BY <1>1, AccessedHeld
  <2>2. PICK f \in 1..Len(lockPerTxn[u]) : pc[u] # "unlock" /\ pc[u] # "wait" /\ r = args[u][f]
    BY <1>1, AccessedHeld
  <2>3. e = 1
    BY <1>1, <2>1, <2>2, BothRead
  <2>4. undone[t] < Len(log[t])
    BY <2>1, <2>3 DEF Writing
  <2>5. log[t][1].before = records[args[t][1]]
    BY <1>1, <2>1, <2>3, <2>4, UndoneRecord
  <2> QED
    BY <2>1, <2>3, <2>5
<1> QED
  BY <1>1, DatabaseInvariant, PTL

\* What is in front of the node in front is in front, too.
LEMMA AheadOfPrev ==
    ASSUME NEW n \in nodes, prev[n] \in nodes, NEW k \in Ahead(prev[n]), null \notin nodes
    PROVE  k = n \/ k \in Ahead(n)
<1>1. ASSUME NEW C \in SUBSET nodes, n \in C, ClosedUnder(prev, C) PROVE k \in C
  BY <1>1 DEF Ahead, ClosedUnder
<1> QED
  BY <1>1 DEF Ahead

\* The node that n waits behind is ahead of it.
LEMMA PrevAhead ==
    ASSUME NEW n \in nodes, prev[n] \in nodes, prev[n] # n, null \notin nodes
    PROVE  prev[n] \in Ahead(n)
<1>1. ASSUME NEW C \in SUBSET nodes, n \in C, ClosedUnder(prev, C) PROVE prev[n] \in C
  BY <1>1 DEF ClosedUnder
<1> QED
  BY <1>1 DEF Ahead

\* A transaction's second and third locks are for writing.
LEMMA LaterNodesWrite ==
    ASSUME DBInv, NEW n \in nodes, nextInTxn[n] # null
    PROVE  /\ nextInTxn[n] \in nodes /\ txnId(nextInTxn[n]) = txnId(n)
           /\ lockMode[nextInTxn[n]] = "WRITE"
<1> DEFINE t == txnId(n)
           deque == lockPerTxn[t]
<1>0. LTTypeOK /\ DequesChained /\ t \in Txn
  BY NodeFields DEF DBInv, LTInv, LTTypeOK
<1>1. PICK i \in 1..Len(deque) : deque[i] = n
  BY <1>0 DEF DequesChained
<1>2. i < Len(deque) /\ nextInTxn[n] = deque[i + 1]
  BY <1>0, <1>1 DEF DequesChained
<1>3. Len(deque) \in Nat
  BY <1>0 DEF LTTypeOK
<1>4. i + 1 \in 1..Len(deque) /\ i + 1 # 1
  BY <1>2, <1>3
<1>5. deque[i + 1] \in nodes /\ txnId(deque[i + 1]) = t
  BY <1>0, <1>4, DequeNodes DEF DBInv
<1>6. lockMode[deque[i + 1]] = "WRITE"
  BY <1>0, <1>4, OwnFacts DEF DequeOK
<1> QED
  BY <1>2, <1>5, <1>6

\* A transaction is sent back only when its request would have closed a
\* circle: the owners D that the request would wait for, directly or not, have
\* no edge out of the nodes that only they stand in front of, so a search that
\* met the transaction must have met it in D.
THEOREM DatabaseRefusals == DBSpec => []AbortsAreDeadlocks
<1>1. ASSUME DBInv PROVE AbortsAreDeadlocks
  <2> SUFFICES ASSUME NEW t \in Txn, pc[t] = "lock", globalMtx = NoTxn,
                      checkDeadlock(t, target(t)), NEW D \in SUBSET Txn,
                      WouldWaitFor(target(t), IF op[t] = 1 THEN "READ" ELSE "WRITE") \subseteq D,
                      \A u \in D \cap Waiting : WaitsFor(u) \subseteq D,
                      t \notin D
               PROVE  FALSE
    BY DEF AbortsAreDeadlocks, ClosesCycle
  <2> DEFINE r == target(t)
             C == {n \in nodes : txnId(n) \in D /\ \A m \in Ahead(n) : txnId(m) \in D}
  <2>0. /\ LTInv /\ LTTypeOK /\ ListsLinked /\ DequesChained /\ WaitForAcyclic /\ GrantsOK
        /\ OnlyLastWaits /\ ControlOK(t) /\ r \in Record /\ null \notin nodes
    <3>1. pc[t] \notin {"begin", "done"}
      OBVIOUS
    <3>2. r \in Record /\ ControlOK(t) /\ LTInv
      BY <1>1, <3>1, OwnFacts DEF DBInv
    <3> QED
      BY <3>2, NullAssumption DEF LTInv, LTTypeOK, Node
  <2>1. tail[r] \in nodes /\ recordId(tail[r]) = r
    BY <2>0 DEF checkDeadlock, ListsLinked
  <2>2. op[t] # 1
    <3> SUFFICES ASSUME op[t] = 1 PROVE FALSE
      OBVIOUS
    <3>1. Len(lockPerTxn[t]) = 0
      BY <2>0 DEF ControlOK
    <3>2. \A n \in nodes : txnId(n) # t
      BY <2>0, <3>1 DEF DequesChained
    <3>3. ClosedUnder(prev, nodes)
      BY <2>0 DEF ClosedUnder, ListsLinked
    <3>4. ClosedUnder(nextInTxn, nodes)
      BY <1>1, LaterNodesWrite DEF ClosedUnder
    <3>5. nodes \in SUBSET {n \in nodes : txnId(n) # t}
      BY <3>2
    <3> QED
      BY <2>1, <3>3, <3>4, <3>5 DEF checkDeadlock
  <2>3. \A n \in nodes : recordId(n) = r => txnId(n) \in D
    BY <2>2 DEF WouldWaitFor
  <2>4. ASSUME NEW n \in nodes PROVE \A m \in Ahead(n) : m \in nodes /\ recordId(m) = recordId(n)
    <3> DEFINE B == {m \in nodes : recordId(m) = recordId(n)}
    <3>1. B \in SUBSET nodes /\ n \in B /\ ClosedUnder(prev, B)
      BY <2>0, <2>4 DEF ClosedUnder, ListsLinked
    <3>2. Ahead(n) \subseteq B
      BY <3>1 DEF Ahead
    <3> QED
      BY <3>2
  <2>5. tail[r] \in C
    BY <2>1, <2>3, <2>4
  <2>6. ClosedUnder(prev, C)
    <3> SUFFICES ASSUME NEW n \in C, prev[n] # null PROVE prev[n] \in C
      BY DEF ClosedUnder
    <3>1. n \in nodes /\ txnId(n) \in D /\ \A m \in Ahead(n) : txnId(m) \in D
      OBVIOUS
    <3>2. prev[n] \in nodes
      BY <2>0, <3>1 DEF ListsLinked
    <3>3. prev[n] # n
      <4>1. {n} \in SUBSET nodes /\ {n} # {}
        BY <3>1
      <4> QED
        BY <2>0, <4>1 DEF WaitForAcyclic
    <3>4. txnId(prev[n]) \in D
      BY <2>0, <3>1, <3>2, <3>3, PrevAhead
    <3>5. \A k \in Ahead(prev[n]) : txnId(k) \in D
      BY <2>0, <3>1, <3>2, AheadOfPrev
    <3> QED
      BY <3>2, <3>4, <3>5
  <2>7. ClosedUnder(nextInTxn, C)
    <3> SUFFICES ASSUME NEW n \in C, nextInTxn[n] # null PROVE nextInTxn[n] \in C
      BY DEF ClosedUnder
    <3> DEFINE p == nextInTxn[n]
               u == txnId(n)
    <3>1. n \in nodes /\ u \in D
      OBVIOUS
    <3>2. p \in nodes /\ txnId(p) = u /\ lockMode[p] = "WRITE"
      BY <1>1, <3>1, LaterNodesWrite
    <3>3. CASE locked[p]
      <4>1. u \in Waiting /\ p = myLock(u)
        BY <2>0, <3>1, <3>2, <3>3 DEF OnlyLastWaits, Waiting
      <4>2. \A m \in Ahead(p) : txnId(m) \in WaitsFor(u)
        BY <2>4, <3>2, <4>1 DEF WaitsFor
      <4> QED
        BY <3>1, <3>2, <4>1, <4>2
    <3>4. CASE ~locked[p]
      <4>1. prev[p] = null
        BY <2>0, <3>2, <3>4 DEF GrantsOK
      <4>2. Ahead(p) = {}
        BY <2>0, <3>2, <4>1, AheadStep
      <4> QED
        BY <3>1, <3>2, <4>2
    <3> QED
      BY <3>3, <3>4
  <2>8. C \in SUBSET {n \in nodes : txnId(n) # t}
    OBVIOUS
  <2> HIDE DEF C
  <2> QED
    BY <2>5, <2>6, <2>7, <2>8 DEF checkDeadlock
<1> QED
  BY <1>1, DatabaseInvariant, PTL

-----------------------------------------------------------------------------
(* The log files                                                           *)

\* The line that thread t writes when it flushes its log.
PendingLine(t) ==
    [id |-> commitId[t],
     entries |-> [e \in DOMAIN log[t] |-> <<log[t][e].record, log[t][e].after>>]]

LimitedOrder == Min({executionOrder, MaxExecution})

LinesOK ==
    /\ \A k, l \in Lines : k.id = l.id => k = l
    /\ \A l \in Lines : l.id \in 1..LimitedOrder
    /\ \A c \in 1..LimitedOrder : \E l \in Lines : l.id = c
    /\ \A t \in Txn : \A l, m \in DOMAIN files[t] : l < m => files[t][l].id < files[t][m].id
    /\ \A t \in Txn : pc[t] = "flush" => \A l \in DOMAIN files[t] : files[t][l].id < commitId[t]

\* The minimum of two numbers.
LEMMA MinOfTwo ==
    ASSUME NEW a \in Int, NEW b \in Int
    PROVE  Min({a, b}) = IF a <= b THEN a ELSE b
BY DEF Min

\* The last commit id that is logged.
LEMMA LimitedOrderValue ==
    ASSUME executionOrder \in Nat
    PROVE  /\ LimitedOrder \in Nat
           /\ LimitedOrder = IF executionOrder <= MaxExecution THEN executionOrder ELSE MaxExecution
BY MaxExecutionAssumption, MinOfTwo DEF LimitedOrder

\* The lines that are written, and those of the threads about to write one.
LEMMA LinesMembers ==
    ASSUME NEW x
    PROVE  x \in Lines <=> \/ \E t \in Txn : \E l \in DOMAIN files[t] : x = files[t][l]
                           \/ \E t \in Txn : pc[t] = "flush" /\ x = PendingLine(t)
<1> DEFINE F == UNION {{files[t][l] : l \in DOMAIN files[t]} : t \in Txn}
           P == {PendingLine(t) : t \in {u \in Txn : pc[u] = "flush"}}
<1>1. x \in F
         <=> \E t \in Txn : \E l \in DOMAIN files[t] : x = files[t][l]
  OBVIOUS
<1>2. x \in P
         <=> \E t \in Txn : pc[t] = "flush" /\ x = PendingLine(t)
  OBVIOUS
<1>3. Lines = F \cup P
  BY DEF Lines, PendingLine
<1> HIDE DEF F, P
<1> QED
  BY <1>1, <1>2, <1>3

\* LinesMembers after a step.
LEMMA LinesMembersPrime ==
    ASSUME NEW x
    PROVE  x \in Lines' <=> \/ \E t \in Txn : \E l \in DOMAIN files'[t] : x = files'[t][l]
                            \/ \E t \in Txn : pc'[t] = "flush" /\ x = PendingLine(t)'
<1> DEFINE F == UNION {{files'[t][l] : l \in DOMAIN files'[t]} : t \in Txn}
           P == {PendingLine(t)' : t \in {u \in Txn : pc'[u] = "flush"}}
<1>1. x \in F
         <=> \E t \in Txn : \E l \in DOMAIN files'[t] : x = files'[t][l]
  OBVIOUS
<1>2. x \in P
         <=> \E t \in Txn : pc'[t] = "flush" /\ x = PendingLine(t)'
  OBVIOUS
<1>3. Lines' = F \cup P
  BY DEF Lines, PendingLine
<1> HIDE DEF F, P
<1> QED
  BY <1>1, <1>2, <1>3

\* The line that a thread is about to write is well-formed.
LEMMA PendingType ==
    ASSUME DBInv, NEW t \in Txn, pc[t] = "flush"
    PROVE  PendingLine(t) \in Line
<1>1. log[t] \in Seq(LogEntry) /\ commitId[t] \in 1..MaxExecution
  BY OwnFacts DEF ControlOK
<1> QED
  BY <1>1, LineType DEF PendingLine

\* The lines that other threads have written or are about to write stay.
LEMMA OthersLines ==
    ASSUME DBInv, NEW t \in Txn, Thread(t), NEW u \in Txn, u # t
    PROVE  files'[u] = files[u] /\ pc'[u] = pc[u] /\ PendingLine(u)' = PendingLine(u)
<1>1. /\ pc'[u] = pc[u] /\ commitId'[u] = commitId[u] /\ log'[u] = log[u] /\ files'[u] = files[u]
  BY OthersKept DEF DBInv
<1> QED
  BY <1>1 DEF PendingLine

\* A line is about to be written from the step that draws its commit id on;
\* no other step adds or removes one.
Commits(t) == GetCommitId(t) /\ executionOrder < MaxExecution

\* Only the step that draws a commit id within the limit leads to a flush,
\* and only the flush writes to a file.
LEMMA NotFlushing ==
    ASSUME DBInv, NEW t \in Txn, Thread(t), ~Commits(t), ~FlushLog(t)
    PROVE  pc[t] # "flush" /\ pc'[t] # "flush" /\ files'[t] = files[t]
<1>0. pc \in [Txn -> PCState] /\ files \in [Txn -> Seq(Line)] /\ executionOrder \in Nat
      /\ commitId \in [Txn -> Nat] /\ MaxExecution \in Nat
  BY MaxExecutionAssumption DEF DBInv, ArgsOK, DataTypeOK
<1>1. CASE GetCommitId(t)
  BY <1>0, <1>1 DEF GetCommitId, goto, Commits
<1>2. CASE Read(t) \/ AddStore(t) \/ AddLoad(t)
  BY <1>0, <1>2 DEF Read, AddStore, AddLoad, Logged, goto, dataVars
<1>3. CASE \/ Choose(t) \/ CallLock(t) \/ LockRefused(t) \/ LockAcquired(t) \/ Undo(t)
           \/ StashLog(t) \/ CallUnlock(t) \/ Unlocking(t)
  BY <1>0, <1>3 DEF Choose, CallLock, LockRefused, LockAcquired, Undo, StashLog, CallUnlock,
                    Unlocking, goto, dataVars
<1>4. CASE Unlocked(t)
  <2>1. commitId[t] = 0 => pc' = [pc EXCEPT ![t] = "lock"]
    BY <1>4 DEF Unlocked, goto
  <2>2. commitId[t] # 0 => pc' = [pc EXCEPT ![t] = IF commitId[t] \in 1..MaxExecution THEN "begin" ELSE "done"]
    BY <1>4 DEF Unlocked, goto
  <2>3. pc[t] = "unlock" /\ files' = files
    BY <1>4 DEF Unlocked, dataVars
  <2> QED
    BY <1>0, <2>1, <2>2, <2>3
<1> QED
  BY <1>1, <1>2, <1>3, <1>4 DEF Thread, AcquiringMutex, Running

\* A step that draws no commit id neither adds a line nor loses one: flushLog
\* only moves the line from the log to the file.
LEMMA LinesKept ==
    ASSUME DBInv, NEW t \in Txn, Thread(t), ~Commits(t)
    PROVE  Lines' = Lines
<1>0. pc \in [Txn -> PCState] /\ files \in [Txn -> Seq(Line)] /\ executionOrder \in Nat
      /\ commitId \in [Txn -> Nat] /\ MaxExecution \in Nat
  BY MaxExecutionAssumption DEF DBInv, ArgsOK, DataTypeOK
<1>1. CASE FlushLog(t)
  <2>1. /\ pc[t] = "flush" /\ pc' = [pc EXCEPT ![t] = "unlock"]
        /\ files' = [files EXCEPT ![t] = Append(@, PendingLine(t))]
    BY <1>1 DEF FlushLog, goto, PendingLine
  <2>2. PendingLine(t) \in Line
    BY <2>1, PendingType
  <2>3. pc'[t] = "unlock" /\ files'[t] = Append(files[t], PendingLine(t)) /\ files[t] \in Seq(Line)
    BY <1>0, <2>1
  <2>4. \A x : (\E l \in DOMAIN files'[t] : x = files'[t][l]) <=>
               (\E l \in DOMAIN files[t] : x = files[t][l]) \/ x = PendingLine(t)
    <3> HIDE DEF PendingLine
    <3>1. /\ DOMAIN files[t] = 1..Len(files[t]) /\ Len(files[t]) \in Nat
          /\ DOMAIN files'[t] = 1..Len(files[t]) + 1
          /\ \A l \in 1..Len(files[t]) : files'[t][l] = files[t][l]
          /\ files'[t][Len(files[t]) + 1] = PendingLine(t)
      BY <2>2, <2>3
    <3> QED
      BY <3>1, SMTT(30)
  <2>5. \A x : x \in Lines' <=> x \in Lines
    <3> TAKE x
    <3>1. \A u \in Txn : u # t => files'[u] = files[u] /\ pc'[u] = pc[u]
                                  /\ PendingLine(u)' = PendingLine(u)
      BY OthersLines
    <3>2. x \in Lines' <=> \/ \E u \in Txn \ {t} : \E l \in DOMAIN files[u] : x = files[u][l]
                           \/ \E l \in DOMAIN files[t] : x = files[t][l]
                           \/ x = PendingLine(t)
                           \/ \E u \in Txn \ {t} : pc[u] = "flush" /\ x = PendingLine(u)
      BY <2>3, <2>4, <3>1, LinesMembersPrime, SMTT(30)
    <3> QED
      BY <2>1, <3>2, LinesMembers
  <2> QED
    BY <2>5
<1>2. CASE ~FlushLog(t)
  <2>1. pc[t] # "flush" /\ pc'[t] # "flush" /\ files'[t] = files[t]
    BY <1>2, NotFlushing
  <2>2. \A x : x \in Lines' <=> x \in Lines
    <3> TAKE x
    <3>1. \A u \in Txn : /\ files'[u] = files[u]
                         /\ pc'[u] = "flush" <=> pc[u] = "flush"
                         /\ pc[u] = "flush" => PendingLine(u)' = PendingLine(u)
      BY <2>1, OthersLines
    <3> QED
      BY <3>1, LinesMembers, LinesMembersPrime
  <2> QED
    BY <2>2
<1> QED
  BY <1>1, <1>2

\* The step that draws a commit id within the limit adds its line.
LEMMA LineAdded ==
    ASSUME DBInv, NEW t \in Txn, Commits(t)
    PROVE  /\ Lines' = Lines \cup {PendingLine(t)'}
           /\ PendingLine(t)' =
                 [id |-> executionOrder + 1,
                  entries |-> [e \in DOMAIN log[t] |-> <<log[t][e].record, log[t][e].after>>]]
<1>0. pc \in [Txn -> PCState] /\ commitId \in [Txn -> Nat] /\ executionOrder \in Nat
      /\ MaxExecution \in Nat
  BY MaxExecutionAssumption DEF DBInv, ArgsOK
<1>1. /\ pc[t] = "commit" /\ pc'[t] = "flush" /\ files'[t] = files[t]
      /\ commitId'[t] = executionOrder + 1 /\ log' = log
  BY <1>0 DEF Commits, GetCommitId, goto
<1>2. \A u \in Txn : u # t => files'[u] = files[u] /\ pc'[u] = pc[u]
                              /\ PendingLine(u)' = PendingLine(u)
  BY OthersLines DEF Commits, Thread, Running
<1>3. \A x : x \in Lines' <=> x \in Lines \/ x = PendingLine(t)'
  <2> TAKE x
  <2>1. x \in Lines' <=> \/ \E u \in Txn : \E l \in DOMAIN files[u] : x = files[u][l]
                         \/ x = PendingLine(t)'
                         \/ \E u \in Txn \ {t} : pc[u] = "flush" /\ x = PendingLine(u)
    BY <1>1, <1>2, LinesMembersPrime
  <2> QED
    BY <1>1, <2>1, LinesMembers
<1> QED
  BY <1>1, <1>3 DEF PendingLine

\* The number of lines that count changes with a commit only.
LEMMA LimitedOrderKept ==
    ASSUME DBInv, NEW t \in Txn, Thread(t), ~Commits(t)
    PROVE  LimitedOrder' = LimitedOrder
<1>0. executionOrder \in Nat /\ MaxExecution \in Nat
  BY MaxExecutionAssumption DEF DBInv, ArgsOK
<1>1. CASE GetCommitId(t)
  <2>1. executionOrder' = executionOrder + 1 /\ executionOrder >= MaxExecution
    BY <1>0, <1>1 DEF Commits, GetCommitId
  <2>2. executionOrder' \in Nat /\ executionOrder' \in Int /\ MaxExecution \in Int
    BY <1>0, <2>1
  <2>3. LimitedOrder' = IF executionOrder' <= MaxExecution THEN executionOrder' ELSE MaxExecution
    BY <2>2, MinOfTwo DEF LimitedOrder
  <2> QED
    BY <1>0, <2>1, <2>3, LimitedOrderValue
<1>2. CASE ~GetCommitId(t)
  BY <1>2 DEF Thread, AcquiringMutex, Running, Choose, CallLock, LockRefused,
              LockAcquired, Read, AddLoad, AddStore, FlushLog, Undo, StashLog, CallUnlock,
              Unlocking, Unlocked, dataVars, LimitedOrder
<1> QED
  BY <1>1, <1>2

\* At the beginning there is no line.
LEMMA LinesInit == DBInit => LinesOK
<1> SUFFICES ASSUME DBInit PROVE LinesOK
  OBVIOUS
<1>1. \A x : x \notin Lines
  BY LinesMembers DEF DBInit
<1>2. LimitedOrder = 0
  BY MaxExecutionAssumption, LimitedOrderValue DEF DBInit
<1> QED
  BY <1>1, <1>2 DEF LinesOK, DBInit

\* A step that draws a commit id up to the limit adds the line of that id, and
\* a step that writes to a file writes a greater id than those in it.
LEMMA LinesStep ==
    ASSUME DBInv, LinesOK, [DBNext]_dbVars
    PROVE  LinesOK'
<1>0. /\ executionOrder \in Nat /\ MaxExecution \in Nat /\ pc \in [Txn -> PCState]
      /\ files \in [Txn -> Seq(Line)] /\ commitId \in [Txn -> Nat]
  BY MaxExecutionAssumption DEF DBInv, ArgsOK, DataTypeOK
<1>1. ASSUME NEW t \in Txn, Thread(t), ~Commits(t) PROVE LinesOK'
  <2>1. Lines' = Lines
    BY <1>1, LinesKept
  <2>2. LimitedOrder' = LimitedOrder
    BY <1>1, LimitedOrderKept
  <2>3. ASSUME NEW u \in Txn
        PROVE  /\ \A l, m \in DOMAIN files'[u] : l < m => files'[u][l].id < files'[u][m].id
               /\ pc'[u] = "flush" => \A l \in DOMAIN files'[u] : files'[u][l].id < commitId'[u]
    <3>1. CASE u # t
      <4>1. files'[u] = files[u] /\ pc'[u] = pc[u] /\ commitId'[u] = commitId[u]
        BY <1>1, <3>1, OthersKept DEF DBInv
      <4> QED
        BY <4>1 DEF LinesOK
    <3>2. CASE u = t /\ FlushLog(t)
      <4>1. /\ pc[t] = "flush" /\ pc' = [pc EXCEPT ![t] = "unlock"]
            /\ files' = [files EXCEPT ![t] = Append(@, PendingLine(t))]
        BY <3>2 DEF FlushLog, goto, PendingLine
      <4>2. PendingLine(t) \in Line /\ files[t] \in Seq(Line) /\ PendingLine(t).id = commitId[t]
        BY <1>0, <4>1, PendingType DEF PendingLine
      <4>3. /\ DOMAIN files[t] = 1..Len(files[t]) /\ Len(files[t]) \in Nat
            /\ DOMAIN files'[t] = 1..Len(files[t]) + 1
            /\ \A l \in 1..Len(files[t]) : files'[t][l] = files[t][l]
            /\ files'[t][Len(files[t]) + 1].id = commitId[t]
        <5> HIDE DEF PendingLine
        <5> QED
          BY <1>0, <4>1, <4>2
      <4>4. \A l \in DOMAIN files[t] : files[t][l].id < commitId[t]
        BY <4>1 DEF LinesOK
      <4>5. \A l, m \in DOMAIN files[t] : l < m => files[t][l].id < files[t][m].id
        BY DEF LinesOK
      <4>6. pc'[t] # "flush"
        BY <1>0, <4>1
      <4>7. ASSUME NEW l \in 1..Len(files[t]) + 1, NEW m \in 1..Len(files[t]) + 1, l < m
            PROVE  files'[t][l].id < files'[t][m].id
        <5>1. l \in 1..Len(files[t])
          BY <4>3, <4>7
        <5>2. CASE m = Len(files[t]) + 1
          BY <4>3, <4>4, <5>1, <5>2
        <5>3. CASE m # Len(files[t]) + 1
          <6>1. m \in 1..Len(files[t])
            BY <4>3, <5>3
          <6> QED
            BY <4>3, <4>5, <4>7, <5>1, <6>1
        <5> QED
          BY <5>2, <5>3
      <4> QED
        BY <3>2, <4>3, <4>6, <4>7
    <3>3. CASE u = t /\ ~FlushLog(t)
      <4>1. pc'[t] # "flush" /\ files'[t] = files[t]
        BY <1>1, <3>3, NotFlushing
      <4> QED
        BY <3>3, <4>1 DEF LinesOK
    <3> QED
      BY <3>1, <3>2, <3>3
  <2> QED
    BY <2>1, <2>2, <2>3 DEF LinesOK
<1>2. ASSUME NEW t \in Txn, Commits(t) PROVE LinesOK'
  <2> DEFINE new == PendingLine(t)'
  <2>1. Lines' = Lines \cup {new} /\ new.id = executionOrder + 1
    BY <1>2, LineAdded
  <2>2. /\ executionOrder' = executionOrder + 1 /\ executionOrder < MaxExecution /\ files' = files
        /\ pc' = [pc EXCEPT ![t] = "flush"] /\ commitId' = [commitId EXCEPT ![t] = executionOrder + 1]
    <3>1. ~(executionOrder + 1 > MaxExecution)
      BY <1>0, <1>2 DEF Commits
    <3> QED
      BY <1>2, <3>1 DEF Commits, GetCommitId, goto
  <2>3. LimitedOrder = executionOrder /\ LimitedOrder' = executionOrder + 1
    <3>1. executionOrder' \in Int /\ MaxExecution \in Int
      BY <1>0, <2>2
    <3>2. LimitedOrder' = IF executionOrder' <= MaxExecution THEN executionOrder' ELSE MaxExecution
      BY <3>1, MinOfTwo DEF LimitedOrder
    <3> QED
      BY <1>0, <2>2, <3>2, LimitedOrderValue
  <2> HIDE DEF new
  <2>4. \A l \in Lines : l.id \in 1..executionOrder
    BY <2>3 DEF LinesOK
  <2>5. \A k, l \in Lines' : k.id = l.id => k = l
    <3>1. \A k \in Lines : k.id # new.id
      BY <1>0, <2>1, <2>4
    <3>2. \A k, l \in Lines : k.id = l.id => k = l
      BY DEF LinesOK
    <3> QED
      BY <2>1, <3>1, <3>2
  <2>6. \A l \in Lines' : l.id \in 1..LimitedOrder'
    BY <1>0, <2>1, <2>3, <2>4
  <2>7. ASSUME NEW c \in 1..LimitedOrder' PROVE \E l \in Lines' : l.id = c
    <3>1. CASE c = executionOrder + 1
      BY <2>1, <3>1
    <3>2. CASE c # executionOrder + 1
      <4>1. c \in 1..LimitedOrder
        BY <1>0, <2>3, <3>2
      <4> QED
        BY <2>1, <4>1 DEF LinesOK
    <3> QED
      BY <3>1, <3>2
  <2>8. ASSUME NEW u \in Txn, pc'[u] = "flush", NEW l \in DOMAIN files[u]
        PROVE  files[u][l].id < commitId'[u]
    <3>1. CASE u = t
      <4>1. files[u][l] \in Lines
        BY LinesMembers
      <4>2. files[u][l].id \in 1..executionOrder
        BY <2>4, <4>1
      <4> QED
        BY <1>0, <2>2, <3>1, <4>2
    <3>2. CASE u # t
      BY <1>0, <2>2, <2>8, <3>2 DEF LinesOK
    <3> QED
      BY <3>1, <3>2
  <2>9. \A u \in Txn : \A l, m \in DOMAIN files'[u] : l < m => files'[u][l].id < files'[u][m].id
    BY <2>2 DEF LinesOK
  <2> QED
    BY <2>2, <2>5, <2>6, <2>7, <2>8, <2>9 DEF LinesOK
<1>3. CASE UNCHANGED dbVars
  <2>1. /\ files' = files /\ pc' = pc /\ commitId' = commitId /\ log' = log
        /\ executionOrder' = executionOrder
    BY <1>3 DEF dbVars, dataVars, localVars
  <2>2. Lines' = Lines /\ LimitedOrder' = LimitedOrder
    BY <2>1 DEF Lines, LimitedOrder
  <2> QED
    BY <2>1, <2>2 DEF LinesOK
<1> QED
  BY <1>1, <1>2, <1>3 DEF DBNext, Joined

\* The lines follow from the commit ids for ever.
LEMMA LinesInvariant == DBSpec => [](DBInv /\ LinesOK)
<1>1. DBInit => DBInv /\ LinesOK
  BY DBInvInit, LinesInit
<1>2. DBInv /\ LinesOK /\ [DBNext]_dbVars => DBInv' /\ LinesOK'
  BY DBInvStep, LinesStep
<1> QED
  BY <1>1, <1>2, PTL DEF DBSpec

\* When the program ends the log files together have one line for each commit
\* id up to the limit, and each file has its lines in order.  (Without threads
\* there would be no lines.)
THEOREM DatabaseLog ==
    ASSUME Txn # {}
    PROVE  DBSpec => []LogComplete
<1>1. ASSUME DBInv, LinesOK PROVE LogComplete
  <2>1. ASSUME Finished
        PROVE  UNION {{files[t][l].id : l \in DOMAIN files[t]} : t \in Txn} = 1..MaxExecution
    <3> DEFINE ids == UNION {{files[t][l].id : l \in DOMAIN files[t]} : t \in Txn}
    <3>1. PICK t \in Txn : pc[t] = "done"
      BY <2>1 DEF Finished
    <3>2. executionOrder \in Nat /\ executionOrder > MaxExecution /\ MaxExecution \in Nat
      BY <1>1, <3>1, OwnFacts, MaxExecutionAssumption DEF ControlOK
    <3>3. LimitedOrder = MaxExecution
      BY <3>2, LimitedOrderValue
    <3>4. \A x : x \in Lines <=> \E u \in Txn : \E l \in DOMAIN files[u] : x = files[u][l]
      BY <2>1, LinesMembers DEF Finished
    <3>5. \A c : c \in ids <=> \E x \in Lines : x.id = c
      <4>1. \A c : c \in ids <=> \E u \in Txn : \E l \in DOMAIN files[u] : c = files[u][l].id
        OBVIOUS
      <4> HIDE DEF ids
      <4> QED
        BY <3>4, <4>1
    <3>6. \A c : c \in 1..MaxExecution <=> \E x \in Lines : x.id = c
      BY <1>1, <3>3 DEF LinesOK
    <3> HIDE DEF ids
    <3>7. ids = 1..MaxExecution
      BY <3>5, <3>6
    <3> QED
      BY <3>7 DEF ids
  <2> QED
    BY <1>1, <2>1 DEF LogComplete, LinesOK
<1> QED
  BY <1>1, LinesInvariant, PTL

-----------------------------------------------------------------------------
(* The database is serializable                                            *)

\* The committed value of a record is the before value in the log of any
\* uncommitted transaction, and the value of the record if there is none.
CommittedOK ==
    \A r \in Record :
        /\ \A t \in Uncommitted : \A e \in 1..Len(log[t]) :
              args[t][e] = r => committedRecords[r] = log[t][e].before
        /\ (\A t \in Uncommitted : \A e \in 1..Len(log[t]) : args[t][e] # r)
              => committedRecords[r] = records[r]

\* The values to go back to are those before the entries of unfinished logs.
LEMMA BeforeMembers ==
    ASSUME DBInv, NEW r, NEW v
    PROVE  v \in BeforeValues(r) <=>
              \E t \in Uncommitted : \E e \in 1..Len(log[t]) : args[t][e] = r /\ v = log[t][e].before
<1>1. v \in BeforeValues(r) <=>
         \E t \in Uncommitted : \E e \in DOMAIN log[t] : log[t][e].record = r /\ v = log[t][e].before
  BY DEF BeforeValues
<1>2. \A t \in Uncommitted : t \in Txn
  BY DEF Uncommitted
<1>3. \A t \in Uncommitted : DOMAIN log[t] = 1..Len(log[t])
  <2>1. \A t \in Uncommitted : log[t] \in Seq(LogEntry)
    BY <1>2 DEF DBInv, DataTypeOK
  <2> QED
    BY <2>1, LenProperties
<1>4. \A t \in Uncommitted : \A e \in 1..Len(log[t]) : log[t][e].record = args[t][e]
  BY <1>2 DEF DBInv, ThreadOK, EntriesOK
<1> QED
  BY <1>1, <1>3, <1>4

\* Two before values of one record are equal: one thread has it in its log
\* once, and two threads have both read it.
LEMMA OneBefore ==
    ASSUME DBInv, NEW t \in Txn, NEW u \in Txn,
           NEW e \in 1..Len(log[t]), NEW f \in 1..Len(log[u]), args[t][e] = args[u][f]
    PROVE  log[t][e].before = log[u][f].before
<1>1. /\ pc[t] # "unlock" /\ e \in 1..Len(lockPerTxn[t]) /\ (pc[t] # "wait" \/ e < Len(lockPerTxn[t]))
      /\ pc[u] # "unlock" /\ f \in 1..Len(lockPerTxn[u]) /\ (pc[u] # "wait" \/ f < Len(lockPerTxn[u]))
      /\ e \in 1..3 /\ f \in 1..3 /\ args[t] \in Arguments /\ args[u] \in Arguments
  BY LoggedHeld
<1>2. CASE t = u
  BY <1>1, <1>2, ArgsDiffer
<1>3. CASE t # u
  <2>1. e = 1 /\ f = 1
    BY <1>1, <1>3, BothRead
  <2>2. EntriesOK(t) /\ EntriesOK(u)
    BY DEF DBInv, ThreadOK
  <2>3. log[t][1].before = records[args[t][1]] /\ log[u][1].before = records[args[u][1]]
    BY <2>1, <2>2 DEF EntriesOK
  <2> QED
    BY <2>1, <2>3
<1> QED
  BY <1>2, <1>3

\* With the locks held by the writer alone, every record has one committed value:
\* that before the only unfinished write, or the one it has.
LEMMA CommittedValues == DBInv => CommittedOK
<1> SUFFICES ASSUME DBInv, NEW r \in Record
             PROVE  /\ \A t \in Uncommitted : \A e \in 1..Len(log[t]) :
                          args[t][e] = r => committedRecords[r] = log[t][e].before
                    /\ (\A t \in Uncommitted : \A e \in 1..Len(log[t]) : args[t][e] # r)
                          => committedRecords[r] = records[r]
  BY DEF CommittedOK
<1>1. committedRecords[r] = IF BeforeValues(r) = {} THEN records[r]
                            ELSE CHOOSE v \in BeforeValues(r) : TRUE
  BY DEF committedRecords
<1>2. ASSUME NEW t \in Uncommitted, NEW e \in 1..Len(log[t]), args[t][e] = r
      PROVE  committedRecords[r] = log[t][e].before
  <2>1. log[t][e].before \in BeforeValues(r)
    BY <1>2, BeforeMembers
  <2>2. ASSUME NEW v \in BeforeValues(r) PROVE v = log[t][e].before
    <3>1. PICK u \in Uncommitted : \E f \in 1..Len(log[u]) : args[u][f] = r /\ v = log[u][f].before
      BY BeforeMembers
    <3>2. t \in Txn /\ u \in Txn
      BY DEF Uncommitted
    <3> QED
      BY <1>2, <3>1, <3>2, OneBefore
  <2> QED
    BY <1>1, <2>1, <2>2
<1>3. ASSUME \A t \in Uncommitted : \A e \in 1..Len(log[t]) : args[t][e] # r
      PROVE  committedRecords[r] = records[r]
  <2>1. BeforeValues(r) = {}
    BY <1>3, BeforeMembers
  <2> QED
    BY <1>1, <2>1
<1> QED
  BY <1>2, <1>3

\* CommittedValues after a step.
LEMMA CommittedValuesPrime == DBInv' => CommittedOK'
BY CommittedValues, PTL

\* A step that commits nothing leaves the committed values alone.
LEMMA CommittedKept ==
    ASSUME DBInv, DBInv', NEW t \in Txn, Thread(t), ~Commits(t)
    PROVE  committedRecords' = committedRecords
<1> SUFFICES ASSUME NEW r \in Record PROVE committedRecords'[r] = committedRecords[r]
  BY DEF committedRecords
<1>0. CommittedOK /\ CommittedOK'
  BY CommittedValues, CommittedValuesPrime
<1>1. /\ commitId \in [Txn -> Nat] /\ log \in [Txn -> Seq(LogEntry)] /\ MaxExecution \in Nat
      /\ records \in [Record -> Value] /\ executionOrder \in Nat /\ args \in [Txn -> Arguments \cup {<<>>}]
      /\ undone \in [Txn -> Nat] /\ Len(log[t]) \in Nat
  BY OwnFacts, MaxExecutionAssumption
<1>2. \A u \in Txn : u # t => /\ args'[u] = args[u] /\ log'[u] = log[u]
                              /\ u \in Uncommitted' <=> u \in Uncommitted
  BY OthersKept DEF DBInv, Uncommitted
<1>3. ASSUME NEW u \in Txn \ {t}, u \in Uncommitted, NEW e \in 1..Len(log[u]), args[u][e] = r
      PROVE  committedRecords'[r] = committedRecords[r]
  BY <1>0, <1>2, <1>3 DEF CommittedOK
<1>4. ASSUME \A u \in Txn \ {t} : u \in Uncommitted => \A e \in 1..Len(log[u]) : args[u][e] # r
      PROVE  committedRecords'[r] = committedRecords[r]
  <2> DEFINE old(e) == t \in Uncommitted /\ e \in 1..Len(log[t]) /\ args[t][e] = r
             new(e) == t \in Uncommitted' /\ e \in 1..Len(log'[t]) /\ args'[t][e] = r
  <2>1. /\ \A e : old(e) => committedRecords[r] = log[t][e].before
        /\ (\A e : ~old(e)) => committedRecords[r] = records[r]
    BY <1>0, <1>4 DEF CommittedOK, Uncommitted
  <2>2. /\ \A e : new(e) => committedRecords'[r] = log'[t][e].before
        /\ (\A e : ~new(e)) => committedRecords'[r] = records'[r]
    BY <1>0, <1>2, <1>4 DEF CommittedOK, Uncommitted
  <2>3. CASE \/ CallLock(t) \/ LockRefused(t) \/ LockAcquired(t) \/ AddLoad(t) \/ CallUnlock(t)
             \/ Unlocking(t)
    <3>1. args' = args /\ log' = log /\ commitId' = commitId /\ records' = records
      BY <2>3 DEF CallLock, LockRefused, LockAcquired, AddLoad, CallUnlock, Unlocking,
                  dataVars, localVars
    <3>2. \A e : new(e) <=> old(e)
      BY <3>1 DEF Uncommitted
    <3> HIDE DEF new, old
    <3> QED
      BY <2>1, <2>2, <3>1, <3>2
  <2>4. CASE GetCommitId(t)
    <3>1. /\ args' = args /\ log' = log /\ records' = records
          /\ pc[t] = "commit" /\ executionOrder >= MaxExecution
          /\ commitId'[t] = executionOrder + 1
      BY <1>1, <2>4 DEF GetCommitId, Commits
    <3>2. commitId[t] = 0
      BY <3>1, OwnFacts DEF ControlOK
    <3>3. t \in Uncommitted /\ t \in Uncommitted'
      BY <1>1, <3>1, <3>2 DEF Uncommitted
    <3>4. \A e : new(e) <=> old(e)
      BY <3>1, <3>3
    <3> HIDE DEF new, old
    <3> QED
      BY <2>1, <2>2, <3>1, <3>4
  <2>5. CASE Choose(t) \/ Unlocked(t)
    <3>1. Len(log[t]) = 0 /\ log' = log /\ records' = records
      BY <2>5, OwnFacts DEF Choose, Unlocked, dataVars, ControlOK
    <3>2. \A e : ~new(e) /\ ~old(e)
      BY <3>1
    <3> HIDE DEF new, old
    <3> QED
      BY <2>1, <2>2, <3>1, <3>2
  <2>6. CASE Read(t)
    <3> DEFINE v == records[target(t)]
    <3>1. /\ pc[t] = "access" /\ op[t] = 1 /\ args' = args /\ commitId' = commitId
          /\ records' = records /\ Logged(t, target(t), v, v)
      BY <2>6 DEF Read
    <3>2. Len(log[t]) = 0 /\ target(t) \in Record /\ v \in Value /\ target(t) = args[t][1]
      BY <1>1, <3>1, OwnFacts DEF ControlOK, target
    <3>3. /\ Len(log'[t]) = 1
          /\ log'[t][1] = [record |-> target(t), before |-> v, after |-> v]
      <4> HIDE DEF v
      <4>1. /\ Len(log'[t]) = Len(log[t]) + 1
            /\ log'[t][Len(log[t]) + 1] = [record |-> target(t), before |-> v, after |-> v]
        BY <3>1, <3>2, LoggedType DEF DBInv
      <4> QED
        BY <3>2, <4>1
    <3>4. \A e : ~old(e)
      BY <3>2
    <3>5. \A e : new(e) => log'[t][e].before = records[r]
      BY <3>1, <3>2, <3>3
    <3> HIDE DEF new, old
    <3> QED
      BY <2>1, <2>2, <3>1, <3>4, <3>5
  <2>7. CASE AddStore(t)
    <3> DEFINE w == Wrap(before[t] + operand(t))
    <3>1. /\ pc[t] = "store" /\ op[t] \in 2..3 /\ target(t) \in Record
          /\ target(t) = args[t][op[t]] /\ args[t] \in Arguments
          /\ Len(log[t]) = op[t] - 1 /\ commitId[t] = 0 /\ before[t] = records[target(t)]
      BY <2>7, OwnFacts DEF AddStore, ControlOK, target
    <3>2. /\ records' = [records EXCEPT ![target(t)] = w] /\ args' = args /\ commitId' = commitId
          /\ Logged(t, target(t), before[t], w)
      BY <2>7 DEF AddStore
    <3>3. before[t] \in Value /\ w \in Value
      <4>1. before[t] \in Value /\ before[t] \in Int /\ record[t] \in Int
        BY ValueInt DEF DBInv, DataTypeOK
      <4>2. before[t] + operand(t) \in Int
        BY <4>1 DEF operand
      <4> QED
        BY <4>1, <4>2, WrapValue
    <3> HIDE DEF w
    <3>4. /\ Len(log'[t]) = op[t]
          /\ \A e \in 1..op[t] - 1 : log'[t][e] = log[t][e]
          /\ log'[t][op[t]].before = before[t]
      <4>1. /\ Len(log'[t]) = Len(log[t]) + 1
            /\ \A e \in 1..Len(log[t]) : log'[t][e] = log[t][e]
            /\ log'[t][Len(log[t]) + 1] =
                  [record |-> target(t), before |-> before[t], after |-> w]
        BY <3>1, <3>2, <3>3, LoggedType DEF DBInv
      <4>2. Len(log[t]) + 1 = op[t]
        BY <3>1
      <4>3. log'[t][op[t]].before = before[t]
        BY <4>1, <4>2
      <4> QED
        BY <3>1, <4>1, <4>2, <4>3
    <3>5. t \in Uncommitted /\ t \in Uncommitted'
      BY <3>1, <3>2 DEF Uncommitted
    <3>6. CASE r = target(t)
      <4>1. \A e : ~old(e)
        <5> SUFFICES ASSUME NEW e \in 1..Len(log[t]) PROVE args[t][e] # r
          OBVIOUS
        <5>1. e \in 1..3 /\ e # op[t] /\ op[t] \in 1..3
          BY <3>1
        <5> QED
          BY <3>1, <3>6, <5>1, ArgsDiffer
      <4>2. new(op[t])
        BY <3>1, <3>2, <3>4, <3>5, <3>6
      <4> HIDE DEF new, old
      <4> QED
        BY <2>1, <2>2, <3>1, <3>4, <3>6, <4>1, <4>2
    <3>7. CASE r # target(t)
      <4>1. \A e : new(e) <=> old(e)
        BY <3>1, <3>2, <3>4, <3>5, <3>7
      <4>2. \A e : old(e) => log'[t][e] = log[t][e]
        BY <3>1, <3>4
      <4>3. records'[r] = records[r]
        BY <1>1, <3>1, <3>2, <3>7
      <4> HIDE DEF new, old
      <4> QED
        BY <2>1, <2>2, <4>1, <4>2, <4>3
    <3> QED
      BY <3>6, <3>7
  <2>8. CASE FlushLog(t)
    <3>1. /\ pc[t] = "flush" /\ records' = records /\ log' = [log EXCEPT ![t] = <<>>]
      BY <2>8 DEF FlushLog
    <3>2. commitId[t] \in 1..MaxExecution
      BY <3>1, OwnFacts DEF ControlOK
    <3>3. t \notin Uncommitted /\ log'[t] = <<>>
      BY <1>1, <3>1, <3>2 DEF Uncommitted
    <3>4. \A e : ~new(e) /\ ~old(e)
      BY <3>3
    <3> HIDE DEF new, old
    <3> QED
      BY <2>1, <2>2, <3>1, <3>4
  <2>9. CASE Undo(t)
    <3> DEFINE d == undone[t] + 1
    <3>1. pc[t] = "undo" /\ undone[t] < Len(log[t]) /\ args' = args /\ commitId' = commitId /\ log' = log
      BY <2>9 DEF Undo
    <3>2. d \in 1..Len(log[t]) /\ log[t][d].record = args[t][d]
      BY <3>1, UndoneRecord
    <3>3. records' = [records EXCEPT ![args[t][d]] = log[t][d].before]
      BY <2>9, <3>2 DEF Undo
    <3>4. t \in Uncommitted
      BY <3>1, OwnFacts DEF ControlOK, Uncommitted
    <3>5. \A e : new(e) <=> old(e)
      BY <3>1 DEF Uncommitted
    <3>6. r = args[t][d] => old(d)
      BY <3>2, <3>4
    <3>7. r # args[t][d] => records'[r] = records[r]
      <4> HIDE DEF d
      <4> QED
        BY <1>1, <3>3
    <3> HIDE DEF new, old, d
    <3> QED
      BY <2>1, <2>2, <3>1, <3>5, <3>6, <3>7
  <2>10. CASE StashLog(t)
    <3>1. pc[t] = "undo" /\ undone[t] = Len(log[t]) /\ records' = records
          /\ log' = [log EXCEPT ![t] = <<>>]
      BY <2>10 DEF StashLog
    <3>2. \A e \in 1..Len(log[t]) : records[args[t][e]] = log[t][e].before
      BY <1>1, <3>1, OwnFacts DEF EntriesOK
    <3>3. log'[t] = <<>>
      BY <1>1, <3>1
    <3>4. \A e : ~new(e)
      BY <3>3
    <3>5. \A e : old(e) => log[t][e].before = records[r]
      BY <3>2
    <3> HIDE DEF new, old
    <3> QED
      BY <2>1, <2>2, <3>1, <3>4, <3>5
  <2> QED
    BY <2>3, <2>4, <2>5, <2>6, <2>7, <2>8, <2>9, <2>10 DEF Thread, AcquiringMutex, Running
<1> QED
  BY <1>3, <1>4

\* The history has the line of each commit id.
HistoryOK ==
    /\ committedHistory \in Seq(Seq(Record \X Value))
    /\ Len(committedHistory) = LimitedOrder
    /\ \A l \in Lines : committedHistory[l.id] = l.entries

\* Every line is well-formed.
LEMMA LinesType == DBInv => \A l \in Lines : l \in Line
<1> SUFFICES ASSUME DBInv, NEW l \in Lines PROVE l \in Line
  OBVIOUS
<1>1. ASSUME NEW t \in Txn, NEW m \in DOMAIN files[t] PROVE files[t][m] \in Line
  BY DEF DBInv, DataTypeOK
<1>2. ASSUME NEW t \in Txn, pc[t] = "flush" PROVE PendingLine(t) \in Line
  BY <1>2, PendingType
<1> QED
  BY <1>1, <1>2, LinesMembers

\* The committed history in the order of the ids has the entries of each line.
LEMMA HistoryLines == DBInv /\ LinesOK => HistoryOK
<1> SUFFICES ASSUME DBInv, LinesOK PROVE HistoryOK
  OBVIOUS
<1> DEFINE found(c) == {l \in Lines : l.id = c}
<1>1. LimitedOrder \in Nat
  BY LimitedOrderValue DEF DBInv, ArgsOK
<1>2. committedHistory = [c \in 1..LimitedOrder |->
          IF Cardinality(found(c)) = 1 THEN (CHOOSE l \in found(c) : TRUE).entries ELSE <<>>]
  BY DEF committedHistory, LimitedOrder
<1>3. ASSUME NEW l \in Lines PROVE l.id \in 1..LimitedOrder /\ committedHistory[l.id] = l.entries
  <2>1. l.id \in 1..LimitedOrder
    BY DEF LinesOK
  <2>2. found(l.id) = {l}
    BY DEF LinesOK
  <2>3. Cardinality({l}) = 1 /\ (CHOOSE k \in {l} : TRUE) = l
    BY FS_Singleton
  <2> HIDE DEF found
  <2> QED
    BY <1>2, <2>1, <2>2, <2>3
<1>4. ASSUME NEW c \in 1..LimitedOrder PROVE committedHistory[c] \in Seq(Record \X Value)
  <2>1. PICK l \in Lines : l.id = c
    BY DEF LinesOK
  <2>2. l.entries \in Seq(Record \X Value)
    BY LinesType DEF Line
  <2> QED
    BY <1>3, <2>1, <2>2
<1>5. committedHistory \in [1..LimitedOrder -> Seq(Record \X Value)]
  <2> HIDE DEF found
  <2> QED
    BY <1>2, <1>4
<1>6. committedHistory \in Seq(Seq(Record \X Value))
  BY <1>1, <1>5, SeqDef
<1>7. Len(committedHistory) = LimitedOrder
  BY <1>1, <1>5, <1>6, LenProperties
<1> QED
  BY <1>3, <1>6, <1>7 DEF HistoryOK

\* HistoryLines after a step.
LEMMA HistoryLinesPrime == DBInv' /\ LinesOK' => HistoryOK'
BY HistoryLines, PTL

\* The history depends on the lines and their number only.
LEMMA HistoryKept ==
    ASSUME Lines' = Lines, LimitedOrder' = LimitedOrder
    PROVE  committedHistory' = committedHistory
BY DEF committedHistory, LimitedOrder

\* A commit is a whole transaction of the serial database.
LEMMA CommitTransacts ==
    ASSUME DBInv, DBInv', LinesOK, LinesOK', NEW t \in Txn, Commits(t)
    PROVE  Serial!Transact(args[t][1], args[t][2], args[t][3])
<1> DEFINE i == args[t][1]
           j == args[t][2]
           k == args[t][3]
           db == committedRecords
           valueJ == Wrap(db[j] + db[i] + 1)
           valueK == Wrap(db[k] - db[i])
<1>0. CommittedOK /\ CommittedOK' /\ HistoryOK /\ HistoryOK'
  BY CommittedValues, CommittedValuesPrime, HistoryLines, HistoryLinesPrime
<1>1. /\ commitId \in [Txn -> Nat] /\ MaxExecution \in Nat /\ executionOrder \in Nat
      /\ records \in [Record -> Value] /\ log[t] \in Seq(LogEntry)
      /\ ControlOK(t) /\ EntriesOK(t)
  BY OwnFacts, MaxExecutionAssumption
<1>2. /\ pc[t] = "commit" /\ args' = args /\ log' = log /\ records' = records
      /\ commitId'[t] = executionOrder + 1 /\ executionOrder < MaxExecution
      /\ executionOrder' = executionOrder + 1
  BY <1>1 DEF Commits, GetCommitId
<1>3. /\ commitId[t] = 0 /\ Len(log[t]) = 3 /\ Len(lockPerTxn[t]) = 3 /\ undone[t] = 0
      /\ args[t] \in Arguments
  BY <1>1, <1>2, OwnFacts DEF ControlOK
<1>4. t \in Uncommitted /\ t \notin Uncommitted'
  BY <1>1, <1>2, <1>3 DEF Uncommitted
<1>5. i \in Record /\ j \in Record /\ k \in Record /\ i # j /\ i # k /\ j # k
  BY <1>3 DEF Arguments
<1>6. \A u \in Txn \ {t} : u \in Uncommitted' <=> u \in Uncommitted
  <2>1. \A u \in Txn \ {t} : commitId'[u] = commitId[u]
    BY OthersKept DEF DBInv, Commits, Thread, Running
  <2> QED
    BY <2>1 DEF Uncommitted
<1>7. db[i] = log[t][1].before /\ db[j] = log[t][2].before /\ db[k] = log[t][3].before
  BY <1>0, <1>3, <1>4, <1>5 DEF CommittedOK
<1>8. /\ log[t][1].record = i /\ log[t][2].record = j /\ log[t][3].record = k
      /\ log[t][1].after = db[i] /\ record[t] = db[i]
      /\ log[t][2].after = Wrap(db[j] + (db[i] + 1))
      /\ log[t][3].after = Wrap(db[k] + (- db[i]))
  BY <1>1, <1>3, <1>7 DEF EntriesOK
<1>9. /\ db[i] \in Int /\ db[j] \in Int /\ db[k] \in Int
  <2>1. log[t][1] \in LogEntry /\ log[t][2] \in LogEntry /\ log[t][3] \in LogEntry
    BY <1>1, <1>3
  <2> QED
    BY <1>7, <2>1, ValueInt DEF LogEntry
<1>10. log[t][2].after = valueJ /\ log[t][3].after = valueK
  <2>1. db[j] + (db[i] + 1) = db[j] + db[i] + 1 /\ db[k] + (- db[i]) = db[k] - db[i]
    BY <1>9
  <2> HIDE DEF i, j, k, db
  <2> QED
    BY <1>8, <2>1
<1>11. /\ records[i] = db[i] /\ records[j] = valueJ /\ records[k] = valueK
  <2>1. /\ records[i] = log[t][1].after /\ records[j] = log[t][2].after
        /\ records[k] = log[t][3].after
    BY <1>1, <1>3 DEF EntriesOK
  <2> QED
    BY <1>8, <1>10, <2>1
<1>12. ASSUME NEW r \in Record
       PROVE  committedRecords'[r] = IF r = j THEN valueJ ELSE IF r = k THEN valueK ELSE db[r]
  <2>1. ASSUME NEW u \in Txn \ {t}, u \in Uncommitted, NEW e \in 1..Len(log[u]), args[u][e] = r
        PROVE  committedRecords'[r] = db[r] /\ r # j /\ r # k
    <3>1. committedRecords'[r] = log[u][e].before /\ db[r] = log[u][e].before
      BY <1>0, <1>2, <1>6, <2>1 DEF CommittedOK
    <3>2. pc[u] # "unlock" /\ e \in 1..Len(lockPerTxn[u]) /\ (pc[u] # "wait" \/ e < Len(lockPerTxn[u]))
      BY <2>1, LoggedHeld
    <3>3. \A d \in 2..3 : args[t][d] # r
      <4> SUFFICES ASSUME NEW d \in 2..3, args[t][d] = r PROVE FALSE
        OBVIOUS
      <4>1. d \in 1..Len(lockPerTxn[t]) /\ d # 1 /\ pc[t] # "unlock" /\ pc[t] # "wait"
        BY <1>2, <1>3
      <4> QED
        BY <2>1, <3>2, <4>1, BothRead
    <3> QED
      BY <3>1, <3>3
  <2>2. ASSUME \A u \in Txn \ {t} : u \in Uncommitted => \A e \in 1..Len(log[u]) : args[u][e] # r
        PROVE  committedRecords'[r] = records[r]
    BY <1>0, <1>2, <1>4, <1>6, <2>2 DEF CommittedOK, Uncommitted
  <2>3. ASSUME \A u \in Txn \ {t} : u \in Uncommitted => \A e \in 1..Len(log[u]) : args[u][e] # r,
               r \notin {i, j, k}
        PROVE  db[r] = records[r]
    <3>1. \A e \in 1..Len(log[t]) : args[t][e] # r
      BY <1>3, <2>3
    <3> QED
      BY <1>0, <2>3, <3>1 DEF CommittedOK, Uncommitted
  <2> HIDE DEF i, j, k, db, valueJ, valueK
  <2> QED
    BY <1>5, <1>11, <2>1, <2>2, <2>3
<1>13. committedRecords' = [db EXCEPT ![j] = valueJ, ![k] = valueK]
  <2>1. committedRecords' = [r \in Record |-> committedRecords'[r]]
    BY DEF committedRecords
  <2>2. db = [r \in Record |-> db[r]]
    BY SMTT(30) DEF committedRecords
  <2> HIDE DEF i, j, k, db, valueJ, valueK
  <2> QED
    BY <1>5, <1>12, <2>1, <2>2
<1> DEFINE whole == << <<i, db[i]>>, <<j, valueJ>>, <<k, valueK>> >>
<1>14. PendingLine(t)'.entries = whole
  <2>1. PendingLine(t)'.entries = [e \in DOMAIN log[t] |-> <<log[t][e].record, log[t][e].after>>]
    BY LineAdded
  <2>2. DOMAIN log[t] = 1..3
    BY <1>1, <1>3
  <2> DEFINE h == [e \in 1..3 |-> <<log[t][e].record, log[t][e].after>>]
  <2>3. h[1] = whole[1] /\ h[2] = whole[2] /\ h[3] = whole[3]
    BY <1>8, <1>10
  <2>4. DOMAIN whole = 1..3 /\ whole = [e \in 1..3 |-> whole[e]]
    OBVIOUS
  <2>5. h = [e \in 1..3 |-> h[e]]
    OBVIOUS
  <2>6. \A e \in 1..3 : h[e] = whole[e]
    <3> HIDE DEF h, whole
    <3> QED
      BY <2>3
  <2>7. h = whole
    <3> HIDE DEF h, whole
    <3> QED
      BY <2>4, <2>5, <2>6
  <2> QED
    BY <2>1, <2>2, <2>7
<1>15. committedHistory' = Append(committedHistory, whole)
  <2>1. LimitedOrder = executionOrder /\ LimitedOrder' = executionOrder + 1
    <3>1. executionOrder' \in Int /\ MaxExecution \in Int
      BY <1>1, <1>2
    <3>2. LimitedOrder' = IF executionOrder' <= MaxExecution THEN executionOrder' ELSE MaxExecution
      BY <3>1, MinOfTwo DEF LimitedOrder
    <3> QED
      BY <1>1, <1>2, <3>2, LimitedOrderValue
  <2>2. Lines' = Lines \cup {PendingLine(t)'} /\ PendingLine(t)'.id = executionOrder + 1
    BY LineAdded
  <2>3. committedHistory'[executionOrder + 1] = whole
    BY <1>0, <1>14, <2>2 DEF HistoryOK
  <2>4. ASSUME NEW c \in 1..executionOrder PROVE committedHistory'[c] = committedHistory[c]
    <3>1. PICK l \in Lines : l.id = c
      BY <2>1 DEF LinesOK
    <3> QED
      BY <1>0, <2>2, <3>1 DEF HistoryOK
  <2> DEFINE S == Seq(Record \X Value)
  <2>5. /\ committedHistory \in Seq(S) /\ Len(committedHistory) = executionOrder
        /\ committedHistory' \in Seq(S) /\ Len(committedHistory') = executionOrder + 1
    BY <1>0, <2>1 DEF HistoryOK
  <2>6. whole \in S
    <3>1. committedHistory'[executionOrder + 1] \in S
      <4> HIDE DEF S
      <4> QED
        BY <1>1, <2>5
    <3> QED
      BY <2>3, <3>1
  <2> HIDE DEF S, whole
  <2>7. /\ Append(committedHistory, whole) \in Seq(S)
        /\ Len(Append(committedHistory, whole)) = executionOrder + 1
        /\ \A c \in 1..executionOrder : Append(committedHistory, whole)[c] = committedHistory[c]
        /\ Append(committedHistory, whole)[executionOrder + 1] = whole
    BY <2>5, <2>6, AppendProperties
  <2>8. \A c \in 1..executionOrder + 1 : committedHistory'[c] = Append(committedHistory, whole)[c]
    BY <1>1, <2>3, <2>4, <2>7
  <2> QED
    BY <2>5, <2>7, <2>8, SeqEqual
<1>16. Len(committedHistory) < MaxExecution
  BY <1>0, <1>1, <1>2, LimitedOrderValue DEF HistoryOK
<1> QED
  BY <1>13, <1>15, <1>16 DEF Serial!Transact, Serial!Wrap, Wrap

\* Whatever the interleaving, the committed values and the logs are those of
\* whole transactions run one by one in the order of their commit ids.
THEOREM DatabaseSerializable == DBSpec => Serializable
<1>1. DBInit => Serial!SInit
  <2> SUFFICES ASSUME DBInit PROVE Serial!SInit
    OBVIOUS
  <2>1. DBInv /\ LinesOK
    BY DBInvInit, LinesInit
  <2>2. CommittedOK /\ HistoryOK
    BY <2>1, CommittedValues, HistoryLines
  <2>3. \A t \in Txn : log[t] = <<>>
    BY DEF DBInit
  <2>4. \A r \in Record : committedRecords[r] = InitialValue
    BY <2>2, <2>3 DEF CommittedOK, Uncommitted, DBInit
  <2>5. committedRecords = [r \in Record |-> InitialValue]
    BY <2>4 DEF committedRecords
  <2>6. LimitedOrder = 0
    BY MaxExecutionAssumption, LimitedOrderValue DEF DBInit
  <2>7. committedHistory = <<>>
    BY <2>2, <2>6 DEF HistoryOK
  <2> QED
    BY <2>5, <2>7 DEF Serial!SInit
<1>2. ASSUME DBInv, LinesOK, DBInv', LinesOK', [DBNext]_dbVars
      PROVE  [Serial!SNext]_(Serial!sVars)
  <2>1. ASSUME NEW t \in Txn, Thread(t), ~Commits(t) PROVE UNCHANGED Serial!sVars
    <3>1. Lines' = Lines /\ LimitedOrder' = LimitedOrder
      BY <1>2, <2>1, LinesKept, LimitedOrderKept
    <3> QED
      BY <1>2, <2>1, <3>1, CommittedKept, HistoryKept DEF Serial!sVars
  <2>2. ASSUME NEW t \in Txn, Commits(t) PROVE Serial!SNext
    <3>1. Serial!Transact(args[t][1], args[t][2], args[t][3])
      BY <1>2, <2>2, CommitTransacts
    <3>2. args[t] \in Arguments
      BY <1>2, <2>2, OwnFacts DEF Commits, GetCommitId
    <3>3. args[t] \in Serial!Arguments
      BY <3>2 DEF Serial!Arguments, Arguments
    <3> QED
      BY <3>1, <3>3 DEF Serial!SNext
  <2>3. CASE UNCHANGED dbVars
    BY <2>3 DEF Serial!sVars, committedRecords, BeforeValues, Uncommitted, committedHistory, Lines,
                dbVars, dataVars, localVars
  <2> QED
    BY <1>2, <2>1, <2>2, <2>3 DEF DBNext, Joined
<1> QED
  BY <1>1, <1>2, LinesInvariant, PTL DEF Serializable, Serial!SSpec, DBSpec
=============================================================================
