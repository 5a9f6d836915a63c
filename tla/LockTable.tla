----------------------------- MODULE LockTable -----------------------------
(***************************************************************************)
(* The record lock table of project3 (include/Lock.hpp, src/Lock.cpp): one *)
(* doubly linked list of LockNodes per record, one deque of LockNodes per  *)
(* transaction, and one mutex, globalMtx, around both.  The nodes are the  *)
(* wait-for graph as well: prev points to the node in front of this one in *)
(* its record's list, nextInTxn to the next node of the same transaction.  *)
(*                                                                         *)
(* Everything the code does under globalMtx that no other thread can see   *)
(* half done is one action (addReaderLock, addWriterLock).  unlock is not: *)
(* a waiter spins on `locked` without the mutex, so each pass of unlock's  *)
(* loop, and each pass of its wake-up loop, is a step of its own.          *)
(*                                                                         *)
(* The clients of this module are arbitrary: a transaction may call lock   *)
(* and unlock in any order.  Module Database restricts them to the calls   *)
(* the program makes.                                                      *)
(***************************************************************************)
EXTENDS Naturals, Sequences

CONSTANTS
    Txn,        \* transaction ids, one per worker thread
    Record,     \* record ids
    NoTxn,      \* globalMtx is free
    null        \* nullptr

ASSUME NoTxnAssumption == NoTxn \notin Txn
ASSUME NullAssumption == null \notin Txn \X Record

LockMode == {"READ", "WRITE"}

\* A LockNode is named by the transaction and the record it was constructed
\* for.  That the two never name two live nodes at once is the property
\* OwnRecordRefused below.
Node == Txn \X Record
txnId(n) == n[1]
recordId(n) == n[2]

VARIABLES
    nodes,          \* the LockNodes allocated and not yet deleted
    lockMode,       \* lockMode[n] .. nextInTxn[n]: the fields of LockNode n,
    locked,         \*   at their default values while n is not allocated
    prev,
    next,
    nextInTxn,
    head,           \* head[r], tail[r]: LockList of record r
    tail,
    lockPerTxn,     \* lockPerTxn[t]: deque of the nodes of t
    globalMtx,      \* the transaction whose unlock holds the mutex
    iter,           \* the node that unlock is about to wake
    call            \* where each transaction is in a call of the table

ltVars == <<nodes, lockMode, locked, prev, next, nextInTxn, head, tail,
            lockPerTxn, globalMtx, iter, call>>

(***************************************************************************)
(* "idle": not in a call, the last one succeeded (or there was none).      *)
(* "refused": not in a call, the last lock() returned false.               *)
(* "spin": in the loop of lock(), `while (myLock->locked)`.                *)
(* "unlock": in unlock(), which holds globalMtx.                           *)
(***************************************************************************)
CallState == {"idle", "refused", "spin", "unlock"}
OutsideCall(t) == call[t] \in {"idle", "refused"}

LTTypeOK ==
    /\ nodes \subseteq Node
    /\ lockMode \in [Node -> LockMode]
    /\ locked \in [Node -> BOOLEAN]
    /\ prev \in [Node -> Node \cup {null}]
    /\ next \in [Node -> Node \cup {null}]
    /\ nextInTxn \in [Node -> Node \cup {null}]
    /\ head \in [Record -> Node \cup {null}]
    /\ tail \in [Record -> Node \cup {null}]
    /\ lockPerTxn \in [Txn -> Seq(Node)]
    /\ globalMtx \in Txn \cup {NoTxn}
    /\ iter \in Node \cup {null}
    /\ call \in [Txn -> CallState]

LTInit ==
    /\ nodes = {}
    /\ lockMode = [n \in Node |-> "READ"]
    /\ locked = [n \in Node |-> FALSE]
    /\ prev = [n \in Node |-> null]
    /\ next = [n \in Node |-> null]
    /\ nextInTxn = [n \in Node |-> null]
    /\ head = [r \in Record |-> null]
    /\ tail = [r \in Record |-> null]
    /\ lockPerTxn = [t \in Txn |-> <<>>]
    /\ globalMtx = NoTxn
    /\ iter = null
    /\ call = [t \in Txn |-> "idle"]

-----------------------------------------------------------------------------
\* Following a pointer of any node of C leads to nullptr or back into C.
ClosedUnder(field, C) == \A n \in C : field[n] \in C \cup {null}

\* Faulty variants of the search, each of which some property must reject:
\* one that never looks at the node's own list ...
checkDeadlockSkippingLists(t, r) ==
    /\ tail[r] # null
    /\ ~ \E C \in SUBSET {n \in nodes : txnId(n) # t} :
            tail[r] \in C /\ ClosedUnder(nextInTxn, C)

\* ... one that never goes from a transaction's node to its next one ...
checkDeadlockOneList(t, r) ==
    /\ tail[r] # null
    /\ ~ \E C \in SUBSET {n \in nodes : txnId(n) # t} :
            tail[r] \in C /\ ClosedUnder(prev, C)

\* ... and one that goes on from every node of a transaction it meets.
checkDeadlockWholeTxn(t, r) ==
    /\ tail[r] # null
    /\ ~ \E C \in SUBSET {n \in nodes : txnId(n) # t} :
            /\ tail[r] \in C
            /\ ClosedUnder(prev, C)
            /\ \A m \in C, n \in nodes : txnId(m) = txnId(n) => n \in C

(***************************************************************************)
(* The search of checkDeadlock starts at the tail of the record's list and *)
(* follows prev and nextInTxn until it meets a node of t.  It comes out    *)
(* empty-handed exactly when the tail lies in a set of nodes of other      *)
(* transactions that both pointers never leave.                            *)
(***************************************************************************)
checkDeadlock(t, r) ==
    /\ tail[r] # null
    /\ ~ \E C \in SUBSET {n \in nodes : txnId(n) # t} :
            /\ tail[r] \in C
            /\ ClosedUnder(prev, C)
            /\ ClosedUnder(nextInTxn, C)

\* Faulty variants: only the last node, or only the first one, is looked at.
WriterLast(r) == tail[r] # null /\ lockMode[tail[r]] = "WRITE"
WriterFirst(r) == head[r] # null /\ lockMode[head[r]] = "WRITE"

(***************************************************************************)
(* The backward traversal of addReaderLock meets a WRITE node, unless the  *)
(* tail lies in a set of READ nodes that prev never leaves.                *)
(***************************************************************************)
WriterQueued(r) ==
    /\ tail[r] # null
    /\ ~ \E C \in SUBSET {n \in nodes : lockMode[n] = "READ"} :
            /\ tail[r] \in C
            /\ ClosedUnder(prev, C)

(***************************************************************************)
(* What addReaderLock and addWriterLock share: construct the node, link it *)
(* behind the transaction's last node and behind the record's tail, and    *)
(* push it to the transaction's deque.  lock() then spins on `locked`,     *)
(* which is `wait` to begin with.                                          *)
(***************************************************************************)
AddNode(t, r, mode, wait) ==
    LET new == <<t, r>>
        deque == lockPerTxn[t]
        last == tail[r]
    IN  /\ nodes' = nodes \cup {new}
        /\ lockMode' = [lockMode EXCEPT ![new] = mode]
        /\ locked' = [locked EXCEPT ![new] = wait]
        /\ nextInTxn' =
               IF deque = <<>>
                 THEN [nextInTxn EXCEPT ![new] = null]
                 ELSE [nextInTxn EXCEPT ![new] = null, ![deque[Len(deque)]] = new]
        /\ prev' = [prev EXCEPT ![new] = last]
        /\ next' = IF last = null
                     THEN [next EXCEPT ![new] = null]
                     ELSE [next EXCEPT ![new] = null, ![last] = new]
        /\ head' = IF last = null THEN [head EXCEPT ![r] = new] ELSE head
        /\ tail' = [tail EXCEPT ![r] = new]
        /\ lockPerTxn' = [lockPerTxn EXCEPT ![t] = Append(deque, new)]
        /\ call' = [call EXCEPT ![t] = "spin"]
        /\ UNCHANGED <<globalMtx, iter>>

addReaderLock(t, r) ==
    /\ OutsideCall(t)
    /\ globalMtx = NoTxn
    /\ ~checkDeadlock(t, r)
    /\ AddNode(t, r, "READ", WriterQueued(r))

addWriterLock(t, r) ==
    /\ OutsideCall(t)
    /\ globalMtx = NoTxn
    /\ ~checkDeadlock(t, r)
    /\ AddNode(t, r, "WRITE", tail[r] # null)

\* Both return nullptr, and lock() false, when the search finds a node of t.
refuseLock(t, r) ==
    /\ OutsideCall(t)
    /\ globalMtx = NoTxn
    /\ checkDeadlock(t, r)
    /\ call' = [call EXCEPT ![t] = "refused"]
    /\ UNCHANGED <<nodes, lockMode, locked, prev, next, nextInTxn, head, tail,
                   lockPerTxn, globalMtx, iter>>

\* The node a transaction in lock() spins on: the one it pushed last.
myLock(t) == lockPerTxn[t][Len(lockPerTxn[t])]

\* The spin loop reads FALSE and lock() returns true; it holds no mutex.
returnLocked(t) ==
    /\ call[t] = "spin"
    /\ ~locked[myLock(t)]
    /\ call' = [call EXCEPT ![t] = "idle"]
    /\ UNCHANGED <<nodes, lockMode, locked, prev, next, nextInTxn, head, tail,
                   lockPerTxn, globalMtx, iter>>

-----------------------------------------------------------------------------
\* unlock(t) acquires globalMtx.
beginUnlock(t) ==
    /\ OutsideCall(t)
    /\ globalMtx = NoTxn
    /\ globalMtx' = t
    /\ call' = [call EXCEPT ![t] = "unlock"]
    /\ UNCHANGED <<nodes, lockMode, locked, prev, next, nextInTxn, head, tail,
                   lockPerTxn, iter>>

\* The loop of unlock(t) is between two nodes, and n is the one it takes up.
Releasing(t, n) ==
    /\ call[t] = "unlock"
    /\ iter = null
    /\ lockPerTxn[t] # <<>>
    /\ n = Head(lockPerTxn[t])

\* `delete myLock`, and the deque moves on to the transaction's next node.
\* clearedPrev and clearedNext are the pointers as the unlinking left them.
DeleteNode(t, n, clearedPrev, clearedNext) ==
    /\ nodes' = nodes \ {n}
    /\ lockMode' = [lockMode EXCEPT ![n] = "READ"]
    /\ prev' = [clearedPrev EXCEPT ![n] = null]
    /\ next' = [clearedNext EXCEPT ![n] = null]
    /\ nextInTxn' = [nextInTxn EXCEPT ![n] = null]
    /\ lockPerTxn' = [lockPerTxn EXCEPT ![t] = Tail(@)]
    /\ UNCHANGED <<globalMtx, call>>

\* The node is alone in its record's list, which becomes empty.
releaseOnly(t, n) ==
    LET r == recordId(n)
    IN  /\ Releasing(t, n)
        /\ head[r] = n
        /\ next[n] = null
        /\ head' = [head EXCEPT ![r] = null]
        /\ tail' = [tail EXCEPT ![r] = null]
        /\ DeleteNode(t, n, prev, next)
        /\ UNCHANGED <<locked, iter>>

\* Faulty variant: the new head is not woken.
releaseHeadQuietly(t, n) ==
    LET r == recordId(n)
        nextLock == next[n]
    IN  /\ Releasing(t, n)
        /\ head[r] = n
        /\ nextLock # null
        /\ head' = [head EXCEPT ![r] = nextLock]
        /\ DeleteNode(t, n, [prev EXCEPT ![nextLock] = null], next)
        /\ UNCHANGED <<locked, tail, iter>>

\* The node is the head and a node follows, which becomes the head.  Whether
\* it is woken alone or with the readers behind it is the next steps' business.
\* (The code deletes the node after the wake-up; nothing refers to it by then.)
releaseHead(t, n) ==
    LET r == recordId(n)
        nextLock == next[n]
    IN  /\ Releasing(t, n)
        /\ head[r] = n
        /\ nextLock # null
        /\ head' = [head EXCEPT ![r] = nextLock]
        /\ iter' = nextLock
        /\ DeleteNode(t, n, [prev EXCEPT ![nextLock] = null], next)
        /\ UNCHANGED <<locked, tail>>

\* Faulty variant: the record's tail is left at the deleted node.
releaseInnerKeepingTail(t, n) ==
    LET prevLock == prev[n]
        nextLock == next[n]
    IN  /\ Releasing(t, n)
        /\ head[recordId(n)] # n
        /\ DeleteNode(t, n,
               IF nextLock = null THEN prev ELSE [prev EXCEPT ![nextLock] = prevLock],
               [next EXCEPT ![prevLock] = nextLock])
        /\ UNCHANGED <<locked, head, tail, iter>>

\* The node has another in front of it: it is unlinked and nobody is woken.
releaseInner(t, n) ==
    LET r == recordId(n)
        prevLock == prev[n]
        nextLock == next[n]
    IN  /\ Releasing(t, n)
        /\ head[r] # n
        /\ tail' = IF nextLock = null THEN [tail EXCEPT ![r] = prevLock] ELSE tail
        /\ DeleteNode(t, n,
               IF nextLock = null THEN prev ELSE [prev EXCEPT ![nextLock] = prevLock],
               [next EXCEPT ![prevLock] = nextLock])
        /\ UNCHANGED <<locked, head, iter>>

\* Faulty variant: one node is woken, whether or not readers follow.
wakeOne(t) ==
    /\ call[t] = "unlock"
    /\ iter # null
    /\ locked' = [locked EXCEPT ![iter] = FALSE]
    /\ iter' = null
    /\ UNCHANGED <<nodes, lockMode, prev, next, nextInTxn, head, tail,
                   lockPerTxn, globalMtx, call>>

\* Wake the node the last removal left at the head: a writer alone, a reader
\* as the first pass of the loop over the consecutive readers behind it.
wakeNext(t) ==
    LET following == next[iter]
    IN  /\ call[t] = "unlock"
        /\ iter # null
        /\ locked' = [locked EXCEPT ![iter] = FALSE]
        /\ iter' = IF /\ lockMode[iter] = "READ"
                      /\ following # null
                      /\ lockMode[following] = "READ"
                     THEN following ELSE null
        /\ UNCHANGED <<nodes, lockMode, prev, next, nextInTxn, head, tail,
                       lockPerTxn, globalMtx, call>>

\* Every node is gone: the deque is cleared and globalMtx released.
endUnlock(t) ==
    /\ call[t] = "unlock"
    /\ iter = null
    /\ lockPerTxn[t] = <<>>
    /\ globalMtx' = NoTxn
    /\ call' = [call EXCEPT ![t] = "idle"]
    /\ UNCHANGED <<nodes, lockMode, locked, prev, next, nextInTxn, head, tail,
                   lockPerTxn, iter>>

-----------------------------------------------------------------------------
unlockStep(t) ==
    \/ \E n \in nodes : releaseOnly(t, n) \/ releaseHead(t, n) \/ releaseInner(t, n)
    \/ wakeNext(t)
    \/ endUnlock(t)

lock(t, r) == addReaderLock(t, r) \/ addWriterLock(t, r) \/ refuseLock(t, r)

LTNext ==
    \E t \in Txn :
        \/ \E r \in Record : lock(t, r)
        \/ returnLocked(t)
        \/ beginUnlock(t)
        \/ unlockStep(t)

LTSpec == LTInit /\ [][LTNext]_ltVars

-----------------------------------------------------------------------------
(***************************************************************************)
(* Properties.  They come in two groups: the shape of the pointers, which  *)
(* holds after every step (also between two steps of one unlock), and what *)
(* the shape is for, the exclusion and the absence of deadlock.            *)
(***************************************************************************)

\* A node's neighbours in its record's list are live nodes of that list and
\* point back at it, and head and tail are its two ends: no pointer dangles
\* after the deletes of unlock, none is lost by an insertion or an unlinking.
ListsLinked ==
    /\ \A n \in nodes :
        /\ prev[n] # null => /\ prev[n] \in nodes
                             /\ recordId(prev[n]) = recordId(n)
                             /\ next[prev[n]] = n
        /\ next[n] # null => /\ next[n] \in nodes
                             /\ recordId(next[n]) = recordId(n)
                             /\ prev[next[n]] = n
        /\ prev[n] = null <=> head[recordId(n)] = n
        /\ next[n] = null <=> tail[recordId(n)] = n
    /\ \A r \in Record :
        /\ head[r] # null => head[r] \in nodes /\ recordId(head[r]) = r
        /\ tail[r] # null => tail[r] \in nodes /\ recordId(tail[r]) = r
        /\ head[r] = null <=> tail[r] = null

\* A transaction's deque lists its live nodes, each once, and nextInTxn
\* chains them in that order.
DequesChained ==
    \A t \in Txn : LET deque == lockPerTxn[t] IN
        /\ \A n \in nodes : txnId(n) = t => \E i \in 1..Len(deque) : deque[i] = n
        /\ \A i \in 1..Len(deque) :
            /\ deque[i] \in nodes
            /\ txnId(deque[i]) = t
            /\ \A j \in 1..Len(deque) : deque[i] = deque[j] => i = j
            /\ nextInTxn[deque[i]] = IF i < Len(deque) THEN deque[i + 1] ELSE null

\* The wait-for graph has no cycle: every non-empty set of nodes has a member
\* whose prev and nextInTxn both lead out of the set.  This is also why the
\* search of checkDeadlock, which marks nothing as visited, comes to an end.
WaitForAcyclic ==
    \A S \in SUBSET nodes :
        S # {} => \E n \in S : prev[n] \notin S /\ nextInTxn[n] \notin S

\* Every record's list ends when it is followed forward, too.
ListsEnd ==
    \A S \in SUBSET nodes : S # {} => \E n \in S : next[n] \notin S

\* A transaction that asks for a record it has a node for is always refused
\* (its own node is in the search), so it never has two nodes for one record
\* and never waits for itself.
OwnRecordRefused ==
    globalMtx = NoTxn =>
        \A t \in Txn, r \in Record : <<t, r>> \in nodes => checkDeadlock(t, r)

Granted(n) == n \in nodes /\ ~locked[n]

\* A granted writer is alone: no other node of its record is granted, not
\* even in the middle of an unlock that is waking its successors.
LockExclusion ==
    \A m, n \in nodes :
        m # n /\ recordId(m) = recordId(n) /\ Granted(m) /\ Granted(n)
            => lockMode[m] = "READ" /\ lockMode[n] = "READ"

\* No wake-up is lost: between two unlocks the head of every list is granted,
\* and so is every reader with nothing but readers in front of it.
NoLostWakeup ==
    globalMtx = NoTxn =>
        \A n \in nodes :
            locked[n] => /\ prev[n] # null
                         /\ \/ lockMode[n] = "WRITE"
                            \/ lockMode[prev[n]] = "WRITE"
                            \/ locked[prev[n]]

\* Only the transaction that spins on a node has a node that is not granted,
\* and it is the node it pushed last.
OnlyLastWaits ==
    \A n \in nodes :
        locked[n] => call[txnId(n)] = "spin" /\ n = myLock(txnId(n))

\* The nodes in front of n in its record's list.
Ahead(n) ==
    {m \in nodes \ {n} :
        \A C \in SUBSET nodes : n \in C /\ ClosedUnder(prev, C) => m \in C}

Waiting == {t \in Txn : call[t] = "spin" /\ locked[myLock(t)]}

\* No deadlock ever arises: in no set of waiting transactions does each wait
\* behind a node of another of them.
DeadlockFree ==
    \A W \in SUBSET Waiting :
        W # {} => \E t \in W : \A n \in Ahead(myLock(t)) : txnId(n) \notin W

(***************************************************************************)
(* The lines of requests that the lists stand for.                         *)
(***************************************************************************)
Queues == INSTANCE LockQueues WITH
    line <- nodes,
    mode <- [n \in nodes |-> lockMode[n]],
    granted <- {n \in nodes : ~locked[n]},
    inFront <- UNION {{<<m, n>> : m \in Ahead(n)} : n \in nodes}

\* Refinement: every step of the table is a request that joins its line, a
\* grant that is due, a granted request that leaves, or nothing.
FirstComeFirstServed == Queues!QSpec

(***************************************************************************)
(* When is a refusal a deadlock?  A waiting transaction waits for the      *)
(* owners of the nodes in front that its own node conflicts with, and a    *)
(* request for r would wait for the owners of the nodes there it conflicts *)
(* with.  The request is a deadlock if that leads back to its transaction. *)
(***************************************************************************)
WaitsFor(t) ==
    {txnId(n) : n \in {m \in Ahead(myLock(t)) :
                        lockMode[m] = "WRITE" \/ lockMode[myLock(t)] = "WRITE"}}

WouldWaitFor(r, mode) ==
    {txnId(n) : n \in {m \in nodes : recordId(m) = r /\ (lockMode[m] = "WRITE" \/ mode = "WRITE")}}

ClosesCycle(t, r, mode) ==
    \A D \in SUBSET Txn :
        /\ WouldWaitFor(r, mode) \subseteq D
        /\ \A u \in D \cap Waiting : WaitsFor(u) \subseteq D
        => t \in D

\* checkDeadlock's only reason to refuse a record the transaction has no node
\* for is a deadlock.  This is what the comments on lock() say ("return false
\* if there is an deadlock").  It is not so for arbitrary clients: the search goes
\* from node to node though nobody waits for the one in front, as for a granted
\* reader before another, and may so come to a node of the asker itself.
RefusalMeansDeadlock ==
    globalMtx = NoTxn =>
        \A t \in Txn, r \in Record, mode \in LockMode :
            OutsideCall(t) /\ <<t, r>> \notin nodes /\ checkDeadlock(t, r)
                => ClosesCycle(t, r, mode)

(***************************************************************************)
(* The strengthening of LockExclusion that is inductive.                   *)
(***************************************************************************)

\* Who holds the mutex, and what the wake-up points at.
MutexOK ==
    /\ \A t \in Txn : call[t] = "unlock" <=> globalMtx = t
    /\ globalMtx = NoTxn => iter = null
    /\ iter # null =>
        /\ iter \in nodes
        /\ prev[iter] # null => /\ lockMode[iter] = "READ"
                                /\ lockMode[prev[iter]] = "READ"
                                /\ ~locked[prev[iter]]

\* A granted writer is the head, a granted reader has a granted reader or
\* nothing in front; a node that waits has a reason to, unless the wake-up
\* loop is about to reach it.
GrantsOK ==
    \A n \in nodes :
        /\ ~locked[n] /\ lockMode[n] = "WRITE" => prev[n] = null
        /\ ~locked[n] /\ lockMode[n] = "READ" /\ prev[n] # null =>
              lockMode[prev[n]] = "READ" /\ ~locked[prev[n]]
        /\ locked[n] /\ n # iter => prev[n] # null
        /\ locked[n] /\ lockMode[n] = "READ" /\ n # iter =>
              lockMode[prev[n]] = "WRITE" \/ locked[prev[n]]

\* A transaction that spins has a node to spin on.
SpinOK == \A t \in Txn : call[t] = "spin" => lockPerTxn[t] # <<>>

LTInv ==
    /\ LTTypeOK
    /\ ListsLinked
    /\ DequesChained
    /\ WaitForAcyclic
    /\ ListsEnd
    /\ MutexOK
    /\ GrantsOK
    /\ OnlyLastWaits
    /\ SpinOK
=============================================================================
