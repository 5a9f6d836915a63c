-------------------------- MODULE ConcurrentQueue --------------------------
(***************************************************************************)
(* The queues of lab13 and lab14, each between the same producers and      *)
(* consumers.  The variable `program` says which one runs:                 *)
(*   "giant"   queue_giantlock.cpp: a bounded array under one mutex        *)
(*   "ticket"  queue_bounded.cpp: a bounded array whose slots are given    *)
(*             out by fetch-and-add, with a flag in each slot              *)
(*   "linked"  queue_unbounded.cpp: a linked list with compare-and-swap    *)
(*             (the second of its two methods, which is the one compiled)  *)
(*                                                                         *)
(* Each access to shared memory is a step, but for those to a slot or a    *)
(* node that only one thread can have at the time.  Failed attempts that   *)
(* change nothing and are made again are not steps.                        *)
(***************************************************************************)
EXTENDS Naturals, Sequences

CONSTANTS
    NumProducer,    \* NUM_PRODUCER, and NUM_CONSUMER
    NumKey,         \* NUM_ENQUEUE_PER_PRODUCER, and NUM_DEQUEUE_PER_CONSUMER
    QueueSize       \* QUEUE_SIZE

ASSUME NumProducerAssumption == NumProducer \in Nat \ {0}
ASSUME NumKeyAssumption == NumKey \in Nat \ {0}
ASSUME QueueSizeAssumption == QueueSize \in Nat \ {0}

Producer == 0..NumProducer - 1
Consumer == NumProducer..2 * NumProducer - 1
Thread == Producer \cup Consumer
Key == 0..NumProducer * NumKey - 1

\* Keys are all different: the list's node for a key is named by it.
sentinel == NumProducer * NumKey
Node == Key \cup {sentinel}
null == sentinel + 1

VARIABLES
    program,
    front, rear,        \* the counters of the bounded queues
    queue,              \* their array: key and flag of each slot
    head, tail,         \* of the linked queue
    next,               \* its nodes' pointers
    pc,                 \* where each thread is in enqueue or dequeue
    i,                  \* calls it has completed
    seq,                \* ticket: its local variable seq
    copied,             \* linked: tail_copied, or sentinel_node
    retNode,            \* linked: ret_node
    retKey,             \* ticket: ret_key
    flag_verification,  \* the keys that consumers have got
    enqueued,           \* history: the keys in the order they were enqueued
    dequeued            \* history: [consumer, key], in the order of the dequeues;
                        \*   the key is null until it is read

bounded == <<front, rear, queue>>
linked == <<head, tail, next>>
locals == <<seq, copied, retNode, retKey>>
history == <<enqueued, dequeued>>
vars == <<program, bounded, linked, pc, i, locals, flag_verification, history>>

Program == {"giant", "ticket", "linked"}
Slot == 0..QueueSize - 1

\* init_queue.
Fresh ==
    /\ front = 0
    /\ rear = 0
    /\ queue = [s \in Slot |-> [key |-> 0, flag |-> 0]]
    /\ head = sentinel
    /\ tail = sentinel
    /\ next = [n \in Node |-> null]
    /\ pc = [t \in Thread |-> "idle"]
    /\ i = [t \in Thread |-> 0]
    /\ seq = [t \in Thread |-> 0]
    /\ copied = [t \in Thread |-> sentinel]
    /\ retNode = [t \in Producer |-> null]
    /\ retKey = [t \in Consumer |-> null]
    /\ flag_verification = {}
    /\ enqueued = <<>>
    /\ dequeued = <<>>

Init == program \in Program /\ Fresh

\* The key that producer p is enqueueing.
key_enqueue(p) == NumKey * p + i[p]

goto(t, label) == pc' = [pc EXCEPT ![t] = label]
\* The call is over.
return(t) == goto(t, "idle") /\ i' = [i EXCEPT ![t] = @ + 1]
\* Thread t begins a call.
call(t) == pc[t] = "idle" /\ i[t] < NumKey
verify(key) == flag_verification' = flag_verification \cup {key}

-----------------------------------------------------------------------------
(* queue_giantlock.cpp: one critical section, which a thread leaves and    *)
(* enters again as long as the queue is full or empty.                     *)

giantEnqueue(p) ==
    /\ program = "giant"
    /\ call(p)
    /\ rear < front + QueueSize
    /\ queue' = [queue EXCEPT ![rear % QueueSize].key = key_enqueue(p)]
    /\ rear' = rear + 1
    /\ return(p)
    /\ enqueued' = Append(enqueued, key_enqueue(p))
    /\ UNCHANGED <<program, front, linked, locals, flag_verification, dequeued>>

giantDequeue(c) ==
    LET ret_key == queue[front % QueueSize].key
    IN  /\ program = "giant"
        /\ call(c)
        /\ rear # front
        /\ front' = front + 1
        /\ return(c)
        /\ verify(ret_key)
        /\ dequeued' = Append(dequeued, [consumer |-> c, key |-> ret_key])
        /\ UNCHANGED <<program, rear, queue, linked, locals, enqueued>>

-----------------------------------------------------------------------------
(* queue_bounded.cpp: draw a ticket, wait for the slot's flag to show the  *)
(* ticket's round, use the slot, and increase the flag.                    *)

slot(t) == seq[t] % QueueSize
round(t) == seq[t] \div QueueSize
flag(t) == queue[slot(t)].flag

drawRear(p) ==
    /\ program = "ticket"
    /\ call(p)
    /\ seq' = [seq EXCEPT ![p] = rear]
    /\ rear' = rear + 1
    /\ goto(p, "put")
    /\ enqueued' = Append(enqueued, key_enqueue(p))
    /\ UNCHANGED <<program, front, queue, linked, i, copied, retNode, retKey, flag_verification, dequeued>>

\* Faulty variant: an even flag of any round will do.
putInAnyRound(p) ==
    /\ pc[p] = "put"
    /\ flag(p) % 2 = 0
    /\ queue' = [queue EXCEPT ![slot(p)].key = key_enqueue(p)]
    /\ goto(p, "publish")
    /\ UNCHANGED <<program, front, rear, linked, i, locals, flag_verification, history>>

put(p) ==
    /\ pc[p] = "put"
    /\ flag(p) % 2 = 0
    /\ flag(p) \div 2 = round(p)
    /\ queue' = [queue EXCEPT ![slot(p)].key = key_enqueue(p)]
    /\ goto(p, "publish")
    /\ UNCHANGED <<program, front, rear, linked, i, locals, flag_verification, history>>

publish(p) ==
    /\ pc[p] = "publish"
    /\ queue' = [queue EXCEPT ![slot(p)].flag = @ + 1]
    /\ return(p)
    /\ UNCHANGED <<program, front, rear, linked, locals, flag_verification, history>>

drawFront(c) ==
    /\ program = "ticket"
    /\ call(c)
    /\ seq' = [seq EXCEPT ![c] = front]
    /\ front' = front + 1
    /\ goto(c, "get")
    /\ dequeued' = Append(dequeued, [consumer |-> c, key |-> null])
    /\ UNCHANGED <<program, rear, queue, linked, i, copied, retNode, retKey, flag_verification, enqueued>>

get(c) ==
    /\ pc[c] = "get"
    /\ flag(c) % 2 = 1
    /\ flag(c) \div 2 = round(c)
    /\ retKey' = [retKey EXCEPT ![c] = queue[slot(c)].key]
    /\ dequeued' = [dequeued EXCEPT ![seq[c] + 1].key = retKey'[c]]
    /\ goto(c, "release")
    /\ UNCHANGED <<program, bounded, linked, i, seq, copied, retNode, flag_verification, enqueued>>

release(c) ==
    /\ pc[c] = "release"
    /\ queue' = [queue EXCEPT ![slot(c)].flag = @ + 1]
    /\ return(c)
    /\ verify(retKey[c])
    /\ UNCHANGED <<program, front, rear, linked, locals, history>>

-----------------------------------------------------------------------------
(* queue_unbounded.cpp.                                                    *)

\* enqueue: read tail (again) ...
readTail(p) ==
    /\ program = "linked"
    /\ call(p)
    /\ copied' = [copied EXCEPT ![p] = tail]
    /\ goto(p, "append")
    /\ UNCHANGED <<program, bounded, linked, i, seq, retNode, retKey, flag_verification, history>>

\* Faulty variant: the tail will be moved to the thread's own node.
appendHelpingItself(p) ==
    /\ pc[p] = "append"
    /\ IF next[copied[p]] = null
         THEN /\ next' = [next EXCEPT ![copied[p]] = key_enqueue(p)]
              /\ enqueued' = Append(enqueued, key_enqueue(p))
              /\ goto(p, "swing")
              /\ UNCHANGED retNode
         ELSE /\ retNode' = [retNode EXCEPT ![p] = key_enqueue(p)]
              /\ goto(p, "help")
              /\ UNCHANGED <<next, enqueued>>
    /\ UNCHANGED <<program, bounded, head, tail, i, seq, copied, retKey, flag_verification, dequeued>>

\* ... append the new node to the node read, unless another has one there ...
append(p) ==
    /\ pc[p] = "append"
    /\ IF next[copied[p]] = null
         THEN /\ next' = [next EXCEPT ![copied[p]] = key_enqueue(p)]
              /\ enqueued' = Append(enqueued, key_enqueue(p))
              /\ goto(p, "swing")
              /\ UNCHANGED retNode
         ELSE /\ retNode' = [retNode EXCEPT ![p] = next[copied[p]]]
              /\ goto(p, "help")
              /\ UNCHANGED <<next, enqueued>>
    /\ UNCHANGED <<program, bounded, head, tail, i, seq, copied, retKey, flag_verification, dequeued>>

\* Faulty variant: a store in place of the compare-and-swap.
storeTail(p, node) == tail' = node

\* __sync_bool_compare_and_swap(&tail, copied[p], node)
swapTail(p, node) == tail' = IF tail = copied[p] THEN node ELSE tail

\* ... and then help that one to move the tail, and try once more ...
help(p) ==
    /\ pc[p] = "help"
    /\ swapTail(p, retNode[p])
    /\ goto(p, "idle")
    /\ UNCHANGED <<program, bounded, head, next, i, locals, flag_verification, history>>

\* ... or move the tail to the new node.
swing(p) ==
    /\ pc[p] = "swing"
    /\ swapTail(p, key_enqueue(p))
    /\ return(p)
    /\ UNCHANGED <<program, bounded, head, next, locals, flag_verification, history>>

\* dequeue: read head ...
readHead(c) ==
    /\ program = "linked"
    /\ call(c)
    /\ copied' = [copied EXCEPT ![c] = head]
    /\ goto(c, "next")
    /\ UNCHANGED <<program, bounded, linked, i, seq, retNode, retKey, flag_verification, history>>

\* ... and start over if nothing follows the sentinel read ...
readNext(c) ==
    /\ pc[c] = "next"
    /\ goto(c, IF next[copied[c]] = null THEN "idle" ELSE "take")
    /\ UNCHANGED <<program, bounded, linked, i, locals, flag_verification, history>>

\* ... or make what follows the sentinel, unless another has been faster.
take(c) ==
    LET ret_key == next[copied[c]]
    IN  /\ pc[c] = "take"
        /\ IF head = copied[c]
             THEN /\ head' = ret_key
                  /\ dequeued' = Append(dequeued, [consumer |-> c, key |-> ret_key])
                  /\ return(c)
                  /\ verify(ret_key)
             ELSE goto(c, "idle") /\ UNCHANGED <<head, dequeued, i, flag_verification>>
        /\ UNCHANGED <<program, bounded, tail, next, locals, enqueued>>

-----------------------------------------------------------------------------
enqueue(p) ==
    \/ giantEnqueue(p)
    \/ drawRear(p) \/ put(p) \/ publish(p)
    \/ readTail(p) \/ append(p) \/ help(p) \/ swing(p)

dequeue(c) ==
    \/ giantDequeue(c)
    \/ drawFront(c) \/ get(c) \/ release(c)
    \/ readHead(c) \/ readNext(c) \/ take(c)

Finished == \A t \in Thread : pc[t] = "idle" /\ i[t] = NumKey
Joined == Finished /\ UNCHANGED vars

Next == (\E p \in Producer : enqueue(p)) \/ (\E c \in Consumer : dequeue(c)) \/ Joined

Spec ==
    /\ Init /\ [][Next]_vars
    /\ \A p \in Producer : WF_vars(enqueue(p))
    /\ \A c \in Consumer : WF_vars(dequeue(c))

-----------------------------------------------------------------------------
\* The n-th dequeue gets the key of the n-th enqueue, in the order in which
\* the calls drew their tickets, changed the list or had the mutex.
FirstInFirstOut ==
    \A n \in DOMAIN dequeued : dequeued[n].key # null =>
        n \in DOMAIN enqueued /\ dequeued[n].key = enqueued[n]

\* The tail of the linked queue lags behind by one node at most: it points to
\* the last node, or to the one before while the node's thread, or one that
\* helps it, is about to move it.
TailNearEnd ==
    next[tail] # null => /\ next[next[tail]] = null
                         /\ \E p \in Producer : /\ pc[p] = "swing"
                                                /\ key_enqueue(p) = next[tail]
                                                /\ copied[p] = tail
=============================================================================
