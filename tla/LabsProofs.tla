----------------------------- MODULE LabsProofs -----------------------------
(***************************************************************************)
(* Proofs about the programs of the labs, for any number of threads, keys  *)
(* and slots: what goes into the queues of lab13 and lab14 first comes out *)
(* first, the tail of the linked queue is never far from its end, what     *)
(* SpinLocksProofs proves of the locks of lab11 holds in MCLabs, too, the  *)
(* services of lab06 and lab08 run each handler once, and the pools of     *)
(* lab04 and lab05 count the primes.                                       *)
(***************************************************************************)
EXTENDS MCLabs, SequenceTheorems, FiniteSetTheorems, NaturalsInduction,
        WellFoundedInduction, TLAPS

\* The locks of lab11 with what is proved of them.
Proven == INSTANCE SpinLocksProofs WITH tail <- lockTail, pc <- lockPc, i <- calls

-----------------------------------------------------------------------------
(* The inductive invariant of the queues                                   *)

QueueTypeOK ==
    /\ front \in Nat /\ rear \in Nat
    /\ queue \in [Slot -> [key : Nat, flag : Nat]]
    /\ head \in Node /\ tail \in Node
    /\ next \in [Node -> Node \cup {null}]
    /\ i \in [Thread -> 0..NumKey]
    /\ seq \in [Thread -> Nat]
    /\ copied \in [Thread -> Node]
    /\ retNode \in [Producer -> Node \cup {null}]
    /\ retKey \in [Consumer -> Nat]
    /\ enqueued \in Seq(Key)
    /\ dequeued \in Seq([consumer : Consumer, key : Nat])

\* Where a thread can be in its call.
PcOK ==
    /\ pc \in [Thread -> {"idle", "put", "publish", "get", "release",
                          "append", "help", "swing", "next", "take"}]
    /\ \A t \in Thread : pc[t] # "idle" => i[t] < NumKey
    /\ \A p \in Producer : \/ pc[p] = "idle"
                           \/ program = "ticket" /\ pc[p] \in {"put", "publish"}
                           \/ program = "linked" /\ pc[p] \in {"append", "help", "swing"}
    /\ \A c \in Consumer : \/ pc[c] = "idle"
                           \/ program = "ticket" /\ pc[c] \in {"get", "release"}
                           \/ program = "linked" /\ pc[c] \in {"next", "take"}

\* giant: the slots from front to rear hold the keys that are still to come.
GiantOK ==
    program = "giant" =>
        /\ front = Len(dequeued) /\ rear = Len(enqueued)
        /\ front <= rear /\ rear <= front + QueueSize
        /\ \A n \in front..rear - 1 : queue[n % QueueSize].key = enqueued[n + 1]
        /\ \A n \in 1..front : dequeued[n].key = enqueued[n]

\* ticket: threads that have drawn a ticket and not used it up ...
Putting(p) == pc[p] \in {"put", "publish"}
Getting(c) == pc[c] \in {"get", "release"}

\* ... have different ones, and know what the flag of the slot says while they
\* use it.
PutOK ==
    /\ \A p \in Producer : Putting(p) =>
          seq[p] < rear /\ enqueued[seq[p] + 1] = key_enqueue(p)
    /\ \A p, q \in Producer : Putting(p) /\ Putting(q) /\ seq[p] = seq[q] => p = q
    /\ \A p \in Producer : pc[p] = "publish" =>
          flag(p) = 2 * round(p) /\ queue[slot(p)].key = key_enqueue(p)

GetOK ==
    /\ \A c \in Consumer : Getting(c) => seq[c] < front
    /\ \A c, d \in Consumer : Getting(c) /\ Getting(d) /\ seq[c] = seq[d] => c = d
    /\ \A c \in Consumer : pc[c] = "release" => flag(c) = 2 * round(c) + 1

\* A flag that is odd says that the slot holds the key of its round.
SlotsOK ==
    \A s \in Slot, r \in Nat : queue[s].flag = 2 * r + 1 =>
        QueueSize * r + s < rear /\ queue[s].key = enqueued[QueueSize * r + s + 1]

GotOK ==
    \A n \in 1..front : dequeued[n].key # null =>
        n <= rear /\ dequeued[n].key = enqueued[n]

TicketOK ==
    program = "ticket" =>
        /\ front = Len(dequeued) /\ rear = Len(enqueued)
        /\ PutOK /\ GetOK /\ SlotsOK /\ GotOK

\* linked: the nodes that have been appended, from the first sentinel on.
at(k) == IF k = 0 THEN sentinel ELSE enqueued[k]

\* Position k is that of the node t has copied, and others follow it if more.
CopiedAt(t, more) ==
    \E k \in 0..Len(enqueued) : copied[t] = at(k) /\ (more => k < Len(enqueued))

\* A producer's key is in the list when its call has put it there.
KeysOK ==
    \A p \in Producer, n \in 1..Len(enqueued), j \in 0..NumKey - 1 :
        enqueued[n] = NumKey * p + j => j < i[p] \/ (j = i[p] /\ pc[p] = "swing")

\* The nodes are all different, each points to the next, and no other node
\* points anywhere.
ListOK ==
    /\ \A k, l \in 0..Len(enqueued) : at(k) = at(l) => k = l
    /\ next[at(Len(enqueued))] = null
    /\ \A k \in 0..Len(enqueued) - 1 : next[at(k)] = at(k + 1)
    /\ \A n \in Node : (\A k \in 0..Len(enqueued) : n # at(k)) => next[n] = null

HeadOK ==
    /\ Len(dequeued) <= Len(enqueued)
    /\ head = at(Len(dequeued))
    /\ \A n \in 1..Len(dequeued) : dequeued[n].key = enqueued[n]

TailOK ==
    \/ tail = at(Len(enqueued))
    \/ /\ Len(enqueued) > 0 /\ tail = at(Len(enqueued) - 1)
       /\ \E p \in Producer : /\ pc[p] = "swing" /\ copied[p] = tail
                              /\ key_enqueue(p) = at(Len(enqueued))

\* What the threads have copied.  A copy of the tail lies behind it or is it.
CopiesOK ==
    /\ \A p \in Producer :
        /\ pc[p] = "append" => CopiedAt(p, tail # at(Len(enqueued)))
        /\ pc[p] = "help" => CopiedAt(p, TRUE) /\ retNode[p] = next[copied[p]]
        /\ pc[p] = "swing" => CopiedAt(p, TRUE) /\ key_enqueue(p) = next[copied[p]]
    /\ \A c \in Consumer :
        /\ pc[c] = "next" => CopiedAt(c, FALSE)
        /\ pc[c] = "take" => CopiedAt(c, TRUE)

LinkedOK == program = "linked" => KeysOK /\ ListOK /\ HeadOK /\ TailOK /\ CopiesOK

\* What a program does not use stays as it was.
UnusedOK ==
    /\ program # "linked" => tail = sentinel /\ next = [n \in Node |-> null]
    /\ program \notin Program => dequeued = <<>>

QueueInv == QueueTypeOK /\ PcOK /\ GiantOK /\ TicketOK /\ LinkedOK /\ UnusedOK

-----------------------------------------------------------------------------
(* Arithmetic                                                              *)

\* The constants of the queues are positive.
LEMMA Positive ==
    /\ NumProducer \in Nat /\ NumProducer > 0
    /\ NumKey \in Nat /\ NumKey > 0
    /\ QueueSize \in Nat /\ QueueSize > 0
BY NumProducerAssumption, NumKeyAssumption, QueueSizeAssumption

\* Equal multiples of a positive number have equal factors, even with a
\* remainder.
LEMMA Remainders ==
    ASSUME NEW b \in Nat, NEW x \in Int, NEW y \in Int,
           NEW j \in 0..b - 1, NEW k \in 0..b - 1, b * x + j = b * y + k
    PROVE  x = y /\ j = k
<1>1. ASSUME NEW u \in Int, NEW v \in Int, u < v PROVE b * u + b <= b * v
  <2>1. u + 1 <= v
    BY <1>1
  <2> QED
    BY <2>1
<1>2. ~(x < y)
  BY <1>1
<1>3. ~(y < x)
  BY <1>1
<1>4. x = y
  BY <1>2, <1>3
<1> QED
  BY <1>4

\* Quotient and remainder.
LEMMA Division ==
    ASSUME NEW n \in Nat
    PROVE  /\ n % QueueSize \in Slot /\ n \div QueueSize \in Nat
           /\ n = QueueSize * (n \div QueueSize) + (n % QueueSize)
BY Positive DEF Slot

\* Tickets that are less than QueueSize apart have different slots.
LEMMA SlotsDiffer ==
    ASSUME NEW m \in Nat, NEW n \in Nat, m < n, n < m + QueueSize
    PROVE  m % QueueSize # n % QueueSize
<1> DEFINE x == m \div QueueSize  y == n \div QueueSize
<1>1. /\ x \in Nat /\ y \in Nat /\ QueueSize \in Nat
      /\ m = QueueSize * x + (m % QueueSize)
      /\ n = QueueSize * y + (n % QueueSize)
      /\ m % QueueSize \in 0..QueueSize - 1
  BY Division, Positive DEF Slot
<1> HIDE DEF x, y
<1> SUFFICES ASSUME m % QueueSize = n % QueueSize PROVE FALSE
  OBVIOUS
<1>2. QueueSize * x < QueueSize * y /\ QueueSize * y < QueueSize * x + QueueSize
  BY <1>1
<1>3. ASSUME x < y PROVE QueueSize * x + QueueSize <= QueueSize * y
  <2>1. x + 1 <= y
    BY <1>1, <1>3
  <2> QED
    BY <1>1, <2>1
<1>4. ASSUME y <= x PROVE QueueSize * y <= QueueSize * x
  BY <1>1, <1>4
<1> QED
  BY <1>1, <1>2, <1>3, <1>4

\* A key tells its producer and its place.
LEMMA KeyCode ==
    ASSUME NEW p \in Producer, NEW j \in 0..NumKey - 1
    PROVE  /\ NumKey * p + j \in Key
           /\ \A q \in Producer, k \in 0..NumKey - 1 :
                 NumKey * p + j = NumKey * q + k => p = q /\ j = k
<1>1. p \in Nat /\ p + 1 <= NumProducer /\ NumProducer \in Nat /\ NumKey \in Nat
  BY Positive DEF Producer
<1>2. NumKey * p \in Nat
  BY <1>1
<1>3. NumKey * p + NumKey <= NumProducer * NumKey
  BY <1>1
<1>4. \A q \in Producer : q \in Int
  BY Positive DEF Producer
<1> QED
  BY <1>1, <1>2, <1>3, <1>4, Remainders DEF Key

\* Ticket, slot and round.
LEMMA Tickets ==
    /\ \A n \in Nat : /\ n % QueueSize \in Slot /\ n \div QueueSize \in Nat
                      /\ n = QueueSize * (n \div QueueSize) + (n % QueueSize)
    /\ \A m, n \in Nat : m % QueueSize = n % QueueSize /\ m \div QueueSize = n \div QueueSize
          => m = n
    /\ \A s \in Slot, r \in Nat : QueueSize * r + s \in Nat
    /\ \A s \in Slot, r \in Nat : /\ (QueueSize * r + s) % QueueSize = s
                                  /\ (QueueSize * r + s) \div QueueSize = r
<1>1. \A n \in Nat : /\ n % QueueSize \in Slot /\ n \div QueueSize \in Nat
                     /\ n = QueueSize * (n \div QueueSize) + (n % QueueSize)
  BY Division
<1>2. \A m, n \in Nat : m % QueueSize = n % QueueSize /\ m \div QueueSize = n \div QueueSize
         => m = n
  BY <1>1
<1>3. \A s \in Slot, r \in Nat : QueueSize * r + s \in Nat
  <2> SUFFICES ASSUME NEW s \in Slot, NEW r \in Nat PROVE QueueSize * r + s \in Nat
    OBVIOUS
  <2>1. QueueSize * r \in Nat /\ s \in Nat
    BY Positive DEF Slot
  <2> QED
    BY <2>1
<1>4. ASSUME NEW s \in Slot, NEW r \in Nat
      PROVE  /\ (QueueSize * r + s) % QueueSize = s
             /\ (QueueSize * r + s) \div QueueSize = r
  <2> DEFINE n == QueueSize * r + s
  <2>1. /\ n \in Nat /\ n % QueueSize \in Slot /\ n \div QueueSize \in Nat
        /\ QueueSize * r + s = QueueSize * (n \div QueueSize) + (n % QueueSize)
    BY <1>1, <1>3
  <2> QED
    BY <2>1, Remainders, Positive DEF Slot
<1> QED
  BY <1>1, <1>2, <1>3, <1>4

-----------------------------------------------------------------------------
(* The queues: types and control                                           *)

\* A thread is a producer or a consumer; keys, the sentinel and null differ.
LEMMA QueueFacts ==
    /\ Producer \subseteq Thread /\ Consumer \subseteq Thread
    /\ \A t \in Thread : t \in Producer \/ t \in Consumer
    /\ \A p \in Producer : p \notin Consumer /\ p \in Nat
    /\ Key \subseteq Nat /\ Key \subseteq Node /\ sentinel \in Node /\ Node \subseteq Nat
    /\ sentinel \notin Key /\ null \notin Node /\ null \in Nat
    /\ \A p \in Producer, j \in 0..NumKey - 1 : NumKey * p + j \in Key
<1>1. NumProducer * NumKey \in Nat
  BY Positive
<1>2. \A p \in Producer, j \in 0..NumKey - 1 : NumKey * p + j \in Key
  BY KeyCode
<1> QED
  BY <1>1, <1>2, Positive DEF Producer, Consumer, Thread, Key, Node, sentinel, null

\* A producer in a call enqueues a key of its own.
LEMMA KeyOfCall ==
    ASSUME QueueTypeOK, NEW p \in Producer, i[p] < NumKey
    PROVE  key_enqueue(p) \in Key /\ i[p] \in 0..NumKey - 1 /\ i[p] + 1 \in 0..NumKey
<1>1. i[p] \in 0..NumKey - 1 /\ i[p] + 1 \in 0..NumKey
  BY QueueFacts, Positive, SMTT(30) DEF QueueTypeOK
<1> QED
  BY <1>1, QueueFacts DEF key_enqueue

\* The n-th node of the list is a node, ...
LEMMA ListNodes ==
    ASSUME QueueTypeOK
    PROVE  /\ Len(enqueued) \in Nat /\ Len(dequeued) \in Nat
           /\ \A k \in 0..Len(enqueued) : at(k) \in Node
           /\ \A k \in 1..Len(enqueued) : at(k) = enqueued[k] /\ at(k) \in Key
<1>1. enqueued \in Seq(Key) /\ Len(enqueued) \in Nat /\ Len(dequeued) \in Nat
  BY DEF QueueTypeOK
<1>2. \A k \in 1..Len(enqueued) : enqueued[k] \in Key
  BY <1>1, ElementOfSeq
<1>3. \A k \in 1..Len(enqueued) : at(k) = enqueued[k] /\ at(k) \in Key
  BY <1>2 DEF at
<1>4. \A k \in 0..Len(enqueued) : at(k) \in Node
  <2>1. \A k \in 0..Len(enqueued) : k = 0 \/ k \in 1..Len(enqueued)
    BY <1>1
  <2>2. at(0) \in Node
    BY QueueFacts DEF at
  <2> QED
    BY <1>3, <2>1, <2>2, QueueFacts
<1> QED
  BY <1>1, <1>3, <1>4

\* ... and so is what follows what a thread has copied.
LEMMA CopiedNode ==
    ASSUME QueueTypeOK, ListOK, NEW t \in Thread, CopiedAt(t, TRUE)
    PROVE  next[copied[t]] \in Key /\ next[copied[t]] # null
<1>1. PICK k \in 0..Len(enqueued) : copied[t] = at(k) /\ k < Len(enqueued)
  BY DEF CopiedAt
<1>2. k + 1 \in 1..Len(enqueued) /\ k \in 0..Len(enqueued) - 1
  BY <1>1, ListNodes
<1>3. next[copied[t]] = at(k + 1)
  BY <1>1, <1>2 DEF ListOK
<1> QED
  BY <1>2, <1>3, ListNodes, QueueFacts

\* The end of a call.
LEMMA ReturnOK ==
    ASSUME QueueTypeOK, PcOK, NEW t \in Thread, return(t), i[t] < NumKey
    PROVE  /\ i' \in [Thread -> 0..NumKey]
           /\ i'[t] = i[t] + 1 /\ pc'[t] = "idle"
           /\ \A u \in Thread : u # t => i'[u] = i[u] /\ pc'[u] = pc[u]
BY Positive DEF QueueTypeOK, PcOK, return, goto

\* Control keeps to the program.
LEMMA PcStep ==
    ASSUME QueueTypeOK, PcOK, NEW t \in Thread,
           \/ t \in Producer /\ enqueue(t)
           \/ t \in Consumer /\ dequeue(t)
    PROVE  /\ program' = program /\ PcOK'
           /\ \A u \in Thread : u # t => pc'[u] = pc[u] /\ i'[u] = i[u]
<1> DEFINE Labels == {"idle", "put", "publish", "get", "release",
                      "append", "help", "swing", "next", "take"}
<1>0. /\ pc \in [Thread -> Labels] /\ i \in [Thread -> 0..NumKey]
      /\ \A u \in Thread : pc[u] # "idle" => i[u] < NumKey
      /\ \A p \in Producer : \/ pc[p] = "idle"
                             \/ program = "ticket" /\ pc[p] \in {"put", "publish"}
                             \/ program = "linked" /\ pc[p] \in {"append", "help", "swing"}
      /\ \A c \in Consumer : \/ pc[c] = "idle"
                             \/ program = "ticket" /\ pc[c] \in {"get", "release"}
                             \/ program = "linked" /\ pc[c] \in {"next", "take"}
  BY DEF QueueTypeOK, PcOK
<1>1. /\ program' = program
      /\ \/ return(t) /\ i[t] < NumKey
         \/ /\ i' = i /\ i[t] < NumKey
            /\ \E l \in Labels :
                  /\ goto(t, l)
                  /\ t \in Producer =>
                        \/ l = "idle"
                        \/ program = "ticket" /\ l \in {"put", "publish"}
                        \/ program = "linked" /\ l \in {"append", "help", "swing"}
                  /\ t \in Consumer =>
                        \/ l = "idle"
                        \/ program = "ticket" /\ l \in {"get", "release"}
                        \/ program = "linked" /\ l \in {"next", "take"}
  <2>1. CASE t \in Producer /\ (giantEnqueue(t) \/ drawRear(t) \/ put(t) \/ publish(t))
    BY <1>0, <2>1, QueueFacts DEF giantEnqueue, drawRear, put, publish, call
  <2>2. CASE t \in Producer /\ (readTail(t) \/ append(t) \/ help(t) \/ swing(t))
    BY <1>0, <2>2, QueueFacts DEF readTail, append, help, swing, call
  <2>3. CASE t \in Consumer /\ (giantDequeue(t) \/ drawFront(t) \/ get(t) \/ release(t))
    BY <1>0, <2>3, QueueFacts DEF giantDequeue, drawFront, get, release, call
  <2>4. CASE t \in Consumer /\ (readHead(t) \/ readNext(t) \/ take(t))
    BY <1>0, <2>4, QueueFacts DEF readHead, readNext, take, call
  <2> QED
    BY <2>1, <2>2, <2>3, <2>4 DEF enqueue, dequeue
<1>2. \A u \in Thread : u # t => pc'[u] = pc[u] /\ i'[u] = i[u]
  BY <1>0, <1>1 DEF return, goto
<1>3. CASE return(t)
  <2>1. pc' = [pc EXCEPT ![t] = "idle"]
    BY <1>3 DEF return, goto
  <2> QED
    BY <1>0, <1>1, <1>2, <2>1, QueueFacts DEF PcOK
<1>4. CASE ~return(t)
  <2>1. PICK l \in Labels :
           /\ goto(t, l)
           /\ t \in Producer => \/ l = "idle"
                                \/ program = "ticket" /\ l \in {"put", "publish"}
                                \/ program = "linked" /\ l \in {"append", "help", "swing"}
           /\ t \in Consumer => \/ l = "idle"
                                \/ program = "ticket" /\ l \in {"get", "release"}
                                \/ program = "linked" /\ l \in {"next", "take"}
    BY <1>1, <1>4
  <2>2. i' = i /\ i[t] < NumKey /\ pc' = [pc EXCEPT ![t] = l]
    BY <1>1, <1>4, <2>1 DEF goto
  <2> QED
    BY <1>0, <1>1, <1>2, <2>1, <2>2, QueueFacts DEF PcOK
<1> QED
  BY <1>1, <1>2, <1>3, <1>4

\* A dequeue that gets its key changes the key of its entry and nothing else.
LEMMA GetKeeps ==
    ASSUME NEW d \in Seq([consumer : Consumer, key : Nat]), NEW n \in Nat, NEW k \in Nat,
           NEW e, e = [d EXCEPT ![n + 1].key = k]
    PROVE  /\ e \in Seq([consumer : Consumer, key : Nat])
           /\ Len(e) = Len(d)
           /\ \A m \in 1..Len(d) : e[m].key = IF m = n + 1 THEN k ELSE d[m].key
<1> DEFINE R == [consumer : Consumer, key : Nat]
<1>0. d \in Seq(R) /\ Len(d) \in Nat /\ DOMAIN d = 1..Len(d)
  OBVIOUS
<1>1. CASE n + 1 \in 1..Len(d)
  <2>1. d[n + 1] \in R
    BY <1>0, <1>1, ElementOfSeq
  <2> DEFINE r == [d[n + 1] EXCEPT !.key = k]
  <2>2. r \in R /\ r.key = k
    BY <2>1
  <2>3. e = [d EXCEPT ![n + 1] = r]
    OBVIOUS
  <2> HIDE DEF r, R
  <2>4. /\ e \in Seq(R)
        /\ Len(e) = Len(d)
        /\ \A m \in 1..Len(d) : e[m] = IF m = n + 1 THEN r ELSE d[m]
    BY <1>0, <1>1, <2>2, <2>3, ExceptSeq, SMTT(30)
  <2>5. \A m \in 1..Len(d) : e[m].key = IF m = n + 1 THEN k ELSE d[m].key
    BY <2>2, <2>4
  <2> QED
    BY <2>4, <2>5 DEF R
<1>2. CASE n + 1 \notin 1..Len(d)
  <2>1. e = d
    BY <1>0, <1>2
  <2>2. \A m \in 1..Len(d) : m # n + 1
    BY <1>2
  <2> QED
    BY <1>0, <2>1, <2>2
<1> QED
  BY <1>1, <1>2

\* The variables keep their types.
LEMMA QueueTypeStep ==
    ASSUME QueueTypeOK, PcOK, LinkedOK, NEW t \in Thread,
           \/ t \in Producer /\ enqueue(t)
           \/ t \in Consumer /\ dequeue(t)
    PROVE  QueueTypeOK'
<1>0. /\ pc[t] # "idle" => i[t] < NumKey
      /\ i \in [Thread -> 0..NumKey]
      /\ t \in Producer /\ pc[t] \in {"append", "help", "swing"} => program = "linked"
      /\ t \in Consumer /\ pc[t] \in {"next", "take"} => program = "linked"
  BY QueueFacts DEF PcOK, QueueTypeOK
<1>1. CASE t \in Producer /\ giantEnqueue(t)
  <2>1. /\ i[t] < NumKey /\ return(t)
        /\ queue' = [queue EXCEPT ![rear % QueueSize].key = key_enqueue(t)]
        /\ rear' = rear + 1
        /\ enqueued' = Append(enqueued, key_enqueue(t))
        /\ UNCHANGED <<front, head, tail, next, seq, copied, retNode, retKey, dequeued>>
    BY <1>1 DEF giantEnqueue, call, linked, locals
  <2>2. key_enqueue(t) \in Key /\ key_enqueue(t) \in Nat
    BY <1>1, <2>1, KeyOfCall, QueueFacts
  <2>3. queue' \in [Slot -> [key : Nat, flag : Nat]]
    BY <2>1, <2>2 DEF QueueTypeOK
  <2>4. i' \in [Thread -> 0..NumKey]
    BY <2>1, ReturnOK
  <2> QED
    BY <2>1, <2>2, <2>3, <2>4, SMTT(30) DEF QueueTypeOK
<1>2. CASE t \in Producer /\ drawRear(t)
  <2>1. /\ i[t] < NumKey
        /\ seq' = [seq EXCEPT ![t] = rear]
        /\ rear' = rear + 1
        /\ enqueued' = Append(enqueued, key_enqueue(t))
        /\ UNCHANGED <<front, queue, head, tail, next, i, copied, retNode, retKey, dequeued>>
    BY <1>2 DEF drawRear, call, linked
  <2>2. key_enqueue(t) \in Key
    BY <1>2, <2>1, KeyOfCall
  <2> QED
    BY <2>1, <2>2 DEF QueueTypeOK
<1>3. CASE t \in Producer /\ put(t)
  <2>1. /\ queue' = [queue EXCEPT ![slot(t)].key = key_enqueue(t)]
        /\ UNCHANGED <<front, rear, head, tail, next, i, seq, copied, retNode, retKey,
                       enqueued, dequeued>>
    BY <1>3 DEF put, linked, locals, history
  <2>2. key_enqueue(t) \in Nat
    BY <1>0, <1>3, KeyOfCall, QueueFacts DEF put
  <2>3. queue' \in [Slot -> [key : Nat, flag : Nat]]
    BY <2>1, <2>2 DEF QueueTypeOK
  <2> QED
    BY <2>1, <2>3 DEF QueueTypeOK
<1>4. CASE t \in Producer /\ publish(t)
  <2>1. /\ queue' = [queue EXCEPT ![slot(t)].flag = @ + 1] /\ return(t)
        /\ UNCHANGED <<front, rear, head, tail, next, seq, copied, retNode, retKey,
                       enqueued, dequeued>>
    BY <1>4 DEF publish, linked, locals, history
  <2>2. i' \in [Thread -> 0..NumKey]
    BY <1>0, <1>4, <2>1, ReturnOK DEF publish
  <2>3. slot(t) \in Slot
    BY QueueFacts, Tickets DEF QueueTypeOK, slot
  <2>4. queue[slot(t)].flag + 1 \in Nat
    BY <2>3 DEF QueueTypeOK
  <2>5. queue' \in [Slot -> [key : Nat, flag : Nat]]
    BY <2>1, <2>4 DEF QueueTypeOK
  <2> QED
    BY <2>1, <2>2, <2>5 DEF QueueTypeOK
<1>5. CASE t \in Producer /\ readTail(t)
  BY <1>5 DEF readTail, linked, bounded, history, QueueTypeOK
<1>6. CASE t \in Producer /\ append(t)
  <2>1. key_enqueue(t) \in Key /\ key_enqueue(t) \in Node
    BY <1>0, <1>6, KeyOfCall, QueueFacts DEF append
  <2>2. UNCHANGED <<front, rear, queue, head, tail, i, seq, copied, retKey, dequeued>>
    BY <1>6 DEF append, bounded
  <2>3. CASE next[copied[t]] = null
    <3>1. /\ next' = [next EXCEPT ![copied[t]] = key_enqueue(t)]
          /\ enqueued' = Append(enqueued, key_enqueue(t))
          /\ UNCHANGED retNode
      BY <1>6, <2>3 DEF append
    <3> QED
      BY <2>1, <2>2, <3>1 DEF QueueTypeOK
  <2>4. CASE next[copied[t]] # null
    <3>1. /\ retNode' = [retNode EXCEPT ![t] = next[copied[t]]]
          /\ UNCHANGED <<next, enqueued>>
      BY <1>6, <2>4 DEF append
    <3>2. next[copied[t]] \in Node \cup {null}
      BY DEF QueueTypeOK
    <3> QED
      BY <2>2, <3>1, <3>2 DEF QueueTypeOK
  <2> QED
    BY <2>3, <2>4
<1>7. CASE t \in Producer /\ (help(t) \/ swing(t))
  <2>1. pc[t] \in {"help", "swing"} /\ program = "linked"
    BY <1>0, <1>7 DEF help, swing
  <2>2. /\ CopiedAt(t, TRUE) /\ ListOK
        /\ pc[t] = "help" => retNode[t] = next[copied[t]]
        /\ pc[t] = "swing" => key_enqueue(t) = next[copied[t]]
    BY <1>7, <2>1 DEF LinkedOK, CopiesOK
  <2>3. next[copied[t]] \in Node
    BY <2>2, CopiedNode, QueueFacts
  <2>4. /\ UNCHANGED <<front, rear, queue, head, next, seq, copied, retNode, retKey, enqueued, dequeued>>
        /\ tail' = tail \/ tail' = next[copied[t]]
    BY <1>7, <2>2 DEF help, swing, swapTail, bounded, locals, history
  <2>5. i' \in [Thread -> 0..NumKey]
    BY <1>0, <1>7, ReturnOK DEF help, swing
  <2> QED
    BY <2>3, <2>4, <2>5 DEF QueueTypeOK
<1>8. CASE t \in Consumer /\ giantDequeue(t)
  <2>1. /\ i[t] < NumKey /\ return(t)
        /\ front' = front + 1
        /\ dequeued' = Append(dequeued, [consumer |-> t, key |-> queue[front % QueueSize].key])
        /\ UNCHANGED <<rear, queue, head, tail, next, seq, copied, retNode, retKey, enqueued>>
    BY <1>8 DEF giantDequeue, call, linked, locals
  <2>2. front % QueueSize \in Slot
    BY Tickets DEF QueueTypeOK
  <2>3. queue[front % QueueSize].key \in Nat
    BY <2>2 DEF QueueTypeOK
  <2>4. [consumer |-> t, key |-> queue[front % QueueSize].key] \in [consumer : Consumer, key : Nat]
    BY <1>8, <2>3
  <2>5. dequeued' \in Seq([consumer : Consumer, key : Nat])
    BY <2>1, <2>4 DEF QueueTypeOK
  <2>6. i' \in [Thread -> 0..NumKey]
    BY <2>1, ReturnOK
  <2> QED
    BY <2>1, <2>5, <2>6 DEF QueueTypeOK
<1>9. CASE t \in Consumer /\ drawFront(t)
  <2>1. /\ seq' = [seq EXCEPT ![t] = front]
        /\ front' = front + 1
        /\ dequeued' = Append(dequeued, [consumer |-> t, key |-> null])
        /\ UNCHANGED <<rear, queue, head, tail, next, i, copied, retNode, retKey, enqueued>>
    BY <1>9 DEF drawFront, linked
  <2>2. [consumer |-> t, key |-> null] \in [consumer : Consumer, key : Nat]
    BY <1>9, QueueFacts
  <2>3. dequeued' \in Seq([consumer : Consumer, key : Nat])
    BY <2>1, <2>2 DEF QueueTypeOK
  <2> QED
    BY <2>1, <2>3 DEF QueueTypeOK
<1>10. CASE t \in Consumer /\ get(t)
  <2>1. /\ retKey' = [retKey EXCEPT ![t] = queue[slot(t)].key]
        /\ dequeued' = [dequeued EXCEPT ![seq[t] + 1].key = retKey'[t]]
        /\ UNCHANGED <<front, rear, queue, head, tail, next, i, seq, copied, retNode, enqueued>>
    BY <1>10 DEF get, bounded, linked
  <2>2. slot(t) \in Slot
    BY Tickets DEF QueueTypeOK, slot
  <2>3. queue[slot(t)].key \in Nat
    BY <2>2 DEF QueueTypeOK
  <2>4. retKey' \in [Consumer -> Nat] /\ retKey'[t] \in Nat
    BY <1>10, <2>1, <2>3 DEF QueueTypeOK
  <2>5. dequeued' \in Seq([consumer : Consumer, key : Nat])
    BY <2>1, <2>4, GetKeeps DEF QueueTypeOK
  <2> QED
    BY <2>1, <2>4, <2>5 DEF QueueTypeOK
<1>11. CASE t \in Consumer /\ release(t)
  <2>1. /\ queue' = [queue EXCEPT ![slot(t)].flag = @ + 1] /\ return(t)
        /\ UNCHANGED <<front, rear, head, tail, next, seq, copied, retNode, retKey,
                       enqueued, dequeued>>
    BY <1>11 DEF release, linked, locals, history
  <2>2. i' \in [Thread -> 0..NumKey]
    BY <1>0, <1>11, <2>1, ReturnOK DEF release
  <2>3. slot(t) \in Slot
    BY QueueFacts, Tickets DEF QueueTypeOK, slot
  <2>4. queue[slot(t)].flag + 1 \in Nat
    BY <2>3 DEF QueueTypeOK
  <2>5. queue' \in [Slot -> [key : Nat, flag : Nat]]
    BY <2>1, <2>4 DEF QueueTypeOK
  <2> QED
    BY <2>1, <2>2, <2>5 DEF QueueTypeOK
<1>12. CASE t \in Consumer /\ (readHead(t) \/ readNext(t))
  BY <1>12 DEF readHead, readNext, linked, bounded, locals, history, QueueTypeOK
<1>13. CASE t \in Consumer /\ take(t)
  <2>1. pc[t] = "take" /\ program = "linked"
    BY <1>0, <1>13 DEF take
  <2>2. next[copied[t]] \in Key
    BY <1>13, <2>1, CopiedNode DEF LinkedOK, CopiesOK
  <2>3. UNCHANGED <<front, rear, queue, tail, next, seq, copied, retNode, retKey, enqueued>>
    BY <1>13 DEF take, bounded, locals
  <2>4. CASE head = copied[t]
    <3>1. /\ head' = next[copied[t]] /\ return(t)
          /\ dequeued' = Append(dequeued, [consumer |-> t, key |-> next[copied[t]]])
      BY <1>13, <2>4 DEF take
    <3>2. [consumer |-> t, key |-> next[copied[t]]] \in [consumer : Consumer, key : Nat]
      BY <1>13, <2>2, QueueFacts
    <3>3. i' \in [Thread -> 0..NumKey]
      BY <1>0, <2>1, <3>1, ReturnOK
    <3> QED
      BY <2>2, <2>3, <3>1, <3>2, <3>3, QueueFacts, SMTT(30) DEF QueueTypeOK
  <2>5. CASE head # copied[t]
    BY <1>13, <2>3, <2>5 DEF take, QueueTypeOK
  <2> QED
    BY <2>4, <2>5
<1> QED
  BY <1>1, <1>2, <1>3, <1>4, <1>5, <1>6, <1>7, <1>8, <1>9, <1>10, <1>11, <1>12, <1>13
     DEF enqueue, dequeue

-----------------------------------------------------------------------------
(* The queue under one mutex                                               *)

\* The keys between front and rear stay in their slots until they are taken.
LEMMA GiantStep ==
    ASSUME QueueTypeOK, GiantOK, program = "giant", NEW t \in Thread,
           \/ t \in Producer /\ giantEnqueue(t)
           \/ t \in Consumer /\ giantDequeue(t)
    PROVE  GiantOK'
<1>0. /\ front = Len(dequeued) /\ rear = Len(enqueued)
      /\ front <= rear /\ rear <= front + QueueSize
      /\ \A n \in front..rear - 1 : queue[n % QueueSize].key = enqueued[n + 1]
      /\ \A n \in 1..front : dequeued[n].key = enqueued[n]
      /\ front \in Nat /\ rear \in Nat /\ QueueSize \in Nat
      /\ enqueued \in Seq(Key) /\ dequeued \in Seq([consumer : Consumer, key : Nat])
      /\ queue \in [Slot -> [key : Nat, flag : Nat]]
  BY Positive DEF GiantOK, QueueTypeOK
<1>1. CASE t \in Producer /\ giantEnqueue(t)
  <2>1. /\ i[t] < NumKey /\ rear < front + QueueSize
        /\ queue' = [queue EXCEPT ![rear % QueueSize].key = key_enqueue(t)]
        /\ rear' = rear + 1
        /\ enqueued' = Append(enqueued, key_enqueue(t))
        /\ UNCHANGED <<program, front, dequeued>>
    BY <1>1 DEF giantEnqueue, call
  <2>2. key_enqueue(t) \in Key /\ rear % QueueSize \in Slot
    BY <1>0, <1>1, <2>1, KeyOfCall, Tickets
  <2>3. /\ Len(enqueued') = rear + 1
        /\ \A n \in 1..rear : enqueued'[n] = enqueued[n]
        /\ enqueued'[rear + 1] = key_enqueue(t)
    BY <1>0, <2>1, <2>2, AppendProperties
  <2>4. \A s \in Slot : queue'[s].key = IF s = rear % QueueSize THEN key_enqueue(t) ELSE queue[s].key
    BY <1>0, <2>1
  <2>5. \A n \in front..rear : queue'[n % QueueSize].key = enqueued'[n + 1]
    <3> SUFFICES ASSUME NEW n \in front..rear
                 PROVE  queue'[n % QueueSize].key = enqueued'[n + 1]
      OBVIOUS
    <3>1. CASE n = rear
      BY <2>2, <2>3, <2>4, <3>1
    <3>2. CASE n < rear
      <4>0. n \in Nat /\ rear < n + QueueSize
        BY <1>0, <2>1
      <4>1. n \in Nat /\ rear < n + QueueSize /\ n % QueueSize \in Slot
        BY <4>0, Tickets
      <4>2. n % QueueSize # rear % QueueSize
        BY <1>0, <3>2, <4>1, SlotsDiffer
      <4>3. queue[n % QueueSize].key = enqueued[n + 1] /\ n + 1 \in 1..rear
        BY <1>0, <3>2
      <4> QED
        BY <2>3, <2>4, <4>1, <4>2, <4>3
    <3> QED
      BY <1>0, <3>1, <3>2
  <2>6. \A n \in 1..front : dequeued'[n].key = enqueued'[n]
    BY <1>0, <2>1, <2>3
  <2>7. /\ front' = Len(dequeued') /\ rear' = Len(enqueued')
        /\ front' <= rear' /\ rear' <= front' + QueueSize
    BY <1>0, <2>1, <2>3
  <2>8. rear' - 1 = rear /\ front' = front
    BY <1>0, <2>1
  <2> QED
    BY <2>5, <2>6, <2>7, <2>8 DEF GiantOK
<1>2. CASE t \in Consumer /\ giantDequeue(t)
  <2>1. /\ rear # front
        /\ front' = front + 1
        /\ dequeued' = Append(dequeued, [consumer |-> t, key |-> queue[front % QueueSize].key])
        /\ UNCHANGED <<program, rear, queue, enqueued>>
    BY <1>2 DEF giantDequeue
  <2>2. queue[front % QueueSize].key = enqueued[front + 1] /\ front % QueueSize \in Slot
    <3>1. front \in front..rear - 1
      BY <1>0, <2>1
    <3> QED
      BY <1>0, <3>1, Tickets
  <2>3. [consumer |-> t, key |-> queue[front % QueueSize].key] \in [consumer : Consumer, key : Nat]
    BY <1>0, <1>2, <2>2
  <2>4. /\ Len(dequeued') = front + 1
        /\ \A n \in 1..front : dequeued'[n] = dequeued[n]
        /\ dequeued'[front + 1] = [consumer |-> t, key |-> queue[front % QueueSize].key]
    BY <1>0, <2>1, <2>3, AppendProperties
  <2>5. dequeued'[front + 1].key = enqueued[front + 1]
    BY <2>2, <2>4
  <2>6. \A n \in 1..front + 1 : dequeued'[n].key = enqueued'[n]
    <3> SUFFICES ASSUME NEW n \in 1..front + 1 PROVE dequeued'[n].key = enqueued'[n]
      OBVIOUS
    <3>1. n \in 1..front \/ n = front + 1
      BY <1>0
    <3> QED
      BY <1>0, <2>1, <2>4, <2>5, <3>1
  <2>7. front + 1 <= rear /\ rear <= front + 1 + QueueSize
    BY <1>0, <2>1
  <2>8. \A n \in front'..rear' - 1 : queue'[n % QueueSize].key = enqueued'[n + 1]
    BY <1>0, <2>1
  <2> QED
    BY <1>0, <2>1, <2>4, <2>6, <2>7, <2>8 DEF GiantOK
<1> QED
  BY <1>1, <1>2

-----------------------------------------------------------------------------
(* The queue with tickets                                                  *)

\* Drawing a ticket: all others keep theirs.
LEMMA DrawRearStep ==
    ASSUME QueueTypeOK, PcOK, TicketOK, program = "ticket", NEW p \in Producer, drawRear(p)
    PROVE  TicketOK'
<1>0. /\ enqueued \in Seq(Key) /\ rear \in Nat /\ seq \in [Thread -> Nat] /\ QueueSize \in Nat
      /\ p \in Thread /\ Producer \subseteq Thread /\ Consumer \subseteq Thread
      /\ p \notin Consumer
      /\ pc \in [Thread -> {"idle", "put", "publish", "get", "release",
                            "append", "help", "swing", "next", "take"}]
  BY QueueFacts, Positive DEF QueueTypeOK, PcOK
<1>1. /\ pc[p] = "idle" /\ i[p] < NumKey
      /\ rear' = rear + 1
      /\ enqueued' = Append(enqueued, key_enqueue(p))
      /\ UNCHANGED <<program, front, queue, i, dequeued>>
      /\ \A t \in Thread : /\ pc'[t] = IF t = p THEN "put" ELSE pc[t]
                           /\ seq'[t] = IF t = p THEN rear ELSE seq[t]
  BY <1>0 DEF drawRear, call, goto
<1>2. /\ front = Len(dequeued) /\ rear = Len(enqueued)
      /\ PutOK /\ GetOK /\ SlotsOK /\ GotOK
  BY DEF TicketOK
<1>3. key_enqueue(p) \in Key
  BY <1>0, <1>1, KeyOfCall
<1>4. /\ Len(enqueued') = rear + 1
      /\ \A n \in 1..rear : enqueued'[n] = enqueued[n]
      /\ enqueued'[rear + 1] = key_enqueue(p)
  BY <1>0, <1>1, <1>2, <1>3, AppendProperties
<1>5. /\ \A q \in Producer : key_enqueue(q)' = key_enqueue(q)
      /\ \A q \in Producer : Putting(q)' <=> q = p \/ Putting(q)
      /\ \A c \in Consumer : Getting(c)' <=> Getting(c)
      /\ \A t \in Thread : t # p => /\ slot(t)' = slot(t) /\ round(t)' = round(t)
                                    /\ flag(t)' = flag(t)
  BY <1>0, <1>1 DEF key_enqueue, Putting, Getting, slot, round, flag
<1>6. \A q \in Producer : Putting(q)' =>
         seq'[q] < rear' /\ enqueued'[seq'[q] + 1] = key_enqueue(q)'
  <2> SUFFICES ASSUME NEW q \in Producer, Putting(q)'
               PROVE  seq'[q] < rear' /\ enqueued'[seq'[q] + 1] = key_enqueue(q)'
    OBVIOUS
  <2>1. CASE q = p
    BY <1>0, <1>1, <1>4, <1>5, <2>1
  <2>2. CASE q # p
    <3>1. seq[q] < rear /\ enqueued[seq[q] + 1] = key_enqueue(q) /\ seq[q] \in Nat
      BY <1>0, <1>2, <1>5, <2>2 DEF PutOK
    <3>2. seq[q] + 1 \in 1..rear
      BY <1>0, <3>1
    <3> QED
      BY <1>0, <1>1, <1>4, <1>5, <2>2, <3>1, <3>2
  <2> QED
    BY <2>1, <2>2
<1>7. \A q, r \in Producer : Putting(q)' /\ Putting(r)' /\ seq'[q] = seq'[r] => q = r
  BY <1>0, <1>1, <1>2, <1>5 DEF PutOK
<1>8. \A q \in Producer : pc'[q] = "publish" =>
         flag(q)' = 2 * round(q)' /\ queue'[slot(q)'].key = key_enqueue(q)'
  BY <1>0, <1>1, <1>2, <1>5 DEF PutOK
<1>9. GetOK'
  BY <1>0, <1>1, <1>2, <1>5 DEF GetOK
<1>10. SlotsOK'
  <2> SUFFICES ASSUME NEW s \in Slot, NEW r \in Nat, queue'[s].flag = 2 * r + 1
               PROVE  QueueSize * r + s < rear' /\ queue'[s].key = enqueued'[QueueSize * r + s + 1]
    BY DEF SlotsOK
  <2> DEFINE n == QueueSize * r + s
  <2>1. n \in Nat /\ n < rear /\ queue[s].key = enqueued[n + 1]
    BY <1>1, <1>2, Tickets DEF SlotsOK
  <2> HIDE DEF n
  <2>2. n < rear' /\ queue'[s].key = enqueued'[n + 1]
    BY <1>0, <1>1, <1>4, <2>1
  <2> QED
    BY <2>2 DEF n
<1>11. GotOK'
  BY <1>0, <1>1, <1>2, <1>4 DEF GotOK
<1>12. PutOK'
  BY <1>6, <1>7, <1>8 DEF PutOK
<1> QED
  BY <1>1, <1>2, <1>4, <1>9, <1>10, <1>11, <1>12 DEF TicketOK

\* Threads with tickets that differ are in different slots or in different rounds.
LEMMA SameTicket ==
    ASSUME QueueTypeOK, NEW t \in Thread, NEW u \in Thread
    PROVE  /\ slot(t) \in Slot /\ round(t) \in Nat /\ seq[t] \in Nat
           /\ seq[t] = QueueSize * round(t) + slot(t)
           /\ slot(t) = slot(u) /\ round(t) = round(u) => seq[t] = seq[u]
<1>1. seq[t] \in Nat /\ seq[u] \in Nat
  BY DEF QueueTypeOK
<1> QED
  BY <1>1, Tickets DEF slot, round

\* A producer in its slot: it puts its key there and publishes it.
LEMMA PutStep ==
    ASSUME QueueTypeOK, PcOK, TicketOK, program = "ticket", NEW p \in Producer,
           put(p) \/ publish(p)
    PROVE  TicketOK'
<1>0. /\ p \in Thread /\ Producer \subseteq Thread /\ Consumer \subseteq Thread
      /\ p \notin Consumer
      /\ pc \in [Thread -> {"idle", "put", "publish", "get", "release",
                            "append", "help", "swing", "next", "take"}]
      /\ queue \in [Slot -> [key : Nat, flag : Nat]]
      /\ i \in [Thread -> 0..NumKey]
      /\ \A s \in Slot : queue[s].flag \in Nat
  BY QueueFacts DEF QueueTypeOK, PcOK
<1>1. /\ front = Len(dequeued) /\ rear = Len(enqueued)
      /\ PutOK /\ GetOK /\ SlotsOK /\ GotOK
  BY DEF TicketOK
<1>2. \A t, u \in Thread : /\ slot(t) \in Slot /\ round(t) \in Nat
                           /\ seq[t] = QueueSize * round(t) + slot(t)
                           /\ slot(t) = slot(u) /\ round(t) = round(u) => seq[t] = seq[u]
  BY SameTicket
<1>3. /\ UNCHANGED <<program, front, rear, seq, enqueued, dequeued>>
      /\ \A t \in Thread : t # p => pc'[t] = pc[t] /\ i'[t] = i[t]
      /\ Putting(p)
  BY <1>0 DEF put, publish, history, goto, return, Putting, locals
<1>4. /\ \A t \in Thread : slot(t)' = slot(t) /\ round(t)' = round(t)
      /\ \A q \in Producer : q # p => /\ key_enqueue(q)' = key_enqueue(q)
                                     /\ Putting(q)' <=> Putting(q)
      /\ \A c \in Consumer : Getting(c)' <=> Getting(c)
  BY <1>0, <1>3 DEF slot, round, key_enqueue, Putting, Getting
<1>5. GotOK'
  BY <1>1, <1>3 DEF GotOK
<1>6. CASE put(p)
  <2>1. /\ flag(p) = 2 * round(p) /\ i' = i /\ pc'[p] = "publish"
        /\ \A s \in Slot : /\ queue'[s].flag = queue[s].flag
                           /\ queue'[s].key = IF s = slot(p) THEN key_enqueue(p) ELSE queue[s].key
    <3>1. /\ flag(p) % 2 = 0 /\ flag(p) \div 2 = round(p) /\ i' = i /\ pc'[p] = "publish"
          /\ queue' = [queue EXCEPT ![slot(p)].key = key_enqueue(p)]
      BY <1>0, <1>6 DEF put, goto
    <3>2. flag(p) \in Nat
      BY <1>0, <1>2 DEF flag
    <3> QED
      BY <1>0, <1>2, <3>1, <3>2
  <2>2. \A t \in Thread : flag(t)' = flag(t)
    BY <1>2, <1>4, <2>1 DEF flag
  <2>3. \A q \in Producer : pc'[q] = "publish" =>
           flag(q)' = 2 * round(q)' /\ queue'[slot(q)'].key = key_enqueue(q)'
    <3> SUFFICES ASSUME NEW q \in Producer, pc'[q] = "publish"
                 PROVE  flag(q)' = 2 * round(q)' /\ queue'[slot(q)'].key = key_enqueue(q)'
      OBVIOUS
    <3>1. CASE q = p
      BY <1>0, <1>2, <1>4, <2>1, <2>2, <3>1 DEF key_enqueue
    <3>2. CASE q # p
      <4>1. pc[q] = "publish" /\ Putting(q) /\ flag(q) = 2 * round(q)
            /\ queue[slot(q)].key = key_enqueue(q)
        BY <1>0, <1>1, <1>3, <3>2 DEF PutOK, Putting
      <4>2. slot(q) # slot(p)
        <5>1. ASSUME slot(q) = slot(p) PROVE FALSE
          <6>1. flag(q) = flag(p)
            BY <5>1 DEF flag
          <6>0. round(q) \in Nat /\ round(p) \in Nat
            BY <1>0, <1>2
          <6>2. round(q) = round(p)
            BY <2>1, <4>1, <6>0, <6>1
          <6>3. seq[q] = seq[p]
            BY <1>0, <1>2, <5>1, <6>2
          <6> QED
            BY <1>1, <1>3, <3>2, <4>1, <6>3 DEF PutOK
        <5> QED
          BY <5>1
      <4> QED
        BY <1>0, <1>2, <1>4, <2>1, <2>2, <3>2, <4>1, <4>2
    <3> QED
      BY <3>1, <3>2
  <2>4. /\ \A q \in Producer : Putting(q)' =>
              seq'[q] < rear' /\ enqueued'[seq'[q] + 1] = key_enqueue(q)'
        /\ \A q, r \in Producer : Putting(q)' /\ Putting(r)' /\ seq'[q] = seq'[r] => q = r
    BY <1>0, <1>1, <1>3, <1>4, <2>1 DEF PutOK, key_enqueue
  <2>5. PutOK'
    BY <2>3, <2>4 DEF PutOK
  <2>6. GetOK'
    BY <1>0, <1>1, <1>3, <1>4, <2>2 DEF GetOK
  <2>7. SlotsOK'
    <3> SUFFICES ASSUME NEW s \in Slot, NEW r \in Nat, queue'[s].flag = 2 * r + 1
                 PROVE  QueueSize * r + s < rear' /\ queue'[s].key = enqueued'[QueueSize * r + s + 1]
      BY DEF SlotsOK
    <3>1. queue[s].flag = 2 * r + 1
      BY <2>1
    <3>0. round(p) \in Nat
      BY <1>0, <1>2
    <3>2. s # slot(p)
      BY <2>1, <3>0, <3>1 DEF flag
    <3> QED
      BY <1>1, <1>3, <2>1, <3>1, <3>2 DEF SlotsOK
  <2> QED
    BY <1>1, <1>3, <1>5, <2>5, <2>6, <2>7 DEF TicketOK
<1>7. CASE publish(p)
  <2>1. /\ pc[p] = "publish" /\ pc'[p] = "idle"
        /\ flag(p) = 2 * round(p) /\ queue[slot(p)].key = key_enqueue(p)
        /\ seq[p] < rear /\ enqueued[seq[p] + 1] = key_enqueue(p)
        /\ \A s \in Slot : /\ queue'[s].key = queue[s].key
                           /\ queue'[s].flag = IF s = slot(p) THEN queue[s].flag + 1
                                                             ELSE queue[s].flag
    <3>1. /\ pc[p] = "publish" /\ pc'[p] = "idle"
          /\ queue' = [queue EXCEPT ![slot(p)].flag = @ + 1]
      BY <1>0, <1>7 DEF publish, return, goto
    <3> QED
      BY <1>0, <1>1, <1>2, <3>1 DEF PutOK, Putting
  <2>2. \A t \in Thread : slot(t) # slot(p) => flag(t)' = flag(t)
    BY <1>2, <1>4, <2>1 DEF flag
  <2>3. ~Putting(p)' /\ pc'[p] # "publish"
    BY <2>1 DEF Putting
  <2>4. \A q \in Producer : q # p /\ pc[q] = "publish" => slot(q) # slot(p)
    <3> SUFFICES ASSUME NEW q \in Producer, q # p, pc[q] = "publish", slot(q) = slot(p)
                 PROVE  FALSE
      OBVIOUS
    <3>1. flag(q) = flag(p) /\ flag(q) = 2 * round(q) /\ Putting(q)
      BY <1>1 DEF PutOK, Putting, flag
    <3>0. round(q) \in Nat /\ round(p) \in Nat
      BY <1>0, <1>2
    <3>2. round(q) = round(p)
      BY <2>1, <3>0, <3>1
    <3>3. seq[q] = seq[p]
      BY <1>0, <1>2, <3>2
    <3> QED
      BY <1>1, <1>3, <3>1, <3>3 DEF PutOK
  <2>5. PutOK'
    <3>0. /\ \A q \in Producer : Putting(q)' => q # p /\ Putting(q)
          /\ \A q \in Producer : pc'[q] = "publish" => q # p /\ pc[q] = "publish"
      BY <1>0, <1>3, <2>1 DEF Putting
    <3>1. \A q \in Producer : Putting(q)' =>
             seq'[q] < rear' /\ enqueued'[seq'[q] + 1] = key_enqueue(q)'
      <4> SUFFICES ASSUME NEW q \in Producer, Putting(q)'
                   PROVE  seq'[q] < rear' /\ enqueued'[seq'[q] + 1] = key_enqueue(q)'
        OBVIOUS
      <4>1. q # p /\ Putting(q) /\ key_enqueue(q)' = key_enqueue(q)
        BY <1>4, <3>0
      <4>2. seq[q] < rear /\ enqueued[seq[q] + 1] = key_enqueue(q)
        BY <1>1, <4>1 DEF PutOK
      <4> QED
        BY <1>3, <4>1, <4>2
    <3>2. \A q, r \in Producer : Putting(q)' /\ Putting(r)' /\ seq'[q] = seq'[r] => q = r
      BY <1>1, <1>3, <3>0 DEF PutOK
    <3>3. \A q \in Producer : pc'[q] = "publish" =>
             flag(q)' = 2 * round(q)' /\ queue'[slot(q)'].key = key_enqueue(q)'
      <4> SUFFICES ASSUME NEW q \in Producer, pc'[q] = "publish"
                   PROVE  flag(q)' = 2 * round(q)' /\ queue'[slot(q)'].key = key_enqueue(q)'
        OBVIOUS
      <4>1. q # p /\ pc[q] = "publish" /\ q \in Thread /\ slot(q) # slot(p)
        BY <1>0, <2>4, <3>0
      <4>2. flag(q) = 2 * round(q) /\ queue[slot(q)].key = key_enqueue(q)
        BY <1>1, <4>1 DEF PutOK
      <4>3. /\ slot(q) \in Slot /\ slot(q)' = slot(q) /\ round(q)' = round(q)
            /\ flag(q)' = flag(q) /\ key_enqueue(q)' = key_enqueue(q)
        <5>1. slot(q) \in Slot
          BY <1>2, <4>1
        <5>2. slot(q)' = slot(q) /\ round(q)' = round(q)
          BY <1>4, <4>1
        <5>3. flag(q)' = flag(q)
          BY <2>2, <4>1
        <5>4. key_enqueue(q)' = key_enqueue(q)
          BY <1>3, <4>1 DEF key_enqueue
        <5> QED
          BY <5>1, <5>2, <5>3, <5>4
      <4>4. queue'[slot(q)].key = queue[slot(q)].key
        BY <2>1, <4>3
      <4> QED
        BY <4>2, <4>3, <4>4
    <3> QED
      BY <3>1, <3>2, <3>3 DEF PutOK
  <2>6. \A c \in Consumer : pc[c] = "release" => slot(c) # slot(p)
    <3> SUFFICES ASSUME NEW c \in Consumer, pc[c] = "release", slot(c) = slot(p)
                 PROVE  FALSE
      OBVIOUS
    <3>1. flag(c) = flag(p) /\ flag(c) = 2 * round(c) + 1
      BY <1>1 DEF GetOK, flag
    <3>2. round(c) \in Nat /\ round(p) \in Nat
      BY <1>0, <1>2
    <3> QED
      BY <2>1, <3>1, <3>2
  <2>7. GetOK'
    BY <1>0, <1>1, <1>3, <1>4, <2>2, <2>6 DEF GetOK
  <2>8. SlotsOK'
    <3> SUFFICES ASSUME NEW s \in Slot, NEW r \in Nat, queue'[s].flag = 2 * r + 1
                 PROVE  QueueSize * r + s < rear' /\ queue'[s].key = enqueued'[QueueSize * r + s + 1]
      BY DEF SlotsOK
    <3>1. CASE s = slot(p)
      <4>1. 2 * round(p) + 1 = 2 * r + 1
        BY <2>1, <3>1 DEF flag
      <4>2. round(p) = r
        BY <1>0, <1>2, <4>1, SMTT(30)
      <4>3. seq[p] = QueueSize * r + s
        BY <1>0, <1>2, <3>1, <4>2
      <4> QED
        BY <1>3, <2>1, <3>1, <4>3
    <3>2. CASE s # slot(p)
      BY <1>1, <1>3, <2>1, <3>2 DEF SlotsOK
    <3> QED
      BY <3>1, <3>2
  <2> QED
    BY <1>1, <1>3, <1>5, <2>5, <2>7, <2>8 DEF TicketOK
<1> QED
  BY <1>6, <1>7

\* A step that leaves producers and slots alone keeps what is known of them.
LEMMA PutKept ==
    ASSUME PutOK, UNCHANGED <<rear, queue, enqueued>>,
           \A p \in Producer : pc'[p] = pc[p] /\ i'[p] = i[p] /\ seq'[p] = seq[p]
    PROVE  PutOK'
<1>1. \A p \in Producer : /\ Putting(p)' <=> Putting(p)
                          /\ key_enqueue(p)' = key_enqueue(p)
                          /\ slot(p)' = slot(p) /\ round(p)' = round(p)
                          /\ flag(p)' = flag(p)
                          /\ queue'[slot(p)'] = queue[slot(p)]
  <2> SUFFICES ASSUME NEW p \in Producer
               PROVE  /\ Putting(p)' <=> Putting(p)
                      /\ key_enqueue(p)' = key_enqueue(p)
                      /\ slot(p)' = slot(p) /\ round(p)' = round(p)
                      /\ flag(p)' = flag(p)
                      /\ queue'[slot(p)'] = queue[slot(p)]
    OBVIOUS
  <2>1. pc'[p] = pc[p] /\ i'[p] = i[p] /\ seq'[p] = seq[p]
    OBVIOUS
  <2>2. slot(p)' = slot(p) /\ round(p)' = round(p)
    BY <2>1 DEF slot, round
  <2>3. flag(p)' = flag(p) /\ queue'[slot(p)'] = queue[slot(p)]
    BY <2>2 DEF flag
  <2> QED
    BY <2>1, <2>2, <2>3 DEF Putting, key_enqueue
<1>2. \A p \in Producer : Putting(p)' =>
          seq'[p] < rear' /\ enqueued'[seq'[p] + 1] = key_enqueue(p)'
  BY <1>1 DEF PutOK
<1>3. \A p, q \in Producer : Putting(p)' /\ Putting(q)' /\ seq'[p] = seq'[q] => p = q
  BY <1>1 DEF PutOK
<1>4. \A p \in Producer : pc'[p] = "publish" =>
          flag(p)' = 2 * round(p)' /\ queue'[slot(p)'].key = key_enqueue(p)'
  BY <1>1 DEF PutOK
<1> QED
  BY <1>2, <1>3, <1>4 DEF PutOK

\* A consumer draws a ticket: an entry without a key.
LEMMA DrawFrontStep ==
    ASSUME QueueTypeOK, PcOK, TicketOK, program = "ticket", NEW c \in Consumer, drawFront(c)
    PROVE  TicketOK'
<1>0. /\ dequeued \in Seq([consumer : Consumer, key : Nat])
      /\ front \in Nat /\ seq \in [Thread -> Nat]
      /\ c \in Thread /\ Producer \subseteq Thread /\ Consumer \subseteq Thread
      /\ c \notin Producer
      /\ pc \in [Thread -> {"idle", "put", "publish", "get", "release",
                            "append", "help", "swing", "next", "take"}]
  BY QueueFacts DEF QueueTypeOK, PcOK
<1>1. /\ front' = front + 1
      /\ dequeued' = Append(dequeued, [consumer |-> c, key |-> null])
      /\ UNCHANGED <<program, rear, queue, i, enqueued>>
      /\ \A t \in Thread : /\ pc'[t] = IF t = c THEN "get" ELSE pc[t]
                           /\ seq'[t] = IF t = c THEN front ELSE seq[t]
      /\ pc[c] = "idle"
  BY <1>0 DEF drawFront, call, goto
<1>2. /\ front = Len(dequeued) /\ rear = Len(enqueued)
      /\ PutOK /\ GetOK /\ SlotsOK /\ GotOK
  BY DEF TicketOK
<1>3. [consumer |-> c, key |-> null] \in [consumer : Consumer, key : Nat]
  BY QueueFacts
<1>4. /\ Len(dequeued') = front + 1
      /\ \A n \in 1..front : dequeued'[n] = dequeued[n]
      /\ dequeued'[front + 1] = [consumer |-> c, key |-> null]
  BY <1>0, <1>1, <1>2, <1>3, AppendProperties
<1>5. PutOK'
  <2>1. \A p \in Producer : pc'[p] = pc[p] /\ i'[p] = i[p] /\ seq'[p] = seq[p]
    BY <1>0, <1>1
  <2> QED
    BY <1>1, <1>2, <2>1, PutKept
<1>6. GetOK'
  <2>1. \A d \in Consumer : Getting(d)' <=> (d = c \/ Getting(d))
    <3> SUFFICES ASSUME NEW d \in Consumer
                 PROVE  Getting(d)' <=> (d = c \/ Getting(d))
      OBVIOUS
    <3>1. pc'[d] = IF d = c THEN "get" ELSE pc[d]
      BY <1>0, <1>1
    <3> QED
      BY <1>1, <3>1 DEF Getting
  <2>2. \A d \in Consumer : Getting(d)' => seq'[d] < front'
    <3> SUFFICES ASSUME NEW d \in Consumer, Getting(d)' PROVE seq'[d] < front'
      OBVIOUS
    <3>1. d \in Thread /\ seq[d] \in Nat
      BY <1>0
    <3>2. seq'[d] = IF d = c THEN front ELSE seq[d]
      BY <1>1, <3>1
    <3>3. d # c => seq[d] < front
      BY <1>2, <2>1 DEF GetOK
    <3> QED
      BY <1>0, <1>1, <3>1, <3>2, <3>3
  <2>3. \A d, e \in Consumer : Getting(d)' /\ Getting(e)' /\ seq'[d] = seq'[e] => d = e
    BY <1>0, <1>1, <1>2, <2>1, SMTT(30) DEF GetOK
  <2>4. \A d \in Consumer : pc'[d] = "release" => flag(d)' = 2 * round(d)' + 1
    BY <1>0, <1>1, <1>2 DEF GetOK, flag, slot, round
  <2> QED
    BY <2>2, <2>3, <2>4 DEF GetOK
<1>7. SlotsOK'
  BY <1>1, <1>2 DEF SlotsOK
<1>8. GotOK'
  <2> SUFFICES ASSUME NEW n \in 1..front', dequeued'[n].key # null
               PROVE  n <= rear' /\ dequeued'[n].key = enqueued'[n]
    BY DEF GotOK
  <2>1. n # front + 1
    BY <1>4
  <2>2. n \in 1..front
    BY <1>0, <1>1, <2>1
  <2> QED
    BY <1>1, <1>2, <1>4, <2>2 DEF GotOK
<1> QED
  BY <1>1, <1>2, <1>4, <1>5, <1>6, <1>7, <1>8 DEF TicketOK

\* A consumer in its slot: it gets the key of its round, ...
LEMMA GetStep ==
    ASSUME QueueTypeOK, PcOK, TicketOK, program = "ticket", NEW c \in Consumer, get(c)
    PROVE  TicketOK'
<1>0. /\ dequeued \in Seq([consumer : Consumer, key : Nat])
      /\ front \in Nat /\ seq \in [Thread -> Nat]
      /\ c \in Thread /\ Producer \subseteq Thread /\ Consumer \subseteq Thread
      /\ c \notin Producer
      /\ pc \in [Thread -> {"idle", "put", "publish", "get", "release",
                            "append", "help", "swing", "next", "take"}]
      /\ queue \in [Slot -> [key : Nat, flag : Nat]]
      /\ retKey \in [Consumer -> Nat]
  BY QueueFacts DEF QueueTypeOK, PcOK
<1>1. /\ pc[c] = "get" /\ flag(c) % 2 = 1 /\ flag(c) \div 2 = round(c)
      /\ retKey'[c] = queue[slot(c)].key
      /\ dequeued' = [dequeued EXCEPT ![seq[c] + 1].key = retKey'[c]]
      /\ UNCHANGED <<program, front, rear, queue, i, seq, enqueued>>
      /\ \A t \in Thread : pc'[t] = IF t = c THEN "release" ELSE pc[t]
  BY <1>0 DEF get, goto, bounded
<1>2. /\ front = Len(dequeued) /\ rear = Len(enqueued)
      /\ PutOK /\ GetOK /\ SlotsOK /\ GotOK
  BY DEF TicketOK
<1>3. /\ slot(c) \in Slot /\ round(c) \in Nat /\ seq[c] \in Nat
      /\ seq[c] = QueueSize * round(c) + slot(c)
  BY <1>0, SameTicket
<1>4. queue[slot(c)].key \in Nat /\ queue[slot(c)].flag \in Nat
  BY <1>0, <1>3
<1>5. flag(c) = 2 * round(c) + 1
  BY <1>1, <1>3, <1>4 DEF flag
<1>6. seq[c] < rear /\ queue[slot(c)].key = enqueued[seq[c] + 1]
  BY <1>2, <1>3, <1>5 DEF SlotsOK, flag
<1>7. /\ Len(dequeued') = front
      /\ \A m \in 1..front : dequeued'[m].key = IF m = seq[c] + 1 THEN queue[slot(c)].key
                                                                  ELSE dequeued[m].key
  <2>1. dequeued' = [dequeued EXCEPT ![seq[c] + 1].key = queue[slot(c)].key]
    BY <1>1
  <2> QED
    BY <1>0, <1>2, <1>3, <1>4, <2>1, GetKeeps, SMTT(30)
<1>8. PutOK'
  <2>1. \A p \in Producer : pc'[p] = pc[p] /\ i'[p] = i[p] /\ seq'[p] = seq[p]
    BY <1>0, <1>1
  <2> QED
    BY <1>1, <1>2, <2>1, PutKept
<1>9. GetOK'
  <2>1. \A d \in Consumer : Getting(d)' <=> Getting(d)
    BY <1>0, <1>1 DEF Getting
  <2>2. \A d \in Consumer : pc'[d] = "release" => flag(d)' = 2 * round(d)' + 1
    BY <1>0, <1>1, <1>2, <1>5 DEF GetOK, flag, slot, round
  <2> QED
    BY <1>1, <1>2, <2>1, <2>2 DEF GetOK
<1>10. SlotsOK'
  BY <1>1, <1>2 DEF SlotsOK
<1>11. GotOK'
  <2> SUFFICES ASSUME NEW n \in 1..front, dequeued'[n].key # null
               PROVE  n <= rear /\ dequeued'[n].key = enqueued[n]
    BY <1>1 DEF GotOK
  <2>1. CASE n = seq[c] + 1
    BY <1>0, <1>2, <1>3, <1>6, <1>7, <2>1 DEF QueueTypeOK
  <2>2. CASE n # seq[c] + 1
    BY <1>2, <1>7, <2>2 DEF GotOK
  <2> QED
    BY <2>1, <2>2
<1> QED
  BY <1>1, <1>2, <1>7, <1>8, <1>9, <1>10, <1>11 DEF TicketOK

\* ... and makes room for the next.
LEMMA ReleaseStep ==
    ASSUME QueueTypeOK, PcOK, TicketOK, program = "ticket", NEW c \in Consumer, release(c)
    PROVE  TicketOK'
<1>0. /\ c \in Thread /\ Producer \subseteq Thread /\ Consumer \subseteq Thread
      /\ c \notin Producer
      /\ pc \in [Thread -> {"idle", "put", "publish", "get", "release",
                            "append", "help", "swing", "next", "take"}]
      /\ queue \in [Slot -> [key : Nat, flag : Nat]]
      /\ i \in [Thread -> 0..NumKey]
      /\ \A s \in Slot : queue[s].flag \in Nat
  BY QueueFacts DEF QueueTypeOK, PcOK
<1>1. /\ front = Len(dequeued) /\ rear = Len(enqueued)
      /\ PutOK /\ GetOK /\ SlotsOK /\ GotOK
  BY DEF TicketOK
<1>2. \A t, u \in Thread : /\ slot(t) \in Slot /\ round(t) \in Nat
                           /\ slot(t) = slot(u) /\ round(t) = round(u) => seq[t] = seq[u]
  BY SameTicket
<1>3. /\ UNCHANGED <<program, front, rear, seq, enqueued, dequeued>>
      /\ \A t \in Thread : t # c => pc'[t] = pc[t] /\ i'[t] = i[t]
      /\ pc[c] = "release" /\ pc'[c] = "idle"
      /\ \A s \in Slot : /\ queue'[s].key = queue[s].key
                         /\ queue'[s].flag = IF s = slot(c) THEN queue[s].flag + 1
                                                           ELSE queue[s].flag
  <2>1. queue' = [queue EXCEPT ![slot(c)].flag = @ + 1]
    BY DEF release
  <2>2. \A s \in Slot : /\ queue'[s].key = queue[s].key
                        /\ queue'[s].flag = IF s = slot(c) THEN queue[s].flag + 1
                                                          ELSE queue[s].flag
    BY <1>0, <1>2, <2>1
  <2> QED
    BY <1>0, <2>2 DEF release, return, goto, locals, history
<1>4. flag(c) = 2 * round(c) + 1 /\ flag(c) = queue[slot(c)].flag
  BY <1>1, <1>3 DEF GetOK, flag
<1>5. \A t \in Thread : slot(t)' = slot(t) /\ round(t)' = round(t)
  BY <1>3 DEF slot, round
<1>6. \A t \in Thread : slot(t) # slot(c) => flag(t)' = flag(t)
  BY <1>2, <1>3, <1>5 DEF flag
<1>7. PutOK'
  <2>1. \A p \in Producer : pc[p] = "publish" => slot(p) # slot(c)
    <3> SUFFICES ASSUME NEW p \in Producer, pc[p] = "publish", slot(p) = slot(c) PROVE FALSE
      OBVIOUS
    <3>1. flag(p) = 2 * round(p) /\ flag(p) = flag(c)
      BY <1>1 DEF PutOK, flag
    <3>2. round(p) \in Nat /\ round(c) \in Nat
      BY <1>0, <1>2
    <3> QED
      BY <1>4, <3>1, <3>2
  <2>2. \A p \in Producer : /\ p # c /\ p \in Thread
                            /\ pc'[p] = pc[p] /\ i'[p] = i[p]
    BY <1>0, <1>3
  <2>3. \A p \in Producer : key_enqueue(p)' = key_enqueue(p) /\ (Putting(p)' <=> Putting(p))
    BY <2>2 DEF key_enqueue, Putting
  <2>4. \A p \in Producer : pc'[p] = "publish" =>
           flag(p)' = 2 * round(p)' /\ queue'[slot(p)'].key = key_enqueue(p)'
    <3> SUFFICES ASSUME NEW p \in Producer, pc'[p] = "publish"
                 PROVE  flag(p)' = 2 * round(p)' /\ queue'[slot(p)'].key = key_enqueue(p)'
      OBVIOUS
    <3>1. /\ p \in Thread /\ pc[p] = "publish" /\ slot(p) # slot(c)
      BY <2>1, <2>2
    <3>2. flag(p) = 2 * round(p) /\ queue[slot(p)].key = key_enqueue(p)
      BY <1>1, <3>1 DEF PutOK
    <3>3. slot(p)' = slot(p) /\ round(p)' = round(p) /\ flag(p)' = flag(p)
      BY <1>5, <1>6, <3>1
    <3>4. queue'[slot(p)].key = queue[slot(p)].key
      BY <1>2, <1>3, <3>1
    <3>5. key_enqueue(p)' = key_enqueue(p)
      BY <2>2 DEF key_enqueue
    <3> QED
      BY <3>2, <3>3, <3>4, <3>5
  <2>5. /\ \A p \in Producer : Putting(p)' =>
              seq'[p] < rear' /\ enqueued'[seq'[p] + 1] = key_enqueue(p)'
        /\ \A p, q \in Producer : Putting(p)' /\ Putting(q)' /\ seq'[p] = seq'[q] => p = q
    BY <1>1, <1>3, <2>3 DEF PutOK
  <2> QED
    BY <2>4, <2>5 DEF PutOK
<1>8. GetOK'
  <2>1. \A d \in Consumer : /\ Getting(d)' => d # c /\ Getting(d)
                            /\ pc'[d] = "release" => d # c /\ pc[d] = "release"
    BY <1>0, <1>3 DEF Getting
  <2>2. \A d \in Consumer : pc'[d] = "release" => flag(d)' = 2 * round(d)' + 1
    <3> SUFFICES ASSUME NEW d \in Consumer, pc'[d] = "release"
                 PROVE  flag(d)' = 2 * round(d)' + 1
      OBVIOUS
    <3>1. d # c /\ pc[d] = "release" /\ d \in Thread
      BY <1>0, <2>1
    <3>2. flag(d) = 2 * round(d) + 1 /\ Getting(d) /\ Getting(c)
      BY <1>1, <1>3, <3>1 DEF GetOK, Getting
    <3>3. slot(d) # slot(c)
      <4>1. ASSUME slot(d) = slot(c) PROVE FALSE
        <5>1. flag(d) = flag(c) /\ round(d) \in Nat /\ round(c) \in Nat
          BY <1>0, <1>2, <3>1, <4>1 DEF flag
        <5>2. round(d) = round(c)
          BY <1>4, <3>2, <5>1
        <5>3. seq[d] = seq[c]
          BY <1>0, <1>2, <3>1, <4>1, <5>2
        <5> QED
          BY <1>1, <3>1, <3>2, <5>3 DEF GetOK
      <4> QED
        BY <4>1
    <3>4. round(d)' = round(d) /\ flag(d)' = flag(d)
      BY <1>5, <1>6, <3>1, <3>3
    <3> QED
      BY <3>2, <3>4
  <2> QED
    BY <1>1, <1>3, <2>1, <2>2 DEF GetOK
<1>9. SlotsOK'
  <2> SUFFICES ASSUME NEW s \in Slot, NEW r \in Nat, queue'[s].flag = 2 * r + 1
               PROVE  QueueSize * r + s < rear' /\ queue'[s].key = enqueued'[QueueSize * r + s + 1]
    BY DEF SlotsOK
  <2>0. round(c) \in Nat
    BY <1>0, <1>2
  <2>1. s # slot(c)
    BY <1>3, <1>4, <2>0
  <2> QED
    BY <1>1, <1>3, <2>1 DEF SlotsOK
<1>10. GotOK'
  BY <1>1, <1>3 DEF GotOK
<1> QED
  BY <1>1, <1>3, <1>7, <1>8, <1>9, <1>10 DEF TicketOK

-----------------------------------------------------------------------------
(* The linked queue                                                        *)

\* A step that leaves the list alone, and the tail or moves it to the end:
\* what the other threads have copied is in its place; it is enough to look at
\* the thread whose step it is.
LEMMA CopiesKept ==
    ASSUME QueueTypeOK, CopiesOK, NEW t \in Thread,
           UNCHANGED <<enqueued, next>>, tail' = tail \/ tail' = at(Len(enqueued)),
           \A u \in Thread : u # t => pc'[u] = pc[u] /\ i'[u] = i[u] /\ copied'[u] = copied[u],
           \A p \in Producer : p # t => retNode'[p] = retNode[p],
           NEW k \in 0..Len(enqueued),
           pc'[t] # "idle" => copied'[t] = at(k),
           pc'[t] = "append" /\ tail' # at(Len(enqueued)) => k < Len(enqueued),
           pc'[t] \in {"help", "swing", "take"} => k < Len(enqueued),
           pc'[t] = "help" => retNode'[t] = next'[copied'[t]],
           pc'[t] = "swing" => key_enqueue(t)' = next'[copied'[t]]
    PROVE  CopiesOK'
<1>1. \A u \in Thread : u # t =>
        /\ \A b \in BOOLEAN : CopiedAt(u, b) =>
             \E j \in 0..Len(enqueued) : copied'[u] = at(j) /\ (b => j < Len(enqueued))
        /\ key_enqueue(u)' = key_enqueue(u)
  BY DEF CopiedAt, key_enqueue
<1>2. \A j : at(j)' = at(j)
  BY DEF at
<1>3. \A p \in Producer : pc'[p] = "append" =>
         \E j \in 0..Len(enqueued) :
            copied'[p] = at(j) /\ (tail' # at(Len(enqueued)) => j < Len(enqueued))
  <2> SUFFICES ASSUME NEW p \in Producer, pc'[p] = "append"
               PROVE  \E j \in 0..Len(enqueued) :
                         copied'[p] = at(j) /\ (tail' # at(Len(enqueued)) => j < Len(enqueued))
    OBVIOUS
  <2>1. CASE p = t
    BY <2>1
  <2>2. CASE p # t
    <3>1. pc[p] = "append" /\ CopiedAt(p, tail # at(Len(enqueued)))
      BY <2>2, QueueFacts DEF CopiesOK
    <3>2. \E j \in 0..Len(enqueued) :
             copied'[p] = at(j) /\ (tail # at(Len(enqueued)) => j < Len(enqueued))
      BY <1>1, <2>2, <3>1, QueueFacts
    <3> QED
      BY <3>2
  <2> QED
    BY <2>1, <2>2
<1>4. \A u \in Thread : (u \in Producer /\ pc'[u] \in {"help", "swing"}) \/ (u \in Consumer /\ pc'[u] = "take") =>
         \E j \in 0..Len(enqueued) : copied'[u] = at(j) /\ j < Len(enqueued)
  <2> SUFFICES ASSUME NEW u \in Thread, u # t,
                      \/ u \in Producer /\ pc[u] \in {"help", "swing"}
                      \/ u \in Consumer /\ pc[u] = "take"
               PROVE  \E j \in 0..Len(enqueued) : copied'[u] = at(j) /\ j < Len(enqueued)
    OBVIOUS
  <2>1. CopiedAt(u, TRUE)
    BY DEF CopiesOK
  <2> QED
    BY <1>1, <2>1
<1>5. \A c \in Consumer : pc'[c] = "next" => \E j \in 0..Len(enqueued) : copied'[c] = at(j)
  <2> SUFFICES ASSUME NEW c \in Consumer, c # t, pc[c] = "next"
               PROVE  \E j \in 0..Len(enqueued) : copied'[c] = at(j)
    BY QueueFacts
  <2>1. CopiedAt(c, FALSE)
    BY DEF CopiesOK
  <2> QED
    BY <1>1, <2>1, QueueFacts
<1>6. \A p \in Producer : /\ pc'[p] = "help" => retNode'[p] = next'[copied'[p]]
                          /\ pc'[p] = "swing" => key_enqueue(p)' = next'[copied'[p]]
  <2> SUFFICES ASSUME NEW p \in Producer
               PROVE  /\ pc'[p] = "help" => retNode'[p] = next'[copied'[p]]
                      /\ pc'[p] = "swing" => key_enqueue(p)' = next'[copied'[p]]
    OBVIOUS
  <2>1. CASE p = t
    BY <2>1 DEF key_enqueue
  <2>2. CASE p # t
    BY <1>1, <2>2, QueueFacts, ZenonT(30) DEF CopiesOK
  <2> QED
    BY <2>1, <2>2
<1>7. \A u \in Thread :
        /\ (\E j \in 0..Len(enqueued) : copied'[u] = at(j) /\ j < Len(enqueued)) => CopiedAt(u, TRUE)'
        /\ (\E j \in 0..Len(enqueued) : copied'[u] = at(j)) => CopiedAt(u, FALSE)'
        /\ (\E j \in 0..Len(enqueued) :
               copied'[u] = at(j) /\ (tail' # at(Len(enqueued)) => j < Len(enqueued)))
             => CopiedAt(u, tail # at(Len(enqueued)))'
  BY <1>2 DEF CopiedAt, at
<1> QED
  BY <1>3, <1>4, <1>5, <1>6, <1>7, QueueFacts DEF CopiesOK

\* What was true of the nodes still is when they and their pointers are as
\* they were.
LEMMA ListKept ==
    ASSUME UNCHANGED <<enqueued, next>>
    PROVE  /\ ListOK => ListOK'
           /\ UNCHANGED <<head, dequeued>> /\ HeadOK => HeadOK'
           /\ \A k : at(k)' = at(k)
<1>1. \A k : at(k)' = at(k)
  BY DEF at
<1>2. ListOK => ListOK'
  BY DEF ListOK, at
<1>3. UNCHANGED <<head, dequeued>> /\ HeadOK => HeadOK'
  BY DEF HeadOK, at
<1> QED
  BY <1>1, <1>2, <1>3

\* A read of the queue, or a failed compare-and-swap of a next pointer.
LEMMA ReadStep ==
    ASSUME QueueTypeOK, PcOK, LinkedOK, program = "linked", NEW t \in Thread,
           \/ t \in Producer /\ (readTail(t) \/ (append(t) /\ next[copied[t]] # null))
           \/ t \in Consumer /\ (readHead(t) \/ readNext(t))
    PROVE  LinkedOK'
<1>0. /\ KeysOK /\ ListOK /\ HeadOK /\ TailOK /\ CopiesOK
      /\ pc \in [Thread -> {"idle", "put", "publish", "get", "release",
                            "append", "help", "swing", "next", "take"}]
      /\ copied \in [Thread -> Node]
      /\ retNode \in [Producer -> Node \cup {null}]
      /\ Len(enqueued) \in Nat /\ Len(dequeued) \in Nat
  BY ListNodes DEF LinkedOK, PcOK, QueueTypeOK
<1>1. UNCHANGED <<program, head, tail, next, i, enqueued, dequeued>>
  BY DEF readTail, append, readHead, readNext, linked, bounded, history
<1>2. /\ \A u \in Thread : u # t => pc'[u] = pc[u] /\ i'[u] = i[u] /\ copied'[u] = copied[u]
      /\ \A p \in Producer : p # t => retNode'[p] = retNode[p]
  <2>1. /\ \E l : pc' = [pc EXCEPT ![t] = l]
        /\ copied' = copied \/ \E n : copied' = [copied EXCEPT ![t] = n]
        /\ retNode' = retNode \/ \E n : retNode' = [retNode EXCEPT ![t] = n]
    BY DEF readTail, append, readHead, readNext, goto, locals
  <2> QED
    BY <1>0, <1>1, <2>1
<1>3. pc[t] # "swing" /\ pc'[t] # "swing"
  BY <1>0 DEF readTail, append, readHead, readNext, call, goto
<1>4. \A p \in Producer : /\ pc'[p] = "swing" <=> pc[p] = "swing"
                          /\ pc[p] = "swing" => copied'[p] = copied[p] /\ p # t
                          /\ key_enqueue(p)' = key_enqueue(p)
  BY <1>1, <1>2, <1>3, QueueFacts DEF key_enqueue
<1>5. KeysOK'
  <2>1. KeysOK /\ enqueued' = enqueued /\ i' = i
    BY <1>0, <1>1
  <2>2. \A p \in Producer : pc'[p] = "swing" <=> pc[p] = "swing"
    BY <1>4
  <2> QED
    BY <2>1, <2>2 DEF KeysOK
<1>6. ListOK' /\ HeadOK'
  BY <1>0, <1>1, ListKept
<1>7. TailOK'
  <2>1. CASE tail = at(Len(enqueued))
    BY <1>1, <2>1 DEF TailOK, at
  <2>2. CASE tail # at(Len(enqueued))
    <3>1. /\ Len(enqueued) > 0 /\ tail = at(Len(enqueued) - 1)
          /\ \E p \in Producer : /\ pc[p] = "swing" /\ copied[p] = tail
                                 /\ key_enqueue(p) = at(Len(enqueued))
      BY <1>0, <2>2 DEF TailOK
    <3>2. \E p \in Producer : /\ pc'[p] = "swing" /\ copied'[p] = tail
                              /\ key_enqueue(p)' = at(Len(enqueued))
      BY <1>4, <3>1
    <3> QED
      BY <1>1, <3>1, <3>2 DEF TailOK, at
  <2> QED
    BY <2>1, <2>2
<1>8. CopiesOK'
  <2>1. CASE t \in Producer /\ readTail(t)
    <3>1. copied'[t] = tail /\ pc'[t] = "append"
      BY <1>0, <2>1 DEF readTail, goto
    <3>2. PICK k \in 0..Len(enqueued) : tail = at(k) /\ (tail # at(Len(enqueued)) => k < Len(enqueued))
      BY <1>0 DEF TailOK
    <3> QED
      BY <1>0, <1>1, <1>2, <3>1, <3>2, CopiesKept
  <2>2. CASE t \in Producer /\ append(t) /\ next[copied[t]] # null
    <3>1. /\ pc[t] = "append" /\ pc'[t] = "help" /\ copied' = copied
          /\ retNode'[t] = next[copied[t]]
      BY <1>0, <2>2 DEF append, goto
    <3>2. PICK k \in 0..Len(enqueued) : copied[t] = at(k)
      BY <1>0, <2>2, <3>1 DEF CopiesOK, CopiedAt
    <3>3. k < Len(enqueued)
      BY <1>0, <2>2, <3>2 DEF ListOK
    <3> QED
      BY <1>0, <1>1, <1>2, <3>1, <3>2, <3>3, CopiesKept
  <2>3. CASE t \in Consumer /\ readHead(t)
    <3>1. copied'[t] = head /\ pc'[t] = "next"
      BY <1>0, <2>3 DEF readHead, goto
    <3>2. PICK k \in 0..Len(enqueued) : head = at(k)
      BY <1>0 DEF HeadOK
    <3> QED
      BY <1>0, <1>1, <1>2, <3>1, <3>2, CopiesKept
  <2>4. CASE t \in Consumer /\ readNext(t)
    <3>1. /\ pc[t] = "next" /\ copied' = copied
          /\ pc'[t] = IF next[copied[t]] = null THEN "idle" ELSE "take"
      BY <1>0, <2>4 DEF readNext, goto, locals
    <3>2. PICK k \in 0..Len(enqueued) : copied[t] = at(k)
      BY <1>0, <2>4, <3>1 DEF CopiesOK, CopiedAt
    <3>3. pc'[t] = "take" => k < Len(enqueued)
      BY <1>0, <3>1, <3>2 DEF ListOK
    <3> QED
      BY <1>0, <1>1, <1>2, <3>1, <3>2, <3>3, CopiesKept
  <2> QED
    BY <2>1, <2>2, <2>3, <2>4
<1> QED
  BY <1>5, <1>6, <1>7, <1>8 DEF LinkedOK

\* A compare-and-swap that moves the tail: it was at the node before the last.
LEMMA TailStep ==
    ASSUME QueueTypeOK, PcOK, LinkedOK, program = "linked", NEW t \in Producer,
           help(t) \/ swing(t)
    PROVE  LinkedOK'
<1>0. /\ KeysOK /\ ListOK /\ HeadOK /\ TailOK /\ CopiesOK
      /\ pc \in [Thread -> {"idle", "put", "publish", "get", "release",
                            "append", "help", "swing", "next", "take"}]
      /\ i \in [Thread -> 0..NumKey] /\ t \in Thread /\ Producer \subseteq Thread
      /\ Len(enqueued) \in Nat /\ Len(dequeued) \in Nat
  BY ListNodes, QueueFacts DEF LinkedOK, PcOK, QueueTypeOK
<1>1. /\ UNCHANGED <<program, head, next, copied, retNode, enqueued, dequeued>>
      /\ pc'[t] = "idle"
      /\ \A u \in Thread : u # t => pc'[u] = pc[u] /\ i'[u] = i[u]
      /\ i'[t] = IF pc[t] = "swing" THEN i[t] + 1 ELSE i[t]
  BY <1>0 DEF help, swing, return, goto, bounded, locals, history
<1>2. CopiedAt(t, TRUE) /\ tail' = IF tail = copied[t] THEN next[copied[t]] ELSE tail
  BY <1>0 DEF CopiesOK, help, swing, swapTail
<1>3. PICK k \in 0..Len(enqueued) : copied[t] = at(k) /\ k < Len(enqueued)
  BY <1>2 DEF CopiedAt
<1>4. next[copied[t]] = at(k + 1)
  BY <1>0, <1>3 DEF ListOK
<1>5. tail = copied[t] => k + 1 = Len(enqueued)
  <2> SUFFICES ASSUME tail = at(k) PROVE k + 1 = Len(enqueued)
    BY <1>3
  <2>1. tail # at(Len(enqueued))
    BY <1>0, <1>3 DEF ListOK
  <2>2. Len(enqueued) > 0 /\ at(k) = at(Len(enqueued) - 1)
    BY <1>0, <2>1 DEF TailOK
  <2>3. Len(enqueued) - 1 \in 0..Len(enqueued)
    BY <1>0, <2>2
  <2>4. k = Len(enqueued) - 1
    BY <1>0, <2>2, <2>3 DEF ListOK
  <2> QED
    BY <1>0, <2>4
<1>6. tail' = tail \/ tail' = at(Len(enqueued))
  BY <1>2, <1>4, <1>5
<1>7. KeysOK'
  <2> SUFFICES ASSUME NEW p \in Producer, NEW n \in 1..Len(enqueued), NEW j \in 0..NumKey - 1,
                      enqueued[n] = NumKey * p + j
               PROVE  j < i'[p] \/ (j = i'[p] /\ pc'[p] = "swing")
    BY <1>1 DEF KeysOK
  <2>1. j < i[p] \/ (j = i[p] /\ pc[p] = "swing")
    BY <1>0 DEF KeysOK
  <2>2. i[p] \in Nat /\ j \in Nat
    BY <1>0, Positive
  <2> QED
    BY <1>0, <1>1, <2>1, <2>2
<1>8. ListOK' /\ HeadOK'
  BY <1>0, <1>1, ListKept
<1>9. TailOK'
  <2>1. CASE tail' = at(Len(enqueued))
    BY <1>1, <2>1 DEF TailOK, at
  <2>2. CASE tail' # at(Len(enqueued))
    <3>1. tail' = tail /\ tail # copied[t]
      BY <1>2, <1>4, <1>5, <2>2
    <3>2. /\ Len(enqueued) > 0 /\ tail = at(Len(enqueued) - 1)
          /\ \E p \in Producer : /\ pc[p] = "swing" /\ copied[p] = tail
                                 /\ key_enqueue(p) = at(Len(enqueued))
      BY <1>0, <2>2, <3>1 DEF TailOK
    <3>3. \E p \in Producer : /\ pc'[p] = "swing" /\ copied'[p] = tail
                              /\ key_enqueue(p)' = at(Len(enqueued))
      BY <1>0, <1>1, <3>1, <3>2 DEF key_enqueue
    <3> QED
      BY <1>1, <3>1, <3>2, <3>3 DEF TailOK, at
  <2> QED
    BY <2>1, <2>2
<1>10. CopiesOK'
  BY <1>0, <1>1, <1>3, <1>6, CopiesKept
<1> QED
  BY <1>7, <1>8, <1>9, <1>10 DEF LinkedOK

\* A consumer makes the next node the sentinel, unless the head has moved.
LEMMA TakeStep ==
    ASSUME QueueTypeOK, PcOK, LinkedOK, program = "linked", NEW c \in Consumer, take(c)
    PROVE  LinkedOK'
<1>0. /\ KeysOK /\ ListOK /\ HeadOK /\ TailOK /\ CopiesOK
      /\ pc \in [Thread -> {"idle", "put", "publish", "get", "release",
                            "append", "help", "swing", "next", "take"}]
      /\ i \in [Thread -> 0..NumKey] /\ c \in Thread /\ Producer \subseteq Thread
      /\ c \notin Producer
      /\ dequeued \in Seq([consumer : Consumer, key : Nat])
      /\ Len(enqueued) \in Nat /\ Len(dequeued) \in Nat
  BY ListNodes, QueueFacts DEF LinkedOK, PcOK, QueueTypeOK
<1>1. /\ UNCHANGED <<program, tail, next, copied, retNode, enqueued>>
      /\ pc[c] = "take" /\ pc'[c] = "idle"
      /\ \A u \in Thread : u # c => pc'[u] = pc[u] /\ i'[u] = i[u]
  BY <1>0 DEF take, return, goto, bounded, locals
<1>2. PICK k \in 0..Len(enqueued) : copied[c] = at(k) /\ k < Len(enqueued)
  BY <1>0, <1>1 DEF CopiesOK, CopiedAt
<1>3. next[copied[c]] = at(k + 1) /\ at(k + 1) = enqueued[k + 1] /\ at(k + 1) \in Nat
  <2>1. k \in 0..Len(enqueued) - 1 /\ k + 1 \in 1..Len(enqueued)
    BY <1>0, <1>2
  <2>2. next[at(k)] = at(k + 1)
    BY <1>0, <2>1 DEF ListOK
  <2> QED
    BY <1>2, <2>1, <2>2, ListNodes, QueueFacts
<1>4. \A p \in Producer : pc'[p] = pc[p] /\ i'[p] = i[p] /\ key_enqueue(p)' = key_enqueue(p)
  BY <1>0, <1>1 DEF key_enqueue
<1>5. KeysOK'
  BY <1>0, <1>1, <1>4 DEF KeysOK
<1>6. ListOK'
  BY <1>0, <1>1, ListKept
<1>7. HeadOK'
  <2>1. CASE head = copied[c]
    <3>1. /\ head' = next[copied[c]]
          /\ dequeued' = Append(dequeued, [consumer |-> c, key |-> next[copied[c]]])
      BY <2>1 DEF take
    <3>2. Len(dequeued) = k
      <4>1. at(Len(dequeued)) = at(k) /\ Len(dequeued) \in 0..Len(enqueued)
        BY <1>0, <1>2, <2>1 DEF HeadOK
      <4> QED
        BY <1>0, <4>1 DEF ListOK
    <3>3. [consumer |-> c, key |-> next[copied[c]]] \in [consumer : Consumer, key : Nat]
      BY <1>3
    <3>4. /\ Len(dequeued') = k + 1
          /\ \A n \in 1..k : dequeued'[n] = dequeued[n]
          /\ dequeued'[k + 1] = [consumer |-> c, key |-> next[copied[c]]]
      BY <1>0, <3>1, <3>2, <3>3, AppendProperties
    <3>5. \A n \in 1..k + 1 : dequeued'[n].key = enqueued[n]
      BY <1>0, <1>2, <1>3, <3>2, <3>4 DEF HeadOK
    <3>6. head' = at(k + 1) /\ k + 1 <= Len(enqueued)
      BY <1>2, <1>3, <3>1
    <3> QED
      BY <1>1, <3>4, <3>5, <3>6 DEF HeadOK, at
  <2>2. CASE head # copied[c]
    <3>1. UNCHANGED <<head, dequeued>>
      BY <2>2 DEF take
    <3> QED
      BY <1>0, <1>1, <3>1, ListKept
  <2> QED
    BY <2>1, <2>2
<1>8. TailOK'
  BY <1>0, <1>1, <1>4 DEF TailOK, at
<1>9. CopiesOK'
  BY <1>0, <1>1, <1>2, CopiesKept
<1> QED
  BY <1>5, <1>6, <1>7, <1>8, <1>9 DEF LinkedOK

\* A producer appends its node to the last one.
LEMMA AppendStep ==
    ASSUME QueueTypeOK, PcOK, LinkedOK, program = "linked", NEW t \in Producer,
           append(t), next[copied[t]] = null
    PROVE  LinkedOK'
<1> DEFINE L == Len(enqueued)  key == key_enqueue(t)
<1>0. /\ KeysOK /\ ListOK /\ HeadOK /\ TailOK /\ CopiesOK
      /\ pc \in [Thread -> {"idle", "put", "publish", "get", "release",
                            "append", "help", "swing", "next", "take"}]
      /\ i \in [Thread -> 0..NumKey] /\ t \in Thread /\ Producer \subseteq Thread
      /\ next \in [Node -> Node \cup {null}] /\ copied \in [Thread -> Node]
      /\ enqueued \in Seq(Key) /\ L \in Nat /\ Len(dequeued) \in Nat
      /\ \A k \in 0..L : at(k) \in Node
  BY ListNodes, QueueFacts DEF LinkedOK, PcOK, QueueTypeOK
<1>1. /\ UNCHANGED <<program, head, tail, i, copied, retNode, dequeued>>
      /\ pc[t] = "append" /\ pc'[t] = "swing"
      /\ \A u \in Thread : u # t => pc'[u] = pc[u]
      /\ next' = [next EXCEPT ![copied[t]] = key]
      /\ enqueued' = Append(enqueued, key)
  BY <1>0 DEF append, goto
<1>2. i[t] < NumKey
  BY <1>0, <1>1 DEF PcOK
<1>3. key \in Key /\ key \in Node /\ key # sentinel /\ i[t] \in 0..NumKey - 1
  BY <1>2, KeyOfCall, QueueFacts
<1>4. \A n \in 1..L : enqueued[n] # key
  <2> SUFFICES ASSUME NEW n \in 1..L, enqueued[n] = NumKey * t + i[t] PROVE FALSE
    BY DEF key_enqueue
  <2>1. i[t] < i[t]
    BY <1>0, <1>1, <1>3 DEF KeysOK
  <2> QED
    BY <1>3, <2>1
<1>5. \A k \in 0..L : at(k) # key
  BY <1>0, <1>3, <1>4 DEF at
<1>6. copied[t] = at(L) /\ tail = at(L)
  <2>1. PICK k \in 0..L : copied[t] = at(k) /\ (tail # at(L) => k < L)
    BY <1>0, <1>1 DEF CopiesOK, CopiedAt
  <2>2. ~(k < L)
    <3> SUFFICES ASSUME k < L PROVE FALSE
      OBVIOUS
    <3>1. k \in 0..L - 1 /\ k + 1 \in 0..L
      BY <1>0, <2>1
    <3>2. next[at(k)] = at(k + 1) /\ at(k + 1) \in Node
      BY <1>0, <3>1 DEF ListOK
    <3> QED
      BY <2>1, <3>2, QueueFacts
  <2> QED
    BY <1>0, <2>1, <2>2
<1>7. next[key] = null
  BY <1>0, <1>3, <1>5 DEF ListOK
<1> HIDE DEF key
<1>8. /\ Len(enqueued') = L + 1
      /\ \A n \in 1..L : enqueued'[n] = enqueued[n]
      /\ enqueued'[L + 1] = key
  BY <1>0, <1>1, <1>3, AppendProperties
<1>9. /\ \A k \in 0..L : k = 0 \/ k \in 1..L
      /\ L + 1 # 0
  BY <1>0
<1>10. \A n \in Node : next'[n] = IF n = at(L) THEN key ELSE next[n]
  BY <1>0, <1>1, <1>6
<1>11. \A k \in 0..L + 1 : k \in 0..L \/ k = L + 1
  BY <1>0
<1>12. \A u \in Producer : key_enqueue(u)' = key_enqueue(u)
  BY <1>1 DEF key_enqueue
<1> DEFINE atn(k) == IF k = 0 THEN sentinel ELSE enqueued'[k]
<1>13. /\ \A k \in 0..L : atn(k) = at(k)
       /\ atn(L + 1) = key
  BY <1>8, <1>9 DEF at
<1> HIDE DEF atn
<1>14. ListOK'
  <2>1. \A k, l \in 0..L + 1 : atn(k) = atn(l) => k = l
    BY <1>0, <1>5, <1>11, <1>13 DEF ListOK
  <2>2. next'[atn(L + 1)] = null
    BY <1>0, <1>3, <1>5, <1>7, <1>10, <1>13
  <2>3. \A k \in 0..L : next'[atn(k)] = atn(k + 1)
    <3> SUFFICES ASSUME NEW k \in 0..L PROVE next'[atn(k)] = atn(k + 1)
      OBVIOUS
    <3>1. atn(k) = at(k) /\ at(k) \in Node
      BY <1>0, <1>13
    <3>2. CASE k = L
      BY <1>10, <1>13, <3>1, <3>2
    <3>3. CASE k # L
      <4>1. k \in 0..L - 1 /\ k + 1 \in 0..L /\ L \in 0..L
        BY <1>0, <3>3
      <4>2. at(k) # at(L)
        BY <1>0, <3>3, <4>1 DEF ListOK
      <4>3. next[at(k)] = at(k + 1)
        BY <1>0, <4>1 DEF ListOK
      <4> QED
        BY <1>10, <1>13, <3>1, <4>1, <4>2, <4>3
    <3> QED
      BY <3>2, <3>3
  <2>4. \A n \in Node : (\A k \in 0..L + 1 : n # atn(k)) => next'[n] = null
    <3> SUFFICES ASSUME NEW n \in Node, \A k \in 0..L + 1 : n # atn(k)
                 PROVE  next'[n] = null
      OBVIOUS
    <3>1. \A k \in 0..L : n # at(k)
      <4>1. \A k \in 0..L : k \in 0..L + 1
        BY <1>0
      <4> QED
        BY <1>13, <4>1
    <3>2. n # at(L)
      BY <1>0, <3>1
    <3> QED
      BY <1>0, <1>10, <3>1, <3>2 DEF ListOK
  <2>5. L + 1 - 1 = L
    BY <1>0
  <2> QED
    BY <1>8, <2>1, <2>2, <2>3, <2>4, <2>5 DEF ListOK, at, atn
<1>15. KeysOK'
  <2> SUFFICES ASSUME NEW p \in Producer, NEW n \in 1..L + 1, NEW j \in 0..NumKey - 1,
                      enqueued'[n] = NumKey * p + j
               PROVE  j < i[p] \/ (j = i[p] /\ pc'[p] = "swing")
    BY <1>1, <1>8 DEF KeysOK
  <2>1. CASE n = L + 1
    <3>1. NumKey * t + i[t] = NumKey * p + j
      BY <1>8, <2>1 DEF key, key_enqueue
    <3>2. t = p /\ i[t] = j
      BY <1>3, <3>1, KeyCode
    <3> QED
      BY <1>1, <3>2
  <2>2. CASE n # L + 1
    <3>1. n \in 1..L
      BY <1>0, <2>2
    <3>2. j < i[p] \/ (j = i[p] /\ pc[p] = "swing")
      BY <1>0, <1>8, <3>1 DEF KeysOK
    <3>3. pc[p] = "swing" => pc'[p] = "swing"
      BY <1>0, <1>1
    <3> QED
      BY <3>2, <3>3
  <2> QED
    BY <2>1, <2>2
<1>16. HeadOK'
  <2>1. /\ Len(dequeued) <= L /\ head = at(Len(dequeued))
        /\ \A n \in 1..Len(dequeued) : dequeued[n].key = enqueued[n]
    BY <1>0 DEF HeadOK
  <2>2. /\ Len(dequeued) <= L + 1 /\ Len(dequeued) \in 0..L
        /\ \A n \in 1..Len(dequeued) : n \in 1..L
    BY <1>0, <2>1
  <2>3. head = atn(Len(dequeued))
    BY <1>13, <2>1, <2>2
  <2>4. \A n \in 1..Len(dequeued) : dequeued[n].key = enqueued'[n]
    BY <1>8, <2>1, <2>2
  <2> QED
    BY <1>1, <1>8, <2>2, <2>3, <2>4 DEF HeadOK, at, atn
<1>17. TailOK'
  <2>1. tail' = atn(L) /\ L + 1 > 0 /\ L + 1 - 1 = L
    BY <1>0, <1>1, <1>6, <1>13
  <2>2. pc'[t] = "swing" /\ copied'[t] = tail' /\ key_enqueue(t)' = atn(L + 1)
    BY <1>1, <1>6, <1>12, <1>13 DEF key
  <2>3. \E p \in Producer : pc'[p] = "swing" /\ copied'[p] = tail' /\ key_enqueue(p)' = atn(L + 1)
    BY <2>2 DEF key_enqueue
  <2> QED
    BY <1>8, <2>1, <2>3 DEF TailOK, at, atn
<1>18. CopiesOK'
  <2>1. \A u \in Thread, k \in 0..L : copied[u] = at(k) /\ k < L =>
           next'[copied[u]] = next[copied[u]]
    <3> SUFFICES ASSUME NEW u \in Thread, NEW k \in 0..L, copied[u] = at(k), k < L
                 PROVE  next'[copied[u]] = next[copied[u]]
      OBVIOUS
    <3>1. at(k) # at(L) /\ at(k) \in Node
      BY <1>0 DEF ListOK
    <3> QED
      BY <1>10, <3>1
  <2>2. \A u \in Thread : (\E k \in 0..L : copied[u] = at(k)) =>
            /\ CopiedAt(u, TRUE)' /\ CopiedAt(u, FALSE)'
            /\ CopiedAt(u, tail # at(Len(enqueued)))'
    <3> SUFFICES ASSUME NEW u \in Thread, NEW k \in 0..L, copied[u] = at(k)
                 PROVE  /\ CopiedAt(u, TRUE)' /\ CopiedAt(u, FALSE)'
                        /\ CopiedAt(u, tail # at(Len(enqueued)))'
      OBVIOUS
    <3>1. k \in 0..L + 1 /\ k < L + 1
      BY <1>0
    <3>2. copied'[u] = atn(k)
      BY <1>1, <1>13
    <3> QED
      BY <1>8, <3>1, <3>2 DEF CopiedAt, at, atn
  <2>3. \A p \in Producer :
          /\ pc[p] \in {"append", "help", "swing"} => \E k \in 0..L : copied[p] = at(k)
          /\ pc[p] \in {"help", "swing"} => next'[copied[p]] = next[copied[p]]
    BY <1>0, <2>1 DEF CopiesOK, CopiedAt
  <2>4. \A p \in Producer :
          /\ pc'[p] \in {"append", "help", "swing"} => \E k \in 0..L : copied[p] = at(k)
          /\ pc'[p] = "help" => retNode'[p] = next'[copied'[p]]
          /\ pc'[p] = "swing" => key_enqueue(p)' = next'[copied'[p]]
    <3> SUFFICES ASSUME NEW p \in Producer
                 PROVE  /\ pc'[p] \in {"append", "help", "swing"} => \E k \in 0..L : copied[p] = at(k)
                        /\ pc'[p] = "help" => retNode'[p] = next'[copied'[p]]
                        /\ pc'[p] = "swing" => key_enqueue(p)' = next'[copied'[p]]
      OBVIOUS
    <3>1. CASE p = t
      <4>1. next'[copied'[t]] = key /\ key_enqueue(t)' = key /\ L \in 0..L
        BY <1>0, <1>1, <1>12 DEF key
      <4>2. key_enqueue(p)' = key
        BY <3>1, <4>1 DEF key_enqueue
      <4> QED
        BY <1>1, <1>6, <3>1, <4>1, <4>2
    <3>2. CASE p # t
      BY <1>0, <1>1, <1>12, <2>3, <3>2, ZenonT(30) DEF CopiesOK
    <3> QED
      BY <3>1, <3>2
  <2>5. \A c \in Consumer : /\ c \in Thread /\ pc'[c] = pc[c]
                            /\ pc[c] \in {"next", "take"} => \E k \in 0..L : copied[c] = at(k)
    BY <1>0, <1>1, QueueFacts DEF CopiesOK, CopiedAt
  <2> QED
    BY <1>0, <2>2, <2>4, <2>5 DEF CopiesOK
<1> QED
  BY <1>14, <1>15, <1>16, <1>17, <1>18 DEF LinkedOK

-----------------------------------------------------------------------------
(* The queues: every step                                                  *)

\* The invariant holds when main starts its threads, or a program that is not
\* a queue starts.
LEMMA QueueInvFresh ==
    ASSUME Fresh PROVE QueueInv
<1>0. /\ front = 0 /\ rear = 0 /\ queue = [s \in Slot |-> [key |-> 0, flag |-> 0]]
      /\ head = sentinel /\ tail = sentinel /\ next = [n \in Node |-> null]
      /\ pc = [t \in Thread |-> "idle"] /\ i = [t \in Thread |-> 0]
      /\ seq = [t \in Thread |-> 0] /\ copied = [t \in Thread |-> sentinel]
      /\ retNode = [t \in Producer |-> null] /\ retKey = [t \in Consumer |-> null]
      /\ enqueued = <<>> /\ dequeued = <<>>
  BY DEF Fresh
<1>1. \A t \in Thread : pc[t] = "idle" /\ i[t] = 0
  BY <1>0
<1>2. Len(enqueued) = 0 /\ Len(dequeued) = 0
  BY <1>0
<1>3. QueueTypeOK
  <2>1. 0 \in 0..NumKey /\ 0 \in Nat
    BY Positive
  <2>2. <<>> \in Seq(Key) /\ <<>> \in Seq([consumer : Consumer, key : Nat])
    OBVIOUS
  <2> QED
    BY <1>0, <2>1, <2>2, QueueFacts DEF QueueTypeOK
<1>4. PcOK
  BY <1>0, <1>1, QueueFacts DEF PcOK
<1>5. GiantOK
  BY <1>0, <1>2, Positive DEF GiantOK
<1>6. TicketOK
  <2>1. \A s \in Slot : queue[s].flag = 0
    BY <1>0
  <2>2. \A r \in Nat : 0 # 2 * r + 1
    OBVIOUS
  <2>3. SlotsOK
    BY <2>1, <2>2 DEF SlotsOK
  <2>4. PutOK /\ GetOK
    BY <1>1, QueueFacts DEF PutOK, GetOK, Putting, Getting
  <2>5. GotOK
    BY <1>0 DEF GotOK
  <2> QED
    BY <1>0, <1>2, <2>3, <2>4, <2>5 DEF TicketOK
<1>7. LinkedOK
  <2>1. at(0) = sentinel /\ \A k \in 0..0 : k = 0
    BY DEF at
  <2>2. KeysOK
    BY <1>2 DEF KeysOK
  <2>3. ListOK
    BY <1>0, <1>2, <2>1, QueueFacts DEF ListOK
  <2>4. HeadOK /\ TailOK
    BY <1>0, <1>2, <2>1 DEF HeadOK, TailOK
  <2>5. CopiesOK
    BY <1>1, QueueFacts DEF CopiesOK
  <2> QED
    BY <2>2, <2>3, <2>4, <2>5 DEF LinkedOK
<1>8. UnusedOK
  BY <1>0 DEF UnusedOK
<1> QED
  BY <1>3, <1>4, <1>5, <1>6, <1>7, <1>8 DEF QueueInv

\* The invariant does not depend on anything but these variables.
LEMMA QueueInvKept ==
    ASSUME QueueInv,
           UNCHANGED <<program, front, rear, queue, head, tail, next, pc, i, seq,
                       copied, retNode, retKey, enqueued, dequeued>>
    PROVE  QueueInv'
<1>1. QueueTypeOK'
  BY DEF QueueInv, QueueTypeOK
<1>2. PcOK'
  BY DEF QueueInv, PcOK
<1>3. GiantOK'
  BY DEF QueueInv, GiantOK
<1>4. TicketOK'
  <2> SUFFICES ASSUME program = "ticket" PROVE TicketOK'
    BY DEF TicketOK
  <2>1. PutOK /\ GetOK /\ SlotsOK /\ GotOK /\ front = Len(dequeued) /\ rear = Len(enqueued)
    BY DEF QueueInv, TicketOK
  <2>2. PutOK'
    BY <2>1, PutKept
  <2>3. GetOK'
    BY <2>1 DEF GetOK, Getting, flag, slot, round
  <2>4. SlotsOK' /\ GotOK'
    BY <2>1 DEF SlotsOK, GotOK
  <2> QED
    BY <2>1, <2>2, <2>3, <2>4 DEF TicketOK
<1>5. LinkedOK'
  <2> SUFFICES ASSUME program = "linked" PROVE LinkedOK'
    BY DEF LinkedOK
  <2>1. KeysOK /\ ListOK /\ HeadOK /\ TailOK /\ CopiesOK
    BY DEF QueueInv, LinkedOK
  <2>2. KeysOK'
    BY <2>1 DEF KeysOK
  <2>3. ListOK' /\ HeadOK'
    BY <2>1, ListKept
  <2>4. TailOK'
    BY <2>1 DEF TailOK, at, key_enqueue
  <2>5. CopiesOK'
    BY <2>1 DEF CopiesOK, CopiedAt, at, key_enqueue
  <2> QED
    BY <2>2, <2>3, <2>4, <2>5 DEF LinkedOK
<1>6. UnusedOK'
  BY DEF QueueInv, UnusedOK
<1> QED
  BY <1>1, <1>2, <1>3, <1>4, <1>5, <1>6 DEF QueueInv

\* Every step of a thread keeps the invariant: a thread takes steps of the
\* program that runs, and what concerns the other programs is left alone.
LEMMA QueueThreadStep ==
    ASSUME QueueInv, NEW t \in Thread,
           \/ t \in Producer /\ enqueue(t)
           \/ t \in Consumer /\ dequeue(t)
    PROVE  QueueInv'
<1>0. QueueTypeOK /\ PcOK /\ GiantOK /\ TicketOK /\ LinkedOK /\ UnusedOK
  BY DEF QueueInv
<1>1. QueueTypeOK' /\ PcOK' /\ program' = program
  BY <1>0, QueueTypeStep, PcStep
<1>2. CASE \/ t \in Producer /\ giantEnqueue(t)
           \/ t \in Consumer /\ giantDequeue(t)
  <2>1. program = "giant" /\ UNCHANGED <<tail, next>>
    BY <1>2 DEF giantEnqueue, giantDequeue, linked
  <2>2. GiantOK'
    BY <1>0, <1>2, <2>1, GiantStep
  <2>3. UnusedOK'
    BY <1>0, <1>1, <2>1 DEF UnusedOK, Program
  <2>4. TicketOK' /\ LinkedOK'
    BY <1>1, <2>1 DEF TicketOK, LinkedOK
  <2> QED
    BY <1>1, <2>2, <2>3, <2>4 DEF QueueInv
<1>3. CASE \/ t \in Producer /\ (drawRear(t) \/ put(t) \/ publish(t))
           \/ t \in Consumer /\ (drawFront(t) \/ get(t) \/ release(t))
  <2>1. UNCHANGED <<tail, next>>
    BY <1>3 DEF drawRear, put, publish, drawFront, get, release, linked
  <2>2. program = "ticket"
    BY <1>0, <1>3 DEF PcOK, drawRear, put, publish, drawFront, get, release
  <2>3. TicketOK'
    BY <1>0, <1>3, <2>2, DrawRearStep, PutStep, DrawFrontStep, GetStep, ReleaseStep
  <2>4. UnusedOK'
    BY <1>0, <1>1, <2>1, <2>2 DEF UnusedOK, Program
  <2>5. GiantOK' /\ LinkedOK'
    BY <1>1, <2>2 DEF GiantOK, LinkedOK
  <2> QED
    BY <1>1, <2>3, <2>4, <2>5 DEF QueueInv
<1>4. CASE \/ t \in Producer /\ (readTail(t) \/ append(t) \/ help(t) \/ swing(t))
           \/ t \in Consumer /\ (readHead(t) \/ readNext(t) \/ take(t))
  <2>1. program = "linked"
    BY <1>0, <1>4 DEF PcOK, readTail, append, help, swing, readHead, readNext, take
  <2>2. LinkedOK'
    <3>1. CASE t \in Producer /\ append(t) /\ next[copied[t]] = null
      BY <1>0, <2>1, <3>1, AppendStep
    <3>2. CASE \/ t \in Producer /\ (readTail(t) \/ (append(t) /\ next[copied[t]] # null))
               \/ t \in Consumer /\ (readHead(t) \/ readNext(t))
      BY <1>0, <2>1, <3>2, ReadStep
    <3>3. CASE t \in Producer /\ (help(t) \/ swing(t))
      BY <1>0, <2>1, <3>3, TailStep
    <3>4. CASE t \in Consumer /\ take(t)
      BY <1>0, <2>1, <3>4, TakeStep
    <3> QED
      BY <1>4, <3>1, <3>2, <3>3, <3>4
  <2>3. GiantOK' /\ TicketOK'
    BY <1>1, <2>1 DEF GiantOK, TicketOK
  <2>4. UnusedOK'
    BY <1>1, <2>1 DEF UnusedOK, Program
  <2> QED
    BY <1>1, <2>2, <2>3, <2>4 DEF QueueInv
<1> QED
  BY <1>2, <1>3, <1>4 DEF enqueue, dequeue

\* Every step of the queues does.
LEMMA QueueInvStep ==
    ASSUME QueueInv, [Next]_vars
    PROVE  QueueInv'
<1>1. CASE UNCHANGED vars
  BY <1>1, QueueInvKept DEF vars, bounded, linked, locals, history
<1>2. CASE Joined
  BY <1>2, QueueInvKept DEF Joined, vars, bounded, linked, locals, history
<1>3. CASE \E p \in Producer : enqueue(p)
  BY <1>3, QueueThreadStep, QueueFacts
<1>4. CASE \E c \in Consumer : dequeue(c)
  BY <1>4, QueueThreadStep, QueueFacts
<1> QED
  BY <1>1, <1>2, <1>3, <1>4 DEF Next

\* What the threads got, they got in order.
LEMMA InOrder == QueueInv => FirstInFirstOut
<1> SUFFICES ASSUME QueueInv, NEW n \in DOMAIN dequeued, dequeued[n].key # null
             PROVE  n \in DOMAIN enqueued /\ dequeued[n].key = enqueued[n]
  BY DEF FirstInFirstOut
<1>0. QueueTypeOK /\ GiantOK /\ TicketOK /\ LinkedOK /\ UnusedOK
  BY DEF QueueInv
<1>1. /\ Len(enqueued) \in Nat /\ Len(dequeued) \in Nat
      /\ n \in 1..Len(dequeued)
      /\ DOMAIN enqueued = 1..Len(enqueued)
  BY <1>0, ListNodes DEF QueueTypeOK
<1>2. CASE program = "giant"
  BY <1>0, <1>1, <1>2 DEF GiantOK
<1>3. CASE program = "ticket"
  BY <1>0, <1>1, <1>3 DEF TicketOK, GotOK
<1>4. CASE program = "linked"
  BY <1>0, <1>1, <1>4 DEF LinkedOK, HeadOK
<1>5. CASE program \notin Program
  BY <1>0, <1>1, <1>5 DEF UnusedOK
<1> QED
  BY <1>2, <1>3, <1>4, <1>5 DEF Program

\* The tail is near the end of the list.
LEMMA NearEnd == QueueInv => TailNearEnd
<1> SUFFICES ASSUME QueueInv, next[tail] # null
             PROVE  /\ next[next[tail]] = null
                    /\ \E p \in Producer : /\ pc[p] = "swing"
                                           /\ key_enqueue(p) = next[tail]
                                           /\ copied[p] = tail
  BY DEF TailNearEnd
<1>0. QueueTypeOK /\ LinkedOK /\ UnusedOK
  BY DEF QueueInv
<1>1. program = "linked"
  BY <1>0, QueueFacts DEF UnusedOK
<1>2. ListOK /\ TailOK /\ Len(enqueued) \in Nat
  BY <1>0, <1>1, ListNodes DEF LinkedOK
<1>3. tail # at(Len(enqueued))
  BY <1>2 DEF ListOK
<1>4. /\ Len(enqueued) > 0 /\ tail = at(Len(enqueued) - 1)
      /\ \E p \in Producer : /\ pc[p] = "swing" /\ copied[p] = tail
                             /\ key_enqueue(p) = at(Len(enqueued))
  BY <1>2, <1>3 DEF TailOK
<1>5. Len(enqueued) - 1 \in 0..Len(enqueued) - 1 /\ Len(enqueued) - 1 + 1 = Len(enqueued)
  BY <1>2, <1>4
<1>6. next[tail] = at(Len(enqueued))
  <2>1. next[at(Len(enqueued) - 1)] = at(Len(enqueued) - 1 + 1)
    BY <1>2, <1>5 DEF ListOK
  <2> QED
    BY <1>4, <1>5, <2>1
<1> QED
  BY <1>2, <1>4, <1>6 DEF ListOK

\* The queues' invariant, with one of the three programs.
THEOREM QueueInvariant == Spec => []QueueInv
<1>1. Init => QueueInv
  BY QueueInvFresh DEF Init
<1>2. QueueInv /\ [Next]_vars => QueueInv'
  BY QueueInvStep
<1> QED
  BY <1>1, <1>2, PTL DEF Spec

\* However the producers and consumers of a queue interleave, and however many
\* there are, the n-th dequeue gets the key of the n-th enqueue.
THEOREM QueueFirstInFirstOut == Spec => []FirstInFirstOut
BY QueueInvariant, InOrder, PTL

\* The tail of the linked queue is at its last node or the one before, and the
\* producer of the last node is then about to move it.
THEOREM QueueTailNearEnd == Spec => []TailNearEnd
BY QueueInvariant, NearEnd, PTL

-----------------------------------------------------------------------------
(* One of the labs' programs                                               *)

\* Nothing changes what program it is.
LEMMA SameProgram == ASSUME [LabNext]_labVars PROVE program' = program
<1>1. Next => program' = program
  BY DEF Next, enqueue, dequeue, Joined, vars, giantEnqueue, giantDequeue,
         drawRear, put, publish, drawFront, get, release,
         readTail, append, help, swing, readHead, readNext, take
<1>2. Locks!Next => program' = program
  BY DEF Locks!Next, Locks!thread_work, Locks!Joined, Locks!vars, Locks!Test,
         Locks!TestAndSet, Locks!Announce, Locks!Enqueue, Locks!Spin, Locks!Load,
         Locks!Store, Locks!Unlock, Locks!Adopt
<1>3. Pools!Next => program' = program
  BY DEF Pools!Next, Pools!mainStep, Pools!Poll, Pools!Ended, Pools!vars, Pools!ThreadFunc,
         Pools!WakeSpuriously, Pools!WakeMainSpuriously,
         Pools!Create, Pools!AwaitStart, Pools!Input, Pools!Quit, Pools!Reset,
         Pools!Broadcast, Pools!AwaitResults, Pools!AwaitSignal, Pools!Collect, Pools!Join,
         Pools!Start, Pools!FallAsleep, Pools!Wake, Pools!TakePart, Pools!Return,
         Pools!Count, Pools!Report, Pools!Increment, Pools!Signal
<1>4. Io!Next => program' = program
  BY DEF Io!Next, Io!mainStep, Io!Ended, Io!vars, Io!run, Io!Expire, Io!Post, Io!EndPosts,
         Io!JoinCounters, Io!JoinPrinter, Io!Call, Io!Handle, Io!Return
<1> QED
  BY <1>1, <1>2, <1>3, <1>4 DEF LabNext, labVars

\* The queues' invariant holds whatever program it is.
THEOREM LabQueues == LabSpec => []QueueInv
<1>1. LabInit => QueueInv
  BY QueueInvFresh DEF LabInit
<1>2. QueueInv /\ [LabNext]_labVars => QueueInv'
  <2> SUFFICES ASSUME QueueInv, [LabNext]_labVars PROVE QueueInv'
    OBVIOUS
  <2>1. CASE Next
    BY <2>1, QueueInvStep
  <2>2. CASE UNCHANGED queueVars
    BY <2>2, SameProgram, QueueInvKept DEF queueVars, bounded, linked, locals, history
  <2> QED
    BY <2>1, <2>2 DEF LabNext, labVars
<1> QED
  BY <1>1, <1>2, PTL DEF LabSpec

\* First in, first out, among the labs' programs.
THEOREM LabFirstInFirstOut == LabSpec => []FirstInFirstOut
BY LabQueues, InOrder, PTL

\* The tail of the linked queue, among the labs' programs.
THEOREM LabTailNearEnd == LabSpec => []TailNearEnd
BY LabQueues, NearEnd, PTL

\* The locks' invariant holds while a program of lab11 runs; in another one
\* their variables stay as they were.
LockPart == IF program \in Locks!Program THEN Proven!LockInvAll ELSE Locks!Fresh

\* The locks of MCLabs are those of the proofs.
LEMMA SameLocks ==
    /\ Locks!Program = Proven!Program
    /\ Locks!Fresh <=> Proven!Fresh
    /\ Locks!Next <=> Proven!Next
    /\ CounterExact <=> Proven!CounterExact
    /\ NodesOwned <=> Proven!NodesOwned
<1>1. Locks!Program = Proven!Program
  BY DEF Locks!Program, Proven!Program
<1>2. Locks!Fresh <=> Proven!Fresh
  BY DEF Locks!Fresh, Proven!Fresh, Locks!Thread, Proven!Thread, Locks!Node, Proven!Node
<1>3. Locks!Next <=> Proven!Next
  BY DEF Locks!Next, Locks!thread_work, Locks!Joined, Locks!Finished, Locks!vars, Locks!clh,
         Locks!Test, Locks!TestAndSet, Locks!Announce, Locks!Enqueue, Locks!Spin, Locks!Load,
         Locks!Store, Locks!Unlock, Locks!Adopt, Locks!call, Locks!goto, Locks!Thread,
         Proven!Next, Proven!thread_work, Proven!Joined, Proven!Finished, Proven!vars, Proven!clh,
         Proven!Test, Proven!TestAndSet, Proven!Announce, Proven!Enqueue, Proven!Spin, Proven!Load,
         Proven!Store, Proven!Unlock, Proven!Adopt, Proven!call, Proven!goto, Proven!Thread
<1>4. CounterExact <=> Proven!CounterExact
  BY DEF CounterExact, Locks!CounterExact, Proven!CounterExact
<1>5. NodesOwned <=> Proven!NodesOwned
  BY DEF NodesOwned, Locks!NodesOwned, Proven!NodesOwned, Locks!owned, Proven!owned,
         Locks!Waiting, Proven!Waiting, Locks!HasLock, Proven!HasLock, Locks!Thread, Proven!Thread
<1> QED
  BY <1>1, <1>2, <1>3, <1>4, <1>5

\* The part of the locks.
THEOREM LabLocks == ASSUME NumThread \in Nat PROVE LabSpec => []LockPart
<1>1. LabInit => LockPart
  <2> SUFFICES ASSUME LabInit, program \in Locks!Program PROVE Proven!LockInvAll
    BY DEF LabInit, LockPart
  <2>1. Proven!Init
    BY SameLocks DEF LabInit, Proven!Init
  <2> QED
    BY <2>1, Proven!LockInit
<1>2. LockPart /\ [LabNext]_labVars => LockPart'
  <2> SUFFICES ASSUME LockPart, [LabNext]_labVars PROVE LockPart'
    OBVIOUS
  <2>1. program' = program
    BY SameProgram
  <2>2. CASE program \in Locks!Program
    <3>1. Proven!LockInvAll
      BY <2>2 DEF LockPart
    <3>2. [Proven!Next]_(Proven!vars)
      <4>1. program \notin Program /\ program \notin Pools!Program /\ program \notin Io!Program
        BY <2>2 DEF Program, Locks!Program, Pools!Program, Io!Program
      <4>2. Proven!Next \/ UNCHANGED Proven!vars
        BY <4>1, SameLocks DEF LabNext, labVars, lockVars, Proven!vars, Proven!clh
      <4> QED
        BY <4>1, <4>2
    <3>3. Proven!LockInvAll'
      BY <3>1, <3>2, Proven!LockStep
    <3> QED
      BY <2>1, <2>2, <3>3 DEF LockPart, Locks!Program
  <2>3. CASE program \notin Locks!Program
    <3>1. UNCHANGED lockVars
      BY <2>3 DEF LabNext, labVars
    <3> QED
      BY <2>1, <2>3, <3>1 DEF LockPart, Locks!Program, Locks!Fresh, lockVars
  <2> QED
    BY <2>2, <2>3
<1> QED
  BY <1>1, <1>2, PTL DEF LabSpec

\* lab11: no increment of the unprotected counter is lost, among the labs'
\* programs.
THEOREM LabCounterExact == ASSUME NumThread \in Nat PROVE LabSpec => []CounterExact
<1>1. LockPart => CounterExact
  BY Proven!SumInit, Proven!SumIsExact, SameLocks DEF LockPart, Proven!LockInvAll
<1> QED
  BY <1>1, LabLocks, PTL

\* lab11: the nodes of the CLH lock have one owner each, among the labs' programs.
THEOREM LabNodesOwned == ASSUME NumThread \in Nat PROVE LabSpec => []NodesOwned
<1>1. program \notin Locks!Program => NodesOwned
  BY DEF NodesOwned, Locks!NodesOwned, Locks!Program
<1>2. LockPart => NodesOwned
  BY <1>1, Proven!LineNodes, SameLocks DEF LockPart, Proven!LockInvAll
<1> QED
  BY <1>2, LabLocks, PTL

-----------------------------------------------------------------------------
(* lab06, lab08: handlers                                                  *)

\* What a sequence holds, and whether it holds nothing twice.
Held(q) == {q[k] : k \in DOMAIN q}
Once(q) == \A m, n \in DOMAIN q : q[m] = q[n] => m = n

IoTypeOK ==
    /\ main \in {"post", "join counters", "join printer", "end"}
    /\ work \subseteq Io!Service
    /\ ready \in [Io!Service -> Seq(Nat \ {0})]
    /\ armed \subseteq Nat \ {0}
    /\ running \subseteq Io!Thread
    /\ handler \in [Io!Thread -> Nat]
    /\ below \in [Io!Thread -> BOOLEAN]
    /\ count \in Nat /\ posted \in Nat
    /\ result \in Seq(Nat)

\* No handler is called, or ever going to be.
Idle == armed = {} /\ ready["counter"] = <<>> /\ \A t \in Io!Thread : handler[t] = 0

\* One handler at a time looks at the count and increments it; as long as the
\* count is below the limit there is another one to come.
TimersOK ==
    /\ main \in {"join counters", "end"} /\ result = <<>>
    /\ running \subseteq (IF program = "timer" THEN {1} ELSE {1, 2})
    /\ \A t \in Io!Thread : handler[t] # 0 => t \in running
    /\ \A t, u \in Io!Thread : handler[t] # 0 /\ handler[u] # 0 => t = u
    /\ \A t \in Io!Thread : handler[t] # 0 => (below[t] <=> count < Limit)
    /\ count <= Limit /\ (count < Limit => ~Idle)
    /\ 1 \notin running => Idle
    /\ main = "end" => 1 \notin running

\* The handlers that the counting threads and the printing thread are in.
Counted == {handler[t] : t \in Io!Thread \ {0}} \ {0}
Printed == {handler[0]} \ {0}
Waiting == Held(ready["counter"])
Ready == Held(ready["printer"])

\* Every post is in one place ...
PlacesOK ==
    /\ Waiting \cup Counted \cup Ready \cup Printed \cup Held(result) = 1..posted
    /\ Once(ready["counter"]) /\ Once(ready["printer"]) /\ Once(result)
    /\ \A t, u \in Io!Thread \ {0} : handler[t] = handler[u] /\ handler[t] # 0 => t = u
    /\ Waiting \cap Counted = {} /\ Waiting \cap Ready = {} /\ Waiting \cap Printed = {}
    /\ Waiting \cap Held(result) = {} /\ Counted \cap Ready = {} /\ Counted \cap Printed = {}
    /\ Counted \cap Held(result) = {} /\ Ready \cap Printed = {} /\ Ready \cap Held(result) = {}
    /\ Printed \cap Held(result) = {}

\* ... and the threads return when nothing is left.
DrainOK ==
    /\ armed = {} /\ posted <= NumPost /\ (main # "post" => posted = NumPost)
    /\ program = "group" => "counter" \in work /\ 1 \in running /\ main \in {"post", "join counters"}
    /\ program = "primes" =>
        /\ "counter" \in work <=> main = "post"
        /\ "printer" \in work <=> main \in {"post", "join counters"}
        /\ 1 \notin running => main # "post" /\ ready["counter"] = <<>> /\ Counted = {}
        /\ main \in {"join printer", "end"} => 1 \notin running
        /\ 0 \notin running =>
              main \in {"join printer", "end"} /\ ready["printer"] = <<>> /\ Printed = {}
        /\ main = "end" => 0 \notin running

IoInv == IoTypeOK /\ IF Io!counting THEN TimersOK ELSE PlacesOK /\ DrainOK

\* One more at the end, and one less at the beginning.
LEMMA HeldAppend ==
    ASSUME NEW S, NEW q \in Seq(S), NEW x \in S
    PROVE  /\ Append(q, x) \in Seq(S)
           /\ Held(Append(q, x)) = Held(q) \cup {x}
           /\ Once(q) /\ x \notin Held(q) => Once(Append(q, x))
<1>1. /\ Append(q, x) \in Seq(S) /\ Len(q) \in Nat /\ DOMAIN q = 1..Len(q)
      /\ DOMAIN Append(q, x) = 1..Len(q) + 1
      /\ Append(q, x)[Len(q) + 1] = x
      /\ \A k \in 1..Len(q) : Append(q, x)[k] = q[k]
  BY AppendProperties
<1>2. \A k : k \in 1..Len(q) + 1 <=> k \in 1..Len(q) \/ k = Len(q) + 1
  BY <1>1
<1>3. Held(Append(q, x)) = Held(q) \cup {x}
  BY <1>1, <1>2 DEF Held
<1>4. Once(q) /\ x \notin Held(q) => Once(Append(q, x))
  BY <1>1, <1>2 DEF Held, Once
<1> QED
  BY <1>1, <1>3, <1>4

\* See HeldAppend.
LEMMA HeldTail ==
    ASSUME NEW S, NEW q \in Seq(S), q # <<>>
    PROVE  /\ Tail(q) \in Seq(S) /\ Head(q) \in S /\ Head(q) \in Held(q)
           /\ Once(q) => Held(Tail(q)) = Held(q) \ {Head(q)} /\ Once(Tail(q))
<1>1. /\ Tail(q) \in Seq(S) /\ Head(q) \in S /\ Head(q) = q[1]
      /\ Len(q) \in Nat \ {0} /\ DOMAIN q = 1..Len(q)
      /\ DOMAIN Tail(q) = 1..Len(q) - 1
      /\ \A k \in 1..Len(q) - 1 : Tail(q)[k] = q[k + 1]
  BY HeadTailProperties, EmptySeq, LenProperties
<1>2. /\ 1 \in 1..Len(q) /\ Head(q) = q[1]
      /\ \A k \in 1..Len(q) - 1 : k + 1 \in 1..Len(q) /\ k + 1 # 1
      /\ \A k \in 1..Len(q) : k = 1 \/ (k - 1 \in 1..Len(q) - 1 /\ k = (k - 1) + 1)
      /\ \A k, l \in 1..Len(q) - 1 : k + 1 = l + 1 => k = l
  BY <1>1
<1>3. Head(q) \in Held(q)
  BY <1>1, <1>2 DEF Held
<1>4. ASSUME Once(q) PROVE Held(Tail(q)) = Held(q) \ {Head(q)}
  <2>1. ASSUME NEW k \in 1..Len(q) - 1 PROVE Tail(q)[k] \in Held(q) \ {Head(q)}
    <3>1. k + 1 \in DOMAIN q /\ 1 \in DOMAIN q /\ k + 1 # 1 /\ Tail(q)[k] = q[k + 1]
      BY <1>1, <1>2
    <3> QED
      BY <1>1, <1>4, <3>1 DEF Once, Held
  <2>2. ASSUME NEW x \in Held(q) \ {Head(q)} PROVE x \in Held(Tail(q))
    <3>1. PICK k \in 1..Len(q) : x = q[k]
      BY <1>1 DEF Held
    <3>2. k - 1 \in 1..Len(q) - 1 /\ k = (k - 1) + 1
      BY <1>1, <1>2, <3>1
    <3>3. Tail(q)[k - 1] = x
      BY <1>1, <3>1, <3>2
    <3> QED
      BY <1>1, <3>2, <3>3 DEF Held
  <2>3. Held(Tail(q)) = {Tail(q)[k] : k \in 1..Len(q) - 1}
    BY <1>1 DEF Held
  <2> QED
    BY <2>1, <2>2, <2>3
<1>5. ASSUME Once(q) PROVE Once(Tail(q))
  <2> SUFFICES ASSUME NEW k \in 1..Len(q) - 1, NEW l \in 1..Len(q) - 1, Tail(q)[k] = Tail(q)[l]
               PROVE  k = l
    BY <1>1 DEF Once
  <2>1. q[k + 1] = q[l + 1] /\ k + 1 \in DOMAIN q /\ l + 1 \in DOMAIN q
    BY <1>1, <1>2
  <2>2. k + 1 = l + 1
    BY <1>5, <2>1 DEF Once
  <2> QED
    BY <1>2, <2>2
<1> QED
  BY <1>1, <1>3, <1>4, <1>5

\* A sequence that holds 1..n, each once, has n elements.
LEMMA OnceLen ==
    ASSUME NEW n \in Nat, NEW q \in Seq(Nat), Once(q), Held(q) = 1..n
    PROVE  Len(q) = n
<1>1. Len(q) \in Nat /\ DOMAIN q = 1..Len(q) /\ q \in [1..Len(q) -> Nat]
  BY LenProperties
<1>2. q \in Bijection(1..Len(q), 1..n)
  <2>1. q \in [1..Len(q) -> 1..n]
    BY <1>1 DEF Held
  <2>2. \A m, k \in 1..Len(q) : q[m] = q[k] => m = k
    BY <1>1 DEF Once
  <2>3. \A x \in 1..n : \E m \in 1..Len(q) : q[m] = x
    BY <1>1 DEF Held
  <2> QED
    BY <2>1, <2>2, <2>3 DEF Bijection, Injection, Surjection, IsInjective
<1>3. ExistsBijection(1..Len(q), 1..n)
  BY <1>2 DEF ExistsBijection
<1>4. Cardinality(1..n) = Len(q)
  BY <1>1, <1>3, FS_CountingElements
<1>5. Cardinality(1..n) = n
  <2> DEFINE c == Cardinality(1..n)
  <2>1. 1 \in Int /\ n \in Int
    OBVIOUS
  <2>2. c = IF 1 > n THEN 0 ELSE n - 1 + 1
    BY <2>1, FS_Interval
  <2> HIDE DEF c
  <2>3. c = n
    BY <2>2
  <2> QED
    BY <2>3 DEF c
<1> QED
  BY <1>4, <1>5

\* The threads, and what is in them.
LEMMA IoFacts ==
    ASSUME NumPool \in Nat, NumPool >= 2
    PROVE  /\ 0 \in Io!Thread /\ 1 \in Io!Thread /\ 2 \in Io!Thread
           /\ \A t \in Io!Thread : t \in Nat
           /\ \A t \in Io!Thread : Io!service(t) = IF t = 0 THEN "printer" ELSE "counter"
BY DEF Io!Thread, Io!service

\* Types.
LEMMA IoTypeStep ==
    ASSUME IoTypeOK, Io!Next
    PROVE  IoTypeOK'
<1>1. CASE Io!Post
  <2>1. posted + 1 \in Nat \ {0} /\ ready["counter"] \in Seq(Nat \ {0})
    <3>1. posted \in Nat
      BY DEF IoTypeOK
    <3>2. posted + 1 \in Nat \ {0}
      BY <3>1
    <3>3. ready["counter"] \in Seq(Nat \ {0})
      BY DEF IoTypeOK, Io!Service
    <3> QED
      BY <3>2, <3>3
  <2>2. Append(ready["counter"], posted + 1) \in Seq(Nat \ {0})
    BY <2>1, HeldAppend
  <2>3. posted' \in Nat /\ ready' \in [Io!Service -> Seq(Nat \ {0})]
    BY <1>1, <2>1, <2>2 DEF Io!Post, IoTypeOK
  <2> QED
    BY <1>1, <2>3 DEF Io!Post, IoTypeOK
<1>2. CASE Io!EndPosts \/ Io!JoinCounters \/ Io!JoinPrinter \/ Io!Ended
  BY <1>2 DEF Io!EndPosts, Io!JoinCounters, Io!JoinPrinter, Io!Ended, Io!vars, IoTypeOK
<1>3. ASSUME NEW t \in Io!Thread, Io!Call(t)
      PROVE  IoTypeOK'
  <2> DEFINE s == Io!service(t)
  <2>1. s \in Io!Service /\ ready[s] # <<>> /\ ready[s] \in Seq(Nat \ {0})
    BY <1>3 DEF Io!Call, IoTypeOK, Io!service, Io!Service
  <2>2. Tail(ready[s]) \in Seq(Nat \ {0}) /\ Head(ready[s]) \in Nat \ {0}
    BY <2>1, HeldTail
  <2>3. /\ handler' = [handler EXCEPT ![t] = Head(ready[s])]
        /\ ready' = [ready EXCEPT ![s] = Tail(ready[s])]
        /\ below' = [below EXCEPT ![t] = count < Limit]
        /\ UNCHANGED <<main, work, armed, running, count, posted, result>>
    BY <1>3 DEF Io!Call
  <2> HIDE DEF s
  <2>4. ready' \in [Io!Service -> Seq(Nat \ {0})]
    BY <2>1, <2>2, <2>3 DEF IoTypeOK
  <2>5. handler' \in [Io!Thread -> Nat] /\ below' \in [Io!Thread -> BOOLEAN]
    <3>1. (count < Limit) \in BOOLEAN
      OBVIOUS
    <3>2. below' \in [Io!Thread -> BOOLEAN]
      BY <2>3, <3>1 DEF IoTypeOK
    <3>3. handler' \in [Io!Thread -> Nat]
      BY <2>2, <2>3 DEF IoTypeOK
    <3> QED
      BY <3>2, <3>3
  <2> QED
    BY <2>3, <2>4, <2>5 DEF IoTypeOK
<1>4. ASSUME NEW t \in Io!Thread, Io!Handle(t)
      PROVE  IoTypeOK'
  <2>1. /\ handler[t] \in Nat \ {0} /\ handler' \in [Io!Thread -> Nat]
        /\ UNCHANGED <<main, work, running, below, posted>>
    BY <1>4 DEF Io!Handle, Io!none, IoTypeOK
  <2>2. CASE Io!PrintCount(t)
    <3>1. count' \in Nat /\ armed' \subseteq Nat \ {0} /\ UNCHANGED <<ready, result>>
      <4>1. \/ count' = count + 1 /\ armed' = armed \cup {handler[t]}
            \/ count' = count /\ armed' = armed
        BY <2>2 DEF Io!PrintCount
      <4>2. count \in Nat /\ armed \subseteq Nat \ {0}
        BY DEF IoTypeOK
      <4>3. count' \in Nat
        BY <4>1, <4>2
      <4>4. armed' \subseteq Nat \ {0}
        BY <2>1, <4>1, <4>2
      <4> QED
        BY <2>2, <4>3, <4>4 DEF Io!PrintCount
    <3> QED
      BY <2>1, <3>1 DEF IoTypeOK
  <2>3. CASE Io!countPrime(t)
    <3>1. ready["printer"] \in Seq(Nat \ {0})
      BY DEF IoTypeOK, Io!Service
    <3>2. Append(ready["printer"], handler[t]) \in Seq(Nat \ {0})
      BY <2>1, <3>1, HeldAppend
    <3>3. ready' \in [Io!Service -> Seq(Nat \ {0})] /\ UNCHANGED <<count, armed, result>>
      BY <2>3, <3>2 DEF Io!countPrime, IoTypeOK
    <3> QED
      BY <2>1, <3>3 DEF IoTypeOK
  <2>4. CASE Io!printResult(t)
    <3>1. Append(result, handler[t]) \in Seq(Nat)
      BY <2>1, HeldAppend DEF IoTypeOK
    <3>2. result' \in Seq(Nat) /\ UNCHANGED <<count, armed, ready>>
      BY <2>4, <3>1 DEF Io!printResult
    <3> QED
      BY <2>1, <3>2 DEF IoTypeOK
  <2> QED
    BY <1>4, <2>2, <2>3, <2>4 DEF Io!Handle
<1>5. ASSUME NEW t \in Io!Thread, Io!Return(t)
      PROVE  IoTypeOK'
  BY <1>5 DEF Io!Return, IoTypeOK
<1>6. ASSUME NEW timer \in {1, 2}, Io!Expire(timer)
      PROVE  IoTypeOK'
  <2>1. ready["counter"] \in Seq(Nat \ {0}) /\ timer \in Nat \ {0}
    <3>1. timer \in Nat \ {0}
      OBVIOUS
    <3> QED
      BY <3>1 DEF IoTypeOK, Io!Service
  <2>2. Append(ready["counter"], timer) \in Seq(Nat \ {0})
    BY <2>1, HeldAppend
  <2>3. ready' \in [Io!Service -> Seq(Nat \ {0})] /\ armed' \subseteq Nat \ {0}
    BY <1>6, <2>2 DEF Io!Expire, IoTypeOK
  <2> QED
    BY <1>6, <2>3 DEF Io!Expire, IoTypeOK
<1> QED
  BY <1>1, <1>2, <1>3, <1>4, <1>5, <1>6 DEF Io!Next, Io!mainStep, Io!run

\* The timers.
LEMMA TimersStep ==
    ASSUME NumPool \in Nat, NumPool >= 2, Limit \in Nat,
           IoTypeOK, TimersOK, Io!counting, Io!Next
    PROVE  TimersOK'
<1>0. /\ program = "timer" \/ program = "timers"
      /\ running \subseteq {1, 2} /\ (program = "timer" => running \subseteq {1})
      /\ \A t \in Io!Thread : t \in running => Io!service(t) = "counter"
      /\ \A t \in Io!Thread : handler[t] # 0 => t \in running
      /\ \A t, u \in Io!Thread : handler[t] # 0 /\ handler[u] # 0 => t = u
      /\ main \in {"join counters", "end"} /\ result = <<>>
      /\ count \in Nat /\ count <= Limit
      /\ 1 \in Io!Thread /\ 2 \in Io!Thread /\ 0 \notin running
  <2>1. program = "timer" \/ program = "timers"
    BY DEF Io!counting
  <2>2. running \subseteq {1, 2} /\ (program = "timer" => running \subseteq {1})
    BY <2>1 DEF TimersOK
  <2>3. \A t \in Io!Thread : t \in running => Io!service(t) = "counter"
    BY <2>2, IoFacts
  <2>4. 1 \in Io!Thread /\ 2 \in Io!Thread /\ 0 \notin running
    BY <2>2, IoFacts
  <2>5. count \in Nat /\ count <= Limit
    BY DEF TimersOK, IoTypeOK
  <2> QED
    BY <2>1, <2>2, <2>3, <2>4, <2>5 DEF TimersOK
<1>1. CASE Io!Post \/ Io!EndPosts \/ Io!JoinPrinter
  BY <1>0, <1>1 DEF Io!Post, Io!EndPosts, Io!JoinPrinter
<1>2. CASE Io!JoinCounters
  <2>1. 1 \notin running /\ main' = "end"
        /\ UNCHANGED <<program, ready, armed, running, handler, below, count, posted, result>>
    BY <1>0, <1>2 DEF Io!JoinCounters
  <2> QED
    BY <2>1 DEF TimersOK, Idle
<1>3. CASE Io!Ended
  BY <1>3 DEF Io!Ended, Io!vars, TimersOK, Idle
<1>4. ASSUME NEW t \in Io!Thread, Io!Call(t)
      PROVE  TimersOK'
  <2>1. t \in running /\ Io!service(t) = "counter" /\ handler[t] = 0
    BY <1>0, <1>4 DEF Io!Call, Io!none
  <2>2. \A u \in Io!Thread : handler[u] = 0
    <3>1. CASE program = "timers"
      BY <1>4, <3>1 DEF Io!Call, Io!strand, Io!none
    <3>2. CASE program = "timer"
      BY <1>0, <2>1, <3>2
    <3> QED
      BY <1>0, <3>1, <3>2
  <2>3. /\ ready["counter"] # <<>> /\ ready["counter"] \in Seq(Nat \ {0})
        /\ handler' = [handler EXCEPT ![t] = Head(ready["counter"])]
        /\ below' = [below EXCEPT ![t] = (count < Limit)]
        /\ UNCHANGED <<program, main, armed, running, count, result>>
    BY <1>4, <2>1 DEF Io!Call, IoTypeOK, Io!Service
  <2>4. Head(ready["counter"]) # 0
    BY <2>3, HeldTail
  <2>5. handler'[t] # 0 /\ \A u \in Io!Thread : u # t => handler'[u] = 0
    BY <2>2, <2>3, <2>4 DEF IoTypeOK
  <2>6. below'[t] <=> count < Limit
    BY <2>3 DEF IoTypeOK
  <2>7. 1 \in running /\ ~Idle'
    BY <2>3, <2>5 DEF TimersOK, Idle
  <2> QED
    BY <1>0, <2>1, <2>3, <2>5, <2>6, <2>7 DEF TimersOK
<1>5. ASSUME NEW t \in Io!Thread, Io!Handle(t)
      PROVE  TimersOK'
  <2>1. /\ handler[t] # 0 /\ Io!PrintCount(t)
        /\ handler' = [handler EXCEPT ![t] = 0]
        /\ UNCHANGED <<program, main, running, below, ready, result>>
    BY <1>0, <1>5 DEF Io!Handle, Io!none, Io!PrintCount, Io!countPrime, Io!printResult
  <2>2. \A u \in Io!Thread : handler'[u] = 0
    BY <1>0, <2>1 DEF IoTypeOK
  <2>3. 1 \in running
    BY <2>1 DEF TimersOK, Idle
  <2>4. below[t] <=> count < Limit
    BY <2>1 DEF TimersOK
  <2>5. count' <= Limit /\ (count' < Limit => ~Idle')
    <3>1. CASE below[t]
      <4>1. count' = count + 1 /\ handler[t] \in armed'
        BY <2>1, <3>1 DEF Io!PrintCount
      <4>2. count < Limit
        BY <2>4, <3>1
      <4>3. count' <= Limit
        <5>1. count \in Nat
          BY <1>0
        <5> QED
          BY <4>1, <4>2, <5>1
      <4>4. ~Idle'
        BY <4>1 DEF Idle
      <4> QED
        BY <4>3, <4>4
    <3>2. CASE ~below[t]
      <4>1. count' = count
        BY <2>1, <3>2 DEF Io!PrintCount
      <4>2. ~(count < Limit)
        BY <2>4, <3>2
      <4> QED
        BY <1>0, <4>1, <4>2
    <3> QED
      BY <3>1, <3>2
  <2>6. /\ main' \in {"join counters", "end"} /\ result' = <<>>
        /\ running' \subseteq (IF program' = "timer" THEN {1} ELSE {1, 2})
        /\ (1 \notin running => Idle)'
        /\ (main = "end" => 1 \notin running)'
    BY <1>0, <2>1, <2>3 DEF TimersOK
  <2> QED
    BY <2>2, <2>5, <2>6 DEF TimersOK
<1>6. ASSUME NEW t \in Io!Thread, Io!Return(t)
      PROVE  TimersOK'
  <2>1. /\ t \in running /\ Io!service(t) = "counter" /\ ready["counter"] = <<>> /\ armed = {}
        /\ \A u \in Io!Thread : Io!service(u) = "counter" => handler[u] = 0
        /\ running' = running \ {t}
        /\ UNCHANGED <<program, main, ready, armed, handler, below, count, result>>
    BY <1>0, <1>6 DEF Io!Return, Io!none
  <2>2. \A u \in Io!Thread : handler[u] = 0
    BY <1>0, <2>1
  <2>3. Idle /\ Idle'
    BY <2>1, <2>2 DEF Idle
  <2> QED
    BY <1>0, <2>1, <2>2, <2>3 DEF TimersOK
<1>7. ASSUME NEW timer \in {1, 2}, Io!Expire(timer)
      PROVE  TimersOK'
  <2>1. /\ ready' = [ready EXCEPT !["counter"] = Append(ready["counter"], timer)]
        /\ armed # {}
        /\ UNCHANGED <<program, main, running, handler, below, count, result>>
    BY <1>7 DEF Io!Expire
  <2>2. ready["counter"] \in Seq(Nat \ {0}) /\ timer \in Nat \ {0}
    <3>1. timer \in Nat \ {0}
      OBVIOUS
    <3> QED
      BY <3>1 DEF IoTypeOK, Io!Service
  <2>3. Append(ready["counter"], timer) # <<>>
    <3>1. /\ Len(Append(ready["counter"], timer)) = Len(ready["counter"]) + 1
          /\ Len(ready["counter"]) \in Nat
      BY <2>2, AppendProperties, LenProperties
    <3> QED
      BY <3>1
  <2>4. ready'["counter"] # <<>>
    BY <2>1, <2>3 DEF IoTypeOK, Io!Service
  <2>5. ~Idle /\ ~Idle'
    BY <2>1, <2>4 DEF Idle
  <2> QED
    BY <1>0, <2>1, <2>5 DEF TimersOK
<1> QED
  BY <1>1, <1>2, <1>3, <1>4, <1>5, <1>6, <1>7 DEF Io!Next, Io!mainStep, Io!run

\* The posts.
LEMMA PostsStep ==
    ASSUME NumPool \in Nat, NumPool >= 2, NumPost \in Nat,
           program \in {"group", "primes"}, IoTypeOK, PlacesOK, DrainOK, Io!Next
    PROVE  PlacesOK' /\ DrainOK'
<1> DEFINE rc == ready["counter"]
           rp == ready["printer"]
<1>0. /\ rc \in Seq(Nat \ {0}) /\ rp \in Seq(Nat \ {0}) /\ result \in Seq(Nat)
      /\ handler \in [Io!Thread -> Nat] /\ posted \in Nat
      /\ 0 \in Io!Thread /\ 1 \in Io!Thread
      /\ \A t \in Io!Thread : Io!service(t) = IF t = 0 THEN "printer" ELSE "counter"
      /\ ready \in [{"counter", "printer"} -> Seq(Nat \ {0})]
      /\ ~Io!counting
  BY IoFacts DEF IoTypeOK, Io!Service, Io!counting
<1>1. CASE Io!Post
  <2>1. /\ main = "post" /\ posted < NumPost /\ posted' = posted + 1
        /\ ready' = [ready EXCEPT !["counter"] = Append(rc, posted + 1)]
        /\ UNCHANGED <<program, main, work, armed, running, handler, below, count, result>>
    BY <1>1 DEF Io!Post
  <2>2. /\ posted + 1 \in Nat \ {0} /\ posted + 1 \notin 1..posted
        /\ 1..posted + 1 = (1..posted) \cup {posted + 1} /\ posted + 1 <= NumPost
    BY <1>0, <2>1
  <2>3. posted + 1 \notin Waiting
    BY <2>2 DEF PlacesOK
  <2>4. ready'["counter"] = Append(rc, posted + 1) /\ ready'["printer"] = rp
    BY <1>0, <2>1
  <2>5. Waiting' = Waiting \cup {posted + 1} /\ Once(ready'["counter"])
    <3> DEFINE x == posted + 1
    <3>1. x \in Nat \ {0} /\ x \notin Held(rc) /\ Once(rc)
      BY <2>2, <2>3 DEF Waiting, PlacesOK
    <3> HIDE DEF x
    <3>2. Held(Append(rc, x)) = Held(rc) \cup {x} /\ Once(Append(rc, x))
      <4> DEFINE S == Nat \ {0}
                 q == rc
      <4>1. x \in S /\ q \in Seq(S) /\ x \notin Held(q) /\ Once(q)
        BY <1>0, <3>1
      <4> HIDE DEF S, q
      <4>2. Held(Append(q, x)) = Held(q) \cup {x} /\ Once(Append(q, x))
        BY <4>1, HeldAppend
      <4> QED
        BY <4>2 DEF q
    <3> QED
      BY <2>4, <3>2 DEF Waiting, x
  <2>6. Counted' = Counted /\ Ready' = Ready /\ Printed' = Printed
    BY <2>1, <2>4 DEF Counted, Ready, Printed
  <2>7. PlacesOK'
    <3>1. /\ (Waiting \cup Counted \cup Ready \cup Printed \cup Held(result) = 1..posted)'
          /\ (Waiting \cap Counted = {} /\ Waiting \cap Ready = {} /\ Waiting \cap Printed = {})'
          /\ (Waiting \cap Held(result) = {})'
      BY <2>1, <2>2, <2>5, <2>6 DEF PlacesOK
    <3>2. /\ (Once(ready["counter"]) /\ Once(ready["printer"]) /\ Once(result))'
          /\ (\A t, u \in Io!Thread \ {0} : handler[t] = handler[u] /\ handler[t] # 0 => t = u)'
      BY <2>1, <2>4, <2>5 DEF PlacesOK, Io!Thread
    <3>3. /\ (Counted \cap Ready = {} /\ Counted \cap Printed = {})'
          /\ (Counted \cap Held(result) = {} /\ Ready \cap Printed = {} /\ Ready \cap Held(result) = {})'
          /\ (Printed \cap Held(result) = {})'
      BY <2>1, <2>6 DEF PlacesOK
    <3> QED
      BY <3>1, <3>2, <3>3 DEF PlacesOK
  <2>8. DrainOK'
    BY <2>1, <2>2, <2>4, <2>6 DEF DrainOK
  <2> QED
    BY <2>7, <2>8
<1>2. CASE Io!EndPosts \/ Io!JoinCounters \/ Io!JoinPrinter \/ Io!Ended
  <2>1. UNCHANGED <<program, ready, armed, running, handler, posted, result>>
    BY <1>2 DEF Io!EndPosts, Io!JoinCounters, Io!JoinPrinter, Io!Ended, Io!vars
  <2>2. Waiting' = Waiting /\ Counted' = Counted /\ Ready' = Ready /\ Printed' = Printed
    BY <2>1 DEF Waiting, Counted, Ready, Printed
  <2>3. PlacesOK'
    BY <2>1, <2>2 DEF PlacesOK
  <2>4. CASE Io!EndPosts
    BY <1>0, <2>1, <2>2, <2>3, <2>4 DEF Io!EndPosts, DrainOK
  <2>5. CASE Io!JoinCounters
    <3>1. 1 \notin running /\ program = "primes" /\ main = "join counters"
          /\ work' = {} /\ main' = "join printer"
      <4>1. /\ main = "join counters" /\ \A t \in running : Io!service(t) # "counter"
            /\ work' = {} /\ main' = IF program = "primes" THEN "join printer" ELSE "end"
        BY <2>5 DEF Io!JoinCounters
      <4>2. Io!service(1) = "counter"
        BY <1>0
      <4>3. 1 \notin running
        BY <4>1, <4>2
      <4>4. program = "primes"
        BY <4>3 DEF DrainOK
      <4> QED
        BY <4>1, <4>3, <4>4
    <3> QED
      BY <2>1, <2>2, <2>3, <3>1 DEF DrainOK
  <2>6. CASE Io!JoinPrinter
    <3>1. 1 \notin running /\ 0 \notin running /\ main = "join printer" /\ main' = "end" /\ work' = work
      BY <2>6 DEF Io!JoinPrinter
    <3> QED
      BY <2>1, <2>2, <2>3, <3>1 DEF DrainOK
  <2>7. CASE Io!Ended
    BY <2>1, <2>2, <2>3, <2>7 DEF Io!Ended, Io!vars, DrainOK
  <2> QED
    BY <1>2, <2>4, <2>5, <2>6, <2>7
<1>3. ASSUME NEW t \in Io!Thread, Io!Call(t), t # 0
      PROVE  PlacesOK' /\ DrainOK'
  <2> DEFINE x == Head(rc)
  <2>1. /\ t \in running /\ handler[t] = 0 /\ rc # <<>>
        /\ handler' = [handler EXCEPT ![t] = x]
        /\ ready' = [ready EXCEPT !["counter"] = Tail(rc)]
        /\ UNCHANGED <<program, main, work, armed, running, count, posted, result>>
    BY <1>0, <1>3 DEF Io!Call, Io!none
  <2>2. /\ x \in Nat \ {0} /\ x \in Waiting
        /\ Once(rc) /\ Held(Tail(rc)) = Waiting \ {x} /\ Once(Tail(rc))
    BY <1>0, <2>1, HeldTail DEF Waiting, PlacesOK
  <2> HIDE DEF x
  <2>3. ready'["counter"] = Tail(rc) /\ ready'["printer"] = rp
    BY <1>0, <2>1
  <2>4. Waiting' = Waiting \ {x} /\ Ready' = Ready
    BY <2>2, <2>3 DEF Waiting, Ready
  <2>5. handler'[t] = x /\ \A u \in Io!Thread : u # t => handler'[u] = handler[u]
    BY <1>0, <2>1
  <2>6. Counted' = Counted \cup {x} /\ Printed' = Printed
    BY <1>0, <1>3, <2>1, <2>2, <2>5 DEF Counted, Printed, Io!Thread
  <2>7. PlacesOK'
    <3>1. x \notin Counted
      BY <2>2 DEF PlacesOK
    <3>2. \A u \in Io!Thread \ {0} : handler[u] # 0 => handler[u] # x
      BY <3>1 DEF Counted
    <3>3. (\A u, w \in Io!Thread \ {0} : handler[u] = handler[w] /\ handler[u] # 0 => u = w)'
      BY <2>2, <2>5, <3>2 DEF PlacesOK, Io!Thread
    <3>4. (Once(ready["counter"]) /\ Once(ready["printer"]) /\ Once(result))'
      BY <2>1, <2>2, <2>3 DEF PlacesOK
    <3>5. /\ (Waiting \cup Counted \cup Ready \cup Printed \cup Held(result) = 1..posted)'
          /\ (Waiting \cap Counted = {} /\ Waiting \cap Ready = {} /\ Waiting \cap Printed = {})'
          /\ (Waiting \cap Held(result) = {} /\ Counted \cap Ready = {} /\ Counted \cap Printed = {})'
          /\ (Counted \cap Held(result) = {} /\ Ready \cap Printed = {} /\ Ready \cap Held(result) = {})'
          /\ (Printed \cap Held(result) = {})'
      BY <2>1, <2>2, <2>4, <2>6 DEF PlacesOK
    <3> QED
      BY <3>3, <3>4, <3>5 DEF PlacesOK
  <2>8. DrainOK'
    BY <2>1, <2>3, <2>6 DEF DrainOK
  <2> QED
    BY <2>7, <2>8
<1>4. ASSUME Io!Call(0)
      PROVE  PlacesOK' /\ DrainOK'
  <2> DEFINE x == Head(rp)
  <2>1. /\ 0 \in running /\ handler[0] = 0 /\ rp # <<>>
        /\ handler' = [handler EXCEPT ![0] = x]
        /\ ready' = [ready EXCEPT !["printer"] = Tail(rp)]
        /\ UNCHANGED <<program, main, work, armed, running, count, posted, result>>
    BY <1>0, <1>4 DEF Io!Call, Io!none
  <2>2. /\ x \in Nat \ {0} /\ x \in Ready
        /\ Once(rp) /\ Held(Tail(rp)) = Ready \ {x} /\ Once(Tail(rp))
    BY <1>0, <2>1, HeldTail DEF Ready, PlacesOK
  <2> HIDE DEF x
  <2>3. ready'["counter"] = rc /\ ready'["printer"] = Tail(rp)
    BY <1>0, <2>1
  <2>4. Waiting' = Waiting /\ Ready' = Ready \ {x}
    BY <2>2, <2>3 DEF Waiting, Ready
  <2>5. handler'[0] = x /\ \A u \in Io!Thread : u # 0 => handler'[u] = handler[u]
    BY <1>0, <2>1
  <2>6. Counted' = Counted /\ Printed' = {x} /\ Printed = {}
    BY <1>0, <2>1, <2>2, <2>5 DEF Counted, Printed, Io!Thread
  <2>7. PlacesOK'
    <3>1. (\A u, w \in Io!Thread \ {0} : handler[u] = handler[w] /\ handler[u] # 0 => u = w)'
      BY <2>5 DEF PlacesOK, Io!Thread
    <3>2. (Once(ready["counter"]) /\ Once(ready["printer"]) /\ Once(result))'
      BY <2>1, <2>2, <2>3 DEF PlacesOK
    <3>3. /\ (Waiting \cup Counted \cup Ready \cup Printed \cup Held(result) = 1..posted)'
          /\ (Waiting \cap Counted = {} /\ Waiting \cap Ready = {} /\ Waiting \cap Printed = {})'
          /\ (Waiting \cap Held(result) = {} /\ Counted \cap Ready = {} /\ Counted \cap Printed = {})'
          /\ (Counted \cap Held(result) = {} /\ Ready \cap Printed = {} /\ Ready \cap Held(result) = {})'
          /\ (Printed \cap Held(result) = {})'
      BY <2>1, <2>2, <2>4, <2>6 DEF PlacesOK
    <3> QED
      BY <3>1, <3>2, <3>3 DEF PlacesOK
  <2>8. DrainOK'
    BY <2>1, <2>3, <2>6 DEF DrainOK
  <2> QED
    BY <2>7, <2>8
<1>5. ASSUME NEW t \in Io!Thread, Io!Handle(t)
      PROVE  PlacesOK' /\ DrainOK'
  <2> DEFINE x == handler[t]
  <2>1. /\ x # 0 /\ x \in Nat \ {0} /\ handler' = [handler EXCEPT ![t] = 0]
        /\ Io!countPrime(t) \/ Io!printResult(t)
        /\ UNCHANGED <<program, main, work, running, below, posted>>
    BY <1>0, <1>5 DEF Io!Handle, Io!none, Io!PrintCount
  <2>2. handler'[t] = 0 /\ \A u \in Io!Thread : u # t => handler'[u] = handler[u]
    BY <1>0, <2>1
  <2> HIDE DEF x
  <2>3. (\A u, w \in Io!Thread \ {0} : handler[u] = handler[w] /\ handler[u] # 0 => u = w)'
    BY <2>2 DEF PlacesOK, Io!Thread
  <2>4. /\ t # 0 => x \in Counted /\ Counted' = Counted \ {x} /\ Printed' = Printed
        /\ t = 0 => Printed = {x} /\ Printed' = {} /\ Counted' = Counted
    <3>1. CASE t # 0
      <4>1. \A u \in Io!Thread \ {0} : handler[u] = x => u = t
        BY <2>1, <3>1 DEF PlacesOK, x
      <4>2. x \in Counted /\ Counted' = Counted \ {x}
        BY <2>1, <2>2, <3>1, <4>1 DEF Counted, x, Io!Thread
      <4>3. Printed' = Printed
        BY <1>0, <2>2, <3>1 DEF Printed
      <4> QED
        BY <3>1, <4>2, <4>3
    <3>2. CASE t = 0
      BY <2>1, <2>2, <3>2 DEF Counted, Printed, x, Io!Thread
    <3> QED
      BY <3>1, <3>2
  <2>5. CASE Io!countPrime(t)
    <3>1. /\ t # 0 /\ program = "primes"
          /\ ready' = [ready EXCEPT !["printer"] = Append(rp, x)]
          /\ UNCHANGED <<count, armed, result>>
      BY <2>5 DEF Io!countPrime, x
    <3>2. x \notin Ready
      BY <2>4, <3>1 DEF PlacesOK
    <3>3. ready'["counter"] = rc /\ ready'["printer"] = Append(rp, x)
      BY <1>0, <3>1
    <3>4. Ready' = Ready \cup {x} /\ Waiting' = Waiting /\ Once(ready'["printer"])
      <4>1. x \notin Held(rp) /\ Once(rp)
        BY <3>2 DEF Ready, PlacesOK
      <4>2. Held(Append(rp, x)) = Held(rp) \cup {x} /\ Once(Append(rp, x))
        <5> DEFINE S == Nat \ {0}
                   q == rp
        <5>1. x \in S /\ q \in Seq(S) /\ x \notin Held(q) /\ Once(q)
          BY <1>0, <2>1, <4>1
        <5> HIDE DEF S, q
        <5>2. Held(Append(q, x)) = Held(q) \cup {x} /\ Once(Append(q, x))
          BY <5>1, HeldAppend
        <5> QED
          BY <5>2 DEF q
      <4> QED
        BY <3>3, <4>2 DEF Ready, Waiting
    <3>5. /\ (Waiting \cup Counted \cup Ready \cup Printed \cup Held(result) = 1..posted)'
          /\ (Waiting \cap Counted = {} /\ Waiting \cap Ready = {} /\ Waiting \cap Printed = {})'
          /\ (Waiting \cap Held(result) = {} /\ Counted \cap Ready = {} /\ Counted \cap Printed = {})'
          /\ (Counted \cap Held(result) = {} /\ Ready \cap Printed = {} /\ Ready \cap Held(result) = {})'
          /\ (Printed \cap Held(result) = {})'
      BY <2>1, <2>4, <3>1, <3>4 DEF PlacesOK
    <3>6. PlacesOK'
      BY <2>3, <3>1, <3>3, <3>4, <3>5 DEF PlacesOK
    <3>7. 1 \in running /\ 0 \in running
      BY <2>4, <3>1 DEF DrainOK
    <3>8. DrainOK'
      BY <2>1, <3>1, <3>7 DEF DrainOK
    <3> QED
      BY <3>6, <3>8
  <2>6. CASE Io!printResult(t)
    <3>1. result' = Append(result, x) /\ UNCHANGED <<count, armed, ready>>
      BY <2>6 DEF Io!printResult, x
    <3>2. x \notin Held(result)
      BY <2>4 DEF PlacesOK
    <3>3. Held(result') = Held(result) \cup {x} /\ Once(result')
      BY <1>0, <2>1, <3>1, <3>2, HeldAppend DEF PlacesOK
    <3>4. Ready' = Ready /\ Waiting' = Waiting
      BY <3>1 DEF Ready, Waiting
    <3>5. /\ (Waiting \cup Counted \cup Ready \cup Printed \cup Held(result) = 1..posted)'
          /\ (Waiting \cap Counted = {} /\ Waiting \cap Ready = {} /\ Waiting \cap Printed = {})'
          /\ (Waiting \cap Held(result) = {} /\ Counted \cap Ready = {} /\ Counted \cap Printed = {})'
          /\ (Counted \cap Held(result) = {} /\ Ready \cap Printed = {} /\ Ready \cap Held(result) = {})'
          /\ (Printed \cap Held(result) = {})'
      BY <2>1, <2>4, <3>3, <3>4 DEF PlacesOK
    <3>6. PlacesOK'
      BY <2>3, <3>1, <3>3, <3>5 DEF PlacesOK
    <3>7. DrainOK'
      BY <2>1, <2>4, <3>1 DEF DrainOK
    <3> QED
      BY <3>6, <3>7
  <2> QED
    BY <2>1, <2>5, <2>6
<1>6. ASSUME NEW t \in Io!Thread, Io!Return(t)
      PROVE  PlacesOK' /\ DrainOK'
  <2>1. /\ t \in running /\ Io!service(t) \notin work /\ ready[Io!service(t)] = <<>>
        /\ \A u \in Io!Thread : Io!service(u) = Io!service(t) => handler[u] = 0
        /\ running' = running \ {t}
        /\ UNCHANGED <<program, main, work, ready, armed, handler, posted, result>>
    BY <1>6 DEF Io!Return, Io!none
  <2>2. Waiting' = Waiting /\ Counted' = Counted /\ Ready' = Ready /\ Printed' = Printed
    BY <2>1 DEF Waiting, Counted, Ready, Printed
  <2>3. PlacesOK'
    BY <2>1, <2>2 DEF PlacesOK
  <2>4. CASE t # 0
    <3>1. "counter" \notin work /\ rc = <<>> /\ Counted = {}
      BY <1>0, <2>1, <2>4 DEF Counted
    <3>2. program = "primes" /\ main # "post" /\ (0 \in running' <=> 0 \in running)
      BY <2>1, <2>4, <3>1 DEF DrainOK
    <3> QED
      BY <2>1, <2>2, <2>3, <3>1, <3>2 DEF DrainOK
  <2>5. CASE t = 0
    <3>1. "printer" \notin work /\ rp = <<>> /\ Printed = {} /\ (1 \in running' <=> 1 \in running)
      BY <1>0, <2>1, <2>5 DEF Printed
    <3> QED
      BY <1>0, <2>1, <2>2, <2>3, <3>1 DEF DrainOK, IoTypeOK
  <2> QED
    BY <2>4, <2>5
<1>7. ASSUME NEW timer \in {1, 2}, Io!Expire(timer)
      PROVE  PlacesOK' /\ DrainOK'
  BY <1>7 DEF Io!Expire, DrainOK
<1> QED
  BY <1>1, <1>2, <1>3, <1>4, <1>5, <1>6, <1>7 DEF Io!Next, Io!mainStep, Io!run

\* When main starts to post, or the timers to count.
LEMMA IoFresh ==
    ASSUME NumPool \in Nat, NumPool >= 2, NumPost \in Nat, Limit \in Nat,
           program \in Io!Program, Io!Fresh
    PROVE  IoInv
<1>1. /\ main = IF Io!counting THEN "join counters" ELSE "post"
      /\ work = IF Io!counting THEN {} ELSE Io!Service
      /\ ready = [s \in Io!Service |-> <<>>]
      /\ armed = CASE program = "timer" -> {1} [] program = "timers" -> {1, 2} [] OTHER -> {}
      /\ running = CASE program = "timer" -> {1}
                     [] program = "timers" -> {1, 2}
                     [] program = "group" -> Io!Thread \ {0}
                     [] OTHER -> Io!Thread
      /\ handler = [t \in Io!Thread |-> 0]
      /\ below = [t \in Io!Thread |-> FALSE]
      /\ count = 0 /\ posted = 0 /\ result = <<>>
  BY DEF Io!Fresh, Io!none
<1>2. /\ program = "timer" \/ program = "timers" \/ program = "group" \/ program = "primes"
      /\ Io!counting <=> program = "timer" \/ program = "timers"
  BY DEF Io!Program, Io!counting
<1>3. /\ ready["counter"] = <<>> /\ ready["printer"] = <<>>
      /\ \A t \in Io!Thread : handler[t] = 0
      /\ 0 \in Io!Thread /\ 1 \in Io!Thread /\ 2 \in Io!Thread
  BY <1>1, IoFacts DEF Io!Service
<1>4. program = "timer" => armed = {1} /\ running = {1}
  BY <1>1
<1>5. program = "timers" => armed = {1, 2} /\ running = {1, 2}
  BY <1>1
<1>6. program = "group" => armed = {} /\ running = Io!Thread \ {0}
  BY <1>1
<1>7. program = "primes" => armed = {} /\ running = Io!Thread
  BY <1>1
<1>8. IoTypeOK
  <2>1. 1 \in Nat \ {0} /\ 2 \in Nat \ {0} /\ 0 \in Nat
    OBVIOUS
  <2>2. armed \subseteq Nat \ {0} /\ running \subseteq Io!Thread
    BY <1>2, <1>3, <1>4, <1>5, <1>6, <1>7, <2>1
  <2>3. <<>> \in Seq(Nat \ {0}) /\ <<>> \in Seq(Nat)
    OBVIOUS
  <2>4. ready \in [Io!Service -> Seq(Nat \ {0})]
    BY <1>1, <2>3
  <2>5. handler \in [Io!Thread -> Nat] /\ below \in [Io!Thread -> BOOLEAN]
    BY <1>1, <2>1
  <2>6. main \in {"post", "join counters", "join printer", "end"} /\ work \subseteq Io!Service
    BY <1>1
  <2> QED
    BY <1>1, <2>1, <2>2, <2>3, <2>4, <2>5, <2>6 DEF IoTypeOK
<1>9. CASE Io!counting
  <2>1. main = "join counters" /\ result = <<>> /\ 1 \in running
        /\ running \subseteq (IF program = "timer" THEN {1} ELSE {1, 2})
    BY <1>1, <1>2, <1>4, <1>5, <1>9
  <2>2. ~Idle
    BY <1>2, <1>4, <1>5, <1>9 DEF Idle
  <2>3. count <= Limit
    <3>1. count = 0
      BY <1>1
    <3> QED
      BY <3>1
  <2>4. TimersOK
    BY <1>3, <2>1, <2>2, <2>3 DEF TimersOK
  <2> QED
    BY <1>8, <1>9, <2>4 DEF IoInv
<1>10. CASE ~Io!counting
  <2>1. Held(<<>>) = {} /\ Once(<<>>)
    BY DEF Held, Once
  <2>2. Waiting = {} /\ Ready = {} /\ Held(result) = {} /\ Counted = {} /\ Printed = {}
    BY <1>1, <1>3, <2>1 DEF Waiting, Ready, Counted, Printed
  <2>0. posted = 0
    BY <1>1
  <2>3. 1..posted = {}
    BY <2>0
  <2>4. PlacesOK
    BY <1>1, <1>3, <2>1, <2>2, <2>3 DEF PlacesOK
  <2>5. main = "post" /\ "counter" \in work /\ "printer" \in work
    BY <1>1, <1>10 DEF Io!Service
  <2>6. posted <= NumPost
    BY <2>0
  <2>7. CASE program = "group"
    <3>1. armed = {} /\ 1 \in running
      BY <1>3, <1>6, <2>7
    <3> QED
      BY <1>8, <1>10, <2>4, <2>5, <2>6, <2>7, <3>1 DEF IoInv, DrainOK
  <2>8. CASE program = "primes"
    <3>1. armed = {} /\ 1 \in running /\ 0 \in running
      BY <1>3, <1>7, <2>8
    <3> QED
      BY <1>8, <1>10, <2>4, <2>5, <2>6, <2>8, <3>1 DEF IoInv, DrainOK
  <2> QED
    BY <1>2, <1>10, <2>7, <2>8
<1> QED
  BY <1>9, <1>10

\* What the invariant says of the end.
LEMMA IoExact ==
    ASSUME NumPool \in Nat, NumPool >= 2, NumPost \in Nat, Limit \in Nat,
           program \in Io!Program, IoInv
    PROVE  HandlersExact
<1>1. CASE Io!counting
  <2>1. TimersOK /\ result = <<>>
    BY <1>1 DEF IoInv, TimersOK
  <2>2. \A m, n \in DOMAIN result : result[m] = result[n] => m = n
    BY <2>1
  <2>3. ASSUME main = "end" PROVE count = Limit
    <3>1. Idle
      BY <2>1, <2>3 DEF TimersOK
    <3>2. count <= Limit /\ ~(count < Limit) /\ count \in Nat
      BY <1>1, <2>1, <3>1 DEF TimersOK, IoInv, IoTypeOK
    <3> QED
      BY <3>2
  <2> QED
    BY <1>1, <2>2, <2>3 DEF HandlersExact, Io!HandlersExact
<1>2. CASE ~Io!counting
  <2>1. IoTypeOK /\ PlacesOK /\ DrainOK /\ Once(result)
    BY <1>2 DEF IoInv, PlacesOK
  <2>2. \A m, n \in DOMAIN result : result[m] = result[n] => m = n
    BY <2>1 DEF Once
  <2>3. ASSUME main = "end" PROVE Len(result) = NumPost
    <3>1. program = "primes"
      <4>1. program = "group" \/ program = "primes"
        BY <1>2 DEF Io!Program, Io!counting
      <4> QED
        BY <2>1, <2>3, <4>1 DEF DrainOK
    <3>2. 0 \notin running /\ 1 \notin running
      BY <2>1, <2>3, <3>1 DEF DrainOK
    <3>3. ready["counter"] = <<>> /\ Counted = {} /\ ready["printer"] = <<>> /\ Printed = {}
          /\ posted = NumPost
      BY <2>1, <2>3, <3>1, <3>2 DEF DrainOK
    <3>4. Waiting = {} /\ Ready = {}
      BY <3>3 DEF Waiting, Ready, Held
    <3>5. Held(result) = 1..NumPost /\ result \in Seq(Nat)
      BY <2>1, <3>3, <3>4 DEF PlacesOK, IoTypeOK
    <3> QED
      BY <2>1, <3>5, OnceLen
  <2> QED
    BY <1>2, <2>2, <2>3 DEF HandlersExact, Io!HandlersExact
<1> QED
  BY <1>1, <1>2

\* The services' invariant holds while a program of lab06 or lab08 runs; in
\* another one their variables stay as they were.
IoPart == IF program \in Io!Program THEN IoInv ELSE main = "post" /\ result = <<>>

\* The part of the services: each handler is called once, and the services'
\* threads return when nothing is left, for any number of threads and posts.
THEOREM LabHandlers ==
    ASSUME NumPool \in Nat, NumPool >= 2, NumPost \in Nat, Limit \in Nat
    PROVE  LabSpec => []IoPart
<1>1. LabInit => IoPart
  <2> SUFFICES ASSUME LabInit PROVE IoPart
    OBVIOUS
  <2>1. Io!Fresh
    BY DEF LabInit
  <2>2. CASE program \in Io!Program
    BY <2>1, <2>2, IoFresh DEF IoPart
  <2>3. CASE program \notin Io!Program
    <3>1. ~Io!counting
      BY <2>3 DEF Io!Program, Io!counting
    <3> QED
      BY <2>1, <2>3, <3>1 DEF IoPart, Io!Fresh
  <2> QED
    BY <2>2, <2>3
<1>2. IoPart /\ [LabNext]_labVars => IoPart'
  <2> SUFFICES ASSUME IoPart, [LabNext]_labVars PROVE IoPart'
    OBVIOUS
  <2>1. program' = program
    BY SameProgram
  <2>2. CASE program \in Io!Program
    <3>1. IoInv
      BY <2>2 DEF IoPart
    <3>2. program \notin Program /\ program \notin Locks!Program /\ program \notin Pools!Program
      BY <2>2 DEF Program, Locks!Program, Pools!Program, Io!Program
    <3>3. Io!Next \/ UNCHANGED ioVars
      BY <3>2 DEF LabNext, labVars
    <3>4. CASE Io!Next
      <4>1. IoTypeOK'
        BY <3>1, <3>4, IoTypeStep DEF IoInv
      <4>2. CASE Io!counting
        <5>1. TimersOK' /\ Io!counting'
          BY <2>1, <3>1, <3>4, <4>2, TimersStep DEF IoInv, Io!counting
        <5> QED
          BY <2>1, <2>2, <4>1, <5>1 DEF IoPart, IoInv, Io!Program
      <4>3. CASE ~Io!counting
        <5>1. program \in {"group", "primes"} /\ ~Io!counting'
          BY <2>1, <2>2, <4>3 DEF Io!Program, Io!counting
        <5>2. PlacesOK' /\ DrainOK'
          BY <3>1, <3>4, <4>3, <5>1, PostsStep DEF IoInv
        <5> QED
          BY <2>1, <2>2, <4>1, <5>1, <5>2 DEF IoPart, IoInv, Io!Program
      <4> QED
        BY <4>2, <4>3
    <3>5. CASE UNCHANGED ioVars
      <4>1. IoTypeOK' = IoTypeOK /\ TimersOK' = TimersOK /\ PlacesOK' = PlacesOK /\ DrainOK' = DrainOK
            /\ Io!counting' = Io!counting
        BY <2>1, <3>5 DEF ioVars, IoTypeOK, TimersOK, Idle, PlacesOK, DrainOK, Waiting, Counted,
                          Ready, Printed, Held, Once, Io!counting
      <4> QED
        BY <2>1, <2>2, <3>1, <4>1 DEF IoPart, IoInv, Io!Program
    <3> QED
      BY <3>3, <3>4, <3>5
  <2>3. CASE program \notin Io!Program
    <3>1. UNCHANGED ioVars
      BY <2>3 DEF LabNext, labVars
    <3> QED
      BY <2>1, <2>3, <3>1 DEF IoPart, Io!Program, ioVars
  <2> QED
    BY <2>2, <2>3
<1> QED
  BY <1>1, <1>2, PTL DEF LabSpec

\* lab06, lab08: the timers count to their limit exactly, whatever it is, and
\* each of any number of posts is answered once, among the labs' programs.
THEOREM LabHandlersExact ==
    ASSUME NumPool \in Nat, NumPool >= 2, NumPost \in Nat, Limit \in Nat
    PROVE  LabSpec => []HandlersExact
<1>1. IoPart => HandlersExact
  <2>1. CASE program \in Io!Program
    BY <2>1, IoExact DEF IoPart
  <2>2. CASE program \notin Io!Program
    BY <2>2 DEF IoPart, HandlersExact, Io!HandlersExact
  <2> QED
    BY <2>1, <2>2
<1> QED
  BY <1>1, LabHandlers, PTL

-----------------------------------------------------------------------------
(* lab04, lab05: prime numbers                                             *)

\* A product of two positive numbers is no less than either of them.
LEMMA Products ==
    ASSUME NEW a \in Nat, NEW b \in Nat
    PROVE  /\ a * b \in Nat /\ a * b = b * a
           /\ \A c \in Nat : a <= c => a * b <= c * b
           /\ \A c \in Nat : a < c /\ b > 0 => a * b < c * b
<1>1. ASSUME NEW c \in Nat, a <= c PROVE a * b <= c * b
  <2>1. PICK x \in Nat : c = a + x
    <3>1. c - a \in Nat /\ c = a + (c - a)
      BY <1>1
    <3> QED
      BY <3>1
  <2>2. c * b = a * b + x * b /\ x * b >= 0 /\ a * b \in Int /\ x * b \in Int
    BY <2>1
  <2> QED
    BY <2>2
<1>2. ASSUME NEW c \in Nat, a < c, b > 0 PROVE a * b < c * b
  <2>1. a + 1 <= c /\ a + 1 \in Nat
    BY <1>2
  <2>2. PICK x \in Nat : c = (a + 1) + x
    <3>1. c - (a + 1) \in Nat /\ c = (a + 1) + (c - (a + 1))
      BY <2>1
    <3> QED
      BY <3>1
  <2>3. c * b = (a * b + b) + x * b /\ x * b >= 0 /\ a * b \in Int /\ x * b \in Int
    BY <2>2
  <2> QED
    BY <1>2, <2>3
<1>3. a * b \in Nat /\ a * b = b * a
  OBVIOUS
<1> QED
  BY <1>1, <1>2, <1>3

\* A number leaves no remainder exactly when it is a multiple.
LEMMA Divides ==
    ASSUME NEW n \in Nat, NEW d \in Nat, d > 0
    PROVE  n % d = 0 <=> \E q \in Nat : n = d * q
<1> DEFINE x == n \div d
           r == n % d
<1>1. n = d * x + r /\ x \in Nat /\ r \in 0..d - 1
  OBVIOUS
<1> HIDE DEF x, r
<1>2. ASSUME r = 0 PROVE \E q \in Nat : n = d * q
  BY <1>1, <1>2
<1>3. ASSUME NEW q \in Nat, n = d * q PROVE r = 0
  <2>1. d * q + 0 = d * x + r /\ 0 \in 0..d - 1
    BY <1>1, <1>3
  <2> QED
    BY <1>1, <2>1, Remainders
<1> QED
  BY <1>2, <1>3 DEF r

\* Trial division up to the square root finds a divisor if there is one: of
\* two factors one is not greater than it.
LEMMA TrialDivision ==
    ASSUME NEW n \in Int
    PROVE  Pools!IsPrime(n) <=> n > 1 /\ \A d \in 2..(n - 1) : n % d # 0
<1>1. CASE n < 2
  BY <1>1 DEF Pools!IsPrime
<1>2. CASE n >= 2
  <2>1. ASSUME \A i_1 \in 2..n : i_1 * i_1 <= n => n % i_1 # 0, NEW d \in 2..(n - 1), n % d = 0
        PROVE  FALSE
    <3>1. n \in Nat /\ d \in Nat /\ d >= 2 /\ d < n /\ d \in 2..n
      BY <1>2
    <3>2. PICK q \in Nat : n = d * q
      BY <2>1, <3>1, Divides
    <3>3. q >= 2
      BY <3>1, <3>2
    <3>4. q \in 2..n
      <4>1. q = 1 * q /\ 1 * q <= d * q
        BY <3>1, Products
      <4> QED
        BY <3>2, <3>3, <4>1
    <3>5. d * d > n
      <4>1. d * d \in Nat
        BY <3>1
      <4> QED
        BY <2>1, <3>1, <4>1
    <3>6. q < d
      <4> SUFFICES ASSUME d <= q PROVE FALSE
        BY <3>1
      <4>1. d * d <= q * d /\ q * d = d * q
        BY <3>1, Products
      <4> QED
        BY <3>1, <3>2, <3>5, <4>1
    <3>7. q * q <= n
      <4>1. q * q <= d * q
        BY <3>1, <3>6, Products
      <4> QED
        BY <3>2, <4>1
    <3>8. n % q = 0
      <4>1. n = q * d /\ q > 0
        BY <3>1, <3>2, <3>3, Products
      <4> QED
        BY <3>1, <4>1, Divides
    <3> QED
      BY <2>1, <3>4, <3>7, <3>8
  <2>2. ASSUME \A d \in 2..(n - 1) : n % d # 0, NEW k \in 2..n, k * k <= n PROVE n % k # 0
    <3>1. k # n
      <4> SUFFICES ASSUME k = n PROVE FALSE
        OBVIOUS
      <4>1. n \in Nat /\ 1 < n /\ 1 * n < n * n
        BY <1>2, Products
      <4> QED
        BY <2>2, <4>1
    <3> QED
      BY <2>2, <3>1, SMTT(30)
  <2>3. Pools!IsPrime(n) <=> \A k \in 2..n : k * k <= n => n % k # 0
    BY <1>2 DEF Pools!IsPrime
  <2>4. n > 1
    BY <1>2
  <2> QED
    BY <2>1, <2>2, <2>3, <2>4
<1> QED
  BY <1>1, <1>2

\* What is assumed of the pools' constants: there is a worker, and no range ends
\* before it could be empty.
PoolsAsUsed ==
    /\ NUM_THREAD \in Nat /\ NUM_THREAD > 0
    /\ \A r \in Ranges : r \in [start : Int, end : Int] /\ r.start <= r.end + 1

\* Where the part of worker k begins, and the one before it ends.
Share == (range.end - range.start + 1) \div NUM_THREAD
Bound(k) == IF k = NUM_THREAD THEN range.end + 1 ELSE range.start + Share * k

\* The parts of the workers follow each other from the range's start to its end.
LEMMA Parts ==
    ASSUME PoolsAsUsed, range \in Ranges
    PROVE  /\ \A k \in 0..NUM_THREAD : Bound(k) \in Int /\ range.start <= Bound(k)
           /\ Bound(0) = range.start /\ Bound(NUM_THREAD) = range.end + 1
           /\ \A t \in Pools!Worker :
                 /\ t \in 0..NUM_THREAD /\ t + 1 \in 0..NUM_THREAD
                 /\ Bound(t) <= Bound(t + 1)
                 /\ Pools!Split(t) = Bound(t)..(Bound(t + 1) - 1)
<1> DEFINE N == NUM_THREAD
           a == range.start
           n == range.end - range.start + 1
           b == range.end
<1>1. N \in Nat /\ N > 0 /\ a \in Int /\ b \in Int /\ n \in Nat /\ n = b - a + 1
  <2>1. range.start \in Int /\ range.end \in Int /\ range.start <= range.end + 1
    BY DEF PoolsAsUsed
  <2> QED
    BY <2>1 DEF PoolsAsUsed
<1>2. Share \in Nat /\ N * Share <= n
  <2> DEFINE x == n \div N
             r == n % N
  <2>1. n = N * x + r /\ x \in Nat /\ r \in 0..N - 1
    BY <1>1, SMTT(30)
  <2>2. Share = x
    BY DEF Share
  <2> HIDE DEF n, N, x, r
  <2> QED
    BY <1>1, <2>1, <2>2
<1>3. \A k \in 0..N : Bound(k) = IF k = N THEN b + 1 ELSE a + Share * k
  BY DEF Bound
<1>4. \A t \in Pools!Worker : /\ t \in Nat /\ t + 1 <= N /\ t # N /\ t \in 0..N /\ t + 1 \in 0..N
                              /\ (t = N - 1 <=> t + 1 = N)
  BY <1>1 DEF Pools!Worker
<1>5. \A t \in Pools!Worker : Pools!Split(t) = Bound(t)..(Bound(t + 1) - 1)
  <2> SUFFICES ASSUME NEW t \in Pools!Worker PROVE Pools!Split(t) = Bound(t)..(Bound(t + 1) - 1)
    OBVIOUS
  <2>1. Bound(t) = a + Share * t
    BY <1>3, <1>4
  <2>2. Bound(t + 1) = IF t = N - 1 THEN b + 1 ELSE a + Share * (t + 1)
    BY <1>3, <1>4
  <2>3. Pools!Split(t) = (a + Share * t)..((IF t = N - 1 THEN b + 1 ELSE a + Share * (t + 1)) - 1)
    BY DEF Pools!Split, Share
  <2> QED
    BY <2>1, <2>2, <2>3
<1> HIDE DEF N, a, b, n
<1>6. \A k \in Nat : k <= N => Share * k \in Nat /\ Share * k <= n
  <2> SUFFICES ASSUME NEW k \in Nat, k <= N PROVE Share * k \in Nat /\ Share * k <= n
    OBVIOUS
  <2>1. k * Share <= N * Share /\ k * Share = Share * k /\ k * Share \in Nat
    BY <1>1, <1>2, Products
  <2> QED
    BY <1>1, <1>2, <2>1
<1>7. \A k \in 0..N : Bound(k) \in Int /\ a <= Bound(k)
  <2> SUFFICES ASSUME NEW k \in 0..N PROVE Bound(k) \in Int /\ a <= Bound(k)
    OBVIOUS
  <2>1. k \in Nat /\ k <= N /\ Share * k \in Nat
    BY <1>1, <1>6
  <2> QED
    BY <1>1, <1>3, <2>1
<1>8. Bound(0) = a /\ Bound(N) = b + 1
  <2>1. 0 \in 0..N /\ N \in 0..N /\ 0 # N /\ Share * 0 = 0
    BY <1>1, <1>2
  <2> QED
    BY <1>1, <1>3, <2>1
<1>9. \A t \in Pools!Worker : Bound(t) <= Bound(t + 1)
  <2> SUFFICES ASSUME NEW t \in Pools!Worker PROVE Bound(t) <= Bound(t + 1)
    OBVIOUS
  <2>1. /\ t \in Nat /\ t + 1 <= N /\ Share * t \in Nat /\ Share * t <= n
        /\ Bound(t) = a + Share * t
    BY <1>1, <1>3, <1>4, <1>6
  <2>2. CASE t + 1 = N
    <3>1. Bound(t + 1) = b + 1
      BY <1>8, <2>2
    <3> QED
      BY <1>1, <2>1, <3>1
  <2>3. CASE t + 1 # N
    <3>1. Bound(t + 1) = a + Share * (t + 1)
      BY <1>3, <1>4, <2>3
    <3>2. Share * (t + 1) = Share * t + Share
      BY <1>2, <2>1
    <3> QED
      BY <1>1, <1>2, <2>1, <3>1, <3>2
  <2> QED
    BY <2>2, <2>3
<1> QED
  BY <1>4, <1>5, <1>7, <1>8, <1>9 DEF N, a, b

\* A sum that adds what each worker has returned is that of main.
LEMMA SumIs ==
    ASSUME NUM_THREAD \in Nat, NEW C,
           C = [n \in 0..NUM_THREAD |-> IF n = 0 THEN 0 ELSE C[n - 1] + thread_ret[n - 1]]
    PROVE  Pools!Sum = C[NUM_THREAD]
<1> DEFINE IsIt(f) == f = [n \in 0..NUM_THREAD |-> IF n = 0 THEN 0 ELSE f[n - 1] + thread_ret[n - 1]]
           sum == CHOOSE f : IsIt(f)
<1>1. Pools!Sum = sum[NUM_THREAD]
  BY Zenon DEF Pools!Sum
<1>2. IsIt(C)
  OBVIOUS
<1>3. IsIt(sum)
  BY <1>2, Zenon
<1> HIDE DEF sum
<1>4. \A f : IsIt(f) => \A n \in 0..NUM_THREAD : f[n] = IF n = 0 THEN 0 ELSE f[n - 1] + thread_ret[n - 1]
  <2> SUFFICES ASSUME NEW f, IsIt(f), NEW n \in 0..NUM_THREAD
               PROVE  f[n] = IF n = 0 THEN 0 ELSE f[n - 1] + thread_ret[n - 1]
    OBVIOUS
  <2>1. f[n] = [m \in 0..NUM_THREAD |-> IF m = 0 THEN 0 ELSE f[m - 1] + thread_ret[m - 1]][n]
    BY Zenon
  <2> QED
    BY <2>1, Zenon
<1>5. /\ \A n \in 0..NUM_THREAD : C[n] = IF n = 0 THEN 0 ELSE C[n - 1] + thread_ret[n - 1]
      /\ \A n \in 0..NUM_THREAD : sum[n] = IF n = 0 THEN 0 ELSE sum[n - 1] + thread_ret[n - 1]
  BY <1>2, <1>3, <1>4, Zenon
<1> HIDE DEF IsIt
<1> DEFINE D == {n \in 0..NUM_THREAD : sum[n] # C[n]}
           R == {p \in Nat \X Nat : p[1] < p[2]}
<1>6. D = {}
  <2> SUFFICES ASSUME D # {} PROVE FALSE
    OBVIOUS
  <2>1. IsWellFoundedOn(R, Nat)
    BY NatLessThanWellFounded DEF OpToRel
  <2>2. D \subseteq Nat
    OBVIOUS
  <2>3. PICK d \in D : \A e \in D : <<e, d>> \notin R
    <3> HIDE DEF R, D
    <3> QED
      BY <2>1, <2>2, WFMin
  <2>4. d \in 0..NUM_THREAD /\ sum[d] # C[d]
    OBVIOUS
  <2>5. d # 0
    BY <1>5, <2>4
  <2>6. d - 1 \in 0..NUM_THREAD /\ <<d - 1, d>> \in R
    BY <2>4, <2>5
  <2>7. sum[d - 1] = C[d - 1]
    BY <2>3, <2>6
  <2> QED
    BY <1>5, <2>4, <2>5, <2>7
<1>7. NUM_THREAD \in 0..NUM_THREAD
  OBVIOUS
<1> QED
  BY <1>1, <1>6, <1>7

\* The number of primes in the part of worker t, and in the whole range.
Right(t) == Cardinality({n \in Pools!Split(t) : Pools!IsPrime(n)})
Target == Cardinality({n \in range.start..range.end :
                           n > 1 /\ \A d \in 2..(n - 1) : n % d # 0})

\* The right numbers for all parts add up to the number of primes in the range.
LEMMA AllParts ==
    ASSUME PoolsAsUsed, range \in Ranges, \A t \in Pools!Worker : thread_ret[t] = Right(t)
    PROVE  Pools!Sum = Target
<1> DEFINE N == NUM_THREAD
           a == range.start
           Upto(k) == {n \in a..(Bound(k) - 1) : Pools!IsPrime(n)}
           C == [k \in 0..N |-> Cardinality(Upto(k))]
<1>1. N \in Nat /\ N > 0 /\ a \in Int /\ range.end \in Int
  BY DEF PoolsAsUsed
<1>2. \A k \in 0..N : k # 0 => k - 1 \in Pools!Worker /\ k = (k - 1) + 1 /\ k - 1 \in 0..N
  BY <1>1 DEF Pools!Worker
<1>3. Upto(0) = {}
  <2>1. Bound(0) = a
    BY Parts
  <2> QED
    BY <1>1, <2>1
<1>4. ASSUME NEW t \in Pools!Worker
      PROVE  /\ Upto(t + 1) = Upto(t) \cup {n \in Pools!Split(t) : Pools!IsPrime(n)}
             /\ Upto(t) \cap {n \in Pools!Split(t) : Pools!IsPrime(n)} = {}
  <2>1. /\ Bound(t) \in Int /\ Bound(t + 1) \in Int /\ a <= Bound(t) /\ Bound(t) <= Bound(t + 1)
        /\ Pools!Split(t) = Bound(t)..(Bound(t + 1) - 1)
    BY Parts
  <2>2. /\ a..(Bound(t + 1) - 1) = (a..(Bound(t) - 1)) \cup (Bound(t)..(Bound(t + 1) - 1))
        /\ (a..(Bound(t) - 1)) \cap (Bound(t)..(Bound(t + 1) - 1)) = {}
    BY <1>1, <2>1
  <2> QED
    BY <2>1, <2>2
<1>5. \A k \in 0..N : IsFiniteSet(Upto(k))
  <2> SUFFICES ASSUME NEW k \in 0..N PROVE IsFiniteSet(Upto(k))
    OBVIOUS
  <2>1. Bound(k) - 1 \in Int
    <3>1. Bound(k) \in Int
      BY Parts
    <3> QED
      BY <3>1
  <2>2. IsFiniteSet(a..(Bound(k) - 1))
    BY <1>1, <2>1, FS_Interval
  <2>3. Upto(k) \in SUBSET (a..(Bound(k) - 1))
    OBVIOUS
  <2> HIDE DEF Upto, a
  <2> QED
    BY <2>2, <2>3, FS_Subset
<1>6. ASSUME NEW t \in Pools!Worker
      PROVE  Cardinality(Upto(t + 1)) = Cardinality(Upto(t)) + thread_ret[t]
  <2> DEFINE P == {n \in Pools!Split(t) : Pools!IsPrime(n)}
             U == Upto(t)
             V == Upto(t + 1)
  <2>1. t \in 0..N /\ t + 1 \in 0..N
    BY Parts
  <2>2. V = U \cup P /\ U \cap P = {} /\ IsFiniteSet(V) /\ IsFiniteSet(U)
    <3>1. V = U \cup P /\ U \cap P = {}
      BY <1>4
    <3>2. IsFiniteSet(V) /\ IsFiniteSet(U)
      BY <1>5, <2>1
    <3> QED
      BY <3>1, <3>2
  <2>3. thread_ret[t] = Cardinality(P)
    BY DEF Right
  <2> HIDE DEF P, U, V
  <2>4. IsFiniteSet(P)
    BY <2>2, FS_Subset
  <2>5. Cardinality(V) = Cardinality(U) + Cardinality(P) - Cardinality({})
    BY <2>2, <2>4, FS_Union
  <2>6. Cardinality({}) = 0 /\ Cardinality(U) \in Nat /\ Cardinality(P) \in Nat
    BY <2>2, <2>4, FS_EmptySet, FS_CardinalityType
  <2>7. Cardinality(V) = Cardinality(U) + thread_ret[t]
    BY <2>3, <2>5, <2>6
  <2> QED
    BY <2>7 DEF U, V
<1>7. \A k \in 0..N : C[k] = IF k = 0 THEN 0 ELSE C[k - 1] + thread_ret[k - 1]
  <2> SUFFICES ASSUME NEW k \in 0..N
               PROVE  C[k] = IF k = 0 THEN 0 ELSE C[k - 1] + thread_ret[k - 1]
    OBVIOUS
  <2> HIDE DEF Upto
  <2>1. C[k] = Cardinality(Upto(k))
    OBVIOUS
  <2>2. CASE k = 0
    BY <1>3, <2>1, <2>2, FS_EmptySet
  <2>3. CASE k # 0
    <3> DEFINE t == k - 1
    <3>1. t \in Pools!Worker /\ k = t + 1 /\ t \in 0..N
      BY <1>2, <2>3
    <3>2. C[t] = Cardinality(Upto(t))
      BY <3>1
    <3>3. Cardinality(Upto(t + 1)) = Cardinality(Upto(t)) + thread_ret[t]
      BY <1>6, <3>1
    <3>4. C[k] = C[t] + thread_ret[t]
      BY <2>1, <3>1, <3>2, <3>3, Zenon
    <3> QED
      BY <2>3, <3>4, Zenon
  <2> QED
    BY <2>2, <2>3
<1>8. C = [k \in 0..N |-> IF k = 0 THEN 0 ELSE C[k - 1] + thread_ret[k - 1]]
  <2>1. C = [k \in 0..N |-> C[k]]
    BY Zenon
  <2> HIDE DEF C
  <2> QED
    BY <1>7, <2>1, Zenon
<1>9. C[N] = Cardinality(Upto(N))
  <2>1. N \in 0..N
    BY <1>1
  <2> HIDE DEF Upto
  <2> QED
    BY <2>1
<1>10. Pools!Sum = C[N]
  <2> HIDE DEF C
  <2> QED
    BY <1>1, <1>8, SumIs
<1>11. Upto(N) = {n \in a..range.end : n > 1 /\ \A d \in 2..(n - 1) : n % d # 0}
  <2>1. Bound(N) - 1 = range.end
    <3>1. Bound(N) = range.end + 1
      BY Parts
    <3> QED
      BY <1>1, <3>1
  <2>2. \A n \in a..range.end :
           Pools!IsPrime(n) <=> n > 1 /\ \A d \in 2..(n - 1) : n % d # 0
    <3> SUFFICES ASSUME NEW n \in a..range.end
                 PROVE  Pools!IsPrime(n) <=> n > 1 /\ \A d \in 2..(n - 1) : n % d # 0
      OBVIOUS
    <3>1. n \in Int
      BY <1>1
    <3> QED
      BY <3>1, TrialDivision
  <2> QED
    BY <2>1, <2>2
<1> QED
  BY <1>9, <1>10, <1>11 DEF Target

-----------------------------------------------------------------------------
(* lab04, lab05: the rounds                                                *)

WorkerState == {"none", "start", "fall asleep", "asleep", "woken", "loop", "count",
                "report", "increment", "signal", "returned"}
MainState == {"create", "await", "input", "reset", "broadcast", "wait", "asleep",
              "collect", "join", "end"}

PoolTypeOK ==
    /\ DOMAIN thread_ret = Pools!Worker /\ DOMAIN part = Pools!Worker
    /\ range \in [start : Int, end : Int] /\ rounds \in Nat
    /\ done \in Int /\ is_done \in BOOLEAN /\ disturbed \in BOOLEAN
    /\ pcMain \in MainState /\ tid \in Pools!Worker
    /\ poolPc \in [Pools!Worker -> WorkerState]
    /\ finish_order \in [Pools!Worker -> Int]

\* One worker at a time holds mtx_for_workers.
OneInside ==
    \A t, u \in Pools!Worker :
        /\ poolPc[t] \in {"fall asleep", "increment", "signal"}
        /\ poolPc[u] \in {"fall asleep", "increment", "signal"}
        => t = u

\* Where main and the workers of each program can be.
StatesOK ==
    /\ program = "create" =>
          /\ pcMain \in {"create", "input", "join", "collect", "end"}
          /\ \A t \in Pools!Worker : poolPc[t] \in {"none", "start", "count", "returned"}
    /\ program = "spin" =>
          \A t \in Pools!Worker : poolPc[t] \notin {"report", "increment", "signal"}
    /\ is_done => program # "create" /\ pcMain \in {"broadcast", "join", "end"}
    /\ program # "create" =>
          /\ pcMain \in {"create", "await"} => rounds = 0
          /\ pcMain = "join" => is_done
    /\ pcMain \in {"reset", "broadcast", "wait", "asleep", "collect"} /\ ~is_done => range \in Ranges
    /\ program = "create" /\ pcMain \in {"create", "join"} => range \in Ranges

\* "create": the threads up to tid are new, or joined.
Started(t) ==
    \/ poolPc[t] = "start"
    \/ poolPc[t] = "count" /\ part[t] = Pools!Split(t)
    \/ poolPc[t] = "returned" /\ thread_ret[t] = Right(t)
CreateOK ==
    /\ pcMain \in {"input", "collect"} => tid = 0
    /\ pcMain = "input" => \A t \in Pools!Worker : poolPc[t] \in {"none", "returned"}
    /\ pcMain = "create" =>
          \A t \in Pools!Worker : IF t < tid THEN Started(t) ELSE poolPc[t] \in {"none", "returned"}
    /\ pcMain = "join" =>
          \A t \in Pools!Worker : Started(t) /\ (t < tid => poolPc[t] = "returned")
    /\ pcMain = "collect" =>
          \A t \in Pools!Worker : poolPc[t] = "returned" /\ thread_ret[t] = Right(t)

\* The pools: the workers that have counted have the right result; with
\* "signal", done is the number of those that have reported it.
Counting(t) ==
    \/ poolPc[t] \in {"woken", "loop"} /\ thread_ret[t] = -1
    \/ poolPc[t] = "count" /\ thread_ret[t] = -1 /\ part[t] = Pools!Split(t)
    \/ poolPc[t] \in {"report", "increment", "signal", "fall asleep", "asleep"}
          /\ thread_ret[t] = Right(t)
Reported == {t \in Pools!Worker : poolPc[t] \in {"signal", "fall asleep", "asleep"}}
DoneOK ==
    /\ done = Cardinality(Reported)
    /\ \A t \in Pools!Worker : poolPc[t] = "increment" => finish_order[t] = done
    /\ \A t \in Pools!Worker : poolPc[t] = "signal" => done = NUM_THREAD
RoundOK ==
    /\ pcMain = "broadcast" /\ ~is_done =>
          done = 0 /\ \A t \in Pools!Worker : Pools!AtRest(t) /\ thread_ret[t] = -1
    /\ pcMain \in {"wait", "asleep"} =>
          (\A t \in Pools!Worker : Counting(t)) /\ (program = "signal" => DoneOK)
    /\ pcMain = "collect" =>
          \A t \in Pools!Worker : Pools!AtRest(t) /\ thread_ret[t] = Right(t)

PrintedOK == pcMain = "input" /\ rounds > 0 => printed = Target

PoolInv ==
    /\ PoolTypeOK /\ OneInside /\ StatesOK
    /\ ~disturbed => PrintedOK /\ IF program = "create" THEN CreateOK ELSE RoundOK

\* The next worker in a loop over them.
LEMMA NextTid ==
    ASSUME PoolsAsUsed, tid \in Pools!Worker
    PROVE  /\ tid \in Int /\ 0 \in Pools!Worker /\ NUM_THREAD - 1 \in Pools!Worker
           /\ (tid + 1) % NUM_THREAD \in Pools!Worker
           /\ tid = NUM_THREAD - 1 => (tid + 1) % NUM_THREAD = 0
           /\ tid # NUM_THREAD - 1 => (tid + 1) % NUM_THREAD = tid + 1
           /\ \A t \in Pools!Worker : t \in Nat /\ t <= NUM_THREAD - 1
<1>1. NUM_THREAD \in Nat /\ NUM_THREAD > 0 /\ tid \in Nat /\ tid <= NUM_THREAD - 1
  BY DEF PoolsAsUsed, Pools!Worker
<1>2. CASE tid = NUM_THREAD - 1
  <2>1. tid + 1 = NUM_THREAD * 1 /\ tid + 1 \in Nat
    BY <1>1, <1>2
  <2>2. (tid + 1) % NUM_THREAD = 0
    BY <1>1, <2>1, Divides
  <2> QED
    BY <1>1, <1>2, <2>2 DEF Pools!Worker
<1>3. CASE tid # NUM_THREAD - 1
  <2> DEFINE x == (tid + 1) \div NUM_THREAD
             r == (tid + 1) % NUM_THREAD
  <2>1. tid + 1 = NUM_THREAD * x + r /\ x \in Nat /\ r \in 0..NUM_THREAD - 1
    BY <1>1
  <2> HIDE DEF x, r
  <2>2. tid + 1 \in 0..NUM_THREAD - 1 /\ NUM_THREAD * 0 + (tid + 1) = NUM_THREAD * x + r
    BY <1>1, <1>3, <2>1
  <2>3. tid + 1 = r
    BY <1>1, <2>1, <2>2, Remainders
  <2> QED
    BY <1>1, <1>3, <2>2, <2>3 DEF Pools!Worker, r
<1> QED
  BY <1>2, <1>3

\* Types.
LEMMA PoolTypeStep ==
    ASSUME PoolsAsUsed, PoolTypeOK, program \in Pools!Program, Pools!Next
    PROVE  PoolTypeOK'
<1>0. (tid + 1) % NUM_THREAD \in Pools!Worker
  BY NextTid DEF PoolTypeOK
<1>1. ASSUME NEW t \in Pools!Worker, Pools!ThreadFunc(t) PROVE PoolTypeOK'
  <2>1. ASSUME NEW l \in WorkerState, Pools!goto(t, l)
        PROVE  poolPc' \in [Pools!Worker -> WorkerState]
    BY <2>1 DEF PoolTypeOK, Pools!goto
  <2>2. CASE Pools!Start(t) \/ Pools!FallAsleep(t) \/ Pools!Wake(t) \/ Pools!TakePart(t) \/ Pools!Return(t)
    <3>1. poolPc' \in [Pools!Worker -> WorkerState]
      BY <2>1, <2>2 DEF Pools!Start, Pools!FallAsleep, Pools!Wake, Pools!TakePart, Pools!Return, WorkerState
    <3> QED
      BY <2>2, <3>1 DEF PoolTypeOK, Pools!Start, Pools!FallAsleep, Pools!Wake, Pools!TakePart,
                        Pools!Return, Pools!main, Pools!env
  <2>3. CASE Pools!Count(t)
    <3>1. poolPc' \in [Pools!Worker -> WorkerState]
      <4>1. PICK l \in {"returned", "fall asleep", "report"} : Pools!goto(t, l)
        BY <2>3 DEF Pools!Count, Pools!Program
      <4> QED
        BY <2>1, <4>1 DEF WorkerState
    <3> QED
      BY <2>3, <3>1 DEF PoolTypeOK, Pools!Count, Pools!main, Pools!env
  <2>4. CASE Pools!Report(t)
    <3>1. poolPc' \in [Pools!Worker -> WorkerState]
      BY <2>1, <2>4 DEF Pools!Report, WorkerState
    <3> QED
      BY <2>4, <3>1 DEF PoolTypeOK, Pools!Report, Pools!main, Pools!env
  <2>5. CASE Pools!Increment(t)
    <3>1. poolPc' \in [Pools!Worker -> WorkerState]
      <4>1. PICK l \in {"signal", "fall asleep"} : Pools!goto(t, l)
        BY <2>5 DEF Pools!Increment
      <4> QED
        BY <2>1, <4>1 DEF WorkerState
    <3>2. done' \in Int
      <4>1. done' = finish_order[t] + 1 /\ finish_order[t] \in Int
        BY <2>5 DEF PoolTypeOK, Pools!Increment
      <4> QED
        BY <4>1
    <3> QED
      BY <2>5, <3>1, <3>2 DEF PoolTypeOK, Pools!Increment, Pools!main, Pools!env
  <2>6. CASE Pools!Signal(t)
    <3>1. poolPc' \in [Pools!Worker -> WorkerState]
      BY <2>1, <2>6 DEF Pools!Signal, WorkerState
    <3> QED
      BY <2>6, <3>1 DEF PoolTypeOK, Pools!Signal, Pools!env, MainState
  <2> QED
    BY <1>1, <2>2, <2>3, <2>4, <2>5, <2>6 DEF Pools!ThreadFunc
<1>2. ASSUME NEW t \in Pools!Worker, Pools!WakeSpuriously(t) PROVE PoolTypeOK'
  BY <1>2 DEF PoolTypeOK, Pools!WakeSpuriously, Pools!goto, Pools!main, WorkerState
<1>3. CASE Pools!WakeMainSpuriously
  BY <1>3 DEF PoolTypeOK, Pools!WakeMainSpuriously, Pools!worker, MainState
<1>4. CASE Pools!Poll \/ Pools!Ended
  BY <1>4 DEF PoolTypeOK, Pools!Poll, Pools!Ended, Pools!vars, Pools!main, Pools!worker, Pools!env
<1>5. CASE Pools!Create \/ Pools!AwaitStart \/ Pools!Join
  <2>1. tid' \in Pools!Worker /\ pcMain' \in MainState
    BY <1>0, <1>5 DEF PoolTypeOK, Pools!Create, Pools!AwaitStart, Pools!Join, Pools!loop, MainState
  <2>2. poolPc' \in [Pools!Worker -> WorkerState]
    BY <1>5 DEF PoolTypeOK, Pools!Create, Pools!AwaitStart, Pools!Join, Pools!worker, WorkerState
  <2> QED
    BY <1>5, <2>1, <2>2 DEF PoolTypeOK, Pools!Create, Pools!AwaitStart, Pools!Join, Pools!worker, Pools!env
<1>6. CASE Pools!Input
  <2>1. range' \in [start : Int, end : Int] /\ rounds' \in Nat
    BY <1>6 DEF Pools!Input, PoolsAsUsed, PoolTypeOK
  <2> QED
    BY <1>6, <2>1 DEF PoolTypeOK, Pools!Input, Pools!worker, Pools!env, MainState
<1>7. CASE Pools!Quit
  <2>1. range' \in [start : Int, end : Int] /\ rounds' \in Nat
    BY <1>7 DEF Pools!Quit, PoolTypeOK
  <2> QED
    BY <1>7, <2>1 DEF PoolTypeOK, Pools!Quit, Pools!worker, Pools!env, MainState
<1>8. CASE Pools!Reset
  BY <1>8 DEF PoolTypeOK, Pools!Reset, Pools!worker, MainState
<1>9. CASE Pools!Broadcast
  <2>1. poolPc' \in [Pools!Worker -> WorkerState]
    BY <1>9 DEF PoolTypeOK, Pools!Broadcast, WorkerState
  <2> QED
    BY <1>9, <2>1 DEF PoolTypeOK, Pools!Broadcast, Pools!env, MainState
<1>10. CASE Pools!AwaitResults \/ Pools!AwaitSignal \/ Pools!Collect
  BY <1>10 DEF PoolTypeOK, Pools!AwaitResults, Pools!AwaitSignal, Pools!Collect, Pools!worker,
               Pools!env, MainState
<1> QED
  BY <1>1, <1>2, <1>3, <1>4, <1>5, <1>6, <1>7, <1>8, <1>9, <1>10 DEF Pools!Next, Pools!mainStep

\* What a step of a worker leaves alone.
LEMMA WorkerLeaves ==
    ASSUME PoolTypeOK, NEW t \in Pools!Worker, Pools!ThreadFunc(t)
    PROVE  /\ UNCHANGED <<program, range, rounds, is_done, printed, tid, disturbed>>
           /\ \A u \in Pools!Worker \ {t} :
                 /\ poolPc'[u] = poolPc[u] /\ thread_ret'[u] = thread_ret[u]
                 /\ part'[u] = part[u] /\ finish_order'[u] = finish_order[u]
           /\ pcMain' = pcMain \/ Pools!Signal(t)
           /\ done' = done \/ Pools!Increment(t)
<1>1. CASE Pools!Start(t) \/ Pools!FallAsleep(t) \/ Pools!Wake(t) \/ Pools!TakePart(t)
  BY <1>1 DEF PoolTypeOK, Pools!Start, Pools!FallAsleep, Pools!Wake, Pools!TakePart,
              Pools!goto, Pools!main, Pools!env
<1>2. CASE Pools!Return(t) \/ Pools!Report(t) \/ Pools!Increment(t) \/ Pools!Signal(t)
  BY <1>2 DEF PoolTypeOK, Pools!Return, Pools!Report, Pools!Increment, Pools!Signal,
              Pools!goto, Pools!main, Pools!env
<1>3. CASE Pools!Count(t)
  <2>1. /\ UNCHANGED <<program, done, is_done, pcMain, tid, range, printed, rounds,
                       part, finish_order, disturbed>>
        /\ thread_ret' = [thread_ret EXCEPT ![t] = Right(t)'] \/ thread_ret' = thread_ret'
    BY <1>3 DEF Pools!Count, Pools!main, Pools!env
  <2>2. \A u \in Pools!Worker \ {t} : poolPc'[u] = poolPc[u]
    BY <1>3 DEF PoolTypeOK, Pools!Count, Pools!goto
  <2>3. \A u \in Pools!Worker \ {t} : thread_ret'[u] = thread_ret[u]
    BY <1>3 DEF PoolTypeOK, Pools!Count
  <2> QED
    BY <2>1, <2>2, <2>3
<1> QED
  BY <1>1, <1>2, <1>3 DEF Pools!ThreadFunc

\* The mutex of the workers.
LEMMA OneInsideStep ==
    ASSUME PoolTypeOK, OneInside, program \in Pools!Program, Pools!Next
    PROVE  OneInside'
<1> DEFINE Inside(l) == l \in {"fall asleep", "increment", "signal"}
<1>1. ASSUME NEW t \in Pools!Worker, Pools!ThreadFunc(t) PROVE OneInside'
  <2>1. \A u \in Pools!Worker \ {t} : poolPc'[u] = poolPc[u]
    BY <1>1, WorkerLeaves
  <2>2. Inside(poolPc'[t]) => Inside(poolPc[t]) \/ ~Pools!locked
    <3>1. CASE Pools!Start(t) \/ Pools!Report(t)
      BY <3>1 DEF Pools!Start, Pools!Report
    <3>2. CASE Pools!FallAsleep(t) \/ Pools!Increment(t) \/ Pools!Signal(t)
      BY <3>2 DEF Pools!FallAsleep, Pools!Increment, Pools!Signal
    <3>3. CASE Pools!Wake(t) \/ Pools!TakePart(t) \/ Pools!Return(t)
      BY <3>3 DEF Pools!Wake, Pools!TakePart, Pools!Return, Pools!goto, PoolTypeOK
    <3>4. CASE Pools!Count(t)
      <4>1. CASE program = "spin"
        BY <3>4, <4>1 DEF Pools!Count
      <4>2. CASE program # "spin"
        <5>1. PICK l \in {"returned", "report"} : Pools!goto(t, l)
          BY <3>4, <4>2 DEF Pools!Count, Pools!Program
        <5>2. poolPc'[t] = l
          BY <5>1 DEF Pools!goto, PoolTypeOK
        <5> QED
          BY <5>2
      <4> QED
        BY <4>1, <4>2
    <3> QED
      BY <1>1, <3>1, <3>2, <3>3, <3>4 DEF Pools!ThreadFunc
  <2> QED
    BY <2>1, <2>2 DEF OneInside, Pools!locked, Pools!Worker
<1>2. ASSUME NEW t \in Pools!Worker, Pools!WakeSpuriously(t) PROVE OneInside'
  BY <1>2 DEF Pools!WakeSpuriously, Pools!goto, PoolTypeOK, OneInside, Pools!Worker
<1>3. CASE Pools!Create
  BY <1>3 DEF Pools!Create, PoolTypeOK, OneInside, Pools!Worker
<1>4. CASE Pools!Broadcast
  BY <1>4 DEF Pools!Broadcast, PoolTypeOK, OneInside, Pools!Worker
<1>5. CASE \/ Pools!AwaitStart \/ Pools!Input \/ Pools!Quit \/ Pools!Reset \/ Pools!AwaitResults
           \/ Pools!AwaitSignal \/ Pools!Collect \/ Pools!Join \/ Pools!Poll \/ Pools!Ended
           \/ Pools!WakeMainSpuriously
  <2>1. poolPc' = poolPc
    BY <1>5 DEF Pools!AwaitStart, Pools!Input, Pools!Quit, Pools!Reset, Pools!AwaitResults,
                Pools!AwaitSignal, Pools!Collect, Pools!Join, Pools!Poll, Pools!Ended, Pools!vars,
                Pools!WakeMainSpuriously, Pools!worker
  <2> QED
    BY <2>1 DEF OneInside, Pools!Worker
<1> QED
  BY <1>1, <1>2, <1>3, <1>4, <1>5 DEF Pools!Next, Pools!mainStep

\* Where main and the workers are.
LEMMA StatesStep ==
    ASSUME PoolsAsUsed, PoolTypeOK, StatesOK, program \in Pools!Program, Pools!Next
    PROVE  StatesOK'
<1>0. (tid + 1) % NUM_THREAD \in Pools!Worker
  BY NextTid DEF PoolTypeOK
<1>1. ASSUME NEW t \in Pools!Worker, Pools!ThreadFunc(t) PROVE StatesOK'
  <2>1. /\ UNCHANGED <<program, range, rounds, is_done>>
        /\ \A u \in Pools!Worker \ {t} : poolPc'[u] = poolPc[u]
        /\ pcMain' = pcMain \/ Pools!Signal(t)
    BY <1>1, WorkerLeaves
  <2>2. /\ program = "create" => poolPc'[t] \in {"none", "start", "count", "returned"}
        /\ program = "spin" => poolPc'[t] \notin {"report", "increment", "signal"}
    <3>1. CASE Pools!Start(t) \/ Pools!FallAsleep(t) \/ Pools!Wake(t) \/ Pools!TakePart(t) \/ Pools!Return(t)
      BY <3>1 DEF Pools!Start, Pools!FallAsleep, Pools!Wake, Pools!TakePart, Pools!Return,
                  Pools!goto, PoolTypeOK, StatesOK
    <3>2. CASE Pools!Report(t) \/ Pools!Increment(t) \/ Pools!Signal(t)
      BY <3>2 DEF Pools!Report, Pools!Increment, Pools!Signal, StatesOK
    <3>3. CASE Pools!Count(t)
      <4>1. /\ program = "create" => Pools!goto(t, "returned")
            /\ program = "spin" => Pools!goto(t, "fall asleep")
        BY <3>3 DEF Pools!Count
      <4> QED
        BY <4>1 DEF Pools!goto, PoolTypeOK
    <3> QED
      BY <1>1, <3>1, <3>2, <3>3 DEF Pools!ThreadFunc
  <2>3. CASE pcMain' = pcMain
    BY <2>1, <2>2, <2>3 DEF StatesOK, Pools!Worker
  <2>4. CASE pcMain' # pcMain
    <3>1. program = "signal" /\ pcMain = "asleep" /\ pcMain' = "collect"
      BY <2>1, <2>4 DEF Pools!Signal, StatesOK, Pools!Program
    <3> QED
      BY <2>1, <2>2, <3>1 DEF StatesOK, Pools!Worker
  <2> QED
    BY <2>3, <2>4
<1>2. ASSUME NEW t \in Pools!Worker, Pools!WakeSpuriously(t) PROVE StatesOK'
  BY <1>2 DEF Pools!WakeSpuriously, Pools!goto, Pools!main, PoolTypeOK, StatesOK, Pools!Worker
<1>3. CASE Pools!Create
  BY <1>3 DEF Pools!Create, Pools!loop, PoolTypeOK, StatesOK, Pools!Worker
<1>4. CASE Pools!Broadcast
  BY <1>4 DEF Pools!Broadcast, PoolTypeOK, StatesOK, Pools!Worker
<1>5. CASE Pools!Reset
  BY <1>5 DEF Pools!Reset, Pools!worker, StatesOK, Pools!Worker
<1>10. CASE Pools!AwaitResults \/ Pools!AwaitSignal
  BY <1>10 DEF Pools!AwaitResults, Pools!AwaitSignal, Pools!worker, Pools!env, StatesOK, Pools!Worker
<1>11. CASE Pools!Collect
  BY <1>11 DEF Pools!Collect, Pools!worker, Pools!env, StatesOK, Pools!Worker
<1>12. CASE Pools!WakeMainSpuriously
  BY <1>12 DEF Pools!WakeMainSpuriously, Pools!worker, StatesOK, Pools!Worker
<1>6. CASE Pools!Input
  BY <1>6 DEF Pools!Input, Pools!worker, StatesOK, Pools!Worker
<1>7. CASE Pools!Quit
  BY <1>7 DEF Pools!Quit, Pools!worker, StatesOK, Pools!Worker
<1>8. CASE Pools!AwaitStart \/ Pools!Join
  BY <1>8 DEF Pools!AwaitStart, Pools!Join, Pools!loop, Pools!worker, StatesOK, Pools!Worker
<1>9. CASE Pools!Poll \/ Pools!Ended
  BY <1>9 DEF Pools!Poll, Pools!Ended, Pools!vars, Pools!main, Pools!worker, StatesOK, Pools!Worker
<1> QED
  BY <1>1, <1>2, <1>3, <1>4, <1>5, <1>6, <1>7, <1>8, <1>9, <1>10, <1>11, <1>12
     DEF Pools!Next, Pools!mainStep

\* A step that leaves the range alone leaves the parts and their right numbers.
LEMMA SameRange ==
    ASSUME range' = range
    PROVE  /\ Target' = Target
           /\ \A t \in Pools!Worker : Pools!Split(t)' = Pools!Split(t) /\ Right(t)' = Right(t)
  BY DEF Target, Right, Pools!Split, Pools!IsPrime, Pools!Worker

\* The pool counts its primes with the cardinality of this module.
LEMMA SameCardinality ==
    ASSUME NEW S
    PROVE  Pools!Cardinality(S) = Cardinality(S)
  BY Zenon DEF Pools!Cardinality, Cardinality

\* A worker that has counted stores the number of the primes in its part.
LEMMA CountResult ==
    ASSUME PoolTypeOK, NEW t \in Pools!Worker, Pools!Count(t)
    PROVE  thread_ret'[t] = Cardinality({n \in part[t] : Pools!IsPrime(n)})
<1>1. thread_ret' = [thread_ret EXCEPT ![t] = Cardinality({n \in part[t] : Pools!IsPrime(n)})]
  BY SameCardinality, Zenon DEF Pools!Count
<1>2. t \in DOMAIN thread_ret
  BY DEF PoolTypeOK
<1> QED
  BY <1>1, <1>2, Zenon

\* "create": the threads that are new, counting or joined.
LEMMA CreateStep ==
    ASSUME PoolsAsUsed, PoolTypeOK, StatesOK, CreateOK, program = "create", Pools!Next
    PROVE  CreateOK'
<1>0. /\ tid \in Int /\ 0 \in Pools!Worker /\ NUM_THREAD - 1 \in Pools!Worker
      /\ tid = NUM_THREAD - 1 => (tid + 1) % NUM_THREAD = 0
      /\ tid # NUM_THREAD - 1 => (tid + 1) % NUM_THREAD = tid + 1
      /\ \A t \in Pools!Worker : t \in Nat /\ t <= NUM_THREAD - 1
  BY NextTid DEF PoolTypeOK
<1>1. ASSUME NEW t \in Pools!Worker, Pools!ThreadFunc(t) PROVE CreateOK'
  <2>1. /\ UNCHANGED <<range, tid>>
        /\ \A u \in Pools!Worker \ {t} :
              poolPc'[u] = poolPc[u] /\ thread_ret'[u] = thread_ret[u] /\ part'[u] = part[u]
        /\ pcMain' = pcMain
    BY <1>1, WorkerLeaves DEF Pools!Signal, StatesOK
  <2>2. \A u \in Pools!Worker : Pools!Split(u)' = Pools!Split(u) /\ Right(u)' = Right(u)
    BY <2>1, SameRange
  <2>3. Pools!TakePart(t) \/ Pools!Count(t)
    BY <1>1 DEF StatesOK, Pools!ThreadFunc, Pools!Start, Pools!FallAsleep, Pools!Wake,
                Pools!Return, Pools!Report, Pools!Increment, Pools!Signal
  <2>4. poolPc[t] \in {"start", "count"} /\ (Started(t) => Started(t)')
    <3>1. CASE Pools!TakePart(t)
      <4>1. /\ poolPc[t] = "start"
            /\ poolPc'[t] = "count" /\ part'[t] = Pools!Split(t)
        BY <3>1 DEF StatesOK, Pools!TakePart, Pools!goto, PoolTypeOK
      <4> QED
        BY <2>2, <4>1 DEF Started
    <3>2. CASE Pools!Count(t)
      <4>1. /\ poolPc[t] = "count" /\ poolPc'[t] = "returned"
            /\ thread_ret'[t] = Cardinality({n \in part[t] : Pools!IsPrime(n)})
        <5>1. Pools!goto(t, "returned")
          BY <3>2 DEF Pools!Count
        <5>2. poolPc'[t] = "returned"
          BY <5>1 DEF Pools!goto, PoolTypeOK
        <5>3. poolPc[t] = "count" /\ thread_ret'[t] = Cardinality({n \in part[t] : Pools!IsPrime(n)})
          BY <3>2, CountResult DEF Pools!Count, PoolTypeOK
        <5> QED
          BY <5>2, <5>3
      <4>2. ASSUME Started(t) PROVE thread_ret'[t] = Right(t)
        BY <4>1, <4>2 DEF Started, Right
      <4> QED
        BY <2>2, <4>1, <4>2 DEF Started
    <3> QED
      BY <2>3, <3>1, <3>2
  <2>5. \A u \in Pools!Worker : Started(u) => Started(u)'
    <3> SUFFICES ASSUME NEW u \in Pools!Worker, Started(u) PROVE Started(u)'
      OBVIOUS
    <3>1. CASE u = t
      BY <2>4, <3>1
    <3>2. CASE u # t
      BY <2>1, <2>2, <3>2 DEF Started
    <3> QED
      BY <3>1, <3>2
  <2>6. Pools!Worker' = Pools!Worker
    BY DEF Pools!Worker
  <2>7. pcMain \in {"create", "join"} \/ pcMain = "end"
    BY <2>4 DEF CreateOK, StatesOK
  <2>8. CASE pcMain = "create"
    <3>1. \A u \in Pools!Worker : (IF u < tid THEN Started(u) ELSE poolPc[u] \in {"none", "returned"})
      BY <2>8 DEF CreateOK
    <3>2. \A u \in Pools!Worker : (IF u < tid' THEN Started(u)' ELSE poolPc'[u] \in {"none", "returned"})
      BY <2>1, <2>4, <2>5, <3>1
    <3> QED
      BY <2>1, <2>6, <2>8, <3>2 DEF CreateOK
  <2>9. CASE pcMain = "join"
    <3>1. \A u \in Pools!Worker : Started(u) /\ (u < tid => poolPc[u] = "returned")
      BY <2>9 DEF CreateOK
    <3>2. \A u \in Pools!Worker : Started(u)' /\ (u < tid' => poolPc'[u] = "returned")
      BY <2>1, <2>4, <2>5, <3>1
    <3> QED
      BY <2>1, <2>6, <2>9, <3>2 DEF CreateOK
  <2>10. CASE pcMain = "end"
    BY <2>1, <2>10 DEF CreateOK
  <2> QED
    BY <2>7, <2>8, <2>9, <2>10
<1>2. CASE Pools!Create
  <2>1. /\ pcMain = "create" /\ UNCHANGED <<range, thread_ret, part>>
        /\ tid' = (tid + 1) % NUM_THREAD
        /\ pcMain' = IF tid = NUM_THREAD - 1 THEN "join" ELSE "create"
        /\ poolPc'[tid] = "start"
        /\ \A u \in Pools!Worker \ {tid} : poolPc'[u] = poolPc[u]
    BY <1>2 DEF Pools!Create, Pools!loop, PoolTypeOK
  <2>2. \A u \in Pools!Worker : Pools!Split(u)' = Pools!Split(u) /\ Right(u)' = Right(u)
    BY <2>1, SameRange
  <2>3. \A u \in Pools!Worker : u < tid \/ u = tid => Started(u)'
    <3>1. \A u \in Pools!Worker : u < tid => Started(u)
      BY <2>1 DEF CreateOK
    <3>2. \A u \in Pools!Worker : u < tid => u # tid
      BY <1>0
    <3> QED
      BY <2>1, <2>2, <3>1, <3>2 DEF Started
  <2>4. \A u \in Pools!Worker : ~(u < tid) /\ u # tid => poolPc'[u] \in {"none", "returned"}
    BY <2>1 DEF CreateOK
  <2>5. Pools!Worker' = Pools!Worker
    BY DEF Pools!Worker
  <2>6. CASE tid = NUM_THREAD - 1
    <3>1. \A u \in Pools!Worker : (u < tid \/ u = tid) /\ ~(u < tid')
      BY <1>0, <2>1, <2>6
    <3>2. pcMain' = "join"
      BY <2>1, <2>6
    <3> QED
      BY <2>3, <2>5, <3>1, <3>2 DEF CreateOK
  <2>7. CASE tid # NUM_THREAD - 1
    <3>1. \A u \in Pools!Worker : u < tid' <=> u < tid \/ u = tid
      BY <1>0, <2>1, <2>7
    <3>2. pcMain' = "create"
      BY <2>1, <2>7
    <3> QED
      BY <2>3, <2>4, <2>5, <3>1, <3>2 DEF CreateOK
  <2> QED
    BY <2>6, <2>7
<1>3. CASE Pools!Join
  <2>1. /\ pcMain = "join" /\ UNCHANGED <<range, thread_ret, part, poolPc>>
        /\ poolPc[tid] = "returned"
        /\ tid' = (tid + 1) % NUM_THREAD
        /\ pcMain' = IF tid = NUM_THREAD - 1 THEN "collect" ELSE "join"
    BY <1>3 DEF Pools!Join, Pools!loop, Pools!worker
  <2>2. \A u \in Pools!Worker : Pools!Split(u)' = Pools!Split(u) /\ Right(u)' = Right(u)
    BY <2>1, SameRange
  <2>3. \A u \in Pools!Worker : Started(u)
    BY <2>1 DEF CreateOK
  <2>4. \A u \in Pools!Worker : Started(u)'
    BY <2>1, <2>2, <2>3 DEF Started
  <2>5. \A u \in Pools!Worker : u < tid \/ u = tid => poolPc[u] = "returned"
    BY <2>1 DEF CreateOK
  <2>6. Pools!Worker' = Pools!Worker
    BY DEF Pools!Worker
  <2>7. CASE tid = NUM_THREAD - 1
    <3>1. \A u \in Pools!Worker : u < tid \/ u = tid
      BY <1>0, <2>7
    <3>2. tid' = 0 /\ pcMain' = "collect"
      BY <1>0, <2>1, <2>7
    <3>3. \A u \in Pools!Worker : poolPc'[u] = "returned" /\ thread_ret'[u] = Right(u)'
      BY <2>1, <2>4, <2>5, <3>1 DEF Started
    <3> QED
      BY <2>6, <3>2, <3>3 DEF CreateOK
  <2>8. CASE tid # NUM_THREAD - 1
    <3>1. \A u \in Pools!Worker : u < tid' <=> u < tid \/ u = tid
      BY <1>0, <2>1, <2>8
    <3>2. pcMain' = "join"
      BY <2>1, <2>8
    <3> QED
      BY <2>1, <2>4, <2>5, <2>6, <3>1, <3>2 DEF CreateOK
  <2> QED
    BY <2>7, <2>8
<1>4. CASE Pools!Input
  <2>1. tid' = 0 /\ poolPc' = poolPc /\ pcMain' = "create"
        /\ \A u \in Pools!Worker : poolPc[u] \in {"none", "returned"}
    BY <1>4 DEF Pools!Input, Pools!worker, CreateOK
  <2>2. \A u \in Pools!Worker : ~(u < tid')
    BY <1>0, <2>1
  <2> QED
    BY <2>1, <2>2 DEF CreateOK, Pools!Worker
<1>5. CASE Pools!Quit
  BY <1>5 DEF Pools!Quit, CreateOK
<1>6. CASE Pools!Collect
  BY <1>6 DEF Pools!Collect, Pools!worker, CreateOK, Pools!Worker
<1>7. CASE Pools!Poll \/ Pools!Ended
  <2>1. UNCHANGED <<pcMain, tid, poolPc, thread_ret, part, range>>
    BY <1>7 DEF Pools!Poll, Pools!Ended, Pools!vars, Pools!main, Pools!worker
  <2>2. \A u \in Pools!Worker : Pools!Split(u)' = Pools!Split(u) /\ Right(u)' = Right(u)
    BY <2>1, SameRange
  <2>3. \A u \in Pools!Worker : Started(u)' <=> Started(u)
    BY <2>1, <2>2 DEF Started
  <2>4. Pools!Worker' = Pools!Worker
    BY DEF Pools!Worker
  <2> QED
    BY <2>1, <2>2, <2>3, <2>4 DEF CreateOK
<1>8. ~(\E t \in Pools!Worker : Pools!WakeSpuriously(t)) /\ ~Pools!WakeMainSpuriously
      /\ ~(Pools!AwaitStart \/ Pools!Reset \/ Pools!Broadcast \/ Pools!AwaitResults \/ Pools!AwaitSignal)
  BY DEF StatesOK, Pools!WakeSpuriously, Pools!WakeMainSpuriously, Pools!AwaitStart, Pools!Reset,
         Pools!Broadcast, Pools!AwaitResults, Pools!AwaitSignal
<1> QED
  BY <1>1, <1>2, <1>3, <1>4, <1>5, <1>6, <1>7, <1>8 DEF Pools!Next, Pools!mainStep

\* When as many workers have reported as there are, all have.
LEMMA Everyone ==
    ASSUME PoolsAsUsed, done = Cardinality(Reported), ~(done < NUM_THREAD)
    PROVE  Reported = Pools!Worker
<1>1. IsFiniteSet(Pools!Worker) /\ Cardinality(Pools!Worker) = NUM_THREAD
  <2>1. 0 \in Int /\ NUM_THREAD - 1 \in Int /\ 0 <= NUM_THREAD - 1 /\ (NUM_THREAD - 1) - 0 + 1 = NUM_THREAD
    BY DEF PoolsAsUsed
  <2>2. IsFiniteSet(0..(NUM_THREAD - 1)) /\ Cardinality(0..(NUM_THREAD - 1)) = (NUM_THREAD - 1) - 0 + 1
    BY <2>1, FS_Interval
  <2> QED
    BY <2>1, <2>2 DEF Pools!Worker
<1>2. Reported \subseteq Pools!Worker
  BY DEF Reported
<1> HIDE DEF Reported
<1>3. /\ Cardinality(Reported) <= Cardinality(Pools!Worker)
      /\ Cardinality(Reported) = Cardinality(Pools!Worker) => Reported = Pools!Worker
      /\ Cardinality(Reported) \in Nat
  BY <1>1, <1>2, FS_Subset, FS_CardinalityType
<1> QED
  BY <1>1, <1>3 DEF PoolsAsUsed

\* "spin" and "signal": a worker's step in a round.
LEMMA RoundWorker ==
    ASSUME PoolsAsUsed, PoolTypeOK, OneInside, StatesOK, RoundOK, program \in {"spin", "signal"},
           NEW t \in Pools!Worker, Pools!ThreadFunc(t)
    PROVE  RoundOK'
<1> DEFINE W == Pools!Worker
<1>1. /\ UNCHANGED <<program, range, is_done>>
      /\ \A u \in W \ {t} : /\ poolPc'[u] = poolPc[u] /\ thread_ret'[u] = thread_ret[u]
                            /\ part'[u] = part[u] /\ finish_order'[u] = finish_order[u]
      /\ pcMain' = pcMain \/ Pools!Signal(t)
      /\ done' = done \/ Pools!Increment(t)
  BY WorkerLeaves
<1>2. W' = W /\ \A u \in W : Pools!Split(u)' = Pools!Split(u) /\ Right(u)' = Right(u)
  BY <1>1, SameRange DEF Pools!Worker
<1>3. CASE pcMain \notin {"broadcast", "wait", "asleep", "collect"} \/ (pcMain = "broadcast" /\ is_done)
  <2>1. pcMain' = pcMain
    BY <1>1, <1>3 DEF Pools!Signal
  <2> QED
    BY <1>1, <1>3, <2>1 DEF RoundOK
<1>4. ASSUME Pools!AtRest(t)
      PROVE  /\ Pools!AtRest(t)' /\ thread_ret'[t] = thread_ret[t] /\ done' = done
             /\ poolPc[t] \in {"fall asleep", "signal"}
             /\ Pools!Signal(t) \/ (pcMain' = pcMain /\ poolPc[t] = "fall asleep")
  <2>1. Pools!FallAsleep(t) \/ Pools!Signal(t)
    BY <1>4 DEF Pools!AtRest, Pools!ThreadFunc, Pools!Start, Pools!Wake, Pools!TakePart, Pools!Count,
                Pools!Return, Pools!Report, Pools!Increment
  <2> QED
    BY <2>1 DEF Pools!FallAsleep, Pools!Signal, Pools!AtRest, Pools!goto, PoolTypeOK, Pools!main
<1>5. CASE pcMain = "broadcast" /\ ~is_done
  <2>1. done = 0 /\ \A u \in W : Pools!AtRest(u) /\ thread_ret[u] = -1
    BY <1>5 DEF RoundOK
  <2>2. done' = 0 /\ \A u \in W : Pools!AtRest(u)' /\ thread_ret'[u] = -1
    BY <1>1, <1>4, <2>1 DEF Pools!AtRest
  <2>3. pcMain' = "broadcast"
    BY <1>1, <1>5 DEF Pools!Signal
  <2> QED
    BY <1>2, <2>2, <2>3 DEF RoundOK
<1>6. CASE pcMain = "collect"
  <2>1. \A u \in W : Pools!AtRest(u) /\ thread_ret[u] = Right(u)
    BY <1>6 DEF RoundOK
  <2>2. \A u \in W : Pools!AtRest(u)' /\ thread_ret'[u] = Right(u)'
    BY <1>1, <1>2, <1>4, <2>1 DEF Pools!AtRest
  <2>3. pcMain' = "collect"
    BY <1>1, <1>6 DEF Pools!Signal
  <2> QED
    BY <1>2, <2>2, <2>3 DEF RoundOK
<1>7. CASE pcMain \in {"wait", "asleep"}
  <2>1. (\A u \in W : Counting(u)) /\ (program = "signal" => DoneOK)
    BY <1>7 DEF RoundOK
  <2>2. ~is_done
    BY <1>7 DEF StatesOK
  <2>3. ASSUME \A u \in W : Counting(u)', program = "signal" => DoneOK', pcMain' = pcMain
        PROVE  RoundOK'
    BY <1>1, <1>2, <1>7, <2>3 DEF RoundOK
  <2>4. \A u \in W \ {t} : Counting(u)'
    BY <1>1, <1>2, <2>1, ZenonT(30) DEF Counting
  <2>5. ASSUME poolPc[t] \in {"signal", "fall asleep", "asleep"} <=> poolPc'[t] \in {"signal", "fall asleep", "asleep"}
        PROVE  Reported' = Reported
    <3>1. \A u \in W : u \in Reported <=> poolPc[u] \in {"signal", "fall asleep", "asleep"}
      BY DEF Reported
    <3>2. \A u \in W : u \in Reported' <=> poolPc'[u] \in {"signal", "fall asleep", "asleep"}
      BY <1>2 DEF Reported
    <3>3. \A u \in W : u \in Reported <=> u \in Reported'
      BY <1>1, <2>5, <3>1, <3>2
    <3>4. Reported \subseteq W /\ Reported' \subseteq W
      BY <1>2 DEF Reported
    <3> QED
      BY <3>3, <3>4
  <2>6. ASSUME poolPc[t] \in {"signal", "fall asleep", "asleep"} <=> poolPc'[t] \in {"signal", "fall asleep", "asleep"},
               poolPc'[t] \notin {"increment", "signal"}, done' = done, DoneOK
        PROVE  DoneOK'
    <3>1. done' = Cardinality(Reported')
      BY <2>5, <2>6 DEF DoneOK
    <3>2. \A u \in W : /\ poolPc'[u] = "increment" => finish_order'[u] = done'
                       /\ poolPc'[u] = "signal" => done' = NUM_THREAD
      BY <1>1, <2>6 DEF DoneOK
    <3> QED
      BY <1>2, <3>1, <3>2 DEF DoneOK
  <2>7. ASSUME Counting(t)', pcMain' = pcMain, done' = done, poolPc'[t] \notin {"increment", "signal"},
               poolPc[t] \in {"signal", "fall asleep", "asleep"} <=> poolPc'[t] \in {"signal", "fall asleep", "asleep"}
        PROVE  RoundOK'
    <3>1. \A u \in W : Counting(u)'
      BY <2>4, <2>7
    <3>2. program = "signal" => DoneOK'
      BY <2>1, <2>6, <2>7
    <3> QED
      BY <2>3, <2>7, <3>1, <3>2
  <2>8. CASE Pools!Start(t) \/ Pools!Return(t)
    BY <2>1, <2>2, <2>8 DEF Pools!Start, Pools!Return, Counting
  <2>9. CASE Pools!FallAsleep(t)
    <3>1. /\ poolPc[t] = "fall asleep" /\ poolPc'[t] = "asleep" /\ thread_ret'[t] = thread_ret[t]
          /\ pcMain' = pcMain /\ done' = done
      BY <2>9 DEF Pools!FallAsleep, Pools!goto, PoolTypeOK, Pools!main
    <3>2. Counting(t)'
      BY <1>2, <2>1, <3>1 DEF Counting
    <3> QED
      BY <2>7, <3>1, <3>2
  <2>10. CASE Pools!Wake(t)
    <3>1. /\ poolPc[t] = "woken" /\ poolPc'[t] = "loop" /\ thread_ret'[t] = thread_ret[t]
          /\ pcMain' = pcMain /\ done' = done
      BY <2>10 DEF Pools!Wake, Pools!goto, PoolTypeOK, Pools!main
    <3>2. Counting(t)'
      BY <1>2, <2>1, <3>1 DEF Counting
    <3> QED
      BY <2>7, <3>1, <3>2
  <2>11. CASE Pools!TakePart(t)
    <3>1. /\ poolPc[t] = "loop" /\ poolPc'[t] = "count" /\ thread_ret'[t] = thread_ret[t]
          /\ pcMain' = pcMain /\ done' = done /\ part'[t] = Pools!Split(t)
      BY <2>11 DEF Pools!TakePart, Pools!goto, PoolTypeOK, Pools!main
    <3>2. Counting(t)'
      BY <1>2, <2>1, <3>1 DEF Counting
    <3> QED
      BY <2>7, <3>1, <3>2
  <2>12. CASE Pools!Count(t)
    <3>1. /\ poolPc[t] = "count" /\ pcMain' = pcMain /\ done' = done
          /\ thread_ret'[t] = Cardinality({n \in part[t] : Pools!IsPrime(n)})
          /\ finish_order' = finish_order
      BY <2>12, CountResult DEF Pools!Count, PoolTypeOK, Pools!main
    <3>2. part[t] = Pools!Split(t)
      BY <2>1, <3>1 DEF Counting
    <3>3. thread_ret'[t] = Right(t)'
      BY <1>2, <3>1, <3>2 DEF Right
    <3>4. CASE program = "spin"
      <4>1. poolPc'[t] = "fall asleep"
        <5>1. Pools!goto(t, "fall asleep")
          BY <2>12, <3>4 DEF Pools!Count
        <5> QED
          BY <5>1 DEF Pools!goto, PoolTypeOK
      <4>2. Counting(t)'
        BY <3>3, <4>1 DEF Counting
      <4> QED
        BY <2>3, <2>4, <3>1, <3>4, <4>2
    <3>5. CASE program = "signal"
      <4>1. poolPc'[t] = "report"
        <5>1. Pools!goto(t, "report")
          BY <2>12, <3>5 DEF Pools!Count
        <5> QED
          BY <5>1 DEF Pools!goto, PoolTypeOK
      <4>2. Counting(t)'
        BY <3>3, <4>1 DEF Counting
      <4> QED
        BY <2>7, <3>1, <4>1, <4>2
    <3> QED
      BY <3>4, <3>5
  <2>13. CASE Pools!Report(t)
    <3>1. /\ poolPc[t] = "report" /\ poolPc'[t] = "increment" /\ thread_ret'[t] = thread_ret[t]
          /\ pcMain' = pcMain /\ done' = done /\ finish_order'[t] = done /\ ~Pools!locked
      BY <2>13 DEF Pools!Report, Pools!goto, PoolTypeOK, Pools!main
    <3>2. Counting(t)'
      BY <1>2, <2>1, <3>1 DEF Counting
    <3>3. program = "signal" => DoneOK'
      <4> SUFFICES ASSUME DoneOK PROVE DoneOK'
        BY <2>1
      <4>1. done' = Cardinality(Reported')
        BY <2>5, <3>1 DEF DoneOK
      <4>2. \A u \in W : /\ poolPc'[u] = "increment" => finish_order'[u] = done'
                         /\ poolPc'[u] = "signal" => done' = NUM_THREAD
        BY <1>1, <3>1 DEF DoneOK
      <4> QED
        BY <1>2, <4>1, <4>2 DEF DoneOK
    <3>4. \A u \in W : Counting(u)'
      BY <2>4, <3>2
    <3> QED
      BY <2>3, <3>1, <3>3, <3>4
  <2>14. CASE Pools!Increment(t)
    <3>1. /\ poolPc[t] = "increment" /\ thread_ret'[t] = thread_ret[t] /\ pcMain' = pcMain
          /\ done' = finish_order[t] + 1
      BY <2>14 DEF Pools!Increment, PoolTypeOK, Pools!main
    <3>2. /\ poolPc'[t] = "signal" /\ finish_order[t] = NUM_THREAD - 1
          \/ poolPc'[t] = "fall asleep"
      <4>1. CASE finish_order[t] = NUM_THREAD - 1
        <5>1. Pools!goto(t, "signal")
          BY <2>14, <4>1 DEF Pools!Increment
        <5> QED
          BY <4>1, <5>1 DEF Pools!goto, PoolTypeOK
      <4>2. CASE finish_order[t] # NUM_THREAD - 1
        <5>1. Pools!goto(t, "fall asleep")
          BY <2>14, <4>2 DEF Pools!Increment
        <5> QED
          BY <5>1 DEF Pools!goto, PoolTypeOK
      <4> QED
        BY <4>1, <4>2
    <3>3. Counting(t)'
      BY <1>2, <2>1, <3>1, <3>2 DEF Counting
    <3>4. program = "signal"
      BY <3>1 DEF StatesOK
    <3>5. done = Cardinality(Reported) /\ finish_order[t] = done
      BY <2>1, <3>1, <3>4 DEF DoneOK
    <3>6. t \notin Reported /\ Reported' = Reported \cup {t} /\ Reported \subseteq W
      <4>1. \A u \in W : u \in Reported <=> poolPc[u] \in {"signal", "fall asleep", "asleep"}
        BY DEF Reported
      <4>2. \A u \in W : u \in Reported' <=> poolPc'[u] \in {"signal", "fall asleep", "asleep"}
        BY <1>2 DEF Reported
      <4>3. Reported \subseteq W /\ Reported' \subseteq W
        BY <1>2 DEF Reported
      <4>4. \A u \in W : u \in Reported' <=> u \in Reported \/ u = t
        BY <1>1, <3>1, <3>2, <4>1, <4>2
      <4> QED
        BY <3>1, <4>1, <4>3, <4>4
    <3>7. done' = Cardinality(Reported')
      <4>1. IsFiniteSet(W)
        <5>1. 0 \in Int /\ NUM_THREAD - 1 \in Int
          BY DEF PoolsAsUsed
        <5> QED
          BY <5>1, FS_Interval DEF Pools!Worker
      <4> HIDE DEF W
      <4>2. IsFiniteSet(Reported)
        BY <3>6, <4>1, FS_Subset
      <4>3. Cardinality(Reported \cup {t}) = Cardinality(Reported) + 1
        BY <3>6, <4>2, FS_AddElement
      <4> QED
        BY <3>1, <3>5, <3>6, <4>3
    <3>8. \A u \in W \ {t} : poolPc'[u] \notin {"increment", "signal"}
      BY <1>1, <3>1 DEF OneInside
    <3>9. poolPc'[t] = "signal" => done' = NUM_THREAD
      <4>1. NUM_THREAD \in Int
        BY DEF PoolsAsUsed
      <4>2. poolPc'[t] = "signal" => finish_order[t] = NUM_THREAD - 1
        BY <3>2
      <4> QED
        BY <3>1, <4>1, <4>2
    <3>10. DoneOK'
      <4>1. \A u \in W : /\ poolPc'[u] = "increment" => finish_order'[u] = done'
                         /\ poolPc'[u] = "signal" => done' = NUM_THREAD
        BY <3>2, <3>8, <3>9
      <4> QED
        BY <1>2, <3>7, <4>1 DEF DoneOK
    <3>11. \A u \in W : Counting(u)'
      BY <2>4, <3>3
    <3> QED
      BY <2>3, <3>1, <3>10, <3>11
  <2>15. CASE Pools!Signal(t)
    <3>1. /\ poolPc[t] = "signal" /\ poolPc'[t] = "fall asleep" /\ thread_ret'[t] = thread_ret[t]
          /\ pcMain' = (IF pcMain = "asleep" THEN "collect" ELSE pcMain) /\ done' = done
      BY <2>15 DEF Pools!Signal, Pools!goto, PoolTypeOK
    <3>2. Counting(t)'
      BY <1>2, <2>1, <3>1 DEF Counting
    <3>3. CASE pcMain = "asleep"
      <4>1. program = "signal"
        BY <3>1 DEF StatesOK
      <4>2. done = Cardinality(Reported) /\ done = NUM_THREAD
        BY <2>1, <3>1, <4>1 DEF DoneOK
      <4>3. Reported = W
        <5>1. ~(done < NUM_THREAD)
          BY <4>2 DEF PoolsAsUsed
        <5> QED
          BY <4>2, <5>1, Everyone
      <4>4. \A u \in W : poolPc[u] \in {"signal", "fall asleep", "asleep"}
        BY <4>3 DEF Reported
      <4>5. \A u \in W : Pools!AtRest(u)' /\ thread_ret'[u] = Right(u)'
        <5>1. \A u \in W : thread_ret[u] = Right(u)
          BY <2>1, <4>4 DEF Counting
        <5> QED
          BY <1>1, <1>2, <3>1, <4>4, <5>1 DEF Pools!AtRest
      <4> QED
        BY <1>2, <3>1, <3>3, <4>5 DEF RoundOK
    <3>4. CASE pcMain = "wait"
      BY <2>7, <3>1, <3>2, <3>4
    <3> QED
      BY <1>7, <3>3, <3>4
  <2> QED
    BY <2>8, <2>9, <2>10, <2>11, <2>12, <2>13, <2>14, <2>15 DEF Pools!ThreadFunc
<1> QED
  BY <1>3, <1>5, <1>6, <1>7

\* "spin" and "signal": a round begins with all workers at rest, or disturbed.
LEMMA RoundReset ==
    ASSUME Pools!Reset, ~disturbed'
    PROVE  RoundOK'
<1>1. /\ pcMain' = "broadcast" /\ done' = 0 /\ poolPc' = poolPc
      /\ \A t \in Pools!Worker : Pools!AtRest(t) /\ thread_ret'[t] = -1
  BY DEF Pools!Reset, Pools!worker
<1> QED
  BY <1>1 DEF RoundOK, Pools!AtRest, Pools!Worker

\* "spin" and "signal": any other step.
LEMMA RoundStep ==
    ASSUME PoolsAsUsed, PoolTypeOK, OneInside, StatesOK, RoundOK, program \in {"spin", "signal"},
           Pools!Next, ~Pools!Reset, ~disturbed'
    PROVE  RoundOK'
<1> DEFINE W == Pools!Worker
<1>1. CASE \E t \in W : Pools!ThreadFunc(t)
  BY <1>1, RoundWorker
<1>2. CASE Pools!WakeMainSpuriously \/ \E t \in W : Pools!WakeSpuriously(t)
  BY <1>2 DEF Pools!WakeMainSpuriously, Pools!WakeSpuriously
<1>3. W' = W
  BY DEF Pools!Worker
<1>4. CASE Pools!Create \/ Pools!AwaitStart \/ Pools!Join
  <2>1. pcMain' \in {"create", "await", "input", "join", "end"}
    BY <1>4 DEF Pools!Create, Pools!AwaitStart, Pools!Join, Pools!loop
  <2> QED
    BY <2>1 DEF RoundOK
<1>5. CASE Pools!Input \/ Pools!Quit \/ Pools!Collect
  <2>1. pcMain' \in {"reset", "input"} \/ (pcMain' = "broadcast" /\ is_done')
    BY <1>5 DEF Pools!Input, Pools!Quit, Pools!Collect
  <2> QED
    BY <2>1 DEF RoundOK
<1>6. CASE Pools!Broadcast
  <2>1. CASE is_done
    <3>1. pcMain' = "join"
      BY <1>6, <2>1 DEF Pools!Broadcast
    <3> QED
      BY <3>1 DEF RoundOK
  <2>2. CASE ~is_done
    <3>1. done = 0 /\ \A t \in W : Pools!AtRest(t) /\ thread_ret[t] = -1
      BY <1>6, <2>2 DEF Pools!Broadcast, RoundOK
    <3>2. \A t \in W : poolPc[t] = "asleep"
      BY <1>6, <3>1 DEF Pools!Broadcast, Pools!locked, Pools!AtRest
    <3>3. /\ pcMain' = "wait" /\ done' = 0 /\ thread_ret' = thread_ret
          /\ poolPc' = [t \in W |-> IF poolPc[t] = "asleep" THEN "woken" ELSE poolPc[t]]
      BY <1>6, <2>2, <3>1 DEF Pools!Broadcast
    <3>4. \A t \in W : poolPc'[t] = "woken" /\ thread_ret'[t] = -1
      BY <3>1, <3>2, <3>3
    <3>5. \A t \in W : Counting(t)'
      BY <3>4 DEF Counting
    <3>6. DoneOK'
      <4>1. Reported' = {}
        BY <1>3, <3>4 DEF Reported
      <4>2. done' = Cardinality(Reported')
        BY <3>3, <4>1, FS_EmptySet
      <4> QED
        BY <1>3, <3>4, <4>2 DEF DoneOK
    <3> QED
      BY <1>3, <3>3, <3>5, <3>6 DEF RoundOK
  <2> QED
    BY <2>1, <2>2
<1>7. CASE Pools!AwaitResults \/ Pools!AwaitSignal
  <2>1. /\ UNCHANGED <<program, thread_ret, done, range, poolPc, part, finish_order, is_done>>
        /\ pcMain = "wait"
    BY <1>7 DEF Pools!AwaitResults, Pools!AwaitSignal, Pools!worker
  <2>2. \A t \in W : Pools!Split(t)' = Pools!Split(t) /\ Right(t)' = Right(t)
    BY <2>1, SameRange
  <2>3. (\A t \in W : Counting(t)) /\ (program = "signal" => DoneOK)
    BY <2>1 DEF RoundOK
  <2>4. ASSUME \A t \in W : Pools!AtRest(t), pcMain' = "collect"
        PROVE  RoundOK'
    <3>1. \A t \in W : Pools!AtRest(t) /\ thread_ret[t] = Right(t)
      BY <2>3, <2>4 DEF Counting, Pools!AtRest
    <3>2. \A t \in W : Pools!AtRest(t)' /\ thread_ret'[t] = Right(t)'
      BY <2>1, <2>2, <3>1 DEF Pools!AtRest
    <3> QED
      BY <1>3, <2>4, <3>2 DEF RoundOK
  <2>5. CASE Pools!AwaitResults
    <3>1. /\ pcMain' = "collect" /\ \A t \in W : thread_ret[t] # -1
          /\ \A t \in W : poolPc[t] \notin {"report", "increment", "signal"}
      BY <2>5 DEF Pools!AwaitResults, StatesOK
    <3>2. \A t \in W : Pools!AtRest(t)
      BY <2>3, <3>1 DEF Counting, Pools!AtRest
    <3> QED
      BY <2>4, <3>1, <3>2
  <2>6. CASE Pools!AwaitSignal /\ ~(done < NUM_THREAD)
    <3>1. pcMain' = "collect" /\ program = "signal"
      BY <2>6 DEF Pools!AwaitSignal
    <3>2. Reported = W
      BY <2>3, <2>6, <3>1, Everyone DEF DoneOK
    <3>3. \A t \in W : Pools!AtRest(t)
      BY <3>2 DEF Reported, Pools!AtRest
    <3> QED
      BY <2>4, <3>1, <3>3
  <2>7. CASE Pools!AwaitSignal /\ done < NUM_THREAD
    <3>1. pcMain' = "asleep" /\ program = "signal"
      BY <2>7 DEF Pools!AwaitSignal
    <3>2. \A t \in W : Counting(t)'
      BY <2>1, <2>2, <2>3 DEF Counting
    <3>3. DoneOK'
      BY <2>1, <2>3, <3>1 DEF DoneOK, Reported, Pools!Worker
    <3> QED
      BY <1>3, <3>1, <3>2, <3>3 DEF RoundOK
  <2> QED
    BY <1>7, <2>5, <2>6, <2>7
<1>8. CASE Pools!Poll \/ Pools!Ended
  <2>1. UNCHANGED <<program, thread_ret, done, range, poolPc, part, finish_order, is_done, pcMain>>
    BY <1>8 DEF Pools!Poll, Pools!Ended, Pools!vars, Pools!main, Pools!worker
  <2>2. \A t \in W : Pools!Split(t)' = Pools!Split(t) /\ Right(t)' = Right(t)
    BY <2>1, SameRange
  <2>3. \A t \in W : (Counting(t)' <=> Counting(t)) /\ (Pools!AtRest(t)' <=> Pools!AtRest(t))
    BY <2>1, <2>2 DEF Counting, Pools!AtRest
  <2>4. DoneOK' <=> DoneOK
    BY <2>1 DEF DoneOK, Reported, Pools!Worker
  <2> QED
    BY <1>3, <2>1, <2>2, <2>3, <2>4 DEF RoundOK
<1> QED
  BY <1>1, <1>2, <1>4, <1>5, <1>6, <1>7, <1>8 DEF Pools!Next, Pools!mainStep

\* What main prints.
LEMMA PrintedStep ==
    ASSUME PoolsAsUsed, PoolTypeOK, StatesOK, program \in Pools!Program, Pools!Next, ~disturbed',
           ~disturbed => PrintedOK /\ (IF program = "create" THEN CreateOK ELSE RoundOK)
    PROVE  PrintedOK'
<1>1. CASE Pools!Collect
  <2>1. /\ pcMain = "collect" /\ printed' = Pools!Sum /\ range' = range /\ ~disturbed
    BY <1>1 DEF Pools!Collect, Pools!env
  <2>2. \A t \in Pools!Worker : thread_ret[t] = Right(t)
    BY <1>1, <2>1 DEF CreateOK, RoundOK
  <2>3. range \in Ranges
    BY <2>1 DEF StatesOK
  <2>4. Pools!Sum = Target
    BY <2>2, <2>3, AllParts
  <2>5. Target' = Target
    BY <2>1, SameRange
  <2> QED
    BY <2>1, <2>4, <2>5 DEF PrintedOK
<1>2. CASE ~Pools!Collect
  <2>1. pcMain' # "input" \/ (UNCHANGED <<pcMain, range, printed, rounds, disturbed>>)
                          \/ rounds' = 0
    <3>1. ASSUME NEW t \in Pools!Worker, Pools!ThreadFunc(t)
          PROVE  pcMain' # "input" \/ UNCHANGED <<pcMain, range, printed, rounds, disturbed>>
      BY <3>1, WorkerLeaves DEF Pools!Signal
    <3>2. ASSUME NEW t \in Pools!Worker, Pools!WakeSpuriously(t) PROVE FALSE
      BY <3>2 DEF Pools!WakeSpuriously
    <3>3. CASE Pools!WakeMainSpuriously
      BY <3>3 DEF Pools!WakeMainSpuriously
    <3>4. CASE Pools!Create \/ Pools!Join
      BY <3>4 DEF Pools!Create, Pools!Join, Pools!loop
    <3>5. CASE Pools!AwaitStart
      <4>1. rounds' = rounds /\ pcMain = "await"
        BY <3>5 DEF Pools!AwaitStart
      <4> QED
        BY <4>1 DEF StatesOK
    <3>6. CASE Pools!Input \/ Pools!Quit \/ Pools!Reset \/ Pools!Broadcast \/ Pools!AwaitResults \/ Pools!AwaitSignal
      BY <3>6 DEF Pools!Input, Pools!Quit, Pools!Reset, Pools!Broadcast, Pools!AwaitResults, Pools!AwaitSignal
    <3>7. CASE Pools!Poll \/ Pools!Ended
      BY <3>7 DEF Pools!Poll, Pools!Ended, Pools!vars, Pools!main, Pools!env
    <3> QED
      BY <1>2, <3>1, <3>2, <3>3, <3>4, <3>5, <3>6, <3>7 DEF Pools!Next, Pools!mainStep
  <2>2. CASE pcMain' # "input" \/ rounds' = 0
    BY <2>2 DEF PrintedOK
  <2>3. CASE UNCHANGED <<pcMain, range, printed, rounds, disturbed>>
    <3>1. PrintedOK
      BY <2>3
    <3>2. Target' = Target
      BY <2>3, SameRange
    <3> QED
      BY <2>3, <3>1, <3>2 DEF PrintedOK
  <2> QED
    BY <2>1, <2>2, <2>3
<1> QED
  BY <1>1, <1>2

\* The invariant of the pools: it holds at first, ...
LEMMA PoolInvInit ==
    ASSUME PoolsAsUsed, program \in Pools!Program, Pools!Fresh
    PROVE  PoolInv
<1>1. 0 \in Pools!Worker /\ \A t \in Pools!Worker : ~(t < 0)
  BY DEF PoolsAsUsed, Pools!Worker
<1>2. PoolTypeOK
  <2>1. /\ DOMAIN thread_ret = Pools!Worker /\ DOMAIN part = Pools!Worker
        /\ poolPc \in [Pools!Worker -> WorkerState] /\ finish_order \in [Pools!Worker -> Int]
    BY DEF Pools!Fresh, WorkerState
  <2>2. range \in [start : Int, end : Int]
    <3>1. range = [start |-> 0, end |-> 0]
      BY DEF Pools!Fresh
    <3> QED
      BY <3>1
  <2>3. /\ rounds \in Nat /\ done \in Int /\ is_done \in BOOLEAN /\ disturbed \in BOOLEAN
        /\ tid \in Pools!Worker /\ pcMain \in {"input", "create"}
    <3>1. rounds = 0 /\ done = 0 /\ tid = 0
      BY DEF Pools!Fresh
    <3>3. is_done \in BOOLEAN /\ disturbed \in BOOLEAN
      BY Zenon DEF Pools!Fresh
    <3>2. pcMain \in {"input", "create"}
      BY DEF Pools!Fresh
    <3> QED
      BY <1>1, <3>1, <3>2, <3>3
  <2> QED
    BY <2>1, <2>2, <2>3 DEF PoolTypeOK, MainState
<1>3. OneInside /\ StatesOK /\ PrintedOK /\ CreateOK /\ RoundOK
  BY <1>1 DEF OneInside, StatesOK, PrintedOK, CreateOK, RoundOK, Pools!Fresh
<1> QED
  BY <1>2, <1>3 DEF PoolInv

\* ... every step keeps it, ...
LEMMA PoolInvStep ==
    ASSUME PoolsAsUsed, program \in Pools!Program, PoolInv, Pools!Next
    PROVE  PoolInv'
<1>1. PoolTypeOK' /\ OneInside' /\ StatesOK'
  BY PoolTypeStep, OneInsideStep, StatesStep DEF PoolInv
<1>2. program' = program
  <2>1. ASSUME NEW t \in Pools!Worker, Pools!ThreadFunc(t) PROVE program' = program
    BY <2>1, WorkerLeaves DEF PoolInv
  <2>2. ASSUME Pools!mainStep PROVE program' = program
    BY <2>2 DEF Pools!mainStep, Pools!Create, Pools!AwaitStart, Pools!Input, Pools!Quit, Pools!Reset,
                Pools!Broadcast, Pools!AwaitResults, Pools!AwaitSignal, Pools!Collect, Pools!Join
  <2>3. ASSUME Pools!Poll \/ Pools!Ended \/ Pools!WakeMainSpuriously
        PROVE  program' = program
    BY <2>3 DEF Pools!Poll, Pools!Ended, Pools!vars, Pools!WakeMainSpuriously
  <2>4. ASSUME NEW t \in Pools!Worker, Pools!WakeSpuriously(t) PROVE program' = program
    BY <2>4 DEF Pools!WakeSpuriously
  <2> QED
    BY <2>1, <2>2, <2>3, <2>4 DEF Pools!Next
<1>3. ASSUME ~disturbed' PROVE PrintedOK'
  BY <1>3, PrintedStep DEF PoolInv
<1>4. ASSUME ~disturbed' PROVE ~disturbed \/ Pools!Reset
  <2>1. ASSUME NEW t \in Pools!Worker, Pools!ThreadFunc(t) PROVE disturbed' = disturbed
    BY <2>1, WorkerLeaves DEF PoolInv
  <2>2. ASSUME Pools!mainStep, ~Pools!Reset PROVE disturbed' = disturbed
    BY <2>2 DEF Pools!mainStep, Pools!Create, Pools!AwaitStart, Pools!Input, Pools!Quit, Pools!env,
                Pools!Broadcast, Pools!AwaitResults, Pools!AwaitSignal, Pools!Collect, Pools!Join
  <2>3. ASSUME Pools!Poll \/ Pools!Ended PROVE disturbed' = disturbed
    BY <2>3 DEF Pools!Poll, Pools!Ended, Pools!vars, Pools!env
  <2>4. ~Pools!WakeMainSpuriously /\ ~(\E t \in Pools!Worker : Pools!WakeSpuriously(t))
    BY <1>4 DEF Pools!WakeMainSpuriously, Pools!WakeSpuriously
  <2> QED
    BY <1>4, <2>1, <2>2, <2>3, <2>4 DEF Pools!Next
<1>5. ASSUME ~disturbed', program = "create" PROVE CreateOK'
  <2>1. ~Pools!Reset
    BY <1>5 DEF PoolInv, StatesOK, Pools!Reset
  <2>2. CreateOK
    BY <1>4, <1>5, <2>1 DEF PoolInv
  <2> QED
    BY <1>5, <2>2, CreateStep DEF PoolInv
<1>6. ASSUME ~disturbed', program # "create" PROVE RoundOK'
  <2>1. program \in {"spin", "signal"}
    BY <1>6 DEF Pools!Program
  <2>2. CASE Pools!Reset
    BY <1>6, <2>2, RoundReset
  <2>3. CASE ~Pools!Reset
    <3>1. RoundOK
      BY <1>4, <1>6, <2>3 DEF PoolInv
    <3> QED
      BY <1>6, <2>1, <2>3, <3>1, RoundStep DEF PoolInv
  <2> QED
    BY <2>2, <2>3
<1> QED
  BY <1>1, <1>2, <1>3, <1>5, <1>6 DEF PoolInv

\* ... and with it what main prints is the number of primes.
LEMMA PoolInvMeans ==
    ASSUME PoolInv
    PROVE  Pools!CountExact
<1> DEFINE S == {n \in range.start..range.end : n > 1 /\ \A d \in 2..(n - 1) : n % d # 0}
<1>1. pcMain = "input" /\ rounds > 0 /\ ~disturbed => printed = Target
  BY DEF PoolInv, PrintedOK
<1>2. Target = Cardinality(S)
  BY DEF Target
<1>3. Pools!Cardinality(S) = Cardinality(S)
  BY SameCardinality
<1>4. Pools!CountExact <=> (pcMain = "input" /\ rounds > 0 /\ ~disturbed => printed = Pools!Cardinality(S))
  BY DEF Pools!CountExact
<1> HIDE DEF S
<1> QED
  BY <1>1, <1>2, <1>3, <1>4

PoolPart == IF program \in Pools!Program THEN PoolInv ELSE rounds = 0

\* lab04, lab05: for any number of threads and any ranges, what main prints is
\* the number of primes in the range, unless a spurious wake-up disturbs the
\* round.
THEOREM LabCountExact ==
    ASSUME PoolsAsUsed
    PROVE  LabSpec => []CountExact
<1>1. LabInit => PoolPart
  BY PoolInvInit DEF LabInit, PoolPart, Pools!Fresh
<1>2. PoolPart /\ [LabNext]_labVars => PoolPart'
  <2> SUFFICES ASSUME PoolPart, [LabNext]_labVars PROVE PoolPart'
    OBVIOUS
  <2>1. program' = program
    BY SameProgram
  <2>2. CASE program \in Pools!Program
    <3>1. PoolInv
      BY <2>2 DEF PoolPart
    <3>2. program \notin Program /\ program \notin Locks!Program /\ program \notin Io!Program
      BY <2>2 DEF Program, Locks!Program, Pools!Program, Io!Program
    <3>3. Pools!Next \/ UNCHANGED poolVars
      BY <3>2 DEF LabNext, labVars
    <3>4. CASE Pools!Next
      <4>1. PoolInv'
        BY <2>2, <3>1, <3>4, PoolInvStep
      <4> QED
        BY <2>1, <2>2, <4>1 DEF PoolPart, Pools!Program
    <3>5. CASE UNCHANGED poolVars
      <4>1. PoolTypeOK' = PoolTypeOK /\ OneInside' = OneInside /\ StatesOK' = StatesOK
        BY <2>1, <3>5 DEF poolVars, PoolTypeOK, OneInside, StatesOK, Pools!Worker
      <4>2. range' = range
        BY <3>5 DEF poolVars
      <4>3. /\ Target' = Target
            /\ \A t \in Pools!Worker : Pools!Split(t)' = Pools!Split(t) /\ Right(t)' = Right(t)
        BY <4>2, SameRange
      <4>4. PrintedOK' = PrintedOK /\ disturbed' = disturbed
        BY <3>5, <4>3 DEF poolVars, PrintedOK
      <4>5. CreateOK' = CreateOK
        <5>1. \A t \in Pools!Worker : Started(t)' = Started(t)
          BY <3>5, <4>3 DEF poolVars, Started
        <5> QED
          BY <3>5, <4>3, <5>1 DEF poolVars, CreateOK, Pools!Worker
      <4>6. RoundOK' = RoundOK
        <5>1. \A t \in Pools!Worker : Counting(t)' = Counting(t) /\ Pools!AtRest(t)' = Pools!AtRest(t)
          BY <3>5, <4>3 DEF poolVars, Counting, Pools!AtRest
        <5>2. DoneOK' = DoneOK
          BY <3>5 DEF poolVars, DoneOK, Reported, Pools!Worker
        <5> QED
          BY <2>1, <3>5, <4>3, <5>1, <5>2 DEF poolVars, RoundOK, Pools!Worker
      <4> QED
        BY <2>1, <2>2, <3>1, <4>1, <4>4, <4>5, <4>6 DEF PoolPart, PoolInv, Pools!Program
    <3> QED
      BY <3>3, <3>4, <3>5
  <2>3. CASE program \notin Pools!Program
    <3>1. UNCHANGED poolVars
      BY <2>3 DEF LabNext, labVars
    <3> QED
      BY <2>1, <2>3, <3>1 DEF PoolPart, Pools!Program, poolVars
  <2> QED
    BY <2>2, <2>3
<1>3. PoolPart => CountExact
  <2>1. CASE program \in Pools!Program
    BY <2>1, PoolInvMeans DEF PoolPart, CountExact
  <2>2. CASE program \notin Pools!Program
    BY <2>2 DEF PoolPart, CountExact, Pools!CountExact
  <2> QED
    BY <2>1, <2>2
<1> QED
  BY <1>1, <1>2, <1>3, PTL DEF LabSpec
=============================================================================
