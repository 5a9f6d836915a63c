--------------------------- MODULE ConcurrentList ---------------------------
(***************************************************************************)
(* lab12's sorted lists under concurrent list_add, list_remove and         *)
(* list_contains: coarse_grained.cpp, which has one mutex for the list;    *)
(* fine_grained.cpp, which locks hand over hand; and optimistic.cpp, which *)
(* searches without locks, locks the two nodes it found, validates that    *)
(* they are still what it found, and starts over if they are not.  The     *)
(* variable `program` says which one runs.                                 *)
(*                                                                         *)
(* In fine_grained.cpp a node is read and written only by the thread that  *)
(* holds its mutex, so what a thread does with the nodes it holds belongs  *)
(* to the step in which it took the last of them.  So does a whole search  *)
(* of coarse_grained.cpp; its one mutex is the head's.  In optimistic.cpp  *)
(* each read of a `next` without a lock is a step of its own.  Keys never  *)
(* change, and INT_MIN and INT_MAX are one less and one more than all keys.*)
(***************************************************************************)
EXTENDS Naturals

CONSTANTS
    NumThread,
    MaxKey,
    MaxWork,        \* num_work: calls per thread
    Nobody          \* a mutex is free

ASSUME NumThreadAssumption == NumThread \in Nat \ {0}
ASSUME MaxKeyAssumption == MaxKey \in Nat \ {0}
ASSUME MaxWorkAssumption == MaxWork \in Nat

Thread == 1..NumThread
Key == 1..MaxKey

ASSUME NobodyAssumption == Nobody \notin Thread

\* The node that thread t allocates in its call i is <<t, i>>.
head == <<0, 1>>
tail == <<0, 2>>
Node == {head, tail} \cup (Thread \X (1..MaxWork))
null == <<>>

VARIABLES
    program,        \* "coarse", "fine" or "optimistic"
    key,            \* key[n], next[n], mutex[n]: the fields of Node n
    next,
    mutex,
    freed,          \* the nodes given back by free
    i,              \* calls each thread has begun
    pc,             \* where each thread is in its call
    call,           \* type and value of the call
    answer,         \* what the call is going to return
    prev,           \* its local variables
    curr,
    it,             \* list_validate's local variable
    disturbed       \* history: another thread has changed the list since the
                    \*   search began

fields == <<key, next, mutex, freed>>
locals == <<i, call, answer, prev, curr, it>>
vars == <<program, fields, pc, locals, disturbed>>

Program == {"coarse", "fine", "optimistic"}

\* list_init.
Init ==
    /\ program \in Program
    /\ key = [n \in Node |-> IF n = tail THEN MaxKey + 1 ELSE 0]
    /\ next = [n \in Node |-> IF n = head THEN tail ELSE null]
    /\ mutex = [n \in Node |-> Nobody]
    /\ freed = {}
    /\ i = [t \in Thread |-> 0]
    /\ pc = [t \in Thread |-> "idle"]
    /\ call = [t \in Thread |-> [type |-> "C", value |-> 1]]
    /\ answer = [t \in Thread |-> "unknown"]
    /\ prev = [t \in Thread |-> head]
    /\ curr = [t \in Thread |-> tail]
    /\ it = [t \in Thread |-> head]
    /\ disturbed = [t \in Thread |-> FALSE]

goto(t, label) == pc' = [pc EXCEPT ![t] = label]
value(t) == call[t].value
myNode(t) == <<t, i[t]>>

\* The nodes of the list: what is reached from the head by the pointers.
Closed(nodes) == head \in nodes /\ \A n \in nodes \ {tail} : next[n] \in nodes
List == {n \in Node : \A nodes \in SUBSET Node : Closed(nodes) => n \in nodes}

-----------------------------------------------------------------------------
\* ThreadFunc takes up its next work; list_add allocates its node at once.
Begin(t) ==
    /\ pc[t] = "idle"
    /\ i[t] < MaxWork
    /\ i' = [i EXCEPT ![t] = @ + 1]
    /\ \E type \in {"A", "R", "C"}, v \in Key :
        /\ call' = [call EXCEPT ![t] = [type |-> type, value |-> v]]
        /\ key' = IF type = "A" THEN [key EXCEPT ![<<t, i'[t]>>] = v] ELSE key
    /\ answer' = [answer EXCEPT ![t] = "unknown"]
    /\ goto(t, "start")
    /\ UNCHANGED <<program, next, mutex, freed, prev, curr, it, disturbed>>

\* coarse: lock the list and search.
LockList(t) ==
    /\ program = "coarse"
    /\ pc[t] = "start"
    /\ mutex[head] = Nobody
    /\ mutex' = [mutex EXCEPT ![head] = t]
    /\ \E n \in List \ {tail} :
        /\ key[n] < value(t)
        /\ key[next[n]] >= value(t)
        /\ prev' = [prev EXCEPT ![t] = n]
        /\ curr' = [curr EXCEPT ![t] = next[n]]
    /\ goto(t, "check")
    /\ UNCHANGED <<program, key, next, freed, i, call, answer, it, disturbed>>

\* fine: lock the head and read its successor.
LockHead(t) ==
    /\ program = "fine"
    /\ pc[t] = "start"
    /\ mutex[head] = Nobody
    /\ mutex' = [mutex EXCEPT ![head] = t]
    /\ prev' = [prev EXCEPT ![t] = head]
    /\ curr' = [curr EXCEPT ![t] = next[head]]
    /\ goto(t, "lockCurr")
    /\ UNCHANGED <<program, key, next, freed, i, call, answer, it, disturbed>>

\* Faulty variant: curr is unlocked, too, before the next node is locked.
AdvanceUnlocked(t) ==
    /\ program = "fine"
    /\ pc[t] = "check"
    /\ key[curr[t]] < value(t)
    /\ mutex' = [mutex EXCEPT ![prev[t]] = Nobody, ![curr[t]] = Nobody]
    /\ prev' = [prev EXCEPT ![t] = curr[t]]
    /\ curr' = [curr EXCEPT ![t] = next[curr[t]]]
    /\ goto(t, "lockCurr")
    /\ UNCHANGED <<program, key, next, freed, i, call, answer, it, disturbed>>

\* fine: the key is further on; let go of prev and move by one node.
Advance(t) ==
    /\ program = "fine"
    /\ pc[t] = "check"
    /\ key[curr[t]] < value(t)
    /\ mutex' = [mutex EXCEPT ![prev[t]] = Nobody]
    /\ prev' = [prev EXCEPT ![t] = curr[t]]
    /\ curr' = [curr EXCEPT ![t] = next[curr[t]]]
    /\ goto(t, "lockCurr")
    /\ UNCHANGED <<program, key, next, freed, i, call, answer, it, disturbed>>

\* optimistic: begin the search, for the first time or once more.
StartSearch(t) ==
    /\ program = "optimistic"
    /\ pc[t] = "start"
    /\ prev' = [prev EXCEPT ![t] = head]
    /\ curr' = [curr EXCEPT ![t] = next[head]]
    /\ disturbed' = [disturbed EXCEPT ![t] = FALSE]
    /\ goto(t, "search")
    /\ UNCHANGED <<program, fields, i, call, answer, it>>

\* optimistic: the key is further on.
Search(t) ==
    /\ pc[t] = "search"
    /\ key[curr[t]] < value(t)
    /\ prev' = [prev EXCEPT ![t] = curr[t]]
    /\ curr' = [curr EXCEPT ![t] = next[curr[t]]]
    /\ UNCHANGED <<program, fields, pc, i, call, answer, it, disturbed>>

\* optimistic: it is not; lock the two nodes, one after the other.
LockPrev(t) ==
    /\ pc[t] = "search"
    /\ key[curr[t]] >= value(t)
    /\ mutex[prev[t]] = Nobody
    /\ mutex' = [mutex EXCEPT ![prev[t]] = t]
    /\ goto(t, "lockCurr")
    /\ UNCHANGED <<program, key, next, freed, locals, disturbed>>

LockCurr(t) ==
    /\ pc[t] = "lockCurr"
    /\ mutex[curr[t]] = Nobody
    /\ mutex' = [mutex EXCEPT ![curr[t]] = t]
    /\ it' = [it EXCEPT ![t] = head]
    /\ goto(t, IF program = "fine" THEN "check" ELSE "validate")
    /\ UNCHANGED <<program, key, next, freed, i, call, answer, prev, curr, disturbed>>

-----------------------------------------------------------------------------
\* list_validate: on to the next node ...
Validate(t) ==
    /\ pc[t] = "validate"
    /\ key[it[t]] <= key[prev[t]]
    /\ it[t] # prev[t]
    /\ it' = [it EXCEPT ![t] = next[it[t]]]
    /\ UNCHANGED <<program, fields, pc, i, call, answer, prev, curr, disturbed>>

\* Faulty variants: it is enough to meet prev ...
ValidIfReached(t) ==
    /\ pc[t] = "validate"
    /\ it[t] = prev[t]
    /\ goto(t, "check")
    /\ UNCHANGED <<program, fields, locals, disturbed>>

\* ... or the loop ends one node early.
InvalidTooEarly(t) ==
    /\ pc[t] = "validate"
    /\ \/ it[t] = prev[t] /\ next[it[t]] # curr[t]
       \/ key[it[t]] >= key[prev[t]]
    /\ goto(t, "unlockPrev")
    /\ UNCHANGED <<program, fields, locals, disturbed>>

\* ... until it meets prev, and curr behind it ...
Valid(t) ==
    /\ pc[t] = "validate"
    /\ it[t] = prev[t]
    /\ next[it[t]] = curr[t]
    /\ goto(t, "check")
    /\ UNCHANGED <<program, fields, locals, disturbed>>

\* ... or one of the two is not where it was.
Invalid(t) ==
    /\ pc[t] = "validate"
    /\ \/ it[t] = prev[t] /\ next[it[t]] # curr[t]
       \/ key[it[t]] > key[prev[t]]
    /\ goto(t, "unlockPrev")
    /\ UNCHANGED <<program, fields, locals, disturbed>>

-----------------------------------------------------------------------------
\* The call decides, with both nodes locked.
Found(t) == key[curr[t]] = value(t)

Decide(t, yes) ==
    /\ pc[t] = "check"
    /\ key[curr[t]] >= value(t)
    /\ answer' = [answer EXCEPT ![t] = IF yes THEN "true" ELSE "false"]
    /\ goto(t, "unlockPrev")
    /\ UNCHANGED <<program, key, mutex, freed, i, call, prev, curr, it>>

\* Somebody else's search is disturbed by a change of the list.
Disturb(t) == disturbed' = [u \in Thread |-> disturbed[u] \/ u # t]

\* Faulty variant: a key that is already there is inserted, too.
InsertAgain(t) ==
    /\ call[t].type = "A"
    /\ Decide(t, TRUE)
    /\ next' = [next EXCEPT ![prev[t]] = myNode(t), ![myNode(t)] = curr[t]]
    /\ Disturb(t)

Insert(t) ==
    /\ call[t].type = "A"
    /\ ~Found(t)
    /\ Decide(t, TRUE)
    /\ next' = [next EXCEPT ![prev[t]] = myNode(t), ![myNode(t)] = curr[t]]
    /\ Disturb(t)

Unlink(t) ==
    /\ call[t].type = "R"
    /\ Found(t)
    /\ Decide(t, TRUE)
    /\ next' = [next EXCEPT ![prev[t]] = next[curr[t]]]
    /\ Disturb(t)

\* The calls that leave the list as it is.
Look(t) ==
    /\ \/ call[t].type = "A" /\ Found(t)
       \/ call[t].type = "R" /\ ~Found(t)
       \/ call[t].type = "C"
    /\ Decide(t, call[t].type = "C" /\ Found(t))
    /\ UNCHANGED <<next, disturbed>>

\* coarse: unlock the list; list_remove frees its node, and list_contains
\* compares the keys, only now.
UnlockList(t) ==
    /\ program = "coarse"
    /\ pc[t] = "unlockPrev"
    /\ mutex' = [mutex EXCEPT ![head] = Nobody]
    /\ goto(t, CASE call[t].type = "C" -> "compare"
                 [] call[t].type = "R" /\ answer[t] = "true" -> "free"
                 [] OTHER -> "idle")
    /\ UNCHANGED <<program, key, next, freed, locals, disturbed>>

\* The answer of a node that has been freed may be any.
Compare(t) ==
    /\ pc[t] = "compare"
    /\ \E a \in {"true", "false"} :
        /\ curr[t] \in freed \/ a = answer[t]
        /\ answer' = [answer EXCEPT ![t] = a]
    /\ goto(t, "idle")
    /\ UNCHANGED <<program, fields, i, call, prev, curr, it, disturbed>>

UnlockPrev(t) ==
    /\ program # "coarse"
    /\ pc[t] = "unlockPrev"
    /\ mutex' = [mutex EXCEPT ![prev[t]] = Nobody]
    /\ goto(t, "unlockCurr")
    /\ UNCHANGED <<program, key, next, freed, locals, disturbed>>

\* Then the call returns, starts over, or (fine only) frees what it unlinked.
UnlockCurr(t) ==
    /\ pc[t] = "unlockCurr"
    /\ mutex' = [mutex EXCEPT ![curr[t]] = Nobody]
    /\ goto(t, CASE answer[t] = "unknown" -> "start"
                 [] program = "fine" /\ call[t].type = "R" /\ answer[t] = "true" -> "free"
                 [] OTHER -> "idle")
    /\ UNCHANGED <<program, key, next, freed, locals, disturbed>>

Free(t) ==
    /\ pc[t] = "free"
    /\ freed' = freed \cup {curr[t]}
    /\ goto(t, "idle")
    /\ UNCHANGED <<program, key, next, mutex, locals, disturbed>>

-----------------------------------------------------------------------------
ThreadFunc(t) ==
    \/ Begin(t)
    \/ LockList(t) \/ UnlockList(t) \/ Compare(t)
    \/ LockHead(t) \/ Advance(t)
    \/ StartSearch(t) \/ Search(t) \/ LockPrev(t)
    \/ LockCurr(t)
    \/ Validate(t) \/ Valid(t) \/ Invalid(t)
    \/ Insert(t) \/ Unlink(t) \/ Look(t)
    \/ UnlockPrev(t) \/ UnlockCurr(t) \/ Free(t)

Finished == \A t \in Thread : pc[t] = "idle" /\ i[t] = MaxWork
Joined == Finished /\ UNCHANGED vars

Next == (\E t \in Thread : ThreadFunc(t)) \/ Joined

Spec == Init /\ [][Next]_vars /\ \A t \in Thread : WF_vars(ThreadFunc(t))

-----------------------------------------------------------------------------
\* The list ends in the tail, and the keys in it increase.
ListSorted ==
    /\ tail \in List
    /\ \A n \in List \ {tail} : next[n] \in List /\ key[n] < key[next[n]]

\* Refinement: whatever the interleaving, each call answers for one moment
\* of its duration, and the list holds what the calls so far have made of it.
\* (Left out is what list_contains of coarse_grained.cpp makes of a node that
\* is freed before it looks at the key.)
KeySet == INSTANCE KeySet WITH
    keys <- {key[n] : n \in List \ {head, tail}},
    call <- [t \in Thread |->
                IF pc[t] = "idle" THEN [type |-> "none"]
                ELSE [type |-> call[t].type, value |-> call[t].value, answer |-> answer[t]]]
Linearizable == KeySet!KSpec

\* The nodes the next steps of a thread are going to read, write or unlock.
InUse(t) ==
    CASE pc[t] \in {"idle", "start"} -> {}
      [] pc[t] \in {"unlockCurr", "compare", "free"} -> {curr[t]}
      [] pc[t] = "validate" -> {prev[t], curr[t], it[t]}
      [] OTHER -> {prev[t], curr[t]}

\* list_remove of fine_grained.cpp frees its node while other calls are on
\* their way through the list, and none of them has a pointer to it.  With the
\* one lock of coarse_grained.cpp one step has: list_contains compares the key
\* of its node when it has unlocked.
FreedOnlyCompared ==
    \A t \in Thread :
        InUse(t) \cap freed # {} => program = "coarse" /\ pc[t] = "compare"

\* A call of optimistic.cpp starts over only if another thread has succeeded
\* in changing the list in the meantime.
RetriesJustified == [][\A t \in Thread : pc[t] = "validate" /\ pc'[t] = "unlockPrev" => disturbed[t]]_pc

\* No lock order, no retry and no unlinked node keeps the threads from
\* getting through their work.
Terminates == <>Finished
=============================================================================
