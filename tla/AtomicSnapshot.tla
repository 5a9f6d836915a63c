--------------------------- MODULE AtomicSnapshot ---------------------------
(***************************************************************************)
(* What the snapshot object of project2 promises, with single steps in     *)
(* place of loops over registers: a write replaces one value of a vector   *)
(* in memory, and a scan returns a vector that was in memory at some       *)
(* moment between its call and its return.                                 *)
(***************************************************************************)
EXTENDS Naturals

CONSTANT Thread

VARIABLES
    memory,     \* the vector of the threads' values
    seen,       \* seen[t]: the vectors in memory since t called scan,
                \*   empty when t is in no scan
    result      \* result[t]: what the last scan of t returned

aVars == <<memory, seen, result>>

\* A thread's value is the number of its updates, so all are different.
AInit ==
    /\ memory = [t \in Thread |-> 0]
    /\ seen = [t \in Thread |-> {}]
    /\ result = [t \in Thread |-> memory]

CallScan(t) ==
    /\ seen[t] = {}
    /\ seen' = [seen EXCEPT ![t] = {memory}]
    /\ UNCHANGED <<memory, result>>

ReturnFromScan(t, v) ==
    /\ v \in seen[t]
    /\ seen' = [seen EXCEPT ![t] = {}]
    /\ result' = [result EXCEPT ![t] = v]
    /\ UNCHANGED memory

Write(t) ==
    /\ seen[t] = {}
    /\ memory' = [memory EXCEPT ![t] = @ + 1]
    /\ seen' = [u \in Thread |-> IF seen[u] = {} THEN {} ELSE seen[u] \cup {memory'}]
    /\ UNCHANGED result

ANext ==
    \E t \in Thread :
        \/ CallScan(t)
        \/ \E v \in seen[t] : ReturnFromScan(t, v)
        \/ Write(t)

ASpec == AInit /\ [][ANext]_aVars
=============================================================================
