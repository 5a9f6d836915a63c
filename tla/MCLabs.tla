------------------------------- MODULE MCLabs -------------------------------
(***************************************************************************)
(* The programs of the labs, one in each behaviour: the queues of lab13    *)
(* and lab14, the spin locks of lab11, the prime pools of lab04 and lab05, *)
(* and the io_service programs of lab06 and lab08.  The variable `program` *)
(* is shared: the modules of the other programs take no step.              *)
(***************************************************************************)
EXTENDS ConcurrentQueue, Integers

CONSTANTS NumThread, NumWork,
          NUM_THREAD, Ranges, MaxRounds, MaxSpurious,
          NumPool, NumPost, Limit

VARIABLES
    cnt_global, object_tas, lockTail, node, myNode, pred, lockPc, calls, register,
    range, thread_ret, done, is_done, pcMain, tid, poolPc, part, finish_order,
    printed, rounds, spurious, disturbed,
    main, work, ready, armed, running, handler, below, count, posted, result

Locks == INSTANCE SpinLocks WITH tail <- lockTail, pc <- lockPc, i <- calls
Pools == INSTANCE PrimePool WITH pc <- poolPc
Io == INSTANCE IoService

\* A range, and one with fewer numbers than there are workers.
LabRanges == {[start |-> 2, end |-> 6], [start |-> 4, end |-> 4]}

lockVars == <<cnt_global, object_tas, lockTail, node, myNode, pred, lockPc, calls, register>>
poolVars == <<range, thread_ret, done, is_done, pcMain, tid, poolPc, part, finish_order,
              printed, rounds, spurious, disturbed>>
ioVars == <<main, work, ready, armed, running, handler, below, count, posted, result>>
queueVars == <<bounded, linked, pc, i, locals, flag_verification, history>>
labVars == <<program, queueVars, lockVars, poolVars, ioVars>>

LabInit ==
    /\ program \in Program \cup Locks!Program \cup Pools!Program \cup Io!Program
    /\ Fresh /\ Locks!Fresh /\ Pools!Fresh /\ Io!Fresh

LabNext ==
    \/ program \in Program /\ Next /\ UNCHANGED <<lockVars, poolVars, ioVars>>
    \/ program \in Locks!Program /\ Locks!Next /\ UNCHANGED <<queueVars, poolVars, ioVars>>
    \/ program \in Pools!Program /\ Pools!Next /\ UNCHANGED <<queueVars, lockVars, ioVars>>
    \/ program \in Io!Program /\ Io!Next /\ UNCHANGED <<queueVars, lockVars, poolVars>>

LabSpec ==
    /\ LabInit /\ [][LabNext]_labVars
    /\ \A p \in Producer : WF_queueVars(program \in Program /\ enqueue(p))
    /\ \A c \in Consumer : WF_queueVars(program \in Program /\ dequeue(c))
    /\ \A t \in 1..NumThread : WF_lockVars(program \in Locks!Program /\ Locks!thread_work(t))
    /\ WF_poolVars(program \in Pools!Program /\ Pools!mainStep)
    /\ \A t \in 0..(NUM_THREAD - 1) :
           WF_poolVars(program \in Pools!Program /\ Pools!ThreadFunc(t))
    /\ WF_ioVars(program \in Io!Program /\ Io!mainStep)
    /\ \A t \in 0..NumPool : WF_ioVars(program \in Io!Program /\ Io!run(t))
    /\ \A t \in {1, 2} : WF_ioVars(program \in Io!Program /\ Io!Expire(t))

-----------------------------------------------------------------------------
\* lab11: no increment of the unprotected counter is lost.
CounterExact == Locks!CounterExact

\* lab11: the nodes of the CLH lock circulate without being used twice.
NodesOwned == Locks!NodesOwned

\* lab04, lab05: main prints the number of primes in the range.
CountExact == Pools!CountExact

\* lab06, lab08: the timers count to their limit, and every post is answered once.
HandlersExact == Io!HandlersExact

\* Every program ends, whatever the interleaving of its threads: consumers
\* dequeue as much as is enqueued, however small the array is; locks are handed
\* on; prime pools notice the last result and the end (but for a spurious
\* wake-up); and services come to the end of their work.
LabsEnd ==
    <>(\/ program \in Program /\ Finished
       \/ program \in Locks!Program /\ Locks!Finished
       \/ program \in Pools!Program /\ (Pools!Ending \/ disturbed)
       \/ program \in Io!Program /\ Io!Through)
=============================================================================
