----------------------------- MODULE ThreadPool -----------------------------
(***************************************************************************)
(* The thread pool of project2 and project3 (include/ThreadPool.hpp,       *)
(* src/ThreadPool.cpp): main creates the workers one by one and waits for  *)
(* each to fall asleep on one condition variable, wakes all of them with   *)
(* one broadcast, and joins them.                                          *)
(*                                                                         *)
(* The two pools differ in how a run ends.  In project2 (timed) main sets  *)
(* terminateFlag after some time and adds up the workers' counts; in       *)
(* project3 each worker stops by itself, when its work function returns    *)
(* true, and the flag is set when all have been joined.                    *)
(*                                                                         *)
(* The flags `sleeping` and terminateFlag are plain bools read without the *)
(* mutex: a read returns what was last written, or is done over.           *)
(***************************************************************************)
EXTENDS Naturals

CONSTANTS
    NumThread,
    MaxWork,        \* bound: calls of the work function per worker
    Nobody          \* the mutex is free

ASSUME NumThreadAssumption == NumThread \in Nat \ {0}
ASSUME MaxWorkAssumption == MaxWork \in Nat \ {0}

Worker == 1..NumThread

ASSUME NobodyAssumption == Nobody \notin Worker

VARIABLES
    timed,          \* whether the pool is project2's or project3's
    main,           \* where the main thread is
    tid,            \* its loop counter
    terminateFlag,
    mtx,            \* who holds mtxForWorkers (main never keeps it)
    worker,         \* worker[w]: where worker w is in threadFunc
    sleeping,       \* sleeping[w], the field of ThreadArg
    threadArgs,     \* the workers whose ThreadArg is allocated
    localCount,     \* how often each worker has called its work function
    checkSum,       \* runAndChecksum's sum
    spurious        \* history: a worker was woken without a broadcast

mainVars == <<main, tid, checkSum>>
fixed == <<timed, spurious>>
vars == <<timed, mainVars, terminateFlag, mtx, worker, sleeping, threadArgs,
          localCount, spurious>>

MainState == {"create", "awaitSleep", "ready", "timer", "join", "destroy", "joinUnused",
              "ended", "destroyed"}
WorkerState == {"none", "start", "locked", "asleep", "waiting", "woken", "loop",
                "work", "free", "exited", "joined"}

Init ==
    /\ timed \in BOOLEAN
    /\ main = "create"
    /\ tid = 1
    /\ terminateFlag = FALSE
    /\ mtx = Nobody
    /\ worker = [w \in Worker |-> "none"]
    /\ sleeping = [w \in Worker |-> FALSE]
    /\ threadArgs = {}
    /\ localCount = [w \in Worker |-> 0]
    /\ checkSum = 0
    /\ spurious = FALSE

become(w, state) == worker' = [worker EXCEPT ![w] = state]

-----------------------------------------------------------------------------
\* The constructor: allocate the argument and create thread tid ...
Create ==
    /\ main = "create"
    /\ threadArgs' = threadArgs \cup {tid}
    /\ become(tid, "start")
    /\ main' = "awaitSleep"
    /\ UNCHANGED <<fixed, tid, checkSum, terminateFlag, mtx, sleeping, localCount>>

\* ... and spin until it has set its flag.
AwaitSleep ==
    /\ main = "awaitSleep"
    /\ sleeping[tid]
    /\ IF tid < NumThread
         THEN tid' = tid + 1 /\ main' = "create"
         ELSE tid' = 1 /\ main' = "ready"
    /\ UNCHANGED <<fixed, checkSum, terminateFlag, mtx, worker, sleeping, threadArgs, localCount>>

\* pthread_cond_broadcast.
wakeAll == [w \in Worker |-> IF worker[w] = "waiting" THEN "woken" ELSE worker[w]]

RunSignal ==
    /\ main = "ready"
    /\ mtx = Nobody
    /\ \E w \in Worker : worker[w] = "waiting" /\ become(w, "woken")
    /\ main' = IF timed THEN "timer" ELSE "join"
    /\ UNCHANGED <<fixed, tid, checkSum, terminateFlag, mtx, sleeping, threadArgs, localCount>>

\* run and runAndChecksum begin with a broadcast under the mutex.
Run ==
    /\ main = "ready"
    /\ mtx = Nobody
    /\ worker' = wakeAll
    /\ main' = IF timed THEN "timer" ELSE "join"
    /\ UNCHANGED <<fixed, tid, checkSum, terminateFlag, mtx, sleeping, threadArgs, localCount>>

\* runAndChecksum's sleep is over.
TimeOver ==
    /\ main = "timer"
    /\ terminateFlag' = TRUE
    /\ main' = "join"
    /\ UNCHANGED <<fixed, tid, checkSum, mtx, worker, sleeping, threadArgs, localCount>>

\* The destructor, called on a pool that has not run.
SetFlagUnused ==
    /\ main = "ready"
    /\ terminateFlag' = TRUE
    /\ main' = "destroy"
    /\ UNCHANGED <<fixed, tid, checkSum, mtx, worker, sleeping, threadArgs, localCount>>

\* Its broadcast does not take the mutex.
Destroy ==
    /\ main = "destroy"
    /\ worker' = wakeAll
    /\ main' = "joinUnused"
    /\ UNCHANGED <<fixed, tid, checkSum, terminateFlag, mtx, sleeping, threadArgs, localCount>>

JoinUnused ==
    /\ main = "joinUnused"
    /\ worker[tid] = "exited"
    /\ become(tid, "joined")
    /\ IF tid < NumThread
         THEN tid' = tid + 1 /\ UNCHANGED main
         ELSE tid' = 1 /\ main' = "destroyed"
    /\ UNCHANGED <<fixed, checkSum, terminateFlag, mtx, sleeping, threadArgs, localCount>>

\* Faulty variants: the loop goes too far, or it ends too early and adds too little.
JoinTooFar ==
    /\ main = "join"
    /\ worker[tid] = "exited"
    /\ become(tid, "joined")
    /\ tid' = tid + 1
    /\ UNCHANGED <<fixed, main, checkSum, terminateFlag, mtx, sleeping, threadArgs, localCount>>

JoinTooFew ==
    /\ main = "join"
    /\ worker[tid] = "exited"
    /\ become(tid, "joined")
    /\ IF tid + 1 < NumThread
         THEN tid' = tid + 1 /\ UNCHANGED <<fixed, main, terminateFlag>>
         ELSE tid' = 1 /\ main' = "ended" /\ terminateFlag' = TRUE
    /\ UNCHANGED <<fixed, checkSum, mtx, sleeping, threadArgs, localCount>>

\* The loop of pthread_join that ends run and runAndChecksum.  After it
\* project3's run sets the flag (project2's is set), so that the destructor,
\* which comes next, does nothing.
Join ==
    /\ main = "join"
    /\ worker[tid] = "exited"
    /\ become(tid, "joined")
    /\ checkSum' = IF timed THEN checkSum + localCount[tid] ELSE checkSum
    /\ IF tid < NumThread
         THEN tid' = tid + 1 /\ UNCHANGED <<fixed, main, terminateFlag>>
         ELSE tid' = 1 /\ main' = "ended" /\ terminateFlag' = TRUE
    /\ UNCHANGED <<fixed, mtx, sleeping, threadArgs, localCount>>

-----------------------------------------------------------------------------
Lock(w) ==
    /\ worker[w] = "start"
    /\ mtx = Nobody
    /\ mtx' = w
    /\ become(w, "locked")
    /\ UNCHANGED <<fixed, mainVars, terminateFlag, sleeping, threadArgs, localCount>>

SetSleeping(w) ==
    /\ worker[w] = "locked"
    /\ sleeping' = [sleeping EXCEPT ![w] = TRUE]
    /\ become(w, "asleep")
    /\ UNCHANGED <<fixed, mainVars, terminateFlag, mtx, threadArgs, localCount>>

\* Faulty variant: the wait is skipped when the thread's own flag is set.
WaitUnlessSleeping(w) ==
    /\ worker[w] = "asleep"
    /\ mtx' = Nobody
    /\ become(w, IF sleeping[w] THEN "loop" ELSE "waiting")
    /\ UNCHANGED <<fixed, mainVars, terminateFlag, sleeping, threadArgs, localCount>>

\* pthread_cond_wait releases the mutex and blocks in one step.
Wait(w) ==
    /\ worker[w] = "asleep"
    /\ mtx' = Nobody
    /\ become(w, "waiting")
    /\ UNCHANGED <<fixed, mainVars, terminateFlag, sleeping, threadArgs, localCount>>

\* It may return although nobody called broadcast: POSIX allows it.
WakeSpuriously(w) ==
    /\ worker[w] = "waiting"
    /\ become(w, "woken")
    /\ spurious' = TRUE
    /\ UNCHANGED <<timed, mainVars, terminateFlag, mtx, sleeping, threadArgs, localCount>>

\* pthread_cond_wait returns with the mutex, which is released at once.
Wake(w) ==
    /\ worker[w] = "woken"
    /\ mtx = Nobody
    /\ become(w, "loop")
    /\ UNCHANGED <<fixed, mainVars, terminateFlag, mtx, sleeping, threadArgs, localCount>>

\* The loop's test.
Test(w) ==
    /\ worker[w] = "loop"
    /\ terminateFlag \/ localCount[w] < MaxWork
    /\ become(w, IF terminateFlag THEN "free" ELSE "work")
    /\ UNCHANGED <<fixed, mainVars, terminateFlag, mtx, sleeping, threadArgs, localCount>>

\* The work function returns; in project3 it may return true, which ends the
\* loop (under the bound it does so at the latest in call MaxWork).
Work(w) ==
    /\ worker[w] = "work"
    /\ localCount' = [localCount EXCEPT ![w] = @ + 1]
    /\ \/ (timed \/ localCount[w] + 1 < MaxWork) /\ become(w, "loop")
       \/ ~timed /\ become(w, "free")
    /\ UNCHANGED <<fixed, mainVars, terminateFlag, mtx, sleeping, threadArgs>>

\* Delete the argument and return the count.
Exit(w) ==
    /\ worker[w] = "free"
    /\ threadArgs' = threadArgs \ {w}
    /\ become(w, "exited")
    /\ UNCHANGED <<fixed, mainVars, terminateFlag, mtx, sleeping, localCount>>

-----------------------------------------------------------------------------
mainStep == Create \/ AwaitSleep \/ Run \/ TimeOver \/ SetFlagUnused \/ Destroy \/ JoinUnused \/ Join

threadFunc(w) ==
    Lock(w) \/ SetSleeping(w) \/ Wait(w) \/ Wake(w) \/ Test(w) \/ Work(w) \/ Exit(w)

Ended == main \in {"ended", "destroyed"} /\ UNCHANGED vars

Next == mainStep \/ (\E w \in Worker : threadFunc(w) \/ WakeSpuriously(w)) \/ Ended

\* Every thread is scheduled.  Nobody needs the mutex more than twice, so
\* weak fairness is enough for it.
Spec ==
    /\ Init /\ [][Next]_vars
    /\ WF_vars(mainStep) /\ \A w \in Worker : WF_vars(threadFunc(w))

-----------------------------------------------------------------------------
TypeOK ==
    /\ timed \in BOOLEAN /\ spurious \in BOOLEAN
    /\ main \in MainState
    /\ tid \in Worker
    /\ terminateFlag \in BOOLEAN
    /\ mtx \in Worker \cup {Nobody}
    /\ worker \in [Worker -> WorkerState]
    /\ sleeping \in [Worker -> BOOLEAN]
    /\ threadArgs \subseteq Worker
    /\ localCount \in [Worker -> 0..MaxWork]
    /\ checkSum \in Nat

\* "Start all at the same time": no worker is past its wait before the
\* broadcast.  Spurious wake-ups break this.
Started == {w \in Worker : worker[w] \in {"loop", "work", "free", "exited", "joined"}}
StartTogether == main \in {"create", "awaitSleep", "ready"} => Started = {}

\* A worker deletes its argument only when the constructor no longer reads
\* it (but for spurious wake-ups).
ArgAlive == main = "awaitSleep" /\ ~spurious => tid \in threadArgs

\* project2 prints the number of updates: the checksum misses none of them,
\* even those that finish after the flag was set.
ChecksumExact ==
    LET sum[n \in 0..NumThread] == IF n = 0 THEN 0 ELSE sum[n - 1] + localCount[n]
    IN  main = "ended" /\ timed => checkSum = sum[NumThread]

\* A run that has begun comes to its end, and so does the destructor of a pool
\* that has not run, if the last worker waits by then.  (If it has only said that
\* it sleeps, the broadcast without the mutex may miss it: then it waits, and the
\* destructor joins it, for ever.)
RunEnds ==
    /\ main \in {"timer", "join"} ~> main = "ended"
    /\ main = "destroy" /\ (\A w \in Worker : worker[w] # "asleep") ~> main = "destroyed"
=============================================================================
