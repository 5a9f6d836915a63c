----------------------------- MODULE PrimePool -----------------------------
(***************************************************************************)
(* Counting the primes of a range with a pool of threads (lab04, lab05).   *)
(* The variable `program` says which one runs:                             *)
(*   "create"  prime_mt.cpp: the threads are created anew for each range   *)
(*   "spin"    prime_cond.cpp: the workers wait for a broadcast, and main  *)
(*             polls their results                                         *)
(*   "signal"  prime_cond_step2.cpp: the last worker wakes main            *)
(*                                                                         *)
(* Nobody waits in a loop on a predicate, so a spurious wake-up is as good *)
(* as a broadcast.  The variable `disturbed` says that one has happened,   *)
(* until main starts a round with all workers at rest again.               *)
(***************************************************************************)
EXTENDS Integers, FiniteSets

CONSTANTS
    NUM_THREAD,
    Ranges,         \* the ranges that may be asked for
    MaxRounds,      \* ranges asked for before the end, at most
    MaxSpurious     \* spurious wake-ups, at most

Worker == 0..(NUM_THREAD - 1)

VARIABLES
    program,
    range,
    thread_ret,
    done,
    is_done,
    pcMain,
    tid,            \* the worker main creates or joins
    pc,
    part,           \* the part of the range a worker counts in
    finish_order,
    printed,
    rounds, spurious, disturbed

main == <<pcMain, tid, range, printed, rounds>>
worker == <<pc, part, finish_order>>
env == <<spurious, disturbed>>
vars == <<program, thread_ret, done, is_done, main, worker, env>>

Program == {"create", "spin", "signal"}

Fresh ==
    /\ range = [start |-> 0, end |-> 0]
    /\ thread_ret = [t \in Worker |-> 0]
    /\ done = 0
    /\ is_done = FALSE
    /\ pcMain = IF program = "create" THEN "input" ELSE "create"
    /\ tid = 0
    /\ pc = [t \in Worker |-> "none"]
    /\ part = [t \in Worker |-> {}]
    /\ finish_order = [t \in Worker |-> 0]
    /\ printed = 0
    /\ rounds = 0
    /\ spurious = 0
    /\ disturbed = FALSE

Init == program \in Program /\ Fresh

\* Trial division up to the square root.
IsPrime(n) == n >= 2 /\ \A i \in 2..n : i * i <= n => n % i # 0

\* The last worker takes what the division leaves.
Split(t) ==
    LET share == (range.end - range.start + 1) \div NUM_THREAD
        start == range.start + share * t
        end == IF t = NUM_THREAD - 1 THEN range.end + 1
               ELSE range.start + share * (t + 1)
    IN  start..(end - 1)

goto(t, label) == pc' = [pc EXCEPT ![t] = label]
\* A worker holds mtx_for_workers, and main not for longer than a step.
locked == \E t \in Worker : pc[t] \in {"fall asleep", "increment", "signal"}
Sum == LET sum[n \in 0..NUM_THREAD] ==
               IF n = 0 THEN 0 ELSE sum[n - 1] + thread_ret[n - 1]
       IN  sum[NUM_THREAD]

-----------------------------------------------------------------------------
\* ThreadFunc.

\* The pools' workers report that they are there, and wait.
Start(t) ==
    /\ program # "create"
    /\ pc[t] = "start"
    /\ ~locked
    /\ thread_ret' = [thread_ret EXCEPT ![t] = -1]
    /\ goto(t, "fall asleep")
    /\ UNCHANGED <<program, done, is_done, main, part, finish_order, env>>

FallAsleep(t) ==
    /\ pc[t] = "fall asleep"
    /\ goto(t, "asleep")
    /\ UNCHANGED <<program, thread_ret, done, is_done, main, part, finish_order, env>>

\* It has the mutex back, and releases it.
Wake(t) ==
    /\ pc[t] = "woken"
    /\ ~locked
    /\ goto(t, "loop")
    /\ UNCHANGED <<program, thread_ret, done, is_done, main, part, finish_order, env>>

TakePart(t) ==
    /\ \/ program = "create" /\ pc[t] = "start"
       \/ pc[t] = "loop" /\ ~is_done
    /\ part' = [part EXCEPT ![t] = Split(t)]
    /\ goto(t, "count")
    /\ UNCHANGED <<program, thread_ret, done, is_done, main, finish_order, env>>

Return(t) ==
    /\ pc[t] = "loop"
    /\ is_done
    /\ goto(t, "returned")
    /\ UNCHANGED <<program, thread_ret, done, is_done, main, part, finish_order, env>>

\* In "spin" the worker keeps the mutex until it waits.
Count(t) ==
    /\ pc[t] = "count"
    /\ program = "spin" => ~locked
    /\ thread_ret' = [thread_ret EXCEPT ![t] = Cardinality({n \in part[t] : IsPrime(n)})]
    /\ goto(t, CASE program = "create" -> "returned"
                 [] program = "spin" -> "fall asleep"
                 [] program = "signal" -> "report")
    /\ UNCHANGED <<program, done, is_done, main, part, finish_order, env>>

\* done++ in two steps, as main resets it without the mutex.
Report(t) ==
    /\ pc[t] = "report"
    /\ ~locked
    /\ finish_order' = [finish_order EXCEPT ![t] = done]
    /\ goto(t, "increment")
    /\ UNCHANGED <<program, thread_ret, done, is_done, main, part, env>>

Increment(t) ==
    /\ pc[t] = "increment"
    /\ done' = finish_order[t] + 1
    /\ goto(t, IF finish_order[t] = NUM_THREAD - 1 THEN "signal" ELSE "fall asleep")
    /\ UNCHANGED <<program, thread_ret, is_done, main, part, finish_order, env>>

\* mtx_for_main is free: main holds it no longer than the step that makes it wait.
Signal(t) ==
    /\ pc[t] = "signal"
    /\ pcMain' = IF pcMain = "asleep" THEN "collect" ELSE pcMain
    /\ goto(t, "fall asleep")
    /\ UNCHANGED <<program, thread_ret, done, is_done, tid, range, printed, rounds,
                   part, finish_order, env>>

WakeSpuriously(t) ==
    /\ spurious < MaxSpurious
    /\ pc[t] = "asleep"
    /\ goto(t, "woken")
    /\ spurious' = spurious + 1
    /\ disturbed' = TRUE
    /\ UNCHANGED <<program, thread_ret, done, is_done, main, part, finish_order>>

ThreadFunc(t) ==
    \/ Start(t) \/ FallAsleep(t) \/ Wake(t)
    \/ TakePart(t) \/ Return(t) \/ Count(t)
    \/ Report(t) \/ Increment(t) \/ Signal(t)

-----------------------------------------------------------------------------
\* main.

\* A round of a loop over the workers, which goes on at `label` or ends.
loop(label, last) ==
    /\ tid' = (tid + 1) % NUM_THREAD
    /\ pcMain' = IF tid = NUM_THREAD - 1 THEN last ELSE label

Create ==
    /\ pcMain = "create"
    /\ pc' = [pc EXCEPT ![tid] = "start"]
    /\ IF program = "create"
         THEN loop("create", "join")
         ELSE pcMain' = "await" /\ UNCHANGED tid
    /\ UNCHANGED <<program, thread_ret, done, is_done, range, printed, rounds,
                   part, finish_order, env>>

\* The pools' main waits for the new worker to hold the mutex.
AwaitStart ==
    /\ pcMain = "await"
    /\ thread_ret[tid] = -1
    /\ loop("create", "input")
    /\ UNCHANGED <<program, thread_ret, done, is_done, range, printed, rounds, worker, env>>

\* A range, ...
Input ==
    /\ pcMain = "input"
    /\ rounds < MaxRounds
    /\ range' \in Ranges
    /\ rounds' = rounds + 1
    /\ pcMain' = IF program = "create" THEN "create" ELSE "reset"
    /\ UNCHANGED <<program, thread_ret, done, is_done, tid, printed, worker, env>>

\* ... or -1 for its start, which is the end.
Quit ==
    /\ pcMain = "input"
    /\ range' = [range EXCEPT !.start = -1]
    /\ is_done' = (program # "create")
    /\ pcMain' = IF program = "create" THEN "end" ELSE "broadcast"
    /\ UNCHANGED <<program, thread_ret, done, tid, printed, rounds, worker, env>>

\* A worker whose result main has seen is at rest even before it waits.
AtRest(t) == pc[t] \in {"fall asleep", "asleep", "signal"}

\* Faulty variant: the results of the round before are left.
ResetDoneOnly ==
    /\ pcMain = "reset"
    /\ done' = 0
    /\ pcMain' = "broadcast"
    /\ disturbed' = \E t \in Worker : ~AtRest(t)
    /\ UNCHANGED <<program, thread_ret, is_done, tid, range, printed, rounds, worker, spurious>>

Reset ==
    /\ pcMain = "reset"
    /\ thread_ret' = [t \in Worker |-> -1]
    /\ done' = 0
    /\ pcMain' = "broadcast"
    /\ disturbed' = \E t \in Worker : ~AtRest(t)
    /\ UNCHANGED <<program, is_done, tid, range, printed, rounds, worker, spurious>>

\* Faulty variant: main does not lock mtx_for_workers.
BroadcastUnlocked ==
    /\ pcMain = "broadcast"
    /\ pc' = [t \in Worker |-> IF pc[t] = "asleep" THEN "woken" ELSE pc[t]]
    /\ pcMain' = IF is_done THEN "join" ELSE "wait"
    /\ UNCHANGED <<program, thread_ret, done, is_done, tid, range, printed, rounds,
                   part, finish_order, env>>

Broadcast ==
    /\ pcMain = "broadcast"
    /\ ~locked
    /\ pc' = [t \in Worker |-> IF pc[t] = "asleep" THEN "woken" ELSE pc[t]]
    /\ pcMain' = IF is_done THEN "join" ELSE "wait"
    /\ UNCHANGED <<program, thread_ret, done, is_done, tid, range, printed, rounds,
                   part, finish_order, env>>

\* Every result is there; otherwise main looks again.
AwaitResults ==
    /\ pcMain = "wait"
    /\ program = "spin"
    /\ \A t \in Worker : thread_ret[t] # -1
    /\ pcMain' = "collect"
    /\ UNCHANGED <<program, thread_ret, done, is_done, tid, range, printed, rounds, worker, env>>

Poll ==
    /\ \/ pcMain = "await" /\ thread_ret[tid] # -1
       \/ pcMain = "wait" /\ program = "spin" /\ \E t \in Worker : thread_ret[t] = -1
    /\ UNCHANGED vars

\* The test and the wait under mtx_for_main.
AwaitSignal ==
    /\ pcMain = "wait"
    /\ program = "signal"
    /\ pcMain' = IF done < NUM_THREAD THEN "asleep" ELSE "collect"
    /\ UNCHANGED <<program, thread_ret, done, is_done, tid, range, printed, rounds, worker, env>>

WakeMainSpuriously ==
    /\ spurious < MaxSpurious
    /\ pcMain = "asleep"
    /\ pcMain' = "collect"
    /\ spurious' = spurious + 1
    /\ disturbed' = TRUE
    /\ UNCHANGED <<program, thread_ret, done, is_done, tid, range, printed, rounds, worker>>

Collect ==
    /\ pcMain = "collect"
    /\ printed' = Sum
    /\ done' = 0
    /\ pcMain' = "input"
    /\ UNCHANGED <<program, thread_ret, is_done, tid, range, rounds, worker, env>>

\* The pools' threads are joined at the end, the others in each round.
Join ==
    /\ pcMain = "join"
    /\ pc[tid] = "returned"
    /\ loop("join", IF program = "create" THEN "collect" ELSE "end")
    /\ UNCHANGED <<program, thread_ret, done, is_done, range, printed, rounds, worker, env>>

mainStep ==
    \/ Create \/ AwaitStart \/ Input \/ Quit
    \/ Reset \/ Broadcast
    \/ AwaitResults \/ AwaitSignal
    \/ Collect \/ Join

Ended == pcMain = "end" /\ UNCHANGED vars

Next ==
    \/ mainStep \/ Poll \/ Ended
    \/ \E t \in Worker : ThreadFunc(t) \/ WakeSpuriously(t)
    \/ WakeMainSpuriously

Fairness ==
    /\ WF_vars(mainStep)
    /\ \A t \in Worker : WF_vars(ThreadFunc(t))

Spec == Init /\ [][Next]_vars /\ Fairness

-----------------------------------------------------------------------------
\* The number main prints is that of the primes in the range, in each round
\* that no spurious wake-up disturbs - whatever happened in an earlier one.
CountExact ==
    pcMain = "input" /\ rounds > 0 /\ ~disturbed =>
        printed = Cardinality({n \in range.start..range.end :
                                   n > 1 /\ \A d \in 2..(n - 1) : n % d # 0})

\* main has joined all threads.  (It does not come to this when a spurious
\* wake-up makes a worker miss the last broadcast.)
Ending == pcMain = "end" /\ \A t \in Worker : pc[t] \in {"none", "returned"}
=============================================================================
