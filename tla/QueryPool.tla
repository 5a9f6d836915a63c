----------------------------- MODULE QueryPool -----------------------------
(***************************************************************************)
(* The query pool of project1 (main.cpp): main hands each query it reads   *)
(* to the next of its workers, each of which has a mutex and a condition   *)
(* variable of its own, and prints the results in the order of the queries *)
(* when a line F ends the batch or when all workers are taken.             *)
(*                                                                         *)
(* Queries are numbered as they are read, and the result of a query is its *)
(* number.  thread_ret is read and written without the mutex as well, and  *)
(* says by the value -1 that no result is there yet.                       *)
(***************************************************************************)
EXTENDS Integers, Sequences

CONSTANTS
    NumThread,      \* NUM_THREAD, 47 in the program
    MaxLines        \* bound: lines of input after the relations

ASSUME NumThreadAssumption == NumThread \in Nat \ {0}
ASSUME MaxLinesAssumption == MaxLines \in Nat

Worker == 0..NumThread - 1
Query == 1..MaxLines
none == -1          \* (string *)-1
null == 0           \* a null pointer

VARIABLES
    main,               \* where the main thread is
    i,                  \* its loop counters
    query,              \* the query it has parsed and not handed over, or null
    num_active_thread,
    is_done,
    thread_arg,         \* thread_arg[w]: the query for worker w
    thread_ret,         \* thread_ret[w]: its result
    result,             \* result[w]: the one that worker w is to publish, or null
    held,               \* held[w]: worker w has its mutex
    worker,             \* worker[w]: where worker w is in thread_func
    lines,              \* number of lines read
    asked,              \* number of queries among them
    output,             \* the results printed
    spurious            \* history: a worker was woken without a signal

input == <<lines, asked>>
passing == <<thread_arg, thread_ret, result>>
vars == <<main, i, query, num_active_thread, is_done, passing, held, worker,
          input, output, spurious>>

Init ==
    /\ main = "create"
    /\ i = 0
    /\ query = null
    /\ num_active_thread = 0
    /\ is_done = FALSE
    /\ thread_arg = [w \in Worker |-> null]
    /\ thread_ret = [w \in Worker |-> null]
    /\ result = [w \in Worker |-> null]
    /\ held = [w \in Worker |-> FALSE]
    /\ worker = [w \in Worker |-> "none"]
    /\ lines = 0 /\ asked = 0
    /\ output = <<>>
    /\ spurious = FALSE

become(w, state) == worker' = [worker EXCEPT ![w] = state]

-----------------------------------------------------------------------------
Create ==
    /\ main = "create"
    /\ become(i, "start")
    /\ main' = "awaitWorker"
    /\ UNCHANGED <<i, query, num_active_thread, is_done, passing, held, input, output, spurious>>

\* Spin until the worker has set its flag to -1.
AwaitWorker ==
    /\ main = "awaitWorker"
    /\ thread_ret[i] = none
    /\ IF i + 1 < NumThread THEN i' = i + 1 /\ main' = "create"
                            ELSE i' = 0 /\ main' = "read"
    /\ UNCHANGED <<query, num_active_thread, is_done, passing, held, worker, input, output, spurious>>

\* The line F ends a batch.
ReadF ==
    /\ main = "read"
    /\ lines < MaxLines
    /\ lines' = lines + 1
    /\ main' = "flush"
    /\ UNCHANGED <<i, query, num_active_thread, is_done, passing, held, worker, asked, output, spurious>>

\* Any other line is a query; when no worker is left the batch is flushed.
ReadQuery ==
    /\ main = "read"
    /\ lines < MaxLines
    /\ lines' = lines + 1
    /\ asked' = asked + 1
    /\ query' = asked + 1
    /\ main' = IF num_active_thread = NumThread THEN "flush" ELSE "pass"
    /\ UNCHANGED <<i, num_active_thread, is_done, passing, held, worker, output, spurious>>

\* Faulty variant: results are not waited for.
FlushAtOnce ==
    /\ main = "flush"
    /\ i < num_active_thread
    /\ output' = Append(output, thread_ret[i])
    /\ thread_ret' = [thread_ret EXCEPT ![i] = none]
    /\ i' = i + 1
    /\ UNCHANGED <<main, query, num_active_thread, is_done, thread_arg, result, held, worker, input, spurious>>

\* flush_all_thread: spin for the next worker's result and print it ...
Flush ==
    /\ main = "flush"
    /\ i < num_active_thread
    /\ thread_ret[i] # none
    /\ output' = Append(output, thread_ret[i])
    /\ thread_ret' = [thread_ret EXCEPT ![i] = none]
    /\ i' = i + 1
    /\ UNCHANGED <<main, query, num_active_thread, is_done, thread_arg, result, held, worker, input, spurious>>

\* Faulty variant: the last result stays.
FlushedEarly ==
    /\ main = "flush"
    /\ i + 1 >= num_active_thread
    /\ i' = 0
    /\ num_active_thread' = 0
    /\ main' = IF query = null THEN "read" ELSE "pass"
    /\ UNCHANGED <<query, is_done, passing, held, worker, input, output, spurious>>

\* ... until there are no more.
Flushed ==
    /\ main = "flush"
    /\ i = num_active_thread
    /\ i' = 0
    /\ num_active_thread' = 0
    /\ main' = IF query = null THEN "read" ELSE "pass"
    /\ UNCHANGED <<query, is_done, passing, held, worker, input, output, spurious>>

\* Hand the query to the next worker ...
Pass ==
    /\ main = "pass"
    /\ thread_arg' = [thread_arg EXCEPT ![num_active_thread] = query]
    /\ thread_ret' = [thread_ret EXCEPT ![num_active_thread] = none]
    /\ query' = null
    /\ main' = "signal"
    /\ UNCHANGED <<i, num_active_thread, is_done, result, held, worker, input, output, spurious>>

\* pthread_cond_signal under the worker's mutex.
signal(w) ==
    /\ ~held[w]
    /\ worker' = IF worker[w] = "waiting" THEN [worker EXCEPT ![w] = "woken"] ELSE worker

\* ... and wake it.
Signal ==
    /\ main = "signal"
    /\ signal(num_active_thread)
    /\ num_active_thread' = num_active_thread + 1
    /\ main' = "read"
    /\ UNCHANGED <<i, query, is_done, passing, held, input, output, spurious>>

\* The input is at its end.
EndOfInput ==
    /\ main = "read"
    /\ is_done' = TRUE
    /\ main' = "stop"
    /\ UNCHANGED <<i, query, num_active_thread, passing, held, worker, input, output, spurious>>

Stop ==
    /\ main = "stop"
    /\ signal(i)
    /\ main' = "join"
    /\ UNCHANGED <<i, query, num_active_thread, is_done, passing, held, input, output, spurious>>

Join ==
    /\ main = "join"
    /\ worker[i] = "exited"
    /\ IF i + 1 < NumThread THEN i' = i + 1 /\ main' = "stop"
                            ELSE i' = 0 /\ main' = "ended"
    /\ UNCHANGED <<query, num_active_thread, is_done, passing, held, worker, input, output, spurious>>

-----------------------------------------------------------------------------
\* Faulty variant: thread_ret is set before the mutex is taken.
FallAsleepUnlocked(w) ==
    /\ worker[w] \in {"start", "result"}
    /\ thread_ret' = [thread_ret EXCEPT ![w] = IF worker[w] = "start" THEN none ELSE result[w]]
    /\ result' = [result EXCEPT ![w] = null]
    /\ become(w, "asleep")
    /\ UNCHANGED <<main, i, query, num_active_thread, is_done, thread_arg, held, input, output, spurious>>

\* Take the mutex and set thread_ret: to -1 at first, then to the result.
FallAsleep(w) ==
    /\ worker[w] \in {"start", "result"}
    /\ thread_ret' = [thread_ret EXCEPT ![w] = IF worker[w] = "start" THEN none ELSE result[w]]
    /\ result' = [result EXCEPT ![w] = null]
    /\ held' = [held EXCEPT ![w] = TRUE]
    /\ become(w, "asleep")
    /\ UNCHANGED <<main, i, query, num_active_thread, is_done, thread_arg, input, output, spurious>>

\* pthread_cond_wait releases the mutex and blocks in one step ...
Wait(w) ==
    /\ worker[w] = "asleep"
    /\ held' = [held EXCEPT ![w] = FALSE]
    /\ become(w, "waiting")
    /\ UNCHANGED <<main, i, query, num_active_thread, is_done, passing, input, output, spurious>>

\* ... may return although nobody signalled ...
WakeSpuriously(w) ==
    /\ main # "crashed"
    /\ worker[w] = "waiting"
    /\ become(w, "woken")
    /\ spurious' = TRUE
    /\ UNCHANGED <<main, i, query, num_active_thread, is_done, passing, held, input, output>>

\* ... and returns with the mutex, which is released at once.  (main has it
\* only while it signals, which is one step.)
Wake(w) ==
    /\ worker[w] = "woken"
    /\ become(w, "loop")
    /\ UNCHANGED <<main, i, query, num_active_thread, is_done, passing, held, input, output, spurious>>

\* The loop's test.
Test(w) ==
    /\ worker[w] = "loop"
    /\ become(w, IF is_done THEN "exited" ELSE "work")
    /\ UNCHANGED <<main, i, query, num_active_thread, is_done, passing, held, input, output, spurious>>

\* Run the query that thread_arg points to now: main may have passed another
\* one when the result is published, if the worker was woken spuriously.
Work(w) ==
    /\ worker[w] = "work"
    /\ thread_arg[w] # null
    /\ result' = [result EXCEPT ![w] = thread_arg[w]]
    /\ become(w, "result")
    /\ UNCHANGED <<main, i, query, num_active_thread, is_done, thread_arg, thread_ret, held, input,
                   output, spurious>>

\* Woken spuriously before its first query, a worker follows a null pointer,
\* and the program crashes.
Crash(w) ==
    /\ worker[w] = "work"
    /\ thread_arg[w] = null
    /\ main' = "crashed"
    /\ UNCHANGED <<i, query, num_active_thread, is_done, passing, held, worker, input, output, spurious>>

-----------------------------------------------------------------------------
mainStep ==
    \/ Create \/ AwaitWorker
    \/ ReadF \/ ReadQuery \/ Flush \/ Flushed \/ Pass \/ Signal
    \/ EndOfInput \/ Stop \/ Join

thread_func(w) ==
    /\ main # "crashed"
    /\ FallAsleep(w) \/ Wait(w) \/ Wake(w) \/ Test(w) \/ Work(w) \/ Crash(w)

Ended == main \in {"ended", "crashed"} /\ UNCHANGED vars

Next == mainStep \/ (\E w \in Worker : thread_func(w) \/ WakeSpuriously(w)) \/ Ended

Spec ==
    /\ Init /\ [][Next]_vars
    /\ WF_vars(mainStep) /\ \A w \in Worker : WF_vars(thread_func(w))

-----------------------------------------------------------------------------
\* Whatever the workers' speed, the results are printed in the order of the
\* queries, none twice and none of an earlier batch again.
OutputInOrder == ~spurious => \A n \in 1..Len(output) : output[n] = n

\* The signal that hands over a query finds its worker waiting, though main
\* has seen only the result that the worker stored before it waits.
SignalsReach ==
    [][main = "signal" /\ main' = "read" /\ ~spurious =>
        worker'[num_active_thread] = "woken"]_vars

\* The program ends with its input if no worker is running a query then, whether
\* or not all results are printed.  (It hangs if one is: the worker misses its
\* only signal, goes to sleep when it has the result, and main joins it.)
EndsIfIdle ==
    /\ main = "stop"
    /\ \A w \in Worker : worker[w] \notin {"work", "result"}
    /\ ~spurious
    ~> main = "ended" \/ spurious
=============================================================================
