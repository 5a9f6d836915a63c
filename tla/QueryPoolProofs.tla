-------------------------- MODULE QueryPoolProofs --------------------------
(***************************************************************************)
(* Proofs about the query pool of project1, for any number of workers and  *)
(* lines of input, whoever feeds it: while no worker is woken spuriously,  *)
(* each result is printed once and in order, and no signal is lost.        *)
(***************************************************************************)
EXTENDS Harness, FiniteSetTheorems, WellFoundedInduction, TLAPS

-----------------------------------------------------------------------------
(* The inductive invariant                                                 *)

WorkerState == {"none", "start", "asleep", "waiting", "woken", "loop", "work", "result", "exited"}

PoolTypeOK ==
    /\ i \in 0..NumThread
    /\ num_active_thread \in 0..NumThread
    /\ query \in Nat
    /\ is_done \in BOOLEAN
    /\ thread_arg \in [Worker -> Nat]
    /\ thread_ret \in [Worker -> Nat \cup {none}]
    /\ result \in [Worker -> Nat]
    /\ held \in [Worker -> BOOLEAN]
    /\ worker \in [Worker -> WorkerState]
    /\ asked \in Nat
    /\ output \in Seq(Nat \cup {none})
    /\ spurious \in BOOLEAN
    /\ main \in {"pass", "signal"} => num_active_thread < NumThread

\* A worker has not been created; ...
Absent(w) == worker[w] = "none" /\ thread_ret[w] = null
\* ... waits for its first query or the next one, or is about to wait; ...
Idle(w) == worker[w] \in {"asleep", "waiting"} /\ thread_ret[w] = none
\* ... has been created and may not wait yet; ...
New(w) == (worker[w] = "start" /\ thread_ret[w] = null) \/ Idle(w)
\* ... has query q, and then its result, which main has not printed.
Busy(w, q) ==
    /\ thread_arg[w] = q
    /\ worker[w] = "result" => result[w] = q
    /\ \/ worker[w] \in {"woken", "loop", "work", "result"} /\ thread_ret[w] = none
       \/ worker[w] \in {"asleep", "waiting"} /\ thread_ret[w] = q

\* The queries of the batch that are not printed are those of the workers from
\* i to num_active_thread - 1, in their order; in a flush, i are printed.
BatchOK ==
    \A w \in Worker :
        IF i <= w /\ w < num_active_thread
          THEN Busy(w, Len(output) + 1 + w - i)
          ELSE Idle(w)

\* The pool from the start of main to the end of the input.
PhaseOK ==
    /\ ~is_done
    /\ \A w \in Worker : held[w] <=> worker[w] = "asleep"
    /\ \A n \in 1..Len(output) : output[n] = n
    /\ main \in {"create", "awaitWorker", "read", "flush", "pass", "signal"}
    /\ main \in {"create", "awaitWorker"} =>
        /\ output = <<>> /\ asked = 0 /\ query = null /\ num_active_thread = 0
        /\ i < NumThread
        /\ \A w \in Worker : /\ w < i => Idle(w)
                             /\ w = i => IF main = "create" THEN Absent(w) ELSE New(w)
                             /\ w > i => Absent(w)
    /\ main \notin {"create", "awaitWorker"} => BatchOK
    /\ main \in {"read", "pass", "signal"} => i = 0
    /\ main = "read" => query = null /\ asked = Len(output) + num_active_thread
    /\ main = "flush" =>
        /\ i <= num_active_thread
        /\ i <= Len(output)
        /\ \/ query = null /\ asked = Len(output) + num_active_thread - i
           \/ query = asked /\ asked = Len(output) + num_active_thread - i + 1
    /\ main \in {"pass", "signal"} => asked = Len(output) + num_active_thread + 1
    /\ main = "pass" => query = asked
    /\ main = "signal" => query = null /\ thread_arg[num_active_thread] = asked

\* At the end nothing is printed any more.
EndOK ==
    /\ main \in {"stop", "join", "ended", "crashed"}
    /\ \A n \in 1..Len(output) : output[n] = n

PoolInv == PoolTypeOK /\ (spurious \/ PhaseOK \/ EndOK)

-----------------------------------------------------------------------------
(* Helpers                                                                 *)

\* There is a worker, and a worker is a number.
LEMMA WorkerFacts ==
    /\ NumThread \in Nat /\ NumThread > 0 /\ 0 \in Worker
    /\ \A w \in Worker : w \in Nat /\ w < NumThread
    /\ \A k \in Nat : k < NumThread => k \in Worker
    /\ none \notin Nat /\ null \in Nat
BY NumThreadAssumption DEF Worker, none, null

\* The variables keep their types.
LEMMA PoolTypeStep == PoolTypeOK /\ [Next]_vars => PoolTypeOK'
<1> SUFFICES ASSUME PoolTypeOK, [Next]_vars PROVE PoolTypeOK'
  OBVIOUS
<1>0. /\ NumThread \in Nat /\ num_active_thread \in Nat /\ i \in Nat
      /\ i <= NumThread /\ num_active_thread <= NumThread
      /\ NumThread > 0
  BY WorkerFacts DEF PoolTypeOK
<1>1. CASE UNCHANGED vars
  BY <1>1 DEF vars, passing, input, PoolTypeOK
<1>2. CASE Create
  BY <1>2 DEF Create, become, passing, input, PoolTypeOK, WorkerState
<1>3. CASE AwaitWorker
  BY <1>0, <1>3 DEF AwaitWorker, passing, input, PoolTypeOK
<1>4. CASE ReadF
  BY <1>4 DEF ReadF, passing, input, PoolTypeOK
<1>5. CASE ReadQuery
  BY <1>0, <1>5 DEF ReadQuery, passing, PoolTypeOK
<1>6. CASE Flush
  <2>1. i \in Worker /\ thread_ret[i] \in Nat \cup {none} /\ i + 1 \in 0..NumThread
    BY <1>0, <1>6, WorkerFacts DEF Flush, PoolTypeOK
  <2>2. output' \in Seq(Nat \cup {none})
    BY <1>6, <2>1 DEF Flush, PoolTypeOK
  <2>3. thread_ret' \in [Worker -> Nat \cup {none}]
    BY <1>6 DEF Flush, PoolTypeOK
  <2> QED
    BY <1>6, <2>1, <2>2, <2>3 DEF Flush, input, PoolTypeOK
<1>7. CASE Flushed
  BY <1>0, <1>7 DEF Flushed, passing, input, PoolTypeOK
<1>8. CASE Pass
  <2>1. /\ thread_arg' \in [Worker -> Nat]
        /\ thread_ret' \in [Worker -> Nat \cup {none}]
    BY <1>8 DEF Pass, PoolTypeOK
  <2> QED
    BY <1>0, <1>8, <2>1, WorkerFacts DEF Pass, input, PoolTypeOK
<1>9. CASE Signal
  <2>1. worker' \in [Worker -> WorkerState]
    BY <1>9 DEF Signal, signal, PoolTypeOK, WorkerState
  <2> QED
    BY <1>0, <1>9, <2>1 DEF Signal, passing, input, PoolTypeOK
<1>10. CASE EndOfInput
  BY <1>10 DEF EndOfInput, passing, input, PoolTypeOK
<1>11. CASE Stop
  <2>1. worker' \in [Worker -> WorkerState]
    BY <1>11 DEF Stop, signal, PoolTypeOK, WorkerState
  <2> QED
    BY <1>11, <2>1 DEF Stop, passing, input, PoolTypeOK
<1>12. CASE Join
  BY <1>0, <1>12 DEF Join, passing, input, PoolTypeOK
<1>13. ASSUME NEW w \in Worker, thread_func(w) \/ WakeSpuriously(w) PROVE PoolTypeOK'
  <2>1. worker' \in [Worker -> WorkerState]
    BY <1>13 DEF PoolTypeOK, WorkerState, become, thread_func, WakeSpuriously,
                 FallAsleep, Wait, Wake, Test, Work, Crash
  <2>2. /\ thread_ret' \in [Worker -> Nat \cup {none}]
        /\ result' \in [Worker -> Nat]
        /\ held' \in [Worker -> BOOLEAN]
    <3>0. /\ thread_arg[w] \in Nat /\ result[w] \in Nat /\ null \in Nat
          /\ thread_ret \in [Worker -> Nat \cup {none}]
          /\ result \in [Worker -> Nat] /\ held \in [Worker -> BOOLEAN]
      BY WorkerFacts DEF PoolTypeOK
    <3>1. CASE FallAsleep(w)
      BY <3>0, <3>1 DEF FallAsleep
    <3>2. CASE Work(w)
      BY <3>0, <3>2 DEF Work
    <3>3. CASE Wait(w)
      BY <3>0, <3>3 DEF Wait, passing
    <3>4. CASE Wake(w) \/ Test(w) \/ Crash(w) \/ WakeSpuriously(w)
      BY <3>0, <3>4 DEF WakeSpuriously, passing, Wake, Test, Crash
    <3> QED
      BY <1>13, <3>1, <3>2, <3>3, <3>4 DEF thread_func
  <2>3. UNCHANGED <<i, num_active_thread, query, is_done, thread_arg, asked, output>>
        /\ spurious' \in BOOLEAN /\ (main' = main \/ main' = "crashed")
    BY <1>13 DEF PoolTypeOK, thread_func, WakeSpuriously, passing, input,
                 FallAsleep, Wait, Wake, Test, Work, Crash
  <2> QED
    BY <2>1, <2>2, <2>3 DEF PoolTypeOK
<1> QED
  BY <1>1, <1>2, <1>3, <1>4, <1>5, <1>6, <1>7, <1>8, <1>9, <1>10, <1>11, <1>12, <1>13
     DEF Next, mainStep, Ended

\* A step of a worker: what main and the other workers have stays as it is, and
\* the worker goes on from idle to idle, or with its query towards the result.
LEMMA WorkerStep ==
    ASSUME PoolTypeOK, ~is_done, NEW w \in Worker, thread_func(w)
    PROVE  /\ UNCHANGED <<i, query, num_active_thread, is_done, thread_arg, input, output, spurious>>
           /\ \A u \in Worker \ {w} : /\ worker'[u] = worker[u]
                                      /\ held'[u] = held[u]
                                      /\ thread_ret'[u] = thread_ret[u]
                                      /\ result'[u] = result[u]
           /\ ~Absent(w)
           /\ Idle(w) => Idle(w)' /\ main' = main
           /\ New(w) => New(w)' /\ main' = main
           /\ \A q \in Nat \ {0} : Busy(w, q) => Busy(w, q)' /\ main' = main
           /\ (held[w] <=> worker[w] = "asleep") => (held'[w] <=> worker'[w] = "asleep")
<1>0. /\ worker[w] \in WorkerState /\ DOMAIN worker = Worker /\ DOMAIN held = Worker
      /\ DOMAIN thread_ret = Worker /\ DOMAIN result = Worker
  BY DEF PoolTypeOK
<1>1. CASE FallAsleep(w)
  BY <1>0, <1>1 DEF FallAsleep, become, input, PoolTypeOK, Absent, Idle, New, Busy
<1>2. CASE Wait(w)
  BY <1>0, <1>2 DEF Wait, become, input, passing, PoolTypeOK, Absent, Idle, New, Busy
<1>3. CASE Wake(w)
  BY <1>0, <1>3 DEF Wake, become, input, passing, PoolTypeOK, Absent, Idle, New, Busy
<1>4. CASE Test(w)
  BY <1>0, <1>4 DEF Test, become, input, passing, PoolTypeOK, Absent, Idle, New, Busy
<1>5. CASE Work(w)
  BY <1>0, <1>5 DEF Work, become, input, passing, PoolTypeOK, Absent, Idle, New, Busy
<1>6. CASE Crash(w)
  BY <1>0, <1>6 DEF Crash, input, passing, PoolTypeOK, Absent, Idle, New, Busy, null
<1> QED
  BY <1>1, <1>2, <1>3, <1>4, <1>5, <1>6 DEF thread_func

\* What is said of a worker whose variables stay goes on to hold.
LEMMA WorkerStays ==
    ASSUME NEW u, thread_arg'[u] = thread_arg[u], thread_ret'[u] = thread_ret[u],
           worker'[u] = worker[u], result'[u] = result[u]
    PROVE  /\ Idle(u) => Idle(u)'
           /\ New(u) => New(u)'
           /\ Absent(u) => Absent(u)'
           /\ \A q : Busy(u, q) => Busy(u, q)'
BY DEF Idle, New, Absent, Busy

\* A worker's step keeps the pool in order, ...
LEMMA WorkerKeepsPhase ==
    ASSUME PoolTypeOK, PhaseOK, NEW w \in Worker, thread_func(w) PROVE PhaseOK'
<1>0. /\ NumThread \in Nat /\ i \in Nat /\ num_active_thread \in Nat /\ w \in Nat
      /\ ~is_done /\ output \in Seq(Nat \cup {none}) /\ Len(output) \in Nat
  BY WorkerFacts DEF PoolTypeOK, PhaseOK
<1>1. /\ UNCHANGED <<i, query, num_active_thread, is_done, thread_arg, lines, asked, output>>
      /\ \A u \in Worker \ {w} : /\ worker'[u] = worker[u]
                                 /\ held'[u] = held[u]
                                 /\ thread_ret'[u] = thread_ret[u]
                                 /\ result'[u] = result[u]
      /\ ~Absent(w)
      /\ Idle(w) => Idle(w)' /\ main' = main
      /\ New(w) => New(w)' /\ main' = main
      /\ \A q \in Nat \ {0} : Busy(w, q) => Busy(w, q)' /\ main' = main
      /\ (held[w] <=> worker[w] = "asleep") => (held'[w] <=> worker'[w] = "asleep")
  BY <1>0, WorkerStep DEF input
<1>2. \A u \in Worker \ {w} : /\ Idle(u) => Idle(u)'
                              /\ New(u) => New(u)'
                              /\ Absent(u) => Absent(u)'
                              /\ \A q : Busy(u, q) => Busy(u, q)'
  BY <1>1, WorkerStays
<1>3. \A u \in Worker : held'[u] <=> worker'[u] = "asleep"
  BY <1>1 DEF PhaseOK
<1>4. CASE main \in {"create", "awaitWorker"}
  <2>1. \A u \in Worker : /\ u < i => Idle(u)
                          /\ u = i => IF main = "create" THEN Absent(u) ELSE New(u)
                          /\ u > i => Absent(u)
    BY <1>4 DEF PhaseOK
  <2>2. w < i \/ (w = i /\ main = "awaitWorker")
    BY <1>0, <1>1, <1>4, <2>1
  <2>3. main' = main
    BY <1>1, <2>1, <2>2
  <2>4. \A u \in Worker : /\ u < i => Idle(u)'
                          /\ u = i => IF main = "create" THEN Absent(u)' ELSE New(u)'
                          /\ u > i => Absent(u)'
    <3> SUFFICES ASSUME NEW u \in Worker
                 PROVE  /\ u < i => Idle(u)'
                        /\ u = i => IF main = "create" THEN Absent(u)' ELSE New(u)'
                        /\ u > i => Absent(u)'
      OBVIOUS
    <3>1. CASE u = w
      BY <1>0, <1>1, <2>1, <2>2, <3>1
    <3>2. CASE u # w
      BY <1>2, <2>1, <3>2
    <3> QED
      BY <3>1, <3>2
  <2> QED
    BY <1>1, <1>3, <1>4, <2>3, <2>4 DEF PhaseOK
<1>5. CASE main \notin {"create", "awaitWorker"}
  <2>1. BatchOK /\ (i = 0 \/ i <= Len(output))
    BY <1>5 DEF PhaseOK
  <2>2. \A u \in Worker : u \in Nat
    BY WorkerFacts
  <2>3. \A u \in Worker :
           IF i <= u /\ u < num_active_thread
             THEN Busy(u, Len(output) + 1 + u - i) ELSE Idle(u)
    BY <2>1 DEF BatchOK
  <2>4. CASE i <= w /\ w < num_active_thread
    <3>1. Len(output) + 1 + w - i \in Nat \ {0}
      BY <1>0, <2>1, <2>4
    <3>2. Busy(w, Len(output) + 1 + w - i)
      BY <2>3, <2>4
    <3>3. Busy(w, Len(output) + 1 + w - i)' /\ main' = main
      BY <1>1, <3>1, <3>2
    <3>4. BatchOK'
      <4> SUFFICES ASSUME NEW u \in Worker
                   PROVE  IF i <= u /\ u < num_active_thread
                            THEN Busy(u, Len(output) + 1 + u - i)' ELSE Idle(u)'
        BY <1>1 DEF BatchOK
      <4>1. CASE u = w
        BY <3>3, <4>1, <2>4
      <4>2. CASE u # w
        <5>1. \A q : Busy(u, q) => Busy(u, q)'
          BY <1>2, <4>2
        <5>2. Busy(u, Len(output) + 1 + u - i) => Busy(u, Len(output) + 1 + u - i)'
          BY <1>1, <4>2, WorkerStays DEF Busy
        <5> QED
          BY <1>2, <2>3, <4>2, <5>2
      <4> QED
        BY <4>1, <4>2
    <3> QED
      BY <1>1, <1>3, <1>5, <3>3, <3>4 DEF PhaseOK
  <2>5. CASE ~(i <= w /\ w < num_active_thread)
    <3>1. Idle(w)
      BY <2>3, <2>5
    <3>2. Idle(w)' /\ main' = main
      BY <1>1, <3>1
    <3>3. BatchOK'
      <4> SUFFICES ASSUME NEW u \in Worker
                   PROVE  IF i <= u /\ u < num_active_thread
                            THEN Busy(u, Len(output) + 1 + u - i)' ELSE Idle(u)'
        BY <1>1 DEF BatchOK
      <4>1. CASE u = w
        BY <3>2, <4>1, <2>5
      <4>2. CASE u # w
        <5>2. Busy(u, Len(output) + 1 + u - i) => Busy(u, Len(output) + 1 + u - i)'
          BY <1>1, <4>2, WorkerStays DEF Busy
        <5> QED
          BY <1>2, <2>3, <4>2, <5>2
      <4> QED
        BY <4>1, <4>2
    <3> QED
      BY <1>1, <1>3, <1>5, <3>2, <3>3 DEF PhaseOK
  <2> QED
    BY <2>4, <2>5
<1> QED
  BY <1>4, <1>5

\* ... and so does each step of main: it creates its workers one by one, ...
LEMMA CreateKeepsPhase ==
    ASSUME PoolTypeOK, PhaseOK, Create \/ AwaitWorker PROVE PhaseOK'
<1>0. /\ NumThread \in Nat /\ i \in Nat /\ DOMAIN worker = Worker
      /\ \A w \in Worker : w \in Nat /\ w < NumThread
      /\ worker \in [Worker -> WorkerState]
  BY WorkerFacts DEF PoolTypeOK
<1>1. CASE Create
  <2>1. /\ main = "create" /\ main' = "awaitWorker" /\ i \in Worker
        /\ worker' = [worker EXCEPT ![i] = "start"]
        /\ UNCHANGED <<i, query, num_active_thread, is_done, thread_arg, thread_ret, result, held,
                       lines, asked, output>>
    BY <1>0, <1>1, WorkerFacts DEF Create, become, passing, input, PhaseOK
  <2>2. \A w \in Worker : worker'[w] = IF w = i THEN "start" ELSE worker[w]
    BY <1>0, <2>1
  <2>3. \A w \in Worker : held'[w] <=> worker'[w] = "asleep"
    BY <2>1, <2>2 DEF PhaseOK, Absent
  <2>4. \A w \in Worker : /\ w < i => Idle(w)'
                          /\ w = i => New(w)'
                          /\ w > i => Absent(w)'
    <3> SUFFICES ASSUME NEW w \in Worker
                 PROVE  /\ w < i => Idle(w)'
                        /\ w = i => New(w)'
                        /\ w > i => Absent(w)'
      OBVIOUS
    <3>1. /\ w < i => Idle(w)
          /\ w = i => Absent(w)
          /\ w > i => Absent(w)
      BY <2>1 DEF PhaseOK
    <3> QED
      BY <1>0, <2>1, <2>2, <3>1 DEF Idle, Absent, New
  <2> QED
    BY <2>1, <2>3, <2>4 DEF PhaseOK
<1>2. CASE AwaitWorker
  <2>1. /\ main = "awaitWorker" /\ thread_ret[i] = none
        /\ IF i + 1 < NumThread THEN i' = i + 1 /\ main' = "create"
                                ELSE i' = 0 /\ main' = "read"
        /\ UNCHANGED <<query, num_active_thread, is_done, thread_arg, thread_ret, result, held, worker,
                       lines, asked, output>>
    BY <1>2 DEF AwaitWorker, passing, input
  <2>2. /\ i < NumThread /\ output = <<>> /\ asked = 0 /\ query = null
        /\ num_active_thread = 0 /\ i \in Worker
    BY <1>0, <2>1, WorkerFacts DEF PhaseOK
  <2>3. \A w \in Worker : /\ w < i => Idle(w)
                          /\ w = i => New(w)
                          /\ w > i => Absent(w)
    BY <2>1 DEF PhaseOK
  <2>4. Idle(i)
    BY <2>1, <2>2, <2>3 DEF New, none, null
  <2>5. \A w \in Worker : (w <= i => Idle(w)') /\ (w > i => Absent(w)')
    BY <1>0, <2>1, <2>3, <2>4 DEF Idle, Absent
  <2>6. \A w \in Worker : held'[w] <=> worker'[w] = "asleep"
    BY <2>1 DEF PhaseOK
  <2>7. CASE i + 1 < NumThread
    <3>1. \A w \in Worker : /\ w < i + 1 => Idle(w)'
                            /\ w = i + 1 => Absent(w)'
                            /\ w > i + 1 => Absent(w)'
      BY <1>0, <2>5
    <3> QED
      BY <1>0, <2>1, <2>2, <2>6, <2>7, <3>1 DEF PhaseOK
  <2>8. CASE ~(i + 1 < NumThread)
    <3>1. \A w \in Worker : w <= i
      BY <1>0, <2>8
    <3>2. BatchOK'
      BY <2>1, <2>2, <2>5, <2>8, <3>1, <1>0 DEF BatchOK
    <3>3. Len(output) = 0
      BY <2>2
    <3> QED
      BY <2>1, <2>2, <2>6, <2>8, <3>2, <3>3 DEF PhaseOK
  <2> QED
    BY <2>7, <2>8
<1> QED
  BY <1>1, <1>2

\* ... reads a line, ...
LEMMA ReadKeepsPhase ==
    ASSUME PoolTypeOK, PhaseOK, ReadF \/ ReadQuery PROVE PhaseOK'
<1>0. /\ NumThread \in Nat /\ num_active_thread \in 0..NumThread /\ asked \in Nat
      /\ Len(output) \in Nat
  BY WorkerFacts DEF PoolTypeOK
<1>1. /\ main = "read" /\ i = 0 /\ BatchOK /\ query = null
      /\ asked = Len(output) + num_active_thread
      /\ UNCHANGED <<i, num_active_thread, is_done, thread_arg, thread_ret, result, held, worker, output>>
  BY DEF ReadF, ReadQuery, passing, PhaseOK
<1>2. BatchOK'
  <2>1. \A w \in Worker : IF i' <= w /\ w < num_active_thread'
                            THEN Busy(w, Len(output) + 1 + w - i)' ELSE Idle(w)'
    BY <1>1 DEF BatchOK, Busy, Idle
  <2> QED
    BY <2>1 DEF BatchOK
<1>3. \/ main' = "flush" /\ query' = null /\ asked' = asked
      \/ /\ main' = "flush" \/ (main' = "pass" /\ num_active_thread # NumThread)
         /\ query' = asked' /\ asked' = asked + 1
  BY <1>1 DEF ReadF, ReadQuery
<1> QED
  BY <1>0, <1>1, <1>2, <1>3 DEF PhaseOK

\* ... prints the results of the batch in their order, ...
LEMMA FlushKeepsPhase ==
    ASSUME PoolTypeOK, PhaseOK, Flush PROVE PhaseOK'
<1>0. /\ NumThread \in Nat /\ num_active_thread \in 0..NumThread /\ asked \in Nat
      /\ i \in Nat /\ output \in Seq(Nat \cup {none}) /\ Len(output) \in Nat
      /\ thread_ret \in [Worker -> Nat \cup {none}]
      /\ \A w \in Worker : w \in Nat /\ w < NumThread
  BY WorkerFacts DEF PoolTypeOK
<1>1. /\ main = "flush" /\ i < num_active_thread /\ thread_ret[i] # none
      /\ output' = Append(output, thread_ret[i])
      /\ thread_ret' = [thread_ret EXCEPT ![i] = none]
      /\ i' = i + 1
      /\ UNCHANGED <<main, query, num_active_thread, is_done, thread_arg, result, held, worker, asked>>
  BY DEF Flush, input
<1>2. /\ BatchOK /\ i <= Len(output) /\ i \in Worker
      /\ \/ query = null /\ asked = Len(output) + num_active_thread - i
         \/ query = asked /\ asked = Len(output) + num_active_thread - i + 1
      /\ \A n \in 1..Len(output) : output[n] = n
  BY <1>0, <1>1, WorkerFacts DEF PhaseOK
<1>3. Busy(i, Len(output) + 1 + i - i)
  BY <1>0, <1>1, <1>2 DEF BatchOK
<1>4. thread_ret[i] = Len(output) + 1 /\ worker[i] \in {"asleep", "waiting"}
  BY <1>0, <1>1, <1>3 DEF Busy
<1>5. /\ Len(output') = Len(output) + 1
      /\ \A n \in 1..Len(output) : output'[n] = output[n]
      /\ output'[Len(output) + 1] = thread_ret[i]
  BY <1>0, <1>1, <1>2
<1>6. \A n \in 1..Len(output') : output'[n] = n
  <2> SUFFICES ASSUME NEW n \in 1..Len(output') PROVE output'[n] = n
    OBVIOUS
  <2>1. CASE n \in 1..Len(output)
    BY <1>2, <1>5, <2>1
  <2>2. CASE n = Len(output) + 1
    BY <1>4, <1>5, <2>2
  <2> QED
    BY <1>0, <1>5, <2>1, <2>2
<1>7. BatchOK'
  <2> SUFFICES ASSUME NEW w \in Worker
               PROVE  IF i' <= w /\ w < num_active_thread'
                        THEN Busy(w, Len(output) + 1 + w - i)' ELSE Idle(w)'
    BY DEF BatchOK
  <2>1. IF i <= w /\ w < num_active_thread
          THEN Busy(w, Len(output) + 1 + w - i) ELSE Idle(w)
    BY <1>2 DEF BatchOK
  <2>2. w \in Nat /\ thread_ret'[w] = IF w = i THEN none ELSE thread_ret[w]
    BY <1>0, <1>1
  <2>3. CASE w = i
    <3>1. Idle(w)'
      BY <1>1, <1>4, <2>2, <2>3 DEF Idle
    <3> QED
      BY <1>0, <1>1, <2>3, <3>1
  <2>4. CASE w # i
    <3>1. Len(output') + 1 + w - i' = Len(output) + 1 + w - i
      BY <1>0, <1>1, <1>5, <2>2
    <3>2. Busy(w, Len(output) + 1 + w - i) => Busy(w, Len(output) + 1 + w - i)'
      BY <1>1, <2>2, <2>4, <3>1 DEF Busy
    <3>3. Idle(w) => Idle(w)'
      BY <1>1, <2>2, <2>4 DEF Idle
    <3>4. (i' <= w /\ w < num_active_thread') <=> (i <= w /\ w < num_active_thread)
      BY <1>0, <1>1, <2>2, <2>4
    <3> QED
      BY <2>1, <3>2, <3>3, <3>4
  <2> QED
    BY <2>3, <2>4
<1>8. /\ i' <= num_active_thread' /\ i' <= Len(output')
      /\ \/ query' = null /\ asked' = Len(output') + num_active_thread' - i'
         \/ query' = asked' /\ asked' = Len(output') + num_active_thread' - i' + 1
  <2>1. i' <= num_active_thread' /\ i' <= Len(output')
    BY <1>0, <1>1, <1>2, <1>5
  <2>2. Len(output') + num_active_thread' - i' = Len(output) + num_active_thread - i
    BY <1>0, <1>1, <1>5
  <2> QED
    BY <1>1, <1>2, <2>1, <2>2
<1> QED
  BY <1>1, <1>6, <1>7, <1>8 DEF PhaseOK

\* ... ends the batch, ...
LEMMA FlushedKeepsPhase ==
    ASSUME PoolTypeOK, PhaseOK, Flushed PROVE PhaseOK'
<1>0. /\ NumThread \in Nat /\ num_active_thread \in 0..NumThread /\ asked \in Nat
      /\ i \in Nat /\ Len(output) \in Nat
      /\ \A w \in Worker : w \in Nat /\ w < NumThread
  BY WorkerFacts DEF PoolTypeOK
<1>1. /\ main = "flush" /\ i = num_active_thread /\ i' = 0 /\ num_active_thread' = 0
      /\ main' = IF query = null THEN "read" ELSE "pass"
      /\ UNCHANGED <<query, is_done, thread_arg, thread_ret, result, held, worker, lines, asked, output>>
  BY DEF Flushed, passing, input
<1>2. BatchOK
  BY <1>1 DEF PhaseOK
<1>3. \A w \in Worker : Idle(w)
  BY <1>0, <1>1, <1>2 DEF BatchOK
<1>4. BatchOK'
  BY <1>0, <1>1, <1>3 DEF BatchOK, Idle
<1>5. \/ query = null /\ asked = Len(output)
      \/ query = asked /\ asked = Len(output) + 1
  BY <1>0, <1>1 DEF PhaseOK
<1>6. main' = "read" => query' = null /\ asked' = Len(output') + num_active_thread'
  BY <1>0, <1>1, <1>5 DEF null
<1>7. main' = "pass" => query' = asked' /\ asked' = Len(output') + num_active_thread' + 1
  BY <1>0, <1>1, <1>5
<1> QED
  BY <1>1, <1>4, <1>6, <1>7 DEF PhaseOK

\* ... hands a query to the next worker, which is idle, ...
LEMMA PassKeepsPhase ==
    ASSUME PoolTypeOK, PhaseOK, Pass PROVE PhaseOK'
<1>0. /\ NumThread \in Nat /\ num_active_thread \in 0..NumThread /\ asked \in Nat
      /\ i \in Nat /\ Len(output) \in Nat
      /\ thread_ret \in [Worker -> Nat \cup {none}] /\ thread_arg \in [Worker -> Nat]
      /\ \A w \in Worker : w \in Nat /\ w < NumThread
  BY WorkerFacts DEF PoolTypeOK
<1>1. /\ main = "pass" /\ main' = "signal" /\ query' = null
      /\ thread_arg' = [thread_arg EXCEPT ![num_active_thread] = query]
      /\ thread_ret' = [thread_ret EXCEPT ![num_active_thread] = none]
      /\ UNCHANGED <<i, num_active_thread, is_done, result, held, worker, lines, asked, output>>
  BY DEF Pass, input
<1>2. /\ BatchOK /\ i = 0 /\ query = asked
      /\ asked = Len(output) + num_active_thread + 1
      /\ num_active_thread \in Worker
  BY <1>0, <1>1, WorkerFacts DEF PhaseOK, PoolTypeOK
<1>3. BatchOK'
  <2> SUFFICES ASSUME NEW w \in Worker
               PROVE  IF i' <= w /\ w < num_active_thread'
                        THEN Busy(w, Len(output) + 1 + w - i)' ELSE Idle(w)'
    BY DEF BatchOK
  <2>1. IF i <= w /\ w < num_active_thread
          THEN Busy(w, Len(output) + 1 + w - i) ELSE Idle(w)
    BY <1>2 DEF BatchOK
  <2>2. w \in Nat /\ thread_ret'[w] = IF w = num_active_thread THEN none ELSE thread_ret[w]
    BY <1>0, <1>1
  <2>3. w # num_active_thread => thread_arg'[w] = thread_arg[w]
    BY <1>0, <1>1
  <2>4. Idle(w) => Idle(w)'
    BY <1>1, <2>2 DEF Idle
  <2>5. w # num_active_thread =>
          (Busy(w, Len(output) + 1 + w - i) => Busy(w, Len(output) + 1 + w - i)')
    BY <1>1, <2>2, <2>3 DEF Busy
  <2> QED
    BY <1>0, <1>1, <2>1, <2>2, <2>4, <2>5
<1>4. thread_arg'[num_active_thread] = asked
  BY <1>0, <1>1, <1>2
<1> QED
  BY <1>1, <1>2, <1>3, <1>4 DEF PhaseOK

\* ... and wakes it: it holds its mutex if it does not wait yet, so that the
\* signal is not sent too early.
LEMMA SignalKeepsPhase ==
    ASSUME PoolTypeOK, PhaseOK, Signal
    PROVE  PhaseOK' /\ worker'[num_active_thread] = "woken"
<1>0. /\ NumThread \in Nat /\ num_active_thread \in 0..NumThread /\ asked \in Nat
      /\ i \in Nat /\ Len(output) \in Nat
      /\ worker \in [Worker -> WorkerState]
      /\ \A w \in Worker : w \in Nat /\ w < NumThread
  BY WorkerFacts DEF PoolTypeOK
<1>1. /\ main = "signal" /\ ~held[num_active_thread]
      /\ worker' = IF worker[num_active_thread] = "waiting"
                     THEN [worker EXCEPT ![num_active_thread] = "woken"] ELSE worker
      /\ num_active_thread' = num_active_thread + 1
      /\ main' = "read"
      /\ UNCHANGED <<i, query, is_done, thread_arg, thread_ret, result, held, lines, asked, output>>
  BY DEF Signal, signal, passing, input
<1>2. /\ BatchOK /\ i = 0 /\ query = null
      /\ thread_arg[num_active_thread] = asked
      /\ asked = Len(output) + num_active_thread + 1
      /\ num_active_thread \in Worker
  BY <1>0, <1>1, WorkerFacts DEF PhaseOK, PoolTypeOK
<1>3. Idle(num_active_thread)
  BY <1>0, <1>2 DEF BatchOK
<1>4. worker[num_active_thread] = "waiting"
  BY <1>1, <1>2, <1>3 DEF Idle, PhaseOK
<1>5. \A w \in Worker : worker'[w] = IF w = num_active_thread THEN "woken" ELSE worker[w]
  BY <1>0, <1>1, <1>4
<1>6. \A w \in Worker : held'[w] <=> worker'[w] = "asleep"
  BY <1>1, <1>4, <1>5 DEF PhaseOK
<1>7. BatchOK'
  <2> SUFFICES ASSUME NEW w \in Worker
               PROVE  IF i' <= w /\ w < num_active_thread'
                        THEN Busy(w, Len(output) + 1 + w - i)' ELSE Idle(w)'
    BY DEF BatchOK
  <2>1. IF i <= w /\ w < num_active_thread
          THEN Busy(w, Len(output) + 1 + w - i) ELSE Idle(w)
    BY <1>2 DEF BatchOK
  <2>2. CASE w = num_active_thread
    <3>1. /\ Len(output') + 1 + w - i' = asked
          /\ thread_arg'[w] = asked /\ thread_ret'[w] = none /\ worker'[w] = "woken"
      BY <1>0, <1>1, <1>2, <1>3, <1>5, <2>2 DEF Idle
    <3>2. Busy(w, Len(output) + 1 + w - i)'
      BY <3>1 DEF Busy
    <3> QED
      BY <1>0, <1>1, <1>2, <2>2, <3>2
  <2>3. CASE w # num_active_thread
    <3>1. Idle(w) => Idle(w)'
      BY <1>1, <1>5, <2>3 DEF Idle
    <3>2. Busy(w, Len(output) + 1 + w - i) => Busy(w, Len(output) + 1 + w - i)'
      BY <1>1, <1>5, <2>3 DEF Busy
    <3>3. (i' <= w /\ w < num_active_thread') <=> (i <= w /\ w < num_active_thread)
      BY <1>0, <1>1, <2>3
    <3> QED
      BY <2>1, <3>1, <3>2, <3>3
  <2> QED
    BY <2>2, <2>3
<1>8. worker'[num_active_thread] = "woken"
  BY <1>2, <1>5
<1>9. asked' = Len(output') + num_active_thread'
  BY <1>0, <1>1, <1>2
<1> QED
  BY <1>1, <1>2, <1>6, <1>7, <1>8, <1>9 DEF PhaseOK

\* When the end is near nothing is printed.
LEMMA EndKeeps ==
    ASSUME EndOK, Next PROVE EndOK'
<1>1. main \notin {"create", "awaitWorker", "read", "flush", "pass", "signal"}
  BY DEF EndOK
<1>2. CASE mainStep
  <2>1. Stop \/ Join
    BY <1>1, <1>2 DEF mainStep, Create, AwaitWorker, ReadF, ReadQuery, Flush, Flushed, Pass,
                      Signal, EndOfInput
  <2> QED
    BY <2>1 DEF Stop, Join, EndOK
<1>3. ASSUME NEW w \in Worker, thread_func(w) \/ WakeSpuriously(w) PROVE EndOK'
  <2>1. output' = output /\ (main' = main \/ main' = "crashed")
    BY <1>3 DEF thread_func, WakeSpuriously, FallAsleep, Wait, Wake, Test, Work, Crash
  <2> QED
    BY <2>1 DEF EndOK
<1>4. CASE Ended
  BY <1>4 DEF Ended, vars, EndOK
<1> QED
  BY <1>2, <1>3, <1>4 DEF Next

-----------------------------------------------------------------------------
(* The theorems                                                            *)

\* One step of the pool, whoever feeds it.
LEMMA PoolInvStep == PoolInv /\ [Next]_vars => PoolInv'
<1> SUFFICES ASSUME PoolInv, [Next]_vars PROVE PoolInv'
  OBVIOUS
<1>1. PoolTypeOK /\ PoolTypeOK'
  BY PoolTypeStep DEF PoolInv
<1>2. CASE UNCHANGED vars
  <2>1. UNCHANGED <<main, i, query, num_active_thread, is_done, thread_arg, thread_ret, result, held,
                    worker, lines, asked, output, spurious>>
    BY <1>2 DEF vars, passing, input
  <2>2. BatchOK => BatchOK'
    BY <2>1 DEF BatchOK, Busy, Idle
  <2>3. PhaseOK => PhaseOK'
    BY <2>1, <2>2 DEF PhaseOK, New, Idle, Absent
  <2> QED
    BY <1>1, <2>1, <2>3 DEF PoolInv, EndOK
<1>3. CASE Next
  <2>1. spurious => spurious'
    BY <1>3 DEF Next, mainStep, Ended, vars, Create, AwaitWorker, ReadF, ReadQuery, Flush, Flushed,
                Pass, Signal, EndOfInput, Stop, Join, thread_func, WakeSpuriously, FallAsleep,
                Wait, Wake, Test, Work, Crash
  <2>2. EndOK => EndOK'
    BY <1>3, EndKeeps
  <2>3. ASSUME PhaseOK PROVE spurious' \/ PhaseOK' \/ EndOK'
    <3>1. CASE mainStep
      <4>1. ~(Stop \/ Join)
        BY <2>3 DEF PhaseOK, Stop, Join
      <4>2. CASE EndOfInput
        BY <2>3, <4>2 DEF EndOfInput, EndOK, PhaseOK
      <4> QED
        BY <1>1, <2>3, <3>1, <4>1, <4>2, CreateKeepsPhase, ReadKeepsPhase, FlushKeepsPhase,
           FlushedKeepsPhase, PassKeepsPhase, SignalKeepsPhase DEF mainStep
    <3>2. ASSUME NEW w \in Worker, thread_func(w) PROVE PhaseOK'
      BY <1>1, <2>3, <3>2, WorkerKeepsPhase
    <3>3. ASSUME NEW w \in Worker, WakeSpuriously(w) PROVE spurious'
      BY <3>3 DEF WakeSpuriously
    <3>4. ~Ended
      BY <2>3 DEF Ended, PhaseOK
    <3> QED
      BY <1>3, <3>1, <3>2, <3>3, <3>4 DEF Next
  <2> QED
    BY <1>1, <2>1, <2>2, <2>3 DEF PoolInv
<1> QED
  BY <1>2, <1>3

\* The pool starts in order: nothing is printed and no worker is there.
LEMMA PoolInvInit == Init => PoolInv
<1> SUFFICES ASSUME Init PROVE PoolInv
  OBVIOUS
<1>1. PoolTypeOK
  BY WorkerFacts, SMTT(30) DEF Init, PoolTypeOK, WorkerState
<1>2. Len(output) = 0
  BY DEF Init
<1>3. PhaseOK
  BY <1>2, WorkerFacts DEF Init, PhaseOK, Absent
<1> QED
  BY <1>1, <1>3 DEF PoolInv

\* What the invariant says of a state and of a step.
LEMMA PoolFacts ==
    /\ PoolInv => OutputInOrder
    /\ PoolInv /\ [Next]_vars =>
         [main = "signal" /\ main' = "read" /\ ~spurious =>
            worker'[num_active_thread] = "woken"]_vars
<1>1. PoolInv => OutputInOrder
  BY DEF PoolInv, OutputInOrder, PhaseOK, EndOK
<1>2. ASSUME PoolInv, Next, main = "signal", main' = "read", ~spurious
      PROVE  worker'[num_active_thread] = "woken"
  <2>1. PoolTypeOK /\ PhaseOK
    BY <1>2 DEF PoolInv, EndOK
  <2>2. ~ \E w \in Worker : thread_func(w) \/ WakeSpuriously(w)
    <3> SUFFICES ASSUME NEW w \in Worker, thread_func(w) \/ WakeSpuriously(w) PROVE FALSE
      OBVIOUS
    <3>1. main' = main \/ main' = "crashed"
      BY DEF thread_func, WakeSpuriously, FallAsleep, Wait, Wake, Test, Work, Crash
    <3> QED
      BY <1>2, <3>1
  <2>3. Signal
    BY <1>2, <2>2 DEF Next, Ended, mainStep, Create, AwaitWorker, ReadF, ReadQuery, Flush, Flushed,
                      Pass, EndOfInput, Stop, Join
  <2> QED
    BY <2>1, <2>3, SignalKeepsPhase
<1> QED
  BY <1>1, <1>2

\* The invariant holds, whatever the number of workers and of lines.
THEOREM PoolInvariant == Spec => []PoolInv
BY PoolInvInit, PoolInvStep, PTL DEF Spec

\* The pool of main.cpp prints each result once and in the order of the queries.
THEOREM PoolOutputInOrder == Spec => []OutputInOrder
BY PoolInvariant, PoolFacts, PTL

\* The signal that hands over a query finds its worker waiting.
THEOREM PoolSignalsReach == Spec => SignalsReach
BY PoolInvInit, PoolInvStep, PoolFacts, PTL DEF Spec, SignalsReach

-----------------------------------------------------------------------------
(* The pool fed by a file or by the harness                                *)

\* Who feeds the pool may make it wait, and never makes it do anything else.
LEMMA HarnessStepIsPoolStep == [HNext]_allVars => [Next]_vars
<1>1. CASE HNext
  <2>1. CASE harnessStep
    BY <2>1 DEF harnessStep, NextBatch, Feed, Receive, Compare
  <2>2. CASE poolMain
    BY <2>2 DEF poolMain, Next, mainStep
  <2>3. ASSUME NEW w \in Worker, poolWorker(w) \/ (WakeSpuriously(w) /\ UNCHANGED harnessVars)
        PROVE Next
    BY <2>3 DEF poolWorker, Next
  <2>4. CASE Ended
    BY <2>4 DEF Next
  <2> QED
    BY <1>1, <2>1, <2>2, <2>3, <2>4 DEF HNext
<1>2. CASE UNCHANGED allVars
  BY <1>2 DEF allVars
<1> QED
  BY <1>1, <1>2

\* No pair of pipes between pool and harness changes the order of the results.
THEOREM HarnessOutputInOrder == HSpec => []OutputInOrder
<1>1. HInit => PoolInv
  BY PoolInvInit DEF HInit
<1>2. PoolInv /\ [HNext]_allVars => PoolInv'
  BY PoolInvStep, HarnessStepIsPoolStep
<1>3. PoolInv => OutputInOrder
  BY PoolFacts
<1> QED
  BY <1>1, <1>2, <1>3, PTL DEF HSpec

\* And no signal is lost.
THEOREM HarnessSignalsReach == HSpec => SignalsReach
<1>1. HInit => PoolInv
  BY PoolInvInit DEF HInit
<1>2. PoolInv /\ [HNext]_allVars => PoolInv'
  BY PoolInvStep, HarnessStepIsPoolStep
<1>3. PoolInv /\ [HNext]_allVars =>
         [main = "signal" /\ main' = "read" /\ ~spurious =>
            worker'[num_active_thread] = "woken"]_vars
  BY PoolFacts, HarnessStepIsPoolStep
<1> QED
  BY <1>1, <1>2, <1>3, PTL DEF HSpec, SignalsReach

\* The harness has read no more results than have left main's buffer, and those
\* are no more than main has printed.
PipesOK ==
    /\ workload \in SUBSET (1..MaxLines)
    /\ batchEnd \in 0..MaxLines
    /\ received \in Nat /\ flushed \in Nat
    /\ received <= flushed /\ flushed <= Len(output)
    /\ failed \in BOOLEAN
    /\ failed => spurious

\* The harness meets a wrong result only after a spurious wakeup.
NoFailure == failed => spurious

\* A non-empty set of lines has a first one.
LEMMA LeastMember ==
    ASSUME NEW S \in SUBSET Nat, S # {} PROVE \E f \in S : \A g \in S : f <= g
<1> DEFINE R == {p \in Nat \X Nat : p[1] < p[2]}
<1>1. IsWellFoundedOn(R, Nat)
  BY NatLessThanWellFounded DEF OpToRel
<1>2. PICK f \in S : \A g \in S : <<g, f>> \notin R
  <2> HIDE DEF R
  <2> QED
    BY <1>1, WFMin
<1>3. ASSUME NEW g \in S, ~(f <= g) PROVE <<g, f>> \in R
  BY <1>3
<1> QED
  BY <1>2, <1>3

\* A batch has as many results as lines that are not F.
LEMMA ResultsType ==
    ASSUME workload \in SUBSET (1..MaxLines), NEW n \in Nat PROVE results(n) \in Int
<1> DEFINE fs == {f \in workload : f <= n}
<1>1. IsFiniteSet(1..MaxLines)
  BY MaxLinesAssumption, FS_Interval
<1>2. IsFiniteSet(fs)
  BY <1>1, FS_Subset
<1>3. Cardinality(fs) \in Nat
  BY <1>2, FS_CardinalityType
<1> QED
  BY <1>3 DEF results

\* The pool prints at the end of its output, and history is not forgotten.
LEMMA OutputGrows ==
    ASSUME PoolTypeOK, [Next]_vars
    PROVE  Len(output') >= Len(output) /\ (spurious => spurious')
<1>1. output \in Seq(Nat \cup {none}) /\ Len(output) \in Nat
  BY DEF PoolTypeOK
<1>2. output' = output \/ Flush
  BY DEF vars, Next, mainStep, Ended, Create, AwaitWorker, ReadF, ReadQuery, Flushed,
         Pass, Signal, EndOfInput, Stop, Join, thread_func, WakeSpuriously, FallAsleep,
         Wait, Wake, Test, Work, Crash
<1>3. ASSUME Flush PROVE Len(output') = Len(output) + 1
  <2>1. output' = Append(output, thread_ret[i])
    BY <1>3 DEF Flush
  <2>2. i \in Worker
    BY <1>3, WorkerFacts DEF Flush, PoolTypeOK
  <2>3. thread_ret[i] \in Nat \cup {none}
    BY <2>2 DEF PoolTypeOK
  <2> QED
    BY <1>1, <2>1, <2>3
<1>4. spurious => spurious'
  BY DEF vars, Next, mainStep, Ended, Create, AwaitWorker, ReadF, ReadQuery, Flush, Flushed,
         Pass, Signal, EndOfInput, Stop, Join, thread_func, WakeSpuriously, FallAsleep,
         Wait, Wake, Test, Work, Crash
<1> QED
  BY <1>1, <1>2, <1>3, <1>4

\* A step of harness and pool keeps the pipes in order.
LEMMA PipesStep == PoolInv /\ PipesOK /\ [HNext]_allVars => PipesOK'
<1> SUFFICES ASSUME PoolInv, PipesOK, [HNext]_allVars PROVE PipesOK'
  OBVIOUS
<1>0. /\ PoolTypeOK /\ PoolTypeOK' /\ OutputInOrder
      /\ Len(output') >= Len(output) /\ (spurious => spurious')
  BY HarnessStepIsPoolStep, PoolTypeStep, OutputGrows, PoolFacts DEF PoolInv
<1>1. Len(output) \in Nat /\ Len(output') \in Nat
  BY <1>0 DEF PoolTypeOK
<1>2. CASE NextBatch
  <2>1. /\ UNCHANGED <<workload, flushed, received, failed, output, spurious>>
    BY <1>2 DEF NextBatch, vars
  <2>2. batchEnd' \in 0..MaxLines
    <3> DEFINE ends == {f \in workload : f > batchEnd}
               first == CHOOSE f \in ends : \A g \in ends : f <= g
    <3>1. CASE ends = {}
      BY <1>2, <3>1 DEF NextBatch, PipesOK
    <3>2. CASE ends # {}
      <4>1. ends \subseteq 1..MaxLines
        BY DEF PipesOK
      <4>2. \E f \in ends : \A g \in ends : f <= g
        <5>1. ends \in SUBSET Nat
          BY <4>1, MaxLinesAssumption
        <5> HIDE DEF ends
        <5> QED
          BY <3>2, <5>1, LeastMember
      <4>3. first \in ends
        BY <4>2
      <4>4. batchEnd' = first
        BY <1>2, <3>2 DEF NextBatch
      <4> QED
        BY <4>1, <4>3, <4>4, MaxLinesAssumption
    <3> QED
      BY <3>1, <3>2
  <2> QED
    BY <2>1, <2>2 DEF PipesOK
<1>3. CASE Feed
  BY <1>3 DEF Feed, vars, PipesOK
<1>4. CASE Receive
  <2>1. /\ UNCHANGED <<workload, batchEnd, flushed, failed, output, spurious>>
        /\ received' \in (received + 1)..flushed
    BY <1>4 DEF Receive, vars
  <2> QED
    BY <2>1 DEF PipesOK
<1>5. CASE Compare
  <2>1. /\ UNCHANGED <<workload, batchEnd, received, flushed, output, spurious>>
        /\ failed' = (failed \/ \E n \in 1..results(batchEnd) : output[n] # n)
        /\ received >= results(batchEnd)
    BY <1>5 DEF Compare, vars, pipes
  <2>2. results(batchEnd) \in Int
    BY ResultsType DEF PipesOK
  <2>3. \A n \in 1..results(batchEnd) : n \in 1..Len(output)
    BY <1>1, <2>1, <2>2 DEF PipesOK
  <2>4. ~spurious => \A n \in 1..results(batchEnd) : output[n] = n
    BY <1>0, <2>3 DEF OutputInOrder
  <2> QED
    BY <2>1, <2>4 DEF PipesOK
<1>6. CASE poolMain
  <2>1. /\ UNCHANGED <<workload, batchEnd, received, failed>>
        /\ flushed' \in {flushed, Len(output')}
    BY <1>6 DEF poolMain, delivered, pipes
  <2> QED
    BY <1>0, <1>1, <2>1 DEF PipesOK
<1>7. CASE UNCHANGED harnessVars
  BY <1>0, <1>1, <1>7 DEF harnessVars, pipes, PipesOK
<1> QED
  BY <1>2, <1>3, <1>4, <1>5, <1>6, <1>7 DEF HNext, harnessStep, poolWorker, allVars

\* Whatever the workload and however the pipes cut the results up, the harness
\* never meets a wrong result: a failure would be a false alarm.
THEOREM HarnessNoFailure == HSpec => []NoFailure
<1>1. HInit => PoolInv /\ PipesOK
  <2> SUFFICES ASSUME HInit PROVE PoolInv /\ PipesOK
    OBVIOUS
  <2>1. Len(output) = 0
    BY DEF HInit, Init
  <2>2. workload \in SUBSET (1..MaxLines)
    BY DEF HInit
  <2> QED
    <3>1. batchEnd = 0 /\ received = 0 /\ flushed = 0
      BY DEF HInit
    <3>0. failed \in BOOLEAN /\ (failed => spurious)
      BY DEF HInit
    <3>2. PipesOK
      BY <2>1, <2>2, <3>0, <3>1, MaxLinesAssumption DEF PipesOK
    <3>3. PoolInv
      BY PoolInvInit DEF HInit
    <3> QED
      BY <3>2, <3>3
<1>2. PoolInv /\ PipesOK /\ [HNext]_allVars => PoolInv' /\ PipesOK'
  BY PoolInvStep, HarnessStepIsPoolStep, PipesStep
<1>3. PipesOK => NoFailure
  BY DEF PipesOK, NoFailure
<1> QED
  BY <1>1, <1>2, <1>3, PTL DEF HSpec
=============================================================================
