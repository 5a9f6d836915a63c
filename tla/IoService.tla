----------------------------- MODULE IoService -----------------------------
(***************************************************************************)
(* The programs of lab06 and lab08 that work on a boost io_service.  The   *)
(* variable `program` says which one runs:                                 *)
(*   "timer"   timer_async_arg.cpp: one timer, whose handler counts        *)
(*   "timers"  timer_2thread.cpp and timer_fix_race.cpp: two of them in    *)
(*             two threads, kept apart by a strand                         *)
(*   "group"   prac_threadgroup.cpp: posts to a pool that is never ended   *)
(*   "primes"  prac_prime.cpp: a pool that counts, and posts its results   *)
(*             to the service of the one thread that prints                *)
(*                                                                         *)
(* Of boost this is used: run() calls the ready handlers, first come first *)
(* served, and returns when the service has neither a work object nor a    *)
(* handler or timer left; a strand runs one handler at a time.             *)
(***************************************************************************)
EXTENDS Naturals, Sequences

CONSTANTS
    NumPool,        \* NUM_THREAD_IN_POOL
    NumPost,        \* what main posts: ranges, or calls of Print
    Limit           \* the timers end here, at 5 or 10 in the programs

VARIABLES
    program,
    main,           \* where main is, when it is not in run() itself
    work,           \* the services that have a work object
    ready,          \* ready[s]: the handlers that can be called
    armed,          \* the timers that have not expired
    running,        \* the threads in run()
    handler,        \* handler[t]: the one that thread t is in, or none
    below,          \* timers: it found count below the limit
    count,
    posted,
    result          \* what has been printed, in this order

vars == <<program, main, work, ready, armed, running, handler, below, count,
          posted, result>>

Program == {"timer", "timers", "group", "primes"}
Service == {"counter", "printer"}
Thread == 0..NumPool
service(t) == IF t = 0 THEN "printer" ELSE "counter"
none == 0
counting == program \in {"timer", "timers"}

\* A handler is the number of its timer or of its post.
Fresh ==
    /\ main = IF counting THEN "join counters" ELSE "post"
    /\ work = IF counting THEN {} ELSE Service
    /\ ready = [s \in Service |-> <<>>]
    /\ armed = CASE program = "timer" -> {1} [] program = "timers" -> {1, 2} [] OTHER -> {}
    /\ running = CASE program = "timer" -> {1}
                   [] program = "timers" -> {1, 2}
                   [] program = "group" -> Thread \ {0}
                   [] OTHER -> Thread
    /\ handler = [t \in Thread |-> none]
    /\ below = [t \in Thread |-> FALSE]
    /\ count = 0
    /\ posted = 0
    /\ result = <<>>

Init == program \in Program /\ Fresh

-----------------------------------------------------------------------------
\* A timer's second is over.
Expire(timer) ==
    /\ timer \in armed
    /\ armed' = armed \ {timer}
    /\ ready' = [ready EXCEPT !["counter"] = Append(@, timer)]
    /\ UNCHANGED <<program, main, work, running, handler, below, count, posted, result>>

\* Faulty variant: no strand, as when USE_STRAND is not defined.
noStrand == TRUE

\* The timers' handlers are wrapped in the strand: one runs at a time.
strand == program = "timers" => \A u \in Thread : handler[u] = none

\* run() calls the next handler.  The timers' Print looks at count first.
Call(t) ==
    LET s == service(t)
    IN  /\ t \in running
        /\ handler[t] = none
        /\ strand
        /\ ready[s] # <<>>
        /\ handler' = [handler EXCEPT ![t] = Head(ready[s])]
        /\ ready' = [ready EXCEPT ![s] = Tail(@)]
        /\ below' = [below EXCEPT ![t] = count < Limit]
        /\ UNCHANGED <<program, main, work, armed, running, count, posted, result>>

\* Print increments count, if it found it below the limit, and sets its timer again.
PrintCount(t) ==
    /\ counting
    /\ IF below[t]
         THEN count' = count + 1 /\ armed' = armed \cup {handler[t]}
         ELSE UNCHANGED <<count, armed>>
    /\ UNCHANGED <<ready, result>>

\* countPrime posts its result to the printer.
countPrime(t) ==
    /\ program = "primes" /\ t # 0
    /\ ready' = [ready EXCEPT !["printer"] = Append(@, handler[t])]
    /\ UNCHANGED <<count, armed, result>>

\* printResult, and the group's Print.
printResult(t) ==
    /\ program = "group" \/ (program = "primes" /\ t = 0)
    /\ result' = Append(result, handler[t])
    /\ UNCHANGED <<count, armed, ready>>

\* The handler does its work, and returns to run().
Handle(t) ==
    /\ handler[t] # none
    /\ PrintCount(t) \/ countPrime(t) \/ printResult(t)
    /\ handler' = [handler EXCEPT ![t] = none]
    /\ UNCHANGED <<program, main, work, running, below, posted>>

Return(t) ==
    LET s == service(t)
    IN  /\ t \in running
        /\ s \notin work
        /\ ready[s] = <<>>
        /\ armed = {}
        /\ \A u \in Thread : service(u) = s => handler[u] = none
        /\ running' = running \ {t}
        /\ UNCHANGED <<program, main, work, ready, armed, handler, below, count, posted, result>>

run(t) == Call(t) \/ Handle(t) \/ Return(t)

-----------------------------------------------------------------------------
Post ==
    /\ main = "post"
    /\ posted < NumPost
    /\ posted' = posted + 1
    /\ ready' = [ready EXCEPT !["counter"] = Append(@, posted + 1)]
    /\ UNCHANGED <<program, main, work, armed, running, handler, below, count, result>>

\* All is posted: main deletes counterWork; but the group keeps its work.
EndPosts ==
    /\ main = "post"
    /\ posted = NumPost
    /\ work' = IF program = "primes" THEN work \ {"counter"} ELSE work
    /\ main' = "join counters"
    /\ UNCHANGED <<program, ready, armed, running, handler, below, count, posted, result>>

\* The threads that count have returned: main deletes printerWork.
JoinCounters ==
    /\ main = "join counters"
    /\ \A t \in running : service(t) # "counter"
    /\ work' = {}
    /\ main' = IF program = "primes" THEN "join printer" ELSE "end"
    /\ UNCHANGED <<program, ready, armed, running, handler, below, count, posted, result>>

JoinPrinter ==
    /\ main = "join printer"
    /\ running = {}
    /\ main' = "end"
    /\ UNCHANGED <<program, work, ready, armed, running, handler, below, count, posted, result>>

mainStep == Post \/ EndPosts \/ JoinCounters \/ JoinPrinter

Ended == main = "end" /\ UNCHANGED vars

Next == mainStep \/ Ended \/ (\E t \in Thread : run(t)) \/ (\E timer \in {1, 2} : Expire(timer))

Fairness ==
    /\ WF_vars(mainStep)
    /\ \A t \in Thread : WF_vars(run(t))
    /\ \A timer \in {1, 2} : WF_vars(Expire(timer))

Spec == Init /\ [][Next]_vars /\ Fairness

-----------------------------------------------------------------------------
\* At the end the timers have counted to the limit exactly, and every range
\* has been answered; none is answered twice on the way.
HandlersExact ==
    /\ \A m, n \in DOMAIN result : result[m] = result[n] => m = n
    /\ main = "end" => IF counting THEN count = Limit ELSE Len(result) = NumPost

\* The programs end - but the group, which has a work object for ever: it calls
\* all its handlers, and main waits for threads that never return.
Through == IF program = "group" THEN Len(result) = NumPost ELSE main = "end"
=============================================================================
