-------------------------- MODULE ThreadPoolProofs --------------------------
(***************************************************************************)
(* Proofs about module ThreadPool, for any number of workers and any bound *)
(* on their work: main adds up every call of the work function, and reads  *)
(* no argument that has been deleted.                                      *)
(***************************************************************************)
EXTENDS ThreadPool, WellFoundedInduction, TLAPS

-----------------------------------------------------------------------------
(* The inductive invariant                                                 *)

\* A worker calls its work function within the bound, ...
WorkOK == \A w \in Worker : worker[w] = "work" => localCount[w] < MaxWork

\* ... has its argument from its creation on until it deletes it itself, ...
ArgsOK ==
    /\ \A w \in Worker : worker[w] \notin {"none", "exited", "joined"} => w \in threadArgs
    /\ main = "awaitSleep" => worker[tid] # "none"

\* ... and does not get past its wait before main has called run, but for
\* spurious wake-ups.
EarlyOK ==
    ~spurious /\ main \in {"create", "awaitSleep", "ready"} =>
        \A w \in Worker : worker[w] \in {"none", "start", "locked", "asleep", "waiting"}

\* The workers below tid have been joined: they count no further.
JoinOK ==
    /\ main \in {"ready", "timer", "destroy"} => tid = 1
    /\ main = "join" => \A w \in Worker : w < tid => worker[w] = "joined"
    /\ main = "ended" => \A w \in Worker : worker[w] = "joined"

\* f adds up the counts of the workers.
IsSum(f, c) == f = [n \in 0..NumThread |-> IF n = 0 THEN 0 ELSE f[n - 1] + c[n]]

\* What main has added up is the sum of the counts of the joined workers.
AddedUp(f) ==
    timed => /\ main = "join" => checkSum = f[tid - 1]
             /\ main = "ended" => checkSum = f[NumThread]
             /\ main \notin {"join", "ended"} => checkSum = 0
SumOK == \E f \in [0..NumThread -> Nat] : IsSum(f, localCount) /\ AddedUp(f)

PoolInv == TypeOK /\ WorkOK /\ ArgsOK /\ EarlyOK /\ JoinOK /\ SumOK

-----------------------------------------------------------------------------
(* Sums                                                                    *)

\* The constants are positive, and no worker is nobody.
LEMMA Constants ==
    /\ NumThread \in Nat /\ NumThread > 0 /\ MaxWork \in Nat /\ MaxWork > 0
    /\ 1 \in Worker /\ NumThread \in Worker /\ Nobody \notin Worker
    /\ \A w \in Worker : /\ w \in Nat /\ 0 < w /\ w <= NumThread
                         /\ w < NumThread => w + 1 \in Worker
BY NumThreadAssumption, MaxWorkAssumption, NobodyAssumption DEF Worker

\* A sum goes on by one count at each worker.
LEMMA SumEquation ==
    ASSUME NEW c, NEW f, IsSum(f, c)
    PROVE  \A n \in 0..NumThread : f[n] = IF n = 0 THEN 0 ELSE f[n - 1] + c[n]
<1>1. f = [n \in 0..NumThread |-> IF n = 0 THEN 0 ELSE f[n - 1] + c[n]]
  BY DEF IsSum
<1> QED
  BY <1>1, Zenon

\* There is only one sum of the same counts: two different ones would have a
\* first worker at which they differ.
LEMMA SumUnique ==
    ASSUME NEW c, NEW f, NEW g, IsSum(f, c), IsSum(g, c)
    PROVE  f = g
<1> DEFINE D == {n \in 0..NumThread : f[n] # g[n]}
           R == {p \in Nat \X Nat : p[1] < p[2]}
<1>1. D = {}
  <2> SUFFICES ASSUME D # {} PROVE FALSE
    OBVIOUS
  <2>1. IsWellFoundedOn(R, Nat)
    BY NatLessThanWellFounded DEF OpToRel
  <2>2. D \subseteq Nat
    OBVIOUS
  <2>3. PICK d \in D : \A e \in D : <<e, d>> \notin R
    <3> HIDE DEF R, D
    <3> QED
      BY <2>1, <2>2, WFMin
  <2>4. d \in 0..NumThread /\ f[d] # g[d]
    OBVIOUS
  <2>5. d # 0
    BY <2>4, SumEquation, Constants
  <2>6. d - 1 \in 0..NumThread /\ <<d - 1, d>> \in R
    BY <2>4, <2>5, Constants
  <2>7. f[d - 1] = g[d - 1]
    BY <2>3, <2>6
  <2> QED
    BY <2>4, <2>5, <2>7, SumEquation
<1>2. \A n \in 0..NumThread : f[n] = g[n]
  BY <1>1
<1>3. f = [n \in 0..NumThread |-> f[n]]
  BY Zenon DEF IsSum
<1>4. g = [n \in 0..NumThread |-> g[n]]
  BY Zenon DEF IsSum
<1> QED
  BY <1>2, <1>3, <1>4, Zenon

\* A count more adds one to the sums from its worker on, and leaves those of
\* the workers before alone.
LEMMA SumIncrement ==
    ASSUME NEW c \in [Worker -> Nat], NEW w \in Worker,
           NEW f \in [0..NumThread -> Nat], IsSum(f, c)
    PROVE  \E g \in [0..NumThread -> Nat] :
               /\ IsSum(g, [c EXCEPT ![w] = @ + 1])
               /\ \A n \in 0..w - 1 : g[n] = f[n]
<1> DEFINE g == [n \in 0..NumThread |-> IF n < w THEN f[n] ELSE f[n] + 1]
           d == [c EXCEPT ![w] = @ + 1]
<1>1. w \in Nat /\ 0 < w /\ w <= NumThread
  BY Constants
<1>2. g \in [0..NumThread -> Nat]
  OBVIOUS
<1>3. \A n \in 0..w - 1 : g[n] = f[n]
  BY <1>1, Constants
<1>4. \A n \in 0..NumThread : g[n] = IF n = 0 THEN 0 ELSE g[n - 1] + d[n]
  <2> SUFFICES ASSUME NEW n \in 0..NumThread
               PROVE  g[n] = IF n = 0 THEN 0 ELSE g[n - 1] + d[n]
    OBVIOUS
  <2>1. CASE n = 0
    BY <1>1, <2>1, SumEquation
  <2>2. CASE n # 0
    <3>1. n - 1 \in 0..NumThread /\ n \in Worker
      BY <2>2, Constants DEF Worker
    <3>2. /\ g[n] = IF n < w THEN f[n] ELSE f[n] + 1
          /\ g[n - 1] = IF n - 1 < w THEN f[n - 1] ELSE f[n - 1] + 1
      BY <3>1
    <3>3. d[n] = IF n = w THEN c[n] + 1 ELSE c[n]
      BY <3>1
    <3>4. /\ f[n] = f[n - 1] + c[n] /\ f[n] \in Nat /\ f[n - 1] \in Nat /\ c[n] \in Nat
      BY <2>2, <3>1, SumEquation
    <3> HIDE DEF g, d
    <3> QED
      BY <1>1, <2>2, <3>2, <3>3, <3>4
  <2> QED
    BY <2>1, <2>2
<1>5. IsSum(g, d)
  <2>1. g = [n \in 0..NumThread |-> g[n]]
    BY <1>2, Zenon
  <2>2. g = [n \in 0..NumThread |-> IF n = 0 THEN 0 ELSE g[n - 1] + d[n]]
    <3> HIDE DEF g, d
    <3> QED
      BY <1>4, <2>1, Zenon
  <2> QED
    BY <2>2 DEF IsSum
<1> QED
  BY <1>2, <1>3, <1>5

-----------------------------------------------------------------------------
(* The invariant                                                           *)

\* It holds at first.
LEMMA PoolInvInit == Init => PoolInv
<1> SUFFICES ASSUME Init PROVE PoolInv
  OBVIOUS
<1>0. /\ timed \in BOOLEAN /\ main = "create" /\ tid = 1 /\ terminateFlag = FALSE
      /\ mtx = Nobody /\ worker = [w \in Worker |-> "none"]
      /\ sleeping = [w \in Worker |-> FALSE] /\ threadArgs = {}
      /\ localCount = [w \in Worker |-> 0] /\ checkSum = 0 /\ spurious = FALSE
  BY DEF Init
<1>1. TypeOK
  <2>1. worker \in [Worker -> WorkerState] /\ localCount \in [Worker -> 0..MaxWork]
    BY <1>0, Constants DEF WorkerState
  <2>2. main \in MainState /\ tid \in Worker /\ sleeping \in [Worker -> BOOLEAN]
    BY <1>0, Constants DEF MainState
  <2>3. terminateFlag \in BOOLEAN /\ spurious \in BOOLEAN
    BY <1>0
  <2> QED
    BY <1>0, <2>1, <2>2, <2>3 DEF TypeOK
<1>2. WorkOK /\ ArgsOK /\ EarlyOK /\ JoinOK
  BY <1>0 DEF WorkOK, ArgsOK, EarlyOK, JoinOK
<1>3. SumOK
  <2> DEFINE f == [n \in 0..NumThread |-> 0]
  <2>1. \A n \in 0..NumThread : f[n] = IF n = 0 THEN 0 ELSE f[n - 1] + localCount[n]
    <3> SUFFICES ASSUME NEW n \in 0..NumThread, n # 0 PROVE f[n] = f[n - 1] + localCount[n]
      OBVIOUS
    <3>1. n - 1 \in 0..NumThread /\ n \in Worker
      BY Constants DEF Worker
    <3> QED
      BY <1>0, <3>1
  <2>2. IsSum(f, localCount)
    <3>1. f = [n \in 0..NumThread |-> f[n]]
      BY Zenon
    <3> HIDE DEF f
    <3>2. f = [n \in 0..NumThread |-> IF n = 0 THEN 0 ELSE f[n - 1] + localCount[n]]
      BY <2>1, <3>1, Zenon
    <3> QED
      BY <3>2 DEF IsSum
  <2>3. f \in [0..NumThread -> Nat] /\ AddedUp(f)
    BY <1>0 DEF AddedUp
  <2> QED
    BY <2>2, <2>3 DEF SumOK
<1> QED
  BY <1>1, <1>2, <1>3 DEF PoolInv

\* The steps of main, but for the joins of a run: nothing is added up.
LEMMA MainStep ==
    ASSUME PoolInv,
           Create \/ AwaitSleep \/ Run \/ TimeOver \/ SetFlagUnused \/ Destroy \/ JoinUnused
    PROVE  PoolInv'
<1>0. TypeOK /\ WorkOK /\ ArgsOK /\ EarlyOK /\ JoinOK /\ SumOK
  BY DEF PoolInv
<1>1. /\ UNCHANGED <<timed, spurious, checkSum, mtx, sleeping, localCount>>
      /\ main \notin {"join", "ended"} /\ main' # "ended"
      /\ main' = "join" => tid' = 1
  BY <1>0 DEF JoinOK, Create, AwaitSleep, Run, TimeOver, SetFlagUnused, Destroy, JoinUnused, fixed
<1>2. TypeOK'
  <2>1. tid' \in Worker
    BY <1>0, Constants
       DEF TypeOK, Create, AwaitSleep, Run, TimeOver, SetFlagUnused, Destroy, JoinUnused
  <2>2. /\ main' \in MainState /\ terminateFlag' \in BOOLEAN
        /\ worker' \in [Worker -> WorkerState] /\ threadArgs' \subseteq Worker
    BY <1>0 DEF TypeOK, Create, AwaitSleep, Run, TimeOver, SetFlagUnused, Destroy, JoinUnused,
                become, wakeAll, MainState, WorkerState
  <2> QED
    BY <1>0, <1>1, <2>1, <2>2 DEF TypeOK
<1>3. \A w \in Worker :
        \/ worker'[w] = worker[w]
        \/ worker[w] = "waiting" /\ worker'[w] = "woken" /\ main' \notin {"create", "awaitSleep", "ready"}
        \/ worker[w] = "exited" /\ worker'[w] = "joined" /\ main' \notin {"create", "awaitSleep", "ready"}
        \/ Create /\ w = tid /\ worker'[w] = "start" /\ w \in threadArgs'
  BY <1>0 DEF TypeOK, Create, AwaitSleep, Run, TimeOver, SetFlagUnused, Destroy, JoinUnused,
              become, wakeAll
<1>4. threadArgs \subseteq threadArgs'
  BY DEF Create, AwaitSleep, Run, TimeOver, SetFlagUnused, Destroy, JoinUnused
<1>5. WorkOK'
  BY <1>0, <1>1, <1>3 DEF WorkOK
<1>6. ArgsOK'
  <2>1. \A w \in Worker : worker'[w] \notin {"none", "exited", "joined"} => w \in threadArgs'
    BY <1>0, <1>3, <1>4 DEF ArgsOK
  <2>2. main' = "awaitSleep" => worker'[tid'] # "none"
    <3>1. main' = "awaitSleep" => Create
      BY DEF Create, AwaitSleep, Run, TimeOver, SetFlagUnused, Destroy, JoinUnused
    <3>2. Create => worker'[tid] = "start" /\ tid' = tid
      BY <1>0 DEF TypeOK, Create, become
    <3> QED
      BY <3>1, <3>2
  <2> QED
    BY <2>1, <2>2 DEF ArgsOK
<1>7. EarlyOK'
  <2>1. main' \in {"create", "awaitSleep", "ready"} => main \in {"create", "awaitSleep", "ready"}
    BY DEF Create, AwaitSleep, Run, TimeOver, SetFlagUnused, Destroy, JoinUnused
  <2> QED
    BY <1>0, <1>1, <1>3, <2>1 DEF EarlyOK
<1>8. JoinOK'
  <2>1. main' \in {"ready", "timer", "destroy"} => tid' = 1
    BY <1>0 DEF JoinOK, Create, AwaitSleep, Run, TimeOver, SetFlagUnused, Destroy, JoinUnused
  <2>2. main' = "join" => \A w \in Worker : ~(w < tid')
    BY <1>1, Constants
  <2> QED
    BY <1>1, <2>1, <2>2 DEF JoinOK
<1>9. SumOK'
  <2>1. PICK f \in [0..NumThread -> Nat] : IsSum(f, localCount) /\ AddedUp(f)
    BY <1>0 DEF SumOK
  <2>2. f[0] = 0
    BY <2>1, SumEquation, Constants
  <2>3. timed => checkSum = 0
    BY <1>1, <2>1 DEF AddedUp
  <2>4. AddedUp(f)'
    BY <1>1, <2>2, <2>3 DEF AddedUp
  <2>5. IsSum(f, localCount)'
    BY <1>1, <2>1 DEF IsSum
  <2> QED
    BY <2>4, <2>5 DEF SumOK
<1> QED
  BY <1>2, <1>5, <1>6, <1>7, <1>8, <1>9 DEF PoolInv

\* A join of a run adds the next count.
LEMMA JoinStep ==
    ASSUME PoolInv, Join
    PROVE  PoolInv'
<1>0. /\ TypeOK /\ WorkOK /\ ArgsOK /\ EarlyOK /\ JoinOK /\ SumOK
      /\ tid \in Worker /\ tid \in Nat /\ 0 < tid /\ tid <= NumThread
      /\ worker \in [Worker -> WorkerState] /\ localCount \in [Worker -> 0..MaxWork]
  BY Constants DEF PoolInv, TypeOK
<1>1. /\ UNCHANGED <<timed, spurious, mtx, sleeping, threadArgs, localCount>>
      /\ main = "join" /\ worker[tid] = "exited"
      /\ worker' = [worker EXCEPT ![tid] = "joined"]
      /\ checkSum' = IF timed THEN checkSum + localCount[tid] ELSE checkSum
      /\ \/ tid < NumThread /\ tid' = tid + 1 /\ main' = "join" /\ terminateFlag' = terminateFlag
         \/ tid = NumThread /\ tid' = 1 /\ main' = "ended" /\ terminateFlag' = TRUE
  BY <1>0, Constants DEF Join, fixed, become
<1>2. localCount[tid] \in Nat
  BY <1>0, Constants
<1>3. TypeOK'
  <2>1. worker' \in [Worker -> WorkerState]
    BY <1>0, <1>1 DEF WorkerState
  <2>2. tid' \in Worker /\ main' \in MainState
    BY <1>0, <1>1, Constants DEF MainState
  <2>3. checkSum' \in Nat
    BY <1>0, <1>1, <1>2 DEF TypeOK
  <2>4. terminateFlag' \in BOOLEAN
    BY <1>0, <1>1 DEF TypeOK
  <2> QED
    BY <1>0, <1>1, <2>1, <2>2, <2>3, <2>4 DEF TypeOK
<1>4. WorkOK' /\ ArgsOK' /\ EarlyOK'
  BY <1>0, <1>1 DEF WorkOK, ArgsOK, EarlyOK
<1>5. JoinOK'
  <2>1. \A w \in Worker : w <= tid => worker'[w] = "joined"
    BY <1>0, <1>1, Constants DEF JoinOK
  <2>2. \A w \in Worker : w < tid + 1 => w <= tid
    BY <1>0, Constants
  <2> QED
    BY <1>0, <1>1, <2>1, <2>2, Constants DEF JoinOK
<1>6. SumOK'
  <2>1. PICK f \in [0..NumThread -> Nat] : IsSum(f, localCount) /\ AddedUp(f)
    BY <1>0 DEF SumOK
  <2>2. f[tid] = f[tid - 1] + localCount[tid]
    <3>1. tid \in 0..NumThread /\ tid # 0
      BY <1>0, Constants
    <3>2. \A n \in 0..NumThread : f[n] = IF n = 0 THEN 0 ELSE f[n - 1] + localCount[n]
      BY <2>1, SumEquation
    <3> QED
      BY <3>1, <3>2
  <2>3. timed => checkSum' = f[tid]
    BY <1>1, <2>1, <2>2 DEF AddedUp
  <2>4. tid + 1 - 1 = tid
    BY <1>0
  <2>5. AddedUp(f)'
    <3>1. timed' => checkSum' = f[tid]
      BY <1>1, <2>3
    <3>2. CASE main' = "join"
      <4>1. tid' - 1 = tid
        <5>1. tid' = tid + 1
          BY <1>1, <3>2
        <5> QED
          BY <1>0, <5>1
      <4>2. main' # "ended" /\ main' \in {"join", "ended"}
        BY <3>2
      <4> QED
        BY <3>1, <3>2, <4>1, <4>2, Zenon DEF AddedUp
    <3>3. CASE main' = "ended"
      BY <1>1, <3>1, <3>3 DEF AddedUp
    <3> QED
      BY <1>1, <3>2, <3>3
  <2>6. IsSum(f, localCount)'
    BY <1>1, <2>1 DEF IsSum
  <2> QED
    BY <2>5, <2>6 DEF SumOK
<1> QED
  BY <1>3, <1>4, <1>5, <1>6 DEF PoolInv

\* The steps of a worker.
LEMMA WorkerStep ==
    ASSUME PoolInv, NEW w \in Worker, threadFunc(w) \/ WakeSpuriously(w)
    PROVE  PoolInv'
<1>0. /\ TypeOK /\ WorkOK /\ ArgsOK /\ EarlyOK /\ JoinOK /\ SumOK
      /\ worker \in [Worker -> WorkerState] /\ localCount \in [Worker -> 0..MaxWork]
  BY DEF PoolInv, TypeOK
<1>1. /\ UNCHANGED <<timed, main, tid, checkSum, terminateFlag>>
      /\ \E state \in WorkerState \ {"none", "start", "joined"} :
            worker' = [worker EXCEPT ![w] = state]
      /\ worker[w] \notin {"none", "exited", "joined"}
  BY DEF threadFunc, Lock, SetSleeping, Wait, WakeSpuriously, Wake, Test, Work, Exit,
         become, mainVars, fixed, WorkerState
<1>2. \A v \in Worker : v # w => worker'[v] = worker[v]
  BY <1>0, <1>1
<1>3. /\ Exit(w) => worker'[w] = "exited" /\ threadArgs' = threadArgs \ {w}
      /\ ~Exit(w) => threadArgs' = threadArgs
  BY <1>0 DEF threadFunc, Lock, SetSleeping, Wait, WakeSpuriously, Wake, Test, Work, Exit, become
<1>4. /\ WakeSpuriously(w) => spurious' = TRUE
      /\ ~WakeSpuriously(w) => spurious' = spurious
  BY DEF threadFunc, Lock, SetSleeping, Wait, WakeSpuriously, Wake, Test, Work, Exit, fixed
<1>5. /\ Work(w) => /\ worker[w] = "work" /\ worker'[w] \in {"loop", "free"}
                    /\ localCount' = [localCount EXCEPT ![w] = @ + 1]
      /\ ~Work(w) => /\ localCount' = localCount
                     /\ worker'[w] = "work" => localCount[w] < MaxWork
  BY <1>0 DEF threadFunc, Lock, SetSleeping, Wait, WakeSpuriously, Wake, Test, Work, Exit, become
<1>6. TypeOK'
  <2>1. localCount' \in [Worker -> 0..MaxWork]
    <3>1. CASE Work(w)
      <4>1. localCount[w] + 1 \in 0..MaxWork
        BY <1>0, <1>5, <3>1, Constants DEF WorkOK
      <4> QED
        BY <1>0, <1>5, <3>1, <4>1
    <3> QED
      BY <1>0, <1>5, <3>1
  <2>2. worker' \in [Worker -> WorkerState]
    BY <1>0, <1>1
  <2>3. /\ mtx' \in Worker \cup {Nobody} /\ sleeping' \in [Worker -> BOOLEAN]
    BY <1>0 DEF TypeOK, threadFunc, Lock, SetSleeping, Wait, WakeSpuriously, Wake, Test, Work, Exit
  <2>4. threadArgs' \subseteq Worker
    BY <1>0, <1>3 DEF TypeOK
  <2>5. spurious' \in BOOLEAN
    BY <1>0, <1>4 DEF TypeOK
  <2> QED
    BY <1>0, <1>1, <2>1, <2>2, <2>3, <2>4, <2>5 DEF TypeOK
<1>7. WorkOK'
  BY <1>0, <1>2, <1>5 DEF WorkOK
<1>8. ArgsOK'
  <2>1. \A v \in Worker : worker'[v] \notin {"none", "exited", "joined"} => v \in threadArgs'
    BY <1>0, <1>1, <1>2, <1>3 DEF ArgsOK
  <2>2. main' = "awaitSleep" => worker'[tid'] # "none"
    BY <1>0, <1>1, <1>2 DEF ArgsOK, TypeOK
  <2> QED
    BY <2>1, <2>2 DEF ArgsOK
<1>9. EarlyOK'
  <2> SUFFICES ASSUME ~spurious', main' \in {"create", "awaitSleep", "ready"}
               PROVE  \A v \in Worker :
                         worker'[v] \in {"none", "start", "locked", "asleep", "waiting"}
    BY DEF EarlyOK
  <2>1. /\ ~WakeSpuriously(w) /\ ~spurious
        /\ \A v \in Worker : worker[v] \in {"none", "start", "locked", "asleep", "waiting"}
    BY <1>0, <1>1, <1>4 DEF EarlyOK
  <2>2. worker'[w] \in {"locked", "asleep", "waiting"}
    BY <1>0, <2>1 DEF threadFunc, Lock, SetSleeping, Wait, Wake, Test, Work, Exit, become
  <2> QED
    BY <1>2, <2>1, <2>2
<1>10. JoinOK'
  BY <1>0, <1>1, <1>2 DEF JoinOK
<1>11. SumOK'
  <2>1. PICK f \in [0..NumThread -> Nat] : IsSum(f, localCount) /\ AddedUp(f)
    BY <1>0 DEF SumOK
  <2>2. CASE Work(w)
    <3>1. localCount \in [Worker -> Nat]
      BY <1>0, Constants
    <3>2. PICK g \in [0..NumThread -> Nat] :
               /\ IsSum(g, [localCount EXCEPT ![w] = @ + 1])
               /\ \A n \in 0..w - 1 : g[n] = f[n]
      BY <2>1, <3>1, SumIncrement
    <3>3. main # "ended" /\ (main = "join" => ~(w < tid))
      BY <1>0, <1>1 DEF JoinOK
    <3>4. main = "join" => tid - 1 \in 0..w - 1
      BY <1>0, <3>3, Constants DEF TypeOK
    <3>5. AddedUp(g)
      BY <2>1, <3>2, <3>3, <3>4 DEF AddedUp
    <3>6. AddedUp(g)'
      BY <1>1, <3>5 DEF AddedUp
    <3>7. IsSum(g, localCount)'
      BY <1>5, <2>2, <3>2 DEF IsSum
    <3> QED
      BY <3>6, <3>7 DEF SumOK
  <2>3. CASE ~Work(w)
    <3>1. AddedUp(f)'
      BY <1>1, <2>1 DEF AddedUp
    <3>2. IsSum(f, localCount)'
      BY <1>5, <2>1, <2>3 DEF IsSum
    <3> QED
      BY <3>1, <3>2 DEF SumOK
  <2> QED
    BY <2>2, <2>3
<1> QED
  BY <1>6, <1>7, <1>8, <1>9, <1>10, <1>11 DEF PoolInv

\* Every step keeps it.
LEMMA PoolInvStep == PoolInv /\ [Next]_vars => PoolInv'
<1> SUFFICES ASSUME PoolInv, [Next]_vars PROVE PoolInv'
  OBVIOUS
<1>1. CASE UNCHANGED vars
  <2>1. UNCHANGED <<timed, main, tid, checkSum, terminateFlag, mtx, worker, sleeping,
                    threadArgs, localCount, spurious>>
    BY <1>1 DEF vars, mainVars
  <2>2. TypeOK' /\ WorkOK' /\ ArgsOK' /\ EarlyOK' /\ JoinOK'
    BY <2>1 DEF PoolInv, TypeOK, WorkOK, ArgsOK, EarlyOK, JoinOK
  <2>3. SumOK'
    BY <2>1 DEF PoolInv, SumOK, IsSum, AddedUp
  <2> QED
    BY <2>2, <2>3 DEF PoolInv
<1>2. CASE Next
  BY <1>1, <1>2, MainStep, JoinStep, WorkerStep DEF Next, mainStep, Ended
<1> QED
  BY <1>1, <1>2

-----------------------------------------------------------------------------
(* The theorems                                                            *)

\* The inductive invariant of the pool.
THEOREM ThreadPoolInvariant == Spec => []PoolInv
BY PoolInvInit, PoolInvStep, PTL DEF Spec

\* The variables keep their types: in particular no worker calls its work
\* function beyond the bound.
THEOREM ThreadPoolTypes == Spec => []TypeOK
<1>1. PoolInv => TypeOK
  BY DEF PoolInv
<1> QED
  BY <1>1, ThreadPoolInvariant, PTL

\* The constructor polls the flag of an argument that exists, but for spurious
\* wake-ups.
THEOREM ThreadPoolArgAlive == Spec => []ArgAlive
<1>1. PoolInv => ArgAlive
  <2> SUFFICES ASSUME PoolInv, main = "awaitSleep", ~spurious PROVE tid \in threadArgs
    BY DEF ArgAlive
  <2>1. tid \in Worker /\ worker[tid] # "none"
    BY DEF PoolInv, TypeOK, ArgsOK
  <2>2. worker[tid] \in {"none", "start", "locked", "asleep", "waiting"}
    BY <2>1 DEF PoolInv, EarlyOK
  <2> QED
    BY <2>1, <2>2 DEF PoolInv, ArgsOK
<1> QED
  BY <1>1, ThreadPoolInvariant, PTL

\* No worker starts its work before run is called, but for spurious wake-ups.
THEOREM ThreadPoolStartTogether == Spec => [](~spurious => StartTogether)
<1>1. PoolInv => (~spurious => StartTogether)
  <2> SUFFICES ASSUME PoolInv, ~spurious, main \in {"create", "awaitSleep", "ready"}
               PROVE  Started = {}
    BY DEF StartTogether
  <2>1. \A w \in Worker : worker[w] \in {"none", "start", "locked", "asleep", "waiting"}
    BY DEF PoolInv, EarlyOK
  <2> QED
    BY <2>1 DEF Started
<1> QED
  BY <1>1, ThreadPoolInvariant, PTL

\* project2's checksum is the sum of all workers' counts, those included that
\* were in their work function when the time was over.
THEOREM ThreadPoolChecksum == Spec => []ChecksumExact
<1>1. PoolInv => ChecksumExact
  <2> SUFFICES ASSUME PoolInv, main = "ended", timed PROVE ChecksumExact
    BY DEF ChecksumExact
  <2> DEFINE sum == CHOOSE f : f = [n \in 0..NumThread |->
                                       IF n = 0 THEN 0 ELSE f[n - 1] + localCount[n]]
  <2>1. PICK f \in [0..NumThread -> Nat] : IsSum(f, localCount) /\ AddedUp(f)
    BY DEF PoolInv, SumOK
  <2>2. checkSum = f[NumThread]
    BY <2>1 DEF AddedUp
  <2>3. f = [n \in 0..NumThread |-> IF n = 0 THEN 0 ELSE f[n - 1] + localCount[n]]
    BY <2>1 DEF IsSum
  <2>4. sum = [n \in 0..NumThread |-> IF n = 0 THEN 0 ELSE sum[n - 1] + localCount[n]]
    BY <2>3, Zenon
  <2>5. IsSum(sum, localCount)
    BY <2>4 DEF IsSum
  <2>6. sum = f
    <3> HIDE DEF sum
    <3> QED
      BY <2>1, <2>5, SumUnique
  <2> QED
    BY <2>2, <2>6, Zenon DEF ChecksumExact
<1> QED
  BY <1>1, ThreadPoolInvariant, PTL
=============================================================================
