# A TLA+ development for HYU_ITE4065

The repository holds the exercises (`lab01` .. `lab14`) and the four projects of a
multicore programming course, in C++ with pthreads.  This directory models its
programs in TLA+, checks small instances with TLC, and proves all their safety
properties with TLAPS, for every number of threads, records, keys and calls, and for
every relation and query.  Liveness is model-checked only.

`PROJECT.json` is the index: components, runs, the source lines every definition
stands for, the hazards of the code, the theorems.  This file is the text that
goes with it.

## 1. Inventory

### project3: transactions over record locks

* **Lock table** (`src/Lock.cpp`, `include/Lock.hpp`).  State: one doubly linked
  list of `LockNode`s per record (`head`, `tail`, `prev`, `next`), one deque of
  nodes per transaction (chained by `nextInTxn`), a flag `locked` per node, one
  mutex `globalMtx`.  Operations: `lock` (`addReaderLock` or `addWriterLock`
  under the mutex, with `checkDeadlock`, and then a spin on `locked` without it)
  and `unlock` (under the mutex: unlink and delete every node of the transaction,
  wake the successors).  Correct when a granted writer is alone on its record,
  waiters are woken when nothing in front of them conflicts, no set of
  transactions waits for one another, and no pointer dangles.
* **Database** (`src/Database.cpp`).  State: the vector `records`, read and
  written without a mutex.  Operations: `read`, `add`, `commit`, `abort`.  Correct
  when the committed transactions are serializable in the order of their commit
  ids and an aborted one leaves no trace.
* **Log manager** (`src/Logger.cpp`).  State: the log of each running transaction,
  a log file per thread, the atomic counter `executionOrder`.
* **Transaction loop** (`src/main.cpp`): `transaction` draws three different
  records, reads the first, adds to the other two, commits, and starts over when a
  lock is refused; the thread ends when its commit id is past the limit.
* **Thread pool** (`src/ThreadPool.cpp`, `include/ThreadPool.hpp`): starts all
  workers together with one broadcast, and joins them.

Calls go one way: pool -> transaction -> database -> lock table and log.  Threads
meet in the lock table (mutex, `locked`), in the records (no synchronization but
the record locks) and in `executionOrder`.

### project2: wait-free snapshot

* **Snapshot** (`src/Snapshot.cpp`): one register per thread, `scan` (collect
  until two collects agree, or take over the scan of a thread seen to move twice)
  and `update` (scan, then write value and scan to one's own register).
* **Thread pool**: as in project3, but the run is ended by a timer and a flag, and
  the workers' counts are added up.

### project1: join queries

* **Query pool** (`main.cpp`): main deals queries to workers, each with its own
  mutex and condition variable, and prints results in the order of the queries.
  Correct when no signal is missed and the output is in order.
* **Planner** (`Joiner.cpp`): takes the predicates of a query one by one.  State: a
  disjoint set over the bindings, whose roots hold trees of operators.  Correct when
  the trees follow the connected components of the join graph.
* **Operators** (`Operators.cpp`): scans, joins, self joins and the checksum.  Each
  requires its columns of its inputs, runs them, and materialises its result.
  Correct when the checksums are those of the query's meaning, whatever the order of
  the predicates and the sizes of the inputs.  A query runs in one thread on
  immutable relations (`Relation.cpp`).
* **Parser** (`Parser.cpp`): splits a line into relations, predicates, filters and
  selections.
* **Harness** (`harness.cpp`): feeds the pool batch by batch through a pipe, reads
  the results through another, and compares.  Correct when the two never wait for
  each other.  There are unit tests of the operators, too.

### Labs

* `lab04`, `lab05`: counting primes, with threads created for each range, a pool that
  main polls, and a pool whose last worker signals main.
* `lab06`, `lab08`: programs on boost's `io_service`: timers that count together under
  a strand, a group of threads, and a pool that posts its results to a printer.
* `lab11`: spin locks (TAS, TTAS, CLH).  Correct when no increment of the counter they
  guard is lost, and when a CLH node is reused only when nobody spins on it.
* `lab12`: concurrent sorted lists (one mutex, hand-over-hand, optimistic).
* `lab13`: bounded queues (one mutex; tickets and slot flags).
* `lab14`: an unbounded lock-free queue.

The labs are programs of their own and share nothing with each other.

### project4

A patch to MariaDB, whose source is not in the repository.

## 2. What is hard in this code

`PROJECT.json` lists every hazard at its line.  The heart of it:

* `unlock` wakes waiters one by one, and they run at once, while the rest of the
  unlock goes on; everything in front of a node must be right between any two of
  these writes.
* The deadlock search walks lists of several records and marks nothing: it ends
  only because deadlocks never arise, which is what it is there to ensure.
* An abort may come after one, two or three operations, or after a commit id was
  drawn; it writes under a READ lock.
* A scan may be helped by a scan that was itself helped.
* Workers announce that they sleep before they do; wake-ups that come in between
  must not be lost.  Condition variables may wake without cause.
* Two join trees that both have several bindings are united through the roots of a
  disjoint set, and a join swaps its inputs after their columns have been required.
* Harness and pool are joined in a circle: one waits for results before it writes
  on, the other for lines before it prints.

## 3. The modules

| Module | Models | Written as |
| --- | --- | --- |
| `LockTable` | project3 lock table | clients call `lock` and `unlock` in any order |
| `LockQueues` | its promise | requests stand in lines: arrive, be granted, leave |
| `Database` | database, log manager, transaction loop | each action has an action of `LockTable` as a conjunct, or leaves the table alone |
| `SerialDB` | its promise | whole transactions one by one |
| `DatabaseProofs` | | proofs about `LockTable`, also that it implements `LockQueues`, and about `Database`, also that it implements `SerialDB` |
| `ThreadPool` | pools of project2 and project3 | `timed`, fixed by `Init`, says which |
| `ThreadPoolProofs` | | proofs about `ThreadPool` |
| `Snapshot` | project2 snapshot | one step per access to a register |
| `AtomicSnapshot` | its promise | a scan returns a vector that memory held meanwhile |
| `SnapshotProofs` | | proofs about `Snapshot`, also that it implements `AtomicSnapshot` |
| `QueryPool` | project1 main and workers | numbers for queries and results |
| `Harness` | project1 harness, composed with `QueryPool` | the pipes decide when the pool's `ReadF`, `ReadQuery` and `EndOfInput` can happen |
| `QueryPoolProofs` | | proofs about `QueryPool`, and about `Harness` |
| `Joiner` | project1 planner and operators, and what the parser gives them | one action per predicate, and per operator that requires columns or runs |
| `JoinerProofs` | | proofs about `Joiner` |
| `ConcurrentList` | lab12, all three lists | `program`, fixed by `Init`, says which |
| `KeySet` | their promise | each call takes effect on a set in one step |
| `ConcurrentListProofs` | | proofs about `ConcurrentList`, also that it implements `KeySet` |
| `ConcurrentQueue` | lab13 (one mutex; tickets) and lab14 (linked) | `program` again |
| `SpinLocks` | lab11, all three locks | `program` again |
| `SpinLocksProofs` | | proofs about `SpinLocks` |
| `PrimePool` | lab04 and lab05, three ways to hand out a range | `program` again |
| `IoService` | lab06 and lab08, four uses of an `io_service` | `program` again |
| `MCLabs` | | the queues, locks, pools and services in one run, one of them per behaviour |
| `LabsProofs` | | proofs about `ConcurrentQueue`, `IoService` and `PrimePool`, and about `MCLabs` |
| `MC...` | | constants, symmetry and plans of the runs |

In each module actions and variables have the names of the functions and fields
they stand for where there is one.  Operators with the comment "Faulty variant"
are plausible bugs of the definition that follows them.  No specification uses
them: they are there to see that the properties notice.

### How finely the steps are cut

* What a thread does under a mutex is one action if nobody can see it half done.
  `addReaderLock` and `addWriterLock` are such actions.  `unlock` is not, because
  waiters read `locked` without the mutex: its mutex is a variable, each node it
  releases is an action (`releaseOnly`, `releaseHead`, `releaseInner`) and so is
  each wake-up (`wakeNext`).
* Every access to a record, a register, a shared flag or a shared counter is a
  step of its own.  `AddLoad` and `AddStore` are two, because nothing but the
  record lock keeps another thread from coming between.
* A node of the hand-over-hand list, a slot whose flag shows a thread's ticket and the
  giant lock's array belong to one thread at a time, and what it does with them there
  belongs to one step.  Each pointer that the optimistic list's searches and
  validations read, each ticket drawn, each flag increased and each compare-and-swap is
  a step.
* A whole call of the list with one lock is a search, a decision and an unlock; the
  free of `list_remove` and the comparison of `list_contains` follow as steps of their
  own (`Free`, `Compare`), because the code does them after the unlock.
* `cnt_global++` under a spin lock and `done++` in the prime pool are a read and a write.
  `Input` reads both ends of a range in one step and `Reset` sets `thread_ret` and `done` in
  one: in a round that nothing has disturbed all workers are at rest by then, and of
  another one nothing is claimed.
* In `Joiner` the columns are required for the whole tree, from the root down, before the
  operators are run from the leaves up.  The code requires and runs the left input before
  it requires the right one; as the inputs share nothing the result is the same.
* The harness writes any part of the rest of a batch, and reads any part of the results
  that are there; that is all that sizes of pipes and buffers decide.  cin is tied to
  cout, so main flushes its results when it reads on, and perhaps earlier
  (`delivered`).
* Work on a thread's own variables belongs to the step it follows.

### What is abstracted

* `checkDeadlock` and the backward traversal of `addReaderLock` are given as
  reachability: the search fails when the tail lies in a set of foreign nodes that
  no pointer leaves.  The recursion visits exactly the reachable nodes, provided it
  ends, which the invariant `WaitForAcyclic` shows.
* A `LockNode` is named by its transaction and record.  `OwnRecordRefused` shows
  that these never name two nodes at once.
* The code deletes the released head after it has woken its successors, the model
  before; by then nothing points at it (`ListsLinked`).
* Record values are numbers modulo `Modulus` (2^64 in the program).  That the
  program's signed arithmetic wraps on overflow is assumed; C++ leaves it undefined.
* The log's three parallel vectors are one sequence of entries.
* The value a snapshot update writes is its label: the program draws random values
  and never looks at them.
* A query of the pool is its number, and so is its result.  A worker looks up the query when
  it starts to work (`Work`) and publishes that query's `result` when it is done
  (`FallAsleep`), whatever `thread_arg` has become meanwhile.
* A query of the joiner is its list of bindings, conditions and selections; the
  splitting of its text is left out.  Operators are numbered in the order in which they
  are made.  The pairs a join finds for one row come in the order of the table; the code
  gives them in the order of a hash table's bucket, which no sum depends on.
* `SelfJoin` keeps its columns in a `std::set<SelectInfo>` whose order is none
  (`Parser.hpp:27-30`: of two columns each may be less than the other), so the set may miss
  that it has a column and take it twice.  As it never takes one for another, and the first
  copy is the one that is looked up, the values are those of the model, which has each
  column once.
* In the model each handler of `IoService` stands for its timer, or for what was posted.
* A list node is named by the call that allocates it, a queue node by its key.  An
  address that malloc gives out again after free is a different node in the model; that
  no call uses a freed node, but for one comparison that may have any result
  (`FreedOnlyCompared`, `Compare`), is why this makes no difference.  The optimistic list and the linked queue free nothing.

### Data races

The code reads plain variables that other threads write: `locked`, `terminateFlag`,
`sleeping`, `thread_ret`, `is_done`, `range_start` and `range_end`, the words the spin locks
spin on, the `next` pointers of the optimistic list, the
`flag`s of the ticket queue, and records in `abort`.  In the model a read gives the last
value written; a loop that reads an old value reads again.  A compiler that moved such
a read out of its loop, or swapped `node->next = curr` and `prev->next = node` in the
optimistic `list_add`, would make another program, which is not modelled.  Reads of records
race only with a store of the value that is already there: `RacesAreSilent` is
the invariant that says so, and it is why a read may be one step.

## 4. The runs

| Run | Instance | Question |
| --- | --- | --- |
| `lock_table` | 3 transactions, 2 records, any calls | Is the table's inductive invariant true, and with it exclusion, no lost wake-up, no deadlock, first come first served? |
| `refusals` | the same | Does every refusal prevent a deadlock? **No.** |
| `database` | 2 threads, 3 records, 2 commits, values mod 4 | Serializable? Complete logs? Only silent races? |
| `database_live` | 3 threads, 3 records in orders that make queues and circles, 1 commit, values mod 2 | Only justified aborts, serializable still? Does every spin end, and does the program end if refusals do? |
| `livelock` | 2 threads, 3 records | Does every transaction commit in the end? **No.** |
| `thread_pool` | 3 workers, 2 calls each, both pools | Does the run's broadcast reach all, is the checksum exact, does a run end, and a destructor that finds all workers waiting, do arguments outlive their readers? |
| `spurious` | 2 workers | Do all workers start together? **Not with spurious wake-ups.** |
| `snapshot` | 3 threads, 2 updates each | Are scans atomic, and over after NumThread + 1 collects? |
| `query_pool` | 2 workers, all inputs of 5 lines, from a file or from the harness | Are results in order, signals never missed, does the program end if no worker is at work when the input ends, does the harness succeed? |
| `lists` | 2 threads, 2 calls each, 2 keys, all three lists | Is each call linearizable, is no freed node used but in one comparison, is every retry justified? |
| `labs` | 3 queues: 2 producers, 2 consumers, 2 keys each, 2 slots; 3 locks: 3 threads, 2 calls each; 3 prime pools: 2 workers, 2 ranges, 1 spurious wake-up; 4 io_service programs: 2 threads in the pool, 3 posts, timers up to 3 | First in, first out? Counters exact, nodes circulating? Right numbers of primes, handlers called once? Does every program end? |
| `joins` | all queries with 2 bindings and 3 predicates, 3 and 3, 4 and 3, over 3 relations of 2 to 4 rows | Do the trees follow the join graph, does every column resolve, is the answer right? |

### Why the bounds are enough to be interesting

* Three transactions and two records are the least for a reader behind a writer
  behind a reader, and for a transaction that holds one record while it waits in the
  line of another.  Circles of three need three records, which `database_live`
  has.  The proofs take over from there: they have no bound.
* `MaxExecution` is 2 in `database`, so that a transaction sees the effects of
  another and a thread gets a commit id past the limit while another still runs.
  The values only make different histories visible: no guard depends on them.  Four of
  them tell the effects of two transactions apart, two those of one.
* `NumThread = 3` in `snapshot` is the least with a scan that helps one that helps
  one; two updates are the least for a thread to be seen moving twice.  At the bound
  `Finished` stutters.
* Two workers and five lines in `query_pool` give a full batch that is flushed with
  a query in hand, an empty batch, and a last batch with and without F.  The harness has every
  workload of five lines, with one to five batches, of which any may be empty.
* Two calls for each of two threads in `lists` are enough for one to insert and remove the
  node another is about to lock, and to remove one it is walking through.  The number of
  calls is what bounds retries in `Terminates`; the form of it without a bound is
  `RetriesJustified`.
* Four keys in two slots are two rounds in `labs`: producers wait for a slot that
  others of an earlier round have not emptied, consumers for one not filled.
* In `database_live` the first thread draws the records in the order a b c and the others in
  two orders each, which gives queues of three, circles of two and the circle of three.
  Every order for every thread is too much for a liveness check; `database` has them all for
  two threads.  The step `Spin` of that run lets a thread that waits take steps: should it
  never be woken, the run would not be a deadlock but a spin for ever, which is what
  `SpinEnds` and `EndsUnlessRefused` exclude.
* Four bindings and three predicates are the least that unite two trees that are both joins;
  three predicates on three or two bindings give a cycle in the join graph, several
  predicates between two trees, and a predicate on one binding.  One relation is used under
  two bindings.  The relations have different lengths, so that inputs are swapped at some joins and
  not at others; filters let some rows pass or none.
* Three threads are the least for the CLH lock's nodes to change hands among threads that
  wait, and two calls for a node to be used again.
* Two ranges show that a round leaves nothing behind for the next, one of them with fewer numbers
  than workers; one spurious wake-up is enough to disturb a round, and the next one heals.
* In `thread_pool`, `MaxWork` bounds the calls of the work function; a worker that has reached it waits
  for the flag (project2) or returns true (project3).

Symmetry (`MCLockTable`, `MCDatabase`) permutes transactions and records, which
no definition tells apart.  It is used for safety and for refinement without
fairness, never where fairness matters.

### Deadlock

`labs` is checked without TLC's deadlock check, because two of its programs may really stop:
`prac_threadgroup.cpp` never deletes its work object, so `join_all` waits for ever for
threads that have nothing left to do; and a worker of the prime pools that a spurious
wake-up sends through its loop once more may miss the last broadcast, and is joined
for ever.  `LabsEnd` says that nothing else stops: of the first it asks that all
posts have been handled, of the second that it ends unless a wake-up was spurious.  All
other runs check for deadlock.

A thread that waits on a condition variable can always wake up spuriously, so in
`thread_pool` and `query_pool` a program that hangs is no deadlock, and it is the liveness
properties that say when it ends:

* `RunEnds`: a run of the thread pool always does.  The destructor of a pool that has not run
  does if the last worker waits when it broadcasts.  As that broadcast is made without the
  mutex (`ThreadPool.hpp:107`), it can come when the worker has set its flag and does not wait
  yet, and the destructor then joins it for ever; the comment above it (`ThreadPool.hpp:101-102`)
  takes for granted that every worker waits.  No program of the repository destroys a
  pool that it has not run.
* `EndsIfIdle`: the query pool ends with its input unless a worker is running a query then.
  That worker misses the only signal it gets, and main joins it for ever
  (`main.cpp:157-163`); it takes an input whose last batch has no F.

### History variables

`disturbed` (`ConcurrentList`) records that another thread has changed the list during a
search, `enqueued` and `dequeued` (`ConcurrentQueue`) the order of the calls, `window` and
`collects` (`Snapshot`) what the registers held during a scan and
how many collects it made; `spurious` (`ThreadPool`, `QueryPool`) and `disturbed` (`PrimePool`) record that a
condition variable woke without cause.  No guard reads them.  (`spurious` of `PrimePool` is
only the bound of such wake-ups.)

### Fairness

* Threads: weak fairness of each thread's steps (the operating system schedules
  every thread).
* `globalMtx`: strong fairness of acquiring it in `Database`.  A pthread mutex does
  not promise it, but a thread that starves on a mutex would hide what the runs
  ask: whether the *code* lets it wait for ever.  `livelock` is found under this
  strong assumption, so it is not an artefact of weak scheduling.
* In `ThreadPool`, `QueryPool`, `PrimePool`, `ConcurrentList` and `ConcurrentQueue` each mutex is asked for a
  bounded number of times in all (calls and rounds are bounded), and weak fairness is enough.
* The harness, boost's `run` and its timers: weak fairness; a timer that is set expires, a service
  calls its handlers.
* Spurious wake-ups are never fair: they may happen or not.

### What was found

1. `refusals`.  `checkDeadlock` goes from node to node whether or not anybody waits
   there, and refuses as soon as it meets a node of the asking transaction.  t1 has a READ
   lock of a, t2 one of b, and t1 gets a READ lock of b as well, behind t2's node: now a
   request of t2 for a is refused, because t1's node of a leads to t1's node of b and that one to
   t2's own.  To READ it would have waited for nobody, and to WRITE for t1, which waits
   for nobody.  The comments ("return false if there is an deadlock") say otherwise.
   The program's own transactions are not affected: `AbortsAreDeadlocks` holds in
   `database_live`.
2. `livelock`.  A refused transaction starts over at once with the same records.
   Two of them can refuse each other for ever; the comment "repeat loop until
   transaction commits" has no basis in fair scheduling alone.  That nothing *else*
   keeps the program from ending is `EndsUnlessRefused`.
3. `spurious`.  The pool's wait has no loop around it; a spurious wake-up starts a
   worker before the others exist.

## 5. What is proved

Each theorem below is about a specification as TLC runs it, with no bound on its constants.
`PROJECT.json` lists the ones a reader should know of, with the property each states.

| Theorems | Assumed of the constants |
| --- | --- |
| `LockTableInvariant`, `LockTableTypes`, `Exclusion`, `WakeupsKept`, `OwnRecord`, `NoDeadlock`, `TableIsFair` | the mark of the free mutex is no transaction, nullptr is no node |
| `DatabaseUsesLockTable`, `DatabaseLocks`, `DatabaseInvariant`, `DatabaseTypes`, `DatabaseRaces`, `DatabaseRefusals`, `DatabaseSerializable`, `DatabaseLog` | and a limit and a modulus above zero; for `DatabaseLog` that there is a thread |
| `SnapshotInvariant`, `SnapshotTypes`, `SnapshotWaitFree`, `SnapshotAtomic` | a thread or more |
| `PoolInvariant`, `PoolOutputInOrder`, `PoolSignalsReach`, `HarnessOutputInOrder`, `HarnessSignalsReach`, `HarnessNoFailure` | a worker or more |
| `ThreadPoolInvariant`, `ThreadPoolTypes`, `ThreadPoolArgAlive`, `ThreadPoolStartTogether`, `ThreadPoolChecksum` | a worker, a call of the work function or more |
| `ListInvariant`, `ListStaysSorted`, `ListFreedOnlyCompared`, `ListRetriesJustified`, `ListLinearizable` | a thread, a key or more |
| `LocksInvariant`, `LocksCounterExact`, `LocksNodesOwned`, `LabLocks`, `LabCounterExact`, `LabNodesOwned` | `NumThread \in Nat` |
| `QueueInvariant`, `QueueFirstInFirstOut`, `QueueTailNearEnd`, `LabQueues`, `LabFirstInFirstOut`, `LabTailNearEnd` | a producer, a key, a slot or more |
| `LabHandlers`, `LabHandlersExact` | two threads in the pool or more, as `timer_2thread.cpp` and `prac_prime.cpp` have; any number of posts, any limit |
| `LabCountExact` | `PoolsAsUsed`: a worker or more, and no range ends before it could be empty |
| `PlanInvariant`, `JoinerTreesFollowGraph`, `AskedInvariant`, `JoinerColumnsResolve`, `RunInvariant`, `JoinerAnswerExact` | a modulus above zero; columns are as long as their relation, and queries name columns that there are |

The assumptions of the first six rows, of the queues and of the joiner are `ASSUME`s of the modules, which TLC
evaluates; the others are hypotheses of the theorems.  Sets such as `Txn` and `Record` may be
infinite.  The bounds that make the models finite (`MaxUpdates`, `MaxLines`, `MaxWork`,
`MaxRounds`, `MaxSpurious`) are constants of which nothing but their type is used, so the
theorems hold for every value of them. (`MaxWork` of `ThreadPool` must be above zero.)

What follows says for each component why its properties are not inductive as they stand, and
what the invariant adds.

**Lock table.** Exclusion alone is not inductive: whether a new writer may be granted depends on
the tail being null exactly when the list is empty, whether a wake-up is right depends on who is
in front.  `LTInv` says

* `ListsLinked`, `ListsEnd`, `DequesChained`: the pointers form lists and deques of live nodes;
* `WaitForAcyclic`: every non-empty set of nodes has a member whose `prev` and `nextInTxn` both
  lead out of it;
* `MutexOK`, `GrantsOK`: who is granted, and for which node (`iter`) a wake-up that is due has
  not happened yet; a granted writer is a head, a granted reader has only granted readers in
  front;
* `OnlyLastWaits`, `SpinOK`: a transaction waits for at most its last node.

The interesting step is `AddNodeAcyclic`: a new node gets an edge to the tail and the
transaction's last node an edge to it, so a cycle would need a path from the tail to a node of
the transaction, which is what the search has excluded.  Its set form (the search fails iff a
closed set of foreign nodes contains the tail) makes the argument one about sets, without
induction.  Exclusion then needs two granted nodes of one record, the writer among them a head:
the other would have a chain of granted readers in front of it, and `WaitForAcyclic` applied to
the nodes of the record that are not heads gives the contradiction.  `NoDeadlock` applies the
same idea to the set of all nodes in front of the waiting transactions' nodes.

`TableIsFair` maps the nodes to the requests of `LockQueues`.  A request is in front of another
if it is in every set that contains the other and that no `prev` leaves - a path, without
induction.  A new node has all others of its record in front, an unlinked node is in front of
nobody, and each other step leaves the order as it is or grants a node that nothing conflicting
is in front of.

**Database.** `DBSpec` implies `LTSpec`, step by step, so the table's theorems hold of the
program.  `DBInv` adds `ThreadOK`: for each place in the transaction loop, how many records its
thread has asked for and logged (`ControlOK`), which locks it has and how (`DequeOK`), and that
its log says what it has done and the records hold what its log says (`EntriesOK`).  From that:

* `DatabaseRaces`: whoever writes holds the record as a writer, except for the undo of the
  record that was only read, which stores the value that is there.
* `DatabaseRefusals`: a refused search has met a node of its own transaction; the transaction
  would wait, by the lists in between, for one that waits for it.
* `DatabaseSerializable`: the committed value of a record is the value in front of the log entry
  of the one transaction that has changed it and not drawn its commit id, or the value of the
  record if there is none (`CommittedOK`); at most one has an entry for it, because the table's
  locks are held to the end.  Drawing the commit id maps to the whole transaction of `SerialDB`,
  every other step to a stutter; `HistoryOK` says that the abstract history has the lines of the
  log.
* `DatabaseLog`: each commit id drawn has one line, written or about to be written, and those of
  a file are in order (`LinesOK`).

**Snapshot.** `ScansAtomic` asks that the vector a scan returns was in memory during the scan.
`ScanOK` says so of the scans still to come to an end, in terms of `b`, what memory held when
the scan was called: a thread whose label is two beyond `b` made its last scan within this one,
so the vector it stored with its value was in memory within this one, too; and a thread that has
moved once is at `b + 1` or beyond, so one that moves again is such a thread.  If no two
collects differ, memory held what they found between them (`Between`).  `SnapshotWaitFree`
counts `moved`: each collect but the first adds a thread to it or ends the scan.

**Query pool and harness.** `PhaseOK` says for each place of main which queries of the batch are
unprinted and which worker has which of them (`BatchOK`), and that a worker whose result main
has seen holds its mutex until it waits, so the signal that main sends with the mutex finds it
waiting.  Nothing is claimed after a spurious wake-up.  The harness decides when the pool can
read, and its composition takes only steps of the pool (`HarnessStepIsPoolStep`); `PipesOK` says
that it reads no more results than main has printed, so that it does not find a wrong one.

**Thread pools.** `ArgsOK` says which arguments exist, `EarlyOK` that before the broadcast no
worker gets past its wait but by a spurious wake-up - hence `ThreadPoolStartTogether`, which is
`StartTogether` under the hypothesis that the run `spurious` shows it needs - and `SumOK` that
the checksum is the sum of the counts of the workers that have been joined.  That a sum of all
counts exists for any number of workers, and how it changes with one of them, are lemmas (least
counterexample instead of induction).

**Lists.** `List`, the nodes in the list, is in order and closed (`Sorted`), and keys grow along
the pointers of all nodes that have ever been in it (`UsedOK`).  `HoldOK` says which mutexes a
thread holds, `PlaceOK` that the nodes it has locked and found are still in the list and
adjacent, `FreedOK` that what is freed or going to be is not in the list.  The optimistic list
locks nothing during a search, and its validation walks from the head again: `ReachOK` says that
it does not meet a node that was unlinked before it was locked, because a set of nodes that no
pointer leaves has the walk in it and the node not; `CalmOK` that a search which nobody has
disturbed has found its place - which makes a failed validation the fault of another thread
(`ListRetriesJustified`).  For `ListLinearizable` the set of `KeySet` is the keys of `List`; the
call takes effect when it links or unlinks a node, or, if it changes nothing, when it looks at
the node.

**Spin locks.** TAS and TTAS: whoever has the lock has set the word.  CLH (`LineOK`): there is
one node that no thread owns, and it is down; a thread in line spins on it or on the node of
another in line, no two on the same one, and whoever has the lock is the one in front of which
the free node lies.  The node a thread adopts when it unlocks is the free one, and its own
becomes free.  `SumOK` says that the counter is the sum of the calls that have counted.

**Queues.** The ticket queue: no two threads have the same ticket (`PutOK`, `GetOK`), and an odd
flag says that the slot has the key of the round that the flag is of (`SlotsOK`); that ticket
and slot and round determine each other is arithmetic (`Remainders`).  The linked queue: the
appended nodes are all different, each points to the next (`ListOK`), the head is at the last
node dequeued, the tail at the last or the last but one, whose producer is about to move it
(`TailOK`), and what a thread has copied has a place among them (`CopiesOK`).  `LabQueues` and
the other theorems about `LabSpec` carry all this to the run with all programs of the labs:
while one of them runs, the variables of the others keep their first values.

**Services.** Either two timers share a count (`TimersOK`): at most one handler is between its
look at the limit and its increment, as the strand or the single thread has it, and below the
limit another handler is to come.  Or posts are handled (`PlacesOK`): each waits, is counted, is
ready to be printed, is printed or has been, and only one of these; and a service's threads
return only when nothing is left for them (`DrainOK`).

**Prime pools.** `RoundOK` and `CreateOK` say how far a round is: the workers that have counted
have the right number for their part, and with `prime_cond_step2.cpp`, `done` is the number of
those that have reported it, so that main is woken with all numbers there.  The rest is
arithmetic: the parts follow each other without gap (`Parts`), their numbers add up to that of
the range (`AllParts`, whose induction over workers is the choice of a least counterexample),
and trial division up to the square root decides what is prime (`TrialDivision`).  All of this
is said of rounds that no spurious wake-up has disturbed, and `Reset` with all workers at rest
starts such a round whatever happened before.

**Planner and operators.** These are three invariants, one on top of the other; each says that
functions exist which the code never computes.

* `PlanInv`: there are `R`, the root of each binding, and a depth below which no way to it is
  (`ForestOK`), so that the recursion of `getRootOfJoinTree` ends at `R` and path
  compression leaves `R` alone; `B`, the bindings, and `T`, the predicates below each operator
  (`WiredOK`: no operator is the input of two, and the inputs of a join have no binding in
  common); and the roots have the trees of exactly their bindings, with all predicates taken
  between them (`TreesOK`).  That trees have no *more* bindings than the predicates connect is
  said with sets that no predicate leaves (`Tight`), without paths, and is what makes
  `TreesFollowGraph` an equivalence.  The interesting steps are `TreesUnited` and `TreeFiltered`.
* `AskedInv`: operators that the requiring has passed have asked their inputs for all their own
  columns and those of their predicate (`Passed`), each of the input that supplies it.  Inputs
  have smaller numbers, so what has been passed on is not asked again.
* `RunInv`: the rows of a result are the combinations of rows of its bindings that pass all
  filters and agree with all predicates below it, each exactly once (`Fits`, `Enumerates`), and
  its columns are their values (`HasColumns`).  For a join a combination for both sides is
  one for each side and back (`Merge`, `Part`), which needs that the sides have no binding in
  common; and the swap of the inputs swaps all that belongs to them (`Side`).

At the end the last tree is over all bindings, as `WellFormed` says that the predicates connect
them, and has all predicates, so its rows are those of the query's meaning.  The sum that
`Checksum` computes row by row, each addition modulo `Modulus`, is that of a set of rows:
`IsWeight` is a function on sets of row numbers that can be taken apart at any member, so it
agrees with the fold in any order.  The folds and recursive functions are reasoned about
through chains (`IsChain`): the values that the recursion takes exist, by `UpTo`, and
determine it.

Relations and queries are arbitrary, but `WellFormed` is a hypothesis that `Init` makes and
not one that the parser checks; section 7 says what it excludes.

## 6. What is only model-checked

* Liveness: `SpinEnds`, `EndsUnlessRefused`, `RunEnds`, `EndsIfIdle`, `HarnessSucceeds`,
  `Terminates` and `LabsEnd`.  Properties under fairness are out of the prover's reach and will
  stay so.
* The properties of the runs that expect a violation are false.

## 7. What is not modelled

* Splitting strings, formatting, reading relations from files, `Query2SQL.cpp`, the unit tests;
  the MariaDB patch; the skeleton `list_template.cpp`; `timer_sync.cpp` and
  `timer_async.cpp`, which do one thing once.
* Code that is not compiled: `propagateFilters` (the call is commented out), `PARALLEL_OPERATOR`,
  the first method of `enqueue` in `queue_unbounded.cpp`.
* Queries that the planner is not made for, which `WellFormed` excludes: without any
  predicate between two columns its root is uninitialised (`Joiner.cpp:146`), a query whose
  predicates leave bindings unconnected is answered from the last tree alone, and a
  predicate between two columns of a binding that no earlier predicate mentions gives a
  join whose right input is null (`Joiner.cpp:170-176`).  The workloads have none of these.  A
  comparison `<` or `>` between two columns is treated as `=` by the parser
  (`Parser.cpp:74-77`), and `=` is all the model has.
* Workloads with empty lines: they end a batch for the harness (`harness.cpp:99`) and are
  queries for the pool (`main.cpp:119`).  And a pool that crashes: the harness, which
  takes the end of its pipe for no result, would read for ever.
* What `list_contains` of `coarse_grained.cpp` makes of a node that has been freed.  The step
  is there (`Compare`), with any answer.  `FreedOnlyCompared` says that it is the only use
  of a freed node, and `Linearizable` leaves its answer out: the code is wrong, and no caller
  looks at the answer.
* The end of the prime pools after a spurious wake-up, see *Deadlock*; the number printed in the
  round that it disturbs may be wrong, too.
* Memory order weaker than sequential consistency: the code relies on x86 and
  on full barriers where it has them.

## 8. Plan

The modules of the plan are all there: lock table, database, pools, snapshot, query pool, lists,
queues, locks, prime pools, services, planner and operators, harness; and so are the proofs of
all their invariants, action properties and refinements.

Not planned: the text of queries and `Query2SQL.cpp`, where nothing interacts; weaker memory
models, for which the accesses listed under *Data races* would each be a module's work.
