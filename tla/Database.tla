------------------------------ MODULE Database ------------------------------
(***************************************************************************)
(* The transactions of project3: the work function `transaction` (main.cpp)*)
(* that every worker thread repeats, the operations of Database it calls   *)
(* (Database.cpp) and the Logger behind them (Logger.cpp), over the lock   *)
(* table of module LockTable, whose actions are conjuncts of the ones here.*)
(*                                                                         *)
(* Accesses to the records are steps of their own and take no mutex: only  *)
(* the record locks keep the threads apart.  A transaction's log and its   *)
(* local variables are its thread's own, so work on them belongs to the    *)
(* step it follows.  The data are abstracted in one respect: a record      *)
(* holds a number modulo Modulus instead of 2^64.                          *)
(***************************************************************************)
EXTENDS LockTable, Integers, FiniteSetsExt

CONSTANTS
    MaxExecution,   \* third argument of the program
    InitialValue,   \* the value every record starts with (100 in the program)
    Modulus         \* number of values of a record (2^64 in the program)

ASSUME MaxExecutionAssumption == MaxExecution \in Nat \ {0}
ASSUME ModulusAssumption == Modulus \in Nat \ {0} /\ InitialValue \in 0..Modulus - 1

VARIABLES
    records,        \* Database::records
    log,            \* Logger::logPerTxn, the vectors recordIds, beforeValues
                    \*   and afterValues of each transaction as one sequence
    files,          \* the lines each thread has written to its log file
    executionOrder, \* Logger::executionOrder, the last commit id given out
    pc,             \* where each thread is in transaction()
    args,           \* its i, j and k
    op,             \* which of the three operations it has reached
    record,         \* its local variable `record`, the value read from i
    before,         \* add's local variable beforeValue
    undone,         \* abort's loop counter
    commitId        \* commit's local variable; 0 before commit

dataVars == <<records, log, files, executionOrder>>
localVars == <<args, op, record, before, undone, commitId>>
dbVars == <<ltVars, dataVars, pc, localVars>>

Value == 0..Modulus - 1
Wrap(v) == v % Modulus
Arguments == {a \in Record \X Record \X Record : a[1] # a[2] /\ a[1] # a[3] /\ a[2] # a[3]}
LogEntry == [record : Record, before : Value, after : Value]
PCState == {"begin", "lock", "wait", "access", "store", "commit", "flush",
            "undo", "unlock", "done"}

\* The record the thread's current operation is on.
target(t) == args[t][op[t]]

\* Second argument of the current call of add.
operand(t) == IF op[t] = 2 THEN record[t] + 1 ELSE - record[t]

DBInit ==
    /\ LTInit
    /\ records = [r \in Record |-> InitialValue]
    /\ log = [t \in Txn |-> <<>>]
    /\ files = [t \in Txn |-> <<>>]
    /\ executionOrder = 0
    /\ pc = [t \in Txn |-> "begin"]
    /\ args = [t \in Txn |-> <<>>]
    /\ op = [t \in Txn |-> 1]
    /\ record = [t \in Txn |-> 0]
    /\ before = [t \in Txn |-> 0]
    /\ undone = [t \in Txn |-> 0]
    /\ commitId = [t \in Txn |-> 0]

goto(t, label) == pc' = [pc EXCEPT ![t] = label]

\* addLog, and on to what follows operation op[t] in transaction().
Logged(t, r, beforeValue, afterValue) ==
    /\ log' = [log EXCEPT ![t] = Append(@,
                  [record |-> r, before |-> beforeValue, after |-> afterValue])]
    /\ op' = [op EXCEPT ![t] = IF @ < 3 THEN @ + 1 ELSE @]
    /\ goto(t, IF op[t] < 3 THEN "lock" ELSE "commit")

-----------------------------------------------------------------------------
\* A new transaction draws three different records.
Choose(t) ==
    /\ pc[t] = "begin"
    /\ \E a \in Arguments : args' = [args EXCEPT ![t] = a]
    /\ goto(t, "lock")
    /\ UNCHANGED <<ltVars, dataVars, op, record, before, undone, commitId>>

\* The lock call of Database::read (op 1) or Database::add (op 2 and 3).
CallLock(t) ==
    /\ pc[t] = "lock"
    /\ IF op[t] = 1 THEN addReaderLock(t, target(t)) ELSE addWriterLock(t, target(t))
    /\ goto(t, "wait")
    /\ UNCHANGED <<dataVars, localVars>>

\* It fails: the operation returns CORRUPT, transaction() calls abort.
LockRefused(t) ==
    /\ pc[t] = "lock"
    /\ refuseLock(t, target(t))
    /\ goto(t, "undo")
    /\ UNCHANGED <<dataVars, localVars>>

LockAcquired(t) ==
    /\ pc[t] = "wait"
    /\ returnLocked(t)
    /\ goto(t, "access")
    /\ UNCHANGED <<dataVars, localVars>>

\* Faulty variant: the log gets the local variable before it is assigned.
ReadLogsStale(t) ==
    /\ pc[t] = "access"
    /\ op[t] = 1
    /\ record' = [record EXCEPT ![t] = records[target(t)]]
    /\ Logged(t, target(t), record[t], record[t])
    /\ UNCHANGED <<ltVars, records, files, executionOrder, args, before, undone, commitId>>

\* Database::read: fetch the value and log it.
Read(t) ==
    /\ pc[t] = "access"
    /\ op[t] = 1
    /\ record' = [record EXCEPT ![t] = records[target(t)]]
    /\ Logged(t, target(t), records[target(t)], records[target(t)])
    /\ UNCHANGED <<ltVars, records, files, executionOrder, args, before, undone, commitId>>

\* Database::add: fetch the value ...
AddLoad(t) ==
    /\ pc[t] = "access"
    /\ op[t] # 1
    /\ before' = [before EXCEPT ![t] = records[target(t)]]
    /\ goto(t, "store")
    /\ UNCHANGED <<ltVars, dataVars, args, op, record, undone, commitId>>

\* ... then store the sum and log both.
AddStore(t) ==
    LET sum == Wrap(before[t] + operand(t))
    IN  /\ pc[t] = "store"
        /\ records' = [records EXCEPT ![target(t)] = sum]
        /\ before' = [before EXCEPT ![t] = 0]
        /\ Logged(t, target(t), before[t], sum)
        /\ UNCHANGED <<ltVars, files, executionOrder, args, record, undone, commitId>>

\* Faulty variants: the last commit id is refused, or one too many is not.
GetCommitIdTooFew(t) ==
    LET id == executionOrder + 1
    IN  /\ pc[t] = "commit"
        /\ executionOrder' = id
        /\ commitId' = [commitId EXCEPT ![t] = id]
        /\ goto(t, IF id >= MaxExecution THEN "undo" ELSE "flush")
        /\ UNCHANGED <<ltVars, records, log, files, args, op, record, before, undone>>

GetCommitIdTooMany(t) ==
    /\ pc[t] = "commit"
    /\ executionOrder' = executionOrder + 1
    /\ commitId' = [commitId EXCEPT ![t] = executionOrder + 1]
    /\ goto(t, IF executionOrder > MaxExecution THEN "undo" ELSE "flush")
    /\ UNCHANGED <<ltVars, records, log, files, args, op, record, before, undone>>

\* Database::commit: take a commit id; past the limit the transaction aborts.
GetCommitId(t) ==
    LET id == executionOrder + 1
    IN  /\ pc[t] = "commit"
        /\ executionOrder' = id
        /\ commitId' = [commitId EXCEPT ![t] = id]
        /\ goto(t, IF id > MaxExecution THEN "undo" ELSE "flush")
        /\ UNCHANGED <<ltVars, records, log, files, args, op, record, before, undone>>

\* flushLog: write the commit id, the record ids and the after values.
FlushLog(t) ==
    LET line == [id |-> commitId[t],
                 entries |-> [e \in DOMAIN log[t] |-> <<log[t][e].record, log[t][e].after>>]]
    IN  /\ pc[t] = "flush"
        /\ files' = [files EXCEPT ![t] = Append(@, line)]
        /\ log' = [log EXCEPT ![t] = <<>>]
        /\ goto(t, "unlock")
        /\ UNCHANGED <<ltVars, records, executionOrder, localVars>>

\* One pass of the loop of Database::abort.
Undo(t) ==
    LET entry == log[t][undone[t] + 1]
    IN  /\ pc[t] = "undo"
        /\ undone[t] < Len(log[t])
        /\ records' = [records EXCEPT ![entry.record] = entry.before]
        /\ undone' = [undone EXCEPT ![t] = @ + 1]
        /\ UNCHANGED <<ltVars, log, files, executionOrder, pc, args, op, record, before, commitId>>

\* Faulty variant: the loop may end one entry early.
StashLogEarly(t) ==
    /\ pc[t] = "undo"
    /\ undone[t] + 1 >= Len(log[t])
    /\ log' = [log EXCEPT ![t] = <<>>]
    /\ undone' = [undone EXCEPT ![t] = 0]
    /\ goto(t, "unlock")
    /\ UNCHANGED <<ltVars, records, files, executionOrder, args, op, record, before, commitId>>

\* The loop is over: stashLog.
StashLog(t) ==
    /\ pc[t] = "undo"
    /\ undone[t] = Len(log[t])
    /\ log' = [log EXCEPT ![t] = <<>>]
    /\ undone' = [undone EXCEPT ![t] = 0]
    /\ goto(t, "unlock")
    /\ UNCHANGED <<ltVars, records, files, executionOrder, args, op, record, before, commitId>>

\* The call of unlock that ends commit and abort.
CallUnlock(t) ==
    /\ pc[t] = "unlock"
    /\ beginUnlock(t)
    /\ UNCHANGED <<dataVars, pc, localVars>>

\* The steps of unlock but the last.
Unlocking(t) ==
    /\ pc[t] = "unlock"
    /\ \/ \E n \in nodes : releaseOnly(t, n) \/ releaseHead(t, n) \/ releaseInner(t, n)
       \/ wakeNext(t)
    /\ UNCHANGED <<dataVars, pc, localVars>>

\* unlock returns.  After a refused lock transaction() starts over with the
\* same records; after a commit the thread calls it anew; after a commit id
\* past the limit the thread ends.
Unlocked(t) ==
    /\ pc[t] = "unlock"
    /\ endUnlock(t)
    /\ goto(t, CASE commitId[t] = 0 -> "lock"
                 [] commitId[t] \in 1..MaxExecution -> "begin"
                 [] OTHER -> "done")
    /\ args' = IF commitId[t] = 0 THEN args ELSE [args EXCEPT ![t] = <<>>]
    /\ op' = [op EXCEPT ![t] = 1]
    /\ record' = [record EXCEPT ![t] = 0]
    /\ commitId' = [commitId EXCEPT ![t] = 0]
    /\ UNCHANGED <<dataVars, before, undone>>

-----------------------------------------------------------------------------
\* The steps that acquire the lock table's mutex, and the others.
AcquiringMutex(t) == CallLock(t) \/ LockRefused(t) \/ CallUnlock(t)

Running(t) ==
    \/ Choose(t)
    \/ LockAcquired(t)
    \/ Read(t) \/ AddLoad(t) \/ AddStore(t)
    \/ GetCommitId(t) \/ FlushLog(t)
    \/ Undo(t) \/ StashLog(t)
    \/ Unlocking(t) \/ Unlocked(t)

Thread(t) == AcquiringMutex(t) \/ Running(t)

\* The program ends when every thread has returned from its last transaction.
Finished == \A t \in Txn : pc[t] = "done"
Joined == Finished /\ UNCHANGED dbVars

DBNext == (\E t \in Txn : Thread(t)) \/ Joined

DBSpec == DBInit /\ [][DBNext]_dbVars

\* The scheduler runs every thread, and a thread that asks for the mutex
\* over and over while others take it gets it in the end.
Fairness == \A t \in Txn : WF_dbVars(Running(t)) /\ SF_dbVars(AcquiringMutex(t))

FairDBSpec == DBSpec /\ Fairness

-----------------------------------------------------------------------------
DBTypeOK ==
    /\ LTTypeOK
    /\ records \in [Record -> Value]
    /\ log \in [Txn -> Seq(LogEntry)]
    /\ executionOrder \in Nat
    /\ pc \in [Txn -> PCState]
    /\ args \in [Txn -> Arguments \cup {<<>>}]
    /\ op \in [Txn -> 1..3]
    /\ record \in [Txn -> Value]
    /\ before \in [Txn -> Value]
    /\ undone \in [Txn -> 0..3]
    /\ commitId \in [Txn -> Nat]
    /\ \A t \in Txn : \A l \in DOMAIN files[t] : files[t][l].id \in 1..MaxExecution

(***************************************************************************)
(* The serial database that the threads implement.  A transaction takes    *)
(* effect when it draws its commit id: until then, and until an abort has  *)
(* put them back, the records it changed count with their before values.   *)
(***************************************************************************)
Uncommitted == {t \in Txn : commitId[t] = 0 \/ commitId[t] > MaxExecution}

\* The before values an uncommitted transaction has logged for a record.
BeforeValues(r) ==
    UNION {{log[t][e].before : e \in {d \in DOMAIN log[t] : log[t][d].record = r}} :
           t \in Uncommitted}

committedRecords ==
    [r \in Record |-> IF BeforeValues(r) = {} THEN records[r]
                      ELSE CHOOSE v \in BeforeValues(r) : TRUE]

\* Lines written, and lines about to be written by a committed transaction.
Lines ==
    (UNION {{files[t][l] : l \in DOMAIN files[t]} : t \in Txn})
        \cup {[id |-> commitId[t],
               entries |-> [e \in DOMAIN log[t] |-> <<log[t][e].record, log[t][e].after>>]] :
              t \in {u \in Txn : pc[u] = "flush"}}

\* One line for each commit id given out, not none and not two.
committedHistory ==
    [c \in 1..Min({executionOrder, MaxExecution}) |->
        LET found == {l \in Lines : l.id = c}
        IN  IF Cardinality(found) = 1 THEN (CHOOSE l \in found : TRUE).entries ELSE <<>>]

Serial == INSTANCE SerialDB WITH db <- committedRecords, history <- committedHistory

\* Refinement: whatever the interleaving, the committed values and the logs
\* are those of whole transactions run one by one in commit id order.
Serializable == Serial!SSpec

\* A transaction is made to abort and start over only when its request would
\* really have closed a circle of waiting transactions.  (It reads before it
\* writes, and always three different records: see RefusalMeansDeadlock.)
AbortsAreDeadlocks ==
    \A t \in Txn :
        /\ pc[t] = "lock"
        /\ globalMtx = NoTxn
        /\ checkDeadlock(t, target(t))
        => ClosesCycle(t, target(t), IF op[t] = 1 THEN "READ" ELSE "WRITE")

(***************************************************************************)
(* Accesses to the records take no mutex.  abort stores also into the      *)
(* record that the transaction only read, under its READ lock, while other *)
(* threads may read it: a data race.                                       *)
(***************************************************************************)
Reading(t) == IF pc[t] = "access" THEN {target(t)} ELSE {}
Writing(t) ==
    CASE pc[t] = "store" -> {target(t)}
      [] pc[t] = "undo" /\ undone[t] < Len(log[t]) -> {log[t][undone[t] + 1].record}
      [] OTHER -> {}

\* There is no other race than that one, and it is harmless: the value it
\* stores is the value the record has.
RacesAreSilent ==
    \A t, u \in Txn : t # u =>
        \A r \in Writing(t) \cap (Reading(u) \cup Writing(u)) :
            pc[t] = "undo" /\ log[t][undone[t] + 1].before = records[r]

\* When the threads have ended, the log files hold one line for each commit id
\* from 1 to MaxExecution, and each thread's file lists them in order.
LogComplete ==
    /\ Finished => UNION {{files[t][l].id : l \in DOMAIN files[t]} : t \in Txn} = 1..MaxExecution
    /\ \A t \in Txn : \A l, m \in DOMAIN files[t] : l < m => files[t][l].id < files[t][m].id

\* A thread that spins on its lock gets it.
SpinEnds == \A t \in Txn : pc[t] = "wait" ~> pc[t] = "access"

\* A transaction that started commits or is the one that ends its thread.
\* main.cpp says of its loop "repeat loop until transaction commits".  Fair
\* scheduling does not make that true: two transactions can refuse each other
\* for ever, each starting over at once.
TransactionEnds == \A t \in Txn : pc[t] = "lock" ~> pc[t] \in {"begin", "done"}

\* Nothing else can keep the program from ending: if from some point on no
\* lock is refused, all MaxExecution transactions commit and all threads end.
RefusalsStop == \A t \in Txn : <>[][~LockRefused(t)]_dbVars
EndsUnlessRefused == RefusalsStop => <>Finished
=============================================================================
