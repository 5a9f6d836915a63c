--------------------------- MODULE MCDatabaseLive ---------------------------
(***************************************************************************)
(* Three threads at once.  The first draws the records in the order a b c; *)
(* the others draw them in an order that makes them wait in the same       *)
(* queues, or in one that closes a circle of two or of three.  (With every *)
(* order three threads are too many for a liveness check.)                 *)
(***************************************************************************)
EXTENDS Database, TLC

CONSTANTS t1, t2, t3, a, b, c

Plans == (t1 :> {<<a, b, c>>})
      @@ (t2 :> {<<b, a, c>>, <<b, c, a>>})
      @@ (t3 :> {<<a, b, c>>, <<c, a, b>>})

\* A thread that spins takes steps: if it is never woken it spins for ever.
Spin == (\E t \in Txn : pc[t] = "wait") /\ UNCHANGED dbVars

PlannedNext == DBNext /\ \A t \in Txn : args'[t] \in {<<>>} \cup Plans[t]

PlannedSpec == DBInit /\ [][PlannedNext \/ Spin]_dbVars /\ Fairness
=============================================================================
