----------------------------- MODULE LockQueues -----------------------------
(***************************************************************************)
(* What the lock table promises to its clients, without lists, deques,     *)
(* mutex or spinning: requests for a record stand in line; a request is    *)
(* granted when nothing in front of it conflicts with it, and not before;  *)
(* a granted request may leave.  So conflicting requests are granted in    *)
(* the order they came, and a reader does not overtake a waiting writer.   *)
(***************************************************************************)
EXTENDS FiniteSets, Functions

CONSTANTS Txn, Record

Request == Txn \X Record

VARIABLES
    line,       \* the requests that stand in line or are granted
    mode,       \* READ or WRITE, for each of them
    granted,    \* the ones that are granted
    inFront     \* <<m, n>>: m came before n, for the same record

qVars == <<line, mode, granted, inFront>>

Conflict(m, n) == mode[m] = "WRITE" \/ mode[n] = "WRITE"
Blocked(n) == \E m \in line : <<m, n>> \in inFront /\ Conflict(m, n)

QInit ==
    /\ line = {}
    /\ mode = <<>>
    /\ granted = {}
    /\ inFront = {}

\* A request comes in; it is granted at once exactly when nothing blocks it.
Arrive(n, m) ==
    /\ n \notin line
    /\ line' = line \cup {n}
    /\ mode' = [k \in line' |-> IF k = n THEN m ELSE mode[k]]
    /\ inFront' = inFront \cup {<<k, n>> : k \in {l \in line : l[2] = n[2]}}
    /\ granted' = IF Blocked(n)' THEN granted ELSE granted \cup {n}

Grant(n) ==
    /\ n \in line \ granted
    /\ ~Blocked(n)
    /\ granted' = granted \cup {n}
    /\ UNCHANGED <<line, mode, inFront>>

Leave(n) ==
    /\ n \in granted
    /\ line' = line \ {n}
    /\ granted' = granted \ {n}
    /\ mode' = Restrict(mode, line')
    /\ inFront' = {p \in inFront : n \notin {p[1], p[2]}}

QNext ==
    \E n \in Request :
        \/ \E m \in {"READ", "WRITE"} : Arrive(n, m)
        \/ Grant(n)
        \/ Leave(n)

QSpec == QInit /\ [][QNext]_qVars
=============================================================================
