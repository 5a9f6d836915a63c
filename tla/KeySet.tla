------------------------------- MODULE KeySet -------------------------------
(***************************************************************************)
(* What the concurrent lists of lab12 promise: a set of keys on which each *)
(* call takes effect in one step between its beginning and its end, and    *)
(* answers what it found in that step.  No nodes, no locks, no searching.  *)
(***************************************************************************)
CONSTANTS Thread, Key

VARIABLES
    keys,       \* the keys in the list
    call        \* the call each thread is in, with its answer once it has one

kVars == <<keys, call>>

none == [type |-> "none"]
Answer == {"unknown", "true", "false"}
Call == [type : {"A", "R", "C"}, value : Key, answer : Answer]

KInit ==
    /\ keys = {}
    /\ call = [t \in Thread |-> none]

Begin(t) ==
    /\ call[t] = none
    /\ \E c \in Call : c.answer = "unknown" /\ call' = [call EXCEPT ![t] = c]
    /\ UNCHANGED keys

\* add answers whether the key is new, remove and contains whether it is there.
TakeEffect(t) ==
    LET k == call[t].value
        yes == IF call[t].type = "A" THEN k \notin keys ELSE k \in keys
    IN  /\ call[t] # none
        /\ call[t].answer = "unknown"
        /\ keys' = CASE call[t].type = "A" -> keys \cup {k}
                     [] call[t].type = "R" -> keys \ {k}
                     [] call[t].type = "C" -> keys
        /\ call' = [call EXCEPT ![t].answer = IF yes THEN "true" ELSE "false"]

End(t) ==
    /\ call[t] # none
    /\ call[t].answer # "unknown"
    /\ call' = [call EXCEPT ![t] = none]
    /\ UNCHANGED keys

KNext == \E t \in Thread : Begin(t) \/ TakeEffect(t) \/ End(t)

KSpec == KInit /\ [][KNext]_kVars
=============================================================================
