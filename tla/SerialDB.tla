------------------------------ MODULE SerialDB ------------------------------
(***************************************************************************)
(* What project3's database promises: transactions take effect one after   *)
(* the other, in the order of their commit ids, each one whole, and no     *)
(* more than MaxExecution of them; the log files tell the same story.      *)
(* There is no thread, lock, undo or mutex here.                           *)
(***************************************************************************)
EXTENDS Integers, Sequences

CONSTANTS
    Record,         \* record ids
    MaxExecution,   \* third argument of the program
    InitialValue,   \* the value every record starts with
    Modulus         \* number of values of a record (2^64 in the program)

VARIABLES
    db,             \* the committed value of each record
    history         \* history[c]: what the transaction with commit id c logged

sVars == <<db, history>>

\* The pairwise different records that one transaction works on.
Arguments == {a \in Record \X Record \X Record : a[1] # a[2] /\ a[1] # a[3] /\ a[2] # a[3]}

Wrap(v) == v % Modulus

SInit ==
    /\ db = [r \in Record |-> InitialValue]
    /\ history = <<>>

\* Read record i, add its value plus one to record j, subtract it from k.
Transact(i, j, k) ==
    LET valueJ == Wrap(db[j] + db[i] + 1)
        valueK == Wrap(db[k] - db[i])
    IN  /\ Len(history) < MaxExecution
        /\ db' = [db EXCEPT ![j] = valueJ, ![k] = valueK]
        /\ history' = Append(history, << <<i, db[i]>>, <<j, valueJ>>, <<k, valueK>> >>)

SNext == \E a \in Arguments : Transact(a[1], a[2], a[3])

SSpec == SInit /\ [][SNext]_sVars
=============================================================================
