------------------------------ MODULE MCJoiner ------------------------------
(***************************************************************************)
(* Small queries over three small relations: four bindings joined by three *)
(* predicates, in any order and with either side left (only then two trees *)
(* are united that are both joins); three bindings with a predicate too    *)
(* many; two bindings with two predicates too many, which may compare      *)
(* columns of one binding.                                                 *)
(***************************************************************************)
EXTENDS Joiner

\* Columns with equal and with missing values, of different lengths.
SmallRelations ==
    (0 :> [size |-> 3, columns |-> (0 :> <<1, 0, 1>>) @@ (1 :> <<2, 1, 1>>)]) @@
    (1 :> [size |-> 2, columns |-> (0 :> <<1, 0>>) @@ (1 :> <<1, 3>>)]) @@
    (2 :> [size |-> 4, columns |-> (0 :> <<0, 1, 2, 1>>) @@ (1 :> <<3, 1, 0, 1>>)])

select(b, c) == [binding |-> b, colId |-> c]

\* Predicates between two bindings of n, with the first column of the right one ...
Predicates(n) ==
    {[left |-> select(b, c), right |-> select(d, 0)] :
        b \in 0..n - 1, c \in {0, 1}, d \in 0..n - 1}
\* ... and never a column with itself.
Proper(predicates) == {p \in predicates : p.left # p.right}
Between(predicates) == {p \in predicates : p.left.binding # p.right.binding}

\* No filter, one that lets some rows pass, and one that lets none.
Filters ==
    {<<>>,
     <<[left |-> select(0, 1), comparison |-> "<", constant |-> 2]>>,
     <<[left |-> select(1, 0), comparison |-> "=", constant |-> 0],
       [left |-> select(1, 1), comparison |-> ">", constant |-> 3]>>}

Ask(relationIds, predicates, count, filters) ==
    {[relationIds |-> relationIds,
      conditions |-> f \o p,
      selections |-> <<select(Len(relationIds) - 1, 1), select(0, 1), select(0, 1), select(1, 0)>>] :
        p \in [1..count -> predicates], f \in filters}

SmallQueries ==
    Ask(<<0, 1, 0, 2>>, Between(Predicates(4)), 3, {<<>>})
        \cup Ask(<<2, 1, 2>>, Between(Predicates(3)), 3, {f \in Filters : Len(f) = 1})
        \cup Ask(<<0, 1>>, Proper(Predicates(2)), 3, Filters)
=============================================================================
