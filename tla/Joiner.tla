------------------------------- MODULE Joiner -------------------------------
(***************************************************************************)
(* A query of project1, from its text to its checksums (Parser.cpp,        *)
(* Joiner.cpp, Operators.cpp).  The predicates are taken one by one: a     *)
(* disjoint set over the bindings holds, at each root, the tree of the     *)
(* operators that join the bindings below.  Then the columns that are      *)
(* needed are required down the tree, and the operators are run up the     *)
(* tree, each of them materialising its columns.                           *)
(*                                                                         *)
(* The operators are numbered as they are made, so inputs come before the  *)
(* operators that they are moved into.                                     *)
(***************************************************************************)
EXTENDS Integers, SequencesExt, TLC

CONSTANTS
    Relations,      \* RelationId -> [size, columns]
    Queries,        \* the queries that may be asked
    Modulus         \* of the sums, 2^64 in the program

ASSUME ModulusAssumption == Modulus \in Nat \ {0}

null == 0           \* a tree that has been moved away

Bindings(q) == 0..Len(q.relationIds) - 1

\* SelectInfo, FilterInfo and PredicateInfo, of the columns that there are.
Column(q) == {s \in [binding : Bindings(q), colId : Nat] :
                s.colId \in DOMAIN Relations[q.relationIds[s.binding + 1]].columns}
Filter(q) == [left : Column(q), comparison : {"=", ">", "<"}, constant : Nat]
Predicate(q) == [left : Column(q), right : Column(q)]

ASSUME RelationsAssumption ==
    \A r \in DOMAIN Relations :
        /\ Relations[r].size \in Nat
        /\ \A c \in DOMAIN Relations[r].columns :
              Relations[r].columns[c] \in [1..Relations[r].size -> Nat]

ASSUME QueriesAssumption ==
    \A q \in Queries :
        /\ q.relationIds \in Seq(DOMAIN Relations)
        /\ q.conditions \in Seq(Filter(q) \cup Predicate(q))
        /\ q.selections \in Seq(Column(q))

VARIABLES
    raw,            \* the line
    query,          \* QueryInfo
    i,              \* the next predicate
    root,           \* of the tree made last
    plan,           \* the disjoint set and the operators made so far
    phase,          \* "parse", "plan", "require", "run", "done"
    at,             \* the operator that requires its columns or runs
    asked,          \* the columns required of each operator
    results,        \* what each operator has materialised
    answer          \* the line of output

vars == <<raw, query, i, root, plan, phase, at, asked, results, answer>>

\* The members of a sequence that are in a set, in their order.
Those(seq, set) ==
    LET upto[n \in 0..Len(seq)] ==
            IF n = 0 THEN <<>>
            ELSE IF seq[n] \in set THEN Append(upto[n - 1], seq[n]) ELSE upto[n - 1]
    IN  upto[Len(seq)]

isConstant(condition) == "constant" \in DOMAIN condition
Constants(q) == Those(q.conditions, {c \in ToSet(q.conditions) : isConstant(c)})
Joins(q) == Those(q.conditions, {c \in ToSet(q.conditions) : ~isConstant(c)})

\* The bindings that the predicates mention.
Mentioned(predicates) == UNION {{p.left.binding, p.right.binding} : p \in ToSet(predicates)}

\* The bindings that the predicates connect to b.
Linked(predicates, b) ==
    LET nodes == {b} \cup Mentioned(predicates)
        closed(set) == \A p \in ToSet(predicates) : p.left.binding \in set <=> p.right.binding \in set
    IN  {c \in nodes : \A set \in SUBSET nodes : b \in set /\ closed(set) => c \in set}

\* What the workload guarantees and the program needs: there are predicates,
\* they connect all bindings, and none has the same binding on both sides
\* before another one mentions it.
WellFormed(q) ==
    /\ Joins(q) # <<>>
    /\ Linked(Joins(q), 0) = Bindings(q)
    /\ \A n \in DOMAIN Joins(q) :
        LET b == Joins(q)[n].left.binding
        IN  b = Joins(q)[n].right.binding =>
                \E m \in 1..n - 1 : b \in {Joins(q)[m].left.binding, Joins(q)[m].right.binding}

Init ==
    /\ raw \in Queries
    /\ WellFormed(raw)
    /\ query = [predicates |-> <<>>, filters |-> <<>>]
    /\ i = 1
    /\ root = null
    /\ plan = [disjoint_set |-> <<>>, operators |-> <<>>]
    /\ phase = "parse"
    /\ at = 0
    /\ asked = <<>>
    /\ results = <<>>
    /\ answer = <<>>

-----------------------------------------------------------------------------
\* parseQuery: a condition is a filter if its right side is a constant.
Parse ==
    /\ phase = "parse"
    /\ query' = [predicates |-> Joins(raw), filters |-> Constants(raw)]
    /\ phase' = "plan"
    /\ UNCHANGED <<raw, i, root, plan, at, asked, results, answer>>

\* resolveRelationIds: a binding stands for a relation; two may for the same.
relation(binding) == Relations[raw.relationIds[binding + 1]]

addScan(p, binding) ==
    LET filters == Those(query.filters, {f \in ToSet(query.filters) : f.left.binding = binding})
        scan == [type |-> "Scan", binding |-> binding, filters |-> filters]
    IN  [disjoint_set |-> [b \in DOMAIN p.disjoint_set \cup {binding} |->
                             IF b = binding THEN [root_id |-> b, tree |-> Len(p.operators) + 1]
                                            ELSE p.disjoint_set[b]],
         operators |-> Append(p.operators, scan)]

\* A binding that has no node yet gets one, with a scan.
scanned(p, binding) == IF binding \in DOMAIN p.disjoint_set THEN p ELSE addScan(p, binding)

\* The way from a binding to its root.
way(set, binding) ==
    LET up[n \in 0..Cardinality(DOMAIN set)] ==
            IF n = 0 THEN binding ELSE set[up[n - 1]].root_id
    IN  up

getRootOfJoinTree(set, binding) == way(set, binding)[Cardinality(DOMAIN set)]

\* Path compression: all on the way point to the root.
compressed(set, binding) ==
    LET top == getRootOfJoinTree(set, binding)
    IN  [b \in DOMAIN set |->
            IF b \in Range(way(set, binding)) THEN [set[b] EXCEPT !.root_id = top] ELSE set[b]]

compressedBoth(set, pInfo) == compressed(compressed(set, pInfo.left.binding), pInfo.right.binding)

\* Faulty variant: the left binding, which may not be a root, changes trees.
unionAtBinding(p, pInfo) ==
    LET set == compressedBoth(p.disjoint_set, pInfo)
        left_root == getRootOfJoinTree(set, pInfo.left.binding)
        right_root == getRootOfJoinTree(set, pInfo.right.binding)
        join == [type |-> "Join", left |-> set[left_root].tree, right |-> set[right_root].tree,
                 pInfo |-> pInfo]
    IN  [disjoint_set |-> [set EXCEPT ![left_root].tree = null,
                                      ![pInfo.left.binding].root_id = right_root,
                                      ![right_root].tree = Len(p.operators) + 1],
         operators |-> Append(p.operators, join)]

\* The right root becomes the root of both, with a new join as its tree.
unionTwoJoinTrees(p, pInfo) ==
    LET set == compressedBoth(p.disjoint_set, pInfo)
        left_root == getRootOfJoinTree(set, pInfo.left.binding)
        right_root == getRootOfJoinTree(set, pInfo.right.binding)
        join == [type |-> "Join", left |-> set[left_root].tree, right |-> set[right_root].tree,
                 pInfo |-> pInfo]
    IN  [disjoint_set |-> [set EXCEPT ![left_root].tree = null,
                                      ![left_root].root_id = right_root,
                                      ![right_root].tree = Len(p.operators) + 1],
         operators |-> Append(p.operators, join)]

AlreadyConnected(pInfo) ==
    LET set == plan.disjoint_set
    IN  /\ {pInfo.left.binding, pInfo.right.binding} \subseteq DOMAIN set
        /\ getRootOfJoinTree(set, pInfo.left.binding) = getRootOfJoinTree(set, pInfo.right.binding)

takePredicate == phase = "plan" /\ i <= Len(query.predicates) /\ i' = i + 1

\* Scans for the bindings that have none yet, and a join of the two trees.
NeedConnect ==
    LET pInfo == query.predicates[i]
        both == scanned(scanned(plan, pInfo.left.binding), pInfo.right.binding)
    IN  /\ takePredicate
        /\ ~AlreadyConnected(pInfo)
        /\ plan' = unionTwoJoinTrees(both, pInfo)
        /\ root' = getRootOfJoinTree(plan'.disjoint_set, pInfo.right.binding)
        /\ UNCHANGED <<raw, query, phase, at, asked, results, answer>>

\* Both are in one tree: a filter on top of it.
SelfConnect ==
    LET pInfo == query.predicates[i]
        set == compressedBoth(plan.disjoint_set, pInfo)
        top == getRootOfJoinTree(set, pInfo.left.binding)
        selfJoin == [type |-> "SelfJoin", input |-> set[top].tree, pInfo |-> pInfo]
    IN  /\ takePredicate
        /\ AlreadyConnected(pInfo)
        /\ plan' = [disjoint_set |-> [set EXCEPT ![top].tree = Len(plan.operators) + 1],
                    operators |-> Append(plan.operators, selfJoin)]
        /\ root' = top
        /\ UNCHANGED <<raw, query, phase, at, asked, results, answer>>

-----------------------------------------------------------------------------
operators == plan.operators
tree == plan.disjoint_set[root].tree

inputs(op) == CASE op.type = "Scan"     -> {}
                [] op.type = "Join"     -> {op.left, op.right}
                [] op.type = "SelfJoin" -> {op.input}

\* The bindings whose columns an operator can supply.
supplies ==
    LET below[o \in DOMAIN operators] ==
            IF operators[o].type = "Scan" THEN {operators[o].binding}
            ELSE UNION {below[input] : input \in inputs(operators[o])}
    IN  below

\* Of these columns, those that an operator can supply, and the others.
supplied(o, infos) == Those(infos, {s \in ToSet(infos) : s.binding \in supplies[o]})
unsupplied(o, infos) == Those(infos, {s \in ToSet(infos) : s.binding \notin supplies[o]})

\* Each column once.
once(infos) ==
    FoldLeft(LAMBDA seen, s : IF Contains(seen, s) THEN seen ELSE Append(seen, s), <<>>, infos)

\* Faulty variant: a column of one binding is taken for that of another.
requireByColumn(o, infos) ==
    LET mine == supplied(o, infos)
        same(seen, s) == \E t \in ToSet(seen) : t.colId = s.colId
    IN  FoldLeft(LAMBDA seen, s : IF same(seen, s) THEN seen ELSE Append(seen, s), <<>>, mine)

\* require, for several columns: false for those that the operator cannot
\* supply; a column is required once (but of a scan without filters).
require(o, infos) ==
    IF operators[o].type = "Scan" /\ operators[o].filters = <<>>
      THEN supplied(o, infos) ELSE once(supplied(o, infos))

\* Checksum::run requires the selections ...
Require ==
    /\ phase = "plan"
    /\ i > Len(query.predicates)
    /\ asked' = [o \in DOMAIN operators |-> IF o = tree THEN require(o, raw.selections) ELSE <<>>]
    /\ results' = [o \in DOMAIN operators |-> <<>>]
    /\ at' = Len(operators)
    /\ phase' = "require"
    /\ UNCHANGED <<raw, query, i, root, plan, answer>>

\* Columns required of a join that its left input has, and the others.
requestedColumnsLeft(o) == supplied(operators[o].left, asked[o])
requestedColumnsRight(o) == unsupplied(operators[o].left, asked[o])

\* ... and each operator those of its inputs, and its predicate's.
RequireInputs ==
    LET op == operators[at]
    IN  /\ phase = "require"
        /\ asked' =
            CASE op.type = "Scan" -> asked
              [] op.type = "Join" ->
                  [asked EXCEPT
                    ![op.left] = require(op.left, requestedColumnsLeft(at) \o <<op.pInfo.left>>),
                    ![op.right] = require(op.right, requestedColumnsRight(at) \o <<op.pInfo.right>>)]
              [] op.type = "SelfJoin" ->
                  [asked EXCEPT
                    ![op.input] = require(op.input, asked[at] \o <<op.pInfo.left, op.pInfo.right>>)]
        /\ IF at > 1 THEN at' = at - 1 /\ phase' = phase
                     ELSE at' = at /\ phase' = "run"
        /\ UNCHANGED <<raw, query, i, root, plan, results, answer>>

-----------------------------------------------------------------------------
\* resolve: the first column if there is no such column (the build has no
\* assertions).
resolve(o, info) ==
    LET select == results[o].select
    IN  IF Contains(select, info) THEN SelectLastInSeq(select, LAMBDA s : s = info) ELSE 1

columnOf(o, info) == results[o].columns[resolve(o, info)]

\* copy2Result: these columns of the input, these rows.
copied(o, infos, rows) ==
    [k \in DOMAIN infos |-> [n \in DOMAIN rows |-> columnOf(o, infos[k])[rows[n]]]]

rowNumbers(size) == [n \in 1..size |-> n]

satisfies(value, filter) ==
    CASE filter.comparison = "=" -> value = filter.constant
      [] filter.comparison = ">" -> value > filter.constant
      [] filter.comparison = "<" -> value < filter.constant

\* Scan::run and FilterScan::run.
runScan(o) ==
    LET r == relation(operators[o].binding)
        applyFilter(n, f) == satisfies(r.columns[f.left.colId][n], f)
        rows == Those(rowNumbers(r.size),
                      {n \in 1..r.size : \A f \in ToSet(operators[o].filters) : applyFilter(n, f)})
    IN  [select |-> asked[o],
         columns |-> [k \in DOMAIN asked[o] |->
                        [n \in DOMAIN rows |-> r.columns[asked[o][k].colId][rows[n]]]],
         size |-> Len(rows)]

\* Faulty variant: the inputs are swapped, but not the columns requested.
sideForgetful(o, left) ==
    LET op == operators[o]
        swap == results[op.left].size > results[op.right].size
    IN  [input |-> IF left # swap THEN op.left ELSE op.right,
         key |-> IF left # swap THEN op.pInfo.left ELSE op.pInfo.right,
         requested |-> IF left THEN requestedColumnsLeft(o) ELSE requestedColumnsRight(o)]

\* The left or the right side of a join: the inputs, with all that belongs to
\* them, are swapped if the left one is larger.
side(o, left) ==
    LET op == operators[o]
        swap == results[op.left].size > results[op.right].size
    IN  IF left # swap
          THEN [input |-> op.left, key |-> op.pInfo.left, requested |-> requestedColumnsLeft(o)]
          ELSE [input |-> op.right, key |-> op.pInfo.right, requested |-> requestedColumnsRight(o)]

\* Join::run: the pairs of rows with equal keys.  (The order in which one
\* bucket of the hash table gives its rows does not matter.)
runJoin(o) ==
    LET build == side(o, TRUE)
        probe == side(o, FALSE)
        size == results[build.input].size
        pairs == [n \in 1..size * results[probe.input].size |->
                    [left |-> 1 + ((n - 1) % size), right |-> 1 + ((n - 1) \div size)]]
        matches == Those(pairs, {m \in [left : 1..size, right : 1..results[probe.input].size] :
            columnOf(build.input, build.key)[m.left] = columnOf(probe.input, probe.key)[m.right]})
    IN  [select |-> build.requested \o probe.requested,
         columns |-> copied(build.input, build.requested, [n \in DOMAIN matches |-> matches[n].left])
                  \o copied(probe.input, probe.requested, [n \in DOMAIN matches |-> matches[n].right]),
         size |-> Len(matches)]

\* SelfJoin::run.
runSelfJoin(o) ==
    LET op == operators[o]
        rows == Those(rowNumbers(results[op.input].size), {n \in 1..results[op.input].size :
            columnOf(op.input, op.pInfo.left)[n] = columnOf(op.input, op.pInfo.right)[n]})
    IN  [select |-> asked[o], columns |-> copied(op.input, asked[o], rows), size |-> Len(rows)]

Run ==
    LET type == operators[at].type
    IN  /\ phase = "run"
        /\ at <= Len(operators)
        /\ results' = [results EXCEPT ![at] = CASE type = "Scan"     -> runScan(at)
                                                [] type = "Join"     -> runJoin(at)
                                                [] type = "SelfJoin" -> runSelfJoin(at)]
        /\ at' = at + 1
        /\ UNCHANGED <<raw, query, i, root, plan, phase, asked, answer>>

\* Checksum::run ends: the sums of the columns selected, if there are rows.
Checksum ==
    /\ phase = "run"
    /\ at > Len(operators)
    /\ answer' = [k \in DOMAIN raw.selections |->
                    IF results[tree].size = 0 THEN "NULL"
                    ELSE FoldLeft(LAMBDA sum, x : (sum + x) % Modulus, 0,
                                  columnOf(tree, raw.selections[k]))]
    /\ phase' = "done"
    /\ UNCHANGED <<raw, query, i, root, plan, at, asked, results>>

-----------------------------------------------------------------------------
Done == phase = "done" /\ UNCHANGED vars

Next == Parse \/ NeedConnect \/ SelfConnect \/ Require \/ RequireInputs \/ Run \/ Checksum \/ Done

Spec == Init /\ [][Next]_vars

-----------------------------------------------------------------------------
\* One tree for the bindings that the predicates so far connect: two bindings
\* have the same root if and only if they are connected; the root has the
\* tree, which reads exactly these bindings; each operator is in one place.
TreesFollowGraph ==
    LET set == plan.disjoint_set
        taken == SubSeq(query.predicates, 1, i - 1)
    IN  phase = "plan" => \A b \in DOMAIN set :
            LET top == getRootOfJoinTree(set, b)
            IN  /\ set[top].root_id = top
                /\ {c \in DOMAIN set : getRootOfJoinTree(set, c) = top} = Linked(taken, b)
                /\ supplies[set[top].tree] = Linked(taken, b)
                /\ b # top => set[b].tree = null

\* Every column that an operator looks up in its input is there.
ColumnsResolve ==
    /\ phase \in {"run", "done"} =>
        /\ ToSet(raw.selections) \subseteq ToSet(asked[tree])
        /\ \A o \in DOMAIN operators :
            LET op == operators[o]
            IN  CASE op.type = "Scan" -> TRUE
                  [] op.type = "Join" ->
                      /\ ToSet(requestedColumnsLeft(o)) \cup {op.pInfo.left} \subseteq ToSet(asked[op.left])
                      /\ ToSet(requestedColumnsRight(o)) \cup {op.pInfo.right} \subseteq ToSet(asked[op.right])
                  [] op.type = "SelfJoin" ->
                      ToSet(asked[o]) \cup {op.pInfo.left, op.pInfo.right} \subseteq ToSet(asked[op.input])

\* What a query asks for: of all combinations of rows that satisfy all the
\* conditions, the sum of each column selected.
value(rows, info) == relation(info.binding).columns[info.colId][rows[info.binding]]
Matching ==
    {rows \in [Bindings(raw) -> 1..Max({relation(b).size : b \in Bindings(raw)})] :
        /\ \A b \in Bindings(raw) : rows[b] <= relation(b).size
        /\ \A c \in ToSet(raw.conditions) :
            IF isConstant(c) THEN satisfies(value(rows, c.left), c)
                             ELSE value(rows, c.left) = value(rows, c.right)}

\* The answer is right whatever the order of the conditions, the sides of the
\* predicates, the cycles in the join graph and the sizes of the inputs.
AnswerExact ==
    phase = "done" =>
        LET matching == Matching
            sum(info) == MapThenSumSet(LAMBDA rows : value(rows, info), matching)
        IN  answer = [k \in DOMAIN raw.selections |->
                        IF matching = {} THEN "NULL" ELSE sum(raw.selections[k]) % Modulus]
=============================================================================
