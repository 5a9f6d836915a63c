---------------------------- MODULE JoinerProofs ----------------------------
(***************************************************************************)
(* Proofs about the join planner and the operators of project1, for any    *)
(* relations and any well-formed queries over them: the forest of join     *)
(* trees follows the join graph, every column that an operator looks up    *)
(* is there, and the checksums are those of the query's meaning.           *)
(***************************************************************************)
EXTENDS Joiner, FiniteSetTheorems, WellFoundedInduction, TLAPS

-----------------------------------------------------------------------------
(* Induction, chains and folds                                             *)

\* A set with 0 and with the successors of its members below n has all of 0..n.
LEMMA UpTo ==
    ASSUME NEW n \in Nat, NEW S, 0 \in S, \A k \in 0..n - 1 : k \in S => k + 1 \in S
    PROVE  \A k \in 0..n : k \in S
<1> DEFINE D == {k \in 0..n : k \notin S}
           R == OpToRel(<, Nat)
<1>1. D = {}
  <2> SUFFICES ASSUME D # {} PROVE FALSE
    OBVIOUS
  <2>1. IsWellFoundedOn(R, Nat)
    BY NatLessThanWellFounded, Zenon
  <2>2. D \subseteq Nat
    OBVIOUS
  <2>3. PICK d \in D : \A e \in D : <<e, d>> \notin R
    <3> HIDE DEF R, D
    <3> QED
      BY <2>1, <2>2, WFMin
  <2>4. d \in 0..n /\ d \notin S
    OBVIOUS
  <2>5. d # 0
    BY <2>4
  <2>6. d - 1 \in 0..n - 1 /\ <<d - 1, d>> \in R /\ d = (d - 1) + 1
    BY <2>4, <2>5 DEF OpToRel
  <2>7. d - 1 \in S
    <3>1. d - 1 \notin D
      <4> HIDE DEF D, R
      <4> QED
        BY <2>3, <2>6
    <3> QED
      BY <3>1, <2>4, <2>5
  <2> QED
    BY <2>4, <2>6, <2>7, Zenon
<1> QED
  BY <1>1

\* Functions that give a value of A for an index and a value of A.
Steps(step, n, A) == \A k \in 1..n, a \in A : step[<<k, a>>] \in A

\* Values that start at base and follow step.
IsChain(C, n, A, base, step) ==
    C \in [0..n -> A] /\ C[0] = base /\ \A k \in 1..n : C[k] = step[<<k, C[k - 1]>>]

\* There are such values.
LEMMA Chain ==
    ASSUME NEW n \in Nat, NEW A, NEW base \in A, NEW step, Steps(step, n, A)
    PROVE  \E C : IsChain(C, n, A, base, step)
<1> DEFINE Good(k) == \E C : IsChain(C, k, A, base, step)
           S == {k \in Nat : Good(k)}
<1>1. 0 \in S
  <2> DEFINE C == [k \in 0..0 |-> base]
  <2>1. C \in [0..0 -> A] /\ C[0] = base /\ \A j \in 1..0 : C[j] = step[<<j, C[j - 1]>>]
    OBVIOUS
  <2> HIDE DEF C
  <2> QED
    BY <2>1 DEF IsChain
<1>2. ASSUME NEW k \in 0..n - 1, k \in S PROVE k + 1 \in S
  <2>1. PICK C \in [0..k -> A] : C[0] = base /\ \A j \in 1..k : C[j] = step[<<j, C[j - 1]>>]
    BY <1>2 DEF IsChain
  <2> DEFINE B == [j \in 0..k + 1 |-> IF j = k + 1 THEN step[<<k + 1, C[k]>>] ELSE C[j]]
  <2>2. step[<<k + 1, C[k]>>] \in A
    BY DEF Steps
  <2>3. B \in [0..k + 1 -> A]
    BY <2>2
  <2>4. B[0] = base
    BY <2>1
  <2>5. ASSUME NEW j \in 1..k + 1 PROVE B[j] = step[<<j, B[j - 1]>>]
    <3>1. B[j - 1] = C[j - 1]
      OBVIOUS
    <3>2. CASE j = k + 1
      BY <3>1, <3>2
    <3>3. CASE j \in 1..k
      BY <2>1, <3>1, <3>3
    <3> QED
      BY <3>2, <3>3
  <2> HIDE DEF B
  <2>6. Good(k + 1)
    BY <2>3, <2>4, <2>5 DEF IsChain
  <2> QED
    BY <2>6
<1> HIDE DEF S
<1>3. n \in S
  BY <1>1, <1>2, UpTo
<1> QED
  BY <1>3 DEF S

\* A fold from the left is defined by sets of indices in the community modules.
IsFold(F, n, base, step) ==
    F = [s \in SUBSET (1..n) |-> IF s = {} THEN base ELSE step[<<Max(s), F[s \ {Max(s)}]>>]]

\* There is such a fold.
LEMMA FoldExists ==
    ASSUME NEW n \in Nat, NEW A, NEW base \in A, NEW step, Steps(step, n, A)
    PROVE  \E F \in [SUBSET (1..n) -> A] : IsFold(F, n, base, step)
<1> DEFINE Next1(F, s) == IF s = {} THEN base ELSE step[<<Max(s), F[s \ {Max(s)}]>>]
           Good(k) == \E F \in [SUBSET (1..k) -> A] : \A s \in SUBSET (1..k) : F[s] = Next1(F, s)
           S == {k \in Nat : Good(k)}
<1>1. 0 \in S
  <2> DEFINE F == [s \in SUBSET (1..0) |-> base]
  <2>1. F \in [SUBSET (1..0) -> A] /\ \A s \in SUBSET (1..0) : F[s] = Next1(F, s)
    <3>1. 1..0 = {}
      OBVIOUS
    <3> QED
      BY <3>1
  <2> HIDE DEF F
  <2> QED
    BY <2>1
<1>2. ASSUME NEW k \in 0..n - 1, k \in S PROVE k + 1 \in S
  <2>1. PICK F \in [SUBSET (1..k) -> A] : \A s \in SUBSET (1..k) : F[s] = Next1(F, s)
    BY <1>2
  <2> DEFINE m == k + 1
             G == [s \in SUBSET (1..m) |-> IF m \in s THEN step[<<m, F[s \ {m}]>>] ELSE F[s]]
  <2>2. ASSUME NEW s \in SUBSET (1..m), m \in s
        PROVE  Max(s) = m /\ s \ {m} \in SUBSET (1..k) /\ s # {}
    <3>1. \A y \in s : m >= y
      OBVIOUS
    <3>2. \A x \in s : (\A y \in s : x >= y) => x = m
      <4>1. \A x \in s : x \in Int /\ m >= x
        OBVIOUS
      <4> QED
        BY <2>2, <4>1
    <3>3. Max(s) = m
      BY <2>2, <3>1, <3>2, Zenon DEF Max
    <3>4. s \ {m} \in SUBSET (1..k)
      OBVIOUS
    <3> QED
      BY <2>2, <3>3, <3>4
  <2>3. ASSUME NEW s \in SUBSET (1..m), m \notin s, s # {}
        PROVE  s \in SUBSET (1..k) /\ s \ {Max(s)} \in SUBSET (1..k)
    <3>1. s \subseteq 1..k
      BY <2>3
    <3> QED
      BY <3>1
  <2>4. G \in [SUBSET (1..m) -> A]
    <3> SUFFICES ASSUME NEW s \in SUBSET (1..m)
                 PROVE  (IF m \in s THEN step[<<m, F[s \ {m}]>>] ELSE F[s]) \in A
      OBVIOUS
    <3>1. CASE m \in s
      <4>1. F[s \ {m}] \in A
        BY <2>2, <3>1
      <4>2. m \in 1..n
        OBVIOUS
      <4> QED
        BY <3>1, <4>1, <4>2 DEF Steps
    <3>2. CASE m \notin s
      <4>1. s \in SUBSET (1..k)
        BY <3>2
      <4> QED
        BY <3>2, <4>1
    <3> QED
      BY <3>1, <3>2
  <2>5. ASSUME NEW s \in SUBSET (1..m) PROVE G[s] = Next1(G, s)
    <3>1. CASE m \in s
      <4>1. Max(s) = m /\ s \ {m} \in SUBSET (1..m) /\ m \notin s \ {m} /\ s # {}
        BY <2>2, <3>1
      <4>2. G[s \ {m}] = F[s \ {m}]
        BY <4>1, Zenon
      <4>3. G[s] = step[<<m, F[s \ {m}]>>]
        BY <3>1, Zenon
      <4> HIDE DEF G, m
      <4> QED
        BY <4>1, <4>2, <4>3, Zenon
    <3>2. CASE m \notin s /\ s = {}
      <4>1. {} \in SUBSET (1..k)
        OBVIOUS
      <4>2. G[s] = F[s]
        BY <3>2, Zenon
      <4>3. F[{}] = base
        BY <2>1, <4>1, Zenon
      <4> QED
        BY <3>2, <4>2, <4>3, Zenon
    <3>3. CASE m \notin s /\ s # {}
      <4>1. s \in SUBSET (1..k) /\ s \ {Max(s)} \in SUBSET (1..k)
        BY <2>3, <3>3
      <4>2. F[s] = step[<<Max(s), F[s \ {Max(s)}]>>]
        BY <2>1, <3>3, <4>1, Zenon
      <4>3. s \ {Max(s)} \in SUBSET (1..m) /\ m \notin s \ {Max(s)}
        BY <3>3
      <4>4. G[s] = F[s] /\ G[s \ {Max(s)}] = F[s \ {Max(s)}]
        BY <3>3, <4>3, Zenon
      <4> HIDE DEF G
      <4> QED
        BY <3>3, <4>2, <4>4, Zenon
    <3> QED
      BY <3>1, <3>2, <3>3, Zenon
  <2> HIDE DEF G
  <2>6. Good(m)
    <3> HIDE DEF m, Next1
    <3> QED
      BY <2>4, <2>5, Zenon
  <2>7. m \in Nat
    OBVIOUS
  <2> HIDE DEF Good
  <2> QED
    BY <2>6, <2>7
<1> HIDE DEF S
<1>3. n \in S
  BY <1>1, <1>2, UpTo
<1>4. PICK F \in [SUBSET (1..n) -> A] : \A s \in SUBSET (1..n) : F[s] = Next1(F, s)
  BY <1>3 DEF S
<1>5. F = [s \in SUBSET (1..n) |-> Next1(F, s)]
  <2>1. F = [s \in SUBSET (1..n) |-> F[s]]
    BY Zenon
  <2> HIDE DEF Next1
  <2> QED
    BY <1>4, <2>1, Zenon
<1> QED
  BY <1>5, Zenon DEF IsFold

\* The maximum of a set of numbers up to n.
LEMMA MaxOK ==
    ASSUME NEW n \in Nat, NEW s \in SUBSET (0..n), s # {}
    PROVE  Max(s) \in s /\ \A y \in s : Max(s) >= y
<1> DEFINE D == {k \in 0..n : n - k \in s}
           R == OpToRel(<, Nat)
<1>1. IsWellFoundedOn(R, Nat)
  BY NatLessThanWellFounded, Zenon
<1>2. D \subseteq Nat /\ D # {}
  <2>1. PICK x \in s : TRUE
    OBVIOUS
  <2>2. n - x \in D
    OBVIOUS
  <2> QED
    BY <2>2
<1>3. PICK d \in D : \A e \in D : <<e, d>> \notin R
  <2> HIDE DEF R, D
  <2> QED
    BY <1>1, <1>2, WFMin
<1>4. \A y \in s : n - d >= y
  <2> SUFFICES ASSUME NEW y \in s, ~(n - d >= y) PROVE FALSE
    OBVIOUS
  <2>1. n - y \in D /\ n - y < d
    OBVIOUS
  <2>2. <<n - y, d>> \in R
    BY <2>1 DEF OpToRel
  <2> HIDE DEF D, R
  <2> QED
    BY <1>3, <2>1, <2>2
<1>5. n - d \in s
  OBVIOUS
<1> QED
  BY <1>4, <1>5, Zenon DEF Max

-----------------------------------------------------------------------------
(* The operators on sequences                                              *)

\* The numbers up to m, without the last one.
LEMMA UpToM ==
    ASSUME NEW n \in Nat, NEW k \in 0..n - 1
    PROVE  /\ 1..k + 1 \in SUBSET (1..n) /\ 1..k + 1 # {}
           /\ (1..k + 1) \ {k + 1} = 1..k /\ Max(1..k + 1) = k + 1
<1>1. k + 1 \in 1..k + 1 /\ 1..k + 1 \in SUBSET (1..n)
  OBVIOUS
<1>2. (1..k + 1) \ {k + 1} = 1..k
  OBVIOUS
<1>3. Max(1..k + 1) = k + 1
  BY DEF Max
<1> QED
  BY <1>1, <1>2, <1>3

\* Append adds one member.
LEMMA AppendSet ==
    ASSUME NEW X, NEW s \in Seq(X), NEW x \in X
    PROVE  ToSet(Append(s, x)) = ToSet(s) \cup {x}
<1>1. DOMAIN Append(s, x) = (1..Len(s)) \cup {Len(s) + 1} /\ DOMAIN s = 1..Len(s)
  OBVIOUS
<1>2. (\A a \in 1..Len(s) : Append(s, x)[a] = s[a]) /\ Append(s, x)[Len(s) + 1] = x
  OBVIOUS
<1> DEFINE t == Append(s, x)
<1> HIDE DEF t
<1> QED
  BY <1>1, <1>2 DEF ToSet, t

\* The value of Those is the last one of a chain.
LEMMA ThoseIs ==
    ASSUME NEW X, NEW seq \in Seq(X), NEW set
    PROVE  \E C \in [0..Len(seq) -> Seq(X)] :
              /\ C[0] = <<>>
              /\ C[Len(seq)] = Those(seq, set)
              /\ \A k \in 1..Len(seq) :
                    C[k] = IF seq[k] \in set THEN Append(C[k - 1], seq[k]) ELSE C[k - 1]
<1> DEFINE n == Len(seq)
           IsIt(f) == f = [k \in 0..n |->
                              IF k = 0 THEN <<>>
                              ELSE IF seq[k] \in set THEN Append(f[k - 1], seq[k]) ELSE f[k - 1]]
           upto == CHOOSE f : IsIt(f)
           step == [p \in (1..n) \X Seq(X) |->
                       IF seq[p[1]] \in set THEN Append(p[2], seq[p[1]]) ELSE p[2]]
<1>1. n \in Nat /\ <<>> \in Seq(X)
  OBVIOUS
<1>2. Steps(step, n, Seq(X))
  <2> SUFFICES ASSUME NEW k \in 1..n, NEW s \in Seq(X) PROVE step[<<k, s>>] \in Seq(X)
    BY Zenon DEF Steps
  <2>1. seq[k] \in X
    OBVIOUS
  <2>2. step[<<k, s>>] = IF seq[k] \in set THEN Append(s, seq[k]) ELSE s
    OBVIOUS
  <2> QED
    BY <2>1, <2>2
<1>3. PICK C : IsChain(C, n, Seq(X), <<>>, step)
  <2> HIDE DEF step, n
  <2> QED
    BY <1>1, <1>2, Chain
<1>4. \A k \in 1..n : C[k] = IF seq[k] \in set THEN Append(C[k - 1], seq[k]) ELSE C[k - 1]
  <2> SUFFICES ASSUME NEW k \in 1..n
               PROVE  C[k] = IF seq[k] \in set THEN Append(C[k - 1], seq[k]) ELSE C[k - 1]
    OBVIOUS
  <2>1. C[k] = step[<<k, C[k - 1]>>]
    BY <1>3 DEF IsChain
  <2>2. C[k - 1] \in Seq(X)
    BY <1>1, <1>3 DEF IsChain
  <2> QED
    BY <2>1, <2>2
<1> HIDE DEF step
<1>5. IsIt(C)
  <2>1. \A k \in 0..n : C[k] = IF k = 0 THEN <<>>
                               ELSE IF seq[k] \in set THEN Append(C[k - 1], seq[k]) ELSE C[k - 1]
    <3> SUFFICES ASSUME NEW k \in 0..n
                 PROVE  C[k] = IF k = 0 THEN <<>>
                               ELSE IF seq[k] \in set THEN Append(C[k - 1], seq[k]) ELSE C[k - 1]
      OBVIOUS
    <3>1. CASE k = 0
      BY <1>3, <3>1 DEF IsChain
    <3>2. CASE k # 0
      <4>1. k \in 1..n
        BY <1>1, <3>2
      <4> QED
        BY <1>4, <3>2, <4>1, Zenon
    <3> QED
      BY <3>1, <3>2
  <2>2. C = [k \in 0..n |-> C[k]]
    BY <1>3, Zenon DEF IsChain
  <2> QED
    BY <2>1, <2>2, Zenon
<1>6. IsIt(upto)
  <2> HIDE DEF IsIt
  <2> QED
    BY <1>5, Zenon
<1>7. Those(seq, set) = upto[n]
  BY Zenon DEF Those
<1> HIDE DEF upto
<1>8. \A k \in 0..n : upto[k] = IF k = 0 THEN <<>>
                               ELSE IF seq[k] \in set THEN Append(upto[k - 1], seq[k]) ELSE upto[k - 1]
  BY <1>6, Zenon
<1> HIDE DEF IsIt
<1> DEFINE S == {k \in 0..n : upto[k] = C[k]}
<1>9. 0 \in S
  BY <1>1, <1>3, <1>8 DEF IsChain
<1>10. \A k \in 0..n - 1 : k \in S => k + 1 \in S
  <2> SUFFICES ASSUME NEW k \in 0..n - 1, k \in S PROVE k + 1 \in S
    OBVIOUS
  <2>1. k + 1 \in 1..n /\ k + 1 \in 0..n /\ (k + 1) - 1 = k /\ k + 1 # 0
    BY <1>1
  <2>2. upto[k] = C[k]
    OBVIOUS
  <2>3. upto[k + 1] = C[k + 1]
    BY <1>4, <1>8, <2>1, <2>2, Zenon
  <2> QED
    BY <2>1, <2>3
<1>11. n \in S
  <2> HIDE DEF S, n
  <2>1. \A k \in 0..n : k \in S
    BY <1>1, <1>9, <1>10, UpTo
  <2> QED
    BY <1>1, <2>1
<1> QED
  BY <1>3, <1>4, <1>7, <1>11 DEF IsChain

\* Those has the members of the sequence that are in the set, and if they are
\* different in the sequence, then also in Those.
LEMMA ThoseOK ==
    ASSUME NEW X, NEW seq \in Seq(X), NEW set
    PROVE  /\ Those(seq, set) \in Seq(X)
           /\ ToSet(Those(seq, set)) = ToSet(seq) \cap set
           /\ IsInjective(seq) => IsInjective(Those(seq, set))
<1> DEFINE n == Len(seq)
<1>1. PICK C \in [0..n -> Seq(X)] :
              /\ C[0] = <<>>
              /\ C[n] = Those(seq, set)
              /\ \A k \in 1..n :
                    C[k] = IF seq[k] \in set THEN Append(C[k - 1], seq[k]) ELSE C[k - 1]
  BY ThoseIs, SMTT(30)
<1>2. n \in Nat /\ DOMAIN seq = 1..n
  OBVIOUS
<1> DEFINE Upto(k) == {seq[j] : j \in 1..k} \cap set
           Good(k) == /\ {C[k][m] : m \in 1..Len(C[k])} = Upto(k)
                      /\ IsInjective(seq) => \A a, b \in 1..Len(C[k]) : C[k][a] = C[k][b] => a = b
           S == {k \in 0..n : Good(k)}
<1>3. 0 \in S
  BY <1>1, <1>2
<1>4. ASSUME NEW k \in 0..n - 1, k \in S PROVE k + 1 \in S
  <2>1. k + 1 \in 1..n /\ k + 1 \in 0..n /\ (k + 1) - 1 = k /\ k \in 0..n
    BY <1>2
  <2> DEFINE m == k + 1
             x == seq[m]
             old == C[k]
  <2>2. C[m] = IF x \in set THEN Append(old, x) ELSE old
    BY <1>1, <2>1
  <2>3. old \in Seq(X) /\ x \in X
    BY <2>1
  <2>4. {old[a] : a \in 1..Len(old)} = Upto(k)
    BY <1>4
  <2>5. Upto(m) = IF x \in set THEN Upto(k) \cup {x} ELSE Upto(k)
    <3>1. 1..m = (1..k) \cup {m}
      BY <2>1
    <3>2. {seq[j] : j \in 1..m} = {seq[j] : j \in 1..k} \cup {x}
      BY <3>1
    <3> QED
      BY <3>2
  <2>6. CASE x \notin set
    <3>1. C[m] = old /\ Upto(m) = Upto(k)
      BY <2>2, <2>5, <2>6
    <3> QED
      BY <1>4, <2>1, <3>1, SMTT(30)
  <2>7. CASE x \in set
    <3> DEFINE new == Append(old, x)
    <3>1. C[m] = new /\ Upto(m) = Upto(k) \cup {x}
      BY <2>2, <2>5, <2>7
    <3>2. /\ Len(new) = Len(old) + 1
          /\ \A a \in 1..Len(old) : new[a] = old[a]
          /\ new[Len(old) + 1] = x /\ Len(old) \in Nat
      BY <2>3
    <3>3. {new[a] : a \in 1..Len(new)} = {old[a] : a \in 1..Len(old)} \cup {x}
      <4>1. 1..Len(new) = (1..Len(old)) \cup {Len(old) + 1}
        BY <3>2
      <4> HIDE DEF new, old, x
      <4> QED
        BY <3>2, <4>1
    <3>4. ASSUME IsInjective(seq), NEW a \in 1..Len(new), NEW b \in 1..Len(new), new[a] = new[b]
          PROVE  a = b
      <4>1. x \notin {old[c] : c \in 1..Len(old)}
        <5> SUFFICES ASSUME x \in Upto(k) PROVE FALSE
          BY <2>4
        <5>1. PICK j \in 1..k : seq[j] = x
          OBVIOUS
        <5>2. j \in DOMAIN seq /\ m \in DOMAIN seq /\ j # m
          BY <1>2, <2>1
        <5> QED
          BY <3>4, <5>1, <5>2 DEF IsInjective
      <4>2. \A c, d \in 1..Len(old) : old[c] = old[d] => c = d
        BY <1>4, <3>4
      <4> HIDE DEF new, old, x
      <4>3. CASE a \in 1..Len(old) /\ b \in 1..Len(old)
        BY <3>2, <3>4, <4>2, <4>3
      <4>4. CASE a = Len(old) + 1 \/ b = Len(old) + 1
        BY <3>2, <3>4, <4>1, <4>4
      <4> QED
        BY <3>2, <4>3, <4>4
    <3> HIDE DEF new, old, x, Upto
    <3>5. {C[m][a] : a \in 1..Len(C[m])} = Upto(m)
      BY <2>4, <3>1, <3>3
    <3>6. IsInjective(seq) => \A a, b \in 1..Len(C[m]) : C[m][a] = C[m][b] => a = b
      BY <3>1, <3>4
    <3> QED
      BY <2>1, <3>5, <3>6
  <2> QED
    BY <2>6, <2>7
<1>5. n \in S
  <2> HIDE DEF S, n
  <2>1. \A k \in 0..n - 1 : k \in S => k + 1 \in S
    BY <1>4
  <2>2. \A k \in 0..n : k \in S
    BY <1>2, <1>3, <2>1, UpTo
  <2> QED
    BY <1>2, <2>2
<1> DEFINE t == Those(seq, set)
<1>6. C[n] = t /\ t \in Seq(X)
  BY <1>1, <1>2
<1>7. Good(n)
  BY <1>5
<1> HIDE DEF t
<1>8. DOMAIN t = 1..Len(t)
  BY <1>6
<1> QED
  <2>1. ToSet(t) = ToSet(seq) \cap set
    BY <1>2, <1>6, <1>7, <1>8, Zenon DEF ToSet
  <2>2. IsInjective(seq) => IsInjective(t)
    BY <1>6, <1>7, <1>8, Zenon DEF IsInjective
  <2> QED
    BY <1>6, <2>1, <2>2 DEF t

\* once has the same members.
LEMMA OnceOK ==
    ASSUME NEW X, NEW infos \in Seq(X)
    PROVE  once(infos) \in Seq(X) /\ ToSet(once(infos)) = ToSet(infos)
<1> DEFINE n == Len(infos)
           step == [p \in (1..n) \X Seq(X) |->
                       IF Contains(p[2], infos[p[1]]) THEN p[2] ELSE Append(p[2], infos[p[1]])]
<1>1. n \in Nat /\ <<>> \in Seq(X) /\ DOMAIN infos = 1..n
  OBVIOUS
<1>2. \A k \in 1..n, s \in Seq(X) :
         step[<<k, s>>] = IF Contains(s, infos[k]) THEN s ELSE Append(s, infos[k])
  OBVIOUS
<1>3. \A k \in 1..n : infos[k] \in X
  OBVIOUS
<1> HIDE DEF step
<1>4. Steps(step, n, Seq(X))
  <2> SUFFICES ASSUME NEW k \in 1..n, NEW s \in Seq(X) PROVE step[<<k, s>>] \in Seq(X)
    BY Zenon DEF Steps
  <2>1. infos[k] \in X
    BY <1>3
  <2>2. Append(s, infos[k]) \in Seq(X)
    BY <2>1
  <2> QED
    BY <1>2, <2>2
<1> DEFINE IsIt(f) == f = [s \in SUBSET DOMAIN infos |->
                              IF s = {} THEN <<>>
                              ELSE IF Contains(f[s \ {Max(s)}], infos[Max(s)])
                                     THEN f[s \ {Max(s)}]
                                     ELSE Append(f[s \ {Max(s)}], infos[Max(s)])]
           iter == CHOOSE f : IsIt(f)
<1>5. once(infos) = iter[DOMAIN infos]
  BY Zenon DEF once, FoldLeft, MapThenFoldSet
<1>6. IsIt(iter)
  <2>1. PICK F \in [SUBSET (1..n) -> Seq(X)] : IsFold(F, n, <<>>, step)
    <3> HIDE DEF n
    <3> QED
      BY <1>1, <1>4, FoldExists
  <2>2. \A s \in SUBSET (1..n) :
           F[s] = IF s = {} THEN <<>> ELSE step[<<Max(s), F[s \ {Max(s)}]>>]
    BY <2>1, Zenon DEF IsFold
  <2>3. \A s \in SUBSET (1..n) : s # {} =>
           step[<<Max(s), F[s \ {Max(s)}]>>] =
               IF Contains(F[s \ {Max(s)}], infos[Max(s)])
                 THEN F[s \ {Max(s)}]
                 ELSE Append(F[s \ {Max(s)}], infos[Max(s)])
    <3> SUFFICES ASSUME NEW s \in SUBSET (1..n), s # {}
                 PROVE  Max(s) \in 1..n /\ F[s \ {Max(s)}] \in Seq(X)
      BY <1>2, Zenon
    <3>1. s \in SUBSET (0..n)
      OBVIOUS
    <3>2. Max(s) \in s
      <4> HIDE DEF n
      <4> QED
        BY <1>1, <3>1, MaxOK
    <3> QED
      BY <3>2
  <2>4. \A s \in SUBSET (1..n) :
           F[s] = IF s = {} THEN <<>>
                  ELSE IF Contains(F[s \ {Max(s)}], infos[Max(s)])
                         THEN F[s \ {Max(s)}]
                         ELSE Append(F[s \ {Max(s)}], infos[Max(s)])
    BY <2>2, <2>3, Zenon
  <2>5. F = [s \in SUBSET DOMAIN infos |-> F[s]]
    BY <1>1, Zenon
  <2>6. IsIt(F)
    BY <1>1, <2>4, <2>5, Zenon
  <2> HIDE DEF IsIt
  <2> QED
    BY <2>6, Zenon
<1> HIDE DEF iter
<1>7. \A s \in SUBSET (1..n) :
         iter[s] = IF s = {} THEN <<>>
                   ELSE IF Contains(iter[s \ {Max(s)}], infos[Max(s)])
                          THEN iter[s \ {Max(s)}]
                          ELSE Append(iter[s \ {Max(s)}], infos[Max(s)])
  BY <1>1, <1>6, Zenon
<1> HIDE DEF IsIt
<1> DEFINE S == {k \in 0..n : /\ iter[1..k] \in Seq(X)
                              /\ ToSet(iter[1..k]) = {infos[j] : j \in 1..k}}
<1>8. 0 \in S
  <2>1. 1..0 = {} /\ 1..0 \in SUBSET (1..n)
    OBVIOUS
  <2>2. iter[1..0] = <<>>
    BY <1>7, <2>1, Zenon
  <2>3. ToSet(<<>>) = {} /\ {infos[j] : j \in 1..0} = {}
    BY <2>1 DEF ToSet
  <2>4. 0 \in 0..n
    BY <1>1
  <2> QED
    BY <1>1, <2>2, <2>3, <2>4, Zenon
<1>9. \A k \in 0..n - 1 : k \in S => k + 1 \in S
  <2> SUFFICES ASSUME NEW k \in 0..n - 1, k \in S PROVE k + 1 \in S
    OBVIOUS
  <2> DEFINE m == k + 1
             old == iter[1..k]
             x == infos[m]
  <2>1. m \in 1..n /\ m \in 0..n
    BY <1>1
  <2>2. 1..m \in SUBSET (1..n) /\ 1..m # {} /\ (1..m) \ {m} = 1..k /\ Max(1..m) = m
    BY <2>1, UpToM
  <2>3. iter[1..m] = IF Contains(old, x) THEN old ELSE Append(old, x)
    BY <1>7, <2>2, Zenon
  <2>4. old \in Seq(X) /\ x \in X /\ ToSet(old) = {infos[j] : j \in 1..k}
    BY <1>3, <2>1
  <2>5. {infos[j] : j \in 1..m} = ToSet(old) \cup {x}
    <3>1. 1..m = (1..k) \cup {m}
      OBVIOUS
    <3> QED
      BY <2>4, <3>1
  <2> HIDE DEF m, old, x
  <2>6. CASE Contains(old, x)
    <3>1. x \in ToSet(old)
      BY <2>4, <2>6 DEF Contains, ToSet
    <3> QED
      BY <2>1, <2>3, <2>4, <2>5, <2>6, <3>1 DEF m
  <2>7. CASE ~Contains(old, x)
    <3>1. iter[1..m] = Append(old, x) /\ Append(old, x) \in Seq(X)
      BY <2>3, <2>4, <2>7
    <3>2. ToSet(Append(old, x)) = ToSet(old) \cup {x}
      BY <2>4, AppendSet
    <3> QED
      BY <2>1, <2>5, <3>1, <3>2 DEF m
  <2> QED
    BY <2>6, <2>7
<1>10. n \in S
  <2> HIDE DEF S, n
  <2>1. \A k \in 0..n : k \in S
    BY <1>1, <1>8, <1>9, UpTo
  <2> QED
    BY <1>1, <2>1
<1> QED
  BY <1>1, <1>5, <1>10 DEF ToSet

-----------------------------------------------------------------------------
(* The disjoint set                                                        *)

\* The bindings that have been made the child of another one.
Children(set) == {b \in DOMAIN set : set[b].root_id # b}

\* A forest, in which R is the root of each binding, and d at least its depth.
ForestOK(set, R, d) ==
    /\ IsFiniteSet(DOMAIN set)
    /\ set \in [DOMAIN set -> [root_id : DOMAIN set, tree : Nat]]
    /\ R \in [DOMAIN set -> DOMAIN set] /\ d \in [DOMAIN set -> Nat]
    /\ \A b \in DOMAIN set :
        /\ set[R[b]].root_id = R[b]
        /\ R[set[b].root_id] = R[b]
        /\ d[b] <= Cardinality(Children(set))
        /\ IF set[b].root_id = b THEN R[b] = b /\ d[b] = 0
                                 ELSE d[set[b].root_id] < d[b]

\* The way from a binding leads from parent to parent.
LEMMA WayIs ==
    ASSUME NEW set, NEW R, NEW d, ForestOK(set, R, d), NEW b \in DOMAIN set
    PROVE  LET N == Cardinality(DOMAIN set)
               w == way(set, b)
           IN  /\ N \in Nat /\ w \in [0..N -> DOMAIN set] /\ w[0] = b
               /\ \A k \in 1..N : w[k] = set[w[k - 1]].root_id
<1> DEFINE N == Cardinality(DOMAIN set)
           U == DOMAIN set
           IsIt(f) == f = [n \in 0..N |-> IF n = 0 THEN b ELSE set[f[n - 1]].root_id]
           up == CHOOSE f : IsIt(f)
           step == [p \in (1..N) \X U |-> set[p[2]].root_id]
<1>1. N \in Nat
  BY FS_CardinalityType DEF ForestOK
<1>2. \A a \in U : set[a].root_id \in U
  BY DEF ForestOK
<1>3. \A k \in 1..N, a \in U : step[<<k, a>>] = set[a].root_id
  OBVIOUS
<1> HIDE DEF step, U, N
<1>4. Steps(step, N, U)
  BY <1>2, <1>3, Zenon DEF Steps
<1>5. PICK C : IsChain(C, N, U, b, step)
  <2>1. b \in U
    BY DEF U
  <2> QED
    BY <1>1, <1>4, <2>1, Chain
<1>6. C \in [0..N -> U] /\ C[0] = b /\ \A k \in 1..N : C[k] = set[C[k - 1]].root_id
  <2>1. C \in [0..N -> U] /\ C[0] = b /\ \A k \in 1..N : C[k] = step[<<k, C[k - 1]>>]
    BY <1>5 DEF IsChain
  <2>2. \A k \in 1..N : C[k - 1] \in U
    BY <1>1, <2>1
  <2> QED
    BY <1>3, <2>1, <2>2
<1>7. \A k \in 0..N : C[k] = IF k = 0 THEN b ELSE set[C[k - 1]].root_id
  <2> SUFFICES ASSUME NEW k \in 0..N PROVE C[k] = IF k = 0 THEN b ELSE set[C[k - 1]].root_id
    OBVIOUS
  <2>1. k = 0 \/ k \in 1..N
    BY <1>1
  <2> QED
    BY <1>1, <1>6, <2>1
<1>8. C = [k \in 0..N |-> C[k]]
  BY <1>6, Zenon
<1>9. IsIt(C)
  BY <1>7, <1>8, Zenon
<1>10. IsIt(up)
  <2> HIDE DEF IsIt
  <2> QED
    BY <1>9, Zenon
<1>11. way(set, b) = up
  BY Zenon DEF way, N
<1> HIDE DEF up
<1>12. \A k \in 0..N : up[k] = IF k = 0 THEN b ELSE set[up[k - 1]].root_id
  BY <1>10, Zenon
<1>13. up = [k \in 0..N |-> up[k]]
  <2>1. DOMAIN up = 0..N
    BY <1>10, Zenon
  <2>2. up = [k \in 0..N |-> IF k = 0 THEN b ELSE set[up[k - 1]].root_id]
    BY <1>10, Zenon
  <2> QED
    BY <1>12, <2>2, Zenon
<1> HIDE DEF IsIt
<1> DEFINE S == {k \in 0..N : up[k] = C[k]}
<1>14. 0 \in S
  BY <1>1, <1>6, <1>12
<1>15. \A k \in 0..N - 1 : k \in S => k + 1 \in S
  <2> SUFFICES ASSUME NEW k \in 0..N - 1, k \in S PROVE k + 1 \in S
    OBVIOUS
  <2>1. k + 1 \in 0..N /\ (k + 1) - 1 = k /\ k + 1 # 0
    BY <1>1
  <2>2. up[k] = C[k]
    OBVIOUS
  <2>3. up[k + 1] = C[k + 1]
    BY <1>7, <1>12, <2>1, <2>2, ZenonT(30)
  <2> QED
    BY <2>1, <2>3
<1>16. \A k \in 0..N : up[k] = C[k]
  <2> HIDE DEF S
  <2>1. \A k \in 0..N : k \in S
    BY <1>1, <1>14, <1>15, UpTo
  <2> QED
    BY <2>1 DEF S
<1>17. up = C
  BY <1>8, <1>13, <1>16, Zenon
<1> QED
  BY <1>1, <1>6, <1>11, <1>17 DEF N, U

\* It ends at the root, and stays in its tree.
LEMMA RootIs ==
    ASSUME NEW set, NEW R, NEW d, ForestOK(set, R, d), NEW b \in DOMAIN set
    PROVE  /\ getRootOfJoinTree(set, b) = R[b]
           /\ \A c \in Range(way(set, b)) : c \in DOMAIN set /\ R[c] = R[b]
<1> DEFINE N == Cardinality(DOMAIN set)
           U == DOMAIN set
           w == way(set, b)
<1>1. /\ N \in Nat /\ w \in [0..N -> U] /\ w[0] = b
      /\ \A k \in 1..N : w[k] = set[w[k - 1]].root_id
  BY WayIs
<1>2. d[b] \in Nat /\ d[b] <= N
  <2>1. Cardinality(Children(set)) \in Nat /\ Cardinality(Children(set)) <= N
    <3>1. Children(set) \subseteq DOMAIN set /\ IsFiniteSet(DOMAIN set)
      BY DEF Children, ForestOK
    <3>2. IsFiniteSet(Children(set)) /\ Cardinality(Children(set)) <= Cardinality(DOMAIN set)
      BY <3>1, FS_Subset
    <3> QED
      BY <3>2, FS_CardinalityType
  <2>2. d[b] \in Nat /\ d[b] <= Cardinality(Children(set))
    BY DEF ForestOK
  <2> HIDE DEF N
  <2> QED
    BY <1>1, <2>1, <2>2 DEF N
<1>3. \A c \in U : /\ set[c].root_id \in U /\ d[c] \in Nat /\ R[c] \in U
                   /\ set[R[c]].root_id = R[c] /\ R[set[c].root_id] = R[c]
                   /\ set[c].root_id = c => R[c] = c
                   /\ set[c].root_id # c => d[set[c].root_id] < d[c]
  BY DEF ForestOK
<1> HIDE DEF N, U, w
<1>4. b \in U
  BY DEF U
<1> DEFINE Good(k) == R[w[k]] = R[b] /\ (w[k] = R[b] \/ d[w[k]] <= d[b] - k)
           S == {k \in 0..N : Good(k)}
<1>5. 0 \in S
  BY <1>1, <1>2
<1>6. \A k \in 0..N - 1 : k \in S => k + 1 \in S
  <2> SUFFICES ASSUME NEW k \in 0..N - 1, k \in S PROVE k + 1 \in S
    OBVIOUS
  <2>1. k + 1 \in 1..N /\ k + 1 \in 0..N /\ (k + 1) - 1 = k /\ k \in 0..N
    BY <1>1
  <2> DEFINE c == w[k]
             e == w[k + 1]
  <2>2. c \in U /\ e = set[c].root_id /\ e \in U
    BY <1>1, <1>3, <2>1
  <2>3. R[c] = R[b] /\ (c = R[b] \/ d[c] <= d[b] - k)
    OBVIOUS
  <2> HIDE DEF c, e
  <2>4. R[e] = R[b]
    BY <1>3, <2>2, <2>3
  <2>5. e = R[b] \/ d[e] <= d[b] - (k + 1)
    <3>1. CASE c = R[b]
      BY <1>3, <1>4, <2>2, <3>1
    <3>2. CASE c # R[b] /\ d[c] <= d[b] - k
      <4>1. set[c].root_id # c
        BY <1>3, <2>2, <2>3, <3>2
      <4>2. d[e] < d[c] /\ d[e] \in Nat /\ d[c] \in Nat
        BY <1>3, <2>2, <4>1
      <4> QED
        BY <1>2, <3>2, <4>2
    <3> QED
      BY <2>3, <3>1, <3>2
  <2> QED
    BY <2>1, <2>4, <2>5 DEF e
<1>7. \A k \in 0..N : Good(k)
  <2> HIDE DEF S, Good
  <2>1. \A k \in 0..N : k \in S
    BY <1>1, <1>5, <1>6, UpTo
  <2> QED
    BY <2>1 DEF S
<1>8. w[N] = R[b]
  <2>1. N \in 0..N /\ w[N] \in U
    BY <1>1
  <2>2. R[w[N]] = R[b] /\ (w[N] = R[b] \/ d[w[N]] <= d[b] - N)
    BY <1>7, <2>1
  <2>3. ASSUME w[N] # R[b] PROVE FALSE
    <3>1. set[w[N]].root_id # w[N]
      BY <1>3, <2>1, <2>2, <2>3
    <3>2. d[set[w[N]].root_id] < d[w[N]] /\ d[set[w[N]].root_id] \in Nat /\ d[w[N]] \in Nat
      BY <1>3, <2>1, <3>1
    <3> QED
      BY <1>1, <1>2, <2>2, <2>3, <3>2
  <2> QED
    BY <2>3
<1>9. getRootOfJoinTree(set, b) = R[b]
  BY <1>8 DEF getRootOfJoinTree, w, N
<1>10. \A c \in Range(w) : c \in U /\ R[c] = R[b]
  <2>1. Range(w) = {w[k] : k \in 0..N}
    BY <1>1 DEF Range
  <2>2. \A k \in 0..N : w[k] \in U
    BY <1>1
  <2> QED
    BY <1>7, <2>1, <2>2
<1> QED
  BY <1>9, <1>10 DEF w, U

\* A tree stays what it is if some bindings become children of their root.
LEMMA Reparented ==
    ASSUME NEW set, NEW R, NEW d, ForestOK(set, R, d), NEW new,
           new \in [DOMAIN set -> [root_id : DOMAIN set, tree : Nat]],
           \A b \in DOMAIN set : new[b].root_id \in {set[b].root_id, R[b]}
    PROVE  ForestOK(new, R, d)
<1> DEFINE U == DOMAIN set
<1>1. DOMAIN new = U
  OBVIOUS
<1>2. \A b \in U : /\ set[b].root_id \in U /\ d[b] \in Nat /\ R[b] \in U
                   /\ set[R[b]].root_id = R[b] /\ R[set[b].root_id] = R[b]
                   /\ d[b] <= Cardinality(Children(set))
                   /\ IF set[b].root_id = b THEN R[b] = b /\ d[b] = 0
                                            ELSE d[set[b].root_id] < d[b]
  BY DEF ForestOK
<1>3. \A b \in U : new[b].root_id = set[b].root_id \/ new[b].root_id = R[b]
  OBVIOUS
<1> HIDE DEF U
<1>4. \A b \in U : R[R[b]] = R[b] /\ d[R[b]] = 0
  BY <1>2
<1>5. \A b \in U : new[b].root_id = b <=> set[b].root_id = b
  BY <1>2, <1>3
<1>6. Children(new) = Children(set)
  BY <1>1, <1>5 DEF Children, U
<1>7. \A b \in U : /\ new[R[b]].root_id = R[b]
                   /\ R[new[b].root_id] = R[b]
                   /\ d[b] <= Cardinality(Children(new))
  BY <1>2, <1>3, <1>4, <1>5, <1>6
<1>8. \A b \in U : IF new[b].root_id = b THEN R[b] = b /\ d[b] = 0
                                         ELSE d[new[b].root_id] < d[b]
  <2> SUFFICES ASSUME NEW b \in U
               PROVE  IF new[b].root_id = b THEN R[b] = b /\ d[b] = 0
                                            ELSE d[new[b].root_id] < d[b]
    OBVIOUS
  <2>1. CASE new[b].root_id = b
    BY <1>2, <1>5, <2>1
  <2>2. CASE new[b].root_id # b
    <3>1. d[set[b].root_id] < d[b] /\ d[b] \in Nat /\ d[set[b].root_id] \in Nat
      BY <1>2, <1>5, <2>2
    <3>2. d[R[b]] = 0
      BY <1>4
    <3> QED
      BY <1>3, <2>2, <3>1, <3>2
  <2> QED
    BY <2>1, <2>2
<1> QED
  BY <1>1, <1>7, <1>8 DEF ForestOK, U

\* So path compression changes neither the trees nor their roots.
LEMMA CompressedOK ==
    ASSUME NEW set, NEW R, NEW d, ForestOK(set, R, d), NEW b \in DOMAIN set
    PROVE  LET new == compressed(set, b)
           IN  /\ ForestOK(new, R, d) /\ DOMAIN new = DOMAIN set
               /\ \A c \in DOMAIN set : new[c].tree = set[c].tree
<1> DEFINE new == compressed(set, b)
           W == Range(way(set, b))
<1>1. new = [c \in DOMAIN set |->
                IF c \in W THEN [set[c] EXCEPT !.root_id = R[b]] ELSE set[c]]
  <2>1. getRootOfJoinTree(set, b) = R[b]
    BY RootIs
  <2> QED
    BY <2>1 DEF compressed
<1>2. \A c \in W : R[c] = R[b]
  BY RootIs
<1>3. set \in [DOMAIN set -> [root_id : DOMAIN set, tree : Nat]] /\ R[b] \in DOMAIN set
  BY DEF ForestOK
<1> HIDE DEF new, W
<1>4. \A c \in DOMAIN set : /\ new[c] \in [root_id : DOMAIN set, tree : Nat]
                            /\ new[c].tree = set[c].tree
                            /\ new[c].root_id \in {set[c].root_id, R[c]}
  <2> SUFFICES ASSUME NEW c \in DOMAIN set
               PROVE  /\ new[c] \in [root_id : DOMAIN set, tree : Nat]
                      /\ new[c].tree = set[c].tree
                      /\ new[c].root_id \in {set[c].root_id, R[c]}
    OBVIOUS
  <2>1. set[c] \in [root_id : DOMAIN set, tree : Nat]
    BY <1>3
  <2>2. CASE c \in W
    <3>1. new[c] = [set[c] EXCEPT !.root_id = R[b]]
      BY <1>1, <2>2
    <3>2. R[c] = R[b]
      BY <1>2, <2>2
    <3> QED
      BY <1>3, <2>1, <3>1, <3>2
  <2>3. CASE c \notin W
    <3>1. new[c] = set[c]
      BY <1>1, <2>3
    <3> QED
      BY <2>1, <3>1
  <2> QED
    BY <2>2, <2>3
<1>5. new \in [DOMAIN set -> [root_id : DOMAIN set, tree : Nat]] /\ DOMAIN new = DOMAIN set
  BY <1>1, <1>4
<1>6. ForestOK(new, R, d)
  BY <1>4, <1>5, Reparented
<1> QED
  BY <1>4, <1>5, <1>6 DEF new

\* A function with one more argument.
With(f, b, x) == [c \in DOMAIN f \cup {b} |-> IF c = b THEN x ELSE f[c]]

\* A new binding is a tree of its own.
LEMMA NodeAdded ==
    ASSUME NEW set, NEW R, NEW d, ForestOK(set, R, d), NEW b, b \notin DOMAIN set, NEW t \in Nat
    PROVE  ForestOK(With(set, b, [root_id |-> b, tree |-> t]), With(R, b, b), With(d, b, 0))
<1> DEFINE U == DOMAIN set
           V == U \cup {b}
           new == With(set, b, [root_id |-> b, tree |-> t])
           Q == With(R, b, b)
           e == With(d, b, 0)
<1>1. DOMAIN R = U /\ DOMAIN d = U
  BY DEF ForestOK
<1>2. /\ DOMAIN new = V /\ new[b] = [root_id |-> b, tree |-> t] /\ Q[b] = b /\ e[b] = 0
      /\ \A c \in U : new[c] = set[c] /\ Q[c] = R[c] /\ e[c] = d[c]
  BY <1>1 DEF With
<1>3. IsFiniteSet(V)
  BY FS_AddElement DEF ForestOK
<1>4. \A c \in U : /\ set[c] \in [root_id : U, tree : Nat] /\ R[c] \in U /\ d[c] \in Nat
                   /\ set[c].root_id \in U
  BY DEF ForestOK
<1>5. \A c \in V : new[c] \in [root_id : V, tree : Nat] /\ Q[c] \in V /\ e[c] \in Nat
  BY <1>2, <1>4
<1>6. Children(new) = Children(set)
  <2> HIDE DEF new
  <2> QED
    BY <1>2 DEF Children
<1>7. \A c \in U : /\ set[R[c]].root_id = R[c] /\ R[set[c].root_id] = R[c]
                   /\ d[c] <= Cardinality(Children(set))
                   /\ IF set[c].root_id = c THEN R[c] = c /\ d[c] = 0
                                            ELSE d[set[c].root_id] < d[c]
  BY DEF ForestOK
<1>8. Cardinality(Children(set)) \in Nat
  <2>1. Children(set) \subseteq DOMAIN set /\ IsFiniteSet(DOMAIN set)
    BY DEF Children, ForestOK
  <2> QED
    BY <2>1, FS_Subset, FS_CardinalityType
<1>9. new \in [V -> [root_id : V, tree : Nat]] /\ Q \in [V -> V] /\ e \in [V -> Nat]
  <2>1. new = [c \in V |-> new[c]] /\ Q = [c \in V |-> Q[c]] /\ e = [c \in V |-> e[c]]
    BY <1>1, Zenon DEF With
  <2> HIDE DEF new, Q, e, V
  <2> QED
    BY <1>5, <2>1, Zenon
<1> HIDE DEF new, Q, e
<1>10. \A c \in V : /\ new[Q[c]].root_id = Q[c] /\ Q[new[c].root_id] = Q[c]
                    /\ e[c] <= Cardinality(Children(new))
                    /\ IF new[c].root_id = c THEN Q[c] = c /\ e[c] = 0
                                             ELSE e[new[c].root_id] < e[c]
  <2> SUFFICES ASSUME NEW c \in V
               PROVE  /\ new[Q[c]].root_id = Q[c] /\ Q[new[c].root_id] = Q[c]
                      /\ e[c] <= Cardinality(Children(new))
                      /\ IF new[c].root_id = c THEN Q[c] = c /\ e[c] = 0
                                               ELSE e[new[c].root_id] < e[c]
    OBVIOUS
  <2>1. CASE c = b
    BY <1>2, <1>6, <1>8, <2>1
  <2>2. CASE c \in U
    <3>1. new[c] = set[c] /\ Q[c] = R[c] /\ e[c] = d[c] /\ set[c].root_id \in U /\ R[c] \in U
      BY <1>2, <1>4, <2>2
    <3>2. new[R[c]] = set[R[c]] /\ Q[set[c].root_id] = R[set[c].root_id]
          /\ e[set[c].root_id] = d[set[c].root_id]
      BY <1>2, <3>1
    <3> QED
      BY <1>6, <1>7, <2>2, <3>1, <3>2
  <2> QED
    BY <2>1, <2>2
<1>11. ForestOK(new, Q, e)
  BY <1>2, <1>3, <1>9, <1>10 DEF ForestOK
<1> QED
  BY <1>11 DEF new, Q, e

\* The root l becomes a child of the root r.
United(set, l, r, t) == [set EXCEPT ![l].tree = null, ![l].root_id = r, ![r].tree = t]
Renamed(R, l, r) == [c \in DOMAIN R |-> IF R[c] = l THEN r ELSE R[c]]
Deeper(d, R, l) == [c \in DOMAIN R |-> IF R[c] = l THEN d[c] + 1 ELSE d[c]]

\* Two roots become one.
LEMMA RootsUnited ==
    ASSUME NEW set, NEW R, NEW d, ForestOK(set, R, d),
           NEW l \in DOMAIN set, NEW r \in DOMAIN set, l # r, R[l] = l, R[r] = r, NEW t \in Nat
    PROVE  ForestOK(United(set, l, r, t), Renamed(R, l, r), Deeper(d, R, l))
<1> DEFINE U == DOMAIN set
           new == United(set, l, r, t)
           Q == Renamed(R, l, r)
           e == Deeper(d, R, l)
<1>1. set \in [U -> [root_id : U, tree : Nat]] /\ R \in [U -> U] /\ d \in [U -> Nat]
  BY DEF ForestOK
<1>2. new \in [U -> [root_id : U, tree : Nat]]
  BY <1>1 DEF null, United
<1>3. \A c \in U : new[c].root_id = IF c = l THEN r ELSE set[c].root_id
  <2> SUFFICES ASSUME NEW c \in U
               PROVE  new[c].root_id = IF c = l THEN r ELSE set[c].root_id
    OBVIOUS
  <2>1. set[c] \in [root_id : U, tree : Nat]
    BY <1>1
  <2>2. CASE c = l
    BY <1>1, <2>1, <2>2 DEF United
  <2>3. CASE c = r
    <3>1. new[c] = [set[c] EXCEPT !.tree = t]
      BY <1>1, <2>3 DEF United
    <3> QED
      BY <2>1, <2>3, <3>1
  <2>4. CASE c # l /\ c # r
    BY <1>1, <2>4 DEF United
  <2> QED
    BY <2>2, <2>3, <2>4
<1>4. Q \in [U -> U] /\ e \in [U -> Nat]
  BY <1>1 DEF Renamed, Deeper
<1>5. \A c \in U : /\ Q[c] = IF R[c] = l THEN r ELSE R[c]
                   /\ e[c] = IF R[c] = l THEN d[c] + 1 ELSE d[c]
  BY <1>1 DEF Renamed, Deeper
<1>6. \A c \in U : /\ set[R[c]].root_id = R[c] /\ R[set[c].root_id] = R[c]
                   /\ d[c] <= Cardinality(Children(set)) /\ d[c] \in Nat
                   /\ set[c].root_id \in U /\ R[c] \in U
                   /\ IF set[c].root_id = c THEN R[c] = c /\ d[c] = 0
                                            ELSE d[set[c].root_id] < d[c]
  BY <1>1 DEF ForestOK
<1>7. set[l].root_id = l /\ set[r].root_id = r
  BY <1>6
<1>8. DOMAIN new = U
  BY <1>2
<1> HIDE DEF new, Q, e
<1>9. Children(new) = Children(set) \cup {l} /\ l \notin Children(set)
  BY <1>3, <1>7, <1>8 DEF Children
<1>10. /\ Cardinality(Children(set)) \in Nat
       /\ Cardinality(Children(new)) = Cardinality(Children(set)) + 1
  <2>1. Children(set) \subseteq DOMAIN set /\ IsFiniteSet(DOMAIN set)
    BY DEF Children, ForestOK
  <2>2. IsFiniteSet(Children(set))
    BY <2>1, FS_Subset
  <2> QED
    BY <1>9, <2>2, FS_CardinalityType, FS_AddElement
<1> HIDE DEF U
<1>11. ASSUME NEW c \in U
       PROVE  /\ new[Q[c]].root_id = Q[c] /\ Q[new[c].root_id] = Q[c]
              /\ e[c] <= Cardinality(Children(new))
              /\ IF new[c].root_id = c THEN Q[c] = c /\ e[c] = 0
                                       ELSE e[new[c].root_id] < e[c]
  <2>1. l \in U /\ r \in U /\ R[R[c]] = R[c]
    BY <1>6 DEF U
  <2>2. new[Q[c]].root_id = Q[c]
    BY <1>3, <1>5, <1>6, <1>7, <2>1
  <2>3. Q[new[c].root_id] = Q[c]
    BY <1>3, <1>5, <1>6, <1>7, <2>1
  <2>4. e[c] <= Cardinality(Children(new))
    BY <1>5, <1>6, <1>10
  <2>5. IF new[c].root_id = c THEN Q[c] = c /\ e[c] = 0 ELSE e[new[c].root_id] < e[c]
    <3>1. CASE c = l
      <4>1. new[c].root_id = r /\ e[r] = d[r] /\ e[c] = d[c] + 1 /\ d[r] = 0 /\ d[c] = 0
        BY <1>3, <1>5, <1>6, <1>7, <2>1, <3>1
      <4> QED
        BY <3>1, <4>1
    <3>2. CASE c # l
      <4>1. new[c].root_id = set[c].root_id /\ R[set[c].root_id] = R[c] /\ set[c].root_id \in U
        BY <1>3, <1>6, <3>2
      <4>2. CASE set[c].root_id = c
        BY <1>5, <1>6, <3>2, <4>1, <4>2
      <4>3. CASE set[c].root_id # c
        <5>1. d[set[c].root_id] < d[c] /\ d[c] \in Nat /\ d[set[c].root_id] \in Nat
          BY <1>6, <4>1, <4>3
        <5> QED
          BY <1>5, <4>1, <4>3, <5>1
      <4> QED
        BY <4>2, <4>3
    <3> QED
      BY <3>1, <3>2
  <2> QED
    BY <2>2, <2>3, <2>4, <2>5
<1>12. ForestOK(new, Q, e)
  <2>1. IsFiniteSet(DOMAIN new)
    BY <1>8 DEF ForestOK, U
  <2> QED
    BY <1>2, <1>4, <1>8, <1>11, <2>1 DEF ForestOK
<1> QED
  BY <1>12 DEF new, Q, e, U

-----------------------------------------------------------------------------
(* Queries and operators                                                   *)

\* The members of a sequence say what it is a sequence of.
LEMMA SeqToo ==
    ASSUME NEW X, NEW Y, NEW s \in Seq(X), ToSet(s) \subseteq Y
    PROVE  s \in Seq(Y)
<1>1. DOMAIN s = 1..Len(s) /\ Len(s) \in Nat /\ s = [k \in 1..Len(s) |-> s[k]]
  OBVIOUS
<1>2. \A k \in 1..Len(s) : s[k] \in Y
  BY <1>1 DEF ToSet
<1> QED
  BY <1>1, <1>2

\* The conditions of a query are its filters and its predicates.
LEMMA QueryOK ==
    ASSUME NEW q \in Queries
    PROVE  /\ Joins(q) \in Seq(Predicate(q)) /\ Constants(q) \in Seq(Filter(q))
           /\ \A c \in ToSet(q.conditions) : IF isConstant(c) THEN c \in ToSet(Constants(q))
                                                              ELSE c \in ToSet(Joins(q))
           /\ \A c \in ToSet(Constants(q)) : c \in ToSet(q.conditions) /\ isConstant(c)
           /\ \A c \in ToSet(Joins(q)) : c \in ToSet(q.conditions) /\ ~isConstant(c)
<1> DEFINE X == Filter(q) \cup Predicate(q)
           s == q.conditions
           con == {c \in ToSet(s) : isConstant(c)}
           join == {c \in ToSet(s) : ~isConstant(c)}
<1>1. s \in Seq(X)
  BY QueriesAssumption
<1>2. \A c \in X : (c \in Filter(q) <=> isConstant(c)) /\ (c \in Predicate(q) <=> ~isConstant(c))
  <2>1. \A c \in Filter(q) : DOMAIN c = {"left", "comparison", "constant"}
    BY DEF Filter
  <2>2. \A c \in Predicate(q) : DOMAIN c = {"left", "right"}
    BY DEF Predicate
  <2> QED
    BY <2>1, <2>2 DEF isConstant
<1>3. ToSet(s) \subseteq X
  BY <1>1 DEF ToSet
<1>4. /\ Constants(q) \in Seq(X) /\ ToSet(Constants(q)) = ToSet(s) \cap con
      /\ Joins(q) \in Seq(X) /\ ToSet(Joins(q)) = ToSet(s) \cap join
  <2> HIDE DEF X, con, join, s
  <2>1. Constants(q) = Those(s, con) /\ Joins(q) = Those(s, join)
    BY DEF Constants, Joins, con, join, s
  <2> QED
    BY <1>1, <2>1, ThoseOK
<1> HIDE DEF X, s
<1>5. ToSet(Constants(q)) \subseteq Filter(q) /\ ToSet(Joins(q)) \subseteq Predicate(q)
  BY <1>2, <1>3, <1>4
<1>6. Joins(q) \in Seq(Predicate(q)) /\ Constants(q) \in Seq(Filter(q))
  <2> DEFINE J == Joins(q)
             C == Constants(q)
             P == Predicate(q)
             F == Filter(q)
  <2>1. J \in Seq(X) /\ C \in Seq(X) /\ ToSet(J) \subseteq P /\ ToSet(C) \subseteq F
    BY <1>4, <1>5
  <2> HIDE DEF J, C, P, F
  <2>2. J \in Seq(P)
    BY <2>1, SeqToo
  <2>3. C \in Seq(F)
    BY <2>1, SeqToo
  <2> QED
    BY <2>2, <2>3 DEF J, C, P, F
<1> QED
  BY <1>3, <1>4, <1>6 DEF s

\* The operators of a query, and their inputs.
Op(q) == [type : {"Scan"}, binding : Bindings(q), filters : Seq(Filter(q))]
    \cup [type : {"Join"}, left : Nat, right : Nat, pInfo : Predicate(q)]
    \cup [type : {"SelfJoin"}, input : Nat, pInfo : Predicate(q)]

scanOf(b, filters) == [type |-> "Scan", binding |-> b, filters |-> filters]
joinOf(left, right, p) == [type |-> "Join", left |-> left, right |-> right, pInfo |-> p]
selfJoinOf(input, p) == [type |-> "SelfJoin", input |-> input, pInfo |-> p]

\* B[o] are the bindings and T[o] the predicates of operator o and of those
\* below.
OpOK(q, ops, B, T, o) ==
    LET op == ops[o]
    IN  /\ inputs(op) \subseteq 1..o - 1
        /\ op.type = "Scan" =>
              /\ B[o] = {op.binding} /\ T[o] = {}
              /\ ToSet(op.filters) = {f \in ToSet(Constants(q)) : f.left.binding = op.binding}
        /\ op.type = "Join" =>
              /\ op.left # op.right /\ B[op.left] \cap B[op.right] = {}
              /\ op.pInfo.left.binding \in B[op.left] /\ op.pInfo.right.binding \in B[op.right]
              /\ B[o] = B[op.left] \cup B[op.right]
              /\ T[o] = T[op.left] \cup T[op.right] \cup {op.pInfo}
        /\ op.type = "SelfJoin" =>
              /\ {op.pInfo.left.binding, op.pInfo.right.binding} \subseteq B[op.input]
              /\ B[o] = B[op.input]
              /\ T[o] = T[op.input] \cup {op.pInfo}
        /\ \A p \in T[o] : {p.left.binding, p.right.binding} \subseteq B[o]

\* Operators have different inputs, of different bindings.
WiredOK(q, ops, B, T) ==
    /\ ops \in Seq(Op(q))
    /\ B \in [1..Len(ops) -> SUBSET Bindings(q)]
    /\ T \in [1..Len(ops) -> SUBSET Predicate(q)]
    /\ \A o \in 1..Len(ops) : OpOK(q, ops, B, T, o)
    /\ \A o, x \in 1..Len(ops) : o # x => inputs(ops[o]) \cap inputs(ops[x]) = {}

\* An operator has one of three types.
LEMMA OpTypes ==
    ASSUME NEW q, NEW op \in Op(q)
    PROVE  \/ /\ op.type = "Scan" /\ inputs(op) = {}
              /\ op.binding \in Bindings(q) /\ op.filters \in Seq(Filter(q))
           \/ /\ op.type = "Join" /\ inputs(op) = {op.left, op.right} /\ op.pInfo \in Predicate(q)
           \/ /\ op.type = "SelfJoin" /\ inputs(op) = {op.input} /\ op.pInfo \in Predicate(q)
<1>1. CASE op \in [type : {"Scan"}, binding : Bindings(q), filters : Seq(Filter(q))]
  BY <1>1 DEF inputs
<1>2. CASE op \in [type : {"Join"}, left : Nat, right : Nat, pInfo : Predicate(q)]
  BY <1>2 DEF inputs
<1>3. CASE op \in [type : {"SelfJoin"}, input : Nat, pInfo : Predicate(q)]
  BY <1>3 DEF inputs
<1> QED
  BY <1>1, <1>2, <1>3 DEF Op

\* What an operator supplies is what the operators below it do.
LEMMA SuppliesIs ==
    ASSUME NEW q, NEW B, NEW T, WiredOK(q, operators, B, T)
    PROVE  supplies = B
<1> DEFINE n == Len(operators)
           Of(f, o) == IF operators[o].type = "Scan" THEN {operators[o].binding}
                       ELSE UNION {f[input] : input \in inputs(operators[o])}
           IsIt(f) == f = [o \in DOMAIN operators |->
                             IF operators[o].type = "Scan" THEN {operators[o].binding}
                             ELSE UNION {f[input] : input \in inputs(operators[o])}]
           below == CHOOSE f : IsIt(f)
<1>1. n \in Nat /\ DOMAIN operators = 1..n /\ \A o \in 1..n : operators[o] \in Op(q)
  BY DEF WiredOK
<1>2. ASSUME NEW o \in 1..n PROVE B[o] = Of(B, o)
  <2> DEFINE op == operators[o]
  <2>1. OpOK(q, operators, B, T, o) /\ op \in Op(q)
    BY <1>1 DEF WiredOK
  <2>2. CASE op.type = "Scan"
    BY <2>1, <2>2 DEF OpOK
  <2>3. CASE op.type = "Join" /\ inputs(op) = {op.left, op.right}
    BY <2>1, <2>3 DEF OpOK
  <2>4. CASE op.type = "SelfJoin" /\ inputs(op) = {op.input}
    BY <2>1, <2>4 DEF OpOK
  <2> HIDE DEF op
  <2> QED
    BY <2>1, <2>2, <2>3, <2>4, OpTypes
<1>3. B = [o \in DOMAIN operators |-> B[o]]
  BY <1>1, Zenon DEF WiredOK
<1>4. IsIt(B)
  <2>1. B = [o \in DOMAIN operators |-> Of(B, o)]
    <3> HIDE DEF Of
    <3> QED
      BY <1>1, <1>2, <1>3, Zenon
  <2> QED
    BY <2>1
<1>5. IsIt(below)
  <2> HIDE DEF IsIt
  <2> QED
    BY <1>4, Zenon
<1>6. supplies = below
  BY Zenon DEF supplies
<1> HIDE DEF below
<1>7. below = [o \in DOMAIN operators |-> Of(below, o)]
  BY <1>5
<1>8. \A o \in 1..n : below[o] = Of(below, o)
  <2> HIDE DEF Of
  <2> QED
    BY <1>1, <1>7, Zenon
<1>9. below = [o \in DOMAIN operators |-> below[o]]
  <2> HIDE DEF Of
  <2> QED
    BY <1>1, <1>7, <1>8, Zenon
<1> HIDE DEF IsIt
<1> DEFINE S == {k \in 0..n : \A j \in 1..k : below[j] = B[j]}
<1>10. 0 \in S
  BY <1>1
<1>11. \A k \in 0..n - 1 : k \in S => k + 1 \in S
  <2> SUFFICES ASSUME NEW k \in 0..n - 1, k \in S PROVE k + 1 \in S
    OBVIOUS
  <2>1. k + 1 \in 1..n /\ k + 1 \in 0..n /\ 1..k + 1 = (1..k) \cup {k + 1}
    BY <1>1
  <2> DEFINE o == k + 1
             op == operators[o]
  <2>2. \A j \in 1..k : below[j] = B[j]
    OBVIOUS
  <2>3. inputs(op) \subseteq 1..k
    <3>1. inputs(op) \subseteq 1..o - 1
      BY <2>1 DEF WiredOK, OpOK
    <3> QED
      BY <3>1
  <2>4. below[o] = Of(below, o) /\ B[o] = Of(B, o)
    <3> HIDE DEF Of
    <3> QED
      BY <1>2, <1>8, <2>1
  <2>5. Of(below, o) = Of(B, o)
    <3>1. \A input \in inputs(op) : below[input] = B[input]
      BY <2>2, <2>3
    <3>2. {below[input] : input \in inputs(op)} = {B[input] : input \in inputs(op)}
      BY <3>1, Zenon
    <3> QED
      BY <3>2
  <2>6. below[o] = B[o]
    BY <2>4, <2>5, Zenon
  <2> QED
    BY <2>1, <2>2, <2>6
<1>12. \A j \in 1..n : below[j] = B[j]
  <2> HIDE DEF S
  <2>1. \A k \in 0..n : k \in S
    BY <1>1, <1>10, <1>11, UpTo
  <2>2. n \in S
    BY <1>1, <2>1
  <2> QED
    BY <2>2 DEF S
<1> QED
  BY <1>1, <1>3, <1>6, <1>9, <1>12, Zenon

-----------------------------------------------------------------------------
(* The plan                                                                *)

\* The root of each tree has an operator that is nobody's input, for exactly
\* the bindings of its tree; the others have none.
Trees(set, ops, R, B) ==
    \A b \in DOMAIN set :
        IF R[b] # b THEN set[b].tree = null
        ELSE /\ set[b].tree \in 1..Len(ops)
             /\ B[set[b].tree] = {c \in DOMAIN set : R[c] = b}
             /\ \A o \in 1..Len(ops) : set[b].tree \notin inputs(ops[o])

\* Both sides of a predicate are in one tree, whose operator has it.
Kept(set, R, T, taken) ==
    \A p \in taken : /\ p.left.binding \in DOMAIN set /\ p.right.binding \in DOMAIN set
                     /\ R[p.left.binding] = R[p.right.binding]
                     /\ p \in T[set[R[p.left.binding]].tree]

\* A set of bindings that no predicate leaves.
Closed(taken, S) == \A p \in taken : p.left.binding \in S <=> p.right.binding \in S

\* Trees have no more bindings than the predicates connect.
Tight(set, R, taken) ==
    \A S : Closed(taken, S) => \A b, c \in DOMAIN set : R[b] = R[c] /\ b \in S => c \in S

\* The operators have no other predicates.
Used(ops, T, taken) == \A o \in 1..Len(ops) : T[o] \subseteq taken

\* All that holds of the trees.
TreesOK(set, ops, R, B, T, taken) ==
    Trees(set, ops, R, B) /\ Kept(set, R, T, taken) /\ Tight(set, R, taken) /\ Used(ops, T, taken)

\* A plan for the predicates taken, as the fields of R, d, B and T describe it.
Plan(q, p, taken, R, d, B, T) ==
    /\ p = [disjoint_set |-> p.disjoint_set, operators |-> p.operators]
    /\ DOMAIN p.disjoint_set \subseteq Bindings(q)
    /\ ForestOK(p.disjoint_set, R, d)
    /\ WiredOK(q, p.operators, B, T)
    /\ TreesOK(p.disjoint_set, p.operators, R, B, T, taken)

PlanOK(q, p, taken) == \E R, d, B, T : Plan(q, p, taken, R, d, B, T)

\* A function of the operators, with the value for one more.
Grown(f, j, x) == [o \in 1..j |-> IF o = j THEN x ELSE f[o]]

\* One more operator.
LEMMA Wired ==
    ASSUME NEW q, NEW ops, NEW B, NEW T, WiredOK(q, ops, B, T), NEW op \in Op(q),
           NEW bindings \in SUBSET Bindings(q), NEW predicates \in SUBSET Predicate(q),
           \A o \in 1..Len(ops) : inputs(ops[o]) \cap inputs(op) = {}
    PROVE  LET j == Len(ops) + 1
               more == Append(ops, op)
               C == Grown(B, j, bindings)
               V == Grown(T, j, predicates)
           IN  OpOK(q, more, C, V, j) => WiredOK(q, more, C, V)
<1> DEFINE n == Len(ops)
           j == n + 1
           more == Append(ops, op)
           C == Grown(B, j, bindings)
           V == Grown(T, j, predicates)
<1> SUFFICES ASSUME OpOK(q, more, C, V, j) PROVE WiredOK(q, more, C, V)
  OBVIOUS
<1>1. n \in Nat /\ ops \in Seq(Op(q))
  BY DEF WiredOK
<1>2. /\ more \in Seq(Op(q)) /\ Len(more) = j /\ more[j] = op
      /\ \A o \in 1..n : more[o] = ops[o]
  BY <1>1
<1>3. /\ \A o \in 1..n : C[o] = B[o] /\ V[o] = T[o]
      /\ C \in [1..j -> SUBSET Bindings(q)] /\ V \in [1..j -> SUBSET Predicate(q)]
  BY <1>1 DEF WiredOK, Grown
<1>4. 1..j = (1..n) \cup {j} /\ j \notin 1..n
  BY <1>1
<1>5. ASSUME NEW o \in 1..n PROVE OpOK(q, more, C, V, o)
  <2>1. OpOK(q, ops, B, T, o) /\ ops[o] \in Op(q) /\ more[o] = ops[o] /\ C[o] = B[o] /\ V[o] = T[o]
    BY <1>1, <1>2, <1>3 DEF WiredOK
  <2> DEFINE x == ops[o]
  <2>2. inputs(x) \subseteq 1..n
    BY <1>1, <2>1 DEF OpOK
  <2>3. \A input \in inputs(x) : C[input] = B[input] /\ V[input] = T[input]
    BY <1>3, <2>2
  <2> HIDE DEF more, C, V
  <2>4. CASE x.type = "Scan"
    BY <2>1, <2>4 DEF OpOK
  <2>5. CASE x.type = "Join" /\ inputs(x) = {x.left, x.right}
    BY <2>1, <2>3, <2>5 DEF OpOK
  <2>6. CASE x.type = "SelfJoin" /\ inputs(x) = {x.input}
    BY <2>1, <2>3, <2>6 DEF OpOK
  <2> HIDE DEF x
  <2>7. x \in Op(q)
    BY <2>1 DEF x
  <2> QED
    BY <2>4, <2>5, <2>6, <2>7, OpTypes
<1>6. \A o, x \in 1..j : o # x => inputs(more[o]) \cap inputs(more[x]) = {}
  <2>1. \A o, x \in 1..n : o # x => inputs(ops[o]) \cap inputs(ops[x]) = {}
    BY DEF WiredOK
  <2> HIDE DEF more, j
  <2> QED
    BY <1>2, <1>4, <2>1
<1> HIDE DEF more, C, V
<1> QED
  BY <1>2, <1>3, <1>4, <1>5, <1>6 DEF WiredOK

\* The trees are those of the roots: the operators of two roots are different.
LEMMA RootsApart ==
    ASSUME NEW set, NEW ops, NEW R, NEW B, Trees(set, ops, R, B),
           NEW b \in DOMAIN set, NEW c \in DOMAIN set, R[b] = b, R[c] = c, b # c
    PROVE  set[b].tree # set[c].tree /\ B[set[b].tree] \cap B[set[c].tree] = {}
BY DEF Trees

\* Two trees become one, under a join for a predicate between them.
LEMMA TreesUnited ==
    ASSUME NEW q, NEW set, NEW ops, NEW R, NEW d, NEW B, NEW T, NEW taken, NEW pInfo \in Predicate(q),
           ForestOK(set, R, d), WiredOK(q, ops, B, T), TreesOK(set, ops, R, B, T, taken),
           pInfo.left.binding \in DOMAIN set, pInfo.right.binding \in DOMAIN set,
           R[pInfo.left.binding] # R[pInfo.right.binding]
    PROVE  LET l == R[pInfo.left.binding]
               r == R[pInfo.right.binding]
               j == Len(ops) + 1
               op == joinOf(set[l].tree, set[r].tree, pInfo)
               more == Append(ops, op)
               new == United(set, l, r, j)
               Q == Renamed(R, l, r)
               C == Grown(B, j, B[op.left] \cup B[op.right])
               V == Grown(T, j, T[op.left] \cup T[op.right] \cup {pInfo})
           IN  WiredOK(q, more, C, V) /\ TreesOK(new, more, Q, C, V, taken \cup {pInfo})
<1> DEFINE U == DOMAIN set
           n == Len(ops)
           j == n + 1
           pl == pInfo.left.binding
           pr == pInfo.right.binding
           l == R[pl]
           r == R[pr]
           lt == set[l].tree
           rt == set[r].tree
           op == joinOf(lt, rt, pInfo)
           more == Append(ops, op)
           new == United(set, l, r, j)
           Q == Renamed(R, l, r)
           bindings == B[lt] \cup B[rt]
           predicates == T[lt] \cup T[rt] \cup {pInfo}
           C == Grown(B, j, bindings)
           V == Grown(T, j, predicates)
<1>1. n \in Nat /\ ops \in Seq(Op(q))
  BY DEF WiredOK
<1>2. /\ l \in U /\ r \in U /\ l # r /\ R[l] = l /\ R[r] = r /\ pl \in U /\ pr \in U
      /\ \A c \in U : R[c] \in U /\ R[R[c]] = R[c] /\ set[c] \in [root_id : U, tree : Nat]
  BY DEF ForestOK
<1>3. Trees(set, ops, R, B) /\ Kept(set, R, T, taken) /\ Tight(set, R, taken) /\ Used(ops, T, taken)
  BY DEF TreesOK
<1>4. lt # rt /\ B[lt] \cap B[rt] = {}
  <2> HIDE DEF l, r
  <2> QED
    BY <1>2, <1>3, RootsApart
<1>5. /\ lt \in 1..n /\ rt \in 1..n
      /\ B[lt] = {c \in U : R[c] = l} /\ B[rt] = {c \in U : R[c] = r}
      /\ \A o \in 1..n : lt \notin inputs(ops[o]) /\ rt \notin inputs(ops[o])
  BY <1>2, <1>3 DEF Trees
<1>6. B[lt] \in SUBSET Bindings(q) /\ B[rt] \in SUBSET Bindings(q)
      /\ T[lt] \in SUBSET Predicate(q) /\ T[rt] \in SUBSET Predicate(q)
  BY <1>5 DEF WiredOK
<1>7. op \in Op(q) /\ inputs(op) = {lt, rt} /\ op.type = "Join"
  <2>1. lt \in Nat /\ rt \in Nat
    BY <1>1, <1>5
  <2> QED
    BY <2>1 DEF Op, inputs, joinOf, selfJoinOf
<1>8. /\ more[j] = op /\ Len(more) = j /\ 1..j = (1..n) \cup {j} /\ j \notin 1..n
      /\ \A o \in 1..n : more[o] = ops[o]
  BY <1>1, <1>7, SMTT(30)
<1>9. /\ C[j] = bindings /\ V[j] = predicates
      /\ \A o \in 1..n : C[o] = B[o] /\ V[o] = T[o]
  BY <1>8, ZenonT(30) DEF Grown
<1>10. OpOK(q, more, C, V, j)
  <2>1. OpOK(q, ops, B, T, lt) /\ OpOK(q, ops, B, T, rt)
    BY <1>5, SMTT(30) DEF WiredOK
  <2>2. \A p \in T[lt] : {p.left.binding, p.right.binding} \subseteq B[lt]
    BY <2>1, ZenonT(30) DEF OpOK
  <2>3. \A p \in T[rt] : {p.left.binding, p.right.binding} \subseteq B[rt]
    BY <2>1, ZenonT(30) DEF OpOK
  <2>4. pl \in B[lt] /\ pr \in B[rt]
    BY <1>2, <1>5, ZenonT(30)
  <2>5. \A p \in V[j] : {p.left.binding, p.right.binding} \subseteq C[j]
    <3> SUFFICES ASSUME NEW p \in V[j] PROVE {p.left.binding, p.right.binding} \subseteq C[j]
      BY ZenonT(30)
    <3>1. p \in T[lt] \/ p \in T[rt] \/ p = pInfo
      BY <1>9, ZenonT(30)
    <3>2. C[j] = B[lt] \cup B[rt]
      BY <1>9, ZenonT(30)
    <3> HIDE DEF C, V
    <3> QED
      BY <2>2, <2>3, <2>4, <3>1, <3>2, ZenonT(30)
  <2>6. inputs(op) \subseteq 1..j - 1 /\ C[lt] = B[lt] /\ C[rt] = B[rt] /\ V[lt] = T[lt] /\ V[rt] = T[rt]
    <3>1. 1..j - 1 = 1..n
      BY <1>1
    <3> HIDE DEF C, V, op, lt, rt, n, j
    <3> QED
      BY <1>5, <1>7, <1>9, <3>1
  <2>7. /\ op.left = lt /\ op.right = rt /\ op.pInfo = pInfo /\ op.type = "Join"
    BY DEF joinOf
  <2> HIDE DEF more, C, V, op, j, lt, rt
  <2> QED
    BY <1>4, <1>7, <1>8, <1>9, <2>4, <2>5, <2>6, <2>7, SMTT(30) DEF OpOK
<1>11. WiredOK(q, more, C, V)
  <2>1. bindings \in SUBSET Bindings(q) /\ predicates \in SUBSET Predicate(q)
    BY <1>6, SMTT(30)
  <2>2. \A o \in 1..n : inputs(ops[o]) \cap inputs(op) = {}
    BY <1>5, <1>7, SMTT(30)
  <2> HIDE DEF op, bindings, predicates
  <2> QED
    BY <1>7, <1>10, <2>1, <2>2, Wired DEF C, V, more, j, n
<1>12. /\ DOMAIN new = U /\ new[l].tree = null /\ new[r].tree = j
       /\ \A c \in U : c # l /\ c # r => new[c].tree = set[c].tree
  <2>1. set[l] \in [root_id : U, tree : Nat] /\ set[r] \in [root_id : U, tree : Nat]
    BY <1>2, SMTT(30)
  <2>2. new[r] = [set[r] EXCEPT !.tree = j]
    BY <1>2 DEF United
  <2> QED
    BY <1>2, <2>1, <2>2, ZenonT(30) DEF United
<1>13. \A c \in U : Q[c] = IF R[c] = l THEN r ELSE R[c]
  BY DEF Renamed, ForestOK
<1> HIDE DEF more, new, Q, C, V
<1>14. Trees(new, more, Q, C)
  <2> SUFFICES ASSUME NEW b \in U
               PROVE  IF Q[b] # b THEN new[b].tree = null
                      ELSE /\ new[b].tree \in 1..j
                           /\ C[new[b].tree] = {c \in U : Q[c] = b}
                           /\ \A o \in 1..j : new[b].tree \notin inputs(more[o])
    BY <1>8, <1>12, ZenonT(30) DEF Trees
  <2>1. CASE b = l
    BY <1>2, <1>12, <1>13, <2>1
  <2>2. CASE b = r
    <3>1. Q[b] = b /\ new[b].tree = j /\ j \in 1..j
      BY <1>2, <1>8, <1>12, <1>13, <2>2
    <3>2. C[j] = {c \in U : Q[c] = b}
      BY <1>2, <1>5, <1>9, <1>13, <2>2
    <3>3. \A o \in 1..n : j \notin inputs(more[o])
      <4>1. \A o \in 1..n : inputs(ops[o]) \subseteq 1..o - 1
        BY SMTT(30) DEF WiredOK, OpOK
      <4> QED
        BY <1>1, <1>8, <4>1
    <3>4. j \notin inputs(more[j])
      BY <1>5, <1>7, <1>8, ZenonT(30)
    <3> QED
      BY <1>8, <3>1, <3>2, <3>3, <3>4
  <2>3. CASE b # l /\ b # r
    <3>1. new[b].tree = set[b].tree
      BY <1>12, <2>3
    <3>2. Q[b] = b <=> R[b] = b
      BY <1>2, <1>13, <2>3
    <3>3. CASE R[b] # b
      BY <1>3, <3>1, <3>2, <3>3 DEF Trees
    <3>4. CASE R[b] = b
      <4>1. /\ set[b].tree \in 1..n /\ B[set[b].tree] = {c \in U : R[c] = b}
            /\ \A o \in 1..n : set[b].tree \notin inputs(ops[o])
        BY <1>3, <3>4 DEF Trees
      <4>2. {c \in U : R[c] = b} = {c \in U : Q[c] = b}
        BY <1>2, <1>13, <2>3, ZenonT(30)
      <4>3. set[b].tree # lt /\ set[b].tree # rt
        <5> HIDE DEF l, r
        <5> QED
          BY <1>2, <1>3, <2>3, <3>4, RootsApart
      <4> HIDE DEF op, lt, rt
      <4> QED
        BY <1>7, <1>8, <1>9, <3>1, <3>2, <3>4, <4>1, <4>2, <4>3, SMTT(30)
    <3> QED
      BY <3>3, <3>4
  <2> QED
    BY <2>1, <2>2, <2>3
<1>15. Kept(new, Q, V, taken \cup {pInfo})
  <2> SUFFICES ASSUME NEW p \in taken \cup {pInfo}
               PROVE  /\ p.left.binding \in U /\ p.right.binding \in U
                      /\ Q[p.left.binding] = Q[p.right.binding]
                      /\ p \in V[new[Q[p.left.binding]].tree]
    BY <1>12, Zenon DEF Kept
  <2>1. CASE p \in taken
    <3>1. /\ p.left.binding \in U /\ p.right.binding \in U
          /\ R[p.left.binding] = R[p.right.binding]
          /\ p \in T[set[R[p.left.binding]].tree]
      BY <1>3, <2>1 DEF Kept
    <3> DEFINE a == p.left.binding
    <3>2. CASE R[a] = l \/ R[a] = r
      <4>1. Q[a] = r
        BY <1>2, <1>13, <3>1, <3>2, ZenonT(30)
      <4> QED
        BY <1>9, <1>12, <1>13, <3>1, <3>2, <4>1
    <3>3. CASE R[a] # l /\ R[a] # r
      <4>1. Q[a] = R[a] /\ new[R[a]].tree = set[R[a]].tree
        BY <1>2, <1>12, <1>13, <3>1, <3>3
      <4>2. set[R[a]].tree \in 1..n
        BY <1>2, <1>3, <3>1 DEF Trees
      <4> QED
        BY <1>9, <1>13, <3>1, <3>3, <4>1, <4>2
    <3> QED
      BY <3>2, <3>3
  <2>2. CASE p = pInfo
    <3>1. Q[pl] = r /\ Q[pr] = r
      BY <1>2, <1>13
    <3> QED
      BY <1>2, <1>9, <1>12, <2>2, <3>1
  <2> QED
    BY <2>1, <2>2
<1>16. Tight(new, Q, taken \cup {pInfo})
  <2> SUFFICES ASSUME NEW S, Closed(taken \cup {pInfo}, S), NEW b \in U, NEW c \in U, Q[b] = Q[c], b \in S
               PROVE  c \in S
    BY <1>12, Zenon DEF Tight
  <2>1. Closed(taken, S) /\ (pl \in S <=> pr \in S)
    BY DEF Closed
  <2>2. \A x, y \in U : R[x] = R[y] /\ x \in S => y \in S
    BY <1>3, <2>1, Zenon DEF Tight
  <2> QED
    BY <1>2, <1>13, <2>1, <2>2, ZenonT(30)
<1>17. Used(more, V, taken \cup {pInfo})
  <2>1. T[lt] \subseteq taken /\ T[rt] \subseteq taken /\ \A o \in 1..n : T[o] \subseteq taken
    BY <1>3, <1>5 DEF Used
  <2>2. V[j] \subseteq taken \cup {pInfo} /\ \A o \in 1..n : V[o] \subseteq taken \cup {pInfo}
    BY <1>9, <2>1
  <2> QED
    BY <1>8, <2>2 DEF Used
<1>18. TreesOK(new, more, Q, C, V, taken \cup {pInfo})
  BY <1>14, <1>15, <1>16, <1>17 DEF TreesOK
<1>19. op.left = lt /\ op.right = rt
  BY DEF op, joinOf
<1> QED
  BY <1>11, <1>18, <1>19, Zenon DEF new, more, Q, C, V

\* Another tree for a binding.
LEMMA TreeSet ==
    ASSUME NEW U, NEW set \in [U -> [root_id : U, tree : Nat]], NEW top \in U, NEW j \in Nat
    PROVE  LET new == [set EXCEPT ![top].tree = j]
           IN  /\ DOMAIN new = U /\ new[top].tree = j
               /\ \A c \in U : c # top => new[c].tree = set[c].tree
               /\ \A c \in U : new[c].root_id = set[c].root_id
               /\ new \in [U -> [root_id : U, tree : Nat]]
  OBVIOUS

\* A tree gets one more operator on top, for a predicate within it.
LEMMA TreeFiltered ==
    ASSUME NEW q, NEW set, NEW ops, NEW R, NEW d, NEW B, NEW T, NEW taken, NEW pInfo \in Predicate(q),
           ForestOK(set, R, d), WiredOK(q, ops, B, T), TreesOK(set, ops, R, B, T, taken),
           pInfo.left.binding \in DOMAIN set, pInfo.right.binding \in DOMAIN set,
           R[pInfo.left.binding] = R[pInfo.right.binding]
    PROVE  LET top == R[pInfo.left.binding]
               j == Len(ops) + 1
               op == selfJoinOf(set[top].tree, pInfo)
               more == Append(ops, op)
               new == [set EXCEPT ![top].tree = j]
               C == Grown(B, j, B[op.input])
               V == Grown(T, j, T[op.input] \cup {pInfo})
           IN  /\ ForestOK(new, R, d) /\ WiredOK(q, more, C, V)
               /\ TreesOK(new, more, R, C, V, taken \cup {pInfo})
<1> DEFINE U == DOMAIN set
           n == Len(ops)
           j == n + 1
           pl == pInfo.left.binding
           pr == pInfo.right.binding
           top == R[pl]
           it == set[top].tree
           op == selfJoinOf(it, pInfo)
           more == Append(ops, op)
           new == [set EXCEPT ![top].tree = j]
           bindings == B[it]
           predicates == T[it] \cup {pInfo}
           C == Grown(B, j, bindings)
           V == Grown(T, j, predicates)
<1>1. n \in Nat /\ ops \in Seq(Op(q))
  BY DEF WiredOK
<1>2. /\ top \in U /\ R[top] = top /\ pl \in U /\ pr \in U /\ R[pr] = top
      /\ \A c \in U : R[c] \in U /\ R[R[c]] = R[c] /\ set[c] \in [root_id : U, tree : Nat]
  BY DEF ForestOK
<1>3. Trees(set, ops, R, B) /\ Kept(set, R, T, taken) /\ Tight(set, R, taken) /\ Used(ops, T, taken)
  BY DEF TreesOK
<1>4. /\ it \in 1..n /\ B[it] = {c \in U : R[c] = top}
      /\ \A o \in 1..n : it \notin inputs(ops[o])
  BY <1>2, <1>3 DEF Trees
<1>5. B[it] \in SUBSET Bindings(q) /\ T[it] \in SUBSET Predicate(q)
  BY <1>4 DEF WiredOK
<1>6. op \in Op(q) /\ inputs(op) = {it} /\ op.type = "SelfJoin"
  <2>1. it \in Nat
    BY <1>1, <1>4
  <2> QED
    BY <2>1 DEF Op, inputs, joinOf, selfJoinOf
<1>7. /\ more[j] = op /\ Len(more) = j /\ 1..j = (1..n) \cup {j} /\ j \notin 1..n
      /\ \A o \in 1..n : more[o] = ops[o]
  BY <1>1, <1>6, SMTT(30)
<1>8. /\ C[j] = bindings /\ V[j] = predicates
      /\ \A o \in 1..n : C[o] = B[o] /\ V[o] = T[o]
  BY <1>7, ZenonT(30) DEF Grown
<1>9. OpOK(q, more, C, V, j)
  <2>1. OpOK(q, ops, B, T, it)
    BY <1>4, SMTT(30) DEF WiredOK
  <2>2. \A p \in T[it] : {p.left.binding, p.right.binding} \subseteq B[it]
    BY <2>1, ZenonT(30) DEF OpOK
  <2>3. pl \in B[it] /\ pr \in B[it]
    BY <1>2, <1>4, ZenonT(30)
  <2>4. \A p \in V[j] : {p.left.binding, p.right.binding} \subseteq C[j]
    BY <1>8, <2>2, <2>3, ZenonT(30)
  <2>5. inputs(op) \subseteq 1..j - 1 /\ C[it] = B[it] /\ V[it] = T[it]
    <3>1. 1..j - 1 = 1..n
      BY <1>1
    <3> HIDE DEF C, V, op, it, n, j
    <3> QED
      BY <1>4, <1>6, <1>8, <3>1
  <2>6. /\ op.input = it /\ op.pInfo = pInfo /\ op.type = "SelfJoin"
    BY DEF selfJoinOf
  <2> HIDE DEF more, C, V, op, j, it
  <2> QED
    BY <1>6, <1>7, <1>8, <2>3, <2>4, <2>5, <2>6 DEF OpOK
<1>10. WiredOK(q, more, C, V)
  <2>1. bindings \in SUBSET Bindings(q) /\ predicates \in SUBSET Predicate(q)
    BY <1>5, SMTT(30)
  <2>2. \A o \in 1..n : inputs(ops[o]) \cap inputs(op) = {}
    BY <1>4, <1>6
  <2> HIDE DEF op, bindings, predicates
  <2> QED
    BY <1>6, <1>9, <2>1, <2>2, Wired DEF C, V, more, j, n
<1>11. /\ DOMAIN new = U /\ new[top].tree = j
       /\ \A c \in U : c # top => new[c].tree = set[c].tree
       /\ \A c \in U : new[c].root_id = set[c].root_id
       /\ new \in [U -> [root_id : U, tree : Nat]]
  <2>1. set \in [U -> [root_id : U, tree : Nat]]
    BY Zenon DEF ForestOK
  <2>2. j \in Nat
    BY <1>1
  <2> HIDE DEF U, j, top
  <2> QED
    BY <1>2, <2>1, <2>2, TreeSet DEF new
<1>12. DOMAIN new = U /\ Len(more) = j
  BY <1>7, <1>11
<1> HIDE DEF more, new, C, V
<1>13. ForestOK(new, R, d)
  BY <1>11, Reparented
<1>14. Trees(new, more, R, C)
  <2> SUFFICES ASSUME NEW b \in U
               PROVE  IF R[b] # b THEN new[b].tree = null
                      ELSE /\ new[b].tree \in 1..j
                           /\ C[new[b].tree] = {c \in U : R[c] = b}
                           /\ \A o \in 1..j : new[b].tree \notin inputs(more[o])
    BY <1>12, Zenon DEF Trees
  <2>1. CASE b = top
    <3>1. R[b] = b /\ new[b].tree = j /\ j \in 1..j
      BY <1>2, <1>7, <1>11, <2>1
    <3>2. C[j] = {c \in U : R[c] = b}
      BY <1>4, <1>8, <2>1
    <3>3. \A o \in 1..n : j \notin inputs(more[o])
      <4>1. \A o \in 1..n : inputs(ops[o]) \subseteq 1..o - 1
        BY SMTT(30) DEF WiredOK, OpOK
      <4> QED
        BY <1>1, <1>7, <4>1
    <3>4. j \notin inputs(more[j])
      BY <1>4, <1>6, <1>7
    <3> QED
      BY <1>7, <3>1, <3>2, <3>3, <3>4
  <2>2. CASE b # top
    <3>1. new[b].tree = set[b].tree
      BY <1>11, <2>2
    <3>2. CASE R[b] # b
      BY <1>3, <3>1, <3>2 DEF Trees
    <3>3. CASE R[b] = b
      <4>1. /\ set[b].tree \in 1..n /\ B[set[b].tree] = {c \in U : R[c] = b}
            /\ \A o \in 1..n : set[b].tree \notin inputs(ops[o])
        BY <1>3, <3>3 DEF Trees
      <4>2. set[b].tree # it
        <5> HIDE DEF top
        <5> QED
          BY <1>2, <1>3, <2>2, <3>3, RootsApart
      <4> HIDE DEF op, it
      <4> QED
        BY <1>6, <1>7, <1>8, <3>1, <3>3, <4>1, <4>2
    <3> QED
      BY <3>2, <3>3
  <2> QED
    BY <2>1, <2>2
<1>15. Kept(new, R, V, taken \cup {pInfo})
  <2> SUFFICES ASSUME NEW p \in taken \cup {pInfo}
               PROVE  /\ p.left.binding \in U /\ p.right.binding \in U
                      /\ R[p.left.binding] = R[p.right.binding]
                      /\ p \in V[new[R[p.left.binding]].tree]
    BY <1>11, Zenon DEF Kept
  <2>1. CASE p \in taken
    <3>1. /\ p.left.binding \in U /\ p.right.binding \in U
          /\ R[p.left.binding] = R[p.right.binding]
          /\ p \in T[set[R[p.left.binding]].tree]
      BY <1>3, <2>1, SMTT(30) DEF Kept
    <3> DEFINE a == p.left.binding
    <3>2. CASE R[a] = top
      BY <1>8, <1>11, <3>1, <3>2, SMTT(30)
    <3>3. CASE R[a] # top
      <4>1. new[R[a]].tree = set[R[a]].tree
        BY <1>2, <1>11, <3>1, <3>3
      <4>2. set[R[a]].tree \in 1..n
        BY <1>2, <1>3, <3>1 DEF Trees
      <4> QED
        BY <1>8, <3>1, <3>3, <4>1, <4>2
    <3> QED
      BY <3>2, <3>3
  <2>2. CASE p = pInfo
    BY <1>2, <1>8, <1>11, <2>2
  <2> QED
    BY <2>1, <2>2
<1>16. Tight(new, R, taken \cup {pInfo})
  <2> SUFFICES ASSUME NEW S, Closed(taken \cup {pInfo}, S), NEW b \in U, NEW c \in U, R[b] = R[c], b \in S
               PROVE  c \in S
    BY <1>11, Zenon DEF Tight
  <2>1. Closed(taken, S)
    BY DEF Closed
  <2> QED
    BY <1>3, <2>1, Zenon DEF Tight
<1>17. Used(more, V, taken \cup {pInfo})
  <2>1. T[it] \subseteq taken /\ \A o \in 1..n : T[o] \subseteq taken
    BY <1>3, <1>4, SMTT(30) DEF Used
  <2>2. V[j] \subseteq taken \cup {pInfo} /\ \A o \in 1..n : V[o] \subseteq taken \cup {pInfo}
    BY <1>8, <2>1, ZenonT(30)
  <2> QED
    BY <1>7, <2>2 DEF Used
<1>18. TreesOK(new, more, R, C, V, taken \cup {pInfo})
  BY <1>14, <1>15, <1>16, <1>17 DEF TreesOK
<1>19. op.input = it
  BY DEF op, selfJoinOf
<1> QED
  BY <1>10, <1>13, <1>18, <1>19, Zenon DEF new, more, C, V

\* A new tree: a scan of a binding, with the filters on it.
LEMMA TreeAdded ==
    ASSUME NEW q, NEW set, NEW ops, NEW R, NEW d, NEW B, NEW T, NEW taken, NEW b \in Bindings(q),
           NEW filters \in Seq(Filter(q)),
           ToSet(filters) = {f \in ToSet(Constants(q)) : f.left.binding = b},
           ForestOK(set, R, d), WiredOK(q, ops, B, T), TreesOK(set, ops, R, B, T, taken),
           b \notin DOMAIN set
    PROVE  LET j == Len(ops) + 1
               op == scanOf(b, filters)
               more == Append(ops, op)
               new == With(set, b, [root_id |-> b, tree |-> j])
               Q == With(R, b, b)
               C == Grown(B, j, {b})
               V == Grown(T, j, {})
           IN  WiredOK(q, more, C, V) /\ TreesOK(new, more, Q, C, V, taken)
<1> DEFINE W == DOMAIN set
           n == Len(ops)
           j == n + 1
           op == scanOf(b, filters)
           more == Append(ops, op)
           U == W \cup {b}
           new == With(set, b, [root_id |-> b, tree |-> j])
           Q == With(R, b, b)
           bindings == {b}
           predicates == {}
           C == Grown(B, j, bindings)
           V == Grown(T, j, predicates)
<1>1. n \in Nat /\ ops \in Seq(Op(q))
  BY DEF WiredOK
<1>2. \A c \in W : R[c] \in W /\ R[R[c]] = R[c] /\ set[c] \in [root_id : W, tree : Nat]
  BY DEF ForestOK
<1>3. Trees(set, ops, R, B) /\ Kept(set, R, T, taken) /\ Tight(set, R, taken) /\ Used(ops, T, taken)
  BY DEF TreesOK
<1>4. op \in Op(q) /\ inputs(op) = {} /\ op.type = "Scan"
  BY DEF Op, inputs, scanOf
<1>5. /\ more[j] = op /\ Len(more) = j /\ 1..j = (1..n) \cup {j} /\ j \notin 1..n
      /\ \A o \in 1..n : more[o] = ops[o]
  BY <1>1, <1>4
<1>6. /\ C[j] = bindings /\ V[j] = predicates
      /\ \A o \in 1..n : C[o] = B[o] /\ V[o] = T[o]
  BY <1>5 DEF Grown
<1>7. OpOK(q, more, C, V, j)
  <2>1. op.binding = b /\ op.filters = filters
    BY DEF scanOf
  <2> HIDE DEF more, C, V, op
  <2> QED
    BY <1>4, <1>5, <1>6, <2>1 DEF OpOK
<1>8. WiredOK(q, more, C, V)
  <2>1. bindings \in SUBSET Bindings(q) /\ predicates \in SUBSET Predicate(q)
    OBVIOUS
  <2>2. \A o \in 1..n : inputs(ops[o]) \cap inputs(op) = {}
    BY <1>4
  <2> HIDE DEF op, bindings, predicates
  <2> QED
    BY <1>4, <1>7, <2>1, <2>2, Wired DEF C, V, more, j, n
<1>9. /\ DOMAIN new = U /\ new[b].tree = j /\ \A c \in W : new[c] = set[c]
      /\ Q[b] = b /\ \A c \in W : Q[c] = R[c]
  <2>1. DOMAIN R = W
    BY DEF ForestOK
  <2> QED
    BY <2>1 DEF With
<1>10. DOMAIN new = U /\ Len(more) = j
  BY <1>5, <1>9
<1> HIDE DEF more, new, Q, C, V, op
<1>11. Trees(new, more, Q, C)
  <2> SUFFICES ASSUME NEW c \in U
               PROVE  IF Q[c] # c THEN new[c].tree = null
                      ELSE /\ new[c].tree \in 1..j
                           /\ C[new[c].tree] = {e \in U : Q[e] = c}
                           /\ \A o \in 1..j : new[c].tree \notin inputs(more[o])
    BY <1>10, Zenon DEF Trees
  <2>1. CASE c = b
    <3>1. \A o \in 1..n : j \notin inputs(more[o])
      <4>1. \A o \in 1..n : inputs(ops[o]) \subseteq 1..o - 1
        BY DEF WiredOK, OpOK
      <4> QED
        BY <1>1, <1>5, <4>1
    <3>2. C[j] = {e \in U : Q[e] = b}
      <4>1. \A e \in W : Q[e] # b /\ e # b
        BY <1>2, <1>9, ZenonT(30)
      <4>2. {e \in U : Q[e] = b} = {b}
        BY <1>9, <4>1
      <4> QED
        BY <1>6, <4>2
    <3> QED
      BY <1>4, <1>5, <1>9, <2>1, <3>1, <3>2
  <2>2. CASE c \in W
    <3>1. {e \in U : Q[e] = c} = {e \in W : R[e] = c}
      BY <1>9, <2>2
    <3> QED
      BY <1>3, <1>4, <1>5, <1>6, <1>9, <2>2, <3>1 DEF Trees
  <2> QED
    BY <2>1, <2>2
<1>12. Kept(new, Q, V, taken)
  <2> SUFFICES ASSUME NEW p \in taken
               PROVE  /\ p.left.binding \in U /\ p.right.binding \in U
                      /\ Q[p.left.binding] = Q[p.right.binding]
                      /\ p \in V[new[Q[p.left.binding]].tree]
    BY <1>10, Zenon DEF Kept
  <2>1. /\ p.left.binding \in W /\ p.right.binding \in W
        /\ R[p.left.binding] = R[p.right.binding]
        /\ p \in T[set[R[p.left.binding]].tree]
    BY <1>3 DEF Kept
  <2>2. set[R[p.left.binding]].tree \in 1..n
    BY <1>2, <1>3, <2>1 DEF Trees
  <2> DEFINE a == p.left.binding
             e == p.right.binding
             x == R[a]
  <2>3. Q[a] = x /\ Q[e] = R[e] /\ x \in W
    BY <1>2, <1>9, <2>1
  <2>4. new[x].tree = set[x].tree /\ V[set[x].tree] = T[set[x].tree]
    BY <1>6, <1>9, <2>2, <2>3
  <2> QED
    BY <2>1, <2>3, <2>4
<1>13. Tight(new, Q, taken)
  <2> SUFFICES ASSUME NEW S, Closed(taken, S), NEW c \in U, NEW e \in U, Q[c] = Q[e], c \in S
               PROVE  e \in S
    BY <1>10, Zenon DEF Tight
  <2>1. CASE c \in W /\ e \in W
    <3>1. R[c] = R[e]
      BY <1>9, <2>1
    <3> QED
      BY <1>3, <2>1, <3>1, Zenon DEF Tight
  <2> QED
    BY <1>2, <1>9, <2>1
<1>14. Used(more, V, taken)
  <2>1. \A o \in 1..n : T[o] \subseteq taken
    BY <1>3 DEF Used
  <2>2. V[j] \subseteq taken /\ \A o \in 1..n : V[o] \subseteq taken
    BY <1>6, <2>1
  <2> QED
    BY <1>5, <2>2 DEF Used
<1>15. TreesOK(new, more, Q, C, V, taken)
  BY <1>11, <1>12, <1>13, <1>14 DEF TreesOK
<1> QED
  BY <1>8, <1>15 DEF new, more, Q, C, V, op

\* Path compression leaves all this alone.
LEMMA TreesKept ==
    ASSUME NEW set, NEW new, NEW ops, NEW R, NEW B, NEW T, NEW taken,
           TreesOK(set, ops, R, B, T, taken), DOMAIN new = DOMAIN set,
           \A b \in DOMAIN set : R[b] \in DOMAIN set /\ new[b].tree = set[b].tree
    PROVE  TreesOK(new, ops, R, B, T, taken)
<1>1. Trees(set, ops, R, B) /\ Kept(set, R, T, taken) /\ Tight(set, R, taken) /\ Used(ops, T, taken)
  BY DEF TreesOK
<1>2. Trees(new, ops, R, B)
  BY <1>1 DEF Trees
<1>3. Kept(new, R, T, taken)
  BY <1>1 DEF Kept
<1>4. Tight(new, R, taken)
  BY <1>1, Zenon DEF Tight
<1> QED
  BY <1>1, <1>2, <1>3, <1>4 DEF TreesOK

\* A binding gets its scan, and the roots of the others stay.
LEMMA ScannedOK ==
    ASSUME NEW p, NEW taken, raw \in Queries, query.filters = Constants(raw), PlanOK(raw, p, taken),
           NEW b \in Bindings(raw)
    PROVE  LET new == scanned(p, b)
           IN  /\ PlanOK(raw, new, taken)
               /\ DOMAIN new.disjoint_set = DOMAIN p.disjoint_set \cup {b}
               /\ \A c \in DOMAIN p.disjoint_set :
                    getRootOfJoinTree(new.disjoint_set, c) = getRootOfJoinTree(p.disjoint_set, c)
               /\ b \notin DOMAIN p.disjoint_set => getRootOfJoinTree(new.disjoint_set, b) = b
<1> DEFINE set == p.disjoint_set
           ops == p.operators
           new == addScan(p, b)
<1>1. CASE b \in DOMAIN set
  BY <1>1 DEF scanned
<1>2. ASSUME b \notin DOMAIN set
      PROVE  /\ PlanOK(raw, new, taken)
             /\ DOMAIN new.disjoint_set = DOMAIN p.disjoint_set \cup {b}
             /\ \A c \in DOMAIN p.disjoint_set :
                  getRootOfJoinTree(new.disjoint_set, c) = getRootOfJoinTree(p.disjoint_set, c)
             /\ getRootOfJoinTree(new.disjoint_set, b) = b
  <2>1. PICK R, d, B, T : Plan(raw, p, taken, R, d, B, T)
    BY DEF PlanOK
  <2> DEFINE filters == Those(query.filters, {f \in ToSet(query.filters) : f.left.binding = b})
             j == Len(ops) + 1
             op == scanOf(b, filters)
             more == Append(ops, op)
             U == DOMAIN set \cup {b}
             newSet == With(set, b, [root_id |-> b, tree |-> j])
             Q == With(R, b, b)
             e == With(d, b, 0)
             C == Grown(B, j, {b})
             V == Grown(T, j, {})
  <2>2. new = [disjoint_set |-> newSet, operators |-> more]
    <3>1. newSet = [c \in U |-> IF c = b THEN [root_id |-> c, tree |-> j] ELSE set[c]]
      BY DEF With
    <3> QED
      BY <3>1, Zenon DEF addScan, scanOf
  <2>3. /\ filters \in Seq(Filter(raw))
        /\ ToSet(filters) = {f \in ToSet(Constants(raw)) : f.left.binding = b}
    <3> DEFINE con == Constants(raw)
               X == Filter(raw)
               which == {f \in ToSet(con) : f.left.binding = b}
    <3>1. con \in Seq(X)
      BY QueryOK
    <3>2. filters = Those(con, which)
      BY Zenon
    <3> HIDE DEF con, X, filters, which
    <3>3. filters \in Seq(X) /\ ToSet(filters) = ToSet(con) \cap which
      BY <3>1, <3>2, ThoseOK
    <3>4. ToSet(con) \cap which = which
      BY DEF which
    <3> QED
      BY <3>3, <3>4, Zenon DEF con, X, which
  <2>4. /\ ForestOK(set, R, d) /\ WiredOK(raw, ops, B, T) /\ TreesOK(set, ops, R, B, T, taken)
        /\ DOMAIN set \subseteq Bindings(raw)
    BY <2>1 DEF Plan
  <2>5. j \in Nat
    BY <2>4 DEF WiredOK
  <2> HIDE DEF filters, set, ops, new
  <2>6. ForestOK(newSet, Q, e)
    <3> HIDE DEF j
    <3> QED
      BY <1>2, <2>4, <2>5, NodeAdded
  <2>7. WiredOK(raw, more, C, V) /\ TreesOK(newSet, more, Q, C, V, taken)
    BY <1>2, <2>3, <2>4, TreeAdded
  <2>8. DOMAIN newSet = U /\ Q[b] = b /\ \A c \in DOMAIN set : Q[c] = R[c]
    <3>1. DOMAIN R = DOMAIN set
      BY <2>4 DEF ForestOK
    <3> QED
      BY <1>2, <3>1 DEF With
  <2> HIDE DEF newSet, more, Q, e, C, V, U
  <2>9. new.disjoint_set = newSet /\ new.operators = more
    BY <2>2
  <2>10. U \subseteq Bindings(raw)
    BY <2>4 DEF U
  <2>11. Plan(raw, new, taken, Q, e, C, V)
    BY <2>2, <2>6, <2>7, <2>8, <2>9, <2>10, Zenon DEF Plan
  <2>12. PlanOK(raw, new, taken)
    BY <2>11 DEF PlanOK
  <2>13. \A c \in U : getRootOfJoinTree(newSet, c) = Q[c]
    BY <2>6, <2>8, RootIs
  <2>14. \A c \in DOMAIN set : getRootOfJoinTree(set, c) = R[c]
    BY <2>4, RootIs
  <2> QED
    BY <2>8, <2>9, <2>12, <2>13, <2>14 DEF set, U
<1> QED
  BY <1>1, <1>2 DEF scanned

\* A predicate between two bindings that have their nodes.
Ready(q, p, taken, pInfo) ==
    /\ pInfo \in Predicate(q) /\ PlanOK(q, p, taken)
    /\ pInfo.left.binding \in DOMAIN p.disjoint_set /\ pInfo.right.binding \in DOMAIN p.disjoint_set

\* A path is compressed, and everything else stays.
LEMMA CompressedPlan ==
    ASSUME NEW q, NEW p, NEW taken, NEW pInfo, PlanOK(q, p, taken),
           pInfo.left.binding \in DOMAIN p.disjoint_set, pInfo.right.binding \in DOMAIN p.disjoint_set
    PROVE  LET set == compressedBoth(p.disjoint_set, pInfo)
           IN  /\ DOMAIN set = DOMAIN p.disjoint_set
               /\ \E R, d, B, T : /\ ForestOK(set, R, d) /\ ForestOK(p.disjoint_set, R, d)
                                  /\ WiredOK(q, p.operators, B, T)
                                  /\ TreesOK(set, p.operators, R, B, T, taken)
<1> DEFINE old == p.disjoint_set
           first == compressed(old, pInfo.left.binding)
           set == compressed(first, pInfo.right.binding)
<1>1. PICK R, d, B, T : Plan(q, p, taken, R, d, B, T)
  BY DEF PlanOK
<1>2. ForestOK(old, R, d) /\ WiredOK(q, p.operators, B, T) /\ TreesOK(old, p.operators, R, B, T, taken)
  BY <1>1 DEF Plan
<1> HIDE DEF old
<1>3. /\ ForestOK(first, R, d) /\ DOMAIN first = DOMAIN old
      /\ \A b \in DOMAIN old : first[b].tree = old[b].tree
  <2> pInfo.left.binding \in DOMAIN old
    BY DEF old
  <2> QED
    BY <1>2, CompressedOK
<1>4. pInfo.right.binding \in DOMAIN first
  BY <1>3 DEF old
<1> HIDE DEF first
<1>5. /\ ForestOK(set, R, d) /\ DOMAIN set = DOMAIN first
      /\ \A b \in DOMAIN first : set[b].tree = first[b].tree
  BY <1>3, <1>4, CompressedOK
<1> HIDE DEF set
<1>6. \A b \in DOMAIN old : R[b] \in DOMAIN old /\ set[b].tree = old[b].tree
  BY <1>2, <1>3, <1>5 DEF ForestOK
<1>7. TreesOK(set, p.operators, R, B, T, taken)
  BY <1>2, <1>3, <1>5, <1>6, TreesKept
<1>8. compressedBoth(p.disjoint_set, pInfo) = set
  BY DEF compressedBoth, set, first, old
<1> QED
  BY <1>2, <1>3, <1>5, <1>7, <1>8, Zenon DEF old

\* The union of two trees.
LEMMA UnionOK ==
    ASSUME NEW q, NEW p, NEW taken, NEW pInfo, Ready(q, p, taken, pInfo),
           getRootOfJoinTree(p.disjoint_set, pInfo.left.binding)
             # getRootOfJoinTree(p.disjoint_set, pInfo.right.binding)
    PROVE  LET new == unionTwoJoinTrees(p, pInfo)
           IN  /\ PlanOK(q, new, taken \cup {pInfo})
               /\ DOMAIN new.disjoint_set = DOMAIN p.disjoint_set
<1> DEFINE set == compressedBoth(p.disjoint_set, pInfo)
           ops == p.operators
           pl == pInfo.left.binding
           pr == pInfo.right.binding
<1>1. /\ pInfo \in Predicate(q) /\ PlanOK(q, p, taken)
      /\ pl \in DOMAIN p.disjoint_set /\ pr \in DOMAIN p.disjoint_set
  BY DEF Ready
<1>2. DOMAIN set = DOMAIN p.disjoint_set
  BY <1>1, CompressedPlan
<1>3. PICK R, d, B, T : /\ ForestOK(set, R, d) /\ ForestOK(p.disjoint_set, R, d)
                        /\ WiredOK(q, ops, B, T) /\ TreesOK(set, ops, R, B, T, taken)
  BY <1>1, CompressedPlan
<1>4. R[pl] # R[pr]
  BY <1>1, <1>3, RootIs
<1> HIDE DEF set, ops
<1>5. getRootOfJoinTree(set, pl) = R[pl] /\ getRootOfJoinTree(set, pr) = R[pr]
  BY <1>1, <1>2, <1>3, RootIs
<1> DEFINE l == R[pl]
           r == R[pr]
           j == Len(ops) + 1
           op == joinOf(set[l].tree, set[r].tree, pInfo)
           more == Append(ops, op)
           newSet == United(set, l, r, j)
           Q == Renamed(R, l, r)
           e == Deeper(d, R, l)
           C == Grown(B, j, B[op.left] \cup B[op.right])
           V == Grown(T, j, T[op.left] \cup T[op.right] \cup {pInfo})
           new == unionTwoJoinTrees(p, pInfo)
<1>6. new = [disjoint_set |-> newSet, operators |-> more]
  BY <1>5, Zenon DEF unionTwoJoinTrees, United, joinOf, set, ops
<1>7. WiredOK(q, more, C, V) /\ TreesOK(newSet, more, Q, C, V, taken \cup {pInfo})
  BY <1>1, <1>2, <1>3, <1>4, TreesUnited, ZenonT(30)
<1>8. ForestOK(newSet, Q, e)
  <2>1. /\ l \in DOMAIN set /\ r \in DOMAIN set /\ l # r /\ R[l] = l /\ R[r] = r
    BY <1>1, <1>2, <1>3, <1>4 DEF ForestOK
  <2>2. j \in Nat
    BY <1>3 DEF WiredOK
  <2> HIDE DEF l, r, j
  <2> QED
    BY <1>3, <2>1, <2>2, RootsUnited
<1>9. DOMAIN newSet = DOMAIN set
  BY Zenon DEF United
<1> HIDE DEF newSet, more, Q, e, C, V, new
<1>10. new.disjoint_set = newSet /\ new.operators = more
  BY <1>6
<1>11. DOMAIN set \subseteq Bindings(q)
  BY <1>1, <1>2 DEF PlanOK, Plan
<1>12. Plan(q, new, taken \cup {pInfo}, Q, e, C, V)
  BY <1>6, <1>7, <1>8, <1>9, <1>10, <1>11, Zenon DEF Plan
<1> QED
  BY <1>2, <1>9, <1>10, <1>12, Zenon DEF PlanOK, new

\* The plan that SelfConnect makes of p.
Filtered(p, pInfo) ==
    LET set == compressedBoth(p.disjoint_set, pInfo)
        top == getRootOfJoinTree(set, pInfo.left.binding)
        selfJoin == [type |-> "SelfJoin", input |-> set[top].tree, pInfo |-> pInfo]
    IN  [disjoint_set |-> [set EXCEPT ![top].tree = Len(p.operators) + 1],
         operators |-> Append(p.operators, selfJoin)]

\* A filter on top of a tree.
LEMMA FilterOK ==
    ASSUME NEW q, NEW p, NEW taken, NEW pInfo, Ready(q, p, taken, pInfo),
           getRootOfJoinTree(p.disjoint_set, pInfo.left.binding)
             = getRootOfJoinTree(p.disjoint_set, pInfo.right.binding)
    PROVE  LET set == compressedBoth(p.disjoint_set, pInfo)
               top == getRootOfJoinTree(set, pInfo.left.binding)
               new == Filtered(p, pInfo)
           IN  /\ PlanOK(q, new, taken \cup {pInfo})
               /\ DOMAIN new.disjoint_set = DOMAIN p.disjoint_set
               /\ top \in DOMAIN p.disjoint_set
               /\ getRootOfJoinTree(new.disjoint_set, top) = top
<1> DEFINE set == compressedBoth(p.disjoint_set, pInfo)
           ops == p.operators
           pl == pInfo.left.binding
           pr == pInfo.right.binding
<1>1. /\ pInfo \in Predicate(q) /\ PlanOK(q, p, taken)
      /\ pl \in DOMAIN p.disjoint_set /\ pr \in DOMAIN p.disjoint_set
  BY DEF Ready
<1>2. DOMAIN set = DOMAIN p.disjoint_set
  BY <1>1, CompressedPlan
<1>3. PICK R, d, B, T : /\ ForestOK(set, R, d) /\ ForestOK(p.disjoint_set, R, d)
                        /\ WiredOK(q, ops, B, T) /\ TreesOK(set, ops, R, B, T, taken)
  BY <1>1, CompressedPlan
<1>4. R[pl] = R[pr]
  BY <1>1, <1>3, RootIs
<1> HIDE DEF set, ops
<1>5. getRootOfJoinTree(set, pl) = R[pl]
  BY <1>1, <1>2, <1>3, RootIs, SMTT(30)
<1> DEFINE top == R[pl]
           j == Len(ops) + 1
           op == selfJoinOf(set[top].tree, pInfo)
           more == Append(ops, op)
           newSet == [set EXCEPT ![top].tree = j]
           C == Grown(B, j, B[op.input])
           V == Grown(T, j, T[op.input] \cup {pInfo})
           new == [disjoint_set |-> newSet, operators |-> more]
<1>6. /\ ForestOK(newSet, R, d) /\ WiredOK(q, more, C, V)
      /\ TreesOK(newSet, more, R, C, V, taken \cup {pInfo})
  BY <1>1, <1>2, <1>3, <1>4, TreeFiltered, ZenonT(30)
<1>7. DOMAIN newSet = DOMAIN set
  BY Zenon
<1>8. new.disjoint_set = newSet /\ new.operators = more
  OBVIOUS
<1>9. DOMAIN set \subseteq Bindings(q)
  BY <1>1, <1>2 DEF PlanOK, Plan
<1>10. top \in DOMAIN set /\ R[top] = top
  BY <1>1, <1>2, <1>3 DEF ForestOK
<1> HIDE DEF newSet, more, C, V, top
<1>11. Plan(q, new, taken \cup {pInfo}, R, d, C, V)
  <2> new = [disjoint_set |-> newSet, operators |-> more]
    OBVIOUS
  <2> HIDE DEF new
  <2> QED
    BY <1>6, <1>7, <1>8, <1>9, Zenon DEF Plan
<1>12. PlanOK(q, new, taken \cup {pInfo})
  BY <1>11, Zenon DEF PlanOK
<1>13. getRootOfJoinTree(newSet, top) = top
  BY <1>6, <1>7, <1>10, RootIs
<1>14. /\ PlanOK(q, new, taken \cup {pInfo}) /\ DOMAIN newSet = DOMAIN p.disjoint_set
       /\ top \in DOMAIN p.disjoint_set /\ getRootOfJoinTree(newSet, top) = top
  BY <1>2, <1>7, <1>10, <1>12, <1>13, Zenon
<1> QED
  BY <1>5, <1>8, <1>14, Zenon DEF Filtered, newSet, more, top, set, ops, selfJoinOf

\* A tree has exactly the bindings that the predicates connect to any of it.
LEMMA LinkedIs ==
    ASSUME NEW predicates, NEW set, NEW R, NEW T, R \in [DOMAIN set -> DOMAIN set],
           DOMAIN set = Mentioned(predicates),
           Kept(set, R, T, ToSet(predicates)), Tight(set, R, ToSet(predicates)),
           NEW b \in DOMAIN set
    PROVE  Linked(predicates, b) = {c \in DOMAIN set : R[c] = R[b]}
<1> DEFINE U == DOMAIN set
           taken == ToSet(predicates)
           nodes == {b} \cup Mentioned(predicates)
           same == {c \in U : R[c] = R[b]}
<1>1. nodes = U
  OBVIOUS
<1>2. Closed(taken, same) /\ b \in same /\ same \in SUBSET nodes
  BY <1>1 DEF Closed, Kept
<1>3. \A S : Closed(taken, S) <=> \A p \in taken : p.left.binding \in S <=> p.right.binding \in S
  BY DEF Closed
<1>4. Linked(predicates, b) = {c \in nodes : \A S \in SUBSET nodes : b \in S /\ Closed(taken, S) => c \in S}
  BY Zenon DEF Linked, Closed
<1>5. \A c \in same : \A S : Closed(taken, S) /\ b \in S => c \in S
  BY DEF Tight
<1> HIDE DEF nodes, same, taken
<1> QED
  BY <1>1, <1>2, <1>4, <1>5 DEF same, U

-----------------------------------------------------------------------------
(* Planning                                                                *)

\* The predicates taken so far, and their bindings.
Taken == {Joins(raw)[k] : k \in 1..i - 1}
Ends(taken) == UNION {{p.left.binding, p.right.binding} : p \in taken}

\* The query is one that may be asked, and i counts its predicates.
QueryInv ==
    /\ raw \in Queries /\ WellFormed(raw)
    /\ phase \in {"parse", "plan", "require", "run", "done"}
    /\ i \in 1..Len(Joins(raw)) + 1
    /\ phase = "parse" => i = 1
    /\ phase # "parse" => query = [predicates |-> Joins(raw), filters |-> Constants(raw)]
    /\ phase \notin {"parse", "plan"} => i = Len(Joins(raw)) + 1

\* The plan is one for the predicates taken so far, and root is a root of it.
PlanInv ==
    /\ QueryInv
    /\ PlanOK(raw, plan, Taken)
    /\ DOMAIN plan.disjoint_set = Ends(Taken)
    /\ i > 1 => /\ root \in DOMAIN plan.disjoint_set
                /\ getRootOfJoinTree(plan.disjoint_set, root) = root

\* At first there is nothing.
LEMMA PlanInit == Init => PlanInv
<1> SUFFICES ASSUME Init PROVE PlanInv
  OBVIOUS
<1> DEFINE none == [disjoint_set |-> <<>>, operators |-> <<>>]
<1>1. raw \in Queries /\ WellFormed(raw) /\ phase = "parse" /\ i = 1 /\ plan = none
  BY DEF Init
<1>2. Joins(raw) \in Seq(Predicate(raw)) /\ Len(Joins(raw)) \in Nat
  BY <1>1, QueryOK
<1>3. QueryInv
  BY <1>1, <1>2 DEF QueryInv
<1>4. Taken = {}
  BY <1>1 DEF Taken
<1>5. Cardinality({}) = 0 /\ IsFiniteSet({})
  BY FS_EmptySet
<1> DEFINE e == <<>>
<1>6. DOMAIN e = {} /\ Len(e) = 0 /\ \A X : e \in Seq(X)
  OBVIOUS
<1>7. \A X : e \in [{} -> X]
  OBVIOUS
<1> HIDE DEF e
<1>8. ForestOK(e, e, e)
  BY <1>5, <1>6, <1>7 DEF ForestOK
<1>9. WiredOK(raw, e, e, e)
  <2>1. 1..Len(e) = {}
    BY <1>6
  <2> QED
    BY <1>6, <1>7, <2>1 DEF WiredOK
<1>10. TreesOK(e, e, e, e, e, {})
  <2>1. 1..Len(e) = {}
    BY <1>6
  <2> QED
    BY <1>6, <2>1 DEF TreesOK, Trees, Kept, Tight, Used
<1>11. PlanOK(raw, none, {})
  <2>1. none = [disjoint_set |-> none.disjoint_set, operators |-> none.operators]
        /\ none.disjoint_set = e /\ none.operators = e
    BY DEF e
  <2>2. Plan(raw, none, {}, e, e, e, e)
    <3> HIDE DEF none
    <3> QED
      BY <1>6, <1>8, <1>9, <1>10, <2>1, Zenon DEF Plan
  <2> QED
    BY <2>2, Zenon DEF PlanOK
<1>12. DOMAIN none.disjoint_set = Ends({})
  BY DEF Ends
<1> HIDE DEF none
<1> QED
  BY <1>1, <1>3, <1>4, <1>11, <1>12 DEF PlanInv

\* The next predicate.
LEMMA NextPredicate ==
    ASSUME PlanInv, takePredicate
    PROVE  LET pInfo == query.predicates[i]
           IN  /\ raw \in Queries /\ query = [predicates |-> Joins(raw), filters |-> Constants(raw)]
               /\ i \in 1..Len(Joins(raw)) /\ pInfo = Joins(raw)[i]
               /\ pInfo \in Predicate(raw)
               /\ pInfo.left.binding \in Bindings(raw) /\ pInfo.right.binding \in Bindings(raw)
               /\ {Joins(raw)[k] : k \in 1..i' - 1} = Taken \cup {pInfo}
               /\ Ends(Taken \cup {pInfo}) = Ends(Taken) \cup {pInfo.left.binding, pInfo.right.binding}
<1> DEFINE pInfo == query.predicates[i]
<1>1. /\ raw \in Queries /\ query = [predicates |-> Joins(raw), filters |-> Constants(raw)]
      /\ i \in 1..Len(Joins(raw)) + 1 /\ i <= Len(query.predicates) /\ i' = i + 1
  BY DEF PlanInv, QueryInv, takePredicate
<1>2. Joins(raw) \in Seq(Predicate(raw)) /\ Len(Joins(raw)) \in Nat /\ query.predicates = Joins(raw)
  BY <1>1, QueryOK
<1>3. i \in 1..Len(Joins(raw)) /\ pInfo = Joins(raw)[i]
  BY <1>1, <1>2
<1>4. pInfo \in Predicate(raw)
  BY <1>2, <1>3
<1>5. pInfo.left.binding \in Bindings(raw) /\ pInfo.right.binding \in Bindings(raw)
  BY <1>4 DEF Predicate, Column
<1>6. 1..i' - 1 = (1..i - 1) \cup {i}
  BY <1>1, <1>3
<1> HIDE DEF pInfo
<1>7. {Joins(raw)[k] : k \in 1..i' - 1} = Taken \cup {pInfo}
  BY <1>3, <1>6 DEF Taken
<1>8. Ends(Taken \cup {pInfo}) = Ends(Taken) \cup {pInfo.left.binding, pInfo.right.binding}
  BY DEF Ends
<1> QED
  BY <1>1, <1>3, <1>4, <1>5, <1>7, <1>8 DEF pInfo

\* A predicate with one binding twice comes after another with it.
LEMMA NotAlone ==
    ASSUME QueryInv, i \in 1..Len(Joins(raw)),
           Joins(raw)[i].left.binding = Joins(raw)[i].right.binding
    PROVE  Joins(raw)[i].left.binding \in Ends(Taken)
<1>1. DOMAIN Joins(raw) = 1..Len(Joins(raw))
  <2>1. Joins(raw) \in Seq(Predicate(raw))
    BY QueryOK DEF QueryInv
  <2> QED
    BY <2>1
<1> DEFINE b == Joins(raw)[i].left.binding
<1>2. PICK m \in 1..i - 1 : b \in {Joins(raw)[m].left.binding, Joins(raw)[m].right.binding}
  BY <1>1 DEF QueryInv, WellFormed
<1> QED
  BY <1>2 DEF Ends, Taken

\* Nothing but a predicate that is taken changes the plan.
LEMMA PlanRest ==
    ASSUME PlanInv, QueryInv', UNCHANGED <<raw, i, plan, root>>
    PROVE  PlanInv'
<1>1. Taken' = Taken
  BY DEF Taken
<1> QED
  BY <1>1 DEF PlanInv

\* A join of two trees.
LEMMA PlanNeedConnect == PlanInv /\ NeedConnect => PlanInv'
<1> SUFFICES ASSUME PlanInv, NeedConnect PROVE PlanInv'
  OBVIOUS
<1> DEFINE pInfo == query.predicates[i]
           pl == pInfo.left.binding
           pr == pInfo.right.binding
           one == scanned(plan, pl)
           both == scanned(one, pr)
           new == unionTwoJoinTrees(both, pInfo)
           S == plan.disjoint_set
           root1(b) == getRootOfJoinTree(one.disjoint_set, b)
           root2(b) == getRootOfJoinTree(both.disjoint_set, b)
<1>1. /\ takePredicate /\ ~AlreadyConnected(pInfo) /\ plan' = new
      /\ root' = getRootOfJoinTree(plan'.disjoint_set, pr)
      /\ UNCHANGED <<raw, query, phase>>
  BY DEF NeedConnect
<1>2. /\ raw \in Queries /\ query = [predicates |-> Joins(raw), filters |-> Constants(raw)]
      /\ i \in 1..Len(Joins(raw)) /\ pInfo = Joins(raw)[i] /\ pInfo \in Predicate(raw)
      /\ pl \in Bindings(raw) /\ pr \in Bindings(raw)
      /\ {Joins(raw)[k] : k \in 1..i' - 1} = Taken \cup {pInfo}
      /\ Ends(Taken \cup {pInfo}) = Ends(Taken) \cup {pl, pr}
  BY <1>1, NextPredicate
<1>3. /\ PlanOK(raw, plan, Taken) /\ QueryInv /\ DOMAIN S = Ends(Taken)
      /\ query.filters = Constants(raw)
  BY <1>2 DEF PlanInv
<1>4. ~({pl, pr} \subseteq DOMAIN S) \/ getRootOfJoinTree(S, pl) # getRootOfJoinTree(S, pr)
  BY <1>1 DEF AlreadyConnected
<1>5. pl = pr => pl \in DOMAIN S
  BY <1>2, <1>3, NotAlone
<1> HIDE DEF pInfo, one
<1>6. /\ PlanOK(raw, one, Taken) /\ DOMAIN one.disjoint_set = DOMAIN S \cup {pl}
      /\ \A b \in DOMAIN S : root1(b) = getRootOfJoinTree(S, b)
      /\ pl \notin DOMAIN S => root1(pl) = pl
  <2> HIDE DEF pl
  <2> QED
    BY <1>2, <1>3, ScannedOK DEF one
<1> HIDE DEF both
<1>7. /\ PlanOK(raw, both, Taken) /\ DOMAIN both.disjoint_set = DOMAIN one.disjoint_set \cup {pr}
      /\ \A b \in DOMAIN one.disjoint_set : root2(b) = root1(b)
      /\ pr \notin DOMAIN one.disjoint_set => root2(pr) = pr
  <2> HIDE DEF pr
  <2> QED
    BY <1>2, <1>3, <1>6, ScannedOK DEF both
<1>8. root2(pl) # root2(pr)
  <2>1. \A b \in DOMAIN S : getRootOfJoinTree(S, b) \in DOMAIN S
    <3>1. PICK R, d, B, T : Plan(raw, plan, Taken, R, d, B, T)
      BY <1>3 DEF PlanOK
    <3>2. ForestOK(S, R, d)
      BY <3>1 DEF Plan
    <3>3. \A b \in DOMAIN S : R[b] \in DOMAIN S
      BY <3>2 DEF ForestOK
    <3> HIDE DEF S
    <3> QED
      BY <3>2, <3>3, RootIs
  <2> HIDE DEF root1, root2, S, pl, pr
  <2>2. root2(pl) = root1(pl)
    BY <1>6, <1>7
  <2>3. CASE pl \in DOMAIN S /\ pr \in DOMAIN S
    BY <1>4, <1>6, <1>7, <2>2, <2>3
  <2>4. CASE pl \notin DOMAIN S /\ pr \in DOMAIN S
    BY <1>6, <1>7, <2>1, <2>2, <2>4
  <2>5. CASE pl \in DOMAIN S /\ pr \notin DOMAIN S
    BY <1>5, <1>6, <1>7, <2>1, <2>2, <2>5
  <2>6. CASE pl \notin DOMAIN S /\ pr \notin DOMAIN S
    BY <1>5, <1>6, <1>7, <2>2, <2>6
  <2> QED
    BY <2>3, <2>4, <2>5, <2>6
<1> HIDE DEF new
<1>9. /\ PlanOK(raw, new, Taken \cup {pInfo})
      /\ DOMAIN new.disjoint_set = DOMAIN both.disjoint_set
  <2>1. pl \in DOMAIN both.disjoint_set /\ pr \in DOMAIN both.disjoint_set
    BY <1>6, <1>7
  <2>2. getRootOfJoinTree(both.disjoint_set, pl) # getRootOfJoinTree(both.disjoint_set, pr)
    BY <1>8
  <2> QED
    <3>1. Ready(raw, both, Taken, pInfo)
      BY <1>2, <1>7, <2>1 DEF Ready
    <3> QED
      BY <2>2, <3>1, UnionOK DEF new
<1>10. Taken' = Taken \cup {pInfo}
  BY <1>1, <1>2 DEF Taken
<1>11. PlanOK(raw, plan, Taken)'
  <2>1. PlanOK(raw', plan', Taken')
    BY <1>1, <1>9, <1>10
  <2> QED
    BY <2>1 DEF PlanOK, Plan, ForestOK, WiredOK, TreesOK
<1>12. DOMAIN plan'.disjoint_set = Ends(Taken')
  BY <1>1, <1>2, <1>3, <1>6, <1>7, <1>9, <1>10
<1>13. root' \in DOMAIN plan'.disjoint_set /\ getRootOfJoinTree(plan'.disjoint_set, root') = root'
  <2>1. PICK R, d, B, T : Plan(raw, new, Taken \cup {pInfo}, R, d, B, T)
    BY <1>9 DEF PlanOK
  <2> DEFINE W == new.disjoint_set
  <2>2. ForestOK(W, R, d)
    BY <2>1 DEF Plan
  <2>3. pr \in DOMAIN W
    BY <1>7, <1>9
  <2> HIDE DEF W, pr
  <2>4. R[pr] \in DOMAIN W /\ R[R[pr]] = R[pr]
    BY <2>2, <2>3 DEF ForestOK
  <2>5. getRootOfJoinTree(W, pr) = R[pr] /\ getRootOfJoinTree(W, R[pr]) = R[R[pr]]
    BY <2>2, <2>3, <2>4, RootIs
  <2> QED
    BY <1>1, <2>4, <2>5 DEF W
<1>14. QueryInv'
  <2>1. i' = i + 1 /\ phase = "plan"
    BY <1>1 DEF takePredicate
  <2>2. Joins(raw) \in Seq(Predicate(raw))
    BY <1>2, QueryOK
  <2> QED
    BY <1>1, <1>2, <1>3, <2>1, <2>2 DEF QueryInv
<1> QED
  BY <1>11, <1>12, <1>13, <1>14 DEF PlanInv

\* A filter on one tree.
LEMMA PlanSelfConnect == PlanInv /\ SelfConnect => PlanInv'
<1> SUFFICES ASSUME PlanInv, SelfConnect PROVE PlanInv'
  OBVIOUS
<1> DEFINE pInfo == query.predicates[i]
           pl == pInfo.left.binding
           pr == pInfo.right.binding
           S == plan.disjoint_set
           set == compressedBoth(S, pInfo)
           top == getRootOfJoinTree(set, pl)
           new == Filtered(plan, pInfo)
<1>1. /\ takePredicate /\ AlreadyConnected(pInfo) /\ plan' = new /\ root' = top
      /\ UNCHANGED <<raw, query, phase>>
  BY Zenon DEF SelfConnect, Filtered
<1>2. /\ raw \in Queries /\ query = [predicates |-> Joins(raw), filters |-> Constants(raw)]
      /\ i \in 1..Len(Joins(raw)) /\ pInfo = Joins(raw)[i] /\ pInfo \in Predicate(raw)
      /\ pl \in Bindings(raw) /\ pr \in Bindings(raw)
      /\ {Joins(raw)[k] : k \in 1..i' - 1} = Taken \cup {pInfo}
      /\ Ends(Taken \cup {pInfo}) = Ends(Taken) \cup {pl, pr}
  BY <1>1, NextPredicate
<1>3. PlanOK(raw, plan, Taken) /\ QueryInv /\ DOMAIN S = Ends(Taken)
  BY DEF PlanInv
<1>4. /\ pl \in DOMAIN S /\ pr \in DOMAIN S
      /\ getRootOfJoinTree(S, pl) = getRootOfJoinTree(S, pr)
  BY <1>1 DEF AlreadyConnected
<1> HIDE DEF pInfo
<1>5. /\ PlanOK(raw, new, Taken \cup {pInfo}) /\ DOMAIN new.disjoint_set = DOMAIN S
      /\ top \in DOMAIN S /\ getRootOfJoinTree(new.disjoint_set, top) = top
  <2>1. Ready(raw, plan, Taken, pInfo)
    BY <1>2, <1>3, <1>4 DEF Ready
  <2> QED
    BY <1>4, <2>1, FilterOK
<1> HIDE DEF new, top
<1>6. Taken' = Taken \cup {pInfo}
  BY <1>1, <1>2 DEF Taken
<1>7. PlanOK(raw, plan, Taken)'
  <2>1. PlanOK(raw', plan', Taken')
    BY <1>1, <1>5, <1>6
  <2> QED
    BY <2>1 DEF PlanOK, Plan, ForestOK, WiredOK, TreesOK
<1>8. DOMAIN plan'.disjoint_set = Ends(Taken')
  BY <1>1, <1>2, <1>3, <1>4, <1>5, <1>6
<1>9. root' \in DOMAIN plan'.disjoint_set /\ getRootOfJoinTree(plan'.disjoint_set, root') = root'
  BY <1>1, <1>5
<1>10. QueryInv'
  <2>1. i' = i + 1 /\ phase = "plan"
    BY <1>1 DEF takePredicate
  <2>2. Joins(raw) \in Seq(Predicate(raw))
    BY <1>2, QueryOK
  <2> QED
    BY <1>1, <1>2, <1>3, <2>1, <2>2 DEF QueryInv
<1> QED
  BY <1>7, <1>8, <1>9, <1>10 DEF PlanInv

\* Every step keeps the plan one for the predicates taken.
LEMMA PlanNext == PlanInv /\ [Next]_vars => PlanInv'
<1> SUFFICES ASSUME PlanInv, [Next]_vars PROVE PlanInv'
  OBVIOUS
<1>1. CASE NeedConnect
  BY <1>1, PlanNeedConnect
<1>2. CASE SelfConnect
  BY <1>2, PlanSelfConnect
<1>3. QueryInv /\ Joins(raw) \in Seq(Predicate(raw))
  BY QueryOK DEF PlanInv, QueryInv
<1>4. CASE Parse
  <2>1. QueryInv' /\ UNCHANGED <<raw, i, plan, root>>
    BY <1>3, <1>4 DEF Parse, QueryInv
  <2> QED
    BY <2>1, PlanRest
<1>5. CASE Require
  <2>1. i = Len(Joins(raw)) + 1
    BY <1>3, <1>5 DEF Require, QueryInv
  <2>2. QueryInv' /\ UNCHANGED <<raw, i, plan, root>>
    BY <1>3, <1>5, <2>1 DEF Require, QueryInv
  <2> QED
    BY <2>2, PlanRest
<1>6. CASE RequireInputs
  <2>1. QueryInv' /\ UNCHANGED <<raw, i, plan, root>>
    BY <1>3, <1>6 DEF RequireInputs, QueryInv
  <2> QED
    BY <2>1, PlanRest
<1>7. CASE Run
  <2>1. QueryInv' /\ UNCHANGED <<raw, i, plan, root>>
    BY <1>3, <1>7 DEF Run, QueryInv
  <2> QED
    BY <2>1, PlanRest
<1>8. CASE Checksum
  <2>1. QueryInv' /\ UNCHANGED <<raw, i, plan, root>>
    BY <1>3, <1>8, Zenon DEF Checksum, QueryInv
  <2> QED
    BY <2>1, PlanRest
<1>9. CASE UNCHANGED vars \/ Done
  <2>1. QueryInv' /\ UNCHANGED <<raw, i, plan, root>>
    BY <1>3, <1>9 DEF Done, vars, QueryInv
  <2> QED
    BY <2>1, PlanRest
<1> QED
  BY <1>1, <1>2, <1>4, <1>5, <1>6, <1>7, <1>8, <1>9 DEF Next

\* The plan is one for the predicates taken, always.
THEOREM PlanInvariant == Spec => []PlanInv
<1>1. Init => PlanInv
  BY PlanInit
<1>2. PlanInv /\ [Next]_vars => PlanInv'
  BY PlanNext
<1> QED
  BY <1>1, <1>2, PTL DEF Spec

\* So the forest of join trees follows the join graph.
LEMMA PlanFollows == PlanInv => TreesFollowGraph
<1> SUFFICES ASSUME PlanInv, phase = "plan" PROVE TreesFollowGraph
  BY DEF TreesFollowGraph
<1> DEFINE S == plan.disjoint_set
           taken == SubSeq(query.predicates, 1, i - 1)
<1>1. /\ QueryInv /\ PlanOK(raw, plan, Taken) /\ DOMAIN S = Ends(Taken)
  BY DEF PlanInv
<1>2. /\ raw \in Queries /\ i \in 1..Len(Joins(raw)) + 1 /\ query.predicates = Joins(raw)
  BY <1>1 DEF QueryInv
<1>3. ToSet(taken) = Taken
  <2>1. Joins(raw) \in Seq(Predicate(raw))
    BY <1>2, QueryOK
  <2>2. taken = SubSeq(Joins(raw), 1, i - 1)
    BY <1>2
  <2>3. /\ DOMAIN taken = 1..i - 1
        /\ \A k \in 1..i - 1 : taken[k] = Joins(raw)[k]
    BY <1>2, <2>1, <2>2
  <2> HIDE DEF taken
  <2> QED
    BY <2>3 DEF ToSet, Taken
<1>4. PICK R, d, B, T : Plan(raw, plan, Taken, R, d, B, T)
  BY <1>1 DEF PlanOK
<1> HIDE DEF taken
<1>5. Mentioned(taken) = DOMAIN S
  BY <1>1, <1>3 DEF Mentioned, Ends
<1>6. /\ ForestOK(S, R, d) /\ WiredOK(raw, operators, B, T)
      /\ TreesOK(S, operators, R, B, T, Taken)
  BY <1>4 DEF Plan, operators
<1>7. supplies = B
  BY <1>6, SuppliesIs
<1> HIDE DEF S
<1>8. /\ R \in [DOMAIN S -> DOMAIN S]
      /\ \A b \in DOMAIN S : S[R[b]].root_id = R[b] /\ R[R[b]] = R[b]
  BY <1>6 DEF ForestOK
<1>9. \A b \in DOMAIN S : getRootOfJoinTree(S, b) = R[b]
  BY <1>6, RootIs
<1>10. Trees(S, operators, R, B) /\ Kept(S, R, T, ToSet(taken)) /\ Tight(S, R, ToSet(taken))
  BY <1>3, <1>6 DEF TreesOK
<1>11. \A b \in DOMAIN S : Linked(taken, b) = {c \in DOMAIN S : R[c] = R[b]}
  BY <1>5, <1>8, <1>10, LinkedIs
<1>12. ASSUME NEW b \in DOMAIN S
       PROVE  LET top == getRootOfJoinTree(S, b)
              IN  /\ S[top].root_id = top
                  /\ {c \in DOMAIN S : getRootOfJoinTree(S, c) = top} = Linked(taken, b)
                  /\ supplies[S[top].tree] = Linked(taken, b)
                  /\ b # top => S[b].tree = null
  <2> DEFINE top == R[b]
             same == {c \in DOMAIN S : R[c] = top}
  <2>1. getRootOfJoinTree(S, b) = top /\ S[top].root_id = top /\ top \in DOMAIN S /\ R[top] = top
    BY <1>8, <1>9
  <2>2. {c \in DOMAIN S : getRootOfJoinTree(S, c) = top} = same
    BY <1>9
  <2>3. Linked(taken, b) = same
    BY <1>11
  <2>4. B[S[top].tree] = same
    BY <1>10, <2>1 DEF Trees
  <2>5. b # top => S[b].tree = null
    BY <1>10 DEF Trees
  <2> HIDE DEF top, same
  <2> QED
    BY <1>7, <2>1, <2>2, <2>3, <2>4, <2>5
<1> QED
  BY <1>12, Zenon DEF TreesFollowGraph, taken, S

\* Two bindings are in one join tree if and only if the predicates taken so
\* far connect them, and the tree reads exactly these bindings (addPredicate,
\* unionTwoJoinTrees and the path compression of Joiner.cpp).
THEOREM JoinerTreesFollowGraph == Spec => []TreesFollowGraph
<1>1. PlanInv => TreesFollowGraph
  BY PlanFollows
<1> QED
  BY <1>1, PlanInvariant, PTL

-----------------------------------------------------------------------------
(* Requiring the columns                                                   *)

\* The members of two sequences, one after the other.
LEMMA ConcatSet ==
    ASSUME NEW X, NEW s \in Seq(X), NEW t \in Seq(X)
    PROVE  s \o t \in Seq(X) /\ ToSet(s \o t) = ToSet(s) \cup ToSet(t)
<1> DEFINE m == Len(s)
           n == Len(t)
           c == s \o t
<1>1. m \in Nat /\ n \in Nat /\ DOMAIN s = 1..m /\ DOMAIN t = 1..n
  OBVIOUS
<1>2. /\ c \in Seq(X) /\ DOMAIN c = 1..m + n
      /\ \A k \in 1..m : c[k] = s[k]
      /\ \A k \in 1..n : c[m + k] = t[k]
  OBVIOUS
<1> HIDE DEF c, m, n
<1>3. \A k \in 1..m + n : k \in 1..m \/ (k - m \in 1..n /\ k = m + (k - m))
  BY <1>1
<1>4. \A k \in 1..m : k \in 1..m + n
  BY <1>1
<1>5. \A k \in 1..n : m + k \in 1..m + n
  BY <1>1
<1>6. ToSet(c) \subseteq ToSet(s) \cup ToSet(t)
  <2> SUFFICES ASSUME NEW k \in 1..m + n PROVE c[k] \in ToSet(s) \cup ToSet(t)
    BY <1>2 DEF ToSet
  <2>1. CASE k \in 1..m
    BY <1>1, <1>2, <2>1 DEF ToSet
  <2>2. CASE k - m \in 1..n /\ k = m + (k - m)
    <3>1. c[k] = t[k - m]
      BY <1>2, <2>2
    <3> QED
      BY <1>1, <2>2, <3>1 DEF ToSet
  <2> QED
    BY <1>3, <2>1, <2>2
<1>7. ToSet(s) \subseteq ToSet(c) /\ ToSet(t) \subseteq ToSet(c)
  BY <1>1, <1>2, <1>4, <1>5 DEF ToSet
<1> QED
  BY <1>2, <1>6, <1>7 DEF c

\* A plan for all predicates: the last tree reads all bindings, and has all
\* predicates, and is nobody's input.
Whole(B, T) ==
    /\ WiredOK(raw, operators, B, T)
    /\ tree \in 1..Len(operators) /\ B[tree] = Bindings(raw) /\ T[tree] = ToSet(Joins(raw))
    /\ \A o \in 1..Len(operators) : tree \notin inputs(operators[o])

\* When all predicates are taken, the plan is whole.
LEMMA PlanIsWhole ==
    ASSUME PlanInv, i = Len(Joins(raw)) + 1
    PROVE  \E B, T : Whole(B, T)
<1> DEFINE S == plan.disjoint_set
           all == ToSet(Joins(raw))
<1>1. /\ QueryInv /\ PlanOK(raw, plan, Taken) /\ DOMAIN S = Ends(Taken)
      /\ raw \in Queries /\ WellFormed(raw)
  BY DEF PlanInv, QueryInv
<1>2. Joins(raw) \in Seq(Predicate(raw)) /\ Len(Joins(raw)) \in Nat
  BY <1>1, QueryOK
<1>3. Joins(raw) # <<>> /\ Linked(Joins(raw), 0) = Bindings(raw)
  BY <1>1 DEF WellFormed
<1>4. Taken = all
  <2>1. DOMAIN Joins(raw) = 1..Len(Joins(raw)) /\ i - 1 = Len(Joins(raw))
    BY <1>2
  <2> QED
    BY <2>1 DEF Taken, ToSet
<1>5. Mentioned(Joins(raw)) = DOMAIN S
  BY <1>1, <1>4 DEF Mentioned, Ends
<1>6. i > 1 /\ Joins(raw)[1] \in all
  <2>1. Len(Joins(raw)) # 0
    BY <1>2, <1>3
  <2> QED
    BY <1>2, <2>1 DEF ToSet
<1>7. root \in DOMAIN S /\ getRootOfJoinTree(S, root) = root
  BY <1>6 DEF PlanInv
<1>8. PICK R, d, B, T : Plan(raw, plan, Taken, R, d, B, T)
  BY <1>1 DEF PlanOK
<1>9. /\ ForestOK(S, R, d) /\ WiredOK(raw, operators, B, T)
      /\ TreesOK(S, operators, R, B, T, all) /\ DOMAIN S \subseteq Bindings(raw)
  BY <1>4, <1>8 DEF Plan, operators
<1> HIDE DEF S
<1>10. R[root] = root /\ R \in [DOMAIN S -> DOMAIN S]
  <2>1. R \in [DOMAIN S -> DOMAIN S]
    BY <1>9 DEF ForestOK
  <2> QED
    BY <1>7, <1>9, <2>1, RootIs
<1>11. Trees(S, operators, R, B) /\ Kept(S, R, T, all) /\ Tight(S, R, all) /\ Used(operators, T, all)
  BY <1>9 DEF TreesOK
<1>12. 0 \in DOMAIN S
  <2> SUFFICES ASSUME 0 \notin DOMAIN S PROVE FALSE
    OBVIOUS
  <2> DEFINE p == Joins(raw)[1]
             nodes == {0} \cup Mentioned(Joins(raw))
  <2>1. p.left.binding \in DOMAIN S /\ p.left.binding # 0
    BY <1>6, <1>11 DEF Kept
  <2>2. \A x \in all : x.left.binding \in {0} <=> x.right.binding \in {0}
    BY <1>11 DEF Kept
  <2>3. p.left.binding \in Linked(Joins(raw), 0)
    BY <1>3, <1>9, <2>1
  <2>4. \A set \in SUBSET nodes :
           0 \in set /\ (\A x \in all : x.left.binding \in set <=> x.right.binding \in set)
             => p.left.binding \in set
    BY <2>3, Zenon DEF Linked
  <2>5. {0} \in SUBSET nodes
    OBVIOUS
  <2> HIDE DEF nodes
  <2>6. p.left.binding \in {0}
    BY <2>2, <2>4, <2>5
  <2> QED
    BY <2>1, <2>6
<1>13. Bindings(raw) = {c \in DOMAIN S : R[c] = R[0]}
  BY <1>3, <1>5, <1>10, <1>11, <1>12, LinkedIs
<1>14. Bindings(raw) = DOMAIN S /\ \A c \in DOMAIN S : R[c] = root
  <2>1. Bindings(raw) = DOMAIN S /\ \A c \in DOMAIN S : R[c] = R[0]
    BY <1>9, <1>13
  <2>2. R[0] = root
    BY <1>7, <1>10, <2>1
  <2> QED
    BY <2>1, <2>2
<1>15. tree = S[root].tree
  BY DEF tree, S
<1>16. /\ tree \in 1..Len(operators) /\ B[tree] = {c \in DOMAIN S : R[c] = root}
       /\ \A o \in 1..Len(operators) : tree \notin inputs(operators[o])
  BY <1>7, <1>10, <1>11, <1>15 DEF Trees
<1>17. B[tree] = Bindings(raw)
  BY <1>14, <1>16
<1>18. T[tree] = all
  <2>1. T[tree] \subseteq all
    BY <1>11, <1>16 DEF Used
  <2>2. ASSUME NEW p \in all PROVE p \in T[tree]
    <3>1. p.left.binding \in DOMAIN S /\ p \in T[S[R[p.left.binding]].tree]
      BY <1>11 DEF Kept
    <3>2. R[p.left.binding] = root
      BY <1>14, <3>1
    <3> QED
      BY <1>15, <3>1, <3>2
  <2> QED
    BY <2>1, <2>2
<1>19. Whole(B, T)
  BY <1>9, <1>16, <1>17, <1>18 DEF Whole
<1> QED
  BY <1>19, Zenon

\* What an operator requires of these columns.
LEMMA RequireOK ==
    ASSUME NEW X, NEW o, NEW infos \in Seq(X)
    PROVE  /\ require(o, infos) \in Seq(X)
           /\ ToSet(require(o, infos)) = {s \in ToSet(infos) : s.binding \in supplies[o]}
<1> DEFINE mine == {s \in ToSet(infos) : s.binding \in supplies[o]}
           some == Those(infos, mine)
<1>1. supplied(o, infos) = some
  BY Zenon DEF supplied
<1> HIDE DEF mine
<1>2. some \in Seq(X) /\ ToSet(some) = ToSet(infos) \cap mine
  BY ThoseOK
<1>3. ToSet(infos) \cap mine = mine
  BY DEF mine
<1> HIDE DEF some
<1>4. once(some) \in Seq(X) /\ ToSet(once(some)) = ToSet(some)
  BY <1>2, OnceOK
<1>5. require(o, infos) = some \/ require(o, infos) = once(some)
  BY <1>1 DEF require
<1> QED
  BY <1>2, <1>3, <1>4, <1>5 DEF mine

\* The columns required that the left input has, and the others.
LEMMA RequestedOK ==
    ASSUME NEW X, NEW o, asked[o] \in Seq(X)
    PROVE  /\ requestedColumnsLeft(o) \in Seq(X) /\ requestedColumnsRight(o) \in Seq(X)
           /\ ToSet(requestedColumnsLeft(o))
                = {s \in ToSet(asked[o]) : s.binding \in supplies[operators[o].left]}
           /\ ToSet(requestedColumnsRight(o))
                = {s \in ToSet(asked[o]) : s.binding \notin supplies[operators[o].left]}
<1> DEFINE infos == asked[o]
           l == operators[o].left
           mine == {s \in ToSet(infos) : s.binding \in supplies[l]}
           others == {s \in ToSet(infos) : s.binding \notin supplies[l]}
<1>1. requestedColumnsLeft(o) = Those(infos, mine) /\ requestedColumnsRight(o) = Those(infos, others)
  BY Zenon DEF requestedColumnsLeft, requestedColumnsRight, supplied, unsupplied
<1>2. ToSet(infos) \cap mine = mine /\ ToSet(infos) \cap others = others
  OBVIOUS
<1> HIDE DEF mine, others, infos
<1>3. infos \in Seq(X)
  BY DEF infos
<1>4. /\ Those(infos, mine) \in Seq(X) /\ ToSet(Those(infos, mine)) = ToSet(infos) \cap mine
      /\ Those(infos, others) \in Seq(X) /\ ToSet(Those(infos, others)) = ToSet(infos) \cap others
  BY <1>3, ThoseOK
<1> QED
  BY <1>1, <1>2, <1>4, Zenon DEF mine, others, infos, l

\* Of the columns asked of an operator and of its predicate, its inputs have
\* been asked for those that they supply.
Passed(a, o) ==
    LET op == operators[o]
        mine == supplies[op.left]
    IN  /\ op.type = "Join" =>
              /\ op.pInfo.left \in ToSet(a[op.left]) /\ op.pInfo.right \in ToSet(a[op.right])
              /\ \A s \in ToSet(a[o]) : IF s.binding \in mine THEN s \in ToSet(a[op.left])
                                                              ELSE s \in ToSet(a[op.right])
        /\ op.type = "SelfJoin" =>
              /\ op.pInfo.left \in ToSet(a[op.input]) /\ op.pInfo.right \in ToSet(a[op.input])
              /\ ToSet(a[o]) \subseteq ToSet(a[op.input])

\* Operators are asked for what they supply, the last one for the selections.
Asking(a) ==
    /\ a \in [1..Len(operators) -> Seq(Column(raw))]
    /\ \A o \in 1..Len(operators) : \A s \in ToSet(a[o]) : s.binding \in supplies[o]
    /\ ToSet(raw.selections) \subseteq ToSet(a[tree])

\* Where the columns are required, or the operators run.
Position ==
    LET n == Len(operators)
    IN  /\ phase = "require" => at \in 1..n
        /\ phase = "run" => at \in 1..n + 1
        /\ phase = "done" => at = n + 1

\* The columns are passed down from the operators above at.
AskedInv ==
    phase \in {"require", "run", "done"} =>
        /\ Asking(asked) /\ Position
        /\ \A o \in 1..Len(operators) : (phase = "require" => o > at) => Passed(asked, o)

\* The first columns.
LEMMA AskedRequire == PlanInv /\ Require => AskedInv'
<1> SUFFICES ASSUME PlanInv, Require PROVE AskedInv'
  OBVIOUS
<1> DEFINE n == Len(operators)
           X == Column(raw)
           a == [o \in DOMAIN operators |-> IF o = tree THEN require(o, raw.selections) ELSE <<>>]
<1>1. /\ phase = "plan" /\ i > Len(query.predicates) /\ asked' = a /\ at' = n /\ phase' = "require"
      /\ UNCHANGED <<raw, root, plan>>
  BY DEF Require
<1>2. /\ raw \in Queries /\ i \in 1..Len(Joins(raw)) + 1 /\ query.predicates = Joins(raw)
  BY <1>1 DEF PlanInv, QueryInv
<1>3. i = Len(Joins(raw)) + 1
  <2>1. Joins(raw) \in Seq(Predicate(raw))
    BY <1>2, QueryOK
  <2> QED
    BY <1>1, <1>2, <2>1
<1>4. PICK B, T : Whole(B, T)
  BY <1>3, PlanIsWhole
<1>5. WiredOK(raw, operators, B, T) /\ tree \in 1..n /\ B[tree] = Bindings(raw)
  BY <1>4 DEF Whole
<1>6. supplies = B
  BY <1>5, SuppliesIs
<1>7. n \in Nat /\ DOMAIN operators = 1..n
  BY <1>5 DEF WiredOK
<1>8. raw.selections \in Seq(X)
  BY <1>2, QueriesAssumption
<1> HIDE DEF n, X
<1>9. /\ require(tree, raw.selections) \in Seq(X)
      /\ ToSet(require(tree, raw.selections)) = {s \in ToSet(raw.selections) : s.binding \in supplies[tree]}
  BY <1>8, RequireOK
<1>10. \A s \in ToSet(raw.selections) : s.binding \in supplies[tree]
  <2>1. \A s \in ToSet(raw.selections) : s \in X
    BY <1>8 DEF ToSet
  <2> QED
    BY <1>5, <1>6, <2>1 DEF X, Column
<1>11. ToSet(require(tree, raw.selections)) = ToSet(raw.selections)
  BY <1>9, <1>10
<1>12. <<>> \in Seq(X) /\ ToSet(<<>>) = {}
  BY DEF ToSet
<1>13. \A o \in 1..n : a[o] = IF o = tree THEN require(o, raw.selections) ELSE <<>>
  BY <1>7
<1>14. a \in [1..n -> Seq(X)]
  BY <1>7, <1>9, <1>12
<1> HIDE DEF a
<1>15. \A o \in 1..n : \A s \in ToSet(a[o]) : s.binding \in supplies[o]
  BY <1>9, <1>12, <1>13
<1>16. ToSet(raw.selections) \subseteq ToSet(a[tree])
  BY <1>5, <1>11, <1>13
<1>17. Asking(a)
  BY <1>14, <1>15, <1>16 DEF Asking, n, X
<1>18. operators' = operators /\ supplies' = supplies /\ tree' = tree
  BY <1>1 DEF operators, supplies, tree
<1>19. Asking(asked)'
  BY <1>1, <1>17, <1>18 DEF Asking
<1>20. n \in 1..n
  BY <1>5, <1>7
<1>21. Position'
  BY <1>1, <1>18, <1>20 DEF Position, n
<1>22. \A o \in 1..n : ~(o > n)
  BY <1>7
<1> QED
  BY <1>1, <1>18, <1>19, <1>21, <1>22 DEF AskedInv, n

\* The columns of the inputs of one operator.
LEMMA AskedInputs == PlanInv /\ AskedInv /\ RequireInputs => AskedInv'
<1> SUFFICES ASSUME PlanInv, AskedInv, RequireInputs PROVE AskedInv'
  OBVIOUS
<1> DEFINE n == Len(operators)
           X == Column(raw)
           op == operators[at]
           l == op.left
           r == op.right
           p == op.pInfo
<1>1. phase = "require" /\ UNCHANGED <<raw, root, plan>>
  BY DEF RequireInputs
<1>2. /\ raw \in Queries /\ i = Len(Joins(raw)) + 1
  BY <1>1 DEF PlanInv, QueryInv
<1>3. PICK B, T : Whole(B, T)
  BY <1>2, PlanIsWhole
<1>4. /\ WiredOK(raw, operators, B, T) /\ tree \in 1..n
      /\ \A o \in 1..n : tree \notin inputs(operators[o])
  BY <1>3 DEF Whole
<1>5. supplies = B
  BY <1>4, SuppliesIs
<1>6. n \in Nat /\ DOMAIN operators = 1..n /\ at \in 1..n /\ Asking(asked) /\ op \in Op(raw)
      /\ OpOK(raw, operators, B, T, at)
  BY <1>1, <1>4 DEF WiredOK, AskedInv, Position
<1>7. /\ asked \in [1..n -> Seq(X)]
      /\ \A o \in 1..n : \A s \in ToSet(asked[o]) : s.binding \in supplies[o]
      /\ ToSet(raw.selections) \subseteq ToSet(asked[tree])
  BY <1>6 DEF Asking
<1>8. \A o \in 1..n : o > at => Passed(asked, o)
  BY <1>1 DEF AskedInv
<1>9. \A o, x \in 1..n : o # x => inputs(operators[o]) \cap inputs(operators[x]) = {}
  BY <1>4 DEF WiredOK
<1>10. \A o \in 1..n : inputs(operators[o]) \subseteq 1..o - 1
  BY <1>4 DEF WiredOK, OpOK
<1>11. operators' = operators /\ supplies' = supplies /\ tree' = tree
  BY <1>1 DEF operators, supplies, tree
<1>12. IF at > 1 THEN at' = at - 1 /\ phase' = "require" ELSE at' = at /\ phase' = "run"
  BY <1>1 DEF RequireInputs
<1> HIDE DEF n, X
<1>13. asked[at] \in Seq(X)
  BY <1>6, <1>7
<1>14. \A o \in 1..n : operators[o] \in Op(raw)
  BY <1>4 DEF WiredOK, n
<1>15. /\ asked' \in [1..n -> Seq(X)]
       /\ \A o \in 1..n : o \notin inputs(op) => asked'[o] = asked[o]
       /\ \A o \in inputs(op) : \A s \in ToSet(asked'[o]) : s.binding \in supplies[o]
       /\ Passed(asked', at)
  <2>1. at \notin inputs(op) /\ inputs(op) \subseteq 1..n
    <3>1. 1..at - 1 \subseteq 1..n /\ at \notin 1..at - 1
      BY <1>6
    <3> QED
      BY <1>6, <1>10, <3>1
  <2>2. CASE op.type = "Scan" /\ inputs(op) = {}
    <3>1. asked' = asked
      BY <2>2 DEF RequireInputs
    <3>2. Passed(asked', at)
      BY <2>2 DEF Passed
    <3> QED
      BY <1>7, <2>2, <3>1, <3>2
  <2>3. CASE op.type = "Join" /\ inputs(op) = {l, r} /\ p \in Predicate(raw)
    <3> DEFINE u == requestedColumnsLeft(at) \o <<p.left>>
               v == requestedColumnsRight(at) \o <<p.right>>
    <3>1. asked' = [asked EXCEPT ![l] = require(l, u), ![r] = require(r, v)]
      BY <2>3 DEF RequireInputs
    <3>2. p.left \in X /\ p.right \in X
      BY <2>3 DEF Predicate, X
    <3>3. /\ requestedColumnsLeft(at) \in Seq(X) /\ requestedColumnsRight(at) \in Seq(X)
          /\ ToSet(requestedColumnsLeft(at)) = {s \in ToSet(asked[at]) : s.binding \in supplies[l]}
          /\ ToSet(requestedColumnsRight(at)) = {s \in ToSet(asked[at]) : s.binding \notin supplies[l]}
      BY <1>13, RequestedOK
    <3>4. /\ u \in Seq(X) /\ ToSet(u) = ToSet(requestedColumnsLeft(at)) \cup {p.left}
          /\ v \in Seq(X) /\ ToSet(v) = ToSet(requestedColumnsRight(at)) \cup {p.right}
      <4> DEFINE f == requestedColumnsLeft(at)
                 g == requestedColumnsRight(at)
                 a == <<p.left>>
                 b == <<p.right>>
      <4>1. /\ f \in Seq(X) /\ a \in Seq(X) /\ DOMAIN a = {1} /\ a[1] = p.left
            /\ g \in Seq(X) /\ b \in Seq(X) /\ DOMAIN b = {1} /\ b[1] = p.right
            /\ u = f \o a /\ v = g \o b
        BY <3>2, <3>3
      <4> HIDE DEF f, g, a, b, u, v
      <4>2. ToSet(a) = {p.left} /\ ToSet(b) = {p.right}
        BY <4>1 DEF ToSet
      <4>3. u \in Seq(X) /\ ToSet(u) = ToSet(f) \cup ToSet(a)
        BY <4>1, ConcatSet
      <4>4. v \in Seq(X) /\ ToSet(v) = ToSet(g) \cup ToSet(b)
        BY <4>1, ConcatSet
      <4> QED
        BY <4>2, <4>3, <4>4, Zenon DEF f, g
    <3> HIDE DEF u, v
    <3>5. /\ require(l, u) \in Seq(X) /\ ToSet(require(l, u)) = {s \in ToSet(u) : s.binding \in supplies[l]}
          /\ require(r, v) \in Seq(X) /\ ToSet(require(r, v)) = {s \in ToSet(v) : s.binding \in supplies[r]}
      BY <3>4, RequireOK
    <3>6. l \in 1..n /\ r \in 1..n /\ l # r /\ at # l /\ at # r
      BY <1>6, <2>1, <2>3 DEF OpOK
    <3>7. /\ p.left.binding \in supplies[l] /\ p.right.binding \in supplies[r]
          /\ supplies[at] = supplies[l] \cup supplies[r]
      BY <1>5, <1>6, <2>3 DEF OpOK
    <3>8. /\ asked'[l] = require(l, u) /\ asked'[r] = require(r, v) /\ asked'[at] = asked[at]
          /\ \A o \in 1..n : o \notin inputs(op) => asked'[o] = asked[o]
          /\ asked' \in [1..n -> Seq(X)]
      <4> HIDE DEF op, l, r
      <4>1. asked'[l] = require(l, u) /\ asked'[r] = require(r, v)
        BY <1>7, <3>1, <3>6
      <4>2. \A o \in 1..n : o # l /\ o # r => asked'[o] = asked[o]
        BY <1>7, <3>1
      <4>3. asked' \in [1..n -> Seq(X)]
        BY <1>7, <3>1, <3>5
      <4> QED
        BY <1>6, <2>3, <3>6, <4>1, <4>2, <4>3
    <3>9. \A s \in ToSet(asked[at]) : s.binding \in supplies[at]
      BY <1>6, <1>7
    <3>10. /\ p.left \in ToSet(asked'[l]) /\ p.right \in ToSet(asked'[r])
           /\ \A s \in ToSet(asked'[at]) : IF s.binding \in supplies[l] THEN s \in ToSet(asked'[l])
                                                                       ELSE s \in ToSet(asked'[r])
      <4> HIDE DEF op, l, r, p
      <4> QED
        BY <3>3, <3>4, <3>5, <3>7, <3>8, <3>9
    <3>11. Passed(asked', at)
      BY <2>3, <3>10 DEF Passed
    <3>12. \A o \in inputs(op) : \A s \in ToSet(asked'[o]) : s.binding \in supplies[o]
      BY <2>3, <3>5, <3>8
    <3> QED
      BY <3>8, <3>11, <3>12
  <2>4. CASE op.type = "SelfJoin" /\ inputs(op) = {op.input} /\ p \in Predicate(raw)
    <3> DEFINE c == op.input
               u == asked[at] \o <<p.left, p.right>>
    <3>1. asked' = [asked EXCEPT ![c] = require(c, u)]
      BY <2>4 DEF RequireInputs
    <3>2. p.left \in X /\ p.right \in X
      BY <2>4 DEF Predicate, X
    <3>3. u \in Seq(X) /\ ToSet(u) = ToSet(asked[at]) \cup {p.left, p.right}
      <4> DEFINE f == asked[at]
                 a == <<p.left, p.right>>
      <4>1. /\ f \in Seq(X) /\ a \in Seq(X) /\ DOMAIN a = {1, 2} /\ a[1] = p.left /\ a[2] = p.right
            /\ u = f \o a
        BY <1>13, <3>2
      <4> HIDE DEF f, a, u
      <4>2. ToSet(a) = {p.left, p.right}
        BY <4>1 DEF ToSet
      <4>3. u \in Seq(X) /\ ToSet(u) = ToSet(f) \cup ToSet(a)
        BY <4>1, ConcatSet
      <4> QED
        BY <4>2, <4>3, Zenon DEF f
    <3> HIDE DEF u
    <3>4. require(c, u) \in Seq(X) /\ ToSet(require(c, u)) = {s \in ToSet(u) : s.binding \in supplies[c]}
      BY <3>3, RequireOK
    <3>5. c \in 1..n /\ at # c
      BY <2>1, <2>4
    <3>6. /\ p.left.binding \in supplies[c] /\ p.right.binding \in supplies[c] /\ supplies[at] = supplies[c]
      BY <1>5, <1>6, <2>4 DEF OpOK
    <3>7. /\ asked'[c] = require(c, u) /\ asked'[at] = asked[at]
          /\ \A o \in 1..n : o \notin inputs(op) => asked'[o] = asked[o]
          /\ asked' \in [1..n -> Seq(X)]
      <4> HIDE DEF op, c
      <4> QED
        BY <1>6, <1>7, <2>4, <3>1, <3>4, <3>5 DEF c
    <3>8. \A s \in ToSet(asked[at]) : s.binding \in supplies[at]
      BY <1>6, <1>7
    <3>9. /\ p.left \in ToSet(asked'[c]) /\ p.right \in ToSet(asked'[c])
          /\ ToSet(asked'[at]) \subseteq ToSet(asked'[c])
      <4> HIDE DEF op, c, p
      <4> QED
        BY <3>3, <3>4, <3>6, <3>7, <3>8
    <3>10. Passed(asked', at)
      BY <2>4, <3>9 DEF Passed
    <3>11. \A o \in inputs(op) : \A s \in ToSet(asked'[o]) : s.binding \in supplies[o]
      BY <2>4, <3>4, <3>7
    <3> QED
      BY <3>7, <3>10, <3>11
  <2> HIDE DEF op
  <2> QED
    BY <1>6, <2>2, <2>3, <2>4, OpTypes DEF l, r, p
<1> HIDE DEF op
<1>16. ASSUME NEW o \in 1..n, o > at PROVE Passed(asked', o)
  <2> DEFINE x == operators[o]
  <2>1. inputs(x) \cap inputs(op) = {} /\ inputs(x) \subseteq 1..n
    <3>1. o # at /\ 1..o - 1 \subseteq 1..n
      BY <1>6, <1>16
    <3> QED
      BY <1>6, <1>9, <1>10, <1>16, <3>1 DEF op
  <2>2. o \notin inputs(op)
    <3>1. o \notin 1..at - 1
      BY <1>6, <1>16
    <3> QED
      BY <1>6, <1>10, <3>1 DEF op
  <2>3. asked'[o] = asked[o] /\ \A c \in inputs(x) : asked'[c] = asked[c]
    BY <1>15, <2>1, <2>2
  <2>4. Passed(asked, o) /\ x \in Op(raw)
    BY <1>8, <1>14, <1>16
  <2>5. CASE x.type = "Scan"
    BY <2>5 DEF Passed
  <2>6. CASE x.type = "Join" /\ inputs(x) = {x.left, x.right}
    BY <2>3, <2>4, <2>6 DEF Passed
  <2>7. CASE x.type = "SelfJoin" /\ inputs(x) = {x.input}
    BY <2>3, <2>4, <2>7 DEF Passed
  <2> HIDE DEF x
  <2> QED
    BY <2>4, <2>5, <2>6, <2>7, OpTypes
<1>17. Asking(asked')
  <2>1. \A o \in 1..n : \A s \in ToSet(asked'[o]) : s.binding \in supplies[o]
    BY <1>7, <1>15
  <2>2. asked'[tree] = asked[tree]
    BY <1>4, <1>6, <1>15 DEF op
  <2> QED
    BY <1>7, <1>15, <2>1, <2>2 DEF Asking, n, X
<1>18. Asking(asked)'
  BY <1>1, <1>11, <1>17 DEF Asking
<1>19. Position'
  BY <1>6, <1>11, <1>12 DEF Position, n
<1>20. \A o \in 1..n : (phase' = "require" => o > at') => Passed(asked', o)
  <2> SUFFICES ASSUME NEW o \in 1..n, phase' = "require" => o > at' PROVE Passed(asked', o)
    OBVIOUS
  <2>1. o = at \/ o > at
    BY <1>6, <1>12
  <2> QED
    BY <1>15, <1>16, <2>1
<1>21. \A o \in 1..n : Passed(asked, o)' <=> Passed(asked', o)
  BY <1>11 DEF Passed
<1> QED
  BY <1>11, <1>18, <1>19, <1>20, <1>21 DEF AskedInv, n

\* Every step keeps that.
LEMMA AskedNext == PlanInv /\ PlanInv' /\ AskedInv /\ [Next]_vars => AskedInv'
<1> SUFFICES ASSUME PlanInv, PlanInv', AskedInv, [Next]_vars PROVE AskedInv'
  OBVIOUS
<1>1. CASE Require
  BY <1>1, AskedRequire
<1>2. CASE RequireInputs
  BY <1>2, AskedInputs
<1>3. CASE NeedConnect \/ SelfConnect \/ Parse
  <2>1. phase \in {"parse", "plan"} /\ phase' \in {"parse", "plan"}
    BY <1>3 DEF NeedConnect, SelfConnect, Parse, takePredicate
  <2> QED
    BY <2>1, SMTT(30) DEF AskedInv
<1>4. CASE Run
  <2>1. /\ phase = "run" /\ phase' = "run" /\ at <= Len(operators) /\ at' = at + 1
        /\ UNCHANGED <<raw, root, plan, asked>>
    BY <1>4 DEF Run
  <2>2. operators' = operators /\ supplies' = supplies /\ tree' = tree
    BY <2>1 DEF operators, supplies, tree
  <2>3. Len(operators) \in Nat
    <3>1. PICK R, d, B, T : Plan(raw, plan, Taken, R, d, B, T)
      BY DEF PlanInv, PlanOK
    <3>2. WiredOK(raw, operators, B, T)
      BY <3>1 DEF Plan, operators
    <3> QED
      BY <3>2 DEF WiredOK
  <2>4. /\ Asking(asked) /\ Position /\ \A o \in 1..Len(operators) : Passed(asked, o)
    BY <2>1 DEF AskedInv
  <2>5. Asking(asked)'
    BY <2>1, <2>2, <2>4 DEF Asking
  <2>6. Position'
    BY <2>1, <2>2, <2>3, <2>4 DEF Position
  <2>7. \A o \in 1..Len(operators) : Passed(asked, o)'
    BY <2>1, <2>2, <2>4 DEF Passed
  <2> QED
    BY <2>1, <2>2, <2>5, <2>6, <2>7 DEF AskedInv
<1>5. CASE Checksum
  <2>1. /\ phase = "run" /\ phase' = "done" /\ at > Len(operators)
        /\ UNCHANGED <<raw, root, plan, asked, at>>
    BY <1>5, Zenon DEF Checksum
  <2>2. operators' = operators /\ supplies' = supplies /\ tree' = tree
    BY <2>1 DEF operators, supplies, tree
  <2>3. Len(operators) \in Nat
    <3>1. PICK R, d, B, T : Plan(raw, plan, Taken, R, d, B, T)
      BY DEF PlanInv, PlanOK
    <3>2. WiredOK(raw, operators, B, T)
      BY <3>1 DEF Plan, operators
    <3> QED
      BY <3>2 DEF WiredOK
  <2>4. /\ Asking(asked) /\ Position /\ \A o \in 1..Len(operators) : Passed(asked, o)
    BY <2>1 DEF AskedInv
  <2>5. Asking(asked)'
    BY <2>1, <2>2, <2>4 DEF Asking
  <2>6. Position'
    BY <2>1, <2>2, <2>3, <2>4 DEF Position
  <2>7. \A o \in 1..Len(operators) : Passed(asked, o)'
    BY <2>1, <2>2, <2>4 DEF Passed
  <2> QED
    BY <2>1, <2>2, <2>5, <2>6, <2>7 DEF AskedInv
<1>6. CASE UNCHANGED vars \/ Done
  <2>1. UNCHANGED <<raw, root, plan, asked, at, phase>>
    BY <1>6 DEF Done, vars
  <2>2. operators' = operators /\ supplies' = supplies /\ tree' = tree
    BY <2>1 DEF operators, supplies, tree
  <2>3. Asking(asked)' <=> Asking(asked)
    BY <2>1, <2>2 DEF Asking
  <2>4. Position' <=> Position
    BY <2>1, <2>2 DEF Position
  <2>5. \A o \in 1..Len(operators) : Passed(asked, o)' <=> Passed(asked, o)
    BY <2>1, <2>2 DEF Passed
  <2> QED
    BY <2>1, <2>2, <2>3, <2>4, <2>5 DEF AskedInv
<1> QED
  BY <1>1, <1>2, <1>3, <1>4, <1>5, <1>6 DEF Next

\* The columns are passed down the tree, always.
THEOREM AskedInvariant == Spec => []AskedInv
<1>1. Init => AskedInv
  BY DEF Init, AskedInv
<1>2. PlanInv /\ PlanInv' /\ AskedInv /\ [Next]_vars => AskedInv'
  BY AskedNext
<1> QED
  BY <1>1, <1>2, PlanInvariant, PTL DEF Spec

\* So every column that is looked up is there.
LEMMA AskedResolve == PlanInv /\ AskedInv => ColumnsResolve
<1> SUFFICES ASSUME PlanInv, AskedInv, phase \in {"run", "done"} PROVE ColumnsResolve
  BY DEF ColumnsResolve
<1> DEFINE n == Len(operators)
<1>1. Asking(asked) /\ \A o \in 1..n : Passed(asked, o)
  BY DEF AskedInv
<1>2. ToSet(raw.selections) \subseteq ToSet(asked[tree]) /\ asked \in [1..n -> Seq(Column(raw))]
  BY <1>1 DEF Asking
<1>3. PICK R, d, B, T : Plan(raw, plan, Taken, R, d, B, T)
  BY DEF PlanInv, PlanOK
<1>4. DOMAIN operators = 1..n /\ \A o \in 1..n : operators[o] \in Op(raw)
  BY <1>3 DEF Plan, operators, WiredOK
<1> HIDE DEF n
<1>5. ASSUME NEW o \in 1..n
      PROVE  LET op == operators[o]
             IN  CASE op.type = "Scan" -> TRUE
                   [] op.type = "Join" ->
                       /\ ToSet(requestedColumnsLeft(o)) \cup {op.pInfo.left} \subseteq ToSet(asked[op.left])
                       /\ ToSet(requestedColumnsRight(o)) \cup {op.pInfo.right} \subseteq ToSet(asked[op.right])
                   [] op.type = "SelfJoin" ->
                       ToSet(asked[o]) \cup {op.pInfo.left, op.pInfo.right} \subseteq ToSet(asked[op.input])
  <2> DEFINE op == operators[o]
  <2>1. Passed(asked, o) /\ op \in Op(raw) /\ asked[o] \in Seq(Column(raw))
    BY <1>1, <1>2, <1>4
  <2>2. /\ ToSet(requestedColumnsLeft(o)) = {s \in ToSet(asked[o]) : s.binding \in supplies[op.left]}
        /\ ToSet(requestedColumnsRight(o)) = {s \in ToSet(asked[o]) : s.binding \notin supplies[op.left]}
    BY <2>1, RequestedOK
  <2>3. CASE op.type = "Scan"
    BY <2>3
  <2>4. CASE op.type = "Join"
    <3>1. /\ ToSet(requestedColumnsLeft(o)) \cup {op.pInfo.left} \subseteq ToSet(asked[op.left])
          /\ ToSet(requestedColumnsRight(o)) \cup {op.pInfo.right} \subseteq ToSet(asked[op.right])
      BY <2>1, <2>2, <2>4 DEF Passed
    <3> QED
      BY <2>4, <3>1
  <2>5. CASE op.type = "SelfJoin"
    <3>1. ToSet(asked[o]) \cup {op.pInfo.left, op.pInfo.right} \subseteq ToSet(asked[op.input])
      BY <2>1, <2>5 DEF Passed
    <3> QED
      BY <2>5, <3>1
  <2>6. op.type \in {"Scan", "Join", "SelfJoin"}
    BY <2>1, OpTypes
  <2> QED
    BY <2>3, <2>4, <2>5, <2>6
<1> QED
  BY <1>2, <1>4, <1>5, Zenon DEF ColumnsResolve

\* Every column that an operator looks up in its input is there, so resolve
\* never gives a wrong column for one that is missing (Operators.cpp).
THEOREM JoinerColumnsResolve == Spec => []ColumnsResolve
<1>1. PlanInv /\ AskedInv => ColumnsResolve
  BY AskedResolve
<1> QED
  BY <1>1, PlanInvariant, AskedInvariant, PTL

-----------------------------------------------------------------------------
(* Running the operators                                                   *)

\* A sequence that has each member of a set once.
Lists(t, W) ==
    /\ Len(t) \in Nat /\ t \in [1..Len(t) -> W] /\ DOMAIN t = 1..Len(t)
    /\ \A j, k \in 1..Len(t) : t[j] = t[k] => j = k
    /\ \A x \in W : \E k \in 1..Len(t) : t[k] = x

\* Those of a sequence without repetition.
LEMMA ThoseLists ==
    ASSUME NEW X, NEW seq \in Seq(X), IsInjective(seq), NEW W \in SUBSET ToSet(seq)
    PROVE  Lists(Those(seq, W), W)
<1> DEFINE t == Those(seq, W)
<1>1. t \in Seq(X) /\ ToSet(t) = ToSet(seq) \cap W /\ IsInjective(t)
  BY ThoseOK
<1> HIDE DEF t
<1>2. Len(t) \in Nat /\ DOMAIN t = 1..Len(t) /\ ToSet(t) = W
  BY <1>1
<1>3. \A k \in 1..Len(t) : t[k] \in W
  BY <1>2 DEF ToSet
<1>4. \A x \in W : \E k \in 1..Len(t) : t[k] = x
  BY <1>2 DEF ToSet
<1>5. \A j, k \in 1..Len(t) : t[j] = t[k] => j = k
  BY <1>1, <1>2 DEF IsInjective
<1>6. t = [k \in 1..Len(t) |-> t[k]]
  BY <1>1
<1>7. t \in [1..Len(t) -> W]
  BY <1>3, <1>6
<1> QED
  BY <1>2, <1>4, <1>5, <1>7 DEF Lists, t

\* Those of the numbers of the rows.
LEMMA RowsListed ==
    ASSUME NEW size \in Nat, NEW W \in SUBSET (1..size)
    PROVE  Lists(Those(rowNumbers(size), W), W)
<1> DEFINE seq == rowNumbers(size)
<1>1. seq \in Seq(Nat) /\ DOMAIN seq = 1..size /\ \A k \in 1..size : seq[k] = k
  BY DEF rowNumbers
<1> HIDE DEF seq
<1>2. IsInjective(seq) /\ ToSet(seq) = 1..size
  BY <1>1 DEF IsInjective, ToSet
<1> QED
  BY <1>1, <1>2, ThoseLists DEF seq

\* The relations of a query.
LEMMA RelationOK ==
    ASSUME raw \in Queries
    PROVE  /\ \A b \in Bindings(raw) : relation(b).size \in Nat
           /\ \A s \in Column(raw) :
                relation(s.binding).columns[s.colId] \in [1..relation(s.binding).size -> Nat]
<1>1. \A b \in Bindings(raw) : raw.relationIds[b + 1] \in DOMAIN Relations
  <2>1. raw.relationIds \in Seq(DOMAIN Relations)
    BY QueriesAssumption
  <2> DEFINE ids == raw.relationIds
             D == DOMAIN Relations
  <2> HIDE DEF ids, D
  <2>2. Len(ids) \in Nat /\ \A k \in 1..Len(ids) : ids[k] \in D
    BY <2>1 DEF ids, D
  <2>3. \A b \in 0..Len(ids) - 1 : b + 1 \in 1..Len(ids)
    BY <2>2
  <2> QED
    BY <2>2, <2>3 DEF Bindings, ids, D
<1>2. \A b \in Bindings(raw) : relation(b).size \in Nat
  BY <1>1, RelationsAssumption DEF relation
<1>3. ASSUME NEW s \in Column(raw)
      PROVE  relation(s.binding).columns[s.colId] \in [1..relation(s.binding).size -> Nat]
  <2> DEFINE id == raw.relationIds[s.binding + 1]
  <2>1. s.binding \in Bindings(raw) /\ s.colId \in DOMAIN Relations[id].columns
    BY DEF Column
  <2>2. id \in DOMAIN Relations
    BY <1>1, <2>1
  <2> HIDE DEF id
  <2>3. Relations[id].columns[s.colId] \in [1..Relations[id].size -> Nat]
    BY <2>1, <2>2, RelationsAssumption
  <2> QED
    BY <2>3 DEF relation, id
<1> QED
  BY <1>2, <1>3

\* Rows of the bindings of a set, one of each; those that satisfy the filters
\* on them; and those on which the two sides of the predicates are equal.
Rows(A) == {g \in [A -> Nat] : \A b \in A : g[b] \in 1..relation(b).size}
Passes(g, A) == \A f \in ToSet(Constants(raw)) : f.left.binding \in A => satisfies(value(g, f.left), f)
Agrees(g, P) == \A p \in P : value(g, p.left) = value(g, p.right)
Fits(A, P) == {g \in Rows(A) : Passes(g, A) /\ Agrees(g, P)}

\* All of them, from 1 to n.
Enumerates(G, n, A, P) ==
    /\ n \in Nat /\ G \in [1..n -> Fits(A, P)]
    /\ \A j, k \in 1..n : G[j] = G[k] => j = k
    /\ \A g \in Fits(A, P) : \E k \in 1..n : G[k] = g

\* A column of them.
Values(G, n, info) == [k \in 1..n |-> value(G[k], info)]

\* A result with a row for each of them, and with these columns.
HasColumns(res, G) ==
    /\ res.select \in Seq(Column(raw))
    /\ DOMAIN res.columns = 1..Len(res.select)
    /\ \A k \in 1..Len(res.select) : res.columns[k] = Values(G, res.size, res.select[k])

\* It has all of them, and the columns wanted.
Is(res, want, A, P, G) ==
    Enumerates(G, res.size, A, P) /\ HasColumns(res, G) /\ ToSet(res.select) = ToSet(want)

\* A column that is there is found.
LEMMA ColumnFound ==
    ASSUME NEW o, NEW G, HasColumns(results[o], G), NEW info \in ToSet(results[o].select)
    PROVE  columnOf(o, info) = Values(G, results[o].size, info)
<1> DEFINE select == results[o].select
           I == {k \in 1..Len(select) : select[k] = info}
           at1 == resolve(o, info)
<1>1. select \in Seq(Column(raw))
  BY DEF HasColumns
<1>2. Len(select) \in Nat /\ DOMAIN select = 1..Len(select)
  BY <1>1
<1>3. Contains(select, info) /\ I # {}
  <2>1. PICK k \in DOMAIN select : select[k] = info
    BY DEF ToSet
  <2> QED
    BY <1>2, <2>1 DEF Contains
<1>4. at1 = Max(I)
  BY <1>3, Zenon DEF resolve, SelectLastInSeq
<1>5. at1 \in I
  <2>1. I \in SUBSET (0..Len(select))
    BY <1>2
  <2> HIDE DEF I, at1
  <2> QED
    BY <1>2, <1>3, <1>4, <2>1, MaxOK
<1>6. columnOf(o, info) = results[o].columns[at1]
  BY DEF columnOf
<1> HIDE DEF at1
<1> QED
  BY <1>5, <1>6 DEF HasColumns

\* H has, from 1 to m, the values of these rows of G.
Copies(H, m, G, rows, infos) ==
    \A n \in 1..m : \A s \in ToSet(infos) : value(H[n], s) = value(G[rows[n]], s)

\* These columns of H.
AreValues(columns, H, m, infos) ==
    /\ columns \in Seq({Values(H, m, s) : s \in Column(raw)}) /\ Len(columns) = Len(infos)
    /\ DOMAIN columns = 1..Len(infos)
    /\ \A k \in 1..Len(infos) : columns[k] = Values(H, m, infos[k])

\* Columns of an input, for some of its rows.
LEMMA CopiedIs ==
    ASSUME NEW o, NEW G, HasColumns(results[o], G), NEW infos \in Seq(Column(raw)),
           ToSet(infos) \subseteq ToSet(results[o].select),
           NEW m \in Nat, NEW rows \in [1..m -> 1..results[o].size],
           NEW H, Copies(H, m, G, rows, infos)
    PROVE  AreValues(copied(o, infos, rows), H, m, infos)
<1>1. DOMAIN infos = 1..Len(infos) /\ DOMAIN rows = 1..m
  OBVIOUS
<1>2. copied(o, infos, rows) = [k \in 1..Len(infos) |-> [n \in 1..m |-> columnOf(o, infos[k])[rows[n]]]]
  BY <1>1 DEF copied
<1>3. ASSUME NEW k \in 1..Len(infos)
      PROVE  [n \in 1..m |-> columnOf(o, infos[k])[rows[n]]] = Values(H, m, infos[k])
  <2> DEFINE info == infos[k]
             size == results[o].size
  <2>1. info \in ToSet(results[o].select) /\ info \in ToSet(infos)
    BY <1>1 DEF ToSet
  <2> HIDE DEF info
  <2>2. columnOf(o, info) = Values(G, size, info)
    BY <2>1, ColumnFound
  <2>3. \A n \in 1..m : rows[n] \in 1..size
    OBVIOUS
  <2>4. \A n \in 1..m : columnOf(o, info)[rows[n]] = value(G[rows[n]], info)
    <3> HIDE DEF size
    <3> QED
      BY <2>2, <2>3 DEF Values
  <2>5. \A n \in 1..m : columnOf(o, info)[rows[n]] = value(H[n], info)
    BY <2>1, <2>4 DEF Copies
  <2> QED
    BY <2>5 DEF info, Values
<1> DEFINE c == copied(o, infos, rows)
           n == Len(infos)
           X == {Values(H, m, s) : s \in Column(raw)}
<1>4. DOMAIN c = 1..n /\ (\A k \in 1..n : c[k] = Values(H, m, infos[k])) /\ c = [k \in 1..n |-> c[k]]
  BY <1>2, <1>3
<1>5. n \in Nat /\ \A k \in 1..n : infos[k] \in Column(raw)
  BY <1>1
<1> HIDE DEF c, n
<1>6. \A k \in 1..n : c[k] \in X
  BY <1>4, <1>5
<1> HIDE DEF X
<1>7. c \in Seq(X) /\ Len(c) = n
  <2>1. c = [k \in 1..n |-> c[k]] /\ n \in Nat
    BY <1>4, <1>5
  <2> QED
    BY <1>6, <2>1, SMTT(30)
<1> QED
  BY <1>4, <1>7 DEF AreValues, c, n, X

\* Scan::run and FilterScan::run.
LEMMA ScanRuns ==
    ASSUME raw \in Queries, NEW B, NEW T, WiredOK(raw, operators, B, T),
           NEW o \in 1..Len(operators), operators[o].type = "Scan",
           asked[o] \in Seq(Column(raw)), \A s \in ToSet(asked[o]) : s.binding \in B[o]
    PROVE  \E G : Is(runScan(o), asked[o], B[o], T[o], G)
<1> DEFINE b == operators[o].binding
           filters == ToSet(operators[o].filters)
           r == relation(b)
           good(n) == \A f \in filters : satisfies(r.columns[f.left.colId][n], f)
           W == {n \in 1..r.size : good(n)}
           rows == Those(rowNumbers(r.size), W)
           size == Len(rows)
           A == {b}
           G == [k \in 1..size |-> [x \in A |-> rows[k]]]
           res == runScan(o)
<1>1. /\ B[o] = {b} /\ T[o] = {} /\ b \in Bindings(raw)
      /\ filters = {f \in ToSet(Constants(raw)) : f.left.binding = b}
  <2>1. OpOK(raw, operators, B, T, o) /\ operators[o] \in Op(raw)
    BY DEF WiredOK
  <2>2. b \in Bindings(raw)
    BY <2>1, OpTypes
  <2> QED
    BY <2>1, <2>2 DEF OpOK
<1>2. res = [select |-> asked[o],
             columns |-> [k \in DOMAIN asked[o] |->
                            [n \in DOMAIN rows |-> r.columns[asked[o][k].colId][rows[n]]]],
             size |-> Len(rows)]
  BY Zenon DEF runScan
<1>3. r.size \in Nat
  BY <1>1, RelationOK
<1>4. Lists(rows, W)
  <2>1. W \in SUBSET (1..r.size)
    OBVIOUS
  <2> HIDE DEF W, r
  <2> QED
    BY <1>3, <2>1, RowsListed
<1> HIDE DEF res, rows
<1>5. /\ res.select = asked[o] /\ res.size = size
      /\ DOMAIN res.columns = DOMAIN asked[o]
      /\ \A k \in DOMAIN asked[o] :
            res.columns[k] = [n \in DOMAIN rows |-> r.columns[asked[o][k].colId][rows[n]]]
  <2> HIDE DEF r
  <2> QED
    BY <1>2
<1>6. /\ size \in Nat /\ DOMAIN rows = 1..size /\ rows \in [1..size -> W]
      /\ \A j, k \in 1..size : rows[j] = rows[k] => j = k
      /\ \A x \in W : \E k \in 1..size : rows[k] = x
  BY <1>4 DEF Lists
<1>7. \A g \in [A -> Nat] : /\ \A s : s.binding = b => value(g, s) = r.columns[s.colId][g[b]]
                            /\ Passes(g, A) <=> good(g[b])
  <2>1. \A g : \A s : s.binding = b => value(g, s) = r.columns[s.colId][g[b]]
    BY DEF value
  <2> SUFFICES ASSUME NEW g \in [A -> Nat] PROVE Passes(g, A) <=> good(g[b])
    BY <2>1
  <2>2. \A f \in filters : satisfies(value(g, f.left), f) <=> satisfies(r.columns[f.left.colId][g[b]], f)
    <3> SUFFICES ASSUME NEW f \in filters PROVE value(g, f.left) = r.columns[f.left.colId][g[b]]
      BY Zenon
    <3>1. f.left.binding = b
      BY <1>1
    <3> QED
      BY <2>1, <3>1
  <2>3. Passes(g, A) <=> \A f \in filters : satisfies(value(g, f.left), f)
    <3> HIDE DEF filters, b
    <3> QED
      BY <1>1, Zenon DEF Passes, A
  <2> HIDE DEF filters
  <2> QED
    BY <2>2, <2>3, Zenon
<1>8. Fits(A, {}) = {g \in [A -> Nat] : g[b] \in W}
  <2>1. \A g : Agrees(g, {})
    BY DEF Agrees
  <2>2. \A g \in [A -> Nat] : g \in Rows(A) <=> g[b] \in 1..r.size
    BY DEF Rows
  <2>3. \A g : g \in Rows(A) => g \in [A -> Nat]
    BY DEF Rows
  <2>4. \A n : n \in W <=> n \in 1..r.size /\ good(n)
    BY Zenon
  <2> HIDE DEF W, A, good, r
  <2>5. \A g : g \in Fits(A, {}) <=> g \in [A -> Nat] /\ g[b] \in W
    BY <1>7, <2>1, <2>2, <2>3, <2>4, Zenon DEF Fits
  <2> QED
    BY <2>5
<1>9. \A k \in 1..size : G[k] \in [A -> Nat] /\ G[k][b] = rows[k]
  <2>1. \A k \in 1..size : rows[k] \in W /\ rows[k] \in Nat
    BY <1>3, <1>6
  <2> HIDE DEF W
  <2> QED
    BY <2>1
<1>10. Enumerates(G, size, A, {})
  <2>1. \A k \in 1..size : rows[k] \in W
    BY <1>6
  <2> HIDE DEF W
  <2>2. \A k \in 1..size : G[k] \in Fits(A, {})
    BY <1>8, <1>9, <2>1
  <2>3. G \in [1..size -> Fits(A, {})]
    <3>1. G = [k \in 1..size |-> G[k]]
      BY Zenon
    <3> HIDE DEF G
    <3> QED
      BY <2>2, <3>1, Zenon
  <2>4. ASSUME NEW g \in Fits(A, {}) PROVE \E k \in 1..size : G[k] = g
    <3>1. g \in [A -> Nat] /\ g[b] \in W
      BY <1>8
    <3>2. PICK k \in 1..size : rows[k] = g[b]
      BY <1>6, <3>1
    <3>3. G[k] = g
      BY <3>1, <3>2
    <3> QED
      BY <3>3
  <2>5. \A j, k \in 1..size : G[j] = G[k] => j = k
    <3> HIDE DEF G
    <3> QED
      BY <1>6, <1>9
  <2> HIDE DEF G, size
  <2> QED
    BY <1>6, <2>3, <2>4, <2>5 DEF Enumerates
<1>11. HasColumns(res, G)
  <2>1. DOMAIN asked[o] = 1..Len(asked[o])
    OBVIOUS
  <2>2. DOMAIN res.columns = 1..Len(res.select)
    BY <1>5, <2>1
  <2>3. ASSUME NEW k \in 1..Len(res.select)
        PROVE  res.columns[k] = Values(G, res.size, res.select[k])
    <3> DEFINE s == asked[o][k]
    <3>1. res.columns[k] = [n \in 1..size |-> r.columns[s.colId][rows[n]]]
      <4>1. res.columns[k] = [n \in DOMAIN rows |-> r.columns[s.colId][rows[n]]]
        BY <1>5, <2>1
      <4> QED
        BY <1>6, <4>1, ZenonT(30)
    <3>2. s.binding = b
      <4>1. s \in ToSet(asked[o])
        BY <1>5, <2>1 DEF ToSet
      <4> QED
        BY <1>1, <4>1
    <3> HIDE DEF s, G, r
    <3>3. \A n \in 1..size : value(G[n], s) = r.columns[s.colId][rows[n]]
      <4> SUFFICES ASSUME NEW n \in 1..size PROVE value(G[n], s) = r.columns[s.colId][rows[n]]
        OBVIOUS
      <4> DEFINE g == G[n]
      <4>1. g \in [A -> Nat] /\ g[b] = rows[n]
        BY <1>9
      <4> HIDE DEF g, A
      <4>2. value(g, s) = r.columns[s.colId][g[b]]
        BY <1>7, <3>2, <4>1, Zenon
      <4> QED
        BY <4>1, <4>2 DEF g
    <3>4. res.columns[k] = Values(G, size, s)
      BY <3>1, <3>3, Zenon DEF Values
    <3> QED
      BY <1>5, <3>4 DEF s
  <2> QED
    BY <1>5, <2>2, <2>3 DEF HasColumns
<1>12. Is(res, asked[o], B[o], T[o], G)
  <2> HIDE DEF G
  <2> QED
    BY <1>1, <1>5, <1>10, <1>11 DEF Is
<1> QED
  BY <1>12 DEF res

\* SelfJoin::run.
LEMMA SelfJoinRuns ==
    ASSUME raw \in Queries, NEW B, NEW T, WiredOK(raw, operators, B, T), supplies = B,
           NEW o \in 1..Len(operators), operators[o].type = "SelfJoin",
           asked[o] \in Seq(Column(raw)), Passed(asked, o),
           NEW F, Is(results[operators[o].input], asked[operators[o].input],
                     B[operators[o].input], T[operators[o].input], F)
    PROVE  \E G : Is(runSelfJoin(o), asked[o], B[o], T[o], G)
<1> DEFINE c == operators[o].input
           p == operators[o].pInfo
           A == B[c]
           Q == T[c]
           old == results[c].size
           W == {n \in 1..old : columnOf(c, p.left)[n] = columnOf(c, p.right)[n]}
           rows == Those(rowNumbers(old), W)
           size == Len(rows)
           G == [k \in 1..size |-> F[rows[k]]]
           res == runSelfJoin(o)
<1>1. B[o] = A /\ T[o] = Q \cup {p}
  BY DEF WiredOK, OpOK
<1>2. /\ Enumerates(F, old, A, Q) /\ HasColumns(results[c], F)
      /\ ToSet(results[c].select) = ToSet(asked[c])
  BY DEF Is
<1>3. /\ p.left \in ToSet(asked[c]) /\ p.right \in ToSet(asked[c]) /\ ToSet(asked[o]) \subseteq ToSet(asked[c])
  BY DEF Passed
<1>4. columnOf(c, p.left) = Values(F, old, p.left) /\ columnOf(c, p.right) = Values(F, old, p.right)
  <2> HIDE DEF c, p
  <2>1. p.left \in ToSet(results[c].select) /\ p.right \in ToSet(results[c].select)
    BY <1>2, <1>3
  <2> QED
    BY <1>2, <2>1, ColumnFound
<1>5. /\ old \in Nat /\ F \in [1..old -> Fits(A, Q)]
      /\ \A j, k \in 1..old : F[j] = F[k] => j = k
      /\ \A g \in Fits(A, Q) : \E k \in 1..old : F[k] = g
  BY <1>2 DEF Enumerates
<1>6. res = [select |-> asked[o], columns |-> copied(c, asked[o], rows), size |-> Len(rows)]
  BY Zenon DEF runSelfJoin
<1>7. Lists(rows, W)
  <2>1. W \in SUBSET (1..old)
    OBVIOUS
  <2> HIDE DEF W, old
  <2> QED
    BY <1>5, <2>1, RowsListed
<1> HIDE DEF res, rows
<1>8. /\ size \in Nat /\ DOMAIN rows = 1..size /\ rows \in [1..size -> W]
      /\ \A j, k \in 1..size : rows[j] = rows[k] => j = k
      /\ \A x \in W : \E k \in 1..size : rows[k] = x
  BY <1>7 DEF Lists
<1>9. res.select = asked[o] /\ res.columns = copied(c, asked[o], rows) /\ res.size = size
  BY <1>6
<1>10. \A n \in 1..old : n \in W <=> value(F[n], p.left) = value(F[n], p.right)
  <2> HIDE DEF c, p, old
  <2> QED
    BY <1>4 DEF Values, W
<1>11. \A g : g \in Fits(A, Q \cup {p}) <=> g \in Fits(A, Q) /\ value(g, p.left) = value(g, p.right)
  <2>1. \A g : Agrees(g, Q \cup {p}) <=> Agrees(g, Q) /\ value(g, p.left) = value(g, p.right)
    <3> HIDE DEF p, Q
    <3> QED
      BY DEF Agrees
  <2> HIDE DEF p, Q, A
  <2> QED
    BY <2>1, Zenon DEF Fits
<1>12. \A k \in 1..size : rows[k] \in W /\ rows[k] \in 1..old
  BY <1>8
<1> HIDE DEF W
<1>13. \A k \in 1..size : G[k] = F[rows[k]] /\ G[k] \in Fits(A, Q \cup {p})
  <2> HIDE DEF c, p, A, Q, old
  <2> QED
    BY <1>5, <1>10, <1>11, <1>12
<1>14. Enumerates(G, size, A, Q \cup {p})
  <2>1. G = [k \in 1..size |-> G[k]]
    BY Zenon
  <2> HIDE DEF c, p, A, Q, G, old
  <2>2. G \in [1..size -> Fits(A, Q \cup {p})]
    BY <1>13, <2>1, Zenon
  <2>3. \A j, k \in 1..size : G[j] = G[k] => j = k
    BY <1>5, <1>8, <1>12, <1>13
  <2>4. ASSUME NEW g \in Fits(A, Q \cup {p}) PROVE \E k \in 1..size : G[k] = g
    <3>1. PICK n \in 1..old : F[n] = g
      BY <1>5, <1>11
    <3>2. n \in W
      BY <1>10, <1>11, <3>1
    <3>3. PICK k \in 1..size : rows[k] = n
      BY <1>8, <3>2
    <3> QED
      BY <1>13, <3>1, <3>3
  <2> QED
    BY <1>8, <2>2, <2>3, <2>4 DEF Enumerates
<1>15. HasColumns(res, G)
  <2> DEFINE infos == asked[o]
  <2>1. infos \in Seq(Column(raw)) /\ ToSet(infos) \subseteq ToSet(results[c].select) /\ DOMAIN infos = 1..Len(infos)
    BY <1>2, <1>3
  <2>2. rows \in [1..size -> 1..old]
    BY <1>8, <1>12
  <2> HIDE DEF infos
  <2>3. Copies(G, size, F, rows, infos)
    <3> HIDE DEF G
    <3> QED
      BY <1>13 DEF Copies
  <2>4. AreValues(copied(c, infos, rows), G, size, infos)
    <3>1. HasColumns(results[c], F) /\ size \in Nat /\ rows \in [1..size -> 1..results[c].size]
      BY <1>2, <1>8, <2>2
    <3> HIDE DEF c, size, G, old
    <3> QED
      BY <2>1, <2>3, <3>1, CopiedIs
  <2> HIDE DEF G, size, c
  <2> QED
    BY <1>9, <2>1, <2>4 DEF HasColumns, AreValues, infos
<1>16. Is(res, asked[o], B[o], T[o], G)
  <2> HIDE DEF G
  <2> QED
    BY <1>1, <1>9, <1>14, <1>15 DEF Is
<1> QED
  BY <1>16 DEF res

\* A number is made of its quotient and its remainder.
LEMMA Division ==
    ASSUME NEW n \in Nat, NEW d \in Nat, d > 0
    PROVE  n = d * (n \div d) + (n % d) /\ n % d \in 0..d - 1 /\ n \div d \in Nat
  OBVIOUS

\* A number written as quotient and remainder.
LEMMA DivisionOf ==
    ASSUME NEW d \in Nat \ {0}, NEW x \in Nat, NEW r \in 0..d - 1
    PROVE  (d * x + r) % d = r /\ (d * x + r) \div d = x
<1>1. (d * x + r) % d = r
  OBVIOUS
<1>2. (d * x + r) \div d = x
  OBVIOUS
<1> QED
  BY <1>1, <1>2

\* The pairs of rows of two inputs, in the order of Join::run.
Pairs(a, b) ==
    [n \in 1..a * b |-> [left |-> 1 + ((n - 1) % a), right |-> 1 + ((n - 1) \div a)]]

\* Each pair comes once.
LEMMA PairsOK ==
    ASSUME NEW a \in Nat, NEW b \in Nat
    PROVE  LET Both == [left : 1..a, right : 1..b]
           IN  Pairs(a, b) \in Seq(Both) /\ IsInjective(Pairs(a, b)) /\ ToSet(Pairs(a, b)) = Both
<1> DEFINE Both == [left : 1..a, right : 1..b]
           pairs == Pairs(a, b)
           N == a * b
<1>1. N \in Nat /\ DOMAIN pairs = 1..N
  BY DEF Pairs
<1>2. \A n \in 1..N : pairs[n] = [left |-> 1 + ((n - 1) % a), right |-> 1 + ((n - 1) \div a)]
  BY DEF Pairs
<1>3. CASE a = 0
  <2>1. N = 0 /\ Both = {}
    BY <1>3
  <2>2. pairs = <<>>
    <3>1. pairs = [n \in 1..N |-> pairs[n]] /\ 1..N = {}
      BY <2>1 DEF Pairs
    <3> HIDE DEF pairs, N
    <3> QED
      BY <3>1
  <2>3. <<>> \in Seq(Both) /\ IsInjective(<<>>) /\ ToSet(<<>>) = {}
    BY DEF IsInjective, ToSet
  <2> HIDE DEF pairs, N, Both
  <2> QED
    BY <2>1, <2>2, <2>3 DEF pairs, Both
<1>4. CASE a # 0
  <2>1. a \in Nat \ {0} /\ a > 0
    BY <1>4
  <2>2. ASSUME NEW n \in 1..N
        PROVE  /\ n - 1 \in Nat /\ n - 1 = a * (pairs[n].right - 1) + (pairs[n].left - 1)
               /\ pairs[n] \in Both
    <3>1. n - 1 \in Nat /\ n - 1 < a * b
      BY <1>1
    <3> DEFINE m == n - 1
               x == m \div a
               r == m % a
    <3>2. m = a * x + r /\ r \in 0..a - 1 /\ x \in Nat
      <4> HIDE DEF m
      <4> QED
        BY <2>1, <3>1, Division DEF m
    <3>3. x < b
      BY <2>1, <3>1
    <3>4. pairs[n].left = 1 + r /\ pairs[n].right = 1 + x /\ pairs[n] = [left |-> 1 + r, right |-> 1 + x]
      BY <1>2
    <3> HIDE DEF x, r, pairs
    <3>5. 1 + r \in 1..a /\ 1 + x \in 1..b
      BY <3>2, <3>3
    <3> QED
      BY <3>1, <3>2, <3>4, <3>5
  <2>3. pairs \in Seq(Both)
    <3>1. pairs = [n \in 1..N |-> pairs[n]]
      BY DEF Pairs
    <3> HIDE DEF pairs, Both, N
    <3> QED
      BY <1>1, <2>2, <3>1
  <2>4. IsInjective(pairs)
    <3> SUFFICES ASSUME NEW m \in 1..N, NEW n \in 1..N, pairs[m] = pairs[n] PROVE m = n
      BY <1>1 DEF IsInjective
    <3>1. m - 1 = n - 1
      BY <2>2
    <3> QED
      BY <1>1, <3>1
  <2>5. ASSUME NEW p \in Both PROVE \E n \in 1..N : pairs[n] = p
    <3> DEFINE r == p.left - 1
               x == p.right - 1
               n == a * x + r + 1
    <3>1. r \in 0..a - 1 /\ x \in Nat /\ x < b
      OBVIOUS
    <3>2. (a * x + r) % a = r /\ (a * x + r) \div a = x
      <4> HIDE DEF r, x
      <4> QED
        BY <2>1, <3>1, DivisionOf
    <3>3. a * x + r < a * b /\ a * x + r \in Nat
      <4> HIDE DEF r, x
      <4>1. a * x + a = a * (x + 1)
        BY <2>1, <3>1
      <4>2. a * (x + 1) <= a * b
        BY <2>1, <3>1
      <4>3. a * x \in Nat
        BY <2>1, <3>1
      <4> QED
        BY <2>1, <3>1, <4>1, <4>2, <4>3
    <3>4. n \in 1..N /\ n - 1 = a * x + r
      <4> HIDE DEF r, x
      <4>1. a * x \in Nat
        BY <2>1, <3>1
      <4> QED
        BY <1>1, <3>1, <3>3, <4>1
    <3>5. pairs[n] = [left |-> 1 + r, right |-> 1 + x]
      <4> HIDE DEF r, x, n, pairs, N
      <4> QED
        BY <1>2, <3>2, <3>4
    <3>6. p = [left |-> 1 + r, right |-> 1 + x]
      BY <3>1
    <3> HIDE DEF n, r, x, pairs
    <3> QED
      BY <3>4, <3>5, <3>6
  <2> HIDE DEF pairs, N, Both
  <2>6. ToSet(pairs) \subseteq Both
    BY <1>1, <2>2 DEF ToSet
  <2>7. Both \subseteq ToSet(pairs)
    <3> SUFFICES ASSUME NEW p \in Both PROVE p \in ToSet(pairs)
      OBVIOUS
    <3>1. PICK n \in 1..N : pairs[n] = p
      BY <2>5
    <3> QED
      BY <1>1, <3>1 DEF ToSet
  <2> QED
    BY <2>3, <2>4, <2>6, <2>7 DEF pairs, Both
<1> QED
  BY <1>3, <1>4

\* The columns of both sides.
LEMMA ConcatValues ==
    ASSUME NEW H, NEW m, NEW r \in Seq(Column(raw)), NEW s \in Seq(Column(raw)), NEW c, NEW d,
           AreValues(c, H, m, r), AreValues(d, H, m, s)
    PROVE  AreValues(c \o d, H, m, r \o s)
<1> DEFINE X == {Values(H, m, x) : x \in Column(raw)}
           j == Len(r)
           k == Len(s)
           both == r \o s
           columns == c \o d
<1>1. /\ c \in Seq(X) /\ Len(c) = j /\ \A n \in 1..j : c[n] = Values(H, m, r[n])
      /\ d \in Seq(X) /\ Len(d) = k /\ \A n \in 1..k : d[n] = Values(H, m, s[n])
  BY DEF AreValues
<1>2. j \in Nat /\ k \in Nat
  OBVIOUS
<1>3. /\ Len(both) = j + k
      /\ \A n \in 1..j : both[n] = r[n]
      /\ \A n \in 1..k : both[j + n] = s[n]
  OBVIOUS
<1> HIDE DEF X
<1>4. /\ columns \in Seq(X) /\ Len(columns) = j + k /\ DOMAIN columns = 1..j + k
      /\ \A n \in 1..j : columns[n] = c[n]
      /\ \A n \in 1..k : columns[j + n] = d[n]
  <2>1. c \in Seq(X) /\ d \in Seq(X)
    BY <1>1
  <2>2. /\ c \o d \in Seq(X) /\ Len(c \o d) = Len(c) + Len(d) /\ DOMAIN (c \o d) = 1..Len(c) + Len(d)
        /\ \A n \in 1..Len(c) : (c \o d)[n] = c[n]
        /\ \A n \in 1..Len(d) : (c \o d)[Len(c) + n] = d[n]
    BY <2>1
  <2>3. Len(c) = j /\ Len(d) = k
    BY <1>1
  <2> HIDE DEF j, k
  <2> QED
    BY <2>2, <2>3
<1> HIDE DEF both, columns, j, k
<1>5. \A n \in 1..j + k : n \in 1..j \/ (n - j \in 1..k /\ n = j + (n - j))
  BY <1>2
<1>6. ASSUME NEW n \in 1..j + k PROVE columns[n] = Values(H, m, both[n])
  <2>1. CASE n \in 1..j
    BY <1>1, <1>3, <1>4, <2>1
  <2>2. CASE n - j \in 1..k /\ n = j + (n - j)
    <3>1. columns[n] = d[n - j] /\ both[n] = s[n - j]
      BY <1>3, <1>4, <2>2
    <3> QED
      BY <1>1, <2>2, <3>1
  <2> QED
    BY <1>5, <2>1, <2>2
<1> QED
  BY <1>3, <1>4, <1>6 DEF AreValues, both, columns, X

\* Rows of two disjoint sets of bindings, together.
Merge(A, C, g, h) == [b \in A \cup C |-> IF b \in A THEN g[b] ELSE h[b]]

\* Predicates on columns of these bindings.
Within(P, A) == \A p \in P : p.left.binding \in A /\ p.right.binding \in A

\* Each part keeps its values.
LEMMA MergeKeeps ==
    ASSUME NEW A, NEW C, A \cap C = {}, NEW g, NEW h
    PROVE  /\ \A s : s.binding \in A => value(Merge(A, C, g, h), s) = value(g, s)
           /\ \A s : s.binding \in C => value(Merge(A, C, g, h), s) = value(h, s)
<1> DEFINE m == Merge(A, C, g, h)
<1>1. /\ \A b : b \in A => m[b] = g[b]
      /\ \A b : b \in C => m[b] = h[b]
  BY DEF Merge
<1> HIDE DEF m
<1> QED
  BY <1>1 DEF value, m

\* A row of each of two sides makes a row of the join, if the keys are equal.
LEMMA MergeFits ==
    ASSUME NEW A, NEW C, A \cap C = {}, NEW P, NEW Q, Within(P, A), Within(Q, C),
           NEW g \in Fits(A, P), NEW h \in Fits(C, Q)
    PROVE  Merge(A, C, g, h) \in Fits(A \cup C, P \cup Q)
<1> DEFINE m == Merge(A, C, g, h)
<1>1. /\ \A s : s.binding \in A => value(m, s) = value(g, s)
      /\ \A s : s.binding \in C => value(m, s) = value(h, s)
  BY MergeKeeps
<1>2. /\ g \in [A -> Nat] /\ (\A b \in A : g[b] \in 1..relation(b).size) /\ Passes(g, A) /\ Agrees(g, P)
      /\ h \in [C -> Nat] /\ (\A b \in C : h[b] \in 1..relation(b).size) /\ Passes(h, C) /\ Agrees(h, Q)
  BY DEF Fits, Rows
<1>3. m \in Rows(A \cup C)
  <2>1. m \in [A \cup C -> Nat]
    BY <1>2 DEF Merge
  <2>2. \A b \in A \cup C : IF b \in A THEN m[b] = g[b] ELSE m[b] = h[b]
    BY DEF Merge
  <2> HIDE DEF m
  <2>3. \A b \in A \cup C : m[b] \in 1..relation(b).size
    BY <1>2, <2>2
  <2> QED
    BY <2>1, <2>3 DEF Rows
<1> HIDE DEF m
<1>4. Passes(m, A \cup C)
  <2> SUFFICES ASSUME NEW f \in ToSet(Constants(raw)), f.left.binding \in A \cup C
               PROVE  satisfies(value(m, f.left), f)
    BY Zenon DEF Passes
  <2>1. CASE f.left.binding \in A
    BY <1>1, <1>2, <2>1, Zenon DEF Passes
  <2>2. CASE f.left.binding \in C
    BY <1>1, <1>2, <2>2, Zenon DEF Passes
  <2> QED
    BY <2>1, <2>2
<1>5. Agrees(m, P \cup Q)
  <2> SUFFICES ASSUME NEW p \in P \cup Q PROVE value(m, p.left) = value(m, p.right)
    BY Zenon DEF Agrees
  <2>1. CASE p \in P
    <3>1. p.left.binding \in A /\ p.right.binding \in A /\ value(g, p.left) = value(g, p.right)
      BY <1>2, <2>1 DEF Within, Agrees
    <3> QED
      BY <1>1, <3>1, Zenon
  <2>2. CASE p \in Q
    <3>1. p.left.binding \in C /\ p.right.binding \in C /\ value(h, p.left) = value(h, p.right)
      BY <1>2, <2>2 DEF Within, Agrees
    <3> QED
      BY <1>1, <3>1, Zenon
  <2> QED
    BY <2>1, <2>2
<1> QED
  BY <1>3, <1>4, <1>5 DEF Fits, m

\* The part of a row in a set of bindings.
Part(f, A) == [b \in A |-> f[b]]

\* A part of a row fits, and has its values.
LEMMA PartFits ==
    ASSUME NEW A, NEW D, A \subseteq D, NEW P, NEW R, P \subseteq R, Within(P, A), NEW f \in Fits(D, R)
    PROVE  Part(f, A) \in Fits(A, P)
<1> DEFINE g == Part(f, A)
<1>1. \A s : s.binding \in A => value(g, s) = value(f, s)
  <2>1. \A b : b \in A => g[b] = f[b]
    BY DEF Part
  <2> HIDE DEF g
  <2> QED
    BY <2>1 DEF value
<1>2. f \in [D -> Nat] /\ (\A b \in D : f[b] \in 1..relation(b).size) /\ Passes(f, D) /\ Agrees(f, R)
  BY DEF Fits, Rows
<1>3. g \in Rows(A)
  <2>1. g \in [A -> Nat] /\ \A b \in A : g[b] = f[b]
    BY <1>2 DEF Part
  <2> HIDE DEF g
  <2> QED
    BY <1>2, <2>1 DEF Rows
<1> HIDE DEF g
<1>4. Passes(g, A)
  <2> SUFFICES ASSUME NEW c \in ToSet(Constants(raw)), c.left.binding \in A
               PROVE  satisfies(value(g, c.left), c)
    BY Zenon DEF Passes
  <2>1. satisfies(value(f, c.left), c)
    BY <1>2 DEF Passes
  <2> QED
    BY <1>1, <2>1, Zenon
<1>5. Agrees(g, P)
  <2> SUFFICES ASSUME NEW p \in P PROVE value(g, p.left) = value(g, p.right)
    BY Zenon DEF Agrees
  <2>1. p.left.binding \in A /\ p.right.binding \in A /\ value(f, p.left) = value(f, p.right)
    BY <1>2 DEF Within, Agrees
  <2> QED
    BY <1>1, <2>1, Zenon
<1> QED
  BY <1>3, <1>4, <1>5 DEF Fits, g

\* A row of the join is a row of each side, together.
LEMMA MergeParts ==
    ASSUME NEW A, NEW C, NEW R, NEW f \in Fits(A \cup C, R)
    PROVE  f = Merge(A, C, Part(f, A), Part(f, C))
<1> DEFINE g == Part(f, A)
           h == Part(f, C)
<1>1. f = [b \in A \cup C |-> f[b]]
  BY DEF Fits, Rows
<1>2. (\A b \in A : g[b] = f[b]) /\ (\A b \in C : h[b] = f[b])
  BY DEF Part
<1> HIDE DEF g, h
<1>3. \A b \in A \cup C : f[b] = IF b \in A THEN g[b] ELSE h[b]
  BY <1>2
<1>4. f = Merge(A, C, g, h)
  BY <1>1, <1>3, Zenon DEF Merge
<1> QED
  BY <1>4 DEF g, h

\* Rows are the same together if and only if they are the same.
LEMMA MergeInjective ==
    ASSUME NEW A, NEW C, A \cap C = {}, NEW P, NEW Q,
           NEW g \in Fits(A, P), NEW h \in Fits(C, Q), NEW x \in Fits(A, P), NEW y \in Fits(C, Q),
           Merge(A, C, g, h) = Merge(A, C, x, y)
    PROVE  g = x /\ h = y
<1>1. /\ g \in [A -> Nat] /\ x \in [A -> Nat] /\ h \in [C -> Nat] /\ y \in [C -> Nat]
  BY DEF Fits, Rows
<1>2. \A b \in A \cup C : Merge(A, C, g, h)[b] = Merge(A, C, x, y)[b]
  OBVIOUS
<1>3. (\A b \in A : g[b] = x[b]) /\ (\A b \in C : h[b] = y[b])
  BY <1>2 DEF Merge
<1> QED
  BY <1>1, <1>3

\* A side of a join: the rows of an input, the key and the columns requested.
Side(a, A, P, F, k, r) ==
    /\ Enumerates(F, results[a].size, A, P) /\ HasColumns(results[a], F) /\ Within(P, A)
    /\ r \in Seq(Column(raw))
    /\ k \in ToSet(results[a].select) /\ k.binding \in A
    /\ ToSet(r) \subseteq ToSet(results[a].select) /\ \A s \in ToSet(r) : s.binding \in A

\* The pairs of rows with equal keys, in the order of Join::run.
Matches(a, k, b, l) ==
    Those(Pairs(results[a].size, results[b].size),
          {m \in [left : 1..results[a].size, right : 1..results[b].size] :
              columnOf(a, k)[m.left] = columnOf(b, l)[m.right]})

\* What Join::run makes of them.
JoinOf(a, k, r, b, l, s) ==
    LET matches == Matches(a, k, b, l)
    IN  [select |-> r \o s,
         columns |-> copied(a, r, [n \in DOMAIN matches |-> matches[n].left])
                  \o copied(b, s, [n \in DOMAIN matches |-> matches[n].right]),
         size |-> Len(matches)]

\* The pairs of rows with equal keys, and the rows together.
EqualKeys(a, F, k, b, H, l) ==
    {m \in [left : 1..results[a].size, right : 1..results[b].size] :
        value(F[m.left], k) = value(H[m.right], l)}

Merged(A, C, F, H, t, n) == [j \in 1..n |-> Merge(A, C, F[t[j].left], H[t[j].right])]

\* The keys of a predicate, on either side.
Keys(p, k, l) == (p.left = k /\ p.right = l) \/ (p.left = l /\ p.right = k)

\* The pairs of rows are those with equal keys.
LEMMA MatchesAre ==
    ASSUME NEW a, NEW A, NEW P, NEW F, NEW k, NEW r, Side(a, A, P, F, k, r),
           NEW b, NEW C, NEW Q, NEW H, NEW l, NEW s, Side(b, C, Q, H, l, s)
    PROVE  Lists(Matches(a, k, b, l), EqualKeys(a, F, k, b, H, l))
<1> DEFINE x == results[a].size
           y == results[b].size
           Both == [left : 1..x, right : 1..y]
           W == {m \in Both : columnOf(a, k)[m.left] = columnOf(b, l)[m.right]}
           V == {m \in Both : value(F[m.left], k) = value(H[m.right], l)}
           pairs == Pairs(x, y)
<1>1. x \in Nat /\ y \in Nat
  BY DEF Side, Enumerates
<1>2. columnOf(a, k) = Values(F, x, k) /\ columnOf(b, l) = Values(H, y, l)
  <2>1. HasColumns(results[a], F) /\ k \in ToSet(results[a].select)
    BY DEF Side
  <2>2. HasColumns(results[b], H) /\ l \in ToSet(results[b].select)
    BY DEF Side
  <2> QED
    BY <2>1, <2>2, ColumnFound
<1>3. W = V
  <2>1. \A m \in Both : m.left \in 1..x /\ m.right \in 1..y
    OBVIOUS
  <2> HIDE DEF Both, x, y
  <2>2. \A m \in Both : columnOf(a, k)[m.left] = value(F[m.left], k) /\ columnOf(b, l)[m.right] = value(H[m.right], l)
    BY <1>2, <2>1 DEF Values
  <2> QED
    BY <2>2
<1>4. pairs \in Seq(Both) /\ IsInjective(pairs) /\ ToSet(pairs) = Both
  <2> HIDE DEF x, y
  <2> QED
    BY <1>1, PairsOK
<1>5. Lists(Those(pairs, W), W)
  <2>1. W \in SUBSET Both
    OBVIOUS
  <2> HIDE DEF W, pairs, Both
  <2> QED
    BY <1>4, <2>1, ThoseLists
<1>6. Matches(a, k, b, l) = Those(pairs, W)
  BY Zenon DEF Matches
<1> HIDE DEF W, V, pairs
<1>7. Lists(Matches(a, k, b, l), V)
  BY <1>3, <1>5, <1>6
<1> QED
  BY <1>7 DEF V, EqualKeys

\* The rows of the join are all rows of both sides that fit together.
LEMMA JoinEnumerates ==
    ASSUME NEW a, NEW A, NEW P, NEW F, NEW k, NEW r, Side(a, A, P, F, k, r),
           NEW b, NEW C, NEW Q, NEW H, NEW l, NEW s, Side(b, C, Q, H, l, s),
           A \cap C = {}, NEW p, Keys(p, k, l),
           NEW t, Lists(t, EqualKeys(a, F, k, b, H, l))
    PROVE  Enumerates(Merged(A, C, F, H, t, Len(t)), Len(t), A \cup C, P \cup Q \cup {p})
<1> DEFINE x == results[a].size
           y == results[b].size
           Both == [left : 1..x, right : 1..y]
           V == {m \in Both : value(F[m.left], k) = value(H[m.right], l)}
           D == A \cup C
           R == P \cup Q \cup {p}
           n == Len(t)
           G == [j \in 1..n |-> Merge(A, C, F[t[j].left], H[t[j].right])]
<1>1. Lists(t, V)
  BY DEF EqualKeys
<1>2. /\ t \in [1..n -> V] /\ \A j, z \in 1..n : t[j] = t[z] => j = z
      /\ \A m \in V : \E j \in 1..n : t[j] = m
      /\ n \in Nat
  <2> HIDE DEF V
  <2> QED
    BY <1>1 DEF Lists
<1>3. /\ x \in Nat /\ F \in [1..x -> Fits(A, P)] /\ \A j, z \in 1..x : F[j] = F[z] => j = z
      /\ \A g \in Fits(A, P) : \E j \in 1..x : F[j] = g
  BY DEF Side, Enumerates
<1>4. /\ y \in Nat /\ H \in [1..y -> Fits(C, Q)] /\ \A j, z \in 1..y : H[j] = H[z] => j = z
      /\ \A g \in Fits(C, Q) : \E j \in 1..y : H[j] = g
  BY DEF Side, Enumerates
<1>5. Within(P, A) /\ Within(Q, C) /\ k.binding \in A /\ l.binding \in C
  BY DEF Side
<1>6. \A f : f \in Fits(D, R) <=> f \in Fits(D, P \cup Q) /\ value(f, k) = value(f, l)
  <2>1. \A f : value(f, p.left) = value(f, p.right) <=> value(f, k) = value(f, l)
    <3>1. (p.left = k /\ p.right = l) \/ (p.left = l /\ p.right = k)
      BY DEF Keys
    <3> QED
      BY <3>1, Zenon
  <2>2. \A f : Agrees(f, R) <=> Agrees(f, P \cup Q) /\ value(f, p.left) = value(f, p.right)
    BY DEF Agrees
  <2> HIDE DEF D, R
  <2> QED
    BY <2>1, <2>2, Zenon DEF Fits
<1>7. \A m : m \in V <=> m \in Both /\ value(F[m.left], k) = value(H[m.right], l)
  OBVIOUS
<1>8. ASSUME NEW j \in 1..n
      PROVE  /\ t[j] \in Both /\ t[j].left \in 1..x /\ t[j].right \in 1..y
             /\ F[t[j].left] \in Fits(A, P) /\ H[t[j].right] \in Fits(C, Q)
             /\ G[j] = Merge(A, C, F[t[j].left], H[t[j].right])
             /\ value(F[t[j].left], k) = value(H[t[j].right], l)
  <2>1. t[j] \in V
    BY <1>2
  <2> HIDE DEF V
  <2>2. t[j] \in Both /\ value(F[t[j].left], k) = value(H[t[j].right], l)
    BY <1>7, <2>1
  <2>3. t[j].left \in 1..x /\ t[j].right \in 1..y
    BY <2>2
  <2> HIDE DEF Both, x, y
  <2>4. F[t[j].left] \in Fits(A, P) /\ H[t[j].right] \in Fits(C, Q)
    BY <1>3, <1>4, <2>3
  <2>5. G[j] = Merge(A, C, F[t[j].left], H[t[j].right])
    OBVIOUS
  <2> QED
    BY <2>2, <2>3, <2>4, <2>5
<1> HIDE DEF V, x, y
<1>9. G = [j \in 1..n |-> G[j]]
  BY Zenon
<1> HIDE DEF G
<1>10. ASSUME NEW j \in 1..n PROVE G[j] \in Fits(D, R)
  <2> DEFINE g == F[t[j].left]
             h == H[t[j].right]
  <2>1. g \in Fits(A, P) /\ h \in Fits(C, Q) /\ G[j] = Merge(A, C, g, h) /\ value(g, k) = value(h, l)
    BY <1>8
  <2> HIDE DEF g, h
  <2>2. Merge(A, C, g, h) \in Fits(A \cup C, P \cup Q)
    BY <1>5, <2>1, MergeFits
  <2>3. value(Merge(A, C, g, h), k) = value(g, k) /\ value(Merge(A, C, g, h), l) = value(h, l)
    BY <1>5, MergeKeeps
  <2> HIDE DEF R
  <2> QED
    BY <1>6, <2>1, <2>2, <2>3
<1>11. G \in [1..n -> Fits(D, R)]
  <2> HIDE DEF D, R, n
  <2> QED
    BY <1>10, <1>9, Zenon
<1>12. ASSUME NEW j \in 1..n, NEW z \in 1..n, G[j] = G[z] PROVE j = z
  <2>1. F[t[j].left] = F[t[z].left] /\ H[t[j].right] = H[t[z].right]
    <3> DEFINE g == F[t[j].left]
               h == H[t[j].right]
               u == F[t[z].left]
               v == H[t[z].right]
    <3>1. /\ g \in Fits(A, P) /\ h \in Fits(C, Q) /\ G[j] = Merge(A, C, g, h)
          /\ u \in Fits(A, P) /\ v \in Fits(C, Q) /\ G[z] = Merge(A, C, u, v)
      BY <1>8
    <3> HIDE DEF g, h, u, v
    <3>2. Merge(A, C, g, h) = Merge(A, C, u, v)
      BY <1>12, <3>1
    <3>3. g = u /\ h = v
      BY <3>1, <3>2, MergeInjective
    <3> QED
      BY <3>3 DEF g, h, u, v
  <2>2. t[j].left = t[z].left /\ t[j].right = t[z].right
    BY <1>3, <1>4, <1>8, <2>1
  <2>3. t[j] = t[z]
    <3>1. t[j] \in Both /\ t[z] \in Both
      BY <1>8
    <3> QED
      BY <2>2, <3>1
  <2> QED
    BY <1>2, <2>3
<1>13. ASSUME NEW f \in Fits(D, R) PROVE \E j \in 1..n : G[j] = f
  <2> DEFINE g == Part(f, A)
             h == Part(f, C)
  <2>1. g \in Fits(A, P) /\ h \in Fits(C, Q)
    <3>1. A \subseteq D /\ C \subseteq D /\ P \subseteq R /\ Q \subseteq R
      OBVIOUS
    <3> HIDE DEF D, R
    <3> QED
      BY <1>5, <3>1, PartFits
  <2>2. f = Merge(A, C, g, h)
    <3> HIDE DEF R
    <3> QED
      BY MergeParts
  <2>3. PICK u \in 1..x : F[u] = g
    BY <1>3, <2>1
  <2>4. PICK v \in 1..y : H[v] = h
    BY <1>4, <2>1
  <2> HIDE DEF g, h
  <2>5. value(g, k) = value(h, l)
    <3>1. value(f, k) = value(f, l)
      <4> HIDE DEF D, R
      <4> QED
        BY <1>6
    <3>2. value(Merge(A, C, g, h), k) = value(g, k) /\ value(Merge(A, C, g, h), l) = value(h, l)
      BY <1>5, MergeKeeps
    <3> QED
      BY <2>2, <3>1, <3>2
  <2> DEFINE m == [left |-> u, right |-> v]
  <2>6. m \in Both /\ m.left = u /\ m.right = v
    OBVIOUS
  <2> HIDE DEF m, Both
  <2>7. m \in V
    BY <1>7, <2>3, <2>4, <2>5, <2>6
  <2>8. PICK j \in 1..n : t[j] = m
    BY <1>2, <2>7
  <2>9. G[j] = f
    BY <1>8, <2>2, <2>3, <2>4, <2>6, <2>8
  <2> QED
    BY <2>9
<1> HIDE DEF D, R, n
<1>14. Enumerates(G, n, D, R)
  BY <1>2, <1>11, <1>12, <1>13 DEF Enumerates
<1> QED
  BY <1>14, Zenon DEF D, R, G, n, Merged

\* A result for these bindings and predicates.
IsJoin(res, D, R, select) ==
    res.select = select /\ \E G : Enumerates(G, res.size, D, R) /\ HasColumns(res, G)

\* The result of a join of two sides.
LEMMA JoinOfIs ==
    ASSUME NEW a, NEW A, NEW P, NEW F, NEW k, NEW r, Side(a, A, P, F, k, r),
           NEW b, NEW C, NEW Q, NEW H, NEW l, NEW s, Side(b, C, Q, H, l, s),
           A \cap C = {}, NEW p, Keys(p, k, l)
    PROVE  IsJoin(JoinOf(a, k, r, b, l, s), A \cup C, P \cup Q \cup {p}, r \o s)
<1> DEFINE x == results[a].size
           y == results[b].size
           V == EqualKeys(a, F, k, b, H, l)
           t == Matches(a, k, b, l)
           n == Len(t)
           lefts == [j \in DOMAIN t |-> t[j].left]
           rights == [j \in DOMAIN t |-> t[j].right]
           G == Merged(A, C, F, H, t, n)
           res == JoinOf(a, k, r, b, l, s)
<1>1. Lists(t, V)
  BY MatchesAre
<1> HIDE DEF t
<1>2. n \in Nat /\ t \in [1..n -> V] /\ DOMAIN t = 1..n
  BY <1>1 DEF Lists
<1>3. Enumerates(G, n, A \cup C, P \cup Q \cup {p})
  BY <1>1, JoinEnumerates
<1>4. \A j \in 1..n : t[j].left \in 1..x /\ t[j].right \in 1..y
  <2>1. \A m \in V : m.left \in 1..x /\ m.right \in 1..y
    BY DEF EqualKeys
  <2> HIDE DEF V
  <2> QED
    BY <1>2, <2>1
<1>5. /\ lefts \in [1..n -> 1..x] /\ rights \in [1..n -> 1..y]
      /\ \A j \in 1..n : lefts[j] = t[j].left /\ rights[j] = t[j].right
  <2> HIDE DEF x, y
  <2> QED
    BY <1>2, <1>4
<1>6. res = [select |-> r \o s, columns |-> copied(a, r, lefts) \o copied(b, s, rights), size |-> n]
  BY Zenon DEF JoinOf, t
<1> HIDE DEF res
<1>7. res.select = r \o s /\ res.columns = copied(a, r, lefts) \o copied(b, s, rights) /\ res.size = n
  BY <1>6
<1>8. /\ HasColumns(results[a], F) /\ r \in Seq(Column(raw)) /\ ToSet(r) \subseteq ToSet(results[a].select)
      /\ HasColumns(results[b], H) /\ s \in Seq(Column(raw)) /\ ToSet(s) \subseteq ToSet(results[b].select)
      /\ (\A z \in ToSet(r) : z.binding \in A) /\ (\A z \in ToSet(s) : z.binding \in C)
  BY DEF Side
<1>9. \A j \in 1..n : G[j] = Merge(A, C, F[lefts[j]], H[rights[j]])
  BY <1>5 DEF Merged
<1> HIDE DEF G, lefts, rights
<1>10. Copies(G, n, F, lefts, r)
  <2> SUFFICES ASSUME NEW j \in 1..n, NEW z \in ToSet(r) PROVE value(G[j], z) = value(F[lefts[j]], z)
    BY DEF Copies
  <2> DEFINE g == F[lefts[j]]
             h == H[rights[j]]
  <2>1. G[j] = Merge(A, C, g, h) /\ z.binding \in A
    BY <1>8, <1>9
  <2> HIDE DEF g, h
  <2>2. value(Merge(A, C, g, h), z) = value(g, z)
    BY <2>1, MergeKeeps
  <2> QED
    BY <2>1, <2>2 DEF g
<1>11. Copies(G, n, H, rights, s)
  <2> SUFFICES ASSUME NEW j \in 1..n, NEW z \in ToSet(s) PROVE value(G[j], z) = value(H[rights[j]], z)
    BY DEF Copies
  <2> DEFINE g == F[lefts[j]]
             h == H[rights[j]]
  <2>1. G[j] = Merge(A, C, g, h) /\ z.binding \in C
    BY <1>8, <1>9
  <2> HIDE DEF g, h
  <2>2. value(Merge(A, C, g, h), z) = value(h, z)
    BY <2>1, MergeKeeps
  <2> QED
    BY <2>1, <2>2 DEF h
<1>12. AreValues(copied(a, r, lefts), G, n, r)
  <2> HIDE DEF n
  <2> QED
    BY <1>2, <1>5, <1>8, <1>10, CopiedIs
<1>13. AreValues(copied(b, s, rights), G, n, s)
  <2> HIDE DEF n
  <2> QED
    BY <1>2, <1>5, <1>8, <1>11, CopiedIs
<1>14. AreValues(res.columns, G, n, r \o s)
  <2> DEFINE c == copied(a, r, lefts)
             d == copied(b, s, rights)
  <2>1. AreValues(c, G, n, r) /\ AreValues(d, G, n, s) /\ res.columns = c \o d
    BY <1>7, <1>12, <1>13
  <2> HIDE DEF c, d, n
  <2>2. AreValues(c \o d, G, n, r \o s)
    BY <1>8, <2>1, ConcatValues
  <2> QED
    BY <2>1, <2>2
<1>15. HasColumns(res, G)
  <2>1. r \o s \in Seq(Column(raw))
    BY <1>8, ConcatSet
  <2> HIDE DEF n
  <2> QED
    BY <1>7, <1>14, <2>1 DEF HasColumns, AreValues
<1> HIDE DEF n
<1>16. Enumerates(G, res.size, A \cup C, P \cup Q \cup {p})
  BY <1>3, <1>7
<1> QED
  BY <1>7, <1>15, <1>16 DEF res, IsJoin

\* Join::run, with the sides swapped or not.
LEMMA JoinRuns ==
    ASSUME raw \in Queries, NEW B, NEW T, WiredOK(raw, operators, B, T), supplies = B,
           NEW o \in 1..Len(operators), operators[o].type = "Join",
           asked[o] \in Seq(Column(raw)), \A s \in ToSet(asked[o]) : s.binding \in B[o],
           Passed(asked, o),
           NEW F, Is(results[operators[o].left], asked[operators[o].left],
                     B[operators[o].left], T[operators[o].left], F),
           NEW H, Is(results[operators[o].right], asked[operators[o].right],
                     B[operators[o].right], T[operators[o].right], H)
    PROVE  \E G : Is(runJoin(o), asked[o], B[o], T[o], G)
<1> DEFINE op == operators[o]
           a == op.left
           b == op.right
           p == op.pInfo
           r == requestedColumnsLeft(o)
           s == requestedColumnsRight(o)
           A == B[a]
           C == B[b]
           P == T[a]
           Q == T[b]
           asks == ToSet(asked[o])
<1>1. OpOK(raw, operators, B, T, o) /\ op \in Op(raw)
  BY DEF WiredOK
<1>2. /\ A \cap C = {} /\ p.left.binding \in A /\ p.right.binding \in C
      /\ B[o] = A \cup C /\ T[o] = P \cup Q \cup {p}
      /\ inputs(op) = {a, b} /\ inputs(op) \subseteq 1..o - 1
  <2>1. inputs(op) = {a, b}
    <3> HIDE DEF op
    <3>1. op.type = "Join"
      BY DEF op
    <3> QED
      BY <1>1, <3>1, OpTypes
  <2> QED
    BY <1>1, <2>1 DEF OpOK
<1>3. Within(P, A) /\ Within(Q, C)
  <2>1. a \in 1..Len(operators) /\ b \in 1..Len(operators)
    <3>1. a \in 1..o - 1 /\ b \in 1..o - 1 /\ Len(operators) \in Nat
      BY <1>2 DEF WiredOK
    <3> QED
      BY <3>1
  <2>2. OpOK(raw, operators, B, T, a) /\ OpOK(raw, operators, B, T, b)
    BY <2>1 DEF WiredOK
  <2> HIDE DEF a, b
  <2> QED
    BY <2>2 DEF OpOK, Within
<1>4. /\ r \in Seq(Column(raw)) /\ s \in Seq(Column(raw))
      /\ ToSet(r) = {z \in asks : z.binding \in A} /\ ToSet(s) = {z \in asks : z.binding \notin A}
  BY RequestedOK
<1>5. /\ p.left \in ToSet(asked[a]) /\ p.right \in ToSet(asked[b])
      /\ \A z \in asks : IF z.binding \in A THEN z \in ToSet(asked[a]) ELSE z \in ToSet(asked[b])
  BY DEF Passed
<1>6. /\ Enumerates(F, results[a].size, A, P) /\ HasColumns(results[a], F) /\ ToSet(results[a].select) = ToSet(asked[a])
      /\ Enumerates(H, results[b].size, C, Q) /\ HasColumns(results[b], H) /\ ToSet(results[b].select) = ToSet(asked[b])
  BY DEF Is
<1>7. ToSet(r) \subseteq ToSet(asked[a]) /\ ToSet(s) \subseteq ToSet(asked[b]) /\ ToSet(r) \cup ToSet(s) = asks
  BY <1>4, <1>5
<1>8. (\A z \in ToSet(r) : z.binding \in A) /\ (\A z \in ToSet(s) : z.binding \in C)
  BY <1>2, <1>4
<1>9. Side(a, A, P, F, p.left, r) /\ Side(b, C, Q, H, p.right, s)
  <2> HIDE DEF op, a, b, p, r, s, A, C, P, Q
  <2> QED
    BY <1>2, <1>3, <1>4, <1>5, <1>6, <1>7, <1>8 DEF Side
<1>10. \/ runJoin(o) = JoinOf(a, p.left, r, b, p.right, s)
       \/ runJoin(o) = JoinOf(b, p.right, s, a, p.left, r)
  <2> DEFINE build == side(o, TRUE)
             probe == side(o, FALSE)
             one == [input |-> a, key |-> p.left, requested |-> r]
             two == [input |-> b, key |-> p.right, requested |-> s]
  <2>1. runJoin(o) = JoinOf(build.input, build.key, build.requested, probe.input, probe.key, probe.requested)
    BY Zenon DEF runJoin, JoinOf, Matches, Pairs
  <2>2. (build = one /\ probe = two) \/ (build = two /\ probe = one)
    <3>1. CASE results[op.left].size > results[op.right].size
      BY <3>1 DEF side
    <3>2. CASE ~(results[op.left].size > results[op.right].size)
      <4>1. (results[op.left].size > results[op.right].size) = FALSE
        BY <3>2
      <4> QED
        BY <4>1, Zenon DEF side
    <3> QED
      BY <3>1, <3>2
  <2> HIDE DEF a, b, p, r, s, build, probe
  <2>3. /\ one.input = a /\ one.key = p.left /\ one.requested = r
        /\ two.input = b /\ two.key = p.right /\ two.requested = s
    OBVIOUS
  <2> HIDE DEF one, two
  <2> QED
    BY <2>1, <2>2, <2>3
<1> HIDE DEF op, a, b, p, r, s, A, C, P, Q
<1>11. ToSet(r \o s) = asks /\ ToSet(s \o r) = asks
  <2>1. r \in Seq(Column(raw)) /\ s \in Seq(Column(raw))
    BY <1>4
  <2>2. ToSet(r \o s) = ToSet(r) \cup ToSet(s) /\ ToSet(s \o r) = ToSet(s) \cup ToSet(r)
    BY <2>1, ConcatSet
  <2> HIDE DEF asks
  <2> QED
    BY <1>7, <2>2
<1>12. \E select : ToSet(select) = asks /\ IsJoin(runJoin(o), A \cup C, P \cup Q \cup {p}, select)
  <2>1. CASE runJoin(o) = JoinOf(a, p.left, r, b, p.right, s)
    <3>1. Keys(p, p.left, p.right)
      BY DEF Keys
    <3>2. IsJoin(JoinOf(a, p.left, r, b, p.right, s), A \cup C, P \cup Q \cup {p}, r \o s)
      BY <1>2, <1>9, <3>1, JoinOfIs
    <3> QED
      BY <1>11, <2>1, <3>2, Zenon
  <2>2. CASE runJoin(o) = JoinOf(b, p.right, s, a, p.left, r)
    <3>1. Keys(p, p.right, p.left) /\ C \cap A = {}
      BY <1>2 DEF Keys
    <3>2. IsJoin(JoinOf(b, p.right, s, a, p.left, r), C \cup A, Q \cup P \cup {p}, s \o r)
      BY <1>9, <3>1, JoinOfIs
    <3>3. C \cup A = A \cup C /\ Q \cup P = P \cup Q
      OBVIOUS
    <3> QED
      BY <1>11, <2>2, <3>2, <3>3, Zenon
  <2> QED
    BY <1>10, <2>1, <2>2
<1> QED
  <2> HIDE DEF asks
  <2>1. PICK select : ToSet(select) = asks /\ IsJoin(runJoin(o), A \cup C, P \cup Q \cup {p}, select)
    BY <1>12, Zenon
  <2>2. PICK G : Enumerates(G, runJoin(o).size, B[o], T[o]) /\ HasColumns(runJoin(o), G)
    BY <1>2, <2>1 DEF IsJoin
  <2>3. Is(runJoin(o), asked[o], B[o], T[o], G)
    BY <2>1, <2>2 DEF Is, IsJoin, asks
  <2> QED
    BY <2>3

\* Operator o has run: its result is for these bindings and predicates.
Ran(o, A, P) == \E G : Is(results[o], asked[o], A, P, G)

\* A result stays what it is.
LEMMA RanIs ==
    ASSUME raw' = raw, asked' = asked, NEW o, NEW A, NEW P, NEW res, results'[o] = res,
           NEW G, Is(res, asked[o], A, P, G)
    PROVE  Ran(o, A, P)'
<1>1. Fits(A, P)' = Fits(A, P)
  BY DEF Fits, Rows, Passes, Agrees, value, relation
<1>2. Enumerates(G, res.size, A, P) /\ HasColumns(res, G) /\ ToSet(res.select) = ToSet(asked[o])
  BY DEF Is
<1>3. Enumerates(G, results[o].size, A, P)'
  BY <1>1, <1>2 DEF Enumerates
<1>4. HasColumns(results[o], G)'
  <2>1. results'[o].select \in Seq(Column(raw')) /\ DOMAIN results'[o].columns = 1..Len(results'[o].select)
    BY <1>2 DEF HasColumns
  <2>2. ASSUME NEW k \in 1..Len(results'[o].select)
        PROVE  results'[o].columns[k] = Values(G, results[o].size, results[o].select[k])'
    <3>1. res.columns[k] = Values(G, res.size, res.select[k])
      BY <2>2 DEF HasColumns, Is
    <3> QED
      BY <3>1, Zenon DEF Values, value, relation
  <2> QED
    BY <2>1, <2>2 DEF HasColumns
<1>5. Is(results[o], asked[o], A, P, G)'
  BY <1>2, <1>3, <1>4 DEF Is
<1> QED
  BY <1>5 DEF Ran

\* The operators before at have run.
Running(B, T) == Whole(B, T) /\ \A o \in 1..at - 1 : Ran(o, B[o], T[o])

\* What has run has all the rows of its bindings that fit.
RunInv ==
    /\ phase \in {"require", "run", "done"} => DOMAIN results = 1..Len(operators)
    /\ phase \in {"run", "done"} => \E B, T : Running(B, T)

\* One more operator runs.
LEMMA RunStep == PlanInv /\ AskedInv /\ RunInv /\ Run => RunInv'
<1> SUFFICES ASSUME PlanInv, AskedInv, RunInv, Run PROVE RunInv'
  OBVIOUS
<1> DEFINE n == Len(operators)
           op == operators[at]
           res == CASE op.type = "Scan"     -> runScan(at)
                    [] op.type = "Join"     -> runJoin(at)
                    [] op.type = "SelfJoin" -> runSelfJoin(at)
<1>1. /\ phase = "run" /\ phase' = "run" /\ at <= n /\ at' = at + 1
      /\ results' = [results EXCEPT ![at] = res]
      /\ UNCHANGED <<raw, root, plan, asked>>
  BY Zenon DEF Run
<1>2. raw \in Queries /\ DOMAIN results = 1..n
  BY <1>1 DEF PlanInv, QueryInv, RunInv
<1>3. PICK B, T : Running(B, T)
  BY <1>1 DEF RunInv
<1>4. WiredOK(raw, operators, B, T) /\ \A o \in 1..at - 1 : Ran(o, B[o], T[o])
  BY <1>3 DEF Running, Whole
<1>5. supplies = B
  BY <1>4, SuppliesIs
<1>6. /\ Asking(asked) /\ Position /\ \A o \in 1..n : Passed(asked, o)
  BY <1>1 DEF AskedInv
<1>7. n \in Nat /\ at \in 1..n
  BY <1>1, <1>4, <1>6 DEF WiredOK, Position
<1>8. /\ asked[at] \in Seq(Column(raw)) /\ (\A s \in ToSet(asked[at]) : s.binding \in B[at])
      /\ Passed(asked, at) /\ op \in Op(raw) /\ inputs(op) \subseteq 1..at - 1
  BY <1>4, <1>5, <1>6, <1>7, SMTT(30) DEF Asking, WiredOK, OpOK
<1>9. \E G : Is(res, asked[at], B[at], T[at], G)
  <2>1. CASE op.type = "Scan"
    <3>1. res = runScan(at)
      BY <2>1
    <3>2. \E G : Is(runScan(at), asked[at], B[at], T[at], G)
      BY <1>2, <1>4, <1>7, <1>8, <2>1, ScanRuns
    <3> HIDE DEF res
    <3> QED
      BY <3>1, <3>2
  <2>2. CASE op.type = "Join" /\ inputs(op) = {op.left, op.right}
    <3>1. res = runJoin(at)
      BY <2>2
    <3>2. Ran(op.left, B[op.left], T[op.left]) /\ Ran(op.right, B[op.right], T[op.right])
      BY <1>4, <1>8, <2>2
    <3>3. PICK F : Is(results[op.left], asked[op.left], B[op.left], T[op.left], F)
      BY <3>2 DEF Ran
    <3>4. PICK H : Is(results[op.right], asked[op.right], B[op.right], T[op.right], H)
      BY <3>2 DEF Ran
    <3>5. \E G : Is(runJoin(at), asked[at], B[at], T[at], G)
      BY <1>2, <1>4, <1>5, <1>7, <1>8, <2>2, <3>3, <3>4, JoinRuns
    <3> HIDE DEF res
    <3> QED
      BY <3>1, <3>5
  <2>3. CASE op.type = "SelfJoin" /\ inputs(op) = {op.input}
    <3>1. res = runSelfJoin(at)
      BY <2>3
    <3>2. Ran(op.input, B[op.input], T[op.input])
      BY <1>4, <1>8, <2>3
    <3>3. PICK F : Is(results[op.input], asked[op.input], B[op.input], T[op.input], F)
      BY <3>2 DEF Ran
    <3>4. \E G : Is(runSelfJoin(at), asked[at], B[at], T[at], G)
      BY <1>2, <1>4, <1>5, <1>7, <1>8, <2>3, <3>3, SelfJoinRuns
    <3> HIDE DEF res
    <3> QED
      BY <3>1, <3>4
  <2> HIDE DEF res, op
  <2> QED
    BY <1>8, <2>1, <2>2, <2>3, OpTypes
<1> HIDE DEF res
<1>10. results'[at] = res /\ DOMAIN results' = 1..n /\ \A o \in 1..n : o # at => results'[o] = results[o]
  BY <1>1, <1>2, <1>7
<1>11. ASSUME NEW o \in 1..at PROVE Ran(o, B[o], T[o])'
  <2>1. CASE o = at
    <3>1. PICK G : Is(res, asked[o], B[o], T[o], G)
      BY <1>9, <2>1
    <3> QED
      BY <1>1, <1>10, <2>1, <3>1, RanIs
  <2>2. CASE o # at
    <3>1. o \in 1..at - 1 /\ o \in 1..n
      BY <1>7, <2>2
    <3>2. PICK G : Is(results[o], asked[o], B[o], T[o], G)
      BY <1>4, <3>1 DEF Ran
    <3>3. results'[o] = results[o]
      BY <1>10, <2>2, <3>1
    <3> QED
      BY <1>1, <3>2, <3>3, RanIs
  <2> QED
    BY <2>1, <2>2
<1>12. operators' = operators /\ tree' = tree
  BY <1>1 DEF operators, tree
<1>13. Whole(B, T)'
  BY <1>1, <1>3, <1>12 DEF Running, Whole
<1>14. Running(B, T)'
  <2>1. at' - 1 = at
    BY <1>1, <1>7
  <2> QED
    BY <1>11, <1>13, <2>1 DEF Running
<1> QED
  BY <1>10, <1>12, <1>14 DEF RunInv, n

\* The operators start to run when all columns are required.
LEMMA RunStarts == PlanInv /\ AskedInv /\ RunInv /\ RequireInputs => RunInv'
<1> SUFFICES ASSUME PlanInv, AskedInv, RunInv, RequireInputs PROVE RunInv'
  OBVIOUS
<1>1. /\ phase = "require" /\ phase' \in {"require", "run"}
      /\ phase' = "run" => ~(at > 1) /\ at' = at
      /\ UNCHANGED <<raw, root, plan, results>>
  BY DEF RequireInputs
<1>2. i = Len(Joins(raw)) + 1
  BY <1>1 DEF PlanInv, QueryInv
<1>3. PICK B, T : Whole(B, T)
  BY <1>2, PlanIsWhole
<1>4. operators' = operators /\ tree' = tree
  BY <1>1 DEF operators, tree
<1>5. Whole(B, T)'
  BY <1>1, <1>3, <1>4 DEF Whole
<1>6. DOMAIN results' = 1..Len(operators)'
  BY <1>1, <1>4 DEF RunInv
<1>7. phase' = "run" => \E D, E : Running(D, E)'
  <2> SUFFICES ASSUME phase' = "run" PROVE Running(B, T)'
    BY Zenon
  <2>1. at \in 1..Len(operators) /\ Len(operators) \in Nat
    BY <1>1, <1>3 DEF AskedInv, Position, Whole, WiredOK
  <2>2. at' = 1
    BY <1>1, <2>1
  <2>3. 1..at' - 1 = {}
    BY <2>2
  <2> QED
    BY <1>5, <2>3 DEF Running
<1> QED
  BY <1>1, <1>6, <1>7 DEF RunInv

\* Every step keeps that.
LEMMA RunNext == PlanInv /\ AskedInv /\ RunInv /\ [Next]_vars => RunInv'
<1> SUFFICES ASSUME PlanInv, AskedInv, RunInv, [Next]_vars PROVE RunInv'
  OBVIOUS
<1>1. CASE Run
  BY <1>1, RunStep
<1>2. CASE RequireInputs
  BY <1>2, RunStarts
<1>3. CASE NeedConnect \/ SelfConnect \/ Parse
  <2>1. phase' \in {"parse", "plan"}
    BY <1>3 DEF NeedConnect, SelfConnect, Parse, takePredicate
  <2> QED
    BY <2>1, SMTT(30) DEF RunInv
<1>4. CASE Require
  <2>1. /\ phase' = "require" /\ plan' = plan /\ results' = [o \in DOMAIN operators |-> <<>>]
    BY <1>4 DEF Require
  <2>2. operators' = operators
    BY <2>1 DEF operators
  <2>3. DOMAIN operators = 1..Len(operators)
    <3>1. PICK R, d, B, T : Plan(raw, plan, Taken, R, d, B, T)
      BY DEF PlanInv, PlanOK
    <3>2. WiredOK(raw, operators, B, T)
      BY <3>1 DEF Plan, operators
    <3> QED
      BY <3>2 DEF WiredOK
  <2> QED
    BY <2>1, <2>2, <2>3 DEF RunInv
<1>5. CASE Checksum \/ Done \/ UNCHANGED vars
  <2>1. UNCHANGED <<raw, root, plan, asked, at, results>>
    BY <1>5, Zenon DEF Checksum, Done, vars
  <2>2. (phase' = "done" /\ phase = "run") \/ phase' = phase
    BY <1>5, Zenon DEF Checksum, Done, vars
  <2>3. operators' = operators /\ tree' = tree
    BY <2>1 DEF operators, tree
  <2>4. DOMAIN results = 1..Len(operators) => DOMAIN results' = 1..Len(operators)'
    BY <2>1, <2>3
  <2>5. ASSUME NEW B, NEW T, Running(B, T) PROVE Running(B, T)'
    <3>1. Whole(B, T)'
      BY <2>1, <2>3, <2>5 DEF Running, Whole
    <3>2. ASSUME NEW o \in 1..at - 1 PROVE Ran(o, B[o], T[o])'
      <4>1. PICK G : Is(results[o], asked[o], B[o], T[o], G)
        BY <2>5 DEF Running, Ran
      <4> QED
        BY <2>1, <4>1, RanIs
    <3> QED
      BY <2>1, <3>1, <3>2 DEF Running
  <2> QED
    BY <2>2, <2>4, <2>5, Zenon DEF RunInv
<1> QED
  BY <1>1, <1>2, <1>3, <1>4, <1>5 DEF Next

\* Operators that have run have all rows that satisfy the conditions below.
THEOREM RunInvariant == Spec => []RunInv
<1>1. Init => RunInv
  BY DEF Init, RunInv
<1>2. PlanInv /\ AskedInv /\ RunInv /\ [Next]_vars => RunInv'
  BY RunNext
<1> QED
  BY <1>1, <1>2, PlanInvariant, AskedInvariant, PTL DEF Spec

-----------------------------------------------------------------------------
(* The checksums                                                           *)

\* A sum can be reduced at every step.
LEMMA ModAdd ==
    ASSUME NEW m \in Nat \ {0}, NEW a \in Nat, NEW x \in Nat
    PROVE  ((a % m) + x) % m = (x + a) % m
<1> DEFINE q == a \div m
           r == a % m
           y == r + x
           p == y \div m
           z == y % m
<1>1. m \in Nat /\ m > 0
  OBVIOUS
<1>2. a = m * q + r /\ r \in 0..m - 1 /\ q \in Nat
  BY <1>1, Division
<1> HIDE DEF q, r
<1>3. y \in Nat
  BY <1>1, <1>2
<1>4. y = m * p + z /\ z \in 0..m - 1 /\ p \in Nat
  <2> HIDE DEF y
  <2> QED
    BY <1>1, <1>3, Division
<1> HIDE DEF p, z
<1>5. x + a = m * (q + p) + z
  <2>1. x + a = m * q + y
    BY <1>1, <1>2
  <2>2. m * (q + p) = m * q + m * p
    BY <1>1, <1>2, <1>4
  <2>3. m * q \in Nat /\ m * p \in Nat
    BY <1>1, <1>2, <1>4
  <2> HIDE DEF y
  <2> QED
    BY <1>3, <1>4, <2>1, <2>2, <2>3
<1>6. (x + a) % m = z
  <2>1. q + p \in Nat
    BY <1>2, <1>4
  <2>2. (m * (q + p) + z) % m = z
    BY <1>4, <2>1, DivisionOf
  <2> QED
    BY <1>5, <2>2
<1> QED
  BY <1>6 DEF z, r, y

\* The sum of u over a set of indices, whichever is added last.
IsWeight(W, n, u) ==
    /\ W \in [SUBSET (1..n) -> Nat] /\ W[{}] = 0
    /\ \A s \in SUBSET (1..n) : \A x \in s : W[s] = u[x] + W[s \ {x}]

\* There is such a sum.
LEMMA WeightExists ==
    ASSUME NEW n \in Nat, NEW u \in [1..n -> Nat]
    PROVE  \E W : IsWeight(W, n, u)
<1> DEFINE Good(k) == \E W : IsWeight(W, k, u)
           S == {k \in 0..n : Good(k)}
<1>1. 0 \in S
  <2> DEFINE W == [s \in SUBSET (1..0) |-> 0]
  <2>1. 1..0 = {}
    OBVIOUS
  <2>2. W \in [SUBSET (1..0) -> Nat] /\ W[{}] = 0
    OBVIOUS
  <2>3. \A s \in SUBSET (1..0) : \A x \in s : FALSE
    BY <2>1
  <2> HIDE DEF W
  <2>4. IsWeight(W, 0, u)
    BY <2>2, <2>3 DEF IsWeight
  <2> QED
    BY <2>4
<1>2. \A k \in 0..n - 1 : k \in S => k + 1 \in S
  <2> SUFFICES ASSUME NEW k \in 0..n - 1, k \in S PROVE k + 1 \in S
    OBVIOUS
  <2>1. PICK W : IsWeight(W, k, u)
    OBVIOUS
  <2> DEFINE m == k + 1
             new == [s \in SUBSET (1..m) |-> IF m \in s THEN u[m] + W[s \ {m}] ELSE W[s]]
  <2>2. /\ W \in [SUBSET (1..k) -> Nat] /\ W[{}] = 0
        /\ \A s \in SUBSET (1..k) : \A x \in s : W[s] = u[x] + W[s \ {x}]
    BY <2>1 DEF IsWeight
  <2>3. m \in 1..n /\ m \in 0..n /\ u[m] \in Nat /\ m \notin 1..k
    OBVIOUS
  <2>4. \A s \in SUBSET (1..m) : s \ {m} \in SUBSET (1..k) /\ (m \notin s => s \in SUBSET (1..k))
    <3>1. \A x \in 1..m : x # m => x \in 1..k
      OBVIOUS
    <3> HIDE DEF m
    <3> QED
      BY <3>1
  <2>5. \A s \in SUBSET (1..m) : new[s] = IF m \in s THEN u[m] + W[s \ {m}] ELSE W[s]
    OBVIOUS
  <2>6. new \in [SUBSET (1..m) -> Nat]
    <3>1. \A s \in SUBSET (1..m) : (IF m \in s THEN u[m] + W[s \ {m}] ELSE W[s]) \in Nat
      <4> HIDE DEF m
      <4> QED
        BY <2>2, <2>3, <2>4
    <3> QED
      BY <3>1
  <2> HIDE DEF new, m
  <2>7. new[{}] = 0
    BY <2>2, <2>5
  <2>8. ASSUME NEW s \in SUBSET (1..m), NEW x \in s PROVE new[s] = u[x] + new[s \ {x}]
    <3> DEFINE t == s \ {x}
    <3>1. t \in SUBSET (1..m)
      OBVIOUS
    <3>2. CASE x = m
      <4>1. m \in s /\ m \notin t /\ s \ {m} = t
        BY <3>2
      <4> HIDE DEF t
      <4>2. new[s] = u[m] + W[t] /\ new[t] = W[t]
        BY <2>5, <3>1, <4>1
      <4> QED
        BY <3>2, <4>2 DEF t
    <3>3. CASE x # m /\ m \in s
      <4> DEFINE v == s \ {m}
      <4>1. m \in t /\ x \in v /\ t \ {m} = v \ {x} /\ v \in SUBSET (1..k)
        BY <2>4, <3>3
      <4>2. new[s] = u[m] + W[v] /\ new[t] = u[m] + W[t \ {m}]
        BY <2>5, <3>1, <3>3, <4>1
      <4> HIDE DEF t, v
      <4>3. W[v] = u[x] + W[v \ {x}]
        BY <2>2, <4>1
      <4>4. u[x] \in Nat /\ W[v \ {x}] \in Nat
        <5>1. x \in 1..k /\ v \ {x} \in SUBSET (1..k)
          BY <4>1
        <5>2. x \in 1..n
          BY <2>3, <5>1 DEF m
        <5> QED
          BY <2>2, <5>1, <5>2
      <4>5. new[s] = u[m] + (u[x] + W[v \ {x}]) /\ new[t] = u[m] + W[v \ {x}]
        BY <4>1, <4>2, <4>3
      <4>6. new[s] = u[x] + new[t]
        BY <2>3, <4>4, <4>5
      <4> QED
        BY <4>6 DEF t
    <3>4. CASE m \notin s
      <4>1. m \notin t /\ s \in SUBSET (1..k)
        BY <2>4, <3>4
      <4>2. new[s] = W[s] /\ new[t] = W[t]
        BY <2>5, <3>1, <3>4, <4>1
      <4>3. W[s] = u[x] + W[t]
        BY <2>2, <4>1
      <4> QED
        BY <4>2, <4>3
    <3> QED
      BY <3>2, <3>3, <3>4
  <2>9. IsWeight(new, m, u)
    BY <2>6, <2>7, <2>8 DEF IsWeight
  <2> QED
    BY <2>3, <2>9 DEF m
<1>3. n \in S
  <2> HIDE DEF S
  <2>1. \A k \in 0..n : k \in S
    BY <1>1, <1>2, UpTo
  <2> QED
    BY <2>1
<1> QED
  BY <1>3

\* The sum that Checksum::run makes of a column.
total(column) == FoldLeft(LAMBDA sum, x : (sum + x) % Modulus, 0, column)

\* It is the sum, reduced.
LEMMA TotalIs ==
    ASSUME NEW n \in Nat, NEW u \in [1..n -> Nat], NEW W, IsWeight(W, n, u)
    PROVE  total(u) = W[1..n] % Modulus
<1> DEFINE step == [p \in (1..n) \X Nat |-> (p[2] + u[p[1]]) % Modulus]
           IsIt(f) == f = [s \in SUBSET DOMAIN u |->
                              IF s = {} THEN 0 ELSE (f[s \ {Max(s)}] + u[Max(s)]) % Modulus]
           iter == CHOOSE f : IsIt(f)
<1>1. DOMAIN u = 1..n /\ Modulus \in Nat /\ Modulus > 0 /\ \A k \in 1..n : u[k] \in Nat
  BY ModulusAssumption
<1>2. \A k \in 1..n, a \in Nat : step[<<k, a>>] = (a + u[k]) % Modulus
  OBVIOUS
<1> HIDE DEF step
<1>3. Steps(step, n, Nat)
  <2> SUFFICES ASSUME NEW k \in 1..n, NEW a \in Nat PROVE step[<<k, a>>] \in Nat
    BY Zenon DEF Steps
  <2>1. a + u[k] \in Nat
    BY <1>1
  <2> DEFINE b == a + u[k]
  <2> HIDE DEF b
  <2>2. b % Modulus \in Nat
    BY <1>1, <2>1, Division DEF b
  <2> QED
    BY <1>2, <2>2 DEF b
<1>4. total(u) = iter[DOMAIN u]
  BY Zenon DEF total, FoldLeft, MapThenFoldSet
<1>5. IsIt(iter)
  <2>1. PICK F \in [SUBSET (1..n) -> Nat] : IsFold(F, n, 0, step)
    BY <1>3, FoldExists
  <2>2. \A s \in SUBSET (1..n) : F[s] = IF s = {} THEN 0 ELSE step[<<Max(s), F[s \ {Max(s)}]>>]
    BY <2>1, Zenon DEF IsFold
  <2>3. \A s \in SUBSET (1..n) : s # {} =>
           step[<<Max(s), F[s \ {Max(s)}]>>] = (F[s \ {Max(s)}] + u[Max(s)]) % Modulus
    <3> SUFFICES ASSUME NEW s \in SUBSET (1..n), s # {}
                 PROVE  Max(s) \in 1..n /\ F[s \ {Max(s)}] \in Nat
      BY <1>2, Zenon
    <3>1. s \in SUBSET (0..n)
      OBVIOUS
    <3>2. Max(s) \in s
      BY <3>1, MaxOK
    <3> QED
      BY <3>2
  <2>4. \A s \in SUBSET (1..n) :
           F[s] = IF s = {} THEN 0 ELSE (F[s \ {Max(s)}] + u[Max(s)]) % Modulus
    BY <2>2, <2>3, Zenon
  <2>5. F = [s \in SUBSET DOMAIN u |-> F[s]]
    BY <1>1, Zenon
  <2>6. IsIt(F)
    BY <1>1, <2>4, <2>5, Zenon
  <2> HIDE DEF IsIt
  <2> QED
    BY <2>6, Zenon
<1> HIDE DEF iter
<1>6. \A s \in SUBSET (1..n) :
         iter[s] = IF s = {} THEN 0 ELSE (iter[s \ {Max(s)}] + u[Max(s)]) % Modulus
  BY <1>1, <1>5, Zenon
<1> HIDE DEF IsIt
<1>7. /\ W \in [SUBSET (1..n) -> Nat] /\ W[{}] = 0
      /\ \A s \in SUBSET (1..n) : \A x \in s : W[s] = u[x] + W[s \ {x}]
  BY DEF IsWeight
<1> DEFINE S == {k \in 0..n : iter[1..k] = W[1..k] % Modulus}
<1>8. 0 \in S
  <2>1. 1..0 = {} /\ 1..0 \in SUBSET (1..n) /\ 0 \in 0..n
    OBVIOUS
  <2>2. iter[1..0] = 0 /\ W[1..0] = 0
    BY <1>6, <1>7, <2>1, Zenon
  <2>3. 0 % Modulus = 0
    BY <1>1
  <2> QED
    BY <2>1, <2>2, <2>3, Zenon
<1>9. \A k \in 0..n - 1 : k \in S => k + 1 \in S
  <2> SUFFICES ASSUME NEW k \in 0..n - 1, k \in S PROVE k + 1 \in S
    OBVIOUS
  <2> DEFINE m == k + 1
  <2>1. m \in 1..n /\ m \in 0..n
    OBVIOUS
  <2>2. 1..m \in SUBSET (1..n) /\ 1..m # {} /\ (1..m) \ {m} = 1..k /\ Max(1..m) = m
    BY <2>1, UpToM
  <2>3. m \in 1..m /\ 1..k \in SUBSET (1..n)
    OBVIOUS
  <2> HIDE DEF m
  <2>4. iter[1..m] = (iter[1..k] + u[m]) % Modulus
    BY <1>6, <2>2, Zenon
  <2>5. W[1..m] = u[m] + W[1..k]
    <3> DEFINE s == 1..m
    <3>1. s \in SUBSET (1..n) /\ m \in s /\ s \ {m} = 1..k
      BY <2>2, <2>3
    <3> HIDE DEF s
    <3>2. W[s] = u[m] + W[s \ {m}]
      BY <1>7, <3>1
    <3> QED
      BY <3>1, <3>2 DEF s
  <2>6. iter[1..k] = W[1..k] % Modulus /\ W[1..k] \in Nat /\ u[m] \in Nat
    BY <1>1, <1>7, <2>1, <2>3
  <2>7. ((W[1..k] % Modulus) + u[m]) % Modulus = (u[m] + W[1..k]) % Modulus
    BY <2>6, ModAdd, ModulusAssumption
  <2>8. iter[1..m] = W[1..m] % Modulus
    BY <2>4, <2>5, <2>6, <2>7, Zenon
  <2> QED
    BY <2>1, <2>8 DEF m
<1>10. n \in S
  <2> HIDE DEF S
  <2>1. \A k \in 0..n : k \in S
    BY <1>8, <1>9, UpTo
  <2> QED
    BY <2>1
<1> QED
  BY <1>1, <1>4, <1>10

\* The sum of a column over a set of rows.
sumOver(M, info) == MapThenSumSet(LAMBDA rows : value(rows, info), M)

\* G has each member of M once.
Once(G, n, M) ==
    /\ n \in Nat /\ G \in [1..n -> M]
    /\ \A j, k \in 1..n : G[j] = G[k] => j = k
    /\ \A g \in M : \E k \in 1..n : G[k] = g

\* It is the sum of the values, one by one.
LEMMA SumIs ==
    ASSUME NEW M, NEW n \in Nat, NEW G, Once(G, n, M), NEW info,
           Values(G, n, info) \in [1..n -> Nat],
           NEW W, IsWeight(W, n, Values(G, n, info))
    PROVE  sumOver(M, info) = W[1..n]
<1> DEFINE u == Values(G, n, info)
           one == [k \in 1..n |-> 1]
           I(s) == {k \in 1..n : G[k] \in s}
           IsIt(f) == f = [s \in SUBSET M |->
                              IF s = {} THEN 0
                              ELSE value(CHOOSE x \in s : TRUE, info) + f[s \ {CHOOSE x \in s : TRUE}]]
           iter == CHOOSE f : IsIt(f)
           some(s) == CHOOSE x \in s : TRUE
<1>1. sumOver(M, info) = iter[M]
  BY Zenon DEF sumOver, MapThenSumSet, MapThenFoldSet
<1>2. \A k \in 1..n : u[k] = value(G[k], info)
  BY DEF Values
<1> HIDE DEF u, iter
<1>3. /\ W \in [SUBSET (1..n) -> Nat] /\ W[{}] = 0
      /\ \A s \in SUBSET (1..n) : \A x \in s : W[s] = u[x] + W[s \ {x}]
  BY DEF IsWeight, u
<1>4. /\ G \in [1..n -> M]
      /\ \A j, k \in 1..n : G[j] = G[k] => j = k
      /\ \A g \in M : \E k \in 1..n : G[k] = g
  BY DEF Once
<1>5. PICK V : IsWeight(V, n, one)
  <2>1. one \in [1..n -> Nat]
    OBVIOUS
  <2> HIDE DEF one
  <2> QED
    BY <2>1, WeightExists
<1>6. /\ V \in [SUBSET (1..n) -> Nat] /\ V[{}] = 0
      /\ \A s \in SUBSET (1..n) : \A x \in s : V[s] = 1 + V[s \ {x}]
  <2>1. /\ V \in [SUBSET (1..n) -> Nat] /\ V[{}] = 0
        /\ \A s \in SUBSET (1..n) : \A x \in s : V[s] = one[x] + V[s \ {x}]
    <3> HIDE DEF one
    <3> QED
      BY <1>5 DEF IsWeight
  <2>2. \A x \in 1..n : one[x] = 1
    OBVIOUS
  <2> HIDE DEF one
  <2>3. ASSUME NEW s \in SUBSET (1..n), NEW x \in s PROVE V[s] = 1 + V[s \ {x}]
    <3>1. x \in 1..n
      OBVIOUS
    <3>2. V[s] = one[x] + V[s \ {x}] /\ one[x] = 1
      BY <2>1, <2>2, <3>1
    <3> QED
      BY <3>2
  <2> QED
    BY <2>1, <2>3
<1>7. \A s \in SUBSET M : I(s) \in SUBSET (1..n)
  OBVIOUS
<1>8. ASSUME NEW s \in SUBSET M, s # {}
      PROVE  /\ some(s) \in s /\ s \ {some(s)} \in SUBSET M
             /\ W[I(s)] = value(some(s), info) + W[I(s \ {some(s)})]
             /\ V[I(s)] = 1 + V[I(s \ {some(s)})]
  <2> DEFINE x == some(s)
  <2>1. x \in s
    BY <1>8
  <2> HIDE DEF x
  <2>2. PICK k \in 1..n : G[k] = x
    BY <1>4, <2>1
  <2>3. k \in I(s) /\ I(s) \in SUBSET (1..n)
    BY <2>1, <2>2
  <2>4. I(s \ {x}) = I(s) \ {k}
    BY <1>4, <2>2
  <2> DEFINE t == I(s)
  <2>5. t \in SUBSET (1..n) /\ k \in t /\ I(s \ {x}) = t \ {k}
    BY <2>3, <2>4
  <2> HIDE DEF I, t
  <2>6. W[t] = u[k] + W[t \ {k}] /\ V[t] = 1 + V[t \ {k}]
    BY <1>3, <1>6, <2>5
  <2>7. u[k] = value(x, info)
    BY <1>2, <2>2
  <2>8. W[I(s)] = value(x, info) + W[I(s \ {x})] /\ V[I(s)] = 1 + V[I(s \ {x})]
    BY <2>5, <2>6, <2>7 DEF t
  <2> QED
    BY <2>1, <2>8 DEF x
<1>9. I({}) = {}
  OBVIOUS
<1>10. IsIt(iter)
  <2> DEFINE F == [s \in SUBSET M |-> W[I(s)]]
  <2>1. \A s \in SUBSET M : F[s] = W[I(s)]
    OBVIOUS
  <2>2. F = [s \in SUBSET M |-> F[s]]
    BY Zenon
  <2> HIDE DEF F, I
  <2>3. ASSUME NEW s \in SUBSET M
        PROVE  F[s] = IF s = {} THEN 0 ELSE value(some(s), info) + F[s \ {some(s)}]
    <3>1. CASE s = {}
      BY <1>3, <1>9, <2>1, <3>1
    <3>2. CASE s # {}
      <4> HIDE DEF some
      <4> QED
        BY <1>8, <2>1, <3>2
    <3> QED
      BY <3>1, <3>2
  <2>4. IsIt(F)
    BY <2>2, <2>3, Zenon
  <2> HIDE DEF IsIt
  <2> QED
    BY <2>4, Zenon DEF iter
<1>11. \A s \in SUBSET M : iter[s] = IF s = {} THEN 0 ELSE value(some(s), info) + iter[s \ {some(s)}]
  BY <1>10, Zenon
<1> HIDE DEF IsIt, some, I
<1> DEFINE N == V[I(M)]
           S == {k \in 0..N : \A s \in SUBSET M : V[I(s)] = k => iter[s] = W[I(s)]}
<1>12. M \in SUBSET M /\ N \in Nat
  BY <1>6, <1>7
<1>13. 0 \in S
  <2> SUFFICES ASSUME NEW s \in SUBSET M, V[I(s)] = 0 PROVE iter[s] = W[I(s)]
    BY <1>12
  <2>1. CASE s = {}
    BY <1>3, <1>9, <1>11, <2>1
  <2>2. CASE s # {}
    <3>1. V[I(s)] = 1 + V[I(s \ {some(s)})] /\ s \ {some(s)} \in SUBSET M
      BY <1>8, <2>2
    <3>2. V[I(s \ {some(s)})] \in Nat
      BY <1>6, <1>7, <3>1
    <3> QED
      BY <3>1, <3>2
  <2> QED
    BY <2>1, <2>2
<1>14. \A k \in 0..N - 1 : k \in S => k + 1 \in S
  <2> SUFFICES ASSUME NEW k \in 0..N - 1, k \in S, NEW s \in SUBSET M, V[I(s)] = k + 1
               PROVE  iter[s] = W[I(s)]
    BY <1>12
  <2>1. s # {}
    <3> SUFFICES ASSUME s = {} PROVE FALSE
      OBVIOUS
    <3>1. V[I(s)] = 0
      BY <1>6, <1>9
    <3> QED
      BY <1>12, <3>1
  <2> DEFINE t == s \ {some(s)}
  <2>2. /\ t \in SUBSET M /\ W[I(s)] = value(some(s), info) + W[I(t)] /\ V[I(s)] = 1 + V[I(t)]
    BY <1>8, <2>1
  <2>3. iter[s] = value(some(s), info) + iter[t]
    BY <1>11, <2>1, Zenon
  <2> HIDE DEF t
  <2>4. V[I(t)] = k
    <3>1. V[I(t)] \in Nat
      BY <1>6, <1>7, <2>2
    <3> QED
      BY <1>12, <2>2, <3>1, SMTT(30)
  <2>5. iter[t] = W[I(t)]
    BY <2>2, <2>4
  <2> QED
    BY <2>2, <2>3, <2>5
<1>15. N \in S
  <2>1. \A k \in 0..N : k \in S
    <3> HIDE DEF S, N
    <3> QED
      BY <1>12, <1>13, <1>14, UpTo
  <2>2. N \in 0..N
    BY <1>12
  <2> HIDE DEF S, N
  <2> QED
    BY <2>1, <2>2
<1>16. iter[M] = W[I(M)]
  BY <1>12, <1>15
<1>17. I(M) = 1..n
  BY <1>4 DEF I
<1> QED
  BY <1>1, <1>16, <1>17

\* Finitely many numbers have a bound.
LEMMA Bounded ==
    ASSUME NEW n \in Nat, NEW f, \A b \in 0..n - 1 : f[b] \in Nat
    PROVE  \E N \in Nat : \A b \in 0..n - 1 : f[b] <= N
<1> DEFINE S == {k \in 0..n : \E N \in Nat : \A b \in 0..k - 1 : f[b] <= N}
<1>1. 0 \in S
  <2>1. 0 \in Nat /\ \A b \in 0..0 - 1 : f[b] <= 0
    OBVIOUS
  <2> QED
    BY <2>1
<1>2. \A k \in 0..n - 1 : k \in S => k + 1 \in S
  <2> SUFFICES ASSUME NEW k \in 0..n - 1, k \in S PROVE k + 1 \in S
    OBVIOUS
  <2>1. PICK N \in Nat : \A b \in 0..k - 1 : f[b] <= N
    OBVIOUS
  <2>2. f[k] \in Nat /\ k + 1 \in 0..n
    OBVIOUS
  <2> DEFINE M == N + f[k]
  <2>3. M \in Nat /\ f[k] <= M /\ N <= M
    BY <2>2
  <2> HIDE DEF M
  <2>4. ASSUME NEW b \in 0..(k + 1) - 1 PROVE f[b] <= M
    <3>1. CASE b = k
      BY <2>3, <3>1
    <3>2. CASE b \in 0..k - 1
      <4>1. f[b] <= N /\ f[b] \in Nat
        BY <2>1, <3>2
      <4> QED
        BY <2>3, <4>1
    <3> QED
      BY <3>1, <3>2
  <2> QED
    BY <2>2, <2>3, <2>4
<1>3. n \in S
  <2> HIDE DEF S
  <2>1. \A k \in 0..n : k \in S
    BY <1>1, <1>2, UpTo
  <2> QED
    BY <2>1
<1> QED
  BY <1>3

\* The rows that match are the rows of all bindings that fit all conditions.
LEMMA MatchingIs ==
    ASSUME raw \in Queries
    PROVE  Matching = Fits(Bindings(raw), ToSet(Joins(raw)))
<1> DEFINE A == Bindings(raw)
           sizes == {relation(b).size : b \in A}
           P == ToSet(Joins(raw))
<1>1. \A b \in A : relation(b).size \in Nat
  BY RelationOK
<1>2. Len(raw.relationIds) \in Nat /\ A = 0..Len(raw.relationIds) - 1
  BY QueriesAssumption DEF Bindings
<1>3. \A b \in A : relation(b).size <= Max(sizes) /\ Max(sizes) \in Nat
  <2> DEFINE f == [b \in A |-> relation(b).size]
             n == Len(raw.relationIds)
  <2>1. \A b \in 0..n - 1 : f[b] \in Nat
    BY <1>1, <1>2
  <2>2. \A b \in A : f[b] = relation(b).size
    OBVIOUS
  <2> HIDE DEF f, n
  <2>3. PICK N \in Nat : \A b \in 0..n - 1 : f[b] <= N
    BY <1>2, <2>1, Bounded DEF n
  <2>4. \A b \in A : relation(b).size \in 0..N
    BY <1>1, <1>2, <2>2, <2>3 DEF n
  <2>5. sizes \in SUBSET (0..N) /\ \A b \in A : relation(b).size \in sizes
    BY <2>4
  <2> HIDE DEF sizes, A
  <2> SUFFICES ASSUME NEW b \in A PROVE relation(b).size <= Max(sizes) /\ Max(sizes) \in Nat
    OBVIOUS
  <2>6. relation(b).size \in sizes /\ sizes # {}
    BY <2>5
  <2>7. Max(sizes) \in sizes /\ \A y \in sizes : Max(sizes) >= y
    BY <2>5, <2>6, MaxOK
  <2>8. Max(sizes) \in Nat /\ Max(sizes) >= relation(b).size
    <3> DEFINE top == Max(sizes)
               size == relation(b).size
    <3>1. top \in sizes /\ size \in sizes /\ \A y \in sizes : top >= y
      BY <2>6, <2>7
    <3> HIDE DEF top, size
    <3>2. top \in 0..N /\ top >= size
      BY <2>5, <3>1
    <3> QED
      BY <3>2 DEF top, size
  <2> QED
    BY <1>1, <2>8
<1> DEFINE m == Max(sizes)
           Meets(g) == \A c \in ToSet(raw.conditions) :
                          IF isConstant(c) THEN satisfies(value(g, c.left), c)
                                           ELSE value(g, c.left) = value(g, c.right)
<1>4. Matching = {g \in [A -> 1..m] : (\A b \in A : g[b] <= relation(b).size) /\ Meets(g)}
  BY Zenon DEF Matching
<1>5. \A g : Meets(g) <=> Passes(g, A) /\ Agrees(g, P)
  <2> SUFFICES ASSUME NEW g PROVE Meets(g) <=> Passes(g, A) /\ Agrees(g, P)
    OBVIOUS
  <2>1. \A c \in ToSet(Constants(raw)) : c.left.binding \in A
    <3>1. Constants(raw) \in Seq(Filter(raw))
      BY QueryOK
    <3>2. \A c \in Filter(raw) : c.left.binding \in A
      BY DEF Filter, Column
    <3>3. \A c \in ToSet(Constants(raw)) : c \in Filter(raw)
      BY <3>1 DEF ToSet
    <3> QED
      BY <3>2, <3>3
  <2>2. /\ \A c \in ToSet(raw.conditions) : IF isConstant(c) THEN c \in ToSet(Constants(raw)) ELSE c \in P
        /\ \A c \in ToSet(Constants(raw)) : c \in ToSet(raw.conditions) /\ isConstant(c)
        /\ \A c \in P : c \in ToSet(raw.conditions) /\ ~isConstant(c)
    BY QueryOK
  <2> HIDE DEF A, P
  <2>3. Meets(g) => Passes(g, A)
    BY <2>2, Zenon DEF Passes
  <2>4. Meets(g) => Agrees(g, P)
    BY <2>2, Zenon DEF Agrees
  <2>5. Passes(g, A) /\ Agrees(g, P) => Meets(g)
    BY <2>1, <2>2, Zenon DEF Passes, Agrees
  <2> QED
    BY <2>3, <2>4, <2>5
<1> HIDE DEF Meets
<1>6. \A g : g \in [A -> 1..m] /\ (\A b \in A : g[b] <= relation(b).size) <=> g \in Rows(A)
  <2> HIDE DEF m, A
  <2>1. ASSUME NEW g \in [A -> 1..m], \A b \in A : g[b] <= relation(b).size PROVE g \in Rows(A)
    <3>1. \A b \in A : g[b] \in 1..m /\ g[b] \in Nat /\ g[b] \in 1..relation(b).size
      BY <1>1, <1>3, <2>1 DEF m
    <3>2. g \in [A -> Nat]
      BY <3>1
    <3> QED
      BY <3>1, <3>2 DEF Rows
  <2>2. ASSUME NEW g \in Rows(A) PROVE g \in [A -> 1..m] /\ \A b \in A : g[b] <= relation(b).size
    <3>1. g \in [A -> Nat] /\ \A b \in A : g[b] \in 1..relation(b).size
      BY DEF Rows
    <3>2. ASSUME NEW b \in A PROVE g[b] \in 1..m /\ g[b] <= relation(b).size
      <4>1. g[b] \in 1..relation(b).size /\ relation(b).size \in Nat /\ relation(b).size <= m /\ m \in Nat
        BY <1>1, <1>3, <3>1 DEF m
      <4> QED
        BY <4>1
    <3> QED
      BY <3>1, <3>2
  <2> QED
    BY <2>1, <2>2
<1> HIDE DEF m, A, P
<1>7. \A g : g \in Matching <=> g \in Fits(A, P)
  <2>1. \A g : g \in Matching <=> g \in [A -> 1..m] /\ (\A b \in A : g[b] <= relation(b).size) /\ Meets(g)
    BY <1>4, Zenon
  <2>2. \A g : g \in Fits(A, P) <=> g \in Rows(A) /\ Passes(g, A) /\ Agrees(g, P)
    BY DEF Fits
  <2> QED
    BY <1>5, <1>6, <2>1, <2>2, Zenon
<1>8. Matching = Fits(A, P)
  BY <1>7
<1> QED
  BY <1>8 DEF A, P

\* What Checksum::run looks up in a result.
columnIn(res, info) ==
    res.columns[IF Contains(res.select, info) THEN SelectLastInSeq(res.select, LAMBDA s : s = info) ELSE 1]

\* The answer for a result.
checksums(res, infos) ==
    [k \in DOMAIN infos |-> IF res.size = 0 THEN "NULL" ELSE total(columnIn(res, infos[k]))]

\* The answer are the checksums of the last tree, all of whose operators ran.
AnswerInv ==
    phase = "done" => answer = checksums(results[tree], raw.selections)

\* A step to the end gives this answer.
LEMMA AnswerNext == AnswerInv /\ [Next]_vars => AnswerInv'
<1> SUFFICES ASSUME AnswerInv, [Next]_vars PROVE AnswerInv'
  OBVIOUS
<1>1. CASE Checksum
  <2>1. UNCHANGED <<raw, root, plan, results>>
    BY <1>1, Zenon DEF Checksum
  <2>2. answer' = [k \in DOMAIN raw.selections |->
                     IF results[tree].size = 0 THEN "NULL"
                     ELSE FoldLeft(LAMBDA sum, x : (sum + x) % Modulus, 0,
                                   columnOf(tree, raw.selections[k]))]
    BY <1>1, Zenon DEF Checksum
  <2>3. answer' = checksums(results[tree], raw.selections)
    BY <2>2, Zenon DEF checksums, total, columnIn, columnOf, resolve
  <2>4. tree' = tree
    BY <2>1 DEF tree
  <2> QED
    BY <2>1, <2>3, <2>4 DEF AnswerInv
<1>2. CASE Parse \/ NeedConnect \/ SelfConnect \/ Require \/ RequireInputs \/ Run
  <2>1. phase' # "done"
    BY <1>2 DEF Parse, NeedConnect, SelfConnect, takePredicate, Require, RequireInputs, Run
  <2> QED
    BY <2>1, SMTT(30) DEF AnswerInv
<1>3. CASE Done \/ UNCHANGED vars
  <2>1. UNCHANGED <<raw, root, plan, results, phase, answer>>
    BY <1>3 DEF Done, vars
  <2>2. tree' = tree
    BY <2>1 DEF tree
  <2> QED
    BY <2>1, <2>2 DEF AnswerInv
<1> QED
  BY <1>1, <1>2, <1>3 DEF Next

\* The checksums of a result with all matching rows are what the query means.
LEMMA ChecksumIs ==
    ASSUME raw \in Queries, NEW res, NEW G, NEW info \in Column(raw),
           Enumerates(G, res.size, Bindings(raw), ToSet(Joins(raw)))
    PROVE  /\ res.size = 0 <=> Matching = {}
           /\ total(Values(G, res.size, info)) = sumOver(Matching, info) % Modulus
<1> DEFINE n == res.size
           M == Fits(Bindings(raw), ToSet(Joins(raw)))
           u == Values(G, n, info)
<1>1. Matching = M
  BY MatchingIs
<1>2. /\ n \in Nat /\ G \in [1..n -> M]
      /\ \A j, k \in 1..n : G[j] = G[k] => j = k
      /\ \A g \in M : \E k \in 1..n : G[k] = g
  BY DEF Enumerates
<1>3. \A k \in 1..n : G[k] \in M /\ value(G[k], info) \in Nat
  <2> SUFFICES ASSUME NEW k \in 1..n PROVE G[k] \in M /\ value(G[k], info) \in Nat
    OBVIOUS
  <2> DEFINE g == G[k]
             b == info.binding
             r == relation(b)
  <2>1. g \in M /\ b \in Bindings(raw)
    BY <1>2 DEF Column
  <2>2. g[b] \in 1..r.size
    <3> HIDE DEF g, b
    <3> QED
      BY <2>1 DEF Fits, Rows
  <2>3. r.columns[info.colId] \in [1..r.size -> Nat]
    BY RelationOK
  <2> HIDE DEF r, g
  <2>4. r.columns[info.colId][g[b]] \in Nat
    BY <2>2, <2>3
  <2> QED
    BY <2>1, <2>4 DEF value, r, g
<1> HIDE DEF n, M
<1>4. n = 0 <=> M = {}
  <2>1. CASE n = 0
    <3>1. 1..n = {}
      BY <2>1
    <3> QED
      BY <1>2, <2>1, <3>1
  <2>2. CASE n # 0
    <3>1. 1 \in 1..n
      BY <1>2, <2>2
    <3> QED
      BY <1>2, <2>2, <3>1
  <2> QED
    BY <2>1, <2>2
<1>5. u \in [1..n -> Nat]
  BY <1>3 DEF Values
<1>6. Once(G, n, M)
  BY <1>2 DEF Once
<1> HIDE DEF u
<1>7. PICK W : IsWeight(W, n, u)
  BY <1>2, <1>5, WeightExists
<1>8. total(u) = W[1..n] % Modulus
  BY <1>2, <1>5, <1>7, TotalIs
<1>9. sumOver(M, info) = W[1..n]
  BY <1>2, <1>5, <1>6, <1>7, SumIs DEF u
<1>10. total(u) = sumOver(M, info) % Modulus
  BY <1>8, <1>9
<1> QED
  BY <1>1, <1>4, <1>10 DEF u, n

\* So the answer is what the query means.
LEMMA AnswerFollows == PlanInv /\ AskedInv /\ RunInv /\ AnswerInv => AnswerExact
<1> SUFFICES ASSUME PlanInv, AskedInv, RunInv, AnswerInv, phase = "done" PROVE AnswerExact
  BY Zenon DEF AnswerExact
<1> DEFINE infos == raw.selections
           res == results[tree]
           exact == [k \in DOMAIN infos |->
                       IF Matching = {} THEN "NULL" ELSE sumOver(Matching, infos[k]) % Modulus]
<1>1. raw \in Queries /\ infos \in Seq(Column(raw))
  BY QueriesAssumption DEF PlanInv, QueryInv
<1>2. PICK B, T : Running(B, T)
  BY DEF RunInv
<1>3. /\ tree \in 1..Len(operators) /\ B[tree] = Bindings(raw) /\ T[tree] = ToSet(Joins(raw))
      /\ \A o \in 1..at - 1 : Ran(o, B[o], T[o])
  BY <1>2 DEF Running, Whole
<1>4. Len(operators) \in Nat /\ at = Len(operators) + 1
  BY <1>2 DEF Running, Whole, WiredOK, AskedInv, Position
<1>5. tree \in 1..at - 1
  BY <1>3, <1>4
<1>6. PICK G : Is(res, asked[tree], Bindings(raw), ToSet(Joins(raw)), G)
  BY <1>3, <1>5 DEF Ran
<1>7. /\ Enumerates(G, res.size, Bindings(raw), ToSet(Joins(raw))) /\ HasColumns(res, G)
      /\ ToSet(res.select) = ToSet(asked[tree])
  BY <1>6 DEF Is
<1>8. ToSet(infos) \subseteq ToSet(asked[tree])
  BY DEF AskedInv, Asking
<1>9. answer = [k \in DOMAIN infos |-> IF res.size = 0 THEN "NULL" ELSE total(columnIn(res, infos[k]))]
  BY Zenon DEF AnswerInv, checksums
<1> HIDE DEF infos
<1>10. ASSUME NEW k \in DOMAIN infos
       PROVE  (IF res.size = 0 THEN "NULL" ELSE total(columnIn(res, infos[k])))
                = (IF Matching = {} THEN "NULL" ELSE sumOver(Matching, infos[k]) % Modulus)
  <2> DEFINE info == infos[k]
  <2>1. info \in ToSet(infos)
    BY DEF ToSet
  <2>2. info \in Column(raw)
    BY <1>1
  <2> HIDE DEF info
  <2>3. info \in ToSet(results[tree].select) /\ HasColumns(results[tree], G)
    BY <1>7, <1>8, <2>1
  <2>4. columnOf(tree, info) = Values(G, results[tree].size, info)
    BY <2>3, ColumnFound
  <2>5. columnIn(res, info) = columnOf(tree, info)
    BY Zenon DEF columnIn, columnOf, resolve
  <2> HIDE DEF res
  <2>6. /\ res.size = 0 <=> Matching = {}
        /\ total(Values(G, res.size, info)) = sumOver(Matching, info) % Modulus
    BY <1>1, <1>7, <2>2, ChecksumIs
  <2>7. total(columnIn(res, info)) = sumOver(Matching, info) % Modulus
    BY <2>4, <2>5, <2>6 DEF res
  <2> QED
    BY <2>6, <2>7, Zenon DEF info
<1> HIDE DEF res
<1>11. answer = exact
  BY <1>9, <1>10, Zenon
<1> QED
  BY <1>11, Zenon DEF AnswerExact, sumOver, infos

\* The answer is the sum of each column selected, over all combinations of
\* rows that satisfy all conditions, or NULL if there are none: whatever the
\* order of the conditions, the sides of the predicates, the cycles of the join
\* graph and the sizes of the inputs (Joiner.cpp, Operators.cpp).
THEOREM JoinerAnswerExact == Spec => []AnswerExact
<1>1. Init => AnswerInv
  BY DEF Init, AnswerInv
<1>2. AnswerInv /\ [Next]_vars => AnswerInv'
  BY AnswerNext
<1>3. PlanInv /\ AskedInv /\ RunInv /\ AnswerInv => AnswerExact
  BY AnswerFollows
<1> QED
  BY <1>1, <1>2, <1>3, PlanInvariant, AskedInvariant, RunInvariant, PTL DEF Spec
=============================================================================
