---------------------------- MODULE RecursionProofs ----------------------------
(***************************************************************************)
(* What the proofs about recursive functions rest on: induction over a set *)
(* whose elements have a rank, and the value of a function that is defined *)
(* by recursion along one.  Both are stated with sets and functions        *)
(* instead of operators, so that they can be cited for the functions of    *)
(* the configuration tree: up the parents of a node, down its children,    *)
(* along a path.                                                           *)
(***************************************************************************)
EXTENDS Naturals, SequencesExt, WellFoundedInduction, TLAPS

(* A set of numbers has a least one. *)
LEMMA LeastNumber ==
  ASSUME NEW S \in SUBSET Nat, S # {}
  PROVE  \E m \in S : \A k \in S : m <= k
<1>1. PICK m \in S : \A k \in S : <<k, m>> \notin OpToRel(<, Nat)
  BY NatLessThanWellFounded, WFMin, Zenon
<1>2. \A k \in S : ~(k < m)
  BY <1>1 DEF OpToRel
<1>3. QED
  BY <1>2

(* Induction over the numbers: S holds of each of them. *)
LEMMA NumberInduction ==
  ASSUME NEW S, 0 \in S, \A n \in Nat : n \in S => n + 1 \in S
  PROVE  Nat \subseteq S
<1>1. SUFFICES ASSUME Nat \ S # {} PROVE FALSE
  OBVIOUS
<1>2. PICK m \in Nat \ S : \A k \in Nat \ S : m <= k
  BY <1>1, LeastNumber
<1>3. m - 1 \in Nat /\ m - 1 \notin S /\ ~(m <= m - 1)
  BY <1>2
<1>4. QED
  BY <1>2, <1>3

(* Induction along a rank: what holds of an element whenever it holds of all *)
(* elements of lower rank holds of every element.                            *)
LEMMA RankInduction ==
  ASSUME NEW D, NEW rank \in [D -> Nat], NEW S,
         \A n \in D : (\A m \in D : rank[m] < rank[n] => m \in S) => n \in S
  PROVE  D \subseteq S
<1> DEFINE Bad == {rank[n] : n \in D \ S}
<1>1. SUFFICES ASSUME D \ S # {} PROVE FALSE
  OBVIOUS
<1>2. Bad \in SUBSET Nat /\ Bad # {}
  BY <1>1
<1>3. PICK least \in Bad : \A k \in Bad : least <= k
  BY <1>2, LeastNumber
<1>4. PICK n \in D \ S : rank[n] = least
  BY <1>3
<1>5. \A m \in D \ S : rank[n] <= rank[m]
  BY <1>3, <1>4
<1> HIDE DEF Bad
<1>6. \A m \in D : rank[m] < rank[n] => m \in S
  BY <1>4, <1>5
<1>7. QED
  BY <1>4, <1>6

(* G[n] takes the function f found so far to its value at n, and looks at    *)
(* values of f for elements of lower rank only.                              *)
IsRecursion(N, D, rank, V, G) ==
  /\ N \in Nat /\ rank \in [D -> 0..N] /\ V # {}
  /\ \A n \in D : \A f \in [D -> V] : G[n][f] \in V
  /\ \A n \in D : \A f, g \in [D -> V] :
       (\A i \in D : rank[i] < rank[n] => f[i] = g[i]) => G[n][f] = G[n][g]

(* A function that is defined along a rank has a value. *)
LEMMA RecursionHasValue ==
  ASSUME NEW N, NEW D, NEW rank, NEW V, NEW G, IsRecursion(N, D, rank, V, G)
  PROVE  \E f \in [D -> V] : \A n \in D : f[n] = G[n][f]
<1>0. /\ N \in Nat /\ rank \in [D -> 0..N] /\ V # {}
      /\ \A n \in D : \A f \in [D -> V] : G[n][f] \in V
      /\ \A n \in D : \A f, g \in [D -> V] :
           (\A i \in D : rank[i] < rank[n] => f[i] = g[i]) => G[n][f] = G[n][g]
  BY DEF IsRecursion
<1> USE <1>0
<1> DEFINE Good(k) == \E f \in [D -> V] : \A n \in D : rank[n] < k => f[n] = G[n][f]
           S == {k \in Nat : Good(k)}
<1>1. Good(0)
  <2>1. PICK v \in V : TRUE
    OBVIOUS
  <2>2. [n \in D |-> v] \in [D -> V]
    OBVIOUS
  <2>3. \A n \in D : ~(rank[n] < 0)
    OBVIOUS
  <2>4. QED
    BY <2>2, <2>3
<1>2. ASSUME NEW k \in Nat, Good(k) PROVE Good(k + 1)
  <2>1. PICK f \in [D -> V] : \A n \in D : rank[n] < k => f[n] = G[n][f]
    BY <1>2
  <2> DEFINE g == [n \in D |-> IF rank[n] = k THEN G[n][f] ELSE f[n]]
  <2>2. g \in [D -> V] /\ \A n \in D : g[n] = IF rank[n] = k THEN G[n][f] ELSE f[n]
    OBVIOUS
  <2> HIDE DEF g
  <2>3. ASSUME NEW n \in D, rank[n] < k + 1 PROVE g[n] = G[n][g]
    <3>1. \A i \in D : rank[i] < rank[n] => f[i] = g[i]
      BY <2>2, <2>3
    <3>2. G[n][f] = G[n][g]
      BY <3>1, <2>2
    <3>3. rank[n] = k \/ rank[n] < k
      <4>1. rank[n] \in Nat /\ rank[n] < k + 1
        BY <2>3
      <4>2. \A a, b \in Nat : a < b + 1 => a = b \/ a < b
        OBVIOUS
      <4>3. QED
        BY <4>1, <4>2, Zenon
    <3>4. g[n] = G[n][f]
      BY <2>1, <2>2, <3>3
    <3>5. QED
      BY <3>2, <3>4
  <2>4. QED
    BY <2>2, <2>3
<1> HIDE DEF Good
<1>3. 0 \in S /\ \A k \in Nat : k \in S => k + 1 \in S
  BY <1>1, <1>2
<1>4. N + 1 \in S
  <2> HIDE DEF S
  <2>1. QED
    BY <1>3, NumberInduction
<1>5. Good(N + 1)
  BY <1>4
<1>6. \A n \in D : rank[n] < N + 1
  OBVIOUS
<1>7. PICK f \in [D -> V] : \A n \in D : rank[n] < N + 1 => f[n] = G[n][f]
  BY <1>5 DEF Good
<1>8. QED
  BY <1>6, <1>7

(* A bounded set of numbers has a greatest one, its maximum. *)
LEMMA MaxIsGreatest ==
  ASSUME NEW N \in Nat, NEW S \in SUBSET (1..N), S # {}
  PROVE  Max(S) \in S /\ \A k \in S : k <= Max(S)
<1> DEFINE Far == {N - k : k \in S}
<1>1. Far \in SUBSET Nat /\ Far # {}
  <2>1. \A k \in 1..N : N - k \in Nat
    OBVIOUS
  <2>2. PICK k \in S : TRUE
    OBVIOUS
  <2>3. N - k \in Far
    OBVIOUS
  <2>4. QED
    BY <2>1, <2>3
<1>2. PICK d \in Far : \A e \in Far : d <= e
  BY <1>1, LeastNumber
<1>3. PICK m \in S : d = N - m
  BY <1>2
<1>4. \A k \in S : m >= k
  <2>1. SUFFICES ASSUME NEW k \in S PROVE m >= k
    OBVIOUS
  <2>2. N - m <= N - k
    BY <1>2, <1>3
  <2>3. QED
    BY <2>2
<1>5. Max(S) \in S /\ \A k \in S : Max(S) >= k
  BY <1>4 DEF Max
<1>6. QED
  BY <1>5

(* The numbers up to k, and what is left of them without k. *)
LEMMA NumbersUpTo ==
  ASSUME NEW k \in Nat \ {0}
  PROVE  1..k # {} /\ Max(1..k) = k /\ (1..k) \ {Max(1..k)} = 1..(k - 1)
<1>1. 1..k # {} /\ k \in 1..k /\ 1..k \in SUBSET (1..k)
  OBVIOUS
<1>2. Max(1..k) \in 1..k /\ \A i \in 1..k : i <= Max(1..k)
  BY <1>1, MaxIsGreatest
<1>3. Max(1..k) = k
  BY <1>1, <1>2
<1>4. QED
  BY <1>1, <1>3

(* The folds of the community modules take the elements of a sequence away   *)
(* from the last one on: Op[i] is what the element at i does to the result   *)
(* so far.                                                                   *)
IsFold(f, N, base, Op) ==
  \A s \in SUBSET (1..N) : f[s] = IF s = {} THEN base ELSE Op[Max(s)][f[s \ {Max(s)}]]

(* Such a fold has a value. *)
LEMMA FoldHasValue ==
  ASSUME NEW N \in Nat, NEW V, NEW base \in V, NEW Op \in [1..N -> [V -> V]]
  PROVE  \E f \in [SUBSET (1..N) -> V] : IsFold(f, N, base, Op)
<1> DEFINE D == SUBSET (1..N)
           B(s, f) == IF s = {} THEN base ELSE Op[Max(s)][f[s \ {Max(s)}]]
           G == [s \in D |-> [f \in [D -> V] |-> B(s, f)]]
           rank == [s \in D |-> IF s = {} THEN 0 ELSE Max(s)]
<1>1. \A s \in D : s # {} => /\ Max(s) \in 1..N /\ Max(s) \in s /\ \A k \in s : k <= Max(s)
                            /\ s \ {Max(s)} \in D
  BY MaxIsGreatest
<1>2. rank \in [D -> 0..N]
  BY <1>1
<1>3. \A s \in D : s # {} => rank[s \ {Max(s)}] < rank[s]
  <2>1. SUFFICES ASSUME NEW s \in D, s # {} PROVE rank[s \ {Max(s)}] < rank[s]
    OBVIOUS
  <2> DEFINE t == s \ {Max(s)}
  <2>2. rank[s] = Max(s) /\ Max(s) \in 1..N /\ t \in D
    BY <1>1, <2>1
  <2>3. CASE t = {}
    BY <2>2, <2>3
  <2>4. CASE t # {}
    <3>1. Max(t) \in t /\ Max(t) \in 1..N /\ rank[t] = Max(t)
      BY <1>1, <2>2, <2>4
    <3>2. Max(t) \in s /\ Max(t) # Max(s)
      BY <3>1
    <3>3. Max(t) <= Max(s)
      BY <1>1, <2>1, <3>2
    <3>4. QED
      BY <2>2, <3>1, <3>2, <3>3
  <2>5. QED
    BY <2>3, <2>4
<1>4. \A s \in D : \A f \in [D -> V] : B(s, f) \in V
  <2>1. SUFFICES ASSUME NEW s \in D, NEW f \in [D -> V], s # {}
                 PROVE  Op[Max(s)][f[s \ {Max(s)}]] \in V
    OBVIOUS
  <2>2. Op[Max(s)] \in [V -> V] /\ f[s \ {Max(s)}] \in V
    BY <1>1, <2>1
  <2>3. QED
    BY <2>2
<1>5. \A s \in D : \A f \in [D -> V] : G[s][f] = B(s, f)
  OBVIOUS
<1>6. \A s \in D : \A f, g \in [D -> V] :
        (\A i \in D : rank[i] < rank[s] => f[i] = g[i]) => B(s, f) = B(s, g)
  <2>1. SUFFICES ASSUME NEW s \in D, NEW f, NEW g, \A i \in D : rank[i] < rank[s] => f[i] = g[i],
                        s # {}
                 PROVE  Op[Max(s)][f[s \ {Max(s)}]] = Op[Max(s)][g[s \ {Max(s)}]]
    OBVIOUS
  <2> HIDE DEF rank
  <2>2. f[s \ {Max(s)}] = g[s \ {Max(s)}]
    BY <1>1, <1>3, <2>1
  <2>3. QED
    BY <2>2
<1> HIDE DEF B, G, rank
<1>7. PICK f \in [D -> V] : \A s \in D : f[s] = G[s][f]
  <2> HIDE DEF D
  <2>1. ASSUME NEW s \in D, NEW f \in [D -> V], NEW g \in [D -> V],
               \A i \in D : rank[i] < rank[s] => f[i] = g[i]
        PROVE  G[s][f] = G[s][g]
    <3>1. B(s, f) = B(s, g)
      BY <1>6, <2>1
    <3>2. QED
      BY <1>5, <3>1
  <2>2. \A s \in D : \A f \in [D -> V] : G[s][f] \in V
    BY <1>4, <1>5
  <2>3. IsRecursion(N, D, rank, V, G)
    BY <1>2, <2>1, <2>2 DEF IsRecursion
  <2>4. QED
    BY <2>3, RecursionHasValue
<1>8. \A s \in D : f[s] = B(s, f)
  BY <1>5, <1>7
<1>9. QED
  BY <1>8 DEF B, IsFold

(* F has the results of a fold that applies a function per element. *)
Applies(F, f, base, seq) ==
  /\ F[0] = base
  /\ \A i \in 1..Len(seq) : F[i] = f[seq[i]][F[i - 1]]

(* A fold that applies a function per element of a sequence, one after the   *)
(* other,                                                                    *)
ApplyAll(f, base, seq) == FoldLeft(LAMBDA v, x : f[x][v], base, seq)

(* ... has the last of these results. *)
LEMMA FoldApplies ==
  ASSUME NEW T, NEW seq \in Seq(T), NEW V, NEW base \in V, NEW f,
         \A i \in DOMAIN seq : f[seq[i]] \in [V -> V]
  PROVE  \E F \in [0..Len(seq) -> V] :
           /\ Applies(F, f, base, seq)
           /\ ApplyAll(f, base, seq) = F[Len(seq)]
<1> DEFINE N == Len(seq)
           D == SUBSET (1..N)
           B(s, g) == IF s = {} THEN base ELSE f[seq[Max(s)]][g[s \ {Max(s)}]]
           iter == CHOOSE g : g = [s \in D |-> B(s, g)]
           Op == [i \in 1..N |-> f[seq[i]]]
           F == [i \in 0..N |-> iter[1..i]]
<1>1. N \in Nat /\ DOMAIN seq = 1..N /\ Op \in [1..N -> [V -> V]]
  OBVIOUS
<1>2. ApplyAll(f, base, seq) = iter[1..N]
  BY <1>1 DEF ApplyAll, FoldLeft, MapThenFoldSet
<1>3. PICK g \in [D -> V] : \A s \in D : g[s] = IF s = {} THEN base ELSE Op[Max(s)][g[s \ {Max(s)}]]
  <2> HIDE DEF Op, N
  <2>1. \E g \in [SUBSET (1..N) -> V] : IsFold(g, N, base, Op)
    BY <1>1, FoldHasValue
  <2>2. QED
    BY <2>1 DEF IsFold
<1>4. \A s \in D : g[s] = B(s, g)
  <2>1. \A s \in D : s # {} => Max(s) \in 1..N
    BY <1>1, MaxIsGreatest
  <2>2. QED
    BY <1>3, <2>1
<1> HIDE DEF B
<1>5. g = [s \in D |-> B(s, g)]
  BY <1>4
<1>6. iter = [s \in D |-> B(s, iter)]
  BY <1>5
<1> HIDE DEF iter
<1>7. \A s \in D : iter[s] = IF s = {} THEN base ELSE f[seq[Max(s)]][iter[s \ {Max(s)}]]
  BY <1>6 DEF B
<1>8. iter[1..0] = base
  <2>1. 1..0 = {} /\ {} \in D
    OBVIOUS
  <2>2. QED
    BY <1>7, <2>1
<1>9. ASSUME NEW i \in 1..N PROVE iter[1..i] = f[seq[i]][iter[1..(i - 1)]]
  <2>1. 1..i # {} /\ Max(1..i) = i /\ (1..i) \ {Max(1..i)} = 1..(i - 1)
    BY <1>1, NumbersUpTo
  <2>2. 1..i \in D
    BY <1>1
  <2>3. QED
    BY <1>7, <2>1, <2>2
<1>10. \A i \in 0..N : iter[1..i] \in V
  <2> DEFINE S == {i \in Nat : i <= N => iter[1..i] \in V}
  <2>1. 0 \in S
    BY <1>8
  <2>2. ASSUME NEW i \in Nat, i \in S PROVE i + 1 \in S
    <3>1. SUFFICES ASSUME i + 1 <= N PROVE iter[1..(i + 1)] \in V
      OBVIOUS
    <3>2. i <= N /\ i + 1 \in 1..N /\ (i + 1) - 1 = i
      BY <1>1, <3>1
    <3>3. iter[1..(i + 1)] = f[seq[i + 1]][iter[1..i]] /\ iter[1..i] \in V
      BY <1>9, <2>2, <3>2
    <3>4. f[seq[i + 1]] \in [V -> V]
      BY <1>1, <3>2
    <3>5. QED
      BY <3>3, <3>4
  <2> HIDE DEF S
  <2>3. Nat \subseteq S
    BY <2>1, <2>2, NumberInduction
  <2>4. QED
    BY <1>1, <2>3 DEF S
<1>11. F \in [0..N -> V] /\ F[0] = base /\ F[N] = iter[1..N]
  BY <1>1, <1>8, <1>10
<1>12. \A i \in 1..N : F[i] = f[seq[i]][F[i - 1]]
  BY <1>1, <1>9
<1>13. QED
  BY <1>2, <1>11, <1>12 DEF Applies

(* F has the results of a fold that puts sequences together. *)
Concatenates(F, f, seq) ==
  /\ F[0] = <<>>
  /\ \A i \in 1..Len(seq) : F[i] = F[i - 1] \o f[seq[i]]

(* A fold that puts sequences together *)
ConcatAll(f, seq) == FoldLeft(LAMBDA v, x : v \o f[x], <<>>, seq)

(* ... has the last of these results. *)
LEMMA FoldConcatenates ==
  ASSUME NEW T, NEW seq \in Seq(T), NEW S, NEW f, \A i \in DOMAIN seq : f[seq[i]] \in Seq(S)
  PROVE  \E F \in [0..Len(seq) -> Seq(S)] :
           /\ Concatenates(F, f, seq)
           /\ ConcatAll(f, seq) = F[Len(seq)]
<1> DEFINE N == Len(seq)
           V == Seq(S)
           D == SUBSET (1..N)
           B(s, g) == IF s = {} THEN <<>> ELSE g[s \ {Max(s)}] \o f[seq[Max(s)]]
           iter == CHOOSE g : g = [s \in D |-> B(s, g)]
           Op == [i \in 1..N |-> [v \in V |-> v \o f[seq[i]]]]
           F == [i \in 0..N |-> iter[1..i]]
<1>1. N \in Nat /\ DOMAIN seq = 1..N
  OBVIOUS
<1>2. ConcatAll(f, seq) = iter[1..N]
  BY <1>1 DEF ConcatAll, FoldLeft, MapThenFoldSet
<1>3. Op \in [1..N -> [V -> V]] /\ <<>> \in V
  <2>1. \A i \in 1..N : \A v \in V : v \o f[seq[i]] \in V
    BY <1>1
  <2>2. QED
    BY <2>1
<1> HIDE DEF V
<1>4. PICK g \in [D -> V] : \A s \in D : g[s] = IF s = {} THEN <<>> ELSE Op[Max(s)][g[s \ {Max(s)}]]
  <2> HIDE DEF Op, N
  <2>1. \E g \in [SUBSET (1..N) -> V] : IsFold(g, N, <<>>, Op)
    BY <1>1, <1>3, FoldHasValue
  <2>2. QED
    BY <2>1 DEF IsFold
<1>5. \A s \in D : g[s] = B(s, g)
  <2>1. \A s \in D : s # {} => Max(s) \in 1..N /\ s \ {Max(s)} \in D
    BY <1>1, MaxIsGreatest
  <2>2. QED
    BY <1>4, <2>1
<1> HIDE DEF B
<1>6. g = [s \in D |-> B(s, g)]
  BY <1>5
<1>7. iter = [s \in D |-> B(s, iter)]
  BY <1>6
<1> HIDE DEF iter
<1>8. \A s \in D : iter[s] = IF s = {} THEN <<>> ELSE iter[s \ {Max(s)}] \o f[seq[Max(s)]]
  BY <1>7 DEF B
<1>9. iter[1..0] = <<>>
  <2>1. 1..0 = {} /\ {} \in D
    OBVIOUS
  <2>2. QED
    BY <1>8, <2>1
<1>10. ASSUME NEW i \in 1..N PROVE iter[1..i] = iter[1..(i - 1)] \o f[seq[i]]
  <2>1. 1..i # {} /\ Max(1..i) = i /\ (1..i) \ {Max(1..i)} = 1..(i - 1)
    BY <1>1, NumbersUpTo
  <2>2. 1..i \in D
    BY <1>1
  <2>3. QED
    BY <1>8, <2>1, <2>2
<1>11. \A i \in 0..N : iter[1..i] \in V
  <2> DEFINE I == {i \in Nat : i <= N => iter[1..i] \in V}
  <2>1. 0 \in I
    BY <1>3, <1>9
  <2>2. ASSUME NEW i \in Nat, i \in I PROVE i + 1 \in I
    <3>1. SUFFICES ASSUME i + 1 <= N PROVE iter[1..(i + 1)] \in V
      OBVIOUS
    <3>2. i <= N /\ i + 1 \in 1..N /\ (i + 1) - 1 = i
      BY <1>1, <3>1
    <3>3. iter[1..(i + 1)] = iter[1..i] \o f[seq[i + 1]] /\ iter[1..i] \in V
      BY <1>10, <2>2, <3>2
    <3>4. f[seq[i + 1]] \in V
      BY <1>1, <3>2 DEF V
    <3>5. QED
      BY <3>3, <3>4 DEF V
  <2> HIDE DEF I
  <2>3. Nat \subseteq I
    BY <2>1, <2>2, NumberInduction
  <2>4. QED
    BY <1>1, <2>3 DEF I
<1>12. F \in [0..N -> V] /\ F[0] = <<>> /\ F[N] = iter[1..N]
  BY <1>1, <1>9, <1>11
<1>13. \A i \in 1..N : F[i] = F[i - 1] \o f[seq[i]]
  <2>1. \A i \in 1..N : i \in 0..N /\ i - 1 \in 0..N
    BY <1>1
  <2>2. \A i \in 0..N : F[i] = iter[1..i]
    OBVIOUS
  <2> HIDE DEF F
  <2>3. QED
    BY <1>10, <2>1, <2>2
<1>14. QED
  BY <1>2, <1>12, <1>13 DEF V, Concatenates

(* Two functions have the same values for the elements of a sequence. *)
Agree(f, g, seq) == \A i \in DOMAIN seq : f[seq[i]] = g[seq[i]]

(* The results are determined by the functions of the elements, *)
LEMMA AppliesOnce ==
  ASSUME NEW T, NEW seq \in Seq(T), NEW base, NEW f, NEW g,
         Agree(f, g, seq),
         NEW F, Applies(F, f, base, seq), NEW G, Applies(G, g, base, seq)
  PROVE  F[Len(seq)] = G[Len(seq)]
<1> DEFINE I == {i \in Nat : i <= Len(seq) => F[i] = G[i]}
<1>1. Len(seq) \in Nat /\ DOMAIN seq = 1..Len(seq)
  OBVIOUS
<1>2. 0 \in I
  BY DEF Applies
<1>3. ASSUME NEW i \in Nat, i \in I PROVE i + 1 \in I
  <2>1. SUFFICES ASSUME i + 1 <= Len(seq) PROVE F[i + 1] = G[i + 1]
    OBVIOUS
  <2>2. i <= Len(seq) /\ i + 1 \in 1..Len(seq) /\ (i + 1) - 1 = i
    BY <1>1, <2>1
  <2>3. F[i] = G[i] /\ f[seq[i + 1]] = g[seq[i + 1]]
    BY <1>1, <1>3, <2>2 DEF Agree
  <2>4. F[i + 1] = f[seq[i + 1]][F[i]] /\ G[i + 1] = g[seq[i + 1]][G[i]]
    BY <2>2 DEF Applies
  <2>5. QED
    BY <2>3, <2>4
<1> HIDE DEF I
<1>4. Nat \subseteq I
  BY <1>2, <1>3, NumberInduction
<1>5. QED
  BY <1>1, <1>4 DEF I

(* ... or by their sequences. *)
LEMMA ConcatenatesOnce ==
  ASSUME NEW T, NEW seq \in Seq(T), NEW f, NEW g,
         Agree(f, g, seq),
         NEW F, Concatenates(F, f, seq), NEW G, Concatenates(G, g, seq)
  PROVE  F[Len(seq)] = G[Len(seq)]
<1> DEFINE I == {i \in Nat : i <= Len(seq) => F[i] = G[i]}
<1>1. Len(seq) \in Nat /\ DOMAIN seq = 1..Len(seq)
  OBVIOUS
<1>2. 0 \in I
  BY DEF Concatenates
<1>3. ASSUME NEW i \in Nat, i \in I PROVE i + 1 \in I
  <2>1. SUFFICES ASSUME i + 1 <= Len(seq) PROVE F[i + 1] = G[i + 1]
    OBVIOUS
  <2>2. i <= Len(seq) /\ i + 1 \in 1..Len(seq) /\ (i + 1) - 1 = i
    BY <1>1, <2>1
  <2>3. F[i] = G[i] /\ f[seq[i + 1]] = g[seq[i + 1]]
    BY <1>1, <1>3, <2>2 DEF Agree
  <2>4. F[i + 1] = F[i] \o f[seq[i + 1]] /\ G[i + 1] = G[i] \o g[seq[i + 1]]
    BY <2>2 DEF Concatenates
  <2>5. QED
    BY <2>3, <2>4
<1> HIDE DEF I
<1>4. Nat \subseteq I
  BY <1>2, <1>3, NumberInduction
<1>5. QED
  BY <1>1, <1>4 DEF I
===============================================================================
