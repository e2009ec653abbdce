----------------------------- MODULE ListLemmas -----------------------------
(***************************************************************************)
(* Facts about lists that the other proofs rest on: what FlattenSeq and    *)
(* folds compute, step by step, for lists of any length.                   *)
(***************************************************************************)
EXTENDS SequencesExt, Integers, SequenceTheorems, FiniteSetTheorems, WellFoundedInduction,
        TLAPS

----------------------------------------------------------------------------
(* Induction. *)

\* A set of numbers that is not empty has a least.
LEMMA LeastExists ==
    ASSUME NEW T, T \subseteq Nat, T # {}
    PROVE  \E x \in T : \A y \in T : x <= y
<1>1. PICK x \in T : \A y \in T : ~(<<y, x>> \in OpToRel(<, Nat))
  BY NatLessThanWellFounded, WFMin
<1>2. ASSUME NEW y \in T PROVE ~(y < x)
  BY <1>1 DEF OpToRel
<1> QED  BY <1>2

\* What holds of 0 and goes on holding up to m holds of all numbers up to m.  The
\* numbers it holds of are a set, so that no operator need be instantiated.
LEMMA UpTo ==
    ASSUME NEW m \in Nat, NEW S, 0 \in S,
           \A n \in 0..m : n \in S /\ n + 1 <= m => n + 1 \in S
    PROVE  \A n \in 0..m : n \in S
<1> DEFINE T == {n \in 0..m : n \notin S}
<1> SUFFICES ASSUME T # {} PROVE FALSE
  OBVIOUS
<1>1. T \subseteq Nat
  OBVIOUS
<1>2. PICK x \in T : \A y \in T : x <= y
  <2> HIDE DEF T
  <2> QED  BY <1>1, LeastExists
<1>3. x # 0 /\ x - 1 \in 0..m
  OBVIOUS
<1>4. x - 1 \in S
  BY <1>2, <1>3
<1> QED  BY <1>3, <1>4

\* A set of numbers up to n that is not empty has a greatest.
LEMMA MaxExists ==
    ASSUME NEW n \in Nat, NEW T \in SUBSET (1..n), T # {}
    PROVE  Max(T) \in T /\ \A y \in T : y <= Max(T)
<1> DEFINE U == {n - x : x \in T}
<1>1. U \subseteq Nat
  OBVIOUS
<1>2. PICK u \in U : \A y \in U : u <= y
  <2>1. U # {}
    OBVIOUS
  <2> HIDE DEF U
  <2> QED  BY <1>1, <2>1, LeastExists
<1>3. PICK x \in T : u = n - x
  OBVIOUS
<1>4. \A y \in T : n - y \in U
  OBVIOUS
<1>5. \A y \in T : x >= y
  BY <1>2, <1>3, <1>4
<1>6. /\ Max(T) \in T
      /\ \A y \in T : Max(T) >= y
  BY <1>5 DEF Max
<1> QED  BY <1>6

----------------------------------------------------------------------------
(* FlattenSeq. *)

\* FlattenSeq puts one list after another to what it has.
LEMMA FlattenSteps ==
    ASSUME NEW S, NEW s \in Seq(S), s # <<>>
    PROVE  \E f : /\ FlattenSeq(s) = f[Len(s)]
                  /\ f[1] = s[1]
                  /\ \A i \in 2..Len(s) : f[i] = f[i - 1] \o s[i]
<1> DEFINE n == Len(s)
           Solves(f, k) == f = [i \in 1..k |-> IF i = 1 THEN s[i] ELSE f[i - 1] \o s[i]]
           Solved == {k \in 0..n : \E f : Solves(f, k)}
           flat == CHOOSE f : Solves(f, n)
<1>1. n \in Nat /\ n >= 1
  OBVIOUS
<1>2. 0 \in Solved
  <2>1. Solves(<<>>, 0)
    OBVIOUS
  <2> HIDE DEF Solves
  <2> QED  BY <1>1, <2>1
<1>3. ASSUME NEW k \in 0..n, k \in Solved, k + 1 <= n PROVE k + 1 \in Solved
  <2>1. PICK f : Solves(f, k)
    BY <1>3
  <2> DEFINE g == [i \in 1..(k + 1) |-> IF i = 1 THEN s[i]
                                        ELSE IF i <= k THEN f[i] ELSE f[i - 1] \o s[i]]
  <2>2. ASSUME NEW i \in 1..(k + 1)
        PROVE  g[i] = IF i = 1 THEN s[i] ELSE g[i - 1] \o s[i]
    <3>1. CASE i = 1
      BY <3>1
    <3>2. CASE i # 1 /\ i <= k
      <4>1. i \in 1..k /\ i - 1 \in 1..k /\ i - 1 \in 1..(k + 1)
        BY <3>2
      <4>2. f[i] = f[i - 1] \o s[i] /\ (i - 1 = 1 => f[i - 1] = s[i - 1])
        BY <2>1, <3>2, <4>1
      <4>3. g[i] = f[i]
        BY <3>2, <4>1
      <4>4. g[i - 1] = f[i - 1]
        <5>1. g[i - 1] = IF i - 1 = 1 THEN s[i - 1]
                         ELSE IF i - 1 <= k THEN f[i - 1] ELSE f[(i - 1) - 1] \o s[i - 1]
          BY <4>1
        <5> QED  BY <4>1, <4>2, <5>1
      <4> QED  BY <3>2, <4>2, <4>3, <4>4
    <3>3. CASE i # 1 /\ i = k + 1
      <4>1. k \in 1..k /\ i - 1 = k /\ k \in 1..(k + 1) /\ ~(i <= k)
        BY <3>3
      <4>2. k = 1 => f[k] = s[k]
        BY <2>1, <4>1
      <4>3. g[k] = f[k]
        BY <4>1, <4>2
      <4>4. g[i] = f[i - 1] \o s[i]
        BY <3>3, <4>1
      <4> QED  BY <3>3, <4>1, <4>3, <4>4
    <3> QED  BY <3>1, <3>2, <3>3
  <2>3. Solves(g, k + 1)
    <3>1. g = [i \in 1..(k + 1) |-> g[i]]
      OBVIOUS
    <3> HIDE DEF g
    <3> QED  BY <2>2, <3>1
  <2> HIDE DEF Solves, g
  <2> QED  BY <1>1, <1>3, <2>3
<1>4. n \in Solved
  <2> HIDE DEF Solved
  <2>1. \A k \in 0..n : k \in Solved
    BY <1>1, <1>2, <1>3, UpTo
  <2> QED  BY <1>1, <2>1
<1>5. Solves(flat, n)
  <2> HIDE DEF Solves
  <2> QED  BY <1>4
<1>6. FlattenSeq(s) = flat[n]
  BY <1>1 DEF FlattenSeq
<1> HIDE DEF flat
<1>7. \A i \in 1..n : flat[i] = IF i = 1 THEN s[i] ELSE flat[i - 1] \o s[i]
  BY <1>5
<1> HIDE DEF n
<1>8. flat[1] = s[1]
  <2>1. 1 \in 1..n
    BY <1>1
  <2> QED  BY <1>7, <2>1
<1>9. ASSUME NEW i \in 2..n PROVE flat[i] = flat[i - 1] \o s[i]
  <2>1. i \in 1..n /\ i # 1
    BY <1>1
  <2> QED  BY <1>7, <2>1
<1> QED  BY <1>6, <1>8, <1>9 DEF n

\* Blocks of one length: the result of flattening up to each block ends in it.
LEMMA FlattenBlocks ==
    ASSUME NEW T, NEW n \in Nat, n >= 1, NEW s \in Seq([1..n -> T]), s # <<>>
    PROVE  \E f : /\ FlattenSeq(s) = f[Len(s)]
                  /\ f[1] = s[1]
                  /\ \A i \in 2..Len(s) : f[i] = f[i - 1] \o s[i]
                  /\ \A i \in 1..Len(s) : f[i] \in Seq(T) /\ Len(f[i]) >= n
<1> DEFINE K == [1..n -> T]
           N == Len(s)
<1>1. N \in Nat /\ N >= 1
  OBVIOUS
<1>2. PICK f : /\ FlattenSeq(s) = f[N]
               /\ f[1] = s[1]
               /\ \A i \in 2..N : f[i] = f[i - 1] \o s[i]
  BY FlattenSteps
<1>3. ASSUME NEW i \in 1..N PROVE s[i] \in Seq(T) /\ Len(s[i]) = n
  <2>1. s[i] \in K
    <3>1. s \in Seq(K)
      OBVIOUS
    <3> HIDE DEF K
    <3> QED  BY <3>1, ElementOfSeq
  <2>2. \A x \in [1..n -> T] : x \in Seq(T) /\ Len(x) = n
    OBVIOUS
  <2> QED  BY <2>1, <2>2
<1> DEFINE Holds(i) == i = 0 \/ (f[i] \in Seq(T) /\ Len(f[i]) >= n)
           S == {i \in 0..N : Holds(i)}
<1>4. 0 \in S
  BY <1>1
<1>5. ASSUME NEW i \in 0..N, i \in S, i + 1 <= N PROVE i + 1 \in S
  <2>1. CASE i = 0
    <3>1. 1 \in 1..N
      BY <1>1
    <3> QED  BY <1>1, <1>2, <1>3, <2>1, <3>1
  <2>2. CASE i # 0
    <3>1. i + 1 \in 2..N /\ i + 1 \in 1..N /\ (i + 1) - 1 = i
      BY <1>1, <1>5, <2>2
    <3>2. f[i + 1] = f[i] \o s[i + 1]
      BY <1>2, <3>1
    <3>3. f[i] \in Seq(T) /\ Len(f[i]) >= n
      BY <1>5, <2>2
    <3>4. s[i + 1] \in Seq(T) /\ Len(s[i + 1]) = n
      BY <1>3, <3>1
    <3>5. f[i + 1] \in Seq(T) /\ Len(f[i + 1]) = Len(f[i]) + Len(s[i + 1])
      BY <3>2, <3>3, <3>4, ConcatProperties
    <3>6. Len(f[i + 1]) >= n
      <4>1. Len(f[i]) \in Nat
        BY <3>3
      <4> QED  BY <3>3, <3>4, <3>5, <4>1
    <3>7. i + 1 \in 0..N
      BY <1>1, <1>5
    <3>8. Holds(i + 1)
      BY <3>5, <3>6
    <3> HIDE DEF N, Holds
    <3> QED  BY <3>7, <3>8
  <2> QED  BY <2>1, <2>2
<1>6. \A i \in 0..N : i \in S
  <2> HIDE DEF S, N
  <2> QED  BY <1>1, <1>4, <1>5, UpTo
<1>7. \A i \in 1..N : f[i] \in Seq(T) /\ Len(f[i]) >= n
  BY <1>6
<1> QED  BY <1>2, <1>7

\* Two ways to cut one list, with ends of one length.
Cut(T, x, y, u, v) ==
    /\ x \in Seq(T) /\ y \in Seq(T) /\ u \in Seq(T) /\ v \in Seq(T)
    /\ x \o u = y \o v /\ Len(u) = Len(v)

\* They are one and the same.
LEMMA ConcatSplits ==
    ASSUME NEW T, NEW x, NEW y, NEW u, NEW v, Cut(T, x, y, u, v)
    PROVE  x = y /\ u = v
<1> USE DEF Cut
<1>1. /\ Len(x \o u) = Len(x) + Len(u) /\ Len(y \o v) = Len(y) + Len(v)
      /\ \A i \in 1..Len(x) : (x \o u)[i] = x[i]
      /\ \A i \in 1..Len(y) : (y \o v)[i] = y[i]
      /\ \A i \in 1..Len(u) : (x \o u)[Len(x) + i] = u[i]
      /\ \A i \in 1..Len(v) : (y \o v)[Len(y) + i] = v[i]
  BY ConcatProperties
<1>2. /\ Len(x) \in Nat /\ Len(y) \in Nat /\ Len(u) \in Nat /\ Len(v) \in Nat
  OBVIOUS
<1>3. Len(x) = Len(y)
  BY <1>1, <1>2
<1>4. \A i \in 1..Len(x) : x[i] = y[i]
  BY <1>1, <1>3
<1>5. \A i \in 1..Len(u) : u[i] = v[i]
  BY <1>1, <1>3
<1> QED  BY <1>3, <1>4, <1>5, SeqEqual

\* Two ways to cut one list at a separator that neither end has.
SplitAt(T, b, x, y, u, v) ==
    /\ x \in Seq(T) /\ y \in Seq(T) /\ u \in Seq(T) /\ v \in Seq(T) /\ b \in T
    /\ x \o <<b>> \o u = y \o <<b>> \o v
    /\ b \notin ToSet(u) /\ b \notin ToSet(v)

\* The second cut is not before the first.
LEMMA SplitNotBefore ==
    ASSUME NEW T, NEW b, NEW x, NEW y, NEW u, NEW v, SplitAt(T, b, x, y, u, v)
    PROVE  ~(Len(y) < Len(x))
<1> DEFINE w == x \o <<b>> \o u
           k == Len(x) + 1
<1>1. /\ x \in Seq(T) /\ y \in Seq(T) /\ u \in Seq(T) /\ v \in Seq(T) /\ b \in T
      /\ w = y \o <<b>> \o v
      /\ b \notin ToSet(u) /\ b \notin ToSet(v)
  BY DEF SplitAt
<1> SUFFICES ASSUME Len(y) < Len(x) PROVE FALSE
  OBVIOUS
<1>2. /\ Len(w) = Len(x) + 1 + Len(u) /\ w[k] = b
      /\ Len(x) \in Nat /\ Len(y) \in Nat /\ Len(u) \in Nat /\ Len(v) \in Nat
  BY <1>1
<1>3. /\ Len(w) = Len(y) + 1 + Len(v)
      /\ \A i \in 1..Len(v) : w[Len(y) + 1 + i] = v[i]
  <2>1. w = y \o <<b>> \o v
    BY <1>1
  <2> HIDE DEF w
  <2> QED  BY <1>1, <2>1
<1> HIDE DEF w
<1>4. Len(x) - Len(y) \in 1..Len(v) /\ Len(y) + 1 + (Len(x) - Len(y)) = k
  BY <1>2, <1>3
<1> HIDE DEF k
<1>5. v[Len(x) - Len(y)] = b
  BY <1>2, <1>3, <1>4
<1>6. DOMAIN v = 1..Len(v)
  BY <1>1
<1> QED  BY <1>1, <1>4, <1>5, <1>6 DEF ToSet

\* They are one and the same.
LEMMA SeparatorSplits ==
    ASSUME NEW T, NEW b, NEW x, NEW y, NEW u, NEW v, SplitAt(T, b, x, y, u, v)
    PROVE  x = y /\ u = v
<1>1. SplitAt(T, b, y, x, v, u)
  BY DEF SplitAt
<1>2. ~(Len(y) < Len(x)) /\ ~(Len(x) < Len(y))
  BY <1>1, SplitNotBefore
<1>3. /\ x \in Seq(T) /\ y \in Seq(T) /\ u \in Seq(T) /\ v \in Seq(T) /\ b \in T
      /\ x \o <<b>> \o u = y \o <<b>> \o v
  BY DEF SplitAt
<1>4. Len(x) = Len(y)
  <2>1. Len(x) \in Nat /\ Len(y) \in Nat
    BY <1>3
  <2> QED  BY <1>2, <2>1
<1> DEFINE p == x \o <<b>>
           q == y \o <<b>>
           one == <<b>>
<1>5. /\ p \in Seq(T) /\ q \in Seq(T) /\ one \in Seq(T)
      /\ Len(p) = Len(x) + 1 /\ Len(q) = Len(y) + 1
  BY <1>3
<1>6. p \o u = q \o v
  BY <1>3
<1>7. Len(u) = Len(v)
  <2> HIDE DEF p, q
  <2>1. Len(p \o u) = Len(p) + Len(u) /\ Len(q \o v) = Len(q) + Len(v)
    BY <1>3, <1>5, ConcatProperties
  <2>2. Len(p) \in Nat /\ Len(u) \in Nat /\ Len(v) \in Nat /\ Len(p) = Len(q)
    BY <1>3, <1>4, <1>5
  <2> QED  BY <1>6, <2>1, <2>2
<1>8. Cut(T, p, q, u, v)
  <2> HIDE DEF p, q
  <2> QED  BY <1>3, <1>5, <1>6, <1>7 DEF Cut
<1>9. p = q /\ u = v
  <2> HIDE DEF p, q
  <2> QED  BY <1>8, ConcatSplits
<1>10. Cut(T, x, y, one, one)
  BY <1>3, <1>5, <1>9 DEF Cut
<1>11. x = y
  <2> HIDE DEF one
  <2> QED  BY <1>10, ConcatSplits
<1> QED  BY <1>9, <1>11

\* Lists of blocks that flatten to one list, the first no longer than the second.
LEMMA FlattenShorter ==
    ASSUME NEW T, NEW n \in Nat, n >= 1, NEW a \in Seq([1..n -> T]), NEW b \in Seq([1..n -> T]),
           FlattenSeq(a) = FlattenSeq(b), Len(a) <= Len(b)
    PROVE  a = b
<1> DEFINE K == [1..n -> T]
           N == Len(a)
           M == Len(b)
<1>1. N \in Nat /\ M \in Nat /\ N <= M
  OBVIOUS
<1>2. CASE N = 0
  <2>1. FlattenSeq(a) = <<>>
    BY <1>2 DEF FlattenSeq
  <2> SUFFICES ASSUME b # <<>> PROVE FALSE
    BY <1>2
  <2>2. PICK g : FlattenSeq(b) = g[M] /\ \A i \in 1..M : g[i] \in Seq(T) /\ Len(g[i]) >= n
    BY FlattenBlocks
  <2>3. M \in 1..M
    OBVIOUS
  <2>4. Len(<<>>) >= n
    BY <2>1, <2>2, <2>3
  <2> QED  BY <2>4
<1>3. CASE N # 0
  <2>1. N >= 1 /\ M >= 1 /\ a # <<>> /\ b # <<>>
    BY <1>1, <1>3
  <2>2. PICK f : /\ FlattenSeq(a) = f[N] /\ f[1] = a[1]
                 /\ \A i \in 2..N : f[i] = f[i - 1] \o a[i]
                 /\ \A i \in 1..N : f[i] \in Seq(T) /\ Len(f[i]) >= n
    BY <2>1, FlattenBlocks
  <2>3. PICK g : /\ FlattenSeq(b) = g[M] /\ g[1] = b[1]
                 /\ \A i \in 2..M : g[i] = g[i - 1] \o b[i]
                 /\ \A i \in 1..M : g[i] \in Seq(T) /\ Len(g[i]) >= n
    BY <2>1, FlattenBlocks
  <2>4. \A x \in [1..n -> T] : x \in Seq(T) /\ Len(x) = n
    OBVIOUS
  <2>5. /\ \A i \in 1..N : a[i] \in Seq(T) /\ Len(a[i]) = n
        /\ \A i \in 1..M : b[i] \in Seq(T) /\ Len(b[i]) = n
    <3>1. a \in Seq(K) /\ b \in Seq(K)
      OBVIOUS
    <3>2. \A x \in K : x \in Seq(T) /\ Len(x) = n
      BY <2>4
    <3> HIDE DEF K
    <3> QED  BY <3>1, <3>2, ElementOfSeq
  <2> DEFINE Same(d) == f[N - d] = g[M - d]
             S == {d \in 0..(N - 1) : Same(d)}
  <2>6. 0 \in S
    <3>1. N - 0 = N /\ M - 0 = M /\ 0 \in 0..(N - 1)
      BY <1>1, <2>1
    <3>2. f[N] = g[M]
      BY <2>2, <2>3
    <3> HIDE DEF N, M
    <3> QED  BY <3>1, <3>2
  <2>7. ASSUME NEW d \in 0..(N - 1), Same(d), d + 1 <= N - 1
        PROVE  Same(d + 1) /\ a[N - d] = b[M - d]
    <3> DEFINE i == N - d
               j == M - d
    <3> HIDE DEF N, M, Same, S
    <3>1. /\ i \in 2..N /\ i \in 1..N /\ i - 1 \in 1..N
          /\ j \in 2..M /\ j \in 1..M /\ j - 1 \in 1..M
          /\ N - (d + 1) = i - 1 /\ M - (d + 1) = j - 1
      <4>1. d \in Nat /\ d + 2 <= N /\ d + 2 <= M
        BY <1>1, <2>1, <2>7
      <4> QED  BY <1>1, <4>1
    <3> HIDE DEF i, j
    <3>2. f[i - 1] \o a[i] = g[j - 1] \o b[j]
      <4>1. f[i] = g[j]
        BY <2>7 DEF i, j, Same
      <4> QED  BY <2>2, <2>3, <3>1, <4>1
    <3>3. /\ f[i - 1] \in Seq(T) /\ g[j - 1] \in Seq(T)
          /\ a[i] \in Seq(T) /\ b[j] \in Seq(T) /\ Len(a[i]) = Len(b[j])
      BY <2>2, <2>3, <2>5, <3>1
    <3>4. f[i - 1] = g[j - 1] /\ a[i] = b[j]
      <4> DEFINE x == f[i - 1]
                 y == g[j - 1]
                 u == a[i]
                 v == b[j]
      <4>1. Cut(T, x, y, u, v)
        BY <3>2, <3>3 DEF Cut
      <4> HIDE DEF x, y, u, v
      <4>2. x = y /\ u = v
        BY <4>1, ConcatSplits
      <4> QED  BY <4>2 DEF x, y, u, v
    <3>5. Same(d + 1)
      BY <3>1, <3>4 DEF Same
    <3> QED  BY <3>4, <3>5 DEF i, j
  <2>8. \A d \in 0..(N - 1) : Same(d)
    <3>1. N - 1 \in Nat
      BY <1>1, <2>1
    <3>2. ASSUME NEW d \in 0..(N - 1), d \in S, d + 1 <= N - 1 PROVE d + 1 \in S
      <4>1. Same(d + 1)
        BY <2>7, <3>2
      <4>2. d + 1 \in 0..(N - 1)
        BY <3>1, <3>2
      <4> HIDE DEF Same
      <4> QED  BY <4>1, <4>2
    <3>3. \A d \in 0..(N - 1) : d \in S
      <4> HIDE DEF S, N
      <4> QED  BY <2>6, <3>1, <3>2, UpTo
    <3> HIDE DEF Same
    <3> QED  BY <3>3
  <2>9. N = M
    <3> SUFFICES ASSUME N # M PROVE FALSE
      OBVIOUS
    <3> DEFINE j == M - (N - 1)
    <3>1. j \in 2..M /\ j \in 1..M /\ j - 1 \in 1..M /\ N - 1 \in 0..(N - 1)
          /\ N - (N - 1) = 1 /\ 1 \in 1..N
      BY <1>1, <2>1
    <3>2. f[1] = g[j]
      <4>1. Same(N - 1)
        BY <2>8, <3>1
      <4> QED  BY <3>1, <4>1
    <3> HIDE DEF j, N, M, Same, S
    <3>3. g[j] = g[j - 1] \o b[j]
      BY <2>3, <3>1
    <3>4. g[j - 1] \in Seq(T) /\ Len(g[j - 1]) >= n /\ b[j] \in Seq(T) /\ Len(b[j]) = n
      BY <2>3, <2>5, <3>1
    <3>5. Len(g[j]) = Len(g[j - 1]) + n /\ Len(g[j - 1]) \in Nat
      <4>1. Len(g[j - 1] \o b[j]) = Len(g[j - 1]) + Len(b[j])
        BY <3>4, ConcatProperties
      <4> QED  BY <3>3, <3>4, <4>1
    <3>6. Len(g[j]) = n
      BY <2>2, <2>5, <3>1, <3>2
    <3> QED  BY <3>4, <3>5, <3>6
  <2>10. ASSUME NEW i \in 1..N PROVE a[i] = b[i]
    <3>1. CASE i = 1
      <4>1. Same(N - 1) /\ N - (N - 1) = 1 /\ M - (N - 1) = 1
        <5>1. N - 1 \in 0..(N - 1) /\ N - (N - 1) = 1 /\ M - (N - 1) = 1
          BY <1>1, <2>1, <2>9
        <5> HIDE DEF Same, N, M
        <5> QED  BY <2>8, <5>1
      <4> QED  BY <2>2, <2>3, <3>1, <4>1
    <3>2. CASE i # 1
      <4>1. N - i \in 0..(N - 1) /\ (N - i) + 1 <= N - 1 /\ N - (N - i) = i /\ M - (N - i) = i
        BY <1>1, <2>9, <3>2
      <4>2. Same(N - i)
        BY <2>8, <4>1
      <4>3. a[N - (N - i)] = b[M - (N - i)]
        <5> HIDE DEF Same, N, M
        <5> QED  BY <2>7, <4>1, <4>2
      <4> HIDE DEF N, M
      <4> QED  BY <4>1, <4>3
    <3> QED  BY <3>1, <3>2
  <2> QED
    <3>1. a \in Seq(K) /\ b \in Seq(K) /\ Len(a) = Len(b) /\ \A i \in 1..Len(a) : a[i] = b[i]
      BY <2>9, <2>10
    <3> HIDE DEF K
    <3> QED  BY <3>1, SeqEqual
<1> QED  BY <1>2, <1>3

\* Lists of blocks of one length that flatten to one list are one list.
LEMMA FlattenExact ==
    ASSUME NEW T, NEW n \in Nat, n >= 1, NEW a \in Seq([1..n -> T]), NEW b \in Seq([1..n -> T]),
           FlattenSeq(a) = FlattenSeq(b)
    PROVE  a = b
<1>1. Len(a) \in Nat /\ Len(b) \in Nat
  OBVIOUS
<1>2. CASE Len(a) <= Len(b)
  BY <1>2, FlattenShorter
<1>3. CASE Len(b) <= Len(a)
  BY <1>3, FlattenShorter
<1> QED  BY <1>1, <1>2, <1>3
----------------------------------------------------------------------------
(* Folds. *)

\* h folds F over s from the left: it gives, for a set of places, the result of
\* folding over the elements at these places.
FoldsBy(h, F, base, s) ==
    \A T \in SUBSET (1..Len(s)) :
      h[T] = IF T = {} THEN base ELSE F[<<h[T \ {Max(T)}], s[Max(T)]>>]

\* The function by which FoldLeft folds, from sets of places to results, exists: a
\* fold over a list is defined, whatever is folded.
LEMMA FoldExists ==
    ASSUME NEW State, NEW Char, NEW F \in [State \X Char -> State], NEW base \in State,
           NEW s \in Seq(Char)
    PROVE  \E h \in [SUBSET (1..Len(s)) -> State] : FoldsBy(h, F, base, s)
<1> DEFINE n == Len(s)
           Solves(h, k) == \A T \in SUBSET (1..k) :
                             h[T] = IF T = {} THEN base ELSE F[<<h[T \ {Max(T)}], s[Max(T)]>>]
           Solved == {k \in 0..n : \E h \in [SUBSET (1..k) -> State] : Solves(h, k)}
<1>1. n \in Nat
  OBVIOUS
<1>2. 0 \in Solved
  <2> DEFINE h == [T \in SUBSET (1..0) |-> base]
  <2>1. \A T \in SUBSET (1..0) : T = {}
    OBVIOUS
  <2>2. Solves(h, 0)
    BY <2>1
  <2>3. h \in [SUBSET (1..0) -> State]
    OBVIOUS
  <2>4. 0 \in 0..n
    BY <1>1
  <2> HIDE DEF Solves, h, n
  <2> QED  BY <2>2, <2>3, <2>4
<1>3. ASSUME NEW k \in 0..n, k \in Solved, k + 1 <= n PROVE k + 1 \in Solved
  <2>1. PICK h \in [SUBSET (1..k) -> State] : Solves(h, k)
    BY <1>3
  <2> DEFINE g == [T \in SUBSET (1..(k + 1)) |->
                     IF k + 1 \in T THEN F[<<h[T \ {k + 1}], s[k + 1]>>] ELSE h[T]]
  <2>2. k \in Nat /\ s[k + 1] \in Char
    BY <1>1, <1>3
  <2>3. ASSUME NEW T \in SUBSET (1..(k + 1)), k + 1 \notin T
        PROVE  T \in SUBSET (1..k) /\ g[T] = h[T] /\ h[T] \in State
    <3>1. T \in SUBSET (1..k)
      BY <2>2, <2>3
    <3> QED  BY <2>1, <2>3, <3>1
  <2>4. ASSUME NEW T \in SUBSET (1..(k + 1)), k + 1 \in T
        PROVE  /\ Max(T) = k + 1 /\ g[T] = F[<<g[T \ {k + 1}], s[k + 1]>>]
               /\ g[T] \in State
    <3>1. Max(T) \in T /\ \A y \in T : y <= Max(T)
      <4>1. k + 1 \in Nat /\ T # {}
        BY <2>2, <2>4
      <4> HIDE DEF g, n, Solves, Solved
      <4> QED  BY <4>1, MaxExists
    <3>2. Max(T) = k + 1
      <4>1. PICK m \in 1..(k + 1) : m = Max(T)
        BY <3>1
      <4>2. k + 1 <= m
        BY <2>4, <3>1, <4>1
      <4> HIDE DEF g, n, Solves, Solved
      <4> QED  BY <2>2, <4>1, <4>2
    <3>3. T \ {k + 1} \in SUBSET (1..(k + 1)) /\ k + 1 \notin T \ {k + 1}
      OBVIOUS
    <3>4. g[T \ {k + 1}] = h[T \ {k + 1}] /\ h[T \ {k + 1}] \in State
      BY <2>3, <3>3
    <3>5. g[T] = F[<<h[T \ {k + 1}], s[k + 1]>>]
      BY <2>4
    <3>6. F[<<h[T \ {k + 1}], s[k + 1]>>] \in State
      BY <2>2, <3>4
    <3> HIDE DEF g
    <3> QED  BY <3>2, <3>4, <3>5, <3>6
  <2>5. g \in [SUBSET (1..(k + 1)) -> State]
    <3>1. \A T \in SUBSET (1..(k + 1)) : g[T] \in State
      <4> HIDE DEF g
      <4> QED  BY <2>3, <2>4
    <3>2. g = [T \in SUBSET (1..(k + 1)) |-> g[T]]
      OBVIOUS
    <3> HIDE DEF g
    <3> QED  BY <3>1, <3>2
  <2>6. ASSUME NEW T \in SUBSET (1..(k + 1))
        PROVE  g[T] = IF T = {} THEN base ELSE F[<<g[T \ {Max(T)}], s[Max(T)]>>]
    <3> HIDE DEF g
    <3>1. CASE k + 1 \in T
      BY <2>4, <3>1
    <3>2. CASE k + 1 \notin T
      <4>1. T \in SUBSET (1..k) /\ g[T] = h[T]
        BY <2>3, <3>2
      <4>2. h[T] = IF T = {} THEN base ELSE F[<<h[T \ {Max(T)}], s[Max(T)]>>]
        BY <2>1, <4>1
      <4>3. g[T \ {Max(T)}] = h[T \ {Max(T)}]
        <5>1. T \ {Max(T)} \in SUBSET (1..(k + 1)) /\ k + 1 \notin T \ {Max(T)}
          BY <3>2
        <5> QED  BY <2>3, <5>1
      <4> QED  BY <4>1, <4>2, <4>3
    <3> QED  BY <3>1, <3>2
  <2> HIDE DEF g
  <2>7. Solves(g, k + 1)
    BY <2>6
  <2>8. k + 1 \in 0..n
    BY <1>1, <1>3
  <2> HIDE DEF Solves
  <2> QED  BY <2>5, <2>7, <2>8
<1>4. \A k \in 0..n : k \in Solved
  <2> HIDE DEF Solved, n
  <2> QED  BY <1>1, <1>2, <1>3, UpTo
<1>5. \E h \in [SUBSET (1..n) -> State] : Solves(h, n)
  <2>1. n \in Solved
    <3> HIDE DEF Solved, n
    <3> QED  BY <1>1, <1>4
  <2> HIDE DEF Solves
  <2> QED  BY <2>1
<1> QED  BY <1>5 DEF FoldsBy

============================================================================
