--------------------------- MODULE BatchEdit_proofs ---------------------------
(***************************************************************************)
(* BatchEdit for every file, every batch and every hash: an accepted batch *)
(* yields the file that its operations describe.                           *)
(***************************************************************************)
EXTENDS BatchEdit, SequenceTheorems, FiniteSetTheorems, WellFoundedInduction, TLAPS

------------------------------------------------------------------------------
(* Induction, recursion and sums.                                          *)

\* A set of numbers with 0 and with every successor has all of them.
LEMMA AllNumbers ==
  ASSUME NEW K \in SUBSET Nat, 0 \in K, \A n \in K : n + 1 \in K
  PROVE  \A n \in Nat : n \in K
<1> DEFINE R == {p \in Nat \X Nat : p[1] < p[2]}
           Bad == Nat \ K
<1>1. IsWellFoundedOn(R, Nat)
  BY NatLessThanWellFounded DEF OpToRel
<1> SUFFICES ASSUME Bad # {} PROVE FALSE
  OBVIOUS
<1>2. Bad \in SUBSET Nat
  OBVIOUS
<1>3. PICK k \in Bad : \A j \in Bad : ~(<<j, k>> \in R)
  <2> HIDE DEF R, Bad
  <2> QED
    BY <1>1, <1>2, WFMin
<1>4. k \in Nat /\ k \notin K /\ k # 0
  BY <1>3
<1>5. k - 1 \in Nat /\ k - 1 < k
  BY <1>4
<1>6. k - 1 \in K
  BY <1>3, <1>4, <1>5
<1>7. (k - 1) + 1 \in K
  BY <1>6
<1> QED
  BY <1>4, <1>7

\* A recursion over 0..n has a solution.
Solves(f, S, base, n, step) ==
  f \in [0..n -> S] /\ f[0] = base /\ \A i \in 1..n : f[i] = step[i][f[i - 1]]

LEMMA Iterate ==
  ASSUME NEW S, NEW base \in S, NEW n \in Nat, NEW step \in [1..n -> [S -> S]]
  PROVE  \E f : Solves(f, S, base, n, step)
<1> DEFINE Through(f, k) == f[0] = base /\ \A i \in 1..k : f[i] = step[i][f[i - 1]]
           K == {k \in Nat : k <= n => \E f \in [0..n -> S] : Through(f, k)}
<1>1. 0 \in K
  <2> DEFINE f == [i \in 0..n |-> base]
  <2>1. f \in [0..n -> S] /\ Through(f, 0)
    OBVIOUS
  <2> HIDE DEF f, UpTo
  <2> QED
    BY <2>1
<1>2. ASSUME NEW k \in K PROVE k + 1 \in K
  <2> SUFFICES ASSUME k + 1 <= n PROVE \E f \in [0..n -> S] : Through(f, k + 1)
    OBVIOUS
  <2>1. PICK f \in [0..n -> S] : Through(f, k)
    BY <1>2
  <2> DEFINE g == [f EXCEPT ![k + 1] = step[k + 1][f[k]]]
  <2>2. k \in Nat /\ k \in 0..n /\ k + 1 \in 1..n /\ k + 1 \in 0..n
    BY <1>2
  <2>3. step[k + 1][f[k]] \in S
    BY <2>2
  <2>4. g \in [0..n -> S] /\ g[k + 1] = step[k + 1][f[k]] /\ \A i \in 0..k : g[i] = f[i]
    BY <2>2, <2>3
  <2> HIDE DEF g
  <2>5. g[0] = base
    BY <2>1, <2>2, <2>4
  <2>6. ASSUME NEW i \in 1..(k + 1) PROVE g[i] = step[i][g[i - 1]]
    <3>1. CASE i = k + 1
      BY <2>2, <2>4, <3>1
    <3>2. CASE i # k + 1
      <4>1. i \in 1..k /\ i \in 0..k /\ i - 1 \in 0..k
        BY <2>2, <3>2
      <4> QED
        BY <2>1, <2>4, <4>1
    <3> QED
      BY <3>1, <3>2
  <2> QED
    BY <2>4, <2>5, <2>6
<1>3. n \in K
  <2> HIDE DEF K
  <2>1. K \in SUBSET Nat
    BY DEF K
  <2> QED
    BY <1>1, <1>2, <2>1, AllNumbers
<1> QED
  BY <1>3 DEF Solves

\* A set of subsets of a finite set that has each one whose subsets with one
\* element less it has, has them all.
LEMMA SubsetInduction ==
  ASSUME NEW D, IsFiniteSet(D), NEW K,
         \A T \in SUBSET D : (\A x \in T : T \ {x} \in K) => T \in K
  PROVE  \A T \in SUBSET D : T \in K
<1> DEFINE N == {n \in Nat : \A T \in SUBSET D : Cardinality(T) = n => T \in K}
<1>1. \A T \in SUBSET D : /\ IsFiniteSet(T) /\ Cardinality(T) \in Nat
                          /\ Cardinality(T) = 0 <=> T = {}
                          /\ \A x \in T : Cardinality(T \ {x}) = Cardinality(T) - 1
  <2> TAKE T \in SUBSET D
  <2>1. IsFiniteSet(T) /\ Cardinality(T) \in Nat /\ (Cardinality(T) = 0 <=> T = {})
    BY FS_Subset, FS_CardinalityType, FS_EmptySet
  <2> QED
    BY <2>1, FS_RemoveElement
<1>2. 0 \in N
  <2>1. \A T \in SUBSET D : Cardinality(T) = 0 => T = {}
    BY <1>1
  <2>2. {} \in K
    OBVIOUS
  <2> QED
    BY <2>1, <2>2
<1>3. ASSUME NEW n \in N PROVE n + 1 \in N
  <2> SUFFICES ASSUME NEW T \in SUBSET D, Cardinality(T) = n + 1 PROVE T \in K
    OBVIOUS
  <2>1. n \in Nat
    OBVIOUS
  <2>2. \A x \in T : T \ {x} \in SUBSET D /\ Cardinality(T \ {x}) = n
    BY <1>1, <2>1
  <2>3. \A x \in T : T \ {x} \in K
    BY <2>2
  <2> QED
    BY <2>3
<1>4. \A n \in Nat : n \in N
  <2> HIDE DEF N
  <2>1. N \in SUBSET Nat
    BY DEF N
  <2> QED
    BY <1>2, <1>3, <2>1, AllNumbers
<1> QED
  BY <1>1, <1>4

\* g sums f over the subsets of D, in whatever order.
IsSum(g, f, D) ==
  /\ IsFiniteSet(D) /\ f \in [D -> Int]
  /\ g \in [SUBSET D -> Int]
  /\ g[{}] = 0
  /\ \A T \in SUBSET D : \A i \in T : g[T] = f[i] + g[T \ {i}]

Sums(g, f, D) ==
  /\ g \in [SUBSET D -> Int]
  /\ g[{}] = 0
  /\ \A T \in SUBSET D : \A i \in T : g[T] = f[i] + g[T \ {i}]

LEMMA SumExists ==
  ASSUME NEW D, IsFiniteSet(D), NEW f \in [D -> Int]
  PROVE  \E g : IsSum(g, f, D)
<1> DEFINE K == {X \in SUBSET D : \E g : Sums(g, f, X)}
<1>1. {} \in K
  <2> DEFINE g == [T \in SUBSET {} |-> 0]
  <2>1. Sums(g, f, {})
    BY DEF Sums
  <2> QED
    BY <2>1
<1>2. ASSUME NEW X \in SUBSET D, NEW x \in X, X \ {x} \in K PROVE X \in K
  <2> DEFINE Y == X \ {x}
  <2>1. PICK h : Sums(h, f, Y)
    BY <1>2
  <2> DEFINE g == [T \in SUBSET X |-> IF x \in T THEN f[x] + h[T \ {x}] ELSE h[T]]
  <2>2. \A T \in SUBSET X : T \ {x} \in SUBSET Y /\ (x \notin T => T \in SUBSET Y)
    OBVIOUS
  <2>3. /\ h \in [SUBSET Y -> Int] /\ h[{}] = 0
        /\ \A T \in SUBSET Y : \A i \in T : h[T] = f[i] + h[T \ {i}]
    BY <2>1 DEF Sums
  <2>4. \A i \in X : f[i] \in Int
    OBVIOUS
  <2> HIDE DEF Y
  <2>5. \A T \in SUBSET X : h[T \ {x}] \in Int /\ (x \notin T => h[T] \in Int)
    BY <2>2, <2>3
  <2>6. g \in [SUBSET X -> Int]
    BY <2>4, <2>5
  <2>7. g[{}] = 0
    BY <2>3
  <2>8. ASSUME NEW T \in SUBSET X, NEW i \in T PROVE g[T] = f[i] + g[T \ {i}]
    <3>1. T \ {i} \in SUBSET X /\ f[i] \in Int /\ f[x] \in Int
      BY <2>4
    <3>2. CASE i = x
      BY <3>1, <3>2
    <3>3. CASE i # x /\ x \notin T
      <4>1. g[T] = h[T] /\ g[T \ {i}] = h[T \ {i}]
        BY <3>1, <3>3
      <4>2. T \in SUBSET Y
        BY <2>2, <3>3
      <4> QED
        BY <2>3, <4>1, <4>2
    <3>4. CASE i # x /\ x \in T
      <4> DEFINE A == T \ {x}
                 B == A \ {i}
      <4>1. g[T] = f[x] + h[A] /\ g[T \ {i}] = f[x] + h[(T \ {i}) \ {x}]
        BY <3>1, <3>4
      <4>2. (T \ {i}) \ {x} = B /\ A \in SUBSET Y /\ B \in SUBSET Y /\ i \in A
        BY <2>2, <3>4
      <4>3. h[A] = f[i] + h[B] /\ h[B] \in Int /\ h[A] \in Int
        BY <2>3, <4>2
      <4> HIDE DEF A, B, g
      <4>4. g[T] = f[x] + h[A] /\ g[T \ {i}] = f[x] + h[B]
        BY <4>1, <4>2
      <4> QED
        BY <3>1, <4>3, <4>4
    <3> QED
      BY <3>2, <3>3, <3>4
  <2> HIDE DEF g
  <2> QED
    BY <2>6, <2>7, <2>8 DEF Sums
<1>3. D \in K
  <2>1. ASSUME NEW T \in SUBSET D, \A x \in T : T \ {x} \in K PROVE T \in K
    <3>1. CASE T = {}
      BY <1>1, <3>1
    <3>2. CASE T # {}
      <4>1. PICK x \in T : TRUE
        BY <3>2
      <4> HIDE DEF K
      <4> QED
        BY <1>2, <2>1
    <3> QED
      BY <3>1, <3>2
  <2>2. D \in SUBSET D
    OBVIOUS
  <2> HIDE DEF K
  <2>3. \A T \in SUBSET D : T \in K
    BY <2>1, SubsetInduction
  <2> QED
    BY <2>2, <2>3
<1> QED
  BY <1>3 DEF IsSum, Sums

\* Functions that agree on a set have the same sum over it.
Agree(f, e, S) == \A i \in S : f[i] = e[i]

LEMMA SumAgrees ==
  ASSUME NEW D, NEW f, NEW g, IsSum(g, f, D), NEW E, NEW e, NEW h, IsSum(h, e, E),
         NEW S, S \subseteq D, S \subseteq E, Agree(f, e, S)
  PROVE  g[S] = h[S]
<1> DEFINE K == {T \in SUBSET D : T \subseteq S => g[T] = h[T]}
<1>0. IsFiniteSet(D)
  BY DEF IsSum
<1>1. ASSUME NEW T \in SUBSET D, \A i \in T : T \ {i} \in K PROVE T \in K
  <2> SUFFICES ASSUME T \subseteq S PROVE g[T] = h[T]
    OBVIOUS
  <2>1. CASE T = {}
    BY <2>1 DEF IsSum
  <2>2. CASE T # {}
    <3>1. PICK i \in T : TRUE
      BY <2>2
    <3>2. g[T] = f[i] + g[T \ {i}] /\ h[T] = e[i] + h[T \ {i}] /\ f[i] = e[i]
      BY DEF IsSum, Agree
    <3>3. g[T \ {i}] = h[T \ {i}]
      BY <1>1
    <3> QED
      BY <3>2, <3>3
  <2> QED
    BY <2>1, <2>2
<1> HIDE DEF K
<1>2. S \in K
  BY <1>0, <1>1, SubsetInduction
<1> QED
  BY <1>2 DEF K

AgreeBut(f, e, D, x) == \A i \in D \ {x} : f[i] = e[i]

\* Functions that differ in one place have sums that differ by as much.
LEMMA SumOneApart ==
  ASSUME NEW D, NEW f, NEW e, NEW g, NEW h, IsSum(g, f, D), IsSum(h, e, D), NEW x \in D, AgreeBut(f, e, D, x)
  PROVE  h[D] = g[D] + (e[x] - f[x])
<1>1. D \in SUBSET D /\ D \ {x} \in SUBSET D /\ x \in D
  OBVIOUS
<1>2. g[D] = f[x] + g[D \ {x}] /\ h[D] = e[x] + h[D \ {x}]
  BY <1>1 DEF IsSum
<1>3. g[D \ {x}] \in Int /\ f[x] \in Int /\ e[x] \in Int
  BY <1>1 DEF IsSum
<1>4. g[D \ {x}] = h[D \ {x}]
  <2>1. Agree(f, e, D \ {x})
    BY DEF AgreeBut, Agree
  <2> QED
    BY <1>1, <2>1, SumAgrees
<1> QED
  BY <1>2, <1>3, <1>4

\* The sum over two sets that share nothing.
LEMMA SumUnion ==
  ASSUME NEW D, NEW f, NEW g, IsSum(g, f, D),
         NEW S \in SUBSET D, NEW R \in SUBSET D, S \cap R = {}
  PROVE  g[S \cup R] = g[S] + g[R]
<1> DEFINE K == {T \in SUBSET D : T \subseteq R => g[S \cup T] = g[S] + g[T]}
<1>0. g[S] \in Int /\ IsFiniteSet(D)
  BY DEF IsSum
<1>1. ASSUME NEW T \in SUBSET D, \A i \in T : T \ {i} \in K PROVE T \in K
  <2> SUFFICES ASSUME T \subseteq R PROVE g[S \cup T] = g[S] + g[T]
    OBVIOUS
  <2>1. CASE T = {}
    BY <1>0, <2>1 DEF IsSum
  <2>2. CASE T # {}
    <3>0. PICK i \in T : TRUE
      BY <2>2
    <3> DEFINE U == T \ {i}
               V == S \cup U
    <3>1. /\ S \cup T \in SUBSET D /\ i \in S \cup T /\ (S \cup T) \ {i} = V
          /\ U \in SUBSET D /\ V \in SUBSET D /\ f[i] \in Int
      BY DEF IsSum
    <3>2. g[V] = g[S] + g[U]
      BY <1>1
    <3> HIDE DEF U, V
    <3>3. g[S \cup T] = f[i] + g[V]
      BY <3>1 DEF IsSum
    <3>4. g[T] = f[i] + g[U]
      BY DEF IsSum, U
    <3>5. g[U] \in Int
      BY <3>1 DEF IsSum
    <3> QED
      BY <1>0, <3>1, <3>2, <3>3, <3>4, <3>5
  <2> QED
    BY <2>1, <2>2
<1> HIDE DEF K
<1>2. R \in K
  BY <1>0, <1>1, SubsetInduction
<1> QED
  BY <1>2 DEF K

AddsUp(h, f, S) ==
  h[{}] = 0 /\ \A T \in SUBSET S : T # {} => \E i \in T : h[T] = f[i] + h[T \ {i}]

\* A fold that adds the elements of a set in some order is their sum.
LEMMA FoldIsSum ==
  ASSUME NEW D, NEW f, NEW g, IsSum(g, f, D), NEW S \in SUBSET D, NEW h,
         AddsUp(h, f, S)
  PROVE  h[S] = g[S]
<1> DEFINE K == {T \in SUBSET D : T \subseteq S => h[T] = g[T]}
<1>0. IsFiniteSet(D)
  BY DEF IsSum
<1>1. ASSUME NEW T \in SUBSET D, \A i \in T : T \ {i} \in K PROVE T \in K
  <2> SUFFICES ASSUME T \subseteq S PROVE h[T] = g[T]
    OBVIOUS
  <2>1. CASE T = {}
    BY <2>1 DEF IsSum, AddsUp
  <2>2. CASE T # {}
    <3>1. PICK i \in T : h[T] = f[i] + h[T \ {i}]
      BY <2>2 DEF AddsUp
    <3>2. h[T \ {i}] = g[T \ {i}]
      BY <1>1
    <3>3. g[T] = f[i] + g[T \ {i}]
      BY DEF IsSum
    <3> QED
      BY <3>1, <3>2, <3>3
  <2> QED
    BY <2>1, <2>2
<1> HIDE DEF K
<1>2. S \in K
  BY <1>0, <1>1, SubsetInduction
<1> QED
  BY <1>2 DEF K

------------------------------------------------------------------------------
(* Sequences of lines, joined and spliced.                                 *)

LEMMA HeadOfJoin ==
  ASSUME NEW S, NEW u \in Seq(S), NEW v \in Seq(S)
  PROVE  SubSeq(u \o v, 1, Len(u)) = u
<1> DEFINE t == SubSeq(u \o v, 1, Len(u))
           n == Len(u)
<1>1. /\ n \in Nat /\ Len(v) \in Nat /\ u \o v \in Seq(S) /\ Len(u \o v) = n + Len(v)
      /\ \A i \in 1..(n + Len(v)) : (u \o v)[i] = IF i <= n THEN u[i] ELSE v[i - n]
  BY ConcatProperties
<1>2. \A i \in 1..n : (u \o v)[i] = u[i] /\ (u \o v)[i] \in S
  <2> TAKE i \in 1..n
  <2>1. i \in 1..(n + Len(v)) /\ i <= n
    BY <1>1
  <2>2. u[i] \in S
    OBVIOUS
  <2> QED
    BY <1>1, <2>1, <2>2
<1>3. t \in Seq(S) /\ Len(t) = n /\ \A i \in 1..n : t[i] = (u \o v)[i]
  <2>1. 1 \in Int /\ n \in Int
    BY <1>1
  <2>2. /\ SubSeq(u \o v, 1, n) \in Seq(S)
        /\ Len(SubSeq(u \o v, 1, n)) = IF 1 <= n THEN n - 1 + 1 ELSE 0
        /\ \A i \in 1..(n - 1 + 1) : SubSeq(u \o v, 1, n)[i] = (u \o v)[1 + i - 1]
    BY <1>2, <2>1, SubSeqProperties
  <2>3. n - 1 + 1 = n /\ (~(1 <= n) => n = 0) /\ \A i \in 1..n : 1 + i - 1 = i
    BY <1>1
  <2> QED
    BY <2>2, <2>3
<1> HIDE DEF t
<1>4. t = u
  BY <1>2, <1>3, SeqEqual
<1> QED
  BY <1>4 DEF t

LEMMA TailOfJoin ==
  ASSUME NEW S, NEW u \in Seq(S), NEW v \in Seq(S)
  PROVE  SubSeq(u \o v, Len(u) + 1, Len(u \o v)) = v
<1> DEFINE n == Len(u)
           m == Len(v)
           t == SubSeq(u \o v, n + 1, n + m)
<1>1. /\ n \in Nat /\ m \in Nat /\ u \o v \in Seq(S) /\ Len(u \o v) = n + m
      /\ \A i \in 1..(n + m) : (u \o v)[i] = IF i <= n THEN u[i] ELSE v[i - n]
  BY ConcatProperties
<1>2. \A i \in (n + 1)..(n + m) : (u \o v)[i] = v[i - n] /\ (u \o v)[i] \in S
  <2> TAKE i \in (n + 1)..(n + m)
  <2>1. i \in 1..(n + m) /\ ~(i <= n) /\ i - n \in 1..m
    BY <1>1
  <2>2. v[i - n] \in S
    BY <2>1
  <2> QED
    BY <1>1, <2>1, <2>2
<1>3. t \in Seq(S) /\ Len(t) = m /\ \A i \in 1..m : t[i] = v[i]
  <2>1. n + 1 \in Int /\ n + m \in Int
    BY <1>1
  <2>2. /\ t \in Seq(S)
        /\ Len(t) = IF n + 1 <= n + m THEN (n + m) - (n + 1) + 1 ELSE 0
        /\ \A i \in 1..((n + m) - (n + 1) + 1) : t[i] = (u \o v)[(n + 1) + i - 1]
    <3> DEFINE a == n + 1
               b == n + m
               r == u \o v
    <3>1. a \in Int /\ b \in Int /\ \A i \in a..b : r[i] \in S
      BY <1>2, <2>1
    <3> HIDE DEF a, b, r
    <3>2. /\ SubSeq(r, a, b) \in Seq(S)
          /\ Len(SubSeq(r, a, b)) = IF a <= b THEN b - a + 1 ELSE 0
          /\ \A i \in 1..(b - a + 1) : SubSeq(r, a, b)[i] = r[a + i - 1]
      BY <3>1, SubSeqProperties
    <3> QED
      BY <3>2 DEF a, b, r
  <2>3. (n + m) - (n + 1) + 1 = m /\ (~(n + 1 <= n + m) => m = 0)
    BY <1>1
  <2>4. \A i \in 1..m : /\ (n + 1) + i - 1 \in (n + 1)..(n + m)
                        /\ ((n + 1) + i - 1) - n = i
    BY <1>1
  <2> HIDE DEF n, m, t
  <2> QED
    BY <1>2, <2>2, <2>3, <2>4
<1> HIDE DEF t
<1>4. t = v
  BY <1>3, SeqEqual
<1> QED
  BY <1>1, <1>4 DEF t

\* Concatenation is associative, said of three sequences under one name: as an
\* equation it leads the provers into the elements of the sequences.
Regrouped(u, v, w) == (u \o v) \o w = u \o (v \o w)

LEMMA Regroup ==
  ASSUME NEW S, NEW u \in Seq(S), NEW v \in Seq(S), NEW w \in Seq(S)
  PROVE  Regrouped(u, v, w)
<1>1. \A x, y, z \in Seq(S) : (x \o y) \o z = x \o (y \o z)
  BY ConcatAssociative, SMTT(60)
<1> QED
  BY <1>1, Zenon DEF Regrouped

Three(u, v, w) == (u \o v) \o w

\* What Splice does to a sequence in three parts.
LEMMA SpliceOfParts ==
  ASSUME NEW S, NEW u \in Seq(S), NEW v \in Seq(S), NEW w \in Seq(S), NEW new \in Seq(S),
         NEW first, NEW last, first = Len(u) + 1, last = Len(u) + Len(v)
  PROVE  Splice(u \o (v \o w), first, last, new) = Three(u, new, w)
<1> DEFINE all == u \o (v \o w)
<1>1. /\ v \o w \in Seq(S) /\ u \o v \in Seq(S) /\ all = (u \o v) \o w
      /\ Len(u) \in Nat /\ Len(u \o v) = Len(u) + Len(v) /\ Len(v) \in Nat
  <2>1. all = (u \o v) \o w
    <3>1. Regrouped(u, v, w)
      BY Regroup, Zenon
    <3> QED
      BY <3>1 DEF Regrouped
  <2>2. v \o w \in Seq(S) /\ u \o v \in Seq(S) /\ Len(u \o v) = Len(u) + Len(v)
    BY ConcatProperties
  <2> QED
    BY <2>1, <2>2
<1>2. SubSeq(all, 1, Len(u)) = u
  BY <1>1, HeadOfJoin
<1>3. SubSeq(all, Len(u \o v) + 1, Len(all)) = w
  BY <1>1, TailOfJoin
<1>4. (Len(u) + 1) - 1 = Len(u)
  BY <1>1
<1> HIDE DEF all
<1>5. Splice(all, first, last, new)
        = SubSeq(all, 1, (Len(u) + 1) - 1) \o new \o SubSeq(all, Len(u) + Len(v) + 1, Len(all))
  BY DEF Splice
<1>6. Splice(all, first, last, new) = (u \o new) \o w
  BY <1>1, <1>2, <1>3, <1>4, <1>5
<1> QED
  BY <1>6 DEF all, Three

\* J[k] joins the pieces from 0 to k.
IsJoin(J, P, n, S) ==
  /\ J \in [0..n -> Seq(S)]
  /\ J[0] = P[0]
  /\ \A k \in 1..n : J[k] = J[k - 1] \o P[k]

LEMMA JoinExists ==
  ASSUME NEW S, NEW n \in Nat, NEW P \in [0..n -> Seq(S)]
  PROVE  \E J : IsJoin(J, P, n, S)
<1> DEFINE step == [k \in 1..n |-> [u \in Seq(S) |-> u \o P[k]]]
<1>1. step \in [1..n -> [Seq(S) -> Seq(S)]]
  <2>1. \A k \in 1..n : P[k] \in Seq(S)
    OBVIOUS
  <2> QED
    BY <2>1, ConcatProperties
<1>2. P[0] \in Seq(S)
  OBVIOUS
<1>3. \A k \in 1..n : \A u \in Seq(S) : step[k][u] = u \o P[k]
  OBVIOUS
<1> HIDE DEF step
<1>4. PICK J : Solves(J, Seq(S), P[0], n, step)
  BY <1>1, <1>2, Iterate
<1>5. J \in [0..n -> Seq(S)] /\ J[0] = P[0] /\ \A k \in 1..n : J[k] = step[k][J[k - 1]]
  BY <1>4 DEF Solves
<1>6. \A k \in 1..n : J[k] = J[k - 1] \o P[k]
  <2> TAKE k \in 1..n
  <2>1. k - 1 \in 0..n
    OBVIOUS
  <2>2. J[k - 1] \in Seq(S)
    BY <1>5, <2>1
  <2> QED
    BY <1>3, <1>5, <2>2
<1> QED
  BY <1>5, <1>6 DEF IsJoin

SameUpTo(P, Q, k) == \A j \in 0..k : P[j] = Q[j]

\* Pieces that agree up to k join to the same up to k.
LEMMA SameHead ==
  ASSUME NEW S, NEW n \in Nat, NEW P, NEW Q, NEW J, NEW H,
         IsJoin(J, P, n, S), IsJoin(H, Q, n, S), NEW k \in 0..n, SameUpTo(P, Q, k)
  PROVE  J[k] = H[k]
<1> DEFINE K == {j \in Nat : j <= k => J[j] = H[j]}
<1>1. 0 \in K
  <2>1. 0 \in 0..k
    OBVIOUS
  <2> QED
    BY <2>1 DEF IsJoin, SameUpTo
<1>2. ASSUME NEW j \in K PROVE j + 1 \in K
  <2> SUFFICES ASSUME j + 1 <= k PROVE J[j + 1] = H[j + 1]
    OBVIOUS
  <2>1. j + 1 \in 1..n /\ j + 1 \in 0..k /\ (j + 1) - 1 = j /\ j <= k
    OBVIOUS
  <2>2. J[j] = H[j]
    BY <2>1
  <2>3. J[j + 1] = J[j] \o P[j + 1] /\ H[j + 1] = H[j] \o Q[j + 1]
    BY <2>1 DEF IsJoin
  <2>4. P[j + 1] = Q[j + 1]
    BY <2>1 DEF SameUpTo
  <2> QED
    BY <2>2, <2>3, <2>4
<1>3. K \in SUBSET Nat /\ k \in Nat
  OBVIOUS
<1> HIDE DEF K
<1>4. k \in K
  BY <1>1, <1>2, <1>3, AllNumbers
<1> QED
  BY <1>3, <1>4 DEF K

SameAfter(P, Q, k, n) == \A j \in (k + 1)..n : P[j] = Q[j]

SameRest(J, H, k, n, S) ==
  \E w \in Seq(S) : J[n] = J[k] \o w /\ H[n] = H[k] \o w

\* Pieces that agree after k join to the same after k.
LEMMA SameTail ==
  ASSUME NEW S, NEW n \in Nat, NEW P, NEW Q \in [0..n -> Seq(S)], NEW J, NEW H,
         IsJoin(J, P, n, S), IsJoin(H, Q, n, S),
         NEW k \in 0..n, SameAfter(P, Q, k, n)
  PROVE  SameRest(J, H, k, n, S)
<1> DEFINE Tails(m) == \E w \in Seq(S) : J[m] = J[k] \o w /\ H[m] = H[k] \o w
           K == {m \in Nat : k <= m /\ m <= n => Tails(m)}
<1>0. J[k] \in Seq(S) /\ H[k] \in Seq(S)
  BY DEF IsJoin
<1>1. Tails(k)
  <2>1. J[k] = J[k] \o <<>> /\ H[k] = H[k] \o <<>> /\ <<>> \in Seq(S)
    BY <1>0, ConcatEmptySeq
  <2> QED
    BY <2>1
<1>2. 0 \in K
  <2>1. k <= 0 => k = 0
    OBVIOUS
  <2> HIDE DEF Tails
  <2> QED
    BY <1>1, <2>1
<1>3. ASSUME NEW m \in K PROVE m + 1 \in K
  <2> SUFFICES ASSUME k <= m + 1, m + 1 <= n PROVE Tails(m + 1)
    <3> HIDE DEF Tails
    <3> QED
      OBVIOUS
  <2>1. CASE k = m + 1
    BY <1>1, <2>1
  <2>2. CASE k # m + 1
    <3>1. /\ k <= m /\ m <= n /\ m + 1 \in 1..n /\ m + 1 \in (k + 1)..n /\ m + 1 \in 0..n
          /\ (m + 1) - 1 = m
      BY <2>2
    <3>2. PICK w \in Seq(S) : J[m] = J[k] \o w /\ H[m] = H[k] \o w
      BY <3>1
    <3>3. J[m + 1] = J[m] \o P[m + 1] /\ H[m + 1] = H[m] \o Q[m + 1] /\ P[m + 1] = Q[m + 1]
      BY <3>1 DEF IsJoin, SameAfter
    <3> DEFINE q == Q[m + 1]
    <3>4. q \in Seq(S)
      BY <3>1
    <3> HIDE DEF q
    <3>5. w \o q \in Seq(S)
      BY <3>4, ConcatProperties
    <3>6. (J[k] \o w) \o q = J[k] \o (w \o q) /\ (H[k] \o w) \o q = H[k] \o (w \o q)
      <4>1. w \in Seq(S) /\ q \in Seq(S)
        BY <3>4
      <4>2. \A c \in Seq(S) : (c \o w) \o q = c \o (w \o q)
        <5> TAKE c \in Seq(S)
        <5> QED
          <6>1. Regrouped(c, w, q)
            BY <4>1, Regroup, Zenon
          <6> QED
            BY <6>1 DEF Regrouped
      <4> QED
        BY <1>0, <4>2
    <3>7. J[m + 1] = J[k] \o (w \o q) /\ H[m + 1] = H[k] \o (w \o q)
      BY <3>2, <3>3, <3>6 DEF q
    <3> QED
      BY <3>5, <3>7
  <2> QED
    BY <2>1, <2>2
<1>4. K \in SUBSET Nat /\ n \in Nat /\ k <= n
  OBVIOUS
<1>5. n \in K
  <2> HIDE DEF K
  <2> QED
    BY <1>2, <1>3, <1>4, AllNumbers
<1>6. Tails(n)
  <2> HIDE DEF Tails
  <2> QED
    BY <1>4, <1>5
<1> QED
  BY <1>6 DEF SameRest

EmptyFromTo(P, a, b) == \A j \in (a + 1)..b : P[j] = <<>>

\* Empty pieces add nothing.
LEMMA EmptyPieces ==
  ASSUME NEW S, NEW n \in Nat, NEW P, NEW J, IsJoin(J, P, n, S),
         NEW a \in 0..n, NEW b \in a..n, EmptyFromTo(P, a, b)
  PROVE  J[b] = J[a]
<1> DEFINE K == {j \in Nat : a <= j /\ j <= b => J[j] = J[a]}
<1>1. 0 \in K
  <2>1. a <= 0 => a = 0
    OBVIOUS
  <2> QED
    BY <2>1
<1>2. ASSUME NEW j \in K PROVE j + 1 \in K
  <2> SUFFICES ASSUME a <= j + 1, j + 1 <= b PROVE J[j + 1] = J[a]
    OBVIOUS
  <2>1. CASE a = j + 1
    BY <2>1
  <2>2. CASE a # j + 1
    <3>1. /\ a <= j /\ j <= b /\ j + 1 \in 1..n /\ j + 1 \in (a + 1)..b /\ (j + 1) - 1 = j
          /\ j \in 0..n
      BY <2>2
    <3>2. J[j] = J[a] /\ J[j] \in Seq(S)
      BY <3>1 DEF IsJoin
    <3>3. J[j + 1] = J[j] \o P[j + 1] /\ P[j + 1] = <<>>
      BY <3>1 DEF IsJoin, EmptyFromTo
    <3>4. J[j] \o <<>> = J[j]
      BY <3>2, ConcatEmptySeq
    <3> QED
      BY <3>2, <3>3, <3>4
  <2> QED
    BY <2>1, <2>2
<1>3. K \in SUBSET Nat /\ b \in Nat /\ a <= b
  OBVIOUS
<1> HIDE DEF K
<1>4. b \in K
  BY <1>1, <1>2, <1>3, AllNumbers
<1> QED
  BY <1>3, <1>4 DEF K

------------------------------------------------------------------------------
(* The file that a set of operations describes, in pieces.                 *)

\* An operation against a file of n lines; its content is of lines from S.
Edits(S, n) ==
  [kind : {"insert", "replace"}, first : 0..n, last : 0..n, content : Seq(S)]

Well(op) ==
  IF op.kind = "insert" THEN op.first = op.last ELSE 1 <= op.first /\ op.first <= op.last

\* What DetectConflicts leaves of two operations.
Apart(o, p) ==
  /\ o.kind = "insert" /\ p.kind = "insert" => o.last # p.last
  /\ o.kind = "replace" /\ p.kind = "replace" => o.last < p.first \/ p.last < o.first
  /\ o.kind = "insert" /\ p.kind = "replace" => o.last < p.first \/ p.last <= o.last

Sound(ops, S, n) ==
  /\ n \in Nat
  /\ IsFiniteSet(DOMAIN ops)
  /\ ops \in [DOMAIN ops -> Edits(S, n)]
  /\ \A i \in DOMAIN ops : Well(ops[i])
  /\ \A i, j \in DOMAIN ops : i # j => Apart(ops[i], ops[j])

AddedAt(ops, X, k) == {i \in X : ops[i].kind = "insert" /\ ops[i].last = k}
Over(ops, X, k) == {i \in X : ops[i].kind = "replace" /\ ops[i].first <= k /\ k <= ops[i].last}

Some(set) == CHOOSE i \in set : TRUE

Added(ops, X, k) ==
  IF AddedAt(ops, X, k) = {} THEN <<>> ELSE ops[Some(AddedAt(ops, X, k))].content

Stays(lines, ops, X, k) ==
  IF k = 0 THEN <<>>
  ELSE IF Over(ops, X, k) = {} THEN <<lines[k]>>
  ELSE LET i == Some(Over(ops, X, k))
       IN  IF ops[i].first = k THEN ops[i].content ELSE <<>>

\* What stands for line k and what goes after it, when the operations of X apply.
Pieces(lines, ops, X) ==
  [k \in 0..Len(lines) |-> Stays(lines, ops, X, k) \o Added(ops, X, k)]

LEMMA SoundFacts ==
  ASSUME NEW S, NEW n, NEW ops, Sound(ops, S, n), NEW i \in DOMAIN ops
  PROVE  /\ ops[i].kind \in {"insert", "replace"} /\ ops[i].content \in Seq(S)
         /\ ops[i].first \in 0..n /\ ops[i].last \in 0..n
         /\ ops[i].kind = "insert" => ops[i].first = ops[i].last
         /\ ops[i].kind = "replace" => 1 <= ops[i].first /\ ops[i].first <= ops[i].last
<1>1. ops[i] \in Edits(S, n) /\ Well(ops[i])
  BY DEF Sound
<1> QED
  BY <1>1 DEF Edits, Well

\* At most one operation adds lines at k, and at most one replaces line k.
LEMMA OneAdded ==
  ASSUME NEW S, NEW n, NEW ops, Sound(ops, S, n), NEW X \in SUBSET DOMAIN ops, NEW k,
         NEW i \in AddedAt(ops, X, k)
  PROVE  AddedAt(ops, X, k) = {i} /\ Added(ops, X, k) = ops[i].content
<1>1. ASSUME NEW j \in AddedAt(ops, X, k) PROVE j = i
  <2>1. i \in DOMAIN ops /\ j \in DOMAIN ops
    BY DEF AddedAt
  <2>2. /\ ops[i].kind = "insert" /\ ops[j].kind = "insert" /\ ops[i].last = k
        /\ ops[j].last = k
    BY DEF AddedAt
  <2>3. i # j => Apart(ops[i], ops[j])
    BY <2>1 DEF Sound
  <2> QED
    BY <2>2, <2>3 DEF Apart
<1>2. AddedAt(ops, X, k) = {i}
  BY <1>1
<1>3. Some(AddedAt(ops, X, k)) = i
  BY <1>2 DEF Some
<1> QED
  BY <1>2, <1>3 DEF Added

LEMMA OneOver ==
  ASSUME NEW S, NEW n, NEW ops, Sound(ops, S, n), NEW X \in SUBSET DOMAIN ops, NEW k \in Nat,
         NEW i \in Over(ops, X, k), NEW lines
  PROVE  /\ Over(ops, X, k) = {i}
         /\ Stays(lines, ops, X, k) = IF ops[i].first = k THEN ops[i].content ELSE <<>>
<1>1. ASSUME NEW j \in Over(ops, X, k) PROVE j = i
  <2>1. i \in DOMAIN ops /\ j \in DOMAIN ops
    BY DEF Over
  <2>2. /\ ops[i].kind = "replace" /\ ops[j].kind = "replace"
        /\ ops[i].first <= k /\ k <= ops[i].last /\ ops[j].first <= k /\ k <= ops[j].last
    BY DEF Over
  <2>3. /\ ops[i].first \in Int /\ ops[i].last \in Int /\ ops[j].first \in Int
        /\ ops[j].last \in Int
    BY <2>1, SoundFacts
  <2>4. i # j => Apart(ops[i], ops[j])
    BY <2>1 DEF Sound
  <2>5. i # j => ops[i].last < ops[j].first \/ ops[j].last < ops[i].first
    BY <2>2, <2>4 DEF Apart
  <2> QED
    BY <2>2, <2>3, <2>5
<1>2. Over(ops, X, k) = {i}
  BY <1>1
<1>3. Some(Over(ops, X, k)) = i
  BY <1>2 DEF Some
<1>4. k # 0
  <2>1. i \in DOMAIN ops /\ ops[i].kind = "replace" /\ ops[i].first <= k
    BY DEF Over
  <2>2. 1 <= ops[i].first /\ ops[i].first \in Int
    BY <2>1, SoundFacts
  <2> QED
    BY <2>1, <2>2
<1> QED
  BY <1>2, <1>3, <1>4 DEF Stays

LEMMA PieceTypes ==
  ASSUME NEW S, NEW lines \in Seq(S), NEW ops, Sound(ops, S, Len(lines)),
         NEW X \in SUBSET DOMAIN ops
  PROVE  /\ Pieces(lines, ops, X) \in [0..Len(lines) -> Seq(S)]
         /\ \A k \in 0..Len(lines) : /\ Stays(lines, ops, X, k) \in Seq(S)
                                     /\ Added(ops, X, k) \in Seq(S)
<1>1. ASSUME NEW k \in 0..Len(lines)
      PROVE  Stays(lines, ops, X, k) \in Seq(S) /\ Added(ops, X, k) \in Seq(S)
  <2>1. <<>> \in Seq(S)
    BY EmptySeq
  <2>2. Added(ops, X, k) \in Seq(S)
    <3>1. CASE AddedAt(ops, X, k) = {}
      BY <2>1, <3>1 DEF Added
    <3>2. CASE AddedAt(ops, X, k) # {}
      <4>1. PICK i \in AddedAt(ops, X, k) : TRUE
        BY <3>2
      <4>2. i \in DOMAIN ops
        BY DEF AddedAt
      <4> QED
        BY <4>2, OneAdded, SoundFacts
    <3> QED
      BY <3>1, <3>2
  <2>3. Stays(lines, ops, X, k) \in Seq(S)
    <3>1. CASE k = 0
      BY <2>1, <3>1 DEF Stays
    <3>2. CASE k # 0 /\ Over(ops, X, k) = {}
      <4>1. k \in 1..Len(lines)
        BY <3>2
      <4>2. lines[k] \in S
        BY <4>1, ElementOfSeq
      <4>3. <<lines[k]>> \in Seq(S)
        BY <4>2
      <4> QED
        BY <3>2, <4>3 DEF Stays
    <3>3. CASE k # 0 /\ Over(ops, X, k) # {}
      <4>1. PICK i \in Over(ops, X, k) : TRUE
        BY <3>3
      <4>2. i \in DOMAIN ops /\ k \in Nat
        BY DEF Over
      <4>3. Stays(lines, ops, X, k) = IF ops[i].first = k THEN ops[i].content ELSE <<>>
        BY <4>2, OneOver
      <4>4. ops[i].content \in Seq(S)
        BY <4>2, SoundFacts
      <4> QED
        BY <2>1, <4>3, <4>4
    <3> QED
      BY <3>1, <3>2, <3>3
  <2> QED
    BY <2>2, <2>3
<1>2. \A k \in 0..Len(lines) : Stays(lines, ops, X, k) \o Added(ops, X, k) \in Seq(S)
  <2> TAKE k \in 0..Len(lines)
  <2> DEFINE a == Stays(lines, ops, X, k)
             b == Added(ops, X, k)
  <2>1. a \in Seq(S) /\ b \in Seq(S)
    BY <1>1
  <2> HIDE DEF a, b
  <2>2. a \o b \in Seq(S)
    BY <2>1, ConcatProperties
  <2> QED
    BY <2>2 DEF a, b
<1> QED
  BY <1>1, <1>2 DEF Pieces

------------------------------------------------------------------------------
(* How long the file becomes.                                              *)

\* How many lines an operation has added by the end of line k.
Growth(op, k) ==
  IF k < op.first THEN 0
  ELSE IF op.kind = "insert" THEN Len(op.content)
  ELSE Len(op.content) - ((IF k < op.last THEN k ELSE op.last) - op.first + 1)

\* f and e differ by what goes after line k, and by what stands for line k.
AddsThere(f, e, ops, X, k) ==
  \A i \in X :
    e[i] = IF i \in AddedAt(ops, X, k) THEN f[i] + Len(ops[i].content) ELSE f[i]

StandsThere(f, e, ops, X, k) ==
  \A i \in X :
    e[i] = IF i \notin Over(ops, X, k) THEN f[i]
           ELSE IF ops[i].first = k THEN f[i] + (Len(ops[i].content) - 1)
           ELSE f[i] + (0 - 1)

LEMMA AddedLength ==
  ASSUME NEW S, NEW n, NEW ops, Sound(ops, S, n), NEW X \in SUBSET DOMAIN ops, NEW k,
         NEW f, NEW e, NEW g, NEW h, IsSum(g, f, X), IsSum(h, e, X),
         AddsThere(f, e, ops, X, k)
  PROVE  h[X] = g[X] + Len(Added(ops, X, k))
<1>0. g[X] \in Int /\ f \in [X -> Int]
  BY DEF IsSum
<1>1. CASE AddedAt(ops, X, k) = {}
  <2>1. Agree(f, e, X)
    BY <1>1 DEF AddsThere, Agree
  <2>2. h[X] = g[X]
    BY <1>0, <2>1, SumAgrees
  <2>3. Len(Added(ops, X, k)) = 0
    BY <1>1 DEF Added
  <2> QED
    BY <1>0, <2>2, <2>3
<1>2. CASE AddedAt(ops, X, k) # {}
  <2>1. PICK x \in AddedAt(ops, X, k) : TRUE
    BY <1>2
  <2>2. AddedAt(ops, X, k) = {x} /\ Added(ops, X, k) = ops[x].content
    BY OneAdded
  <2>3. x \in X /\ x \in DOMAIN ops
    BY DEF AddedAt
  <2>4. Len(ops[x].content) \in Int
    BY <2>3, SoundFacts, LenProperties
  <2>5. AgreeBut(f, e, X, x) /\ e[x] = f[x] + Len(ops[x].content) /\ f[x] \in Int
    BY <1>0, <2>2, <2>3 DEF AddsThere, AgreeBut
  <2>6. h[X] = g[X] + (e[x] - f[x])
    BY <1>0, <2>3, <2>5, SumOneApart
  <2> DEFINE l == Len(ops[x].content)
  <2> HIDE DEF l
  <2>7. l \in Int /\ e[x] = f[x] + l
    BY <2>4, <2>5 DEF l
  <2>8. h[X] = g[X] + l
    BY <1>0, <2>5, <2>6, <2>7
  <2> QED
    BY <2>2, <2>8 DEF l
<1> QED
  BY <1>1, <1>2

LEMMA StaysLength ==
  ASSUME NEW S, NEW lines \in Seq(S), NEW ops, Sound(ops, S, Len(lines)),
         NEW X \in SUBSET DOMAIN ops, NEW k \in 1..Len(lines),
         NEW f, NEW e, NEW g, NEW h, IsSum(g, f, X), IsSum(h, e, X),
         StandsThere(f, e, ops, X, k)
  PROVE  h[X] = g[X] + (Len(Stays(lines, ops, X, k)) - 1)
<1>0. g[X] \in Int /\ f \in [X -> Int] /\ k \in Nat /\ k # 0
  BY DEF IsSum
<1>1. CASE Over(ops, X, k) = {}
  <2>1. Agree(f, e, X)
    BY <1>1 DEF StandsThere, Agree
  <2>2. h[X] = g[X]
    BY <1>0, <2>1, SumAgrees
  <2>3. Stays(lines, ops, X, k) = <<lines[k]>>
    BY <1>0, <1>1 DEF Stays
  <2>4. Len(<<lines[k]>>) = 1
    OBVIOUS
  <2> QED
    BY <1>0, <2>2, <2>3, <2>4
<1>2. CASE Over(ops, X, k) # {}
  <2>1. PICK x \in Over(ops, X, k) : TRUE
    BY <1>2
  <2>2. /\ Over(ops, X, k) = {x}
        /\ Stays(lines, ops, X, k) = IF ops[x].first = k THEN ops[x].content ELSE <<>>
    <3>1. k \in Nat
      BY <1>0
    <3>2. Stays(lines, ops, X, k) = IF ops[x].first = k THEN ops[x].content ELSE <<>>
      BY <2>1, <3>1, OneOver
    <3>3. Over(ops, X, k) = {x}
      BY <2>1, <3>1, <3>2, OneOver
    <3> QED
      BY <3>2, <3>3
  <2>3. x \in X /\ x \in DOMAIN ops
    BY DEF Over
  <2>4. Len(ops[x].content) \in Int /\ Len(<<>>) = 0
    BY <2>3, SoundFacts, LenProperties
  <2> DEFINE l == Len(Stays(lines, ops, X, k))
  <2>5. /\ l = IF ops[x].first = k THEN Len(ops[x].content) ELSE 0
        /\ l \in Int
    BY <2>2, <2>4
  <2>6. e[x] = IF ops[x].first = k THEN f[x] + (Len(ops[x].content) - 1) ELSE f[x] + (0 - 1)
    BY <2>3 DEF StandsThere
  <2> HIDE DEF l
  <2>7. e[x] = f[x] + (l - 1)
    BY <2>5, <2>6
  <2>8. AgreeBut(f, e, X, x) /\ f[x] \in Int
    BY <1>0, <2>2, <2>3 DEF StandsThere, AgreeBut
  <2>9. h[X] = g[X] + (e[x] - f[x])
    BY <1>0, <2>3, <2>8, SumOneApart
  <2>10. h[X] = g[X] + (l - 1)
    BY <1>0, <2>5, <2>7, <2>8, <2>9
  <2> QED
    BY <2>10 DEF l
<1> QED
  BY <1>1, <1>2

\* From line k - 1 to line k an operation grows by what it puts there.
LEMMA GrowthAt ==
  ASSUME NEW S, NEW n, NEW ops, Sound(ops, S, n), NEW X \in SUBSET DOMAIN ops, NEW k \in 1..n,
         NEW i \in X
  PROVE  /\ Growth(ops[i], k) \in Int /\ Growth(ops[i], k - 1) \in Int
         /\ i \in AddedAt(ops, X, k) =>
              /\ i \notin Over(ops, X, k)
              /\ Growth(ops[i], k) = Growth(ops[i], k - 1) + Len(ops[i].content)
         /\ i \in Over(ops, X, k) =>
              /\ i \notin AddedAt(ops, X, k)
              /\ Growth(ops[i], k) = IF ops[i].first = k
                                     THEN Growth(ops[i], k - 1) + (Len(ops[i].content) - 1)
                                     ELSE Growth(ops[i], k - 1) + (0 - 1)
         /\ i \notin AddedAt(ops, X, k) /\ i \notin Over(ops, X, k) =>
              Growth(ops[i], k) = Growth(ops[i], k - 1)
<1> DEFINE a == ops[i].first
           b == ops[i].last
           l == Len(ops[i].content)
           t == ops[i].kind
<1>1. /\ t \in {"insert", "replace"} /\ a \in Int /\ b \in Int /\ l \in Int
      /\ t = "insert" => a = b
      /\ t = "replace" => a <= b
  <2>1. i \in DOMAIN ops
    OBVIOUS
  <2>2. /\ ops[i].kind \in {"insert", "replace"} /\ ops[i].content \in Seq(S)
        /\ ops[i].first \in 0..n /\ ops[i].last \in 0..n
        /\ ops[i].kind = "insert" => ops[i].first = ops[i].last
        /\ ops[i].kind = "replace" => 1 <= ops[i].first /\ ops[i].first <= ops[i].last
    BY <2>1, SoundFacts
  <2>3. l \in Int
    BY <2>2, LenProperties
  <2>4. n \in Nat
    BY DEF Sound
  <2> HIDE DEF l
  <2> QED
    BY <2>2, <2>3, <2>4
<1>2. /\ \A j \in Int : Growth(ops[i], j) =
           IF j < a THEN 0 ELSE IF t = "insert" THEN l ELSE l - ((IF j < b THEN j ELSE b) - a + 1)
      /\ i \in AddedAt(ops, X, k) <=> t = "insert" /\ b = k
      /\ i \in Over(ops, X, k) <=> t = "replace" /\ a <= k /\ k <= b
  BY DEF Growth, AddedAt, Over
<1>3. k \in Int /\ k - 1 \in Int
  OBVIOUS
<1> DEFINE p == Growth(ops[i], k)
           q == Growth(ops[i], k - 1)
<1>4. /\ p = IF k < a THEN 0 ELSE IF t = "insert" THEN l ELSE l - ((IF k < b THEN k ELSE b) - a + 1)
      /\ q = IF k - 1 < a THEN 0
             ELSE IF t = "insert" THEN l ELSE l - ((IF k - 1 < b THEN k - 1 ELSE b) - a + 1)
  BY <1>2, <1>3
<1> SUFFICES /\ p \in Int /\ q \in Int
             /\ t = "insert" /\ b = k => p = q + l
             /\ t = "replace" /\ a <= k /\ k <= b => p = IF a = k THEN q + (l - 1) ELSE q + (0 - 1)
             /\ ~(t = "insert" /\ b = k) /\ ~(t = "replace" /\ a <= k /\ k <= b) => p = q
  BY <1>2
<1> HIDE DEF a, b, l, t, p, q
<1> QED
  BY <1>1, <1>3, <1>4

GrowthTo(ops, X, k) == [i \in X |-> Growth(ops[i], k)]

LEMMA GrowthAtStart ==
  ASSUME NEW S, NEW n, NEW ops, Sound(ops, S, n), NEW X \in SUBSET DOMAIN ops
  PROVE  /\ GrowthTo(ops, X, 0) \in [X -> Int]
         /\ AddsThere([i \in X |-> 0], GrowthTo(ops, X, 0), ops, X, 0)
<1>0. n \in Nat
  BY DEF Sound
<1>1. ASSUME NEW i \in X
      PROVE  /\ Growth(ops[i], 0) = IF i \in AddedAt(ops, X, 0) THEN 0 + Len(ops[i].content) ELSE 0
             /\ Growth(ops[i], 0) \in Int
  <2> DEFINE l == Len(ops[i].content)
  <2>1. i \in DOMAIN ops
    OBVIOUS
  <2>2. /\ ops[i].kind \in {"insert", "replace"} /\ ops[i].content \in Seq(S)
        /\ ops[i].first \in 0..n /\ ops[i].last \in 0..n
        /\ ops[i].kind = "insert" => ops[i].first = ops[i].last
        /\ ops[i].kind = "replace" => 1 <= ops[i].first
    BY <2>1, SoundFacts
  <2>3. l \in Int
    BY <2>2, LenProperties
  <2>4. /\ Growth(ops[i], 0) = IF 0 < ops[i].first THEN 0
                               ELSE IF ops[i].kind = "insert" THEN l
                               ELSE l - ((IF 0 < ops[i].last THEN 0 ELSE ops[i].last) - ops[i].first + 1)
        /\ i \in AddedAt(ops, X, 0) <=> ops[i].kind = "insert" /\ ops[i].last = 0
    BY DEF Growth, AddedAt
  <2> HIDE DEF l
  <2>5. Growth(ops[i], 0) = IF i \in AddedAt(ops, X, 0) THEN 0 + l ELSE 0
    BY <1>0, <2>2, <2>3, <2>4
  <2> QED
    BY <2>3, <2>5 DEF l
<1>2. \A i \in X : Growth(ops[i], 0) \in Int
  BY <1>1
<1>3. AddsThere([i \in X |-> 0], GrowthTo(ops, X, 0), ops, X, 0)
  BY <1>1 DEF AddsThere, GrowthTo
<1> QED
  BY <1>2, <1>3 DEF GrowthTo

LEMMA GrowthFromLine ==
  ASSUME NEW S, NEW n, NEW ops, Sound(ops, S, n), NEW X \in SUBSET DOMAIN ops, NEW k \in 1..n
  PROVE  /\ GrowthTo(ops, X, k) \in [X -> Int] /\ GrowthTo(ops, X, k - 1) \in [X -> Int]
         /\ \E m \in [X -> Int] : /\ StandsThere(GrowthTo(ops, X, k - 1), m, ops, X, k)
                                  /\ AddsThere(m, GrowthTo(ops, X, k), ops, X, k)
<1> DEFINE f == GrowthTo(ops, X, k - 1)
           e == GrowthTo(ops, X, k)
           m == [i \in X |-> IF i \in Over(ops, X, k) THEN e[i] ELSE f[i]]
<1>1. ASSUME NEW i \in X
      PROVE  /\ e[i] \in Int /\ f[i] \in Int
             /\ m[i] = IF i \notin Over(ops, X, k) THEN f[i]
                       ELSE IF ops[i].first = k THEN f[i] + (Len(ops[i].content) - 1)
                       ELSE f[i] + (0 - 1)
             /\ e[i] = IF i \in AddedAt(ops, X, k) THEN m[i] + Len(ops[i].content) ELSE m[i]
             /\ m[i] \in Int
  <2>1. /\ f[i] = Growth(ops[i], k - 1) /\ e[i] = Growth(ops[i], k)
        /\ m[i] = IF i \in Over(ops, X, k) THEN e[i] ELSE f[i]
    BY DEF GrowthTo
  <2>2. /\ Growth(ops[i], k) \in Int /\ Growth(ops[i], k - 1) \in Int
        /\ i \in AddedAt(ops, X, k) =>
             /\ i \notin Over(ops, X, k)
             /\ Growth(ops[i], k) = Growth(ops[i], k - 1) + Len(ops[i].content)
        /\ i \in Over(ops, X, k) =>
             /\ i \notin AddedAt(ops, X, k)
             /\ Growth(ops[i], k) = IF ops[i].first = k
                                    THEN Growth(ops[i], k - 1) + (Len(ops[i].content) - 1)
                                    ELSE Growth(ops[i], k - 1) + (0 - 1)
        /\ i \notin AddedAt(ops, X, k) /\ i \notin Over(ops, X, k) =>
             Growth(ops[i], k) = Growth(ops[i], k - 1)
    BY GrowthAt
  <2> HIDE DEF f, e, m
  <2> QED
    BY <2>1, <2>2
<1>2. f \in [X -> Int] /\ e \in [X -> Int]
  <2>1. \A i \in X : e[i] \in Int /\ f[i] \in Int
    BY <1>1
  <2> QED
    BY <2>1 DEF GrowthTo
<1>3. m \in [X -> Int]
  <2>1. \A i \in X : e[i] \in Int /\ f[i] \in Int
    BY <1>1
  <2> HIDE DEF e, f
  <2> QED
    BY <2>1
<1> HIDE DEF f, e, m
<1>4. StandsThere(f, m, ops, X, k)
  BY <1>1 DEF StandsThere
<1>5. AddsThere(m, e, ops, X, k)
  BY <1>1 DEF AddsThere
<1>6. \E q \in [X -> Int] : StandsThere(f, q, ops, X, k) /\ AddsThere(q, e, ops, X, k)
  BY <1>3, <1>4, <1>5
<1> QED
  BY <1>2, <1>6 DEF e, f

LEMMA LengthAtStart ==
  ASSUME NEW S, NEW lines \in Seq(S), NEW ops, Sound(ops, S, Len(lines)),
         NEW X \in SUBSET DOMAIN ops, NEW h, IsSum(h, GrowthTo(ops, X, 0), X)
  PROVE  Len(Pieces(lines, ops, X)[0]) = 0 + h[X]
<1> DEFINE z == [i \in X |-> 0]
           y == [T \in SUBSET X |-> 0]
           a == Added(ops, X, 0)
<1>1. IsSum(y, z, X) /\ y[X] = 0
  <2>1. IsFiniteSet(X)
    BY DEF IsSum
  <2> QED
    BY <2>1 DEF IsSum
<1>2. AddsThere(z, GrowthTo(ops, X, 0), ops, X, 0)
  BY GrowthAtStart
<1> HIDE DEF z, y
<1>3. h[X] = y[X] + Len(a)
  BY <1>1, <1>2, AddedLength
<1>4. 0 \in 0..Len(lines)
  BY LenProperties
<1>5. Pieces(lines, ops, X)[0] = <<>> \o a
  BY <1>4 DEF Pieces, Stays
<1>6. a \in Seq(S)
  BY <1>4, PieceTypes
<1> HIDE DEF a
<1>7. <<>> \o a = a /\ Len(a) \in Nat
  BY <1>6, ConcatEmptySeq, LenProperties
<1> QED
  BY <1>1, <1>3, <1>5, <1>7

LEMMA LengthFromLine ==
  ASSUME NEW S, NEW lines \in Seq(S), NEW ops, Sound(ops, S, Len(lines)),
         NEW X \in SUBSET DOMAIN ops, NEW k \in 1..Len(lines),
         NEW u, IsSum(u, GrowthTo(ops, X, k - 1), X), NEW h, IsSum(h, GrowthTo(ops, X, k), X)
  PROVE  Len(Pieces(lines, ops, X)[k]) = (h[X] - u[X]) + 1
<1> DEFINE a == Stays(lines, ops, X, k)
           b == Added(ops, X, k)
<1>0. IsFiniteSet(X)
  BY FS_Subset DEF Sound
<1>1. GrowthTo(ops, X, k) \in [X -> Int] /\ GrowthTo(ops, X, k - 1) \in [X -> Int]
  BY GrowthFromLine
<1>2. PICK m \in [X -> Int] : /\ StandsThere(GrowthTo(ops, X, k - 1), m, ops, X, k)
                              /\ AddsThere(m, GrowthTo(ops, X, k), ops, X, k)
  BY GrowthFromLine
<1>3. PICK v : IsSum(v, m, X)
  BY <1>0, SumExists
<1>4. v[X] = u[X] + (Len(a) - 1)
  BY <1>1, <1>2, <1>3, StaysLength
<1>5. h[X] = v[X] + Len(b)
  BY <1>1, <1>2, <1>3, AddedLength
<1>6. Pieces(lines, ops, X)[k] = a \o b
  BY DEF Pieces
<1>7. k \in 0..Len(lines) /\ u[X] \in Int
  BY DEF IsSum
<1>8. a \in Seq(S) /\ b \in Seq(S)
  BY <1>7, PieceTypes
<1> HIDE DEF a, b
<1>9. Len(a \o b) = Len(a) + Len(b) /\ Len(a) \in Nat /\ Len(b) \in Nat
  BY <1>8, ConcatProperties, LenProperties
<1> DEFINE la == Len(a)
           lb == Len(b)
           u0 == u[X]
           v0 == v[X]
           h0 == h[X]
           lp == Len(Pieces(lines, ops, X)[k])
<1>10. lp = la + lb /\ la \in Int /\ lb \in Int /\ u0 \in Int /\ v0 = u0 + (la - 1) /\ h0 = v0 + lb
  BY <1>4, <1>5, <1>6, <1>7, <1>9 DEF a, b
<1> HIDE DEF la, lb, u0, v0, h0, lp
<1>11. lp = (h0 - u0) + 1
  BY <1>10
<1> QED
  BY <1>11 DEF lp, h0, u0

\* The file up to line k is k lines long and what the operations added by then.
LEMMA PrefixLength ==
  ASSUME NEW S, NEW lines \in Seq(S), NEW ops, Sound(ops, S, Len(lines)),
         NEW X \in SUBSET DOMAIN ops, NEW J, IsJoin(J, Pieces(lines, ops, X), Len(lines), S),
         NEW k \in 0..Len(lines), NEW g, IsSum(g, GrowthTo(ops, X, k), X)
  PROVE  Len(J[k]) = k + g[X]
<1> DEFINE n == Len(lines)
           P == Pieces(lines, ops, X)
           Right(j) == \A h : IsSum(h, GrowthTo(ops, X, j), X) => Len(J[j]) = j + h[X]
           K == {j \in Nat : j <= n => Right(j)}
<1>0. n \in Nat /\ IsFiniteSet(X) /\ P \in [0..n -> Seq(S)]
  BY FS_Subset, LenProperties, PieceTypes DEF Sound
<1>1. Right(0)
  <2> TAKE h
  <2> HAVE IsSum(h, GrowthTo(ops, X, 0), X)
  <2>1. J[0] = P[0]
    BY DEF IsJoin
  <2> HIDE DEF P
  <2>2. Len(P[0]) = 0 + h[X]
    BY LengthAtStart DEF P
  <2> QED
    BY <2>1, <2>2
<1>2. ASSUME NEW j \in Nat, j + 1 <= n, Right(j) PROVE Right(j + 1)
  <2> DEFINE q == j + 1
  <2>1. j \in Nat /\ j <= n /\ q \in 1..n /\ q - 1 = j /\ q \in 0..n /\ j \in 0..n
    BY <1>0, <1>2
  <2> HIDE DEF q
  <2> SUFFICES ASSUME NEW h, IsSum(h, GrowthTo(ops, X, q), X) PROVE Len(J[q]) = q + h[X]
    BY DEF q
  <2>2. GrowthTo(ops, X, j) \in [X -> Int]
    BY <2>1, GrowthFromLine
  <2>3. PICK u : IsSum(u, GrowthTo(ops, X, j), X)
    BY <1>0, <2>2, SumExists
  <2>4. Len(J[j]) = j + u[X]
    BY <1>2, <2>3
  <2>5. Len(P[q]) = (h[X] - u[X]) + 1
    BY <2>1, <2>3, LengthFromLine
  <2>6. J[q] = J[j] \o P[q] /\ J[j] \in Seq(S)
    BY <2>1 DEF IsJoin
  <2>7. P[q] \in Seq(S)
    <3> HIDE DEF P
    <3> QED
      BY <1>0, <2>1
  <2>8. u[X] \in Int /\ h[X] \in Int
    BY <2>3 DEF IsSum
  <2> DEFINE a == J[j]
             b == P[q]
  <2> HIDE DEF P, a, b
  <2>9. Len(a \o b) = Len(a) + Len(b) /\ Len(a) \in Nat /\ Len(b) \in Nat
    BY <2>6, <2>7, ConcatProperties, LenProperties DEF a, b
  <2>10. Len(J[q]) = Len(a \o b) /\ Len(a) = j + u[X] /\ Len(b) = (h[X] - u[X]) + 1
    BY <2>4, <2>5, <2>6 DEF a, b
  <2>11. q = j + 1
    BY DEF q
  <2> DEFINE h0 == h[X]
             u0 == u[X]
             la == Len(a)
             lb == Len(b)
             lq == Len(J[q])
  <2>12. /\ lq = la + lb /\ la = j + u0 /\ lb = (h0 - u0) + 1 /\ u0 \in Int /\ h0 \in Int
         /\ la \in Int /\ lb \in Int /\ j \in Int
    BY <2>1, <2>8, <2>9, <2>10
  <2> HIDE DEF h0, u0, la, lb, lq
  <2>13. lq = (j + 1) + h0
    BY <2>12
  <2> QED
    BY <2>11, <2>13 DEF h0, lq
<1>3. 0 \in K /\ \A j \in K : j + 1 \in K
  <2> HIDE DEF Right
  <2>1. 0 \in K
    BY <1>0, <1>1
  <2>2. ASSUME NEW j \in K PROVE j + 1 \in K
    <3>1. j + 1 <= n => j <= n
      BY <1>0
    <3> QED
      BY <1>2, <3>1
  <2> QED
    BY <2>1, <2>2
<1>4. K \in SUBSET Nat /\ k \in Nat /\ k <= n
  OBVIOUS
<1>5. k \in K
  <2> HIDE DEF K
  <2> QED
    BY <1>3, <1>4, AllNumbers
<1>6. Right(k)
  <2> HIDE DEF Right
  <2> QED
    BY <1>4, <1>5
<1> QED
  BY <1>6

------------------------------------------------------------------------------
(* Applying one more operation is one splice.                              *)

PlainUpTo(P, lines, k) == P[0] = <<>> /\ \A j \in 1..k : P[j] = <<lines[j]>>

LEMMA PlainHead ==
  ASSUME NEW S, NEW lines \in Seq(S), NEW P, NEW J, IsJoin(J, P, Len(lines), S),
         NEW k \in 0..Len(lines), PlainUpTo(P, lines, k)
  PROVE  J[k] = SubSeq(lines, 1, k)
<1> DEFINE n == Len(lines)
           K == {j \in Nat : j <= k => J[j] = SubSeq(lines, 1, j)}
<1>0. n \in Nat
  BY LenProperties
<1>1. 0 \in K
  <2>1. SubSeq(lines, 1, 0) = <<>>
    BY SubSeqEmpty
  <2>2. J[0] = <<>>
    BY DEF IsJoin, PlainUpTo
  <2> QED
    BY <2>1, <2>2
<1>2. ASSUME NEW j \in Nat, j + 1 <= k, J[j] = SubSeq(lines, 1, j)
      PROVE  J[j + 1] = SubSeq(lines, 1, j + 1)
  <2> DEFINE q == j + 1
  <2>1. q \in 1..n /\ q \in 1..k /\ q - 1 = j /\ q \in 1..Len(lines) /\ 1 \in 1..Len(lines)
    BY <1>0, <1>2
  <2> HIDE DEF q
  <2>2. SubSeq(lines, 1, q) = SubSeq(lines, 1, q - 1) \o <<lines[q]>>
    BY <2>1, SubSeqRecursiveSecond
  <2>3. J[q] = J[q - 1] \o P[q]
    BY <2>1 DEF IsJoin
  <2>4. P[q] = <<lines[q]>>
    BY <2>1 DEF PlainUpTo
  <2>5. J[q] = SubSeq(lines, 1, q)
    BY <1>2, <2>1, <2>2, <2>3, <2>4
  <2> QED
    BY <2>5 DEF q
<1>3. \A j \in K : j + 1 \in K
  <2> TAKE j \in K
  <2>1. j \in Nat /\ j + 1 \in Nat /\ (j + 1 <= k => j <= k)
    OBVIOUS
  <2> QED
    BY <1>2, <2>1
<1>4. K \in SUBSET Nat /\ k \in Nat /\ k <= k
  OBVIOUS
<1>5. k \in K
  <2> HIDE DEF K
  <2> QED
    BY <1>1, <1>3, <1>4, AllNumbers
<1> QED
  BY <1>4, <1>5

\* A piece that nothing is added to, and one whose line no operation replaces.
LEMMA BarePiece ==
  ASSUME NEW S, NEW lines \in Seq(S), NEW ops, Sound(ops, S, Len(lines)),
         NEW X \in SUBSET DOMAIN ops, NEW k \in 0..Len(lines), AddedAt(ops, X, k) = {}
  PROVE  /\ Pieces(lines, ops, X)[k] = Stays(lines, ops, X, k)
         /\ Added(ops, X, k) = <<>>
<1> DEFINE a == Stays(lines, ops, X, k)
<1>1. Added(ops, X, k) = <<>>
  BY DEF Added
<1>2. Pieces(lines, ops, X)[k] = a \o <<>>
  BY <1>1 DEF Pieces
<1>3. a \in Seq(S)
  BY PieceTypes
<1> HIDE DEF a
<1>4. a \o <<>> = a
  BY <1>3, ConcatEmptySeq
<1> QED
  BY <1>1, <1>2, <1>4 DEF a

OnlyReplaces(ops, X) == \A i \in X : ops[i].kind = "replace"
Lowest(ops, X, x) == \A j \in X \ {x} : ops[j].first > ops[x].first

\* The lowest replace of a set splices the file that the others describe.
LEMMA ReplaceStep ==
  ASSUME NEW S, NEW lines \in Seq(S), NEW ops, Sound(ops, S, Len(lines)),
         NEW X \in SUBSET DOMAIN ops, NEW x \in X,
         OnlyReplaces(ops, X), Lowest(ops, X, x),
         NEW J, IsJoin(J, Pieces(lines, ops, X \ {x}), Len(lines), S),
         NEW H, IsJoin(H, Pieces(lines, ops, X), Len(lines), S)
  PROVE  Splice(J[Len(lines)], ops[x].first, ops[x].last, ops[x].content) = H[Len(lines)]
<1> DEFINE n == Len(lines)
           Y == X \ {x}
           a == ops[x].first
           b == ops[x].last
           c == ops[x].content
           P == Pieces(lines, ops, Y)
           Q == Pieces(lines, ops, X)
<1>1. /\ n \in Nat /\ x \in DOMAIN ops /\ Y \in SUBSET DOMAIN ops
      /\ P \in [0..n -> Seq(S)] /\ Q \in [0..n -> Seq(S)]
  BY LenProperties, PieceTypes
<1>2. a \in 0..n /\ b \in 0..n /\ 1 <= a /\ a <= b /\ c \in Seq(S)
  <2>1. x \in DOMAIN ops /\ ops[x].kind = "replace"
    BY DEF OnlyReplaces
  <2> QED
    BY <2>1, SoundFacts
<1>3. ASSUME NEW j \in Y PROVE ops[j].first > b /\ ops[j].first \in Int
  <2>1. j \in DOMAIN ops /\ j # x /\ ops[j].kind = "replace" /\ ops[x].kind = "replace"
    BY DEF OnlyReplaces
  <2>2. Apart(ops[j], ops[x])
    BY <1>1, <2>1 DEF Sound
  <2>3. ops[j].last < a \/ b < ops[j].first
    BY <2>1, <2>2 DEF Apart
  <2>4. ops[j].first \in Int /\ ops[j].last \in Int /\ ops[j].first <= ops[j].last
    BY <2>1, SoundFacts
  <2>5. ops[j].first > a
    BY DEF Lowest
  <2> HIDE DEF a, b
  <2> QED
    BY <1>2, <2>3, <2>4, <2>5
<1>4. ASSUME NEW k \in 0..n
      PROVE  /\ Q[k] = Stays(lines, ops, X, k) /\ P[k] = Stays(lines, ops, Y, k)
             /\ k <= b => Over(ops, Y, k) = {}
             /\ Over(ops, X, k) = Over(ops, Y, k) \cup (IF a <= k /\ k <= b THEN {x} ELSE {})
  <2>1. AddedAt(ops, X, k) = {} /\ AddedAt(ops, Y, k) = {}
    BY DEF AddedAt, OnlyReplaces
  <2>2. Q[k] = Stays(lines, ops, X, k)
    BY <2>1, BarePiece
  <2>3. P[k] = Stays(lines, ops, Y, k)
    BY <1>1, <2>1, BarePiece
  <2>4. Over(ops, X, k) = Over(ops, Y, k) \cup (IF a <= k /\ k <= b THEN {x} ELSE {})
    BY DEF Over, OnlyReplaces
  <2>5. ASSUME k <= b, NEW j \in Over(ops, Y, k) PROVE FALSE
    <3>1. j \in Y /\ ops[j].first <= k
      BY DEF Over
    <3>2. ops[j].first > b /\ ops[j].first \in Int
      BY <1>3, <3>1
    <3> HIDE DEF b
    <3> QED
      BY <1>1, <1>2, <2>5, <3>1, <3>2
  <2> QED
    BY <2>2, <2>3, <2>4, <2>5
<1>5. ASSUME NEW k \in 0..n
      PROVE  /\ k = 0 => P[k] = <<>> /\ Q[k] = <<>>
             /\ k \in 1..b => P[k] = <<lines[k]>>
             /\ k \in 1..(a - 1) => Q[k] = <<lines[k]>>
             /\ k = a => Q[k] = c
             /\ k \in (a + 1)..b => Q[k] = <<>>
             /\ k \in (b + 1)..n => P[k] = Q[k]
  <2>1. k = 0 => P[k] = <<>> /\ Q[k] = <<>>
    BY <1>4 DEF Stays
  <2>2. k \in 1..b => P[k] = <<lines[k]>>
    <3> SUFFICES ASSUME k \in 1..b PROVE P[k] = <<lines[k]>>
      OBVIOUS
    <3>1. k # 0 /\ k <= b
      BY <1>2
    <3>2. Over(ops, Y, k) = {}
      BY <1>4, <3>1
    <3> QED
      BY <1>4, <3>1, <3>2 DEF Stays
  <2>3. k \in 1..(a - 1) => Q[k] = <<lines[k]>>
    <3> SUFFICES ASSUME k \in 1..(a - 1) PROVE Q[k] = <<lines[k]>>
      OBVIOUS
    <3>1. k # 0 /\ k <= b /\ ~(a <= k)
      BY <1>1, <1>2
    <3>2. Over(ops, X, k) = {}
      BY <1>4, <3>1
    <3> QED
      BY <1>4, <3>1, <3>2 DEF Stays
  <2>4. a <= k /\ k <= b => Q[k] = IF a = k THEN c ELSE <<>>
    <3> SUFFICES ASSUME a <= k, k <= b PROVE Q[k] = IF a = k THEN c ELSE <<>>
      OBVIOUS
    <3>1. x \in Over(ops, X, k) /\ k \in Nat
      BY <1>4
    <3>2. Stays(lines, ops, X, k) = IF a = k THEN c ELSE <<>>
      BY <3>1, OneOver
    <3> QED
      BY <1>4, <3>2
  <2>5. k \in (b + 1)..n => P[k] = Q[k]
    <3> SUFFICES ASSUME k \in (b + 1)..n PROVE P[k] = Q[k]
      OBVIOUS
    <3>1. ~(k <= b)
      BY <1>2
    <3>2. Over(ops, X, k) = Over(ops, Y, k)
      BY <1>4, <3>1
    <3>3. Stays(lines, ops, X, k) = Stays(lines, ops, Y, k)
      BY <3>2 DEF Stays
    <3> QED
      BY <1>4, <3>3
  <2> HIDE DEF P, Q, a, b, c
  <2>6. k = a => a <= k /\ k <= b
    BY <1>2
  <2>7. k \in (a + 1)..b => a <= k /\ k <= b /\ a # k
    BY <1>2
  <2> QED
    BY <2>1, <2>2, <2>3, <2>4, <2>5, <2>6, <2>7
<1> HIDE DEF P, Q, a, b, c, Y
<1>6. /\ IsJoin(J, P, n, S) /\ IsJoin(H, Q, n, S)
  BY DEF P, Q, Y
<1>7. 0 \in 0..n /\ b \in 0..n /\ a \in 1..n /\ a \in 0..n /\ a - 1 \in 0..n /\ b \in a..n
  BY <1>1, <1>2
<1>71. /\ \A k \in 1..b : k \in 0..n
       /\ \A k \in 1..(a - 1) : k \in 0..n
       /\ \A k \in (a + 1)..b : k \in 0..n
       /\ \A k \in (b + 1)..n : k \in 0..n
  BY <1>1, <1>2
<1>8. /\ Q[a] = c
      /\ PlainUpTo(P, lines, b)
      /\ PlainUpTo(Q, lines, a - 1)
      /\ EmptyFromTo(Q, a, b)
      /\ SameAfter(P, Q, b, n)
  BY <1>5, <1>7, <1>71 DEF SameAfter, PlainUpTo, EmptyFromTo
<1>9. J[b] = SubSeq(lines, 1, b)
  BY <1>6, <1>7, <1>8, PlainHead
<1>10. H[a - 1] = SubSeq(lines, 1, a - 1)
  BY <1>6, <1>7, <1>8, PlainHead
<1>11. H[a] = H[a - 1] \o c
  BY <1>6, <1>7, <1>8 DEF IsJoin
<1>12. H[b] = H[a]
  BY <1>1, <1>6, <1>7, <1>8, EmptyPieces
<1>13. PICK w \in Seq(S) : J[n] = J[b] \o w /\ H[n] = H[b] \o w
  <2>1. SameRest(J, H, b, n, S)
    BY <1>1, <1>6, <1>7, <1>8, SameTail
  <2> QED
    BY <2>1 DEF SameRest
<1> DEFINE u == SubSeq(lines, 1, a - 1)
           v == SubSeq(lines, a, b)
<1>14. /\ u \in Seq(S) /\ v \in Seq(S) /\ Len(u) + 1 = a /\ Len(u) + Len(v) = b
       /\ SubSeq(lines, 1, b) = u \o v
  <2>1. \A i \in 1..n : lines[i] \in S
    BY ElementOfSeq
  <2>2. a - 1 \in Int /\ a \in Int /\ b \in Int /\ 1 \in Int
    BY <1>2
  <2>3. (\A i \in 1..(a - 1) : lines[i] \in S) /\ \A i \in a..b : lines[i] \in S
    BY <1>1, <1>2, <2>1
  <2>4. u \in Seq(S) /\ Len(u) = IF 1 <= a - 1 THEN (a - 1) - 1 + 1 ELSE 0
    BY <2>2, <2>3, SubSeqProperties
  <2>5. v \in Seq(S) /\ Len(v) = IF a <= b THEN b - a + 1 ELSE 0
    BY <2>2, <2>3, SubSeqProperties
  <2> DEFINE z == a - 1
  <2>6. z + 1 = a /\ 1 \in 1..(n + 1) /\ z \in (1 - 1)..n /\ b \in z..n
    BY <1>1, <1>2
  <2> HIDE DEF z
  <2>7. SubSeq(lines, 1, z) \o SubSeq(lines, z + 1, b) = SubSeq(lines, 1, b)
    BY <2>6, ConcatAdjacentSubSeq
  <2>8. SubSeq(lines, 1, b) = u \o v
    BY <2>6, <2>7 DEF z
  <2> DEFINE lu == Len(u)
             lv == Len(v)
  <2>9. /\ lu = IF 1 <= a - 1 THEN (a - 1) - 1 + 1 ELSE 0
        /\ lv = IF a <= b THEN b - a + 1 ELSE 0
        /\ a \in Int /\ b \in Int /\ 1 <= a /\ a <= b
    BY <1>2, <2>4, <2>5
  <2> HIDE DEF lu, lv
  <2>10. lu + 1 = a /\ lu + lv = b
    BY <2>9
  <2> QED
    BY <2>4, <2>5, <2>8, <2>10 DEF lu, lv
<1> HIDE DEF u, v
<1>15. J[n] = u \o (v \o w)
  <2>1. J[n] = (u \o v) \o w
    BY <1>9, <1>13, <1>14
  <2>2. (u \o v) \o w = u \o (v \o w)
    <3>1. Regrouped(u, v, w)
      BY <1>13, <1>14, Regroup, Zenon
    <3> QED
      BY <3>1 DEF Regrouped
  <2> QED
    BY <2>1, <2>2
<1>16. H[n] = (u \o c) \o w
  BY <1>10, <1>11, <1>12, <1>13 DEF u
<1> HIDE DEF n
<1>17. Splice(u \o (v \o w), a, b, c) = Three(u, c, w)
  <2>1. u \in Seq(S) /\ v \in Seq(S) /\ w \in Seq(S) /\ c \in Seq(S)
    BY <1>2, <1>13, <1>14
  <2> QED
    BY <1>14, <2>1, SpliceOfParts
<1>18. Splice(J[n], a, b, c) = H[n]
  BY <1>14, <1>15, <1>16, <1>17 DEF Three
<1> QED
  BY <1>18 DEF a, b, c, n

\* An insert splices the file that the other operations describe, after all
\* that stands for the lines up to its anchor.
LEMMA InsertStep ==
  ASSUME NEW S, NEW lines \in Seq(S), NEW ops, Sound(ops, S, Len(lines)),
         NEW Y \in SUBSET DOMAIN ops, NEW x \in DOMAIN ops, x \notin Y, ops[x].kind = "insert",
         NEW J, IsJoin(J, Pieces(lines, ops, Y), Len(lines), S),
         NEW H, IsJoin(H, Pieces(lines, ops, Y \cup {x}), Len(lines), S),
         NEW at, at = Len(J[ops[x].last])
  PROVE  /\ Splice(J[Len(lines)], at + 1, at, ops[x].content) = H[Len(lines)]
         /\ at \in 0..Len(J[Len(lines)])
<1> DEFINE n == Len(lines)
           X == Y \cup {x}
           a == ops[x].last
           c == ops[x].content
           P == Pieces(lines, ops, Y)
           Q == Pieces(lines, ops, X)
           s == Stays(lines, ops, Y, a)
<1>1. /\ n \in Nat /\ X \in SUBSET DOMAIN ops
      /\ P \in [0..n -> Seq(S)] /\ Q \in [0..n -> Seq(S)]
  BY LenProperties, PieceTypes
<1>2. a \in 0..n /\ c \in Seq(S)
  BY SoundFacts
<1>3. s \in Seq(S)
  BY <1>2, PieceTypes
<1>4. ASSUME NEW k \in 0..n
      PROVE  /\ Stays(lines, ops, X, k) = Stays(lines, ops, Y, k)
             /\ k # a => P[k] = Q[k]
  <2>1. Over(ops, X, k) = Over(ops, Y, k)
    BY DEF Over
  <2>2. Stays(lines, ops, X, k) = Stays(lines, ops, Y, k)
    BY <2>1 DEF Stays
  <2>3. k # a => AddedAt(ops, X, k) = AddedAt(ops, Y, k)
    BY DEF AddedAt
  <2>4. k # a => Added(ops, X, k) = Added(ops, Y, k)
    BY <2>3 DEF Added
  <2> QED
    BY <2>2, <2>4 DEF Pieces
<1>5. x \in AddedAt(ops, X, a)
  BY DEF AddedAt
<1>6. AddedAt(ops, X, a) = {x} /\ Added(ops, X, a) = c
  BY <1>1, <1>5, OneAdded
<1>7. AddedAt(ops, Y, a) = {}
  <2>1. \A i \in AddedAt(ops, Y, a) : i \in AddedAt(ops, X, a) /\ i # x
    BY DEF AddedAt
  <2> QED
    BY <1>6, <2>1
<1>8. P[a] = s
  BY <1>2, <1>7, BarePiece
<1>9. Q[a] = s \o c
  BY <1>2, <1>4, <1>6 DEF Pieces
<1>10. IsJoin(J, P, n, S) /\ IsJoin(H, Q, n, S)
  OBVIOUS
<1>11. SameAfter(P, Q, a, n) /\ SameUpTo(P, Q, a - 1)
  <2>1. /\ \A k \in (a + 1)..n : k \in 0..n /\ k # a
        /\ \A k \in 0..(a - 1) : k \in 0..n /\ k # a
    BY <1>1, <1>2
  <2> QED
    BY <1>4, <2>1 DEF SameAfter, SameUpTo
<1>12. at = Len(J[a])
  OBVIOUS
<1> HIDE DEF n, X, a, c, P, Q, s
<1>13. J[a] \in Seq(S) /\ H[a] = J[a] \o c
  <2>1. CASE a = 0
    BY <1>3, <1>8, <1>9, <1>10, <2>1 DEF IsJoin
  <2>2. CASE a # 0
    <3> DEFINE z == a - 1
    <3>1. a \in 1..n /\ z \in 0..n /\ a - 1 = z
      BY <1>1, <1>2, <2>2
    <3>2. SameUpTo(P, Q, z)
      BY <1>11
    <3> HIDE DEF z
    <3>3. J[z] = H[z]
      BY <1>1, <1>10, <3>1, <3>2, SameHead
    <3>4. J[a] = J[z] \o s /\ H[a] = H[z] \o (s \o c) /\ J[z] \in Seq(S)
      BY <1>8, <1>9, <1>10, <3>1 DEF IsJoin
    <3>5. J[a] \in Seq(S)
      BY <1>2, <1>10 DEF IsJoin
    <3> DEFINE y == J[z]
    <3>6. y \in Seq(S)
      BY <3>4
    <3> HIDE DEF y
    <3>7. (y \o s) \o c = y \o (s \o c)
      <4>1. Regrouped(y, s, c)
        BY <1>2, <1>3, <3>6, Regroup, Zenon
      <4> QED
        BY <4>1 DEF Regrouped
    <3> QED
      BY <3>3, <3>4, <3>5, <3>7 DEF y
  <2> QED
    BY <2>1, <2>2
<1>14. PICK w \in Seq(S) : J[n] = J[a] \o w /\ H[n] = H[a] \o w
  <2>1. /\ n \in Nat /\ Q \in [0..n -> Seq(S)] /\ a \in 0..n
        /\ IsJoin(J, P, n, S) /\ IsJoin(H, Q, n, S) /\ SameAfter(P, Q, a, n)
    BY <1>1, <1>2, <1>10, <1>11
  <2>2. SameRest(J, H, a, n, S)
    BY <2>1, SameTail
  <2> QED
    BY <2>2 DEF SameRest
<1> DEFINE u == J[a]
<1>15. u \in Seq(S) /\ at = Len(u) /\ J[n] = u \o w /\ H[n] = (u \o c) \o w
  BY <1>12, <1>13, <1>14
<1> HIDE DEF u
<1>16. /\ <<>> \o w = w /\ <<>> \in Seq(S) /\ Len(<<>>) = 0 /\ Len(u) \in Nat /\ Len(w) \in Nat
       /\ Len(u \o w) = Len(u) + Len(w)
  BY <1>14, <1>15, ConcatEmptySeq, EmptySeq, LenProperties, ConcatProperties
<1>17. Splice(u \o (<<>> \o w), at + 1, at, c) = Three(u, c, w)
  <2> DEFINE first == at + 1
             v == <<>>
  <2>1. first = Len(u) + 1 /\ at = Len(u) + Len(v) /\ v \in Seq(S)
    BY <1>15, <1>16
  <2> HIDE DEF first, v
  <2>2. Splice(u \o (v \o w), first, at, c) = Three(u, c, w)
    BY <1>2, <1>14, <1>15, <2>1, SpliceOfParts
  <2> QED
    BY <2>2 DEF first, v
<1>18. Splice(J[n], at + 1, at, c) = H[n]
  BY <1>15, <1>16, <1>17 DEF Three
<1>19. at \in 0..Len(J[n])
  BY <1>15, <1>16
<1> QED
  BY <1>18, <1>19 DEF n, c

------------------------------------------------------------------------------
(* The folds of the model.                                                 *)

\* A set of numbers that is not empty has a least one.
LEMMA LeastNumber ==
  ASSUME NEW Z \in SUBSET Nat, Z # {}
  PROVE  \E m \in Z : \A z \in Z : m <= z
<1> DEFINE R == {p \in Nat \X Nat : p[1] < p[2]}
<1>1. IsWellFoundedOn(R, Nat)
  BY NatLessThanWellFounded DEF OpToRel
<1>2. PICK m \in Z : \A z \in Z : ~(<<z, m>> \in R)
  <2> HIDE DEF R
  <2> QED
    BY <1>1, WFMin
<1>3. \A z \in Z : m <= z
  <2> TAKE z \in Z
  <2>1. z \in Nat /\ m \in Nat /\ ~(<<z, m>> \in R)
    BY <1>2
  <2>2. ~(z < m)
    BY <2>1
  <2> QED
    BY <2>1, <2>2
<1> QED
  BY <1>3

OnlyInserts(ops, X) == \A i \in X : ops[i].kind = "insert"

\* Operations of one kind have a lowest one, which LastByStart finds.
LEMMA LowestFound ==
  ASSUME NEW S, NEW n, NEW ops, Sound(ops, S, n), NEW X \in SUBSET DOMAIN ops, X # {},
         OnlyReplaces(ops, X) \/ OnlyInserts(ops, X)
  PROVE  LastByStart(ops, X) \in X /\ Lowest(ops, X, LastByStart(ops, X))
<1> DEFINE F(i) == ops[i].first
<1>1. \A i \in X : F(i) \in Nat /\ F(i) \in Int
  <2> TAKE i \in X
  <2>1. n \in Nat /\ i \in DOMAIN ops
    BY DEF Sound
  <2> QED
    BY <2>1, SoundFacts
<1>2. \A i, j \in X : i # j => F(i) # F(j)
  <2> SUFFICES ASSUME NEW i \in X, NEW j \in X, i # j PROVE F(i) # F(j)
    OBVIOUS
  <2>1. i \in DOMAIN ops /\ j \in DOMAIN ops
    OBVIOUS
  <2>2. Apart(ops[i], ops[j])
    BY <2>1 DEF Sound
  <2>3. /\ F(i) \in Int /\ F(j) \in Int /\ ops[i].last \in Int /\ ops[j].last \in Int
        /\ ops[i].kind = "insert" => ops[i].first = ops[i].last
        /\ ops[j].kind = "insert" => ops[j].first = ops[j].last
        /\ ops[i].kind = "replace" => ops[i].first <= ops[i].last
        /\ ops[j].kind = "replace" => ops[j].first <= ops[j].last
    BY <1>1, <2>1, SoundFacts
  <2>4. CASE OnlyReplaces(ops, X)
    <3>1. ops[i].kind = "replace" /\ ops[j].kind = "replace"
      BY <2>4 DEF OnlyReplaces
    <3>2. ops[i].last < ops[j].first \/ ops[j].last < ops[i].first
      BY <2>2, <3>1 DEF Apart
    <3> QED
      BY <2>3, <3>1, <3>2
  <2>5. CASE OnlyInserts(ops, X)
    <3>1. ops[i].kind = "insert" /\ ops[j].kind = "insert"
      BY <2>5 DEF OnlyInserts
    <3>2. ops[i].last # ops[j].last
      BY <2>2, <3>1 DEF Apart
    <3> QED
      BY <2>3, <3>1, <3>2
  <2> QED
    BY <2>4, <2>5
<1> DEFINE Z == {F(i) : i \in X}
<1>3. PICK m \in Z : \A z \in Z : m <= z
  <2>1. Z \in SUBSET Nat /\ Z # {}
    BY <1>1
  <2> HIDE DEF Z
  <2> QED
    BY <2>1, LeastNumber
<1>4. PICK x \in X : m = F(x)
  OBVIOUS
<1>5. \A j \in X \ {x} : F(j) > F(x)
  <2> TAKE j \in X \ {x}
  <2>1. F(j) \in Z /\ j \in X /\ j # x
    OBVIOUS
  <2>2. m <= F(j)
    BY <1>3, <2>1
  <2> HIDE DEF F
  <2> QED
    BY <1>1, <1>2, <1>4, <2>1, <2>2
<1> DEFINE Last1(i) == \A j \in X \ {i} : F(j) > F(i) \/ (F(j) = F(i) /\ j < i)
<1>6. Last1(x)
  BY <1>5
<1>7. LastByStart(ops, X) = CHOOSE i \in X : Last1(i)
  BY DEF LastByStart
<1> DEFINE y == LastByStart(ops, X)
<1>8. y \in X /\ Last1(y)
  <2> HIDE DEF Last1
  <2> QED
    BY <1>6, <1>7
<1>9. \A j \in X \ {y} : F(j) > F(y)
  <2> TAKE j \in X \ {y}
  <2>1. F(j) > F(y) \/ F(j) = F(y)
    BY <1>8
  <2>2. F(j) # F(y)
    BY <1>2, <1>8
  <2> QED
    BY <2>1, <2>2
<1> QED
  BY <1>8, <1>9 DEF Lowest

\* The file of a set of operations.
FileOf(lines, ops, X, S) ==
  (CHOOSE J : IsJoin(J, Pieces(lines, ops, X), Len(lines), S))[Len(lines)]

LEMMA FileJoins ==
  ASSUME NEW S, NEW lines \in Seq(S), NEW ops, Sound(ops, S, Len(lines)),
         NEW X \in SUBSET DOMAIN ops
  PROVE  \E J : /\ IsJoin(J, Pieces(lines, ops, X), Len(lines), S)
                /\ J[Len(lines)] = FileOf(lines, ops, X, S)
<1> DEFINE J == CHOOSE J : IsJoin(J, Pieces(lines, ops, X), Len(lines), S)
<1>1. \E H : IsJoin(H, Pieces(lines, ops, X), Len(lines), S)
  BY LenProperties, PieceTypes, JoinExists
<1>2. IsJoin(J, Pieces(lines, ops, X), Len(lines), S)
  BY <1>1
<1>3. J[Len(lines)] = FileOf(lines, ops, X, S)
  BY DEF FileOf
<1> HIDE DEF J
<1> QED
  BY <1>2, <1>3

\* Whichever join is taken.
LEMMA FileIsJoin ==
  ASSUME NEW S, NEW lines \in Seq(S), NEW ops, Sound(ops, S, Len(lines)),
         NEW X \in SUBSET DOMAIN ops, NEW J, IsJoin(J, Pieces(lines, ops, X), Len(lines), S)
  PROVE  FileOf(lines, ops, X, S) = J[Len(lines)]
<1> DEFINE P == Pieces(lines, ops, X)
           n == Len(lines)
<1>1. PICK H : IsJoin(H, P, n, S) /\ H[n] = FileOf(lines, ops, X, S)
  BY FileJoins
<1>2. n \in Nat /\ n \in 0..n /\ SameUpTo(P, P, n)
  BY LenProperties DEF SameUpTo
<1> HIDE DEF P
<1>3. IsJoin(J, P, n, S)
  BY DEF P
<1> HIDE DEF n
<1>4. J[n] = H[n]
  BY <1>1, <1>2, <1>3, SameHead
<1> QED
  BY <1>1, <1>4 DEF n

LEMMA FileOfNone ==
  ASSUME NEW S, NEW lines \in Seq(S), NEW ops, Sound(ops, S, Len(lines))
  PROVE  FileOf(lines, ops, {}, S) = lines
<1> DEFINE P == Pieces(lines, ops, {})
           n == Len(lines)
<1>0. {} \in SUBSET DOMAIN ops /\ n \in Nat /\ n \in 0..n
  BY LenProperties
<1>1. PICK J : IsJoin(J, P, n, S) /\ J[n] = FileOf(lines, ops, {}, S)
  BY <1>0, FileJoins
<1>2. ASSUME NEW k \in 0..n
      PROVE  P[k] = IF k = 0 THEN <<>> ELSE <<lines[k]>>
  <2>1. AddedAt(ops, {}, k) = {} /\ Over(ops, {}, k) = {}
    BY DEF AddedAt, Over
  <2>2. P[k] = Stays(lines, ops, {}, k)
    BY <1>0, <2>1, BarePiece
  <2> QED
    BY <2>1, <2>2 DEF Stays
<1>3. PlainUpTo(P, lines, n)
  <2>1. 0 \in 0..n /\ \A k \in 1..n : k \in 0..n /\ k # 0
    BY <1>0
  <2> QED
    BY <1>2, <2>1 DEF PlainUpTo
<1> HIDE DEF P
<1>4. J[n] = SubSeq(lines, 1, n)
  BY <1>0, <1>1, <1>3, PlainHead
<1>5. SubSeq(lines, 1, n) = lines
  BY SubSeqFull
<1> QED
  BY <1>1, <1>4, <1>5

LEMMA ZeroSum ==
  ASSUME NEW D, NEW f, NEW g, IsSum(g, f, D), NEW S \in SUBSET D, \A i \in S : f[i] = 0
  PROVE  g[S] = 0
<1> DEFINE z == [i \in D |-> 0]
           y == [T \in SUBSET D |-> 0]
<1>1. IsSum(y, z, D) /\ y[S] = 0
  <2>1. IsFiniteSet(D)
    BY DEF IsSum
  <2> QED
    BY <2>1 DEF IsSum
<1>2. Agree(f, z, S)
  BY DEF Agree
<1> HIDE DEF z, y
<1>3. g[S] = y[S]
  BY <1>1, <1>2, SumAgrees
<1> QED
  BY <1>1, <1>3

\* The sum of Adjusted, taken in any order.
DeltaFold(ops, S) ==
  CHOOSE h : h = [s \in SUBSET S |->
    IF s = {} THEN 0 ELSE LET x == CHOOSE x \in s : TRUE IN Delta(ops[x]) + h[s \ {x}]]

LEMMA AdjustedFolds ==
  \A ops, anchor :
    LET S == {i \in DOMAIN ops : ops[i].kind = "replace" /\ anchor >= ops[i].last}
    IN  Adjusted(ops, anchor) = anchor + DeltaFold(ops, S)[S]
  BY DEF Adjusted, MapThenSumSet, MapThenFoldSet, DeltaFold

LEMMA DeltaFoldIsSum ==
  ASSUME NEW ops, NEW S, NEW f, f = [i \in S |-> Delta(ops[i])], NEW g, IsSum(g, f, S)
  PROVE  DeltaFold(ops, S)[S] = g[S]
<1> DEFINE Step(h) == [s \in SUBSET S |->
             IF s = {} THEN 0 ELSE LET x == CHOOSE x \in s : TRUE IN Delta(ops[x]) + h[s \ {x}]]
           h == DeltaFold(ops, S)
<1>1. \A s \in SUBSET S : s # {} =>
        /\ (CHOOSE x \in s : TRUE) \in s
        /\ f[CHOOSE x \in s : TRUE] = Delta(ops[CHOOSE x \in s : TRUE])
  OBVIOUS
<1>2. /\ g \in [SUBSET S -> Int] /\ g[{}] = 0
      /\ \A T \in SUBSET S : \A i \in T : g[T] = f[i] + g[T \ {i}]
  BY DEF IsSum
<1>3. g = Step(g)
  <2>1. ASSUME NEW s \in SUBSET S PROVE g[s] = Step(g)[s]
    <3>1. CASE s = {}
      BY <1>2, <3>1
    <3>2. CASE s # {}
      <4> DEFINE x == CHOOSE x \in s : TRUE
      <4>1. x \in s /\ f[x] = Delta(ops[x])
        BY <1>1, <3>2
      <4>2. Step(g)[s] = Delta(ops[x]) + g[s \ {x}]
        BY <3>2
      <4> HIDE DEF x
      <4> QED
        BY <1>2, <4>1, <4>2
    <3> QED
      BY <3>1, <3>2
  <2>2. Step(g) = [s \in SUBSET S |-> Step(g)[s]] /\ g = [s \in SUBSET S |-> g[s]]
    BY <1>2
  <2> HIDE DEF Step
  <2> QED
    BY <2>1, <2>2
<1>4. h = CHOOSE k : k = Step(k)
  BY DEF DeltaFold
<1>5. h = Step(h)
  <2> HIDE DEF Step, h
  <2> QED
    BY <1>3, <1>4
<1>6. h[{}] = 0
  <2>1. Step(h)[{}] = 0
    OBVIOUS
  <2> HIDE DEF Step, h
  <2> QED
    BY <1>5, <2>1
<1>7. \A T \in SUBSET S : T # {} => \E i \in T : h[T] = f[i] + h[T \ {i}]
  <2> SUFFICES ASSUME NEW T \in SUBSET S, T # {} PROVE \E i \in T : h[T] = f[i] + h[T \ {i}]
    OBVIOUS
  <2> DEFINE x == CHOOSE x \in T : TRUE
  <2>1. x \in T /\ f[x] = Delta(ops[x])
    BY <1>1
  <2>2. Step(h)[T] = Delta(ops[x]) + h[T \ {x}]
    OBVIOUS
  <2> HIDE DEF Step, h, x
  <2> QED
    BY <1>5, <2>1, <2>2
<1> HIDE DEF h
<1>8. S \in SUBSET S /\ AddsUp(h, f, S)
  BY <1>6, <1>7 DEF AddsUp
<1>9. h[S] = g[S]
  BY <1>8, FoldIsSum
<1> QED
  BY <1>9 DEF h

\* Operations that agree in everything but what they are made of.
SameShape(tops, ops) ==
  /\ DOMAIN tops = DOMAIN ops
  /\ \A i \in DOMAIN ops : /\ tops[i].kind = ops[i].kind
                           /\ tops[i].first = ops[i].first
                           /\ tops[i].last = ops[i].last
                           /\ Delta(tops[i]) = Delta(ops[i])

LEMMA GrowthTypes ==
  ASSUME NEW S, NEW n, NEW ops, Sound(ops, S, n), NEW X \in SUBSET DOMAIN ops, NEW k \in 0..n
  PROVE  GrowthTo(ops, X, k) \in [X -> Int] /\ IsFiniteSet(X)
<1>1. IsFiniteSet(X) /\ n \in Nat
  BY FS_Subset DEF Sound
<1>2. CASE k = 0
  BY <1>1, <1>2, GrowthAtStart
<1>3. CASE k # 0
  <2>1. k \in 1..n
    BY <1>1, <1>3
  <2> QED
    BY <1>1, <2>1, GrowthFromLine
<1> QED
  BY <1>2, <1>3

\* All the replaces, and of the inserts only some that are below x.
Awaits(ops, Y, x) ==
  /\ \A i \in DOMAIN ops : ops[i].kind = "replace" => i \in Y
  /\ \A i \in Y : ops[i].kind = "insert" => ops[i].last > ops[x].last

LEMMA GrowthAboveAnchor ==
  ASSUME NEW S, NEW n, NEW ops, Sound(ops, S, n), NEW Y \in SUBSET DOMAIN ops,
         NEW x \in DOMAIN ops, ops[x].kind = "insert", Awaits(ops, Y, x), NEW i \in Y
  PROVE  Growth(ops[i], ops[x].last) =
           IF ops[i].kind = "replace" /\ ops[x].last >= ops[i].last THEN Delta(ops[i]) ELSE 0
<1> DEFINE a == ops[x].last
           l == Len(ops[i].content)
           p == ops[i].first
           q == ops[i].last
           t == ops[i].kind
<1>1. /\ a \in Int /\ p \in Int /\ q \in Int /\ l \in Int /\ t \in {"insert", "replace"}
      /\ t = "insert" => p = q
      /\ t = "replace" => p <= q
  <2>1. i \in DOMAIN ops /\ n \in Nat
    BY DEF Sound
  <2>2. /\ t \in {"insert", "replace"} /\ ops[i].content \in Seq(S) /\ p \in 0..n /\ q \in 0..n
        /\ t = "insert" => p = q
        /\ t = "replace" => p <= q
    BY <2>1, SoundFacts
  <2>3. a \in 0..n
    BY SoundFacts
  <2>4. l \in Int
    BY <2>2, LenProperties
  <2> HIDE DEF a, l, p, q, t
  <2> QED
    BY <2>1, <2>2, <2>3, <2>4
<1>2. t = "insert" => q > a
  BY DEF Awaits
<1>3. t = "replace" => a < p \/ q <= a
  <2> SUFFICES ASSUME t = "replace" PROVE a < p \/ q <= a
    OBVIOUS
  <2>1. i \in DOMAIN ops /\ x # i
    OBVIOUS
  <2>2. Apart(ops[x], ops[i])
    BY <2>1 DEF Sound
  <2> QED
    BY <2>2 DEF Apart
<1>4. Growth(ops[i], a) = IF a < p THEN 0
                          ELSE IF t = "insert" THEN l ELSE l - ((IF a < q THEN a ELSE q) - p + 1)
  BY DEF Growth
<1>5. Delta(ops[i]) = l - (IF t = "insert" THEN 0 ELSE q - p + 1)
  BY DEF Delta, OldCount
<1> DEFINE g == Growth(ops[i], a)
           d == Delta(ops[i])
<1> HIDE DEF a, l, p, q, t, g, d
<1>6. g = IF t = "replace" /\ a >= q THEN d ELSE 0
  BY <1>1, <1>2, <1>3, <1>4, <1>5 DEF g, d
<1> QED
  BY <1>6 DEF g, d, t, a, q

\* An insert goes where the lines up to its anchor end.
LEMMA AdjustedIsLength ==
  ASSUME NEW S, NEW lines \in Seq(S), NEW ops, Sound(ops, S, Len(lines)),
         NEW tops, SameShape(tops, ops),
         NEW Y \in SUBSET DOMAIN ops, NEW x \in DOMAIN ops, ops[x].kind = "insert",
         Awaits(ops, Y, x), NEW J, IsJoin(J, Pieces(lines, ops, Y), Len(lines), S)
  PROVE  Adjusted(tops, ops[x].last) = Len(J[ops[x].last])
<1> DEFINE n == Len(lines)
           a == ops[x].last
           R == {i \in DOMAIN tops : tops[i].kind = "replace" /\ a >= tops[i].last}
           f == GrowthTo(ops, Y, a)
           e == [i \in R |-> Delta(tops[i])]
<1>1. a \in 0..n /\ f \in [Y -> Int] /\ IsFiniteSet(Y)
  BY SoundFacts, GrowthTypes
<1>2. PICK g : IsSum(g, f, Y)
  <2> HIDE DEF f
  <2> QED
    BY <1>1, SumExists
<1>3. Len(J[a]) = a + g[Y]
  BY <1>1, <1>2, PrefixLength
<1>4. ASSUME NEW i \in Y
      PROVE  /\ i \in R <=> ops[i].kind = "replace" /\ a >= ops[i].last
             /\ f[i] = IF i \in R THEN Delta(tops[i]) ELSE 0
  <2>1. i \in R <=> ops[i].kind = "replace" /\ a >= ops[i].last
    BY DEF SameShape
  <2>2. f[i] = IF ops[i].kind = "replace" /\ a >= ops[i].last THEN Delta(ops[i]) ELSE 0
    BY GrowthAboveAnchor DEF GrowthTo
  <2>3. Delta(ops[i]) = Delta(tops[i])
    BY DEF SameShape
  <2> QED
    BY <2>1, <2>2, <2>3
<1>5. R \in SUBSET Y
  BY DEF SameShape, Awaits
<1>6. IsFiniteSet(R)
  BY <1>1, <1>5, FS_Subset
<1>7. e \in [R -> Int]
  <2>1. ASSUME NEW i \in R PROVE Delta(tops[i]) \in Int
    <3>1. i \in Y
      BY <1>5
    <3> HIDE DEF f, R
    <3>2. f[i] = Delta(tops[i]) /\ f[i] \in Int
      BY <1>1, <1>4, <3>1
    <3> QED
      BY <3>2
  <2> HIDE DEF R
  <2> QED
    BY <2>1
<1> HIDE DEF f, R
<1>8. PICK h : IsSum(h, e, R)
  <2> HIDE DEF e
  <2> QED
    BY <1>6, <1>7, SumExists
<1>9. DeltaFold(tops, R)[R] = h[R]
  BY <1>8, DeltaFoldIsSum
<1>10. Agree(f, e, R)
  BY <1>4, <1>5 DEF Agree
<1> HIDE DEF e
<1>11. g[R] = h[R]
  BY <1>2, <1>5, <1>8, <1>10, SumAgrees
<1> DEFINE Z == Y \ R
<1>12. g[Z] = 0
  <2>1. Z \in SUBSET Y /\ \A i \in Z : f[i] = 0
    BY <1>4
  <2> HIDE DEF Z
  <2> QED
    BY <1>2, <2>1, ZeroSum
<1>13. g[Y] = g[R]
  <2>1. Z \in SUBSET Y /\ R \cap Z = {} /\ R \cup Z = Y
    BY <1>5
  <2> HIDE DEF Z
  <2>2. g[R \cup Z] = g[R] + g[Z]
    BY <1>2, <1>5, <2>1, SumUnion
  <2>3. g[R] \in Int
    BY <1>2, <1>5 DEF IsSum
  <2> DEFINE W == R \cup Z
  <2>4. W = Y /\ g[W] = g[R] + g[Z]
    BY <2>1, <2>2
  <2> HIDE DEF W
  <2> QED
    BY <1>12, <2>3, <2>4
<1>14. Adjusted(tops, a) = a + DeltaFold(tops, R)[R]
  BY AdjustedFolds DEF R
<1> QED
  BY <1>3, <1>9, <1>11, <1>13, <1>14

EditFold(lines, ops, S, ending) ==
  CHOOSE h : h = [s \in SUBSET S |->
    IF s = {} THEN lines
    ELSE LET x == LastByStart(ops, s)
         IN  Splice(h[s \ {x}], ops[x].first, ops[x].last, NewLines(ops[x].content, ending))]

InsertFold(lines, ops, S, ending) ==
  CHOOSE h : h = [s \in SUBSET S |->
    IF s = {} THEN lines
    ELSE LET x == LastByStart(ops, s)
             at == Min({Max({Adjusted(ops, ops[x].last), 0}), Len(h[s \ {x}])})
         IN  Splice(h[s \ {x}], at + 1, at, NewLines(ops[x].content, ending))]

Replaces(ops) == {i \in DOMAIN ops : ops[i].kind = "replace"}

LEMMA ApplyFolds ==
  \A lines, ops :
     LET R == Replaces(ops)
         ending == DominantEnding(lines)
         replaced == EditFold(lines, ops, R, ending)[R]
         edited == InsertFold(replaced, ops, DOMAIN ops \ R, ending)[DOMAIN ops \ R]
     IN  ApplyBatchOperations(lines, ops)
           = PreserveTrailingNewline(edited, ending, EndsWithNewline(lines))
  BY DEF ApplyBatchOperations, InDescendingOrder, MapThenFoldSet, EditFold, InsertFold, Replaces

\* The operations with the lines they write.
LineOps(ops, ending) ==
  [i \in DOMAIN ops |-> [kind |-> ops[i].kind, first |-> ops[i].first, last |-> ops[i].last,
                         content |-> NewLines(ops[i].content, ending)]]

LineOf == [text : Texts, ending : {LF, CRLF, NoEnding}]

LEMMA NewLinesType ==
  ASSUME NEW c \in Seq(Texts), NEW ending \in {LF, CRLF}
  PROVE  NewLines(c, ending) \in Seq(LineOf) /\ Len(NewLines(c, ending)) = Len(c)
<1> DEFINE s == NewLines(c, ending)
<1>1. Len(c) \in Nat /\ DOMAIN c = 1..Len(c) /\ \A i \in 1..Len(c) : c[i] \in Texts
  BY LenProperties, ElementOfSeq
<1>2. \A i \in 1..Len(c) : [text |-> c[i], ending |-> ending] \in LineOf
  BY <1>1 DEF LineOf
<1>3. s = [i \in 1..Len(c) |-> [text |-> c[i], ending |-> ending]]
  BY <1>1 DEF NewLines
<1>4. s \in [1..Len(c) -> LineOf]
  BY <1>2, <1>3
<1> HIDE DEF s
<1>5. s \in Seq(LineOf) /\ Len(s) = Len(c)
  BY <1>1, <1>4
<1> QED
  BY <1>5 DEF s

LEMMA LineOpsSound ==
  ASSUME NEW n, NEW ops, Sound(ops, Texts, n), NEW ending \in {LF, CRLF}
  PROVE  /\ Sound(LineOps(ops, ending), LineOf, n)
         /\ SameShape(ops, LineOps(ops, ending))
<1> DEFINE new == LineOps(ops, ending)
<1>1. DOMAIN new = DOMAIN ops /\ n \in Nat /\ IsFiniteSet(DOMAIN ops)
  BY DEF LineOps, Sound
<1>2. ASSUME NEW i \in DOMAIN ops
      PROVE  /\ new[i] \in Edits(LineOf, n) /\ Well(new[i])
             /\ new[i].kind = ops[i].kind /\ new[i].first = ops[i].first
             /\ new[i].last = ops[i].last /\ Delta(new[i]) = Delta(ops[i])
  <2>1. /\ ops[i].kind \in {"insert", "replace"} /\ ops[i].content \in Seq(Texts)
        /\ ops[i].first \in 0..n /\ ops[i].last \in 0..n
        /\ ops[i].kind = "insert" => ops[i].first = ops[i].last
        /\ ops[i].kind = "replace" => 1 <= ops[i].first /\ ops[i].first <= ops[i].last
    BY SoundFacts
  <2>2. /\ NewLines(ops[i].content, ending) \in Seq(LineOf)
        /\ Len(NewLines(ops[i].content, ending)) = Len(ops[i].content)
    BY <2>1, NewLinesType
  <2>3. new[i] = [kind |-> ops[i].kind, first |-> ops[i].first, last |-> ops[i].last,
                  content |-> NewLines(ops[i].content, ending)]
    BY DEF LineOps
  <2> HIDE DEF new
  <2>4. /\ new[i].kind = ops[i].kind /\ new[i].first = ops[i].first
        /\ new[i].last = ops[i].last /\ new[i].content = NewLines(ops[i].content, ending)
    BY <2>3
  <2>5. new[i] \in Edits(LineOf, n)
    BY <2>1, <2>2, <2>3 DEF Edits
  <2>6. Well(new[i])
    BY <2>1, <2>4 DEF Well
  <2>7. Delta(new[i]) = Delta(ops[i])
    BY <2>2, <2>4 DEF Delta, OldCount
  <2> QED
    BY <2>4, <2>5, <2>6, <2>7
<1>3. new \in [DOMAIN new -> Edits(LineOf, n)]
  <2>1. new = [i \in DOMAIN new |-> new[i]]
    BY DEF LineOps
  <2> HIDE DEF new
  <2> QED
    BY <1>1, <1>2, <2>1
<1> HIDE DEF new
<1>4. ASSUME NEW i \in DOMAIN new, NEW j \in DOMAIN new, i # j PROVE Apart(new[i], new[j])
  <2>1. i \in DOMAIN ops /\ j \in DOMAIN ops
    BY <1>1
  <2>2. Apart(ops[i], ops[j])
    BY <1>4, <2>1 DEF Sound
  <2>3. /\ new[i].kind = ops[i].kind /\ new[i].first = ops[i].first /\ new[i].last = ops[i].last
        /\ new[j].kind = ops[j].kind /\ new[j].first = ops[j].first /\ new[j].last = ops[j].last
    BY <1>2, <2>1
  <2> QED
    BY <2>2, <2>3 DEF Apart
<1>5. SameShape(ops, new)
  BY <1>1, <1>2 DEF SameShape
<1>6. Sound(new, LineOf, n)
  <2>1. \A i \in DOMAIN new : Well(new[i])
    BY <1>1, <1>2
  <2> QED
    BY <1>1, <1>3, <1>4, <2>1 DEF Sound
<1> QED
  BY <1>5, <1>6 DEF new

\* One round of the replaces, and one of the inserts.
LEMMA EditRound ==
  ASSUME NEW lines \in Seq(LineOf), NEW ops, Sound(ops, Texts, Len(lines)),
         NEW ending \in {LF, CRLF}, NEW T \in SUBSET DOMAIN ops, T # {}, OnlyReplaces(ops, T),
         NEW x, x = LastByStart(ops, T)
  PROVE  /\ x \in T
         /\ Splice(FileOf(lines, LineOps(ops, ending), T \ {x}, LineOf),
                   ops[x].first, ops[x].last, NewLines(ops[x].content, ending))
              = FileOf(lines, LineOps(ops, ending), T, LineOf)
<1> DEFINE lops == LineOps(ops, ending)
           n == Len(lines)
<1>1. Sound(lops, LineOf, n) /\ SameShape(ops, lops) /\ DOMAIN lops = DOMAIN ops
  BY LineOpsSound DEF SameShape
<1>2. x \in T /\ Lowest(ops, T, x)
  BY LowestFound
<1>3. /\ lops[x].first = ops[x].first /\ lops[x].last = ops[x].last
      /\ lops[x].content = NewLines(ops[x].content, ending)
  BY <1>2 DEF LineOps
<1> HIDE DEF lops
<1>4. T \in SUBSET DOMAIN lops /\ OnlyReplaces(lops, T) /\ Lowest(lops, T, x)
  BY <1>1, <1>2 DEF SameShape, OnlyReplaces, Lowest
<1>5. T \ {x} \in SUBSET DOMAIN lops
  BY <1>4
<1>6. PICK J : IsJoin(J, Pieces(lines, lops, T \ {x}), n, LineOf)
               /\ J[n] = FileOf(lines, lops, T \ {x}, LineOf)
  BY <1>1, <1>5, FileJoins
<1>7. PICK H : IsJoin(H, Pieces(lines, lops, T), n, LineOf) /\ H[n] = FileOf(lines, lops, T, LineOf)
  BY <1>1, <1>4, FileJoins
<1>8. Splice(J[n], lops[x].first, lops[x].last, lops[x].content) = H[n]
  BY <1>1, <1>2, <1>4, <1>6, <1>7, ReplaceStep
<1> QED
  BY <1>2, <1>3, <1>6, <1>7, <1>8 DEF lops

LEMMA Clamp ==
  ASSUME NEW m \in Nat, NEW a \in 0..m
  PROVE  Min({Max({a, 0}), m}) = a
<1>1. Max({a, 0}) = a
  BY DEF Max
<1>2. Min({a, m}) = a
  BY DEF Min
<1> QED
  BY <1>1, <1>2

\* Where the lines of an insert go, and the file with them.
Position(ops, x, file) == Min({Max({Adjusted(ops, ops[x].last), 0}), Len(file)})
AddTo(file, at, new) == Splice(file, at + 1, at, new)

LEMMA InsertRound ==
  ASSUME NEW lines \in Seq(LineOf), NEW ops, Sound(ops, Texts, Len(lines)),
         NEW ending \in {LF, CRLF}, NEW T \in SUBSET DOMAIN ops, T # {}, OnlyInserts(ops, T),
         NEW x, x = LastByStart(ops, T),
         NEW file, file = FileOf(lines, LineOps(ops, ending), Replaces(ops) \cup (T \ {x}), LineOf)
  PROVE  /\ x \in T
         /\ AddTo(file, Position(ops, x, file), NewLines(ops[x].content, ending))
              = FileOf(lines, LineOps(ops, ending), Replaces(ops) \cup T, LineOf)
<1> DEFINE lops == LineOps(ops, ending)
           n == Len(lines)
           Y == Replaces(ops) \cup (T \ {x})
           Z == Replaces(ops) \cup T
<1>1. Sound(lops, LineOf, n) /\ SameShape(ops, lops) /\ DOMAIN lops = DOMAIN ops
  BY LineOpsSound DEF SameShape
<1>2. x \in T /\ Lowest(ops, T, x)
  BY LowestFound
<1>3. lops[x].last = ops[x].last /\ lops[x].content = NewLines(ops[x].content, ending)
  BY <1>2 DEF LineOps
<1>4. /\ x \in DOMAIN ops /\ ops[x].kind = "insert"
      /\ Y \in SUBSET DOMAIN ops /\ Z \in SUBSET DOMAIN ops /\ Z = Y \cup {x} /\ x \notin Y
  BY <1>2 DEF OnlyInserts, Replaces
<1>5. Awaits(ops, Y, x)
  <2>1. \A i \in DOMAIN ops : ops[i].kind = "replace" => i \in Y
    BY DEF Replaces
  <2>2. ASSUME NEW i \in Y, ops[i].kind = "insert" PROVE ops[i].last > ops[x].last
    <3>1. i \in T \ {x} /\ i \in DOMAIN ops
      BY <2>2 DEF Replaces
    <3>2. ops[i].first > ops[x].first
      BY <1>2, <3>1 DEF Lowest
    <3>3. ops[i].first = ops[i].last /\ ops[x].first = ops[x].last
      BY <1>4, <2>2, <3>1, SoundFacts
    <3> QED
      BY <3>2, <3>3
  <2> HIDE DEF Y
  <2> QED
    BY <2>1, <2>2 DEF Awaits
<1> HIDE DEF lops, Y, Z
<1>6. Awaits(lops, Y, x) /\ Y \in SUBSET DOMAIN lops /\ Z \in SUBSET DOMAIN lops /\ x \in DOMAIN lops
      /\ lops[x].kind = "insert"
  BY <1>1, <1>4, <1>5 DEF Awaits, SameShape
<1>7. PICK J : IsJoin(J, Pieces(lines, lops, Y), n, LineOf) /\ J[n] = FileOf(lines, lops, Y, LineOf)
  BY <1>1, <1>6, FileJoins
<1>8. PICK H : IsJoin(H, Pieces(lines, lops, Z), n, LineOf) /\ H[n] = FileOf(lines, lops, Z, LineOf)
  BY <1>1, <1>6, FileJoins
<1> DEFINE a == Len(J[lops[x].last])
<1>9. Adjusted(ops, lops[x].last) = a
  BY <1>1, <1>6, <1>7, AdjustedIsLength
<1>10. IsJoin(H, Pieces(lines, lops, Y \cup {x}), n, LineOf)
  BY <1>4, <1>8
<1>11. a = Len(J[lops[x].last])
  OBVIOUS
<1> HIDE DEF a
<1>12. Splice(J[n], a + 1, a, lops[x].content) = H[n] /\ a \in 0..Len(J[n])
  BY <1>1, <1>4, <1>6, <1>7, <1>10, <1>11, InsertStep
<1>13. J[n] \in Seq(LineOf) /\ Len(J[n]) \in Nat
  <2>1. n \in 0..n
    BY LenProperties
  <2> QED
    BY <1>7, <2>1, LenProperties DEF IsJoin
<1>14. file = J[n]
  BY <1>7 DEF Y, lops
<1>15. Position(ops, x, file) = a
  BY <1>3, <1>9, <1>12, <1>13, <1>14, Clamp DEF Position
<1> QED
  BY <1>2, <1>3, <1>8, <1>12, <1>14, <1>15 DEF lops, Z, AddTo

\* All the replaces, and then all the inserts.
LEMMA EditFoldIsFile ==
  ASSUME NEW lines \in Seq(LineOf), NEW ops, Sound(ops, Texts, Len(lines)),
         NEW ending \in {LF, CRLF}, NEW S \in SUBSET DOMAIN ops, OnlyReplaces(ops, S)
  PROVE  EditFold(lines, ops, S, ending)[S] = FileOf(lines, LineOps(ops, ending), S, LineOf)
<1> DEFINE Round(h, s) ==
             LET x == LastByStart(ops, s)
             IN  Splice(h[s \ {x}], ops[x].first, ops[x].last, NewLines(ops[x].content, ending))
           Step(h) == [s \in SUBSET S |-> IF s = {} THEN lines ELSE Round(h, s)]
           g == [s \in SUBSET S |-> FileOf(lines, LineOps(ops, ending), s, LineOf)]
           h == EditFold(lines, ops, S, ending)
<1>1. IsFiniteSet(S)
  BY FS_Subset DEF Sound
<1>2. g[{}] = lines
  <2>1. FileOf(lines, LineOps(ops, ending), {}, LineOf) = lines
    BY LineOpsSound, FileOfNone
  <2> QED
    BY <2>1
<1>3. ASSUME NEW s \in SUBSET S, s # {}
      PROVE  LastByStart(ops, s) \in s /\ Round(g, s) = g[s]
  <2>1. s \in SUBSET DOMAIN ops /\ OnlyReplaces(ops, s)
    BY DEF OnlyReplaces
  <2> DEFINE x == LastByStart(ops, s)
  <2>2. /\ x \in s
        /\ Splice(FileOf(lines, LineOps(ops, ending), s \ {x}, LineOf),
                  ops[x].first, ops[x].last, NewLines(ops[x].content, ending))
             = FileOf(lines, LineOps(ops, ending), s, LineOf)
    BY <1>3, <2>1, EditRound
  <2> HIDE DEF x
  <2>3. g[s \ {x}] = FileOf(lines, LineOps(ops, ending), s \ {x}, LineOf)
    OBVIOUS
  <2>4. g[s] = FileOf(lines, LineOps(ops, ending), s, LineOf)
    OBVIOUS
  <2> HIDE DEF g
  <2>5. Splice(g[s \ {x}], ops[x].first, ops[x].last, NewLines(ops[x].content, ending)) = g[s]
    BY <2>2, <2>3, <2>4
  <2> QED
    BY <2>2, <2>5 DEF x
<1>4. g = Step(g)
  <2> DEFINE F(s) == FileOf(lines, LineOps(ops, ending), s, LineOf)
  <2>1. \A s \in SUBSET S : g[s] = IF s = {} THEN lines ELSE Round(g, s)
    <3> HIDE DEF Round, g
    <3> QED
      BY <1>2, <1>3
  <2>2. g = [s \in SUBSET S |-> g[s]]
    OBVIOUS
  <2> HIDE DEF Round, g
  <2> QED
    BY <2>1, <2>2
<1>5. h = CHOOSE k : k = Step(k)
  BY DEF EditFold
<1>6. h = Step(h)
  <2> HIDE DEF Step, h
  <2> QED
    BY <1>4, <1>5
<1>7. ASSUME NEW s \in SUBSET S, s # {}, h[s \ {LastByStart(ops, s)}] = g[s \ {LastByStart(ops, s)}]
      PROVE  Round(h, s) = Round(g, s)
  <2> HIDE DEF h, g
  <2> QED
    BY <1>7
<1> DEFINE K == {s \in SUBSET S : h[s] = g[s]}
<1> HIDE DEF g, Round, h
<1>8. ASSUME NEW T \in SUBSET S, \A x \in T : T \ {x} \in K PROVE T \in K
  <2>1. Step(h)[T] = IF T = {} THEN lines ELSE Round(h, T)
    OBVIOUS
  <2> HIDE DEF Step
  <2>2. h[T] = IF T = {} THEN lines ELSE Round(h, T)
    BY <1>6, <2>1
  <2>3. CASE T = {}
    BY <1>2, <2>2, <2>3
  <2>4. CASE T # {}
    <3>1. LastByStart(ops, T) \in T
      BY <1>3, <2>4
    <3>2. h[T \ {LastByStart(ops, T)}] = g[T \ {LastByStart(ops, T)}]
      BY <1>8, <3>1
    <3>3. Round(h, T) = Round(g, T)
      BY <1>7, <2>4, <3>2
    <3>4. h[T] = g[T]
      BY <1>3, <2>2, <2>4, <3>3
    <3> QED
      BY <3>4
  <2> QED
    BY <2>3, <2>4
<1> HIDE DEF K
<1>9. \A T \in SUBSET S : T \in K
  BY <1>1, <1>8, SubsetInduction
<1>10. h[S] = g[S]
  BY <1>9 DEF K
<1> QED
  BY <1>10 DEF g, h

LEMMA InsertFoldIsFile ==
  ASSUME NEW lines \in Seq(LineOf), NEW ops, Sound(ops, Texts, Len(lines)),
         NEW ending \in {LF, CRLF}, NEW S \in SUBSET DOMAIN ops, OnlyInserts(ops, S),
         NEW base, base = FileOf(lines, LineOps(ops, ending), Replaces(ops), LineOf)
  PROVE  InsertFold(base, ops, S, ending)[S]
           = FileOf(lines, LineOps(ops, ending), Replaces(ops) \cup S, LineOf)
<1> DEFINE Round(h, s) ==
             LET x == LastByStart(ops, s)
                 at == Min({Max({Adjusted(ops, ops[x].last), 0}), Len(h[s \ {x}])})
             IN  Splice(h[s \ {x}], at + 1, at, NewLines(ops[x].content, ending))
           Step(h) == [s \in SUBSET S |-> IF s = {} THEN base ELSE Round(h, s)]
           g == [s \in SUBSET S |-> FileOf(lines, LineOps(ops, ending), Replaces(ops) \cup s, LineOf)]
           h == InsertFold(base, ops, S, ending)
<1>1. IsFiniteSet(S)
  BY FS_Subset DEF Sound
<1>2. g[{}] = base
  <2>1. Replaces(ops) \cup {} = Replaces(ops)
    OBVIOUS
  <2> QED
    BY <2>1
<1>3. ASSUME NEW s \in SUBSET S, s # {}
      PROVE  LastByStart(ops, s) \in s /\ Round(g, s) = g[s]
  <2>1. s \in SUBSET DOMAIN ops /\ OnlyInserts(ops, s)
    BY DEF OnlyInserts
  <2> DEFINE x == LastByStart(ops, s)
             file == FileOf(lines, LineOps(ops, ending), Replaces(ops) \cup (s \ {x}), LineOf)
  <2>2. /\ x \in s
        /\ AddTo(file, Position(ops, x, file), NewLines(ops[x].content, ending))
             = FileOf(lines, LineOps(ops, ending), Replaces(ops) \cup s, LineOf)
    <3>1. x = LastByStart(ops, s)
      OBVIOUS
    <3>2. file = FileOf(lines, LineOps(ops, ending), Replaces(ops) \cup (s \ {x}), LineOf)
      OBVIOUS
    <3> HIDE DEF x, file
    <3> QED
      BY <1>3, <2>1, <3>1, <3>2, InsertRound
  <2> HIDE DEF x
  <2>3. g[s \ {x}] = file
    OBVIOUS
  <2>4. g[s] = FileOf(lines, LineOps(ops, ending), Replaces(ops) \cup s, LineOf)
    OBVIOUS
  <2> HIDE DEF g, file
  <2>5. Round(g, s) = AddTo(file, Position(ops, x, file), NewLines(ops[x].content, ending))
    BY <2>3 DEF x, AddTo, Position
  <2> QED
    BY <2>2, <2>4, <2>5 DEF x
<1>4. g = Step(g)
  <2>1. \A s \in SUBSET S : g[s] = IF s = {} THEN base ELSE Round(g, s)
    <3> HIDE DEF Round, g
    <3> QED
      BY <1>2, <1>3
  <2>2. g = [s \in SUBSET S |-> g[s]]
    OBVIOUS
  <2> HIDE DEF Round, g
  <2> QED
    BY <2>1, <2>2
<1>5. h = CHOOSE k : k = Step(k)
  BY DEF InsertFold
<1>6. h = Step(h)
  <2> HIDE DEF Step, h
  <2> QED
    BY <1>4, <1>5
<1>7. ASSUME NEW s \in SUBSET S, s # {}, h[s \ {LastByStart(ops, s)}] = g[s \ {LastByStart(ops, s)}]
      PROVE  Round(h, s) = Round(g, s)
  <2> HIDE DEF h, g
  <2> QED
    BY <1>7
<1> DEFINE K == {s \in SUBSET S : h[s] = g[s]}
<1> HIDE DEF g, Round, h
<1>8. ASSUME NEW T \in SUBSET S, \A x \in T : T \ {x} \in K PROVE T \in K
  <2>1. Step(h)[T] = IF T = {} THEN base ELSE Round(h, T)
    OBVIOUS
  <2> HIDE DEF Step
  <2>2. h[T] = IF T = {} THEN base ELSE Round(h, T)
    BY <1>6, <2>1
  <2>3. CASE T = {}
    BY <1>2, <2>2, <2>3
  <2>4. CASE T # {}
    <3>1. LastByStart(ops, T) \in T
      BY <1>3, <2>4
    <3>2. h[T \ {LastByStart(ops, T)}] = g[T \ {LastByStart(ops, T)}]
      BY <1>8, <3>1
    <3>3. Round(h, T) = Round(g, T)
      BY <1>7, <2>4, <3>2
    <3>4. h[T] = g[T]
      BY <1>3, <2>2, <2>4, <3>3
    <3> QED
      BY <3>4
  <2> QED
    BY <2>3, <2>4
<1> HIDE DEF K
<1>9. \A T \in SUBSET S : T \in K
  BY <1>1, <1>8, SubsetInduction
<1>10. h[S] = g[S]
  BY <1>9 DEF K
<1> QED
  BY <1>10 DEF g, h

\* What apply_batch_operations makes of the lines before it looks at the newline.
LEMMA AppliedIsFile ==
  ASSUME NEW lines \in Seq(LineOf), NEW ops, Sound(ops, Texts, Len(lines)),
         NEW ending, ending = DominantEnding(lines)
  PROVE  ApplyBatchOperations(lines, ops)
           = PreserveTrailingNewline(FileOf(lines, LineOps(ops, ending), DOMAIN ops, LineOf),
                                     ending, EndsWithNewline(lines))
<1> DEFINE R == Replaces(ops)
           I == DOMAIN ops \ R
           base == FileOf(lines, LineOps(ops, ending), R, LineOf)
<1>1. R \in SUBSET DOMAIN ops /\ I \in SUBSET DOMAIN ops /\ R \cup I = DOMAIN ops
  BY DEF Replaces
<1>2. OnlyReplaces(ops, R)
  BY DEF OnlyReplaces, Replaces
<1>3. OnlyInserts(ops, I)
  <2>1. \A i \in DOMAIN ops : ops[i].kind \in {"insert", "replace"}
    BY SoundFacts
  <2> QED
    BY <2>1 DEF OnlyInserts, Replaces
<1>4. ending \in {LF, CRLF}
  BY DEF DominantEnding
<1> HIDE DEF I
<1>5. EditFold(lines, ops, R, ending)[R] = base
  BY <1>1, <1>2, <1>4, EditFoldIsFile
<1>6. InsertFold(base, ops, I, ending)[I] = FileOf(lines, LineOps(ops, ending), R \cup I, LineOf)
  BY <1>1, <1>3, <1>4, InsertFoldIsFile
<1>7. ApplyBatchOperations(lines, ops)
        = PreserveTrailingNewline(
            InsertFold(EditFold(lines, ops, R, ending)[R], ops, I, ending)[I],
            ending, EndsWithNewline(lines))
  BY ApplyFolds DEF I
<1> QED
  BY <1>1, <1>5, <1>6, <1>7

------------------------------------------------------------------------------
(* What an accepted batch asks for.                                        *)



Hashes == {HashOf[t] : t \in Texts} \cup {NoHash}
IdOf == [line : Int, hash : Hashes]

LEMMA RequestFacts ==
  ASSUME BatchEditAssumption, seen \in Seq(Texts), NEW op \in Requests
  PROVE  /\ op.kind \in {"insert", "replace"} /\ op.content \in Seq(Texts)
         /\ op.start \in IdOf /\ op.end \in IdOf
<1>0. Contents \subseteq Seq(Texts) /\ <<>> \in Seq(Texts)
  BY DEF BatchEditAssumption
<1>1. Ids \subseteq IdOf
  <2>1. \A i \in DOMAIN seen : i \in Int /\ seen[i] \in Texts
    BY LenProperties, ElementOfSeq
  <2> QED
    BY <2>1 DEF Ids, IdOf, Hashes
<1>2. Plain(0) \in IdOf /\ Plain(1) \in IdOf /\ Plain(-1) \in IdOf
  BY DEF Plain, IdOf, Hashes
<1> HIDE DEF IdOf
<1> QED
  BY <1>0, <1>1, <1>2 DEF Requests

LEMMA ResolvedFacts ==
  ASSUME BatchEditAssumption, seen \in Seq(Texts), NEW op \in Requests, NEW texts \in Seq(Texts),
         ParseLineRange(op), Resolvable(op, texts)
  PROVE  /\ ResolveLineRange(op, texts) \in Edits(Texts, Len(texts))
         /\ Well(ResolveLineRange(op, texts))
<1> DEFINE n == Len(texts)
           r == ResolveLineRange(op, texts)
<1>1. /\ op.kind \in {"insert", "replace"} /\ op.content \in Seq(Texts)
      /\ op.start \in IdOf /\ op.end \in IdOf
  BY RequestFacts
<1>2. n \in Nat /\ DOMAIN texts = 1..n
  BY LenProperties
<1>3. Blank \in Texts /\ <<Blank>> \in Seq(Texts)
  BY DEF BatchEditAssumption
<1>4. CASE op.kind = "insert"
  <2> DEFINE anchor == IF op.start = [line |-> -1, hash |-> NoHash] THEN n ELSE op.start.line
             content == IF op.content = <<>> THEN <<Blank>> ELSE op.content
  <2>1. anchor \in 0..n
    <3>1. CASE op.start.hash = NoHash
      <4>1. op.start.line \in {0, -1}
        BY <1>4, <3>1 DEF ParseLineRange
      <4>2. op.start = [line |-> op.start.line, hash |-> op.start.hash]
        BY <1>1 DEF IdOf
      <4>3. op.start.line = -1 => anchor = n
        BY <3>1, <4>2
      <4>4. op.start.line = 0 => anchor \in {0, n}
        BY <1>2
      <4> QED
        BY <1>2, <4>1, <4>3, <4>4
    <3>2. CASE op.start.hash # NoHash
      <4>1. op.start.line \in DOMAIN texts
        BY <1>4, <3>2 DEF Resolvable, VerifyLineId
      <4> QED
        BY <1>2, <4>1
    <3> QED
      BY <3>1, <3>2
  <2>2. content \in Seq(Texts)
    BY <1>1, <1>3
  <2>3. r = [kind |-> "insert", first |-> anchor, last |-> anchor, content |-> content]
    BY <1>4 DEF ResolveLineRange
  <2> HIDE DEF anchor, content, r, n
  <2>4. r \in Edits(Texts, n) /\ Well(r)
    BY <2>1, <2>2, <2>3 DEF Edits, Well
  <2> QED
    BY <2>4 DEF r, n
<1>5. CASE op.kind = "replace"
  <2>1. /\ op.start.line \in 1..n /\ op.end.line \in 1..n /\ op.start.line <= op.end.line
    BY <1>2, <1>5 DEF Resolvable, VerifyLineId
  <2>2. r = [kind |-> "replace", first |-> op.start.line, last |-> op.end.line,
             content |-> op.content]
    BY <1>5 DEF ResolveLineRange
  <2> HIDE DEF r, n
  <2>3. r \in Edits(Texts, n) /\ Well(r)
    BY <1>1, <1>2, <2>1, <2>2 DEF Edits, Well
  <2> QED
    BY <2>3 DEF r, n
<1> QED
  BY <1>1, <1>4, <1>5

LEMMA NoConflictApart ==
  ASSUME NEW S, NEW n \in Nat, NEW o \in Edits(S, n), NEW p \in Edits(S, n), ~Conflict(o, p)
  PROVE  Apart(o, p) /\ Apart(p, o)
<1>1. /\ o.kind \in {"insert", "replace"} /\ p.kind \in {"insert", "replace"}
      /\ o.first \in Int /\ o.last \in Int /\ p.first \in Int /\ p.last \in Int
  BY DEF Edits
<1>2. CASE o.kind = "replace" /\ p.kind = "replace"
  <2>1. ~(o.first <= p.last /\ p.first <= o.last)
    BY <1>2 DEF Conflict
  <2> QED
    BY <1>1, <1>2, <2>1 DEF Apart
<1>3. CASE o.kind = "insert" /\ p.kind = "insert"
  <2>1. ~(o.last = p.last)
    BY <1>3 DEF Conflict
  <2> QED
    BY <1>1, <1>3, <2>1 DEF Apart
<1>4. CASE o.kind = "insert" /\ p.kind = "replace"
  <2>1. ~InsideReplaced(o, p)
    BY <1>4 DEF Conflict
  <2> QED
    BY <1>1, <1>4, <2>1 DEF Apart, InsideReplaced
<1>5. CASE o.kind = "replace" /\ p.kind = "insert"
  <2>1. ~InsideReplaced(p, o)
    BY <1>5 DEF Conflict
  <2> QED
    BY <1>1, <1>5, <2>1 DEF Apart, InsideReplaced
<1> QED
  BY <1>1, <1>2, <1>3, <1>4, <1>5

\* The checks of an accepted batch leave operations that do not meet.
LEMMA AcceptedIsSound ==
  ASSUME BatchEditAssumption, seen \in Seq(Texts), batch \in Seq(Requests), NEW texts \in Seq(Texts),
         Accepted(batch, texts)
  PROVE  Sound(Resolved(batch, texts), Texts, Len(texts))
<1> DEFINE ops == Resolved(batch, texts)
           n == Len(texts)
<1>1. DOMAIN ops = DOMAIN batch /\ n \in Nat /\ DOMAIN batch = 1..Len(batch) /\ Len(batch) \in Nat
  BY LenProperties DEF Resolved
<1>2. IsFiniteSet(DOMAIN ops)
  <2>1. IsFiniteSet(1..Len(batch))
    BY <1>1, FS_Interval
  <2> QED
    BY <1>1, <2>1
<1>3. ASSUME NEW i \in DOMAIN batch PROVE ops[i] \in Edits(Texts, n) /\ Well(ops[i])
  <2>1. batch[i] \in Requests
    BY ElementOfSeq, LenProperties
  <2>2. ParseLineRange(batch[i]) /\ Resolvable(batch[i], texts)
    BY DEF Accepted
  <2>3. ops[i] = ResolveLineRange(batch[i], texts)
    BY DEF Resolved
  <2> QED
    BY <2>1, <2>2, <2>3, ResolvedFacts
<1>4. ops = [i \in DOMAIN ops |-> ops[i]]
  BY DEF Resolved
<1>5. \A i, j \in DOMAIN ops : i < j => ~Conflict(ops[i], ops[j])
  BY DEF Accepted, DetectConflicts
<1> HIDE DEF ops, n
<1>6. ASSUME NEW i \in DOMAIN ops, NEW j \in DOMAIN ops, i # j PROVE Apart(ops[i], ops[j])
  <2>1. i \in Int /\ j \in Int /\ i \in DOMAIN batch /\ j \in DOMAIN batch
    BY <1>1
  <2>2. ops[i] \in Edits(Texts, n) /\ ops[j] \in Edits(Texts, n)
    BY <1>3, <2>1
  <2>3. CASE i < j
    BY <1>1, <1>5, <2>2, <2>3, NoConflictApart
  <2>4. CASE j < i
    BY <1>1, <1>5, <2>2, <2>4, NoConflictApart
  <2> QED
    BY <1>6, <2>1, <2>3, <2>4
<1>7. Sound(ops, Texts, n)
  <2>1. ops \in [DOMAIN ops -> Edits(Texts, n)]
    BY <1>1, <1>3, <1>4
  <2>2. \A i \in DOMAIN ops : Well(ops[i])
    BY <1>1, <1>3
  <2> QED
    BY <1>1, <1>2, <1>6, <2>1, <2>2 DEF Sound
<1> QED
  BY <1>7 DEF ops, n

------------------------------------------------------------------------------
(* UpTo is the join of the pieces.                                         *)

LEMMA CoveringIs ==
  ASSUME NEW S, NEW n, NEW ops, Sound(ops, S, n), NEW k \in Nat
  PROVE  /\ InsertedAfter(ops, k) = Added(ops, DOMAIN ops, k)
         /\ Covering(ops, k) = {} <=> Over(ops, DOMAIN ops, k) = {}
         /\ \A texts : k # 0 => StandsFor(ops, texts, k) = Stays(texts, ops, DOMAIN ops, k)
<1> DEFINE D == DOMAIN ops
           here == {o \in ToSet(ops) : o.kind = "insert" /\ o.last = k}
<1>1. /\ \A o \in here : \E i \in AddedAt(ops, D, k) : o = ops[i]
      /\ \A i \in AddedAt(ops, D, k) : ops[i] \in here
  BY DEF AddedAt, ToSet
<1>2. /\ \A o \in Covering(ops, k) : \E i \in Over(ops, D, k) : o = ops[i]
      /\ \A i \in Over(ops, D, k) : ops[i] \in Covering(ops, k)
  BY DEF Over, Covering, ToSet
<1>3. InsertedAfter(ops, k) = Added(ops, D, k)
  <2>0. InsertedAfter(ops, k) = IF here = {} THEN <<>> ELSE (CHOOSE o \in here : TRUE).content
    BY DEF InsertedAfter
  <2> HIDE DEF here
  <2>1. CASE AddedAt(ops, D, k) = {}
    <3>1. here = {}
      BY <1>1, <2>1
    <3> QED
      BY <2>0, <2>1, <3>1 DEF Added
  <2>2. CASE AddedAt(ops, D, k) # {}
    <3>1. PICK i \in AddedAt(ops, D, k) : TRUE
      BY <2>2
    <3>2. AddedAt(ops, D, k) = {i} /\ Added(ops, D, k) = ops[i].content
      BY OneAdded
    <3>3. here = {ops[i]}
      BY <1>1, <3>2
    <3>4. (CHOOSE o \in here : TRUE) = ops[i]
      BY <3>3
    <3> QED
      BY <2>0, <3>2, <3>3, <3>4
  <2> QED
    BY <2>1, <2>2
<1>4. Covering(ops, k) = {} <=> Over(ops, D, k) = {}
  BY <1>2
<1>5. ASSUME NEW texts, k # 0 PROVE StandsFor(ops, texts, k) = Stays(texts, ops, D, k)
  <2>1. CASE Over(ops, D, k) = {}
    BY <1>4, <1>5, <2>1 DEF StandsFor, Stays
  <2>2. CASE Over(ops, D, k) # {}
    <3>1. PICK i \in Over(ops, D, k) : TRUE
      BY <2>2
    <3>2. /\ Over(ops, D, k) = {i}
          /\ Stays(texts, ops, D, k) = IF ops[i].first = k THEN ops[i].content ELSE <<>>
      BY OneOver
    <3>3. Covering(ops, k) = {ops[i]}
      BY <1>2, <3>2
    <3>4. (CHOOSE o \in Covering(ops, k) : TRUE) = ops[i]
      BY <3>3
    <3>5. StandsFor(ops, texts, k) = IF ops[i].first = k THEN ops[i].content ELSE <<>>
      BY <3>3, <3>4 DEF StandsFor
    <3> QED
      BY <3>2, <3>5
  <2> QED
    BY <2>1, <2>2
<1> QED
  BY <1>3, <1>4, <1>5

\* The pieces up to k as UpTo puts them together.
Flat(P, k) == P[0] \o FlattenSeq([i \in 1..k |-> P[i]])

LEMMA FlattenIsJoin ==
  ASSUME NEW S, NEW n \in Nat, NEW P \in [0..n -> Seq(S)], NEW J, IsJoin(J, P, n, S),
         NEW k \in 0..n
  PROVE  Flat(P, k) = J[k]
<1> DEFINE s == [i \in 1..k |-> P[i]]
           Z == [P EXCEPT ![0] = <<>>]
<1>1. Z \in [0..n -> Seq(S)] /\ Z[0] = <<>> /\ \A i \in 1..n : Z[i] = P[i]
  <2>1. <<>> \in Seq(S) /\ \A i \in 1..n : i \in 0..n /\ i # 0
    OBVIOUS
  <2> QED
    BY <2>1
<1> HIDE DEF Z
<1>2. PICK H : IsJoin(H, Z, n, S)
  BY <1>1, JoinExists
<1>3. H[0] = <<>> /\ \A i \in 1..n : H[i] = H[i - 1] \o P[i] /\ H[i] \in Seq(S) /\ P[i] \in Seq(S)
  <2>1. \A i \in 1..n : i \in 0..n
    OBVIOUS
  <2> QED
    BY <1>1, <1>2, <2>1 DEF IsJoin
<1>4. Len(s) = k /\ \A i \in 1..k : s[i] = P[i] /\ i \in 1..n
  OBVIOUS
<1>5. P[0] \in Seq(S) /\ J[0] = P[0]
  BY DEF IsJoin
<1>6. \A j \in 0..n : J[j] = P[0] \o H[j]
  <2> DEFINE K == {j \in Nat : j <= n => J[j] = P[0] \o H[j]}
  <2>1. 0 \in K
    <3>1. P[0] \o <<>> = P[0]
      BY <1>5, ConcatEmptySeq
    <3> QED
      BY <1>3, <1>5, <3>1
  <2>2. ASSUME NEW j \in Nat, j + 1 <= n, J[j] = P[0] \o H[j] PROVE J[j + 1] = P[0] \o H[j + 1]
    <3> DEFINE q == j + 1
    <3>1. q \in 1..n /\ q - 1 = j /\ j \in 0..n
      BY <2>2
    <3> HIDE DEF q
    <3>2. J[q] = J[j] \o P[q] /\ H[q] = H[j] \o P[q] /\ H[j] \in Seq(S) /\ P[q] \in Seq(S)
      BY <1>2, <1>3, <3>1 DEF IsJoin
    <3> DEFINE a == P[0]
               b == H[j]
               c == P[q]
    <3>3. a \in Seq(S) /\ b \in Seq(S) /\ c \in Seq(S)
      BY <1>5, <3>2
    <3>4. J[q] = (a \o b) \o c /\ H[q] = b \o c
      BY <2>2, <3>2
    <3> HIDE DEF a, b, c
    <3>6. (a \o b) \o c = a \o (b \o c)
      <4>1. Regrouped(a, b, c)
        BY <3>3, Regroup, Zenon
      <4> QED
        BY <4>1 DEF Regrouped
    <3>5. J[q] = a \o H[q]
      BY <3>4, <3>6, Zenon
    <3> QED
      BY <3>5 DEF q, a
  <2>3. \A j \in K : j + 1 \in K
    <3> TAKE j \in K
    <3>1. j \in Nat /\ j + 1 \in Nat /\ (j + 1 <= n => j <= n)
      OBVIOUS
    <3> QED
      BY <2>2, <3>1
  <2>4. K \in SUBSET Nat
    OBVIOUS
  <2>5. \A j \in Nat : j \in K
    <3> HIDE DEF K
    <3> QED
      BY <2>1, <2>3, <2>4, AllNumbers
  <2> QED
    BY <2>5
<1>7. FlattenSeq(s) = H[k]
  <2> HIDE DEF s
  <2>1. CASE k = 0
    <3>1. s = <<>>
      BY <2>1 DEF s
    <3> QED
      BY <1>3, <1>4, <2>1, <3>1 DEF FlattenSeq
  <2>2. CASE k # 0
    <3> DEFINE Step(f) == [i \in 1..k |-> IF i = 1 THEN s[i] ELSE f[i - 1] \o s[i]]
               g == [i \in 1..k |-> H[i]]
               f == CHOOSE f : f = Step(f)
    <3>1. FlattenSeq(s) = f[k]
      BY <1>4, <2>2 DEF FlattenSeq
    <3>2. \A i \in 1..k : H[i] = IF i = 1 THEN s[i] ELSE H[i - 1] \o s[i]
      <4> TAKE i \in 1..k
      <4>1. i \in 1..n /\ s[i] = P[i] /\ P[i] \in Seq(S)
        BY <1>3, <1>4
      <4>2. <<>> \o P[i] = P[i]
        BY <4>1, ConcatEmptySeq
      <4>3. H[i] = H[i - 1] \o P[i]
        BY <1>3, <4>1
      <4>4. CASE i = 1
        <5>1. H[i - 1] = <<>>
          BY <1>3, <4>4
        <5> QED
          BY <4>1, <4>2, <4>3, <4>4, <5>1
      <4> QED
        BY <4>1, <4>3, <4>4
    <3>3. g = Step(g)
      <4>1. \A i \in 1..k : i # 1 => i - 1 \in 1..k /\ g[i - 1] = H[i - 1]
        OBVIOUS
      <4> QED
        BY <3>2, <4>1
    <3>4. f = Step(f)
      <4> HIDE DEF Step
      <4> QED
        BY <3>3
    <3> HIDE DEF g
    <3>5. \A i \in 1..k : f[i] = IF i = 1 THEN s[i] ELSE f[i - 1] \o s[i]
      <4>1. \A i \in 1..k : Step(f)[i] = IF i = 1 THEN s[i] ELSE f[i - 1] \o s[i]
        OBVIOUS
      <4> HIDE DEF Step, f
      <4> QED
        BY <3>4, <4>1
    <3> HIDE DEF f
    <3> DEFINE K == {j \in Nat : j + 1 <= k => f[j + 1] = H[j + 1]}
    <3>6. 0 \in K
      <4>1. 1 \in 1..k
        BY <2>2
      <4> QED
        BY <3>2, <3>5, <4>1
    <3>7. ASSUME NEW j \in K PROVE j + 1 \in K
      <4> SUFFICES ASSUME (j + 1) + 1 <= k PROVE f[(j + 1) + 1] = H[(j + 1) + 1]
        OBVIOUS
      <4> DEFINE q == (j + 1) + 1
                 p == j + 1
      <4>1. q \in 1..k /\ q # 1 /\ q - 1 = p /\ p <= k
        OBVIOUS
      <4>2. f[p] = H[p]
        BY <4>1
      <4> HIDE DEF q, p, K
      <4>3. f[q] = H[q]
        BY <3>2, <3>5, <4>1, <4>2
      <4> QED
        BY <4>3 DEF q
    <3>8. K \in SUBSET Nat /\ k - 1 \in Nat /\ (k - 1) + 1 = k
      BY <2>2
    <3>9. k - 1 \in K
      <4> HIDE DEF K
      <4> QED
        BY <3>6, <3>7, <3>8, AllNumbers
    <3>10. f[k] = H[k]
      <4>1. (k - 1) + 1 <= k => f[(k - 1) + 1] = H[(k - 1) + 1]
        BY <3>9
      <4> QED
        BY <3>8, <4>1
    <3> QED
      BY <3>1, <3>10
  <2> QED
    BY <2>1, <2>2
<1> QED
  BY <1>6, <1>7 DEF Flat

LEMMA UpToIsJoin ==
  ASSUME NEW texts \in Seq(Texts), NEW ops, Sound(ops, Texts, Len(texts)),
         NEW J, IsJoin(J, Pieces(texts, ops, DOMAIN ops), Len(texts), Texts),
         NEW k \in 0..Len(texts)
  PROVE  UpTo(ops, texts, k) = J[k]
<1> DEFINE n == Len(texts)
           P == Pieces(texts, ops, DOMAIN ops)
<1>1. n \in Nat /\ P \in [0..n -> Seq(Texts)]
  BY LenProperties, PieceTypes
<1>2. P[0] = InsertedAfter(ops, 0)
  <2>1. 0 \in 0..n /\ 0 \in Nat
    BY <1>1
  <2>2. P[0] = <<>> \o Added(ops, DOMAIN ops, 0) /\ Added(ops, DOMAIN ops, 0) \in Seq(Texts)
    BY <2>1, PieceTypes DEF Pieces, Stays
  <2>3. <<>> \o Added(ops, DOMAIN ops, 0) = Added(ops, DOMAIN ops, 0)
    BY <2>2, ConcatEmptySeq
  <2>4. InsertedAfter(ops, 0) = Added(ops, DOMAIN ops, 0)
    BY <2>1, CoveringIs
  <2> QED
    BY <2>2, <2>3, <2>4
<1>3. ASSUME NEW i \in 1..k
      PROVE  P[i] = StandsFor(ops, texts, i) \o InsertedAfter(ops, i)
  <2>1. i \in 0..n /\ i \in Nat /\ i # 0
    BY <1>1
  <2>2. P[i] = Stays(texts, ops, DOMAIN ops, i) \o Added(ops, DOMAIN ops, i)
    BY <2>1 DEF Pieces
  <2> HIDE DEF P, n
  <2>3. /\ InsertedAfter(ops, i) = Added(ops, DOMAIN ops, i)
        /\ StandsFor(ops, texts, i) = Stays(texts, ops, DOMAIN ops, i)
    BY <2>1, CoveringIs
  <2> QED
    BY <2>2, <2>3
<1> HIDE DEF P
<1>4. [i \in 1..k |-> StandsFor(ops, texts, i) \o InsertedAfter(ops, i)] = [i \in 1..k |-> P[i]]
  BY <1>3
<1>5. Flat(P, k) = J[k]
  <2>1. IsJoin(J, P, n, Texts) /\ k \in 0..n
    BY DEF P
  <2> HIDE DEF n
  <2> QED
    BY <1>1, <2>1, FlattenIsJoin
<1> QED
  BY <1>2, <1>4, <1>5 DEF UpTo, Flat

\* The texts of the file that is written.
LEMMA TextsOfFacts ==
  ASSUME NEW u \in Seq(LineOf)
  PROVE  TextsOf(u) \in Seq(Texts) /\ Len(TextsOf(u)) = Len(u)
<1> DEFINE t == TextsOf(u)
<1>1. Len(u) \in Nat /\ DOMAIN u = 1..Len(u) /\ \A i \in 1..Len(u) : u[i] \in LineOf
  BY LenProperties, ElementOfSeq
<1>2. \A i \in 1..Len(u) : u[i].text \in Texts
  BY <1>1 DEF LineOf
<1>3. t = [i \in 1..Len(u) |-> u[i].text]
  BY <1>1 DEF TextsOf
<1>4. t \in [1..Len(u) -> Texts]
  BY <1>2, <1>3
<1> HIDE DEF t
<1>5. t \in Seq(Texts) /\ Len(t) = Len(u)
  BY <1>1, <1>4
<1> QED
  BY <1>5 DEF t

LEMMA TextsOfJoin ==
  ASSUME NEW u \in Seq(LineOf), NEW v \in Seq(LineOf)
  PROVE  TextsOf(u \o v) = TextsOf(u) \o TextsOf(v)
<1> DEFINE w == u \o v
           a == TextsOf(u)
           b == TextsOf(v)
           t == TextsOf(w)
           l == Len(u)
           m == Len(v)
<1>1. w \in Seq(LineOf) /\ Len(w) = l + m /\ l \in Nat /\ m \in Nat
  BY ConcatProperties, LenProperties
<1>2. /\ a \in Seq(Texts) /\ Len(a) = l /\ b \in Seq(Texts) /\ Len(b) = m
      /\ t \in Seq(Texts) /\ Len(t) = l + m
  <2> HIDE DEF w
  <2> QED
    BY <1>1, TextsOfFacts
<1>3. \A i \in 1..(l + m) : w[i] = IF i <= l THEN u[i] ELSE v[i - l]
  BY ConcatProperties
<1>4. \A i \in 1..(l + m) : (a \o b)[i] = IF i <= l THEN a[i] ELSE b[i - l]
  <2> HIDE DEF a, b
  <2> QED
    BY <1>2, ConcatProperties
<1>5. DOMAIN w = 1..(l + m) /\ DOMAIN u = 1..l /\ DOMAIN v = 1..m
  <2> HIDE DEF w
  <2> QED
    BY <1>1, LenProperties
<1>6. /\ \A i \in 1..l : a[i] = u[i].text
      /\ \A i \in 1..m : b[i] = v[i].text
      /\ \A i \in 1..(l + m) : t[i] = w[i].text
  <2> HIDE DEF w
  <2> QED
    BY <1>5 DEF TextsOf
<1> HIDE DEF a, b, t, l, m, w
<1>7. \A i \in 1..(l + m) : t[i] = (a \o b)[i]
  <2> TAKE i \in 1..(l + m)
  <2>1. i <= l => i \in 1..l
    BY <1>1
  <2>2. ~(i <= l) => i - l \in 1..m
    BY <1>1
  <2> QED
    BY <1>3, <1>4, <1>6, <2>1, <2>2
<1>8. a \o b \in Seq(Texts) /\ Len(a \o b) = l + m
  BY <1>2, ConcatProperties
<1> DEFINE c == a \o b
<1> HIDE DEF c
<1>9. t = c
  BY <1>1, <1>2, <1>7, <1>8, SeqEqual DEF c
<1> QED
  BY <1>9 DEF c, t, w, a, b

LEMMA NewLinesTexts ==
  ASSUME NEW c \in Seq(Texts), NEW ending
  PROVE  TextsOf(NewLines(c, ending)) = c
<1>1. c = [i \in DOMAIN c |-> c[i]]
  BY LenProperties
<1> QED
  BY <1>1 DEF TextsOf, NewLines

LEMMA PieceTexts ==
  ASSUME NEW lines \in Seq(LineOf), NEW ops, Sound(ops, Texts, Len(lines)),
         NEW ending \in {LF, CRLF}, NEW k \in 0..Len(lines), NEW X \in SUBSET DOMAIN ops
  PROVE  TextsOf(Pieces(lines, LineOps(ops, ending), X)[k]) = Pieces(TextsOf(lines), ops, X)[k]
<1> DEFINE lops == LineOps(ops, ending)
           texts == TextsOf(lines)
           n == Len(lines)
<1>1. /\ Sound(lops, LineOf, n) /\ DOMAIN lops = DOMAIN ops /\ X \in SUBSET DOMAIN lops
      /\ texts \in Seq(Texts) /\ Len(texts) = n /\ n \in Nat
  BY LineOpsSound, TextsOfFacts, LenProperties DEF SameShape
<1>2. AddedAt(lops, X, k) = AddedAt(ops, X, k) /\ Over(lops, X, k) = Over(ops, X, k)
  BY DEF AddedAt, Over, LineOps
<1>3. \A i \in DOMAIN ops : /\ lops[i].content = NewLines(ops[i].content, ending)
                            /\ lops[i].first = ops[i].first
                            /\ TextsOf(lops[i].content) = ops[i].content
  <2> TAKE i \in DOMAIN ops
  <2>1. lops[i].content = NewLines(ops[i].content, ending) /\ lops[i].first = ops[i].first
    BY DEF LineOps
  <2>2. ops[i].content \in Seq(Texts)
    BY SoundFacts
  <2> HIDE DEF lops
  <2> QED
    BY <2>1, <2>2, NewLinesTexts
<1>4. TextsOf(<<>>) = <<>>
  BY DEF TextsOf
<1> HIDE DEF lops
<1>5. TextsOf(Added(lops, X, k)) = Added(ops, X, k)
  <2>1. CASE AddedAt(ops, X, k) = {}
    BY <1>2, <1>4, <2>1 DEF Added
  <2>2. CASE AddedAt(ops, X, k) # {}
    <3> DEFINE i == Some(AddedAt(ops, X, k))
    <3>1. i \in AddedAt(ops, X, k)
      BY <2>2 DEF Some
    <3>2. i \in DOMAIN ops
      BY <3>1 DEF AddedAt
    <3>3. Added(lops, X, k) = lops[i].content /\ Added(ops, X, k) = ops[i].content
      BY <1>2, <2>2 DEF Added
    <3> QED
      BY <1>3, <3>2, <3>3
  <2> QED
    BY <2>1, <2>2
<1>6. TextsOf(Stays(lines, lops, X, k)) = Stays(texts, ops, X, k)
  <2>1. CASE k = 0
    BY <1>4, <2>1 DEF Stays
  <2>2. CASE k # 0 /\ Over(ops, X, k) = {}
    <3>1. Stays(lines, lops, X, k) = <<lines[k]>> /\ Stays(texts, ops, X, k) = <<texts[k]>>
      BY <1>2, <2>2 DEF Stays
    <3>2. texts[k] = lines[k].text
      <4>1. k \in DOMAIN lines
        BY <1>1, <2>2, LenProperties
      <4> QED
        BY <4>1 DEF TextsOf
    <3>3. TextsOf(<<lines[k]>>) = <<lines[k].text>>
      BY DEF TextsOf
    <3> QED
      BY <3>1, <3>2, <3>3
  <2>3. CASE k # 0 /\ Over(ops, X, k) # {}
    <3> DEFINE i == Some(Over(ops, X, k))
    <3>1. i \in Over(ops, X, k)
      BY <2>3 DEF Some
    <3>2. i \in DOMAIN ops
      BY <3>1 DEF Over
    <3>3. /\ Stays(lines, lops, X, k) = IF lops[i].first = k THEN lops[i].content ELSE <<>>
          /\ Stays(texts, ops, X, k) = IF ops[i].first = k THEN ops[i].content ELSE <<>>
      BY <1>2, <2>3 DEF Stays
    <3> HIDE DEF i, texts
    <3>4. lops[i].first = ops[i].first /\ TextsOf(lops[i].content) = ops[i].content
      BY <1>3, <3>2
    <3> QED
      BY <1>4, <3>3, <3>4
  <2> QED
    BY <2>1, <2>2, <2>3
<1> DEFINE a == Stays(lines, lops, X, k)
           b == Added(lops, X, k)
<1>7. Pieces(lines, lops, X)[k] = a \o b
  BY DEF Pieces
<1>8. Pieces(texts, ops, X)[k] = Stays(texts, ops, X, k) \o Added(ops, X, k)
  BY <1>1 DEF Pieces
<1>9. a \in Seq(LineOf) /\ b \in Seq(LineOf)
  BY <1>1, PieceTypes
<1> HIDE DEF a, b
<1>10. TextsOf(a \o b) = TextsOf(a) \o TextsOf(b)
  BY <1>9, TextsOfJoin
<1> QED
  BY <1>5, <1>6, <1>7, <1>8, <1>10 DEF lops, a, b

LEMMA JoinTexts ==
  ASSUME NEW lines \in Seq(LineOf), NEW ops, Sound(ops, Texts, Len(lines)),
         NEW ending \in {LF, CRLF}, NEW X \in SUBSET DOMAIN ops,
         NEW J, IsJoin(J, Pieces(lines, LineOps(ops, ending), X), Len(lines), LineOf),
         NEW U, IsJoin(U, Pieces(TextsOf(lines), ops, X), Len(lines), Texts),
         NEW k \in 0..Len(lines)
  PROVE  TextsOf(J[k]) = U[k]
<1> DEFINE n == Len(lines)
           P == Pieces(lines, LineOps(ops, ending), X)
           Q == Pieces(TextsOf(lines), ops, X)
           K == {j \in Nat : j <= n => TextsOf(J[j]) = U[j]}
<1>1. n \in Nat
  BY LenProperties
<1>2. \A j \in 0..n : TextsOf(P[j]) = Q[j] /\ P[j] \in Seq(LineOf) /\ J[j] \in Seq(LineOf)
  <2>0. P \in [0..n -> Seq(LineOf)]
    <3>1. X \in SUBSET DOMAIN LineOps(ops, ending) /\ Sound(LineOps(ops, ending), LineOf, n)
      BY LineOpsSound DEF SameShape
    <3> QED
      BY <3>1, PieceTypes
  <2> TAKE j \in 0..n
  <2>1. TextsOf(P[j]) = Q[j]
    BY PieceTexts
  <2> HIDE DEF P, Q
  <2>2. P[j] \in Seq(LineOf)
    BY <2>0
  <2> QED
    BY <2>1, <2>2 DEF IsJoin
<1> HIDE DEF P, Q
<1>3. IsJoin(J, P, n, LineOf) /\ IsJoin(U, Q, n, Texts)
  BY DEF P, Q
<1>4. 0 \in K
  <2>1. 0 \in 0..n
    BY <1>1
  <2> QED
    BY <1>2, <1>3, <2>1 DEF IsJoin
<1>5. ASSUME NEW j \in Nat, j + 1 <= n, TextsOf(J[j]) = U[j] PROVE TextsOf(J[j + 1]) = U[j + 1]
  <2> DEFINE q == j + 1
  <2>1. q \in 1..n /\ q - 1 = j /\ q \in 0..n /\ j \in 0..n
    BY <1>1, <1>5
  <2> HIDE DEF q
  <2>2. J[q] = J[j] \o P[q] /\ U[q] = U[j] \o Q[q]
    BY <1>3, <2>1 DEF IsJoin
  <2>3. J[j] \in Seq(LineOf) /\ P[q] \in Seq(LineOf) /\ TextsOf(P[q]) = Q[q]
    BY <1>2, <2>1
  <2> DEFINE a == J[j]
             b == P[q]
  <2>4. a \in Seq(LineOf) /\ b \in Seq(LineOf) /\ J[q] = a \o b
    BY <2>2, <2>3
  <2> HIDE DEF a, b
  <2>5. TextsOf(J[q]) = TextsOf(a) \o TextsOf(b)
    BY <2>4, TextsOfJoin
  <2>6. TextsOf(J[q]) = U[q]
    BY <1>5, <2>2, <2>3, <2>5 DEF a, b
  <2> QED
    BY <2>6 DEF q
<1>6. \A j \in K : j + 1 \in K
  <2> TAKE j \in K
  <2>1. j \in Nat /\ j + 1 \in Nat /\ (j + 1 <= n => j <= n)
    BY <1>1
  <2> QED
    BY <1>5, <2>1
<1>7. K \in SUBSET Nat /\ k \in Nat /\ k <= n
  BY <1>1
<1>8. k \in K
  <2> HIDE DEF K
  <2> QED
    BY <1>4, <1>6, <1>7, AllNumbers
<1> QED
  BY <1>7, <1>8

LEMMA FileTexts ==
  ASSUME NEW lines \in Seq(LineOf), NEW ops, Sound(ops, Texts, Len(lines)),
         NEW ending \in {LF, CRLF},
         NEW file, file = FileOf(lines, LineOps(ops, ending), DOMAIN ops, LineOf)
  PROVE  file \in Seq(LineOf) /\ TextsOf(file) = UpTo(ops, TextsOf(lines), Len(lines))
<1> DEFINE n == Len(lines)
           texts == TextsOf(lines)
           lops == LineOps(ops, ending)
           D == DOMAIN ops
<1>1. /\ Sound(lops, LineOf, n) /\ DOMAIN lops = D /\ D \in SUBSET D
      /\ texts \in Seq(Texts) /\ Len(texts) = n /\ n \in Nat /\ n \in 0..n
  BY LineOpsSound, TextsOfFacts, LenProperties DEF SameShape
<1>2. PICK J : IsJoin(J, Pieces(lines, lops, D), n, LineOf) /\ J[n] = FileOf(lines, lops, D, LineOf)
  BY <1>1, FileJoins
<1>3. PICK U : IsJoin(U, Pieces(texts, ops, D), n, Texts)
  <2>1. Sound(ops, Texts, Len(texts))
    BY <1>1
  <2> HIDE DEF n, texts
  <2>2. \E U : IsJoin(U, Pieces(texts, ops, D), Len(texts), Texts)
    BY <1>1, <2>1, FileJoins
  <2> QED
    BY <1>1, <2>2
<1>4. TextsOf(J[n]) = U[n]
  BY <1>1, <1>2, <1>3, JoinTexts
<1>5. UpTo(ops, texts, n) = U[n]
  <2>1. Sound(ops, Texts, Len(texts)) /\ IsJoin(U, Pieces(texts, ops, D), Len(texts), Texts)
        /\ n \in 0..Len(texts)
    BY <1>1, <1>3
  <2> HIDE DEF n, texts
  <2> QED
    BY <1>1, <2>1, UpToIsJoin
<1>6. J[n] \in Seq(LineOf)
  BY <1>1, <1>2 DEF IsJoin
<1> QED
  BY <1>2, <1>4, <1>5, <1>6

LEMMA PreservedTexts ==
  ASSUME NEW file \in Seq(LineOf), NEW ending, NEW trailing \in BOOLEAN
  PROVE  TextsOf(PreserveTrailingNewline(file, ending, trailing))
           = IF file = <<>> /\ trailing THEN <<Blank>> ELSE TextsOf(file)
<1> DEFINE new == PreserveTrailingNewline(file, ending, trailing)
<1>1. CASE file = <<>> /\ trailing
  <2>1. new = [i \in DOMAIN <<Blank>> |-> [text |-> <<Blank>>[i], ending |-> ending]]
    BY <1>1 DEF PreserveTrailingNewline, NewLines
  <2>2. TextsOf(new) = <<Blank>>
    BY <2>1 DEF TextsOf
  <2> QED
    BY <1>1, <2>2
<1>2. CASE file = <<>> /\ ~trailing
  BY <1>2 DEF PreserveTrailingNewline
<1>3. CASE file # <<>>
  <2>1. \A i \in DOMAIN file : file[i] \in LineOf
    BY LenProperties, ElementOfSeq
  <2>2. /\ DOMAIN new = DOMAIN file
        /\ \A i \in DOMAIN file : new[i].text = file[i].text
    BY <1>3, <2>1 DEF PreserveTrailingNewline, LineOf
  <2> HIDE DEF new
  <2>3. TextsOf(new) = TextsOf(file)
    BY <2>2 DEF TextsOf
  <2> QED
    BY <1>3, <2>3 DEF new
<1> QED
  BY <1>1, <1>2, <1>3

------------------------------------------------------------------------------
(* The steps of the specification.                                         *)

\* What the requests and the file are made of, up to the submission.
BatchInv ==
  /\ seen \in Seq(Texts)
  /\ batch \in Seq(Requests)
  /\ answer.outcome = "none" => raw \in Files

LEMMA FileType ==
  ASSUME BatchEditAssumption, NEW lines \in Files
  PROVE  lines \in Seq(LineOf)
BY DEF BatchEditAssumption, LineOf

LEMMA BatchTypes == BatchEditAssumption => (BatchSpec => []BatchInv)
<1> SUFFICES ASSUME BatchEditAssumption PROVE BatchSpec => []BatchInv
  OBVIOUS
<1>1. BatchInit => BatchInv
  <2> SUFFICES ASSUME BatchInit PROVE BatchInv
    OBVIOUS
  <2>1. raw \in Seq(LineOf)
    BY FileType DEF BatchInit
  <2>2. seen \in Seq(Texts)
    BY <2>1, TextsOfFacts DEF BatchInit
  <2> QED
    BY <2>2 DEF BatchInit, BatchInv
<1>2. BatchInv /\ [BatchNext]_batchVars => BatchInv'
  <2> SUFFICES ASSUME BatchInv, [BatchNext]_batchVars PROVE BatchInv'
    OBVIOUS
  <2>0. ASSUME seen' = seen PROVE Requests' = Requests
    BY <2>0 DEF Requests, Ids
  <2>1. ASSUME NEW op \in Requests, Ask(op) PROVE BatchInv'
    <3>1. seen' = seen /\ batch' = Append(batch, op) /\ raw' = raw /\ answer' = answer
      BY <2>1 DEF Ask
    <3>2. Append(batch, op) \in Seq(Requests)
      BY AppendProperties DEF BatchInv
    <3> QED
      BY <2>0, <3>1, <3>2 DEF BatchInv
  <2>2. CASE OtherWrite
    BY <2>0, <2>2 DEF OtherWrite, BatchInv
  <2>3. CASE Submit
    <3>1. answer'.outcome # "none" /\ seen' = seen /\ batch' = batch
      BY <2>3 DEF Submit, Refusal
    <3> QED
      BY <2>0, <3>1 DEF BatchInv
  <2>4. CASE View
    <3>1. raw' \in Files /\ seen' = TextsOf(raw') /\ batch' = <<>>
      BY <2>4 DEF View
    <3>2. raw' \in Seq(LineOf)
      BY <3>1, FileType
    <3>3. seen' \in Seq(Texts)
      BY <3>1, <3>2, TextsOfFacts
    <3> QED
      BY <3>1, <3>3 DEF BatchInv
  <2>5. CASE UNCHANGED batchVars
    <3>1. seen' = seen /\ batch' = batch /\ raw' = raw /\ answer' = answer
      BY <2>5 DEF batchVars
    <3> QED
      BY <2>0, <3>1 DEF BatchInv
  <2> QED
    BY <2>1, <2>2, <2>3, <2>4, <2>5 DEF BatchNext
<1> QED
  BY <1>1, <1>2, PTL DEF BatchSpec

\* A step that applies a batch.
LEMMA AppliedStep ==
  ASSUME BatchEditAssumption, BatchInv, [BatchNext]_batchVars, Applied
  PROVE  /\ raw \in Seq(LineOf) /\ raw \in Files
         /\ Lines \in Seq(Texts) /\ Len(Lines) = Len(raw)
         /\ Sound(BatchOps, Texts, Len(raw))
         /\ raw' = ApplyBatchOperations(raw, BatchOps)
         /\ answer'.note = ShiftNote(BatchRegions(BatchOps), Len(raw))
<1>1. answer.outcome = "none" /\ answer'.outcome = "applied" /\ answer' # answer
  BY DEF Applied
<1>2. Submit
  BY <1>1 DEF BatchNext, Ask, OtherWrite, View, batchVars
<1>3. Accepted(batch, Lines)
  BY <1>1, <1>2 DEF Submit, Lines, Refusal
<1>4. /\ raw' = ApplyBatchOperations(raw, BatchOps)
      /\ answer'.note = ShiftNote(BatchRegions(BatchOps), Len(raw))
  BY <1>2, <1>3 DEF Submit, Lines, BatchOps
<1>5. raw \in Files /\ raw \in Seq(LineOf)
  BY <1>1, FileType DEF BatchInv
<1>6. Lines \in Seq(Texts) /\ Len(Lines) = Len(raw)
  BY <1>5, TextsOfFacts DEF Lines
<1>7. Sound(BatchOps, Texts, Len(Lines))
  BY <1>3, <1>6, AcceptedIsSound DEF BatchInv, BatchOps
<1> QED
  BY <1>4, <1>5, <1>6, <1>7

\* An accepted batch yields the file its operations describe (EditsLandWhereAsked).
THEOREM EditsLandWhereAskedCorrect == BatchEditAssumption => (BatchSpec => EditsLandWhereAsked)
<1> SUFFICES ASSUME BatchEditAssumption PROVE BatchSpec => EditsLandWhereAsked
  OBVIOUS
<1> DEFINE result == UpTo(BatchOps, Lines, Len(Lines))
           Landed == Applied => TextsOf(raw') = IF result = <<>> /\ EndsWithNewline(raw)
                                                THEN <<Blank>> ELSE result
<1>1. BatchInv /\ [BatchNext]_batchVars => [Landed]_batchVars
  <2> SUFFICES ASSUME BatchInv, [BatchNext]_batchVars, Applied
               PROVE  TextsOf(raw') = IF result = <<>> /\ EndsWithNewline(raw)
                                      THEN <<Blank>> ELSE result
    OBVIOUS
  <2> DEFINE ending == DominantEnding(raw)
             file == FileOf(raw, LineOps(BatchOps, ending), DOMAIN BatchOps, LineOf)
             trailing == EndsWithNewline(raw)
  <2>1. /\ raw \in Seq(LineOf) /\ Len(Lines) = Len(raw) /\ Sound(BatchOps, Texts, Len(raw))
        /\ raw' = ApplyBatchOperations(raw, BatchOps)
    BY AppliedStep
  <2>2. ending \in {LF, CRLF}
    BY DEF DominantEnding
  <2>3. trailing \in BOOLEAN
    BY DEF EndsWithNewline
  <2>4. raw' = PreserveTrailingNewline(file, ending, trailing)
    BY <2>1, AppliedIsFile
  <2>5. file \in Seq(LineOf) /\ TextsOf(file) = result
    BY <2>1, <2>2, FileTexts DEF Lines
  <2>6. file = <<>> <=> result = <<>>
    <3>1. Len(TextsOf(file)) = Len(file) /\ TextsOf(file) \in Seq(Texts)
      BY <2>5, TextsOfFacts
    <3> HIDE DEF file, result
    <3> QED
      BY <2>5, <3>1, EmptySeq
  <2> HIDE DEF file, ending, trailing, result
  <2> QED
    BY <2>3, <2>4, <2>5, <2>6, PreservedTexts DEF trailing
<1> QED
  BY <1>1, BatchTypes, PTL DEF BatchSpec, EditsLandWhereAsked

\* A batch composed from an outdated view changes the file only where every line
\* it names has the hash the caller saw (OutdatedTargetsChangeNothing).
THEOREM OutdatedTargetsCorrect == BatchEditAssumption => (BatchSpec => OutdatedTargetsChangeNothing)
<1> SUFFICES ASSUME BatchEditAssumption PROVE BatchSpec => OutdatedTargetsChangeNothing
  OBVIOUS
<1> DEFINE Named(i) == {batch[i].start}
                         \union (IF batch[i].kind = "replace" THEN {batch[i].end} ELSE {})
           SameHash(id) == /\ id.line \in DOMAIN raw
                           /\ HashOf[raw[id.line].text] = HashOf[seen[id.line]]
           Answered == answer'.outcome # answer.outcome /\ raw' # raw /\ answer'.outcome # "none"
           Verified == Answered =>
             \A i \in DOMAIN batch : \A id \in Named(i) : id.hash # NoHash => SameHash(id)
<1>1. BatchInv /\ [BatchNext]_batchVars => [Verified]_batchVars
  <2> SUFFICES ASSUME BatchInv, [BatchNext]_batchVars, Answered,
                      NEW i \in DOMAIN batch, NEW id \in Named(i), id.hash # NoHash
               PROVE  SameHash(id)
    OBVIOUS
  <2>1. Submit
    BY DEF BatchNext, Ask, OtherWrite, View, batchVars, NoAnswer
  <2>2. Accepted(batch, TextsOf(raw))
    BY <2>1 DEF Submit
  <2>3. Resolvable(batch[i], TextsOf(raw))
    BY <2>2 DEF Accepted
  <2>4. batch[i] \in Requests
    BY ElementOfSeq, LenProperties DEF BatchInv
  <2>5. id \in Ids
    BY <2>4 DEF Requests, Plain
  <2>6. id.hash = HashOf[seen[id.line]]
    BY <2>5 DEF Ids
  <2>7. VerifyLineId(id, TextsOf(raw))
    BY <2>3, <2>4 DEF Requests, Resolvable
  <2>8. id.line \in DOMAIN raw /\ HashOf[raw[id.line].text] = id.hash
    BY <2>7 DEF VerifyLineId, TextsOf
  <2> QED
    BY <2>6, <2>8
<1> QED
  BY <1>1, BatchTypes, PTL DEF BatchSpec, OutdatedTargetsChangeNothing

------------------------------------------------------------------------------
(* Terminators.                                                            *)

\* Lines of which none is nothing at all.
Whole == {l \in LineOf : l.ending = NoEnding => l.text # Blank}

LEMMA Endings == LF # NoEnding /\ CRLF # NoEnding
BY DEF LF, CRLF, NoEnding

LEMMA NewLinesWhole ==
  ASSUME NEW c \in Seq(Texts), NEW ending \in {LF, CRLF}
  PROVE  NewLines(c, ending) \in Seq(Whole)
<1> DEFINE s == NewLines(c, ending)
<1>1. Len(c) \in Nat /\ DOMAIN c = 1..Len(c) /\ \A i \in 1..Len(c) : c[i] \in Texts
  BY LenProperties, ElementOfSeq
<1>2. \A i \in 1..Len(c) : [text |-> c[i], ending |-> ending] \in Whole
  BY <1>1, Endings DEF LineOf, Whole
<1>3. s = [i \in 1..Len(c) |-> [text |-> c[i], ending |-> ending]]
  BY <1>1 DEF NewLines
<1>4. s \in [1..Len(c) -> Whole]
  BY <1>2, <1>3
<1> HIDE DEF s
<1>5. s \in Seq(Whole)
  BY <1>1, <1>4
<1> QED
  BY <1>5 DEF s

LEMMA WholeSound ==
  ASSUME NEW n, NEW ops, Sound(ops, Texts, n), NEW ending \in {LF, CRLF}
  PROVE  Sound(LineOps(ops, ending), Whole, n)
<1> DEFINE lops == LineOps(ops, ending)
<1>1. Sound(lops, LineOf, n) /\ DOMAIN lops = DOMAIN ops
  BY LineOpsSound DEF SameShape
<1>2. ASSUME NEW i \in DOMAIN lops PROVE lops[i] \in Edits(Whole, n)
  <2>1. lops[i] \in Edits(LineOf, n)
    BY <1>1 DEF Sound
  <2>2. lops[i].content = NewLines(ops[i].content, ending)
    BY <1>1 DEF LineOps
  <2>3. ops[i].content \in Seq(Texts)
    BY <1>1, SoundFacts
  <2>4. NewLines(ops[i].content, ending) \in Seq(Whole)
    BY <2>3, NewLinesWhole
  <2> HIDE DEF lops
  <2> QED
    BY <2>1, <2>2, <2>4 DEF Edits
<1>3. lops = [i \in DOMAIN lops |-> lops[i]]
  BY DEF LineOps
<1> HIDE DEF lops
<1>4. lops \in [DOMAIN lops -> Edits(Whole, n)]
  BY <1>2, <1>3
<1>5. Sound(lops, Whole, n)
  BY <1>1, <1>4 DEF Sound
<1> QED
  BY <1>5 DEF lops

\* A join of one kind of elements is one of a wider kind.
LEMMA WiderJoin ==
  ASSUME NEW S, NEW R, S \subseteq R, NEW J, NEW P, NEW n, IsJoin(J, P, n, S)
  PROVE  IsJoin(J, P, n, R)
<1>1. Seq(S) \subseteq Seq(R)
  OBVIOUS
<1> QED
  BY <1>1 DEF IsJoin

\* A line that no operation replaces is where the lines above it end.
Found(u, k, line) == k \in 1..Len(u) /\ u[k] = line

LEMMA JoinLength ==
  ASSUME NEW S, NEW u \in Seq(S), NEW v \in Seq(S)
  PROVE  /\ u \o v \in Seq(S) /\ Len(u \o v) = Len(u) + Len(v)
         /\ Len(u) \in Nat /\ Len(v) \in Nat
BY ConcatProperties, LenProperties

LEMMA JoinLeft ==
  ASSUME NEW S, NEW u \in Seq(S), NEW v \in Seq(S), NEW i \in 1..Len(u)
  PROVE  (u \o v)[i] = u[i]
<1>1. Len(u) \in Nat /\ Len(v) \in Nat
  BY LenProperties
<1>2. i \in 1..(Len(u) + Len(v)) /\ i <= Len(u)
  BY <1>1
<1> QED
  BY <1>2, ConcatProperties

LEMMA JoinRight ==
  ASSUME NEW S, NEW u \in Seq(S), NEW v \in Seq(S), NEW i, i = Len(u) + 1, v # <<>>
  PROVE  Found(u \o v, i, v[1])
<1>1. Len(u) \in Nat /\ Len(v) \in Nat /\ Len(v) # 0
  BY LenProperties, EmptySeq
<1>2. i \in 1..(Len(u) + Len(v)) /\ ~(i <= Len(u)) /\ i - Len(u) = 1
  BY <1>1
<1> QED
  BY <1>2, ConcatProperties DEF Found

LEMMA KeptLine ==
  ASSUME NEW S, NEW lines \in Seq(S), NEW ops, Sound(ops, S, Len(lines)),
         NEW X \in SUBSET DOMAIN ops, NEW J, IsJoin(J, Pieces(lines, ops, X), Len(lines), S),
         NEW k \in 1..Len(lines), Over(ops, X, k) = {}
  PROVE  Found(J[Len(lines)], Len(J[k - 1]) + 1, lines[k])
<1> DEFINE n == Len(lines)
           P == Pieces(lines, ops, X)
           b == Added(ops, X, k)
           l == lines[k]
<1>1. /\ n \in Nat /\ k - 1 \in 0..n /\ k \in 0..n /\ k # 0 /\ P \in [0..n -> Seq(S)]
      /\ l \in S /\ b \in Seq(S) /\ k \in 1..n
  BY LenProperties, PieceTypes, ElementOfSeq
<1>2. P[k] = <<l>> \o b
  BY <1>1 DEF Pieces, Stays
<1> HIDE DEF P, b, l
<1>3. IsJoin(J, P, n, S)
  BY DEF P
<1>4. J[k] = J[k - 1] \o P[k] /\ J[k - 1] \in Seq(S) /\ J[k] \in Seq(S)
  BY <1>1, <1>3 DEF IsJoin
<1>5. SameAfter(P, P, k, n)
  BY DEF SameAfter
<1> HIDE DEF n
<1>6. SameRest(J, J, k, n, S)
  BY <1>1, <1>3, <1>5, SameTail
<1>7. PICK w \in Seq(S) : J[n] = J[k] \o w
  BY <1>6 DEF SameRest
<1> DEFINE a == J[k - 1]
<1>8. a \in Seq(S) /\ J[n] = (a \o (<<l>> \o b)) \o w
  BY <1>2, <1>4, <1>7
<1> HIDE DEF a
<1> DEFINE m == Len(a)
           u == a \o (<<l>> \o b)
<1>9. m \in Nat /\ u \in Seq(S) /\ m + 1 \in 1..Len(u) /\ u[m + 1] = l
  <2>1. <<l>> \in Seq(S) /\ Len(<<l>>) = 1 /\ <<l>>[1] = l
    BY <1>1
  <2> DEFINE c == <<l>>
             d == c \o b
  <2>2. c \in Seq(S) /\ c[1] = l /\ 1 \in 1..Len(c)
    BY <2>1
  <2> HIDE DEF c
  <2>3. d \in Seq(S) /\ d[1] = l /\ Len(d) = Len(c) + Len(b) /\ Len(c) \in Nat /\ Len(b) \in Nat
    BY <1>1, <2>2, JoinLeft, JoinLength
  <2>4. d # <<>>
    <3> HIDE DEF d
    <3> QED
      BY <2>2, <2>3, LenProperties, EmptySeq
  <2> HIDE DEF d
  <2>5. (a \o d)[m + 1] = l /\ m + 1 \in 1..Len(a \o d) /\ a \o d \in Seq(S) /\ m \in Nat
    <3> DEFINE i == m + 1
    <3>1. i = Len(a) + 1
      OBVIOUS
    <3> HIDE DEF i, m
    <3>2. Found(a \o d, i, d[1])
      BY <1>8, <2>3, <2>4, <3>1, JoinRight
    <3>3. a \o d \in Seq(S) /\ Len(a) \in Nat
      BY <1>8, <2>3, JoinLength
    <3> QED
      BY <2>3, <3>2, <3>3 DEF i, m, Found
  <2> QED
    BY <2>5 DEF d, c
<1> HIDE DEF u, m
<1>10. Len(u \o w) = Len(u) + Len(w) /\ Len(u) \in Nat /\ Len(w) \in Nat
  BY <1>7, <1>9, JoinLength
<1>11. (u \o w)[m + 1] = u[m + 1]
  BY <1>7, <1>9, JoinLeft
<1>12. Found(u \o w, m + 1, l)
  BY <1>9, <1>10, <1>11 DEF Found
<1> QED
  BY <1>8, <1>12 DEF u, m, a, l, n

\* What PreserveTrailingNewline leaves of the terminators.
Terminated(new) == \A i \in DOMAIN new : i < Len(new) => new[i].ending # NoEnding

EndsAs(new, trailing) ==
  /\ new # <<>> /\ Last(new).text # Blank => (EndsWithNewline(new) <=> trailing)
  /\ new # <<>> /\ Last(new).text = Blank => EndsWithNewline(new)

LEMMA PreservedEndings ==
  ASSUME NEW file \in Seq(Whole), NEW ending \in {LF, CRLF}, NEW trailing \in BOOLEAN,
         NEW new, new = PreserveTrailingNewline(file, ending, trailing)
  PROVE  Terminated(new) /\ EndsAs(new, trailing)
<1>1. CASE file = <<>>
  <2>1. CASE trailing
    <3>1. /\ Len(new) = 1 /\ DOMAIN new = {1} /\ new[1] = [text |-> Blank, ending |-> ending]
          /\ new # <<>>
      BY <1>1, <2>1 DEF PreserveTrailingNewline, NewLines
    <3>2. Last(new) = new[1]
      BY <3>1 DEF Last
    <3> QED
      BY <3>1, <3>2, Endings DEF Terminated, EndsAs, EndsWithNewline
  <2>2. CASE ~trailing
    <3>1. new = <<>>
      BY <1>1, <2>2 DEF PreserveTrailingNewline
    <3> QED
      BY <3>1 DEF Terminated, EndsAs
  <2> QED
    BY <2>1, <2>2
<1>2. CASE file # <<>>
  <2> DEFINE n == Len(file)
  <2>1. n \in Nat /\ n # 0 /\ DOMAIN file = 1..n /\ \A i \in 1..n : file[i] \in Whole
    BY <1>2, LenProperties, EmptySeq, ElementOfSeq
  <2>2. new = [i \in 1..n |->
                 IF i = n /\ ~trailing
                 THEN IF file[i].text = Blank THEN file[i]
                      ELSE [file[i] EXCEPT !.ending = NoEnding]
                 ELSE IF file[i].ending = NoEnding
                      THEN [file[i] EXCEPT !.ending = ending]
                      ELSE file[i]]
    BY <1>2, <2>1 DEF PreserveTrailingNewline
  <2>3. Len(new) = n /\ DOMAIN new = 1..n /\ new # <<>>
    BY <2>1, <2>2
  <2> HIDE DEF n
  <2>4. ASSUME NEW i \in 1..n
        PROVE  /\ i = n /\ ~trailing =>
                    new[i] = IF file[i].text = Blank THEN file[i]
                             ELSE [file[i] EXCEPT !.ending = NoEnding]
               /\ ~(i = n /\ ~trailing) =>
                    new[i] = IF file[i].ending = NoEnding
                             THEN [file[i] EXCEPT !.ending = ending] ELSE file[i]
    BY <2>2
  <2>5. ASSUME NEW i \in 1..n, ~(i = n /\ ~trailing) PROVE new[i].ending # NoEnding
    <3>1. file[i] \in Whole
      BY <2>1
    <3>2. new[i] = IF file[i].ending = NoEnding
                   THEN [file[i] EXCEPT !.ending = ending] ELSE file[i]
      BY <2>4, <2>5
    <3> QED
      BY <3>1, <3>2, Endings DEF Whole, LineOf
  <2>6. Terminated(new)
    <3>1. \A i \in 1..n : i < n => ~(i = n /\ ~trailing)
      BY <2>1
    <3> QED
      BY <2>3, <2>5, <3>1 DEF Terminated
  <2>7. n \in 1..n /\ Last(new) = new[n]
    BY <2>1, <2>3 DEF Last
  <2>8. CASE trailing
    <3>1. new[n].ending # NoEnding
      BY <2>5, <2>7, <2>8
    <3> QED
      BY <2>3, <2>6, <2>7, <2>8, <3>1 DEF EndsAs, EndsWithNewline
  <2>9. CASE ~trailing
    <3>1. file[n] \in Whole
      BY <2>1, <2>7
    <3>2. new[n] = IF file[n].text = Blank THEN file[n]
                   ELSE [file[n] EXCEPT !.ending = NoEnding]
      BY <2>4, <2>7, <2>9
    <3>3. /\ new[n].text = file[n].text
          /\ file[n].text = Blank => new[n].ending # NoEnding
          /\ file[n].text # Blank => new[n].ending = NoEnding
      BY <3>1, <3>2 DEF Whole, LineOf
    <3> QED
      BY <2>3, <2>6, <2>7, <2>9, <3>3 DEF EndsAs, EndsWithNewline
  <2> QED
    BY <2>8, <2>9
<1> QED
  BY <1>1, <1>2

LEMMA PreservedLine ==
  ASSUME NEW file \in Seq(Whole), NEW ending, NEW trailing \in BOOLEAN,
         NEW new, new = PreserveTrailingNewline(file, ending, trailing),
         NEW to, NEW line, Found(file, to, line), to < Len(new), line.ending # NoEnding
  PROVE  new[to] = line
<1>1. to \in 1..Len(file) /\ file[to] = line /\ DOMAIN file = 1..Len(file) /\ Len(file) \in Nat
  BY LenProperties DEF Found
<1>2. file # <<>>
  BY <1>1
<1>3. new = [i \in DOMAIN file |->
               IF i = Len(file) /\ ~trailing
               THEN IF file[i].text = Blank THEN file[i]
                    ELSE [file[i] EXCEPT !.ending = NoEnding]
               ELSE IF file[i].ending = NoEnding
                    THEN [file[i] EXCEPT !.ending = ending]
                    ELSE file[i]]
  BY <1>2 DEF PreserveTrailingNewline
<1>4. Len(new) = Len(file)
  BY <1>1, <1>3
<1>5. to # Len(file)
  <2> DEFINE m == Len(file)
  <2>1. to < m /\ to \in Int
    BY <1>1, <1>4
  <2> HIDE DEF m
  <2>2. to # m
    BY <2>1
  <2> QED
    BY <2>2 DEF m
<1> QED
  BY <1>1, <1>3, <1>5

LEMMA FileWhole ==
  ASSUME BatchEditAssumption, NEW lines \in Files
  PROVE  /\ lines \in Seq(Whole)
         /\ \A i \in 1..Len(lines) : i < Len(lines) => lines[i].ending # NoEnding
<1>1. lines \in Seq(LineOf)
  BY FileType
<1>2. \A i \in DOMAIN lines :
        lines[i].ending = NoEnding => i = Len(lines) /\ lines[i].text # Blank
  BY DEF BatchEditAssumption
<1>3. /\ Len(lines) \in Nat /\ DOMAIN lines = 1..Len(lines)
      /\ \A i \in 1..Len(lines) : lines[i] \in LineOf
      /\ lines = [i \in 1..Len(lines) |-> lines[i]]
  BY <1>1, LenProperties, ElementOfSeq
<1>4. \A i \in 1..Len(lines) : lines[i] \in Whole
  BY <1>2, <1>3 DEF Whole
<1>5. lines \in [1..Len(lines) -> Whole]
  BY <1>3, <1>4
<1>6. lines \in Seq(Whole)
  BY <1>3, <1>5
<1>7. \A i \in 1..Len(lines) : i < Len(lines) => lines[i].ending # NoEnding
  BY <1>2, <1>3
<1> QED
  BY <1>6, <1>7

\* The file of an accepted batch, and where its kept lines are.
LEMMA KeptInFile ==
  ASSUME NEW lines \in Seq(Whole), NEW ops, Sound(ops, Texts, Len(lines)),
         NEW ending \in {LF, CRLF},
         NEW file, file = FileOf(lines, LineOps(ops, ending), DOMAIN ops, LineOf)
  PROVE  /\ file \in Seq(Whole)
         /\ \A i \in 1..Len(lines) : Covering(ops, i) = {} =>
              Found(file, Len(UpTo(ops, TextsOf(lines), i - 1)) + 1, lines[i])
<1> DEFINE n == Len(lines)
           texts == TextsOf(lines)
           lops == LineOps(ops, ending)
           D == DOMAIN ops
<1>0. lines \in Seq(LineOf)
  <2>1. Whole \subseteq LineOf
    BY DEF Whole
  <2> HIDE DEF n
  <2> QED
    BY <2>1
<1>1. /\ Sound(lops, LineOf, n) /\ Sound(lops, Whole, n) /\ DOMAIN lops = D /\ D \in SUBSET D
      /\ texts \in Seq(Texts) /\ Len(texts) = n /\ n \in Nat /\ n \in 0..n
  BY <1>0, LineOpsSound, WholeSound, TextsOfFacts, LenProperties DEF SameShape
<1>2. PICK J : IsJoin(J, Pieces(lines, lops, D), n, Whole)
  BY <1>1, FileJoins
<1>3. IsJoin(J, Pieces(lines, lops, D), n, LineOf)
  <2>1. Whole \subseteq LineOf
    BY DEF Whole
  <2> QED
    BY <1>2, <2>1, WiderJoin
<1>4. file = J[n]
  BY <1>0, <1>1, <1>3, FileIsJoin
<1>5. file \in Seq(Whole)
  BY <1>1, <1>2, <1>4 DEF IsJoin
<1>6. PICK U : IsJoin(U, Pieces(texts, ops, D), n, Texts)
  <2>1. Sound(ops, Texts, Len(texts))
    BY <1>1
  <2> HIDE DEF n, texts
  <2>2. \E U : IsJoin(U, Pieces(texts, ops, D), Len(texts), Texts)
    BY <1>1, <2>1, FileJoins
  <2> QED
    BY <1>1, <2>2
<1>7. ASSUME NEW i \in 1..n, Covering(ops, i) = {}
      PROVE  Found(file, Len(UpTo(ops, texts, i - 1)) + 1, lines[i])
  <2>1. i - 1 \in 0..n /\ i \in Nat
    BY <1>1
  <2>2. TextsOf(J[i - 1]) = U[i - 1]
    BY <1>0, <1>1, <1>3, <1>6, <2>1, JoinTexts
  <2>3. UpTo(ops, texts, i - 1) = U[i - 1]
    <3> DEFINE p == i - 1
    <3>1. Sound(ops, Texts, Len(texts)) /\ IsJoin(U, Pieces(texts, ops, D), Len(texts), Texts)
          /\ p \in 0..Len(texts)
      BY <1>1, <1>6, <2>1
    <3> HIDE DEF n, texts, p
    <3>2. UpTo(ops, texts, p) = U[p]
      BY <1>1, <3>1, UpToIsJoin
    <3> QED
      BY <3>2 DEF p
  <2>4. Len(U[i - 1]) = Len(J[i - 1])
    <3>1. J[i - 1] \in Seq(LineOf)
      BY <1>3, <2>1 DEF IsJoin
    <3> DEFINE v == J[i - 1]
    <3> HIDE DEF v
    <3>2. Len(TextsOf(v)) = Len(v)
      BY <3>1, TextsOfFacts DEF v
    <3> QED
      BY <2>2, <3>2 DEF v
  <2>5. Over(lops, D, i) = {}
    <3>1. Over(ops, D, i) = {}
      BY <1>7, <2>1, CoveringIs
    <3> QED
      BY <3>1 DEF Over, LineOps
  <2> HIDE DEF lops
  <2>6. Found(J[n], Len(J[i - 1]) + 1, lines[i])
    BY <1>1, <1>2, <2>5, KeptLine
  <2> QED
    BY <1>4, <2>3, <2>4, <2>6
<1> QED
  BY <1>5, <1>7

\* An accepted batch joins no lines, keeps the final newline as it was, and keeps
\* the terminator of every line above the last that it does not touch
\* (TerminatorsSurvive).
THEOREM TerminatorsSurviveCorrect == BatchEditAssumption => (BatchSpec => TerminatorsSurvive)
<1> SUFFICES ASSUME BatchEditAssumption PROVE BatchSpec => TerminatorsSurvive
  OBVIOUS
<1> DEFINE To(i) == Len(UpTo(BatchOps, Lines, i - 1)) + 1
           Kept == \A i \in DOMAIN raw :
                     Covering(BatchOps, i) = {} /\ i < Len(raw) /\ To(i) < Len(raw') =>
                       raw'[To(i)] = raw[i]
           Survive == Applied =>
             /\ \A i \in DOMAIN raw' : i < Len(raw') => raw'[i].ending # NoEnding
             /\ raw' # <<>> /\ Last(raw').text # Blank =>
                  (EndsWithNewline(raw') <=> EndsWithNewline(raw))
             /\ raw' # <<>> /\ Last(raw').text = Blank => EndsWithNewline(raw')
             /\ Kept
<1>1. BatchInv /\ [BatchNext]_batchVars => [Survive]_batchVars
  <2> SUFFICES ASSUME BatchInv, [BatchNext]_batchVars, Applied
               PROVE  Terminated(raw') /\ EndsAs(raw', EndsWithNewline(raw)) /\ Kept
    BY DEF Terminated, EndsAs
  <2> DEFINE ending == DominantEnding(raw)
             file == FileOf(raw, LineOps(BatchOps, ending), DOMAIN BatchOps, LineOf)
             trailing == EndsWithNewline(raw)
  <2>1. /\ raw \in Seq(LineOf) /\ raw \in Files /\ Sound(BatchOps, Texts, Len(raw))
        /\ raw' = ApplyBatchOperations(raw, BatchOps)
    BY AppliedStep
  <2>2. ending \in {LF, CRLF} /\ trailing \in BOOLEAN
    BY DEF DominantEnding, EndsWithNewline
  <2>3. raw' = PreserveTrailingNewline(file, ending, trailing)
    BY <2>1, AppliedIsFile
  <2>4. /\ raw \in Seq(Whole)
        /\ \A i \in 1..Len(raw) : i < Len(raw) => raw[i].ending # NoEnding
    BY <2>1, FileWhole
  <2>5. /\ file \in Seq(Whole)
        /\ \A i \in 1..Len(raw) : Covering(BatchOps, i) = {} => Found(file, To(i), raw[i])
    BY <2>1, <2>2, <2>4, KeptInFile DEF Lines
  <2> HIDE DEF file, ending
  <2>6. Terminated(raw') /\ EndsAs(raw', trailing)
    <3> HIDE DEF trailing
    <3> QED
      BY <2>2, <2>3, <2>5, PreservedEndings
  <2>7. ASSUME NEW i \in DOMAIN raw, Covering(BatchOps, i) = {}, i < Len(raw), To(i) < Len(raw')
        PROVE  raw'[To(i)] = raw[i]
    <3>1. i \in 1..Len(raw)
      BY <2>1, LenProperties
    <3>2. Found(file, To(i), raw[i]) /\ raw[i].ending # NoEnding
      BY <2>4, <2>5, <2>7, <3>1
    <3> HIDE DEF To, trailing
    <3> QED
      BY <2>2, <2>3, <2>5, <2>7, <3>2, PreservedLine
  <2>8. Kept
    BY <2>7
  <2> QED
    BY <2>6, <2>8
<1> QED
  BY <1>1, BatchTypes, PTL DEF BatchSpec, TerminatorsSurvive

------------------------------------------------------------------------------
(* The note on moved lines.                                                *)

\* The sum of Total, taken in any order.
RegionFold(regions, S) ==
  CHOOSE h : h = [s \in SUBSET S |->
    IF s = {} THEN 0 ELSE LET x == CHOOSE x \in s : TRUE IN regions[x].by + h[s \ {x}]]

LEMMA TotalFolds ==
  \A regions, ends :
    LET S == {i \in DOMAIN regions : regions[i].end \in ends}
    IN  Total(regions, ends) = RegionFold(regions, S)[S]
  BY DEF Total, MapThenSumSet, MapThenFoldSet, RegionFold

LEMMA RegionFoldIsSum ==
  ASSUME NEW regions, NEW S, NEW f, f = [i \in S |-> regions[i].by], NEW g, IsSum(g, f, S)
  PROVE  RegionFold(regions, S)[S] = g[S]
<1> DEFINE Step(h) == [s \in SUBSET S |->
             IF s = {} THEN 0 ELSE LET x == CHOOSE x \in s : TRUE IN regions[x].by + h[s \ {x}]]
           h == RegionFold(regions, S)
<1>1. \A s \in SUBSET S : s # {} =>
        /\ (CHOOSE x \in s : TRUE) \in s
        /\ f[CHOOSE x \in s : TRUE] = regions[CHOOSE x \in s : TRUE].by
  OBVIOUS
<1>2. /\ g \in [SUBSET S -> Int] /\ g[{}] = 0
      /\ \A T \in SUBSET S : \A i \in T : g[T] = f[i] + g[T \ {i}]
  BY DEF IsSum
<1>3. g = Step(g)
  <2>1. ASSUME NEW s \in SUBSET S PROVE g[s] = Step(g)[s]
    <3>1. CASE s = {}
      BY <1>2, <3>1
    <3>2. CASE s # {}
      <4> DEFINE x == CHOOSE x \in s : TRUE
      <4>1. x \in s /\ f[x] = regions[x].by
        BY <1>1, <3>2
      <4>2. Step(g)[s] = regions[x].by + g[s \ {x}]
        BY <3>2
      <4> HIDE DEF x
      <4> QED
        BY <1>2, <4>1, <4>2
    <3> QED
      BY <3>1, <3>2
  <2>2. Step(g) = [s \in SUBSET S |-> Step(g)[s]] /\ g = [s \in SUBSET S |-> g[s]]
    BY <1>2
  <2> HIDE DEF Step
  <2> QED
    BY <2>1, <2>2
<1>4. h = CHOOSE k : k = Step(k)
  BY DEF RegionFold
<1>5. h = Step(h)
  <2> HIDE DEF Step, h
  <2> QED
    BY <1>3, <1>4
<1>6. h[{}] = 0
  <2>1. Step(h)[{}] = 0
    OBVIOUS
  <2> HIDE DEF Step, h
  <2> QED
    BY <1>5, <2>1
<1>7. \A T \in SUBSET S : T # {} => \E i \in T : h[T] = f[i] + h[T \ {i}]
  <2> SUFFICES ASSUME NEW T \in SUBSET S, T # {} PROVE \E i \in T : h[T] = f[i] + h[T \ {i}]
    OBVIOUS
  <2> DEFINE x == CHOOSE x \in T : TRUE
  <2>1. x \in T /\ f[x] = regions[x].by
    BY <1>1
  <2>2. Step(h)[T] = regions[x].by + h[T \ {x}]
    OBVIOUS
  <2> HIDE DEF Step, h, x
  <2> QED
    BY <1>5, <2>1, <2>2
<1> HIDE DEF h
<1>8. S \in SUBSET S /\ AddsUp(h, f, S)
  BY <1>6, <1>7 DEF AddsUp
<1>9. h[S] = g[S]
  BY <1>8, FoldIsSum
<1> QED
  BY <1>9 DEF h

\* The operations that end at one of some lines, and how much each adds.
EndsIn(ops, E) == {j \in DOMAIN ops : ops[j].last \in E}
Deltas(ops) == [j \in DOMAIN ops |-> Delta(ops[j])]

LEMMA DeltasType ==
  ASSUME NEW S, NEW n, NEW ops, Sound(ops, S, n)
  PROVE  IsFiniteSet(DOMAIN ops) /\ Deltas(ops) \in [DOMAIN ops -> Int]
<1>1. ASSUME NEW j \in DOMAIN ops PROVE Delta(ops[j]) \in Int
  <2>1. ops[j].first \in 0..n /\ ops[j].last \in 0..n /\ ops[j].content \in Seq(S)
    BY SoundFacts
  <2>2. Len(ops[j].content) \in Int /\ ops[j].first \in Int /\ ops[j].last \in Int
    BY <2>1, LenProperties DEF Sound
  <2> QED
    BY <2>2 DEF Delta, OldCount
<1> QED
  BY <1>1 DEF Sound, Deltas

LEMMA TotalIsSum ==
  ASSUME NEW S, NEW n, NEW ops, Sound(ops, S, n), NEW g, IsSum(g, Deltas(ops), DOMAIN ops), NEW E
  PROVE  Total(BatchRegions(ops), E) = g[EndsIn(ops, E)] /\ g[EndsIn(ops, E)] \in Int
<1> DEFINE regions == BatchRegions(ops)
           T == {i \in DOMAIN regions : regions[i].end \in E}
           e == [i \in T |-> regions[i].by]
<1>1. T = EndsIn(ops, E) /\ T \in SUBSET DOMAIN ops
  BY DEF BatchRegions, EndsIn
<1>2. \A i \in T : e[i] = Deltas(ops)[i]
  BY DEF BatchRegions, Deltas
<1>3. IsFiniteSet(T) /\ Deltas(ops) \in [DOMAIN ops -> Int]
  BY <1>1, DeltasType, FS_Subset
<1>4. e \in [T -> Int]
  <2>1. e = [i \in T |-> e[i]]
    OBVIOUS
  <2> HIDE DEF e, T
  <2> QED
    BY <1>1, <1>2, <1>3, <2>1
<1>5. Total(regions, E) = RegionFold(regions, T)[T]
  BY TotalFolds
<1>6. e = [i \in T |-> regions[i].by]
  OBVIOUS
<1> HIDE DEF e, T, regions
<1>7. PICK h : IsSum(h, e, T)
  BY <1>3, <1>4, SumExists
<1>8. RegionFold(regions, T)[T] = h[T]
  BY <1>6, <1>7, RegionFoldIsSum
<1>9. Agree(Deltas(ops), e, T)
  BY <1>2 DEF Agree
<1>10. g[T] = h[T]
  BY <1>1, <1>7, <1>9, SumAgrees
<1>11. g[T] \in Int
  BY <1>1 DEF IsSum
<1> QED
  BY <1>1, <1>5, <1>8, <1>10, <1>11 DEF regions

Quiet(g, ops, a, b) == \A e \in (a + 1)..b : g[EndsIn(ops, {e})] = 0

\* Lines at which the operations that end there add nothing do not count.
LEMMA QuietEnds ==
  ASSUME NEW ops, NEW f, NEW g, IsSum(g, f, DOMAIN ops),
         NEW a \in Nat, NEW b \in Nat, a <= b, Quiet(g, ops, a, b)
  PROVE  g[EndsIn(ops, 0..b)] = g[EndsIn(ops, 0..a)]
<1> DEFINE G(m) == g[EndsIn(ops, 0..m)]
           K == {m \in Nat : a <= m /\ m <= b => G(m) = G(a)}
<1>1. 0 \in K
  <2>1. a <= 0 => a = 0
    OBVIOUS
  <2> HIDE DEF G
  <2> QED
    BY <2>1
<1>2. ASSUME NEW m \in Nat, a <= m, m + 1 <= b PROVE G(m + 1) = G(m)
  <2> DEFINE q == m + 1
             A == EndsIn(ops, 0..m)
             B == EndsIn(ops, {q})
             C == EndsIn(ops, 0..q)
  <2>1. 0..q = (0..m) \cup {q} /\ q \notin 0..m
    OBVIOUS
  <2>2. q \in (a + 1)..b
    BY <1>2
  <2> HIDE DEF q
  <2>3. /\ A \in SUBSET DOMAIN ops /\ B \in SUBSET DOMAIN ops /\ C = A \cup B /\ A \cap B = {}
    BY <2>1 DEF EndsIn
  <2>4. g[B] = 0
    BY <2>2 DEF Quiet
  <2> HIDE DEF A, B, C
  <2>5. g[A \cup B] = g[A] + g[B]
    BY <2>3, SumUnion
  <2>6. g[A] \in Int
    BY <2>3 DEF IsSum
  <2> DEFINE W == A \cup B
  <2>7. W = C /\ g[W] = g[A] + g[B]
    BY <2>3, <2>5
  <2> HIDE DEF W
  <2>8. g[C] = g[A]
    BY <2>4, <2>6, <2>7
  <2> QED
    BY <2>8 DEF C, A, q
<1> HIDE DEF G
<1>3. \A m \in K : m + 1 \in K
  <2> TAKE m \in K
  <2>1. m \in Nat /\ m + 1 \in Nat /\ (m + 1 <= b => m <= b)
    OBVIOUS
  <2>2. a <= m + 1 => a <= m \/ a = m + 1
    OBVIOUS
  <2> QED
    BY <1>2, <2>1, <2>2
<1>4. K \in SUBSET Nat
  OBVIOUS
<1>5. b \in K
  <2> HIDE DEF K
  <2> QED
    BY <1>1, <1>3, <1>4, AllNumbers
<1>6. G(b) = G(a)
  BY <1>5
<1> QED
  BY <1>6 DEF G

\* The entry that Announced reads.
LEMMA LatestEntry ==
  ASSUME NEW above, above # {}, NEW n \in Int, \A e \in above : e.after \in Int /\ e.after <= n
  PROVE  \E e \in above : \A f \in above : f.after <= e.after
<1> DEFINE Z == {n - e.after : e \in above}
<1>1. Z \in SUBSET Nat /\ Z # {}
  OBVIOUS
<1>2. PICK m \in Z : \A z \in Z : m <= z
  <2> HIDE DEF Z
  <2> QED
    BY <1>1, LeastNumber
<1>3. PICK e \in above : m = n - e.after
  OBVIOUS
<1>4. \A f \in above : f.after <= e.after
  <2> TAKE f \in above
  <2>1. n - f.after \in Z /\ f.after \in Int /\ e.after \in Int
    OBVIOUS
  <2>2. m <= n - f.after
    BY <1>2, <2>1
  <2> QED
    BY <1>3, <2>1, <2>2
<1> QED
  BY <1>4

\* A note announces for line i what the operations that end above it add.
LEMMA AnnouncedIsSum ==
  ASSUME NEW S, NEW n, NEW ops, Sound(ops, S, n), NEW g, IsSum(g, Deltas(ops), DOMAIN ops),
         NEW i \in 1..n
  PROVE  Announced(ShiftNote(BatchRegions(ops), n), i) = g[EndsIn(ops, 0..(i - 1))]
<1> DEFINE regions == BatchRegions(ops)
           note == ShiftNote(regions, n)
           above == {e \in note : e.after < i}
           Sum(E) == g[EndsIn(ops, E)]
<1>0. n \in Nat /\ i - 1 \in Nat /\ i \in Nat
  BY DEF Sound
<1>1. \A E : Total(regions, E) = Sum(E) /\ Sum(E) \in Int
  BY TotalIsSum
<1> HIDE DEF Sum
<1>2. \A e \in note : e.after \in 0..n /\ e.by = Sum(0..e.after)
  <2>1. \A j \in DOMAIN regions : regions[j].end \in 0..n
    <3> TAKE j \in DOMAIN regions
    <3>1. j \in DOMAIN ops /\ regions[j].end = ops[j].last
      BY DEF BatchRegions
    <3> HIDE DEF regions
    <3> QED
      BY <3>1, SoundFacts
  <2> HIDE DEF regions
  <2> TAKE e \in note
  <2>2. PICK x \in {regions[j].end : j \in DOMAIN regions} :
          e = [after |-> x, by |-> Total(regions, 0..x)]
    BY DEF ShiftNote
  <2> HIDE DEF note
  <2>3. x \in 0..n /\ e.after = x /\ e.by = Total(regions, 0..x)
    BY <2>1, <2>2
  <2>4. Total(regions, 0..x) = Sum(0..x)
    BY <1>1
  <2> QED
    BY <2>3, <2>4
<1>3. ASSUME NEW x \in 0..(i - 1), Sum({x}) # 0
      PROVE  \E e \in above : e.after = x
  <2>1. EndsIn(ops, {x}) # {}
    <3>1. g[{}] = 0
      BY DEF IsSum
    <3> QED
      BY <1>3, <3>1 DEF Sum
  <2>2. PICK j \in DOMAIN ops : ops[j].last = x
    BY <2>1 DEF EndsIn
  <2>3. j \in DOMAIN regions /\ regions[j].end = x
    BY <2>2 DEF BatchRegions
  <2>4. x < n /\ x < i
    BY <1>0
  <2>5. Total(regions, {x}) # 0
    BY <1>1, <1>3
  <2> HIDE DEF regions
  <2>6. [after |-> x, by |-> Total(regions, 0..x)] \in note
    BY <2>3, <2>4, <2>5 DEF ShiftNote
  <2> HIDE DEF note
  <2> QED
    BY <2>4, <2>6
<1> HIDE DEF note
<1>4. CASE above = {}
  <2>1. \A x \in 0..(i - 1) : Sum({x}) = 0
    BY <1>3, <1>4
  <2>2. Quiet(g, ops, 0, i - 1)
    <3>1. \A x \in (0 + 1)..(i - 1) : x \in 0..(i - 1)
      OBVIOUS
    <3> QED
      BY <2>1, <3>1 DEF Quiet, Sum
  <2>3. 0 <= i - 1 /\ 0 \in 0..(i - 1)
    BY <1>0
  <2> DEFINE b == i - 1
  <2>4. b \in Nat /\ 0 <= b /\ Quiet(g, ops, 0, b)
    BY <1>0, <2>2, <2>3
  <2> HIDE DEF b
  <2>5. g[EndsIn(ops, 0..b)] = g[EndsIn(ops, 0..0)]
    BY <2>4, QuietEnds
  <2>6. 0..0 = {0}
    OBVIOUS
  <2>7. g[EndsIn(ops, 0..b)] = 0
    BY <2>1, <2>3, <2>5, <2>6 DEF Sum
  <2>8. Announced(note, i) = 0
    BY <1>4 DEF Announced
  <2> QED
    BY <2>7, <2>8 DEF b, note
<1>5. CASE above # {}
  <2> DEFINE Top(e) == \A f \in above : f.after <= e.after
             e == CHOOSE e \in above : Top(e)
  <2>1. \E x \in above : Top(x)
    <3>1. \A x \in above : x.after \in Int /\ x.after <= n
      BY <1>0, <1>2
    <3> HIDE DEF above
    <3> QED
      BY <1>0, <1>5, <3>1, LatestEntry
  <2>2. e \in above /\ Top(e)
    <3> HIDE DEF Top, above
    <3> QED
      BY <2>1
  <2>3. Announced(note, i) = e.by
    BY <1>5 DEF Announced
  <2> HIDE DEF e
  <2> DEFINE a == e.after
             b == i - 1
  <2>4. a \in Nat /\ b \in Nat /\ a <= b /\ e.by = Sum(0..a)
    BY <1>0, <1>2, <2>2
  <2>5. Quiet(g, ops, a, b)
    <3>1. ASSUME NEW x \in (a + 1)..b PROVE Sum({x}) = 0
      <4>1. x \in 0..(i - 1) /\ a < x
        BY <1>0, <2>4
      <4>2. \A f \in above : f.after # x
        BY <2>2, <2>4, <4>1
      <4> HIDE DEF above, a, b
      <4> QED
        BY <1>3, <4>1, <4>2
    <3> QED
      BY <3>1 DEF Quiet, Sum
  <2> HIDE DEF a, b
  <2>6. g[EndsIn(ops, 0..b)] = g[EndsIn(ops, 0..a)]
    BY <2>4, <2>5, QuietEnds
  <2> QED
    BY <2>3, <2>4, <2>6 DEF b, note, Sum
<1> QED
  BY <1>4, <1>5

\* Above a line that no operation replaces an operation adds all or nothing.
LEMMA GrowthAboveKept ==
  ASSUME NEW S, NEW n, NEW ops, Sound(ops, S, n), NEW i \in 1..n,
         Over(ops, DOMAIN ops, i) = {}, NEW j \in DOMAIN ops
  PROVE  /\ Growth(ops[j], i - 1) = IF j \in EndsIn(ops, 0..(i - 1)) THEN Delta(ops[j]) ELSE 0
         /\ j \in EndsIn(ops, 0..(i - 1)) <=> ops[j].last < i
<1> DEFINE l == Len(ops[j].content)
           p == ops[j].first
           q == ops[j].last
           t == ops[j].kind
<1>1. /\ ops[j].content \in Seq(S) /\ p \in 0..n /\ q \in 0..n /\ t \in {"insert", "replace"}
      /\ t = "insert" => p = q
      /\ t = "replace" => p <= q
  BY SoundFacts
<1>2. n \in Nat /\ l \in Int /\ p \in Nat /\ q \in Nat /\ i \in Int
  BY <1>1, LenProperties DEF Sound
<1>3. ~(t = "replace" /\ p <= i /\ i <= q)
  BY DEF Over
<1>4. j \in EndsIn(ops, 0..(i - 1)) <=> q \in 0..(i - 1)
  BY DEF EndsIn
<1>5. Growth(ops[j], i - 1) =
        IF i - 1 < p THEN 0
        ELSE IF t = "insert" THEN l ELSE l - ((IF i - 1 < q THEN i - 1 ELSE q) - p + 1)
  BY DEF Growth
<1>6. Delta(ops[j]) = l - (IF t = "insert" THEN 0 ELSE q - p + 1)
  BY DEF Delta, OldCount
<1> DEFINE g == Growth(ops[j], i - 1)
           d == Delta(ops[j])
           in == j \in EndsIn(ops, 0..(i - 1))
<1>7. in <=> q < i
  <2> HIDE DEF q, in
  <2>1. q \in 0..(i - 1) <=> q < i
    BY <1>2
  <2> QED
    BY <1>4, <2>1 DEF q, in
<1> HIDE DEF l, p, q, t, g, d, in
<1>8. g = IF q < i THEN d ELSE 0
  BY <1>1, <1>2, <1>3, <1>5, <1>6 DEF g, d
<1> QED
  BY <1>7, <1>8 DEF g, d, q, in

\* Where the lines above a kept line end.
LEMMA KeptLineAt ==
  ASSUME NEW texts \in Seq(Texts), NEW ops, Sound(ops, Texts, Len(texts)),
         NEW g, IsSum(g, Deltas(ops), DOMAIN ops),
         NEW i \in 1..Len(texts), Covering(ops, i) = {}
  PROVE  Len(UpTo(ops, texts, i - 1)) = (i - 1) + g[EndsIn(ops, 0..(i - 1))]
<1> DEFINE n == Len(texts)
           D == DOMAIN ops
           k == i - 1
           f == GrowthTo(ops, D, k)
           E == EndsIn(ops, 0..k)
           Z == D \ E
<1>1. n \in Nat /\ k \in 0..n /\ i \in Nat /\ D \in SUBSET D
  BY LenProperties
<1>2. Over(ops, D, i) = {}
  BY <1>1, CoveringIs
<1>3. \A j \in D : f[j] = IF j \in E THEN Deltas(ops)[j] ELSE 0
  <2> TAKE j \in D
  <2>1. Growth(ops[j], i - 1) = IF j \in EndsIn(ops, 0..(i - 1)) THEN Delta(ops[j]) ELSE 0
    BY <1>2, GrowthAboveKept
  <2> QED
    BY <2>1 DEF GrowthTo, Deltas
<1>4. E \in SUBSET D /\ Z \in SUBSET D /\ E \cup Z = D /\ E \cap Z = {}
  BY DEF EndsIn
<1> HIDE DEF k
<1>5. f \in [D -> Int] /\ IsFiniteSet(D)
  BY <1>1, GrowthTypes
<1>6. PICK h : IsSum(h, f, D)
  <2> HIDE DEF f
  <2> QED
    BY <1>5, SumExists
<1>7. Agree(f, Deltas(ops), E)
  BY <1>3, <1>4 DEF Agree
<1>8. \A j \in Z : f[j] = 0
  BY <1>3
<1>9. PICK J : IsJoin(J, Pieces(texts, ops, D), n, Texts)
  BY <1>1, FileJoins
<1>10. Len(J[k]) = k + h[D]
  BY <1>1, <1>6, <1>9, PrefixLength
<1>11. UpTo(ops, texts, k) = J[k]
  BY <1>1, <1>9, UpToIsJoin
<1> HIDE DEF f, E, Z, D
<1>12. h[E] = g[E]
  BY <1>4, <1>6, <1>7, SumAgrees DEF D
<1>13. h[Z] = 0
  BY <1>4, <1>6, <1>8, ZeroSum
<1>14. h[E \cup Z] = h[E] + h[Z]
  BY <1>4, <1>6, SumUnion
<1>15. h[E] \in Int
  BY <1>4, <1>6 DEF IsSum
<1> DEFINE W == E \cup Z
<1>16. W = D /\ h[W] = h[E] + h[Z]
  BY <1>4, <1>14
<1> HIDE DEF W
<1>17. h[D] = g[E]
  BY <1>12, <1>13, <1>15, <1>16
<1>18. Len(UpTo(ops, texts, k)) = k + g[E]
  BY <1>10, <1>11, <1>17
<1> QED
  BY <1>18 DEF k, E

\* Every line that no operation replaces is where the note says
\* (ShiftNoteFindsEveryKeptLine).
THEOREM ShiftNoteCorrect == BatchEditAssumption => (BatchSpec => ShiftNoteFindsEveryKeptLine)
<1> SUFFICES ASSUME BatchEditAssumption PROVE BatchSpec => ShiftNoteFindsEveryKeptLine
  OBVIOUS
<1> DEFINE Finds == Applied =>
             \A i \in DOMAIN Lines : Covering(BatchOps, i) = {} =>
               i + Announced(answer'.note, i) = Len(UpTo(BatchOps, Lines, i - 1)) + 1
<1>1. BatchInv /\ [BatchNext]_batchVars => [Finds]_batchVars
  <2> SUFFICES ASSUME BatchInv, [BatchNext]_batchVars, Applied,
                      NEW i \in DOMAIN Lines, Covering(BatchOps, i) = {}
               PROVE  i + Announced(answer'.note, i) = Len(UpTo(BatchOps, Lines, i - 1)) + 1
    OBVIOUS
  <2>1. /\ Lines \in Seq(Texts) /\ Len(Lines) = Len(raw)
        /\ Sound(BatchOps, Texts, Len(Lines))
        /\ answer'.note = ShiftNote(BatchRegions(BatchOps), Len(Lines))
    BY AppliedStep
  <2>2. i \in 1..Len(Lines) /\ i \in Nat
    BY <2>1, LenProperties
  <2>3. PICK g : IsSum(g, Deltas(BatchOps), DOMAIN BatchOps)
    BY <2>1, DeltasType, SumExists
  <2> DEFINE a == Announced(answer'.note, i)
             s == g[EndsIn(BatchOps, 0..(i - 1))]
             l == Len(UpTo(BatchOps, Lines, i - 1))
  <2>4. a = s
    BY <2>1, <2>2, <2>3, AnnouncedIsSum
  <2>5. l = (i - 1) + s
    BY <2>1, <2>2, <2>3, KeptLineAt
  <2>6. s \in Int
    BY <2>1, <2>3, TotalIsSum
  <2> HIDE DEF a, s, l
  <2>7. i + a = l + 1
    BY <2>2, <2>4, <2>5, <2>6
  <2> QED
    BY <2>7 DEF a, l
<1> QED
  BY <1>1, BatchTypes, PTL DEF BatchSpec, ShiftNoteFindsEveryKeptLine

===============================================================================
