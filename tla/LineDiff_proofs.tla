--------------------------- MODULE LineDiff_proofs ---------------------------
(***************************************************************************)
(* LineDiff for all texts and every limit: the search finds a shortest     *)
(* edit script, and what is shown of it is as short.                       *)
(***************************************************************************)
EXTENDS LineDiff, FiniteSetTheorems, WellFoundedInduction, TLAPS

------------------------------------------------------------------------------
(* Induction and recursion over numbers.                                   *)

\* A set of numbers with 0 and with every successor has all of them.
LEMMA AllNumbers ==
  ASSUME NEW K \in SUBSET Nat, 0 \in K, \A n \in K : n + 1 \in K
  PROVE  \A n \in Nat : n \in K
<1> DEFINE R == {p \in Nat \X Nat : p[1] < p[2]}
           Bad == Nat \ K
<1>1. IsWellFoundedOn(R, Nat)
  BY NatLessThanWellFounded DEF OpToRel
<1> SUFFICES ASSUME Bad # {} PROVE FALSE
  OBVIOUS
<1>2. Bad \in SUBSET Nat
  OBVIOUS
<1>3. PICK k \in Bad : \A j \in Bad : ~(<<j, k>> \in R)
  <2> HIDE DEF R, Bad
  <2> QED
    BY <1>1, <1>2, WFMin
<1>4. k \in Nat /\ k \notin K /\ k # 0
  BY <1>3
<1>5. k - 1 \in Nat /\ k - 1 < k
  BY <1>4
<1>6. k - 1 \in K
  BY <1>3, <1>4, <1>5
<1>7. (k - 1) + 1 \in K
  BY <1>6
<1> QED
  BY <1>4, <1>7

\* A recursion over 0..n has a solution.
Solves(f, S, base, n, step) ==
  f \in [0..n -> S] /\ f[0] = base /\ \A i \in 1..n : f[i] = step[i][f[i - 1]]

LEMMA Iterate ==
  ASSUME NEW S, NEW base \in S, NEW n \in Nat, NEW step \in [1..n -> [S -> S]]
  PROVE  \E f : Solves(f, S, base, n, step)
<1> DEFINE UpTo(f, k) == f[0] = base /\ \A i \in 1..k : f[i] = step[i][f[i - 1]]
           K == {k \in Nat : k <= n => \E f \in [0..n -> S] : UpTo(f, k)}
<1>1. 0 \in K
  <2> DEFINE f == [i \in 0..n |-> base]
  <2>1. f \in [0..n -> S] /\ UpTo(f, 0)
    OBVIOUS
  <2> HIDE DEF f, UpTo
  <2> QED
    BY <2>1
<1>2. ASSUME NEW k \in K PROVE k + 1 \in K
  <2> SUFFICES ASSUME k + 1 <= n PROVE \E f \in [0..n -> S] : UpTo(f, k + 1)
    OBVIOUS
  <2>1. PICK f \in [0..n -> S] : UpTo(f, k)
    BY <1>2
  <2> DEFINE g == [f EXCEPT ![k + 1] = step[k + 1][f[k]]]
  <2>2. k \in Nat /\ k \in 0..n /\ k + 1 \in 1..n /\ k + 1 \in 0..n
    BY <1>2
  <2>3. step[k + 1][f[k]] \in S
    BY <2>2
  <2>4. g \in [0..n -> S] /\ g[k + 1] = step[k + 1][f[k]] /\ \A i \in 0..k : g[i] = f[i]
    BY <2>2, <2>3
  <2> HIDE DEF g
  <2>5. g[0] = base
    BY <2>1, <2>2, <2>4
  <2>6. ASSUME NEW i \in 1..(k + 1) PROVE g[i] = step[i][g[i - 1]]
    <3>1. CASE i = k + 1
      BY <2>2, <2>4, <3>1
    <3>2. CASE i # k + 1
      <4>1. i \in 1..k /\ i \in 0..k /\ i - 1 \in 0..k
        BY <2>2, <3>2
      <4> QED
        BY <2>1, <2>4, <4>1
    <3> QED
      BY <3>1, <3>2
  <2> QED
    BY <2>4, <2>5, <2>6
<1>3. n \in K
  <2> HIDE DEF K
  <2>1. K \in SUBSET Nat
    BY DEF K
  <2> QED
    BY <1>1, <1>2, <2>1, AllNumbers
<1> QED
  BY <1>3 DEF Solves

\* Values of a recursion have the type that each turn keeps.
LEMMA Typed ==
  ASSUME NEW S, NEW n \in Nat, NEW g, g = [i \in 0..n |-> g[i]], g[0] \in S,
         \A i \in 1..n : g[i - 1] \in S => g[i] \in S
  PROVE  g \in [0..n -> S]
<1> DEFINE K == {i \in Nat : i <= n => g[i] \in S}
<1>1. 0 \in K
  OBVIOUS
<1>2. ASSUME NEW i \in K PROVE i + 1 \in K
  <2> SUFFICES ASSUME i + 1 <= n PROVE g[i + 1] \in S
    OBVIOUS
  <2>1. i \in Nat /\ i + 1 \in 1..n /\ (i + 1) - 1 = i /\ i <= n
    BY <1>2
  <2> QED
    BY <1>2, <2>1
<1>3. \A i \in Nat : i \in K
  <2> HIDE DEF K
  <2>1. K \in SUBSET Nat
    BY DEF K
  <2> QED
    BY <1>1, <1>2, <2>1, AllNumbers
<1>4. \A i \in 0..n : g[i] \in S
  BY <1>3
<1> QED
  BY <1>4

------------------------------------------------------------------------------
(* The longest common subsequences of all prefixes.                        *)

IsRow(f, old, new, i, above) ==
  f = [j \in 0..Len(new) |->
        IF j = 0 THEN 0
        ELSE IF old[i] = new[j] THEN above[j - 1] + 1
        ELSE Max({above[j], f[j - 1]})]

IsTable(f, old, new) ==
  f = [i \in 0..Len(old) |->
        IF i = 0 THEN [j \in 0..Len(new) |-> 0] ELSE RowBelow(old, new, i, f[i - 1])]
Table(old, new) == CHOOSE f : IsTable(f, old, new)

LEMMA RowIsChosen ==
  \A old, new, i, above : RowBelow(old, new, i, above) = CHOOSE f : IsRow(f, old, new, i, above)
BY DEF RowBelow, IsRow

LEMMA CommonIsTable ==
  \A old, new : Common(old, new) = Table(old, new)[Len(old)][Len(new)]
BY DEF Common, Table, IsTable

\* The greater of two numbers.
LEMMA MaxOfTwo == \A a, b \in Int : Max({a, b}) = IF a >= b THEN a ELSE b
BY DEF Max

\* A row of the table has the values its recursion says.
LEMMA RowExists ==
  ASSUME NEW S, NEW old \in Seq(S), NEW new \in Seq(S), NEW i \in 1..Len(old),
         NEW above \in [0..Len(new) -> Nat]
  PROVE  /\ RowBelow(old, new, i, above) \in [0..Len(new) -> Nat]
         /\ IsRow(RowBelow(old, new, i, above), old, new, i, above)
<1> DEFINE M == Len(new)
           step == [j \in 1..M |-> [v \in Nat |->
                     IF old[i] = new[j] THEN above[j - 1] + 1
                     ELSE IF above[j] >= v THEN above[j] ELSE v]]
<1>1. M \in Nat
  OBVIOUS
<1>2. step \in [1..M -> [Nat -> Nat]]
  <2>1. \A j \in 1..M : above[j] \in Nat /\ above[j - 1] \in Nat
    BY <1>1
  <2> QED
    BY <2>1
<1>3. \A j \in 1..M, v \in Nat :
        step[j][v] = IF old[i] = new[j] THEN above[j - 1] + 1
                     ELSE IF above[j] >= v THEN above[j] ELSE v
  OBVIOUS
<1> HIDE DEF step
<1>4. PICK f \in [0..M -> Nat] : f[0] = 0 /\ \A j \in 1..M : f[j] = step[j][f[j - 1]]
  <2> DEFINE zero == 0
             Num == Nat
  <2>1. zero \in Num /\ M \in Nat /\ step \in [1..M -> [Num -> Num]]
    BY <1>1, <1>2
  <2>2. \A f : Solves(f, Num, zero, M, step) =>
               f \in [0..M -> Nat] /\ f[0] = 0 /\ \A j \in 1..M : f[j] = step[j][f[j - 1]]
    BY DEF Solves
  <2> HIDE DEF M, zero, Num
  <2>3. \E f : Solves(f, Num, zero, M, step)
    BY <2>1, Iterate
  <2> QED
    BY <2>2, <2>3
<1>5. ASSUME NEW j \in 0..M
      PROVE  f[j] = IF j = 0 THEN 0
                    ELSE IF old[i] = new[j] THEN above[j - 1] + 1
                    ELSE Max({above[j], f[j - 1]})
  <2>1. CASE j = 0
    BY <1>4, <2>1
  <2>2. CASE j # 0
    <3>1. j \in 1..M /\ j - 1 \in 0..M
      BY <1>1, <2>2
    <3>2. f[j - 1] \in Nat /\ above[j] \in Nat
      BY <3>1
    <3>3. Max({above[j], f[j - 1]}) = IF above[j] >= f[j - 1] THEN above[j] ELSE f[j - 1]
      <4>1. f[j - 1] \in Int /\ above[j] \in Int
        BY <3>2
      <4> QED
        BY <4>1, MaxOfTwo
    <3>4. f[j] = step[j][f[j - 1]]
      BY <1>4, <3>1
    <3> QED
      BY <1>3, <2>2, <3>1, <3>2, <3>3, <3>4
  <2> QED
    BY <2>1, <2>2
<1>6. IsRow(f, old, new, i, above)
  BY <1>5 DEF IsRow
<1>7. IsRow(RowBelow(old, new, i, above), old, new, i, above)
  BY <1>6, RowIsChosen
<1> DEFINE g == RowBelow(old, new, i, above)
<1>8. /\ DOMAIN g = 0..M
      /\ \A j \in 0..M : g[j] = IF j = 0 THEN 0
                    ELSE IF old[i] = new[j] THEN above[j - 1] + 1
                    ELSE Max({above[j], g[j - 1]})
  BY <1>7 DEF IsRow
<1>9. g = [j \in 0..M |-> g[j]]
  BY <1>7 DEF IsRow
<1> HIDE DEF g
<1>10. g[0] \in Nat
  <2>1. 0 \in 0..M
    BY <1>1
  <2>2. g[0] = IF 0 = 0 THEN 0
               ELSE IF old[i] = new[0] THEN above[0 - 1] + 1
               ELSE Max({above[0], g[0 - 1]})
    <3> HIDE DEF M
    <3> QED
      BY <1>8, <2>1
  <2> QED
    BY <2>2
<1>11. ASSUME NEW j \in 1..M, g[j - 1] \in Nat PROVE g[j] \in Nat
  <2>1. j \in 0..M /\ j - 1 \in 0..M /\ j # 0
    BY <1>1
  <2>2. above[j - 1] \in Nat /\ above[j] \in Nat
    BY <2>1
  <2>3. Max({above[j], g[j - 1]}) \in Nat
    <3>1. g[j - 1] \in Int /\ above[j] \in Int
      BY <1>11, <2>2
    <3> QED
      BY <1>11, <2>2, <3>1, MaxOfTwo
  <2>4. g[j] = IF old[i] = new[j] THEN above[j - 1] + 1 ELSE Max({above[j], g[j - 1]})
    BY <1>8, <2>1
  <2> QED
    BY <2>2, <2>3, <2>4
<1>12. g \in [0..M -> Nat]
  <2> HIDE DEF M
  <2> QED
    BY <1>1, <1>9, <1>10, <1>11, Typed
<1> QED
  BY <1>7, <1>12 DEF g

\* So has the table its rows.
LEMMA TableExists ==
  ASSUME NEW S, NEW old \in Seq(S), NEW new \in Seq(S)
  PROVE  /\ Table(old, new) \in [0..Len(old) -> [0..Len(new) -> Nat]]
         /\ IsTable(Table(old, new), old, new)
<1> DEFINE N == Len(old)
           Rows == [0..Len(new) -> Nat]
           base == [j \in 0..Len(new) |-> 0]
           step == [i \in 1..N |-> [r \in Rows |-> RowBelow(old, new, i, r)]]
<1>1. N \in Nat /\ base \in Rows
  OBVIOUS
<1>2. \A i \in 1..N, r \in Rows : RowBelow(old, new, i, r) \in Rows
  BY RowExists
<1>3. step \in [1..N -> [Rows -> Rows]] /\ \A i \in 1..N, r \in Rows : step[i][r] = RowBelow(old, new, i, r)
  BY <1>2
<1>4. PICK f : Solves(f, Rows, base, N, step)
  <2> HIDE DEF N, Rows, base, step
  <2> QED
    BY <1>1, <1>3, Iterate
<1>5. IsTable(f, old, new)
  <2>0. f \in [0..N -> Rows] /\ f[0] = base /\ \A i \in 1..N : f[i] = step[i][f[i - 1]]
    BY <1>4 DEF Solves
  <2>1. ASSUME NEW i \in 0..N
        PROVE  f[i] = IF i = 0 THEN base ELSE RowBelow(old, new, i, f[i - 1])
    <3> HIDE DEF step, Rows, base
    <3>1. CASE i = 0
      BY <2>0, <3>1
    <3>2. CASE i # 0
      <4>1. i \in 1..N /\ i - 1 \in 0..N
        BY <1>1, <3>2
      <4>2. f[i - 1] \in Rows
        BY <2>0, <4>1
      <4> QED
        BY <1>3, <2>0, <3>2, <4>1, <4>2
    <3> QED
      BY <3>1, <3>2
  <2>2. f = [i \in 0..N |-> f[i]]
    BY <2>0
  <2> QED
    BY <2>1, <2>2 DEF IsTable
<1> DEFINE t == Table(old, new)
<1>6. IsTable(t, old, new)
  BY <1>5 DEF Table
<1>7. t = [i \in 0..N |-> t[i]] /\ t[0] = base
      /\ \A i \in 1..N : t[i] = RowBelow(old, new, i, t[i - 1])
  <2>1. t = [i \in 0..N |-> IF i = 0 THEN base ELSE RowBelow(old, new, i, t[i - 1])]
    BY <1>6 DEF IsTable
  <2> HIDE DEF t, base
  <2>2. \A i \in 0..N : t[i] = IF i = 0 THEN base ELSE RowBelow(old, new, i, t[i - 1])
    BY <2>1
  <2>3. t = [i \in 0..N |-> t[i]]
    BY <2>1
  <2>4. 0 \in 0..N /\ \A i \in 1..N : i \in 0..N /\ i # 0
    BY <1>1
  <2> QED
    BY <2>2, <2>3, <2>4
<1>8. t \in [0..N -> Rows]
  <2> HIDE DEF t, N, Rows, base
  <2> QED
    BY <1>1, <1>2, <1>7, Typed
<1> QED
  BY <1>6, <1>8

\* The table by its entries.
LEMMA TableEntries ==
  ASSUME NEW S, NEW old \in Seq(S), NEW new \in Seq(S)
  PROVE  LET B == Table(old, new)
         IN  /\ \A i \in 0..Len(old), j \in 0..Len(new) : B[i][j] \in Nat
             /\ \A i \in 0..Len(old) : B[i][0] = 0
             /\ \A j \in 0..Len(new) : B[0][j] = 0
             /\ \A i \in 1..Len(old), j \in 1..Len(new) :
                  B[i][j] = IF old[i] = new[j] THEN B[i - 1][j - 1] + 1
                            ELSE IF B[i - 1][j] >= B[i][j - 1] THEN B[i - 1][j] ELSE B[i][j - 1]
<1> DEFINE B == Table(old, new)
           N == Len(old)
           M == Len(new)
<1>1. N \in Nat /\ M \in Nat
  OBVIOUS
<1>2. B \in [0..N -> [0..M -> Nat]]
  BY TableExists
<1>3. B[0] = [j \in 0..M |-> 0] /\ \A i \in 1..N : B[i] = RowBelow(old, new, i, B[i - 1])
  BY <1>1, TableExists DEF IsTable
<1> HIDE DEF B
<1>4. \A i \in 0..N, j \in 0..M : B[i][j] \in Nat
  BY <1>2
<1>5. ASSUME NEW i \in 1..N
      PROVE  \A j \in 0..M : B[i][j] = IF j = 0 THEN 0
                                         ELSE IF old[i] = new[j] THEN B[i - 1][j - 1] + 1
                                         ELSE Max({B[i - 1][j], B[i][j - 1]})
  <2>0. i - 1 \in 0..N
    BY <1>1
  <2>1. B[i - 1] \in [0..M -> Nat]
    BY <1>2, <2>0
  <2>2. IsRow(B[i], old, new, i, B[i - 1])
    BY <1>3, <2>1, RowExists
  <2> QED
    BY <2>2 DEF IsRow
<1>6. ASSUME NEW i \in 0..N PROVE B[i][0] = 0
  <2>1. 0 \in 0..M
    BY <1>1
  <2>2. CASE i = 0
    BY <1>3, <2>1, <2>2
  <2>3. CASE i # 0
    <3>1. i \in 1..N
      BY <1>1, <2>3
    <3> QED
      BY <1>5, <2>1, <3>1
  <2> QED
    BY <2>2, <2>3
<1>7. \A j \in 0..M : B[0][j] = 0
  BY <1>3
<1>8. ASSUME NEW i \in 1..N, NEW j \in 1..M
      PROVE  B[i][j] = IF old[i] = new[j] THEN B[i - 1][j - 1] + 1
                       ELSE IF B[i - 1][j] >= B[i][j - 1] THEN B[i - 1][j] ELSE B[i][j - 1]
  <2>1. j \in 0..M /\ j - 1 \in 0..M /\ i \in 0..N /\ i - 1 \in 0..N /\ j # 0
    BY <1>1
  <2>2. B[i - 1][j] \in Nat /\ B[i][j - 1] \in Nat
    BY <1>4, <2>1
  <2>3. B[i - 1][j] \in Int /\ B[i][j - 1] \in Int
    BY <2>2
  <2>4. Max({B[i - 1][j], B[i][j - 1]}) = IF B[i - 1][j] >= B[i][j - 1] THEN B[i - 1][j] ELSE B[i][j - 1]
    BY <2>3, MaxOfTwo
  <2> QED
    BY <1>5, <2>1, <2>4
<1> QED
  BY <1>4, <1>6, <1>7, <1>8 DEF B

\* Neighbours in the table differ by at most one.
LEMMA TableSteps ==
  ASSUME NEW S, NEW old \in Seq(S), NEW new \in Seq(S)
  PROVE  LET B == Table(old, new)
         IN  \A i \in 0..Len(old), j \in 0..Len(new) :
               /\ i > 0 => B[i - 1][j] <= B[i][j] /\ B[i][j] <= B[i - 1][j] + 1
               /\ j > 0 => B[i][j - 1] <= B[i][j] /\ B[i][j] <= B[i][j - 1] + 1
<1> DEFINE B == Table(old, new)
           N == Len(old)
           M == Len(new)
           Near(i, j) == /\ i > 0 => B[i - 1][j] <= B[i][j] /\ B[i][j] <= B[i - 1][j] + 1
                         /\ j > 0 => B[i][j - 1] <= B[i][j] /\ B[i][j] <= B[i][j - 1] + 1
           K == {n \in Nat : \A i \in 0..N, j \in 0..M : i + j <= n => Near(i, j)}
<1>0. N \in Nat /\ M \in Nat
  OBVIOUS
<1>1. /\ \A i \in 0..N, j \in 0..M : B[i][j] \in Nat
      /\ \A i \in 0..N : B[i][0] = 0
      /\ \A j \in 0..M : B[0][j] = 0
      /\ \A i \in 1..N, j \in 1..M :
           B[i][j] = IF old[i] = new[j] THEN B[i - 1][j - 1] + 1
                     ELSE IF B[i - 1][j] >= B[i][j - 1] THEN B[i - 1][j] ELSE B[i][j - 1]
  BY TableEntries
<1> HIDE DEF B, N, M
<1>2. ASSUME NEW i \in 0..N, NEW j \in 0..M, i = 0 \/ j = 0 PROVE Near(i, j)
  <2>1. CASE i = 0
    <3>1. j > 0 => j - 1 \in 0..M
      BY <1>0
    <3>2. B[i][j] = 0 /\ (j > 0 => B[i][j - 1] = 0)
      BY <1>1, <2>1, <3>1
    <3> QED
      BY <2>1, <3>2
  <2>2. CASE j = 0
    <3>1. i > 0 => i - 1 \in 0..N
      BY <1>0
    <3>2. B[i][j] = 0 /\ (i > 0 => B[i - 1][j] = 0)
      BY <1>1, <2>2, <3>1
    <3> QED
      BY <2>2, <3>2
  <2> QED
    BY <1>2, <2>1, <2>2
<1>3. 0 \in K
  <2> SUFFICES ASSUME NEW i \in 0..N, NEW j \in 0..M, i + j <= 0 PROVE Near(i, j)
    OBVIOUS
  <2>1. i = 0
    BY <1>0
  <2> QED
    BY <1>2, <2>1
<1>4. ASSUME NEW n \in K PROVE n + 1 \in K
  <2> SUFFICES ASSUME NEW i \in 0..N, NEW j \in 0..M, i + j <= n + 1 PROVE Near(i, j)
    OBVIOUS
  <2>1. CASE i = 0 \/ j = 0
    BY <1>2, <2>1
  <2>2. CASE i # 0 /\ j # 0
    <3>1. /\ n \in Nat /\ i \in 1..N /\ j \in 1..M /\ i - 1 \in 0..N /\ j - 1 \in 0..M
          /\ (i - 1) + j <= n /\ i + (j - 1) <= n
      BY <1>0, <2>2
    <3>2. Near(i - 1, j) /\ Near(i, j - 1)
      BY <1>4, <3>1
    <3> DEFINE corner == B[i - 1][j - 1]
               up == B[i - 1][j]
               left == B[i][j - 1]
               here == B[i][j]
    <3>3. corner <= up /\ up <= corner + 1 /\ corner <= left /\ left <= corner + 1
      <4>1. j > 0 /\ i > 0
        BY <3>1
      <4> QED
        BY <3>2, <4>1
    <3>4. i \in 0..N /\ j \in 0..M
      OBVIOUS
    <3>5. here \in Nat /\ corner \in Nat /\ up \in Nat /\ left \in Nat
      <4> HIDE DEF N, M
      <4> QED
        BY <1>1, <3>1, <3>4
    <3>6. here = IF old[i] = new[j] THEN corner + 1 ELSE IF up >= left THEN up ELSE left
      BY <1>1, <3>1
    <3>7. /\ up <= here /\ here <= up + 1
          /\ left <= here /\ here <= left + 1
      <4> HIDE DEF corner, up, left, here
      <4> QED
        BY <3>3, <3>5, <3>6
    <3> QED
      BY <3>7
  <2> QED
    BY <2>1, <2>2
<1>5. \A n \in Nat : n \in K
  <2> HIDE DEF K
  <2>1. K \in SUBSET Nat
    BY DEF K
  <2> QED
    BY <1>3, <1>4, <2>1, AllNumbers
<1>6. ASSUME NEW i \in 0..N, NEW j \in 0..M PROVE Near(i, j)
  <2>1. i + j \in Nat
    BY <1>0
  <2>2. i + j \in K
    BY <1>5, <2>1
  <2> QED
    BY <2>1, <2>2
<1> QED
  BY <1>6 DEF B, N, M

------------------------------------------------------------------------------
(* The edit distances of all prefixes.  The search may run over the end of *)
(* a text, so the texts go on without end here, with lines that are        *)
(* nowhere in the other one.                                               *)

Lesser(a, b) == IF a <= b THEN a ELSE b
Matches(old, new) ==
  {m \in Nat \X Nat : m[1] < Len(old) /\ m[2] < Len(new) /\ old[m[1] + 1] = new[m[2] + 1]}
Distances(old, new) ==
  [x \in Nat |-> [y \in Nat |->
    x + y - 2 * Table(old, new)[Lesser(x, Len(old))][Lesser(y, Len(new))]]]

\* What the proof needs of distances D when the pairs of G are the matches.
Measures(D, G) ==
  /\ D \in [Nat -> [Nat -> Int]]
  /\ \A x \in Nat : D[x][0] = x /\ D[0][x] = x
  /\ \A x, y \in Nat : D[x + 1][y] \in {D[x][y] - 1, D[x][y] + 1}
  /\ \A x, y \in Nat : D[x][y + 1] \in {D[x][y] - 1, D[x][y] + 1}
  /\ \A x, y \in Nat : <<x, y>> \in G => D[x + 1][y + 1] = D[x][y]
  /\ \A x, y \in Nat : <<x, y>> \notin G =>
        D[x + 1][y + 1] = D[x + 1][y] + 1 \/ D[x + 1][y + 1] = D[x][y + 1] + 1
  /\ \A x, y \in Nat : \E h \in Int : D[x][y] = x - y + 2 * h

LEMMA DistancesMeasure ==
  ASSUME NEW S, NEW old \in Seq(S), NEW new \in Seq(S)
  PROVE  /\ Measures(Distances(old, new), Matches(old, new))
         /\ Distances(old, new)[Len(old)][Len(new)]
              = Len(old) + Len(new) - 2 * Common(old, new)
         /\ \A x, y \in Nat : x >= Len(old) /\ y >= Len(new) =>
              Distances(old, new)[x][y] = Distances(old, new)[Len(old)][Len(new)]
                                          + (x - Len(old)) + (y - Len(new))
         /\ Common(old, new) \in Nat
<1> DEFINE B == Table(old, new)
           N == Len(old)
           M == Len(new)
           G == Matches(old, new)
           L(x, y) == B[Lesser(x, N)][Lesser(y, M)]
           D == Distances(old, new)
<1>0. N \in Nat /\ M \in Nat
  OBVIOUS
<1>1. /\ \A i \in 0..N, j \in 0..M : B[i][j] \in Nat
      /\ \A i \in 0..N : B[i][0] = 0
      /\ \A j \in 0..M : B[0][j] = 0
      /\ \A i \in 1..N, j \in 1..M :
           B[i][j] = IF old[i] = new[j] THEN B[i - 1][j - 1] + 1
                     ELSE IF B[i - 1][j] >= B[i][j - 1] THEN B[i - 1][j] ELSE B[i][j - 1]
  BY TableEntries
<1>2. \A i \in 0..N, j \in 0..M :
        /\ i > 0 => B[i - 1][j] <= B[i][j] /\ B[i][j] <= B[i - 1][j] + 1
        /\ j > 0 => B[i][j - 1] <= B[i][j] /\ B[i][j] <= B[i][j - 1] + 1
  BY TableSteps
<1>3. \A x, y \in Nat : <<x, y>> \in G <=> x < N /\ y < M /\ old[x + 1] = new[y + 1]
  BY DEF Matches
<1>4. D = [x \in Nat |-> [y \in Nat |-> x + y - 2 * L(x, y)]]
  BY DEF Distances
<1>5. N \in 0..N /\ M \in 0..M /\ B[N][M] \in Nat
  BY <1>0, <1>1
<1>6. Common(old, new) = B[N][M]
  BY CommonIsTable
<1> HIDE DEF B, N, M, G, D
<1>7. ASSUME NEW x \in Nat, NEW y \in Nat
      PROVE  /\ Lesser(x, N) \in 0..N /\ Lesser(y, M) \in 0..M
             /\ L(x, y) \in Nat
  <2>1. Lesser(x, N) \in 0..N /\ Lesser(y, M) \in 0..M
    BY <1>0 DEF Lesser
  <2> QED
    BY <1>1, <2>1
<1>8. ASSUME NEW x \in Nat, NEW y \in Nat
      PROVE  /\ L(x, y) <= L(x + 1, y) /\ L(x + 1, y) <= L(x, y) + 1
             /\ L(x, y) <= L(x, y + 1) /\ L(x, y + 1) <= L(x, y) + 1
  <2> DEFINE i == Lesser(x, N)
             j == Lesser(y, M)
  <2>1. i \in 0..N /\ j \in 0..M /\ B[i][j] \in Nat
    BY <1>7
  <2>2. L(x, y) <= L(x + 1, y) /\ L(x + 1, y) <= L(x, y) + 1
    <3>1. CASE x < N
      <4>1. i = x /\ Lesser(x + 1, N) = x + 1 /\ x + 1 \in 0..N /\ x + 1 > 0 /\ (x + 1) - 1 = x
        BY <1>0, <3>1 DEF Lesser
      <4>2. B[(x + 1) - 1][j] <= B[x + 1][j] /\ B[x + 1][j] <= B[(x + 1) - 1][j] + 1
        BY <1>2, <2>1, <4>1
      <4> QED
        BY <4>1, <4>2
    <3>2. CASE ~(x < N)
      <4>1. i = N /\ Lesser(x + 1, N) = N
        BY <1>0, <3>2 DEF Lesser
      <4> QED
        BY <2>1, <4>1
    <3> QED
      BY <3>1, <3>2
  <2>3. L(x, y) <= L(x, y + 1) /\ L(x, y + 1) <= L(x, y) + 1
    <3>1. CASE y < M
      <4>1. j = y /\ Lesser(y + 1, M) = y + 1 /\ y + 1 \in 0..M /\ y + 1 > 0 /\ (y + 1) - 1 = y
        BY <1>0, <3>1 DEF Lesser
      <4>2. B[i][(y + 1) - 1] <= B[i][y + 1] /\ B[i][y + 1] <= B[i][(y + 1) - 1] + 1
        BY <1>2, <2>1, <4>1
      <4> QED
        BY <4>1, <4>2
    <3>2. CASE ~(y < M)
      <4>1. j = M /\ Lesser(y + 1, M) = M
        BY <1>0, <3>2 DEF Lesser
      <4> QED
        BY <2>1, <4>1
    <3> QED
      BY <3>1, <3>2
  <2> QED
    BY <2>2, <2>3
<1>9. ASSUME NEW x \in Nat, NEW y \in Nat
      PROVE  IF <<x, y>> \in G THEN L(x + 1, y + 1) = L(x, y) + 1
             ELSE L(x + 1, y + 1) = L(x + 1, y) \/ L(x + 1, y + 1) = L(x, y + 1)
  <2>1. CASE x < N /\ y < M
    <3>1. /\ Lesser(x, N) = x /\ Lesser(x + 1, N) = x + 1 /\ Lesser(y, M) = y /\ Lesser(y + 1, M) = y + 1
          /\ x + 1 \in 1..N /\ y + 1 \in 1..M /\ (x + 1) - 1 = x /\ (y + 1) - 1 = y
      BY <1>0, <2>1 DEF Lesser
    <3>2. B[x + 1][y + 1] = IF old[x + 1] = new[y + 1] THEN B[(x + 1) - 1][(y + 1) - 1] + 1
                     ELSE IF B[(x + 1) - 1][y + 1] >= B[x + 1][(y + 1) - 1]
                          THEN B[(x + 1) - 1][y + 1] ELSE B[x + 1][(y + 1) - 1]
      BY <1>1, <3>1
    <3>3. B[x + 1][y + 1] = IF old[x + 1] = new[y + 1] THEN B[x][y] + 1
                     ELSE IF B[x][y + 1] >= B[x + 1][y] THEN B[x][y + 1] ELSE B[x + 1][y]
      BY <3>1, <3>2
    <3> QED
      BY <1>3, <2>1, <3>1, <3>3
  <2>2. CASE x >= N
    <3>1. <<x, y>> \notin G /\ Lesser(x, N) = N /\ Lesser(x + 1, N) = N
      BY <1>0, <1>3, <2>2 DEF Lesser
    <3> QED
      BY <3>1
  <2>3. CASE y >= M
    <3>1. <<x, y>> \notin G
      BY <1>0, <1>3, <2>3
    <3>2. Lesser(y, M) = M /\ Lesser(y + 1, M) = M
      BY <1>0, <2>3 DEF Lesser
    <3> QED
      BY <3>1, <3>2
  <2> QED
    BY <1>0, <2>1, <2>2, <2>3
<1>10. \A x \in Nat : L(x, 0) = 0 /\ L(0, x) = 0
  <2> TAKE x \in Nat
  <2>1. Lesser(0, N) = 0 /\ Lesser(0, M) = 0 /\ Lesser(x, N) \in 0..N /\ Lesser(x, M) \in 0..M
    BY <1>0 DEF Lesser
  <2> QED
    BY <1>1, <2>1
<1>11. \A x, y \in Nat : x >= N /\ y >= M => L(x, y) = B[N][M]
  BY <1>0 DEF Lesser
<1>12. L(N, M) = B[N][M]
  BY <1>0 DEF Lesser
<1>18. \A x, y \in Nat : L(x, y) \in Nat
  BY <1>7
<1> HIDE DEF L
<1>13. \A x, y \in Nat : D[x][y] = x + y - 2 * L(x, y) /\ L(x, y) \in Nat
  BY <1>4, <1>7
<1>14. Measures(D, G)
  <2>1. D \in [Nat -> [Nat -> Int]]
    <3>1. ASSUME NEW x \in Nat, NEW y \in Nat PROVE x + y - 2 * L(x, y) \in Int
      <4>1. L(x, y) \in Nat
        BY <1>18
      <4> QED
        BY <4>1
    <3> QED
      BY <1>4, <3>1
  <2>2. \A x \in Nat : D[x][0] = x /\ D[0][x] = x
    <3> TAKE x \in Nat
    <3>1. 0 \in Nat
      OBVIOUS
    <3>2. D[x][0] = x + 0 - 2 * L(x, 0) /\ D[0][x] = 0 + x - 2 * L(0, x)
      BY <1>13, <3>1
    <3> QED
      BY <1>10, <3>2
  <2>3. ASSUME NEW x \in Nat, NEW y \in Nat
        PROVE  /\ D[x + 1][y] \in {D[x][y] - 1, D[x][y] + 1}
               /\ D[x][y + 1] \in {D[x][y] - 1, D[x][y] + 1}
               /\ <<x, y>> \in G => D[x + 1][y + 1] = D[x][y]
               /\ <<x, y>> \notin G =>
                    D[x + 1][y + 1] = D[x + 1][y] + 1 \/ D[x + 1][y + 1] = D[x][y + 1] + 1
               /\ \E h \in Int : D[x][y] = x - y + 2 * h
    <3>1. x + 1 \in Nat /\ y + 1 \in Nat
      OBVIOUS
    <3> DEFINE a == L(x, y)
               b == L(x + 1, y)
               c == L(x, y + 1)
               e == L(x + 1, y + 1)
    <3>10. a \in Nat /\ b \in Nat /\ c \in Nat /\ e \in Nat
      BY <1>18, <3>1
    <3>11. D[x][y] = x + y - 2 * a
      BY <1>13
    <3>12. D[x + 1][y] = x + 1 + y - 2 * b
      BY <1>13, <3>1
    <3>13. D[x][y + 1] = x + y + 1 - 2 * c
      <4>1. D[x][y + 1] = x + (y + 1) - 2 * c
        BY <1>13, <3>1
      <4> QED
        BY <3>10, <4>1
    <3>14. D[x + 1][y + 1] = x + 1 + y + 1 - 2 * e
      <4> DEFINE p == x + 1
                 q == y + 1
      <4>1. p \in Nat /\ q \in Nat
        BY <3>1
      <4>2. D[p][q] = p + q - 2 * L(p, q)
        <5> HIDE DEF p, q
        <5> QED
          BY <1>13, <4>1
      <4>3. D[x + 1][y + 1] = (x + 1) + (y + 1) - 2 * e
        BY <4>2
      <4> HIDE DEF e
      <4> QED
        BY <3>10, <4>3
    <3>8. a <= b /\ b <= a + 1 /\ a <= c /\ c <= a + 1
      BY <1>8
    <3>9. IF <<x, y>> \in G THEN e = a + 1 ELSE e = b \/ e = c
      BY <1>9
    <3> HIDE DEF a, b, c, e
    <3>3. D[x + 1][y] \in {D[x][y] - 1, D[x][y] + 1}
      BY <3>10, <3>11, <3>12, <3>13, <3>14, <3>8
    <3>4. D[x][y + 1] \in {D[x][y] - 1, D[x][y] + 1}
      BY <3>10, <3>11, <3>12, <3>13, <3>14, <3>8
    <3>5. <<x, y>> \in G => D[x + 1][y + 1] = D[x][y]
      BY <3>10, <3>11, <3>12, <3>13, <3>14, <3>9
    <3>6. <<x, y>> \notin G =>
            D[x + 1][y + 1] = D[x + 1][y] + 1 \/ D[x + 1][y + 1] = D[x][y + 1] + 1
      BY <3>10, <3>11, <3>12, <3>13, <3>14, <3>9
    <3>7. \E h \in Int : D[x][y] = x - y + 2 * h
      <4>1. y - a \in Int /\ D[x][y] = x - y + 2 * (y - a)
        BY <3>10, <3>11
      <4> QED
        BY <4>1
    <3> QED
      BY <3>3, <3>4, <3>5, <3>6, <3>7
  <2> QED
    BY <2>1, <2>2, <2>3 DEF Measures
<1>15. D[N][M] = N + M - 2 * B[N][M]
  BY <1>0, <1>12, <1>13
<1>16. ASSUME NEW x \in Nat, NEW y \in Nat, x >= N, y >= M
       PROVE  D[x][y] = D[N][M] + (x - N) + (y - M)
  <2>1. D[x][y] = x + y - 2 * B[N][M]
    BY <1>11, <1>13, <1>16
  <2> DEFINE b == B[N][M]
  <2>2. b \in Nat /\ D[x][y] = x + y - 2 * b /\ D[N][M] = N + M - 2 * b
    BY <1>5, <1>15, <2>1
  <2> HIDE DEF b
  <2> QED
    BY <1>0, <2>2
<1>17. Common(old, new) \in Nat /\ D[N][M] = N + M - 2 * Common(old, new)
  BY <1>5, <1>6, <1>15
<1> QED
  BY <1>14, <1>16, <1>17 DEF D, G, N, M

\* A line after the ends is one more change.
LEMMA AfterTheEnds ==
  ASSUME NEW S, NEW old \in Seq(S), NEW new \in Seq(S)
  PROVE  Distances(old, new)[Len(old) + 1][Len(new) + 1]
           = Distances(old, new)[Len(old)][Len(new)] + 2
<1> DEFINE N == Len(old)
           M == Len(new)
           D == Distances(old, new)
           dist == D[N][M]
<1>1. N \in Nat /\ M \in Nat
  OBVIOUS
<1>2. \A x, y \in Nat : x >= N /\ y >= M => D[x][y] = dist + (x - N) + (y - M)
  BY DistancesMeasure
<1>3. Measures(D, Matches(old, new))
  BY DistancesMeasure
<1>4. dist \in Int
  <2> HIDE DEF D, N, M
  <2> QED
    BY <1>1, <1>3 DEF Measures
<1> HIDE DEF D, N, M, dist
<1>5. N + 1 \in Nat /\ M + 1 \in Nat /\ N + 1 >= N /\ M + 1 >= M /\ (N + 1) - N = 1 /\ (M + 1) - M = 1
  BY <1>1
<1>6. D[N + 1][M + 1] = dist + ((N + 1) - N) + ((M + 1) - M)
  BY <1>2, <1>5
<1>7. D[N + 1][M + 1] = dist + 2
  BY <1>4, <1>5, <1>6
<1> QED
  BY <1>7 DEF D, N, M, dist

\* One further along a diagonal is at least as far, and no diagonal is nearer
\* than it is away from the middle.
LEMMA MeasureBounds ==
  ASSUME NEW D, NEW G, Measures(D, G)
  PROVE  /\ \A x, y \in Nat : D[x][y] \in Int /\ D[x + 1][y + 1] >= D[x][y]
         /\ \A x, y \in Nat : D[x][y] >= x - y /\ D[x][y] >= y - x /\ D[x][y] >= 0
<1>1. \A x, y \in Nat : D[x][y] \in Int
  BY DEF Measures
<1>2. ASSUME NEW x \in Nat, NEW y \in Nat PROVE D[x + 1][y + 1] >= D[x][y]
  <2> DEFINE a == D[x][y]
             b == D[x + 1][y]
             c == D[x][y + 1]
             e == D[x + 1][y + 1]
  <2>1. x + 1 \in Nat /\ y + 1 \in Nat
    OBVIOUS
  <2>2. a \in Int /\ b \in Int /\ c \in Int /\ e \in Int
    BY <1>1, <2>1
  <2>3. b \in {a - 1, a + 1} /\ c \in {a - 1, a + 1} /\ (e = a \/ e = b + 1 \/ e = c + 1)
    BY DEF Measures
  <2> HIDE DEF a, b, c, e
  <2>4. e >= a
    BY <2>2, <2>3
  <2> QED
    BY <2>4 DEF a, e
<1>3. ASSUME NEW x \in Nat PROVE \A y \in Nat : D[x][y] >= x - y
  <2> DEFINE K == {y \in Nat : D[x][y] >= x - y}
  <2>1. 0 \in K
    <3>1. D[x][0] = x
      BY DEF Measures
    <3> QED
      BY <3>1
  <2>2. ASSUME NEW y \in K PROVE y + 1 \in K
    <3> DEFINE a == D[x][y]
               c == D[x][y + 1]
    <3>1. y \in Nat /\ y + 1 \in Nat /\ a >= x - y
      OBVIOUS
    <3>2. a \in Int /\ c \in Int
      BY <1>1, <3>1
    <3>3. c \in {a - 1, a + 1}
      BY <3>1 DEF Measures
    <3>4. c >= x - (y + 1)
      <4> HIDE DEF a, c
      <4> QED
        BY <3>1, <3>2, <3>3
    <3> QED
      BY <3>1, <3>4
  <2>3. K \in SUBSET Nat
    OBVIOUS
  <2> HIDE DEF K
  <2>4. \A y \in Nat : y \in K
    BY <2>1, <2>2, <2>3, AllNumbers
  <2> QED
    BY <2>4 DEF K
<1>4. ASSUME NEW y \in Nat PROVE \A x \in Nat : D[x][y] >= y - x
  <2> DEFINE K == {x \in Nat : D[x][y] >= y - x}
  <2>1. 0 \in K
    <3>1. D[0][y] = y
      BY DEF Measures
    <3> QED
      BY <3>1
  <2>2. ASSUME NEW x \in K PROVE x + 1 \in K
    <3> DEFINE a == D[x][y]
               c == D[x + 1][y]
    <3>1. x \in Nat /\ x + 1 \in Nat /\ a >= y - x
      OBVIOUS
    <3>2. a \in Int /\ c \in Int
      BY <1>1, <3>1
    <3>3. c \in {a - 1, a + 1}
      BY <3>1 DEF Measures
    <3>4. c >= y - (x + 1)
      <4> HIDE DEF a, c
      <4> QED
        BY <3>1, <3>2, <3>3
    <3> QED
      BY <3>1, <3>4
  <2>3. K \in SUBSET Nat
    OBVIOUS
  <2> HIDE DEF K
  <2>4. \A x \in Nat : x \in K
    BY <2>1, <2>2, <2>3, AllNumbers
  <2> QED
    BY <2>4 DEF K
<1>5. ASSUME NEW x \in Nat, NEW y \in Nat
      PROVE  D[x][y] >= x - y /\ D[x][y] >= y - x /\ D[x][y] >= 0
  <2> DEFINE a == D[x][y]
  <2>1. a \in Int /\ a >= x - y /\ a >= y - x
    BY <1>1, <1>3, <1>4
  <2>2. a >= 0
    <3> HIDE DEF a
    <3> QED
      BY <2>1
  <2> QED
    BY <2>1, <2>2
<1> QED
  BY <1>1, <1>2, <1>5

\* n matches.
Matching(G, x, y, n) == \A m \in 0..(n - 1) : <<x + m, y + m>> \in G

\* Along a diagonal distances never fall, and on matches they do not change.
LEMMA AlongDiagonals ==
  ASSUME NEW D, NEW G, Measures(D, G), NEW x \in Nat, NEW y \in Nat, NEW n \in Nat
  PROVE  /\ D[x + n][y + n] >= D[x][y]
         /\ Matching(G, x, y, n) => D[x + n][y + n] = D[x][y]
<1> DEFINE K == {i \in Nat : /\ D[x + i][y + i] >= D[x][y]
                             /\ (\A m \in 0..(i - 1) : <<x + m, y + m>> \in G) =>
                                  D[x + i][y + i] = D[x][y]}
<1>0. \A u, w \in Nat : D[u][w] \in Int /\ D[u + 1][w + 1] >= D[u][w]
  BY MeasureBounds
<1>1. 0 \in K
  <2>1. x + 0 = x /\ y + 0 = y /\ D[x][y] \in Int
    BY <1>0
  <2> QED
    BY <2>1
<1>2. ASSUME NEW i \in K PROVE i + 1 \in K
  <2> DEFINE u == x + i
             w == y + i
  <2>1. /\ i \in Nat /\ u \in Nat /\ w \in Nat
        /\ x + (i + 1) = u + 1 /\ y + (i + 1) = w + 1
        /\ (i + 1) - 1 = i
    OBVIOUS
  <2>2. D[u][w] >= D[x][y] /\ ((\A m \in 0..(i - 1) : <<x + m, y + m>> \in G) => D[u][w] = D[x][y])
    OBVIOUS
  <2>3. D[u + 1][w + 1] >= D[x][y]
    <3> DEFINE a == D[x][y]
               b == D[u][w]
               c == D[u + 1][w + 1]
    <3>1. a \in Int /\ b \in Int /\ c \in Int /\ b >= a /\ c >= b
      BY <1>0, <2>1, <2>2
    <3> HIDE DEF a, b, c
    <3>2. c >= a
      BY <3>1
    <3> QED
      BY <3>2 DEF a, c
  <2>4. ASSUME \A m \in 0..i : <<x + m, y + m>> \in G PROVE D[u + 1][w + 1] = D[x][y]
    <3>1. \A m \in 0..(i - 1) : m \in 0..i
      BY <2>1
    <3>2. i \in 0..i
      BY <2>1
    <3>3. D[u][w] = D[x][y] /\ <<u, w>> \in G
      BY <2>2, <2>4, <3>1, <3>2
    <3> QED
      BY <2>1, <3>3 DEF Measures
  <2> QED
    BY <2>1, <2>3, <2>4
<1>3. n \in K
  <2> HIDE DEF K
  <2>1. K \in SUBSET Nat
    BY DEF K
  <2> QED
    BY <1>1, <1>2, <2>1, AllNumbers
<1> QED
  BY <1>3 DEF Matching

------------------------------------------------------------------------------
(* The search: how far it has come on a diagonal is as far as d changes    *)
(* lead, and no further.                                                   *)

Reaches(D, d, x, y) ==
  /\ x \in Nat /\ y \in Nat
  /\ D[x][y] <= d
  /\ D[x + 1][y + 1] > d

\* A place on the diagonal within d changes is not beyond what d reaches.
LEMMA ReachesAll ==
  ASSUME NEW D, NEW G, Measures(D, G), NEW d \in Int, NEW x, NEW y, Reaches(D, d, x, y),
         NEW u \in Nat, NEW w \in Nat, x - y = u - w, D[u][w] <= d
  PROVE  u <= x /\ w <= y
<1>0. x \in Nat /\ y \in Nat /\ D[x + 1][y + 1] > d
  BY DEF Reaches
<1>1. SUFFICES ASSUME u > x PROVE FALSE
  BY <1>0
<1> DEFINE p == x + 1
           q == y + 1
           n == u - p
<1>2. n \in Nat /\ p \in Nat /\ q \in Nat /\ p + n = u /\ q + n = w
  BY <1>0, <1>1
<1>3. D[p][q] > d
  BY <1>0
<1> HIDE DEF p, q, n
<1>4. D[p + n][q + n] >= D[p][q]
  BY <1>2, AlongDiagonals
<1>5. D[u][w] >= D[p][q] /\ D[u][w] \in Int /\ D[p][q] \in Int
  BY <1>2, <1>4, MeasureBounds
<1> DEFINE a == D[u][w]
           b == D[p][q]
<1>6. a \in Int /\ b \in Int /\ a >= b /\ b > d /\ a <= d
  BY <1>3, <1>5
<1> HIDE DEF a, b
<1> QED
  BY <1>6

Lands(D, d, x, y, n) == Reaches(D, d, x + n, y + n) /\ D[x + n][y + n] = D[x][y]
Within(D, d, x, y) == D[x][y] <= d /\ D[x + 1][y] >= d /\ D[x][y + 1] >= d

\* The slide from where a round sets out, when that is within d changes and
\* both neighbours are beyond d - 1.
LEMMA SlideReaches ==
  ASSUME NEW D, NEW G, Measures(D, G), NEW d \in Nat, NEW x \in Nat, NEW y \in Nat,
         NEW n \in Nat, Within(D, d, x, y), Matching(G, x, y, n),
         <<x + n, y + n>> \notin G
  PROVE  Lands(D, d, x, y, n)
<1>0. D[x][y] <= d /\ D[x + 1][y] >= d /\ D[x][y + 1] >= d
  BY DEF Within
<1>1. D[x + n][y + n] = D[x][y]
  BY AlongDiagonals, SMTT(30)
<1>2. x + n \in Nat /\ y + n \in Nat /\ x + 1 \in Nat /\ y + 1 \in Nat
  OBVIOUS
<1>3. D[(x + 1) + n][y + n] >= D[x + 1][y]
  BY <1>2, AlongDiagonals
<1>4. D[x + n][(y + 1) + n] >= D[x][y + 1]
  BY <1>2, AlongDiagonals
<1> DEFINE u == x + n
           w == y + n
<1>5. (x + 1) + n = u + 1 /\ (y + 1) + n = w + 1 /\ u \in Nat /\ w \in Nat /\ u + 1 \in Nat /\ w + 1 \in Nat
  OBVIOUS
<1>6. <<u, w>> \notin G
  OBVIOUS
<1>7. D[u + 1][w] >= D[x + 1][y] /\ D[u][w + 1] >= D[x][y + 1]
  BY <1>3, <1>4, <1>5
<1> HIDE DEF u, w
<1>8. D[u + 1][w + 1] = D[u + 1][w] + 1 \/ D[u + 1][w + 1] = D[u][w + 1] + 1
  BY <1>5, <1>6 DEF Measures
<1>9. /\ D[u + 1][w + 1] \in Int /\ D[u + 1][w] \in Int /\ D[u][w + 1] \in Int
      /\ D[x + 1][y] \in Int /\ D[x][y + 1] \in Int
  BY <1>2, <1>5, MeasureBounds
<1>10. D[u + 1][w + 1] > d
  <2> DEFINE a == D[u + 1][w + 1]
             b == D[u + 1][w]
             c == D[u][w + 1]
             e == D[x + 1][y]
             f == D[x][y + 1]
  <2>1. /\ a \in Int /\ b \in Int /\ c \in Int /\ e \in Int /\ f \in Int
        /\ b >= e /\ c >= f /\ e >= d /\ f >= d /\ (a = b + 1 \/ a = c + 1)
    BY <1>0, <1>7, <1>8, <1>9
  <2>2. a > d
    <3> HIDE DEF a, b, c, e, f
    <3> QED
      BY <2>1
  <2> QED
    BY <2>2
<1>11. D[u][w] <= d
  BY <1>0, <1>1 DEF u, w
<1> QED
  BY <1>1, <1>5, <1>10, <1>11 DEF Reaches, Lands, u, w

\* A set of numbers that is not empty has a least one.
LEMMA Least ==
  ASSUME NEW a \in Int, NEW Z \in SUBSET Int, Z # {}, \A z \in Z : z >= a
  PROVE  Min(Z) \in Z /\ \A z \in Z : Min(Z) <= z
<1>1. \E m \in Z : \A z \in Z : m <= z
  <2> SUFFICES ASSUME \A m \in Z : \E z \in Z : z < m PROVE FALSE
    OBVIOUS
  <2> DEFINE L == {n \in Nat : \A z \in Z : z >= a + n}
  <2>1. 0 \in L
    OBVIOUS
  <2>2. ASSUME NEW n \in L PROVE n + 1 \in L
    <3>1. n \in Nat /\ \A z \in Z : z >= a + n
      OBVIOUS
    <3>2. a + n \notin Z
      BY <3>1
    <3>3. \A z \in Z : z >= a + (n + 1)
      BY <3>1, <3>2
    <3> QED
      BY <3>1, <3>3
  <2>3. PICK z \in Z : TRUE
    OBVIOUS
  <2>4. z - a + 1 \in Nat
    BY <2>3
  <2>5. z - a + 1 \in L
    <3> HIDE DEF L
    <3>1. L \in SUBSET Nat
      BY DEF L
    <3> QED
      BY <2>1, <2>2, <2>4, <3>1, AllNumbers
  <2> QED
    BY <2>3, <2>5
<1> QED
  BY <1>1 DEF Min

\* And a greatest one, if there is a bound.
LEMMA Greatest ==
  ASSUME NEW a \in Int, NEW Z \in SUBSET Int, Z # {}, \A z \in Z : z <= a
  PROVE  Max(Z) \in Z /\ \A z \in Z : Max(Z) >= z
<1>1. \E m \in Z : \A z \in Z : m >= z
  <2> SUFFICES ASSUME \A m \in Z : \E z \in Z : z > m PROVE FALSE
    OBVIOUS
  <2> DEFINE L == {n \in Nat : \A z \in Z : z <= a - n}
  <2>1. 0 \in L
    OBVIOUS
  <2>2. ASSUME NEW n \in L PROVE n + 1 \in L
    <3>1. n \in Nat /\ \A z \in Z : z <= a - n
      OBVIOUS
    <3>2. a - n \notin Z
      BY <3>1
    <3>3. \A z \in Z : z <= a - (n + 1)
      BY <3>1, <3>2
    <3> QED
      BY <3>1, <3>3
  <2>3. PICK z \in Z : TRUE
    OBVIOUS
  <2>4. a - z + 1 \in Nat
    BY <2>3
  <2>5. a - z + 1 \in L
    <3> HIDE DEF L
    <3>1. L \in SUBSET Nat
      BY DEF L
    <3> QED
      BY <2>1, <2>2, <2>4, <3>1, AllNumbers
  <2> QED
    BY <2>3, <2>5
<1> QED
  BY <1>1 DEF Max

\* Slide goes along matches until there is none.
LEMMA SlideAlongMatches ==
  ASSUME NEW S, NEW old \in Seq(S), NEW new \in Seq(S), NEW x \in Int, NEW k \in Int
  PROVE  LET e == Slide(old, new, x, k)
         IN  /\ e \in Int /\ e >= x
             /\ x >= 0 /\ x - k >= 0 =>
                  /\ \A m \in 0..(e - x - 1) : <<x + m, (x - k) + m>> \in Matches(old, new)
                  /\ <<e, e - k>> \notin Matches(old, new)
<1> DEFINE N == Len(old)
           M == Len(new)
           top == Max({x, N})
           Z == {e \in x..top : e >= N \/ e - k >= M \/ old[e + 1] # new[e - k + 1]}
           e == Slide(old, new, x, k)
<1>1. N \in Nat /\ M \in Nat
  OBVIOUS
<1>2. top \in Int /\ top >= x /\ top >= N
  <2> HIDE DEF N
  <2>1. N \in Int
    BY <1>1
  <2> QED
    BY <2>1, MaxOfTwo
<1>3. e = Min(Z)
  BY DEF Slide
<1>4. Z \in SUBSET Int /\ top \in Z /\ \A z \in Z : z >= x
  <2> HIDE DEF N, M, top
  <2>1. top \in x..top
    BY <1>2
  <2> QED
    BY <1>1, <1>2, <2>1
<1>5. e \in Z /\ \A z \in Z : e <= z
  <2> HIDE DEF Z, e
  <2> QED
    BY <1>3, <1>4, Least
<1>6. e \in Int /\ e >= x /\ e <= top
  <2> HIDE DEF e, top
  <2> QED
    BY <1>2, <1>5
<1>7. ASSUME x >= 0, x - k >= 0
      PROVE  /\ \A m \in 0..(e - x - 1) : <<x + m, (x - k) + m>> \in Matches(old, new)
             /\ <<e, e - k>> \notin Matches(old, new)
  <2>1. <<e, e - k>> \notin Matches(old, new)
    <3> HIDE DEF e
    <3>1. e >= N \/ e - k >= M \/ old[e + 1] # new[e - k + 1]
      BY <1>5
    <3> QED
      BY <1>1, <1>6, <3>1 DEF Matches
  <2>2. ASSUME NEW m \in 0..(e - x - 1)
        PROVE  <<x + m, (x - k) + m>> \in Matches(old, new)
    <3> DEFINE f == x + m
    <3> HIDE DEF e, top
    <3>1. f \in Int /\ f >= x /\ f < e /\ f \in x..top /\ (x - k) + m = f - k /\ m \in Nat
      BY <1>2, <1>6
    <3>2. f \notin Z
      BY <1>5, <1>6, <3>1
    <3> HIDE DEF f
    <3>3. f < N /\ f - k < M /\ old[f + 1] = new[f - k + 1]
      BY <1>1, <3>1, <3>2
    <3>4. f \in Nat /\ f - k \in Nat
      BY <1>7, <3>1
    <3> QED
      BY <3>1, <3>3, <3>4 DEF Matches, f
  <2> QED
    BY <2>1, <2>2
<1> QED
  BY <1>6, <1>7

\* The diagonals of a round, and their neighbours in the round before.
LEMMA TurnsNear ==
  ASSUME NEW d \in Nat, NEW k \in Turns(d)
  PROVE  /\ k \in Int /\ -d <= k /\ k <= d
         /\ k # -d => k - 1 \in Turns(d - 1)
         /\ k # d => k + 1 \in Turns(d - 1)
<1>1. k \in Int /\ -d <= k /\ k <= d /\ (k + d) % 2 = 0
  BY DEF Turns
<1>2. k # -d => k - 1 \in Turns(d - 1)
  <2> SUFFICES ASSUME k # -d PROVE k - 1 \in Turns(d - 1)
    OBVIOUS
  <2>1. k # -d + 1
    BY <1>1
  <2>2. k - 1 >= -(d - 1) /\ k - 1 <= d - 1 /\ ((k - 1) + (d - 1)) % 2 = 0
    BY <1>1, <2>1
  <2> QED
    BY <1>1, <2>2 DEF Turns
<1>3. k # d => k + 1 \in Turns(d - 1)
  <2> SUFFICES ASSUME k # d PROVE k + 1 \in Turns(d - 1)
    OBVIOUS
  <2>1. k # d - 1
    BY <1>1
  <2>2. k + 1 >= -(d - 1) /\ k + 1 <= d - 1 /\ ((k + 1) + (d - 1)) % 2 = 0
    BY <1>1, <2>1
  <2> QED
    BY <1>1, <2>2 DEF Turns
<1> QED
  BY <1>1, <1>2, <1>3

\* What the array holds when round d begins: w bounds the diagonals.
Frontier(D, v, d, w) ==
  /\ v \in [-w..w -> Int]
  /\ d = 0 => v[1] = 0
  /\ d > 0 => \A j \in Turns(d - 1) : Reaches(D, d - 1, v[j], v[j] - j)

\* Where the turn of diagonal k sets out.
SetsOut(v, d, k) == IF Downwards(v, d, k) THEN v[k + 1] ELSE v[k - 1] + 1

\* It sets out one change from where the round before has come to, within d
\* changes, and both of the neighbouring diagonals are left behind.
LEMMA SetsOutFurthest ==
  ASSUME NEW D, NEW G, Measures(D, G), NEW d \in Nat, NEW w \in Nat, d < w,
         NEW v, Frontier(D, v, d, w), NEW k \in Turns(d)
  PROVE  LET x == SetsOut(v, d, k)
         IN  /\ x \in Nat /\ x - k \in Nat
             /\ D[x][x - k] <= d /\ D[x + 1][x - k] >= d /\ D[x][x - k + 1] >= d
             /\ d > 0 /\ Downwards(v, d, k) => Reaches(D, d - 1, x, x - k - 1)
             /\ d > 0 /\ ~Downwards(v, d, k) => Reaches(D, d - 1, x - 1, x - k)
<1> DEFINE x == SetsOut(v, d, k)
<1>0. \A p, q \in Nat : D[p][q] \in Int /\ D[p][q] >= p - q /\ D[p][q] >= q - p
  BY MeasureBounds
<1>1. k \in Int /\ -d <= k /\ k <= d
  BY TurnsNear
<1>4. \A p, q \in Nat : /\ D[p + 1][q] \in {D[p][q] - 1, D[p][q] + 1}
                        /\ D[p][q + 1] \in {D[p][q] - 1, D[p][q] + 1}
  BY DEF Measures
<1>2. CASE d = 0
  <2>1. k = 0 /\ k = -d /\ k + 1 = 1
    BY <1>1, <1>2
  <2>2. x = 0
    BY <1>2, <2>1 DEF SetsOut, Downwards, Frontier
  <2>3. D[0][0] = 0 /\ D[0 + 1][0] = 1 /\ D[0][0 + 1] = 1
    <3>1. 0 \in Nat /\ 1 \in Nat /\ 0 + 1 = 1
      OBVIOUS
    <3>2. D[0][0] = 0 /\ D[1][0] = 1 /\ D[0][1] = 1
      BY <3>1 DEF Measures
    <3> QED
      BY <3>1, <3>2
  <2> HIDE DEF x
  <2>4. x - k = 0 /\ x - k + 1 = 0 + 1 /\ x + 1 = 0 + 1
    BY <2>1, <2>2
  <2>5. D[x][x - k] = 0 /\ D[x + 1][x - k] = 1 /\ D[x][x - k + 1] = 1
    BY <2>2, <2>3, <2>4
  <2> QED
    BY <1>2, <2>2, <2>4, <2>5 DEF x
<1>3. CASE d > 0
  <2> DEFINE a == v[k - 1]
             b == v[k + 1]
  <2>1. /\ v \in [-w..w -> Int] /\ k - 1 \in -w..w /\ k + 1 \in -w..w
        /\ \A j \in Turns(d - 1) : Reaches(D, d - 1, v[j], v[j] - j)
    BY <1>1, <1>3 DEF Frontier
  <2>2. a \in Int /\ b \in Int
    BY <2>1
  <2>3. k # -d => Reaches(D, d - 1, a, a - (k - 1))
    BY <2>1, TurnsNear
  <2>4. k # d => Reaches(D, d - 1, b, b - (k + 1))
    BY <2>1, TurnsNear
  <2>5. /\ Downwards(v, d, k) <=> k = -d \/ (k # d /\ a < b)
        /\ Downwards(v, d, k) => x = b
        /\ ~Downwards(v, d, k) => x = a + 1
    BY DEF Downwards, SetsOut
  <2> HIDE DEF a, b, x
  <2>6. a - (k - 1) = a - k + 1 /\ b - (k + 1) = b - k - 1
    BY <1>1, <2>2
  <2>7. k # -d => /\ a \in Nat /\ a - k + 1 \in Nat /\ D[a][a - k + 1] <= d - 1
                  /\ D[a + 1][a - k + 1 + 1] >= d
    <3> SUFFICES ASSUME k # -d
                 PROVE /\ a \in Nat /\ a - k + 1 \in Nat /\ D[a][a - k + 1] <= d - 1
                       /\ D[a + 1][a - k + 1 + 1] >= d
      OBVIOUS
    <3>1. a \in Nat /\ a - k + 1 \in Nat /\ D[a][a - k + 1] <= d - 1 /\ D[a + 1][a - k + 1 + 1] > d - 1
      BY <2>3, <2>6 DEF Reaches
    <3>2. D[a + 1][a - k + 1 + 1] \in Int
      <4>1. a + 1 \in Nat /\ a - k + 1 + 1 \in Nat
        BY <3>1
      <4> QED
        BY <1>0, <4>1
    <3> QED
      BY <3>1, <3>2
  <2>8. k # d => /\ b \in Nat /\ b - k - 1 \in Nat /\ D[b][b - k - 1] <= d - 1
                 /\ D[b + 1][b - k - 1 + 1] >= d
    <3> SUFFICES ASSUME k # d
                 PROVE /\ b \in Nat /\ b - k - 1 \in Nat /\ D[b][b - k - 1] <= d - 1
                       /\ D[b + 1][b - k - 1 + 1] >= d
      OBVIOUS
    <3>1. b \in Nat /\ b - k - 1 \in Nat /\ D[b][b - k - 1] <= d - 1 /\ D[b + 1][b - k - 1 + 1] > d - 1
      BY <2>4, <2>6 DEF Reaches
    <3>2. D[b + 1][b - k - 1 + 1] \in Int
      <4>1. b + 1 \in Nat /\ b - k - 1 + 1 \in Nat
        BY <3>1
      <4> QED
        BY <1>0, <4>1
    <3> QED
      BY <3>1, <3>2
  <2>9. CASE Downwards(v, d, k)
    <3>1. k # d /\ x = b
      BY <1>3, <2>5, <2>9, <1>1
    <3> DEFINE y == x - k - 1
    <3>2. x \in Nat /\ y \in Nat /\ y = b - k - 1 /\ D[x][y] <= d - 1 /\ D[x + 1][y + 1] >= d
      BY <2>8, <3>1
    <3>3. x - k = y + 1 /\ x - k + 1 = (y + 1) + 1 /\ y + 1 \in Nat
      BY <1>1, <3>2
    <3>4. D[x][y + 1] <= d
      <4>1. D[x][y + 1] \in {D[x][y] - 1, D[x][y] + 1} /\ D[x][y] \in Int /\ D[x][y + 1] \in Int
        BY <1>0, <1>4, <3>2, <3>3
      <4> DEFINE e == D[x][y]
                 f == D[x][y + 1]
      <4>2. f \in {e - 1, e + 1} /\ e \in Int /\ f \in Int /\ e <= d - 1
        BY <3>2, <4>1
      <4> HIDE DEF e, f
      <4>3. f <= d
        BY <4>2
      <4> QED
        BY <4>3 DEF f
    <3>5. D[x][(y + 1) + 1] >= d
      <4>1. CASE k = -d
        <5> DEFINE q == (y + 1) + 1
                   f == D[x][q]
        <5>1. q \in Nat /\ q - x >= d /\ x \in Nat
          BY <1>1, <3>2, <3>3, <4>1
        <5> HIDE DEF q
        <5>2. f >= q - x /\ f \in Int
          BY <1>0, <5>1
        <5> HIDE DEF f
        <5>3. f >= d
          BY <5>1, <5>2
        <5> QED
          BY <5>3 DEF f, q
      <4>2. CASE k # -d
        <5>1. a < b
          BY <2>5, <2>9, <4>2
        <5> DEFINE p == a + 1
                   q == a - k + 1 + 1
                   n == b - a - 1
        <5>2. p \in Nat /\ q \in Nat /\ n \in Nat /\ p + n = x /\ q + n = (y + 1) + 1 /\ D[p][q] >= d
          BY <1>1, <2>2, <2>7, <3>1, <3>2, <4>2, <5>1
        <5> HIDE DEF p, q, n
        <5>3. D[p + n][q + n] >= D[p][q]
          BY <5>2, AlongDiagonals
        <5> DEFINE e == D[p][q]
                   f == D[p + n][q + n]
        <5>4. e \in Int /\ f \in Int /\ f >= e /\ e >= d
          <6>1. p + n \in Nat /\ q + n \in Nat
            BY <5>2
          <6> QED
            BY <1>0, <5>2, <5>3, <6>1
        <5>5. f >= d
          <6> HIDE DEF e, f
          <6> QED
            BY <5>4
        <5> QED
          BY <5>2, <5>5
      <4> QED
        BY <4>1, <4>2
    <3>6. Reaches(D, d - 1, x, y)
      BY <2>4, <2>6, <3>1
    <3>7. D[x][x - k] <= d /\ D[x + 1][x - k] >= d /\ D[x][x - k + 1] >= d /\ x - k \in Nat
      <4> HIDE DEF y
      <4> QED
        BY <3>2, <3>3, <3>4, <3>5
    <3> QED
      BY <2>9, <3>2, <3>6, <3>7 DEF x
  <2>10. CASE ~Downwards(v, d, k)
    <3>1. k # -d /\ x = a + 1
      BY <2>5, <2>10
    <3> DEFINE z == x - 1
               y == x - k
    <3>2. z = a /\ y = a - k + 1 /\ x = z + 1 /\ z \in Nat /\ y \in Nat /\ x \in Nat
          /\ D[z][y] <= d - 1 /\ D[x][y + 1] >= d
      BY <1>1, <2>2, <2>7, <3>1
    <3>4. D[x][y] <= d
      <4>1. D[z + 1][y] \in {D[z][y] - 1, D[z][y] + 1} /\ D[z][y] \in Int /\ D[z + 1][y] \in Int
        BY <1>0, <1>4, <3>2
      <4> DEFINE e == D[z][y]
                 f == D[z + 1][y]
      <4>2. f \in {e - 1, e + 1} /\ e \in Int /\ f \in Int /\ e <= d - 1
        BY <3>2, <4>1
      <4> HIDE DEF e, f
      <4>3. f <= d
        BY <4>2
      <4> QED
        BY <3>2, <4>3 DEF f
    <3>5. D[x + 1][y] >= d
      <4>1. CASE k = d
        <5>1. x + 1 \in Nat /\ x + 1 - y >= d
          BY <1>1, <3>2, <4>1
        <5> DEFINE f == D[x + 1][y]
        <5>2. f >= (x + 1) - y /\ f \in Int
          BY <1>0, <3>2, <5>1
        <5>3. f >= d
          <6> HIDE DEF f, y
          <6> QED
            BY <3>2, <5>1, <5>2
        <5> QED
          BY <5>3
      <4>2. CASE k # d
        <5>1. a >= b
          BY <2>2, <2>5, <2>10, <4>2
        <5> DEFINE p == b + 1
                   q == b - k - 1 + 1
                   n == a + 1 - b
        <5>2. p \in Nat /\ q \in Nat /\ n \in Nat /\ p + n = x + 1 /\ q + n = y /\ D[p][q] >= d
          BY <1>1, <2>2, <2>8, <3>1, <3>2, <4>2, <5>1
        <5> HIDE DEF p, q, n
        <5>3. D[p + n][q + n] >= D[p][q]
          BY <5>2, AlongDiagonals
        <5> DEFINE e == D[p][q]
                   f == D[p + n][q + n]
        <5>4. e \in Int /\ f \in Int /\ f >= e /\ e >= d
          <6>1. p + n \in Nat /\ q + n \in Nat
            BY <5>2
          <6> QED
            BY <1>0, <5>2, <5>3, <6>1
        <5>5. f >= d
          <6> HIDE DEF e, f
          <6> QED
            BY <5>4
        <5> QED
          BY <5>2, <5>5
      <4> QED
        BY <4>1, <4>2
    <3>6. Reaches(D, d - 1, z, y)
      BY <2>3, <2>6, <3>1, <3>2
    <3> QED
      BY <2>10, <3>2, <3>4, <3>5, <3>6 DEF x
  <2> QED
    BY <2>9, <2>10 DEF x
<1> QED
  BY <1>2, <1>3

\* A turn comes as far as d changes lead.
LEMMA TurnReaches ==
  ASSUME NEW S, NEW old \in Seq(S), NEW new \in Seq(S), NEW d \in Nat, NEW w \in Nat, d < w,
         NEW v, Frontier(Distances(old, new), v, d, w), NEW k \in Turns(d)
  PROVE  LET x == SetsOut(v, d, k)
             e == Slide(old, new, x, k)
         IN  /\ Round(old, new, v, d)[k] = e
             /\ x \in Nat /\ x - k \in Nat /\ e \in Nat /\ e >= x
             /\ Reaches(Distances(old, new), d, e, e - k)
             /\ Distances(old, new)[e][e - k] = Distances(old, new)[x][x - k]
             /\ \A m \in 0..(e - x - 1) : <<x + m, (x - k) + m>> \in Matches(old, new)
<1> DEFINE D == Distances(old, new)
           G == Matches(old, new)
           x == SetsOut(v, d, k)
           y == x - k
           e == Slide(old, new, x, k)
           n == e - x
<1>1. Measures(D, G)
  BY DistancesMeasure
<1>2. k \in Int /\ -d <= k /\ k <= d
  BY TurnsNear
<1>3. Frontier(D, v, d, w)
  OBVIOUS
<1>4. x \in Nat /\ y \in Nat /\ D[x][y] <= d /\ D[x + 1][y] >= d /\ D[x][y + 1] >= d
  <2> HIDE DEF D, G
  <2> QED
    BY <1>1, <1>3, SetsOutFurthest
<1>5. e \in Int /\ e >= x
      /\ (x >= 0 /\ x - k >= 0 =>
           /\ \A m \in 0..(e - x - 1) : <<x + m, (x - k) + m>> \in G
           /\ <<e, e - k>> \notin G)
  <2>1. x \in Int
    BY <1>4
  <2> HIDE DEF x
  <2> QED
    BY <1>2, <2>1, SlideAlongMatches
<1>6. Round(old, new, v, d)[k] = e
  <2>1. DOMAIN v = -w..w
    BY DEF Frontier
  <2>2. k \in DOMAIN v
    BY <1>2, <2>1
  <2> QED
    BY <2>2 DEF Round, SetsOut
<1> HIDE DEF D, G, x, e
<1>7. n \in Nat /\ x + n = e /\ y + n = e - k /\ e \in Nat
  BY <1>2, <1>4, <1>5
<1>8. (\A m \in 0..(n - 1) : <<x + m, y + m>> \in G) /\ <<x + n, y + n>> \notin G
  <2>1. x >= 0 /\ x - k >= 0
    BY <1>4
  <2> QED
    BY <1>5, <1>7, <2>1
<1>9. Reaches(D, d, x + n, y + n) /\ D[x + n][y + n] = D[x][y]
  <2>1. Matching(G, x, y, n)
    BY <1>8 DEF Matching
  <2>2. Within(D, d, x, y)
    BY <1>4 DEF Within
  <2>3. Lands(D, d, x, y, n)
    <3> HIDE DEF n, y
    <3> QED
      BY <1>1, <1>4, <1>7, <1>8, <2>1, <2>2, SlideReaches
  <2> QED
    BY <2>3 DEF Lands
<1> QED
  BY <1>4, <1>5, <1>6, <1>7, <1>8, <1>9 DEF D, G, x, e

\* The arrays of the trace.
Arrays(w) == [-w..w -> Int]
IsTrace(f, old, new, most) ==
  f = [d \in 0..most |->
        IF d = 0 THEN [k \in -(most + 1)..(most + 1) |-> 0] ELSE Round(old, new, f[d - 1], d - 1)]

LEMMA TraceIsChosen ==
  \A old, new, most : Trace(old, new, most) = CHOOSE f : IsTrace(f, old, new, most)
BY DEF Trace, IsTrace

LEMMA RoundKeepsArrays ==
  ASSUME NEW S, NEW old \in Seq(S), NEW new \in Seq(S), NEW d \in Nat, NEW w \in Nat, d < w,
         NEW v \in Arrays(w)
  PROVE  Round(old, new, v, d) \in Arrays(w)
<1>1. DOMAIN v = -w..w
  BY DEF Arrays
<1>2. ASSUME NEW k \in -w..w
      PROVE  (IF k \in Turns(d)
              THEN Slide(old, new, IF Downwards(v, d, k) THEN v[k + 1] ELSE v[k - 1] + 1, k)
              ELSE v[k]) \in Int
  <2>1. CASE k \in Turns(d)
    <3>1. k \in Int /\ k - 1 \in -w..w /\ k + 1 \in -w..w
      BY <2>1, TurnsNear
    <3>2. v[k - 1] \in Int /\ v[k + 1] \in Int
      BY <3>1 DEF Arrays
    <3> DEFINE x == IF Downwards(v, d, k) THEN v[k + 1] ELSE v[k - 1] + 1
    <3>3. x \in Int
      BY <3>2
    <3> HIDE DEF x
    <3>4. Slide(old, new, x, k) \in Int
      BY <3>1, <3>3, SlideAlongMatches
    <3> QED
      BY <2>1, <3>4 DEF x
  <2>2. CASE k \notin Turns(d)
    <3>1. v[k] \in Int
      BY DEF Arrays
    <3> QED
      BY <2>2, <3>1
  <2> QED
    BY <2>1, <2>2
<1> QED
  BY <1>1, <1>2 DEF Round, Arrays

LEMMA TraceExists ==
  ASSUME NEW S, NEW old \in Seq(S), NEW new \in Seq(S), NEW most \in Nat
  PROVE  LET t == Trace(old, new, most)
         IN  /\ t[0] = [k \in -(most + 1)..(most + 1) |-> 0]
             /\ \A d \in 1..most : t[d] = Round(old, new, t[d - 1], d - 1)
             /\ \A d \in 0..most : t[d] \in Arrays(most + 1)
<1> DEFINE A == Arrays(most + 1)
           base == [k \in -(most + 1)..(most + 1) |-> 0]
           step == [d \in 1..most |-> [v \in A |-> Round(old, new, v, d - 1)]]
           t == Trace(old, new, most)
<1>1. base \in A
  BY DEF Arrays
<1>2. ASSUME NEW d \in 1..most, NEW v \in A PROVE Round(old, new, v, d - 1) \in A
  <2>1. d - 1 \in Nat /\ most + 1 \in Nat /\ d - 1 < most + 1
    OBVIOUS
  <2> QED
    BY <2>1, RoundKeepsArrays
<1>3. step \in [1..most -> [A -> A]] /\ \A d \in 1..most, v \in A : step[d][v] = Round(old, new, v, d - 1)
  BY <1>2
<1>4. PICK f : Solves(f, A, base, most, step)
  <2> HIDE DEF A, base, step
  <2> QED
    BY <1>1, <1>3, Iterate
<1>5. IsTrace(f, old, new, most)
  <2>0. f \in [0..most -> A] /\ f[0] = base /\ \A i \in 1..most : f[i] = step[i][f[i - 1]]
    BY <1>4 DEF Solves
  <2> HIDE DEF step, A, base
  <2>1. ASSUME NEW i \in 0..most
        PROVE  f[i] = IF i = 0 THEN base ELSE Round(old, new, f[i - 1], i - 1)
    <3>1. CASE i = 0
      BY <2>0, <3>1
    <3>2. CASE i # 0
      <4>1. i \in 1..most /\ i - 1 \in 0..most
        BY <3>2
      <4>2. f[i - 1] \in A
        BY <2>0, <4>1
      <4> QED
        BY <1>3, <2>0, <3>2, <4>1, <4>2
    <3> QED
      BY <3>1, <3>2
  <2>2. f = [i \in 0..most |-> f[i]]
    BY <2>0
  <2>3. f = [i \in 0..most |-> IF i = 0 THEN base ELSE Round(old, new, f[i - 1], i - 1)]
    BY <2>1, <2>2
  <2> QED
    BY <2>3 DEF IsTrace, base
<1>6. IsTrace(t, old, new, most)
  BY <1>5, TraceIsChosen
<1>7. t = [i \in 0..most |-> IF i = 0 THEN base ELSE Round(old, new, t[i - 1], i - 1)]
  BY <1>6 DEF IsTrace
<1> HIDE DEF t, base
<1>8. \A i \in 0..most : t[i] = IF i = 0 THEN base ELSE Round(old, new, t[i - 1], i - 1)
  BY <1>7
<1>9. t = [i \in 0..most |-> t[i]]
  BY <1>7
<1>10. t[0] = base /\ \A i \in 1..most : t[i] = Round(old, new, t[i - 1], i - 1)
  <2>1. 0 \in 0..most /\ \A i \in 1..most : i \in 0..most /\ i # 0
    OBVIOUS
  <2> QED
    BY <1>8, <2>1
<1>11. t \in [0..most -> A]
  <2>1. t[0] \in A
    BY <1>1, <1>10
  <2>2. \A i \in 1..most : t[i - 1] \in A => t[i] \in A
    BY <1>2, <1>10
  <2> HIDE DEF A
  <2> QED
    BY <1>9, <2>1, <2>2, Typed
<1> QED
  BY <1>10, <1>11 DEF t, base

\* Every round begins with what the rounds before it have reached.
LEMMA TraceReaches ==
  ASSUME NEW S, NEW old \in Seq(S), NEW new \in Seq(S), NEW most \in Nat
  PROVE  \A d \in 0..most :
           Frontier(Distances(old, new), Trace(old, new, most)[d], d, most + 1)
<1> DEFINE D == Distances(old, new)
           t == Trace(old, new, most)
           w == most + 1
           K == {d \in Nat : d <= most => Frontier(D, t[d], d, w)}
<1>1. /\ t[0] = [k \in -w..w |-> 0]
      /\ \A d \in 1..most : t[d] = Round(old, new, t[d - 1], d - 1)
      /\ \A d \in 0..most : t[d] \in Arrays(w)
  BY TraceExists
<1>2. w \in Nat
  OBVIOUS
<1> HIDE DEF t
<1>3. 0 \in K
  <2>1. 1 \in -w..w /\ 0 \in 0..most
    OBVIOUS
  <2>2. t[0] \in Arrays(w) /\ t[0][1] = 0
    BY <1>1, <2>1
  <2>3. Frontier(D, t[0], 0, w)
    BY <2>2 DEF Frontier, Arrays
  <2> QED
    BY <2>3
<1>4. ASSUME NEW d \in K PROVE d + 1 \in K
  <2> SUFFICES ASSUME d + 1 <= most PROVE Frontier(D, t[d + 1], d + 1, w)
    OBVIOUS
  <2>1. d \in Nat /\ d + 1 \in 1..most /\ d + 1 \in 0..most /\ (d + 1) - 1 = d /\ d < w
    OBVIOUS
  <2>2. Frontier(D, t[d], d, w)
    BY <2>1
  <2>3. t[d + 1] = Round(old, new, t[d], d) /\ t[d + 1] \in Arrays(w)
    BY <1>1, <2>1
  <2>4. ASSUME NEW j \in Turns(d) PROVE Reaches(D, d, t[d + 1][j], t[d + 1][j] - j)
    <3> HIDE DEF w
    <3>1. /\ Round(old, new, t[d], d)[j] = Slide(old, new, SetsOut(t[d], d, j), j)
          /\ Reaches(D, d, Slide(old, new, SetsOut(t[d], d, j), j),
                     Slide(old, new, SetsOut(t[d], d, j), j) - j)
      BY <1>2, <2>1, <2>2, TurnReaches
    <3> QED
      BY <2>3, <3>1
  <2>5. (d + 1 = 0 => t[d + 1][1] = 0) /\ (d + 1) - 1 = d
    BY <2>1
  <2> QED
    BY <2>3, <2>4, <2>5 DEF Frontier, Arrays
<1>5. \A d \in Nat : d \in K
  <2> HIDE DEF K
  <2>1. K \in SUBSET Nat
    BY DEF K
  <2> QED
    BY <1>3, <1>4, <2>1, AllNumbers
<1> QED
  BY <1>5 DEF t

LEMMA MinOfTwo == \A a, b \in Int : Min({a, b}) = IF a <= b THEN a ELSE b
BY DEF Min

\* Some turn of round d comes to the end of both texts.
EndsAt(old, new, v, d) ==
  \E k \in Turns(d) : LET x == Round(old, new, v, d)[k] IN x >= Len(old) /\ x - k >= Len(new)

LEMMA DiffLinesIs ==
  \A old, new :
    DiffLines(old, new) =
      LET most == Min({MaxDistance, Len(old) + Len(new)})
          rounds == {d \in 0..most : EndsAt(old, new, Trace(old, new, most)[d], d)}
      IN  IF rounds = {} THEN TooFar
          ELSE [ok |-> TRUE, ops |-> Backtrack(old, new, Trace(old, new, most), Min(rounds))]
BY DEF DiffLines, EndsAt

\* A round that comes to the end has at least as many changes as the distance,
\* and the round of the distance comes to the end.
LEMMA EndsFromDistance ==
  ASSUME NEW S, NEW old \in Seq(S), NEW new \in Seq(S), NEW d \in Nat, NEW w \in Nat, d < w,
         NEW v, Frontier(Distances(old, new), v, d, w)
  PROVE  LET dist == Distances(old, new)[Len(old)][Len(new)]
         IN  /\ EndsAt(old, new, v, d) => dist <= d
             /\ d = dist => EndsAt(old, new, v, d)
<1> DEFINE N == Len(old)
           M == Len(new)
           D == Distances(old, new)
           G == Matches(old, new)
           dist == D[N][M]
           e(k) == Round(old, new, v, d)[k]
<1>1. N \in Nat /\ M \in Nat
  OBVIOUS
<1>2. Measures(D, G)
  BY DistancesMeasure
<1>3. dist \in Int /\ dist >= N - M /\ dist >= M - N
  <2> HIDE DEF D, G, N, M
  <2> QED
    BY <1>1, <1>2, MeasureBounds
<1>4. ASSUME NEW k \in Turns(d)
      PROVE  k \in Int /\ e(k) \in Nat /\ e(k) - k \in Nat /\ Reaches(D, d, e(k), e(k) - k)
  <2> DEFINE f == Slide(old, new, SetsOut(v, d, k), k)
  <2>1. e(k) = f /\ f \in Nat /\ Reaches(D, d, f, f - k)
    BY TurnReaches
  <2> HIDE DEF f, D
  <2>2. f - k \in Nat
    BY <2>1 DEF Reaches
  <2>3. k \in Int
    BY TurnsNear
  <2> QED
    BY <2>1, <2>2, <2>3
<1>5. \A x, y \in Nat : x >= N /\ y >= M => D[x][y] = dist + (x - N) + (y - M)
  BY DistancesMeasure
<1> HIDE DEF D, G, N, M, e, dist
<1>6. ASSUME EndsAt(old, new, v, d) PROVE dist <= d
  <2>1. PICK k \in Turns(d) : e(k) >= N /\ e(k) - k >= M
    BY <1>6 DEF EndsAt, e, N, M
  <2> DEFINE x == e(k)
             y == e(k) - k
  <2>2. x \in Nat /\ y \in Nat /\ D[x][y] <= d /\ x >= N /\ y >= M
    BY <1>4, <2>1 DEF Reaches
  <2> HIDE DEF x, y
  <2>3. D[x][y] = dist + (x - N) + (y - M)
    BY <1>5, <2>2
  <2>4. dist + (x - N) + (y - M) <= d
    BY <2>2, <2>3
  <2> QED
    BY <1>1, <1>3, <2>2, <2>4
<1>7. ASSUME d = dist PROVE EndsAt(old, new, v, d)
  <2> DEFINE k == N - M
  <2>1. \E h \in Int : D[N][M] = N - M + 2 * h
    BY <1>1, <1>2 DEF Measures
  <2>2. PICK h \in Int : dist = N - M + 2 * h
    BY <2>1 DEF dist
  <2>3. k \in -d..d /\ (k + d) % 2 = 0
    BY <1>1, <1>3, <1>7, <2>2
  <2>4. k \in Turns(d)
    <3> HIDE DEF k
    <3> QED
      BY <2>3 DEF Turns
  <2> DEFINE x == e(k)
             y == e(k) - k
  <2>5. k \in Int /\ x \in Nat /\ y \in Nat /\ Reaches(D, d, x, y)
    BY <1>4, <2>4
  <2>6. x - y = N - M /\ D[N][M] <= d /\ d \in Int
    <3>1. d <= d /\ D[N][M] = d
      BY <1>7 DEF dist
    <3>2. x - (x - k) = k
      <4> HIDE DEF x, k
      <4> QED
        BY <2>5
    <3> QED
      BY <3>1, <3>2
  <2>7. N <= x /\ M <= y
    <3> HIDE DEF x, y, k
    <3> QED
      BY <1>1, <1>2, <2>5, <2>6, ReachesAll
  <2>8. e(k) >= N /\ e(k) - k >= M
    <3> HIDE DEF k
    <3> QED
      BY <1>1, <2>5, <2>7
  <2> HIDE DEF k
  <2> QED
    BY <2>4, <2>8 DEF EndsAt, e, N, M
<1> QED
  BY <1>6, <1>7 DEF dist, D, N, M

\* diff_lines gives up just when every diff is longer than the limit, and
\* otherwise stops in the round of the distance.
LEMMA SearchStops ==
  ASSUME NEW S, NEW old \in Seq(S), NEW new \in Seq(S), MaxDistance \in Nat
  PROVE  LET dist == Distances(old, new)[Len(old)][Len(new)]
             most == Min({MaxDistance, Len(old) + Len(new)})
         IN  /\ most \in Nat
             /\ dist > MaxDistance => DiffLines(old, new) = TooFar
             /\ dist <= MaxDistance =>
                  /\ dist \in 0..most
                  /\ DiffLines(old, new) =
                       [ok |-> TRUE, ops |-> Backtrack(old, new, Trace(old, new, most), dist)]
<1> DEFINE N == Len(old)
           M == Len(new)
           D == Distances(old, new)
           dist == D[N][M]
           most == Min({MaxDistance, N + M})
           t == Trace(old, new, most)
           rounds == {d \in 0..most : EndsAt(old, new, t[d], d)}
<1>1. N \in Nat /\ M \in Nat
  OBVIOUS
<1>2. dist \in Nat /\ dist <= N + M
  <2>1. dist = N + M - 2 * Common(old, new) /\ Common(old, new) \in Nat
    BY DistancesMeasure
  <2>2. Measures(D, Matches(old, new))
    BY DistancesMeasure
  <2>3. dist \in Int /\ dist >= 0
    <3> HIDE DEF D, N, M
    <3> QED
      BY <1>1, <2>2, MeasureBounds
  <2> HIDE DEF dist, N, M
  <2> QED
    BY <1>1, <2>1, <2>3
<1>3. most \in Nat /\ most = IF MaxDistance <= N + M THEN MaxDistance ELSE N + M
  <2> HIDE DEF N, M
  <2>1. MaxDistance \in Int /\ N + M \in Int
    BY <1>1
  <2> QED
    BY <1>1, <2>1, MinOfTwo
<1>4. DiffLines(old, new) = IF rounds = {} THEN TooFar
                            ELSE [ok |-> TRUE, ops |-> Backtrack(old, new, t, Min(rounds))]
  BY DiffLinesIs
<1>5. \A d \in 0..most : /\ EndsAt(old, new, t[d], d) => dist <= d
                         /\ d = dist => EndsAt(old, new, t[d], d)
  <2> TAKE d \in 0..most
  <2> HIDE DEF most, t
  <2>1. Frontier(D, t[d], d, most + 1)
    BY <1>3, TraceReaches DEF t
  <2>2. d \in Nat /\ most + 1 \in Nat /\ d < most + 1
    BY <1>3
  <2> QED
    BY <2>1, <2>2, EndsFromDistance
<1> HIDE DEF N, M, D, dist, most, t
<1>6. ASSUME dist > MaxDistance PROVE DiffLines(old, new) = TooFar
  <2>1. \A d \in 0..most : d < dist
    BY <1>1, <1>2, <1>3, <1>6
  <2>2. rounds = {}
    <3>1. \A d \in 0..most : ~(dist <= d)
      BY <1>2, <1>3, <2>1
    <3> QED
      BY <1>5, <3>1
  <2> QED
    BY <1>4, <2>2
<1>7. ASSUME dist <= MaxDistance
      PROVE  /\ dist \in 0..most
             /\ DiffLines(old, new) = [ok |-> TRUE, ops |-> Backtrack(old, new, t, dist)]
  <2>1. dist \in 0..most
    BY <1>1, <1>2, <1>3, <1>7
  <2>2. dist \in rounds /\ rounds \in SUBSET Int /\ \A d \in rounds : d >= dist
    <3>1. \A d \in rounds : d \in 0..most /\ dist <= d
      BY <1>5
    <3>2. dist \in rounds
      BY <1>5, <2>1
    <3> HIDE DEF rounds
    <3>3. \A d \in rounds : d \in Int /\ d >= dist
      BY <1>2, <1>3, <3>1
    <3> QED
      BY <3>2, <3>3
  <2>3. Min(rounds) = dist
    <3> HIDE DEF rounds
    <3>1. dist \in Int
      BY <1>2
    <3>2. Min(rounds) \in rounds /\ \A z \in rounds : Min(rounds) <= z
      BY <2>2, <3>1, Least
    <3>3. Min(rounds) <= dist /\ Min(rounds) >= dist /\ Min(rounds) \in Int
      BY <2>2, <3>2
    <3> QED
      BY <3>1, <3>3
  <2>4. rounds # {}
    BY <2>2
  <2> HIDE DEF rounds
  <2> QED
    BY <1>4, <2>1, <2>3, <2>4
<1> QED
  BY <1>3, <1>6, <1>7 DEF N, M, D, dist, most, t

------------------------------------------------------------------------------
(* Edit scripts, as walks over the two texts: each entry takes a line of   *)
(* one or of both.                                                         *)

Op == [kind : {"equal", "delete", "insert"}, old : Nat, new : Nat]

Moves(G, op, x, y, u, w) ==
  \/ op = Equal(u, w) /\ u = x + 1 /\ w = y + 1 /\ <<x, y>> \in G
  \/ op = Delete(u) /\ u = x + 1 /\ w = y
  \/ op = Insert(w) /\ u = x /\ w = y + 1

\* px and py are how much of the texts has been taken after each entry.
WalksBy(G, ops, px, py) ==
  /\ ops \in Seq(Op)
  /\ px \in [0..Len(ops) -> Nat] /\ py \in [0..Len(ops) -> Nat]
  /\ \A i \in 1..Len(ops) : Moves(G, ops[i], px[i - 1], py[i - 1], px[i], py[i])

Walk(G, ops, x, y, u, w) ==
  \E px, py : /\ WalksBy(G, ops, px, py)
              /\ px[0] = x /\ py[0] = y /\ px[Len(ops)] = u /\ py[Len(ops)] = w

Dels(ops) == {ops[i].old : i \in {j \in DOMAIN ops : ops[j].kind = "delete"}}
Inss(ops) == {ops[i].new : i \in {j \in DOMAIN ops : ops[j].kind = "insert"}}
Changes(ops) == Cardinality(Dels(ops)) + Cardinality(Inss(ops))

\* Nothing is taken back.
LEMMA WalksForward ==
  ASSUME NEW G, NEW ops, NEW px, NEW py, WalksBy(G, ops, px, py)
  PROVE  \A j \in 0..Len(ops) : \A i \in 0..j : px[i] <= px[j] /\ py[i] <= py[j]
<1> DEFINE n == Len(ops)
           K == {j \in Nat : j <= n => \A i \in 0..j : px[i] <= px[j] /\ py[i] <= py[j]}
<1>0. n \in Nat /\ px \in [0..n -> Nat] /\ py \in [0..n -> Nat]
  BY DEF WalksBy
<1>1. 0 \in K
  <2>1. 0 \in 0..n /\ \A i \in 0..0 : i = 0
    BY <1>0
  <2>2. px[0] \in Nat /\ py[0] \in Nat
    BY <1>0, <2>1
  <2> QED
    BY <2>1, <2>2
<1>2. ASSUME NEW j \in K PROVE j + 1 \in K
  <2> SUFFICES ASSUME j + 1 <= n, NEW i \in 0..(j + 1)
               PROVE  px[i] <= px[j + 1] /\ py[i] <= py[j + 1]
    OBVIOUS
  <2>1. j \in Nat /\ j <= n /\ j + 1 \in 1..n /\ (j + 1) - 1 = j /\ j \in 0..n /\ j + 1 \in 0..n /\ i \in 0..n
    BY <1>0
  <2>2. px[i] \in Nat /\ px[j] \in Nat /\ px[j + 1] \in Nat /\ py[i] \in Nat /\ py[j] \in Nat /\ py[j + 1] \in Nat
    BY <1>0, <2>1
  <2>3. CASE i = j + 1
    BY <2>2, <2>3
  <2>4. CASE i # j + 1
    <3>1. i \in 0..j
      BY <2>1, <2>4
    <3>2. px[i] <= px[j] /\ py[i] <= py[j]
      BY <2>1, <3>1
    <3>3. Moves(G, ops[j + 1], px[(j + 1) - 1], py[(j + 1) - 1], px[j + 1], py[j + 1])
      BY <2>1 DEF WalksBy
    <3>4. px[j] <= px[j + 1] /\ py[j] <= py[j + 1]
      BY <2>1, <2>2, <3>3 DEF Moves
    <3> QED
      BY <2>2, <3>2, <3>4
  <2> QED
    BY <2>3, <2>4
<1>3. \A j \in Nat : j \in K
  <2> HIDE DEF K
  <2>1. K \in SUBSET Nat
    BY DEF K
  <2> QED
    BY <1>1, <1>2, <2>1, AllNumbers
<1> QED
  BY <1>0, <1>3

\* The lines that a walk deletes and inserts are among those it takes.
LEMMA WalkTakes ==
  ASSUME NEW G, NEW ops, NEW x, NEW y, NEW u, NEW w, Walk(G, ops, x, y, u, w)
  PROVE  /\ x \in Nat /\ y \in Nat /\ u \in Nat /\ w \in Nat /\ x <= u /\ y <= w
         /\ ops \in Seq(Op)
         /\ Dels(ops) \subseteq (x + 1)..u /\ IsFiniteSet(Dels(ops))
         /\ Inss(ops) \subseteq (y + 1)..w /\ IsFiniteSet(Inss(ops))
<1>1. PICK px, py : /\ WalksBy(G, ops, px, py)
                    /\ px[0] = x /\ py[0] = y /\ px[Len(ops)] = u /\ py[Len(ops)] = w
  BY DEF Walk
<1> DEFINE n == Len(ops)
<1>2. /\ n \in Nat /\ px \in [0..n -> Nat] /\ py \in [0..n -> Nat] /\ ops \in Seq(Op)
      /\ \A i \in 1..n : Moves(G, ops[i], px[i - 1], py[i - 1], px[i], py[i])
  BY <1>1 DEF WalksBy
<1>3. \A j \in 0..n : \A i \in 0..j : px[i] <= px[j] /\ py[i] <= py[j]
  BY <1>1, WalksForward
<1>4. DOMAIN ops = 1..n
  BY <1>2
<1> HIDE DEF n
<1>5. 0 \in 0..n /\ n \in 0..n
  BY <1>2
<1>6. x \in Nat /\ y \in Nat /\ u \in Nat /\ w \in Nat /\ x <= u /\ y <= w
  BY <1>1, <1>2, <1>3, <1>5 DEF n
<1>7. ASSUME NEW i \in 1..n
      PROVE  /\ ops[i].kind = "delete" => ops[i].old \in (x + 1)..u
             /\ ops[i].kind = "insert" => ops[i].new \in (y + 1)..w
  <2>1. i \in 0..n /\ i - 1 \in 0..n /\ 0 \in 0..(i - 1) /\ i \in 0..n
    BY <1>2
  <2>2. px[i] \in Nat /\ py[i] \in Nat /\ px[i - 1] \in Nat /\ py[i - 1] \in Nat
    BY <1>2, <2>1
  <2>3. x <= px[i - 1] /\ y <= py[i - 1] /\ px[i] <= u /\ py[i] <= w
    BY <1>1, <1>3, <1>5, <2>1 DEF n
  <2>4. Moves(G, ops[i], px[i - 1], py[i - 1], px[i], py[i])
    BY <1>2
  <2>5. ops[i].kind = "delete" => ops[i].old = px[i] /\ px[i] = px[i - 1] + 1
    BY <2>4 DEF Moves, Equal, Delete, Insert
  <2>6. ops[i].kind = "insert" => ops[i].new = py[i] /\ py[i] = py[i - 1] + 1
    BY <2>4 DEF Moves, Equal, Delete, Insert
  <2> QED
    BY <1>6, <2>2, <2>3, <2>5, <2>6
<1>8. Dels(ops) \subseteq (x + 1)..u /\ Inss(ops) \subseteq (y + 1)..w
  BY <1>4, <1>7 DEF Dels, Inss
<1>9. IsFiniteSet((x + 1)..u) /\ IsFiniteSet((y + 1)..w)
  BY <1>6, FS_Interval
<1> QED
  BY <1>2, <1>6, <1>8, <1>9, FS_Subset

\* One walk after another.
LEMMA WalkJoins ==
  ASSUME NEW G, NEW a, NEW b, NEW x, NEW y, NEW p, NEW q, NEW u, NEW w,
         Walk(G, a, x, y, p, q), Walk(G, b, p, q, u, w)
  PROVE  Walk(G, a \o b, x, y, u, w)
<1>1. PICK pa, qa : /\ WalksBy(G, a, pa, qa)
                    /\ pa[0] = x /\ qa[0] = y /\ pa[Len(a)] = p /\ qa[Len(a)] = q
  BY DEF Walk
<1>2. PICK pb, qb : /\ WalksBy(G, b, pb, qb)
                    /\ pb[0] = p /\ qb[0] = q /\ pb[Len(b)] = u /\ qb[Len(b)] = w
  BY DEF Walk
<1> DEFINE n == Len(a)
           m == Len(b)
           c == a \o b
           px == [i \in 0..(n + m) |-> IF i <= n THEN pa[i] ELSE pb[i - n]]
           py == [i \in 0..(n + m) |-> IF i <= n THEN qa[i] ELSE qb[i - n]]
<1>3. /\ a \in Seq(Op) /\ pa \in [0..n -> Nat] /\ qa \in [0..n -> Nat]
      /\ \A i \in 1..n : Moves(G, a[i], pa[i - 1], qa[i - 1], pa[i], qa[i])
  BY <1>1 DEF WalksBy
<1>4. /\ b \in Seq(Op) /\ pb \in [0..m -> Nat] /\ qb \in [0..m -> Nat]
      /\ \A i \in 1..m : Moves(G, b[i], pb[i - 1], qb[i - 1], pb[i], qb[i])
  BY <1>2 DEF WalksBy
<1>5. /\ n \in Nat /\ m \in Nat /\ c \in Seq(Op) /\ Len(c) = n + m
      /\ \A i \in 1..(n + m) : c[i] = IF i <= n THEN a[i] ELSE b[i - n]
  BY <1>3, <1>4
<1>6. pa[n] = p /\ qa[n] = q /\ pb[m] = u /\ qb[m] = w
  BY <1>1, <1>2
<1> HIDE DEF n, m, c
<1>7. ASSUME NEW i \in 0..(n + m)
      PROVE  /\ px[i] = (IF i <= n THEN pa[i] ELSE pb[i - n])
             /\ py[i] = (IF i <= n THEN qa[i] ELSE qb[i - n])
             /\ px[i] \in Nat /\ py[i] \in Nat
  <2>1. CASE i <= n
    <3>1. i \in 0..n
      BY <1>5, <2>1
    <3> QED
      BY <1>3, <2>1, <3>1
  <2>2. CASE ~(i <= n)
    <3>1. i - n \in 0..m
      BY <1>5, <2>2
    <3> QED
      BY <1>4, <2>2, <3>1
  <2> QED
    BY <2>1, <2>2
<1>8. px \in [0..(n + m) -> Nat] /\ py \in [0..(n + m) -> Nat]
  BY <1>7
<1> HIDE DEF px, py
<1>9. ASSUME NEW i \in 1..(n + m) PROVE Moves(G, c[i], px[i - 1], py[i - 1], px[i], py[i])
  <2>1. i \in 0..(n + m) /\ i - 1 \in 0..(n + m)
    BY <1>5
  <2>2. CASE i <= n
    <3>1. i \in 1..n /\ i - 1 <= n
      BY <1>5, <2>2
    <3>2. c[i] = a[i] /\ px[i] = pa[i] /\ py[i] = qa[i] /\ px[i - 1] = pa[i - 1] /\ py[i - 1] = qa[i - 1]
      BY <1>5, <1>7, <2>1, <2>2, <3>1
    <3> QED
      BY <1>3, <3>1, <3>2
  <2>3. CASE ~(i <= n)
    <3> DEFINE j == i - n
    <3>1. j \in 1..m /\ j \in 0..m
      BY <1>5, <2>3
    <3>2. c[i] = b[j] /\ px[i] = pb[j] /\ py[i] = qb[j]
      BY <1>5, <1>7, <2>1, <2>3
    <3>3. px[i - 1] = pb[j - 1] /\ py[i - 1] = qb[j - 1]
      <4>1. CASE i - 1 <= n
        <5>1. i - 1 = n /\ j - 1 = 0
          BY <1>5, <2>3, <4>1
        <5>2. px[i - 1] = pa[n] /\ py[i - 1] = qa[n]
          BY <1>7, <2>1, <4>1, <5>1
        <5> HIDE DEF j
        <5> QED
          BY <1>2, <1>6, <5>1, <5>2
      <4>2. CASE ~(i - 1 <= n)
        <5>1. i - 1 - n = j - 1
          BY <1>5
        <5>2. px[i - 1] = pb[i - 1 - n] /\ py[i - 1] = qb[i - 1 - n]
          BY <1>7, <2>1, <4>2
        <5> HIDE DEF j
        <5> QED
          BY <5>1, <5>2
      <4> QED
        BY <4>1, <4>2
    <3> HIDE DEF j
    <3> QED
      BY <1>4, <3>1, <3>2, <3>3
  <2> QED
    BY <2>2, <2>3
<1>10. WalksBy(G, c, px, py)
  BY <1>5, <1>8, <1>9 DEF WalksBy
<1>11. px[0] = x /\ py[0] = y
  <2>1. 0 \in 0..(n + m) /\ 0 <= n
    BY <1>5
  <2> QED
    BY <1>1, <1>7, <2>1
<1>12. px[n + m] = u /\ py[n + m] = w
  <2>1. n + m \in 0..(n + m)
    BY <1>5
  <2>2. CASE m = 0
    <3>1. n + m = n
      BY <1>5, <2>2
    <3>2. pa[n] = pb[0] /\ qa[n] = qb[0]
      BY <1>2, <1>6
    <3>3. px[n + m] = pa[n] /\ py[n + m] = qa[n]
      BY <1>5, <1>7, <2>1, <3>1
    <3> QED
      BY <1>6, <2>2, <3>2, <3>3
  <2>3. CASE m # 0
    <3>1. ~(n + m <= n) /\ (n + m) - n = m
      BY <1>5, <2>3
    <3> QED
      BY <1>6, <1>7, <2>1, <3>1
  <2> QED
    BY <2>2, <2>3
<1> QED
  BY <1>5, <1>10, <1>11, <1>12 DEF Walk, c

\* A slide.
SlideOps(x, y, n) == [i \in 1..n |-> Equal(x + i, y + i)]

LEMMA WalkSlides ==
  ASSUME NEW G, NEW x \in Nat, NEW y \in Nat, NEW n \in Nat, Matching(G, x, y, n)
  PROVE  /\ Walk(G, SlideOps(x, y, n), x, y, x + n, y + n)
         /\ Dels(SlideOps(x, y, n)) = {} /\ Inss(SlideOps(x, y, n)) = {}
<1> DEFINE ops == SlideOps(x, y, n)
           px == [i \in 0..n |-> x + i]
           py == [i \in 0..n |-> y + i]
<1>1. \A i \in 1..n : x + i \in Nat /\ y + i \in Nat /\ Equal(x + i, y + i) \in Op
  BY DEF Op, Equal
<1>2. ops \in Seq(Op) /\ Len(ops) = n /\ \A i \in 1..n : ops[i] = Equal(x + i, y + i)
  BY <1>1 DEF SlideOps
<1>3. px \in [0..n -> Nat] /\ py \in [0..n -> Nat] /\ \A i \in 0..n : px[i] = x + i /\ py[i] = y + i
  OBVIOUS
<1>4. DOMAIN ops = 1..n
  BY <1>2
<1> HIDE DEF ops, px, py
<1>5. ASSUME NEW i \in 1..n PROVE Moves(G, ops[i], px[i - 1], py[i - 1], px[i], py[i])
  <2>1. i \in 0..n /\ i - 1 \in 0..n /\ i - 1 \in 0..(n - 1)
    OBVIOUS
  <2>2. px[i] = x + i /\ py[i] = y + i /\ px[i - 1] = x + (i - 1) /\ py[i - 1] = y + (i - 1)
    BY <1>3, <2>1
  <2>3. <<px[i - 1], py[i - 1]>> \in G
    BY <2>1, <2>2 DEF Matching
  <2>4. px[i] = px[i - 1] + 1 /\ py[i] = py[i - 1] + 1
    BY <2>2
  <2>5. ops[i] = Equal(px[i], py[i])
    BY <1>2, <2>2
  <2> QED
    BY <2>3, <2>4, <2>5 DEF Moves
<1>6. px[0] = x /\ py[0] = y /\ px[n] = x + n /\ py[n] = y + n
  <2>1. 0 \in 0..n /\ n \in 0..n
    OBVIOUS
  <2>2. px[0] = x + 0 /\ py[0] = y + 0 /\ px[n] = x + n /\ py[n] = y + n
    BY <1>3, <2>1
  <2> QED
    BY <2>2
<1>7. Walk(G, ops, x, y, x + n, y + n)
  BY <1>2, <1>3, <1>5, <1>6 DEF Walk, WalksBy
<1>8. Dels(ops) = {} /\ Inss(ops) = {}
  BY <1>2, <1>4 DEF Dels, Inss, Equal
<1> QED
  BY <1>7, <1>8 DEF ops

\* A single change.
LEMMA WalkDeletes ==
  ASSUME NEW G, NEW x \in Nat, NEW y \in Nat
  PROVE  /\ Walk(G, <<Delete(x + 1)>>, x, y, x + 1, y)
         /\ Dels(<<Delete(x + 1)>>) = {x + 1} /\ Inss(<<Delete(x + 1)>>) = {}
<1> DEFINE ops == <<Delete(x + 1)>>
           px == [i \in 0..1 |-> x + i]
           py == [i \in 0..1 |-> y]
<1>1. Delete(x + 1) \in Op
  BY DEF Op, Delete
<1>2. ops \in Seq(Op) /\ Len(ops) = 1 /\ ops[1] = Delete(x + 1) /\ DOMAIN ops = 1..1
  BY <1>1
<1>3. px \in [0..1 -> Nat] /\ py \in [0..1 -> Nat] /\ px[0] = x /\ px[1] = x + 1 /\ py[0] = y /\ py[1] = y
  <2>1. 0 \in 0..1 /\ 1 \in 0..1
    OBVIOUS
  <2> QED
    BY <2>1
<1> HIDE DEF ops, px, py
<1>4. \A i \in 1..1 : i = 1 /\ i - 1 = 0
  OBVIOUS
<1>5. \A i \in 1..1 : Moves(G, ops[i], px[i - 1], py[i - 1], px[i], py[i])
  BY <1>2, <1>3, <1>4 DEF Moves
<1>6. Walk(G, ops, x, y, x + 1, y)
  BY <1>2, <1>3, <1>5 DEF Walk, WalksBy
<1>7. Dels(ops) = {x + 1} /\ Inss(ops) = {}
  BY <1>2, <1>4 DEF Dels, Inss, Delete
<1> QED
  BY <1>6, <1>7 DEF ops

LEMMA WalkInserts ==
  ASSUME NEW G, NEW x \in Nat, NEW y \in Nat
  PROVE  /\ Walk(G, <<Insert(y + 1)>>, x, y, x, y + 1)
         /\ Dels(<<Insert(y + 1)>>) = {} /\ Inss(<<Insert(y + 1)>>) = {y + 1}
<1> DEFINE ops == <<Insert(y + 1)>>
           px == [i \in 0..1 |-> x]
           py == [i \in 0..1 |-> y + i]
<1>1. Insert(y + 1) \in Op
  BY DEF Op, Insert
<1>2. ops \in Seq(Op) /\ Len(ops) = 1 /\ ops[1] = Insert(y + 1) /\ DOMAIN ops = 1..1
  BY <1>1
<1>3. px \in [0..1 -> Nat] /\ py \in [0..1 -> Nat] /\ px[0] = x /\ px[1] = x /\ py[0] = y /\ py[1] = y + 1
  <2>1. 0 \in 0..1 /\ 1 \in 0..1
    OBVIOUS
  <2> QED
    BY <2>1
<1> HIDE DEF ops, px, py
<1>4. \A i \in 1..1 : i = 1 /\ i - 1 = 0
  OBVIOUS
<1>5. \A i \in 1..1 : Moves(G, ops[i], px[i - 1], py[i - 1], px[i], py[i])
  BY <1>2, <1>3, <1>4 DEF Moves
<1>6. Walk(G, ops, x, y, x, y + 1)
  BY <1>2, <1>3, <1>5 DEF Walk, WalksBy
<1>7. Dels(ops) = {} /\ Inss(ops) = {y + 1}
  BY <1>2, <1>4 DEF Dels, Inss, Insert
<1> QED
  BY <1>6, <1>7 DEF ops

\* The size of a union of sets that have nothing in common.
LEMMA DisjointSizes ==
  ASSUME NEW A, NEW B, IsFiniteSet(A), IsFiniteSet(B), A \cap B = {}
  PROVE  IsFiniteSet(A \cup B) /\ Cardinality(A \cup B) = Cardinality(A) + Cardinality(B)
<1>1. /\ IsFiniteSet(A \cup B)
      /\ Cardinality(A \cup B) = Cardinality(A) + Cardinality(B) - Cardinality(A \cap B)
  BY FS_Union
<1>2. Cardinality(A \cap B) = 0 /\ Cardinality(A) \in Nat /\ Cardinality(B) \in Nat
  BY FS_EmptySet, FS_CardinalityType
<1> QED
  BY <1>1, <1>2

\* What two walks in a row change.
LEMMA ChangesJoin ==
  ASSUME NEW G, NEW a, NEW b, NEW x, NEW y, NEW p, NEW q, NEW u, NEW w,
         Walk(G, a, x, y, p, q), Walk(G, b, p, q, u, w)
  PROVE  Changes(a \o b) = Changes(a) + Changes(b)
<1>1. /\ x \in Nat /\ y \in Nat /\ p \in Nat /\ q \in Nat
      /\ a \in Seq(Op)
      /\ Dels(a) \subseteq (x + 1)..p /\ IsFiniteSet(Dels(a))
      /\ Inss(a) \subseteq (y + 1)..q /\ IsFiniteSet(Inss(a))
  BY WalkTakes
<1>2. /\ u \in Nat /\ w \in Nat
      /\ b \in Seq(Op)
      /\ Dels(b) \subseteq (p + 1)..u /\ IsFiniteSet(Dels(b))
      /\ Inss(b) \subseteq (q + 1)..w /\ IsFiniteSet(Inss(b))
  BY WalkTakes
<1> DEFINE n == Len(a)
           m == Len(b)
           c == a \o b
<1>3. /\ n \in Nat /\ m \in Nat /\ DOMAIN a = 1..n /\ DOMAIN b = 1..m /\ DOMAIN c = 1..(n + m)
      /\ \A i \in 1..(n + m) : c[i] = IF i <= n THEN a[i] ELSE b[i - n]
  BY <1>1, <1>2
<1> HIDE DEF n, m, c
<1>4. (\A i \in DOMAIN a : i \in DOMAIN c /\ c[i] = a[i])
      /\ (\A j \in DOMAIN b : n + j \in DOMAIN c /\ c[n + j] = b[j])
  <2>1. \A i \in 1..n : i \in 1..(n + m) /\ i <= n
    BY <1>3
  <2>2. \A j \in 1..m : n + j \in 1..(n + m) /\ ~(n + j <= n) /\ (n + j) - n = j
    BY <1>3
  <2> QED
    BY <1>3, <2>1, <2>2
<1>5. \A i \in DOMAIN c : (i \in DOMAIN a /\ c[i] = a[i]) \/ \E j \in DOMAIN b : c[i] = b[j]
  <2> TAKE i \in DOMAIN c
  <2>1. CASE i <= n
    <3>1. i \in 1..n
      BY <1>3, <2>1
    <3> QED
      BY <1>3, <1>4, <3>1
  <2>2. CASE ~(i <= n)
    <3>1. i - n \in 1..m
      BY <1>3, <2>2
    <3> QED
      BY <1>3, <2>2, <3>1
  <2> QED
    BY <2>1, <2>2
<1>6. Dels(c) = Dels(a) \cup Dels(b)
  BY <1>4, <1>5 DEF Dels
<1>7. Inss(c) = Inss(a) \cup Inss(b)
  BY <1>4, <1>5 DEF Inss
<1>8. Dels(a) \cap Dels(b) = {} /\ Inss(a) \cap Inss(b) = {}
  BY <1>1, <1>2
<1>9. Cardinality(Dels(c)) = Cardinality(Dels(a)) + Cardinality(Dels(b))
  BY <1>1, <1>2, <1>6, <1>8, DisjointSizes
<1>10. Cardinality(Inss(c)) = Cardinality(Inss(a)) + Cardinality(Inss(b))
  BY <1>1, <1>2, <1>7, <1>8, DisjointSizes
<1>11. /\ Cardinality(Dels(a)) \in Nat /\ Cardinality(Dels(b)) \in Nat
       /\ Cardinality(Inss(a)) \in Nat /\ Cardinality(Inss(b)) \in Nat
  BY <1>1, <1>2, FS_CardinalityType
<1> QED
  BY <1>9, <1>10, <1>11 DEF Changes, c

\* The step back from where round d has come to.
StepsBack(D, G, s, back, r, d) ==
  /\ r = [x |-> r.x, y |-> r.y, ops |-> back \o s.ops]
  /\ r.x \in Int /\ r.y \in Int
  /\ d > 0 => /\ Walk(G, back, r.x, r.y, s.x, s.y) /\ Changes(back) = 1
              /\ Reaches(D, d - 1, r.x, r.y) /\ D[r.x][r.y] = d - 1
  /\ d = 0 => Walk(G, back, 0, 0, s.x, s.y) /\ Changes(back) = 0

LEMMA BackStep ==
  ASSUME NEW S, NEW old \in Seq(S), NEW new \in Seq(S), NEW d \in Nat, NEW w \in Nat, d < w,
         NEW v, Frontier(Distances(old, new), v, d, w),
         NEW s, Reaches(Distances(old, new), d, s.x, s.y),
         Distances(old, new)[s.x][s.y] = d
  PROVE  \E back : StepsBack(Distances(old, new), Matches(old, new), s, back,
                             BackOneRound(s, v, d), d)
<1> DEFINE D == Distances(old, new)
           G == Matches(old, new)
           sx == s.x
           sy == s.y
           k == sx - sy
           x == SetsOut(v, d, k)
           y == x - k
           n == sx - x
           r == BackOneRound(s, v, d)
<1>1. Measures(D, G)
  BY DistancesMeasure
<1>2. sx \in Nat /\ sy \in Nat /\ k \in Int /\ Reaches(D, d, sx, sy) /\ D[sx][sy] = d
  BY DEF Reaches
<1>3. k \in Turns(d)
  <2> HIDE DEF D, G, sx, sy
  <2>1. d >= sx - sy /\ d >= sy - sx
    BY <1>1, <1>2, MeasureBounds
  <2>2. \E h \in Int : D[sx][sy] = sx - sy + 2 * h
    BY <1>1, <1>2 DEF Measures
  <2>3. PICK h \in Int : d = sx - sy + 2 * h
    BY <1>2, <2>2
  <2>4. k \in -d..d /\ (k + d) % 2 = 0
    BY <1>2, <2>1, <2>3
  <2> HIDE DEF k
  <2> QED
    BY <2>4 DEF Turns
<1> HIDE DEF k
<1>4. /\ x \in Nat /\ y \in Nat /\ x <= sx /\ D[x][y] = d
      /\ \A m \in 0..(n - 1) : <<x + m, y + m>> \in G
  <2> DEFINE e == Slide(old, new, x, k)
  <2>1. /\ x \in Nat /\ y \in Nat /\ e \in Nat /\ e >= x
        /\ Reaches(D, d, e, e - k)
        /\ D[e][e - k] = D[x][y]
        /\ \A m \in 0..(e - x - 1) : <<x + m, y + m>> \in G
    <3> HIDE DEF k
    <3> QED
      BY <1>3, TurnReaches
  <2> HIDE DEF e, x, D, G, sx, sy
  <2>2. e - k \in Nat /\ e - (e - k) = sx - sy /\ sx - sy = e - (e - k) /\ D[e][e - k] <= d /\ D[sx][sy] <= d
    <3>1. e - k \in Nat /\ D[e][e - k] <= d
      BY <2>1 DEF Reaches
    <3>2. k = sx - sy
      BY DEF k
    <3>3. e - (e - k) = k
      <4> HIDE DEF k
      <4> QED
        BY <1>2, <2>1
    <3>4. d <= d
      OBVIOUS
    <3>5. D[sx][sy] <= d
      BY <1>2, <3>4
    <3> QED
      BY <3>1, <3>2, <3>3, <3>5
  <2> DEFINE f == e - k
  <2>3. f \in Nat /\ e - f = sx - sy /\ sx - sy = e - f /\ D[e][f] <= d /\ Reaches(D, d, e, f)
    BY <2>1, <2>2
  <2> HIDE DEF f
  <2>8. d \in Int /\ D[sx][sy] <= d
    BY <2>2
  <2>4. sx <= e
    BY <1>1, <1>2, <2>3, <2>8, ReachesAll
  <2>5. e <= sx
    BY <1>1, <1>2, <2>1, <2>3, <2>8, ReachesAll
  <2>6. e = sx /\ f = sy
    BY <1>2, <2>1, <2>3, <2>4, <2>5
  <2>7. D[x][y] = d
    BY <1>2, <2>1, <2>6 DEF f
  <2> QED
    BY <2>1, <2>6, <2>7
<1>5. /\ n \in Nat /\ x + n = sx /\ y + n = sy /\ sx - n = x /\ sy - n = y
  <2> HIDE DEF x, sx, sy
  <2> QED
    BY <1>2, <1>4 DEF k
<1>6. /\ d > 0 /\ Downwards(v, d, k) => Reaches(D, d - 1, x, x - k - 1)
      /\ d > 0 /\ ~Downwards(v, d, k) => Reaches(D, d - 1, x - 1, x - k)
  <2> HIDE DEF D, G
  <2>1. Frontier(D, v, d, w)
    BY DEF D
  <2> QED
    BY <1>1, <1>3, <2>1, SetsOutFurthest
<1> DEFINE from == IF Downwards(v, d, k) THEN k + 1 ELSE k - 1
           f == v[from]
<1>7. /\ Downwards(v, d, k) => from = k + 1 /\ f = x
      /\ ~Downwards(v, d, k) => from = k - 1 /\ x = f + 1 /\ f \in Int
  <2>1. k - 1 \in -w..w \/ Downwards(v, d, k)
    <3>1. k \in Int /\ -d <= k /\ k <= d
      BY <1>3, TurnsNear
    <3> QED
      BY <3>1
  <2>2. v \in [-w..w -> Int]
    BY DEF Frontier
  <2> QED
    BY <2>1, <2>2 DEF SetsOut
<1> HIDE DEF x, D, G, from, f
<1>8. f \in Int /\ f - from = (IF Downwards(v, d, k) THEN y - 1 ELSE y)
      /\ f = (IF Downwards(v, d, k) THEN x ELSE x - 1) /\ (x = f <=> Downwards(v, d, k))
  <2>1. k \in Int /\ x \in Int /\ y = x - k
    BY <1>2, <1>4
  <2> HIDE DEF y
  <2>2. CASE Downwards(v, d, k)
    <3>1. from = k + 1 /\ f = x
      BY <1>7, <2>2
    <3>2. x - (k + 1) = y - 1 /\ x # x - 1
      BY <2>1
    <3> QED
      BY <2>1, <2>2, <3>1, <3>2
  <2>3. CASE ~Downwards(v, d, k)
    <3>1. from = k - 1 /\ x = f + 1 /\ f \in Int
      BY <1>7, <2>3
    <3>2. f = x - 1 /\ f - from = y /\ x # f
      BY <2>1, <3>1
    <3> QED
      BY <2>3, <3>1, <3>2
  <2> QED
    BY <2>2, <2>3
<1>9. Max({0, Min({sx - f, sy - (f - from)})}) = n
  <2> DEFINE p == sx - f
             q == sy - (f - from)
  <2>1. p \in Int /\ q \in Int /\ ((p = n /\ q = n + 1) \/ (p = n + 1 /\ q = n))
    <3> HIDE DEF n, sx, sy, y
    <3> QED
      BY <1>2, <1>4, <1>5, <1>8
  <2> HIDE DEF p, q, n
  <2>2. Min({p, q}) = n
    BY <1>5, <2>1, MinOfTwo
  <2>3. Max({0, n}) = n
    <3>1. n \in Int /\ 0 \in Int /\ n >= 0
      BY <1>5
    <3>2. Max({0, n}) = IF 0 >= n THEN 0 ELSE n
      BY <3>1, MaxOfTwo
    <3> QED
      BY <3>1, <3>2
  <2> QED
    BY <2>2, <2>3 DEF p, q
<1> DEFINE change == IF x = f THEN Insert(y) ELSE Delete(x)
           slid == SlideOps(x, y, n)
           back == (IF d > 0 THEN <<change>> ELSE <<>>) \o slid
<1>10. r = [x |-> f, y |-> f - from, ops |-> back \o s.ops]
  <2>1. r = LET same == Max({0, Min({sx - f, sy - (f - from)})})
                xx == sx - same
                yy == sy - same
                ch == IF xx = f THEN Insert(yy) ELSE Delete(xx)
                sl == SlideOps(xx, yy, same)
            IN  [x |-> f, y |-> f - from,
                 ops |-> (IF d > 0 THEN <<ch>> ELSE <<>>) \o sl \o s.ops]
    BY DEF BackOneRound, SlideOps, from, f, k
  <2> HIDE DEF n, sx, sy, r
  <2>2. r = LET xx == sx - n
                yy == sy - n
                ch == IF xx = f THEN Insert(yy) ELSE Delete(xx)
                sl == SlideOps(xx, yy, n)
            IN  [x |-> f, y |-> f - from,
                 ops |-> (IF d > 0 THEN <<ch>> ELSE <<>>) \o sl \o s.ops]
    BY <1>9, <2>1
  <2> QED
    BY <1>5, <2>2
<1>11. /\ r.x = f /\ r.y = f - from /\ r = [x |-> r.x, y |-> r.y, ops |-> back \o s.ops]
       /\ r.x \in Int /\ r.y \in Int
  <2>1. y \in Int
    BY <1>4
  <2> HIDE DEF r, back, y
  <2>2. r.x = f /\ r.y = f - from /\ r = [x |-> r.x, y |-> r.y, ops |-> back \o s.ops]
    BY <1>10
  <2>3. f \in Int /\ f - from \in Int
    BY <1>8, <2>1
  <2> QED
    BY <2>2, <2>3
<1>12. Walk(G, slid, x, y, sx, sy) /\ Dels(slid) = {} /\ Inss(slid) = {} /\ slid \in Seq(Op)
  <2>1. Matching(G, x, y, n)
    BY <1>4 DEF Matching
  <2> HIDE DEF n, y, slid
  <2>2. Walk(G, slid, x, y, x + n, y + n) /\ Dels(slid) = {} /\ Inss(slid) = {}
    BY <1>4, <1>5, <2>1, WalkSlides DEF slid
  <2> HIDE DEF sx, sy
  <2>3. Walk(G, slid, x, y, sx, sy)
    BY <1>5, <2>2
  <2> QED
    BY <2>2, <2>3, WalkTakes
<1> HIDE DEF r, sx, sy, y, n, slid
<1>13. Changes(slid) = 0
  BY <1>12, FS_EmptySet DEF Changes
<1>14. CASE d = 0
  <2>1. back = slid
    BY <1>12, <1>14
  <2>2. x = 0 /\ y = 0
    <3>1. k = 0
      BY <1>3, <1>14, TurnsNear
    <3>2. x = v[k + 1] /\ k + 1 = 1
      <4>0. k \in Int /\ -d <= k /\ k <= d
        BY <1>3, TurnsNear
      <4>1. k = -d /\ k + 1 = 1
        BY <1>14, <4>0
      <4>2. Downwards(v, d, k)
        BY <4>1 DEF Downwards
      <4> QED
        BY <4>1, <4>2 DEF x, SetsOut
    <3>3. x = 0
      BY <1>14, <3>2 DEF Frontier
    <3> QED
      BY <3>1, <3>3 DEF y
  <2>3. StepsBack(D, G, s, back, r, d)
    <3> HIDE DEF back
    <3>1. Walk(G, back, 0, 0, s.x, s.y)
      BY <1>12, <2>1, <2>2 DEF sx, sy
    <3> QED
      BY <1>11, <1>13, <1>14, <2>1, <3>1 DEF StepsBack
  <2> HIDE DEF back
  <2> QED
    BY <2>3 DEF D, G, r
<1>15. CASE d > 0
  <2>1. back = <<change>> \o slid
    BY <1>15
  <2> HIDE DEF back
  <2>2. CASE Downwards(v, d, k)
    <3> DEFINE z == y - 1
    <3>1. Reaches(D, d - 1, x, z) /\ r.x = x /\ r.y = z /\ z \in Nat /\ y = z + 1 /\ change = Insert(z + 1)
      <4>1. x - k - 1 = z
        BY <1>2, <1>4 DEF y
      <4>2. Reaches(D, d - 1, x, z)
        BY <1>6, <1>15, <2>2, <4>1
      <4>3. z \in Nat /\ y = z + 1
        BY <1>4, <4>2 DEF Reaches
      <4> QED
        BY <1>8, <1>11, <2>2, <4>2, <4>3
    <3> HIDE DEF z, change
    <3>2. Walk(G, <<change>>, x, z, x, y) /\ Changes(<<change>>) = 1
      <4>1. Walk(G, <<change>>, x, z, x, z + 1) /\ Dels(<<change>>) = {} /\ Inss(<<change>>) = {z + 1}
        BY <1>4, <3>1, WalkInserts
      <4>2. Cardinality({z + 1}) = 1 /\ Cardinality({}) = 0
        BY FS_Singleton, FS_EmptySet
      <4>4. Cardinality(Dels(<<change>>)) = 0
        BY <4>1, <4>2
      <4>5. Cardinality(Inss(<<change>>)) = 1
        BY <4>1, <4>2
      <4>3. Changes(<<change>>) = 1
        BY <4>4, <4>5 DEF Changes
      <4> QED
        BY <3>1, <4>1, <4>3
    <3>3. Walk(G, back, x, z, sx, sy)
      BY <1>12, <2>1, <3>2, WalkJoins
    <3>4. Changes(back) = 1
      <4>1. Changes(back) = Changes(<<change>>) + Changes(slid)
        BY <1>12, <2>1, <3>2, ChangesJoin
      <4> QED
        BY <1>13, <3>2, <4>1
    <3>5. D[x][z] = d - 1
      <4>1. D[x][z] <= d - 1 /\ D[x][z] \in Int
        BY <1>1, <1>4, <3>1, MeasureBounds DEF Reaches
      <4>2. D[x][z + 1] \in {D[x][z] - 1, D[x][z] + 1}
        BY <1>1, <1>4, <3>1 DEF Measures
      <4>3. D[x][z + 1] = d
        BY <1>4, <3>1
      <4> DEFINE a == D[x][z]
      <4>4. a <= d - 1 /\ a \in Int /\ d \in {a - 1, a + 1}
        BY <4>1, <4>2, <4>3
      <4> HIDE DEF a
      <4>5. a = d - 1
        BY <4>4
      <4> QED
        BY <4>5 DEF a
    <3>6. StepsBack(D, G, s, back, r, d)
      BY <1>11, <1>15, <3>1, <3>3, <3>4, <3>5 DEF StepsBack, sx, sy
    <3> QED
      BY <3>6 DEF D, G, r
  <2>3. CASE ~Downwards(v, d, k)
    <3> DEFINE z == x - 1
    <3>1. Reaches(D, d - 1, z, y) /\ r.x = z /\ r.y = y /\ z \in Nat /\ x = z + 1 /\ change = Delete(z + 1)
      <4>1. Reaches(D, d - 1, z, y)
        BY <1>6, <1>15, <2>3 DEF y
      <4>2. z \in Nat /\ x = z + 1
        BY <1>4, <4>1 DEF Reaches
      <4> QED
        BY <1>8, <1>11, <2>3, <4>1, <4>2
    <3> HIDE DEF z, change
    <3>2. Walk(G, <<change>>, z, y, x, y) /\ Changes(<<change>>) = 1
      <4>1. Walk(G, <<change>>, z, y, z + 1, y) /\ Dels(<<change>>) = {z + 1} /\ Inss(<<change>>) = {}
        BY <1>4, <3>1, WalkDeletes
      <4>2. Cardinality({z + 1}) = 1 /\ Cardinality({}) = 0
        BY FS_Singleton, FS_EmptySet
      <4>4. Cardinality(Dels(<<change>>)) = 1
        BY <4>1, <4>2
      <4>5. Cardinality(Inss(<<change>>)) = 0
        BY <4>1, <4>2
      <4>3. Changes(<<change>>) = 1
        BY <4>4, <4>5 DEF Changes
      <4> QED
        BY <3>1, <4>1, <4>3
    <3>3. Walk(G, back, z, y, sx, sy)
      BY <1>12, <2>1, <3>2, WalkJoins
    <3>4. Changes(back) = 1
      <4>1. Changes(back) = Changes(<<change>>) + Changes(slid)
        BY <1>12, <2>1, <3>2, ChangesJoin
      <4> QED
        BY <1>13, <3>2, <4>1
    <3>5. D[z][y] = d - 1
      <4>1. D[z][y] <= d - 1 /\ D[z][y] \in Int
        BY <1>1, <1>4, <3>1, MeasureBounds DEF Reaches
      <4>2. D[z + 1][y] \in {D[z][y] - 1, D[z][y] + 1}
        BY <1>1, <1>4, <3>1 DEF Measures
      <4>3. D[z + 1][y] = d
        BY <1>4, <3>1
      <4> DEFINE a == D[z][y]
      <4>4. a <= d - 1 /\ a \in Int /\ d \in {a - 1, a + 1}
        BY <4>1, <4>2, <4>3
      <4> HIDE DEF a
      <4>5. a = d - 1
        BY <4>4
      <4> QED
        BY <4>5 DEF a
    <3>6. StepsBack(D, G, s, back, r, d)
      BY <1>11, <1>15, <3>1, <3>3, <3>4, <3>5 DEF StepsBack, sx, sy
    <3> QED
      BY <3>6 DEF D, G, r
  <2> QED
    BY <2>2, <2>3
<1> QED
  BY <1>14, <1>15

\* Reading the script off the trace.
BackStates == [x : Int, y : Int, ops : Seq(Op)]
IsBack(f, old, new, trace, last) ==
  f = [n \in 0..(last + 1) |->
        IF n = 0 THEN [x |-> Len(old), y |-> Len(new), ops |-> <<>>]
        ELSE BackOneRound(f[n - 1], trace[last + 1 - n], last + 1 - n)]

LEMMA BacktrackIs ==
  \A old, new, trace, last :
    Backtrack(old, new, trace, last) = (CHOOSE f : IsBack(f, old, new, trace, last))[last + 1].ops
BY DEF Backtrack, IsBack

\* The way back after n rounds: it has a script from where it is to the end.
OnTheWay(D, G, N, M, d, n, s) ==
  /\ n <= d => /\ Walk(G, s.ops, s.x, s.y, N, M) /\ Changes(s.ops) = n
               /\ Reaches(D, d - n, s.x, s.y) /\ D[s.x][s.y] = d - n
  /\ n > d => Walk(G, s.ops, 0, 0, N, M) /\ Changes(s.ops) = d

LEMMA OneRoundBack ==
  ASSUME NEW S, NEW old \in Seq(S), NEW new \in Seq(S), NEW d \in Nat, NEW w \in Nat, d < w,
         NEW n \in 1..(d + 1), NEW v, Frontier(Distances(old, new), v, d + 1 - n, w),
         NEW s \in BackStates,
         OnTheWay(Distances(old, new), Matches(old, new), Len(old), Len(new), d, n - 1, s)
  PROVE  LET r == BackOneRound(s, v, d + 1 - n)
         IN  /\ r \in BackStates
             /\ OnTheWay(Distances(old, new), Matches(old, new), Len(old), Len(new), d, n, r)
<1> DEFINE D == Distances(old, new)
           G == Matches(old, new)
           N == Len(old)
           M == Len(new)
           e == d + 1 - n
           r == BackOneRound(s, v, e)
<1>1. e \in Nat /\ e < w /\ n - 1 <= d /\ d - (n - 1) = e /\ d - n = e - 1 /\ (n <= d <=> e > 0) /\ (n > d <=> e = 0)
  OBVIOUS
<1>2. /\ Walk(G, s.ops, s.x, s.y, N, M) /\ Changes(s.ops) = n - 1
      /\ Reaches(D, e, s.x, s.y) /\ D[s.x][s.y] = e
  <2>1. OnTheWay(D, G, N, M, d, n - 1, s)
    OBVIOUS
  <2> HIDE DEF D, G, N, M, e
  <2> QED
    BY <1>1, <2>1 DEF OnTheWay
<1>3. Frontier(D, v, e, w)
  OBVIOUS
<1>4. PICK back : StepsBack(D, G, s, back, r, e)
  <2> HIDE DEF e, r
  <2>1. \E back : StepsBack(D, G, s, back, BackOneRound(s, v, e), e)
    BY <1>1, <1>2, <1>3, BackStep
  <2> QED
    BY <2>1 DEF r
<1> HIDE DEF D, G, N, M, e, r
<1>5. /\ r = [x |-> r.x, y |-> r.y, ops |-> back \o s.ops] /\ r.x \in Int /\ r.y \in Int
      /\ e > 0 => /\ Walk(G, back, r.x, r.y, s.x, s.y) /\ Changes(back) = 1
                  /\ Reaches(D, e - 1, r.x, r.y) /\ D[r.x][r.y] = e - 1
      /\ e = 0 => Walk(G, back, 0, 0, s.x, s.y) /\ Changes(back) = 0
  BY <1>4 DEF StepsBack
<1>6. r.ops = back \o s.ops
  BY <1>5
<1>7. CASE e > 0
  <2>1. Walk(G, back, r.x, r.y, s.x, s.y) /\ Changes(back) = 1
    BY <1>5, <1>7
  <2>2. Walk(G, r.ops, r.x, r.y, N, M)
    BY <1>2, <1>6, <2>1, WalkJoins
  <2>3. Changes(r.ops) = n
    <3>1. Changes(r.ops) = Changes(back) + Changes(s.ops)
      BY <1>2, <1>6, <2>1, ChangesJoin
    <3> QED
      BY <1>2, <2>1, <3>1
  <2>4. r.ops \in Seq(Op)
    BY <2>2, WalkTakes
  <2>5. r \in BackStates
    BY <1>5, <1>6, <2>4 DEF BackStates
  <2>6. OnTheWay(D, G, N, M, d, n, r)
    <3>1. ~(n > d) /\ d - n = e - 1
      BY <1>1, <1>7
    <3> QED
      BY <1>5, <1>7, <2>2, <2>3, <3>1 DEF OnTheWay
  <2> QED
    BY <2>5, <2>6 DEF D, G, N, M, e, r
<1>8. CASE e = 0
  <2>1. Walk(G, back, 0, 0, s.x, s.y) /\ Changes(back) = 0
    BY <1>5, <1>8
  <2>2. Walk(G, r.ops, 0, 0, N, M)
    BY <1>2, <1>6, <2>1, WalkJoins
  <2>3. Changes(r.ops) = d
    <3>1. Changes(r.ops) = Changes(back) + Changes(s.ops)
      BY <1>2, <1>6, <2>1, ChangesJoin
    <3>2. n - 1 = d
      BY <1>1, <1>8
    <3> QED
      BY <1>2, <2>1, <3>1, <3>2
  <2>4. r.ops \in Seq(Op)
    BY <2>2, WalkTakes
  <2>5. r \in BackStates
    BY <1>5, <1>6, <2>4 DEF BackStates
  <2>6. OnTheWay(D, G, N, M, d, n, r)
    <3>1. ~(n <= d)
      BY <1>1, <1>8
    <3> QED
      BY <2>2, <2>3, <3>1 DEF OnTheWay
  <2> QED
    BY <2>5, <2>6 DEF D, G, N, M, e, r
<1> QED
  BY <1>1, <1>7, <1>8

\* The script leads from the beginning of both texts to their end, and it has
\* as many changes as the distance.
LEMMA BacktrackWalks ==
  ASSUME NEW S, NEW old \in Seq(S), NEW new \in Seq(S), NEW d \in Nat, NEW w \in Nat, d < w,
         NEW trace, \A e \in 0..d : Frontier(Distances(old, new), trace[e], e, w),
         Distances(old, new)[Len(old)][Len(new)] = d
  PROVE  LET ops == Backtrack(old, new, trace, d)
         IN  Walk(Matches(old, new), ops, 0, 0, Len(old), Len(new)) /\ Changes(ops) = d
<1> DEFINE D == Distances(old, new)
           G == Matches(old, new)
           N == Len(old)
           M == Len(new)
           last == d + 1
           start == [x |-> N, y |-> M, ops |-> <<>>]
           Way(n, s) == OnTheWay(D, G, N, M, d, n, s)
           Back(n, s) == BackOneRound(s, trace[last - n], last - n)
           step == [n \in 1..last |->
                     [s \in BackStates |-> IF Way(n - 1, s) THEN Back(n, s) ELSE s]]
<1>1. N \in Nat /\ M \in Nat /\ last \in Nat
  OBVIOUS
<1>2. Way(0, start) /\ start \in BackStates
  <2>1. start.x = N /\ start.y = M /\ start.ops = <<>>
    OBVIOUS
  <2>2. D[N + 1][M + 1] = D[N][M] + 2
    BY AfterTheEnds
  <2>3. D[N][M] = d
    OBVIOUS
  <2> HIDE DEF D, N, M, start
  <2>4. Reaches(D, d, N, M)
    <3>1. d <= d
      OBVIOUS
    <3>2. D[N + 1][M + 1] = d + 2
      BY <2>2, <2>3
    <3>3. D[N + 1][M + 1] > d /\ D[N][M] <= d
      BY <2>3, <3>1, <3>2
    <3> QED
      BY <1>1, <3>3 DEF Reaches
  <2>5. Walk(G, <<>>, N, M, N, M) /\ Changes(<<>>) = 0
    <3> DEFINE px == [i \in 0..0 |-> N]
               py == [i \in 0..0 |-> M]
    <3>1. px \in [0..0 -> Nat] /\ py \in [0..0 -> Nat] /\ px[0] = N /\ py[0] = M
      <4>1. 0 \in 0..0
        OBVIOUS
      <4> QED
        BY <1>1, <4>1
    <3>2. <<>> \in Seq(Op) /\ Len(<<>>) = 0 /\ DOMAIN <<>> = {} /\ \A i \in 1..0 : FALSE
      OBVIOUS
    <3> HIDE DEF px, py
    <3>3. WalksBy(G, <<>>, px, py)
      BY <3>1, <3>2 DEF WalksBy
    <3>4. Walk(G, <<>>, N, M, N, M)
      BY <3>1, <3>2, <3>3 DEF Walk
    <3>5. Dels(<<>>) = {} /\ Inss(<<>>) = {}
      BY <3>2 DEF Dels, Inss
    <3>6. Changes(<<>>) = 0
      <4>1. Cardinality(Dels(<<>>)) = 0 /\ Cardinality(Inss(<<>>)) = 0
        BY <3>5, FS_EmptySet
      <4> QED
        BY <4>1 DEF Changes
    <3> QED
      BY <3>4, <3>6
  <2>6. 0 <= d /\ ~(0 > d) /\ d - 0 = d
    OBVIOUS
  <2>7. Way(0, start)
    BY <2>1, <2>3, <2>4, <2>5, <2>6 DEF OnTheWay
  <2>8. start \in BackStates
    BY <1>1 DEF BackStates, start
  <2> QED
    BY <2>7, <2>8
<1>3. ASSUME NEW n \in 1..last, NEW s \in BackStates, Way(n - 1, s)
      PROVE  Back(n, s) \in BackStates /\ Way(n, Back(n, s))
  <2>1. last - n \in 0..d /\ last - n = d + 1 - n
    OBVIOUS
  <2>2. Frontier(D, trace[d + 1 - n], d + 1 - n, w)
    BY <2>1
  <2> DEFINE v == trace[d + 1 - n]
  <2>3. Frontier(D, v, d + 1 - n, w)
    BY <2>2
  <2> HIDE DEF v
  <2>4. /\ BackOneRound(s, v, d + 1 - n) \in BackStates
        /\ OnTheWay(D, G, N, M, d, n, BackOneRound(s, v, d + 1 - n))
    BY <1>3, <2>3, OneRoundBack
  <2> QED
    BY <2>1, <2>4 DEF v
<1> HIDE DEF Way, Back
<1>4. step \in [1..last -> [BackStates -> BackStates]]
      /\ \A n \in 1..last, s \in BackStates : step[n][s] = IF Way(n - 1, s) THEN Back(n, s) ELSE s
  <2>1. \A n \in 1..last, s \in BackStates : (IF Way(n - 1, s) THEN Back(n, s) ELSE s) \in BackStates
    BY <1>3
  <2> QED
    BY <2>1
<1>5. PICK f : Solves(f, BackStates, start, last, step)
  <2> HIDE DEF start, last, step
  <2> QED
    BY <1>1, <1>2, <1>4, Iterate
<1>6. f \in [0..last -> BackStates] /\ f[0] = start /\ \A i \in 1..last : f[i] = step[i][f[i - 1]]
  BY <1>5 DEF Solves
<1> HIDE DEF step, start, last
<1>7. ASSUME NEW g, g[0] = start, \A i \in 1..last : Way(i - 1, g[i - 1]) /\ g[i - 1] \in BackStates => g[i] = Back(i, g[i - 1])
      PROVE  \A n \in 0..last : g[n] \in BackStates /\ Way(n, g[n])
  <2> DEFINE K == {n \in Nat : n <= last => g[n] \in BackStates /\ Way(n, g[n])}
  <2>1. 0 \in K
    BY <1>2, <1>7
  <2>2. ASSUME NEW n \in K PROVE n + 1 \in K
    <3> SUFFICES ASSUME n + 1 <= last PROVE g[n + 1] \in BackStates /\ Way(n + 1, g[n + 1])
      OBVIOUS
    <3>1. n \in Nat /\ n <= last /\ n + 1 \in 1..last /\ (n + 1) - 1 = n
      BY <1>1
    <3>2. g[n] \in BackStates /\ Way(n, g[n])
      BY <3>1
    <3>3. g[n + 1] = Back(n + 1, g[n])
      BY <1>7, <3>1, <3>2
    <3> QED
      BY <1>3, <3>1, <3>2, <3>3
  <2>3. \A n \in Nat : n \in K
    <3> HIDE DEF K
    <3>1. K \in SUBSET Nat
      BY DEF K
    <3> QED
      BY <2>1, <2>2, <3>1, AllNumbers
  <2> QED
    BY <1>1, <2>3
<1>8. \A i \in 1..last : Way(i - 1, f[i - 1]) /\ f[i - 1] \in BackStates => f[i] = Back(i, f[i - 1])
  BY <1>4, <1>6
<1>9. \A n \in 0..last : f[n] \in BackStates /\ Way(n, f[n])
  BY <1>6, <1>7, <1>8
<1>10. IsBack(f, old, new, trace, d)
  <2>1. ASSUME NEW i \in 0..last PROVE f[i] = IF i = 0 THEN start ELSE Back(i, f[i - 1])
    <3>1. CASE i = 0
      BY <1>6, <3>1
    <3>2. CASE i # 0
      <4>1. i \in 1..last /\ i - 1 \in 0..last
        BY <1>1, <3>2
      <4> QED
        BY <1>8, <1>9, <3>2, <4>1
    <3> QED
      BY <3>1, <3>2
  <2>2. f = [i \in 0..last |-> f[i]]
    BY <1>6
  <2>3. f = [i \in 0..last |-> IF i = 0 THEN start ELSE Back(i, f[i - 1])]
    BY <2>1, <2>2
  <2> QED
    BY <2>3 DEF IsBack, Back, start, last
<1> DEFINE b == CHOOSE g : IsBack(g, old, new, trace, d)
<1>11. IsBack(b, old, new, trace, d)
  BY <1>10
<1>18. Backtrack(old, new, trace, d) = b[last].ops
  BY BacktrackIs DEF last
<1> HIDE DEF b
<1>12. b = [i \in 0..last |-> IF i = 0 THEN start ELSE Back(i, b[i - 1])]
  BY <1>11 DEF IsBack, Back, start, last
<1>13. b[0] = start /\ \A i \in 1..last : b[i] = Back(i, b[i - 1])
  <2>1. \A i \in 0..last : b[i] = IF i = 0 THEN start ELSE Back(i, b[i - 1])
    BY <1>12
  <2>2. 0 \in 0..last /\ \A i \in 1..last : i \in 0..last /\ i # 0
    BY <1>1
  <2> QED
    BY <2>1, <2>2
<1>15. Way(last, b[last])
  <2>1. last \in 0..last
    BY <1>1
  <2> QED
    BY <1>7, <1>13, <2>1
<1>16. last > d
  BY DEF last
<1> HIDE DEF D, G, N, M
<1>17. Walk(G, b[last].ops, 0, 0, N, M) /\ Changes(b[last].ops) = d
  BY <1>15, <1>16 DEF Way, OnTheWay
<1> QED
  BY <1>17, <1>18 DEF G, N, M

\* What diff_lines returns: nothing when every diff is longer than the limit,
\* and otherwise a script with as many changes as the distance.
LEMMA ShortestScript ==
  ASSUME NEW S, NEW old \in Seq(S), NEW new \in Seq(S), MaxDistance \in Nat
  PROVE  LET dist == Len(old) + Len(new) - 2 * Common(old, new)
             diff == DiffLines(old, new)
         IN  /\ dist > MaxDistance => diff = TooFar
             /\ dist <= MaxDistance =>
                  /\ diff = [ok |-> TRUE, ops |-> diff.ops]
                  /\ Walk(Matches(old, new), diff.ops, 0, 0, Len(old), Len(new))
                  /\ Changes(diff.ops) = dist
<1> DEFINE N == Len(old)
           M == Len(new)
           D == Distances(old, new)
           dist == D[N][M]
           most == Min({MaxDistance, N + M})
           t == Trace(old, new, most)
           ops == Backtrack(old, new, t, dist)
           diff == DiffLines(old, new)
<1>1. dist = N + M - 2 * Common(old, new)
  BY DistancesMeasure
<1>2. /\ most \in Nat
      /\ dist > MaxDistance => diff = TooFar
      /\ dist <= MaxDistance => dist \in 0..most /\ diff = [ok |-> TRUE, ops |-> ops]
  BY SearchStops
<1>3. ASSUME dist <= MaxDistance
      PROVE  Walk(Matches(old, new), ops, 0, 0, N, M) /\ Changes(ops) = dist
  <2>1. dist \in 0..most
    BY <1>2, <1>3
  <2> HIDE DEF most, dist
  <2>2. \A e \in 0..most : Frontier(D, t[e], e, most + 1)
    BY <1>2, TraceReaches
  <2>3. dist \in Nat /\ most + 1 \in Nat /\ dist < most + 1 /\ \A e \in 0..dist : e \in 0..most
    BY <1>2, <2>1
  <2>4. \A e \in 0..dist : Frontier(D, t[e], e, most + 1)
    BY <2>2, <2>3
  <2>5. D[N][M] = dist
    BY DEF dist
  <2> DEFINE w == most + 1
  <2>6. w \in Nat /\ dist < w /\ \A e \in 0..dist : Frontier(D, t[e], e, w)
    BY <2>3, <2>4
  <2> HIDE DEF t, w
  <2> QED
    BY <2>3, <2>5, <2>6, BacktrackWalks
<1> HIDE DEF dist, ops, diff, N, M
<1>4. ASSUME dist <= MaxDistance
      PROVE  /\ diff = [ok |-> TRUE, ops |-> diff.ops]
             /\ Walk(Matches(old, new), diff.ops, 0, 0, N, M) /\ Changes(diff.ops) = dist
  <2>1. diff = [ok |-> TRUE, ops |-> ops]
    BY <1>2, <1>4
  <2>2. diff.ops = ops
    BY <2>1
  <2> QED
    BY <1>3, <1>4, <2>1, <2>2
<1> QED
  BY <1>1, <1>2, <1>4 DEF N, M, diff

------------------------------------------------------------------------------
(* The rendering covers the changes of the script, and nothing else.       *)

Entry(S) ==
  [kind : {"gap", "removed", "added", "sent", "kept"}, from : Nat, to : Nat, text : Seq(S)]
Cover(entries, kinds) ==
  UNION {e.from..e.to : e \in {f \in ToSet(entries) : f.kind \in kinds}}

LEMMA ToSetJoins ==
  ASSUME NEW T, NEW a \in Seq(T), NEW b \in Seq(T)
  PROVE  ToSet(a \o b) = ToSet(a) \cup ToSet(b) /\ a \o b \in Seq(T)
<1> DEFINE n == Len(a)
           m == Len(b)
           c == a \o b
<1>1. /\ n \in Nat /\ m \in Nat /\ DOMAIN a = 1..n /\ DOMAIN b = 1..m /\ DOMAIN c = 1..(n + m)
      /\ \A i \in 1..(n + m) : c[i] = IF i <= n THEN a[i] ELSE b[i - n]
      /\ c \in Seq(T)
  OBVIOUS
<1> HIDE DEF n, m, c
<1>2. \A i \in 1..n : i \in 1..(n + m) /\ c[i] = a[i]
  BY <1>1
<1>3. \A j \in 1..m : n + j \in 1..(n + m) /\ c[n + j] = b[j]
  <2> TAKE j \in 1..m
  <2>1. n + j \in 1..(n + m) /\ ~(n + j <= n) /\ (n + j) - n = j
    BY <1>1
  <2> QED
    BY <1>1, <2>1
<1>4. \A i \in 1..(n + m) : (i \in 1..n /\ c[i] = a[i]) \/ \E j \in 1..m : c[i] = b[j]
  <2> TAKE i \in 1..(n + m)
  <2>1. CASE i <= n
    <3>1. i \in 1..n
      BY <1>1, <2>1
    <3> QED
      BY <1>2, <3>1
  <2>2. CASE ~(i <= n)
    <3>1. i - n \in 1..m
      BY <1>1, <2>2
    <3> QED
      BY <1>1, <2>2, <3>1
  <2> QED
    BY <2>1, <2>2
<1>5. ToSet(c) = ToSet(a) \cup ToSet(b)
  <2>1. ASSUME NEW z \in ToSet(c) PROVE z \in ToSet(a) \cup ToSet(b)
    <3>1. PICK i \in 1..(n + m) : z = c[i]
      BY <1>1 DEF ToSet
    <3> QED
      BY <1>1, <1>4, <3>1 DEF ToSet
  <2>2. ASSUME NEW z \in ToSet(a) PROVE z \in ToSet(c)
    <3>1. PICK i \in 1..n : z = a[i]
      BY <1>1 DEF ToSet
    <3>2. i \in DOMAIN c /\ z = c[i]
      BY <1>1, <1>2, <3>1
    <3> QED
      BY <3>2 DEF ToSet
  <2>3. ASSUME NEW z \in ToSet(b) PROVE z \in ToSet(c)
    <3>1. PICK j \in 1..m : z = b[j]
      BY <1>1 DEF ToSet
    <3>2. n + j \in DOMAIN c /\ z = c[n + j]
      BY <1>1, <1>3, <3>1
    <3> QED
      BY <3>2 DEF ToSet
  <2> QED
    BY <2>1, <2>2, <2>3
<1> QED
  BY <1>1, <1>5 DEF c

IsFlatten(f, seqs) ==
  f = [i \in 1..Len(seqs) |-> IF i = 1 THEN seqs[i] ELSE f[i - 1] \o seqs[i]]

LEMMA FlattenIs ==
  \A seqs : FlattenSeq(seqs) =
              IF Len(seqs) = 0 THEN seqs ELSE (CHOOSE f : IsFlatten(f, seqs))[Len(seqs)]
BY DEF FlattenSeq, IsFlatten

\* Flattening keeps what is in the parts.
LEMMA FlattenHas ==
  ASSUME NEW T, NEW seqs \in Seq(Seq(T))
  PROVE  /\ FlattenSeq(seqs) \in Seq(T)
         /\ ToSet(FlattenSeq(seqs)) = UNION {ToSet(seqs[i]) : i \in 1..Len(seqs)}
<1> DEFINE n == Len(seqs)
<1>1. n \in Nat /\ \A i \in 1..n : seqs[i] \in Seq(T)
  OBVIOUS
<1>2. CASE n = 0
  <2>1. FlattenSeq(seqs) = seqs /\ seqs = <<>> /\ 1..0 = {}
    BY <1>2, FlattenIs
  <2>2. ToSet(<<>>) = {} /\ <<>> \in Seq(T)
    BY DEF ToSet
  <2> QED
    BY <1>2, <2>1, <2>2
<1>3. CASE n # 0
  <2> DEFINE A == Seq(T)
             empty == <<>>
             step == [i \in 1..n |-> [r \in A |-> r \o seqs[i]]]
  <2>1. empty \in A /\ step \in [1..n -> [A -> A]]
    BY <1>1
  <2>2. \A i \in 1..n, r \in A : step[i][r] = r \o seqs[i]
    OBVIOUS
  <2>3. PICK f : Solves(f, A, empty, n, step)
    <3> HIDE DEF n, A, empty, step
    <3> QED
      BY <1>1, <2>1, Iterate
  <2>4. f \in [0..n -> A] /\ f[0] = empty /\ \A i \in 1..n : f[i] = step[i][f[i - 1]]
    BY <2>3 DEF Solves
  <2> HIDE DEF step, A
  <2>5. \A i \in 1..n : f[i] = f[i - 1] \o seqs[i] /\ f[i] \in A /\ f[i - 1] \in A
    <3> TAKE i \in 1..n
    <3>1. i \in 0..n /\ i - 1 \in 0..n
      BY <1>1
    <3> QED
      BY <2>2, <2>4, <3>1
  <2> DEFINE g == [i \in 1..n |-> f[i]]
  <2>6. IsFlatten(g, seqs)
    <3>1. ASSUME NEW i \in 1..n PROVE g[i] = IF i = 1 THEN seqs[i] ELSE g[i - 1] \o seqs[i]
      <4>1. CASE i = 1
        <5>1. 1 \in 1..n /\ 1 - 1 = 0
          BY <4>1
        <5>2. f[1] = <<>> \o seqs[1] /\ seqs[1] \in Seq(T)
          BY <1>1, <2>4, <2>5, <5>1
        <5>3. <<>> \o seqs[1] = seqs[1]
          BY <5>2
        <5> QED
          BY <4>1, <5>2, <5>3
      <4>2. CASE i # 1
        <5>1. i - 1 \in 1..n
          BY <1>1, <4>2
        <5> QED
          BY <2>5, <4>2, <5>1
      <4> QED
        BY <4>1, <4>2
    <3> QED
      BY <3>1 DEF IsFlatten
  <2> DEFINE h == CHOOSE g1 : IsFlatten(g1, seqs)
  <2>7. IsFlatten(h, seqs)
    BY <2>6
  <2>8. FlattenSeq(seqs) = h[n]
    BY <1>3, FlattenIs
  <2> HIDE DEF h
  <2>9. \A i \in 1..n : h[i] = IF i = 1 THEN seqs[i] ELSE h[i - 1] \o seqs[i]
    BY <2>7 DEF IsFlatten
  <2> HIDE DEF n
  <2> DEFINE Has(i) == h[i] \in Seq(T) /\ ToSet(h[i]) = UNION {ToSet(seqs[j]) : j \in 1..i}
             K == {i \in Nat : i >= 1 /\ i <= n => Has(i)}
  <2> HIDE DEF Has
  <2>10. 0 \in K
    OBVIOUS
  <2>11. ASSUME NEW i \in K PROVE i + 1 \in K
    <3> SUFFICES ASSUME i + 1 <= n PROVE Has(i + 1)
      OBVIOUS
    <3>1. i \in Nat /\ i + 1 \in 1..n /\ (i + 1) - 1 = i
      BY <1>1
    <3>2. CASE i = 0
      <4>1. h[1] = seqs[1] /\ seqs[1] \in Seq(T) /\ i + 1 = 1 /\ 1..1 = {1}
        BY <1>1, <2>9, <3>1, <3>2
      <4> QED
        BY <4>1 DEF Has
    <3>3. CASE i # 0
      <4>0. i >= 1 /\ i <= n /\ i + 1 # 1
        BY <1>1, <3>1, <3>3
      <4>1. Has(i)
        BY <4>0
      <4>5. h[i] \in Seq(T) /\ ToSet(h[i]) = UNION {ToSet(seqs[j]) : j \in 1..i}
        BY <4>1 DEF Has
      <4>2. h[i + 1] = h[i] \o seqs[i + 1] /\ seqs[i + 1] \in Seq(T)
        <5>1. h[i + 1] = h[(i + 1) - 1] \o seqs[i + 1]
          BY <2>9, <3>1, <4>0
        <5> QED
          BY <1>1, <3>1, <5>1
      <4>3. ToSet(h[i + 1]) = ToSet(h[i]) \cup ToSet(seqs[i + 1]) /\ h[i + 1] \in Seq(T)
        BY <4>2, <4>5, ToSetJoins
      <4>4. 1..(i + 1) = 1..i \cup {i + 1}
        BY <3>1
      <4> QED
        BY <4>3, <4>4, <4>5 DEF Has
    <3> QED
      BY <3>2, <3>3
  <2>12. n \in K
    <3> HIDE DEF K
    <3>1. K \in SUBSET Nat
      BY DEF K
    <3> QED
      BY <1>1, <2>10, <2>11, <3>1, AllNumbers
  <2>13. Has(n)
    BY <1>1, <1>3, <2>12
  <2> QED
    BY <2>8, <2>13 DEF n, Has
<1> QED
  BY <1>2, <1>3

\* What a rendering in two parts, or one that is flattened, covers.
LEMMA CoverJoins ==
  ASSUME NEW T, NEW a \in Seq(T), NEW b \in Seq(T), NEW kinds
  PROVE  Cover(a \o b, kinds) = Cover(a, kinds) \cup Cover(b, kinds)
<1>1. ToSet(a \o b) = ToSet(a) \cup ToSet(b)
  BY ToSetJoins
<1> DEFINE c == a \o b
<1>2. ToSet(c) = ToSet(a) \cup ToSet(b)
  BY <1>1
<1> HIDE DEF c
<1>3. Cover(c, kinds) = Cover(a, kinds) \cup Cover(b, kinds)
  BY <1>2 DEF Cover
<1> QED
  BY <1>3 DEF c

LEMMA CoverFlattens ==
  ASSUME NEW T, NEW seqs \in Seq(Seq(T)), NEW kinds
  PROVE  Cover(FlattenSeq(seqs), kinds) = UNION {Cover(seqs[i], kinds) : i \in 1..Len(seqs)}
<1> DEFINE c == FlattenSeq(seqs)
           n == Len(seqs)
<1>1. ToSet(c) = UNION {ToSet(seqs[i]) : i \in 1..n}
  BY FlattenHas
<1> HIDE DEF c, n
<1>2. ASSUME NEW z \in Cover(c, kinds) PROVE \E i \in 1..n : z \in Cover(seqs[i], kinds)
  <2>1. PICK e \in ToSet(c) : e.kind \in kinds /\ z \in e.from..e.to
    BY DEF Cover
  <2>2. PICK i \in 1..n : e \in ToSet(seqs[i])
    BY <1>1
  <2>3. z \in Cover(seqs[i], kinds)
    BY <2>1, <2>2 DEF Cover
  <2> QED
    BY <2>3
<1>3. ASSUME NEW i \in 1..n, NEW z \in Cover(seqs[i], kinds) PROVE z \in Cover(c, kinds)
  <2>1. PICK e \in ToSet(seqs[i]) : e.kind \in kinds /\ z \in e.from..e.to
    BY DEF Cover
  <2>2. e \in ToSet(c)
    BY <1>1
  <2> QED
    BY <2>1, <2>2 DEF Cover
<1> QED
  BY <1>2, <1>3 DEF c, n

LEMMA CoverOne ==
  \A e, kinds : /\ Cover(<<e>>, kinds) = IF e.kind \in kinds THEN e.from..e.to ELSE {}
                /\ Cover(<<>>, kinds) = {}
<1> TAKE e, kinds
<1>1. ToSet(<<e>>) = {e} /\ ToSet(<<>>) = {}
  <2>1. DOMAIN <<e>> = {1} /\ <<e>>[1] = e /\ DOMAIN <<>> = {}
    OBVIOUS
  <2> DEFINE s == <<e>>
  <2>2. DOMAIN s = {1} /\ s[1] = e
    BY <2>1
  <2> HIDE DEF s
  <2>3. ToSet(s) = {e}
    BY <2>2 DEF ToSet
  <2>4. ToSet(<<>>) = {}
    BY <2>1 DEF ToSet
  <2> QED
    BY <2>3, <2>4 DEF s
<1> QED
  BY <1>1 DEF Cover

\* An added block covers its lines.
LEMMA AddedCovers ==
  ASSUME NEW S, NEW new \in Seq(S), NEW from \in 1..Len(new), NEW to \in 1..Len(new), from <= to
  PROVE  /\ Added(new, from, to) \in Seq(Entry(S))
         /\ Cover(Added(new, from, to), {"added", "sent"}) = from..to
         /\ Cover(Added(new, from, to), {"removed"}) = {}
<1> DEFINE Line(j) == Numbered("added", j, new[j])
           es == Added(new, from, to)
<1>1. from \in Nat /\ to \in Nat
  OBVIOUS
<1>2. ASSUME NEW j \in 1..Len(new)
      PROVE  Line(j) \in Entry(S) /\ Line(j).kind = "added" /\ Line(j).from = j /\ Line(j).to = j
  <2>1. new[j] \in S /\ j \in Nat
    OBVIOUS
  <2>2. <<new[j]>> \in Seq(S)
    BY <2>1
  <2> QED
    BY <2>1, <2>2 DEF Numbered, Entry
<1>3. CASE to - from < EchoWholeMax
  <2> DEFINE n == to - from + 1
  <2>1. es = [i \in 1..n |-> Line(from + i - 1)]
    BY <1>3 DEF Added
  <2>2. n \in Nat /\ \A i \in 1..n : from + i - 1 \in 1..Len(new)
    <3>1. Len(new) \in Nat
      OBVIOUS
    <3> QED
      BY <1>1, <3>1
  <2> HIDE DEF es
  <2>3. \A i \in 1..n : /\ es[i] \in Entry(S) /\ es[i].kind = "added"
                        /\ es[i].from = from + i - 1 /\ es[i].to = from + i - 1
    <3> TAKE i \in 1..n
    <3> DEFINE j == from + i - 1
    <3>1. j \in 1..Len(new) /\ es[i] = Line(j)
      BY <2>1, <2>2
    <3> HIDE DEF j, Line, n
    <3>2. es[i] \in Entry(S) /\ es[i].kind = "added" /\ es[i].from = j /\ es[i].to = j
      BY <1>2, <3>1
    <3> QED
      BY <3>2 DEF j
  <2>4. es \in Seq(Entry(S)) /\ DOMAIN es = 1..n
    <3> HIDE DEF Line, n
    <3>1. es = [i \in 1..n |-> es[i]] /\ \A i \in 1..n : es[i] \in Entry(S)
      BY <2>1, <2>3
    <3>2. DOMAIN es = 1..n
      BY <2>1
    <3>3. es \in [1..n -> Entry(S)]
      BY <3>1
    <3>4. es \in Seq(Entry(S))
      <4> DEFINE E == Entry(S)
      <4>1. es \in [1..n -> E]
        BY <3>3
      <4> HIDE DEF E
      <4>2. es \in Seq(E)
        BY <2>2, <4>1
      <4> QED
        BY <4>2 DEF E
    <3> QED
      BY <3>2, <3>4
  <2>5. ASSUME NEW z \in Cover(es, {"added", "sent"}) PROVE z \in from..to
    <3>1. PICK i \in 1..n : z \in es[i].from..es[i].to
      BY <2>4 DEF Cover, ToSet
    <3>2. z \in (from + i - 1)..(from + i - 1)
      BY <2>3, <3>1
    <3> QED
      BY <1>1, <3>2
  <2>6. ASSUME NEW z \in from..to PROVE z \in Cover(es, {"added", "sent"})
    <3> DEFINE i == z - from + 1
    <3>1. i \in 1..n /\ from + i - 1 = z /\ z \in z..z
      BY <1>1
    <3> HIDE DEF i, n
    <3>2. es[i] \in ToSet(es)
      BY <2>4, <3>1 DEF ToSet
    <3>3. es[i].kind = "added" /\ es[i].from = z /\ es[i].to = z
      BY <2>3, <3>1
    <3> QED
      BY <3>1, <3>2, <3>3 DEF Cover
  <2>7. Cover(es, {"removed"}) = {}
    <3>1. \A e \in ToSet(es) : e.kind = "added"
      BY <2>3, <2>4 DEF ToSet
    <3> QED
      BY <3>1 DEF Cover
  <2>8. Cover(es, {"added", "sent"}) = from..to
    BY <2>5, <2>6
  <2> QED
    BY <2>4, <2>7, <2>8 DEF es
<1>4. CASE ~(to - from < EchoWholeMax)
  <2> DEFINE a == Line(from)
             b == Sent(from + 1, to - 1)
             c == Line(to)
  <2>1. es = <<a, b, c>>
    BY <1>4 DEF Added
  <2>2. /\ a \in Entry(S) /\ a.kind = "added" /\ a.from = from /\ a.to = from
        /\ c \in Entry(S) /\ c.kind = "added" /\ c.from = to /\ c.to = to
    BY <1>2
  <2>3. from + 1 \in Nat /\ to - 1 \in Nat /\ from < to - 1
    BY <1>1, <1>4 DEF EchoWholeMax
  <2>4. b \in Entry(S) /\ b.kind = "sent" /\ b.from = from + 1 /\ b.to = to - 1
    <3>1. <<>> \in Seq(S)
      OBVIOUS
    <3> QED
      BY <2>3, <3>1 DEF Sent, Entry
  <2> HIDE DEF a, b, c, es
  <2>5. es \in Seq(Entry(S)) /\ ToSet(es) = {a, b, c}
    <3>1. es \in Seq(Entry(S)) /\ DOMAIN es = {1, 2, 3} /\ es[1] = a /\ es[2] = b /\ es[3] = c
      BY <2>1, <2>2, <2>4
    <3> QED
      BY <3>1 DEF ToSet
  <2>6. ASSUME NEW z \in Cover(es, {"added", "sent"}) PROVE z \in from..to
    <3>1. PICK e \in {a, b, c} : z \in e.from..e.to
      BY <2>5 DEF Cover
    <3>2. z \in from..from \/ z \in (from + 1)..(to - 1) \/ z \in to..to
      BY <2>2, <2>4, <3>1
    <3> QED
      BY <1>1, <2>3, <3>2
  <2>7. ASSUME NEW z \in from..to PROVE z \in Cover(es, {"added", "sent"})
    <3>1. z \in from..from \/ z \in (from + 1)..(to - 1) \/ z \in to..to
      BY <1>1, <2>3
    <3>2. z \in a.from..a.to \/ z \in b.from..b.to \/ z \in c.from..c.to
      BY <2>2, <2>4, <3>1
    <3>3. a \in ToSet(es) /\ b \in ToSet(es) /\ c \in ToSet(es)
      BY <2>5
    <3> QED
      BY <2>2, <2>4, <3>2, <3>3 DEF Cover
  <2>8. Cover(es, {"removed"}) = {}
    BY <2>2, <2>4, <2>5 DEF Cover
  <2>9. Cover(es, {"added", "sent"}) = from..to
    BY <2>6, <2>7
  <2> QED
    BY <2>5, <2>8, <2>9 DEF es
<1> QED
  BY <1>3, <1>4

\* The number that a change is about.
NumberOf(op) == IF op.kind = "delete" THEN op.old ELSE op.new

\* A block of changes goes over consecutive numbers.
LEMMA BlockRuns ==
  ASSUME NEW G, NEW ops, NEW px, NEW py, WalksBy(G, ops, px, py),
         NEW i \in 1..Len(ops), NEW kind \in {"delete", "insert"}, ops[i].kind = kind
  PROVE  LET e == RunEnd(ops, i)
         IN  /\ e \in i..Len(ops)
             /\ \A h \in i..e : ops[h].kind = kind /\ NumberOf(ops[h]) = NumberOf(ops[i]) + (h - i)
             /\ \A j \in i..Len(ops) : (\A h \in i..j : ops[h].kind = kind) => j <= e
<1> DEFINE n == Len(ops)
           Z == {j \in i..n : \A h \in i..j : ops[h].kind = ops[i].kind}
           e == RunEnd(ops, i)
<1>1. /\ n \in Nat /\ i \in Nat /\ px \in [0..n -> Nat] /\ py \in [0..n -> Nat]
      /\ \A h \in 1..n : Moves(G, ops[h], px[h - 1], py[h - 1], px[h], py[h])
  BY DEF WalksBy
<1>2. e = Max(Z)
  BY DEF RunEnd
<1>3. i \in Z /\ Z \in SUBSET Int /\ \A z \in Z : z <= n
  <2>1. i \in i..n /\ \A h \in i..i : h = i
    BY <1>1
  <2>2. n \in Int /\ i \in Int
    BY <1>1
  <2> HIDE DEF n
  <2>3. \A z \in i..n : z \in Int /\ z <= n
    BY <2>2
  <2>4. \A h \in i..i : ops[h].kind = ops[i].kind
    BY <2>1
  <2>5. Z \in SUBSET (i..n)
    OBVIOUS
  <2> QED
    BY <2>1, <2>3, <2>4, <2>5
<1>4. e \in Z /\ \A z \in Z : e >= z
  <2>1. n \in Int
    BY <1>1
  <2> HIDE DEF e, Z, n
  <2> QED
    BY <1>2, <1>3, <2>1, Greatest
<1> HIDE DEF e, n
<1>5. /\ e \in i..n /\ e \in Nat /\ e <= n /\ i <= e
      /\ \A h \in i..e : ops[h].kind = kind
  BY <1>1, <1>4
<1>6. \A h \in 1..n : NumberOf(ops[h]) \in Nat
  <2> TAKE h \in 1..n
  <2>1. h \in 0..n
    BY <1>1
  <2>2. px[h] \in Nat /\ py[h] \in Nat
    BY <1>1, <2>1
  <2>3. Moves(G, ops[h], px[h - 1], py[h - 1], px[h], py[h])
    BY <1>1
  <2>4. ops[h] = Equal(px[h], py[h]) \/ ops[h] = Delete(px[h]) \/ ops[h] = Insert(py[h])
    BY <2>3 DEF Moves
  <2> QED
    BY <2>2, <2>4 DEF Equal, Delete, Insert, NumberOf
<1> DEFINE K == {m \in Nat : i + m <= e => NumberOf(ops[i + m]) = NumberOf(ops[i]) + m}
<1>7. 0 \in K
  <2>1. i + 0 = i /\ NumberOf(ops[i]) \in Nat
    BY <1>1, <1>6 DEF n
  <2> QED
    BY <2>1
<1>8. ASSUME NEW m \in K PROVE m + 1 \in K
  <2> SUFFICES ASSUME i + (m + 1) <= e PROVE NumberOf(ops[i + (m + 1)]) = NumberOf(ops[i]) + (m + 1)
    OBVIOUS
  <2> DEFINE h == i + (m + 1)
  <2>1. m \in Nat /\ h - 1 = i + m /\ i + m <= e /\ h \in i..e /\ i + m \in i..e /\ h \in 1..n /\ i + m \in 1..n
    BY <1>1, <1>5
  <2>2. NumberOf(ops[i + m]) = NumberOf(ops[i]) + m
    BY <2>1
  <2>3. NumberOf(ops[h]) = NumberOf(ops[i + m]) + 1
    <3> DEFINE g == i + m
    <3>1. ops[h].kind = kind /\ ops[g].kind = kind
      BY <1>5, <2>1
    <3>2. g \in 1..n /\ h \in 1..n /\ h - 1 = g /\ g \in 0..n
      BY <1>1, <2>1
    <3> HIDE DEF g, h
    <3>3. /\ Moves(G, ops[h], px[g], py[g], px[h], py[h])
          /\ Moves(G, ops[g], px[g - 1], py[g - 1], px[g], py[g])
      BY <1>1, <3>2
    <3>4. CASE kind = "delete"
      <4>1. ops[h] = Delete(px[h]) /\ px[h] = px[g] + 1 /\ ops[g] = Delete(px[g])
        BY <3>1, <3>3, <3>4 DEF Moves, Equal, Delete, Insert
      <4>2. NumberOf(ops[h]) = px[h] /\ NumberOf(ops[g]) = px[g]
        BY <4>1 DEF NumberOf, Delete
      <4> QED
        BY <4>1, <4>2 DEF g
    <3>5. CASE kind = "insert"
      <4>1. ops[h] = Insert(py[h]) /\ py[h] = py[g] + 1 /\ ops[g] = Insert(py[g])
        BY <3>1, <3>3, <3>5 DEF Moves, Equal, Delete, Insert
      <4>2. NumberOf(ops[h]) = py[h] /\ NumberOf(ops[g]) = py[g]
        BY <4>1 DEF NumberOf, Insert
      <4> QED
        BY <4>1, <4>2 DEF g
    <3> QED
      BY <3>4, <3>5
  <2>4. NumberOf(ops[i]) \in Nat
    BY <1>6 DEF n
  <2> HIDE DEF h
  <2>5. NumberOf(ops[h]) = NumberOf(ops[i]) + (m + 1)
    BY <2>1, <2>2, <2>3, <2>4
  <2> QED
    BY <2>5 DEF h
<1>9. \A m \in Nat : m \in K
  <2> HIDE DEF K
  <2>1. K \in SUBSET Nat
    BY DEF K
  <2> QED
    BY <1>7, <1>8, <2>1, AllNumbers
<1>10. ASSUME NEW h \in i..e PROVE NumberOf(ops[h]) = NumberOf(ops[i]) + (h - i)
  <2> DEFINE m == h - i
  <2>0. h \in Int /\ i <= h /\ h <= e
    BY <1>1, <1>5
  <2>1. m \in Nat /\ i + m = h /\ h <= e
    BY <1>1, <2>0
  <2>2. m \in K
    BY <1>9, <2>1
  <2> HIDE DEF m
  <2>3. NumberOf(ops[h]) = NumberOf(ops[i]) + m
    BY <2>1, <2>2
  <2> QED
    BY <2>3 DEF m
<1>11. ASSUME NEW j \in i..n, \A h \in i..j : ops[h].kind = kind PROVE j <= e
  <2>1. j \in Z
    BY <1>11
  <2>2. e >= j
    BY <1>4, <2>1
  <2>3. j \in Int
    BY <1>1
  <2> QED
    BY <1>5, <2>2, <2>3
<1> QED
  BY <1>5, <1>10, <1>11 DEF e, n

\* Every change is in a block that begins somewhere.
LEMMA BlockBegins ==
  ASSUME NEW T, NEW ops \in Seq(T), NEW i \in 1..Len(ops)
  PROVE  \E b \in 1..i : Begins(ops, b) /\ \A h \in b..i : ops[h].kind = ops[i].kind
<1> DEFINE Z == {b \in 1..i : \A h \in b..i : ops[h].kind = ops[i].kind}
<1>1. i \in Nat /\ i \in 1..i
  OBVIOUS
<1>2. i \in Z /\ Z \in SUBSET Int /\ \A z \in Z : z >= 1
  <2>1. \A h \in i..i : h = i
    BY <1>1
  <2> QED
    BY <1>1, <2>1
<1> DEFINE b == Min(Z)
<1>3. b \in Z /\ \A z \in Z : b <= z
  <2> HIDE DEF Z
  <2>1. 1 \in Int
    OBVIOUS
  <2> QED
    BY <1>2, <2>1, Least
<1> HIDE DEF b
<1>4. b \in 1..i /\ \A h \in b..i : ops[h].kind = ops[i].kind
  BY <1>3
<1>5. Begins(ops, b)
  <2> SUFFICES ASSUME b # 1, ops[b - 1].kind = ops[b].kind PROVE FALSE
    BY DEF Begins
  <2>1. b - 1 \in 1..i /\ b \in b..i /\ \A h \in (b - 1)..i : h = b - 1 \/ h \in b..i
    BY <1>1, <1>4
  <2>2. b - 1 \in Z
    BY <1>4, <2>1
  <2> QED
    BY <1>3, <1>4, <2>2
<1> QED
  BY <1>4, <1>5

\* The numbers of the changes of one kind are those of its blocks.
Numbers(ops, kind) == {NumberOf(ops[h]) : h \in {j \in 1..Len(ops) : ops[j].kind = kind}}
Blocks(ops, kind) ==
  UNION {NumberOf(ops[b])..NumberOf(ops[RunEnd(ops, b)]) :
           b \in {j \in 1..Len(ops) : ops[j].kind = kind /\ Begins(ops, j)}}

LEMMA BlocksHaveTheNumbers ==
  ASSUME NEW G, NEW ops, NEW px, NEW py, WalksBy(G, ops, px, py), NEW kind \in {"delete", "insert"}
  PROVE  Blocks(ops, kind) = Numbers(ops, kind)
<1> DEFINE n == Len(ops)
           e(i) == RunEnd(ops, i)
<1>1. ops \in Seq(Op) /\ n \in Nat
  BY DEF WalksBy
<1>2. ASSUME NEW i \in 1..n, ops[i].kind = kind
      PROVE  /\ i \in Nat /\ e(i) \in Nat /\ i <= e(i) /\ e(i) <= n
             /\ \A h \in i..e(i) : ops[h].kind = kind /\ NumberOf(ops[h]) = NumberOf(ops[i]) + (h - i)
             /\ \A j \in i..n : (\A h \in i..j : ops[h].kind = kind) => j <= e(i)
             /\ NumberOf(ops[i]) \in Nat
  <2>1. /\ e(i) \in i..n
        /\ \A h \in i..e(i) : ops[h].kind = kind /\ NumberOf(ops[h]) = NumberOf(ops[i]) + (h - i)
        /\ \A j \in i..n : (\A h \in i..j : ops[h].kind = kind) => j <= e(i)
    BY <1>2, BlockRuns
  <2>2. ops[i] \in Op
    BY <1>1
  <2>3. NumberOf(ops[i]) \in Nat
    BY <2>2 DEF Op, NumberOf
  <2> HIDE DEF e
  <2> QED
    BY <1>1, <2>1, <2>3
<1> HIDE DEF e, n
<1>3. ASSUME NEW z \in Blocks(ops, kind) PROVE z \in Numbers(ops, kind)
  <2>1. PICK b \in 1..n : ops[b].kind = kind /\ z \in NumberOf(ops[b])..NumberOf(ops[e(b)])
    BY DEF Blocks, n, e
  <2> DEFINE a == NumberOf(ops[b])
             h == b + (z - a)
             m == e(b)
  <2>2. /\ b \in Nat /\ m \in Nat /\ b <= m /\ m <= n /\ a \in Nat
        /\ \A g \in b..m : ops[g].kind = kind /\ NumberOf(ops[g]) = a + (g - b)
    BY <1>2, <2>1
  <2> HIDE DEF a, m
  <2>3. NumberOf(ops[m]) = a + (m - b)
    BY <2>2
  <2>4. z \in Int /\ a <= z /\ z <= a + (m - b)
    BY <2>1, <2>2, <2>3 DEF a, m
  <2>5. h \in b..m /\ h \in 1..n /\ a + (h - b) = z
    BY <1>1, <2>1, <2>2, <2>4 DEF n
  <2> HIDE DEF h
  <2>6. ops[h].kind = kind /\ NumberOf(ops[h]) = z
    BY <2>2, <2>5
  <2> QED
    BY <2>5, <2>6 DEF Numbers, n
<1>4. ASSUME NEW z \in Numbers(ops, kind) PROVE z \in Blocks(ops, kind)
  <2>1. PICK h \in 1..n : ops[h].kind = kind /\ z = NumberOf(ops[h])
    BY DEF Numbers, n
  <2>2. PICK b \in 1..h : Begins(ops, b) /\ \A g \in b..h : ops[g].kind = kind
    BY <1>1, <2>1, BlockBegins DEF n
  <2>3. h \in Int /\ b \in Int /\ 1 <= b /\ b <= h /\ h <= n
    BY <1>1, <2>1, <2>2 DEF n
  <2>4. b \in 1..n /\ h \in b..n /\ b \in b..h
    BY <1>1, <2>3 DEF n
  <2>5. ops[b].kind = kind
    BY <2>2, <2>4
  <2> DEFINE a == NumberOf(ops[b])
             m == e(b)
  <2>6. /\ m \in Nat /\ b <= m /\ a \in Nat /\ h <= m
        /\ \A g \in b..m : NumberOf(ops[g]) = a + (g - b)
    BY <1>2, <2>2, <2>4, <2>5
  <2> HIDE DEF a, m
  <2>7. NumberOf(ops[m]) = a + (m - b) /\ z = a + (h - b)
    BY <2>1, <2>3, <2>6
  <2>8. z \in a..(a + (m - b))
    BY <2>3, <2>6, <2>7
  <2>9. z \in NumberOf(ops[b])..NumberOf(ops[e(b)])
    BY <2>7, <2>8 DEF a, m
  <2> QED
    BY <2>2, <2>4, <2>5, <2>9 DEF Blocks, n, e
<1> QED
  BY <1>3, <1>4

LEMMA ChangesAreNumbers ==
  ASSUME NEW ops \in Seq(Op)
  PROVE  Numbers(ops, "delete") = Dels(ops) /\ Numbers(ops, "insert") = Inss(ops)
<1>1. DOMAIN ops = 1..Len(ops)
  OBVIOUS
<1> QED
  BY <1>1 DEF Numbers, Dels, Inss, NumberOf

\* What an entry of the script is shown as.
Before(ops, i) == IF i > 1 /\ i - 1 \notin InHunks(ops) THEN <<Gap>> ELSE <<>>
At(new, ops, i, asEdit) ==
  IF i \notin InHunks(ops) THEN <<>> ELSE Before(ops, i) \o EntriesOf(new, ops, i, asEdit)
Closing(ops) ==
  IF InHunks(ops) # {} /\ Max(InHunks(ops)) < Len(ops) THEN <<Gap>> ELSE <<>>

LEMMA EntriesAre ==
  \A new, ops, asEdit :
    Entries(new, ops, asEdit) =
      FlattenSeq([i \in DOMAIN ops |-> At(new, ops, i, asEdit)]) \o Closing(ops)
BY DEF Entries, At, Before, Closing

LEMMA GapCovers ==
  \A S, kinds : "gap" \notin kinds => /\ <<Gap>> \in Seq(Entry(S)) /\ <<>> \in Seq(Entry(S))
                                       /\ Cover(<<Gap>>, kinds) = {} /\ Cover(<<>>, kinds) = {}
<1> TAKE S, kinds
<1> HAVE "gap" \notin kinds
<1>1. <<>> \in Seq(S)
  OBVIOUS
<1>2. Gap \in Entry(S) /\ Gap.kind = "gap"
  BY <1>1 DEF Gap, Entry
<1> DEFINE E == Entry(S)
<1>3. Gap \in E
  BY <1>2
<1> HIDE DEF E
<1>4. <<Gap>> \in Seq(E) /\ <<>> \in Seq(E)
  BY <1>3
<1>5. Cover(<<Gap>>, kinds) = {} /\ Cover(<<>>, kinds) = {}
  BY <1>2, CoverOne
<1> QED
  BY <1>4, <1>5 DEF E

\* The numbers of a script that ends where the texts end are lines of them.
LEMMA NumbersInTexts ==
  ASSUME NEW G, NEW ops, NEW px, NEW py, WalksBy(G, ops, px, py), NEW i \in 1..Len(ops)
  PROVE  /\ ops[i] \in Op
         /\ ops[i].kind # "delete" => ops[i].new \in 1..py[Len(ops)]
         /\ ops[i].kind = "delete" => ops[i].old \in 1..px[Len(ops)]
<1> DEFINE n == Len(ops)
<1>1. /\ n \in Nat /\ i \in Nat /\ i <= n /\ i - 1 \in 0..n /\ i \in 0..n /\ n \in 0..n
      /\ px \in [0..n -> Nat] /\ py \in [0..n -> Nat] /\ ops[i] \in Op
      /\ Moves(G, ops[i], px[i - 1], py[i - 1], px[i], py[i])
  BY DEF WalksBy
<1>2. px[i] <= px[n] /\ py[i] <= py[n]
  <2>1. i \in 0..n /\ n \in 0..n
    BY <1>1
  <2> QED
    BY <2>1, WalksForward
<1> DEFINE g == i - 1
<1>3. px[g] \in Nat /\ py[g] \in Nat /\ px[i] \in Nat /\ py[i] \in Nat /\ px[n] \in Nat /\ py[n] \in Nat
  BY <1>1
<1>4. Moves(G, ops[i], px[g], py[g], px[i], py[i])
  BY <1>1
<1> HIDE DEF g, n
<1>5. \/ ops[i] = Equal(px[i], py[i]) /\ py[i] = py[g] + 1
      \/ ops[i] = Delete(px[i]) /\ px[i] = px[g] + 1
      \/ ops[i] = Insert(py[i]) /\ py[i] = py[g] + 1
  BY <1>4 DEF Moves
<1>6. (py[i] = py[g] + 1 => py[i] \in 1..py[n]) /\ (px[i] = px[g] + 1 => px[i] \in 1..px[n])
  BY <1>2, <1>3
<1>7. CASE ops[i] = Equal(px[i], py[i]) /\ py[i] = py[g] + 1
  BY <1>1, <1>6, <1>7 DEF Equal, n
<1>8. CASE ops[i] = Delete(px[i]) /\ px[i] = px[g] + 1
  BY <1>1, <1>6, <1>8 DEF Delete, n
<1>9. CASE ops[i] = Insert(py[i]) /\ py[i] = py[g] + 1
  BY <1>1, <1>6, <1>9 DEF Insert, n
<1> QED
  BY <1>5, <1>7, <1>8, <1>9

\* One entry of the script shows itself, or the block that begins with it.
ShowsRemoved(ops, i) ==
  IF ops[i].kind = "delete" /\ Begins(ops, i) THEN ops[i].old..ops[RunEnd(ops, i)].old ELSE {}
ShowsAdded(ops, i, asEdit) ==
  IF ops[i].kind # "insert" THEN {}
  ELSE IF ~asEdit THEN {ops[i].new}
  ELSE IF Begins(ops, i) THEN ops[i].new..ops[RunEnd(ops, i)].new ELSE {}

LEMMA EntriesOfCover ==
  ASSUME NEW S, NEW new \in Seq(S), NEW asEdit \in BOOLEAN,
         NEW G, NEW ops, NEW px, NEW py, WalksBy(G, ops, px, py), py[Len(ops)] = Len(new),
         NEW i \in 1..Len(ops)
  PROVE  LET es == EntriesOf(new, ops, i, asEdit)
         IN  /\ es \in Seq(Entry(S))
             /\ Cover(es, {"removed"}) = ShowsRemoved(ops, i)
             /\ Cover(es, {"added", "sent"}) = ShowsAdded(ops, i, asEdit)
<1> DEFINE es == EntriesOf(new, ops, i, asEdit)
           E == Entry(S)
           op == ops[i]
           m == RunEnd(ops, i)
           end == ops[m]
           removed == {"removed"}
           added == {"added", "sent"}
           one(kind) == <<Numbered(kind, op.new, new[op.new])>>
<1>1. /\ op \in Op
      /\ op.kind # "delete" => op.new \in 1..Len(new)
      /\ op.kind = "delete" => op.old \in Nat
  BY NumbersInTexts DEF Op
<1>2. op.kind = "equal" \/ op.kind = "delete" \/ op.kind = "insert"
  BY <1>1 DEF Op
<1>3. ASSUME NEW kind \in {"kept", "added"}, op.kind # "delete"
      PROVE  /\ one(kind) \in Seq(E)
             /\ Cover(one(kind), removed) = {}
             /\ Cover(one(kind), added) = IF kind = "added" THEN {op.new} ELSE {}
  <2> DEFINE j == op.new
             e == Numbered(kind, j, new[j])
  <2>1. j \in Nat /\ new[j] \in S
    BY <1>1, <1>3
  <2> HIDE DEF j
  <2>2. <<new[j]>> \in Seq(S)
    BY <2>1
  <2>3. e \in E /\ e.kind = kind /\ e.from = j /\ e.to = j
    BY <2>1, <2>2 DEF Numbered, Entry
  <2>4. j..j = {j}
    BY <2>1
  <2> HIDE DEF e, E
  <2>5. <<e>> \in Seq(E)
    BY <2>3
  <2>6. Cover(<<e>>, removed) = {} /\ Cover(<<e>>, added) = IF kind = "added" THEN {j} ELSE {}
    BY <2>3, <2>4, CoverOne
  <2> QED
    BY <2>5, <2>6 DEF e, j
<1>4. <<>> \in Seq(E) /\ Cover(<<>>, removed) = {} /\ Cover(<<>>, added) = {}
  <2> HIDE DEF E
  <2> QED
    BY CoverOne
<1>5. CASE op.kind = "equal"
  <2>1. es = one("kept") /\ ShowsRemoved(ops, i) = {} /\ ShowsAdded(ops, i, asEdit) = {}
    BY <1>5 DEF EntriesOf, ShowsRemoved, ShowsAdded
  <2> HIDE DEF es, one, E, op
  <2> QED
    BY <1>3, <1>5, <2>1 DEF es, E
<1>6. CASE op.kind = "insert" /\ ~asEdit
  <2>1. es = one("added") /\ ShowsRemoved(ops, i) = {} /\ ShowsAdded(ops, i, asEdit) = {op.new}
    BY <1>6 DEF EntriesOf, ShowsRemoved, ShowsAdded
  <2> HIDE DEF es, one, E, op
  <2> QED
    BY <1>3, <1>6, <2>1 DEF es, E
<1>7. CASE op.kind = "insert" /\ asEdit /\ ~Begins(ops, i)
  <2>1. es = <<>> /\ ShowsRemoved(ops, i) = {} /\ ShowsAdded(ops, i, asEdit) = {}
    BY <1>7 DEF EntriesOf, ShowsRemoved, ShowsAdded
  <2> HIDE DEF es, E
  <2> QED
    BY <1>4, <2>1 DEF es, E
<1>8. CASE op.kind = "delete" /\ ~Begins(ops, i)
  <2>1. es = <<>> /\ ShowsRemoved(ops, i) = {} /\ ShowsAdded(ops, i, asEdit) = {}
    BY <1>8 DEF EntriesOf, ShowsRemoved, ShowsAdded
  <2> HIDE DEF es, E
  <2> QED
    BY <1>4, <2>1 DEF es, E
<1>9. CASE op.kind = "insert" /\ asEdit /\ Begins(ops, i)
  <2>1. es = Added(new, op.new, end.new) /\ ShowsRemoved(ops, i) = {}
        /\ ShowsAdded(ops, i, asEdit) = op.new..end.new
    BY <1>9 DEF EntriesOf, ShowsRemoved, ShowsAdded
  <2>2. /\ m \in i..Len(ops)
        /\ \A h \in i..m : ops[h].kind = "insert" /\ NumberOf(ops[h]) = NumberOf(op) + (h - i)
    BY <1>9, BlockRuns
  <2>3. i \in Nat /\ Len(ops) \in Nat /\ ops \in Seq(Op)
    BY DEF WalksBy
  <2> HIDE DEF m
  <2>4. m \in 1..Len(ops) /\ m \in i..m /\ m - i \in Nat /\ m \in Nat
    BY <2>2, <2>3
  <2>5. end.kind = "insert" /\ end.new = op.new + (m - i)
    BY <1>9, <2>2, <2>4 DEF NumberOf
  <2>6. end.new \in 1..Len(new) /\ op.new \in 1..Len(new)
    <3>1. end.kind # "delete" => end.new \in 1..py[Len(ops)]
      BY <2>4, NumbersInTexts
    <3> QED
      BY <1>1, <1>9, <2>5, <3>1
  <2>7. op.new <= end.new
    <3> DEFINE a == op.new
               b == end.new
               c == m - i
    <3>1. a \in Int /\ b = a + c /\ c \in Nat
      BY <2>4, <2>5, <2>6
    <3> HIDE DEF a, b, c
    <3>2. a <= b
      BY <3>1
    <3> QED
      BY <3>2 DEF a, b
  <2> HIDE DEF op, end, es
  <2>8. /\ Added(new, op.new, end.new) \in Seq(Entry(S))
        /\ Cover(Added(new, op.new, end.new), {"added", "sent"}) = op.new..end.new
        /\ Cover(Added(new, op.new, end.new), {"removed"}) = {}
    <3> DEFINE a == op.new
               b == end.new
    <3>1. a \in 1..Len(new) /\ b \in 1..Len(new) /\ a <= b
      BY <2>6, <2>7
    <3> HIDE DEF a, b
    <3>2. /\ Added(new, a, b) \in Seq(Entry(S))
          /\ Cover(Added(new, a, b), {"added", "sent"}) = a..b
          /\ Cover(Added(new, a, b), {"removed"}) = {}
      BY <3>1, AddedCovers
    <3> QED
      BY <3>2 DEF a, b
  <2> QED
    BY <2>1, <2>8 DEF es
<1>10. CASE op.kind = "delete" /\ Begins(ops, i)
  <2>1. es = <<Removed(op.old, end.old)>> /\ ShowsRemoved(ops, i) = op.old..end.old
        /\ ShowsAdded(ops, i, asEdit) = {}
    BY <1>10 DEF EntriesOf, ShowsRemoved, ShowsAdded
  <2>2. m \in i..Len(ops)
    BY <1>10, BlockRuns
  <2>3. i \in Nat /\ Len(ops) \in Nat /\ ops \in Seq(Op)
    BY DEF WalksBy
  <2>4. end \in Op
    BY <2>2, <2>3
  <2> DEFINE e == Removed(op.old, end.old)
  <2>5. <<>> \in Seq(S)
    OBVIOUS
  <2>6. e \in E /\ e.kind = "removed" /\ e.from = op.old /\ e.to = end.old
    BY <1>1, <2>4, <2>5 DEF Removed, Entry, Op
  <2>7. es = <<e>>
    BY <2>1
  <2> HIDE DEF e, E, es, op, end
  <2>8. <<e>> \in Seq(E)
    BY <2>6
  <2>9. Cover(<<e>>, removed) = op.old..end.old /\ Cover(<<e>>, added) = {}
    BY <2>6, CoverOne
  <2> QED
    BY <2>1, <2>7, <2>8, <2>9 DEF E, es
<1> QED
  BY <1>2, <1>5, <1>6, <1>7, <1>8, <1>9, <1>10

\* The changes are in the hunks, and the gaps cover nothing.
LEMMA AtCovers ==
  ASSUME NEW S, NEW new \in Seq(S), NEW asEdit \in BOOLEAN,
         NEW G, NEW ops, NEW px, NEW py, WalksBy(G, ops, px, py), py[Len(ops)] = Len(new),
         NEW i \in 1..Len(ops)
  PROVE  LET es == At(new, ops, i, asEdit)
         IN  /\ es \in Seq(Entry(S))
             /\ Cover(es, {"removed"}) = ShowsRemoved(ops, i)
             /\ Cover(es, {"added", "sent"}) = ShowsAdded(ops, i, asEdit)
<1> DEFINE E == Entry(S)
           removed == {"removed"}
           added == {"added", "sent"}
           gap == Before(ops, i)
           part == EntriesOf(new, ops, i, asEdit)
           es == At(new, ops, i, asEdit)
<1>1. /\ part \in Seq(E)
      /\ Cover(part, removed) = ShowsRemoved(ops, i)
      /\ Cover(part, added) = ShowsAdded(ops, i, asEdit)
  BY EntriesOfCover
<1>2. gap \in Seq(E) /\ Cover(gap, removed) = {} /\ Cover(gap, added) = {}
  <2>1. gap = <<Gap>> \/ gap = <<>>
    BY DEF Before
  <2>2. "gap" \notin removed /\ "gap" \notin added
    OBVIOUS
  <2>3. /\ <<Gap>> \in Seq(E) /\ <<>> \in Seq(E)
        /\ Cover(<<Gap>>, removed) = {} /\ Cover(<<>>, removed) = {}
        /\ Cover(<<Gap>>, added) = {} /\ Cover(<<>>, added) = {}
    <3> HIDE DEF removed, added
    <3> QED
      BY <2>2, GapCovers
  <2> HIDE DEF removed, added, gap, E
  <2> QED
    BY <2>1, <2>3
<1>3. CASE i \in InHunks(ops)
  <2>1. es = gap \o part
    BY <1>3 DEF At
  <2> HIDE DEF E, removed, added, gap, part, es
  <2>2. es \in Seq(E)
    BY <1>1, <1>2, <2>1
  <2>3. \A kinds : Cover(gap \o part, kinds) = Cover(gap, kinds) \cup Cover(part, kinds)
    <3> TAKE kinds
    <3>1. gap \in Seq(E) /\ part \in Seq(E)
      BY <1>1, <1>2
    <3> QED
      BY <3>1, CoverJoins
  <2>4. Cover(es, removed) = ShowsRemoved(ops, i) /\ Cover(es, added) = ShowsAdded(ops, i, asEdit)
    BY <1>1, <1>2, <2>1, <2>3
  <2> QED
    BY <2>2, <2>4 DEF E, removed, added, es
<1>4. CASE i \notin InHunks(ops)
  <2>1. es = <<>>
    BY <1>4 DEF At
  <2>2. ops[i].kind = "equal"
    <3>1. i \in Int /\ i - 2 <= i /\ i <= i + 2 /\ i \in DOMAIN ops
      BY DEF WalksBy
    <3> QED
      BY <1>4, <3>1 DEF InHunks, Context
  <2>3. ShowsRemoved(ops, i) = {} /\ ShowsAdded(ops, i, asEdit) = {}
    BY <2>2 DEF ShowsRemoved, ShowsAdded
  <2> HIDE DEF E, removed, added, es
  <2>4. <<>> \in Seq(E) /\ Cover(<<>>, removed) = {} /\ Cover(<<>>, added) = {}
    BY CoverOne
  <2> QED
    BY <2>1, <2>3, <2>4 DEF E, removed, added, es
<1> QED
  BY <1>3, <1>4

\* The rendering says of every change of the script that it is one, and of
\* nothing else.
LEMMA EntriesCover ==
  ASSUME NEW S, NEW new \in Seq(S), NEW asEdit \in BOOLEAN, NEW G, NEW ops, NEW x,
         Walk(G, ops, 0, 0, x, Len(new))
  PROVE  /\ Entries(new, ops, asEdit) \in Seq(Entry(S))
         /\ Cover(Entries(new, ops, asEdit), {"removed"}) = Dels(ops)
         /\ Cover(Entries(new, ops, asEdit), {"added", "sent"}) = Inss(ops)
<1>1. PICK px, py : WalksBy(G, ops, px, py) /\ py[Len(ops)] = Len(new)
  BY DEF Walk
<1> DEFINE E == Entry(S)
           n == Len(ops)
           removed == {"removed"}
           added == {"added", "sent"}
           at(i) == At(new, ops, i, asEdit)
           seqs == [i \in 1..n |-> at(i)]
           closing == Closing(ops)
           es == Entries(new, ops, asEdit)
<1>2. ops \in Seq(Op) /\ n \in Nat /\ DOMAIN ops = 1..n
  BY <1>1 DEF WalksBy
<1>3. es = FlattenSeq(seqs) \o closing
  BY <1>2, EntriesAre
<1>4. \A i \in 1..n : /\ at(i) \in Seq(E)
                      /\ Cover(at(i), removed) = ShowsRemoved(ops, i)
                      /\ Cover(at(i), added) = ShowsAdded(ops, i, asEdit)
  BY <1>1, AtCovers
<1>5. closing \in Seq(E) /\ Cover(closing, removed) = {} /\ Cover(closing, added) = {}
  <2>1. closing = <<Gap>> \/ closing = <<>>
    BY DEF Closing
  <2>2. "gap" \notin removed /\ "gap" \notin added
    OBVIOUS
  <2>3. /\ <<Gap>> \in Seq(E) /\ <<>> \in Seq(E)
        /\ Cover(<<Gap>>, removed) = {} /\ Cover(<<>>, removed) = {}
        /\ Cover(<<Gap>>, added) = {} /\ Cover(<<>>, added) = {}
    <3> HIDE DEF removed, added
    <3> QED
      BY <2>2, GapCovers
  <2> HIDE DEF removed, added, closing, E
  <2> QED
    BY <2>1, <2>3
<1>6. seqs \in Seq(Seq(E)) /\ Len(seqs) = n /\ \A i \in 1..n : seqs[i] = at(i)
  <2> DEFINE A == Seq(E)
  <2>1. \A i \in 1..n : at(i) \in A
    BY <1>4
  <2> HIDE DEF A, at, n
  <2>2. seqs \in [1..n -> A] /\ \A i \in 1..n : seqs[i] = at(i)
    BY <2>1
  <2>3. seqs \in Seq(A) /\ Len(seqs) = n
    BY <1>2, <2>2
  <2> QED
    BY <2>2, <2>3 DEF A
<1> HIDE DEF E, n, removed, added, at, seqs, closing, es
<1> DEFINE flat == FlattenSeq(seqs)
<1>7. flat \in Seq(E)
  BY <1>6, FlattenHas
<1>8. /\ Cover(flat, removed) = UNION {ShowsRemoved(ops, i) : i \in 1..n}
      /\ Cover(flat, added) = UNION {ShowsAdded(ops, i, asEdit) : i \in 1..n}
  <2>1. /\ Cover(flat, removed) = UNION {Cover(seqs[i], removed) : i \in 1..n}
        /\ Cover(flat, added) = UNION {Cover(seqs[i], added) : i \in 1..n}
    BY <1>6, CoverFlattens
  <2> QED
    BY <1>4, <1>6, <2>1
<1> HIDE DEF flat
<1>9. /\ es \in Seq(E)
      /\ Cover(es, removed) = UNION {ShowsRemoved(ops, i) : i \in 1..n}
      /\ Cover(es, added) = UNION {ShowsAdded(ops, i, asEdit) : i \in 1..n}
  <2>1. es = flat \o closing
    BY <1>3 DEF flat
  <2>2. flat \o closing \in Seq(E)
    BY <1>5, <1>7
  <2>3. \A kinds : Cover(flat \o closing, kinds) = Cover(flat, kinds) \cup Cover(closing, kinds)
    <3> TAKE kinds
    <3>1. flat \in Seq(E) /\ closing \in Seq(E)
      BY <1>5, <1>7
    <3> QED
      BY <3>1, CoverJoins
  <2> QED
    BY <1>5, <1>8, <2>1, <2>2, <2>3
<1>10. \A kind \in {"delete", "insert"} : Blocks(ops, kind) = Numbers(ops, kind)
  BY <1>1, BlocksHaveTheNumbers
<1>11. Numbers(ops, "delete") = Dels(ops) /\ Numbers(ops, "insert") = Inss(ops)
  BY <1>2, ChangesAreNumbers
<1>12. \A i \in 1..n : ops[i].kind \in {"delete", "insert"} =>
         /\ RunEnd(ops, i) \in 1..n
         /\ ops[RunEnd(ops, i)].kind = ops[i].kind
  <2> TAKE i \in 1..n
  <2> DEFINE kind == ops[i].kind
             m == RunEnd(ops, i)
  <2> HAVE ops[i].kind \in {"delete", "insert"}
  <2>1. m \in i..n /\ \A h \in i..m : ops[h].kind = kind
    BY <1>1, BlockRuns DEF n
  <2> HIDE DEF m, kind
  <2>2. m \in 1..n /\ m \in i..m
    BY <1>2, <2>1
  <2> QED
    BY <2>1, <2>2 DEF m, kind
<1>13. UNION {ShowsRemoved(ops, i) : i \in 1..n} = Blocks(ops, "delete")
  <2>1. \A i \in 1..n : ops[i].kind = "delete" =>
          NumberOf(ops[i]) = ops[i].old /\ NumberOf(ops[RunEnd(ops, i)]) = ops[RunEnd(ops, i)].old
    BY <1>12 DEF NumberOf
  <2>2. \A i \in 1..n : ShowsRemoved(ops, i) =
          IF ops[i].kind = "delete" /\ Begins(ops, i)
          THEN NumberOf(ops[i])..NumberOf(ops[RunEnd(ops, i)]) ELSE {}
    BY <2>1 DEF ShowsRemoved
  <2> QED
    BY <2>2 DEF Blocks, n
<1>14. UNION {ShowsAdded(ops, i, asEdit) : i \in 1..n} = Numbers(ops, "insert")
  <2>1. \A i \in 1..n : ops[i].kind = "insert" =>
          NumberOf(ops[i]) = ops[i].new /\ NumberOf(ops[RunEnd(ops, i)]) = ops[RunEnd(ops, i)].new
    BY <1>12 DEF NumberOf
  <2>2. CASE asEdit
    <3>1. \A i \in 1..n : ShowsAdded(ops, i, asEdit) =
            IF ops[i].kind = "insert" /\ Begins(ops, i)
            THEN NumberOf(ops[i])..NumberOf(ops[RunEnd(ops, i)]) ELSE {}
      BY <2>1, <2>2 DEF ShowsAdded
    <3>2. UNION {ShowsAdded(ops, i, asEdit) : i \in 1..n} = Blocks(ops, "insert")
      BY <3>1 DEF Blocks, n
    <3> QED
      BY <1>10, <3>2
  <2>3. CASE ~asEdit
    <3>1. \A i \in 1..n : ShowsAdded(ops, i, asEdit) =
            IF ops[i].kind = "insert" THEN {NumberOf(ops[i])} ELSE {}
      BY <2>1, <2>3 DEF ShowsAdded
    <3> QED
      BY <3>1 DEF Numbers, n
  <2> QED
    BY <2>2, <2>3
<1> QED
  BY <1>9, <1>10, <1>11, <1>13, <1>14 DEF es, E, removed, added

------------------------------------------------------------------------------
(* The specification.                                                      *)

\* Nothing is shown, or the diff of the two texts.
ShowsTheDiff ==
  /\ pair \in Pairs
  /\ edit \in BOOLEAN
  /\ rendered = NotShown \/ rendered = RenderDiff(pair.old, pair.new, edit)

LEMMA ShowsTheDiffHolds == DiffSpec => []ShowsTheDiff
<1>1. DiffInit => ShowsTheDiff
  BY DEF DiffInit, ShowsTheDiff
<1>2. ShowsTheDiff /\ [DiffNext]_diffVars => ShowsTheDiff'
  <2> SUFFICES ASSUME ShowsTheDiff, [DiffNext]_diffVars PROVE ShowsTheDiff'
    OBVIOUS
  <2>1. CASE Tell
    BY <2>1 DEF Tell, ShowsTheDiff
  <2>2. CASE UNCHANGED diffVars
    BY <2>2 DEF diffVars, ShowsTheDiff
  <2> QED
    BY <2>1, <2>2 DEF DiffNext
<1> QED
  BY <1>1, <1>2, PTL DEF DiffSpec

\* What RenderDiff tells of two texts, with the script it has found.
LEMMA RenderIsShortest ==
  ASSUME NEW S, NEW old \in Seq(S), NEW new \in Seq(S), MaxDistance \in Nat, NEW asEdit \in BOOLEAN
  PROVE  LET dist == Len(old) + Len(new) - 2 * Common(old, new)
             shown == RenderDiff(old, new, asEdit)
         IN  \/ shown.how = "full" /\ dist > MaxDistance
             \/ /\ shown.how = "diff" /\ dist <= MaxDistance
                /\ Cardinality(Cover(shown.entries, {"removed"}))
                     + Cardinality(Cover(shown.entries, {"added", "sent"})) = dist
<1> DEFINE dist == Len(old) + Len(new) - 2 * Common(old, new)
           diff == DiffLines(old, new)
           G == Matches(old, new)
           shown == RenderDiff(old, new, asEdit)
           entries == Entries(new, diff.ops, asEdit)
<1>1. /\ dist > MaxDistance => diff = TooFar
      /\ dist <= MaxDistance =>
           /\ diff = [ok |-> TRUE, ops |-> diff.ops]
           /\ Walk(G, diff.ops, 0, 0, Len(old), Len(new))
           /\ Changes(diff.ops) = dist
  BY ShortestScript
<1>2. dist \in Int
  BY DistancesMeasure DEF Measures
<1>3. /\ ~diff.ok => shown.how = "full"
      /\ diff.ok => shown.how = "diff" /\ shown.entries = entries
  BY DEF RenderDiff
<1> HIDE DEF dist, diff, G, shown, entries
<1>4. CASE dist > MaxDistance
  BY <1>1, <1>3, <1>4 DEF TooFar, shown, dist
<1>5. CASE ~(dist > MaxDistance)
  <2>1. dist <= MaxDistance
    BY <1>2, <1>5
  <2>2. diff.ok = TRUE /\ Walk(G, diff.ops, 0, 0, Len(old), Len(new)) /\ Changes(diff.ops) = dist
    BY <1>1, <2>1
  <2>3. /\ Cover(entries, {"removed"}) = Dels(diff.ops)
        /\ Cover(entries, {"added", "sent"}) = Inss(diff.ops)
    BY <2>2, EntriesCover DEF entries
  <2>4. shown.how = "diff" /\ shown.entries = entries
    BY <1>3, <2>2
  <2>5. Cardinality(Cover(shown.entries, {"removed"}))
          + Cardinality(Cover(shown.entries, {"added", "sent"})) = dist
    BY <2>2, <2>3, <2>4 DEF Changes
  <2> QED
    BY <2>1, <2>4, <2>5 DEF shown, dist
<1> QED
  BY <1>4, <1>5

\* No shorter diff exists: of any two texts the client is told as few removed
\* and added lines as any diff of them has, and gets the whole text only if
\* that is more than the limit (diff_lines and render_diff of delta.rs).
THEOREM NoShorterDiffCorrect == LineDiffAssumption => (DiffSpec => []NoShorterDiff)
<1> SUFFICES ASSUME LineDiffAssumption PROVE DiffSpec => []NoShorterDiff
  OBVIOUS
<1>1. ShowsTheDiff => NoShorterDiff
  <2> SUFFICES ASSUME ShowsTheDiff, rendered # NotShown PROVE NoShorterDiff
    BY DEF NoShorterDiff
  <2> DEFINE S == ToSet(Old) \cup ToSet(New)
             dist == Len(Old) + Len(New) - 2 * Common(Old, New)
  <2>1. rendered = RenderDiff(Old, New, edit) /\ edit \in BOOLEAN
    BY DEF ShowsTheDiff, Old, New
  <2>2. MaxDistance \in Nat /\ Old \in Seq(ToSet(Old)) /\ New \in Seq(ToSet(New))
    BY DEF ShowsTheDiff, LineDiffAssumption, Old, New
  <2>3. Old \in Seq(S) /\ New \in Seq(S)
    <3>1. \A A, B, s : s \in Seq(A) => s \in Seq(A \cup B) /\ s \in Seq(B \cup A)
      OBVIOUS
    <3> QED
      BY <2>2, <3>1
  <2> HIDE DEF S
  <2>4. \/ rendered.how = "full" /\ dist > MaxDistance
        \/ /\ rendered.how = "diff" /\ dist <= MaxDistance
           /\ Cardinality(Cover(rendered.entries, {"removed"}))
                + Cardinality(Cover(rendered.entries, {"added", "sent"})) = dist
    BY <2>1, <2>2, <2>3, RenderIsShortest
  <2>5. \A kinds : Covered(kinds) = Cover(rendered.entries, kinds)
    BY DEF Covered, Of, Cover
  <2> QED
    BY <2>4, <2>5 DEF NoShorterDiff
<1> QED
  BY <1>1, ShowsTheDiffHolds, PTL

------------------------------------------------------------------------------
(* Common is what its name says: no script at all has fewer changes.       *)

\* What the first j entries of a script delete and insert.
DelsTo(ops, j) == {ops[i].old : i \in {h \in 1..j : ops[h].kind = "delete"}}
InssTo(ops, j) == {ops[i].new : i \in {h \in 1..j : ops[h].kind = "insert"}}

\* A change that lies above all that came before it counts as one more.
LEMMA OneMoreNumber ==
  ASSUME NEW A, NEW x \in Nat, A \subseteq 1..x
  PROVE  /\ IsFiniteSet(A) /\ Cardinality(A) \in Nat
         /\ Cardinality(A \cup {x + 1}) = Cardinality(A) + 1
<1>1. IsFiniteSet(1..x)
  BY FS_Interval
<1>2. IsFiniteSet(A)
  BY <1>1, FS_Subset
<1>3. x + 1 \notin A
  OBVIOUS
<1> QED
  BY <1>2, <1>3, FS_CardinalityType, FS_AddElement

LEMMA DistanceBelow ==
  ASSUME NEW D, NEW G, Measures(D, G), NEW ops, NEW u, NEW w, Walk(G, ops, 0, 0, u, w)
  PROVE  D[u][w] <= Changes(ops)
<1>1. PICK px, py : /\ WalksBy(G, ops, px, py)
                    /\ px[0] = 0 /\ py[0] = 0 /\ px[Len(ops)] = u /\ py[Len(ops)] = w
  BY DEF Walk
<1> DEFINE n == Len(ops)
           size(j) == Cardinality(DelsTo(ops, j)) + Cardinality(InssTo(ops, j))
           Below(j) == /\ DelsTo(ops, j) \subseteq 1..px[j]
                       /\ InssTo(ops, j) \subseteq 1..py[j]
                       /\ D[px[j]][py[j]] <= size(j)
           K == {j \in Nat : j <= n => Below(j)}
<1>2. /\ n \in Nat /\ px \in [0..n -> Nat] /\ py \in [0..n -> Nat] /\ DOMAIN ops = 1..n
      /\ \A i \in 1..n : Moves(G, ops[i], px[i - 1], py[i - 1], px[i], py[i])
      /\ px[0] = 0 /\ py[0] = 0 /\ px[n] = u /\ py[n] = w
  BY <1>1 DEF WalksBy
<1>3. /\ D \in [Nat -> [Nat -> Int]] /\ D[0][0] = 0
      /\ \A x, y \in Nat : D[x + 1][y] \in {D[x][y] - 1, D[x][y] + 1}
      /\ \A x, y \in Nat : D[x][y + 1] \in {D[x][y] - 1, D[x][y] + 1}
      /\ \A x, y \in Nat : <<x, y>> \in G => D[x + 1][y + 1] = D[x][y]
  BY DEF Measures
<1> HIDE DEF n
<1>4. 0 \in K
  <2>1. 1..0 = {}
    OBVIOUS
  <2>2. DelsTo(ops, 0) = {} /\ InssTo(ops, 0) = {}
    BY <2>1 DEF DelsTo, InssTo
  <2>3. Cardinality({}) = 0
    BY FS_EmptySet
  <2>4. size(0) = 0
    BY <2>2, <2>3
  <2>5. px[0] = 0 /\ py[0] = 0 /\ D[0][0] = 0
    BY <1>2, <1>3
  <2>6. D[px[0]][py[0]] = 0
    BY <2>5
  <2> HIDE DEF size
  <2>7. Below(0)
    BY <2>2, <2>4, <2>6
  <2> QED
    BY <2>7
<1>5. ASSUME NEW j \in K PROVE j + 1 \in K
  <2> SUFFICES ASSUME j + 1 <= n PROVE Below(j + 1)
    OBVIOUS
  <2> DEFINE h == j + 1
             x == px[j]
             y == py[j]
             A == DelsTo(ops, j)
             B == InssTo(ops, j)
             a == Cardinality(A)
             b == Cardinality(B)
             d == D[x][y]
  <2>1. j \in Nat /\ j <= n /\ j \in 0..n /\ h \in 0..n /\ h \in 1..n /\ h - 1 = j /\ 1..h = 1..j \cup {h}
    BY <1>2
  <2>2. x \in Nat /\ y \in Nat
    BY <1>2, <2>1
  <2>3. Below(j)
    BY <2>1
  <2>4. A \subseteq 1..x /\ B \subseteq 1..y /\ d <= a + b /\ d \in Int
    BY <1>3, <2>2, <2>3
  <2>5. /\ a \in Nat /\ Cardinality(A \cup {x + 1}) = a + 1
        /\ b \in Nat /\ Cardinality(B \cup {y + 1}) = b + 1
    <3> HIDE DEF A, B, x, y
    <3> QED
      BY <2>2, <2>4, OneMoreNumber
  <2>6. Moves(G, ops[h], x, y, px[h], py[h])
    BY <1>2, <2>1
  <2>7. /\ DelsTo(ops, h) = IF ops[h].kind = "delete" THEN A \cup {ops[h].old} ELSE A
        /\ InssTo(ops, h) = IF ops[h].kind = "insert" THEN B \cup {ops[h].new} ELSE B
    <3> HIDE DEF h
    <3> QED
      BY <2>1 DEF DelsTo, InssTo
  <2> HIDE DEF h, A, B, a, b, x, y
  <2>8. CASE ops[h] = Equal(px[h], py[h]) /\ px[h] = x + 1 /\ py[h] = y + 1 /\ <<x, y>> \in G
    <3>1. DelsTo(ops, h) = A /\ InssTo(ops, h) = B
      BY <2>7, <2>8 DEF Equal
    <3>2. D[px[h]][py[h]] = d
      BY <1>3, <2>2, <2>8
    <3>3. A \subseteq 1..(x + 1) /\ B \subseteq 1..(y + 1)
      BY <2>2, <2>4
    <3>4. size(h) = a + b
      BY <3>1 DEF a, b
    <3>5. Below(h)
      BY <2>4, <2>8, <3>1, <3>2, <3>3, <3>4
    <3> QED
      BY <3>5 DEF h
  <2>9. CASE ops[h] = Delete(px[h]) /\ px[h] = x + 1 /\ py[h] = y
    <3>1. DelsTo(ops, h) = A \cup {x + 1} /\ InssTo(ops, h) = B
      BY <2>7, <2>9 DEF Delete
    <3>2. D[px[h]][py[h]] = d - 1 \/ D[px[h]][py[h]] = d + 1
      <4>1. D[x + 1][y] \in {D[x][y] - 1, D[x][y] + 1}
        BY <1>3, <2>2
      <4>2. px[h] = x + 1 /\ py[h] = y
        BY <2>9
      <4> QED
        BY <4>1, <4>2
    <3>3. A \cup {x + 1} \subseteq 1..(x + 1)
      <4>1. \A z \in 1..x : z \in 1..(x + 1)
        BY <2>2
      <4>2. x + 1 \in 1..(x + 1)
        BY <2>2
      <4> QED
        BY <2>4, <4>1, <4>2
    <3>4. size(h) = (a + 1) + b
      BY <2>5, <3>1 DEF a, b
    <3> DEFINE e == D[px[h]][py[h]]
    <3>5. e <= (a + 1) + b
      <4>1. e = d - 1 \/ e = d + 1
        BY <3>2
      <4> HIDE DEF e, d
      <4> QED
        BY <2>4, <2>5, <4>1
    <3>6. Below(h)
      BY <2>4, <2>9, <3>1, <3>3, <3>4, <3>5
    <3> QED
      BY <3>6 DEF h
  <2>10. CASE ops[h] = Insert(py[h]) /\ px[h] = x /\ py[h] = y + 1
    <3>1. DelsTo(ops, h) = A /\ InssTo(ops, h) = B \cup {y + 1}
      BY <2>7, <2>10 DEF Insert
    <3>2. D[px[h]][py[h]] = d - 1 \/ D[px[h]][py[h]] = d + 1
      <4>1. D[x][y + 1] \in {D[x][y] - 1, D[x][y] + 1}
        BY <1>3, <2>2
      <4>2. px[h] = x /\ py[h] = y + 1
        BY <2>10
      <4> QED
        BY <4>1, <4>2
    <3>3. B \cup {y + 1} \subseteq 1..(y + 1)
      <4>1. \A z \in 1..y : z \in 1..(y + 1)
        BY <2>2
      <4>2. y + 1 \in 1..(y + 1)
        BY <2>2
      <4> QED
        BY <2>4, <4>1, <4>2
    <3>4. size(h) = a + (b + 1)
      BY <2>5, <3>1 DEF a, b
    <3> DEFINE e == D[px[h]][py[h]]
    <3>5. e <= a + (b + 1)
      <4>1. e = d - 1 \/ e = d + 1
        BY <3>2
      <4> HIDE DEF e, d
      <4> QED
        BY <2>4, <2>5, <4>1
    <3>6. Below(h)
      BY <2>4, <2>10, <3>1, <3>3, <3>4, <3>5
    <3> QED
      BY <3>6 DEF h
  <2> QED
    BY <2>6, <2>8, <2>9, <2>10 DEF Moves
<1>6. n \in K
  <2> HIDE DEF K
  <2>1. K \in SUBSET Nat
    BY DEF K
  <2> QED
    BY <1>2, <1>4, <1>5, <2>1, AllNumbers
<1>7. Below(n)
  BY <1>2, <1>6
<1>8. DelsTo(ops, n) = Dels(ops) /\ InssTo(ops, n) = Inss(ops)
  BY <1>2 DEF DelsTo, InssTo, Dels, Inss
<1> QED
  BY <1>2, <1>7, <1>8 DEF Changes

\* The edit script that diff_lines finds turns the old text into the new one
\* and no other has fewer changes; it gives up only where every script has
\* more than the limit (diff_lines of delta.rs: "None once the edit distance
\* exceeds max_d").
THEOREM ScriptIsShortest ==
  \A S : \A old, new \in Seq(S) : MaxDistance \in Nat =>
    LET diff == DiffLines(old, new)
        Script(ops) == Walk(Matches(old, new), ops, 0, 0, Len(old), Len(new))
    IN  /\ diff.ok => /\ Script(diff.ops) /\ Changes(diff.ops) <= MaxDistance
                      /\ \A ops : Script(ops) => Changes(diff.ops) <= Changes(ops)
        /\ ~diff.ok => \A ops : Script(ops) => Changes(ops) > MaxDistance
<1> TAKE S
<1> TAKE old, new \in Seq(S)
<1> HAVE MaxDistance \in Nat
<1> DEFINE diff == DiffLines(old, new)
           G == Matches(old, new)
           N == Len(old)
           M == Len(new)
           dist == N + M - 2 * Common(old, new)
<1>1. /\ dist > MaxDistance => diff = TooFar
      /\ dist <= MaxDistance =>
           /\ diff = [ok |-> TRUE, ops |-> diff.ops]
           /\ Walk(G, diff.ops, 0, 0, N, M)
           /\ Changes(diff.ops) = dist
  BY ShortestScript
<1>2. \A ops : Walk(G, ops, 0, 0, N, M) => dist <= Changes(ops) /\ Changes(ops) \in Nat
  <2> TAKE ops
  <2> HAVE Walk(G, ops, 0, 0, N, M)
  <2> DEFINE D == Distances(old, new)
  <2>1. Measures(D, G) /\ D[N][M] = dist
    BY DistancesMeasure
  <2>2. IsFiniteSet(Dels(ops)) /\ IsFiniteSet(Inss(ops))
    <3> HIDE DEF G
    <3> QED
      BY WalkTakes
  <2>3. Changes(ops) \in Nat
    BY <2>2, FS_CardinalityType DEF Changes
  <2> HIDE DEF D, G, N, M, dist
  <2>4. D[N][M] <= Changes(ops)
    BY <2>1, DistanceBelow
  <2> QED
    BY <2>1, <2>3, <2>4
<1>3. dist \in Int
  BY DistancesMeasure DEF Measures
<1> HIDE DEF diff, G, N, M, dist
<1>4. CASE dist > MaxDistance
  <2>1. diff.ok = FALSE
    BY <1>1, <1>4 DEF TooFar
  <2>2. \A ops : Walk(G, ops, 0, 0, N, M) => Changes(ops) > MaxDistance
    BY <1>2, <1>3, <1>4
  <2> QED
    BY <2>1, <2>2 DEF diff, G, N, M
<1>5. CASE ~(dist > MaxDistance)
  <2>1. dist <= MaxDistance
    BY <1>3, <1>5
  <2>2. diff.ok = TRUE /\ Walk(G, diff.ops, 0, 0, N, M) /\ Changes(diff.ops) = dist
    BY <1>1, <2>1
  <2>3. \A ops : Walk(G, ops, 0, 0, N, M) => Changes(diff.ops) <= Changes(ops)
    BY <1>2, <2>2
  <2>4. Changes(diff.ops) <= MaxDistance
    BY <2>1, <2>2
  <2> QED
    BY <2>2, <2>3, <2>4 DEF diff, G, N, M
<1> QED
  BY <1>4, <1>5

==============================================================================
