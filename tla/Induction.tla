------------------------------ MODULE Induction ------------------------------
(***************************************************************************)
(* Induction over numbers and recursive functions, from the fact that the  *)
(* natural numbers are well-founded: a property is a set of numbers, a     *)
(* step of a recursion a function.  Then what follows for flattened        *)
(* sequences and for sums.                                                 *)
(***************************************************************************)
EXTENDS Sums, SequencesExt, WellFoundedInduction, FiniteSetTheorems, TLAPS

\* A set of natural numbers has a least element.
LEMMA LeastNumber ==
    ASSUME NEW T \in SUBSET Nat, T # {}
    PROVE  \E x \in T : \A y \in T : x <= y
<1>1. IsWellFoundedOn(OpToRel(<, Nat), Nat)
  BY NatLessThanWellFounded
<1>2. PICK x \in T : \A y \in T : ~(<<y, x>> \in OpToRel(<, Nat))
  BY <1>1, WFMin
<1>3. \A y \in T : ~(y < x)
  BY <1>2 DEF OpToRel
<1>4. QED BY <1>3

\* A set of numbers that holds 0 and, with each number below n, the next one,
\* holds all up to n.
LEMMA UpTo ==
    ASSUME NEW n \in Nat, NEW T, 0 \in T, \A i \in 0..(n - 1) : i \in T => i + 1 \in T
    PROVE  \A i \in 0..n : i \in T
<1>1. SUFFICES ASSUME {i \in 0..n : i \notin T} # {} PROVE FALSE
  OBVIOUS
<1>2. PICK x \in {i \in 0..n : i \notin T} : \A y \in {i \in 0..n : i \notin T} : x <= y
  <2>1. {i \in 0..n : i \notin T} \in SUBSET Nat
    OBVIOUS
  <2>2. QED BY <1>1, <2>1, LeastNumber
<1>3. x \in Nat /\ x # 0 /\ x <= n /\ x \notin T
  BY <1>2
<1>4. x - 1 \in 0..(n - 1) /\ x - 1 \in T
  BY <1>2, <1>3
<1>5. QED BY <1>3, <1>4

\* A quotient is determined by its bounds.
LEMMA QuotientBounds ==
    ASSUME NEW a \in Nat, NEW b \in Nat \ {0}, NEW q \in Nat, q * b <= a, a < q * b + b
    PROVE  a \div b = q
<1>1. PICK d, r : d = a \div b /\ r = a % b
  OBVIOUS
<1>2. d \in Int /\ r \in 0..(b - 1) /\ a = b * d + r
  BY <1>1
<1>3. b * d = d * b
  BY <1>2
<1>4. (d - q) * b = d * b - q * b
  BY <1>2
<1>5. (d - q) * b < b /\ (d - q) * b > 0 - b
  BY <1>2, <1>3, <1>4
<1>6. d - q < 1 /\ d - q > -1
  <2>1. PICK e \in Int : e = d - q
    BY <1>2
  <2>2. e * b < b /\ e * b > 0 - b
    BY <1>5, <2>1
  <2>3. e >= 1 => e * b >= b
    BY SMT
  <2>4. e <= -1 => e * b <= 0 - b
    BY SMT
  <2>5. QED BY <2>1, <2>2, <2>3, <2>4
<1>7. QED BY <1>1, <1>2, <1>6

\* One function of S to S for each of the numbers 1..n.
Steps(g, n, S) == g \in [1..n -> [S -> S]]

\* A recursion over 1..n that stays in a set defines a function.
LEMMA Recursion ==
    ASSUME NEW n \in Nat, NEW S, NEW a \in S, NEW g, Steps(g, n, S)
    PROVE  \E f \in [0..n -> S] : f[0] = a /\ \A i \in 1..n : f[i] = g[i][f[i - 1]]
<1>. DEFINE Fits(f, m) == f[0] = a /\ \A i \in 1..m : f[i] = g[i][f[i - 1]]
            T == {m \in 0..n : \E f \in [0..m -> S] : Fits(f, m)}
<1>1. 0 \in T
  <2>1. PICK f : f = [i \in 0..0 |-> a]
    OBVIOUS
  <2>2. f \in [0..0 -> S] /\ Fits(f, 0) /\ 0 \in 0..n
    BY <2>1
  <2>3. QED BY <2>2
<1>2. ASSUME NEW m \in 0..(n - 1), m \in T PROVE m + 1 \in T
  <2>1. PICK f \in [0..m -> S] : Fits(f, m)
    BY <1>2
  <2>2. PICK y \in S : y = g[m + 1][f[m]]
    <3>1. m + 1 \in 1..n /\ f[m] \in S
      OBVIOUS
    <3>2. QED BY <3>1 DEF Steps
  <2>3. PICK h : h = [i \in 0..(m + 1) |-> IF i = m + 1 THEN y ELSE f[i]]
    OBVIOUS
  <2>4. h \in [0..(m + 1) -> S]
    BY <2>3
  <2>5. \A i \in 0..m : h[i] = f[i]
    BY <2>3
  <2>6. h[m + 1] = y
    BY <2>3
  <2>7. h[0] = a
    BY <2>1, <2>5
  <2>8. ASSUME NEW i \in 1..(m + 1) PROVE h[i] = g[i][h[i - 1]]
    <3>1. CASE i = m + 1
      BY <2>2, <2>5, <2>6, <3>1
    <3>2. CASE i # m + 1
      <4>1. i \in 1..m /\ i - 1 \in 0..m
        BY <3>2
      <4>2. QED BY <2>1, <2>5, <4>1
    <3>3. QED BY <3>1, <3>2
  <2>9. Fits(h, m + 1)
    BY <2>7, <2>8
  <2>10. m + 1 \in 0..n
    OBVIOUS
  <2>11. QED BY <2>4, <2>9, <2>10
<1>3. n \in T
  <2>. HIDE DEF T
  <2>1. \A i \in 0..(n - 1) : i \in T => i + 1 \in T
    BY <1>2
  <2>2. \A i \in 0..n : i \in T
    BY <1>1, <2>1, UpTo
  <2>3. QED BY <2>2
<1>4. QED BY <1>3

\* The sequences joined one after the other: u has what is joined so far.
JoinedUp(u, seqs) ==
    /\ u[1] = seqs[1]
    /\ \A i \in 1..Len(seqs) : i # 1 => u[i] = u[i - 1] \o seqs[i]

\* A sequence of sequences is flattened by joining them.
LEMMA FlattenSteps ==
    ASSUME NEW S, NEW seqs \in Seq(Seq(S)), Len(seqs) # 0
    PROVE  \E u : JoinedUp(u, seqs) /\ FlattenSeq(seqs) = u[Len(seqs)]
<1>1. PICK n \in Nat : n = Len(seqs) - 1 /\ Len(seqs) = n + 1
  OBVIOUS
<1>2. \A i \in 1..(n + 1) : seqs[i] \in Seq(S)
  BY <1>1
<1>3. PICK Q : Q = Seq(S)
  OBVIOUS
<1>4. PICK g : g = [i \in 1..n |-> [x \in Q |-> x \o seqs[i + 1]]]
  OBVIOUS
<1>5. g \in [1..n -> [Q -> Q]] /\ seqs[1] \in Q
  <2>1. \A i \in 1..n : \A x \in Q : x \o seqs[i + 1] \in Q
    BY <1>2, <1>3
  <2>2. QED BY <1>1, <1>2, <1>3, <1>4, <2>1
<1>6. PICK f \in [0..n -> Q] :
            f[0] = seqs[1] /\ \A i \in 1..n : f[i] = g[i][f[i - 1]]
  <2>1. Steps(g, n, Q)
    BY <1>5 DEF Steps
  <2>2. PICK a : a = seqs[1]
    OBVIOUS
  <2>3. n \in Nat /\ a \in Q
    BY <1>1, <1>5, <2>2
  <2>4. \E f \in [0..n -> Q] : f[0] = a /\ \A i \in 1..n : f[i] = g[i][f[i - 1]]
    BY ONLY <2>1, <2>3, Recursion
  <2>5. QED BY <2>2, <2>4
<1>7. \A i \in 1..n : f[i] = f[i - 1] \o seqs[i + 1]
  <2>1. ASSUME NEW i \in 1..n PROVE f[i] = f[i - 1] \o seqs[i + 1]
    <3>1. i - 1 \in 0..n
      BY <1>1
    <3>2. f[i - 1] \in Q
      BY <1>6, <3>1
    <3>3. QED BY <1>4, <1>6, <3>2
  <2>2. QED BY <2>1
<1>8. PICK h : h = [i \in 1..Len(seqs) |-> f[i - 1]]
  OBVIOUS
<1>9. h = [i \in 1..Len(seqs) |-> IF i = 1 THEN seqs[i] ELSE h[i - 1] \o seqs[i]]
  <2>1. ASSUME NEW i \in 1..Len(seqs)
        PROVE  f[i - 1] = IF i = 1 THEN seqs[i] ELSE h[i - 1] \o seqs[i]
    <3>1. CASE i = 1
      BY <1>6, <3>1
    <3>2. CASE i # 1
      <4>1. i - 1 \in 1..n /\ i - 1 \in 1..Len(seqs)
        BY <1>1, <3>2
      <4>2. h[i - 1] = f[(i - 1) - 1]
        BY <1>8, <4>1
      <4>3. f[i - 1] = f[(i - 1) - 1] \o seqs[(i - 1) + 1]
        BY <1>7, <4>1
      <4>4. (i - 1) + 1 = i
        OBVIOUS
      <4>5. QED BY <3>2, <4>2, <4>3, <4>4
    <3>3. QED BY <3>1, <3>2
  <2>2. QED BY <1>8, <2>1
<1>10. PICK u : /\ u = [i \in 1..Len(seqs) |-> IF i = 1 THEN seqs[i] ELSE u[i - 1] \o seqs[i]]
                /\ FlattenSeq(seqs) = u[Len(seqs)]
  BY <1>9 DEF FlattenSeq
<1>11. 1 \in 1..Len(seqs)
  BY <1>1
<1>12. JoinedUp(u, seqs)
  BY <1>10, <1>11 DEF JoinedUp
<1>13. QED BY <1>10, <1>12

\* A flattened sequence has the elements of its sequences and no others.
LEMMA Flattened ==
    ASSUME NEW S, NEW seqs \in Seq(Seq(S))
    PROVE  /\ FlattenSeq(seqs) \in Seq(S)
           /\ \A k \in 1..Len(seqs) : \A j \in 1..Len(seqs[k]) :
                 \E m \in 1..Len(FlattenSeq(seqs)) : FlattenSeq(seqs)[m] = seqs[k][j]
<1>1. CASE Len(seqs) = 0
  <2>1. seqs = <<>> /\ FlattenSeq(seqs) = seqs
    BY <1>1 DEF FlattenSeq
  <2>2. <<>> \in Seq(S) /\ 1..Len(seqs) = {}
    BY <1>1
  <2>3. QED BY <2>1, <2>2
<1>2. CASE Len(seqs) # 0
  <2>1. PICK n \in Nat : n = Len(seqs) - 1 /\ Len(seqs) = n + 1
    BY <1>2
  <2>2. \A i \in 1..(n + 1) : seqs[i] \in Seq(S)
    BY <2>1
  <2>10. PICK u : /\ u[1] = seqs[1]
                  /\ \A i \in 1..Len(seqs) : i # 1 => u[i] = u[i - 1] \o seqs[i]
                  /\ FlattenSeq(seqs) = u[Len(seqs)]
    BY <1>2, FlattenSteps DEF JoinedUp
  <2>. DEFINE Covers(i) == \A k \in 1..(i + 1) : \A j \in 1..Len(seqs[k]) :
                              \E m \in 1..Len(u[i + 1]) : u[i + 1][m] = seqs[k][j]
              T == {i \in 0..n : u[i + 1] \in Seq(S) /\ Covers(i)}
  <2>11. 0 \in T
    <3>1. u[1] = seqs[1]
      BY <2>1, <2>10
    <3>2. 0 + 1 = 1 /\ 0 \in 0..n
      OBVIOUS
    <3>3. Covers(0)
      BY <3>1, <3>2
    <3>4. u[0 + 1] \in Seq(S)
      BY <2>1, <2>2, <3>1
    <3>5. QED BY <3>2, <3>3, <3>4
  <2>12. ASSUME NEW i \in 0..(n - 1), i \in T PROVE i + 1 \in T
    <3>1. (i + 1) + 1 \in 1..Len(seqs) /\ (i + 1) + 1 # 1 /\ ((i + 1) + 1) - 1 = i + 1
      BY <2>1
    <3>2. PICK a, b : a = u[i + 1] /\ b = seqs[(i + 1) + 1]
      OBVIOUS
    <3>3. u[(i + 1) + 1] = a \o b
      BY <2>10, <3>1, <3>2
    <3>4. a \in Seq(S) /\ b \in Seq(S)
      BY <2>1, <2>2, <2>12, <3>1, <3>2
    <3>5. /\ a \o b \in Seq(S) /\ Len(a \o b) = Len(a) + Len(b)
          /\ \A m \in 1..Len(a) : (a \o b)[m] = a[m]
          /\ \A m \in 1..Len(b) : (a \o b)[Len(a) + m] = b[m]
          /\ Len(a) \in Nat /\ Len(b) \in Nat
      BY <3>4
    <3>6. ASSUME NEW k \in 1..((i + 1) + 1), NEW j \in 1..Len(seqs[k])
          PROVE  \E m \in 1..Len(a \o b) : (a \o b)[m] = seqs[k][j]
      <4>1. CASE k = (i + 1) + 1
        <5>1. j \in 1..Len(b) /\ seqs[k][j] = b[j]
          BY <3>2, <4>1
        <5>2. Len(a) + j \in 1..Len(a \o b) /\ (a \o b)[Len(a) + j] = b[j]
          BY <3>5, <5>1
        <5>3. QED BY <5>1, <5>2
      <4>2. CASE k # (i + 1) + 1
        <5>1. k \in 1..(i + 1)
          BY <4>2
        <5>2. PICK m \in 1..Len(a) : a[m] = seqs[k][j]
          BY <2>12, <3>2, <5>1
        <5>3. m \in 1..Len(a \o b) /\ (a \o b)[m] = a[m]
          BY <3>5, <5>2
        <5>4. QED BY <5>2, <5>3
      <4>3. QED BY <4>1, <4>2
    <3>7. Covers(i + 1)
      <4>1. SUFFICES ASSUME NEW k \in 1..((i + 1) + 1), NEW j \in 1..Len(seqs[k])
                     PROVE  \E m \in 1..Len(u[(i + 1) + 1]) : u[(i + 1) + 1][m] = seqs[k][j]
        OBVIOUS
      <4>2. \E m \in 1..Len(a \o b) : (a \o b)[m] = seqs[k][j]
        BY <3>6
      <4>3. QED BY <3>3, <4>2
    <3>8. i + 1 \in 0..n /\ u[(i + 1) + 1] \in Seq(S)
      BY <2>1, <3>3, <3>5
    <3>9. QED BY <3>7, <3>8
  <2>13. n \in T
    <3>. HIDE DEF T
    <3>1. \A i \in 0..(n - 1) : i \in T => i + 1 \in T
      BY <2>12
    <3>2. \A i \in 0..n : i \in T
      BY <2>11, <3>1, UpTo
    <3>3. QED BY <3>2
  <2>14. u[n + 1] \in Seq(S) /\ Covers(n)
    BY <2>13
  <2>15. PICK x : x = u[n + 1]
    OBVIOUS
  <2>16. x \in Seq(S) /\ \A k \in 1..(n + 1) : \A j \in 1..Len(seqs[k]) :
                            \E m \in 1..Len(x) : x[m] = seqs[k][j]
    BY <2>14, <2>15
  <2>17. FlattenSeq(seqs) = x /\ Len(seqs) = n + 1
    BY <2>1, <2>10, <2>15
  <2>18. QED BY <2>16, <2>17
<1>3. QED BY <1>1, <1>2

\* The pairs of a sequence's elements, the earlier one first, are all in D.
InOrder(s, D) == \A m, k \in DOMAIN s : m < k => <<s[m], s[k]>> \in D

\* The pairs of the elements of a flattened sequence are pairs of elements of its
\* sequences: of the same, or of an earlier and a later one.
LEMMA FlattenedPairs ==
    ASSUME NEW S, NEW seqs \in Seq(Seq(S)), NEW D,
           \A i \in 1..Len(seqs) : InOrder(seqs[i], D),
           \A i, k \in 1..Len(seqs) : i < k =>
               \A j \in DOMAIN seqs[i], l \in DOMAIN seqs[k] : <<seqs[i][j], seqs[k][l]>> \in D
    PROVE  InOrder(FlattenSeq(seqs), D)
<1>1. CASE Len(seqs) = 0
  <2>1. seqs = <<>> /\ FlattenSeq(seqs) = seqs
    BY <1>1 DEF FlattenSeq
  <2>2. DOMAIN seqs = {}
    BY <1>1
  <2>3. QED BY <2>1, <2>2 DEF InOrder
<1>2. CASE Len(seqs) # 0
  <2>1. PICK n \in Nat : n = Len(seqs) - 1 /\ Len(seqs) = n + 1
    BY ONLY seqs \in Seq(Seq(S)), <1>2
  <2>2. \A i \in 1..(n + 1) : seqs[i] \in Seq(S)
    BY <2>1
  <2>3. PICK u : /\ u[1] = seqs[1]
                 /\ \A i \in 1..Len(seqs) : i # 1 => u[i] = u[i - 1] \o seqs[i]
                 /\ FlattenSeq(seqs) = u[Len(seqs)]
    BY <1>2, FlattenSteps DEF JoinedUp
  <2>. DEFINE From(i) == \A m \in DOMAIN u[i + 1] : \E k \in 1..(i + 1) : \E j \in DOMAIN seqs[k] :
                            u[i + 1][m] = seqs[k][j]
              T == {i \in 0..n : u[i + 1] \in Seq(S) /\ From(i) /\ InOrder(u[i + 1], D)}
  <2>4. 0 \in T
    <3>1. u[1] = seqs[1] /\ 1 \in 1..Len(seqs)
      BY <2>1, <2>3
    <3>2. 0 + 1 = 1 /\ 0 \in 0..n /\ 1 \in 1..1
      OBVIOUS
    <3>3. From(0)
      BY <3>1, <3>2
    <3>4. u[0 + 1] \in Seq(S) /\ InOrder(u[0 + 1], D)
      BY <2>1, <2>2, <3>1
    <3>5. QED BY <3>2, <3>3, <3>4
  <2>5. ASSUME NEW i \in 0..(n - 1), i \in T PROVE i + 1 \in T
    <3>1. (i + 1) + 1 \in 1..Len(seqs) /\ (i + 1) + 1 # 1 /\ ((i + 1) + 1) - 1 = i + 1
      BY <2>1
    <3>2. PICK a, b, c : a = u[i + 1] /\ b = seqs[(i + 1) + 1] /\ c = a \o b
      OBVIOUS
    <3>3. u[(i + 1) + 1] = c
      BY <2>3, <3>1, <3>2
    <3>4. a \in Seq(S) /\ b \in Seq(S) /\ InOrder(a, D) /\ InOrder(b, D)
      BY <2>1, <2>2, <2>5, <3>1, <3>2
    <3>5. PICK p, q : p \in Nat /\ q \in Nat /\ p = Len(a) /\ q = Len(b)
      <4>1. a \in Seq(S) /\ b \in Seq(S)
        BY <3>4
      <4>2. Len(a) \in Nat /\ Len(b) \in Nat
        BY ONLY <4>1
      <4>3. QED BY <4>2
    <3>6. /\ c \in Seq(S) /\ DOMAIN c = 1..(p + q) /\ DOMAIN a = 1..p /\ DOMAIN b = 1..q
          /\ \A m \in 1..p : c[m] = a[m]
          /\ \A m \in 1..q : c[p + m] = b[m]
      <4>1. a \in Seq(S) /\ b \in Seq(S) /\ c = a \o b
        BY <3>2, <3>4
      <4>2. QED BY ONLY <3>5, <4>1
    <3>7. ASSUME NEW m \in 1..(p + q), m \notin 1..p
          PROVE  m - p \in 1..q /\ c[m] = b[m - p]
      <4>1. m - p \in 1..q /\ p + (m - p) = m
        BY <3>5, <3>7
      <4>2. QED BY <3>6, <4>1
    <3>8. \A m \in 1..p : \E k \in 1..(i + 1) : \E j \in DOMAIN seqs[k] : a[m] = seqs[k][j]
      BY <2>5, <3>2, <3>6
    <3>9. From(i + 1)
      <4>1. ASSUME NEW m \in 1..(p + q)
            PROVE  \E k \in 1..((i + 1) + 1) : \E j \in DOMAIN seqs[k] : c[m] = seqs[k][j]
        <5>1. CASE m \in 1..p
          <6>1. PICK k \in 1..(i + 1) : \E j \in DOMAIN seqs[k] : a[m] = seqs[k][j]
            BY <3>8, <5>1
          <6>2. k \in 1..((i + 1) + 1) /\ c[m] = a[m]
            BY <3>6, <5>1
          <6>3. QED BY <6>1, <6>2
        <5>2. CASE m \notin 1..p
          <6>1. (i + 1) + 1 \in 1..((i + 1) + 1)
            BY <3>1
          <6>2. QED BY <3>2, <3>6, <3>7, <5>2, <6>1
        <5>3. QED BY <5>1, <5>2
      <4>2. QED BY <3>3, <3>6, <4>1
    <3>10. InOrder(c, D)
      <4>1. ASSUME NEW m \in 1..(p + q), NEW k \in 1..(p + q), m < k
            PROVE  <<c[m], c[k]>> \in D
        <5>1. CASE k \in 1..p
          <6>1. m \in 1..p
            BY <3>5, <4>1, <5>1
          <6>2. c[m] = a[m] /\ c[k] = a[k] /\ <<a[m], a[k]>> \in D
            BY <3>4, <3>6, <4>1, <5>1, <6>1 DEF InOrder
          <6>3. QED BY <6>2
        <5>2. CASE m \in 1..p /\ k \notin 1..p
          <6>1. PICK x \in 1..(i + 1) : \E j \in DOMAIN seqs[x] : a[m] = seqs[x][j]
            BY <3>8, <5>2
          <6>2. PICK j \in DOMAIN seqs[x] : a[m] = seqs[x][j]
            BY <6>1
          <6>3. k - p \in DOMAIN b /\ c[k] = b[k - p] /\ c[m] = a[m]
            BY <3>6, <3>7, <5>2
          <6>4. x \in 1..Len(seqs) /\ x < (i + 1) + 1
            BY <3>1, <6>1
          <6>5. \A l \in DOMAIN b : <<seqs[x][j], b[l]>> \in D
            BY <3>1, <3>2, <6>2, <6>4
          <6>6. QED BY <6>2, <6>3, <6>5
        <5>3. CASE m \notin 1..p /\ k \notin 1..p
          <6>1. /\ m - p \in 1..q /\ c[m] = b[m - p] /\ k - p \in 1..q /\ c[k] = b[k - p]
            BY <3>7, <5>3
          <6>2. m - p < k - p
            BY <3>5, <4>1
          <6>3. <<b[m - p], b[k - p]>> \in D
            BY <3>4, <3>6, <6>1, <6>2 DEF InOrder
          <6>4. QED BY <6>1, <6>3
        <5>4. QED BY <5>1, <5>2, <5>3
      <4>2. QED BY <3>6, <4>1 DEF InOrder
    <3>11. i + 1 \in 0..n
      OBVIOUS
    <3>12. QED BY <3>3, <3>6, <3>9, <3>10, <3>11
  <2>6. n \in T
    <3>. HIDE DEF T
    <3>1. \A i \in 0..(n - 1) : i \in T => i + 1 \in T
      BY <2>5
    <3>2. \A i \in 0..n : i \in T
      BY <2>4, <3>1, UpTo
    <3>3. QED BY <3>2
  <2>7. InOrder(u[n + 1], D)
    BY <2>6
  <2>8. QED BY <2>1, <2>3, <2>7
<1>3. QED BY <1>1, <1>2

IsSeq(s) == s \in Seq(ToSet(s))

IsSeqOfSeqs(seqs) == IsSeq(seqs) /\ \A i \in DOMAIN seqs : IsSeq(seqs[i])

\* What is in f is what is in the sequences.
SameElements(f, seqs) ==
    /\ \A m \in DOMAIN f : \E i \in DOMAIN seqs : \E j \in DOMAIN seqs[i] : f[m] = seqs[i][j]
    /\ \A i \in DOMAIN seqs : \A j \in DOMAIN seqs[i] : \E m \in DOMAIN f : f[m] = seqs[i][j]

\* Sequences of anything are sequences of elements of a set.
LEMMA SeqOfSeqs ==
    ASSUME NEW seqs, IsSeqOfSeqs(seqs)
    PROVE  \E S : /\ S = UNION {ToSet(seqs[i]) : i \in DOMAIN seqs}
                  /\ seqs \in Seq(Seq(S)) /\ DOMAIN seqs = 1..Len(seqs) /\ Len(seqs) \in Nat
                  /\ \A i \in 1..Len(seqs) : DOMAIN seqs[i] = 1..Len(seqs[i])
<1>0. IsSeq(seqs) /\ \A i \in DOMAIN seqs : IsSeq(seqs[i])
  BY DEF IsSeqOfSeqs
<1>1. PICK S : S = UNION {ToSet(seqs[i]) : i \in DOMAIN seqs}
  OBVIOUS
<1>2. /\ DOMAIN seqs = 1..Len(seqs) /\ Len(seqs) \in Nat
      /\ seqs = [i \in 1..Len(seqs) |-> seqs[i]]
  BY <1>0 DEF IsSeq
<1>3. ASSUME NEW i \in 1..Len(seqs)
      PROVE  /\ DOMAIN seqs[i] = 1..Len(seqs[i]) /\ seqs[i] \in Seq(S)
  <2>1. seqs[i] \in Seq(ToSet(seqs[i])) /\ ToSet(seqs[i]) \subseteq S
    BY <1>0, <1>1, <1>2 DEF IsSeq
  <2>2. PICK Q, s : s = seqs[i] /\ Q = ToSet(seqs[i]) /\ s \in Seq(Q) /\ Q \subseteq S
    BY <2>1
  <2>3. s \in Seq(S) /\ DOMAIN s = 1..Len(s)
    BY <2>2
  <2>4. QED BY <2>2, <2>3
<1>4. seqs \in Seq(Seq(S))
  <2>1. PICK Q : Q = Seq(S)
    OBVIOUS
  <2>2. \A i \in 1..Len(seqs) : seqs[i] \in Q
    BY <1>3, <2>1
  <2>3. seqs \in Seq(Q)
    BY <1>2, <2>2
  <2>4. QED BY <2>1, <2>3
<1>5. QED BY <1>1, <1>2, <1>3, <1>4

\* The same for sequences of anything.
LEMMA FlattenedElements ==
    ASSUME NEW seqs, IsSeqOfSeqs(seqs)
    PROVE  IsSeq(FlattenSeq(seqs)) /\ SameElements(FlattenSeq(seqs), seqs)
<1>1. PICK S : /\ S = UNION {ToSet(seqs[i]) : i \in DOMAIN seqs}
               /\ seqs \in Seq(Seq(S)) /\ DOMAIN seqs = 1..Len(seqs) /\ Len(seqs) \in Nat
               /\ \A i \in 1..Len(seqs) : DOMAIN seqs[i] = 1..Len(seqs[i])
  BY SeqOfSeqs
<1>2. DOMAIN seqs = 1..Len(seqs) /\ Len(seqs) \in Nat
  BY <1>1
<1>3. \A i \in 1..Len(seqs) : DOMAIN seqs[i] = 1..Len(seqs[i])
  BY <1>1
<1>4. seqs \in Seq(Seq(S))
  BY <1>1
<1>5. PICK f : f = FlattenSeq(seqs)
  OBVIOUS
<1>6. /\ f \in Seq(S)
      /\ \A k \in 1..Len(seqs) : \A j \in 1..Len(seqs[k]) :
            \E m \in 1..Len(f) : f[m] = seqs[k][j]
  BY <1>4, <1>5, Flattened
<1>7. DOMAIN f = 1..Len(f) /\ Len(f) \in Nat /\ \A m \in 1..Len(f) : f[m] \in S
  BY <1>6
<1>8. IsSeq(f)
  <2>1. PICK Q : Q = ToSet(f)
    OBVIOUS
  <2>2. \A m \in 1..Len(f) : f[m] \in Q
    BY <1>7, <2>1 DEF ToSet
  <2>3. f \in Seq(Q)
    BY <1>6, <1>7, <2>2
  <2>4. QED BY <2>1, <2>3 DEF IsSeq
<1>9. ASSUME NEW m \in DOMAIN f
      PROVE  \E i \in DOMAIN seqs : \E j \in DOMAIN seqs[i] : f[m] = seqs[i][j]
  BY <1>1, <1>7 DEF ToSet
<1>10. ASSUME NEW i \in DOMAIN seqs, NEW j \in DOMAIN seqs[i]
       PROVE  \E m \in DOMAIN f : f[m] = seqs[i][j]
  BY <1>2, <1>3, <1>6, <1>7
<1>11. SameElements(f, seqs)
  BY <1>9, <1>10 DEF SameElements
<1>12. QED BY <1>5, <1>8, <1>11

\* A sequence built over the places of another.
LEMMA MappedSeq ==
    ASSUME NEW s, IsSeq(s), NEW f, DOMAIN f = DOMAIN s, f = [i \in DOMAIN s |-> f[i]]
    PROVE  IsSeq(f)
<1>1. DOMAIN s = 1..Len(s) /\ Len(s) \in Nat
  BY DEF IsSeq
<1>2. PICK Q : Q = ToSet(f)
  OBVIOUS
<1>3. \A i \in 1..Len(s) : f[i] \in Q
  BY <1>1, <1>2 DEF ToSet
<1>4. f \in Seq(Q)
  BY <1>1, <1>3
<1>5. QED BY <1>2, <1>4 DEF IsSeq

\* A sequence of one element, and of none.
LEMMA ShortSeqs ==
    /\ IsSeq(<<>>) /\ DOMAIN <<>> = {}
    /\ \A x : IsSeq(<<x>>) /\ DOMAIN <<x>> = {1} /\ <<x>>[1] = x
<1>1. IsSeq(<<>>) /\ DOMAIN <<>> = {}
  BY DEF IsSeq, ToSet
<1>2. ASSUME NEW x PROVE IsSeq(<<x>>) /\ DOMAIN <<x>> = {1} /\ <<x>>[1] = x
  <2>1. DOMAIN <<x>> = {1} /\ <<x>>[1] = x
    OBVIOUS
  <2>2. x \in ToSet(<<x>>)
    BY <2>1 DEF ToSet
  <2>3. <<x>> \in Seq(ToSet(<<x>>))
    BY <2>2
  <2>4. QED BY <2>1, <2>3 DEF IsSeq
<1>3. QED BY <1>1, <1>2

-----------------------------------------------------------------------------
(* Sums.                                                                     *)

\* The sums of the first numbers of c.
Partial(u, c) ==
    /\ c \in Seq(Nat)
    /\ u \in [0..Len(c) -> Nat]
    /\ u[0] = 0 /\ \A i \in 1..Len(c) : u[i] = u[i - 1] + c[i]

\* A sum of natural numbers is the last of its partial sums.
LEMMA SumSteps ==
    ASSUME NEW c \in Seq(Nat)
    PROVE  \E u : Partial(u, c) /\ SumOf(c) = u[Len(c)]
<1>1. PICK n \in Nat : n = Len(c)
  OBVIOUS
<1>2. \A i \in 1..n : c[i] \in Nat
  BY <1>1
<1>3. PICK g : g = [i \in 1..n |-> [x \in Nat |-> x + c[i]]]
  OBVIOUS
<1>4. g \in [1..n -> [Nat -> Nat]]
  <2>1. \A i \in 1..n : [x \in Nat |-> x + c[i]] \in [Nat -> Nat]
    BY <1>2
  <2>2. QED BY <1>3, <2>1
<1>5. PICK f \in [0..n -> Nat] : f[0] = 0 /\ \A i \in 1..n : f[i] = g[i][f[i - 1]]
  <2>1. PICK N, z : N = Nat /\ z = 0
    OBVIOUS
  <2>2. Steps(g, n, N) /\ z \in N
    BY <1>4, <2>1 DEF Steps
  <2>3. \E f \in [0..n -> N] : f[0] = z /\ \A i \in 1..n : f[i] = g[i][f[i - 1]]
    BY <1>1, <2>2, Recursion
  <2>4. QED BY <2>1, <2>3
<1>6. \A i \in 1..n : f[i] = f[i - 1] + c[i]
  <2>1. ASSUME NEW i \in 1..n PROVE f[i] = f[i - 1] + c[i]
    <3>1. i - 1 \in 0..n
      BY <1>1
    <3>2. f[i - 1] \in Nat
      BY <1>5, <3>1
    <3>3. QED BY <1>3, <1>5, <3>2
  <2>2. QED BY <2>1
<1>7. f = [i \in 0..n |-> IF i = 0 THEN 0 ELSE f[i - 1] + c[i]]
  <2>1. \A i \in 0..n : f[i] = IF i = 0 THEN 0 ELSE f[i - 1] + c[i]
    BY <1>5, <1>6
  <2>2. QED BY <1>5, <2>1
<1>8. PICK u : /\ u = [i \in 0..n |-> IF i = 0 THEN 0 ELSE u[i - 1] + c[i]]
               /\ SumOf(c) = u[n]
  BY <1>1, <1>7 DEF SumOf
<1>9. \A i \in 0..n : u[i] = f[i]
  <2>. DEFINE T == {i \in 0..n : u[i] = f[i]}
  <2>1. 0 \in T
    BY <1>1, <1>5, <1>8
  <2>2. ASSUME NEW i \in 0..(n - 1), i \in T PROVE i + 1 \in T
    <3>1. i + 1 \in 1..n /\ i + 1 \in 0..n /\ (i + 1) - 1 = i /\ i + 1 # 0
      BY <1>1
    <3>2. u[i + 1] = u[i] + c[i + 1] /\ f[i + 1] = f[i] + c[i + 1]
      BY <1>6, <1>8, <3>1
    <3>3. QED BY <2>2, <3>1, <3>2
  <2>3. \A i \in 0..n : i \in T
    <3>. HIDE DEF T
    <3>1. \A i \in 0..(n - 1) : i \in T => i + 1 \in T
      BY <2>2
    <3>2. QED BY <1>1, <2>1, <3>1, UpTo
  <2>4. QED BY <2>3
<1>10. SumOf(c) = f[n]
  BY <1>1, <1>8, <1>9
<1>11. Partial(f, c)
  BY <1>1, <1>5, <1>6 DEF Partial
<1>12. QED BY <1>1, <1>10, <1>11

\* A sum of natural numbers is one.
LEMMA SumType ==
    ASSUME NEW c \in Seq(Nat)
    PROVE  SumOf(c) \in Nat
<1>1. PICK u : Partial(u, c) /\ SumOf(c) = u[Len(c)]
  BY SumSteps
<1>2. Len(c) \in 0..Len(c)
  OBVIOUS
<1>3. QED BY <1>1, <1>2 DEF Partial

\* The n numbers of c after its first a are those of d after its first b.
Agree(c, a, d, b, n) ==
    /\ a + n <= Len(c) /\ b + n <= Len(d)
    /\ \A i \in 1..n : c[a + i] = d[b + i]

\* Where two sequences agree, their partial sums grow alike.
LEMMA SumsAlike ==
    ASSUME NEW c, NEW d, NEW u, NEW v, Partial(u, c), Partial(v, d),
           NEW a \in Nat, NEW b \in Nat, NEW n \in Nat, Agree(c, a, d, b, n)
    PROVE  u[a + n] - u[a] = v[b + n] - v[b]
<1>0. /\ u \in [0..Len(c) -> Nat] /\ \A i \in 1..Len(c) : u[i] = u[i - 1] + c[i]
      /\ v \in [0..Len(d) -> Nat] /\ \A i \in 1..Len(d) : v[i] = v[i - 1] + d[i]
      /\ Len(c) \in Nat /\ Len(d) \in Nat /\ c \in Seq(Nat) /\ d \in Seq(Nat)
      /\ a + n <= Len(c) /\ b + n <= Len(d)
      /\ \A i \in 1..n : c[a + i] = d[b + i]
  BY DEF Partial, Agree
<1>. DEFINE T == {i \in 0..n : u[a + i] - u[a] = v[b + i] - v[b]}
<1>1. 0 \in T
  <2>1. a + 0 = a /\ b + 0 = b /\ a \in 0..Len(c) /\ b \in 0..Len(d)
    BY <1>0
  <2>2. u[a] \in Nat /\ v[b] \in Nat
    BY <1>0, <2>1
  <2>3. QED BY <2>1, <2>2
<1>2. ASSUME NEW i \in 0..(n - 1), i \in T PROVE i + 1 \in T
  <2>1. /\ a + (i + 1) \in 1..Len(c) /\ (a + (i + 1)) - 1 = a + i
        /\ b + (i + 1) \in 1..Len(d) /\ (b + (i + 1)) - 1 = b + i
        /\ i + 1 \in 1..n /\ i + 1 \in 0..n
        /\ a + i \in 0..Len(c) /\ b + i \in 0..Len(d) /\ a \in 0..Len(c) /\ b \in 0..Len(d)
    BY <1>0
  <2>2. /\ u[a + (i + 1)] = u[a + i] + c[a + (i + 1)]
        /\ v[b + (i + 1)] = v[b + i] + d[b + (i + 1)]
        /\ c[a + (i + 1)] = d[b + (i + 1)]
    BY <1>0, <2>1
  <2>a. c[a + (i + 1)] \in Nat
    <3>1. c \in Seq(Nat)
      BY <1>0
    <3>2. QED BY ONLY <2>1, <3>1
  <2>3. u[a] \in Nat /\ u[a + i] \in Nat /\ v[b] \in Nat /\ v[b + i] \in Nat
    BY <1>0, <2>1
  <2>4. u[a + i] - u[a] = v[b + i] - v[b]
    BY <1>2
  <2>5. u[a + (i + 1)] - u[a] = v[b + (i + 1)] - v[b]
    <3>1. PICK p \in Nat, q \in Nat, r \in Nat, s \in Nat, x \in Nat :
             p = u[a + i] /\ q = u[a] /\ r = v[b + i] /\ s = v[b] /\ x = c[a + (i + 1)]
      BY <2>a, <2>3
    <3>2. p - q = r - s
      BY <2>4, <3>1
    <3>3. (p + x) - q = (r + x) - s
      BY <3>1, <3>2
    <3>4. QED BY <2>2, <3>1, <3>3
  <2>6. QED BY <2>1, <2>5
<1>3. \A i \in 0..n : i \in T
  <2>. HIDE DEF T
  <2>1. \A i \in 0..(n - 1) : i \in T => i + 1 \in T
    BY <1>2
  <2>2. QED BY <1>1, <2>1, UpTo
<1>4. QED BY <1>3

\* The sum of two sequences, one after the other.
LEMMA SumConcat ==
    ASSUME NEW c \in Seq(Nat), NEW d \in Seq(Nat)
    PROVE  SumOf(c \o d) = SumOf(c) + SumOf(d)
<1>1. PICK e : e = c \o d
  OBVIOUS
<1>2. PICK m \in Nat, n \in Nat : m = Len(c) /\ n = Len(d)
  OBVIOUS
<1>3. /\ e \in Seq(Nat) /\ Len(e) = m + n
      /\ \A i \in 1..m : e[i] = c[i]
      /\ \A i \in 1..n : e[m + i] = d[i]
  BY <1>1, <1>2
<1>4. PICK u : Partial(u, c) /\ SumOf(c) = u[m]
  BY <1>2, SumSteps
<1>5. PICK v : Partial(v, d) /\ SumOf(d) = v[n]
  BY <1>2, SumSteps
<1>6. PICK w : Partial(w, e) /\ SumOf(e) = w[m + n]
  BY <1>3, SumSteps
<1>7. /\ w[0] = 0 /\ u[0] = 0 /\ v[0] = 0 /\ w[m] \in Nat /\ w[m + n] \in Nat
      /\ u[m] \in Nat /\ v[n] \in Nat
  <2>1. m \in 0..Len(e) /\ m + n \in 0..Len(e) /\ m \in 0..Len(c) /\ n \in 0..Len(d)
    BY <1>2, <1>3
  <2>2. QED BY <1>4, <1>5, <1>6, <2>1 DEF Partial
<1>z. PICK z \in Nat : z = 0
  OBVIOUS
<1>8. w[z + m] - w[z] = u[z + m] - u[z]
  <2>1. Agree(e, z, c, z, m)
    BY <1>2, <1>3, <1>z DEF Agree
  <2>2. QED BY <1>2, <1>4, <1>6, <1>z, <2>1, SumsAlike
<1>9. w[m + n] - w[m] = v[z + n] - v[z]
  <2>1. m + n <= Len(e) /\ z + n <= Len(d)
    BY <1>2, <1>3, <1>z
  <2>2. ASSUME NEW i \in 1..n PROVE e[m + i] = d[z + i]
    <3>1. z + i = i
      BY <1>z
    <3>2. QED BY <1>3, <3>1
  <2>3. Agree(e, m, d, z, n)
    BY ONLY <2>1, <2>2 DEF Agree
  <2>4. Partial(w, e) /\ Partial(v, d)
    BY <1>5, <1>6
  <2>5. QED BY ONLY m \in Nat, n \in Nat, z \in Nat, <2>3, <2>4, SumsAlike
<1>10. w[m] = u[m] /\ w[m + n] = w[m] + v[n]
  <2>1. w[m] - 0 = u[m] - 0 /\ w[m + n] - w[m] = v[n] - 0
    <3>1. z + m = m /\ z + n = n
      BY <1>2, <1>z
    <3>2. QED BY <1>7, <1>8, <1>9, <1>z, <3>1
  <2>2. QED BY <1>7, <2>1
<1>11. QED BY <1>1, <1>4, <1>5, <1>6, <1>10

\* One more summand.
LEMMA SumAppend ==
    ASSUME NEW c \in Seq(Nat), NEW x \in Nat
    PROVE  SumOf(Append(c, x)) = SumOf(c) + x
<1>1. <<x>> \in Seq(Nat) /\ Append(c, x) = c \o <<x>> /\ Len(<<x>>) = 1 /\ <<x>>[1] = x
  OBVIOUS
<1>2. PICK u : Partial(u, <<x>>) /\ SumOf(<<x>>) = u[1]
  BY <1>1, SumSteps
<1>3. u[1] = u[1 - 1] + x /\ u[0] = 0
  BY <1>1, <1>2 DEF Partial
<1>4. SumOf(<<x>>) = x
  BY <1>2, <1>3
<1>5. QED BY <1>1, <1>4, SumConcat

\* Growing as much from a start that is x ahead leads to x more.
LEMMA EqualGrowth ==
    ASSUME NEW p \in Nat, NEW q \in Nat, NEW r \in Nat, NEW s \in Nat, NEW x \in Nat,
           p - q = r - s, q = s + x
    PROVE  p = r + x
OBVIOUS

\* d is c without the number at place k.
Without(c, d, k) ==
    /\ c \in Seq(Nat) /\ d \in Seq(Nat) /\ k \in 1..Len(c) /\ Len(c) = Len(d) + 1
    /\ \A i \in 1..(k - 1) : d[i] = c[i]
    /\ \A i \in k..Len(d) : d[i] = c[i + 1]

\* The sum without the number at place k.
LEMMA SumWithout ==
    ASSUME NEW c, NEW d, NEW k, Without(c, d, k)
    PROVE  SumOf(c) = SumOf(d) + c[k]
<1>0. /\ c \in Seq(Nat) /\ d \in Seq(Nat) /\ k \in 1..Len(c) /\ Len(c) = Len(d) + 1
      /\ \A i \in 1..(k - 1) : d[i] = c[i]
      /\ \A i \in k..Len(d) : d[i] = c[i + 1]
  BY DEF Without
<1>1. PICK n \in Nat : n = Len(d) /\ Len(c) = n + 1
  BY <1>0
<1>2. PICK u : Partial(u, c) /\ SumOf(c) = u[n + 1]
  BY <1>0, <1>1, SumSteps
<1>3. PICK v : Partial(v, d) /\ SumOf(d) = v[n]
  BY <1>0, <1>1, SumSteps
<1>4. PICK m \in Nat : m = k - 1
  BY <1>0
<1>5. /\ m \in 0..n /\ k = m + 1 /\ n - m \in Nat /\ k \in Nat
      /\ m + (n - m) = n /\ k + (n - m) = n + 1
  BY <1>0, <1>1, <1>4
<1>z. PICK z \in Nat : z = 0
  OBVIOUS
<1>y. PICK y \in Nat : y = n - m
  BY <1>5
<1>6. u[z + m] - u[z] = v[z + m] - v[z]
  <2>1. Agree(c, z, d, z, m)
    BY <1>0, <1>1, <1>4, <1>5, <1>z DEF Agree
  <2>2. QED BY <1>2, <1>3, <1>4, <1>z, <2>1, SumsAlike
<1>7. u[k + y] - u[k] = v[m + y] - v[m]
  <2>1. k + y <= Len(c) /\ m + y <= Len(d)
    BY <1>1, <1>5, <1>y
  <2>2. ASSUME NEW i \in 1..y PROVE c[k + i] = d[m + i]
    <3>1. m + i \in k..Len(d) /\ (m + i) + 1 = k + i
      BY <1>0, <1>1, <1>4, <1>5, <1>y
    <3>2. d[m + i] = c[(m + i) + 1]
      BY <1>0, <3>1
    <3>3. QED BY <3>1, <3>2
  <2>3. Agree(c, k, d, m, y)
    BY <2>1, <2>2 DEF Agree
  <2>4. QED BY <1>2, <1>3, <1>4, <1>5, <1>y, <2>3, SumsAlike
<1>8. /\ u[0] = 0 /\ v[0] = 0 /\ u[m] \in Nat /\ u[k] \in Nat /\ u[n + 1] \in Nat
      /\ v[m] \in Nat /\ v[n] \in Nat
  <2>1. /\ m \in 0..Len(c) /\ k \in 0..Len(c) /\ n + 1 \in 0..Len(c)
        /\ m \in 0..Len(d) /\ n \in 0..Len(d)
    BY <1>0, <1>1, <1>4, <1>5
  <2>2. QED BY <1>2, <1>3, <2>1 DEF Partial
<1>9. u[k] = u[m] + c[k] /\ c[k] \in Nat
  <2>1. u[k] = u[k - 1] + c[k]
    BY <1>0, <1>2 DEF Partial
  <2>2. QED BY <1>0, <1>4, <2>1
<1>10. u[m] = v[m] /\ u[n + 1] - u[k] = v[n] - v[m]
  <2>1. z + m = m /\ k + y = n + 1 /\ m + y = n
    BY <1>0, <1>1, <1>4, <1>5, <1>y, <1>z
  <2>2. u[m] - 0 = v[m] - 0
    BY <1>6, <1>8, <1>z, <2>1
  <2>3. u[n + 1] - u[k] = v[n] - v[m]
    BY ONLY <1>7, <2>1
  <2>4. u[m] = v[m]
    BY ONLY <1>8, <2>2
  <2>5. QED BY ONLY <2>3, <2>4
<1>11. u[n + 1] = v[n] + c[k]
  <2>1. PICK p \in Nat, q \in Nat, r \in Nat, s \in Nat, x \in Nat :
           p = u[n + 1] /\ q = u[k] /\ r = v[n] /\ s = v[m] /\ x = c[k]
    BY <1>8, <1>9
  <2>2. p - q = r - s /\ q = s + x
    BY <1>9, <1>10, <2>1
  <2>3. p = r + x
    <3>1. p \in Nat /\ q \in Nat /\ r \in Nat /\ s \in Nat /\ x \in Nat
      BY <2>1
    <3>2. QED BY ONLY <2>2, <3>1, EqualGrowth
  <2>4. QED BY <2>1, <2>3
<1>12. QED BY <1>2, <1>3, <1>11

\* The sum of positive numbers, if there are any, is one.
LEMMA SumPositive ==
    ASSUME NEW c \in Seq(Nat), Len(c) > 0, \A i \in 1..Len(c) : c[i] > 0
    PROVE  SumOf(c) \in Nat \ {0}
<1>1. PICK u : Partial(u, c) /\ SumOf(c) = u[Len(c)]
  BY SumSteps
<1>2. PICK n \in Nat : n = Len(c) /\ n > 0
  OBVIOUS
<1>3. n \in 1..Len(c) /\ n - 1 \in 0..Len(c)
  BY <1>2
<1>4. u[n] = u[n - 1] + c[n] /\ u[n - 1] \in Nat
  BY <1>1, <1>3 DEF Partial
<1>5. c[n] \in Nat /\ c[n] > 0
  BY <1>3
<1>6. u[n] \in Nat \ {0}
  BY <1>4, <1>5
<1>7. QED BY <1>1, <1>2, <1>6

\* The sum of no numbers.
LEMMA SumEmpty ==
    ASSUME NEW c \in Seq(Nat), Len(c) = 0
    PROVE  SumOf(c) = 0
<1>1. PICK u : Partial(u, c) /\ SumOf(c) = u[Len(c)]
  BY SumSteps
<1>2. QED BY <1>1 DEF Partial

\* p maps 1..n to itself, one to one.
Permutation(p, n) ==
    /\ p \in [1..n -> 1..n]
    /\ \A i, j \in 1..n : p[i] = p[j] => i = j
    /\ \A k \in 1..n : \E i \in 1..n : p[i] = k

\* d has the n numbers of c in another order.
Rearranged(c, d, p, n) ==
    /\ c \in Seq(Nat) /\ Len(c) = n
    /\ d \in Seq(Nat) /\ Len(d) = n
    /\ Permutation(p, n)
    /\ \A i \in 1..n : d[i] = c[p[i]]

SumsStay(n) == \A c, d, p : Rearranged(c, d, p, n) => SumOf(d) = SumOf(c)

\* The order of n + 1 numbers does not matter if that of n does not.
LEMMA OneMoreRearranged ==
    ASSUME NEW n \in Nat, SumsStay(n), NEW c, NEW d, NEW p, Rearranged(c, d, p, n + 1)
    PROVE  SumOf(d) = SumOf(c)
<1>1. /\ c \in Seq(Nat) /\ Len(c) = n + 1 /\ d \in Seq(Nat) /\ Len(d) = n + 1
      /\ p \in [1..(n + 1) -> 1..(n + 1)]
      /\ \A i, j \in 1..(n + 1) : p[i] = p[j] => i = j
      /\ \A j \in 1..(n + 1) : \E i \in 1..(n + 1) : p[i] = j
      /\ \A i \in 1..(n + 1) : d[i] = c[p[i]]
  BY DEF Rearranged, Permutation
<1>2. n + 1 \in 1..(n + 1)
  OBVIOUS
<1>3. PICK k \in 1..(n + 1) : p[k] = n + 1
  BY <1>1, <1>2
<1>4. PICK h : h = [i \in 1..n |-> IF i < k THEN i ELSE i + 1]
  OBVIOUS
<1>5. /\ \A i \in 1..n : h[i] \in 1..(n + 1) /\ h[i] # k
      /\ \A i, j \in 1..n : h[i] = h[j] => i = j
      /\ \A j \in 1..(n + 1) : j # k => \E i \in 1..n : h[i] = j
  <2>1. \A i \in 1..n : h[i] = IF i < k THEN i ELSE i + 1
    BY <1>4
  <2>2. k \in Int /\ 1 <= k /\ k <= n + 1
    BY <1>3
  <2>3. \A i \in 1..n : h[i] \in 1..(n + 1) /\ h[i] # k
    BY <2>1, <2>2
  <2>4. \A i, j \in 1..n : h[i] = h[j] => i = j
    BY <2>1, <2>2
  <2>5. ASSUME NEW j \in 1..(n + 1), j # k PROVE \E i \in 1..n : h[i] = j
    <3>1. CASE j < k
      <4>1. j \in 1..n /\ h[j] = j
        BY <2>1, <2>2, <3>1
      <4>2. QED BY <4>1
    <3>2. CASE j > k
      <4>1. j - 1 \in 1..n /\ ~(j - 1 < k)
        BY <2>2, <3>2
      <4>2. h[j - 1] = (j - 1) + 1
        BY <2>1, <4>1
      <4>3. h[j - 1] = j
        BY <4>2
      <4>4. QED BY <4>1, <4>3
    <3>3. QED BY <2>2, <2>5, <3>1, <3>2
  <2>6. QED BY <2>3, <2>4, <2>5
<1>6. PICK e, f, q : /\ e = [i \in 1..n |-> c[i]] /\ f = [i \in 1..n |-> d[h[i]]]
                     /\ q = [i \in 1..n |-> p[h[i]]]
  OBVIOUS
<1>7. /\ \A j \in 1..(n + 1) : c[j] \in Nat /\ d[j] \in Nat
      /\ \A i \in 1..n : i \in 1..(n + 1)
  <2>1. c \in Seq(Nat) /\ d \in Seq(Nat) /\ Len(c) = n + 1 /\ Len(d) = n + 1 /\ n \in Nat
    BY <1>1
  <2>2. \A j \in 1..(n + 1) : c[j] \in Nat
    BY ONLY <2>1
  <2>3. \A j \in 1..(n + 1) : d[j] \in Nat
    BY ONLY <2>1
  <2>4. \A i \in 1..n : i \in 1..(n + 1)
    OBVIOUS
  <2>5. QED BY <2>2, <2>3, <2>4
<1>8. e \in Seq(Nat) /\ Len(e) = n /\ f \in Seq(Nat) /\ Len(f) = n
  BY <1>5, <1>6, <1>7
<1>9. Permutation(q, n)
  <2>1. \A i \in 1..n : q[i] = p[h[i]] /\ h[i] \in 1..(n + 1)
    BY <1>5, <1>6
  <2>2. ASSUME NEW i \in 1..n PROVE q[i] \in 1..n
    <3>1. p[h[i]] \in 1..(n + 1)
      BY <1>1, <1>5
    <3>2. p[h[i]] # n + 1
      <4>1. PICK y : y = h[i]
        OBVIOUS
      <4>2. y \in 1..(n + 1) /\ y # k
        BY <1>5, <4>1
      <4>3. p[y] # p[k]
        BY <1>1, <1>3, <4>2
      <4>4. QED BY <1>3, <4>1, <4>3
    <3>3. QED BY <2>1, <3>1, <3>2
  <2>3. ASSUME NEW i \in 1..n, NEW j \in 1..n, q[i] = q[j] PROVE i = j
    <3>1. PICK x, y : x = h[i] /\ y = h[j]
      OBVIOUS
    <3>2. x \in 1..(n + 1) /\ y \in 1..(n + 1) /\ p[x] = p[y]
      BY <1>5, <2>1, <2>3, <3>1
    <3>3. x = y
      BY <1>1, <3>2
    <3>4. QED BY <1>5, <3>1, <3>3
  <2>4. ASSUME NEW j \in 1..n PROVE \E i \in 1..n : q[i] = j
    <3>1. PICK x \in 1..(n + 1) : p[x] = j
      BY <1>1, <1>7
    <3>2. x # k
      BY <1>3, <3>1
    <3>3. PICK i \in 1..n : h[i] = x
      BY <1>5, <3>1, <3>2
    <3>4. QED BY <2>1, <3>1, <3>3
  <2>5. q \in [1..n -> 1..n]
    BY <1>6, <2>1, <2>2
  <2>6. QED BY <2>3, <2>4, <2>5 DEF Permutation
<1>10. \A i \in 1..n : f[i] = e[q[i]]
  <2>1. ASSUME NEW i \in 1..n PROVE f[i] = e[q[i]]
    <3>1. q[i] \in 1..n /\ q[i] = p[h[i]] /\ h[i] \in 1..(n + 1)
      BY <1>5, <1>6, <1>9 DEF Permutation
    <3>2. f[i] = d[h[i]] /\ d[h[i]] = c[p[h[i]]]
      BY <1>1, <1>6, <3>1
    <3>3. e[q[i]] = c[q[i]]
      BY <1>6, <3>1
    <3>4. QED BY <3>1, <3>2, <3>3
  <2>2. QED BY <2>1
<1>11. SumOf(f) = SumOf(e)
  <2>1. Rearranged(e, f, q, n)
    BY <1>8, <1>9, <1>10 DEF Rearranged
  <2>2. QED BY <2>1 DEF SumsStay
<1>12. SumOf(c) = SumOf(e) + c[n + 1]
  <2>1. PICK m : m = n + 1
    OBVIOUS
  <2>2. /\ m \in 1..Len(c) /\ Len(c) = Len(e) + 1
        /\ \A i \in 1..(m - 1) : e[i] = c[i]
        /\ \A i \in m..Len(e) : e[i] = c[i + 1]
    BY <1>1, <1>6, <1>8, <2>1
  <2>3. Without(c, e, m)
    BY <1>1, <1>8, <2>2 DEF Without
  <2>4. QED BY <2>1, <2>3, SumWithout
<1>13. SumOf(d) = SumOf(f) + d[k]
  <2>1. \A i \in 1..(k - 1) : f[i] = d[i]
    BY <1>3, <1>4, <1>6
  <2>2. \A i \in k..Len(f) : f[i] = d[i + 1]
    BY <1>3, <1>4, <1>6, <1>8
  <2>3. k \in 1..Len(d) /\ Len(d) = Len(f) + 1
    BY <1>1, <1>3, <1>8
  <2>4. Without(d, f, k)
    BY <1>1, <1>8, <2>1, <2>2, <2>3 DEF Without
  <2>5. QED BY <2>4, SumWithout
<1>14. d[k] = c[n + 1]
  BY <1>1, <1>3
<1>15. QED BY <1>11, <1>12, <1>13, <1>14

\* The order of the numbers does not matter.
LEMMA SumRearranged ==
    ASSUME NEW n \in Nat
    PROVE  SumsStay(n)
<1>. DEFINE T == {m \in 0..n : SumsStay(m)}
<1>1. 0 \in T
  <2>1. ASSUME NEW c, NEW d, NEW p, Rearranged(c, d, p, 0) PROVE SumOf(d) = SumOf(c)
    BY <2>1, SumEmpty DEF Rearranged
  <2>2. QED BY <2>1 DEF SumsStay
<1>2. ASSUME NEW m \in 0..(n - 1), m \in T PROVE m + 1 \in T
  <2>1. m \in Nat /\ m + 1 \in 0..n /\ SumsStay(m)
    BY <1>2
  <2>2. SumsStay(m + 1)
    BY <2>1, OneMoreRearranged DEF SumsStay
  <2>3. QED BY <2>1, <2>2
<1>3. \A m \in 0..n : m \in T
  <2>. HIDE DEF T
  <2>1. \A m \in 0..(n - 1) : m \in T => m + 1 \in T
    BY <1>2
  <2>2. QED BY <1>1, <2>1, UpTo
<1>4. QED BY <1>3
=============================================================================
