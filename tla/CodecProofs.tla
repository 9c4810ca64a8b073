---------------------------- MODULE CodecProofs ----------------------------
(***************************************************************************)
(* What the codec computes on every input.  Its integers, its lists of     *)
(* strings and its loops are recursive definitions and folds, and facts    *)
(* about those need induction.  The induction and recursion theorems of    *)
(* the library take operators, which no backend can instantiate; here the  *)
(* same principles are proved for sets and functions in their place.       *)
(***************************************************************************)
EXTENDS Codec, FiniteSets, SequenceTheorems, FiniteSetTheorems,
        WellFoundedInduction, TLAPS

-----------------------------------------------------------------------------
\* Induction and recursion on natural numbers, folds over finite sets

\* A set of natural numbers that is not empty has a least element.
LEMMA Least ==
    ASSUME NEW T, T \subseteq Nat, T # {}
    PROVE  \E x \in T : \A y \in T : x <= y
<1>1. PICK x \in T : \A y \in T : <<y, x>> \notin OpToRel(<, Nat)
  BY WFMin, NatLessThanWellFounded, Zenon
<1>2. \A y \in T : ~(y < x)
  BY <1>1, Zenon DEF OpToRel
<1> QED
  BY <1>2

\* Induction, on a set in place of a predicate.
LEMMA Induction ==
    ASSUME NEW Z, 0 \in Z, \A n \in Nat : n \in Z => n + 1 \in Z
    PROVE  Nat \subseteq Z
<1> SUFFICES ASSUME ~(Nat \subseteq Z) PROVE FALSE
  OBVIOUS
<1>1. PICK x \in Nat \ Z : \A y \in Nat \ Z : x <= y
  BY Least
<1>2. x # 0 /\ x - 1 \in Nat
  BY <1>1
<1>3. x - 1 \in Z
  BY <1>1, <1>2
<1>4. (x - 1) + 1 \in Z
  BY <1>2, <1>3
<1> QED
  BY <1>1, <1>4

\* f begins with b and goes on with h.
Follows(f, b, h) == f[0] = b /\ \A n \in Nat : f[n + 1] = h[<<n, f[n]>>]

\* Definition by recursion.
LEMMA Recursion ==
    ASSUME NEW B, NEW b \in B, NEW h \in [Nat \X B -> B]
    PROVE  \E f \in [Nat -> B] : Follows(f, b, h)
<1> DEFINE Upto(n) == {g \in [0 .. n -> B] :
                         g[0] = b /\ \A k \in 0 .. n - 1 : g[k + 1] = h[<<k, g[k]>>]}
           Z == {n \in Nat : Upto(n) # {}}
<1>1. 0 \in Z
  <2>1. [k \in 0 .. 0 |-> b] \in Upto(0)
    OBVIOUS
  <2> QED
    BY <2>1
<1>2. ASSUME NEW n \in Nat, n \in Z PROVE n + 1 \in Z
  <2>1. PICK g \in Upto(n) : TRUE
    BY <1>2
  <2> DEFINE e == [k \in 0 .. n + 1 |-> IF k = n + 1 THEN h[<<n, g[n]>>] ELSE g[k]]
  <2>2. g \in [0 .. n -> B] /\ g[0] = b /\ \A k \in 0 .. n - 1 : g[k + 1] = h[<<k, g[k]>>]
    BY <2>1
  <2>3. h[<<n, g[n]>>] \in B
    BY <2>2
  <2>4. e \in [0 .. n + 1 -> B]
    BY <2>2, <2>3
  <2>5. e[0] = b
    BY <2>2
  <2>6. \A k \in 0 .. (n + 1) - 1 : e[k + 1] = h[<<k, e[k]>>]
    <3> TAKE k \in 0 .. (n + 1) - 1
    <3>1. k \in 0 .. n /\ e[k] = g[k]
      OBVIOUS
    <3>2. CASE k = n
      <4>1. e[n + 1] = h[<<n, g[n]>>] /\ e[n] = g[n]
        OBVIOUS
      <4> QED
        BY <3>2, <4>1
    <3>3. CASE k # n
      BY <3>1, <3>3, <2>2
    <3> QED
      BY <3>2, <3>3
  <2>7. e \in Upto(n + 1)
    BY <2>4, <2>5, <2>6, Zenon
  <2> HIDE DEF Upto, e
  <2> QED
    BY <2>7
<1>3. Nat \subseteq Z
  BY <1>1, <1>2, Induction, Zenon
<1>4. \A n \in Nat : Upto(n) # {}
  BY <1>3
<1> DEFINE G(n) == CHOOSE g \in Upto(n) : TRUE
<1>5. \A n \in Nat : G(n) \in Upto(n)
  BY <1>4, Zenon
<1>6. ASSUME NEW n \in Nat
      PROVE  G(n) \in [0 .. n -> B] /\ G(n)[0] = b
             /\ \A k \in 0 .. n - 1 : G(n)[k + 1] = h[<<k, G(n)[k]>>]
  BY <1>5
<1> HIDE DEF G, Upto
<1>7. ASSUME NEW n \in Nat PROVE \A k \in 0 .. n : G(n + 1)[k] = G(n)[k]
  <2> DEFINE Y == {k \in Nat : k <= n => G(n + 1)[k] = G(n)[k]}
  <2>1. 0 \in Y
    BY <1>6
  <2>2. ASSUME NEW k \in Nat, k \in Y PROVE k + 1 \in Y
    <3>1. CASE k + 1 <= n
      <4>1. k \in 0 .. n - 1 /\ k \in 0 .. (n + 1) - 1 /\ n + 1 \in Nat
        BY <3>1
      <4>2. G(n + 1)[k + 1] = h[<<k, G(n + 1)[k]>>]
        BY <4>1, <1>6
      <4>3. G(n)[k + 1] = h[<<k, G(n)[k]>>]
        BY <4>1, <1>6
      <4> QED
        BY <4>2, <4>3, <2>2, <3>1
    <3> QED
      BY <3>1
  <2>3. Nat \subseteq Y
    BY <2>1, <2>2, Induction, Zenon
  <2> QED
    BY <2>3
<1> DEFINE f == [n \in Nat |-> G(n)[n]]
<1>8. f \in [Nat -> B]
  BY <1>6
<1>9. f[0] = b
  BY <1>6
<1>10. ASSUME NEW n \in Nat PROVE f[n + 1] = h[<<n, f[n]>>]
  <2>1. f[n + 1] = G(n + 1)[n + 1] /\ f[n] = G(n)[n]
    OBVIOUS
  <2>2. G(n + 1)[n + 1] = h[<<n, G(n + 1)[n]>>]
    BY <1>6
  <2>3. G(n + 1)[n] = G(n)[n]
    BY <1>7
  <2> QED
    BY <2>1, <2>2, <2>3
<1> QED
  BY <1>8, <1>9, <1>10 DEF Follows

\* g is what a fold over S computes: it begins with b, and goes on with h at the
\* element that is picked.
FoldsOver(g, S, b, h, pick) ==
    \A s \in SUBSET S : g[s] = IF s = {} THEN b ELSE h[<<pick[s], g[s \ {pick[s]}]>>]

\* The fold over a finite set, with a function for each operator.
LEMMA SetRecursion ==
    ASSUME NEW S, IsFiniteSet(S), NEW B, NEW b \in B, NEW h \in [S \X B -> B],
           NEW pick, \A s \in SUBSET S : s # {} => pick[s] \in s
    PROVE  \E g \in [SUBSET S -> B] : FoldsOver(g, S, b, h, pick)
<1> DEFINE F == [SUBSET S -> B]
           step == [x \in Nat \X F |-> [s \in SUBSET S |->
                       IF s = {} THEN b ELSE h[<<pick[s], x[2][s \ {pick[s]}]>>]]]
           start == [s \in SUBSET S |-> b]
<1>1. start \in F
  OBVIOUS
<1>2. step \in [Nat \X F -> F]
  <2> SUFFICES ASSUME NEW x \in Nat \X F, NEW s \in SUBSET S, s # {}
               PROVE  h[<<pick[s], x[2][s \ {pick[s]}]>>] \in B
    BY Zenon
  <2>1. pick[s] \in S /\ s \ {pick[s]} \in SUBSET S
    OBVIOUS
  <2>2. x[2] \in F
    OBVIOUS
  <2> QED
    BY <2>1, <2>2
<1> HIDE DEF start
<1>3. PICK f \in [Nat -> F] : f[0] = start /\ \A n \in Nat : f[n + 1] = step[<<n, f[n]>>]
  <2> HIDE DEF F, step
  <2>1. PICK f \in [Nat -> F] : Follows(f, start, step)
    BY <1>1, <1>2, Recursion, Zenon
  <2> QED
    BY <2>1 DEF Follows
<1> DEFINE g == [s \in SUBSET S |-> f[Cardinality(s)][s]]
<1>4. ASSUME NEW s \in SUBSET S PROVE IsFiniteSet(s) /\ Cardinality(s) \in Nat
  BY FS_Subset, FS_CardinalityType
<1>5. g \in F
  BY <1>3, <1>4
<1>6. ASSUME NEW s \in SUBSET S PROVE g[s] = IF s = {} THEN b ELSE h[<<pick[s], g[s \ {pick[s]}]>>]
  <2>1. CASE s = {}
    <3>1. Cardinality(s) = 0
      BY <2>1, FS_EmptySet
    <3> QED
      BY <3>1, <2>1, <1>3 DEF start
  <2>2. CASE s # {}
    <3> DEFINE r == s \ {pick[s]}
               n == Cardinality(r)
    <3>1. pick[s] \in s /\ r \in SUBSET S /\ pick[s] \notin r /\ s = r \union {pick[s]}
      BY <2>2
    <3>2. n \in Nat /\ Cardinality(s) = n + 1
      BY <3>1, <1>4, FS_AddElement
    <3>3. g[s] = f[n + 1][s]
      BY <3>2
    <3> HIDE DEF n
    <3>4. f[n] \in F
      BY <1>3, <3>2
    <3>5. f[n + 1] = step[<<n, f[n]>>]
      BY <1>3, <3>2
    <3>6. f[n + 1][s] = h[<<pick[s], f[n][r]>>]
      BY <3>5, <3>4, <3>2, <2>2
    <3>7. g[r] = f[n][r]
      BY <3>1 DEF n
    <3> QED
      BY <3>3, <3>6, <3>7, <2>2
  <2> QED
    BY <2>1, <2>2
<1> QED
  BY <1>5, <1>6 DEF FoldsOver
-----------------------------------------------------------------------------
\* Integers

\* The powers of the base.
LEMMA Powers ==
    /\ Power \in [Nat -> Nat \ {0}]
    /\ Power[0] = 1
    /\ \A n \in Nat : Power[n + 1] = Base * Power[n]
<1> DEFINE B == Nat \ {0}
           h == [x \in Nat \X B |-> Base * x[2]]
           F(f) == [n \in Nat |-> IF n = 0 THEN 1 ELSE Base * f[n - 1]]
<1>1. 1 \in B /\ h \in [Nat \X B -> B]
  <2>1. ASSUME NEW x \in Nat \X B PROVE Base * x[2] \in B
    <3>1. Base \in Nat \ {0} /\ x[2] \in Nat \ {0}
      BY CodecAssumption
    <3>2. \A m, n \in Nat \ {0} : m * n \in Nat \ {0}
      OBVIOUS
    <3>3. QED
      BY <3>1, <3>2
  <2>2. QED
    BY <2>1
<1>2. PICK f \in [Nat -> B] : Follows(f, 1, h)
  <2> HIDE DEF B, h
  <2>1. QED
    BY <1>1, Recursion, Zenon
<1>3. f[0] = 1 /\ \A n \in Nat : f[n + 1] = Base * f[n]
  BY <1>2 DEF Follows
<1>4. f = F(f)
  <2>1. ASSUME NEW n \in Nat PROVE f[n] = F(f)[n]
    <3>1. CASE n = 0
      BY <3>1, <1>3
    <3>2. CASE n # 0
      <4>1. n - 1 \in Nat /\ (n - 1) + 1 = n
        BY <3>2
      <4>2. f[(n - 1) + 1] = Base * f[n - 1]
        BY <4>1, <1>3
      <4>3. QED
        BY <4>1, <4>2, <3>2
    <3>3. QED
      BY <3>1, <3>2
  <2>2. QED
    BY <2>1
<1>5. Power = F(Power)
  <2> HIDE DEF F
  <2>1. Power = CHOOSE g : g = F(g)
    BY DEF Power, F
  <2>2. QED
    BY <1>4, <2>1, Zenon
<1>6. Power[0] = 1 /\ \A n \in Nat : Power[n + 1] = Base * Power[n]
  <2>1. \A n \in Nat : Power[n] = F(Power)[n]
    BY <1>5
  <2> HIDE <1>5
  <2>2. QED
    BY <2>1
<1>7. \A n \in Nat : Power[n] = f[n]
  <2> DEFINE Z == {n \in Nat : Power[n] = f[n]}
  <2>1. 0 \in Z
    BY <1>6, <1>3
  <2>2. \A n \in Nat : n \in Z => n + 1 \in Z
    BY <1>6, <1>3
  <2>3. Nat \subseteq Z
    BY <2>1, <2>2, Induction, Zenon
  <2>4. QED
    BY <2>3
<1>8. Power = [n \in Nat |-> Power[n]]
  <2>1. F(Power) = [n \in Nat |-> F(Power)[n]]
    OBVIOUS
  <2>2. QED
    BY <2>1, <1>5, Zenon
<1>9. QED
  BY <1>2, <1>6, <1>7, <1>8

\* The least element of an interval, and the greatest.
LEMMA MinMaxOfInterval ==
    ASSUME NEW i \in Int, NEW j \in Int, i <= j
    PROVE  Min(i .. j) = i /\ Max(i .. j) = j
<1>1. i \in i .. j /\ \A y \in i .. j : i <= y
  OBVIOUS
<1>2. j \in i .. j /\ \A y \in i .. j : j >= y
  OBVIOUS
<1>3. \A x \in i .. j : (\A y \in i .. j : x <= y) => x = i
  OBVIOUS
<1>4. \A x \in i .. j : (\A y \in i .. j : x >= y) => x = j
  OBVIOUS
<1>5. QED
  BY <1>1, <1>2, <1>3, <1>4 DEF Min, Max

\* A finite set of integers has a least element and a greatest.
LEMMA MinMaxInSet ==
    ASSUME NEW n \in Nat, NEW s \in SUBSET (1 .. n), s # {}
    PROVE  Min(s) \in s /\ Max(s) \in s
<1>0. s \subseteq Nat /\ \A y \in s : y <= n
  OBVIOUS
<1>1. \E x \in s : \A y \in s : x <= y
  BY <1>0, Least
<1>2. \E x \in s : \A y \in s : x >= y
  <2> DEFINE T == {n - y : y \in s}
  <2>0. \A y \in s : n - y \in Nat
    BY <1>0
  <2>1. T \subseteq Nat /\ T # {}
    BY <2>0
  <2>2. PICK z \in T : \A w \in T : z <= w
    <3> HIDE DEF T
    <3>1. QED
      BY <2>1, Least
  <2>3. PICK x \in s : z = n - x
    BY <2>2
  <2>4. \A y \in s : n - x <= n - y
    BY <2>2, <2>3
  <2>5. QED
    BY <2>4, <1>0
<1>3. QED
  BY <1>1, <1>2, Zenon DEF Min, Max

\* Number adds up the digits from the last to the first.
LEMMA NumberUnfolds ==
    ASSUME NEW s \in Seq(Nat)
    PROVE  \E v \in [1 .. Len(s) + 1 -> Nat] :
              /\ v[Len(s) + 1] = 0
              /\ \A k \in 1 .. Len(s) : v[k] = s[k] + Base * v[k + 1]
              /\ Number(s) = v[1]
<1> DEFINE n == Len(s)
           D == 1 .. n
           least == [t \in SUBSET D |-> Min(t)]
           h == [x \in D \X Nat |-> s[x[1]] + Base * x[2]]
           F(it) == [t \in SUBSET D |-> IF t = {} THEN 0
                                        ELSE s[Min(t)] + Base * it[t \ {Min(t)}]]
<1>1. n \in Nat /\ D = DOMAIN s /\ \A i \in D : s[i] \in Nat
  BY LenProperties, ElementOfSeq
<1>2. IsFiniteSet(D) /\ 0 \in Nat /\ h \in [D \X Nat -> Nat]
  <2>1. Base \in Nat
    BY CodecAssumption
  <2>2. ASSUME NEW x \in D \X Nat PROVE s[x[1]] + Base * x[2] \in Nat
    <3>1. x[1] \in D /\ x[2] \in Nat
      OBVIOUS
    <3>2. s[x[1]] \in Nat
      BY <3>1, <1>1
    <3>3. \A a, b, c \in Nat : a + b * c \in Nat
      OBVIOUS
    <3>4. QED
      BY <3>1, <3>2, <3>3, <2>1
  <2>3. QED
    BY <2>2, <1>1, FS_Interval
<1>3. \A t \in SUBSET D : t # {} => least[t] \in t
  BY <1>1, MinMaxInSet
<1>4. PICK g \in [SUBSET D -> Nat] : \A t \in SUBSET D :
          g[t] = IF t = {} THEN 0 ELSE h[<<least[t], g[t \ {least[t]}]>>]
  <2> HIDE DEF D, h, least
  <2>1. PICK g \in [SUBSET D -> Nat] : FoldsOver(g, D, 0, h, least)
    BY <1>2, <1>3, SetRecursion, Zenon
  <2>2. QED
    BY <2>1 DEF FoldsOver
<1>5. g = F(g)
  <2>1. ASSUME NEW t \in SUBSET D PROVE g[t] = F(g)[t]
    <3>1. CASE t = {}
      BY <3>1, <1>4
    <3>2. CASE t # {}
      <4>1. least[t] = Min(t) /\ Min(t) \in D /\ t \ {Min(t)} \in SUBSET D
        BY <1>3, <3>2
      <4>2. g[t] = h[<<Min(t), g[t \ {Min(t)}]>>]
        BY <1>4, <4>1, <3>2
      <4>3. QED
        BY <4>1, <4>2, <3>2
    <3>3. QED
      BY <3>1, <3>2
  <2>2. QED
    BY <2>1
<1> DEFINE it == CHOOSE f : f = F(f)
<1>6. it = F(it)
  <2> HIDE DEF F
  <2>1. QED
    BY <1>5, Zenon
<1>7. Number(s) = it[D]
  BY <1>1 DEF Number, FoldRight, MapThenFoldSet
<1> HIDE DEF it
<1>8. \A t \in SUBSET D :
          it[t] = IF t = {} THEN 0 ELSE s[Min(t)] + Base * it[t \ {Min(t)}]
  BY <1>6
<1> HIDE <1>6
<1> DEFINE v == [k \in 1 .. n + 1 |-> it[k .. n]]
<1>9. v[n + 1] = 0
  <2>1. (n + 1) .. n = {} /\ (n + 1) .. n \in SUBSET D
    BY <1>1
  <2>2. it[(n + 1) .. n] = 0
    BY <2>1, <1>8
  <2>3. QED
    BY <2>2, <1>1
<1>10. ASSUME NEW k \in D PROVE v[k] = s[k] + Base * v[k + 1]
  <2>1. k .. n \in SUBSET D /\ k .. n # {} /\ (k .. n) \ {k} = (k + 1) .. n
    BY <1>1
  <2>2. Min(k .. n) = k
    BY <1>1, MinMaxOfInterval
  <2>3. it[k .. n] = s[k] + Base * it[(k + 1) .. n]
    BY <2>1, <2>2, <1>8
  <2>4. v[k] = it[k .. n] /\ v[k + 1] = it[(k + 1) .. n]
    BY <1>1
  <2>5. QED
    BY <2>3, <2>4
<1>11. \A k \in 1 .. n + 1 : v[k] \in Nat
  <2> HIDE DEF v
  <2> DEFINE Z == {j \in Nat : j <= n => v[(n + 1) - j] \in Nat}
  <2>1. 0 \in Z
    BY <1>9, <1>1
  <2>2. ASSUME NEW j \in Nat, j \in Z PROVE j + 1 \in Z
    <3>1. CASE j + 1 <= n
      <4>1. n - j \in D /\ (n + 1) - (j + 1) = n - j /\ (n - j) + 1 = (n + 1) - j
        BY <3>1, <1>1
      <4>2. v[n - j] = s[n - j] + Base * v[(n + 1) - j]
        BY <4>1, <1>10
      <4>3. s[n - j] \in Nat /\ v[(n + 1) - j] \in Nat /\ Base \in Nat
        BY <4>1, <2>2, <3>1, <1>1, CodecAssumption
      <4>4. \A a, b, c \in Nat : a + b * c \in Nat
        OBVIOUS
      <4>5. s[n - j] + Base * v[(n + 1) - j] \in Nat
        BY <4>3, <4>4, Zenon
      <4>6. v[n - j] \in Nat
        BY <4>2, <4>5, Zenon
      <4>7. QED
        BY <4>6, <4>1
    <3>2. QED
      BY <3>1, <1>1
  <2>3. Nat \subseteq Z
    BY <2>1, <2>2, Induction, Zenon
  <2>4. ASSUME NEW k \in 1 .. n + 1 PROVE v[k] \in Nat
    <3>1. (n + 1) - k \in Z /\ (n + 1) - k <= n /\ (n + 1) - ((n + 1) - k) = k
      BY <2>3, <1>1
    <3>2. QED
      BY <3>1
  <2>5. QED
    BY <2>4
<1>12. v \in [1 .. n + 1 -> Nat]
  BY <1>11
<1>13. v[1] = it[D]
  BY <1>1
<1>14. QED
  BY <1>7, <1>9, <1>10, <1>12, <1>13

\* What the bytes of an integer say is a number.
LEMMA NumberIsNat ==
    ASSUME NEW s \in Seq(Nat)
    PROVE  Number(s) \in Nat
<1>1. Len(s) \in Nat
  BY LenProperties
<1>2. PICK v \in [1 .. Len(s) + 1 -> Nat] : Number(s) = v[1]
  BY NumberUnfolds
<1>3. QED
  BY <1>1, <1>2

\* Put makes as many bytes as it is told to.
LEMMA PutBytes ==
    ASSUME NEW n \in Nat, NEW width \in Nat
    PROVE  /\ Put(n, width) \in Seq(Byte)
           /\ Put(n, width) \in Seq(Nat)
           /\ Len(Put(n, width)) = width
           /\ \A i \in 1 .. width : Put(n, width)[i] = (n \div Power[i - 1]) % Base
<1>1. Base \in Nat \ {0}
  BY CodecAssumption
<1>2. ASSUME NEW i \in 1 .. width
      PROVE  (n \div Power[i - 1]) % Base \in 0 .. Base - 1
  <2>1. i - 1 \in Nat
    OBVIOUS
  <2>2. Power[i - 1] \in Nat \ {0}
    BY <2>1, Powers
  <2>3. \A a \in Nat, b \in Nat \ {0} : (n \div b) \in Nat /\ a % b \in 0 .. b - 1
    OBVIOUS
  <2>4. n \div Power[i - 1] \in Nat
    BY <2>2, <2>3
  <2>5. QED
    BY <2>3, <2>4, <1>1
<1>3. Byte \subseteq Nat
  BY <1>1 DEF Byte
<1>4. \A i \in 1 .. width : Put(n, width)[i] \in Byte
  BY <1>2 DEF Put, Byte
<1>5. Put(n, width) = [i \in 1 .. width |-> Put(n, width)[i]]
  BY DEF Put
<1>6. \A i \in 1 .. width : Put(n, width)[i] = (n \div Power[i - 1]) % Base
  BY DEF Put
<1> HIDE DEF Byte
<1>7. QED
  BY <1>3, <1>4, <1>5, <1>6, SMTT(30)

\* To divide by two numbers, one after the other, is to divide by their product.
LEMMA DivideTwice ==
    ASSUME NEW n \in Nat, NEW b \in Nat \ {0}, NEW c \in Nat \ {0}
    PROVE  n \div (b * c) = (n \div c) \div b /\ n \div c \in Nat
<1>1. \A a \in Nat, d \in Nat \ {0} :
         /\ a \div d \in Nat /\ a % d \in Nat /\ a % d < d
         /\ a = d * (a \div d) + (a % d)
  OBVIOUS
<1>2. \A d \in Nat \ {0}, x, r \in Nat : r < d => (d * x + r) \div d = x
  OBVIOUS
<1> DEFINE q == n \div c
           r == n % c
           x == q \div b
           s == q % b
<1>3. q \in Nat /\ r \in Nat /\ r < c /\ n = c * q + r
  BY <1>1
<1> HIDE DEF q, r
<1>4. x \in Nat /\ s \in Nat /\ s < b /\ q = b * x + s
  BY <1>1, <1>3
<1> HIDE DEF x, s
<1>5. c * s \in Nat /\ c * s <= c * (b - 1) /\ c * (b - 1) = b * c - c /\ b * c \in Nat \ {0}
  <2>1. \A i, j, k \in Nat : i <= j => k * i <= k * j
    OBVIOUS
  <2>2. s <= b - 1 /\ b - 1 \in Nat
    BY <1>4
  <2>3. c * s <= c * (b - 1)
    BY <2>1, <2>2, <1>4
  <2>4. c * s \in Nat /\ c * (b - 1) = b * c - c /\ b * c \in Nat \ {0}
    BY <1>4
  <2>5. QED
    BY <2>3, <2>4
<1>6. c * s + r \in Nat /\ c * s + r < b * c
  BY <1>3, <1>5
<1>7. n = (b * c) * x + (c * s + r)
  <2>1. c * (b * x + s) = (b * c) * x + c * s
    BY <1>4
  <2>2. n = ((b * c) * x + c * s) + r
    BY <2>1, <1>3, <1>4
  <2>3. QED
    BY <2>2, <1>3, <1>4, <1>5
<1>8. n \div (b * c) = x
  BY <1>2, <1>4, <1>5, <1>6, <1>7
<1>9. QED
  BY <1>3, <1>8 DEF q, x

\* The round trip of an integer: what PutUint writes, Uint reads, for every
\* number that the width has room for.
LEMMA NumberOfPut ==
    ASSUME NEW n \in Nat, NEW w \in Nat, n < Power[w]
    PROVE  Number(Put(n, w)) = n
<1> DEFINE s == Put(n, w)
<1>1. s \in Seq(Nat) /\ Len(s) = w
  BY PutBytes
<1>2. \A i \in 1 .. w : s[i] = (n \div Power[i - 1]) % Base
  BY PutBytes
<1>3. Base \in Nat \ {0} /\ \A i \in Nat : Power[i] \in Nat \ {0}
  BY Powers, CodecAssumption
<1> HIDE DEF s
<1>4. PICK v \in [1 .. w + 1 -> Nat] :
          /\ v[w + 1] = 0
          /\ \A k \in 1 .. w : v[k] = s[k] + Base * v[k + 1]
          /\ Number(s) = v[1]
  BY <1>1, NumberUnfolds
<1> DEFINE Z == {j \in Nat : j <= w => v[(w + 1) - j] = n \div Power[w - j]}
<1>5. 0 \in Z
  <2>1. \A b \in Nat \ {0} : n < b => n \div b = 0
    OBVIOUS
  <2>2. n \div Power[w] = 0
    BY <2>1, <1>3
  <2>3. QED
    BY <2>2, <1>4
<1>6. ASSUME NEW j \in Nat, j \in Z PROVE j + 1 \in Z
  <2> SUFFICES ASSUME j + 1 <= w PROVE v[(w + 1) - (j + 1)] = n \div Power[w - (j + 1)]
    OBVIOUS
  <2> DEFINE k == w - j
  <2>1. k \in 1 .. w /\ k - 1 \in Nat /\ (k - 1) + 1 = k
        /\ (w + 1) - (j + 1) = k /\ w - (j + 1) = k - 1 /\ k + 1 = (w + 1) - j
    OBVIOUS
  <2> HIDE DEF k
  <2>2. v[k + 1] = n \div Power[k]
    BY <1>6, <2>1 DEF k
  <2>3. v[k] = s[k] + Base * v[k + 1] /\ s[k] = (n \div Power[k - 1]) % Base
    BY <2>1, <1>2, <1>4
  <2>4. Power[k] = Base * Power[k - 1]
    BY <2>1, Powers
  <2>5. \A b, c \in Nat \ {0} : n \div (b * c) = (n \div c) \div b /\ n \div c \in Nat
    BY DivideTwice
  <2>6. \A a \in Nat, b \in Nat \ {0} : (a % b) + b * (a \div b) = a
    BY SMTT(30)
  <2>7. Power[k - 1] \in Nat \ {0}
    BY <1>3, <2>1
  <2>8. n \div Power[k] = (n \div Power[k - 1]) \div Base /\ n \div Power[k - 1] \in Nat
    BY <2>4, <2>5, <2>7, <1>3
  <2>9. v[k] = n \div Power[k - 1]
    <3> DEFINE a == n \div Power[k - 1]
    <3>1. v[k] = (a % Base) + Base * (a \div Base)
      BY <2>2, <2>3, <2>8
    <3> HIDE DEF a
    <3>2. QED
      BY <3>1, <2>6, <2>8, <1>3 DEF a
  <2>10. QED
    BY <2>9, <2>1
<1>7. Nat \subseteq Z
  BY <1>5, <1>6, Induction, Zenon
<1>8. v[1] = n \div Power[0]
  <2>1. w \in Z
    BY <1>7
  <2>2. (w + 1) - w = 1 /\ w - w = 0
    OBVIOUS
  <2>3. QED
    BY <2>1, <2>2
<1>9. n \div 1 = n
  OBVIOUS
<1>10. QED
  BY <1>4, <1>8, <1>9, Powers DEF s

-----------------------------------------------------------------------------
\* Scans

\* The scans of p there can be.
ScanErrors == {"none", "truncated", "panic"}
Scan(p) == [err : ScanErrors, pos : 0 .. Len(p), fields : Seq(Seq(Nat)), room : Nat]

\* A u32 as an int.
LEMMA ToIntProperties ==
    ASSUME NEW n \in Nat
    PROVE  ToInt(n) \in Int /\ (n <= IntMax => ToInt(n) = n)
<1>1. Power[Len32] \in Nat /\ IntMax \in Nat
  BY Powers, CodecAssumption
<1>2. QED
  BY <1>1 DEF ToInt

\* A part of a sequence.
LEMMA PartOfSeq ==
    ASSUME NEW S, NEW p \in Seq(S), NEW i \in Nat, NEW j \in Nat, i <= j, j <= Len(p)
    PROVE  /\ SubSeq(p, i + 1, j) \in Seq(S)
           /\ Len(SubSeq(p, i + 1, j)) = j - i
           /\ \A k \in 1 .. j - i : SubSeq(p, i + 1, j)[k] = p[i + k]
<1>1. Len(p) \in Nat /\ \A k \in 1 .. Len(p) : p[k] \in S
  BY LenProperties, ElementOfSeq
<1>2. CASE i = j
  <2>1. SubSeq(p, i + 1, j) = <<>>
    BY <1>2, SubSeqProperties
  <2>2. QED
    BY <2>1, <1>2
<1>3. CASE i < j
  <2>1. \A k \in (i + 1) .. j : p[k] \in S
    BY <1>1
  <2>2. SubSeq(p, i + 1, j) \in Seq(S) /\ Len(SubSeq(p, i + 1, j)) = j - i
    BY <1>1, <1>3, SubSeqProperties
  <2>3. \A k \in 1 .. j - (i + 1) + 1 : SubSeq(p, i + 1, j)[k] = p[(i + 1) + k - 1]
    BY <1>1, <1>3, SubSeqProperties
  <2>4. QED
    BY <2>2, <2>3
<1>4. QED
  BY <1>2, <1>3

\* An integer that is there.
LEMMA AtIsNat ==
    ASSUME NEW p \in Seq(Nat), NEW pos \in Nat, NEW width \in Nat, pos + width <= Len(p)
    PROVE  At(p, pos, width) \in Nat
<1>1. SubSeq(p, pos + 1, pos + width) \in Seq(Nat)
  BY PartOfSeq
<1>2. QED
  BY <1>1, NumberIsNat DEF At

\* GetString makes a scan of a scan: it fails, or it adds one field and leaves
\* what was found before.  An input that is no longer than an int can say is
\* never left.
LEMMA GetStringProperties ==
    ASSUME NEW p \in Seq(Nat), NEW scan \in Scan(p)
    PROVE  LET r == GetString(p, scan)
           IN  /\ r \in Scan(p)
               /\ r.room = scan.room
               /\ scan.err # "none" => r = scan
               /\ r.err = "none" =>
                     /\ scan.err = "none"
                     /\ Len(r.fields) = Len(scan.fields) + 1
                     /\ \A i \in 1 .. Len(scan.fields) : r.fields[i] = scan.fields[i]
               /\ Len(p) <= IntMax /\ scan.err # "panic" => r.err # "panic"
<1> DEFINE pos == scan.pos + Len32
           n == At(p, scan.pos, Len32)
           end == pos + ToInt(n)
           r == GetString(p, scan)
<1>1. /\ Len(p) \in Nat /\ scan.pos \in 0 .. Len(p) /\ Len32 \in Nat \ {0} /\ pos \in Nat
      /\ scan.fields \in Seq(Seq(Nat)) /\ scan.room \in Nat /\ scan.err \in ScanErrors
  BY LenProperties, CodecAssumption DEF Scan
<1>2. scan = [err |-> scan.err, pos |-> scan.pos, fields |-> scan.fields, room |-> scan.room]
  BY DEF Scan
<1>3. \A why \in ScanErrors : /\ Fail(scan, why) \in Scan(p)
                          /\ Fail(scan, why).room = scan.room
                          /\ Fail(scan, why).err = why
  <2>1. <<>> \in Seq(Seq(Nat))
    OBVIOUS
  <2>2. QED
    BY <1>1, <1>2, <2>1 DEF Fail, Scan
<1>4. /\ scan.err # "none" => r = scan
      /\ scan.err = "none" /\ Len(p) < pos => r = Fail(scan, "truncated")
      /\ scan.err = "none" /\ Len(p) >= pos =>
            r = IF n > Len(p) - pos THEN Fail(scan, "truncated") ELSE Slice(p, scan, pos, n)
  BY <1>1 DEF GetString, Cut
<1>5. Len(p) >= pos => n \in Nat /\ ToInt(n) \in Int /\ (n <= IntMax => ToInt(n) = n)
  <2> SUFFICES ASSUME Len(p) >= pos
               PROVE  n \in Nat /\ ToInt(n) \in Int /\ (n <= IntMax => ToInt(n) = n)
    OBVIOUS
  <2>1. scan.pos \in Nat /\ Len32 \in Nat /\ scan.pos + Len32 <= Len(p)
    BY <1>1
  <2>2. n \in Nat
    BY <2>1, AtIsNat
  <2> HIDE DEF n
  <2>3. QED
    BY <2>2, ToIntProperties
<1>6. IntMax \in Nat
  BY CodecAssumption
<1>7. pos = scan.pos + Len32 /\ end = pos + ToInt(n)
  OBVIOUS
<1>8. Slice(p, scan, pos, n) = IF pos <= end /\ end <= Len(p)
                               THEN [scan EXCEPT !.pos = end,
                                                 !.fields = Append(@, SubSeq(p, pos + 1, end))]
                               ELSE Fail(scan, "panic")
  BY DEF Slice
<1> HIDE DEF r, n, pos, end
<1>9. CASE scan.err # "none"
  <2>1. r = scan
    BY <1>4, <1>9
  <2>2. QED
    BY <2>1, <1>9 DEF r
<1>10. CASE scan.err = "none" /\ (Len(p) < pos \/ n > Len(p) - pos)
  <2>1. r = Fail(scan, "truncated")
    BY <1>4, <1>10, <1>1
  <2>2. r \in Scan(p) /\ r.room = scan.room /\ r.err = "truncated"
    BY <2>1, <1>3 DEF ScanErrors
  <2>3. QED
    BY <2>2, <1>10 DEF r
<1>11. CASE scan.err = "none" /\ Len(p) >= pos /\ ~(n > Len(p) - pos)
            /\ ~(pos <= end /\ end <= Len(p))
  <2>1. r = Fail(scan, "panic")
    BY <1>4, <1>8, <1>11
  <2>2. r \in Scan(p) /\ r.room = scan.room /\ r.err = "panic"
    BY <2>1, <1>3 DEF ScanErrors
  <2>3. n \in Nat /\ Len(p) \in Nat /\ pos \in Nat /\ end = pos + ToInt(n)
        /\ ~(n > Len(p) - pos) /\ ~(pos <= end /\ end <= Len(p))
        /\ (n <= IntMax => ToInt(n) = n)
    BY <1>1, <1>5, <1>7, <1>11
  <2>4. ~(Len(p) <= IntMax)
    BY <2>3, <1>6
  <2>5. QED
    BY <2>2, <2>4, <1>11 DEF r
<1>12. CASE scan.err = "none" /\ Len(p) >= pos /\ ~(n > Len(p) - pos)
            /\ pos <= end /\ end <= Len(p)
  <2> DEFINE field == SubSeq(p, pos + 1, end)
  <2>1. r = [scan EXCEPT !.pos = end, !.fields = Append(@, field)]
    BY <1>4, <1>8, <1>12
  <2>2. ToInt(n) \in Int /\ Len(p) \in Nat /\ pos \in Nat /\ end = pos + ToInt(n)
         /\ pos <= end /\ end <= Len(p)
    BY <1>1, <1>5, <1>7, <1>12
  <2>3. end \in 0 .. Len(p)
    BY <2>2
  <2>4. field \in Seq(Nat)
    BY <2>3, <1>12, <1>1, PartOfSeq
  <2> HIDE DEF field
  <2>5. r = [err |-> "none", pos |-> end, fields |-> Append(scan.fields, field),
             room |-> scan.room]
    BY <2>1, <1>2, <1>12
  <2>6. /\ Append(scan.fields, field) \in Seq(Seq(Nat))
        /\ Len(Append(scan.fields, field)) = Len(scan.fields) + 1
        /\ \A i \in 1 .. Len(scan.fields) : Append(scan.fields, field)[i] = scan.fields[i]
    BY <2>4, <1>1, AppendProperties
  <2>7. r \in Scan(p)
    BY <2>3, <2>5, <2>6, <1>1 DEF Scan, ScanErrors
  <2>8. QED
    BY <2>5, <2>6, <2>7, <1>12 DEF r
<1>13. QED
  BY <1>1, <1>9, <1>10, <1>11, <1>12

\* n strings, one after the other.
Strings(p, base, n) ==
    FoldLeft(LAMBDA s, i : GetString(p, s), base, [i \in 1 .. n |-> i])

\* They are found one behind the other.
LEMMA StringsUnfold ==
    ASSUME NEW p \in Seq(Nat), NEW base \in Scan(p), NEW n \in Nat
    PROVE  \E v \in [0 .. n -> Scan(p)] :
              /\ v[0] = base
              /\ \A k \in 1 .. n : v[k] = GetString(p, v[k - 1])
              /\ Strings(p, base, n) = v[n]
<1> DEFINE D == 1 .. n
           B == Scan(p)
           greatest == [t \in SUBSET D |-> Max(t)]
           h == [x \in D \X B |-> GetString(p, x[2])]
           F(it) == [t \in SUBSET D |-> IF t = {} THEN base
                                        ELSE GetString(p, it[t \ {Max(t)}])]
<1>1. IsFiniteSet(D) /\ h \in [D \X B -> B]
  <2>1. \A b \in B : GetString(p, b) \in B
    BY GetStringProperties
  <2> HIDE DEF B
  <2>2. h \in [D \X B -> B]
    BY <2>1
  <2>3. QED
    BY <2>2, FS_Interval
<1>2. \A t \in SUBSET D : t # {} => greatest[t] \in t
  BY MinMaxInSet
<1> HIDE DEF B
<1>3. PICK g \in [SUBSET D -> B] : \A t \in SUBSET D :
          g[t] = IF t = {} THEN base ELSE h[<<greatest[t], g[t \ {greatest[t]}]>>]
  <2>1. base \in B
    BY DEF B
  <2> HIDE DEF D, h, greatest
  <2>2. PICK g \in [SUBSET D -> B] : FoldsOver(g, D, base, h, greatest)
    BY <1>1, <1>2, <2>1, SetRecursion, Zenon
  <2>3. QED
    BY <2>2 DEF FoldsOver
<1>4. g = F(g)
  <2>1. ASSUME NEW t \in SUBSET D PROVE g[t] = F(g)[t]
    <3>1. CASE t = {}
      BY <3>1, <1>3
    <3>2. CASE t # {}
      <4>1. greatest[t] = Max(t) /\ Max(t) \in D /\ t \ {Max(t)} \in SUBSET D
        BY <1>2, <3>2
      <4>2. g[t] = h[<<Max(t), g[t \ {Max(t)}]>>]
        BY <1>3, <4>1, <3>2
      <4>3. QED
        BY <4>1, <4>2, <3>2
    <3>3. QED
      BY <3>1, <3>2
  <2>2. QED
    BY <2>1
<1> DEFINE it == CHOOSE f : f = F(f)
<1>5. it = F(it)
  <2> HIDE DEF F
  <2>1. QED
    BY <1>4, Zenon
<1>6. Strings(p, base, n) = it[D]
  BY DEF Strings, FoldLeft, MapThenFoldSet
<1> HIDE DEF it
<1>7. \A t \in SUBSET D : it[t] = IF t = {} THEN base ELSE GetString(p, it[t \ {Max(t)}])
  BY <1>5
<1> HIDE <1>5
<1> DEFINE v == [k \in 0 .. n |-> it[1 .. k]]
<1>8. v[0] = base
  <2>1. 1 .. 0 = {} /\ 1 .. 0 \in SUBSET D
    OBVIOUS
  <2>2. it[1 .. 0] = base
    BY <2>1, <1>7
  <2>3. QED
    BY <2>2
<1>9. ASSUME NEW k \in D PROVE v[k] = GetString(p, v[k - 1])
  <2>1. 1 .. k \in SUBSET D /\ 1 .. k # {} /\ (1 .. k) \ {k} = 1 .. k - 1
    <3>1. k \in Nat /\ 1 <= k /\ k <= n
      OBVIOUS
    <3>2. \A i \in 1 .. k : i \in 1 .. n
      BY <3>1
    <3>3. \A i : i \in (1 .. k) \ {k} <=> i \in 1 .. k - 1
      BY <3>1
    <3>4. k \in 1 .. k
      BY <3>1
    <3>5. QED
      BY <3>2, <3>3, <3>4
  <2>2. Max(1 .. k) = k
    BY MinMaxOfInterval
  <2>3. it[1 .. k] = GetString(p, it[1 .. k - 1])
    BY <2>1, <2>2, <1>7
  <2>4. v[k] = it[1 .. k] /\ v[k - 1] = it[1 .. k - 1]
    OBVIOUS
  <2>5. QED
    BY <2>3, <2>4
<1>10. v \in [0 .. n -> B]
  <2> DEFINE Z == {k \in Nat : k <= n => v[k] \in B}
  <2>1. 0 \in Z
    BY <1>8 DEF B
  <2>2. ASSUME NEW k \in Nat, k \in Z PROVE k + 1 \in Z
    <3>1. CASE k + 1 <= n
      <4>1. k + 1 \in D /\ (k + 1) - 1 = k /\ v[k] \in B
        BY <3>1, <2>2
      <4> HIDE DEF v
      <4>2. v[k + 1] = GetString(p, v[k])
        BY <1>9, <4>1
      <4>3. QED
        BY <4>1, <4>2, GetStringProperties DEF B
    <3>2. QED
      BY <3>1
  <2>3. Nat \subseteq Z
    BY <2>1, <2>2, Induction, Zenon
  <2> HIDE DEF v
  <2>4. \A k \in 0 .. n : v[k] \in B
    BY <2>3
  <2>5. QED
    BY <2>4 DEF v
<1>11. v[n] = it[D]
  OBVIOUS
<1>12. QED
  BY <1>6, <1>8, <1>9, <1>10, <1>11 DEF B

\* r goes on with what scan has found.
Extends(r, scan) ==
    r.err = "none" =>
        /\ scan.err = "none"
        /\ Len(r.fields) >= Len(scan.fields)
        /\ \A i \in 1 .. Len(scan.fields) : r.fields[i] = scan.fields[i]

\* Any number of strings, read one after the other.
LEMMA StringsProperties ==
    ASSUME NEW p \in Seq(Nat), NEW base \in Scan(p), NEW n \in Nat
    PROVE  LET r == Strings(p, base, n)
           IN  /\ r \in Scan(p)
               /\ r.room = base.room
               /\ Extends(r, base)
               /\ Len(p) <= IntMax /\ base.err # "panic" => r.err # "panic"
<1>1. PICK v \in [0 .. n -> Scan(p)] :
          /\ v[0] = base
          /\ \A k \in 1 .. n : v[k] = GetString(p, v[k - 1])
          /\ Strings(p, base, n) = v[n]
  BY StringsUnfold
<1> DEFINE Good(r) == /\ r.room = base.room
                      /\ Extends(r, base)
                      /\ Len(p) <= IntMax /\ base.err # "panic" => r.err # "panic"
           Z == {k \in Nat : k <= n => Good(v[k])}
<1>2. \A r \in Scan(p) : r.fields \in Seq(Seq(Nat)) /\ Len(r.fields) \in Nat
  BY LenProperties DEF Scan
<1>3. 0 \in Z
  BY <1>1, <1>2 DEF Extends
<1>4. ASSUME NEW k \in Nat, k \in Z PROVE k + 1 \in Z
  <2> SUFFICES ASSUME k + 1 <= n PROVE Good(v[k + 1])
    OBVIOUS
  <2> DEFINE q == v[k]
             r == v[k + 1]
  <2>1. k \in 0 .. n /\ k + 1 \in 1 .. n /\ (k + 1) - 1 = k
    OBVIOUS
  <2>2. q \in Scan(p) /\ r = GetString(p, q) /\ Good(q)
    BY <2>1, <1>1, <1>4
  <2> HIDE DEF q
  <2>3. /\ r \in Scan(p)
        /\ r.room = q.room
        /\ r.err = "none" =>
              /\ q.err = "none"
              /\ Len(r.fields) = Len(q.fields) + 1
              /\ \A i \in 1 .. Len(q.fields) : r.fields[i] = q.fields[i]
        /\ Len(p) <= IntMax /\ q.err # "panic" => r.err # "panic"
    BY <2>2, GetStringProperties
  <2> HIDE DEF r
  <2>4. Extends(r, base)
    <3> SUFFICES ASSUME r.err = "none"
                 PROVE  /\ base.err = "none"
                        /\ Len(r.fields) >= Len(base.fields)
                        /\ \A i \in 1 .. Len(base.fields) : r.fields[i] = base.fields[i]
      BY DEF Extends
    <3>1. /\ q.err = "none" /\ base.err = "none"
          /\ Len(q.fields) >= Len(base.fields)
          /\ \A i \in 1 .. Len(base.fields) : q.fields[i] = base.fields[i]
      BY <2>2, <2>3 DEF Extends
    <3>2. Len(q.fields) \in Nat /\ Len(r.fields) \in Nat /\ Len(base.fields) \in Nat
      BY <1>2, <2>2, <2>3
    <3>3. QED
      BY <3>1, <3>2, <2>3
  <2>5. Good(r)
    BY <2>2, <2>3, <2>4
  <2>6. QED
    BY <2>5 DEF r
<1>5. Nat \subseteq Z
  BY <1>3, <1>4, Induction, Zenon
<1>6. Good(v[n]) /\ v[n] \in Scan(p)
  BY <1>5, <1>1
<1>7. QED
  BY <1>1, <1>6

\* GetStrings reserves no room that the input could not fill.
LEMMA GetStringsProperties ==
    ASSUME NEW p \in Seq(Nat), NEW scan \in Scan(p), scan.room <= Len(p)
    PROVE  LET r == GetStrings(p, scan)
           IN  /\ r \in Scan(p)
               /\ r.room <= Len(p)
               /\ Extends(r, scan)
               /\ Len(p) <= IntMax /\ scan.err # "panic" => r.err # "panic"
<1> DEFINE pos == scan.pos + Len32
           count == At(p, scan.pos, Len32)
           reserved == [scan EXCEPT !.pos = pos, !.room = count]
           r == GetStrings(p, scan)
<1>1. /\ Len(p) \in Nat /\ scan.pos \in 0 .. Len(p) /\ Len32 \in Nat \ {0} /\ pos \in Nat
      /\ scan.fields \in Seq(Seq(Nat)) /\ scan.room \in Nat /\ scan.err \in ScanErrors
      /\ Len(scan.fields) \in Nat
  BY LenProperties, CodecAssumption DEF Scan
<1>2. scan = [err |-> scan.err, pos |-> scan.pos, fields |-> scan.fields, room |-> scan.room]
  BY DEF Scan
<1>3. LET f == Fail(scan, "truncated")
      IN  f \in Scan(p) /\ f.room = scan.room /\ f.err = "truncated"
  <2>1. <<>> \in Seq(Seq(Nat))
    OBVIOUS
  <2>2. QED
    BY <1>1, <1>2, <2>1 DEF Fail, Scan, ScanErrors
<1>4. /\ scan.err # "none" => r = scan
      /\ scan.err = "none" /\ Len(p) < pos => r = Fail(scan, "truncated")
      /\ scan.err = "none" /\ Len(p) >= pos =>
            r = IF count > (Len(p) - pos) \div Len32 THEN Fail(scan, "truncated")
                ELSE Strings(p, reserved, count)
  BY <1>1 DEF GetStrings, TooFew, Strings, FoldLeft, MapThenFoldSet
<1>5. Len(p) >= pos => count \in Nat
  <2>1. scan.pos \in Nat /\ (Len(p) >= pos => scan.pos + Len32 <= Len(p))
    BY <1>1
  <2> HIDE DEF r, reserved
  <2>2. QED
    BY <2>1, <1>1, AtIsNat
<1> HIDE DEF r, count, pos
<1>6. CASE scan.err # "none"
  <2>1. r = scan
    BY <1>4, <1>6
  <2>2. QED
    BY <2>1, <1>6, <1>1 DEF r, Extends
<1>7. CASE scan.err = "none" /\ (Len(p) < pos \/ count > (Len(p) - pos) \div Len32)
  <2>1. r = Fail(scan, "truncated")
    BY <1>4, <1>7, <1>1
  <2>2. QED
    BY <2>1, <1>3, <1>7, <1>1 DEF r, Extends
<1>8. CASE scan.err = "none" /\ Len(p) >= pos /\ ~(count > (Len(p) - pos) \div Len32)
  <2>1. r = Strings(p, reserved, count) /\ count \in Nat
    BY <1>4, <1>5, <1>8
  <2>2. count <= Len(p)
    <3>1. Len(p) - pos \in Nat /\ Len(p) - pos <= Len(p)
      BY <1>1, <1>8
    <3>2. \A a \in Nat, b \in Nat \ {0} : (a \div b) \in Nat /\ (a \div b) <= a
      OBVIOUS
    <3>3. /\ (Len(p) - pos) \div Len32 <= Len(p) - pos
          /\ (Len(p) - pos) \div Len32 \in Nat
      BY <3>1, <3>2, <1>1
    <3>4. QED
      BY <3>1, <3>3, <2>1, <1>1, <1>8
  <2>3. /\ reserved = [err |-> "none", pos |-> pos, fields |-> scan.fields, room |-> count]
        /\ reserved \in Scan(p)
    <3>1. reserved = [err |-> "none", pos |-> pos, fields |-> scan.fields, room |-> count]
      <4>1. scan = [err |-> "none", pos |-> scan.pos, fields |-> scan.fields,
                    room |-> scan.room]
        BY <1>2, <1>8
      <4> DEFINE moved == [scan EXCEPT !.pos = pos]
      <4>2. moved = [err |-> "none", pos |-> pos, fields |-> scan.fields, room |-> scan.room]
        BY <4>1
      <4>3. reserved = [moved EXCEPT !.room = count]
        OBVIOUS
      <4> HIDE DEF moved, reserved
      <4>4. QED
        BY <4>2, <4>3
    <3>2. pos \in 0 .. Len(p) /\ count \in Nat /\ "none" \in ScanErrors
      BY <2>1, <1>1, <1>8 DEF ScanErrors
    <3> HIDE DEF reserved
    <3>3. QED
      BY <3>1, <3>2, <1>1 DEF Scan
  <2> HIDE DEF reserved
  <2>4. /\ r \in Scan(p)
        /\ r.room = reserved.room
        /\ Extends(r, reserved)
        /\ Len(p) <= IntMax /\ reserved.err # "panic" => r.err # "panic"
    BY <2>1, <2>3, StringsProperties
  <2>5. r.room <= Len(p)
    BY <2>2, <2>3, <2>4
  <2>6. Extends(r, scan)
    BY <2>3, <2>4, <1>8 DEF Extends
  <2>7. QED
    BY <2>3, <2>4, <2>5, <2>6, <1>8 DEF r
<1>9. QED
  BY <1>1, <1>6, <1>7, <1>8

\* A scan that has just begun.
LEMMA FromAndSkip ==
    ASSUME NEW p \in Seq(Nat), NEW n \in Nat
    PROVE  /\ From(0) \in Scan(p) /\ From(0).room = 0 /\ From(0).err = "none"
           /\ From(0).fields = <<>> /\ From(0).pos = 0
           /\ Skip(p, n) \in Scan(p) /\ Skip(p, n).room = 0 /\ Skip(p, n).err # "panic"
           /\ Skip(p, n).err = "none" =>
                 n <= Len(p) /\ Skip(p, n).pos = n /\ Skip(p, n).fields = <<>>
           /\ n <= Len(p) => Skip(p, n) = From(n)
<1>1. Len(p) \in Nat /\ <<>> \in Seq(Seq(Nat))
  BY LenProperties
<1>2. \A k \in 0 .. Len(p) : From(k) \in Scan(p)
  BY <1>1 DEF From, Scan, ScanErrors
<1>3. \A k : From(k).room = 0 /\ From(k).err = "none" /\ From(k).fields = <<>>
             /\ From(k).pos = k
  BY DEF From
<1>4. CASE Len(p) < n
  <2>1. Skip(p, n) = Fail(From(0), "truncated")
    BY <1>4 DEF Skip
  <2>2. Fail(From(0), "truncated") = [err |-> "truncated", pos |-> 0, fields |-> <<>>, room |-> 0]
    <3> DEFINE failed == [From(0) EXCEPT !.err = "truncated"]
    <3>1. failed = [err |-> "truncated", pos |-> 0, fields |-> <<>>, room |-> 0]
      BY DEF From
    <3>2. Fail(From(0), "truncated") = [failed EXCEPT !.fields = <<>>]
      BY DEF Fail
    <3> HIDE DEF failed
    <3>3. QED
      BY <3>1, <3>2
  <2>3. Skip(p, n) \in Scan(p)
    <3>1. 0 \in 0 .. Len(p) /\ "truncated" \in ScanErrors /\ 0 \in Nat
      BY <1>1 DEF ScanErrors
    <3>2. [err |-> "truncated", pos |-> 0, fields |-> <<>>, room |-> 0] \in Scan(p)
      BY <3>1, <1>1 DEF Scan
    <3>3. QED
      BY <2>1, <2>2, <3>2, Zenon
  <2>4. QED
    BY <2>1, <2>2, <2>3, <1>1, <1>2, <1>3, <1>4
<1>5. CASE n <= Len(p)
  <2>1. Skip(p, n) = From(n)
    BY <1>1, <1>5 DEF Skip
  <2>2. QED
    BY <2>1, <1>1, <1>2, <1>3, <1>5
<1>6. QED
  BY <1>1, <1>4, <1>5

\* A scan that has not left its input, nor reserved room beyond it.
Tame(scan, p) == scan.err # "panic" /\ scan.pos <= Len(p) /\ scan.room <= Len(p)

\* What the decoders promise of any input: a scan of it, with the fields of the
\* request if it succeeds.  (fuzz_test.go)
THEOREM DecodersScan ==
    ASSUME NEW p \in Seq(Nat)
    PROVE  /\ {DecodePublish(p), DecodePublishBatch(p), DecodeMessage(p),
               DecodeTopics(p), DecodeError(p)} \subseteq Scan(p)
           /\ DecodePublish(p).err = "none" => Len(DecodePublish(p).fields) = 2
           /\ DecodePublishBatch(p).err = "none" => Len(DecodePublishBatch(p).fields) >= 1
           /\ DecodeMessage(p).err = "none" => Len(DecodeMessage(p).fields) = 1
           /\ DecodeError(p).err = "none" => Len(DecodeError(p).fields) = 1
           /\ Len(p) <= IntMax =>
                 \A scan \in {DecodePublish(p), DecodePublishBatch(p), DecodeMessage(p),
                              DecodeTopics(p), DecodeError(p)} : Tame(scan, p)
<1> DEFINE topic == GetString(p, From(0))
<1>1. Len(p) \in Nat /\ \A scan \in Scan(p) : scan.pos <= Len(p) /\ scan.room \in Nat
                                              /\ Len(scan.fields) \in Nat
  BY LenProperties DEF Scan
<1>2. /\ From(0) \in Scan(p) /\ From(0).room = 0 /\ From(0).err = "none"
      /\ Len(From(0).fields) = 0
  BY FromAndSkip
<1>3. /\ topic \in Scan(p) /\ topic.room = 0
      /\ topic.err = "none" => Len(topic.fields) = 1
      /\ Len(p) <= IntMax => topic.err # "panic"
  <2>1. /\ topic.room = From(0).room
        /\ topic.err = "none" => Len(topic.fields) = Len(From(0).fields) + 1
        /\ Len(p) <= IntMax /\ From(0).err # "panic" => topic.err # "panic"
        /\ topic \in Scan(p)
    BY <1>2, GetStringProperties
  <2> HIDE DEF topic
  <2>2. topic.err = "none" => Len(topic.fields) = 1
    <3>1. 0 + 1 = 1
      OBVIOUS
    <3>2. topic.err = "none" => Len(topic.fields) = 0 + 1
      BY <1>2, <2>1, Zenon
    <3>3. QED
      BY <3>1, <3>2
  <2>3. Len(p) <= IntMax => topic.err # "panic"
    BY <1>2, <2>1
  <2>4. topic.room = 0
    BY <1>2, <2>1
  <2>9. QED
    BY <1>2, <2>1, <2>2, <2>3, <2>4
<1> HIDE DEF topic
<1>4. LET r == DecodePublish(p)
      IN  /\ r \in Scan(p)
          /\ r.err = "none" => Len(r.fields) = 2
          /\ Len(p) <= IntMax => Tame(r, p)
  <2> DEFINE r == DecodePublish(p)
  <2>1. r = GetString(p, topic)
    BY DEF DecodePublish, topic
  <2>2. /\ r \in Scan(p)
        /\ r.room = topic.room
        /\ r.err = "none" => topic.err = "none" /\ Len(r.fields) = Len(topic.fields) + 1
        /\ Len(p) <= IntMax /\ topic.err # "panic" => r.err # "panic"
    BY <2>1, <1>3, GetStringProperties
  <2> HIDE DEF r
  <2>3. r.err = "none" => Len(r.fields) = 2
    <3>1. 1 + 1 = 2
      OBVIOUS
    <3>2. r.err = "none" => Len(r.fields) = 1 + 1
      BY <2>2, <1>3, Zenon
    <3>3. QED
      BY <3>1, <3>2
  <2>4. Len(p) <= IntMax => Tame(r, p)
    BY <2>2, <1>1, <1>3 DEF Tame
  <2>5. QED
    BY <2>2, <2>3, <2>4 DEF r
<1>5. LET r == DecodePublishBatch(p)
      IN  /\ r \in Scan(p)
          /\ r.err = "none" => Len(r.fields) >= 1
          /\ Len(p) <= IntMax => Tame(r, p)
  <2> DEFINE r == DecodePublishBatch(p)
  <2>1. r = GetStrings(p, topic) /\ topic.room <= Len(p)
    BY <1>1, <1>3 DEF DecodePublishBatch, topic
  <2>2. /\ r \in Scan(p)
        /\ r.room <= Len(p)
        /\ Extends(r, topic)
        /\ Len(p) <= IntMax /\ topic.err # "panic" => r.err # "panic"
    BY <2>1, <1>3, GetStringsProperties
  <2> HIDE DEF r
  <2>3. QED
    BY <2>2, <1>1, <1>3 DEF Tame, Extends, r
<1>6. LET r == DecodeTopics(p)
      IN  r \in Scan(p) /\ (Len(p) <= IntMax => Tame(r, p))
  <2> DEFINE r == DecodeTopics(p)
  <2>1. r = GetStrings(p, From(0)) /\ From(0).room <= Len(p)
    BY <1>1, <1>2 DEF DecodeTopics
  <2>2. /\ r \in Scan(p)
        /\ r.room <= Len(p)
        /\ Len(p) <= IntMax /\ From(0).err # "panic" => r.err # "panic"
    BY <2>1, <1>2, GetStringsProperties
  <2> HIDE DEF r
  <2>3. QED
    BY <2>2, <1>1, <1>2 DEF Tame, r
<1>7. ASSUME NEW n \in Nat
      PROVE  LET r == GetString(p, Skip(p, n))
             IN  /\ r \in Scan(p)
                 /\ r.err = "none" => Len(r.fields) = 1
                 /\ Len(p) <= IntMax => Tame(r, p)
  <2> DEFINE from == Skip(p, n)
             r == GetString(p, from)
  <2>1. /\ from \in Scan(p) /\ from.room = 0 /\ from.err # "panic"
        /\ from.err = "none" => Len(from.fields) = 0
    BY FromAndSkip
  <2> HIDE DEF from
  <2>2. /\ r \in Scan(p)
        /\ r.room = from.room
        /\ r.err = "none" => from.err = "none" /\ Len(r.fields) = Len(from.fields) + 1
        /\ Len(p) <= IntMax /\ from.err # "panic" => r.err # "panic"
    BY <2>1, GetStringProperties
  <2> HIDE DEF r
  <2>3. r.err = "none" => Len(r.fields) = 1
    <3>1. 0 + 1 = 1
      OBVIOUS
    <3>2. r.err = "none" => Len(r.fields) = 0 + 1
      BY <2>1, <2>2, Zenon
    <3>3. QED
      BY <3>1, <3>2
  <2>4. Len(p) <= IntMax => Tame(r, p)
    BY <2>1, <2>2, <1>1 DEF Tame
  <2>5. QED
    BY <2>2, <2>3, <2>4 DEF r, from
<1>8. /\ DecodeMessage(p) = GetString(p, Skip(p, Len64)) /\ Len64 \in Nat
      /\ DecodeError(p) = GetString(p, Skip(p, Len16)) /\ Len16 \in Nat
  BY CodecAssumption DEF DecodeMessage, DecodeError
<1>9. QED
  BY <1>4, <1>5, <1>6, <1>7, <1>8

-----------------------------------------------------------------------------
\* Encoders

\* A sequence over a set is one over every larger set.
LEMMA WiderSeq ==
    ASSUME NEW S, NEW T, S \subseteq T, NEW s \in Seq(S)
    PROVE  s \in Seq(T)
<1>1. Len(s) \in Nat /\ s \in [1 .. Len(s) -> S]
  BY LenProperties
<1>2. s \in [1 .. Len(s) -> T]
  BY <1>1
<1>3. QED
  BY <1>1, <1>2, SeqDef

\* Concatenation of byte sequences.
LEMMA ConcatBytes ==
    ASSUME NEW S, NEW s \in Seq(S), NEW t \in Seq(S)
    PROVE  /\ s \o t \in Seq(S)
           /\ Len(s \o t) = Len(s) + Len(t)
           /\ \A i \in 1 .. Len(s) : (s \o t)[i] = s[i]
           /\ \A i \in 1 .. Len(t) : (s \o t)[Len(s) + i] = t[i]
           /\ Len(s) \in Nat /\ Len(t) \in Nat
<1>1. Len(s) \in Nat /\ Len(t) \in Nat
  BY LenProperties
<1>2. QED
  BY <1>1, ConcatProperties

\* FlattenSeq puts one sequence behind the other.
LEMMA FlattenUnfolds ==
    ASSUME NEW ss \in Seq(Seq(Nat))
    PROVE  \E v \in [0 .. Len(ss) -> Seq(Nat)] :
              /\ v[0] = <<>>
              /\ \A k \in 1 .. Len(ss) : v[k] = v[k - 1] \o ss[k]
              /\ FlattenSeq(ss) = v[Len(ss)]
<1> DEFINE n == Len(ss)
           B == Seq(Nat)
           h == [x \in Nat \X B |-> IF x[1] < n THEN x[2] \o ss[x[1] + 1] ELSE x[2]]
           F(it) == [i \in 1 .. n |-> IF i = 1 THEN ss[i] ELSE it[i - 1] \o ss[i]]
<1>1. n \in Nat /\ \A i \in 1 .. n : ss[i] \in Seq(Nat)
  BY LenProperties, ElementOfSeq
<1>2. <<>> \in B /\ h \in [Nat \X B -> B]
  <2>1. ASSUME NEW x \in Nat \X B, x[1] < n PROVE x[2] \o ss[x[1] + 1] \in B
    <3>1. x[2] \in Seq(Nat) /\ x[1] + 1 \in 1 .. n
      BY <2>1, <1>1
    <3>2. ss[x[1] + 1] \in Seq(Nat)
      BY <3>1, <1>1
    <3>3. QED
      BY <3>1, <3>2, ConcatBytes
  <2>2. ASSUME NEW x \in Nat \X B PROVE x[2] \in B
    OBVIOUS
  <2>3. <<>> \in Seq(Nat)
    OBVIOUS
  <2> HIDE DEF B
  <2>4. h \in [Nat \X B -> B]
    BY <2>1, <2>2
  <2>5. QED
    BY <2>3, <2>4 DEF B
<1>3. PICK f \in [Nat -> B] : f[0] = <<>> /\ \A k \in Nat : f[k + 1] = h[<<k, f[k]>>]
  <2> HIDE DEF B, h
  <2>1. PICK f \in [Nat -> B] : Follows(f, <<>>, h)
    BY <1>2, Recursion, Zenon
  <2>2. QED
    BY <2>1 DEF Follows
<1> HIDE DEF n, F
<1>4. ASSUME NEW k \in 1 .. n PROVE f[k] = f[k - 1] \o ss[k]
  <2>0. k - 1 \in Nat /\ (k - 1) + 1 = k /\ k - 1 < n
    BY <1>1
  <2>1. k - 1 \in Nat /\ (k - 1) + 1 = k /\ k - 1 < n /\ f[k - 1] \in B
    BY <2>0, <1>3
  <2>2. f[(k - 1) + 1] = h[<<k - 1, f[k - 1]>>]
    BY <2>1, <1>3
  <2>3. <<k - 1, f[k - 1]>> \in Nat \X B
    BY <2>1
  <2>4. h[<<k - 1, f[k - 1]>>] = f[k - 1] \o ss[(k - 1) + 1]
    BY <2>1, <2>3
  <2>5. QED
    BY <2>1, <2>2, <2>4
<1>5. \A k \in 0 .. n : f[k] \in Seq(Nat)
  BY <1>3
<1> DEFINE g == [i \in 1 .. n |-> f[i]]
<1>6. g = F(g)
  <2>1. ASSUME NEW i \in 1 .. n PROVE g[i] = F(g)[i]
    <3>1. CASE i = 1
      <4>0. 1 \in 1 .. n /\ 1 - 1 = 0
        BY <3>1
      <4>1. f[1] = f[0] \o ss[1] /\ 1 \in 1 .. n
        <5>1. f[1] = f[1 - 1] \o ss[1]
          BY <4>0, <1>4
        <5>2. QED
          BY <5>1, <4>0
      <4>2. \A s \in Seq(Nat) : <<>> \o s = s
        BY ConcatEmptySeq
      <4>3. <<>> \o ss[1] = ss[1]
        BY <4>1, <4>2, <1>1
      <4>4. f[1] = ss[1]
        BY <4>1, <4>3, <1>3
      <4>5. QED
        BY <3>1, <4>1, <4>4 DEF F
    <3>2. CASE i # 1
      <4>0. i - 1 \in 1 .. n
        BY <3>2, <1>1
      <4>1. i - 1 \in 1 .. n /\ f[i] = f[i - 1] \o ss[i]
        BY <4>0, <1>4
      <4>2. g[i - 1] = f[i - 1] /\ g[i] = f[i]
        BY <4>1
      <4>3. F(g)[i] = g[i - 1] \o ss[i]
        BY <3>2 DEF F
      <4> HIDE DEF g, F
      <4>4. QED
        BY <4>1, <4>2, <4>3
    <3>3. QED
      BY <3>1, <3>2
  <2>2. QED
    BY <2>1 DEF F
<1> DEFINE it == CHOOSE q : q = F(q)
<1>7. it = F(it)
  <2> HIDE DEF F
  <2>1. QED
    BY <1>6, Zenon
<1>8. n # 0 => FlattenSeq(ss) = it[n]
  BY <1>1 DEF FlattenSeq, n, F
<1> HIDE DEF it
<1>9. \A i \in 1 .. n : it[i] = IF i = 1 THEN ss[i] ELSE it[i - 1] \o ss[i]
  BY <1>7 DEF F
<1>10. \A i \in 1 .. n : g[i] = IF i = 1 THEN ss[i] ELSE g[i - 1] \o ss[i]
  <2> HIDE DEF g
  <2>1. QED
    BY <1>6 DEF F
<1> HIDE <1>7
<1>11. n # 0 => it[n] = f[n]
  <2> HIDE DEF g
  <2> DEFINE Z == {k \in Nat : k + 1 \in 1 .. n => it[k + 1] = g[k + 1]}
  <2>1. 0 \in Z
    <3>1. 0 + 1 = 1
      OBVIOUS
    <3>2. QED
      BY <3>1, <1>9, <1>10
  <2>2. ASSUME NEW k \in Nat, k \in Z PROVE k + 1 \in Z
    <3> DEFINE j == (k + 1) + 1
    <3>1. ASSUME j \in 1 .. n PROVE it[j] = g[j]
      <4>1. j # 1 /\ j - 1 = k + 1 /\ k + 1 \in 1 .. n
        BY <3>1, <1>1
      <4>2. it[k + 1] = g[k + 1]
        BY <2>2, <4>1
      <4> HIDE DEF j
      <4>3. it[j] = it[j - 1] \o ss[j] /\ g[j] = g[j - 1] \o ss[j]
        BY <3>1, <4>1, <1>9, <1>10
      <4>4. QED
        BY <4>1, <4>2, <4>3
    <3>2. k + 1 \in Nat
      OBVIOUS
    <3>3. QED
      BY <3>1, <3>2
  <2>3. Nat \subseteq Z
    BY <2>1, <2>2, Induction, Zenon
  <2>4. n # 0 => n - 1 \in Nat /\ (n - 1) + 1 = n /\ n \in 1 .. n
    BY <1>1
  <2>5. n # 0 => it[n] = g[n]
    BY <2>3, <2>4
  <2>6. QED
    BY <2>4, <2>5 DEF g
<1>12. n = 0 => FlattenSeq(ss) = <<>>
  BY <1>1, EmptySeq DEF FlattenSeq, n
<1> DEFINE v == [k \in 0 .. n |-> f[k]]
<1>13. v \in [0 .. n -> Seq(Nat)] /\ v[0] = <<>> /\ v[n] = FlattenSeq(ss)
  <2>1. v \in [0 .. n -> Seq(Nat)]
    BY <1>5
  <2>2. v[0] = f[0] /\ v[n] = f[n]
    BY <1>1
  <2> HIDE DEF v
  <2>3. QED
    BY <2>1, <2>2, <1>3, <1>8, <1>11, <1>12
<1>14. ASSUME NEW k \in 1 .. n PROVE v[k] = v[k - 1] \o ss[k]
  <2>1. v[k] = f[k] /\ v[k - 1] = f[k - 1]
    BY <1>1
  <2>2. QED
    BY <2>1, <1>4
<1>15. QED
  BY <1>13, <1>14 DEF n

\* A string on the wire.
LEMMA PutStringBytes ==
    ASSUME NEW s \in Seq(Nat)
    PROVE  PutString(s) \in Seq(Nat) /\ Len(PutString(s)) = Len32 + Len(s)
<1>1. Len(s) \in Nat /\ Len32 \in Nat
  BY LenProperties, CodecAssumption
<1>2. Put(Len(s), Len32) \in Seq(Nat) /\ Len(Put(Len(s), Len32)) = Len32
  BY <1>1, PutBytes
<1>3. QED
  BY <1>2, ConcatBytes DEF PutString

\* Sequences of bytes are flattened to bytes.
LEMMA FlattenBytes ==
    ASSUME NEW ss \in Seq(Seq(Nat))
    PROVE  FlattenSeq(ss) \in Seq(Nat)
<1>1. Len(ss) \in Nat
  BY LenProperties
<1>2. PICK v \in [0 .. Len(ss) -> Seq(Nat)] : FlattenSeq(ss) = v[Len(ss)]
  BY FlattenUnfolds
<1>3. QED
  BY <1>1, <1>2

\* The strings of a list, as they are on the wire.
Put1(ss) == [i \in DOMAIN ss |-> PutString(ss[i])]

\* A list of strings on the wire.
LEMMA PutStringsBytes ==
    ASSUME NEW ss \in Seq(Seq(Nat))
    PROVE  PutStrings(ss) \in Seq(Nat) /\ Put1(ss) \in Seq(Seq(Nat))
<1>1. Len(ss) \in Nat /\ DOMAIN ss = 1 .. Len(ss) /\ Len32 \in Nat
      /\ \A i \in 1 .. Len(ss) : ss[i] \in Seq(Nat)
  BY LenProperties, ElementOfSeq, CodecAssumption
<1>2. \A i \in 1 .. Len(ss) : PutString(ss[i]) \in Seq(Nat)
  BY <1>1, PutStringBytes
<1>3. Put1(ss) \in Seq(Seq(Nat))
  BY <1>1, <1>2 DEF Put1
<1>4. FlattenSeq(Put1(ss)) \in Seq(Nat)
  BY <1>3, FlattenBytes
<1>5. Put(Len(ss), Len32) \in Seq(Nat)
  BY <1>1, PutBytes
<1>6. PutStrings(ss) = Put(Len(ss), Len32) \o FlattenSeq(Put1(ss))
  BY DEF PutStrings, Put1
<1>7. QED
  BY <1>3, <1>4, <1>5, <1>6, ConcatBytes

\* A frame on the wire.
LEMMA FrameBytes ==
    ASSUME NEW op \in Nat, NEW payload \in Seq(Nat)
    PROVE  /\ EncodeFrame(op, payload) \in Seq(Nat)
           /\ Len(EncodeFrame(op, payload)) = HeaderLen + Len(payload)
           /\ Header(op, Len(payload)) \in Seq(Nat)
           /\ Len(Header(op, Len(payload))) = HeaderLen
           /\ HeaderLen \in Nat
<1>1. Len(payload) \in Nat /\ Len32 \in Nat /\ {Magic, Version} \subseteq Nat
  BY LenProperties, CodecAssumption
<1>2. Put(Len(payload), Len32) \in Seq(Nat) /\ Len(Put(Len(payload), Len32)) = Len32
  BY <1>1, PutBytes
<1>3. <<Magic, Version, op>> \in Seq(Nat) /\ Len(<<Magic, Version, op>>) = 3
  BY <1>1
<1>4. Header(op, Len(payload)) \in Seq(Nat) /\ Len(Header(op, Len(payload))) = HeaderLen
  BY <1>2, <1>3, ConcatBytes DEF Header, HeaderLen
<1>5. HeaderLen \in Nat
  BY <1>1 DEF HeaderLen
<1>6. QED
  BY <1>4, <1>5, ConcatBytes DEF EncodeFrame

\* What ReadFrame returns is part of the stream, and the rest is what
\* AfterFrame leaves.  No length makes it panic.
LEMMA ReadFrameProperties ==
    ASSUME NEW S, S \subseteq Nat, NEW stream \in Seq(S)
    PROVE  LET r == ReadFrame(stream)
           IN  /\ r.err \in {"none", "truncated", "magic", "version", "toolarge"}
               /\ r.payload \in Seq(S)
               /\ r.err = "none" =>
                     /\ r.op \in S
                     /\ Len(r.payload) <= MaxPayload
                     /\ HeaderLen + Len(r.payload) <= Len(stream)
                     /\ AfterFrame(stream) \in Seq(S)
                     /\ Len(AfterFrame(stream)) = Len(stream) - (HeaderLen + Len(r.payload))
<1> DEFINE header == ReadHeader(stream)
           n == At(stream, 3, Len32)
           r == ReadFrame(stream)
<1>1. /\ Len(stream) \in Nat /\ Len32 \in Nat /\ HeaderLen = 3 + Len32 /\ HeaderLen \in Nat
      /\ MaxPayload \in Nat /\ IntMax \in Nat /\ MaxPayload <= IntMax
      /\ \A i \in 1 .. Len(stream) : stream[i] \in S
  BY LenProperties, ElementOfSeq, CodecAssumption DEF HeaderLen
<1>2. stream \in Seq(Nat)
  BY WiderSeq
<1>3. Len(stream) >= HeaderLen => n \in Nat
  BY <1>1, <1>2, AtIsNat
<1>4. /\ header.err \in {"none", "truncated", "magic", "version", "toolarge"}
      /\ header.err = "none" =>
            /\ Len(stream) >= HeaderLen
            /\ ~(n > MaxPayload)
            /\ header = [err |-> "none", op |-> stream[3], n |-> ToInt(n)]
  BY <1>1 DEF ReadHeader, TooLong
<1> HIDE DEF n
<1>5. header.err = "none" =>
          header.n = n /\ n \in Nat /\ n <= MaxPayload /\ header.op \in S
  BY <1>1, <1>3, <1>4, ToIntProperties
<1>6. r = IF header.err # "none" THEN [err |-> header.err, op |-> 0, payload |-> <<>>]
          ELSE IF header.n < 0 THEN [err |-> "panic", op |-> 0, payload |-> <<>>]
          ELSE IF Len(stream) < HeaderLen + header.n
               THEN [err |-> "truncated", op |-> 0, payload |-> <<>>]
          ELSE [err |-> "none", op |-> header.op,
                payload |-> SubSeq(stream, HeaderLen + 1, HeaderLen + header.n)]
  BY DEF ReadFrame
<1> HIDE DEF header
<1>7. <<>> \in Seq(S)
  OBVIOUS
<1>8. CASE header.err # "none"
  BY <1>4, <1>6, <1>7, <1>8
<1>9. CASE header.err = "none" /\ Len(stream) < HeaderLen + n
  <2>1. ~(header.n < 0)
    BY <1>5, <1>9
  <2>2. QED
    BY <2>1, <1>5, <1>6, <1>7, <1>9
<1>10. CASE header.err = "none" /\ ~(Len(stream) < HeaderLen + n)
  <2>1. ~(header.n < 0) /\ n \in Nat /\ header.n = n
    BY <1>5, <1>10
  <2>2. r = [err |-> "none", op |-> header.op,
             payload |-> SubSeq(stream, HeaderLen + 1, HeaderLen + n)]
    BY <2>1, <1>6, <1>10
  <2>3. HeaderLen + n \in Nat /\ HeaderLen <= HeaderLen + n /\ HeaderLen + n <= Len(stream)
        /\ (HeaderLen + n) - HeaderLen = n
    BY <2>1, <1>1, <1>10
  <2>4. /\ SubSeq(stream, HeaderLen + 1, HeaderLen + n) \in Seq(S)
        /\ Len(SubSeq(stream, HeaderLen + 1, HeaderLen + n)) = n
    BY <2>3, <1>1, PartOfSeq
  <2>5. r.err = "none" /\ r.op \in S /\ r.payload \in Seq(S) /\ Len(r.payload) = n
    BY <2>2, <2>4, <1>5, <1>10
  <2>6. AfterFrame(stream) = SubSeq(stream, (HeaderLen + n) + 1, Len(stream))
    BY <2>5 DEF AfterFrame
  <2>7. /\ AfterFrame(stream) \in Seq(S)
        /\ Len(AfterFrame(stream)) = Len(stream) - (HeaderLen + n)
    BY <2>3, <2>6, <1>1, PartOfSeq
  <2>8. QED
    BY <2>1, <2>3, <2>5, <2>7, <1>5, <1>10
<1>11. QED
  BY <1>8, <1>9, <1>10

\* A pushed message on the wire: any that is within MaxMessage makes a payload
\* within MaxPayload.
LEMMA MessageBytes ==
    ASSUME NEW offset \in Nat, NEW payload \in Seq(Nat)
    PROVE  /\ EncodeMessage(offset, payload) \in Seq(Nat)
           /\ Len(EncodeMessage(offset, payload)) = MetaLen + Len(payload)
           /\ Len(payload) <= MaxMessage <=> Fits(EncodeMessage(offset, payload))
<1>1. Len(payload) \in Nat /\ Len64 \in Nat /\ Len32 \in Nat /\ MaxPayload \in Nat
  BY LenProperties, CodecAssumption
<1>2. Put(offset, Len64) \in Seq(Nat) /\ Len(Put(offset, Len64)) = Len64
  BY <1>1, PutBytes
<1>3. PutString(payload) \in Seq(Nat) /\ Len(PutString(payload)) = Len32 + Len(payload)
  BY PutStringBytes
<1>4. /\ EncodeMessage(offset, payload) \in Seq(Nat)
      /\ Len(EncodeMessage(offset, payload)) = Len64 + (Len32 + Len(payload))
  BY <1>2, <1>3, ConcatBytes, ZenonT(30) DEF EncodeMessage
<1>5. QED
  BY <1>1, <1>4 DEF MetaLen, MaxMessage, Fits

\* A frame that is cut off in its payload is shorter than the longest frame.
LEMMA TruncatedFrame ==
    ASSUME NEW stream \in Seq(Nat),
           ReadHeader(stream).err = "none", ReadFrame(stream).err = "truncated"
    PROVE  Len(stream) < HeaderLen + MaxPayload
<1> DEFINE header == ReadHeader(stream)
           n == At(stream, 3, Len32)
<1>1. /\ Len(stream) \in Nat /\ Len32 \in Nat /\ HeaderLen = 3 + Len32 /\ HeaderLen \in Nat
      /\ MaxPayload \in Nat /\ IntMax \in Nat /\ MaxPayload <= IntMax
  BY LenProperties, CodecAssumption DEF HeaderLen
<1>2. Len(stream) >= HeaderLen => n \in Nat
  BY <1>1, AtIsNat
<1>3. header.err = "none" =>
          /\ Len(stream) >= HeaderLen
          /\ ~(n > MaxPayload)
          /\ header = [err |-> "none", op |-> stream[3], n |-> ToInt(n)]
  BY <1>1 DEF ReadHeader, TooLong
<1> HIDE DEF n
<1>4. header.n = n /\ n \in Nat /\ n <= MaxPayload
  BY <1>1, <1>2, <1>3, ToIntProperties, SMTT(30)
<1>5. ReadFrame(stream).err = "truncated" => Len(stream) < HeaderLen + header.n
  <2>1. ~(header.n < 0)
    BY <1>4
  <2> HIDE DEF header
  <2>2. ReadFrame(stream)
            = IF header.err # "none" THEN [err |-> header.err, op |-> 0, payload |-> <<>>]
              ELSE IF header.n < 0 THEN [err |-> "panic", op |-> 0, payload |-> <<>>]
              ELSE IF Len(stream) < HeaderLen + header.n
                   THEN [err |-> "truncated", op |-> 0, payload |-> <<>>]
              ELSE [err |-> "none", op |-> header.op,
                    payload |-> SubSeq(stream, HeaderLen + 1, HeaderLen + header.n)]
    BY DEF ReadFrame, header
  <2>3. header.err = "none"
    BY DEF header
  <2>4. QED
    BY <2>1, <2>2, <2>3
<1>6. QED
  BY <1>1, <1>4, <1>5

\* The requests on the wire.
LEMMA RequestBytes ==
    ASSUME NEW topic \in Seq(Nat), NEW payloads \in Seq(Seq(Nat))
    PROVE  /\ EncodePublishBatch(topic, payloads) \in Seq(Nat)
           /\ \A i \in 1 .. Len(payloads) : EncodePublish(topic, payloads[i]) \in Seq(Nat)
<1>1. PutString(topic) \in Seq(Nat) /\ PutStrings(payloads) \in Seq(Nat)
  BY PutStringBytes, PutStringsBytes
<1>2. \A i \in 1 .. Len(payloads) : payloads[i] \in Seq(Nat)
  BY ElementOfSeq
<1>3. \A i \in 1 .. Len(payloads) : PutString(payloads[i]) \in Seq(Nat)
  BY <1>2, PutStringBytes
<1>4. QED
  BY <1>1, <1>3, ConcatBytes DEF EncodePublishBatch, EncodePublish


-----------------------------------------------------------------------------
\* What a decoder finds is there

\* The other round trip of an integer: the bytes that are read as a number are
\* those that the number is written as.
LEMMA PutOfNumber ==
    ASSUME NEW s \in Seq(Byte)
    PROVE  Number(s) \in Nat /\ Put(Number(s), Len(s)) = s
<1>1. Base \in Nat \ {0} /\ Byte \subseteq Nat /\ \A i \in Nat : Power[i] \in Nat \ {0}
  <2>1. Base \in Nat \ {0}
    BY CodecAssumption
  <2>2. Byte \subseteq Nat
    BY <2>1 DEF Byte
  <2>3. \A i \in Nat : Power[i] \in Nat \ {0}
    BY Powers
  <2>4. QED
    BY <2>1, <2>2, <2>3
<1>2. s \in Seq(Nat) /\ Len(s) \in Nat /\ \A i \in 1 .. Len(s) : s[i] \in 0 .. Base - 1
  <2>1. \A i \in 1 .. Len(s) : s[i] \in Byte
    BY ElementOfSeq
  <2>2. QED
    BY <2>1, <1>1, WiderSeq, LenProperties DEF Byte
<1> DEFINE n == Number(s)
           w == Len(s)
<1>3. n \in Nat
  BY <1>2, NumberIsNat
<1>4. PICK v \in [1 .. w + 1 -> Nat] :
          /\ \A k \in 1 .. w : v[k] = s[k] + Base * v[k + 1]
          /\ n = v[1]
  BY <1>2, NumberUnfolds
<1> HIDE DEF n, w
<1>5. w \in Nat /\ w = Len(s)
  BY <1>2 DEF w
<1>6. \A a \in Nat, b \in Nat \ {0} : \A d \in 0 .. b - 1 :
          (d + b * a) \div b = a /\ (d + b * a) % b = d
  BY SMTT(30)
<1> DEFINE Z == {k \in Nat : k <= w => n \div Power[k] = v[k + 1]}
<1>7. 0 \in Z
  <2>1. n \div 1 = n /\ 0 + 1 = 1
    BY <1>3
  <2>2. n \div Power[0] = v[0 + 1]
    BY <2>1, <1>4, Powers, Zenon
  <2>3. QED
    BY <2>2
<1>8. ASSUME NEW k \in Nat, k \in Z PROVE k + 1 \in Z
  <2> SUFFICES ASSUME k + 1 <= w PROVE n \div Power[k + 1] = v[(k + 1) + 1]
    OBVIOUS
  <2>1. k + 1 \in 1 .. w /\ (k + 1) + 1 \in 1 .. w + 1
    BY <1>5
  <2>2. v[k + 1] = s[k + 1] + Base * v[(k + 1) + 1] /\ v[(k + 1) + 1] \in Nat
        /\ s[k + 1] \in 0 .. Base - 1
    BY <2>1, <1>2, <1>4, <1>5
  <2>3. n \div Power[k] = v[k + 1]
    BY <2>1, <1>5, <1>8
  <2>4. Power[k + 1] = Base * Power[k] /\ Power[k] \in Nat \ {0}
    BY Powers
  <2>5. \A b, c \in Nat \ {0} : n \div (b * c) = (n \div c) \div b
    BY <1>3, SMTT(30)
  <2>6. n \div Power[k + 1] = v[k + 1] \div Base
    BY <2>3, <2>4, <2>5, <1>1
  <2>7. v[k + 1] \div Base = v[(k + 1) + 1]
    <3>1. (s[k + 1] + Base * v[(k + 1) + 1]) \div Base = v[(k + 1) + 1]
      BY <2>2, <1>1, <1>6, Zenon
    <3>2. QED
      BY <2>2, <3>1, Zenon
  <2>8. QED
    BY <2>6, <2>7
<1>9. Nat \subseteq Z
  BY <1>7, <1>8, Induction, Zenon
<1>10. ASSUME NEW i \in 1 .. w PROVE Put(n, w)[i] = s[i]
  <2>1. i - 1 \in Z /\ (i - 1) + 1 = i /\ i - 1 <= w /\ i + 1 \in 1 .. w + 1
    BY <1>5, <1>9
  <2>2. n \div Power[i - 1] = v[i]
    BY <2>1
  <2>3. v[i] = s[i] + Base * v[i + 1] /\ v[i + 1] \in Nat /\ s[i] \in 0 .. Base - 1
    BY <2>1, <1>2, <1>4, <1>5
  <2>4. v[i] % Base = s[i]
    <3>1. (s[i] + Base * v[i + 1]) % Base = s[i]
      BY <2>3, <1>1, <1>6, Zenon
    <3>2. QED
      BY <2>3, <3>1, Zenon
  <2>5. Put(n, w)[i] = (n \div Power[i - 1]) % Base
    BY <1>3, <1>5, PutBytes
  <2>6. QED
    BY <2>2, <2>4, <2>5
<1>11. Put(n, w) \in Seq(Byte) /\ Len(Put(n, w)) = w
  BY <1>3, <1>5, PutBytes
<1>12. Put(n, w) = s
  BY <1>5, <1>10, <1>11, SeqEqual
<1>13. QED
  BY <1>3, <1>12 DEF n, w

\* The bytes s are in p behind position pos.
Holds(p, pos, s) == pos + Len(s) <= Len(p) /\ \A i \in 1 .. Len(s) : p[pos + i] = s[i]

\* What is there at the beginning is a prefix.
LEMMA HoldsIsPrefix ==
    ASSUME NEW p \in Seq(Nat), NEW s \in Seq(Nat), Holds(p, 0, s)
    PROVE  IsPrefix(s, p)
<1>1. Len(p) \in Nat /\ Len(s) \in Nat
  BY LenProperties
<1>2. Len(s) <= Len(p) /\ \A i \in 1 .. Len(s) : p[i] = s[i]
  BY <1>1 DEF Holds
<1>3. SubSeq(s, 1, Len(s)) = s
  BY SubSeqFull
<1>4. /\ SubSeq(p, 0 + 1, Len(s)) \in Seq(Nat)
      /\ Len(SubSeq(p, 0 + 1, Len(s))) = Len(s) - 0
      /\ \A k \in 1 .. Len(s) - 0 : SubSeq(p, 0 + 1, Len(s))[k] = p[0 + k]
  BY <1>1, <1>2, PartOfSeq
<1>5. 0 + 1 = 1
  OBVIOUS
<1> DEFINE t == SubSeq(p, 1, Len(s))
<1>6. t \in Seq(Nat) /\ Len(t) = Len(s) - 0 /\ \A k \in 1 .. Len(s) - 0 : t[k] = p[0 + k]
  BY <1>4, <1>5, Zenon
<1> HIDE DEF t
<1>7. Len(t) = Len(s) /\ \A k \in 1 .. Len(s) : t[k] = s[k]
  BY <1>1, <1>2, <1>6
<1>8. t = s
  BY <1>6, <1>7, SeqEqual
<1>9. QED
  BY <1>2, <1>3, <1>8 DEF IsPrefix, t

\* One thing behind the other.
LEMMA HoldsBoth ==
    ASSUME NEW p \in Seq(Nat), NEW pos \in Nat, NEW s \in Seq(Nat), NEW t \in Seq(Nat)
    PROVE  Holds(p, pos, s \o t) <=> Holds(p, pos, s) /\ Holds(p, pos + Len(s), t)
<1>1. /\ Len(s \o t) = Len(s) + Len(t) /\ Len(s) \in Nat /\ Len(t) \in Nat /\ Len(p) \in Nat
      /\ \A i \in 1 .. Len(s) : (s \o t)[i] = s[i]
      /\ \A i \in 1 .. Len(t) : (s \o t)[Len(s) + i] = t[i]
  BY ConcatBytes, LenProperties
<1> DEFINE u == s \o t
<1> HIDE DEF u
<1>2. /\ Len(u) = Len(s) + Len(t)
      /\ \A i \in 1 .. Len(s) : u[i] = s[i]
      /\ \A i \in 1 .. Len(t) : u[Len(s) + i] = t[i]
  BY <1>1 DEF u
<1>3. ASSUME Holds(p, pos, u) PROVE Holds(p, pos, s) /\ Holds(p, pos + Len(s), t)
  <2>1. /\ pos + (Len(s) + Len(t)) <= Len(p)
        /\ \A i \in 1 .. Len(s) + Len(t) : p[pos + i] = u[i]
    BY <1>2, <1>3 DEF Holds
  <2>2. \A i \in 1 .. Len(s) : p[pos + i] = s[i]
    BY <2>1, <1>1, <1>2, SMTT(30)
  <2>3. ASSUME NEW i \in 1 .. Len(t) PROVE p[(pos + Len(s)) + i] = t[i]
    <3>1. Len(s) + i \in 1 .. Len(s) + Len(t) /\ (pos + Len(s)) + i = pos + (Len(s) + i)
      BY <1>1
    <3>2. p[pos + (Len(s) + i)] = u[Len(s) + i]
      BY <2>1, <3>1
    <3>3. QED
      BY <3>1, <3>2, <1>2
  <2>4. pos + Len(s) <= Len(p) /\ (pos + Len(s)) + Len(t) <= Len(p)
    BY <2>1, <1>1
  <2>5. QED
    BY <2>2, <2>3, <2>4 DEF Holds
<1>4. ASSUME Holds(p, pos, s), Holds(p, pos + Len(s), t) PROVE Holds(p, pos, u)
  <2>1. /\ \A i \in 1 .. Len(s) : p[pos + i] = s[i]
        /\ \A i \in 1 .. Len(t) : p[(pos + Len(s)) + i] = t[i]
        /\ (pos + Len(s)) + Len(t) <= Len(p)
    BY <1>4 DEF Holds
  <2>2. ASSUME NEW i \in 1 .. Len(u) PROVE p[pos + i] = u[i]
    <3>1. CASE i \in 1 .. Len(s)
      BY <3>1, <2>1, <1>2
    <3>2. CASE i - Len(s) \in 1 .. Len(t)
      <4>1. (pos + Len(s)) + (i - Len(s)) = pos + i /\ Len(s) + (i - Len(s)) = i
        BY <1>1
      <4>2. p[(pos + Len(s)) + (i - Len(s))] = t[i - Len(s)]
            /\ u[Len(s) + (i - Len(s))] = t[i - Len(s)]
        BY <3>2, <2>1, <1>2
      <4>3. QED
        BY <4>1, <4>2
    <3>3. QED
      BY <3>1, <3>2, <1>1, <1>2
  <2>3. pos + Len(u) <= Len(p)
    BY <2>1, <1>1, <1>2
  <2>4. QED
    BY <2>2, <2>3 DEF Holds
<1>5. QED
  BY <1>3, <1>4 DEF u

\* What is part of p is there.
LEMMA HoldsPart ==
    ASSUME NEW p \in Seq(Nat), NEW i \in Nat, NEW j \in Nat, i <= j, j <= Len(p)
    PROVE  Holds(p, i, SubSeq(p, i + 1, j))
<1>1. /\ Len(SubSeq(p, i + 1, j)) = j - i
      /\ \A k \in 1 .. j - i : SubSeq(p, i + 1, j)[k] = p[i + k]
  BY PartOfSeq
<1>2. Len(p) \in Nat
  BY LenProperties
<1>3. QED
  BY <1>1, <1>2 DEF Holds

\* What is there can be cut out.
LEMMA PartHeld ==
    ASSUME NEW p \in Seq(Nat), NEW pos \in Nat, NEW s \in Seq(Nat), Holds(p, pos, s)
    PROVE  SubSeq(p, pos + 1, pos + Len(s)) = s
<1>1. Len(p) \in Nat /\ Len(s) \in Nat /\ pos + Len(s) <= Len(p)
      /\ \A i \in 1 .. Len(s) : p[pos + i] = s[i]
  BY LenProperties DEF Holds
<1> DEFINE j == pos + Len(s)
           t == SubSeq(p, pos + 1, j)
<1>2. j \in Nat /\ pos <= j /\ j <= Len(p) /\ j - pos = Len(s)
  BY <1>1
<1> HIDE DEF j
<1>3. /\ t \in Seq(Nat) /\ Len(t) = j - pos
      /\ \A k \in 1 .. j - pos : t[k] = p[pos + k]
  BY <1>2, PartOfSeq
<1> HIDE DEF t
<1>4. Len(t) = Len(s) /\ \A i \in 1 .. Len(t) : t[i] = s[i]
  BY <1>1, <1>2, <1>3
<1>5. t = s
  BY <1>3, <1>4, SeqEqual
<1>6. QED
  BY <1>5 DEF t, j


\* The scan with one more field.
Found(scan, x) ==
    [err |-> "none", pos |-> scan.pos + (Len32 + Len(x)),
     fields |-> Append(scan.fields, x), room |-> scan.room]

\* What GetString does to an input that an int can count.
LEMMA GetStringFinds ==
    ASSUME NEW p \in Seq(Nat), Len(p) <= IntMax, NEW scan \in Scan(p), scan.err = "none"
    PROVE  LET pos == scan.pos + Len32
               n == At(p, scan.pos, Len32)
               r == GetString(p, scan)
           IN  /\ pos \in Nat
               /\ pos <= Len(p) => n \in Nat
               /\ pos <= Len(p) /\ pos + n <= Len(p) => r = Found(scan, SubSeq(p, pos + 1, pos + n))
               /\ r.err = "none" => pos <= Len(p) /\ pos + n <= Len(p)
<1> DEFINE pos == scan.pos + Len32
           n == At(p, scan.pos, Len32)
           r == GetString(p, scan)
<1>1. /\ Len(p) \in Nat /\ scan.pos \in Nat /\ Len32 \in Nat /\ pos \in Nat /\ IntMax \in Nat
      /\ scan.fields \in Seq(Seq(Nat))
      /\ scan = [err |-> scan.err, pos |-> scan.pos, fields |-> scan.fields, room |-> scan.room]
  BY LenProperties, CodecAssumption DEF Scan
<1>2. pos <= Len(p) => n \in Nat
  BY <1>1, AtIsNat
<1>3. /\ Len(p) < pos => r = Fail(scan, "truncated")
      /\ Len(p) >= pos =>
            r = IF n > Len(p) - pos THEN Fail(scan, "truncated") ELSE Slice(p, scan, pos, n)
  BY <1>1 DEF GetString, Cut
<1>4. Fail(scan, "truncated").err = "truncated"
  BY <1>1 DEF Fail
<1> HIDE DEF r, n, pos
<1>5. ASSUME pos <= Len(p), pos + n <= Len(p)
      PROVE  r = Found(scan, SubSeq(p, pos + 1, pos + n))
  <2> DEFINE x == SubSeq(p, pos + 1, pos + n)
  <2>1. n \in Nat /\ pos + n \in Nat /\ pos <= pos + n
    BY <1>1, <1>2, <1>5
  <2>2. n <= IntMax /\ ~(n > Len(p) - pos)
    BY <2>1, <1>1, <1>5
  <2>3. ToInt(n) = n
    BY <2>1, <2>2, ToIntProperties
  <2>4. r = Slice(p, scan, pos, n)
    BY <2>2, <1>1, <1>3, <1>5
  <2>5. r = [scan EXCEPT !.pos = pos + n, !.fields = Append(@, x)]
    BY <2>1, <2>3, <2>4, <1>5 DEF Slice
  <2>6. Len(x) = n
    <3>1. Len(x) = (pos + n) - pos
      BY <2>1, <1>1, <1>5, PartOfSeq
    <3>2. (pos + n) - pos = n
      BY <2>1, <1>1
    <3>3. QED
      BY <3>1, <3>2
  <2> HIDE DEF x
  <2>7. r = [err |-> "none", pos |-> pos + n, fields |-> Append(scan.fields, x),
             room |-> scan.room]
    <3> DEFINE moved == [scan EXCEPT !.pos = pos + n]
    <3>1. moved = [err |-> "none", pos |-> pos + n, fields |-> scan.fields, room |-> scan.room]
      <4>1. scan = [err |-> "none", pos |-> scan.pos, fields |-> scan.fields,
                    room |-> scan.room]
        BY <1>1
      <4>2. QED
        BY <4>1
    <3>2. r = [moved EXCEPT !.fields = Append(@, x)]
      BY <2>5
    <3> HIDE DEF moved
    <3>3. QED
      BY <3>1, <3>2
  <2>8. pos + n = scan.pos + (Len32 + Len(x))
    BY <2>1, <2>6, <1>1 DEF pos
  <2>9. r = Found(scan, x)
    BY <2>7, <2>8, Zenon DEF Found
  <2>10. QED
    BY <2>9 DEF x
<1>6. ASSUME r.err = "none" PROVE pos <= Len(p) /\ pos + n <= Len(p)
  <2>1. pos <= Len(p)
    BY <1>1, <1>3, <1>4, <1>6
  <2>2. ~(n > Len(p) - pos)
    BY <2>1, <1>1, <1>3, <1>4, <1>6
  <2>3. QED
    BY <2>1, <2>2, <1>1, <1>2
<1>7. QED
  BY <1>1, <1>2, <1>5, <1>6 DEF r, n, pos

\* A field that GetString has found is there, with its length before it.
LEMMA StringIsThere ==
    ASSUME NEW p \in Seq(Byte), Len(p) <= IntMax, NEW scan \in Scan(p),
           GetString(p, scan).err = "none"
    PROVE  \E x \in Seq(Byte) :
              /\ GetString(p, scan) = Found(scan, x)
              /\ Holds(p, scan.pos, PutString(x))
<1> DEFINE pos == scan.pos + Len32
           n == At(p, scan.pos, Len32)
           x == SubSeq(p, pos + 1, pos + n)
           digits == SubSeq(p, scan.pos + 1, pos)
<1>1. Byte \subseteq Nat /\ p \in Seq(Nat) /\ Len(p) \in Nat
      /\ scan.pos \in Nat /\ Len32 \in Nat
  <2>1. Byte \subseteq Nat
    BY CodecAssumption DEF Byte
  <2>2. p \in Seq(Nat) /\ Len(p) \in Nat
    BY <2>1, WiderSeq, LenProperties
  <2>3. scan.pos \in Nat /\ Len32 \in Nat
    BY <2>2, CodecAssumption DEF Scan
  <2>4. QED
    BY <2>1, <2>2, <2>3
<1>2. scan.err = "none"
  BY <1>1, GetStringProperties
<1>3. /\ pos \in Nat /\ n \in Nat /\ pos <= Len(p) /\ pos + n <= Len(p)
      /\ GetString(p, scan) = Found(scan, x)
  BY <1>1, <1>2, GetStringFinds
<1>4. digits \in Seq(Byte) /\ Len(digits) = Len32 /\ Holds(p, scan.pos, digits)
  <2>1. scan.pos <= pos
    BY <1>1
  <2>2. digits \in Seq(Byte) /\ Len(digits) = pos - scan.pos
    BY <2>1, <1>1, <1>3, PartOfSeq, SMTT(30)
  <2>3. Holds(p, scan.pos, digits)
    BY <2>1, <1>1, <1>3, HoldsPart
  <2>4. pos - scan.pos = Len32
    BY <1>1
  <2> HIDE DEF digits
  <2>5. QED
    BY <2>2, <2>3, <2>4
<1>5. n = Number(digits)
  BY DEF At
<1>6. x \in Seq(Byte) /\ Len(x) = n /\ Holds(p, pos, x)
  <2>1. pos <= pos + n /\ pos + n \in Nat
    BY <1>3
  <2>2. x \in Seq(Byte) /\ Len(x) = (pos + n) - pos
    BY <2>1, <1>3, PartOfSeq
  <2>3. Holds(p, pos, x)
    BY <2>1, <1>1, <1>3, HoldsPart
  <2> HIDE DEF x
  <2>4. QED
    BY <2>2, <2>3, <1>3
<1> HIDE DEF n, x, digits
<1>7. Put(Len(x), Len32) = digits
  BY <1>4, <1>5, <1>6, PutOfNumber
<1>8. digits \in Seq(Nat) /\ x \in Seq(Nat)
  BY <1>1, <1>4, <1>6, WiderSeq
<1>9. Holds(p, scan.pos, digits \o x)
  <2>1. Holds(p, scan.pos + Len(digits), x)
    BY <1>4, <1>6
  <2>2. QED
    BY <2>1, <1>1, <1>4, <1>8, HoldsBoth
<1>10. QED
  BY <1>3, <1>6, <1>7, <1>9 DEF PutString

\* And the other way round: a string that is there is found.
LEMMA StringIsRead ==
    ASSUME NEW p \in Seq(Nat), Len(p) <= IntMax, NEW scan \in Scan(p), scan.err = "none",
           NEW x \in Seq(Nat), Len(x) < Power[Len32], Holds(p, scan.pos, PutString(x))
    PROVE  GetString(p, scan) = Found(scan, x)
<1> DEFINE pos == scan.pos + Len32
           n == At(p, scan.pos, Len32)
           digits == Put(Len(x), Len32)
<1>1. Len(p) \in Nat /\ scan.pos \in Nat /\ Len32 \in Nat /\ Len(x) \in Nat
  BY LenProperties, CodecAssumption DEF Scan
<1>2. digits \in Seq(Nat) /\ Len(digits) = Len32 /\ Number(digits) = Len(x)
  BY <1>1, PutBytes, NumberOfPut
<1>3. PutString(x) = digits \o x
  BY DEF PutString
<1> HIDE DEF digits
<1>4. Holds(p, scan.pos, digits) /\ Holds(p, pos, x)
  BY <1>1, <1>2, <1>3, HoldsBoth, ZenonT(30)
<1>5. SubSeq(p, scan.pos + 1, pos) = digits /\ SubSeq(p, pos + 1, pos + Len(x)) = x
  <2>1. pos \in Nat
    BY <1>1
  <2>2. SubSeq(p, scan.pos + 1, scan.pos + Len(digits)) = digits
    BY <1>1, <1>2, <1>4, PartHeld
  <2>3. SubSeq(p, pos + 1, pos + Len(x)) = x
    BY <2>1, <1>4, PartHeld
  <2>4. QED
    BY <2>2, <2>3, <1>2
<1>6. n = Len(x)
  BY <1>2, <1>5 DEF At
<1>7. pos <= Len(p) /\ pos + Len(x) <= Len(p)
  BY <1>1, <1>4 DEF Holds
<1> HIDE DEF n
<1>8. GetString(p, scan) = Found(scan, SubSeq(p, pos + 1, pos + n))
  BY <1>6, <1>7, GetStringFinds DEF n
<1>9. QED
  BY <1>5, <1>6, <1>8


\* All strings of a list that was read are there, one behind the other.
LEMMA StringsAreThere ==
    ASSUME NEW p \in Seq(Byte), Len(p) <= IntMax, NEW base \in Scan(p), NEW n \in Nat,
           Strings(p, base, n).err = "none"
    PROVE  \E ss \in Seq(Seq(Nat)) :
              /\ Len(ss) = n
              /\ Strings(p, base, n).fields = base.fields \o ss
              /\ Holds(p, base.pos, FlattenSeq(Put1(ss)))
<1>1. Byte \subseteq Nat /\ p \in Seq(Nat)
  <2>1. Byte \subseteq Nat
    BY CodecAssumption DEF Byte
  <2>2. QED
    BY <2>1, WiderSeq
<1>2. PICK v \in [0 .. n -> Scan(p)] :
          /\ v[0] = base
          /\ \A k \in 1 .. n : v[k] = GetString(p, v[k - 1])
          /\ Strings(p, base, n) = v[n]
  BY <1>1, StringsUnfold
<1>3. \A k \in 0 .. n : /\ v[k] \in Scan(p) /\ v[k].pos \in Nat
                        /\ v[k].fields \in Seq(Seq(Nat)) /\ Len(v[k].fields) \in Nat
  BY <1>2, LenProperties DEF Scan
<1> DEFINE Result == v[n].fields
           b == Len(base.fields)
           ss == [i \in 1 .. n |-> Result[b + i]]
           Down(k) == /\ v[k].err = "none"
                      /\ Len(v[k].fields) <= Len(Result)
                      /\ \A i \in 1 .. Len(v[k].fields) : v[k].fields[i] = Result[i]
           Y == {j \in Nat : j <= n => Down(n - j)}
<1>4. b \in Nat /\ b = Len(base.fields) /\ base.fields \in Seq(Seq(Nat)) /\ n \in 0 .. n /\ 0 \in 0 .. n
      /\ Result \in Seq(Seq(Nat)) /\ Len(Result) \in Nat
  BY <1>2, <1>3
<1>5. 0 \in Y
  <2>1. n - 0 = n
    OBVIOUS
  <2>2. Down(n)
    BY <1>2, <1>4
  <2> HIDE DEF Down
  <2>3. QED
    BY <2>1, <2>2
<1> HIDE DEF Result, b
<1>6. ASSUME NEW j \in Nat, j \in Y PROVE j + 1 \in Y
  <2> SUFFICES ASSUME j + 1 <= n PROVE Down(n - (j + 1))
    OBVIOUS
  <2> DEFINE k == n - (j + 1)
             q == v[k]
             r == v[k + 1]
  <2>1. k \in 0 .. n /\ k + 1 \in 1 .. n /\ (k + 1) - 1 = k /\ k + 1 = n - j /\ k + 1 \in 0 .. n
    OBVIOUS
  <2>2. Down(k + 1)
    BY <1>6, <2>1
  <2> HIDE DEF k
  <2>3. q \in Scan(p) /\ r = GetString(p, q)
    BY <2>1, <1>2
  <2>4. /\ r.err = "none" /\ Len(r.fields) <= Len(Result)
        /\ \A i \in 1 .. Len(r.fields) : r.fields[i] = Result[i]
    BY <2>2
  <2>5. Len(q.fields) \in Nat /\ Len(r.fields) \in Nat
    BY <2>1, <1>3
  <2> HIDE DEF q, r
  <2>6. /\ q.err = "none"
        /\ Len(r.fields) = Len(q.fields) + 1
        /\ \A i \in 1 .. Len(q.fields) : r.fields[i] = q.fields[i]
    BY <2>3, <2>4, <1>1, GetStringProperties
  <2>7. /\ q.err = "none" /\ Len(q.fields) <= Len(Result)
        /\ \A i \in 1 .. Len(q.fields) : q.fields[i] = Result[i]
    BY <2>4, <2>5, <2>6, <1>4
  <2>8. QED
    BY <2>7 DEF q, k
<1>7. \A k \in 0 .. n : Down(k)
  <2>1. Nat \subseteq Y
    BY <1>5, <1>6, Induction, Zenon
  <2> SUFFICES ASSUME NEW k \in 0 .. n PROVE Down(k)
    OBVIOUS
  <2>2. n - k \in Nat /\ n - k <= n /\ n - (n - k) = k
    OBVIOUS
  <2> HIDE DEF Down
  <2>3. Down(n - (n - k))
    BY <2>1, <2>2
  <2>4. QED
    BY <2>2, <2>3
<1> HIDE DEF Y
<1> DEFINE Z == {k \in Nat : k <= n => Len(v[k].fields) = b + k}
<1>8. \A k \in 0 .. n : Len(v[k].fields) = b + k
  <2>1. 0 \in Z
    BY <1>2, <1>4
  <2>2. ASSUME NEW k \in Nat, k \in Z PROVE k + 1 \in Z
    <3> SUFFICES ASSUME k + 1 <= n PROVE Len(v[k + 1].fields) = b + (k + 1)
      OBVIOUS
    <3>1. k \in 0 .. n /\ k + 1 \in 1 .. n /\ (k + 1) - 1 = k /\ k + 1 \in 0 .. n
      OBVIOUS
    <3>2. v[k] \in Scan(p) /\ v[k + 1] = GetString(p, v[k]) /\ v[k + 1].err = "none"
      BY <3>1, <1>2, <1>7
    <3>3. Len(GetString(p, v[k]).fields) = Len(v[k].fields) + 1
      BY <3>2, <1>1, GetStringProperties
    <3>4. Len(v[k].fields) = b + k
      BY <2>2, <3>1
    <3>5. (b + k) + 1 = b + (k + 1)
      <4>1. \A i, j \in Nat : (i + j) + 1 = i + (j + 1)
        OBVIOUS
      <4>2. QED
        BY <4>1, <1>4
    <3>6. QED
      BY <3>2, <3>3, <3>4, <3>5, Zenon
  <2>3. Nat \subseteq Z
    BY <2>1, <2>2, Induction, Zenon
  <2>4. QED
    BY <2>3
<1> HIDE DEF Z
<1>9. Len(Result) = b + n
  BY <1>4, <1>8 DEF Result
<1>10. ss \in Seq(Seq(Nat)) /\ Len(ss) = n /\ \A i \in 1 .. n : ss[i] = Result[b + i]
  <2>1. \A i \in 1 .. n : b + i \in 1 .. Len(Result)
    BY <1>4, <1>9
  <2>2. \A i \in 1 .. n : Result[b + i] \in Seq(Nat)
    BY <2>1, <1>4, ElementOfSeq
  <2>3. QED
    BY <2>2
<1>11. Result = base.fields \o ss
  <2> DEFINE all == base.fields \o ss
  <2>1. /\ all \in Seq(Seq(Nat)) /\ Len(all) = b + n
        /\ \A i \in 1 .. b : all[i] = base.fields[i]
        /\ \A i \in 1 .. n : all[b + i] = ss[i]
    BY <1>4, <1>10, ConcatBytes
  <2> HIDE DEF all, ss
  <2>2. ASSUME NEW i \in 1 .. Len(Result) PROVE Result[i] = all[i]
    <3>1. CASE i \in 1 .. b
      <4>1. base.fields[i] = Result[i]
        BY <3>1, <1>2, <1>4, <1>7
      <4>2. QED
        BY <3>1, <4>1, <2>1
    <3>2. CASE i - b \in 1 .. n
      <4>1. b + (i - b) = i
        BY <1>4
      <4>2. all[b + (i - b)] = Result[b + (i - b)]
        BY <3>2, <2>1, <1>10
      <4>3. QED
        BY <4>1, <4>2
    <3>3. QED
      BY <3>1, <3>2, <1>4, <1>9
  <2>3. Result = all
    <3>1. QED
      BY <2>1, <2>2, <1>4, <1>9, SeqEqual
  <2>4. QED
    BY <2>3 DEF all
<1> HIDE DEF ss
<1>12. Put1(ss) \in Seq(Seq(Nat)) /\ Len(Put1(ss)) = n
       /\ \A i \in 1 .. n : Put1(ss)[i] = PutString(ss[i])
  <2>1. DOMAIN ss = 1 .. n
    BY <1>10, LenProperties
  <2>2. Put1(ss) = [i \in 1 .. n |-> PutString(ss[i])]
    BY <2>1 DEF Put1
  <2>3. QED
    BY <2>2, <1>10, PutStringsBytes
<1>13. PICK w \in [0 .. n -> Seq(Nat)] :
          /\ w[0] = <<>>
          /\ \A k \in 1 .. n : w[k] = w[k - 1] \o Put1(ss)[k]
          /\ FlattenSeq(Put1(ss)) = w[n]
  <2> DEFINE t == Put1(ss)
  <2>1. t \in Seq(Seq(Nat)) /\ Len(t) = n
    BY <1>12
  <2> HIDE DEF t
  <2>2. \E w \in [0 .. n -> Seq(Nat)] :
          /\ w[0] = <<>>
          /\ \A k \in 1 .. n : w[k] = w[k - 1] \o t[k]
          /\ FlattenSeq(t) = w[n]
    BY <2>1, FlattenUnfolds
  <2>3. QED
    BY <2>2 DEF t
<1> DEFINE There(k) == Holds(p, base.pos, w[k]) /\ v[k].pos = base.pos + Len(w[k])
           X == {k \in Nat : k <= n => There(k)}
<1>14. 0 \in X
  <2>1. Len(w[0]) = 0 /\ base.pos \in Nat /\ base.pos + 0 <= Len(p)
    BY <1>1, <1>2, <1>13, LenProperties DEF Scan
  <2>2. Holds(p, base.pos, w[0])
    BY <2>1 DEF Holds
  <2>3. v[0].pos = base.pos + Len(w[0])
    BY <2>1, <1>2
  <2>4. QED
    BY <2>2, <2>3
<1>15. ASSUME NEW k \in Nat, k \in X PROVE k + 1 \in X
  <2> SUFFICES ASSUME k + 1 <= n PROVE There(k + 1)
    OBVIOUS
  <2>1. k \in 0 .. n /\ k + 1 \in 1 .. n /\ (k + 1) - 1 = k /\ k + 1 \in 0 .. n
    OBVIOUS
  <2>2. There(k)
    BY <2>1, <1>15
  <2>3. v[k] \in Scan(p) /\ v[k + 1] = GetString(p, v[k]) /\ v[k + 1].err = "none"
    BY <2>1, <1>2, <1>7
  <2>4. PICK x \in Seq(Byte) : GetString(p, v[k]) = Found(v[k], x)
                               /\ Holds(p, v[k].pos, PutString(x))
    BY <2>3, StringIsThere
  <2>5. x = ss[k + 1]
    <3>1. v[k].fields \in Seq(Seq(Nat)) /\ Len(v[k].fields) = b + k /\ x \in Seq(Nat)
      BY <2>1, <1>1, <1>3, <1>8, WiderSeq
    <3>2. Append(v[k].fields, x)[(b + k) + 1] = x
      <4> DEFINE f == v[k].fields
      <4>1. f \in Seq(Seq(Nat)) /\ Len(f) = b + k
        BY <3>1
      <4> HIDE DEF f
      <4>2. Append(f, x)[Len(f) + 1] = x
        BY <4>1, <3>1, AppendProperties
      <4>3. QED
        BY <4>1, <4>2, Zenon DEF f
    <3>3. v[k + 1].fields = Append(v[k].fields, x)
      BY <2>3, <2>4 DEF Found
    <3>4. (b + k) + 1 \in 1 .. Len(v[k + 1].fields) /\ (b + k) + 1 = b + (k + 1)
      <4>1. \A i, j \in Nat : (i + j) + 1 = i + (j + 1) /\ (i + j) + 1 \in 1 .. i + (j + 1)
        OBVIOUS
      <4>2. Len(v[k + 1].fields) = b + (k + 1)
        BY <2>1, <1>8
      <4>3. QED
        BY <4>1, <4>2, <2>1, <1>4
    <3>5. v[k + 1].fields[(b + k) + 1] = Result[(b + k) + 1]
      BY <2>1, <3>4, <1>7
    <3>6. ss[k + 1] = Result[b + (k + 1)]
      BY <2>1, <1>10
    <3>7. QED
      BY <3>2, <3>3, <3>4, <3>5, <3>6, Zenon
  <2>6. w[k + 1] = w[k] \o PutString(x) /\ w[k] \in Seq(Nat) /\ PutString(x) \in Seq(Nat)
        /\ Len(PutString(x)) = Len32 + Len(x)
    <3>1. x \in Seq(Nat)
      BY <1>1, WiderSeq
    <3>2. w[k + 1] = w[k] \o Put1(ss)[k + 1] /\ w[k] \in Seq(Nat)
      BY <2>1, <1>13
    <3>3. Put1(ss)[k + 1] = PutString(x)
      BY <2>1, <2>5, <1>12
    <3>4. QED
      BY <3>1, <3>2, <3>3, PutStringBytes
  <2>7. base.pos \in Nat
    BY DEF Scan
  <2>8. Holds(p, base.pos, w[k + 1])
    <3>1. Holds(p, base.pos, w[k]) /\ Holds(p, base.pos + Len(w[k]), PutString(x))
      BY <2>2, <2>4
    <3>2. QED
      BY <3>1, <2>6, <2>7, <1>1, HoldsBoth
  <2>9. v[k + 1].pos = base.pos + Len(w[k + 1])
    <3>1. v[k + 1].pos = v[k].pos + (Len32 + Len(x))
      BY <2>3, <2>4 DEF Found
    <3>2. Len(w[k + 1]) = Len(w[k]) + (Len32 + Len(x)) /\ Len(w[k]) \in Nat
          /\ Len32 + Len(x) \in Nat
      BY <2>6, ConcatBytes
    <3>3. \A i, j, l \in Nat : (i + j) + l = i + (j + l)
      OBVIOUS
    <3>4. v[k].pos = base.pos + Len(w[k])
      BY <2>2
    <3>5. (base.pos + Len(w[k])) + (Len32 + Len(x)) = base.pos + (Len(w[k]) + (Len32 + Len(x)))
      BY <3>2, <3>3, <2>7, Zenon
    <3>6. QED
      BY <3>1, <3>2, <3>4, <3>5, Zenon
  <2>10. QED
    BY <2>8, <2>9
<1>16. Holds(p, base.pos, w[n])
  <2>1. Nat \subseteq X
    BY <1>14, <1>15, Induction, Zenon
  <2>2. There(n)
    BY <2>1
  <2>3. QED
    BY <2>2
<1>17. QED
  BY <1>2, <1>10, <1>11, <1>13, <1>16 DEF Result


\* A scan that is told to go on elsewhere and how much room to reserve.
Reserved(scan, pos, count) == [scan EXCEPT !.pos = pos, !.room = count]

\* What that is.
LEMMA ReservedIs ==
    ASSUME NEW p \in Seq(Nat), NEW scan \in Scan(p), NEW pos \in 0 .. Len(p), NEW count \in Nat
    PROVE  LET r == Reserved(scan, pos, count)
           IN  /\ r \in Scan(p)
               /\ r = [err |-> scan.err, pos |-> pos, fields |-> scan.fields, room |-> count]
<1> DEFINE e == scan.err
           f == scan.fields
           q == scan.pos
           m == scan.room
<1>1. scan = [err |-> e, pos |-> q, fields |-> f, room |-> m]
      /\ e \in ScanErrors /\ f \in Seq(Seq(Nat))
  BY DEF Scan
<1> HIDE DEF e, f, q, m
<1> DEFINE moved == [scan EXCEPT !.pos = pos]
           r == Reserved(scan, pos, count)
<1>2. moved = [err |-> e, pos |-> pos, fields |-> f, room |-> m]
  <2>1. scan = [err |-> e, pos |-> q, fields |-> f, room |-> m]
    BY <1>1
  <2>2. QED
    BY <2>1
<1>3. r = [moved EXCEPT !.room = count]
  BY DEF Reserved
<1> HIDE DEF moved, r
<1>4. r = [err |-> e, pos |-> pos, fields |-> f, room |-> count]
  BY <1>2, <1>3
<1>5. r \in Scan(p)
  BY <1>1, <1>4 DEF Scan
<1>6. QED
  BY <1>4, <1>5 DEF r, e, f

\* A list that was read is there, with its count before it.
LEMMA ListIsThere ==
    ASSUME NEW p \in Seq(Byte), Len(p) <= IntMax, NEW scan \in Scan(p),
           GetStrings(p, scan).err = "none"
    PROVE  \E ss \in Seq(Seq(Nat)) :
              /\ GetStrings(p, scan).fields = scan.fields \o ss
              /\ Holds(p, scan.pos, PutStrings(ss))
<1> DEFINE pos == scan.pos + Len32
           count == At(p, scan.pos, Len32)
           digits == SubSeq(p, scan.pos + 1, pos)
           r == GetStrings(p, scan)
<1>1. /\ Byte \subseteq Nat /\ p \in Seq(Nat) /\ Len(p) \in Nat
      /\ scan.pos \in Nat /\ Len32 \in Nat /\ pos \in Nat /\ scan.fields \in Seq(Seq(Nat))
      /\ scan = [err |-> scan.err, pos |-> scan.pos, fields |-> scan.fields, room |-> scan.room]
  <2>1. Byte \subseteq Nat
    BY CodecAssumption DEF Byte
  <2>2. p \in Seq(Nat) /\ Len(p) \in Nat
    BY <2>1, WiderSeq, LenProperties
  <2>3. scan.pos \in Nat /\ Len32 \in Nat /\ scan.fields \in Seq(Seq(Nat))
    BY <2>2, CodecAssumption DEF Scan
  <2>4. scan = [err |-> scan.err, pos |-> scan.pos, fields |-> scan.fields, room |-> scan.room]
    BY DEF Scan
  <2>5. QED
    BY <2>1, <2>2, <2>3, <2>4
<1>2. Fail(scan, "truncated").err = "truncated"
  BY <1>1 DEF Fail
<1>3. /\ scan.err # "none" => r = scan
      /\ scan.err = "none" /\ Len(p) < pos => r = Fail(scan, "truncated")
      /\ scan.err = "none" /\ Len(p) >= pos =>
            r = IF count > (Len(p) - pos) \div Len32 THEN Fail(scan, "truncated")
                ELSE Strings(p, Reserved(scan, pos, count), count)
  BY <1>1 DEF GetStrings, TooFew, Strings, Reserved, FoldLeft, MapThenFoldSet
<1> HIDE DEF r
<1>4. scan.err = "none" /\ pos <= Len(p) /\ r = Strings(p, Reserved(scan, pos, count), count)
  <2>1. r.err = "none"
    BY DEF r
  <2>2. scan.err = "none"
    BY <2>1, <1>3, Zenon
  <2>3. ~(Len(p) < pos)
    BY <2>1, <2>2, <1>2, <1>3
  <2>4. pos <= Len(p)
    BY <2>3, <1>1
  <2>5. r = IF count > (Len(p) - pos) \div Len32 THEN Fail(scan, "truncated")
            ELSE Strings(p, Reserved(scan, pos, count), count)
    BY <2>2, <2>4, <1>1, <1>3
  <2>6. r # Fail(scan, "truncated")
    BY <2>1, <1>2
  <2>7. QED
    BY <2>2, <2>4, <2>5, <2>6, Zenon
<1>5. count \in Nat
  BY <1>1, <1>4, AtIsNat
<1>6. digits \in Seq(Byte) /\ Len(digits) = Len32 /\ Holds(p, scan.pos, digits)
  <2>1. scan.pos <= pos
    BY <1>1
  <2>2. digits \in Seq(Byte) /\ Len(digits) = pos - scan.pos
    BY <2>1, <1>1, <1>4, PartOfSeq
  <2>3. Holds(p, scan.pos, digits)
    BY <2>1, <1>1, <1>4, HoldsPart
  <2>4. pos - scan.pos = Len32
    BY <1>1
  <2> HIDE DEF digits
  <2>5. QED
    BY <2>2, <2>3, <2>4
<1>7. count = Number(digits)
  BY DEF At
<1> HIDE DEF count, digits
<1> DEFINE base == Reserved(scan, pos, count)
<1>8. base \in Scan(p) /\ base.pos = pos /\ base.fields = scan.fields
  <2>1. pos \in 0 .. Len(p)
    BY <1>1, <1>4
  <2>2. base = [err |-> scan.err, pos |-> pos, fields |-> scan.fields, room |-> count]
    BY <2>1, <1>1, <1>5, ReservedIs
  <2>3. base \in Scan(p)
    BY <2>1, <1>1, <1>5, ReservedIs
  <2> HIDE DEF base
  <2>4. QED
    BY <2>2, <2>3
<1> HIDE DEF base
<1>9. r = Strings(p, base, count) /\ Strings(p, base, count).err = "none"
  BY <1>4 DEF r, base
<1>10. PICK ss \in Seq(Seq(Nat)) :
          /\ Len(ss) = count
          /\ Strings(p, base, count).fields = base.fields \o ss
          /\ Holds(p, base.pos, FlattenSeq(Put1(ss)))
  BY <1>5, <1>8, <1>9, StringsAreThere
<1>11. PutStrings(ss) = digits \o FlattenSeq(Put1(ss))
  <2>1. Put(count, Len32) = digits
    BY <1>6, <1>7, PutOfNumber
  <2>2. PutStrings(ss) = Put(Len(ss), Len32) \o FlattenSeq(Put1(ss))
    BY DEF PutStrings, Put1
  <2>3. QED
    BY <2>1, <2>2, <1>10
<1>12. Holds(p, scan.pos, PutStrings(ss))
  <2>1. digits \in Seq(Nat) /\ FlattenSeq(Put1(ss)) \in Seq(Nat)
    BY <1>1, <1>6, WiderSeq, PutStringsBytes, FlattenBytes
  <2>2. Holds(p, scan.pos + Len(digits), FlattenSeq(Put1(ss)))
    BY <1>6, <1>8, <1>10
  <2>3. QED
    BY <2>1, <2>2, <1>1, <1>6, <1>11, HoldsBoth
<1>13. QED
  BY <1>8, <1>9, <1>10, <1>12 DEF r

\* What is behind the first of a list.
LEMMA TailOfConcat ==
    ASSUME NEW S, NEW x \in S, NEW ss \in Seq(S)
    PROVE  (<<x>> \o ss)[1] = x /\ Tail(<<x>> \o ss) = ss
<1> DEFINE fields == <<x>> \o ss
<1>1. <<x>> \in Seq(S) /\ Len(<<x>>) = 1
  OBVIOUS
<1>2. /\ fields \in Seq(S) /\ Len(fields) = 1 + Len(ss) /\ Len(ss) \in Nat
      /\ \A i \in 1 .. 1 : fields[i] = <<x>>[i]
      /\ \A i \in 1 .. Len(ss) : fields[1 + i] = ss[i]
  BY <1>1, ConcatBytes
<1> HIDE DEF fields
<1>3. fields[1] = x
  BY <1>2
<1>4. fields # <<>>
  BY <1>2
<1>5. Tail(fields) \in Seq(S) /\ Len(Tail(fields)) = Len(fields) - 1
      /\ \A i \in 1 .. Len(Tail(fields)) : Tail(fields)[i] = fields[i + 1]
  BY <1>2, <1>4, HeadTailProperties
<1>6. Len(Tail(fields)) = Len(ss)
  BY <1>2, <1>5
<1>7. \A i \in 1 .. Len(Tail(fields)) : Tail(fields)[i] = ss[i]
  BY <1>2, <1>5, <1>6
<1>8. Tail(fields) = ss
  BY <1>5, <1>6, <1>7, SeqEqual
<1>9. QED
  BY <1>3, <1>8 DEF fields

\* A decoder that succeeds has read what the encoder would have written: no
\* field is found that is not there, whoever sent the bytes.  (fuzz_test.go,
\* decodePublish, decodePublishBatch, decodeTopics, decodeMessage, decodeError)
THEOREM DecodersAreExact ==
    ASSUME NEW p \in Seq(Byte), Len(p) <= IntMax
    PROVE  LET publish == DecodePublish(p)
               batch == DecodePublishBatch(p)
               names == DecodeTopics(p)
               message == DecodeMessage(p)
               error == DecodeError(p)
           IN  /\ publish.err = "none" =>
                     IsPrefix(EncodePublish(publish.fields[1], publish.fields[2]), p)
               /\ batch.err = "none" =>
                     IsPrefix(EncodePublishBatch(batch.fields[1], Tail(batch.fields)), p)
               /\ names.err = "none" => IsPrefix(EncodeTopics(names.fields), p)
               /\ message.err = "none" =>
                     IsPrefix(EncodeMessage(At(p, 0, Len64), message.fields[1]), p)
               /\ error.err = "none" =>
                     IsPrefix(EncodeError(At(p, 0, Len16), error.fields[1]), p)
<1>1. Byte \subseteq Nat /\ p \in Seq(Nat) /\ Len(p) \in Nat
  <2>1. Byte \subseteq Nat
    BY CodecAssumption DEF Byte
  <2>2. QED
    BY <2>1, WiderSeq, LenProperties
<1>2. /\ From(0) \in Scan(p) /\ From(0).err = "none" /\ From(0).fields = <<>> /\ From(0).pos = 0
      /\ <<>> \in Seq(Seq(Nat)) /\ Len(<<>>) = 0
  BY <1>1, FromAndSkip
<1>3. ASSUME NEW scan \in Scan(p), GetString(p, scan).err = "none"
      PROVE  \E x \in Seq(Nat) :
                /\ GetString(p, scan) \in Scan(p) /\ scan.err = "none"
                /\ GetString(p, scan).pos = scan.pos + Len(PutString(x))
                /\ GetString(p, scan).fields = Append(scan.fields, x)
                /\ Holds(p, scan.pos, PutString(x)) /\ PutString(x) \in Seq(Nat)
  <2>1. PICK x \in Seq(Byte) : /\ GetString(p, scan) = Found(scan, x)
                               /\ Holds(p, scan.pos, PutString(x))
    BY <1>3, StringIsThere
  <2>2. x \in Seq(Nat)
    BY <1>1, WiderSeq
  <2>3. PutString(x) \in Seq(Nat) /\ Len(PutString(x)) = Len32 + Len(x)
    BY <2>2, PutStringBytes
  <2>4. GetString(p, scan) \in Scan(p) /\ scan.err = "none"
    BY <1>1, <1>3, GetStringProperties
  <2>5. Found(scan, x).pos = scan.pos + Len(PutString(x))
        /\ Found(scan, x).fields = Append(scan.fields, x)
    BY <2>3 DEF Found
  <2>6. QED
    BY <2>1, <2>2, <2>3, <2>4, <2>5
<1> DEFINE topic == GetString(p, From(0))
<1>4. ASSUME topic.err = "none"
      PROVE  \E x \in Seq(Nat) :
                /\ topic \in Scan(p)
                /\ topic.pos = Len(PutString(x)) /\ topic.fields = <<x>>
                /\ Holds(p, 0, PutString(x)) /\ PutString(x) \in Seq(Nat)
  <2>1. PICK x \in Seq(Nat) :
            /\ topic \in Scan(p)
            /\ topic.pos = From(0).pos + Len(PutString(x))
            /\ topic.fields = Append(From(0).fields, x)
            /\ Holds(p, From(0).pos, PutString(x)) /\ PutString(x) \in Seq(Nat)
    BY <1>2, <1>3, <1>4
  <2> HIDE DEF topic
  <2>2. Len(PutString(x)) \in Nat
    BY <2>1, LenProperties
  <2>3. topic.pos = Len(PutString(x))
    BY <2>1, <2>2, <1>2
  <2>4. Append(<<>>, x) = <<x>>
    OBVIOUS
  <2>5. QED
    BY <2>1, <2>3, <2>4, <1>2
<1> HIDE DEF topic
<1>5. ASSUME DecodePublish(p).err = "none"
      PROVE  IsPrefix(EncodePublish(DecodePublish(p).fields[1], DecodePublish(p).fields[2]), p)
  <2>1. DecodePublish(p) = GetString(p, topic)
    BY DEF DecodePublish, topic
  <2>2. topic \in Scan(p)
    BY <1>1, <1>2, GetStringProperties DEF topic
  <2>3. PICK y \in Seq(Nat) :
            /\ topic.err = "none"
            /\ GetString(p, topic).fields = Append(topic.fields, y)
            /\ Holds(p, topic.pos, PutString(y)) /\ PutString(y) \in Seq(Nat)
    BY <2>1, <2>2, <1>3, <1>5
  <2>4. PICK x \in Seq(Nat) :
            /\ topic.pos = Len(PutString(x)) /\ topic.fields = <<x>>
            /\ Holds(p, 0, PutString(x)) /\ PutString(x) \in Seq(Nat)
    BY <2>3, <1>4
  <2>5. Append(<<x>>, y)[1] = x /\ Append(<<x>>, y)[2] = y
    OBVIOUS
  <2>6. DecodePublish(p).fields = Append(<<x>>, y)
    BY <2>1, <2>3, <2>4
  <2>7. DecodePublish(p).fields[1] = x /\ DecodePublish(p).fields[2] = y
    BY <2>5, <2>6
  <2>8. Holds(p, 0 + Len(PutString(x)), PutString(y))
    <3>1. Len(PutString(x)) \in Nat
      BY <2>4, LenProperties
    <3>2. 0 + Len(PutString(x)) = topic.pos
      BY <3>1, <2>4
    <3>3. QED
      BY <3>2, <2>3
  <2>9. Holds(p, 0, PutString(x) \o PutString(y))
    BY <2>3, <2>4, <2>8, <1>1, HoldsBoth
  <2>10. PutString(x) \o PutString(y) \in Seq(Nat)
    BY <2>3, <2>4, ConcatBytes
  <2>11. IsPrefix(PutString(x) \o PutString(y), p)
    BY <2>9, <2>10, <1>1, HoldsIsPrefix
  <2>12. QED
    BY <2>7, <2>11 DEF EncodePublish
<1>6. ASSUME DecodePublishBatch(p).err = "none"
      PROVE  IsPrefix(EncodePublishBatch(DecodePublishBatch(p).fields[1],
                                         Tail(DecodePublishBatch(p).fields)), p)
  <2>1. DecodePublishBatch(p) = GetStrings(p, topic)
    BY DEF DecodePublishBatch, topic
  <2>2. topic \in Scan(p) /\ topic.room = From(0).room
    BY <1>1, <1>2, GetStringProperties DEF topic
  <2>3. topic.err = "none"
    <3>1. topic.room <= Len(p)
      BY <2>2, <1>1 DEF From
    <3>2. Extends(GetStrings(p, topic), topic)
      BY <2>2, <3>1, <1>1, GetStringsProperties
    <3>3. QED
      BY <3>2, <2>1, <1>6 DEF Extends
  <2>4. PICK ss \in Seq(Seq(Nat)) :
            /\ GetStrings(p, topic).fields = topic.fields \o ss
            /\ Holds(p, topic.pos, PutStrings(ss))
    BY <2>1, <2>2, <1>6, ListIsThere
  <2>5. PICK x \in Seq(Nat) :
            /\ topic.pos = Len(PutString(x)) /\ topic.fields = <<x>>
            /\ Holds(p, 0, PutString(x)) /\ PutString(x) \in Seq(Nat)
    BY <2>3, <1>4
  <2> DEFINE fields == <<x>> \o ss
  <2>6. fields[1] = x /\ Tail(fields) = ss
    BY TailOfConcat
  <2>7. DecodePublishBatch(p).fields = fields
    BY <2>1, <2>4, <2>5
  <2> HIDE DEF fields
  <2>8. PutStrings(ss) \in Seq(Nat)
    BY PutStringsBytes
  <2>9. Holds(p, 0 + Len(PutString(x)), PutStrings(ss))
    <3>1. Len(PutString(x)) \in Nat
      BY <2>5, LenProperties
    <3>2. 0 + Len(PutString(x)) = topic.pos
      BY <3>1, <2>5
    <3>3. QED
      BY <3>2, <2>4
  <2>10. Holds(p, 0, PutString(x) \o PutStrings(ss))
    BY <2>5, <2>8, <2>9, <1>1, HoldsBoth
  <2>11. PutString(x) \o PutStrings(ss) \in Seq(Nat)
    BY <2>5, <2>8, ConcatBytes
  <2>12. IsPrefix(PutString(x) \o PutStrings(ss), p)
    BY <2>10, <2>11, <1>1, HoldsIsPrefix
  <2>13. QED
    BY <2>6, <2>7, <2>12 DEF EncodePublishBatch
<1>7. ASSUME DecodeTopics(p).err = "none"
      PROVE  IsPrefix(EncodeTopics(DecodeTopics(p).fields), p)
  <2>1. DecodeTopics(p) = GetStrings(p, From(0))
    BY DEF DecodeTopics
  <2>2. PICK ss \in Seq(Seq(Nat)) :
            /\ GetStrings(p, From(0)).fields = From(0).fields \o ss
            /\ Holds(p, From(0).pos, PutStrings(ss))
    BY <2>1, <1>2, <1>7, ListIsThere
  <2>3. <<>> \o ss = ss
    BY ConcatEmptySeq
  <2>4. PutStrings(ss) \in Seq(Nat) /\ Holds(p, 0, PutStrings(ss))
    BY <2>2, <1>2, PutStringsBytes
  <2>5. IsPrefix(PutStrings(ss), p)
    BY <2>4, <1>1, HoldsIsPrefix
  <2>6. DecodeTopics(p).fields = ss
    BY <2>1, <2>2, <2>3, <1>2
  <2>7. QED
    BY <2>5, <2>6 DEF EncodeTopics
<1>8. ASSUME NEW n \in Nat, GetString(p, Skip(p, n)).err = "none"
      PROVE  LET x == GetString(p, Skip(p, n)).fields[1]
             IN  IsPrefix(Put(At(p, 0, n), n) \o PutString(x), p)
  <2> DEFINE digits == SubSeq(p, 0 + 1, n)
  <2>1. Skip(p, n) \in Scan(p) /\ (Skip(p, n).err = "none" =>
            n <= Len(p) /\ Skip(p, n).pos = n /\ Skip(p, n).fields = <<>>)
    BY <1>1, FromAndSkip
  <2>2. PICK x \in Seq(Nat) :
            /\ Skip(p, n).err = "none"
            /\ GetString(p, Skip(p, n)).fields = Append(Skip(p, n).fields, x)
            /\ Holds(p, Skip(p, n).pos, PutString(x)) /\ PutString(x) \in Seq(Nat)
    BY <2>1, <1>3, <1>8
  <2>3. Append(<<>>, x) = <<x>> /\ <<x>>[1] = x
    OBVIOUS
  <2>4. GetString(p, Skip(p, n)).fields[1] = x
    BY <2>1, <2>2, <2>3
  <2>5. /\ digits \in Seq(Byte) /\ Len(digits) = n - 0 /\ n - 0 = n /\ 0 + n = n
        /\ Holds(p, 0, digits)
    BY <2>1, <2>2, <1>1, PartOfSeq, HoldsPart
  <2>6. At(p, 0, n) = Number(digits)
    BY <2>5 DEF At
  <2> HIDE DEF digits
  <2>7. Put(At(p, 0, n), n) = digits
    BY <2>5, <2>6, PutOfNumber
  <2>8. digits \in Seq(Nat) /\ Holds(p, 0 + Len(digits), PutString(x))
    BY <2>1, <2>2, <2>5, <1>1, WiderSeq
  <2>9. Holds(p, 0, digits \o PutString(x)) /\ digits \o PutString(x) \in Seq(Nat)
    BY <2>2, <2>5, <2>8, <1>1, HoldsBoth, ConcatBytes
  <2>10. IsPrefix(digits \o PutString(x), p)
    BY <2>9, <1>1, HoldsIsPrefix
  <2>11. QED
    BY <2>4, <2>7, <2>10
<1>9. DecodeMessage(p).err = "none" =>
          IsPrefix(EncodeMessage(At(p, 0, Len64), DecodeMessage(p).fields[1]), p)
  BY <1>8, CodecAssumption DEF DecodeMessage, EncodeMessage
<1>10. DecodeError(p).err = "none" =>
          IsPrefix(EncodeError(At(p, 0, Len16), DecodeError(p).fields[1]), p)
  BY <1>8, CodecAssumption DEF DecodeError, EncodeError
<1>11. QED
  BY <1>5, <1>6, <1>7, <1>9, <1>10, Zenon


-----------------------------------------------------------------------------
\* Round trips: what is encoded is decoded

\* The list ss was read behind base.
Read(base, ss, bytes) ==
    [err |-> "none", pos |-> base.pos + Len(bytes), fields |-> base.fields \o ss,
     room |-> base.room]

\* Strings that are there one behind the other are read, and they take at least
\* the bytes of their lengths.
LEMMA StringsAreRead ==
    ASSUME NEW p \in Seq(Nat), Len(p) <= IntMax, NEW base \in Scan(p), base.err = "none",
           NEW ss \in Seq(Seq(Nat)), \A i \in 1 .. Len(ss) : Len(ss[i]) < Power[Len32],
           Holds(p, base.pos, FlattenSeq(Put1(ss)))
    PROVE  Strings(p, base, Len(ss)) = Read(base, ss, FlattenSeq(Put1(ss)))
<1> DEFINE n == Len(ss)
<1>1. n \in Nat /\ \A i \in 1 .. n : ss[i] \in Seq(Nat)
  BY LenProperties, ElementOfSeq
<1>2. PICK v \in [0 .. n -> Scan(p)] :
          /\ v[0] = base
          /\ \A k \in 1 .. n : v[k] = GetString(p, v[k - 1])
          /\ Strings(p, base, n) = v[n]
  BY <1>1, StringsUnfold
<1>3. Put1(ss) \in Seq(Seq(Nat)) /\ Len(Put1(ss)) = n
       /\ \A i \in 1 .. n : Put1(ss)[i] = PutString(ss[i])
  <2>1. DOMAIN ss = 1 .. n
    BY LenProperties
  <2>2. Put1(ss) = [i \in 1 .. n |-> PutString(ss[i])]
    BY <2>1 DEF Put1
  <2>3. QED
    BY <2>2, <1>1, PutStringsBytes
<1>4. PICK w \in [0 .. n -> Seq(Nat)] :
          /\ w[0] = <<>>
          /\ \A k \in 1 .. n : w[k] = w[k - 1] \o Put1(ss)[k]
          /\ FlattenSeq(Put1(ss)) = w[n]
  <2> DEFINE t == Put1(ss)
  <2>1. t \in Seq(Seq(Nat)) /\ Len(t) = n
    BY <1>3
  <2> HIDE DEF t
  <2>2. \E w \in [0 .. n -> Seq(Nat)] :
          /\ w[0] = <<>>
          /\ \A k \in 1 .. n : w[k] = w[k - 1] \o t[k]
          /\ FlattenSeq(t) = w[n]
    BY <2>1, FlattenUnfolds
  <2>3. QED
    BY <2>2 DEF t
<1> DEFINE b == Len(base.fields)
<1>5. /\ base.fields \in Seq(Seq(Nat)) /\ b \in Nat /\ base.pos \in Nat /\ Len32 \in Nat
      /\ base = [err |-> "none", pos |-> base.pos, fields |-> base.fields, room |-> base.room]
  BY LenProperties, CodecAssumption DEF Scan
<1> HIDE DEF n
<1>6. \A k \in 1 .. n : /\ w[k] = w[k - 1] \o PutString(ss[k])
                        /\ w[k - 1] \in Seq(Nat) /\ PutString(ss[k]) \in Seq(Nat)
  <2> SUFFICES ASSUME NEW k \in 1 .. n
               PROVE  /\ w[k] = w[k - 1] \o PutString(ss[k])
                      /\ w[k - 1] \in Seq(Nat) /\ PutString(ss[k]) \in Seq(Nat)
    OBVIOUS
  <2>1. k - 1 \in 0 .. n
    BY <1>1
  <2>2. w[k] = w[k - 1] \o PutString(ss[k])
    BY <1>3, <1>4, Zenon
  <2>3. PutString(ss[k]) \in Seq(Nat)
    BY <1>1, PutStringBytes
  <2>4. QED
    BY <2>1, <2>2, <2>3, <1>4
<1> DEFINE Y == {j \in Nat : j <= n => Holds(p, base.pos, w[n - j])}
<1>7. \A k \in 0 .. n : Holds(p, base.pos, w[k])
  <2>1. 0 \in Y
    <3>1. n - 0 = n
      BY <1>1
    <3>2. QED
      BY <3>1, <1>4
  <2>2. ASSUME NEW j \in Nat, j \in Y PROVE j + 1 \in Y
    <3> SUFFICES ASSUME j + 1 <= n PROVE Holds(p, base.pos, w[n - (j + 1)])
      OBVIOUS
    <3> DEFINE k == n - j
    <3>1. k \in 1 .. n /\ k - 1 = n - (j + 1) /\ j <= n
      BY <1>1
    <3>2. Holds(p, base.pos, w[k])
      BY <2>2, <3>1
    <3> HIDE DEF k
    <3>3. Holds(p, base.pos, w[k - 1] \o PutString(ss[k]))
      BY <3>1, <3>2, <1>6, Zenon
    <3>4. Holds(p, base.pos, w[k - 1])
      BY <3>1, <3>3, <1>5, <1>6, HoldsBoth
    <3>5. QED
      BY <3>1, <3>4
  <2>3. Nat \subseteq Y
    BY <2>1, <2>2, Induction, Zenon
  <2> SUFFICES ASSUME NEW k \in 0 .. n PROVE Holds(p, base.pos, w[k])
    OBVIOUS
  <2>4. n - k \in Nat /\ n - k <= n /\ n - (n - k) = k
    BY <1>1
  <2>5. Holds(p, base.pos, w[n - (n - k)])
    BY <2>3, <2>4
  <2>6. QED
    BY <2>4, <2>5
<1> HIDE DEF Y
<1>8. \A k \in 1 .. n : Holds(p, base.pos + Len(w[k - 1]), PutString(ss[k]))
  <2> SUFFICES ASSUME NEW k \in 1 .. n
               PROVE  Holds(p, base.pos + Len(w[k - 1]), PutString(ss[k]))
    OBVIOUS
  <2>1. Holds(p, base.pos, w[k - 1] \o PutString(ss[k]))
    <3>1. k \in 0 .. n
      BY <1>1
    <3>2. QED
      BY <3>1, <1>6, <1>7, Zenon
  <2>2. QED
    BY <2>1, <1>5, <1>6, HoldsBoth
<1> DEFINE Good(k) ==
               /\ v[k].err = "none" /\ v[k].room = base.room
               /\ v[k].pos = base.pos + Len(w[k])
               /\ Len(v[k].fields) = b + k
               /\ \A i \in 1 .. b : v[k].fields[i] = base.fields[i]
               /\ \A i \in 1 .. k : v[k].fields[b + i] = ss[i]
           Z == {k \in Nat : k <= n => Good(k)}
<1>9. 0 \in Z
  <2>1. Len(w[0]) = 0
    BY <1>4
  <2>2. QED
    BY <2>1, <1>2, <1>5
<1> HIDE DEF b
<1>10. ASSUME NEW k \in Nat, k \in Z PROVE k + 1 \in Z
  <2> SUFFICES ASSUME k + 1 <= n PROVE Good(k + 1)
    OBVIOUS
  <2> DEFINE q == v[k]
             x == ss[k + 1]
             r == v[k + 1]
  <2>1. k \in 0 .. n /\ k + 1 \in 1 .. n /\ (k + 1) - 1 = k /\ k + 1 \in 0 .. n
    BY <1>1
  <2>2. /\ q.err = "none" /\ q.room = base.room
        /\ q.pos = base.pos + Len(w[k])
        /\ Len(q.fields) = b + k
        /\ \A i \in 1 .. b : q.fields[i] = base.fields[i]
        /\ \A i \in 1 .. k : q.fields[b + i] = ss[i]
    BY <1>10, <2>1
  <2>3. x \in Seq(Nat) /\ Len(x) < Power[Len32] /\ Len(x) \in Nat
    <3>1. x \in Seq(Nat)
      BY <2>1, <1>1
    <3>2. QED
      BY <3>1, <2>1, LenProperties DEF n
  <2>4. q \in Scan(p) /\ r = GetString(p, q)
    BY <2>1, <1>2
  <2>5. q.fields \in Seq(Seq(Nat))
    BY <2>4 DEF Scan
  <2>6. Holds(p, base.pos + Len(w[k]), PutString(x))
    BY <2>1, <1>8
  <2>7. w[k + 1] = w[k] \o PutString(x) /\ w[k] \in Seq(Nat)
        /\ PutString(x) \in Seq(Nat) /\ Len(PutString(x)) = Len32 + Len(x)
    BY <2>1, <2>3, <1>6, PutStringBytes
  <2> HIDE DEF q, x, r
  <2>8. r = Found(q, x)
    BY <2>2, <2>3, <2>4, <2>6, StringIsRead
  <2>9. r.err = "none" /\ r.room = base.room /\ r.fields = Append(q.fields, x)
        /\ r.pos = q.pos + (Len32 + Len(x))
    BY <2>2, <2>8 DEF Found
  <2>10. r.pos = base.pos + Len(w[k + 1])
    <3>1. Len(w[k + 1]) = Len(w[k]) + (Len32 + Len(x)) /\ Len(w[k]) \in Nat
      <4>1. Len(w[k] \o PutString(x)) = Len(w[k]) + Len(PutString(x)) /\ Len(w[k]) \in Nat
        <5> DEFINE s == w[k]
                   t == PutString(x)
        <5>1. s \in Seq(Nat) /\ t \in Seq(Nat)
          BY <2>7
        <5> HIDE DEF s, t
        <5>2. Len(s \o t) = Len(s) + Len(t) /\ Len(s) \in Nat
          BY <5>1, ConcatBytes
        <5>3. QED
          BY <5>2 DEF s, t
      <4>2. QED
        BY <4>1, <2>7, Zenon
    <3>2. \A i, j, l \in Nat : (i + j) + l = i + (j + l)
      OBVIOUS
    <3>3. Len32 + Len(x) \in Nat
      BY <2>3, <1>5
    <3>4. (base.pos + Len(w[k])) + (Len32 + Len(x)) = base.pos + (Len(w[k]) + (Len32 + Len(x)))
      BY <3>1, <3>2, <3>3, <1>5, ZenonT(30)
    <3>5. QED
      BY <2>2, <2>9, <3>1, <3>4, Zenon
  <2>11. /\ Len(r.fields) = (b + k) + 1
         /\ \A i \in 1 .. b + k : r.fields[i] = q.fields[i]
         /\ r.fields[(b + k) + 1] = x
    <3> DEFINE f == q.fields
    <3>1. f \in Seq(Seq(Nat)) /\ Len(f) = b + k
      BY <2>2, <2>5
    <3> HIDE DEF f
    <3>2. /\ Len(Append(f, x)) = Len(f) + 1
          /\ \A i \in 1 .. Len(f) : Append(f, x)[i] = f[i]
          /\ Append(f, x)[Len(f) + 1] = x
      BY <3>1, <2>3, AppendProperties
    <3>3. r.fields = Append(f, x)
      BY <2>9 DEF f
    <3>4. QED
      BY <3>1, <3>2, <3>3, Zenon DEF f
  <2>12. b \in Nat /\ (b + k) + 1 = b + (k + 1)
    BY <1>5 DEF b
  <2>13. Len(r.fields) = b + (k + 1)
    BY <2>11, <2>12, Zenon
  <2>14. \A i \in 1 .. b : r.fields[i] = base.fields[i]
    BY <2>2, <2>11, <2>12
  <2>15. ASSUME NEW i \in 1 .. k + 1 PROVE r.fields[b + i] = ss[i]
    <3>1. CASE i \in 1 .. k
      <4>1. b + i \in 1 .. b + k
        BY <3>1, <2>12
      <4>2. QED
        BY <3>1, <4>1, <2>2, <2>11
    <3>2. CASE i = k + 1
      BY <3>2, <2>11, <2>12 DEF x
    <3>3. QED
      BY <3>1, <3>2
  <2>16. QED
    BY <2>9, <2>10, <2>13, <2>14, <2>15 DEF r
<1>11. Good(n)
  <2>1. Nat \subseteq Z
    BY <1>9, <1>10, Induction, Zenon
  <2>2. n \in Z /\ n <= n
    BY <2>1, <1>1
  <2> HIDE DEF Good
  <2>3. QED
    BY <2>2
<1>12. v[n].fields = base.fields \o ss
  <2> DEFINE all == base.fields \o ss
             f == v[n].fields
  <2>1. b \in Nat /\ b = Len(base.fields) /\ n = Len(ss)
    BY <1>5 DEF b, n
  <2>2. /\ all \in Seq(Seq(Nat)) /\ Len(all) = b + n
        /\ \A i \in 1 .. b : all[i] = base.fields[i]
        /\ \A i \in 1 .. n : all[b + i] = ss[i]
    BY <2>1, <1>5, ConcatBytes
  <2>3. v[n] \in Scan(p)
    BY <1>1, <1>2
  <2>4. /\ f \in Seq(Seq(Nat)) /\ Len(f) = b + n
        /\ \A i \in 1 .. b : f[i] = base.fields[i]
        /\ \A i \in 1 .. n : f[b + i] = ss[i]
    BY <2>3, <1>11 DEF Scan
  <2> HIDE DEF all, f
  <2>5. ASSUME NEW i \in 1 .. Len(f) PROVE f[i] = all[i]
    <3>1. CASE i \in 1 .. b
      BY <3>1, <2>2, <2>4
    <3>2. CASE i - b \in 1 .. n
      <4>1. b + (i - b) = i
        BY <2>1
      <4>2. all[b + (i - b)] = f[b + (i - b)]
        BY <3>2, <2>2, <2>4
      <4>3. QED
        BY <4>1, <4>2
    <3>3. QED
      BY <3>1, <3>2, <2>1, <2>4, <1>1
  <2>6. f = all
    BY <2>2, <2>4, <2>5, SeqEqual
  <2>7. QED
    BY <2>6 DEF f, all
<1>13. v[n] = [err |-> v[n].err, pos |-> v[n].pos, fields |-> v[n].fields, room |-> v[n].room]
  <2>1. v[n] \in Scan(p)
    BY <1>1, <1>2
  <2>2. QED
    BY <2>1 DEF Scan
<1>14. v[n] = Read(base, ss, w[n])
  <2>1. v[n].err = "none" /\ v[n].room = base.room /\ v[n].pos = base.pos + Len(w[n])
    BY <1>11
  <2>2. QED
    BY <2>1, <1>12, <1>13, Zenon DEF Read
<1>15. QED
  BY <1>2, <1>4, <1>14 DEF n


\* A list takes at least the bytes of its lengths, and of each of its strings.
LEMMA FlattenLengths ==
    ASSUME NEW ss \in Seq(Seq(Nat))
    PROVE  LET n == Len(FlattenSeq(Put1(ss)))
           IN  /\ n \in Nat /\ Len(ss) * Len32 <= n
               /\ \A i \in 1 .. Len(ss) : Len(ss[i]) <= n
<1> DEFINE n == Len(ss)
           t == Put1(ss)
<1>1. n \in Nat /\ \A i \in 1 .. n : ss[i] \in Seq(Nat) /\ Len(ss[i]) \in Nat
  BY LenProperties, ElementOfSeq
<1>2. Len32 \in Nat
  BY CodecAssumption
<1>3. t \in Seq(Seq(Nat)) /\ Len(t) = n /\ \A i \in 1 .. n : t[i] = PutString(ss[i])
  <2>1. DOMAIN ss = 1 .. n
    BY LenProperties
  <2>2. t = [i \in 1 .. n |-> PutString(ss[i])]
    BY <2>1 DEF Put1
  <2>3. t \in Seq(Seq(Nat))
    BY PutStringsBytes
  <2> HIDE DEF t, n
  <2>4. QED
    BY <2>2, <2>3, <1>1
<1>4. \A i \in 1 .. n : t[i] \in Seq(Nat) /\ Len(t[i]) = Len32 + Len(ss[i])
  <2> SUFFICES ASSUME NEW i \in 1 .. n PROVE t[i] \in Seq(Nat) /\ Len(t[i]) = Len32 + Len(ss[i])
    OBVIOUS
  <2>1. t[i] = PutString(ss[i]) /\ ss[i] \in Seq(Nat)
    BY <1>1, <1>3
  <2>2. QED
    BY <2>1, PutStringBytes
<1> HIDE DEF t
<1>5. PICK w \in [0 .. n -> Seq(Nat)] :
          /\ w[0] = <<>>
          /\ \A k \in 1 .. n : w[k] = w[k - 1] \o t[k]
          /\ FlattenSeq(t) = w[n]
  <2> HIDE DEF n
  <2>1. \E w \in [0 .. n -> Seq(Nat)] :
          /\ w[0] = <<>>
          /\ \A k \in 1 .. n : w[k] = w[k - 1] \o t[k]
          /\ FlattenSeq(t) = w[n]
    BY <1>3, FlattenUnfolds
  <2>2. QED
    BY <2>1
<1> DEFINE Good(k) == /\ Len(w[k]) \in Nat /\ k * Len32 <= Len(w[k])
                      /\ \A i \in 1 .. k : Len(ss[i]) <= Len(w[k])
           Z == {k \in Nat : k <= n => Good(k)}
<1> HIDE DEF n
<1>6. 0 \in Z
  <2>1. Len(w[0]) = 0 /\ 0 * Len32 = 0
    BY <1>2, <1>5
  <2>2. QED
    BY <2>1
<1>7. ASSUME NEW k \in Nat, k \in Z PROVE k + 1 \in Z
  <2> SUFFICES ASSUME k + 1 <= n PROVE Good(k + 1)
    OBVIOUS
  <2>1. k \in 0 .. n /\ k + 1 \in 1 .. n /\ (k + 1) - 1 = k
    BY <1>1
  <2> DEFINE s == w[k]
             u == t[k + 1]
             x == ss[k + 1]
  <2>2. /\ s \in Seq(Nat) /\ u \in Seq(Nat) /\ Len(u) = Len32 + Len(x) /\ Len(x) \in Nat
        /\ w[k + 1] = s \o u
    BY <2>1, <1>1, <1>4, <1>5
  <2>3. /\ Len(s) \in Nat /\ k * Len32 <= Len(s)
        /\ \A i \in 1 .. k : Len(ss[i]) <= Len(s)
    BY <2>1, <1>7
  <2> HIDE DEF s, u, x
  <2>4. Len(s \o u) = Len(s) + Len(u)
    BY <2>2, ConcatBytes
  <2>5. Len(w[k + 1]) = Len(s) + (Len32 + Len(x))
    BY <2>2, <2>4, Zenon
  <2>6. \A a, b, c, d \in Nat : a * d <= b => (a + 1) * d <= b + (d + c)
    BY SMTT(30)
  <2>7. (k + 1) * Len32 <= Len(w[k + 1]) /\ Len(w[k + 1]) \in Nat
    BY <2>2, <2>3, <2>5, <2>6, <1>2
  <2>8. ASSUME NEW i \in 1 .. k + 1 PROVE Len(ss[i]) <= Len(w[k + 1])
    <3>1. CASE i \in 1 .. k
      <4>1. Len(ss[i]) <= Len(s) /\ Len(ss[i]) \in Nat
        BY <3>1, <2>1, <2>3, <1>1
      <4>2. QED
        BY <4>1, <2>2, <2>3, <2>5, <1>2
    <3>2. CASE i = k + 1
      <4>1. Len(ss[i]) = Len(x)
        BY <3>2 DEF x
      <4>2. QED
        BY <4>1, <2>2, <2>3, <2>5, <1>2
    <3>3. QED
      BY <3>1, <3>2
  <2>9. QED
    BY <2>7, <2>8
<1>8. Good(n)
  <2>1. Nat \subseteq Z
    BY <1>6, <1>7, Induction, Zenon
  <2>2. n \in Z /\ n <= n
    BY <2>1, <1>1
  <2> HIDE DEF Good
  <2>3. QED
    BY <2>2
<1>9. QED
  BY <1>5, <1>8 DEF n, t

\* A list that is there with its count before it is read.
LEMMA ListIsRead ==
    ASSUME NEW p \in Seq(Nat), Len(p) <= MaxPayload, NEW scan \in Scan(p), scan.err = "none",
           NEW ss \in Seq(Seq(Nat)), Holds(p, scan.pos, PutStrings(ss))
    PROVE  LET r == GetStrings(p, scan)
           IN  r.err = "none" /\ r.fields = scan.fields \o ss
<1> DEFINE pos == scan.pos + Len32
           count == At(p, scan.pos, Len32)
           digits == Put(Len(ss), Len32)
           flat == FlattenSeq(Put1(ss))
           r == GetStrings(p, scan)
<1>1. /\ Len(p) \in Nat /\ scan.pos \in Nat /\ Len32 \in Nat \ {0} /\ pos \in Nat
      /\ Len(ss) \in Nat /\ IntMax \in Nat /\ MaxPayload \in Nat /\ MaxPayload <= IntMax
      /\ Power[Len32] \in Nat /\ MaxPayload < Power[Len32]
  <2>1. scan.pos \in Nat
    BY LenProperties DEF Scan
  <2>2. Power[Len32] \in Nat
    BY Powers, CodecAssumption
  <2>3. Len(p) \in Nat /\ Len(ss) \in Nat
    BY LenProperties
  <2>4. QED
    BY <2>1, <2>2, <2>3, CodecAssumption
<1>2. flat \in Seq(Nat) /\ Len(flat) \in Nat /\ Len(ss) * Len32 <= Len(flat)
      /\ \A i \in 1 .. Len(ss) : Len(ss[i]) <= Len(flat)
  BY FlattenLengths, PutStringsBytes, FlattenBytes
<1>3. PutStrings(ss) = digits \o flat
  BY DEF PutStrings, Put1
<1>4. digits \in Seq(Nat) /\ Len(digits) = Len32
  BY <1>1, PutBytes
<1> HIDE DEF digits, flat
<1>5. Holds(p, scan.pos, digits) /\ Holds(p, pos, flat)
  BY <1>1, <1>2, <1>3, <1>4, HoldsBoth, ZenonT(30)
<1>6. pos <= Len(p) /\ Len(flat) <= Len(p) - pos
  <2>1. pos + Len(flat) <= Len(p)
    BY <1>5 DEF Holds
  <2> HIDE DEF pos
  <2>2. QED
    BY <2>1, <1>1, <1>2
<1>7. Len(ss) <= Len(flat) /\ ~(Len(ss) > (Len(p) - pos) \div Len32)
  <2>1. \A a, m \in Nat, b \in Nat \ {0} : a * b <= m => a <= m /\ a <= m \div b
    BY SMTT(30)
  <2>2. Len(p) - pos \in Nat /\ Len(ss) * Len32 <= Len(p) - pos
    <3>1. \A i, j, k \in Int : i <= j /\ j <= k => i <= k
      OBVIOUS
    <3>2. Len(ss) * Len32 \in Int
      <4>1. \A i, j \in Nat : i * j \in Int
        OBVIOUS
      <4>2. QED
        BY <4>1, <1>1
    <3>3. Len(p) - pos \in Nat
      BY <1>1, <1>2, <1>6, SMTT(30)
    <3>4. QED
      BY <3>1, <3>2, <3>3, <1>2, <1>6
  <2>3. Len(ss) <= Len(flat)
    BY <2>1, <1>1, <1>2
  <2>4. Len(ss) <= (Len(p) - pos) \div Len32
    BY <2>1, <2>2, <1>1
  <2>5. (Len(p) - pos) \div Len32 \in Nat
    <3>1. \A a \in Nat, b \in Nat \ {0} : (a \div b) \in Nat
      OBVIOUS
    <3>2. QED
      BY <3>1, <2>2, <1>1
  <2>6. QED
    BY <2>3, <2>4, <2>5, <1>1
<1>8. Len(ss) < Power[Len32] /\ \A i \in 1 .. Len(ss) : Len(ss[i]) < Power[Len32]
  <2>1. Len(flat) < Power[Len32]
    BY <1>1, <1>2, <1>6, SMTT(30)
  <2>2. \A i \in 1 .. Len(ss) : Len(ss[i]) \in Nat
    BY LenProperties, ElementOfSeq
  <2>3. Len(ss) < Power[Len32]
    BY <2>1, <1>1, <1>2, <1>7
  <2>4. \A i \in 1 .. Len(ss) : Len(ss[i]) < Power[Len32]
    BY <2>1, <2>2, <1>1, <1>2
  <2>5. QED
    BY <2>3, <2>4
<1>9. count = Len(ss)
  <2>1. SubSeq(p, scan.pos + 1, scan.pos + Len(digits)) = digits
    BY <1>1, <1>4, <1>5, PartHeld
  <2>2. Number(digits) = Len(ss)
    BY <1>1, <1>8, NumberOfPut DEF digits
  <2>3. QED
    BY <2>1, <2>2, <1>4 DEF At
<1>10. r = IF count > (Len(p) - pos) \div Len32 THEN Fail(scan, "truncated")
           ELSE Strings(p, Reserved(scan, pos, count), count)
  BY <1>1, <1>6 DEF GetStrings, TooFew, Strings, Reserved, FoldLeft, MapThenFoldSet
<1> HIDE DEF r, count, pos
<1> DEFINE base == Reserved(scan, pos, count)
<1>11. r = Strings(p, base, Len(ss))
  BY <1>7, <1>9, <1>10
<1>12. base \in Scan(p) /\ base.err = "none" /\ base.pos = pos /\ base.fields = scan.fields
  <2>1. pos \in 0 .. Len(p) /\ count \in Nat
    BY <1>1, <1>6, <1>9
  <2>2. base = [err |-> scan.err, pos |-> pos, fields |-> scan.fields, room |-> count]
    BY <2>1, ReservedIs
  <2>3. base \in Scan(p)
    BY <2>1, ReservedIs
  <2> HIDE DEF base
  <2>4. QED
    BY <2>2, <2>3
<1> HIDE DEF base
<1>13. r = Read(base, ss, flat)
  <2>1. Len(p) <= IntMax
    BY <1>1
  <2>2. Holds(p, base.pos, flat)
    BY <1>5, <1>12
  <2>3. QED
    BY <2>1, <2>2, <1>8, <1>11, <1>12, StringsAreRead DEF flat
<1>14. r.err = "none" /\ r.fields = base.fields \o ss
  BY <1>13 DEF Read
<1>15. QED
  BY <1>12, <1>14 DEF r


\* What is at the beginning of p is there.
LEMMA HoldsItself ==
    ASSUME NEW s \in Seq(Nat), NEW t \in Seq(Nat)
    PROVE  /\ Holds(s \o t, 0, s) /\ Holds(s \o t, Len(s), t) /\ Holds(s, 0, s)
           /\ 0 + Len(s) = Len(s) /\ s \o t \in Seq(Nat)
           /\ Len(s \o t) = Len(s) + Len(t) /\ Len(s) \in Nat /\ Len(t) \in Nat
<1> DEFINE p == s \o t
<1>1. /\ p \in Seq(Nat) /\ Len(p) = Len(s) + Len(t) /\ Len(s) \in Nat /\ Len(t) \in Nat
      /\ \A i \in 1 .. Len(s) : p[i] = s[i]
      /\ \A i \in 1 .. Len(t) : p[Len(s) + i] = t[i]
  BY ConcatBytes
<1> HIDE DEF p
<1>2. Holds(p, 0, s) /\ Holds(s, 0, s)
  BY <1>1 DEF Holds
<1>3. Holds(p, Len(s), t)
  BY <1>1 DEF Holds
<1>4. QED
  BY <1>1, <1>2, <1>3 DEF p

\* The round trip of a request to publish.
THEOREM PublishRoundTrip ==
    ASSUME NEW topic \in Seq(Nat), NEW x \in Seq(Nat), Fits(EncodePublish(topic, x))
    PROVE  LET r == DecodePublish(EncodePublish(topic, x))
           IN  r.err = "none" /\ Len(r.fields) = 2 /\ r.fields[1] = topic /\ r.fields[2] = x
<1> DEFINE s == PutString(topic)
           t == PutString(x)
           p == s \o t
<1>1. /\ s \in Seq(Nat) /\ t \in Seq(Nat) /\ Len(s) = Len32 + Len(topic) /\ Len(t) = Len32 + Len(x)
      /\ Len(topic) \in Nat /\ Len(x) \in Nat /\ Len32 \in Nat
  BY PutStringBytes, LenProperties, CodecAssumption
<1>2. Len(p) <= MaxPayload /\ p = EncodePublish(topic, x)
  BY DEF Fits, EncodePublish
<1> HIDE DEF s, t
<1>3. Len(p) = Len(s) + Len(t) /\ p \in Seq(Nat) /\ Holds(p, 0, s) /\ Holds(p, Len(s), t)
      /\ Len(s) \in Nat /\ Len(t) \in Nat
  BY <1>1, HoldsItself, Zenon
<1> HIDE DEF p
<1>4. Len(p) <= IntMax /\ Len(topic) < Power[Len32] /\ Len(x) < Power[Len32]
  <2>1. MaxPayload \in Nat /\ IntMax \in Nat /\ MaxPayload <= IntMax
        /\ Power[Len32] \in Nat /\ MaxPayload < Power[Len32]
    BY Powers, CodecAssumption
  <2>2. QED
    BY <2>1, <1>1, <1>2, <1>3
<1>5. From(0) \in Scan(p) /\ From(0).err = "none" /\ From(0).fields = <<>> /\ From(0).pos = 0
  BY <1>3, FromAndSkip
<1> DEFINE first == Found(From(0), topic)
<1>6. GetString(p, From(0)) = first
  BY <1>3, <1>4, <1>5, StringIsRead DEF s
<1>7. first \in Scan(p)
  BY <1>3, <1>5, <1>6, GetStringProperties
<1>8. first.err = "none" /\ first.pos = Len(s) /\ first.fields = <<topic>>
  <2>1. 0 + (Len32 + Len(topic)) = Len(s)
    BY <1>1
  <2>2. Append(<<>>, topic) = <<topic>>
    OBVIOUS
  <2>3. first.err = "none" /\ first.pos = From(0).pos + (Len32 + Len(topic))
        /\ first.fields = Append(From(0).fields, topic)
    BY DEF Found
  <2>4. QED
    BY <2>1, <2>2, <2>3, <1>5
<1> HIDE DEF first
<1>9. GetString(p, first) = Found(first, x)
  BY <1>3, <1>4, <1>7, <1>8, StringIsRead DEF t
<1>10. DecodePublish(p) = Found(first, x)
  BY <1>6, <1>9 DEF DecodePublish
<1>11. Found(first, x).err = "none" /\ Found(first, x).fields = Append(<<topic>>, x)
  BY <1>8 DEF Found
<1>12. Len(Append(<<topic>>, x)) = 2 /\ Append(<<topic>>, x)[1] = topic
       /\ Append(<<topic>>, x)[2] = x
  OBVIOUS
<1>13. QED
  BY <1>2, <1>10, <1>11, <1>12

\* The round trip of a request to publish a batch.
THEOREM PublishBatchRoundTrip ==
    ASSUME NEW topic \in Seq(Nat), NEW xs \in Seq(Seq(Nat)),
           Fits(EncodePublishBatch(topic, xs))
    PROVE  LET r == DecodePublishBatch(EncodePublishBatch(topic, xs))
           IN  r.err = "none" /\ r.fields[1] = topic /\ Tail(r.fields) = xs
<1> DEFINE s == PutString(topic)
           t == PutStrings(xs)
           p == s \o t
<1>1. /\ s \in Seq(Nat) /\ t \in Seq(Nat) /\ Len(s) = Len32 + Len(topic)
      /\ Len(topic) \in Nat /\ Len32 \in Nat
  BY PutStringBytes, PutStringsBytes, LenProperties, CodecAssumption
<1>2. Len(p) <= MaxPayload /\ p = EncodePublishBatch(topic, xs)
  BY DEF Fits, EncodePublishBatch
<1> HIDE DEF s, t
<1>3. Len(p) = Len(s) + Len(t) /\ p \in Seq(Nat) /\ Holds(p, 0, s) /\ Holds(p, Len(s), t)
      /\ Len(s) \in Nat /\ Len(t) \in Nat
  BY <1>1, HoldsItself, Zenon
<1> HIDE DEF p
<1>4. Len(p) <= IntMax /\ Len(topic) < Power[Len32]
  <2>1. MaxPayload \in Nat /\ IntMax \in Nat /\ MaxPayload <= IntMax
        /\ Power[Len32] \in Nat /\ MaxPayload < Power[Len32]
    BY Powers, CodecAssumption
  <2>2. QED
    BY <2>1, <1>1, <1>2, <1>3
<1>5. From(0) \in Scan(p) /\ From(0).err = "none" /\ From(0).fields = <<>> /\ From(0).pos = 0
  BY <1>3, FromAndSkip
<1> DEFINE first == Found(From(0), topic)
<1>6. GetString(p, From(0)) = first
  BY <1>3, <1>4, <1>5, StringIsRead DEF s
<1>7. first \in Scan(p)
  BY <1>3, <1>5, <1>6, GetStringProperties
<1>8. first.err = "none" /\ first.pos = Len(s) /\ first.fields = <<topic>>
  <2>1. 0 + (Len32 + Len(topic)) = Len(s)
    BY <1>1
  <2>2. Append(<<>>, topic) = <<topic>>
    OBVIOUS
  <2>3. first.err = "none" /\ first.pos = From(0).pos + (Len32 + Len(topic))
        /\ first.fields = Append(From(0).fields, topic)
    BY DEF Found
  <2>4. QED
    BY <2>1, <2>2, <2>3, <1>5
<1> HIDE DEF first
<1>9. LET r == GetStrings(p, first) IN r.err = "none" /\ r.fields = first.fields \o xs
  BY <1>2, <1>3, <1>7, <1>8, ListIsRead DEF t
<1>10. DecodePublishBatch(p) = GetStrings(p, first)
  BY <1>6 DEF DecodePublishBatch
<1>11. (<<topic>> \o xs)[1] = topic /\ Tail(<<topic>> \o xs) = xs
  BY TailOfConcat
<1>12. QED
  BY <1>2, <1>8, <1>9, <1>10, <1>11

\* The round trip of a list of topics.
THEOREM TopicsRoundTrip ==
    ASSUME NEW names \in Seq(Seq(Nat)), Fits(EncodeTopics(names))
    PROVE  LET r == DecodeTopics(EncodeTopics(names))
           IN  r.err = "none" /\ r.fields = names
<1> DEFINE p == PutStrings(names)
<1>1. p \in Seq(Nat) /\ p = EncodeTopics(names) /\ Len(p) <= MaxPayload
  BY PutStringsBytes DEF EncodeTopics, Fits
<1>2. From(0) \in Scan(p) /\ From(0).err = "none" /\ From(0).fields = <<>> /\ From(0).pos = 0
  BY <1>1, FromAndSkip
<1>3. Holds(p, 0, p)
  <2> HIDE DEF p
  <2>1. QED
    BY <1>1, HoldsItself
<1>4. LET r == GetStrings(p, From(0)) IN r.err = "none" /\ r.fields = From(0).fields \o names
  BY <1>1, <1>2, <1>3, ListIsRead
<1>5. DecodeTopics(p) = GetStrings(p, From(0))
  BY DEF DecodeTopics
<1>6. <<>> \o names = names
  BY ConcatEmptySeq
<1> HIDE DEF p
<1>7. QED
  BY <1>1, <1>2, <1>4, <1>5, <1>6

\* The round trip of an integer with a string behind it: of a pushed message and
\* of an error.
LEMMA NumberedRoundTrip ==
    ASSUME NEW n \in Nat, NEW w \in Nat, n < Power[w], NEW x \in Seq(Nat),
           Len(Put(n, w) \o PutString(x)) <= MaxPayload
    PROVE  LET p == Put(n, w) \o PutString(x)
               r == GetString(p, Skip(p, w))
           IN  r.err = "none" /\ r.fields = <<x>> /\ At(p, 0, w) = n
<1> DEFINE s == Put(n, w)
           t == PutString(x)
           p == s \o t
<1>1. /\ s \in Seq(Nat) /\ t \in Seq(Nat) /\ Len(s) = w /\ Len(t) = Len32 + Len(x)
      /\ Len(x) \in Nat /\ Len32 \in Nat /\ Number(s) = n
  BY PutBytes, NumberOfPut, PutStringBytes, LenProperties, CodecAssumption
<1>2. Len(p) <= MaxPayload
  OBVIOUS
<1> HIDE DEF s, t
<1>3. Len(p) = Len(s) + Len(t) /\ p \in Seq(Nat) /\ Holds(p, 0, s) /\ Holds(p, Len(s), t)
      /\ Len(s) \in Nat /\ Len(t) \in Nat /\ 0 + Len(s) = Len(s)
  BY <1>1, HoldsItself, Zenon
<1> HIDE DEF p
<1>4. Len(p) <= IntMax /\ Len(x) < Power[Len32] /\ w <= Len(p)
  <2>1. MaxPayload \in Nat /\ IntMax \in Nat /\ MaxPayload <= IntMax
        /\ Power[Len32] \in Nat /\ MaxPayload < Power[Len32]
    BY Powers, CodecAssumption
  <2>2. QED
    BY <2>1, <1>1, <1>2, <1>3
<1> DEFINE scan == Skip(p, w)
<1>5. scan = From(w) /\ scan \in Scan(p)
  BY <1>3, <1>4, FromAndSkip
<1>6. scan.err = "none" /\ scan.pos = w /\ scan.fields = <<>>
  BY <1>5 DEF From
<1> HIDE DEF scan
<1>7. GetString(p, scan) = Found(scan, x)
  BY <1>1, <1>3, <1>4, <1>5, <1>6, StringIsRead DEF t
<1>8. Append(<<>>, x) = <<x>>
  OBVIOUS
<1>9. Found(scan, x).err = "none" /\ Found(scan, x).fields = <<x>>
  BY <1>6, <1>8 DEF Found
<1>10. At(p, 0, w) = n
  <2>1. SubSeq(p, 0 + 1, 0 + Len(s)) = s
    BY <1>1, <1>3, PartHeld
  <2>2. QED
    BY <2>1, <1>1 DEF At
<1>11. QED
  BY <1>7, <1>9, <1>10 DEF scan, p, s, t

\* The round trips of a pushed message and of an error.
THEOREM MessageRoundTrip ==
    ASSUME NEW offset \in Nat, offset < Power[Len64], NEW x \in Seq(Nat),
           Fits(EncodeMessage(offset, x))
    PROVE  LET p == EncodeMessage(offset, x)
           IN  /\ DecodeMessage(p).err = "none" /\ DecodeMessage(p).fields = <<x>>
               /\ At(p, 0, Len64) = offset
BY NumberedRoundTrip, CodecAssumption DEF EncodeMessage, DecodeMessage, Fits

\* An error comes back with its code.
THEOREM ErrorRoundTrip ==
    ASSUME NEW code \in Nat, code < Power[Len16], NEW x \in Seq(Nat), Fits(EncodeError(code, x))
    PROVE  LET p == EncodeError(code, x)
           IN  /\ DecodeError(p).err = "none" /\ DecodeError(p).fields = <<x>>
               /\ At(p, 0, Len16) = code
BY NumberedRoundTrip, CodecAssumption DEF EncodeError, DecodeError, Fits


\* A stream s that t follows begins with f, and rest follows f.
BeginsWith(s, t, f, rest) ==
    LET tail == SubSeq(s, Len(f) + 1, Len(s))
    IN  tail \in Seq(Nat) /\ s = f \o tail /\ tail \o t = rest /\ Holds(s, 0, f)

\* Of two ways to take a sequence apart, the shorter beginning is in the longer.
LEMMA CommonPart ==
    ASSUME NEW s \in Seq(Nat), NEW t \in Seq(Nat), NEW f \in Seq(Nat), NEW rest \in Seq(Nat),
           s \o t = f \o rest, Len(f) <= Len(s)
    PROVE  BeginsWith(s, t, f, rest)
<1> DEFINE p == s \o t
           q == f \o rest
           tail == SubSeq(s, Len(f) + 1, Len(s))
<1>1. /\ p \in Seq(Nat) /\ Len(s) \in Nat /\ Len(f) \in Nat
      /\ \A i \in 1 .. Len(s) : p[i] = s[i]
      /\ \A i \in 1 .. Len(f) : q[i] = f[i]
  BY ConcatBytes
<1>2. p = q
  OBVIOUS
<1> HIDE DEF p, q
<1>3. Holds(s, 0, f)
  BY <1>1, <1>2 DEF Holds
<1>4. tail \in Seq(Nat)
  <2>1. Len(s) <= Len(s)
    BY <1>1
  <2>2. QED
    BY <2>1, <1>1, PartOfSeq
<1>5. SubSeq(s, 1, Len(f)) = f
  <2>1. SubSeq(s, 0 + 1, 0 + Len(f)) = f
    BY <1>3, PartHeld
  <2>2. 0 + 1 = 1 /\ 0 + Len(f) = Len(f)
    BY <1>1
  <2>3. QED
    BY <2>1, <2>2, Zenon
<1>6. SubSeq(s, 1, Len(f)) \o SubSeq(s, Len(f) + 1, Len(s)) = SubSeq(s, 1, Len(s))
  <2>1. 1 \in 1 .. Len(s) + 1 /\ Len(f) \in 1 - 1 .. Len(s) /\ Len(s) \in Len(f) .. Len(s)
    BY <1>1
  <2>2. QED
    BY <2>1, ConcatAdjacentSubSeq
<1>7. s = f \o tail
  BY <1>5, <1>6, SubSeqFull
<1> HIDE DEF tail, BeginsWith
<1>8. f \o (tail \o t) = f \o rest
  <2>1. (f \o tail) \o t = f \o (tail \o t)
    <3>1. f \in Seq(Nat) /\ tail \in Seq(Nat) /\ t \in Seq(Nat)
      BY <1>4
    <3>2. QED
      BY <3>1, ConcatAssociative, SMTT(60)
  <2>2. QED
    BY <2>1, <1>7
<1>9. tail \o t \in Seq(Nat)
  BY <1>4, ConcatBytes
<1>10. tail \o t = rest
  <2>1. \A S : \A a, b, c \in Seq(S) : a \o b = a \o c => b = c
    BY ConcatSimplifications
  <2>2. QED
    BY <2>1, <1>8, <1>9
<1>11. QED
  BY <1>3, <1>4, <1>7, <1>10 DEF tail, BeginsWith

\* A header that is there is read.
LEMMA HeaderIsRead ==
    ASSUME NEW s \in Seq(Nat), NEW op \in Nat, NEW n \in Nat, n < Power[Len32],
           Holds(s, 0, Header(op, n))
    PROVE  /\ Len(s) >= HeaderLen
           /\ ReadHeader(s) = IF n > MaxPayload THEN [err |-> "toolarge", op |-> 0, n |-> 0]
                              ELSE [err |-> "none", op |-> op, n |-> n]
<1> DEFINE intro == <<Magic, Version, op>>
           digits == Put(n, Len32)
<1>1. {Magic, Version} \subseteq Nat /\ Len32 \in Nat /\ MaxPayload \in Nat
      /\ IntMax \in Nat /\ MaxPayload <= IntMax
  BY CodecAssumption
<1>2. intro \in Seq(Nat) /\ Len(intro) = 3
      /\ intro[1] = Magic /\ intro[2] = Version /\ intro[3] = op
  BY <1>1
<1>3. digits \in Seq(Nat) /\ Len(digits) = Len32 /\ Number(digits) = n
  BY <1>1, PutBytes, NumberOfPut
<1>4. Header(op, n) = intro \o digits
  BY DEF Header
<1> HIDE DEF intro, digits
<1>5. Holds(s, 0, intro) /\ Holds(s, 0 + Len(intro), digits)
  <2>1. Holds(s, 0, intro \o digits) /\ 0 \in Nat
    BY <1>4, Zenon
  <2>2. QED
    BY <2>1, <1>2, <1>3, HoldsBoth
<1>6. Holds(s, 3, digits) /\ 0 + 3 = 3
  BY <1>2, <1>5
<1>7. Len(s) >= HeaderLen
  <2>1. 3 + Len32 <= Len(s) /\ Len(s) \in Nat
    BY <1>3, <1>6, LenProperties DEF Holds
  <2>2. QED
    BY <2>1, <1>1 DEF HeaderLen
<1>8. s[1] = Magic /\ s[2] = Version /\ s[3] = op
  <2>1. \A i \in 1 .. 3 : s[0 + i] = intro[i]
    BY <1>2, <1>5 DEF Holds
  <2>2. 1 \in 1 .. 3 /\ 2 \in 1 .. 3 /\ 3 \in 1 .. 3 /\ 0 + 1 = 1 /\ 0 + 2 = 2 /\ 0 + 3 = 3
    OBVIOUS
  <2>3. s[1] = intro[1] /\ s[2] = intro[2] /\ s[3] = intro[3]
    <3>1. s[0 + 1] = intro[1] /\ s[0 + 2] = intro[2] /\ s[0 + 3] = intro[3]
      BY <2>1, <2>2, Zenon
    <3>2. QED
      BY <3>1, <2>2, Zenon
  <2>4. QED
    BY <2>3, <1>2, Zenon
<1>9. At(s, 3, Len32) = n
  <2>1. SubSeq(s, 3 + 1, 3 + Len(digits)) = digits
    BY <1>3, <1>6, PartHeld
  <2>2. QED
    BY <2>1, <1>3 DEF At
<1>10. n <= IntMax => ToInt(n) = n
  BY ToIntProperties
<1>11. HeaderLen \in Nat /\ Len(s) \in Nat
  BY <1>1, LenProperties DEF HeaderLen
<1>12. ReadHeader(s) = IF n > MaxPayload THEN [err |-> "toolarge", op |-> 0, n |-> 0]
                       ELSE [err |-> "none", op |-> op, n |-> ToInt(n)]
  BY <1>7, <1>8, <1>9, <1>11 DEF ReadHeader, TooLong
<1>13. ~(n > MaxPayload) => ToInt(n) = n
  BY <1>1, <1>10
<1>14. QED
  BY <1>7, <1>12, <1>13

\* Of stream s, that t follows, a frame is read, with the rest behind it, or it
\* is not there yet.
FrameFirst(s, t, op, payload, rest) ==
    LET f == EncodeFrame(op, payload)
    IN  /\ Len(s) < Len(f) => ReadFrame(s).err = "truncated"
        /\ Len(f) <= Len(s) =>
              /\ ReadFrame(s) = [err |-> "none", op |-> op, payload |-> payload]
              /\ AfterFrame(s) \in Seq(Nat)
              /\ s = f \o AfterFrame(s)
              /\ AfterFrame(s) \o t = rest

\* What is read of a stream that begins with a frame, or with a part of it.
LEMMA FrameIsRead ==
    ASSUME NEW s \in Seq(Nat), NEW t \in Seq(Nat), NEW op \in Nat, NEW payload \in Seq(Nat),
           NEW rest \in Seq(Nat), Fits(payload),
           NEW f, f = EncodeFrame(op, payload), s \o t = f \o rest
    PROVE  FrameFirst(s, t, op, payload, rest)
<1> DEFINE n == Len(payload)
           header == Header(op, n)
           r == ReadFrame(s)
<1>1. /\ f \in Seq(Nat) /\ Len(f) = HeaderLen + n /\ HeaderLen \in Nat
      /\ header \in Seq(Nat) /\ Len(header) = HeaderLen
  BY FrameBytes
<1>2. n \in Nat /\ Len(s) \in Nat /\ n < Power[Len32] /\ n <= MaxPayload /\ MaxPayload \in Nat
  <2>1. n \in Nat /\ Len(s) \in Nat /\ n <= MaxPayload
    BY LenProperties DEF Fits
  <2>2. MaxPayload \in Nat /\ Power[Len32] \in Nat /\ MaxPayload < Power[Len32]
    BY Powers, CodecAssumption
  <2> HIDE DEF n
  <2>3. QED
    BY <2>1, <2>2
<1>3. f = header \o payload
  BY DEF EncodeFrame
<1>4. /\ ReadHeader(s).err # "none" => r.err = ReadHeader(s).err
      /\ Len(s) < HeaderLen => ReadHeader(s).err = "truncated"
  <2>1. Len(s) < HeaderLen => ReadHeader(s).err = "truncated"
    <3>1. ASSUME Len(s) < HeaderLen
          PROVE  ReadHeader(s) = [err |-> "truncated", op |-> 0, n |-> 0]
      <4>1. ~(Len(s) >= HeaderLen)
        BY <3>1, <1>1, <1>2
      <4>2. QED
        BY <3>1, <4>1 DEF ReadHeader
    <3>2. QED
      BY <3>1
  <2>2. ReadHeader(s).err # "none" => r.err = ReadHeader(s).err
    BY DEF ReadFrame
  <2>3. QED
    BY <2>1, <2>2
<1> HIDE DEF n, header
<1>5. ASSUME HeaderLen <= Len(s)
      PROVE  ReadHeader(s) = [err |-> "none", op |-> op, n |-> n]
  <2>1. s \o t = header \o (payload \o rest) /\ payload \o rest \in Seq(Nat)
    <3>1. (header \o payload) \o rest = header \o (payload \o rest)
      <4>1. header \in Seq(Nat) /\ payload \in Seq(Nat) /\ rest \in Seq(Nat)
        BY <1>1
      <4> HIDE DEF r
      <4>2. QED
        BY <4>1, ConcatAssociative, SMTT(60)
    <3>2. payload \o rest \in Seq(Nat)
      BY ConcatBytes
    <3>3. s \o t = (header \o payload) \o rest
      BY <1>3, Zenon
    <3>4. QED
      BY <3>1, <3>2, <3>3, Zenon
  <2>2. Holds(s, 0, header)
    <3>1. HeaderLen <= Len(s) /\ Len(header) <= Len(s)
      BY <1>1, <1>5
    <3>2. header \in Seq(Nat)
      BY <1>1
    <3>3. BeginsWith(s, t, header, payload \o rest)
      BY <3>1, <3>2, <2>1, CommonPart, Zenon
    <3>4. QED
      BY <3>3, Zenon DEF BeginsWith
  <2>3. ReadHeader(s) = IF n > MaxPayload THEN [err |-> "toolarge", op |-> 0, n |-> 0]
                        ELSE [err |-> "none", op |-> op, n |-> n]
    BY <2>2, <1>2, HeaderIsRead DEF header
  <2>4. QED
    BY <2>3, <1>2
<1>6. ASSUME Len(s) < Len(f) PROVE r.err = "truncated"
  <2>1. CASE Len(s) < HeaderLen
    BY <2>1, <1>4
  <2>2. CASE HeaderLen <= Len(s)
    <3>1. ReadHeader(s).err = "none" /\ ReadHeader(s).n = n
      BY <2>2, <1>5
    <3>2. Len(s) < HeaderLen + n /\ ~(n < 0)
      BY <1>1, <1>2, <1>6
    <3>3. QED
      BY <3>1, <3>2 DEF ReadFrame
  <2>3. QED
    BY <2>1, <2>2, <1>1, <1>2
<1>7. ASSUME Len(f) <= Len(s)
      PROVE  /\ r = [err |-> "none", op |-> op, payload |-> payload]
             /\ AfterFrame(s) \in Seq(Nat)
             /\ s = f \o AfterFrame(s)
             /\ AfterFrame(s) \o t = rest
  <2> DEFINE tail == SubSeq(s, Len(f) + 1, Len(s))
  <2>1. tail \in Seq(Nat) /\ s = f \o tail /\ tail \o t = rest /\ Holds(s, 0, f)
    <3>1. f \in Seq(Nat) /\ Len(f) <= Len(s)
      BY <1>1, <1>7
    <3>2. BeginsWith(s, t, f, rest)
      BY <3>1, CommonPart, Zenon
    <3>3. QED
      BY <3>2, Zenon DEF BeginsWith
  <2>2. HeaderLen <= Len(s) /\ HeaderLen + n <= Len(s)
    BY <1>1, <1>2, <1>7
  <2>3. ReadHeader(s) = [err |-> "none", op |-> op, n |-> n]
    BY <2>2, <1>5
  <2>4. SubSeq(s, HeaderLen + 1, HeaderLen + n) = payload
    <3>1. Holds(s, 0 + Len(header), payload)
      BY <2>1, <1>1, <1>3, HoldsBoth
    <3>2. 0 + Len(header) = HeaderLen
      BY <1>1
    <3>3. Holds(s, HeaderLen, payload)
      BY <3>1, <3>2
    <3>4. QED
      BY <3>3, <1>1, PartHeld DEF n
  <2>5. r = [err |-> "none", op |-> op, payload |-> payload]
    <3>1. ReadHeader(s).err = "none" /\ ReadHeader(s).n = n /\ ReadHeader(s).op = op
      BY <2>3
    <3>2. ~(n < 0) /\ ~(Len(s) < HeaderLen + n)
      BY <2>2, <1>1, <1>2
    <3>3. QED
      BY <3>1, <3>2, <2>4 DEF ReadFrame
  <2>6. AfterFrame(s) = tail
    <3>1. r.payload = payload
      BY <2>5
    <3>2. HeaderLen + Len(r.payload) = Len(f)
      BY <3>1, <1>1 DEF n
    <3>3. QED
      BY <3>2 DEF AfterFrame
  <2> HIDE DEF tail, r
  <2>7. QED
    BY <2>1, <2>5, <2>6
<1>8. ~(Len(s) < Len(f) /\ Len(f) <= Len(s))
  BY <1>1, <1>2
<1>9. QED
  BY <1>6, <1>7 DEF r, FrameFirst

\* A frame comes through as it was sent, and leaves what is behind it.
THEOREM FrameRoundTrip ==
    ASSUME NEW op \in Nat, NEW payload \in Seq(Nat), Fits(payload), NEW rest \in Seq(Nat)
    PROVE  LET s == EncodeFrame(op, payload) \o rest
           IN  /\ ReadFrame(s) = [err |-> "none", op |-> op, payload |-> payload]
               /\ AfterFrame(s) = rest
<1> DEFINE f == EncodeFrame(op, payload)
           s == f \o rest
<1>1. f \in Seq(Nat)
  BY FrameBytes
<1> HIDE DEF f
<1>2. s \in Seq(Nat) /\ s \o <<>> = s /\ <<>> \in Seq(Nat) /\ Len(f) <= Len(s)
  <2>1. s \in Seq(Nat) /\ Len(s) = Len(f) + Len(rest) /\ Len(f) \in Nat /\ Len(rest) \in Nat
    BY <1>1, ConcatBytes
  <2> HIDE DEF s
  <2>2. s \o <<>> = s
    BY <2>1, ConcatEmptySeq
  <2>3. QED
    BY <2>1, <2>2
<1>3. /\ ReadFrame(s) = [err |-> "none", op |-> op, payload |-> payload]
      /\ AfterFrame(s) \in Seq(Nat)
      /\ AfterFrame(s) \o <<>> = rest
  <2> DEFINE e == <<>>
  <2>1. f = EncodeFrame(op, payload)
    BY DEF f
  <2>2. e \in Seq(Nat) /\ s \in Seq(Nat) /\ s \o e = f \o rest /\ Len(f) <= Len(s)
    BY <1>2
  <2> HIDE DEF s, e
  <2>3. /\ ReadFrame(s) = [err |-> "none", op |-> op, payload |-> payload]
        /\ AfterFrame(s) \in Seq(Nat)
        /\ AfterFrame(s) \o e = rest
    <3>1. FrameFirst(s, e, op, payload, rest)
      BY <2>1, <2>2, FrameIsRead, Zenon
    <3>2. QED
      BY <3>1, <2>1, <2>2, Zenon DEF FrameFirst
  <2>4. QED
    BY <2>3 DEF e
<1>4. AfterFrame(s) \o <<>> = AfterFrame(s)
  BY <1>3, ConcatEmptySeq
<1>5. QED
  BY <1>3, <1>4 DEF f

\* A frame that is too long is recognised by its header.
LEMMA LongFrameIsRead ==
    ASSUME NEW op \in Nat, NEW payload \in Seq(Nat), ~Fits(payload), Len(payload) < Power[Len32]
    PROVE  ReadFrame(EncodeFrame(op, payload)).err = "toolarge"
<1> DEFINE n == Len(payload)
           header == Header(op, n)
           f == EncodeFrame(op, payload)
<1>1. /\ f \in Seq(Nat) /\ header \in Seq(Nat)
  BY FrameBytes
<1>2. n \in Nat /\ n > MaxPayload
  BY LenProperties, CodecAssumption DEF Fits
<1>3. Holds(f, 0, header)
  <2>1. f = header \o payload
    BY DEF EncodeFrame
  <2> HIDE DEF f, header
  <2>2. QED
    BY <2>1, <1>1, HoldsItself
<1>4. ReadHeader(f) = [err |-> "toolarge", op |-> 0, n |-> 0]
  <2> HIDE DEF f
  <2>1. QED
    BY <1>1, <1>2, <1>3, HeaderIsRead
<1> HIDE DEF f
<1>5. ReadFrame(f).err = "toolarge"
  BY <1>4 DEF ReadFrame
<1>6. QED
  BY <1>5 DEF f

\* Flattening goes through concatenation.
LEMMA FlattenConcat ==
    ASSUME NEW ss \in Seq(Seq(Nat)), NEW tt \in Seq(Seq(Nat))
    PROVE  FlattenSeq(ss \o tt) = FlattenSeq(ss) \o FlattenSeq(tt)
<1> DEFINE n == Len(ss)
           l == Len(tt)
           uu == ss \o tt
           x == FlattenSeq(ss)
<1>1. /\ uu \in Seq(Seq(Nat)) /\ Len(uu) = n + l /\ n \in Nat /\ l \in Nat
      /\ \A i \in 1 .. n : uu[i] = ss[i]
      /\ \A i \in 1 .. l : uu[n + i] = tt[i]
      /\ \A i \in 1 .. l : tt[i] \in Seq(Nat)
  BY ConcatBytes, ElementOfSeq
<1> HIDE DEF uu, n, l
<1>2. PICK v \in [0 .. n -> Seq(Nat)] :
         v[0] = <<>> /\ (\A k \in 1 .. n : v[k] = v[k - 1] \o ss[k]) /\ x = v[n]
  BY FlattenUnfolds DEF n
<1>3. PICK w \in [0 .. l -> Seq(Nat)] :
         w[0] = <<>> /\ (\A k \in 1 .. l : w[k] = w[k - 1] \o tt[k]) /\ FlattenSeq(tt) = w[l]
  BY FlattenUnfolds DEF l
<1>4. PICK u \in [0 .. n + l -> Seq(Nat)] :
         u[0] = <<>> /\ (\A k \in 1 .. n + l : u[k] = u[k - 1] \o uu[k])
         /\ FlattenSeq(uu) = u[n + l]
  <2>1. \E u \in [0 .. Len(uu) -> Seq(Nat)] :
           u[0] = <<>> /\ (\A k \in 1 .. Len(uu) : u[k] = u[k - 1] \o uu[k])
           /\ FlattenSeq(uu) = u[Len(uu)]
    BY <1>1, FlattenUnfolds
  <2>2. QED
    BY <2>1, <1>1
<1> HIDE DEF x
<1>5. \A k \in Nat : k <= n => u[k] = v[k]
  <2> DEFINE Z == {k \in Nat : k <= n => u[k] = v[k]}
  <2>1. 0 \in Z
    BY <1>2, <1>4
  <2>2. ASSUME NEW k \in Nat, k \in Z PROVE k + 1 \in Z
    <3> SUFFICES ASSUME k + 1 <= n PROVE u[k + 1] = v[k + 1]
      OBVIOUS
    <3>1. k + 1 \in 1 .. n /\ k + 1 \in 1 .. n + l /\ (k + 1) - 1 = k /\ k <= n
      BY <1>1
    <3>2. u[k + 1] = u[(k + 1) - 1] \o uu[k + 1] /\ v[k + 1] = v[(k + 1) - 1] \o ss[k + 1]
      BY <3>1, <1>2, <1>4
    <3>3. u[k] = v[k] /\ uu[k + 1] = ss[k + 1]
      BY <3>1, <2>2, <1>1
    <3>4. QED
      BY <3>1, <3>2, <3>3
  <2>3. Nat \subseteq Z
    <3> HIDE DEF Z
    <3>1. QED
      BY <2>1, <2>2, Induction
  <2>4. QED
    BY <2>3
<1>6. u[n] = x
  BY <1>1, <1>2, <1>5
<1>7. x \in Seq(Nat)
  BY <1>1, <1>2
<1>8. \A k \in Nat : k <= l => u[n + k] = x \o w[k]
  <2> DEFINE Z == {k \in Nat : k <= l => u[n + k] = x \o w[k]}
  <2>1. 0 \in Z
    <3>1. x \o <<>> = x
      BY <1>7, ConcatEmptySeq
    <3>2. n + 0 = n
      BY <1>1
    <3>3. QED
      BY <3>1, <3>2, <1>3, <1>6
  <2>2. ASSUME NEW k \in Nat, k \in Z PROVE k + 1 \in Z
    <3> SUFFICES ASSUME k + 1 <= l PROVE u[n + (k + 1)] = x \o w[k + 1]
      OBVIOUS
    <3> DEFINE i == n + (k + 1)
               p == w[k]
               q == tt[k + 1]
    <3>1. k + 1 \in 1 .. l /\ i \in 1 .. n + l /\ (k + 1) - 1 = k /\ i - 1 = n + k /\ k <= l
          /\ k \in 0 .. l
      BY <1>1
    <3>2. u[i] = u[n + k] \o q
      <4>1. u[i] = u[i - 1] \o uu[i]
        BY <3>1, <1>4
      <4>2. uu[i] = q
        BY <3>1, <1>1
      <4>3. QED
        BY <4>1, <4>2, <3>1
    <3>3. w[k + 1] = p \o q
      BY <3>1, <1>3
    <3>4. u[n + k] = x \o p
      BY <3>1, <2>2
    <3>5. p \in Seq(Nat) /\ q \in Seq(Nat)
      BY <3>1, <1>1, <1>3
    <3> HIDE DEF i, p, q
    <3>6. (x \o p) \o q = x \o (p \o q)
      BY <3>5, <1>7, ConcatAssociative, SMTT(60)
    <3>7. u[i] = x \o w[k + 1]
      BY <3>2, <3>3, <3>4, <3>6, Zenon
    <3>8. QED
      BY <3>7 DEF i
  <2>3. Nat \subseteq Z
    <3> HIDE DEF Z
    <3>1. QED
      BY <2>1, <2>2, Induction
  <2>4. QED
    BY <2>3
<1>9. u[n + l] = x \o w[l]
  <2>1. l \in Nat /\ l <= l
    BY <1>1
  <2>2. QED
    BY <2>1, <1>8, Zenon
<1>10. QED
  BY <1>3, <1>4, <1>9 DEF x, uu

\* Of nothing there is nothing, and of one sequence it is that.
LEMMA FlattenSmall ==
    /\ FlattenSeq(<<>>) = <<>>
    /\ \A s \in Seq(Nat) : FlattenSeq(<<s>>) = s
<1>1. <<>> \in Seq(Seq(Nat)) /\ Len(<<>>) = 0
  OBVIOUS
<1>2. FlattenSeq(<<>>) = <<>>
  BY <1>1, FlattenUnfolds
<1>3. ASSUME NEW s \in Seq(Nat) PROVE FlattenSeq(<<s>>) = s
  <2> DEFINE ss == <<s>>
  <2>1. ss \in Seq(Seq(Nat)) /\ Len(ss) = 1 /\ ss[1] = s
    OBVIOUS
  <2> HIDE DEF ss
  <2>2. PICK v \in [0 .. Len(ss) -> Seq(Nat)] :
           v[0] = <<>> /\ (\A k \in 1 .. Len(ss) : v[k] = v[k - 1] \o ss[k])
           /\ FlattenSeq(ss) = v[Len(ss)]
    BY <2>1, FlattenUnfolds
  <2>3. v[1] = v[0] \o s /\ FlattenSeq(ss) = v[1]
    <3>1. 1 \in 1 .. Len(ss) /\ 1 - 1 = 0
      BY <2>1
    <3>2. v[1] = v[1 - 1] \o ss[1]
      BY <3>1, <2>2
    <3>3. QED
      BY <3>1, <3>2, <2>1, <2>2, Zenon
  <2>4. <<>> \o s = s
    BY ConcatEmptySeq
  <2>5. QED
    BY <2>2, <2>3, <2>4 DEF ss
<1>4. QED
  BY <1>2, <1>3

=============================================================================
