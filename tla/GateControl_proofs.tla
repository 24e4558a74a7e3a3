------------------------- MODULE GateControl_proofs -------------------------
(***************************************************************************)
(* The framing of the control gate is right for every size of the length,  *)
(* every base, every script and every way to cut its bytes.  The proof     *)
(* first gives the recursive functions of GateControl their equations, by  *)
(* induction over sets of numbers; then it shows that ntohl reads what     *)
(* packN wrote; and then that the buffer and the wire always are the       *)
(* messages that are left.                                                 *)
(***************************************************************************)
EXTENDS GateControl, SequenceTheorems, WellFoundedInduction, TLAPS

-----------------------------------------------------------------------------
(* Induction and recursion, with sets and functions in the place of        *)
(* predicates and operators.                                               *)

\* A set of natural numbers has a least one.
LEMMA LeastNat ==
  ASSUME NEW T \in SUBSET Nat, T # {}
  PROVE  \E x \in T : \A y \in T : x <= y
<1> DEFINE R == {ss \in Nat \X Nat : ss[1] < ss[2]}
<1>1. IsWellFoundedOn(R, Nat)
  BY NatLessThanWellFounded DEF OpToRel
<1>2. PICK x \in T : \A y \in T : ~(<<y, x>> \in R)
  <2> HIDE DEF R
  <2> QED
    BY <1>1, WFMin
<1>3. ASSUME NEW y \in T PROVE x <= y
  <2>1. y \in Nat /\ x \in Nat
    OBVIOUS
  <2>2. ~(y < x)
    <3>1. <<y, x>> \in Nat \X Nat /\ <<y, x>>[1] = y /\ <<y, x>>[2] = x
      BY <2>1
    <3> QED
      BY <1>2, <3>1
  <2> QED
    BY <2>1, <2>2
<1> QED
  BY <1>3

\* A set with 0 and with every successor has all.
LEMMA Induction ==
  ASSUME NEW T \in SUBSET Nat, 0 \in T, \A n \in T : n + 1 \in T
  PROVE  T = Nat
<1> SUFFICES ASSUME T # Nat PROVE FALSE
  OBVIOUS
<1>1. PICK x \in Nat \ T : \A y \in Nat \ T : x <= y
  <2>1. Nat \ T \in SUBSET Nat /\ Nat \ T # {}
    OBVIOUS
  <2> QED
    BY <2>1, LeastNat
<1>2. x # 0 /\ x - 1 \in Nat /\ ~(x <= x - 1)
  OBVIOUS
<1>3. x - 1 \in T
  BY <1>1, <1>2
<1> QED
  BY <1>2, <1>3

\* The first n + 1 values of a recursion.
Begins(S, base, F, n, h) ==
  /\ h \in [0..n -> S] /\ h[0] = base
  /\ \A i \in 0..(n - 1) : h[i + 1] = F[<<i, h[i]>>]

\* Any two beginnings agree.
LEMMA BeginsOnce ==
  ASSUME NEW S, NEW base, NEW F, NEW n \in Nat, NEW m \in Nat, NEW h, NEW g,
         Begins(S, base, F, n, h), Begins(S, base, F, m, g)
  PROVE  \A i \in Nat : i <= n /\ i <= m => h[i] = g[i]
<1> DEFINE T == {i \in Nat : i <= n /\ i <= m => h[i] = g[i]}
<1>1. 0 \in T
  BY DEF Begins
<1>2. ASSUME NEW i \in T PROVE i + 1 \in T
  <2>1. ASSUME i + 1 <= n, i + 1 <= m PROVE h[i + 1] = g[i + 1]
    <3>1. i \in 0..(n - 1) /\ i \in 0..(m - 1) /\ i <= n /\ i <= m
      BY <2>1
    <3> QED
      BY <3>1 DEF Begins
  <2> QED
    BY <2>1
<1>3. T = Nat
  <2>1. T \in SUBSET Nat
    OBVIOUS
  <2> HIDE DEF T
  <2> QED
    BY <1>1, <1>2, <2>1, Induction
<1> QED
  BY <1>3

\* The function that a recursion defines.
Defines(S, base, F, f) ==
  f \in [Nat -> S] /\ f[0] = base /\ \A n \in Nat : f[n + 1] = F[<<n, f[n]>>]

\* A first value and a step from each value to the next define a function.
LEMMA Recursion ==
  ASSUME NEW S, NEW base \in S, NEW F \in [Nat \X S -> S]
  PROVE  \E f : Defines(S, base, F, f)
<1> DEFINE B(n, h) == Begins(S, base, F, n, h)
           T == {n \in Nat : \E h : B(n, h)}
<1>1. 0 \in T
  <2>1. B(0, [i \in 0..0 |-> base])
    BY DEF Begins
  <2> QED
    BY <2>1
<1>2. ASSUME NEW n \in T PROVE n + 1 \in T
  <2>1. PICK h : B(n, h)
    OBVIOUS
  <2>2. n \in Nat /\ h \in [0..n -> S] /\ h[0] = base /\ \A i \in 0..(n - 1) : h[i + 1] = F[<<i, h[i]>>]
    BY <2>1 DEF Begins
  <2>3. PICK g : g = [i \in 0..(n + 1) |-> IF i = n + 1 THEN F[<<n, h[n]>>] ELSE h[i]]
    OBVIOUS
  <2>4. F[<<n, h[n]>>] \in S
    BY <2>2
  <2>5. g \in [0..(n + 1) -> S] /\ g[0] = base
    BY <2>2, <2>3, <2>4
  <2>6. ASSUME NEW i \in 0..((n + 1) - 1) PROVE g[i + 1] = F[<<i, g[i]>>]
    <3>1. i \in 0..n /\ g[i] = h[i]
      BY <2>2, <2>3
    <3>2. CASE i = n
      <4>1. n + 1 \in 0..(n + 1)
        BY <2>2
      <4>2. g[n + 1] = F[<<n, h[n]>>]
        BY <2>3, <4>1
      <4> QED
        BY <3>1, <3>2, <4>2
    <3>3. CASE i # n
      <4>1. i \in 0..(n - 1) /\ i + 1 \in 0..(n + 1) /\ i + 1 # n + 1
        BY <2>2, <3>3
      <4> QED
        BY <2>2, <2>3, <3>1, <4>1
    <3> QED
      BY <3>2, <3>3
  <2>7. B(n + 1, g)
    BY <2>5, <2>6 DEF Begins
  <2> QED
    BY <2>2, <2>7
<1>3. T = Nat
  <2>1. T \in SUBSET Nat
    OBVIOUS
  <2> HIDE DEF T
  <2> QED
    BY <1>1, <1>2, <2>1, Induction
<1>4. \A n \in Nat : B(n, CHOOSE h : B(n, h))
  <2> SUFFICES ASSUME NEW n \in Nat PROVE B(n, CHOOSE h : B(n, h))
    OBVIOUS
  <2>1. \E h : B(n, h)
    BY <1>3
  <2> HIDE DEF B
  <2> QED
    BY <2>1
<1> DEFINE C(n) == CHOOSE h : B(n, h)
<1>5. PICK f : f = [n \in Nat |-> C(n)[n]]
  OBVIOUS
<1>6. \A n \in Nat : Begins(S, base, F, n, C(n))
  BY <1>4
<1> HIDE DEF C, B
<1>7. f \in [Nat -> S] /\ f[0] = base
  BY <1>5, <1>6 DEF Begins
<1>8. ASSUME NEW n \in Nat PROVE f[n + 1] = F[<<n, f[n]>>]
  <2>1. n + 1 \in Nat /\ n \in 0..((n + 1) - 1) /\ n <= n + 1 /\ n <= n
    OBVIOUS
  <2>2. f[n] = C(n)[n] /\ f[n + 1] = C(n + 1)[n + 1]
    BY <1>5, <2>1
  <2>3. C(n)[n] = C(n + 1)[n]
    BY <1>6, <2>1, BeginsOnce
  <2>4. Begins(S, base, F, n + 1, C(n + 1))
    BY <1>6, <2>1
  <2>5. C(n + 1)[n + 1] = F[<<n, C(n + 1)[n]>>]
    BY <2>1, <2>4 DEF Begins
  <2> QED
    BY <2>2, <2>3, <2>5
<1> QED
  BY <1>7, <1>8 DEF Defines

-----------------------------------------------------------------------------
(* The recursive functions of the specification satisfy their equations.   *)

\* Power is the powers of the base.
LEMMA PowerIs ==
  /\ Power \in [Nat -> Nat]
  /\ Power[0] = 1
  /\ \A n \in Nat : Power[n + 1] = Base * Power[n]
<1>1. Base \in Nat
  BY ControlAssumption
<1> DEFINE F == [p \in Nat \X Nat |-> Base * p[2]]
           IsPower(g) == g = [k \in Nat |-> IF k = 0 THEN 1 ELSE Base * g[k - 1]]
<1>2. F \in [Nat \X Nat -> Nat]
  BY <1>1
<1>3. \A n, m \in Nat : F[<<n, m>>] = Base * m
  OBVIOUS
<1>4. PICK f : Defines(Nat, 1, F, f)
  <2>1. 1 \in Nat
    OBVIOUS
  <2> HIDE DEF F
  <2> QED
    BY <1>2, <2>1, Recursion
<1>5. f \in [Nat -> Nat] /\ f[0] = 1 /\ \A n \in Nat : f[n + 1] = Base * f[n]
  BY <1>3, <1>4 DEF Defines
<1> HIDE DEF F
<1>6. IsPower(f)
  <2>1. ASSUME NEW k \in Nat PROVE f[k] = IF k = 0 THEN 1 ELSE Base * f[k - 1]
    <3>1. CASE k = 0
      BY <1>5, <3>1
    <3>2. CASE k # 0
      <4>1. k - 1 \in Nat /\ k = (k - 1) + 1
        BY <3>2
      <4> QED
        BY <1>5, <3>2, <4>1
    <3> QED
      BY <3>1, <3>2
  <2> QED
    BY <1>5, <2>1
<1>7. Power = CHOOSE g : IsPower(g)
  BY DEF Power
<1>8. IsPower(Power)
  <2> HIDE DEF IsPower
  <2> QED
    BY <1>6, <1>7
<1>9. DOMAIN Power = Nat /\ \A k \in Nat : Power[k] = IF k = 0 THEN 1 ELSE Base * Power[k - 1]
  <2> HIDE DEF Power
  <2>1. PICK P : P = Power
    OBVIOUS
  <2>2. P = [k \in Nat |-> IF k = 0 THEN 1 ELSE Base * P[k - 1]]
    BY <1>8, <2>1
  <2>3. DOMAIN P = Nat /\ \A k \in Nat : P[k] = IF k = 0 THEN 1 ELSE Base * P[k - 1]
    BY <2>2
  <2> QED
    BY <2>1, <2>3
<1> HIDE DEF Power
<1>10. Power[0] = 1 /\ \A n \in Nat : Power[n + 1] = Base * Power[n]
  <2>1. Power[0] = 1
    BY <1>9
  <2>2. ASSUME NEW n \in Nat PROVE Power[n + 1] = Base * Power[n]
    <3>1. n + 1 \in Nat /\ n + 1 # 0 /\ (n + 1) - 1 = n
      OBVIOUS
    <3> QED
      BY <1>9, <3>1
  <2> QED
    BY <2>1, <2>2
<1> DEFINE T == {k \in Nat : Power[k] \in Nat}
<1>11. T \in SUBSET Nat /\ 0 \in T
  BY <1>10
<1>12. ASSUME NEW n \in T PROVE n + 1 \in T
  BY <1>1, <1>10
<1>13. T = Nat
  <2> HIDE DEF T
  <2> QED
    BY <1>11, <1>12, Induction
<1>14. \A k \in Nat : Power[k] \in Nat
  BY <1>13
<1>15. Power = [k \in Nat |-> Power[k]]
  <2>1. PICK P : P = Power
    OBVIOUS
  <2>2. P = [k \in Nat |-> IF k = 0 THEN 1 ELSE Base * P[k - 1]]
    BY <1>8, <2>1
  <2>3. P = [k \in Nat |-> P[k]]
    BY <2>2
  <2> QED
    BY <2>1, <2>3
<1> QED
  BY <1>10, <1>14, <1>15

\* Powers are not zero.
LEMMA PowerPositive == \A k \in Nat : Power[k] \in Nat /\ Power[k] > 0
<1>1. Base \in Nat /\ Base > 1
  BY ControlAssumption
<1> DEFINE T == {k \in Nat : Power[k] > 0}
<1>2. T \in SUBSET Nat /\ 0 \in T
  BY PowerIs
<1>3. ASSUME NEW n \in T PROVE n + 1 \in T
  <2>1. Power[n] \in Nat /\ Power[n] > 0 /\ Power[n + 1] = Base * Power[n]
    BY PowerIs
  <2>2. Base * Power[n] > 0
    BY <1>1, <2>1
  <2> QED
    BY <2>1, <2>2
<1>4. T = Nat
  <2> HIDE DEF T
  <2> QED
    BY <1>2, <1>3, Induction
<1> QED
  BY <1>4, PowerIs

\* Division by a number that is not zero.
LEMMA Divided ==
  ASSUME NEW n \in Nat, NEW d \in Nat, d > 0
  PROVE  /\ n \div d \in Nat /\ n % d \in Nat /\ n % d < d
         /\ n = d * (n \div d) + (n % d)
OBVIOUS

\* packN writes the first digit and then, in one byte less, what is left.
LEMMA PackIs ==
  /\ \A k \in Nat : packN[k] \in [Nat -> Seq(Nat)]
  /\ \A n \in Nat : packN[0][n] = <<>>
  /\ \A k, n \in Nat :
       packN[k + 1][n] = <<(n \div Power[k]) % Base>> \o packN[k][n % Power[k]]
<1>1. Base \in Nat /\ Base > 0
  BY ControlAssumption
<1> DEFINE S == [Nat -> Seq(Nat)]
           D(n, k) == (n \div Power[k]) % Base
           M(n, k) == n % Power[k]
           Step(k, h) == [n \in Nat |-> <<D(n, k)>> \o h[M(n, k)]]
           Zero == [n \in Nat |-> <<>>]
           F == [p \in Nat \X S |-> Step(p[1], p[2])]
           IsPack(g) ==
             g = [k \in Nat |->
                    [n \in Nat |-> IF k = 0 THEN <<>>
                       ELSE <<(n \div Power[k - 1]) % Base>> \o g[k - 1][n % Power[k - 1]]]]
<1>2. \A n, k \in Nat : D(n, k) \in Nat /\ M(n, k) \in Nat
  <2> SUFFICES ASSUME NEW n \in Nat, NEW k \in Nat PROVE D(n, k) \in Nat /\ M(n, k) \in Nat
    OBVIOUS
  <2>1. PICK d : d = Power[k] /\ d \in Nat /\ d > 0
    BY PowerPositive
  <2>2. n \div d \in Nat /\ n % d \in Nat
    BY <2>1, Divided
  <2>3. (n \div d) % Base \in Nat
    BY <1>1, <2>2
  <2> QED
    BY <2>1, <2>2, <2>3
<1>3. Zero \in S
  OBVIOUS
<1>4. ASSUME NEW k \in Nat, NEW h \in S PROVE Step(k, h) \in S
  <2> HIDE DEF D, M
  <2>1. ASSUME NEW n \in Nat PROVE <<D(n, k)>> \o h[M(n, k)] \in Seq(Nat)
    <3>1. <<D(n, k)>> \in Seq(Nat) /\ h[M(n, k)] \in Seq(Nat)
      BY <1>2
    <3> QED
      BY <3>1
  <2> QED
    BY <2>1
<1>5. F \in [Nat \X S -> S] /\ \A k \in Nat, h \in S : F[<<k, h>>] = Step(k, h)
  <2> HIDE DEF S, Step
  <2> QED
    BY <1>4
<1>6. PICK f : Defines(S, Zero, F, f)
  <2> HIDE DEF F, S, Zero
  <2> QED
    BY <1>3, <1>5, Recursion
<1>7. f \in [Nat -> S] /\ f[0] = Zero /\ \A k \in Nat : f[k + 1] = Step(k, f[k])
  <2> HIDE DEF F, S, Zero, Step
  <2> QED
    BY <1>5, <1>6 DEF Defines
<1> HIDE DEF F
<1>8. IsPack(f)
  <2> HIDE DEF S
  <2>1. ASSUME NEW k \in Nat
        PROVE  f[k] = [n \in Nat |-> IF k = 0 THEN <<>>
                         ELSE <<(n \div Power[k - 1]) % Base>> \o f[k - 1][n % Power[k - 1]]]
    <3>1. CASE k = 0
      BY <1>7, <3>1
    <3>2. CASE k # 0
      <4>1. k - 1 \in Nat /\ k = (k - 1) + 1
        BY <3>2
      <4>2. f[k] = Step(k - 1, f[k - 1])
        <5> HIDE DEF Step
        <5> QED
          BY <1>7, <4>1
      <4> QED
        BY <3>2, <4>2
    <3> QED
      BY <3>1, <3>2
  <2> QED
    BY <1>7, <2>1
<1>9. packN = CHOOSE g : IsPack(g)
  BY DEF packN
<1>10. IsPack(packN)
  <2> HIDE DEF IsPack
  <2> QED
    BY <1>8, <1>9
<1>11. PICK H : H = packN
  OBVIOUS
<1>12. H = [k \in Nat |->
                    [n \in Nat |-> IF k = 0 THEN <<>>
                       ELSE <<(n \div Power[k - 1]) % Base>> \o H[k - 1][n % Power[k - 1]]]]
  <2> HIDE DEF packN
  <2> QED
    BY <1>10, <1>11
<1>13. H[0] = Zero
  BY <1>12
<1>14. ASSUME NEW k \in Nat PROVE H[k + 1] = Step(k, H[k])
  <2>1. k + 1 \in Nat /\ k + 1 # 0 /\ (k + 1) - 1 = k
    OBVIOUS
  <2>2. H[k + 1] = [n \in Nat |-> IF k + 1 = 0 THEN <<>>
                       ELSE <<(n \div Power[(k + 1) - 1]) % Base>> \o H[(k + 1) - 1][n % Power[(k + 1) - 1]]]
    BY <1>12, <2>1
  <2>3. H[k + 1] = [n \in Nat |-> <<(n \div Power[k]) % Base>> \o H[k][n % Power[k]]]
    BY <2>1, <2>2
  <2> QED
    BY <2>3
<1> DEFINE T == {k \in Nat : H[k] \in S}
<1>15. T \in SUBSET Nat /\ 0 \in T
  BY <1>3, <1>13
<1>16. ASSUME NEW k \in T PROVE k + 1 \in T
  <2> HIDE DEF S, Step
  <2> QED
    BY <1>4, <1>14
<1>17. T = Nat
  <2> HIDE DEF T
  <2> QED
    BY <1>15, <1>16, Induction
<1>18. \A k \in Nat : H[k] \in S
  BY <1>17
<1>19. \A n \in Nat : H[0][n] = <<>>
  BY <1>13
<1>20. \A k, n \in Nat : H[k + 1][n] = <<D(n, k)>> \o H[k][M(n, k)]
  <2> HIDE DEF D, M
  <2> QED
    BY <1>14
<1> QED
  <2> HIDE DEF packN
  <2> QED
    BY <1>11, <1>18, <1>19, <1>20

LEMMA Product == \A x, y \in Nat : x * y \in Nat
OBVIOUS

\* ntohl weighs the first byte and adds what the others are.
LEMMA NtohlIs ==
  /\ \A k \in Nat : ntohl[k] \in [Seq(Nat) -> Nat]
  /\ \A b \in Seq(Nat) : ntohl[0][b] = 0
  /\ \A k \in Nat, b \in Seq(Nat) :
       b # <<>> => ntohl[k + 1][b] = Head(b) * Power[k] + ntohl[k][Tail(b)]
<1> DEFINE S == [Seq(Nat) -> Nat]
           Step(k, h) == [b \in Seq(Nat) |-> IF b = <<>> THEN 0
                                             ELSE Head(b) * Power[k] + h[Tail(b)]]
           Zero == [b \in Seq(Nat) |-> 0]
           F == [p \in Nat \X S |-> Step(p[1], p[2])]
           IsNtohl(g) ==
             g = [k \in Nat |->
                    [bytes \in Seq(Nat) |-> IF k = 0 \/ bytes = <<>> THEN 0
                       ELSE Head(bytes) * Power[k - 1] + g[k - 1][Tail(bytes)]]]
<1>3. Zero \in S
  OBVIOUS
<1>4. ASSUME NEW k \in Nat, NEW h \in S PROVE Step(k, h) \in S
  <2>1. ASSUME NEW b \in Seq(Nat), b # <<>> PROVE Head(b) * Power[k] + h[Tail(b)] \in Nat
    <3>1. Head(b) \in Nat /\ Tail(b) \in Seq(Nat)
      BY <2>1, HeadTailProperties
    <3>2. h[Tail(b)] \in Nat /\ Power[k] \in Nat
      BY <3>1, PowerPositive
    <3>3. PICK x, y, z \in Nat : x = Head(b) /\ y = Power[k] /\ z = h[Tail(b)]
      BY <3>1, <3>2
    <3>4. x * y \in Nat
      BY <3>3, Product
    <3>5. \A u, v \in Nat : u + v \in Nat
      OBVIOUS
    <3>6. x * y + z \in Nat
      BY <3>3, <3>4, <3>5, Zenon
    <3> QED
      BY <3>3, <3>6
  <2> QED
    BY <2>1
<1>5. F \in [Nat \X S -> S] /\ \A k \in Nat, h \in S : F[<<k, h>>] = Step(k, h)
  <2> HIDE DEF S, Step
  <2> QED
    BY <1>4
<1>6. PICK f : Defines(S, Zero, F, f)
  <2> HIDE DEF F, S, Zero
  <2> QED
    BY <1>3, <1>5, Recursion
<1>7. f \in [Nat -> S] /\ f[0] = Zero /\ \A k \in Nat : f[k + 1] = Step(k, f[k])
  <2> HIDE DEF F, S, Zero, Step
  <2> QED
    BY <1>5, <1>6 DEF Defines
<1> HIDE DEF F
<1>8. IsNtohl(f)
  <2> HIDE DEF S
  <2>1. ASSUME NEW k \in Nat
        PROVE  f[k] = [bytes \in Seq(Nat) |-> IF k = 0 \/ bytes = <<>> THEN 0
                         ELSE Head(bytes) * Power[k - 1] + f[k - 1][Tail(bytes)]]
    <3>1. CASE k = 0
      BY <1>7, <3>1
    <3>2. CASE k # 0
      <4>1. k - 1 \in Nat /\ k = (k - 1) + 1
        BY <3>2
      <4>2. f[k] = Step(k - 1, f[k - 1])
        <5> HIDE DEF Step
        <5> QED
          BY <1>7, <4>1
      <4> QED
        BY <3>2, <4>2
    <3> QED
      BY <3>1, <3>2
  <2> QED
    BY <1>7, <2>1
<1>9. ntohl = CHOOSE g : IsNtohl(g)
  BY DEF ntohl
<1>10. IsNtohl(ntohl)
  <2> HIDE DEF IsNtohl
  <2> QED
    BY <1>8, <1>9
<1>11. PICK H : H = ntohl
  OBVIOUS
<1>12. H = [k \in Nat |->
                    [bytes \in Seq(Nat) |-> IF k = 0 \/ bytes = <<>> THEN 0
                       ELSE Head(bytes) * Power[k - 1] + H[k - 1][Tail(bytes)]]]
  <2> HIDE DEF ntohl
  <2> QED
    BY <1>10, <1>11
<1>13. H[0] = Zero
  BY <1>12
<1>14. ASSUME NEW k \in Nat PROVE H[k + 1] = Step(k, H[k])
  <2>1. k + 1 \in Nat /\ k + 1 # 0 /\ (k + 1) - 1 = k
    OBVIOUS
  <2>2. H[k + 1] = [bytes \in Seq(Nat) |-> IF k + 1 = 0 \/ bytes = <<>> THEN 0
                       ELSE Head(bytes) * Power[(k + 1) - 1] + H[(k + 1) - 1][Tail(bytes)]]
    BY <1>12, <2>1
  <2>3. H[k + 1] = [bytes \in Seq(Nat) |-> IF bytes = <<>> THEN 0
                       ELSE Head(bytes) * Power[k] + H[k][Tail(bytes)]]
    BY <2>1, <2>2
  <2> QED
    BY <2>3
<1> DEFINE T == {k \in Nat : H[k] \in S}
<1>15. T \in SUBSET Nat /\ 0 \in T
  BY <1>3, <1>13
<1>16. ASSUME NEW k \in T PROVE k + 1 \in T
  <2> HIDE DEF S, Step
  <2> QED
    BY <1>4, <1>14
<1>17. T = Nat
  <2> HIDE DEF T
  <2> QED
    BY <1>15, <1>16, Induction
<1>18. \A k \in Nat : H[k] \in S
  BY <1>17
<1>19. \A b \in Seq(Nat) : H[0][b] = 0
  BY <1>13
<1>20. \A k \in Nat, b \in Seq(Nat) :
         b # <<>> => H[k + 1][b] = Head(b) * Power[k] + H[k][Tail(b)]
  BY <1>14
<1> QED
  <2> HIDE DEF ntohl
  <2> QED
    BY <1>11, <1>18, <1>19, <1>20

\* The length of a message is a sequence of SizeofLen bytes.
LEMMA PackType ==
  \A k, n \in Nat : packN[k][n] \in Seq(Nat) /\ Len(packN[k][n]) = k
<1> DEFINE T == {k \in Nat : \A n \in Nat : Len(packN[k][n]) = k}
<1>1. T \in SUBSET Nat /\ 0 \in T
  BY PackIs
<1>2. ASSUME NEW k \in T PROVE k + 1 \in T
  <2>1. ASSUME NEW n \in Nat PROVE Len(packN[k + 1][n]) = k + 1
    <3>1. PICK d : d = Power[k] /\ d \in Nat /\ d > 0
      BY PowerPositive
    <3>2. PICK r : r = n % d /\ r \in Nat
      BY <3>1, Divided
    <3>3. PICK h : h = packN[k][r] /\ h \in Seq(Nat) /\ Len(h) = k
      BY <3>2, PackIs
    <3>4. PICK x : x = (n \div d) % Base
      OBVIOUS
    <3>5. packN[k + 1][n] = <<x>> \o h
      BY <3>1, <3>2, <3>3, <3>4, PackIs
    <3>6. x \in Nat
      <4>1. Base \in Nat /\ Base > 0 /\ n \div d \in Nat
        <5>1. n \div d \in Nat
          BY <3>1, Divided
        <5> QED
          BY <5>1, ControlAssumption
      <4> QED
        BY <3>4, <4>1
    <3>7. Len(<<x>> \o h) = k + 1
      BY <3>3, <3>6
    <3> QED
      BY <3>5, <3>7
  <2> QED
    BY <2>1
<1>3. T = Nat
  <2> HIDE DEF T
  <2> QED
    BY <1>1, <1>2, Induction
<1> QED
  BY <1>3, PackIs

\* What ntohl reads is what packN wrote, of every number that the bytes hold
\* (memxyctl:24, gate_control.cc:83).
THEOREM LengthKept ==
  \A k, n \in Nat : n < Power[k] => ntohl[k][packN[k][n]] = n
<1>1. Base \in Nat /\ Base > 1
  BY ControlAssumption
<1> DEFINE T == {k \in Nat : \A n \in Nat : n < Power[k] => ntohl[k][packN[k][n]] = n}
<1>2. T \in SUBSET Nat /\ 0 \in T
  <2>1. ASSUME NEW n \in Nat, n < 1 PROVE ntohl[0][packN[0][n]] = n
    <3>1. n = 0
      BY <2>1
    <3>2. packN[0][n] = <<>> /\ <<>> \in Seq(Nat)
      BY PackIs
    <3> QED
      BY <3>1, <3>2, NtohlIs
  <2>2. \A n \in Nat : n < Power[0] => ntohl[0][packN[0][n]] = n
    BY <2>1, PowerIs
  <2> QED
    BY <2>2
<1>3. ASSUME NEW k \in T PROVE k + 1 \in T
  <2>1. ASSUME NEW n \in Nat, n < Power[k + 1] PROVE ntohl[k + 1][packN[k + 1][n]] = n
    <3>1. PICK d : d = Power[k] /\ d \in Nat /\ d > 0
      BY PowerPositive
    <3>2. n < Base * d
      BY <2>1, <3>1, PowerIs
    <3>3. PICK q, r : q = n \div d /\ r = n % d
      OBVIOUS
    <3>4. q \in Nat /\ r \in Nat /\ r < d /\ n = d * q + r
      BY <3>1, <3>3, Divided
    <3>5. q < Base
      <4>1. SUFFICES ASSUME q >= Base PROVE FALSE
        BY <1>1, <3>4
      <4>2. d * q >= d * Base
        BY <1>1, <3>1, <3>4, <4>1
      <4>3. d * q \in Nat /\ d * Base \in Nat /\ Base * d = d * Base
        BY <1>1, <3>1, <3>4
      <4> QED
        BY <3>2, <3>4, <4>2, <4>3
    <3>6. q % Base = q
      BY <1>1, <3>4, <3>5
    <3>7. PICK h : h = packN[k][r] /\ h \in Seq(Nat) /\ ntohl[k][h] = r
      BY <3>1, <3>4, PackIs
    <3>8. packN[k + 1][n] = <<q>> \o h
      BY <3>1, <3>3, <3>6, <3>7, PackIs
    <3>9. PICK w : w = <<q>> \o h
      OBVIOUS
    <3>10. w \in Seq(Nat) /\ w # <<>> /\ Head(w) = q /\ Tail(w) = h
      <4>1. <<q>> \in Seq(Nat) /\ <<q>> # <<>>
        BY <3>4
      <4>2. h \in Seq(Nat)
        BY <3>7
      <4>3. w \in Seq(Nat) /\ Len(w) = 1 + Len(h) /\ w[1] = q
        BY <3>4, <3>9, <4>2
      <4>4. w # <<>> /\ Head(w) = q
        BY <4>2, <4>3
      <4>5. Tail(w) = h
        BY <3>4, <3>9, <4>2, <4>3, <4>4
      <4> QED
        BY <4>3, <4>4, <4>5
    <3>11. ntohl[k + 1][w] = q * d + r
      <4>1. k \in Nat
        OBVIOUS
      <4>2. ntohl[k + 1][w] = Head(w) * Power[k] + ntohl[k][Tail(w)]
        BY <3>10, <4>1, NtohlIs
      <4>3. Power[k] = d /\ ntohl[k][h] = r
        BY <3>1, <3>7
      <4> QED
        BY <3>10, <4>2, <4>3
    <3>12. q * d = d * q
      BY <3>1, <3>4
    <3> QED
      BY <3>4, <3>8, <3>9, <3>11, <3>12
  <2> QED
    BY <2>1
<1>4. T = Nat
  <2> HIDE DEF T
  <2> QED
    BY <1>2, <1>3, Induction
<1> QED
  BY <1>4

\* A message is a sequence of bytes: its length and its list.
LEMMA EncodeType ==
  ASSUME NEW l \in Seq(Nat)
  PROVE  /\ Encode(l) \in Seq(Nat)
         /\ Len(Encode(l)) = SizeofLen + Len(l)
<1>1. SizeofLen \in Nat /\ Len(l) \in Nat
  BY ControlAssumption
<1>2. PICK h : h = packN[SizeofLen][Len(l)] /\ h \in Seq(Nat) /\ Len(h) = SizeofLen
  BY <1>1, PackType
<1>3. Encode(l) = h \o l
  BY <1>2 DEF Encode
<1>4. h \o l \in Seq(Nat) /\ Len(h \o l) = Len(h) + Len(l)
  BY <1>2, ConcatProperties
<1> QED
  BY <1>2, <1>3, <1>4

\* The last k + 1 messages are one message and the last k.
LEMMA SentIs ==
  /\ \A k \in Nat : Sent[k] \in [Seq(Seq(Nat)) -> Seq(Nat)]
  /\ \A s \in Seq(Seq(Nat)) : Sent[0][s] = <<>>
  /\ \A k \in Nat, s \in Seq(Seq(Nat)) :
       k + 1 <= Len(s) => Sent[k + 1][s] = Encode(s[Len(s) - k]) \o Sent[k][s]
<1> DEFINE Lists == Seq(Seq(Nat))
           S == [Lists -> Seq(Nat)]
           Step(k, h) == [s \in Lists |-> IF k + 1 \notin 1..Len(s) THEN <<>>
                                          ELSE Encode(s[Len(s) - (k + 1) + 1]) \o h[s]]
           Zero == [s \in Lists |-> <<>>]
           F == [p \in Nat \X S |-> Step(p[1], p[2])]
           IsSent(g) ==
             g = [k \in Nat |->
                    [lists \in Seq(Seq(Nat)) |-> IF k \notin 1..Len(lists) THEN <<>>
                       ELSE Encode(lists[Len(lists) - k + 1]) \o g[k - 1][lists]]]
<1>3. Zero \in S
  OBVIOUS
<1>4. ASSUME NEW k \in Nat, NEW h \in S PROVE Step(k, h) \in S
  <2>1. ASSUME NEW s \in Lists, k + 1 \in 1..Len(s)
        PROVE  Encode(s[Len(s) - (k + 1) + 1]) \o h[s] \in Seq(Nat)
    <3>1. PICK i : i = Len(s) - (k + 1) + 1
      OBVIOUS
    <3>2. i \in 1..Len(s)
      BY <2>1, <3>1
    <3>3. PICK e : e = Encode(s[i]) /\ e \in Seq(Nat)
      <4>1. s[i] \in Seq(Nat)
        BY <3>2, ElementOfSeq
      <4> QED
        BY <4>1, EncodeType
    <3>4. PICK r : r = h[s] /\ r \in Seq(Nat)
      OBVIOUS
    <3>5. e \o r \in Seq(Nat)
      BY <3>3, <3>4
    <3> QED
      BY <3>1, <3>3, <3>4, <3>5
  <2> HIDE DEF Lists
  <2> QED
    BY <2>1
<1>5. F \in [Nat \X S -> S] /\ \A k \in Nat, h \in S : F[<<k, h>>] = Step(k, h)
  <2> HIDE DEF S, Step
  <2> QED
    BY <1>4
<1>6. PICK f : Defines(S, Zero, F, f)
  <2> HIDE DEF F, S, Zero
  <2> QED
    BY <1>3, <1>5, Recursion
<1>7. f \in [Nat -> S] /\ f[0] = Zero /\ \A k \in Nat : f[k + 1] = Step(k, f[k])
  <2> HIDE DEF F, S, Zero, Step
  <2> QED
    BY <1>5, <1>6 DEF Defines
<1> HIDE DEF F
<1>8. IsSent(f)
  <2> HIDE DEF S
  <2>1. ASSUME NEW k \in Nat
        PROVE  f[k] = [lists \in Seq(Seq(Nat)) |-> IF k \notin 1..Len(lists) THEN <<>>
                         ELSE Encode(lists[Len(lists) - k + 1]) \o f[k - 1][lists]]
    <3>1. CASE k = 0
      BY <1>7, <3>1
    <3>2. CASE k # 0
      <4>1. k - 1 \in Nat /\ k = (k - 1) + 1
        BY <3>2
      <4>2. f[k] = Step(k - 1, f[k - 1])
        <5> HIDE DEF Step
        <5> QED
          BY <1>7, <4>1
      <4>3. (k - 1) + 1 = k
        BY <4>1
      <4> QED
        BY <4>2, <4>3
    <3> QED
      BY <3>1, <3>2
  <2> QED
    BY <1>7, <2>1
<1>9. Sent = CHOOSE g : IsSent(g)
  BY DEF Sent
<1>10. IsSent(Sent)
  <2> HIDE DEF IsSent
  <2> QED
    BY <1>8, <1>9
<1>11. PICK H : H = Sent
  OBVIOUS
<1>12. H = [k \in Nat |->
                    [lists \in Seq(Seq(Nat)) |-> IF k \notin 1..Len(lists) THEN <<>>
                       ELSE Encode(lists[Len(lists) - k + 1]) \o H[k - 1][lists]]]
  <2> HIDE DEF Sent
  <2> QED
    BY <1>10, <1>11
<1>13. H[0] = Zero
  BY <1>12
<1>14. ASSUME NEW k \in Nat PROVE H[k + 1] = Step(k, H[k])
  <2>1. k + 1 \in Nat /\ (k + 1) - 1 = k
    OBVIOUS
  <2>2. H[k + 1] = [lists \in Seq(Seq(Nat)) |-> IF k + 1 \notin 1..Len(lists) THEN <<>>
                       ELSE Encode(lists[Len(lists) - (k + 1) + 1]) \o H[(k + 1) - 1][lists]]
    BY <1>12, <2>1
  <2> QED
    BY <2>1, <2>2
<1> DEFINE T == {k \in Nat : H[k] \in S}
<1>15. T \in SUBSET Nat /\ 0 \in T
  BY <1>3, <1>13
<1>16. ASSUME NEW k \in T PROVE k + 1 \in T
  <2> HIDE DEF S, Step
  <2> QED
    BY <1>4, <1>14
<1>17. T = Nat
  <2> HIDE DEF T
  <2> QED
    BY <1>15, <1>16, Induction
<1>18. \A k \in Nat : H[k] \in S
  BY <1>17
<1>19. \A s \in Lists : H[0][s] = <<>>
  BY <1>13
<1>20. ASSUME NEW k \in Nat, NEW s \in Lists, k + 1 <= Len(s)
       PROVE  H[k + 1][s] = Encode(s[Len(s) - k]) \o H[k][s]
  <2>1. Len(s) \in Nat
    OBVIOUS
  <2>2. k + 1 \in 1..Len(s) /\ Len(s) - (k + 1) + 1 = Len(s) - k
    BY <1>20, <2>1
  <2>3. H[k + 1] = Step(k, H[k])
    BY <1>14
  <2> HIDE DEF Lists
  <2>4. H[k + 1][s] = Encode(s[Len(s) - (k + 1) + 1]) \o H[k][s]
    BY <2>2, <2>3
  <2> QED
    BY <2>2, <2>4
<1> QED
  <2> HIDE DEF Sent
  <2> QED
    BY <1>11, <1>18, <1>19, <1>20

-----------------------------------------------------------------------------
(* Sequences of bytes                                                      *)

\* The bytes of s from a on, to b.
LEMMA SubSeqAt ==
  ASSUME NEW s \in Seq(Nat), NEW a \in Nat, NEW b \in Nat, a <= b, b <= Len(s)
  PROVE  /\ SubSeq(s, a + 1, b) \in Seq(Nat) /\ Len(SubSeq(s, a + 1, b)) = b - a
         /\ \A i \in 1..(b - a) : SubSeq(s, a + 1, b)[i] = s[a + i]
<1>1. \A i \in (a + 1)..b : s[i] \in Nat
  OBVIOUS
<1>2. a + 1 \in Int /\ b \in Int
  OBVIOUS
<1>3. /\ SubSeq(s, a + 1, b) \in Seq(Nat)
      /\ Len(SubSeq(s, a + 1, b)) = IF a + 1 <= b THEN b - (a + 1) + 1 ELSE 0
      /\ \A i \in 1..(b - (a + 1) + 1) : SubSeq(s, a + 1, b)[i] = s[(a + 1) + i - 1]
  BY <1>1, <1>2, SubSeqProperties
<1>4. b - (a + 1) + 1 = b - a /\ \A i \in 1..(b - a) : (a + 1) + i - 1 = a + i
  OBVIOUS
<1> QED
  BY <1>3, <1>4

FrontIs(d, w, h, t) ==
  /\ SubSeq(d, 1, Len(h)) = h
  /\ SubSeq(d, Len(h) + 1, Len(d)) \o w = t
  /\ SubSeq(d, Len(h) + 1, Len(d)) \in Seq(Nat)
  /\ Len(SubSeq(d, Len(h) + 1, Len(d))) = Len(d) - Len(h)

\* When d begins a sequence that h begins, and has as many bytes as h, then d
\* begins with h.
LEMMA Front ==
  ASSUME NEW d \in Seq(Nat), NEW w \in Seq(Nat), NEW h \in Seq(Nat), NEW t \in Seq(Nat),
         d \o w = h \o t, Len(h) <= Len(d)
  PROVE  FrontIs(d, w, h, t)
<1>1. PICK x, y, z, v \in Nat : x = Len(d) /\ y = Len(h) /\ z = Len(w) /\ v = Len(t)
  OBVIOUS
<1>2. /\ Len(d \o w) = x + z
      /\ \A i \in 1..(x + z) : (d \o w)[i] = IF i <= x THEN d[i] ELSE w[i - x]
  BY <1>1, ConcatProperties
<1>3. /\ Len(h \o t) = y + v
      /\ \A i \in 1..(y + v) : (h \o t)[i] = IF i <= y THEN h[i] ELSE t[i - y]
  BY <1>1, ConcatProperties
<1>4. y <= x /\ x + z = y + v
  BY <1>1, <1>2, <1>3
<1>5. \A i \in 1..(y + v) : (IF i <= x THEN d[i] ELSE w[i - x]) = IF i <= y THEN h[i] ELSE t[i - y]
  BY <1>2, <1>3, <1>4
<1>6. SubSeq(d, 1, y) = h
  <2>1. PICK p : p = SubSeq(d, 0 + 1, y)
    OBVIOUS
  <2>2. p \in Seq(Nat) /\ Len(p) = y - 0 /\ \A i \in 1..(y - 0) : p[i] = d[0 + i]
    BY <1>1, <1>4, <2>1, SubSeqAt
  <2>3. y - 0 = y /\ 0 + 1 = 1 /\ \A i \in 1..y : 0 + i = i
    BY <1>1
  <2>4. Len(p) = Len(h)
    BY <1>1, <2>2, <2>3
  <2>5. ASSUME NEW i \in 1..Len(p) PROVE p[i] = h[i]
    <3>1. i \in 1..(y + v) /\ i <= x /\ i <= y /\ i \in 1..y
      BY <1>1, <1>4, <2>4
    <3>2. d[i] = h[i]
      BY <1>5, <3>1
    <3> QED
      BY <2>2, <2>3, <3>1, <3>2
  <2>6. p = h
    BY <2>2, <2>4, <2>5, SeqEqual
  <2> QED
    BY <2>1, <2>3, <2>6
<1>7. PICK q : q = SubSeq(d, y + 1, x)
  OBVIOUS
<1>8. q \in Seq(Nat) /\ Len(q) = x - y /\ \A i \in 1..(x - y) : q[i] = d[y + i]
  <2>1. x \in Nat /\ y \in Nat /\ y <= x /\ x <= Len(d)
    BY <1>1, <1>4
  <2>2. /\ SubSeq(d, y + 1, x) \in Seq(Nat) /\ Len(SubSeq(d, y + 1, x)) = x - y
        /\ \A i \in 1..(x - y) : SubSeq(d, y + 1, x)[i] = d[y + i]
    BY <2>1, SubSeqAt
  <2> QED
    BY <1>7, <2>2
<1>9. /\ q \o w \in Seq(Nat) /\ Len(q \o w) = (x - y) + z
      /\ \A i \in 1..((x - y) + z) : (q \o w)[i] = IF i <= x - y THEN q[i] ELSE w[i - (x - y)]
  <2>1. /\ q \o w \in Seq(Nat) /\ Len(q \o w) = Len(q) + Len(w)
        /\ \A i \in 1..(Len(q) + Len(w)) :
             (q \o w)[i] = IF i <= Len(q) THEN q[i] ELSE w[i - Len(q)]
    BY <1>8, ConcatProperties
  <2>2. Len(q) = x - y /\ Len(w) = z
    BY <1>1, <1>8
  <2> QED
    BY <2>1, <2>2
<1>10. Len(q \o w) = Len(t)
  BY <1>1, <1>4, <1>9
<1>11. ASSUME NEW i \in 1..Len(q \o w) PROVE (q \o w)[i] = t[i]
  <2>1. i \in 1..((x - y) + z) /\ y + i \in 1..(y + v) /\ ~(y + i <= y) /\ (y + i) - y = i
    BY <1>1, <1>4, <1>9
  <2>2. (IF y + i <= x THEN d[y + i] ELSE w[(y + i) - x]) = t[i]
    BY <1>5, <2>1
  <2>3. CASE i <= x - y
    <3>1. y + i <= x /\ i \in 1..(x - y)
      BY <1>1, <1>4, <2>1, <2>3
    <3> QED
      BY <1>8, <1>9, <2>1, <2>2, <2>3, <3>1
  <2>4. CASE ~(i <= x - y)
    <3>1. ~(y + i <= x) /\ (y + i) - x = i - (x - y)
      BY <1>1, <1>4, <2>1, <2>4
    <3> QED
      BY <1>9, <2>1, <2>2, <2>4, <3>1
  <2> QED
    BY <2>3, <2>4
<1>12. q \o w = t
  BY <1>9, <1>10, <1>11, SeqEqual
<1> QED
  BY <1>1, <1>6, <1>7, <1>8, <1>12 DEF FrontIs

PartsAre(d, a, n, q) ==
  /\ SubSeq(q, 1, n) = SubSeq(d, a + 1, a + n)
  /\ SubSeq(q, n + 1, Len(q)) = SubSeq(d, (a + n) + 1, Len(d))

\* A part of a part.
LEMMA PartOfPart ==
  ASSUME NEW d \in Seq(Nat), NEW a \in Nat, NEW n \in Nat, a + n <= Len(d),
         NEW q, q = SubSeq(d, a + 1, Len(d))
  PROVE  PartsAre(d, a, n, q)
<1>1. PICK x \in Nat : x = Len(d)
  OBVIOUS
<1>2. q \in Seq(Nat) /\ Len(q) = x - a /\ \A i \in 1..(x - a) : q[i] = d[a + i]
  BY <1>1, SubSeqAt
<1>3. PICK p : p = SubSeq(q, 0 + 1, n)
  OBVIOUS
<1>4. 0 \in Nat /\ 0 <= n /\ n <= Len(q) /\ a <= x
  BY <1>1, <1>2
<1>5. p \in Seq(Nat) /\ Len(p) = n - 0 /\ \A i \in 1..(n - 0) : p[i] = q[0 + i]
  BY <1>2, <1>3, <1>4, SubSeqAt
<1>6. PICK r : r = SubSeq(d, a + 1, a + n)
  OBVIOUS
<1>7. a <= a + n /\ a + n \in Nat
  OBVIOUS
<1>8. r \in Seq(Nat) /\ Len(r) = (a + n) - a /\ \A i \in 1..((a + n) - a) : r[i] = d[a + i]
  BY <1>1, <1>6, <1>7, SubSeqAt
<1>9. Len(p) = Len(r) /\ Len(p) = n
  BY <1>5, <1>8
<1>10. ASSUME NEW i \in 1..Len(p) PROVE p[i] = r[i]
  <2>1. i \in 1..(n - 0) /\ 0 + i = i /\ i \in 1..(x - a) /\ i \in 1..((a + n) - a)
    BY <1>1, <1>9
  <2> QED
    BY <1>2, <1>5, <1>8, <2>1
<1>11. p = r
  BY <1>5, <1>8, <1>9, <1>10, SeqEqual
<1>12. PICK u : u = SubSeq(q, n + 1, x - a)
  OBVIOUS
<1>13. x - a \in Nat /\ n <= x - a
  BY <1>1, <1>4
<1>14. u \in Seq(Nat) /\ Len(u) = (x - a) - n /\ \A i \in 1..((x - a) - n) : u[i] = q[n + i]
  <2>1. PICK e \in Nat : e = x - a /\ n <= e /\ e <= Len(q)
    BY <1>2, <1>13
  <2>2. /\ SubSeq(q, n + 1, e) \in Seq(Nat) /\ Len(SubSeq(q, n + 1, e)) = e - n
        /\ \A i \in 1..(e - n) : SubSeq(q, n + 1, e)[i] = q[n + i]
    BY <1>2, <2>1, SubSeqAt
  <2> QED
    BY <1>12, <2>1, <2>2
<1>15. PICK z : z = SubSeq(d, (a + n) + 1, x)
  OBVIOUS
<1>16. z \in Seq(Nat) /\ Len(z) = x - (a + n) /\ \A i \in 1..(x - (a + n)) : z[i] = d[(a + n) + i]
  <2>1. PICK e \in Nat : e = a + n /\ e <= x /\ x <= Len(d)
    BY <1>1, <1>7
  <2>2. /\ SubSeq(d, e + 1, x) \in Seq(Nat) /\ Len(SubSeq(d, e + 1, x)) = x - e
        /\ \A i \in 1..(x - e) : SubSeq(d, e + 1, x)[i] = d[e + i]
    BY <1>1, <2>1, SubSeqAt
  <2> QED
    BY <1>15, <2>1, <2>2
<1>17. Len(u) = Len(z) /\ Len(u) = (x - a) - n
  BY <1>14, <1>16
<1>18. ASSUME NEW i \in 1..Len(u) PROVE u[i] = z[i]
  <2>1. /\ i \in 1..((x - a) - n) /\ i \in 1..(x - (a + n))
        /\ n + i \in 1..(x - a) /\ a + (n + i) = (a + n) + i
    BY <1>1, <1>13, <1>17
  <2> QED
    BY <1>2, <1>14, <1>16, <2>1
<1>19. u = z
  BY <1>14, <1>16, <1>17, <1>18, SeqEqual
<1>20. 0 + 1 = 1
  OBVIOUS
<1> QED
  BY <1>1, <1>2, <1>3, <1>6, <1>11, <1>12, <1>15, <1>19, <1>20 DEF PartsAre

Associates(a, b, c) == (a \o b) \o c = a \o (b \o c)

\* Concatenation is associative.
LEMMA Associative ==
  ASSUME NEW a \in Seq(Nat), NEW b \in Seq(Nat), NEW c \in Seq(Nat)
  PROVE  Associates(a, b, c)
<1>1. PICK x, y, z \in Nat : x = Len(a) /\ y = Len(b) /\ z = Len(c)
  OBVIOUS
<1>2. PICK p : p = a \o b
  OBVIOUS
<1>3. PICK q : q = b \o c
  OBVIOUS
<1>4. p \in Seq(Nat) /\ Len(p) = x + y /\ \A i \in 1..(x + y) : p[i] = IF i <= x THEN a[i] ELSE b[i - x]
  BY <1>1, <1>2, ConcatProperties
<1>5. q \in Seq(Nat) /\ Len(q) = y + z /\ \A i \in 1..(y + z) : q[i] = IF i <= y THEN b[i] ELSE c[i - y]
  BY <1>1, <1>3, ConcatProperties
<1>6. PICK u : u = p \o c
  OBVIOUS
<1>7. PICK v : v = a \o q
  OBVIOUS
<1>8. /\ u \in Seq(Nat) /\ Len(u) = (x + y) + z
      /\ \A i \in 1..((x + y) + z) : u[i] = IF i <= x + y THEN p[i] ELSE c[i - (x + y)]
  BY <1>1, <1>4, <1>6, ConcatProperties
<1>9. /\ v \in Seq(Nat) /\ Len(v) = x + (y + z)
      /\ \A i \in 1..(x + (y + z)) : v[i] = IF i <= x THEN a[i] ELSE q[i - x]
  <2>1. /\ v \in Seq(Nat) /\ Len(v) = Len(a) + Len(q)
        /\ \A i \in 1..(Len(a) + Len(q)) : v[i] = IF i <= Len(a) THEN a[i] ELSE q[i - Len(a)]
    BY <1>5, <1>7, ConcatProperties
  <2> QED
    BY <1>1, <1>5, <2>1
<1>10. Len(u) = Len(v)
  BY <1>8, <1>9
<1>11. ASSUME NEW i \in 1..Len(u) PROVE u[i] = v[i]
  <2>1. i \in 1..((x + y) + z) /\ i \in 1..(x + (y + z))
    BY <1>8
  <2>2. CASE i <= x
    <3>1. i <= x + y /\ i \in 1..(x + y)
      BY <2>1, <2>2
    <3> QED
      BY <1>4, <1>8, <1>9, <2>1, <2>2, <3>1
  <2>3. CASE ~(i <= x) /\ i <= x + y
    <3>1. i \in 1..(x + y) /\ i - x \in 1..(y + z) /\ i - x <= y
      BY <2>1, <2>3
    <3> QED
      BY <1>4, <1>5, <1>8, <1>9, <2>1, <2>3, <3>1
  <2>4. CASE ~(i <= x) /\ ~(i <= x + y)
    <3>1. i - x \in 1..(y + z) /\ ~(i - x <= y) /\ (i - x) - y = i - (x + y)
      BY <2>1, <2>4
    <3> QED
      BY <1>5, <1>8, <1>9, <2>1, <2>4, <3>1
  <2> QED
    BY <2>2, <2>3, <2>4
<1> QED
  <2>1. u = v
    BY <1>8, <1>9, <1>10, <1>11, SeqEqual
  <2> QED
    BY <1>2, <1>3, <1>6, <1>7, <2>1 DEF Associates

\* A C string of bytes is a sequence of bytes.
LEMMA CStringType ==
  ASSUME NEW b \in Seq(Nat)
  PROVE  CString(b) \in Seq(Nat)
<1> DEFINE nul == {i \in DOMAIN b : b[i] = 0}
<1>1. CASE nul = {}
  BY <1>1 DEF CString
<1>2. CASE nul # {}
  <2>1. nul \in SUBSET Nat
    OBVIOUS
  <2>2. PICK x \in nul : \A y \in nul : x <= y
    <3> HIDE DEF nul
    <3> QED
      BY <1>2, <2>1, LeastNat
  <2>3. Min(nul) \in nul
    <3>1. Min(nul) = CHOOSE z \in nul : \A y \in nul : z <= y
      BY DEF Min
    <3> HIDE DEF nul
    <3> QED
      BY <2>2, <3>1
  <2>4. PICK m : m = Min(nul) /\ m \in 1..Len(b)
    <3>1. \A i \in nul : i \in 1..Len(b)
      OBVIOUS
    <3> HIDE DEF nul
    <3> QED
      BY <2>3, <3>1
  <2>5. PICK n \in Nat : n = m - 1 /\ n <= Len(b)
    <3>1. Len(b) \in Nat
      OBVIOUS
    <3>2. m - 1 \in Nat /\ m - 1 <= Len(b)
      BY <2>4, <3>1
    <3> QED
      BY <3>2
  <2>6. SubSeq(b, 0 + 1, n) \in Seq(Nat)
    <3>1. 0 \in Nat /\ 0 <= n
      OBVIOUS
    <3> QED
      BY <2>5, <3>1, SubSeqAt
  <2>7. CString(b) = SubSeq(b, 1, n)
    BY <1>2, <2>4, <2>5 DEF CString
  <2> QED
    BY <2>6, <2>7
<1> QED
  BY <1>1, <1>2

-----------------------------------------------------------------------------
(* The inductive invariant                                                 *)

Types ==
  /\ script \in Scripts /\ applied \in Seq(Seq(Nat))
  /\ data \in Seq(Nat) /\ wire \in Seq(Nat)
  /\ pc \in {"idle", "frame", "closed"}

\* The messages that set_servers has not got.
Left == Len(script) - Len(applied)

\* What is read and not used, and what is not read, are the messages that are
\* left: the buffer begins where a message begins.
Aligned == Len(applied) <= Len(script) /\ data \o wire = Sent[Left][script]

\* A message of no bytes at the end is not handled.
LastWaits == script[Len(script)] = <<>> => Left > 0

\* The handler waits only when the buffer has no message.
Waits == pc = "idle" => ~Whole

Inv == Types /\ Aligned /\ AppliedInOrder /\ LastWaits /\ Waits

\* A script is a sequence of lists, and has one.
LEMMA ScriptType ==
  ASSUME NEW s \in Scripts
  PROVE  /\ s \in Seq(Seq(Nat)) /\ Len(s) \in Nat /\ Len(s) > 0
         /\ \A j \in 1..Len(s) : s[j] \in Seq(Nat) /\ Len(s[j]) \in Nat /\ Len(s[j]) < Power[SizeofLen]
<1>1. s \in Seq(Seq(Nat)) /\ s # <<>>
  BY ControlAssumption
<1>2. \A j \in 1..Len(s) : Len(s[j]) < Power[SizeofLen]
  BY ControlAssumption
<1>3. \A j \in 1..Len(s) : s[j] \in Seq(Nat)
  BY <1>1, ElementOfSeq
<1>4. Len(s) \in Nat /\ Len(s) > 0
  BY <1>1, EmptySeq
<1> QED
  BY <1>1, <1>2, <1>3, <1>4

\* The parts of a buffer d that, with w behind it, is the last r messages of s.
FirstOf(s, r, d, w, l) ==
  /\ Len(d) >= SizeofLen => ntohl[SizeofLen][SubSeq(d, 1, SizeofLen)] = Len(l)
  /\ Len(d) >= SizeofLen + Len(l) =>
       /\ SubSeq(d, SizeofLen + 1, SizeofLen + Len(l)) = l
       /\ SubSeq(d, SizeofLen + Len(l) + 1, Len(d)) \in Seq(Nat)
       /\ SubSeq(d, SizeofLen + Len(l) + 1, Len(d)) \o w = Sent[r - 1][s]
  /\ Len(d) + Len(w) = SizeofLen + Len(l) + Len(Sent[r - 1][s])

\* The length and the body that the handler takes are those of the first message
\* that is left, and the rest of the buffer is aligned again.
LEMMA FirstMessage ==
  ASSUME NEW s \in Scripts, NEW r \in 1..Len(s), NEW d \in Seq(Nat), NEW w \in Seq(Nat),
         d \o w = Sent[r][s], NEW l, l = s[Len(s) - (r - 1)]
  PROVE  FirstOf(s, r, d, w, l) /\ l \in Seq(Nat) /\ Sent[r - 1][s] \in Seq(Nat)
<1>1. s \in Seq(Seq(Nat)) /\ Len(s) \in Nat
  BY ScriptType
<1>2. PICK k \in Nat : k = r - 1 /\ k + 1 = r /\ k + 1 <= Len(s) /\ Len(s) - k \in 1..Len(s)
  BY <1>1
<1>3. PICK t : t = Sent[k][s] /\ t \in Seq(Nat)
  BY <1>1, <1>2, SentIs
<1>4. l \in Seq(Nat) /\ Len(l) \in Nat /\ Len(l) < Power[SizeofLen]
  BY <1>2, ScriptType
<1>5. SizeofLen \in Nat
  BY ControlAssumption
<1>6. PICK h : h = packN[SizeofLen][Len(l)] /\ h \in Seq(Nat) /\ Len(h) = SizeofLen
  BY <1>4, <1>5, PackType
<1>7. ntohl[SizeofLen][h] = Len(l)
  BY <1>4, <1>5, <1>6, LengthKept
<1>8. d \o w = (h \o l) \o t
  <2>1. Sent[k + 1][s] = Encode(s[Len(s) - k]) \o Sent[k][s]
    BY <1>1, <1>2, SentIs
  <2>2. s[Len(s) - k] = l /\ Encode(l) = h \o l
    BY <1>2, <1>6 DEF Encode
  <2> QED
    BY <1>2, <1>3, <2>1, <2>2
<1>9. PICK m : m = l \o t /\ m \in Seq(Nat) /\ Len(m) = Len(l) + Len(t)
  <2>1. l \in Seq(Nat) /\ t \in Seq(Nat)
    BY <1>3, <1>4
  <2>2. l \o t \in Seq(Nat) /\ Len(l \o t) = Len(l) + Len(t)
    BY <2>1, ConcatProperties
  <2> QED
    BY <2>2
<1>10. d \o w = h \o m
  <2>1. h \in Seq(Nat) /\ l \in Seq(Nat) /\ t \in Seq(Nat)
    BY <1>3, <1>4, <1>6
  <2>2. Associates(h, l, t)
    BY <2>1, Associative
  <2> QED
    BY <1>8, <1>9, <2>2 DEF Associates
<1>11. ASSUME Len(d) >= SizeofLen PROVE ntohl[SizeofLen][SubSeq(d, 1, SizeofLen)] = Len(l)
  <2>1. Len(h) <= Len(d)
    BY <1>5, <1>6, <1>11
  <2>2. FrontIs(d, w, h, m)
    BY <1>6, <1>9, <1>10, <2>1, Front
  <2>3. SubSeq(d, 1, Len(h)) = h
    BY <2>2 DEF FrontIs
  <2> QED
    BY <1>6, <1>7, <2>3
<1>12. ASSUME Len(d) >= SizeofLen + Len(l)
       PROVE  /\ SubSeq(d, SizeofLen + 1, SizeofLen + Len(l)) = l
              /\ SubSeq(d, SizeofLen + Len(l) + 1, Len(d)) \in Seq(Nat)
              /\ SubSeq(d, SizeofLen + Len(l) + 1, Len(d)) \o w = Sent[r - 1][s]
  <2>1. Len(h) <= Len(d) /\ Len(h) \in Nat /\ Len(h) + Len(l) <= Len(d)
    BY <1>4, <1>5, <1>6, <1>12
  <2>2. PICK q : q = SubSeq(d, Len(h) + 1, Len(d))
    OBVIOUS
  <2>3. q \o w = m /\ q \in Seq(Nat) /\ Len(q) = Len(d) - Len(h)
    <3>1. FrontIs(d, w, h, m)
      BY <1>6, <1>9, <1>10, <2>1, Front
    <3> QED
      BY <2>2, <3>1 DEF FrontIs
  <2>4. q \o w = l \o t /\ Len(l) <= Len(q)
    BY <1>4, <1>9, <2>1, <2>3
  <2>5. /\ SubSeq(q, 1, Len(l)) = l
        /\ SubSeq(q, Len(l) + 1, Len(q)) \o w = t
        /\ SubSeq(q, Len(l) + 1, Len(q)) \in Seq(Nat)
    <3>1. FrontIs(q, w, l, t)
      BY <1>3, <1>4, <2>3, <2>4, Front
    <3> QED
      BY <3>1 DEF FrontIs
  <2>6. /\ SubSeq(q, 1, Len(l)) = SubSeq(d, Len(h) + 1, Len(h) + Len(l))
        /\ SubSeq(q, Len(l) + 1, Len(q)) = SubSeq(d, (Len(h) + Len(l)) + 1, Len(d))
    <3>1. PartsAre(d, Len(h), Len(l), q)
      BY <1>4, <2>1, <2>2, PartOfPart
    <3> QED
      BY <3>1 DEF PartsAre
  <2> QED
    BY <1>2, <1>3, <1>6, <2>5, <2>6
<1>13. Len(d) + Len(w) = SizeofLen + Len(l) + Len(Sent[r - 1][s])
  <2>1. Len(d \o w) = Len(d) + Len(w)
    BY ConcatProperties
  <2>2. Len(h \o m) = Len(h) + Len(m)
    BY <1>6, <1>9, ConcatProperties
  <2>3. PICK x, y, z \in Nat : x = SizeofLen /\ y = Len(l) /\ z = Len(t)
    <3>1. Len(t) \in Nat /\ Len(l) \in Nat /\ SizeofLen \in Nat
      BY <1>3, <1>4, <1>5
    <3> QED
      BY <3>1
  <2>4. Len(d) + Len(w) = x + (y + z)
    BY <1>6, <1>9, <1>10, <2>1, <2>2, <2>3
  <2>5. Len(d) + Len(w) = x + y + z
    BY <2>3, <2>4
  <2>6. Sent[r - 1][s] = t
    BY <1>2, <1>3
  <2> QED
    BY <2>3, <2>5, <2>6
<1> QED
  BY <1>2, <1>3, <1>4, <1>11, <1>12, <1>13 DEF FirstOf

LEMMA InitHolds == Init => Inv
<1> SUFFICES ASSUME Init PROVE Inv
  OBVIOUS
<1>1. /\ script \in Scripts /\ wire = Sent[Len(script)][script]
      /\ data = <<>> /\ pc = "idle" /\ applied = <<>>
  BY DEF Init
<1>2. script \in Seq(Seq(Nat)) /\ Len(script) \in Nat /\ Len(script) > 0
  BY <1>1, ScriptType
<1>3. wire \in Seq(Nat)
  BY <1>1, <1>2, SentIs
<1>4. Len(applied) = 0 /\ Left = Len(script) /\ Len(data) = 0
  BY <1>1, <1>2 DEF Left
<1>5. Types
  BY <1>1, <1>3 DEF Types
<1>6. data \o wire = wire
  BY <1>1, <1>3, ConcatEmptySeq
<1>7. Aligned
  BY <1>1, <1>2, <1>4, <1>6 DEF Aligned
<1>8. AppliedInOrder
  BY <1>1, <1>2, <1>4 DEF AppliedInOrder
<1>9. LastWaits
  BY <1>2, <1>4 DEF LastWaits
<1>10. ~(Len(data) > SizeofLen)
  BY <1>4, ControlAssumption
<1>11. Waits
  BY <1>10 DEF Waits, Whole
<1> QED
  BY <1>5, <1>7, <1>8, <1>9, <1>11 DEF Inv

\* A step that changes neither the script nor what set_servers got.
LEMMA SameMessages ==
  ASSUME Inv, script' = script, applied' = applied
  PROVE  /\ AppliedInOrder' /\ LastWaits' /\ Left' = Left
         /\ (data' \o wire' = data \o wire => Aligned')
<1>1. Left' = Left
  BY DEF Left
<1> QED
  BY <1>1 DEF Inv, AppliedInOrder, LastWaits, Aligned

\* A read takes the first bytes of the wire.
LEMMA ReadMoves ==
  ASSUME NEW d \in Seq(Nat), NEW w \in Seq(Nat), NEW n \in Nat, n <= Len(w)
  PROVE  /\ d \o SubSeq(w, 1, n) \in Seq(Nat)
         /\ SubSeq(w, n + 1, Len(w)) \in Seq(Nat)
         /\ (d \o SubSeq(w, 1, n)) \o SubSeq(w, n + 1, Len(w)) = d \o w
<1>1. PICK x \in Nat : x = Len(w)
  OBVIOUS
<1>2. PICK p : p = SubSeq(w, 0 + 1, n)
  OBVIOUS
<1>3. PICK q : q = SubSeq(w, n + 1, x)
  OBVIOUS
<1>4. p \in Seq(Nat) /\ Len(p) = n /\ \A i \in 1..n : p[i] = w[i]
  <2>1. 0 \in Nat /\ 0 <= n
    OBVIOUS
  <2>2. p \in Seq(Nat) /\ Len(p) = n - 0 /\ \A i \in 1..(n - 0) : p[i] = w[0 + i]
    BY <1>2, <2>1, SubSeqAt
  <2> QED
    BY <2>2
<1>5. q \in Seq(Nat) /\ Len(q) = x - n /\ \A i \in 1..(x - n) : q[i] = w[n + i]
  BY <1>1, <1>3, SubSeqAt
<1>6. PICK u : u = p \o q
  OBVIOUS
<1>7. /\ u \in Seq(Nat) /\ Len(u) = n + (x - n)
      /\ \A i \in 1..(n + (x - n)) : u[i] = IF i <= n THEN p[i] ELSE q[i - n]
  <2>1. /\ u \in Seq(Nat) /\ Len(u) = Len(p) + Len(q)
        /\ \A i \in 1..(Len(p) + Len(q)) : u[i] = IF i <= Len(p) THEN p[i] ELSE q[i - Len(p)]
    BY <1>4, <1>5, <1>6, ConcatProperties
  <2> QED
    BY <1>4, <1>5, <2>1
<1>8. Len(u) = Len(w)
  BY <1>1, <1>7
<1>9. ASSUME NEW i \in 1..Len(u) PROVE u[i] = w[i]
  <2>1. i \in 1..(n + (x - n))
    BY <1>7
  <2>2. CASE i <= n
    <3>1. i \in 1..n
      BY <2>1, <2>2
    <3> QED
      BY <1>4, <1>7, <2>1, <2>2, <3>1
  <2>3. CASE ~(i <= n)
    <3>1. i - n \in 1..(x - n) /\ n + (i - n) = i
      BY <1>1, <2>1, <2>3
    <3> QED
      BY <1>5, <1>7, <2>1, <2>3, <3>1
  <2> QED
    BY <2>2, <2>3
<1>10. u = w
  BY <1>7, <1>8, <1>9, SeqEqual
<1>11. (d \o p) \o q = d \o u
  BY <1>4, <1>5, <1>6, Associative DEF Associates
<1>12. d \o p \in Seq(Nat)
  BY <1>4, ConcatProperties
<1>13. 0 + 1 = 1
  OBVIOUS
<1> QED
  BY <1>1, <1>2, <1>3, <1>5, <1>10, <1>11, <1>12, <1>13

\* process_body takes the first message that is left.
LEMMA BodyKeeps ==
  ASSUME Inv, process_body, applied' # applied \/ data' # data
  PROVE  Inv'
<1>1. /\ pc = "frame" /\ Whole /\ pc' = pc
      /\ applied' = Append(applied, CString(SubSeq(data, SizeofLen + 1, SizeofLen + sz)))
      /\ data' = SubSeq(data, SizeofLen + sz + 1, Len(data))
      /\ script' = script /\ wire' = wire
  BY DEF process_body
<1>2. Types /\ Aligned /\ AppliedInOrder
  BY DEF Inv
<1>3. /\ script \in Seq(Seq(Nat)) /\ Len(script) \in Nat /\ Len(script) > 0
      /\ \A j \in 1..Len(script) : script[j] \in Seq(Nat)
  BY <1>2, ScriptType DEF Types
<1>4. SizeofLen \in Nat /\ SizeofLen > 0
  BY ControlAssumption
<1>5. PICK x, y, a, d \in Nat : x = Len(script) /\ a = Len(applied) /\ d = Len(data) /\ y = Len(wire)
  BY <1>2, <1>3 DEF Types
<1>6. a <= x /\ Left = x - a /\ data \o wire = Sent[Left][script]
  BY <1>2, <1>5 DEF Aligned, Left
<1>7. d > SizeofLen /\ d - SizeofLen >= sz
  BY <1>1, <1>5 DEF Whole
<1>8. Left > 0
  <2> SUFFICES ASSUME ~(Left > 0) PROVE FALSE
    OBVIOUS
  <2>1. Left = 0
    BY <1>5, <1>6
  <2>2. data \o wire = <<>>
    BY <1>3, <1>6, <2>1, SentIs
  <2>3. Len(data \o wire) = d + y
    BY <1>2, <1>5, ConcatProperties DEF Types
  <2>4. d + y = 0
    BY <2>2, <2>3
  <2> QED
    BY <1>4, <1>5, <1>7, <2>4
<1>9. PICK r : r = Left /\ r \in 1..Len(script) /\ Len(script) - (r - 1) = a + 1 /\ a + 1 \in 1..Len(script)
  BY <1>5, <1>6, <1>8
<1>10. PICK l : l = script[a + 1] /\ l \in Seq(Nat) /\ Len(l) \in Nat
  BY <1>3, <1>9
<1>11. FirstOf(script, r, data, wire, l) /\ Sent[r - 1][script] \in Seq(Nat)
  BY <1>2, <1>6, <1>9, <1>10, FirstMessage DEF Types
<1>12. sz = Len(l)
  BY <1>4, <1>5, <1>7, <1>11 DEF FirstOf, sz
<1>13. Len(data) >= SizeofLen + Len(l)
  BY <1>4, <1>5, <1>7, <1>10, <1>12
<1>14. /\ SubSeq(data, SizeofLen + 1, SizeofLen + Len(l)) = l
       /\ SubSeq(data, SizeofLen + Len(l) + 1, Len(data)) \in Seq(Nat)
       /\ SubSeq(data, SizeofLen + Len(l) + 1, Len(data)) \o wire = Sent[r - 1][script]
  BY <1>11, <1>13 DEF FirstOf
<1>15. /\ applied' = Append(applied, CString(l))
       /\ data' \in Seq(Nat) /\ data' \o wire' = Sent[r - 1][script]
  BY <1>1, <1>12, <1>14
<1>16. CString(l) \in Seq(Nat)
  BY <1>10, CStringType
<1>17. applied \in Seq(Seq(Nat))
  BY <1>2 DEF Types
<1>18. /\ applied' \in Seq(Seq(Nat)) /\ Len(applied') = a + 1 /\ applied'[a + 1] = CString(l)
       /\ \A j \in 1..a : applied'[j] = applied[j]
  BY <1>5, <1>15, <1>16, <1>17, AppendProperties
<1>19. Types'
  BY <1>1, <1>2, <1>15, <1>18 DEF Types
<1>20. Left' = r - 1
  BY <1>1, <1>5, <1>6, <1>9, <1>18 DEF Left
<1>21. Aligned'
  <2>1. Len(applied') <= Len(script')
    BY <1>1, <1>9, <1>18
  <2> QED
    BY <1>1, <1>15, <1>20, <2>1 DEF Aligned
<1>22. AppliedInOrder'
  <2>1. Len(applied') <= Len(script')
    BY <1>1, <1>9, <1>18
  <2>2. DOMAIN applied = 1..a /\ DOMAIN applied' = 1..(a + 1)
    BY <1>5, <1>17, <1>18
  <2>3. ASSUME NEW j \in 1..(a + 1) PROVE applied'[j] = CString(script[j])
    <3>1. CASE j = a + 1
      BY <1>10, <1>18, <3>1
    <3>2. CASE j # a + 1
      <4>1. j \in 1..a
        BY <1>5, <3>2
      <4> QED
        BY <1>2, <1>18, <2>2, <4>1 DEF AppliedInOrder
    <3> QED
      BY <3>1, <3>2
  <2> QED
    BY <1>1, <2>1, <2>2, <2>3 DEF AppliedInOrder
<1>23. LastWaits'
  <2> SUFFICES ASSUME script[Len(script)] = <<>>, ~(r - 1 > 0) PROVE FALSE
    BY <1>1, <1>20 DEF LastWaits
  <2>1. r = 1 /\ a + 1 = Len(script)
    BY <1>3, <1>9
  <2>2. Len(l) = 0
    BY <1>10, <2>1
  <2>3. Len(data) + Len(wire) = SizeofLen + Len(l) + Len(Sent[r - 1][script])
    BY <1>11 DEF FirstOf
  <2>4. Sent[r - 1][script] = <<>>
    BY <1>3, <2>1, SentIs
  <2>5. d + y = SizeofLen
    BY <1>4, <1>5, <2>2, <2>3, <2>4
  <2> QED
    BY <1>4, <1>5, <1>7, <2>5
<1>24. Waits'
  BY <1>1 DEF Waits
<1> QED
  BY <1>19, <1>21, <1>22, <1>23, <1>24 DEF Inv

LEMMA StepKeeps == Inv /\ [Next]_vars => Inv'
<1> SUFFICES ASSUME Inv, [Next]_vars PROVE Inv'
  OBVIOUS
<1>1. Types /\ Waits
  BY DEF Inv
<1>2. ASSUME NEW n \in 1..ReadMax, ReadEvent(n) PROVE Inv'
  <2>1. /\ n <= Len(wire) /\ data' = data \o SubSeq(wire, 1, n)
        /\ wire' = SubSeq(wire, n + 1, Len(wire)) /\ pc' = "frame"
        /\ script' = script /\ applied' = applied
    BY <1>2 DEF ReadEvent
  <2>2. n \in Nat /\ data \in Seq(Nat) /\ wire \in Seq(Nat)
    BY <1>1, ControlAssumption DEF Types
  <2>3. data' \in Seq(Nat) /\ wire' \in Seq(Nat) /\ data' \o wire' = data \o wire
    BY <2>1, <2>2, ReadMoves
  <2>4. Types'
    BY <1>1, <2>1, <2>3 DEF Types
  <2>5. Aligned' /\ AppliedInOrder' /\ LastWaits'
    BY <2>1, <2>3, SameMessages
  <2>6. Waits'
    BY <2>1 DEF Waits
  <2> QED
    BY <2>4, <2>5, <2>6 DEF Inv
<1>3. ASSUME script' = script, applied' = applied, data' = data, wire' = wire,
             pc' \in {"idle", "frame", "closed"}, pc' = "idle" => ~Whole
      PROVE  Inv'
  <2>1. Types'
    BY <1>1, <1>3 DEF Types
  <2>2. Aligned' /\ AppliedInOrder' /\ LastWaits'
    BY <1>3, SameMessages
  <2>3. Whole' = Whole
    BY <1>3 DEF Whole, sz
  <2>4. Waits'
    BY <1>3, <2>3 DEF Waits
  <2> QED
    BY <2>1, <2>2, <2>4 DEF Inv
<1>4. CASE process_body
  <2>1. CASE applied' # applied \/ data' # data
    BY <1>4, <2>1, BodyKeeps
  <2>2. CASE applied' = applied /\ data' = data
    <3>1. script' = script /\ wire' = wire /\ pc = "frame" /\ (pc' = pc \/ pc' = "closed")
      BY <1>4 DEF process_body
    <3> QED
      BY <1>3, <2>2, <3>1
  <2> QED
    BY <2>1, <2>2
<1>5. CASE FrameEnd
  BY <1>3, <1>5 DEF FrameEnd
<1>6. CASE Hangup
  BY <1>3, <1>6 DEF Hangup
<1>7. CASE Finish \/ UNCHANGED vars
  <2>1. UNCHANGED vars
    BY <1>7 DEF Finish
  <2> QED
    BY <1>1, <1>3, <2>1 DEF vars, Waits, Types
<1> QED
  BY <1>2, <1>4, <1>5, <1>6, <1>7 DEF Next

\* The buffer is always at the beginning of a message, and what is in it and on
\* the wire is what is left to handle (gate_control.cc:79-93).
THEOREM Framed == Spec => []Inv
BY InitHolds, StepKeeps, PTL DEF Spec

\* However the bytes are cut, set_servers gets the lists that were sent, in
\* their order and up to their first NUL (gate_control.cc:82-93, 106-122).
THEOREM ListsInOrder == Spec => []AppliedInOrder
<1>1. Inv => AppliedInOrder
  BY DEF Inv
<1> QED
  BY <1>1, Framed, PTL

\* With an empty wire the buffer is what is left; a handler that waits has no
\* message in it, so that nothing is left but an empty message.
LEMMA HeldBack == Inv => NothingHeldBack
<1> SUFFICES ASSUME Inv, pc = "idle", wire = <<>>
             PROVE  Len(applied) = Handleable
  BY DEF NothingHeldBack
<1>1. Types /\ Aligned /\ LastWaits /\ ~Whole
  BY DEF Inv, Waits
<1>2. /\ script \in Seq(Seq(Nat)) /\ Len(script) \in Nat /\ Len(script) > 0
      /\ \A j \in 1..Len(script) : script[j] \in Seq(Nat)
  BY <1>1, ScriptType DEF Types
<1>3. SizeofLen \in Nat /\ SizeofLen > 0
  BY ControlAssumption
<1>4. PICK x, a, d \in Nat : x = Len(script) /\ a = Len(applied) /\ d = Len(data)
  BY <1>1, <1>2 DEF Types
<1>5. a <= x /\ Left = x - a /\ data \o wire = Sent[Left][script]
  BY <1>1, <1>4 DEF Aligned, Left
<1>6. CASE Left = 0
  <2>1. script[Len(script)] # <<>>
    BY <1>1, <1>6 DEF LastWaits
  <2>2. a = x
    BY <1>4, <1>5, <1>6
  <2> QED
    BY <1>4, <2>1, <2>2 DEF Handleable
<1>7. CASE Left # 0
  <2>1. PICK r : r = Left /\ r \in 1..Len(script) /\ Len(script) - (r - 1) = a + 1 /\ a + 1 \in 1..Len(script)
    BY <1>4, <1>5, <1>7
  <2>2. PICK l : l = script[a + 1] /\ l \in Seq(Nat) /\ Len(l) \in Nat
    BY <1>2, <2>1
  <2>3. FirstOf(script, r, data, wire, l) /\ Sent[r - 1][script] \in Seq(Nat)
    BY <1>1, <1>5, <2>1, <2>2, FirstMessage DEF Types
  <2>4. PICK t \in Nat : t = Len(Sent[r - 1][script])
    BY <2>3
  <2>5. PICK z, y \in Nat : z = SizeofLen /\ y = Len(l) /\ d = z + y + t /\ z > 0
    <3>1. Len(data) + Len(wire) = SizeofLen + Len(l) + Len(Sent[r - 1][script])
      BY <2>3 DEF FirstOf
    <3>2. d = SizeofLen + Len(l) + t
      BY <1>4, <2>4, <3>1
    <3> QED
      BY <1>3, <2>2, <3>2
  <2>6. sz = Len(l)
    <3>1. Len(data) >= SizeofLen
      <4>1. d >= z
        BY <2>5
      <4> QED
        BY <1>4, <2>5, <4>1
    <3> QED
      BY <2>3, <3>1 DEF FirstOf, sz
  <2>7. ~(d > SizeofLen)
    <3>1. d - z >= y
      BY <2>5
    <3>2. d - SizeofLen >= Len(l)
      BY <2>5, <3>1
    <3> QED
      BY <1>1, <1>4, <2>6, <3>2 DEF Whole
  <2>8. Len(l) = 0 /\ t = 0
    <3>1. ~(d > z)
      BY <2>5, <2>7
    <3>2. y = 0 /\ t = 0
      BY <2>5, <3>1
    <3> QED
      BY <2>5, <3>2
  <2>9. r = 1
    <3> SUFFICES ASSUME r # 1 PROVE FALSE
      OBVIOUS
    <3>1. PICK k \in Nat : k + 1 = r - 1 /\ k + 1 <= Len(script) /\ Len(script) - k \in 1..Len(script)
      <4>1. r - 2 \in Nat /\ (r - 2) + 1 = r - 1 /\ r - 1 <= Len(script) /\ Len(script) - (r - 2) \in 1..Len(script)
        BY <1>2, <2>1
      <4> QED
        BY <4>1
    <3>2. Sent[k + 1][script] = Encode(script[Len(script) - k]) \o Sent[k][script]
      BY <1>2, <3>1, SentIs
    <3>3. PICK e : e = Encode(script[Len(script) - k]) /\ e \in Seq(Nat) /\ Len(e) >= SizeofLen
      <4>1. PICK m : m = script[Len(script) - k] /\ m \in Seq(Nat) /\ Len(m) \in Nat
        BY <1>2, <3>1
      <4>2. Encode(m) \in Seq(Nat) /\ Len(Encode(m)) = SizeofLen + Len(m)
        BY <4>1, EncodeType
      <4> QED
        BY <1>3, <4>1, <4>2
    <3>4. PICK u : u = Sent[k][script] /\ u \in Seq(Nat) /\ Len(u) \in Nat
      BY <1>2, <3>1, SentIs
    <3>5. Len(e \o u) = Len(e) + Len(u)
      BY <3>3, <3>4, ConcatProperties
    <3>6. t = Len(e) + Len(u)
      BY <2>4, <3>1, <3>2, <3>3, <3>4, <3>5
    <3>7. PICK v, w \in Nat : v = Len(e) /\ w = Len(u)
      BY <3>3, <3>4
    <3>8. v >= z /\ v + w = 0
      BY <2>5, <2>8, <3>3, <3>6, <3>7
    <3> QED
      BY <2>5, <3>7, <3>8
  <2>10. a + 1 = Len(script) /\ script[Len(script)] = <<>>
    <3>1. a + 1 = Len(script)
      BY <1>2, <2>1, <2>9
    <3>2. l = <<>>
      BY <2>2, <2>8, EmptySeq
    <3> QED
      BY <2>2, <3>1, <3>2
  <2> QED
    BY <1>4, <2>10 DEF Handleable
<1> QED
  BY <1>6, <1>7

\* When the handler has read everything and waits, it has handled every message
\* but an empty one at the end (gate_control.cc:82).
THEOREM AllHandled == Spec => []NothingHeldBack
BY HeldBack, Framed, PTL
=============================================================================
