---------------------------- MODULE ProperProofs ----------------------------
(***************************************************************************)
(* The removal of spontaneous arcs, for all automata.  The weights first:  *)
(* what the operations give, that zero is neutral; then the elimination    *)
(* of a state, and what each of the removers keeps.                        *)
(***************************************************************************)
EXTENDS Properer, FiniteSetTheorems, WellFoundedInduction, TLAPS

-----------------------------------------------------------------------------
(* Greatest common divisors. *)

Divisors(m, n) == {e \in Nat : \E i, j \in Nat : m = e * i /\ n = e * j}

\* A set of naturals has a least element.
LEMMA LeastLemma ==
  ASSUME NEW Bad \in SUBSET Nat, Bad # {}
  PROVE  \E k \in Bad : \A j \in Bad : ~ (j < k)
<1>. DEFINE Less == {ss \in Nat \X Nat : ss[1] < ss[2]}
<1>1. IsWellFoundedOn(Less, Nat)
  BY NatLessThanWellFounded DEF OpToRel
<1>. HIDE DEF Less
<1>2. PICK k \in Bad : \A j \in Bad : <<j, k>> \notin Less
  BY <1>1, WFMin
<1>3. \A j \in Bad : j < k => <<j, k>> \in Less
  BY DEF Less
<1>. QED
  BY <1>2, <1>3

\* Numbers with a product of one are one.
LEMMA UnitLemma ==
  ASSUME NEW i \in Nat, NEW j \in Nat, i * j = 1
  PROVE  i = 1 /\ j = 1
<1>1. i # 0 /\ j # 0
  OBVIOUS
<1>2. CASE i >= 2
  <2>1. i * j >= 2 * j
    BY <1>1, <1>2
  <2>. QED
    BY <1>1, <2>1
<1>3. CASE i = 1
  BY <1>3
<1>. QED
  BY <1>1, <1>2, <1>3

\* A number that divides another one, which divides it, is the same.
LEMMA DivideLemma ==
  ASSUME NEW m \in Nat, NEW n \in Nat, NEW i \in Nat, NEW j \in Nat,
         m = n * i, n = m * j
  PROVE  m = n
<1>1. CASE m = 0
  BY <1>1
<1>2. CASE m # 0
  <2>1. m * 1 = m * (j * i)
    OBVIOUS
  <2>2. j * i = 1
    BY <1>2, <2>1
  <2>. QED
    BY <2>2, UnitLemma
<1>. QED
  BY <1>1, <1>2

\* The divisors of a number tell it.
LEMMA DivisorsLemma ==
  ASSUME NEW m \in Nat, NEW n \in Nat, Divisors(m, 0) = Divisors(n, 0)
  PROVE  m = n
<1>1. \A k \in Nat : k \in Divisors(k, 0)
  <2>1. \A k \in Nat : k = k * 1 /\ 0 = k * 0
    OBVIOUS
  <2>. QED
    BY <2>1 DEF Divisors
<1>2. m \in Divisors(n, 0) /\ n \in Divisors(m, 0)
  BY <1>1
<1>3. PICK i \in Nat : n = m * i
  BY <1>2 DEF Divisors
<1>4. PICK j \in Nat : m = n * j
  BY <1>2 DEF Divisors
<1>. QED
  BY <1>3, <1>4, DivideLemma

\* One step of Euclid's algorithm keeps the divisors.
LEMMA EuclidLemma ==
  ASSUME NEW m \in Nat, NEW n \in Nat, n # 0
  PROVE  m % n \in Nat /\ m % n < n /\ Divisors(m, n) = Divisors(n, m % n)
<1>. DEFINE q == m \div n
            r == m % n
<1>1. q \in Nat /\ r \in Nat /\ r < n /\ m = n * q + r
  OBVIOUS
<1>. HIDE DEF q, r
<1>2. ASSUME NEW e \in Nat, NEW i \in Nat, NEW j \in Nat, m = e * i, n = e * j
      PROVE  \E k \in Nat : r = e * k
  <2>1. e # 0 /\ e > 0
    BY <1>2
  <2>2. n * q = e * (j * q)
    BY <1>1, <1>2
  <2>3. r = e * (i - j * q)
    BY <1>1, <1>2, <2>2
  <2>4. j * q \in Int /\ i - j * q \in Int
    BY <1>1
  <2>5. i - j * q >= 0
    <3>. SUFFICES ASSUME i - j * q <= -1 PROVE FALSE
      BY <2>4
    <3>1. e * (i - j * q) <= e * (-1)
      BY <2>1, <2>4
    <3>. QED
      BY <1>1, <2>1, <2>3, <3>1
  <2>. QED
    BY <2>3, <2>4, <2>5
<1>3. ASSUME NEW e \in Nat, NEW i \in Nat, NEW j \in Nat, n = e * i, r = e * j
      PROVE  \E k \in Nat : m = e * k
  <2>1. n * q = e * (i * q)
    BY <1>1, <1>3
  <2>2. m = e * (i * q + j)
    BY <1>1, <1>3, <2>1
  <2>3. i * q + j \in Nat
    BY <1>1
  <2>. QED
    BY <2>2, <2>3
<1>4. Divisors(m, n) = Divisors(n, r)
  <2>1. ASSUME NEW e \in Divisors(m, n) PROVE e \in Divisors(n, r)
    BY <1>2, <2>1 DEF Divisors
  <2>2. ASSUME NEW e \in Divisors(n, r) PROVE e \in Divisors(m, n)
    BY <1>3, <2>2 DEF Divisors
  <2>. QED
    BY <2>1, <2>2
<1>. QED
  BY <1>1, <1>4 DEF r

\* The recursion of gcd has a solution.
LEMMA GcdExists ==
  ASSUME NEW m \in Nat, NEW n \in Nat
  PROVE  W!gcd[<<m, n>>] = IF n = 0 THEN m ELSE W!gcd[<<n, m % n>>]
<1>. DEFINE Common(i, j) == CHOOSE d \in Nat : Divisors(d, 0) = Divisors(i, j)
            g == [mn \in Nat \X Nat |-> Common(mn[1], mn[2])]
            Body(f) == [mn \in Nat \X Nat |->
                          IF mn[2] = 0 THEN mn[1] ELSE f[<<mn[2], mn[1] % mn[2]>>]]
            Is(f) == f = Body(f)
<1>1. \A i \in Nat : Common(i, 0) = i
  BY DivisorsLemma
<1>2. \A i \in Nat, j \in Nat \ {0} : i % j \in Nat /\ Common(i, j) = Common(j, i % j)
  BY EuclidLemma
<1>. HIDE DEF Common
<1>3. \A i \in Nat, j \in Nat : g[<<i, j>>] = Common(i, j)
  OBVIOUS
<1>4. ASSUME NEW mn \in Nat \X Nat
      PROVE  Common(mn[1], mn[2]) = IF mn[2] = 0 THEN mn[1] ELSE g[<<mn[2], mn[1] % mn[2]>>]
  <2>. HIDE DEF g
  <2>1. mn[1] \in Nat /\ mn[2] \in Nat
    OBVIOUS
  <2>. QED
    BY <1>1, <1>2, <1>3, <2>1
<1>5. Is(g)
  BY <1>4
<1>6. W!gcd = CHOOSE f : Is(f)
  BY DEF W!gcd
<1>. HIDE DEF g, Is
<1>7. Is(W!gcd)
  BY <1>5, <1>6
<1>8. W!gcd = Body(W!gcd)
  BY <1>7 DEF Is
<1>9. W!gcd[<<m, n>>] = Body(W!gcd)[<<m, n>>]
  <2>. HIDE DEF Body
  <2>. QED BY <1>8
<1>. QED
  BY <1>9

\* The greatest common divisor has the divisors that the numbers share.
LEMMA GcdDivisors ==
  ASSUME NEW m \in Nat, NEW n \in Nat
  PROVE  W!gcd[<<m, n>>] \in Nat /\ Divisors(W!gcd[<<m, n>>], 0) = Divisors(m, n)
<1>. DEFINE Good(i, j) == W!gcd[<<i, j>>] \in Nat /\ Divisors(W!gcd[<<i, j>>], 0) = Divisors(i, j)
            Bad == {j \in Nat : \E i \in Nat : ~ Good(i, j)}
<1>. SUFFICES ASSUME Bad # {} PROVE FALSE
  OBVIOUS
<1>1. PICK j \in Bad : \A k \in Bad : ~ (k < j)
  BY LeastLemma
<1>2. PICK i \in Nat : ~ Good(i, j)
  BY <1>1
<1>3. CASE j = 0
  BY <1>2, <1>3, GcdExists
<1>4. CASE j # 0
  <2>1. i % j \in Nat /\ i % j < j /\ Divisors(i, j) = Divisors(j, i % j)
    BY <1>1, <1>4, EuclidLemma
  <2>2. W!gcd[<<i, j>>] = W!gcd[<<j, i % j>>]
    BY <1>1, <1>4, GcdExists
  <2>3. i % j \notin Bad
    BY <1>1, <2>1
  <2>4. Good(j, i % j)
    BY <1>1, <2>1, <2>3
  <2>. QED
    BY <1>2, <2>1, <2>2, <2>4
<1>. QED
  BY <1>3, <1>4

\* Coprime numbers.
LEMMA CoprimeLemma ==
  ASSUME NEW m \in Nat, NEW n \in Nat
  PROVE  W!gcd[<<m, n>>] = 1 <=> \A e \in Divisors(m, n) : e = 1
<1>1. ASSUME W!gcd[<<m, n>>] = 1, NEW e \in Divisors(m, n) PROVE e = 1
  <2>1. e \in Divisors(1, 0)
    BY <1>1, GcdDivisors
  <2>2. PICK i \in Nat : e \in Nat /\ e * i = 1
    BY <2>1 DEF Divisors
  <2>. QED
    BY <2>2, UnitLemma
<1>2. ASSUME \A e \in Divisors(m, n) : e = 1 PROVE W!gcd[<<m, n>>] = 1
  <2>1. W!gcd[<<m, n>>] = W!gcd[<<m, n>>] * 1 /\ 0 = W!gcd[<<m, n>>] * 0
    BY GcdDivisors
  <2>2. W!gcd[<<m, n>>] \in Divisors(W!gcd[<<m, n>>], 0)
    BY <2>1, GcdDivisors DEF Divisors
  <2>. QED
    BY <1>2, <2>2, GcdDivisors
<1>. QED
  BY <1>1, <1>2

-----------------------------------------------------------------------------
(* Rationals. *)

\* A fraction is reduced to coprime numbers.
LEMMA ReduceLemma ==
  ASSUME NEW num \in Int, NEW den \in Nat, den # 0
  PROVE  LET r == W!reduce(num, den)
         IN  /\ r \in Int \X Nat /\ r[2] # 0
             /\ W!gcd[<<W!Magnitude(r[1]), r[2]>>] = 1
<1>. DEFINE m == W!Magnitude(num)
            d == W!gcd[<<m, den>>]
<1>1. m \in Nat /\ m = IF num < 0 THEN - num ELSE num
  BY DEF W!Magnitude
<1>2. W!reduce(num, den) = <<num \div d, den \div d>>
  BY Zenon DEF W!reduce
<1>. HIDE DEF m
<1>3. d \in Nat /\ Divisors(d, 0) = Divisors(m, den)
  BY <1>1, GcdDivisors
<1>. HIDE DEF d
<1>4. d \in Divisors(d, 0)
  <2>1. d \in Nat /\ d = d * 1 /\ 0 = d * 0
    BY <1>3
  <2>2. \E i \in Nat, j \in Nat : d = d * i /\ 0 = d * j
    <3>. WITNESS 1 \in Nat, 0 \in Nat
    <3>. QED
      BY <2>1
  <2>. QED
    BY <2>1, <2>2, Zenon DEF Divisors
<1>5. PICK i \in Nat, j \in Nat : m = d * i /\ den = d * j
  <2>1. d \in Divisors(m, den)
    BY <1>3, <1>4
  <2>. QED
    BY <2>1 DEF Divisors
<1>6. d # 0 /\ j # 0
  BY <1>3, <1>5
<1>. DEFINE k == IF num < 0 THEN - i ELSE i
<1>7. k \in Int /\ num = d * k
  <2>1. CASE num < 0
    BY <1>1, <1>3, <1>5, <2>1
  <2>2. CASE ~ (num < 0)
    BY <1>1, <1>3, <1>5, <2>2
  <2>. QED
    BY <2>1, <2>2
<1>8. W!Magnitude(k) = i
  <2>1. CASE num < 0
    BY <2>1 DEF W!Magnitude
  <2>2. CASE ~ (num < 0)
    BY <2>2 DEF W!Magnitude
  <2>. QED
    BY <2>1, <2>2
<1>. HIDE DEF k
<1>9. num \div d = k /\ den \div d = j
  BY <1>3, <1>5, <1>6, <1>7
<1>10. ASSUME NEW e \in Divisors(i, j) PROVE e = 1
  <2>1. PICK x \in Nat, y \in Nat : e \in Nat /\ i = e * x /\ j = e * y
    BY <1>10 DEF Divisors
  <2>2. d * e \in Nat /\ m = (d * e) * x /\ den = (d * e) * y
    BY <1>3, <1>5, <2>1
  <2>3. d * e \in Divisors(m, den)
    BY <2>1, <2>2 DEF Divisors
  <2>4. d * e \in Divisors(d, 0)
    BY <1>3, <2>3
  <2>5. PICK z \in Nat : d = (d * e) * z
    BY <2>4 DEF Divisors
  <2>6. d * 1 = d * (e * z)
    BY <1>3, <2>1, <2>5
  <2>7. e * z = 1
    BY <1>3, <1>6, <2>1, <2>6
  <2>. QED
    BY <2>1, <2>7, UnitLemma
<1>11. W!gcd[<<i, j>>] = 1
  BY <1>10, CoprimeLemma
<1>. QED
  BY <1>2, <1>6, <1>7, <1>8, <1>9, <1>11

-----------------------------------------------------------------------------
(* Weights. *)

\* What a weight of each weightset is.
LEMMA WeightLemma ==
  /\ \A v : W!IsWeight("b", v) <=> v \in BOOLEAN
  /\ \A v : W!IsWeight("z", v) <=> v \in Int
  /\ \A v : W!IsWeight("zmin", v) <=> v \in Int
  /\ \A v : W!IsWeight("q", v) <=>
              v \in Int \X Nat /\ v[2] # 0 /\ W!gcd[<<W!Magnitude(v[1]), v[2]>>] = 1
BY DEF W!IsWeight

\* A rational.
LEMMA RationalLemma ==
  ASSUME NEW v, W!IsWeight("q", v)
  PROVE  /\ v[1] \in Int /\ v[2] \in Nat /\ v[2] # 0 /\ v = <<v[1], v[2]>>
         /\ W!gcd[<<W!Magnitude(v[1]), v[2]>>] = 1
BY WeightLemma

\* The sum of weights is a weight, and zero is neutral.
LEMMA AddLemma ==
  ASSUME NEW k \in W!Names, NEW l, NEW r, W!IsWeight(k, l), W!IsWeight(k, r)
  PROVE  W!IsWeight(k, W!add(k, l, r))
<1>1. CASE k = "b"
  <2>1. l \in BOOLEAN /\ r \in BOOLEAN /\ W!add(k, l, r) = (l \/ r)
    BY <1>1, WeightLemma DEF W!add
  <2>. QED
    BY <1>1, <2>1, WeightLemma
<1>2. CASE k = "z"
  <2>1. l \in Int /\ r \in Int /\ W!add(k, l, r) = l + r
    BY <1>2, WeightLemma DEF W!add
  <2>. QED
    BY <1>2, <2>1, WeightLemma
<1>3. CASE k = "zmin"
  <2>1. l \in Int /\ r \in Int /\ W!add(k, l, r) \in {l, r}
    BY <1>3, WeightLemma DEF W!add
  <2>. QED
    BY <1>3, <2>1, WeightLemma
<1>4. CASE k = "q"
  <2>1. /\ l[1] \in Int /\ l[2] \in Nat /\ l[2] # 0
        /\ r[1] \in Int /\ r[2] \in Nat /\ r[2] # 0
    BY <1>4, RationalLemma
  <2>2. W!add(k, l, r) = W!reduce(l[1] * r[2] + r[1] * l[2], l[2] * r[2])
    BY <1>4 DEF W!add
  <2>3. /\ l[1] * r[2] + r[1] * l[2] \in Int
        /\ l[2] * r[2] \in Nat /\ l[2] * r[2] # 0
    BY <2>1
  <2>. QED
    BY <1>4, <2>2, <2>3, ReduceLemma, WeightLemma
<1>. QED
  BY <1>1, <1>2, <1>3, <1>4 DEF W!Names

\* Zero is neutral.
LEMMA ZeroLemma ==
  ASSUME NEW k \in W!Names, NEW v, W!IsWeight(k, v)
  PROVE  W!add(k, v, W!zero(k)) = v
<1>1. CASE k = "b"
  <2>1. v \in BOOLEAN /\ W!add(k, v, W!zero(k)) = (v \/ FALSE)
    BY <1>1, WeightLemma DEF W!add, W!zero
  <2>. QED
    BY <2>1
<1>2. CASE k = "z"
  <2>1. v \in Int /\ W!add(k, v, W!zero(k)) = v + 0
    BY <1>2, WeightLemma DEF W!add, W!zero
  <2>. QED
    BY <2>1
<1>3. CASE k = "zmin"
  BY <1>3, WeightLemma DEF W!add, W!zero
<1>4. CASE k = "q"
  <2>1. /\ v[1] \in Int /\ v[2] \in Nat /\ v[2] # 0 /\ v = <<v[1], v[2]>>
        /\ W!gcd[<<W!Magnitude(v[1]), v[2]>>] = 1
    BY <1>4, RationalLemma
  <2>2. W!add(k, v, <<0, 1>>) = W!reduce(v[1] * 1 + 0 * v[2], v[2] * 1)
    BY <1>4 DEF W!add
  <2>3. v[1] * 1 + 0 * v[2] = v[1] /\ v[2] * 1 = v[2]
    BY <2>1
  <2>4. W!reduce(v[1], v[2]) = <<v[1] \div 1, v[2] \div 1>>
    BY <2>1 DEF W!reduce
  <2>5. W!zero(k) = <<0, 1>>
    BY <1>4 DEF W!zero
  <2>. QED
    BY <2>1, <2>2, <2>3, <2>4, <2>5
<1>. QED
  BY <1>1, <1>2, <1>3, <1>4 DEF W!Names

\* The product of weights is a weight.
LEMMA MulLemma ==
  ASSUME NEW k \in W!Names, NEW l, NEW r, W!IsWeight(k, l), W!IsWeight(k, r)
  PROVE  W!IsWeight(k, W!mul(k, l, r))
<1>1. CASE k = "b"
  <2>1. l \in BOOLEAN /\ r \in BOOLEAN /\ W!mul(k, l, r) = (l /\ r)
    BY <1>1, WeightLemma DEF W!mul
  <2>. QED
    BY <1>1, <2>1, WeightLemma
<1>2. CASE k = "z"
  <2>1. l \in Int /\ r \in Int /\ W!mul(k, l, r) = l * r
    BY <1>2, WeightLemma DEF W!mul
  <2>. QED
    BY <1>2, <2>1, WeightLemma
<1>3. CASE k = "zmin"
  <2>1. l \in Int /\ r \in Int /\ W!mul(k, l, r) \in {W!oo, l + r}
    BY <1>3, WeightLemma DEF W!mul
  <2>2. W!oo \in Int
    BY DEF W!oo
  <2>. QED
    BY <1>3, <2>1, <2>2, WeightLemma
<1>4. CASE k = "q"
  <2>1. /\ l[1] \in Int /\ l[2] \in Nat /\ l[2] # 0
        /\ r[1] \in Int /\ r[2] \in Nat /\ r[2] # 0
    BY <1>4, RationalLemma
  <2>2. W!mul(k, l, r) = W!reduce(l[1] * r[1], l[2] * r[2])
    BY <1>4 DEF W!mul
  <2>3. l[1] * r[1] \in Int /\ l[2] * r[2] \in Nat /\ l[2] * r[2] # 0
    BY <2>1
  <2>. QED
    BY <1>4, <2>2, <2>3, ReduceLemma, WeightLemma
<1>. QED
  BY <1>1, <1>2, <1>3, <1>4 DEF W!Names

\* One is a weight.
LEMMA OneLemma ==
  ASSUME NEW k \in W!Names
  PROVE  W!IsWeight(k, W!one(k))
<1>1. W!gcd[<<1, 1>>] = 1
  BY UnitLemma, CoprimeLemma DEF Divisors
<1>2. W!IsWeight("q", <<1, 1>>)
  BY <1>1, WeightLemma DEF W!Magnitude
<1>3. CASE k = "b"
  BY <1>3, WeightLemma DEF W!one
<1>4. CASE k = "z"
  BY <1>4, WeightLemma DEF W!one
<1>5. CASE k = "zmin"
  BY <1>5, WeightLemma DEF W!one
<1>6. CASE k = "q"
  <2>1. W!one(k) = <<1, 1>>
    BY <1>6 DEF W!one
  <2>. QED
    BY <1>2, <1>6, <2>1
<1>. QED
  BY <1>3, <1>4, <1>5, <1>6 DEF W!Names

\* The star of a weight, when it is defined, is a weight.
LEMMA StarLemma ==
  ASSUME NEW k \in W!Names, NEW v, W!IsWeight(k, v), W!starrable(k, v)
  PROVE  W!IsWeight(k, W!star(k, v))
<1>1. CASE k # "q"
  BY <1>1, OneLemma DEF W!star
<1>2. CASE k = "q"
  <2>. DEFINE m == W!Magnitude(v[1])
              n == v[2]
              d == n - v[1]
  <2>1. /\ v[1] \in Int /\ n \in Nat /\ n # 0
        /\ W!gcd[<<m, n>>] = 1
    BY <1>2, RationalLemma
  <2>2. m < n
    BY <1>2 DEF W!starrable
  <2>3. m \in Nat /\ m = IF v[1] < 0 THEN - v[1] ELSE v[1]
    BY <2>1 DEF W!Magnitude
  <2>4. W!star(k, v) = <<n, d>>
    BY <1>2 DEF W!star
  <2>. HIDE DEF m, n
  <2>5. d \in Nat /\ d # 0
    BY <2>1, <2>2, <2>3
  <2>6. ASSUME NEW e \in Divisors(n, d) PROVE e = 1
    <3>1. PICK i \in Nat, j \in Nat : e \in Nat /\ n = e * i /\ d = e * j
      BY <2>6 DEF Divisors
    <3>2. v[1] = e * (i - j)
      BY <2>1, <3>1
    <3>3. e # 0 /\ e > 0
      BY <2>1, <3>1
    <3>4. \E x \in Nat : m = e * x
      <4>1. CASE i >= j
        <5>1. e * (i - j) >= 0
          BY <3>1, <3>3, <4>1
        <5>2. m = e * (i - j) /\ i - j \in Nat
          BY <2>1, <2>3, <3>2, <4>1, <5>1
        <5>. QED BY <5>2
      <4>2. CASE i < j
        <5>1. e * (j - i) >= 0 /\ e * (i - j) = - (e * (j - i))
          BY <3>1, <3>3, <4>2
        <5>2. m = e * (j - i) /\ j - i \in Nat
          BY <2>1, <2>3, <3>1, <3>2, <4>2, <5>1
        <5>. QED BY <5>2
      <4>. QED BY <3>1, <4>1, <4>2
    <3>5. e \in Divisors(m, n)
      BY <3>1, <3>4 DEF Divisors
    <3>. QED
      BY <2>1, <2>3, <3>5, CoprimeLemma
  <2>7. W!gcd[<<n, d>>] = 1
    BY <2>1, <2>5, <2>6, CoprimeLemma
  <2>8. W!Magnitude(n) = n
    BY <2>1 DEF W!Magnitude
  <2>9. W!IsWeight("q", <<n, d>>)
    <3>. HIDE DEF d
    <3>. QED
      BY <2>1, <2>5, <2>7, <2>8, WeightLemma
  <2>. QED
    BY <1>2, <2>4, <2>9
<1>. QED
  BY <1>1, <1>2

-----------------------------------------------------------------------------
(* What the modules of the algorithms define is what this one defines. *)

\* The weights of the remover in place.
LEMMA SameInplaceWeights ==
  /\ \A k, l, r : I!W!add(k, l, r) = W!add(k, l, r)
  /\ \A k, l, r : I!W!mul(k, l, r) = W!mul(k, l, r)
  /\ \A k, v : I!W!star(k, v) = W!star(k, v)
  /\ \A k, v : I!W!starrable(k, v) = W!starrable(k, v)
  /\ \A k : I!W!one(k) = W!one(k)
  /\ \A k : I!W!zero(k) = W!zero(k)
<1>1. \A k : I!W!zero(k) = W!zero(k)
  BY DEF I!W!zero, W!zero, I!W!oo, W!oo
<1>2. \A k : I!W!one(k) = W!one(k)
  BY DEF I!W!one, W!one
<1>3. \A k, v : I!W!starrable(k, v) = W!starrable(k, v)
  BY DEF I!W!starrable, W!starrable, I!W!Magnitude, W!Magnitude
<1>4. \A k, v : I!W!star(k, v) = W!star(k, v)
  BY <1>2, Zenon DEF I!W!star, W!star
<1>5. \A m, n : I!W!reduce(m, n) = W!reduce(m, n)
  BY DEF I!W!reduce, W!reduce, I!W!gcd, W!gcd, I!W!Magnitude, W!Magnitude
<1>6. \A k, l, r : I!W!mul(k, l, r) = W!mul(k, l, r)
  BY <1>5 DEF I!W!mul, W!mul, I!W!oo, W!oo
<1>7. \A k, l, r : I!W!add(k, l, r) = W!add(k, l, r)
  BY <1>5 DEF I!W!add, W!add, I!W!oo, W!oo
<1>. QED
  BY <1>1, <1>2, <1>3, <1>4, <1>6, <1>7

\* The arcs of the remover in place.
LEMMA SameInplaceArcs ==
  /\ \A a : I!Arcs(a) = Arcs(a)
  /\ \A a : I!States(a) = States(a)
  /\ \A a : I!Spontaneous(a) = Spontaneous(a)
  /\ \A a : I!is_proper(a) <=> is_proper(a)
  /\ \A a, s : I!In(a, s) = In(a, s)
  /\ \A a, s : I!Out(a, s) = Out(a, s)
  /\ \A a, s : I!SpIn(a, s) = SpIn(a, s)
  /\ \A a, s : I!SpOut(a, s) = SpOut(a, s)
  /\ \A s : I!Loop(s) = Loop(s)
  /\ \A a, T : I!Part(a, T) = Part(a, T)
  /\ \A a : I!NonZero(a) = NonZero(a)
  /\ \A a, s : I!Without(a, s) = Without(a, s)
  /\ \A a, x : I!Weight(a, x) = Weight(a, x)
<1>1. \A a : I!Arcs(a) = Arcs(a)
  BY DEF I!Arcs, Arcs
<1>2. \A a : I!Spontaneous(a) = Spontaneous(a)
  BY DEF I!Spontaneous, Spontaneous, I!Arcs, Arcs
<1>3. \A a, s : I!In(a, s) = In(a, s)
  BY DEF I!In, In, I!Arcs, Arcs
<1>4. \A a, s : I!Out(a, s) = Out(a, s)
  BY DEF I!Out, Out, I!Arcs, Arcs
<1>5. \A a, T : I!Part(a, T) = Part(a, T)
  BY DEF I!Part, Part, I!Arcs, Arcs
<1>6. \A a : I!NonZero(a) = NonZero(a)
  BY DEF I!NonZero, NonZero, I!Part, Part, I!Arcs, Arcs,
         I!W!zero, W!zero, I!W!oo, W!oo
<1>7. \A a, s : I!Without(a, s) = Without(a, s)
  BY DEF I!Without, Without, I!Part, Part, I!Arcs, Arcs
<1>8. \A a, x : I!Weight(a, x) = Weight(a, x)
  BY <1>1, SameInplaceWeights, Zenon DEF I!Weight, Weight
<1>9. \A a : I!States(a) = States(a)
  BY DEF I!States, States, I!Arcs, Arcs, I!pre, pre, I!post, post
<1>10. \A s : I!Loop(s) = Loop(s)
  BY DEF I!Loop, Loop
<1>. QED
  BY <1>1, <1>2, <1>3, <1>4, <1>5, <1>6, <1>7, <1>8, <1>9, <1>10, Zenon
     DEF I!SpIn, SpIn, I!SpOut, SpOut, I!is_proper, is_proper

\* The elimination of the remover in place.
LEMMA SameInplaceBlow ==
  /\ \A a, s : I!Closure(a, s) = Closure(a, s)
  /\ \A a, s : I!LoopStar(a, s) = LoopStar(a, s)
  /\ \A a, s, l, c : I!Blow(a, s, l, c) = Blow(a, s, l, c)
  /\ \A a, s : I!CanFree(a, s) <=> CanFree(a, s)
<1>1. \A a, s : I!Closure(a, s) = Closure(a, s)
  BY DEF I!Closure, Closure, I!SpIn, SpIn, I!In, In, I!Spontaneous, Spontaneous,
         I!Arcs, Arcs, I!Loop, Loop
<1>2. \A a, s : I!LoopStar(a, s) = LoopStar(a, s)
  BY SameInplaceWeights, SameInplaceArcs, Zenon DEF I!LoopStar, LoopStar
<1>3. \A a, s, c : I!Moved(a, s, c) = Moved(a, s, c)
  BY DEF I!Moved, Moved, I!Out, Out, I!Arcs, Arcs
<1>4. \A a, s, l, t : I!Blown(a, s, l, t) = Blown(a, s, l, t)
  BY SameInplaceWeights, SameInplaceArcs, Zenon DEF I!Blown, Blown
<1>5. \A a, s, l, c, t : I!Brought(a, s, l, c, t) = Brought(a, s, l, c, t)
  BY <1>3, <1>4, SameInplaceWeights, Zenon DEF I!Brought, Brought
<1>6. ASSUME NEW a, NEW s, NEW l, NEW c
      PROVE  I!Blow(a, s, l, c) = Blow(a, s, l, c)
  <2>1. [t \in I!Arcs(a) \union I!Moved(a, s, c) |->
           I!W!add(ws, I!Blown(a, s, l, t), I!Brought(a, s, l, c, t))] =
        [t \in Arcs(a) \union Moved(a, s, c) |->
           W!add(ws, Blown(a, s, l, t), Brought(a, s, l, c, t))]
    BY <1>3, <1>4, <1>5, SameInplaceWeights, SameInplaceArcs
  <2>. QED
    BY <2>1, SameInplaceArcs, Zenon DEF I!Blow, Blow
<1>7. \A a, s : I!CanFree(a, s) <=> CanFree(a, s)
  BY SameInplaceWeights, SameInplaceArcs, Zenon DEF I!CanFree, CanFree
<1>. QED
  BY <1>1, <1>2, <1>6, <1>7

\* What the remover in place makes of a state that it frees.
LEMMA SameInplaceFreed ==
  \A a, s, p : I!Freed(a, s, p) = Freed(a, s, p)
<1>1. \A a, s : I!Bypass(a, s) = Bypass(a, s)
  BY SameInplaceBlow, SameInplaceArcs, Zenon DEF I!Bypass, Bypass
<1>2. \A a, s, p : I!Prune(a, s, p) = Prune(a, s, p)
  BY SameInplaceArcs, Zenon DEF I!Prune, Prune
<1>. QED
  BY <1>1, <1>2, Zenon DEF I!Freed, Freed

\* The profiles of the remover in place.
LEMMA SameInplaceProfile ==
  /\ \A a, s : I!Profile(a, s) = Profile(a, s)
  /\ \A a : I!Heap(a) = Heap(a)
  /\ \A h, a, s, b : I!Requeued(h, a, s, b) = Requeued(h, a, s, b)
<1>1. ASSUME NEW a, NEW s
      PROVE  I!Profile(a, s) = Profile(a, s)
  <2>1. \A T : I!Cardinality(T) = Cardinality(T)
    BY DEF I!Cardinality, Cardinality
  <2>2. {x \in I!In(a, s) : x.label # "$"} = {x \in In(a, s) : x.label # "$"}
    BY SameInplaceArcs
  <2>. QED
    BY <2>1, <2>2, SameInplaceArcs, Zenon DEF I!Profile, Profile
<1>2. \A a : I!Heap(a) = Heap(a)
  BY <1>1, SameInplaceArcs DEF I!Heap, Heap
<1>3. \A a, s : I!Neighbors(a, s) = Neighbors(a, s)
  BY DEF I!Neighbors, Neighbors, I!In, In, I!Out, Out, I!Arcs, Arcs
<1>4. \A h, a, s, b : I!Requeued(h, a, s, b) = Requeued(h, a, s, b)
  BY <1>1, <1>3 DEF I!Requeued, Requeued
<1>. QED
  BY <1>1, <1>2, <1>4

\* The top of the heap of the remover in place.
LEMMA SameInplaceTop == \A h : I!Top(h) = Top(h)
BY DEF I!Top, Top, I!Before, Before

\* The weights of the lazy automaton.
LEMMA SameLazyWeights ==
  /\ \A k, l, r : L!W!add(k, l, r) = W!add(k, l, r)
  /\ \A k, l, r : L!W!mul(k, l, r) = W!mul(k, l, r)
  /\ \A k, v : L!W!star(k, v) = W!star(k, v)
  /\ \A k, v : L!W!starrable(k, v) = W!starrable(k, v)
  /\ \A k : L!W!one(k) = W!one(k)
  /\ \A k : L!W!zero(k) = W!zero(k)
<1>1. \A k : L!W!zero(k) = W!zero(k)
  BY DEF L!W!zero, W!zero, L!W!oo, W!oo
<1>2. \A k : L!W!one(k) = W!one(k)
  BY DEF L!W!one, W!one
<1>3. \A k, v : L!W!starrable(k, v) = W!starrable(k, v)
  BY DEF L!W!starrable, W!starrable, L!W!Magnitude, W!Magnitude
<1>4. \A k, v : L!W!star(k, v) = W!star(k, v)
  BY <1>2, Zenon DEF L!W!star, W!star
<1>5. \A m, n : L!W!reduce(m, n) = W!reduce(m, n)
  BY DEF L!W!reduce, W!reduce, L!W!gcd, W!gcd, L!W!Magnitude, W!Magnitude
<1>6. \A k, l, r : L!W!mul(k, l, r) = W!mul(k, l, r)
  BY <1>5 DEF L!W!mul, W!mul, L!W!oo, W!oo
<1>7. \A k, l, r : L!W!add(k, l, r) = W!add(k, l, r)
  BY <1>5 DEF L!W!add, W!add, L!W!oo, W!oo
<1>. QED
  BY <1>1, <1>2, <1>3, <1>4, <1>6, <1>7

\* The arcs of the lazy automaton.
LEMMA SameLazyArcs ==
  /\ \A a : L!Arcs(a) = Arcs(a)
  /\ \A a : L!States(a) = States(a)
  /\ \A a : L!Spontaneous(a) = Spontaneous(a)
  /\ \A a : L!is_proper(a) <=> is_proper(a)
  /\ \A a, s : L!In(a, s) = In(a, s)
  /\ \A a, s : L!Out(a, s) = Out(a, s)
  /\ \A a, s : L!SpIn(a, s) = SpIn(a, s)
  /\ \A a, s : L!SpOut(a, s) = SpOut(a, s)
  /\ \A s : L!Loop(s) = Loop(s)
  /\ \A a, T : L!Part(a, T) = Part(a, T)
  /\ \A a : L!NonZero(a) = NonZero(a)
  /\ \A a, s : L!Without(a, s) = Without(a, s)
  /\ \A a, x : L!Weight(a, x) = Weight(a, x)
<1>1. \A a : L!Arcs(a) = Arcs(a)
  BY DEF L!Arcs, Arcs
<1>2. \A a : L!Spontaneous(a) = Spontaneous(a)
  BY DEF L!Spontaneous, Spontaneous, L!Arcs, Arcs
<1>3. \A a, s : L!In(a, s) = In(a, s)
  BY DEF L!In, In, L!Arcs, Arcs
<1>4. \A a, s : L!Out(a, s) = Out(a, s)
  BY DEF L!Out, Out, L!Arcs, Arcs
<1>5. \A a, T : L!Part(a, T) = Part(a, T)
  BY DEF L!Part, Part, L!Arcs, Arcs
<1>6. \A a : L!NonZero(a) = NonZero(a)
  BY DEF L!NonZero, NonZero, L!Part, Part, L!Arcs, Arcs,
         L!W!zero, W!zero, L!W!oo, W!oo
<1>7. \A a, s : L!Without(a, s) = Without(a, s)
  BY DEF L!Without, Without, L!Part, Part, L!Arcs, Arcs
<1>8. \A a, x : L!Weight(a, x) = Weight(a, x)
  BY <1>1, SameLazyWeights, Zenon DEF L!Weight, Weight
<1>9. \A a : L!States(a) = States(a)
  BY DEF L!States, States, L!Arcs, Arcs, L!pre, pre, L!post, post
<1>10. \A s : L!Loop(s) = Loop(s)
  BY DEF L!Loop, Loop
<1>. QED
  BY <1>1, <1>2, <1>3, <1>4, <1>5, <1>6, <1>7, <1>8, <1>9, <1>10, Zenon
     DEF L!SpIn, SpIn, L!SpOut, SpOut, L!is_proper, is_proper

\* The elimination of the lazy automaton.
LEMMA SameLazyBlow ==
  /\ \A a, s : L!Closure(a, s) = Closure(a, s)
  /\ \A a, s : L!LoopStar(a, s) = LoopStar(a, s)
  /\ \A a, s, l, c : L!Blow(a, s, l, c) = Blow(a, s, l, c)
  /\ \A a, s : L!CanFree(a, s) <=> CanFree(a, s)
<1>1. \A a, s : L!Closure(a, s) = Closure(a, s)
  BY DEF L!Closure, Closure, L!SpIn, SpIn, L!In, In, L!Spontaneous, Spontaneous,
         L!Arcs, Arcs, L!Loop, Loop
<1>2. \A a, s : L!LoopStar(a, s) = LoopStar(a, s)
  BY SameLazyWeights, SameLazyArcs, Zenon DEF L!LoopStar, LoopStar
<1>3. \A a, s, c : L!Moved(a, s, c) = Moved(a, s, c)
  BY DEF L!Moved, Moved, L!Out, Out, L!Arcs, Arcs
<1>4. \A a, s, l, t : L!Blown(a, s, l, t) = Blown(a, s, l, t)
  BY SameLazyWeights, SameLazyArcs, Zenon DEF L!Blown, Blown
<1>5. \A a, s, l, c, t : L!Brought(a, s, l, c, t) = Brought(a, s, l, c, t)
  BY <1>3, <1>4, SameLazyWeights, Zenon DEF L!Brought, Brought
<1>6. ASSUME NEW a, NEW s, NEW l, NEW c
      PROVE  L!Blow(a, s, l, c) = Blow(a, s, l, c)
  <2>1. [t \in L!Arcs(a) \union L!Moved(a, s, c) |->
           L!W!add(ws, L!Blown(a, s, l, t), L!Brought(a, s, l, c, t))] =
        [t \in Arcs(a) \union Moved(a, s, c) |->
           W!add(ws, Blown(a, s, l, t), Brought(a, s, l, c, t))]
    BY <1>3, <1>4, <1>5, SameLazyWeights, SameLazyArcs
  <2>. QED
    BY <2>1, SameLazyArcs, Zenon DEF L!Blow, Blow
<1>7. \A a, s : L!CanFree(a, s) <=> CanFree(a, s)
  BY SameLazyWeights, SameLazyArcs, Zenon DEF L!CanFree, CanFree
<1>. QED
  BY <1>1, <1>2, <1>6, <1>7

\* What the lazy automaton makes of a state that it frees.
LEMMA SameLazySeparated ==
  \A d, a, s, p : L!Separated(d, a, s, p) = Separated(d, a, s, p)
<1>. SUFFICES ASSUME NEW d, NEW a, NEW s, NEW p
              PROVE  L!Separated(d, a, s, p) = Separated(d, a, s, p)
  OBVIOUS
<1>. DEFINE one == Blow(Part(d, Arcs(d) \ SpIn(d, s)), s, LoopStar(d, s), Closure(d, s))
            other == Blow(a, s, LoopStar(d, s), Closure(d, s))
            result == IF p /\ In(one, s) = {} /\ In(other, s) = {}
                      THEN <<Without(one, s), Without(other, s)>>
                      ELSE <<one, other>>
<1>1. Separated(d, a, s, p) = result
  BY Zenon DEF Separated
<1>2. L!Blow(L!Part(d, L!Arcs(d) \ L!SpIn(d, s)), s, L!LoopStar(d, s), L!Closure(d, s)) = one
  BY SameLazyBlow, SameLazyArcs, Zenon
<1>3. L!Blow(a, s, L!LoopStar(d, s), L!Closure(d, s)) = other
  BY SameLazyBlow, Zenon
<1>. HIDE DEF one, other
<1>4. L!Separated(d, a, s, p) =
        IF p /\ L!In(one, s) = {} /\ L!In(other, s) = {}
        THEN <<L!Without(one, s), L!Without(other, s)>>
        ELSE <<one, other>>
  BY <1>2, <1>3, Zenon DEF L!Separated
<1>5. L!In(one, s) = In(one, s) /\ L!In(other, s) = In(other, s)
  BY SameLazyArcs, Zenon
<1>6. L!Without(one, s) = Without(one, s) /\ L!Without(other, s) = Without(other, s)
  BY SameLazyArcs, Zenon
<1>. QED
  BY <1>1, <1>4, <1>5, <1>6, Zenon

\* The weights of the separate remover.
LEMMA SameSeparateWeights ==
  /\ \A k, l, r : S!W!add(k, l, r) = W!add(k, l, r)
  /\ \A k, l, r : S!W!mul(k, l, r) = W!mul(k, l, r)
  /\ \A k, v : S!W!star(k, v) = W!star(k, v)
  /\ \A k, v : S!W!starrable(k, v) = W!starrable(k, v)
  /\ \A k : S!W!one(k) = W!one(k)
  /\ \A k : S!W!zero(k) = W!zero(k)
<1>1. \A k : S!W!zero(k) = W!zero(k)
  BY DEF S!W!zero, W!zero, S!W!oo, W!oo
<1>2. \A k : S!W!one(k) = W!one(k)
  BY DEF S!W!one, W!one
<1>3. \A k, v : S!W!starrable(k, v) = W!starrable(k, v)
  BY DEF S!W!starrable, W!starrable, S!W!Magnitude, W!Magnitude
<1>4. \A k, v : S!W!star(k, v) = W!star(k, v)
  BY <1>2, Zenon DEF S!W!star, W!star
<1>5. \A m, n : S!W!reduce(m, n) = W!reduce(m, n)
  BY DEF S!W!reduce, W!reduce, S!W!gcd, W!gcd, S!W!Magnitude, W!Magnitude
<1>6. \A k, l, r : S!W!mul(k, l, r) = W!mul(k, l, r)
  BY <1>5 DEF S!W!mul, W!mul, S!W!oo, W!oo
<1>7. \A k, l, r : S!W!add(k, l, r) = W!add(k, l, r)
  BY <1>5 DEF S!W!add, W!add, S!W!oo, W!oo
<1>. QED
  BY <1>1, <1>2, <1>3, <1>4, <1>6, <1>7

\* The arcs of the separate remover.
LEMMA SameSeparateArcs ==
  /\ \A a : S!Arcs(a) = Arcs(a)
  /\ \A a : S!States(a) = States(a)
  /\ \A a : S!Spontaneous(a) = Spontaneous(a)
  /\ \A a : S!is_proper(a) <=> is_proper(a)
  /\ \A a, s : S!In(a, s) = In(a, s)
  /\ \A a, s : S!Out(a, s) = Out(a, s)
  /\ \A a, s : S!SpIn(a, s) = SpIn(a, s)
  /\ \A a, s : S!SpOut(a, s) = SpOut(a, s)
  /\ \A s : S!Loop(s) = Loop(s)
  /\ \A a, T : S!Part(a, T) = Part(a, T)
  /\ \A a : S!NonZero(a) = NonZero(a)
  /\ \A a, s : S!Without(a, s) = Without(a, s)
  /\ \A a, x : S!Weight(a, x) = Weight(a, x)
<1>1. \A a : S!Arcs(a) = Arcs(a)
  BY DEF S!Arcs, Arcs
<1>2. \A a : S!Spontaneous(a) = Spontaneous(a)
  BY DEF S!Spontaneous, Spontaneous, S!Arcs, Arcs
<1>3. \A a, s : S!In(a, s) = In(a, s)
  BY DEF S!In, In, S!Arcs, Arcs
<1>4. \A a, s : S!Out(a, s) = Out(a, s)
  BY DEF S!Out, Out, S!Arcs, Arcs
<1>5. \A a, T : S!Part(a, T) = Part(a, T)
  BY DEF S!Part, Part, S!Arcs, Arcs
<1>6. \A a : S!NonZero(a) = NonZero(a)
  BY DEF S!NonZero, NonZero, S!Part, Part, S!Arcs, Arcs,
         S!W!zero, W!zero, S!W!oo, W!oo
<1>7. \A a, s : S!Without(a, s) = Without(a, s)
  BY DEF S!Without, Without, S!Part, Part, S!Arcs, Arcs
<1>8. \A a, x : S!Weight(a, x) = Weight(a, x)
  BY <1>1, SameSeparateWeights, Zenon DEF S!Weight, Weight
<1>9. \A a : S!States(a) = States(a)
  BY DEF S!States, States, S!Arcs, Arcs, S!pre, pre, S!post, post
<1>10. \A s : S!Loop(s) = Loop(s)
  BY DEF S!Loop, Loop
<1>. QED
  BY <1>1, <1>2, <1>3, <1>4, <1>5, <1>6, <1>7, <1>8, <1>9, <1>10, Zenon
     DEF S!SpIn, SpIn, S!SpOut, SpOut, S!is_proper, is_proper

\* The elimination of the separate remover.
LEMMA SameSeparateBlow ==
  /\ \A a, s : S!Closure(a, s) = Closure(a, s)
  /\ \A a, s : S!LoopStar(a, s) = LoopStar(a, s)
  /\ \A a, s, l, c : S!Blow(a, s, l, c) = Blow(a, s, l, c)
  /\ \A a, s : S!CanFree(a, s) <=> CanFree(a, s)
<1>1. \A a, s : S!Closure(a, s) = Closure(a, s)
  BY DEF S!Closure, Closure, S!SpIn, SpIn, S!In, In, S!Spontaneous, Spontaneous,
         S!Arcs, Arcs, S!Loop, Loop
<1>2. \A a, s : S!LoopStar(a, s) = LoopStar(a, s)
  BY SameSeparateWeights, SameSeparateArcs, Zenon DEF S!LoopStar, LoopStar
<1>3. \A a, s, c : S!Moved(a, s, c) = Moved(a, s, c)
  BY DEF S!Moved, Moved, S!Out, Out, S!Arcs, Arcs
<1>4. \A a, s, l, t : S!Blown(a, s, l, t) = Blown(a, s, l, t)
  BY SameSeparateWeights, SameSeparateArcs, Zenon DEF S!Blown, Blown
<1>5. \A a, s, l, c, t : S!Brought(a, s, l, c, t) = Brought(a, s, l, c, t)
  BY <1>3, <1>4, SameSeparateWeights, Zenon DEF S!Brought, Brought
<1>6. ASSUME NEW a, NEW s, NEW l, NEW c
      PROVE  S!Blow(a, s, l, c) = Blow(a, s, l, c)
  <2>1. [t \in S!Arcs(a) \union S!Moved(a, s, c) |->
           S!W!add(ws, S!Blown(a, s, l, t), S!Brought(a, s, l, c, t))] =
        [t \in Arcs(a) \union Moved(a, s, c) |->
           W!add(ws, Blown(a, s, l, t), Brought(a, s, l, c, t))]
    BY <1>3, <1>4, <1>5, SameSeparateWeights, SameSeparateArcs
  <2>. QED
    BY <2>1, SameSeparateArcs, Zenon DEF S!Blow, Blow
<1>7. \A a, s : S!CanFree(a, s) <=> CanFree(a, s)
  BY SameSeparateWeights, SameSeparateArcs, Zenon DEF S!CanFree, CanFree
<1>. QED
  BY <1>1, <1>2, <1>6, <1>7

\* What the separate remover makes of a state that it frees.
LEMMA SameSeparateSeparated ==
  \A d, a, s, p : S!Separated(d, a, s, p) = Separated(d, a, s, p)
<1>. SUFFICES ASSUME NEW d, NEW a, NEW s, NEW p
              PROVE  S!Separated(d, a, s, p) = Separated(d, a, s, p)
  OBVIOUS
<1>. DEFINE one == Blow(Part(d, Arcs(d) \ SpIn(d, s)), s, LoopStar(d, s), Closure(d, s))
            other == Blow(a, s, LoopStar(d, s), Closure(d, s))
            result == IF p /\ In(one, s) = {} /\ In(other, s) = {}
                      THEN <<Without(one, s), Without(other, s)>>
                      ELSE <<one, other>>
<1>1. Separated(d, a, s, p) = result
  BY Zenon DEF Separated
<1>2. S!Blow(S!Part(d, S!Arcs(d) \ S!SpIn(d, s)), s, S!LoopStar(d, s), S!Closure(d, s)) = one
  BY SameSeparateBlow, SameSeparateArcs, Zenon
<1>3. S!Blow(a, s, S!LoopStar(d, s), S!Closure(d, s)) = other
  BY SameSeparateBlow, Zenon
<1>. HIDE DEF one, other
<1>4. S!Separated(d, a, s, p) =
        IF p /\ S!In(one, s) = {} /\ S!In(other, s) = {}
        THEN <<S!Without(one, s), S!Without(other, s)>>
        ELSE <<one, other>>
  BY <1>2, <1>3, Zenon DEF S!Separated
<1>5. S!In(one, s) = In(one, s) /\ S!In(other, s) = In(other, s)
  BY SameSeparateArcs, Zenon
<1>6. S!Without(one, s) = Without(one, s) /\ S!Without(other, s) = Without(other, s)
  BY SameSeparateArcs, Zenon
<1>. QED
  BY <1>1, <1>4, <1>5, <1>6, Zenon

\* The top of the heap of the separate remover.
LEMMA SameSeparateTop == \A h : S!Top(h) = Top(h)
BY DEF S!Top, Top, S!Before, Before

\* The weights of the remover that the separate one implements.
LEMMA SameBothWeights ==
  /\ \A k, l, r : S!InPlace!W!add(k, l, r) = W!add(k, l, r)
  /\ \A k, l, r : S!InPlace!W!mul(k, l, r) = W!mul(k, l, r)
  /\ \A k, v : S!InPlace!W!star(k, v) = W!star(k, v)
  /\ \A k, v : S!InPlace!W!starrable(k, v) = W!starrable(k, v)
  /\ \A k : S!InPlace!W!one(k) = W!one(k)
  /\ \A k : S!InPlace!W!zero(k) = W!zero(k)
<1>1. \A k : S!InPlace!W!zero(k) = W!zero(k)
  BY DEF S!InPlace!W!zero, W!zero, S!InPlace!W!oo, W!oo
<1>2. \A k : S!InPlace!W!one(k) = W!one(k)
  BY DEF S!InPlace!W!one, W!one
<1>3. \A k, v : S!InPlace!W!starrable(k, v) = W!starrable(k, v)
  BY DEF S!InPlace!W!starrable, W!starrable, S!InPlace!W!Magnitude, W!Magnitude
<1>4. \A k, v : S!InPlace!W!star(k, v) = W!star(k, v)
  BY <1>2, Zenon DEF S!InPlace!W!star, W!star
<1>5. \A m, n : S!InPlace!W!reduce(m, n) = W!reduce(m, n)
  BY DEF S!InPlace!W!reduce, W!reduce, S!InPlace!W!gcd, W!gcd, S!InPlace!W!Magnitude, W!Magnitude
<1>6. \A k, l, r : S!InPlace!W!mul(k, l, r) = W!mul(k, l, r)
  BY <1>5 DEF S!InPlace!W!mul, W!mul, S!InPlace!W!oo, W!oo
<1>7. \A k, l, r : S!InPlace!W!add(k, l, r) = W!add(k, l, r)
  BY <1>5 DEF S!InPlace!W!add, W!add, S!InPlace!W!oo, W!oo
<1>. QED
  BY <1>1, <1>2, <1>3, <1>4, <1>6, <1>7

\* The arcs of the remover that the separate one implements.
LEMMA SameBothArcs ==
  /\ \A a : S!InPlace!Arcs(a) = Arcs(a)
  /\ \A a : S!InPlace!States(a) = States(a)
  /\ \A a : S!InPlace!Spontaneous(a) = Spontaneous(a)
  /\ \A a : S!InPlace!is_proper(a) <=> is_proper(a)
  /\ \A a, s : S!InPlace!In(a, s) = In(a, s)
  /\ \A a, s : S!InPlace!Out(a, s) = Out(a, s)
  /\ \A a, s : S!InPlace!SpIn(a, s) = SpIn(a, s)
  /\ \A a, s : S!InPlace!SpOut(a, s) = SpOut(a, s)
  /\ \A s : S!InPlace!Loop(s) = Loop(s)
  /\ \A a, T : S!InPlace!Part(a, T) = Part(a, T)
  /\ \A a : S!InPlace!NonZero(a) = NonZero(a)
  /\ \A a, s : S!InPlace!Without(a, s) = Without(a, s)
  /\ \A a, x : S!InPlace!Weight(a, x) = Weight(a, x)
<1>1. \A a : S!InPlace!Arcs(a) = Arcs(a)
  BY DEF S!InPlace!Arcs, Arcs
<1>2. \A a : S!InPlace!Spontaneous(a) = Spontaneous(a)
  BY DEF S!InPlace!Spontaneous, Spontaneous, S!InPlace!Arcs, Arcs
<1>3. \A a, s : S!InPlace!In(a, s) = In(a, s)
  BY DEF S!InPlace!In, In, S!InPlace!Arcs, Arcs
<1>4. \A a, s : S!InPlace!Out(a, s) = Out(a, s)
  BY DEF S!InPlace!Out, Out, S!InPlace!Arcs, Arcs
<1>5. \A a, T : S!InPlace!Part(a, T) = Part(a, T)
  BY DEF S!InPlace!Part, Part, S!InPlace!Arcs, Arcs
<1>6. \A a : S!InPlace!NonZero(a) = NonZero(a)
  BY DEF S!InPlace!NonZero, NonZero, S!InPlace!Part, Part, S!InPlace!Arcs, Arcs,
         S!InPlace!W!zero, W!zero, S!InPlace!W!oo, W!oo
<1>7. \A a, s : S!InPlace!Without(a, s) = Without(a, s)
  BY DEF S!InPlace!Without, Without, S!InPlace!Part, Part, S!InPlace!Arcs, Arcs
<1>8. \A a, x : S!InPlace!Weight(a, x) = Weight(a, x)
  BY <1>1, SameBothWeights, Zenon DEF S!InPlace!Weight, Weight
<1>9. \A a : S!InPlace!States(a) = States(a)
  BY DEF S!InPlace!States, States, S!InPlace!Arcs, Arcs, S!InPlace!pre, pre, S!InPlace!post, post
<1>10. \A s : S!InPlace!Loop(s) = Loop(s)
  BY DEF S!InPlace!Loop, Loop
<1>. QED
  BY <1>1, <1>2, <1>3, <1>4, <1>5, <1>6, <1>7, <1>8, <1>9, <1>10, Zenon
     DEF S!InPlace!SpIn, SpIn, S!InPlace!SpOut, SpOut, S!InPlace!is_proper, is_proper

\* The elimination of the remover that the separate one implements.
LEMMA SameBothBlow ==
  /\ \A a, s : S!InPlace!Closure(a, s) = Closure(a, s)
  /\ \A a, s : S!InPlace!LoopStar(a, s) = LoopStar(a, s)
  /\ \A a, s, l, c : S!InPlace!Blow(a, s, l, c) = Blow(a, s, l, c)
  /\ \A a, s : S!InPlace!CanFree(a, s) <=> CanFree(a, s)
<1>1. \A a, s : S!InPlace!Closure(a, s) = Closure(a, s)
  BY DEF S!InPlace!Closure, Closure, S!InPlace!SpIn, SpIn, S!InPlace!In, In, S!InPlace!Spontaneous, Spontaneous,
         S!InPlace!Arcs, Arcs, S!InPlace!Loop, Loop
<1>2. \A a, s : S!InPlace!LoopStar(a, s) = LoopStar(a, s)
  BY SameBothWeights, SameBothArcs, Zenon DEF S!InPlace!LoopStar, LoopStar
<1>3. \A a, s, c : S!InPlace!Moved(a, s, c) = Moved(a, s, c)
  BY DEF S!InPlace!Moved, Moved, S!InPlace!Out, Out, S!InPlace!Arcs, Arcs
<1>4. \A a, s, l, t : S!InPlace!Blown(a, s, l, t) = Blown(a, s, l, t)
  BY SameBothWeights, SameBothArcs, Zenon DEF S!InPlace!Blown, Blown
<1>5. \A a, s, l, c, t : S!InPlace!Brought(a, s, l, c, t) = Brought(a, s, l, c, t)
  BY <1>3, <1>4, SameBothWeights, Zenon DEF S!InPlace!Brought, Brought
<1>6. ASSUME NEW a, NEW s, NEW l, NEW c
      PROVE  S!InPlace!Blow(a, s, l, c) = Blow(a, s, l, c)
  <2>1. [t \in S!InPlace!Arcs(a) \union S!InPlace!Moved(a, s, c) |->
           S!InPlace!W!add(ws, S!InPlace!Blown(a, s, l, t), S!InPlace!Brought(a, s, l, c, t))] =
        [t \in Arcs(a) \union Moved(a, s, c) |->
           W!add(ws, Blown(a, s, l, t), Brought(a, s, l, c, t))]
    BY <1>3, <1>4, <1>5, SameBothWeights, SameBothArcs
  <2>. QED
    BY <2>1, SameBothArcs, Zenon DEF S!InPlace!Blow, Blow
<1>7. \A a, s : S!InPlace!CanFree(a, s) <=> CanFree(a, s)
  BY SameBothWeights, SameBothArcs, Zenon DEF S!InPlace!CanFree, CanFree
<1>. QED
  BY <1>1, <1>2, <1>6, <1>7

\* What the remover that the separate one implements makes of a state that it frees.
LEMMA SameBothFreed ==
  \A a, s, p : S!InPlace!Freed(a, s, p) = Freed(a, s, p)
<1>1. \A a, s : S!InPlace!Bypass(a, s) = Bypass(a, s)
  BY SameBothBlow, SameBothArcs, Zenon DEF S!InPlace!Bypass, Bypass
<1>2. \A a, s, p : S!InPlace!Prune(a, s, p) = Prune(a, s, p)
  BY SameBothArcs, Zenon DEF S!InPlace!Prune, Prune
<1>. QED
  BY <1>1, <1>2, Zenon DEF S!InPlace!Freed, Freed

\* The profiles of the remover that the separate one implements.
LEMMA SameBothProfile ==
  /\ \A a, s : S!InPlace!Profile(a, s) = Profile(a, s)
  /\ \A a : S!InPlace!Heap(a) = Heap(a)
  /\ \A h, a, s, b : S!InPlace!Requeued(h, a, s, b) = Requeued(h, a, s, b)
<1>1. ASSUME NEW a, NEW s
      PROVE  S!InPlace!Profile(a, s) = Profile(a, s)
  <2>1. \A T : S!InPlace!Cardinality(T) = Cardinality(T)
    BY DEF S!InPlace!Cardinality, Cardinality
  <2>2. {x \in S!InPlace!In(a, s) : x.label # "$"} = {x \in In(a, s) : x.label # "$"}
    BY SameBothArcs
  <2>. QED
    BY <2>1, <2>2, SameBothArcs, Zenon DEF S!InPlace!Profile, Profile
<1>2. \A a : S!InPlace!Heap(a) = Heap(a)
  BY <1>1, SameBothArcs DEF S!InPlace!Heap, Heap
<1>3. \A a, s : S!InPlace!Neighbors(a, s) = Neighbors(a, s)
  BY DEF S!InPlace!Neighbors, Neighbors, S!InPlace!In, In, S!InPlace!Out, Out, S!InPlace!Arcs, Arcs
<1>4. \A h, a, s, b : S!InPlace!Requeued(h, a, s, b) = Requeued(h, a, s, b)
  BY <1>1, <1>3 DEF S!InPlace!Requeued, Requeued
<1>. QED
  BY <1>1, <1>2, <1>4

\* The top of the heap of the remover that the separate one implements.
LEMMA SameBothTop == \A h : S!InPlace!Top(h) = Top(h)
BY DEF S!InPlace!Top, Top, S!InPlace!Before, Before

-----------------------------------------------------------------------------
(* Parts of automata. *)

\* An image of a finite set is finite.
LEMMA ImageFinite ==
  ASSUME NEW T, IsFiniteSet(T), NEW f, DOMAIN f = T
  PROVE  IsFiniteSet({f[x] : x \in T})
<1>. DEFINE g == [x \in T |-> f[x]]
<1>1. g \in Surjection(T, {f[x] : x \in T})
  BY DEF Surjection
<1>. QED
  BY <1>1, FS_Surjection

\* What makes an automaton.
LEMMA AutomatonLemma ==
  ASSUME NEW k, NEW a, IsAutomatonOver(k, a)
  PROVE  /\ a = [x \in Arcs(a) |-> a[x]]
         /\ IsFiniteSet(Arcs(a))
         /\ \A x \in Arcs(a) : IsArc(x) /\ W!IsWeight(k, a[x]) /\ a[x] # W!zero(k)
BY DEF IsAutomatonOver

\* What a part of an automaton is made of.
LEMMA PartLemma ==
  ASSUME NEW a, NEW T
  PROVE  /\ Arcs(Part(a, T)) = Arcs(a) \intersect T
         /\ \A x \in Arcs(a) \intersect T : Part(a, T)[x] = a[x]
         /\ Part(a, T) = [x \in Arcs(Part(a, T)) |-> Part(a, T)[x]]
<1>. DEFINE b == [x \in Arcs(a) \intersect T |-> a[x]]
<1>1. Part(a, T) = b
  BY DEF Part
<1>2. /\ Arcs(b) = Arcs(a) \intersect T
      /\ \A x \in Arcs(a) \intersect T : b[x] = a[x]
      /\ b = [x \in Arcs(b) |-> b[x]]
  BY DEF Arcs
<1>. QED
  BY <1>1, <1>2, Zenon

\* A part of an automaton is one.
LEMMA PartIsAutomaton ==
  ASSUME NEW k, NEW a, NEW T, IsAutomatonOver(k, a)
  PROVE  IsAutomatonOver(k, Part(a, T))
<1>. DEFINE b == Part(a, T)
<1>1. /\ Arcs(b) = Arcs(a) \intersect T
      /\ \A x \in Arcs(a) \intersect T : b[x] = a[x]
      /\ b = [x \in Arcs(b) |-> b[x]]
  BY PartLemma, Zenon
<1>. HIDE DEF b
<1>2. IsFiniteSet(Arcs(b))
  BY <1>1, AutomatonLemma, FS_Subset
<1>3. \A x \in Arcs(b) : IsArc(x) /\ W!IsWeight(k, b[x]) /\ b[x] # W!zero(k)
  BY <1>1, AutomatonLemma
<1>. QED
  BY <1>1, <1>2, <1>3, Zenon DEF IsAutomatonOver, b

\* What an automaton without a state is made of.
LEMMA WithoutLemma ==
  ASSUME NEW a, NEW s
  PROVE  /\ Arcs(Without(a, s)) = {x \in Arcs(a) : x.src # s /\ x.dst # s}
         /\ \A x \in Arcs(Without(a, s)) : Without(a, s)[x] = a[x]
<1>. DEFINE T == {x \in Arcs(a) : s \notin {x.src, x.dst}}
<1>1. Without(a, s) = Part(a, T)
  BY DEF Without
<1>2. Arcs(a) \intersect T = {x \in Arcs(a) : x.src # s /\ x.dst # s}
  OBVIOUS
<1>. HIDE DEF T
<1>3. /\ Arcs(Part(a, T)) = Arcs(a) \intersect T
      /\ \A x \in Arcs(a) \intersect T : Part(a, T)[x] = a[x]
  BY PartLemma, Zenon
<1>. QED
  BY <1>1, <1>2, <1>3

\* It is an automaton.
LEMMA WithoutIsAutomaton ==
  ASSUME NEW k, NEW a, NEW s, IsAutomatonOver(k, a)
  PROVE  IsAutomatonOver(k, Without(a, s))
BY PartIsAutomaton DEF Without

\* Spontaneous arcs are inside.
LEMMA SpontaneousLemma ==
  ASSUME NEW k, NEW a, IsAutomatonOver(k, a), NEW x \in Arcs(a), x.label = ""
  PROVE  x.src \in Nat \ {pre, post} /\ x.dst \in Nat \ {pre, post}
BY AutomatonLemma DEF IsArc

-----------------------------------------------------------------------------
(* Elimination. *)

\* What Blow makes of the arcs.
LEMMA BlowLemma ==
  ASSUME NEW a, NEW s, NEW l, NEW c, NEW b, b = Blow(a, s, l, c)
  PROVE  /\ Arcs(b) = {t \in Arcs(a) \union Moved(a, s, c) :
                         W!add(ws, Blown(a, s, l, t), Brought(a, s, l, c, t)) # W!zero(ws)}
         /\ \A t \in Arcs(b) : b[t] = W!add(ws, Blown(a, s, l, t), Brought(a, s, l, c, t))
         /\ b = [t \in Arcs(b) |-> b[t]]
<1>. DEFINE g == [t \in Arcs(a) \union Moved(a, s, c) |->
                    W!add(ws, Blown(a, s, l, t), Brought(a, s, l, c, t))]
<1>1. b = NonZero(g)
  BY DEF Blow
<1>2. /\ Arcs(g) = Arcs(a) \union Moved(a, s, c)
      /\ \A t \in Arcs(g) : g[t] = W!add(ws, Blown(a, s, l, t), Brought(a, s, l, c, t))
  BY DEF Arcs
<1>. HIDE DEF g
<1>3. b = Part(g, {t \in Arcs(g) : g[t] # W!zero(ws)})
  BY <1>1 DEF NonZero
<1>4. /\ Arcs(b) = {t \in Arcs(g) : g[t] # W!zero(ws)}
      /\ \A t \in Arcs(b) : b[t] = g[t]
      /\ b = [t \in Arcs(b) |-> b[t]]
  <2>. DEFINE T == {t \in Arcs(g) : g[t] # W!zero(ws)}
  <2>1. /\ Arcs(b) = Arcs(g) \intersect T
        /\ \A t \in Arcs(g) \intersect T : b[t] = g[t]
        /\ b = [t \in Arcs(b) |-> b[t]]
    <3>1. b = Part(g, T)
      BY <1>3
    <3>. HIDE DEF T
    <3>. QED
      BY <3>1, PartLemma
  <2>2. Arcs(g) \intersect T = T
    OBVIOUS
  <2>. QED
    BY <2>1, <2>2
<1>. QED
  BY <1>2, <1>4

\* What brings spontaneous arcs to s, and from where.
LEMMA ClosureLemma ==
  ASSUME NEW a, NEW s, IsAutomatonOver(ws, a), NEW c, c = Closure(a, s)
  PROVE  /\ IsFiniteSet(DOMAIN c)
         /\ \A p \in DOMAIN c :
              /\ p \in Nat \ {pre, post} /\ p # s /\ W!IsWeight(ws, c[p])
              /\ \E e \in SpIn(a, s) : e.src = p
         /\ DOMAIN c # {} => s \in Nat \ {pre, post}
<1>. DEFINE entering == SpIn(a, s) \ {Loop(s)}
<1>1. c = [p \in {e.src : e \in entering} |-> a[CHOOSE e \in entering : e.src = p]]
  BY Zenon DEF Closure
<1>2. DOMAIN c = {e.src : e \in entering}
  BY <1>1
<1>3. \A e \in entering :
        e \in Arcs(a) /\ e \in SpIn(a, s) /\ e.dst = s /\ e.label = "" /\ e # Loop(s)
  BY DEF SpIn, In, Spontaneous
<1>4. \A e \in entering : e.src # s
  <2>1. \A e \in entering : e \in [src : Nat, label : Label \union {""}, dst : Nat]
    BY <1>3, AutomatonLemma DEF IsArc
  <2>. QED
    <3>. SUFFICES ASSUME NEW e \in entering, e.src = s
                  PROVE  e = Loop(s)
      BY <1>3
    <3>1. e \in [src : Nat, label : Label \union {""}, dst : Nat] /\ e.label = "" /\ e.dst = s
      BY <1>3, <2>1
    <3>2. e = [src |-> e.src, label |-> e.label, dst |-> e.dst]
      BY <3>1
    <3>. QED
      BY <3>1, <3>2 DEF Loop
<1>. HIDE DEF entering
<1>5. IsFiniteSet(DOMAIN c)
  <2>1. IsFiniteSet(entering)
    <3>1. entering \subseteq Arcs(a)
      BY <1>3
    <3>. QED
      BY <3>1, AutomatonLemma, FS_Subset
  <2>. DEFINE source == [e \in entering |-> e.src]
  <2>2. DOMAIN source = entering /\ {source[e] : e \in entering} = {e.src : e \in entering}
    OBVIOUS
  <2>. HIDE DEF source
  <2>3. IsFiniteSet({source[e] : e \in entering})
    BY <2>1, <2>2, ImageFinite
  <2>. QED
    BY <1>2, <2>2, <2>3
<1>6. ASSUME NEW p \in DOMAIN c
      PROVE  /\ p \in Nat \ {pre, post} /\ p # s /\ W!IsWeight(ws, c[p])
             /\ \E e \in SpIn(a, s) : e.src = p
             /\ s \in Nat \ {pre, post}
  <2>. DEFINE f == CHOOSE e \in entering : e.src = p
  <2>1. f \in entering /\ f.src = p
    BY <1>2
  <2>2. c[p] = a[f]
    BY <1>1, <1>2
  <2>. HIDE DEF f
  <2>3. f \in Arcs(a) /\ f \in SpIn(a, s) /\ f.dst = s /\ f.label = "" /\ f.src # s
    BY <1>3, <1>4, <2>1
  <2>4. W!IsWeight(ws, a[f])
    BY <2>3, AutomatonLemma
  <2>5. f.src \in Nat \ {pre, post} /\ f.dst \in Nat \ {pre, post}
    BY <2>3, SpontaneousLemma
  <2>. QED
    BY <2>1, <2>2, <2>3, <2>4, <2>5
<1>. QED
  BY <1>5, <1>6

\* The star of the loop.
LEMMA LoopStarLemma ==
  ASSUME ws \in W!Names, NEW a, NEW s, IsAutomatonOver(ws, a), CanFree(a, s)
  PROVE  W!IsWeight(ws, LoopStar(a, s))
<1>1. CASE Loop(s) \in Arcs(a)
  <2>1. W!IsWeight(ws, a[Loop(s)])
    BY <1>1, AutomatonLemma
  <2>. QED
    BY <1>1, <2>1, StarLemma DEF LoopStar, CanFree
<1>2. CASE Loop(s) \notin Arcs(a)
  BY <1>2, OneLemma DEF LoopStar
<1>. QED
  BY <1>1, <1>2

\* What Blow needs to know about the sources.
Sources(c, s) ==
  /\ IsFiniteSet(DOMAIN c)
  /\ \A p \in DOMAIN c : p \in Nat \ {pre, post} /\ W!IsWeight(ws, c[p])
  /\ DOMAIN c # {} => s \in Nat \ {pre, post}

\* An arc that is moved.
LEMMA MovedLemma ==
  ASSUME NEW a, IsAutomatonOver(ws, a), NEW s, NEW c, Sources(c, s), NEW t \in Moved(a, s, c)
  PROVE  /\ IsArc(t)
         /\ t.src \in DOMAIN c
         /\ \E x \in Out(a, s) : x.label = t.label /\ x.dst = t.dst
<1>1. PICK x \in Out(a, s), p \in DOMAIN c : t = [x EXCEPT !.src = p]
  BY DEF Moved
<1>2. x \in Arcs(a) /\ x.src = s
  BY DEF Out
<1>3. x \in [src : Nat, label : Label \union {""}, dst : Nat] /\ x.dst # pre
  BY <1>2, AutomatonLemma DEF IsArc
<1>4. (x.label = "$") <=> (x.src = pre \/ x.dst = post)
  BY <1>2, AutomatonLemma DEF IsArc
<1>5. s # pre /\ p \in Nat /\ p # pre /\ p # post
  BY DEF Sources
<1>6. /\ t \in [src : Nat, label : Label \union {""}, dst : Nat]
      /\ t.src = p /\ t.dst = x.dst /\ t.label = x.label
  BY <1>1, <1>3, <1>5
<1>7. IsArc(t)
  BY <1>2, <1>3, <1>4, <1>5, <1>6 DEF IsArc
<1>. QED
  BY <1>5, <1>6, <1>7

\* Zero is a weight.
LEMMA WeightOfZeroLemma ==
  ASSUME NEW k \in W!Names
  PROVE  W!IsWeight(k, W!zero(k))
<1>1. W!gcd[<<0, 1>>] = 1
  BY UnitLemma, CoprimeLemma DEF Divisors
<1>2. W!IsWeight("q", <<0, 1>>)
  BY <1>1, WeightLemma DEF W!Magnitude
<1>3. CASE k = "b"
  BY <1>3, WeightLemma DEF W!zero
<1>4. CASE k = "z"
  BY <1>4, WeightLemma DEF W!zero
<1>5. CASE k = "zmin"
  BY <1>5, WeightLemma DEF W!zero, W!oo
<1>6. CASE k = "q"
  <2>1. W!zero(k) = <<0, 1>>
    BY <1>6 DEF W!zero
  <2>. QED
    BY <1>2, <1>6, <2>1
<1>. QED
  BY <1>3, <1>4, <1>5, <1>6 DEF W!Names

\* An arc that Blow leaves alone.
LEMMA UntouchedLemma ==
  ASSUME ws \in W!Names, NEW a, IsAutomatonOver(ws, a), NEW s, NEW l, NEW c,
         NEW b, b = Blow(a, s, l, c),
         NEW t, t \notin Out(a, s), t \notin Moved(a, s, c)
  PROVE  /\ t \in Arcs(b) <=> t \in Arcs(a)
         /\ t \in Arcs(a) => b[t] = a[t]
<1>1. /\ Arcs(b) = {x \in Arcs(a) \union Moved(a, s, c) :
                      W!add(ws, Blown(a, s, l, x), Brought(a, s, l, c, x)) # W!zero(ws)}
      /\ \A x \in Arcs(b) : b[x] = W!add(ws, Blown(a, s, l, x), Brought(a, s, l, c, x))
  BY BlowLemma
<1>2. CASE t \in Arcs(a)
  <2>1. Brought(a, s, l, c, t) = W!zero(ws)
    BY DEF Brought
  <2>2. Blown(a, s, l, t) = a[t]
    BY <1>2 DEF Blown, Weight
  <2>3. W!IsWeight(ws, a[t]) /\ a[t] # W!zero(ws)
    BY <1>2, AutomatonLemma
  <2>4. W!add(ws, a[t], W!zero(ws)) = a[t]
    BY <2>3, ZeroLemma
  <2>. QED
    BY <1>1, <1>2, <2>1, <2>2, <2>3, <2>4
<1>3. CASE t \notin Arcs(a)
  BY <1>1, <1>3
<1>. QED
  BY <1>2, <1>3

\* Blow makes an automaton.
LEMMA BlowIsAutomaton ==
  ASSUME ws \in W!Names, NEW a, IsAutomatonOver(ws, a), NEW s,
         NEW l, W!IsWeight(ws, l), NEW c, Sources(c, s),
         NEW b, b = Blow(a, s, l, c)
  PROVE  IsAutomatonOver(ws, b)
<1>1. /\ Arcs(b) = {x \in Arcs(a) \union Moved(a, s, c) :
                      W!add(ws, Blown(a, s, l, x), Brought(a, s, l, c, x)) # W!zero(ws)}
      /\ \A x \in Arcs(b) : b[x] = W!add(ws, Blown(a, s, l, x), Brought(a, s, l, c, x))
      /\ b = [t \in Arcs(b) |-> b[t]]
  BY BlowLemma
<1>2. IsFiniteSet(Arcs(b))
  <2>1. IsFiniteSet(Out(a, s) \X DOMAIN c)
    <3>1. Out(a, s) \subseteq Arcs(a)
      BY DEF Out
    <3>2. IsFiniteSet(Out(a, s))
      BY <3>1, AutomatonLemma, FS_Subset
    <3>3. IsFiniteSet(DOMAIN c)
      BY DEF Sources
    <3>. QED
      BY <3>2, <3>3, FS_Product
  <2>. DEFINE move == [tp \in Out(a, s) \X DOMAIN c |-> [tp[1] EXCEPT !.src = tp[2]]]
  <2>2. Moved(a, s, c) = {move[tp] : tp \in Out(a, s) \X DOMAIN c}
    <3>1. \A t \in Out(a, s), p \in DOMAIN c :
            <<t, p>> \in Out(a, s) \X DOMAIN c /\ move[<<t, p>>] = [t EXCEPT !.src = p]
      OBVIOUS
    <3>2. \A tp \in Out(a, s) \X DOMAIN c :
            tp[1] \in Out(a, s) /\ tp[2] \in DOMAIN c /\ move[tp] = [tp[1] EXCEPT !.src = tp[2]]
      OBVIOUS
    <3>. HIDE DEF move
    <3>3. ASSUME NEW x \in Moved(a, s, c)
          PROVE  x \in {move[tp] : tp \in Out(a, s) \X DOMAIN c}
      <4>1. PICK t \in Out(a, s), p \in DOMAIN c : x = [t EXCEPT !.src = p]
        BY DEF Moved
      <4>. QED
        BY <3>1, <4>1
    <3>4. ASSUME NEW tp \in Out(a, s) \X DOMAIN c
          PROVE  move[tp] \in Moved(a, s, c)
      <4>1. tp[1] \in Out(a, s) /\ tp[2] \in DOMAIN c /\ move[tp] = [tp[1] EXCEPT !.src = tp[2]]
        BY <3>2
      <4>2. \A x \in Out(a, s), p \in DOMAIN c : [x EXCEPT !.src = p] \in Moved(a, s, c)
        BY DEF Moved
      <4>. QED
        BY <4>1, <4>2
    <3>. QED
      BY <3>3, <3>4
  <2>3. DOMAIN move = Out(a, s) \X DOMAIN c
    OBVIOUS
  <2>. HIDE DEF move
  <2>4. IsFiniteSet(Moved(a, s, c))
    BY <2>1, <2>2, <2>3, ImageFinite
  <2>5. IsFiniteSet(Arcs(a) \union Moved(a, s, c))
    BY <2>4, AutomatonLemma, FS_Union
  <2>6. Arcs(b) \subseteq Arcs(a) \union Moved(a, s, c)
    BY <1>1
  <2>. QED
    BY <2>5, <2>6, FS_Subset
<1>3. ASSUME NEW x \in Arcs(b)
      PROVE  IsArc(x)
  <2>1. CASE x \in Arcs(a)
    BY <2>1, AutomatonLemma
  <2>2. CASE x \in Moved(a, s, c)
    BY <2>2, MovedLemma
  <2>. QED
    BY <1>1, <1>3, <2>1, <2>2
<1>4. W!IsWeight(ws, W!zero(ws))
  BY WeightOfZeroLemma
<1>5. ASSUME NEW x
      PROVE  W!IsWeight(ws, Blown(a, s, l, x))
  <2>1. x \in Arcs(a) => W!IsWeight(ws, a[x])
    BY AutomatonLemma
  <2>2. CASE x \in Out(a, s)
    <3>1. x \in Arcs(a)
      BY <2>2 DEF Out
    <3>2. W!IsWeight(ws, W!mul(ws, l, a[x]))
      BY <2>1, <3>1, MulLemma
    <3>. QED
      BY <2>2, <3>2 DEF Blown
  <2>3. CASE x \notin Out(a, s) /\ x \in Arcs(a)
    BY <2>1, <2>3 DEF Blown, Weight
  <2>4. CASE x \notin Out(a, s) /\ x \notin Arcs(a)
    BY <1>4, <2>4 DEF Blown, Weight
  <2>. QED
    BY <2>2, <2>3, <2>4
<1>6. ASSUME NEW x
      PROVE  W!IsWeight(ws, Brought(a, s, l, c, x))
  <2>1. CASE x \in Moved(a, s, c)
    <3>1. x.src \in DOMAIN c
      BY <2>1, MovedLemma
    <3>2. W!IsWeight(ws, c[x.src])
      BY <3>1 DEF Sources
    <3>3. W!IsWeight(ws, W!mul(ws, c[x.src], Blown(a, s, l, [x EXCEPT !.src = s])))
      BY <1>5, <3>2, MulLemma
    <3>. QED
      BY <2>1, <3>3 DEF Brought
  <2>2. CASE x \notin Moved(a, s, c)
    BY <1>4, <2>2 DEF Brought
  <2>. QED
    BY <2>1, <2>2
<1>7. \A x \in Arcs(b) : W!IsWeight(ws, b[x]) /\ b[x] # W!zero(ws)
  BY <1>1, <1>5, <1>6, AddLemma
<1>. QED
  BY <1>1, <1>2, <1>3, <1>7, Zenon DEF IsAutomatonOver

\* The sources of the spontaneous arcs are fit for Blow.
LEMMA SourcesLemma ==
  ASSUME NEW a, NEW s, IsAutomatonOver(ws, a)
  PROVE  Sources(Closure(a, s), s)
<1>. DEFINE c == Closure(a, s)
<1>1. /\ IsFiniteSet(DOMAIN c)
      /\ \A p \in DOMAIN c :
           /\ p \in Nat \ {pre, post} /\ p # s /\ W!IsWeight(ws, c[p])
           /\ \E e \in SpIn(a, s) : e.src = p
      /\ DOMAIN c # {} => s \in Nat \ {pre, post}
  BY ClosureLemma
<1>. QED
  BY <1>1, Zenon DEF Sources

\* What is left once a state is freed, before it may be removed.
LEMMA BypassIsAutomaton ==
  ASSUME ws \in W!Names, NEW a, NEW s, IsAutomatonOver(ws, a), CanFree(a, s)
  PROVE  IsAutomatonOver(ws, Bypass(a, s))
<1>1. IsAutomatonOver(ws, Part(a, Arcs(a) \ SpIn(a, s)))
  BY PartIsAutomaton
<1>2. W!IsWeight(ws, LoopStar(a, s)) /\ Sources(Closure(a, s), s)
  BY LoopStarLemma, SourcesLemma
<1>. QED
  BY <1>1, <1>2, BlowIsAutomaton, Zenon DEF Bypass

\* Freeing a state makes an automaton.
LEMMA FreedIsAutomaton ==
  ASSUME ws \in W!Names, NEW a, NEW s, NEW p, IsAutomatonOver(ws, a), CanFree(a, s)
  PROVE  IsAutomatonOver(ws, Freed(a, s, p))
<1>. DEFINE b == Bypass(a, s)
<1>1. IsAutomatonOver(ws, b)
  BY BypassIsAutomaton, Zenon
<1>2. IsAutomatonOver(ws, Without(b, s))
  BY <1>1, WithoutIsAutomaton, Zenon
<1>. QED
  BY <1>1, <1>2, Zenon DEF Freed, Prune

\* The spontaneous arcs that Blow leaves enter no other state.
LEMMA BlowSpontaneousLemma ==
  ASSUME NEW a, NEW s, NEW l, NEW c, IsAutomatonOver(ws, a), Sources(c, s),
         NEW b, b = Blow(a, s, l, c), NEW x \in Spontaneous(b)
  PROVE  \E y \in Spontaneous(a) : y.dst = x.dst
<1>1. x \in Arcs(b) /\ x.label = ""
  BY DEF Spontaneous
<1>2. x \in Arcs(a) \union Moved(a, s, c)
  <2>1. Arcs(b) = {t \in Arcs(a) \union Moved(a, s, c) :
                     W!add(ws, Blown(a, s, l, t), Brought(a, s, l, c, t)) # W!zero(ws)}
    BY BlowLemma
  <2>. QED
    BY <1>1, <2>1
<1>3. CASE x \in Arcs(a)
  BY <1>1, <1>3 DEF Spontaneous
<1>4. CASE x \in Moved(a, s, c)
  <2>1. PICK y \in Out(a, s) : y.label = x.label /\ y.dst = x.dst
    BY <1>4, MovedLemma
  <2>2. y \in Arcs(a)
    BY <2>1 DEF Out
  <2>. QED
    BY <1>1, <2>1, <2>2 DEF Spontaneous
<1>. QED
  BY <1>2, <1>3, <1>4

\* Once the spontaneous arcs into a state are cut, no other one enters it.
LEMMA CutLemma ==
  ASSUME NEW a, NEW s, NEW y \in Spontaneous(Part(a, Arcs(a) \ SpIn(a, s)))
  PROVE  y \in Spontaneous(a) /\ y.dst # s
<1>1. y \in Arcs(a) \ SpIn(a, s) /\ y.label = ""
  <2>1. y \in Arcs(Part(a, Arcs(a) \ SpIn(a, s))) /\ y.label = ""
    BY DEF Spontaneous
  <2>2. Arcs(Part(a, Arcs(a) \ SpIn(a, s))) = Arcs(a) \intersect (Arcs(a) \ SpIn(a, s))
    BY PartLemma, Zenon
  <2>. QED
    BY <2>1, <2>2
<1>. QED
  BY <1>1 DEF SpIn, In, Spontaneous

\* The elimination leaves no spontaneous arc into the state, and makes some
\* into the other states that had some only.
LEMMA BypassSpontaneousLemma ==
  ASSUME NEW a, NEW s, IsAutomatonOver(ws, a), NEW x \in Spontaneous(Bypass(a, s))
  PROVE  x.dst # s /\ \E y \in Spontaneous(a) : y.dst = x.dst
<1>. DEFINE d == Part(a, Arcs(a) \ SpIn(a, s))
<1>1. IsAutomatonOver(ws, d)
  BY PartIsAutomaton
<1>2. Sources(Closure(a, s), s)
  BY SourcesLemma
<1>3. PICK b : b = Blow(d, s, LoopStar(a, s), Closure(a, s)) /\ x \in Spontaneous(b)
  BY Zenon DEF Bypass
<1>. HIDE DEF d
<1>4. PICK y \in Spontaneous(d) : y.dst = x.dst
  BY <1>1, <1>2, <1>3, BlowSpontaneousLemma
<1>. USE DEF d
<1>5. y \in Spontaneous(a) /\ y.dst # s
  BY <1>4, CutLemma
<1>. QED
  BY <1>4, <1>5

\* So does freeing it, whether or not it is removed.
LEMMA FreedSpontaneousLemma ==
  ASSUME NEW a, NEW s, NEW p, IsAutomatonOver(ws, a), NEW x \in Spontaneous(Freed(a, s, p))
  PROVE  x.dst # s /\ \E y \in Spontaneous(a) : y.dst = x.dst
<1>. DEFINE b == Bypass(a, s)
<1>1. x \in Arcs(b) /\ x.label = ""
  <2>1. x \in Arcs(Prune(b, s, p)) /\ x.label = ""
    BY DEF Spontaneous, Freed
  <2>2. Prune(b, s, p) = b \/ Prune(b, s, p) = Without(b, s)
    BY Zenon DEF Prune
  <2>. HIDE DEF b
  <2>3. CASE Prune(b, s, p) = Without(b, s)
    <3>1. Arcs(Without(b, s)) = {z \in Arcs(b) : z.src # s /\ z.dst # s}
      BY WithoutLemma, Zenon
    <3>. QED
      BY <2>1, <2>3, <3>1
  <2>. QED
    BY <2>1, <2>2, <2>3
<1>2. x \in Spontaneous(b)
  BY <1>1 DEF Spontaneous
<1>. QED
  BY <1>2, BypassSpontaneousLemma

-----------------------------------------------------------------------------
(* The remover in place. *)

\* The arcs of a state that is no neighbor of the one that is freed.
LEMMA FarArcsLemma ==
  ASSUME ws \in W!Names, NEW a, NEW s, NEW p, IsAutomatonOver(ws, a),
         NEW n, n # s, n \notin Neighbors(a, s),
         NEW t, t.src = n \/ t.dst = n
  PROVE  t \in Arcs(Freed(a, s, p)) <=> t \in Arcs(a)
<1>. DEFINE d == Part(a, Arcs(a) \ SpIn(a, s))
            c == Closure(a, s)
            b == Blow(d, s, LoopStar(a, s), c)
<1>1. /\ \A x \in Arcs(a) : x.src = s => x.dst # n
      /\ \A x \in Arcs(a) : x.dst = s => x.src # n
  BY DEF Neighbors, In, Out
<1>2. IsAutomatonOver(ws, d)
  BY PartIsAutomaton
<1>3. Arcs(d) = Arcs(a) \intersect (Arcs(a) \ SpIn(a, s))
  BY PartLemma, Zenon
<1>4. t \in Arcs(d) <=> t \in Arcs(a)
  BY <1>1, <1>3 DEF SpIn, In
<1>5. t \notin Out(d, s)
  BY <1>1, <1>3 DEF Out
<1>6. Sources(c, s)
  BY SourcesLemma, Zenon
<1>7. n \notin DOMAIN c
  <2>1. \A q \in DOMAIN c : \E e \in SpIn(a, s) : e.src = q
    BY ClosureLemma
  <2>2. \A e \in SpIn(a, s) : e \in Arcs(a) /\ e.dst = s
    BY DEF SpIn, In
  <2>. HIDE DEF c
  <2>. QED
    BY <1>1, <2>1, <2>2
<1>. HIDE DEF c, d
<1>8. t \notin Moved(d, s, c)
  <2>. SUFFICES ASSUME t \in Moved(d, s, c)
                PROVE  FALSE
    OBVIOUS
  <2>1. t.src \in DOMAIN c /\ \E x \in Out(d, s) : x.label = t.label /\ x.dst = t.dst
    BY <1>2, <1>6, MovedLemma
  <2>2. \A x \in Out(d, s) : x \in Arcs(a) /\ x.src = s
    BY <1>3 DEF Out
  <2>. QED
    BY <1>1, <1>7, <2>1, <2>2
<1>9. t \in Arcs(b) <=> t \in Arcs(d)
  BY <1>2, <1>5, <1>8, UntouchedLemma
<1>10. Bypass(a, s) = b
  BY DEF Bypass, c, d
<1>. HIDE DEF b
<1>11. Freed(a, s, p) = b \/ Freed(a, s, p) = Without(b, s)
  BY <1>10 DEF Freed, Prune
<1>12. t \in Arcs(a) => t.src # s /\ t.dst # s
  BY <1>1
<1>13. Arcs(Without(b, s)) = {x \in Arcs(b) : x.src # s /\ x.dst # s}
  BY WithoutLemma
<1>. QED
  BY <1>4, <1>9, <1>11, <1>12, <1>13

\* Freeing a state changes the profiles of its neighbors only.
LEMMA FarProfileLemma ==
  ASSUME ws \in W!Names, NEW a, NEW s, NEW p, IsAutomatonOver(ws, a),
         NEW n, n # s, n \notin Neighbors(a, s)
  PROVE  Profile(Freed(a, s, p), n) = Profile(a, n)
<1>. DEFINE b == Freed(a, s, p)
<1>1. \A t : t.src = n \/ t.dst = n => (t \in Arcs(b) <=> t \in Arcs(a))
  BY FarArcsLemma
<1>. HIDE DEF b
<1>2. In(b, n) = In(a, n)
  BY <1>1 DEF In
<1>3. Out(b, n) = Out(a, n)
  BY <1>1 DEF Out
<1>4. SpIn(b, n) = SpIn(a, n)
  BY <1>2 DEF SpIn, In, Spontaneous
<1>5. SpOut(b, n) = SpOut(a, n)
  BY <1>3 DEF SpOut, Out, Spontaneous
<1>6. Profile(b, n) = Profile(a, n)
  BY <1>2, <1>3, <1>4, <1>5, Zenon DEF Profile
<1>. QED
  BY <1>6 DEF b

\* What holds of the remover in place: its automaton stays one; the two parts
\* of NothingEscapes; and the keys of the heap.
InplaceEscapes == status = "running" => \A x \in Spontaneous(aut) : x.dst \in DOMAIN todo
InplaceDone == status = "done" => Spontaneous(aut) = {}
InplaceFresh == status = "running" => \A n \in DOMAIN todo : todo[n] = Profile(aut, n)

InplaceInv ==
  algo_ = "inplace" =>
    IsAutomatonOver(ws, aut) /\ InplaceEscapes /\ InplaceDone /\ InplaceFresh

\* These are the properties.
LEMMA InplaceProperties ==
  /\ I!NothingEscapes <=> InplaceEscapes /\ InplaceDone
  /\ I!ProfilesAreFresh <=> InplaceFresh
<1>1. I!NothingEscapes <=> InplaceEscapes /\ InplaceDone
  BY SameInplaceArcs, Zenon DEF I!NothingEscapes, InplaceEscapes, InplaceDone, is_proper
<1>2. I!ProfilesAreFresh <=> InplaceFresh
  BY SameInplaceProfile, Zenon DEF I!ProfilesAreFresh, InplaceFresh
<1>. QED
  BY <1>1, <1>2

\* The heap is built.
LEMMA InplaceBuild ==
  ASSUME ws \in W!Names, IsAutomatonOver(ws, aut), I!Build, ws' = ws
  PROVE  IsAutomatonOver(ws, aut)' /\ InplaceEscapes' /\ InplaceDone' /\ InplaceFresh'
<1>1. /\ todo' = Heap(aut) /\ aut' = aut
      /\ status' = IF is_proper(aut) THEN "done" ELSE "running"
  BY SameInplaceProfile, SameInplaceArcs, Zenon DEF I!Build
<1>2. IsAutomatonOver(ws, aut)'
  BY <1>1, Zenon DEF IsAutomatonOver
<1>3. InplaceEscapes'
  <2>1. ASSUME NEW x \in Spontaneous(aut)
        PROVE  x.dst \in DOMAIN Heap(aut)
    <3>1. x \in Arcs(aut)
      BY DEF Spontaneous
    <3>2. x.dst \in States(aut)
      BY <3>1 DEF States
    <3>3. x \in SpIn(aut, x.dst)
      BY <3>1 DEF SpIn, In
    <3>. QED
      BY <3>2, <3>3 DEF Heap
  <2>. QED
    BY <1>1, <2>1 DEF InplaceEscapes
<1>4. InplaceDone'
  BY <1>1 DEF InplaceDone, is_proper
<1>5. InplaceFresh'
  BY <1>1 DEF InplaceFresh, Heap
<1>. QED
  BY <1>2, <1>3, <1>4, <1>5

\* A state is freed.
LEMMA InplaceFree ==
  ASSUME ws \in W!Names, IsAutomatonOver(ws, aut), InplaceEscapes, InplaceFresh, I!Free
  PROVE  IsAutomatonOver(ws, aut)' /\ InplaceEscapes' /\ InplaceDone' /\ InplaceFresh'
<1>. DEFINE s == Top(todo)
<1>1. /\ CanFree(aut, s)
      /\ aut' = Freed(aut, s, prune_)
      /\ todo' = Requeued(todo, aut, s, aut')
      /\ status = "running"
      /\ status' = IF todo' = <<>> THEN "done" ELSE "running"
      /\ ws' = ws
  BY SameInplaceBlow, SameInplaceFreed, SameInplaceProfile, SameInplaceTop, Zenon DEF I!Free
<1>. HIDE DEF s
<1>2. IsAutomatonOver(ws, aut)'
  BY <1>1, FreedIsAutomaton, Zenon
<1>3. /\ DOMAIN todo' = DOMAIN todo \ {s}
      /\ \A n \in DOMAIN todo' :
           todo'[n] = IF n \in Neighbors(aut, s) THEN Profile(aut', n) ELSE todo[n]
  BY <1>1 DEF Requeued
<1>4. \A x \in Spontaneous(aut') : x.dst \in DOMAIN todo'
  <2>1. ASSUME NEW x \in Spontaneous(aut')
        PROVE  x.dst # s /\ \E y \in Spontaneous(aut) : y.dst = x.dst
    BY <1>1, FreedSpontaneousLemma
  <2>2. \A y \in Spontaneous(aut) : y.dst \in DOMAIN todo
    BY <1>1 DEF InplaceEscapes
  <2>. QED
    BY <1>3, <2>1, <2>2
<1>5. InplaceEscapes'
  BY <1>4 DEF InplaceEscapes
<1>6. InplaceDone'
  <2>. SUFFICES ASSUME status' = "done"
                PROVE  Spontaneous(aut') = {}
    BY DEF InplaceDone
  <2>1. todo' = <<>>
    BY <1>1
  <2>2. DOMAIN todo' = {}
    BY <2>1
  <2>. QED
    BY <1>4, <2>2
<1>7. InplaceFresh'
  <2>. SUFFICES ASSUME NEW n \in DOMAIN todo'
                PROVE  todo'[n] = Profile(aut', n)
    BY DEF InplaceFresh
  <2>1. n \in DOMAIN todo /\ n # s
    BY <1>3
  <2>2. CASE n \in Neighbors(aut, s)
    BY <1>3, <2>2
  <2>3. CASE n \notin Neighbors(aut, s)
    <3>1. Profile(aut', n) = Profile(aut, n)
      BY <1>1, <2>1, <2>3, FarProfileLemma
    <3>2. todo[n] = Profile(aut, n)
      BY <1>1, <2>1 DEF InplaceFresh
    <3>. QED
      BY <1>3, <2>3, <3>1, <3>2
  <2>. QED
    BY <2>2, <2>3
<1>. QED
  BY <1>2, <1>5, <1>6, <1>7

\* A star raises.
LEMMA InplaceRaise ==
  ASSUME ws \in W!Names, IsAutomatonOver(ws, aut), I!Raise
  PROVE  IsAutomatonOver(ws, aut)' /\ InplaceEscapes' /\ InplaceDone' /\ InplaceFresh'
<1>1. /\ ws' = ws /\ status' = "raised"
      /\ \E lost : aut' = Part(aut, Arcs(aut) \ lost)
  <2>1. /\ ws' = ws /\ status' = "raised"
        /\ \E lost : aut' = I!Part(aut, I!Arcs(aut) \ lost)
    BY Zenon DEF I!Raise
  <2>. QED
    BY <2>1, SameInplaceArcs
<1>2. IsAutomatonOver(ws, aut)'
  BY <1>1, PartIsAutomaton
<1>. QED
  BY <1>1, <1>2 DEF InplaceEscapes, InplaceDone, InplaceFresh

-----------------------------------------------------------------------------
(* The two automata of the other removers. *)

\* What the two automata become when a state is freed.
LEMMA SeparatedLemma ==
  ASSUME NEW d, NEW a, NEW s, NEW p, NEW r, r = Separated(d, a, s, p),
         NEW b, b = Blow(a, s, LoopStar(d, s), Closure(d, s))
  PROVE  \/ r[1] = Bypass(d, s) /\ r[2] = b
         \/ r[1] = Without(Bypass(d, s), s) /\ r[2] = Without(b, s)
<1>. DEFINE e == Bypass(d, s)
<1>1. Blow(Part(d, Arcs(d) \ SpIn(d, s)), s, LoopStar(d, s), Closure(d, s)) = e
  BY Zenon DEF Bypass
<1>. HIDE DEF e
<1>2. r = IF p /\ In(e, s) = {} /\ In(b, s) = {}
          THEN <<Without(e, s), Without(b, s)>>
          ELSE <<e, b>>
  BY <1>1, Zenon DEF Separated
<1>3. r = <<Without(e, s), Without(b, s)>> \/ r = <<e, b>>
  BY <1>2, Zenon
<1>. QED
  BY <1>3 DEF e

\* They stay automata.
LEMMA SeparatedIsAutomaton ==
  ASSUME ws \in W!Names, NEW d, NEW a, NEW s, NEW p,
         IsAutomatonOver(ws, d), IsAutomatonOver(ws, a), CanFree(d, s),
         NEW r, r = Separated(d, a, s, p)
  PROVE  IsAutomatonOver(ws, r[1]) /\ IsAutomatonOver(ws, r[2])
<1>. DEFINE b == Blow(a, s, LoopStar(d, s), Closure(d, s))
<1>1. IsAutomatonOver(ws, Bypass(d, s))
  BY BypassIsAutomaton
<1>2. W!IsWeight(ws, LoopStar(d, s)) /\ Sources(Closure(d, s), s)
  BY LoopStarLemma, SourcesLemma
<1>3. IsAutomatonOver(ws, b)
  BY <1>2, BlowIsAutomaton, Zenon
<1>4. \/ r[1] = Bypass(d, s) /\ r[2] = b
      \/ r[1] = Without(Bypass(d, s), s) /\ r[2] = Without(b, s)
  BY SeparatedLemma
<1>. HIDE DEF b
<1>. QED
  BY <1>1, <1>3, <1>4, WithoutIsAutomaton

\* The spontaneous arcs that are left enter states that some entered.
LEMMA SeparatedSpontaneousLemma ==
  ASSUME NEW d, NEW a, NEW s, NEW p, IsAutomatonOver(ws, d),
         NEW r, r = Separated(d, a, s, p), NEW n, SpIn(d, n) = {}
  PROVE  SpIn(r[1], n) = {}
<1>. DEFINE b == Blow(a, s, LoopStar(d, s), Closure(d, s))
            e == Bypass(d, s)
<1>1. \A x \in Spontaneous(e) : \E y \in Spontaneous(d) : y.dst = x.dst
  BY BypassSpontaneousLemma
<1>2. r[1] = e \/ r[1] = Without(e, s)
  BY SeparatedLemma
<1>. HIDE DEF b, e
<1>3. \A x \in Spontaneous(d) : x.dst # n
  BY DEF SpIn, In, Spontaneous
<1>4. Arcs(Without(e, s)) = {x \in Arcs(e) : x.src # s /\ x.dst # s}
  BY WithoutLemma
<1>5. \A x \in Spontaneous(r[1]) : x \in Spontaneous(e)
  BY <1>2, <1>4 DEF Spontaneous
<1>6. \A x \in Spontaneous(r[1]) : x.dst # n
  BY <1>1, <1>3, <1>5
<1>. QED
  BY <1>6 DEF SpIn, In, Spontaneous

\* The arcs into another state, where none comes from the one that is freed.
LEMMA SeparatedFarLemma ==
  ASSUME ws \in W!Names, NEW d, NEW a, NEW s, NEW p,
         IsAutomatonOver(ws, d), IsAutomatonOver(ws, a),
         NEW r, r = Separated(d, a, s, p),
         NEW x, x.dst # s, \A y \in Arcs(a) : y.dst = x.dst => y.src # s
  PROVE  /\ x \in Arcs(r[2]) <=> x \in Arcs(a)
         /\ x \in Arcs(a) => r[2][x] = a[x]
<1>. DEFINE l == LoopStar(d, s)
            c == Closure(d, s)
            b == Blow(a, s, l, c)
<1>1. Sources(c, s)
  BY SourcesLemma
<1>2. r[2] = b \/ r[2] = Without(b, s)
  BY SeparatedLemma
<1>. HIDE DEF l, c
<1>3. x \notin Out(a, s)
  BY DEF Out
<1>4. x \notin Moved(a, s, c)
  <2>. SUFFICES ASSUME x \in Moved(a, s, c)
                PROVE  FALSE
    OBVIOUS
  <2>1. \E y \in Out(a, s) : y.label = x.label /\ y.dst = x.dst
    BY <1>1, MovedLemma
  <2>. QED
    BY <2>1 DEF Out
<1>5. /\ x \in Arcs(b) <=> x \in Arcs(a)
      /\ x \in Arcs(a) => b[x] = a[x]
  BY <1>3, <1>4, UntouchedLemma
<1>. HIDE DEF b
<1>6. /\ Arcs(Without(b, s)) = {y \in Arcs(b) : y.src # s /\ y.dst # s}
      /\ \A y \in Arcs(Without(b, s)) : Without(b, s)[y] = b[y]
  BY WithoutLemma
<1>7. x \in Arcs(Without(b, s)) <=> x \in Arcs(b)
  BY <1>5, <1>6
<1>. QED
  BY <1>2, <1>5, <1>6, <1>7

-----------------------------------------------------------------------------
(* Transposed automata. *)

End(s) == IF s = pre THEN post ELSE IF s = post THEN pre ELSE s
Turn(x) == [x EXCEPT !.src = End(x.dst), !.dst = End(x.src)]

\* Arcs with the same fields are the same.
LEMMA SameArcLemma ==
  ASSUME NEW x \in [src : Nat, label : Label \union {""}, dst : Nat],
         NEW y \in [src : Nat, label : Label \union {""}, dst : Nat],
         x.src = y.src, x.label = y.label, x.dst = y.dst
  PROVE  x = y
<1>1. x = [src |-> x.src, label |-> x.label, dst |-> x.dst]
  OBVIOUS
<1>2. y = [src |-> y.src, label |-> y.label, dst |-> y.dst]
  OBVIOUS
<1>. QED
  BY <1>1, <1>2

\* An arc turned round, and back.
LEMMA TurnLemma ==
  ASSUME NEW x, IsArc(x)
  PROVE  /\ IsArc(Turn(x))
         /\ Turn(x).src = End(x.dst) /\ Turn(x).dst = End(x.src)
         /\ Turn(x).label = x.label
         /\ Turn(Turn(x)) = x
<1>1. x \in [src : Nat, label : Label \union {""}, dst : Nat] /\ x.src # post /\ x.dst # pre
  BY DEF IsArc
<1>2. (x.label = "$") <=> (x.src = pre \/ x.dst = post)
  BY DEF IsArc
<1>3. \A s \in Nat : End(s) \in Nat /\ End(End(s)) = s
  BY DEF End, pre, post
<1>4. /\ End(x.dst) # post /\ End(x.src) # pre
      /\ (End(x.dst) = pre <=> x.dst = post) /\ (End(x.src) = post <=> x.src = pre)
  BY <1>1 DEF End, pre, post
<1>5. \A y \in [src : Nat, label : Label \union {""}, dst : Nat] :
        /\ Turn(y) \in [src : Nat, label : Label \union {""}, dst : Nat]
        /\ Turn(y).src = End(y.dst) /\ Turn(y).dst = End(y.src)
        /\ Turn(y).label = y.label
  BY <1>3 DEF Turn
<1>6. Turn(Turn(x)) = x
  <2>1. /\ Turn(Turn(x)) \in [src : Nat, label : Label \union {""}, dst : Nat]
        /\ Turn(Turn(x)).src = x.src /\ Turn(Turn(x)).dst = x.dst
        /\ Turn(Turn(x)).label = x.label
    BY <1>1, <1>3, <1>5
  <2>. DEFINE y == Turn(Turn(x))
  <2>. HIDE DEF y
  <2>2. y = x
    BY <1>1, <2>1, SameArcLemma DEF y
  <2>. QED
    BY <2>2 DEF y
<1>7. IsArc(Turn(x))
  BY <1>1, <1>2, <1>4, <1>5 DEF IsArc
<1>. QED
  BY <1>1, <1>5, <1>6, <1>7

\* What a transposed automaton is made of.
LEMMA TransposeLemma ==
  ASSUME NEW k, NEW a, IsAutomatonOver(k, a), NEW b, b = L!Transpose(a)
  PROVE  /\ \A x \in Arcs(b) : IsArc(x) /\ Turn(x) \in Arcs(a) /\ b[x] = a[Turn(x)]
         /\ \A x \in Arcs(a) : Turn(x) \in Arcs(b)
         /\ Arcs(b) = {Turn(x) : x \in Arcs(a)}
         /\ b = [x \in Arcs(b) |-> b[x]]
<1>. DEFINE T == {Turn(x) : x \in Arcs(a)}
<1>1. b = [x \in T |-> a[Turn(x)]]
  BY SameLazyArcs DEF L!Transpose, Turn, End, L!pre, L!post, pre, post
<1>2. \A x \in Arcs(a) : IsArc(x)
  BY AutomatonLemma
<1>3. \A x \in T : IsArc(x) /\ Turn(x) \in Arcs(a)
  BY <1>2, TurnLemma
<1>4. \A x \in Arcs(a) : Turn(x) \in T
  OBVIOUS
<1>. HIDE DEF T
<1>5. /\ Arcs(b) = T
      /\ \A x \in T : b[x] = a[Turn(x)]
      /\ b = [x \in Arcs(b) |-> b[x]]
  BY <1>1 DEF Arcs
<1>. QED
  BY <1>3, <1>4, <1>5 DEF T

\* It is an automaton.
LEMMA TransposeIsAutomaton ==
  ASSUME NEW k, NEW a, IsAutomatonOver(k, a)
  PROVE  IsAutomatonOver(k, L!Transpose(a))
<1>. DEFINE b == L!Transpose(a)
<1>1. /\ \A x \in Arcs(b) : IsArc(x) /\ Turn(x) \in Arcs(a) /\ b[x] = a[Turn(x)]
      /\ Arcs(b) = {Turn(x) : x \in Arcs(a)}
      /\ b = [x \in Arcs(b) |-> b[x]]
  BY TransposeLemma
<1>. HIDE DEF b
<1>2. IsFiniteSet(Arcs(b))
  <2>. DEFINE f == [x \in Arcs(a) |-> Turn(x)]
  <2>1. DOMAIN f = Arcs(a) /\ {f[x] : x \in Arcs(a)} = {Turn(x) : x \in Arcs(a)}
    OBVIOUS
  <2>. HIDE DEF f
  <2>2. IsFiniteSet(Arcs(a))
    BY AutomatonLemma
  <2>3. IsFiniteSet({f[x] : x \in Arcs(a)})
    BY <2>1, <2>2, ImageFinite
  <2>. QED
    BY <1>1, <2>1, <2>3
<1>3. \A x \in Arcs(b) : IsArc(x) /\ W!IsWeight(k, b[x]) /\ b[x] # W!zero(k)
  BY <1>1, AutomatonLemma
<1>4. IsAutomatonOver(k, b)
  BY <1>1, <1>2, <1>3, Zenon DEF IsAutomatonOver
<1>. QED
  BY <1>4 DEF b

\* The arcs out of a state are the arcs into it, turned round.
LEMMA OutOfLemma ==
  ASSUME NEW k, NEW a, NEW b, IsAutomatonOver(k, a), IsAutomatonOver(k, b), NEW s,
         \A x : x.dst = End(s) => /\ x \in Arcs(b) <=> x \in Arcs(a)
                                  /\ x \in Arcs(a) => b[x] = a[x]
  PROVE  L!OutOf(L!Transpose(a), s) = L!OutOf(L!Transpose(b), s)
<1>. DEFINE v == L!Transpose(a)
            w == L!Transpose(b)
<1>1. /\ \A x \in Arcs(v) : IsArc(x) /\ Turn(x) \in Arcs(a) /\ v[x] = a[Turn(x)]
      /\ \A x \in Arcs(a) : Turn(x) \in Arcs(v)
  BY TransposeLemma
<1>2. /\ \A x \in Arcs(w) : IsArc(x) /\ Turn(x) \in Arcs(b) /\ w[x] = b[Turn(x)]
      /\ \A x \in Arcs(b) : Turn(x) \in Arcs(w)
  BY TransposeLemma
<1>. HIDE DEF v, w
<1>3. ASSUME NEW x, IsArc(x), x.src = s
      PROVE  /\ x \in Arcs(v) <=> x \in Arcs(w)
             /\ x \in Arcs(v) => v[x] = w[x]
  <2>1. Turn(x).dst = End(s) /\ Turn(Turn(x)) = x
    BY <1>3, TurnLemma
  <2>2. /\ Turn(x) \in Arcs(b) <=> Turn(x) \in Arcs(a)
        /\ Turn(x) \in Arcs(a) => b[Turn(x)] = a[Turn(x)]
    BY <2>1
  <2>. QED
    BY <1>1, <1>2, <2>1, <2>2
<1>4. \A x : x \in Arcs(v) \union Arcs(w) => IsArc(x)
  BY <1>1, <1>2
<1>5. Out(v, s) = Out(w, s)
  BY <1>3, <1>4 DEF Out
<1>6. \A x \in Out(v, s) : x \in Arcs(v) /\ x \in Arcs(w) /\ v[x] = w[x]
  BY <1>3, <1>4 DEF Out
<1>7. Arcs(v) \intersect Out(v, s) = Arcs(w) \intersect Out(w, s)
  BY <1>5, <1>6
<1>8. [x \in Arcs(v) \intersect Out(v, s) |-> v[x]] = [x \in Arcs(w) \intersect Out(w, s) |-> w[x]]
  BY <1>6, <1>7
<1>9. Part(v, Out(v, s)) = Part(w, Out(w, s))
  BY <1>8 DEF Part
<1>. QED
  BY <1>9, SameLazyArcs DEF L!OutOf, v, w

\* The successors of a state are its predecessors.
LEMMA SuccessorsLemma ==
  ASSUME NEW k, NEW a, IsAutomatonOver(k, a), NEW s
  PROVE  L!Successors(L!Transpose(a), s) = {End(x.src) : x \in In(a, End(s))}
<1>. DEFINE v == L!Transpose(a)
<1>1. /\ \A x \in Arcs(v) : IsArc(x) /\ Turn(x) \in Arcs(a)
      /\ \A x \in Arcs(a) : Turn(x) \in Arcs(v)
  BY TransposeLemma
<1>. HIDE DEF v
<1>2. L!Successors(v, s) = {x.dst : x \in Out(v, s)}
  BY SameLazyArcs DEF L!Successors
<1>3. \A n \in Nat : End(End(n)) = n
  BY DEF End, pre, post
<1>4. ASSUME NEW x \in Out(v, s)
      PROVE  \E y \in In(a, End(s)) : x.dst = End(y.src)
  <2>1. x \in Arcs(v) /\ x.src = s
    BY DEF Out
  <2>2. Turn(x) \in Arcs(a) /\ Turn(x).dst = End(s) /\ Turn(x).src = End(x.dst)
    BY <1>1, <2>1, TurnLemma
  <2>3. x.dst \in Nat
    BY <1>1, <2>1 DEF IsArc
  <2>4. Turn(x) \in In(a, End(s)) /\ x.dst = End(Turn(x).src)
    BY <1>3, <2>2, <2>3 DEF In
  <2>. QED
    BY <2>4
<1>5. ASSUME NEW y \in In(a, End(s))
      PROVE  \E x \in Out(v, s) : x.dst = End(y.src)
  <2>1. y \in Arcs(a) /\ y.dst = End(s) /\ IsArc(y)
    BY AutomatonLemma DEF In
  <2>2. Turn(y) \in Arcs(v) /\ Turn(y).src = End(y.dst) /\ Turn(y).dst = End(y.src)
    BY <1>1, <2>1, TurnLemma
  <2>3. End(End(s)) = s
    BY DEF End, pre, post
  <2>. QED
    BY <2>1, <2>2, <2>3 DEF Out
<1>6. {x.dst : x \in Out(v, s)} = {End(y.src) : y \in In(a, End(s))}
  BY <1>4, <1>5
<1>. QED
  BY <1>2, <1>6 DEF v

\* What holds of the lazy remover before it is built.
LazyIdle ==
  status # "running" => proper_states = {} /\ known_states = {} /\ serving = L!Nobody

\* The states that a client was shown have no spontaneous arc left; those that
\* the arcs of a served state lead to were shown.
LazyKnown ==
  /\ proper_states \subseteq known_states
  /\ serving # L!Nobody => serving \in known_states
  /\ \A n \in known_states \ {pre, post} : SpIn(dirty, n) = {}
  /\ \A s \in proper_states : L!Successors(L!Transpose(aut), s) \subseteq known_states

\* So will be the successors of the one that is served, unless there is
\* another turn.
LazyServing ==
  serving # L!Nobody /\ ~ has_removed =>
    \A n \in L!Successors(L!Transpose(aut), serving) \ batch : SpIn(dirty, n) = {}

LazyAutomata == IsAutomatonOver(ws, dirty) /\ IsAutomatonOver(ws, aut)

LazyInv ==
  algo_ = "lazy" =>
    /\ LazyIdle
    /\ status = "running" => LazyAutomata /\ LazyKnown /\ LazyServing

\* Spontaneous arcs keep away from the ends of the automaton.
LEMMA EndsLemma ==
  ASSUME NEW k, NEW a, IsAutomatonOver(k, a), NEW n \in {pre, post}
  PROVE  SpIn(a, n) = {}
<1>1. \A x \in Arcs(a) : x.label = "" => x.dst \notin {pre, post}
  BY SpontaneousLemma
<1>. QED
  BY <1>1 DEF SpIn, In, Spontaneous

\* A part has fewer spontaneous arcs.
LEMMA PartSpInLemma ==
  ASSUME NEW a, NEW T, NEW n, SpIn(a, n) = {}
  PROVE  SpIn(Part(a, T), n) = {}
<1>1. Arcs(Part(a, T)) = Arcs(a) \intersect T
  BY PartLemma, Zenon
<1>. QED
  BY <1>1 DEF SpIn, In, Spontaneous

\* NothingPending is about the part that is edited.
LEMMA LazyPending ==
  L!NothingPending <=> \A n \in known_states \ {pre, post} : SpIn(dirty, n) = {}
BY SameLazyArcs DEF L!NothingPending, L!Has, L!pre, L!post, pre, post

\* The remover is built.
LEMMA LazyBuild ==
  ASSUME IsAutomatonOver(ws, input), LazyIdle, L!Build
  PROVE  LazyIdle' /\ LazyAutomata' /\ LazyKnown' /\ LazyServing' /\ L!AnswersKept
<1>1. /\ \E T : dirty' = Part(L!Transpose(input), T)
      /\ \E T : aut' = Part(L!Transpose(input), T)
      /\ status = "ready" /\ status' = "running"
      /\ proper_states' = {post} /\ known_states' = {pre, post}
      /\ ws' = ws /\ serving' = serving
  BY SameLazyArcs DEF L!Build, L!pre, L!post, pre, post
<1>2. IsAutomatonOver(ws, L!Transpose(input))
  BY TransposeIsAutomaton
<1>3. IsAutomatonOver(ws, dirty') /\ IsAutomatonOver(ws, aut')
  BY <1>1, <1>2, PartIsAutomaton
<1>4. proper_states = {} /\ serving = L!Nobody
  BY <1>1 DEF LazyIdle
<1>5. L!Successors(L!Transpose(aut'), post) = {}
  <2>1. L!Successors(L!Transpose(aut'), post) = {End(x.src) : x \in In(aut', End(post))}
    BY <1>3, SuccessorsLemma
  <2>2. \A x \in Arcs(aut') : x.dst # pre
    BY <1>3, AutomatonLemma DEF IsArc
  <2>3. End(post) = pre
    BY DEF End, pre, post
  <2>4. In(aut', pre) = {}
    BY <2>2 DEF In
  <2>. QED
    BY <2>1, <2>3, <2>4
<1>6. LazyKnown'
  BY <1>1, <1>4, <1>5 DEF LazyKnown
<1>7. LazyIdle' /\ LazyAutomata' /\ LazyServing'
  BY <1>1, <1>3, <1>4 DEF LazyIdle, LazyAutomata, LazyServing
<1>. QED
  BY <1>4, <1>6, <1>7 DEF L!AnswersKept

\* What a client knows holds as long as the arcs do.
LEMMA LazySame ==
  ASSUME aut' = aut
  PROVE  L!AnswersKept
BY DEF L!AnswersKept, L!View

\* A client asks for the arcs of a state.
LEMMA LazyAllOut ==
  ASSUME LazyAutomata, LazyKnown, NEW s, L!AllOut(s), status = "running"
  PROVE  LazyIdle' /\ LazyAutomata' /\ LazyKnown' /\ LazyServing' /\ L!AnswersKept
<1>1. /\ aut' = aut /\ dirty' = dirty /\ ws' = ws /\ status' = status
      /\ known_states' = known_states /\ proper_states' = proper_states
      /\ s \in known_states /\ serving' = s
      /\ batch' = L!Successors(L!Transpose(aut), s)
  BY DEF L!AllOut, L!View, L!idle
<1>2. L!AnswersKept
  BY <1>1, LazySame
<1>3. LazyAutomata'
  BY <1>1, Zenon DEF LazyAutomata
<1>4. LazyKnown'
  BY <1>1 DEF LazyKnown
<1>. QED
  BY <1>1, <1>2, <1>3, <1>4 DEF LazyIdle, LazyServing

\* A successor has no spontaneous arc to free it from.
LEMMA LazyPass ==
  ASSUME LazyAutomata, LazyKnown, LazyServing, status = "running",
         NEW s, L!Visit(s), SpIn(dirty, s) = {}
  PROVE  LazyIdle' /\ LazyAutomata' /\ LazyKnown' /\ LazyServing' /\ L!AnswersKept
<1>1. /\ aut' = aut /\ dirty' = dirty /\ ws' = ws /\ status' = status
      /\ known_states' = known_states /\ proper_states' = proper_states
      /\ serving' = serving /\ has_removed' = has_removed
      /\ batch' = batch \ {s}
  BY SameLazyArcs DEF L!Visit, L!Has, L!idle
<1>2. L!AnswersKept
  BY <1>1, LazySame
<1>3. LazyAutomata'
  BY <1>1, Zenon DEF LazyAutomata
<1>4. LazyKnown'
  BY <1>1 DEF LazyKnown
<1>5. LazyServing'
  BY <1>1 DEF LazyServing
<1>. QED
  BY <1>1, <1>2, <1>3, <1>4, <1>5 DEF LazyIdle

\* A successor is freed: no arc comes from it into a served state.
LEMMA LazyVisit ==
  ASSUME ws \in W!Names, LazyAutomata, LazyKnown, status = "running",
         NEW s, L!Visit(s), SpIn(dirty, s) # {}
  PROVE  LazyIdle' /\ LazyAutomata' /\ LazyKnown' /\ LazyServing' /\ L!AnswersKept
<1>. DEFINE r == Separated(dirty, aut, s, prune_)
<1>1. /\ CanFree(dirty, s) /\ dirty' = r[1] /\ aut' = r[2] /\ has_removed' = TRUE
      /\ ws' = ws /\ status' = status
      /\ known_states' = known_states /\ proper_states' = proper_states
      /\ serving' = serving
  BY SameLazyArcs, SameLazyBlow, SameLazySeparated DEF L!Visit, L!Has, L!idle
<1>2. IsAutomatonOver(ws, dirty) /\ IsAutomatonOver(ws, aut)
  BY DEF LazyAutomata
<1>3. IsAutomatonOver(ws, r[1]) /\ IsAutomatonOver(ws, r[2])
  BY <1>1, <1>2, SeparatedIsAutomaton, Zenon
<1>4. \A n : SpIn(dirty, n) = {} => SpIn(r[1], n) = {}
  BY <1>2, SeparatedSpontaneousLemma
<1>5. s \in Nat \ {pre, post}
  <2>1. PICK x : x \in SpIn(dirty, s)
    OBVIOUS
  <2>2. x \in Arcs(dirty) /\ x.label = "" /\ x.dst = s
    BY <2>1 DEF SpIn, In, Spontaneous
  <2>. QED
    BY <1>2, <2>2, SpontaneousLemma
<1>6. s \notin known_states
  BY <1>5 DEF LazyKnown
<1>7. End(s) = s
  BY <1>5 DEF End
<1>8. ASSUME NEW n \in proper_states
      PROVE  End(n) # s /\ \A y \in Arcs(aut) : y.dst = End(n) => y.src # s
  <2>1. n \in known_states
    BY DEF LazyKnown
  <2>2. End(n) # s
    BY <1>5, <1>6, <2>1 DEF End
  <2>3. L!Successors(L!Transpose(aut), n) \subseteq known_states
    BY DEF LazyKnown
  <2>4. {End(x.src) : x \in In(aut, End(n))} \subseteq known_states
    BY <1>2, <2>3, SuccessorsLemma
  <2>5. \A y \in Arcs(aut) : y.dst = End(n) => y \in In(aut, End(n))
    BY DEF In
  <2>. QED
    BY <1>6, <1>7, <2>2, <2>4, <2>5
<1>9. ASSUME NEW n \in proper_states, NEW x, x.dst = End(n)
      PROVE  /\ x \in Arcs(r[2]) <=> x \in Arcs(aut)
             /\ x \in Arcs(aut) => r[2][x] = aut[x]
  <2>1. End(n) # s /\ \A y \in Arcs(aut) : y.dst = End(n) => y.src # s
    BY <1>8
  <2>2. \A y \in Arcs(aut) : y.dst = x.dst => y.src # s
    BY <1>9, <2>1
  <2>3. r = Separated(dirty, aut, s, prune_)
    OBVIOUS
  <2>. HIDE DEF r
  <2>. QED
    BY <1>2, <1>9, <2>1, <2>2, <2>3, SeparatedFarLemma
<1>. HIDE DEF r
<1>10. ASSUME NEW n \in proper_states
       PROVE  L!OutOf(L!Transpose(aut), n) = L!OutOf(L!Transpose(aut'), n)
  BY <1>1, <1>2, <1>3, <1>9, OutOfLemma
<1>11. L!AnswersKept
  BY <1>10 DEF L!AnswersKept, L!View
<1>12. ASSUME NEW n \in proper_states
       PROVE  L!Successors(L!Transpose(aut'), n) \subseteq known_states
  <2>1. In(aut', End(n)) = In(aut, End(n))
    BY <1>1, <1>9 DEF In
  <2>2. L!Successors(L!Transpose(aut'), n) = {End(x.src) : x \in In(aut', End(n))}
    BY <1>1, <1>3, SuccessorsLemma
  <2>3. L!Successors(L!Transpose(aut), n) = {End(x.src) : x \in In(aut, End(n))}
    BY <1>2, SuccessorsLemma
  <2>. QED
    BY <2>1, <2>2, <2>3 DEF LazyKnown
<1>13. LazyKnown'
  BY <1>1, <1>4, <1>12 DEF LazyKnown
<1>14. LazyAutomata' /\ LazyIdle' /\ LazyServing'
  BY <1>1, <1>3 DEF LazyAutomata, LazyIdle, LazyServing
<1>. QED
  BY <1>11, <1>13, <1>14

\* A star raises: spontaneous arcs are lost.
LEMMA LazyRaise ==
  ASSUME LazyAutomata, LazyKnown, status = "running", NEW s, L!Raise(s)
  PROVE  LazyIdle' /\ LazyAutomata' /\ LazyKnown' /\ LazyServing' /\ L!AnswersKept
<1>1. /\ aut' = aut /\ ws' = ws /\ status' = status
      /\ known_states' = known_states /\ proper_states' = proper_states
      /\ serving' = L!Nobody
      /\ \E T : dirty' = Part(dirty, T)
  BY SameLazyArcs DEF L!Raise, L!idle
<1>2. L!AnswersKept
  BY <1>1, LazySame
<1>3. LazyAutomata'
  BY <1>1, PartIsAutomaton DEF LazyAutomata
<1>4. \A n : SpIn(dirty, n) = {} => SpIn(dirty', n) = {}
  BY <1>1, PartSpInLemma
<1>5. LazyKnown'
  BY <1>1, <1>4 DEF LazyKnown
<1>. QED
  BY <1>1, <1>2, <1>3, <1>5 DEF LazyIdle, LazyServing

\* Another turn over the successors.
LEMMA LazyAgain ==
  ASSUME LazyAutomata, LazyKnown, status = "running", L!Again
  PROVE  LazyIdle' /\ LazyAutomata' /\ LazyKnown' /\ LazyServing' /\ L!AnswersKept
<1>1. /\ aut' = aut /\ dirty' = dirty /\ ws' = ws /\ status' = status
      /\ known_states' = known_states /\ proper_states' = proper_states
      /\ serving' = serving
      /\ batch' = L!Successors(L!Transpose(aut), serving)
  BY DEF L!Again, L!View, L!idle
<1>2. L!AnswersKept
  BY <1>1, LazySame
<1>3. LazyAutomata'
  BY <1>1, Zenon DEF LazyAutomata
<1>4. LazyKnown'
  BY <1>1 DEF LazyKnown
<1>. QED
  BY <1>1, <1>2, <1>3, <1>4 DEF LazyIdle, LazyServing

\* A state is served.
LEMMA LazyComplete ==
  ASSUME LazyAutomata, LazyKnown, LazyServing, status = "running", L!Complete
  PROVE  LazyIdle' /\ LazyAutomata' /\ LazyKnown' /\ LazyServing' /\ L!AnswersKept
<1>1. /\ aut' = aut /\ dirty' = dirty /\ ws' = ws /\ status' = status
      /\ known_states' = known_states \union L!Successors(L!Transpose(aut), serving)
      /\ proper_states' = proper_states \union {serving}
      /\ serving # L!Nobody /\ serving' = L!Nobody
      /\ batch = {} /\ ~ has_removed
  BY DEF L!Complete, L!View, L!idle
<1>2. L!AnswersKept
  BY <1>1, LazySame
<1>3. LazyAutomata'
  BY <1>1, Zenon DEF LazyAutomata
<1>4. \A n \in L!Successors(L!Transpose(aut), serving) : SpIn(dirty, n) = {}
  BY <1>1 DEF LazyServing
<1>5. LazyKnown'
  BY <1>1, <1>4 DEF LazyKnown
<1>. QED
  BY <1>1, <1>2, <1>3, <1>5 DEF LazyIdle, LazyServing

-----------------------------------------------------------------------------
(* The separate remover follows the one in place. *)

\* The labels of either side.
Blank == {""}
Written == Label

\* Each arc has one of them.
LEMMA LabelsLemma ==
  /\ \A x : IsArc(x) => x.label \in Blank \union Written
  /\ Blank \intersect Written = {}
  /\ \A a : Spontaneous(a) = {x \in Arcs(a) : x.label \in Blank}
  /\ \A s : Loop(s).label \in Blank
<1>1. \A x : IsArc(x) => x.label \in Blank \union Written
  BY DEF IsArc, Blank, Written
<1>2. Blank \intersect Written = {}
  BY LetterAssumption DEF Blank, Written, Label
<1>3. \A a : Spontaneous(a) = {x \in Arcs(a) : x.label \in Blank}
  BY DEF Spontaneous, Blank
<1>4. \A s : Loop(s).label \in Blank
  BY DEF Loop, Blank
<1>. QED
  BY <1>1, <1>2, <1>3, <1>4

\* The arcs of some labels.
IsPart(d, w, K) ==
  /\ Arcs(d) = {x \in Arcs(w) : x.label \in K}
  /\ \A x \in Arcs(d) : d[x] = w[x]

\* The parts of an automaton: its spontaneous arcs, and the other ones.
AreParts(d, a, w) ==
  /\ IsAutomatonOver(ws, d) /\ IsAutomatonOver(ws, a)
  /\ \A x \in Arcs(d) : x.label \in Blank
  /\ \A x \in Arcs(a) : x.label \in Written
  /\ w = Both(d, a)

\* What they make together.
LEMMA BothLemma ==
  ASSUME NEW d, NEW a, NEW w, AreParts(d, a, w)
  PROVE  /\ Arcs(w) = Arcs(d) \union Arcs(a)
         /\ \A x \in Arcs(d) : w[x] = d[x] /\ x.label \in Blank
         /\ \A x \in Arcs(a) : w[x] = a[x] /\ x.label \in Written
         /\ w = [x \in Arcs(w) |-> w[x]]
<1>1. w = [x \in Arcs(d) \union Arcs(a) |-> IF x \in Arcs(d) THEN d[x] ELSE a[x]]
  BY Zenon DEF AreParts, Both
<1>2. /\ Arcs(w) = Arcs(d) \union Arcs(a)
      /\ \A x \in Arcs(w) : w[x] = IF x \in Arcs(d) THEN d[x] ELSE a[x]
      /\ w = [x \in Arcs(w) |-> w[x]]
  BY <1>1 DEF Arcs
<1>3. \A x \in Arcs(d) : w[x] = d[x] /\ x.label \in Blank
  BY <1>2 DEF AreParts
<1>4. \A x \in Arcs(a) : w[x] = a[x] /\ x.label \in Written
  BY <1>2, LabelsLemma DEF AreParts
<1>. QED
  BY <1>2, <1>3, <1>4, Zenon

\* It is an automaton.
LEMMA BothIsAutomaton ==
  ASSUME NEW d, NEW a, NEW w, AreParts(d, a, w)
  PROVE  IsAutomatonOver(ws, w)
<1>1. /\ Arcs(w) = Arcs(d) \union Arcs(a)
      /\ \A x \in Arcs(d) : w[x] = d[x] /\ x.label \in Blank
      /\ \A x \in Arcs(a) : w[x] = a[x] /\ x.label \in Written
      /\ w = [x \in Arcs(w) |-> w[x]]
  BY BothLemma, Zenon
<1>2. IsFiniteSet(Arcs(w))
  <2>1. IsFiniteSet(Arcs(d)) /\ IsFiniteSet(Arcs(a))
    BY AutomatonLemma DEF AreParts
  <2>2. IsFiniteSet(Arcs(d) \union Arcs(a))
    BY <2>1, FS_Union
  <2>. QED
    BY <1>1, <2>2
<1>3. \A x \in Arcs(w) : IsArc(x) /\ W!IsWeight(ws, w[x]) /\ w[x] # W!zero(ws)
  <2>1. IsAutomatonOver(ws, d) /\ IsAutomatonOver(ws, a)
    BY DEF AreParts
  <2>2. \A x \in Arcs(d) : IsArc(x) /\ W!IsWeight(ws, w[x]) /\ w[x] # W!zero(ws)
    BY <1>1, <2>1, AutomatonLemma
  <2>3. \A x \in Arcs(a) : IsArc(x) /\ W!IsWeight(ws, w[x]) /\ w[x] # W!zero(ws)
    BY <1>1, <2>1, AutomatonLemma
  <2>. QED
    BY <1>1, <2>2, <2>3
<1>. QED
  BY <1>1, <1>2, <1>3, Zenon DEF IsAutomatonOver

\* Automata with the same arcs and weights are the same.
LEMMA SameAutomatonLemma ==
  ASSUME NEW a, NEW b,
         a = [x \in Arcs(a) |-> a[x]], b = [x \in Arcs(b) |-> b[x]],
         Arcs(a) = Arcs(b), \A x \in Arcs(a) : a[x] = b[x]
  PROVE  a = b
<1>1. [x \in Arcs(a) |-> a[x]] = [x \in Arcs(b) |-> b[x]]
  OBVIOUS
<1>. QED
  BY <1>1, Zenon

\* What makes two automata the parts of another one.
LEMMA PartsLemma ==
  ASSUME NEW d, NEW a, NEW w,
         IsAutomatonOver(ws, d), IsAutomatonOver(ws, a), IsAutomatonOver(ws, w),
         IsPart(d, w, Blank), IsPart(a, w, Written)
  PROVE  AreParts(d, a, w)
<1>0. /\ Arcs(w) = Arcs(d) \union Arcs(a)
      /\ \A x \in Arcs(d) : d[x] = w[x]
      /\ \A x \in Arcs(a) : a[x] = w[x]
  <2>1. \A x \in Arcs(w) : x.label \in Blank \union Written
    BY AutomatonLemma, LabelsLemma
  <2>. QED
    BY <2>1 DEF IsPart
<1>1. \A x \in Arcs(d) : x.label \in Blank
  BY DEF IsPart
<1>2. \A x \in Arcs(a) : x.label \in Written
  BY DEF IsPart
<1>. DEFINE b == Both(d, a)
<1>3. AreParts(d, a, b)
  BY <1>1, <1>2, Zenon DEF AreParts
<1>. HIDE DEF b
<1>4. /\ Arcs(b) = Arcs(d) \union Arcs(a)
      /\ \A x \in Arcs(d) : b[x] = d[x] /\ x.label \in Blank
      /\ \A x \in Arcs(a) : b[x] = a[x] /\ x.label \in Written
      /\ b = [x \in Arcs(b) |-> b[x]]
  BY <1>3, BothLemma, Zenon
<1>5. w = [x \in Arcs(w) |-> w[x]]
  BY AutomatonLemma, Zenon
<1>6. Arcs(w) = Arcs(b) /\ \A x \in Arcs(w) : w[x] = b[x]
  BY <1>0, <1>4
<1>7. w = b
  BY <1>4, <1>5, <1>6, SameAutomatonLemma
<1>. QED
  BY <1>3, <1>7

\* Blow works on the arcs of some labels as it does on all of them.
LEMMA BlowOfPartLemma ==
  ASSUME NEW K, NEW w, IsAutomatonOver(ws, w), NEW d, IsAutomatonOver(ws, d),
         IsPart(d, w, K),
         NEW s, NEW l, NEW c, Sources(c, s),
         NEW b, b = Blow(w, s, l, c), NEW e, e = Blow(d, s, l, c)
  PROVE  IsPart(e, b, K)
<1>0. /\ Arcs(d) = {x \in Arcs(w) : x.label \in K}
      /\ \A x \in Arcs(d) : d[x] = w[x]
  BY DEF IsPart
<1>1. \A x : x \in Out(d, s) <=> x \in Out(w, s) /\ x.label \in K
  BY <1>0 DEF Out
<1>2. ASSUME NEW t, t \in Moved(d, s, c)
      PROVE  t \in Moved(w, s, c) /\ t.label \in K
  <2>1. PICK x \in Out(d, s), p \in DOMAIN c : t = [x EXCEPT !.src = p]
    BY <1>2 DEF Moved
  <2>2. x \in Out(w, s)
    BY <1>1, <2>1
  <2>3. t \in Moved(w, s, c)
    BY <2>1, <2>2 DEF Moved
  <2>4. \E y \in Out(d, s) : y.label = t.label /\ y.dst = t.dst
    BY <1>2, MovedLemma
  <2>. QED
    BY <1>1, <2>3, <2>4
<1>3. ASSUME NEW t, t \in Moved(w, s, c), t.label \in K
      PROVE  t \in Moved(d, s, c) /\ [t EXCEPT !.src = s].label \in K
  <2>1. PICK x \in Out(w, s), p \in DOMAIN c : t = [x EXCEPT !.src = p]
    BY <1>3 DEF Moved
  <2>2. x \in [src : Nat, label : Label \union {""}, dst : Nat]
    BY AutomatonLemma DEF IsArc, Out
  <2>3. x.label = t.label /\ [t EXCEPT !.src = s].label = t.label
    BY <2>1, <2>2
  <2>4. x \in Out(d, s)
    BY <1>1, <1>3, <2>3
  <2>5. t \in Moved(d, s, c)
    BY <2>1, <2>4 DEF Moved
  <2>. QED
    BY <1>3, <2>3, <2>5
<1>4. ASSUME NEW t, t.label \in K
      PROVE  Blown(d, s, l, t) = Blown(w, s, l, t)
  <2>1. t \in Out(d, s) <=> t \in Out(w, s)
    BY <1>1, <1>4
  <2>2. t \in Arcs(d) <=> t \in Arcs(w)
    BY <1>0, <1>4
  <2>3. t \in Arcs(d) => d[t] = w[t]
    BY <1>0
  <2>4. CASE t \in Arcs(d)
    BY <2>1, <2>2, <2>3, <2>4, Zenon DEF Blown, Weight
  <2>5. CASE t \notin Arcs(d)
    <3>1. t \notin Out(d, s)
      BY <2>5 DEF Out
    <3>. QED
      BY <2>1, <2>2, <2>5, <3>1, Zenon DEF Blown, Weight
  <2>. QED
    BY <2>4, <2>5
<1>5. ASSUME NEW t, t.label \in K
      PROVE  Brought(d, s, l, c, t) = Brought(w, s, l, c, t)
  <2>1. t \in Moved(d, s, c) <=> t \in Moved(w, s, c)
    BY <1>2, <1>3, <1>5
  <2>2. CASE t \in Moved(w, s, c)
    <3>1. [t EXCEPT !.src = s].label \in K
      BY <1>3, <1>5, <2>2
    <3>2. Blown(d, s, l, [t EXCEPT !.src = s]) = Blown(w, s, l, [t EXCEPT !.src = s])
      BY <1>4, <3>1
    <3>. QED
      BY <2>1, <2>2, <3>2, Zenon DEF Brought
  <2>3. CASE t \notin Moved(w, s, c)
    BY <2>1, <2>3, Zenon DEF Brought
  <2>. QED
    BY <2>2, <2>3
<1>6. /\ Arcs(b) = {t \in Arcs(w) \union Moved(w, s, c) :
                      W!add(ws, Blown(w, s, l, t), Brought(w, s, l, c, t)) # W!zero(ws)}
      /\ \A t \in Arcs(b) : b[t] = W!add(ws, Blown(w, s, l, t), Brought(w, s, l, c, t))
  BY BlowLemma
<1>7. /\ Arcs(e) = {t \in Arcs(d) \union Moved(d, s, c) :
                      W!add(ws, Blown(d, s, l, t), Brought(d, s, l, c, t)) # W!zero(ws)}
      /\ \A t \in Arcs(e) : e[t] = W!add(ws, Blown(d, s, l, t), Brought(d, s, l, c, t))
  BY BlowLemma
<1>8. \A t : t \in Arcs(d) \union Moved(d, s, c)
               <=> t \in Arcs(w) \union Moved(w, s, c) /\ t.label \in K
  BY <1>0, <1>2, <1>3
<1>9. \A t : t.label \in K => W!add(ws, Blown(d, s, l, t), Brought(d, s, l, c, t))
                                = W!add(ws, Blown(w, s, l, t), Brought(w, s, l, c, t))
  BY <1>4, <1>5
<1>10. Arcs(e) = {x \in Arcs(b) : x.label \in K}
  BY <1>6, <1>7, <1>8, <1>9
<1>. QED
  BY <1>6, <1>7, <1>9, <1>10 DEF IsPart

\* What tells how a state is freed is in the spontaneous arcs.
LEMMA PartsClosureLemma ==
  ASSUME NEW d, NEW a, NEW w, AreParts(d, a, w), NEW s
  PROVE  /\ SpIn(d, s) = SpIn(w, s)
         /\ LoopStar(d, s) = LoopStar(w, s)
         /\ Closure(d, s) = Closure(w, s)
         /\ CanFree(d, s) <=> CanFree(w, s)
<1>1. /\ Arcs(w) = Arcs(d) \union Arcs(a)
      /\ \A x \in Arcs(d) : w[x] = d[x] /\ x.label \in Blank
      /\ \A x \in Arcs(a) : x.label \in Written
  BY BothLemma, Zenon
<1>2. SpIn(d, s) = SpIn(w, s)
  BY <1>1, LabelsLemma DEF SpIn, In
<1>3. Loop(s) \in Arcs(d) <=> Loop(s) \in Arcs(w)
  BY <1>1, LabelsLemma
<1>4. Loop(s) \in Arcs(d) => d[Loop(s)] = w[Loop(s)]
  BY <1>1, Zenon
<1>5. LoopStar(d, s) = LoopStar(w, s)
  BY <1>3, <1>4, Zenon DEF LoopStar
<1>6. CanFree(d, s) <=> CanFree(w, s)
  BY <1>3, <1>4, Zenon DEF CanFree
<1>7. Closure(d, s) = Closure(w, s)
  <2>. DEFINE T == SpIn(w, s) \ {Loop(s)}
              P == {e.src : e \in T}
              f(p) == CHOOSE e \in T : e.src = p
  <2>1. Closure(w, s) = [p \in P |-> w[f(p)]]
    BY Zenon DEF Closure
  <2>2. Closure(d, s) = [p \in P |-> d[f(p)]]
    <3>. DEFINE U == SpIn(d, s) \ {Loop(s)}
    <3>1. Closure(d, s) = [p \in {e.src : e \in U} |-> d[CHOOSE e \in U : e.src = p]]
      BY Zenon DEF Closure
    <3>2. U = T
      BY <1>2
    <3>. HIDE DEF U, T
    <3>. QED
      BY <3>1, <3>2
  <2>3. \A p \in P : f(p) \in T
    OBVIOUS
  <2>4. \A e \in T : e \in Arcs(d)
    BY <1>2 DEF SpIn, In
  <2>. HIDE DEF f, T
  <2>5. \A p \in P : w[f(p)] = d[f(p)]
    BY <1>1, <2>3, <2>4
  <2>. HIDE DEF P
  <2>6. [p \in P |-> w[f(p)]] = [p \in P |-> d[f(p)]]
    BY <2>5
  <2>. QED
    BY <2>1, <2>2, <2>6, Zenon
<1>. QED
  BY <1>2, <1>5, <1>6, <1>7

\* Freeing a state in the two parts frees it in the whole.
LEMMA PartsFreedLemma ==
  ASSUME ws \in W!Names, NEW d, NEW a, NEW w, AreParts(d, a, w), NEW s, NEW p,
         CanFree(d, s), NEW r, r = Separated(d, a, s, p)
  PROVE  AreParts(r[1], r[2], Freed(w, s, p))
<1>. DEFINE l == LoopStar(d, s)
            c == Closure(d, s)
            v == Part(w, Arcs(w) \ SpIn(w, s))
            u == Part(d, Arcs(d) \ SpIn(d, s))
            wb == Blow(v, s, l, c)
            db == Blow(u, s, l, c)
            ab == Blow(a, s, l, c)
<1>0. IsAutomatonOver(ws, w)
  BY BothIsAutomaton
<1>1. /\ Arcs(w) = Arcs(d) \union Arcs(a)
      /\ \A x \in Arcs(d) : w[x] = d[x] /\ x.label \in Blank
      /\ \A x \in Arcs(a) : w[x] = a[x] /\ x.label \in Written
  BY BothLemma, Zenon
<1>2. /\ SpIn(d, s) = SpIn(w, s)
      /\ LoopStar(w, s) = l /\ Closure(w, s) = c
  BY PartsClosureLemma, Zenon
<1>3. IsAutomatonOver(ws, d) /\ IsAutomatonOver(ws, a)
  BY DEF AreParts
<1>4. Sources(c, s) /\ W!IsWeight(ws, l)
  BY <1>3, SourcesLemma, LoopStarLemma
<1>5. IsAutomatonOver(ws, v) /\ IsAutomatonOver(ws, u)
  BY <1>0, <1>3, PartIsAutomaton
<1>6. /\ Arcs(v) = Arcs(w) \intersect (Arcs(w) \ SpIn(w, s))
      /\ \A x \in Arcs(w) \intersect (Arcs(w) \ SpIn(w, s)) : v[x] = w[x]
  BY PartLemma, Zenon
<1>7. /\ Arcs(u) = Arcs(d) \intersect (Arcs(d) \ SpIn(d, s))
      /\ \A x \in Arcs(d) \intersect (Arcs(d) \ SpIn(d, s)) : u[x] = d[x]
  BY PartLemma, Zenon
<1>8. \A x \in SpIn(w, s) : x.label \in Blank
  BY LabelsLemma DEF SpIn
<1>9. Bypass(w, s) = wb
  BY <1>2, Zenon DEF Bypass
<1>. HIDE DEF l, c, v, u
<1>21. wb = Blow(v, s, l, c) /\ db = Blow(u, s, l, c) /\ ab = Blow(a, s, l, c)
  OBVIOUS
<1>10. IsPart(u, v, Blank)
  BY <1>1, <1>2, <1>6, <1>7, LabelsLemma DEF IsPart
<1>11. IsPart(a, v, Written)
  BY <1>1, <1>6, <1>8, LabelsLemma DEF IsPart
<1>12. IsPart(db, wb, Blank)
  <2>. HIDE DEF wb, db, ab
  <2>. QED
    BY <1>4, <1>5, <1>10, <1>21, BlowOfPartLemma
<1>13. IsPart(ab, wb, Written)
  <2>. HIDE DEF wb, db, ab
  <2>. QED
    BY <1>3, <1>4, <1>5, <1>11, <1>21, BlowOfPartLemma
<1>14. IsAutomatonOver(ws, wb)
  BY <1>4, <1>5, BlowIsAutomaton
<1>15. Arcs(wb) = Arcs(db) \union Arcs(ab)
  <2>1. \A x \in Arcs(wb) : x.label \in Blank \union Written
    BY <1>14, AutomatonLemma, LabelsLemma
  <2>. HIDE DEF wb, db, ab
  <2>. QED
    BY <1>12, <1>13, <2>1 DEF IsPart
<1>16. IsAutomatonOver(ws, r[1]) /\ IsAutomatonOver(ws, r[2])
  BY <1>3, SeparatedIsAutomaton
<1>17. r = IF p /\ In(db, s) = {} /\ In(ab, s) = {}
           THEN <<Without(db, s), Without(ab, s)>>
           ELSE <<db, ab>>
  BY Zenon DEF Separated, l, c, u
<1>. HIDE DEF wb, db, ab
<1>18. In(wb, s) = {} <=> In(db, s) = {} /\ In(ab, s) = {}
  BY <1>15 DEF In
<1>19. CASE p /\ In(wb, s) = {}
  <2>1. r = <<Without(db, s), Without(ab, s)>>
    BY <1>17, <1>18, <1>19
  <2>2. r[1] = Without(db, s) /\ r[2] = Without(ab, s)
    BY <2>1
  <2>3. Freed(w, s, p) = Without(wb, s)
    BY <1>9, <1>19 DEF Freed, Prune
  <2>7. \A x, K : IsPart(x, wb, K) => IsPart(Without(x, s), Without(wb, s), K)
    BY WithoutLemma DEF IsPart
  <2>10. IsAutomatonOver(ws, Without(wb, s))
    BY <1>14, WithoutIsAutomaton
  <2>. QED
    BY <1>12, <1>13, <1>16, <2>2, <2>3, <2>7, <2>10, PartsLemma
<1>20. CASE ~ (p /\ In(wb, s) = {})
  <2>1. r = <<db, ab>>
    BY <1>17, <1>18, <1>20
  <2>2. r[1] = db /\ r[2] = ab
    BY <2>1
  <2>3. Freed(w, s, p) = wb
    BY <1>9, <1>20 DEF Freed, Prune
  <2>. QED
    BY <1>12, <1>13, <1>14, <1>16, <2>2, <2>3, PartsLemma
<1>. QED
  BY <1>19, <1>20

\* The sizes of two sets that are apart.
LEMMA ApartLemma ==
  ASSUME NEW A, NEW B, IsFiniteSet(A), IsFiniteSet(B), A \intersect B = {}
  PROVE  Cardinality(A \union B) - Cardinality(A) = Cardinality(B)
<1>1. Cardinality(A \union B) = Cardinality(A) + Cardinality(B) - Cardinality(A \intersect B)
  BY FS_Union
<1>2. Cardinality(A \intersect B) = 0
  BY FS_EmptySet
<1>3. Cardinality(A) \in Nat /\ Cardinality(B) \in Nat
  BY FS_CardinalityType
<1>. QED
  BY <1>1, <1>2, <1>3

\* The profile of a state comes from the counts in the two parts.
LEMMA PartsProfileLemma ==
  ASSUME NEW d, NEW a, NEW w, AreParts(d, a, w), NEW n
  PROVE  S!ProfileOfParts(d, a, n) = Profile(w, n)
<1>. DEFINE A == {x \in In(a, n) : x.label # "$"}
            B == {x \in In(w, n) : x.label # "$"}
<1>1. S!ProfileOfParts(d, a, n) =
        [in_sp |-> Cardinality(In(d, n)), in_nsp |-> Cardinality(A),
         out_sp |-> Cardinality(Out(d, n)), out_nsp |-> Cardinality(Out(a, n))]
  <2>1. \A T : S!Cardinality(T) = Cardinality(T)
    BY DEF S!Cardinality, Cardinality
  <2>2. {x \in S!In(a, n) : x.label # "$"} = A
    BY SameSeparateArcs
  <2>. HIDE DEF A
  <2>. QED
    BY <2>1, <2>2, SameSeparateArcs, Zenon DEF S!ProfileOfParts
<1>2. Profile(w, n) =
        [in_sp |-> Cardinality(SpIn(w, n)), in_nsp |-> Cardinality(B) - Cardinality(SpIn(w, n)),
         out_sp |-> Cardinality(SpOut(w, n)),
         out_nsp |-> Cardinality(Out(w, n)) - Cardinality(SpOut(w, n))]
  BY Zenon DEF Profile
<1>3. /\ Arcs(w) = Arcs(d) \union Arcs(a)
      /\ \A x \in Arcs(d) : w[x] = d[x] /\ x.label \in Blank
      /\ \A x \in Arcs(a) : w[x] = a[x] /\ x.label \in Written
  BY BothLemma, Zenon
<1>4. SpIn(w, n) = In(d, n) /\ SpOut(w, n) = Out(d, n)
  BY <1>3, LabelsLemma DEF SpIn, In, SpOut, Out
<1>5. Out(w, n) = Out(d, n) \union Out(a, n) /\ Out(d, n) \intersect Out(a, n) = {}
  BY <1>3, LabelsLemma DEF Out
<1>6. In(w, n) = In(d, n) \union In(a, n) /\ In(d, n) \intersect In(a, n) = {}
  BY <1>3, LabelsLemma DEF In
<1>7. B = In(d, n) \union A /\ In(d, n) \intersect A = {}
  <2>1. \A x \in In(d, n) : x.label # "$"
    BY <1>3 DEF In, Blank
  <2>. QED
    BY <1>6, <2>1
<1>8. IsFiniteSet(In(d, n)) /\ IsFiniteSet(A) /\ IsFiniteSet(Out(d, n)) /\ IsFiniteSet(Out(a, n))
  <2>1. IsFiniteSet(Arcs(d)) /\ IsFiniteSet(Arcs(a))
    BY AutomatonLemma DEF AreParts
  <2>2. In(d, n) \subseteq Arcs(d) /\ A \subseteq Arcs(a)
    BY DEF In
  <2>3. Out(d, n) \subseteq Arcs(d) /\ Out(a, n) \subseteq Arcs(a)
    BY DEF Out
  <2>. HIDE DEF A
  <2>. QED
    BY <2>1, <2>2, <2>3, FS_Subset
<1>. HIDE DEF A, B
<1>9. Cardinality(B) - Cardinality(In(d, n)) = Cardinality(A)
  BY <1>7, <1>8, ApartLemma
<1>10. Cardinality(Out(w, n)) - Cardinality(Out(d, n)) = Cardinality(Out(a, n))
  BY <1>5, <1>8, ApartLemma
<1>. QED
  BY <1>1, <1>2, <1>4, <1>9, <1>10, Zenon

\* Neighbors are those in either part.
LEMMA PartsNeighborsLemma ==
  ASSUME NEW d, NEW a, NEW w, AreParts(d, a, w), NEW s
  PROVE  Neighbors(w, s) = Neighbors(d, s) \union Neighbors(a, s)
<1>1. Arcs(w) = Arcs(d) \union Arcs(a)
  BY BothLemma, Zenon
<1>. QED
  BY <1>1 DEF Neighbors, In, Out

\* The parts of an automaton, when it is split.
LEMMA SplitLemma ==
  ASSUME NEW w, IsAutomatonOver(ws, w)
  PROVE  AreParts(Part(w, Spontaneous(w)), Part(w, Arcs(w) \ Spontaneous(w)), w)
<1>. DEFINE d == Part(w, Spontaneous(w))
            a == Part(w, Arcs(w) \ Spontaneous(w))
<1>1. IsAutomatonOver(ws, d) /\ IsAutomatonOver(ws, a)
  BY PartIsAutomaton
<1>2. /\ Arcs(d) = Arcs(w) \intersect Spontaneous(w)
      /\ \A x \in Arcs(w) \intersect Spontaneous(w) : d[x] = w[x]
  BY PartLemma, Zenon
<1>3. /\ Arcs(a) = Arcs(w) \intersect (Arcs(w) \ Spontaneous(w))
      /\ \A x \in Arcs(w) \intersect (Arcs(w) \ Spontaneous(w)) : a[x] = w[x]
  BY PartLemma, Zenon
<1>4. \A x \in Arcs(w) : x.label \in Blank \union Written
  BY AutomatonLemma, LabelsLemma
<1>. HIDE DEF d, a
<1>5. IsPart(d, w, Blank)
  BY <1>2, LabelsLemma DEF IsPart
<1>6. IsPart(a, w, Written)
  BY <1>3, <1>4, LabelsLemma DEF IsPart
<1>7. AreParts(d, a, w)
  BY <1>1, <1>5, <1>6, PartsLemma
<1>. QED
  BY <1>7 DEF d, a

\* Spontaneous arcs may be lost.
LEMMA PartsLostLemma ==
  ASSUME NEW d, NEW a, NEW w, AreParts(d, a, w), NEW T, T \subseteq Arcs(d)
  PROVE  AreParts(Part(d, Arcs(d) \ T), a, Part(w, Arcs(w) \ T))
<1>. DEFINE e == Part(d, Arcs(d) \ T)
            v == Part(w, Arcs(w) \ T)
<1>1. /\ Arcs(w) = Arcs(d) \union Arcs(a)
      /\ \A x \in Arcs(d) : w[x] = d[x] /\ x.label \in Blank
      /\ \A x \in Arcs(a) : w[x] = a[x] /\ x.label \in Written
  BY BothLemma, Zenon
<1>2. IsAutomatonOver(ws, d) /\ IsAutomatonOver(ws, a) /\ IsAutomatonOver(ws, w)
  BY BothIsAutomaton DEF AreParts
<1>3. IsAutomatonOver(ws, e) /\ IsAutomatonOver(ws, v)
  BY <1>2, PartIsAutomaton
<1>4. /\ Arcs(e) = Arcs(d) \intersect (Arcs(d) \ T)
      /\ \A x \in Arcs(d) \intersect (Arcs(d) \ T) : e[x] = d[x]
  BY PartLemma, Zenon
<1>5. /\ Arcs(v) = Arcs(w) \intersect (Arcs(w) \ T)
      /\ \A x \in Arcs(w) \intersect (Arcs(w) \ T) : v[x] = w[x]
  BY PartLemma, Zenon
<1>. HIDE DEF e, v
<1>6. IsPart(e, v, Blank)
  BY <1>1, <1>4, <1>5, LabelsLemma DEF IsPart
<1>7. IsPart(a, v, Written)
  BY <1>1, <1>5, LabelsLemma DEF IsPart
<1>8. AreParts(e, a, v)
  BY <1>2, <1>3, <1>6, <1>7, PartsLemma
<1>. QED
  BY <1>8 DEF e, v

\* An automaton without spontaneous arcs is its other part.
LEMMA BothEmptyLemma ==
  ASSUME NEW k, NEW a, IsAutomatonOver(k, a)
  PROVE  Both(<<>>, a) = a
<1>1. Arcs(<<>>) = {}
  BY DEF Arcs
<1>2. Both(<<>>, a) = [x \in Arcs(a) |-> a[x]]
  BY <1>1 DEF Both
<1>. QED
  BY <1>2, AutomatonLemma, Zenon

\* What is implemented.
LEMMA ImplementedLemma ==
  /\ S!Both(dirty, aut) = Whole
  /\ S!InPlace!Build <=>
       /\ status = "ready" /\ todo' = Heap(Whole)
       /\ status' = IF is_proper(Whole) THEN "done" ELSE "running"
       /\ ws' = ws /\ prune_' = prune_ /\ Whole' = Whole
  /\ S!InPlace!Free <=>
       /\ status = "running" /\ CanFree(Whole, Top(todo))
       /\ Whole' = Freed(Whole, Top(todo), prune_)
       /\ todo' = Requeued(todo, Whole, Top(todo), Whole')
       /\ status' = IF todo' = <<>> THEN "done" ELSE "running"
       /\ ws' = ws /\ prune_' = prune_
  /\ S!InPlace!Raise <=>
       /\ status = "running" /\ ~ CanFree(Whole, Top(todo))
       /\ \E T \in SUBSET (SpIn(Whole, Top(todo)) \ {Loop(Top(todo))}) :
            Whole' = Part(Whole, Arcs(Whole) \ T)
       /\ todo' = [n \in DOMAIN todo \ {Top(todo)} |-> todo[n]]
       /\ status' = "raised"
       /\ ws' = ws /\ prune_' = prune_
<1>1. \A d, a : S!Both(d, a) = Both(d, a)
  BY DEF S!Both, Both, S!Arcs, Arcs
<1>2. S!Both(dirty, aut) = Whole /\ S!Both(dirty', aut') = Whole'
  BY <1>1, Zenon DEF Whole
<1>3. S!InPlace!Build <=>
       /\ status = "ready" /\ todo' = Heap(Whole)
       /\ status' = IF is_proper(Whole) THEN "done" ELSE "running"
       /\ ws' = ws /\ prune_' = prune_ /\ Whole' = Whole
  BY <1>2, SameBothProfile, SameBothArcs, Zenon DEF S!InPlace!Build
<1>4. S!InPlace!Free <=>
       /\ status = "running" /\ CanFree(Whole, Top(todo))
       /\ Whole' = Freed(Whole, Top(todo), prune_)
       /\ todo' = Requeued(todo, Whole, Top(todo), Whole')
       /\ status' = IF todo' = <<>> THEN "done" ELSE "running"
       /\ ws' = ws /\ prune_' = prune_
  BY <1>2, SameBothBlow, SameBothFreed, SameBothProfile, SameBothTop, Zenon DEF S!InPlace!Free
<1>5. S!InPlace!Raise <=>
       /\ status = "running" /\ ~ CanFree(Whole, Top(todo))
       /\ \E T \in SUBSET (SpIn(Whole, Top(todo)) \ {Loop(Top(todo))}) :
            Whole' = Part(Whole, Arcs(Whole) \ T)
       /\ todo' = [n \in DOMAIN todo \ {Top(todo)} |-> todo[n]]
       /\ status' = "raised"
       /\ ws' = ws /\ prune_' = prune_
  BY <1>2, SameBothBlow, SameBothArcs, SameBothTop, Zenon DEF S!InPlace!Raise
<1>. QED
  BY <1>2, <1>3, <1>4, <1>5, Zenon

\* What holds of the separate remover.
SeparateInv ==
  algo_ = "separate" =>
    /\ status \in {"called", "ready"} => dirty = <<>> /\ IsAutomatonOver(ws, aut)
    /\ status = "running" => AreParts(dirty, aut, Whole)

SeparateStep ==
  /\ status' \notin {"called", "ready"}
  /\ status' = "running" => AreParts(dirty, aut, Whole)'

\* The two automata are built.
LEMMA SeparateBuild ==
  ASSUME dirty = <<>>, IsAutomatonOver(ws, aut), S!Build
  PROVE  SeparateStep /\ S!InPlace!Build
<1>. DEFINE d == Part(aut, Spontaneous(aut))
            a == Part(aut, Arcs(aut) \ Spontaneous(aut))
<1>1. /\ status = "ready" /\ aut' = a /\ dirty' = d /\ ws' = ws /\ prune_' = prune_
      /\ todo' = [s \in {x.dst : x \in Arcs(dirty')} |-> S!ProfileOfParts(dirty', aut', s)]
      /\ status' = IF todo' = <<>> THEN "done" ELSE "running"
  BY SameSeparateArcs, Zenon DEF S!Build
<1>2. AreParts(d, a, aut)
  BY SplitLemma
<1>3. Whole = aut
  BY BothEmptyLemma DEF Whole
<1>4. Whole' = aut
  BY <1>1, <1>2, Zenon DEF Whole, AreParts
<1>5. Arcs(d) = Spontaneous(aut)
  <2>1. Arcs(d) = Arcs(aut) \intersect Spontaneous(aut)
    BY PartLemma, Zenon
  <2>. QED
    BY <2>1 DEF Spontaneous
<1>. HIDE DEF d, a
<1>6. {x.dst : x \in Arcs(d)} = {s \in States(aut) : SpIn(aut, s) # {}}
  <2>1. \A x \in Spontaneous(aut) : x.dst \in States(aut) /\ x \in SpIn(aut, x.dst)
    BY DEF States, SpIn, In, Spontaneous
  <2>2. \A s : \A x \in SpIn(aut, s) : x \in Spontaneous(aut) /\ x.dst = s
    BY DEF SpIn, In
  <2>. QED
    BY <1>5, <2>1, <2>2
<1>7. \A s : S!ProfileOfParts(d, a, s) = Profile(aut, s)
  BY <1>2, PartsProfileLemma
<1>8. todo' = Heap(aut)
  BY <1>1, <1>6, <1>7 DEF Heap
<1>9. todo' = <<>> <=> is_proper(aut)
  <2>1. DOMAIN todo' = {x.dst : x \in Spontaneous(aut)}
    BY <1>1, <1>5
  <2>2. DOMAIN todo' = {} <=> is_proper(aut)
    BY <2>1 DEF is_proper
  <2>3. DOMAIN todo' = {} => todo' = <<>>
    <3>. SUFFICES ASSUME DOMAIN todo' = {}
                  PROVE  todo' = <<>>
      OBVIOUS
    <3>1. todo' = [s \in {} |-> S!ProfileOfParts(dirty', aut', s)]
      BY <1>1
    <3>. QED
      BY <3>1
  <2>4. todo' = <<>> => DOMAIN todo' = {}
    OBVIOUS
  <2>. QED
    BY <2>2, <2>3, <2>4
<1>10. S!InPlace!Build
  BY <1>1, <1>3, <1>4, <1>8, <1>9, ImplementedLemma
<1>11. SeparateStep
  BY <1>1, <1>2, <1>4 DEF SeparateStep, AreParts
<1>. QED
  BY <1>10, <1>11

\* A state is freed.
LEMMA SeparateFree ==
  ASSUME ws \in W!Names, AreParts(dirty, aut, Whole), S!Free
  PROVE  SeparateStep /\ S!InPlace!Free
<1>. DEFINE s == Top(todo)
            r == Separated(dirty, aut, s, prune_)
<1>1. /\ status = "running" /\ CanFree(dirty, s)
      /\ dirty' = r[1] /\ aut' = r[2]
      /\ status' = IF todo' = <<>> THEN "done" ELSE "running"
      /\ ws' = ws /\ prune_' = prune_
  BY SameSeparateBlow, SameSeparateSeparated, SameSeparateTop, Zenon DEF S!Free
<1>2. todo' = [n \in DOMAIN todo \ {s} |->
                 IF n \in Neighbors(dirty, s) \union Neighbors(aut, s)
                 THEN S!ProfileOfParts(dirty', aut', n)
                 ELSE todo[n]]
  <2>1. \A a, t : S!Neighbors(a, t) = Neighbors(a, t)
    BY DEF S!Neighbors, Neighbors, S!In, In, S!Out, Out, S!Arcs, Arcs
  <2>. QED
    BY <2>1, SameSeparateTop, Zenon DEF S!Free
<1>3. AreParts(r[1], r[2], Freed(Whole, s, prune_))
  BY <1>1, PartsFreedLemma
<1>. HIDE DEF r
<1>4. Whole' = Freed(Whole, s, prune_)
  BY <1>1, <1>3, Zenon DEF Whole, AreParts
<1>5. AreParts(dirty', aut', Whole')
  BY <1>1, <1>3, <1>4
<1>6. \A n : S!ProfileOfParts(dirty', aut', n) = Profile(Whole', n)
  BY <1>5, PartsProfileLemma
<1>7. Neighbors(Whole, s) = Neighbors(dirty, s) \union Neighbors(aut, s)
  BY PartsNeighborsLemma
<1>8. todo' = Requeued(todo, Whole, s, Whole')
  BY <1>2, <1>6, <1>7 DEF Requeued
<1>9. CanFree(Whole, s)
  BY <1>1, PartsClosureLemma
<1>10. S!InPlace!Free
  BY <1>1, <1>4, <1>8, <1>9, ImplementedLemma
<1>11. SeparateStep
  BY <1>1, <1>5 DEF SeparateStep, AreParts
<1>. QED
  BY <1>10, <1>11

\* A star raises.
LEMMA SeparateRaise ==
  ASSUME AreParts(dirty, aut, Whole), S!Raise
  PROVE  SeparateStep /\ S!InPlace!Raise
<1>. DEFINE s == Top(todo)
<1>1. /\ status = "running" /\ ~ CanFree(dirty, s)
      /\ \E T \in SUBSET (SpIn(dirty, s) \ {Loop(s)}) : dirty' = Part(dirty, Arcs(dirty) \ T)
      /\ todo' = [n \in DOMAIN todo \ {s} |-> todo[n]]
      /\ status' = "raised"
      /\ ws' = ws /\ prune_' = prune_ /\ aut' = aut
  BY SameSeparateBlow, SameSeparateArcs, SameSeparateTop, Zenon DEF S!Raise
<1>. HIDE DEF s
<1>2. PICK T \in SUBSET (SpIn(dirty, s) \ {Loop(s)}) : dirty' = Part(dirty, Arcs(dirty) \ T)
  BY <1>1
<1>3. T \subseteq Arcs(dirty)
  BY DEF SpIn, In
<1>4. AreParts(Part(dirty, Arcs(dirty) \ T), aut, Part(Whole, Arcs(Whole) \ T))
  BY <1>3, PartsLostLemma
<1>5. Whole' = Part(Whole, Arcs(Whole) \ T)
  BY <1>1, <1>2, <1>4, Zenon DEF Whole, AreParts
<1>6. SpIn(dirty, s) = SpIn(Whole, s) /\ ~ CanFree(Whole, s)
  BY <1>1, PartsClosureLemma
<1>7. S!InPlace!Raise
  BY <1>1, <1>2, <1>5, <1>6, ImplementedLemma DEF s
<1>. QED
  BY <1>1, <1>7 DEF SeparateStep

-----------------------------------------------------------------------------
(* The theorems. *)

\* The inductive invariant: the weightset is one, the input is an automaton,
\* and what the algorithm at work keeps.
IInv ==
  /\ ws \in W!Names
  /\ IsAutomatonOver(ws, input)
  /\ InplaceInv
  /\ SeparateInv
  /\ LazyInv

\* It holds at first.
LEMMA InitLemma == Init => IInv
<1>. SUFFICES ASSUME Init
              PROVE  IInv
  OBVIOUS
<1>1. /\ ws \in W!Names /\ input \in Automata(ws) /\ aut = input
      /\ dirty = <<>> /\ status = "called"
      /\ proper_states = {} /\ known_states = {} /\ serving = L!Nobody
  BY Zenon DEF Init
<1>2. IsAutomatonOver(ws, input)
  BY <1>1, AutomataAssumption
<1>3. InplaceInv
  BY <1>1, <1>2 DEF InplaceInv, InplaceEscapes, InplaceDone, InplaceFresh
<1>4. SeparateInv
  BY <1>1, <1>2 DEF SeparateInv
<1>5. LazyInv
  BY <1>1 DEF LazyInv, LazyIdle
<1>. QED
  BY <1>1, <1>2, <1>3, <1>4, <1>5 DEF IInv

\* What a step keeps, and does.
Follows ==
  /\ algo_ = "lazy" => L!AnswersKept
  /\ algo_ = "separate" /\ status # "called" => S!InPlace!Next

\* The weightset and the input are chosen once.
LEMMA FixedLemma ==
  ASSUME Next
  PROVE  ws' = ws /\ input' = input /\ algo_' = algo_
<1>1. CASE Check
  BY <1>1 DEF Check
<1>2. CASE Inplace
  BY <1>2 DEF Inplace, I!Next, I!Build, I!Free, I!Raise
<1>3. CASE Separate
  BY <1>3 DEF Separate, S!Next, S!Build, S!Free, S!Raise
<1>4. CASE Distance
  BY <1>4 DEF Distance, D!Next, D!Measure, D!Pair, D!Finish
<1>5. CASE Lazy
  BY <1>5 DEF Lazy, L!Next, L!Build, L!AllOut, L!Visit, L!Raise, L!Again, L!Complete, L!idle
<1>6. CASE Answered
  BY <1>6 DEF Answered, vars
<1>. QED
  BY <1>1, <1>2, <1>3, <1>4, <1>5, <1>6 DEF Next

\* The check touches nothing.
LEMMA CheckLemma ==
  ASSUME IInv, Check
  PROVE  IInv' /\ Follows
<1>1. /\ ws' = ws /\ input' = input /\ algo_' = algo_ /\ aut' = aut /\ dirty' = dirty
      /\ proper_states' = proper_states /\ known_states' = known_states
      /\ serving' = serving
      /\ status = "called" /\ status' \in {"ready", "rejected"}
  BY Zenon DEF Check, lazy
<1>2. InplaceInv'
  BY <1>1 DEF IInv, InplaceInv, InplaceEscapes, InplaceDone, InplaceFresh, IsAutomatonOver
<1>3. SeparateInv'
  BY <1>1 DEF IInv, SeparateInv, IsAutomatonOver
<1>4. LazyInv'
  BY <1>1 DEF IInv, LazyInv, LazyIdle
<1>5. L!AnswersKept
  BY <1>1, LazySame
<1>6. IsAutomatonOver(ws, input)'
  BY <1>1, Zenon DEF IInv
<1>. QED
  BY <1>1, <1>2, <1>3, <1>4, <1>5, <1>6 DEF IInv, Follows

\* Each remover keeps its part of the invariant.
LEMMA InplaceKeeps ==
  ASSUME IInv, Inplace
  PROVE  InplaceInv'
<1>1. algo_ = "inplace" /\ I!Next
  BY DEF Inplace
<1>2. ws \in W!Names /\ IsAutomatonOver(ws, aut) /\ InplaceEscapes /\ InplaceFresh
  BY <1>1 DEF IInv, InplaceInv
<1>3. IsAutomatonOver(ws, aut)' /\ InplaceEscapes' /\ InplaceDone' /\ InplaceFresh'
  <2>1. CASE I!Build
    <3>1. ws' = ws
      BY <2>1 DEF I!Build
    <3>. QED
      BY <1>2, <2>1, <3>1, InplaceBuild
  <2>2. CASE I!Free
    BY <1>2, <2>2, InplaceFree
  <2>3. CASE I!Raise
    BY <1>2, <2>3, InplaceRaise
  <2>. QED
    BY <1>1, <2>1, <2>2, <2>3 DEF I!Next
<1>. QED
  BY <1>3 DEF InplaceInv

\* It also does what the remover in place does.
LEMMA SeparateKeeps ==
  ASSUME IInv, Separate
  PROVE  SeparateInv' /\ S!InPlace!Next
<1>1. algo_ = "separate" /\ S!Next
  BY DEF Separate
<1>2. /\ ws \in W!Names
      /\ status \in {"called", "ready"} => dirty = <<>> /\ IsAutomatonOver(ws, aut)
      /\ status = "running" => AreParts(dirty, aut, Whole)
  BY <1>1 DEF IInv, SeparateInv
<1>3. SeparateStep /\ S!InPlace!Next
  <2>1. CASE S!Build
    <3>1. status = "ready"
      BY <2>1 DEF S!Build
    <3>2. dirty = <<>> /\ IsAutomatonOver(ws, aut)
      BY <1>2, <3>1
    <3>. QED
      BY <2>1, <3>2, SeparateBuild DEF S!InPlace!Next
  <2>2. CASE S!Free
    <3>1. status = "running"
      BY <2>2 DEF S!Free
    <3>2. AreParts(dirty, aut, Whole)
      BY <1>2, <3>1
    <3>. QED
      BY <1>2, <2>2, <3>2, SeparateFree DEF S!InPlace!Next
  <2>3. CASE S!Raise
    <3>1. status = "running"
      BY <2>3 DEF S!Raise
    <3>2. AreParts(dirty, aut, Whole)
      BY <1>2, <3>1
    <3>. QED
      BY <2>3, <3>2, SeparateRaise DEF S!InPlace!Next
  <2>. QED
    BY <1>1, <2>1, <2>2, <2>3 DEF S!Next
<1>4. SeparateInv'
  BY <1>3 DEF SeparateStep, SeparateInv
<1>. QED
  BY <1>3, <1>4

\* It also keeps the answers.
LEMMA LazyKeeps ==
  ASSUME IInv, Lazy
  PROVE  LazyInv' /\ L!AnswersKept
<1>1. algo_ = "lazy" /\ L!Next
  BY DEF Lazy
<1>2. /\ ws \in W!Names /\ IsAutomatonOver(ws, input) /\ LazyIdle
      /\ status = "running" => LazyAutomata /\ LazyKnown /\ LazyServing
  BY <1>1 DEF IInv, LazyInv
<1>3. LazyIdle' /\ LazyAutomata' /\ LazyKnown' /\ LazyServing' /\ L!AnswersKept
  <2>1. CASE L!Build
    BY <1>2, <2>1, LazyBuild
  <2>2. ASSUME ~ L!Build
        PROVE  status = "running"
    <3>. SUFFICES ASSUME status # "running"
                  PROVE  FALSE
      OBVIOUS
    <3>1. proper_states = {} /\ known_states = {} /\ serving = L!Nobody
      BY <1>2 DEF LazyIdle
    <3>. QED
      BY <1>1, <2>2, <3>1 DEF L!Next, L!AllOut, L!Visit, L!Raise, L!Again, L!Complete
  <2>3. ASSUME status = "running", NEW s, L!AllOut(s)
        PROVE  LazyIdle' /\ LazyAutomata' /\ LazyKnown' /\ LazyServing' /\ L!AnswersKept
    BY <1>2, <2>3, LazyAllOut
  <2>4. ASSUME status = "running", NEW s, L!Visit(s)
        PROVE  LazyIdle' /\ LazyAutomata' /\ LazyKnown' /\ LazyServing' /\ L!AnswersKept
    <3>1. CASE SpIn(dirty, s) = {}
      BY <1>2, <2>4, <3>1, LazyPass
    <3>2. CASE SpIn(dirty, s) # {}
      BY <1>2, <2>4, <3>2, LazyVisit
    <3>. QED
      BY <3>1, <3>2
  <2>5. ASSUME status = "running", NEW s, L!Raise(s)
        PROVE  LazyIdle' /\ LazyAutomata' /\ LazyKnown' /\ LazyServing' /\ L!AnswersKept
    BY <1>2, <2>5, LazyRaise
  <2>6. ASSUME status = "running", L!Again
        PROVE  LazyIdle' /\ LazyAutomata' /\ LazyKnown' /\ LazyServing' /\ L!AnswersKept
    BY <1>2, <2>6, LazyAgain
  <2>7. ASSUME status = "running", L!Complete
        PROVE  LazyIdle' /\ LazyAutomata' /\ LazyKnown' /\ LazyServing' /\ L!AnswersKept
    BY <1>2, <2>7, LazyComplete
  <2>8. L!Build \/ (\E s : L!AllOut(s) \/ L!Visit(s) \/ L!Raise(s)) \/ L!Again \/ L!Complete
    BY <1>1 DEF L!Next
  <2>. QED
    BY <2>1, <2>2, <2>3, <2>4, <2>5, <2>6, <2>7, <2>8
<1>. QED
  BY <1>3 DEF LazyInv

\* The invariant is inductive.
LEMMA StepLemma ==
  ASSUME IInv, [Next]_vars
  PROVE  IInv' /\ [Follows]_vars
<1>1. CASE UNCHANGED vars
  <2>1. /\ ws' = ws /\ input' = input /\ algo_' = algo_ /\ aut' = aut /\ dirty' = dirty
        /\ proper_states' = proper_states /\ known_states' = known_states
        /\ serving' = serving /\ status' = status /\ todo' = todo
        /\ batch' = batch /\ has_removed' = has_removed
    BY <1>1 DEF vars, lazy
  <2>2. InplaceInv'
    BY <2>1 DEF IInv, InplaceInv, InplaceEscapes, InplaceDone, InplaceFresh, IsAutomatonOver
  <2>3. SeparateInv'
    BY <2>1, Zenon DEF IInv, SeparateInv, AreParts, Whole
  <2>4. LazyInv'
    BY <2>1, Zenon DEF IInv, LazyInv, LazyIdle, LazyAutomata, LazyKnown, LazyServing
  <2>5. IsAutomatonOver(ws, input)'
    BY <2>1, Zenon DEF IInv
  <2>. QED
    BY <1>1, <2>1, <2>2, <2>3, <2>4, <2>5 DEF IInv
<1>2. CASE Next /\ vars' # vars
  <2>1. ws' = ws /\ input' = input /\ algo_' = algo_
    BY <1>2, FixedLemma
  <2>2. ws' \in W!Names /\ IsAutomatonOver(ws, input)'
    BY <2>1, Zenon DEF IInv
  <2>3. CASE Check
    BY <2>3, CheckLemma
  <2>4. CASE Inplace
    <3>1. algo_ = "inplace"
      BY <2>4 DEF Inplace
    <3>2. InplaceInv'
      BY <2>4, InplaceKeeps
    <3>. QED
      BY <2>1, <2>2, <3>1, <3>2 DEF IInv, SeparateInv, LazyInv, Follows
  <2>5. CASE Separate
    <3>1. algo_ = "separate"
      BY <2>5 DEF Separate
    <3>2. SeparateInv' /\ S!InPlace!Next
      BY <2>5, SeparateKeeps
    <3>. QED
      BY <2>1, <2>2, <3>1, <3>2 DEF IInv, InplaceInv, LazyInv, Follows
  <2>6. CASE Distance
    <3>1. algo_ = "distance"
      BY <2>6 DEF Distance
    <3>. QED
      BY <2>1, <2>2, <3>1 DEF IInv, InplaceInv, SeparateInv, LazyInv, Follows
  <2>7. CASE Lazy
    <3>1. algo_ = "lazy"
      BY <2>7 DEF Lazy
    <3>2. LazyInv' /\ L!AnswersKept
      BY <2>7, LazyKeeps
    <3>. QED
      BY <2>1, <2>2, <3>1, <3>2 DEF IInv, InplaceInv, SeparateInv, Follows
  <2>8. CASE Answered
    BY <1>2, <2>8 DEF Answered
  <2>. QED
    BY <1>2, <2>3, <2>4, <2>5, <2>6, <2>7, <2>8 DEF Next
<1>. QED
  BY <1>1, <1>2

\* The elimination in place never leaves or makes a spontaneous arc that no
\* waiting state accounts for, and a client of the lazy automaton is never
\* shown a state with spontaneous arcs left, whatever the automata.
THEOREM NoneEscapes == Spec => []NothingEscapes
<1>1. Init => IInv
  BY InitLemma
<1>2. IInv /\ [Next]_vars => IInv'
  BY StepLemma
<1>3. IInv => NothingEscapes
  <2>1. IInv /\ algo_ = "inplace" => I!NothingEscapes
    BY InplaceProperties DEF IInv, InplaceInv
  <2>2. status # "running" /\ LazyIdle => L!NothingPending
    BY LazyPending DEF LazyIdle
  <2>3. LazyKnown => L!NothingPending
    BY LazyPending DEF LazyKnown
  <2>4. IInv /\ algo_ = "lazy" => L!NothingPending
    BY <2>2, <2>3 DEF IInv, LazyInv
  <2>. QED
    BY <2>1, <2>4 DEF NothingEscapes
<1>. QED
  BY <1>1, <1>2, <1>3, PTL DEF Spec

\* The keys of the heap of the remover in place are always those of the
\* automaton as it is: no profile changes but those that are computed again.
THEOREM HeapIsInOrder == Spec => []ProfilesAreFresh
<1>1. Init => IInv
  BY InitLemma
<1>2. IInv /\ [Next]_vars => IInv'
  BY StepLemma
<1>3. IInv => ProfilesAreFresh
  BY InplaceProperties DEF IInv, InplaceInv, ProfilesAreFresh
<1>. QED
  BY <1>1, <1>2, <1>3, PTL DEF Spec

\* What a client of the lazy automaton was told about a state stays true,
\* whatever it asks next and whatever fails.
THEOREM AnswersHold == Spec => AnswersStand
<1>1. Init => IInv
  BY InitLemma
<1>2. IInv /\ [Next]_vars => IInv'
  BY StepLemma
<1>3. IInv /\ [Next]_vars => [algo_ = "lazy" => L!AnswersKept]_vars
  BY StepLemma DEF Follows
<1>. QED
  BY <1>1, <1>2, <1>3, PTL DEF Spec, AnswersStand

\* Each step of the separate remover is the same step of the remover in place
\* on the arcs of its two automata, order of the heap and failures included.
THEOREM SeparateRefinesInPlace == Spec => SeparateFollowsInPlace
<1>1. Init => IInv
  BY InitLemma
<1>2. IInv /\ [Next]_vars => IInv'
  BY StepLemma
<1>3. IInv /\ [Next]_vars =>
        [algo_ = "separate" /\ status # "called" => S!InPlace!Next]_vars
  BY StepLemma DEF Follows
<1>. QED
  BY <1>1, <1>2, <1>3, PTL DEF Spec, SeparateFollowsInPlace
=============================================================================
