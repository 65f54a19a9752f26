---------------------------- MODULE VMWordProofs ----------------------------
(***************************************************************************)
(* The calculations of VM, for words of any size: what they return are     *)
(* words, and it is what the table of instructions asks for.  The powers   *)
(* of EXP and the numbers the bitwise operations put together are defined  *)
(* by recursion; what holds of them is shown by induction on sets of       *)
(* naturals.                                                               *)
(***************************************************************************)
EXTENDS VM, TLAPS, FiniteSetTheorems

-----------------------------------------------------------------------------
(***************************************************************************)
(* Induction and recursion on the naturals, with sets and functions in     *)
(* place of predicates.                                                    *)
(***************************************************************************)
(* A set of naturals with 0 and the successor of each of its elements is   *)
(* Nat.                                                                    *)
LEMMA Induction ==
    ASSUME NEW S \in SUBSET Nat, 0 \in S, \A n \in S : n + 1 \in S
    PROVE  S = Nat
<1> SUFFICES ASSUME Nat \ S # {} PROVE FALSE
    OBVIOUS
<1>1. PICK x \in Nat \ S : \A y \in Nat \ S : ~ (<<y, x>> \in OpToRel(<, Nat))
    <2>1. IsWellFoundedOn(OpToRel(<, Nat), Nat)
        BY NatLessThanWellFounded
    <2> QED BY <2>1, WFMin
<1>2. x # 0 /\ x - 1 \in Nat /\ (x - 1) + 1 = x
    OBVIOUS
<1>3. <<x - 1, x>> \in OpToRel(<, Nat)
    BY <1>2 DEF OpToRel
<1>4. x - 1 \in S
    BY <1>1, <1>2, <1>3
<1> QED BY <1>2, <1>4

(* f is defined by recursion on n: its value at 0 is t, that at n is made  *)
(* by g from n and from the value at d[n], which is smaller.               *)
Descends(d) == d \in [Nat \ {0} -> Nat] /\ \A n \in Nat \ {0} : d[n] < n

(* As above: what a function has to satisfy.                               *)
Recurs(f, t, d, g) == f[0] = t /\ \A n \in Nat \ {0} : f[n] = g[<<n, f[d[n]]>>]

(* There is such a function for every t, d and g.                          *)
LEMMA Recursion ==
    ASSUME NEW T, NEW t, NEW d, NEW g,
           t \in T, Descends(d), g \in [(Nat \ {0}) \X T -> T]
    PROVE  \E f \in [Nat -> T] : Recurs(f, t, d, g)
<1> USE DEF Descends
<1> DEFINE Upto(n) == {f \in [0..n -> T] :
                          f[0] = t /\ \A k \in 1..n : f[k] = g[<<k, f[d[k]]>>]}
           F == [n \in Nat |-> (CHOOSE f \in Upto(n) : TRUE)[n]]
<1>0. \A n \in Nat : \A k \in 1..n : d[k] \in 0..n /\ d[k] \in 0..(k - 1)
    OBVIOUS
<1>1. \A n \in Nat : Upto(n) # {}
    <2> DEFINE S == {n \in Nat : Upto(n) # {}}
    <2>1. 0 \in S
        <3>1. [k \in 0..0 |-> t] \in Upto(0)
            OBVIOUS
        <3> QED BY <3>1
    <2>2. ASSUME NEW n \in S PROVE n + 1 \in S
        <3>1. PICK f \in Upto(n) : TRUE
            BY <2>2
        <3> DEFINE h == [k \in 0..(n + 1) |->
                            IF k = n + 1 THEN g[<<n + 1, f[d[n + 1]]>>] ELSE f[k]]
        <3>2. n \in Nat /\ d[n + 1] \in 0..n
            BY <1>0
        <3>3. f[d[n + 1]] \in T
            BY <3>1, <3>2
        <3>4. h \in [0..(n + 1) -> T]
            BY <3>1, <3>2, <3>3
        <3>5. h[0] = t
            BY <3>1, <3>2
        <3>6. ASSUME NEW k \in 1..(n + 1) PROVE h[k] = g[<<k, h[d[k]]>>]
            <4>1. d[k] \in 0..(k - 1)
                BY <1>0, <3>2
            <4>2. h[d[k]] = f[d[k]]
                BY <3>2, <4>1
            <4>3. CASE k = n + 1
                <5>1. n + 1 \in 0..(n + 1)
                    BY <3>2
                <5>2. h[n + 1] = g[<<n + 1, f[d[n + 1]]>>]
                    BY <5>1, Zenon
                <5> QED BY <4>2, <4>3, <5>2
            <4>4. CASE k # n + 1
                <5>1. k \in 1..n /\ h[k] = f[k]
                    BY <3>2, <4>4
                <5> QED BY <3>1, <4>2, <5>1
            <4> QED BY <4>3, <4>4
        <3>7. h \in Upto(n + 1)
            BY <3>4, <3>5, <3>6
        <3> HIDE DEF h, Upto
        <3> QED BY <3>2, <3>7
    <2> HIDE DEF Upto
    <2>3. S = Nat
        BY <2>1, <2>2, Induction
    <2> QED BY <2>3
<1>2. ASSUME NEW m \in Nat, NEW n \in Nat, NEW e \in Upto(m), NEW f \in Upto(n)
      PROVE  \A k \in 0..m : k <= n => e[k] = f[k]
    <2> DEFINE S == {k \in Nat : \A j \in 0..k : j <= m /\ j <= n => e[j] = f[j]}
    <2>1. 0 \in S
        BY <1>2
    <2>2. ASSUME NEW k \in S PROVE k + 1 \in S
        <3> SUFFICES ASSUME k + 1 <= m, k + 1 <= n PROVE e[k + 1] = f[k + 1]
            BY <2>2
        <3>1. d[k + 1] \in 0..k
            BY <1>0
        <3>2. e[d[k + 1]] = f[d[k + 1]]
            BY <2>2, <3>1
        <3>3. e[k + 1] = g[<<k + 1, e[d[k + 1]]>>] /\ f[k + 1] = g[<<k + 1, f[d[k + 1]]>>]
            OBVIOUS
        <3> QED BY <3>2, <3>3
    <2>3. S = Nat
        <3> HIDE DEF Upto
        <3> QED BY <2>1, <2>2, Induction
    <2>4. ASSUME NEW k \in 0..m, k <= n PROVE e[k] = f[k]
        <3>1. k \in S
            <4> HIDE DEF S
            <4> QED BY <2>3
        <3>2. k \in 0..k
            OBVIOUS
        <3> QED BY <2>4, <3>1, <3>2
    <2> QED BY <2>4
<1>3. ASSUME NEW n \in Nat PROVE (CHOOSE f \in Upto(n) : TRUE) \in Upto(n)
    <2> HIDE DEF Upto
    <2> QED BY <1>1
<1>4. F \in [Nat -> T]
    <2>1. ASSUME NEW n \in Nat PROVE (CHOOSE f \in Upto(n) : TRUE)[n] \in T
        BY <1>3
    <2> QED BY <2>1
<1>5. F[0] = t
    <2>1. F[0] = (CHOOSE f \in Upto(0) : TRUE)[0]
        OBVIOUS
    <2> QED BY <1>3, <2>1
<1>6. ASSUME NEW n \in Nat \ {0} PROVE F[n] = g[<<n, F[d[n]]>>]
    <2> DEFINE e == CHOOSE f \in Upto(d[n]) : TRUE
               h == CHOOSE f \in Upto(n) : TRUE
    <2>1. d[n] \in Nat /\ d[n] <= n /\ n \in Nat /\ n \in 1..n /\ d[n] \in 0..d[n]
        OBVIOUS
    <2>2. e \in Upto(d[n]) /\ h \in Upto(n)
        BY <1>3, <2>1
    <2>3. F[n] = h[n] /\ F[d[n]] = e[d[n]]
        BY <2>1
    <2> HIDE DEF e, h, F
    <2>4. e[d[n]] = h[d[n]]
        <3> HIDE DEF Upto
        <3> QED BY <1>2, <2>1, <2>2
    <2>5. h[n] = g[<<n, h[d[n]]>>]
        BY <2>1, <2>2
    <2> QED BY <2>3, <2>4, <2>5
<1> HIDE DEF F
<1> QED BY <1>4, <1>5, <1>6 DEF Recurs

-----------------------------------------------------------------------------
(***************************************************************************)
(* Powers of two, and division by them.                                    *)
(***************************************************************************)
(* Powers of two are positive naturals, and each is twice the one before:  *)
(* they count the subsets of a set.                                        *)
LEMMA PowerOfTwo ==
    ASSUME NEW n \in Nat
    PROVE  2^n \in Nat \ {0} /\ 2^(n + 1) = 2 * 2^n
<1> DEFINE A == 1..n
           x == n + 1
           Ax == {B \cup {x} : B \in SUBSET A}
<1>1. /\ IsFiniteSet(A) /\ Cardinality(A) = n
      /\ IsFiniteSet(1..n+1) /\ Cardinality(1..(n+1)) = n + 1
    BY FS_Interval
<1>2. /\ IsFiniteSet(SUBSET A) /\ Cardinality(SUBSET A) = 2^n
      /\ IsFiniteSet(SUBSET (1..(n + 1))) /\ Cardinality(SUBSET (1..(n + 1))) = 2^(n + 1)
    BY <1>1, FS_SUBSET
<1>3. SUBSET (1..(n + 1)) = (SUBSET A) \cup Ax
    <2>1. 1..(n + 1) = A \cup {x}
        OBVIOUS
    <2>2. ASSUME NEW B \in SUBSET (1..(n + 1)), x \in B
          PROVE  B \in Ax
        <3>1. B \ {x} \in SUBSET A
            BY <2>1
        <3>2. B = (B \ {x}) \cup {x}
            BY <2>2
        <3> QED BY <3>1, <3>2
    <2> QED BY <2>1, <2>2
<1>4. (SUBSET A) \cap Ax = {}
    OBVIOUS
<1>5. IsFiniteSet(Ax) /\ Cardinality(Ax) = Cardinality(SUBSET A)
    <2> DEFINE f == [B \in SUBSET A |-> B \cup {x}]
    <2>1. f \in [SUBSET A -> Ax]
        OBVIOUS
    <2>2. \A B, C \in SUBSET A : f[B] = f[C] => B = C
        <3> SUFFICES ASSUME NEW B \in SUBSET A, NEW C \in SUBSET A, B \cup {x} = C \cup {x}
                     PROVE B = C
            OBVIOUS
        <3>1. x \notin B /\ x \notin C
            OBVIOUS
        <3> QED BY <3>1
    <2>3. \A D \in Ax : \E B \in SUBSET A : f[B] = D
        OBVIOUS
    <2>4. f \in Bijection(SUBSET A, Ax)
        BY <2>1, <2>2, <2>3 DEF Bijection, Injection, Surjection, IsInjective
    <2>5. ExistsBijection(SUBSET A, Ax)
        BY <2>4 DEF ExistsBijection
    <2> HIDE DEF Ax, A
    <2> QED BY <2>5, <1>2, FS_Bijection
<1>6. 2^(n + 1) = 2^n + 2^n
    <2> HIDE DEF Ax
    <2>1. Cardinality((SUBSET A) \cap Ax) = 0
        BY <1>4, FS_EmptySet
    <2>2. Cardinality((SUBSET A) \cup Ax) = Cardinality(SUBSET A) + Cardinality(Ax)
                                            - Cardinality((SUBSET A) \cap Ax)
        BY <1>2, <1>5, FS_Union
    <2>3. Cardinality(SUBSET A) \in Nat
        BY <1>2, FS_CardinalityType
    <2>4. Cardinality((SUBSET A) \cup Ax) = Cardinality(SUBSET A) + Cardinality(SUBSET A)
        BY <1>5, <2>1, <2>2, <2>3
    <2>5. Cardinality(SUBSET A) + Cardinality(SUBSET A) = 2^n + 2^n
        BY <1>2
    <2> QED BY <1>2, <1>3, <2>4, <2>5
<1>7. 2^n \in Nat /\ 2^n # 0
    <2>1. SUBSET A # {}
        OBVIOUS
    <2> QED BY <2>1, <1>2, FS_CardinalityType, FS_EmptySet
<1> QED BY <1>6, <1>7

(* A number is its quotient times the divisor plus its rest.               *)
LEMMA Division ==
    ASSUME NEW a \in Int, NEW m \in Nat \ {0}
    PROVE  /\ a \div m \in Int /\ a % m \in 0..(m - 1)
           /\ a = m * (a \div m) + (a % m)
OBVIOUS

(* No other quotient and rest do.                                          *)
LEMMA DivisionUnique ==
    ASSUME NEW m \in Nat \ {0}, NEW q \in Int, NEW r \in 0..(m - 1)
    PROVE  (m * q + r) \div m = q /\ (m * q + r) % m = r
<1> DEFINE a == m * q + r
           p == a \div m
           s == a % m
<1>1. a \in Int /\ p \in Int /\ s \in 0..(m - 1) /\ a = m * p + s
    BY Division
<1>2. m * (q - p) = s - r
    BY <1>1
<1>3. s - r < m /\ s - r > -m
    BY <1>1
<1> HIDE DEF p, s
<1>4. q - p < 1
    <2> SUFFICES ASSUME q - p >= 1 PROVE FALSE
        BY <1>1
    <2>1. m * (q - p) >= m
        BY <1>1
    <2> QED BY <1>1, <1>2, <1>3, <2>1
<1>5. q - p > -1
    <2> SUFFICES ASSUME p - q >= 1 PROVE FALSE
        BY <1>1
    <2>1. m * (p - q) >= m
        BY <1>1
    <2>2. m * (p - q) = -(m * (q - p))
        BY <1>1
    <2> QED BY <1>1, <1>2, <1>3, <2>1, <2>2
<1>6. p = q
    BY <1>1, <1>4, <1>5
<1>7. s = r
    BY <1>1, <1>2, <1>6
<1> QED BY <1>6, <1>7 DEF p, s

(* The product of two powers is the power of the sum.                      *)
LEMMA PowerSum ==
    ASSUME NEW m \in Nat, NEW n \in Nat
    PROVE  2^(m + n) = 2^m * 2^n
<1> DEFINE S == {k \in Nat : 2^(m + k) = 2^m * 2^k}
<1>1. 0 \in S
    <2>1. 2^0 = 1 /\ m + 0 = m
        OBVIOUS
    <2>2. 2^m \in Nat
        BY PowerOfTwo
    <2>3. 2^m * 2^0 = 2^m
        BY <2>1, <2>2
    <2> QED BY <2>1, <2>3
<1>2. ASSUME NEW k \in S PROVE k + 1 \in S
    <2>1. 2^((m + k) + 1) = 2 * 2^(m + k) /\ 2^(k + 1) = 2 * 2^k
        BY PowerOfTwo
    <2>2. 2^m \in Nat /\ 2^k \in Nat /\ 2^(m + k) = 2^m * 2^k
        BY PowerOfTwo
    <2>3. (m + k) + 1 = m + (k + 1)
        OBVIOUS
    <2>4. ASSUME NEW a \in Nat, NEW b \in Nat PROVE 2 * (a * b) = a * (2 * b)
        OBVIOUS
    <2>5. 2^(m + (k + 1)) = 2^m * 2^(k + 1)
        BY <2>1, <2>2, <2>3, <2>4, Zenon
    <2> QED BY <2>5
<1>3. S = Nat
    BY <1>1, <1>2, Induction
<1> QED BY <1>3

(* A larger exponent gives a power that is no smaller.                     *)
LEMMA PowerMonotone ==
    ASSUME NEW m \in Nat, NEW n \in Nat, m <= n
    PROVE  2^m <= 2^n
<1>1. n - m \in Nat /\ m + (n - m) = n
    OBVIOUS
<1>2. 2^n = 2^m * 2^(n - m)
    BY <1>1, PowerSum
<1>3. 2^m \in Nat /\ 2^(n - m) \in Nat \ {0}
    BY <1>1, PowerOfTwo
<1>4. ASSUME NEW a \in Nat, NEW b \in Nat \ {0} PROVE a <= a * b
    OBVIOUS
<1> QED BY <1>2, <1>3, <1>4

-----------------------------------------------------------------------------
(***************************************************************************)
(* The bits of a number.                                                   *)
(***************************************************************************)
(* A bit is 0 or 1.                                                        *)
LEMMA BitTyped ==
    ASSUME NEW x \in Int, NEW i \in Nat
    PROVE  Bit(x, i) \in {0, 1}
<1>1. 2^i \in Nat \ {0}
    BY PowerOfTwo
<1>2. x \div 2^i \in Int
    BY <1>1, Division
<1> QED BY <1>2, Division DEF Bit

(* A multiple of 2^n leaves the bits below n as they are.                  *)
LEMMA BitBelow ==
    ASSUME NEW x \in Int, NEW y \in Int, NEW n \in Nat, NEW i \in Nat, i < n
    PROVE  Bit(x + y * 2^n, i) = Bit(x, i)
<1> DEFINE M == 2^i
           K == 2^(n - i - 1)
           q == x \div M
           r == x % M
           u == q \div 2
           v == q % 2
<1>1. n - i - 1 \in Nat /\ n = i + ((n - i - 1) + 1)
    OBVIOUS
<1>2. M \in Nat \ {0} /\ K \in Nat \ {0}
    BY <1>1, PowerOfTwo
<1>3. 2^n = M * (2 * K)
    <2>1. 2^n = 2^i * 2^((n - i - 1) + 1)
        BY <1>1, PowerSum
    <2>2. 2^((n - i - 1) + 1) = 2 * K
        BY <1>1, PowerOfTwo
    <2> QED BY <2>1, <2>2
<1>4. q \in Int /\ r \in 0..(M - 1) /\ x = M * q + r
    BY <1>2, Division
<1>5. u \in Int /\ v \in 0..1 /\ q = 2 * u + v
    BY <1>4, Division
<1> HIDE DEF M, K, q, r, u, v
<1>6. y * 2^n = M * (2 * (K * y))
    BY <1>2, <1>3
<1>7. x + y * 2^n = M * (q + 2 * (K * y)) + r
    BY <1>2, <1>4, <1>6
<1>8. q + 2 * (K * y) \in Int /\ u + K * y \in Int
    BY <1>2, <1>4, <1>5
<1>9. (x + y * 2^n) \div M = q + 2 * (K * y)
    BY <1>2, <1>4, <1>7, <1>8, DivisionUnique
<1>10. q + 2 * (K * y) = 2 * (u + K * y) + v
    BY <1>2, <1>5
<1>11. (q + 2 * (K * y)) % 2 = v
    BY <1>5, <1>8, <1>10, DivisionUnique
<1> QED BY <1>9, <1>11 DEF Bit, M, q, v

(* Above n, what is left of x + y * 2^n is left of y, if x has no more than *)
(* n bits.                                                                 *)
LEMMA QuotientAbove ==
    ASSUME NEW n \in Nat, NEW x \in 0..(2^n - 1), NEW y \in Int, NEW i \in Nat, n <= i
    PROVE  (x + y * 2^n) \div 2^i = y \div 2^(i - n)
<1> DEFINE N == 2^n
           D == 2^(i - n)
           q == y \div D
           r == y % D
<1>1. i - n \in Nat /\ i = n + (i - n)
    OBVIOUS
<1>2. N \in Nat \ {0} /\ D \in Nat \ {0} /\ N * D \in Nat \ {0}
    <2>1. N \in Nat \ {0} /\ D \in Nat \ {0}
        BY <1>1, PowerOfTwo
    <2> HIDE DEF N, D
    <2> QED BY <2>1
<1>3. 2^i = N * D
    BY <1>1, PowerSum
<1>4. q \in Int /\ r \in 0..(D - 1) /\ y = D * q + r
    BY <1>2, Division
<1>5. x \in 0..(N - 1)
    OBVIOUS
<1> HIDE DEF N, D, q, r
<1>6. x + y * N = (N * D) * q + (N * r + x)
    BY <1>2, <1>4, <1>5
<1>7. N * r + x \in 0..(N * D - 1)
    <2>1. N * r >= 0 /\ N * r \in Int
        BY <1>2, <1>4
    <2>2. N * r <= N * (D - 1)
        BY <1>2, <1>4
    <2>3. N * (D - 1) = N * D - N
        BY <1>2
    <2> QED BY <1>2, <1>5, <2>1, <2>2, <2>3
<1>8. (x + y * N) \div (N * D) = q
    BY <1>2, <1>4, <1>6, <1>7, DivisionUnique
<1> QED BY <1>3, <1>8 DEF N, D, q

(* And so are its bits.                                                    *)
LEMMA BitAbove ==
    ASSUME NEW n \in Nat, NEW x \in 0..(2^n - 1), NEW y \in Int, NEW i \in Nat, n <= i
    PROVE  Bit(x + y * 2^n, i) = Bit(y, i - n)
BY QuotientAbove DEF Bit

(* Between i and n, x + y * 2^n has what x has.                            *)
LEMMA RestBelow ==
    ASSUME NEW x \in Int, NEW y \in Int, NEW n \in Nat, NEW i \in 0..n
    PROVE  ((x + y * 2^n) \div 2^i) % 2^(n - i) = (x \div 2^i) % 2^(n - i)
<1> DEFINE M == 2^i
           K == 2^(n - i)
           q == x \div M
           r == x % M
           u == q \div K
           v == q % K
<1>1. n - i \in Nat /\ n = i + (n - i) /\ i \in Nat
    OBVIOUS
<1>2. M \in Nat \ {0} /\ K \in Nat \ {0}
    BY <1>1, PowerOfTwo
<1>3. 2^n = M * K
    BY <1>1, PowerSum
<1>4. q \in Int /\ r \in 0..(M - 1) /\ x = M * q + r
    BY <1>2, Division
<1>5. u \in Int /\ v \in 0..(K - 1) /\ q = K * u + v
    BY <1>2, <1>4, Division
<1> HIDE DEF M, K, q, r, u, v
<1>6. y * 2^n = M * (K * y)
    BY <1>2, <1>3
<1>7. x + y * 2^n = M * (q + K * y) + r
    BY <1>2, <1>4, <1>6
<1>8. q + K * y \in Int /\ u + y \in Int
    BY <1>2, <1>4, <1>5
<1>9. (x + y * 2^n) \div M = q + K * y
    BY <1>2, <1>4, <1>7, <1>8, DivisionUnique
<1>10. q + K * y = K * (u + y) + v
    BY <1>2, <1>5
<1>11. (q + K * y) % K = v
    BY <1>2, <1>5, <1>8, <1>10, DivisionUnique
<1> QED BY <1>9, <1>11 DEF M, K, q, v

(* The rest of a division by 2^n has the lowest n bits.                    *)
LEMMA RestOfRest ==
    ASSUME NEW x \in Int, NEW n \in Nat, NEW i \in 0..n
    PROVE  (x % 2^n) % 2^i = x % 2^i
<1> DEFINE p == 2^i
           d == 2^(n - i)
           m == 2^n
           q == x \div m
           r == x % m
           u == r \div p
           v == r % p
<1>1. n - i \in Nat /\ n = i + (n - i) /\ i \in Nat
    OBVIOUS
<1>2. p \in Nat \ {0} /\ d \in Nat \ {0} /\ m \in Nat \ {0}
    BY <1>1, PowerOfTwo
<1>3. m = p * d
    BY <1>1, PowerSum
<1> HIDE DEF p, d, m
<1>4. q \in Int /\ r \in Int /\ x = m * q + r
    BY <1>2, Division
<1> HIDE DEF q, r
<1>5. u \in Int /\ v \in 0..(p - 1) /\ r = p * u + v
    BY <1>2, <1>4, Division
<1> HIDE DEF u, v
<1>6. (p * d) * q = p * (d * q) /\ d * q + u \in Int
    BY <1>2, <1>4, <1>5
<1>7. x = p * (d * q + u) + v
    BY <1>2, <1>3, <1>4, <1>5, <1>6
<1>8. x % p = v
    BY <1>2, <1>5, <1>6, <1>7, DivisionUnique
<1> QED BY <1>8 DEF v, r, p, m

(* -x - 1 has every bit of x inverted.                                     *)
LEMMA BitOfNot ==
    ASSUME NEW x \in Int, NEW i \in Nat
    PROVE  Bit(-x - 1, i) # Bit(x, i)
<1> DEFINE p == 2^i
           q == x \div p
           r == x % p
<1>1. p \in Nat \ {0}
    BY PowerOfTwo
<1> HIDE DEF p
<1>2. q \in Int /\ r \in 0..(p - 1) /\ x = p * q + r
    BY <1>1, Division
<1> HIDE DEF q, r
<1> DEFINE u == -q - 1
           v == p - 1 - r
<1>3. -x - 1 = p * u + v /\ v \in 0..(p - 1) /\ u \in Int
    BY <1>1, <1>2
<1>4. u % 2 # q % 2
    BY <1>2
<1> HIDE DEF u, v
<1>5. (-x - 1) \div p = u
    BY <1>1, <1>3, DivisionUnique
<1> QED BY <1>4, <1>5 DEF Bit, p, q

-----------------------------------------------------------------------------
(***************************************************************************)
(* Words, and the congruence of the numbers that wrap to one word.         *)
(***************************************************************************)
(* How the word, its half and the numbers the code puts in them compare:   *)
(* all that the proofs need of SizesAssumption and of Word.                *)
LEMMA Sizes ==
    /\ WordBits \in Nat \ {0} /\ HalfBits \in Nat /\ HalfBits < WordBits
    /\ 2^WordBits \in Nat \ {0} /\ 2^(WordBits - 1) \in Nat /\ 2^HalfBits \in Nat
    /\ 2^WordBits = 2 * 2^(WordBits - 1)
    /\ 2^HalfBits <= 2^(WordBits - 1)
    /\ 256 <= 2^HalfBits
    /\ Least = -(2^(WordBits - 1))
    /\ Word = Least..(-Least - 1) /\ Word \subseteq Int /\ Least \in Int
<1>1. /\ WordBits \in Nat \ {0} /\ HalfBits \in Nat /\ HalfBits < WordBits /\ 8 <= HalfBits
      /\ WordBits - 1 \in Nat /\ WordBits = (WordBits - 1) + 1 /\ HalfBits <= WordBits - 1
    BY SizesAssumption
<1>2. 2^WordBits \in Nat \ {0} /\ 2^(WordBits - 1) \in Nat /\ 2^HalfBits \in Nat
    BY <1>1, PowerOfTwo
<1>3. 2^WordBits = 2 * 2^(WordBits - 1)
    BY <1>1, PowerOfTwo, Zenon
<1>4. 2^HalfBits <= 2^(WordBits - 1)
    BY <1>1, PowerMonotone
<1>5. 2^8 = 256
    OBVIOUS
<1>6. 256 <= 2^HalfBits
    <2>1. 2^8 <= 2^HalfBits
        BY <1>1, PowerMonotone
    <2> QED BY <1>5, <2>1
<1>7. Word = Least..(-Least - 1) /\ Word \subseteq Int /\ Least \in Int
    BY <1>2 DEF Word, Least
<1> QED BY <1>1, <1>2, <1>3, <1>4, <1>6, <1>7 DEF Least

(* Wrap returns a word, and adds a multiple of 2^WordBits.                 *)
LEMMA WrapTyped ==
    ASSUME NEW x \in Int
    PROVE  Wrap(x) \in Word /\ \E k \in Int : Wrap(x) = x + k * 2^WordBits
<1> DEFINE M == 2^WordBits
           H == 2^(WordBits - 1)
           q == (x + H) \div M
           r == (x + H) % M
<1>1. M \in Nat \ {0} /\ H \in Nat /\ M = 2 * H /\ Least = -H
    BY Sizes
<1>2. x + H \in Int /\ x - Least = x + H
    BY <1>1
<1>3. q \in Int /\ r \in 0..(M - 1) /\ x + H = M * q + r
    BY <1>1, <1>2, Division
<1>4. Wrap(x) = r + Least
    BY <1>2 DEF Wrap
<1>w. Word = Least..(-Least - 1)
    BY Sizes
<1> HIDE DEF M, H, q, r
<1>5. Wrap(x) \in Word
    BY <1>1, <1>3, <1>4, <1>w
<1>6. -q \in Int /\ Wrap(x) = x + (-q) * M
    BY <1>1, <1>3, <1>4
<1> QED BY <1>5, <1>6 DEF M

(* The same as a fact to cite for one number.                              *)
LEMMA WrapWord == ASSUME NEW x \in Int PROVE Wrap(x) \in Word /\ Wrap(x) \in Int
    BY WrapTyped, Sizes

(* Two numbers are congruent when they differ by a multiple of 2^WordBits. *)
LEMMA CongruentWitness ==
    ASSUME NEW a \in Int, NEW b \in Int
    PROVE  Congruent(a, b) <=> \E k \in Int : a = b + k * 2^WordBits
<1> DEFINE M == 2^WordBits
<1>1. M \in Nat \ {0}
    BY Sizes
<1>2. ASSUME Congruent(a, b) PROVE \E k \in Int : a = b + k * M
    <2> DEFINE q == (a - b) \div M
    <2>1. a - b \in Int /\ (a - b) % M = 0
        BY <1>2 DEF Congruent
    <2>2. q \in Int /\ a - b = M * q + 0
        BY <1>1, <2>1, Division
    <2> HIDE DEF q, M
    <2>3. a = b + q * M
        BY <1>1, <2>2
    <2> QED BY <2>2, <2>3
<1>3. ASSUME NEW k \in Int, a = b + k * M PROVE Congruent(a, b)
    <2> HIDE DEF M
    <2>1. a - b = M * k + 0 /\ 0 \in 0..(M - 1)
        BY <1>1, <1>3
    <2>2. (a - b) % M = 0
        BY <1>1, <2>1, DivisionUnique
    <2> QED BY <2>2 DEF Congruent, M
<1> QED BY <1>2, <1>3

(* A number and the word it wraps to are congruent.                        *)
LEMMA WrapCongruent ==
    ASSUME NEW x \in Int
    PROVE  Congruent(Wrap(x), x)
<1>1. Wrap(x) \in Int
    BY WrapTyped, Sizes
<1> QED BY <1>1, WrapTyped, CongruentWitness

(* Different words are not congruent.                                      *)
LEMMA WordsDiffer ==
    ASSUME NEW a \in Word, NEW b \in Word, Congruent(a, b)
    PROVE  a = b
<1> DEFINE M == 2^WordBits
           H == 2^(WordBits - 1)
<1>1. M \in Nat \ {0} /\ H \in Nat /\ M = 2 * H /\ a \in Int /\ b \in Int
      /\ a >= -H /\ a < H /\ b >= -H /\ b < H
    BY Sizes DEF Word, Least
<1>2. PICK k \in Int : a = b + k * M
    BY <1>1, CongruentWitness
<1> HIDE DEF M, H
<1>3. k * M < M /\ k * M > -M
    BY <1>1, <1>2
<1>4. k < 1
    <2> SUFFICES ASSUME k >= 1 PROVE FALSE
        OBVIOUS
    <2>1. k * M >= M
        BY <1>1
    <2> QED BY <1>1, <1>3, <2>1
<1>5. k > -1
    <2> SUFFICES ASSUME -k >= 1 PROVE FALSE
        OBVIOUS
    <2>1. (-k) * M >= M /\ (-k) * M = -(k * M)
        BY <1>1
    <2> QED BY <1>1, <1>3, <2>1
<1>6. k = 0
    BY <1>4, <1>5
<1> QED BY <1>1, <1>2, <1>6

(* Words wrap to themselves.                                               *)
LEMMA WrapOfWord ==
    ASSUME NEW x \in Word
    PROVE  Wrap(x) = x
<1>1. x \in Int
    BY Sizes
<1> QED BY <1>1, WrapTyped, WrapCongruent, WordsDiffer

(* Sums and products of congruent numbers are congruent.                   *)
LEMMA CongruentOps ==
    ASSUME NEW a \in Int, NEW b \in Int, NEW c \in Int, NEW d \in Int,
           Congruent(a, b), Congruent(c, d)
    PROVE  Congruent(a + c, b + d) /\ Congruent(a * c, b * d)
<1> DEFINE M == 2^WordBits
<1>1. M \in Nat \ {0}
    BY Sizes
<1>2. PICK k \in Int : a = b + k * M
    BY CongruentWitness
<1>3. PICK l \in Int : c = d + l * M
    BY CongruentWitness
<1> HIDE DEF M
<1>4. k + l \in Int /\ a + c = (b + d) + (k + l) * M
    BY <1>1, <1>2, <1>3
<1>5. b * l + k * d + k * (l * M) \in Int
      /\ a * c = (b * d) + (b * l + k * d + k * (l * M)) * M
    <2>1. a * c = b * d + (b * (l * M) + (k * M) * d + (k * M) * (l * M))
        BY <1>1, <1>2, <1>3
    <2>2. /\ b * (l * M) = (b * l) * M /\ (k * M) * d = (k * d) * M
          /\ (k * M) * (l * M) = (k * (l * M)) * M
        BY <1>1
    <2>3. b * l \in Int /\ k * d \in Int /\ k * (l * M) \in Int
        BY <1>1
    <2>5. (b * l + k * d + k * (l * M)) * M
          = (b * l) * M + (k * d) * M + (k * (l * M)) * M
        <3> DEFINE p == b * l
                   q == k * d
                   r == k * (l * M)
        <3>1. p \in Int /\ q \in Int /\ r \in Int
            BY <2>3
        <3> HIDE DEF p, q, r
        <3>2. (p + q + r) * M = p * M + q * M + r * M
            BY <1>1, <3>1
        <3> QED BY <3>2 DEF p, q, r
    <2>6. a * c = b * d + ((b * l) * M + (k * d) * M + (k * (l * M)) * M)
        BY <2>1, <2>2, Zenon
    <2>7. a * c = b * d + (b * l + k * d + k * (l * M)) * M
        BY <2>5, <2>6, Zenon
    <2>8. b * l + k * d + k * (l * M) \in Int
        BY <2>3
    <2> QED BY <2>7, <2>8, Zenon
<1>6. a + c \in Int /\ b + d \in Int /\ a * c \in Int /\ b * d \in Int
    OBVIOUS
<1> QED BY <1>4, <1>5, <1>6, CongruentWitness DEF M

(* Congruence is reflexive, symmetric and transitive.                      *)
LEMMA CongruentEquivalence ==
    ASSUME NEW a \in Int, NEW b \in Int, NEW c \in Int
    PROVE  /\ Congruent(a, a)
           /\ Congruent(a, b) => Congruent(b, a)
           /\ Congruent(a, b) /\ Congruent(b, c) => Congruent(a, c)
<1> DEFINE M == 2^WordBits
<1>1. M \in Nat \ {0}
    BY Sizes
<1>2. Congruent(a, a)
    <2>1. a = a + 0 * M
        BY <1>1
    <2> QED BY <2>1, CongruentWitness
<1>3. ASSUME Congruent(a, b) PROVE Congruent(b, a)
    <2>1. PICK k \in Int : a = b + k * M
        BY <1>3, CongruentWitness
    <2> HIDE DEF M
    <2>2. -k \in Int /\ b = a + (-k) * M
        BY <1>1, <2>1
    <2> QED BY <2>2, CongruentWitness DEF M
<1>4. ASSUME Congruent(a, b), Congruent(b, c) PROVE Congruent(a, c)
    <2>1. PICK k \in Int : a = b + k * M
        BY <1>4, CongruentWitness
    <2>2. PICK l \in Int : b = c + l * M
        BY <1>4, CongruentWitness
    <2> HIDE DEF M
    <2>3. k + l \in Int /\ a = c + (k + l) * M
        BY <1>1, <2>1, <2>2
    <2> QED BY <2>3, CongruentWitness DEF M
<1> QED BY <1>2, <1>3, <1>4

(* The second variable b of the code holds a word without a sign.          *)
LEMMA HalfTyped ==
    ASSUME NEW x \in Int
    PROVE  Half(x) \in 0..(2^HalfBits - 1) /\ Half(x) \in Nat /\ Half(x) \in Word
<1>1. /\ 2^HalfBits \in Nat \ {0} /\ 2^HalfBits <= 2^(WordBits - 1)
      /\ Least = -(2^(WordBits - 1)) /\ Word = Least..(-Least - 1) /\ 2^(WordBits - 1) \in Nat
    BY Sizes
<1>2. Half(x) \in 0..(2^HalfBits - 1)
    BY <1>1, Division DEF Half
<1> QED BY <1>1, <1>2

(* A flag is 0 or 1.                                                       *)
LEMMA FlagTyped == ASSUME NEW b PROVE Flag(b) \in {0, 1}
BY DEF Flag

(* A flag is a word.                                                       *)
LEMMA FlagWord == ASSUME NEW b PROVE Wrap(Flag(b)) = Flag(b)
BY FlagTyped, Sizes, WrapOfWord

(* Congruent numbers have the same lowest WordBits bits.                   *)
LEMMA BitOfCongruent ==
    ASSUME NEW a \in Int, NEW b \in Int, Congruent(a, b), NEW i \in 0..(WordBits - 1)
    PROVE  Bit(a, i) = Bit(b, i)
<1>1. PICK k \in Int : a = b + k * 2^WordBits
    BY CongruentWitness
<1>2. WordBits \in Nat /\ i \in Nat /\ i < WordBits
    BY Sizes
<1> QED BY <1>1, <1>2, BitBelow

(* The second b keeps the lowest eight bits of what it is assigned.        *)
LEMMA RestOfHalf ==
    ASSUME NEW x \in Int, NEW i \in 0..8
    PROVE  Half(x) % 2^i = x % 2^i
<1>1. HalfBits \in Nat /\ i \in 0..HalfBits
    BY SizesAssumption
<1> QED BY <1>1, RestOfRest DEF Half

-----------------------------------------------------------------------------
(***************************************************************************)
(* The word with given bits.                                               *)
(***************************************************************************)
(* The sums OfBits is built from, one for each number of bits.             *)
LEMMA OfBitsLow ==
    ASSUME NEW b \in [0..(WordBits - 1) -> {0, 1}]
    PROVE  \E low \in [0..WordBits -> Int] :
              /\ low[0] = 0
              /\ \A n \in 1..WordBits : low[n] = low[n - 1] + b[n - 1] * 2^(n - 1)
              /\ OfBits(b) = Wrap(low[WordBits])
<1> DEFINE d == [n \in Nat \ {0} |-> n - 1]
           term(n) == IF n \in 1..WordBits THEN b[n - 1] * 2^(n - 1) ELSE 0
           g == [p \in (Nat \ {0}) \X Int |-> p[2] + term(p[1])]
<1>0. WordBits \in Nat
    BY Sizes
<1>1. Descends(d) /\ 0 \in Int
    BY DEF Descends
<1>2. ASSUME NEW n \in Nat \ {0} PROVE term(n) \in Int /\ d[n] = n - 1
    <2>1. n - 1 \in Nat /\ 2^(n - 1) \in Nat
        BY PowerOfTwo
    <2>2. n \in 1..WordBits => b[n - 1] \in {0, 1}
        BY <1>0
    <2> HIDE DEF g
    <2> QED BY <2>1, <2>2
<1> HIDE DEF term, d
<1>3. g \in [(Nat \ {0}) \X Int -> Int]
    BY <1>2
<1>4. \A n \in Nat \ {0}, m \in Int : g[<<n, m>>] = m + term(n)
    OBVIOUS
<1> HIDE DEF g
<1>5. PICK f \in [Nat -> Int] : Recurs(f, 0, d, g)
    BY <1>1, <1>3, Recursion, Zenon
<1>6. f[0] = 0 /\ \A n \in Nat \ {0} : f[n] = f[n - 1] + term(n)
    <2>1. ASSUME NEW n \in Nat \ {0} PROVE f[n] = f[n - 1] + term(n)
        <3>1. n - 1 \in Nat /\ f[n - 1] \in Int
            BY <1>5
        <3> QED BY <3>1, <1>2, <1>4, <1>5 DEF Recurs
    <2> QED BY <1>5, <2>1 DEF Recurs
<1> DEFINE low == [n \in 0..WordBits |-> f[n]]
           Fits(h) == h = [n \in 0..WordBits |->
                             IF n = 0 THEN 0 ELSE h[n - 1] + b[n - 1] * 2^(n - 1)]
<1>7. low \in [0..WordBits -> Int] /\ low[0] = 0
    BY <1>0, <1>5, <1>6
<1>8. ASSUME NEW n \in 1..WordBits PROVE low[n] = low[n - 1] + b[n - 1] * 2^(n - 1)
    <2>1. n \in Nat \ {0} /\ n - 1 \in 0..WordBits /\ n \in 0..WordBits
        BY <1>0
    <2>2. term(n) = b[n - 1] * 2^(n - 1)
        BY DEF term
    <2> QED BY <1>6, <2>1, <2>2
<1>9. Fits(low)
    <2>1. ASSUME NEW n \in 0..WordBits
          PROVE  low[n] = IF n = 0 THEN 0 ELSE low[n - 1] + b[n - 1] * 2^(n - 1)
        <3>1. CASE n = 0
            BY <1>7, <3>1
        <3>2. CASE n # 0
            <4>1. n \in 1..WordBits
                BY <1>0, <3>2
            <4> HIDE DEF low
            <4> QED BY <1>8, <3>2, <4>1
        <3> QED BY <3>1, <3>2
    <2> QED BY <2>1
<1> HIDE DEF low
<1>10. ASSUME NEW h, Fits(h) PROVE h = low
    <2> DEFINE S == {n \in Nat : n <= WordBits => h[n] = low[n]}
    <2>1. 0 \in S
        BY <1>0, <1>7, <1>10
    <2>2. ASSUME NEW n \in S PROVE n + 1 \in S
        <3> SUFFICES ASSUME n + 1 <= WordBits PROVE h[n + 1] = low[n + 1]
            OBVIOUS
        <3>1. n \in Nat /\ n <= WordBits /\ h[n] = low[n] /\ n + 1 \in 0..WordBits
              /\ n + 1 \in 1..WordBits /\ (n + 1) - 1 = n /\ n + 1 # 0
            BY <1>0, <2>2
        <3>2. h[n + 1] = h[n] + b[n] * 2^n
            BY <1>10, <3>1
        <3>3. low[n + 1] = low[n] + b[n] * 2^n
            BY <1>8, <3>1
        <3> QED BY <3>1, <3>2, <3>3
    <2>3. S = Nat
        BY <2>1, <2>2, Induction
    <2>4. \A n \in 0..WordBits : h[n] = low[n]
        <3> SUFFICES ASSUME NEW n \in 0..WordBits PROVE h[n] = low[n]
            OBVIOUS
        <3>1. n \in S
            <4>1. n \in Nat
                BY <1>0
            <4> HIDE DEF S
            <4> QED BY <2>3, <4>1
        <3> QED BY <3>1
    <2>5. DOMAIN h = 0..WordBits /\ h = [n \in DOMAIN h |-> h[n]]
        BY <1>10
    <2> QED BY <1>7, <2>4, <2>5
<1>11. OfBits(b) = Wrap((CHOOSE h : Fits(h))[WordBits])
    BY DEF OfBits
<1>12. (CHOOSE h : Fits(h)) = low
    <2> HIDE DEF Fits
    <2> QED BY <1>9, <1>10
<1>13. OfBits(b) = Wrap(low[WordBits])
    BY <1>11, <1>12
<1> QED BY <1>7, <1>8, <1>13

(* OfBits returns a word with the bits it is given: the AND, OR and XOR of *)
(* the code, which work on all bits at once, are what the model says of    *)
(* single bits.                                                            *)
LEMMA BitsOfWord ==
    ASSUME NEW b \in [0..(WordBits - 1) -> {0, 1}]
    PROVE  /\ OfBits(b) \in Word
           /\ \A i \in 0..(WordBits - 1) : Bit(OfBits(b), i) = b[i]
<1>0. WordBits \in Nat
    BY Sizes
<1>1. PICK low \in [0..WordBits -> Int] :
              /\ low[0] = 0
              /\ \A n \in 1..WordBits : low[n] = low[n - 1] + b[n - 1] * 2^(n - 1)
              /\ OfBits(b) = Wrap(low[WordBits])
    BY OfBitsLow
<1> DEFINE Good(n) == /\ low[n] \in 0..(2^n - 1)
                      /\ \A i \in 0..(n - 1) : Bit(low[n], i) = b[i]
           S == {n \in Nat : n <= WordBits => Good(n)}
<1>2. 0 \in S
    <2>1. 2^0 = 1
        OBVIOUS
    <2> QED BY <1>0, <1>1, <2>1
<1>3. ASSUME NEW n \in S PROVE n + 1 \in S
    <2> SUFFICES ASSUME n + 1 <= WordBits PROVE Good(n + 1)
        OBVIOUS
    <2>1. n \in Nat /\ n + 1 \in 1..WordBits /\ (n + 1) - 1 = n /\ n \in 0..(WordBits - 1)
          /\ n <= WordBits
        BY <1>0
    <2>2. Good(n)
        <3> HIDE DEF Good
        <3> QED BY <1>3, <2>1
    <2>3. low[n + 1] = low[n] + b[n] * 2^n /\ b[n] \in {0, 1}
        BY <1>1, <2>1
    <2>4. 2^n \in Nat \ {0} /\ 2^(n + 1) = 2 * 2^n
        BY <2>1, PowerOfTwo
    <2>5. low[n] \in 0..(2^n - 1) /\ low[n] \in Int /\ b[n] \in Int
        BY <2>2, <2>3, <2>4
    <2>6. low[n + 1] \in 0..(2^(n + 1) - 1)
        <3>1. CASE b[n] = 0
            <4>1. low[n + 1] = low[n]
                BY <2>3, <2>4, <2>5, <3>1
            <4> QED BY <2>4, <2>5, <4>1
        <3>2. CASE b[n] = 1
            <4>1. low[n + 1] = low[n] + 2^n
                BY <2>3, <2>4, <2>5, <3>2
            <4> QED BY <2>4, <2>5, <4>1
        <3> QED BY <2>3, <3>1, <3>2
    <2>7. ASSUME NEW i \in 0..n PROVE Bit(low[n + 1], i) = b[i]
        <3>1. CASE i < n
            <4>1. Bit(low[n] + b[n] * 2^n, i) = Bit(low[n], i)
                <5>1. i \in Nat
                    BY <2>1
                <5> QED BY <2>1, <2>5, <3>1, <5>1, BitBelow, Zenon
            <4>2. i \in 0..(n - 1)
                BY <2>1, <3>1
            <4> QED BY <2>2, <2>3, <4>1, <4>2
        <3>2. CASE i = n
            <4>1. Bit(low[n] + b[n] * 2^n, n) = Bit(b[n], n - n)
                <5>1. n <= n
                    BY <2>1
                <5> QED BY <2>1, <2>5, <5>1, BitAbove, Zenon
            <4>2. n - n = 0 /\ 2^0 = 1
                BY <2>1
            <4>3. b[n] \div 1 = b[n] /\ b[n] % 2 = b[n]
                BY <2>3
            <4>4. Bit(b[n], 0) = b[n]
                BY <4>2, <4>3 DEF Bit
            <4> QED BY <2>3, <3>2, <4>1, <4>2, <4>4
        <3> QED BY <2>1, <3>1, <3>2
    <2> QED BY <2>1, <2>6, <2>7
<1>4. S = Nat
    BY <1>2, <1>3, Induction
<1>5. Good(WordBits)
    <2> HIDE DEF Good
    <2>1. WordBits \in S
        BY <1>0, <1>4, Zenon
    <2> QED BY <2>1
<1>6. low[WordBits] \in Int
    BY <1>0, <1>1
<1>7. OfBits(b) \in Word /\ OfBits(b) \in Int
    BY <1>1, <1>6, WrapTyped, Sizes
<1>8. ASSUME NEW i \in 0..(WordBits - 1) PROVE Bit(OfBits(b), i) = b[i]
    <2>1. Congruent(OfBits(b), low[WordBits])
        BY <1>1, <1>6, WrapCongruent
    <2>2. Bit(OfBits(b), i) = Bit(low[WordBits], i)
        BY <1>6, <1>7, <2>1, BitOfCongruent
    <2> QED BY <1>5, <2>2
<1> QED BY <1>7, <1>8

-----------------------------------------------------------------------------
(***************************************************************************)
(* Powers by squaring: the loop of EXP and the power it is meant to find.  *)
(***************************************************************************)
(* Half a natural is a smaller natural.                                    *)
LEMMA HalvedNumber ==
    ASSUME NEW n \in Nat
    PROVE  /\ n \div 2 \in Nat /\ n % 2 \in {0, 1} /\ n = 2 * (n \div 2) + (n % 2)
           /\ n # 0 => n \div 2 < n
OBVIOUS

(* The recursion of Power and Raised goes from n to n \div 2.              *)
HalvesDescend(d) == Descends(d) /\ \A n \in Nat \ {0} : d[n] = n \div 2

(* It descends.                                                            *)
LEMMA Halving == \E d : HalvesDescend(d)
<1> DEFINE d == [n \in Nat \ {0} |-> n \div 2]
<1>1. \A n \in Nat \ {0} : d[n] = n \div 2 /\ n \div 2 \in Nat /\ n \div 2 < n
    BY HalvedNumber
<1>2. d \in [Nat \ {0} -> Nat]
    BY <1>1
<1> HIDE DEF d
<1>3. HalvesDescend(d)
    BY <1>1, <1>2 DEF HalvesDescend, Descends
<1> QED BY <1>3

(* Raised is the function its definition describes.                        *)
LEMMA RaisedDef ==
    /\ Raised \in [Nat -> [Word -> Word]]
    /\ \A y \in Word : Raised[0][y] = 1
    /\ \A e \in Nat \ {0}, y \in Word :
          Raised[e][y] = Wrap(Wrap(Raised[e \div 2][y] * Raised[e \div 2][y])
                              * (IF e % 2 = 1 THEN y ELSE 1))
<1> DEFINE T == [Word -> Word]
           val(e, h, y) == IF e = 0 THEN 1 ELSE Wrap(Wrap(h * h) * (IF e % 2 = 1 THEN y ELSE 1))
           t == [y \in Word |-> 1]
           g == [p \in (Nat \ {0}) \X T |-> [y \in Word |-> val(p[1], p[2][y], y)]]
           Fits(R) == R = [e \in Nat |-> [y \in Word |->
                              LET h == R[e \div 2][y]
                              IN  IF e = 0 THEN 1
                                  ELSE Wrap(Wrap(h * h) * (IF e % 2 = 1 THEN y ELSE 1))]]
<1>0. 1 \in Word /\ Word \subseteq Int
    BY Sizes
<1>1. t \in T
    BY <1>0
<1>2. ASSUME NEW e \in Nat, NEW h \in Word, NEW y \in Word PROVE val(e, h, y) \in Word
    <2>1. h * h \in Int
        BY <1>0
    <2>2. Wrap(h * h) \in Int
        BY <2>1, WrapWord
    <2>3. (IF e % 2 = 1 THEN y ELSE 1) \in Int
        BY <1>0
    <2>4. Wrap(h * h) * (IF e % 2 = 1 THEN y ELSE 1) \in Int
        BY <2>2, <2>3
    <2> QED BY <2>4, <1>0, WrapWord, Zenon
<1> HIDE DEF val
<1>3. g \in [(Nat \ {0}) \X T -> T]
    BY <1>2
<1>4. ASSUME NEW e \in Nat \ {0}, NEW h \in T PROVE g[<<e, h>>] = [y \in Word |-> val(e, h[y], y)]
    OBVIOUS
<1> HIDE DEF g, t, T
<1>5. PICK d : HalvesDescend(d)
    BY Halving
<1>6. PICK f \in [Nat -> T] : Recurs(f, t, d, g)
    BY <1>1, <1>3, <1>5, Recursion DEF HalvesDescend
<1>7. \A e \in Nat : f[e] = [y \in Word |-> val(e, f[e \div 2][y], y)]
    <2> SUFFICES ASSUME NEW e \in Nat PROVE f[e] = [y \in Word |-> val(e, f[e \div 2][y], y)]
        OBVIOUS
    <2>1. CASE e = 0
        <3>1. f[0] = [y \in Word |-> 1]
            BY <1>6 DEF Recurs, t
        <3> QED BY <2>1, <3>1 DEF val
    <2>2. CASE e # 0
        <3>1. e \in Nat \ {0} /\ e \div 2 \in Nat
            BY <2>2, HalvedNumber
        <3>2. f[e \div 2] \in T
            BY <1>6, <3>1
        <3>3. f[e] = g[<<e, f[e \div 2]>>]
            BY <1>5, <1>6, <3>1 DEF HalvesDescend, Recurs
        <3> QED BY <3>1, <3>2, <3>3, <1>4
    <2> QED BY <2>1, <2>2
<1>8. Fits(f)
    <2>1. f = [e \in Nat |-> f[e]]
        BY <1>6
    <2>2. [e \in Nat |-> f[e]] = [e \in Nat |-> [y \in Word |-> val(e, f[e \div 2][y], y)]]
        BY <1>7
    <2> QED BY <2>1, <2>2 DEF val
<1>9. Fits(Raised)
    <2>1. Raised = CHOOSE R : Fits(R)
        BY DEF Raised
    <2> HIDE DEF Fits
    <2> QED BY <1>8, <2>1
<1>10. ASSUME NEW e \in Nat, NEW y \in Word PROVE Raised[e][y] = val(e, Raised[e \div 2][y], y)
    <2>1. Raised[e] = [z \in Word |-> LET h == Raised[e \div 2][z]
                              IN  IF e = 0 THEN 1
                                  ELSE Wrap(Wrap(h * h) * (IF e % 2 = 1 THEN z ELSE 1))]
        BY <1>9
    <2> QED BY <2>1 DEF val
<1>11. \A e \in Nat : Raised[e] \in T
    <2> DEFINE S == {n \in Nat : \A e \in 0..n : Raised[e] \in T}
    <2>0. ASSUME NEW e \in Nat, \A y \in Word : Raised[e][y] \in Word PROVE Raised[e] \in T
        <3>1. Raised[e] = [z \in Word |-> Raised[e][z]]
            BY <1>9
        <3> QED BY <2>0, <3>1 DEF T
    <2>1. 0 \in S
        <3>1. \A y \in Word : Raised[0][y] \in Word
            BY <1>0, <1>10 DEF val
        <3> QED BY <2>0, <3>1
    <2>2. ASSUME NEW n \in S PROVE n + 1 \in S
        <3>1. (n + 1) \div 2 \in 0..n /\ n + 1 \in Nat
            BY HalvedNumber
        <3>2. Raised[(n + 1) \div 2] \in T
            BY <2>2, <3>1
        <3>3. ASSUME NEW y \in Word PROVE Raised[n + 1][y] \in Word
            <4>1. Raised[(n + 1) \div 2][y] \in Word
                BY <3>2 DEF T
            <4> QED BY <1>2, <1>10, <3>1, <4>1
        <3>4. Raised[n + 1] \in T
            BY <2>0, <3>1, <3>3
        <3> QED BY <2>2, <3>4
    <2>3. S = Nat
        BY <2>1, <2>2, Induction
    <2> SUFFICES ASSUME NEW e \in Nat PROVE Raised[e] \in T
        OBVIOUS
    <2>4. e \in S
        <3> HIDE DEF S
        <3> QED BY <2>3
    <2>5. e \in 0..e
        OBVIOUS
    <2> QED BY <2>4, <2>5
<1>12. Raised \in [Nat -> T]
    <2>1. Raised = [e \in Nat |-> Raised[e]]
        BY <1>9
    <2> QED BY <1>11, <2>1
<1> QED BY <1>10, <1>12 DEF val, T

(* The power of e is that of e \div 2 squared, times y when e is odd, up to*)
(* wrapping.                                                               *)
LEMMA RaisedStep ==
    ASSUME NEW e \in Nat \ {0}, NEW y \in Word
    PROVE  Congruent(Raised[e][y], (Raised[e \div 2][y] * Raised[e \div 2][y])
                                   * (IF e % 2 = 1 THEN y ELSE 1))
<1> DEFINE h == Raised[e \div 2][y]
           o == IF e % 2 = 1 THEN y ELSE 1
<1>1. h \in Int /\ o \in Int /\ y \in Int
    BY Sizes, RaisedDef, HalvedNumber
<1>2. Raised[e][y] = Wrap(Wrap(h * h) * o)
    BY RaisedDef
<1> HIDE DEF h, o
<1>3. h * h \in Int /\ Wrap(h * h) \in Int
    BY <1>1, WrapWord
<1>4. Wrap(h * h) * o \in Int /\ (h * h) * o \in Int /\ Wrap(Wrap(h * h) * o) \in Int
    BY <1>1, <1>3, WrapWord
<1>5. Congruent(Wrap(Wrap(h * h) * o), Wrap(h * h) * o)
    BY <1>4, WrapCongruent
<1>6. Congruent(Wrap(h * h), h * h) /\ Congruent(o, o)
    BY <1>1, <1>3, WrapCongruent, CongruentEquivalence
<1>7. Congruent(Wrap(h * h) * o, (h * h) * o)
    BY <1>1, <1>3, <1>6, CongruentOps
<1>8. Congruent(Wrap(Wrap(h * h) * o), (h * h) * o)
    BY <1>4, <1>5, <1>7, CongruentEquivalence
<1> QED BY <1>2, <1>8 DEF h, o

(* The square of y raised to e is y raised to e, squared.                  *)
LEMMA RaisedSquare ==
    \A e \in Nat, y \in Word :
        Congruent(Raised[e][Wrap(y * y)], Raised[e][y] * Raised[e][y])
<1> DEFINE Q(e) == \A y \in Word : Congruent(Raised[e][Wrap(y * y)], Raised[e][y] * Raised[e][y])
           S == {n \in Nat : \A e \in 0..n : Q(e)}
<1>0. \A y \in Word : y \in Int /\ y * y \in Int /\ Wrap(y * y) \in Word
    BY Sizes, WrapWord
<1>1. Q(0)
    <2> SUFFICES ASSUME NEW y \in Word
                 PROVE  Congruent(Raised[0][Wrap(y * y)], Raised[0][y] * Raised[0][y])
        OBVIOUS
    <2>1. Raised[0][Wrap(y * y)] = 1 /\ Raised[0][y] = 1
        BY <1>0, RaisedDef
    <2>2. 1 = 1 * 1
        OBVIOUS
    <2> QED BY <2>1, <2>2, CongruentEquivalence
<1>2. ASSUME NEW e \in Nat \ {0}, Q(e \div 2) PROVE Q(e)
    <2> SUFFICES ASSUME NEW y \in Word
                 PROVE  Congruent(Raised[e][Wrap(y * y)], Raised[e][y] * Raised[e][y])
        OBVIOUS
    <2> DEFINE s == Wrap(y * y)
               h == Raised[e \div 2][y]
               k == Raised[e \div 2][s]
               o == IF e % 2 = 1 THEN y ELSE 1
               p == IF e % 2 = 1 THEN s ELSE 1
               A == Raised[e][s]
               B == Raised[e][y]
    <2>1. e \div 2 \in Nat /\ s \in Word /\ Word \subseteq Int
        BY <1>0, HalvedNumber, Sizes
    <2>2. h \in Int /\ k \in Int /\ A \in Int /\ B \in Int /\ y \in Int /\ s \in Int
        BY <2>1, RaisedDef
    <2>3. o \in Int /\ p \in Int
        BY <2>2
    <2>4. Congruent(A, (k * k) * p)
        BY <2>1, RaisedStep
    <2>5. Congruent(B, (h * h) * o)
        BY RaisedStep
    <2>6. Congruent(k, h * h)
        BY <1>2
    <2>7. Congruent(p, o * o)
        <3>1. CASE e % 2 = 1
            BY <3>1, <1>0, WrapCongruent
        <3>2. CASE e % 2 # 1
            <4>1. p = 1 /\ o * o = 1
                BY <3>2
            <4> QED BY <4>1, CongruentEquivalence
        <3> QED BY <3>1, <3>2
    <2> HIDE DEF h, k, o, p, A, B, s
    <2>8. h * h \in Int /\ k * k \in Int /\ o * o \in Int /\ (h * h) * (h * h) \in Int
        BY <2>2, <2>3
    <2>9. Congruent(k * k, (h * h) * (h * h))
        BY <2>2, <2>6, <2>8, CongruentOps
    <2>10. Congruent((k * k) * p, ((h * h) * (h * h)) * (o * o))
        BY <2>3, <2>7, <2>8, <2>9, CongruentOps
    <2>11. (h * h) * o \in Int
        BY <2>2, <2>3
    <2>12. Congruent(B * B, ((h * h) * o) * ((h * h) * o))
        BY <2>2, <2>5, <2>11, CongruentOps
    <2>13. ((h * h) * (h * h)) * (o * o) = ((h * h) * o) * ((h * h) * o)
        <3> DEFINE z == h * h
        <3>1. z \in Int
            BY <2>8
        <3> HIDE DEF z
        <3>2. (z * z) * (o * o) = (z * o) * (z * o)
            BY <2>3, <3>1
        <3> QED BY <3>2 DEF z
    <2>14. (k * k) * p \in Int /\ ((h * h) * o) * ((h * h) * o) \in Int /\ B * B \in Int
        BY <2>2, <2>3, <2>8, <2>11
    <2>15. Congruent(A, ((h * h) * o) * ((h * h) * o))
        BY <2>2, <2>4, <2>10, <2>13, <2>14, CongruentEquivalence
    <2>16. Congruent(((h * h) * o) * ((h * h) * o), B * B)
        BY <2>12, <2>14, CongruentEquivalence
    <2>17. Congruent(A, B * B)
        BY <2>2, <2>14, <2>15, <2>16, CongruentEquivalence
    <2> QED BY <2>17 DEF A, B, s
<1> HIDE DEF Q
<1>3. 0 \in S
    BY <1>1
<1>4. ASSUME NEW n \in S PROVE n + 1 \in S
    <2>1. (n + 1) \div 2 \in 0..n /\ n + 1 \in Nat \ {0}
        BY HalvedNumber
    <2>2. Q(n + 1)
        BY <1>2, <2>1
    <2> QED BY <2>2
<1>5. S = Nat
    BY <1>3, <1>4, Induction
<1>6. ASSUME NEW e \in Nat PROVE Q(e)
    <2>1. e \in S
        <3> HIDE DEF S
        <3> QED BY <1>5
    <2>2. e \in 0..e
        OBVIOUS
    <2> QED BY <2>1, <2>2
<1> QED BY <1>6 DEF Q

(* Raised is the power it is named for: its value at 0 is 1, and each      *)
(* further exponent multiplies by y, up to wrapping.                       *)
LEMMA RaisedIsPower ==
    \A y \in Word :
        /\ Raised[0][y] = 1
        /\ \A e \in Nat : Congruent(Raised[e + 1][y], Raised[e][y] * y)
<1> SUFFICES ASSUME NEW y \in Word
             PROVE  /\ Raised[0][y] = 1
                    /\ \A e \in Nat : Congruent(Raised[e + 1][y], Raised[e][y] * y)
    OBVIOUS
<1> DEFINE Q(e) == Congruent(Raised[e + 1][y], Raised[e][y] * y)
           S == {n \in Nat : \A e \in 0..n : Q(e)}
<1>1. Raised[0][y] = 1
    BY RaisedDef
<1>2. y \in Int /\ \A e \in Nat : Raised[e][y] \in Int
    BY RaisedDef, Sizes
\* An even exponent: both powers are made of the same square.
<1>3. ASSUME NEW e \in Nat, e % 2 = 0 PROVE Q(e)
    <2> DEFINE h == Raised[e \div 2][y]
    <2>1. (e + 1) \div 2 = e \div 2 /\ (e + 1) % 2 = 1 /\ e + 1 \in Nat \ {0} /\ e \div 2 \in Nat
        BY <1>3
    <2>2. Congruent(Raised[e + 1][y], (h * h) * y)
        BY <2>1, RaisedStep
    <2>3. Congruent(Raised[e][y], h * h)
        <3>1. CASE e = 0
            <4>1. e \div 2 = 0 /\ h = 1
                BY <1>1, <3>1
            <4>2. Raised[e][y] = h * h
                BY <1>1, <3>1, <4>1
            <4> QED BY <1>2, <4>2, CongruentEquivalence
        <3>2. CASE e # 0
            <4>1. Congruent(Raised[e][y], (h * h) * 1)
                BY <1>3, <3>2, RaisedStep
            <4>2. (h * h) * 1 = h * h
                BY <1>2, <2>1
            <4> QED BY <4>1, <4>2
        <3> QED BY <3>1, <3>2
    <2> DEFINE A == Raised[e + 1][y]
               B == Raised[e][y]
    <2>4. h \in Int /\ A \in Int /\ B \in Int /\ Congruent(A, (h * h) * y) /\ Congruent(B, h * h)
        BY <1>2, <2>1, <2>2, <2>3
    <2> HIDE DEF h, A, B
    <2>5. h * h \in Int /\ (h * h) * y \in Int /\ B * y \in Int
        BY <1>2, <2>4
    <2>6. Congruent(y, y)
        BY <1>2, CongruentEquivalence
    <2>7. Congruent(B * y, (h * h) * y)
        BY <1>2, <2>4, <2>5, <2>6, CongruentOps
    <2>8. Congruent((h * h) * y, B * y)
        BY <2>5, <2>7, CongruentEquivalence
    <2>9. Congruent(A, B * y)
        BY <2>4, <2>5, <2>8, CongruentEquivalence
    <2> QED BY <2>9 DEF A, B
\* An odd exponent: the square of the next half is the half's, times y twice.
<1>4. ASSUME NEW e \in Nat, e % 2 = 1, Q(e \div 2) PROVE Q(e)
    <2> DEFINE h == Raised[e \div 2][y]
               k == Raised[(e \div 2) + 1][y]
               A == Raised[e + 1][y]
               B == Raised[e][y]
    <2>1. /\ (e + 1) \div 2 = (e \div 2) + 1 /\ (e + 1) % 2 = 0 /\ e \div 2 \in Nat
          /\ e \in Nat \ {0} /\ e + 1 \in Nat \ {0} /\ (e \div 2) + 1 \in Nat
        BY <1>4
    <2>2. h \in Int /\ k \in Int /\ A \in Int /\ B \in Int
        BY <1>2, <2>1
    <2>3. Congruent(A, (k * k) * 1)
        BY <2>1, RaisedStep
    <2>4. Congruent(B, (h * h) * y)
        BY <1>4, <2>1, RaisedStep
    <2>5. Congruent(k, h * y)
        BY <1>4
    <2> HIDE DEF h, k, A, B
    <2>6. k * k \in Int /\ (k * k) * 1 = k * k /\ h * y \in Int /\ (h * h) * y \in Int /\ B * y \in Int
        BY <1>2, <2>2
    <2>7. (h * y) * (h * y) \in Int /\ ((h * h) * y) * y \in Int
        BY <1>2, <2>6
    <2>8. Congruent(k * k, (h * y) * (h * y))
        BY <2>2, <2>5, <2>6, CongruentOps
    <2>9. Congruent(y, y)
        BY <1>2, CongruentEquivalence
    <2>10. Congruent(B * y, ((h * h) * y) * y)
        BY <1>2, <2>2, <2>4, <2>6, <2>9, CongruentOps
    <2>11. (h * y) * (h * y) = ((h * h) * y) * y
        BY <1>2, <2>2
    <2>12. Congruent((h * y) * (h * y), B * y)
        BY <2>6, <2>7, <2>10, <2>11, CongruentEquivalence
    <2>13. Congruent(A, (h * y) * (h * y))
        BY <2>2, <2>3, <2>6, <2>7, <2>8, CongruentEquivalence
    <2>14. Congruent(A, B * y)
        BY <2>2, <2>6, <2>7, <2>12, <2>13, CongruentEquivalence
    <2> QED BY <2>14 DEF A, B
<1>5. ASSUME NEW e \in Nat \ {0}, Q(e \div 2) PROVE Q(e)
    <2>1. e % 2 \in {0, 1}
        BY HalvedNumber
    <2> QED BY <1>3, <1>4, <1>5, <2>1
<1>6. Q(0)
    BY <1>3
<1> HIDE DEF Q
<1>7. 0 \in S
    BY <1>6
<1>8. ASSUME NEW n \in S PROVE n + 1 \in S
    <2>1. (n + 1) \div 2 \in 0..n /\ n + 1 \in Nat \ {0}
        BY HalvedNumber
    <2>2. Q(n + 1)
        BY <1>5, <2>1
    <2> QED BY <2>2
<1>9. S = Nat
    BY <1>7, <1>8, Induction
<1>10. ASSUME NEW e \in Nat PROVE Q(e)
    <2>1. e \in S
        <3> HIDE DEF S
        <3> QED BY <1>9
    <2>2. e \in 0..e
        OBVIOUS
    <2> QED BY <2>1, <2>2
<1> QED BY <1>1, <1>10 DEF Q

(* What an instruction that calculates may return: nothing, or one word.   *)
Outcomes == {<<>>} \cup {<<w>> : w \in Word}

(* Power is the function its definition describes, the loop of EXP.        *)
LEMMA PowerDef ==
    ASSUME NEW e \in Nat, NEW r \in Word, NEW a \in Word
    PROVE  LET product == IF e % 2 = 1 THEN Wrap(r * a) ELSE r
               square == Wrap(a * a)
           IN  Power[e][<<r, a>>] =
                  IF e = 0 THEN <<r>>
                  ELSE IF (e % 2 = 1 /\ product < a) \/ square < 1 THEN <<>>
                  ELSE Power[e \div 2][<<product, square>>]
<1> DEFINE P == Word \X Word
           T == [P -> Outcomes]
           product(n, s) == IF n % 2 = 1 THEN Wrap(s[1] * s[2]) ELSE s[1]
           square(s) == Wrap(s[2] * s[2])
           fails(n, s) == (n % 2 = 1 /\ product(n, s) < s[2]) \/ square(s) < 1
           val(n, h, s) == IF n = 0 THEN <<s[1]>>
                           ELSE IF fails(n, s) THEN <<>>
                           ELSE h[<<product(n, s), square(s)>>]
           t == [s \in P |-> <<s[1]>>]
           g == [p \in (Nat \ {0}) \X T |-> [s \in P |-> val(p[1], p[2], s)]]
           Fits(R) == R = [n \in Nat |-> [s \in P |-> val(n, R[n \div 2], s)]]
<1>1. t \in T
    BY DEF Outcomes
<1>2. ASSUME NEW n \in Nat, NEW s \in P PROVE <<product(n, s), square(s)>> \in P
    <2>1. s[1] \in Word /\ s[2] \in Word /\ Word \subseteq Int
        BY Sizes
    <2>2. s[1] * s[2] \in Int /\ s[2] * s[2] \in Int
        <3>1. \A u, v \in Int : u * v \in Int
            OBVIOUS
        <3>2. s[1] \in Int /\ s[2] \in Int
            BY <2>1, Zenon
        <3> QED BY <3>1, <3>2, Zenon
    <2>3. Wrap(s[1] * s[2]) \in Word /\ Wrap(s[2] * s[2]) \in Word
        BY <2>2, WrapWord
    <2> QED BY <2>1, <2>3
<1> HIDE DEF product, square, P
<1>3. ASSUME NEW n \in Nat, NEW h \in T, NEW s \in P PROVE val(n, h, s) \in Outcomes
    <2>1. h[<<product(n, s), square(s)>>] \in Outcomes
        BY <1>2
    <2>2. <<s[1]>> \in Outcomes
        BY DEF Outcomes, P
    <2>3. <<>> \in Outcomes
        BY DEF Outcomes
    <2> QED BY <2>1, <2>2, <2>3
<1> HIDE DEF val, fails
<1>4. g \in [(Nat \ {0}) \X T -> T]
    <2>1. ASSUME NEW p \in (Nat \ {0}) \X T PROVE [s \in P |-> val(p[1], p[2], s)] \in T
        <3>1. p[1] \in Nat /\ p[2] \in T
            OBVIOUS
        <3> HIDE DEF T
        <3>2. \A s \in P : val(p[1], p[2], s) \in Outcomes
            BY <1>3, <3>1
        <3> QED BY <3>2 DEF T
    <2> HIDE DEF T
    <2> QED BY <2>1
<1> HIDE DEF T
<1>5. ASSUME NEW n \in Nat \ {0}, NEW h \in T PROVE g[<<n, h>>] = [s \in P |-> val(n, h, s)]
    OBVIOUS
<1> HIDE DEF g, t
<1>6. PICK d : HalvesDescend(d)
    BY Halving
<1>7. PICK f \in [Nat -> T] : Recurs(f, t, d, g)
    BY <1>1, <1>4, <1>6, Recursion DEF HalvesDescend
<1>8. \A n \in Nat : f[n] = [s \in P |-> val(n, f[n \div 2], s)]
    <2> SUFFICES ASSUME NEW n \in Nat PROVE f[n] = [s \in P |-> val(n, f[n \div 2], s)]
        OBVIOUS
    <2>1. CASE n = 0
        <3>1. f[0] = [s \in P |-> <<s[1]>>]
            BY <1>7 DEF Recurs, t
        <3> QED BY <2>1, <3>1 DEF val
    <2>2. CASE n # 0
        <3>1. n \in Nat \ {0} /\ n \div 2 \in Nat
            BY <2>2, HalvedNumber
        <3>2. f[n \div 2] \in T
            BY <1>7, <3>1
        <3>3. f[n] = g[<<n, f[n \div 2]>>]
            BY <1>6, <1>7, <3>1 DEF HalvesDescend, Recurs
        <3> QED BY <3>1, <3>2, <3>3, <1>5
    <2> QED BY <2>1, <2>2
<1>9. Fits(f)
    <2>1. f = [n \in Nat |-> f[n]]
        BY <1>7
    <2> QED BY <2>1, <1>8
<1>10. Fits(Power)
    <2>1. Power = CHOOSE R : Fits(R)
        BY DEF Power, val, fails, product, square, P
    <2> HIDE DEF Fits
    <2> QED BY <1>9, <2>1
<1>11. <<r, a>> \in P
    BY DEF P
<1>12. Power[e][<<r, a>>] = val(e, Power[e \div 2], <<r, a>>)
    <2>1. Power[e] = [s \in P |-> val(e, Power[e \div 2], s)]
        BY <1>10
    <2> QED BY <1>11, <2>1
<1> QED BY <1>12 DEF val, fails, product, square

(* Whatever its starting point, the loop of EXP returns nothing or r times *)
(* the power of a, wrapped: squaring the base while it halves the exponent *)
(* finds the power.                                                        *)
LEMMA PowerRaises ==
    \A e \in Nat, r \in Word, a \in Word :
        \/ Power[e][<<r, a>>] = <<>>
        \/ \E w \in Word : Power[e][<<r, a>>] = <<w>> /\ Congruent(w, r * Raised[e][a])
<1> DEFINE Q(e) == \A r \in Word, a \in Word :
                      \/ Power[e][<<r, a>>] = <<>>
                      \/ \E w \in Word : /\ Power[e][<<r, a>>] = <<w>>
                                         /\ Congruent(w, r * Raised[e][a])
           S == {n \in Nat : \A e \in 0..n : Q(e)}
<1>0. Word \subseteq Int
    BY Sizes
<1>1. Q(0)
    <2> SUFFICES ASSUME NEW r \in Word, NEW a \in Word
                 PROVE  \E w \in Word : /\ Power[0][<<r, a>>] = <<w>>
                                         /\ Congruent(w, r * Raised[0][a])
        OBVIOUS
    <2>1. Power[0][<<r, a>>] = <<r>>
        BY PowerDef
    <2>2. r * Raised[0][a] = r
        BY <1>0, RaisedDef
    <2>3. Congruent(r, r)
        BY <1>0, CongruentEquivalence
    <2> QED BY <2>1, <2>2, <2>3
<1>2. ASSUME NEW e \in Nat \ {0}, Q(e \div 2) PROVE Q(e)
    <2> SUFFICES ASSUME NEW r \in Word, NEW a \in Word, Power[e][<<r, a>>] # <<>>
                 PROVE  \E w \in Word : /\ Power[e][<<r, a>>] = <<w>>
                                         /\ Congruent(w, r * Raised[e][a])
        OBVIOUS
    <2> DEFINE product == IF e % 2 = 1 THEN Wrap(r * a) ELSE r
               square == Wrap(a * a)
               o == IF e % 2 = 1 THEN a ELSE 1
               h == Raised[e \div 2][a]
               k == Raised[e \div 2][square]
               A == Raised[e][a]
    <2>1. r \in Int /\ a \in Int /\ r * a \in Int /\ a * a \in Int /\ e \div 2 \in Nat /\ e # 0
        BY <1>0, HalvedNumber
    <2>2. product \in Word /\ square \in Word
        BY <2>1, WrapWord
    <2>3. Power[e][<<r, a>>] = Power[e \div 2][<<product, square>>]
        BY <2>1, PowerDef
    <2>4. PICK w \in Word : /\ Power[e \div 2][<<product, square>>] = <<w>>
                            /\ Congruent(w, product * k)
        <3> HIDE DEF product, square
        <3> QED BY <1>2, <2>2, <2>3
    <2>5. h \in Int /\ k \in Int /\ A \in Int /\ o \in Int /\ product \in Int /\ w \in Int
        BY <1>0, <2>1, <2>2, RaisedDef
    <2>6. Congruent(product, r * o)
        <3>1. CASE e % 2 = 1
            BY <2>1, <3>1, WrapCongruent
        <3>2. CASE e % 2 # 1
            <4>1. product = r /\ r * o = r
                BY <2>1, <3>2
            <4> QED BY <2>1, <4>1, CongruentEquivalence
        <3> QED BY <3>1, <3>2
    <2>7. Congruent(k, h * h)
        BY <2>1, RaisedSquare
    <2>8. Congruent(A, (h * h) * o)
        BY RaisedStep
    <2>9. Congruent(w, product * k)
        BY <2>4
    <2> HIDE DEF product, square, o, h, k, A
    <2>10. /\ r * o \in Int /\ h * h \in Int /\ product * k \in Int /\ (h * h) * o \in Int
           /\ (r * o) * (h * h) \in Int /\ r * A \in Int /\ r * ((h * h) * o) \in Int
        <3>1. r * o \in Int /\ h * h \in Int /\ product * k \in Int /\ r * A \in Int
            BY <2>1, <2>5
        <3>2. (h * h) * o \in Int /\ (r * o) * (h * h) \in Int
            BY <2>5, <3>1
        <3> QED BY <2>1, <3>1, <3>2
    <2>11. Congruent(product * k, (r * o) * (h * h))
        BY <2>5, <2>6, <2>7, <2>10, CongruentOps
    <2>12. Congruent(r * A, r * ((h * h) * o))
        <3>1. Congruent(r, r)
            BY <2>1, CongruentEquivalence
        <3> QED BY <2>1, <2>5, <2>8, <2>10, <3>1, CongruentOps
    <2>13. (r * o) * (h * h) = r * ((h * h) * o)
        BY <2>1, <2>5
    <2>14. Congruent(w, r * ((h * h) * o))
        BY <2>5, <2>9, <2>10, <2>11, <2>13, CongruentEquivalence
    <2>15. Congruent(r * ((h * h) * o), r * A)
        BY <2>10, <2>12, CongruentEquivalence
    <2>16. Congruent(w, r * A)
        BY <2>5, <2>10, <2>14, <2>15, CongruentEquivalence
    <2> QED BY <2>3, <2>4, <2>16 DEF A
<1> HIDE DEF Q
<1>3. 0 \in S
    BY <1>1
<1>4. ASSUME NEW n \in S PROVE n + 1 \in S
    <2>1. (n + 1) \div 2 \in 0..n /\ n + 1 \in Nat \ {0}
        BY HalvedNumber
    <2>2. Q(n + 1)
        BY <1>2, <2>1
    <2> QED BY <2>2
<1>5. S = Nat
    BY <1>3, <1>4, Induction
<1>6. ASSUME NEW e \in Nat PROVE Q(e)
    <2>1. e \in S
        <3> HIDE DEF S
        <3> QED BY <1>5
    <2>2. e \in 0..e
        OBVIOUS
    <2> QED BY <2>1, <2>2
<1> QED BY <1>6 DEF Q

-----------------------------------------------------------------------------
(***************************************************************************)
(* Division with signs.                                                    *)
(***************************************************************************)
(* Quotients and remainders are numbers.                                   *)
LEMMA QuotientTyped ==
    ASSUME NEW a \in Int, NEW b \in Int, b # 0
    PROVE  Quotient(a, b) \in Int /\ Remainder(a, b) \in Int
<1>1. Abs(a) \in Nat /\ Abs(b) \in Nat \ {0}
    BY DEF Abs
<1>2. Abs(a) \div Abs(b) \in Int
    BY <1>1
<1>3. Quotient(a, b) \in Int
    BY <1>2 DEF Quotient
<1> QED BY <1>3 DEF Remainder

(* A quotient with signs in terms of the naturals k and t that the absolute*)
(* values leave: the sign is that of the two, the remainder has the sign of*)
(* the dividend.                                                           *)
LEMMA Divided ==
    ASSUME NEW a \in Int, NEW b \in Int, b # 0
    PROVE  \E k \in Nat, t \in 0..(Abs(b) - 1) :
              /\ Abs(a) = Abs(b) * k + t
              /\ Quotient(a, b) = IF (a < 0) = (b < 0) THEN k ELSE -k
              /\ Quotient(a, b) * b = IF a < 0 THEN -(Abs(b) * k) ELSE Abs(b) * k
              /\ Remainder(a, b) = IF a < 0 THEN -t ELSE t
<1> DEFINE n == Abs(a)
           d == Abs(b)
           k == n \div d
           t == n % d
           q == Quotient(a, b)
<1>1. n \in Nat /\ d \in Nat \ {0} /\ a = (IF a < 0 THEN -n ELSE n) /\ b = (IF b < 0 THEN -d ELSE d)
    BY DEF Abs
<1>2. q = IF (a < 0) = (b < 0) THEN k ELSE -k
    BY DEF Quotient
<1>4. Remainder(a, b) = a - b * q
    BY DEF Remainder
<1> HIDE DEF n, d, q
<1>3. k \in Nat /\ t \in 0..(d - 1) /\ n = d * k + t
    BY <1>1
<1> HIDE DEF k, t
<1>5. q * b = IF a < 0 THEN -(d * k) ELSE d * k
    BY <1>1, <1>2, <1>3
<1>6. q \in Int /\ b * q = q * b
    BY <1>2, <1>3
<1>7. d * k \in Int
    BY <1>1, <1>3
<1>8. Remainder(a, b) = IF a < 0 THEN -t ELSE t
    BY <1>1, <1>3, <1>4, <1>5, <1>6, <1>7
<1> QED BY <1>2, <1>3, <1>5, <1>8 DEF n, d, q

(* a / b of C drops the fraction, and a % b is what that leaves.           *)
LEMMA QuotientTruncates ==
    ASSUME NEW a \in Int, NEW b \in Int, b # 0
    PROVE  Truncates(Quotient(a, b), a, b) /\ IsRest(Remainder(a, b), a, b)
<1> DEFINE d == Abs(b)
           q == Quotient(a, b)
           r == Remainder(a, b)
<1>1. PICK k \in Nat, t \in 0..(d - 1) :
              /\ Abs(a) = d * k + t
              /\ q * b = IF a < 0 THEN -(d * k) ELSE d * k
              /\ r = IF a < 0 THEN -t ELSE t
    BY Divided
<1>2. d \in Nat \ {0} /\ Abs(a) \in Nat /\ a = IF a < 0 THEN -Abs(a) ELSE Abs(a)
    BY DEF Abs
<1> HIDE DEF d, q, r
<1> DEFINE p == d * k
<1>3. p \in Nat /\ p % d = 0 /\ (-p) % d = 0
    <2>1. p = d * k + 0 /\ -p = d * (-k) + 0 /\ -k \in Int /\ k \in Int /\ 0 \in 0..(d - 1)
        BY <1>2
    <2> QED BY <1>2, <2>1, DivisionUnique
<1> HIDE DEF p
<1>4. Abs(a - q * b) = t /\ Abs(q * b) = p /\ Abs(r) = t
    BY <1>1, <1>2, <1>3 DEF Abs, p
<1>5. t * Abs(a) >= 0
    BY <1>1, <1>2
<1>6. (a - q * b) * a = t * Abs(a) /\ r * a = t * Abs(a)
    <2>1. CASE a < 0
        <3>1. a = -Abs(a) /\ a - q * b = -t /\ r = -t
            BY <1>1, <1>2, <1>3, <2>1 DEF p
        <3>2. \A u, v \in Int : (-u) * (-v) = u * v
            OBVIOUS
        <3> QED BY <1>1, <1>2, <3>1, <3>2
    <2>2. CASE ~(a < 0)
        <3>1. a = Abs(a) /\ a - q * b = t /\ r = t
            BY <1>1, <1>2, <1>3, <2>2 DEF p
        <3> QED BY <3>1
    <2> QED BY <2>1, <2>2
<1>7. a - r = p \/ a - r = -p
    BY <1>1, <1>2, <1>3 DEF p
<1>8. (a - r) % d = 0
    BY <1>3, <1>7
<1>9. t < d /\ p <= Abs(a)
    BY <1>1, <1>2, <1>3 DEF p
<1> QED BY <1>4, <1>5, <1>6, <1>8, <1>9 DEF Truncates, IsRest, d, q, r

(* Unless idiv raises SIGFPE, both are words.                              *)
LEMMA QuotientWord ==
    ASSUME NEW a \in Word, NEW b \in Word, Divides(a, b)
    PROVE  Quotient(a, b) \in Word /\ Remainder(a, b) \in Word
<1> DEFINE d == Abs(b)
           q == Quotient(a, b)
           H == 2^(WordBits - 1)
<1>1. b # 0 /\ a \in Int /\ b \in Int /\ ~(a = Least /\ b = -1)
    BY Sizes DEF Divides
<1>2. PICK k \in Nat, t \in 0..(d - 1) :
              /\ Abs(a) = d * k + t
              /\ q = IF (a < 0) = (b < 0) THEN k ELSE -k
              /\ Remainder(a, b) = IF a < 0 THEN -t ELSE t
    BY <1>1, Divided
<1>3. H \in Nat \ {0} /\ Least = -H /\ Word = (-H)..(H - 1)
    BY SizesAssumption, PowerOfTwo DEF Least, Word
<1> HIDE DEF q, H
<1>4. d \in Nat \ {0} /\ d <= H /\ Abs(a) <= H /\ Abs(a) \in Nat
      /\ (d = 1 => b = 1 \/ b = -1) /\ (Abs(a) = H => a = Least)
    BY <1>1, <1>3 DEF Abs
<1>5. a >= 0 => a < H
    BY <1>3
<1>7. k <= H /\ (k = H => d = 1 /\ Abs(a) = H)
    <2> HIDE DEF d
    <2>0. d * k \in Int /\ t \in Int /\ t >= 0 /\ H \in Int
        BY <1>2, <1>3, <1>4
    <2>1. d * k <= H /\ d * k <= Abs(a)
        BY <1>2, <1>4, <2>0
    <2>2. CASE d = 1
        <3>1. d * k = k
            BY <2>2
        <3>2. k <= Abs(a)
            BY <2>1, <3>1
        <3> QED BY <1>3, <1>4, <2>2, <3>2
    <2>3. CASE d >= 2
        <3>1. 2 * k <= d * k
            BY <1>4, <2>3
        <3>2. k < H
            BY <1>3, <1>4, <2>1, <3>1
        <3> QED BY <1>3, <3>2
    <2> QED BY <1>4, <2>2, <2>3
<1>8. q \in Word
    <2>1. CASE k < H
        BY <1>2, <1>3, <2>1
    <2>2. CASE k = H
        <3>1. a = Least /\ a < 0 /\ b = 1
            BY <1>1, <1>3, <1>4, <1>7, <2>2
        <3>2. q = -k
            BY <1>2, <3>1
        <3> QED BY <1>3, <2>2, <3>2
    <2> QED BY <1>3, <1>7, <2>1, <2>2
<1>9. Remainder(a, b) \in Word
    <2>1. t < H
        BY <1>2, <1>3, <1>4
    <2> QED BY <1>2, <1>3, <2>1
<1> QED BY <1>8, <1>9 DEF q

(* An exact division returns the factor.                                   *)
LEMMA QuotientExact ==
    ASSUME NEW b \in Int, b # 0, NEW k \in Int
    PROVE  Quotient(b * k, b) = k
<1> DEFINE a == b * k
           d == Abs(b)
           m == Abs(k)
<1>1. a \in Int /\ d \in Nat \ {0} /\ m \in Nat
    BY DEF Abs
<1>2. Abs(a) = d * m + 0 /\ (m = 0 \/ ((a < 0) = (b < 0)) = (k > 0))
    <2>1. CASE k = 0
        BY <2>1 DEF Abs
    <2>2. CASE k > 0 /\ b > 0
        <3>1. b * k > 0
            BY <2>2
        <3> QED BY <2>2, <3>1 DEF Abs
    <2>3. CASE k > 0 /\ b < 0
        <3>1. (-b) * k > 0 /\ b * k = -((-b) * k)
            BY <2>3
        <3>2. b * k < 0
            BY <3>1
        <3> QED BY <2>3, <3>1, <3>2 DEF Abs
    <2>4. CASE k < 0 /\ b > 0
        <3>1. b * (-k) > 0 /\ b * k = -(b * (-k))
            BY <2>4
        <3>2. b * k < 0
            BY <3>1
        <3> QED BY <2>4, <3>1, <3>2 DEF Abs
    <2>5. CASE k < 0 /\ b < 0
        <3>1. (-b) * (-k) > 0 /\ b * k = (-b) * (-k)
            BY <2>5
        <3> QED BY <2>5, <3>1 DEF Abs
    <2> QED BY <2>1, <2>2, <2>3, <2>4, <2>5
<1>3. Abs(a) \div d = m
    <2> HIDE DEF a, d, m
    <2> QED BY <1>1, <1>2, DivisionUnique
<1>4. Quotient(a, b) = IF (a < 0) = (b < 0) THEN m ELSE -m
    BY <1>3 DEF Quotient
<1> HIDE DEF a
<1>5. k = IF k > 0 THEN m ELSE -m
    BY DEF Abs
<1> QED BY <1>1, <1>2, <1>4, <1>5 DEF a

(* The quotient of the negated dividend is the negated quotient.           *)
LEMMA QuotientOfNegative ==
    ASSUME NEW a \in Int, NEW b \in Int, b # 0
    PROVE  Quotient(-a, b) = -Quotient(a, b)
<1> DEFINE k == Abs(a) \div Abs(b)
<1>1. Abs(-a) = Abs(a) /\ Abs(a) \in Nat /\ Abs(b) \in Nat \ {0}
    BY DEF Abs
<1>2. k \in Nat
    BY <1>1
<1>3. Quotient(a, b) = (IF (a < 0) = (b < 0) THEN k ELSE -k)
      /\ Quotient(-a, b) = (IF (-a < 0) = (b < 0) THEN k ELSE -k)
    BY <1>1 DEF Quotient
<1>4. a = 0 => k = 0
    <2>1. ASSUME a = 0 PROVE 0 = Abs(b) * 0 + 0 /\ Abs(a) = 0
        BY <1>1, <2>1 DEF Abs
    <2>2. 0 \in 0..(Abs(b) - 1)
        BY <1>1
    <2> QED BY <1>1, <2>1, <2>2, DivisionUnique
<1> HIDE DEF k
<1> QED BY <1>2, <1>3, <1>4

(* SDIV negates the dividend and the result when the signs differ, and so  *)
(* returns the quotient all the same.                                      *)
LEMMA SDivDivides ==
    ASSUME NEW a \in Word, NEW b \in Word, Divides(a, b)
    PROVE  SDiv(a, b) = Quotient(a, b)
<1> DEFINE q == Quotient(a, b)
<1>1. b # 0 /\ a \in Int /\ b \in Int
    BY Sizes DEF Divides
<1>2. q \in Int /\ Remainder(a, b) = a - b * q
    BY <1>1, QuotientTyped DEF Remainder
<1>3. CASE ~MixedSigns(a, b)
    BY <1>3 DEF SDiv
<1>4. CASE MixedSigns(a, b)
    <2>1. SDiv(a, b) = -Quotient(Wrap(-(a - Remainder(a, b))), b)
        BY <1>4 DEF SDiv
    <2>2. PICK k \in Nat, t \in 0..(Abs(b) - 1) :
              /\ Abs(a) = Abs(b) * k + t
              /\ q * b = IF a < 0 THEN -(Abs(b) * k) ELSE Abs(b) * k
              /\ Remainder(a, b) = IF a < 0 THEN -t ELSE t
        BY <1>1, Divided
    <2>3. Remainder(a, b) # 0
        BY <1>4 DEF MixedSigns
    <2> HIDE DEF q
    <2>4. -(a - Remainder(a, b)) = b * (-q)
        BY <1>1, <1>2
    <2>5. b * (-q) \in Word
        <3> DEFINE H == 2^(WordBits - 1)
                   p == Abs(b) * k
        <3>1. H \in Nat \ {0} /\ Word = (-H)..(H - 1)
            BY SizesAssumption, PowerOfTwo DEF Least, Word
        <3>2. Abs(a) \in Nat /\ Abs(a) <= H /\ Abs(b) \in Nat
            BY <1>1, <3>1 DEF Abs
        <3>3. p \in Nat /\ t \in Nat /\ t # 0
            BY <2>2, <2>3, <3>2
        <3>4. b * (-q) = -(q * b)
            BY <1>1, <1>2
        <3> HIDE DEF H
        <3>5. p < H
            BY <2>2, <3>1, <3>2, <3>3
        <3>6. q * b = p \/ q * b = -p
            BY <2>2
        <3> HIDE DEF p
        <3> QED BY <3>1, <3>3, <3>4, <3>5, <3>6
    <2>6. Quotient(b * (-q), b) = -q
        BY <1>1, <1>2, QuotientExact
    <2>7. SDiv(a, b) = -(-q)
        BY <2>1, <2>4, <2>5, <2>6, WrapOfWord
    <2> QED BY <1>2, <2>7 DEF q
<1> QED BY <1>3, <1>4

(* SMOD does the same with the remainder, but for the dividend that cannot *)
(* be negated.                                                             *)
LEMMA SModRests ==
    ASSUME NEW a \in Word, NEW b \in Word, Divides(a, b), a # Least
    PROVE  SMod(a, b) = Remainder(a, b)
<1> DEFINE q == Quotient(a, b)
<1>1. b # 0 /\ a \in Int /\ b \in Int
    BY Sizes DEF Divides
<1>2. q \in Int /\ Remainder(a, b) = a - b * q
    BY <1>1, QuotientTyped DEF Remainder
<1>3. CASE ~MixedSigns(a, b)
    BY <1>3 DEF SMod
<1>4. CASE MixedSigns(a, b)
    <2>1. SMod(a, b) = Quotient(Wrap(-a), b) * b + a
        BY <1>4 DEF SMod
    <2>2. -a \in Word
        BY <1>1, Sizes
    <2>3. Wrap(-a) = -a
        BY <2>2, WrapOfWord
    <2>4. Quotient(-a, b) = -q
        BY <1>1, QuotientOfNegative
    <2>5. SMod(a, b) = (-q) * b + a
        BY <2>1, <2>3, <2>4
    <2> HIDE DEF q
    <2> QED BY <1>1, <1>2, <2>5
<1> QED BY <1>3, <1>4

-----------------------------------------------------------------------------
(***************************************************************************)
(* Shifts.                                                                 *)
(***************************************************************************)
(* Shifts return numbers, and their counts are taken modulo the width.     *)
LEMMA ShiftsTyped ==
    ASSUME NEW a \in Int, NEW n \in Nat
    PROVE  /\ ShiftLeft(a, n) \in Int /\ ShiftRight(a, n) \in Int
           /\ n % WordBits \in 0..(WordBits - 1)
<1>1. n % WordBits \in 0..(WordBits - 1)
    BY Sizes, Division
<1>2. 2^(n % WordBits) \in Nat \ {0}
    BY <1>1, PowerOfTwo
<1>3. a * 2^(n % WordBits) \in Int /\ a \div 2^(n % WordBits) \in Int
    <2> DEFINE p == 2^(n % WordBits)
    <2>1. p \in Nat \ {0}
        BY <1>2
    <2> HIDE DEF p
    <2>2. a * p \in Int /\ a \div p \in Int
        BY <2>1
    <2> QED BY <2>2 DEF p
<1>4. Wrap(a * 2^(n % WordBits)) \in Int
    BY <1>3, WrapWord
<1> QED BY <1>1, <1>3, <1>4 DEF ShiftLeft, ShiftRight

(* A shift to the right divides by the power of two and drops the fraction;*)
(* what it returns is a word.                                              *)
LEMMA ShiftedRight ==
    ASSUME NEW y \in Word, NEW n \in Nat
    PROVE  /\ y \div 2^n \in Word
           /\ (y \div 2^n) * 2^n <= y /\ y < ((y \div 2^n) + 1) * 2^n
<1> DEFINE p == 2^n
           q == y \div p
           r == y % p
           H == 2^(WordBits - 1)
<1>1. p \in Nat \ {0} /\ H \in Nat \ {0} /\ Word = (-H)..(H - 1) /\ y \in Int
    BY SizesAssumption, PowerOfTwo, Sizes DEF Least, Word
<1> HIDE DEF p, H
<1>2. q \in Int /\ r \in 0..(p - 1) /\ y = p * q + r
    BY <1>1, Division
<1> HIDE DEF q, r
<1>3. q * p <= y /\ y < (q + 1) * p
    BY <1>1, <1>2
<1>4. q \in Word
    <2>1. CASE q >= 0
        <3>1. q <= q * p
            BY <1>1, <1>2, <2>1
        <3> QED BY <1>1, <1>2, <1>3, <2>1, <3>1
    <2>2. CASE q < 0
        <3>1. q + 1 >= (q + 1) * p
            <4>1. -q - 1 \in Nat /\ -q - 1 <= (-q - 1) * p
                BY <1>1, <1>2, <2>2
            <4>2. (-q - 1) * p = -((q + 1) * p) /\ (q + 1) * p \in Int
                BY <1>1, <1>2
            <4> QED BY <1>2, <4>1, <4>2
        <3>2. y < q + 1
            BY <1>1, <1>2, <1>3, <3>1
        <3> QED BY <1>1, <1>2, <2>2, <3>2
    <2> QED BY <1>2, <2>1, <2>2
<1> QED BY <1>3, <1>4 DEF q, p

-----------------------------------------------------------------------------
(***************************************************************************)
(* What Compute returns, one lemma for each kind of instruction, and that  *)
(* it is a word.                                                           *)
(***************************************************************************)
(* ADD, MUL and SUB.                                                       *)
LEMMA ComputeArithmetic ==
    ASSUME NEW s
    PROVE  /\ Compute(Op.ADD, s) = <<Wrap(s[2] + s[1])>>
           /\ Compute(Op.MUL, s) = <<Wrap(s[2] * s[1])>>
           /\ Compute(Op.SUB, s) = <<Wrap(s[2] - s[1])>>
<1>1. Compute(Op.ADD, s) = <<Wrap(s[2] + s[1])>>
    BY DEF Compute, Op
<1>2. Compute(Op.MUL, s) = <<Wrap(s[2] * s[1])>>
    BY DEF Compute, Op
<1>3. Compute(Op.SUB, s) = <<Wrap(s[2] - s[1])>>
    BY DEF Compute, Op
<1> QED BY <1>1, <1>2, <1>3

(* DIV, SDIV, MOD and SMOD.                                                *)
LEMMA ComputeDivision ==
    ASSUME NEW s
    PROVE  /\ Compute(Op.DIV, s) =
                 IF Divides(s[2], s[1]) THEN <<Wrap(Quotient(s[2], s[1]))>> ELSE <<>>
           /\ Compute(Op.SDIV, s) =
                 IF Divides(s[2], s[1]) THEN <<Wrap(SDiv(s[2], s[1]))>> ELSE <<>>
           /\ Compute(Op.MOD, s) =
                 IF Divides(s[2], s[1]) THEN <<Wrap(Remainder(s[2], s[1]))>> ELSE <<>>
           /\ Compute(Op.SMOD, s) =
                 IF Divides(s[2], s[1]) THEN <<Wrap(SMod(s[2], s[1]))>> ELSE <<>>
<1>1. Compute(Op.DIV, s) =
          IF Divides(s[2], s[1]) THEN <<Wrap(Quotient(s[2], s[1]))>> ELSE <<>>
    BY DEF Compute, Op
<1>2. Compute(Op.SDIV, s) =
          IF Divides(s[2], s[1]) THEN <<Wrap(SDiv(s[2], s[1]))>> ELSE <<>>
    BY DEF Compute, Op
<1>3. Compute(Op.MOD, s) =
          IF Divides(s[2], s[1]) THEN <<Wrap(Remainder(s[2], s[1]))>> ELSE <<>>
    BY DEF Compute, Op
<1>4. Compute(Op.SMOD, s) =
          IF Divides(s[2], s[1]) THEN <<Wrap(SMod(s[2], s[1]))>> ELSE <<>>
    BY DEF Compute, Op
<1> QED BY <1>1, <1>2, <1>3, <1>4

(* AND, OR and XOR.                                                        *)
LEMMA ComputeBits ==
    ASSUME NEW s
    PROVE  /\ Compute(Op.AND, s) =
                 <<OfBits([i \in 0..(WordBits - 1) |-> Bit(s[1], i) * Bit(Half(s[2]), i)])>>
           /\ Compute(Op.OR, s) =
                 <<OfBits([i \in 0..(WordBits - 1) |->
                              Flag(Bit(s[1], i) + Bit(Half(s[2]), i) > 0)])>>
           /\ Compute(Op.XOR, s) =
                 <<OfBits([i \in 0..(WordBits - 1) |->
                              (Bit(s[1], i) + Bit(Half(s[2]), i)) % 2])>>
<1>1. Compute(Op.AND, s) =
                 <<OfBits([i \in 0..(WordBits - 1) |-> Bit(s[1], i) * Bit(Half(s[2]), i)])>>
    BY DEF Compute, Op
<1>2. Compute(Op.OR, s) =
                 <<OfBits([i \in 0..(WordBits - 1) |->
                              Flag(Bit(s[1], i) + Bit(Half(s[2]), i) > 0)])>>
    BY DEF Compute, Op
<1>3. Compute(Op.XOR, s) =
                 <<OfBits([i \in 0..(WordBits - 1) |->
                              (Bit(s[1], i) + Bit(Half(s[2]), i)) % 2])>>
    BY DEF Compute, Op
<1> QED BY <1>1, <1>2, <1>3

(* ADDMOD, MULMOD, EXP, SIGNEXTEND, ISZERO and NOT.                        *)
LEMMA ComputeMore ==
    ASSUME NEW s
    PROVE  /\ Compute(Op.ADDMOD, s) = LET v == Wrap(s[3] + s[2]) IN
                 IF Divides(v, s[1]) THEN <<Wrap(Remainder(v, s[1]))>> ELSE <<>>
           /\ Compute(Op.MULMOD, s) = LET v == Wrap(s[3] * s[2]) IN
                 IF Divides(v, s[1]) THEN <<Wrap(Remainder(v, s[1]))>> ELSE <<>>
           /\ Compute(Op.EXP, s) = Power[IF s[1] < 0 THEN 0 ELSE s[1]][<<1, s[2]>>]
           /\ Compute(Op.SIGNEXTEND, s) =
                 <<Wrap(IF Bit(s[1], HalfBits - 1) = 1 THEN s[2] % 2^(Half(s[1]) % HalfBits)
                        ELSE s[2])>>
           /\ Compute(Op.ISZERO, s) = <<Wrap(Flag(s[1] = 0))>>
           /\ Compute(Op.NOT, s) = <<Wrap(-s[1] - 1)>>
<1>1. Compute(Op.ADDMOD, s) = LET v == Wrap(s[3] + s[2]) IN
                 IF Divides(v, s[1]) THEN <<Wrap(Remainder(v, s[1]))>> ELSE <<>>
    BY DEF Compute, Op
<1>2. Compute(Op.MULMOD, s) = LET v == Wrap(s[3] * s[2]) IN
                 IF Divides(v, s[1]) THEN <<Wrap(Remainder(v, s[1]))>> ELSE <<>>
    BY DEF Compute, Op
<1>3. Compute(Op.EXP, s) = Power[IF s[1] < 0 THEN 0 ELSE s[1]][<<1, s[2]>>]
    BY DEF Compute, Op
<1>4. Compute(Op.SIGNEXTEND, s) =
                 <<Wrap(IF Bit(s[1], HalfBits - 1) = 1 THEN s[2] % 2^(Half(s[1]) % HalfBits)
                        ELSE s[2])>>
    BY DEF Compute, Op
<1>5. Compute(Op.ISZERO, s) = <<Wrap(Flag(s[1] = 0))>>
    BY DEF Compute, Op
<1>6. Compute(Op.NOT, s) = <<Wrap(-s[1] - 1)>>
    BY DEF Compute, Op
<1> QED BY <1>1, <1>2, <1>3, <1>4, <1>5, <1>6

(* The comparisons.                                                        *)
LEMMA ComputeComparisons ==
    ASSUME NEW s
    PROVE  /\ \A op \in {Op.LT, Op.SLT} : Compute(op, s) = <<Wrap(Flag(s[2] < Half(s[1])))>>
           /\ \A op \in {Op.GT, Op.SGT} : Compute(op, s) = <<Wrap(Flag(s[2] > Half(s[1])))>>
           /\ Compute(Op.EQ, s) = <<Wrap(Flag(s[1] = Half(s[2])))>>
<1>1. \A op \in {Op.LT, Op.SLT} : Compute(op, s) = <<Wrap(Flag(s[2] < Half(s[1])))>>
    BY DEF Compute, Op
<1>2. \A op \in {Op.GT, Op.SGT} : Compute(op, s) = <<Wrap(Flag(s[2] > Half(s[1])))>>
    BY DEF Compute, Op
<1>3. Compute(Op.EQ, s) = <<Wrap(Flag(s[1] = Half(s[2])))>>
    BY DEF Compute, Op
<1> QED BY <1>1, <1>2, <1>3

(* BYTE and the shifts.                                                    *)
LEMMA ComputeShifts ==
    ASSUME NEW s
    PROVE  /\ Compute(Op.BYTE, s) = IF Half(s[1]) < ByteLimit
                 THEN <<Wrap(ShiftRight(s[2], 8 * Half(s[1])) % 256)>> ELSE <<>>
           /\ Compute(Op.SHL, s) =
                 <<Wrap(IF Half(s[1]) > ShiftLimit THEN 0 ELSE ShiftLeft(s[2], Half(s[1])))>>
           /\ Compute(Op.SHR, s) =
                 <<Wrap(IF Half(s[1]) > ShiftLimit THEN 0 ELSE ShiftRight(s[2], Half(s[1])))>>
           /\ Compute(Op.SAR, s) =
                 <<Wrap(IF Half(s[1]) > WordBits - 1 THEN IF s[2] < 0 THEN Least ELSE 0
                        ELSE ShiftRight(s[2], Half(s[1])))>>
<1>1. Compute(Op.BYTE, s) = IF Half(s[1]) < ByteLimit
                 THEN <<Wrap(ShiftRight(s[2], 8 * Half(s[1])) % 256)>> ELSE <<>>
    BY DEF Compute, Op
<1>2. Compute(Op.SHL, s) =
                 <<Wrap(IF Half(s[1]) > ShiftLimit THEN 0 ELSE ShiftLeft(s[2], Half(s[1])))>>
    BY DEF Compute, Op
<1>3. Compute(Op.SHR, s) =
                 <<Wrap(IF Half(s[1]) > ShiftLimit THEN 0 ELSE ShiftRight(s[2], Half(s[1])))>>
    BY DEF Compute, Op
<1>4. Compute(Op.SAR, s) =
                 <<Wrap(IF Half(s[1]) > WordBits - 1 THEN IF s[2] < 0 THEN Least ELSE 0
                        ELSE ShiftRight(s[2], Half(s[1])))>>
    BY DEF Compute, Op
<1> QED BY <1>1, <1>2, <1>3, <1>4

(* These are all that calculate.                                           *)
LEMMA EachCalculation ==
    ASSUME NEW op \in Calculations
    PROVE  \/ op \in {Op.ADD, Op.MUL, Op.SUB}
           \/ op \in {Op.DIV, Op.SDIV, Op.MOD, Op.SMOD}
           \/ op \in {Op.ADDMOD, Op.MULMOD}
           \/ op \in {Op.EXP, Op.SIGNEXTEND}
           \/ op \in {Op.LT, Op.SLT, Op.GT, Op.SGT, Op.EQ}
           \/ op \in {Op.ISZERO, Op.NOT}
           \/ op \in {Op.AND, Op.OR, Op.XOR}
           \/ op \in {Op.BYTE, Op.SHL, Op.SHR, Op.SAR}
BY DEF Calculations, Unary, Binary, Ternary, Op

(* How many items each of them pops.                                       *)
LEMMA PopsOf ==
    /\ \A op \in {Op.ISZERO, Op.NOT} : Pops(op) = 1
    /\ \A op \in {Op.ADDMOD, Op.MULMOD} : Pops(op) = 3
    /\ \A op \in Calculations \ {Op.ISZERO, Op.NOT, Op.ADDMOD, Op.MULMOD} : Pops(op) = 2
<1>1. \A op \in {Op.ISZERO, Op.NOT} : Pops(op) = 1
    BY DEF Pops, Unary, Binary, Ternary, Logs, Op
<1>2. \A op \in {Op.ADDMOD, Op.MULMOD} : Pops(op) = 3
    BY DEF Pops, Unary, Binary, Ternary, Logs, Op
<1>3. \A op \in Binary : Pops(op) = 2
    BY DEF Pops, Unary, Binary, Ternary, Logs, Op
<1>4. Calculations \ {Op.ISZERO, Op.NOT, Op.ADDMOD, Op.MULMOD} \subseteq Binary
    BY DEF Calculations, Unary, Ternary
<1> QED BY <1>1, <1>2, <1>3, <1>4

(* Every calculation on words returns nothing or a word.                   *)
LEMMA ComputeTyped ==
    ASSUME NEW op \in Calculations, NEW s \in [1..Pops(op) -> Word]
    PROVE  Compute(op, s) \in Outcomes
<1> DEFINE x == s[1]
           y == s[2]
           z == s[3]
<1>0. Word \subseteq Int /\ 0 \in Word /\ 1 \in Word /\ Least \in Int
    BY Sizes
<1>1. <<>> \in Outcomes /\ \A v \in Int : <<Wrap(v)>> \in Outcomes
    BY WrapWord DEF Outcomes
<1>p. Pops(op) \in 1..3 /\ (op \notin {Op.ISZERO, Op.NOT} => Pops(op) \in 2..3)
      /\ (op \in {Op.ADDMOD, Op.MULMOD} => Pops(op) = 3)
    BY PopsOf
<1>2. x \in Word /\ x \in Int /\ Half(x) \in Nat
    <2>1. 1 \in 1..Pops(op)
        BY <1>p
    <2>2. x \in Word
        BY <2>1
    <2> HIDE DEF x
    <2> QED BY <1>0, <2>2, HalfTyped
<1>3. ASSUME op \notin {Op.ISZERO, Op.NOT} PROVE y \in Word /\ y \in Int /\ Half(y) \in Nat
    <2>1. 2 \in 1..Pops(op)
        BY <1>3, <1>p
    <2>2. y \in Word
        BY <2>1
    <2> HIDE DEF y
    <2> QED BY <1>0, <2>2, HalfTyped
<1>4. CASE op \in {Op.ADD, Op.MUL, Op.SUB}
    <2>1. y \in Int
        BY <1>3, <1>4 DEF Op
    <2>2. y + x \in Int /\ y * x \in Int /\ y - x \in Int
        BY <1>2, <2>1
    <2> HIDE DEF x, y
    <2> QED BY <1>1, <1>4, <2>2, ComputeArithmetic DEF x, y
<1>5. CASE op \in {Op.DIV, Op.SDIV, Op.MOD, Op.SMOD}
    <2>1. y \in Int
        BY <1>3, <1>5 DEF Op
    <2>2. CASE ~Divides(y, x)
        <3> QED BY <1>1, <1>5, <2>2, ComputeDivision
    <2> SUFFICES ASSUME Divides(y, x) PROVE Compute(op, s) \in Outcomes
        BY <2>2
    <2>3. x # 0
        BY DEF Divides
    <2>4. Quotient(y, x) \in Int /\ Remainder(y, x) \in Int
        BY <1>2, <2>1, <2>3, QuotientTyped
    <2>5. SDiv(y, x) \in Int
        <3>0. -(y - Remainder(y, x)) \in Int
            BY <2>1, <2>4
        <3>1. Wrap(-(y - Remainder(y, x))) \in Int
            BY <3>0, WrapWord
        <3>2. Quotient(Wrap(-(y - Remainder(y, x))), x) \in Int
            BY <1>2, <2>3, <3>1, QuotientTyped
        <3> QED BY <2>4, <3>2 DEF SDiv
    <2>6. SMod(y, x) \in Int
        <3>1. Wrap(-y) \in Int
            BY <2>1, WrapWord
        <3>2. Quotient(Wrap(-y), x) \in Int
            BY <1>2, <2>3, <3>1, QuotientTyped
        <3> QED BY <1>2, <2>1, <2>4, <3>2 DEF SMod
    <2> HIDE DEF x, y
    <2> QED BY <1>1, <1>5, <2>4, <2>5, <2>6, ComputeDivision DEF x, y
<1>6. CASE op \in {Op.ADDMOD, Op.MULMOD}
    <2>1. y \in Int /\ z \in Int
        <3>1. 2 \in 1..Pops(op) /\ 3 \in 1..Pops(op)
            BY <1>6, <1>p
        <3>2. y \in Word /\ z \in Word
            BY <3>1
        <3> QED BY <1>0, <3>2
    <2>2. z + y \in Int /\ z * y \in Int
        BY <2>1
    <2>3. Wrap(z + y) \in Int /\ Wrap(z * y) \in Int
        BY <2>2, WrapWord
    <2>4. ASSUME NEW v \in Int, Divides(v, x) PROVE Remainder(v, x) \in Int
        <3>1. x # 0
            BY <2>4 DEF Divides
        <3> QED BY <1>2, <2>4, <3>1, QuotientTyped
    <2> HIDE DEF x, y, z
    <2>5. CASE op = Op.ADDMOD
        <3>1. Compute(op, s) = IF Divides(Wrap(z + y), x)
                               THEN <<Wrap(Remainder(Wrap(z + y), x))>> ELSE <<>>
            BY <2>5, ComputeMore DEF x, y, z
        <3> QED BY <1>1, <2>3, <2>4, <3>1
    <2>6. CASE op = Op.MULMOD
        <3>1. Compute(op, s) = IF Divides(Wrap(z * y), x)
                               THEN <<Wrap(Remainder(Wrap(z * y), x))>> ELSE <<>>
            BY <2>6, ComputeMore DEF x, y, z
        <3> QED BY <1>1, <2>3, <2>4, <3>1
    <2> QED BY <1>6, <2>5, <2>6
<1>7. CASE op = Op.EXP
    <2> DEFINE e == IF x < 0 THEN 0 ELSE x
    <2>1. y \in Word
        BY <1>3, <1>7 DEF Op
    <2>2. e \in Nat
        BY <1>2
    <2>3. Compute(op, s) = Power[e][<<1, y>>]
        BY <1>7, ComputeMore
    <2> HIDE DEF x, y, e
    <2>4. \/ Power[e][<<1, y>>] = <<>>
          \/ \E w \in Word : Power[e][<<1, y>>] = <<w>>
        BY <1>0, <2>1, <2>2, PowerRaises
    <2> QED BY <2>3, <2>4 DEF Outcomes
<1>8. CASE op = Op.SIGNEXTEND
    <2> DEFINE p == 2^(Half(x) % HalfBits)
               v == IF Bit(x, HalfBits - 1) = 1 THEN y % p ELSE y
    <2>1. y \in Int
        BY <1>3, <1>8 DEF Op
    <2>2. Half(x) % HalfBits \in Nat
        BY <1>2, SizesAssumption, Division
    <2>3. p \in Nat \ {0}
        BY <2>2, PowerOfTwo
    <2>4. Compute(op, s) = <<Wrap(v)>>
        BY <1>8, ComputeMore
    <2> HIDE DEF p, y
    <2>5. y % p \in Int
        BY <2>1, <2>3, Division
    <2>6. v \in Int
        BY <2>1, <2>5
    <2> HIDE DEF v
    <2> QED BY <1>1, <2>4, <2>6
<1>9. CASE op \in {Op.LT, Op.SLT, Op.GT, Op.SGT, Op.EQ}
    <2>1. /\ Flag(y < Half(x)) \in Int /\ Flag(y > Half(x)) \in Int
          /\ Flag(x = Half(y)) \in Int
        BY FlagTyped
    <2>2. Compute(op, s) \in {<<Wrap(Flag(y < Half(x)))>>, <<Wrap(Flag(y > Half(x)))>>,
                               <<Wrap(Flag(x = Half(y)))>>}
        BY <1>9, ComputeComparisons
    <2> QED BY <1>1, <2>1, <2>2
<1>10. CASE op \in {Op.ISZERO, Op.NOT}
    <2>1. Flag(x = 0) \in Int /\ -x - 1 \in Int
        BY <1>2, FlagTyped
    <2> QED BY <1>1, <1>10, <2>1, ComputeMore
<1>11. CASE op \in {Op.AND, Op.OR, Op.XOR}
    <2>1. ASSUME NEW i \in 0..(WordBits - 1)
          PROVE  Bit(x, i) \in {0, 1} /\ Bit(Half(y), i) \in {0, 1}
        <3>1. Half(y) \in Int /\ i \in Nat
            BY <1>3, <1>11 DEF Op
        <3> QED BY <1>2, <3>1, BitTyped
    <2> DEFINE And == [i \in 0..(WordBits - 1) |-> Bit(x, i) * Bit(Half(y), i)]
               Or == [i \in 0..(WordBits - 1) |-> Flag(Bit(x, i) + Bit(Half(y), i) > 0)]
               Xor == [i \in 0..(WordBits - 1) |-> (Bit(x, i) + Bit(Half(y), i)) % 2]
    <2>2. \A p, q \in {0, 1} : /\ p * q \in {0, 1} /\ Flag(p + q > 0) \in {0, 1}
                               /\ (p + q) % 2 \in {0, 1}
        BY DEF Flag
    <2>3. /\ And \in [0..(WordBits - 1) -> {0, 1}]
          /\ Or \in [0..(WordBits - 1) -> {0, 1}]
          /\ Xor \in [0..(WordBits - 1) -> {0, 1}]
        BY <2>1, <2>2
    <2>4. Compute(op, s) \in {<<OfBits(And)>>, <<OfBits(Or)>>, <<OfBits(Xor)>>}
        BY <1>11, ComputeBits
    <2> HIDE DEF And, Or, Xor
    <2> QED BY <2>3, <2>4, BitsOfWord DEF Outcomes
<1>12. CASE op = Op.BYTE
    <2>1. y \in Int
        BY <1>3, <1>12 DEF Op
    <2>2. 8 * Half(x) \in Nat
        BY <1>2
    <2>3. ShiftRight(y, 8 * Half(x)) \in Int
        BY <2>1, <2>2, ShiftsTyped
    <2>4. ShiftRight(y, 8 * Half(x)) % 256 \in Int
        BY <2>3
    <2> HIDE DEF x, y
    <2> QED BY <1>1, <1>12, <2>4, ComputeShifts DEF x, y
<1>13. CASE op \in {Op.SHL, Op.SHR, Op.SAR}
    <2>1. y \in Int
        BY <1>3, <1>13 DEF Op
    <2>2. ShiftLeft(y, Half(x)) \in Int /\ ShiftRight(y, Half(x)) \in Int
        BY <1>2, <2>1, ShiftsTyped
    <2> DEFINE l == IF Half(x) > ShiftLimit THEN 0 ELSE ShiftLeft(y, Half(x))
               r == IF Half(x) > ShiftLimit THEN 0 ELSE ShiftRight(y, Half(x))
               a == IF Half(x) > WordBits - 1 THEN IF y < 0 THEN Least ELSE 0
                    ELSE ShiftRight(y, Half(x))
    <2>3. l \in Int /\ r \in Int /\ a \in Int
        BY <1>0, <2>2
    <2>4. Compute(op, s) \in {<<Wrap(l)>>, <<Wrap(r)>>, <<Wrap(a)>>}
        BY <1>13, ComputeShifts
    <2> HIDE DEF l, r, a
    <2> QED BY <1>1, <2>3, <2>4
<1> QED BY <1>4, <1>5, <1>6, <1>7, <1>8, <1>9, <1>10, <1>11, <1>12, <1>13, EachCalculation

-----------------------------------------------------------------------------
(***************************************************************************)
(* What the table of instructions asks for, and that Compute returns it.   *)
(***************************************************************************)
(* What is asked of arithmetic.                                            *)
LEMMA FollowsNumbers ==
    ASSUME NEW s, NEW r
    PROVE  /\ Follows(Op.ADD, s, r) <=> Congruent(r, s[2] + s[1])
           /\ Follows(Op.MUL, s, r) <=> Congruent(r, s[2] * s[1])
           /\ Follows(Op.SUB, s, r) <=> Congruent(r, s[2] - s[1])
           /\ Follows(Op.DIV, s, r) <=>
                 Truncates(Unsigned(r), Unsigned(s[2]), Unsigned(s[1]))
           /\ Follows(Op.SDIV, s, r) <=> Truncates(r, s[2], s[1])
           /\ Follows(Op.MOD, s, r) <=> IsRest(Unsigned(r), Unsigned(s[2]), Unsigned(s[1]))
           /\ Follows(Op.SMOD, s, r) <=> IsRest(r, s[2], s[1])
           /\ Follows(Op.ADDMOD, s, r) <=> IsRest(r, s[3] + s[2], s[1])
           /\ Follows(Op.MULMOD, s, r) <=> IsRest(r, s[3] * s[2], s[1])
           /\ Follows(Op.EXP, s, r) <=> r = Raised[Unsigned(s[1])][s[2]]
<1>1. Follows(Op.ADD, s, r) <=> Congruent(r, s[2] + s[1])
    BY DEF Follows, Op
<1>2. Follows(Op.MUL, s, r) <=> Congruent(r, s[2] * s[1])
    BY DEF Follows, Op
<1>3. Follows(Op.SUB, s, r) <=> Congruent(r, s[2] - s[1])
    BY DEF Follows, Op
<1>4. Follows(Op.DIV, s, r) <=> Truncates(Unsigned(r), Unsigned(s[2]), Unsigned(s[1]))
    BY DEF Follows, Op
<1>5. Follows(Op.SDIV, s, r) <=> Truncates(r, s[2], s[1])
    BY DEF Follows, Op
<1>6. Follows(Op.MOD, s, r) <=> IsRest(Unsigned(r), Unsigned(s[2]), Unsigned(s[1]))
    BY DEF Follows, Op
<1>7. Follows(Op.SMOD, s, r) <=> IsRest(r, s[2], s[1])
    BY DEF Follows, Op
<1>8. Follows(Op.ADDMOD, s, r) <=> IsRest(r, s[3] + s[2], s[1])
    BY DEF Follows, Op
<1>9. Follows(Op.MULMOD, s, r) <=> IsRest(r, s[3] * s[2], s[1])
    BY DEF Follows, Op
<1>10. Follows(Op.EXP, s, r) <=> r = Raised[Unsigned(s[1])][s[2]]
    BY DEF Follows, Op
<1> QED BY <1>1, <1>2, <1>3, <1>4, <1>5, <1>6, <1>7, <1>8, <1>9, <1>10

(* What is asked of comparisons, bitwise operations and shifts.            *)
LEMMA FollowsOthers ==
    ASSUME NEW s, NEW r
    PROVE  /\ Follows(Op.LT, s, r) <=> r = Flag(Unsigned(s[2]) < Unsigned(s[1]))
           /\ Follows(Op.SLT, s, r) <=> r = Flag(s[2] < s[1])
           /\ Follows(Op.GT, s, r) <=> r = Flag(Unsigned(s[2]) > Unsigned(s[1]))
           /\ Follows(Op.SGT, s, r) <=> r = Flag(s[2] > s[1])
           /\ Follows(Op.EQ, s, r) <=> r = Flag(s[1] = s[2])
           /\ Follows(Op.ISZERO, s, r) <=> r = Flag(s[1] = 0)
           /\ Follows(Op.NOT, s, r) <=> \A i \in 0..(WordBits - 1) : Bit(r, i) # Bit(s[1], i)
           /\ Follows(Op.AND, s, r) <=>
                 \A i \in 0..(WordBits - 1) : Bit(r, i) = Bit(s[1], i) * Bit(s[2], i)
           /\ Follows(Op.OR, s, r) <=>
                 \A i \in 0..(WordBits - 1) :
                     Bit(r, i) = 1 - (1 - Bit(s[1], i)) * (1 - Bit(s[2], i))
           /\ Follows(Op.XOR, s, r) <=>
                 \A i \in 0..(WordBits - 1) : Bit(r, i) = Flag(Bit(s[1], i) # Bit(s[2], i))
           /\ Follows(Op.SHL, s, r) <=> Congruent(r, s[2] * 2^s[1])
           /\ Follows(Op.SHR, s, r) <=> IsShifted(Unsigned(r), Unsigned(s[2]), s[1])
           /\ Follows(Op.SAR, s, r) <=> IsShifted(r, s[2], s[1])
<1>1. Follows(Op.LT, s, r) <=> r = Flag(Unsigned(s[2]) < Unsigned(s[1]))
    BY DEF Follows, Op
<1>2. Follows(Op.SLT, s, r) <=> r = Flag(s[2] < s[1])
    BY DEF Follows, Op
<1>3. Follows(Op.GT, s, r) <=> r = Flag(Unsigned(s[2]) > Unsigned(s[1]))
    BY DEF Follows, Op
<1>4. Follows(Op.SGT, s, r) <=> r = Flag(s[2] > s[1])
    BY DEF Follows, Op
<1>5. Follows(Op.EQ, s, r) <=> r = Flag(s[1] = s[2])
    BY DEF Follows, Op
<1>6. Follows(Op.ISZERO, s, r) <=> r = Flag(s[1] = 0)
    BY DEF Follows, Op
<1>7. Follows(Op.NOT, s, r) <=> \A i \in 0..(WordBits - 1) : Bit(r, i) # Bit(s[1], i)
    BY DEF Follows, Op
<1>8. Follows(Op.AND, s, r) <=>
          \A i \in 0..(WordBits - 1) : Bit(r, i) = Bit(s[1], i) * Bit(s[2], i)
    BY DEF Follows, Op
<1>9. Follows(Op.OR, s, r) <=>
          \A i \in 0..(WordBits - 1) : Bit(r, i) = 1 - (1 - Bit(s[1], i)) * (1 - Bit(s[2], i))
    BY DEF Follows, Op
<1>10. Follows(Op.XOR, s, r) <=>
          \A i \in 0..(WordBits - 1) : Bit(r, i) = Flag(Bit(s[1], i) # Bit(s[2], i))
    BY DEF Follows, Op
<1>11. Follows(Op.SHL, s, r) <=> Congruent(r, s[2] * 2^s[1])
    BY DEF Follows, Op
<1>12. Follows(Op.SHR, s, r) <=> IsShifted(Unsigned(r), Unsigned(s[2]), s[1])
    BY DEF Follows, Op
<1>13. Follows(Op.SAR, s, r) <=> IsShifted(r, s[2], s[1])
    BY DEF Follows, Op
<1> QED BY <1>1, <1>2, <1>3, <1>4, <1>5, <1>6, <1>7, <1>8, <1>9, <1>10, <1>11, <1>12, <1>13

(* The operands the table is followed for.                                 *)
LEMMA PlainCases ==
    ASSUME NEW op, NEW s, Plain(op, s)
    PROVE  /\ op \in {Op.DIV, Op.MOD} => s[1] >= 0 /\ s[2] >= 0
           /\ op = Op.EXP => s[1] >= 0
           /\ op \in {Op.LT, Op.GT, Op.SLT, Op.SGT} => s[1] = Half(s[1])
           /\ op \in {Op.LT, Op.GT, Op.SHR} => s[2] >= 0
           /\ op \in {Op.EQ, Op.AND, Op.OR, Op.XOR} => s[2] = Half(s[2])
           /\ op \in {Op.SHL, Op.SHR, Op.SAR} => s[1] \in 0..(WordBits - 1)
           /\ op = Op.SMOD => s[2] # Least
           /\ op = Op.ADDMOD => s[3] + s[2] \in Word
           /\ op = Op.MULMOD => s[3] * s[2] \in Word
           /\ op \notin {Op.BYTE, Op.SIGNEXTEND}
BY DEF Plain, Op

(* A word that is not negative is the same number as a uint.               *)
LEMMA UnsignedOf ==
    ASSUME NEW x \in Word, x >= 0
    PROVE  Unsigned(x) = x
<1> DEFINE m == 2^WordBits
<1>1. m \in Nat \ {0} /\ x \in Int /\ x \in 0..(m - 1)
    BY Sizes
<1> HIDE DEF m
<1>2. x = m * 0 + x
    BY <1>1
<1>3. x % m = x
    BY <1>1, <1>2, DivisionUnique
<1> QED BY <1>3 DEF Unsigned, m

(* Of such words the quotient and the remainder are such words.            *)
LEMMA QuotientPositive ==
    ASSUME NEW a \in Int, NEW b \in Int, a >= 0, b > 0
    PROVE  Quotient(a, b) >= 0 /\ Remainder(a, b) >= 0
<1>1. Abs(a) = a /\ Abs(b) = b
    BY DEF Abs
<1>2. a \div b \in Int /\ a % b \in 0..(b - 1) /\ a = b * (a \div b) + (a % b)
    BY Division
<1> DEFINE q == a \div b
           r == a % b
<1>3. q \in Int /\ r \in 0..(b - 1) /\ a = b * q + r
    BY <1>2
<1>4. Quotient(a, b) = q
    BY <1>1 DEF Quotient
<1> HIDE DEF q, r
<1>5. q >= 0
    <2> SUFFICES ASSUME q <= -1 PROVE FALSE
        BY <1>3
    <2>1. b * q <= b * (-1) /\ b * (-1) = -b
        BY <1>3
    <2> QED BY <1>3, <2>1
<1>6. Remainder(a, b) = a - b * q
    BY <1>4 DEF Remainder
<1>7. b * q \in Int
    BY <1>3
<1> QED BY <1>3, <1>4, <1>5, <1>6, <1>7

(* Sums, products and differences are right up to wrapping.                *)
LEMMA ArithmeticFollows ==
    ASSUME NEW op \in {Op.ADD, Op.MUL, Op.SUB}, NEW s, s[1] \in Int, s[2] \in Int,
           NEW w, Compute(op, s) = <<w>>
    PROVE  Follows(op, s, w)
<1>1. s[2] + s[1] \in Int /\ s[2] * s[1] \in Int /\ s[2] - s[1] \in Int
    <2> DEFINE x == s[1]
               y == s[2]
    <2>1. x \in Int /\ y \in Int
        OBVIOUS
    <2> HIDE DEF x, y
    <2>2. y + x \in Int /\ y * x \in Int /\ y - x \in Int
        BY <2>1
    <2> QED BY <2>2 DEF x, y
<1>2. CASE op = Op.ADD
    <2>1. w = Wrap(s[2] + s[1])
        BY <1>2, ComputeArithmetic
    <2> QED BY <1>1, <1>2, <2>1, WrapCongruent, FollowsNumbers
<1>3. CASE op = Op.MUL
    <2>1. w = Wrap(s[2] * s[1])
        BY <1>3, ComputeArithmetic
    <2> QED BY <1>1, <1>3, <2>1, WrapCongruent, FollowsNumbers
<1>4. CASE op = Op.SUB
    <2>1. w = Wrap(s[2] - s[1])
        BY <1>4, ComputeArithmetic
    <2> QED BY <1>1, <1>4, <2>1, WrapCongruent, FollowsNumbers
<1> QED BY <1>2, <1>3, <1>4

(* Quotients and remainders are those of truncated division.               *)
LEMMA DivisionFollows ==
    ASSUME NEW op \in {Op.DIV, Op.SDIV, Op.MOD, Op.SMOD}, NEW s,
           s[1] \in Word, s[2] \in Word, Plain(op, s), NEW w, Compute(op, s) = <<w>>
    PROVE  Follows(op, s, w)
<1>1. Divides(s[2], s[1])
    <2> SUFFICES ASSUME ~Divides(s[2], s[1]) PROVE Compute(op, s) = <<>>
        OBVIOUS
    <2> QED BY ComputeDivision
<1>2. s[1] \in Int /\ s[2] \in Int /\ s[1] # 0
    BY <1>1, Sizes DEF Divides
<1>3. Quotient(s[2], s[1]) \in Word /\ Remainder(s[2], s[1]) \in Word
    BY <1>1, QuotientWord
<1>4. Truncates(Quotient(s[2], s[1]), s[2], s[1]) /\ IsRest(Remainder(s[2], s[1]), s[2], s[1])
    BY <1>2, QuotientTruncates
<1>5. CASE op \in {Op.DIV, Op.SDIV}
    <2>1. Compute(op, s) \in {<<Wrap(Quotient(s[2], s[1]))>>, <<Wrap(SDiv(s[2], s[1]))>>}
        BY <1>1, <1>5, ComputeDivision
    <2>2. SDiv(s[2], s[1]) = Quotient(s[2], s[1])
        BY <1>1, SDivDivides
    <2>3. w = Wrap(Quotient(s[2], s[1]))
        BY <2>1, <2>2
    <2>4. w = Quotient(s[2], s[1])
        BY <1>3, <2>3, WrapOfWord
    <2>5. CASE op = Op.SDIV
        BY <1>4, <2>4, <2>5, FollowsNumbers
    <2>6. CASE op = Op.DIV
        <3>1. s[2] >= 0 /\ s[1] > 0
            BY <1>2, <2>6, PlainCases
        <3>2. w >= 0 /\ w \in Word
            BY <1>2, <1>3, <2>4, <3>1, QuotientPositive
        <3>3. Unsigned(w) = w /\ Unsigned(s[2]) = s[2] /\ Unsigned(s[1]) = s[1]
            BY <1>2, <3>1, <3>2, UnsignedOf
        <3> QED BY <1>4, <2>4, <2>6, <3>3, FollowsNumbers
    <2> QED BY <1>5, <2>5, <2>6
<1>6. CASE op \in {Op.MOD, Op.SMOD}
    <2>1. Compute(op, s) = <<Wrap(Remainder(s[2], s[1]))>>
        <3>1. CASE op = Op.MOD
            BY <1>1, <3>1, ComputeDivision
        <3>2. CASE op = Op.SMOD
            <4>1. SMod(s[2], s[1]) = Remainder(s[2], s[1])
                <5>1. s[2] # Least
                    BY <3>2, PlainCases
                <5> QED BY <1>1, <5>1, SModRests
            <4> QED BY <1>1, <3>2, <4>1, ComputeDivision
        <3> QED BY <1>6, <3>1, <3>2
    <2>2. w = Remainder(s[2], s[1])
        BY <1>3, <2>1, WrapOfWord
    <2>3. CASE op = Op.SMOD
        BY <1>4, <2>2, <2>3, FollowsNumbers
    <2>4. CASE op = Op.MOD
        <3>1. s[2] >= 0 /\ s[1] > 0
            BY <1>2, <2>4, PlainCases
        <3>2. w >= 0 /\ w \in Word
            BY <1>2, <1>3, <2>2, <3>1, QuotientPositive
        <3>3. Unsigned(w) = w /\ Unsigned(s[2]) = s[2] /\ Unsigned(s[1]) = s[1]
            BY <1>2, <3>1, <3>2, UnsignedOf
        <3> QED BY <1>4, <2>2, <2>4, <3>3, FollowsNumbers
    <2> QED BY <1>6, <2>3, <2>4
<1> QED BY <1>5, <1>6

(* What a remainder of a sum or product that is a word is.                 *)
LEMMA SumRests ==
    ASSUME NEW v \in Word, NEW x \in Word, NEW w,
           (IF Divides(Wrap(v), x) THEN <<Wrap(Remainder(Wrap(v), x))>> ELSE <<>>) = <<w>>
    PROVE  IsRest(w, v, x)
<1>1. Wrap(v) = v
    BY WrapOfWord
<1>2. Divides(v, x)
    <2> SUFFICES ASSUME ~Divides(v, x) PROVE <<>> = <<w>>
        OBVIOUS
    <2> QED BY <1>1
<1>3. w = Wrap(Remainder(v, x))
    BY <1>1, <1>2
<1>4. x # 0 /\ x \in Int /\ v \in Int
    BY <1>2, Sizes DEF Divides
<1>5. w = Remainder(v, x)
    BY <1>2, <1>3, QuotientWord, WrapOfWord
<1> QED BY <1>4, <1>5, QuotientTruncates

(* ADDMOD and MULMOD return the remainder of the sum and of the product.   *)
LEMMA ModularFollows ==
    ASSUME NEW op \in {Op.ADDMOD, Op.MULMOD}, NEW s,
           s[1] \in Word, Plain(op, s), NEW w, Compute(op, s) = <<w>>
    PROVE  Follows(op, s, w)
<1>1. CASE op = Op.ADDMOD
    <2> DEFINE v == s[3] + s[2]
    <2>1. v \in Word
        BY <1>1, PlainCases
    <2>2. (IF Divides(Wrap(v), s[1]) THEN <<Wrap(Remainder(Wrap(v), s[1]))>> ELSE <<>>) = <<w>>
        BY <1>1, ComputeMore
    <2> HIDE DEF v
    <2>3. IsRest(w, v, s[1])
        BY <2>1, <2>2, SumRests
    <2> QED BY <1>1, <2>3, FollowsNumbers DEF v
<1>2. CASE op = Op.MULMOD
    <2> DEFINE v == s[3] * s[2]
    <2>1. v \in Word
        BY <1>2, PlainCases
    <2>2. (IF Divides(Wrap(v), s[1]) THEN <<Wrap(Remainder(Wrap(v), s[1]))>> ELSE <<>>) = <<w>>
        BY <1>2, ComputeMore
    <2> HIDE DEF v
    <2>3. IsRest(w, v, s[1])
        BY <2>1, <2>2, SumRests
    <2> QED BY <1>2, <2>3, FollowsNumbers DEF v
<1> QED BY <1>1, <1>2

(* EXP returns the power, if it returns.                                   *)
LEMMA PowersFollow ==
    ASSUME NEW s, s[1] \in Word, s[2] \in Word, Plain(Op.EXP, s),
           NEW w \in Word, Compute(Op.EXP, s) = <<w>>
    PROVE  Follows(Op.EXP, s, w)
<1> DEFINE e == IF s[1] < 0 THEN 0 ELSE s[1]
           y == s[2]
           z == Raised[e][y]
<1>1. e \in Nat /\ y \in Word
    BY Sizes
<1>2. Power[e][<<1, y>>] = <<w>>
    BY ComputeMore
<1> HIDE DEF e, y
<1>3. 1 \in Word /\ z \in Word /\ z \in Int /\ w \in Int
    <2>1. Raised \in [Nat -> [Word -> Word]]
        BY RaisedDef
    <2>2. z \in Word
        BY <1>1, <2>1
    <2> HIDE DEF z
    <2> QED BY <2>2, Sizes
<1>4. Power[e][<<1, y>>] = <<>> \/ \E u \in Word : Power[e][<<1, y>>] = <<u>> /\ Congruent(u, 1 * z)
    BY <1>1, <1>3, PowerRaises
<1> HIDE DEF z
<1>5. Congruent(w, 1 * z)
    BY <1>2, <1>4
<1>6. 1 * z = z
    BY <1>3
<1>7. w = z
    BY <1>3, <1>5, <1>6, WordsDiffer
<1>8. e = Unsigned(s[1])
    <2>1. s[1] >= 0
        BY PlainCases
    <2>2. Unsigned(s[1]) = s[1] /\ s[1] \in Int
        BY <2>1, UnsignedOf, Sizes
    <2> QED BY <2>1, <2>2 DEF e
<1> QED BY <1>7, <1>8, FollowsNumbers DEF z, y

(* A comparison with an operand that its 32 bits hold is right.            *)
LEMMA ComparisonsFollow ==
    ASSUME NEW op \in {Op.LT, Op.SLT, Op.GT, Op.SGT, Op.EQ, Op.ISZERO}, NEW s, Plain(op, s),
           s[1] \in Word, op # Op.ISZERO => s[2] \in Word, NEW w, Compute(op, s) = <<w>>
    PROVE  Follows(op, s, w)
<1>0. op \in {Op.LT, Op.GT} => Unsigned(s[1]) = s[1] /\ Unsigned(s[2]) = s[2]
    <2> SUFFICES ASSUME op \in {Op.LT, Op.GT} PROVE Unsigned(s[1]) = s[1] /\ Unsigned(s[2]) = s[2]
        OBVIOUS
    <2>1. s[1] = Half(s[1]) /\ s[2] >= 0
        BY PlainCases
    <2>2. s[1] \in Int
        BY Sizes
    <2>3. Half(s[1]) \in Nat
        BY <2>2, HalfTyped
    <2>4. s[1] >= 0
        BY <2>1, <2>3
    <2>5. op # Op.ISZERO
        BY DEF Op
    <2> QED BY <2>1, <2>4, <2>5, UnsignedOf
<1>1. CASE op \in {Op.LT, Op.SLT}
    <2>1. s[1] = Half(s[1])
        BY <1>1, PlainCases
    <2>2. Compute(op, s) = <<Wrap(Flag(s[2] < Half(s[1])))>>
        BY <1>1, ComputeComparisons
    <2>3. w = Flag(s[2] < s[1])
        BY <2>1, <2>2, FlagWord
    <2> QED BY <1>0, <1>1, <2>3, FollowsOthers
<1>2. CASE op \in {Op.GT, Op.SGT}
    <2>1. s[1] = Half(s[1])
        BY <1>2, PlainCases
    <2>2. Compute(op, s) = <<Wrap(Flag(s[2] > Half(s[1])))>>
        BY <1>2, ComputeComparisons
    <2>3. w = Flag(s[2] > s[1])
        BY <2>1, <2>2, FlagWord
    <2> QED BY <1>0, <1>2, <2>3, FollowsOthers
<1>3. CASE op = Op.EQ
    <2>1. s[2] = Half(s[2])
        BY <1>3, PlainCases
    <2>2. Compute(op, s) = <<Wrap(Flag(s[1] = Half(s[2])))>>
        BY <1>3, ComputeComparisons
    <2>3. w = Flag(s[1] = s[2])
        BY <2>1, <2>2, FlagWord
    <2> QED BY <1>3, <2>3, FollowsOthers
<1>4. CASE op = Op.ISZERO
    <2>1. Compute(op, s) = <<Wrap(Flag(s[1] = 0))>>
        BY <1>4, ComputeMore
    <2>2. w = Flag(s[1] = 0)
        BY <2>1, FlagWord
    <2> QED BY <1>4, <2>2, FollowsOthers
<1> QED BY <1>1, <1>2, <1>3, <1>4

(* NOT inverts every bit.                                                  *)
LEMMA ComplementFollows ==
    ASSUME NEW s, s[1] \in Word, NEW w, Compute(Op.NOT, s) = <<w>>
    PROVE  Follows(Op.NOT, s, w)
<1> DEFINE x == s[1]
<1>1. w = Wrap(-x - 1)
    <2>1. Compute(Op.NOT, s) = <<Wrap(-s[1] - 1)>>
        BY ComputeMore
    <2>2. <<w>> = <<Wrap(-x - 1)>>
        BY <2>1
    <2> QED BY <2>2
<1>2. x \in Word
    OBVIOUS
<1> HIDE DEF x
<1>3. x \in Int /\ -x - 1 \in Word
    BY <1>2, Sizes
<1>4. w = -x - 1
    BY <1>1, <1>3, WrapOfWord
<1>5. \A i \in 0..(WordBits - 1) : Bit(w, i) # Bit(x, i)
    BY <1>3, <1>4, BitOfNot
<1> QED BY <1>5, FollowsOthers DEF x

(* AND, OR and XOR combine the bits one by one.                            *)
LEMMA BitwiseFollows ==
    ASSUME NEW op \in {Op.AND, Op.OR, Op.XOR}, NEW s, s[1] \in Int, s[2] \in Int,
           Plain(op, s), NEW w, Compute(op, s) = <<w>>
    PROVE  Follows(op, s, w)
<1> DEFINE x == s[1]
           y == s[2]
           N == 0..(WordBits - 1)
           And == [i \in N |-> Bit(x, i) * Bit(y, i)]
           Or == [i \in N |-> Flag(Bit(x, i) + Bit(y, i) > 0)]
           Xor == [i \in N |-> (Bit(x, i) + Bit(y, i)) % 2]
<1>1. \A i \in N : Bit(x, i) \in {0, 1} /\ Bit(y, i) \in {0, 1}
    BY BitTyped
<1>2. \A p, q \in {0, 1} : /\ p * q \in {0, 1}
                           /\ Flag(p + q > 0) \in {0, 1} /\ (p + q) % 2 \in {0, 1}
                           /\ Flag(p + q > 0) = 1 - (1 - p) * (1 - q)
                           /\ (p + q) % 2 = Flag(p # q)
    BY DEF Flag
<1>3. And \in [N -> {0, 1}] /\ Or \in [N -> {0, 1}] /\ Xor \in [N -> {0, 1}]
    BY <1>1, <1>2
<1>4. Half(y) = y
    BY PlainCases
<1>5. CASE op = Op.AND
    <2>1. Compute(op, s) = <<OfBits([i \in N |-> Bit(x, i) * Bit(Half(y), i)])>>
        BY <1>5, ComputeBits
    <2>2. w = OfBits(And)
        BY <1>4, <2>1
    <2>3. \A i \in N : Bit(w, i) = And[i]
        BY <1>3, <2>2, BitsOfWord
    <2>4. \A i \in N : Bit(w, i) = Bit(x, i) * Bit(y, i)
        BY <2>3
    <2> QED BY <1>5, <2>4, FollowsOthers
<1>6. CASE op = Op.OR
    <2>1. Compute(op, s) = <<OfBits([i \in N |-> Flag(Bit(x, i) + Bit(Half(y), i) > 0)])>>
        BY <1>6, ComputeBits
    <2>2. w = OfBits(Or)
        BY <1>4, <2>1
    <2>3. \A i \in N : Bit(w, i) = Or[i]
        BY <1>3, <2>2, BitsOfWord
    <2>4. \A i \in N : Bit(w, i) = 1 - (1 - Bit(x, i)) * (1 - Bit(y, i))
        BY <1>1, <1>2, <2>3
    <2> QED BY <1>6, <2>4, FollowsOthers
<1>7. CASE op = Op.XOR
    <2>1. Compute(op, s) = <<OfBits([i \in N |-> (Bit(x, i) + Bit(Half(y), i)) % 2])>>
        BY <1>7, ComputeBits
    <2>2. w = OfBits(Xor)
        BY <1>4, <2>1
    <2>3. \A i \in N : Bit(w, i) = Xor[i]
        BY <1>3, <2>2, BitsOfWord
    <2>4. \A i \in N : Bit(w, i) = Flag(Bit(x, i) # Bit(y, i))
        BY <1>1, <1>2, <2>3
    <2> QED BY <1>7, <2>4, FollowsOthers
<1> QED BY <1>5, <1>6, <1>7

(* Shifts shorter than the word multiply and divide by powers of two.      *)
LEMMA ShiftsFollow ==
    ASSUME NEW op \in {Op.SHL, Op.SHR, Op.SAR}, NEW s, s[2] \in Word,
           Plain(op, s), NEW w, Compute(op, s) = <<w>>
    PROVE  Follows(op, s, w)
<1> DEFINE x == s[1]
           y == s[2]
           p == 2^x
<1>1. x \in 0..(WordBits - 1) /\ WordBits \in Nat /\ x \in Nat
    BY SizesAssumption, PlainCases
<1>2. y \in Word /\ y \in Int
    BY Sizes
<1>3. Half(x) = x
    <2>1. 2^HalfBits \in Nat \ {0} /\ x \in 0..(2^HalfBits - 1)
        <3> HIDE DEF x
        <3>1. 2^HalfBits \in Nat \ {0} /\ WordBits <= 2^HalfBits
            BY SizesAssumption, PowerOfTwo
        <3> QED BY <1>1, <3>1
    <2> HIDE DEF x
    <2> DEFINE h == 2^HalfBits
    <2>2. h \in Nat \ {0} /\ x \in 0..(h - 1)
        BY <2>1
    <2> HIDE DEF h
    <2>3. x = h * 0 + x
        BY <2>2
    <2>4. x % h = x
        BY <2>2, <2>3, DivisionUnique
    <2> QED BY <2>4 DEF Half, h
<1>4. x % WordBits = x /\ ~(x > ShiftLimit) /\ ~(x > WordBits - 1)
    <2> HIDE DEF x
    <2>1. ~(x > ShiftLimit) /\ ~(x > WordBits - 1)
        BY <1>1 DEF ShiftLimit
    <2>2. x = WordBits * 0 + x /\ WordBits \in Nat \ {0}
        BY <1>1
    <2>3. x % WordBits = x
        BY <1>1, <2>2, DivisionUnique
    <2> QED BY <2>1, <2>3
<1>5. ShiftLeft(y, x) = Wrap(y * p) /\ ShiftRight(y, x) = y \div p
    BY <1>4 DEF ShiftLeft, ShiftRight
<1>6. p \in Nat \ {0}
    BY <1>1, PowerOfTwo
<1>7. CASE op = Op.SHL
    <2>1. Compute(op, s) = <<Wrap(ShiftLeft(y, x))>>
        <3>1. Compute(op, s) = <<Wrap(IF Half(x) > ShiftLimit THEN 0 ELSE ShiftLeft(y, Half(x)))>>
            BY <1>7, ComputeShifts
        <3> HIDE DEF x, y
        <3> QED BY <1>3, <1>4, <3>1
    <2>2. w = Wrap(Wrap(y * p))
        BY <1>5, <2>1
    <2> HIDE DEF x, y, p
    <2>3. y * p \in Int
        BY <1>2, <1>6
    <2>4. Wrap(y * p) \in Word
        BY <2>3, WrapWord
    <2>5. w = Wrap(y * p)
        BY <2>2, <2>4, WrapOfWord
    <2>6. Congruent(w, y * p)
        BY <2>3, <2>5, WrapCongruent
    <2> QED BY <1>7, <2>6, FollowsOthers DEF x, y, p
<1>8. CASE op \in {Op.SHR, Op.SAR}
    <2>1. Compute(op, s) = <<Wrap(ShiftRight(y, x))>>
        <3>1. Compute(op, s) \in
                 {<<Wrap(IF Half(x) > ShiftLimit THEN 0 ELSE ShiftRight(y, Half(x)))>>,
                  <<Wrap(IF Half(x) > WordBits - 1 THEN IF y < 0 THEN Least ELSE 0
                         ELSE ShiftRight(y, Half(x)))>>}
            BY <1>8, ComputeShifts
        <3> HIDE DEF x, y
        <3> QED BY <1>3, <1>4, <3>1
    <2>2. w = Wrap(y \div p)
        BY <1>5, <2>1
    <2> HIDE DEF x, y
    <2>3. /\ y \div p \in Word
          /\ (y \div p) * p <= y /\ y < ((y \div p) + 1) * p
        BY <1>1, <1>2, ShiftedRight
    <2> HIDE DEF p
    <2>4. w = y \div p /\ w \in Word
        BY <2>2, <2>3, WrapOfWord
    <2>5. w * p <= y /\ y < (w + 1) * p
        BY <2>3, <2>4
    <2>6. IsShifted(w, y, x)
        BY <2>5 DEF IsShifted, p
    <2>7. CASE op = Op.SAR
        BY <2>6, <2>7, FollowsOthers DEF x, y
    <2>8. CASE op = Op.SHR
        <3>1. y >= 0
            BY <2>8, PlainCases DEF y
        <3>2. w >= 0
            BY <1>2, <1>6, <2>4, <3>1
        <3>3. Unsigned(w) = w /\ Unsigned(y) = y
            BY <1>2, <2>4, <3>1, <3>2, UnsignedOf
        <3>4. IsShifted(Unsigned(w), Unsigned(y), x)
            BY <2>6, <3>3
        <3> QED BY <2>8, <3>4, FollowsOthers DEF x, y
    <2> QED BY <1>8, <2>7, <2>8
<1> QED BY <1>7, <1>8

(* All that calculates returns what the table asks for.                    *)
LEMMA ComputeFollows ==
    ASSUME NEW op \in Calculations, NEW s \in [1..Pops(op) -> Word], Plain(op, s),
           NEW w \in Word, Compute(op, s) = <<w>>
    PROVE  Follows(op, s, w)
<1>1. Pops(op) \in 1..3 /\ (op \notin {Op.ISZERO, Op.NOT} => Pops(op) \in 2..3)
    BY PopsOf
<1>2. s[1] \in Word /\ s[1] \in Int
    BY <1>1, Sizes
<1>3. op \notin {Op.ISZERO, Op.NOT} => s[2] \in Word /\ s[2] \in Int
    BY <1>1, Sizes
<1>4. op \notin {Op.BYTE, Op.SIGNEXTEND}
    BY PlainCases
<1>5. /\ {Op.ADD, Op.MUL, Op.SUB} \cap {Op.ISZERO, Op.NOT} = {}
      /\ {Op.DIV, Op.SDIV, Op.MOD, Op.SMOD} \cap {Op.ISZERO, Op.NOT} = {}
      /\ Op.EXP \notin {Op.ISZERO, Op.NOT}
      /\ {Op.AND, Op.OR, Op.XOR} \cap {Op.ISZERO, Op.NOT} = {}
      /\ {Op.SHL, Op.SHR, Op.SAR} \cap {Op.ISZERO, Op.NOT} = {}
      /\ Op.NOT \notin {Op.LT, Op.SLT, Op.GT, Op.SGT, Op.EQ, Op.ISZERO}
    BY DEF Op
<1>6. CASE op \in {Op.ADD, Op.MUL, Op.SUB}
    BY <1>2, <1>3, <1>5, <1>6, ArithmeticFollows
<1>7. CASE op \in {Op.DIV, Op.SDIV, Op.MOD, Op.SMOD}
    BY <1>2, <1>3, <1>5, <1>7, DivisionFollows
<1>8. CASE op \in {Op.ADDMOD, Op.MULMOD}
    BY <1>2, <1>8, ModularFollows
<1>9. CASE op = Op.EXP
    BY <1>2, <1>3, <1>5, <1>9, PowersFollow
<1>10. CASE op \in {Op.LT, Op.SLT, Op.GT, Op.SGT, Op.EQ, Op.ISZERO}
    <2>1. op # Op.ISZERO => s[2] \in Word
        BY <1>3, <1>5, <1>10
    <2> QED BY <1>2, <1>10, <2>1, ComparisonsFollow
<1>11. CASE op = Op.NOT
    BY <1>2, <1>11, ComplementFollows
<1>12. CASE op \in {Op.AND, Op.OR, Op.XOR}
    BY <1>2, <1>3, <1>5, <1>12, BitwiseFollows
<1>13. CASE op \in {Op.SHL, Op.SHR, Op.SAR}
    BY <1>3, <1>5, <1>13, ShiftsFollow
<1> QED BY <1>4, <1>6, <1>7, <1>8, <1>9, <1>10, <1>11, <1>12, <1>13, EachCalculation
=============================================================================
