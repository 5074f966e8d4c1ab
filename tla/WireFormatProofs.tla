--------------------------- MODULE WireFormatProofs ---------------------------
(***************************************************************************)
(* What is written is read back, for every width: lemmas about WireFormat  *)
(* that the proofs about frames and payloads rest on.                      *)
(*                                                                         *)
(* Numbers are written and read by loops, which are recursive functions    *)
(* here, so the proofs need induction and the existence of such functions. *)
(* Both are proved for sets, from the least element of a set of naturals.  *)
(***************************************************************************)
EXTENDS WireFormat, WellFoundedInduction, TLAPS

-----------------------------------------------------------------------------
(* Induction and recursion *)

LEMMA NatIsWellOrdered ==
  ASSUME NEW T \in SUBSET Nat, T # {}
  PROVE  \E x \in T : \A y \in T : x <= y
<1> DEFINE R == OpToRel(<, Nat)
<1>1. IsWellFoundedOn(R, Nat)
  BY NatLessThanWellFounded
<1>2. \A x, y \in Nat : <<y, x>> \in R <=> y < x
  BY DEF OpToRel
<1> HIDE DEF R
<1>3. PICK x \in T : \A y \in T : ~ (<<y, x>> \in R)
  BY <1>1, WFMin
<1>4. \A y \in T : ~ (y < x)
  BY <1>2, <1>3
<1> QED BY <1>4

LEMMA Induction ==
  ASSUME NEW T, 0 \in T, \A n \in Nat : n \in T => n + 1 \in T
  PROVE  \A n \in Nat : n \in T
<1> DEFINE U == Nat \ T
<1> SUFFICES ASSUME U # {} PROVE FALSE
  OBVIOUS
<1>1. PICK x \in U : \A y \in U : x <= y
  BY NatIsWellOrdered
<1>2. x - 1 \in Nat /\ x - 1 \in T
  BY <1>1
<1> QED BY <1>2

Iterates(f, S, init, step) ==
  f \in [Nat -> S] /\ f[0] = init /\ \A n \in Nat : f[n + 1] = step[n][f[n]]

\* A function defined by recursion exists.
LEMMA Recursion ==
  ASSUME NEW S, NEW init \in S, NEW step \in [Nat -> [S -> S]]
  PROVE  \E f : Iterates(f, S, init, step)
<1> DEFINE Run(n, g) == /\ g \in [0 .. n -> S] /\ g[0] = init
                        /\ \A k \in 0 .. n - 1 : g[k + 1] = step[k][g[k]]
           Reached == {n \in Nat : \E g : Run(n, g)}
           Agree == {n \in Nat : \A m \in Nat : \A g, h : n <= m /\ Run(n, g) /\ Run(m, h) => g[n] = h[n]}
<1>1. 0 \in Reached
  <2>1. Run(0, [k \in 0 .. 0 |-> init])
    OBVIOUS
  <2> QED BY <2>1
<1>2. ASSUME NEW n \in Nat, n \in Reached
      PROVE  n + 1 \in Reached
  <2>1. PICK g : Run(n, g)
    BY <1>2
  <2> DEFINE h == [k \in 0 .. n + 1 |-> IF k = n + 1 THEN step[n][g[n]] ELSE g[k]]
  <2>2. g[n] \in S /\ step[n][g[n]] \in S
    BY <2>1
  <2>3. h \in [0 .. n + 1 -> S]
    BY <2>1, <2>2
  <2>4. h[0] = init
    BY <2>1
  <2>5. \A k \in 0 .. n : h[k + 1] = step[k][h[k]]
    BY <2>1
  <2>6. Run(n + 1, h)
    <3>1. \A k \in 0 .. (n + 1) - 1 : k \in 0 .. n
      OBVIOUS
    <3> HIDE DEF h
    <3> QED BY <2>3, <2>4, <2>5, <3>1
  <2> HIDE DEF h, Run
  <2> QED BY <2>6
<1>3. \A n \in Nat : \E g : Run(n, g)
  <2> HIDE DEF Run
  <2>1. \A n \in Nat : n \in Reached
    <3> HIDE DEF Reached
    <3> QED BY <1>1, <1>2, Induction
  <2> QED BY <2>1
<1>4. 0 \in Agree
  OBVIOUS
<1>5. ASSUME NEW n \in Nat, n \in Agree
      PROVE  n + 1 \in Agree
  <2> SUFFICES ASSUME NEW m \in Nat, NEW g, NEW h, n + 1 <= m, Run(n + 1, g), Run(m, h)
               PROVE  g[n + 1] = h[n + 1]
    OBVIOUS
  <2> DEFINE gg == [k \in 0 .. n |-> g[k]]
  <2>1. Run(n, gg)
    OBVIOUS
  <2>2. gg[n] = h[n]
    <3> HIDE DEF Run, gg
    <3> QED BY <1>5, <2>1
  <2> QED BY <2>2
<1>6. \A n \in Nat : n \in Agree
  <2> HIDE DEF Agree
  <2> QED BY <1>4, <1>5, Induction
<1> DEFINE G(n) == CHOOSE g : Run(n, g)
           f == [n \in Nat |-> G(n)[n]]
<1>7. \A n \in Nat : Run(n, G(n))
  <2> HIDE DEF Run
  <2> QED BY <1>3
<1> HIDE DEF G
<1>8. f \in [Nat -> S] /\ f[0] = init
  BY <1>7
<1>9. ASSUME NEW n \in Nat
      PROVE  f[n + 1] = step[n][f[n]]
  <2>1. G(n + 1)[n + 1] = step[n][G(n + 1)[n]]
    BY <1>7
  <2>2. G(n)[n] = G(n + 1)[n]
    <3> HIDE DEF Run
    <3> QED BY <1>6, <1>7
  <2> QED BY <2>1, <2>2
<1> HIDE DEF f
<1>10. Iterates(f, S, init, step)
  BY <1>8, <1>9 DEF Iterates
<1> QED BY <1>10

-----------------------------------------------------------------------------
(* Powers of two *)

LEMMA TwoToIs == TwoTo \in [Nat -> Nat] /\ TwoTo[0] = 1 /\ \A k \in Nat : TwoTo[k + 1] = 2 * TwoTo[k]
<1> DEFINE step == [n \in Nat |-> [x \in Nat |-> 2 * x]]
<1>1. PICK f : Iterates(f, Nat, 1, step)
  <2>1. step \in [Nat -> [Nat -> Nat]]
    OBVIOUS
  <2>2. 1 \in Nat
    OBVIOUS
  <2> HIDE DEF step
  <2> QED BY <2>1, <2>2, Recursion
<1>2. f = [k \in Nat |-> IF k = 0 THEN 1 ELSE 2 * f[k - 1]]
  <2>1. \A k \in Nat : f[k] = IF k = 0 THEN 1 ELSE 2 * f[k - 1]
    <3> TAKE k \in Nat
    <3>1. CASE k = 0
      BY <3>1, <1>1 DEF Iterates
    <3>2. CASE k # 0
      <4>1. k - 1 \in Nat /\ (k - 1) + 1 = k
        BY <3>2
      <4>2. f[k - 1] \in Nat
        BY <1>1, <4>1 DEF Iterates
      <4> QED BY <1>1, <3>2, <4>1, <4>2 DEF Iterates
    <3> QED BY <3>1, <3>2
  <2> QED BY <1>1, <2>1 DEF Iterates
<1>3. TwoTo = [k \in Nat |-> IF k = 0 THEN 1 ELSE 2 * TwoTo[k - 1]]
  BY <1>2 DEF TwoTo
<1>4. TwoTo[0] = 1
  BY <1>3
<1>5. ASSUME NEW k \in Nat
      PROVE  TwoTo[k + 1] = 2 * TwoTo[k]
  BY <1>3
<1>6. \A k \in Nat : TwoTo[k] \in Nat
  <2> DEFINE T == {k \in Nat : TwoTo[k] \in Nat}
  <2>1. 0 \in T
    BY <1>4
  <2>2. \A k \in Nat : k \in T => k + 1 \in T
    BY <1>5
  <2> HIDE DEF T
  <2>3. \A k \in Nat : k \in T
    BY <2>1, <2>2, Induction
  <2> QED BY <2>3 DEF T
<1>7. TwoTo \in [Nat -> Nat]
  BY <1>3, <1>6
<1> QED BY <1>4, <1>5, <1>7

LEMMA TwoToPositive == \A k \in Nat : TwoTo[k] \in Nat \ {0}
<1> DEFINE T == {k \in Nat : TwoTo[k] \in Nat \ {0}}
<1>1. 0 \in T
  BY TwoToIs
<1>2. \A k \in Nat : k \in T => k + 1 \in T
  BY TwoToIs
<1> HIDE DEF T
<1>3. \A k \in Nat : k \in T
  BY <1>1, <1>2, Induction
<1> QED BY <1>3 DEF T

LEMMA TwoToSum == \A a, b \in Nat : TwoTo[a + b] = TwoTo[a] * TwoTo[b]
<1> TAKE a \in Nat
<1> DEFINE T == {b \in Nat : TwoTo[a + b] = TwoTo[a] * TwoTo[b]}
<1>1. 0 \in T
  BY TwoToIs
<1>2. ASSUME NEW b \in Nat, b \in T
      PROVE  b + 1 \in T
  <2>1. TwoTo[(a + b) + 1] = 2 * TwoTo[a + b] /\ TwoTo[b + 1] = 2 * TwoTo[b]
    BY TwoToIs
  <2>2. TwoTo[a + b] = TwoTo[a] * TwoTo[b] /\ a + (b + 1) = (a + b) + 1
    BY <1>2
  <2>3. \A x, y \in Nat : 2 * (x * y) = x * (2 * y)
    BY Z3
  <2>4. TwoTo[a + (b + 1)] = TwoTo[a] * TwoTo[b + 1]
    BY <2>1, <2>2, <2>3, TwoToIs
  <2> QED BY <2>4
<1> HIDE DEF T
<1>3. \A b \in Nat : b \in T
  BY <1>1, <1>2, Induction
<1> QED BY <1>3 DEF T

LEMMA TwoToGrows == \A a, b \in Nat : a <= b => TwoTo[a] <= TwoTo[b]
<1> SUFFICES ASSUME NEW a \in Nat, NEW c \in Nat PROVE TwoTo[a] <= TwoTo[a + c]
  <2>1. \A a, b \in Nat : a <= b => b - a \in Nat /\ b = a + (b - a)
    OBVIOUS
  <2> QED BY <2>1
<1>1. \A x \in Nat, y \in Nat \ {0} : x <= x * y
  BY Z3
<1> QED BY <1>1, TwoToSum, TwoToPositive

LEMMA Widths ==
  /\ ByteBits \in Nat /\ ByteBits >= 2 /\ WordBytes \in Nat /\ LongBytes \in Nat
  /\ Group \in Nat /\ Group >= 2 /\ Radix = 2 * Group
  /\ \A n \in Nat : Span(n) \in Nat \ {0}
  /\ \A m, n \in Nat : m <= n => Span(m) <= Span(n)
<1>1. ByteBits \in Nat /\ ByteBits >= 2 /\ WordBytes \in Nat /\ LongBytes \in Nat
  BY WidthAssumption
<1>2. Group \in Nat /\ Radix = 2 * Group
  <2>1. ByteBits - 1 \in Nat /\ (ByteBits - 1) + 1 = ByteBits
    BY <1>1
  <2> QED BY <2>1, TwoToIs DEF Group, Radix
<1>3. Group >= 2
  <2>1. TwoTo[1] = 2
    BY TwoToIs, 0 + 1 = 1
  <2>2. 1 <= ByteBits - 1 /\ ByteBits - 1 \in Nat
    BY <1>1
  <2> QED BY <2>1, <2>2, TwoToGrows DEF Group
<1>4. \A n \in Nat : ByteBits * n \in Nat
  BY <1>1
<1>5. \A m, n \in Nat : m <= n => ByteBits * m <= ByteBits * n
  BY <1>1, Z3
<1> QED BY <1>1, <1>2, <1>3, <1>4, <1>5, TwoToPositive, TwoToGrows DEF Span

-----------------------------------------------------------------------------
(* Digits *)

LEMMA Division ==
  ASSUME NEW x \in Nat, NEW r \in Nat \ {0}
  PROVE  /\ x \div r \in Nat /\ x % r \in 0 .. r - 1
         /\ x = r * (x \div r) + (x % r)
         /\ x < r => x \div r = 0 /\ x % r = x
BY Z3

LEMMA ShiftedIs ==
  ASSUME NEW v \in Nat, NEW r \in Nat \ {0}
  PROVE  /\ Shifted(v, r) \in [Nat -> Nat] /\ Shifted(v, r)[0] = v
         /\ \A i \in Nat : Shifted(v, r)[i + 1] = Shifted(v, r)[i] \div r
<1> DEFINE step == [n \in Nat |-> [x \in Nat |-> x \div r]]
           s == Shifted(v, r)
           Eq(f) == f = [i \in Nat |-> IF i = 0 THEN v ELSE f[i - 1] \div r]
<1>1. PICK f : Iterates(f, Nat, v, step)
  <2>1. step \in [Nat -> [Nat -> Nat]]
    BY Division
  <2> HIDE DEF step
  <2> QED BY <2>1, Recursion
<1>2. f \in [Nat -> Nat] /\ f[0] = v /\ \A n \in Nat : f[n + 1] = f[n] \div r
  BY <1>1 DEF Iterates
<1>3. Eq(f)
  <2>1. \A k \in Nat : k # 0 => k - 1 \in Nat /\ (k - 1) + 1 = k
    OBVIOUS
  <2>2. \A k \in Nat : f[k] = IF k = 0 THEN v ELSE f[k - 1] \div r
    BY <1>2, <2>1
  <2> QED BY <1>2, <2>2
<1>4. Eq(s)
  BY <1>3 DEF Shifted
<1>5. s[0] = v
  BY <1>4
<1>6. ASSUME NEW k \in Nat
      PROVE  s[k + 1] = s[k] \div r
  BY <1>4
<1>7. \A k \in Nat : s[k] \in Nat
  <2> DEFINE T == {k \in Nat : s[k] \in Nat}
  <2> HIDE DEF s
  <2>1. 0 \in T
    BY <1>5
  <2>2. \A x \in Nat : x \div r \in Nat
    BY Division
  <2>3. \A k \in Nat : k \in T => k + 1 \in T
    BY <1>6, <2>2
  <2> HIDE DEF T
  <2>4. \A k \in Nat : k \in T
    BY <2>1, <2>3, Induction
  <2> QED BY <2>4 DEF T
<1>8. DOMAIN s = Nat /\ s = [i \in Nat |-> s[i]]
  BY <1>4
<1> HIDE DEF s
<1>9. s \in [Nat -> Nat]
  BY <1>7, <1>8
<1> QED BY <1>5, <1>6, <1>9 DEF s

LEMMA ShiftedBound ==
  ASSUME NEW v \in Nat, NEW g \in Nat
  PROVE  \A i \in Nat : Shifted(v, TwoTo[g])[i] * TwoTo[g * i] <= v
<1> DEFINE r == TwoTo[g]
           s == Shifted(v, r)
           T == {i \in Nat : s[i] * TwoTo[g * i] <= v}
<1>1. r \in Nat \ {0} /\ s \in [Nat -> Nat] /\ s[0] = v
  BY TwoToPositive, ShiftedIs
<1>2. \A i \in Nat : s[i + 1] = s[i] \div r
  BY <1>1, ShiftedIs
<1> HIDE DEF s
<1>3. 0 \in T
  <2>1. TwoTo[g * 0] = 1
    BY TwoToIs, Z3
  <2> QED BY <1>1, <2>1
<1>4. ASSUME NEW i \in Nat, i \in T
      PROVE  i + 1 \in T
  <2>1. g * i \in Nat /\ g * (i + 1) = g + g * i
    BY Z3
  <2>2. TwoTo[g * (i + 1)] = r * TwoTo[g * i]
    BY <2>1, TwoToSum
  <2>3. s[i] \in Nat /\ TwoTo[g * i] \in Nat
    BY <1>1, <2>1, TwoToIs
  <2>4. \A x, p \in Nat, q \in Nat \ {0} : (x \div q) * (q * p) <= x * p
    <3> TAKE x, p \in Nat, q \in Nat \ {0}
    <3>1. x \div q \in Nat /\ q * (x \div q) <= x
      BY Division
    <3>2. \A a, b \in Nat : a <= b => a * p <= b * p
      BY Z3
    <3>3. \A y \in Nat : q * y \in Nat /\ y * (q * p) = (q * y) * p
      BY Z3
    <3> HIDE DEF r
    <3> QED BY <3>1, <3>2, <3>3
  <2>5. s[i + 1] * TwoTo[g * (i + 1)] <= s[i] * TwoTo[g * i]
    BY <1>1, <1>2, <2>2, <2>3, <2>4
  <2>6. s[i + 1] * TwoTo[g * (i + 1)] \in Int /\ s[i] * TwoTo[g * i] \in Int
    <3>1. s[i + 1] \in Nat /\ TwoTo[g * (i + 1)] \in Nat
      BY <1>1, <2>1, TwoToIs
    <3> QED BY <2>3, <3>1
  <2> QED BY <1>4, <2>5, <2>6
<1> HIDE DEF T
<1>5. \A i \in Nat : i \in T
  BY <1>3, <1>4, Induction
<1> QED BY <1>5 DEF T, s

\* Nothing is left of a number after as many turns as it has digits.
LEMMA ShiftedZero ==
  ASSUME NEW v \in Nat, NEW g \in Nat, NEW i \in Nat, v < TwoTo[g * i]
  PROVE  Shifted(v, TwoTo[g])[i] = 0
<1>1. TwoTo[g] \in Nat \ {0}
  BY TwoToPositive
<1>2. Shifted(v, TwoTo[g])[i] \in Nat
  <2>1. Shifted(v, TwoTo[g]) \in [Nat -> Nat]
    BY <1>1, ShiftedIs
  <2> QED BY <2>1
<1>3. Shifted(v, TwoTo[g])[i] * TwoTo[g * i] <= v
  BY ShiftedBound
<1>4. g * i \in Nat
  OBVIOUS
<1>5. TwoTo[g * i] \in Nat
  BY <1>4, TwoToIs
<1>6. \A x, p \in Nat : x # 0 => p <= x * p
  BY Z3
<1> QED BY <1>2, <1>3, <1>5, <1>6

\* The digits of a number, put together again, are the number.
LEMMA NumberOfDigits ==
  ASSUME NEW v \in Nat, NEW r \in Nat \ {0}, NEW n \in Nat, NEW d, Len(d) = n,
         Shifted(v, r)[n] = 0, \A i \in 1 .. n : d[i] = Shifted(v, r)[i - 1] % r
  PROVE  Number(d, r) = v
<1> DEFINE s == Shifted(v, r)
           Eq(f) == f = [i \in 0 .. n |-> IF i = 0 THEN 0 ELSE d[n - i + 1] + r * f[i - 1]]
           top == CHOOSE f : Eq(f)
           down == [i \in 0 .. n |-> s[n - i]]
<1>1. s \in [Nat -> Nat] /\ s[0] = v /\ \A i \in Nat : s[i + 1] = s[i] \div r
  BY ShiftedIs
<1>2. s[n] = 0 /\ \A i \in 1 .. n : d[i] = s[i - 1] % r
  OBVIOUS
<1> HIDE DEF s
<1>3. \A i \in 1 .. n : s[n - i] = d[n - i + 1] + r * s[n - i + 1]
  <2> TAKE i \in 1 .. n
  <2>1. n - i \in Nat /\ n - i + 1 \in 1 .. n /\ (n - i + 1) - 1 = n - i
    OBVIOUS
  <2>2. s[n - i + 1] = s[n - i] \div r /\ d[n - i + 1] = s[n - i] % r /\ s[n - i] \in Nat
    BY <1>1, <1>2, <2>1
  <2>3. \A x \in Nat : x = (x % r) + r * (x \div r)
    <3> TAKE x \in Nat
    <3>1. x \div r \in Nat /\ x % r \in 0 .. r - 1 /\ x = r * (x \div r) + (x % r)
      BY Division
    <3>2. \A a, b \in Int : a + b = b + a
      OBVIOUS
    <3>3. r * (x \div r) \in Int
      BY <3>1
    <3> QED BY <3>1, <3>2, <3>3
  <2> QED BY <2>2, <2>3
<1>4. Eq(down)
  <2>1. \A i \in 0 .. n : i # 0 => i \in 1 .. n /\ i - 1 \in 0 .. n /\ n - (i - 1) = n - i + 1
    OBVIOUS
  <2>2. \A i \in 0 .. n : i # 0 => down[i - 1] = s[n - i + 1]
    BY <2>1
  <2> DEFINE body(i) == IF i = 0 THEN 0 ELSE d[n - i + 1] + r * down[i - 1]
  <2>3. \A i \in 0 .. n : s[n - i] = body(i)
    BY <1>2, <1>3, <2>1, <2>2
  <2>4. [i \in 0 .. n |-> s[n - i]] = [i \in 0 .. n |-> body(i)]
    <3> HIDE DEF body
    <3> QED BY <2>3
  <2>5. down = [i \in 0 .. n |-> body(i)]
    BY <2>4
  <2> HIDE DEF down
  <2> QED BY <2>5
<1>5. Eq(top)
  <2> HIDE DEF Eq, down
  <2> QED BY <1>4
<1>6. Number(d, r) = top[n]
  BY DEF Number
<1> HIDE DEF top
<1> DEFINE T == {i \in Nat : i <= n => top[i] = s[n - i]}
<1>7. 0 \in T
  BY <1>2, <1>5
<1>8. ASSUME NEW i \in Nat, i \in T
      PROVE  i + 1 \in T
  <2> SUFFICES ASSUME i + 1 <= n PROVE top[i + 1] = s[n - (i + 1)]
    OBVIOUS
  <2>1. i + 1 \in 0 .. n /\ i + 1 \in 1 .. n /\ (i + 1) - 1 = i /\ n - (i + 1) + 1 = n - i
    OBVIOUS
  <2>2. top[i] = s[n - i]
    BY <1>8
  <2>3. top[i + 1] = d[n - (i + 1) + 1] + r * top[i]
    BY <1>5, <2>1
  <2> QED BY <1>3, <2>1, <2>2, <2>3
<1> HIDE DEF T
<1>9. \A i \in Nat : i \in T
  BY <1>7, <1>8, Induction
<1>10. top[n] = s[n - n] /\ n - n = 0
  BY <1>9 DEF T
<1> QED BY <1>1, <1>6, <1>10

-----------------------------------------------------------------------------
(* Numbers of a variable length *)

\* getVarUIntSize finds the turn after which nothing is left.
LEMMA SizeIs ==
  ASSUME NEW v \in Nat, v < Span(LongBytes)
  PROVE  /\ getVarUIntSize(v) \in Nat \ {0} /\ Shifted(v, Group)[getVarUIntSize(v)] = 0
         /\ \A j \in 1 .. getVarUIntSize(v) - 1 : Shifted(v, Group)[j] # 0
<1> DEFINE K == ByteBits * LongBytes
           s == Shifted(v, Group)
           Turns == {k \in Nat : k >= 1 /\ s[k] = 0}
           Size(k) == s[k] = 0 /\ \A j \in 1 .. k - 1 : s[j] # 0
<1>1. ByteBits \in Nat /\ ByteBits >= 2 /\ LongBytes \in Nat /\ LongBytes >= 1
  BY WidthAssumption
<1>2. K \in Nat /\ K >= 1 /\ (ByteBits - 1) * K \in Nat /\ K <= (ByteBits - 1) * K
  <2>1. \A x, y \in Nat : x >= 2 /\ y >= 1 => x * y \in Nat /\ x * y >= 1
    BY Z3
  <2>2. \A x, y \in Nat : x >= 1 => x * y \in Nat /\ y <= x * y
    BY Z3
  <2>3. K \in Nat /\ K >= 1
    BY <1>1, <2>1
  <2>4. ByteBits - 1 \in Nat /\ ByteBits - 1 >= 1
    BY <1>1
  <2> HIDE DEF K
  <2> QED BY <2>2, <2>3, <2>4
<1>3. v < TwoTo[(ByteBits - 1) * K]
  <2>1. TwoTo[K] <= TwoTo[(ByteBits - 1) * K] /\ TwoTo[K] \in Nat
    BY <1>2, TwoToGrows, TwoToIs
  <2>2. TwoTo[(ByteBits - 1) * K] \in Nat
    BY <1>2, TwoToIs
  <2>3. v < TwoTo[K]
    BY DEF Span
  <2> QED BY <2>1, <2>2, <2>3
<1>4. s[K] = 0
  <2> HIDE DEF K
  <2>1. ByteBits - 1 \in Nat
    BY <1>1
  <2> QED BY <1>2, <1>3, <2>1, ShiftedZero DEF Group
<1> HIDE DEF s
<1>5. K \in Turns
  BY <1>2, <1>4
<1>6. PICK k \in Turns : \A j \in Turns : k <= j
  <2> HIDE DEF Turns
  <2>1. Turns \in SUBSET Nat
    BY DEF Turns
  <2> QED BY <1>5, <2>1, NatIsWellOrdered
<1>7. k \in 1 .. K /\ Size(k)
  <2>1. \A j \in 1 .. k - 1 : j \in Nat /\ j >= 1 /\ ~ (k <= j)
    BY <1>6
  <2> QED BY <1>2, <1>5, <1>6, <2>1
<1>8. getVarUIntSize(v) = CHOOSE j \in 1 .. K : Size(j)
  BY DEF getVarUIntSize, s
<1> HIDE DEF Size, K
<1>9. getVarUIntSize(v) \in 1 .. K /\ Size(getVarUIntSize(v))
  BY <1>7, <1>8
<1> QED BY <1>2, <1>9 DEF Size, s

LEMMA SizeBound ==
  ASSUME NEW n \in Nat, n >= 1, n <= LongBytes, NEW v \in Nat, v < Span(n)
  PROVE  v < Span(LongBytes) /\ getVarUIntSize(v) \in 1 .. Groups(n)
<1> DEFINE b == ByteBits - 1
           G == Groups(n)
<1>1. b \in Nat /\ b >= 1 /\ ByteBits = b + 1 /\ LongBytes \in Nat
  BY WidthAssumption
<1>2. v < Span(LongBytes)
  BY <1>1, Widths
<1>3. G \in Nat /\ n * (b + 1) <= b * G
  <2>1. G = (n * (b + 1) + b - 1) \div b
    BY <1>1 DEF Groups
  <2>2. n * (b + 1) \in Nat
    BY <1>1
  <2>3. \A x \in Nat, y \in Nat \ {0} :
          (x + y - 1) \div y \in Nat /\ x <= y * ((x + y - 1) \div y)
    BY Z3
  <2> HIDE DEF G, b
  <2> QED BY <1>1, <2>1, <2>2, <2>3
<1>4. G >= 1
  <2>1. n * (b + 1) >= 1
    BY <1>1, Z3
  <2>2. b * 0 = 0
    BY <1>1
  <2>3. n * (b + 1) \in Nat
    BY <1>1
  <2> HIDE DEF G, b
  <2> QED BY <1>1, <1>3, <2>1, <2>2, <2>3
<1>5. v < TwoTo[b * G]
  <2>1. n * (b + 1) = ByteBits * n /\ ByteBits * n \in Nat /\ b * G \in Nat
    BY <1>1, <1>3
  <2>2. TwoTo[ByteBits * n] <= TwoTo[b * G]
    BY <1>3, <2>1, TwoToGrows
  <2>3. TwoTo[ByteBits * n] \in Nat /\ TwoTo[b * G] \in Nat
    BY <2>1, TwoToIs
  <2>4. v < TwoTo[ByteBits * n]
    BY DEF Span
  <2> QED BY <2>2, <2>3, <2>4
<1>6. Shifted(v, Group)[G] = 0
  <2> HIDE DEF G, b
  <2>1. Group = TwoTo[b]
    BY DEF Group, b
  <2> QED BY <1>1, <1>3, <1>5, <2>1, ShiftedZero
<1>7. /\ getVarUIntSize(v) \in Nat \ {0}
      /\ \A j \in 1 .. getVarUIntSize(v) - 1 : Shifted(v, Group)[j] # 0
  BY <1>2, SizeIs
<1> HIDE DEF G
<1>8. getVarUIntSize(v) <= G
  BY <1>3, <1>4, <1>6, <1>7
<1> QED BY <1>2, <1>3, <1>7, <1>8 DEF G

LEMMA WrittenNumber ==
  ASSUME NEW v \in Nat, v < Span(LongBytes)
  PROVE  /\ writeVarUInt(v) \in Seq(Byte) /\ Len(writeVarUInt(v)) = getVarUIntSize(v)
         /\ writeVarUInt(v)[getVarUIntSize(v)] < Group
         /\ \A j \in 1 .. getVarUIntSize(v) - 1 : writeVarUInt(v)[j] >= Group
         /\ \A j \in 1 .. getVarUIntSize(v) :
              writeVarUInt(v)[j] % Group = Shifted(v, Group)[j - 1] % Group
<1> DEFINE k == getVarUIntSize(v)
           s == Shifted(v, Group)
           w == [i \in 1 .. k |-> (s[i - 1] % Group) + (IF i < k THEN Group ELSE 0)]
<1>1. k \in Nat \ {0} /\ s \in [Nat -> Nat] /\ Group \in Nat \ {0} /\ Radix = 2 * Group
  <2>1. Group \in Nat \ {0} /\ Radix = 2 * Group
    BY Widths
  <2>2. s \in [Nat -> Nat]
    BY <2>1, ShiftedIs
  <2>3. k \in Nat \ {0}
    BY SizeIs
  <2> QED BY <2>1, <2>2, <2>3
<1>2. writeVarUInt(v) = w
  BY DEF writeVarUInt
<1> HIDE DEF k, s
<1>3. \A i \in 1 .. k : s[i - 1] \in Nat
  BY <1>1
<1>4. \A x \in Nat : x % Group \in 0 .. Group - 1
  BY <1>1, Division
<1>5. \A y \in 0 .. Group - 1 : y % Group = y /\ (y + Group) % Group = y
  BY <1>1, Z3
<1>6. \A i \in 1 .. k : w[i] \in Byte
  BY <1>1, <1>3, <1>4 DEF Byte
<1>7. w \in Seq(Byte) /\ Len(w) = k
  BY <1>1, <1>6
<1>8. w[k] < Group /\ \A j \in 1 .. k - 1 : w[j] >= Group
  <2>1. w[k] = (s[k - 1] % Group) + 0 /\ k \in 1 .. k
    BY <1>1
  <2>2. \A j \in 1 .. k - 1 : w[j] = (s[j - 1] % Group) + Group /\ j \in 1 .. k
    BY <1>1
  <2>3. \A j \in 1 .. k : s[j - 1] % Group \in 0 .. Group - 1
    BY <1>3, <1>4
  <2> HIDE DEF w
  <2> QED BY <1>1, <2>1, <2>2, <2>3
<1>9. \A j \in 1 .. k : w[j] % Group = s[j - 1] % Group
  <2> TAKE j \in 1 .. k
  <2>1. s[j - 1] % Group \in 0 .. Group - 1
    BY <1>3, <1>4
  <2>2. w[j] = (s[j - 1] % Group) \/ w[j] = (s[j - 1] % Group) + Group
    BY <1>1
  <2> HIDE DEF w
  <2> QED BY <1>5, <2>1, <2>2
<1> HIDE DEF w
<1> QED BY <1>2, <1>7, <1>8, <1>9 DEF k, s

-----------------------------------------------------------------------------
(* Reading what was written *)

\* The bytes stand in the buffer behind the offset.
At(buffer, offset, bytes) ==
  /\ offset + Len(bytes) <= Len(buffer)
  /\ \A i \in 1 .. Len(bytes) : buffer[offset + i] = bytes[i]

LEMMA AtConcat ==
  ASSUME NEW S, NEW buffer \in Seq(S), NEW offset \in Nat, NEW a \in Seq(S), NEW b \in Seq(S)
  PROVE  At(buffer, offset, a \o b) <=> At(buffer, offset, a) /\ At(buffer, offset + Len(a), b)
<1>1. /\ Len(a) \in Nat /\ Len(b) \in Nat /\ Len(buffer) \in Nat /\ Len(a \o b) = Len(a) + Len(b)
      /\ \A i \in 1 .. Len(a) : (a \o b)[i] = a[i]
      /\ \A i \in 1 .. Len(b) : (a \o b)[Len(a) + i] = b[i]
  OBVIOUS
<1>2. ASSUME At(buffer, offset, a \o b)
      PROVE  At(buffer, offset, a) /\ At(buffer, offset + Len(a), b)
  <2>1. \A i \in 1 .. Len(a) : i \in 1 .. Len(a \o b)
    BY <1>1
  <2>2. \A i \in 1 .. Len(b) : /\ Len(a) + i \in 1 .. Len(a \o b)
                               /\ offset + (Len(a) + i) = offset + Len(a) + i
    BY <1>1
  <2> QED BY <1>1, <1>2, <2>1, <2>2 DEF At
<1>3. ASSUME At(buffer, offset, a), At(buffer, offset + Len(a), b)
      PROVE  At(buffer, offset, a \o b)
  <2> SUFFICES ASSUME NEW i \in 1 .. Len(a \o b)
               PROVE  buffer[offset + i] = (a \o b)[i]
    BY <1>1, <1>3 DEF At
  <2>1. CASE i \in 1 .. Len(a)
    BY <1>1, <1>3, <2>1 DEF At
  <2>2. CASE i \notin 1 .. Len(a)
    <3>1. i - Len(a) \in 1 .. Len(b) /\ Len(a) + (i - Len(a)) = i
      BY <1>1, <2>2
    <3>2. offset + Len(a) + (i - Len(a)) = offset + i
      BY <1>1, <2>2
    <3> QED BY <1>1, <1>3, <3>1, <3>2 DEF At
  <2> QED BY <2>1, <2>2
<1> QED BY <1>2, <1>3

\* A number that fits n bytes is read back, whatever follows it.
THEOREM ReadVarAt ==
  ASSUME NEW n \in Nat, n >= 1, n <= LongBytes, NEW v \in Nat, v < Span(n),
         NEW buffer \in Seq(Byte), NEW offset \in Nat, At(buffer, offset, writeVarUInt(v))
  PROVE  readVar(buffer, offset, n) = Gives(v, offset + getVarUIntSize(v))
<1> DEFINE k == getVarUIntSize(v)
           w == writeVarUInt(v)
           s == Shifted(v, Group)
           ends == {j \in 1 .. Groups(n) : EndsAt(buffer, offset, j)}
           payload == [i \in 1 .. k |-> buffer[offset + i] % Group]
<1>1. v < Span(LongBytes) /\ k \in 1 .. Groups(n)
  BY SizeBound
<1>2. k \in Nat \ {0} /\ s[k] = 0
  BY <1>1, SizeIs
<1>3. /\ Len(w) = k /\ w[k] < Group /\ \A j \in 1 .. k - 1 : w[j] >= Group
      /\ \A j \in 1 .. k : w[j] % Group = s[j - 1] % Group
  BY <1>1, WrittenNumber
<1>4. offset + k <= Len(buffer) /\ \A i \in 1 .. k : buffer[offset + i] = w[i]
  BY <1>3 DEF At
<1>5. Group \in Nat \ {0} /\ Radix \in Nat
  BY Widths
<1> HIDE DEF k, w, s
<1>6. EndsAt(buffer, offset, k)
  <2>1. k \in 1 .. k /\ \A j \in 1 .. k - 1 : j \in 1 .. k
    BY <1>2
  <2> QED BY <1>3, <1>4, <2>1 DEF EndsAt, ensureReadable
<1>7. \A j \in 1 .. Groups(n) : EndsAt(buffer, offset, j) => j = k
  <2> SUFFICES ASSUME NEW j \in 1 .. Groups(n), EndsAt(buffer, offset, j)
               PROVE  j = k
    OBVIOUS
  <2>1. offset + j <= Len(buffer) /\ buffer[offset + j] < Group
    BY DEF EndsAt, ensureReadable
  <2>2. j \in Nat /\ j >= 1 /\ Len(buffer) \in Nat
    OBVIOUS
  <2>3. \A i \in Nat : i >= 1 /\ offset + i <= Len(buffer) => buffer[offset + i] \in Nat
    BY <1>5 DEF Byte
  <2>4. ~ (j < k)
    <3> SUFFICES ASSUME j < k PROVE FALSE
      OBVIOUS
    <3>1. j \in 1 .. k - 1 /\ j \in 1 .. k
      BY <1>2, <2>2
    <3>2. buffer[offset + j] >= Group /\ buffer[offset + j] \in Nat
      BY <1>3, <1>4, <2>1, <2>2, <2>3, <3>1
    <3> QED BY <1>5, <2>1, <3>2
  <2>5. ~ (k < j)
    <3> SUFFICES ASSUME k < j PROVE FALSE
      OBVIOUS
    <3>1. k \in 1 .. j - 1 /\ k \in 1 .. k
      BY <1>2, <2>2
    <3>2. buffer[offset + k] >= Group
      BY <3>1 DEF EndsAt
    <3>3. buffer[offset + k] < Group /\ buffer[offset + k] \in Nat
      BY <1>2, <1>3, <1>4, <2>3, <3>1
    <3> QED BY <1>5, <3>2, <3>3
  <2> QED BY <1>2, <2>2, <2>4, <2>5
<1>8. ends = {k}
  BY <1>1, <1>6, <1>7
<1>9. Number(payload, Group) = v
  <2>1. Len(payload) = k /\ \A i \in 1 .. k : payload[i] = s[i - 1] % Group
    <3>1. Len(payload) = k
      BY <1>2
    <3>2. \A i \in 1 .. k : buffer[offset + i] % Group = s[i - 1] % Group
      BY <1>3, <1>4
    <3> QED BY <3>1, <3>2
  <2> HIDE DEF payload
  <2> QED BY <1>2, <1>5, <2>1, NumberOfDigits DEF s
<1>10. v % Span(n) = v
  <2>1. Span(n) \in Nat \ {0}
    BY Widths
  <2> QED BY <2>1, Division
<1>11. readVar(buffer, offset, n) =
         IF ends = {} THEN Throws
         ELSE LET j == CHOOSE j \in ends : TRUE
                  digits == [i \in 1 .. j |-> buffer[offset + i] % Group]
              IN  Gives(Number(digits, Group) % Span(n), offset + j)
  BY DEF readVar
<1>12. (CHOOSE j \in ends : TRUE) = k
  BY <1>8
<1> HIDE DEF ends
<1>13. readVar(buffer, offset, n) = Gives(Number(payload, Group) % Span(n), offset + k)
  BY <1>8, <1>11, <1>12
<1> QED BY <1>9, <1>10, <1>13 DEF k

LEMMA GivesIs ==
  /\ Throws.threw = TRUE
  /\ \A x, y : Gives(x, y).threw = FALSE /\ Gives(x, y).value = x /\ Gives(x, y).next = y
BY DEF Gives, Throws

LEMMA ReadBytesAt ==
  ASSUME NEW s \in Seq(Byte), NEW buffer \in Seq(Byte), NEW offset \in Nat, At(buffer, offset, s)
  PROVE  readBytes(buffer, offset, Len(s)) = Gives(s, offset + Len(s))
<1> DEFINE t == SubSeq(buffer, offset + 1, offset + Len(s))
<1>1. Len(s) \in Nat /\ offset + Len(s) <= Len(buffer) /\ \A i \in 1 .. Len(s) : buffer[offset + i] = s[i]
  BY DEF At
<1>2. t \in Seq(Byte) /\ Len(t) = Len(s)
  BY <1>1
<1>3. \A i \in 1 .. Len(s) : t[i] = s[i]
  BY <1>1
<1> HIDE DEF t
<1>4. t = s
  BY <1>2, <1>3
<1> QED BY <1>1, <1>4 DEF readBytes, ensureReadable, Bytes, t

\* So is a string, whose length goes before it.
THEOREM ReadStringAt ==
  ASSUME NEW s \in Seq(Byte), Len(s) < Span(WordBytes),
         NEW buffer \in Seq(Byte), NEW offset \in Nat, At(buffer, offset, writeString(s))
  PROVE  readString(buffer, offset) = Gives(s, offset + Len(writeString(s)))
<1> DEFINE w == writeVarUInt(Len(s))
           k == getVarUIntSize(Len(s))
<1>1. WordBytes \in Nat /\ WordBytes >= 1 /\ WordBytes <= LongBytes /\ Len(s) \in Nat
  BY WidthAssumption
<1>2. Len(s) < Span(LongBytes) /\ k \in Nat
  BY <1>1, SizeBound
<1>3. w \in Seq(Byte) /\ Len(w) = k
  BY <1>1, <1>2, WrittenNumber
<1> HIDE DEF w, k
<1>4. writeString(s) = w \o s
  BY DEF writeString, w
<1>5. At(buffer, offset, w) /\ At(buffer, offset + k, s)
  BY <1>3, <1>4, AtConcat
<1>6. readVarUInt(buffer, offset) = Gives(Len(s), offset + k)
  BY <1>1, <1>5, ReadVarAt DEF readVarUInt, w, k
<1>7. readBytes(buffer, offset + k, Len(s)) = Gives(s, offset + k + Len(s))
  BY <1>2, <1>5, ReadBytesAt
<1>8. Len(writeString(s)) = k + Len(s)
  <2>1. \A a, b \in Seq(Byte) : Len(a \o b) = Len(a) + Len(b)
    OBVIOUS
  <2> QED BY <1>3, <1>4, <2>1
<1>9. readString(buffer, offset) = readBytes(buffer, offset + k, Len(s))
  BY <1>6, GivesIs DEF readString
<1>10. offset + k + Len(s) = offset + Len(writeString(s))
  BY <1>1, <1>2, <1>8
<1> QED BY <1>7, <1>9, <1>10

LEMMA StringIs ==
  ASSUME NEW s \in Seq(Byte), Len(s) < Span(WordBytes)
  PROVE  writeString(s) \in Seq(Byte)
<1>1. Len(s) \in Nat /\ Len(s) < Span(LongBytes)
  BY WidthAssumption, SizeBound
<1>2. writeVarUInt(Len(s)) \in Seq(Byte)
  BY <1>1, WrittenNumber
<1> QED BY <1>2 DEF writeString

-----------------------------------------------------------------------------
(* Reading what was cut off *)

\* The buffer ends before the bytes do.
Cut(buffer, offset, bytes) ==
  /\ offset <= Len(buffer) /\ Len(buffer) < offset + Len(bytes)
  /\ \A i \in 1 .. Len(buffer) - offset : buffer[offset + i] = bytes[i]

LEMMA CutConcat ==
  ASSUME NEW S, NEW buffer \in Seq(S), NEW offset \in Nat, NEW a \in Seq(S), NEW b \in Seq(S),
         Cut(buffer, offset, a \o b)
  PROVE  \/ Cut(buffer, offset, a)
         \/ At(buffer, offset, a) /\ Cut(buffer, offset + Len(a), b)
<1>1. /\ Len(a) \in Nat /\ Len(b) \in Nat /\ Len(buffer) \in Nat /\ Len(a \o b) = Len(a) + Len(b)
      /\ \A i \in 1 .. Len(a) : (a \o b)[i] = a[i]
      /\ \A i \in 1 .. Len(b) : (a \o b)[Len(a) + i] = b[i]
  OBVIOUS
<1>2. /\ offset <= Len(buffer) /\ Len(buffer) < offset + (Len(a) + Len(b))
      /\ \A i \in 1 .. Len(buffer) - offset : buffer[offset + i] = (a \o b)[i]
  BY <1>1 DEF Cut
<1>3. CASE Len(buffer) < offset + Len(a)
  <2>1. \A i \in 1 .. Len(buffer) - offset : i \in 1 .. Len(a)
    BY <1>1, <1>3
  <2>2. Cut(buffer, offset, a)
    BY <1>1, <1>2, <1>3, <2>1 DEF Cut
  <2> QED BY <2>2
<1>4. CASE ~ (Len(buffer) < offset + Len(a))
  <2>1. \A i \in 1 .. Len(a) : i \in 1 .. Len(buffer) - offset
    BY <1>1, <1>4
  <2>2. At(buffer, offset, a)
    BY <1>1, <1>2, <1>4, <2>1 DEF At
  <2>3. \A i \in 1 .. Len(buffer) - (offset + Len(a)) :
          /\ i \in 1 .. Len(b) /\ Len(a) + i \in 1 .. Len(buffer) - offset
          /\ offset + (Len(a) + i) = offset + Len(a) + i
    BY <1>1, <1>2
  <2>4. \A i \in 1 .. Len(buffer) - (offset + Len(a)) : buffer[offset + Len(a) + i] = b[i]
    BY <1>1, <1>2, <2>3
  <2>5. Cut(buffer, offset + Len(a), b)
    BY <1>1, <1>2, <1>4, <2>4 DEF Cut
  <2> QED BY <2>2, <2>5
<1> QED BY <1>3, <1>4

\* Without its last group a number is never taken for a smaller one.
LEMMA ReadVarCut ==
  ASSUME NEW n \in Nat, n >= 1, n <= LongBytes, NEW v \in Nat, v < Span(n),
         NEW buffer \in Seq(Byte), NEW offset \in Nat, Cut(buffer, offset, writeVarUInt(v))
  PROVE  readVar(buffer, offset, n) = Throws
<1> DEFINE k == getVarUIntSize(v)
           w == writeVarUInt(v)
           ends == {j \in 1 .. Groups(n) : EndsAt(buffer, offset, j)}
<1>1. v < Span(LongBytes) /\ k \in Nat
  BY SizeBound, SizeIs
<1>2. Len(w) = k /\ \A j \in 1 .. k - 1 : w[j] >= Group
  BY <1>1, WrittenNumber
<1>3. /\ Len(buffer) < offset + k
      /\ \A i \in 1 .. Len(buffer) - offset : buffer[offset + i] = w[i]
  BY <1>2 DEF Cut
<1>4. Group \in Nat /\ Radix \in Nat
  BY Widths
<1> HIDE DEF k, w
<1>5. ASSUME NEW j \in 1 .. Groups(n), EndsAt(buffer, offset, j)
      PROVE  FALSE
  <2>1. offset + j <= Len(buffer) /\ buffer[offset + j] < Group /\ Len(buffer) \in Nat /\ j \in Nat /\ j >= 1
    BY <1>5 DEF EndsAt, ensureReadable
  <2>2. j \in 1 .. k - 1 /\ j \in 1 .. Len(buffer) - offset
    BY <1>1, <1>3, <2>1
  <2>3. buffer[offset + j] >= Group
    BY <1>2, <1>3, <2>2
  <2>4. buffer[offset + j] \in Nat
    BY <1>4, <2>1 DEF Byte
  <2> QED BY <1>4, <2>1, <2>3, <2>4
<1>6. ends = {}
  BY <1>5
<1>7. readVar(buffer, offset, n) =
         IF ends = {} THEN Throws
         ELSE LET j == CHOOSE j \in ends : TRUE
                  digits == [i \in 1 .. j |-> buffer[offset + i] % Group]
              IN  Gives(Number(digits, Group) % Span(n), offset + j)
  BY DEF readVar
<1> HIDE DEF ends
<1> QED BY <1>6, <1>7

LEMMA ReadBytesCut ==
  ASSUME NEW s \in Seq(Byte), NEW buffer \in Seq(Byte), NEW offset \in Nat, Cut(buffer, offset, s)
  PROVE  readBytes(buffer, offset, Len(s)) = Throws
<1>1. ~ (offset + Len(s) <= Len(buffer))
  BY DEF Cut
<1> QED BY <1>1 DEF readBytes, ensureReadable

LEMMA ReadStringCut ==
  ASSUME NEW s \in Seq(Byte), Len(s) < Span(WordBytes),
         NEW buffer \in Seq(Byte), NEW offset \in Nat, Cut(buffer, offset, writeString(s))
  PROVE  readString(buffer, offset) = Throws
<1> DEFINE w == writeVarUInt(Len(s))
           k == getVarUIntSize(Len(s))
<1>1. WordBytes \in Nat /\ WordBytes >= 1 /\ WordBytes <= LongBytes /\ Len(s) \in Nat
  BY WidthAssumption
<1>2. Len(s) < Span(LongBytes) /\ k \in Nat
  BY <1>1, SizeBound
<1>3. w \in Seq(Byte) /\ Len(w) = k
  BY <1>1, <1>2, WrittenNumber
<1> HIDE DEF w, k
<1>4. writeString(s) = w \o s
  BY DEF writeString, w
<1>5. \/ Cut(buffer, offset, w)
      \/ At(buffer, offset, w) /\ Cut(buffer, offset + k, s)
  BY <1>3, <1>4, CutConcat
<1>6. CASE Cut(buffer, offset, w)
  <2>1. readVarUInt(buffer, offset) = Throws
    BY <1>1, <1>6, ReadVarCut DEF readVarUInt, w
  <2> QED BY <2>1, GivesIs DEF readString
<1>7. CASE At(buffer, offset, w) /\ Cut(buffer, offset + k, s)
  <2>1. readVarUInt(buffer, offset) = Gives(Len(s), offset + k)
    BY <1>1, <1>7, ReadVarAt DEF readVarUInt, w, k
  <2>2. readBytes(buffer, offset + k, Len(s)) = Throws
    BY <1>2, <1>7, ReadBytesCut
  <2> QED BY <2>1, <2>2, GivesIs DEF readString
<1> QED BY <1>5, <1>6, <1>7

-----------------------------------------------------------------------------
(* Numbers of a fixed width *)

LEMMA ReverseIs ==
  ASSUME NEW S, NEW d \in Seq(S)
  PROVE  Reverse(d) \in Seq(S) /\ Len(Reverse(d)) = Len(d) /\ Reverse(Reverse(d)) = d
<1> DEFINE n == Len(d)
           r == Reverse(d)
<1>1. n \in Nat /\ d \in [1 .. n -> S]
  OBVIOUS
<1>2. \A i \in 1 .. n : n - i + 1 \in 1 .. n /\ n - (n - i + 1) + 1 = i
  BY <1>1
<1>3. r \in [1 .. n -> S] /\ \A i \in 1 .. n : r[i] = d[n - i + 1]
  BY <1>1, <1>2 DEF Reverse
<1>4. r \in Seq(S) /\ Len(r) = n
  <2> HIDE DEF r, n
  <2> QED BY <1>1, <1>3
<1>5. Reverse(r) = [i \in 1 .. n |-> r[n - i + 1]]
  BY <1>4 DEF Reverse
<1>6. \A i \in 1 .. n : r[n - i + 1] = d[i]
  BY <1>2, <1>3
<1>7. Reverse(r) = d
  <2> HIDE DEF r, n
  <2> QED BY <1>1, <1>5, <1>6
<1> QED BY <1>4, <1>7

LEMMA RawIs ==
  ASSUME NEW n \in Nat, NEW v \in Nat, v < Span(n)
  PROVE  /\ writeRawLE(v, n) \in Seq(Byte) /\ Len(writeRawLE(v, n)) = n
         /\ writeRawBE(v, n) \in Seq(Byte) /\ Len(writeRawBE(v, n)) = n
         /\ Number(writeRawLE(v, n), Radix) = v
         /\ Number(Reverse(writeRawBE(v, n)), Radix) = v
<1> DEFINE s == Shifted(v, Radix)
           d == [i \in 1 .. n |-> s[i - 1] % Radix]
<1>1. Radix \in Nat \ {0} /\ s \in [Nat -> Nat]
  <2>1. Radix \in Nat \ {0}
    BY Widths
  <2> QED BY <2>1, ShiftedIs
<1>2. s[n] = 0
  <2>1. ByteBits \in Nat /\ v < TwoTo[ByteBits * n]
    BY WidthAssumption DEF Span
  <2> QED BY <2>1, ShiftedZero DEF Radix
<1>3. writeRawLE(v, n) = d
  BY DEF writeRawLE
<1>4. \A x \in Nat : x % Radix \in Byte
  BY <1>1, Division DEF Byte
<1>5. \A i \in 1 .. n : s[i - 1] % Radix \in Byte
  <2> HIDE DEF s
  <2> QED BY <1>1, <1>4
<1>6. d \in Seq(Byte) /\ Len(d) = n
  <2> HIDE DEF s
  <2> QED BY <1>5
<1>7. Number(d, Radix) = v
  <2>1. \A i \in 1 .. n : d[i] = s[i - 1] % Radix
    OBVIOUS
  <2>2. Len(d) = n
    BY <1>6
  <2>3. Radix \in Nat \ {0}
    BY <1>1
  <2> HIDE DEF d, s
  <2> QED BY <1>2, <2>1, <2>2, <2>3, NumberOfDigits DEF s
<1> HIDE DEF d
<1>8. Reverse(d) \in Seq(Byte) /\ Len(Reverse(d)) = n /\ Reverse(Reverse(d)) = d
  BY <1>6, ReverseIs
<1> QED BY <1>3, <1>6, <1>7, <1>8 DEF writeRawBE

LEMMA ReadRawAt ==
  ASSUME NEW n \in Nat, NEW v \in Nat, v < Span(n), NEW buffer \in Seq(Byte), NEW offset \in Nat
  PROVE  /\ At(buffer, offset, writeRawLE(v, n)) => readRawLE(buffer, offset, n) = Gives(v, offset + n)
         /\ At(buffer, offset, writeRawBE(v, n)) => readRawBE(buffer, offset, n) = Gives(v, offset + n)
         /\ Cut(buffer, offset, writeRawLE(v, n)) => readRawLE(buffer, offset, n) = Throws
         /\ Cut(buffer, offset, writeRawBE(v, n)) => readRawBE(buffer, offset, n) = Throws
<1> DEFINE le == writeRawLE(v, n)
           be == writeRawBE(v, n)
<1>1. /\ le \in Seq(Byte) /\ Len(le) = n /\ be \in Seq(Byte) /\ Len(be) = n
      /\ Number(le, Radix) = v /\ Number(Reverse(be), Radix) = v
  BY RawIs
<1> HIDE DEF le, be
<1>2. At(buffer, offset, le) => readRawLE(buffer, offset, n) = Gives(v, offset + n)
  <2> SUFFICES ASSUME At(buffer, offset, le) PROVE readRawLE(buffer, offset, n) = Gives(v, offset + n)
    OBVIOUS
  <2>1. readBytes(buffer, offset, n) = Gives(le, offset + n)
    BY <1>1, ReadBytesAt
  <2> QED BY <1>1, <2>1, GivesIs DEF readRawLE
<1>3. At(buffer, offset, be) => readRawBE(buffer, offset, n) = Gives(v, offset + n)
  <2> SUFFICES ASSUME At(buffer, offset, be) PROVE readRawBE(buffer, offset, n) = Gives(v, offset + n)
    OBVIOUS
  <2>1. readBytes(buffer, offset, n) = Gives(be, offset + n)
    BY <1>1, ReadBytesAt
  <2> QED BY <1>1, <2>1, GivesIs DEF readRawBE
<1>4. Cut(buffer, offset, le) => readRawLE(buffer, offset, n) = Throws
  BY <1>1, ReadBytesCut, GivesIs DEF readRawLE
<1>5. Cut(buffer, offset, be) => readRawBE(buffer, offset, n) = Throws
  BY <1>1, ReadBytesCut, GivesIs DEF readRawBE
<1> QED BY <1>2, <1>3, <1>4, <1>5 DEF le, be

-----------------------------------------------------------------------------
(* Numbers with a sign, flags and optional numbers *)

\* The bits of a number that fits n bytes give it back, with and without a sign.
LEMMA BitsIs ==
  ASSUME NEW n \in Nat, NEW v \in Int
  PROVE  /\ Bits(v, n) \in Nat /\ Bits(v, n) < Span(n)
         /\ 0 <= v /\ v < Span(n) => Bits(v, n) = v
         /\ -Span(n) <= 2 * v /\ 2 * v < Span(n) => Signed(Bits(v, n), n) = v
         /\ 2 * Signed(Bits(v, n), n) < Span(n)
<1>1. Span(n) \in Nat \ {0}
  BY Widths
<1>2. \A s \in Nat \ {0} : /\ v % s \in Nat /\ v % s < s
                           /\ 0 <= v /\ v < s => v % s = v
                           /\ v < 0 /\ -s <= v => v % s = v + s
  BY Z3
<1> QED BY <1>1, <1>2 DEF Bits, Signed

\* A number and its zigzag form, among 2 * h numbers.
Zigzag(v, h) ==
  LET twice == (2 * v) % (2 * h)
  IN  IF v % 2 = 1 THEN 2 * h - 1 - twice ELSE twice

Back(bits, h) ==
  LET half == bits \div 2
      back == IF bits % 2 = 1 THEN 2 * h - 1 - half ELSE half
  IN  IF 2 * back >= 2 * h THEN back - 2 * h ELSE back

\* The code's zigzag form keeps a number exactly if the lowest bit is its sign.
LEMMA ZigzagIs ==
  ASSUME NEW h \in Nat \ {0}, NEW v \in -h .. h - 1
  PROVE  /\ Zigzag(v, h) \in Nat /\ Zigzag(v, h) < 2 * h
         /\ Back(Zigzag(v, h), h) = v <=> (v % 2 = 1 <=> v < 0)
<1>1. PICK q \in Int : v = 2 * q \/ v = 2 * q + 1
  <2>1. v = 2 * (v \div 2) + (v % 2) /\ v \div 2 \in Int /\ v % 2 \in 0 .. 1
    BY Z3
  <2> QED BY <2>1
<1>2. PICK twice : twice = (2 * v) % (2 * h)
  OBVIOUS
<1>3. twice = IF v < 0 THEN 2 * v + 2 * h ELSE 2 * v
  <2>1. PICK y \in Int : y = 2 * v
    OBVIOUS
  <2>2. PICK s \in Nat \ {0} : s = 2 * h
    OBVIOUS
  <2>3. (0 <= y /\ y < s => y % s = y) /\ (y < 0 /\ -s <= y => y % s = y + s)
    BY Z3
  <2> QED BY <1>2, <2>1, <2>2, <2>3
<1>4. \A y \in Int : /\ (2 * y) % 2 = 0 /\ (2 * y + 1) % 2 = 1
                     /\ (2 * y) \div 2 = y /\ (2 * y + 1) \div 2 = y
  BY Z3
<1>5. PICK bits : bits = IF v % 2 = 1 THEN 2 * h - 1 - twice ELSE twice
  OBVIOUS
<1>6. PICK half : half = bits \div 2
  OBVIOUS
<1>7. PICK back : back = IF bits % 2 = 1 THEN 2 * h - 1 - half ELSE half
  OBVIOUS
<1>8. PICK x : x = IF 2 * back >= 2 * h THEN back - 2 * h ELSE back
  OBVIOUS
<1>9. Zigzag(v, h) = bits /\ Back(bits, h) = x
  BY <1>2, <1>5, <1>6, <1>7, <1>8 DEF Zigzag, Back
<1>10. bits \in Nat /\ bits < 2 * h /\ (x = v <=> (v % 2 = 1 <=> v < 0))
  <2>1. CASE v = 2 * q /\ v < 0
    <3>1. PICK c \in Int : c = v + h
      OBVIOUS
    <3>2. v % 2 = 0 /\ bits = 2 * c
      BY <1>3, <1>4, <1>5, <2>1, <3>1
    <3>3. half = c /\ bits % 2 = 0
      BY <1>4, <1>6, <3>2
    <3> QED BY <1>7, <1>8, <2>1, <3>1, <3>2, <3>3
  <2>2. CASE v = 2 * q /\ v >= 0
    <3>1. v % 2 = 0 /\ bits = 2 * v
      BY <1>3, <1>4, <1>5, <2>2
    <3>2. half = v /\ bits % 2 = 0
      BY <1>4, <1>6, <3>1
    <3> QED BY <1>7, <1>8, <2>2, <3>1, <3>2
  <2>3. CASE v = 2 * q + 1 /\ v < 0
    <3>1. PICK c \in Int : c = -v - 1
      OBVIOUS
    <3>2. v % 2 = 1 /\ bits = 2 * c + 1
      BY <1>3, <1>4, <1>5, <2>3, <3>1
    <3>3. half = c /\ bits % 2 = 1
      BY <1>4, <1>6, <3>2
    <3> QED BY <1>7, <1>8, <2>3, <3>1, <3>2, <3>3
  <2>4. CASE v = 2 * q + 1 /\ v >= 0
    <3>1. PICK c \in Int : c = h - 1 - v
      OBVIOUS
    <3>2. v % 2 = 1 /\ bits = 2 * c + 1
      BY <1>3, <1>4, <1>5, <2>4, <3>1
    <3>3. half = c /\ bits % 2 = 1
      BY <1>4, <1>6, <3>2
    <3> QED BY <1>7, <1>8, <2>4, <3>1, <3>2, <3>3
  <2> QED BY <1>1, <2>1, <2>2, <2>3, <2>4
<1> QED BY <1>9, <1>10

LEMMA SpanEven == \A n \in Nat \ {0} : \E h \in Nat \ {0} : Span(n) = 2 * h
<1> TAKE n \in Nat \ {0}
<1>1. ByteBits * n - 1 \in Nat
  <2>1. \A a, b \in Nat \ {0} : a * b - 1 \in Nat
    BY Z3
  <2> QED BY <2>1, Widths
<1>2. TwoTo[(ByteBits * n - 1) + 1] = 2 * TwoTo[ByteBits * n - 1]
  BY <1>1, TwoToIs
<1>3. (ByteBits * n - 1) + 1 = ByteBits * n
  BY <1>1, Widths
<1>4. TwoTo[ByteBits * n - 1] \in Nat \ {0}
  BY <1>1, TwoToPositive
<1> QED BY <1>2, <1>3, <1>4 DEF Span

LEMMA VarIntIs ==
  ASSUME NEW n \in Nat, n >= 1, n <= LongBytes, NEW v \in Int,
         -Span(n) <= 2 * v, 2 * v < Span(n)
  PROVE  /\ writeVarInt(v, n) \in Seq(Byte)
         /\ \E x : /\ x = v <=> (v % 2 = 1 <=> v < 0)
                   /\ \A buffer \in Seq(Byte), offset \in Nat :
                        /\ At(buffer, offset, writeVarInt(v, n)) =>
                             readVarInt(buffer, offset, n) = Gives(x, offset + Len(writeVarInt(v, n)))
                        /\ Cut(buffer, offset, writeVarInt(v, n)) => readVarInt(buffer, offset, n) = Throws
<1>1. PICK h \in Nat \ {0} : Span(n) = 2 * h
  BY SpanEven
<1>2. v \in -h .. h - 1
  BY <1>1
<1>3. PICK bits : bits = Zigzag(v, h)
  OBVIOUS
<1>4. PICK x : x = Back(bits, h)
  OBVIOUS
<1>5. bits \in Nat /\ bits < Span(n) /\ (x = v <=> (v % 2 = 1 <=> v < 0))
  BY <1>1, <1>2, <1>3, <1>4, ZigzagIs
<1>6. writeVarInt(v, n) = writeVarUInt(bits)
  BY <1>1, <1>3 DEF writeVarInt, Bits, Complement, Zigzag
<1>7. bits < Span(LongBytes)
  BY <1>5, SizeBound
<1>8. writeVarUInt(bits) \in Seq(Byte) /\ Len(writeVarUInt(bits)) = getVarUIntSize(bits)
  BY <1>5, <1>7, WrittenNumber
<1>9. Signed(IF bits % 2 = 1 THEN Complement(bits \div 2, n) ELSE bits \div 2, n) = x
  BY <1>1, <1>4 DEF Signed, Complement, Back
<1>10. ASSUME NEW buffer \in Seq(Byte), NEW offset \in Nat, At(buffer, offset, writeVarUInt(bits))
       PROVE  readVarInt(buffer, offset, n) = Gives(x, offset + getVarUIntSize(bits))
  <2>1. readVar(buffer, offset, n) = Gives(bits, offset + getVarUIntSize(bits))
    BY <1>5, <1>10, ReadVarAt
  <2> QED BY <1>9, <2>1, GivesIs DEF readVarInt
<1>11. ASSUME NEW buffer \in Seq(Byte), NEW offset \in Nat, Cut(buffer, offset, writeVarUInt(bits))
       PROVE  readVarInt(buffer, offset, n) = Throws
  <2>1. readVar(buffer, offset, n) = Throws
    BY <1>5, <1>11, ReadVarCut
  <2> QED BY <2>1, GivesIs DEF readVarInt
<1>12. \A buffer \in Seq(Byte), offset \in Nat :
         /\ At(buffer, offset, writeVarInt(v, n)) =>
              readVarInt(buffer, offset, n) = Gives(x, offset + Len(writeVarInt(v, n)))
         /\ Cut(buffer, offset, writeVarInt(v, n)) => readVarInt(buffer, offset, n) = Throws
  BY <1>6, <1>8, <1>10, <1>11
<1>13. x = v <=> (v % 2 = 1 <=> v < 0)
  BY <1>5
<1>14. writeVarInt(v, n) \in Seq(Byte)
  BY <1>6, <1>8
<1> QED BY <1>12, <1>13, <1>14

LEMMA OneByte ==
  ASSUME NEW b \in Byte
  PROVE  writeRawLE(b, 1) = <<b>> /\ b \in Nat /\ b < Span(1)
<1>1. ByteBits \in Nat /\ Radix \in Nat \ {0} /\ Span(1) = Radix
  <2>1. ByteBits \in Nat /\ Radix \in Nat \ {0} /\ ByteBits * 1 = ByteBits
    BY Widths
  <2> QED BY <2>1 DEF Span, Radix
<1>2. b \in Nat /\ b < Radix
  BY <1>1 DEF Byte
<1>3. b % Radix = b /\ Shifted(b, Radix)[0] = b
  BY <1>1, <1>2, Division, ShiftedIs
<1>4. writeRawLE(b, 1) = [i \in 1 .. 1 |-> b]
  <2>1. \A i \in 1 .. 1 : Shifted(b, Radix)[i - 1] % Radix = b
    BY <1>3
  <2> QED BY <2>1 DEF writeRawLE
<1> QED BY <1>1, <1>2, <1>4

LEMMA GivesFlag ==
  /\ \A y : ~ Gives(FALSE, y).threw /\ ~ Gives(FALSE, y).value /\ Gives(FALSE, y).next = y
  /\ \A y : ~ Gives(TRUE, y).threw /\ Gives(TRUE, y).value /\ Gives(TRUE, y).next = y
BY DEF Gives

LEMMA ReadBoolAt ==
  ASSUME NEW b \in Byte, NEW buffer \in Seq(Byte), NEW offset \in Nat
  PROVE  /\ At(buffer, offset, <<b>>) /\ b = 0 => readBool(buffer, offset) = Gives(FALSE, offset + 1)
         /\ At(buffer, offset, <<b>>) /\ b # 0 => readBool(buffer, offset) = Gives(TRUE, offset + 1)
         /\ Cut(buffer, offset, <<b>>) => readBool(buffer, offset) = Throws
<1>1. writeRawLE(b, 1) = <<b>> /\ b \in Nat /\ b < Span(1)
  BY OneByte
<1>2. /\ At(buffer, offset, <<b>>) => readRawLE(buffer, offset, 1) = Gives(b, offset + 1)
      /\ Cut(buffer, offset, <<b>>) => readRawLE(buffer, offset, 1) = Throws
  BY <1>1, ReadRawAt, 1 \in Nat
<1>3. Cut(buffer, offset, <<b>>) => readBool(buffer, offset) = Throws
  BY <1>2, GivesIs DEF readBool
<1>4. ASSUME At(buffer, offset, <<b>>)
      PROVE  readBool(buffer, offset) = Gives(b # 0, offset + 1)
  <2> DEFINE r == readRawLE(buffer, offset, 1)
  <2>1. r = Gives(b, offset + 1)
    BY <1>2, <1>4
  <2>2. readBool(buffer, offset) = IF r.threw THEN Throws ELSE Gives(r.value # 0, r.next)
    BY DEF readBool
  <2>3. ~ r.threw /\ r.value = b /\ r.next = offset + 1
    BY <2>1, GivesIs
  <2> HIDE DEF r
  <2>4. readBool(buffer, offset) = Gives(r.value # 0, r.next)
    BY <2>2, <2>3
  <2> QED BY <2>3, <2>4
<1>5. b = 0 => Gives(b # 0, offset + 1) = Gives(FALSE, offset + 1)
  OBVIOUS
<1>6. b # 0 => Gives(b # 0, offset + 1) = Gives(TRUE, offset + 1)
  OBVIOUS
<1> QED BY <1>3, <1>4, <1>5, <1>6

LEMMA ReadOptionalAt ==
  ASSUME NEW v, v = <<>> \/ \E w \in Nat : w < Span(WordBytes) /\ v = <<w>>,
         NEW buffer \in Seq(Byte), NEW offset \in Nat
  PROVE  /\ writeOptional(v) \in Seq(Byte)
         /\ At(buffer, offset, writeOptional(v)) =>
              readOptional(buffer, offset) = Gives(v, offset + Len(writeOptional(v)))
         /\ Cut(buffer, offset, writeOptional(v)) => readOptional(buffer, offset) = Throws
<1>1. 0 \in Byte /\ 1 \in Byte
  BY Widths DEF Byte
<1> DEFINE present == readBool(buffer, offset)
           r == readRawLE(buffer, present.next, WordBytes)
<1>2. readOptional(buffer, offset) =
        IF present.threw THEN Throws
        ELSE IF ~present.value THEN Gives(<<>>, present.next)
        ELSE IF r.threw THEN Throws ELSE Gives(<<r.value>>, r.next)
  BY DEF readOptional
<1>3. CASE v = <<>>
  <2>1. PICK flag : flag = <<0>>
    OBVIOUS
  <2>2. writeOptional(v) = flag /\ Len(flag) = 1 /\ flag \in Seq(Byte)
    BY <1>1, <1>3, <2>1 DEF writeOptional
  <2>3. At(buffer, offset, flag) => present = Gives(FALSE, offset + 1)
    BY <1>1, <2>1, ReadBoolAt
  <2>4. Cut(buffer, offset, flag) => present = Throws
    BY <1>1, <2>1, ReadBoolAt
  <2> HIDE DEF present, r
  <2>5. At(buffer, offset, flag) => readOptional(buffer, offset) = Gives(<<>>, offset + 1)
    BY <1>2, <2>3, GivesFlag
  <2>6. Cut(buffer, offset, flag) => readOptional(buffer, offset) = Throws
    BY <1>2, <2>4, GivesIs
  <2> QED BY <1>3, <2>2, <2>5, <2>6
<1>4. ASSUME NEW w \in Nat, w < Span(WordBytes), v = <<w>>
      PROVE  /\ writeOptional(v) \in Seq(Byte)
             /\ At(buffer, offset, writeOptional(v)) =>
                  readOptional(buffer, offset) = Gives(v, offset + Len(writeOptional(v)))
             /\ Cut(buffer, offset, writeOptional(v)) => readOptional(buffer, offset) = Throws
  <2>1. PICK flag : flag = <<1>>
    OBVIOUS
  <2>2. flag \in Seq(Byte) /\ Len(flag) = 1
    BY <1>1, <2>1
  <2>3. PICK raw : raw = writeRawLE(w, WordBytes)
    OBVIOUS
  <2>4. raw \in Seq(Byte) /\ Len(raw) = WordBytes /\ WordBytes \in Nat
    BY <1>4, <2>3, RawIs, Widths
  <2>5. writeOptional(v) = flag \o raw
    <3>1. v # <<>> /\ v[1] = w
      BY <1>4
    <3> QED BY <2>1, <2>3, <3>1 DEF writeOptional
  <2>6. At(buffer, offset, flag) => present = Gives(TRUE, offset + 1)
    <3>1. 1 # 0
      OBVIOUS
    <3> QED BY <1>1, <2>1, <3>1, ReadBoolAt
  <2>7. Cut(buffer, offset, flag) => present = Throws
    BY <1>1, <2>1, ReadBoolAt
  <2>8. /\ At(buffer, offset + 1, raw) =>
             readRawLE(buffer, offset + 1, WordBytes) = Gives(w, offset + 1 + WordBytes)
        /\ Cut(buffer, offset + 1, raw) => readRawLE(buffer, offset + 1, WordBytes) = Throws
    BY <1>4, <2>3, <2>4, offset + 1 \in Nat, ReadRawAt
  <2>9. Len(flag \o raw) = 1 + WordBytes /\ flag \o raw \in Seq(Byte)
    <3>1. \A a, b \in Seq(Byte) : Len(a \o b) = Len(a) + Len(b) /\ a \o b \in Seq(Byte)
      OBVIOUS
    <3> QED BY <2>2, <2>4, <3>1
  <2>10. offset + 1 + WordBytes = offset + (1 + WordBytes)
    BY <2>4
  <2>11. ASSUME At(buffer, offset, flag \o raw)
         PROVE  readOptional(buffer, offset) = Gives(v, offset + (1 + WordBytes))
    <3>1. At(buffer, offset, flag) /\ At(buffer, offset + 1, raw)
      BY <2>2, <2>4, <2>11, AtConcat
    <3>2. present.next = offset + 1 /\ ~ present.threw /\ present.value
      <4> HIDE DEF present
      <4> QED BY <2>6, <3>1, GivesFlag
    <3>3. r = Gives(w, offset + (1 + WordBytes))
      <4> HIDE DEF present
      <4> QED BY <2>8, <2>10, <3>1, <3>2
    <3> HIDE DEF present, r
    <3> QED BY <1>2, <1>4, <3>2, <3>3, GivesIs
  <2>12. ASSUME Cut(buffer, offset, flag \o raw)
         PROVE  readOptional(buffer, offset) = Throws
    <3>1. \/ Cut(buffer, offset, flag)
          \/ At(buffer, offset, flag) /\ Cut(buffer, offset + 1, raw)
      BY <2>2, <2>4, <2>12, CutConcat
    <3>2. CASE Cut(buffer, offset, flag)
      <4> HIDE DEF present, r
      <4> QED BY <1>2, <2>7, <3>2, GivesIs
    <3>3. CASE At(buffer, offset, flag) /\ Cut(buffer, offset + 1, raw)
      <4>1. present.next = offset + 1 /\ ~ present.threw /\ present.value
        <5> HIDE DEF present
        <5> QED BY <2>6, <3>3, GivesFlag
      <4>2. r = Throws
        <5> HIDE DEF present
        <5> QED BY <2>8, <3>3, <4>1
      <4> HIDE DEF present, r
      <4> QED BY <1>2, <4>1, <4>2, GivesIs
    <3> QED BY <3>1, <3>2, <3>3
  <2> QED BY <2>5, <2>9, <2>11, <2>12
<1> QED BY <1>3, <1>4

-----------------------------------------------------------------------------
(* Ids *)

LEMMA Split ==
  ASSUME NEW S, NEW s \in Seq(S), NEW h \in 0 .. Len(s)
  PROVE  /\ SubSeq(s, 1, h) \in Seq(S) /\ Len(SubSeq(s, 1, h)) = h
         /\ SubSeq(s, h + 1, Len(s)) \in Seq(S) /\ Len(SubSeq(s, h + 1, Len(s))) = Len(s) - h
         /\ SubSeq(s, 1, h) \o SubSeq(s, h + 1, Len(s)) = s
<1> DEFINE a == SubSeq(s, 1, h)
           b == SubSeq(s, h + 1, Len(s))
<1>1. /\ a \in Seq(S) /\ Len(a) = h /\ \A i \in 1 .. h : a[i] = s[i]
      /\ b \in Seq(S) /\ Len(b) = Len(s) - h /\ \A i \in 1 .. Len(s) - h : b[i] = s[h + i]
  OBVIOUS
<1> HIDE DEF a, b
<1>2. /\ a \o b \in Seq(S) /\ Len(a \o b) = Len(s)
      /\ \A i \in 1 .. h : (a \o b)[i] = a[i]
      /\ \A i \in 1 .. Len(s) - h : (a \o b)[h + i] = b[i]
  BY <1>1
<1>3. \A i \in 1 .. Len(s) : (a \o b)[i] = s[i]
  <2> TAKE i \in 1 .. Len(s)
  <2>1. CASE i \in 1 .. h
    BY <1>1, <1>2, <2>1
  <2>2. CASE i \notin 1 .. h
    <3>1. i - h \in 1 .. Len(s) - h /\ h + (i - h) = i
      BY <2>2
    <3>2. (a \o b)[h + (i - h)] = b[i - h] /\ b[i - h] = s[h + (i - h)]
      BY <1>1, <1>2, <3>1
    <3> QED BY <3>1, <3>2
  <2> QED BY <2>1, <2>2
<1>4. a \o b = s
  <2>1. \A x, y \in Seq(S) : Len(x) = Len(y) /\ (\A i \in 1 .. Len(y) : x[i] = y[i]) => x = y
    OBVIOUS
  <2> QED BY <1>2, <1>3, <2>1
<1> QED BY <1>1, <1>4 DEF a, b

LEMMA Joined ==
  ASSUME NEW S, NEW a \in Seq(S), NEW b \in Seq(S)
  PROVE  /\ a \o b \in Seq(S) /\ Len(a \o b) = Len(a) + Len(b)
         /\ SubSeq(a \o b, 1, Len(a)) = a
         /\ SubSeq(a \o b, Len(a) + 1, Len(a) + Len(b)) = b
<1>1. /\ a \o b \in Seq(S) /\ Len(a) \in Nat /\ Len(b) \in Nat /\ Len(a \o b) = Len(a) + Len(b)
      /\ \A i \in 1 .. Len(a) : (a \o b)[i] = a[i]
      /\ \A i \in 1 .. Len(b) : (a \o b)[Len(a) + i] = b[i]
  OBVIOUS
<1>2. PICK c \in Seq(S) : c = a \o b
  BY <1>1
<1>3. PICK n \in Nat, m \in Nat : n = Len(a) /\ m = Len(b)
  BY <1>1
<1>4. /\ SubSeq(c, 1, n) \in Seq(S) /\ Len(SubSeq(c, 1, n)) = n
      /\ \A i \in 1 .. n : SubSeq(c, 1, n)[i] = c[i]
      /\ SubSeq(c, n + 1, n + m) \in Seq(S) /\ Len(SubSeq(c, n + 1, n + m)) = m
      /\ \A i \in 1 .. m : SubSeq(c, n + 1, n + m)[i] = c[n + i]
  BY <1>1, <1>2, <1>3
<1>5. \A x, y \in Seq(S) : Len(x) = Len(y) /\ (\A i \in 1 .. Len(y) : x[i] = y[i]) => x = y
  OBVIOUS
<1>6. PICK x \in Seq(S), y \in Seq(S) : x = SubSeq(c, 1, n) /\ y = SubSeq(c, n + 1, n + m)
  BY <1>4
<1>7. x = a
  <2>1. Len(x) = Len(a) /\ \A i \in 1 .. Len(a) : x[i] = a[i]
    BY <1>1, <1>2, <1>3, <1>4, <1>6
  <2> QED BY <1>5, <2>1
<1>8. y = b
  <2>1. Len(y) = Len(b) /\ \A i \in 1 .. Len(b) : y[i] = b[i]
    BY <1>1, <1>2, <1>3, <1>4, <1>6
  <2> QED BY <1>5, <2>1
<1> QED BY <1>1, <1>2, <1>3, <1>6, <1>7, <1>8

\* A string behind a length of fixed width.
LEMMA ReadStringU32LEAt ==
  ASSUME NEW s \in Seq(Byte), Len(s) < Span(WordBytes)
  PROVE  /\ writeStringU32LE(s) \in Seq(Byte) /\ Len(writeStringU32LE(s)) = WordBytes + Len(s)
         /\ \A buffer \in Seq(Byte), offset \in Nat : At(buffer, offset, writeStringU32LE(s)) =>
              readStringU32LE(buffer, offset) = Gives(s, offset + Len(writeStringU32LE(s)))
<1> DEFINE raw == writeRawLE(Len(s), WordBytes)
<1>1. WordBytes \in Nat /\ Len(s) \in Nat
  BY WidthAssumption
<1>2. raw \in Seq(Byte) /\ Len(raw) = WordBytes
  BY <1>1, RawIs
<1>3. writeStringU32LE(s) = raw \o s
  BY DEF writeStringU32LE
<1>4. raw \o s \in Seq(Byte) /\ Len(raw \o s) = WordBytes + Len(s)
  <2>1. \A a, b \in Seq(Byte) : a \o b \in Seq(Byte) /\ Len(a \o b) = Len(a) + Len(b)
    OBVIOUS
  <2> HIDE DEF raw
  <2> QED BY <1>2, <2>1
<1>5. ASSUME NEW buffer \in Seq(Byte), NEW offset \in Nat, At(buffer, offset, raw \o s)
      PROVE  readStringU32LE(buffer, offset) = Gives(s, offset + (WordBytes + Len(s)))
  <2>1. At(buffer, offset, raw) /\ At(buffer, offset + WordBytes, s)
    <3> HIDE DEF raw
    <3> QED BY <1>2, <1>5, AtConcat
  <2>2. readRawLE(buffer, offset, WordBytes) = Gives(Len(s), offset + WordBytes)
    BY <1>1, <2>1, ReadRawAt
  <2>3. readBytes(buffer, offset + WordBytes, Len(s)) = Gives(s, offset + WordBytes + Len(s))
    BY <1>1, <2>1, ReadBytesAt
  <2>4. offset + WordBytes + Len(s) = offset + (WordBytes + Len(s))
    BY <1>1
  <2> QED BY <2>2, <2>3, <2>4, GivesIs DEF readStringU32LE
<1> HIDE DEF raw
<1> QED BY <1>3, <1>4, <1>5

\* Reversing the halves of an id twice gives it back.
LEMMA UUIDIs ==
  ASSUME NEW s \in Seq(Byte)
  PROVE  writeUUID(s) \in Seq(Byte) /\ Len(writeUUID(s)) = Len(s) /\ writeUUID(writeUUID(s)) = s
<1> DEFINE h == Len(s) \div 2
           low == SubSeq(s, 1, h)
           high == SubSeq(s, h + 1, Len(s))
<1>1. Len(s) \in Nat /\ h \in 0 .. Len(s)
  <2>1. \A n \in Nat : n \div 2 \in 0 .. n
    BY Z3
  <2> QED BY <2>1
<1>2. /\ low \in Seq(Byte) /\ Len(low) = h /\ high \in Seq(Byte) /\ Len(high) = Len(s) - h
      /\ low \o high = s
  BY <1>1, Split
<1>3. PICK a \in Seq(Byte), b \in Seq(Byte) : a = Reverse(low) /\ b = Reverse(high)
  BY <1>2, ReverseIs
<1>4. Len(a) = h /\ Len(b) = Len(s) - h
  BY <1>2, <1>3, ReverseIs
<1>5. Reverse(a) = low /\ Reverse(b) = high
  BY <1>2, <1>3, ReverseIs
<1>6. writeUUID(s) = a \o b
  BY <1>3 DEF writeUUID, Halves
<1> HIDE DEF h, low, high
<1>7. /\ a \o b \in Seq(Byte) /\ Len(a \o b) = Len(s)
      /\ SubSeq(a \o b, 1, h) = a /\ SubSeq(a \o b, h + 1, Len(s)) = b
  <2>1. h + (Len(s) - h) = Len(s)
    BY <1>1
  <2> QED BY <1>4, <2>1, Joined
<1>8. PICK w \in Seq(Byte) : w = a \o b
  BY <1>7
<1>9. Halves(w).low = a /\ Halves(w).high = b
  BY <1>7, <1>8 DEF Halves, h
<1>10. writeUUID(w) = s
  BY <1>2, <1>5, <1>9 DEF writeUUID
<1> QED BY <1>6, <1>7, <1>8, <1>10

LEMMA ReadUUIDAt ==
  ASSUME NEW s \in Seq(Byte), NEW buffer \in Seq(Byte), NEW offset \in Nat
  PROVE  /\ At(buffer, offset, writeUUID(s)) => readUUID(buffer, offset, Len(s)) = Gives(s, offset + Len(s))
         /\ Cut(buffer, offset, writeUUID(s)) => readUUID(buffer, offset, Len(s)) = Throws
<1>1. PICK w \in Seq(Byte) : w = writeUUID(s) /\ Len(w) = Len(s) /\ writeUUID(w) = s
  BY UUIDIs
<1>2. ASSUME At(buffer, offset, w)
      PROVE  readUUID(buffer, offset, Len(s)) = Gives(s, offset + Len(s))
  <2>1. readBytes(buffer, offset, Len(s)) = Gives(w, offset + Len(s))
    BY <1>1, <1>2, ReadBytesAt
  <2>2. readUUID(buffer, offset, Len(s)) = Gives(writeUUID(w), offset + Len(s))
    BY <2>1, GivesIs DEF readUUID, writeUUID
  <2> QED BY <1>1, <2>2
<1>3. ASSUME Cut(buffer, offset, w)
      PROVE  readUUID(buffer, offset, Len(s)) = Throws
  <2>1. readBytes(buffer, offset, Len(s)) = Throws
    BY <1>1, <1>3, ReadBytesCut
  <2> QED BY <2>1, GivesIs DEF readUUID
<1> QED BY <1>1, <1>2, <1>3

LEMMA DigitsAre ==
  /\ Digits \in Nat \ {0} /\ Digits <= Radix
  /\ \A b \in Byte : b \div Digits \in 0 .. Digits - 1 /\ b % Digits \in 0 .. Digits - 1
                     /\ (b \div Digits) * Digits + (b % Digits) = b
<1> DEFINE k == (ByteBits + 1) \div 2
<1>1. k \in Nat /\ k <= ByteBits /\ ByteBits <= k + k
  <2>1. \A n \in Nat : n >= 2 => (n + 1) \div 2 \in Nat /\ (n + 1) \div 2 <= n /\ n <= (n + 1) \div 2 + (n + 1) \div 2
    BY Z3
  <2> QED BY <2>1, Widths
<1>2. Digits = TwoTo[k]
  BY DEF Digits
<1> HIDE DEF k
<1>3. Digits \in Nat \ {0} /\ Digits <= Radix
  BY <1>1, <1>2, Widths, TwoToPositive, TwoToGrows DEF Radix
<1>4. Radix <= Digits * Digits
  <2>1. TwoTo[k + k] = Digits * Digits
    BY <1>1, <1>2, TwoToSum
  <2>2. TwoTo[ByteBits] <= TwoTo[k + k]
    BY <1>1, Widths, TwoToGrows
  <2> QED BY <2>1, <2>2 DEF Radix
<1>5. ASSUME NEW b \in Byte
      PROVE  /\ b \div Digits \in 0 .. Digits - 1 /\ b % Digits \in 0 .. Digits - 1
             /\ (b \div Digits) * Digits + (b % Digits) = b
  <2>1. PICK d, q, r : d \in Nat \ {0} /\ d = Digits /\ q = b \div d /\ r = b % d
    BY <1>3
  <2> d \in Nat \ {0}
    BY <2>1
  <2>2. b \in Nat /\ b < d * d
    <3>1. Radix \in Nat
      BY Widths
    <3>2. b \in Nat /\ b < Radix
      BY <3>1 DEF Byte
    <3>3. d * d \in Nat
      OBVIOUS
    <3> QED BY <1>4, <2>1, <3>1, <3>2, <3>3
  <2>3. q \in Nat /\ r \in 0 .. d - 1 /\ b = d * q + r
    BY <2>1, <2>2, Division
  <2>4. q < d
    <3>1. \A y, z \in Nat : y >= z => d * y >= d * z
      BY Z3
    <3>2. d * q \in Nat /\ d * d \in Nat
      BY <2>3
    <3> QED BY <2>2, <2>3, <3>1, <3>2
  <2>5. q * d = d * q
    BY <2>3, Z3
  <2> QED BY <2>1, <2>3, <2>4, <2>5
<1> QED BY <1>3, <1>5

\* The text of an id names it.
LEMMA IdTextIs ==
  ASSUME NEW id \in Seq(Byte)
  PROVE  /\ toString(id) \in Seq(Byte) /\ Len(toString(id)) = 2 * Len(id)
         /\ \A i \in 1 .. 2 * Len(id) : toString(id)[i] < Digits
         /\ fromString(toString(id), Len(id)) = Gives(id, 0)
<1> DEFINE n == Len(id)
           t == toString(id)
<1>1. n \in Nat /\ \A i \in 1 .. n : id[i] \in Byte
  OBVIOUS
<1>2. /\ \A i \in Nat : i % 2 = 1 /\ 1 <= i /\ i <= 2 * n => (i + 1) \div 2 \in 1 .. n
      /\ \A i \in Nat : i % 2 # 1 /\ 1 <= i /\ i <= 2 * n => i \div 2 \in 1 .. n
  <2> HIDE DEF n
  <2> QED BY <1>1, Z3
<1>3. t = [i \in 1 .. 2 * n |-> IF i % 2 = 1 THEN id[(i + 1) \div 2] \div Digits ELSE id[i \div 2] % Digits]
  BY DEF toString
<1> HIDE DEF n, t
<1>4. \A i \in 1 .. 2 * n :
        t[i] = IF i % 2 = 1 THEN id[(i + 1) \div 2] \div Digits ELSE id[i \div 2] % Digits
  BY <1>3
<1>5. \A i \in 1 .. 2 * n : t[i] \in 0 .. Digits - 1
  <2> TAKE i \in 1 .. 2 * n
  <2>1. CASE i % 2 = 1
    <3>1. (i + 1) \div 2 \in 1 .. n
      BY <1>1, <1>2, <2>1
    <3>2. id[(i + 1) \div 2] \div Digits \in 0 .. Digits - 1
      BY <1>1, <3>1, DigitsAre
    <3> QED BY <1>4, <2>1, <3>2
  <2>2. CASE i % 2 # 1
    <3>1. i \div 2 \in 1 .. n
      BY <1>1, <1>2, <2>2
    <3>2. id[i \div 2] % Digits \in 0 .. Digits - 1
      BY <1>1, <3>1, DigitsAre
    <3> QED BY <1>4, <2>2, <3>2
  <2> QED BY <2>1, <2>2
<1>6. \A x \in 0 .. Digits - 1 : x \in Byte /\ x < Digits
  <2>1. Digits \in Nat /\ Radix \in Nat /\ Digits <= Radix
    BY DigitsAre, Widths
  <2> QED BY <2>1 DEF Byte
<1>7. 2 * n \in Nat
  BY <1>1
<1>8. t \in Seq(Byte) /\ Len(t) = 2 * n /\ DOMAIN t = 1 .. 2 * n
  <2>1. \A i \in 1 .. 2 * n : t[i] \in Byte
    BY <1>5, <1>6
  <2>2. DOMAIN t = 1 .. 2 * n /\ t = [i \in 1 .. 2 * n |-> t[i]]
    BY <1>3
  <2>3. \A m \in Nat : \A f : f = [i \in 1 .. m |-> f[i]] /\ (\A i \in 1 .. m : f[i] \in Byte) =>
          f \in Seq(Byte) /\ Len(f) = m
    OBVIOUS
  <2> QED BY <1>7, <2>1, <2>2, <2>3
<1>9. \A i \in 1 .. n : t[2 * i - 1] * Digits + t[2 * i] = id[i]
  <2> TAKE i \in 1 .. n
  <2>1. /\ i \in Nat /\ 2 * i - 1 \in 1 .. 2 * n /\ 2 * i \in 1 .. 2 * n
    BY <1>1
  <2>2. (2 * i - 1) % 2 = 1 /\ ((2 * i - 1) + 1) \div 2 = i /\ (2 * i) % 2 # 1 /\ (2 * i) \div 2 = i
    BY <2>1, Z3
  <2>3. t[2 * i - 1] = id[i] \div Digits /\ t[2 * i] = id[i] % Digits
    BY <1>4, <2>1, <2>2
  <2> QED BY <1>1, <2>3, DigitsAre
<1>10. [i \in 1 .. n |-> t[2 * i - 1] * Digits + t[2 * i]] = id
  <2>1. id = [i \in 1 .. n |-> id[i]]
    BY DEF n
  <2> QED BY <1>9, <2>1
<1>11. fromString(t, n) = Gives(id, 0)
  <2>1. Len(t) = 2 * n /\ \A i \in DOMAIN t : t[i] < Digits
    BY <1>5, <1>6, <1>8
  <2> QED BY <1>10, <2>1 DEF fromString
<1> QED BY <1>5, <1>6, <1>8, <1>11 DEF n, t
=============================================================================
