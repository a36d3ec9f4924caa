---------------------------- MODULE BufferProofs ----------------------------
(***************************************************************************)
(* Proofs about Stream over ByteArray, for blocks of any size, any bytes    *)
(* and any lengths: what the codecs write and read, what the walks through  *)
(* the blocks are, that m_cur is always the block of the position, that the *)
(* chain behaves like one sequence of bytes, that a value is read back as   *)
(* it was written, that writeToFile writes the rest of the chain, and that  *)
(* readFixSize and writeFixSize count exactly.                              *)
(***************************************************************************)
EXTENDS Stream, SequenceTheorems, WellFoundedInduction, TLAPS

-----------------------------------------------------------------------------
(* Some numbers have a least one: the induction of these proofs.            *)
LEMMA Least ==
    ASSUME NEW S, S \subseteq Nat, S # {}
    PROVE  \E x \in S : \A y \in S : x <= y
<1>1. PICK x \in S : \A y \in S : ~(<<y, x>> \in OpToRel(<, Nat))
  <2> HIDE DEF OpToRel
  <2> QED BY NatLessThanWellFounded, WFMin
<1>2. ASSUME NEW y \in S PROVE x <= y
  <2>1. ~(<<y, x>> \in OpToRel(<, Nat)) /\ x \in Nat /\ y \in Nat
    BY <1>1
  <2>2. ~(y < x)
    BY <2>1 DEF OpToRel
  <2>3. x \in Nat /\ y \in Nat
    OBVIOUS
  <2> QED BY <2>2, <2>3
<1> QED BY <1>2

-----------------------------------------------------------------------------
(* Recursion.  A function that is defined on x by its value on p[x], which  *)
(* is smaller, exists: there is one that is right up to any size, and any   *)
(* two of these agree.                                                      *)
Follows(f, S, B, p, b, g) == \A x \in S : f[x] = IF x \in B THEN b[x] ELSE g[<<x, f[p[x]]>>]
Shrinks(S, B, p, m) == \A x \in S : x \notin B => m[p[x]] < m[x]
LEMMA Recursion ==
    ASSUME NEW S, NEW T, NEW B, NEW p \in [S -> S], NEW m \in [S -> Nat],
           NEW b \in [S -> T], NEW g \in [S \X T -> T],
           Shrinks(S, B, p, m)
    PROVE  \E f \in [S -> T] : Follows(f, S, B, p, b, g)
<1> USE DEF Shrinks
<1> DEFINE Right(f, x) == f[x] = IF x \in B THEN b[x] ELSE g[<<x, f[p[x]]>>]
           UpTo(f, n) == f \in [S -> T] /\ \A x \in S : m[x] <= n => Right(f, x)
<1>1. \A n \in Nat : \E f : UpTo(f, n)
  <2> DEFINE Bad == {n \in Nat : ~\E f : UpTo(f, n)}
  <2>1. SUFFICES ASSUME Bad # {} PROVE FALSE
    OBVIOUS
  <2>2. PICK n \in Bad : \A k \in Bad : n <= k
    <3>1. Bad \subseteq Nat
      OBVIOUS
    <3> HIDE DEF Bad
    <3> QED BY <2>1, <3>1, Least
  <2>3. CASE n = 0
    <3>1. UpTo(b, 0)
      OBVIOUS
    <3> QED BY <2>3, <3>1
  <2>4. CASE n # 0
    <3>1. n - 1 \in Nat /\ n - 1 \notin Bad
      BY <2>2, <2>4
    <3>2. PICK h : UpTo(h, n - 1)
      BY <3>1
    <3> DEFINE f == [x \in S |-> IF x \in B THEN b[x] ELSE g[<<x, h[p[x]]>>]]
    <3>3. f \in [S -> T]
      <4>1. ASSUME NEW x \in S PROVE g[<<x, h[p[x]]>>] \in T
        <5>1. p[x] \in S /\ h[p[x]] \in T
          BY <3>2
        <5>2. <<x, h[p[x]]>> \in S \X T
          BY <5>1
        <5> QED BY <5>2
      <4> QED BY <4>1
    <3>4. ASSUME NEW x \in S, m[x] <= n PROVE Right(f, x)
      <4>1. CASE x \in B
        BY <4>1
      <4>2. CASE x \notin B
        <5>1. p[x] \in S /\ m[p[x]] <= n - 1
          BY <3>1, <3>4, <4>2
        <5>2. h[p[x]] = f[p[x]]
          BY <3>2, <5>1
        <5> QED BY <4>2, <5>2
      <4> QED BY <4>1, <4>2
    <3>5. UpTo(f, n)
      BY <3>3, <3>4
    <3> QED BY <3>5
  <2> QED BY <2>3, <2>4
<1>2. ASSUME NEW f, NEW k \in Nat, UpTo(f, k), NEW h, NEW l \in Nat, UpTo(h, l),
             NEW x \in S, m[x] <= k, m[x] <= l
      PROVE  f[x] = h[x]
  <2> DEFINE Bad == {y \in S : m[y] <= k /\ m[y] <= l /\ f[y] # h[y]}
             Sizes == {m[y] : y \in Bad}
  <2>1. SUFFICES ASSUME Bad # {} PROVE FALSE
    BY <1>2
  <2>2. Sizes \subseteq Nat /\ Sizes # {}
    BY <2>1
  <2>3. PICK s \in Sizes : \A t \in Sizes : s <= t
    <3> HIDE DEF Sizes
    <3> QED BY <2>2, Least
  <2>4. PICK y \in Bad : s = m[y]
    BY <2>3
  <2>5. y \in S /\ m[y] <= k /\ m[y] <= l /\ f[y] # h[y] /\ m[y] \in Nat
    BY <2>4
  <2>6. Right(f, y) /\ Right(h, y)
    BY <1>2, <2>5
  <2>7. y \notin B
    BY <2>5, <2>6
  <2>8. p[y] \in S /\ m[p[y]] < m[y] /\ m[p[y]] \in Nat
    BY <2>5, <2>7
  <2>9. p[y] \notin Bad
    <3>1. p[y] \in Bad => m[p[y]] \in Sizes
      OBVIOUS
    <3> HIDE DEF Bad, Sizes
    <3> QED BY <2>3, <2>4, <2>5, <2>8, <3>1
  <2>10. f[p[y]] = h[p[y]]
    BY <2>5, <2>8, <2>9
  <2> QED BY <2>5, <2>6, <2>7, <2>10
<1> DEFINE F(n) == CHOOSE f : UpTo(f, n)
           G == [x \in S |-> F(m[x])[x]]
<1>3. \A n \in Nat : UpTo(F(n), n)
  <2> HIDE DEF UpTo
  <2> QED BY <1>1
<1> HIDE DEF F
<1>4. G \in [S -> T]
  <2>1. ASSUME NEW x \in S PROVE F(m[x])[x] \in T
    <3>1. UpTo(F(m[x]), m[x])
      <4>1. m[x] \in Nat
        OBVIOUS
      <4> HIDE DEF UpTo
      <4> QED BY <1>3, <4>1
    <3> QED BY <3>1
  <2> QED BY <2>1
<1>5. ASSUME NEW x \in S PROVE Right(G, x)
  <2>1. m[x] \in Nat /\ p[x] \in S /\ m[p[x]] \in Nat
    OBVIOUS
  <2>2. UpTo(F(m[x]), m[x]) /\ UpTo(F(m[p[x]]), m[p[x]])
    <3> HIDE DEF UpTo
    <3> QED BY <1>3, <2>1
  <2>3. G[x] = F(m[x])[x] /\ G[p[x]] = F(m[p[x]])[p[x]]
    BY <2>1
  <2>4. Right(F(m[x]), x)
    BY <2>1, <2>2
  <2>5. CASE x \in B
    BY <2>3, <2>4, <2>5
  <2>6. CASE x \notin B
    <3>1. m[p[x]] < m[x] /\ m[p[x]] <= m[p[x]] /\ m[p[x]] <= m[x]
      BY <2>1, <2>6
    <3>2. F(m[x])[p[x]] = F(m[p[x]])[p[x]]
      <4> HIDE DEF UpTo
      <4> QED BY <1>2, <2>1, <2>2, <3>1
    <3> QED BY <2>3, <2>4, <2>6, <3>2
  <2> QED BY <2>5, <2>6
<1> HIDE DEF G
<1> QED BY <1>4, <1>5 DEF Follows

-----------------------------------------------------------------------------
IsPower(f) == f = [n \in Nat |-> IF n = 0 THEN 1 ELSE Radix * f[n - 1]]
LEMMA PowerIs ==
    /\ Power \in [Nat -> Nat \ {0}] /\ Power[0] = 1
    /\ \A n \in Nat : Power[n + 1] = Radix * Power[n]
<1> DEFINE p == [n \in Nat |-> IF n = 0 THEN 0 ELSE n - 1]
           m == [n \in Nat |-> n]
           b == [n \in Nat |-> 1]
           T == Nat \ {0}
           Z == {0}
           g == [q \in Nat \X T |-> Radix * q[2]]
<1>1. /\ p \in [Nat -> Nat] /\ m \in [Nat -> Nat] /\ b \in [Nat -> T]
      /\ Shrinks(Nat, Z, p, m)
  BY DEF Shrinks
<1>2. g \in [Nat \X T -> T]
  <2>1. ASSUME NEW q \in Nat \X T PROVE Radix * q[2] \in T
    BY CodecAssumption
  <2> QED BY <2>1
<1>3. PICK f \in [Nat -> T] : Follows(f, Nat, Z, p, b, g)
  <2> HIDE DEF p, m, b, g, T, Z
  <2> QED BY <1>1, <1>2, Recursion, Zenon
<1>4. \A n \in Nat : f[n] = IF n = 0 THEN 1 ELSE Radix * f[n - 1]
  <2> TAKE n \in Nat
  <2>1. CASE n = 0
    BY <1>3, <2>1 DEF Follows
  <2>2. CASE n # 0
    <3>1. n - 1 \in Nat /\ p[n] = n - 1 /\ <<n, f[n - 1]>> \in Nat \X T
      BY <2>2
    <3>2. g[<<n, f[n - 1]>>] = Radix * f[n - 1]
      BY <3>1
    <3> HIDE DEF g
    <3> QED BY <1>3, <2>2, <3>1, <3>2 DEF Follows
  <2> QED BY <2>1, <2>2
<1>5. IsPower(f)
  <2>1. f = [n \in Nat |-> f[n]]
    OBVIOUS
  <2> QED BY <1>4, <2>1 DEF IsPower
<1>6. IsPower(Power)
  BY <1>5, Zenon DEF IsPower, Power
<1> HIDE DEF p, m, b, g
<1>7. \A n \in Nat : Power[n] = IF n = 0 THEN 1 ELSE Radix * Power[n - 1]
  BY <1>6 DEF IsPower
<1>8. \A n \in Nat : Power[n] = f[n]
  <2> DEFINE Bad == {n \in Nat : Power[n] # f[n]}
  <2>1. SUFFICES ASSUME Bad # {} PROVE FALSE
    OBVIOUS
  <2>2. PICK n \in Bad : \A k \in Bad : n <= k
    <3>1. Bad \subseteq Nat
      OBVIOUS
    <3> HIDE DEF Bad
    <3> QED BY <2>1, <3>1, Least
  <2>3. n # 0
    BY <1>4, <1>7
  <2>4. n - 1 \in Nat /\ n - 1 \notin Bad
    BY <2>2, <2>3
  <2> QED BY <1>4, <1>7, <2>2, <2>3, <2>4
<1>9. Power = [n \in Nat |-> Power[n]]
  BY <1>6 DEF IsPower
<1>10. ASSUME NEW n \in Nat PROVE Power[n + 1] = Radix * Power[n]
  <2>1. n + 1 \in Nat /\ n + 1 # 0 /\ (n + 1) - 1 = n
    OBVIOUS
  <2> QED BY <1>7, <2>1
<1>11. Power \in [Nat -> Nat \ {0}]
  BY <1>8, <1>9 DEF T
<1> QED BY <1>7, <1>10, <1>11

-----------------------------------------------------------------------------
(* Numbers to any base.                                                     *)
LEMMA Scale ==
    ASSUME NEW a \in Nat, NEW c \in Nat, NEW d \in Nat, a < c
    PROVE  a * d + d <= c * d /\ a * d \in Nat /\ c * d \in Nat
BY SMT

LEMMA Quotient ==
    ASSUME NEW x \in Nat, NEW d \in Nat \ {0}
    PROVE  x \div d \in Nat /\ x % d \in 0..(d - 1) /\ x = (x \div d) * d + (x % d) /\ (x \div d) * d \in Nat
BY SMT

LEMMA QuotientIs ==
    ASSUME NEW x \in Nat, NEW d \in Nat \ {0}, NEW q \in Nat, NEW r \in 0..(d - 1), x = q * d + r
    PROVE  x \div d = q /\ x % d = r
<1> DEFINE e == x \div d
           s == x % d
<1>0. q * d \in Nat
  OBVIOUS
<1>1. e \in Nat /\ s \in 0..(d - 1) /\ x = e * d + s /\ e * d \in Nat /\ q * d \in Nat
  <2>1. x \div d \in Nat /\ x % d \in 0..(d - 1) /\ x = (x \div d) * d + (x % d) /\ (x \div d) * d \in Nat
    BY Quotient
  <2> QED BY <1>0, <2>1 DEF e, s
<1> HIDE DEF e, s
<1>2. ~(e < q)
  BY <1>1, Scale
<1>3. ~(q < e)
  BY <1>1, Scale
<1>4. e = q
  BY <1>1, <1>2, <1>3
<1>5. s = r
  BY <1>1, <1>4
<1> QED BY <1>4, <1>5 DEF e, s

LEMMA DivideTwice ==
    ASSUME NEW v \in Nat, NEW r \in Nat \ {0}, NEW d \in Nat \ {0}
    PROVE  v \div (r * d) = (v \div r) \div d
<1> DEFINE a == v \div r
           x == v % r
           c == a \div d
           e == a % d
<1>1. a \in Nat /\ x \in 0..(r - 1) /\ v = a * r + x
  BY Quotient
<1> HIDE DEF a, x
<1>2. c \in Nat /\ e \in 0..(d - 1) /\ a = c * d + e
  BY <1>1, Quotient
<1> HIDE DEF c, e
<1>3. r * d \in Nat \ {0}
  BY SMT
<1>4. v = c * (r * d) + (e * r + x)
  <2>1. a * r = c * (r * d) + e * r
    BY <1>1, <1>2, SMT
  <2>2. a * r \in Nat /\ e * r \in Nat /\ c * (r * d) \in Nat
    BY <1>1, <1>2, <1>3, SMT
  <2> QED BY <1>1, <2>1, <2>2
<1>5. e * r + x \in 0..(r * d - 1)
  <2>1. e * r + r <= d * r /\ e * r \in Nat /\ d * r = r * d
    BY <1>2, Scale
  <2> QED BY <1>1, <1>3, <2>1
<1>6. v \div (r * d) = c
  BY <1>2, <1>3, <1>4, <1>5, QuotientIs
<1> QED BY <1>6 DEF c, a

-----------------------------------------------------------------------------
(* Fixed integers.                                                          *)
IsValueOf(f) == f = [b \in Seq(Nat) |-> IF b = <<>> THEN 0 ELSE Head(b) + Radix * f[Tail(b)]]
LEMMA ValueOfIs ==
    /\ ValueOf[<<>>] = 0
    /\ \A b \in Seq(Nat) : b # <<>> => ValueOf[b] = Head(b) + Radix * ValueOf[Tail(b)]
<1> DEFINE S == Seq(Nat)
           p == [s \in S |-> IF s = <<>> THEN s ELSE Tail(s)]
           m == [s \in S |-> Len(s)]
           b == [s \in S |-> 0]
           Z == {<<>>}
           h == [s \in S |-> IF s = <<>> THEN 0 ELSE Head(s)]
           g == [q \in S \X Nat |-> h[q[1]] + Radix * q[2]]
<1>1. /\ p \in [S -> S] /\ m \in [S -> Nat] /\ b \in [S -> Nat] /\ h \in [S -> Nat]
      /\ Shrinks(S, Z, p, m)
  BY DEF Shrinks
<1>2. g \in [S \X Nat -> Nat]
  <2>1. ASSUME NEW q \in S \X Nat PROVE h[q[1]] + Radix * q[2] \in Nat
    <3>1. q[1] \in S /\ q[2] \in Nat
      OBVIOUS
    <3>2. h[q[1]] \in Nat
      BY <1>1, <3>1
    <3> HIDE DEF h, S
    <3> QED BY <3>1, <3>2, CodecAssumption
  <2> QED BY <2>1
<1>3. PICK f \in [S -> Nat] : Follows(f, S, Z, p, b, g)
  <2> HIDE DEF p, m, b, g, S, Z
  <2> QED BY <1>1, <1>2, Recursion, Zenon
<1>4. \A s \in S : f[s] = IF s = <<>> THEN 0 ELSE Head(s) + Radix * f[Tail(s)]
  <2> TAKE s \in S
  <2>1. CASE s = <<>>
    BY <1>3, <2>1 DEF Follows
  <2>2. CASE s # <<>>
    <3>1. Tail(s) \in S /\ p[s] = Tail(s) /\ h[s] = Head(s)
      BY <2>2
    <3>2. <<s, f[Tail(s)]>> \in S \X Nat
      BY <3>1
    <3>3. g[<<s, f[Tail(s)]>>] = Head(s) + Radix * f[Tail(s)]
      BY <3>1, <3>2
    <3> HIDE DEF g, p, b, h
    <3> QED BY <1>3, <2>2, <3>1, <3>3 DEF Follows
  <2> QED BY <2>1, <2>2
<1>5. IsValueOf(f)
  <2>1. f = [s \in S |-> f[s]]
    OBVIOUS
  <2> HIDE DEF p, m, b, g, h
  <2> QED BY <1>4, <2>1 DEF IsValueOf
<1>6. IsValueOf(ValueOf)
  <2> HIDE DEF p, m, b, g, h, Z, S
  <2> QED BY <1>5, Zenon DEF IsValueOf, ValueOf
<1> HIDE DEF p, m, b, g, h
<1>7. \A s \in Seq(Nat) : ValueOf[s] = IF s = <<>> THEN 0 ELSE Head(s) + Radix * ValueOf[Tail(s)]
  BY <1>6 DEF IsValueOf
<1>8. <<>> \in Seq(Nat)
  OBVIOUS
<1> QED BY <1>7, <1>8, Zenon

LEMMA ByteSeqs == \A s \in Seq(Byte) : s \in Seq(Nat)
<1>1. Byte \subseteq Nat
  BY CodecAssumption DEF Byte
<1> HIDE DEF Byte
<1> QED BY <1>1, SeqMonotonic

(* The k lowest digits of v, the lowest first.                              *)
Digits(v, k) == [i \in 1..k |-> (v \div Power[i - 1]) % Radix]

LEMMA DigitsAre ==
    ASSUME NEW v \in Nat, NEW k \in Nat
    PROVE  /\ Digits(v, k) \in Seq(Byte) /\ Len(Digits(v, k)) = k
           /\ \A i \in 1..k : Digits(v, k)[i] = (v \div Power[i - 1]) % Radix
<1>1. ASSUME NEW i \in 1..k PROVE (v \div Power[i - 1]) % Radix \in Byte
  <2>1. i - 1 \in Nat /\ Power[i - 1] \in Nat \ {0}
    BY PowerIs
  <2>2. v \div Power[i - 1] \in Nat
    BY <2>1, Quotient
  <2>3. Radix \in Nat \ {0}
    BY CodecAssumption
  <2> QED BY <2>2, <2>3, Quotient DEF Byte
<1> QED BY <1>1 DEF Digits

LEMMA DigitsStep ==
    ASSUME NEW v \in Nat, NEW k \in Nat
    PROVE  Head(Digits(v, k + 1)) = v % Radix /\ Tail(Digits(v, k + 1)) = Digits(v \div Radix, k)
<1>0. Radix \in Nat \ {0} /\ v \div Radix \in Nat /\ k + 1 \in Nat
  BY CodecAssumption, Quotient
<1> DEFINE a == Digits(v, k + 1)
           b == Digits(v \div Radix, k)
<1>1. /\ a \in Seq(Byte) /\ Len(a) = k + 1
      /\ \A i \in 1..(k + 1) : a[i] = (v \div Power[i - 1]) % Radix
  BY <1>0, DigitsAre
<1>2. /\ b \in Seq(Byte) /\ Len(b) = k
      /\ \A i \in 1..k : b[i] = ((v \div Radix) \div Power[i - 1]) % Radix
  BY <1>0, DigitsAre
<1> HIDE DEF a, b
<1>3. Head(a) = v % Radix
  <2>1. 1 \in 1..(k + 1) /\ 1 - 1 = 0 /\ Power[0] = 1
    BY PowerIs
  <2>2. v \div 1 = v
    OBVIOUS
  <2>3. a[1] = v % Radix
    BY <1>1, <2>1, <2>2
  <2> QED BY <1>1, <2>3
<1>4. ASSUME NEW i \in 1..k PROVE a[i + 1] = b[i]
  <2>1. i - 1 \in Nat /\ i + 1 \in 1..(k + 1) /\ (i + 1) - 1 = (i - 1) + 1
    OBVIOUS
  <2>2. Power[(i - 1) + 1] = Radix * Power[i - 1] /\ Power[i - 1] \in Nat \ {0}
    BY <2>1, PowerIs
  <2>3. v \div (Radix * Power[i - 1]) = (v \div Radix) \div Power[i - 1]
    BY <1>0, <2>2, DivideTwice
  <2> QED BY <1>1, <1>2, <2>1, <2>2, <2>3
<1>5. Tail(a) = b
  <2>1. Tail(a) \in Seq(Byte) /\ Len(Tail(a)) = k /\ \A i \in 1..k : Tail(a)[i] = a[i + 1]
    BY <1>1
  <2>2. Len(Tail(a)) = Len(b) /\ \A i \in 1..Len(Tail(a)) : Tail(a)[i] = b[i]
    BY <1>2, <1>4, <2>1
  <2> QED BY <1>2, <2>1, <2>2, SeqEqual
<1> QED BY <1>3, <1>5 DEF a, b

LEMMA DigitsValue ==
    ASSUME NEW k \in Nat, NEW v \in 0..(Power[k] - 1)
    PROVE  ValueOf[Digits(v, k)] = v
<1> DEFINE Bad == {j \in Nat : \E u \in 0..(Power[j] - 1) : ValueOf[Digits(u, j)] # u}
<1>1. SUFFICES ASSUME Bad # {} PROVE FALSE
  OBVIOUS
<1>2. PICK n \in Bad : \A j \in Bad : n <= j
  <2>1. Bad \subseteq Nat
    OBVIOUS
  <2> HIDE DEF Bad
  <2> QED BY <1>1, <2>1, Least
<1>3. PICK u \in 0..(Power[n] - 1) : ValueOf[Digits(u, n)] # u
  OBVIOUS
<1>4. CASE n = 0
  <2>1. u = 0
    BY <1>3, <1>4, PowerIs
  <2>2. Digits(u, 0) = <<>>
    <3>1. Digits(u, 0) \in Seq(Byte) /\ Len(Digits(u, 0)) = 0
      BY <2>1, DigitsAre
    <3> QED BY <3>1, EmptySeq
  <2> QED BY <1>3, <1>4, <2>1, <2>2, ValueOfIs
<1>5. CASE n # 0
  <2> DEFINE j == n - 1
             a == u \div Radix
  <2>1. j \in Nat /\ n = j + 1 /\ j \notin Bad
    BY <1>2, <1>5
  <2>2. Power[n] = Radix * Power[j] /\ Power[j] \in Nat \ {0} /\ Radix \in Nat \ {0} /\ Power[n] \in Nat
    BY <2>1, PowerIs, CodecAssumption
  <2>3. u \in Nat /\ u < Power[n]
    BY <2>2
  <2>4. a \in Nat /\ u % Radix \in 0..(Radix - 1) /\ u = a * Radix + (u % Radix) /\ a * Radix \in Nat
    BY <2>2, <2>3, Quotient
  <2> HIDE DEF j, a
  <2>5. a < Power[j]
    <3>1. SUFFICES ASSUME Power[j] <= a PROVE FALSE
      BY <2>2, <2>4
    <3>2. Power[j] * Radix <= a * Radix /\ Power[j] * Radix = Radix * Power[j]
      <4>1. CASE Power[j] = a
        BY <2>2, <2>4, <4>1
      <4>2. CASE Power[j] < a
        <5>1. Power[j] * Radix + Radix <= a * Radix /\ Power[j] * Radix \in Nat
          BY <2>2, <2>4, <4>2, Scale
        <5> QED BY <2>2, <2>4, <5>1
      <4> QED BY <2>2, <2>4, <3>1, <4>1, <4>2
    <3> QED BY <2>2, <2>3, <2>4, <3>2
  <2>6. ValueOf[Digits(a, j)] = a
    <3>1. a \in 0..(Power[j] - 1)
      BY <2>2, <2>4, <2>5
    <3> QED BY <2>1, <3>1
  <2>7. Head(Digits(u, j + 1)) = u % Radix /\ Tail(Digits(u, j + 1)) = Digits(a, j)
    BY <2>1, <2>3, DigitsStep DEF a
  <2>8. Digits(u, j + 1) \in Seq(Nat) /\ Digits(u, j + 1) # <<>>
    <3>1. Digits(u, j + 1) \in Seq(Byte) /\ Len(Digits(u, j + 1)) = j + 1
      BY <2>1, <2>3, DigitsAre
    <3>2. Digits(u, j + 1) \in Seq(Nat)
      BY <3>1, ByteSeqs
    <3> QED BY <2>1, <3>1, <3>2
  <2>9. ValueOf[Digits(u, j + 1)] = (u % Radix) + Radix * a
    BY <2>6, <2>7, <2>8, ValueOfIs
  <2>10. Radix * a = a * Radix
    BY <2>2, <2>4
  <2> QED BY <1>3, <2>1, <2>4, <2>9, <2>10
<1> QED BY <1>4, <1>5

LEMMA ByteSwapIs ==
    ASSUME NEW S, NEW b \in Seq(S)
    PROVE  /\ ByteSwap(b) \in Seq(S) /\ Len(ByteSwap(b)) = Len(b)
           /\ \A i \in 1..Len(b) : ByteSwap(b)[i] = b[Len(b) + 1 - i]
<1>1. ASSUME NEW i \in 1..Len(b) PROVE b[Len(b) + 1 - i] \in S
  <2>1. Len(b) + 1 - i \in 1..Len(b)
    OBVIOUS
  <2> QED BY <2>1, ElementOfSeq
<1>2. Len(b) \in Nat
  OBVIOUS
<1> QED BY <1>1, <1>2 DEF ByteSwap

LEMMA SwapTwice ==
    ASSUME NEW S, NEW b \in Seq(S)
    PROVE  ByteSwap(ByteSwap(b)) = b
<1> DEFINE c == ByteSwap(b)
           d == ByteSwap(c)
           n == Len(b)
<1>1. c \in Seq(S) /\ Len(c) = n /\ \A i \in 1..n : c[i] = b[n + 1 - i]
  BY ByteSwapIs
<1> HIDE DEF c
<1>2. d \in Seq(S) /\ Len(d) = n /\ \A i \in 1..n : d[i] = c[n + 1 - i]
  BY <1>1, ByteSwapIs
<1> HIDE DEF d
<1>3. ASSUME NEW i \in 1..n PROVE d[i] = b[i]
  <2>1. n + 1 - i \in 1..n /\ n + 1 - (n + 1 - i) = i
    OBVIOUS
  <2> QED BY <1>1, <1>2, <2>1
<1>4. d = b
  BY <1>2, <1>3, SeqEqual
<1> QED BY <1>4 DEF c, d

LEMMA EncodeFixedTyped ==
    ASSUME NEW v \in Nat, NEW order
    PROVE  EncodeFixed(v, order) \in Seq(Byte) /\ Len(EncodeFixed(v, order)) = Width
<1>0. Width \in Nat
  BY CodecAssumption
<1>1. HostBytes(v) \in Seq(Byte) /\ Len(HostBytes(v)) = Width
  <2> DEFINE P(i) == Power[IF HostOrder = "little" THEN i - 1 ELSE Width - i]
  <2>1. ASSUME NEW i \in 1..Width PROVE (v \div P(i)) % Radix \in Byte
    <3>1. i - 1 \in Nat /\ Width - i \in Nat
      BY <1>0
    <3>2. P(i) \in Nat \ {0}
      BY <3>1, PowerIs
    <3> HIDE DEF P
    <3>3. v \div P(i) \in Nat
      BY <3>2, Quotient
    <3>4. Radix \in Nat \ {0}
      BY CodecAssumption
    <3> QED BY <3>3, <3>4, Quotient DEF Byte
  <2>2. HostBytes(v) = [i \in 1..Width |-> (v \div P(i)) % Radix]
    BY DEF HostBytes
  <2> HIDE DEF P
  <2> QED BY <1>0, <2>1, <2>2
<1> QED BY <1>1, ByteSwapIs DEF EncodeFixed

LEMMA FixedRoundTrip ==
    ASSUME HostOrder = "little", NEW v \in Unsigned, NEW order \in Orders
    PROVE  DecodeFixed(EncodeFixed(v, order), order) = v
<1>1. Width \in Nat /\ v \in 0..(Power[Width] - 1)
  BY CodecAssumption DEF Unsigned, Word
<1>2. v \in Nat
  <2>1. Power[Width] \in Nat
    BY <1>1, PowerIs
  <2> QED BY <1>1, <2>1
<1>3. HostBytes(v) = Digits(v, Width)
  BY DEF HostBytes, Digits
<1>4. HostBytes(v) \in Seq(Byte)
  BY <1>1, <1>2, <1>3, DigitsAre
<1>5. ByteSwap(ByteSwap(HostBytes(v))) = HostBytes(v)
  BY <1>4, SwapTwice
<1>6. ValueOf[HostBytes(v)] = v
  BY <1>1, <1>3, DigitsValue
<1>7. CASE order = "big"
  <2>1. EncodeFixed(v, order) = ByteSwap(HostBytes(v))
    BY <1>7 DEF EncodeFixed
  <2>2. DecodeFixed(EncodeFixed(v, order), order) = HostValue(HostBytes(v))
    BY <1>5, <1>7, <2>1 DEF DecodeFixed
  <2> QED BY <1>6, <2>2 DEF HostValue
<1>8. CASE order = "little"
  <2>1. EncodeFixed(v, order) = HostBytes(v)
    BY <1>8 DEF EncodeFixed
  <2>2. DecodeFixed(EncodeFixed(v, order), order) = HostValue(HostBytes(v))
    BY <1>8, <2>1 DEF DecodeFixed
  <2> QED BY <1>6, <2>2 DEF HostValue
<1> QED BY <1>7, <1>8 DEF Orders

-----------------------------------------------------------------------------
(* Varints.                                                                 *)
LEMMA HalfIs == Half \in Nat /\ Half >= 2 /\ Radix = 2 * Half /\ Byte = 0..(2 * Half - 1)
<1>1. Radix \in Nat /\ Radix > 2 /\ Radix % 2 = 0
  BY CodecAssumption
<1>2. Radix \div 2 \in Nat /\ Radix = (Radix \div 2) * 2 + (Radix % 2)
  BY <1>1, Quotient
<1> QED BY <1>1, <1>2 DEF Half, Byte

LEMMA SmallerQuotient ==
    ASSUME NEW v \in Nat, v >= Half
    PROVE  v \div Half \in Nat /\ v \div Half < v
<1> DEFINE q == v \div Half
<1>0. Half \in Nat \ {0} /\ Half >= 2
  BY HalfIs
<1>1. q \in Nat /\ v % Half \in 0..(Half - 1) /\ v = q * Half + (v % Half) /\ q * Half \in Nat
  BY <1>0, Quotient
<1> HIDE DEF q
<1>2. q # 0
  BY <1>0, <1>1
<1>3. q * Half >= q + q
  BY <1>0, <1>1, SMT
<1>4. q < v
  BY <1>0, <1>1, <1>2, <1>3
<1> QED BY <1>1, <1>4 DEF q

IsEncodeVarint(f) ==
    f = [v \in Nat |-> IF v >= Half THEN <<(v % Half) + Half>> \o f[v \div Half] ELSE <<v>>]
LEMMA EncodeVarintIs ==
    \A v \in Nat : EncodeVarint[v] = IF v >= Half THEN <<(v % Half) + Half>> \o EncodeVarint[v \div Half]
                                     ELSE <<v>>
<1> DEFINE Z == {v \in Nat : ~(v >= Half)}
           T == Seq(Nat)
           p == [v \in Nat |-> v \div Half]
           m == [v \in Nat |-> v]
           b == [v \in Nat |-> <<v>>]
           h == [v \in Nat |-> (v % Half) + Half]
           g == [q \in Nat \X T |-> <<h[q[1]]>> \o q[2]]
<1>0. Half \in Nat \ {0} /\ Half >= 2
  BY HalfIs
<1>1. p \in [Nat -> Nat] /\ m \in [Nat -> Nat] /\ b \in [Nat -> T] /\ h \in [Nat -> Nat]
  <2>1. ASSUME NEW v \in Nat PROVE v \div Half \in Nat /\ (v % Half) + Half \in Nat
    <3>1. v \div Half \in Nat /\ v % Half \in 0..(Half - 1)
      BY <1>0, Quotient
    <3> QED BY <1>0, <3>1
  <2> QED BY <2>1
<1>2. Shrinks(Nat, Z, p, m)
  <2>1. ASSUME NEW v \in Nat, v >= Half PROVE v \div Half < v
    BY <2>1, SmallerQuotient
  <2>2. ASSUME NEW v \in Nat, v \notin Z PROVE m[p[v]] < m[v]
    <3>1. v >= Half /\ p[v] = v \div Half /\ p[v] \in Nat /\ m[v] = v
      BY <1>1, <2>2
    <3>2. m[p[v]] = p[v]
      BY <3>1
    <3> HIDE DEF m, p
    <3> QED BY <2>1, <3>1, <3>2
  <2> HIDE DEF m, p, Z
  <2> QED BY <2>2 DEF Shrinks
<1>3. g \in [Nat \X T -> T]
  <2>1. ASSUME NEW q \in Nat \X T PROVE <<h[q[1]]>> \o q[2] \in T
    <3>1. q[1] \in Nat /\ q[2] \in T
      OBVIOUS
    <3>2. h[q[1]] \in Nat
      BY <1>1, <3>1
    <3> HIDE DEF h
    <3> QED BY <3>1, <3>2
  <2> QED BY <2>1
<1>4. PICK f \in [Nat -> T] : Follows(f, Nat, Z, p, b, g)
  <2> HIDE DEF p, m, b, g, T, Z
  <2> QED BY <1>1, <1>2, <1>3, Recursion, Zenon
<1>5. \A v \in Nat : f[v] = IF v >= Half THEN <<(v % Half) + Half>> \o f[v \div Half] ELSE <<v>>
  <2> TAKE v \in Nat
  <2>1. CASE v \in Z
    <3>1. f[v] = b[v]
      BY <1>4, <2>1, Zenon DEF Follows
    <3> QED BY <2>1, <3>1
  <2>2. CASE v \notin Z
    <3>1. v \div Half \in Nat /\ p[v] = v \div Half /\ h[v] = (v % Half) + Half
      BY <1>1
    <3>2. <<v, f[v \div Half]>> \in Nat \X T
      BY <3>1
    <3>3. g[<<v, f[v \div Half]>>] = <<h[v]>> \o f[v \div Half]
      BY <3>2
    <3>4. f[v] = g[<<v, f[v \div Half]>>]
      <4> HIDE DEF g, p, b, h, Z, T
      <4> QED BY <1>4, <2>2, <3>1, Zenon DEF Follows
    <3> HIDE DEF g, p, b, h
    <3> QED BY <2>2, <3>1, <3>3, <3>4
  <2> QED BY <2>1, <2>2
<1>6. IsEncodeVarint(f)
  <2>1. f = [v \in Nat |-> f[v]]
    OBVIOUS
  <2> HIDE DEF p, m, b, g, h, Z
  <2> QED BY <1>5, <2>1 DEF IsEncodeVarint
<1>7. IsEncodeVarint(EncodeVarint)
  <2> HIDE DEF p, m, b, g, h, Z, T
  <2> QED BY <1>6, Zenon DEF IsEncodeVarint, EncodeVarint
<1> HIDE DEF p, m, b, g, h, Z
<1> QED BY <1>7 DEF IsEncodeVarint

IsDecodeVarint(f) == f = [b \in Seq(Nat) |-> IF b = <<>> THEN 0 ELSE (Head(b) % Half) + Half * f[Tail(b)]]
LEMMA DecodeVarintIs ==
    /\ DecodeVarint[<<>>] = 0
    /\ \A b \in Seq(Nat) : b # <<>> => DecodeVarint[b] = (Head(b) % Half) + Half * DecodeVarint[Tail(b)]
<1> DEFINE S == Seq(Nat)
           p == [s \in S |-> IF s = <<>> THEN s ELSE Tail(s)]
           m == [s \in S |-> Len(s)]
           b == [s \in S |-> 0]
           Z == {<<>>}
           h == [s \in S |-> IF s = <<>> THEN 0 ELSE Head(s) % Half]
           g == [q \in S \X Nat |-> h[q[1]] + Half * q[2]]
<1>0. Half \in Nat \ {0}
  BY HalfIs
<1>1. /\ p \in [S -> S] /\ m \in [S -> Nat] /\ b \in [S -> Nat]
      /\ Shrinks(S, Z, p, m)
  BY DEF Shrinks
<1>2. h \in [S -> Nat]
  <2>1. ASSUME NEW s \in S, s # <<>> PROVE Head(s) % Half \in Nat
    <3>1. Head(s) \in Nat
      BY <2>1
    <3>2. Head(s) % Half \in 0..(Half - 1)
      BY <1>0, <3>1, Quotient
    <3> QED BY <1>0, <3>2
  <2> QED BY <2>1
<1>3. g \in [S \X Nat -> Nat]
  <2>1. ASSUME NEW q \in S \X Nat PROVE h[q[1]] + Half * q[2] \in Nat
    <3>1. q[1] \in S /\ q[2] \in Nat
      OBVIOUS
    <3>2. h[q[1]] \in Nat
      BY <1>2, <3>1
    <3> HIDE DEF h, S
    <3> QED BY <1>0, <3>1, <3>2
  <2> QED BY <2>1
<1>4. PICK f \in [S -> Nat] : Follows(f, S, Z, p, b, g)
  <2> HIDE DEF p, m, b, g, S, Z
  <2> QED BY <1>1, <1>3, Recursion, Zenon
<1>5. \A s \in S : f[s] = IF s = <<>> THEN 0 ELSE (Head(s) % Half) + Half * f[Tail(s)]
  <2> TAKE s \in S
  <2>1. CASE s = <<>>
    BY <1>4, <2>1 DEF Follows
  <2>2. CASE s # <<>>
    <3>1. Tail(s) \in S /\ p[s] = Tail(s) /\ h[s] = Head(s) % Half
      BY <2>2
    <3>2. <<s, f[Tail(s)]>> \in S \X Nat
      BY <3>1
    <3>3. g[<<s, f[Tail(s)]>>] = (Head(s) % Half) + Half * f[Tail(s)]
      BY <3>1, <3>2
    <3> HIDE DEF g, p, b, h
    <3> QED BY <1>4, <2>2, <3>1, <3>3 DEF Follows
  <2> QED BY <2>1, <2>2
<1>6. IsDecodeVarint(f)
  <2>1. f = [s \in S |-> f[s]]
    OBVIOUS
  <2> HIDE DEF p, m, b, g, h
  <2> QED BY <1>5, <2>1 DEF IsDecodeVarint
<1>7. IsDecodeVarint(DecodeVarint)
  <2> HIDE DEF p, m, b, g, h, Z, S
  <2> QED BY <1>6, Zenon DEF IsDecodeVarint, DecodeVarint
<1> HIDE DEF p, m, b, g, h
<1>8. \A s \in Seq(Nat) : DecodeVarint[s] = IF s = <<>> THEN 0 ELSE (Head(s) % Half) + Half * DecodeVarint[Tail(s)]
  BY <1>7 DEF IsDecodeVarint
<1>9. <<>> \in Seq(Nat)
  OBVIOUS
<1> QED BY <1>8, <1>9, Zenon

(* The groups of v: every byte but the last one has the top bit, and they   *)
(* decode to v.                                                             *)
Grouped(v) ==
    LET e == EncodeVarint[v] IN
    /\ e \in Seq(Byte) /\ Len(e) \in Nat \ {0}
    /\ \A i \in 1..Len(e) : e[i] >= Half <=> i < Len(e)
    /\ DecodeVarint[e] = v

LEMMA GroupedStep ==
    ASSUME NEW v \in Nat, v >= Half, v \div Half \in Nat, Grouped(v \div Half)
    PROVE  Grouped(v) /\ Len(EncodeVarint[v]) = Len(EncodeVarint[v \div Half]) + 1
<1> DEFINE q == v \div Half
           r == v % Half
           t == EncodeVarint[q]
           e == EncodeVarint[v]
<1>1. Half \in Nat \ {0} /\ Half >= 2 /\ Byte = 0..(2 * Half - 1)
  BY HalfIs
<1>2. q \in Nat /\ r \in 0..(Half - 1) /\ v = q * Half + r /\ q * Half \in Nat
  BY <1>1, Quotient
<1>3. e = <<r + Half>> \o t
  BY EncodeVarintIs
<1>4. /\ t \in Seq(Byte) /\ Len(t) \in Nat \ {0}
      /\ \A i \in 1..Len(t) : t[i] >= Half <=> i < Len(t)
      /\ DecodeVarint[t] = q
  BY DEF Grouped
<1> HIDE DEF q, r, t, e
<1>5. r + Half \in Byte /\ r + Half \in Nat /\ r + Half >= Half
  BY <1>1, <1>2
<1>6. <<r + Half>> \in Seq(Byte) /\ Len(<<r + Half>>) = 1 /\ <<r + Half>>[1] = r + Half
  BY <1>5
<1>7. /\ e \in Seq(Byte) /\ Len(e) = 1 + Len(t)
      /\ \A i \in 1..(1 + Len(t)) : e[i] = IF i <= 1 THEN <<r + Half>>[i] ELSE t[i - 1]
  BY <1>3, <1>4, <1>6, ConcatProperties
<1>8. ASSUME NEW i \in 1..Len(e) PROVE e[i] >= Half <=> i < Len(e)
  <2>1. CASE i = 1
    BY <1>1, <1>4, <1>5, <1>6, <1>7, <2>1
  <2>2. CASE i # 1
    <3>1. i - 1 \in 1..Len(t) /\ e[i] = t[i - 1] /\ (i - 1 < Len(t) <=> i < Len(e))
      BY <1>4, <1>7, <2>2
    <3> QED BY <1>4, <3>1
  <2> QED BY <2>1, <2>2
<1>9. DecodeVarint[e] = v
  <2>1. e \in Seq(Nat) /\ e # <<>>
    <3>1. e \in Seq(Nat)
      BY <1>7, ByteSeqs
    <3> QED BY <1>4, <1>7, <3>1
  <2>2. Head(e) = r + Half
    BY <1>4, <1>6, <1>7
  <2>3. Tail(e) = t
    <3>1. Tail(e) \in Seq(Byte) /\ Len(Tail(e)) = Len(t) /\ \A i \in 1..Len(t) : Tail(e)[i] = e[i + 1]
      BY <1>4, <1>7, <2>1
    <3>2. ASSUME NEW i \in 1..Len(t) PROVE Tail(e)[i] = t[i]
      <4>1. i + 1 \in 1..(1 + Len(t)) /\ ~(i + 1 <= 1) /\ (i + 1) - 1 = i
        BY <1>4
      <4> QED BY <1>7, <3>1, <4>1
    <3> QED BY <1>4, <3>1, <3>2, SeqEqual
  <2>4. (r + Half) % Half = r
    <3>1. r + Half = 1 * Half + r
      BY <1>1, <1>2
    <3> QED BY <1>1, <1>2, <1>5, <3>1, QuotientIs
  <2>5. DecodeVarint[e] = r + Half * q
    BY <1>4, <2>1, <2>2, <2>3, <2>4, DecodeVarintIs
  <2>6. Half * q = q * Half
    BY <1>1, <1>2
  <2> QED BY <1>2, <2>5, <2>6
<1>10. Len(e) \in Nat \ {0} /\ Len(e) = Len(t) + 1
  BY <1>4, <1>7
<1> QED BY <1>7, <1>8, <1>9, <1>10 DEF Grouped, e, t, q

LEMMA AllGrouped == \A v \in Nat : Grouped(v) /\ (v < Half => Len(EncodeVarint[v]) = 1)
<1>1. ASSUME NEW v \in Nat, v < Half
      PROVE  Grouped(v) /\ Len(EncodeVarint[v]) = 1
  <2>1. Half \in Nat \ {0} /\ Half >= 2 /\ Byte = 0..(2 * Half - 1)
    BY HalfIs
  <2>2. EncodeVarint[v] = <<v>>
    <3>1. ~(v >= Half)
      BY <1>1, <2>1
    <3> QED BY <3>1, EncodeVarintIs, Zenon
  <2>3. v \in Byte /\ <<v>> \in Seq(Byte) /\ <<v>> \in Seq(Nat) /\ Len(<<v>>) = 1 /\ <<v>>[1] = v
    BY <1>1, <2>1
  <2>4. Head(<<v>>) = v /\ Tail(<<v>>) = <<>> /\ <<v>> # <<>>
    OBVIOUS
  <2>5. v % Half = v
    <3>1. v = 0 * Half + v /\ v \in 0..(Half - 1)
      BY <1>1, <2>1
    <3> QED BY <2>1, <3>1, QuotientIs
  <2>6. DecodeVarint[<<v>>] = v
    <3>1. DecodeVarint[<<v>>] = (v % Half) + Half * DecodeVarint[<<>>]
      BY <2>3, <2>4, DecodeVarintIs
    <3>2. DecodeVarint[<<>>] = 0
      BY DecodeVarintIs
    <3> QED BY <2>1, <2>5, <3>1, <3>2
  <2> QED BY <1>1, <2>1, <2>2, <2>3, <2>6 DEF Grouped
<1>2. SUFFICES \A v \in Nat : Grouped(v)
  BY <1>1
<1> DEFINE Bad == {v \in Nat : ~Grouped(v)}
<1>3. SUFFICES ASSUME Bad # {} PROVE FALSE
  OBVIOUS
<1>4. PICK v \in Bad : \A u \in Bad : v <= u
  <2>1. Bad \subseteq Nat
    OBVIOUS
  <2> HIDE DEF Bad
  <2> QED BY <1>3, <2>1, Least
<1>5. v >= Half
  BY <1>1, <1>4, HalfIs
<1>6. v \div Half \in Nat /\ v \div Half < v
  BY <1>4, <1>5, SmallerQuotient
<1>7. Grouped(v \div Half)
  BY <1>4, <1>6
<1> QED BY <1>4, <1>5, <1>6, <1>7, GroupedStep

(* A smaller number has no more groups.                                     *)
NoLonger(u, v) == Len(EncodeVarint[u]) <= Len(EncodeVarint[v])
LEMMA MonotoneGroups == \A v \in Nat : \A u \in 0..v : NoLonger(u, v)
<1> DEFINE Bad == {v \in Nat : \E u \in 0..v : ~NoLonger(u, v)}
<1>1. SUFFICES ASSUME Bad # {} PROVE FALSE
  OBVIOUS
<1>2. PICK v \in Bad : \A u \in Bad : v <= u
  <2>1. Bad \subseteq Nat
    OBVIOUS
  <2> HIDE DEF Bad
  <2> QED BY <1>1, <2>1, Least
<1>3. PICK u \in 0..v : ~NoLonger(u, v)
  OBVIOUS
<1>4. u \in Nat /\ v \in Nat /\ u <= v /\ Half \in Nat \ {0}
  BY HalfIs
<1>5. Len(EncodeVarint[u]) \in Nat \ {0} /\ Len(EncodeVarint[v]) \in Nat \ {0}
  BY <1>4, AllGrouped DEF Grouped
<1>6. u >= Half
  <2>1. SUFFICES ASSUME u < Half PROVE FALSE
    BY <1>4
  <2>2. Len(EncodeVarint[u]) = 1
    BY <1>4, <2>1, AllGrouped
  <2> QED BY <1>3, <1>5, <2>2 DEF NoLonger
<1>7. v >= Half
  BY <1>4, <1>6
<1> DEFINE a == u \div Half
           c == v \div Half
<1>8. a \in Nat /\ c \in Nat /\ c < v
  BY <1>4, <1>6, <1>7, SmallerQuotient
<1>9. Len(EncodeVarint[u]) = Len(EncodeVarint[a]) + 1 /\ Len(EncodeVarint[v]) = Len(EncodeVarint[c]) + 1
  BY <1>4, <1>6, <1>7, <1>8, AllGrouped, GroupedStep
<1>10. a <= c
  <2>1. u % Half \in 0..(Half - 1) /\ u = a * Half + (u % Half) /\ a * Half \in Nat
    BY <1>4, Quotient
  <2>2. v % Half \in 0..(Half - 1) /\ v = c * Half + (v % Half) /\ c * Half \in Nat
    BY <1>4, Quotient
  <2> HIDE DEF a, c
  <2>3. SUFFICES ASSUME c < a PROVE FALSE
    BY <1>8
  <2>4. c * Half + Half <= a * Half
    BY <1>4, <1>8, <2>3, Scale
  <2> QED BY <1>4, <2>1, <2>2, <2>4
<1>11. NoLonger(a, c)
  <2> HIDE DEF a, c
  <2>1. c \notin Bad /\ a \in 0..c
    BY <1>2, <1>4, <1>8, <1>10
  <2> QED BY <1>8, <2>1
<1>12. Len(EncodeVarint[a]) \in Nat /\ Len(EncodeVarint[c]) \in Nat
  BY <1>8, AllGrouped DEF Grouped
<1> HIDE DEF a, c
<1> QED BY <1>3, <1>9, <1>11, <1>12 DEF NoLonger

LEMMA WordIs == Word \in Nat \ {0}
BY PowerIs, CodecAssumption DEF Word

LEMMA VarintRoundTrip ==
    ASSUME NEW v \in Unsigned
    PROVE  /\ EncodeVarint[v] \in Seq(Byte) /\ VarintLen(EncodeVarint[v]) = Len(EncodeVarint[v])
           /\ DecodeVarint[EncodeVarint[v]] = v
<1> DEFINE e == EncodeVarint[v]
           ends == {i \in 1..Len(e) : e[i] < Half \/ i = Groups}
<1>1. v \in Nat /\ Word - 1 \in Nat /\ v \in 0..(Word - 1) /\ Half \in Nat /\ Groups \in Nat
  BY WordIs, HalfIs, CodecAssumption DEF Unsigned
<1>2. /\ e \in Seq(Byte) /\ Len(e) \in Nat \ {0}
      /\ \A i \in 1..Len(e) : e[i] >= Half <=> i < Len(e)
      /\ DecodeVarint[e] = v
  BY <1>1, AllGrouped DEF Grouped
<1>3. Len(e) <= Groups
  <2>1. NoLonger(v, Word - 1)
    BY <1>1, MonotoneGroups
  <2>2. Len(EncodeVarint[Word - 1]) \in Nat
    BY <1>1, AllGrouped DEF Grouped
  <2> QED BY <1>1, <1>2, <2>1, <2>2, GroupsAssumption DEF NoLonger
<1>4. VarintLen(e) = IF ends = {} THEN Len(e) + 1 ELSE CHOOSE i \in ends : \A j \in ends : i <= j
  BY DEF VarintLen
<1> HIDE DEF e
<1>5. \A i \in 1..Len(e) : e[i] \in Nat
  BY <1>2, ByteSeqs
<1>6. ends = {Len(e)}
  <2>1. ASSUME NEW i \in 1..Len(e) PROVE i \in ends <=> i = Len(e)
    BY <1>1, <1>2, <1>3, <1>5
  <2>2. ends \subseteq 1..Len(e) /\ Len(e) \in 1..Len(e)
    BY <1>2
  <2> HIDE DEF ends
  <2> QED BY <2>1, <2>2
<1> HIDE DEF ends
<1>7. VarintLen(e) = Len(e)
  <2>1. VarintLen(e) = CHOOSE i \in ends : \A j \in ends : i <= j
    BY <1>4, <1>6
  <2>2. \E i \in ends : \A j \in ends : i <= j
    BY <1>2, <1>6
  <2>3. VarintLen(e) \in ends
    BY <2>1, <2>2, Zenon
  <2> QED BY <1>6, <2>3
<1> QED BY <1>2, <1>7 DEF e

-----------------------------------------------------------------------------
(* Zigzag: half of the words are even.                                      *)
LEMMA WordEven == Word \div 2 \in Nat \ {0} /\ Word = 2 * (Word \div 2)
<1> DEFINE k == Width - 1
<1>1. k \in Nat /\ Width = k + 1
  BY CodecAssumption
<1> HIDE DEF k
<1>2. Power[k] \in Nat \ {0} /\ Word = Radix * Power[k]
  BY <1>1, PowerIs DEF Word
<1>3. Half \in Nat /\ Half >= 2 /\ Radix = 2 * Half
  BY HalfIs
<1> DEFINE h == Half * Power[k]
<1>4. h \in Nat \ {0} /\ Word = 2 * h
  BY <1>2, <1>3, SMT
<1> HIDE DEF h
<1>5. Word = h * 2 + 0 /\ Word \in Nat /\ 2 \in Nat \ {0} /\ 0 \in 0..(2 - 1) /\ h \in Nat
  BY <1>4
<1>6. Word \div 2 = h
  BY <1>5, QuotientIs
<1> QED BY <1>4, <1>6

LEMMA Remainder ==
    ASSUME NEW x \in Nat, NEW d \in Nat, x < d
    PROVE  x % d = x
<1>1. d \in Nat \ {0} /\ x \in 0..(d - 1) /\ x = 0 * d + x /\ 0 \in Nat
  OBVIOUS
<1> QED BY <1>1, QuotientIs

LEMMA ZigzagRoundTrip ==
    ASSUME NEW v \in Signed
    PROVE  EncodeZigzag(v) \in Unsigned /\ DecodeZigzag(EncodeZigzag(v)) = v
<1> DEFINE h == Word \div 2
<1>1. h \in Nat \ {0} /\ Word = 2 * h /\ v \in (-h)..(h - 1) /\ Word \in Nat
  BY WordEven DEF Signed
<1> HIDE DEF h
<1>2. CASE v < 0
  <2> DEFINE q == (-v) - 1
             u == 2 * (-v) - 1
  <2>1. q \in Nat /\ u \in Nat /\ u < Word /\ -v \in Nat /\ -v < Word /\ u = q * 2 + 1 /\ u \in 0..(Word - 1)
    BY <1>1, <1>2
  <2>2. (-v) % Word = -v
    BY <1>1, <2>1, Remainder
  <2>3. u % Word = u
    BY <1>1, <2>1, Remainder
  <2>4. EncodeZigzag(v) = u
    BY <1>2, <2>2, <2>3 DEF EncodeZigzag
  <2>5. u \div 2 = q /\ u % 2 = 1
    <3>1. 2 \in Nat \ {0} /\ 1 \in 0..(2 - 1)
      OBVIOUS
    <3> HIDE DEF q, u
    <3> QED BY <2>1, <3>1, QuotientIs
  <2>6. DecodeZigzag(u) = -q - 1
    BY <2>5 DEF DecodeZigzag
  <2>7. -q - 1 = v
    BY <1>1
  <2> QED BY <2>1, <2>4, <2>6, <2>7 DEF Unsigned
<1>3. CASE ~(v < 0)
  <2> DEFINE u == 2 * v
  <2>1. v \in Nat /\ u \in Nat /\ u < Word /\ u = v * 2 + 0 /\ u \in 0..(Word - 1)
    BY <1>1, <1>3
  <2>2. u % Word = u
    BY <1>1, <2>1, Remainder
  <2>3. EncodeZigzag(v) = u
    BY <1>3, <2>2 DEF EncodeZigzag
  <2>4. u \div 2 = v /\ u % 2 = 0
    <3>1. 2 \in Nat \ {0} /\ 0 \in 0..(2 - 1)
      OBVIOUS
    <3> HIDE DEF u
    <3> QED BY <2>1, <3>1, QuotientIs
  <2>5. DecodeZigzag(u) = v
    BY <2>4 DEF DecodeZigzag
  <2> QED BY <2>1, <2>3, <2>5 DEF Unsigned
<1> QED BY <1>2, <1>3

-----------------------------------------------------------------------------
(* Strings: the length in front, then the bytes.                            *)
LEMMA StringRoundTrip ==
    ASSUME HostOrder = "little", NEW v \in Seq(Byte), Len(v) < Word, NEW order \in Orders
    PROVE  LET b == EncodeFixed(Len(v), order) \o v IN
           /\ Need("string", b, order) = Len(b)
           /\ Decode("string", b, order) = v
<1> DEFINE n == Len(v)
           a == EncodeFixed(n, order)
           b == a \o v
<1>1. n \in Nat /\ Width \in Nat /\ n \in Unsigned
  BY WordIs, CodecAssumption DEF Unsigned
<1>2. a \in Seq(Byte) /\ Len(a) = Width
  BY <1>1, EncodeFixedTyped
<1>3. DecodeFixed(a, order) = n
  BY <1>1, FixedRoundTrip
<1> HIDE DEF a
<1>4. /\ b \in Seq(Byte) /\ Len(b) = Width + n
      /\ \A i \in 1..(Width + n) : b[i] = IF i <= Width THEN a[i] ELSE v[i - Width]
  BY <1>1, <1>2, ConcatProperties
<1> HIDE DEF b
<1>5. SubSeq(b, 1, Width) = a
  <2> DEFINE s == SubSeq(b, 1, Width)
  <2>1. \A i \in 1..Width : b[i] \in Byte
    BY <1>1, <1>4
  <2>2. s \in Seq(Byte) /\ Len(s) = Width /\ \A i \in 1..Width : s[i] = b[i]
    <3>1. 1 \in Int /\ Width \in Int
      BY <1>1
    <3>2. /\ s \in Seq(Byte) /\ Len(s) = (IF 1 <= Width THEN Width - 1 + 1 ELSE 0)
          /\ \A i \in 1..(Width - 1 + 1) : s[i] = b[1 + i - 1]
      BY <2>1, <3>1, SubSeqProperties
    <3> HIDE DEF s
    <3> QED BY <1>1, <3>2
  <2> HIDE DEF s
  <2>3. \A i \in 1..Width : s[i] = a[i]
    BY <1>1, <1>4, <2>2
  <2>4. s = a
    BY <1>2, <2>2, <2>3, SeqEqual
  <2> QED BY <2>4 DEF s
<1>6. SubSeq(b, Width + 1, Len(b)) = v
  <2> DEFINE s == SubSeq(b, Width + 1, Len(b))
  <2>1. \A i \in (Width + 1)..Len(b) : b[i] \in Byte
    BY <1>1, <1>4
  <2>2. s \in Seq(Byte) /\ Len(s) = n /\ \A i \in 1..n : s[i] = b[Width + i]
    <3>1. Width + 1 \in Int /\ Len(b) \in Int
      BY <1>1, <1>4
    <3>2. /\ s \in Seq(Byte)
          /\ Len(s) = (IF Width + 1 <= Len(b) THEN Len(b) - (Width + 1) + 1 ELSE 0)
          /\ \A i \in 1..(Len(b) - (Width + 1) + 1) : s[i] = b[(Width + 1) + i - 1]
      BY <2>1, <3>1, SubSeqProperties
    <3> HIDE DEF s, n
    <3> QED BY <1>1, <1>4, <3>2
  <2> HIDE DEF s
  <2>3. \A i \in 1..n : s[i] = v[i]
    BY <1>1, <1>4, <2>2
  <2>4. s = v
    BY <2>2, <2>3, SeqEqual
  <2> QED BY <2>4 DEF s
<1>7. Need("string", b, order) = Width + n
  <2>1. ~(Len(b) < Width)
    BY <1>1, <1>4
  <2>2. Need("string", b, order) = Width + DecodeFixed(SubSeq(b, 1, Width), order)
    BY <2>1 DEF Need
  <2> QED BY <1>3, <1>5, <2>2
<1>8. Decode("string", b, order) = v
  BY <1>6 DEF Decode
<1> QED BY <1>4, <1>7, <1>8 DEF a, b

-----------------------------------------------------------------------------
(* Every writer gives bytes, one at least.                                  *)
LEMMA EncodeTyped ==
    ASSUME NEW kind \in Kinds, NEW v \in Values[kind], NEW order
    PROVE  Encode(kind, v, order) \in Seq(Byte) /\ Len(Encode(kind, v, order)) \in Nat \ {0}
<1>0. Width \in Nat \ {0} /\ Unsigned \subseteq Nat
  BY WordIs, CodecAssumption DEF Unsigned
<1>1. ASSUME NEW u \in Unsigned
      PROVE  EncodeVarint[u] \in Seq(Byte) /\ Len(EncodeVarint[u]) \in Nat \ {0}
  BY <1>0, AllGrouped DEF Grouped
<1>2. CASE kind = "byte"
  <2>1. v \in Byte /\ Encode(kind, v, order) = <<v>>
    BY <1>2, ByteArrayAssumption DEF Encode
  <2> QED BY <2>1
<1>3. CASE kind = "fixed"
  <2>1. v \in Nat /\ Encode(kind, v, order) = EncodeFixed(v, order)
    BY <1>0, <1>3, ByteArrayAssumption DEF Encode
  <2> QED BY <1>0, <2>1, EncodeFixedTyped
<1>4. CASE kind = "varint"
  <2>1. v \in Unsigned /\ Encode(kind, v, order) = EncodeVarint[v]
    BY <1>4, ByteArrayAssumption DEF Encode
  <2> QED BY <1>1, <2>1
<1>5. CASE kind = "zigzag"
  <2>1. v \in Signed /\ Encode(kind, v, order) = EncodeVarint[EncodeZigzag(v)]
    BY <1>5, ByteArrayAssumption DEF Encode
  <2> QED BY <1>1, <2>1, ZigzagRoundTrip
<1>6. CASE kind = "string"
  <2>1. v \in Seq(Byte) /\ Encode(kind, v, order) = EncodeFixed(Len(v), order) \o v /\ Len(v) \in Nat
    BY <1>6, ByteArrayAssumption DEF Encode
  <2>2. EncodeFixed(Len(v), order) \in Seq(Byte) /\ Len(EncodeFixed(Len(v), order)) = Width
    BY <2>1, EncodeFixedTyped
  <2> QED BY <1>0, <2>1, <2>2, ConcatProperties
<1> QED BY <1>2, <1>3, <1>4, <1>5, <1>6 DEF Kinds

(* Every reader takes all of these bytes, and gives the value back.         *)
LEMMA RoundTrip ==
    ASSUME HostOrder = "little", NEW kind \in Kinds, NEW v \in Values[kind], NEW order \in Orders
    PROVE  /\ Need(kind, Encode(kind, v, order), order) = Len(Encode(kind, v, order))
           /\ Decode(kind, Encode(kind, v, order), order) = v
<1>0. Width \in Nat \ {0} /\ Unsigned \subseteq Nat
  BY WordIs, CodecAssumption DEF Unsigned
<1>1. CASE kind = "byte"
  BY <1>1 DEF Encode, Need, Decode
<1>2. CASE kind = "fixed"
  <2>1. v \in Unsigned /\ v \in Nat
    BY <1>0, <1>2, ByteArrayAssumption
  <2>2. Len(EncodeFixed(v, order)) = Width /\ DecodeFixed(EncodeFixed(v, order), order) = v
    BY <2>1, EncodeFixedTyped, FixedRoundTrip
  <2> QED BY <1>2, <2>2 DEF Encode, Need, Decode
<1>3. CASE kind = "varint"
  <2>1. v \in Unsigned
    BY <1>3, ByteArrayAssumption
  <2>2. VarintLen(EncodeVarint[v]) = Len(EncodeVarint[v]) /\ DecodeVarint[EncodeVarint[v]] = v
    BY <2>1, VarintRoundTrip
  <2> QED BY <1>3, <2>2 DEF Encode, Need, Decode
<1>4. CASE kind = "zigzag"
  <2> DEFINE u == EncodeZigzag(v)
  <2>1. u \in Unsigned /\ DecodeZigzag(u) = v
    BY <1>4, ByteArrayAssumption, ZigzagRoundTrip
  <2>2. VarintLen(EncodeVarint[u]) = Len(EncodeVarint[u]) /\ DecodeVarint[EncodeVarint[u]] = u
    BY <2>1, VarintRoundTrip
  <2> QED BY <1>4, <2>1, <2>2 DEF Encode, Need, Decode
<1>5. CASE kind = "string"
  <2>1. v \in Seq(Byte) /\ Len(v) < Word
    BY <1>5, ByteArrayAssumption
  <2> DEFINE b == EncodeFixed(Len(v), order) \o v
  <2>2. Need("string", b, order) = Len(b) /\ Decode("string", b, order) = v
    BY <2>1, StringRoundTrip
  <2>3. Encode(kind, v, order) = b
    BY <1>5 DEF Encode
  <2> HIDE DEF b
  <2> QED BY <1>5, <2>2, <2>3
<1> QED BY <1>1, <1>2, <1>3, <1>4, <1>5 DEF Kinds

-----------------------------------------------------------------------------
(* Numbers of blocks and offsets.                                           *)

LEMMA Product ==
    ASSUME NEW a \in Int, NEW b \in Int
    PROVE  a * BaseSize \in Int /\ (a < b => a * BaseSize + BaseSize <= b * BaseSize)
           /\ (a + 1) * BaseSize = a * BaseSize + BaseSize
BY ByteArrayAssumption, SMT

(* A place is a block and an offset in it.                                  *)
LEMMA Division ==
    ASSUME NEW x \in Nat
    PROVE  /\ x \div BaseSize \in Nat /\ x % BaseSize \in 0..(BaseSize - 1)
           /\ x = (x \div BaseSize) * BaseSize + (x % BaseSize)
BY ByteArrayAssumption, SMT

(* ... in one way only.                                                     *)
LEMMA DivisionIs ==
    ASSUME NEW x \in Nat, NEW q \in Int, NEW r \in 0..(BaseSize - 1), x = q * BaseSize + r
    PROVE  x \div BaseSize = q /\ x % BaseSize = r
<1> DEFINE d == x \div BaseSize
           e == x % BaseSize
<1>1. d \in Nat /\ e \in 0..(BaseSize - 1) /\ x = d * BaseSize + e
  BY Division
<1> HIDE DEF d, e
<1>2. ~(d < q)
  BY <1>1, Product, ByteArrayAssumption
<1>3. ~(q < d)
  BY <1>1, Product, ByteArrayAssumption
<1>4. d = q
  BY <1>1, <1>2, <1>3
<1>5. e = r
  BY <1>1, <1>4, Product, ByteArrayAssumption
<1> QED BY <1>4, <1>5 DEF d, e

-----------------------------------------------------------------------------
(* The walk in closed form: how many pieces it has, and the p-th of them.   *)
(* Only the first piece begins inside its block, only the last one may end  *)
(* there.                                                                   *)
PieceCount(w) == IF w.off + w.len <= BaseSize THEN 1 ELSE ((w.off + w.len - 1) \div BaseSize) + 1
Before(w, p) == IF p = 1 THEN 0 ELSE (p - 1) * BaseSize - w.off
PieceOff(w, p) == IF p = 1 THEN w.off ELSE 0
Piece(w, p) ==
    [node |-> w.node + p - 1, off |-> PieceOff(w, p), at |-> w.at + Before(w, p),
     len |-> IF p < PieceCount(w) THEN BaseSize - PieceOff(w, p) ELSE w.len - Before(w, p)]
Pieces(w) == [p \in 1..PieceCount(w) |-> Piece(w, p)]

NextSpot(w) ==
    [node |-> w.node + 1, off |-> 0, len |-> w.len - (BaseSize - w.off), at |-> w.at + (BaseSize - w.off)]
IsWalk(f) ==
    f = [w \in Spots |-> IF BaseSize - w.off >= w.len THEN <<w>>
                         ELSE <<[w EXCEPT !.len = BaseSize - w.off]>> \o f[NextSpot(w)]]

(* A walk that goes on beyond its block has one piece more than the rest.   *)
LEMMA CountStep ==
    ASSUME NEW w \in Spots, BaseSize - w.off < w.len
    PROVE  /\ NextSpot(w) \in Spots
           /\ PieceCount(NextSpot(w)) \in Nat \ {0}
           /\ PieceCount(w) = PieceCount(NextSpot(w)) + 1
<1> DEFINE x == w.off + w.len - 1
           y == w.len - (BaseSize - w.off) - 1
<1>1. /\ w.off \in 0..(BaseSize - 1) /\ w.len \in Nat /\ w.node \in Nat /\ w.at \in Nat
      /\ BaseSize \in Nat \ {0}
  BY ByteArrayAssumption DEF Spots
<1>2. NextSpot(w) \in Spots
  BY <1>1 DEF NextSpot, Spots
<1>3. y \in Nat /\ x \in Nat /\ x = y + BaseSize
  BY <1>1
<1>4. y \div BaseSize \in Nat /\ y % BaseSize \in 0..(BaseSize - 1)
      /\ y = (y \div BaseSize) * BaseSize + (y % BaseSize)
  BY <1>3, Division
<1>5. PieceCount(w) = (x \div BaseSize) + 1
  BY <1>1 DEF PieceCount
<1> HIDE DEF x, y
<1>6. x = ((y \div BaseSize) + 1) * BaseSize + (y % BaseSize)
  BY <1>1, <1>3, <1>4, Product
<1>7. x \div BaseSize = (y \div BaseSize) + 1
  BY <1>3, <1>4, <1>6, DivisionIs
<1>8. PieceCount(NextSpot(w)) = (y \div BaseSize) + 1
  <2>1. PieceCount(NextSpot(w)) = IF y + 1 <= BaseSize THEN 1 ELSE (y \div BaseSize) + 1
    BY <1>1 DEF PieceCount, NextSpot, y
  <2>2. y + 1 <= BaseSize => y \div BaseSize = 0
    <3> HAVE y + 1 <= BaseSize
    <3>1. y = 0 * BaseSize + y /\ y \in 0..(BaseSize - 1)
      BY <1>1, <1>3
    <3> QED BY <1>3, <3>1, DivisionIs
  <2> QED BY <2>1, <2>2
<1> QED BY <1>2, <1>4, <1>5, <1>7, <1>8

(* The pieces satisfy the recursion of the walk.                            *)
LEMMA PiecesStep ==
    ASSUME NEW w \in Spots
    PROVE  Pieces(w) = IF BaseSize - w.off >= w.len THEN <<w>>
                       ELSE <<[w EXCEPT !.len = BaseSize - w.off]>> \o Pieces(NextSpot(w))
<1>1. /\ w.off \in 0..(BaseSize - 1) /\ w.len \in Nat /\ w.node \in Nat /\ w.at \in Nat
      /\ BaseSize \in Nat \ {0}
      /\ w = [node |-> w.node, off |-> w.off, len |-> w.len, at |-> w.at]
  BY ByteArrayAssumption DEF Spots
<1>2. CASE BaseSize - w.off >= w.len
  <2>1. PieceCount(w) = 1
    BY <1>1, <1>2 DEF PieceCount
  <2>2. Piece(w, 1) = w
    BY <1>1, <2>1 DEF Piece, PieceOff, Before
  <2>3. Pieces(w) = [p \in 1..1 |-> w]
    BY <2>1, <2>2 DEF Pieces
  <2>4. [p \in 1..1 |-> w] = <<w>>
    OBVIOUS
  <2> QED BY <1>2, <2>3, <2>4
<1>3. CASE ~(BaseSize - w.off >= w.len)
  <2> DEFINE v == NextSpot(w)
             first == [w EXCEPT !.len = BaseSize - w.off]
             k == PieceCount(v)
  <2>1. v \in Spots /\ k \in Nat \ {0} /\ PieceCount(w) = k + 1
    BY <1>1, <1>3, CountStep
  <2>2. /\ v.node = w.node + 1 /\ v.off = 0 /\ v.len = w.len - (BaseSize - w.off)
        /\ v.at = w.at + (BaseSize - w.off)
    BY DEF NextSpot
  <2>3. first = Piece(w, 1)
    BY <1>1, <2>1 DEF Piece, PieceOff, Before
  <2>4. ASSUME NEW p \in 1..k PROVE Piece(w, p + 1) = Piece(v, p)
    <3> HIDE DEF v, k
    <3>1. Before(w, p + 1) = p * BaseSize - w.off
      <4>1. p + 1 # 1 /\ (p + 1) - 1 = p
        BY <2>1
      <4> QED BY <4>1 DEF Before
    <3>2. Before(v, p) = (p - 1) * BaseSize
      BY <2>2, Product, <1>1 DEF Before
    <3>3. p * BaseSize = (p - 1) * BaseSize + BaseSize /\ (p - 1) * BaseSize \in Int
      BY Product
    <3>4. PieceOff(w, p + 1) = 0 /\ PieceOff(v, p) = 0
      BY <2>2 DEF PieceOff
    <3>5. p + 1 < PieceCount(w) <=> p < PieceCount(v)
      BY <2>1 DEF k
    <3>6. w.node + (p + 1) - 1 = v.node + p - 1
      BY <1>1, <2>2
    <3>7. w.at + Before(w, p + 1) = v.at + Before(v, p)
      BY <1>1, <2>2, <3>1, <3>2, <3>3
    <3>8. w.len - Before(w, p + 1) = v.len - Before(v, p)
      BY <1>1, <2>2, <3>1, <3>2, <3>3
    <3> QED BY <3>4, <3>5, <3>6, <3>7, <3>8 DEF Piece
  <2>5. Pieces(w) = [p \in 1..(k + 1) |-> Piece(w, p)] /\ Pieces(v) = [p \in 1..k |-> Piece(v, p)]
    BY <2>1 DEF Pieces
  <2> HIDE DEF v, k, first
  <2>6. <<first>> \o Pieces(v) = [p \in 1..(k + 1) |-> IF p = 1 THEN first ELSE Piece(v, p - 1)]
    BY <2>1, <2>5
  <2>7. ASSUME NEW p \in 1..(k + 1)
        PROVE  Piece(w, p) = IF p = 1 THEN first ELSE Piece(v, p - 1)
    <3>1. CASE p = 1
      BY <2>3, <3>1
    <3>2. CASE p # 1
      <4>1. p - 1 \in 1..k /\ (p - 1) + 1 = p
        BY <2>1, <3>2
      <4> QED BY <2>4, <3>2, <4>1
    <3> QED BY <3>1, <3>2
  <2>8. Pieces(w) = <<first>> \o Pieces(v)
    BY <2>5, <2>6, <2>7
  <2> QED BY <1>3, <2>8 DEF v, first
<1> QED BY <1>2, <1>3

(* The walk exists, and is the pieces: a shortest walk that were not would  *)
(* go on with one that is.                                                  *)
LEMMA WalkIsPieces ==
    ASSUME NEW w \in Spots
    PROVE  Walk[w] = Pieces(w)
<1> DEFINE f == [v \in Spots |-> Pieces(v)]
<1>1. \A v \in Spots : BaseSize - v.off < v.len => NextSpot(v) \in Spots
  BY CountStep
<1>2. \A v \in Spots : f[v] = IF BaseSize - v.off >= v.len THEN <<v>>
                              ELSE <<[v EXCEPT !.len = BaseSize - v.off]>> \o f[NextSpot(v)]
  <2> TAKE v \in Spots
  <2>1. CASE BaseSize - v.off >= v.len
    BY <2>1, PiecesStep
  <2>2. CASE ~(BaseSize - v.off >= v.len)
    <3>1. NextSpot(v) \in Spots
      <4>1. BaseSize - v.off < v.len
        BY <2>2, ByteArrayAssumption DEF Spots
      <4> QED BY <4>1, CountStep
    <3>2. f[NextSpot(v)] = Pieces(NextSpot(v)) /\ f[v] = Pieces(v)
      BY <3>1
    <3> QED BY <2>2, <3>2, PiecesStep
  <2> QED BY <2>1, <2>2
<1>3. IsWalk(f)
  <2> HIDE DEF f
  <2>1. f = [v \in Spots |-> f[v]]
    BY DEF f
  <2> QED BY <1>2, <2>1 DEF IsWalk
<1>4. IsWalk(Walk)
  <2> HIDE DEF f
  <2> QED BY <1>3, Zenon DEF IsWalk, Walk, NextSpot
<1>5. \A v \in Spots : Walk[v] = IF BaseSize - v.off >= v.len THEN <<v>>
                                 ELSE <<[v EXCEPT !.len = BaseSize - v.off]>> \o Walk[NextSpot(v)]
  <2> HIDE DEF Walk
  <2> QED BY <1>4 DEF IsWalk
<1> DEFINE Bad == {v \in Spots : Walk[v] # Pieces(v)}
           Lens == {v.len : v \in Bad}
<1>6. SUFFICES ASSUME Bad # {} PROVE FALSE
  OBVIOUS
<1>7. Lens \subseteq Nat /\ Lens # {}
  BY <1>6 DEF Spots
<1>8. PICK v \in Bad : \A u \in Bad : v.len <= u.len
  <2>1. PICK x \in Lens : \A y \in Lens : x <= y
    <3> HIDE DEF Lens
    <3> QED BY <1>7, Least
  <2> QED BY <2>1
<1>9. CASE BaseSize - v.off >= v.len
  BY <1>5, <1>9, PiecesStep
<1>10. CASE ~(BaseSize - v.off >= v.len)
  <2>1. NextSpot(v) \in Spots /\ NextSpot(v).len < v.len
    <3>1. BaseSize - v.off < v.len /\ v.off \in 0..(BaseSize - 1) /\ v.len \in Nat
          /\ BaseSize \in Nat
      BY <1>10, ByteArrayAssumption DEF Spots
    <3>2. NextSpot(v).len = v.len - (BaseSize - v.off)
      BY DEF NextSpot
    <3> QED BY <3>1, <3>2, CountStep
  <2>2. NextSpot(v) \notin Bad
    BY <1>8, <2>1 DEF Spots
  <2>3. Walk[NextSpot(v)] = Pieces(NextSpot(v))
    BY <2>1, <2>2
  <2> QED BY <1>5, <1>10, <2>3, PiecesStep
<1> QED BY <1>9, <1>10

(* The last piece ends where the walk ends, not at the start of a block     *)
(* unless the walk is empty.                                                *)
LEMMA LastPiece ==
    ASSUME NEW w \in Spots
    PROVE  LET k == PieceCount(w)
               last == Piece(w, k)
               end == last.off + last.len
           IN  /\ k \in Nat \ {0} /\ Len(Pieces(w)) = k /\ Pieces(w)[k] = last
               /\ last.node = w.node + k - 1 /\ end \in 0..BaseSize
               /\ (k - 1) * BaseSize + end = w.off + w.len
               /\ w.off + w.len > 0 => end > 0
<1> DEFINE k == PieceCount(w)
           last == Piece(w, k)
           x == w.off + w.len - 1
<1>1. /\ w.off \in 0..(BaseSize - 1) /\ w.len \in Nat /\ w.node \in Nat /\ w.at \in Nat
      /\ BaseSize \in Nat \ {0}
  BY ByteArrayAssumption DEF Spots
<1>2. CASE w.off + w.len <= BaseSize
  <2>1. k = 1
    BY <1>2 DEF PieceCount
  <2>2. /\ last.node = w.node + k - 1 /\ last.off = w.off /\ last.len = w.len
    BY <1>1, <2>1 DEF Piece, PieceOff, Before
  <2>3. Pieces(w) = [p \in 1..1 |-> Piece(w, p)]
    BY <2>1 DEF Pieces
  <2>4. Len(Pieces(w)) = 1 /\ Pieces(w)[1] = Piece(w, 1)
    BY <2>3
  <2>5. (k - 1) * BaseSize = 0
    BY <2>1, <1>1
  <2> HIDE DEF k, last
  <2>6. last = Piece(w, 1)
    BY <2>1 DEF last
  <2> QED BY <1>1, <1>2, <2>1, <2>2, <2>4, <2>5, <2>6 DEF k, last
<1>3. CASE ~(w.off + w.len <= BaseSize)
  <2>1. x \in Nat /\ k = (x \div BaseSize) + 1
    BY <1>1, <1>3 DEF PieceCount
  <2>2. x \div BaseSize \in Nat /\ x % BaseSize \in 0..(BaseSize - 1)
        /\ x = (x \div BaseSize) * BaseSize + (x % BaseSize)
    BY <2>1, Division
  <2>3. x \div BaseSize # 0
    <3> HIDE DEF x
    <3>1. SUFFICES ASSUME x \div BaseSize = 0 PROVE FALSE
      OBVIOUS
    <3>2. (x \div BaseSize) * BaseSize = 0
      BY <1>1, <3>1
    <3>3. x <= BaseSize - 1
      BY <1>1, <2>2, <3>2
    <3> QED BY <1>1, <1>3, <3>3 DEF x
  <2> HIDE DEF k, x
  <2>4. k \in Nat /\ k > 1 /\ k - 1 = x \div BaseSize
    BY <2>1, <2>2, <2>3
  <2>5. /\ last.node = w.node + k - 1 /\ last.off = 0
        /\ last.len = w.len - ((k - 1) * BaseSize - w.off)
    BY <2>4 DEF Piece, PieceOff, Before, k
  <2>6. Pieces(w) = [p \in 1..k |-> Piece(w, p)]
    BY DEF Pieces, k
  <2>7. Len(Pieces(w)) = k /\ Pieces(w)[k] = last
    BY <2>4, <2>6
  <2> HIDE DEF last
  <2>8. (k - 1) * BaseSize \in Int
    BY <2>4, Product
  <2>9. last.off + last.len = (x % BaseSize) + 1
    BY <1>1, <2>2, <2>4, <2>5, <2>8 DEF x
  <2>10. (k - 1) * BaseSize + (last.off + last.len) = w.off + w.len
    BY <1>1, <2>5, <2>8
  <2>11. last.off + last.len \in 0..BaseSize /\ last.off + last.len > 0
    BY <1>1, <2>2, <2>9
  <2>12. k \in Nat \ {0} /\ last.node = w.node + k - 1
    BY <2>4, <2>5
  <2> QED BY <2>7, <2>10, <2>11, <2>12 DEF k, last
<1> QED BY <1>2, <1>3

-----------------------------------------------------------------------------
(* The block of a place in a chain of so many blocks.                       *)
CurFor(place, count) == IF place = count * BaseSize THEN Null ELSE (place \div BaseSize) + 1

(* m_cur behind a copy.                                                     *)
LEMMA CurAfterWalk ==
    ASSUME NEW pos \in Nat, NEW n \in Nat, NEW count \in Nat,
           pos < count * BaseSize, pos + n <= count * BaseSize
    PROVE  LET w == [node |-> (pos \div BaseSize) + 1, off |-> pos % BaseSize, len |-> n, at |-> 0]
           IN  w \in Spots /\ CurAfter(Walk[w], count) = CurFor(pos + n, count)
<1> DEFINE q == pos \div BaseSize
           o == pos % BaseSize
           w == [node |-> q + 1, off |-> o, len |-> n, at |-> 0]
           k == PieceCount(w)
           last == Piece(w, k)
           end == last.off + last.len
           m == q + k
<1>1. q \in Nat /\ o \in 0..(BaseSize - 1) /\ pos = q * BaseSize + o /\ BaseSize \in Nat \ {0}
  BY Division, ByteArrayAssumption
<1>2. w \in Spots
  BY <1>1 DEF Spots
<1>3. /\ k \in Nat \ {0} /\ Len(Pieces(w)) = k /\ Pieces(w)[k] = last
      /\ last.node = q + 1 + k - 1 /\ end \in 0..BaseSize
      /\ (k - 1) * BaseSize + end = o + n
      /\ o + n > 0 => end > 0
  <2> HIDE DEF q, o
  <2> QED BY <1>2, LastPiece
<1>4. CurAfter(Walk[w], count) = IF end = BaseSize THEN NextNode(last.node, count) ELSE last.node
  <2>1. Walk[w] = Pieces(w)
    BY <1>2, WalkIsPieces
  <2> HIDE DEF w
  <2> QED BY <1>3, <2>1 DEF CurAfter
<1> HIDE DEF q, o, w, k, last, end
<1>5. m \in Nat \ {0} /\ last.node = m
  <2>1. q \in Nat /\ k \in Nat \ {0} /\ last.node = q + 1 + k - 1
    BY <1>1, <1>3
  <2> QED BY <2>1
<1>6. pos + n = (m - 1) * BaseSize + end
  <2>1. (m - 1) * BaseSize = q * BaseSize + (k - 1) * BaseSize
    <3>1. m - 1 = q + (k - 1)
      BY <1>1, <1>3
    <3> QED BY <1>1, <1>3, <3>1
  <2>2. q * BaseSize \in Int /\ (k - 1) * BaseSize \in Int
    BY <1>1, <1>3, Product
  <2> HIDE DEF m
  <2> QED BY <1>1, <1>3, <2>1, <2>2
<1> HIDE DEF m
<1>7. (m - 1) * BaseSize \in Int /\ m * BaseSize = (m - 1) * BaseSize + BaseSize
      /\ count * BaseSize \in Int
  <2>1. m - 1 \in Int /\ (m - 1) + 1 = m
    BY <1>5
  <2> QED BY <2>1, Product
<1>8. CASE end = BaseSize
  <2>1. pos + n = m * BaseSize
    BY <1>6, <1>7, <1>8
  <2>2. m <= count
    <3>1. count < m => count * BaseSize + BaseSize <= m * BaseSize
      BY <1>5, Product
    <3> QED BY <1>1, <1>5, <1>7, <2>1, <3>1
  <2>3. m < count => m * BaseSize # count * BaseSize
    <3>1. m < count => m * BaseSize + BaseSize <= count * BaseSize
      BY <1>5, Product
    <3> QED BY <1>1, <1>7, <3>1
  <2>4. (pos + n) \div BaseSize = m
    <3>1. pos + n = m * BaseSize + 0 /\ 0 \in 0..(BaseSize - 1)
      BY <1>1, <1>5, <1>7, <2>1
    <3> QED BY <1>5, <3>1, DivisionIs
  <2> QED BY <1>2, <1>4, <1>5, <1>8, <2>1, <2>2, <2>3, <2>4 DEF CurFor, NextNode, w, q, o
<1>9. CASE end # BaseSize
  <2>1. end \in 0..(BaseSize - 1)
    BY <1>1, <1>3, <1>9
  <2>2. (pos + n) \div BaseSize = m - 1
    BY <1>5, <1>6, <2>1, DivisionIs
  <2>3. pos + n # count * BaseSize
    <3>1. SUFFICES ASSUME pos + n = count * BaseSize PROVE FALSE
      OBVIOUS
    <3>2. o + n > 0
      BY <1>1, <3>1
    <3>3. end > 0
      BY <1>3, <3>2
    <3>4. count * BaseSize = (m - 1) * BaseSize + end
      BY <1>6, <3>1
    <3>5. m - 1 < count => (m - 1) * BaseSize + BaseSize <= count * BaseSize
      BY <1>5, Product
    <3>6. count < m - 1 => count * BaseSize + BaseSize <= (m - 1) * BaseSize
      BY <1>5, Product
    <3>7. count = m - 1 => count * BaseSize = (m - 1) * BaseSize
      OBVIOUS
    <3> QED BY <1>1, <1>5, <1>7, <2>1, <3>3, <3>4, <3>5, <3>6, <3>7
  <2> QED BY <1>2, <1>4, <1>5, <1>9, <2>2, <2>3 DEF CurFor, w, q, o
<1> QED BY <1>8, <1>9

(* setPosition finds the same block.                                        *)
LEMMA CurAtIs ==
    ASSUME NEW v \in Nat, NEW count \in Nat \ {0}, v <= count * BaseSize
    PROVE  CurAt(v, count) = CurFor(v, count)
<1>1. BaseSize \in Nat \ {0}
  BY ByteArrayAssumption
<1>2. CASE v = 0
  <2>1. 0 = 0 * BaseSize + 0 /\ 0 \in 0..(BaseSize - 1)
    BY <1>1
  <2>2. 0 \div BaseSize = 0
    BY <2>1, DivisionIs
  <2>3. 0 * BaseSize + BaseSize <= count * BaseSize /\ count * BaseSize \in Int
    BY Product
  <2>4. 0 # count * BaseSize
    BY <1>1, <2>1, <2>3
  <2> QED BY <1>2, <2>2, <2>4 DEF CurAt, CurFor
<1>3. CASE v # 0
  <2> DEFINE q == (v - 1) \div BaseSize
             r == (v - 1) % BaseSize
             c == q + 1
  <2>1. v - 1 \in Nat
    BY <1>3
  <2>2. q \in Nat /\ r \in 0..(BaseSize - 1) /\ v - 1 = q * BaseSize + r
    BY <2>1, Division
  <2>3. CurAt(v, count) = IF v = c * BaseSize THEN NextNode(c, count) ELSE c
    BY <1>3 DEF CurAt
  <2> HIDE DEF q, r
  <2>4. c * BaseSize = q * BaseSize + BaseSize /\ q * BaseSize \in Int /\ count * BaseSize \in Int
    BY <2>2, Product
  <2>5. c \in Nat \ {0}
    BY <2>2
  <2> HIDE DEF c
  <2>6. v = q * BaseSize + (r + 1)
    BY <2>2, <2>4
  <2>7. q < count
    <3>1. count < q => count * BaseSize + BaseSize <= q * BaseSize
      BY <2>2, Product
    <3>2. count = q => count * BaseSize = q * BaseSize
      OBVIOUS
    <3> QED BY <1>1, <2>2, <2>4, <2>6, <3>1, <3>2
  <2>8. CASE v = c * BaseSize
    <3>1. v = c * BaseSize + 0 /\ 0 \in 0..(BaseSize - 1)
      BY <1>1, <2>4, <2>8
    <3>2. v \div BaseSize = c
      BY <2>5, <3>1, DivisionIs
    <3>3. c < count => c * BaseSize + BaseSize <= count * BaseSize
      BY <2>5, Product
    <3>4. c < count <=> v # count * BaseSize
      <4>1. c <= count
        BY <2>2, <2>7 DEF c
      <4>2. c < count => v # count * BaseSize
        BY <1>1, <2>4, <2>8, <3>3
      <4>3. c = count => v = count * BaseSize
        BY <2>8
      <4> QED BY <2>5, <4>1, <4>2, <4>3
    <3> QED BY <2>3, <2>8, <3>2, <3>4 DEF CurFor, NextNode
  <2>9. CASE v # c * BaseSize
    <3>1. r + 1 \in 0..(BaseSize - 1)
      BY <1>1, <2>2, <2>4, <2>6, <2>9
    <3>2. v \div BaseSize = q
      BY <2>2, <2>6, <3>1, DivisionIs
    <3>3. v # count * BaseSize
      <4>1. q + 1 <= count
        BY <2>2, <2>7
      <4>2. q < count => q * BaseSize + BaseSize <= count * BaseSize
        BY <2>2, Product
      <4> QED BY <1>1, <2>2, <2>4, <2>6, <2>7, <3>1, <4>2
    <3> QED BY <2>3, <2>9, <3>2, <3>3 DEF CurFor, c
  <2> QED BY <2>8, <2>9
<1> QED BY <1>2, <1>3

-----------------------------------------------------------------------------
(* The array between two operations.                                        *)
Blocks == [1..BaseSize -> Byte \cup {Junk}]
BaInv == BaTypeOK /\ CurExact

LEMMA FreshBlock == FreshNode \in Blocks
BY DEF FreshNode, Blocks

(* addCapacity: enough blocks for n bytes, the ones there were unchanged,   *)
(* and m_cur is the block of the position in the longer chain.              *)
LEMMA Growth ==
    ASSUME BaInv, NEW n \in Nat
    PROVE  /\ Missing(n) \in Nat
           /\ Grown(n) \in Seq(Blocks) /\ Len(Grown(n)) = Len(nodes) + Missing(n)
           /\ \A i \in 1..Len(nodes) : Grown(n)[i] = nodes[i]
           /\ capacity + Missing(n) * BaseSize = Len(Grown(n)) * BaseSize
           /\ position + n <= Len(Grown(n)) * BaseSize
           /\ CurGrown(n) = CurFor(position, Len(Grown(n)))
<1> DEFINE k == Len(nodes)
           m == Missing(n)
           room == capacity - position
           x == n - room + BaseSize - 1
<1>1. /\ BaseSize \in Nat \ {0} /\ k \in Nat \ {0} /\ capacity = k * BaseSize
      /\ position \in Nat /\ capacity \in Nat /\ position <= capacity
      /\ nodes \in Seq(Blocks)
      /\ cur = CurFor(position, k)
  <2>1. BaseSize \in Nat \ {0}
    BY ByteArrayAssumption
  <2>2. nodes \in Seq(Blocks) /\ k \in Nat \ {0}
    BY DEF BaInv, BaTypeOK, Blocks
  <2>3. /\ capacity = k * BaseSize /\ position \in Nat /\ capacity \in Nat /\ size \in Nat
        /\ position <= size /\ size <= capacity
    BY DEF BaInv, BaTypeOK, CurExact
  <2>4. cur = CurFor(position, k)
    BY DEF BaInv, CurExact, CurFor
  <2> QED BY <2>1, <2>2, <2>3, <2>4
<1>2. m \in Nat /\ n <= room + m * BaseSize
  <2>1. CASE room >= n
    BY <1>1, <2>1 DEF Missing
  <2>2. CASE ~(room >= n)
    <3>1. m = x \div BaseSize
      BY <1>1, <2>2 DEF Missing
    <3>2. x \in Nat
      BY <1>1, <2>2
    <3>3. x \div BaseSize \in Nat /\ x % BaseSize \in 0..(BaseSize - 1)
          /\ x = (x \div BaseSize) * BaseSize + (x % BaseSize)
      BY <3>2, Division
    <3> HIDE DEF m, x
    <3>4. m \in Nat /\ m * BaseSize \in Int /\ x = m * BaseSize + (x % BaseSize)
      BY <3>1, <3>3, Product
    <3>5. m * BaseSize >= x - (BaseSize - 1)
      BY <1>1, <3>2, <3>3, <3>4
    <3>6. x - (BaseSize - 1) = n - room
      BY <1>1 DEF x
    <3> QED BY <1>1, <3>4, <3>5, <3>6
  <2> QED BY <2>1, <2>2
<1> HIDE DEF m
<1>3. /\ Grown(n) = nodes \o [i \in 1..m |-> FreshNode]
      /\ [i \in 1..m |-> FreshNode] \in Seq(Blocks)
      /\ Len([i \in 1..m |-> FreshNode]) = m
  BY <1>2, FreshBlock DEF Grown, m
<1>4. /\ Grown(n) \in Seq(Blocks) /\ Len(Grown(n)) = k + m
      /\ \A i \in 1..k : Grown(n)[i] = nodes[i]
  <2> DEFINE fresh == [i \in 1..m |-> FreshNode]
  <2> HIDE DEF fresh
  <2>1. Grown(n) = nodes \o fresh /\ fresh \in Seq(Blocks) /\ Len(fresh) = m
    BY <1>3 DEF fresh
  <2>2. nodes \in Seq(Blocks) /\ k \in Nat /\ m \in Nat
    BY <1>1, <1>2
  <2>3. nodes \o fresh \in Seq(Blocks) /\ Len(nodes \o fresh) = Len(nodes) + Len(fresh)
    BY <2>1, <2>2, ConcatProperties
  <2>4. \A i \in 1..k : Grown(n)[i] = nodes[i]
    BY <2>1, <2>2
  <2> QED BY <2>1, <2>3, <2>4
<1>5. (k + m) * BaseSize = k * BaseSize + m * BaseSize /\ m * BaseSize \in Nat
  BY <1>1, <1>2
<1>6. position + n <= (k + m) * BaseSize
  BY <1>1, <1>2, <1>5
<1>7. CurGrown(n) = CurFor(position, k + m)
  <2>1. CASE m = 0
    BY <1>1, <2>1 DEF CurGrown, m
  <2>2. CASE m # 0
    <3>1. m * BaseSize > 0
      BY <1>1, <1>2, <2>2
    <3>2. position # (k + m) * BaseSize
      BY <1>1, <1>5, <3>1
    <3>3. CASE position = capacity
      <4>1. position = k * BaseSize + 0 /\ 0 \in 0..(BaseSize - 1)
        BY <1>1, <3>3
      <4>2. position \div BaseSize = k
        BY <1>1, <4>1, DivisionIs
      <4>3. CurGrown(n) = k + 1
        BY <1>2, <2>2, <3>3 DEF CurGrown, m
      <4> QED BY <3>2, <4>2, <4>3 DEF CurFor
    <3>4. CASE position # capacity
      BY <1>1, <3>2, <3>4 DEF CurGrown, CurFor
    <3> QED BY <3>3, <3>4
  <2> QED BY <2>1, <2>2
<1> QED BY <1>1, <1>2, <1>4, <1>5, <1>6, <1>7 DEF m

-----------------------------------------------------------------------------
(* Which bytes the pieces are.  A walk of n bytes from a place; byte j of   *)
(* block b is number (b - 1) * BaseSize + j.                                *)
Spot(pos, n) == [node |-> (pos \div BaseSize) + 1, off |-> pos % BaseSize, len |-> n, at |-> 0]
Number(b, j) == (b - 1) * BaseSize + j

LEMMA SpotWalk ==
    ASSUME NEW pos \in Nat, NEW n \in Nat
    PROVE  /\ Spot(pos, n) \in Spots /\ PieceCount(Spot(pos, n)) \in Nat \ {0}
           /\ Walk[Spot(pos, n)] = [p \in 1..PieceCount(Spot(pos, n)) |-> Piece(Spot(pos, n), p)]
<1>1. Spot(pos, n) \in Spots
  BY Division DEF Spot, Spots
<1> QED BY <1>1, LastPiece, WalkIsPieces DEF Pieces

(* What the fields of a piece are worth.                                    *)
LEMMA PieceFields ==
    ASSUME NEW pos \in Nat, NEW n \in Nat, NEW p \in 1..PieceCount(Spot(pos, n))
    PROVE  LET w == Spot(pos, n)
               q == pos \div BaseSize
               pc == Piece(w, p)
           IN  /\ pc.node = q + p
               /\ pc.off \in 0..(BaseSize - 1) /\ pc.at \in Int /\ pc.len \in Int
               /\ pc.at - pc.off = (p - 1) * BaseSize - (pos % BaseSize)
               /\ pc.off = IF p = 1 THEN pos % BaseSize ELSE 0
               /\ p < PieceCount(w) => pc.off + pc.len = BaseSize
               /\ p = PieceCount(w) =>
                    /\ pc.off + pc.len \in 0..BaseSize
                    /\ (q + p - 1) * BaseSize + (pc.off + pc.len) = pos + n
<1> DEFINE w == Spot(pos, n)
           q == pos \div BaseSize
           o == pos % BaseSize
           k == PieceCount(w)
           pc == Piece(w, p)
<1>1. w \in Spots /\ k \in Nat \ {0}
  BY SpotWalk
<1>2. q \in Nat /\ o \in 0..(BaseSize - 1) /\ pos = q * BaseSize + o /\ BaseSize \in Nat \ {0}
      /\ q * BaseSize \in Int
  <2>1. q \in Nat /\ o \in 0..(BaseSize - 1) /\ pos = q * BaseSize + o
    BY Division
  <2>2. BaseSize \in Nat \ {0}
    BY ByteArrayAssumption
  <2> HIDE DEF q, o
  <2> QED BY <2>1, <2>2, Product
<1>3. w.node = q + 1 /\ w.off = o /\ w.len = n /\ w.at = 0
  BY DEF Spot
<1>4. p \in Nat \ {0} /\ (p - 1) * BaseSize \in Int /\ (p = 1 => (p - 1) * BaseSize = 0)
  <2>1. p \in Nat \ {0} /\ p - 1 \in Int
    BY <1>1
  <2>2. (p - 1) * BaseSize \in Int
    BY <2>1, Product
  <2>3. p = 1 => (p - 1) * BaseSize = 0
    BY <1>2
  <2> QED BY <2>1, <2>2, <2>3
<1> HIDE DEF w, q, o, k
<1>5. /\ pc.node = (q + 1) + p - 1 /\ pc.off = (IF p = 1 THEN o ELSE 0)
      /\ pc.at = 0 + (IF p = 1 THEN 0 ELSE (p - 1) * BaseSize - o)
      /\ pc.len = IF p < k THEN BaseSize - pc.off ELSE n - (IF p = 1 THEN 0 ELSE (p - 1) * BaseSize - o)
  BY <1>3 DEF Piece, PieceOff, Before, k
<1> HIDE DEF pc
<1>6. /\ pc.node = q + p /\ pc.off \in 0..(BaseSize - 1) /\ pc.at \in Int /\ pc.len \in Int
      /\ pc.at - pc.off = (p - 1) * BaseSize - o
  BY <1>2, <1>4, <1>5
<1>7. p < k => pc.off + pc.len = BaseSize
  BY <1>2, <1>5, <1>6
<1>8. p = k => /\ pc.off + pc.len \in 0..BaseSize
               /\ (q + p - 1) * BaseSize + (pc.off + pc.len) = pos + n
  <2> HAVE p = k
  <2>1. pc.off + pc.len \in 0..BaseSize /\ (p - 1) * BaseSize + (pc.off + pc.len) = o + n
    BY <1>1, <1>3, LastPiece DEF k, pc
  <2>2. (q + p - 1) * BaseSize = q * BaseSize + (p - 1) * BaseSize
    <3>1. q + p - 1 = q + (p - 1)
      BY <1>2, <1>4
    <3> QED BY <1>2, <1>4, <3>1
  <2> QED BY <1>2, <1>4, <1>6, <2>1, <2>2
<1> QED BY <1>5, <1>6, <1>7, <1>8 DEF w, q, o, k, pc

(* A byte of the chain is in the piece of its block exactly when it is one  *)
(* of the n behind the place, and there it is the right one of the buffer.  *)
LEMMA Covers ==
    ASSUME NEW pos \in Nat, NEW n \in Nat, NEW b \in Nat \ {0}, NEW j \in 1..BaseSize
    PROVE  LET w == Spot(pos, n)
               p == b - (pos \div BaseSize)
               pc == Piece(w, p)
           IN  /\ p \in 1..PieceCount(w) => pc.at + j - pc.off = Number(b, j) - pos
               /\ (p \in 1..PieceCount(w) /\ j \in (pc.off + 1)..(pc.off + pc.len))
                  <=> (pos < Number(b, j) /\ Number(b, j) <= pos + n)
<1> DEFINE w == Spot(pos, n)
           q == pos \div BaseSize
           o == pos % BaseSize
           k == PieceCount(w)
           p == b - q
           pc == Piece(w, p)
           i == Number(b, j)
<1>1. /\ q \in Nat /\ o \in 0..(BaseSize - 1) /\ pos = q * BaseSize + o
      /\ BaseSize \in Nat \ {0} /\ k \in Nat \ {0}
  BY Division, SpotWalk, ByteArrayAssumption
<1>2. PICK last \in 0..BaseSize : (q + k - 1) * BaseSize + last = pos + n
  <2>1. k \in 1..k
    BY <1>1
  <2> QED BY <2>1, PieceFields
<1>3. p \in 1..k =>
        /\ pc.off \in 0..(BaseSize - 1) /\ pc.at \in Int /\ pc.len \in Int
        /\ pc.at - pc.off = (p - 1) * BaseSize - o
        /\ pc.off = IF p = 1 THEN o ELSE 0
        /\ p < k => pc.off + pc.len = BaseSize
        /\ p = k => (q + p - 1) * BaseSize + (pc.off + pc.len) = pos + n
  BY PieceFields
<1> HIDE DEF w, q, o, k, pc
<1>4. p \in Int /\ b = q + p /\ i = (b - 1) * BaseSize + j
  BY <1>1 DEF Number
<1> HIDE DEF p, i
<1>5. /\ (b - 1) * BaseSize = q * BaseSize + (p - 1) * BaseSize
      /\ (b - 1) * BaseSize \in Int /\ q * BaseSize \in Int /\ (p - 1) * BaseSize \in Int
  <2>1. b - 1 = q + (p - 1) /\ b - 1 \in Int /\ p - 1 \in Int
    BY <1>1, <1>4
  <2>2. (q + (p - 1)) * BaseSize = q * BaseSize + (p - 1) * BaseSize
    BY <1>1, <2>1
  <2>3. (b - 1) * BaseSize \in Int /\ q * BaseSize \in Int /\ (p - 1) * BaseSize \in Int
    BY <1>1, <2>1, Product
  <2> QED BY <2>1, <2>2, <2>3
<1>6. p \in 1..k => pc.at + j - pc.off = i - pos
  <2> HAVE p \in 1..k
  <2>1. pc.off \in Int /\ pc.at \in Int /\ j \in Int /\ o \in Int
    BY <1>1, <1>3
  <2>2. pc.at + j - pc.off = (pc.at - pc.off) + j
    BY <2>1
  <2>3. pc.at + j - pc.off = (p - 1) * BaseSize - o + j
    BY <1>3, <2>2
  <2> QED BY <1>1, <1>4, <1>5, <2>1, <2>3
<1>7. p < 1 => i <= pos
  <2> HAVE p < 1
  <2>1. p - 1 < 0 => (p - 1) * BaseSize + BaseSize <= 0 * BaseSize
    BY <1>4, Product
  <2>2. 0 * BaseSize = 0
    BY <1>1
  <2>3. (p - 1) * BaseSize + BaseSize <= 0
    BY <1>4, <2>1, <2>2
  <2> QED BY <1>1, <1>4, <1>5, <2>3
<1>8. p > k => i > pos + n
  <2> HAVE p > k
  <2>1. q + k - 1 < b - 1 => (q + k - 1) * BaseSize + BaseSize <= (b - 1) * BaseSize
    BY <1>1, <1>4, Product
  <2>2. q + k - 1 < b - 1 /\ (q + k - 1) * BaseSize \in Int
    BY <1>1, <1>4, Product
  <2> QED BY <1>1, <1>2, <1>4, <1>5, <2>1, <2>2
<1>9. p \in 1..k => (j > pc.off <=> i > pos)
  <2> HAVE p \in 1..k
  <2>1. CASE p = 1
    <3>1. (p - 1) * BaseSize = 0 /\ pc.off = o
      BY <1>1, <1>3, <2>1
    <3> QED BY <1>1, <1>4, <1>5, <3>1
  <2>2. CASE p # 1
    <3>1. 0 < p - 1 => 0 * BaseSize + BaseSize <= (p - 1) * BaseSize
      BY <1>4, Product
    <3>2. 0 * BaseSize = 0 /\ 0 < p - 1 /\ pc.off = 0
      BY <1>1, <1>3, <1>4, <2>2
    <3>3. BaseSize <= (p - 1) * BaseSize
      BY <1>1, <3>1, <3>2
    <3> QED BY <1>1, <1>4, <1>5, <3>2, <3>3
  <2> QED BY <2>1, <2>2
<1>10. p \in 1..k => (j <= pc.off + pc.len <=> i <= pos + n)
  <2> HAVE p \in 1..k
  <2>1. CASE p = k
    <3>1. (b - 1) * BaseSize + (pc.off + pc.len) = pos + n
      <4>1. q + p - 1 = b - 1
        BY <1>1, <1>4
      <4> QED BY <1>3, <2>1, <4>1
    <3> QED BY <1>1, <1>3, <1>4, <1>5, <3>1
  <2>2. CASE p # k
    <3>1. p < k /\ pc.off + pc.len = BaseSize
      BY <1>1, <1>3, <1>4, <2>2
    <3>2. b - 1 < q + k - 1 => (b - 1) * BaseSize + BaseSize <= (q + k - 1) * BaseSize
      BY <1>1, <1>4, Product
    <3>3. b - 1 < q + k - 1 /\ (q + k - 1) * BaseSize \in Int
      BY <1>1, <1>4, <3>1, Product
    <3> QED BY <1>1, <1>2, <1>4, <1>5, <3>1, <3>2, <3>3
  <2> QED BY <2>1, <2>2
<1>11. (p \in 1..k /\ j \in (pc.off + 1)..(pc.off + pc.len)) <=> (pos < i /\ i <= pos + n)
  <2>1. i \in Int
    BY <1>1, <1>4, <1>5
  <2>2. CASE p \in 1..k
    BY <1>1, <1>3, <1>9, <1>10, <2>1, <2>2
  <2>3. CASE p \notin 1..k
    BY <1>1, <1>4, <1>7, <1>8, <2>1, <2>3
  <2> QED BY <2>2, <2>3
<1> QED BY <1>6, <1>11 DEF w, q, o, k, pc, p, i

(* A copy into the blocks writes the bytes behind the place and no others.  *)
Written(blocks, count, bs, n, pos) ==
    [b \in 1..count |-> [j \in 1..BaseSize |->
        IF pos < Number(b, j) /\ Number(b, j) <= pos + n
        THEN bs[Number(b, j) - pos] ELSE blocks[b][j]]]
LEMMA CopyInIs ==
    ASSUME NEW blocks, NEW size_ \in Nat, DOMAIN blocks = 1..size_, NEW bs, NEW n \in Nat, NEW pos \in Nat
    PROVE  CopyIn(blocks, Walk[Spot(pos, n)], bs) = Written(blocks, size_, bs, n, pos)
<1> DEFINE w == Spot(pos, n)
           k == PieceCount(w)
           walk == Walk[w]
           q == pos \div BaseSize
           Into(b, j) == {p \in DOMAIN walk : /\ walk[p].node = b
                                              /\ j \in (walk[p].off + 1)..(walk[p].off + walk[p].len)}
           Old(b, j) == IF Into(b, j) = {} THEN blocks[b][j]
                        ELSE LET p == CHOOSE p \in Into(b, j) : TRUE IN bs[walk[p].at + j - walk[p].off]
           New(b, j) == IF pos < Number(b, j) /\ Number(b, j) <= pos + n
                        THEN bs[Number(b, j) - pos] ELSE blocks[b][j]
<1>1. k \in Nat \ {0} /\ walk = [p \in 1..k |-> Piece(w, p)] /\ q \in Nat
  BY SpotWalk, Division
<1>2. \A p \in 1..k : Piece(w, p).node = q + p
  BY PieceFields
<1>3. ASSUME NEW b \in 1..size_, NEW j \in 1..BaseSize
      PROVE  Old(b, j) = New(b, j)
  <2> DEFINE e == b - q
             inside == pos < Number(b, j) /\ Number(b, j) <= pos + n
  <2>1. b \in Nat \ {0}
    OBVIOUS
  <2>2. /\ e \in 1..k => Piece(w, e).at + j - Piece(w, e).off = Number(b, j) - pos
        /\ (e \in 1..k /\ j \in (Piece(w, e).off + 1)..(Piece(w, e).off + Piece(w, e).len)) <=> inside
    BY <2>1, Covers
  <2> HIDE DEF w, k, walk, q, inside
  <2>3. DOMAIN walk = 1..k /\ \A p \in 1..k : walk[p] = Piece(w, p)
    BY <1>1
  <2>4. \A p \in 1..k : Piece(w, p).node = b <=> p = e
    <3> TAKE p \in 1..k
    <3>1. p \in Int /\ q \in Int /\ b \in Int /\ Piece(w, p).node = q + p
      BY <1>1, <1>2, <2>1
    <3> QED BY <3>1
  <2> HIDE DEF e
  <2>5. Into(b, j) = IF inside THEN {e} ELSE {}
    BY <2>2, <2>3, <2>4
  <2>6. CASE inside
    <3>1. Into(b, j) = {e} /\ e \in 1..k
      BY <2>2, <2>5, <2>6
    <3>2. (CHOOSE p \in {e} : TRUE) = e
      OBVIOUS
    <3>3. Old(b, j) = bs[walk[e].at + j - walk[e].off]
      BY <3>1, <3>2
    <3> QED BY <2>2, <2>3, <2>6, <3>1, <3>3 DEF inside
  <2>7. CASE ~inside
    BY <2>5, <2>7 DEF inside
  <2> QED BY <2>6, <2>7
<1>4. CopyIn(blocks, walk, bs) = [b \in 1..size_ |-> [j \in 1..BaseSize |-> Old(b, j)]]
  BY DEF CopyIn
<1> HIDE DEF Old, New
<1>5. [b \in 1..size_ |-> [j \in 1..BaseSize |-> Old(b, j)]] = [b \in 1..size_ |-> [j \in 1..BaseSize |-> New(b, j)]]
  BY <1>3
<1> QED BY <1>4, <1>5 DEF New, walk, w, Written

(* A copy out of them delivers the bytes behind the place.                  *)
LEMMA CopyOutIs ==
    ASSUME NEW n \in Nat, NEW pos \in Nat
    PROVE  CopyOut(Walk[Spot(pos, n)], n) = [t \in 1..n |-> Cell(pos + t)]
<1> DEFINE w == Spot(pos, n)
           k == PieceCount(w)
           walk == Walk[w]
           q == pos \div BaseSize
           P(t) == CHOOSE p \in DOMAIN walk : t \in (walk[p].at + 1)..(walk[p].at + walk[p].len)
           From(t) == nodes[walk[P(t)].node][walk[P(t)].off + t - walk[P(t)].at]
<1>1. k \in Nat \ {0} /\ walk = [p \in 1..k |-> Piece(w, p)] /\ q \in Nat /\ BaseSize \in Nat \ {0}
  BY SpotWalk, Division, ByteArrayAssumption
<1>0. BaseSize \in Nat \ {0}
  BY ByteArrayAssumption
<1>2. ASSUME NEW t \in 1..n PROVE From(t) = Cell(pos + t)
  <2> DEFINE x == pos + t - 1
             b == (x \div BaseSize) + 1
             j == (x % BaseSize) + 1
  <2>1. x \in Nat
    OBVIOUS
  <2>2. x \div BaseSize \in Nat /\ x % BaseSize \in 0..(BaseSize - 1)
        /\ x = (x \div BaseSize) * BaseSize + (x % BaseSize)
    BY <2>1, Division
  <2>3. b \in Nat \ {0} /\ j \in 1..BaseSize
    <3> HIDE DEF x
    <3> QED BY <1>0, <2>2
  <2>4. Number(b, j) = pos + t
    <3>1. (x \div BaseSize) * BaseSize \in Int /\ b - 1 = x \div BaseSize
      BY <2>2, Product
    <3>2. Number(b, j) = x + 1
      <4> HIDE DEF x
      <4> QED BY <2>2, <3>1 DEF Number
    <3> QED BY <3>2
  <2> HIDE DEF b, j
  <2>5. \E p \in 1..k : t \in (Piece(w, p).at + 1)..(Piece(w, p).at + Piece(w, p).len)
    <3> DEFINE e == b - q
    <3>1. /\ e \in 1..k /\ Piece(w, e).at + j - Piece(w, e).off = Number(b, j) - pos
          /\ j \in (Piece(w, e).off + 1)..(Piece(w, e).off + Piece(w, e).len)
      BY <2>3, <2>4, Covers
    <3> HIDE DEF e
    <3>2. Piece(w, e).off \in Int /\ Piece(w, e).at \in Int /\ Piece(w, e).len \in Int
      <4>1. Piece(w, e).off \in 0..(BaseSize - 1) /\ Piece(w, e).at \in Int /\ Piece(w, e).len \in Int
        BY <3>1, PieceFields
      <4> HIDE DEF w
      <4> QED BY <1>0, <4>1
    <3> HIDE DEF w, k
    <3>3. Piece(w, e).at + j - Piece(w, e).off = t
      BY <2>4, <3>1
    <3>4. t \in (Piece(w, e).at + 1)..(Piece(w, e).at + Piece(w, e).len)
      BY <2>3, <3>1, <3>2, <3>3
    <3> QED BY <3>1, <3>4
  <2>6. DOMAIN walk = 1..k /\ \A p \in 1..k : walk[p] = Piece(w, p)
    <3> HIDE DEF walk, k, w
    <3> QED BY <1>1
  <2> DEFINE p == P(t)
             pc == Piece(w, p)
  <2>7. p \in 1..k /\ t \in (pc.at + 1)..(pc.at + pc.len)
    <3> HIDE DEF walk, k, w
    <3> QED BY <2>5, <2>6
  <2>8. /\ pc.node = q + p /\ pc.off \in 0..(BaseSize - 1) /\ pc.at \in Int /\ pc.len \in Int
        /\ pc.off + pc.len <= BaseSize
    <3> HIDE DEF P
    <3>1. /\ pc.node = q + p /\ pc.off \in 0..(BaseSize - 1) /\ pc.at \in Int /\ pc.len \in Int
          /\ p < k => pc.off + pc.len = BaseSize
          /\ p = k => pc.off + pc.len \in 0..BaseSize
      BY <2>7, PieceFields
    <3> HIDE DEF pc, p, k
    <3>2. p < k \/ p = k
      BY <1>1, <2>7
    <3> QED BY <1>1, <3>1, <3>2
  <2> DEFINE c == q + p
             i == pc.off + t - pc.at
  <2>9. From(t) = nodes[c][i]
    <3> HIDE DEF walk, k, w, P
    <3> QED BY <2>6, <2>7, <2>8
  <2> HIDE DEF walk, P, p
  <2>10. c \in Nat \ {0} /\ i \in 1..BaseSize
    <3>1. q \in Nat /\ k \in Nat
      BY <1>1
    <3> HIDE DEF k, w, pc, q
    <3>2. p \in Nat \ {0}
      BY <2>7, <3>1
    <3>3. i \in 1..BaseSize
      BY <1>0, <2>7, <2>8
    <3> QED BY <3>1, <3>2, <3>3
  <2>11. Number(c, i) = pos + t
    <3>1. c - q = p
      BY <1>1, <2>7
    <3>2. pc.at + i - pc.off = Number(c, i) - pos
      <4> HIDE DEF c, i
      <4> QED BY <2>7, <2>10, <3>1, Covers
    <3>3. pc.at + i - pc.off = t
      BY <2>8
    <3>4. Number(c, i) \in Int
      <4> HIDE DEF c, i
      <4> QED BY <1>1, <2>10, Product DEF Number
    <3> HIDE DEF i, c
    <3> QED BY <3>2, <3>3, <3>4
  <2>12. x \div BaseSize = c - 1 /\ x % BaseSize = i - 1
    <3> HIDE DEF i, c
    <3>1. x = (c - 1) * BaseSize + (i - 1) /\ c - 1 \in Int /\ i - 1 \in 0..(BaseSize - 1)
      <4>1. (c - 1) * BaseSize \in Int /\ c - 1 \in Int
        BY <2>10, Product
      <4> QED BY <1>1, <2>10, <2>11, <4>1 DEF Number
    <3> HIDE DEF x
    <3> QED BY <2>1, <3>1, DivisionIs
  <2>13. Cell(pos + t) = nodes[c][i]
    <3>1. Cell(pos + t) = nodes[(x \div BaseSize) + 1][(x % BaseSize) + 1]
      BY DEF Cell
    <3> HIDE DEF i, c, x
    <3> QED BY <1>1, <2>10, <2>12, <3>1
  <2> QED BY <2>9, <2>13
<1>3. CopyOut(walk, n) = [t \in 1..n |-> From(t)]
  BY DEF CopyOut
<1> HIDE DEF From
<1> QED BY <1>2, <1>3 DEF walk, w

(* Where byte i of the chain is.                                            *)
LEMMA CellPlace ==
    ASSUME NEW count \in Nat, NEW i \in 1..(count * BaseSize)
    PROVE  LET b == ((i - 1) \div BaseSize) + 1
               j == ((i - 1) % BaseSize) + 1
           IN  b \in 1..count /\ j \in 1..BaseSize /\ Number(b, j) = i
<1> DEFINE d == (i - 1) \div BaseSize
           e == (i - 1) % BaseSize
<1>1. BaseSize \in Nat \ {0} /\ count * BaseSize \in Int
  BY ByteArrayAssumption, Product
<1>2. i - 1 \in Nat /\ i <= count * BaseSize /\ i \in Nat
  BY <1>1
<1>3. d \in Nat /\ e \in 0..(BaseSize - 1) /\ i - 1 = d * BaseSize + e
  BY <1>2, Division
<1> HIDE DEF d, e
<1>4. d * BaseSize \in Int
  BY <1>3, Product
<1>5. Number(d + 1, e + 1) = i
  <2>1. (d + 1) - 1 = d
    BY <1>3
  <2>2. Number(d + 1, e + 1) = d * BaseSize + (e + 1)
    BY <2>1 DEF Number
  <2> QED BY <1>1, <1>2, <1>3, <1>4, <2>2
<1>6. d < count
  <2>1. count < d => count * BaseSize + BaseSize <= d * BaseSize
    BY <1>3, Product
  <2>2. count = d => count * BaseSize = d * BaseSize
    OBVIOUS
  <2> QED BY <1>1, <1>2, <1>3, <1>4, <2>1, <2>2
<1>7. d + 1 \in 1..count /\ e + 1 \in 1..BaseSize
  BY <1>1, <1>3, <1>6
<1> QED BY <1>5, <1>7 DEF d, e

-----------------------------------------------------------------------------
(* What the operations do to the array: bytes are put behind the position   *)
(* after room was made for m, the position moves within the bytes there     *)
(* are, or beyond them, room is made and not used, or nothing happens.      *)
Puts(bs, m) ==
    /\ bs \in Seq(Byte) /\ m \in Nat /\ Len(bs) \in 1..m
    /\ nodes' = CopyIn(Grown(m), WalkFrom(CurGrown(m), Len(bs)), bs)
    /\ capacity' = capacity + Missing(m) * BaseSize
    /\ position' = position + Len(bs)
    /\ size' = IF position + Len(bs) > size THEN position + Len(bs) ELSE size
    /\ cur' \in {CurAfter(WalkFrom(CurGrown(m), Len(bs)), Len(Grown(m))),
                 CurAt(position + Len(bs), Len(Grown(m)))}
    /\ endian' = endian /\ crashed' = crashed
Moves(n) ==
    /\ n \in 0..ReadSize
    /\ position' = position + n
    /\ \/ cur # Null /\ cur' = CurAfter(WalkFrom(cur, n), Len(nodes))
       \/ cur' = CurAt(position + n, Len(nodes))
       \/ n = 0 /\ cur' = cur
    /\ UNCHANGED <<nodes, size, capacity, endian, crashed>>
Seeks(v) ==
    /\ v \in 0..capacity /\ MoveTo(v, Len(nodes))
    /\ UNCHANGED <<nodes, capacity, endian, crashed>>
Widens(m) ==
    /\ m \in Nat
    /\ nodes' = Grown(m) /\ cur' = CurGrown(m) /\ capacity' = capacity + Missing(m) * BaseSize
    /\ UNCHANGED <<position, size, endian, crashed>>
Keeps == UNCHANGED <<nodes, cur, position, size, capacity>> /\ endian' \in Orders /\ crashed' \in BOOLEAN

(* The walk of an operation is the walk from the position.                  *)
LEMMA WalkFromPosition ==
    ASSUME NEW count, position # count * BaseSize, NEW n
    PROVE  WalkFrom(CurFor(position, count), n) = Walk[Spot(position, n)]
BY DEF WalkFrom, CurFor, Spot

LEMMA ArrayFacts ==
    ASSUME BaInv
    PROVE  /\ BaseSize \in Nat \ {0} /\ nodes \in Seq(Blocks) /\ Len(nodes) \in Nat \ {0}
           /\ capacity = Len(nodes) * BaseSize /\ capacity \in Nat
           /\ position \in Nat /\ size \in Nat /\ position <= size /\ size <= capacity
           /\ cur = CurFor(position, Len(nodes)) /\ (cur # Null <=> position # capacity)
<1>1. /\ BaseSize \in Nat \ {0} /\ nodes \in Seq(Blocks) /\ Len(nodes) \in Nat \ {0}
      /\ capacity = Len(nodes) * BaseSize /\ capacity \in Nat
      /\ position \in Nat /\ size \in Nat /\ position <= size /\ size <= capacity
  BY ByteArrayAssumption DEF BaInv, BaTypeOK, CurExact, Blocks
<1>2. cur = CurFor(position, Len(nodes))
  BY DEF BaInv, CurExact, CurFor
<1>3. position \div BaseSize \in Nat
  BY <1>1, Division
<1> QED BY <1>1, <1>2, <1>3 DEF CurFor, Null

LEMMA CurForType ==
    ASSUME NEW count \in Nat, NEW place \in Nat, place <= count * BaseSize
    PROVE  CurFor(place, count) \in 0..count
<1>1. CASE place = count * BaseSize
  BY <1>1 DEF CurFor, Null
<1>2. CASE place # count * BaseSize
  <2>1. count * BaseSize \in Int
    BY Product
  <2>2. place + 1 \in 1..(count * BaseSize) /\ (place + 1) - 1 = place
    BY <1>2, <2>1
  <2>3. (place \div BaseSize) + 1 \in 1..count
    BY <2>2, CellPlace
  <2> QED BY <1>2, <2>3 DEF CurFor
<1> QED BY <1>1, <1>2

(* A state is sound when its numbers are.                                   *)
LEMMA Sound ==
    ASSUME NEW count \in Nat \ {0}, nodes' \in Seq(Blocks), Len(nodes') = count,
           capacity' = count * BaseSize, position' \in Nat, size' \in Nat,
           position' <= size', size' <= capacity', cur' = CurFor(position', count),
           endian' \in Orders, crashed' \in BOOLEAN
    PROVE  BaInv'
<1>1. BaseSize \in Nat \ {0} /\ capacity' \in Nat
  BY ByteArrayAssumption
<1>2. CurExact'
  BY DEF CurExact, CurFor
<1>3. cur' \in 0..Len(nodes')
  BY CurForType
<1>4. BaTypeOK'
  BY <1>1, <1>3 DEF BaTypeOK, Blocks
<1> QED BY <1>2, <1>4 DEF BaInv

LEMMA PutsStep ==
    ASSUME BaInv, NEW bs, NEW m, Puts(bs, m)
    PROVE  /\ BaInv'
           /\ Contents' = [i \in 1..size' |-> IF i \in (position + 1)..(position + Len(bs))
                                              THEN bs[i - position] ELSE Contents[i]]
<1> DEFINE n == Len(bs)
           count == Len(Grown(m))
           New(b, j) == IF position < Number(b, j) /\ Number(b, j) <= position + n
                        THEN bs[Number(b, j) - position] ELSE Grown(m)[b][j]
<1>1. /\ BaseSize \in Nat \ {0} /\ nodes \in Seq(Blocks) /\ Len(nodes) \in Nat \ {0}
      /\ capacity = Len(nodes) * BaseSize /\ capacity \in Nat
      /\ position \in Nat /\ size \in Nat /\ position <= size /\ size <= capacity
  BY ArrayFacts
<1>2. bs \in Seq(Byte) /\ m \in Nat /\ n \in Nat /\ n > 0 /\ n <= m
  BY DEF Puts
<1>3. /\ Missing(m) \in Nat /\ Grown(m) \in Seq(Blocks) /\ count = Len(nodes) + Missing(m)
      /\ \A i \in 1..Len(nodes) : Grown(m)[i] = nodes[i]
      /\ capacity + Missing(m) * BaseSize = count * BaseSize
      /\ position + m <= count * BaseSize
      /\ CurGrown(m) = CurFor(position, count)
  BY <1>2, Growth
<1> HIDE DEF n, count
<1>4. count \in Nat \ {0} /\ count * BaseSize \in Int
  BY <1>1, <1>3, Product
<1>5. position + n <= count * BaseSize /\ position < count * BaseSize /\ position # count * BaseSize
  <2>1. position \in Nat /\ n \in Nat /\ m \in Nat /\ n > 0 /\ n <= m
    BY <1>1, <1>2
  <2>2. count * BaseSize \in Int /\ position + m <= count * BaseSize
    BY <1>3, <1>4
  <2> HIDE DEF count
  <2> QED BY <2>1, <2>2
<1>6. WalkFrom(CurGrown(m), n) = Walk[Spot(position, n)]
  BY <1>3, <1>5, WalkFromPosition
<1>7. DOMAIN Grown(m) = 1..count
  BY <1>3 DEF count
<1>8. nodes' = [b \in 1..count |-> [j \in 1..BaseSize |-> New(b, j)]]
  <2>1. nodes' = CopyIn(Grown(m), Walk[Spot(position, n)], bs)
    BY <1>6 DEF Puts, n
  <2>2. count \in Nat /\ n \in Nat /\ position \in Nat
    BY <1>1, <1>2, <1>4
  <2>3. CopyIn(Grown(m), Walk[Spot(position, n)], bs) = Written(Grown(m), count, bs, n, position)
    BY <1>7, <2>2, CopyInIs
  <2> QED BY <2>1, <2>3 DEF Written
<1>9. \A b \in 1..count, j \in 1..BaseSize : Number(b, j) \in Int
  <2> TAKE b \in 1..count, j \in 1..BaseSize
  <2>1. b - 1 \in Int /\ j \in Int
    BY <1>4
  <2>2. (b - 1) * BaseSize \in Int
    BY <2>1, Product
  <2> QED BY <2>1, <2>2 DEF Number
<1>10. nodes' \in Seq(Blocks) /\ Len(nodes') = count
  <2>1. ASSUME NEW b \in 1..count, NEW j \in 1..BaseSize PROVE New(b, j) \in Byte \cup {Junk}
    <3>1. CASE position < Number(b, j) /\ Number(b, j) <= position + n
      <4>1. Number(b, j) - position \in 1..n
        BY <1>1, <1>2, <1>9, <3>1
      <4>2. bs[Number(b, j) - position] \in Byte
        BY <1>2, <4>1 DEF n
      <4> QED BY <3>1, <4>2
    <3>2. CASE ~(position < Number(b, j) /\ Number(b, j) <= position + n)
      <4>1. Grown(m)[b] \in Blocks
        BY <1>3, <1>7
      <4> QED BY <3>2, <4>1 DEF Blocks
    <3> QED BY <3>1, <3>2
  <2> HIDE DEF New
  <2>2. \A b \in 1..count : [j \in 1..BaseSize |-> New(b, j)] \in Blocks
    BY <2>1 DEF Blocks
  <2> QED BY <1>4, <1>8, <2>2
<1>11. cur' = CurFor(position + n, count)
  <2>1. CurAfter(Walk[Spot(position, n)], count) = CurFor(position + n, count)
    BY <1>1, <1>2, <1>4, <1>5, CurAfterWalk DEF Spot
  <2>2. CurAt(position + n, count) = CurFor(position + n, count)
    <3>1. position + n \in Nat
      BY <1>1, <1>2
    <3> QED BY <1>4, <1>5, <3>1, CurAtIs
  <2> QED BY <1>6, <2>1, <2>2 DEF Puts, n, count
<1>12. /\ capacity' = count * BaseSize /\ position' = position + n
       /\ size' = IF position + n > size THEN position + n ELSE size
       /\ endian' = endian /\ crashed' = crashed
  BY <1>3 DEF Puts, n
<1>13. capacity + Missing(m) * BaseSize >= capacity
  BY <1>1, <1>3
<1>14. /\ position' \in Nat /\ size' \in Nat /\ position' <= size' /\ size' <= capacity'
  <2>1. /\ position \in Nat /\ n \in Nat /\ size \in Nat /\ capacity \in Nat
        /\ position <= size /\ size <= capacity
    BY <1>1, <1>2
  <2>2. capacity <= capacity' /\ position + n <= capacity' /\ capacity' \in Int
    BY <1>3, <1>4, <1>5, <1>12, <1>13
  <2> QED BY <1>12, <2>1, <2>2
<1>15. BaInv'
  <2>1. endian' \in Orders /\ crashed' \in BOOLEAN
    BY <1>12 DEF BaInv, BaTypeOK
  <2> QED BY <1>4, <1>10, <1>11, <1>12, <1>14, <2>1, Sound
<1>16. ASSUME NEW i \in 1..size'
       PROVE  Cell(i)' = IF i \in (position + 1)..(position + n) THEN bs[i - position] ELSE Contents[i]
  <2> DEFINE b == ((i - 1) \div BaseSize) + 1
             j == ((i - 1) % BaseSize) + 1
  <2>1. i \in 1..(count * BaseSize) /\ i \in Nat /\ i <= size'
    BY <1>4, <1>12, <1>14
  <2>2. b \in 1..count /\ j \in 1..BaseSize /\ Number(b, j) = i
    BY <1>4, <2>1, CellPlace
  <2>3. Cell(i)' = nodes'[b][j]
    BY DEF Cell
  <2> HIDE DEF b, j
  <2>4. Cell(i)' = New(b, j)
    BY <1>8, <2>2, <2>3
  <2>5. CASE i \in (position + 1)..(position + n)
    BY <1>1, <1>2, <2>1, <2>2, <2>4, <2>5
  <2>6. CASE i \notin (position + 1)..(position + n)
    <3>1. ~(position < i /\ i <= position + n)
      BY <1>1, <1>2, <2>1, <2>6
    <3>2. i \in 1..size
      BY <1>1, <1>2, <1>12, <2>1, <2>6
    <3>3. i \in 1..(Len(nodes) * BaseSize)
      BY <1>1, <3>2
    <3>4. b \in 1..Len(nodes)
      BY <1>1, <3>3, CellPlace DEF b
    <3>5. New(b, j) = nodes[b][j]
      BY <1>3, <2>2, <3>1, <3>4
    <3>6. Contents[i] = nodes[b][j]
      BY <3>2 DEF Contents, Cell, b, j
    <3> QED BY <2>4, <2>6, <3>5, <3>6
  <2> QED BY <2>5, <2>6
<1>17. Contents' = [i \in 1..size' |-> Cell(i)']
  BY DEF Contents
<1> QED BY <1>15, <1>16, <1>17 DEF n

LEMMA MovesStep ==
    ASSUME BaInv, NEW n, Moves(n)
    PROVE  BaInv' /\ Contents' = Contents /\ n \in Nat /\ n <= size - position
<1>1. /\ BaseSize \in Nat \ {0} /\ nodes \in Seq(Blocks) /\ Len(nodes) \in Nat \ {0}
      /\ capacity = Len(nodes) * BaseSize /\ capacity \in Nat
      /\ position \in Nat /\ size \in Nat /\ position <= size /\ size <= capacity
      /\ cur = CurFor(position, Len(nodes)) /\ (cur # Null <=> position # capacity)
  BY ArrayFacts
<1>2. n \in Nat /\ n <= size - position /\ position' = position + n
      /\ UNCHANGED <<nodes, size, capacity, endian, crashed>>
  BY <1>1 DEF Moves, ReadSize
<1>3. Contents' = Contents
  BY <1>2 DEF Contents, Cell
<1>4. position + n \in Nat /\ position + n <= Len(nodes) * BaseSize
  BY <1>1, <1>2
<1>5. cur' = CurFor(position + n, Len(nodes))
  <2>1. CASE cur # Null /\ cur' = CurAfter(WalkFrom(cur, n), Len(nodes))
    <3>1. position # Len(nodes) * BaseSize /\ position < Len(nodes) * BaseSize
      BY <1>1, <2>1
    <3>2. WalkFrom(cur, n) = Walk[Spot(position, n)]
      BY <1>1, <3>1, WalkFromPosition
    <3>3. CurAfter(Walk[Spot(position, n)], Len(nodes)) = CurFor(position + n, Len(nodes))
      BY <1>1, <1>2, <1>4, <3>1, CurAfterWalk DEF Spot
    <3> QED BY <2>1, <3>2, <3>3
  <2>2. CASE cur' = CurAt(position + n, Len(nodes))
    BY <1>1, <1>4, <2>2, CurAtIs
  <2>3. CASE n = 0 /\ cur' = cur
    <3>1. position + n = position
      BY <1>1, <2>3
    <3> QED BY <1>1, <2>3, <3>1
  <2> QED BY <2>1, <2>2, <2>3 DEF Moves
<1>6. endian' \in Orders /\ crashed' \in BOOLEAN
  BY <1>2 DEF BaInv, BaTypeOK
<1>7. position' \in Nat /\ size' \in Nat /\ position' <= size' /\ size' <= capacity'
  BY <1>1, <1>2, <1>4
<1>8. nodes' \in Seq(Blocks) /\ Len(nodes') = Len(nodes) /\ capacity' = Len(nodes) * BaseSize
      /\ cur' = CurFor(position', Len(nodes))
  BY <1>1, <1>2, <1>5
<1>9. BaInv'
  BY <1>1, <1>6, <1>7, <1>8, Sound
<1> QED BY <1>2, <1>3, <1>9

LEMMA SeeksStep ==
    ASSUME BaInv, NEW v, Seeks(v)
    PROVE  /\ BaInv' /\ v \in Nat /\ position' = v /\ size' = IF v > size THEN v ELSE size
           /\ \A i \in 1..size : Contents'[i] = Contents[i]
<1>1. /\ BaseSize \in Nat \ {0} /\ nodes \in Seq(Blocks) /\ Len(nodes) \in Nat \ {0}
      /\ capacity = Len(nodes) * BaseSize /\ capacity \in Nat
      /\ position \in Nat /\ size \in Nat /\ position <= size /\ size <= capacity
  BY ArrayFacts
<1>2. v \in Nat /\ v <= capacity /\ position' = v /\ size' = (IF v > size THEN v ELSE size)
      /\ cur' = CurAt(v, Len(nodes)) /\ UNCHANGED <<nodes, capacity, endian, crashed>>
  BY <1>1 DEF Seeks, MoveTo
<1>3. cur' = CurFor(v, Len(nodes))
  BY <1>1, <1>2, CurAtIs
<1>4. position' \in Nat /\ size' \in Nat /\ position' <= size' /\ size' <= capacity' /\ size <= size'
  BY <1>1, <1>2
<1>5. endian' \in Orders /\ crashed' \in BOOLEAN
  BY <1>2 DEF BaInv, BaTypeOK
<1>6. nodes' \in Seq(Blocks) /\ Len(nodes') = Len(nodes) /\ capacity' = Len(nodes) * BaseSize
      /\ cur' = CurFor(position', Len(nodes))
  BY <1>1, <1>2, <1>3
<1>7. BaInv'
  BY <1>1, <1>4, <1>5, <1>6, Sound
<1>8. \A i \in 1..size : Contents'[i] = Contents[i]
  <2> TAKE i \in 1..size
  <2>1. i \in 1..size'
    BY <1>1, <1>4
  <2>2. Contents' = [k \in 1..size' |-> Cell(k)'] /\ Contents = [k \in 1..size |-> Cell(k)]
    BY DEF Contents
  <2>3. Cell(i)' = Cell(i)
    BY <1>2 DEF Cell
  <2> QED BY <2>1, <2>2, <2>3
<1> QED BY <1>2, <1>7, <1>8

LEMMA WidensStep ==
    ASSUME BaInv, NEW m, Widens(m)
    PROVE  BaInv' /\ Contents' = Contents /\ UNCHANGED position
<1>1. /\ BaseSize \in Nat \ {0} /\ nodes \in Seq(Blocks) /\ Len(nodes) \in Nat \ {0}
      /\ capacity = Len(nodes) * BaseSize /\ capacity \in Nat
      /\ position \in Nat /\ size \in Nat /\ position <= size /\ size <= capacity
  BY ArrayFacts
<1>2. m \in Nat /\ nodes' = Grown(m) /\ cur' = CurGrown(m) /\ capacity' = capacity + Missing(m) * BaseSize
      /\ UNCHANGED <<position, size, endian, crashed>>
  BY DEF Widens
<1> DEFINE count == Len(Grown(m))
<1>3. /\ Missing(m) \in Nat /\ Grown(m) \in Seq(Blocks) /\ count = Len(nodes) + Missing(m)
      /\ \A i \in 1..Len(nodes) : Grown(m)[i] = nodes[i]
      /\ capacity + Missing(m) * BaseSize = count * BaseSize
      /\ CurGrown(m) = CurFor(position, count)
  BY <1>2, Growth
<1> HIDE DEF count
<1>4. count \in Nat \ {0}
  BY <1>1, <1>3
<1>5. Missing(m) * BaseSize \in Nat
  BY <1>1, <1>3
<1>6. position' \in Nat /\ size' \in Nat /\ position' <= size' /\ size' <= capacity'
  BY <1>1, <1>2, <1>5
<1>7. endian' \in Orders /\ crashed' \in BOOLEAN
  BY <1>2 DEF BaInv, BaTypeOK
<1>8. nodes' \in Seq(Blocks) /\ Len(nodes') = count /\ capacity' = count * BaseSize
      /\ cur' = CurFor(position', count)
  BY <1>2, <1>3 DEF count
<1>9. BaInv'
  BY <1>4, <1>6, <1>7, <1>8, Sound
<1>10. ASSUME NEW i \in 1..size PROVE Cell(i)' = Cell(i)
  <2> DEFINE b == ((i - 1) \div BaseSize) + 1
  <2>1. i \in 1..(Len(nodes) * BaseSize)
    BY <1>1
  <2>2. b \in 1..Len(nodes)
    BY <1>1, <2>1, CellPlace
  <2>3. nodes'[b] = nodes[b]
    <3> HIDE DEF b
    <3> QED BY <1>2, <1>3, <2>2
  <2> QED BY <2>3 DEF Cell
<1>11. Contents' = Contents
  <2>1. Contents' = [i \in 1..size |-> Cell(i)'] /\ Contents = [i \in 1..size |-> Cell(i)]
    BY <1>2 DEF Contents
  <2> QED BY <1>10, <2>1
<1> QED BY <1>2, <1>9, <1>11

LEMMA KeepsStep ==
    ASSUME BaInv, Keeps
    PROVE  BaInv' /\ Contents' = Contents /\ UNCHANGED position
BY DEF Keeps, BaInv, BaTypeOK, CurExact, Contents, Cell

LEMMA ClearStep ==
    ASSUME BaInv, Clear
    PROVE  BaInv' /\ Contents' = <<>> /\ position' = 0
<1>1. nodes \in Seq(Blocks) /\ Len(nodes) \in Nat \ {0} /\ BaseSize \in Nat \ {0}
  BY ArrayFacts
<1>2. /\ nodes' = <<nodes[1]>> /\ cur' = 1 /\ position' = 0 /\ size' = 0 /\ capacity' = BaseSize
      /\ UNCHANGED <<endian, crashed>>
  BY DEF Clear
<1>3. nodes' \in Seq(Blocks) /\ Len(nodes') = 1
  <2>1. nodes[1] \in Blocks
    BY <1>1
  <2> QED BY <1>2, <2>1
<1>4. 1 * BaseSize = BaseSize /\ 0 = 0 * BaseSize + 0 /\ 0 \in 0..(BaseSize - 1)
  BY <1>1
<1>5. 0 \div BaseSize = 0
  BY <1>4, DivisionIs
<1>6. CurFor(0, 1) = 1
  BY <1>1, <1>4, <1>5 DEF CurFor
<1>7. endian' \in Orders /\ crashed' \in BOOLEAN
  BY <1>2 DEF BaInv, BaTypeOK
<1>8. BaInv'
  BY <1>1, <1>2, <1>3, <1>4, <1>6, <1>7, Sound
<1>9. Contents' = <<>>
  BY <1>2 DEF Contents
<1> QED BY <1>2, <1>8, <1>9

-----------------------------------------------------------------------------
(* The loops of Stream.                                                     *)
StreamInv ==
    /\ StreamTypeOK
    /\ {length, moved, errors, rounds} \subseteq Nat

(* What the call that delivered bytes delivered: the n behind the position. *)
Behind(n) == [t \in 1..n |-> Cell(position + t)]
Silent == arg' = <<>> /\ out' = <<>>

LEMMA Delivered ==
    ASSUME BaInv, NEW n \in Nat, cur # Null
    PROVE  CopyOut(WalkFrom(cur, n), n) = Behind(n)
<1>1. position # Len(nodes) * BaseSize /\ cur = CurFor(position, Len(nodes)) /\ position \in Nat
  BY ArrayFacts
<1>2. WalkFrom(cur, n) = Walk[Spot(position, n)]
  BY <1>1, WalkFromPosition
<1> QED BY <1>1, <1>2, CopyOutIs DEF Behind

(* There is something to read only before the end of the chain.             *)
LEMMA ReadableHasCur ==
    ASSUME BaInv
    PROVE  ReadSize \in Nat /\ (ReadSize > 0 => cur # Null)
BY ArrayFacts DEF ReadSize

LEMMA WriteBytesKind ==
    ASSUME BaInv, NEW bs \in Seq(Byte), WriteBytes(bs)
    PROVE  arg' = bs /\ out' = <<>> /\ ((Keeps /\ arg' = <<>>) \/ Puts(bs, Len(bs)))
<1>1. arg' = bs /\ out' = <<>> /\ crashed' = crashed
  BY DEF WriteBytes
<1>2. CASE bs = <<>>
  BY <1>1, <1>2 DEF WriteBytes, Keeps, array, BaInv, BaTypeOK
<1>3. CASE bs # <<>>
  <2>1. Len(bs) \in Nat /\ Len(bs) \in 1..Len(bs)
    BY <1>3
  <2> QED BY <1>1, <1>3, <2>1 DEF WriteBytes, Puts
<1> QED BY <1>1, <1>2, <1>3

(* Every operation of the array is one of these.                            *)
BaKinds ==
    \/ \E bs, m : Puts(bs, m) /\ arg' = bs /\ out' = <<>>
    \/ \E n : Moves(n) /\ arg' = <<>> /\ out' \in {<<>>, Behind(n)}
    \/ \E v : Seeks(v) /\ Silent
    \/ \E m : Widens(m) /\ Silent
    \/ Clear
    \/ Keeps /\ arg' = <<>> /\ out' \in {<<>>, Behind(ReadSize)}
    \/ Keeps /\ UNCHANGED <<arg, out>>

LEMMA BaNextKind ==
    ASSUME BaInv, BaNext
    PROVE  BaKinds
<1>0. BaTypeOK /\ ReadSize \in Nat
  BY ReadableHasCur DEF BaInv
<1>1. CASE Write
  <2>1. PICK kind \in Kinds : \E v \in Values[kind] : WriteBytes(Encode(kind, v, endian))
    BY <1>1 DEF Write
  <2>2. PICK v \in Values[kind] : WriteBytes(Encode(kind, v, endian))
    BY <2>1
  <2>3. Encode(kind, v, endian) \in Seq(Byte)
    BY <2>2, EncodeTyped
  <2> QED BY <2>2, <2>3, WriteBytesKind DEF BaKinds
<1>2. CASE ReadFromFile
  <2>1. PICK bs \in Values["string"] : WriteBytes(bs)
    BY <1>2 DEF ReadFromFile
  <2>2. bs \in Seq(Byte)
    BY <2>1, ByteArrayAssumption
  <2> QED BY <2>1, <2>2, WriteBytesKind DEF BaKinds
<1>3. ASSUME NEW kind \in Kinds, Read(kind) PROVE BaKinds
  <2> DEFINE n == Need(kind, Rest, endian)
  <2>1. ReadBytes(n)
    BY <1>3 DEF Read
  <2> HIDE DEF n
  <2>2. n \in 0..ReadSize /\ cur # Null /\ n \in Nat
    BY <1>0, <2>1 DEF ReadBytes
  <2>3. Moves(n) /\ arg' = <<>> /\ out' = CopyOut(WalkFrom(cur, n), n)
    BY <2>1, <2>2 DEF ReadBytes, Moves
  <2>4. out' = Behind(n)
    BY <2>2, <2>3, Delivered
  <2> QED BY <2>3, <2>4 DEF BaKinds
<1>4. ASSUME NEW kind \in Kinds, ReadThrows(kind) PROVE BaKinds
  <2>1. PICK done \in {ReadSize, 0} \cup {x \in {Width} : x <= ReadSize} :
          /\ IF done = 0 THEN UNCHANGED cur ELSE cur' = CurAfter(WalkFrom(cur, done), Len(nodes))
          /\ position' = position + done
          /\ arg' = <<>> /\ out' = <<>>
          /\ UNCHANGED <<nodes, size, capacity, endian, crashed>>
    <3>1. CASE kind \in {"varint", "zigzag"}
      BY <1>4, <3>1 DEF ReadThrows
    <3>2. CASE kind = "string" /\ ReadSize >= Width
      <4>1. Width \in {x \in {Width} : x <= ReadSize}
        BY <1>0, <3>2, CodecAssumption
      <4> QED BY <1>4, <3>2, <4>1 DEF ReadThrows
    <3>3. CASE kind \notin {"varint", "zigzag"} /\ ~(kind = "string" /\ ReadSize >= Width)
      BY <1>4, <3>3 DEF ReadThrows
    <3> QED BY <3>1, <3>2, <3>3
  <2>2. done \in 0..ReadSize
    BY <1>0, CodecAssumption
  <2>3. done # 0 => cur # Null
    BY <1>0, <2>2, ReadableHasCur
  <2>4. Moves(done)
    BY <2>1, <2>2, <2>3 DEF Moves
  <2> QED BY <2>1, <2>4 DEF BaKinds
<1>5. CASE ReadCrashes
  BY <1>0, <1>5 DEF ReadCrashes, BaKinds, Keeps, array, BaTypeOK
<1>6. CASE SetPosition
  BY <1>6 DEF SetPosition, BaKinds, Seeks, Silent
<1>7. CASE Clear
  BY <1>7 DEF BaKinds
<1>8. CASE SetIsLittleEndian
  BY <1>0, <1>8 DEF SetIsLittleEndian, BaKinds, Keeps, BaTypeOK
<1>9. CASE ToString
  <2>1. Keeps /\ arg' = <<>>
    BY <1>0, <1>9 DEF ToString, Keeps, array, BaTypeOK
  <2>2. out' \in {<<>>, Behind(ReadSize)}
    <3>1. ReadSize # 0 => CopyOut(WalkFrom(cur, ReadSize), ReadSize) = Behind(ReadSize)
      BY <1>0, ReadableHasCur, Delivered
    <3> QED BY <1>9, <3>1 DEF ToString
  <2> QED BY <2>1, <2>2 DEF BaKinds
<1> QED BY <1>1, <1>2, <1>3, <1>4, <1>5, <1>6, <1>7, <1>8, <1>9 DEF BaNext

LEMMA StreamNextKind ==
    ASSUME BaInv, StreamInv, [Next]_vars
    PROVE  BaKinds
<1>0. BaTypeOK /\ ReadSize \in Nat /\ left \in Nat /\ moved \in Nat /\ rounds \in Nat
  BY ReadableHasCur, StreamAssumption DEF BaInv, StreamInv, StreamTypeOK
<1>1. CASE UseArray
  BY <1>1, BaNextKind DEF UseArray
<1>2. ASSUME NEW which \in {"read", "write"}, FixSize(which) PROVE BaKinds
  BY <1>0, <1>2 DEF FixSize, BaKinds, Keeps, array, BaTypeOK
<1>3. CASE ReadSome
  <2> DEFINE B(n) == [i \in 1..n |-> Sent(moved + i)]
  <2>1. PICK n \in 1..left :
          /\ nodes' = CopyIn(Grown(left), WalkFrom(CurGrown(left), n), B(n))
          /\ capacity' = capacity + Missing(left) * BaseSize
          /\ MoveTo(position + n, Len(Grown(left)))
          /\ arg' = B(n) /\ out' = <<>>
          /\ endian' = endian /\ crashed' = crashed
    BY <1>3 DEF ReadSome
  <2>2. B(n) \in Seq(Byte) /\ Len(B(n)) = n
    <3>1. n \in Nat
      BY <1>0
    <3>2. \A i \in 1..n : Sent(moved + i) \in Byte
      BY <1>0, <3>1, CodecAssumption DEF Sent, Byte
    <3> QED BY <3>1, <3>2
  <2> HIDE DEF B
  <2>3. Puts(B(n), left)
    BY <1>0, <2>1, <2>2 DEF Puts, MoveTo
  <2> QED BY <2>1, <2>3 DEF BaKinds
<1>4. CASE WriteSome
  <2>1. PICK n \in 1..Sendable :
          /\ out' = CopyOut(WalkFrom(cur, n), n) /\ MoveTo(position + n, Len(nodes))
          /\ arg' = <<>> /\ UNCHANGED <<nodes, capacity, endian, crashed>>
    BY <1>4 DEF WriteSome
  <2>2. n \in 0..ReadSize /\ n \in Nat /\ n # 0
    BY <1>0 DEF Sendable
  <2>3. cur # Null
    BY <1>0, <2>2, ReadableHasCur
  <2>4. size' = size
    BY <1>0, <2>1, <2>2 DEF MoveTo, ReadSize, BaTypeOK
  <2>5. Moves(n)
    BY <2>1, <2>2, <2>4 DEF Moves, MoveTo
  <2>6. out' = Behind(n)
    BY <2>1, <2>2, <2>3, Delivered
  <2> QED BY <2>1, <2>5, <2>6 DEF BaKinds
<1>5. CASE TransferFails
  BY <1>0, <1>5 DEF TransferFails, BaKinds, Widens, Keeps, Silent, BaTypeOK
<1>6. CASE TransferEnds
  BY <1>0, <1>6 DEF TransferEnds, BaKinds, Widens, Keeps, Silent, BaTypeOK
<1>7. CASE Return \/ NetChanges \/ Stuck \/ UNCHANGED vars
  <2>1. UNCHANGED baVars
    BY <1>7 DEF Return, NetChanges, Stuck, vars
  <2> QED BY <1>0, <2>1 DEF BaKinds, Keeps, baVars, array, BaTypeOK
<1> QED BY <1>1, <1>2, <1>3, <1>4, <1>5, <1>6, <1>7 DEF Next

LEMMA BaInvStep ==
    ASSUME BaInv, StreamInv, [Next]_vars
    PROVE  BaInv'
<1>1. BaKinds
  BY StreamNextKind
<1> QED BY <1>1, PutsStep, MovesStep, SeeksStep, WidensStep, KeepsStep, ClearStep DEF BaKinds

LEMMA BaInvInit == Init => BaInv
<1> SUFFICES ASSUME Init PROVE BaInv
  OBVIOUS
<1>1. /\ nodes = <<FreshNode>> /\ cur = 1 /\ position = 0 /\ size = 0 /\ capacity = BaseSize
      /\ endian = "big" /\ crashed = FALSE
  BY DEF Init, BaInit
<1>2. BaseSize \in Nat \ {0}
  BY ByteArrayAssumption
<1>3. nodes \in Seq(Blocks) /\ Len(nodes) = 1 /\ nodes # <<>>
  BY <1>1, FreshBlock
<1>4. 0 = 0 * BaseSize + 0 /\ 0 \in 0..(BaseSize - 1)
  BY <1>2
<1>5. 0 \div BaseSize = 0
  BY <1>4, DivisionIs
<1>6. CurExact
  BY <1>1, <1>2, <1>3, <1>5 DEF CurExact
<1>7. BaTypeOK
  <2>1. crashed \in BOOLEAN /\ endian \in Orders
    BY <1>1 DEF Orders
  <2>2. position \in Nat /\ size \in Nat /\ capacity \in Nat /\ cur \in 0..Len(nodes)
    BY <1>1, <1>2, <1>3
  <2> QED BY <1>3, <2>1, <2>2 DEF BaTypeOK, Blocks
<1> QED BY <1>6, <1>7 DEF BaInv

LEMMA StreamInvStep ==
    ASSUME StreamInv, [Next]_vars
    PROVE  StreamInv'
<1>0. /\ SizeMod \in Nat \ {0} /\ left \in 0..(SizeMod - 1) /\ {length, moved, errors, rounds} \subseteq Nat
  BY StreamAssumption DEF StreamInv, StreamTypeOK
<1>1. ASSUME NEW which \in {"read", "write"}, FixSize(which) PROVE StreamInv'
  BY <1>0, <1>1, StreamAssumption DEF FixSize, StreamInv, StreamTypeOK
<1>2. CASE ReadSome
  <2>1. PICK n \in 1..left : left' = (left - n) % SizeMod /\ moved' = moved + n
    BY <1>2 DEF ReadSome, Advance
  <2>2. left' \in 0..(SizeMod - 1) /\ moved' \in Nat
    BY <1>0, <2>1
  <2> QED BY <1>0, <1>2, <2>2 DEF ReadSome, StreamInv, StreamTypeOK, call
<1>3. CASE WriteSome
  <2>1. PICK n \in 1..Sendable : left' = (left - n) % SizeMod /\ moved' = moved + n
    BY <1>3 DEF WriteSome, Advance
  <2>2. left' \in 0..(SizeMod - 1) /\ moved' \in Nat
    BY <1>0, <2>1
  <2> QED BY <1>0, <1>3, <2>2 DEF WriteSome, StreamInv, StreamTypeOK, call
<1>4. CASE TransferFails
  <2>1. left' \in 0..(SizeMod - 1) /\ errors' \in Nat
    BY <1>0, <1>4 DEF TransferFails, Advance
  <2> QED BY <1>0, <1>4, <2>1 DEF TransferFails, StreamInv, StreamTypeOK, call
<1>5. CASE TransferEnds \/ Return \/ NetChanges
  BY <1>5 DEF TransferEnds, Return, NetChanges, StreamInv, StreamTypeOK, call
<1>6. CASE UseArray \/ Stuck \/ UNCHANGED vars
  BY <1>6 DEF UseArray, Stuck, vars, loop, call, StreamInv, StreamTypeOK
<1> QED BY <1>1, <1>2, <1>3, <1>4, <1>5, <1>6 DEF Next

LEMMA StreamInvInit == Init => StreamInv
BY StreamAssumption DEF Init, StreamInit, StreamInv, StreamTypeOK

LEMMA BufferInvariant == Spec => [](BaInv /\ StreamInv)
<1>1. Init => BaInv /\ StreamInv
  BY BaInvInit, StreamInvInit
<1>2. BaInv /\ StreamInv /\ [Next]_vars => (BaInv /\ StreamInv)'
  BY BaInvStep, StreamInvStep
<1> QED BY <1>1, <1>2, PTL DEF Spec

(* The array and the loops of Stream keep their types: a block holds bytes, *)
(* whatever is copied into it, and left stays a size_t although a failed    *)
(* read adds to it (stream.cpp:21-27).                                      *)
THEOREM TypeCorrect == Spec => []TypeOK
<1>1. BaInv /\ StreamInv => TypeOK
  BY DEF BaInv, StreamInv, TypeOK
<1> QED BY <1>1, BufferInvariant, PTL

(* m_cur is the block of the position and null exactly behind the last one, *)
(* for blocks of any size, through every read, write, setPosition and       *)
(* addCapacity, and through the transfers of a Stream                       *)
(* (bytearray.cpp:338-466, 508-537).                                        *)
THEOREM CurIsExact == Spec => []CurExact
<1>1. BaInv => CurExact
  BY DEF BaInv
<1> QED BY <1>1, BufferInvariant, PTL

-----------------------------------------------------------------------------
(* The counters of a FixSize call.  A length is far below 2^64: the failed  *)
(* calls, each of which adds one to left, cannot bring it round to zero.    *)
NoWrap == \A n \in Lengths : n + MaxErrors < SizeMod

CountInv ==
    /\ op # "none" => /\ returned = "none" /\ length \in Lengths /\ errors <= MaxErrors
                      /\ moved + left = length + errors
    /\ returned = "length" => moved = length + errors

LEMMA FixSizeStep ==
    ASSUME NoWrap, BaInv, StreamInv, CountInv, [Next]_vars
    PROVE  CountInv'
<1>0. /\ SizeMod \in Nat \ {0} /\ left \in 0..(SizeMod - 1) /\ left \in Nat
      /\ length \in Nat /\ moved \in Nat /\ errors \in Nat /\ MaxErrors \in Nat
      /\ Lengths \subseteq 1..(SizeMod - 1)
  BY StreamAssumption DEF StreamInv, StreamTypeOK
<1>1. ASSUME NEW which \in {"read", "write"}, FixSize(which) PROVE CountInv'
  BY <1>0, <1>1 DEF FixSize, CountInv
<1>2. ASSUME NEW n \in 1..left, left' = (left - n) % SizeMod, moved' = moved + n,
             op # "none", UNCHANGED <<op, errors, call>>
      PROVE  CountInv'
  <2>1. left' = left - n
    BY <1>0, <1>2
  <2> QED BY <1>0, <1>2, <2>1 DEF CountInv, call
<1>3. CASE ReadSome
  BY <1>2, <1>3 DEF ReadSome, Advance
<1>4. CASE WriteSome
  <2>1. PICK n \in 1..Sendable : left' = (left - n) % SizeMod /\ moved' = moved + n
    BY <1>4 DEF WriteSome, Advance
  <2>2. n \in 1..left
    BY <1>0, <2>1, ReadableHasCur DEF Sendable
  <2> QED BY <1>2, <1>4, <2>1, <2>2 DEF WriteSome
<1>5. CASE TransferFails
  <2>1. /\ op # "none" /\ left > 0 /\ errors < MaxErrors /\ left' = (left - (-1)) % SizeMod
        /\ errors' = errors + 1 /\ UNCHANGED <<op, moved, length, returned>>
    BY <1>5 DEF TransferFails, Advance, call
  <2>2. length \in Lengths /\ moved + left = length + errors /\ returned = "none"
    BY <2>1 DEF CountInv
  <2>3. length + MaxErrors < SizeMod
    BY <2>2 DEF NoWrap
  <2>4. left + 1 < SizeMod
    <3>1. left <= length + errors
      BY <1>0, <2>2
    <3> QED BY <1>0, <2>1, <2>3, <3>1
  <2>5. left' = left + 1
    BY <1>0, <2>1, <2>4
  <2> QED BY <1>0, <2>1, <2>2, <2>5 DEF CountInv
<1>6. CASE TransferEnds
  BY <1>6 DEF TransferEnds, CountInv
<1>7. CASE Return
  BY <1>0, <1>7 DEF Return, CountInv
<1>8. CASE NetChanges \/ UseArray \/ Stuck \/ UNCHANGED vars
  BY <1>8 DEF NetChanges, UseArray, Stuck, vars, loop, call, CountInv
<1> QED BY <1>1, <1>3, <1>4, <1>5, <1>6, <1>7, <1>8 DEF Next

(* readFixSize and writeFixSize return their length only when they have     *)
(* moved so many bytes and one for every call that failed                   *)
(* (stream.cpp:21-27), for any lengths and partial transfers.               *)
THEOREM FixSizeIsExact ==
    ASSUME NoWrap
    PROVE  Spec => []FixSizeExact
<1>1. Init => CountInv
  BY DEF Init, StreamInit, CountInv
<1>2. BaInv /\ StreamInv /\ CountInv /\ [Next]_vars => CountInv'
  BY FixSizeStep
<1>3. StreamInv /\ CountInv => FixSizeExact
  BY DEF CountInv, FixSizeExact
<1> QED BY <1>1, <1>2, <1>3, BufferInvariant, PTL DEF Spec

-----------------------------------------------------------------------------
(* The refinement.                                                          *)

LEMMA ContentsFacts ==
    ASSUME BaInv
    PROVE  /\ Len(Contents) = size /\ DOMAIN Contents = 1..size
           /\ size \in Nat /\ position \in Nat /\ position <= size
           /\ Len(Flat!Rest) = size - position
           /\ \A n \in 0..(size - position) : SubSeq(Flat!Rest, 1, n) = Behind(n)
<1>1. size \in Nat /\ position \in Nat /\ position <= size
  BY ArrayFacts
<1>2. Contents = [i \in 1..size |-> Cell(i)]
  BY DEF Contents
<1>3. Len(Contents) = size /\ DOMAIN Contents = 1..size
  BY <1>1, <1>2
<1> DEFINE S == {Cell(i) : i \in 1..size}
           r == SubSeq(Contents, position + 1, size)
<1>4. Flat!Rest = r
  BY <1>3 DEF Flat!Rest
<1>5. \A i \in (position + 1)..size : Contents[i] \in S
  BY <1>1, <1>2
<1>6. /\ Len(r) = (IF position + 1 <= size THEN size - (position + 1) + 1 ELSE 0)
      /\ \A i \in 1..(size - (position + 1) + 1) : r[i] = Contents[(position + 1) + i - 1]
      /\ r \in Seq(S)
  <2> HIDE DEF S
  <2> QED BY <1>1, <1>5, SubSeqProperties
<1> HIDE DEF r
<1>7. Len(r) = size - position
  <2>1. Len(r) = IF position + 1 <= size THEN size - (position + 1) + 1 ELSE 0
    BY <1>6
  <2> QED BY <1>1, <2>1
<1>8. \A i \in 1..(size - position) : r[i] = Cell(position + i)
  <2> TAKE i \in 1..(size - position)
  <2>1. i \in 1..(size - (position + 1) + 1) /\ (position + 1) + i - 1 = position + i /\ position + i \in 1..size
    BY <1>1
  <2> QED BY <1>2, <1>6, <2>1
<1>9. ASSUME NEW n \in 0..(size - position) PROVE SubSeq(r, 1, n) = Behind(n)
  <2> HIDE DEF S
  <2>1. n \in Nat /\ n <= size - position
    BY <1>1
  <2>2. \A i \in 1..n : r[i] \in S
    BY <1>1, <1>6, <1>7, <2>1
  <2>3. /\ SubSeq(r, 1, n) \in Seq(S) /\ Len(SubSeq(r, 1, n)) = (IF 1 <= n THEN n - 1 + 1 ELSE 0)
        /\ \A i \in 1..(n - 1 + 1) : SubSeq(r, 1, n)[i] = r[1 + i - 1]
    BY <2>1, <2>2, SubSeqProperties
  <2> DEFINE s == SubSeq(r, 1, n)
  <2> HIDE DEF s
  <2>4. s \in Seq(S) /\ Len(s) = n /\ \A i \in 1..n : s[i] = Cell(position + i)
    <3>1. s \in Seq(S) /\ Len(s) = n
      BY <2>1, <2>3 DEF s
    <3>2. ASSUME NEW i \in 1..n PROVE s[i] = Cell(position + i)
      <4>1. i \in 1..(n - 1 + 1) /\ 1 + i - 1 = i /\ i \in 1..(size - position)
        BY <1>1, <2>1
      <4> QED BY <1>8, <2>3, <4>1 DEF s
    <3> QED BY <3>1, <3>2
  <2>5. s = [i \in 1..n |-> Cell(position + i)]
    BY <2>1, <2>4
  <2> QED BY <2>5 DEF Behind, s
<1> QED BY <1>1, <1>3, <1>4, <1>7, <1>9

LEMMA FlatStep ==
    ASSUME BaInv, BaInv', BaKinds
    PROVE  [Flat!FlatNext]_Flat!flat
<1>0. /\ Len(Contents) = size /\ DOMAIN Contents = 1..size
      /\ size \in Nat /\ position \in Nat /\ position <= size
      /\ Len(Flat!Rest) = size - position
      /\ \A n \in 0..(size - position) : SubSeq(Flat!Rest, 1, n) = Behind(n)
      /\ ReadSize = size - position /\ Behind(0) = <<>>
  BY ContentsFacts DEF ReadSize, Behind
<1>1. ASSUME NEW bs, NEW m, Puts(bs, m), arg' = bs, out' = <<>> PROVE Flat!Put(arg')
  <2>1. Contents' = [i \in 1..size' |-> IF i \in (position + 1)..(position + Len(bs))
                                        THEN bs[i - position] ELSE Contents[i]]
    BY <1>1, PutsStep
  <2>2. size' = (IF position + Len(bs) > size THEN position + Len(bs) ELSE size)
        /\ position' = position + Len(bs)
    BY <1>1 DEF Puts
  <2> QED BY <1>0, <1>1, <2>1, <2>2 DEF Flat!Put
<1>2. ASSUME NEW n, Moves(n), arg' = <<>>, out' \in {<<>>, Behind(n)}
      PROVE  \E k \in 0..Len(Flat!Rest) : Flat!Take(k) \/ Flat!Fail(k)
  <2>1. n \in 0..(size - position) /\ Contents' = Contents /\ position' = position + n
    BY <1>0, <1>2, MovesStep DEF Moves
  <2>2. Flat!Take(n) \/ Flat!Fail(n)
    BY <1>0, <1>2, <2>1 DEF Flat!Take, Flat!Fail
  <2> QED BY <1>0, <2>1, <2>2
<1>3. ASSUME NEW v, Seeks(v), Silent PROVE Flat!Seek(position')
  <2>1. /\ v \in Nat /\ position' = v /\ size' = (IF v > size THEN v ELSE size)
        /\ \A i \in 1..size : Contents'[i] = Contents[i]
    BY <1>3, SeeksStep
  <2>2. Len(Contents') = size' /\ size' \in Nat /\ size <= size'
    BY <1>0, <2>1, ContentsFacts DEF Contents
  <2>3. SubSeq(Contents', 1, Len(Contents)) = Contents
    <3> DEFINE S == {Cell(i) : i \in 1..size}
               s == SubSeq(Contents', 1, size)
    <3>1. Contents = [i \in 1..size |-> Cell(i)]
      BY DEF Contents
    <3>2. \A i \in 1..size : Contents'[i] \in S
      BY <2>1, <3>1
    <3>3. /\ s \in Seq(S) /\ Len(s) = (IF 1 <= size THEN size - 1 + 1 ELSE 0)
          /\ \A i \in 1..(size - 1 + 1) : s[i] = Contents'[1 + i - 1]
      <4> HIDE DEF S
      <4> QED BY <1>0, <3>2, SubSeqProperties
    <3> HIDE DEF s, S
    <3>4. Len(s) = size /\ \A i \in 1..size : s[i] = Contents[i]
      <4>1. Len(s) = size
        BY <1>0, <3>3
      <4>2. ASSUME NEW i \in 1..size PROVE s[i] = Contents[i]
        <5>1. i \in 1..(size - 1 + 1) /\ 1 + i - 1 = i
          BY <1>0
        <5> QED BY <2>1, <3>3, <5>1
      <4> QED BY <4>1, <4>2
    <3>5. s = [i \in 1..size |-> s[i]]
      BY <3>3, <3>4
    <3>6. s = Contents
      BY <3>1, <3>4, <3>5
    <3> QED BY <1>0, <3>6 DEF s
  <2> QED BY <1>0, <1>3, <2>1, <2>2, <2>3 DEF Flat!Seek, Silent
<1>4. ASSUME Contents' = Contents, position' = position, arg' = <<>>, out' \in {<<>>, Behind(ReadSize)}
      PROVE  \E k \in 0..Len(Flat!Rest) : Flat!Peek(k)
  <2>1. Flat!Peek(0) \/ Flat!Peek(ReadSize)
    BY <1>0, <1>4 DEF Flat!Peek
  <2> QED BY <1>0, <2>1
<1>5. ASSUME Clear PROVE Flat!Reset
  <2>1. Contents' = <<>> /\ position' = 0
    BY <1>5, ClearStep
  <2> QED BY <1>5, <2>1 DEF Clear, Flat!Reset
<1>6. ASSUME Keeps, UNCHANGED <<arg, out>> PROVE UNCHANGED Flat!flat
  BY <1>6, KeepsStep DEF Flat!flat
<1> QED
  BY <1>1, <1>2, <1>3, <1>4, <1>5, <1>6, WidensStep, KeepsStep DEF BaKinds, Silent, Flat!FlatNext

(* The chain of blocks implements FlatBuffer, one sequence of bytes with a  *)
(* position: whatever the size of a block, no read, write, seek or transfer *)
(* shows where one ends (bytearray.cpp:338-537, 563-665).                   *)
THEOREM BlocksAreFlat == Spec => IsFlat
<1>1. Init => Flat!FlatInit
  BY DEF Init, BaInit, Flat!FlatInit, Contents
<1>2. BaInv /\ StreamInv /\ (BaInv /\ StreamInv)' /\ [Next]_vars => [Flat!FlatNext]_Flat!flat
  BY StreamNextKind, FlatStep
<1> QED BY <1>1, <1>2, BufferInvariant, PTL DEF Spec, IsFlat, Flat!FlatSpec

-----------------------------------------------------------------------------
(* The values written: each one's bytes are where it was written, until     *)
(* something is written over them.                                          *)
Encoded(e) == Encode(e.kind, e.value, e.order)
Holds(e, contents, n) ==
    /\ e.kind \in Kinds /\ e.value \in Values[e.kind] /\ e.order \in Orders /\ e.at \in Nat
    /\ e.len = Len(Encoded(e)) /\ e.at + e.len <= n
    /\ \A i \in 1..e.len : contents[e.at + i] = Encoded(e)[i]
Stored == \A e \in log : Holds(e, Contents, size)

LEMMA EncodedTyped ==
    ASSUME NEW e, NEW contents, NEW n, Holds(e, contents, n)
    PROVE  Encoded(e) \in Seq(Byte) /\ e.len \in Nat \ {0} /\ e.len = Len(Encoded(e)) /\ e.at \in Nat
<1>1. e.kind \in Kinds /\ e.value \in Values[e.kind] /\ e.len = Len(Encoded(e)) /\ e.at \in Nat
  BY DEF Holds
<1>2. Encoded(e) \in Seq(Byte) /\ Len(Encoded(e)) \in Nat \ {0}
  BY <1>1, EncodeTyped DEF Encoded
<1> QED BY <1>1, <1>2

(* A value stays when its bytes do.                                         *)
LEMMA HoldsStill ==
    ASSUME NEW e, NEW c, NEW n \in Nat, NEW d, NEW m \in Nat, Holds(e, c, n), n <= m,
           \A i \in 1..n : (e.at < i /\ i <= e.at + e.len) => d[i] = c[i]
    PROVE  Holds(e, d, m)
<1>1. e.len \in Nat /\ e.at \in Nat
  BY EncodedTyped
<1>2. e.at + e.len <= n /\ \A i \in 1..e.len : c[e.at + i] = Encoded(e)[i]
  BY DEF Holds
<1>3. ASSUME NEW i \in 1..e.len PROVE d[e.at + i] = Encoded(e)[i]
  <2>1. e.at + i \in 1..n /\ e.at < e.at + i /\ e.at + i <= e.at + e.len
    BY <1>1, <1>2
  <2> QED BY <1>2, <2>1
<1>4. e.at + e.len <= m
  BY <1>1, <1>2
<1> QED BY <1>3, <1>4 DEF Holds

(* A step that writes nothing over them keeps the values.                   *)
LEMMA StoredStill ==
    ASSUME BaInv, Stored, size' \in Nat, size <= size', log' \subseteq log,
           \A i \in 1..size : Contents'[i] = Contents[i]
    PROVE  Stored'
<1>1. size \in Nat
  BY ArrayFacts
<1>2. ASSUME NEW e \in log' PROVE Holds(e, Contents', size')
  <2>1. Holds(e, Contents, size)
    BY DEF Stored
  <2> QED BY <1>1, <2>1, HoldsStill
<1> QED BY <1>2 DEF Stored

(* A write keeps the values it does not touch.                              *)
LEMMA StoredPut ==
    ASSUME BaInv, Stored, NEW bs, NEW m, Puts(bs, m), NEW e \in Kept(Len(bs))
    PROVE  Holds(e, Contents', size')
<1>1. size \in Nat /\ position \in Nat /\ Len(bs) \in Nat
  BY ArrayFacts DEF Puts
<1>2. size' = IF position + Len(bs) > size THEN position + Len(bs) ELSE size
  BY DEF Puts
<1>3. size' \in Nat /\ size <= size'
  BY <1>1, <1>2
<1>4. Contents' = [i \in 1..size' |-> IF i \in (position + 1)..(position + Len(bs))
                                      THEN bs[i - position] ELSE Contents[i]]
  BY PutsStep
<1>5. e \in log /\ (e.at + e.len <= position \/ position + Len(bs) <= e.at)
  BY DEF Kept
<1>6. Holds(e, Contents, size)
  BY <1>5 DEF Stored
<1>7. e.len \in Nat /\ e.at \in Nat
  BY <1>6, EncodedTyped
<1>8. ASSUME NEW i \in 1..size, e.at < i, i <= e.at + e.len PROVE Contents'[i] = Contents[i]
  <2>1. i \in 1..size' /\ i \notin (position + 1)..(position + Len(bs))
    BY <1>1, <1>3, <1>5, <1>7, <1>8
  <2> QED BY <1>4, <2>1
<1> QED BY <1>1, <1>3, <1>6, <1>8, HoldsStill

(* What is written is held.                                                 *)
LEMMA HoldsWritten ==
    ASSUME BaInv, NEW kind \in Kinds, NEW v \in Values[kind], NEW m,
           Puts(Encode(kind, v, endian), m)
    PROVE  Holds([at |-> position, len |-> Len(Encode(kind, v, endian)), kind |-> kind,
                  value |-> v, order |-> endian], Contents', size')
<1> DEFINE bs == Encode(kind, v, endian)
           e == [at |-> position, len |-> Len(bs), kind |-> kind, value |-> v, order |-> endian]
<1>1. size \in Nat /\ position \in Nat /\ endian \in Orders
  BY ArrayFacts DEF BaInv, BaTypeOK
<1>2. bs \in Seq(Byte) /\ Len(bs) \in Nat
  BY EncodeTyped
<1>3. e.at = position /\ e.len = Len(bs) /\ e.kind = kind /\ e.value = v /\ e.order = endian
  OBVIOUS
<1>4. Encoded(e) = bs
  BY <1>3 DEF Encoded
<1>5. size' = IF position + Len(bs) > size THEN position + Len(bs) ELSE size
  BY DEF Puts
<1>6. Contents' = [i \in 1..size' |-> IF i \in (position + 1)..(position + Len(bs))
                                      THEN bs[i - position] ELSE Contents[i]]
  BY PutsStep
<1> HIDE DEF bs, e
<1>7. size' \in Nat /\ position + Len(bs) <= size'
  BY <1>1, <1>2, <1>5
<1>8. ASSUME NEW i \in 1..Len(bs) PROVE Contents'[position + i] = bs[i]
  <2>1. position + i \in 1..size' /\ position + i \in (position + 1)..(position + Len(bs))
        /\ (position + i) - position = i
    BY <1>1, <1>2, <1>7
  <2> QED BY <1>6, <2>1
<1>9. Holds(e, Contents', size')
  BY <1>1, <1>3, <1>4, <1>7, <1>8 DEF Holds
<1> QED BY <1>9 DEF e, bs

LEMMA StoredKinds ==
    ASSUME BaInv, Stored, BaKinds, log' \subseteq log,
           arg' # <<>> => log' \subseteq Kept(Len(arg')) \/ Keeps
    PROVE  Stored'
<1>0. size \in Nat
  BY ArrayFacts
<1>1. ASSUME NEW bs, NEW m, Puts(bs, m), arg' = bs, ~Keeps PROVE Stored'
  <2>1. bs # <<>>
    BY <1>1 DEF Puts
  <2>2. log' \subseteq Kept(Len(bs))
    BY <1>1, <2>1
  <2>3. ASSUME NEW e \in log' PROVE Holds(e, Contents', size')
    BY <1>1, <2>2, StoredPut
  <2> QED BY <2>3 DEF Stored
<1>2. ASSUME NEW n, Moves(n) PROVE Stored'
  <2>1. Contents' = Contents /\ size' = size
    BY <1>2, MovesStep DEF Moves
  <2> QED BY <1>0, <2>1, StoredStill
<1>3. ASSUME NEW v, Seeks(v) PROVE Stored'
  <2>1. /\ v \in Nat /\ size' = (IF v > size THEN v ELSE size)
        /\ \A i \in 1..size : Contents'[i] = Contents[i]
    BY <1>3, SeeksStep
  <2> QED BY <1>0, <2>1, StoredStill
<1>4. ASSUME NEW m, Widens(m) PROVE Stored'
  <2>1. Contents' = Contents /\ size' = size
    BY <1>4, WidensStep DEF Widens
  <2> QED BY <1>0, <2>1, StoredStill
<1>5. ASSUME Clear PROVE Stored'
  BY <1>5 DEF Clear, Stored
<1>6. ASSUME Keeps PROVE Stored'
  <2>1. Contents' = Contents /\ size' = size
    BY <1>6, KeepsStep DEF Keeps
  <2> QED BY <1>0, <2>1, StoredStill
<1> QED BY <1>1, <1>2, <1>3, <1>4, <1>5, <1>6 DEF BaKinds

LEMMA StoredStep ==
    ASSUME BaInv, StreamInv, Stored, [Next]_vars
    PROVE  Stored'
<1>0. BaKinds /\ BaTypeOK
  BY StreamNextKind DEF BaInv
<1>1. \A n : Kept(n) \subseteq log
  BY DEF Kept
<1>2. CASE UseArray /\ Write
  <2>1. PICK kind \in Kinds : \E v \in Values[kind] :
          LET bs == Encode(kind, v, endian) IN
          /\ WriteBytes(bs)
          /\ log' = Kept(Len(bs)) \cup {[at |-> position, len |-> Len(bs), kind |-> kind,
                                         value |-> v, order |-> endian]}
    BY <1>2 DEF Write
  <2>2. PICK v \in Values[kind] :
          LET bs == Encode(kind, v, endian) IN
          /\ WriteBytes(bs)
          /\ log' = Kept(Len(bs)) \cup {[at |-> position, len |-> Len(bs), kind |-> kind,
                                         value |-> v, order |-> endian]}
    BY <2>1
  <2> DEFINE bs == Encode(kind, v, endian)
             e == [at |-> position, len |-> Len(bs), kind |-> kind, value |-> v, order |-> endian]
  <2>3. bs \in Seq(Byte) /\ Len(bs) \in Nat \ {0} /\ bs # <<>>
    BY EncodeTyped
  <2>4. Puts(bs, Len(bs))
    <3>1. arg' = bs /\ ((Keeps /\ arg' = <<>>) \/ Puts(bs, Len(bs)))
      BY <2>2, <2>3, WriteBytesKind
    <3> QED BY <2>3, <3>1
  <2>5. Holds(e, Contents', size')
    BY <2>4, HoldsWritten
  <2>6. log' = Kept(Len(bs)) \cup {e}
    BY <2>2
  <2> HIDE DEF bs, e
  <2>7. ASSUME NEW d \in log' PROVE Holds(d, Contents', size')
    BY <2>4, <2>5, <2>6, <2>7, StoredPut
  <2> QED BY <2>7 DEF Stored
<1>3. CASE UseArray /\ ReadFromFile
  <2>1. PICK bs \in Values["string"] : arg' = bs /\ log' = Kept(Len(bs))
    BY <1>3 DEF ReadFromFile, WriteBytes
  <2>2. log' \subseteq log /\ log' = Kept(Len(arg'))
    BY <1>1, <2>1
  <2> QED BY <1>0, <2>2, StoredKinds
<1>4. CASE ReadSome
  <2>1. PICK n \in 1..left : arg' = [i \in 1..n |-> Sent(moved + i)] /\ log' = Kept(n)
    BY <1>4 DEF ReadSome
  <2>2. Len(arg') = n
    <3>1. n \in Nat
      BY StreamAssumption DEF StreamInv, StreamTypeOK
    <3> QED BY <2>1, <3>1
  <2>3. log' \subseteq log /\ log' = Kept(Len(arg'))
    BY <1>1, <2>1, <2>2
  <2> QED BY <1>0, <2>3, StoredKinds
<1>5. CASE UseArray /\ Clear
  BY <1>5 DEF Clear, Stored
<1>6. ASSUME log' = log, arg' = <<>> PROVE Stored'
  BY <1>0, <1>6, StoredKinds
<1>7. ASSUME log' = log, UNCHANGED array, crashed' \in BOOLEAN PROVE Stored'
  <2>1. Keeps
    BY <1>0, <1>7 DEF array, Keeps, BaTypeOK
  <2> QED BY <1>0, <1>7, <2>1, StoredKinds
<1>8. ASSUME NEW kind \in Kinds, Read(kind) \/ ReadThrows(kind) PROVE log' = log /\ arg' = <<>>
  BY <1>8 DEF Read, ReadBytes, ReadThrows, history
<1>9. CASE ReadCrashes \/ SetPosition \/ SetIsLittleEndian \/ ToString
  <2>1. log' = log /\ arg' = <<>>
    BY <1>9 DEF ReadCrashes, SetPosition, SetIsLittleEndian, ToString, history
  <2> QED BY <1>6, <2>1
<1>10. CASE UseArray
  BY <1>2, <1>3, <1>5, <1>6, <1>8, <1>9, <1>10 DEF UseArray, BaNext
<1>11. CASE WriteSome \/ TransferFails \/ TransferEnds
  <2>1. log' = log /\ arg' = <<>>
    BY <1>11 DEF WriteSome, TransferFails, TransferEnds, history
  <2> QED BY <1>6, <2>1
<1>12. ASSUME NEW which \in {"read", "write"}, FixSize(which) PROVE Stored'
  BY <1>0, <1>7, <1>12 DEF FixSize, BaTypeOK
<1>13. CASE Return \/ NetChanges \/ Stuck \/ UNCHANGED vars
  <2>1. UNCHANGED baVars
    BY <1>13 DEF Return, NetChanges, Stuck, vars
  <2> QED BY <1>0, <1>7, <2>1 DEF baVars, history, BaTypeOK
<1> QED BY <1>4, <1>10, <1>11, <1>12, <1>13 DEF Next

LEMMA StoredReadBack ==
    ASSUME HostOrder = "little", BaInv, Stored
    PROVE  ReadBack
<1>1. ASSUME NEW e \in log
      PROVE  LET b == SubSeq(Contents, e.at + 1, e.at + e.len) IN
             /\ Need(e.kind, b, e.order) = e.len
             /\ Decode(e.kind, b, e.order) = e.value
  <2> DEFINE b == SubSeq(Contents, e.at + 1, e.at + e.len)
             c == Encoded(e)
  <2>1. Holds(e, Contents, size)
    BY <1>1 DEF Stored
  <2>2. /\ e.kind \in Kinds /\ e.value \in Values[e.kind] /\ e.order \in Orders
        /\ \A i \in 1..e.len : Contents[e.at + i] = c[i]
    BY <2>1 DEF Holds
  <2>3. c \in Seq(Byte) /\ e.len \in Nat /\ e.len = Len(c) /\ e.at \in Nat
    BY <2>1, EncodedTyped
  <2> HIDE DEF c
  <2>4. ASSUME NEW i \in (e.at + 1)..(e.at + e.len) PROVE Contents[i] \in Byte
    <3>1. i - e.at \in 1..e.len /\ e.at + (i - e.at) = i
      BY <2>3
    <3>2. Contents[i] = c[i - e.at]
      BY <2>2, <3>1
    <3> QED BY <2>3, <3>1, <3>2
  <2>5. /\ b \in Seq(Byte)
        /\ Len(b) = (IF e.at + 1 <= e.at + e.len THEN (e.at + e.len) - (e.at + 1) + 1 ELSE 0)
        /\ \A i \in 1..((e.at + e.len) - (e.at + 1) + 1) : b[i] = Contents[(e.at + 1) + i - 1]
    <3>1. e.at + 1 \in Int /\ e.at + e.len \in Int
      BY <2>3
    <3> QED BY <2>4, <3>1, SubSeqProperties
  <2> HIDE DEF b
  <2>6. Len(b) = e.len
    BY <2>3, <2>5
  <2>7. ASSUME NEW i \in 1..e.len PROVE b[i] = c[i]
    <3>1. i \in 1..((e.at + e.len) - (e.at + 1) + 1) /\ (e.at + 1) + i - 1 = e.at + i
      BY <2>3
    <3> QED BY <2>2, <2>5, <3>1
  <2>8. b = c
    BY <2>3, <2>5, <2>6, <2>7, SeqEqual
  <2>9. Need(e.kind, c, e.order) = Len(c) /\ Decode(e.kind, c, e.order) = e.value
    BY <2>2, RoundTrip DEF c, Encoded
  <2> QED BY <2>3, <2>8, <2>9 DEF b
<1> QED BY <1>1 DEF ReadBack

(* Whatever was written and not overwritten is read back: every kind of     *)
(* value, across any blocks, in either byte order, for integers of any      *)
(* width (bytearray.cpp:63-336).  The readers of a big-endian machine swap  *)
(* where its writers do not (bytearray.cpp:72, 219), so this is about a     *)
(* little-endian one.                                                       *)
THEOREM WrittenIsReadBack ==
    ASSUME HostOrder = "little"
    PROVE  Spec => []ReadBack
<1>1. Init => Stored
  BY DEF Init, BaInit, Stored
<1>2. BaInv /\ StreamInv /\ Stored /\ [Next]_vars => Stored'
  BY StoredStep
<1>3. BaInv /\ Stored => ReadBack
  BY StoredReadBack
<1> QED BY <1>1, <1>2, <1>3, BufferInvariant, PTL DEF Spec

-----------------------------------------------------------------------------
(* The walk of writeToFile.                                                 *)
FileItems == {nodes[n][k] : n \in Nat, k \in Nat} \cup {Junk}
FileStops(w) == w.left = 0 \/ w.node = Null \/ FileLen(w) <= 0
FilePiece(w) == [k \in 1..FileLen(w) |-> nodes[w.node][(w.pos % BaseSize) + k]]
FileNext(w) == [node |-> NextNode(w.node, Len(nodes)), pos |-> w.pos + FileLen(w), left |-> w.left - FileLen(w)]
IsFileWalk(f) ==
    f = [w \in FileSpots |->
            IF w.left = 0 THEN <<>>
            ELSE IF w.node = Null \/ FileLen(w) <= 0 THEN <<Junk>>
            ELSE [k \in 1..FileLen(w) |-> nodes[w.node][(w.pos % BaseSize) + k]]
                    \o f[[node |-> NextNode(w.node, Len(nodes)), pos |-> w.pos + FileLen(w),
                          left |-> w.left - FileLen(w)]]]

LEMMA FileGoesOn ==
    ASSUME NEW w \in FileSpots, ~FileStops(w), Len(nodes) \in Nat
    PROVE  /\ FileLen(w) \in Nat \ {0} /\ FileLen(w) <= w.left
           /\ FileNext(w) \in FileSpots /\ FileNext(w).left < w.left /\ FilePiece(w) \in Seq(FileItems)
           /\ Len(FilePiece(w)) = FileLen(w)
<1>1. w.node \in Nat /\ w.pos \in Nat /\ w.left \in Nat /\ w.left # 0
  BY DEF FileSpots, FileStops
<1>2. w.pos % BaseSize \in 0..(BaseSize - 1) /\ BaseSize \in Nat \ {0}
  BY <1>1, Division, ByteArrayAssumption
<1>3. FileLen(w) \in Nat \ {0} /\ FileLen(w) <= w.left
  BY <1>1, <1>2 DEF FileLen, FileStops
<1>4. NextNode(w.node, Len(nodes)) \in Nat
  BY <1>1 DEF NextNode, Null
<1>5. FileNext(w) \in FileSpots /\ FileNext(w).left < w.left
  BY <1>1, <1>3, <1>4 DEF FileNext, FileSpots
<1>6. ASSUME NEW k \in 1..FileLen(w) PROVE nodes[w.node][(w.pos % BaseSize) + k] \in FileItems
  <2>1. (w.pos % BaseSize) + k \in Nat
    BY <1>2, <1>3
  <2> QED BY <1>1, <2>1 DEF FileItems
<1> HIDE DEF FileItems
<1>7. FilePiece(w) \in Seq(FileItems) /\ Len(FilePiece(w)) = FileLen(w)
  BY <1>3, <1>6 DEF FilePiece
<1> QED BY <1>3, <1>5, <1>7

LEMMA FileWalkIs ==
    ASSUME Len(nodes) \in Nat
    PROVE  \A w \in FileSpots :
             /\ w.left = 0 => FileWalk[w] = <<>>
             /\ ~FileStops(w) => FileWalk[w] = FilePiece(w) \o FileWalk[FileNext(w)]
<1> DEFINE S == FileSpots
           T == Seq(FileItems)
           Z == {w \in S : FileStops(w)}
           p == [w \in S |-> IF FileStops(w) THEN w ELSE FileNext(w)]
           m == [w \in S |-> w.left]
           b == [w \in S |-> IF w.left = 0 THEN <<>> ELSE <<Junk>>]
           h == [w \in S |-> IF FileStops(w) THEN <<>> ELSE FilePiece(w)]
           g == [q \in S \X T |-> h[q[1]] \o q[2]]
<1>1. p \in [S -> S] /\ h \in [S -> T]
  BY FileGoesOn
<1>2. m \in [S -> Nat]
  BY DEF FileSpots
<1>3. b \in [S -> T]
  <2>1. Junk \in FileItems
    BY DEF FileItems
  <2> QED BY <2>1
<1>4. Shrinks(S, Z, p, m)
  <2>1. ASSUME NEW w \in S, w \notin Z PROVE m[p[w]] < m[w]
    <3>1. ~FileStops(w) /\ p[w] = FileNext(w) /\ FileNext(w) \in S /\ FileNext(w).left < w.left
      BY <2>1, FileGoesOn
    <3> QED BY <3>1
  <2> HIDE DEF m, p, Z, S
  <2> QED BY <2>1 DEF Shrinks
<1>5. g \in [S \X T -> T]
  <2>1. ASSUME NEW q \in S \X T PROVE h[q[1]] \o q[2] \in T
    <3>1. q[1] \in S /\ q[2] \in T /\ h[q[1]] \in T
      BY <1>1
    <3> HIDE DEF h
    <3> QED BY <3>1
  <2> QED BY <2>1
<1>6. PICK f \in [S -> T] : Follows(f, S, Z, p, b, g)
  <2> HIDE DEF p, m, b, g, T, Z, S
  <2> QED BY <1>1, <1>2, <1>3, <1>4, <1>5, Recursion, Zenon
<1>7. \A w \in S : f[w] = IF w.left = 0 THEN <<>>
                          ELSE IF w.node = Null \/ FileLen(w) <= 0 THEN <<Junk>>
                          ELSE FilePiece(w) \o f[FileNext(w)]
  <2> TAKE w \in S
  <2>1. CASE w \in Z
    <3>1. f[w] = b[w]
      BY <1>6, <2>1, Zenon DEF Follows
    <3>2. b[w] = (IF w.left = 0 THEN <<>> ELSE <<Junk>>) /\ FileStops(w)
      BY <2>1
    <3> HIDE DEF b, Z
    <3> QED BY <3>1, <3>2 DEF FileStops
  <2>2. CASE w \notin Z
    <3>1. ~FileStops(w) /\ p[w] = FileNext(w) /\ FileNext(w) \in S /\ h[w] = FilePiece(w)
      BY <2>2, FileGoesOn
    <3>2. <<w, f[FileNext(w)]>> \in S \X T
      BY <3>1
    <3>3. g[<<w, f[FileNext(w)]>>] = h[w] \o f[FileNext(w)]
      BY <3>2
    <3>4. f[w] = g[<<w, f[FileNext(w)]>>]
      <4> HIDE DEF g, p, b, h, Z, T, S
      <4> QED BY <1>6, <2>2, <3>1, Zenon DEF Follows
    <3> HIDE DEF g, p, b, h, Z
    <3> QED BY <3>1, <3>3, <3>4 DEF FileStops
  <2> QED BY <2>1, <2>2
<1>8. IsFileWalk(f)
  <2>1. f = [w \in S |-> f[w]]
    OBVIOUS
  <2> HIDE DEF p, m, b, g, h, Z, T
  <2> QED BY <1>7, <2>1 DEF IsFileWalk, FilePiece, FileNext
<1>9. IsFileWalk(FileWalk)
  <2> HIDE DEF p, m, b, g, h, Z, T, S
  <2> QED BY <1>8, Zenon DEF IsFileWalk, FileWalk
<1> HIDE DEF p, m, b, g, h, Z, T
<1>10. \A w \in S : FileWalk[w] = IF w.left = 0 THEN <<>>
                          ELSE IF w.node = Null \/ FileLen(w) <= 0 THEN <<Junk>>
                          ELSE FilePiece(w) \o FileWalk[FileNext(w)]
  BY <1>9 DEF IsFileWalk, FilePiece, FileNext
<1> QED BY <1>10 DEF FileStops

(* At the start of a block the pieces are blocks, and all of them together  *)
(* are what there is from there on.                                         *)
FromPlace(p) == [i \in 1..(size - p) |-> Cell(p + i)]
Aligned(w) ==
    w.pos % BaseSize = 0 /\ w.pos + w.left = size /\ w.node = CurFor(w.pos, Len(nodes))

LEMMA FromPlaceIs ==
    ASSUME BaInv, NEW p \in 0..size
    PROVE  /\ FromPlace(p) \in Seq(FileItems) /\ Len(FromPlace(p)) = size - p
           /\ \A i \in 1..(size - p) : FromPlace(p)[i] = Cell(p + i)
<1>1. size \in Nat /\ size - p \in Nat
  BY ArrayFacts
<1>2. ASSUME NEW i \in 1..(size - p) PROVE Cell(p + i) \in FileItems
  <2>1. (p + i) - 1 \in Nat
    BY <1>1
  <2>2. ((p + i) - 1) \div BaseSize \in Nat /\ ((p + i) - 1) % BaseSize \in 0..(BaseSize - 1)
    BY <2>1, Division
  <2>3. (((p + i) - 1) \div BaseSize) + 1 \in Nat /\ (((p + i) - 1) % BaseSize) + 1 \in Nat
    BY <2>2, ByteArrayAssumption
  <2> QED BY <2>3 DEF Cell, FileItems
<1> HIDE DEF FileItems
<1> QED BY <1>1, <1>2 DEF FromPlace

LEMMA AlignedStep ==
    ASSUME BaInv, NEW w \in FileSpots, Aligned(w), w.left # 0,
           \A u \in FileSpots : (Aligned(u) /\ u.left < w.left) => FileWalk[u] = FromPlace(u.pos)
    PROVE  FileWalk[w] = FromPlace(w.pos)
<1> DEFINE q == w.pos \div BaseSize
           l == FileLen(w)
           v == FileNext(w)
           count == Len(nodes)
<1>1. /\ BaseSize \in Nat \ {0} /\ size \in Nat /\ count \in Nat \ {0}
      /\ capacity = count * BaseSize /\ capacity \in Nat /\ size <= capacity
  BY ArrayFacts
<1>2. /\ w.node \in Nat /\ w.pos \in Nat /\ w.left \in Nat /\ w.pos % BaseSize = 0
      /\ w.pos + w.left = size /\ w.node = CurFor(w.pos, count)
  BY DEF FileSpots, Aligned
<1>3. q \in Nat /\ w.pos = q * BaseSize /\ q * BaseSize \in Nat
  <2> DEFINE x == w.pos
  <2>1. x \in Nat /\ x % BaseSize = 0
    BY <1>2
  <2> HIDE DEF x
  <2>2. x \div BaseSize \in Nat /\ x = (x \div BaseSize) * BaseSize + (x % BaseSize)
    BY <2>1, Division
  <2>3. (x \div BaseSize) * BaseSize \in Int
    BY <2>2, Product
  <2>4. x = (x \div BaseSize) * BaseSize
    BY <2>1, <2>2, <2>3
  <2> QED BY <2>1, <2>2, <2>4 DEF x
<1>4. w.pos # count * BaseSize /\ w.node = q + 1
  <2>1. w.pos # count * BaseSize
    BY <1>1, <1>2
  <2> QED BY <1>2, <2>1 DEF CurFor
<1>5. l = IF w.left > BaseSize THEN BaseSize ELSE w.left
  BY <1>1, <1>2 DEF FileLen
<1>6. ~FileStops(w)
  <2>1. w.left # 0 /\ w.node # Null
    BY <1>3, <1>4 DEF Null
  <2>2. ~(l <= 0)
    <3> DEFINE x == w.left
    <3>1. x \in Nat /\ x # 0 /\ l = IF x > BaseSize THEN BaseSize ELSE x
      BY <1>2, <1>5
    <3> HIDE DEF x, l
    <3> QED BY <1>1, <3>1
  <2> HIDE DEF l
  <2> QED BY <2>1, <2>2 DEF FileStops, l
<1>7. /\ l \in Nat \ {0} /\ l <= w.left /\ v \in FileSpots /\ v.left < w.left
      /\ FilePiece(w) \in Seq(FileItems) /\ Len(FilePiece(w)) = l
  BY <1>1, <1>6, FileGoesOn
<1>8. FileWalk[w] = FilePiece(w) \o FileWalk[v]
  BY <1>1, <1>6, FileWalkIs
<1>9. v.pos = w.pos + l /\ v.left = w.left - l /\ v.node = NextNode(w.node, count)
  BY DEF FileNext
<1>10. ASSUME NEW k \in 1..l PROVE FilePiece(w)[k] = Cell(w.pos + k)
  <2>1. FilePiece(w)[k] = nodes[w.node][(w.pos % BaseSize) + k]
    BY DEF FilePiece
  <2>2. (w.pos % BaseSize) + k = k
    BY <1>2, <1>7
  <2> HIDE DEF l, v, q
  <2>3. /\ (w.pos + k) - 1 \in Nat /\ k - 1 \in 0..(BaseSize - 1)
        /\ (w.pos + k) - 1 = q * BaseSize + (k - 1) /\ q \in Int
    <3> DEFINE x == w.pos
               y == w.left
               z == q * BaseSize
    <3>1. x \in Nat /\ y \in Nat /\ x = z /\ z \in Nat /\ l = (IF y > BaseSize THEN BaseSize ELSE y) /\ q \in Int
      BY <1>2, <1>3, <1>5
    <3> HIDE DEF x, y, z
    <3>2. (x + k) - 1 \in Nat /\ k - 1 \in 0..(BaseSize - 1) /\ (x + k) - 1 = z + (k - 1)
      BY <1>1, <1>7, <3>1
    <3> QED BY <3>1, <3>2 DEF x, z
  <2>4. ((w.pos + k) - 1) \div BaseSize = q /\ ((w.pos + k) - 1) % BaseSize = k - 1
    BY <2>3, DivisionIs
  <2>5. (k - 1) + 1 = k
    BY <1>7
  <2> QED BY <1>4, <2>1, <2>2, <2>4, <2>5 DEF Cell
<1> HIDE DEF l, v, q
<1>11. FileWalk[v] = FromPlace(v.pos)
  <2>1. CASE w.left > BaseSize
    <3>1. l = BaseSize
      BY <1>5, <2>1
    <3>2. v.pos \in Nat /\ v.pos = (q + 1) * BaseSize + 0 /\ q + 1 \in Int /\ 0 \in 0..(BaseSize - 1)
      <4>1. (q + 1) * BaseSize = q * BaseSize + BaseSize
        BY <1>3, Product
      <4> DEFINE x == w.pos
                 y == v.pos
                 z == q * BaseSize
                 t == (q + 1) * BaseSize
      <4>2. x \in Nat /\ x = z /\ y = x + BaseSize /\ t = z + BaseSize /\ z \in Nat
        BY <1>2, <1>3, <1>9, <3>1, <4>1
      <4> HIDE DEF x, y, z, t
      <4>3. y \in Nat /\ y = t + 0 /\ 0 \in 0..(BaseSize - 1)
        BY <1>1, <4>2
      <4>4. q + 1 \in Int
        BY <1>3
      <4> QED BY <4>3, <4>4 DEF y, t
    <3>3. v.pos \div BaseSize = q + 1 /\ v.pos % BaseSize = 0
      BY <3>2, DivisionIs
    <3>4. v.pos + v.left = size /\ v.pos < count * BaseSize
      <4> DEFINE x == w.pos
                 y == v.pos
                 a == w.left
                 b == v.left
                 t == count * BaseSize
      <4>1. /\ x \in Nat /\ a \in Nat /\ x + a = size /\ a > BaseSize /\ y = x + BaseSize
            /\ b = a - BaseSize /\ t \in Nat /\ size <= t
        BY <1>1, <1>2, <1>9, <2>1, <3>1
      <4> HIDE DEF x, y, a, b, t
      <4>2. y + b = size /\ y < t
        BY <1>1, <4>1
      <4> QED BY <4>2 DEF x, y, a, b, t
    <3>5. q + 1 < count
      <4>1. SUFFICES ASSUME count <= q + 1 PROVE FALSE
        BY <1>1, <1>3
      <4>2. count * BaseSize <= (q + 1) * BaseSize
        <5>1. CASE count = q + 1
          BY <1>1, <1>3, <5>1
        <5>2. CASE count < q + 1
          <6>1. count * BaseSize + BaseSize <= (q + 1) * BaseSize /\ (q + 1) * BaseSize \in Int
            BY <1>1, <1>3, <5>2, Product
          <6> QED BY <1>1, <6>1
        <5> QED BY <1>1, <1>3, <4>1, <5>1, <5>2
      <4>3. v.pos = (q + 1) * BaseSize
        BY <1>1, <1>3, <3>2
      <4> QED BY <1>1, <3>2, <3>4, <4>2, <4>3
    <3>6. v.node = q + 2
      BY <1>3, <1>4, <1>9, <3>5 DEF NextNode
    <3>7. CurFor(v.pos, count) = q + 2
      <4>1. v.pos # count * BaseSize
        BY <1>1, <3>2, <3>4
      <4> QED BY <1>3, <3>3, <4>1 DEF CurFor
    <3>8. Aligned(v)
      BY <3>3, <3>4, <3>6, <3>7 DEF Aligned
    <3> QED BY <1>7, <3>8
  <2>2. CASE ~(w.left > BaseSize)
    <3>1. v.left = 0 /\ v.pos = size
      BY <1>1, <1>2, <1>5, <1>9, <2>2
    <3>2. FileWalk[v] = <<>>
      BY <1>1, <1>7, <3>1, FileWalkIs
    <3>3. size \in 0..size /\ size - size = 0
      BY <1>1
    <3>4. FromPlace(size) \in Seq(FileItems) /\ Len(FromPlace(size)) = 0
      BY <3>3, FromPlaceIs
    <3>5. FromPlace(size) = <<>>
      BY <3>4, EmptySeq
    <3> QED BY <3>1, <3>2, <3>5
  <2> QED BY <2>1, <2>2
<1>12. v.pos \in 0..size /\ w.pos \in 0..size
  BY <1>1, <1>2, <1>7, <1>9
<1> DEFINE a == FilePiece(w)
           c == FromPlace(v.pos)
           d == FromPlace(w.pos)
<1>13. c \in Seq(FileItems) /\ Len(c) = size - v.pos /\ \A i \in 1..(size - v.pos) : c[i] = Cell(v.pos + i)
  BY <1>12, FromPlaceIs
<1>14. d \in Seq(FileItems) /\ Len(d) = size - w.pos /\ \A i \in 1..(size - w.pos) : d[i] = Cell(w.pos + i)
  BY <1>12, FromPlaceIs
<1>15. a \in Seq(FileItems) /\ Len(a) = l /\ \A k \in 1..l : a[k] = Cell(w.pos + k)
  BY <1>7, <1>10
<1> HIDE DEF a, c, d, FileItems
<1>16. /\ a \o c \in Seq(FileItems) /\ Len(a \o c) = Len(a) + Len(c)
       /\ \A i \in 1..(Len(a) + Len(c)) : (a \o c)[i] = IF i <= Len(a) THEN a[i] ELSE c[i - Len(a)]
  BY <1>13, <1>15, ConcatProperties
<1>17. Len(a) + Len(c) = size - w.pos
  BY <1>1, <1>2, <1>7, <1>9, <1>13, <1>15
<1>18. ASSUME NEW i \in 1..(size - w.pos) PROVE (a \o c)[i] = d[i]
  <2>1. CASE i <= l
    <3>1. i \in 1..l
      BY <1>1, <1>2, <1>7, <2>1
    <3> QED BY <1>14, <1>15, <1>16, <1>17, <2>1, <3>1
  <2>2. CASE ~(i <= l)
    <3>1. i - l \in 1..(size - v.pos) /\ v.pos + (i - l) = w.pos + i
      <4> DEFINE x == w.pos
                 y == v.pos
      <4>1. x \in Nat /\ y = x + l
        BY <1>2, <1>9
      <4> HIDE DEF x, y
      <4>2. i - l \in 1..(size - y) /\ y + (i - l) = x + i
        <5>1. i \in 1..(size - x)
          BY DEF x
        <5> QED BY <1>1, <1>7, <2>2, <4>1, <5>1
      <4> QED BY <4>2 DEF x, y
    <3> QED BY <1>13, <1>14, <1>15, <1>16, <1>17, <2>2, <3>1
  <2> QED BY <2>1, <2>2
<1>19. a \o c = d
  BY <1>14, <1>16, <1>17, <1>18, SeqEqual
<1> QED BY <1>8, <1>11, <1>19 DEF a, c, d

LEMMA AlignedWalk ==
    ASSUME BaInv
    PROVE  \A w \in FileSpots : Aligned(w) => FileWalk[w] = FromPlace(w.pos)
<1> DEFINE Bad == {n \in Nat : \E w \in FileSpots : w.left = n /\ Aligned(w) /\ FileWalk[w] # FromPlace(w.pos)}
<1>0. \A w \in FileSpots : w.left \in Nat /\ w.pos \in Nat
  BY DEF FileSpots
<1>1. SUFFICES ASSUME Bad # {} PROVE FALSE
  BY <1>0
<1>2. PICK n \in Bad : \A k \in Bad : n <= k
  <2>1. Bad \subseteq Nat
    OBVIOUS
  <2> HIDE DEF Bad
  <2> QED BY <1>1, <2>1, Least
<1>3. PICK w \in FileSpots : w.left = n /\ Aligned(w) /\ FileWalk[w] # FromPlace(w.pos)
  OBVIOUS
<1>4. w.left # 0
  <2>1. SUFFICES ASSUME w.left = 0 PROVE FALSE
    OBVIOUS
  <2>2. size \in Nat /\ Len(nodes) \in Nat /\ w.pos = size /\ size \in 0..size /\ size - size = 0
    BY <1>0, <1>3, <2>1, ArrayFacts DEF Aligned
  <2>3. FileWalk[w] = <<>>
    BY <2>1, <2>2, FileWalkIs
  <2>4. FromPlace(size) \in Seq(FileItems) /\ Len(FromPlace(size)) = 0
    BY <2>2, FromPlaceIs
  <2>5. FromPlace(size) = <<>>
    BY <2>4, EmptySeq
  <2> QED BY <1>3, <2>2, <2>3, <2>5
<1>5. ASSUME NEW u \in FileSpots, Aligned(u), u.left < w.left PROVE FileWalk[u] = FromPlace(u.pos)
  <2>1. u.left \in Nat /\ ~(n <= u.left)
    BY <1>0, <1>3, <1>5
  <2>2. u.left \notin Bad
    BY <1>2, <2>1
  <2> QED BY <1>5, <2>1, <2>2
<1> HIDE DEF Bad
<1> QED BY <1>3, <1>4, <1>5, AlignedStep

(* A file that writeToFile writes from the start of a block holds exactly   *)
(* what toString gives, for any number of blocks of any size                *)
(* (bytearray.cpp:468-490).                                                 *)
THEOREM FileIsExact == Spec => []FileExact
<1>1. ASSUME BaInv, position % BaseSize = 0 PROVE FileBytes = Rest
  <2> DEFINE w == [node |-> cur, pos |-> position, left |-> ReadSize]
  <2>1. /\ size \in Nat /\ position \in Nat /\ position <= size
        /\ cur = CurFor(position, Len(nodes)) /\ cur \in Nat
    BY <1>1, ArrayFacts DEF BaInv, BaTypeOK
  <2>2. w \in FileSpots /\ Aligned(w)
    BY <1>1, <2>1 DEF FileSpots, Aligned, ReadSize
  <2>3. FileBytes = FromPlace(position)
    BY <1>1, <2>2, AlignedWalk DEF FileBytes
  <2>4. Rest = FromPlace(position)
    <3> DEFINE r == FromPlace(position)
               s == SubSeq(Contents, position + 1, size)
    <3>1. r \in Seq(FileItems) /\ Len(r) = size - position /\ \A i \in 1..(size - position) : r[i] = Cell(position + i)
      BY <1>1, <2>1, FromPlaceIs
    <3> HIDE DEF r
    <3>2. \A i \in 1..size : Contents[i] = Cell(i)
      BY DEF Contents
    <3>3. ASSUME NEW i \in (position + 1)..size PROVE Contents[i] \in FileItems
      <4>1. i \in 1..size /\ i - position \in 1..(size - position) /\ position + (i - position) = i
        BY <2>1
      <4>2. Contents[i] = r[i - position]
        BY <3>1, <3>2, <4>1
      <4> HIDE DEF FileItems
      <4> QED BY <3>1, <4>1, <4>2
    <3> HIDE DEF FileItems
    <3>4. /\ s \in Seq(FileItems)
          /\ Len(s) = (IF position + 1 <= size THEN size - (position + 1) + 1 ELSE 0)
          /\ \A i \in 1..(size - (position + 1) + 1) : s[i] = Contents[(position + 1) + i - 1]
      <4>1. position + 1 \in Int /\ size \in Int
        BY <2>1
      <4> QED BY <3>3, <4>1, SubSeqProperties
    <3> HIDE DEF s
    <3>5. Len(s) = size - position
      BY <2>1, <3>4
    <3>6. ASSUME NEW i \in 1..(size - position) PROVE s[i] = r[i]
      <4>1. i \in 1..(size - (position + 1) + 1) /\ (position + 1) + i - 1 = position + i /\ position + i \in 1..size
        BY <2>1
      <4> QED BY <3>1, <3>2, <3>4, <4>1
    <3>7. s = r
      BY <3>1, <3>4, <3>5, <3>6, SeqEqual
    <3> QED BY <3>7 DEF Rest, s, r
  <2> QED BY <2>3, <2>4
<1>2. BaInv => FileExact
  BY <1>1 DEF FileExact
<1> QED BY <1>2, BufferInvariant, PTL
=============================================================================
