-------------------------- MODULE CollectionsProofs --------------------------
(***************************************************************************)
(* KList and KArray hold what a sequence of objects would, and KMap what   *)
(* a dictionary would, for any memory, sizes, objects and hashes.          *)
(*                                                                         *)
(* The list: from the root on, next leads along one path, of entries that  *)
(* are all different; prev leads back along it, it visits exactly the      *)
(* entries in use, and it is as long as count.  Each call keeps that, with *)
(* an entry more at the end, or without the one at the index.              *)
(*                                                                         *)
(* The array: its first length slots are in use, and the memory holds them *)
(* because the size asked for is rounded up to a power of two, bit by bit. *)
(*                                                                         *)
(* The map: every entry is in the bucket of its key, no two have equal     *)
(* keys, and they are as many as object_count says.  Its content is the    *)
(* set of its entries; a rehash has the same content in other places.      *)
(*                                                                         *)
(* References are kept for each place that an object has.                  *)
(***************************************************************************)
EXTENDS MCCollections, FiniteSetTheorems, SequenceTheorems,
        FunctionTheorems, WellFoundedInduction, TLAPS

(* Every set of natural numbers that is not empty has a least element.     *)
LEMMA Least ==
  ASSUME NEW S \in SUBSET Nat, S # {}
  PROVE  \E n \in S : \A m \in S : n <= m
<1>1. PICK n \in S : \A m \in S : <<m, n>> \notin OpToRel(<, Nat)
  BY NatLessThanWellFounded, WFMin
<1>2. \A m \in S : ~(m < n)
  BY <1>1 DEF OpToRel
<1> QED BY <1>2

(* What is left of a sequence when the i-th element is taken out.          *)
LEMMA RemoveAtIs ==
  ASSUME NEW S, NEW s \in Seq(S), NEW i \in 1 .. Len(s)
  PROVE  /\ RemoveAt(s, i) \in Seq(S)
         /\ Len(RemoveAt(s, i)) = Len(s) - 1
         /\ \A n \in 1 .. Len(s) - 1 :
              RemoveAt(s, i)[n] = IF n < i THEN s[n] ELSE s[n + 1]
<1> DEFINE a == SubSeq(s, 1, i - 1)
           b == SubSeq(s, i + 1, Len(s))
<1>1. /\ a \in Seq(S) /\ Len(a) = i - 1
      /\ \A n \in 1 .. i - 1 : a[n] = s[n]
  BY SubSeqProperties, ElementOfSeq
<1>2. /\ b \in Seq(S) /\ Len(b) = Len(s) - i
      /\ \A n \in 1 .. Len(s) - i : b[n] = s[n + i]
  BY SubSeqProperties, ElementOfSeq
<1>3. RemoveAt(s, i) = a \o b BY DEF RemoveAt
<1> HIDE DEF a, b
<1>4. /\ a \o b \in Seq(S)
      /\ Len(a \o b) = Len(s) - 1
      /\ \A n \in 1 .. Len(s) - 1 :
           (a \o b)[n] = IF n <= i - 1 THEN a[n] ELSE b[n - (i - 1)]
  <2>1. /\ a \o b \in Seq(S)
        /\ Len(a \o b) = Len(a) + Len(b)
        /\ \A n \in 1 .. Len(a) + Len(b) :
             (a \o b)[n] = IF n <= Len(a) THEN a[n] ELSE b[n - Len(a)]
    BY <1>1, <1>2, ConcatProperties
  <2>2. Len(a) + Len(b) = Len(s) - 1 BY <1>1, <1>2
  <2> QED BY <1>1, <2>1, <2>2
<1>5. ASSUME NEW n \in 1 .. Len(s) - 1
      PROVE  (a \o b)[n] = IF n < i THEN s[n] ELSE s[n + 1]
  <2>1. CASE n < i BY <1>1, <1>4, <2>1
  <2>2. CASE ~(n < i)
    <3>1. n - (i - 1) \in 1 .. Len(s) - i BY <2>2
    <3>2. b[n - (i - 1)] = s[(n - (i - 1)) + i] BY <1>2, <3>1
    <3> QED BY <1>4, <2>2, <3>2
  <2> QED BY <2>1, <2>2
<1> QED BY <1>3, <1>4, <1>5

(* How often something is in a sequence, which taking out one element      *)
(* decreases by one if it is that element.                                 *)
Times(s, o) == Cardinality({n \in DOMAIN s : s[n] = o})

LEMMA TimesType ==
  ASSUME NEW S, NEW s \in Seq(S), NEW o
  PROVE  /\ IsFiniteSet({n \in DOMAIN s : s[n] = o})
         /\ Times(s, o) \in Nat
<1>1. IsFiniteSet(1 .. Len(s)) BY FS_Interval
<1>2. IsFiniteSet({n \in DOMAIN s : s[n] = o}) BY <1>1, FS_Subset
<1> QED BY <1>2, FS_CardinalityType DEF Times

LEMMA TimesEmpty ==
  ASSUME NEW o
  PROVE  Times(<<>>, o) = 0
<1>1. {n \in DOMAIN <<>> : <<>>[n] = o} = {} OBVIOUS
<1> QED BY <1>1, FS_EmptySet DEF Times

LEMMA TimesAppend ==
  ASSUME NEW S, NEW s \in Seq(S), NEW x \in S, NEW o
  PROVE  Times(Append(s, x), o) = Times(s, o) + One(x = o)
<1> DEFINE X == {n \in DOMAIN s : s[n] = o}
           Y == {n \in DOMAIN Append(s, x) : Append(s, x)[n] = o}
           k == Len(s) + 1
<1>1. IsFiniteSet(X) /\ Cardinality(X) \in Nat BY TimesType DEF Times
<1>2. k \notin X OBVIOUS
<1>3. Y = IF x = o THEN X \cup {k} ELSE X
  BY AppendProperties
<1> HIDE DEF X, Y, k
<1>6. Times(s, o) = Cardinality(X) /\ Times(Append(s, x), o) = Cardinality(Y)
  BY DEF Times, X, Y
<1>4. CASE x = o
  <2>1. Cardinality(Y) = Cardinality(X) + 1
    BY <1>1, <1>2, <1>3, <1>4, FS_AddElement
  <2> QED BY <1>4, <1>6, <2>1 DEF One
<1>5. CASE x # o
  <2>1. Y = X BY <1>3, <1>5
  <2> QED BY <1>1, <1>5, <1>6, <2>1 DEF One
<1> QED BY <1>4, <1>5

LEMMA TimesRemoveAt ==
  ASSUME NEW S, NEW s \in Seq(S), NEW i \in 1 .. Len(s), NEW o
  PROVE  Times(RemoveAt(s, i), o) = Times(s, o) - One(s[i] = o)
<1> DEFINE r == RemoveAt(s, i)
           X == {n \in 1 .. Len(s) : s[n] = o}
           Y == {n \in 1 .. Len(s) - 1 : r[n] = o}
           f == [n \in Y |-> IF n < i THEN n ELSE n + 1]
<1>0. X = {n \in DOMAIN s : s[n] = o} OBVIOUS
<1>1. IsFiniteSet(X) /\ Cardinality(X) \in Nat
  BY <1>0, TimesType DEF Times
<1>2. /\ r \in Seq(S) /\ Len(r) = Len(s) - 1
      /\ \A n \in 1 .. Len(s) - 1 : r[n] = IF n < i THEN s[n] ELSE s[n + 1]
  BY RemoveAtIs
<1>3. i \in X <=> s[i] = o OBVIOUS
<1>4. Times(s, o) = Cardinality(X) BY <1>0 DEF Times
<1> HIDE DEF r
<1>10. Y = {n \in DOMAIN r : r[n] = o} BY <1>2
<1>5. Times(r, o) = Cardinality(Y) BY <1>10 DEF Times
<1>6. f \in Bijection(Y, X \ {i})
  <2>1. f \in [Y -> X \ {i}] BY <1>2
  <2>2. \A m, n \in Y : f[m] = f[n] => m = n OBVIOUS
  <2>3. ASSUME NEW n \in X \ {i} PROVE \E m \in Y : f[m] = n
    <3>1. CASE n < i
      <4>1. n \in Y BY <1>2, <3>1
      <4> QED BY <3>1, <4>1
    <3>2. CASE n > i
      <4>1. n - 1 \in Y BY <1>2, <3>2
      <4> QED BY <3>2, <4>1
    <3> QED BY <2>3, <3>1, <3>2
  <2> HIDE DEF X, Y, f
  <2> QED BY <2>1, <2>2, <2>3, Fun_IsBij
<1> HIDE DEF X, Y, f
<1>7. IsFiniteSet(X \ {i}) BY <1>1, FS_RemoveElement
<1>8. Cardinality(Y) = Cardinality(X \ {i})
  <2>1. ExistsBijection(X \ {i}, Y)
    BY <1>6, Fun_ExistsBijSymmetric DEF ExistsBijection
  <2> QED BY <1>7, <2>1, FS_Bijection
<1>9. Cardinality(X \ {i}) = IF s[i] = o THEN Cardinality(X) - 1 ELSE Cardinality(X)
  BY <1>1, <1>3, FS_RemoveElement
<1> QED BY <1>1, <1>4, <1>5, <1>8, <1>9 DEF r, One

-----------------------------------------------------------------------------
(* Powers of two, and division by them.                                    *)

LEMMA PowersArePositive ==
  ASSUME NEW n \in Nat
  PROVE  2^n \in Nat \ {0}
<1>1. IsFiniteSet(1 .. n) /\ Cardinality(1 .. n) = n BY FS_Interval
<1>2. IsFiniteSet(SUBSET (1 .. n)) /\ Cardinality(SUBSET (1 .. n)) = 2^n
  BY <1>1, FS_SUBSET
<1>3. SUBSET (1 .. n) # {} OBVIOUS
<1> QED BY <1>2, <1>3, FS_CardinalityType, FS_EmptySet

(* Half of the subsets of 1 .. n + 1 have n + 1 in them.                   *)
LEMMA PowerOfNext ==
  ASSUME NEW n \in Nat
  PROVE  2^(n + 1) = 2 * 2^n
<1> DEFINE low == SUBSET (1 .. n)
           high == {T \in SUBSET (1 .. n + 1) : n + 1 \in T}
           f == [T \in low |-> T \cup {n + 1}]
<1>1. /\ IsFiniteSet(1 .. n) /\ Cardinality(1 .. n) = n
      /\ IsFiniteSet(1 .. n + 1) /\ Cardinality(1 .. n + 1) = n + 1
  BY FS_Interval
<1>2. /\ IsFiniteSet(low) /\ Cardinality(low) = 2^n
      /\ IsFiniteSet(SUBSET (1 .. n + 1))
      /\ Cardinality(SUBSET (1 .. n + 1)) = 2^(n + 1)
  BY <1>1, FS_SUBSET
<1>3. f \in Bijection(low, high)
  <2>1. f \in [low -> high] OBVIOUS
  <2>2. ASSUME NEW T \in low, NEW U \in low, f[T] = f[U] PROVE T = U
    <3>1. n + 1 \notin T /\ n + 1 \notin U OBVIOUS
    <3>2. T \cup {n + 1} = U \cup {n + 1} BY <2>2
    <3> QED BY <3>1, <3>2
  <2>3. ASSUME NEW U \in high PROVE \E T \in low : f[T] = U
    <3>1. U \ {n + 1} \in low OBVIOUS
    <3>2. f[U \ {n + 1}] = U BY <3>1
    <3> QED BY <3>1, <3>2
  <2> HIDE DEF low, high, f
  <2> QED BY <2>1, <2>2, <2>3, Fun_IsBij
<1>4. SUBSET (1 .. n + 1) = low \cup high /\ low \cap high = {}
  <2>1. \A T \in SUBSET (1 .. n + 1) : n + 1 \notin T => T \in low OBVIOUS
  <2>2. low \subseteq SUBSET (1 .. n + 1) OBVIOUS
  <2>3. \A T \in low : n + 1 \notin T OBVIOUS
  <2> QED BY <2>1, <2>2, <2>3
<1> HIDE DEF low, high, f
<1>5. IsFiniteSet(high) /\ Cardinality(high) = 2^n
  BY <1>2, <1>3, FS_Bijection DEF ExistsBijection
<1>6. Cardinality(low \cup high) = 2^n + 2^n - 0
  BY <1>2, <1>4, <1>5, FS_Union, FS_EmptySet
<1>7. 2^n \in Nat BY PowersArePositive
<1>8. 2^(n + 1) = 2^n + 2^n - 0 BY <1>2, <1>4, <1>6
<1> QED BY <1>7, <1>8

LEMMA PowerOfZero == 2^0 = 1
<1>1. IsFiniteSet({}) /\ Cardinality({}) = 0 BY FS_EmptySet
<1>2. Cardinality(SUBSET {}) = 2^0 BY <1>1, FS_SUBSET
<1>3. SUBSET {} = {{}} OBVIOUS
<1> QED BY <1>2, <1>3, FS_Singleton

LEMMA PowerOfSum ==
  ASSUME NEW m \in Nat, NEW n \in Nat
  PROVE  2^(m + n) = 2^m * 2^n
<1> DEFINE Wrong == {k \in Nat : 2^(m + k) # 2^m * 2^k}
<1>1. SUFFICES ASSUME Wrong # {} PROVE FALSE OBVIOUS
<1>2. PICK k \in Wrong : \A l \in Wrong : k <= l BY <1>1, Least
<1>3. CASE k = 0 BY <1>2, <1>3, PowerOfZero, PowersArePositive
<1>4. CASE k # 0
  <2>1. k - 1 \in Nat /\ k - 1 \notin Wrong BY <1>2, <1>4
  <2>2. 2^(m + (k - 1)) = 2^m * 2^(k - 1) BY <2>1
  <2>3. 2^(k - 1 + 1) = 2 * 2^(k - 1) BY <2>1, PowerOfNext
  <2>4. 2^(m + (k - 1) + 1) = 2 * 2^(m + (k - 1)) BY <2>1, PowerOfNext
  <2>5. k - 1 + 1 = k /\ m + (k - 1) + 1 = m + k OBVIOUS
  <2>6. 2^m \in Nat /\ 2^(k - 1) \in Nat BY <2>1, PowersArePositive
  <2>7. 2^k = 2 * 2^(k - 1) BY <2>3, <2>5
  <2>8. 2^(m + k) = 2 * (2^m * 2^(k - 1)) BY <2>2, <2>4, <2>5
  <2> HIDE DEF Wrong
  <2>9. \A a, b \in Nat : 2 * (a * b) = a * (2 * b) OBVIOUS
  <2>10. 2^(m + k) = 2^m * 2^k BY <2>6, <2>7, <2>8, <2>9
  <2> QED BY <2>10 DEF Wrong
<1> QED BY <1>3, <1>4

LEMMA PowersGrow ==
  ASSUME NEW m \in Nat, NEW n \in Nat, m <= n
  PROVE  2^m <= 2^n
<1>1. n - m \in Nat /\ m + (n - m) = n OBVIOUS
<1>2. 2^n = 2^m * 2^(n - m) BY <1>1, PowerOfSum
<1>3. 2^m \in Nat /\ 2^(n - m) \in Nat \ {0} BY <1>1, PowersArePositive
<1>4. \A a \in Nat, b \in Nat \ {0} : a <= a * b OBVIOUS
<1> QED BY <1>2, <1>3, <1>4

LEMMA DivMod ==
  ASSUME NEW x \in Nat, NEW b \in Nat \ {0}
  PROVE  x \div b \in Nat /\ x % b \in 0 .. b - 1 /\ x = b * (x \div b) + (x % b)
OBVIOUS

LEMMA DivIs ==
  ASSUME NEW a \in Nat, NEW b \in Nat \ {0}, NEW q \in Nat, NEW r \in Nat,
         r < b, a = b * q + r
  PROVE  a \div b = q
<1> DEFINE d == a \div b
<1>1. d \in Nat /\ b * d <= a /\ a < b * d + b OBVIOUS
<1> HIDE DEF d
<1>2. CASE d < q
  <2>1. \A x, y, z \in Nat : x <= y => z * x <= z * y OBVIOUS
  <2>2. b * (d + 1) <= b * q BY <1>1, <1>2, <2>1
  <2>3. b * (d + 1) = b * d + b BY <1>1
  <2> QED BY <1>1, <2>2, <2>3
<1>3. CASE d > q
  <2>1. \A x, y, z \in Nat : x <= y => z * x <= z * y OBVIOUS
  <2>2. b * (q + 1) <= b * d BY <1>1, <1>3, <2>1
  <2>3. b * (q + 1) = b * q + b OBVIOUS
  <2> QED BY <1>1, <2>2, <2>3
<1> QED BY <1>1, <1>2, <1>3 DEF d

LEMMA DivOfDiv ==
  ASSUME NEW x \in Nat, NEW a \in Nat \ {0}, NEW b \in Nat \ {0}
  PROVE  (x \div a) \div b = x \div (a * b)
<1> DEFINE h == x \div a
           r == x % a
           q == h \div b
           t == h % b
<1>1. h \in Nat /\ r \in 0 .. a - 1 /\ x = a * h + r OBVIOUS
<1>2. q \in Nat /\ t \in 0 .. b - 1 /\ h = b * q + t BY <1>1
<1> HIDE DEF h, r, q, t
<1>3. x = (a * b) * q + (a * t + r)
  <2>1. x = a * (b * q + t) + r BY <1>1, <1>2
  <2>2. \A u, v, w, y \in Nat : u * (v * w + y) = (u * v) * w + u * y OBVIOUS
  <2> QED BY <1>1, <1>2, <2>1, <2>2
<1>4. a * t + r < a * b
  <2>1. \A u, v, w \in Nat : v + 1 <= w => u * v + u <= u * w OBVIOUS
  <2>2. a * t + a <= a * b BY <1>2, <2>1
  <2>3. a * t \in Nat BY <1>2
  <2> QED BY <1>1, <2>2, <2>3
<1>5. a * b \in Nat \ {0} /\ a * t + r \in Nat BY <1>1, <1>2
<1>6. x \div (a * b) = q BY <1>2, <1>3, <1>4, <1>5, DivIs
<1> QED BY <1>6 DEF q, h

-----------------------------------------------------------------------------
(* The bits of a number.                                                   *)

Below(k) == 0 .. 2^k - 1
Bit(x, n) == A!Bit(x, n) = 1

LEMMA QuotientIsSmaller ==
  ASSUME NEW x \in Nat, NEW s \in Nat
  PROVE  x \div 2^s \in Nat /\ x \div 2^s <= x
<1> SUFFICES ASSUME NEW b \in Nat \ {0}
             PROVE  x \div b \in Nat /\ x \div b <= x
  BY PowersArePositive
<1>1. x \div b \in Nat /\ b * (x \div b) <= x OBVIOUS
<1>2. \A u \in Nat : u <= b * u OBVIOUS
<1> QED BY <1>1, <1>2

LEMMA BitOfQuotient ==
  ASSUME NEW x \in Nat, NEW s \in Nat, NEW n \in Nat
  PROVE  Bit(x \div 2^s, n) <=> Bit(x, n + s)
<1>1. 2^s \in Nat \ {0} /\ 2^n \in Nat \ {0} BY PowersArePositive
<1>2. 2^(n + s) = 2^s * 2^n
  <2>1. 2^(s + n) = 2^s * 2^n BY PowerOfSum
  <2>2. s + n = n + s OBVIOUS
  <2> QED BY <2>1, <2>2
<1>3. (x \div 2^s) \div 2^n = x \div 2^(n + s)
  <2>1. (x \div 2^s) \div 2^n = x \div (2^s * 2^n) BY <1>1, DivOfDiv
  <2> QED BY <1>2, <2>1
<1> QED BY <1>3 DEF Bit, A!Bit

LEMMA LowestBit ==
  ASSUME NEW x \in Nat
  PROVE  /\ Bit(x, 0) <=> x % 2 = 1
         /\ x \div 2 \in Nat
         /\ x = 2 * (x \div 2) + IF Bit(x, 0) THEN 1 ELSE 0
         /\ \A n \in Nat : Bit(x \div 2, n) <=> Bit(x, n + 1)
<1>1. x \div 1 = x OBVIOUS
<1>2. Bit(x, 0) <=> x % 2 = 1 BY <1>1, PowerOfZero DEF Bit, A!Bit
<1>3. 2^1 = 2 BY PowerOfNext, PowerOfZero
<1>4. \A n \in Nat : Bit(x \div 2, n) <=> Bit(x, n + 1)
  BY <1>3, BitOfQuotient
<1>5. x \div 2 \in Nat /\ x % 2 \in 0 .. 2 - 1 /\ x = 2 * (x \div 2) + (x % 2)
  OBVIOUS
<1> QED BY <1>2, <1>4, <1>5

LEMMA HalfIsBelow ==
  ASSUME NEW k \in Nat
  PROVE  /\ \A x \in Below(k + 1) : x \div 2 \in Below(k)
         /\ \A h \in Below(k) : 2 * h \in Below(k + 1) /\ 2 * h + 1 \in Below(k + 1)
<1>1. 2^(k + 1) = 2 * 2^k /\ 2^k \in Nat \ {0} BY PowerOfNext, PowersArePositive
<1> QED BY <1>1 DEF Below

LEMMA NoBitAbove ==
  ASSUME NEW k \in Nat, NEW x \in Below(k), NEW n \in Nat, k <= n
  PROVE  ~Bit(x, n)
<1>1. 2^k <= 2^n /\ 2^n \in Nat \ {0} /\ 2^k \in Nat
  BY PowersGrow, PowersArePositive
<1>2. x \in Nat /\ x < 2^n BY <1>1 DEF Below
<1>3. x = 2^n * 0 + x BY <1>1, <1>2
<1>4. x \div 2^n = 0 BY <1>1, <1>2, <1>3, DivIs
<1> QED BY <1>4 DEF Bit, A!Bit

(* Numbers are what their bits say.                                        *)
LEMMA BitsDetermine ==
  ASSUME NEW k \in Nat, NEW x \in Below(k), NEW y \in Below(k),
         \A n \in 0 .. k - 1 : Bit(x, n) <=> Bit(y, n)
  PROVE  x = y
<1> DEFINE Same(j, u, v) == \A n \in 0 .. j - 1 : Bit(u, n) <=> Bit(v, n)
           Wrong == {j \in Nat : \E u, v \in Below(j) : Same(j, u, v) /\ u # v}
<1>1. SUFFICES ASSUME Wrong # {} PROVE FALSE OBVIOUS
<1>2. PICK j \in Wrong : \A l \in Wrong : j <= l BY <1>1, Least
<1>3. PICK u \in Below(j), v \in Below(j) : Same(j, u, v) /\ u # v BY <1>2
<1>4. CASE j = 0 BY <1>3, <1>4, PowerOfZero DEF Below
<1>5. CASE j # 0
  <2>1. j - 1 \in Nat /\ j - 1 \notin Wrong /\ (j - 1) + 1 = j BY <1>2, <1>5
  <2>2. u \in Nat /\ v \in Nat BY <1>2, PowersArePositive DEF Below
  <2>3. u \div 2 \in Below(j - 1) /\ v \div 2 \in Below(j - 1)
    BY <2>1, HalfIsBelow
  <2>4. ASSUME NEW n \in 0 .. (j - 1) - 1 PROVE Bit(u \div 2, n) <=> Bit(v \div 2, n)
    <3>1. n \in Nat /\ n + 1 \in 0 .. j - 1 OBVIOUS
    <3>2. Bit(u, n + 1) <=> Bit(v, n + 1) BY <1>3, <3>1
    <3> QED BY <2>2, <3>1, <3>2, LowestBit
  <2>5. u \div 2 = v \div 2 BY <2>1, <2>3, <2>4
  <2>6. Bit(u, 0) <=> Bit(v, 0) BY <1>2, <1>3, <1>5
  <2> QED BY <1>3, <2>2, <2>5, <2>6, LowestBit
<1> QED BY <1>4, <1>5

(* There is a number for the bits of any two together.                     *)
LEMMA UnionOfBits ==
  ASSUME NEW k \in Nat, NEW x \in Below(k), NEW y \in Below(k)
  PROVE  \E z \in Below(k) :
           \A n \in 0 .. k - 1 : Bit(z, n) <=> Bit(x, n) \/ Bit(y, n)
<1> DEFINE Is(j, z, u, v) == \A n \in 0 .. j - 1 : Bit(z, n) <=> Bit(u, n) \/ Bit(v, n)
           Wrong == {j \in Nat : \E u, v \in Below(j) :
                                   \A z \in Below(j) : ~Is(j, z, u, v)}
<1>1. SUFFICES ASSUME Wrong # {} PROVE FALSE
  <2>1. k \notin Wrong BY <1>1
  <2> QED BY <2>1
<1>2. PICK j \in Wrong : \A l \in Wrong : j <= l BY <1>1, Least
<1>3. PICK u \in Below(j), v \in Below(j) : \A z \in Below(j) : ~Is(j, z, u, v)
  BY <1>2
<1>4. CASE j = 0 BY <1>3, <1>4
<1>5. CASE j # 0
  <2>1. j - 1 \in Nat /\ j - 1 \notin Wrong /\ (j - 1) + 1 = j BY <1>2, <1>5
  <2>2. u \in Nat /\ v \in Nat BY <1>2, PowersArePositive DEF Below
  <2>3. u \div 2 \in Below(j - 1) /\ v \div 2 \in Below(j - 1)
    BY <2>1, HalfIsBelow
  <2>4. PICK h \in Below(j - 1) : Is(j - 1, h, u \div 2, v \div 2)
    BY <2>1, <2>3
  <2> DEFINE z == 2 * h + IF Bit(u, 0) \/ Bit(v, 0) THEN 1 ELSE 0
  <2>5. h \in Nat BY <2>1, PowersArePositive DEF Below
  <2>6. z \in Below(j)
    <3>1. 2 * h \in Below(j - 1 + 1) /\ 2 * h + 1 \in Below(j - 1 + 1)
      BY <2>1, HalfIsBelow
    <3>2. 2 * h \in Below(j) /\ 2 * h + 1 \in Below(j) BY <2>1, <3>1
    <3> QED BY <2>5, <3>2
  <2>7. z \in Nat /\ z \div 2 = h /\ (z % 2 = 1 <=> Bit(u, 0) \/ Bit(v, 0))
    BY <2>5
  <2> HIDE DEF z
  <2>8. ASSUME NEW n \in 0 .. j - 1 PROVE Bit(z, n) <=> Bit(u, n) \/ Bit(v, n)
    <3>1. CASE n = 0 BY <2>7, <3>1, LowestBit
    <3>2. CASE n # 0
      <4>1. n - 1 \in 0 .. (j - 1) - 1 /\ n - 1 \in Nat /\ (n - 1) + 1 = n BY <3>2
      <4>2. Bit(h, n - 1) <=> Bit(u \div 2, n - 1) \/ Bit(v \div 2, n - 1)
        BY <2>4, <4>1
      <4>3. \A w \in Nat : Bit(w \div 2, n - 1) <=> Bit(w, n)
        <5>1. \A w \in Nat : Bit(w \div 2, n - 1) <=> Bit(w, n - 1 + 1)
          BY <4>1, LowestBit
        <5> QED BY <4>1, <5>1
      <4> QED BY <2>2, <2>7, <4>2, <4>3
    <3> QED BY <3>1, <3>2
  <2> QED BY <1>3, <2>6, <2>8
<1> QED BY <1>4, <1>5

-----------------------------------------------------------------------------
(* KAllocationNextPowerOfTwoSize.                                          *)

LEMMA WidthIsOfUInt32 == Width \in 1 .. 32
BY CollectionsAssumption DEF A!ArrayAssumption

LEMMA OrShiftedIs ==
  ASSUME NEW x \in Below(Width), NEW s \in Nat
  PROVE  /\ A!OrShifted(x, s) \in Below(Width)
         /\ \A n \in Nat : Bit(A!OrShifted(x, s), n) <=> Bit(x, n) \/ Bit(x, n + s)
<1> DEFINE y == x \div 2^s
           P(z) == \A n \in 0 .. Width - 1 : A!Bit(z, n) = 1 <=> A!Bit(x, n) = 1 \/ A!Bit(y, n) = 1
           z == CHOOSE z \in 0 .. 2^Width - 1 : P(z)
<1>1. Width \in Nat /\ 2^Width \in Nat BY WidthIsOfUInt32, PowersArePositive
<1>2. x \in Nat BY <1>1 DEF Below
<1>3. y \in Below(Width) BY <1>1, <1>2, QuotientIsSmaller DEF Below
<1>4. \E w \in 0 .. 2^Width - 1 : P(w)
  BY <1>1, <1>3, UnionOfBits DEF Below, Bit
<1>5. z \in Below(Width) /\ P(z) BY <1>4 DEF Below
<1>6. A!OrShifted(x, s) = z BY DEF A!OrShifted, A!BitOr
<1> HIDE DEF z
<1>7. ASSUME NEW n \in Nat PROVE Bit(z, n) <=> Bit(x, n) \/ Bit(x, n + s)
  <2>1. Bit(y, n) <=> Bit(x, n + s) BY <1>2, BitOfQuotient
  <2>2. CASE n < Width BY <1>1, <1>5, <2>1, <2>2 DEF Bit
  <2>3. CASE n >= Width BY <1>1, <1>3, <1>5, <2>1, <2>3, NoBitAbove
  <2> QED BY <1>1, <2>2, <2>3
<1> QED BY <1>5, <1>6, <1>7

(* The shifts reach every bit of 32.                                       *)
LEMMA SmearIs ==
  ASSUME NEW x \in Below(Width)
  PROVE  /\ A!Smear(x) \in Below(Width)
         /\ \A n \in Nat : Bit(A!Smear(x), n) <=> \E m \in 0 .. 31 : Bit(x, n + m)
<1> DEFINE a == A!OrShifted(x, 1)
           b == A!OrShifted(a, 2)
           c == A!OrShifted(b, 4)
           d == A!OrShifted(c, 8)
           e == A!OrShifted(d, 16)
<1>1. a \in Below(Width) /\ \A n \in Nat : Bit(a, n) <=> Bit(x, n) \/ Bit(x, n + 1)
  BY OrShiftedIs
<1> HIDE DEF a
<1>2. b \in Below(Width) /\ \A n \in Nat : Bit(b, n) <=> Bit(a, n) \/ Bit(a, n + 2)
  BY <1>1, OrShiftedIs
<1> HIDE DEF b
<1>3. c \in Below(Width) /\ \A n \in Nat : Bit(c, n) <=> Bit(b, n) \/ Bit(b, n + 4)
  BY <1>2, OrShiftedIs
<1> HIDE DEF c
<1>4. d \in Below(Width) /\ \A n \in Nat : Bit(d, n) <=> Bit(c, n) \/ Bit(c, n + 8)
  BY <1>3, OrShiftedIs
<1> HIDE DEF d
<1>5. e \in Below(Width) /\ \A n \in Nat : Bit(e, n) <=> Bit(d, n) \/ Bit(d, n + 16)
  BY <1>4, OrShiftedIs
<1>6. A!Smear(x) = e BY DEF A!Smear, a, b, c, d
<1> HIDE DEF e
<1>7. \A n \in Nat : Bit(a, n) <=> \E m \in 0 .. 1 : Bit(x, n + m)
  <2> SUFFICES ASSUME NEW n \in Nat
               PROVE  Bit(a, n) <=> \E m \in 0 .. 1 : Bit(x, n + m)
    OBVIOUS
  <2>1. n + 0 = n OBVIOUS
  <2>2. 0 .. 1 = {0, 1} OBVIOUS
  <2> QED BY <1>1, <2>1, <2>2
<1>8. ASSUME NEW k \in Nat, NEW u, NEW v, NEW l \in Nat,
             l = 2 * k + 1,
             \A n \in Nat : Bit(u, n) <=> \E m \in 0 .. k : Bit(x, n + m),
             \A n \in Nat : Bit(v, n) <=> Bit(u, n) \/ Bit(u, n + (k + 1))
      PROVE  \A n \in Nat : Bit(v, n) <=> \E m \in 0 .. l : Bit(x, n + m)
  <2> SUFFICES ASSUME NEW n \in Nat
               PROVE  Bit(v, n) <=> \E m \in 0 .. l : Bit(x, n + m)
    OBVIOUS
  <2>1. ASSUME Bit(v, n) PROVE \E m \in 0 .. l : Bit(x, n + m)
    <3>1. CASE Bit(u, n)
      <4>1. PICK m \in 0 .. k : Bit(x, n + m) BY <1>8, <3>1
      <4>2. m \in 0 .. l BY <1>8
      <4> QED BY <4>1, <4>2
    <3>2. CASE Bit(u, n + (k + 1))
      <4>3. n + (k + 1) \in Nat OBVIOUS
      <4>1. PICK m \in 0 .. k : Bit(x, (n + (k + 1)) + m) BY <1>8, <3>2, <4>3
      <4>2. k + 1 + m \in 0 .. l /\ (n + (k + 1)) + m = n + (k + 1 + m) BY <1>8
      <4> QED BY <4>1, <4>2
    <3> QED BY <1>8, <2>1, <3>1, <3>2
  <2>2. ASSUME NEW m \in 0 .. l, Bit(x, n + m) PROVE Bit(v, n)
    <3>1. CASE m <= k
      <4>1. m \in 0 .. k BY <3>1
      <4> QED BY <1>8, <2>2, <4>1
    <3>2. CASE m > k
      <4>1. m - (k + 1) \in 0 .. k /\ n + (k + 1) \in Nat
            /\ (n + (k + 1)) + (m - (k + 1)) = n + m
        BY <1>8, <3>2
      <4> QED BY <1>8, <2>2, <4>1
    <3> QED BY <3>1, <3>2
  <2> QED BY <2>1, <2>2
<1>9. \A n \in Nat : Bit(b, n) <=> \E m \in 0 .. 3 : Bit(x, n + m)
  BY <1>2, <1>7, <1>8
<1>10. \A n \in Nat : Bit(c, n) <=> \E m \in 0 .. 7 : Bit(x, n + m)
  BY <1>3, <1>8, <1>9
<1>11. \A n \in Nat : Bit(d, n) <=> \E m \in 0 .. 15 : Bit(x, n + m)
  BY <1>4, <1>8, <1>10
<1>12. \A n \in Nat : Bit(e, n) <=> \E m \in 0 .. 31 : Bit(x, n + m)
  BY <1>5, <1>8, <1>11
<1> QED BY <1>5, <1>6, <1>12

LEMMA HighestBit ==
  ASSUME NEW x \in Nat \ {0}
  PROVE  \E k \in Nat : /\ 2^k <= x /\ x < 2^(k + 1)
                        /\ Bit(x, k)
                        /\ \A n \in Nat : n > k => ~Bit(x, n)
<1> DEFINE Short == {n \in Nat : 2^n <= n}
           Enough == {n \in Nat : x < 2^n}
<1>1. Short = {}
  <2>1. SUFFICES ASSUME Short # {} PROVE FALSE OBVIOUS
  <2>2. PICK n \in Short : \A m \in Short : n <= m BY <2>1, Least
  <2>3. n # 0
    <3>1. 0 \notin Short BY PowerOfZero
    <3> QED BY <2>2, <3>1
  <2>4. n - 1 \in Nat /\ n - 1 \notin Short /\ (n - 1) + 1 = n BY <2>2, <2>3
  <2>5. 2^(n - 1 + 1) = 2 * 2^(n - 1) BY <2>4, PowerOfNext
  <2>6. 2^(n - 1) \in Nat /\ 2^(n - 1) > n - 1 BY <2>4, PowersArePositive
  <2>7. 2^n <= n /\ n \in Nat BY <2>2
  <2> QED BY <2>3, <2>4, <2>5, <2>6, <2>7
<1>2. x \in Enough
  <2>1. x \in Nat /\ 2^x \in Nat BY PowersArePositive
  <2> QED BY <1>1, <2>1
<1>3. PICK j \in Enough : \A m \in Enough : j <= m BY <1>2, Least
<1>4. j # 0
  <2>1. 0 \notin Enough BY PowerOfZero
  <2> QED BY <1>3, <2>1
<1>5. j - 1 \in Nat /\ j - 1 \notin Enough /\ (j - 1) + 1 = j BY <1>3, <1>4
<1> DEFINE k == j - 1
<1>6. k \in Nat /\ 2^k \in Nat \ {0} /\ 2^k <= x /\ x < 2^(k + 1)
  BY <1>3, <1>5, PowersArePositive
<1> HIDE DEF k
<1>7. Bit(x, k)
  <2>1. 2^(k + 1) = 2 * 2^k BY <1>6, PowerOfNext
  <2>2. x - 2^k \in Nat /\ x - 2^k < 2^k /\ x = 2^k * 1 + (x - 2^k)
    BY <1>6, <2>1
  <2>3. x \div 2^k = 1 BY <1>6, <2>2, DivIs
  <2> QED BY <2>3 DEF Bit, A!Bit
<1>8. ASSUME NEW n \in Nat, n > k PROVE ~Bit(x, n)
  <2>1. k + 1 \in Nat /\ k + 1 <= n BY <1>6, <1>8
  <2>2. x \in Below(k + 1) BY <1>6, <2>1, PowersArePositive DEF Below
  <2> QED BY <2>1, <2>2, NoBitAbove
<1> QED BY <1>6, <1>7, <1>8

LEMMA AllOnes ==
  ASSUME NEW j \in Nat, NEW n \in Nat
  PROVE  /\ 2^j - 1 \in Below(j)
         /\ Bit(2^j - 1, n) <=> n < j
<1>1. 2^j \in Nat \ {0} /\ 2^n \in Nat \ {0} BY PowersArePositive
<1>2. 2^j - 1 \in Below(j) BY <1>1 DEF Below
<1>3. CASE n >= j BY <1>2, <1>3, NoBitAbove
<1>4. CASE n < j
  <2>1. j - n - 1 \in Nat /\ n + ((j - n - 1) + 1) = j BY <1>4
  <2> DEFINE q == 2^(j - n - 1)
  <2>2. q \in Nat \ {0} BY <2>1, PowersArePositive
  <2>3. 2^(j - n - 1 + 1) = 2 * q BY <2>1, PowerOfNext
  <2>4. 2^(n + ((j - n - 1) + 1)) = 2^n * 2^(j - n - 1 + 1) BY <2>1, PowerOfSum
  <2>5. 2^j = 2^n * (2 * q) BY <2>1, <2>3, <2>4
  <2> HIDE DEF q
  <2>6. 2^j - 1 = 2^n * (2 * q - 1) + (2^n - 1)
    <3>1. \A a, b \in Nat : a * (b - 1) + a = a * b OBVIOUS
    <3> QED BY <1>1, <2>2, <2>5, <3>1
  <2>7. /\ 2 * q - 1 \in Nat /\ (2 * q - 1) % 2 = 1
        /\ 2^n - 1 \in Nat /\ 2^n - 1 < 2^n /\ 2^j - 1 \in Nat
    BY <1>1, <2>2
  <2>8. (2^j - 1) \div 2^n = 2 * q - 1 BY <1>1, <2>6, <2>7, DivIs
  <2> QED BY <1>2, <1>4, <2>7, <2>8 DEF Bit, A!Bit
<1> QED BY <1>2, <1>3, <1>4

(* KAllocationNextPowerOfTwoSize is right for every size up to the largest *)
(* power of two of the width: what is smeared are all bits below the       *)
(* highest one, and the next number is the power of two above it.          *)
LEMMA SizesAreRounded ==
  ASSUME NEW x \in 1 .. 2^(Width - 1)
  PROVE  LET p == A!KAllocationNextPowerOfTwoSize(x)
         IN  /\ p >= x /\ p < 2 * x
             /\ \E n \in 0 .. Width - 1 : p = 2^n
<1> DEFINE p == A!KAllocationNextPowerOfTwoSize(x)
           y == x - 1
<1>1. Width - 1 \in Nat /\ (Width - 1) + 1 = Width BY WidthIsOfUInt32
<1>2. 2^Width = 2 * 2^(Width - 1) /\ 2^(Width - 1) \in Nat \ {0}
  <2>1. 2^(Width - 1 + 1) = 2 * 2^(Width - 1) BY <1>1, PowerOfNext
  <2> QED BY <1>1, <2>1, PowersArePositive
<1>3. x \in Nat \ {0} /\ y \in Nat /\ y < 2^(Width - 1) /\ x < 2^Width /\ y \in Below(Width)
  BY <1>2 DEF Below
<1>4. A!Wrap(x) = x BY <1>2, <1>3 DEF A!Wrap
<1>5. p = A!Wrap(A!Smear(y) + 1)
  BY <1>3, <1>4 DEF A!KAllocationNextPowerOfTwoSize
<1> HIDE DEF p
<1>6. /\ A!Smear(y) \in Below(Width)
      /\ \A n \in Nat : Bit(A!Smear(y), n) <=> \E m \in 0 .. 31 : Bit(y, n + m)
  BY <1>3, SmearIs
<1>7. CASE y = 0
  <2>1. \A n \in Nat : ~Bit(y, n)
    <3>1. y \in Below(0) BY <1>7, PowerOfZero DEF Below
    <3> QED BY <3>1, NoBitAbove
  <2>2. \A n \in 0 .. Width - 1 : Bit(A!Smear(y), n) <=> Bit(y, n)
    <3> SUFFICES ASSUME NEW n \in 0 .. Width - 1 PROVE ~Bit(A!Smear(y), n)
      BY <2>1
    <3>1. n \in Nat /\ \A m \in 0 .. 31 : n + m \in Nat OBVIOUS
    <3> QED BY <1>6, <2>1, <3>1
  <2>3. Width \in Nat BY WidthIsOfUInt32
  <2>4. A!Smear(y) = y BY <1>3, <1>6, <2>2, <2>3, BitsDetermine
  <2>5. p = 1 BY <1>2, <1>5, <1>7, <2>4 DEF A!Wrap
  <2>6. 0 \in 0 .. Width - 1 BY <1>1
  <2>7. x = 1 BY <1>3, <1>7
  <2>8. p >= x /\ p < 2 * x BY <2>5, <2>7
  <2>9. p = 2^0 BY <2>5, PowerOfZero
  <2> QED BY <2>6, <2>8, <2>9 DEF p
<1>8. CASE y # 0
  <2>1. PICK k \in Nat : /\ 2^k <= y /\ y < 2^(k + 1)
                         /\ Bit(y, k)
                         /\ \A n \in Nat : n > k => ~Bit(y, n)
    BY <1>3, <1>8, HighestBit
  <2>2. 2^(k + 1) = 2 * 2^k /\ 2^k \in Nat \ {0} BY PowerOfNext, PowersArePositive
  <2>3. k < Width - 1
    <3>1. SUFFICES ASSUME Width - 1 <= k PROVE FALSE BY <1>1
    <3>2. 2^(Width - 1) <= 2^k BY <1>1, <3>1, PowersGrow
    <3> QED BY <1>2, <1>3, <2>1, <2>2, <3>2
  <2> DEFINE ones == 2^(k + 1) - 1
  <2>4. ones \in Below(Width) /\ 2^(k + 1) < 2^Width
    <3>1. 2^(k + 1) <= 2^(Width - 1) BY <1>1, <2>3, PowersGrow
    <3> QED BY <1>2, <2>2, <3>1 DEF Below
  <2>5. \A n \in Nat : Bit(ones, n) <=> n < k + 1 BY AllOnes
  <2> HIDE DEF ones
  <2>6. ASSUME NEW n \in 0 .. Width - 1
        PROVE  Bit(A!Smear(y), n) <=> Bit(ones, n)
    <3>1. CASE n <= k
      <4>1. k - n \in 0 .. 31 /\ n + (k - n) = k BY <2>3, <3>1, WidthIsOfUInt32
      <4>2. Bit(A!Smear(y), n) BY <1>6, <2>1, <4>1
      <4>3. Bit(ones, n) BY <2>5, <3>1
      <4> QED BY <4>2, <4>3
    <3>2. CASE n > k
      <4>1. n \in Nat /\ \A m \in 0 .. 31 : n + m \in Nat /\ n + m > k BY <3>2
      <4>2. ~Bit(A!Smear(y), n) BY <1>6, <2>1, <4>1
      <4>3. ~Bit(ones, n) BY <2>5, <3>2, <4>1
      <4> QED BY <4>2, <4>3
    <3> QED BY <3>1, <3>2
  <2>7. Width \in Nat BY WidthIsOfUInt32
  <2>8. A!Smear(y) = ones BY <1>6, <2>4, <2>6, <2>7, BitsDetermine
  <2>9. p = 2^(k + 1)
    <3>1. A!Smear(y) + 1 = 2^(k + 1) BY <2>2, <2>8 DEF ones
    <3> QED BY <1>2, <1>5, <2>2, <2>4, <3>1 DEF A!Wrap
  <2>10. k + 1 \in 0 .. Width - 1 BY <1>1, <2>3
  <2>11. p >= x /\ p < 2 * x BY <1>3, <2>1, <2>2, <2>9
  <2> QED BY <2>9, <2>10, <2>11 DEF p
<1> QED BY <1>7, <1>8

-----------------------------------------------------------------------------
(* KArray.                                                                 *)

SeqUpTo(l, s) == [n \in 1 .. l |-> s[n - 1]]
ArraySeq == SeqUpTo(length, slots)

HeldByArray == \A o \in Item : arrayHeld[o] = Times(ArraySeq, o)

ArrayInv == A!TypeOK /\ HeldByArray

LEMMA ArrayConstants ==
  /\ None \notin Item
  /\ Width \in 1 .. 32 /\ RefSize \in Nat \ {0} /\ MaxLength \in Nat
  /\ 2^Width \in Nat \ {0}
BY CollectionsAssumption, PowersArePositive DEF A!ArrayAssumption

Slots(l, s) ==
  /\ l \in 0 .. MaxLength
  /\ s \in [A!Slot -> Item \cup {None}]
  /\ \A n \in A!Slot : s[n] # None <=> n < l

LEMMA SeqOfSlots ==
  ASSUME NEW l, NEW s, Slots(l, s)
  PROVE  /\ SeqUpTo(l, s) \in Seq(Item) /\ Len(SeqUpTo(l, s)) = l
         /\ \A n \in 1 .. l : SeqUpTo(l, s)[n] = s[n - 1]
<1>1. \A n \in 1 .. l : s[n - 1] \in Item
  BY ArrayConstants DEF Slots, A!Slot
<1>2. l \in Nat BY ArrayConstants DEF Slots
<1> QED BY <1>1, <1>2 DEF SeqUpTo

(* What is asked for when there is room below the bound.                   *)
LEMMA SizesFit ==
  ASSUME A!TypeOK, length < MaxLength
  PROVE  /\ A!Needed \in 1 .. 2^Width
         /\ (length + 1) * RefSize <= A!Needed
<1> DEFINE x == (length + 1) * RefSize
<1>1. x \in 1 .. 2^(Width - 1)
  <2>1. length + 1 \in Nat \ {0} /\ length + 1 <= MaxLength
    BY ArrayConstants DEF A!TypeOK
  <2>2. \A a, b, c \in Nat : a <= b => a * c <= b * c OBVIOUS
  <2>3. x <= MaxLength * RefSize BY <2>1, <2>2, ArrayConstants
  <2>4. x \in Nat \ {0} BY <2>1, ArrayConstants
  <2>5. Width - 1 \in Nat BY ArrayConstants
  <2>6. 2^(Width - 1) \in Nat BY <2>5, PowersArePositive
  <2>7. MaxLength * RefSize <= 2^(Width - 1)
    BY CollectionsAssumption DEF A!ArrayAssumption
  <2>8. MaxLength * RefSize \in Nat BY ArrayConstants
  <2> HIDE DEF x
  <2> QED BY <2>3, <2>4, <2>6, <2>7, <2>8
<1> HIDE DEF x
<1>2. /\ A!KAllocationNextPowerOfTwoSize(x) >= x
      /\ \E n \in 0 .. Width - 1 : A!KAllocationNextPowerOfTwoSize(x) = 2^n
  BY <1>1, SizesAreRounded
<1>3. \A n \in 0 .. Width - 1 : 2^n \in 1 .. 2^Width
  BY ArrayConstants, PowersGrow, PowersArePositive
<1>4. A!KAllocationNextPowerOfTwoSize(x) \in 1 .. 2^Width BY <1>2, <1>3
<1> QED BY <1>2, <1>4 DEF A!Needed, x

LEMMA ArrayInvInit == A!Init => ArrayInv
<1> SUFFICES ASSUME A!Init PROVE ArrayInv OBVIOUS
<1>1. A!TypeOK
  BY ArrayConstants DEF A!Init, A!TypeOK, A!Slot, A!KAllocationNew
<1>2. ArraySeq = <<>>
  BY <1>1, SeqOfSlots DEF A!Init, A!TypeOK, Slots, ArraySeq
<1> QED BY <1>1, <1>2, TimesEmpty DEF A!Init, ArrayInv, HeldByArray

LEMMA ArrayAddStep ==
  ASSUME ArrayInv, NEW o \in Item, A!AddObject(o)
  PROVE  /\ ArrayInv'
         /\ ArraySeq' = Append(ArraySeq, o)
         /\ arrayReply' = <<"add", TRUE>>
<1> USE ArrayConstants DEF ArrayInv
<1>1. PICK t \in A!Truncated(items, A!Needed) : t.ok /\ items' = t.result
  BY DEF A!AddObject
<1>2. A!Needed \in 1 .. 2^Width BY SizesFit DEF A!AddObject
<1>3. items' = [size |-> A!Needed, bytes |-> A!Needed]
  BY <1>1, <1>2 DEF A!Truncated
<1>4. A!TypeOK'
  <2>1. items' \in [size : 0 .. 2^Width, bytes : 0 .. 2^Width]
    BY <1>2, <1>3
  <2>2. slots' \in [A!Slot -> Item \cup {None}]
        /\ \A n \in A!Slot : slots'[n] # None <=> n < length'
    BY DEF A!AddObject, A!TypeOK, A!Slot
  <2>3. length' \in 0 .. MaxLength /\ arrayHeld' \in [Item -> Nat]
    BY DEF A!AddObject, A!TypeOK
  <2> QED BY <2>1, <2>2, <2>3 DEF A!TypeOK
<1>5. ArraySeq' = Append(ArraySeq, o)
  <2>1. /\ ArraySeq \in Seq(Item) /\ Len(ArraySeq) = length
        /\ \A n \in 1 .. length : ArraySeq[n] = slots[n - 1]
    BY SeqOfSlots DEF A!TypeOK, Slots, ArraySeq
  <2>2. /\ ArraySeq' \in Seq(Item) /\ Len(ArraySeq') = length'
        /\ \A n \in 1 .. length' : ArraySeq'[n] = slots'[n - 1]
    <3>1. Slots(length', slots') BY <1>4 DEF A!TypeOK, Slots
    <3>2. ArraySeq' = SeqUpTo(length', slots') BY DEF ArraySeq
    <3> QED BY <3>1, <3>2, SeqOfSlots
  <2>3. length \in 0 .. MaxLength - 1 /\ length' = length + 1
    BY DEF A!AddObject, A!TypeOK
  <2>4. \A n \in A!Slot : slots'[n] = IF n = length THEN o ELSE slots[n]
    BY DEF A!AddObject, A!TypeOK
  <2>5. ASSUME NEW n \in 1 .. length + 1 PROVE ArraySeq'[n] = Append(ArraySeq, o)[n]
    <3>1. n - 1 \in A!Slot BY <2>3 DEF A!Slot
    <3>2. ArraySeq'[n] = slots'[n - 1] BY <2>2, <2>3
    <3>3. CASE n = length + 1
      BY <2>1, <2>3, <2>4, <3>1, <3>2, <3>3, AppendProperties
    <3>4. CASE n # length + 1
      <4>1. n \in 1 .. length /\ n - 1 # length BY <2>3, <3>4
      <4> QED BY <2>1, <2>4, <3>1, <3>2, <4>1, AppendProperties
    <3> QED BY <3>3, <3>4
  <2>6. Append(ArraySeq, o) \in Seq(Item) /\ Len(Append(ArraySeq, o)) = length + 1
    BY <2>1, AppendProperties
  <2> QED BY <2>2, <2>3, <2>5, <2>6, SeqEqual
<1>6. HeldByArray'
  <2>1. ArraySeq \in Seq(Item)
    BY SeqOfSlots DEF A!TypeOK, Slots, ArraySeq
  <2>2. \A p \in Item : arrayHeld'[p] = arrayHeld[p] + One(o = p)
    BY DEF A!AddObject, A!TypeOK, One
  <2>3. \A p \in Item : Times(ArraySeq', p) = Times(ArraySeq, p) + One(o = p)
    BY <1>5, <2>1, TimesAppend
  <2> QED BY <2>2, <2>3 DEF HeldByArray
<1> QED BY <1>4, <1>5, <1>6 DEF A!AddObject

LEMMA ArrayAddFailsStep ==
  ASSUME ArrayInv, A!AddFails
  PROVE  /\ ArrayInv' /\ items' = items
         /\ ArraySeq' = ArraySeq
         /\ arrayHeld' = arrayHeld /\ arrayReply' = <<"add", FALSE>>
<1> USE ArrayConstants DEF ArrayInv, A!AddFails
<1>1. PICK t \in A!Truncated(items, A!Needed) : ~t.ok /\ items' = t.result
  OBVIOUS
<1>2. A!Needed \in 1 .. 2^Width BY SizesFit
<1>3. items' = items BY <1>1, <1>2 DEF A!Truncated
<1>4. ArraySeq' = ArraySeq BY DEF ArraySeq
<1>5. A!TypeOK' BY <1>3 DEF A!TypeOK
<1> QED BY <1>3, <1>4, <1>5 DEF HeldByArray

LEMMA ArrayRemoveStep ==
  ASSUME ArrayInv, NEW index \in A!Slot, A!RemoveObject(index)
  PROVE  /\ ArrayInv'
         /\ index + 1 \in 1 .. Len(ArraySeq)
         /\ ArraySeq' = RemoveAt(ArraySeq, index + 1)
         /\ arrayHeld' = [arrayHeld EXCEPT ![ArraySeq[index + 1]] = @ - 1]
         /\ arrayReply' = <<"remove", ArraySeq[index + 1]>>
<1> USE ArrayConstants DEF ArrayInv
<1> DEFINE i == index + 1
<1>1. /\ ArraySeq \in Seq(Item) /\ Len(ArraySeq) = length
      /\ \A n \in 1 .. length : ArraySeq[n] = slots[n - 1]
  BY SeqOfSlots DEF A!TypeOK, Slots, ArraySeq
<1>2. length \in 1 .. MaxLength /\ length' = length - 1 /\ i \in 1 .. length
      /\ index \in 0 .. length - 1
  BY DEF A!RemoveObject, A!TypeOK, A!Slot
<1>3. i - 1 = index BY <1>2
<1>4. ArraySeq[i] = slots[index] /\ ArraySeq[i] \in Item BY <1>1, <1>2, <1>3
<1>5. slots' \in [A!Slot -> Item \cup {None}]
  BY <1>2 DEF A!RemoveObject, A!Shift, A!TypeOK, A!Slot
<1>6. \A n \in A!Slot :
        slots'[n] = IF n = length - 1 THEN None
                    ELSE IF n >= index /\ n + 1 < length THEN slots[n + 1] ELSE slots[n]
  BY <1>2 DEF A!RemoveObject, A!Shift, A!TypeOK, A!Slot
<1>7. Slots(length', slots')
  <2>1. \A n \in A!Slot : n + 1 < length => n + 1 \in A!Slot BY <1>2 DEF A!Slot
  <2>2. \A n \in A!Slot : slots[n] # None <=> n < length BY DEF A!TypeOK
  <2>3. ASSUME NEW n \in A!Slot PROVE slots'[n] # None <=> n < length'
    <3>1. n \in Int BY DEF A!Slot
    <3> QED BY <1>2, <1>6, <2>1, <2>2, <3>1
  <2> QED BY <1>2, <1>5, <2>3 DEF Slots
<1>8. /\ ArraySeq' \in Seq(Item) /\ Len(ArraySeq') = length'
      /\ \A n \in 1 .. length' : ArraySeq'[n] = slots'[n - 1]
  <2>1. ArraySeq' = SeqUpTo(length', slots') BY DEF ArraySeq
  <2> QED BY <1>7, <2>1, SeqOfSlots
<1>9. /\ RemoveAt(ArraySeq, i) \in Seq(Item)
      /\ Len(RemoveAt(ArraySeq, i)) = length - 1
      /\ \A n \in 1 .. length - 1 :
           RemoveAt(ArraySeq, i)[n] = IF n < i THEN ArraySeq[n] ELSE ArraySeq[n + 1]
  BY <1>1, <1>2, RemoveAtIs
<1>10. ASSUME NEW n \in 1 .. length - 1
       PROVE  ArraySeq'[n] = RemoveAt(ArraySeq, i)[n]
  <2>1. n - 1 \in A!Slot /\ n \in 1 .. length /\ n + 1 \in 1 .. length
    BY <1>2 DEF A!Slot
  <2>2. n - 1 + 1 = n /\ n + 1 - 1 = n OBVIOUS
  <2>3. ArraySeq'[n] = IF n - 1 >= index THEN slots[n] ELSE slots[n - 1]
    BY <1>2, <1>6, <1>8, <2>1, <2>2
  <2>5. ArraySeq[n] = slots[n - 1] BY <1>1, <2>1
  <2>6. ArraySeq[n + 1] = slots[n] BY <1>1, <2>1, <2>2
  <2>4. RemoveAt(ArraySeq, i)[n] = IF n < i THEN slots[n - 1] ELSE slots[n]
    BY <1>9, <2>5, <2>6
  <2> QED BY <1>2, <2>3, <2>4
<1>11. ArraySeq' = RemoveAt(ArraySeq, i) BY <1>2, <1>8, <1>9, <1>10, SeqEqual
<1>12. \A p \in Item : arrayHeld'[p] = arrayHeld[p] - One(ArraySeq[i] = p)
  BY <1>4 DEF A!RemoveObject, A!TypeOK, One
<1>13. \A p \in Item : Times(ArraySeq', p) = Times(ArraySeq, p) - One(ArraySeq[i] = p)
  BY <1>1, <1>2, <1>11, TimesRemoveAt
<1>14. HeldByArray' BY <1>12, <1>13 DEF HeldByArray
<1>15. \A p \in Item : arrayHeld'[p] \in Nat
  <2>1. \A p \in Item : Times(ArraySeq', p) \in Nat BY <1>8, TimesType
  <2> QED BY <1>14, <2>1 DEF HeldByArray
<1>16. arrayHeld' = [arrayHeld EXCEPT ![slots[index]] = @ - 1]
       /\ items' = items /\ arrayReply' = <<"remove", slots[index]>>
  BY DEF A!RemoveObject
<1>17. arrayHeld' \in [Item -> Nat] BY <1>15, <1>16 DEF A!TypeOK
<1>18. A!TypeOK' BY <1>2, <1>7, <1>16, <1>17 DEF A!TypeOK, Slots
<1> QED BY <1>1, <1>2, <1>4, <1>11, <1>14, <1>16, <1>18

LEMMA ArrayOccurrences ==
  ASSUME A!TypeOK, NEW o
  PROVE  A!Occurrences(o) = Times(ArraySeq, o)
<1> DEFINE X == {n \in A!Slot : n < length /\ slots[n] = o}
           Y == {n \in DOMAIN ArraySeq : ArraySeq[n] = o}
           f == [n \in Y |-> n - 1]
<1>1. /\ ArraySeq \in Seq(Item) /\ Len(ArraySeq) = length
      /\ \A n \in 1 .. length : ArraySeq[n] = slots[n - 1]
  BY SeqOfSlots DEF A!TypeOK, Slots, ArraySeq
<1>2. length \in 0 .. MaxLength BY DEF A!TypeOK
<1>3. f \in Bijection(Y, X)
  <2>0. \A n \in Y : n \in 1 .. length /\ slots[n - 1] = o BY <1>1
  <2>1. f \in [Y -> X] BY <1>2, <2>0, ArrayConstants DEF A!Slot
  <2>2. \A m, n \in Y : f[m] = f[n] => m = n BY <2>0
  <2>3. ASSUME NEW n \in X PROVE \E m \in Y : f[m] = n
    <3>0. n \in Nat /\ n < length /\ slots[n] = o BY ArrayConstants DEF A!Slot
    <3>1. n + 1 \in 1 .. length /\ (n + 1) - 1 = n
      BY <1>2, <3>0, ArrayConstants
    <3>2. ArraySeq[n + 1] = o BY <1>1, <3>0, <3>1
    <3>3. n + 1 \in Y BY <1>1, <3>1, <3>2
    <3> QED BY <3>1, <3>3
  <2> HIDE DEF X, Y, f
  <2> QED BY <2>1, <2>2, <2>3, Fun_IsBij
<1> HIDE DEF f
<1>4. Cardinality(X) = Cardinality(Y)
  <2>1. IsFiniteSet(Y) BY <1>1, TimesType
  <2> HIDE DEF X, Y
  <2> QED BY <1>3, <2>1, FS_Bijection DEF ExistsBijection
<1>5. A!Cardinality(X) = Cardinality(X) BY DEF A!Cardinality, Cardinality
<1> QED BY <1>4, <1>5 DEF A!Occurrences, Times

LEMMA ArrayRemoveAllStep ==
  ASSUME ArrayInv, A!RemoveAllObjects
  PROVE  /\ ArrayInv'
         /\ ArraySeq' = <<>>
         /\ arrayHeld' = [o \in Item |-> 0]
         /\ arrayReply' = <<"clear", Len(ArraySeq)>>
<1> USE ArrayConstants DEF ArrayInv
<1>1. arrayHeld' = [o \in Item |-> 0]
  <2>1. \A o \in Item : arrayHeld[o] - A!Occurrences(o) = 0
    BY ArrayOccurrences DEF HeldByArray, A!TypeOK
  <2> QED BY <2>1 DEF A!RemoveAllObjects
<1>2. A!TypeOK' BY <1>1 DEF A!RemoveAllObjects, A!TypeOK, A!Slot
<1>3. ArraySeq' = <<>>
  <2>1. Slots(length', slots') BY <1>2 DEF A!TypeOK, Slots
  <2>2. ArraySeq' = SeqUpTo(length', slots') BY DEF ArraySeq
  <2> QED BY <2>1, <2>2, SeqOfSlots DEF A!RemoveAllObjects
<1>4. HeldByArray' BY <1>1, <1>3, TimesEmpty DEF HeldByArray
<1>5. length = Len(ArraySeq) BY SeqOfSlots DEF A!TypeOK, Slots, ArraySeq
<1> QED BY <1>1, <1>2, <1>3, <1>4, <1>5 DEF A!RemoveAllObjects

LEMMA ArrayInvStep ==
  ASSUME ArrayInv, A!Next
  PROVE  ArrayInv'
<1>1. ASSUME A!RemoveNothing PROVE ArrayInv'
  BY <1>1 DEF A!RemoveNothing, ArrayInv, A!TypeOK, HeldByArray, ArraySeq
<1> QED
  BY <1>1, ArrayAddStep, ArrayAddFailsStep, ArrayRemoveStep, ArrayRemoveAllStep
  DEF A!Next

(* What is added fits, and nothing else makes the memory smaller.          *)
ArrayFits == length * RefSize <= items.bytes

LEMMA ArrayFitsStep ==
  ASSUME ArrayInv, ArrayFits, A!Next
  PROVE  ArrayFits'
<1> USE ArrayConstants DEF ArrayInv
<1>0. \A a, b, c \in Nat : a <= b => a * c <= b * c OBVIOUS
<1>1. length \in Nat /\ items.bytes \in Nat BY DEF A!TypeOK
<1>2. ASSUME NEW o \in Item, A!AddObject(o) PROVE ArrayFits'
  <2>1. PICK t \in A!Truncated(items, A!Needed) : t.ok /\ items' = t.result
    BY <1>2 DEF A!AddObject
  <2>2. A!Needed \in 1 .. 2^Width /\ (length + 1) * RefSize <= A!Needed
    BY <1>2, SizesFit DEF A!AddObject
  <2>3. items'.bytes = A!Needed BY <2>1, <2>2 DEF A!Truncated
  <2> QED BY <1>2, <2>2, <2>3 DEF A!AddObject, ArrayFits
<1>3. ASSUME length' \in Nat, length' <= length, items' = items PROVE ArrayFits'
  <2>1. length' * RefSize <= length * RefSize BY <1>0, <1>1, <1>3
  <2>2. length' * RefSize \in Nat /\ length * RefSize \in Nat
    <3>1. \A a, b \in Nat : a * b \in Nat OBVIOUS
    <3> QED BY <1>1, <1>3, <3>1
  <2> QED BY <1>1, <1>3, <2>1, <2>2 DEF ArrayFits
<1>4. ASSUME NEW index \in A!Slot, A!RemoveObject(index) PROVE ArrayFits'
  BY <1>3, <1>4 DEF A!RemoveObject, A!TypeOK, A!Slot
<1>5. ASSUME A!AddFails PROVE ArrayFits'
  BY <1>1, <1>3, <1>5, ArrayAddFailsStep DEF A!AddFails
<1>6. ASSUME A!RemoveNothing PROVE ArrayFits'
  BY <1>1, <1>3, <1>6 DEF A!RemoveNothing
<1>7. ASSUME A!RemoveAllObjects PROVE ArrayFits'
  BY <1>1, <1>3, <1>7 DEF A!RemoveAllObjects
<1> QED BY <1>2, <1>4, <1>5, <1>6, <1>7 DEF A!Next

LEMMA ArraySteps ==
  ASSUME ArrayInv, A!Next
  PROVE  A!Abstract!Next
<1> USE DEF ArrayInv, A!Abstract!Next
<1>0. ArraySeq = [n \in 1 .. length |-> slots[n - 1]] BY DEF ArraySeq, SeqUpTo
<1>1. ASSUME NEW o \in Item, A!AddObject(o) PROVE A!Abstract!Next
  BY <1>1, ArrayAddStep DEF A!Abstract!Add, A!AddObject, ArraySeq, SeqUpTo
<1>2. ASSUME NEW index \in A!Slot, A!RemoveObject(index) PROVE A!Abstract!Next
  BY <1>2, ArrayRemoveStep DEF A!Abstract!RemoveIndex, ArraySeq, SeqUpTo,
    A!Abstract!RemoveAt, RemoveAt
<1>3. ASSUME A!AddFails PROVE A!Abstract!Next
  BY <1>3, ArrayAddFailsStep DEF A!Abstract!AddRefused, ArraySeq, SeqUpTo
<1>4. ASSUME A!RemoveNothing PROVE A!Abstract!Next
  BY <1>4 DEF A!RemoveNothing, A!Abstract!RemoveOutside
<1>5. ASSUME A!RemoveAllObjects PROVE A!Abstract!Next
  BY <1>5, ArrayRemoveAllStep DEF A!Abstract!RemoveAll, ArraySeq, SeqUpTo
<1> QED BY <1>1, <1>2, <1>3, <1>4, <1>5 DEF A!Next


-----------------------------------------------------------------------------
(* KList.  What the pointers lead to from the root on, as a sequence.      *)

LEMMA ListConstants ==
  IsFiniteSet(Memory) /\ None \notin Memory /\ None \notin Item
BY CollectionsAssumption DEF L!ListAssumption, L!IsFiniteSet, IsFiniteSet

LEMMA ListCardinality == \A X : L!Cardinality(X) = Cardinality(X)
BY DEF L!Cardinality, Cardinality

(* A path of pointers, and a list along it.                                *)
OneToOne(c) == \A m, n \in 1 .. Len(c) : c[m] = c[n] => m = n

Path(c, first, succ) ==
  /\ c \in Seq(Memory) /\ OneToOne(c)
  /\ first = IF Len(c) = 0 THEN None ELSE c[1]
  /\ \A n \in 1 .. Len(c) : succ[c[n]] = IF n = Len(c) THEN None ELSE c[n + 1]

LEMMA FirstNumbers ==
  ASSUME NEW k \in Nat
  PROVE  IsFiniteSet(1 .. k) /\ Cardinality(1 .. k) = k
BY FS_Interval

LEMMA PathsAreShort ==
  ASSUME NEW c \in Seq(Memory), OneToOne(c)
  PROVE  Len(c) \in Nat /\ Cardinality(Memory) \in Nat /\ Len(c) <= Cardinality(Memory)
<1>1. c \in [1 .. Len(c) -> Memory] /\ Len(c) \in Nat BY LenProperties
<1>2. c \in Injection(1 .. Len(c), Memory) BY <1>1, Fun_IsInj DEF OneToOne
<1>3. Cardinality(1 .. Len(c)) = Len(c) BY <1>1, FirstNumbers
<1>4. Cardinality(1 .. Len(c)) <= Cardinality(Memory)
  BY <1>2, ListConstants, FS_Injection
<1> QED BY <1>1, <1>3, <1>4, ListConstants, FS_CardinalityType

LEMMA FollowsPath ==
  ASSUME NEW first, NEW succ, NEW c, Path(c, first, succ)
  PROVE  L!Follow(first, succ) = c
<1> DEFINE N == L!Cardinality(Memory)
           Step(h) == [n \in 1 .. N |->
                         IF n = 1 THEN first
                         ELSE LET e == h[n - 1] IN IF e = None THEN None ELSE succ[e]]
           at == CHOOSE h : h = Step(h)
           fill == [n \in 1 .. N |-> IF n <= Len(c) THEN c[n] ELSE None]
<1>1. N \in Nat /\ Len(c) \in Nat /\ Len(c) <= N
  BY PathsAreShort, ListCardinality DEF Path
<1>2. \A n \in 1 .. Len(c) : c[n] \in Memory /\ c[n] # None
  BY ListConstants, ElementOfSeq DEF Path
<1> HIDE DEF N
<1>3. fill = Step(fill)
  <2> SUFFICES ASSUME NEW n \in 1 .. N PROVE fill[n] = Step(fill)[n]
    OBVIOUS
  <2>1. CASE n = 1 BY <1>1, <2>1 DEF Path
  <2>2. CASE n # 1 /\ n <= Len(c)
    <3>1. n - 1 \in 1 .. Len(c) /\ n - 1 # Len(c) /\ (n - 1) + 1 = n BY <1>1, <2>2
    <3>2. fill[n - 1] = c[n - 1] /\ c[n - 1] # None BY <1>1, <1>2, <3>1
    <3>3. succ[c[n - 1]] = c[n] BY <3>1 DEF Path
    <3> QED BY <2>2, <3>2, <3>3
  <2>3. CASE n # 1 /\ n = Len(c) + 1
    <3>1. n - 1 \in 1 .. Len(c) /\ n - 1 = Len(c) BY <1>1, <2>3
    <3>2. fill[n - 1] = c[n - 1] /\ c[n - 1] # None BY <1>1, <1>2, <3>1
    <3>3. succ[c[n - 1]] = None BY <3>1 DEF Path
    <3> QED BY <1>1, <2>3, <3>2, <3>3
  <2>4. CASE n # 1 /\ n > Len(c) + 1
    <3>1. n - 1 \in 1 .. N /\ n - 1 > Len(c) BY <1>1, <2>4
    <3>2. fill[n - 1] = None BY <1>1, <3>1
    <3> QED BY <1>1, <2>4, <3>2
  <2> QED BY <1>1, <2>1, <2>2, <2>3, <2>4
<1>4. at = Step(at) BY <1>3
<1> HIDE DEF at
<1>5. \A n \in 1 .. N : at[n] = fill[n]
  <2> DEFINE Wrong == {n \in 1 .. N : at[n] # fill[n]}
  <2>1. SUFFICES ASSUME Wrong # {} PROVE FALSE OBVIOUS
  <2>6. Wrong \in SUBSET Nat BY <1>1
  <2> HIDE DEF Wrong
  <2>2. PICK n \in Wrong : \A m \in Wrong : n <= m BY <2>1, <2>6, Least
  <2> USE DEF Wrong
  <2>3. at[n] = Step(at)[n] /\ fill[n] = Step(fill)[n] /\ at[n] # fill[n]
    BY <1>3, <1>4, <2>2
  <2> HIDE DEF fill
  <2>4. CASE n = 1 BY <2>2, <2>3, <2>4
  <2>5. CASE n # 1
    <3>1. n - 1 \in 1 .. N /\ n - 1 < n BY <1>1, <2>2, <2>5
    <3>2. at[n - 1] = fill[n - 1] BY <2>2, <3>1
    <3> QED BY <2>2, <2>3, <2>5, <3>2
  <2> QED BY <2>4, <2>5
<1>6. DOMAIN at = 1 .. N BY <1>4
<1> DEFINE size == L!Cardinality({n \in DOMAIN at : at[n] # None})
<1>7. L!Follow(first, succ) = [n \in 1 .. size |-> at[n]]
  BY DEF L!Follow, at, N
<1>8. {n \in DOMAIN at : at[n] # None} = 1 .. Len(c)
  BY <1>1, <1>2, <1>5, <1>6
<1>9. size = Len(c) BY <1>1, <1>8, ListCardinality, FirstNumbers
<1> HIDE DEF size
<1>10. \A n \in 1 .. Len(c) : at[n] = c[n] BY <1>1, <1>5
<1>11. c = [n \in 1 .. Len(c) |-> c[n]] BY LenProperties DEF Path
<1> QED BY <1>7, <1>9, <1>10, <1>11

Links(c, first, succ, pred, object, used, size) ==
  /\ Path(c, first, succ)
  /\ \A n \in 1 .. Len(c) : pred[c[n]] = IF n = 1 THEN None ELSE c[n - 1]
  /\ \A e \in Memory : e \in used <=> \E n \in 1 .. Len(c) : c[n] = e
  /\ \A e \in used : object[e] \in Item
  /\ size = Len(c)

Linked(c) == Links(c, root, next, prev, item, allocated, count)

ListSeq == [n \in DOMAIN L!Chain |-> item[L!Chain[n]]]

HeldByList == \A o \in Item : listHeld[o] = Times(ListSeq, o)

ListInv == L!TypeOK /\ Linked(L!Chain) /\ HeldByList

LEMMA LinkedIsChain ==
  ASSUME NEW c, Linked(c)
  PROVE  c = L!Chain
BY FollowsPath DEF Linked, Links, L!Chain

LEMMA LinkedIsNextChain ==
  ASSUME NEW c, Links(c, root', next', prev', item', allocated', count')
  PROVE  L!Chain' = c /\ Linked(L!Chain)'
<1>1. Path(c, root', next') BY DEF Links
<1>2. L!Chain' = L!Follow(root', next') BY DEF L!Chain
<1>3. L!Chain' = c BY <1>1, <1>2, FollowsPath
<1>4. Linked(L!Chain)' = Links(L!Chain', root', next', prev', item', allocated', count')
  BY DEF Linked
<1> QED BY <1>3, <1>4

LEMMA ListSeqIs ==
  ASSUME ListInv
  PROVE  /\ L!Chain \in Seq(Memory) /\ OneToOne(L!Chain)
         /\ Len(L!Chain) \in Nat
         /\ \A n \in 1 .. Len(L!Chain) :
              L!Chain[n] \in allocated /\ L!Chain[n] # None
         /\ ListSeq \in Seq(Item) /\ Len(ListSeq) = Len(L!Chain)
         /\ \A n \in 1 .. Len(L!Chain) : ListSeq[n] = item[L!Chain[n]]
<1> DEFINE c == L!Chain
<1>1. c \in Seq(Memory) /\ OneToOne(c) /\ Len(c) \in Nat /\ DOMAIN c = 1 .. Len(c)
  BY LenProperties DEF ListInv, Linked, Links, Path
<1>2. \A n \in 1 .. Len(c) : c[n] \in Memory BY <1>1, ElementOfSeq
<1>3. \A n \in 1 .. Len(c) : c[n] \in allocated BY <1>2 DEF ListInv, Linked, Links
<1>4. \A n \in 1 .. Len(c) : item[c[n]] \in Item BY <1>3 DEF ListInv, Linked, Links
<1>5. ListSeq = [n \in 1 .. Len(c) |-> item[c[n]]] BY <1>1 DEF ListSeq
<1> HIDE DEF c
<1> DEFINE s == [n \in 1 .. Len(c) |-> item[c[n]]]
<1>6. /\ s \in Seq(Item) /\ Len(s) = Len(c)
      /\ \A n \in 1 .. Len(c) : s[n] = item[c[n]]
  BY <1>1, <1>4
<1> HIDE DEF s
<1>7. \A n \in 1 .. Len(c) : c[n] # None BY <1>2, ListConstants
<1> QED BY <1>1, <1>3, <1>5, <1>6, <1>7 DEF c, s

LEMMA ListInvInit == L!Init => ListInv
<1> SUFFICES ASSUME L!Init PROVE ListInv OBVIOUS
<1> USE DEF L!Init
<1>1. Linked(<<>>) BY DEF Linked, Links, Path, OneToOne
<1>2. L!Chain = <<>> BY <1>1, LinkedIsChain
<1>3. L!TypeOK
  <2>1. 0 \in 0 .. L!Cardinality(Memory)
    BY ListConstants, ListCardinality, FS_CardinalityType
  <2> QED BY <2>1 DEF L!TypeOK, L!Pointer
<1>4. ListSeq = <<>>
  <2>1. Linked(L!Chain) BY <1>1, <1>2
  <2> QED BY <1>2 DEF ListSeq
<1>5. HeldByList BY <1>4, TimesEmpty DEF HeldByList
<1> QED BY <1>1, <1>2, <1>3, <1>5 DEF ListInv

LEMMA CountIsInRange ==
  ASSUME NEW c \in Seq(Memory), OneToOne(c)
  PROVE  Len(c) \in 0 .. L!Cardinality(Memory)
BY PathsAreShort, ListCardinality

(* An entry behind the last one.                                           *)
LEMMA ListAddStep ==
  ASSUME ListInv, NEW o \in Item, NEW e \in Memory, L!AddObject(o, e)
  PROVE  /\ ListInv'
         /\ ListSeq' = Append(ListSeq, o)
<1> DEFINE c == L!Chain
           d == Append(c, e)
           k == Len(c)
<1>1. /\ c \in Seq(Memory) /\ OneToOne(c) /\ k \in Nat
      /\ \A n \in 1 .. k : c[n] \in allocated /\ c[n] # None
      /\ ListSeq \in Seq(Item) /\ Len(ListSeq) = k
      /\ \A n \in 1 .. k : ListSeq[n] = item[c[n]]
  BY ListSeqIs
<1>2. Linked(c) BY DEF ListInv
<1>3. /\ d \in Seq(Memory) /\ Len(d) = k + 1
      /\ \A n \in 1 .. k : d[n] = c[n]
      /\ d[k + 1] = e
  BY <1>1, AppendProperties
<1>4. \A n \in 1 .. k : c[n] # e BY <1>1 DEF L!AddObject
<1>5. root = IF k = 0 THEN None ELSE c[1] BY <1>2 DEF Linked, Links, Path
<1>6. root = None <=> k = 0 BY <1>1, <1>5
<1>7. L!Last = c[k] BY DEF L!Last
<1> HIDE DEF c, k
<1>8. L!TypeOK BY DEF ListInv
<1>9. /\ root' = IF k = 0 THEN e ELSE root
      /\ \A m \in Memory : next'[m] = IF m = e THEN None
                                      ELSE IF k # 0 /\ m = c[k] THEN e ELSE next[m]
      /\ prev'[e] = IF k = 0 THEN None ELSE c[k]
      /\ \A m \in Memory : m # e => prev'[m] = prev[m]
  <2>1. CASE k = 0
    BY <1>6, <1>8, <2>1 DEF L!AddObject, L!TypeOK
  <2>2. CASE k # 0
    <3>1. k \in 1 .. k BY <1>1, <2>2
    <3>2. c[k] # e /\ c[k] \in Memory BY <1>1, <1>4, <3>1, <1>8 DEF L!TypeOK
    <3>3. root # None /\ L!LinkAfterLast(e) /\ root' = root
      BY <1>6, <2>2 DEF L!AddObject
    <3> QED BY <1>7, <1>8, <2>2, <3>2, <3>3 DEF L!LinkAfterLast, L!TypeOK
  <2> QED BY <2>1, <2>2
<1>10. \A m \in Memory : item'[m] = IF m = e THEN o ELSE item[m]
  BY <1>8 DEF L!AddObject, L!TypeOK
<1> HIDE DEF d
<1>11. OneToOne(d)
  <2> SUFFICES ASSUME NEW m \in 1 .. k + 1, NEW n \in 1 .. k + 1, d[m] = d[n]
               PROVE  m = n
    BY <1>3 DEF OneToOne
  <2>1. CASE m <= k /\ n <= k BY <1>1, <1>3, <2>1 DEF OneToOne, k
  <2>2. CASE m = k + 1 /\ n <= k BY <1>1, <1>3, <1>4, <2>2
  <2>3. CASE m <= k /\ n = k + 1 BY <1>1, <1>3, <1>4, <2>3
  <2>4. CASE m = k + 1 /\ n = k + 1 BY <2>4
  <2> QED BY <1>1, <2>1, <2>2, <2>3, <2>4
<1>12. \A n \in 1 .. k : c[n] \in Memory
  BY <1>1, <1>8 DEF L!TypeOK
<1>13. Path(d, root', next')
  <2>1. root' = d[1]
    <3>1. CASE k = 0 BY <1>3, <1>9, <3>1
    <3>2. CASE k # 0
      <4>1. 1 \in 1 .. k BY <1>1, <3>2
      <4> QED BY <1>3, <1>5, <1>9, <3>2, <4>1
    <3> QED BY <3>1, <3>2
  <2>2. ASSUME NEW n \in 1 .. k + 1
        PROVE  next'[d[n]] = IF n = k + 1 THEN None ELSE d[n + 1]
    <3>1. CASE n = k + 1 BY <1>3, <1>9, <3>1
    <3>2. CASE n = k /\ k # 0
      <4>1. k \in 1 .. k BY <1>1, <3>2
      <4> QED BY <1>1, <1>3, <1>4, <1>9, <1>12, <3>2, <4>1
    <3>3. CASE n < k
      <4>1. n \in 1 .. k /\ k \in 1 .. k /\ n # k /\ n + 1 \in 1 .. k /\ n # k + 1
        BY <1>1, <3>3
      <4>2. c[n] # c[k] BY <1>1, <4>1 DEF OneToOne, k
      <4>3. next[c[n]] = c[n + 1] BY <1>2, <4>1 DEF Linked, Links, Path, k
      <4> QED BY <1>3, <1>4, <1>9, <1>12, <4>1, <4>2, <4>3
    <3> QED BY <1>1, <3>1, <3>2, <3>3
  <2> QED BY <1>1, <1>3, <1>11, <2>1, <2>2 DEF Path
<1>14. \A n \in 1 .. k + 1 : prev'[d[n]] = IF n = 1 THEN None ELSE d[n - 1]
  <2> SUFFICES ASSUME NEW n \in 1 .. k + 1
               PROVE  prev'[d[n]] = IF n = 1 THEN None ELSE d[n - 1]
    OBVIOUS
  <2>1. CASE n = k + 1 /\ k = 0 BY <1>3, <1>9, <2>1
  <2>2. CASE n = k + 1 /\ k # 0
    <3>1. n - 1 = k /\ k \in 1 .. k /\ n # 1 BY <1>1, <2>2
    <3> QED BY <1>3, <1>9, <2>2, <3>1
  <2>3. CASE n <= k
    <3>1. n \in 1 .. k /\ (n # 1 => n - 1 \in 1 .. k) BY <1>1, <2>3
    <3>2. prev[c[n]] = IF n = 1 THEN None ELSE c[n - 1]
      BY <1>2, <3>1 DEF Linked, Links, k
    <3> QED BY <1>3, <1>4, <1>9, <1>12, <3>1, <3>2
  <2> QED BY <1>1, <2>1, <2>2, <2>3
<1>15. allocated' = allocated \cup {e} /\ count' = count + 1
  BY DEF L!AddObject
<1>16. Links(d, root', next', prev', item', allocated', count')
  <2>1. ASSUME NEW m \in Memory
        PROVE  m \in allocated' <=> \E n \in 1 .. k + 1 : d[n] = m
    <3>1. m \in allocated <=> \E n \in 1 .. k : c[n] = m BY <1>2 DEF Linked, Links, k
    <3>2. k + 1 \in 1 .. k + 1 /\ \A n \in 1 .. k : n \in 1 .. k + 1 BY <1>1
    <3>3. \A n \in 1 .. k + 1 : n = k + 1 \/ n \in 1 .. k BY <1>1
    <3> QED BY <1>3, <1>15, <3>1, <3>2, <3>3
  <2>2. \A m \in allocated' : item'[m] \in Item
    BY <1>2, <1>8, <1>10, <1>15 DEF Linked, Links, L!TypeOK
  <2>3. count' = k + 1 BY <1>2, <1>15 DEF Linked, Links, k
  <2> QED BY <1>3, <1>13, <1>14, <2>1, <2>2, <2>3 DEF Links
<1>17. L!Chain' = d /\ Linked(L!Chain)' BY <1>16, LinkedIsNextChain
<1>18. L!TypeOK'
  <2>1. root' \in L!Pointer /\ next' \in [Memory -> L!Pointer] /\ prev' \in [Memory -> L!Pointer]
    <3>1. L!Last \in L!Pointer \/ root = None
      <4>1. CASE k # 0
        <5>1. k \in 1 .. k BY <1>1, <4>1
        <5> QED BY <1>7, <1>12, <5>1 DEF L!Pointer
      <4> QED BY <1>6, <4>1
    <3> QED BY <1>8, <3>1 DEF L!AddObject, L!LinkAfterLast, L!TypeOK, L!Pointer
  <2>2. count' \in 0 .. L!Cardinality(Memory)
    BY <1>2, <1>3, <1>11, <1>15, CountIsInRange DEF Linked, Links, k
  <2>3. item' \in [Memory -> Item \cup {None}] /\ allocated' \subseteq Memory
        /\ listHeld' \in [Item -> Nat]
    BY <1>8 DEF L!AddObject, L!TypeOK
  <2>4. listReply' \in {"add"} \X BOOLEAN BY DEF L!AddObject
  <2> QED BY <2>1, <2>2, <2>3, <2>4 DEF L!TypeOK
<1>19. ListSeq' = Append(ListSeq, o)
  <2>1. ListSeq' = [n \in DOMAIN d |-> item'[d[n]]] BY <1>17 DEF ListSeq
  <2>2. DOMAIN d = 1 .. k + 1 BY <1>3, LenProperties
  <2>3. /\ Append(ListSeq, o) \in Seq(Item) /\ Len(Append(ListSeq, o)) = k + 1
        /\ \A n \in 1 .. k : Append(ListSeq, o)[n] = item[c[n]]
        /\ Append(ListSeq, o)[k + 1] = o
    BY <1>1, AppendProperties
  <2>4. ASSUME NEW n \in 1 .. k + 1 PROVE item'[d[n]] = Append(ListSeq, o)[n]
    <3>1. CASE n = k + 1 BY <1>3, <1>10, <2>3, <3>1
    <3>2. CASE n \in 1 .. k BY <1>3, <1>4, <1>10, <1>12, <2>3, <3>2
    <3> QED BY <1>1, <3>1, <3>2
  <2>5. DOMAIN Append(ListSeq, o) = 1 .. k + 1 BY <2>3, LenProperties
  <2>6. Append(ListSeq, o) = [n \in 1 .. k + 1 |-> Append(ListSeq, o)[n]]
    BY <2>3, LenProperties
  <2> QED BY <2>1, <2>2, <2>4, <2>6
<1>20. HeldByList'
  <2>1. \A p \in Item : listHeld'[p] = listHeld[p] + One(o = p)
    BY <1>8 DEF L!AddObject, L!TypeOK, One
  <2>2. \A p \in Item : Times(ListSeq', p) = Times(ListSeq, p) + One(o = p)
    BY <1>1, <1>19, TimesAppend
  <2> QED BY <2>1, <2>2 DEF HeldByList, ListInv
<1> QED BY <1>17, <1>18, <1>19, <1>20 DEF ListInv

(* An entry is unlinked, wherever in the list it is.                       *)
LEMMA ListRemoveStep ==
  ASSUME ListInv, NEW index \in 0 .. L!Cardinality(Memory) - 1, L!RemoveObject(index)
  PROVE  /\ ListInv'
         /\ index + 1 \in 1 .. Len(ListSeq)
         /\ ListSeq' = RemoveAt(ListSeq, index + 1)
         /\ listHeld' = [listHeld EXCEPT ![ListSeq[index + 1]] = @ - 1]
         /\ listReply' = <<"remove", ListSeq[index + 1]>>
<1> DEFINE c == L!Chain
           k == Len(c)
           i == index + 1
           e == c[i]
           d == RemoveAt(c, i)
<1>1. /\ c \in Seq(Memory) /\ OneToOne(c) /\ k \in Nat
      /\ \A n \in 1 .. k : c[n] \in allocated /\ c[n] # None
      /\ ListSeq \in Seq(Item) /\ Len(ListSeq) = k
      /\ \A n \in 1 .. k : ListSeq[n] = item[c[n]]
  BY ListSeqIs
<1>2. Linked(c) /\ L!TypeOK /\ HeldByList BY DEF ListInv
<1>3. i \in 1 .. k /\ i - 1 = index
  <2>1. L!Cardinality(Memory) \in Nat
    BY ListConstants, ListCardinality, FS_CardinalityType
  <2> QED BY <1>1, <2>1 DEF L!RemoveObject
<1>4. e = L!EntryAt(index) BY DEF L!EntryAt
<1>5. /\ d \in Seq(Memory) /\ Len(d) = k - 1
      /\ \A n \in 1 .. k - 1 : d[n] = IF n < i THEN c[n] ELSE c[n + 1]
  BY <1>1, <1>3, RemoveAtIs
<1>6. /\ L!Unlink(e) /\ L!MoveRoot(index, e) /\ allocated' = allocated \ {e}
      /\ listHeld' = [listHeld EXCEPT ![item[e]] = @ - 1]
      /\ count' = count - 1 /\ listReply' = <<"remove", item[e]>>
      /\ item' = [item EXCEPT ![e] = None]
  BY <1>4 DEF L!RemoveObject
<1>7. \A n \in 1 .. k : c[n] \in Memory BY <1>1, <1>2 DEF L!TypeOK
<1> HIDE DEF c, k, d
<1>8. \A m, n \in 1 .. k : c[m] = c[n] => m = n BY <1>1 DEF OneToOne, k
<1>9. /\ root = IF k = 0 THEN None ELSE c[1]
      /\ \A n \in 1 .. k : next[c[n]] = IF n = k THEN None ELSE c[n + 1]
      /\ \A n \in 1 .. k : prev[c[n]] = IF n = 1 THEN None ELSE c[n - 1]
      /\ \A m \in Memory : m \in allocated <=> \E n \in 1 .. k : c[n] = m
      /\ \A m \in allocated : item[m] \in Item
      /\ count = k
  BY <1>2 DEF Linked, Links, Path, k
<1>10. ASSUME NEW n \in 1 .. k, n # i
       PROVE  /\ next'[c[n]] = IF n = i - 1 THEN next[e] ELSE next[c[n]]
              /\ prev'[c[n]] = IF n = i + 1 THEN prev[e] ELSE prev[c[n]]
  <2>1. c[n] # e BY <1>3, <1>8, <1>10
  <2>2. /\ next'[c[n]] = IF c[n] = prev[e] THEN next[e] ELSE next[c[n]]
        /\ prev'[c[n]] = IF c[n] = next[e] THEN prev[e] ELSE prev[c[n]]
    BY <1>6, <1>7, <2>1 DEF L!Unlink
  <2>3. c[n] = prev[e] <=> n = i - 1
    <3>1. CASE i = 1 BY <1>1, <1>3, <1>9, <3>1
    <3>2. CASE i # 1
      <4>1. i - 1 \in 1 .. k /\ prev[e] = c[i - 1] BY <1>1, <1>3, <1>9, <3>2
      <4> QED BY <1>8, <4>1
    <3> QED BY <3>1, <3>2
  <2>4. c[n] = next[e] <=> n = i + 1
    <3>1. CASE i = k BY <1>1, <1>3, <1>9, <3>1
    <3>2. CASE i # k
      <4>1. i + 1 \in 1 .. k /\ next[e] = c[i + 1] BY <1>1, <1>3, <1>9, <3>2
      <4> QED BY <1>8, <4>1
    <3> QED BY <3>1, <3>2
  <2> QED BY <2>2, <2>3, <2>4
<1>11. root' = IF i = 1 THEN next[e] ELSE root
  BY <1>3, <1>6 DEF L!MoveRoot
<1>12. OneToOne(d)
  <2> SUFFICES ASSUME NEW m \in 1 .. k - 1, NEW n \in 1 .. k - 1, d[m] = d[n]
               PROVE  m = n
    BY <1>5 DEF OneToOne
  <2>1. m \in 1 .. k /\ m + 1 \in 1 .. k /\ n \in 1 .. k /\ n + 1 \in 1 .. k
    BY <1>1
  <2> QED BY <1>3, <1>5, <1>8, <2>1
<1>13. Path(d, root', next')
  <2>1. root' = IF k - 1 = 0 THEN None ELSE d[1]
    <3>1. CASE k = 1 BY <1>3, <1>9, <1>11, <3>1
    <3>2. CASE k # 1 /\ i = 1
      <4>1. 1 \in 1 .. k - 1 /\ i # k /\ 1 \in 1 .. k BY <1>1, <1>3, <3>2
      <4>2. next[e] = c[2] BY <1>9, <3>2, <4>1
      <4>3. d[1] = c[2] BY <1>5, <3>2, <4>1
      <4> QED BY <1>1, <1>11, <3>2, <4>2, <4>3
    <3>3. CASE k # 1 /\ i # 1
      <4>1. 1 \in 1 .. k - 1 /\ 1 < i /\ k # 0 BY <1>1, <1>3, <3>3
      <4> QED BY <1>1, <1>5, <1>9, <1>11, <3>3, <4>1
    <3> QED BY <3>1, <3>2, <3>3
  <2>2. ASSUME NEW n \in 1 .. k - 1
        PROVE  next'[d[n]] = IF n = k - 1 THEN None ELSE d[n + 1]
    <3>1. CASE n < i - 1
      <4>1. /\ n \in 1 .. k /\ n # i /\ n # i - 1 /\ n < i /\ n # k - 1 /\ n # k
            /\ n + 1 \in 1 .. k - 1 /\ n + 1 < i
        BY <1>1, <1>3, <3>1
      <4>2. d[n] = c[n] /\ d[n + 1] = c[n + 1] BY <1>5, <4>1
      <4> QED BY <1>9, <1>10, <4>1, <4>2
    <3>2. CASE n = i - 1
      <4>1. /\ n \in 1 .. k /\ n # i /\ n < i /\ n + 1 = i
            /\ (n = k - 1 <=> i = k)
        BY <1>1, <1>3, <3>2
      <4>2. d[n] = c[n] /\ next'[c[n]] = next[e] BY <1>5, <1>10, <3>2, <4>1
      <4>3. next[e] = IF i = k THEN None ELSE c[i + 1] BY <1>3, <1>9
      <4>4. i # k => d[i] = c[i + 1]
        <5>1. i # k => i \in 1 .. k - 1 /\ ~(i < i) BY <1>1, <1>3
        <5> QED BY <1>5, <5>1
      <4> QED BY <4>1, <4>2, <4>3, <4>4
    <3>3. CASE n >= i
      <4>1. /\ n + 1 \in 1 .. k /\ n + 1 # i /\ n + 1 # i - 1 /\ ~(n < i)
            /\ (n = k - 1 <=> n + 1 = k)
        BY <1>1, <1>3, <3>3
      <4>2. d[n] = c[n + 1] BY <1>5, <4>1
      <4>3. next'[c[n + 1]] = IF n + 1 = k THEN None ELSE c[n + 1 + 1]
        BY <1>9, <1>10, <4>1
      <4>4. n # k - 1 => d[n + 1] = c[n + 1 + 1]
        <5>1. n # k - 1 => n + 1 \in 1 .. k - 1 /\ ~(n + 1 < i) BY <1>1, <1>3, <3>3
        <5> QED BY <1>5, <5>1
      <4> QED BY <4>1, <4>2, <4>3, <4>4
    <3> QED BY <1>3, <3>1, <3>2, <3>3
  <2> QED BY <1>5, <1>12, <2>1, <2>2 DEF Path
<1>14. \A n \in 1 .. k - 1 : prev'[d[n]] = IF n = 1 THEN None ELSE d[n - 1]
  <2> SUFFICES ASSUME NEW n \in 1 .. k - 1
               PROVE  prev'[d[n]] = IF n = 1 THEN None ELSE d[n - 1]
    OBVIOUS
  <2>1. CASE n < i
    <3>1. /\ n \in 1 .. k /\ n # i /\ n # i + 1
          /\ (n # 1 => n - 1 \in 1 .. k - 1 /\ n - 1 < i)
      BY <1>1, <1>3, <2>1
    <3>2. d[n] = c[n] /\ prev'[c[n]] = prev[c[n]] BY <1>5, <1>10, <2>1, <3>1
    <3>3. n # 1 => d[n - 1] = c[n - 1] BY <1>5, <3>1
    <3> QED BY <1>9, <3>1, <3>2, <3>3
  <2>2. CASE n = i
    <3>1. /\ n + 1 \in 1 .. k /\ n + 1 # i /\ n + 1 = i + 1 /\ ~(n < i)
          /\ (n # 1 => n - 1 \in 1 .. k - 1 /\ n - 1 < i)
      BY <1>1, <1>3, <2>2
    <3>2. d[n] = c[n + 1] /\ prev'[c[n + 1]] = prev[e] BY <1>5, <1>10, <3>1
    <3>3. n # 1 => d[n - 1] = c[n - 1] BY <1>5, <3>1
    <3>4. prev[e] = IF n = 1 THEN None ELSE c[n - 1] BY <1>3, <1>9, <2>2
    <3> QED BY <3>2, <3>3, <3>4
  <2>3. CASE n > i
    <3>1. /\ n + 1 \in 1 .. k /\ n + 1 # i /\ n + 1 # i + 1 /\ ~(n < i)
          /\ n # 1 /\ n + 1 # 1 /\ n + 1 - 1 = n
          /\ n - 1 \in 1 .. k - 1 /\ ~(n - 1 < i) /\ n - 1 + 1 = n
      BY <1>1, <1>3, <2>3
    <3>2. d[n] = c[n + 1] /\ prev'[c[n + 1]] = prev[c[n + 1]] BY <1>5, <1>10, <3>1
    <3>3. d[n - 1] = c[n] BY <1>5, <3>1
    <3>4. prev[c[n + 1]] = c[n] BY <1>9, <3>1
    <3> QED BY <3>1, <3>2, <3>3, <3>4
  <2> QED BY <1>3, <2>1, <2>2, <2>3
<1>15. Links(d, root', next', prev', item', allocated', count')
  <2>1. ASSUME NEW m \in Memory
        PROVE  m \in allocated' <=> \E n \in 1 .. k - 1 : d[n] = m
    <3>1. ASSUME m \in allocated' PROVE \E n \in 1 .. k - 1 : d[n] = m
      <4>1. PICK n \in 1 .. k : c[n] = m BY <1>6, <1>9, <3>1
      <4>2. n # i BY <1>6, <3>1, <4>1
      <4>3. CASE n < i
        <5>1. n \in 1 .. k - 1 BY <1>1, <1>3, <4>3
        <5> QED BY <1>5, <4>1, <4>3, <5>1
      <4>4. CASE n > i
        <5>1. n - 1 \in 1 .. k - 1 /\ ~(n - 1 < i) /\ n - 1 + 1 = n
          BY <1>1, <1>3, <4>4
        <5>2. d[n - 1] = c[n] BY <1>5, <5>1
        <5> QED BY <4>1, <5>1, <5>2
      <4> QED BY <1>3, <4>2, <4>3, <4>4
    <3>2. ASSUME NEW n \in 1 .. k - 1, d[n] = m PROVE m \in allocated'
      <4>1. n \in 1 .. k /\ n + 1 \in 1 .. k BY <1>1
      <4>2. PICK j \in 1 .. k : j # i /\ c[j] = m BY <1>3, <1>5, <3>2, <4>1
      <4>3. c[j] # e BY <1>3, <1>8, <4>2
      <4> QED BY <1>1, <1>6, <4>2, <4>3
    <3> QED BY <3>1, <3>2
  <2>2. \A m \in allocated' : item'[m] \in Item
    BY <1>2, <1>6, <1>9 DEF L!TypeOK
  <2>3. count' = k - 1 BY <1>6, <1>9
  <2> QED BY <1>5, <1>13, <1>14, <2>1, <2>2, <2>3 DEF Links
<1>16. L!Chain' = d /\ Linked(L!Chain)' BY <1>15, LinkedIsNextChain
<1>17. item[e] = ListSeq[i] /\ ListSeq[i] \in Item
  BY <1>1, <1>3, ElementOfSeq
<1>18. /\ RemoveAt(ListSeq, i) \in Seq(Item) /\ Len(RemoveAt(ListSeq, i)) = k - 1
       /\ \A n \in 1 .. k - 1 :
            RemoveAt(ListSeq, i)[n] = IF n < i THEN ListSeq[n] ELSE ListSeq[n + 1]
  BY <1>1, <1>3, RemoveAtIs
<1>19. ListSeq' = RemoveAt(ListSeq, i)
  <2>1. ListSeq' = [n \in DOMAIN d |-> item'[d[n]]] BY <1>16 DEF ListSeq
  <2>2. DOMAIN d = 1 .. k - 1 BY <1>5, LenProperties
  <2>3. ASSUME NEW n \in 1 .. k - 1 PROVE item'[d[n]] = RemoveAt(ListSeq, i)[n]
    <3>1. n \in 1 .. k /\ n + 1 \in 1 .. k BY <1>1
    <3>2. PICK j \in 1 .. k : j # i /\ d[n] = c[j] /\ j = IF n < i THEN n ELSE n + 1
      BY <1>3, <1>5, <3>1
    <3>3. c[j] # e /\ c[j] \in Memory BY <1>3, <1>7, <1>8, <3>2
    <3>4. item'[d[n]] = item[c[j]] BY <1>2, <1>6, <3>2, <3>3 DEF L!TypeOK
    <3>5. RemoveAt(ListSeq, i)[n] = ListSeq[j] BY <1>18, <3>2
    <3> QED BY <1>1, <3>4, <3>5
  <2>4. RemoveAt(ListSeq, i) = [n \in 1 .. k - 1 |-> RemoveAt(ListSeq, i)[n]]
    BY <1>18, LenProperties
  <2> QED BY <2>1, <2>2, <2>3, <2>4
<1>20. HeldByList'
  <2>1. \A p \in Item : listHeld'[p] = listHeld[p] - One(ListSeq[i] = p)
    BY <1>2, <1>6, <1>17 DEF L!TypeOK, One
  <2>2. \A p \in Item : Times(ListSeq', p) = Times(ListSeq, p) - One(ListSeq[i] = p)
    BY <1>1, <1>3, <1>19, TimesRemoveAt
  <2> QED BY <1>2, <2>1, <2>2 DEF HeldByList
<1>21. L!TypeOK'
  <2>1. prev[e] \in L!Pointer /\ next[e] \in L!Pointer
    BY <1>2, <1>3, <1>7 DEF L!TypeOK
  <2>2. next' \in [Memory -> L!Pointer] /\ prev' \in [Memory -> L!Pointer]
        /\ root' \in L!Pointer
    BY <1>2, <1>6, <2>1 DEF L!Unlink, L!MoveRoot, L!TypeOK, L!Pointer
  <2>3. count' \in 0 .. L!Cardinality(Memory)
    BY <1>5, <1>6, <1>9, <1>12, CountIsInRange
  <2>4. item' \in [Memory -> Item \cup {None}] /\ allocated' \subseteq Memory
    BY <1>2, <1>6 DEF L!TypeOK
  <2>5. \A p \in Item : listHeld'[p] \in Nat
    BY <1>18, <1>19, <1>20, TimesType DEF HeldByList
  <2>6. listHeld' \in [Item -> Nat] BY <1>2, <1>6, <2>5 DEF L!TypeOK
  <2>7. listReply' \in {"remove"} \X (Item \cup {None}) BY <1>6, <1>17
  <2> QED BY <2>2, <2>3, <2>4, <2>6, <2>7 DEF L!TypeOK
<1> QED BY <1>1, <1>3, <1>6, <1>16, <1>17, <1>19, <1>20, <1>21 DEF ListInv

LEMMA ListOccurrences ==
  ASSUME ListInv, NEW o
  PROVE  L!InChain(o) = Times(ListSeq, o)
<1>1. /\ L!Chain \in Seq(Memory)
      /\ ListSeq \in Seq(Item) /\ Len(ListSeq) = Len(L!Chain)
      /\ \A n \in 1 .. Len(L!Chain) : ListSeq[n] = item[L!Chain[n]]
  BY ListSeqIs
<1>2. DOMAIN L!Chain = 1 .. Len(L!Chain) /\ DOMAIN ListSeq = 1 .. Len(L!Chain)
  BY <1>1, LenProperties
<1>3. {n \in DOMAIN L!Chain : item[L!Chain[n]] = o} = {n \in DOMAIN ListSeq : ListSeq[n] = o}
  BY <1>1, <1>2
<1> QED BY <1>3, ListCardinality DEF L!InChain, Times

LEMMA ListRemoveAllStep ==
  ASSUME ListInv, L!RemoveAllObjects
  PROVE  /\ ListInv'
         /\ ListSeq' = <<>>
         /\ listHeld' = [o \in Item |-> 0]
         /\ listReply' = <<"clear", Len(ListSeq)>>
<1>1. L!TypeOK /\ HeldByList /\ Linked(L!Chain) BY DEF ListInv
<1>2. /\ L!Chain \in Seq(Memory) /\ Len(L!Chain) \in Nat
      /\ ListSeq \in Seq(Item) /\ Len(ListSeq) = Len(L!Chain)
  BY ListSeqIs
<1>3. listHeld' = [o \in Item |-> 0]
  <2>1. \A o \in Item : listHeld[o] - L!InChain(o) = 0
    <3> SUFFICES ASSUME NEW o \in Item PROVE listHeld[o] - L!InChain(o) = 0 OBVIOUS
    <3>1. listHeld[o] = Times(ListSeq, o) BY <1>1 DEF HeldByList
    <3>2. Times(ListSeq, o) \in Nat BY <1>2, TimesType
    <3> QED BY <3>1, <3>2, ListOccurrences
  <2> QED BY <2>1 DEF L!RemoveAllObjects
<1> DEFINE freed == {L!Chain[n] : n \in DOMAIN L!Chain}
<1>4. freed = allocated
  <2>1. DOMAIN L!Chain = 1 .. Len(L!Chain) BY <1>2, LenProperties
  <2>2. \A n \in 1 .. Len(L!Chain) : L!Chain[n] \in Memory BY <1>2, ElementOfSeq
  <2>3. \A e \in Memory : e \in allocated <=> \E n \in 1 .. Len(L!Chain) : L!Chain[n] = e
    BY <1>1 DEF Linked, Links
  <2>4. allocated \subseteq Memory BY <1>1 DEF L!TypeOK
  <2> QED BY <2>1, <2>2, <2>3, <2>4
<1>5. /\ allocated' = {} /\ root' = None /\ count' = 0
      /\ listReply' = <<"clear", Len(L!Chain)>>
      /\ next' = [m \in Memory |-> IF m \in freed THEN None ELSE next[m]]
      /\ prev' = [m \in Memory |-> IF m \in freed THEN None ELSE prev[m]]
      /\ item' = [m \in Memory |-> IF m \in freed THEN None ELSE item[m]]
  BY <1>4 DEF L!RemoveAllObjects
<1> HIDE DEF freed
<1>6. Links(<<>>, root', next', prev', item', allocated', count')
  BY <1>5 DEF Links, Path, OneToOne
<1>7. L!Chain' = <<>> /\ Linked(L!Chain)' BY <1>6, LinkedIsNextChain
<1>8. ListSeq' = <<>> BY <1>7 DEF ListSeq
<1>9. HeldByList' BY <1>3, <1>8, TimesEmpty DEF HeldByList
<1>10. L!TypeOK'
  <2>1. 0 \in 0 .. L!Cardinality(Memory)
    BY ListConstants, ListCardinality, FS_CardinalityType
  <2>2. next' \in [Memory -> L!Pointer] /\ prev' \in [Memory -> L!Pointer]
        /\ item' \in [Memory -> Item \cup {None}]
    BY <1>1, <1>5 DEF L!TypeOK, L!Pointer
  <2>3. listReply' \in {"clear"} \X Nat BY <1>2, <1>5
  <2>4. root' \in L!Pointer BY <1>5 DEF L!Pointer
  <2>5. listHeld' \in [Item -> Nat] BY <1>3
  <2>6. count' \in 0 .. L!Cardinality(Memory) BY <1>5, <2>1
  <2> QED BY <1>5, <2>2, <2>3, <2>4, <2>5, <2>6 DEF L!TypeOK
<1> QED BY <1>2, <1>3, <1>5, <1>7, <1>8, <1>9, <1>10 DEF ListInv

(* A call that changes nothing but the reply.                              *)
LEMMA ListStays ==
  ASSUME ListInv, UNCHANGED <<root, count, next, prev, item, allocated, listHeld>>,
         listReply' \in {"add"} \X BOOLEAN \/ listReply' \in {"remove"} \X {None}
                        \/ listReply' = listReply
  PROVE  ListInv' /\ ListSeq' = ListSeq
<1>1. L!Chain' = L!Chain /\ ListSeq' = ListSeq BY DEF L!Chain, ListSeq
<1>2. Linked(L!Chain)' /\ HeldByList' BY <1>1 DEF ListInv, Linked, HeldByList
<1>3. L!TypeOK'
  <2>1. listReply' \in {<<>>} \cup ({"add"} \X BOOLEAN)
                 \cup ({"remove"} \X (Item \cup {None})) \cup ({"clear"} \X Nat)
    BY DEF ListInv, L!TypeOK
  <2> QED BY <2>1 DEF ListInv, L!TypeOK, L!Pointer
<1> QED BY <1>1, <1>2, <1>3 DEF ListInv

LEMMA ListInvStep ==
  ASSUME ListInv, L!Next
  PROVE  ListInv'
<1>1. CASE L!AddFails BY <1>1, ListStays DEF L!AddFails, L!entryVars
<1>2. CASE L!RemoveNothing BY <1>2, ListStays DEF L!RemoveNothing, L!entryVars
<1> QED BY <1>1, <1>2, ListAddStep, ListRemoveStep, ListRemoveAllStep DEF L!Next

LEMMA ListIsWellLinked ==
  ASSUME ListInv
  PROVE  L!WellLinked
<1> DEFINE c == L!Chain
           k == Len(c)
<1>1. /\ c \in Seq(Memory) /\ OneToOne(c) /\ k \in Nat
      /\ \A n \in 1 .. k : c[n] \in allocated /\ c[n] # None
  BY ListSeqIs
<1>2. Linked(c) /\ L!TypeOK BY DEF ListInv
<1>3. DOMAIN c = 1 .. k BY <1>1, LenProperties
<1> HIDE DEF c, k
<1>4. /\ root = IF k = 0 THEN None ELSE c[1]
      /\ \A n \in 1 .. k : next[c[n]] = IF n = k THEN None ELSE c[n + 1]
      /\ \A n \in 1 .. k : prev[c[n]] = IF n = 1 THEN None ELSE c[n - 1]
      /\ \A m \in Memory : m \in allocated <=> \E n \in 1 .. k : c[n] = m
      /\ count = k
  BY <1>2 DEF Linked, Links, Path, k
<1>5. {c[n] : n \in DOMAIN c} = allocated
  <2>1. \A n \in 1 .. k : c[n] \in allocated BY <1>1
  <2>2. \A m \in allocated : \E n \in 1 .. k : c[n] = m
    BY <1>2, <1>4 DEF L!TypeOK
  <2> QED BY <1>3, <2>1, <2>2
<1>6. k = L!Cardinality(allocated)
  <2>1. \A n \in 1 .. k : c[n] \in allocated BY <1>1
  <2>2. c \in [1 .. k -> allocated] BY <1>1, <1>3, <2>1
  <2>3. \A m, n \in 1 .. k : c[m] = c[n] => m = n BY <1>1 DEF OneToOne, k
  <2>4. \A m \in allocated : \E n \in 1 .. k : c[n] = m
    BY <1>2, <1>4 DEF L!TypeOK
  <2>5. c \in Bijection(1 .. k, allocated) BY <2>2, <2>3, <2>4, Fun_IsBij
  <2>6. ExistsBijection(1 .. k, allocated) BY <2>5 DEF ExistsBijection
  <2>7. IsFiniteSet(allocated) BY <1>2, ListConstants, FS_Subset DEF L!TypeOK
  <2>8. Cardinality(1 .. k) = k /\ IsFiniteSet(1 .. k) BY <1>1, FirstNumbers
  <2>9. Cardinality(1 .. k) = Cardinality(allocated)
    BY <2>6, <2>7, <2>8, FS_Bijection
  <2> QED BY <2>8, <2>9, ListCardinality
<1>7. root # None => prev[root] = None
  <2>1. ASSUME root # None PROVE prev[root] = None
    <3>1. k # 0 /\ 1 \in 1 .. k BY <1>1, <1>4, <2>1
    <3> QED BY <1>4, <3>1
  <2> QED BY <2>1
<1>8. ASSUME NEW e \in allocated, next[e] # None PROVE prev[next[e]] = e
  <2>1. PICK n \in 1 .. k : c[n] = e BY <1>2, <1>4 DEF L!TypeOK
  <2>2. n # k BY <1>4, <1>8, <2>1
  <2>3. n + 1 \in 1 .. k /\ n + 1 # 1 /\ n + 1 - 1 = n BY <1>1, <2>2
  <2> QED BY <1>4, <2>1, <2>2, <2>3
<1> QED BY <1>4, <1>5, <1>6, <1>7, <1>8 DEF L!WellLinked, c, k

LEMMA ListSteps ==
  ASSUME ListInv, L!Next
  PROVE  L!Abstract!Next
<1> USE DEF ListSeq, L!Abstract!Next
<1>1. ASSUME NEW o \in Item, NEW e \in Memory, L!AddObject(o, e) PROVE L!Abstract!Next
  BY <1>1, ListAddStep DEF L!Abstract!Add, L!AddObject
<1>2. ASSUME NEW index \in 0 .. L!Cardinality(Memory) - 1, L!RemoveObject(index)
      PROVE  L!Abstract!Next
  BY <1>2, ListRemoveStep DEF L!Abstract!RemoveIndex, L!Abstract!RemoveAt, RemoveAt
<1>3. ASSUME L!AddFails PROVE L!Abstract!Next
  BY <1>3, ListStays DEF L!AddFails, L!entryVars, L!Abstract!AddRefused
<1>4. ASSUME L!RemoveNothing PROVE L!Abstract!Next
  BY <1>4, ListStays DEF L!RemoveNothing, L!entryVars, L!Abstract!RemoveOutside
<1>5. ASSUME L!RemoveAllObjects PROVE L!Abstract!Next
  BY <1>5, ListRemoveAllStep DEF L!Abstract!RemoveAll
<1> QED BY <1>1, <1>2, <1>3, <1>4, <1>5 DEF L!Next

-----------------------------------------------------------------------------
(* KMap.  What is in the buckets: every entry is in the bucket of its key, *)
(* and no two entries have equal keys.                                     *)

HasEntry(bs, e) == \E b \in 1 .. Len(bs) : \E i \in 1 .. Len(bs[b]) : bs[b][i] = e

Content(bs) == {e \in Entry : HasEntry(bs, e)}

WellPlaced(bs) ==
  /\ bs \in Seq(Seq(Entry))
  /\ \A b \in 1 .. Len(bs) : \A i \in 1 .. Len(bs[b]) : Index(bs, bs[b][i].key) = b
  /\ \A b \in 1 .. Len(bs) : \A i, j \in 1 .. Len(bs[b]) :
       Equal(bs[b][i].key, bs[b][j].key) => i = j

LEMMA BucketsAre ==
  ASSUME NEW bs \in Seq(Seq(Entry))
  PROVE  /\ Len(bs) \in Nat /\ DOMAIN bs = 1 .. Len(bs)
         /\ \A b \in 1 .. Len(bs) :
              /\ bs[b] \in Seq(Entry) /\ Len(bs[b]) \in Nat
              /\ DOMAIN bs[b] = 1 .. Len(bs[b])
              /\ \A i \in 1 .. Len(bs[b]) :
                   /\ bs[b][i] \in Entry
                   /\ bs[b][i].key \in Key /\ bs[b][i].value \in Value
<1>1. Len(bs) \in Nat /\ DOMAIN bs = 1 .. Len(bs) BY LenProperties
<1>2. \A b \in 1 .. Len(bs) : bs[b] \in Seq(Entry) BY ElementOfSeq
<1>3. ASSUME NEW b \in 1 .. Len(bs), NEW s, s = bs[b]
      PROVE  /\ s \in Seq(Entry) /\ Len(s) \in Nat
             /\ DOMAIN s = 1 .. Len(s)
             /\ \A i \in 1 .. Len(s) :
                  s[i] \in Entry /\ s[i].key \in Key /\ s[i].value \in Value
  <2>1. s \in Seq(Entry) BY <1>2, <1>3
  <2>2. Len(s) \in Nat /\ DOMAIN s = 1 .. Len(s) BY <2>1, LenProperties
  <2>3. \A i \in 1 .. Len(s) : s[i] \in Entry BY <2>1, ElementOfSeq
  <2> QED BY <2>1, <2>2, <2>3 DEF Entry
<1> QED BY <1>1, <1>3

LEMMA IndexIs ==
  ASSUME NEW bs \in Seq(Seq(Entry)), Len(bs) # 0, NEW k \in Key
  PROVE  Index(bs, k) \in 1 .. Len(bs)
<1>1. Hash[Ident[k]] \in Nat BY MapAssumption
<1>2. Len(bs) \in Nat \ {0} BY LenProperties
<1>3. \A h \in Nat, n \in Nat \ {0} : (h % n) + 1 \in 1 .. n OBVIOUS
<1> QED BY <1>1, <1>2, <1>3 DEF Index

(* Two entries with equal keys are in one place.                           *)
LEMMA KeysDiffer ==
  ASSUME NEW bs, WellPlaced(bs),
         NEW b \in 1 .. Len(bs), NEW c \in 1 .. Len(bs),
         NEW i \in 1 .. Len(bs[b]), NEW j \in 1 .. Len(bs[c]),
         Equal(bs[b][i].key, bs[c][j].key)
  PROVE  b = c /\ i = j
<1>1. Index(bs, bs[b][i].key) = Index(bs, bs[c][j].key) BY DEF Index, Equal
<1>2. b = c BY <1>1 DEF WellPlaced
<1> QED BY <1>2 DEF WellPlaced

LEMMA ContentDiffers ==
  ASSUME NEW bs, WellPlaced(bs), NEW e \in Content(bs), NEW f \in Content(bs),
         Equal(e.key, f.key)
  PROVE  e = f
<1>1. PICK b, i : b \in 1 .. Len(bs) /\ i \in 1 .. Len(bs[b]) /\ bs[b][i] = e
  BY DEF Content, HasEntry
<1>2. PICK c, j : c \in 1 .. Len(bs) /\ j \in 1 .. Len(bs[c]) /\ bs[c][j] = f
  BY DEF Content, HasEntry
<1> QED BY <1>1, <1>2, KeysDiffer

LEMMA MatchesAre ==
  ASSUME NEW bs, WellPlaced(bs), Len(bs) # 0, NEW k \in Key
  PROVE  /\ Matches(bs, k) = {} <=> \A e \in Content(bs) : ~Equal(e.key, k)
         /\ Matches(bs, k) # {} =>
              /\ First(bs, k) \in 1 .. Len(bs[Index(bs, k)])
              /\ Found(bs, k) \in Content(bs) /\ Equal(Found(bs, k).key, k)
<1> DEFINE x == Index(bs, k)
<1>1. bs \in Seq(Seq(Entry)) BY DEF WellPlaced
<1>2. x \in 1 .. Len(bs) BY <1>1, IndexIs
<1>3. DOMAIN bs[x] = 1 .. Len(bs[x]) BY <1>1, <1>2, BucketsAre
<1>4. Matches(bs, k) = {i \in 1 .. Len(bs[x]) : Equal(bs[x][i].key, k)}
  BY <1>3 DEF Matches
<1>5. \A i \in 1 .. Len(bs[x]) : bs[x][i] \in Content(bs)
  BY <1>1, <1>2, BucketsAre DEF Content, HasEntry
<1>6. ASSUME NEW e \in Content(bs), Equal(e.key, k) PROVE Matches(bs, k) # {}
  <2>1. PICK b, i : b \in 1 .. Len(bs) /\ i \in 1 .. Len(bs[b]) /\ bs[b][i] = e
    BY DEF Content, HasEntry
  <2>2. b = x BY <1>6, <2>1 DEF WellPlaced, Index, Equal
  <2> QED BY <1>4, <1>6, <2>1, <2>2
<1>7. ASSUME Matches(bs, k) # {}
      PROVE  First(bs, k) \in Matches(bs, k)
  <2>1. PICK i \in Matches(bs, k) : TRUE BY <1>7
  <2>2. \A j \in Matches(bs, k) : j = i
    BY <1>2, <1>4 DEF WellPlaced, Equal
  <2>3. i \in Nat BY <1>4
  <2>4. \A j \in Matches(bs, k) : i <= j BY <2>2, <2>3
  <2> QED BY <2>1, <2>4 DEF First
<1> QED BY <1>4, <1>5, <1>6, <1>7 DEF Found

(* One bucket is replaced.                                                 *)
LEMMA ReplacedBucket ==
  ASSUME NEW bs \in Seq(Seq(Entry)), NEW x \in 1 .. Len(bs), NEW t \in Seq(Entry),
         NEW cs, cs = [bs EXCEPT ![x] = t]
  PROVE  /\ cs \in Seq(Seq(Entry)) /\ Len(cs) = Len(bs)
         /\ \A b \in 1 .. Len(bs) : cs[b] = IF b = x THEN t ELSE bs[b]
BY ExceptSeq

LEMMA AddedIs ==
  ASSUME NEW bs, WellPlaced(bs), Len(bs) # 0, NEW k \in Key, NEW v \in Value,
         Matches(bs, k) = {}
  PROVE  /\ WellPlaced(Added(bs, k, v)) /\ Len(Added(bs, k, v)) = Len(bs)
         /\ [key |-> k, value |-> v] \in Entry \ Content(bs)
         /\ Content(Added(bs, k, v)) = Content(bs) \cup {[key |-> k, value |-> v]}
<1> DEFINE x == Index(bs, k)
           e == [key |-> k, value |-> v]
           t == Append(bs[x], e)
           cs == Added(bs, k, v)
<1>1. bs \in Seq(Seq(Entry)) BY DEF WellPlaced
<1>2. x \in 1 .. Len(bs) BY <1>1, IndexIs
<1>3. e \in Entry /\ e.key = k BY DEF Entry
<1>4. \A f \in Content(bs) : ~Equal(f.key, k) BY MatchesAre
<1>5. e \notin Content(bs) BY <1>3, <1>4 DEF Equal
<1> HIDE DEF e
<1>6. bs[x] \in Seq(Entry) /\ Len(bs[x]) \in Nat BY <1>1, <1>2, BucketsAre
<1>7. /\ t \in Seq(Entry) /\ Len(t) = Len(bs[x]) + 1
      /\ \A i \in 1 .. Len(bs[x]) : t[i] = bs[x][i]
      /\ t[Len(bs[x]) + 1] = e
  BY <1>3, <1>6, AppendProperties
<1>8. cs = [bs EXCEPT ![x] = t] BY DEF Added, e
<1> HIDE DEF t, cs, x
<1>9. /\ cs \in Seq(Seq(Entry)) /\ Len(cs) = Len(bs)
      /\ \A b \in 1 .. Len(bs) : cs[b] = IF b = x THEN t ELSE bs[b]
      /\ \A j : Index(cs, j) = Index(bs, j)
  <2>1. /\ cs \in Seq(Seq(Entry)) /\ Len(cs) = Len(bs)
        /\ \A b \in 1 .. Len(bs) : cs[b] = IF b = x THEN t ELSE bs[b]
    BY <1>1, <1>2, <1>7, <1>8, ReplacedBucket
  <2> QED BY <2>1 DEF Index
<1>10. \A b \in 1 .. Len(bs) : \A i \in 1 .. Len(bs[b]) :
         bs[b][i] \in Content(bs)
  BY <1>1, BucketsAre DEF Content, HasEntry
<1>11. \A i \in 1 .. Len(t) :
         i \in 1 .. Len(bs[x]) \/ (i = Len(bs[x]) + 1 /\ i \notin 1 .. Len(bs[x]))
  BY <1>6, <1>7
<1>12. Len(bs[x]) + 1 \in 1 .. Len(t) /\ \A i \in 1 .. Len(bs[x]) : i \in 1 .. Len(t)
  BY <1>6, <1>7
<1>13. WellPlaced(cs)
  <2>1. ASSUME NEW b \in 1 .. Len(cs), NEW i \in 1 .. Len(cs[b])
        PROVE  Index(cs, cs[b][i].key) = b
    <3>1. CASE b # x BY <1>9, <2>1, <3>1 DEF WellPlaced
    <3>2. CASE b = x /\ i \in 1 .. Len(bs[x])
      BY <1>7, <1>9, <2>1, <3>2 DEF WellPlaced
    <3>3. CASE b = x /\ i = Len(bs[x]) + 1
      BY <1>3, <1>7, <1>9, <2>1, <3>3 DEF x
    <3> QED BY <1>9, <1>11, <2>1, <3>1, <3>2, <3>3
  <2>2. ASSUME NEW b \in 1 .. Len(cs), NEW i \in 1 .. Len(cs[b]), NEW j \in 1 .. Len(cs[b]),
               Equal(cs[b][i].key, cs[b][j].key)
        PROVE  i = j
    <3>1. CASE b # x BY <1>9, <2>2, <3>1 DEF WellPlaced
    <3>2. CASE b = x /\ i \in 1 .. Len(bs[x]) /\ j \in 1 .. Len(bs[x])
      BY <1>2, <1>7, <1>9, <2>2, <3>2 DEF WellPlaced
    <3>3. CASE b = x /\ i \in 1 .. Len(bs[x]) /\ j = Len(bs[x]) + 1
      BY <1>2, <1>3, <1>4, <1>7, <1>9, <1>10, <2>2, <3>3
    <3>4. CASE b = x /\ i = Len(bs[x]) + 1 /\ j \in 1 .. Len(bs[x])
      BY <1>2, <1>3, <1>4, <1>7, <1>9, <1>10, <2>2, <3>4 DEF Equal
    <3>5. CASE b = x /\ i = Len(bs[x]) + 1 /\ j = Len(bs[x]) + 1 BY <3>5
    <3> QED BY <1>9, <1>11, <2>2, <3>1, <3>2, <3>3, <3>4, <3>5
  <2> QED BY <1>9, <2>1, <2>2 DEF WellPlaced
<1>14. Content(cs) = Content(bs) \cup {e}
  <2>1. ASSUME NEW f \in Entry, HasEntry(cs, f) PROVE f = e \/ HasEntry(bs, f)
    <3>1. PICK b, i : b \in 1 .. Len(cs) /\ i \in 1 .. Len(cs[b]) /\ cs[b][i] = f
      BY <2>1 DEF HasEntry
    <3>2. CASE b # x BY <1>9, <3>1, <3>2 DEF HasEntry
    <3>3. CASE b = x BY <1>7, <1>9, <1>11, <3>1, <3>3 DEF HasEntry
    <3> QED BY <3>2, <3>3
  <2>2. ASSUME NEW f \in Entry, HasEntry(bs, f) PROVE HasEntry(cs, f)
    <3>1. PICK b, i : b \in 1 .. Len(bs) /\ i \in 1 .. Len(bs[b]) /\ bs[b][i] = f
      BY <2>2 DEF HasEntry
    <3>2. CASE b # x BY <1>9, <3>1, <3>2 DEF HasEntry
    <3>3. CASE b = x BY <1>7, <1>9, <1>12, <3>1, <3>3 DEF HasEntry
    <3> QED BY <3>2, <3>3
  <2>3. HasEntry(cs, e) BY <1>2, <1>7, <1>9, <1>12 DEF HasEntry
  <2> QED BY <1>3, <2>1, <2>2, <2>3 DEF Content
<1> QED BY <1>3, <1>5, <1>9, <1>13, <1>14 DEF cs, e

LEMMA UpdatedIs ==
  ASSUME NEW bs, WellPlaced(bs), Len(bs) # 0, NEW k \in Key, NEW v \in Value,
         Matches(bs, k) # {}
  PROVE  LET e == Found(bs, k)
             f == [key |-> e.key, value |-> v] IN
         /\ WellPlaced(Updated(bs, k, v)) /\ Len(Updated(bs, k, v)) = Len(bs)
         /\ e \in Content(bs) /\ Equal(e.key, k)
         /\ f \in Entry /\ f \notin Content(bs) \ {e}
         /\ Content(Updated(bs, k, v)) = (Content(bs) \ {e}) \cup {f}
<1> DEFINE x == Index(bs, k)
           y == First(bs, k)
           e == Found(bs, k)
           f == [key |-> e.key, value |-> v]
           t == [bs[x] EXCEPT ![y] = f]
           cs == Updated(bs, k, v)
<1>1. bs \in Seq(Seq(Entry)) BY DEF WellPlaced
<1>2. x \in 1 .. Len(bs) BY <1>1, IndexIs
<1>3. y \in 1 .. Len(bs[x]) /\ e \in Content(bs) /\ Equal(e.key, k)
  BY MatchesAre
<1>4. e = bs[x][y] BY DEF Found
<1>5. bs[x] \in Seq(Entry) /\ Len(bs[x]) \in Nat /\ DOMAIN bs[x] = 1 .. Len(bs[x])
  BY <1>1, <1>2, BucketsAre
<1>6. e \in Entry /\ f \in Entry /\ f.key = e.key /\ f = [e EXCEPT !.value = v]
  BY <1>3 DEF Content, Entry
<1>7. cs = [bs EXCEPT ![x] = t]
  <2>1. cs = [bs EXCEPT ![x] = [bs[x] EXCEPT ![y] = [bs[x][y] EXCEPT !.value = v]]]
    BY DEF Updated
  <2> QED BY <1>4, <1>6, <2>1
<1> HIDE DEF e, f, y
<1>8. /\ t \in Seq(Entry) /\ Len(t) = Len(bs[x])
      /\ \A i \in 1 .. Len(bs[x]) : t[i] = IF i = y THEN f ELSE bs[x][i]
  BY <1>3, <1>5, <1>6, ExceptSeq
<1> HIDE DEF t, cs, x
<1>9. /\ cs \in Seq(Seq(Entry)) /\ Len(cs) = Len(bs)
      /\ \A b \in 1 .. Len(bs) : cs[b] = IF b = x THEN t ELSE bs[b]
      /\ \A j : Index(cs, j) = Index(bs, j)
  <2>1. /\ cs \in Seq(Seq(Entry)) /\ Len(cs) = Len(bs)
        /\ \A b \in 1 .. Len(bs) : cs[b] = IF b = x THEN t ELSE bs[b]
    BY <1>1, <1>2, <1>7, <1>8, ReplacedBucket
  <2> QED BY <2>1 DEF Index
<1>10. \A b \in 1 .. Len(bs) : \A i \in 1 .. Len(bs[b]) :
         /\ Len(cs[b]) = Len(bs[b])
         /\ cs[b][i].key = bs[b][i].key
         /\ (b # x \/ i # y) => cs[b][i] = bs[b][i]
  BY <1>4, <1>6, <1>8, <1>9
<1>11. cs[x][y] = f /\ y \in 1 .. Len(cs[x]) BY <1>2, <1>3, <1>8, <1>9
<1>12. WellPlaced(cs)
  <2>1. \A b \in 1 .. Len(cs) : Len(cs[b]) = Len(bs[b]) BY <1>8, <1>9
  <2> QED BY <1>9, <1>10, <2>1 DEF WellPlaced
<1>13. ASSUME NEW g \in Content(bs), Equal(g.key, k) PROVE g = e
  BY <1>3, <1>13, ContentDiffers DEF Equal
<1>14. f \notin Content(bs) \ {e} BY <1>3, <1>6, <1>13
<1>15. Content(cs) = (Content(bs) \ {e}) \cup {f}
  <2>1. ASSUME NEW g \in Entry, HasEntry(cs, g) PROVE g = f \/ (HasEntry(bs, g) /\ g # e)
    <3>1. PICK b, i : b \in 1 .. Len(cs) /\ i \in 1 .. Len(cs[b]) /\ cs[b][i] = g
      BY <2>1 DEF HasEntry
    <3>2. b \in 1 .. Len(bs) /\ i \in 1 .. Len(bs[b]) BY <1>8, <1>9, <3>1
    <3>3. CASE b = x /\ i = y BY <1>11, <3>1, <3>3
    <3>4. CASE b # x \/ i # y
      <4>1. g = bs[b][i] BY <1>10, <3>1, <3>2, <3>4
      <4>2. g # e BY <1>2, <1>3, <1>4, <3>2, <3>4, <4>1, KeysDiffer DEF Equal
      <4> QED BY <3>2, <4>1, <4>2 DEF HasEntry
    <3> QED BY <3>3, <3>4
  <2>2. ASSUME NEW g \in Entry, HasEntry(bs, g), g # e PROVE HasEntry(cs, g)
    <3>1. PICK b, i : b \in 1 .. Len(bs) /\ i \in 1 .. Len(bs[b]) /\ bs[b][i] = g
      BY <2>2 DEF HasEntry
    <3>2. b # x \/ i # y BY <1>4, <2>2, <3>1
    <3>3. cs[b][i] = g /\ i \in 1 .. Len(cs[b]) BY <1>10, <3>1, <3>2
    <3> QED BY <1>9, <3>1, <3>3 DEF HasEntry
  <2>3. HasEntry(cs, f) BY <1>2, <1>9, <1>11 DEF HasEntry
  <2> QED BY <1>6, <2>1, <2>2, <2>3 DEF Content
<1> QED BY <1>3, <1>6, <1>9, <1>12, <1>14, <1>15 DEF cs, e, f

LEMMA RemovedIs ==
  ASSUME NEW bs, WellPlaced(bs), Len(bs) # 0, NEW k \in Key, Matches(bs, k) # {}
  PROVE  LET cs == [bs EXCEPT ![Index(bs, k)] = RemoveAt(@, First(bs, k))] IN
         /\ WellPlaced(cs) /\ Len(cs) = Len(bs)
         /\ Found(bs, k) \in Content(bs) /\ Equal(Found(bs, k).key, k)
         /\ Content(cs) = Content(bs) \ {Found(bs, k)}
<1> DEFINE x == Index(bs, k)
           y == First(bs, k)
           e == Found(bs, k)
           t == RemoveAt(bs[x], y)
           cs == [bs EXCEPT ![x] = RemoveAt(@, y)]
<1>1. bs \in Seq(Seq(Entry)) BY DEF WellPlaced
<1>2. x \in 1 .. Len(bs) BY <1>1, IndexIs
<1>3. y \in 1 .. Len(bs[x]) /\ e \in Content(bs) /\ Equal(e.key, k)
  BY MatchesAre
<1>4. e = bs[x][y] BY DEF Found
<1>5. bs[x] \in Seq(Entry) /\ Len(bs[x]) \in Nat BY <1>1, <1>2, BucketsAre
<1> HIDE DEF y, e
<1>6. /\ t \in Seq(Entry) /\ Len(t) = Len(bs[x]) - 1
      /\ \A n \in 1 .. Len(bs[x]) - 1 : t[n] = IF n < y THEN bs[x][n] ELSE bs[x][n + 1]
  BY <1>3, <1>5, RemoveAtIs
<1>7. cs = [bs EXCEPT ![x] = t] OBVIOUS
<1> HIDE DEF t, cs, x
<1>8. /\ cs \in Seq(Seq(Entry)) /\ Len(cs) = Len(bs)
      /\ \A b \in 1 .. Len(bs) : cs[b] = IF b = x THEN t ELSE bs[b]
      /\ \A j : Index(cs, j) = Index(bs, j)
  <2>1. /\ cs \in Seq(Seq(Entry)) /\ Len(cs) = Len(bs)
        /\ \A b \in 1 .. Len(bs) : cs[b] = IF b = x THEN t ELSE bs[b]
    BY <1>1, <1>2, <1>6, <1>7, ReplacedBucket
  <2> QED BY <2>1 DEF Index
<1> DEFINE Was(n) == IF n < y THEN n ELSE n + 1
<1>9. \A n \in 1 .. Len(t) : /\ Was(n) \in 1 .. Len(bs[x]) /\ Was(n) # y
                             /\ t[n] = bs[x][Was(n)]
  BY <1>3, <1>5, <1>6
<1>10. \A m, n \in 1 .. Len(t) : Was(m) = Was(n) => m = n
  BY <1>3, <1>5, <1>6
<1>11. \A i \in 1 .. Len(bs[x]) : i # y => \E n \in 1 .. Len(t) : Was(n) = i
  <2> SUFFICES ASSUME NEW i \in 1 .. Len(bs[x]), i # y
               PROVE  \E n \in 1 .. Len(t) : Was(n) = i
    OBVIOUS
  <2>1. CASE i < y
    <3>1. i \in 1 .. Len(t) /\ Was(i) = i BY <1>3, <1>5, <1>6, <2>1
    <3> QED BY <3>1
  <2>2. CASE i > y
    <3>1. i - 1 \in 1 .. Len(t) /\ Was(i - 1) = i BY <1>3, <1>5, <1>6, <2>2
    <3> QED BY <3>1
  <2> QED BY <1>3, <2>1, <2>2
<1> HIDE DEF Was
<1>12. WellPlaced(cs)
  <2>1. ASSUME NEW b \in 1 .. Len(cs), NEW i \in 1 .. Len(cs[b])
        PROVE  Index(cs, cs[b][i].key) = b
    <3>1. CASE b # x BY <1>8, <2>1, <3>1 DEF WellPlaced
    <3>2. CASE b = x
      <4>1. cs[b] = t BY <1>2, <1>8, <3>2
      <4>2. Index(bs, bs[x][Was(i)].key) = x BY <1>2, <1>9, <4>1 DEF WellPlaced
      <4> QED BY <1>8, <1>9, <3>2, <4>1, <4>2
    <3> QED BY <3>1, <3>2
  <2>2. ASSUME NEW b \in 1 .. Len(cs), NEW i \in 1 .. Len(cs[b]), NEW j \in 1 .. Len(cs[b]),
               Equal(cs[b][i].key, cs[b][j].key)
        PROVE  i = j
    <3>1. CASE b # x BY <1>8, <2>2, <3>1 DEF WellPlaced
    <3>2. CASE b = x
      <4>1. cs[b] = t BY <1>2, <1>8, <3>2
      <4>2. Was(i) = Was(j) BY <1>2, <1>9, <2>2, <4>1 DEF WellPlaced
      <4> QED BY <1>10, <4>1, <4>2
    <3> QED BY <3>1, <3>2
  <2> QED BY <1>8, <2>1, <2>2 DEF WellPlaced
<1>13. Content(cs) = Content(bs) \ {e}
  <2>1. ASSUME NEW g \in Entry, HasEntry(cs, g) PROVE HasEntry(bs, g) /\ g # e
    <3>1. PICK b, i : b \in 1 .. Len(cs) /\ i \in 1 .. Len(cs[b]) /\ cs[b][i] = g
      BY <2>1 DEF HasEntry
    <3>2. PICK j : j \in 1 .. Len(bs[b]) /\ bs[b][j] = g /\ (b # x \/ j # y)
      BY <1>8, <1>9, <3>1
    <3>3. b \in 1 .. Len(bs) BY <1>8, <3>1
    <3>4. g # e BY <1>2, <1>3, <1>4, <3>2, <3>3, KeysDiffer DEF Equal
    <3> QED BY <3>2, <3>3, <3>4 DEF HasEntry
  <2>2. ASSUME NEW g \in Entry, HasEntry(bs, g), g # e PROVE HasEntry(cs, g)
    <3>1. PICK b, i : b \in 1 .. Len(bs) /\ i \in 1 .. Len(bs[b]) /\ bs[b][i] = g
      BY <2>2 DEF HasEntry
    <3>2. CASE b # x BY <1>8, <3>1, <3>2 DEF HasEntry
    <3>3. CASE b = x
      <4>1. i # y BY <1>4, <2>2, <3>1, <3>3
      <4>2. PICK n \in 1 .. Len(t) : Was(n) = i BY <1>11, <3>1, <3>3, <4>1
      <4> QED BY <1>8, <1>9, <3>1, <3>3, <4>2 DEF HasEntry
    <3> QED BY <3>2, <3>3
  <2> QED BY <2>1, <2>2 DEF Content
<1> QED BY <1>3, <1>8, <1>12, <1>13 DEF cs, x, y, e

LEMMA EmptyIs ==
  ASSUME NEW size \in Nat
  PROVE  /\ WellPlaced(EmptyBuckets(size)) /\ Len(EmptyBuckets(size)) = size
         /\ Content(EmptyBuckets(size)) = {}
<1>1. /\ EmptyBuckets(size) \in Seq(Seq(Entry)) /\ Len(EmptyBuckets(size)) = size
      /\ \A b \in 1 .. size : EmptyBuckets(size)[b] = <<>>
  BY DEF EmptyBuckets
<1>2. \A b \in 1 .. size : Len(EmptyBuckets(size)[b]) = 0 BY <1>1
<1> QED BY <1>1, <1>2 DEF WellPlaced, Content, HasEntry

(* The entries of the first n buckets, each once.                          *)
Listed(s, bs, n) ==
  /\ s \in Seq(Entry)
  /\ \A e \in Entry : (\E m \in 1 .. Len(s) : s[m] = e) <=>
                      (\E b \in 1 .. n : \E i \in 1 .. Len(bs[b]) : bs[b][i] = e)
  /\ \A l, m \in 1 .. Len(s) : Equal(s[l].key, s[m].key) => l = m

LEMMA ListedNext ==
  ASSUME NEW bs, WellPlaced(bs), NEW n \in Nat, n < Len(bs), NEW s, Listed(s, bs, n)
  PROVE  Listed(s \o bs[n + 1], bs, n + 1)
<1> DEFINE t == bs[n + 1]
           r == s \o t
<1>1. bs \in Seq(Seq(Entry)) BY DEF WellPlaced
<1>2. Len(bs) \in Nat /\ n + 1 \in 1 .. Len(bs)
  <2>1. Len(bs) \in Nat BY <1>1, LenProperties
  <2> QED BY <2>1
<1>3. t \in Seq(Entry) /\ Len(t) \in Nat BY <1>1, <1>2, BucketsAre
<1>4. s \in Seq(Entry) BY DEF Listed
<1>5. Len(s) \in Nat BY <1>4, LenProperties
<1>6. t = bs[n + 1] OBVIOUS
<1> HIDE DEF t
<1>7. /\ r \in Seq(Entry) /\ Len(r) = Len(s) + Len(t)
      /\ \A m \in 1 .. Len(s) + Len(t) :
           r[m] = IF m <= Len(s) THEN s[m] ELSE t[m - Len(s)]
  BY <1>3, <1>4, ConcatProperties
<1> HIDE DEF r
<1>8. \A m \in 1 .. Len(r) :
        \/ m \in 1 .. Len(s) /\ r[m] = s[m]
        \/ m > Len(s) /\ m - Len(s) \in 1 .. Len(t) /\ r[m] = t[m - Len(s)]
  BY <1>3, <1>5, <1>7
<1>9. \A m \in 1 .. Len(s) : m \in 1 .. Len(r) /\ r[m] = s[m] BY <1>3, <1>5, <1>7
<1>10. \A i \in 1 .. Len(t) : i + Len(s) \in 1 .. Len(r) /\ r[i + Len(s)] = t[i]
  <2> SUFFICES ASSUME NEW i \in 1 .. Len(t)
               PROVE  i + Len(s) \in 1 .. Len(r) /\ r[i + Len(s)] = t[i]
    OBVIOUS
  <2>1. i + Len(s) \in 1 .. Len(s) + Len(t) /\ ~(i + Len(s) <= Len(s))
        /\ i + Len(s) - Len(s) = i
    BY <1>3, <1>5
  <2> QED BY <1>7, <2>1
<1>11. \A b \in 1 .. n + 1 : b = n + 1 \/ b \in 1 .. n OBVIOUS
<1>12. \A b \in 1 .. n : b \in 1 .. n + 1 /\ b \in 1 .. Len(bs) /\ b # n + 1 BY <1>2
<1>13. ASSUME NEW e \in Entry
       PROVE  (\E m \in 1 .. Len(r) : r[m] = e) <=>
              (\E b \in 1 .. n + 1 : \E i \in 1 .. Len(bs[b]) : bs[b][i] = e)
  <2>1. ASSUME NEW m \in 1 .. Len(r), r[m] = e
        PROVE  \E b \in 1 .. n + 1 : \E i \in 1 .. Len(bs[b]) : bs[b][i] = e
    <3>1. CASE m \in 1 .. Len(s) /\ r[m] = s[m]
      <4>1. PICK b \in 1 .. n : \E i \in 1 .. Len(bs[b]) : bs[b][i] = e
        BY <2>1, <3>1 DEF Listed
      <4> QED BY <1>12, <4>1
    <3>2. CASE m - Len(s) \in 1 .. Len(t) /\ r[m] = t[m - Len(s)]
      <4>1. n + 1 \in 1 .. n + 1 OBVIOUS
      <4> QED BY <1>6, <2>1, <3>2, <4>1
    <3> QED BY <1>8, <3>1, <3>2
  <2>2. ASSUME NEW b \in 1 .. n + 1, NEW i \in 1 .. Len(bs[b]), bs[b][i] = e
        PROVE  \E m \in 1 .. Len(r) : r[m] = e
    <3>1. CASE b = n + 1 BY <1>6, <1>10, <2>2, <3>1
    <3>2. CASE b \in 1 .. n
      <4>1. PICK m \in 1 .. Len(s) : s[m] = e BY <2>2, <3>2 DEF Listed
      <4> QED BY <1>9, <4>1
    <3> QED BY <1>11, <3>1, <3>2
  <2> QED BY <2>1, <2>2
<1>14. ASSUME NEW l \in 1 .. Len(s), NEW i \in 1 .. Len(t)
       PROVE  ~Equal(s[l].key, t[i].key) /\ ~Equal(t[i].key, s[l].key)
  <2>1. s[l] \in Entry BY <1>4, ElementOfSeq
  <2>2. PICK b \in 1 .. n : \E j \in 1 .. Len(bs[b]) : bs[b][j] = s[l]
    BY <2>1 DEF Listed
  <2>3. PICK j \in 1 .. Len(bs[b]) : bs[b][j] = s[l] BY <2>2
  <2> QED BY <1>2, <1>6, <1>12, <2>3, KeysDiffer DEF Equal
<1>15. ASSUME NEW l \in 1 .. Len(r), NEW m \in 1 .. Len(r), Equal(r[l].key, r[m].key)
       PROVE  l = m
  <2>1. CASE l \in 1 .. Len(s) /\ m \in 1 .. Len(s)
    BY <1>9, <1>15, <2>1 DEF Listed
  <2>2. CASE l \in 1 .. Len(s) /\ m \notin 1 .. Len(s)
    <3>1. r[l] = s[l] BY <1>9, <2>2
    <3>2. m - Len(s) \in 1 .. Len(t) /\ r[m] = t[m - Len(s)] BY <1>8, <2>2
    <3> QED BY <1>14, <1>15, <2>2, <3>1, <3>2
  <2>3. CASE l \notin 1 .. Len(s) /\ m \in 1 .. Len(s)
    <3>1. r[m] = s[m] BY <1>9, <2>3
    <3>2. l - Len(s) \in 1 .. Len(t) /\ r[l] = t[l - Len(s)] BY <1>8, <2>3
    <3> QED BY <1>14, <1>15, <2>3, <3>1, <3>2
  <2>4. CASE l \notin 1 .. Len(s) /\ m \notin 1 .. Len(s)
    <3>1. l - Len(s) \in 1 .. Len(t) /\ m - Len(s) \in 1 .. Len(t)
          /\ Equal(t[l - Len(s)].key, t[m - Len(s)].key)
      BY <1>8, <1>15, <2>4
    <3>2. l - Len(s) = m - Len(s) BY <1>2, <1>6, <3>1 DEF WellPlaced
    <3> QED BY <1>5, <3>2
  <2> QED BY <2>1, <2>2, <2>3, <2>4
<1>16. t = bs[n + 1] /\ r = s \o t BY <1>6 DEF r
<1> QED BY <1>7, <1>13, <1>15, <1>16 DEF Listed

LEMMA EntriesAre ==
  ASSUME NEW bs, WellPlaced(bs)
  PROVE  Listed(Entries(bs), bs, Len(bs))
<1> DEFINE N == Len(bs)
           Step(h) == [n \in 1 .. N |-> IF n = 1 THEN bs[n] ELSE h[n - 1] \o bs[n]]
           flatten == CHOOSE h : h = Step(h)
           Upto(h, n) == [m \in 1 .. n |-> IF m = 1 THEN bs[m] ELSE h[m - 1] \o bs[m]]
<1>1. bs \in Seq(Seq(Entry)) BY DEF WellPlaced
<1>2. N \in Nat BY <1>1, LenProperties
<1>3. Listed(<<>>, bs, 0) BY DEF Listed
<1>4. CASE N = 0
  <2>1. bs = <<>> BY <1>1, <1>4, EmptySeq
  <2> QED BY <1>3, <1>4, <2>1 DEF Entries, FlattenSeq
<1>5. CASE N # 0
  <2>1. \A n \in 1 .. N : \E h : h = Upto(h, n)
    <3> DEFINE Solvable(n) == \E h : h = Upto(h, n)
               Wrong == {n \in 1 .. N : ~Solvable(n)}
    <3> SUFFICES \A n \in 1 .. N : Solvable(n) OBVIOUS
    <3>0. \A n : Solvable(n) <=> \E h : h = Upto(h, n) OBVIOUS
    <3> HIDE DEF Solvable
    <3>1. SUFFICES ASSUME Wrong # {} PROVE FALSE OBVIOUS
    <3>2. Wrong \in SUBSET Nat BY <1>2
    <3> HIDE DEF Wrong
    <3>3. PICK n \in Wrong : \A m \in Wrong : n <= m BY <3>1, <3>2, Least
    <3> USE DEF Wrong
    <3>4. CASE n = 1
      <4> DEFINE h == [m \in 1 .. 1 |-> bs[m]]
      <4>1. h = Upto(h, 1) OBVIOUS
      <4> QED BY <3>3, <3>4, <3>0, <4>1
    <3>5. CASE n # 1
      <4>1. n \in 1 .. N /\ n - 1 \in 1 .. N /\ n - 1 < n BY <1>2, <3>3, <3>5
      <4>2. Solvable(n - 1) BY <3>3, <4>1
      <4>3. PICK h : h = Upto(h, n - 1) BY <3>0, <4>2
      <4> DEFINE g == [m \in 1 .. n |-> IF m = n THEN h[n - 1] \o bs[n] ELSE h[m]]
      <4>4. \A m \in 1 .. n - 1 : h[m] = IF m = 1 THEN bs[m] ELSE h[m - 1] \o bs[m]
        BY <4>3
      <4>5. ASSUME NEW m \in 1 .. n
            PROVE  g[m] = IF m = 1 THEN bs[m] ELSE g[m - 1] \o bs[m]
        <5>1. CASE m = n
          <6>1. n - 1 \in 1 .. n /\ n - 1 # n BY <4>1
          <6> QED BY <3>5, <5>1, <6>1
        <5>2. CASE m # n
          <6>1. m \in 1 .. n - 1 /\ (m # 1 => m - 1 \in 1 .. n /\ m - 1 # n)
            BY <4>1, <5>2
          <6> QED BY <4>4, <5>2, <6>1
        <5> QED BY <5>1, <5>2
      <4>6. g = Upto(g, n)
        <5>1. g = [m \in 1 .. n |-> g[m]] OBVIOUS
        <5> HIDE DEF g
        <5> QED BY <4>5, <5>1
      <4> QED BY <3>3, <3>0, <4>6
    <3> QED BY <3>4, <3>5
  <2>2. flatten = Step(flatten)
    <3>1. N \in 1 .. N BY <1>2, <1>5
    <3>2. PICK h : h = Upto(h, N) BY <2>1, <3>1
    <3>3. h = Step(h) BY <3>2
    <3> QED BY <3>3
  <2> HIDE DEF flatten
  <2>3. \A n \in 1 .. N : flatten[n] = IF n = 1 THEN bs[n] ELSE flatten[n - 1] \o bs[n]
    BY <2>2
  <2>4. \A n \in 1 .. N : Listed(flatten[n], bs, n)
    <3> DEFINE Wrong == {n \in 1 .. N : ~Listed(flatten[n], bs, n)}
    <3>1. SUFFICES ASSUME Wrong # {} PROVE FALSE OBVIOUS
    <3>2. Wrong \in SUBSET Nat BY <1>2
    <3> HIDE DEF Wrong
    <3>3. PICK n \in Wrong : \A m \in Wrong : n <= m BY <3>1, <3>2, Least
    <3> USE DEF Wrong
    <3>4. CASE n = 1
      <4>1. 1 \in 1 .. N /\ 0 < N /\ 0 + 1 = 1 BY <1>2, <1>5
      <4>2. bs[1] \in Seq(Entry) BY <1>1, <4>1, BucketsAre
      <4>3. <<>> \o bs[1] = bs[1] BY <4>2, ConcatEmptySeq
      <4>4. Listed(<<>> \o bs[0 + 1], bs, 0 + 1) BY <1>3, <4>1, ListedNext
      <4>5. flatten[1] = bs[1] BY <2>3, <4>1
      <4> QED BY <3>3, <3>4, <4>1, <4>3, <4>4, <4>5
    <3>5. CASE n # 1
      <4>1. /\ n \in 1 .. N /\ n - 1 \in 1 .. N /\ n - 1 < n
            /\ n - 1 \in Nat /\ n - 1 < N /\ n - 1 + 1 = n
        BY <1>2, <3>3, <3>5
      <4>2. Listed(flatten[n - 1], bs, n - 1) BY <3>3, <4>1
      <4>3. Listed(flatten[n - 1] \o bs[n - 1 + 1], bs, n - 1 + 1)
        BY <4>1, <4>2, ListedNext
      <4>4. flatten[n] = flatten[n - 1] \o bs[n] BY <2>3, <3>5, <4>1
      <4> QED BY <3>3, <4>1, <4>3, <4>4
    <3> QED BY <3>4, <3>5
  <2>5. Entries(bs) = flatten[N] BY <1>5 DEF Entries, FlattenSeq, flatten
  <2>6. N \in 1 .. N BY <1>2, <1>5
  <2> QED BY <2>4, <2>5, <2>6
<1> QED BY <1>4, <1>5

(* KMapRehashIfNecessary: the new buckets hold the same entries, whatever  *)
(* their number.                                                           *)
LEMMA SpreadIs ==
  ASSUME NEW bs, WellPlaced(bs), NEW size \in Nat \ {0}
  PROVE  /\ WellPlaced(Spread(bs, size)) /\ Len(Spread(bs, size)) = size
         /\ Content(Spread(bs, size)) = Content(bs)
<1> DEFINE es == Entries(bs)
           N == Len(es)
           Step(h) == [n \in 0 .. N |->
                         IF n = 0 THEN EmptyBuckets(size)
                         ELSE WithValue(h[n - 1], es[n].key, es[n].value)]
           Upto(h, n) == [m \in 0 .. n |->
                            IF m = 0 THEN EmptyBuckets(size)
                            ELSE WithValue(h[m - 1], es[m].key, es[m].value)]
           new == CHOOSE h : h = Step(h)
           Solvable(n) == \E h : h = Upto(h, n)
<1>1. Listed(es, bs, Len(bs)) BY EntriesAre
<1>2. es \in Seq(Entry) /\ \A l, m \in 1 .. N : Equal(es[l].key, es[m].key) => l = m
  BY <1>1 DEF Listed
<1>3. N \in Nat BY <1>2, LenProperties
<1>4. \A n \in 1 .. N : /\ es[n] \in Entry /\ es[n].key \in Key /\ es[n].value \in Value
                        /\ [key |-> es[n].key, value |-> es[n].value] = es[n]
  <2>1. \A n \in 1 .. N : es[n] \in Entry BY <1>2, ElementOfSeq
  <2>2. \A e \in Entry : /\ e.key \in Key /\ e.value \in Value
                         /\ [key |-> e.key, value |-> e.value] = e
    BY DEF Entry
  <2> QED BY <2>1, <2>2
<1>5. Content(bs) = {es[m] : m \in 1 .. N}
  <2>1. \A e \in Entry : (\E m \in 1 .. N : es[m] = e) <=> HasEntry(bs, e)
    BY <1>1 DEF Listed, HasEntry
  <2> QED BY <1>4, <2>1 DEF Content
<1> HIDE DEF es, N
<1>6. \A n : Solvable(n) <=> \E h : h = Upto(h, n) OBVIOUS
<1> HIDE DEF Solvable
<1>7. \A n \in 0 .. N : Solvable(n)
  <2> DEFINE Wrong == {n \in 0 .. N : ~Solvable(n)}
  <2>1. SUFFICES ASSUME Wrong # {} PROVE FALSE OBVIOUS
  <2>2. Wrong \in SUBSET Nat BY <1>3
  <2> HIDE DEF Wrong
  <2>3. PICK n \in Wrong : \A m \in Wrong : n <= m BY <2>1, <2>2, Least
  <2> USE DEF Wrong
  <2>4. CASE n = 0
    <3> DEFINE h == [m \in 0 .. 0 |-> EmptyBuckets(size)]
    <3>1. h = Upto(h, 0) OBVIOUS
    <3> QED BY <1>6, <2>3, <2>4, <3>1
  <2>5. CASE n # 0
    <3>1. n \in 1 .. N /\ n - 1 \in 0 .. N /\ n - 1 < n BY <1>3, <2>3, <2>5
    <3>2. Solvable(n - 1) BY <2>3, <3>1
    <3>3. PICK h : h = Upto(h, n - 1) BY <1>6, <3>2
    <3> DEFINE filled == WithValue(h[n - 1], es[n].key, es[n].value)
               g == [m \in 0 .. n |-> IF m = n THEN filled ELSE h[m]]
    <3>4. \A m \in 0 .. n - 1 :
            h[m] = IF m = 0 THEN EmptyBuckets(size)
                   ELSE WithValue(h[m - 1], es[m].key, es[m].value)
      BY <3>3
    <3>5. ASSUME NEW m \in 0 .. n
          PROVE  g[m] = IF m = 0 THEN EmptyBuckets(size)
                        ELSE WithValue(g[m - 1], es[m].key, es[m].value)
      <4>1. CASE m = n
        <5>1. n - 1 \in 0 .. n /\ n - 1 # n BY <3>1
        <5> QED BY <2>5, <4>1, <5>1
      <4>2. CASE m # n
        <5>1. m \in 0 .. n - 1 /\ (m # 0 => m - 1 \in 0 .. n /\ m - 1 # n)
          BY <3>1, <4>2
        <5> QED BY <3>4, <4>2, <5>1
      <4> QED BY <4>1, <4>2
    <3>6. g = Upto(g, n)
      <4>1. g = [m \in 0 .. n |-> g[m]] OBVIOUS
      <4> HIDE DEF g
      <4> QED BY <3>5, <4>1
    <3> QED BY <1>6, <2>3, <3>6
  <2> QED BY <2>4, <2>5
<1>8. new = Step(new)
  <2>1. N \in 0 .. N BY <1>3
  <2>2. PICK h : h = Upto(h, N) BY <1>6, <1>7, <2>1
  <2>3. h = Step(h) BY <2>2
  <2> QED BY <2>3
<1> HIDE DEF new
<1>9. \A n \in 0 .. N : new[n] = IF n = 0 THEN EmptyBuckets(size)
                                 ELSE WithValue(new[n - 1], es[n].key, es[n].value)
  BY <1>8
<1> DEFINE Right(n) == /\ WellPlaced(new[n]) /\ Len(new[n]) = size
                       /\ Content(new[n]) = {es[m] : m \in 1 .. n}
<1>10. ASSUME NEW n \in 1 .. N, Right(n - 1) PROVE Right(n)
  <2> DEFINE cs == new[n - 1]
             e == es[n]
  <2>2. e \in Entry /\ e.key \in Key /\ e.value \in Value
        /\ [key |-> e.key, value |-> e.value] = e
    BY <1>4
  <2>3. WellPlaced(cs) /\ Len(cs) # 0 /\ Content(cs) = {es[m] : m \in 1 .. n - 1}
        /\ Len(cs) = size
    BY <1>10
  <2>4. new[n] = WithValue(cs, e.key, e.value)
    <3>1. n \in 0 .. N /\ n # 0 BY <1>3
    <3> QED BY <1>9, <3>1
  <2> HIDE DEF cs
  <2>5. Matches(cs, e.key) = {}
    <3>1. \A m \in 1 .. n - 1 : m \in 1 .. N /\ m # n BY <1>3
    <3>2. \A f \in Content(cs) : ~Equal(f.key, e.key) BY <1>2, <2>3, <3>1 DEF N, es
    <3> HIDE DEF e
    <3> QED BY <2>2, <2>3, <3>2, MatchesAre
  <2>6. \A m \in 1 .. n : m = n \/ m \in 1 .. n - 1 OBVIOUS
  <2>7. n \in 1 .. n /\ \A m \in 1 .. n - 1 : m \in 1 .. n BY <1>3
  <2>8. {es[m] : m \in 1 .. n} = {es[m] : m \in 1 .. n - 1} \cup {e}
    BY <2>6, <2>7
  <2> HIDE DEF e
  <2>9. new[n] = Added(cs, e.key, e.value) BY <2>4, <2>5 DEF WithValue
  <2>10. /\ WellPlaced(Added(cs, e.key, e.value))
         /\ Len(Added(cs, e.key, e.value)) = size
         /\ Content(Added(cs, e.key, e.value)) = Content(cs) \cup {e}
    BY <2>2, <2>3, <2>5, AddedIs
  <2> QED BY <2>3, <2>8, <2>9, <2>10
<1>11. Right(0)
  <2>1. new[0] = EmptyBuckets(size) BY <1>3, <1>9
  <2>2. {es[m] : m \in 1 .. 0} = {} OBVIOUS
  <2> QED BY <2>1, <2>2, EmptyIs
<1> HIDE DEF Right
<1>12. \A n \in 0 .. N : Right(n)
  <2> DEFINE Wrong == {n \in 0 .. N : ~Right(n)}
  <2>1. SUFFICES ASSUME Wrong # {} PROVE FALSE OBVIOUS
  <2>2. Wrong \in SUBSET Nat BY <1>3
  <2> HIDE DEF Wrong
  <2>3. PICK n \in Wrong : \A m \in Wrong : n <= m BY <2>1, <2>2, Least
  <2> USE DEF Wrong
  <2>4. n # 0 BY <1>11, <2>3
  <2>5. n \in 1 .. N /\ n - 1 \in 0 .. N /\ n - 1 < n BY <1>3, <2>3, <2>4
  <2>6. Right(n - 1) BY <2>3, <2>5
  <2> QED BY <1>10, <2>3, <2>5, <2>6
<1>13. Spread(bs, size) = new[N] BY DEF Spread, new, es, N
<1>14. Right(N) BY <1>3, <1>12
<1> QED BY <1>5, <1>13, <1>14 DEF Right

LEMMA RehashedIs ==
  ASSUME NEW bs, WellPlaced(bs), Len(bs) # 0, NEW k \in Nat, NEW cs \in Rehashed(bs, k)
  PROVE  WellPlaced(cs) /\ Len(cs) # 0 /\ Content(cs) = Content(bs)
<1>1. CASE cs = bs BY <1>1
<1>2. ASSUME NEW size \in Sizes(Len(bs), k), cs = Spread(bs, size)
      PROVE  WellPlaced(cs) /\ Len(cs) # 0 /\ Content(cs) = Content(bs)
  <2>1. PICK d \in 1 .. k + 1 : size = Len(bs) * 2^d
    BY DEF Sizes, kMapBucketGrowthFactor
  <2>2. 2^d \in Nat \ {0} BY PowersArePositive
  <2>3. Len(bs) \in Nat \ {0} BY LenProperties DEF WellPlaced
  <2>4. \A a, b \in Nat \ {0} : a * b \in Nat \ {0} OBVIOUS
  <2>5. size \in Nat \ {0} BY <2>1, <2>2, <2>3, <2>4
  <2> QED BY <1>2, <2>5, SpreadIs
<1> QED BY <1>1, <1>2 DEF Rehashed

(* Entries are as many as places, and an object occurs in them as often.   *)
OccursIn(E, o) ==
  Cardinality({e \in E : e.key = o}) + Cardinality({e \in E : e.value = o})

LEMMA CountedOnce ==
  ASSUME NEW T, NEW s \in Seq(T), \A l, m \in 1 .. Len(s) : s[l] = s[m] => l = m,
         NEW E \in SUBSET T, \A e \in T : e \in E => \E m \in 1 .. Len(s) : s[m] = e,
         NEW Y, Y = {m \in DOMAIN s : s[m] \in E}
  PROVE  IsFiniteSet(E) /\ Cardinality(Y) = Cardinality(E)
<1> DEFINE f == [m \in Y |-> s[m]]
<1>1. Len(s) \in Nat /\ DOMAIN s = 1 .. Len(s) BY LenProperties
<1>2. \A m \in 1 .. Len(s) : s[m] \in T BY ElementOfSeq
<1>3. IsFiniteSet(Y)
  <2>1. IsFiniteSet(1 .. Len(s)) BY <1>1, FS_Interval
  <2> QED BY <1>1, <2>1, FS_Subset
<1>4. f \in Bijection(Y, E)
  <2>1. f \in [Y -> E] OBVIOUS
  <2>2. \A l, m \in Y : f[l] = f[m] => l = m BY <1>1
  <2>3. \A e \in E : \E m \in Y : f[m] = e BY <1>1
  <2> HIDE DEF f
  <2> QED BY <2>1, <2>2, <2>3, Fun_IsBij
<1>5. ExistsBijection(Y, E) BY <1>4 DEF ExistsBijection
<1> QED BY <1>3, <1>5, FS_Bijection

LEMMA EntriesAreCounted ==
  ASSUME NEW bs, WellPlaced(bs)
  PROVE  /\ IsFiniteSet(Content(bs)) /\ Len(Entries(bs)) = Cardinality(Content(bs))
         /\ \A o : Occurrences(bs, o) = OccursIn(Content(bs), o)
<1> DEFINE s == Entries(bs)
           E == Content(bs)
<1>1. Listed(s, bs, Len(bs)) BY EntriesAre
<1>2. s \in Seq(Entry) BY <1>1 DEF Listed
<1>3. DOMAIN s = 1 .. Len(s) /\ Len(s) \in Nat BY <1>2, LenProperties
<1>4. \A m \in 1 .. Len(s) : s[m] \in Entry BY <1>2, ElementOfSeq
<1>5. \A e \in Entry : e \in E <=> \E m \in 1 .. Len(s) : s[m] = e
  BY <1>1 DEF Listed, Content, HasEntry
<1>6. \A l, m \in 1 .. Len(s) : s[l] = s[m] => l = m BY <1>1 DEF Listed, Equal
<1>7. E \in SUBSET Entry BY DEF Content
<1> HIDE DEF s, E
<1>8. ASSUME NEW F \in SUBSET E, NEW Y, Y = {m \in DOMAIN s : s[m] \in F}
      PROVE  IsFiniteSet(F) /\ Cardinality(Y) = Cardinality(F)
  <2>1. F \in SUBSET Entry /\ \A e \in Entry : e \in F => \E m \in 1 .. Len(s) : s[m] = e
    BY <1>5, <1>7
  <2> QED BY <1>2, <1>6, <1>8, <2>1, CountedOnce
<1>9. IsFiniteSet(E) /\ Len(s) = Cardinality(E)
  <2>1. 1 .. Len(s) = {m \in DOMAIN s : s[m] \in E} BY <1>3, <1>4, <1>5
  <2>2. IsFiniteSet(E) /\ Cardinality(1 .. Len(s)) = Cardinality(E) BY <1>8, <2>1
  <2> QED BY <1>3, <2>2, FirstNumbers
<1>10. ASSUME NEW o PROVE Occurrences(bs, o) = OccursIn(E, o)
  <2>1. {m \in DOMAIN s : s[m].key = o} = {m \in DOMAIN s : s[m] \in {e \in E : e.key = o}}
    BY <1>3, <1>4, <1>5
  <2>2. {m \in DOMAIN s : s[m].value = o} = {m \in DOMAIN s : s[m] \in {e \in E : e.value = o}}
    BY <1>3, <1>4, <1>5
  <2>3. {e \in E : e.key = o} \in SUBSET E /\ {e \in E : e.value = o} \in SUBSET E
    OBVIOUS
  <2>4. Cardinality({m \in DOMAIN s : s[m].key = o}) = Cardinality({e \in E : e.key = o})
    BY <1>8, <2>1, <2>3
  <2>5. Cardinality({m \in DOMAIN s : s[m].value = o}) = Cardinality({e \in E : e.value = o})
    BY <1>8, <2>2, <2>3
  <2> QED BY <2>4, <2>5 DEF Occurrences, OccursIn, s
<1> QED BY <1>9, <1>10 DEF s, E

LEMMA OccursInMore ==
  ASSUME NEW E, IsFiniteSet(E), NEW e, e \notin E, NEW o
  PROVE  /\ OccursIn(E, o) \in Nat
         /\ OccursIn(E \cup {e}, o) = OccursIn(E, o) + One(e.key = o) + One(e.value = o)
<1> DEFINE K(F) == {f \in F : f.key = o}
           V(F) == {f \in F : f.value = o}
<1>1. IsFiniteSet(K(E)) /\ IsFiniteSet(V(E)) BY FS_Subset
<1>2. e \notin K(E) /\ e \notin V(E) OBVIOUS
<1>3. /\ e.key = o => K(E \cup {e}) = K(E) \cup {e}
      /\ e.key # o => K(E \cup {e}) = K(E)
      /\ e.value = o => V(E \cup {e}) = V(E) \cup {e}
      /\ e.value # o => V(E \cup {e}) = V(E)
  OBVIOUS
<1>4. \A F : OccursIn(F, o) = Cardinality(K(F)) + Cardinality(V(F)) BY DEF OccursIn
<1> HIDE DEF K, V
<1>5. Cardinality(K(E)) \in Nat /\ Cardinality(V(E)) \in Nat
  BY <1>1, FS_CardinalityType
<1>6. /\ Cardinality(K(E) \cup {e}) = Cardinality(K(E)) + 1
      /\ Cardinality(V(E) \cup {e}) = Cardinality(V(E)) + 1
  BY <1>1, <1>2, FS_AddElement
<1>7. Cardinality(K(E \cup {e})) = Cardinality(K(E)) + One(e.key = o)
  <2>1. CASE e.key = o BY <1>3, <1>6, <2>1 DEF One
  <2>2. CASE e.key # o BY <1>3, <1>5, <2>2 DEF One
  <2> QED BY <2>1, <2>2
<1>8. Cardinality(V(E \cup {e})) = Cardinality(V(E)) + One(e.value = o)
  <2>1. CASE e.value = o BY <1>3, <1>6, <2>1 DEF One
  <2>2. CASE e.value # o BY <1>3, <1>5, <2>2 DEF One
  <2> QED BY <2>1, <2>2
<1>9. One(e.key = o) \in Nat /\ One(e.value = o) \in Nat BY DEF One
<1> QED BY <1>4, <1>5, <1>7, <1>8, <1>9

-----------------------------------------------------------------------------
(* What the entries say of a name.                                         *)

Distinct(E) == \A e, f \in E : Equal(e.key, f.key) => e = f

Lookup(E, n) ==
  IF \E e \in E : Ident[e.key] = n THEN (CHOOSE e \in E : Ident[e.key] = n).value
  ELSE None

LEMMA LookupIs ==
  ASSUME NEW E, Distinct(E), NEW n
  PROVE  /\ \A e \in E : Ident[e.key] = n => Lookup(E, n) = e.value
         /\ (\A e \in E : Ident[e.key] # n) => Lookup(E, n) = None
<1>1. ASSUME NEW e \in E, Ident[e.key] = n PROVE Lookup(E, n) = e.value
  <2> DEFINE c == CHOOSE f \in E : Ident[f.key] = n
  <2>1. c \in E /\ Ident[c.key] = n BY <1>1
  <2>2. Lookup(E, n) = c.value BY <1>1 DEF Lookup
  <2> HIDE DEF c
  <2>3. c = e BY <1>1, <2>1 DEF Distinct, Equal
  <2> QED BY <2>2, <2>3
<1>2. (\A e \in E : Ident[e.key] # n) => Lookup(E, n) = None BY DEF Lookup
<1> QED BY <1>1, <1>2

LEMMA LookupMore ==
  ASSUME NEW E, NEW e, Distinct(E \cup {e}), NEW n
  PROVE  Lookup(E \cup {e}, n) = IF Ident[e.key] = n THEN e.value ELSE Lookup(E, n)
<1>1. Distinct(E) BY DEF Distinct
<1>2. CASE Ident[e.key] = n
  <2>1. e \in E \cup {e} OBVIOUS
  <2> QED BY <1>2, <2>1, LookupIs
<1>3. CASE Ident[e.key] # n /\ \E f \in E : Ident[f.key] = n
  <2>1. PICK f \in E : Ident[f.key] = n BY <1>3
  <2>2. f \in E \cup {e} OBVIOUS
  <2>3. Lookup(E, n) = f.value BY <1>1, <2>1, LookupIs
  <2>4. Lookup(E \cup {e}, n) = f.value BY <2>1, <2>2, LookupIs
  <2> QED BY <1>3, <2>3, <2>4
<1>4. CASE Ident[e.key] # n /\ \A f \in E : Ident[f.key] # n
  <2>1. \A f \in E \cup {e} : Ident[f.key] # n BY <1>4
  <2>2. Lookup(E, n) = None BY <1>1, <1>4, LookupIs
  <2>3. Lookup(E \cup {e}, n) = None BY <2>1, LookupIs
  <2> QED BY <1>4, <2>2, <2>3
<1> QED BY <1>2, <1>3, <1>4

LEMMA LookupLess ==
  ASSUME NEW E, Distinct(E), NEW e \in E, NEW n
  PROVE  Lookup(E \ {e}, n) = IF Ident[e.key] = n THEN None ELSE Lookup(E, n)
<1>1. Distinct(E \ {e}) BY DEF Distinct
<1>2. CASE Ident[e.key] = n
  <2>1. \A f \in E \ {e} : Ident[f.key] # n BY <1>2 DEF Distinct, Equal
  <2>2. Lookup(E \ {e}, n) = None BY <1>1, <2>1, LookupIs
  <2> QED BY <1>2, <2>2
<1>3. CASE Ident[e.key] # n
  <2>1. (E \ {e}) \cup {e} = E OBVIOUS
  <2>2. Lookup((E \ {e}) \cup {e}, n) = Lookup(E \ {e}, n)
    <3>1. Distinct((E \ {e}) \cup {e}) BY <2>1
    <3>2. Lookup((E \ {e}) \cup {e}, n) =
            IF Ident[e.key] = n THEN e.value ELSE Lookup(E \ {e}, n)
      BY <3>1, LookupMore
    <3> QED BY <1>3, <3>2
  <2> QED BY <1>3, <2>1, <2>2
<1> QED BY <1>2, <1>3

LEMMA LookupRange ==
  ASSUME NEW E \in SUBSET Entry, Distinct(E), NEW n \in Name
  PROVE  /\ Lookup(E, n) \in Value \cup {None}
         /\ Lookup(E, n) # None <=> \E e \in E : Ident[e.key] = n
<1>1. \A e \in E : e.value \in Value /\ e.value # None BY MapAssumption DEF Entry
<1>2. CASE \E e \in E : Ident[e.key] = n
  <2>1. PICK e \in E : Ident[e.key] = n BY <1>2
  <2>2. Lookup(E, n) = e.value BY <2>1, LookupIs
  <2> QED BY <1>1, <1>2, <2>2
<1>3. CASE \A e \in E : Ident[e.key] # n
  <2>1. Lookup(E, n) = None BY <1>3, LookupIs
  <2> QED BY <1>3, <2>1
<1> QED BY <1>2, <1>3

(* There are as many names with a value as there are entries.              *)
LEMMA NamesAreCounted ==
  ASSUME NEW E \in SUBSET Entry, Distinct(E), IsFiniteSet(E),
         NEW c, c = [n \in Name |-> Lookup(E, n)]
  PROVE  Cardinality({n \in Name : c[n] # None}) = Cardinality(E)
<1> DEFINE P == {n \in Name : c[n] # None}
           f == [e \in E |-> Ident[e.key]]
<1>1. \A e \in E : Ident[e.key] \in Name BY MapAssumption DEF Entry
<1>2. \A n \in Name : n \in P <=> \E e \in E : Ident[e.key] = n BY LookupRange
<1>3. P \subseteq Name OBVIOUS
<1> HIDE DEF P
<1>4. f \in [E -> P] BY <1>1, <1>2
<1>5. \A d, e \in E : f[d] = f[e] => d = e BY DEF Distinct, Equal
<1>6. \A n \in P : \E e \in E : f[e] = n BY <1>2, <1>3
<1> HIDE DEF f
<1>7. f \in Bijection(E, P) BY <1>4, <1>5, <1>6, Fun_IsBij
<1>8. ExistsBijection(E, P) BY <1>7 DEF ExistsBijection
<1>9. Cardinality(P) = Cardinality(E) BY <1>8, FS_Bijection
<1> QED BY <1>9 DEF P

(* KMapGetValue looks in one bucket, and finds what is in any.             *)
ValueIn(bs, n) ==
  IF bs = <<>> \/ ~\E k \in Key : Ident[k] = n THEN None
  ELSE KMapGetValue(bs, CHOOSE k \in Key : Ident[k] = n)

LEMMA ContentIsDistinct ==
  ASSUME NEW bs, WellPlaced(bs)
  PROVE  Distinct(Content(bs)) /\ Content(bs) \in SUBSET Entry
BY ContentDiffers DEF Distinct, Content

LEMMA ValueIs ==
  ASSUME NEW bs, WellPlaced(bs), NEW n \in Name
  PROVE  ValueIn(bs, n) = Lookup(Content(bs), n)
<1>1. Distinct(Content(bs)) /\ Content(bs) \in SUBSET Entry BY ContentIsDistinct
<1>2. CASE bs = <<>>
  <2>1. Content(bs) = {} BY <1>2 DEF Content, HasEntry
  <2>2. Lookup(Content(bs), n) = None BY <1>1, <2>1, LookupIs
  <2> QED BY <1>2, <2>2 DEF ValueIn
<1>3. CASE ~\E k \in Key : Ident[k] = n
  <2>1. \A e \in Content(bs) : Ident[e.key] # n BY <1>1, <1>3 DEF Entry
  <2>2. Lookup(Content(bs), n) = None BY <1>1, <2>1, LookupIs
  <2> QED BY <1>3, <2>2 DEF ValueIn
<1>4. CASE bs # <<>> /\ \E k \in Key : Ident[k] = n
  <2> DEFINE k == CHOOSE k \in Key : Ident[k] = n
  <2>1. k \in Key /\ Ident[k] = n BY <1>4
  <2>2. ValueIn(bs, n) = KMapGetValue(bs, k) BY <1>4 DEF ValueIn
  <2> HIDE DEF k
  <2>3. Len(bs) # 0 BY <1>4, EmptySeq DEF WellPlaced
  <2>4. CASE Matches(bs, k) = {}
    <3>1. \A e \in Content(bs) : Ident[e.key] # n
      BY <2>1, <2>3, <2>4, MatchesAre DEF Equal
    <3>2. Lookup(Content(bs), n) = None BY <1>1, <3>1, LookupIs
    <3> QED BY <2>2, <2>4, <3>2 DEF KMapGetValue
  <2>5. CASE Matches(bs, k) # {}
    <3>1. Found(bs, k) \in Content(bs) /\ Ident[Found(bs, k).key] = n
      BY <2>1, <2>3, <2>5, MatchesAre DEF Equal
    <3>2. Lookup(Content(bs), n) = Found(bs, k).value BY <1>1, <3>1, LookupIs
    <3> QED BY <2>2, <2>5, <3>2 DEF KMapGetValue
  <2> QED BY <2>4, <2>5
<1> QED BY <1>2, <1>3, <1>4

-----------------------------------------------------------------------------
(* The steps of the map.                                                   *)

Enough(r, E) == r \in [Object -> Nat] /\ \A o \in Object : OccursIn(E, o) <= r[o]

MapInv ==
  /\ TypeOK /\ WellPlaced(buckets)
  /\ object_count = Cardinality(Content(buckets))
  /\ Enough(refs, Content(buckets))

(* The references change as the entries do.                                *)
Follows == \A o \in Object : refs'[o] - refs[o] =
             OccursIn(Content(buckets'), o) - OccursIn(Content(buckets), o)

LEMMA FollowsIs ==
  ASSUME MapInv, MapInv', Follows
  PROVE  \A o \in Object : refs'[o] - refs[o] =
           Occurrences(buckets', o) - Occurrences(buckets, o)
<1>1. WellPlaced(buckets) /\ WellPlaced(buckets') BY DEF MapInv
<1>2. \A o : Occurrences(buckets, o) = OccursIn(Content(buckets), o)
  BY <1>1, EntriesAreCounted
<1>3. \A o : Occurrences(buckets', o) = OccursIn(Content(buckets'), o)
  BY <1>1, EntriesAreCounted
<1> QED BY <1>2, <1>3 DEF Follows

LEMMA NotFreed ==
  ASSUME MapInv, ~Freed
  PROVE  Len(buckets) # 0
BY EmptySeq DEF MapInv, WellPlaced, Freed

LEMMA AnswerType ==
  ASSUME NEW k \in Key, NEW ok \in BOOLEAN, NEW call \in {"set", "remove"},
         Answer(call, k, ok)
  PROVE  reply' \in [call : {"new", "set", "remove"}, name : Name \cup {None}, ok : BOOLEAN]
BY MapAssumption DEF Answer

LEMMA MapInvInit == Init => MapInv
<1> SUFFICES ASSUME Init PROVE MapInv OBVIOUS
<1> USE DEF Init
<1>1. InitialBuckets \in Nat BY MapAssumption
<1>2. WellPlaced(buckets) /\ Content(buckets) = {} BY <1>1, EmptyIs
<1>3. Cardinality({}) = 0 BY FS_EmptySet
<1>4. \A o : OccursIn({}, o) = 0
  <2>1. \A o : {e \in {} : e.key = o} = {} /\ {e \in {} : e.value = o} = {} OBVIOUS
  <2> QED BY <1>3, <2>1 DEF OccursIn
<1>5. Enough(refs, Content(buckets)) BY <1>2, <1>4 DEF Enough
<1>6. TypeOK BY <1>2 DEF TypeOK, WellPlaced
<1> QED BY <1>2, <1>3, <1>5, <1>6 DEF MapInv

LEMMA UpdateStep ==
  ASSUME MapInv, ~Freed, NEW k \in Key, NEW v \in Value, Update(k, v)
  PROVE  /\ MapInv' /\ Follows
         /\ \E e \in Content(buckets) : \E f \in Entry :
              /\ Equal(e.key, k) /\ f.key = e.key /\ f.value = v
              /\ Content(buckets') = (Content(buckets) \ {e}) \cup {f}
<1> DEFINE E == Content(buckets)
           e == Found(buckets, k)
           f == [key |-> e.key, value |-> v]
           bs == WithValue(buckets, k, v)
<1>1. WellPlaced(buckets) /\ TypeOK /\ Len(buckets) # 0 /\ Matches(buckets, k) # {}
  BY NotFreed DEF MapInv, Update
<1>2. /\ WellPlaced(bs) /\ Len(bs) = Len(buckets)
      /\ e \in E /\ Equal(e.key, k)
      /\ f \in Entry /\ f \notin E \ {e}
      /\ Content(bs) = (E \ {e}) \cup {f}
  BY <1>1, UpdatedIs DEF WithValue
<1>3. e.value = Found(buckets, k).value /\ f.key = e.key /\ f.value = v OBVIOUS
<1>4. /\ buckets' \in Rehashed(bs, object_count) /\ object_count' = object_count
      /\ refs' = [o \in Object |-> refs[o] + One(o = v) - One(o = e.value)]
      /\ Answer("set", k, TRUE)
  BY DEF Update, SwapValue
<1> HIDE DEF e, f, bs, E
<1>5. object_count \in Nat BY <1>1 DEF TypeOK
<1>6. WellPlaced(buckets') /\ Content(buckets') = (E \ {e}) \cup {f}
  BY <1>1, <1>2, <1>4, <1>5, RehashedIs
<1>7. IsFiniteSet(E) BY <1>1, EntriesAreCounted DEF E
<1>8. IsFiniteSet(E \ {e}) /\ e \notin E \ {e} /\ (E \ {e}) \cup {e} = E
  BY <1>2, <1>7, FS_RemoveElement
<1>9. Cardinality((E \ {e}) \cup {f}) = Cardinality(E)
  <2>1. Cardinality((E \ {e}) \cup {f}) = Cardinality(E \ {e}) + 1
    BY <1>2, <1>8, FS_AddElement
  <2>2. Cardinality((E \ {e}) \cup {e}) = Cardinality(E \ {e}) + 1
    BY <1>8, FS_AddElement
  <2> QED BY <1>8, <2>1, <2>2
<1>10. ASSUME NEW o \in Object
       PROVE  /\ OccursIn(E, o) \in Nat /\ OccursIn(Content(buckets'), o) \in Nat
              /\ OccursIn(Content(buckets'), o) - OccursIn(E, o) =
                   One(o = v) - One(o = e.value)
              /\ One(o = v) \in Nat /\ One(o = e.value) \in Nat
  <2>1. /\ OccursIn(E \ {e}, o) \in Nat
        /\ OccursIn(E, o) = OccursIn(E \ {e}, o) + One(e.key = o) + One(e.value = o)
    BY <1>8, OccursInMore
  <2>2. OccursIn((E \ {e}) \cup {f}, o) =
          OccursIn(E \ {e}, o) + One(f.key = o) + One(f.value = o)
    BY <1>2, <1>8, OccursInMore
  <2>3. /\ One(f.key = o) = One(e.key = o) /\ One(f.value = o) = One(o = v)
        /\ One(e.value = o) = One(o = e.value)
    BY <1>3 DEF One
  <2>4. One(e.key = o) \in Nat /\ One(o = v) \in Nat /\ One(o = e.value) \in Nat
    BY DEF One
  <2>5. OccursIn(Content(buckets'), o) = OccursIn((E \ {e}) \cup {f}, o) BY <1>6
  <2> QED BY <2>1, <2>2, <2>3, <2>4, <2>5
<1>11. \A o \in Object : OccursIn(E, o) <= refs[o] /\ refs[o] \in Nat
  BY DEF MapInv, Enough, E
<1>12. Enough(refs', Content(buckets')) /\ Follows
  <2>1. \A o \in Object : refs'[o] = refs[o] + One(o = v) - One(o = e.value) BY <1>4
  <2>2. \A o \in Object : /\ refs'[o] - refs[o] = OccursIn(Content(buckets'), o) - OccursIn(E, o)
                          /\ OccursIn(Content(buckets'), o) <= refs'[o] /\ refs'[o] \in Nat
    BY <1>10, <1>11, <2>1
  <2> QED BY <1>4, <2>2 DEF Enough, Follows, E
<1>13. TypeOK'
  <2>1. reply' \in [call : {"new", "set", "remove"}, name : Name \cup {None}, ok : BOOLEAN]
    BY <1>4, AnswerType
  <2> QED BY <1>4, <1>5, <1>6, <1>12, <2>1 DEF TypeOK, WellPlaced, Enough
<1>14. object_count' = Cardinality(Content(buckets'))
  BY <1>4, <1>6, <1>9 DEF MapInv, E
<1>15. MapInv' BY <1>6, <1>12, <1>13, <1>14 DEF MapInv
<1> QED BY <1>2, <1>3, <1>6, <1>12, <1>15 DEF E

LEMMA InsertStep ==
  ASSUME MapInv, ~Freed, NEW k \in Key, NEW v \in Value, Insert(k, v)
  PROVE  /\ MapInv' /\ Follows
         /\ Content(buckets') = Content(buckets) \cup {[key |-> k, value |-> v]}
<1> DEFINE E == Content(buckets)
           e == [key |-> k, value |-> v]
           bs == WithValue(buckets, k, v)
<1>1. WellPlaced(buckets) /\ TypeOK /\ Len(buckets) # 0 /\ Matches(buckets, k) = {}
  BY NotFreed DEF MapInv, Insert
<1>2. /\ WellPlaced(bs) /\ Len(bs) = Len(buckets)
      /\ e \in Entry /\ e \notin E
      /\ Content(bs) = E \cup {e}
  BY <1>1, AddedIs DEF WithValue
<1>3. e.key = k /\ e.value = v OBVIOUS
<1>4. /\ buckets' \in Rehashed(bs, object_count + 1) /\ object_count' = object_count + 1
      /\ refs' = [o \in Object |-> refs[o] + One(o = k) + One(o = v)]
      /\ Answer("set", k, TRUE)
  BY DEF Insert
<1> HIDE DEF e, bs, E
<1>5. object_count \in Nat /\ object_count + 1 \in Nat BY <1>1 DEF TypeOK
<1>6. WellPlaced(buckets') /\ Content(buckets') = E \cup {e}
  BY <1>1, <1>2, <1>4, <1>5, RehashedIs
<1>7. IsFiniteSet(E) BY <1>1, EntriesAreCounted DEF E
<1>8. ASSUME NEW o \in Object
      PROVE  /\ OccursIn(E, o) \in Nat /\ OccursIn(Content(buckets'), o) \in Nat
             /\ OccursIn(Content(buckets'), o) - OccursIn(E, o) = One(o = k) + One(o = v)
             /\ One(o = k) \in Nat /\ One(o = v) \in Nat
  <2>1. /\ OccursIn(E, o) \in Nat
        /\ OccursIn(E \cup {e}, o) = OccursIn(E, o) + One(e.key = o) + One(e.value = o)
    BY <1>2, <1>7, OccursInMore
  <2>2. \A x : One(x = o) \in Nat /\ One(o = x) = One(x = o) BY DEF One
  <2> QED BY <1>3, <1>6, <2>1, <2>2
<1>9. \A o \in Object : OccursIn(E, o) <= refs[o] /\ refs[o] \in Nat
  BY DEF MapInv, Enough, E
<1>10. Enough(refs', Content(buckets')) /\ Follows
  <2>1. \A o \in Object : refs'[o] = refs[o] + One(o = k) + One(o = v) BY <1>4
  <2>2. \A o \in Object : /\ refs'[o] - refs[o] = OccursIn(Content(buckets'), o) - OccursIn(E, o)
                          /\ OccursIn(Content(buckets'), o) <= refs'[o] /\ refs'[o] \in Nat
    BY <1>8, <1>9, <2>1
  <2> QED BY <1>4, <2>2 DEF Enough, Follows, E
<1>11. TypeOK'
  <2>1. reply' \in [call : {"new", "set", "remove"}, name : Name \cup {None}, ok : BOOLEAN]
    BY <1>4, AnswerType
  <2> QED BY <1>4, <1>5, <1>6, <1>10, <2>1 DEF TypeOK, WellPlaced, Enough
<1>12. object_count' = Cardinality(Content(buckets'))
  BY <1>2, <1>4, <1>6, <1>7, FS_AddElement DEF MapInv, E
<1>13. MapInv' BY <1>6, <1>10, <1>11, <1>12 DEF MapInv
<1> QED BY <1>6, <1>10, <1>13 DEF E, e

LEMMA RemoveStep ==
  ASSUME MapInv, ~Freed, NEW k \in Key, RemoveEntry(k)
  PROVE  /\ MapInv'
         /\ \E e \in Content(buckets) :
              /\ Equal(e.key, k)
              /\ Content(buckets') = Content(buckets) \ {e}
<1> DEFINE E == Content(buckets)
           e == Found(buckets, k)
<1>1. WellPlaced(buckets) /\ TypeOK /\ Len(buckets) # 0 /\ Matches(buckets, k) # {}
  BY NotFreed DEF MapInv, RemoveEntry
<1>2. /\ buckets' = [buckets EXCEPT ![Index(buckets, k)] = RemoveAt(@, First(buckets, k))]
      /\ object_count' = object_count - 1 /\ refs' = refs
      /\ Answer("remove", k, TRUE)
  BY DEF RemoveEntry, CountRemoved
<1>3. /\ WellPlaced(buckets') /\ e \in E /\ Equal(e.key, k)
      /\ Content(buckets') = E \ {e}
  BY <1>1, <1>2, RemovedIs
<1> HIDE DEF e, E
<1>4. IsFiniteSet(E) BY <1>1, EntriesAreCounted DEF E
<1>5. IsFiniteSet(E \ {e}) /\ e \notin E \ {e} /\ (E \ {e}) \cup {e} = E
  BY <1>3, <1>4, FS_RemoveElement
<1>6. Cardinality(E) = Cardinality(E \ {e}) + 1 /\ Cardinality(E \ {e}) \in Nat
  <2>1. Cardinality(E \ {e}) \in Nat BY <1>5, FS_CardinalityType
  <2>2. Cardinality((E \ {e}) \cup {e}) = Cardinality(E \ {e}) + 1
    BY <1>5, FS_AddElement
  <2> QED BY <1>5, <2>1, <2>2
<1>7. object_count' = Cardinality(Content(buckets')) /\ object_count' \in Nat
  <2>1. object_count = Cardinality(E) BY DEF MapInv, E
  <2>2. object_count' = Cardinality(E \ {e}) BY <1>2, <1>6, <2>1
  <2> QED BY <1>3, <1>6, <2>2
<1>8. ASSUME NEW o \in Object PROVE OccursIn(E \ {e}, o) <= refs[o]
  <2>1. /\ OccursIn(E \ {e}, o) \in Nat
        /\ OccursIn((E \ {e}) \cup {e}, o) =
             OccursIn(E \ {e}, o) + One(e.key = o) + One(e.value = o)
    BY <1>5, OccursInMore
  <2>2. One(e.key = o) \in Nat /\ One(e.value = o) \in Nat BY DEF One
  <2>3. OccursIn((E \ {e}) \cup {e}, o) <= refs[o] /\ refs[o] \in Nat
    BY <1>5 DEF MapInv, Enough, E
  <2> QED BY <2>1, <2>2, <2>3
<1>9. Enough(refs', Content(buckets')) BY <1>2, <1>3, <1>8 DEF MapInv, Enough
<1>10. TypeOK'
  <2>1. reply' \in [call : {"new", "set", "remove"}, name : Name \cup {None}, ok : BOOLEAN]
    BY <1>2, AnswerType
  <2> QED BY <1>3, <1>7, <1>9, <2>1 DEF TypeOK, WellPlaced, Enough
<1>11. MapInv' BY <1>3, <1>7, <1>9, <1>10 DEF MapInv
<1> QED BY <1>3, <1>11 DEF E

LEMMA DeInitStep ==
  ASSUME MapInv, KMapDeInit
  PROVE  MapInv' /\ Follows /\ Content(buckets') = {}
<1>1. WellPlaced(buckets) /\ TypeOK BY DEF MapInv
<1>2. /\ buckets' = <<>> /\ object_count' = 0 /\ reply' = reply
      /\ refs' = [o \in Object |-> refs[o] - Occurrences(buckets, o)]
  BY DEF KMapDeInit
<1>3. WellPlaced(buckets') /\ Content(buckets') = {}
  BY <1>2 DEF WellPlaced, Content, HasEntry
<1>4. Cardinality({}) = 0 BY FS_EmptySet
<1>5. \A o : OccursIn({}, o) = 0
  <2>1. \A o : {e \in {} : e.key = o} = {} /\ {e \in {} : e.value = o} = {} OBVIOUS
  <2> QED BY <1>4, <2>1 DEF OccursIn
<1>6. \A o : Occurrences(buckets, o) = OccursIn(Content(buckets), o)
  BY <1>1, EntriesAreCounted
<1>7. \A o \in Object : OccursIn(Content(buckets), o) \in Nat
  <2>1. IsFiniteSet(Content(buckets)) BY <1>1, EntriesAreCounted
  <2>2. \A X : X \in SUBSET Content(buckets) => Cardinality(X) \in Nat
    BY <2>1, FS_Subset, FS_CardinalityType
  <2> QED BY <2>2 DEF OccursIn
<1>8. \A o \in Object : OccursIn(Content(buckets), o) <= refs[o] /\ refs[o] \in Nat
  BY DEF MapInv, Enough
<1>9. \A o \in Object : refs'[o] = refs[o] - OccursIn(Content(buckets), o) BY <1>2, <1>6
<1>10. Enough(refs', Content(buckets')) /\ Follows
  <2>1. \A o \in Object : refs'[o] \in Nat BY <1>7, <1>8, <1>9
  <2>2. \A o \in Object : OccursIn(Content(buckets'), o) = 0 BY <1>3, <1>5
  <2>3. \A o \in Object : OccursIn(Content(buckets'), o) <= refs'[o] BY <2>1, <2>2
  <2>4. \A o \in Object : refs'[o] - refs[o] =
          OccursIn(Content(buckets'), o) - OccursIn(Content(buckets), o)
    BY <1>7, <1>8, <1>9, <2>2
  <2> QED BY <1>2, <2>1, <2>3, <2>4 DEF Enough, Follows
<1>11. TypeOK' BY <1>1, <1>2, <1>3, <1>10 DEF TypeOK, WellPlaced, Enough
<1>12. MapInv' BY <1>2, <1>3, <1>4, <1>10, <1>11 DEF MapInv
<1> QED BY <1>3, <1>10, <1>12

LEMMA MapStays ==
  ASSUME MapInv, UNCHANGED <<buckets, object_count, refs>>,
         reply' = reply \/ \E k \in Key : \E ok \in BOOLEAN :
                             \E call \in {"set", "remove"} : Answer(call, k, ok)
  PROVE  MapInv' /\ Follows
<1>1. reply' \in [call : {"new", "set", "remove"}, name : Name \cup {None}, ok : BOOLEAN]
  BY AnswerType DEF MapInv, TypeOK
<1>2. MapInv' BY <1>1 DEF MapInv, TypeOK, Enough
<1>3. Follows
  <2>1. \A o \in Object : refs[o] \in Nat BY DEF MapInv, Enough
  <2>2. \A o \in Object : OccursIn(Content(buckets), o) \in Nat
    <3>1. WellPlaced(buckets) BY DEF MapInv
    <3>2. IsFiniteSet(Content(buckets)) BY <3>1, EntriesAreCounted
    <3>3. \A X : X \in SUBSET Content(buckets) => Cardinality(X) \in Nat
      BY <3>2, FS_Subset, FS_CardinalityType
    <3> QED BY <3>3 DEF OccursIn
  <2> QED BY <2>1, <2>2 DEF Follows
<1> QED BY <1>2, <1>3

LEMMA MapInvStep ==
  ASSUME MapInv, Next
  PROVE  MapInv' /\ ((~Freed /\ \E k \in Key : RemoveEntry(k)) \/ Follows)
<1>1. ASSUME ~Freed, NEW k \in Key, NEW v \in Value, Update(k, v) \/ Insert(k, v)
      PROVE  MapInv' /\ Follows
  BY <1>1, UpdateStep, InsertStep
<1>2. ASSUME NEW k \in Key, InsertFails(k) \/ RemoveNothing(k) PROVE MapInv' /\ Follows
  BY <1>2, MapStays DEF InsertFails, RemoveNothing
<1>3. ASSUME ~Freed, NEW k \in Key, RemoveEntry(k) PROVE MapInv'
  BY <1>3, RemoveStep
<1>4. CASE KMapDeInit BY <1>4, DeInitStep
<1>5. CASE UNCHANGED vars BY <1>5, MapStays DEF vars
<1> QED BY <1>1, <1>2, <1>3, <1>4, <1>5 DEF Next

LEMMA MapCounts ==
  ASSUME MapInv
  PROVE  RehashAssertion
<1> DEFINE s == Entries(buckets)
<1>1. WellPlaced(buckets) /\ object_count = Cardinality(Content(buckets))
  BY DEF MapInv
<1>2. object_count = Len(s) BY <1>1, EntriesAreCounted
<1>3. Listed(s, buckets, Len(buckets)) BY <1>1, EntriesAre
<1>4. DOMAIN s = 1 .. Len(s) BY <1>3, LenProperties DEF Listed
<1> HIDE DEF s
<1>5. \A i, j \in DOMAIN s : Equal(s[i].key, s[j].key) => i = j
  BY <1>3, <1>4 DEF Listed
<1> QED BY <1>2, <1>5 DEF RehashAssertion, s

(* The map is the dictionary of its entries.                               *)
Told(bs) == [n \in Name |-> Lookup(Content(bs), n)]

LEMMA ToldIs ==
  ASSUME NEW bs, WellPlaced(bs)
  PROVE  /\ [n \in Name |-> ValueIn(bs, n)] = Told(bs)
         /\ Cardinality(Content(bs)) = Map!Cardinality(Map!Present(Told(bs)))
<1>1. Distinct(Content(bs)) /\ Content(bs) \in SUBSET Entry BY ContentIsDistinct
<1>2. IsFiniteSet(Content(bs)) BY EntriesAreCounted
<1>3. Told(bs) = [n \in Name |-> Lookup(Content(bs), n)] BY DEF Told
<1>4. Cardinality({n \in Name : Told(bs)[n] # None}) = Cardinality(Content(bs))
  BY <1>1, <1>2, <1>3, NamesAreCounted
<1>5. \A S : Map!Cardinality(S) = Cardinality(S) BY DEF Map!Cardinality, Cardinality
<1> QED BY <1>3, <1>4, <1>5, ValueIs DEF Map!Present

LEMMA MapTold ==
  ASSUME MapInv, MapInv'
  PROVE  /\ [n \in Name |-> Contents(n)] = Told(buckets)
         /\ [n \in Name |-> Contents(n)]' = Told(buckets')
         /\ object_count' = Map!Cardinality(Map!Present(Told(buckets')))
<1>1. /\ WellPlaced(buckets) /\ WellPlaced(buckets')
      /\ object_count' = Cardinality(Content(buckets'))
  BY DEF MapInv
<1>2. \A n \in Name : Contents(n) = ValueIn(buckets, n) BY DEF Contents, ValueIn, Freed
<1>3. [n \in Name |-> Contents(n)]' = [n \in Name |-> ValueIn(buckets', n)]
  BY DEF Contents, ValueIn, Freed
<1> QED BY <1>1, <1>2, <1>3, ToldIs

LEMMA MapSteps ==
  ASSUME MapInv, Next
  PROVE  [Map!Next]_Map!vars
<1>1. MapInv' BY MapInvStep
<1> DEFINE E == Content(buckets)
           F == Content(buckets')
           c == Told(buckets)
           d == Told(buckets')
<1>2. /\ [n \in Name |-> Contents(n)] = c
      /\ [n \in Name |-> Contents(n)]' = d
      /\ object_count' = Map!Cardinality(Map!Present(d))
  BY <1>1, MapTold
<1>3. /\ c = [n \in Name |-> Lookup(E, n)] /\ d = [n \in Name |-> Lookup(F, n)]
      /\ E = F => c = d
  BY DEF Told
<1>4. /\ Distinct(E) /\ Distinct(F) /\ E \in SUBSET Entry /\ F \in SUBSET Entry
  BY <1>1, ContentIsDistinct DEF MapInv
<1>5. WellPlaced(buckets) BY DEF MapInv
<1> HIDE DEF E, F, c, d
<1>6. \A k \in Key : Ident[k] \in Name BY MapAssumption
<1>7. ASSUME ~Freed, NEW k \in Key, NEW v \in Value, Update(k, v)
      PROVE  Map!Set(Ident[k], v)
  <2>1. PICK e \in E, f \in Entry : /\ Equal(e.key, k) /\ f.key = e.key /\ f.value = v
                                    /\ F = (E \ {e}) \cup {f}
    BY <1>7, UpdateStep DEF E, F
  <2>2. \A n : Lookup(F, n) = IF Ident[k] = n THEN v ELSE Lookup(E \ {e}, n)
    BY <1>4, <2>1, LookupMore DEF Equal
  <2>3. \A n : Lookup(E \ {e}, n) = IF Ident[k] = n THEN None ELSE Lookup(E, n)
    BY <1>4, <2>1, LookupLess DEF Equal
  <2>4. d = [c EXCEPT ![Ident[k]] = v] BY <1>3, <1>6, <2>2, <2>3
  <2> QED BY <1>2, <1>7, <2>4 DEF Map!Set, Map!Change, Update, Answer
<1>8. ASSUME ~Freed, NEW k \in Key, NEW v \in Value, Insert(k, v)
      PROVE  Map!Set(Ident[k], v)
  <2> DEFINE e == [key |-> k, value |-> v]
  <2>1. F = E \cup {e} /\ e.key = k /\ e.value = v BY <1>8, InsertStep DEF E, F
  <2> HIDE DEF e
  <2>2. \A n : Lookup(F, n) = IF Ident[k] = n THEN v ELSE Lookup(E, n)
    BY <1>4, <2>1, LookupMore
  <2>3. d = [c EXCEPT ![Ident[k]] = v] BY <1>3, <1>6, <2>2
  <2> QED BY <1>2, <1>8, <2>3 DEF Map!Set, Map!Change, Insert, Answer
<1>9. ASSUME NEW k \in Key, InsertFails(k) PROVE Map!SetRefused(Ident[k])
  <2>1. c = d BY <1>3, <1>9 DEF InsertFails, E, F
  <2> QED BY <1>2, <1>9, <2>1 DEF Map!SetRefused, InsertFails, Answer
<1>10. ASSUME ~Freed, NEW k \in Key, RemoveEntry(k) PROVE Map!Remove(Ident[k])
  <2>1. PICK e \in E : Equal(e.key, k) /\ F = E \ {e}
    BY <1>10, RemoveStep DEF E, F
  <2>2. \A n : Lookup(F, n) = IF Ident[k] = n THEN None ELSE Lookup(E, n)
    BY <1>4, <2>1, LookupLess DEF Equal
  <2>3. d = [c EXCEPT ![Ident[k]] = None] BY <1>3, <1>6, <2>2
  <2>4. c[Ident[k]] # None BY <1>3, <1>4, <1>6, <2>1, LookupRange DEF Equal
  <2>5. (c[Ident[k]] # None) = TRUE BY <2>4
  <2> QED BY <1>2, <1>10, <2>3, <2>5 DEF Map!Remove, Map!Change, RemoveEntry, Answer
<1>11. ASSUME ~Freed, NEW k \in Key, RemoveNothing(k) PROVE Map!Remove(Ident[k])
  <2>1. E = F /\ Matches(buckets, k) = {} BY <1>11 DEF RemoveNothing, E, F
  <2>2. \A e \in E : Ident[e.key] # Ident[k]
    BY <1>5, <1>11, <2>1, NotFreed, MatchesAre DEF Equal, E
  <2>3. c[Ident[k]] = None BY <1>3, <1>4, <1>6, <2>2, LookupIs
  <2>4. d = [c EXCEPT ![Ident[k]] = None] BY <1>3, <2>1, <2>3
  <2>5. (c[Ident[k]] # None) = FALSE BY <2>3
  <2>6. reply' = [call |-> "remove", name |-> Ident[k], ok |-> c[Ident[k]] # None]
    BY <1>11, <2>5 DEF RemoveNothing, Answer
  <2> QED BY <1>2, <2>4, <2>6 DEF Map!Remove, Map!Change
<1>12. CASE KMapDeInit
  <2>1. F = {} BY <1>12, DeInitStep DEF F
  <2>2. \A n : Lookup(F, n) = None BY <1>4, <2>1, LookupIs
  <2>3. d = [n \in Name |-> None] BY <1>3, <2>2
  <2> QED BY <1>2, <1>12, <2>3 DEF Map!Clear, Map!Change, KMapDeInit, Map!Next
<1>13. CASE UNCHANGED vars
  <2>1. c = d BY <1>3, <1>13 DEF vars, E, F
  <2> QED BY <1>2, <1>13, <2>1 DEF vars, Map!vars
<1> QED BY <1>6, <1>7, <1>8, <1>9, <1>10, <1>11, <1>12, <1>13 DEF Next, Map!Next

LEMMA MapStarts ==
  ASSUME Init
  PROVE  Map!Init
<1>1. MapInv BY MapInvInit
<1>2. InitialBuckets \in Nat BY MapAssumption
<1>3. WellPlaced(buckets) /\ Content(buckets) = {} BY <1>2, EmptyIs DEF Init
<1>4. \A n \in Name : Contents(n) = ValueIn(buckets, n) BY DEF Contents, ValueIn, Freed
<1>5. Distinct({}) BY DEF Distinct
<1>6. \A n : Lookup({}, n) = None BY <1>5, LookupIs
<1>7. \A n \in Name : Contents(n) = None BY <1>3, <1>4, <1>6, ValueIs
<1> QED BY <1>7 DEF Init, Map!Init

-----------------------------------------------------------------------------
(* One collection at a time.                                               *)

CollectionsInv == ListInv /\ ArrayInv /\ ArrayFits /\ MapInv

LEMMA ListKeeps ==
  ASSUME ListInv, [MCNext]_<<collection, vars, listVars, arrayVars>>
  PROVE  ListInv' /\ [L!Abstract!Next]_L!Abstract!vars
<1>1. CASE L!Next BY <1>1, ListInvStep, ListSteps
<1>2. CASE UNCHANGED listVars
  <2>1. ListInv' /\ ListSeq' = ListSeq BY <1>2, ListStays DEF listVars
  <2> QED BY <1>2, <2>1 DEF listVars, L!Abstract!vars, ListSeq
<1> QED BY <1>1, <1>2 DEF MCNext

LEMMA ArrayKeeps ==
  ASSUME ArrayInv, ArrayFits, [MCNext]_<<collection, vars, listVars, arrayVars>>
  PROVE  ArrayInv' /\ ArrayFits' /\ [A!Abstract!Next]_A!Abstract!vars
<1>1. CASE A!Next BY <1>1, ArrayInvStep, ArrayFitsStep, ArraySteps
<1>2. CASE UNCHANGED arrayVars
  BY <1>2 DEF arrayVars, A!Abstract!vars, ArrayInv, ArrayFits, A!TypeOK, HeldByArray,
    ArraySeq
<1> QED BY <1>1, <1>2 DEF MCNext

LEMMA MapKeeps ==
  ASSUME MapInv, [MCNext]_<<collection, vars, listVars, arrayVars>>
  PROVE  /\ MapInv' /\ [Map!Next]_Map!vars
         /\ \/ ~Freed /\ \E k \in Key : RemoveEntry(k)
            \/ Follows
<1>1. CASE Next BY <1>1, MapInvStep, MapSteps
<1>2. CASE UNCHANGED vars
  <2>1. MapInv' /\ Follows BY <1>2, MapStays DEF vars
  <2>2. [n \in Name |-> Contents(n)]' = [n \in Name |-> Contents(n)]
    BY <1>2 DEF vars, Contents, Freed, KMapGetValue, Matches, Found, First, Index
  <2> QED BY <1>2, <2>1, <2>2 DEF vars, Map!vars
<1> QED BY <1>1, <1>2 DEF MCNext

LEMMA CollectionsInvariant == MCSpec => []CollectionsInv
<1>1. MCInit => CollectionsInv
  <2> SUFFICES ASSUME MCInit PROVE CollectionsInv OBVIOUS
  <2>1. ListInv /\ ArrayInv BY ListInvInit, ArrayInvInit DEF MCInit
  <2>2. ArrayFits BY ArrayConstants DEF MCInit, A!Init, A!KAllocationNew, ArrayFits
  <2>3. MapInv BY MapInvInit DEF MCInit
  <2> QED BY <2>1, <2>2, <2>3 DEF CollectionsInv
<1>2. CollectionsInv /\ [MCNext]_<<collection, vars, listVars, arrayVars>>
        => CollectionsInv'
  BY ListKeeps, ArrayKeeps, MapKeeps DEF CollectionsInv
<1> QED BY <1>1, <1>2, PTL DEF MCSpec

(* The entries of the list that are linked are those in use, both ways and *)
(* as many as count says: the assertions of KListRemoveObjectAtIndex and   *)
(* KListDeInit hold, no entry is leaked and no freed one is followed.      *)
THEOREM ListIsLinked == MCSpec => []WellLinked
<1>1. CollectionsInv => WellLinked
  BY ListIsWellLinked DEF CollectionsInv, WellLinked
<1> QED BY <1>1, CollectionsInvariant, PTL

(* KListAddObject, KListRemoveObjectAtIndex and KListRemoveAllObjects work *)
(* on the pointers as the calls of the same name do on a sequence, and     *)
(* take and give up one reference for each place of an object in it.       *)
THEOREM ListIsAnObjectList == MCSpec => ListImplementsObjectList
<1>1. MCInit => L!Abstract!Init
  <2> SUFFICES ASSUME MCInit PROVE L!Abstract!Init OBVIOUS
  <2>1. L!Init BY DEF MCInit
  <2>2. Links(<<>>, root, next, prev, item, allocated, count)
    BY <2>1 DEF L!Init, Links, Path, OneToOne
  <2>3. L!Chain = <<>> BY <2>2, LinkedIsChain DEF Linked
  <2>4. [n \in DOMAIN L!Chain |-> item[L!Chain[n]]] = <<>> BY <2>3
  <2> QED BY <2>1, <2>4 DEF L!Init, L!Abstract!Init
<1>2. CollectionsInv /\ [MCNext]_<<collection, vars, listVars, arrayVars>>
        => [L!Abstract!Next]_L!Abstract!vars
  BY ListKeeps DEF CollectionsInv
<1> QED BY <1>1, <1>2, CollectionsInvariant, PTL
        DEF MCSpec, ListImplementsObjectList, L!ImplementsObjectList, L!Abstract!Spec

(* The smear by shifts of KAllocationNextPowerOfTwoSize gives the power of *)
(* two that is asked for, at every width up to 32 bits, and so no call of  *)
(* KArray writes or moves an object outside of what realloc has given it.  *)
THEOREM ArrayIsInBounds == MCSpec => []InBounds
<1>1. CollectionsInv => InBounds
  <2> SUFFICES ASSUME CollectionsInv PROVE A!InBounds BY DEF InBounds
  <2>1. A!NextPowerOfTwo BY SizesAreRounded DEF A!NextPowerOfTwo
  <2>2. length * RefSize <= items.bytes BY DEF CollectionsInv, ArrayFits
  <2> QED BY <2>1, <2>2 DEF A!InBounds
<1> QED BY <1>1, CollectionsInvariant, PTL

(* KArray's calls, on slots that are shifted when one is taken out, work   *)
(* as on a sequence, and take and give up one reference for each place of  *)
(* an object in it, whatever realloc answers.                              *)
THEOREM ArrayIsAnObjectList == MCSpec => ArrayImplementsObjectList
<1>1. MCInit => A!Abstract!Init
  BY DEF MCInit, A!Init, A!Abstract!Init
<1>2. CollectionsInv /\ [MCNext]_<<collection, vars, listVars, arrayVars>>
        => [A!Abstract!Next]_A!Abstract!vars
  BY ArrayKeeps DEF CollectionsInv
<1> QED BY <1>1, <1>2, CollectionsInvariant, PTL
        DEF MCSpec, ArrayImplementsObjectList, A!ImplementsObjectList, A!Abstract!Spec

(* The variables of the three collections keep their types.                *)
THEOREM CollectionsTypeCorrect == MCSpec => []MCTypeOK
<1>1. CollectionsInv => MCTypeOK
  BY DEF CollectionsInv, MapInv, ListInv, ArrayInv, MCTypeOK
<1> QED BY <1>1, CollectionsInvariant, PTL

(* The assertion of KMapRehashIfNecessary: the entries have different      *)
(* keys, and object_count is their number, so that setting them one by one *)
(* in a new map gives a map of the same count; whatever the hashes, and    *)
(* however many rehashes have failed before.                               *)
THEOREM MapCountIsRight == MCSpec => []RehashAssertion
<1>1. CollectionsInv => RehashAssertion BY MapCounts DEF CollectionsInv
<1> QED BY <1>1, CollectionsInvariant, PTL

(* KMapSetValue and the end of the map take and give back exactly the      *)
(* references on what they put into entries and take out of them, also     *)
(* when a rehash moves the entries: an object in an entry stays alive.     *)
THEOREM ReferencesAreKept == MCSpec => ReferencesFollowEntries
<1>1. CollectionsInv /\ CollectionsInv'
        /\ [MCNext]_<<collection, vars, listVars, arrayVars>>
        => [\/ ~Freed /\ \E k \in Key : RemoveEntry(k)
            \/ \A o \in Object : refs'[o] - refs[o] =
                 Occurrences(buckets', o) - Occurrences(buckets, o)]_vars
  BY MapKeeps, FollowsIs DEF CollectionsInv
<1> QED BY <1>1, CollectionsInvariant, PTL DEF MCSpec, ReferencesFollowEntries

(* KMap is a dictionary for any keys, values, hash and first size: what    *)
(* KMapGetValue finds in the one bucket it searches is what was set last   *)
(* under an equal key, through updates, removals, rehashes and failures.   *)
THEOREM MapIsADictionary == MCSpec => ImplementsDictionary
<1>1. MCInit => Map!Init BY MapStarts DEF MCInit
<1>2. CollectionsInv /\ [MCNext]_<<collection, vars, listVars, arrayVars>>
        => [Map!Next]_Map!vars
  BY MapKeeps DEF CollectionsInv
<1> QED BY <1>1, <1>2, CollectionsInvariant, PTL
        DEF MCSpec, ImplementsDictionary, Map!Spec
=============================================================================
