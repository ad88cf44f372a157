--------------------------- MODULE KFilePathProofs ---------------------------
(***************************************************************************)
(* The loop of KFilePathNewWithString cuts every string, of any length, at *)
(* its separators.  The invariant says what is left to do: everything      *)
(* before start has been dealt with, and what lies between start and i is  *)
(* a name that has begun.                                                  *)
(*                                                                         *)
(* What the path of a text is follows the way the text is put together:    *)
(* the names of a sum of texts are those of the one and then those of the  *)
(* other, unless a name goes on from one into the other.  The loop that    *)
(* writes a path and KFilePathAddComponent are sums of this kind.          *)
(***************************************************************************)
EXTENDS KFilePath, FiniteSetTheorems, SequenceTheorems, FunctionTheorems,
        WellFoundedInduction, TLAPS

(* The components end before the one that has begun.                       *)
Behind == parsing => \A n \in DOMAIN components : components[n].to <= start

(* A name begins after a separator, and holds none up to now.              *)
Begun ==
  parsing => /\ start > 0 => SeparatorAt(start - 1)
             /\ \A p \in start .. i - 1 : ~SeparatorAt(p)

In(n, p) == components[n].from <= p /\ p < components[n].to

Covered ==
  \A p \in 0 .. (IF parsing THEN start ELSE Len(str)) - 1 :
    SeparatorAt(p) \/ \E n \in DOMAIN components : In(n, p)

Absolute == is_absolute <=> i > 0 /\ SeparatorAt(0)

ParserInv ==
  /\ TypeOK /\ NoEmptyComponent /\ WholeNames /\ InOrder
  /\ Behind /\ Begun /\ Covered /\ Absolute /\ (~parsing => i = Len(str))

USE ParserAssumption

LEMMA InitParserInv == Init => ParserInv
<1> SUFFICES ASSUME Init PROVE ParserInv OBVIOUS
<1> USE DEF Init
<1>1. str \in Seq(Char) /\ Len(str) \in Nat OBVIOUS
<1>2. components = <<>> /\ DOMAIN components = {} /\ components \in Seq(Stretch)
  <2>1. components = <<>> OBVIOUS
  <2>2. components \in Seq(Stretch) BY <2>1
  <2>3. Len(components) = 0 /\ DOMAIN components = 1 .. Len(components)
    BY <2>1, <2>2
  <2> QED BY <2>1, <2>2, <2>3
<1>3. TypeOK
  <2>1. i \in 0 .. Len(str) /\ start \in 0 .. i BY <1>1
  <2>2. is_absolute \in BOOLEAN /\ parsing \in BOOLEAN OBVIOUS
  <2> QED BY <1>1, <1>2, <2>1, <2>2 DEF TypeOK
<1>4. NoEmptyComponent /\ WholeNames /\ InOrder
  BY <1>2 DEF NoEmptyComponent, WholeNames, InOrder
<1>5. Behind BY <1>2 DEF Behind
<1>6. Begun /\ Covered /\ Absolute BY DEF Begun, Covered, Absolute
<1> QED BY <1>3, <1>4, <1>5, <1>6 DEF ParserInv

(* Adding the stretch from start to end, where it is a whole name.         *)
LEMMA AddStretchKeeps ==
  ASSUME ParserInv, parsing, NEW end \in i .. Len(str), end = i,
         UNCHANGED str, AddStretch(end),
         end < Len(str) => SeparatorAt(end)
  PROVE  /\ components' \in Seq(Stretch)
         /\ NoEmptyComponent' /\ WholeNames' /\ InOrder'
         /\ \A n \in DOMAIN components' : components'[n].to <= end
         /\ \A p \in 0 .. end - 1 :
              SeparatorAt(p) \/ \E n \in DOMAIN components' : In(n, p)'
<1> USE DEF ParserInv, TypeOK, SeparatorAt
<1>1. CASE end > start
  <2> DEFINE new == [from |-> start, to |-> end]
  <2>1. new \in Stretch /\ components' = Append(components, new)
    BY <1>1 DEF Stretch, AddStretch
  <2>2. /\ components' \in Seq(Stretch) /\ Len(components') = Len(components) + 1
        /\ \A n \in 1 .. Len(components) : components'[n] = components[n]
        /\ components'[Len(components) + 1] = new
    BY <2>1
  <2>3. \A n \in DOMAIN components' :
          n \in DOMAIN components \/ n = Len(components) + 1
    BY <2>2
  <2>4. \A n \in DOMAIN components :
          /\ n \in DOMAIN components' /\ components'[n] = components[n]
          /\ components[n].from \in Nat /\ components[n].to \in Nat
          /\ n < Len(components) + 1
    <3> SUFFICES ASSUME NEW n \in DOMAIN components
                 PROVE  /\ n \in DOMAIN components' /\ components'[n] = components[n]
                        /\ components[n].from \in Nat /\ components[n].to \in Nat
                        /\ n < Len(components) + 1
      OBVIOUS
    <3>1. components \in Seq(Stretch) /\ Len(components) \in Nat
          /\ n \in 1 .. Len(components)
      OBVIOUS
    <3>2. components[n] \in Stretch BY <3>1
    <3>3. components[n].from \in Nat /\ components[n].to \in Nat
      BY <3>2 DEF Stretch
    <3> QED BY <2>2, <3>1, <3>3
  <2>5. new.from = start /\ new.to = end OBVIOUS
  <2> HIDE DEF new
  <2>6. NoEmptyComponent'
    BY <1>1, <2>2, <2>3, <2>4, <2>5 DEF NoEmptyComponent, Begun
  <2>7. WholeNames'
    BY <1>1, <2>2, <2>3, <2>4, <2>5 DEF WholeNames, Begun
  <2>8. InOrder'
    BY <1>1, <2>2, <2>3, <2>4, <2>5 DEF InOrder, Behind
  <2>9. \A n \in DOMAIN components' : components'[n].to <= end
    BY <1>1, <2>2, <2>3, <2>4, <2>5 DEF Behind
  <2>10. ASSUME NEW p \in 0 .. end - 1
         PROVE  SeparatorAt(p) \/ \E n \in DOMAIN components' : In(n, p)'
    <3> USE DEF In
    <3>1. CASE p < start
      <4>1. p \in 0 .. start - 1 BY <3>1
      <4>2. SeparatorAt(p) \/ \E n \in DOMAIN components : In(n, p)
        BY <4>1 DEF Covered
      <4> QED BY <2>4, <4>2
    <3>2. CASE p >= start
      <4>1. Len(components) + 1 \in DOMAIN components'
        <5>1. Len(components) \in Nat /\ Len(components') \in Nat
              /\ DOMAIN components' = 1 .. Len(components')
          BY <2>2
        <5> QED BY <2>2, <5>1
      <4>2. /\ components'[Len(components) + 1].from <= p
            /\ p < components'[Len(components) + 1].to
        BY <2>2, <2>5, <3>2
      <4> QED BY <4>1, <4>2
    <3> QED BY <3>1, <3>2
  <2> QED BY <2>2, <2>6, <2>7, <2>8, <2>9, <2>10
<1>2. CASE ~(end > start)
  <2>1. components' = components /\ end = start
    BY <1>2 DEF AddStretch
  <2>2. NoEmptyComponent' /\ WholeNames' /\ InOrder'
    BY <2>1 DEF NoEmptyComponent, WholeNames, InOrder
  <2>3. \A n \in DOMAIN components' : components'[n].to <= end
    BY <2>1 DEF Behind
  <2>4. \A p \in 0 .. end - 1 :
          SeparatorAt(p) \/ \E n \in DOMAIN components' : In(n, p)'
    BY <2>1 DEF Covered, In
  <2> QED BY <2>1, <2>2, <2>3, <2>4
<1> QED BY <1>1, <1>2

LEMMA NextParserInv ==
  ASSUME ParserInv, Next
  PROVE  ParserInv'
<1> USE DEF ParserInv, TypeOK
<1>1. CASE Advance
  <2>1. /\ parsing /\ i < Len(str) /\ ~SeparatorAt(i) /\ i' = i + 1
        /\ UNCHANGED <<str, start, components, is_absolute, parsing>>
    BY <1>1 DEF Advance
  <2>2. TypeOK' BY <2>1
  <2>3. NoEmptyComponent' /\ WholeNames' /\ InOrder' /\ Behind' /\ Covered'
    BY <2>1 DEF NoEmptyComponent, WholeNames, InOrder, Behind, Covered, In, SeparatorAt
  <2>4. Begun' BY <2>1 DEF Begun, SeparatorAt
  <2>5. Absolute' BY <2>1 DEF Absolute, SeparatorAt
  <2> QED BY <2>1, <2>2, <2>3, <2>4, <2>5
<1>2. CASE Split
  <2>1. /\ parsing /\ i < Len(str) /\ SeparatorAt(i) /\ i' = i + 1
        /\ is_absolute' = (is_absolute \/ i = 0) /\ AddStretch(i)
        /\ start' = i + 1 /\ UNCHANGED <<str, parsing>>
    BY <1>2 DEF Split, StartAfterSeparator
  <2>2. /\ components' \in Seq(Stretch)
        /\ NoEmptyComponent' /\ WholeNames' /\ InOrder'
        /\ \A n \in DOMAIN components' : components'[n].to <= i
        /\ \A p \in 0 .. i - 1 :
             SeparatorAt(p) \/ \E n \in DOMAIN components' : In(n, p)'
    BY <2>1, AddStretchKeeps
  <2>3. TypeOK' BY <2>1, <2>2
  <2>4. Behind'
    <3> SUFFICES ASSUME NEW n \in DOMAIN components' PROVE components'[n].to <= i + 1
      BY <2>1 DEF Behind
    <3>1. components'[n] \in Stretch BY <2>2
    <3>2. components'[n].to \in Nat BY <3>1 DEF Stretch
    <3> QED BY <2>2, <3>2
  <2>5. Begun' BY <2>1 DEF Begun, SeparatorAt
  <2>6. Covered'
    <3> SUFFICES ASSUME NEW p \in 0 .. i
                 PROVE  SeparatorAt(p)' \/ \E n \in DOMAIN components' : In(n, p)'
      BY <2>1 DEF Covered
    <3>1. SeparatorAt(p)' = SeparatorAt(p) BY <2>1 DEF SeparatorAt
    <3>2. CASE p = i BY <2>1, <3>1, <3>2
    <3>3. CASE p # i BY <2>1, <2>2, <3>1, <3>3
    <3> QED BY <3>2, <3>3
  <2>7. Absolute'
    <3>1. i' > 0 /\ SeparatorAt(0)' = SeparatorAt(0) BY <2>1 DEF SeparatorAt
    <3>2. is_absolute' <=> is_absolute \/ i = 0 BY <2>1
    <3>3. i = 0 => SeparatorAt(0) BY <2>1
    <3>4. i > 0 => (is_absolute <=> SeparatorAt(0)) BY DEF Absolute
    <3>5. i = 0 \/ i > 0 BY <2>1
    <3>6. is_absolute' <=> SeparatorAt(0)
      BY <3>2, <3>3, <3>4, <3>5 DEF Absolute
    <3> QED BY <3>1, <3>6 DEF Absolute
  <2> QED BY <2>1, <2>2, <2>3, <2>4, <2>5, <2>6, <2>7
<1>3. CASE Return
  <2>1. /\ parsing /\ i = Len(str) /\ AddStretch(i) /\ parsing' = FALSE
        /\ UNCHANGED <<str, i, start, is_absolute>>
    BY <1>3 DEF Return, AddTheRest
  <2>2. /\ components' \in Seq(Stretch)
        /\ NoEmptyComponent' /\ WholeNames' /\ InOrder'
        /\ \A p \in 0 .. i - 1 :
             SeparatorAt(p) \/ \E n \in DOMAIN components' : In(n, p)'
    BY <2>1, AddStretchKeeps
  <2>3. TypeOK' BY <2>1, <2>2
  <2>4. Behind' /\ Begun' BY <2>1 DEF Behind, Begun
  <2>5. Covered'
    BY <2>1, <2>2 DEF Covered, SeparatorAt
  <2>6. Absolute' BY <2>1 DEF Absolute, SeparatorAt
  <2> QED BY <2>1, <2>2, <2>3, <2>4, <2>5, <2>6
<1>4. CASE UNCHANGED vars
  BY <1>4 DEF vars, NoEmptyComponent, WholeNames, InOrder, Behind, Begun,
    Covered, In, Absolute, SeparatorAt
<1> QED BY <1>1, <1>2, <1>3, <1>4 DEF Next, Returned

LEMMA ParserInvariant == Spec => []ParserInv
<1>1. ParserInv /\ UNCHANGED vars => ParserInv'
  BY DEF ParserInv, TypeOK, vars, NoEmptyComponent, WholeNames, InOrder, Behind,
    Begun, Covered, In, Absolute, SeparatorAt
<1>2. ParserInv /\ [Next]_vars => ParserInv'
  BY <1>1, NextParserInv
<1> QED BY InitParserInv, <1>2, PTL DEF Spec

(* The cursors of the loop stay inside the string.                         *)
THEOREM ParserTypeCorrect == Spec => []TypeOK
<1>1. ParserInv => TypeOK BY DEF ParserInv
<1> QED BY ParserInvariant, <1>1, PTL

(* KFilePathNewWithString cuts every string at its separators: the path    *)
(* has each of its names, whole, in order, and nothing else.               *)
THEOREM ParserIsCorrect == Spec => []PathOfTheString
<1>1. ParserInv => PathOfTheString
  <2> SUFFICES ASSUME ParserInv PROVE PathOfTheString OBVIOUS
  <2>1. NothingForgotten
    BY DEF ParserInv, Covered, In, NothingForgotten
  <2>2. AbsoluteFromFirstByte
    BY DEF ParserInv, Absolute, TypeOK, AbsoluteFromFirstByte
  <2> QED BY <2>1, <2>2 DEF ParserInv, PathOfTheString
<1> QED BY ParserInvariant, <1>1, PTL

-----------------------------------------------------------------------------
(* The names of a text, as a sequence of stretches.  Every text has one    *)
(* such sequence; the parser computes it, and PathOf is read off from it.  *)

Cut(text, c) ==
  /\ c \in Seq(Stretch)
  /\ \A n \in 1 .. Len(c) :
       /\ c[n].from < c[n].to /\ c[n].to <= Len(text)
       /\ IsName(text, c[n].from + 1, c[n].to)
  /\ \A m, n \in 1 .. Len(c) : m < n => c[m].from < c[n].from
  /\ \A f, t \in 1 .. Len(text) :
       IsName(text, f, t) => \E n \in 1 .. Len(c) : c[n].from + 1 = f /\ c[n].to = t

LEMMA LeastNumber ==
  ASSUME NEW S \in SUBSET Nat, S # {}
  PROVE  \E n \in S : \A m \in S : n <= m
<1>1. PICK n \in S : \A m \in S : <<m, n>> \notin OpToRel(<, Nat)
  BY NatLessThanWellFounded, WFMin
<1>2. \A m \in S : ~(m < n)
  BY <1>1 DEF OpToRel
<1> QED BY <1>2

LEMMA CutIs ==
  ASSUME NEW c \in Seq(Stretch)
  PROVE  /\ Len(c) \in Nat /\ DOMAIN c = 1 .. Len(c)
         /\ \A n \in 1 .. Len(c) : /\ c[n] \in Stretch
                                   /\ c[n].from \in Nat /\ c[n].to \in Nat
<1>1. Len(c) \in Nat /\ DOMAIN c = 1 .. Len(c) BY LenProperties
<1>2. \A n \in 1 .. Len(c) : c[n] \in Stretch BY ElementOfSeq
<1> QED BY <1>1, <1>2 DEF Stretch

LEMMA UptoIs ==
  ASSUME NEW k \in Nat
  PROVE  IsFiniteSet(1 .. k) /\ Cardinality(1 .. k) = k
BY FS_Interval

(* Two names that begin at one place are one.                              *)
LEMMA NamesDiffer ==
  ASSUME NEW text \in Seq(Char), NEW f \in 1 .. Len(text),
         NEW t \in 1 .. Len(text), NEW u \in 1 .. Len(text),
         IsName(text, f, t), IsName(text, f, u)
  PROVE  t = u
<1>1. Len(text) \in Nat BY LenProperties
<1>2. CASE t < u
  <2>1. t + 1 \in f .. u /\ t # Len(text) BY <1>1, <1>2 DEF IsName
  <2> QED BY <2>1 DEF IsName
<1>3. CASE u < t
  <2>1. u + 1 \in f .. t /\ u # Len(text) BY <1>1, <1>3 DEF IsName
  <2> QED BY <2>1 DEF IsName
<1> QED BY <1>1, <1>2, <1>3

(* PathOf counts the names as the sequence does.                           *)
LEMMA CutIsPath ==
  ASSUME NEW text \in Seq(Char), NEW c, Cut(text, c)
  PROVE  PathOf(text).components =
           [n \in 1 .. Len(c) |-> SubSeq(text, c[n].from + 1, c[n].to)]
<1> DEFINE g == [n \in 1 .. Len(c) |-> <<c[n].from + 1, c[n].to>>]
           N == Names(text)
           Upto(x) == {y \in N : y[1] <= x[1]}
<1>1. /\ Len(text) \in Nat /\ DOMAIN text = 1 .. Len(text)
      /\ Len(c) \in Nat /\ \A n \in 1 .. Len(c) : c[n].from \in Nat /\ c[n].to \in Nat
  BY LenProperties, CutIs DEF Cut
<1>2. \A n \in 1 .. Len(c) :
        /\ c[n].from + 1 \in 1 .. Len(text) /\ c[n].to \in 1 .. Len(text)
        /\ IsName(text, c[n].from + 1, c[n].to)
  BY <1>1 DEF Cut
<1>3. \A n \in 1 .. Len(c) : /\ g[n] = <<c[n].from + 1, c[n].to>>
                             /\ g[n][1] = c[n].from + 1 /\ g[n][2] = c[n].to
  OBVIOUS
<1>4. \A n \in 1 .. Len(c) : g[n] \in N BY <1>1, <1>2, <1>3 DEF Names
<1>5. \A x \in N : \E n \in 1 .. Len(c) : g[n] = x
  <2> SUFFICES ASSUME NEW x \in N PROVE \E n \in 1 .. Len(c) : g[n] = x OBVIOUS
  <2>1. PICK f, t : /\ f \in 1 .. Len(text) /\ t \in 1 .. Len(text) /\ x = <<f, t>>
                    /\ IsName(text, f, t)
    BY <1>1 DEF Names
  <2>2. PICK n \in 1 .. Len(c) : c[n].from + 1 = f /\ c[n].to = t BY <2>1 DEF Cut
  <2> QED BY <1>3, <2>1, <2>2
<1>6. \A m, n \in 1 .. Len(c) : m < n => g[m][1] < g[n][1]
  BY <1>1, <1>3 DEF Cut
<1>7. g \in [1 .. Len(c) -> N] BY <1>4
<1>8. \A n \in 1 .. Len(c) : g[n][1] \in Nat BY <1>1, <1>3
<1> HIDE DEF g, N
<1>9. \A m, n \in 1 .. Len(c) : g[m] = g[n] => m = n BY <1>1, <1>6, <1>8
<1>10. IsFiniteSet(N) /\ Cardinality(N) = Len(c)
  <2>1. g \in Bijection(1 .. Len(c), N) BY <1>5, <1>7, <1>9, Fun_IsBij
  <2>2. ExistsBijection(1 .. Len(c), N) BY <2>1 DEF ExistsBijection
  <2>3. IsFiniteSet(1 .. Len(c)) /\ Cardinality(1 .. Len(c)) = Len(c)
    BY <1>1, UptoIs
  <2> QED BY <2>2, <2>3, FS_Bijection
<1>11. ASSUME NEW n \in 1 .. Len(c) PROVE Cardinality(Upto(g[n])) = n
  <2> DEFINE h == [m \in 1 .. n |-> g[m]]
  <2>1. n \in Nat /\ \A m \in 1 .. n : m \in 1 .. Len(c) /\ m <= n BY <1>1
  <2>2. \A m \in 1 .. Len(c) : g[m][1] <= g[n][1] <=> m \in 1 .. n
    BY <1>1, <1>6, <1>8
  <2>3. \A m \in 1 .. n : h[m] = g[m] /\ h[m] \in Upto(g[n]) BY <1>4, <2>1, <2>2
  <2>4. \A x \in Upto(g[n]) : \E m \in 1 .. n : h[m] = x BY <1>5, <2>2
  <2>5. h \in [1 .. n -> Upto(g[n])] BY <2>3
  <2>6. \A l, m \in 1 .. n : h[l] = h[m] => l = m BY <1>9, <2>1, <2>3
  <2> HIDE DEF h, Upto
  <2>7. h \in Bijection(1 .. n, Upto(g[n])) BY <2>4, <2>5, <2>6, Fun_IsBij
  <2>8. ExistsBijection(1 .. n, Upto(g[n])) BY <2>7 DEF ExistsBijection
  <2>9. IsFiniteSet(1 .. n) /\ Cardinality(1 .. n) = n BY <2>1, UptoIs
  <2> QED BY <2>8, <2>9, FS_Bijection
<1>12. ASSUME NEW n \in 1 .. Len(c) PROVE NthName(text, n) = g[n]
  <2>1. NthName(text, n) = CHOOSE x \in N : Cardinality(Upto(x)) = n
    BY DEF NthName, N
  <2>2. g[n] \in N /\ Cardinality(Upto(g[n])) = n BY <1>4, <1>11
  <2>3. ASSUME NEW x \in N, Cardinality(Upto(x)) = n PROVE x = g[n]
    <3>1. PICK m \in 1 .. Len(c) : g[m] = x BY <1>5
    <3>2. Cardinality(Upto(x)) = m BY <1>11, <3>1
    <3> QED BY <2>3, <3>1, <3>2
  <2> HIDE DEF Upto
  <2> QED BY <2>1, <2>2, <2>3
<1>13. PathOf(text).components =
         [n \in 1 .. Len(c) |-> SubSeq(text, NthName(text, n)[1], NthName(text, n)[2])]
  BY <1>10 DEF PathOf, Path, N
<1>14. \A n \in 1 .. Len(c) :
         /\ NthName(text, n)[1] = c[n].from + 1
         /\ NthName(text, n)[2] = c[n].to
  BY <1>3, <1>12
<1> QED BY <1>13, <1>14

(* KFilePathNewWithString has cut the string.                              *)
LEMMA ParserCuts ==
  ASSUME ParserInv, ~parsing
  PROVE  Cut(str, components)
<1>1. /\ str \in Seq(Char) /\ components \in Seq(Stretch)
      /\ NoEmptyComponent /\ WholeNames /\ InOrder
  BY DEF ParserInv, TypeOK
<1>2. /\ Len(components) \in Nat /\ DOMAIN components = 1 .. Len(components)
      /\ \A n \in 1 .. Len(components) :
           components[n].from \in Nat /\ components[n].to \in Nat
  BY <1>1, CutIs
<1>3. Len(str) \in Nat BY <1>1, LenProperties
<1>4. ASSUME NEW n \in 1 .. Len(components)
      PROVE  /\ components[n].from < components[n].to
             /\ components[n].to <= Len(str)
             /\ IsName(str, components[n].from + 1, components[n].to)
  <2> DEFINE f == components[n].from
             t == components[n].to
  <2>1. /\ f \in Nat /\ t \in Nat /\ f < t /\ t <= Len(str)
        /\ \A p \in f .. t - 1 : str[p + 1] \notin Separator
        /\ f > 0 => str[f] \in Separator
        /\ t < Len(str) => str[t + 1] \in Separator
    <3>1. f > 0 => str[f - 1 + 1] \in Separator
      BY <1>1, <1>2 DEF WholeNames, SeparatorAt
    <3>2. f - 1 + 1 = f BY <1>2
    <3> QED BY <1>1, <1>2, <3>1, <3>2 DEF NoEmptyComponent, WholeNames, SeparatorAt
  <2> HIDE DEF f, t
  <2>2. ASSUME NEW p \in f + 1 .. t PROVE str[p] \notin Separator
    <3>1. p - 1 \in f .. t - 1 /\ p - 1 + 1 = p BY <2>1
    <3>2. str[p - 1 + 1] \notin Separator BY <2>1, <3>1
    <3> QED BY <3>1, <3>2
  <2>3. f + 1 = 1 \/ str[f + 1 - 1] \in Separator
    <3>1. f + 1 - 1 = f BY <2>1
    <3> QED BY <2>1, <3>1
  <2>4. f + 1 <= t BY <2>1
  <2>5. t = Len(str) \/ str[t + 1] \in Separator BY <1>3, <2>1
  <2>6. IsName(str, f + 1, t)
    <3>1. \A p \in f + 1 .. t : str[p] \notin Separator BY <2>2
    <3> DEFINE g == f + 1
    <3>2. /\ g <= t /\ \A p \in g .. t : str[p] \notin Separator
          /\ g = 1 \/ str[g - 1] \in Separator
          /\ t = Len(str) \/ str[t + 1] \in Separator
      BY <2>1, <2>3, <2>4, <2>5, <3>1
    <3> HIDE DEF g
    <3>3. IsName(str, g, t) BY <3>2 DEF IsName
    <3> QED BY <3>3 DEF g
  <2> QED BY <2>1, <2>6 DEF f, t
<1>5. \A m, n \in 1 .. Len(components) : m < n => components[m].from < components[n].from
  <2> SUFFICES ASSUME NEW m \in 1 .. Len(components), NEW n \in 1 .. Len(components),
                      m < n
               PROVE  components[m].from < components[n].from
    OBVIOUS
  <2>1. components[m].to <= components[n].from BY <1>1, <1>2 DEF InOrder
  <2>2. components[m].from < components[m].to BY <1>4
  <2> QED BY <1>2, <2>1, <2>2
<1>6. ASSUME NEW f \in 1 .. Len(str), NEW t \in 1 .. Len(str), IsName(str, f, t)
      PROVE  \E n \in 1 .. Len(components) :
               components[n].from + 1 = f /\ components[n].to = t
  <2>1. f - 1 \in 0 .. Len(str) - 1 /\ f - 1 + 1 = f BY <1>3
  <2>2. ~SeparatorAt(f - 1)
    <3>1. f \in f .. t BY <1>3, <1>6 DEF IsName
    <3> QED BY <1>6, <2>1, <3>1 DEF IsName, SeparatorAt
  <2>3. PICK n \in 1 .. Len(components) : In(n, f - 1)
    <3>1. \A p \in 0 .. Len(str) - 1 :
            SeparatorAt(p) \/ \E n \in DOMAIN components : In(n, p)
      BY DEF ParserInv, Covered
    <3> QED BY <1>2, <2>1, <2>2, <3>1
  <2> DEFINE u == components[n].from
             v == components[n].to
  <2>4. /\ u \in Nat /\ v \in 1 .. Len(str) /\ u <= f - 1 /\ f - 1 < v
        /\ IsName(str, u + 1, v)
    <3>1. u <= f - 1 /\ f - 1 < v BY <2>3 DEF In
    <3>2. u \in Nat /\ v \in Nat /\ v <= Len(str) /\ IsName(str, u + 1, v)
      BY <1>2, <1>4
    <3> QED BY <1>3, <3>1, <3>2
  <2> HIDE DEF u, v
  <2>5. u + 1 = f
    <3>1. SUFFICES ASSUME u + 1 < f PROVE FALSE BY <2>4
    <3>2. f # 1 /\ f - 1 \in u + 1 .. v BY <1>3, <2>4, <3>1
    <3>3. str[f - 1] \in Separator BY <1>6, <3>2 DEF IsName
    <3>4. str[f - 1] \notin Separator BY <2>4, <3>2 DEF IsName
    <3> QED BY <3>3, <3>4
  <2>6. v = t BY <1>1, <1>6, <2>4, <2>5, NamesDiffer
  <2> QED BY <2>5, <2>6 DEF u, v
<1> QED BY <1>1, <1>4, <1>5, <1>6 DEF Cut

(***************************************************************************)
(* The names of a \o b, where no name of a goes on in b: those of a, and   *)
(* after them those of b.                                                  *)
(***************************************************************************)
Apart(a, b) ==
  a = <<>> \/ b = <<>> \/ a[Len(a)] \in Separator \/ b[1] \in Separator

LEMMA SumIs ==
  ASSUME NEW a \in Seq(Char), NEW b \in Seq(Char)
  PROVE  /\ a \o b \in Seq(Char)
         /\ Len(a) \in Nat /\ Len(b) \in Nat /\ Len(a \o b) = Len(a) + Len(b)
         /\ \A p \in 1 .. Len(a) : (a \o b)[p] = a[p]
         /\ \A p \in 1 .. Len(b) : (a \o b)[p + Len(a)] = b[p]
         /\ (a = <<>> <=> Len(a) = 0) /\ (b = <<>> <=> Len(b) = 0)
<1>1. Len(a) \in Nat /\ Len(b) \in Nat BY LenProperties
<1>2. /\ a \o b \in Seq(Char) /\ Len(a \o b) = Len(a) + Len(b)
      /\ \A p \in 1 .. Len(a) + Len(b) :
           (a \o b)[p] = IF p <= Len(a) THEN a[p] ELSE b[p - Len(a)]
  BY ConcatProperties
<1>3. \A p \in 1 .. Len(a) : (a \o b)[p] = a[p] BY <1>1, <1>2
<1>4. ASSUME NEW p \in 1 .. Len(b) PROVE (a \o b)[p + Len(a)] = b[p]
  <2>1. /\ p + Len(a) \in 1 .. Len(a) + Len(b) /\ ~(p + Len(a) <= Len(a))
        /\ p + Len(a) - Len(a) = p
    BY <1>1
  <2> QED BY <1>2, <2>1
<1>5. (a = <<>> <=> Len(a) = 0) /\ (b = <<>> <=> Len(b) = 0) BY EmptySeq
<1> QED BY <1>1, <1>2, <1>3, <1>4, <1>5

LEMMA NamesOfSum ==
  ASSUME NEW a \in Seq(Char), NEW b \in Seq(Char), Apart(a, b),
         NEW f \in 1 .. Len(a \o b), NEW t \in 1 .. Len(a \o b)
  PROVE  /\ t <= Len(a) => (IsName(a \o b, f, t) <=> IsName(a, f, t))
         /\ f > Len(a) => (IsName(a \o b, f, t) <=> IsName(b, f - Len(a), t - Len(a)))
         /\ f <= Len(a) /\ t > Len(a) => ~IsName(a \o b, f, t)
<1> DEFINE s == a \o b
           k == Len(a)
           l == Len(b)
<1>1. /\ k \in Nat /\ l \in Nat /\ Len(s) = k + l
      /\ \A p \in 1 .. k : s[p] = a[p]
      /\ \A p \in 1 .. l : s[p + k] = b[p]
      /\ k = 0 \/ l = 0 \/ s[k] \in Separator \/ s[k + 1] \in Separator
  <2>1. /\ k \in Nat /\ l \in Nat /\ Len(s) = k + l
        /\ \A p \in 1 .. k : s[p] = a[p]
        /\ \A p \in 1 .. l : s[p + k] = b[p]
        /\ (a = <<>> <=> k = 0) /\ (b = <<>> <=> l = 0)
    BY SumIs
  <2>2. k # 0 => s[k] = a[k] BY <2>1
  <2>3. l # 0 => s[1 + k] = b[1] BY <2>1
  <2> QED BY <2>1, <2>2, <2>3 DEF Apart
<1>2. f \in 1 .. k + l /\ t \in 1 .. k + l BY <1>1
<1> HIDE DEF s, k, l
<1>3. ASSUME t <= k PROVE IsName(s, f, t) <=> IsName(a, f, t)
  <2>1. CASE f > t BY <1>1, <1>2, <1>3, <2>1 DEF IsName
  <2>2. CASE f <= t
    <3>1. \A p \in f .. t : s[p] = a[p] BY <1>1, <1>2, <1>3
    <3>2. f # 1 => s[f - 1] = a[f - 1] BY <1>1, <1>2, <1>3, <2>2
    <3>3. t \in f .. t BY <1>2, <2>2
    <3>4. CASE t < k
      <4>1. s[t + 1] = a[t + 1] /\ t # k /\ t # k + l BY <1>1, <1>2, <3>4
      <4> QED BY <1>1, <3>1, <3>2, <4>1 DEF IsName, k
    <3>5. CASE t = k
      <4>1. CASE l = 0 BY <1>1, <3>1, <3>2, <3>5, <4>1 DEF IsName, k
      <4>2. CASE s[k] \in Separator BY <3>1, <3>3, <3>5, <4>2 DEF IsName
      <4>3. CASE s[k + 1] \in Separator
        BY <1>1, <3>1, <3>2, <3>5, <4>3 DEF IsName, k
      <4> QED BY <1>1, <1>2, <3>5, <4>1, <4>2, <4>3
    <3> QED BY <1>1, <1>2, <1>3, <3>4, <3>5
  <2> QED BY <1>1, <1>2, <2>1, <2>2
<1>4. ASSUME f > k PROVE IsName(s, f, t) <=> IsName(b, f - k, t - k)
  <2>1. CASE f > t BY <1>1, <1>2, <1>4, <2>1 DEF IsName
  <2>2. CASE f <= t
    <3> DEFINE g == f - k
               u == t - k
    <3>1. g \in 1 .. l /\ u \in 1 .. l /\ f = g + k /\ t = u + k /\ g <= u
      BY <1>1, <1>2, <1>4, <2>2
    <3> HIDE DEF g, u
    <3>2. \A p \in g .. u : p + k \in f .. t /\ s[p + k] = b[p] BY <1>1, <3>1
    <3>3. \A p \in f .. t : p - k \in g .. u /\ s[p] = b[p - k]
      <4> SUFFICES ASSUME NEW p \in f .. t PROVE p - k \in g .. u /\ s[p] = b[p - k]
        OBVIOUS
      <4>1. p - k \in g .. u /\ p - k + k = p BY <1>1, <3>1
      <4> QED BY <3>2, <4>1
    <3>4. (\A p \in f .. t : s[p] \notin Separator)
            <=> (\A p \in g .. u : b[p] \notin Separator)
      BY <3>2, <3>3
    <3>5. ASSUME \A p \in f .. t : s[p] \notin Separator
          PROVE  (f = 1 \/ s[f - 1] \in Separator) <=> (g = 1 \/ b[g - 1] \in Separator)
      <4>1. CASE g # 1
        <5>1. g - 1 \in 1 .. l /\ g - 1 + k = f - 1 /\ f # 1 BY <1>1, <3>1, <4>1
        <5>2. s[f - 1] = b[g - 1] BY <1>1, <5>1
        <5> QED BY <1>1, <1>2, <3>1, <4>1, <5>1, <5>2
      <4>2. CASE g = 1
        <5>1. f = k + 1 /\ f - 1 = k /\ l # 0 /\ f \in f .. t BY <1>1, <1>2, <2>2, <3>1, <4>2
        <5>2. s[f] \notin Separator BY <3>5, <5>1
        <5>3. k = 0 \/ s[k] \in Separator BY <1>1, <5>1, <5>2
        <5>4. CASE k = 0
          <6>1. f = 1 BY <5>1, <5>4
          <6> QED BY <4>2, <6>1
        <5>5. CASE s[k] \in Separator
          <6>1. s[f - 1] \in Separator BY <5>1, <5>5
          <6> QED BY <4>2, <6>1
        <5> QED BY <5>3, <5>4, <5>5
      <4> QED BY <4>1, <4>2
    <3>6. (t = Len(s) \/ s[t + 1] \in Separator) <=> (u = l \/ b[u + 1] \in Separator)
      <4>1. CASE u = l BY <1>1, <3>1, <4>1
      <4>2. CASE u # l
        <5>1. u + 1 \in 1 .. l /\ u + 1 + k = t + 1 /\ t # k + l BY <1>1, <3>1, <4>2
        <5>2. s[t + 1] = b[u + 1] BY <1>1, <5>1
        <5> QED BY <1>1, <4>2, <5>1, <5>2
      <4> QED BY <4>1, <4>2
    <3>7. IsName(s, f, t) <=> IsName(b, g, u)
      BY <2>2, <3>1, <3>4, <3>5, <3>6 DEF IsName, l
    <3> QED BY <3>7 DEF g, u
  <2> QED BY <1>1, <1>2, <2>1, <2>2
<1>5. ASSUME f <= k, t > k PROVE ~IsName(s, f, t)
  <2>1. k \in f .. t /\ k + 1 \in f .. t /\ k # 0 /\ l # 0 BY <1>1, <1>2, <1>5
  <2>2. s[k] \in Separator \/ s[k + 1] \in Separator BY <1>1, <2>1
  <2> QED BY <2>1, <2>2 DEF IsName
<1> QED BY <1>3, <1>4, <1>5 DEF s, k

LEMMA SumOfCuts ==
  ASSUME NEW a \in Seq(Char), NEW b \in Seq(Char), Apart(a, b),
         NEW c, Cut(a, c), NEW d, Cut(b, d)
  PROVE  \E e : /\ Cut(a \o b, e) /\ Len(e) = Len(c) + Len(d)
                /\ \A n \in 1 .. Len(c) : e[n] = c[n]
                /\ \A n \in 1 .. Len(d) : /\ e[n + Len(c)].from = d[n].from + Len(a)
                                          /\ e[n + Len(c)].to = d[n].to + Len(a)
<1> DEFINE s == a \o b
           k == Len(a)
           l == Len(b)
           x == Len(c)
           y == Len(d)
           Shifted(n) == [from |-> d[n - x].from + k, to |-> d[n - x].to + k]
           e == [n \in 1 .. x + y |-> IF n <= x THEN c[n] ELSE Shifted(n)]
<1>1. /\ s \in Seq(Char) /\ k \in Nat /\ l \in Nat /\ Len(s) = k + l
  BY SumIs
<1>2. /\ x \in Nat /\ y \in Nat
      /\ \A n \in 1 .. x : c[n] \in Stretch /\ c[n].from \in Nat /\ c[n].to \in Nat
      /\ \A n \in 1 .. y : d[n] \in Stretch /\ d[n].from \in Nat /\ d[n].to \in Nat
  BY CutIs DEF Cut
<1>3. \A n \in 1 .. x : /\ c[n].from < c[n].to /\ c[n].to <= k
                        /\ IsName(a, c[n].from + 1, c[n].to)
  BY DEF Cut
<1>4. \A n \in 1 .. y : /\ d[n].from < d[n].to /\ d[n].to <= l
                        /\ IsName(b, d[n].from + 1, d[n].to)
  BY DEF Cut
<1>5. \A n \in 1 .. x : e[n] = c[n] BY <1>2
<1>6. ASSUME NEW n \in 1 .. y
      PROVE  /\ n + x \in 1 .. x + y
             /\ e[n + x].from = d[n].from + k /\ e[n + x].to = d[n].to + k
             /\ e[n + x] \in Stretch
  <2>1. n + x \in 1 .. x + y /\ ~(n + x <= x) /\ n + x - x = n BY <1>2
  <2>2. e[n + x] = [from |-> d[n].from + k, to |-> d[n].to + k] BY <2>1
  <2>3. d[n].from + k \in Nat /\ d[n].to + k \in Nat BY <1>1, <1>2
  <2> QED BY <2>1, <2>2, <2>3 DEF Stretch
<1>7. \A n \in 1 .. x + y : n \in 1 .. x \/ \E m \in 1 .. y : n = m + x
  <2> SUFFICES ASSUME NEW n \in 1 .. x + y, n \notin 1 .. x
               PROVE  \E m \in 1 .. y : n = m + x
    OBVIOUS
  <2>1. n - x \in 1 .. y /\ n = n - x + x BY <1>2
  <2> QED BY <2>1
<1>8. e \in Seq(Stretch) /\ Len(e) = x + y
  <2>1. \A n \in 1 .. x + y : e[n] \in Stretch BY <1>2, <1>5, <1>6, <1>7
  <2>2. e \in [1 .. x + y -> Stretch] BY <2>1
  <2>3. x + y \in Nat /\ DOMAIN e = 1 .. x + y BY <1>2
  <2> HIDE DEF e
  <2>4. e \in Seq(Stretch) BY <2>2, <2>3
  <2>5. Len(e) \in Nat /\ DOMAIN e = 1 .. Len(e) BY <2>4, LenProperties
  <2> QED BY <2>3, <2>4, <2>5
<1>9. \A f, t \in 1 .. k + l :
        /\ t <= k => (IsName(s, f, t) <=> IsName(a, f, t))
        /\ f > k => (IsName(s, f, t) <=> IsName(b, f - k, t - k))
        /\ f <= k /\ t > k => ~IsName(s, f, t)
  BY <1>1, NamesOfSum
<1> HIDE DEF e, s, k, l, x, y
<1>10. ASSUME NEW n \in 1 .. x
       PROVE  /\ e[n].from < e[n].to /\ e[n].to <= k
              /\ IsName(s, e[n].from + 1, e[n].to)
  <2> DEFINE f == c[n].from + 1
             t == c[n].to
  <2>1. /\ f \in 1 .. k + l /\ t \in 1 .. k + l /\ t <= k /\ IsName(a, f, t)
    BY <1>1, <1>2, <1>3
  <2> HIDE DEF f, t
  <2>2. IsName(s, f, t) BY <1>9, <2>1
  <2> QED BY <1>3, <1>5, <2>2 DEF f, t
<1>11. ASSUME NEW n \in 1 .. y
       PROVE  /\ k <= e[n + x].from /\ e[n + x].from < e[n + x].to /\ e[n + x].to <= k + l
              /\ IsName(s, e[n + x].from + 1, e[n + x].to)
  <2> DEFINE f == e[n + x].from + 1
             t == e[n + x].to
  <2>1. /\ d[n].from \in Nat /\ d[n].to \in Nat /\ d[n].from < d[n].to /\ d[n].to <= l
        /\ e[n + x].from = d[n].from + k /\ t = d[n].to + k
        /\ IsName(b, d[n].from + 1, d[n].to)
    BY <1>2, <1>4, <1>6
  <2>2. /\ f \in 1 .. k + l /\ t \in 1 .. k + l /\ f > k
        /\ f - k = d[n].from + 1 /\ t - k = d[n].to
        /\ k <= e[n + x].from /\ e[n + x].from < t /\ t <= k + l
    <3> DEFINE g == e[n + x].from
               p == d[n].from
               q == d[n].to
    <3>1. /\ p \in Nat /\ q \in Nat /\ p < q /\ q <= l /\ g = p + k /\ t = q + k
      BY <2>1
    <3>2. f = g + 1 OBVIOUS
    <3> HIDE DEF f, g, p, q, t
    <3>3. /\ f \in 1 .. k + l /\ t \in 1 .. k + l /\ f > k
          /\ f - k = p + 1 /\ t - k = q
          /\ k <= g /\ g < t /\ t <= k + l
      BY <1>1, <3>1, <3>2
    <3> QED BY <3>3 DEF g, p, q
  <2>3. IsName(b, f - k, t - k) BY <2>1, <2>2
  <2> HIDE DEF f, t
  <2>4. IsName(s, f, t) BY <1>9, <2>2, <2>3
  <2> QED BY <2>2, <2>4 DEF f, t
<1>12. \A n \in 1 .. x + y : /\ e[n].from < e[n].to /\ e[n].to <= k + l
                             /\ IsName(s, e[n].from + 1, e[n].to)
  <2>1. \A n \in 1 .. x : e[n].to <= k + l BY <1>1, <1>2, <1>5, <1>10
  <2> QED BY <1>7, <1>10, <1>11, <2>1
<1>13. \A m, n \in 1 .. x + y : m < n => e[m].from < e[n].from
  <2> SUFFICES ASSUME NEW m \in 1 .. x + y, NEW n \in 1 .. x + y, m < n
               PROVE  e[m].from < e[n].from
    OBVIOUS
  <2>1. \A p, q \in 1 .. x : p < q => c[p].from < c[q].from BY DEF Cut, x
  <2>2. \A p, q \in 1 .. y : p < q => d[p].from < d[q].from BY DEF Cut, y
  <2>3. CASE n \in 1 .. x
    <3>1. m \in 1 .. x BY <1>2, <2>3
    <3> QED BY <1>5, <2>1, <2>3, <3>1
  <2>4. CASE n \notin 1 .. x
    <3>1. PICK q \in 1 .. y : n = q + x BY <1>7, <2>4
    <3>2. CASE m \in 1 .. x
      <4>1. e[m].from \in Nat /\ e[m].to \in Nat BY <1>2, <1>5, <3>2
      <4>2. e[n].from \in Nat
        <5>1. e[n].from = d[q].from + k /\ d[q].from \in Nat BY <1>2, <1>6, <3>1
        <5> QED BY <1>1, <5>1
      <4>3. e[m].from < e[m].to /\ e[m].to <= k /\ k <= e[n].from
        BY <1>10, <1>11, <3>1, <3>2
      <4> QED BY <1>1, <4>1, <4>2, <4>3
    <3>3. CASE m \notin 1 .. x
      <4>1. PICK p \in 1 .. y : m = p + x BY <1>7, <3>3
      <4>2. p < q BY <1>2, <3>1, <4>1
      <4>3. d[p].from < d[q].from /\ d[p].from \in Nat /\ d[q].from \in Nat
        BY <1>2, <2>2, <4>2
      <4>4. e[m].from = d[p].from + k /\ e[n].from = d[q].from + k
        BY <1>6, <3>1, <4>1
      <4>5. \A v, w \in Nat : v < w => v + k < w + k BY <1>1
      <4>6. d[p].from + k < d[q].from + k BY <4>3, <4>5
      <4> QED BY <4>4, <4>6
    <3> QED BY <3>2, <3>3
  <2> QED BY <2>3, <2>4
<1>14. ASSUME NEW f \in 1 .. k + l, NEW t \in 1 .. k + l, IsName(s, f, t)
       PROVE  \E n \in 1 .. x + y : e[n].from + 1 = f /\ e[n].to = t
  <2>1. CASE t <= k
    <3>1. f <= t BY <1>14 DEF IsName
    <3>2. f \in 1 .. k /\ t \in 1 .. k /\ IsName(a, f, t)
      BY <1>1, <1>9, <1>14, <2>1, <3>1
    <3>3. PICK n \in 1 .. x : c[n].from + 1 = f /\ c[n].to = t
      BY <3>2 DEF Cut, k, x
    <3>4. n \in 1 .. x + y BY <1>2
    <3> QED BY <1>5, <3>3, <3>4
  <2>2. CASE f > k
    <3>1. f <= t BY <1>14 DEF IsName
    <3> DEFINE g == f - k
               u == t - k
    <3>2. g \in 1 .. l /\ u \in 1 .. l /\ f = g + k /\ t = u + k
      BY <1>1, <2>2, <3>1
    <3>3. IsName(b, g, u) BY <1>9, <1>14, <2>2
    <3> HIDE DEF g, u
    <3>4. PICK n \in 1 .. y : d[n].from + 1 = g /\ d[n].to = u
      BY <3>2, <3>3 DEF Cut, l, y
    <3>5. /\ n + x \in 1 .. x + y /\ e[n + x].from = d[n].from + k
          /\ e[n + x].to = d[n].to + k /\ d[n].from \in Nat
      BY <1>2, <1>6
    <3> DEFINE p == d[n].from
               q == d[n].to
    <3>6. p + 1 = g /\ q = u /\ p \in Nat BY <3>4, <3>5
    <3>7. e[n + x].from = p + k /\ e[n + x].to = q + k BY <3>5
    <3> HIDE DEF p, q
    <3>8. p + k + 1 = f /\ q + k = t BY <1>1, <3>2, <3>6
    <3> QED BY <3>5, <3>7, <3>8
  <2>3. CASE f <= k /\ t > k BY <1>9, <1>14, <2>3
  <2> QED BY <1>1, <2>1, <2>2, <2>3
<1>15. Cut(s, e) BY <1>1, <1>8, <1>12, <1>13, <1>14 DEF Cut
<1> QED BY <1>5, <1>6, <1>8, <1>15 DEF s, k, x, y

(* A text without a name, and one that is a name.                          *)
LEMMA CutOfSeparators ==
  ASSUME NEW text \in Seq(Char), \A p \in 1 .. Len(text) : text[p] \in Separator
  PROVE  Cut(text, <<>>)
<1>1. <<>> \in Seq(Stretch) /\ Len(<<>>) = 0 BY EmptySeq
<1>2. \A f, t \in 1 .. Len(text) : ~IsName(text, f, t)
  <2> SUFFICES ASSUME NEW f \in 1 .. Len(text), NEW t \in 1 .. Len(text),
                      IsName(text, f, t)
               PROVE  FALSE
    OBVIOUS
  <2>1. f \in f .. t BY DEF IsName
  <2> QED BY <2>1 DEF IsName
<1>3. 1 .. 0 = {} OBVIOUS
<1> QED BY <1>1, <1>2, <1>3 DEF Cut

Name(s) ==
  s \in Seq(Char) /\ s # <<>> /\ \A p \in 1 .. Len(s) : s[p] \notin Separator

LEMMA CutOfName ==
  ASSUME NEW s, Name(s)
  PROVE  Cut(s, <<[from |-> 0, to |-> Len(s)]>>)
<1> DEFINE k == Len(s)
           c == <<[from |-> 0, to |-> Len(s)]>>
<1>1. /\ k \in Nat \ {0} /\ \A p \in 1 .. k : s[p] \notin Separator
  BY EmptySeq DEF Name
<1>2. c \in Seq(Stretch) /\ Len(c) = 1 /\ c[1].from = 0 /\ c[1].to = k
  BY <1>1 DEF Stretch
<1> HIDE DEF c, k
<1>3. IsName(s, 1, k)
  <2>1. 1 <= k BY <1>1
  <2> QED BY <1>1, <2>1 DEF IsName, k
<1>4. \A n \in 1 .. Len(c) : n = 1 BY <1>2
<1>5. c[1].from < c[1].to /\ c[1].to <= k /\ IsName(s, c[1].from + 1, c[1].to)
  <2>1. c[1].from + 1 = 1 BY <1>2
  <2> QED BY <1>1, <1>2, <1>3, <2>1
<1>6. ASSUME NEW f \in 1 .. k, NEW t \in 1 .. k, IsName(s, f, t)
      PROVE  f = 1 /\ t = k
  <2>1. f = 1
    <3>1. SUFFICES ASSUME f # 1 PROVE FALSE OBVIOUS
    <3>2. f - 1 \in 1 .. k BY <1>1, <3>1
    <3> QED BY <1>1, <1>6, <3>1, <3>2 DEF IsName
  <2>2. t = k
    <3>1. SUFFICES ASSUME t # k PROVE FALSE OBVIOUS
    <3>2. t + 1 \in 1 .. k BY <1>1, <3>1
    <3> QED BY <1>1, <1>6, <3>1, <3>2 DEF IsName, k
  <2> QED BY <2>1, <2>2
<1>7. 1 \in 1 .. Len(c) /\ c[1].from + 1 = 1 BY <1>2
<1>8. \A f, t \in 1 .. k :
        IsName(s, f, t) => \E n \in 1 .. Len(c) : c[n].from + 1 = f /\ c[n].to = t
  BY <1>2, <1>6, <1>7
<1>9. \A m, n \in 1 .. Len(c) : m < n => c[m].from < c[n].from BY <1>4
<1>10. Cut(s, c) BY <1>2, <1>4, <1>5, <1>8, <1>9 DEF Cut, k
<1> QED BY <1>10 DEF c

(* Every text has its names: what is before the last separator, or before  *)
(* the last name, is shorter.                                              *)
LEMMA EveryTextIsCut ==
  ASSUME NEW text \in Seq(Char)
  PROVE  \E c : Cut(text, c)
<1> DEFINE Uncut(s) == s \in Seq(Char) /\ ~\E c : Cut(s, c)
           Wrong == {n \in Nat : \E s : Uncut(s) /\ Len(s) = n}
<1>1. SUFFICES ASSUME Uncut(text) PROVE FALSE OBVIOUS
<1>2. \A n : n \in Wrong <=> n \in Nat /\ \E s : Uncut(s) /\ Len(s) = n OBVIOUS
<1>3. \A s : Uncut(s) => s \in Seq(Char) /\ Len(s) \in Nat
  BY LenProperties
<1>4. \A s \in Seq(Char) : Uncut(s) \/ \E c : Cut(s, c) OBVIOUS
<1>5. \A s, c : Cut(s, c) => ~Uncut(s) OBVIOUS
<1>6. Wrong \in SUBSET Nat OBVIOUS
<1> HIDE DEF Wrong, Uncut
<1>7. Wrong # {} BY <1>1, <1>2, <1>3
<1>8. PICK least \in Wrong : \A n \in Wrong : least <= n BY <1>6, <1>7, LeastNumber
<1>9. PICK s : Uncut(s) /\ Len(s) = least BY <1>2, <1>8
<1>10. s \in Seq(Char) /\ Len(s) \in Nat /\ \A p \in 1 .. Len(s) : s[p] \in Char
  <2>1. s \in Seq(Char) BY <1>3, <1>9
  <2> QED BY <2>1, LenProperties, ElementOfSeq
<1>11. \A a \in Seq(Char) : Len(a) < Len(s) => \E c : Cut(a, c)
  <2> SUFFICES ASSUME NEW a \in Seq(Char), Len(a) < Len(s), Uncut(a) PROVE FALSE
    BY <1>4
  <2>1. Len(a) \in Wrong BY <1>2, <1>3
  <2> QED BY <1>3, <1>8, <1>9, <1>10, <2>1
<1>12. Len(s) # 0
  <2>1. SUFFICES ASSUME Len(s) = 0 PROVE FALSE OBVIOUS
  <2>2. \A p \in 1 .. Len(s) : FALSE BY <2>1
  <2>3. Cut(s, <<>>) BY <1>10, <2>2, CutOfSeparators
  <2> QED BY <1>5, <1>9, <2>3
<1> DEFINE k == Len(s)
           Bare(n) == \A p \in n .. k : s[p] \notin Separator
           Tails == {n \in 1 .. k + 1 : Bare(n)}
<1>13. Tails \in SUBSET Nat /\ k + 1 \in Tails BY <1>10
<1>14. PICK from \in Tails : \A n \in Tails : from <= n
  <2> HIDE DEF Tails
  <2> QED BY <1>13, LeastNumber
<1>15. from \in 1 .. k + 1 /\ Bare(from) BY <1>14
<1>16. from = 1 \/ s[from - 1] \in Separator
  <2>1. SUFFICES ASSUME from # 1, s[from - 1] \notin Separator PROVE FALSE OBVIOUS
  <2>2. from - 1 \in 1 .. k + 1 BY <1>10, <1>15, <2>1
  <2>3. \A p \in from - 1 .. k : p = from - 1 \/ p \in from .. k BY <1>10, <1>15
  <2>4. Bare(from - 1) BY <1>15, <2>1, <2>3
  <2>5. from <= from - 1 BY <1>14, <2>2, <2>4
  <2> QED BY <1>15, <2>5
<1> HIDE DEF k, Tails
<1>17. CASE from <= k
  <2> DEFINE a == SubSeq(s, 1, from - 1)
             b == SubSeq(s, from, k)
  <2>1. /\ \A p \in 1 .. from - 1 : s[p] \in Char
        /\ \A p \in from .. k : s[p] \in Char
        /\ 1 \in Int /\ from - 1 \in Int /\ from \in Int /\ k \in Int /\ from >= 1
    BY <1>10, <1>15, <1>17 DEF k
  <2>2. /\ a \in Seq(Char) /\ Len(a) = IF 1 <= from - 1 THEN from - 1 - 1 + 1 ELSE 0
        /\ \A p \in 1 .. from - 1 - 1 + 1 : a[p] = s[1 + p - 1]
    BY <2>1, SubSeqProperties
  <2>3. /\ b \in Seq(Char) /\ Len(b) = IF from <= k THEN k - from + 1 ELSE 0
        /\ \A p \in 1 .. k - from + 1 : b[p] = s[from + p - 1]
    BY <2>1, SubSeqProperties
  <2>4. s = a \o b
    <3>1. /\ 1 \in 1 .. k + 1 /\ from - 1 \in 1 - 1 .. k /\ k \in from - 1 .. k
          /\ from - 1 + 1 = from
      BY <1>10, <1>15, <1>17 DEF k
    <3>2. SubSeq(s, 1, from - 1) \o SubSeq(s, from - 1 + 1, k) = SubSeq(s, 1, k)
      BY <1>10, <3>1, ConcatAdjacentSubSeq DEF k
    <3>3. SubSeq(s, 1, k) = s BY <1>10, SubSeqFull DEF k
    <3> QED BY <3>1, <3>2, <3>3
  <2> HIDE DEF a, b
  <2>5. Len(a) = from - 1 /\ Len(b) = k - from + 1 BY <1>17, <2>1, <2>2, <2>3
  <2>6. Name(b)
    <3>1. b # <<>> BY <1>17, <2>1, <2>3, <2>5, EmptySeq
    <3>2. ASSUME NEW p \in 1 .. Len(b) PROVE b[p] \notin Separator
      <4>1. p \in 1 .. k - from + 1 /\ from + p - 1 \in from .. k BY <2>1, <2>5
      <4>2. b[p] = s[from + p - 1] BY <2>3, <4>1
      <4> QED BY <1>15, <4>1, <4>2
    <3> QED BY <2>3, <3>1, <3>2 DEF Name
  <2>7. Apart(a, b)
    <3>1. CASE from = 1
      <4>1. Len(a) = 0 BY <2>5, <3>1
      <4> QED BY <2>2, <4>1, EmptySeq DEF Apart
    <3>2. CASE from # 1
      <4>1. from - 1 \in 1 .. from - 1 - 1 + 1 /\ 1 + (from - 1) - 1 = from - 1
        BY <1>15, <3>2, <2>1
      <4>2. a[from - 1] = s[from - 1] BY <2>2, <4>1
      <4> QED BY <1>16, <2>5, <3>2, <4>2 DEF Apart
    <3> QED BY <3>1, <3>2
  <2>8. PICK c : Cut(a, c)
    <3>1. Len(a) < Len(s) BY <1>10, <1>15, <1>17, <2>5 DEF k
    <3> QED BY <1>11, <2>2, <3>1
  <2>9. \E e : Cut(a \o b, e) BY <2>2, <2>3, <2>6, <2>7, <2>8, CutOfName, SumOfCuts
  <2> QED BY <1>5, <1>9, <2>4, <2>9
<1>18. CASE from = k + 1
  <2>1. k # 0 /\ k \in Nat /\ from - 1 = k BY <1>10, <1>12, <1>18 DEF k
  <2>2. s[k] \in Separator BY <1>16, <1>18, <2>1
  <2> DEFINE a == SubSeq(s, 1, k - 1)
             b == <<s[k]>>
  <2>3. k \in 1 .. k /\ 1 \in 1 .. k /\ k \in 1 .. Len(s) /\ 1 \in 1 .. Len(s)
    BY <2>1 DEF k
  <2>4. s = a \o b
    <3>1. SubSeq(s, 1, k) = a \o b BY <1>10, <2>3, SubSeqRecursiveSecond
    <3>2. SubSeq(s, 1, k) = s BY <1>10, SubSeqFull DEF k
    <3> QED BY <3>1, <3>2
  <2>5. \A p \in 1 .. k - 1 : s[p] \in Char BY <1>10, <2>1 DEF k
  <2>6. a \in Seq(Char) /\ Len(a) = IF 1 <= k - 1 THEN k - 1 - 1 + 1 ELSE 0
    BY <2>1, <2>5, SubSeqProperties
  <2>7. b \in Seq(Char) /\ Len(b) = 1 /\ b[1] = s[k]
    <3> DEFINE x == s[k]
    <3>1. x \in Char BY <1>10, <2>3
    <3> HIDE DEF x
    <3>2. <<x>> \in Seq(Char) /\ Len(<<x>>) = 1 /\ <<x>>[1] = x BY <3>1
    <3> QED BY <3>2 DEF x
  <2> HIDE DEF a, b
  <2>8. Cut(b, <<>>)
    <3>1. \A p \in 1 .. Len(b) : b[p] \in Separator BY <2>2, <2>7
    <3> QED BY <2>7, <3>1, CutOfSeparators
  <2>9. Apart(a, b) BY <2>2, <2>7 DEF Apart
  <2>10. PICK c : Cut(a, c)
    <3>1. Len(a) < Len(s) BY <2>1, <2>6 DEF k
    <3> QED BY <1>11, <2>6, <3>1
  <2>11. \E e : Cut(a \o b, e) BY <2>6, <2>7, <2>8, <2>9, <2>10, SumOfCuts
  <2> QED BY <1>5, <1>9, <2>4, <2>11
<1> QED BY <1>10, <1>15, <1>17, <1>18 DEF k

-----------------------------------------------------------------------------
(* What PathOf says of sums, names and separators.                         *)

ComponentsOf(text) == PathOf(text).components

LEMMA ComponentsAre ==
  ASSUME NEW text \in Seq(Char)
  PROVE  /\ ComponentsOf(text) \in Seq(Seq(Char))
         /\ \A n \in 1 .. Len(ComponentsOf(text)) : Name(ComponentsOf(text)[n])
<1>1. PICK c : Cut(text, c) BY EveryTextIsCut
<1> DEFINE x == Len(c)
           names == [n \in 1 .. x |-> SubSeq(text, c[n].from + 1, c[n].to)]
<1>2. ComponentsOf(text) = names BY <1>1, CutIsPath DEF ComponentsOf
<1>3. /\ x \in Nat /\ Len(text) \in Nat /\ \A p \in 1 .. Len(text) : text[p] \in Char
      /\ \A n \in 1 .. x : c[n].from \in Nat /\ c[n].to \in Nat
  BY <1>1, CutIs, LenProperties, ElementOfSeq DEF Cut
<1>4. ASSUME NEW n \in 1 .. x PROVE Name(names[n])
  <2> DEFINE f == c[n].from + 1
             t == c[n].to
  <2>1. /\ f \in Nat /\ t \in Nat /\ 1 <= f /\ f <= t /\ t <= Len(text)
        /\ IsName(text, f, t)
    BY <1>1, <1>3 DEF Cut
  <2>2. names[n] = SubSeq(text, f, t) OBVIOUS
  <2> HIDE DEF f, t, names
  <2>3. f \in Int /\ t \in Int /\ \A p \in f .. t : text[p] \in Char BY <1>3, <2>1
  <2> DEFINE s == SubSeq(text, f, t)
  <2>4. /\ s \in Seq(Char) /\ Len(s) = IF f <= t THEN t - f + 1 ELSE 0
        /\ \A p \in 1 .. t - f + 1 : s[p] = text[f + p - 1]
    BY <2>3, SubSeqProperties
  <2> HIDE DEF s
  <2>5. Len(s) = t - f + 1 BY <2>1, <2>4
  <2>6. s # <<>> BY <2>1, <2>5, EmptySeq
  <2>7. ASSUME NEW p \in 1 .. Len(s) PROVE s[p] \notin Separator
    <3>1. p \in 1 .. t - f + 1 /\ f + p - 1 \in f .. t BY <2>1, <2>5
    <3>2. s[p] = text[f + p - 1] BY <2>4, <3>1
    <3> QED BY <2>1, <3>1, <3>2 DEF IsName
  <2> QED BY <2>2, <2>4, <2>6, <2>7 DEF Name, s
<1>5. names \in Seq(Seq(Char)) /\ Len(names) = x
  <2>1. \A n \in 1 .. x : names[n] \in Seq(Char) BY <1>4 DEF Name
  <2>2. names \in [1 .. x -> Seq(Char)] BY <2>1
  <2> HIDE DEF names
  <2>3. DOMAIN names = 1 .. x BY <2>2
  <2>4. names \in Seq(Seq(Char)) BY <1>3, <2>2
  <2>5. Len(names) \in Nat /\ DOMAIN names = 1 .. Len(names) BY <2>4, LenProperties
  <2> QED BY <1>3, <2>3, <2>4, <2>5
<1> QED BY <1>2, <1>4, <1>5

LEMMA ComponentsOfSum ==
  ASSUME NEW a \in Seq(Char), NEW b \in Seq(Char), Apart(a, b)
  PROVE  ComponentsOf(a \o b) = ComponentsOf(a) \o ComponentsOf(b)
<1>1. PICK c : Cut(a, c) BY EveryTextIsCut
<1>2. PICK d : Cut(b, d) BY EveryTextIsCut
<1> DEFINE s == a \o b
           k == Len(a)
           l == Len(b)
           x == Len(c)
           y == Len(d)
<1>3. PICK e : /\ Cut(s, e) /\ Len(e) = x + y
               /\ \A n \in 1 .. x : e[n] = c[n]
               /\ \A n \in 1 .. y : /\ e[n + x].from = d[n].from + k
                                    /\ e[n + x].to = d[n].to + k
  BY <1>1, <1>2, SumOfCuts
<1>4. /\ s \in Seq(Char) /\ k \in Nat /\ l \in Nat BY SumIs
<1>5. /\ x \in Nat /\ y \in Nat
      /\ \A n \in 1 .. x : c[n].from \in Nat /\ c[n].to \in Nat
      /\ \A n \in 1 .. y : d[n].from \in Nat /\ d[n].to \in Nat
  BY <1>1, <1>2, CutIs DEF Cut
<1>6. /\ ComponentsOf(a) = [n \in 1 .. x |-> SubSeq(a, c[n].from + 1, c[n].to)]
      /\ ComponentsOf(b) = [n \in 1 .. y |-> SubSeq(b, d[n].from + 1, d[n].to)]
  BY <1>1, <1>2, CutIsPath DEF ComponentsOf
<1>7. ComponentsOf(s) = [n \in 1 .. x + y |-> SubSeq(s, e[n].from + 1, e[n].to)]
  <2>1. ComponentsOf(s) = [n \in 1 .. Len(e) |-> SubSeq(s, e[n].from + 1, e[n].to)]
    BY <1>3, <1>4, CutIsPath DEF ComponentsOf
  <2>2. Len(e) = x + y BY <1>3
  <2> HIDE DEF x, y
  <2> QED BY <2>1, <2>2
<1>8. ASSUME NEW n \in 1 .. x PROVE ComponentsOf(s)[n] = ComponentsOf(a)[n]
  <2> DEFINE f == c[n].from + 1
             t == c[n].to
  <2>1. n \in 1 .. x + y /\ e[n] = c[n] BY <1>3, <1>5
  <2>2. f \in 1 .. k /\ t \in 1 .. k
    <3>1. c[n].from < c[n].to /\ c[n].to <= k BY <1>1 DEF Cut
    <3> QED BY <1>4, <1>5, <3>1
  <2>3. ComponentsOf(s)[n] = SubSeq(s, f, t) BY <1>7, <2>1
  <2>4. ComponentsOf(a)[n] = SubSeq(a, f, t) BY <1>6
  <2> HIDE DEF f, t
  <2>5. SubSeq(s, f, t) = SubSeq(a, f, t) BY <2>2, SubSeqOfConcat1
  <2> QED BY <2>3, <2>4, <2>5
<1>9. ASSUME NEW n \in 1 .. y PROVE ComponentsOf(s)[n + x] = ComponentsOf(b)[n]
  <2> DEFINE f == d[n].from + 1
             t == d[n].to
             g == d[n].from + k + 1
             u == d[n].to + k
  <2>1. n + x \in 1 .. x + y /\ e[n + x].from = d[n].from + k /\ e[n + x].to = u
    BY <1>3, <1>5
  <2>2. f \in 1 .. l /\ t \in 1 .. l /\ g = f + k /\ u = t + k
    <3>1. d[n].from < d[n].to /\ d[n].to <= l BY <1>2 DEF Cut
    <3> QED BY <1>4, <1>5, <3>1
  <2>3. ComponentsOf(s)[n + x] = SubSeq(s, g, u)
    <3>1. ComponentsOf(s)[n + x] = SubSeq(s, e[n + x].from + 1, e[n + x].to)
      BY <1>7, <2>1
    <3> QED BY <2>1, <3>1
  <2>4. ComponentsOf(b)[n] = SubSeq(b, f, t) BY <1>6
  <2> HIDE DEF f, t, g, u
  <2>5. /\ g \in Len(a) + 1 .. Len(a) + Len(b) /\ u \in Len(a) + 1 .. Len(a) + Len(b)
        /\ g - Len(a) = f /\ u - Len(a) = t
    BY <1>4, <2>2
  <2>6. SubSeq(s, g, u) = SubSeq(b, g - Len(a), u - Len(a))
    BY <2>5, SubSeqOfConcat2
  <2> QED BY <2>3, <2>4, <2>5, <2>6
<1> DEFINE ca == ComponentsOf(a)
           cb == ComponentsOf(b)
           cs == ComponentsOf(s)
<1>10. /\ ca \in Seq(Seq(Char)) /\ cb \in Seq(Seq(Char)) /\ cs \in Seq(Seq(Char))
  BY <1>4, ComponentsAre
<1>11. Len(ca) = x /\ Len(cb) = y /\ Len(cs) = x + y
  <2>1. DOMAIN ca = 1 .. x /\ DOMAIN cb = 1 .. y /\ DOMAIN cs = 1 .. x + y
    BY <1>6, <1>7
  <2>2. /\ DOMAIN ca = 1 .. Len(ca) /\ DOMAIN cb = 1 .. Len(cb)
        /\ DOMAIN cs = 1 .. Len(cs)
        /\ Len(ca) \in Nat /\ Len(cb) \in Nat /\ Len(cs) \in Nat
    BY <1>10, LenProperties
  <2> QED BY <1>5, <2>1, <2>2
<1> HIDE DEF ca, cb, cs, x, y
<1>12. /\ ca \o cb \in Seq(Seq(Char)) /\ Len(ca \o cb) = x + y
       /\ \A n \in 1 .. x + y : (ca \o cb)[n] = IF n <= x THEN ca[n] ELSE cb[n - x]
  BY <1>10, <1>11, ConcatProperties
<1>13. ASSUME NEW n \in 1 .. Len(cs) PROVE cs[n] = (ca \o cb)[n]
  <2>1. CASE n \in 1 .. x
    <3>1. cs[n] = ca[n] BY <1>8, <2>1 DEF cs, ca
    <3> QED BY <1>5, <1>11, <1>12, <2>1, <3>1
  <2>2. CASE n \notin 1 .. x
    <3>1. n - x \in 1 .. y /\ n - x + x = n /\ ~(n <= x) BY <1>5, <1>11, <2>2
    <3>2. cs[n - x + x] = cb[n - x] BY <1>9, <3>1 DEF cs, cb
    <3> QED BY <1>11, <1>12, <3>1, <3>2
  <2> QED BY <2>1, <2>2
<1>14. cs = ca \o cb BY <1>10, <1>11, <1>12, <1>13, SeqEqual
<1> QED BY <1>14 DEF cs, ca, cb

LEMMA ComponentsOfSeparators ==
  ASSUME NEW text \in Seq(Char), \A p \in 1 .. Len(text) : text[p] \in Separator
  PROVE  ComponentsOf(text) = <<>>
<1>1. Cut(text, <<>>) BY CutOfSeparators
<1> DEFINE c == <<>>
<1>2. ComponentsOf(text) = [n \in 1 .. Len(c) |-> SubSeq(text, c[n].from + 1, c[n].to)]
  BY <1>1, CutIsPath DEF ComponentsOf
<1>3. Len(c) = 0 /\ 1 .. 0 = {} OBVIOUS
<1>4. ComponentsOf(text) \in Seq(Seq(Char)) BY ComponentsAre
<1>5. DOMAIN ComponentsOf(text) = {}
  <2> HIDE DEF c
  <2> QED BY <1>2, <1>3
<1>6. Len(ComponentsOf(text)) = 0
  <2>1. /\ Len(ComponentsOf(text)) \in Nat
        /\ DOMAIN ComponentsOf(text) = 1 .. Len(ComponentsOf(text))
    BY <1>4, LenProperties
  <2> QED BY <1>5, <2>1
<1> QED BY <1>4, <1>6, EmptySeq

LEMMA ComponentsOfName ==
  ASSUME NEW s, Name(s)
  PROVE  ComponentsOf(s) = <<s>>
<1> DEFINE c == <<[from |-> 0, to |-> Len(s)]>>
<1>1. s \in Seq(Char) /\ Cut(s, c) BY CutOfName DEF Name
<1>2. Len(c) = 1 /\ c[1].from + 1 = 1 /\ c[1].to = Len(s) OBVIOUS
<1> HIDE DEF c
<1>3. ComponentsOf(s) = [n \in 1 .. Len(c) |-> SubSeq(s, c[n].from + 1, c[n].to)]
  BY <1>1, CutIsPath DEF ComponentsOf
<1>4. ComponentsOf(s)[1] = s
  <2>1. 1 \in 1 .. Len(c) BY <1>2
  <2>2. ComponentsOf(s)[1] = SubSeq(s, 1, Len(s)) BY <1>2, <1>3, <2>1
  <2> QED BY <1>1, <2>2, SubSeqFull
<1>5. ComponentsOf(s) \in Seq(Seq(Char)) BY <1>1, ComponentsAre
<1>6. Len(ComponentsOf(s)) = 1
  <2>1. /\ Len(ComponentsOf(s)) \in Nat
        /\ DOMAIN ComponentsOf(s) = 1 .. Len(ComponentsOf(s))
    BY <1>5, LenProperties
  <2>2. DOMAIN ComponentsOf(s) = 1 .. 1 BY <1>2, <1>3
  <2> DEFINE k == Len(ComponentsOf(s))
  <2>3. k \in Nat /\ 1 .. k = 1 .. 1 BY <2>1, <2>2
  <2> HIDE DEF k
  <2>4. k = 1 BY <2>3
  <2> QED BY <2>4 DEF k
<1> HIDE DEF ComponentsOf
<1>7. <<s>> \in Seq(Seq(Char)) /\ Len(<<s>>) = 1 /\ <<s>>[1] = s BY <1>1
<1>8. \A n \in 1 .. Len(ComponentsOf(s)) : ComponentsOf(s)[n] = <<s>>[n]
  BY <1>4, <1>6, <1>7
<1> QED BY <1>5, <1>6, <1>7, <1>8, SeqEqual

(* Whether a path is absolute is read off from its first byte.             *)
LEMMA AbsoluteOfSum ==
  ASSUME NEW a \in Seq(Char), NEW b \in Seq(Char), a # <<>>
  PROVE  PathOf(a \o b).is_absolute = PathOf(a).is_absolute
<1>1. /\ Len(a) \in Nat \ {0} /\ Len(a \o b) = Len(a) + Len(b) /\ Len(b) \in Nat
      /\ \A p \in 1 .. Len(a) : (a \o b)[p] = a[p]
      /\ a \o b \in Seq(Char)
  BY SumIs
<1>2. (a \o b)[1] = a[1] BY <1>1
<1>3. a \o b # <<>> BY <1>1, EmptySeq
<1>4. /\ PathOf(a \o b).is_absolute = (a \o b # <<>> /\ (a \o b)[1] \in Separator)
      /\ PathOf(a).is_absolute = (a # <<>> /\ a[1] \in Separator)
  BY DEF PathOf, Path
<1>5. (a \o b # <<>> /\ (a \o b)[1] \in Separator) = (a # <<>> /\ a[1] \in Separator)
  BY <1>2, <1>3
<1> QED BY <1>4, <1>5

-----------------------------------------------------------------------------
(* The loop of KFilePathNewStringRepresentationWithSeparator.  What it has *)
(* written after n components.                                             *)

Single(t) ==
  \A p \in 1 .. Len(t) : p > 1 /\ t[p] \in Separator => t[p - 1] \notin Separator

Written(names, abs, n, t) ==
  /\ t \in Seq(Char) /\ Single(t)
  /\ ComponentsOf(t) = SubSeq(names, 1, n)
  /\ PathOf(t).is_absolute = abs
  /\ n = 0 => Len(t) <= 1
  /\ n < Len(names) => t = <<>> \/ t[Len(t)] \in Separator
  /\ n > 0 /\ n = Len(names) => t # <<>> /\ t[Len(t)] \notin Separator

LEMMA OneByteIs ==
  ASSUME NEW x \in Char
  PROVE  <<x>> \in Seq(Char) /\ Len(<<x>>) = 1 /\ <<x>>[1] = x /\ <<x>> # <<>>
OBVIOUS

(* A name after what is empty or ends in a separator.                      *)
LEMMA NameIsWritten ==
  ASSUME NEW t \in Seq(Char), Single(t), t = <<>> \/ t[Len(t)] \in Separator,
         NEW s, Name(s)
  PROVE  /\ t \o s \in Seq(Char) /\ Single(t \o s)
         /\ ComponentsOf(t \o s) = ComponentsOf(t) \o <<s>>
         /\ PathOf(t \o s).is_absolute = PathOf(t).is_absolute
         /\ t \o s # <<>> /\ (t \o s)[Len(t \o s)] \notin Separator
<1> DEFINE u == t \o s
           k == Len(t)
           l == Len(s)
<1>1. /\ s \in Seq(Char) /\ s # <<>> /\ l \in Nat \ {0}
      /\ \A p \in 1 .. l : s[p] \notin Separator
  BY EmptySeq DEF Name
<1>2. /\ u \in Seq(Char) /\ k \in Nat /\ Len(u) = k + l
      /\ \A p \in 1 .. k : u[p] = t[p]
      /\ \A p \in 1 .. l : u[p + k] = s[p]
  BY <1>1, SumIs
<1>3. \A p \in 1 .. k + l : p \in 1 .. k \/ u[p] \notin Separator
  <2> SUFFICES ASSUME NEW p \in 1 .. k + l, p \notin 1 .. k PROVE u[p] \notin Separator
    OBVIOUS
  <2>1. p - k \in 1 .. l /\ p - k + k = p BY <1>1, <1>2
  <2>2. u[p - k + k] = s[p - k] BY <1>2, <2>1
  <2> QED BY <1>1, <2>1, <2>2
<1>4. ComponentsOf(u) = ComponentsOf(t) \o <<s>>
  <2>1. Apart(t, s) BY DEF Apart
  <2>2. ComponentsOf(u) = ComponentsOf(t) \o ComponentsOf(s)
    BY <1>1, <2>1, ComponentsOfSum
  <2> QED BY <2>2, ComponentsOfName
<1>5. u # <<>> /\ u[Len(u)] \notin Separator
  <2> HIDE DEF u, k, l
  <2>1. Len(u) \in 1 .. k + l /\ Len(u) \notin 1 .. k BY <1>1, <1>2
  <2> QED BY <1>2, <1>3, <2>1, EmptySeq
<1>6. Single(u)
  <2> SUFFICES ASSUME NEW p \in 1 .. Len(u), p > 1, u[p] \in Separator
               PROVE  u[p - 1] \notin Separator
    BY DEF Single
  <2> HIDE DEF u, k, l
  <2>1. p \in 1 .. k BY <1>2, <1>3
  <2>2. p - 1 \in 1 .. k BY <1>2, <2>1
  <2>3. t[p] \in Separator /\ u[p - 1] = t[p - 1] BY <1>2, <2>1, <2>2
  <2> QED BY <2>1, <2>3 DEF Single, k
<1>7. PathOf(u).is_absolute = PathOf(t).is_absolute
  <2>1. CASE t # <<>> BY <1>1, <2>1, AbsoluteOfSum
  <2>2. CASE t = <<>>
    <3>1. k = 0 BY <2>2, EmptySeq
    <3>2. u[1] \notin Separator
      <4> HIDE DEF u, k, l
      <4>1. 1 \in 1 .. k + l /\ 1 \notin 1 .. k BY <1>1, <3>1
      <4> QED BY <1>3, <4>1
    <3>3. PathOf(u).is_absolute = (u # <<>> /\ u[1] \in Separator)
      BY DEF PathOf, Path
    <3>4. PathOf(t).is_absolute = (t # <<>> /\ t[1] \in Separator)
      BY DEF PathOf, Path
    <3>5. (u # <<>> /\ u[1] \in Separator) = FALSE BY <3>2
    <3>6. (t # <<>> /\ t[1] \in Separator) = FALSE BY <2>2
    <3> QED BY <3>3, <3>4, <3>5, <3>6
  <2> QED BY <2>1, <2>2
<1> QED BY <1>2, <1>4, <1>5, <1>6, <1>7

(* A separator after what does not end in one.                             *)
LEMMA SeparatorIsWritten ==
  ASSUME NEW t \in Seq(Char), Single(t), t # <<>>, t[Len(t)] \notin Separator,
         NEW sep \in Separator
  PROVE  /\ t \o <<sep>> \in Seq(Char) /\ Single(t \o <<sep>>)
         /\ ComponentsOf(t \o <<sep>>) = ComponentsOf(t)
         /\ PathOf(t \o <<sep>>).is_absolute = PathOf(t).is_absolute
         /\ (t \o <<sep>>)[Len(t \o <<sep>>)] \in Separator
<1> DEFINE s == <<sep>>
           u == t \o s
           k == Len(t)
<1>1. s \in Seq(Char) /\ Len(s) = 1 /\ s[1] = sep /\ s # <<>>
  BY ParserAssumption, OneByteIs
<1> HIDE DEF s
<1>2. /\ u \in Seq(Char) /\ k \in Nat /\ Len(u) = k + 1
      /\ \A p \in 1 .. k : u[p] = t[p]
      /\ u[1 + k] = s[1]
  BY <1>1, SumIs
<1>3. ComponentsOf(u) = ComponentsOf(t)
  <2>1. Apart(t, s) BY <1>1 DEF Apart
  <2>2. ComponentsOf(u) = ComponentsOf(t) \o ComponentsOf(s)
    BY <1>1, <2>1, ComponentsOfSum
  <2>3. ComponentsOf(s) = <<>>
    <3>1. \A p \in 1 .. Len(s) : s[p] \in Separator BY <1>1
    <3> QED BY <1>1, <3>1, ComponentsOfSeparators
  <2>4. ComponentsOf(t) \in Seq(Seq(Char)) BY ComponentsAre
  <2> QED BY <2>2, <2>3, <2>4, ConcatEmptySeq
<1>4. PathOf(u).is_absolute = PathOf(t).is_absolute BY <1>1, AbsoluteOfSum
<1> HIDE DEF u, k
<1>5. u[Len(u)] \in Separator
  <2>1. Len(u) = 1 + k BY <1>2
  <2> QED BY <1>1, <1>2, <2>1
<1>6. Single(u)
  <2> SUFFICES ASSUME NEW p \in 1 .. Len(u), p > 1, u[p] \in Separator
               PROVE  u[p - 1] \notin Separator
    BY DEF Single
  <2>1. p - 1 \in 1 .. k /\ p - 1 # 0 BY <1>2
  <2>2. u[p - 1] = t[p - 1] BY <1>2, <2>1
  <2>3. CASE p = k + 1
    <3>1. p - 1 = Len(t) BY <1>2, <2>3 DEF k
    <3> QED BY <2>2, <3>1
  <2>4. CASE p # k + 1
    <3>1. p \in 1 .. k BY <1>2, <2>4
    <3>2. t[p] \in Separator BY <1>2, <3>1
    <3> QED BY <2>2, <3>1, <3>2 DEF Single, k
  <2> QED BY <2>3, <2>4
<1> QED BY <1>2, <1>3, <1>4, <1>5, <1>6 DEF s, u

(* The loop begins with nothing, or with the separator of the root.        *)
LEMMA RootIsWritten ==
  ASSUME NEW names \in Seq(Seq(Char)), NEW abs \in BOOLEAN, NEW sep \in Separator
  PROVE  Written(names, abs, 0, IF abs THEN <<sep>> ELSE <<>>)
<1>1. SubSeq(names, 1, 0) = <<>> BY SubSeqEmpty
<1>2. ASSUME NEW t \in Seq(Char), Len(t) <= 1, \A p \in 1 .. Len(t) : t[p] \in Separator,
             PathOf(t).is_absolute = abs
      PROVE  Written(names, abs, 0, t)
  <2>1. Len(t) \in Nat BY LenProperties
  <2>2. Single(t) BY <1>2, <2>1 DEF Single
  <2>3. ComponentsOf(t) = <<>> BY <1>2, ComponentsOfSeparators
  <2>4. t = <<>> \/ t[Len(t)] \in Separator
    <3>1. CASE Len(t) = 0 BY <3>1, EmptySeq
    <3>2. CASE Len(t) # 0
      <4>1. Len(t) \in 1 .. Len(t) BY <2>1, <3>2
      <4> QED BY <1>2, <4>1
    <3> QED BY <3>1, <3>2
  <2> QED BY <1>1, <1>2, <2>2, <2>3, <2>4 DEF Written
<1>3. CASE abs = TRUE
  <2> DEFINE t == <<sep>>
  <2>1. t \in Seq(Char) /\ Len(t) = 1 /\ t[1] = sep /\ t # <<>>
    BY ParserAssumption, OneByteIs
  <2>2. PathOf(t).is_absolute = (t # <<>> /\ t[1] \in Separator)
    BY DEF PathOf, Path
  <2> HIDE DEF t
  <2>3. (t # <<>> /\ t[1] \in Separator) = TRUE BY <2>1
  <2>4. \A p \in 1 .. Len(t) : t[p] \in Separator BY <2>1
  <2>5. Len(t) <= 1 BY <2>1
  <2>6. PathOf(t).is_absolute = abs BY <1>3, <2>2, <2>3
  <2>7. Written(names, abs, 0, t) BY <1>2, <2>1, <2>4, <2>5, <2>6
  <2> QED BY <1>3, <2>7 DEF t
<1>4. CASE abs = FALSE
  <2> DEFINE t == <<>>
  <2>1. t \in Seq(Char) /\ Len(t) = 0 BY EmptySeq
  <2>2. PathOf(t).is_absolute = (t # <<>> /\ t[1] \in Separator)
    BY DEF PathOf, Path
  <2>3. (t # <<>> /\ t[1] \in Separator) = FALSE OBVIOUS
  <2> HIDE DEF t
  <2>4. \A p \in 1 .. Len(t) : t[p] \in Separator BY <2>1
  <2>5. Len(t) <= 1 BY <2>1
  <2>6. PathOf(t).is_absolute = abs BY <1>4, <2>2, <2>3
  <2>7. Written(names, abs, 0, t) BY <1>2, <2>1, <2>4, <2>5, <2>6
  <2> QED BY <1>4, <2>7 DEF t
<1> QED BY <1>3, <1>4

LEMMA ComponentIsWritten ==
  ASSUME NEW names \in Seq(Seq(Char)), \A m \in 1 .. Len(names) : Name(names[m]),
         NEW abs \in BOOLEAN, NEW sep \in Separator,
         NEW n \in 1 .. Len(names), NEW t, Written(names, abs, n - 1, t)
  PROVE  Written(names, abs, n, IF n # Len(names) THEN (t \o names[n]) \o <<sep>>
                                ELSE t \o names[n])
<1> DEFINE u == t \o names[n]
           v == u \o <<sep>>
<1>1. Len(names) \in Nat BY LenProperties
<1>2. n - 1 < Len(names) /\ 1 \in 1 .. Len(names) /\ n > 0 BY <1>1
<1>3. /\ t \in Seq(Char) /\ Single(t) /\ (t = <<>> \/ t[Len(t)] \in Separator)
      /\ ComponentsOf(t) = SubSeq(names, 1, n - 1) /\ PathOf(t).is_absolute = abs
  BY <1>2 DEF Written
<1>4. Name(names[n]) OBVIOUS
<1>5. /\ u \in Seq(Char) /\ Single(u)
      /\ ComponentsOf(u) = ComponentsOf(t) \o <<names[n]>>
      /\ PathOf(u).is_absolute = PathOf(t).is_absolute
      /\ u # <<>> /\ u[Len(u)] \notin Separator
  BY <1>3, <1>4, NameIsWritten
<1>6. ComponentsOf(u) = SubSeq(names, 1, n)
  <2>1. SubSeq(names, 1, n) = SubSeq(names, 1, n - 1) \o <<names[n]>>
    BY <1>2, SubSeqRecursiveSecond
  <2> QED BY <1>3, <1>5, <2>1
<1> HIDE DEF u
<1>7. /\ v \in Seq(Char) /\ Single(v) /\ ComponentsOf(v) = ComponentsOf(u)
      /\ PathOf(v).is_absolute = PathOf(u).is_absolute
      /\ v[Len(v)] \in Separator
  BY <1>5, SeparatorIsWritten
<1> HIDE DEF v
<1>8. CASE n # Len(names)
  <2>1. Written(names, abs, n, v) BY <1>2, <1>3, <1>5, <1>6, <1>7, <1>8 DEF Written
  <2> QED BY <1>8, <2>1 DEF u, v
<1>9. CASE n = Len(names)
  <2>1. n # 0 /\ ~(n < Len(names)) BY <1>1, <1>2, <1>9
  <2>2. PathOf(u).is_absolute = abs BY <1>3, <1>5
  <2>3. Written(names, abs, n, u) BY <1>5, <1>6, <2>1, <2>2 DEF Written
  <2> QED BY <1>9, <2>3 DEF u
<1> QED BY <1>8, <1>9

LEMMA RenderingIsWritten ==
  ASSUME NEW names \in Seq(Seq(Char)), \A m \in 1 .. Len(names) : Name(names[m]),
         NEW abs \in BOOLEAN, NEW char \in Separator
  PROVE  Written(names, abs, Len(names),
                 NewStringRepresentation(Path(abs, names), char).text)
<1> DEFINE path == Path(abs, names)
           sep == KStringNewWithFormat(<<char>>)
           count == Len(path.components)
           With(s, n) ==
             LET named == KStringAppend(s, KStringNewWithData(path.components[n]))
             IN IF SeparatorAfter(n, count) THEN KStringAppend(named, sep) ELSE named
           Step(h) == [n \in 0 .. count |->
                         IF n = 0 THEN Root(path, sep) ELSE With(h[n - 1], n)]
           Upto(h, n) == [m \in 0 .. n |->
                            IF m = 0 THEN Root(path, sep) ELSE With(h[m - 1], m)]
           result == CHOOSE h : h = Step(h)
           Solvable(n) == \E h : h = Upto(h, n)
<1>1. NewStringRepresentation(path, char) = result[count]
  BY DEF NewStringRepresentation
<1>2. count = Len(names) /\ count \in Nat /\ path.components = names
      /\ path.is_absolute = abs
  BY LenProperties DEF Path
<1>3. Root(path, sep).text = IF abs THEN <<char>> ELSE <<>>
  BY <1>2 DEF Root, KStringCopy, KStringNew, KStringNewWithData, KStringNewWithFormat
<1>4. \A s, n : With(s, n).text = IF n # count THEN (s.text \o names[n]) \o <<char>>
                                  ELSE s.text \o names[n]
  BY <1>2 DEF KStringAppend, KStringNewWithData, KStringNewWithFormat, SeparatorAfter
<1> HIDE DEF path, sep, count, With
<1>5. \A n : Solvable(n) <=> \E h : h = Upto(h, n) OBVIOUS
<1> HIDE DEF Solvable
<1>6. \A n \in 0 .. count : Solvable(n)
  <2> DEFINE Wrong == {n \in 0 .. count : ~Solvable(n)}
  <2>1. SUFFICES ASSUME Wrong # {} PROVE FALSE OBVIOUS
  <2>2. Wrong \in SUBSET Nat BY <1>2
  <2> HIDE DEF Wrong
  <2>3. PICK n \in Wrong : \A m \in Wrong : n <= m BY <2>1, <2>2, LeastNumber
  <2> USE DEF Wrong
  <2>4. CASE n = 0
    <3> DEFINE h == [m \in 0 .. 0 |-> Root(path, sep)]
    <3>1. h = Upto(h, 0) OBVIOUS
    <3> QED BY <1>5, <2>3, <2>4, <3>1
  <2>5. CASE n # 0
    <3>1. n \in 1 .. count /\ n - 1 \in 0 .. count /\ n - 1 < n BY <1>2, <2>3, <2>5
    <3>2. Solvable(n - 1) BY <2>3, <3>1
    <3>3. PICK h : h = Upto(h, n - 1) BY <1>5, <3>2
    <3> DEFINE last == With(h[n - 1], n)
               g == [m \in 0 .. n |-> IF m = n THEN last ELSE h[m]]
    <3>4. \A m \in 0 .. n - 1 :
            h[m] = IF m = 0 THEN Root(path, sep) ELSE With(h[m - 1], m)
      BY <3>3
    <3>5. ASSUME NEW m \in 0 .. n
          PROVE  g[m] = IF m = 0 THEN Root(path, sep) ELSE With(g[m - 1], m)
      <4>1. CASE m = n
        <5>1. n - 1 \in 0 .. n /\ n - 1 # n BY <3>1
        <5> QED BY <2>5, <4>1, <5>1
      <4>2. CASE m # n
        <5>1. m \in 0 .. n - 1 /\ (m # 0 => m - 1 \in 0 .. n /\ m - 1 # n)
          BY <3>1, <4>2
        <5> QED BY <3>4, <4>2, <5>1
      <4> QED BY <4>1, <4>2
    <3>6. g = Upto(g, n)
      <4>1. g = [m \in 0 .. n |-> g[m]] OBVIOUS
      <4> HIDE DEF g
      <4> QED BY <3>5, <4>1
    <3> QED BY <1>5, <2>3, <3>6
  <2> QED BY <2>4, <2>5
<1>7. result = Step(result)
  <2>1. count \in 0 .. count BY <1>2
  <2>2. PICK h : h = Upto(h, count) BY <1>5, <1>6, <2>1
  <2>3. h = Step(h) BY <2>2
  <2> QED BY <2>3
<1> HIDE DEF result
<1>8. \A n \in 0 .. count :
        result[n] = IF n = 0 THEN Root(path, sep) ELSE With(result[n - 1], n)
  BY <1>7
<1> DEFINE Right(n) == Written(names, abs, n, result[n].text)
<1>9. Right(0)
  <2>1. result[0].text = IF abs THEN <<char>> ELSE <<>> BY <1>2, <1>3, <1>8
  <2> QED BY <2>1, RootIsWritten
<1>10. ASSUME NEW n \in 1 .. count, Right(n - 1) PROVE Right(n)
  <2> DEFINE t == result[n - 1].text
  <2>1. result[n] = With(result[n - 1], n)
    <3>1. n \in 0 .. count /\ n # 0 BY <1>2
    <3> QED BY <1>8, <3>1
  <2>2. result[n].text = IF n # count THEN (t \o names[n]) \o <<char>>
                         ELSE t \o names[n]
    BY <1>4, <2>1
  <2>3. Written(names, abs, n - 1, t) BY <1>10
  <2> HIDE DEF t
  <2>4. n \in 1 .. Len(names) BY <1>2
  <2>5. Written(names, abs, n, IF n # Len(names) THEN (t \o names[n]) \o <<char>>
                               ELSE t \o names[n])
    BY <2>3, <2>4, ComponentIsWritten
  <2> QED BY <1>2, <2>2, <2>5
<1> HIDE DEF Right
<1>11. \A n \in 0 .. count : Right(n)
  <2> DEFINE Wrong == {n \in 0 .. count : ~Right(n)}
  <2>1. SUFFICES ASSUME Wrong # {} PROVE FALSE OBVIOUS
  <2>2. Wrong \in SUBSET Nat BY <1>2
  <2> HIDE DEF Wrong
  <2>3. PICK n \in Wrong : \A m \in Wrong : n <= m BY <2>1, <2>2, LeastNumber
  <2> USE DEF Wrong
  <2>4. n # 0 BY <1>9, <2>3
  <2>5. n \in 1 .. count /\ n - 1 \in 0 .. count /\ n - 1 < n BY <1>2, <2>3, <2>4
  <2>6. Right(n - 1) BY <2>3, <2>5
  <2> QED BY <1>10, <2>3, <2>5, <2>6
<1>12. Right(count) BY <1>2, <1>11
<1> QED BY <1>1, <1>2, <1>12 DEF Right, path

(* What has been written after the last component is the path again.       *)
LEMMA RenderingIsCanonical ==
  ASSUME NEW names \in Seq(Seq(Char)), NEW abs \in BOOLEAN,
         NEW t, Written(names, abs, Len(names), t)
  PROVE  PathOf(t) = Path(abs, names) /\ Canonical(t)
<1>1. Len(names) \in Nat /\ t \in Seq(Char) /\ Len(t) \in Nat /\ DOMAIN t = 1 .. Len(t)
  BY LenProperties DEF Written
<1>2. ComponentsOf(t) = names
  <2>1. ComponentsOf(t) = SubSeq(names, 1, Len(names)) BY DEF Written
  <2> QED BY <2>1, SubSeqFull
<1>3. PathOf(t) = Path(PathOf(t).is_absolute, PathOf(t).components)
  BY DEF PathOf, Path
<1>4. PathOf(t).is_absolute = abs BY DEF Written
<1>5. Canonical(t)
  <2> SUFFICES ASSUME NEW p \in 1 .. Len(t), t[p] \in Separator
               PROVE  /\ p > 1 => t[p - 1] \notin Separator
                      /\ p = Len(t) => Len(t) = 1
    BY <1>1 DEF Canonical
  <2>1. p > 1 => t[p - 1] \notin Separator BY DEF Written, Single
  <2>2. ASSUME p = Len(t) PROVE Len(t) = 1
    <3>1. CASE Len(names) = 0
      <4>1. Len(t) <= 1 BY <3>1 DEF Written
      <4> QED BY <1>1, <4>1
    <3>2. CASE Len(names) # 0
      <4>1. Len(names) > 0 BY <1>1, <3>2
      <4>2. t[Len(t)] \notin Separator BY <4>1 DEF Written
      <4> QED BY <2>2, <4>2
    <3> QED BY <3>1, <3>2
  <2> QED BY <2>1, <2>2
<1> QED BY <1>2, <1>3, <1>4, <1>5 DEF ComponentsOf

-----------------------------------------------------------------------------
(* The path that has been parsed.                                          *)

LEMMA ParsedIsPath ==
  ASSUME ParserInv, ~parsing
  PROVE  str \in Seq(Char) /\ is_absolute \in BOOLEAN /\ Parsed = PathOf(str)
<1>1. /\ str \in Seq(Char) /\ is_absolute \in BOOLEAN /\ components \in Seq(Stretch)
      /\ (is_absolute <=> i > 0 /\ SeparatorAt(0)) /\ i = Len(str)
  BY DEF ParserInv, TypeOK, Absolute
<1>2. DOMAIN components = 1 .. Len(components) BY <1>1, CutIs
<1>3. PathOf(str).components =
        [n \in DOMAIN components |-> SubSeq(str, components[n].from + 1, components[n].to)]
  BY <1>1, <1>2, ParserCuts, CutIsPath
<1>4. PathOf(str).is_absolute = (str # <<>> /\ str[1] \in Separator)
  BY DEF PathOf, Path
<1>5. is_absolute = (str # <<>> /\ str[1] \in Separator)
  <2>1. i > 0 <=> str # <<>> BY <1>1, EmptySeq
  <2>2. SeparatorAt(0) <=> str[1] \in Separator BY DEF SeparatorAt
  <2>3. is_absolute <=> (str # <<>> /\ str[1] \in Separator) BY <1>1, <2>1, <2>2
  <2>4. CASE is_absolute = TRUE BY <2>3, <2>4
  <2>5. CASE is_absolute = FALSE BY <2>3, <2>5
  <2> QED BY <1>1, <2>4, <2>5
<1>6. PathOf(str) = Path(PathOf(str).is_absolute, PathOf(str).components)
  BY DEF PathOf, Path
<1>7. Parsed = Path(is_absolute,
                    [n \in DOMAIN components |->
                       SubSeq(str, components[n].from + 1, components[n].to)])
  BY DEF Parsed, Copied
<1> QED BY <1>1, <1>3, <1>4, <1>5, <1>6, <1>7

LEMMA ParsedSurvives ==
  ASSUME ParserInv
  PROVE  RoundTrip
<1> SUFFICES ASSUME ~parsing, NEW sep \in Separator
             PROVE  /\ Parsed = PathOf(str)
                    /\ PathOf(NewStringRepresentation(Parsed, sep).text) = Parsed
                    /\ Canonical(NewStringRepresentation(Parsed, sep).text)
  BY ParsedIsPath DEF RoundTrip
<1> DEFINE names == ComponentsOf(str)
<1>1. str \in Seq(Char) /\ is_absolute \in BOOLEAN /\ Parsed = PathOf(str)
  BY ParsedIsPath
<1>2. names \in Seq(Seq(Char)) /\ \A n \in 1 .. Len(names) : Name(names[n])
  BY <1>1, ComponentsAre
<1>3. Parsed = Path(is_absolute, names)
  <2>1. Parsed.is_absolute = is_absolute BY DEF Parsed, Path
  <2>2. PathOf(str) = Path(PathOf(str).is_absolute, names)
    BY DEF PathOf, Path, ComponentsOf
  <2> QED BY <1>1, <2>1, <2>2
<1> HIDE DEF names
<1>4. Written(names, is_absolute, Len(names),
              NewStringRepresentation(Path(is_absolute, names), sep).text)
  BY <1>1, <1>2, RenderingIsWritten
<1> QED BY <1>1, <1>2, <1>3, <1>4, RenderingIsCanonical

LEMMA AddingWrites ==
  ASSUME ParserInv
  PROVE  AddIsTextual
<1> USE DEF KFilePathAddComponent
<1> SUFFICES ASSUME ~parsing, str # <<>>, NEW sep \in Separator, NEW suffix \in Suffix
             PROVE  KFilePathAddComponent(Parsed, PathOf(suffix)) =
                      IF PathOf(suffix).is_absolute THEN Parsed
                      ELSE PathOf(str \o <<sep>> \o suffix)
  BY DEF AddIsTextual
<1>1. CASE PathOf(suffix).is_absolute BY <1>1
<1>2. CASE ~PathOf(suffix).is_absolute
  <2> DEFINE a == str \o <<sep>>
  <2>1. str \in Seq(Char) /\ suffix \in Seq(Char) /\ Parsed = PathOf(str)
    BY ParsedIsPath, SuffixAssumption
  <2>2. /\ <<sep>> \in Seq(Char) /\ Len(<<sep>>) = 1 /\ <<sep>>[1] = sep /\ <<sep>> # <<>>
    BY ParserAssumption, OneByteIs
  <2>3. ComponentsOf(<<sep>>) = <<>>
    <3>1. \A p \in 1 .. Len(<<sep>>) : <<sep>>[p] \in Separator BY <2>2
    <3> QED BY <2>2, <3>1, ComponentsOfSeparators
  <2>4. ComponentsOf(a) = ComponentsOf(str)
    <3>1. Apart(str, <<sep>>) BY <2>2 DEF Apart
    <3>2. ComponentsOf(a) = ComponentsOf(str) \o ComponentsOf(<<sep>>)
      BY <2>1, <2>2, <3>1, ComponentsOfSum
    <3>3. ComponentsOf(str) \in Seq(Seq(Char)) BY <2>1, ComponentsAre
    <3> QED BY <2>3, <3>2, <3>3, ConcatEmptySeq
  <2>5. /\ a \in Seq(Char) /\ a # <<>> /\ a[Len(a)] = sep
    <3> DEFINE s == <<sep>>
    <3>1. /\ a \in Seq(Char) /\ Len(a) = Len(str) + 1 /\ Len(str) \in Nat
          /\ a[1 + Len(str)] = s[1]
      <4> HIDE DEF s
      <4>1. /\ s \in Seq(Char) /\ Len(s) = 1 BY <2>2 DEF s
      <4>2. /\ str \o s \in Seq(Char) /\ Len(str \o s) = Len(str) + 1 /\ Len(str) \in Nat
            /\ (str \o s)[1 + Len(str)] = s[1]
        <5>1. 1 \in 1 .. Len(s) BY <4>1
        <5>2. \A p \in 1 .. Len(s) : (str \o s)[p + Len(str)] = s[p]
          BY <2>1, <4>1, SumIs
        <5>3. (str \o s)[1 + Len(str)] = s[1] BY <5>1, <5>2
        <5>4. /\ str \o s \in Seq(Char) /\ Len(str \o s) = Len(str) + Len(s)
              /\ Len(str) \in Nat
          BY <2>1, <4>1, SumIs
        <5> QED BY <4>1, <5>3, <5>4
      <4> QED BY <4>2 DEF s
    <3> HIDE DEF a
    <3>2. Len(a) = 1 + Len(str) /\ Len(a) # 0 BY <3>1
    <3> QED BY <2>2, <3>1, <3>2, EmptySeq
  <2>6. PathOf(a).is_absolute = PathOf(str).is_absolute BY <2>1, <2>2, AbsoluteOfSum
  <2> HIDE DEF a
  <2>7. ComponentsOf(a \o suffix) = ComponentsOf(str) \o ComponentsOf(suffix)
    <3>1. Apart(a, suffix) BY <2>5 DEF Apart
    <3> QED BY <2>1, <2>4, <2>5, <3>1, ComponentsOfSum
  <2>8. PathOf(a \o suffix).is_absolute = PathOf(str).is_absolute
    BY <2>1, <2>5, <2>6, AbsoluteOfSum
  <2>9. /\ PathOf(a \o suffix) = Path(PathOf(a \o suffix).is_absolute,
                                      ComponentsOf(a \o suffix))
        /\ PathOf(str) = Path(PathOf(str).is_absolute, ComponentsOf(str))
    BY DEF PathOf, Path, ComponentsOf
  <2>10. [PathOf(str) EXCEPT !.components = @ \o PathOf(suffix).components] =
           Path(PathOf(str).is_absolute, ComponentsOf(str) \o ComponentsOf(suffix))
    <3> DEFINE p == PathOf(str)
               x == p.components \o PathOf(suffix).components
    <3>1. p = [is_absolute |-> p.is_absolute, components |-> p.components]
      BY <2>9 DEF Path, ComponentsOf
    <3> HIDE DEF p, x
    <3>2. [p EXCEPT !.components = x] = [is_absolute |-> p.is_absolute, components |-> x]
      BY <3>1
    <3> QED BY <3>2 DEF p, x, Path, ComponentsOf
  <2> QED BY <1>2, <2>1, <2>7, <2>8, <2>9, <2>10 DEF a
<1> QED BY <1>1, <1>2

(* KFilePathNewStringRepresentationWithSeparator writes what               *)
(* KFilePathNewWithString reads: for every string, of any length, the path *)
(* that was parsed is the reference one, and the string that is written of *)
(* it, with either separator, has that path and no separator too many.     *)
THEOREM PathsSurviveRendering == Spec => []RoundTrip
BY ParserInvariant, ParsedSurvives, PTL

(* KFilePathAddComponent of a relative path is writing it after the string *)
(* and a separator; of an absolute path it is nothing.                     *)
THEOREM AddingIsWriting == Spec => []AddIsTextual
BY ParserInvariant, AddingWrites, PTL

=============================================================================
