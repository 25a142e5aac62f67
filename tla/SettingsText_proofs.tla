------------------------ MODULE SettingsText_proofs ------------------------
(***************************************************************************)
(* Lemmas about the operators of SettingsText: how splitting undoes what   *)
(* the server put together.                                                *)
(***************************************************************************)
EXTENDS SettingsText, SequenceTheorems, WellFoundedInduction, TLAPS

\* A set of naturals with a member has a least one.
LEMMA LeastNatural ==
    ASSUME NEW T \in SUBSET Nat, T # {}
    PROVE  \E x \in T : \A y \in T : x <= y
<1>1. PICK x \in T : \A y \in T : ~ (<<y, x>> \in OpToRel(<, Nat))
  BY NatLessThanWellFounded, WFMin, Zenon
<1>2. \A y \in T : ~ (y < x)
  BY <1>1 DEF OpToRel
<1>. QED BY <1>2

\* FirstIn returns a position of s from i on, or one past the end.
LEMMA FirstInRange ==
    ASSUME NEW s \in Text, NEW i \in Nat \ {0}, NEW S
    PROVE  /\ FirstIn(s, i, S) \in Nat \ {0}
           /\ FirstIn(s, i, S) <= Len(s) + 1
<1>. DEFINE T == {j \in i .. Len(s) : s[j] \in S}
<1>0. Len(s) \in Nat BY DEF Text
<1>1. CASE T # {}
  <2>1. T \in SUBSET Nat BY <1>0
  <2>2. PICK x \in T : \A y \in T : x <= y
    BY <1>1, <2>1, LeastNatural
  <2>3. \A k \in i .. x - 1 : s[k] \notin S
    BY <2>2, <1>0
  <2>. QED BY <2>2, <2>3, <1>0 DEF FirstIn
<1>2. CASE T = {}
  BY <1>0, <1>2 DEF FirstIn
<1>. QED BY <1>1, <1>2

\* The first member of S from i on is where FirstIn says it is.
LEMMA FirstInIs ==
    ASSUME NEW s \in Text, NEW i \in Nat \ {0}, NEW S,
           NEW j \in i .. Len(s), s[j] \in S,
           \A k \in i .. j - 1 : s[k] \notin S
    PROVE  FirstIn(s, i, S) = j
<1>0. Len(s) \in Nat BY DEF Text
<1>. DEFINE F(n) == /\ n \in i .. Len(s)
                    /\ s[n] \in S
                    /\ \A k \in i .. n - 1 : s[k] \notin S
<1>1. \A n : F(n) => n = j
  BY <1>0
<1>2. FirstIn(s, i, S) = CHOOSE n \in i .. Len(s) :
            s[n] \in S /\ \A k \in i .. n - 1 : s[k] \notin S
  BY DEF FirstIn
<1>3. F(j) OBVIOUS
<1>. QED BY <1>1, <1>2, <1>3

\* Where there is a member of S from i on, FirstIn is at the first one.
LEMMA FirstAt ==
    ASSUME NEW s \in Text, NEW i \in Nat \ {0}, NEW S,
           \E j \in i .. Len(s) : s[j] \in S
    PROVE  /\ FirstIn(s, i, S) \in i .. Len(s)
           /\ s[FirstIn(s, i, S)] \in S
           /\ \A k \in i .. FirstIn(s, i, S) - 1 : s[k] \notin S
<1>. DEFINE T == {j \in i .. Len(s) : s[j] \in S}
<1>0. Len(s) \in Nat BY DEF Text
<1>1. T \in SUBSET Nat /\ T # {} BY <1>0
<1>2. PICK x \in T : \A y \in T : x <= y
  BY <1>1, LeastNatural
<1>3. \A k \in i .. x - 1 : s[k] \notin S
  BY <1>2, <1>0
<1>4. FirstIn(s, i, S) = x
  BY <1>2, <1>3, FirstInIs
<1>. QED BY <1>2, <1>3, <1>4

\* With no member of S from i on, FirstIn is one past the end.
LEMMA FirstInNone ==
    ASSUME NEW s \in Text, NEW i \in Nat \ {0}, NEW S,
           \A j \in i .. Len(s) : s[j] \notin S
    PROVE  FirstIn(s, i, S) = Len(s) + 1
BY DEF FirstIn

\* An element of a text is a text, whatever the text is.
LEMMA ElementType ==
    ASSUME NEW s \in Text, NEW n \in 0 .. 3
    PROVE  Element(s, n) \in Text
<1>. DEFINE Start(i) == FirstIn(s, i, {Colon}) + 1
<1>1. \A i \in Nat \ {0} : Start(i) \in Nat \ {0}
  BY FirstInRange
<1>2. ElementStart(s, n) \in Nat \ {0}
  <2>1. Start(1) \in Nat \ {0} BY <1>1
  <2>2. Start(Start(1)) \in Nat \ {0} BY <1>1, <2>1
  <2>3. Start(Start(Start(1))) \in Nat \ {0} BY <1>1, <2>2
  <2>4. n = 0 \/ n = 1 \/ n = 2 \/ n = 3 OBVIOUS
  <2>. HIDE DEF Start
  <2>. QED BY <2>1, <2>2, <2>3, <2>4 DEF ElementStart, Start
<1>. DEFINE a == ElementStart(s, n)
            b == FirstIn(s, a, {Colon}) - 1
<1>3. b \in Int /\ b <= Len(s)
  BY <1>2, FirstInRange DEF Text
<1>4. \A i \in a .. b : s[i] \in Char
  BY <1>2, <1>3 DEF Text
<1>. HIDE DEF a, b
<1>5. SubSeq(s, a, b) \in Seq(Char)
  BY <1>2, <1>3, <1>4, SubSeqProperties DEF a
<1>. QED BY <1>5 DEF Element, GetLine, Text, a, b

-----------------------------------------------------------------------------
(* Where the fields of a response are.                                     *)

Colon1(l) == Len(l) + 1
Colon2(l, q) == Len(l) + Len(q) + 2
Colon3(l, q, f) == Len(l) + Len(q) + Len(f) + 3

\* The response with the fields l, q, f and x.
Join(l, q, f, x) == l \o <<Colon>> \o q \o <<Colon>> \o f \o <<Colon>> \o x

\* The characters of such a response s, position by position.
Shape(s, l, q, f, x) ==
    /\ s \in Text
    /\ Len(s) = Colon3(l, q, f) + Len(x)
    /\ \A i \in 1 .. Colon1(l) - 1 : s[i] = l[i]
    /\ s[Colon1(l)] = Colon
    /\ \A i \in Colon1(l) + 1 .. Colon2(l, q) - 1 : s[i] = q[i - Colon1(l)]
    /\ s[Colon2(l, q)] = Colon
    /\ \A i \in Colon2(l, q) + 1 .. Colon3(l, q, f) - 1 : s[i] = f[i - Colon2(l, q)]
    /\ s[Colon3(l, q, f)] = Colon
    /\ \A i \in Colon3(l, q, f) + 1 .. Len(s) : s[i] = x[i - Colon3(l, q, f)]

\* The characters of a concatenation.
LEMMA Concatenation ==
    ASSUME NEW a \in Text, NEW b \in Text
    PROVE  /\ a \o b \in Text
           /\ Len(a \o b) = Len(a) + Len(b)
           /\ \A i \in 1 .. Len(a) : (a \o b)[i] = a[i]
           /\ \A i \in Len(a) + 1 .. Len(a) + Len(b) : (a \o b)[i] = b[i - Len(a)]
<1>1. Len(a) \in Nat /\ Len(b) \in Nat BY DEF Text
<1>. QED BY <1>1, ConcatProperties DEF Text

\* Every response has that shape.
LEMMA JoinShape ==
    ASSUME NEW l \in FieldText, NEW q \in FieldText,
           NEW f \in FieldText, NEW x \in Text
    PROVE  Shape(Join(l, q, f, x), l, q, f, x)
<1>. DEFINE s1 == l \o <<Colon>>
            s2 == s1 \o q
            s3 == s2 \o <<Colon>>
            s4 == s3 \o f
            s5 == s4 \o <<Colon>>
            s6 == s5 \o x
<1>1. /\ l \in Text /\ q \in Text
      /\ f \in Text /\ x \in Text
  <2>1. FieldText \subseteq Text
    BY SeqMonotonic, Char \ {Colon} \subseteq Char DEF FieldText, Text
  <2>. QED BY <2>1
<1>2. <<Colon>> \in Text
  BY CharAssumption DEF Text
<1>3. /\ Len(l) \in Nat /\ Len(q) \in Nat
      /\ Len(f) \in Nat /\ Len(x) \in Nat
      /\ Len(<<Colon>>) = 1 /\ <<Colon>>[1] = Colon
  BY <1>1 DEF Text
<1>4. /\ Colon1(l) = Len(l) + 1
      /\ Colon2(l, q) = Len(l) + Len(q) + 2
      /\ Colon3(l, q, f) = Len(l) + Len(q) + Len(f) + 3
      /\ Colon1(l) \in Nat /\ Colon2(l, q) \in Nat /\ Colon3(l, q, f) \in Nat
  BY <1>3 DEF Colon1, Colon2, Colon3
<1>. HIDE DEF s1, s2, s3, s4, s5, s6
<1>5. /\ s1 \in Text /\ Len(s1) = Colon1(l)
      /\ \A i \in 1 .. Colon1(l) - 1 : s1[i] = l[i]
      /\ s1[Colon1(l)] = Colon
  <2>1. /\ s1 \in Text /\ Len(s1) = Len(l) + 1
        /\ \A i \in 1 .. Len(l) : s1[i] = l[i]
        /\ \A i \in Len(l) + 1 .. Len(l) + 1 :
             s1[i] = <<Colon>>[i - Len(l)]
    BY <1>1, <1>2, <1>3, Concatenation DEF s1
  <2>. QED BY <2>1, <1>3, <1>4
<1>6. /\ s2 \in Text /\ Len(s2) = Colon2(l, q) - 1
      /\ \A i \in 1 .. Colon1(l) : s2[i] = s1[i]
      /\ \A i \in Colon1(l) + 1 .. Colon2(l, q) - 1 :
            s2[i] = q[i - Colon1(l)]
  <2>1. /\ s2 \in Text /\ Len(s2) = Len(s1) + Len(q)
        /\ \A i \in 1 .. Len(s1) : s2[i] = s1[i]
        /\ \A i \in Len(s1) + 1 .. Len(s1) + Len(q) : s2[i] = q[i - Len(s1)]
    BY <1>1, <1>5, Concatenation DEF s2
  <2>. QED BY <2>1, <1>3, <1>4, <1>5
<1>7. /\ s3 \in Text /\ Len(s3) = Colon2(l, q)
      /\ \A i \in 1 .. Colon2(l, q) - 1 : s3[i] = s2[i]
      /\ s3[Colon2(l, q)] = Colon
  <2>1. /\ s3 \in Text /\ Len(s3) = Len(s2) + 1
        /\ \A i \in 1 .. Len(s2) : s3[i] = s2[i]
        /\ \A i \in Len(s2) + 1 .. Len(s2) + 1 : s3[i] = <<Colon>>[i - Len(s2)]
    BY <1>2, <1>3, <1>6, Concatenation DEF s3
  <2>. QED BY <2>1, <1>3, <1>4, <1>6
<1>8. /\ s4 \in Text /\ Len(s4) = Colon3(l, q, f) - 1
      /\ \A i \in 1 .. Colon2(l, q) : s4[i] = s3[i]
      /\ \A i \in Colon2(l, q) + 1 .. Colon3(l, q, f) - 1 :
            s4[i] = f[i - Colon2(l, q)]
  <2>1. /\ s4 \in Text /\ Len(s4) = Len(s3) + Len(f)
        /\ \A i \in 1 .. Len(s3) : s4[i] = s3[i]
        /\ \A i \in Len(s3) + 1 .. Len(s3) + Len(f) : s4[i] = f[i - Len(s3)]
    BY <1>1, <1>7, Concatenation DEF s4
  <2>. QED BY <2>1, <1>3, <1>4, <1>7
<1>9. /\ s5 \in Text /\ Len(s5) = Colon3(l, q, f)
      /\ \A i \in 1 .. Colon3(l, q, f) - 1 : s5[i] = s4[i]
      /\ s5[Colon3(l, q, f)] = Colon
  <2>1. /\ s5 \in Text /\ Len(s5) = Len(s4) + 1
        /\ \A i \in 1 .. Len(s4) : s5[i] = s4[i]
        /\ \A i \in Len(s4) + 1 .. Len(s4) + 1 : s5[i] = <<Colon>>[i - Len(s4)]
    BY <1>2, <1>3, <1>8, Concatenation DEF s5
  <2>. QED BY <2>1, <1>3, <1>4, <1>8
<1>10. /\ s6 \in Text /\ Len(s6) = Colon3(l, q, f) + Len(x)
       /\ \A i \in 1 .. Colon3(l, q, f) : s6[i] = s5[i]
       /\ \A i \in Colon3(l, q, f) + 1 .. Colon3(l, q, f) + Len(x) :
             s6[i] = x[i - Colon3(l, q, f)]
  <2>1. /\ s6 \in Text /\ Len(s6) = Len(s5) + Len(x)
        /\ \A i \in 1 .. Len(s5) : s6[i] = s5[i]
        /\ \A i \in Len(s5) + 1 .. Len(s5) + Len(x) : s6[i] = x[i - Len(s5)]
    BY <1>1, <1>9, Concatenation DEF s6
  <2>. QED BY <2>1, <1>3, <1>4, <1>9
<1>11. Join(l, q, f, x) = s6
  BY DEF Join, s1, s2, s3, s4, s5, s6
<1>12. /\ Colon1(l) \in Nat /\ 1 <= Colon1(l)
       /\ Colon2(l, q) \in Nat /\ Colon1(l) < Colon2(l, q)
       /\ Colon3(l, q, f) \in Nat /\ Colon2(l, q) < Colon3(l, q, f)
  BY <1>3, <1>4
<1>13. /\ \A i \in 1 .. Colon3(l, q, f) - 1 : s6[i] = s4[i]
       /\ \A i \in 1 .. Colon2(l, q) : s6[i] = s3[i]
       /\ \A i \in 1 .. Colon2(l, q) - 1 : s6[i] = s2[i]
       /\ \A i \in 1 .. Colon1(l) : s6[i] = s1[i]
  <2>1. \A i \in 1 .. Colon3(l, q, f) - 1 : s6[i] = s4[i]
    BY <1>9, <1>10, <1>12
  <2>2. \A i \in 1 .. Colon2(l, q) : s6[i] = s3[i]
    BY <2>1, <1>8, <1>12
  <2>3. \A i \in 1 .. Colon2(l, q) - 1 : s6[i] = s2[i]
    BY <2>2, <1>7, <1>12
  <2>4. \A i \in 1 .. Colon1(l) : s6[i] = s1[i]
    BY <2>3, <1>6, <1>12
  <2>. QED BY <2>1, <2>2, <2>3, <2>4
<1>14. \A i \in 1 .. Colon1(l) - 1 : s6[i] = l[i]
  BY <1>5, <1>12, <1>13
<1>15. s6[Colon1(l)] = Colon /\ s6[Colon2(l, q)] = Colon /\ s6[Colon3(l, q, f)] = Colon
  BY <1>5, <1>7, <1>9, <1>10, <1>12, <1>13
<1>16. \A i \in Colon1(l) + 1 .. Colon2(l, q) - 1 : s6[i] = q[i - Colon1(l)]
  BY <1>6, <1>12, <1>13
<1>17. \A i \in Colon2(l, q) + 1 .. Colon3(l, q, f) - 1 : s6[i] = f[i - Colon2(l, q)]
  BY <1>8, <1>12, <1>13
<1>. QED BY <1>10, <1>11, <1>14, <1>15, <1>16, <1>17 DEF Shape

(***************************************************************************)
(* Splitting a response at the colons gives its fields back, as long as    *)
(* the last one is not empty; the first ones also when more text follows.  *)
(***************************************************************************)
LEMMA JoinElements ==
    ASSUME NEW l \in FieldText, NEW q \in FieldText,
           NEW f \in FieldText, NEW x \in Text
    PROVE  LET s == Join(l, q, f, x)
           IN  /\ HasElement(s, 1) /\ Element(s, 1) = q
               /\ HasElement(s, 2) /\ Element(s, 2) = f
               /\ HasElement(s, 3) <=> x # <<>>
               /\ x \in FieldText => Element(s, 3) = x
<1>. DEFINE s == Join(l, q, f, x)
            c1 == Colon1(l)
            c2 == Colon2(l, q)
            c3 == Colon3(l, q, f)
<1>1. /\ l \in FieldText /\ q \in FieldText
      /\ f \in FieldText /\ x \in Text
  OBVIOUS
<1>2. /\ Len(l) \in Nat /\ Len(q) \in Nat
      /\ Len(f) \in Nat /\ Len(x) \in Nat
  BY <1>1 DEF FieldText, Text
<1>3. /\ c1 = Len(l) + 1
      /\ c2 = Len(l) + Len(q) + 2
      /\ c3 = Len(l) + Len(q) + Len(f) + 3
      /\ c1 \in Nat \ {0} /\ c2 \in Nat \ {0} /\ c3 \in Nat \ {0}
  BY <1>2 DEF Colon1, Colon2, Colon3
<1>4. /\ s \in Text
      /\ Len(s) = c3 + Len(x)
      /\ s[c1] = Colon /\ s[c2] = Colon /\ s[c3] = Colon
      /\ \A i \in 1 .. c1 - 1 : s[i] = l[i]
      /\ \A i \in c1 + 1 .. c2 - 1 : s[i] = q[i - c1]
      /\ \A i \in c2 + 1 .. c3 - 1 : s[i] = f[i - c2]
      /\ \A i \in c3 + 1 .. Len(s) : s[i] = x[i - c3]
  <2>1. Shape(s, l, q, f, x) BY JoinShape
  <2>. HIDE DEF s
  <2>. QED BY <2>1 DEF Shape
<1>. HIDE DEF s, c1, c2, c3
<1>5. \A t \in FieldText : \A i \in 1 .. Len(t) : t[i] # Colon
  BY DEF FieldText
<1>6. /\ \A i \in 1 .. c1 - 1 : s[i] # Colon
      /\ \A i \in c1 + 1 .. c2 - 1 : s[i] # Colon
      /\ \A i \in c2 + 1 .. c3 - 1 : s[i] # Colon
      /\ x \in FieldText => \A i \in c3 + 1 .. Len(s) : s[i] # Colon
  <2>1. \A i \in 1 .. c1 - 1 : s[i] # Colon
    <3>1. \A i \in 1 .. c1 - 1 : i \in 1 .. Len(l) BY <1>2, <1>3
    <3>. QED BY <3>1, <1>1, <1>4, <1>5
  <2>2. \A i \in c1 + 1 .. c2 - 1 : s[i] # Colon
    <3>1. \A i \in c1 + 1 .. c2 - 1 : i - c1 \in 1 .. Len(q) BY <1>2, <1>3
    <3>. QED BY <3>1, <1>1, <1>4, <1>5
  <2>3. \A i \in c2 + 1 .. c3 - 1 : s[i] # Colon
    <3>1. \A i \in c2 + 1 .. c3 - 1 : i - c2 \in 1 .. Len(f) BY <1>2, <1>3
    <3>. QED BY <3>1, <1>1, <1>4, <1>5
  <2>4. ASSUME x \in FieldText PROVE \A i \in c3 + 1 .. Len(s) : s[i] # Colon
    <3>1. \A i \in c3 + 1 .. Len(s) : i - c3 \in 1 .. Len(x) BY <1>2, <1>3, <1>4
    <3>. QED BY <3>1, <2>4, <1>4, <1>5
  <2>. QED BY <2>1, <2>2, <2>3, <2>4
<1>7. /\ FirstIn(s, 1, {Colon}) = c1
      /\ FirstIn(s, c1 + 1, {Colon}) = c2
      /\ FirstIn(s, c2 + 1, {Colon}) = c3
      /\ x \in FieldText => FirstIn(s, c3 + 1, {Colon}) = Len(s) + 1
  <2>1. FirstIn(s, 1, {Colon}) = c1
    <3>1. 1 \in Nat \ {0} /\ c1 \in 1 .. Len(s) BY <1>2, <1>3, <1>4
    <3>2. s[c1] \in {Colon} /\ \A k \in 1 .. c1 - 1 : s[k] \notin {Colon}
      BY <1>4, <1>6
    <3>. QED BY <3>1, <3>2, <1>4, FirstInIs
  <2>2. FirstIn(s, c1 + 1, {Colon}) = c2
    <3>1. c1 + 1 \in Nat \ {0} /\ c2 \in c1 + 1 .. Len(s) BY <1>2, <1>3, <1>4
    <3>2. s[c2] \in {Colon} /\ \A k \in c1 + 1 .. c2 - 1 : s[k] \notin {Colon}
      BY <1>4, <1>6
    <3>. QED BY <3>1, <3>2, <1>4, FirstInIs
  <2>3. FirstIn(s, c2 + 1, {Colon}) = c3
    <3>1. c2 + 1 \in Nat \ {0} /\ c3 \in c2 + 1 .. Len(s) BY <1>2, <1>3, <1>4
    <3>2. s[c3] \in {Colon} /\ \A k \in c2 + 1 .. c3 - 1 : s[k] \notin {Colon}
      BY <1>4, <1>6
    <3>. QED BY <3>1, <3>2, <1>4, FirstInIs
  <2>4. ASSUME x \in FieldText PROVE FirstIn(s, c3 + 1, {Colon}) = Len(s) + 1
    <3>1. c3 + 1 \in Nat \ {0} BY <1>3
    <3>. QED BY <3>1, <2>4, <1>4, <1>6, FirstInNone
  <2>. QED BY <2>1, <2>2, <2>3, <2>4
<1>8. /\ ElementStart(s, 1) = c1 + 1
      /\ ElementStart(s, 2) = c2 + 1
      /\ ElementStart(s, 3) = c3 + 1
  BY <1>7 DEF ElementStart
<1>9. /\ Element(s, 1) = SubSeq(s, c1 + 1, c2 - 1)
      /\ Element(s, 2) = SubSeq(s, c2 + 1, c3 - 1)
      /\ x \in FieldText => Element(s, 3) = SubSeq(s, c3 + 1, Len(s))
  <2>0. Len(s) \in Nat BY <1>4 DEF Text
  <2>. DEFINE e == Len(s) + 1
  <2>1. e - 1 = Len(s) BY <2>0
  <2>2. \A n : Element(s, n) =
            SubSeq(s, ElementStart(s, n), FirstIn(s, ElementStart(s, n), {Colon}) - 1)
    BY Zenon DEF Element, GetLine
  <2>3. /\ FirstIn(s, ElementStart(s, 1), {Colon}) = c2
        /\ FirstIn(s, ElementStart(s, 2), {Colon}) = c3
        /\ x \in FieldText => FirstIn(s, ElementStart(s, 3), {Colon}) = e
    BY <1>7, <1>8, Zenon
  <2>. HIDE DEF e
  <2>4. Element(s, 1) = SubSeq(s, c1 + 1, c2 - 1)
    BY <1>8, <2>2, <2>3, Zenon
  <2>5. Element(s, 2) = SubSeq(s, c2 + 1, c3 - 1)
    BY <1>8, <2>2, <2>3, Zenon
  <2>6. x \in FieldText => Element(s, 3) = SubSeq(s, c3 + 1, e - 1)
    BY <1>8, <2>2, <2>3, Zenon
  <2>. QED BY <2>1, <2>4, <2>5, <2>6
<1>10. ASSUME NEW t \in Text, NEW a \in Nat, a + Len(t) <= Len(s),
              \A i \in a + 1 .. a + Len(t) : s[i] = t[i - a]
       PROVE  SubSeq(s, a + 1, a + Len(t)) = t
  <2>0. Len(t) \in Nat /\ Len(s) \in Nat BY <1>4 DEF Text
  <2>1. \A i \in a + 1 .. a + Len(t) : s[i] \in Char
    BY <2>0, <1>4, <1>10 DEF Text
  <2>2. /\ SubSeq(s, a + 1, a + Len(t)) \in Seq(Char)
        /\ Len(SubSeq(s, a + 1, a + Len(t))) = Len(t)
        /\ \A i \in 1 .. Len(t) : SubSeq(s, a + 1, a + Len(t))[i] = s[a + i]
    BY <2>0, <2>1, SubSeqProperties
  <2>3. \A i \in 1 .. Len(t) : s[a + i] = t[i]
    BY <2>0, <1>10
  <2>. QED BY <2>2, <2>3, SeqEqual DEF Text
<1>11. /\ q \in Text /\ f \in Text /\ x \in Text
  <2>1. FieldText \subseteq Text
    BY SeqMonotonic, Char \ {Colon} \subseteq Char DEF FieldText, Text
  <2>. QED BY <1>1, <2>1
<1>12. SubSeq(s, c1 + 1, c2 - 1) = q
  <2>1. \A i \in c1 + 1 .. c1 + Len(q) : s[i] = q[i - c1]
    BY <1>2, <1>3, <1>4
  <2>2. c1 \in Nat /\ c1 + Len(q) <= Len(s) /\ c1 + Len(q) = c2 - 1
    BY <1>2, <1>3, <1>4
  <2>3. SubSeq(s, c1 + 1, c1 + Len(q)) = q
    BY <2>1, <2>2, <1>10, <1>11
  <2>. QED BY <2>2, <2>3
<1>13. SubSeq(s, c2 + 1, c3 - 1) = f
  <2>1. \A i \in c2 + 1 .. c2 + Len(f) : s[i] = f[i - c2]
    BY <1>2, <1>3, <1>4
  <2>2. c2 \in Nat /\ c2 + Len(f) <= Len(s) /\ c2 + Len(f) = c3 - 1
    BY <1>2, <1>3, <1>4
  <2>3. SubSeq(s, c2 + 1, c2 + Len(f)) = f
    BY <2>1, <2>2, <1>10, <1>11
  <2>. QED BY <2>2, <2>3
<1>14. SubSeq(s, c3 + 1, Len(s)) = x
  <2>1. \A i \in c3 + 1 .. c3 + Len(x) : s[i] = x[i - c3]
    BY <1>2, <1>3, <1>4
  <2>2. c3 \in Nat /\ c3 + Len(x) <= Len(s) /\ c3 + Len(x) = Len(s)
    BY <1>2, <1>3, <1>4
  <2>3. SubSeq(s, c3 + 1, c3 + Len(x)) = x
    BY <2>1, <2>2, <1>10, <1>11
  <2>. QED BY <2>2, <2>3
<1>15. x # <<>> <=> Len(x) # 0
  BY EmptySeq DEF Text
<1>16. /\ HasElement(s, 1) /\ HasElement(s, 2)
       /\ HasElement(s, 3) <=> x # <<>>
  BY <1>2, <1>3, <1>4, <1>8, <1>15 DEF HasElement
<1>. QED BY <1>9, <1>12, <1>13, <1>14, <1>16 DEF s

\* The response to a policy has its fields as elements, in their places.
LEMMA ResponseElements ==
    ASSUME NEW p \in PolicyType
    PROVE  /\ HasElement(Response(p), 1) /\ Element(Response(p), 1) = p.processes
           /\ HasElement(Response(p), 2) /\ Element(Response(p), 2) = p.paths
           /\ HasElement(Response(p), 3) <=> p.exts # <<>>
           /\ Element(Response(p), 3) = p.exts
           /\ Response(p) \in Text
           /\ Response(p) # <<>>
<1>1. /\ p.length \in FieldText /\ p.processes \in FieldText
      /\ p.paths \in FieldText /\ p.exts \in FieldText
  BY DEF PolicyType
<1>2. Response(p) = Join(p.length, p.processes, p.paths, p.exts)
  BY DEF Response, Join
<1>0. FieldText \subseteq Text
  BY SeqMonotonic, Char \ {Colon} \subseteq Char DEF FieldText, Text
<1>3. \A l, q, f, x \in FieldText :
        Join(l, q, f, x) \in Text /\ Join(l, q, f, x) # <<>>
  <2>. TAKE l, q, f, x \in FieldText
  <2>. DEFINE s == Join(l, q, f, x)
  <2>1. s \in Text /\ Len(s) = Colon3(l, q, f) + Len(x)
    BY <1>0, JoinShape DEF Shape
  <2>. HIDE DEF s
  <2>2. Len(l) \in Nat /\ Len(q) \in Nat /\ Len(f) \in Nat /\ Len(x) \in Nat
    BY DEF FieldText
  <2>3. Len(s) # 0
    BY <2>1, <2>2 DEF Colon3
  <2>. QED BY <2>1, <2>3 DEF s
<1>4. \A l, q, f, x \in FieldText :
        LET s == Join(l, q, f, x)
        IN  /\ HasElement(s, 1) /\ Element(s, 1) = q
            /\ HasElement(s, 2) /\ Element(s, 2) = f
            /\ HasElement(s, 3) <=> x # <<>>
            /\ Element(s, 3) = x
  BY <1>0, JoinElements
<1>. DEFINE s == Join(p.length, p.processes, p.paths, p.exts)
<1>5. s \in Text /\ s # <<>>
  BY <1>1, <1>3, Zenon
<1>6. /\ HasElement(s, 1) /\ Element(s, 1) = p.processes
      /\ HasElement(s, 2) /\ Element(s, 2) = p.paths
      /\ HasElement(s, 3) <=> p.exts # <<>>
      /\ Element(s, 3) = p.exts
  BY <1>1, <1>4, SMTT(20)
<1>7. Response(p) = s
  BY <1>2
<1>. HIDE DEF s
<1>. QED BY <1>5, <1>6, <1>7

(***************************************************************************)
(* However much text follows a response, its processes and its paths are   *)
(* found where they were.                                                  *)
(***************************************************************************)
LEMMA FrontElements ==
    ASSUME NEW p \in PolicyType, NEW t \in Text
    PROVE  LET s == Response(p) \o t
           IN  /\ HasElement(s, 1) /\ Element(s, 1) = p.processes
               /\ HasElement(s, 2) /\ Element(s, 2) = p.paths
<1>1. /\ p.length \in FieldText /\ p.processes \in FieldText
      /\ p.paths \in FieldText /\ p.exts \in FieldText
  BY DEF PolicyType
<1>2. FieldText \subseteq Text /\ <<Colon>> \in Text
  BY CharAssumption, SeqMonotonic, Char \ {Colon} \subseteq Char DEF FieldText, Text
<1>. DEFINE front == p.length \o <<Colon>> \o p.processes \o <<Colon>> \o p.paths \o <<Colon>>
<1>3. front \in Text /\ p.exts \in Text /\ p.exts \o t \in Text
  BY <1>1, <1>2, Concatenation
<1>4. Response(p) \o t = front \o (p.exts \o t)
  <2>1. Response(p) = front \o p.exts
    BY DEF Response
  <2>2. \A a, b, c \in Text : (a \o b) \o c = a \o (b \o c)
    BY ConcatAssociative DEF Text
  <2>. HIDE DEF front
  <2>3. (front \o p.exts) \o t = front \o (p.exts \o t)
    BY <2>2, <1>3, Zenon
  <2>. QED BY <2>1, <2>3
<1>5. Response(p) \o t = Join(p.length, p.processes, p.paths, p.exts \o t)
  BY <1>4 DEF Join
<1>. HIDE DEF front
<1>. QED BY <1>1, <1>3, <1>5, JoinElements

-----------------------------------------------------------------------------
(***************************************************************************)
(* The first word of a text whose only white space is line ends, if there  *)
(* is one, is one of its lines: GetParamsFromFile then reads a line of the *)
(* file, and no part of one.                                               *)
(***************************************************************************)
LEMMA FirstWordIsLine ==
    ASSUME NEW s \in Text, \A i \in 1 .. Len(s) : s[i] \in Space => s[i] = Newline
    PROVE  GetParamsFromFile(s) \subseteq Lines(s, Newline)
<1>. DEFINE i == FirstIn(s, 1, Char \ Space)
            j == FirstIn(s, i, Space)
            w == SubSeq(s, i, j - 1)
<1>0. Len(s) \in Nat /\ \A k \in 1 .. Len(s) : s[k] \in Char
  BY DEF Text
<1>1. i \in Nat \ {0} /\ i <= Len(s) + 1
  BY FirstInRange
<1>2. j \in Nat \ {0} /\ j <= Len(s) + 1
  BY <1>1, FirstInRange
<1>3. GetParamsFromFile(s) = Lines(w, Newline)
  BY DEF GetParamsFromFile, FirstWord
<1>. HIDE DEF i, j, w
<1>4. CASE \A k \in 1 .. Len(s) : s[k] \in Space
  <2>1. i = Len(s) + 1
    BY <1>4, FirstInNone DEF i
  <2>2. j = Len(s) + 1
    BY <1>1, <2>1, <1>0, FirstInNone DEF j
  <2>3. Len(w) = 0
    BY <2>1, <2>2, <1>0 DEF w
  <2>. QED BY <1>0, <1>3, <2>3 DEF Lines
<1>5. CASE \E k \in 1 .. Len(s) : s[k] \notin Space
  <2>1. /\ i \in 1 .. Len(s) /\ s[i] \notin Space
        /\ \A k \in 1 .. i - 1 : s[k] \in Space
    BY <1>0, <1>5, FirstAt DEF i
  <2>2. i = 1 \/ s[i - 1] = Newline
    BY <2>1, <1>0
  <2>3. /\ \A k \in i .. j - 1 : k \in 1 .. Len(s) /\ s[k] \notin Space
        /\ j \in i .. Len(s) => s[j] \in Space
        /\ i < j
    <3>1. CASE \E k \in i .. Len(s) : s[k] \in Space
      <4>1. /\ j \in i .. Len(s) /\ s[j] \in Space
            /\ \A k \in i .. j - 1 : s[k] \notin Space
        BY <3>1, <1>1, FirstAt DEF j
      <4>2. j # i
        BY <2>1, <4>1
      <4>. QED BY <4>1, <4>2, <1>0, <1>1
    <3>2. CASE \A k \in i .. Len(s) : s[k] \notin Space
      <4>1. j = Len(s) + 1
        BY <3>2, <1>1, FirstInNone DEF j
      <4>. QED BY <4>1, <3>2, <2>1, <1>0, <1>1
    <3>. QED BY <3>1, <3>2
  <2>4. FirstIn(s, i, {Newline}) = j
    <3>1. \A k \in i .. j - 1 : s[k] \notin {Newline}
      BY <2>3, CharAssumption
    <3>2. CASE j \in i .. Len(s)
      <4>1. s[j] \in {Newline}
        BY <3>2, <2>3, <1>0, <1>1
      <4>. QED BY <3>1, <3>2, <4>1, <1>1, FirstInIs
    <3>3. CASE j = Len(s) + 1
      BY <3>1, <3>3, <1>0, <1>1, FirstInNone
    <3>. QED BY <3>2, <3>3, <2>3, <1>0, <1>1, <1>2
  <2>5. w = GetLine(s, i, Newline) /\ w \in Lines(s, Newline)
    BY <2>1, <2>2, <2>4 DEF GetLine, Lines, w
  <2>6. /\ w \in Text /\ Len(w) = j - i
        /\ \A k \in 1 .. Len(w) : w[k] # Newline
    <3>1. \A k \in i .. j - 1 : s[k] \in Char
      BY <2>3, <1>0
    <3>2. /\ w \in Seq(Char) /\ Len(w) = j - i
          /\ \A k \in 1 .. j - i : w[k] = s[i + k - 1]
      BY <3>1, <2>3, <1>1, <1>2, SubSeqProperties DEF w
    <3>3. \A k \in 1 .. j - i : s[i + k - 1] \notin Space
      BY <2>3, <1>1, <1>2
    <3>. QED BY <3>2, <3>3, CharAssumption DEF Text
  <2>7. Lines(w, Newline) = {GetLine(w, 1, Newline)}
    <3>1. Len(w) \in Nat /\ Len(w) >= 1
      BY <2>3, <2>6, <1>1, <1>2
    <3>2. {k \in 1 .. Len(w) : k = 1 \/ w[k - 1] = Newline} = {1}
      BY <3>1, <2>6
    <3>. QED BY <3>2 DEF Lines
  <2>8. GetLine(w, 1, Newline) = w
    <3>1. FirstIn(w, 1, {Newline}) = Len(w) + 1
      BY <2>6, FirstInNone
    <3>2. SubSeq(w, 1, Len(w)) = w /\ Len(w) + 1 - 1 = Len(w)
      BY <2>6, SubSeqFull DEF Text
    <3>. QED BY <3>1, <3>2 DEF GetLine
  <2>. QED BY <1>3, <2>5, <2>7, <2>8
<1>. QED BY <1>4, <1>5
=============================================================================
