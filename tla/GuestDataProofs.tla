--------------------------- MODULE GuestDataProofs ---------------------------
(***************************************************************************)
(* Proofs about what protects a guest's data at the door and at rest: the   *)
(* check of a personal number, for every birth and serial the registries    *)
(* number, and the rotation of the field keys, for any keys, pods and       *)
(* fields.                                                                  *)
(***************************************************************************)
EXTENDS PinCheck, FieldKeys, SequenceTheorems, TLAPS

-----------------------------------------------------------------------------
(* Numbers: what the registries issue, and what a digit mistyped does to it.  *)

Number  == [1..10 -> Digits]
Serial  == Digits \X Digits \X Digits

LEMMA WeightedEgn ==
  \A p : Weighted(p, EgnWeights) =
    p[1]*2 + p[2]*4 + p[3]*8 + p[4]*5 + p[5]*10 + p[6]*9 + p[7]*7 + p[8]*3 + p[9]*6
BY DEF Weighted, EgnWeights

LEMMA WeightedLnch ==
  \A p : Weighted(p, LnchWeights) =
    p[1]*21 + p[2]*19 + p[3]*17 + p[4]*13 + p[5]*11 + p[6]*9 + p[7]*7 + p[8]*3 + p[9]*1
BY DEF Weighted, LnchWeights

LEMMA SumsTyped ==
  ASSUME NEW p \in Number
  PROVE  Weighted(p, EgnWeights) \in Nat /\ Weighted(p, LnchWeights) \in Nat
<1>1. p \in [1..10 -> Nat]
  BY DEF Number, Digits
<1>2. p[1]*2 + p[2]*4 + p[3]*8 + p[4]*5 + p[5]*10 + p[6]*9 + p[7]*7 + p[8]*3 + p[9]*6 \in Nat
  BY <1>1
<1>3. p[1]*21 + p[2]*19 + p[3]*17 + p[4]*13 + p[5]*11 + p[6]*9 + p[7]*7 + p[8]*3 + p[9]*1 \in Nat
  BY <1>1
<1> QED
  BY <1>2, <1>3, WeightedEgn, WeightedLnch

LEMMA CenturyOf ==
  ASSUME NEW d \in Births
  PROVE  /\ Century(d) \in Centuries
         /\ d.year \in Century(d).base..(Century(d).base + 99)
<1>1. d.year \in 1800..2099
  BY DEF Births
<1>2. \E c \in Centuries : d.year \in c.base..(c.base + 99)
  <2>1. CASE d.year \in 1800..1899
    BY <2>1 DEF Centuries
  <2>2. CASE d.year \in 1900..1999
    BY <2>2 DEF Centuries
  <2>3. CASE d.year \in 2000..2099
    BY <2>3 DEF Centuries
  <2> QED
    BY <1>1, <2>1, <2>2, <2>3
<1> QED
  BY <1>2 DEF Century

(* The nine digits spell the date: the year in its century, the month with    *)
(* the century's offset, the day.                                           *)
LEMMA Spelled ==
  ASSUME NEW d \in Births, NEW s \in Serial
  PROVE  LET n == NineDigits(d, s)
             c == Century(d)
         IN  /\ \A i \in 1..9 : n[i] \in Digits
             /\ 10 * n[1] + n[2] = d.year - c.base
             /\ 10 * n[3] + n[4] = d.month + c.offset
             /\ 10 * n[5] + n[6] = d.day
             /\ n[9] = s[3]
             /\ n \in Seq(Digits) /\ Len(n) = 9
<1> DEFINE c == Century(d)
<1>1. d.year \in Int /\ d.month \in 1..12 /\ d.day \in 1..31
  BY DEF Births
<1>2. \/ c.base = 1900 /\ c.offset = 0 /\ d.year \in 1900..1999
      \/ c.base = 1800 /\ c.offset = 20 /\ d.year \in 1800..1899
      \/ c.base = 2000 /\ c.offset = 40 /\ d.year \in 2000..2099
  BY CenturyOf DEF Centuries
<1> HIDE DEF c
<1> DEFINE yy == d.year % 100
<1> DEFINE mm == d.month + c.offset
<1>3. yy = d.year - c.base /\ yy \in 0..99
  BY <1>1, <1>2
<1>4. mm \in 1..52 /\ d.day \in 1..31
  BY <1>1, <1>2
<1>5. \A k \in 0..99 : k \div 10 \in Digits /\ k % 10 \in Digits /\ 10 * (k \div 10) + (k % 10) = k
  BY DEF Digits
<1>6. s[1] \in Digits /\ s[2] \in Digits /\ s[3] \in Digits
  BY DEF Serial
<1> HIDE DEF yy, mm
<1> DEFINE n == <<yy \div 10, yy % 10, mm \div 10, mm % 10, d.day \div 10, d.day % 10, s[1], s[2], s[3]>>
<1>7. n = NineDigits(d, s)
  BY DEF NineDigits, yy, mm, c
<1>8. yy \in 0..99 /\ mm \in 0..99 /\ d.day \in 0..99
  BY <1>3, <1>4
<1>9. /\ n[1] \in Digits /\ n[2] \in Digits /\ n[3] \in Digits /\ n[4] \in Digits
      /\ n[5] \in Digits
      /\ n[6] \in Digits /\ n[7] \in Digits /\ n[8] \in Digits /\ n[9] \in Digits
  BY <1>5, <1>6, <1>8
<1>10. n \in Seq(Digits) /\ Len(n) = 9
  BY <1>9
<1>11. \A i \in 1..9 : n[i] \in Digits
  BY <1>10
<1>12. 10 * n[1] + n[2] = yy /\ 10 * n[3] + n[4] = mm /\ 10 * n[5] + n[6] = d.day /\ n[9] = s[3]
  BY <1>5, <1>8
<1> QED
  BY <1>3, <1>7, <1>10, <1>11, <1>12 DEF mm, c

LEMMA Mistyped ==
  ASSUME NEW p \in Number, NEW i \in 1..10, NEW x \in Digits
  PROVE  LET q == [p EXCEPT ![i] = x]
         IN  q \in Number /\ q[i] = x /\ \A j \in 1..10 \ {i} : q[j] = p[j]
BY DEF Number

(* Each weight of the EGN is coprime to 11, so one digit among the first nine *)
(* changes the remainder.                                                   *)
LEMMA EgnSlip ==
  ASSUME NEW p \in Number, NEW i \in 1..9, NEW x \in Digits, x # p[i]
  PROVE  EgnRemainder([p EXCEPT ![i] = x]) # EgnRemainder(p)
<1> DEFINE q == [p EXCEPT ![i] = x]
<1> DEFINE d == x - p[i]
<1> DEFINE a == p[1]*2 + p[2]*4 + p[3]*8 + p[4]*5 + p[5]*10 + p[6]*9 + p[7]*7 + p[8]*3 + p[9]*6
<1> DEFINE b == q[1]*2 + q[2]*4 + q[3]*8 + q[4]*5 + q[5]*10 + q[6]*9 + q[7]*7 + q[8]*3 + q[9]*6
<1>1. q \in Number /\ q[i] = x /\ \A j \in 1..10 \ {i} : q[j] = p[j]
  BY Mistyped
<1>2. p \in [1..10 -> Int] /\ q \in [1..10 -> Int]
  BY <1>1 DEF Number, Digits
<1>3. d \in Int /\ d \in -9..9 /\ d # 0
  BY DEF Number, Digits
<1>4. \A j \in 1..9 : q[j] = p[j] + IF i = j THEN d ELSE 0
  BY <1>1, <1>2
<1>5. a \in Int /\ b \in Int
  BY <1>2
<1>6. EgnRemainder(p) = a % 11 /\ EgnRemainder(q) = b % 11
  BY WeightedEgn DEF EgnRemainder
<1> HIDE DEF q, d, a, b
<1> SUFFICES a % 11 # b % 11
  BY <1>6 DEF q
<1>11. CASE i = 1
  <2>1. /\ q[1] = p[1] + d /\ q[2] = p[2] /\ q[3] = p[3] /\ q[4] = p[4] /\ q[5] = p[5]
        /\ q[6] = p[6] /\ q[7] = p[7] /\ q[8] = p[8] /\ q[9] = p[9]
    BY <1>2, <1>3, <1>4, <1>11
  <2>2. b - a = 2 * d
    BY <1>2, <1>3, <2>1 DEF a, b
  <2> QED
    BY <1>3, <1>5, <2>2
<1>12. CASE i = 2
  <2>1. /\ q[1] = p[1] /\ q[2] = p[2] + d /\ q[3] = p[3] /\ q[4] = p[4] /\ q[5] = p[5]
        /\ q[6] = p[6] /\ q[7] = p[7] /\ q[8] = p[8] /\ q[9] = p[9]
    BY <1>2, <1>3, <1>4, <1>12
  <2>2. b - a = 4 * d
    BY <1>2, <1>3, <2>1 DEF a, b
  <2> QED
    BY <1>3, <1>5, <2>2
<1>13. CASE i = 3
  <2>1. /\ q[1] = p[1] /\ q[2] = p[2] /\ q[3] = p[3] + d /\ q[4] = p[4] /\ q[5] = p[5]
        /\ q[6] = p[6] /\ q[7] = p[7] /\ q[8] = p[8] /\ q[9] = p[9]
    BY <1>2, <1>3, <1>4, <1>13
  <2>2. b - a = 8 * d
    BY <1>2, <1>3, <2>1 DEF a, b
  <2> QED
    BY <1>3, <1>5, <2>2
<1>14. CASE i = 4
  <2>1. /\ q[1] = p[1] /\ q[2] = p[2] /\ q[3] = p[3] /\ q[4] = p[4] + d /\ q[5] = p[5]
        /\ q[6] = p[6] /\ q[7] = p[7] /\ q[8] = p[8] /\ q[9] = p[9]
    BY <1>2, <1>3, <1>4, <1>14
  <2>2. b - a = 5 * d
    BY <1>2, <1>3, <2>1 DEF a, b
  <2> QED
    BY <1>3, <1>5, <2>2
<1>15. CASE i = 5
  <2>1. /\ q[1] = p[1] /\ q[2] = p[2] /\ q[3] = p[3] /\ q[4] = p[4] /\ q[5] = p[5] + d
        /\ q[6] = p[6] /\ q[7] = p[7] /\ q[8] = p[8] /\ q[9] = p[9]
    BY <1>2, <1>3, <1>4, <1>15
  <2>2. b - a = 10 * d
    BY <1>2, <1>3, <2>1 DEF a, b
  <2> QED
    BY <1>3, <1>5, <2>2
<1>16. CASE i = 6
  <2>1. /\ q[1] = p[1] /\ q[2] = p[2] /\ q[3] = p[3] /\ q[4] = p[4] /\ q[5] = p[5]
        /\ q[6] = p[6] + d /\ q[7] = p[7] /\ q[8] = p[8] /\ q[9] = p[9]
    BY <1>2, <1>3, <1>4, <1>16
  <2>2. b - a = 9 * d
    BY <1>2, <1>3, <2>1 DEF a, b
  <2> QED
    BY <1>3, <1>5, <2>2
<1>17. CASE i = 7
  <2>1. /\ q[1] = p[1] /\ q[2] = p[2] /\ q[3] = p[3] /\ q[4] = p[4] /\ q[5] = p[5]
        /\ q[6] = p[6] /\ q[7] = p[7] + d /\ q[8] = p[8] /\ q[9] = p[9]
    BY <1>2, <1>3, <1>4, <1>17
  <2>2. b - a = 7 * d
    BY <1>2, <1>3, <2>1 DEF a, b
  <2> QED
    BY <1>3, <1>5, <2>2
<1>18. CASE i = 8
  <2>1. /\ q[1] = p[1] /\ q[2] = p[2] /\ q[3] = p[3] /\ q[4] = p[4] /\ q[5] = p[5]
        /\ q[6] = p[6] /\ q[7] = p[7] /\ q[8] = p[8] + d /\ q[9] = p[9]
    BY <1>2, <1>3, <1>4, <1>18
  <2>2. b - a = 3 * d
    BY <1>2, <1>3, <2>1 DEF a, b
  <2> QED
    BY <1>3, <1>5, <2>2
<1>19. CASE i = 9
  <2>1. /\ q[1] = p[1] /\ q[2] = p[2] /\ q[3] = p[3] /\ q[4] = p[4] /\ q[5] = p[5]
        /\ q[6] = p[6] /\ q[7] = p[7] /\ q[8] = p[8] /\ q[9] = p[9] + d
    BY <1>2, <1>3, <1>4, <1>19
  <2>2. b - a = 6 * d
    BY <1>2, <1>3, <2>1 DEF a, b
  <2> QED
    BY <1>3, <1>5, <2>2
<1> QED
  BY <1>11, <1>12, <1>13, <1>14, <1>15, <1>16, <1>17, <1>18, <1>19

(* Each weight of the LNCh is coprime to 10.                                 *)
LEMMA LnchSlip ==
  ASSUME NEW p \in Number, NEW i \in 1..9, NEW x \in Digits, x # p[i]
  PROVE  LnchCheck([p EXCEPT ![i] = x]) # LnchCheck(p)
<1> DEFINE q == [p EXCEPT ![i] = x]
<1> DEFINE d == x - p[i]
<1> DEFINE a == p[1]*21 + p[2]*19 + p[3]*17 + p[4]*13 + p[5]*11 + p[6]*9 + p[7]*7 + p[8]*3 + p[9]*1
<1> DEFINE b == q[1]*21 + q[2]*19 + q[3]*17 + q[4]*13 + q[5]*11 + q[6]*9 + q[7]*7 + q[8]*3 + q[9]*1
<1>1. q \in Number /\ q[i] = x /\ \A j \in 1..10 \ {i} : q[j] = p[j]
  BY Mistyped
<1>2. p \in [1..10 -> Int] /\ q \in [1..10 -> Int]
  BY <1>1 DEF Number, Digits
<1>3. d \in Int /\ d \in -9..9 /\ d # 0
  BY DEF Number, Digits
<1>4. \A j \in 1..9 : q[j] = p[j] + IF i = j THEN d ELSE 0
  BY <1>1, <1>2
<1>5. a \in Int /\ b \in Int
  BY <1>2
<1>6. LnchCheck(p) = a % 10 /\ LnchCheck(q) = b % 10
  BY WeightedLnch DEF LnchCheck
<1> HIDE DEF q, d, a, b
<1> SUFFICES a % 10 # b % 10
  BY <1>6 DEF q
<1>11. CASE i = 1
  <2>1. /\ q[1] = p[1] + d /\ q[2] = p[2] /\ q[3] = p[3] /\ q[4] = p[4] /\ q[5] = p[5]
        /\ q[6] = p[6] /\ q[7] = p[7] /\ q[8] = p[8] /\ q[9] = p[9]
    BY <1>2, <1>3, <1>4, <1>11
  <2>2. b - a = 21 * d
    BY <1>2, <1>3, <2>1 DEF a, b
  <2> QED
    BY <1>3, <1>5, <2>2
<1>12. CASE i = 2
  <2>1. /\ q[1] = p[1] /\ q[2] = p[2] + d /\ q[3] = p[3] /\ q[4] = p[4] /\ q[5] = p[5]
        /\ q[6] = p[6] /\ q[7] = p[7] /\ q[8] = p[8] /\ q[9] = p[9]
    BY <1>2, <1>3, <1>4, <1>12
  <2>2. b - a = 19 * d
    BY <1>2, <1>3, <2>1 DEF a, b
  <2> QED
    BY <1>3, <1>5, <2>2
<1>13. CASE i = 3
  <2>1. /\ q[1] = p[1] /\ q[2] = p[2] /\ q[3] = p[3] + d /\ q[4] = p[4] /\ q[5] = p[5]
        /\ q[6] = p[6] /\ q[7] = p[7] /\ q[8] = p[8] /\ q[9] = p[9]
    BY <1>2, <1>3, <1>4, <1>13
  <2>2. b - a = 17 * d
    BY <1>2, <1>3, <2>1 DEF a, b
  <2> QED
    BY <1>3, <1>5, <2>2
<1>14. CASE i = 4
  <2>1. /\ q[1] = p[1] /\ q[2] = p[2] /\ q[3] = p[3] /\ q[4] = p[4] + d /\ q[5] = p[5]
        /\ q[6] = p[6] /\ q[7] = p[7] /\ q[8] = p[8] /\ q[9] = p[9]
    BY <1>2, <1>3, <1>4, <1>14
  <2>2. b - a = 13 * d
    BY <1>2, <1>3, <2>1 DEF a, b
  <2> QED
    BY <1>3, <1>5, <2>2
<1>15. CASE i = 5
  <2>1. /\ q[1] = p[1] /\ q[2] = p[2] /\ q[3] = p[3] /\ q[4] = p[4] /\ q[5] = p[5] + d
        /\ q[6] = p[6] /\ q[7] = p[7] /\ q[8] = p[8] /\ q[9] = p[9]
    BY <1>2, <1>3, <1>4, <1>15
  <2>2. b - a = 11 * d
    BY <1>2, <1>3, <2>1 DEF a, b
  <2> QED
    BY <1>3, <1>5, <2>2
<1>16. CASE i = 6
  <2>1. /\ q[1] = p[1] /\ q[2] = p[2] /\ q[3] = p[3] /\ q[4] = p[4] /\ q[5] = p[5]
        /\ q[6] = p[6] + d /\ q[7] = p[7] /\ q[8] = p[8] /\ q[9] = p[9]
    BY <1>2, <1>3, <1>4, <1>16
  <2>2. b - a = 9 * d
    BY <1>2, <1>3, <2>1 DEF a, b
  <2> QED
    BY <1>3, <1>5, <2>2
<1>17. CASE i = 7
  <2>1. /\ q[1] = p[1] /\ q[2] = p[2] /\ q[3] = p[3] /\ q[4] = p[4] /\ q[5] = p[5]
        /\ q[6] = p[6] /\ q[7] = p[7] + d /\ q[8] = p[8] /\ q[9] = p[9]
    BY <1>2, <1>3, <1>4, <1>17
  <2>2. b - a = 7 * d
    BY <1>2, <1>3, <2>1 DEF a, b
  <2> QED
    BY <1>3, <1>5, <2>2
<1>18. CASE i = 8
  <2>1. /\ q[1] = p[1] /\ q[2] = p[2] /\ q[3] = p[3] /\ q[4] = p[4] /\ q[5] = p[5]
        /\ q[6] = p[6] /\ q[7] = p[7] /\ q[8] = p[8] + d /\ q[9] = p[9]
    BY <1>2, <1>3, <1>4, <1>18
  <2>2. b - a = 3 * d
    BY <1>2, <1>3, <2>1 DEF a, b
  <2> QED
    BY <1>3, <1>5, <2>2
<1>19. CASE i = 9
  <2>1. /\ q[1] = p[1] /\ q[2] = p[2] /\ q[3] = p[3] /\ q[4] = p[4] /\ q[5] = p[5]
        /\ q[6] = p[6] /\ q[7] = p[7] /\ q[8] = p[8] /\ q[9] = p[9] + d
    BY <1>2, <1>3, <1>4, <1>19
  <2>2. b - a = 1 * d
    BY <1>2, <1>3, <2>1 DEF a, b
  <2> QED
    BY <1>3, <1>5, <2>2
<1> QED
  BY <1>11, <1>12, <1>13, <1>14, <1>15, <1>16, <1>17, <1>18, <1>19

-----------------------------------------------------------------------------
(* What a document says.                                                    *)

Summed(n, w) ==
  n[1]*w[1] + n[2]*w[2] + n[3]*w[3] + n[4]*w[4] + n[5]*w[5]
    + n[6]*w[6] + n[7]*w[7] + n[8]*w[8] + n[9]*w[9]

LEMMA AppendedLen ==
  ASSUME NEW S, NEW n \in Seq(S), NEW x \in S
  PROVE  Len(Append(n, x)) = Len(n) + 1
OBVIOUS

LEMMA AppendedLast ==
  ASSUME NEW S, NEW n \in Seq(S), NEW x \in S
  PROVE  Append(n, x)[Len(n) + 1] = x
OBVIOUS

LEMMA AppendedRest ==
  ASSUME NEW S, NEW n \in Seq(S), NEW x \in S, NEW i \in 1..Len(n)
  PROVE  Append(n, x)[i] = n[i]
OBVIOUS

LEMMA TenDigits ==
  ASSUME NEW n \in Seq(Digits), Len(n) = 9, NEW x \in Digits
  PROVE  LET p == Append(n, x)
         IN  p \in Number /\ p[10] = x /\ \A i \in 1..9 : p[i] = n[i]
<1> DEFINE p == Append(n, x)
<1>1. p \in Seq(Digits)
  BY AppendProperties
<1>2. Len(p) = Len(n) + 1 /\ p[Len(n) + 1] = x
  BY AppendedLen, AppendedLast
<1>3. \A i \in 1..Len(n) : p[i] = n[i]
  BY AppendedRest
<1> HIDE DEF p
<1>4. Len(p) = 10 /\ p[10] = x
  <2>1. Len(n) + 1 = 10
    OBVIOUS
  <2> QED
    BY <1>2, <2>1
<1>5. \A i \in 1..9 : p[i] = n[i]
  BY <1>3
<1>6. p \in [1..10 -> Digits]
  BY <1>1, <1>4, LenProperties
<1> QED
  BY <1>4, <1>5, <1>6 DEF p, Number

LEMMA IssuedNumber ==
  ASSUME NEW n \in Seq(Digits), Len(n) = 9, NEW w, NEW m \in {10, 11},
         Summed(n, w) \in Nat
  PROVE  LET p == Issued(n, w, m)
         IN  /\ p \in Number /\ \A i \in 1..9 : p[i] = n[i]
             /\ p[10] = (Weighted(p, w) % m) % 10
<1> DEFINE x == (Summed(n, w) % m) % 10
<1> DEFINE p == Append(n, x)
<1>1. x \in Digits
  <2> DEFINE t == Summed(n, w)
  <2> HIDE DEF t
  <2>1. \A k \in Nat : (k % 10) \in 0..9 /\ (k % 11) \in Nat /\ (k % 10) \in Nat
    OBVIOUS
  <2>2. t \in Nat /\ t % m \in Nat
    BY <2>1 DEF t
  <2>3. (t % m) % 10 \in 0..9
    BY <2>1, <2>2
  <2> QED
    BY <2>3 DEF t, Digits
<1>2. p = Issued(n, w, m)
  BY DEF Issued, Summed
<1> HIDE DEF x
<1>3. p \in Number /\ p[10] = x /\ \A i \in 1..9 : p[i] = n[i]
  BY <1>1, TenDigits
<1>4. Weighted(p, w) = Summed(n, w)
  BY <1>3 DEF Weighted, Summed
<1> HIDE DEF p
<1> QED
  BY <1>2, <1>3, <1>4 DEF x

LEMMA SummedTyped ==
  ASSUME NEW n, \A i \in 1..9 : n[i] \in Digits
  PROVE  Summed(n, EgnWeights) \in Nat /\ Summed(n, LnchWeights) \in Nat
<1> DEFINE p == [i \in 1..10 |-> IF i = 10 THEN 0 ELSE n[i]]
<1>1. p \in Number
  BY DEF Number, Digits
<1>2. /\ Weighted(p, EgnWeights) = Summed(n, EgnWeights)
      /\ Weighted(p, LnchWeights) = Summed(n, LnchWeights)
  <2>1. \A i \in 1..9 : p[i] = n[i]
    OBVIOUS
  <2> HIDE DEF p
  <2> QED
    BY <2>1 DEF Weighted, Summed
<1> HIDE DEF p
<1> QED
  BY <1>1, <1>2, SumsTyped

(* How a number spells a birth.                                             *)
Spells(p, d) ==
  /\ TwoDigits(p, 1) = d.year - Century(d).base
  /\ TwoDigits(p, 3) = d.month + Century(d).offset
  /\ TwoDigits(p, 5) = d.day

LEMMA CitizenNumber ==
  ASSUME NEW d \in Births, NEW s \in Serial
  PROVE  LET p == Citizen(d, s).pin
         IN  /\ p \in Number /\ IsEgn(p) /\ Spells(p, d)
             /\ Citizen(d, s).gender = EncodedGender(p)
             /\ p[10] = EgnCheck(p)
<1> DEFINE n == NineDigits(d, s)
<1> DEFINE p == Issued(n, EgnWeights, 11)
<1>1. /\ \A i \in 1..9 : n[i] \in Digits
      /\ 10 * n[1] + n[2] = d.year - Century(d).base
      /\ 10 * n[3] + n[4] = d.month + Century(d).offset
      /\ 10 * n[5] + n[6] = d.day
      /\ n[9] = s[3] /\ n \in Seq(Digits) /\ Len(n) = 9
  BY Spelled
<1> HIDE DEF n
<1>2. Summed(n, EgnWeights) \in Nat
  BY <1>1, SummedTyped
<1>3. p \in Number /\ (\A i \in 1..9 : p[i] = n[i]) /\ p[10] = (Weighted(p, EgnWeights) % 11) % 10
  BY <1>1, <1>2, IssuedNumber
<1>4. /\ Citizen(d, s).pin = p
      /\ Citizen(d, s).gender = IF s[3] \in {0, 2, 4, 6, 8} THEN "male" ELSE "female"
  BY DEF Citizen, n, EgnWeights
<1> HIDE DEF p
<1>5. p[10] = EgnCheck(p)
  <2> DEFINE t == Weighted(p, EgnWeights)
  <2>1. t \in Nat /\ p[10] = (t % 11) % 10 /\ EgnCheck(p) = IF t % 11 = 10 THEN 0 ELSE t % 11
    BY <1>3, SumsTyped DEF EgnCheck, EgnRemainder
  <2> HIDE DEF t
  <2>2. t % 11 \in 0..10
    BY <2>1
  <2>3. \A r \in 0..10 : r % 10 = IF r = 10 THEN 0 ELSE r
    OBVIOUS
  <2> QED
    BY <2>1, <2>2, <2>3
<1>6. Spells(p, d)
  BY <1>1, <1>3 DEF Spells, TwoDigits
<1>7. Citizen(d, s).gender = EncodedGender(p)
  <2>1. p[9] = s[3] /\ s[3] \in 0..9
    BY <1>1, <1>3 DEF Digits
  <2>2. \A k \in 0..9 : k % 2 = 0 <=> k \in {0, 2, 4, 6, 8}
    OBVIOUS
  <2> QED
    BY <1>4, <2>1, <2>2 DEF EncodedGender
<1> QED
  BY <1>3, <1>4, <1>5, <1>6, <1>7 DEF IsEgn

LEMMA ForeignerNumber ==
  ASSUME NEW d \in Births, NEW s \in Serial, NEW g
  PROVE  LET p == Foreigner(d, s, g).pin
         IN  p \in Number /\ IsLnch(p)
<1> DEFINE n == NineDigits(d, s)
<1> DEFINE p == Issued(n, LnchWeights, 10)
<1>1. (\A i \in 1..9 : n[i] \in Digits) /\ n \in Seq(Digits) /\ Len(n) = 9
  BY Spelled
<1> HIDE DEF n
<1>2. Summed(n, LnchWeights) \in Nat
  BY <1>1, SummedTyped
<1>3. p \in Number /\ p[10] = (Weighted(p, LnchWeights) % 10) % 10
  BY <1>1, <1>2, IssuedNumber
<1>4. Foreigner(d, s, g).pin = p
  BY DEF Foreigner, n, LnchWeights
<1> HIDE DEF p
<1>5. LnchCheck(p) = p[10]
  <2> DEFINE t == Weighted(p, LnchWeights)
  <2>1. t \in Nat /\ p[10] = (t % 10) % 10 /\ LnchCheck(p) = t % 10
    BY <1>3, SumsTyped DEF LnchCheck
  <2> HIDE DEF t
  <2>2. t % 10 \in 0..9 /\ \A r \in 0..9 : r % 10 = r
    BY <2>1
  <2> QED
    BY <2>1, <2>2
<1> QED
  BY <1>3, <1>4, <1>5 DEF IsLnch

(* A number that spells a birth encodes it.                                  *)
LEMMA SpelledIsEncoded ==
  ASSUME NEW d \in Births, NEW p, Spells(p, d)
  PROVE  d \in EncodedDobs(p)
<1>1. /\ d \in [year : 1800..2099, month : 1..12, day : 1..31] /\ IsDate(d)
  BY DEF Births
<1>2. Century(d) \in Centuries /\ Century(d).base \in Int /\ Century(d).offset \in Int
  BY CenturyOf DEF Centuries
<1> DEFINE c == Century(d)
<1> HIDE DEF c
<1>3. /\ d.year = c.base + TwoDigits(p, 1) /\ d.month = TwoDigits(p, 3) - c.offset
      /\ d.day = TwoDigits(p, 5)
  BY <1>1, <1>2 DEF Spells, c
<1>4. d = [year |-> c.base + TwoDigits(p, 1), month |-> TwoDigits(p, 3) - c.offset, day |-> TwoDigits(p, 5)]
  BY <1>1, <1>3
<1> QED
  BY <1>1, <1>2, <1>4 DEF EncodedDobs, c

(* One digit mistyped among the first six: the number spells another date,    *)
(* since year and month give each other away.                               *)
LEMMA DateSlip ==
  ASSUME NEW d \in Births, NEW p \in Number, Spells(p, d),
         NEW i \in 1..6, NEW x \in Digits, x # p[i]
  PROVE  d \notin EncodedDobs([p EXCEPT ![i] = x])
<1> DEFINE q == [p EXCEPT ![i] = x]
<1>1. q \in Number /\ q[i] = x /\ \A j \in 1..10 \ {i} : q[j] = p[j]
  BY Mistyped
<1> HIDE DEF q
<1>2. p \in [1..10 -> 0..9] /\ q \in [1..10 -> 0..9] /\ q[i] # p[i]
  BY <1>1 DEF Number, Digits
<1> SUFFICES ASSUME d \in EncodedDobs(q)
             PROVE  FALSE
  BY DEF q
<1>3. PICK c \in Centuries :
           /\ d.year = c.base + TwoDigits(q, 1) /\ d.month = TwoDigits(q, 3) - c.offset
           /\ d.day = TwoDigits(q, 5)
  BY DEF EncodedDobs
<1> DEFINE e == Century(d)
<1>4. e \in Centuries
  BY CenturyOf
<1> HIDE DEF e
<1>5. /\ c.base \in {1800, 1900, 2000} /\ e.base \in {1800, 1900, 2000} /\ c.offset \in Nat
      /\ e.offset \in Nat
      /\ c.base = e.base <=> c.offset = e.offset
  BY <1>4 DEF Centuries
<1>6. d.year \in Int /\ d.month \in Int /\ d.day \in Int
  BY DEF Births
<1>7. /\ d.year = c.base + (10 * q[1] + q[2]) /\ d.year - e.base = 10 * p[1] + p[2]
      /\ d.month = (10 * q[3] + q[4]) - c.offset /\ d.month + e.offset = 10 * p[3] + p[4]
      /\ d.day = 10 * q[5] + q[6] /\ d.day = 10 * p[5] + p[6]
  BY <1>3 DEF Spells, TwoDigits, e
<1>8. CASE i \in {5, 6}
  <2>1. (q[5] = p[5] /\ q[6] # p[6]) \/ (q[5] # p[5] /\ q[6] = p[6])
    BY <1>1, <1>2, <1>8
  <2> QED
    BY <1>2, <1>7, <2>1
<1>9. CASE i \in {1, 2}
  <2>1. q[3] = p[3] /\ q[4] = p[4]
    BY <1>1, <1>9
  <2>2. c.offset = e.offset
    BY <1>2, <1>5, <1>6, <1>7, <2>1
  <2>3. 10 * q[1] + q[2] = 10 * p[1] + p[2]
    <3>1. c.base = e.base /\ c.base \in Int
      BY <1>5, <2>2
    <3>2. q[1] \in Int /\ q[2] \in Int /\ p[1] \in Int /\ p[2] \in Int
      BY <1>2
    <3> QED
      BY <1>6, <1>7, <3>1, <3>2
  <2>4. (q[1] = p[1] /\ q[2] # p[2]) \/ (q[1] # p[1] /\ q[2] = p[2])
    BY <1>1, <1>2, <1>9
  <2> QED
    BY <1>2, <2>3, <2>4
<1>10. CASE i \in {3, 4}
  <2>1. q[1] = p[1] /\ q[2] = p[2]
    BY <1>1, <1>10
  <2>2. c.base = e.base
    BY <1>2, <1>5, <1>6, <1>7, <2>1
  <2>3. 10 * q[3] + q[4] = 10 * p[3] + p[4]
    <3>1. c.offset = e.offset /\ c.offset \in Int
      BY <1>5, <2>2
    <3>2. q[3] \in Int /\ q[4] \in Int /\ p[3] \in Int /\ p[4] \in Int
      BY <1>2
    <3> QED
      BY <1>6, <1>7, <3>1, <3>2
  <2>4. (q[3] = p[3] /\ q[4] # p[4]) \/ (q[3] # p[3] /\ q[4] = p[4])
    BY <1>1, <1>2, <1>10
  <2> QED
    BY <1>2, <2>3, <2>4
<1> QED
  BY <1>8, <1>9, <1>10

-----------------------------------------------------------------------------
(* The form.                                                                *)

(* Somebody has a document; the form has its birth and gender, and its       *)
(* number, left out, copied, or with one digit mistyped; a verdict is what   *)
(* the form deserves.                                                       *)
IsCitizen   == \E d \in Dates, s \in Serials : person = Citizen(d, s)
IsForeigner == \E d \in Dates, s \in Serials, g \in {"male", "female"} : person = Foreigner(d, s, g)

FormOf(pin) ==
  \E citizenship \in {"BG", "other"}, country \in {"BG", "other"}, middle \in BOOLEAN :
    form = [citizenship |-> citizenship, document_issuing_country |-> country,
            middle_name |-> middle, pin_egn |-> pin,
            date_of_birth |-> person.dob, gender |-> person.gender]

FilledIn ==
  \/ slip = 0 /\ (FormOf(NoPin) \/ FormOf(person.pin))
  \/ slip \in 1..10 /\ \E x \in Digits \ {person.pin[slip]} : FormOf([person.pin EXCEPT ![slip] = x])

PinIInv ==
  /\ IsCitizen \/ IsForeigner
  /\ FilledIn
  /\ verdict \in {"open", "accepted", "refused"}
  /\ verdict # "open" => (verdict = "accepted" <=> Accepts(form))

LEMMA PersonNumber ==
  ASSUME IsCitizen \/ IsForeigner
  PROVE  /\ person.pin \in Number /\ person.pin # NoPin
         /\ \A i \in 1..10, x \in Digits : [person.pin EXCEPT ![i] = x] # NoPin
<1>1. person.pin \in Number
  <2>1. \A d \in Dates, s \in Serials : d \in Births /\ s \in Serial
    BY PinDates, PinSerials DEF Serial
  <2>2. CASE IsCitizen
    BY <2>1, <2>2, CitizenNumber DEF IsCitizen
  <2>3. CASE IsForeigner
    BY <2>1, <2>3, ForeignerNumber DEF IsForeigner
  <2> QED
    BY <2>2, <2>3
<1>2. \A p \in Number : p # NoPin
  <2>1. DOMAIN NoPin = {} /\ 1 \in 1..10
    BY DEF NoPin
  <2> QED
    BY <2>1 DEF Number
<1> QED
  BY <1>1, <1>2, Mistyped

LEMMA FirstForm == PinInit => PinIInv
BY DEF PinInit, PinIInv, IsCitizen, IsForeigner, FilledIn, FormOf

LEMMA PinStep ==
  ASSUME PinIInv, [PinNext]_pinVars
  PROVE  PinIInv'
<1>1. CASE Mistype
  <2>1. /\ verdict = "open" /\ slip = 0 /\ form.pin_egn # NoPin /\ UNCHANGED <<person, verdict>>
    BY <1>1 DEF Mistype
  <2>2. PICK i \in 1..10, x \in Digits :
          x # form.pin_egn[i] /\ form' = [form EXCEPT !.pin_egn[i] = x] /\ slip' = i
    BY <1>1 DEF Mistype
  <2>3. FormOf(person.pin)
    BY <2>1 DEF PinIInv, FilledIn, FormOf
  <2>4. form.pin_egn = person.pin
    BY <2>3 DEF FormOf
  <2>5. FormOf([person.pin EXCEPT ![i] = x])'
    BY <2>1, <2>2, <2>3 DEF FormOf
  <2>6. FilledIn'
    BY <2>1, <2>2, <2>4, <2>5 DEF FilledIn
  <2> QED
    BY <2>1, <2>6 DEF PinIInv, IsCitizen, IsForeigner
<1>2. CASE Submit
  <2>1. verdict' = (IF Accepts(form) THEN "accepted" ELSE "refused") /\ UNCHANGED <<person, form, slip>>
    BY <1>2 DEF Submit
  <2>2. (IsCitizen \/ IsForeigner)' /\ FilledIn'
    BY <2>1 DEF PinIInv, IsCitizen, IsForeigner, FilledIn, FormOf
  <2>3. Accepts(form)' <=> Accepts(form)
    BY <2>1
  <2> QED
    BY <2>1, <2>2, <2>3 DEF PinIInv
<1>3. CASE UNCHANGED pinVars
  BY <1>3 DEF pinVars, PinIInv, IsCitizen, IsForeigner, FilledIn, FormOf
<1> QED
  BY <1>1, <1>2, <1>3 DEF PinNext

(* The form has what the document says but for the digit that was mistyped,   *)
(* and the verdict is about the form as submitted.                          *)
THEOREM PinInvariance == PinSpec => []PinIInv
BY FirstForm, PinStep, PTL DEF PinSpec

LEMMA CitizenAccepted ==
  ASSUME NEW d \in Dates, NEW s \in Serials, person = Citizen(d, s), FormOf(NoPin) \/ FormOf(person.pin)
  PROVE  PinAgrees(form)
<1> DEFINE p == person.pin
<1>1. d \in Births /\ s \in Serial
  BY PinDates, PinSerials DEF Serial
<1>2. IsEgn(p) /\ Spells(p, d) /\ person.gender = EncodedGender(p) /\ person.dob = d
  BY <1>1, CitizenNumber DEF Citizen
<1>3. d \in EncodedDobs(p) /\ ReadsAsEgn(p)
  BY <1>1, <1>2, SpelledIsEncoded DEF ReadsAsEgn
<1>4. CASE FormOf(NoPin)
  BY <1>4 DEF FormOf, PinAgrees
<1>5. CASE FormOf(p)
  <2>1. form.pin_egn = p /\ form.date_of_birth = d /\ form.gender = EncodedGender(p)
    BY <1>2, <1>5 DEF FormOf
  <2> QED
    BY <1>3, <2>1 DEF PinAgrees
<1> QED
  BY <1>4, <1>5

(* For every birth and serial: only a foreigner whose number happens to read  *)
(* as the EGN of somebody else is refused with a complete, faithful form.    *)
THEOREM OwnNumberAcceptedHolds == PinSpec => []OwnNumberAccepted
<1>1. PinIInv => OwnNumberAccepted
  <2> SUFFICES ASSUME PinIInv, verdict = "refused", slip = 0, Complete(form)
               PROVE  /\ person.registry = "lnch"
                      /\ ReadsAsEgn(form.pin_egn)
                      /\ \/ person.dob \notin EncodedDobs(form.pin_egn)
                         \/ person.gender # EncodedGender(form.pin_egn)
    BY DEF OwnNumberAccepted
  <2>1. ~PinAgrees(form)
    BY DEF PinIInv, Accepts
  <2>2. FormOf(NoPin) \/ FormOf(person.pin)
    BY DEF PinIInv, FilledIn
  <2>3. ~IsCitizen
    BY <2>1, <2>2, CitizenAccepted DEF IsCitizen
  <2>4. PICK d \in Dates, s \in Serials, g \in {"male", "female"} : person = Foreigner(d, s, g)
    BY <2>3 DEF PinIInv, IsForeigner
  <2>5. person.registry = "lnch" /\ IsLnch(person.pin)
    <3>1. d \in Births /\ s \in Serial
      BY PinDates, PinSerials DEF Serial
    <3> QED
      BY <2>4, <3>1, ForeignerNumber DEF Foreigner
  <2>6. /\ form.pin_egn = person.pin /\ form.date_of_birth = person.dob
        /\ form.gender = person.gender
    <3>1. FormOf(NoPin) => PinAgrees(form)
      BY DEF FormOf, PinAgrees
    <3> QED
      BY <2>1, <2>2, <3>1 DEF FormOf
  <2> QED
    BY <2>1, <2>5, <2>6 DEF PinAgrees
<1> QED
  BY <1>1, PinInvariance, PTL

(* For every birth, serial, place and digit: one mistyped digit passes only   *)
(* as an LNCh, as a pair of remainders 0 and 10, or, of a foreigner, as an    *)
(* EGN with the very date on the form.                                      *)
THEOREM SlipsCaughtHolds == PinSpec => []SlipsCaught
<1>1. PinIInv => SlipsCaught
  <2> SUFFICES ASSUME PinIInv, verdict = "accepted", slip # 0
               PROVE  LET pin == form.pin_egn
                          onlyLnch == IsLnch(pin) /\ ~ReadsAsEgn(pin)
                      IN  IF person.registry = "egn"
                          THEN \/ onlyLnch
                               \/ slip \in 7..9 /\ {EgnRemainder(pin), EgnRemainder(person.pin)} = {0, 10}
                          ELSE ReadsAsEgn(pin) /\ person.dob \in EncodedDobs(pin)
    BY DEF SlipsCaught
  <2> DEFINE p == person.pin
  <2> DEFINE q == form.pin_egn
  <2>1. p \in Number /\ slip \in 1..10
    BY PersonNumber DEF PinIInv, FilledIn
  <2>2. PICK x \in Digits \ {p[slip]} : FormOf([p EXCEPT ![slip] = x])
    BY DEF PinIInv, FilledIn
  <2>3. q = [p EXCEPT ![slip] = x] /\ form.date_of_birth = person.dob
    BY <2>2 DEF FormOf
  <2>4. q \in Number /\ q[slip] = x /\ x # p[slip] /\ \A j \in 1..10 \ {slip} : q[j] = p[j]
    BY <2>1, <2>2, <2>3, Mistyped
  <2>5. q # NoPin
    BY <2>2, <2>3, PersonNumber, <2>1 DEF PinIInv
  <2>6. PinAgrees(form)
    BY DEF PinIInv, Accepts
  <2>7. (ReadsAsEgn(q) /\ person.dob \in EncodedDobs(q)) \/ (~ReadsAsEgn(q) /\ IsLnch(q))
    BY <2>3, <2>5, <2>6 DEF PinAgrees
  <2>8. CASE IsCitizen
    <3>1. PICK d \in Dates, s \in Serials : person = Citizen(d, s)
      BY <2>8 DEF IsCitizen
    <3>2. d \in Births /\ s \in Serial
      BY PinDates, PinSerials DEF Serial
    <3>3. person.registry = "egn" /\ person.dob = d /\ Spells(p, d) /\ p[10] = EgnCheck(p)
      BY <3>1, <3>2, CitizenNumber DEF Citizen
    <3>4. ASSUME ReadsAsEgn(q), d \in EncodedDobs(q)
          PROVE  slip \in 7..9 /\ {EgnRemainder(q), EgnRemainder(p)} = {0, 10}
      <4>1. slip \notin 1..6
        BY <2>1, <2>2, <2>3, <2>4, <3>2, <3>3, <3>4, DateSlip
      <4>2. EgnCheck(q) = q[10]
        BY <3>4 DEF ReadsAsEgn, IsEgn
      <4>3. slip # 10
        <5> SUFFICES ASSUME slip = 10
                     PROVE  FALSE
          OBVIOUS
        <5>1. Weighted(q, EgnWeights) = Weighted(p, EgnWeights)
          BY <2>4 DEF Weighted
        <5>2. EgnCheck(q) = EgnCheck(p)
          BY <5>1 DEF EgnCheck, EgnRemainder
        <5> QED
          BY <2>4, <3>3, <4>2, <5>2
      <4>4. slip \in 7..9
        BY <2>1, <4>1, <4>3
      <4>5. EgnRemainder(q) # EgnRemainder(p)
        BY <2>1, <2>2, <2>3, <2>4, <4>4, EgnSlip
      <4>6. EgnCheck(q) = EgnCheck(p)
        BY <2>4, <3>3, <4>2, <4>4
      <4> QED
        BY <4>4, <4>5, <4>6 DEF EgnCheck
    <3> QED
      BY <2>7, <3>3, <3>4
  <2>9. CASE IsForeigner
    <3>1. PICK d \in Dates, s \in Serials, g \in {"male", "female"} : person = Foreigner(d, s, g)
      BY <2>9 DEF IsForeigner
    <3>2. d \in Births /\ s \in Serial
      BY PinDates, PinSerials DEF Serial
    <3>3. person.registry = "lnch" /\ LnchCheck(p) = p[10]
      BY <3>1, <3>2, ForeignerNumber DEF Foreigner, IsLnch
    <3>4. ~IsLnch(q)
      <4>1. CASE slip = 10
        <5>1. Weighted(q, LnchWeights) = Weighted(p, LnchWeights)
          BY <2>4, <4>1 DEF Weighted
        <5>2. LnchCheck(q) = LnchCheck(p) /\ q[10] # p[10]
          BY <2>4, <4>1, <5>1 DEF LnchCheck
        <5> QED
          BY <3>3, <5>2 DEF IsLnch
      <4>2. CASE slip \in 1..9
        <5>1. LnchCheck(q) # LnchCheck(p)
          BY <2>1, <2>2, <2>3, <2>4, <4>2, LnchSlip
        <5>2. q[10] = p[10]
          BY <2>4, <4>2
        <5> QED
          BY <3>3, <5>1, <5>2 DEF IsLnch
      <4> QED
        BY <2>1, <4>1, <4>2
    <3> QED
      BY <2>7, <3>3, <3>4
  <2> QED
    BY <2>8, <2>9 DEF PinIInv
<1> QED
  BY <1>1, PinInvariance, PTL

-----------------------------------------------------------------------------
(* Keys: a read fails only where a pod or an operator was too hasty.         *)

(* Whatever a field needs and whatever a pod encrypts with is in the setting *)
(* or was taken off while it was needed.                                    *)
NeededIsKept ==
  /\ \A f \in Fields : stored[f] # NoKey => stored[f] \in Known(setting) \cup hasty
  /\ \A p \in Pods : loaded[p] # <<>> /\ Head(loaded[p]) \in Known(setting) \cup hasty

(* A pod lacks a key of the setting only if it runs since before the key.    *)
LackingIsUnseen ==
  \A p \in Pods : \A k \in Known(setting) : k \in Known(loaded[p]) \/ p \in unseen[k]

FieldIInv ==
  /\ FieldTypeOK /\ setting # <<>>
  /\ NeededIsKept /\ LackingIsUnseen /\ RotationReadable

-----------------------------------------------------------------------------
(* Sequences of keys.                                                       *)

LEMMA KnownKeys ==
  ASSUME NEW s \in Seq(Keys)
  PROVE  Known(s) \subseteq Keys /\ (s # <<>> => Head(s) \in Known(s))
BY DEF Known, Range

LEMMA KnownOne == \A k \in Keys : <<k>> \in Seq(Keys) /\ Known(<<k>>) = {k} /\ Head(<<k>>) = k
<1> SUFFICES ASSUME NEW k \in Keys
             PROVE  <<k>> \in Seq(Keys) /\ Known(<<k>>) = {k} /\ Head(<<k>>) = k
  OBVIOUS
<1>1. <<k>> \in Seq(Keys) /\ Len(<<k>>) = 1 /\ <<k>>[1] = k
  OBVIOUS
<1>2. DOMAIN <<k>> = {1}
  BY <1>1
<1> QED
  BY <1>1, <1>2 DEF Known, Range

LEMMA KnownPrepended ==
  ASSUME NEW s \in Seq(Keys), NEW k \in Keys
  PROVE  <<k>> \o s \in Seq(Keys) /\ Known(<<k>> \o s) = {k} \cup Known(s) /\ <<k>> \o s # <<>>
<1> DEFINE t == <<k>> \o s
<1>1. t \in Seq(Keys) /\ Len(t) = Len(s) + 1 /\ Len(s) \in Nat
  OBVIOUS
<1>2. t[1] = k /\ \A i \in 1..Len(s) : t[i + 1] = s[i]
  OBVIOUS
<1>3. \A i \in 2..Len(t) : i - 1 \in 1..Len(s) /\ t[i] = s[i - 1]
  BY <1>1, <1>2
<1>4. DOMAIN t = 1..Len(t) /\ DOMAIN s = 1..Len(s)
  BY <1>1
<1> HIDE DEF t
<1>5. Known(t) \subseteq {k} \cup Known(s)
  <2> SUFFICES ASSUME NEW i \in 1..Len(t)
               PROVE  t[i] \in {k} \cup Known(s)
    BY <1>4 DEF Known, Range
  <2>1. CASE i = 1
    BY <1>2, <2>1
  <2>2. CASE i # 1
    BY <1>1, <1>3, <1>4, <2>2 DEF Known, Range
  <2> QED
    BY <2>1, <2>2
<1>6. k \in Known(t)
  BY <1>1, <1>2, <1>4 DEF Known, Range
<1>7. Known(s) \subseteq Known(t)
  <2> SUFFICES ASSUME NEW i \in 1..Len(s)
               PROVE  s[i] \in Known(t)
    BY <1>4 DEF Known, Range
  <2>1. i + 1 \in 1..Len(t) /\ t[i + 1] = s[i]
    BY <1>1, <1>2
  <2> QED
    BY <1>4, <2>1 DEF Known, Range
<1>8. t # <<>>
  BY <1>1
<1> QED
  BY <1>1, <1>5, <1>6, <1>7, <1>8 DEF t

LEMMA BeforeTheLast == \A n \in Nat : \A i \in 1..n : i # n => i \in 1..(n - 1)
OBVIOUS

LEMMA KnownFront ==
  ASSUME NEW s \in Seq(Keys), Len(s) > 1
  PROVE  /\ Front(s) \in Seq(Keys) /\ Front(s) # <<>>
         /\ Known(Front(s)) \subseteq Known(s)
         /\ Known(s) \subseteq Known(Front(s)) \cup {Last(s)}
<1> DEFINE t == Front(s)
<1>1. Len(s) \in Nat /\ DOMAIN s = 1..Len(s) /\ \A i \in 1..Len(s) : s[i] \in Keys
  OBVIOUS
<1>2. t \in Seq(Keys) /\ Len(t) = Len(s) - 1 /\ \A i \in 1..(Len(s) - 1) : t[i] = s[i]
  BY <1>1 DEF Front
<1>3. t \in Seq(Keys) /\ Len(t) = Len(s) - 1 /\ DOMAIN t = 1..(Len(s) - 1)
  BY <1>1, <1>2
<1>4. t # <<>>
  BY <1>3
<1>5. \A i \in 1..(Len(s) - 1) : t[i] = s[i] /\ i \in 1..Len(s)
  BY <1>1, <1>2
<1> HIDE DEF t
<1>6. Known(t) \subseteq Known(s)
  BY <1>1, <1>3, <1>5 DEF Known, Range
<1>7. Known(s) \subseteq Known(t) \cup {Last(s)}
  <2> SUFFICES ASSUME NEW i \in 1..Len(s)
               PROVE  s[i] \in Known(t) \cup {Last(s)}
    BY <1>1 DEF Known, Range
  <2>1. CASE i = Len(s)
    BY <2>1 DEF Last
  <2>2. CASE i # Len(s)
    <3>1. i \in 1..(Len(s) - 1)
      BY <1>1, <2>2, BeforeTheLast
    <3> QED
      BY <1>3, <1>5, <3>1 DEF Known, Range
  <2> QED
    BY <2>1, <2>2
<1> QED
  BY <1>3, <1>4, <1>6, <1>7 DEF t

-----------------------------------------------------------------------------
(* The invariant.                                                           *)

LEMMA OneKeyAtFirst ==
  ASSUME FieldInit
  PROVE  FieldIInv
<1>1. PICK k \in Keys : setting = <<k>>
  BY DEF FieldInit
<1>2. setting \in Seq(Keys) /\ Known(setting) = {k} /\ Head(setting) = k /\ setting # <<>>
  BY <1>1, KnownOne
<1>3. \A p \in Pods : loaded[p] = setting
  BY DEF FieldInit
<1>4. FieldTypeOK
  BY <1>2 DEF FieldInit, FieldTypeOK
<1>5. NeededIsKept
  BY <1>2, <1>3 DEF FieldInit, NeededIsKept
<1>6. LackingIsUnseen /\ RotationReadable
  BY <1>2, <1>3 DEF FieldInit, LackingIsUnseen, RotationReadable
<1> QED
  BY <1>2, <1>4, <1>5, <1>6 DEF FieldIInv

LEMMA WriteStep ==
  ASSUME FieldIInv, NEW p \in Pods, NEW f \in Fields, WriteField(p, f)
  PROVE  FieldIInv'
<1> USE DEF FieldIInv
<1>1. Head(loaded[p]) \in Keys /\ Head(loaded[p]) \in Known(setting) \cup hasty
  BY KnownKeys DEF NeededIsKept, FieldTypeOK
<1>2. FieldTypeOK'
  BY <1>1 DEF WriteField, EncryptsWith, FieldTypeOK
<1>3. NeededIsKept'
  BY <1>1 DEF WriteField, EncryptsWith, FieldTypeOK, NeededIsKept
<1> QED
  BY <1>2, <1>3 DEF WriteField, LackingIsUnseen, RotationReadable

LEMMA ReadStep ==
  ASSUME FieldIInv, NEW p \in Pods, NEW f \in Fields, ReadField(p, f)
  PROVE  FieldIInv'
<1> USE DEF FieldIInv
<1>1. FieldTypeOK'
  BY DEF ReadField, FieldTypeOK
<1>2. NeededIsKept' /\ LackingIsUnseen'
  BY DEF ReadField, NeededIsKept, LackingIsUnseen
<1>3. ASSUME stored[f] # NoKey, ~Decrypts(p, stored[f])
      PROVE  p \in unseen[stored[f]] \/ stored[f] \in hasty
  BY <1>3 DEF Decrypts, NeededIsKept, LackingIsUnseen
<1>4. RotationReadable'
  BY <1>3 DEF ReadField, FieldTypeOK, RotationReadable
<1> QED
  BY <1>1, <1>2, <1>4 DEF ReadField

LEMMA PrependStep ==
  ASSUME FieldIInv, NEW k \in Keys, Prepend(k)
  PROVE  FieldIInv'
<1> USE DEF FieldIInv
<1>1. setting' \in Seq(Keys) /\ Known(setting') = {k} \cup Known(setting) /\ setting' # <<>>
  BY KnownPrepended DEF Prepend, FieldTypeOK
<1>2. unseen' = [unseen EXCEPT ![k] = Pods] /\ UNCHANGED <<loaded, stored, failed, hasty>>
  BY DEF Prepend
<1>3. FieldTypeOK'
  BY <1>1, <1>2 DEF FieldTypeOK
<1>4. NeededIsKept'
  BY <1>1, <1>2 DEF NeededIsKept
<1>5. LackingIsUnseen'
  BY <1>1, <1>2, KnownKeys DEF FieldTypeOK, LackingIsUnseen
<1>6. RotationReadable'
  BY <1>2, NoKeyIsNoKey DEF FieldTypeOK, RotationReadable
<1> QED
  BY <1>1, <1>3, <1>4, <1>5, <1>6

LEMMA RestartStep ==
  ASSUME FieldIInv, NEW p \in Pods, Restart(p)
  PROVE  FieldIInv'
<1> USE DEF FieldIInv
<1>1. Known(setting) \subseteq Keys /\ Head(setting) \in Known(setting)
  BY KnownKeys DEF FieldTypeOK
<1>2. /\ loaded' = [loaded EXCEPT ![p] = setting] /\ failed' = [failed EXCEPT ![p] = NoKey]
      /\ UNCHANGED <<setting, stored, hasty>>
  BY DEF Restart
<1>3. \A k \in Keys : unseen'[k] \in SUBSET Pods /\ unseen[k] \ {p} \subseteq unseen'[k]
  BY DEF Restart, FieldTypeOK
<1>4. FieldTypeOK'
  BY <1>2, <1>3 DEF Restart, FieldTypeOK
<1>5. NeededIsKept'
  BY <1>1, <1>2 DEF FieldTypeOK, NeededIsKept
<1>6. LackingIsUnseen'
  BY <1>1, <1>2, <1>3 DEF FieldTypeOK, LackingIsUnseen
<1>7. RotationReadable'
  BY <1>2, <1>3 DEF FieldTypeOK, RotationReadable
<1> QED
  BY <1>2, <1>4, <1>5, <1>6, <1>7

LEMMA RetireStep ==
  ASSUME FieldIInv, Retire
  PROVE  FieldIInv'
<1> USE DEF FieldIInv
<1> DEFINE old == Last(setting)
<1>1. /\ setting' \in Seq(Keys) /\ setting' # <<>>
      /\ Known(setting') \subseteq Known(setting)
      /\ Known(setting) \subseteq Known(setting') \cup {old}
  BY KnownFront DEF Retire, FieldTypeOK
<1>2. UNCHANGED <<loaded, stored, failed, unseen>>
  BY DEF Retire
<1>3. old \in Keys
  BY DEF FieldTypeOK, Retire, Last
<1>4. hasty \subseteq hasty' /\ hasty' \subseteq Keys
  BY <1>3 DEF Retire, FieldTypeOK
<1>5. old \in Range(stored) \/ (\E p \in Pods : Head(loaded[p]) = old) => old \in hasty'
  BY DEF Retire
<1> HIDE DEF old
<1>6. FieldTypeOK'
  BY <1>1, <1>2, <1>4 DEF FieldTypeOK
<1>7. NeededIsKept'
  BY <1>1, <1>2, <1>4, <1>5 DEF NeededIsKept, FieldTypeOK, Range
<1>8. LackingIsUnseen' /\ RotationReadable'
  BY <1>1, <1>2, <1>4 DEF LackingIsUnseen, RotationReadable
<1> QED
  BY <1>1, <1>6, <1>7, <1>8

(* What is needed is kept or was taken off hastily, and what a pod lacks of  *)
(* the setting came after it.                                               *)
THEOREM KeysInvariance == FieldSpec => []FieldIInv
<1>1. FieldInit => FieldIInv
  BY OneKeyAtFirst
<1>2. FieldIInv /\ [FieldNext]_fieldVars => FieldIInv'
  <2> SUFFICES ASSUME FieldIInv, [FieldNext]_fieldVars
               PROVE  FieldIInv'
    OBVIOUS
  <2>1. ASSUME NEW f \in Fields, WriteNull(f)
        PROVE  FieldIInv'
    BY <2>1 DEF FieldIInv, WriteNull, FieldTypeOK, NeededIsKept, LackingIsUnseen, RotationReadable
  <2>2. CASE UNCHANGED fieldVars
    BY <2>2 DEF fieldVars, FieldIInv, FieldTypeOK, NeededIsKept, LackingIsUnseen, RotationReadable
  <2> QED
    BY <2>1, <2>2, WriteStep, ReadStep, PrependStep, RestartStep, RetireStep DEF FieldNext
<1> QED
  BY <1>1, <1>2, PTL DEF FieldSpec

(* A read fails only in a pod that runs since before the key, or for a key   *)
(* that was taken off while something still depended on it.                 *)
THEOREM RotationReadableHolds == FieldSpec => []RotationReadable
<1>1. FieldIInv => RotationReadable
  BY DEF FieldIInv
<1> QED
  BY <1>1, KeysInvariance, PTL
=============================================================================
