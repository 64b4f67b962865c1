---------------------------- MODULE QueriesProofs ----------------------------
(***************************************************************************)
(* Proofs about BookingQueries, for any bookings, callers and queries, any   *)
(* page size and any number of writes: the endpoints agree on who sees what, *)
(* and what a walk through the pages misses or repeats has a cause each.     *)
(***************************************************************************)
EXTENDS BookingQueries, FiniteSetTheorems, TLAPS

QueryTypeOK ==
  /\ DOMAIN table \in SUBSET Numbers
  /\ table \in [DOMAIN table -> Row]
  /\ walk \in [pc : {"asking", "enriching", "over"}, page : Nat \ {0}, rows : SUBSET Numbers]
  /\ shown \in SUBSET Numbers /\ steady \in SUBSET Numbers
  /\ repeats \in Nat /\ joined \in Nat /\ left \in Nat

(* A page in hand counts as shown: its places are behind the walk.           *)
Places    == IF walk.pc = "enriching" THEN walk.page * PageSize ELSE Offset
ShownSoon == shown \cup walk.rows

(* The bookings whose place is behind the walk although it has not shown     *)
(* them, and those shown whose place is still ahead.                         *)
Behind(result, among, k) == { n \in among : Rank(result, n) <= k }
Ahead(result, among, k)  == { n \in among \cap result : Rank(result, n) > k }

WalkOK ==
  /\ walk.pc # "enriching" => walk.rows = {}
  /\ walk.page = 1 /\ walk.pc = "asking" =>
       shown = {} /\ steady = {} /\ repeats = 0 /\ joined = 0 /\ left = 0
  /\ steady \subseteq Result(table)

(* Each booking that slipped behind the walk unseen did so for one that left. *)
MissedForLeft ==
  /\ walk.pc # "over" =>
       Cardinality(Behind(Result(table), steady \ ShownSoon, Places)) <= left
  /\ walk.pc = "enriching" /\ Cardinality(walk.rows) < PageSize =>
       Cardinality(steady \ ShownSoon) <= left

(* Each booking that was repeated, or is about to be, was pushed by one that *)
(* joined.                                                                  *)
RepeatedForJoined ==
  walk.pc # "over" =>
    repeats + Cardinality(shown \cap walk.rows)
      + Cardinality(Ahead(Result(table), ShownSoon, Places)) <= joined

QueryIInv == QueryTypeOK /\ WalkOK /\ MissedForLeft /\ RepeatedForJoined /\ PagesExplained

-----------------------------------------------------------------------------
(* Finite sets of bookings and the places in them.                          *)

LEMMA NumbersFinite ==
  /\ Numbers \subseteq Int
  /\ \A S \in SUBSET Numbers : IsFiniteSet(S) /\ Cardinality(S) \in Nat
<1>1. IsFiniteSet(Numbers) /\ Numbers \subseteq Int
  BY QueryBounds, FS_Interval DEF Numbers
<1> QED
  BY <1>1, FS_Subset, FS_CardinalityType

LEMMA Fewer ==
  ASSUME NEW T \in SUBSET Numbers, NEW S \in SUBSET T
  PROVE  Cardinality(S) <= Cardinality(T)
BY NumbersFinite, FS_Subset

LEMMA AtMostOneMore ==
  ASSUME NEW S \in SUBSET Numbers, NEW T \in SUBSET Numbers,
         \A a, b \in T \ S : a = b
  PROVE  Cardinality(T) <= Cardinality(S) + 1
<1>1. CASE T \ S = {}
  BY <1>1, Fewer, NumbersFinite
<1>2. CASE T \ S # {}
  <2>1. PICK a \in T : T \subseteq S \cup {a} /\ a \in Numbers
    BY <1>2
  <2>2. S \cup {a} \in SUBSET Numbers
    BY <2>1
  <2>3. Cardinality(S \cup {a}) <= Cardinality(S) + 1
    BY FS_AddElement, NumbersFinite
  <2> QED
    BY <2>1, <2>2, <2>3, Fewer, NumbersFinite
<1> QED
  BY <1>1, <1>2

LEMMA RankType ==
  ASSUME NEW S \in SUBSET Numbers, NEW n \in Numbers
  PROVE  Rank(S, n) \in 0..Cardinality(S) /\ (n \in S => Rank(S, n) > 0)
<1> DEFINE Newer == { m \in S : m >= n }
<1>1. Newer \in SUBSET S /\ Newer \in SUBSET Numbers
  OBVIOUS
<1>2. Cardinality(Newer) \in 0..Cardinality(S)
  BY <1>1, Fewer, NumbersFinite
<1>3. n \in S => n \in Newer
  BY NumbersFinite
<1>4. n \in S => Cardinality(Newer) # 0
  BY <1>1, <1>3, NumbersFinite, FS_EmptySet
<1> QED
  BY <1>2, <1>4 DEF Rank

(* A newer booking has the smaller place.                                   *)
LEMMA RankOrder ==
  ASSUME NEW S \in SUBSET Numbers, NEW x \in S, NEW y \in S, x < y
  PROVE  Rank(S, y) < Rank(S, x)
<1> DEFINE X == { m \in S : m >= x }
<1> DEFINE Y == { m \in S : m >= y }
<1>1. x \in Int /\ y \in Int /\ \A m \in S : m \in Int
  BY NumbersFinite
<1>2. X \in SUBSET Numbers /\ Y \in SUBSET X /\ x \in X /\ x \notin Y
  <2>1. \A m \in S : m >= y => m >= x
    BY <1>1
  <2>2. x >= x /\ ~(x >= y)
    BY <1>1
  <2> QED
    BY <2>1, <2>2
<1>3. Cardinality(Y) <= Cardinality(X) /\ Cardinality(Y) # Cardinality(X)
  BY <1>2, NumbersFinite, FS_Subset
<1> QED
  BY <1>2, <1>3, NumbersFinite DEF Rank

LEMMA RankInjective ==
  ASSUME NEW S \in SUBSET Numbers, NEW x \in S, NEW y \in S, Rank(S, x) = Rank(S, y)
  PROVE  x = y
<1>1. x \in Int /\ y \in Int /\ Rank(S, x) \in Int
  BY NumbersFinite, RankType
<1>2. CASE x < y
  BY <1>1, <1>2, RankOrder
<1>3. CASE y < x
  BY <1>1, <1>3, RankOrder
<1> QED
  BY <1>1, <1>2, <1>3

(* A booking that joins moves the older ones on by one place.                *)
LEMMA RankJoined ==
  ASSUME NEW S \in SUBSET Numbers, NEW y \in Numbers \ S, NEW x \in Numbers
  PROVE  Rank(S \cup {y}, x) = Rank(S, x) + IF y >= x THEN 1 ELSE 0
<1> DEFINE X == { m \in S : m >= x }
<1>1. X \in SUBSET Numbers /\ y \notin X /\ IsFiniteSet(X) /\ Cardinality(X) \in Nat
  BY NumbersFinite
<1>2. CASE y >= x
  <2>1. { m \in S \cup {y} : m >= x } = X \cup {y}
    BY <1>2
  <2> QED
    BY <1>1, <1>2, <2>1, FS_AddElement DEF Rank
<1>3. CASE ~(y >= x)
  <2>1. { m \in S \cup {y} : m >= x } = X
    BY <1>3
  <2> QED
    BY <1>1, <1>3, <2>1 DEF Rank
<1> QED
  BY <1>2, <1>3

-----------------------------------------------------------------------------
(* What one booking that leaves or joins a result does to the walk.          *)

LEMMA BehindAfterLeft ==
  ASSUME NEW S \in SUBSET Numbers, NEW y \in S, NEW among \in SUBSET S, NEW k \in Nat
  PROVE  Cardinality(Behind(S \ {y}, among \ {y}, k)) <= Cardinality(Behind(S, among, k)) + 1
<1> DEFINE R == S \ {y}
<1> DEFINE B == Behind(S, among, k)
<1> DEFINE C == Behind(R, among \ {y}, k)
<1>1. R \in SUBSET Numbers /\ y \in Numbers \ R /\ S = R \cup {y}
  OBVIOUS
<1>2. B \in SUBSET Numbers /\ C \in SUBSET Numbers
  BY DEF Behind
<1>3. \A a \in C \ B : a \in R /\ Rank(S, a) = k + 1
  <2> SUFFICES ASSUME NEW a \in C \ B
               PROVE  a \in R /\ Rank(S, a) = k + 1
    OBVIOUS
  <2>1. a \in R /\ a \in among /\ a \in Numbers /\ Rank(R, a) <= k /\ ~(Rank(S, a) <= k)
    BY DEF Behind
  <2>2. Rank(R, a) \in Nat /\ Rank(S, a) \in Nat
    BY <1>1, <2>1, RankType, NumbersFinite
  <2> HIDE DEF R
  <2>3. Rank(S, a) <= Rank(R, a) + 1
    BY <1>1, <2>1, <2>2, RankJoined
  <2> QED
    BY <2>1, <2>2, <2>3
<1>4. \A a, b \in C \ B : a = b
  BY <1>3, RankInjective
<1> QED
  BY <1>2, <1>4, AtMostOneMore

LEMMA BehindAfterJoined ==
  ASSUME NEW S \in SUBSET Numbers, NEW y \in Numbers \ S, NEW among \in SUBSET S, NEW k \in Nat
  PROVE  Cardinality(Behind(S \cup {y}, among, k)) <= Cardinality(Behind(S, among, k))
<1> DEFINE B == Behind(S, among, k)
<1> DEFINE C == Behind(S \cup {y}, among, k)
<1>1. B \in SUBSET Numbers
  BY DEF Behind
<1>2. ASSUME NEW a \in C
      PROVE  a \in B
  <2>1. a \in among /\ a \in Numbers /\ Rank(S \cup {y}, a) <= k
    BY DEF Behind
  <2>2. Rank(S, a) \in Nat
    BY <2>1, RankType, NumbersFinite
  <2>3. Rank(S \cup {y}, a) = Rank(S, a) + IF y >= a THEN 1 ELSE 0
    BY <2>1, RankJoined
  <2>4. Rank(S, a) <= k
    BY <2>1, <2>2, <2>3
  <2> QED
    BY <2>1, <2>4 DEF Behind
<1>3. C \in SUBSET B
  BY <1>2
<1> QED
  BY <1>1, <1>3, Fewer

LEMMA AheadAfterLeft ==
  ASSUME NEW S \in SUBSET Numbers, NEW y \in S, NEW among \in SUBSET Numbers, NEW k \in Nat
  PROVE  Cardinality(Ahead(S \ {y}, among, k)) <= Cardinality(Ahead(S, among, k))
<1> DEFINE R == S \ {y}
<1> DEFINE A == Ahead(S, among, k)
<1> DEFINE C == Ahead(R, among, k)
<1>1. A \in SUBSET Numbers
  BY DEF Ahead
<1>2. R \in SUBSET Numbers /\ y \in Numbers \ R /\ S = R \cup {y}
  OBVIOUS
<1>3. ASSUME NEW a \in C
      PROVE  a \in A
  <2>1. a \in among /\ a \in R /\ a \in S /\ a \in Numbers /\ Rank(R, a) > k
    BY DEF Ahead
  <2> HIDE DEF R
  <2>2. Rank(R, a) \in Nat
    BY <1>2, <2>1, RankType, NumbersFinite
  <2>3. Rank(S, a) = Rank(R, a) + IF y >= a THEN 1 ELSE 0
    BY <1>2, <2>1, RankJoined
  <2>4. Rank(S, a) > k
    BY <2>1, <2>2, <2>3
  <2> QED
    BY <2>1, <2>4 DEF Ahead
<1>4. C \in SUBSET A
  BY <1>3
<1> QED
  BY <1>1, <1>4, Fewer

(* Either the one that joins lands ahead, or it pushes the last one behind.   *)
LEMMA AheadAfterJoined ==
  ASSUME NEW S \in SUBSET Numbers, NEW y \in Numbers \ S, NEW among \in SUBSET Numbers, NEW k \in Nat
  PROVE  Cardinality(Ahead(S \cup {y}, among, k)) <= Cardinality(Ahead(S, among, k)) + 1
<1> DEFINE R == S \cup {y}
<1> DEFINE A == Ahead(S, among, k)
<1> DEFINE C == Ahead(R, among, k)
<1>1. /\ A \in SUBSET Numbers /\ C \in SUBSET Numbers /\ R \in SUBSET Numbers /\ y \in R
      /\ S \subseteq R
  BY DEF Ahead
<1>2. \A a \in R : Rank(S, a) \in Nat /\ Rank(R, a) \in Nat /\ Rank(R, a) = Rank(S, a) + IF y >= a THEN 1 ELSE 0
  BY <1>1, RankType, RankJoined, NumbersFinite
<1>3. \A a \in C : a \in among /\ a \in R /\ Rank(R, a) > k
  BY DEF Ahead
<1>4. \A a \in (C \ A) \ {y} : a \in S /\ Rank(R, a) = k + 1 /\ y > a
  <2> SUFFICES ASSUME NEW a \in (C \ A) \ {y}
               PROVE  a \in S /\ Rank(R, a) = k + 1 /\ y > a
    OBVIOUS
  <2>1. a \in S /\ a \in R /\ a \in among /\ Rank(R, a) > k
    BY <1>3
  <2>2. ~(Rank(S, a) > k)
    BY <2>1 DEF Ahead
  <2>3. a \in Int /\ y \in Int
    BY <2>1, NumbersFinite
  <2> QED
    BY <1>2, <2>1, <2>2, <2>3
<1> HIDE DEF R, A, C
<1>5. \A a, b \in C \ A : a = b
  <2> SUFFICES ASSUME NEW a \in C \ A, NEW b \in C \ A, a # b
               PROVE  FALSE
    OBVIOUS
  <2>1. CASE a # y /\ b # y
    <3>1. a \in R /\ b \in R /\ Rank(R, a) = Rank(R, b)
      BY <1>3, <1>4, <2>1
    <3> QED
      BY <1>1, <3>1, RankInjective
  <2>2. CASE a = y /\ b # y
    BY <1>1, <1>2, <1>3, <1>4, <2>2, RankOrder
  <2>3. CASE b = y /\ a # y
    BY <1>1, <1>2, <1>3, <1>4, <2>3, RankOrder
  <2> QED
    BY <2>1, <2>2, <2>3
<1> QED
  BY <1>1, <1>5, AtMostOneMore DEF R, A, C

-----------------------------------------------------------------------------
(* A page.                                                                  *)

PageAfter(result, k) == { n \in result : Rank(result, n) \in (k + 1)..(k + PageSize) }

(* A short page is the last: no two bookings have one place, so a result     *)
(* that reaches beyond a page fills it.                                     *)
LEMMA ShortPageIsLast ==
  ASSUME NEW S \in SUBSET Numbers, NEW k \in Nat, Cardinality(PageAfter(S, k)) < PageSize
  PROVE  \A n \in S : Rank(S, n) <= k + PageSize
<1> DEFINE P == PageAfter(S, k)
<1> DEFINE Rest == S \ P
<1> DEFINE Window == (k + 1)..(k + PageSize)
<1> DEFINE Ranks == 1..Cardinality(S)
<1> DEFINE f == [n \in Rest |-> Rank(S, n)]
<1>1. PageSize \in Nat /\ Cardinality(S) \in Nat /\ IsFiniteSet(S)
  BY QueryBounds, NumbersFinite
<1>2. \A n \in S : Rank(S, n) \in Ranks
  BY <1>1, RankType
<1>3. /\ P \in SUBSET S /\ P \in SUBSET Numbers /\ S \cap P = P
      /\ Cardinality(P) \in Nat /\ Cardinality(P) < PageSize
  BY NumbersFinite DEF PageAfter
<1>4. Cardinality(Rest) = Cardinality(S) - Cardinality(P)
  BY <1>1, <1>3, FS_Difference
<1>5. f \in Injection(Rest, Ranks \ Window)
  <2>1. \A n \in Rest : Rank(S, n) \in Ranks \ Window
    BY <1>2 DEF PageAfter
  <2>2. \A a, b \in Rest : f[a] = f[b] => a = b
    BY RankInjective
  <2> QED
    BY <2>1, <2>2 DEF Injection, IsInjective
<1>6. IsFiniteSet(Ranks) /\ Cardinality(Ranks) = Cardinality(S)
  BY <1>1, FS_Interval
<1>7. /\ IsFiniteSet(Ranks \ Window)
      /\ Cardinality(Ranks \ Window) = Cardinality(S) - Cardinality(Ranks \cap Window)
  BY <1>6, FS_Difference
<1>8. Cardinality(Rest) <= Cardinality(Ranks \ Window)
  BY <1>5, <1>7, FS_Injection
<1>9. CASE Cardinality(S) >= k + PageSize
  <2>1. Ranks \cap Window = Window
    BY <1>1, <1>9
  <2>2. Cardinality(Window) = PageSize
    BY <1>1, FS_Interval
  <2> HIDE DEF P, Rest, Window, Ranks
  <2> QED
    BY <1>1, <1>3, <1>4, <1>7, <1>8, <1>9, <2>1, <2>2
<1>10. CASE ~(Cardinality(S) >= k + PageSize)
  BY <1>1, <1>2, <1>10
<1> QED
  BY <1>9, <1>10

-----------------------------------------------------------------------------
(* The steps.                                                               *)

LEMMA Typed ==
  ASSUME QueryTypeOK
  PROVE  /\ Result(table) \in SUBSET Numbers
         /\ ShownSoon \in SUBSET Numbers
         /\ walk.page \in Nat \ {0} /\ Offset \in Nat /\ walk.page * PageSize = Offset + PageSize
         /\ Places \in Nat
<1>1. walk.page \in Nat \ {0} /\ PageSize \in Nat /\ walk.rows \in SUBSET Numbers
  BY QueryBounds DEF QueryTypeOK
<1>2. \A p, s \in Nat : p # 0 => (p - 1) * s \in Nat /\ p * s \in Nat /\ p * s = (p - 1) * s + s
  OBVIOUS
<1>3. Offset \in Nat /\ walk.page * PageSize = Offset + PageSize /\ walk.page * PageSize \in Nat
  BY <1>1, <1>2 DEF Offset
<1> QED
  BY <1>1, <1>3 DEF QueryTypeOK, Result, ShownSoon, Places

LEMMA FirstQuery == QueryInit => QueryIInv
<1> SUFFICES ASSUME QueryInit
             PROVE  QueryIInv
  OBVIOUS
<1>1. PICK n \in 0..(MaxRows - 1) : table \in [1..n -> Row]
  BY DEF QueryInit
<1>2. 1..n \in SUBSET Numbers /\ DOMAIN table = 1..n
  BY <1>1, QueryBounds DEF Numbers
<1>3. QueryTypeOK
  BY <1>1, <1>2 DEF QueryInit, QueryTypeOK
<1>4. WalkOK
  BY DEF QueryInit, WalkOK
<1>5. steady \ ShownSoon = {} /\ ShownSoon = {} /\ shown \cap walk.rows = {}
  BY DEF QueryInit, ShownSoon
<1>6. Behind(Result(table), {}, Places) = {} /\ Ahead(Result(table), {}, Places) = {}
  BY DEF Behind, Ahead
<1>7. walk.pc = "asking" /\ repeats = 0 /\ joined = 0 /\ left = 0
  BY DEF QueryInit
<1>8. MissedForLeft
  BY <1>5, <1>6, <1>7, FS_EmptySet DEF MissedForLeft
<1>9. RepeatedForJoined
  BY <1>5, <1>6, <1>7, FS_EmptySet DEF RepeatedForJoined
<1> QED
  BY <1>3, <1>4, <1>7, <1>8, <1>9 DEF QueryIInv, PagesExplained

(* What a write of somebody else does to the result.                         *)
OneChange(R, S) ==
  \/ S = R
  \/ \E y \in Numbers \ R : S = R \cup {y}
  \/ \E y \in R : S = R \ {y}

IsTable(rows) == DOMAIN rows \in SUBSET Numbers /\ rows \in [DOMAIN rows -> Row]

LEMMA WrittenOnce ==
  ASSUME QueryTypeOK, Create \/ SetStatus \/ Delete
  PROVE  \E rows : IsTable(rows) /\ Write(rows) /\ OneChange(Result(table), Result(rows))
<1>1. DOMAIN table \in SUBSET Numbers /\ table \in [DOMAIN table -> Row]
  BY DEF QueryTypeOK
<1>2. CASE Create
  <2>1. PICK n \in Numbers, row \in Row :
          /\ \A k \in DOMAIN table : k < n
          /\ Write([k \in DOMAIN table \cup {n} |-> IF k = n THEN row ELSE table[k]])
    BY <1>2 DEF Create
  <2> DEFINE rows == [k \in DOMAIN table \cup {n} |-> IF k = n THEN row ELSE table[k]]
  <2>2. n \notin DOMAIN table
    BY <1>1, <2>1, NumbersFinite
  <2>3. IsTable(rows)
    BY <1>1 DEF IsTable
  <2>4. Result(rows) \ {n} = Result(table) /\ n \notin Result(table)
    BY <2>2 DEF Result
  <2>5. OneChange(Result(table), Result(rows))
    BY <2>4 DEF OneChange
  <2> QED
    BY <2>1, <2>3, <2>5
<1>3. CASE SetStatus
  <2>1. PICK n \in DOMAIN table, status \in Status : Write([table EXCEPT ![n].status = status])
    BY <1>3 DEF SetStatus
  <2> DEFINE rows == [table EXCEPT ![n].status = status]
  <2>2. table[n] \in Row /\ [table[n] EXCEPT !.status = status] \in Row
    BY <1>1 DEF Row
  <2>3. IsTable(rows)
    BY <1>1, <2>2 DEF IsTable
  <2>4. DOMAIN rows = DOMAIN table /\ \A k \in DOMAIN table \ {n} : rows[k] = table[k]
    BY <1>1
  <2>5. Result(rows) \ {n} = Result(table) \ {n}
    BY <2>4 DEF Result
  <2>6. n \in Numbers
    BY <1>1
  <2>7. OneChange(Result(table), Result(rows))
    <3> DEFINE R == Result(table)
    <3> DEFINE S == Result(rows)
    <3> HIDE DEF R, S
    <3>1. S \ {n} = R \ {n}
      BY <2>5 DEF R, S
    <3>2. S = R \/ (n \notin R /\ S = R \cup {n}) \/ (n \in R /\ S = R \ {n})
      BY <3>1
    <3>3. OneChange(R, S)
      BY <2>6, <3>2 DEF OneChange
    <3> QED
      BY <3>3 DEF R, S
  <2> QED
    BY <2>1, <2>3, <2>7
<1>4. CASE Delete
  <2>1. PICK n \in DOMAIN table : Write([k \in DOMAIN table \ {n} |-> table[k]])
    BY <1>4 DEF Delete
  <2> DEFINE rows == [k \in DOMAIN table \ {n} |-> table[k]]
  <2>2. IsTable(rows)
    BY <1>1 DEF IsTable
  <2>3. Result(rows) = Result(table) \ {n}
    BY DEF Result
  <2>4. OneChange(Result(table), Result(rows))
    BY <2>3 DEF OneChange
  <2> QED
    BY <2>1, <2>2, <2>4
<1> QED
  BY <1>2, <1>3, <1>4

LEMMA WriteStep ==
  ASSUME QueryIInv, NEW rows, IsTable(rows), Write(rows), OneChange(Result(table), Result(rows))
  PROVE  QueryIInv'
<1> DEFINE R == Result(table)
<1> DEFINE S == Result(rows)
<1> DEFINE V == ShownSoon
<1>1. /\ R \in SUBSET Numbers /\ V \in SUBSET Numbers /\ Places \in Nat
      /\ steady \in SUBSET R /\ left \in Nat /\ joined \in Nat /\ repeats \in Nat
      /\ shown \in SUBSET Numbers /\ walk.rows \in SUBSET Numbers
  BY Typed DEF QueryIInv, QueryTypeOK, WalkOK
<1>2. S \in SUBSET Numbers
  BY DEF IsTable, Result
<1>3. /\ table' = rows /\ caller' = caller /\ query' = query /\ walk' = walk
      /\ shown' = shown /\ repeats' = repeats /\ steady' = steady \cap S
      /\ joined' = joined + IF Underway THEN Cardinality(S \ R) ELSE 0
      /\ left'   = left   + IF Underway THEN Cardinality(R \ S) ELSE 0
  BY DEF Write
<1>4. Result(table)' = S
  BY <1>3 DEF Result, Matches, Lists, IsAdmin, IsManager, IsHost, IsGuest, Has
<1>5. ShownSoon' = V /\ Places' = Places /\ MayRead' = MayRead
  BY <1>3 DEF ShownSoon, Places, Offset, MayRead, IsAdmin, IsManager, Has
<1>6. Cardinality(S \ R) \in Nat /\ Cardinality(R \ S) \in Nat
  BY <1>1, <1>2, NumbersFinite
<1> DEFINE st == steady \cap S
<1>7. st \in SUBSET S /\ st \in SUBSET R /\ st \in SUBSET steady /\ steady' = st
  BY <1>1, <1>3
<1>8. QueryTypeOK'
  BY <1>1, <1>3, <1>6, <1>7 DEF QueryIInv, QueryTypeOK, IsTable
<1>9. left' \in Nat /\ left <= left' /\ joined' \in Nat /\ joined <= joined'
  BY <1>1, <1>3, <1>6
<1> HIDE DEF R, S, V, st
<1>10. WalkOK'
  <2>1. CASE walk.page = 1 /\ walk.pc = "asking"
    BY <1>3, <1>4, <1>7, <2>1 DEF QueryIInv, WalkOK, Underway
  <2>2. CASE ~(walk.page = 1 /\ walk.pc = "asking")
    BY <1>3, <1>4, <1>7, <2>2 DEF QueryIInv, WalkOK
  <2> QED
    BY <2>1, <2>2
<1>11. /\ Cardinality(st \ V) <= Cardinality(steady \ V)
       /\ Cardinality(st \ shown) <= Cardinality(steady \ shown)
       /\ Cardinality(st \ V) \in Nat /\ Cardinality(steady \ V) \in Nat
       /\ Cardinality(st \ shown) \in Nat /\ Cardinality(steady \ shown) \in Nat
  BY <1>1, <1>7, Fewer, NumbersFinite
<1>12. PagesExplained'
  BY <1>1, <1>3, <1>5, <1>7, <1>9, <1>11 DEF QueryIInv, PagesExplained
<1> DEFINE B == Behind(R, steady \ V, Places)
<1> DEFINE A == Ahead(R, V, Places)
<1> DEFINE BB == Behind(S, st \ V, Places)
<1> DEFINE AA == Ahead(S, V, Places)
<1>13. /\ B \in SUBSET Numbers /\ A \in SUBSET Numbers /\ BB \in SUBSET Numbers
       /\ AA \in SUBSET Numbers
  BY <1>1, <1>7 DEF Behind, Ahead
<1>14. /\ Cardinality(B) \in Nat /\ Cardinality(A) \in Nat /\ Cardinality(BB) \in Nat
       /\ Cardinality(AA) \in Nat
  BY <1>13, NumbersFinite
<1>15. /\ Cardinality(BB) <= Cardinality(B) + Cardinality(R \ S)
       /\ Cardinality(AA) <= Cardinality(A) + Cardinality(S \ R)
  <2>1. CASE S = R
    <3>1. st = steady
      BY <1>1, <2>1 DEF st
    <3>2. BB = B /\ AA = A
      BY <2>1, <3>1
    <3> QED
      BY <1>6, <1>14, <3>2
  <2>2. CASE \E y \in Numbers \ R : S = R \cup {y}
    <3>1. PICK y \in Numbers \ R : S = R \cup {y}
      BY <2>2
    <3>2. st = steady /\ S \ R = {y} /\ Cardinality(S \ R) = 1
      BY <1>1, <3>1, FS_Singleton DEF st
    <3>3. steady \ V \in SUBSET R
      BY <1>1
    <3>4. Cardinality(BB) <= Cardinality(B)
      BY <1>1, <3>1, <3>2, <3>3, BehindAfterJoined
    <3>5. Cardinality(AA) <= Cardinality(A) + 1
      BY <1>1, <3>1, AheadAfterJoined
    <3> QED
      BY <1>6, <1>14, <3>2, <3>4, <3>5
  <2>3. CASE \E y \in R : S = R \ {y}
    <3>1. PICK y \in R : S = R \ {y}
      BY <2>3
    <3>2. st \ V = (steady \ V) \ {y} /\ R \ S = {y} /\ Cardinality(R \ S) = 1
      BY <1>1, <3>1, FS_Singleton DEF st
    <3>3. steady \ V \in SUBSET R
      BY <1>1
    <3>4. Cardinality(BB) <= Cardinality(B) + 1
      BY <1>1, <3>1, <3>2, <3>3, BehindAfterLeft
    <3>5. Cardinality(AA) <= Cardinality(A)
      BY <1>1, <3>1, AheadAfterLeft
    <3> QED
      BY <1>6, <1>14, <3>2, <3>4, <3>5
  <2> QED
    BY <2>1, <2>2, <2>3 DEF OneChange, R, S
<1>16. CASE Underway
  <2>1. walk.pc # "over" /\ Cardinality(B) <= left
        /\ repeats + Cardinality(shown \cap walk.rows) + Cardinality(A) <= joined
    BY <1>16 DEF Underway, QueryIInv, MissedForLeft, RepeatedForJoined, R, V
  <2>2. Cardinality(shown \cap walk.rows) \in Nat
    BY <1>1, NumbersFinite
  <2>3. joined' = joined + Cardinality(S \ R) /\ left' = left + Cardinality(R \ S)
    BY <1>3, <1>16
  <2>4. Cardinality(BB) <= left'
    BY <1>1, <1>6, <1>14, <1>15, <2>1, <2>3
  <2>5. repeats + Cardinality(shown \cap walk.rows) + Cardinality(AA) <= joined'
    BY <1>1, <1>6, <1>14, <1>15, <2>1, <2>2, <2>3
  <2>6. walk.pc = "enriching" /\ Cardinality(walk.rows) < PageSize => Cardinality(st \ V) <= left'
    BY <1>1, <1>9, <1>11 DEF QueryIInv, MissedForLeft, V
  <2>7. MissedForLeft'
    BY <1>3, <1>4, <1>5, <1>7, <2>4, <2>6 DEF MissedForLeft
  <2>8. RepeatedForJoined'
    BY <1>3, <1>4, <1>5, <2>5 DEF RepeatedForJoined
  <2> QED
    BY <1>8, <1>10, <1>12, <2>7, <2>8 DEF QueryIInv
<1>17. CASE ~Underway /\ walk.pc # "over"
  <2>1. walk.page = 1 /\ walk.pc = "asking"
    BY <1>1, <1>17 DEF Underway, QueryIInv, QueryTypeOK
  <2>2. steady = {} /\ shown = {} /\ walk.rows = {} /\ repeats = 0
    BY <2>1 DEF QueryIInv, WalkOK
  <2>3. V = {} /\ st = {} /\ shown \cap walk.rows = {}
    BY <1>7, <2>2 DEF V, ShownSoon
  <2>4. BB = {} /\ AA = {}
    BY <2>3 DEF Behind, Ahead
  <2>5. Cardinality(BB) = 0 /\ Cardinality(AA) = 0 /\ Cardinality(shown \cap walk.rows) = 0
    BY <2>3, <2>4, FS_EmptySet
  <2>6. MissedForLeft'
    <3>1. Cardinality(BB) <= left' /\ walk'.pc = "asking"
      BY <1>3, <1>9, <2>1, <2>5
    <3> QED
      BY <1>4, <1>5, <1>7, <3>1 DEF MissedForLeft
  <2>7. RepeatedForJoined'
    <3>1. repeats + Cardinality(shown \cap walk.rows) + Cardinality(AA) <= joined'
      BY <1>9, <2>2, <2>5
    <3> QED
      BY <1>3, <1>4, <1>5, <3>1 DEF RepeatedForJoined
  <2> QED
    BY <1>8, <1>10, <1>12, <2>6, <2>7 DEF QueryIInv
<1>18. CASE walk.pc = "over"
  BY <1>3, <1>8, <1>10, <1>12, <1>18 DEF QueryIInv, MissedForLeft, RepeatedForJoined
<1> QED
  BY <1>16, <1>17, <1>18

LEMMA SelectStep ==
  ASSUME QueryIInv, Select
  PROVE  QueryIInv'
<1> DEFINE R == Result(table)
<1> DEFINE k == Offset
<1> DEFINE st == IF walk.page = 1 THEN R ELSE steady
<1>1. /\ R \in SUBSET Numbers /\ k \in Nat /\ PageSize \in Nat
      /\ walk.page * PageSize = k + PageSize
      /\ steady \in SUBSET R /\ left \in Nat /\ joined \in Nat /\ repeats \in Nat
      /\ shown \in SUBSET Numbers
  BY Typed, QueryBounds DEF QueryIInv, QueryTypeOK, WalkOK
<1>2. /\ walk.pc = "asking" /\ walk.rows = {} /\ ShownSoon = shown /\ Places = k
      /\ shown \cap walk.rows = {}
  BY DEF Select, QueryIInv, WalkOK, ShownSoon, Places
<1>3. Page = PageAfter(R, k) /\ Page \in SUBSET R
  BY DEF Page, PageAfter
<1>4. /\ walk' = [walk EXCEPT !.pc = "enriching", !.rows = Page] /\ steady' = st
      /\ UNCHANGED <<table, caller, query, shown, repeats, joined, left>>
  BY DEF Select
<1>5. /\ walk' \in [pc : {"asking", "enriching", "over"}, page : Nat \ {0}, rows : SUBSET Numbers]
      /\ walk'.pc = "enriching" /\ walk'.rows = Page /\ walk'.page = walk.page
  BY <1>1, <1>3, <1>4 DEF QueryIInv, QueryTypeOK
<1>6. Result(table)' = R /\ ShownSoon' = shown \cup Page /\ Places' = k + PageSize
  BY <1>1, <1>4, <1>5
     DEF Result, Matches, Lists, IsAdmin, IsManager, IsHost, IsGuest, Has, ShownSoon, Places
<1>7. QueryTypeOK'
  BY <1>1, <1>4, <1>5 DEF QueryIInv, QueryTypeOK
<1>8. WalkOK'
  BY <1>1, <1>4, <1>5, <1>6 DEF WalkOK
<1>9. \A n \in R : Rank(R, n) \in Nat /\ Rank(R, n) > 0
  <2> HIDE DEF R
  <2>1. Cardinality(R) \in Nat /\ R \subseteq Numbers
    BY <1>1, NumbersFinite
  <2>2. \A n \in R : Rank(R, n) \in 0..Cardinality(R) /\ Rank(R, n) > 0
    BY <1>1, <2>1, RankType
  <2> QED
    BY <2>1, <2>2
<1>10. st \in SUBSET R
  BY <1>1
<1> DEFINE B == Behind(R, steady \ shown, k)
<1> DEFINE BB == Behind(R, st \ (shown \cup Page), k + PageSize)
<1>11. B \in SUBSET Numbers /\ Cardinality(B) \in Nat /\ Cardinality(B) <= left
  BY <1>1, <1>2, NumbersFinite DEF QueryIInv, MissedForLeft, Behind
<1>12. BB \in SUBSET Numbers /\ Cardinality(BB) \in Nat /\ Cardinality(BB) <= left
  <2>1. \A n \in BB : n \in st /\ n \in R /\ n \notin shown /\ Rank(R, n) <= k
    BY <1>1, <1>3, <1>9, <1>10 DEF Behind, PageAfter
  <2>2. CASE walk.page = 1
    <3>1. k = 0
      BY <2>2, QueryBounds DEF Offset
    <3> HIDE DEF BB, k, R
    <3>2. BB = {}
      BY <1>9, <2>1, <3>1
    <3>3. BB \in SUBSET Numbers /\ Cardinality(BB) = 0
      BY <3>2, FS_EmptySet
    <3> QED
      BY <1>1, <3>3
  <2>3. CASE walk.page # 1
    <3>1. BB \in SUBSET B
      BY <2>1, <2>3 DEF Behind
    <3>2. BB \in SUBSET Numbers /\ Cardinality(BB) <= Cardinality(B)
      BY <1>11, <3>1, Fewer
    <3>3. Cardinality(BB) \in Nat
      BY <3>2, NumbersFinite
    <3> HIDE DEF B, BB
    <3> QED
      BY <1>1, <1>11, <3>2, <3>3
  <2> QED
    BY <2>2, <2>3
<1>13. Cardinality(Page) < PageSize => Cardinality(st \ (shown \cup Page)) <= left
  <2> SUFFICES ASSUME Cardinality(Page) < PageSize
               PROVE  Cardinality(st \ (shown \cup Page)) <= left
    OBVIOUS
  <2>1. \A n \in R : Rank(R, n) <= k + PageSize
    BY <1>1, <1>3, ShortPageIsLast
  <2>2. BB = st \ (shown \cup Page)
    BY <1>10, <2>1 DEF Behind
  <2> QED
    BY <1>12, <2>2
<1>14. MissedForLeft'
  BY <1>4, <1>5, <1>6, <1>12, <1>13 DEF MissedForLeft
<1> DEFINE A == Ahead(R, shown, k)
<1> DEFINE AA == Ahead(R, shown \cup Page, k + PageSize)
<1> DEFINE P == shown \cap Page
<1>15. /\ A \in SUBSET Numbers /\ Cardinality(A) \in Nat
       /\ AA \in SUBSET Numbers /\ Cardinality(AA) \in Nat
       /\ P \in SUBSET Numbers /\ Cardinality(P) \in Nat
  BY <1>1, <1>3, NumbersFinite DEF Ahead
<1>16. AA \cup P \in SUBSET A /\ AA \cap P = {}
  BY <1>1, <1>3, <1>9 DEF Ahead, PageAfter
<1>17. Cardinality(AA) + Cardinality(P) <= Cardinality(A)
  <2> HIDE DEF A, AA, P
  <2>1. Cardinality(AA \cup P) = Cardinality(AA) + Cardinality(P) - Cardinality(AA \cap P)
    BY <1>15, FS_Union, NumbersFinite
  <2>2. Cardinality(AA \cup P) <= Cardinality(A)
    BY <1>15, <1>16, Fewer
  <2> QED
    BY <1>15, <1>16, <2>1, <2>2, FS_EmptySet
<1>18. repeats + Cardinality(A) <= joined
  BY <1>1, <1>2, <1>15, FS_EmptySet DEF QueryIInv, RepeatedForJoined
<1>19. RepeatedForJoined'
  <2>1. repeats + Cardinality(P) + Cardinality(AA) <= joined
    BY <1>1, <1>15, <1>17, <1>18
  <2> QED
    BY <1>4, <1>5, <1>6, <2>1 DEF RepeatedForJoined
<1>20. PagesExplained'
  BY <1>5 DEF PagesExplained
<1> QED
  BY <1>7, <1>8, <1>14, <1>19, <1>20 DEF QueryIInv

LEMMA EnrichStep ==
  ASSUME QueryIInv, Enrich
  PROVE  QueryIInv'
<1> DEFINE R == Result(table)
<1>1. /\ R \in SUBSET Numbers /\ ShownSoon \in SUBSET Numbers /\ Places \in Nat
      /\ walk.page \in Nat \ {0} /\ walk.page * PageSize \in Nat
      /\ steady \in SUBSET R /\ left \in Nat /\ joined \in Nat /\ repeats \in Nat
      /\ shown \in SUBSET Numbers /\ walk.rows \in SUBSET Numbers
  BY Typed, QueryBounds DEF QueryIInv, QueryTypeOK, WalkOK
<1> DEFINE again == Cardinality(shown \cap walk.rows)
<1>2. walk.pc = "enriching" /\ again \in Nat /\ Places = walk.page * PageSize
  BY <1>1, NumbersFinite DEF Enrich, Places
<1>3. /\ shown' = ShownSoon /\ repeats' = repeats + again
      /\ UNCHANGED <<table, caller, query, steady, joined, left>>
      /\ walk' = IF Cardinality(walk.rows) < PageSize
                 THEN [walk EXCEPT !.pc = "over", !.rows = {}]
                 ELSE [pc |-> "asking", page |-> walk.page + 1, rows |-> {}]
  BY DEF Enrich, ShownSoon
<1>4. /\ walk' \in [pc : {"asking", "enriching", "over"}, page : Nat \ {0}, rows : SUBSET Numbers]
      /\ walk'.rows = {} /\ walk'.pc # "enriching"
  <2>1. walk \in [pc : {"asking", "enriching", "over"}, page : Nat \ {0}, rows : SUBSET Numbers]
    BY DEF QueryIInv, QueryTypeOK
  <2>2. CASE Cardinality(walk.rows) < PageSize
    <3>1. walk' = [walk EXCEPT !.pc = "over", !.rows = {}]
      BY <1>3, <2>2
    <3> QED
      BY <2>1, <3>1
  <2>3. CASE ~(Cardinality(walk.rows) < PageSize)
    <3>1. /\ walk' = [pc |-> "asking", page |-> walk.page + 1, rows |-> {}]
          /\ walk.page + 1 \in Nat \ {0}
      BY <1>1, <1>3, <2>3
    <3> QED
      BY <3>1
  <2> QED
    BY <2>2, <2>3
<1>5. QueryTypeOK'
  BY <1>1, <1>2, <1>3, <1>4 DEF QueryIInv, QueryTypeOK
<1>6. Result(table)' = R /\ ShownSoon' = ShownSoon /\ MayRead' = MayRead
  BY <1>3, <1>4
    DEF Result, Matches, Lists, IsAdmin, IsManager, IsHost, IsGuest, Has, MayRead, ShownSoon
<1>7. repeats + again + Cardinality(Ahead(R, ShownSoon, Places)) <= joined
  BY <1>2 DEF QueryIInv, RepeatedForJoined
<1>8. Ahead(R, ShownSoon, Places) \in SUBSET Numbers
  BY <1>1 DEF Ahead
<1>9. Cardinality(Ahead(R, ShownSoon, Places)) \in Nat
  BY <1>8, NumbersFinite
<1>10. CASE Cardinality(walk.rows) < PageSize
  <2>1. walk'.pc = "over" /\ walk'.page = walk.page
    BY <1>3, <1>10 DEF QueryIInv, QueryTypeOK
  <2>2. WalkOK'
    BY <1>1, <1>3, <1>4, <1>6, <2>1 DEF WalkOK
  <2>3. Cardinality(steady \ ShownSoon) <= left
    BY <1>2, <1>10 DEF QueryIInv, MissedForLeft
  <2>4. PagesExplained'
    BY <1>1, <1>2, <1>3, <1>7, <1>9, <2>3 DEF PagesExplained
  <2> QED
    BY <1>5, <2>1, <2>2, <2>4 DEF QueryIInv, MissedForLeft, RepeatedForJoined
<1>11. CASE ~(Cardinality(walk.rows) < PageSize)
  <2>1. walk'.pc = "asking" /\ walk'.page = walk.page + 1
    BY <1>3, <1>11
  <2>2. WalkOK'
    BY <1>1, <1>3, <1>4, <1>6, <2>1 DEF WalkOK
  <2>3. Places' = Places
    BY <1>1, <1>2, <2>1 DEF Places, Offset
  <2>4. shown' \cap walk'.rows = {} /\ Cardinality(shown' \cap walk'.rows) = 0
    BY <1>4, FS_EmptySet
  <2>5. MissedForLeft'
    BY <1>2, <1>3, <1>6, <2>1, <2>3 DEF QueryIInv, MissedForLeft
  <2>6. RepeatedForJoined'
    BY <1>1, <1>2, <1>3, <1>6, <1>7, <1>9, <2>1, <2>3, <2>4 DEF RepeatedForJoined
  <2> QED
    BY <1>5, <2>1, <2>2, <2>5, <2>6 DEF QueryIInv, PagesExplained
<1> QED
  BY <1>10, <1>11

LEMMA QueryStep ==
  ASSUME QueryIInv, [QueryNext]_queryVars
  PROVE  QueryIInv'
<1>1. CASE Forbidden
  <2>1. walk.pc = "asking" /\ ~MayRead /\ walk' = [walk EXCEPT !.pc = "over"]
        /\ UNCHANGED <<table, caller, query, shown, repeats, steady, joined, left>>
    BY <1>1 DEF Forbidden
  <2>2. /\ walk' \in [pc : {"asking", "enriching", "over"}, page : Nat \ {0}, rows : SUBSET Numbers]
        /\ walk'.pc = "over" /\ walk'.rows = walk.rows
    BY <2>1 DEF QueryIInv, QueryTypeOK
  <2>3. Result(table)' = Result(table) /\ MayRead' = MayRead
    BY <2>1 DEF Result, Matches, Lists, IsAdmin, IsManager, IsHost, IsGuest, Has, MayRead
  <2>4. QueryTypeOK' /\ WalkOK'
    BY <2>1, <2>2, <2>3 DEF QueryIInv, QueryTypeOK, WalkOK
  <2> QED
    BY <2>1, <2>2, <2>3, <2>4 DEF QueryIInv, MissedForLeft, RepeatedForJoined, PagesExplained
<1>2. CASE Create \/ SetStatus \/ Delete
  BY <1>2, WrittenOnce, WriteStep DEF QueryIInv
<1>3. CASE UNCHANGED queryVars
  BY <1>3
    DEF queryVars, QueryIInv, QueryTypeOK, WalkOK, MissedForLeft, RepeatedForJoined,
        PagesExplained, Result, Matches, Lists, IsAdmin, IsManager, IsHost, IsGuest, Has,
        MayRead, ShownSoon, Places, Offset
<1> QED
  BY <1>1, <1>2, <1>3, SelectStep, EnrichStep DEF QueryNext

(* A booking slips behind the walk unseen only when one leaves the result,    *)
(* and comes before it again only when one joins.                           *)
THEOREM QueryInvariance == QuerySpec => []QueryIInv
BY FirstQuery, QueryStep, PTL DEF QuerySpec

(* For any page size and any writes meanwhile: a walk misses no more of the   *)
(* bookings that matched all along than left the result, and repeats no more *)
(* rows than joined it.                                                     *)
THEOREM PagesExplainedHolds == QuerySpec => []PagesExplained
<1>1. QueryIInv => PagesExplained
  BY DEF QueryIInv
<1> QED
  BY <1>1, QueryInvariance, PTL

(* Whoever calls, whoever booked with whom: list, single GET, roster and     *)
(* check-in link agree on who sees a booking, but for the named exceptions.  *)
THEOREM ViewsAgreeHolds == QuerySpec => []ViewsAgree
<1>1. ViewsAgree
  <2> SUFFICES ASSUME MayRead, NEW n \in DOMAIN table
               PROVE  LET row == table[n] IN
                      /\ Gets(row) => \E view \in {"none", "guest"} : Lists(row, view)
                      /\ \A view \in {"none", "guest", "owner"} :
                           Lists(row, view) /\ ~Gets(row)
                             => view = "guest" /\ IsManager /\ IsGuest(row) /\ ~IsHost(row)
                      /\ SeesRoster(row) /\ ~Gets(row) => Has("admin:scopes")
                      /\ GetsLink(row) /\ ~Gets(row)
                           => Has("admin:scopes") \/ (IsManager /\ IsGuest(row))
    BY DEF ViewsAgree
  <2> QED
    BY DEF Gets, Lists, SeesRoster, GetsLink, IsAdmin
<1> QED
  BY <1>1, PTL
=============================================================================
