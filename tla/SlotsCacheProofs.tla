-------------------------- MODULE SlotsCacheProofs --------------------------
(***************************************************************************)
(* Proofs about SlotsCache, for any number of readers, writers, syncs,      *)
(* writes and ticks: its state is well typed, what the entry hides is        *)
(* accounted for, and the cache implements SlotsView.                       *)
(***************************************************************************)
EXTENDS SlotsCache, TLAPS

(* What a reader that holds rows, or the entry, does not show of the table.  *)
Explained(value, crossed) ==
  \A u \in (value + 1)..version : u \in PendingWrites \cup missed \cup crossed

ReadersExplained ==
  \A r \in Readers : reader[r].pc = "filling" => Explained(reader[r].value, reader[r].crossed)

(* How long ago what they hold was overwritten.                             *)
CurrentIsNew == \A v \in Versions : v >= version => outdated[v] = 0

ReadersAge ==
  \A r \in Readers : reader[r].pc = "filling" => outdated[reader[r].value] <= reader[r].age

EntryAge == entry # NoEntry => outdated[entry.value] <= FillMax + (TTL - entry.left)

IInv ==
  /\ TypeOK
  /\ ReadersExplained /\ StaleEntryExplained
  /\ CurrentIsNew /\ ReadersAge /\ EntryAge

Entries == [value : 0..version, left : 1..TTL, crossed : SUBSET (1..version)]

-----------------------------------------------------------------------------

LEMMA InitIInv == Init => IInv
<1> SUFFICES ASSUME Init PROVE IInv
  OBVIOUS
<1> USE CacheBounds DEF Init, Versions, Bound, Idle
<1>1. TypeOK
  BY DEF TypeOK
<1>2. ReadersExplained /\ StaleEntryExplained
  BY DEF ReadersExplained, StaleEntryExplained
<1>3. CurrentIsNew /\ ReadersAge /\ EntryAge
  BY DEF CurrentIsNew, ReadersAge, EntryAge
<1> QED
  BY <1>1, <1>2, <1>3 DEF IInv

LEMMA Bounds == TTL \in Nat /\ TTL > 0 /\ FillMax \in Nat /\ MaxVersion \in Nat /\ Bound = TTL + FillMax
BY CacheBounds DEF Bound

LEMMA EntriesAreEntries ==
  ASSUME version \in Nat, NEW e \in Entries
  PROVE  e # NoEntry
<1>1. e \in [value : Int, left : Int, crossed : SUBSET Int]
  BY Bounds DEF Entries
<1> QED
  BY <1>1, CacheBounds

(* Nobody's rows are newer than the table's.                                *)
LEMMA EntryTyped ==
  ASSUME TypeOK, entry # NoEntry
  PROVE  /\ entry.value \in 0..version /\ entry.left \in 1..TTL
         /\ entry.crossed \in SUBSET (1..version)
BY DEF TypeOK

LEMMA ReaderTyped ==
  ASSUME TypeOK
  PROVE  /\ version \in Nat
         /\ \A r \in Readers :
              /\ reader[r].pc \in {"idle", "missed", "filling"}
              /\ reader[r].value \in 0..version /\ reader[r].age \in 0..FillMax
              /\ reader[r].crossed \in SUBSET (1..version)
BY Bounds DEF TypeOK, Versions

LEMMA IdleTyped ==
  ASSUME version \in Nat
  PROVE  Idle \in [pc : {"idle", "missed", "filling"}, value : 0..version,
                   age : 0..FillMax, crossed : SUBSET (1..version)]
BY Bounds DEF Idle

-----------------------------------------------------------------------------
(* The steps of the readers.                                                *)

LEMMA HitStep ==
  ASSUME IInv, NEW r \in Readers, Hit(r)
  PROVE  IInv'
<1>1. TypeOK'
  BY EntryTyped DEF IInv, TypeOK, Hit
<1>2. ReadersExplained' /\ StaleEntryExplained'
  BY DEF IInv, Hit, ReadersExplained, StaleEntryExplained, Explained, PendingWrites
<1>3. CurrentIsNew' /\ ReadersAge' /\ EntryAge'
  BY DEF IInv, Hit, CurrentIsNew, ReadersAge, EntryAge
<1> QED
  BY <1>1, <1>2, <1>3 DEF IInv

LEMMA MissStep ==
  ASSUME IInv, NEW r \in Readers, Miss(r)
  PROVE  IInv'
<1> /\ version \in Nat
    /\ \A q \in Readers : /\ reader[q].value \in 0..version /\ reader[q].age \in 0..FillMax
                          /\ reader[q].crossed \in SUBSET (1..version)
  BY ReaderTyped DEF IInv
<1> USE DEF IInv, Miss
<1>1. TypeOK'
  BY ReaderTyped DEF TypeOK
<1>2. \A q \in Readers : reader'[q].pc = "filling" => reader'[q] = reader[q]
  BY DEF TypeOK
<1>3. ReadersExplained' /\ StaleEntryExplained'
  BY <1>2 DEF ReadersExplained, StaleEntryExplained, Explained, PendingWrites
<1>4. CurrentIsNew' /\ ReadersAge' /\ EntryAge'
  BY <1>2 DEF CurrentIsNew, ReadersAge, EntryAge
<1> QED
  BY <1>1, <1>3, <1>4

LEMMA SelectStep ==
  ASSUME IInv, NEW r \in Readers, Select(r)
  PROVE  IInv'
<1> /\ version \in Nat
    /\ \A q \in Readers : /\ reader[q].value \in 0..version /\ reader[q].age \in 0..FillMax
                          /\ reader[q].crossed \in SUBSET (1..version)
  BY ReaderTyped DEF IInv
<1> USE DEF IInv, Select
<1> version \in Versions
  BY DEF TypeOK
<1>1. reader'[r] = [pc |-> "filling", value |-> version, age |-> 0, crossed |-> {}]
  BY DEF TypeOK, Idle
<1>2. \A q \in Readers : q # r => reader'[q] = reader[q]
  BY DEF TypeOK
<1>3. TypeOK'
  <2> HIDE DEF Select
  <2>1. reader'[r] \in [pc : {"idle", "missed", "filling"}, value : 0..version,
                        age : 0..FillMax, crossed : SUBSET (1..version)]
    <3>1. version \in 0..version /\ 0 \in 0..FillMax /\ {} \in SUBSET (1..version)
      BY Bounds
    <3> QED
      BY <1>1, <3>1
  <2> QED
    BY <2>1 DEF TypeOK, Select
<1>4. ReadersExplained' /\ StaleEntryExplained'
  BY <1>1, <1>2 DEF ReadersExplained, StaleEntryExplained, Explained, PendingWrites
<1>5. CurrentIsNew' /\ EntryAge'
  BY DEF CurrentIsNew, EntryAge
<1>6. ReadersAge'
  <2>1. outdated'[version] = 0
    BY DEF CurrentIsNew
  <2>2. outdated' = outdated
    OBVIOUS
  <2> HIDE DEF Select
  <2> SUFFICES ASSUME NEW q \in Readers, reader'[q].pc = "filling"
               PROVE  outdated'[reader'[q].value] <= reader'[q].age
    BY DEF ReadersAge
  <2>3. CASE q = r
    BY <2>1, <2>3, <1>1
  <2>4. CASE q # r
    BY <2>2, <2>4, <1>2 DEF ReadersAge
  <2> QED
    BY <2>3, <2>4
<1> QED
  BY <1>3, <1>4, <1>5, <1>6

(* A reader that stops changes nothing for the others.                      *)
LEMMA StoreStep ==
  ASSUME IInv, NEW r \in Readers, Store(r)
  PROVE  IInv'
<1> /\ version \in Nat
    /\ \A q \in Readers : /\ reader[q].value \in 0..version /\ reader[q].age \in 0..FillMax
                          /\ reader[q].crossed \in SUBSET (1..version)
  BY ReaderTyped DEF IInv
<1> USE DEF IInv, Store
<1>1. reader'[r] = Idle /\ \A q \in Readers : q # r => reader'[q] = reader[q]
  BY DEF TypeOK
<1>2. \A q \in Readers : reader'[q].pc = "filling" => reader'[q] = reader[q]
  BY <1>1 DEF Idle
<1>3. version \in Nat
  BY Bounds DEF TypeOK, Versions
<1>4. Filled(r) \in Entries
  <2>1. /\ reader[r].value \in 0..version /\ TTL \in 1..TTL
        /\ reader[r].crossed \in SUBSET (1..version)
    BY Bounds
  <2> QED
    BY <2>1 DEF Filled, Entries
<1>5. TypeOK'
  <2>1. reader' \in [Readers -> [pc : {"idle", "missed", "filling"}, value : 0..version,
                                 age : 0..FillMax, crossed : SUBSET (1..version)]]
    BY <1>3, IdleTyped DEF TypeOK
  <2>2. answer' \in [Readers -> 0..version]
    BY ReaderTyped DEF TypeOK
  <2> QED
    BY <2>1, <2>2, <1>4 DEF TypeOK, Entries
<1>6. ReadersExplained'
  BY <1>2 DEF ReadersExplained, Explained, PendingWrites
<1>7. StaleEntryExplained'
  <2>1. CASE entry' = entry
    BY <2>1 DEF StaleEntryExplained, PendingWrites
  <2>2. CASE entry' = Filled(r)
    BY <2>2 DEF StaleEntryExplained, ReadersExplained, Explained, Filled, PendingWrites
  <2> QED
    BY <2>1, <2>2
<1>8. CurrentIsNew' /\ ReadersAge'
  BY <1>2 DEF CurrentIsNew, ReadersAge
<1>9. EntryAge'
  <2>1. CASE entry' = entry
    BY <2>1 DEF EntryAge
  <2>2. CASE entry' = Filled(r)
    <3>1. outdated[reader[r].value] \in 0..Bound /\ reader[r].age \in 0..FillMax
      BY <1>3, ReaderTyped, Bounds DEF TypeOK, Versions
    <3> QED
      BY <2>2, <3>1, Bounds DEF EntryAge, ReadersAge, Filled, Bound
  <2> QED
    BY <2>1, <2>2
<1> QED
  BY <1>5, <1>6, <1>7, <1>8, <1>9

LEMMA ReaderDiesStep ==
  ASSUME IInv, NEW r \in Readers, ReaderDies(r)
  PROVE  IInv'
<1> /\ version \in Nat
    /\ \A q \in Readers : /\ reader[q].value \in 0..version /\ reader[q].age \in 0..FillMax
                          /\ reader[q].crossed \in SUBSET (1..version)
  BY ReaderTyped DEF IInv
<1> USE DEF IInv, ReaderDies
<1>1. \A q \in Readers : reader'[q].pc = "filling" => reader'[q] = reader[q]
  BY DEF TypeOK, Idle
<1>2. TypeOK'
  <2>1. version \in Nat
    BY Bounds DEF TypeOK, Versions
  <2> QED
    BY <2>1, IdleTyped DEF TypeOK
<1>3. ReadersExplained' /\ StaleEntryExplained'
  BY <1>1 DEF ReadersExplained, StaleEntryExplained, Explained, PendingWrites
<1>4. CurrentIsNew' /\ ReadersAge' /\ EntryAge'
  BY <1>1 DEF CurrentIsNew, ReadersAge, EntryAge
<1> QED
  BY <1>2, <1>3, <1>4

-----------------------------------------------------------------------------
(* The steps of the writers.                                                *)

LEMMA Later ==
  ASSUME version \in Nat
  PROVE  /\ 0..version \subseteq 0..(version + 1)
         /\ SUBSET (1..version) \subseteq SUBSET (1..(version + 1))
         /\ version + 1 \in 1..(version + 1)
OBVIOUS

(* One more write: nothing that is typed for the table as it was is less so. *)
LEMMA LaterTyped ==
  ASSUME TypeOK, version < MaxVersion, version' = version + 1,
         outdated' = outdated, entry' = entry, reader' = reader, answer' = answer,
         pending' \in [Committers -> SUBSET (1..(version + 1))],
         missed' \subseteq 1..(version + 1)
  PROVE  TypeOK'
<1> version \in Nat /\ version + 1 \in Versions
  BY Bounds DEF TypeOK, Versions
<1>1. entry' = NoEntry \/ entry' \in Entries'
  BY Later DEF TypeOK, Entries
<1>2. reader' \in [Readers -> [pc : {"idle", "missed", "filling"}, value : 0..version',
                               age : 0..FillMax, crossed : SUBSET (1..version')]]
  <2> SUFFICES ASSUME NEW r \in Readers
               PROVE  reader[r] \in [pc : {"idle", "missed", "filling"}, value : 0..version',
                                     age : 0..FillMax, crossed : SUBSET (1..version')]
    BY DEF TypeOK
  <2>1. reader[r] \in [pc : {"idle", "missed", "filling"}, value : 0..version,
                       age : 0..FillMax, crossed : SUBSET (1..version)]
    BY DEF TypeOK
  <2>2. 0..version \subseteq 0..version' /\ SUBSET (1..version) \subseteq SUBSET (1..version')
    BY Later
  <2> QED
    BY <2>1, <2>2
<1>3. answer' \in [Readers -> 0..version']
  BY Later DEF TypeOK
<1> QED
  BY <1>1, <1>2, <1>3 DEF TypeOK, Entries

LEMMA CommitStep ==
  ASSUME IInv, NEW c \in Committers, Commit(c)
  PROVE  IInv'
<1> /\ version \in Nat
    /\ \A q \in Readers : /\ reader[q].value \in 0..version /\ reader[q].age \in 0..FillMax
                          /\ reader[q].crossed \in SUBSET (1..version)
  BY ReaderTyped DEF IInv
<1> USE DEF IInv, Commit
<1> version \in Nat
  BY Bounds DEF TypeOK, Versions
<1>1. pending' \in [Committers -> SUBSET (1..(version + 1))]
  BY Later DEF TypeOK
<1>2. PendingWrites \cup {version + 1} \subseteq PendingWrites'
  BY DEF TypeOK, PendingWrites
<1>3. TypeOK'
  BY <1>1, LaterTyped, Later DEF TypeOK
<1>4. \A crossed : \A v \in 0..version : Explained(v, crossed) => Explained(v, crossed)'
  BY <1>2 DEF Explained
<1>5. ReadersExplained'
  BY <1>4, ReaderTyped DEF ReadersExplained
<1>6. StaleEntryExplained'
  BY <1>2, EntryTyped DEF StaleEntryExplained
<1>7. CurrentIsNew' /\ ReadersAge' /\ EntryAge'
  BY DEF CurrentIsNew, ReadersAge, EntryAge, Versions
<1> QED
  BY <1>3, <1>5, <1>6, <1>7

LEMMA DeleteStep ==
  ASSUME IInv, DeleteBooking
  PROVE  IInv'
<1> /\ version \in Nat
    /\ \A q \in Readers : /\ reader[q].value \in 0..version /\ reader[q].age \in 0..FillMax
                          /\ reader[q].crossed \in SUBSET (1..version)
  BY ReaderTyped DEF IInv
<1> USE DEF IInv, DeleteBooking
<1> version \in Nat
  BY Bounds DEF TypeOK, Versions
<1>1. pending' \in [Committers -> SUBSET (1..(version + 1))]
  BY Later DEF TypeOK
<1>2. TypeOK'
  BY <1>1, LaterTyped, Later DEF TypeOK
<1>3. ReadersExplained'
  BY ReaderTyped DEF ReadersExplained, Explained, PendingWrites
<1>4. StaleEntryExplained'
  BY EntryTyped DEF StaleEntryExplained, PendingWrites
<1>5. CurrentIsNew' /\ ReadersAge' /\ EntryAge'
  BY DEF CurrentIsNew, ReadersAge, EntryAge, Versions
<1> QED
  BY <1>2, <1>3, <1>4, <1>5

(* The entry is gone, but a reader that holds rows from before may bring it  *)
(* back: the write is then accounted for as crossed.                        *)
LEMMA InvalidateStep ==
  ASSUME IInv, NEW c \in Committers, Invalidate(c)
  PROVE  IInv'
<1> /\ version \in Nat
    /\ \A q \in Readers : /\ reader[q].value \in 0..version /\ reader[q].age \in 0..FillMax
                          /\ reader[q].crossed \in SUBSET (1..version)
  BY ReaderTyped DEF IInv
<1> USE DEF IInv, Invalidate
<1> version \in Nat
  BY Bounds DEF TypeOK, Versions
<1>1. \A r \in Readers : /\ reader'[r].pc = reader[r].pc
                         /\ reader'[r].value = reader[r].value
                         /\ reader'[r].age = reader[r].age
                         /\ reader'[r].crossed = reader[r].crossed \cup Crossing(c, r)
  BY DEF TypeOK
<1>2. \A r \in Readers : Crossing(c, r) \in SUBSET (1..version)
  BY DEF Crossing, TypeOK
<1>3. TypeOK'
  <2>1. \A r \in Readers :
          reader'[r] \in [pc : {"idle", "missed", "filling"}, value : 0..version,
                          age : 0..FillMax, crossed : SUBSET (1..version)]
    BY <1>2 DEF TypeOK
  <2>2. reader' \in [Readers -> [pc : {"idle", "missed", "filling"}, value : 0..version,
                                 age : 0..FillMax, crossed : SUBSET (1..version)]]
    BY <2>1
  <2>3. pending' \in [Committers -> SUBSET (1..version)]
    BY DEF TypeOK
  <2> QED
    BY <2>2, <2>3 DEF TypeOK
<1>4. ReadersExplained'
  <2> SUFFICES ASSUME NEW r \in Readers, reader[r].pc = "filling",
                      NEW u \in (reader[r].value + 1)..version
               PROVE  u \in (PendingWrites' \cup missed) \cup reader'[r].crossed
    BY <1>1 DEF ReadersExplained, Explained
  <2>1. u \in PendingWrites \cup missed \cup reader[r].crossed
    BY DEF ReadersExplained, Explained
  <2>2. CASE u \in pending[c]
    <3>1. u > reader[r].value
      OBVIOUS
    <3> QED
      BY <2>2, <3>1, <1>1 DEF Crossing
  <2>3. CASE u \notin pending[c]
    <3>1. u \in PendingWrites => u \in PendingWrites'
      BY <2>3 DEF PendingWrites, TypeOK
    <3> QED
      BY <2>1, <3>1, <1>1
  <2> QED
    BY <2>2, <2>3
<1>5. StaleEntryExplained' /\ EntryAge'
  BY DEF StaleEntryExplained, EntryAge
<1>6. CurrentIsNew' /\ ReadersAge'
  BY <1>1 DEF CurrentIsNew, ReadersAge
<1> QED
  BY <1>3, <1>4, <1>5, <1>6

LEMMA InvalidationLostStep ==
  ASSUME IInv, NEW c \in Committers, InvalidationLost(c)
  PROVE  IInv'
<1> USE DEF IInv, InvalidationLost
<1>1. pending' \in [Committers -> SUBSET (1..version)] /\ missed' \subseteq 1..version
  BY DEF TypeOK
<1>2. PendingWrites \cup missed \subseteq PendingWrites' \cup missed'
  <2> SUFFICES ASSUME NEW d \in Committers, NEW u \in pending[d], u \notin missed'
               PROVE  u \in PendingWrites'
    BY DEF PendingWrites
  <2> QED
    BY DEF PendingWrites, TypeOK
<1>3. TypeOK'
  BY <1>1 DEF TypeOK
<1>4. ReadersExplained' /\ StaleEntryExplained'
  BY <1>2 DEF ReadersExplained, StaleEntryExplained, Explained
<1>5. CurrentIsNew' /\ ReadersAge' /\ EntryAge'
  BY DEF CurrentIsNew, ReadersAge, EntryAge
<1> QED
  BY <1>3, <1>4, <1>5

-----------------------------------------------------------------------------
(* A tick.                                                                  *)

LEMMA TickStep ==
  ASSUME IInv, Tick
  PROVE  IInv'
<1>1. /\ version \in Nat
      /\ \A q \in Readers : /\ reader[q].value \in 0..version /\ reader[q].age \in 0..FillMax
                            /\ reader[q].crossed \in SUBSET (1..version)
  BY ReaderTyped DEF IInv
<1>2. outdated \in [Versions -> 0..Bound] /\ version' = version /\ version \in Versions
  BY DEF IInv, TypeOK, Tick
<1>3. /\ outdated' \in [Versions -> 0..Bound]
      /\ \A v \in Versions : outdated'[v] <= outdated[v] + 1
      /\ \A v \in Versions : v >= version => outdated'[v] = outdated[v]
  BY <1>1, <1>2, Bounds DEF Tick, Aged, Versions
<1>4. \A r \in Readers :
        /\ reader'[r].pc = reader[r].pc /\ reader'[r].value = reader[r].value
        /\ reader'[r].crossed = reader[r].crossed
        /\ reader[r].pc = "filling" => reader'[r].age = reader[r].age + 1
  BY DEF IInv, TypeOK, Tick
<1>5. entry' # NoEntry =>
        /\ entry # NoEntry /\ entry' \in Entries
        /\ entry'.value = entry.value /\ entry'.crossed = entry.crossed
        /\ entry'.left = entry.left - 1
  <2> SUFFICES ASSUME entry' # NoEntry
               PROVE  /\ entry # NoEntry /\ entry' \in Entries
                      /\ entry'.value = entry.value /\ entry'.crossed = entry.crossed
                      /\ entry'.left = entry.left - 1
    OBVIOUS
  <2>1. entry # NoEntry /\ entry.left # 1 /\ entry' = [entry EXCEPT !.left = @ - 1]
    BY DEF Tick, Expiring
  <2>2. entry \in Entries
    BY <2>1 DEF IInv, TypeOK, Entries
  <2>3. entry.left - 1 \in 1..TTL
    BY <2>1, <2>2, Bounds DEF Entries
  <2> QED
    BY <2>1, <2>2, <2>3 DEF Entries
<1>6. TypeOK'
  <2>1. reader' \in [Readers -> [pc : {"idle", "missed", "filling"}, value : 0..version,
                                 age : 0..FillMax, crossed : SUBSET (1..version)]]
    <3> SUFFICES ASSUME NEW r \in Readers
                 PROVE  (IF reader[r].pc = "filling" THEN [reader[r] EXCEPT !.age = @ + 1] ELSE reader[r])
                          \in [pc : {"idle", "missed", "filling"}, value : 0..version,
                               age : 0..FillMax, crossed : SUBSET (1..version)]
      BY DEF Tick
    <3>1. reader[r] \in [pc : {"idle", "missed", "filling"}, value : 0..version,
                         age : 0..FillMax, crossed : SUBSET (1..version)]
      BY DEF IInv, TypeOK
    <3>2. reader[r].pc = "filling" => reader[r].age + 1 \in 0..FillMax
      BY <1>1, Bounds DEF Tick
    <3> QED
      BY <3>1, <3>2
  <2> QED
    BY <1>2, <1>3, <1>5, <2>1 DEF IInv, TypeOK, Tick, Entries
<1>7. ReadersExplained' /\ StaleEntryExplained'
  BY <1>4, <1>5 DEF IInv, Tick, ReadersExplained, StaleEntryExplained, Explained, PendingWrites
<1>8. CurrentIsNew'
  BY <1>2, <1>3 DEF IInv, CurrentIsNew
<1>9. ReadersAge'
  <2> SUFFICES ASSUME NEW r \in Readers, reader[r].pc = "filling"
               PROVE  outdated'[reader[r].value] <= reader[r].age + 1
    BY <1>4 DEF ReadersAge
  <2>1. reader[r].value \in Versions /\ outdated[reader[r].value] <= reader[r].age
    BY <1>1, <1>2, Bounds DEF IInv, ReadersAge, Versions
  <2> QED
    BY <2>1, <1>1, <1>2, <1>3, Bounds
<1>10. EntryAge'
  <2> SUFFICES ASSUME entry' # NoEntry
               PROVE  outdated'[entry'.value] <= FillMax + (TTL - entry'.left)
    BY DEF EntryAge
  <2>1. outdated[entry.value] <= FillMax + (TTL - entry.left)
    BY <1>5 DEF IInv, EntryAge
  <2>2. entry.value \in Versions /\ entry.left \in Int
    BY <1>1, <1>2, <1>5, EntryTyped, Bounds DEF IInv, Versions
  <2> QED
    BY <2>1, <2>2, <1>2, <1>3, <1>5, Bounds
<1> QED
  BY <1>6, <1>7, <1>8, <1>9, <1>10 DEF IInv

LEMMA StepIInv == IInv /\ [Next]_vars => IInv'
<1> SUFFICES ASSUME IInv, [Next]_vars PROVE IInv'
  OBVIOUS
<1>1. ASSUME NEW r \in Readers, Hit(r) \/ Miss(r) \/ Select(r) \/ Store(r) \/ ReaderDies(r)
      PROVE  IInv'
  BY <1>1, HitStep, MissStep, SelectStep, StoreStep, ReaderDiesStep
<1>2. ASSUME NEW c \in Committers, Commit(c) \/ Invalidate(c) \/ InvalidationLost(c)
      PROVE  IInv'
  BY <1>2, CommitStep, InvalidateStep, InvalidationLostStep
<1>3. CASE DeleteBooking
  BY <1>3, DeleteStep
<1>4. CASE Tick
  BY <1>4, TickStep
<1>5. CASE UNCHANGED vars
  BY <1>5 DEF vars, IInv, TypeOK, ReadersExplained, StaleEntryExplained, Explained,
              PendingWrites, CurrentIsNew, ReadersAge, EntryAge
<1> QED
  BY <1>1, <1>2, <1>3, <1>4, <1>5 DEF Next

-----------------------------------------------------------------------------

(* The invariant holds throughout: what each reader and the entry hold is    *)
(* explained, and no older than they are.                                   *)
THEOREM Invariance == Spec => []IInv
BY InitIInv, StepIInv, PTL DEF Spec

(* The cache's state is well typed.                                         *)
THEOREM TypeCorrect == Spec => []TypeOK
BY Invariance, PTL DEF IInv

(* A write the Redis entry does not show is still to be invalidated for, its *)
(* invalidation was lost or never sent, or it was crossed by a filling       *)
(* reader.                                                                  *)
THEOREM StaleEntryExplainedHolds == Spec => []StaleEntryExplained
BY Invariance, PTL DEF IInv

-----------------------------------------------------------------------------
(* Refinement.                                                              *)

LEMMA InitRefines == Init => View!Init
BY DEF Init, View!Init, View!Versions, Versions

(* Every answer was the table less than TTL + FillMax ago.                  *)
LEMMA StepRefines ==
  ASSUME IInv, [Next]_vars
  PROVE  [View!Next]_(View!vars)
<1> USE DEF View!vars
<1> View!Versions = Versions
  BY DEF View!Versions, Versions
<1>v. version \in Nat /\ version \in Versions /\ 0..version \subseteq Versions
  BY Bounds DEF IInv, TypeOK, Versions
<1>1. ASSUME NEW r \in Readers, Hit(r)
      PROVE  View!Next
  <2>1. /\ entry.value \in Versions /\ entry.value <= version
        /\ outdated[entry.value] < Bound
    <3>1. entry.value \in 0..version /\ entry.left \in 1..TTL
      BY <1>1, EntryTyped DEF IInv, Hit
    <3>2. outdated[entry.value] <= FillMax + (TTL - entry.left) /\ outdated[entry.value] \in 0..Bound
      BY <1>1, <1>v, <3>1 DEF IInv, TypeOK, EntryAge, Hit
    <3> QED
      BY <1>v, <3>1, <3>2, Bounds
  <2> QED
    BY <1>1, <2>1 DEF Hit, View!Next, View!Answer
<1>2. ASSUME NEW r \in Readers, Store(r)
      PROVE  View!Next
  <2>1. /\ reader[r].value \in Versions /\ reader[r].value <= version
        /\ outdated[reader[r].value] < Bound
    <3>1. reader[r].value \in 0..version /\ reader[r].age \in 0..FillMax
      BY ReaderTyped DEF IInv
    <3>2. outdated[reader[r].value] <= reader[r].age /\ outdated[reader[r].value] \in 0..Bound
      BY <1>2, <1>v, <3>1 DEF IInv, TypeOK, ReadersAge, Store
    <3> QED
      BY <1>v, <3>1, <3>2, Bounds
  <2> QED
    BY <1>2, <2>1 DEF Store, View!Next, View!Answer
<1>3. ASSUME NEW r \in Readers, Miss(r) \/ Select(r) \/ ReaderDies(r)
      PROVE  UNCHANGED View!vars
  BY <1>3 DEF Miss, Select, ReaderDies
<1>4. ASSUME NEW c \in Committers, Invalidate(c) \/ InvalidationLost(c)
      PROVE  UNCHANGED View!vars
  BY <1>4 DEF Invalidate, InvalidationLost
<1>5. ASSUME NEW c \in Committers, Commit(c)
      PROVE  View!Next
  BY <1>5 DEF Commit, View!Next, View!Write
<1>6. CASE DeleteBooking
  BY <1>6 DEF DeleteBooking, View!Next, View!Write
<1>7. CASE Tick
  BY <1>7 DEF Tick, Aged, View!Next, View!Tick, View!Older
<1>8. CASE UNCHANGED vars
  BY <1>8 DEF vars
<1> QED
  BY <1>1, <1>2, <1>3, <1>4, <1>5, <1>6, <1>7, <1>8 DEF Next

(* The cache implements the view that lags: no answer had ceased to be the   *)
(* table TTL + FillMax ago, though invalidations are lost and never sent.    *)
THEOREM CacheRefinesView == Spec => RefinesView
<1>1. Init => View!Init
  BY InitRefines
<1>2. IInv /\ [Next]_vars => [View!Next]_(View!vars)
  BY StepRefines
<1> QED
  BY <1>1, <1>2, Invariance, PTL DEF Spec, RefinesView, View!Spec
=============================================================================
