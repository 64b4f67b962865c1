-------------------------- MODULE GuestRosterProofs --------------------------
(***************************************************************************)
(* Proofs about GuestRoster, for any number of bookings, requests, admins'  *)
(* additions and purge runs, any batch size, any dates and any dates the     *)
(* sync moves imported stays to: the roster's capacity, what a purge leaves  *)
(* behind, that it leaves nothing undone, and how long links live.           *)
(***************************************************************************)
EXTENDS GuestRoster, FiniteSetTheorems, TLAPS

(* Only the sync moves a stay, and only an imported one.                     *)
StaysFixed ==
  \A b \in Bookings \ Imported : end[b] = End[b] /\ links[b] \subseteq {End[b]}

(* A request does not outlast its patience, and one through the link began   *)
(* while that link lived.                                                   *)
LinksTimely ==
  \A q \in Requests : ~At(q, "idle") =>
    /\ clock - req[q].since <= Patience
    /\ req[q].via = "link" =>
         /\ req[q].since < 2 * (req[q].until + Grace)
         /\ req[q].of \notin Imported => req[q].until = End[req[q].of]

(* A purge goes by a cutoff whose window is over, and only an imported stay  *)
(* may have ended later than that.                                          *)
PurgesTimely ==
  /\ \A p \in Purges : purge[p].pc # "idle" => 2 * (purge[p].cutoff + Window) <= clock + 1
  /\ \A p \in Purges : \A b \in purge[p].due :
       purge[p].pc # "idle" /\ (b \notin Imported => End[b] <= purge[p].cutoff)
  /\ \A b \in stripped :
       2 * (upTo[b] + Window) <= clock + 1 /\ (b \notin Imported => End[b] <= upTo[b])

MarkedIsStripped ==
  /\ purged \subseteq stripped
  /\ \A p \in Purges : purge[p].pc = "marking" => purge[p].due \subseteq stripped

(* What is whole after a purge was added after it, at the desk or by a link  *)
(* that the sync had made too long.                                         *)
LateGuest(g) ==
  g.late /\ (g.via = "desk" \/ (g.of \in Imported /\ g.until > upTo[g.of]))

StrippedIsLate ==
  \A i \in Taken : guests[i].of \in stripped /\ guests[i].full => LateGuest(guests[i])

(* What was due at the start and stayed so is in sight of the run, and in a  *)
(* batch that is not full.                                                  *)
BatchesWhole ==
  \A p \in Purges : \A b \in backlog[p] :
    /\ purge[p].pc # "idle" /\ end[b] <= purge[p].cutoff
    /\ purge[p].pc \in {"nulling", "marking"} /\ Cardinality(purge[p].due) < BatchSize =>
         (PurgeDue(b, purge[p].cutoff) => b \in purge[p].due)

IInv ==
  /\ TypeOK
  /\ StaysFixed /\ LinksTimely /\ PurgesTimely /\ MarkedIsStripped /\ StrippedIsLate
  /\ BatchesWhole
  /\ RosterCapacity

LEMMA Parameters ==
  /\ Ends \subseteq Nat
  /\ \A b \in Bookings : End[b] \in Nat /\ NumGuests[b] \in Nat /\ NumGuests[b] > 0
  /\ Grace \in Nat /\ Window \in Nat /\ LastTick \in Nat /\ Patience \in Nat /\ MaxDeaths \in Nat
  /\ BatchSize \in Nat /\ BatchSize > 0
BY RosterDates, RosterActors

LEMMA NoGuestIsNone == \A g \in Guest : g # NoGuest
BY RosterActors

Reqs   == [pc : {"idle", "admitted", "inserting"}, via : Route,
           of : Bookings \cup {NoBooking}, until : Nat, since : 0..clock]
Runs == [pc : {"idle", "selecting", "nulling", "marking"},
           cutoff : Int, due : SUBSET Bookings]

-----------------------------------------------------------------------------
(* Types.                                                                   *)

(* A change of one request alone.                                           *)
LEMMA RequestTyped ==
  ASSUME TypeOK, NEW q \in Requests, NEW r \in Reqs, r.pc # "idle" => r.of \in Bookings,
         req' = [req EXCEPT ![q] = r],
         UNCHANGED <<clock, stays, guests, purged, purge, history, deaths>>
  PROVE  TypeOK'
BY DEF TypeOK, Reqs, Taken, stays, history

LEMMA NoReqTyped == TypeOK => NoReq \in Reqs
BY Parameters DEF TypeOK, NoReq, Reqs, Route

(* A change of one purge run alone.                                         *)
LEMMA RunTyped ==
  ASSUME TypeOK, NEW p \in Purges, NEW r \in Runs,
         purge' = [purge EXCEPT ![p] = r],
         UNCHANGED <<clock, stays, guests, req, stripped, upTo>>,
         backlog' \in [Purges -> SUBSET Bookings],
         purged' \subseteq Bookings, deaths' \in 0..MaxDeaths
  PROVE  TypeOK'
BY DEF TypeOK, Runs, Taken, stays

LEMMA NoPurgeTyped == NoPurge \in Runs
BY DEF NoPurge, Runs

(* What the statements of a purge run make of it.                           *)
Selected(p, d) == IF d = {} THEN NoPurge ELSE [purge[p] EXCEPT !.pc = "nulling", !.due = d]
Nulled(p)      == [purge[p] EXCEPT !.pc = "marking"]

LEMMA RunFields ==
  ASSUME TypeOK, NEW p \in Purges
  PROVE  /\ purge[p] \in Runs
         /\ \A d \in SUBSET Bookings : d # {} =>
              /\ Selected(p, d) \in Runs
              /\ Selected(p, d).pc = "nulling"
              /\ Selected(p, d).cutoff = purge[p].cutoff
              /\ Selected(p, d).due = d
         /\ Selected(p, {}) = NoPurge
         /\ Nulled(p) \in Runs /\ Nulled(p).pc = "marking"
         /\ Nulled(p).cutoff = purge[p].cutoff /\ Nulled(p).due = purge[p].due
         /\ \/ AfterBatch(p) = NoPurge /\ Cardinality(purge[p].due) < BatchSize
            \/ /\ AfterBatch(p) \in Runs /\ AfterBatch(p).pc = "selecting"
               /\ AfterBatch(p).cutoff = purge[p].cutoff /\ AfterBatch(p).due = {}
<1>1. purge[p] \in Runs
  BY DEF TypeOK, Runs
<1>2. Cardinality(purge[p].due) < BatchSize => AfterBatch(p) = NoPurge
  BY DEF AfterBatch
<1>3. ASSUME ~(Cardinality(purge[p].due) < BatchSize)
      PROVE  /\ AfterBatch(p) \in Runs /\ AfterBatch(p).pc = "selecting"
             /\ AfterBatch(p).cutoff = purge[p].cutoff /\ AfterBatch(p).due = {}
  <2>1. AfterBatch(p) = [purge[p] EXCEPT !.pc = "selecting", !.due = {}]
    BY <1>3 DEF AfterBatch
  <2> QED
    BY <1>1, <2>1 DEF Runs
<1>4. ASSUME NEW d \in SUBSET Bookings, d # {}
      PROVE  /\ Selected(p, d) \in Runs
             /\ Selected(p, d).pc = "nulling"
             /\ Selected(p, d).cutoff = purge[p].cutoff
             /\ Selected(p, d).due = d
  BY <1>1, <1>4 DEF Selected, Runs
<1>5. /\ Nulled(p) \in Runs /\ Nulled(p).pc = "marking"
      /\ Nulled(p).cutoff = purge[p].cutoff /\ Nulled(p).due = purge[p].due
  BY <1>1 DEF Nulled, Runs
<1> QED
  BY <1>1, <1>2, <1>3, <1>4, <1>5 DEF Selected

LEMMA NulledFields ==
  ASSUME TypeOK, NEW p \in Purges, PurgeNull(p), NEW i \in Ids
  PROVE  /\ guests'[i] # NoGuest <=> i \in Taken
         /\ i \in Taken => /\ guests'[i] \in Guest
                           /\ guests'[i].of = guests[i].of /\ guests'[i].via = guests[i].via
                           /\ guests'[i].until = guests[i].until
                           /\ guests[i].of \in purge[p].due => ~guests'[i].full
                           /\ guests[i].of \notin purge[p].due => guests'[i] = guests[i]
<1>1. i \in Taken => guests[i] \in Guest
  BY DEF TypeOK, Taken
<1> DEFINE g == [guests[i] EXCEPT !.full = FALSE, !.late = FALSE]
<1>2. guests[i] \in Guest => /\ g \in Guest
                             /\ g.of = guests[i].of /\ g.via = guests[i].via
                             /\ g.until = guests[i].until /\ ~g.full
  BY DEF Guest
<1>3. guests'[i] = IF i \in Taken /\ guests[i].of \in purge[p].due THEN g ELSE guests[i]
  BY DEF PurgeNull
<1>4. i \notin Taken => guests[i] = NoGuest
  BY DEF Taken
<1> HIDE DEF g
<1> QED
  BY <1>1, <1>2, <1>3, <1>4, NoGuestIsNone DEF Taken

LEMMA TypeStep ==
  ASSUME TypeOK, [Next]_vars
  PROVE  TypeOK'
<1> USE Parameters
<1>1. ASSUME NEW b \in Bookings, SetStatus(b) \/ SyncStatement(b)
      PROVE  TypeOK'
  <2>1. row' \in [Bookings -> {"pending", "confirmed", "closed", "gone"}]
    BY <1>1 DEF TypeOK, SetStatus, SyncStatement
  <2>2. end' \in [Bookings -> Nat]
    BY <1>1 DEF TypeOK, SetStatus, SyncStatement
  <2>3. links' \in [Bookings -> SUBSET Nat]
    BY <1>1, <2>2 DEF TypeOK, SetStatus, SyncStatement, MayBeLinked
  <2>4. backlog' \in [Purges -> SUBSET Bookings]
    BY <1>1 DEF TypeOK, SetStatus, SyncStatement, history
  <2>5. \A c \in Bookings : row[c] # "gone" => row'[c] # "gone"
    BY <1>1 DEF TypeOK, SetStatus, SyncStatement
  <2>6. UNCHANGED <<clock, guests, purged, req, purge, stripped, upTo, deaths>>
    BY <1>1 DEF SetStatus, SyncStatement, history
  <2>7. \A i \in Taken' : row'[guests'[i].of] # "gone"
    BY <2>5, <2>6 DEF TypeOK, Taken, Guest
  <2> QED
    BY <2>1, <2>2, <2>3, <2>4, <2>6, <2>7 DEF TypeOK
<1>2. ASSUME NEW b \in Bookings, DeleteBooking(b)
      PROVE  TypeOK'
  <2>1. guests' \in [Ids -> Guest \cup {NoGuest}] /\ row' \in [Bookings -> {"pending", "confirmed", "closed", "gone"}]
    BY <1>2 DEF TypeOK, DeleteBooking
  <2>2. \A i \in Ids : guests'[i] # NoGuest => i \in Taken /\ guests'[i] = guests[i] /\ guests[i].of # b
    BY <1>2 DEF DeleteBooking, GuestsOf, Taken
  <2>3. \A i \in Ids : guests'[i] # NoGuest => row'[guests'[i].of] # "gone"
    <3> SUFFICES ASSUME NEW i \in Ids, guests'[i] # NoGuest
                 PROVE  row'[guests'[i].of] # "gone"
      OBVIOUS
    <3>1. guests[i] \in Guest /\ guests[i].of \in Bookings /\ row[guests[i].of] # "gone"
      BY <2>2 DEF TypeOK, Taken, Guest
    <3> QED
      BY <2>2, <3>1, <1>2 DEF DeleteBooking, TypeOK
  <2> QED
    BY <2>1, <2>3, <1>2 DEF TypeOK, DeleteBooking, Taken, history
<1>3. ASSUME NEW q \in Requests, PostCount(q)
      PROVE  TypeOK'
  <2>1. req[q] \in Reqs /\ req[q].of \in Bookings
    BY <1>3 DEF TypeOK, PostCount, At, Reqs
  <2>2. [req[q] EXCEPT !.pc = "inserting"] \in Reqs /\ [req[q] EXCEPT !.pc = "inserting"].of \in Bookings
    BY <2>1 DEF Reqs
  <2>3. NoReq \in Reqs /\ NoReq.pc = "idle"
    BY NoReqTyped DEF NoReq
  <2>4. CASE HasRoom(req[q].of)
    BY <1>3, <2>2, <2>4, RequestTyped DEF PostCount
  <2>5. CASE ~HasRoom(req[q].of)
    BY <1>3, <2>3, <2>5, RequestTyped DEF PostCount
  <2> QED
    BY <2>4, <2>5
<1>4. ASSUME NEW q \in Requests, Insert(q)
      PROVE  TypeOK'
  <2>1. req[q].of \in Bookings /\ req[q].via \in Route /\ req[q].until \in Nat
    BY <1>4 DEF TypeOK, Insert, At
  <2>2. PICK i \in Ids \ Taken : guests' = [guests EXCEPT ![i] =
             [of |-> req[q].of, via |-> req[q].via, until |-> req[q].until,
              full |-> TRUE, late |-> req[q].of \in stripped]]
    BY <1>4 DEF Insert
  <2>3. guests' \in [Ids -> Guest \cup {NoGuest}]
    BY <2>1, <2>2 DEF TypeOK, Guest
  <2>4. \A j \in Ids : guests'[j] # NoGuest => row'[guests'[j].of] # "gone"
    BY <2>1, <2>2, <1>4 DEF TypeOK, Insert, Taken, stays
  <2>5. req' \in [Requests -> Reqs] /\ \A r \in Requests : req'[r].pc # "idle" => req'[r].of \in Bookings
    BY <1>4, NoReqTyped DEF TypeOK, Insert, NoReq, Reqs
  <2> QED
    BY <2>3, <2>4, <2>5, <1>4 DEF TypeOK, Insert, Taken, Reqs, stays, history
<1>5. ASSUME NEW q \in Requests, RequestFails(q)
      PROVE  TypeOK'
  BY <1>5, NoReqTyped, RequestTyped DEF RequestFails, NoReq
<1>6. ASSUME NEW q \in Requests, NEW b \in Bookings,
             DeskAdmit(q, b) \/ \E e \in links[b] : PostAdmit(q, b, e)
      PROVE  TypeOK'
  <2>1. ASSUME NEW pc \in {"admitted", "inserting"}, NEW via \in Route, NEW e \in Nat,
               Starts(q, pc, via, b, e),
               UNCHANGED <<clock, stays, guests, purged, purge, history, deaths>>
        PROVE  TypeOK'
    <3>1. [pc |-> pc, via |-> via, of |-> b, until |-> e, since |-> clock] \in Reqs
      BY DEF TypeOK, Reqs
    <3> QED
      BY <2>1, <3>1, RequestTyped DEF Starts
  <2>2. links[b] \subseteq Nat
    BY DEF TypeOK
  <2> QED
    BY <1>6, <2>1, <2>2 DEF PostAdmit, DeskAdmit, Route
<1>7. ASSUME NEW i \in Ids, Remove(i)
      PROVE  TypeOK'
  BY <1>7 DEF TypeOK, Remove, Taken, stays, history
<1>8. ASSUME NEW p \in Purges, PurgeStart(p)
      PROVE  TypeOK'
  <2>1. [pc |-> "selecting", cutoff |-> SofiaDay - Window, due |-> {}] \in Runs
    BY DEF TypeOK, Runs, SofiaDay
  <2>2. backlog' \in [Purges -> SUBSET Bookings]
    BY <1>8 DEF TypeOK, PurgeStart
  <2> QED
    BY <1>8, <2>1, <2>2, RunTyped DEF PurgeStart, TypeOK
<1>9. ASSUME NEW p \in Purges, PurgeSelect(p)
      PROVE  TypeOK'
  <2>1. PICK d \in PurgeBatches(p) : RunBecomes(p, Selected(p, d))
    BY <1>9 DEF PurgeSelect, Selected
  <2>2. Selected(p, d) \in Runs
    BY RunFields, NoPurgeTyped DEF PurgeBatches
  <2>3. backlog' \in [Purges -> SUBSET Bookings]
    BY <2>1 DEF TypeOK, RunBecomes
  <2> QED
    BY <1>9, <2>1, <2>2, <2>3, RunTyped DEF PurgeSelect, RunBecomes, TypeOK
<1>10. ASSUME NEW p \in Purges, PurgeNull(p)
       PROVE  TypeOK'
  <2>1. guests' \in [Ids -> Guest \cup {NoGuest}]
    BY <1>10, NulledFields DEF PurgeNull, TypeOK
  <2>2. \A i \in Ids : guests'[i] # NoGuest => i \in Taken /\ guests'[i].of = guests[i].of
    BY <1>10, NulledFields
  <2>3. purge' \in [Purges -> Runs]
    BY <1>10, RunFields DEF TypeOK, PurgeNull, Nulled, Runs
  <2>4. \A i \in Taken' : row'[guests'[i].of] # "gone"
    BY <1>10, <2>2 DEF TypeOK, PurgeNull, Taken, stays
  <2>5. upTo' \in [Bookings -> Int] /\ stripped' \subseteq Bookings
    BY <1>10, RunFields DEF TypeOK, PurgeNull, Runs
  <2> QED
    BY <1>10, <2>1, <2>3, <2>4, <2>5 DEF TypeOK, PurgeNull, Runs, stays
<1>11. ASSUME NEW p \in Purges, PurgeMark(p)
       PROVE  TypeOK'
  <2>1. AfterBatch(p) \in Runs
    BY RunFields, NoPurgeTyped
  <2>2. backlog' \in [Purges -> SUBSET Bookings]
    BY <1>11 DEF TypeOK, PurgeMark, RunBecomes
  <2>3. purged' \subseteq Bookings
    BY <1>11, RunFields DEF PurgeMark, TypeOK, Runs
  <2> QED
    BY <1>11, <2>1, <2>2, <2>3, RunTyped DEF PurgeMark, RunBecomes, TypeOK
<1>12. ASSUME NEW p \in Purges, PurgeDies(p)
       PROVE  TypeOK'
  <2>1. deaths' \in 0..MaxDeaths
    BY <1>12 DEF PurgeDies, TypeOK
  <2>2. backlog' \in [Purges -> SUBSET Bookings]
    BY <1>12 DEF TypeOK, PurgeDies, RunBecomes
  <2> QED
    BY <1>12, <2>1, <2>2, NoPurgeTyped, RunTyped DEF PurgeDies, RunBecomes, TypeOK
<1>13. CASE Tick
  <2>1. clock' \in 0..LastTick /\ 0..clock \subseteq 0..clock'
    BY <1>13 DEF Tick, TypeOK
  <2> QED
    BY <1>13, <2>1 DEF Tick, TypeOK, Taken, stays, history
<1>14. CASE UNCHANGED vars
  BY <1>14 DEF vars, TypeOK, Taken, stays, history
<1> QED
  BY <1>1, <1>2, <1>3, <1>4, <1>5, <1>6, <1>7, <1>8, <1>9, <1>10, <1>11, <1>12, <1>13, <1>14
     DEF Next, PurgeStep, ClearGuest, AdminDelete

-----------------------------------------------------------------------------
(* What a step makes of the parts of the state.                             *)

(* The actions that are not of the runs, of the requests, of the roster.     *)
Bystanders ==
  \/ \E b \in Bookings : SetStatus(b) \/ SyncStatement(b) \/ DeleteBooking(b)
  \/ \E i \in Ids : Remove(i)
  \/ Tick
  \/ UNCHANGED vars

(* What each kind of step leaves alone.                                      *)
LEMMA StepKinds ==
  ASSUME [Next]_vars
  PROVE  \/ Bystanders
         \/ \E q \in Requests : PostCount(q) \/ Insert(q) \/ RequestFails(q)
         \/ \E q \in Requests, b \in Bookings :
              DeskAdmit(q, b) \/ \E e \in links[b] : PostAdmit(q, b, e)
         \/ \E p \in Purges : PurgeStart(p) \/ PurgeSelect(p) \/ PurgeNull(p) \/ PurgeMark(p)
                              \/ PurgeDies(p)
BY DEF Next, Bystanders, ClearGuest, AdminDelete, PurgeStep

LEMMA BystandersLeave ==
  ASSUME Bystanders
  PROVE  UNCHANGED <<purged, req, purge, stripped, upTo, deaths>>
BY DEF Bystanders, SetStatus, SyncStatement, DeleteBooking, Remove, Tick, vars, history

LEMMA RequestsLeave ==
  ASSUME \/ \E q \in Requests : PostCount(q) \/ Insert(q) \/ RequestFails(q)
         \/ \E q \in Requests, b \in Bookings :
              DeskAdmit(q, b) \/ \E e \in links[b] : PostAdmit(q, b, e)
  PROVE  UNCHANGED <<clock, stays, purged, purge, history, deaths>>
BY DEF PostCount, Insert, RequestFails, PostAdmit, DeskAdmit

LEMMA RunsLeave ==
  ASSUME \E p \in Purges : PurgeStart(p) \/ PurgeSelect(p) \/ PurgeNull(p) \/ PurgeMark(p)
                           \/ PurgeDies(p)
  PROVE  UNCHANGED <<clock, stays, req>>
BY DEF PurgeStart, PurgeSelect, PurgeNull, PurgeMark, PurgeDies

(* Time only goes forward, what is gone stays gone, and no mark is lost.     *)
LEMMA Onward ==
  ASSUME TypeOK, [Next]_vars
  PROVE  /\ clock \in Nat /\ clock' \in Nat /\ clock <= clock'
         /\ \A b \in Bookings : row'[b] # "gone" => row[b] # "gone"
         /\ purged \subseteq purged' /\ stripped \subseteq stripped'
<1>1. clock \in Nat
  BY Parameters DEF TypeOK
<1>2. CASE Bystanders
  <2>1. clock' = clock \/ clock' = clock + 1
    BY <1>2 DEF Bystanders, SetStatus, SyncStatement, DeleteBooking, Remove, Tick, vars
  <2>2. ASSUME NEW b \in Bookings, SetStatus(b) \/ SyncStatement(b) \/ DeleteBooking(b)
        PROVE  \A c \in Bookings : row'[c] # "gone" => row[c] # "gone"
    BY <2>2 DEF SetStatus, SyncStatement, DeleteBooking, TypeOK
  <2>3. row' = row \/ \E b \in Bookings : SetStatus(b) \/ SyncStatement(b) \/ DeleteBooking(b)
    BY <1>2 DEF Bystanders, Remove, Tick, vars, stays
  <2> QED
    BY <1>1, <1>2, <2>1, <2>2, <2>3, BystandersLeave
<1>3. CASE \/ \E q \in Requests : PostCount(q) \/ Insert(q) \/ RequestFails(q)
           \/ \E q \in Requests, b \in Bookings :
                DeskAdmit(q, b) \/ \E e \in links[b] : PostAdmit(q, b, e)
  BY <1>1, <1>3, RequestsLeave DEF stays, history
<1>4. CASE \E p \in Purges : PurgeStart(p) \/ PurgeSelect(p) \/ PurgeNull(p) \/ PurgeMark(p)
                             \/ PurgeDies(p)
  <2>1. purged \subseteq purged' /\ stripped \subseteq stripped'
    BY <1>4 DEF PurgeStart, PurgeSelect, PurgeNull, PurgeMark, PurgeDies, history
  <2> QED
    BY <1>1, <1>4, <2>1, RunsLeave DEF stays
<1> QED
  BY <1>2, <1>3, <1>4, StepKinds

LEMMA DueShrinks ==
  ASSUME TypeOK, [Next]_vars
  PROVE  \A b \in Bookings : \A c \in Int :
           row'[b] # "gone" /\ end[b] <= c /\ b \notin purged' => PurgeDue(b, c)
BY Onward DEF PurgeDue, Present

(* Identities are added by one action and changed by one other.              *)
Thinned == \A i \in Ids : guests'[i] \in {guests[i], NoGuest}

LEMMA RosterSteps ==
  ASSUME TypeOK, [Next]_vars
  PROVE  \/ Thinned /\ UNCHANGED <<stripped, upTo>>
         \/ \E q \in Requests : Insert(q)
         \/ \E p \in Purges : PurgeNull(p)
<1>1. CASE Bystanders
  <2>1. ASSUME NEW b \in Bookings, DeleteBooking(b)
        PROVE  Thinned
    BY <2>1 DEF DeleteBooking, Thinned
  <2>2. ASSUME NEW i \in Ids, Remove(i)
        PROVE  Thinned
    BY <2>2 DEF Remove, Thinned, TypeOK
  <2>3. UNCHANGED guests => Thinned
    BY DEF Thinned
  <2> QED
    BY <1>1, <2>1, <2>2, <2>3, BystandersLeave
       DEF Bystanders, SetStatus, SyncStatement, Tick, vars
<1>2. UNCHANGED <<guests, stripped, upTo>> => Thinned /\ UNCHANGED <<stripped, upTo>>
  BY DEF Thinned
<1> QED
  BY <1>1, <1>2, StepKinds
     DEF PostCount, RequestFails, PostAdmit, DeskAdmit, PurgeStart, PurgeSelect, PurgeMark,
         PurgeDies, history

(* A purge run stands, while its backlog may shrink; or it begins, goes on,  *)
(* or dies.                                                                  *)
LEMMA RunSteps ==
  ASSUME TypeOK, [Next]_vars, NEW p \in Purges
  PROVE  \/ /\ purge'[p] = purge[p] /\ backlog'[p] \subseteq backlog[p]
            /\ \A b \in backlog'[p] : end'[b] = end[b] \/ end'[b] <= purge[p].cutoff
         \/ PurgeStart(p) \/ PurgeSelect(p) \/ PurgeNull(p) \/ PurgeMark(p) \/ PurgeDies(p)
<1>1. ASSUME NEW o \in Purges, o # p,
             PurgeStart(o) \/ PurgeSelect(o) \/ PurgeNull(o) \/ PurgeMark(o) \/ PurgeDies(o)
      PROVE  purge'[p] = purge[p] /\ backlog'[p] = backlog[p] /\ end' = end
  <2>1. end' = end
    BY <1>1, RunsLeave DEF stays
  <2> QED
    BY <1>1, <2>1
       DEF PurgeStart, PurgeSelect, PurgeNull, PurgeMark, PurgeDies, RunBecomes, TypeOK
<1>2. ASSUME UNCHANGED <<stays, purge, history>>
      PROVE  purge'[p] = purge[p] /\ backlog'[p] = backlog[p] /\ end' = end
  BY <1>2 DEF stays, history
<1>3. CASE Bystanders
  <2>1. ASSUME NEW b \in Bookings, SyncStatement(b)
        PROVE  /\ backlog'[p] \subseteq backlog[p]
               /\ \A c \in backlog'[p] : end'[c] <= purge[p].cutoff
    BY <2>1 DEF SyncStatement
  <2>2. (\A b \in Bookings : ~SyncStatement(b)) => UNCHANGED <<end, backlog>>
    BY <1>3 DEF Bystanders, SetStatus, DeleteBooking, Remove, Tick, vars, stays, history
  <2> QED
    BY <1>3, <2>1, <2>2, BystandersLeave
<1> QED
  BY <1>1, <1>2, <1>3, StepKinds, RequestsLeave

LEMMA RunEffects ==
  ASSUME TypeOK, NEW p \in Purges
  PROVE  /\ PurgeStart(p) =>
               purge'[p] = [pc |-> "selecting", cutoff |-> SofiaDay - Window, due |-> {}]
         /\ PurgeSelect(p) => \E d \in PurgeBatches(p) :
               /\ d \in SUBSET Bookings /\ purge'[p] = Selected(p, d)
               /\ backlog'[p] = IF d = {} THEN {} ELSE backlog[p]
         /\ PurgeNull(p) => purge'[p] = Nulled(p) /\ backlog'[p] = backlog[p]
         /\ PurgeMark(p) => /\ purge'[p] = AfterBatch(p)
                            /\ backlog'[p] = IF AfterBatch(p) = NoPurge THEN {} ELSE backlog[p]
         /\ PurgeDies(p) => purge'[p] = NoPurge /\ backlog'[p] = {}
<1>1. ASSUME PurgeSelect(p)
      PROVE  \E d \in PurgeBatches(p) :
               /\ d \in SUBSET Bookings /\ purge'[p] = Selected(p, d)
               /\ backlog'[p] = IF d = {} THEN {} ELSE backlog[p]
  <2>1. PICK d \in PurgeBatches(p) : RunBecomes(p, Selected(p, d))
    BY <1>1 DEF PurgeSelect, Selected
  <2>2. d \in SUBSET Bookings
    BY DEF PurgeBatches
  <2>3. Selected(p, d) = NoPurge <=> d = {}
    <3>1. NoPurge.pc = "idle"
      BY DEF NoPurge
    <3>2. d # {} => Selected(p, d).pc = "nulling"
      BY <2>2, RunFields
    <3> QED
      BY <3>1, <3>2 DEF Selected
  <2> QED
    BY <2>1, <2>2, <2>3 DEF RunBecomes, TypeOK
<1> QED
  BY <1>1 DEF PurgeStart, PurgeNull, PurgeMark, PurgeDies, RunBecomes, Nulled, TypeOK

HasCounted(q) == [req[q] EXCEPT !.pc = "inserting"]

(* A request stands, ends, begins, or has counted.                          *)
LEMMA RequestSteps ==
  ASSUME TypeOK, [Next]_vars, NEW q \in Requests
  PROVE  \/ req'[q] = req[q]
         \/ req'[q] = NoReq
         \/ \E b \in Bookings : DeskAdmit(q, b) \/ \E e \in links[b] : PostAdmit(q, b, e)
         \/ PostCount(q) /\ HasRoom(req[q].of) /\ req'[q] = HasCounted(q)
<1>1. ASSUME NEW o \in Requests, PostCount(o) \/ Insert(o) \/ RequestFails(o), o # q
      PROVE  req'[q] = req[q]
  BY <1>1 DEF PostCount, Insert, RequestFails, TypeOK
<1>2. ASSUME NEW o \in Requests, NEW b \in Bookings,
             DeskAdmit(o, b) \/ \E e \in links[b] : PostAdmit(o, b, e), o # q
      PROVE  req'[q] = req[q]
  BY <1>2 DEF PostAdmit, DeskAdmit, Starts, TypeOK
<1>3. ASSUME PostCount(q)
      PROVE  req'[q] = NoReq \/ (HasRoom(req[q].of) /\ req'[q] = HasCounted(q))
  <2>1. req'[q] = IF HasRoom(req[q].of) THEN HasCounted(q) ELSE NoReq
    BY <1>3 DEF PostCount, HasCounted, TypeOK
  <2> QED
    BY <2>1
<1>4. Insert(q) \/ RequestFails(q) => req'[q] = NoReq
  BY DEF Insert, RequestFails, TypeOK
<1> QED
  BY <1>1, <1>2, <1>3, <1>4, StepKinds, BystandersLeave, RunsLeave

-----------------------------------------------------------------------------
(* The parts of the invariant, one by one.                                  *)

LEMMA StaysFixedStep ==
  ASSUME TypeOK, StaysFixed, [Next]_vars
  PROVE  StaysFixed'
<1> SUFFICES ASSUME NEW b \in Bookings, b \notin Imported
             PROVE  end'[b] = End[b] /\ links'[b] \subseteq {End[b]}
  BY DEF StaysFixed
<1>1. end[b] = End[b] /\ links[b] \subseteq {End[b]}
  BY DEF StaysFixed
<1>2. ASSUME NEW c \in Bookings, SetStatus(c) \/ SyncStatement(c)
      PROVE  end'[b] = End[b]
  BY <1>1, <1>2 DEF SetStatus, SyncStatement, TypeOK
<1>3. ASSUME NEW c \in Bookings, SetStatus(c) \/ SyncStatement(c)
      PROVE  links'[b] \subseteq links[b] \cup {end'[b]}
  BY <1>3 DEF SetStatus, SyncStatement, MayBeLinked
<1>4. UNCHANGED <<end, links>> \/ \E c \in Bookings : SetStatus(c) \/ SyncStatement(c)
  BY StepKinds, RequestsLeave, RunsLeave
     DEF Bystanders, DeleteBooking, Remove, Tick, vars, stays
<1> QED
  BY <1>1, <1>2, <1>3, <1>4

LEMMA LinksTimelyStep ==
  ASSUME TypeOK, StaysFixed, LinksTimely, [Next]_vars
  PROVE  LinksTimely'
<1> SUFFICES ASSUME NEW q \in Requests, req'[q].pc # "idle"
             PROVE  /\ clock' - req'[q].since <= Patience
                    /\ req'[q].via = "link" =>
                         /\ req'[q].since < 2 * (req'[q].until + Grace)
                         /\ req'[q].of \notin Imported => req'[q].until = End[req'[q].of]
  BY DEF LinksTimely, At
<1> USE Parameters
<1>1. clock \in Nat /\ req[q] \in Reqs
  BY DEF TypeOK, Reqs
<1>2. clock' = clock \/ Tick
  BY StepKinds, RequestsLeave, RunsLeave
     DEF Bystanders, SetStatus, SyncStatement, DeleteBooking, Remove, vars
<1>3. CASE Tick
  <2>1. req'[q] = req[q] /\ clock' = clock + 1 /\ clock - req[q].since < Patience
    BY <1>3 DEF Tick, At
  <2>2. req[q].since \in Int
    BY <1>1 DEF Reqs
  <2> QED
    BY <1>1, <2>1, <2>2 DEF LinksTimely, At
<1>4. CASE clock' = clock
  <2>1. CASE req'[q] = req[q]
    BY <1>4, <2>1 DEF LinksTimely, At
  <2>2. CASE req'[q] = NoReq
    BY <2>2 DEF NoReq
  <2>3. ASSUME NEW b \in Bookings, DeskAdmit(q, b)
        PROVE  req'[q].since = clock /\ req'[q].via = "desk"
    BY <2>3 DEF DeskAdmit, Starts, TypeOK
  <2>4. ASSUME NEW b \in Bookings, NEW e \in links[b], PostAdmit(q, b, e)
        PROVE  /\ req'[q].since = clock /\ clock < 2 * (req'[q].until + Grace)
               /\ req'[q].of \notin Imported => req'[q].until = End[req'[q].of]
    <3>1. req'[q] = [pc |-> "admitted", via |-> "link", of |-> b, until |-> e, since |-> clock]
      BY <2>4 DEF PostAdmit, Starts, TypeOK
    <3>2. clock < 2 * (e + Grace)
      BY <2>4 DEF PostAdmit, Authenticates, LinkLives
    <3>3. b \notin Imported => e = End[b]
      BY DEF StaysFixed
    <3> QED
      BY <3>1, <3>2, <3>3
  <2>5. CASE PostCount(q) /\ HasRoom(req[q].of) /\ req'[q] = HasCounted(q)
    <3>1. /\ req'[q].since = req[q].since /\ req'[q].via = req[q].via /\ req'[q].of = req[q].of
          /\ req'[q].until = req[q].until /\ ~At(q, "idle")
      BY <1>1, <2>5 DEF PostCount, HasCounted, At, Reqs
    <3> QED
      BY <1>4, <3>1 DEF LinksTimely
  <2> QED
    BY <1>1, <1>4, <2>1, <2>2, <2>3, <2>4, <2>5, RequestSteps
<1> QED
  BY <1>2, <1>3, <1>4

LEMMA WindowEnds ==
  ASSUME NEW s \in Int, NEW w \in Int, NEW c \in Int, NEW d \in Int, 2 * s <= c + 1, c <= d
  PROVE  2 * ((s - w) + w) <= d + 1
OBVIOUS

LEMMA RunsTimelyStep ==
  ASSUME TypeOK, StaysFixed, PurgesTimely, [Next]_vars, NEW p \in Purges
  PROVE  /\ purge'[p].pc # "idle" => 2 * (purge'[p].cutoff + Window) <= clock' + 1
         /\ \A b \in purge'[p].due :
              purge'[p].pc # "idle" /\ (b \notin Imported => End[b] <= purge'[p].cutoff)
<1> USE Parameters
<1>1. clock \in Nat /\ clock' \in Nat /\ clock <= clock'
  BY Onward
<1>2. purge[p] \in Runs /\ purge[p].cutoff \in Int /\ purge[p].due \subseteq Bookings
  BY RunFields DEF Runs
<1>3. /\ purge[p].pc # "idle" => 2 * (purge[p].cutoff + Window) <= clock' + 1
      /\ \A b \in purge[p].due :
           purge[p].pc # "idle" /\ (b \notin Imported => End[b] <= purge[p].cutoff)
  BY <1>1, <1>2 DEF PurgesTimely
<1>4. CASE purge'[p] = purge[p]
  BY <1>3, <1>4
<1>5. CASE purge'[p] = NoPurge
  BY <1>5 DEF NoPurge
<1>6. CASE PurgeStart(p)
  <2>1. purge'[p] = [pc |-> "selecting", cutoff |-> SofiaDay - Window, due |-> {}]
    BY <1>6, RunEffects
  <2>2. purge'[p].cutoff = SofiaDay - Window /\ purge'[p].due = {}
    BY <2>1
  <2>3. 2 * SofiaDay <= clock + 1 /\ SofiaDay \in Int
    BY <1>1 DEF SofiaDay
  <2>4. PICK s \in Int : s = SofiaDay
    BY <2>3
  <2>5. PICK w \in Int : w = Window
    OBVIOUS
  <2>6. 2 * s <= clock + 1 /\ clock \in Int /\ clock' \in Int /\ clock <= clock'
    BY <1>1, <2>3, <2>4
  <2>7. 2 * ((s - w) + w) <= clock' + 1
    BY <2>6, WindowEnds
  <2> QED
    BY <2>2, <2>4, <2>5, <2>7
<1>7. CASE PurgeSelect(p)
  <2>1. PICK d \in PurgeBatches(p) : d \in SUBSET Bookings /\ purge'[p] = Selected(p, d)
    BY <1>7, RunEffects
  <2>2. \A b \in d : b \notin Imported => End[b] <= purge[p].cutoff
    BY <2>1 DEF PurgeBatches, PurgeDue, StaysFixed
  <2>3. purge[p].pc # "idle"
    BY <1>7 DEF PurgeSelect
  <2>4. CASE d = {}
    BY <1>5, <2>1, <2>4, RunFields
  <2>5. CASE d # {}
    <3>1. purge'[p].pc = "nulling" /\ purge'[p].cutoff = purge[p].cutoff /\ purge'[p].due = d
      BY <2>1, <2>5, RunFields
    <3> QED
      BY <1>3, <2>2, <2>3, <3>1
  <2> QED
    BY <2>4, <2>5
<1>8. CASE PurgeNull(p)
  <2>1. purge'[p] = Nulled(p) /\ Nulled(p).pc = "marking" /\ purge[p].pc # "idle"
    BY <1>8, RunEffects, RunFields DEF PurgeNull
  <2>2. Nulled(p).cutoff = purge[p].cutoff /\ Nulled(p).due = purge[p].due
    BY RunFields
  <2> QED
    BY <1>3, <2>1, <2>2
<1>9. CASE PurgeMark(p)
  <2>1. purge'[p] = AfterBatch(p) /\ purge[p].pc # "idle"
    BY <1>9, RunEffects DEF PurgeMark
  <2> QED
    BY <1>3, <1>5, <2>1, RunFields
<1>10. CASE PurgeDies(p)
  BY <1>5, <1>10, RunEffects
<1> QED
  BY <1>4, <1>6, <1>7, <1>8, <1>9, <1>10, RunSteps

LEMMA PurgesTimelyStep ==
  ASSUME TypeOK, StaysFixed, PurgesTimely, [Next]_vars
  PROVE  PurgesTimely'
<1> USE Parameters
<1>1. clock \in Nat /\ clock' \in Nat /\ clock <= clock'
  BY Onward
<1>2. ASSUME NEW b \in stripped'
      PROVE  /\ 2 * (upTo'[b] + Window) <= clock' + 1
             /\ b \notin Imported => End[b] <= upTo'[b]
  <2>1. CASE UNCHANGED <<stripped, upTo>>
    <3>1. b \in stripped /\ upTo[b] \in Int /\ upTo'[b] = upTo[b]
      BY <1>2, <2>1 DEF TypeOK
    <3>2. 2 * (upTo[b] + Window) <= clock + 1 /\ (b \notin Imported => End[b] <= upTo[b])
      BY <3>1 DEF PurgesTimely
    <3> QED
      BY <1>1, <3>1, <3>2
  <2>2. ASSUME NEW p \in Purges, PurgeNull(p)
        PROVE  /\ 2 * (upTo'[b] + Window) <= clock' + 1
               /\ b \notin Imported => End[b] <= upTo'[b]
    <3>1. b \in Bookings /\ upTo'[b] = IF b \in purge[p].due THEN purge[p].cutoff ELSE upTo[b]
      BY <1>2, <2>2, RunFields DEF PurgeNull, TypeOK, Runs
    <3>2. CASE b \in purge[p].due
      <4>1. purge[p].cutoff \in Int
        BY RunFields DEF Runs
      <4>2. 2 * (purge[p].cutoff + Window) <= clock + 1 /\ (b \notin Imported => End[b] <= purge[p].cutoff)
        BY <2>2, <3>2 DEF PurgesTimely, PurgeNull
      <4> QED
        BY <1>1, <3>1, <3>2, <4>1, <4>2
    <3>3. CASE b \notin purge[p].due
      <4>1. b \in stripped /\ upTo[b] \in Int
        BY <1>2, <2>2, <3>1, <3>3 DEF PurgeNull, TypeOK
      <4>2. 2 * (upTo[b] + Window) <= clock + 1 /\ (b \notin Imported => End[b] <= upTo[b])
        BY <4>1 DEF PurgesTimely
      <4> QED
        BY <1>1, <3>1, <3>3, <4>1, <4>2
    <3> QED
      BY <3>2, <3>3
  <2> QED
    BY <2>1, <2>2, RosterSteps DEF Insert, history
<1> QED
  BY <1>2, RunsTimelyStep DEF PurgesTimely

LEMMA MarkedIsStrippedStep ==
  ASSUME TypeOK, MarkedIsStripped, [Next]_vars
  PROVE  MarkedIsStripped'
<1>1. stripped \subseteq stripped'
  BY Onward
<1>2. purged' = purged \/ \E p \in Purges : PurgeMark(p)
  BY StepKinds, BystandersLeave, RequestsLeave
     DEF PurgeStart, PurgeSelect, PurgeNull, PurgeDies
<1>3. purged' \subseteq stripped'
  BY <1>1, <1>2 DEF PurgeMark, MarkedIsStripped
<1>4. ASSUME NEW p \in Purges, purge'[p].pc = "marking"
      PROVE  purge'[p].due \subseteq stripped'
  <2>1. CASE purge'[p] = purge[p]
    BY <1>1, <1>4, <2>1 DEF MarkedIsStripped
  <2>2. CASE PurgeNull(p)
    <3>1. purge'[p] = Nulled(p) /\ Nulled(p).due = purge[p].due
      BY <2>2, RunEffects, RunFields
    <3> QED
      BY <2>2, <3>1 DEF PurgeNull
  <2>3. purge'[p] # NoPurge
    BY <1>4 DEF NoPurge
  <2>4. ASSUME PurgeSelect(p)
        PROVE  FALSE
    <3>1. PICK d \in PurgeBatches(p) : d \in SUBSET Bookings /\ purge'[p] = Selected(p, d)
      BY <2>4, RunEffects
    <3> QED
      BY <1>4, <2>3, <3>1, RunFields
  <2>5. ~PurgeMark(p) /\ ~PurgeDies(p)
    BY <1>4, <2>3, RunEffects, RunFields
  <2>6. ~PurgeStart(p)
    BY <1>4, RunEffects
  <2> QED
    BY <2>1, <2>2, <2>4, <2>5, <2>6, RunSteps
<1> QED
  BY <1>3, <1>4 DEF MarkedIsStripped

(* A link whose check-out the cutoff covers is dead long before the purge.   *)
LEMMA LinkOutlastsPurge ==
  ASSUME TypeOK, LinksTimely, PurgesTimely, NEW q \in Requests, Insert(q), req[q].of \in stripped,
         req[q].via # "desk"
  PROVE  req[q].of \in Imported /\ req[q].until > upTo[req[q].of]
<1> USE Parameters
<1>1. /\ clock \in Nat /\ req[q].since \in Int /\ req[q].of \in Bookings /\ req[q].via \in Route
      /\ req[q].until \in Nat /\ upTo[req[q].of] \in Int
  BY DEF TypeOK, Insert, At
<1> DEFINE e == req[q].until
<1> DEFINE u == upTo[req[q].of]
<1> DEFINE c == req[q].since
<1>2. /\ 2 * (u + Window) <= clock + 1
      /\ req[q].of \notin Imported => End[req[q].of] <= u
  BY DEF PurgesTimely
<1>3. ~At(q, "idle") /\ req[q].via = "link"
  BY <1>1 DEF Insert, At, Route
<1>4. /\ clock - c <= Patience /\ c < 2 * (e + Grace)
      /\ req[q].of \notin Imported => e = End[req[q].of]
  BY <1>3 DEF LinksTimely
<1>5. e \in Int /\ u \in Int /\ c \in Int
  BY <1>1
<1>6. e > u
  <2>1. 2 * (u + Window) <= clock + 1 /\ clock - c <= Patience /\ c < 2 * (e + Grace)
    BY <1>2, <1>4
  <2> HIDE DEF e, u, c
  <2> QED
    BY <1>1, <1>5, <2>1, LinksDieFirst
<1>7. req[q].of \in Imported
  <2>1. req[q].of \notin Imported => e <= u
    BY <1>2, <1>4
  <2> HIDE DEF e, u, c
  <2> QED
    BY <1>5, <1>6, <2>1
<1> QED
  BY <1>6, <1>7

LEMMA StrippedIsLateStep ==
  ASSUME TypeOK, LinksTimely, PurgesTimely, StrippedIsLate, [Next]_vars
  PROVE  StrippedIsLate'
<1> SUFFICES ASSUME NEW i \in Ids, guests'[i] # NoGuest, guests'[i].of \in stripped', guests'[i].full
             PROVE  /\ guests'[i].late
                    /\ \/ guests'[i].via = "desk"
                       \/ guests'[i].of \in Imported /\ guests'[i].until > upTo'[guests'[i].of]
  BY DEF StrippedIsLate, LateGuest, Taken
<1>1. CASE Thinned /\ UNCHANGED <<stripped, upTo>>
  BY <1>1 DEF StrippedIsLate, LateGuest, Taken, Thinned
<1>2. ASSUME NEW q \in Requests, Insert(q)
      PROVE  /\ guests'[i].late
             /\ \/ guests'[i].via = "desk"
                \/ guests'[i].of \in Imported /\ guests'[i].until > upTo'[guests'[i].of]
  <2> DEFINE g == [of |-> req[q].of, via |-> req[q].via, until |-> req[q].until,
                   full |-> TRUE, late |-> req[q].of \in stripped]
  <2>1. stripped' = stripped /\ upTo' = upTo
    BY <1>2 DEF Insert, history
  <2>2. PICK j \in Ids \ Taken : guests' = [guests EXCEPT ![j] = g]
    BY <1>2 DEF Insert
  <2>3. /\ g.of = req[q].of /\ g.via = req[q].via /\ g.until = req[q].until
        /\ g.late = (req[q].of \in stripped)
    OBVIOUS
  <2> HIDE DEF g
  <2>4. CASE i = j
    <3>1. guests'[i] = g
      BY <2>2, <2>4 DEF TypeOK
    <3>2. req[q].of \in stripped
      BY <2>1, <2>3, <3>1
    <3> QED
      BY <1>2, <2>1, <2>3, <3>1, <3>2, LinkOutlastsPurge
  <2>5. CASE i # j
    BY <2>1, <2>2, <2>5 DEF StrippedIsLate, LateGuest, Taken, TypeOK
  <2> QED
    BY <2>4, <2>5
<1>3. ASSUME NEW p \in Purges, PurgeNull(p)
      PROVE  /\ guests'[i].late
             /\ \/ guests'[i].via = "desk"
                \/ guests'[i].of \in Imported /\ guests'[i].until > upTo'[guests'[i].of]
  <2>1. i \in Taken /\ guests'[i].of = guests[i].of /\ guests[i].of \notin purge[p].due
    BY <1>3, NulledFields
  <2>2. guests'[i] = guests[i]
    BY <1>3, <2>1, NulledFields
  <2>3. guests[i].of \in stripped
    BY <1>3, <2>1 DEF PurgeNull
  <2>4. upTo'[guests[i].of] = upTo[guests[i].of]
    BY <1>3, <2>1, <2>3 DEF PurgeNull, TypeOK
  <2> QED
    BY <2>1, <2>2, <2>3, <2>4 DEF StrippedIsLate, LateGuest
<1> QED
  BY <1>1, <1>2, <1>3, RosterSteps

(* A batch below the limit holds everything that is due.                    *)
LEMMA SmallBatch ==
  ASSUME NEW p \in Purges, NEW d \in PurgeBatches(p), Cardinality(d) < BatchSize,
         NEW b \in Bookings, PurgeDue(b, purge[p].cutoff)
  PROVE  b \in d
<1> DEFINE due == { c \in Bookings : PurgeDue(c, purge[p].cutoff) }
<1>1. CASE Cardinality(due) <= BatchSize
  BY <1>1 DEF PurgeBatches
<1>2. CASE ~(Cardinality(due) <= BatchSize)
  <2>1. Cardinality(d) = BatchSize
    BY <1>2 DEF PurgeBatches
  <2> QED
    BY <2>1, Parameters
<1> QED
  BY <1>1, <1>2

(* What a run has in its backlog stays in sight of it.                       *)
LEMMA BacklogSeen ==
  ASSUME TypeOK, BatchesWhole, [Next]_vars, NEW p \in Purges, NEW b \in backlog'[p]
  PROVE  purge'[p].pc # "idle" /\ end'[b] <= purge'[p].cutoff
<1>1. b \in Bookings
  BY TypeStep DEF TypeOK
<1>2. CASE /\ purge'[p] = purge[p] /\ backlog'[p] \subseteq backlog[p]
           /\ \A c \in backlog'[p] : end'[c] = end[c] \/ end'[c] <= purge[p].cutoff
  BY <1>2 DEF BatchesWhole
<1>3. CASE PurgeStart(p)
  <2>1. b \in { c \in Bookings : PurgeDue(c, SofiaDay - Window) }
    BY <1>3 DEF PurgeStart, TypeOK
  <2>2. purge'[p].pc = "selecting" /\ purge'[p].cutoff = SofiaDay - Window
    BY <1>3, RunEffects
  <2>3. end' = end
    BY <1>3 DEF PurgeStart, stays
  <2> QED
    BY <2>1, <2>2, <2>3 DEF PurgeDue
<1>4. CASE PurgeSelect(p)
  <2>1. PICK d \in PurgeBatches(p) :
          /\ d \in SUBSET Bookings /\ purge'[p] = Selected(p, d)
          /\ backlog'[p] = IF d = {} THEN {} ELSE backlog[p]
    BY <1>4, RunEffects
  <2>2. d # {} /\ b \in backlog[p]
    BY <2>1
  <2> QED
    BY <1>4, <2>1, <2>2, RunFields DEF BatchesWhole, PurgeSelect, stays
<1>5. CASE PurgeNull(p)
  <2>1. b \in backlog[p] /\ purge'[p] = Nulled(p)
    BY <1>5, RunEffects
  <2>2. purge'[p].pc = "marking" /\ purge'[p].cutoff = purge[p].cutoff
    BY <2>1, RunFields
  <2>3. end' = end
    BY <1>5 DEF PurgeNull, stays
  <2> QED
    BY <2>1, <2>2, <2>3 DEF BatchesWhole
<1>6. CASE PurgeMark(p)
  BY <1>6, RunEffects, RunFields DEF BatchesWhole, PurgeMark, stays
<1>7. ~PurgeDies(p)
  BY RunEffects
<1> QED
  BY <1>2, <1>3, <1>4, <1>5, <1>6, <1>7, RunSteps

LEMMA BatchesWholeStep ==
  ASSUME TypeOK, BatchesWhole, [Next]_vars
  PROVE  BatchesWhole'
<1> SUFFICES ASSUME NEW p \in Purges, NEW b \in backlog'[p], purge'[p].pc \in {"nulling", "marking"},
                    Cardinality(purge'[p].due) < BatchSize, row'[b] # "gone", b \notin purged'
             PROVE  b \in purge'[p].due
  BY BacklogSeen DEF BatchesWhole, PurgeDue, Present
<1>1. b \in Bookings /\ purge'[p] # NoPurge
  BY TypeStep DEF TypeOK, NoPurge
<1>2. ASSUME b \in backlog[p]
      PROVE  PurgeDue(b, purge[p].cutoff)
  <2>1. end[b] <= purge[p].cutoff /\ purge[p].cutoff \in Int
    BY <1>2, RunFields DEF BatchesWhole, Runs
  <2> QED
    BY <1>1, <2>1, DueShrinks
<1>3. CASE purge'[p] = purge[p] /\ backlog'[p] \subseteq backlog[p]
  BY <1>2, <1>3 DEF BatchesWhole
<1>4. CASE PurgeSelect(p)
  <2>1. PICK d \in PurgeBatches(p) :
          /\ d \in SUBSET Bookings /\ purge'[p] = Selected(p, d)
          /\ backlog'[p] = IF d = {} THEN {} ELSE backlog[p]
    BY <1>4, RunEffects
  <2>2. d # {} /\ b \in backlog[p] /\ purge'[p].due = d
    BY <2>1, RunFields
  <2> QED
    BY <1>1, <1>2, <2>2, SmallBatch
<1>5. CASE PurgeNull(p)
  <2>1. purge[p].pc = "nulling" /\ purge'[p] = Nulled(p) /\ b \in backlog[p]
    BY <1>5, RunEffects DEF PurgeNull
  <2>2. purge'[p].due = purge[p].due
    BY <2>1, RunFields
  <2> QED
    BY <1>2, <2>1, <2>2 DEF BatchesWhole
<1>6. ~PurgeMark(p) /\ ~PurgeDies(p)
  BY <1>1, RunEffects, RunFields
<1>7. ~PurgeStart(p)
  BY RunEffects
<1> QED
  BY <1>3, <1>4, <1>5, <1>6, <1>7, RunSteps

(* A run that ends by itself has marked what was due and stayed so.          *)
LEMMA RunEnds ==
  ASSUME TypeOK, BatchesWhole, [Next]_vars, NEW p \in Purges,
         purge[p].pc # "idle", purge'[p].pc = "idle", deaths' = deaths,
         NEW b \in backlog[p], row'[b] # "gone"
  PROVE  b \in purged'
<1> SUFFICES ASSUME b \notin purged'
             PROVE  FALSE
  OBVIOUS
<1>1. b \in Bookings /\ end[b] <= purge[p].cutoff /\ purge[p].cutoff \in Int
  BY RunFields DEF BatchesWhole, TypeOK, Runs
<1>2. PurgeDue(b, purge[p].cutoff)
  BY <1>1, DueShrinks
<1>3. CASE PurgeSelect(p)
  <2>1. PICK d \in PurgeBatches(p) : d \in SUBSET Bookings /\ purge'[p] = Selected(p, d)
    BY <1>3, RunEffects
  <2>2. d = {}
    BY <2>1, RunFields
  <2>3. Cardinality(d) < BatchSize
    BY <2>2, FS_EmptySet, Parameters
  <2> QED
    BY <1>1, <1>2, <2>2, <2>3, SmallBatch
<1>4. CASE PurgeMark(p)
  <2>1. purge[p].pc = "marking" /\ purge'[p] = AfterBatch(p)
    BY <1>4, RunEffects DEF PurgeMark
  <2>2. Cardinality(purge[p].due) < BatchSize
    BY <2>1, RunFields
  <2>3. b \in purge[p].due /\ Present(b)
    BY <1>2, <2>1, <2>2 DEF BatchesWhole, PurgeDue
  <2> QED
    BY <1>4, <2>3 DEF PurgeMark
<1>5. purge'[p] # purge[p] /\ ~PurgeStart(p)
  BY DEF PurgeStart
<1>6. ~PurgeNull(p)
  BY RunEffects, RunFields
<1>7. ~PurgeDies(p)
  BY Parameters DEF PurgeDies, TypeOK
<1> QED
  BY <1>3, <1>4, <1>5, <1>6, <1>7, RunSteps

-----------------------------------------------------------------------------
(* Capacity.                                                                *)

LEMMA FewCounted ==
  ASSUME NEW b \in Bookings
  PROVE  /\ Counted(b) \subseteq Requests
         /\ IsFiniteSet(Counted(b)) /\ Cardinality(Counted(b)) \in Nat
         /\ Cardinality(Counted(b)) <= Cardinality(Requests) /\ Cardinality(Requests) \in Nat
         /\ IsFiniteSet(GuestsOf(b)) /\ IsFiniteSet(LinkGuests(b))
         /\ Cardinality(LinkGuests(b)) \in Nat /\ Cardinality(GuestsOf(b)) \in Nat
         /\ Cardinality(LinkGuests(b)) <= Cardinality(GuestsOf(b))
<1>1. IsFiniteSet(Requests) /\ IsFiniteSet(Ids)
  BY RosterActors
<1>2. Counted(b) \subseteq Requests /\ GuestsOf(b) \subseteq Ids /\ LinkGuests(b) \subseteq GuestsOf(b)
  BY DEF Counted, GuestsOf, LinkGuests, Taken
<1>3. IsFiniteSet(Counted(b)) /\ Cardinality(Counted(b)) <= Cardinality(Requests)
  BY <1>1, <1>2, FS_Subset
<1>4. IsFiniteSet(GuestsOf(b))
  BY <1>1, <1>2, FS_Subset
<1>5. IsFiniteSet(LinkGuests(b)) /\ Cardinality(LinkGuests(b)) <= Cardinality(GuestsOf(b))
  BY <1>2, <1>4, FS_Subset
<1> QED
  BY <1>1, <1>2, <1>3, <1>4, <1>5, FS_CardinalityType

Room(b) ==
  Cardinality(LinkGuests(b)) + Cardinality(Counted(b)) <= NumGuests[b] + Cardinality(Requests) - 1

(* Fewer guests and fewer requests under way keep within the bound.         *)
LEMMA RoomStays ==
  ASSUME NEW b \in Bookings, Room(b), LinkGuests(b)' \subseteq LinkGuests(b),
         Counted(b)' \subseteq Counted(b)
  PROVE  Room(b)'
<1>1. /\ IsFiniteSet(LinkGuests(b)) /\ Cardinality(LinkGuests(b)) \in Nat
      /\ IsFiniteSet(Counted(b)) /\ Cardinality(Counted(b)) \in Nat
      /\ Cardinality(Requests) \in Nat /\ NumGuests[b] \in Nat
  BY FewCounted, Parameters
<1>2. /\ IsFiniteSet(LinkGuests(b)') /\ Cardinality(LinkGuests(b)') <= Cardinality(LinkGuests(b))
      /\ IsFiniteSet(Counted(b)') /\ Cardinality(Counted(b)') <= Cardinality(Counted(b))
  BY <1>1, FS_Subset
<1>3. Cardinality(LinkGuests(b)') \in Nat /\ Cardinality(Counted(b)') \in Nat
  BY <1>2, FS_CardinalityType
<1> QED
  BY <1>1, <1>2, <1>3 DEF Room

LEMMA CountedSteps ==
  ASSUME TypeOK, [Next]_vars, NEW b \in Bookings
  PROVE  \/ Counted(b)' \subseteq Counted(b)
         \/ HasRoom(b) /\ UNCHANGED guests
<1>1. SUFFICES ASSUME NEW q \in Counted(b)', q \notin Counted(b)
               PROVE  HasRoom(b) /\ UNCHANGED guests
  OBVIOUS
<1>2. q \in Requests /\ req'[q].pc = "inserting" /\ req'[q].of = b /\ req'[q].via = "link"
  BY DEF Counted, At
<1>3. req[q] \in Reqs
  BY <1>2 DEF TypeOK, Reqs
<1>4. req'[q] # req[q]
  BY <1>1, <1>2 DEF Counted, At
<1>5. req'[q] # NoReq
  BY <1>2 DEF NoReq
<1>6. ASSUME NEW c \in Bookings, DeskAdmit(q, c) \/ \E e \in links[c] : PostAdmit(q, c, e)
      PROVE  FALSE
  BY <1>2, <1>6 DEF PostAdmit, DeskAdmit, Starts, TypeOK
<1>7. PostCount(q) /\ HasRoom(req[q].of) /\ req'[q] = HasCounted(q)
  BY <1>2, <1>4, <1>5, <1>6, RequestSteps
<1>8. req[q].of = b
  BY <1>2, <1>3, <1>7 DEF HasCounted, Reqs
<1> QED
  BY <1>7, <1>8 DEF PostCount

LEMMA InsertKeepsRoom ==
  ASSUME TypeOK, NEW b \in Bookings, Room(b), NEW q \in Requests, Insert(q)
  PROVE  Room(b)'
<1> DEFINE g == [of |-> req[q].of, via |-> req[q].via, until |-> req[q].until,
                 full |-> TRUE, late |-> req[q].of \in stripped]
<1>1. PICK i \in Ids \ Taken : guests' = [guests EXCEPT ![i] = g]
  BY DEF Insert
<1>2. g.of = req[q].of /\ g.via = req[q].via /\ req[q].of \in Bookings
  BY DEF Insert, At, TypeOK
<1> HIDE DEF g
<1>3. guests'[i] = g /\ \A j \in Ids \ {i} : guests'[j] = guests[j]
  BY <1>1 DEF TypeOK
<1>4. LinkGuests(b)' \subseteq LinkGuests(b) \cup (IF g.of = b /\ g.via = "link" THEN {i} ELSE {})
  BY <1>3 DEF LinkGuests, GuestsOf, Taken
<1>5. req' = [req EXCEPT ![q] = NoReq] /\ NoReq.pc = "idle" /\ req[q].pc = "inserting"
  BY DEF Insert, NoReq, At
<1>6. Counted(b)' \subseteq Counted(b) \ {q}
  BY <1>5 DEF Counted, At, TypeOK
<1>7. CASE ~(g.of = b /\ g.via = "link")
  BY <1>4, <1>6, <1>7, RoomStays
<1>8. CASE g.of = b /\ g.via = "link"
  <2>1. q \in Counted(b)
    BY <1>2, <1>5, <1>8 DEF Counted, At
  <2>2. i \notin LinkGuests(b)
    BY <1>1 DEF LinkGuests, GuestsOf
  <2> DEFINE G == LinkGuests(b)
  <2> DEFINE C == Counted(b)
  <2>3. /\ IsFiniteSet(G) /\ Cardinality(G) \in Nat /\ IsFiniteSet(C) /\ Cardinality(C) \in Nat
        /\ Cardinality(Requests) \in Nat /\ NumGuests[b] \in Nat
    BY FewCounted, Parameters
  <2>4. LinkGuests(b)' \subseteq G \cup {i} /\ Counted(b)' \subseteq C \ {q} /\ q \in C /\ i \notin G
    BY <1>4, <1>6, <1>8, <2>1, <2>2
  <2>5. Cardinality(G) + Cardinality(C) <= NumGuests[b] + Cardinality(Requests) - 1
    BY DEF Room
  <2> HIDE DEF G, C
  <2>6. IsFiniteSet(G \cup {i}) /\ Cardinality(G \cup {i}) = Cardinality(G) + 1
    BY <2>3, <2>4, FS_AddElement
  <2>7. IsFiniteSet(C \ {q}) /\ Cardinality(C \ {q}) = Cardinality(C) - 1
    BY <2>3, <2>4, FS_RemoveElement
  <2>8. /\ IsFiniteSet(LinkGuests(b)') /\ Cardinality(LinkGuests(b)') <= Cardinality(G) + 1
        /\ IsFiniteSet(Counted(b)') /\ Cardinality(Counted(b)') <= Cardinality(C) - 1
    BY <2>4, <2>6, <2>7, FS_Subset
  <2>9. Cardinality(LinkGuests(b)') \in Nat /\ Cardinality(Counted(b)') \in Nat
    BY <2>8, FS_CardinalityType
  <2> QED
    BY <2>3, <2>5, <2>8, <2>9 DEF Room
<1> QED
  BY <1>7, <1>8

LEMMA RosterCapacityStep ==
  ASSUME TypeOK, RosterCapacity, [Next]_vars
  PROVE  RosterCapacity'
<1> SUFFICES ASSUME NEW b \in Bookings
             PROVE  Room(b)'
  BY DEF RosterCapacity, Room
<1>1. Room(b)
  BY DEF RosterCapacity, Room
<1>2. ASSUME NEW q \in Requests, Insert(q)
      PROVE  Room(b)'
  BY <1>1, <1>2, InsertKeepsRoom
<1>3. ASSUME \A q \in Requests : ~Insert(q)
      PROVE  LinkGuests(b)' \subseteq LinkGuests(b)
  <2>1. CASE Thinned
    BY <2>1 DEF Thinned, LinkGuests, GuestsOf, Taken
  <2>2. ASSUME NEW p \in Purges, PurgeNull(p)
        PROVE  LinkGuests(b)' \subseteq LinkGuests(b)
    BY <2>2, NulledFields DEF LinkGuests, GuestsOf, Taken
  <2> QED
    BY <1>3, <2>1, <2>2, RosterSteps
<1>4. ASSUME HasRoom(b), UNCHANGED guests
      PROVE  Room(b)'
  <2>1. Cardinality(GuestsOf(b)) < NumGuests[b] /\ NumGuests[b] \in Nat
    BY <1>4, Parameters DEF HasRoom
  <2>2. /\ Cardinality(LinkGuests(b)) \in Nat /\ Cardinality(GuestsOf(b)) \in Nat
        /\ Cardinality(LinkGuests(b)) <= Cardinality(GuestsOf(b)) /\ Cardinality(Requests) \in Nat
    BY FewCounted
  <2>3. LinkGuests(b)' = LinkGuests(b)
    BY <1>4 DEF LinkGuests, GuestsOf, Taken
  <2>4. Counted(b)' \subseteq Requests
    BY DEF Counted
  <2>5. IsFiniteSet(Counted(b)') /\ Cardinality(Counted(b)') <= Cardinality(Requests)
    BY <2>4, FS_Subset, RosterActors
  <2>6. Cardinality(Counted(b)') \in Nat
    BY <2>5, FS_CardinalityType
  <2> QED
    BY <2>1, <2>2, <2>3, <2>5, <2>6 DEF Room
<1> QED
  BY <1>1, <1>2, <1>3, <1>4, CountedSteps, RoomStays

-----------------------------------------------------------------------------
(* The invariant.                                                           *)

LEMMA NothingAtFirst ==
  ASSUME Init
  PROVE  IInv
<1> USE Parameters
<1>1. Taken = {}
  BY DEF Init, Taken
<1>2. /\ \A q \in Requests : req[q] = NoReq
      /\ \A p \in Purges : purge[p] = NoPurge
      /\ purged = {} /\ stripped = {} /\ clock = 0
  BY DEF Init
<1>3. TypeOK
  <2>1. /\ row \in [Bookings -> {"pending", "confirmed", "closed", "gone"}]
        /\ end \in [Bookings -> Nat] /\ links \in [Bookings -> SUBSET Nat]
    <3>1. row \in [Bookings -> {"pending", "confirmed", "closed", "gone"}]
      <4>1. row \in [Bookings -> {"pending", "confirmed"}]
        BY DEF Init
      <4> QED
        BY <4>1
    <3>2. end \in [Bookings -> Nat]
      BY RosterDates DEF Init
    <3>3. links = [b \in Bookings |-> IF row[b] = "confirmed" THEN {End[b]} ELSE {}]
      BY DEF Init
    <3>4. \A b \in Bookings :
            (IF row[b] = "confirmed" THEN {End[b]} ELSE {}) \in SUBSET Nat
      OBVIOUS
    <3> QED
      BY <3>1, <3>2, <3>3, <3>4
  <2>2. /\ guests \in [Ids -> Guest \cup {NoGuest}]
        /\ \A i \in Taken : row[guests[i].of] # "gone"
    BY <1>1 DEF Init
  <2>3. /\ req \in [Requests -> [pc : {"idle", "admitted", "inserting"}, via : Route,
                                  of : Bookings \cup {NoBooking}, until : Nat, since : 0..clock]]
        /\ \A q \in Requests : req[q].pc # "idle" => req[q].of \in Bookings
    BY DEF Init, NoReq, Route
  <2>4. purge \in [Purges -> [pc : {"idle", "selecting", "nulling", "marking"},
                              cutoff : Int, due : SUBSET Bookings]]
    BY DEF Init, NoPurge
  <2>5. backlog \in [Purges -> SUBSET Bookings] /\ upTo \in [Bookings -> Int]
    BY DEF Init
  <2>6. /\ clock \in 0..LastTick /\ deaths \in 0..MaxDeaths
        /\ purged \subseteq Bookings /\ stripped \subseteq Bookings
    BY DEF Init
  <2> QED
    BY <2>1, <2>2, <2>3, <2>4, <2>5, <2>6 DEF TypeOK
<1>4. LinksTimely /\ StaysFixed
  BY <1>2 DEF Init, LinksTimely, StaysFixed, At, NoReq
<1>5. PurgesTimely /\ MarkedIsStripped /\ BatchesWhole
  BY <1>2 DEF Init, PurgesTimely, MarkedIsStripped, BatchesWhole, NoPurge
<1>6. StrippedIsLate
  BY <1>1 DEF StrippedIsLate
<1>7. ASSUME NEW b \in Bookings
      PROVE  Cardinality(LinkGuests(b)) + Cardinality(Counted(b))
               <= NumGuests[b] + Cardinality(Requests) - 1
  <2>1. LinkGuests(b) = {} /\ Counted(b) = {}
    BY <1>1, <1>2 DEF LinkGuests, GuestsOf, Counted, At, NoReq
  <2>2. Cardinality(LinkGuests(b)) = 0 /\ Cardinality(Counted(b)) = 0
    BY <2>1, FS_EmptySet
  <2>3. Cardinality(Requests) \in Nat
    BY FewCounted
  <2> QED
    BY <2>2, <2>3
<1> QED
  BY <1>3, <1>4, <1>5, <1>6, <1>7 DEF IInv, RosterCapacity

(* Every state keeps the invariant: types; stays that only the sync moves;   *)
(* requests timely by the link they show; runs timely; what is marked was    *)
(* nulled and what is whole after that came late; small batches are whole;   *)
(* room.                                                                     *)
THEOREM Invariance == Spec => []IInv
<1>1. Init => IInv
  BY NothingAtFirst
<1>2. IInv /\ [Next]_vars => IInv'
  <2> SUFFICES ASSUME IInv, [Next]_vars
               PROVE  IInv'
    OBVIOUS
  <2>1. TypeOK /\ StaysFixed /\ LinksTimely /\ PurgesTimely
    BY DEF IInv
  <2>2. MarkedIsStripped /\ StrippedIsLate /\ BatchesWhole /\ RosterCapacity
    BY DEF IInv
  <2>3. TypeOK' /\ StaysFixed' /\ LinksTimely' /\ PurgesTimely'
    BY <2>1, TypeStep, StaysFixedStep, LinksTimelyStep, PurgesTimelyStep
  <2>4. MarkedIsStripped' /\ StrippedIsLate'
    BY <2>1, <2>2, MarkedIsStrippedStep, StrippedIsLateStep
  <2>5. BatchesWhole' /\ RosterCapacity'
    BY <2>1, <2>2, BatchesWholeStep, RosterCapacityStep
  <2> QED
    BY <2>3, <2>4, <2>5 DEF IInv
<1> QED
  BY <1>1, <1>2, PTL DEF Spec

(* The variables keep their types: no guest of a booking that is gone.      *)
THEOREM TypeCorrect == Spec => []TypeOK
<1>1. IInv => TypeOK
  BY DEF IInv
<1> QED
  BY <1>1, Invariance, PTL

(* The link lets in at most as many over the number as requests overlap.    *)
THEOREM RosterCapacityHolds == Spec => []RosterCapacity
<1>1. IInv => RosterCapacity
  BY DEF IInv
<1> QED
  BY <1>1, Invariance, PTL

(* A full identity of a purged booking came after the purge, at the desk or  *)
(* by a link issued for a later check-out than the purge went by.            *)
THEOREM PurgeLeavesNamesHolds == Spec => []PurgeLeavesNames
<1>1. IInv => PurgeLeavesNames
  BY DEF IInv, MarkedIsStripped, StrippedIsLate, LateGuest, PurgeLeavesNames
<1> QED
  BY <1>1, Invariance, PTL

(* A purge that ran to its end has marked all that was due when it began     *)
(* and stayed so.                                                            *)
THEOREM PurgeCompleteHolds == Spec => PurgeComplete
<1>1. IInv /\ [Next]_vars =>
        [\A p \in Purges :
           purge[p].pc # "idle" /\ purge'[p].pc = "idle" /\ deaths' = deaths =>
             \A b \in backlog[p] : b \in purged' \/ row'[b] = "gone"]_vars
  BY RunEnds DEF IInv
<1> QED
  BY <1>1, Invariance, PTL DEF Spec, PurgeComplete

(* With one grace day every link works for as long as a guest may be there,  *)
(* unless the sync extended the stay after the link was issued.              *)
THEOREM LinkLivesThroughStayHolds ==
  ASSUME Grace > 0
  PROVE  Spec => []LinkLivesThroughStay
<1>1. IInv => LinkLivesThroughStay
  <2> SUFFICES ASSUME IInv, NEW b \in Bookings
               PROVE  /\ row[b] = "confirmed" /\ SofiaDay <= end[b] =>
                           \A e \in links[b] : Authenticates(b, e) \/ Outrun(b, e)
                      /\ HandsOutLink(b) /\ ~LinkLives(end[b]) => UtcDay = end[b] + Grace
    BY DEF LinkLivesThroughStay
  <2>1. clock \in Nat /\ end[b] \in Nat /\ Grace \in Nat /\ links[b] \subseteq Nat
    BY Parameters DEF IInv, TypeOK
  <2>2. ASSUME NEW e \in links[b], row[b] = "confirmed", SofiaDay <= end[b],
               ~Authenticates(b, e)
        PROVE  Outrun(b, e)
    <3>1. e \in Nat /\ ~(clock < 2 * (e + Grace))
      BY <2>1, <2>2 DEF Authenticates, LinkLives
    <3>2. e + Grace <= end[b]
      BY <2>1, <2>2, <3>1 DEF SofiaDay
    <3>3. b \notin Imported => e = end[b]
      BY DEF IInv, StaysFixed
    <3> QED
      BY <2>1, <3>1, <3>2, <3>3 DEF Outrun
  <2>3. UtcDay <= end[b] + Grace /\ ~LinkLives(end[b]) => UtcDay = end[b] + Grace
    BY <2>1 DEF UtcDay, LinkLives
  <2> QED
    BY <2>2, <2>3 DEF HandsOutLink
<1> QED
  BY <1>1, Invariance, PTL
=============================================================================
