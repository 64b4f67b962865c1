----------------------------- MODULE GuestRoster -----------------------------
(***************************************************************************)
(* The identities of a booking's guests: those who hold the check-in link   *)
(* add and clear them, admins add and delete them, and the purge job takes  *)
(* everything but the names out of them once the reporting window is over   *)
(* and marks the booking as purged.  The calendar sync moves the check-out   *)
(* of imported bookings, while a link keeps the expiry it was issued with.   *)
(*                                                                          *)
(* The clock counts half days, so that it tells the day in UTC, in which    *)
(* links expire, from the day in Sofia, which begins earlier and by which   *)
(* the purge goes.                                                          *)
(***************************************************************************)
EXTENDS Integers, FiniteSets

CONSTANTS
  Bookings,
  Ids,         \* bound: the identities there may be at once
  Imported,    \* the bookings that came with a calendar feed
  Requests,    \* requests that add a guest, through the link or at an admin's desk
  Purges,      \* purge runs that may be under way at once
  End,         \* End[b]: the day of check-out at first
  Ends,        \* the check-outs a feed or a sync may give
  NumGuests,   \* NumGuests[b]
  Grace,       \* CHECKIN_TOKEN_GRACE_DAYS
  Window,      \* BOOKING_PURGE_WINDOW_DAYS
  BatchSize,   \* rows per batch of the purge
  LastTick,    \* bound: the last half day
  Patience,    \* bound: half days a request may be under way
  MaxDeaths,   \* bound: how often a purge run dies
  NoGuest, NoBooking

Route == {"link", "desk"}
Guest == [of : Bookings, via : Route, until : Nat, full : BOOLEAN, late : BOOLEAN]

ASSUME RosterDates  == /\ End \in [Bookings -> Nat] /\ NumGuests \in [Bookings -> Nat \ {0}]
                       /\ Ends \subseteq Nat
                       /\ {Grace, Window, LastTick, Patience, MaxDeaths} \subseteq Nat
ASSUME RosterActors == /\ BatchSize \in Nat \ {0}
                       /\ IsFiniteSet(Bookings) /\ IsFiniteSet(Ids) /\ IsFiniteSet(Requests)
                       /\ NoGuest \notin Guest /\ NoBooking \notin Bookings
ASSUME LinksDieFirst == 2 * Grace + Patience < 2 * Window

VARIABLES
  clock,    \* half days
  row,      \* each booking: pending, confirmed, closed (any other status), gone
  end,      \* end[b]: the day of check-out
  links,    \* links[b]: the check-outs on the links of b that somebody may hold
  guests,   \* the guest_identities table
  purged,   \* guest_data_purged_at is set
  req,      \* each request that adds a guest: where it is, for whom, since when
  purge,    \* each purge run: where it is, its cutoff, its batch
  backlog,  \* history: what was due when the run began and has been since
  stripped, \* history: bookings whose identities a purge has nulled
  upTo,     \* history: the cutoff of the run that did so last
  deaths    \* how many purge runs died

stays   == <<row, end, links>>
history == <<backlog, stripped, upTo>>
vars == <<clock, stays, guests, purged, req, purge, history, deaths>>

NoReq   == [pc |-> "idle", via |-> "link", of |-> NoBooking, until |-> 0, since |-> 0]
NoPurge == [pc |-> "idle", cutoff |-> 0, due |-> {}]

Taken == { i \in Ids : guests[i] # NoGuest }
GuestsOf(b) == { i \in Taken : guests[i].of = b }

TypeOK ==
  /\ clock \in 0..LastTick
  /\ row \in [Bookings -> {"pending", "confirmed", "closed", "gone"}]
  /\ end \in [Bookings -> Nat] /\ links \in [Bookings -> SUBSET Nat]
  /\ guests \in [Ids -> Guest \cup {NoGuest}]
  /\ \A i \in Taken : row[guests[i].of] # "gone"
  /\ purged \subseteq Bookings /\ stripped \subseteq Bookings
  /\ req \in [Requests -> [pc : {"idle", "admitted", "inserting"}, via : Route,
                           of : Bookings \cup {NoBooking}, until : Nat, since : 0..clock]]
  /\ \A q \in Requests : req[q].pc # "idle" => req[q].of \in Bookings
  /\ purge \in [Purges -> [pc : {"idle", "selecting", "nulling", "marking"},
                           cutoff : Int, due : SUBSET Bookings]]
  /\ backlog \in [Purges -> SUBSET Bookings] /\ upTo \in [Bookings -> Int]
  /\ deaths \in 0..MaxDeaths

Init ==
  /\ clock = 0
  /\ row \in [Bookings -> {"pending", "confirmed"}]
  /\ \A b \in Imported \cap Bookings : row[b] = "confirmed"
  /\ end = End
  /\ links = [b \in Bookings |-> IF row[b] = "confirmed" THEN {End[b]} ELSE {}]
  /\ guests = [i \in Ids |-> NoGuest]
  /\ purged = {} /\ stripped = {}
  /\ backlog = [p \in Purges |-> {}] /\ upTo = [b \in Bookings |-> 0]
  /\ req = [q \in Requests |-> NoReq]
  /\ purge = [p \in Purges |-> NoPurge]
  /\ deaths = 0

-----------------------------------------------------------------------------
(* Days, links and the booking around the roster.                           *)

UtcDay   == clock \div 2
SofiaDay == (clock + 1) \div 2

(* A slip: the expiry leaves out the grace days.                            *)
LinkLivesNoGrace(e) == clock < 2 * e

(* exp is the first instant, in UTC, of the last grace day after the         *)
(* check-out e that the booking had when the link was issued.                *)
LinkLives(e) == clock < 2 * (e + Grace)

(* A confirmed booking's link is mailed by the dispatch, and handed out to   *)
(* the guest and to admins at any time; it is signed and not stored.         *)
MayBeLinked ==
  links' = [b \in Bookings |-> links[b] \cup (IF row'[b] = "confirmed" THEN {end'[b]} ELSE {})]

(* A PATCH saves blindly, so any status may follow any other; it refuses     *)
(* imported bookings.                                                       *)
SetStatus(b) ==
  /\ b \notin Imported /\ row[b] # "gone"
  /\ \E s \in {"confirmed", "closed"} : row' = [row EXCEPT ![b] = s]
  /\ UNCHANGED end /\ MayBeLinked
  /\ UNCHANGED <<clock, guests, purged, req, purge, history, deaths>>

(* What a statement of the sync does to an imported booking: it cancels it,  *)
(* gives it the dates of the feed and confirms it, or ends it on the day on   *)
(* which the sync began.                                                    *)
SyncStatement(b) ==
  /\ b \in Imported /\ row[b] # "gone"
  /\ \/ row' = [row EXCEPT ![b] = "closed"] /\ UNCHANGED end
     \/ /\ row' = [row EXCEPT ![b] = "confirmed"]
        /\ \E d \in Ends : end' = [end EXCEPT ![b] = d]
     \/ /\ UNCHANGED row
        /\ \E d \in Ends : d <= SofiaDay /\ end' = [end EXCEPT ![b] = d]
  /\ MayBeLinked
  /\ backlog' = [p \in Purges |-> { c \in backlog[p] : end'[c] <= purge[p].cutoff }]
  /\ UNCHANGED <<clock, guests, purged, req, purge, stripped, upTo, deaths>>

(* A slip: the foreign key does not cascade.                                *)
DeleteBookingOnly(b) ==
  /\ row[b] # "gone"
  /\ row' = [row EXCEPT ![b] = "gone"]
  /\ UNCHANGED <<clock, end, links, guests, purged, req, purge, history, deaths>>

(* The foreign key cascades.                                                *)
DeleteBooking(b) ==
  /\ row[b] # "gone"
  /\ row' = [row EXCEPT ![b] = "gone"]
  /\ guests' = [i \in Ids |-> IF i \in GuestsOf(b) THEN NoGuest ELSE guests[i]]
  /\ UNCHANGED <<clock, end, links, purged, req, purge, history, deaths>>

(* GET /bookings/{id}/checkin-link compares days, not the expiry.           *)
HandsOutLink(b) == row[b] = "confirmed" /\ UtcDay <= end[b] + Grace

(* get_booking_from_checkin_token: the expiry on the link and the status of  *)
(* the booking count, not its dates.                                         *)
Authenticates(b, e) == e \in links[b] /\ LinkLives(e) /\ row[b] = "confirmed"

-----------------------------------------------------------------------------
(* Guests come and go.                                                      *)

At(q, pc) == req[q].pc = pc

Starts(q, pc, via, b, e) ==
  req' = [req EXCEPT ![q] = [pc |-> pc, via |-> via, of |-> b, until |-> e, since |-> clock]]

PostAdmit(q, b, e) ==
  /\ At(q, "idle")
  /\ Authenticates(b, e)
  /\ Starts(q, "admitted", "link", b, e)
  /\ UNCHANGED <<clock, stays, guests, purged, purge, history, deaths>>

(* A slip: the comparison lets one more in.                                 *)
HasRoomForOneMore(b) == Cardinality(GuestsOf(b)) <= NumGuests[b]

HasRoom(b) == Cardinality(GuestsOf(b)) < NumGuests[b]

(* 409 when the count finds the roster full.                                *)
PostCount(q) ==
  LET b == req[q].of IN
  /\ At(q, "admitted")
  /\ req' = [req EXCEPT ![q] = IF HasRoom(b) THEN [@ EXCEPT !.pc = "inserting"] ELSE NoReq]
  /\ UNCHANGED <<clock, stays, guests, purged, purge, history, deaths>>

(* The admin route looks at the status only.                                *)
DeskAdmit(q, b) ==
  /\ At(q, "idle")
  /\ row[b] \in {"pending", "confirmed"}
  /\ Starts(q, "inserting", "desk", b, 0)
  /\ UNCHANGED <<clock, stays, guests, purged, purge, history, deaths>>

Insert(q) ==
  LET b == req[q].of IN
  /\ At(q, "inserting")
  /\ row[b] # "gone"
  /\ \E i \in Ids \ Taken :
       /\ \A j \in Ids \ Taken : i <= j
       /\ guests' = [guests EXCEPT ![i] =
                       [of |-> b, via |-> req[q].via, until |-> req[q].until,
                        full |-> TRUE, late |-> b \in stripped]]
  /\ req' = [req EXCEPT ![q] = NoReq]
  /\ UNCHANGED <<clock, stays, purged, purge, history, deaths>>

(* The foreign key is broken by a deletion, the database fails, or the      *)
(* process dies.                                                            *)
RequestFails(q) ==
  /\ ~At(q, "idle")
  /\ req' = [req EXCEPT ![q] = NoReq]
  /\ UNCHANGED <<clock, stays, guests, purged, purge, history, deaths>>

(* DELETE by id and booking, through the link or by an admin.               *)
Remove(i) ==
  /\ i \in Taken
  /\ guests' = [guests EXCEPT ![i] = NoGuest]
  /\ UNCHANGED <<clock, stays, purged, req, purge, history, deaths>>

ClearGuest(b, i) == (\E e \in links[b] : Authenticates(b, e)) /\ i \in GuestsOf(b) /\ Remove(i)

AdminDelete(i) == Remove(i)

-----------------------------------------------------------------------------
(* purge_guest_identities                                                   *)

Present(b) == row[b] # "gone"

(* Slips: any day will do; purged bookings come up again.                   *)
PurgeDueAnyDay(b, cutoff) == Present(b) /\ b \notin purged
PurgeDueAgain(b, cutoff) == Present(b) /\ end[b] <= cutoff

PurgeDue(b, cutoff) == Present(b) /\ end[b] <= cutoff /\ b \notin purged

PurgeStart(p) ==
  /\ purge[p].pc = "idle"
  /\ purge' = [purge EXCEPT ![p] =
                 [pc |-> "selecting", cutoff |-> SofiaDay - Window, due |-> {}]]
  /\ backlog' = [backlog EXCEPT ![p] = { b \in Bookings : PurgeDue(b, SofiaDay - Window) }]
  /\ UNCHANGED <<clock, stays, guests, purged, req, stripped, upTo, deaths>>

PurgeBatches(p) ==
  LET due == { b \in Bookings : PurgeDue(b, purge[p].cutoff) } IN
  { d \in SUBSET due :
      IF Cardinality(due) <= BatchSize THEN d = due ELSE Cardinality(d) = BatchSize }

(* A run that is over leaves nothing behind of itself.                      *)
RunBecomes(p, r) ==
  /\ purge' = [purge EXCEPT ![p] = r]
  /\ backlog' = [backlog EXCEPT ![p] = IF r = NoPurge THEN {} ELSE @]

PurgeSelect(p) ==
  /\ purge[p].pc = "selecting"
  /\ \E d \in PurgeBatches(p) :
       RunBecomes(p, IF d = {} THEN NoPurge ELSE [purge[p] EXCEPT !.pc = "nulling", !.due = d])
  /\ UNCHANGED <<clock, stays, guests, purged, req, stripped, upTo, deaths>>

(* _PURGE_FIELDS: everything but the names becomes null.                    *)
PurgeNull(p) ==
  /\ purge[p].pc = "nulling"
  /\ guests' = [i \in Ids |->
                  IF i \in Taken /\ guests[i].of \in purge[p].due
                  THEN [guests[i] EXCEPT !.full = FALSE, !.late = FALSE] ELSE guests[i]]
  /\ stripped' = stripped \cup purge[p].due
  /\ upTo' = [b \in Bookings |-> IF b \in purge[p].due THEN purge[p].cutoff ELSE upTo[b]]
  /\ purge' = [purge EXCEPT ![p] = [@ EXCEPT !.pc = "marking"]]
  /\ UNCHANGED <<clock, stays, purged, req, backlog, deaths>>

(* A slip: one batch and no more.                                           *)
AfterBatchOnce(p) == NoPurge

AfterBatch(p) ==
  IF Cardinality(purge[p].due) < BatchSize THEN NoPurge
  ELSE [purge[p] EXCEPT !.pc = "selecting", !.due = {}]

PurgeMark(p) ==
  /\ purge[p].pc = "marking"
  /\ purged' = purged \cup { b \in purge[p].due : Present(b) }
  /\ RunBecomes(p, AfterBatch(p))
  /\ UNCHANGED <<clock, stays, guests, req, stripped, upTo, deaths>>

PurgeDies(p) ==
  /\ purge[p].pc # "idle"
  /\ deaths < MaxDeaths
  /\ deaths' = deaths + 1
  /\ RunBecomes(p, NoPurge)
  /\ UNCHANGED <<clock, stays, guests, purged, req, stripped, upTo>>

-----------------------------------------------------------------------------

Tick ==
  /\ clock < LastTick
  /\ \A q \in Requests : At(q, "idle") \/ clock - req[q].since < Patience
  /\ clock' = clock + 1
  /\ UNCHANGED <<stays, guests, purged, req, purge, history, deaths>>

PurgeStep(p) == PurgeStart(p) \/ PurgeSelect(p) \/ PurgeNull(p) \/ PurgeMark(p)

Next ==
  \/ \E b \in Bookings : SetStatus(b) \/ SyncStatement(b) \/ DeleteBooking(b)
  \/ \E q \in Requests : PostCount(q) \/ Insert(q) \/ RequestFails(q)
  \/ \E q \in Requests, b \in Bookings :
       DeskAdmit(q, b) \/ \E e \in links[b] : PostAdmit(q, b, e)
  \/ \E b \in Bookings, i \in Ids : ClearGuest(b, i)
  \/ \E i \in Ids : AdminDelete(i)
  \/ \E p \in Purges : PurgeStep(p) \/ PurgeDies(p)
  \/ Tick

(* The cron job keeps coming back, and a run it starts goes on or dies.     *)
Fairness == \A p \in Purges : WF_vars(PurgeStep(p))

Spec == Init /\ [][Next]_vars /\ Fairness

-----------------------------------------------------------------------------
(* Properties.                                                              *)

LinkGuests(b) == { i \in GuestsOf(b) : guests[i].via = "link" }

(* Link requests for b that have counted and not inserted.                  *)
Counted(b) == { q \in Requests : At(q, "inserting") /\ req[q].of = b /\ req[q].via = "link" }

(* The count and the insert are two statements: the link lets in at most as *)
(* many guests over the booking's number as requests overlap, so none when  *)
(* they come one at a time, whatever admins add and guests clear meanwhile. *)
RosterCapacity ==
  \A b \in Bookings :
    Cardinality(LinkGuests(b)) + Cardinality(Counted(b))
      <= NumGuests[b] + Cardinality(Requests) - 1

(* Only names survive a purge: the full identities of a booking that is     *)
(* marked, which no later run will look at, came after the purge had nulled *)
(* the others.  They were typed in at the desk, or came through a link that  *)
(* was issued for a later check-out than the purge went by: the stay must   *)
(* have been moved by the sync.  Every other link has died before.          *)
PurgeLeavesNames ==
  \A i \in Taken :
    LET g == guests[i] IN
    g.of \in purged /\ g.full =>
      g.late /\ (g.via = "desk" \/ (g.of \in Imported /\ g.until > upTo[g.of]))

(* What the purge's own comment says: only names survive.                   *)
OnlyNamesSurvive == \A i \in Taken : guests[i].of \in purged => ~guests[i].full

(* A purge that ran to its end left nothing unmarked that was due when it   *)
(* began and stayed so, in however many batches and beside whatever other   *)
(* run.                                                                     *)
PurgeComplete ==
  [][ \A p \in Purges :
        purge[p].pc # "idle" /\ purge'[p].pc = "idle" /\ deaths' = deaths =>
          \A b \in backlog[p] : b \in purged' \/ row'[b] = "gone" ]_vars

(* While a guest may be in the house every link of the confirmed booking     *)
(* works, unless the sync extended the stay, by the grace days or more, after *)
(* it was issued.  The endpoint and the token disagree about the expiry on    *)
(* one day only: a link handed out may be dead on the last grace day, never   *)
(* before.                                                                   *)
Outrun(b, e) == b \in Imported /\ e + Grace <= end[b]

LinkLivesThroughStay ==
  \A b \in Bookings :
    /\ row[b] = "confirmed" /\ SofiaDay <= end[b] =>
         \A e \in links[b] : Authenticates(b, e) \/ Outrun(b, e)
    /\ HandsOutLink(b) /\ ~LinkLives(end[b]) => UtcDay = end[b] + Grace

(* Whatever was in the table when the window closed is nulled or deleted in *)
(* the end, though purge runs die between their statements.                 *)
Overdue(i) ==
  i \in Taken /\ guests[i].full /\ ~guests[i].late /\ SofiaDay >= end[guests[i].of] + Window
IdentitiesExpire == \A i \in Ids : Overdue(i) ~> ~Overdue(i)
=============================================================================
