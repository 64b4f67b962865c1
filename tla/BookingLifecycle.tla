-------------------------- MODULE BookingLifecycle --------------------------
(***************************************************************************)
(* The life of a booking: POST /bookings/ up to the commit of its row,     *)
(* PATCH /bookings/{id}/status, DELETE, and the statements by which the    *)
(* calendar sync writes imported rows.  A handler is a process that can be *)
(* overtaken at every await, so each handler is cut into one action per    *)
(* database statement or group of remote calls.                            *)
(*                                                                         *)
(* The database is Postgres at READ COMMITTED: a statement sees the rows   *)
(* committed when it starts.                                               *)
(***************************************************************************)
EXTENDS Stays, FiniteSets

CONSTANTS
  Bookings,      \* create requests; each inserts at most one row, under its id
  Imports,       \* external UIDs of the calendar feeds
  Updates,       \* PATCH requests
  Properties,
  Users,
  ChannelGuest,  \* the sentinel user of imported rows
  Owner,         \* Owner[p]: the owner properties-ms reports for p
  Scopes,        \* Scopes[u]: the booking scopes in u's headers
  Settings,      \* Settings[p]: the booking rules properties-ms reports for p
  Blocked,       \* Blocked[p]: the unavailabilities properties-ms reports for p
  Offers,        \* the stays that are requested or imported
  Horizon,       \* bound: the last date a stay may end on
  LastToday,     \* bound: the last day the clock reaches
  NoRow, NoRequest, NoCall

Day  == 0 .. Horizon
Rows == Bookings \cup Imports

BookingScope == {"write", "cancel", "manage", "admin", "admin_write"}

PropertySettings ==
  [ window : Nat, minNights : Nat, gapFiller : BOOLEAN,
    lastMinute : Nat, adjacentOnly : BOOLEAN ]

Row ==
  [ property : Properties, owner : Users, guest : Users \cup {ChannelGuest},
    channel : {"platform", "imported"}, from : Day, to : Day, status : Status ]

Notice == [booking : Rows, kind : {"created", "confirmed", "cancelled", "checkin"}]

Request == [property : Properties, guest : Users, from : Day, to : Day]

Call == [booking : Rows, user : Users, target : Status, seen : Row, day : Day]

ASSUME HorizonAssumption  == Horizon \in Nat /\ LastToday \in Day
ASSUME OwnerAssumption    == Owner \in [Properties -> Users]
ASSUME ScopesAssumption   == Scopes \in [Users -> SUBSET BookingScope]
ASSUME SettingsAssumption == Settings \in [Properties -> PropertySettings]
ASSUME OffersAssumption   == Offers \subseteq StaysOver(Day)
ASSUME BlockedAssumption  == Blocked \in [Properties -> SUBSET StaysOver(Day)]
ASSUME DisjointAssumption == Bookings \cap Imports = {}
ASSUME NullAssumption     == /\ NoRow \notin Row
                             /\ NoRequest \notin Request
                             /\ NoCall \notin Call

VARIABLES
  today,
  table,      \* the bookings table
  stage,      \* where each create request is
  request,    \* its payload, once accepted
  step,       \* where each PATCH request is
  call,       \* its payload, the booking it read and the day it read it
  refund,     \* what it asked of payments-ms: percent of the price and why
  notices,    \* mails and check-in dispatches handed to create_task
  unseen,     \* history: pairs of rows written without seeing one another
  contested,  \* history: bookings with two PATCHes between read and save at once
  overwrote   \* history: the status each PATCH's save replaced

createVars  == <<stage, request>>
patchVars   == <<step, call, refund>>
historyVars == <<unseen, contested, overwrote>>
vars == <<today, table, createVars, patchVars, notices, historyVars>>

-----------------------------------------------------------------------------
(* Reading the table.                                                      *)

Stored(x) == table[x] # NoRow
Active(x) == Stored(x) /\ table[x].status \in ActiveStatus

OccupiedSlots(p) ==
  { [from |-> table[x].from, to |-> table[x].to] :
      x \in { y \in Rows : Active(y) /\ table[y].property = p } }

(* A slip: only confirmed stays are in the way.                             *)
HasConflictWithConfirmed(p, stay) ==
  \E x \in Rows : /\ Stored(x) /\ table[x].status = "confirmed" /\ table[x].property = p
                  /\ Overlaps(table[x], stay)

HasConflict(p, stay) == \E slot \in OccupiedSlots(p) : Overlaps(slot, stay)

-----------------------------------------------------------------------------
(* POST /bookings/                                                         *)

CreateStage ==
  {"idle", "gap", "quoting", "quoted", "checked", "stored", "done", "refused", "conflict"}

CreateMoves(b, from, to) == stage[b] = from /\ stage' = [stage EXCEPT ![b] = to]

IsShort(r) == NightCount(r) < Settings[r.property].minNights

InWindow(r)     == r.from <= today + Settings[r.property].window
IsLastMinute(r) == r.from - today <= Settings[r.property].lastMinute
LengthAllowed(r) ==
  IsShort(r) => Settings[r.property].gapFiller /\ IsLastMinute(r)
NeedsNeighbours(r) == IsShort(r) /\ Settings[r.property].adjacentOnly

(* get_property answers with the active property; then the window and the  *)
(* length of the stay are checked with no await in between.                *)
CreateRequest(b) ==
  /\ \E p \in Properties, u \in Users, s \in Offers :
       LET r == [property |-> p, guest |-> u, from |-> s.from, to |-> s.to] IN
       /\ "write" \in Scopes[u]
       /\ InWindow(r) /\ LengthAllowed(r)
       /\ CreateMoves(b, "idle", IF NeedsNeighbours(r) THEN "gap" ELSE "quoting")
       /\ request' = [request EXCEPT ![b] = r]
  /\ UNCHANGED <<today, table, patchVars, notices, historyVars>>

(* A short stay must touch an occupied slot on each side.                  *)
CreateGapCheck(b) ==
  /\ stage[b] = "gap"
  /\ LET slots   == OccupiedSlots(request[b].property)
         touches == /\ \E s \in slots : s.to = request[b].from
                    /\ \E s \in slots : s.from = request[b].to
     IN  CreateMoves(b, "gap", IF touches THEN "quoting" ELSE "refused")
  /\ UNCHANGED <<today, table, request, patchVars, notices, historyVars>>

(* get_unavailabilities and the pricing resolver answer; the stay must not *)
(* overlap an unavailability.                                              *)
CreateQuote(b) ==
  /\ CreateMoves(b, "quoting", "quoted")
  /\ \A w \in Blocked[request[b].property] : ~Overlaps(request[b], w)
  /\ UNCHANGED <<today, table, request, patchVars, notices, historyVars>>

(* Every other way these steps end: properties-ms knows no such property or *)
(* an inactive one, the window or the length is wrong, a night has no price *)
(* or is unavailable, a remote call fails.                                  *)
CreateRefused(b) ==
  /\ \E from \in {"idle", "quoting"} : CreateMoves(b, from, "refused")
  /\ UNCHANGED <<today, table, request, patchVars, notices, historyVars>>

(* The transaction's SELECT ... FOR UPDATE: a conflicting row refuses the   *)
(* request; no row leaves nothing locked.                                   *)
TxnCheck(b) ==
  /\ stage[b] = "quoted"
  /\ IF HasConflict(request[b].property, request[b])
       THEN CreateMoves(b, "quoted", "conflict") /\ UNCHANGED unseen
       ELSE /\ CreateMoves(b, "quoted", "checked")
            /\ unseen' = unseen \cup { {b, c} : c \in { d \in Bookings : stage[d] = "checked" } }
  /\ UNCHANGED <<today, table, request, patchVars, notices, contested, overwrote>>

(* The transaction's INSERT and COMMIT.                                     *)
TxnInsert(b) ==
  /\ CreateMoves(b, "checked", "stored")
  /\ table' = [table EXCEPT ![b] =
       [ property |-> request[b].property, owner |-> Owner[request[b].property],
         guest |-> request[b].guest, channel |-> "platform",
         from |-> request[b].from, to |-> request[b].to, status |-> "pending" ] ]
  /\ UNCHANGED <<today, request, patchVars, notices, historyVars>>

(* The invalidation of the slots cache, which this module leaves out, and    *)
(* the mail.                                                                *)
CreateFinish(b) ==
  /\ CreateMoves(b, "stored", "done")
  /\ notices' = notices \cup {[booking |-> b, kind |-> "created"]}
  /\ UNCHANGED <<today, table, request, patchVars, historyVars>>

(* The process dies: an open transaction rolls back, a committed row stays. *)
CreateKilled(b) ==
  /\ \/ \E from \in {"gap", "quoting", "quoted", "checked"} : CreateMoves(b, from, "refused")
     \/ CreateMoves(b, "stored", "done")
  /\ UNCHANGED <<today, table, request, patchVars, notices, historyVars>>

-----------------------------------------------------------------------------
(* PATCH /bookings/{id}/status                                              *)

PatchStep ==
  {"idle", "accepted", "loaded", "saved", "invalidated", "refunded", "answered", "killed"}

PatchMoves(h, from, to) == step[h] = from /\ step' = [step EXCEPT ![h] = to]

IsAdmin(u) == Scopes[u] \cap {"admin", "admin_write"} # {}
Manages(u, row) == "manage" \in Scopes[u] /\ u = row.owner

(* A slip: the admin shortcut comes before the transition table.            *)
TransitionAllowedAdminFirst(row, new, u) ==
  \/ IsAdmin(u)
  \/ /\ new \in ValidTransitions[row.status]
     /\ \/ Manages(u, row)
        \/ new \in CancelStatuses /\ "cancel" \in Scopes[u] /\ u = row.guest

TransitionAllowed(row, new, u) ==
  /\ new \in ValidTransitions[row.status]
  /\ \/ IsAdmin(u)
     \/ Manages(u, row)
     \/ new \in CancelStatuses /\ "cancel" \in Scopes[u] /\ u = row.guest

(* What the handler demands of the row get_booking returned.               *)
PatchAccepts(b, new, u) ==
  /\ Stored(b)
  /\ table[b].channel = "platform"
  /\ TransitionAllowed(table[b], new, u)

InPatch(g, b) == step[g] \in {"accepted", "loaded"} /\ call[g].booking = b

PatchRead(h) ==
  /\ PatchMoves(h, "idle", "accepted")
  /\ \E b \in Rows, u \in Users, new \in Status :
       /\ PatchAccepts(b, new, u)
       /\ call' = [call EXCEPT ![h] =
            [booking |-> b, user |-> u, target |-> new, seen |-> table[b], day |-> today]]
       /\ contested' = IF \E g \in Updates : InPatch(g, b)
                       THEN contested \cup {b} ELSE contested
  /\ UNCHANGED <<today, table, createVars, refund, notices, unseen, overwrote>>

PatchRefused(h) ==
  /\ PatchMoves(h, "idle", "answered")
  /\ \E b \in Rows, u \in Users, new \in Status : ~PatchAccepts(b, new, u)
  /\ UNCHANGED <<today, table, createVars, call, refund, notices, historyVars>>

(* booking_crud.update_booking_status reads the row again, only to see that *)
(* it is still there ...                                                    *)
PatchReload(h) ==
  /\ PatchMoves(h, "accepted", IF Stored(call[h].booking) THEN "loaded" ELSE "answered")
  /\ UNCHANGED <<today, table, createVars, call, refund, notices, historyVars>>

(* ... and then writes the status whatever the row's status is by now; an   *)
(* UPDATE of a row deleted meanwhile changes nothing and is not noticed.    *)
PatchSave(h) ==
  LET b == call[h].booking IN
  /\ PatchMoves(h, "loaded", "saved")
  /\ table' = IF Stored(b) THEN [table EXCEPT ![b].status = call[h].target] ELSE table
  /\ overwrote' = [overwrote EXCEPT ![h] = IF Stored(b) THEN table[b].status ELSE "no row"]
  /\ UNCHANGED <<today, createVars, call, refund, notices, unseen, contested>>

(* The slots cache is left out here; the await is not.                      *)
PatchInvalidate(h) ==
  /\ PatchMoves(h, "saved", "invalidated")
  /\ UNCHANGED <<today, table, createVars, call, refund, notices, historyVars>>

IsStaffCancel(c) ==
  c.target = "cancelled" /\ (IsAdmin(c.user) \/ c.user = c.seen.owner)
IsGuestCancel(c) ==
  c.target = "cancelled" /\ ~IsStaffCancel(c) /\ c.user = c.seen.guest

Refund == [ percent : {0, 50, 100},
            basis : Policy \cup {"none", "staff", "unavailable"} ]
NoRefund == [percent |-> 0, basis |-> "none"]

(* Slips: only admins are refunded; guests are forgotten; the days until    *)
(* check-in have the wrong sign.                                            *)
RefundsAskedOfAdmins(c) ==
  IF c.target = "cancelled" /\ IsAdmin(c.user)
    THEN { [percent |-> 100, basis |-> "staff"] } ELSE { NoRefund }
RefundsAskedOfStaff(c) ==
  IF IsStaffCancel(c) THEN { [percent |-> 100, basis |-> "staff"] } ELSE { NoRefund }
RefundsAskedSignSwapped(c) ==
  IF IsGuestCancel(c) /\ c.seen.status = "confirmed"
    THEN { [percent |-> RefundPercent(policy, today - c.seen.from), basis |-> policy] :
             policy \in Policy }
    ELSE RefundsAskedOfStaff(c)

(* What a cancellation asks of payments-ms, decided on the row as it was    *)
(* read; for a guest on today's date and the policy properties-ms reports.  *)
RefundsAsked(c) ==
  IF IsStaffCancel(c)
    THEN { [percent |-> 100, basis |-> "staff"] }
  ELSE IF IsGuestCancel(c) /\ c.seen.status = "confirmed"
    THEN { [percent |-> RefundPercent(policy, c.seen.from - today), basis |-> policy] :
             policy \in Policy }
         \cup { [percent |-> 0, basis |-> "unavailable"] }
  ELSE { NoRefund }

(* A slip: every status change is mailed.                                   *)
NotifiesAlways(c) == {[booking |-> c.booking, kind |-> c.target]}

Notifies(c) ==
  (IF c.target \in {"confirmed", "cancelled"}
     THEN {[booking |-> c.booking, kind |-> c.target]} ELSE {})
  \cup
  (IF c.target = "confirmed" THEN {[booking |-> c.booking, kind |-> "checkin"]} ELSE {})

PatchRefund(h) ==
  /\ PatchMoves(h, "invalidated", "refunded")
  /\ \E r \in RefundsAsked(call[h]) : refund' = [refund EXCEPT ![h] = r]
  /\ UNCHANGED <<today, table, createVars, call, notices, historyVars>>

(* The tasks are spawned with no await in between.                          *)
PatchNotify(h) ==
  /\ PatchMoves(h, "refunded", "answered")
  /\ notices' = notices \cup Notifies(call[h])
  /\ UNCHANGED <<today, table, createVars, call, refund, historyVars>>

PatchKilled(h) ==
  /\ \E from \in {"accepted", "loaded", "saved", "invalidated", "refunded"} :
       PatchMoves(h, from, "killed")
  /\ UNCHANGED <<today, table, createVars, call, refund, notices, historyVars>>

-----------------------------------------------------------------------------
(* DELETE /bookings/{id}: one statement.                                    *)
DeleteBooking(b) ==
  /\ Stored(b)
  /\ table' = [table EXCEPT ![b] = NoRow]
  /\ UNCHANGED <<today, createVars, patchVars, notices, historyVars>>

-----------------------------------------------------------------------------
(* The calendar sync's statements on an imported row.  They check nothing   *)
(* against the table: a feed may overbook.  Which rows a sweep selects is   *)
(* left open here.                                                          *)

Written(b) == stage[b] \in {"checked", "stored", "done"}

Unchecked(i) == unseen' = unseen \cup { {i, b} : b \in { c \in Bookings : Written(c) } }

SyncUnchanged ==
  UNCHANGED <<today, createVars, patchVars, notices, contested, overwrote>>

ChannelInsert(i) ==
  /\ ~Stored(i)
  /\ \E p \in Properties, s \in Offers :
       table' = [table EXCEPT ![i] =
         [ property |-> p, owner |-> Owner[p], guest |-> ChannelGuest,
           channel |-> "imported", from |-> s.from, to |-> s.to, status |-> "confirmed" ] ]
  /\ Unchecked(i)
  /\ SyncUnchanged

ChannelSetDates(i) ==
  /\ Stored(i)
  /\ \E s \in Offers :
       table' = [table EXCEPT ![i].from = s.from, ![i].to = s.to, ![i].status = "confirmed"]
  /\ Unchecked(i)
  /\ SyncUnchanged

ChannelCancel(i) ==
  /\ Stored(i)
  /\ table' = [table EXCEPT ![i].status = "cancelled"]
  /\ UNCHANGED unseen
  /\ SyncUnchanged

(* Ends a stay on the day the sync took for its diff.  A midnight or another *)
(* sync may have come between, so that the day is past, or not within the    *)
(* stay any more.                                                           *)
ChannelTruncate(i) ==
  /\ Stored(i)
  /\ \E day \in 0 .. today :
       /\ table' = [table EXCEPT ![i].to = day]
       /\ IF day > table[i].to THEN Unchecked(i) ELSE UNCHANGED unseen
  /\ SyncUnchanged

-----------------------------------------------------------------------------
NextDay ==
  /\ today < LastToday
  /\ today' = today + 1
  /\ UNCHANGED <<table, createVars, patchVars, notices, historyVars>>

Init ==
  /\ today = 0
  /\ table = [x \in Rows |-> NoRow]
  /\ stage = [b \in Bookings |-> "idle"]
  /\ request = [b \in Bookings |-> NoRequest]
  /\ step = [h \in Updates |-> "idle"]
  /\ call = [h \in Updates |-> NoCall]
  /\ refund = [h \in Updates |-> NoRefund]
  /\ notices = {}
  /\ unseen = {}
  /\ contested = {}
  /\ overwrote = [h \in Updates |-> "none"]

CreateStep(b) ==
  \/ CreateRequest(b) \/ CreateGapCheck(b) \/ CreateQuote(b) \/ CreateRefused(b)
  \/ TxnCheck(b) \/ TxnInsert(b) \/ CreateFinish(b) \/ CreateKilled(b)

PatchHandlerStep(h) ==
  \/ PatchReload(h) \/ PatchSave(h) \/ PatchInvalidate(h) \/ PatchRefund(h)
  \/ PatchNotify(h)

PatchProcess(h) ==
  PatchRead(h) \/ PatchRefused(h) \/ PatchHandlerStep(h) \/ PatchKilled(h)

ChannelStep(i) ==
  ChannelInsert(i) \/ ChannelSetDates(i) \/ ChannelCancel(i) \/ ChannelTruncate(i)

Next ==
  \/ NextDay
  \/ \E b \in Bookings : CreateStep(b)
  \/ \E h \in Updates : PatchProcess(h)
  \/ \E x \in Rows : DeleteBooking(x)
  \/ \E i \in Imports : ChannelStep(i)

(* An asyncio task that is not killed is resumed: its next step is taken.   *)
Fairness == \A h \in Updates : WF_vars(PatchHandlerStep(h))

Spec == Init /\ [][Next]_vars /\ Fairness

-----------------------------------------------------------------------------
(* Properties.                                                              *)

(* Every variable stays in its domain: table rows are whole rows or absent, *)
(* and a handler past its first read carries the payload it accepted.       *)
TypeOK ==
  /\ today \in Day
  /\ table \in [Rows -> Row \cup {NoRow}]
  /\ stage \in [Bookings -> CreateStage]
  /\ request \in [Bookings -> Request \cup {NoRequest}]
  /\ step \in [Updates -> PatchStep]
  /\ call \in [Updates -> Call \cup {NoCall}]
  /\ refund \in [Updates -> Refund]
  /\ notices \subseteq Notice
  /\ unseen \subseteq SUBSET Rows
  /\ contested \subseteq Rows
  /\ overwrote \in [Updates -> Status \cup {"none", "no row"}]
  /\ \A b \in Bookings : stage[b] \notin {"idle", "refused"} => request[b] # NoRequest
  /\ \A h \in Updates :
       step[h] \notin {"idle", "answered"} => call[h] # NoCall

(* Two active rows of one property, at least one of them booked here.       *)
SoldTogether(x, y) ==
  /\ x # y /\ {x, y} \cap Bookings # {}
  /\ Active(x) /\ Active(y)
  /\ table[x].property = table[y].property
  /\ SharesNight(table[x], table[y])

(* No night of a property is sold twice, except where the code's own        *)
(* protocol cannot see it: the two rows were written without either write   *)
(* seeing the other (overlapping create transactions, or a sync statement   *)
(* after the check), or one of the bookings had two PATCHes in flight at    *)
(* once, which can bring a cancelled booking back.                          *)
NightsSoldOnce ==
  \A x, y \in Rows :
    SoldTogether(x, y) => {x, y} \in unseen \/ x \in contested \/ y \in contested

(* What the comment on the create transaction promises: SELECT FOR UPDATE   *)
(* prevents double-booking.                                                 *)
NoDoubleBooking ==
  \A x, y \in Bookings : ~SoldTogether(x, y)

(* A booked stay never covers a night its property reports unavailable.     *)
BlockedNightsUnsold ==
  \A b \in Bookings : Stored(b) =>
    \A w \in Blocked[table[b].property] : ~SharesNight(table[b], w)

(* A request that does not start in the past is refused for a conflict only *)
(* if one of its nights is really taken: back-to-back stays never collide,  *)
(* nor does what truncation leaves of an imported stay.                     *)
ConflictIsReal(b) ==
  \E x \in Rows : /\ Active(x) /\ table[x].property = request[b].property
                  /\ SharesNight(table[x], request[b])

ConflictsAreReal ==
  [][ \A b \in Bookings :
        stage[b] = "quoted" /\ stage'[b] = "conflict" /\ request[b].from >= today
          => ConflictIsReal(b) ]_vars

(* A step changes a platform booking's status only along the transition     *)
(* table, unless two PATCHes of that booking were in flight at once.        *)
FollowsTable(b) ==
  \/ table[b] = NoRow \/ table'[b] = NoRow
  \/ table'[b].status = table[b].status
  \/ table'[b].status \in ValidTransitions[table[b].status]

TransitionsFollowed ==
  [][ \A b \in Bookings : b \notin contested => FollowsTable(b) ]_vars

AskedRefund(h) == refund[h] # NoRefund
Overwrote(h) == overwrote[h] # "none"

(* At most one PATCH decides on a refund of a booking, full, partial or      *)
(* none by its policy, unless two PATCHes of it were in flight at once.      *)
RefundedOnce ==
  \A g, h \in Updates :
    /\ g # h /\ AskedRefund(g) /\ AskedRefund(h)
    /\ call[g].booking = call[h].booking
    => call[g].booking \in contested

(* A guest never gets more than the policy gave on the day the cancel was   *)
(* accepted, however long the handler takes, and only for a booking that    *)
(* was confirmed when the handler read it.                                  *)
RefundWithinPolicy ==
  \A h \in Updates : refund[h].basis \in Policy =>
    /\ call[h].seen.status = "confirmed" /\ call[h].user = call[h].seen.guest
    /\ refund[h].percent <= RefundPercent(refund[h].basis, call[h].seen.from - call[h].day)

(* A mail about a decision is true: after a cancellation mail the booking   *)
(* is cancelled (or deleted), after a confirmation mail it is not back to   *)
(* pending, unless two PATCHes of it were in flight at once.                *)
NoticesTruthful ==
  \A n \in notices :
    Stored(n.booking) /\ n.booking \notin contested =>
      /\ n.kind = "cancelled" => table[n.booking].status = "cancelled"
      /\ n.kind \in {"confirmed", "checkin"} => table[n.booking].status # "pending"

Settled(h) == step[h] = "answered" /\ Overwrote(h)

(* A guest's cancel that replaced the status confirmed went through the     *)
(* cancellation policy.                                                     *)
PolicyConsidered(h) ==
  Settled(h) /\ IsGuestCancel(call[h]) /\ overwrote[h] = "confirmed"
    => refund[h].basis \in Policy \cup {"unavailable"}

GuestCancelConsidersPolicy ==
  \A h \in Updates : call[h] # NoCall /\ call[h].booking \notin contested => PolicyConsidered(h)

(* A cancellation by the owner or an admin that was written is followed by  *)
(* a full refund request, unless the process dies first.                    *)
StaffCancelRefunded ==
  \A h \in Updates :
    (step[h] = "saved" /\ IsStaffCancel(call[h]))
      ~> (refund[h].percent = 100 \/ step[h] = "killed")
=============================================================================
