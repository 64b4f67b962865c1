---------------------------- MODULE CalendarSync ----------------------------
(***************************************************************************)
(* The calendar sync engine for one property and one channel: the sweep of  *)
(* all active feeds and the syncs an owner asks for, each fetching a feed,  *)
(* comparing its hash, diffing it against the imported rows and writing the *)
(* difference in up to four statements.  An iCal body counts for the events *)
(* parse_ics finds in it; a hash is the set of events it was taken from.    *)
(* The slots entry that a sync invalidates at its end is not kept here.     *)
(***************************************************************************)
EXTENDS Stays

CONSTANTS
  Feeds,
  Uids,
  Sweep,       \* the one sweep CronJob's concurrencyPolicy allows
  Manuals,     \* sync-now requests that may be under way
  Offers,      \* the stays a channel serves
  LastToday,   \* bound: the last day the clock reaches
  MaxEdits,    \* bound: how often the channel changes an event
  MaxMishaps,  \* bound: failed fetches and look-ups, dead syncs, deleted rows
  Absent, Unreadable, NoRow, NoHash, NoFeed

Syncs == Manuals \cup {Sweep}

ASSUME OffersAreStays  == Offers \subseteq { s \in [from : Nat, to : Nat] : s.from < s.to }
ASSUME BoundsAreNats   == {LastToday, MaxEdits, MaxMishaps} \subseteq Nat
ASSUME SweepIsNoManual == Sweep \notin Manuals
ASSUME NullsAreNothing == /\ {Absent, Unreadable} \cap Offers = {} /\ Absent # Unreadable
                          /\ NoHash \notin [Uids -> Offers \cup {Absent}]
                          /\ NoFeed \notin Feeds
                          /\ NoRow \notin [from : Nat, to : Nat,
                                           status : {"confirmed", "cancelled"}]

(* What a feed holds for a UID: a stay, nothing, or a VEVENT that parse_ics  *)
(* skips (no DTSTART, or an end that is not after the start).                *)
Content == Offers \cup {Absent, Unreadable}
Events  == [Uids -> Offers \cup {Absent}]
Row     == [from : Nat, to : Nat, status : {"confirmed", "cancelled"}]
Plan    == [Uids -> {"none", "create", "update", "cancel", "truncate"}]

VARIABLES
  today,
  served,      \* what each feed's server holds
  feed,        \* absent, active or deleted
  stored,      \* content_hash
  rows,        \* the imported bookings, by external UID
  pc,          \* where each sync is
  todo,        \* the feeds it has loaded and not finished
  snap,        \* the hashes it loaded with them
  cur,         \* the feed it is at
  ev,          \* the events it parsed
  plan,        \* the writes it has planned and not made, by UID
  day,         \* the day it took for its plan
  interfered,  \* history: a sync under way met another or a deleted row
  disturbed,   \* history: since a feed was last applied, something else wrote
  skipped,     \* history: UIDs an insert has dropped
  budget       \* how many edits and mishaps are left

feedVars == <<served, feed, stored>>
syncVars == <<pc, todo, snap, cur, ev, plan, day>>
historyVars == <<interfered, disturbed, skipped>>
vars == <<today, feedVars, rows, syncVars, historyVars, budget>>

Busy(s) == pc[s] # "idle"
Active  == { f \in Feeds : feed[f] = "active" }

Spend(what) == /\ budget[what] > 0
               /\ budget' = [budget EXCEPT ![what] = @ - 1]

-----------------------------------------------------------------------------
(* The world around the engine.                                             *)

NextDay ==
  /\ today < LastToday
  /\ today' = today + 1
  /\ UNCHANGED <<feedVars, rows, syncVars, historyVars, budget>>

ChannelEdit(f, u) ==
  /\ Spend("edits")
  /\ feed[f] # "deleted"
  /\ \E c \in Content \ {served[f][u]} : served' = [served EXCEPT ![f][u] = c]
  /\ UNCHANGED <<today, feed, stored, rows, syncVars, historyVars>>

CreateFeed(f) ==
  /\ feed[f] = "absent"
  /\ feed' = [feed EXCEPT ![f] = "active"]
  /\ UNCHANGED <<today, served, stored, rows, syncVars, historyVars, budget>>

(* The imported rows stay.                                                  *)
DeleteFeed(f) ==
  /\ feed[f] = "active"
  /\ feed' = [feed EXCEPT ![f] = "deleted"]
  /\ UNCHANGED <<today, served, stored, rows, syncVars, historyVars, budget>>

(* A sync under way holds ids; those of the deleted row match nothing.      *)
DeleteRow(u) ==
  /\ Spend("mishaps")
  /\ rows[u] # NoRow
  /\ rows' = [rows EXCEPT ![u] = NoRow]
  /\ plan' = [s \in Syncs |->
       [plan[s] EXCEPT ![u] = IF @ = "create" THEN @ ELSE "none"]]
  /\ interfered' = TRUE
  /\ disturbed' = [f \in Feeds |-> TRUE]
  /\ UNCHANGED <<today, feedVars, pc, todo, snap, cur, ev, day, skipped>>

-----------------------------------------------------------------------------
(* sync_all_active_feeds and sync-now load the feeds, hashes included,      *)
(* before the first fetch.                                                  *)

Begin(s, some) ==
  /\ pc[s] = "idle" /\ some # {}
  /\ pc' = [pc EXCEPT ![s] = "fetching"]
  /\ todo' = [todo EXCEPT ![s] = some]
  /\ snap' = [snap EXCEPT ![s] = stored]
  /\ interfered' = \E t \in Syncs : Busy(t)
  /\ disturbed' = [f \in Feeds |-> interfered' \/ disturbed[f]]
  /\ UNCHANGED <<today, feedVars, rows, cur, ev, plan, day, skipped, budget>>

SweepBegin    == Begin(Sweep, Active)
ManualBegin(s) == \E f \in Active : Begin(s, {f})

(* sync_feed returns, its locals go, and the next feed is due; or all is     *)
(* over.                                                                    *)
Returns(s, rest) ==
  /\ todo' = [todo EXCEPT ![s] = rest]
  /\ pc' = [pc EXCEPT ![s] = IF rest = {} THEN "idle" ELSE "fetching"]
  /\ snap' = IF rest = {} THEN [snap EXCEPT ![s] = [f \in Feeds |-> NoHash]] ELSE snap
  /\ cur' = [cur EXCEPT ![s] = NoFeed]
  /\ ev' = [ev EXCEPT ![s] = [u \in Uids |-> Absent]]
  /\ plan' = [plan EXCEPT ![s] = [u \in Uids |-> "none"]]
  /\ day' = [day EXCEPT ![s] = 0]

Parsed(content) == [u \in Uids |-> IF content[u] \in Offers THEN content[u] ELSE Absent]

(* A slip: the hash forgets the dates.                                       *)
UnchangedUids(hash, events) ==
  hash # NoHash /\ \A u \in Uids : hash[u] = Absent <=> events[u] = Absent

Unchanged(hash, events) == hash = events

Fetch(s) ==
  /\ pc[s] = "fetching"
  /\ \E f \in todo[s] :
       /\ cur' = [cur EXCEPT ![s] = f]
       /\ ev' = [ev EXCEPT ![s] = Parsed(served[f])]
       /\ pc' = [pc EXCEPT ![s] =
            IF Unchanged(snap[s][f], Parsed(served[f])) THEN "unchanged" ELSE "resolving"]
  /\ UNCHANGED <<today, feedVars, rows, todo, snap, plan, day, historyVars, budget>>

(* The feed cannot be fetched or parsed, or properties-ms does not tell the *)
(* owner: the error is recorded, rows and hash are kept.                    *)
Fail(s) ==
  /\ Spend("mishaps")
  /\ \/ pc[s] = "fetching" /\ \E f \in todo[s] : Returns(s, todo[s] \ {f})
     \/ pc[s] = "resolving" /\ Returns(s, todo[s] \ {cur[s]})
  /\ UNCHANGED <<today, feedVars, rows, historyVars>>

-----------------------------------------------------------------------------
(* diff_feed, UID by UID.                                                   *)

Confirmed(row) == row # NoRow /\ row.status = "confirmed"

DiffServed(row, event) ==
  IF row = NoRow THEN "create"
  ELSE IF row.from # event.from \/ row.to # event.to \/ ~Confirmed(row)
    THEN "update" ELSE "none"

(* A slip: a vanished stay that has not ended is cancelled.                  *)
DiffVanishedCancels(row, now) ==
  IF Confirmed(row) /\ row.to > now THEN "cancel" ELSE "none"

DiffVanished(row, now) ==
  IF ~Confirmed(row) THEN "none"
  ELSE IF row.from >= now THEN "cancel"
  ELSE IF row.to > now THEN "truncate" ELSE "none"

Diff(row, event, now) ==
  IF event = Absent THEN DiffVanished(row, now) ELSE DiffServed(row, event)

(* A slip: the hash is stored before the statements have run.                *)
ReadRowsHashFirst(s) ==
  /\ pc[s] = "resolving"
  /\ plan' = [plan EXCEPT ![s] = [u \in Uids |-> Diff(rows[u], ev[s][u], today)]]
  /\ day' = [day EXCEPT ![s] = today]
  /\ pc' = [pc EXCEPT ![s] = "applying"]
  /\ stored' = [stored EXCEPT ![cur[s]] = ev[s]]
  /\ UNCHANGED <<today, served, feed, rows, todo, snap, cur, ev, historyVars, budget>>

ReadRows(s) ==
  /\ pc[s] = "resolving"
  /\ plan' = [plan EXCEPT ![s] = [u \in Uids |-> Diff(rows[u], ev[s][u], today)]]
  /\ day' = [day EXCEPT ![s] = today]
  /\ pc' = [pc EXCEPT ![s] = "applying"]
  /\ UNCHANGED <<today, feedVars, rows, todo, snap, cur, ev, historyVars, budget>>

(* The four statements, in their order; an empty one is skipped.            *)
Planned(s, kind) == { u \in Uids : plan[s][u] = kind }

Statement(s, kind) ==
  /\ Planned(s, kind) # {}
  /\ kind = "update"   => Planned(s, "create") = {}
  /\ kind = "cancel"   => Planned(s, "create") = {} /\ Planned(s, "update") = {}
  /\ kind = "truncate" => \A u \in Uids : plan[s][u] \in {"none", "truncate"}

(* A slip: a stay that comes back keeps its cancelled status.                *)
WrittenDates(kind, row, event, now) ==
  CASE kind = "create" ->
         IF row = NoRow THEN [from |-> event.from, to |-> event.to, status |-> "confirmed"]
                        ELSE row
    [] kind = "update"   -> [row EXCEPT !.from = event.from, !.to = event.to]
    [] kind = "cancel"   -> [row EXCEPT !.status = "cancelled"]
    [] kind = "truncate" -> [row EXCEPT !.to = now]

(* An insert that meets the unique key is dropped; the others go by id.     *)
Written(kind, row, event, now) ==
  CASE kind = "create" ->
         IF row = NoRow THEN [from |-> event.from, to |-> event.to, status |-> "confirmed"]
                        ELSE row
    [] kind = "update"   -> [from |-> event.from, to |-> event.to, status |-> "confirmed"]
    [] kind = "cancel"   -> [row EXCEPT !.status = "cancelled"]
    [] kind = "truncate" -> [row EXCEPT !.to = now]

Apply(s) ==
  /\ pc[s] = "applying"
  /\ \E kind \in {"create", "update", "cancel", "truncate"} :
       /\ Statement(s, kind)
       /\ rows' = [u \in Uids |->
            IF u \in Planned(s, kind) THEN Written(kind, rows[u], ev[s][u], day[s])
                                      ELSE rows[u]]
       /\ plan' = [plan EXCEPT ![s] =
            [u \in Uids |-> IF u \in Planned(s, kind) THEN "none" ELSE plan[s][u]]]
       /\ skipped' = skipped \cup
            (IF kind = "create" THEN { u \in Planned(s, kind) : rows[u] # NoRow } ELSE {})
  /\ disturbed' = [f \in Feeds |-> disturbed[f] \/ f # cur[s]]
  /\ UNCHANGED <<today, feedVars, pc, todo, snap, cur, ev, day, interfered, budget>>

(* record_sync.  A feed deleted meanwhile has no row to update.             *)
Applied(s) == pc[s] = "applying" /\ \A u \in Uids : plan[s][u] = "none"

Record(s) ==
  LET f == cur[s] IN
  /\ Applied(s) \/ pc[s] = "unchanged"
  /\ stored' = IF feed[f] = "active" THEN [stored EXCEPT ![f] = ev[s]] ELSE stored
  /\ disturbed' = IF Applied(s) /\ ~interfered THEN [disturbed EXCEPT ![f] = FALSE]
                                              ELSE disturbed
  /\ Returns(s, todo[s] \ {f})
  /\ UNCHANGED <<today, served, feed, rows, interfered, skipped, budget>>

(* The process dies, or a statement raises: the rest of the sweep goes too.  *)
(* A feed that was being applied is disturbed where its hash still stands   *)
(* for other events.                                                        *)
Killed(s) ==
  /\ Spend("mishaps")
  /\ Busy(s)
  /\ Returns(s, {})
  /\ disturbed' = [f \in Feeds |->
       disturbed[f] \/ (pc[s] = "applying" /\ f = cur[s] /\ stored[f] # ev[s])]
  /\ UNCHANGED <<today, feedVars, rows, interfered, skipped>>

-----------------------------------------------------------------------------
Init ==
  /\ today = 0
  /\ served = [f \in Feeds |-> [u \in Uids |-> Absent]]
  /\ feed = [f \in Feeds |-> "absent"]
  /\ stored = [f \in Feeds |-> NoHash]
  /\ rows = [u \in Uids |-> NoRow]
  /\ pc = [s \in Syncs |-> "idle"]
  /\ todo = [s \in Syncs |-> {}]
  /\ snap = [s \in Syncs |-> [f \in Feeds |-> NoHash]]
  /\ cur = [s \in Syncs |-> NoFeed]
  /\ ev = [s \in Syncs |-> [u \in Uids |-> Absent]]
  /\ plan = [s \in Syncs |-> [u \in Uids |-> "none"]]
  /\ day = [s \in Syncs |-> 0]
  /\ interfered = FALSE
  /\ disturbed = [f \in Feeds |-> FALSE]
  /\ skipped = {}
  /\ budget = [edits |-> MaxEdits, mishaps |-> MaxMishaps]

Resume(s) == Fetch(s) \/ ReadRows(s) \/ Apply(s) \/ Record(s)

Next ==
  \/ NextDay
  \/ \E f \in Feeds : CreateFeed(f) \/ DeleteFeed(f) \/ \E u \in Uids : ChannelEdit(f, u)
  \/ \E u \in Uids : DeleteRow(u)
  \/ SweepBegin
  \/ \E s \in Manuals : ManualBegin(s)
  \/ \E s \in Syncs : Resume(s) \/ Fail(s) \/ Killed(s)

(* The CronJob keeps calling, and a sync under way is resumed.              *)
Fairness == WF_vars(SweepBegin) /\ \A s \in Syncs : WF_vars(Resume(s))

Spec == Init /\ [][Next]_vars /\ Fairness

-----------------------------------------------------------------------------
(* Properties.                                                              *)

(* Every variable stays in its domain, and a sync past its fetch has a feed. *)
TypeOK ==
  /\ today \in Nat
  /\ served \in [Feeds -> [Uids -> Content]]
  /\ feed \in [Feeds -> {"absent", "active", "deleted"}]
  /\ stored \in [Feeds -> Events \cup {NoHash}]
  /\ rows \in [Uids -> Row \cup {NoRow}]
  /\ pc \in [Syncs -> {"idle", "fetching", "unchanged", "resolving", "applying"}]
  /\ todo \in [Syncs -> SUBSET Feeds]
  /\ snap \in [Syncs -> [Feeds -> Events \cup {NoHash}]]
  /\ cur \in [Syncs -> Feeds \cup {NoFeed}]
  /\ ev \in [Syncs -> Events]
  /\ plan \in [Syncs -> Plan]
  /\ day \in [Syncs -> Nat]
  /\ interfered \in BOOLEAN
  /\ disturbed \in [Feeds -> BOOLEAN]
  /\ skipped \in SUBSET Uids
  /\ budget \in [{"edits", "mishaps"} -> Nat]
  /\ \A s \in Syncs : pc[s] \in {"unchanged", "resolving", "applying"} => cur[s] \in todo[s]

(* The rows mirror a feed: its stays are confirmed as they stand, and what   *)
(* it does not name occupies no night from today on.                         *)
MirrorsUid(row, event, now) ==
  IF event = Absent THEN Confirmed(row) => row.to <= now
  ELSE row = [from |-> event.from, to |-> event.to, status |-> "confirmed"]

Mirrors(events) == \A u \in Uids : MirrorsUid(rows[u], events[u], today)

(* The stored hash may stand for the rows, which is what skipping an         *)
(* unchanged feed relies on: whenever a feed is not being applied, the rows  *)
(* mirror the events its hash was taken from.  What takes this away until    *)
(* the feed changes again: overlapping syncs, a sync that died between its   *)
(* statements while the hash was still the old one, a second feed of the     *)
(* property, a deleted row.                                                 *)
HashIsTruth ==
  \A f \in Active :
    stored[f] # NoHash /\ ~disturbed[f] /\ (\A s \in Syncs : ~(pc[s] = "applying" /\ cur[s] = f))
      => Mirrors(stored[f])

(* A stay that vanished from its feed keeps every night that had elapsed     *)
(* when the sync looked, whatever day the statement runs.                    *)
Occupies(row, n) == Confirmed(row) /\ n \in Nights(row)

ElapsedNightsStay ==
  [][ rows' # rows /\ ~interfered' =>
        \A s \in Syncs, u \in Uids :
          pc[s] = "applying" /\ ev[s][u] = Absent /\ Confirmed(rows[u]) =>
            \A n \in Nights(rows[u]) : n < day[s] => Occupies(rows'[u], n) ]_vars

(* Once the channel, the clock and the failures come to rest, the rows       *)
(* mirror each feed, outside the disturbances HashIsTruth names.             *)
Converges ==
  \A f \in Feeds :
    <>[](f \in Active /\ ~disturbed[f] => Mirrors(Parsed(served[f])))

(* What bulk_upsert_channel_bookings says of an insert that meets a row: the *)
(* next sweep reconciles it.  A sweep that met no other sync leaves each     *)
(* skipped stay as the feed has it.                                          *)
SweepReconciles ==
  [][ pc[Sweep] \in {"unchanged", "applying"} /\ pc'[Sweep] \in {"idle", "fetching"}
      /\ budget' = budget /\ ~interfered
        => \A u \in skipped : MirrorsUid(rows[u], ev[Sweep][u], today) ]_vars

(* However syncs overlap, die or meet deletions: what they do to the rows    *)
(* are the statements that ImportedRows allows, on rows that are there and  *)
(* with stays and days that were.                                           *)
Imported == INSTANCE ImportedRows

RefinesImportedRows == Imported!Spec

-----------------------------------------------------------------------------
(* The inductive invariant behind HashIsTruth and ElapsedNightsStay.        *)

(* A planned write has what it needs: stays to write, a row to change.       *)
PlansFit ==
  \A s \in Syncs, u \in Uids : pc[s] = "applying" =>
    /\ plan[s][u] \in {"create", "update"} => ev[s][u] # Absent
    /\ plan[s][u] \in {"update", "cancel", "truncate"} => rows[u] # NoRow

(* A sync that met nothing is alone, its hashes are the stored ones, and its *)
(* plan is what it would plan now, on the day it took.                       *)
UndisturbedPlansHold ==
  ~interfered => \A s \in Syncs :
    /\ \A t \in Syncs : Busy(s) /\ Busy(t) => s = t
    /\ Busy(s) => \A f \in todo[s] \cap Active : snap[s][f] = stored[f]
    /\ pc[s] = "applying" =>
         /\ day[s] <= today
         /\ \A u \in Uids : plan[s][u] = Diff(rows[u], ev[s][u], day[s])

(* A sync that skips its feed holds the events its hash was taken from, one  *)
(* that applies it holds others; a feed that was never active has no hash    *)
(* and is loaded by no sync; meeting another sync disturbs every feed.       *)
HashesFit ==
  /\ \A s \in Syncs : pc[s] = "unchanged" => ev[s] = snap[s][cur[s]]
  /\ \A s \in Syncs : pc[s] \in {"resolving", "applying"} => ev[s] # snap[s][cur[s]]
  /\ \A s \in Syncs : \A f \in todo[s] : feed[f] # "absent"
  /\ \A f \in Feeds : feed[f] = "absent" => stored[f] = NoHash
  /\ interfered => \A f \in Feeds : disturbed[f]

IInv ==
  /\ TypeOK
  /\ PlansFit
  /\ UndisturbedPlansHold
  /\ HashesFit
  /\ HashIsTruth
=============================================================================
