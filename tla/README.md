# Verification of brighter-bookings-ms

TLA+ models of the bookings service, the TLC instances that check them and the
proofs about them. The reference is the code under `src/`; `PROJECT.json` maps
every definition that models code to the lines it stands for.

## The system

The service is a FastAPI application over Postgres (Tortoise ORM) and Redis. Each
request is an asyncio task; a task can be overtaken by any other task, or by
another replica, at every `await`. Nothing in the process is shared between
requests except HTTP clients, so all interaction goes through the database, Redis
and the other services.

| Component | State | Operations | Interacts with |
|---|---|---|---|
| Booking creation (`routers/booking.py`, `crud.py`) | rows of `bookings` | `POST /bookings/` | properties-ms (rules, unavailabilities, prices), the slots cache, mails |
| Status changes (`routers/booking.py`, `crud.py`) | `status` of a row | `PATCH /bookings/{id}/status`, `DELETE` | payments-ms (refund), cache, mails, check-in dispatch |
| Booking queries (`routers/booking.py`, `crud.py`, `deps.py`) | none | list, get, check-in link | properties-ms and users-ms (names) |
| Slots cache (`cache.py`, `GET /slots`) | one Redis entry per property, TTL 60 s | get, fill, invalidate | every handler that writes bookings |
| Check-in dispatch (`checkin_dispatch.py`, `internal_checkin.py`) | `checkin_link_sent_at` | post-confirm task, daily sweep | users-ms, notifications-ms |
| Guest roster (`routers/checkin.py`, `guest_identities.py`, `checkin_token.py`, `internal_checkin.py`) | rows of `guest_identities`, `guest_data_purged_at` | guests add and clear by token, admins add and delete, purge job | bookings |
| Calendar sync (`services/calendar_sync.py`, `crud.py`, `calendar_feeds.py`) | feeds with content hash, imported booking rows | sweep, sync-now, feed create and delete | channel servers, properties-ms, cache |
| Feed fetch (`services/calendar_sync.py`, `feed_url.py`) | none | two attempts, redirects by hand | channel servers, DNS |
| Refund request (`deps.py`), pricing client (`pricing_client.py`) | none | three attempts; two attempts | payments-ms; properties-ms |
| Personal numbers (`egn.py`, `schemas.py`), encrypted fields (`fields.py`) | none; the keys a pod started with | checksums and comparison; encrypt, decrypt | guest roster |

What is hard, and what makes each component correct:

* **Creation.** The checks (rules, gap, unavailabilities, conflict) and the insert
  are separated by awaits. No night may be sold twice; a blocked night may not be
  sold; a free night may not be refused.
* **Status changes.** The row is read, judged, read again and saved blindly. Statuses
  must follow the transition table, a cancellation must be refunded once, by the
  right rule, and mails must tell the truth.
* **Queries.** Two endpoints choose a caller's view by scopes, and a list is cut into
  pages by OFFSET while others write.
* **Slots cache.** Fill and invalidation race, Redis errors are swallowed, some
  writers do not invalidate. Staleness must be bounded.
* **Check-in dispatch.** Sweep and task race for the same marker; the claim comes
  before the send. A guest gets at most one link, and every due booking is claimed.
* **Guest roster.** Count-then-insert races, tokens outlive bookings, the purge marks
  a booking once. Capacity, purge completeness and token expiry are at stake.
* **Calendar sync.** A manual sync can overlap the sweep; the feed hash lets later
  sweeps skip work. Imported rows must converge to the feed, and rows that cannot
  be re-verified must be kept.
* **Clients.** Answers are lost after the work was done, servers redirect anywhere:
  attempts must be bounded, nothing settled may be asked again, every hop checked.

## Modules

| Module | Models |
|---|---|
| `Stays` | dates, statuses, transition table, refund schedule |
| `BookingLifecycle` | create, PATCH, DELETE, the sync's statements, the clock |
| `BookingLifecycleInv`, `BookingLifecycleProofs`, `MCBookingLifecycle` | its inductive invariant, its theorems, its instances |
| `CheckinDispatch`, `CheckinDispatchProofs`, `MCCheckinDispatch` | the task and the sweep that send check-in links |
| `ImportedRows` | abstract: what syncs may do to imported rows |
| `CalendarSync`, `CalendarSyncProofs`, `MCCalendarSync` | calendar sweep, sync-now, feed management, the iCal filter; implements `ImportedRows` |
| `SlotsView` | abstract: what `GET /slots` promises |
| `SlotsCache`, `SlotsCacheProofs`, `MCSlotsCache` | readers, writers, the entry and its TTL; implements `SlotsView` |
| `GuestRoster`, `GuestRosterProofs`, `MCGuestRoster` | adding, clearing and purging guests, the link's expiry |
| `BoundedRetry` | abstract: what a client of another service promises |
| `RefundCall`, `PricingCall`, `FeedFetch` | `refund_booking`, `PricingClient.resolve`, `fetch_ics` with `_fetch_once` |
| `Clients`, `ClientProofs` | the three side by side, each an implementation of `BoundedRetry` |
| `BookingQueries`, `QueriesProofs` | scopes of list, get, roster and link; the walk through the pages |
| `PinCheck` | EGN, LNCh and the form's validator |
| `FieldKeys` | `EncryptedCharField` under key rotation |
| `GuestDataProofs` | the theorems of `PinCheck` and `FieldKeys` |
| `MCParts` | instance of the last six modules that model code |

How they meet. `BookingLifecycle` holds creation, status changes and the sync's
statements over one table; the cache they invalidate is left to `SlotsCache`.
`SlotsCache`, `GuestRoster` and `CheckinDispatch` take the table as an environment that
may do what those handlers do: a PATCH saves blindly, so any status may follow any other,
and the sync moves the dates of imported bookings, which the check-in sweep and the purge
select like all others, whatever either has read before.
`CalendarSync` takes a whole fetch as one step, whose ends are those `FeedFetch` shows a
fetch to have: a body (`Fetch`), an error that is recorded (`Fail`), and an exception that no
handler catches, which ends the sweep (`Killed`). `PatchRefund` of `BookingLifecycle` is the decision to
call, `RefundCall` the call. `CreateQuote` and `CreateRefused` are the ends of `PricingCall`.

Imported rows are written by `CalendarSync` and share nights with platform rows in
`BookingLifecycle`. Between the two stands `ImportedRows`: `CalendarSync` implements it,
and its four kinds of statement are the `Channel...` actions of `BookingLifecycle`, row by
row, with any dates. So what is proved of platform bookings next to those actions
(`NightsSoldOnce` above all) holds next to the real syncs, overlapping ones included. This
correspondence of rows is by reading: one statement of `ImportedRows` writes several rows at
once, `BookingLifecycle` one per step. A truncation uses the day of the sync's diff, which
may be past, and may meet dates another sync has written since: it can lengthen a stay, which
`ChannelTruncate` records as a write no create could see, or leave one that ends before it begins.

### Common conventions

* An `await` is a boundary between actions; what runs between two awaits is one
  action. A crash (`...Killed`, `...Dies`) drops the locals of a handler and nothing else.
* Postgres runs at its default isolation level, READ COMMITTED: a statement sees
  what was committed before it began, and `SELECT ... FOR UPDATE` locks only rows
  it returned. A transaction of several statements is cut between them.
* Days are naturals, 0 the first day of a behaviour; a stay is `[from, to)`.
* Names ending in a slip (`WrittenDates`, `DueAnyDay`, ...) are plausible bugs of the
  definition after them. No action uses them; they show that a property can fail.
* *History variables* (`unseen`, `contested`, `interfered`, `disturbed`, `missed`, `crossed`,
  `stripped`, `late`, `upTo`, `seen`, `backlog`, `unheard`, `asked`, `shown`, `joined`, `hasty`, ...) record how a state came
  about. No guard reads them; properties use them to say exactly which race of the code
  an exception is for.

### `BookingLifecycle`

`table` is the `bookings` table, `stage`/`request` the create handlers,
`step`/`call`/`refund` the PATCH handlers.

* Create is cut into `CreateRequest` (rules of the property), `CreateGapCheck`
  (`list_occupied_slots`), `CreateQuote` (unavailabilities, price), `TxnCheck` (SELECT FOR
  UPDATE), `TxnInsert` and `CreateFinish` (invalidation, mail). `CreateRefused` gathers the
  early returns.
* PATCH is cut into `PatchRead` (load, channel check, `_assert_transition`),
  `PatchReload` and `PatchSave` (the `get_or_none` and blind `save` of
  `update_booking_status`), `PatchInvalidate`, `PatchRefund`, `PatchNotify`.
* `DeleteBooking` removes a row at any time, under whatever handler has read it.
* The four `bulk_*` statements of the calendar sync are actions of their own, with any
  dates and, for a truncation, any day that has come: here they are an environment that
  writes without asking.

### `CheckinDispatch`

`marker` is `checkin_link_sent_at`, a *task* is the coroutine spawned by a confirmation, a
*sweep* the cron endpoint with its loop over batches. `Claim` is the conditional UPDATE,
`Send` the mail to notifications-ms with the outcomes `NotificationsClient.send` lets
through. `row` collapses a booking to open, confirmed or gone, `start` is its check-in date.
`Redate` is `bulk_set_channel_booking_dates`: an imported booking gets another date while a
task or sweep may hold it as due. What a sender last read of the date is kept in `seen`.

### `CalendarSync`

One property and one channel, since a sync touches nothing else. `served` is what a feed's
server holds, `stored` the `content_hash` column, `rows` the imported bookings by UID.
A sync is a process: `Begin` loads feeds with their hashes (once for the whole sweep),
`Fetch` parses and compares, `ReadRows` reads rows and day and plans, `Apply` runs one of the
four statements, `Record` stores the hash. `Fail` is each path that keeps rows and hash,
`Killed` a death or an exception, with which the rest of the sweep goes.
`CalendarSync` differs from the list order of the sweep in one way: it takes the loaded
feeds in any order. Two VEVENTs of one UID in a feed are not told apart (the last wins in
`diff_feed`), `last_status`, `last_error` and jitter are left out, and the slots
invalidation at the end of a sync is `Invalidate` of `SlotsCache`.

### `SlotsCache` and `SlotsView`

The rows of one property count for the number of writes they have seen (`version`), so an
answer is a version and staleness an arithmetic matter. `Hit`, `Miss`, `Select` and `Store`
are the four moments of `GET /slots`; `Miss` includes a Redis that raises, `Store` a SETEX
that fails. `Commit` and `Invalidate` are the two halves of POST, PATCH and a sync (whose
up to four statements come before its one invalidation), `InvalidationLost` a Redis error or
a death between them, `DeleteBooking` a DELETE, which never invalidates. `Tick` ages
versions, entry and readers.

`SlotsView` is the promise: an answer is the table as it was, overwritten less than
`Bound` ticks ago. `SlotsCache` implements it with `Bound = TTL + FillMax`, whatever is lost,
because an entry dies `TTL` after a fill that was under way at most `FillMax`.

### `GuestRoster`

`guests` is the `guest_identities` table, an identity reduced to its booking, the route it
came by and whether the fields the purge nulls are there. A link is a signed token that is
stored nowhere: `links` holds, for each booking, every check-out a link may have been issued
with, and the link lives by that one (`LinkLives(e)`), whatever the check-out (`end`) is now. A request by link is `PostAdmit`
(`get_booking_from_checkin_token`), `PostCount` and `Insert`; a request by an admin is
`DeskAdmit` and `Insert`, with no count, as the code has it. `PurgeStart`, `PurgeSelect`,
`PurgeNull` and `PurgeMark` are the statements of `purge_guest_identities`; a run may die
between any two. The clock counts half days: links expire by the day in UTC, the purge goes
by the day in Sofia, which begins earlier. `SetStatus` is any PATCH, `SyncStatement` what a
statement of the sync does to an imported booking: cancel it, give it other dates and
confirm it, or end it on a day that has come. A deletion cascades.

### Clients: `RefundCall`, `PricingCall`, `FeedFetch`, `BoundedRetry`

Each is a loop, one action per request, answer and sleep, with the other side's behaviour as
a choice. `RefundCall` keeps what payments-ms did (`refunds`) apart from what was heard:
`RefundedUnheard` refunds and then loses the answer. `PricingCall` retries only what the
network loses; a status or an unusable body ends the matter. In each the answer heard
last (`last`) is kept apart from what the caller is told. `FeedFetch` cuts a hop into the
cycle check (`Visit`), `validate_feed_url` (`CheckListed`), `assert_host_is_public`
(`HostPublic`, `HostRefused`), and the request; a redirect may lead to any URL. Each of these may also raise what
`fetch_ics` does not catch: a malformed URL or `Location`, a name that cannot be encoded, an
unknown charset (`raised`). `asked` keeps, for every request, the URL whose host had last been
found public.

`BoundedRetry` is what callers may rely on: at most `MaxAttempts` tries, none after an answer
that settles the matter was heard, a caller who is told what was heard, and `given_up` only
when all tries were used and nothing was. `heard` is mapped from the last answer, not from
the client's own result, so a client that retried a refusal would not implement it.

### `BookingQueries`, `PinCheck`, `FieldKeys`

`BookingQueries` has the scope rules of the four endpoints that show a booking as operators
over a row and a caller, and a caller who asks for one page after the other (each a SELECT
of its own, newest first) while others create, decide and delete. They write one row at a
time; a statement of the sync that writes several is several such writes with no page
between them. A booking's number stands
for its `created_at`; its place in a result is its `Rank`, and a page is the set of bookings
whose place lies between the offset and the next. `steady`, `joined` and `left` keep what
matched all along and what came and went, `repeats` how many rows were shown again.

`PinCheck` has both checksums, `extract_dob_and_gender` and
`validate_bg_requirements_and_egn`. A person comes with a document from one of the two
registries, whose rules for issuing a number (`NineDigits`, `Issued`) are the reference
definition, written apart from the code's weights; the form holds what the document says, or that with one digit mistyped.

`FieldKeys` has a setting that lists keys, pods that read it when they start, and fields that
are written by one pod and read by another. The operator may prepend a new key, restart
pods, and take the oldest key off.

## Properties

**Booking lifecycle.** `NightsSoldOnce` is the central one: two active stays of a property
share a night only if neither write could see the other, or two PATCHes of a booking were
in flight together. `BlockedNightsUnsold` and `ConflictsAreReal` bound refusals and sales at
the boundaries of the half-open windows. `TransitionsFollowed`, `RefundedOnce`,
`GuestCancelConsidersPolicy` and `NoticesTruthful` hold outside overlapping PATCHes of one
booking, which is what their exception `contested` says: two PATCHes that read the same
status do leave the transition table, and a guest's cancel that races the owner's confirm
does skip the policy. `RefundWithinPolicy` holds always. `StaffCancelRefunded` is liveness.

**Check-in dispatch.** `AtMostOneLink`; `NeverEarly`: a booking is claimed in its lead window,
or it is imported and the sync moved it out of the window after the claimer had read it
(the UPDATE that claims asks for the marker only, so that race does send links early);
`SweepLeavesNothing` (what was due when a sweep began and stayed due is claimed when it ends)
and, as liveness, `DueIsClaimed`.

**Calendar sync.** `HashIsTruth` is what the short-circuit relies on: where a feed has a
hash and nothing came between, the rows mirror the events the hash was taken from. A death
between the statements is a disturbance only while the stored hash still stands for other
events, which is what brings the next sweep back: a sync that stored its hash before its
statements would break the property.
`ElapsedNightsStay` keeps "the vanishing past". `RefinesImportedRows` holds whatever overlaps: a
plan may be stale when its statement runs, yet the statement only does one of four things to
a row, and never half of one (new dates come with the confirmed status). `Converges` is liveness.

**Slots cache.** `StaleEntryExplained` accounts for every write an entry hides: its
invalidation is to come, was lost or never sent, or ran while the reader that filled the
entry already held its rows. `RefinesView` is the bound on staleness, `EventuallyCurrent`
liveness.

**Guest roster.** `RosterCapacity` says exactly how far count-then-insert can overshoot: by
the overlapping requests less one. `PurgeLeavesNames` says that the only full identities of
a purged booking came after the purge had nulled the others, and whence: they were typed in
at the desk, or the booking is imported and they came through a link issued for a check-out
later than the purge went by (the sync cut the stay short, and the link was not told).
`PurgeComplete` holds for runs that end, `IdentitiesExpire` is liveness in spite
of runs that die. `LinkLivesThroughStay` says that every link of a confirmed booking works
while its guests may be in the house, unless the sync extended an imported stay by the grace
or more after the link was issued (`Outrun`). It also compares the two expiries in the code:
they differ on the last grace day only, when the endpoint hands out a link that is already
dead.

**Clients.** `RefundsAccountedFor`: refunds beyond a confirmed one are exactly the unheard
ones, so three attempts can mean three refunds if payments-ms does not recognise them.
`HopsChecked` and `FetchBounded` (no URL twice, no more requests than redirects allowed) are
about redirects. `ClientsRefineRetry` is the refinement of
`BoundedRetry` by all three, `CallsAnswered` liveness.

**Queries.** `PagesExplained` bounds what a walk misses and repeats by what joined and left
the result meanwhile. `ViewsAgree` compares the four rules; its exceptions are real: a manager
finds the bookings they made as a guest in the list, and gets 404 for each of them.

**Numbers and keys.** `OwnNumberAccepted` names the one person the form refuses wrongly, a
foreigner whose number reads as an EGN. `SlipsCaught` lists the single mistyped digits that
pass. `RotationReadable` names the two ways a rotation can make a field unreadable.

## Runs

| Run | Instance | Shows |
|---|---|---|
| `LifecycleCreate` | 3 requests, 1 import, 2 days, horizon 5, a blocked night, gap filler settings | `NightsSoldOnce`, `BlockedNightsUnsold`, `ConflictsAreReal` under racing creates |
| `LifecycleResale` | 2 requests, 2 PATCHes, 1 import on the same nights | `TypeOK`; cancel, resale and re-confirmation keep `NightsSoldOnce` |
| `LifecyclePatch` | 1 booking, 2 PATCHes by guest, owner or admin, stays 0, 1, 5, 7 days ahead, midnight inside | transitions, refunds at every tier boundary, mails; `StaffCancelRefunded` under fairness |
| `Dispatch` | 2 bookings, one of them imported and moved within or out of the window, 2 tasks, a sweep, batch size 1, a crash | dispatch safety and liveness |
| `CalendarSync` | 1 feed, 2 UIDs, sweep and one sync-now, 2 edits, 1 mishap, 2 days | sync safety and liveness, the refinement of `ImportedRows` |
| `SlotsCache` | 2 readers, a writer, a sync, DELETE, 2 writes, TTL 2, fill 1 | explanation, refinement and liveness of the cache |
| `GuestRoster` | 2 bookings for 1 guest, one of them imported, 2 identities, a purge run, batch 1, window 2, grace 1, half days 0 to 3; `part` chooses: 2 requests overlap, or the sync moves check-outs and a run dies | roster safety and liveness |
| `Parts` | `part` chooses: refund with 3 attempts, price with 2, fetch with 2 attempts, 5 URLs (4 listed) and 3 redirects, query with 4 rows and 2 writes, form with 5 dates and 8 serials, keys with 3 keys and 2 pods | the parts that share nothing |
| `FindDoubleBooking` | 2 requests | the comment on `SELECT FOR UPDATE` is wrong: no row, no lock |
| `FindUnreleasedClaim` | the instance of `Dispatch` | a refused link keeps its claim |
| `FindUnreconciled` | 1 feed, 1 UID, no mishaps | an insert that was skipped is not reconciled by the next sweep |
| `FindIdentityAfterPurge` | the instance of `GuestRoster`, nothing imported | "only names survive" fails: an admin may add a guest to a confirmed booking that is marked as purged, and no later run looks at it |

### Why the bounds are enough to be interesting

* Double sale needs two writers; a third booking shows that a night freed and resold is
  not sold again, and a neighbour shows back-to-back stays and single-night gaps.
* Two PATCHes of one booking reach every order of read, save and refund of two of them.
  The proofs are for any number. Requests, imports and PATCHes of equal role are
  interchangeable: `MCSymmetry` permutes them in runs with no liveness.
* Two days (`LastToday = 1`) put midnight between any two steps of a handler once. The
  refund schedule is crossed by placing stays at its boundaries instead of by more days.
* A batch size of one makes every second booking need a second batch.
* The imported booking of `Dispatch` starts two days after the first day, with a lead of one
  day: moved to day 2 or 3 it is due tomorrow or never in the run, so it can enter the window,
  leave it between read and claim, and come back.
* The check-outs of `GuestRoster` (`Ends`) are days 0 and 1, the grace of one day: a link issued
  for day 1 outlives a stay cut to day 0, one issued for day 0 is outrun by a stay extended to
  day 1. Overlapping requests and moved stays are looked at one at a time (`part` of
  `MCGuestRoster`) to keep the run small; the proofs have both at once.
* Two UIDs let one sync have statements of two kinds, with a death between them; two
  edits let a stay appear and then move, vanish or come back. Several feeds are left to
  the proof: a second feed only ever disturbs the first.
* Two readers let one fill over the other's entry while two writes invalidate in either
  order; a TTL of two ticks separates an entry that ages from one that expires.
* Two requests for a booking of one guest are the race of `RosterCapacity`. Three half
  days past the first reach the expiry of the link and then the end of the window, in
  both time zones. `LinksDieFirst` (the token's grace and a request under way are shorter
  than the window) holds in production by a wide margin: by default the grace is one day
  and the window fourteen.
* Five URLs, one of them unlisted, and three redirects allow chains that fill the cap,
  cycles of every length below it, and a way out to an unlisted host at each hop.
* A page of two and four rows give up to three pages; two writes between them move rows
  over a page boundary in either direction.
* The birth dates lie at the ends of the centuries' month offsets and on a leap day; all
  ten places and all nine wrong digits are tried.
* Three keys let the first be retired while a pod still holds it alone.

`CHECK_DEADLOCK FALSE` stands in the lifecycle, calendar and parts instances: with every
request answered, every feed deleted or a call over, nothing is left to do. In the others
the cron job or the clock of the cache goes on for ever.

### Fairness

* `BookingLifecycle`: a handler that has saved is resumed (`WF` per handler); requests,
  clock, deletion and crashes are under no obligation.
* `CheckinDispatch`: `WF` on the steps of the sweep, its start included: the cron job
  keeps calling and asyncio resumes an awaiting task. A killed sweep is not resumed.
* `CalendarSync`: `WF(SweepBegin)` for the CronJob and `WF(Resume(s))` per sync. Fetching is
  enabled whenever a feed is due and timeouts bound it (`calendar_sync_fetch_timeout`);
  failures are bounded by `MaxMishaps`, otherwise no convergence could be promised.
* `SlotsCache`: a reader that holds rows stores them or dies, whoever has written
  invalidates or fails to, and time passes. No reader or writer has to begin, and a sync
  that wrote nothing need not come to its invalidation.
* `GuestRoster`: `WF(PurgeStep(p))`, the CronJob that keeps calling; deaths are bounded by
  `MaxDeaths`. Requests, clearings and the clock are under no obligation.
* Clients: `WF` on the next step of each, since every request has a timeout and every sleep is finite.
  Queries, forms and keys have no fairness.

## Proofs

The proofs hold for every value of the constants under the named assumptions of the
modules (stays are not empty, null values are no data, bounds are naturals, actors are
finite sets where they are counted).

* `BookingLifecycleProofs`: `IInv` of `BookingLifecycleInv` is inductive. `NightsSoldOnce` needs to
  know what a transaction may rely on between its check and its insert
  (`ChecksStillHold`); refunds and mails need what a PATCH may rely on while it is
  suspended (`SnapshotsAreCurrent`) and that a cancellation nobody contests is final
  (`CancelsAreFinal`). The theorems listed in `PROJECT.json` follow.
* `CheckinDispatchProofs`: the claim is exclusive (`ClaimsAreExclusive`). What is on its way to
  a claim was in its lead window at the date it had when it was read, and only imported
  bookings have another date by now (`WindowsAreOpen`), which leaves `NeverEarly` its one
  exception. The last batch of a sweep contains all that was due and still is
  (`LastBatchHasAll`), which needs the cardinality argument that a short batch is the whole of
  the query.
* `CalendarSyncProofs`: `WrittenIsSettled` and `SettledMirrors` say that the diff is a fixed
  point of its own statements and that a row it leaves alone mirrors the feed, that day
  and later. `UndisturbedPlansHold` carries this through the statements: an undisturbed
  sync's plan is always what it would plan now, so once nothing is left to write the
  rows mirror the feed. `HashesFit` links the short-circuit to the stored hash, and says that
  a sync that writes has other events in hand than the hash it loaded stands for, which is
  why a death between its statements leaves the hash a disagreeing one. For the
  refinement, `WrittenIsAllowed` takes a planned write to what `ImportedRows` allows of the
  row as it is now, not as the diff saw it, `ApplyIsStatement` a statement to a `Statement`,
  and `DaysHaveCome` (no sync's day lies ahead) is what a truncation needs; the other steps
  are `NextDay`, `DeleteRow` or stutters (`StepImports`).
* `SlotsCacheProofs`: the entry's explanation is not inductive alone. A reader's rows must be
  explained before they are stored (`ReadersExplained`), the current version must not have
  begun to age (`CurrentIsNew`), and what a reader holds is no older than its fill
  (`ReadersAge`), so that what it stores leaves `EntryAge` true: age and time left of an entry
  add up to less than the bound. The refinement maps `Hit` and `Store` to `Answer`, commits and
  deletes to `Write`, and the rest but `Tick` to stutters.
* `GuestRosterProofs`: `LinksTimely` (a request by link began while that link lived, by the
  check-out it was issued for) and `PurgesTimely` (the window had passed since the cutoff of
  a purge when it began) meet in the assumption `LinksDieFirst`: a guest who arrives by link
  after `PurgeNull` had a link for a later check-out than the cutoff, and only an imported
  stay can have had one, since nothing else is ever moved (`StaysFixed`). So `StrippedIsLate`
  is inductive, and `MarkedIsStripped` gives `PurgeLeavesNames`. `BatchesWhole` follows
  what was due at the start and stayed so through the batches and gives `PurgeComplete`.
  `RosterCapacity` is a sum of two cardinalities which an insert moves by one each;
  it speaks of guests by link, as admins are not counted in. `LinkLivesThroughStay`
  needs a grace of at least one day: without one the link is dead on the day of check-out
  (the theorem states it as its hypothesis).
* `ClientProofs`: `Underway` and `Heard` tie a refund call's place to its books, and with it
  the answer heard last to whether another attempt may begin. The trace of
  an attempt at a feed is clean (`AllClean`: each request was listed and resolved, no two
  alike), its URLs are among the visited, and `HopIsNew` says that the URL about to be asked
  for is in no request yet, which is what makes the next trace clean. `ClientsKeepPromise`
  maps the steps of all three clients to steps of `BoundedRetry`.
* `QueriesProofs`: `PagesExplained` speaks of the end of a walk only. While it goes on, the
  bookings that matched all along and are *behind* the offset without having been shown are
  no more than `left` (`MissedForLeft`), and the repeats so far plus the bookings shown that
  are now *ahead* of it no more than `joined` (`RepeatedForJoined`). Places are a bijection
  (`RankInjective`), so one write moves at most one booking across the offset
  (`BehindAfterLeft`, `AheadAfterJoined` and their like), and a short page has nothing behind
  it (`ShortPageIsLast`): two bookings have two places, so a result that reaches beyond the
  page fills it. `ViewsAgree` follows from the scope rules alone, for any callers and rows.
* `GuestDataProofs`: a wrong digit changes the weighted sum by its weight times a difference
  between -9 and 9. For an EGN the remainder by 11 changes, since no such product is a
  multiple of 11 (`EgnSlip`), and so does the check digit unless the remainders were 0 and 10;
  for an LNCh each weight has no factor in common with 10 (`LnchSlip`). A wrong digit among
  the first six makes another date or none (`DateSlip`): a century shows both in
  the base of the year and in the offset of the month, so one digit cannot change it. That an
  own number passes is the registries' rule read backwards (`CitizenNumber`,
  `SpelledIsEncoded`). For the keys: one that a field or a pod still needs is in the setting
  or was taken off hastily (`NeededIsKept`), and a pod that lacks a key of the setting runs
  since before it was added (`LackingIsUnseen`).

Every invariant, action property and refinement that a run checks is also a theorem. Left to
TLC are liveness (`StaffCancelRefunded`, `DueIsClaimed`, `Converges`, `EventuallyCurrent`,
`IdentitiesExpire`, `CallsAnswered`), whose fairness is beyond the prover, and the violation
runs.

## Where the code and its words differ

The four `Find...` runs show disagreements with a comment, a docstring or a doc. Met while
modelling, and followed as the code has them:

* `parse_ics` says that a VEVENT without DTSTART raises; the code skips it, so its UID
  counts as vanished (`Parsed` in `CalendarSync`).
* A host that DNS does not know raises the same error as an unlisted one, so a passing DNS
  failure is not retried (`HostRefused` in `FeedFetch`).
* `sync_feed` says that it never raises; a charset nobody knows, a malformed URL or a `Location`
  that cannot be read raises past what it and `fetch_ics` catch (`ReadBody`, `CheckListed`,
  `HostRefused`, `GetRefused`, `GetFails`), and the rest of the sweep goes too (`Killed`).
* `get_booking_from_checkin_token` calls the token valid until `end_date` + grace; the expiry is
  fixed when the token is issued, and the sync may move `end_date` afterwards, either way
  (`Authenticates`, `Outrun`).
* `checkin_link_sent_at` and `guest_data_purged_at` survive a re-dating: a stay that the sync
  moves is mailed no second link, and once purged is not purged again (`Redate`, `SyncStatement`).
* A manager who booked as a guest is told 404 by the single GET (`Gets`).
* `egn.py` says that a number may be either EGN or LNCh; a foreigner's LNCh that also reads
  as an EGN is compared with the date it seems to encode and refused (`PinAgrees`).
* The token expires at the start of the last grace day; the endpoint that hands it out
  accepts that day (`LinkLives`, `HandsOutLink`).

## Not modelled, and why

* Prices: they decide nothing in the modelled handlers.
* Enrichment of lists with names, and the list of occupied properties: they read other
  services and change nothing. The filter by property acts like the one by status.
* `ical_parser` is covered as far as which events survive; the conversion of timed values to
  local dates is the library's. Sniffing whether a stored value is a token or plaintext
  is left out of `FieldKeys`: every value is a token.
* Header parsing, logging, metrics, rate limits, i18n and start-up keep no state of their
  own; migrations are generated. Clients of properties-ms, users-ms and
  notifications-ms are thin: their answers are choices of the handlers that call them.
* A short stay that was allowed for a gap may lose its neighbour before the insert; two
  feeds of one channel cancel each other's rows. The code promises nothing else, so no
  property asks for more (see the notes in `PROJECT.json`).

## What is left to do

1. The correspondence of `ImportedRows` with the `Channel...` actions as a refinement: it
   needs a mapping that stretches one statement over several steps of `BookingLifecycle`.
2. Several feeds of one channel in an instance of `CalendarSync`, with the property the
   team decides on for them.
3. Lemmas on gap adjacency and on the tiers of the refund schedule.
