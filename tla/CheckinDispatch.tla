--------------------------- MODULE CheckinDispatch ---------------------------
(***************************************************************************)
(* The check-in link: a task spawned by a confirmation and the daily sweep  *)
(* both look for bookings without checkin_link_sent_at, claim one by        *)
(* setting it, and then mail the link.                                      *)
(***************************************************************************)
EXTENDS Integers, FiniteSets

CONSTANTS
  Bookings,
  Tasks,      \* post-confirm tasks
  Sweeps,     \* runs of the dispatch endpoint that may be under way at once
  Imported,   \* those that came with a calendar feed
  Start,      \* Start[b]: check-in date at first
  Dates,      \* the check-in dates a feed may give
  LeadDays,   \* CHECKIN_DISPATCH_LEAD_DAYS
  BatchSize,
  LastToday,  \* bound: the last day the clock reaches
  MaxKills,   \* bound: how often a process dies
  NoBooking

ASSUME DatesAssumption  == /\ Start \in [Bookings -> Nat] /\ Dates \subseteq Nat
                           /\ LeadDays \in Nat /\ LastToday \in Nat
ASSUME BatchAssumption  == BatchSize \in Nat \ {0}
ASSUME KillsAssumption  == MaxKills \in Nat
ASSUME ActorsAssumption == Tasks \cap Sweeps = {} /\ NoBooking \notin Bookings

Senders == Tasks \cup Sweeps

VARIABLES
  today,
  start,    \* start[b]: check-in date
  row,      \* the booking: confirmed, gone (deleted), or open (any other status)
  marker,   \* checkin_link_sent_at is set
  pc,       \* where each sender is
  target,   \* the booking it is handling
  seen,     \* seen[s][b]: the check-in date of b as s last read it
  cutoff,   \* the latest check-in date the sweep asks for
  batch,    \* what is left of the sweep's batch
  full,     \* the batch had BatchSize rows
  link,     \* what became of the last request to mail the link
  requests, \* how many such requests were made, counted up to two
  backlog,  \* history: what was due when the sweep began and has been since
  kills     \* how many processes died

sweepVars == <<cutoff, batch, full, backlog>>
linkVars  == <<link, requests>>
vars == <<today, start, row, marker, pc, target, seen, sweepVars, linkVars, kills>>

PC == {"idle", "spawned", "selecting", "walking", "due", "claimed", "sending", "done"}

Goes(s, from, to) == pc[s] = from /\ pc' = [pc EXCEPT ![s] = to]

-----------------------------------------------------------------------------
(* What the rest of the service does to a booking.                          *)

(* The PATCH saves confirmed whatever the status was, and then spawns the   *)
(* task, unless the process dies first; it refuses an imported booking.     *)
Confirm(b) ==
  /\ b \notin Imported /\ row[b] # "gone"
  /\ row' = [row EXCEPT ![b] = "confirmed"]
  /\ \/ \E t \in Tasks : Goes(t, "idle", "spawned") /\ target' = [target EXCEPT ![t] = b]
     \/ UNCHANGED <<pc, target>>
  /\ UNCHANGED <<today, start, marker, seen, sweepVars, linkVars, kills>>

(* The sync gives an imported booking the dates of its feed and confirms it, *)
(* spawning no task; a sweep or task that has read the row is not told.      *)
Redate(b) ==
  /\ b \in Imported /\ row[b] # "gone"
  /\ start' \in { [start EXCEPT ![b] = d] : d \in Dates }
  /\ row' = [row EXCEPT ![b] = "confirmed"]
  /\ backlog' = [w \in Sweeps |-> { c \in backlog[w] : start'[c] <= cutoff[w] }]
  /\ UNCHANGED <<today, marker, pc, target, seen, cutoff, batch, full, linkVars, kills>>

Leave(b) ==
  /\ row[b] = "confirmed"
  /\ \E r \in {"open", "gone"} : row' = [row EXCEPT ![b] = r]
  /\ backlog' = [w \in Sweeps |-> backlog[w] \ {b}]
  /\ UNCHANGED <<today, start, marker, pc, target, seen, cutoff, batch, full, linkVars, kills>>

-----------------------------------------------------------------------------
(* maybe_send_checkin_link: the booking is loaded afresh.                   *)

Cutoff == today + LeadDays

TaskLoad(t) ==
  LET b == target[t] IN
  /\ pc[t] = "spawned"
  /\ Goes(t, "spawned",
       IF row[b] = "confirmed" /\ ~marker[b] /\ start[b] <= Cutoff THEN "due" ELSE "done")
  /\ seen' = [seen EXCEPT ![t][b] = start[b]]
  /\ UNCHANGED <<today, start, row, marker, target, sweepVars, linkVars, kills>>

-----------------------------------------------------------------------------
(* dispatch_checkin_links: batches until one is not full.                   *)

(* Slips: the check-in date must be exactly the cutoff; it is not looked at. *)
DueAnyDay(b, day) == row[b] = "confirmed" /\ ~marker[b]
DueExactly(b, day) == row[b] = "confirmed" /\ ~marker[b] /\ start[b] = day

Due(b, day) == row[b] = "confirmed" /\ ~marker[b] /\ start[b] <= day

SweepStart(w) ==
  /\ pc[w] \in {"idle", "done"}
  /\ pc' = [pc EXCEPT ![w] = "selecting"]
  /\ cutoff' = [cutoff EXCEPT ![w] = Cutoff]
  /\ backlog' = [backlog EXCEPT ![w] = { b \in Bookings : Due(b, Cutoff) }]
  /\ UNCHANGED <<today, start, seen, row, marker, target, batch, full, linkVars, kills>>

Batches(w) ==
  LET due == { b \in Bookings : Due(b, cutoff[w]) } IN
  { d \in SUBSET due :
      IF Cardinality(due) <= BatchSize THEN d = due ELSE Cardinality(d) = BatchSize }

SweepSelect(w) ==
  /\ \E d \in Batches(w) :
       /\ Goes(w, "selecting", IF d = {} THEN "done" ELSE "walking")
       /\ batch' = [batch EXCEPT ![w] = d]
       /\ full' = [full EXCEPT ![w] = Cardinality(d) = BatchSize]
       /\ seen' = [seen EXCEPT ![w] = [b \in Bookings |-> IF b \in d THEN start[b] ELSE @[b]]]
  /\ UNCHANGED <<today, start, row, marker, target, cutoff, backlog, linkVars, kills>>

SweepPick(w) ==
  /\ Goes(w, "walking", "due")
  /\ \E b \in batch[w] :
       /\ target' = [target EXCEPT ![w] = b]
       /\ batch' = [batch EXCEPT ![w] = @ \ {b}]
  /\ UNCHANGED <<today, start, seen, row, marker, cutoff, full, backlog, linkVars, kills>>

(* A slip: one batch and no more.                                            *)
AfterBatchOnce(w) == "done"

AfterBatch(w) == IF full[w] THEN "selecting" ELSE "done"

SweepTurn(w) ==
  /\ batch[w] = {}
  /\ Goes(w, "walking", AfterBatch(w))
  /\ UNCHANGED <<today, start, seen, row, marker, target, sweepVars, linkVars, kills>>

-----------------------------------------------------------------------------
(* send_checkin_link                                                        *)

Finished(s) == IF s \in Sweeps THEN "walking" ELSE "done"

(* A slip: the claim does not look at the marker.                            *)
ClaimableIfStored(b) == row[b] # "gone"

Claimable(b) == row[b] # "gone" /\ ~marker[b]

(* UPDATE ... WHERE checkin_link_sent_at IS NULL: the status is not asked    *)
(* again.                                                                    *)
Claim(s) ==
  LET b == target[s] IN
  /\ pc[s] = "due"
  /\ IF Claimable(b)
       THEN Goes(s, "due", "claimed") /\ marker' = [marker EXCEPT ![b] = TRUE]
       ELSE Goes(s, "due", Finished(s)) /\ UNCHANGED marker
  /\ UNCHANGED <<today, start, seen, row, target, sweepVars, linkVars, kills>>

(* users-ms answers with an address or with none; an outage is none.        *)
Address(s) ==
  /\ Goes(s, "claimed", "sending") \/ Goes(s, "claimed", Finished(s))
  /\ UNCHANGED <<today, start, seen, row, marker, target, sweepVars, linkVars, kills>>

(* A slip: the client lets its errors out.                                   *)
NotifyOutcomesRaising == {"accepted", "failed", "raised"}

(* NotificationsClient.send logs a refusal or an error and returns.          *)
NotifyOutcomes == {"accepted", "failed"}

(* An error would release the claim and end the sweep.                       *)
Send(s) ==
  LET b == target[s] IN
  /\ \E outcome \in NotifyOutcomes :
       /\ Goes(s, "sending", IF outcome = "raised" THEN "done" ELSE Finished(s))
       /\ marker' = IF outcome = "raised" THEN [marker EXCEPT ![b] = FALSE] ELSE marker
       /\ link' = [link EXCEPT ![b] = outcome]
  /\ requests' = [requests EXCEPT ![b] = IF @ < 2 THEN @ + 1 ELSE @]
  /\ UNCHANGED <<today, start, seen, row, target, sweepVars, kills>>

-----------------------------------------------------------------------------
Killed(s) ==
  /\ kills < MaxKills
  /\ pc[s] \notin {"idle", "done"}
  /\ pc' = [pc EXCEPT ![s] = "done"]
  /\ kills' = kills + 1
  /\ backlog' = [w \in Sweeps |-> IF w = s THEN {} ELSE backlog[w]]
  /\ UNCHANGED <<today, start, seen, row, marker, target, cutoff, batch, full, linkVars>>

NextDay ==
  /\ today < LastToday
  /\ today' = today + 1
  /\ UNCHANGED <<start, seen, row, marker, pc, target, sweepVars, linkVars, kills>>

Init ==
  /\ today = 0
  /\ start = Start
  /\ row = [b \in Bookings |-> "open"]
  /\ marker = [b \in Bookings |-> FALSE]
  /\ pc = [s \in Senders |-> "idle"]
  /\ target = [s \in Senders |-> NoBooking]
  /\ seen = [s \in Senders |-> Start]
  /\ cutoff = [w \in Sweeps |-> 0]
  /\ batch = [w \in Sweeps |-> {}]
  /\ full = [w \in Sweeps |-> FALSE]
  /\ link = [b \in Bookings |-> "none"]
  /\ requests = [b \in Bookings |-> 0]
  /\ backlog = [w \in Sweeps |-> {}]
  /\ kills = 0

SendStep(s)  == Claim(s) \/ Address(s) \/ Send(s)
SweepStep(w) == SweepStart(w) \/ SweepSelect(w) \/ SweepPick(w) \/ SweepTurn(w) \/ SendStep(w)

Next ==
  \/ NextDay
  \/ \E b \in Bookings : Confirm(b) \/ Redate(b) \/ Leave(b)
  \/ \E t \in Tasks : TaskLoad(t) \/ SendStep(t)
  \/ \E w \in Sweeps : SweepStep(w)
  \/ \E s \in Senders : Killed(s)

(* The cron job keeps calling the endpoint, and a sweep that is not killed    *)
(* is resumed.                                                               *)
Fairness == \A w \in Sweeps : WF_vars(SweepStep(w))

Spec == Init /\ [][Next]_vars /\ Fairness

-----------------------------------------------------------------------------
(* Properties.                                                              *)

(* Every variable stays in its domain, and a sender past its choice has a    *)
(* booking.                                                                  *)
TypeOK ==
  /\ today \in Nat
  /\ start \in [Bookings -> Nat]
  /\ row \in [Bookings -> {"open", "confirmed", "gone"}]
  /\ marker \in [Bookings -> BOOLEAN]
  /\ pc \in [Senders -> PC]
  /\ target \in [Senders -> Bookings \cup {NoBooking}]
  /\ seen \in [Senders -> [Bookings -> Nat]]
  /\ cutoff \in [Sweeps -> Nat]
  /\ batch \in [Sweeps -> SUBSET Bookings]
  /\ full \in [Sweeps -> BOOLEAN]
  /\ link \in [Bookings -> {"none", "accepted", "failed"}]
  /\ requests \in [Bookings -> 0 .. 2]
  /\ backlog \in [Sweeps -> SUBSET Bookings]
  /\ kills \in 0 .. MaxKills
  /\ \A s \in Senders : pc[s] \in {"spawned", "due", "claimed", "sending"} => target[s] \in Bookings

(* notifications-ms is asked at most once for the link of a booking, however *)
(* many confirmations, tasks and sweeps meet.                                *)
AtMostOneLink == \A b \in Bookings : requests[b] <= 1

(* A booking is claimed in its lead window, unless the sync moved its        *)
(* check-in after the claimer had read it, due at the date it then had: the  *)
(* UPDATE that claims asks for the marker only.                              *)
MovedSinceRead(s, b) ==
  b \in Imported /\ seen[s][b] <= Cutoff /\ seen[s][b] < start[b]

NeverEarly ==
  [][ \A b \in Bookings :
        ~marker[b] /\ marker'[b] =>
          \/ start[b] <= Cutoff
          \/ \E s \in Senders : pc[s] = "due" /\ target[s] = b /\ MovedSinceRead(s, b) ]_vars

(* A sweep that ends by itself has left behind no booking that was due when  *)
(* it began and stayed due, confirmed and in the window: each is claimed.    *)
SweepLeavesNothing ==
  [][ \A w \in Sweeps :
        pc[w] \in {"selecting", "walking"} /\ pc'[w] = "done" /\ kills' = kills
          => \A b \in backlog[w] : marker[b] ]_vars

(* A booking that is due and stays so is claimed in the end, also when it    *)
(* was confirmed late, when its task died and when sweeps died.              *)
DueIsClaimed ==
  \A b \in Bookings :
    row[b] = "confirmed" /\ start[b] <= Cutoff
      ~> (marker[b] \/ row[b] # "confirmed" \/ start[b] > Cutoff)

(* What the docstring of send_checkin_link says of a failed send: the claim  *)
(* is released so that a later sweep retries.                                *)
Holds(s, b) == pc[s] \in {"claimed", "sending"} /\ target[s] = b

FailedSendReleases ==
  \A b \in Bookings :
    link[b] = "failed" /\ (\A s \in Senders : ~Holds(s, b)) => ~marker[b]

-----------------------------------------------------------------------------
(* The inductive invariant behind the safety properties.                    *)

(* Whoever holds a claim is alone with it, the marker is set, and the link   *)
(* has not been asked for; after the request the marker stays.               *)
ClaimsAreExclusive ==
  /\ \A s \in Senders, b \in Bookings : Holds(s, b) => marker[b] /\ requests[b] = 0
  /\ \A r, s \in Senders, b \in Bookings : Holds(r, b) /\ Holds(s, b) => r = s
  /\ \A b \in Bookings : requests[b] > 0 => marker[b]

(* Whatever is on its way to a claim had reached its lead window when it was *)
(* read, and only an imported booking has another date than it was read to   *)
(* have.                                                                     *)
WindowsAreOpen ==
  /\ \A w \in Sweeps : cutoff[w] <= Cutoff
  /\ \A w \in Sweeps : \A b \in batch[w] : seen[w][b] <= Cutoff
  /\ \A s \in Senders : pc[s] = "due" => seen[s][target[s]] <= Cutoff
  /\ \A b \in Bookings \ Imported :
       start[b] = Start[b] /\ \A s \in Senders : seen[s][b] = Start[b]

(* What was due when the sweep began and has been since is in sight of       *)
(* the sweep's query; in the last batch it is claimed, in hand or waiting.   *)
LastBatchHasAll ==
  \A w \in Sweeps : \A b \in backlog[w] :
    /\ row[b] = "confirmed" /\ start[b] <= cutoff[w]
    /\ pc[w] \in {"walking", "due", "claimed", "sending"} /\ ~full[w] =>
         marker[b] \/ b \in batch[w] \/ (pc[w] = "due" /\ target[w] = b)

IInv ==
  /\ TypeOK
  /\ AtMostOneLink
  /\ ClaimsAreExclusive
  /\ WindowsAreOpen
  /\ LastBatchHasAll
=============================================================================
