---------------------------- MODULE ClientProofs ----------------------------
(***************************************************************************)
(* Proofs about the clients of other services, for any number of attempts,  *)
(* any URLs and any number of redirects: what is known of the refunds, what *)
(* a fetch asks for, and that each client keeps the promise of BoundedRetry.*)
(***************************************************************************)
EXTENDS Clients, TLAPS

-----------------------------------------------------------------------------
(* Refunds.                                                                 *)

RefundCalls ==
  [pc : {"asking", "waiting", "answered", "sleeping", "returned"},
   attempt : 0..RefundAttempts, last : RefundAnswer, result : {"none", "true", "false"}]

(* No result while the call runs; it has asked before it hears, and at most  *)
(* once per attempt was a refund made.                                      *)
Underway ==
  /\ refundCall.result = "none" <=> refundCall.pc # "returned"
  /\ refundCall.pc \in {"waiting", "answered", "returned"} => refundCall.attempt > 0
  /\ refunds <= (IF refundCall.pc = "waiting" THEN refundCall.attempt - 1 ELSE refundCall.attempt)
  /\ refundCall.pc \in {"asking", "sleeping"} => refundCall.attempt < RefundAttempts

(* What was heard is the only refund that may be known.                     *)
Heard ==
  /\ unheard <= refunds
  /\ refundCall.pc \in {"answered", "returned"} /\ refundCall.last = "success" => refunds = unheard + 1
  /\ ~(refundCall.pc \in {"answered", "returned"} /\ refundCall.last = "success") => refunds = unheard
  /\ refundCall.result = "true" => refundCall.last = "success"
  /\ refundCall.result = "false" => refundCall.last # "success"
  /\ refundCall.result = "false" /\ refundCall.last # "rejected" => refundCall.attempt = RefundAttempts
  /\ refundCall.pc \in {"asking", "waiting", "sleeping"} => refundCall.last \notin {"success", "rejected"}

RefundIInv == RefundTypeOK /\ Underway /\ Heard

LEMMA FirstRefundCall == RefundInit => RefundIInv
BY RefundAttemptsPositive DEF RefundInit, RefundIInv, RefundTypeOK, Underway, Heard, RefundAnswer

LEMMA RefundStep ==
  ASSUME RefundIInv, [RefundNext]_refundVars
  PROVE  RefundIInv'
<1> USE RefundAttemptsPositive DEF RefundIInv
<1>1. /\ refundCall \in RefundCalls /\ refunds \in Nat /\ unheard \in Nat
      /\ refundCall.attempt \in Nat /\ refundCall.attempt <= RefundAttempts
      /\ RefundAttempts \in Nat
  BY DEF RefundTypeOK, RefundCalls
<1>2. Underway /\ Heard
  OBVIOUS
<1>3. CASE Post
  <2>1. refundCall.pc = "asking" /\ refundCall.attempt + 1 \in 0..RefundAttempts
    BY <1>1, <1>2, <1>3 DEF Post, Underway
  <2>2. /\ refundCall' \in RefundCalls /\ refundCall'.pc = "waiting"
        /\ refundCall'.attempt = refundCall.attempt + 1
        /\ refundCall'.last = refundCall.last /\ refundCall'.result = refundCall.result
    BY <1>1, <1>3, <2>1 DEF Post, RefundCalls, RefundAnswer
  <2> QED
    BY <1>1, <1>3, <2>1, <2>2 DEF Post, RefundCalls, RefundTypeOK, Underway, Heard
<1>4. CASE Refunded
  <2>1. refundCall.pc = "waiting" /\ refunds' = refunds + 1 /\ unheard' = unheard
    BY <1>1, <1>4 DEF Refunded, Hears
  <2>2. /\ refundCall' \in RefundCalls /\ refundCall'.pc = "answered"
        /\ refundCall'.attempt = refundCall.attempt
        /\ refundCall'.last = "success" /\ refundCall'.result = refundCall.result
    BY <1>1, <1>4, <2>1 DEF Refunded, Hears, RefundCalls, RefundAnswer
  <2> QED
    BY <1>1, <1>4, <2>1, <2>2 DEF Refunded, RefundCalls, RefundTypeOK, Underway, Heard
<1>5. CASE RefundedUnheard
  <2>1. refundCall.pc = "waiting" /\ refunds' = refunds + 1 /\ unheard' = unheard + 1
    BY <1>1, <1>5 DEF RefundedUnheard, Hears
  <2>2. /\ refundCall' \in RefundCalls /\ refundCall'.pc = "answered"
        /\ refundCall'.attempt = refundCall.attempt
        /\ refundCall'.last # "success" /\ refundCall'.result = refundCall.result
    BY <1>1, <1>5, <2>1 DEF RefundedUnheard, Hears, RefundCalls, RefundAnswer
  <2> QED
    BY <1>1, <1>5, <2>1, <2>2 DEF RefundedUnheard, RefundCalls, RefundTypeOK, Underway, Heard
<1>6. CASE NotRefunded
  <2>1. refundCall.pc = "waiting" /\ refunds' = refunds /\ unheard' = unheard
    BY <1>1, <1>6 DEF NotRefunded, Hears
  <2>2. /\ refundCall' \in RefundCalls /\ refundCall'.pc = "answered"
        /\ refundCall'.attempt = refundCall.attempt
        /\ refundCall'.last # "success" /\ refundCall'.result = refundCall.result
    BY <1>1, <1>6, <2>1 DEF NotRefunded, Hears, RefundCalls, RefundAnswer
  <2> QED
    BY <1>1, <1>6, <2>1, <2>2 DEF NotRefunded, RefundCalls, RefundTypeOK, Underway, Heard
<1>7. CASE Success
  <2>1. refundCall.pc = "answered" /\ refundCall.last = "success" /\ UNCHANGED <<refunds, unheard>>
    BY <1>1, <1>7 DEF Success, IsSuccess, Return
  <2>2. /\ refundCall' \in RefundCalls /\ refundCall'.pc = "returned"
        /\ refundCall'.attempt = refundCall.attempt
        /\ refundCall'.last = "success" /\ refundCall'.result = "true"
    BY <1>1, <1>7, <2>1 DEF Success, IsSuccess, Return, RefundCalls, RefundAnswer
  <2> QED
    BY <1>1, <1>7, <2>1, <2>2 DEF Success, RefundCalls, RefundTypeOK, Underway, Heard
<1>8. CASE Rejected
  <2>1. refundCall.pc = "answered" /\ UNCHANGED <<refunds, unheard>>
    BY <1>1, <1>8 DEF Rejected, IsSuccess, Return
  <2>2. /\ refundCall' \in RefundCalls /\ refundCall'.pc = "returned"
        /\ refundCall'.attempt = refundCall.attempt
        /\ refundCall'.last = "rejected" /\ refundCall'.result = "false"
    BY <1>1, <1>8, <2>1 DEF Rejected, IsSuccess, Return, RefundCalls, RefundAnswer
  <2> QED
    BY <1>1, <1>8, <2>1, <2>2 DEF Rejected, RefundCalls, RefundTypeOK, Underway, Heard
<1>9. CASE RefundSleep
  <2>1. /\ refundCall.pc = "answered" /\ refundCall.last \notin {"success", "rejected"}
        /\ refundCall.attempt < RefundAttempts
        /\ UNCHANGED <<refunds, unheard>>
    BY <1>1, <1>9 DEF RefundSleep, IsSuccess, HasRefundAttempts
  <2>2. /\ refundCall' \in RefundCalls /\ refundCall'.pc = "sleeping"
        /\ refundCall'.attempt = refundCall.attempt
        /\ refundCall'.last = refundCall.last /\ refundCall'.result = refundCall.result
    BY <1>1, <1>9, <2>1 DEF RefundSleep, IsSuccess, HasRefundAttempts, RefundCalls, RefundAnswer
  <2> QED
    BY <1>1, <1>9, <2>1, <2>2 DEF RefundSleep, RefundCalls, RefundTypeOK, Underway, Heard
<1>10. CASE RefundWake
  <2>1. refundCall.pc = "sleeping" /\ UNCHANGED <<refunds, unheard>>
    BY <1>1, <1>10 DEF RefundWake
  <2>2. /\ refundCall' \in RefundCalls /\ refundCall'.pc = "asking"
        /\ refundCall'.attempt = refundCall.attempt
        /\ refundCall'.last = refundCall.last /\ refundCall'.result = refundCall.result
    BY <1>1, <1>10, <2>1 DEF RefundWake, RefundCalls, RefundAnswer
  <2> QED
    BY <1>1, <1>10, <2>1, <2>2 DEF RefundWake, RefundCalls, RefundTypeOK, Underway, Heard
<1>11. CASE Exhausted
  <2>1. /\ refundCall.pc = "answered" /\ refundCall.last # "success"
        /\ refundCall.attempt = RefundAttempts
        /\ UNCHANGED <<refunds, unheard>>
    BY <1>1, <1>11 DEF Exhausted, IsSuccess, HasRefundAttempts, Return
  <2>2. /\ refundCall' \in RefundCalls /\ refundCall'.pc = "returned"
        /\ refundCall'.attempt = refundCall.attempt
        /\ refundCall'.last = refundCall.last /\ refundCall'.result = "false"
    BY <1>1, <1>11, <2>1
      DEF Exhausted, IsSuccess, HasRefundAttempts, Return, RefundCalls, RefundAnswer
  <2> QED
    BY <1>1, <1>11, <2>1, <2>2 DEF Exhausted, RefundCalls, RefundTypeOK, Underway, Heard
<1>12. CASE UNCHANGED refundVars
  BY <1>1, <1>12 DEF refundVars, RefundTypeOK, Underway, Heard
<1> QED
  BY <1>3, <1>4, <1>5, <1>6, <1>7, <1>8, <1>9, <1>10, <1>11, <1>12 DEF RefundNext

(* The refunds nobody confirmed are exactly the unheard ones, throughout.    *)
THEOREM RefundInvariance == RefundSpec => []RefundIInv
<1> QED
  BY FirstRefundCall, RefundStep, PTL DEF RefundSpec

(* However many attempts: true is never said of a refund that was not made,  *)
(* and no refund is asked for after one that was heard.                     *)
THEOREM RefundsAccountedForHolds == RefundSpec => []RefundsAccountedFor
<1>1. RefundIInv => RefundsAccountedFor
  BY DEF RefundIInv, RefundTypeOK, Underway, Heard, RefundsAccountedFor
<1> QED
  BY <1>1, RefundInvariance, PTL

(* What the client has heard and told.                                      *)
RefundHeard == CASE refundCall.last = "success"  -> "done"
                 [] refundCall.last = "rejected" -> "refused"
                 [] OTHER                        -> "open"
RefundTold == CASE refundCall.result = "none" -> "none"
                [] refundCall.result = "true" -> "done"
                [] OTHER -> IF refundCall.last = "rejected" THEN "refused" ELSE "given_up"

LEMMA RefundStepRefines ==
  ASSUME RefundIInv, [RefundNext]_refundVars
  PROVE  [RefundRetry!Next]_(RefundRetry!vars)
<1> USE RefundAttemptsPositive
<1>1. /\ refundCall \in RefundCalls /\ refundCall.attempt \in Nat
      /\ refundCall.attempt <= RefundAttempts
  BY DEF RefundIInv, RefundTypeOK, RefundCalls
<1>2. Underway /\ Heard
  BY DEF RefundIInv
<1>3. ASSUME refundCall'.attempt = refundCall.attempt, RefundHeard' = RefundHeard,
             RefundTold' = RefundTold
      PROVE  UNCHANGED RefundRetry!vars
  BY <1>3 DEF RefundRetry!vars, RefundHeard, RefundTold
<1>4. CASE Post
  <2>1. /\ refundCall.result = "none" /\ refundCall.attempt < RefundAttempts
        /\ refundCall.last \notin {"success", "rejected"}
    BY <1>1, <1>2, <1>4 DEF Post, Underway, Heard
  <2>2. /\ refundCall'.result = refundCall.result /\ refundCall'.last = refundCall.last
        /\ refundCall'.attempt = refundCall.attempt + 1
    BY <1>1, <1>4 DEF Post, RefundCalls
  <2> QED
    BY <2>1, <2>2 DEF RefundRetry!Next, RefundRetry!Try
<1>5. CASE Refunded \/ RefundedUnheard \/ NotRefunded
  <2>1. PICK answer \in RefundAnswer \ {"none"} :
          refundCall' = [refundCall EXCEPT !.pc = "answered", !.last = answer]
    BY <1>5 DEF Refunded, RefundedUnheard, NotRefunded, Hears, RefundAnswer
  <2>2. /\ refundCall.result = "none" /\ refundCall.attempt > 0
        /\ refundCall.last \notin {"success", "rejected"}
    BY <1>1, <1>2, <1>5 DEF Refunded, RefundedUnheard, NotRefunded, Underway, Heard
  <2>3. /\ refundCall'.result = refundCall.result /\ refundCall'.attempt = refundCall.attempt
        /\ refundCall'.last = answer
    BY <1>1, <2>1 DEF RefundCalls
  <2>4. CASE answer \in {"success", "rejected"}
    BY <2>2, <2>3, <2>4 DEF RefundRetry!Next, RefundRetry!Hear
  <2>5. CASE answer \notin {"success", "rejected"}
    BY <1>3, <2>2, <2>3, <2>5 DEF RefundHeard, RefundTold
  <2> QED
    BY <2>4, <2>5
<1>6. CASE Success
  <2>1. /\ refundCall.result = "none" /\ refundCall'.result = "true"
        /\ refundCall.last = "success" /\ refundCall'.last = refundCall.last
        /\ refundCall'.attempt = refundCall.attempt
    BY <1>1, <1>2, <1>6 DEF Success, IsSuccess, Return, Underway, RefundCalls
  <2> QED
    BY <2>1 DEF RefundRetry!Next, RefundRetry!Tell
<1>7. CASE Rejected
  <2>1. /\ refundCall.result = "none" /\ refundCall'.result = "false"
        /\ refundCall.last = "rejected" /\ refundCall'.last = refundCall.last
        /\ refundCall'.attempt = refundCall.attempt
    BY <1>1, <1>2, <1>7 DEF Rejected, Return, Underway, RefundCalls
  <2> QED
    BY <2>1 DEF RefundRetry!Next, RefundRetry!Tell
<1>8. CASE RefundSleep \/ RefundWake
  <2>1. /\ refundCall'.result = refundCall.result /\ refundCall'.last = refundCall.last
        /\ refundCall'.attempt = refundCall.attempt
    BY <1>1, <1>8 DEF RefundSleep, RefundWake, RefundCalls
  <2> QED
    BY <1>3, <2>1 DEF RefundHeard, RefundTold
<1>9. CASE Exhausted
  <2>1. /\ refundCall.result = "none" /\ refundCall.attempt = RefundAttempts
        /\ refundCall.last \notin {"success", "rejected"}
    BY <1>1, <1>2, <1>9 DEF Exhausted, IsSuccess, HasRefundAttempts, Underway
  <2>2. /\ refundCall'.result = "false" /\ refundCall'.last = refundCall.last
        /\ refundCall'.attempt = refundCall.attempt
    BY <1>1, <1>9 DEF Exhausted, Return, RefundCalls
  <2> QED
    BY <2>1, <2>2 DEF RefundRetry!Next, RefundRetry!GiveUp
<1>10. CASE UNCHANGED refundVars
  BY <1>3, <1>10 DEF refundVars, RefundHeard, RefundTold
<1> QED
  BY <1>4, <1>5, <1>6, <1>7, <1>8, <1>9, <1>10 DEF RefundNext

(* The client of payments-ms implements BoundedRetry.                       *)
THEOREM RefundKeepsPromise == RefundSpec => RefundRefinesRetry
<1>1. RefundInit => RefundRetry!Init
  BY DEF RefundInit, RefundRetry!Init
<1> QED
  BY <1>1, RefundInvariance, RefundStepRefines, PTL
    DEF RefundSpec, RefundRefinesRetry, RefundRetry!Spec

-----------------------------------------------------------------------------
(* Prices.                                                                  *)

(* It has asked before it is answered; while it asks it has heard nothing;   *)
(* an outcome ends it.                                                      *)
PricingIInv ==
  /\ PricingTypeOK
  /\ pricingCall.pc \in {"waiting", "answered", "over"} => pricingCall.attempt > 0
  /\ pricingCall.pc \in {"asking", "waiting"} => pricingCall.last \in {"none", "no_answer"}
  /\ pricingCall.pc = "answered" => pricingCall.last # "none"
  /\ pricingCall.outcome = "none" <=> pricingCall.pc # "over"

Prices == [pc : {"asking", "waiting", "answered", "over"}, attempt : 0..PricingAttempts,
           last : PriceAnswer, outcome : PriceOutcome]

LEMMA Meanings ==
  \A a \in PriceAnswer \ {"none", "no_answer"} :
    /\ a = "price" => Meaning[a] = "priced"
    /\ a # "price" => Meaning[a] \in {"gap_error", "bad_gateway", "raised"}
BY DEF PriceAnswer, Meaning

LEMMA PriceStep ==
  ASSUME PricingIInv, [PricingNext]_(pricingVars)
  PROVE  PricingIInv' /\ [PricingRetry!Next]_(PricingRetry!vars)
<1> USE PricingAttemptsPositive DEF PricingRetry!vars
<1>1. /\ pricingCall \in Prices /\ pricingCall.attempt \in Nat
      /\ pricingCall.attempt <= PricingAttempts
      /\ pricingCall.pc \in {"waiting", "answered", "over"} => pricingCall.attempt > 0
      /\ pricingCall.pc \in {"asking", "waiting"} => pricingCall.last \in {"none", "no_answer"}
      /\ pricingCall.pc = "answered" => pricingCall.last # "none"
      /\ pricingCall.outcome = "none" <=> pricingCall.pc # "over"
      /\ PricingAttempts \in Nat
  BY DEF PricingIInv, PricingTypeOK, Prices
<1>2. CASE GetPrice
  <2>1. /\ pricingCall.pc = "asking" /\ pricingCall.attempt < PricingAttempts
        /\ pricingCall' = [pricingCall EXCEPT !.pc = "waiting", !.attempt = pricingCall.attempt + 1]
    BY <1>2 DEF GetPrice, HasPricingAttempts
  <2>2. pricingCall.outcome = "none" /\ pricingCall.attempt + 1 \in 0..PricingAttempts
    BY <1>1, <2>1
  <2>3. /\ pricingCall' \in Prices /\ pricingCall'.pc = "waiting"
        /\ pricingCall'.attempt = pricingCall.attempt + 1
        /\ pricingCall'.last = pricingCall.last
        /\ pricingCall'.outcome = pricingCall.outcome
    BY <1>1, <2>1, <2>2 DEF Prices
  <2>4. PricingIInv'
    BY <1>1, <2>1, <2>2, <2>3 DEF PricingIInv, Prices, PricingTypeOK
  <2>5. PricingRetry!Try
    BY <1>1, <2>1, <2>2, <2>3 DEF PricingRetry!Try
  <2> QED
    BY <2>4, <2>5 DEF PricingRetry!Next
<1>3. CASE Respond
  <2>1. PICK a \in PriceAnswer \ {"none"} :
          pricingCall' = [pricingCall EXCEPT !.pc = "answered", !.last = a]
    BY <1>3 DEF Respond
  <2>2. /\ pricingCall' \in Prices /\ pricingCall'.pc = "answered"
        /\ pricingCall'.attempt = pricingCall.attempt
        /\ pricingCall'.outcome = pricingCall.outcome /\ pricingCall'.last = a
    BY <1>1, <2>1 DEF Prices
  <2>3. pricingCall.pc = "waiting"
    BY <1>3 DEF Respond
  <2>4. PricingIInv'
    BY <1>1, <2>2, <2>3 DEF PricingIInv, Prices, PricingTypeOK
  <2>5. CASE a = "no_answer"
    BY <1>1, <2>2, <2>3, <2>4, <2>5
  <2>6. CASE a # "no_answer"
    BY <1>1, <2>2, <2>3, <2>4, <2>6 DEF PricingRetry!Next, PricingRetry!Hear
  <2> QED
    BY <2>5, <2>6
<1>4. CASE PricingAgain
  <2>1. /\ pricingCall.pc = "answered" /\ pricingCall.last = "no_answer"
        /\ pricingCall' = [pricingCall EXCEPT !.pc = "asking"]
    BY <1>4 DEF PricingAgain, IsTransient
  <2>2. /\ pricingCall' \in Prices /\ pricingCall'.pc = "asking"
        /\ pricingCall'.attempt = pricingCall.attempt
        /\ pricingCall'.last = pricingCall.last
        /\ pricingCall'.outcome = pricingCall.outcome
    BY <1>1, <2>1 DEF Prices
  <2> QED
    BY <1>1, <2>1, <2>2 DEF PricingIInv, Prices, PricingTypeOK
<1>5. CASE PricingSettle
  <2> DEFINE m == Meaning[pricingCall.last]
  <2>1. /\ pricingCall.pc = "answered"
        /\ pricingCall' = [pricingCall EXCEPT !.pc = "over", !.outcome = m]
    BY <1>5 DEF PricingSettle
  <2>2. pricingCall.last \in PriceAnswer \ {"none", "no_answer"}
    BY <1>1, <1>5, <2>1 DEF PricingSettle, IsTransient, Prices
  <2>3. /\ pricingCall.last = "price" => m = "priced"
        /\ pricingCall.last # "price" => m \in {"gap_error", "bad_gateway", "raised"}
    BY <2>2, Meanings
  <2> HIDE DEF m
  <2>4. /\ pricingCall' \in Prices /\ pricingCall'.pc = "over"
        /\ pricingCall'.attempt = pricingCall.attempt /\ pricingCall'.outcome = m
        /\ pricingCall'.last = pricingCall.last
    BY <1>1, <2>1, <2>3 DEF Prices, PriceOutcome
  <2>5. PricingIInv'
    BY <1>1, <2>1, <2>3, <2>4 DEF PricingIInv, Prices, PricingTypeOK
  <2>6. PricingRetry!Tell
    BY <1>1, <2>1, <2>2, <2>3, <2>4 DEF PricingRetry!Tell
  <2> QED
    BY <2>5, <2>6 DEF PricingRetry!Next
<1>6. CASE Unreachable
  <2>1. /\ pricingCall.pc = "asking" /\ ~(pricingCall.attempt < PricingAttempts)
        /\ pricingCall' = [pricingCall EXCEPT !.pc = "over", !.outcome = "unreachable"]
    BY <1>6 DEF Unreachable, HasPricingAttempts
  <2>2. /\ pricingCall' \in Prices /\ pricingCall'.pc = "over"
        /\ pricingCall'.attempt = pricingCall.attempt
        /\ pricingCall'.last = pricingCall.last
        /\ pricingCall'.outcome = "unreachable"
    BY <1>1, <2>1 DEF Prices, PriceOutcome
  <2>3. pricingCall.attempt = PricingAttempts
    BY <1>1, <2>1
  <2>4. PricingIInv'
    BY <1>1, <2>1, <2>2, <2>3 DEF PricingIInv, Prices, PricingTypeOK
  <2>5. PricingRetry!GiveUp
    BY <1>1, <2>1, <2>2, <2>3 DEF PricingRetry!GiveUp
  <2> QED
    BY <2>4, <2>5 DEF PricingRetry!Next
<1>7. CASE UNCHANGED pricingVars
  BY <1>7 DEF pricingVars, PricingIInv, PricingTypeOK
<1> QED
  BY <1>2, <1>3, <1>4, <1>5, <1>6, <1>7 DEF PricingNext

(* The client of properties-ms implements BoundedRetry.                     *)
THEOREM PricingKeepsPromise == PricingSpec => PricingRefinesRetry
<1>1. PricingInit => PricingIInv /\ PricingRetry!Init
  BY PricingAttemptsPositive DEF PricingInit, PricingIInv, PricingTypeOK, PricingRetry!Init,
     PriceAnswer, PriceOutcome
<1> QED
  BY <1>1, PriceStep, PTL DEF PricingSpec, PricingRefinesRetry, PricingRetry!Spec

-----------------------------------------------------------------------------
(* Feeds.                                                                   *)

Hop == [url : Urls, resolved : Urls]

(* The requests of an attempt are checked, distinct and few.                *)
Clean(s) ==
  /\ Len(s) <= MaxRedirects + 1
  /\ \A i \in 1..Len(s) : s[i].url \in Listed /\ s[i].resolved = s[i].url
  /\ \A i, j \in 1..Len(s) : s[i].url = s[j].url => i = j

AskedUrls(s) == { s[i].url : i \in 1..Len(s) }

Hopping  == {"visiting", "listing", "resolving", "getting"}
Midway   == {"listing", "resolving", "getting"}
Trace    == asked[fetchCall.attempt]

AllClean ==
  /\ \A a \in Attempts : Clean(asked[a])
  /\ \A a \in Attempts : a > fetchCall.attempt => asked[a] = <<>>

(* What was asked for in this attempt was visited; the hop under way is new, *)
(* and has passed the checks behind it.                                     *)
HopIsNew ==
  /\ fetchCall.pc \in Hopping => Len(Trace) = hops /\ AskedUrls(Trace) \subseteq visited
  /\ fetchCall.pc \in Midway => hops <= MaxRedirects /\ current \in visited /\ current \notin AskedUrls(Trace)
  /\ fetchCall.pc \in {"resolving", "getting"} => current \in Listed
  /\ fetchCall.pc = "getting" => resolved = current

(* An attempt that runs was not preceded by one that settled the matter.     *)
Ended ==
  /\ fetchCall.outcome = "none" <=> fetchCall.pc # "over"
  /\ fetchCall.pc = "sleeping" => fetchCall.attempt < FetchAttempts
  /\ fetchCall.pc = "ended" => fetchCall.last # "none"
  /\ fetchCall.pc \notin {"ended", "over"} => fetchCall.last \in {"none", "fetch_error"}

FetchIInv == FetchTypeOK /\ AllClean /\ HopIsNew /\ Ended

-----------------------------------------------------------------------------

LEMMA NoTrace == Clean(<<>>) /\ AskedUrls(<<>>) = {} /\ Len(<<>>) = 0
<1>1. Len(<<>>) = 0 /\ 1..0 = {}
  OBVIOUS
<1> QED
  BY <1>1, FetchBounds DEF Clean, AskedUrls

(* One more request for a listed URL that has just been found public.        *)
LEMMA OneMore ==
  ASSUME NEW s \in Seq(Hop), Clean(s), Len(s) <= MaxRedirects,
         NEW u \in Listed, u \notin AskedUrls(s)
  PROVE  LET t == Append(s, [url |-> u, resolved |-> u])
         IN  t \in Seq(Hop) /\ Clean(t) /\ Len(t) = Len(s) + 1 /\ AskedUrls(t) = AskedUrls(s) \cup {u}
<1> DEFINE h == [url |-> u, resolved |-> u]
<1> DEFINE t == Append(s, h)
<1>1. h \in Hop /\ h.url = u /\ h.resolved = u
  BY FetchUrls DEF Hop
<1> HIDE DEF h
<1>2. /\ t \in Seq(Hop) /\ Len(s) \in Nat /\ Len(t) = Len(s) + 1 /\ t[Len(s) + 1] = h
      /\ \A i \in 1..Len(s) : t[i] = s[i]
  BY <1>1
<1> HIDE DEF t
<1>3. \A i \in 1..Len(t) : i \in 1..Len(s) \/ i = Len(s) + 1
  BY <1>2
<1>4. Len(t) <= MaxRedirects + 1
  BY <1>2, FetchBounds
<1>5. \A i \in 1..Len(t) : t[i].url \in Listed /\ t[i].resolved = t[i].url
  BY <1>1, <1>2, <1>3 DEF Clean
<1>6. \A i \in 1..Len(s) : t[i].url # u
  BY <1>2 DEF AskedUrls
<1>7. \A i, j \in 1..Len(t) : t[i].url = t[j].url => i = j
  <2> SUFFICES ASSUME NEW i \in 1..Len(t), NEW j \in 1..Len(t), t[i].url = t[j].url
               PROVE  i = j
    OBVIOUS
  <2>1. CASE i \in 1..Len(s) /\ j \in 1..Len(s)
    BY <1>2, <2>1 DEF Clean
  <2>2. CASE i = Len(s) + 1
    BY <1>1, <1>2, <1>3, <1>6, <2>2
  <2>3. CASE j = Len(s) + 1
    BY <1>1, <1>2, <1>3, <1>6, <2>3
  <2> QED
    BY <1>3, <2>1, <2>2, <2>3
<1>8. AskedUrls(t) = AskedUrls(s) \cup {u}
  <2>1. AskedUrls(t) \subseteq AskedUrls(s) \cup {u}
    BY <1>1, <1>2, <1>3 DEF AskedUrls
  <2>2. Len(s) + 1 \in 1..Len(t)
    BY <1>2
  <2>3. u \in AskedUrls(t)
    BY <1>1, <1>2, <2>2 DEF AskedUrls
  <2>4. \A i \in 1..Len(s) : i \in 1..Len(t)
    BY <1>2
  <2>5. AskedUrls(s) \subseteq AskedUrls(t)
    BY <1>2, <2>4 DEF AskedUrls
  <2> QED
    BY <2>1, <2>3, <2>5
<1> QED
  BY <1>2, <1>4, <1>5, <1>7, <1>8 DEF Clean, t, h

-----------------------------------------------------------------------------
(* The steps.                                                               *)

FetchCalls ==
  [pc : {"visiting", "listing", "resolving", "getting", "reading", "ended", "sleeping", "over"},
   attempt : Attempts, last : FetchOutcome, outcome : FetchOutcome]

LEMMA CallTyped ==
  ASSUME FetchTypeOK
  PROVE  /\ fetchCall \in FetchCalls /\ fetchCall.attempt \in Attempts
         /\ asked \in [Attempts -> Seq(Hop)] /\ Trace \in Seq(Hop)
BY DEF FetchTypeOK, FetchCalls, Hop, Trace

LEMMA Going ==
  ASSUME FetchTypeOK, NEW pc \in {"visiting", "listing", "resolving", "getting", "reading", "ended", "sleeping"},
         Goes(pc)
  PROVE  /\ fetchCall' \in FetchCalls /\ fetchCall'.pc = pc
         /\ fetchCall'.attempt = fetchCall.attempt
         /\ fetchCall'.last = fetchCall.last /\ fetchCall'.outcome = fetchCall.outcome
BY CallTyped DEF Goes, FetchCalls

LEMMA Ending ==
  ASSUME FetchTypeOK, NEW how \in FetchOutcome, Ends(how)
  PROVE  /\ fetchCall' \in FetchCalls /\ fetchCall'.pc = "ended"
         /\ fetchCall'.attempt = fetchCall.attempt
         /\ fetchCall'.last = how /\ fetchCall'.outcome = fetchCall.outcome
BY CallTyped DEF Ends, FetchCalls

LEMMA Returning ==
  ASSUME FetchTypeOK, NEW o \in FetchOutcome,
         fetchCall' = [fetchCall EXCEPT !.pc = "over", !.outcome = o]
  PROVE  /\ fetchCall' \in FetchCalls /\ fetchCall'.pc = "over"
         /\ fetchCall'.attempt = fetchCall.attempt
         /\ fetchCall'.last = fetchCall.last /\ fetchCall'.outcome = o
BY CallTyped DEF FetchCalls

(* A step that neither asks nor starts another attempt keeps the traces.     *)
LEMMA TracesKept ==
  ASSUME AllClean, asked' = asked, fetchCall'.attempt = fetchCall.attempt
  PROVE  AllClean' /\ Trace' = Trace
BY DEF AllClean, Trace

LEMMA RequestMade ==
  ASSUME FetchIInv, FetchAt("getting"), asked' = Asked, fetchCall'.attempt = fetchCall.attempt
  PROVE  /\ AllClean' /\ asked' \in [Attempts -> Seq(Hop)]
         /\ Len(Trace') = hops + 1 /\ AskedUrls(Trace') \subseteq visited
<1> USE DEF FetchIInv
<1>1. fetchCall.attempt \in Attempts /\ asked \in [Attempts -> Seq(Hop)] /\ Trace \in Seq(Hop)
  BY CallTyped
<1>2. /\ Len(Trace) = hops /\ AskedUrls(Trace) \subseteq visited /\ hops <= MaxRedirects
      /\ current \in visited /\ current \notin AskedUrls(Trace) /\ current \in Listed
      /\ resolved = current
  BY DEF HopIsNew, FetchAt, Hopping, Midway
<1>3. Clean(Trace)
  BY <1>1 DEF AllClean, Trace
<1> DEFINE t == Append(Trace, [url |-> current, resolved |-> current])
<1>4. /\ t \in Seq(Hop) /\ Clean(t) /\ Len(t) = hops + 1
      /\ AskedUrls(t) = AskedUrls(Trace) \cup {current}
  BY <1>1, <1>2, <1>3, OneMore
<1>5. asked' = [asked EXCEPT ![fetchCall.attempt] = t]
  BY <1>2 DEF Asked, Trace
<1> HIDE DEF t
<1>6. Trace' = t
  BY <1>1, <1>5 DEF Trace
<1>7. AllClean'
  <2>1. \A a \in Attempts : asked'[a] = IF a = fetchCall.attempt THEN t ELSE asked[a]
    BY <1>1, <1>5
  <2>2. \A a \in Attempts : a > fetchCall.attempt => a # fetchCall.attempt
    BY <1>1 DEF Attempts
  <2> QED
    BY <1>4, <2>1, <2>2 DEF AllClean
<1> QED
  BY <1>1, <1>2, <1>4, <1>5, <1>6, <1>7

LEMMA FirstHop ==
  ASSUME FetchInit
  PROVE  FetchIInv
<1> USE FetchBounds, FetchUrls
<1>1. 1 \in Attempts /\ \A a \in Attempts : asked[a] = <<>>
  BY DEF FetchInit, Attempts
<1>2. FetchTypeOK
  <2>1. fetchCall \in FetchCalls
    BY <1>1 DEF FetchInit, FetchCalls, FetchOutcome
  <2>2. 0 \in 0..(MaxRedirects + 1) /\ <<>> \in Seq(Hop)
    OBVIOUS
  <2> QED
    BY <2>1, <2>2 DEF FetchInit, FetchTypeOK, FetchCalls, Hop
<1>3. AllClean
  BY <1>1, NoTrace DEF AllClean
<1>4. /\ Trace = <<>> /\ hops = 0
      /\ fetchCall.pc = "visiting" /\ fetchCall.outcome = "none" /\ fetchCall.last = "none"
  BY <1>1 DEF FetchInit, Trace
<1>5. HopIsNew
  BY <1>4, NoTrace DEF HopIsNew, Midway, Hopping
<1>6. Ended
  BY <1>4 DEF Ended
<1> QED
  BY <1>2, <1>3, <1>5, <1>6 DEF FetchIInv

LEMMA FetchStep ==
  ASSUME FetchIInv, [FetchNext]_fetchVars
  PROVE  FetchIInv'
<1> USE FetchBounds, FetchUrls DEF FetchIInv
<1>1. /\ fetchCall \in FetchCalls /\ fetchCall.attempt \in Attempts /\ Trace \in Seq(Hop)
      /\ asked \in [Attempts -> Seq(Hop)] /\ hops \in Nat /\ visited \subseteq Urls
      /\ current \in Urls
      /\ resolved \in Urls /\ hops \in 0..(MaxRedirects + 1)
  <2>1. /\ visited \subseteq Urls /\ current \in Urls /\ resolved \in Urls
        /\ hops \in 0..(MaxRedirects + 1)
    BY DEF FetchTypeOK
  <2>2. hops \in Nat
    BY <2>1
  <2> QED
    BY <2>1, <2>2, CallTyped
<1>2. CASE Visit
  <2>1. /\ fetchCall' \in FetchCalls /\ fetchCall'.pc = "listing"
        /\ fetchCall'.attempt = fetchCall.attempt
        /\ fetchCall'.last = fetchCall.last /\ fetchCall'.outcome = fetchCall.outcome
    BY <1>2, Going DEF Visit
  <2>2. /\ fetchCall.pc = "visiting" /\ hops <= MaxRedirects /\ current \notin visited
        /\ visited' = visited \cup {current} /\ UNCHANGED <<current, hops, resolved, asked>>
    BY <1>2 DEF Visit, FetchAt, HasHops, IsCyclic
  <2>3. AllClean' /\ Trace' = Trace
    BY <2>1, <2>2, TracesKept
  <2>4. HopIsNew'
    BY <2>1, <2>2, <2>3 DEF HopIsNew, Hopping, Midway
  <2>5. FetchTypeOK' /\ Ended'
    BY <1>1, <2>1, <2>2 DEF FetchTypeOK, FetchCalls, Ended
  <2> QED
    BY <2>3, <2>4, <2>5
<1>3. CASE FetchSleep
  <2>1. /\ fetchCall' \in FetchCalls /\ fetchCall'.pc = "sleeping"
        /\ fetchCall'.attempt = fetchCall.attempt
        /\ fetchCall'.last = fetchCall.last /\ fetchCall'.outcome = fetchCall.outcome
        /\ fetchCall.pc = "ended" /\ fetchCall.last = "fetch_error"
        /\ fetchCall.attempt < FetchAttempts
    BY <1>3, Going DEF FetchSleep, FetchAt, HasFetchAttempts, IsCaught
  <2>2. UNCHANGED <<current, hops, visited, resolved, asked>>
    BY <1>3 DEF FetchSleep
  <2>3. AllClean' /\ HopIsNew'
    BY <2>1, <2>2, TracesKept DEF HopIsNew, Hopping, Midway
  <2>4. FetchTypeOK' /\ Ended'
    BY <1>1, <2>1, <2>2 DEF FetchTypeOK, FetchCalls, Ended
  <2> QED
    BY <2>3, <2>4
<1>13. ASSUME NEW how \in FetchOutcome \ {"none"}, Ends(how), fetchCall.pc \notin {"ended", "over"},
              UNCHANGED <<current, hops, visited, resolved, asked>>
       PROVE  FetchIInv'
  <2>1. /\ fetchCall' \in FetchCalls /\ fetchCall'.pc = "ended"
        /\ fetchCall'.attempt = fetchCall.attempt
        /\ fetchCall'.last = how /\ fetchCall'.outcome = fetchCall.outcome
    BY <1>13, Ending
  <2>2. AllClean' /\ HopIsNew'
    BY <1>13, <2>1, TracesKept DEF HopIsNew, Hopping, Midway
  <2>3. FetchTypeOK' /\ Ended'
    BY <1>1, <1>13, <2>1 DEF FetchTypeOK, FetchCalls, Ended
  <2> QED
    BY <2>2, <2>3
<1>4. CASE CheckListed
  <2>1. fetchCall.pc = "listing" /\ UNCHANGED <<current, hops, visited, resolved, asked>>
    BY <1>4 DEF CheckListed, FetchAt
  <2>2. CASE current \in Listed
    <3>1. /\ fetchCall' \in FetchCalls /\ fetchCall'.pc = "resolving"
          /\ fetchCall'.attempt = fetchCall.attempt
          /\ fetchCall'.last = fetchCall.last /\ fetchCall'.outcome = fetchCall.outcome
      BY <1>4, <2>2, Going DEF CheckListed, IsListed
    <3>2. AllClean' /\ Trace' = Trace
      BY <2>1, <3>1, TracesKept
    <3>3. HopIsNew'
      BY <2>1, <2>2, <3>1, <3>2 DEF HopIsNew, Hopping, Midway
    <3> QED
      BY <1>1, <2>1, <3>1, <3>2, <3>3 DEF FetchTypeOK, FetchCalls, Ended
  <2>3. CASE current \notin Listed
    <3>1. PICK how \in {"url_error", "raised"} : Ends(how)
      BY <1>4, <2>3 DEF CheckListed, IsListed
    <3> QED
      BY <1>13, <2>1, <3>1 DEF FetchOutcome
  <2> QED
    BY <2>2, <2>3
<1>5. CASE HostPublic
  <2>1. /\ fetchCall' \in FetchCalls /\ fetchCall'.pc = "getting"
        /\ fetchCall'.attempt = fetchCall.attempt
        /\ fetchCall'.last = fetchCall.last /\ fetchCall'.outcome = fetchCall.outcome
    BY <1>5, Going DEF HostPublic
  <2>2. fetchCall.pc = "resolving" /\ resolved' = current /\ UNCHANGED <<current, hops, visited, asked>>
    BY <1>5 DEF HostPublic, FetchAt
  <2>3. AllClean' /\ Trace' = Trace
    BY <2>1, <2>2, TracesKept
  <2>4. HopIsNew'
    BY <2>1, <2>2, <2>3 DEF HopIsNew, Hopping, Midway
  <2> QED
    BY <1>1, <2>1, <2>2, <2>3, <2>4 DEF FetchTypeOK, FetchCalls, Ended
<1>6. CASE GiveUp \/ FetchEnds
  <2>1. PICK o \in FetchOutcome \ {"none"} :
          fetchCall' = [fetchCall EXCEPT !.pc = "over", !.outcome = o]
    <3>1. fetchCall.last \in FetchOutcome \ {"none"}
      BY <1>1, <1>6 DEF GiveUp, FetchEnds, FetchAt, Ended, FetchCalls
    <3> QED
      BY <1>6, <3>1 DEF GiveUp, FetchEnds, FetchOutcome
  <2>2. /\ fetchCall' \in FetchCalls /\ fetchCall'.pc = "over"
        /\ fetchCall'.attempt = fetchCall.attempt
        /\ fetchCall'.outcome = o
    BY <2>1, Returning
  <2>3. UNCHANGED <<current, hops, visited, resolved, asked>>
    BY <1>6 DEF FetchEnds, GiveUp
  <2>4. AllClean' /\ HopIsNew'
    BY <2>2, <2>3, TracesKept DEF HopIsNew, Hopping, Midway
  <2> QED
    BY <1>1, <2>2, <2>3, <2>4 DEF FetchTypeOK, FetchCalls, Ended
<1>7. CASE Redirect
  <2>1. /\ fetchCall' \in FetchCalls /\ fetchCall'.pc = "visiting"
        /\ fetchCall'.attempt = fetchCall.attempt
        /\ fetchCall'.last = fetchCall.last /\ fetchCall'.outcome = fetchCall.outcome
    BY <1>7, Going DEF Redirect
  <2>2. /\ FetchAt("getting") /\ fetchCall.pc = "getting" /\ asked' = Asked
        /\ current' \in Urls /\ hops' = hops + 1
        /\ UNCHANGED <<visited, resolved>>
    BY <1>7 DEF Redirect, FetchAt
  <2>3. /\ AllClean' /\ asked' \in [Attempts -> Seq(Hop)]
        /\ Len(Trace') = hops + 1 /\ AskedUrls(Trace') \subseteq visited
    BY <2>1, <2>2, RequestMade
  <2>4. HopIsNew'
    BY <2>1, <2>2, <2>3 DEF HopIsNew, Hopping, Midway
  <2>5. hops' \in 0..(MaxRedirects + 1)
    BY <1>1, <2>2 DEF HopIsNew, Midway
  <2> QED
    BY <1>1, <2>1, <2>2, <2>3, <2>4, <2>5 DEF FetchTypeOK, FetchCalls, Hop, Ended
<1>8. CASE GetFails
  <2>1. PICK how \in {"fetch_error", "raised"} : Ends(how)
    BY <1>8 DEF GetFails
  <2>2. /\ fetchCall' \in FetchCalls /\ fetchCall'.pc = "ended"
        /\ fetchCall'.attempt = fetchCall.attempt
        /\ fetchCall'.last = how /\ fetchCall'.outcome = fetchCall.outcome
    BY <2>1, Ending DEF FetchOutcome
  <2>3. /\ FetchAt("getting") /\ fetchCall.pc = "getting" /\ asked' = Asked
        /\ UNCHANGED <<current, hops, visited, resolved>>
    BY <1>8 DEF GetFails, FetchAt
  <2>4. AllClean' /\ asked' \in [Attempts -> Seq(Hop)]
    BY <2>2, <2>3, RequestMade
  <2>5. HopIsNew'
    BY <2>2 DEF HopIsNew, Hopping, Midway
  <2> QED
    BY <1>1, <2>1, <2>2, <2>3, <2>4, <2>5 DEF FetchTypeOK, FetchCalls, Hop, Ended
<1>9. CASE GetBody
  <2>1. /\ fetchCall' \in FetchCalls /\ fetchCall'.pc = "reading"
        /\ fetchCall'.attempt = fetchCall.attempt
        /\ fetchCall'.last = fetchCall.last /\ fetchCall'.outcome = fetchCall.outcome
    BY <1>9, Going DEF GetBody
  <2>2. /\ FetchAt("getting") /\ fetchCall.pc = "getting" /\ asked' = Asked
        /\ UNCHANGED <<current, hops, visited, resolved>>
    BY <1>9 DEF GetBody, FetchAt
  <2>3. AllClean' /\ asked' \in [Attempts -> Seq(Hop)]
    BY <2>1, <2>2, RequestMade
  <2>4. HopIsNew'
    BY <2>1 DEF HopIsNew, Hopping, Midway
  <2> QED
    BY <1>1, <2>1, <2>2, <2>3, <2>4 DEF FetchTypeOK, FetchCalls, Hop, Ended
<1>10. CASE HopRefused \/ HostRefused \/ GetRefused \/ ReadBody
  <2>1. /\ fetchCall.pc \notin {"ended", "over"}
        /\ UNCHANGED <<current, hops, visited, resolved, asked>>
    BY <1>10 DEF HopRefused, HostRefused, GetRefused, ReadBody, FetchAt
  <2>2. \E how \in FetchOutcome \ {"none"} : Ends(how)
    BY <1>10 DEF HopRefused, HostRefused, GetRefused, ReadBody, FetchOutcome
  <2> QED
    BY <1>13, <2>1, <2>2
<1>11. CASE FetchAgain
  <2>1. /\ fetchCall.attempt < FetchAttempts /\ fetchCall.pc = "sleeping"
        /\ fetchCall.last \in {"none", "fetch_error"}
    BY <1>11 DEF FetchAgain, FetchAt, Ended
  <2>2. fetchCall.attempt + 1 \in Attempts /\ fetchCall.attempt + 1 > fetchCall.attempt
    BY <1>1, <2>1 DEF Attempts
  <2>3. /\ fetchCall' = [fetchCall EXCEPT !.pc = "visiting", !.attempt = fetchCall.attempt + 1]
        /\ current' = Url /\ hops' = 0 /\ visited' = {} /\ UNCHANGED <<resolved, asked>>
    BY <1>11 DEF FetchAgain
  <2>4. /\ fetchCall' \in FetchCalls /\ fetchCall'.pc = "visiting"
        /\ fetchCall'.attempt = fetchCall.attempt + 1
        /\ fetchCall'.last = fetchCall.last /\ fetchCall'.outcome = fetchCall.outcome
    BY <1>1, <2>2, <2>3 DEF FetchCalls
  <2>5. Trace' = <<>>
    BY <2>2, <2>3, <2>4 DEF AllClean, Trace
  <2>6. HopIsNew'
    BY <2>3, <2>4, <2>5, NoTrace DEF HopIsNew, Hopping, Midway
  <2>7. \A a \in Attempts : a > fetchCall.attempt + 1 => a > fetchCall.attempt
    BY <1>1 DEF Attempts
  <2>8. AllClean'
    BY <2>3, <2>4, <2>7 DEF AllClean
  <2>9. FetchTypeOK'
    <3>1. current' \in Urls /\ resolved' \in Urls /\ visited' \subseteq Urls
      BY <1>1, <2>3
    <3>2. hops' \in 0..(MaxRedirects + 1)
      BY <2>3
    <3> QED
      BY <1>1, <2>3, <2>4, <3>1, <3>2 DEF FetchTypeOK, FetchCalls, Hop
  <2> QED
    BY <2>1, <2>4, <2>6, <2>8, <2>9 DEF Ended
<1>12. CASE UNCHANGED fetchVars
  BY <1>12 DEF fetchVars, FetchTypeOK, AllClean, HopIsNew, Trace, Ended
<1> QED
  BY <1>2, <1>3, <1>4, <1>5, <1>6, <1>7, <1>8, <1>9, <1>10, <1>11, <1>12 DEF FetchNext

(* The requests of every attempt are checked, distinct and few.             *)
THEOREM FetchInvariance == FetchSpec => []FetchIInv
<1> QED
  BY FirstHop, FetchStep, PTL DEF FetchSpec

LEMMA RequestOf ==
  ASSUME FetchIInv, NEW q \in Requests
  PROVE  q[1] \in Attempts /\ Clean(asked[q[1]]) /\ q[2] \in 1..Len(asked[q[1]])
<1>1. q[1] \in Attempts /\ q[2] \in 1..(MaxRedirects + 1) /\ q[2] <= Len(asked[q[1]])
  BY DEF Requests
<1>2. asked[q[1]] \in Seq(Hop)
  BY <1>1, CallTyped DEF FetchIInv
<1>3. Len(asked[q[1]]) \in Nat
  BY <1>2
<1> QED
  BY <1>1, <1>3, FetchBounds DEF FetchIInv, AllClean

(* Whatever the redirects: no request but to a listed URL, found public.     *)
THEOREM HopsCheckedHolds == FetchSpec => []HopsChecked
<1>1. FetchIInv => HopsChecked
  BY RequestOf DEF HopsChecked, Clean
<1> QED
  BY <1>1, FetchInvariance, PTL

(* Whatever the redirects: few requests, and none twice.                    *)
THEOREM FetchBoundedHolds == FetchSpec => []FetchBounded
<1>1. ASSUME FetchIInv
      PROVE  FetchBounded
  <2>1. \A a \in Attempts : Len(asked[a]) <= MaxRedirects + 1
    BY <1>1 DEF FetchIInv, AllClean, Clean
  <2>2. ASSUME NEW q \in Requests, NEW r \in Requests,
               q[1] = r[1], asked[q[1]][q[2]].url = asked[r[1]][r[2]].url
        PROVE  q = r
    <3>1. /\ Clean(asked[q[1]]) /\ q[2] \in 1..Len(asked[q[1]]) /\ r[2] \in 1..Len(asked[q[1]])
      BY <1>1, <2>2, RequestOf
    <3>2. q[2] = r[2]
      BY <2>2, <3>1 DEF Clean
    <3>3. q = <<q[1], q[2]>> /\ r = <<r[1], r[2]>>
      BY DEF Requests
    <3> QED
      BY <2>2, <3>2, <3>3
  <2> QED
    BY <2>1, <2>2 DEF FetchBounded
<1> QED
  BY <1>1, FetchInvariance, PTL

-----------------------------------------------------------------------------
(* The refinement.                                                          *)

Before    == fetchCall.pc = "visiting" /\ fetchCall.attempt = 1 /\ visited = {}
Tries     == IF Before THEN 0 ELSE fetchCall.attempt
FetchHeard == CASE fetchCall.last = "body"                   -> "done"
                [] fetchCall.last \in {"url_error", "raised"} -> "refused"
                [] OTHER                                     -> "open"
FetchTold == CASE fetchCall.outcome = "none"        -> "none"
               [] fetchCall.outcome = "body"        -> "done"
               [] fetchCall.outcome = "fetch_error" -> "given_up"
               [] OTHER                             -> "refused"

(* Nothing ends a fetch that has not visited its first URL.                 *)
LEMMA BeginsByVisiting ==
  ASSUME FetchIInv, Before
  PROVE  hops = 0 /\ current \notin visited
<1>1. Len(Trace) = hops /\ AskedUrls(Trace) = {} /\ Trace \in Seq(Hop)
  BY CallTyped DEF FetchIInv, HopIsNew, Before, Hopping
<1>2. Len(Trace) \in Nat
  BY <1>1
<1>3. ~(1 \in 1..Len(Trace))
  BY <1>1 DEF AskedUrls
<1> QED
  BY <1>1, <1>2, <1>3 DEF Before

LEMMA FetchStepRefines ==
  ASSUME FetchIInv, [FetchNext]_fetchVars
  PROVE  [FetchRetry!Next]_(FetchRetry!vars)
<1> USE FetchBounds
<1>1. /\ fetchCall \in FetchCalls /\ fetchCall.attempt \in Nat /\ fetchCall.attempt > 0
      /\ fetchCall.attempt <= FetchAttempts
      /\ FetchAttempts \in Nat /\ FetchTypeOK /\ Ended
  <2>1. fetchCall.attempt \in Attempts
    BY CallTyped DEF FetchIInv
  <2> QED
    BY <2>1, CallTyped DEF FetchIInv, Attempts
<1>2. ASSUME Tries' = Tries, FetchHeard' = FetchHeard, FetchTold' = FetchTold
      PROVE  UNCHANGED FetchRetry!vars
  BY <1>2 DEF Tries, FetchHeard, FetchTold, Before, FetchRetry!vars
<1>3. ASSUME FetchTold = "none", FetchHeard = "open", Tries < FetchAttempts, Tries' = Tries + 1,
             FetchTold' = FetchTold, FetchHeard' = FetchHeard
      PROVE  FetchRetry!Next
  BY <1>3 DEF Tries, FetchHeard, FetchTold, Before, FetchRetry!Next, FetchRetry!Try
<1>4. ASSUME FetchTold = "none", FetchHeard = "open", Tries > 0, Tries' = Tries,
             FetchTold' = FetchTold, FetchHeard' \in {"done", "refused"}
      PROVE  FetchRetry!Next
  BY <1>4 DEF Tries, FetchHeard, FetchTold, Before, FetchRetry!Next, FetchRetry!Hear
<1>5. ASSUME FetchTold = "none", FetchHeard # "open", Tries' = Tries,
             FetchTold' = FetchHeard, FetchHeard' = FetchHeard
      PROVE  FetchRetry!Next
  BY <1>5 DEF Tries, FetchHeard, FetchTold, Before, FetchRetry!Next, FetchRetry!Tell
<1>6. ASSUME FetchTold = "none", FetchHeard = "open", Tries = FetchAttempts, Tries' = Tries,
             FetchTold' = "given_up", FetchHeard' = FetchHeard
      PROVE  FetchRetry!Next
  BY <1>6 DEF Tries, FetchHeard, FetchTold, Before, FetchRetry!Next, FetchRetry!GiveUp
<1>7. /\ fetchCall.pc # "over" => FetchTold = "none"
      /\ fetchCall.pc \notin {"ended", "over"} => FetchHeard = "open"
  BY <1>1 DEF Ended, FetchHeard, FetchTold
(* A step of an attempt that goes on.                                       *)
<1>8. ASSUME NEW pc \in {"visiting", "listing", "resolving", "getting", "reading", "sleeping"}, Goes(pc)
      PROVE  /\ fetchCall'.pc = pc /\ fetchCall'.attempt = fetchCall.attempt
             /\ FetchHeard' = FetchHeard /\ FetchTold' = FetchTold
  BY <1>1, <1>8, Going DEF FetchHeard, FetchTold
(* A step that ends the attempt.                                            *)
<1>9. ASSUME NEW how \in FetchOutcome \ {"none"}, Ends(how), fetchCall.pc \notin {"ended", "over"},
             ~Before
      PROVE  [FetchRetry!Next]_(FetchRetry!vars)
  <2>1. /\ fetchCall'.pc = "ended" /\ fetchCall'.attempt = fetchCall.attempt
        /\ fetchCall'.last = how /\ fetchCall'.outcome = fetchCall.outcome
    BY <1>1, <1>9, Ending
  <2>2. Tries = fetchCall.attempt /\ Tries' = Tries /\ FetchTold' = FetchTold
    BY <1>9, <2>1 DEF Tries, Before, FetchTold
  <2>3. CASE how = "fetch_error"
    <3>1. FetchHeard' = "open"
      BY <2>1, <2>3 DEF FetchHeard
    <3> QED
      BY <1>2, <1>7, <1>9, <2>2, <3>1
  <2>4. CASE how # "fetch_error"
    <3>1. FetchHeard' \in {"done", "refused"}
      BY <2>1, <2>4 DEF FetchHeard, FetchOutcome
    <3> QED
      BY <1>1, <1>4, <1>7, <1>9, <2>2, <3>1
  <2> QED
    BY <2>3, <2>4
<1>10. CASE Visit
  <2>1. /\ fetchCall'.pc = "listing" /\ fetchCall'.attempt = fetchCall.attempt
        /\ FetchHeard' = FetchHeard /\ FetchTold' = FetchTold
        /\ fetchCall.pc = "visiting"
    BY <1>8, <1>10 DEF Visit, FetchAt
  <2>2. FetchTold = "none" /\ FetchHeard = "open" /\ Tries' = fetchCall.attempt
    BY <1>7, <2>1 DEF Tries, Before
  <2>3. CASE Before
    <3>1. Tries = 0 /\ fetchCall.attempt = 1
      BY <2>3 DEF Tries, Before
    <3> QED
      BY <1>1, <1>3, <2>1, <2>2, <3>1
  <2>4. CASE ~Before
    BY <1>2, <2>1, <2>2, <2>4 DEF Tries
  <2> QED
    BY <2>3, <2>4
<1>11. CASE HostPublic \/ GetBody \/ FetchSleep
  <2>1. PICK pc \in {"getting", "reading", "sleeping"} : Goes(pc)
    BY <1>11 DEF HostPublic, GetBody, FetchSleep
  <2>2. fetchCall.pc # "visiting"
    BY <1>11 DEF HostPublic, GetBody, FetchSleep, FetchAt
  <2>3. /\ fetchCall'.pc # "visiting" /\ fetchCall'.attempt = fetchCall.attempt
        /\ FetchHeard' = FetchHeard /\ FetchTold' = FetchTold
    BY <1>8, <2>1
  <2> QED
    BY <1>2, <2>2, <2>3 DEF Tries, Before
<1>12. CASE Redirect
  <2>1. /\ fetchCall'.attempt = fetchCall.attempt
        /\ FetchHeard' = FetchHeard /\ FetchTold' = FetchTold
        /\ fetchCall.pc = "getting"
    BY <1>8, <1>12 DEF Redirect, FetchAt
  <2>2. visited' # {}
    BY <1>12, <2>1 DEF FetchIInv, HopIsNew, Midway, Redirect
  <2> QED
    BY <1>2, <2>1, <2>2 DEF Tries, Before
<1>13. CASE FetchAgain
  <2>1. fetchCall.attempt < FetchAttempts /\ fetchCall.pc = "sleeping"
    BY <1>1, <1>13 DEF FetchAgain, FetchAt, Ended
  <2>2. fetchCall' = [fetchCall EXCEPT !.pc = "visiting", !.attempt = fetchCall.attempt + 1]
    BY <1>13 DEF FetchAgain
  <2>3. /\ fetchCall'.attempt = fetchCall.attempt + 1
        /\ fetchCall'.last = fetchCall.last /\ fetchCall'.outcome = fetchCall.outcome
    BY <1>1, <2>2 DEF FetchCalls
  <2>4. Tries = fetchCall.attempt /\ Tries' = fetchCall.attempt + 1
    BY <1>1, <2>1, <2>3 DEF Tries, Before
  <2>5. FetchHeard' = FetchHeard /\ FetchTold' = FetchTold
    BY <2>3 DEF FetchHeard, FetchTold
  <2> QED
    BY <1>3, <1>7, <2>1, <2>4, <2>5
<1>14. CASE CheckListed \/ HostRefused \/ GetRefused \/ GetFails \/ ReadBody
  <2>1. fetchCall.pc \in {"listing", "resolving", "getting", "reading"} /\ ~Before
    BY <1>14 DEF CheckListed, HostRefused, GetRefused, GetFails, ReadBody, FetchAt, Before
  <2>2. Goes("resolving") \/ \E how \in FetchOutcome \ {"none"} : Ends(how)
    BY <1>14 DEF CheckListed, HostRefused, GetRefused, GetFails, ReadBody, FetchOutcome
  <2>3. CASE Goes("resolving")
    <3>1. /\ fetchCall'.pc = "resolving" /\ fetchCall'.attempt = fetchCall.attempt
          /\ FetchHeard' = FetchHeard /\ FetchTold' = FetchTold
      BY <1>8, <2>3
    <3> QED
      BY <1>2, <2>1, <3>1 DEF Tries, Before
  <2> QED
    BY <1>9, <2>1, <2>2, <2>3
<1>15. CASE HopRefused
  <2>1. fetchCall.pc = "visiting" /\ Ends("fetch_error")
    BY <1>15 DEF HopRefused, FetchAt
  <2>2. ~Before
    BY <1>1, <1>15, BeginsByVisiting DEF HopRefused, HasHops, IsCyclic
  <2> QED
    BY <1>9, <2>1, <2>2 DEF FetchOutcome
<1>16. CASE FetchEnds \/ GiveUp
  <2>1. fetchCall.pc = "ended" /\ fetchCall.last \in FetchOutcome \ {"none"}
    BY <1>1, <1>16 DEF FetchEnds, GiveUp, FetchAt, Ended, FetchCalls
  <2>2. fetchCall' = [fetchCall EXCEPT !.pc = "over", !.outcome = fetchCall.last]
    BY <1>16 DEF FetchEnds, GiveUp, IsCaught
  <2>3. /\ fetchCall'.pc = "over" /\ fetchCall'.attempt = fetchCall.attempt
        /\ fetchCall'.last = fetchCall.last /\ fetchCall'.outcome = fetchCall.last
    BY <1>1, <2>1, <2>2, Returning
  <2>4. Tries = fetchCall.attempt /\ Tries' = Tries /\ FetchHeard' = FetchHeard
    BY <2>1, <2>3 DEF Tries, Before, FetchHeard
  <2>5. CASE FetchEnds
    <3>1. fetchCall.last # "fetch_error"
      BY <2>5 DEF FetchEnds, IsCaught
    <3>2. FetchHeard # "open" /\ FetchTold' = FetchHeard
      BY <2>1, <2>3, <3>1 DEF FetchHeard, FetchTold, FetchOutcome
    <3> QED
      BY <1>5, <1>7, <2>1, <2>4, <3>2
  <2>6. CASE GiveUp
    <3>1. fetchCall.last = "fetch_error" /\ fetchCall.attempt = FetchAttempts
      BY <1>1, <2>6 DEF GiveUp, IsCaught, HasFetchAttempts
    <3>2. FetchHeard = "open" /\ FetchTold' = "given_up"
      BY <2>3, <3>1 DEF FetchHeard, FetchTold
    <3> QED
      BY <1>6, <1>7, <2>1, <2>4, <3>1, <3>2
  <2> QED
    BY <1>16, <2>5, <2>6
<1>17. CASE UNCHANGED fetchVars
  BY <1>2, <1>17 DEF fetchVars, Tries, FetchHeard, FetchTold, Before
<1> QED
  BY <1>10, <1>11, <1>12, <1>13, <1>14, <1>15, <1>16, <1>17 DEF FetchNext

(* The fetch implements BoundedRetry.                                       *)
THEOREM FetchKeepsPromise == FetchSpec => FetchRefinesRetry
<1>1. FetchInit => FetchRetry!Init
  BY DEF FetchInit, FetchRetry!Init
<1> QED
  BY <1>1, FetchInvariance, FetchStepRefines, PTL
    DEF FetchSpec, FetchRefinesRetry, FetchRetry!Spec

-----------------------------------------------------------------------------
(* All of them.                                                             *)

(* Whatever payments-ms, properties-ms and the channels' servers answer, the *)
(* three clients implement BoundedRetry.                                    *)
THEOREM ClientsKeepPromise == RefundSpec /\ PricingSpec /\ FetchSpec => ClientsRefineRetry
BY RefundKeepsPromise, PricingKeepsPromise, FetchKeepsPromise DEF ClientsRefineRetry
=============================================================================
