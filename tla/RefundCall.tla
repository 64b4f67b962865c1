----------------------------- MODULE RefundCall -----------------------------
(***************************************************************************)
(* PaymentsClient.refund_booking: up to RefundAttempts requests for one refund,*)
(* and payments-ms at the other end, which may make the refund and then not *)
(* be heard.                                                                *)
(***************************************************************************)
EXTENDS Integers

CONSTANT RefundAttempts  \* max_attempts

ASSUME RefundAttemptsPositive == RefundAttempts \in Nat \ {0}

VARIABLES
  refundCall,  \* where the client is, its attempt, the last answer, what it returns
  refunds,     \* how many refunds payments-ms has made
  unheard      \* history: refunds whose success was not heard

refundVars == <<refundCall, refunds, unheard>>

RefundAnswer == {"none", "success", "rejected", "server_error", "no_answer"}

RefundTypeOK ==
  /\ refundCall \in [pc : {"asking", "waiting", "answered", "sleeping", "returned"},
                     attempt : 0..RefundAttempts, last : RefundAnswer, result : {"none", "true", "false"}]
  /\ refunds \in 0..RefundAttempts
  /\ unheard \in 0..refunds

RefundInit ==
  /\ refundCall = [pc |-> "asking", attempt |-> 0, last |-> "none", result |-> "none"]
  /\ refunds = 0 /\ unheard = 0

Post ==
  /\ refundCall.pc = "asking"
  /\ refundCall' = [refundCall EXCEPT !.pc = "waiting", !.attempt = @ + 1]
  /\ UNCHANGED <<refunds, unheard>>

-----------------------------------------------------------------------------
(* payments-ms and the network.  Nothing in the code tells payments-ms that  *)
(* it is asked again: it may refund once more, or refuse as done.           *)

Hears(answer) == refundCall' = [refundCall EXCEPT !.pc = "answered", !.last = answer]

Refunded ==
  /\ refundCall.pc = "waiting"
  /\ refunds' = refunds + 1
  /\ Hears("success")
  /\ UNCHANGED unheard

RefundedUnheard ==
  /\ refundCall.pc = "waiting"
  /\ refunds' = refunds + 1
  /\ unheard' = unheard + 1
  /\ \E answer \in {"server_error", "no_answer"} : Hears(answer)

NotRefunded ==
  /\ refundCall.pc = "waiting"
  /\ \E answer \in {"rejected", "server_error", "no_answer"} : Hears(answer)
  /\ UNCHANGED <<refunds, unheard>>

-----------------------------------------------------------------------------
(* What the client makes of the answer.                                     *)

Return(result) == refundCall' = [refundCall EXCEPT !.pc = "returned", !.result = result]

(* A slip: an answer below 500 is a success.                                *)
IsSuccessBelow500 == refundCall.last \in {"success", "rejected"}

IsSuccess == refundCall.last = "success"

Success ==
  /\ refundCall.pc = "answered" /\ IsSuccess
  /\ Return("true")
  /\ UNCHANGED <<refunds, unheard>>

Rejected ==
  /\ refundCall.pc = "answered" /\ ~IsSuccess
  /\ refundCall.last = "rejected"
  /\ Return("false")
  /\ UNCHANGED <<refunds, unheard>>

HasRefundAttempts == refundCall.attempt < RefundAttempts

RefundSleep ==
  /\ refundCall.pc = "answered" /\ ~IsSuccess
  /\ refundCall.last # "rejected" /\ HasRefundAttempts
  /\ refundCall' = [refundCall EXCEPT !.pc = "sleeping"]
  /\ UNCHANGED <<refunds, unheard>>

RefundWake ==
  /\ refundCall.pc = "sleeping"
  /\ refundCall' = [refundCall EXCEPT !.pc = "asking"]
  /\ UNCHANGED <<refunds, unheard>>

Exhausted ==
  /\ refundCall.pc = "answered" /\ ~IsSuccess
  /\ refundCall.last # "rejected" /\ ~HasRefundAttempts
  /\ Return("false")
  /\ UNCHANGED <<refunds, unheard>>

RefundNext ==
  \/ Post \/ Refunded \/ RefundedUnheard \/ NotRefunded
  \/ Success \/ Rejected \/ RefundSleep \/ RefundWake \/ Exhausted

(* The request has a timeout of five seconds, the sleeps are finite.        *)
RefundSpec == RefundInit /\ [][RefundNext]_refundVars /\ WF_refundVars(RefundNext)

-----------------------------------------------------------------------------
(* Properties.                                                              *)

(* True is never said of a refund that was not made, and a second refund is  *)
(* only ever asked for when the first went unheard: refunds made beyond the  *)
(* one that was confirmed are exactly the ones no answer told of.            *)
RefundsAccountedFor ==
  /\ refundCall.result = "true" => refunds > 0
  /\ refunds - unheard <= 1
  /\ refundCall.result = "false" => refunds = unheard

(* The loop keeps the promise of a client: it asks no more once it has heard *)
(* that the refund is made or refused, and gives up only after every attempt.*)
RefundRetry == INSTANCE BoundedRetry WITH
  MaxAttempts <- RefundAttempts,
  attempts <- refundCall.attempt,
  heard    <- CASE refundCall.last = "success"  -> "done"
                [] refundCall.last = "rejected" -> "refused"
                [] OTHER                        -> "open",
  told     <- CASE refundCall.result = "none" -> "none"
                [] refundCall.result = "true" -> "done"
                [] OTHER -> IF refundCall.last = "rejected" THEN "refused" ELSE "given_up"

RefundRefinesRetry == RefundRetry!Spec
RefundAnswered == RefundRetry!Answers
=============================================================================
