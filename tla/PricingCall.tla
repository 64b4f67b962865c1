----------------------------- MODULE PricingCall -----------------------------
(***************************************************************************)
(* PricingClient.resolve: the price of a stay from properties-ms, with one  *)
(* retry when the network fails, and no price to fall back on.              *)
(***************************************************************************)
EXTENDS Integers

CONSTANT PricingAttempts  \* attempts at a price

ASSUME PricingAttemptsPositive == PricingAttempts \in Nat \ {0}

VARIABLE
  pricingCall  \* where the client is, its attempt, the last answer, what came of it

PriceAnswer  == {"none", "price", "unpriced_nights", "error_status", "garbage", "no_answer"}
PriceOutcome == {"none", "priced", "gap_error", "bad_gateway", "unreachable", "raised"}

PricingTypeOK ==
  pricingCall \in [pc : {"asking", "waiting", "answered", "over"}, attempt : 0..PricingAttempts,
                   last : PriceAnswer, outcome : PriceOutcome]

PricingInit == pricingCall = [pc |-> "asking", attempt |-> 0, last |-> "none", outcome |-> "none"]

HasPricingAttempts == pricingCall.attempt < PricingAttempts

GetPrice ==
  /\ pricingCall.pc = "asking"
  /\ HasPricingAttempts
  /\ pricingCall' = [pricingCall EXCEPT !.pc = "waiting", !.attempt = @ + 1]

(* properties-ms and the network.                                           *)
Respond ==
  /\ pricingCall.pc = "waiting"
  /\ \E a \in PriceAnswer \ {"none"} : pricingCall' = [pricingCall EXCEPT !.pc = "answered", !.last = a]

(* A slip: an error status passes for transient.                            *)
IsTransientOrStatus == pricingCall.last \in {"no_answer", "error_status"}

IsTransient == pricingCall.last = "no_answer"

(* A slip: the retry starts counting anew.                                  *)
PricingAgainAnew ==
  /\ pricingCall.pc = "answered" /\ IsTransient
  /\ pricingCall' = [pricingCall EXCEPT !.pc = "asking", !.attempt = 0]

PricingAgain ==
  /\ pricingCall.pc = "answered" /\ IsTransient
  /\ pricingCall' = [pricingCall EXCEPT !.pc = "asking"]

(* 409, any other status from 400 on, a body without a total, a price.      *)
Meaning ==
  [ price |-> "priced", unpriced_nights |-> "gap_error",
    error_status |-> "bad_gateway", garbage |-> "raised" ]

PricingSettle ==
  /\ pricingCall.pc = "answered" /\ ~IsTransient
  /\ pricingCall' = [pricingCall EXCEPT !.pc = "over", !.outcome = Meaning[pricingCall.last]]

Unreachable ==
  /\ pricingCall.pc = "asking"
  /\ ~HasPricingAttempts
  /\ pricingCall' = [pricingCall EXCEPT !.pc = "over", !.outcome = "unreachable"]

PricingNext == GetPrice \/ Respond \/ PricingAgain \/ PricingSettle \/ Unreachable

pricingVars == <<pricingCall>>

(* A request times out after two seconds.                                   *)
PricingSpec == PricingInit /\ [][PricingNext]_pricingVars /\ WF_pricingVars(PricingNext)

-----------------------------------------------------------------------------
(* The loop keeps the promise of a client: a stay is refused for a failing  *)
(* network only after every attempt, and once any answer was heard, a price *)
(* or an error, nothing is asked for again and the caller is told of it.    *)
PricingRetry == INSTANCE BoundedRetry WITH
  MaxAttempts <- PricingAttempts,
  attempts <- pricingCall.attempt,
  heard    <- CASE pricingCall.last = "price"                -> "done"
                [] pricingCall.last \in {"none", "no_answer"} -> "open"
                [] OTHER                                     -> "refused",
  told     <- CASE pricingCall.outcome = "none"        -> "none"
                [] pricingCall.outcome = "priced"      -> "done"
                [] pricingCall.outcome = "unreachable" -> "given_up"
                [] OTHER                               -> "refused"

PricingRefinesRetry == PricingRetry!Spec
PricingAnswered == PricingRetry!Answers
=============================================================================
