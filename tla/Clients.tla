------------------------------- MODULE Clients -------------------------------
(***************************************************************************)
(* The clients of other services that retry, side by side.                  *)
(***************************************************************************)
EXTENDS RefundCall, PricingCall, FeedFetch

(* Each client keeps the promise of BoundedRetry: whatever the other side    *)
(* answers, it tries a bounded number of times, asks for nothing again once *)
(* it has heard an answer that settles the matter, tells its caller what it *)
(* heard, and gives up only when all attempts are used and nothing was heard.*)
ClientsRefineRetry == RefundRefinesRetry /\ PricingRefinesRetry /\ FetchRefinesRetry
=============================================================================
