------------------------------ MODULE FeedFetch ------------------------------
(***************************************************************************)
(* fetch_ics: two attempts at a feed, each following redirects by hand.     *)
(* Every hop is compared with the channel's hosts, resolved, and only then  *)
(* asked for; the body is read up to a cap.  A URL, a header or a body that *)
(* makes no sense may raise what no handler there catches.                  *)
(***************************************************************************)
EXTENDS Integers, Sequences

CONSTANTS
  FetchAttempts,  \* attempts at a feed
  MaxRedirects,   \* _MAX_REDIRECTS
  Urls,           \* what a feed or a Location header may say
  Listed,         \* the https URLs on a host of the feed's channel
  Url             \* the feed's own

ASSUME FetchBounds == FetchAttempts \in Nat \ {0} /\ MaxRedirects \in Nat
ASSUME FetchUrls   == Listed \subseteq Urls /\ Url \in Urls

VARIABLES
  fetchCall,  \* where the fetch is, its attempt, how the last one ended, what came of it
  current,    \* the URL of this hop
  hops,       \* how many hops came before it in this attempt
  visited,
  resolved,   \* history: the URL whose host was last found public
  asked       \* history: the requests of each attempt

fetchVars == <<fetchCall, current, hops, visited, resolved, asked>>

Attempts == 1..FetchAttempts
FetchOutcome == {"none", "body", "url_error", "fetch_error", "raised"}

FetchTypeOK ==
  /\ fetchCall \in [pc : {"visiting", "listing", "resolving", "getting", "reading", "ended",
                          "sleeping", "over"},
                    attempt : Attempts, last : FetchOutcome, outcome : FetchOutcome]
  /\ current \in Urls /\ resolved \in Urls
  /\ hops \in 0..(MaxRedirects + 1)
  /\ visited \subseteq Urls
  /\ asked \in [Attempts -> Seq([url : Urls, resolved : Urls])]

FetchInit ==
  /\ fetchCall = [pc |-> "visiting", attempt |-> 1, last |-> "none", outcome |-> "none"]
  /\ current = Url /\ resolved = Url
  /\ hops = 0
  /\ visited = {}
  /\ asked = [a \in Attempts |-> <<>>]

FetchAt(pc) == fetchCall.pc = pc
Goes(pc) == fetchCall' = [fetchCall EXCEPT !.pc = pc]
Ends(how) == fetchCall' = [fetchCall EXCEPT !.pc = "ended", !.last = how]

-----------------------------------------------------------------------------
(* _fetch_once: one hop.                                                    *)

HasHops == hops <= MaxRedirects

(* A slip: cycles are not looked for.                                       *)
IsCyclicNever == FALSE

IsCyclic == current \in visited

Visit ==
  /\ FetchAt("visiting")
  /\ HasHops /\ ~IsCyclic
  /\ visited' = visited \cup {current}
  /\ Goes("listing")
  /\ UNCHANGED <<current, hops, resolved, asked>>

(* Cyclic redirect, or too many.                                            *)
HopRefused ==
  /\ FetchAt("visiting")
  /\ ~HasHops \/ IsCyclic
  /\ Ends("fetch_error")
  /\ UNCHANGED <<current, hops, visited, resolved, asked>>

(* A slip: it is the feed's own URL that is compared, at every hop.         *)
IsListedFeed == Url \in Listed

IsListed == current \in Listed

(* validate_feed_url; urlparse raises an error of its own on a malformed URL. *)
CheckListed ==
  /\ FetchAt("listing")
  /\ IF IsListed THEN Goes("resolving") ELSE \E how \in {"url_error", "raised"} : Ends(how)
  /\ UNCHANGED <<current, hops, visited, resolved, asked>>

(* assert_host_is_public; no answer from DNS is an error of the same kind,   *)
(* a name that cannot be encoded is not.                                    *)
HostPublic ==
  /\ FetchAt("resolving")
  /\ resolved' = current
  /\ Goes("getting")
  /\ UNCHANGED <<current, hops, visited, asked>>

HostRefused ==
  /\ FetchAt("resolving")
  /\ \E how \in {"url_error", "raised"} : Ends(how)
  /\ UNCHANGED <<current, hops, visited, resolved, asked>>

-----------------------------------------------------------------------------
(* The request.                                                             *)

Asked == [asked EXCEPT ![fetchCall.attempt] = Append(@, [url |-> current, resolved |-> resolved])]

Redirect ==
  /\ FetchAt("getting")
  /\ asked' = Asked
  /\ current' \in Urls
  /\ hops' = hops + 1
  /\ Goes("visiting")
  /\ UNCHANGED <<visited, resolved>>

(* httpx.InvalidURL, before anything is sent.                               *)
GetRefused ==
  /\ FetchAt("getting")
  /\ Ends("raised")
  /\ UNCHANGED <<current, hops, visited, resolved, asked>>

(* A status of 400 or more, a redirect to nowhere, no connection, a timeout,*)
(* or a Content-Length beyond the cap; a Location that urljoin cannot read.  *)
GetFails ==
  /\ FetchAt("getting")
  /\ asked' = Asked
  /\ \E how \in {"fetch_error", "raised"} : Ends(how)
  /\ UNCHANGED <<current, hops, visited, resolved>>

GetBody ==
  /\ FetchAt("getting")
  /\ asked' = Asked
  /\ Goes("reading")
  /\ UNCHANGED <<current, hops, visited, resolved>>

(* _read_capped_body: more may arrive than the cap allows, the connection    *)
(* may be lost, the charset may be one that nobody knows.                   *)
ReadBody ==
  /\ FetchAt("reading")
  /\ \E how \in {"body", "fetch_error", "raised"} : Ends(how)
  /\ UNCHANGED <<current, hops, visited, resolved, asked>>

-----------------------------------------------------------------------------
(* fetch_ics: the retry.                                                    *)

(* The exceptions that are caught to try again.                             *)
IsCaught == fetchCall.last = "fetch_error"

(* The body is returned, a FeedUrlError raised again, any other escapes.    *)
FetchEnds ==
  /\ FetchAt("ended") /\ ~IsCaught
  /\ fetchCall' = [fetchCall EXCEPT !.pc = "over", !.outcome = fetchCall.last]
  /\ UNCHANGED <<current, hops, visited, resolved, asked>>

HasFetchAttempts == fetchCall.attempt < FetchAttempts

FetchSleep ==
  /\ FetchAt("ended") /\ IsCaught /\ HasFetchAttempts
  /\ Goes("sleeping")
  /\ UNCHANGED <<current, hops, visited, resolved, asked>>

FetchAgain ==
  /\ FetchAt("sleeping")
  /\ fetchCall' = [fetchCall EXCEPT !.pc = "visiting", !.attempt = @ + 1]
  /\ current' = Url
  /\ hops' = 0
  /\ visited' = {}
  /\ UNCHANGED <<resolved, asked>>

GiveUp ==
  /\ FetchAt("ended") /\ IsCaught /\ ~HasFetchAttempts
  /\ fetchCall' = [fetchCall EXCEPT !.pc = "over", !.outcome = "fetch_error"]
  /\ UNCHANGED <<current, hops, visited, resolved, asked>>

FetchNext ==
  \/ Visit \/ HopRefused \/ CheckListed \/ HostPublic \/ HostRefused
  \/ Redirect \/ GetRefused \/ GetFails \/ GetBody \/ ReadBody
  \/ FetchEnds \/ FetchSleep \/ FetchAgain \/ GiveUp

(* Connections and reads time out.                                          *)
FetchSpec == FetchInit /\ [][FetchNext]_fetchVars /\ WF_fetchVars(FetchNext)

-----------------------------------------------------------------------------
(* Properties.                                                              *)

Requests == { q \in Attempts \X (1..(MaxRedirects + 1)) : q[2] <= Len(asked[q[1]]) }

(* "We re-assert the target at each hop before connecting": whatever the     *)
(* redirects said, each request went to a listed URL whose own host, not an *)
(* earlier hop's, had just been found public.                               *)
HopsChecked ==
  \A q \in Requests :
    LET request == asked[q[1]][q[2]] IN
    request.url \in Listed /\ request.resolved = request.url

(* However the servers redirect, an attempt asks for no URL twice and makes *)
(* no more requests than redirects are allowed, plus the first.             *)
FetchBounded ==
  /\ \A a \in Attempts : Len(asked[a]) <= MaxRedirects + 1
  /\ \A q, r \in Requests :
       q[1] = r[1] /\ asked[q[1]][q[2]].url = asked[r[1]][r[2]].url => q = r

(* The fetch keeps the promise of a client: another attempt begins only when *)
(* the one before it failed on something transient, never on a URL that was *)
(* refused, and the caller is told how the last one ended.                  *)
FetchRetry == INSTANCE BoundedRetry WITH
  MaxAttempts <- FetchAttempts,
  attempts <- IF fetchCall.pc = "visiting" /\ fetchCall.attempt = 1 /\ visited = {}
              THEN 0 ELSE fetchCall.attempt,
  heard    <- CASE fetchCall.last = "body"                   -> "done"
                [] fetchCall.last \in {"url_error", "raised"} -> "refused"
                [] OTHER                                     -> "open",
  told     <- CASE fetchCall.outcome = "none"        -> "none"
                [] fetchCall.outcome = "body"        -> "done"
                [] fetchCall.outcome = "fetch_error" -> "given_up"
                [] OTHER                             -> "refused"

FetchRefinesRetry == FetchRetry!Spec
FetchAnswered == FetchRetry!Answers
=============================================================================
