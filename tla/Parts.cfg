CONSTANTS
  MaxRows = 4
  PageSize = 2
  MaxWrites = 2
  Parties <- MCParties
  Callers <- MCCallers
  Queries <- MCQueries
  Dates <- MCDates
  Serials <- MCSerials
  OtherDob <- MCOtherDob
  RefundAttempts = 3
  PricingAttempts = 2
  FetchAttempts = 2
  Urls = {u1, u2, u3, u4, u5}
  Listed = {u1, u2, u3, u4}
  Url = u1
  MaxRedirects = 3
  Keys = {k1, k2, k3}
  Pods = {p1, p2}
  Fields = {f1}
  NoKey = NoKey
SPECIFICATION PartsSpec
\* A call is answered, a walk is over, a form is decided: the part then rests.
CHECK_DEADLOCK FALSE
INVARIANTS RefundsAccountedFor HopsChecked FetchBounded PagesExplained ViewsAgree OwnNumberAccepted SlipsCaught RotationReadable
PROPERTIES ClientsRefineRetry CallsAnswered
