------------------------------- MODULE MCParts -------------------------------
(* The parts that share nothing with one another.  An instance runs one of    *)
(* them, the others rest: a refund, a price, the fetch of a feed whose servers *)
(* redirect anywhere, a walk through the list of bookings, a guest's form, a   *)
(* rotation of the field keys.                                                *)
EXTENDS Clients, BookingQueries, PinCheck, FieldKeys

VARIABLE part

D(y, m, d) == [year |-> y, month |-> m, day |-> d]

MCParties == { [user_id |-> "u1", property_owner_id |-> "u2"],
               [user_id |-> "u2", property_owner_id |-> "u1"] }

(* A guest, an owner, an owner who is also admin of scopes, two admins.        *)
MCCallers ==
  { [id |-> "u1", scopes |-> s] :
      s \in { {"bookings:read", "bookings:cancel"},
              {"bookings:read", "bookings:manage"},
              {"bookings:read", "admin:scopes"},
              {"admin:bookings"},
              {"admin:bookings:write"} } }

MCQueries ==
  { [status |-> "any", view |-> "none"], [status |-> "confirmed", view |-> "owner"],
    [status |-> "confirmed", view |-> "guest"] }

(* Both ends of each century's months, a leap day, a two-digit month.          *)
MCDates   == { D(1899, 12, 31), D(1900, 1, 1), D(1999, 12, 9), D(2000, 2, 29), D(2004, 10, 30) }
MCSerials == { <<a, 4, c>> : a \in {0, 9}, c \in 0..3 }
MCOtherDob == D(1999, 12, 9)

partVars == <<part, refundVars, pricingVars, fetchVars, queryVars, pinVars, fieldVars>>

QueryRests ==
  /\ table = <<>> /\ caller = [id |-> "u1", scopes |-> {}] /\ query = [status |-> "any", view |-> "none"]
  /\ walk = [pc |-> "over", page |-> 1, rows |-> {}]
  /\ writes = 0 /\ shown = {} /\ repeats = 0 /\ steady = {} /\ joined = 0 /\ left = 0

PinRests == person = <<>> /\ form = <<>> /\ slip = 0 /\ verdict = "open"

FieldRests ==
  /\ setting = <<>> /\ loaded = <<>> /\ stored = <<>> /\ failed = [p \in Pods |-> NoKey]
  /\ unseen = <<>> /\ hasty = {}

PartsInit ==
  /\ part \in {"refund", "price", "fetch", "query", "pin", "field"}
  /\ RefundInit /\ PricingInit /\ FetchInit
  /\ IF part = "query" THEN QueryInit ELSE QueryRests
  /\ IF part = "pin" THEN PinInit ELSE PinRests
  /\ IF part = "field" THEN FieldInit ELSE FieldRests

PartsNext ==
  /\ \/ part = "refund" /\ RefundNext /\ UNCHANGED <<pricingVars, fetchVars, queryVars, pinVars, fieldVars>>
     \/ part = "price" /\ PricingNext /\ UNCHANGED <<refundVars, fetchVars, queryVars, pinVars, fieldVars>>
     \/ part = "fetch" /\ FetchNext /\ UNCHANGED <<refundVars, pricingVars, queryVars, pinVars, fieldVars>>
     \/ part = "query" /\ QueryNext /\ UNCHANGED <<refundVars, pricingVars, fetchVars, pinVars, fieldVars>>
     \/ part = "pin" /\ PinNext /\ UNCHANGED <<refundVars, pricingVars, fetchVars, queryVars, fieldVars>>
     \/ part = "field" /\ FieldNext /\ UNCHANGED <<refundVars, pricingVars, fetchVars, queryVars, pinVars>>
  /\ UNCHANGED part

PartsSpec ==
  /\ PartsInit /\ [][PartsNext]_partVars
  /\ part \in {"refund", "price", "fetch"} => WF_partVars(PartsNext)

-----------------------------------------------------------------------------

(* Who calls another service is answered, whatever the other side does.        *)
CallsAnswered ==
  /\ part = "refund" => RefundAnswered
  /\ part = "price" => PricingAnswered
  /\ part = "fetch" => FetchAnswered
=============================================================================
