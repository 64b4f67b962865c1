--------------------------- MODULE BookingQueries ---------------------------
(***************************************************************************)
(* The reading side: who may see a booking, by which endpoint, and what a  *)
(* caller who pages through GET /bookings/ gets to see while others create, *)
(* decide and delete bookings.  Each page is one SELECT of its own, newest  *)
(* booking first.                                                          *)
(***************************************************************************)
EXTENDS Integers, FiniteSets

CONSTANTS
  MaxRows,   \* bound: bookings ever created
  PageSize,
  MaxWrites, \* bound: writes of others while a caller reads
  Parties,   \* who books with whom: [user_id, property_owner_id]
  Callers,   \* who may be reading: [id, scopes]
  Queries    \* what is asked for: [status, view]

ASSUME QueryBounds == MaxRows \in Nat \ {0} /\ PageSize \in Nat \ {0} /\ MaxWrites \in Nat

VARIABLES
  table,   \* the rows there are
  caller,
  query,   \* the status asked for, and the view
  walk,    \* where the walk is: pc, page, and the rows of the page in hand
  writes,
  shown,   \* history: the bookings shown so far
  repeats, \* history: how many rows showed a booking again
  steady,  \* history: the bookings that matched at every moment of the walk
  joined,  \* history: how many bookings joined the result during the walk
  left     \* history: how many left it

queryVars == <<table, caller, query, walk, writes, shown, repeats, steady, joined, left>>

Numbers  == 1..MaxRows  \* a booking's number is its place in created_at
Status   == {"pending", "confirmed"}
Row      == [parties : Parties, status : Status]

-----------------------------------------------------------------------------
(* The scopes.                                                              *)

Has(scope) == scope \in caller.scopes

IsAdmin   == Has("admin:bookings") \/ Has("admin:bookings:read")
IsManager == Has("bookings:manage")

(* can_read_or_manage_booking                                               *)
MayRead == Has("bookings:read") \/ IsManager \/ IsAdmin

IsGuest(row) == row.parties.user_id = caller.id
IsHost(row)  == row.parties.property_owner_id = caller.id

(* A slip: a manager's list is of the bookings made, as anyone's.           *)
ListsAsGuest(row, view) == IsAdmin \/ IsGuest(row)

(* list_bookings                                                            *)
Lists(row, view) ==
  \/ IsAdmin
  \/ IF view # "guest" /\ IsManager THEN IsHost(row) ELSE IsGuest(row)

(* get_booking                                                              *)
Gets(row) == IsAdmin \/ IF IsManager THEN IsHost(row) ELSE IsGuest(row)

(* can_view_guest_identities                                                *)
SeesRoster(row) ==
  \/ IsManager /\ IsHost(row)
  \/ Has("admin:scopes") \/ Has("admin:bookings:read")

(* get_checkin_link, for a confirmed booking that has not ended             *)
GetsLink(row) == IsGuest(row) \/ Has("admin:scopes")

-----------------------------------------------------------------------------
(* The SELECT of a page.                                                    *)

Matches(row) ==
  /\ Lists(row, query.view)
  /\ query.status \in {"any", row.status}

Result(rows) == { n \in DOMAIN rows : Matches(rows[n]) }

(* A slip: the first page is page zero.                                     *)
OffsetFromZero == walk.page * PageSize

Offset == (walk.page - 1) * PageSize

(* The place of a booking in a result, newest first.                        *)
Rank(result, n) == Cardinality({ m \in result : m >= n })

Page ==
  { n \in Result(table) : Rank(Result(table), n) \in (Offset + 1)..(Offset + PageSize) }

QueryInit ==
  /\ \E n \in 0..(MaxRows - 1) : table \in [1..n -> Row]  \* one is yet to come
  /\ caller \in Callers
  /\ query \in Queries
  /\ walk = [pc |-> "asking", page |-> 1, rows |-> {}]
  /\ writes = 0
  /\ shown = {} /\ repeats = 0 /\ steady = {} /\ joined = 0 /\ left = 0

Forbidden ==
  /\ walk.pc = "asking" /\ ~MayRead
  /\ walk' = [walk EXCEPT !.pc = "over"]
  /\ UNCHANGED <<table, caller, query, writes, shown, repeats, steady, joined, left>>

Select ==
  /\ walk.pc = "asking" /\ MayRead
  /\ walk' = [walk EXCEPT !.pc = "enriching", !.rows = Page]
  /\ steady' = IF walk.page = 1 THEN Result(table) ELSE steady
  /\ UNCHANGED <<table, caller, query, writes, shown, repeats, joined, left>>

(* The names come from properties-ms and users-ms, or are None: whatever    *)
(* they answer, the rows that were read are shown.  The caller asks for the *)
(* next page until one is short.                                            *)
Enrich ==
  /\ walk.pc = "enriching"
  /\ shown' = shown \cup walk.rows
  /\ repeats' = repeats + Cardinality(shown \cap walk.rows)
  /\ walk' = IF Cardinality(walk.rows) < PageSize
             THEN [walk EXCEPT !.pc = "over", !.rows = {}]
             ELSE [pc |-> "asking", page |-> walk.page + 1, rows |-> {}]
  /\ UNCHANGED <<table, caller, query, writes, steady, joined, left>>

-----------------------------------------------------------------------------
(* The others: create_booking, update_booking_status, delete_booking.       *)

Underway == walk.pc # "over" /\ (walk.page > 1 \/ walk.pc = "enriching")

Write(rows) ==
  /\ writes < MaxWrites
  /\ writes' = writes + 1
  /\ table' = rows
  /\ steady' = steady \cap Result(rows)
  /\ joined' = joined + IF Underway THEN Cardinality(Result(rows) \ Result(table)) ELSE 0
  /\ left'   = left   + IF Underway THEN Cardinality(Result(table) \ Result(rows)) ELSE 0
  /\ UNCHANGED <<caller, query, walk, shown, repeats>>

Create ==
  \E n \in Numbers, row \in Row :
    /\ \A k \in DOMAIN table : k < n
    /\ Write([k \in DOMAIN table \cup {n} |-> IF k = n THEN row ELSE table[k]])

SetStatus ==
  \E n \in DOMAIN table, status \in Status :
    /\ status # table[n].status
    /\ Write([table EXCEPT ![n].status = status])

Delete ==
  \E n \in DOMAIN table : Write([k \in DOMAIN table \ {n} |-> table[k]])

QueryNext == Forbidden \/ Select \/ Enrich \/ Create \/ SetStatus \/ Delete

QuerySpec == QueryInit /\ [][QueryNext]_queryVars

-----------------------------------------------------------------------------
(* Properties.                                                              *)

(* Paging by offset while others write is not exact, but its errors have a  *)
(* cause each: a booking that matched all along is missed only for one that *)
(* left the result before it, and a booking is shown again only for one     *)
(* that joined it.                                                          *)
PagesExplained ==
  walk.pc = "over" /\ MayRead =>
    /\ Cardinality(steady \ shown) <= left
    /\ repeats <= joined

(* The endpoints agree on who sees a booking.  What one caller can get, a   *)
(* list shows; what a list shows, the caller can get, but for the bookings  *)
(* a manager made as a guest; a roster is seen by those who can get the     *)
(* booking, and by admin:scopes, which gets nobody a booking.               *)
ViewsAgree ==
  MayRead => \A n \in DOMAIN table :
    LET row == table[n] IN
    /\ Gets(row) => \E view \in {"none", "guest"} : Lists(row, view)
    /\ \A view \in {"none", "guest", "owner"} :
         Lists(row, view) /\ ~Gets(row)
           => view = "guest" /\ IsManager /\ IsGuest(row) /\ ~IsHost(row)
    /\ SeesRoster(row) /\ ~Gets(row) => Has("admin:scopes")
    /\ GetsLink(row) /\ ~Gets(row)
         => Has("admin:scopes") \/ (IsManager /\ IsGuest(row))
=============================================================================
