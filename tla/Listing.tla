------------------------------ MODULE Listing ------------------------------
(* A client reads one of the provider listings page by page while operators, customers *)
(* and the worker change the shop underneath: products and orders, by page number      *)
(* (Shopee) or by page token (Tokopedia).                                              *)
(*                                                                                     *)
(* The queries sort by a column the transactions write, newest first: products by      *)
(* updated_at, orders by created_at.  Both are now() of PostgreSQL, the instant the      *)
(* transaction began: one that waited for a lock commits with an instant that lies      *)
(* before what was committed meanwhile.                                                 *)
(*                                                                                     *)
(* A read may fail.  Before its first row is asked for, that is a 500 and the end of    *)
(* the listing; behind it rows.Next merely says there is no more, and no handler asks   *)
(* rows.Err: the page is answered 200 with the rows that came.                          *)
EXTENDS OrderPolicy, Sequences, FiniteSets

CONSTANTS
  Rows,           \* primary keys of products or orders, which break ties; none is used twice
  Sizes,          \* the page sizes a client may ask for; 0 is a body without page_size
  InitialStatus,  \* the statuses orders may have at first
  MaxInitial,     \* bound on the rows there are at first
  MaxInstant,     \* bound on the instants at which changes begin
  MaxChanges      \* bound on the changes

ASSUME ListingAssumption ==
  /\ Rows \subseteq Nat /\ IsFiniteSet(Rows)
  /\ Sizes \subseteq Nat
  /\ InitialStatus \subseteq OrderStatus
  /\ MaxInitial \in Nat /\ MaxInstant \in Nat /\ MaxChanges \in Nat

VARIABLES
  query,     \* what the client asks for: [listing, filter, size]
  table,     \* the rows of the shop: key -> [status, at], at being what the queries sort by
  reader,    \* the client: [pc, page, token, total, got]; "failed" when it was answered 500
  start,     \* ghost: the rows the filter matched when the client began
  touched,   \* ghost: rows changed since
  shrank,    \* ghost: a row left what the filter matches since
  setback,   \* ghost: a change committed with an instant before the row's own
  outgrown,  \* ghost: there were more rows than counted when the last page was read
  lost,      \* ghost: rows a read that failed halfway kept from the client
  changes

ghosts == <<start, touched, shrank, setback, outgrown, lost>>
vars == <<query, table, reader, ghosts, changes>>

-----------------------------------------------------------------------------
(* The Tokopedia projection of an order's status and its inverse. *)

tokopediaOrderStatus(status) ==
  CASE status = "PAID" -> "ON_HOLD"
    [] status = "PROCESSING" -> "AWAITING_SHIPMENT"
    [] status = "READY_TO_SHIP" -> "AWAITING_COLLECTION"
    [] status \in {"SHIPPED", "IN_DELIVERY"} -> "IN_TRANSIT"
    [] status \in {"CANCELLED", "RETURNED"} -> "CANCEL"
    [] OTHER -> status

CanonicalOrderStatuses(status) ==
  CASE status \in {"UNPAID", "DELIVERED", "COMPLETED"} -> {status}
    [] status = "ON_HOLD" -> {"PAID"}
    [] status = "AWAITING_SHIPMENT" -> {"PROCESSING"}
    [] status = "AWAITING_COLLECTION" -> {"READY_TO_SHIP"}
    [] status = "IN_TRANSIT" -> {"SHIPPED", "IN_DELIVERY"}
    [] status = "CANCEL" -> {"CANCELLED", "RETURNED"}
    [] OTHER -> {}

-----------------------------------------------------------------------------
(* What a listing asks the database for. *)

ProductStatus == {"ACTIVE", "INACTIVE"}
OfOrders(listing) == listing \in {"shopeeListOrders", "tokopediaListOrders"}
ByToken(listing) == listing \in {"tokopediaListProducts", "tokopediaListOrders"}

StatusesOf(listing) == IF OfOrders(listing) THEN OrderStatus ELSE ProductStatus

(* The filters a client knows of; tokopediaListProducts has none. *)
FiltersOf(listing) ==
  CASE listing = "tokopediaListProducts" -> {"any"}
    [] listing = "tokopediaListOrders" -> {"any", "unsupported"} \cup {tokopediaOrderStatus(s) : s \in OrderStatus}
    [] OTHER -> {"any"} \cup StatusesOf(listing)

(* The WHERE clause.  A deleted product is not among the rows. *)
Matches(status) ==
  \/ query.filter = "any"
  \/ IF query.listing = "tokopediaListOrders"
     THEN status \in CanonicalOrderStatuses(query.filter) ELSE status = query.filter

NoRow == [status |-> "NONE", at |-> 0]
Exists(i) == table[i] # NoRow

Found == {i \in Rows : Exists(i) /\ Matches(table[i].status)}

(* ORDER BY updated_at DESC, id DESC, or created_at. *)
Precedes(i, j) ==
  \/ table[i].at > table[j].at
  \/ table[i].at = table[j].at /\ i > j

Place(S, i) == Cardinality({j \in S : j = i \/ Precedes(j, i)})
Sorted(S) == [k \in 1 .. Cardinality(S) |-> CHOOSE i \in S : Place(S, i) = k]

Matching == Sorted(Found)

(* How the answer shows a row's status. *)
Shown(status) ==
  IF query.listing = "tokopediaListOrders" THEN tokopediaOrderStatus(status) ELSE status

PageSize == IF ByToken(query.listing) /\ query.size = 0 THEN 20 ELSE query.size

(* What the handler refuses as a bad request before it queries. *)
Accepted == PageSize \in 1 .. 100 /\ query.filter # "unsupported"

(* LIMIT and OFFSET. *)
Slice(rows, limit, offset) ==
  SubSeq(rows, offset + 1, IF offset + limit < Len(rows) THEN offset + limit ELSE Len(rows))

(* A page token is the offset in base64; a client hands back the one it was given. *)
EncodeToken(offset) == <<"base64", offset>>
DecodeToken(token) == IF token = << >> THEN 0 ELSE token[2]

-----------------------------------------------------------------------------
(* The client. *)

Listings == {"shopeeListProducts", "tokopediaListProducts", "shopeeListOrders", "tokopediaListOrders"}

(* Rows the seed made in one transaction, or rows made one after the other. *)
InitialTables(listing) ==
  UNION {[{i \in Rows : i <= n} -> IF OfOrders(listing) THEN InitialStatus ELSE ProductStatus]
         : n \in 0 .. MaxInitial}

Init ==
  /\ \E listing \in Listings :
       /\ query \in [listing : {listing}, filter : FiltersOf(listing), size : Sizes]
       /\ \E status \in InitialTables(listing), apart \in {0, 1} :
            table = [i \in Rows |-> IF i \in DOMAIN status
                                    THEN [status |-> status[i], at |-> apart * i] ELSE NoRow]
  /\ reader = [pc |-> IF ~Accepted THEN "refused" ELSE IF ByToken(query.listing) THEN "search" ELSE "count",
               page |-> 1, token |-> << >>, total |-> 0, got |-> << >>]
  /\ start = Found
  /\ touched = {}
  /\ shrank = FALSE
  /\ setback = FALSE
  /\ outgrown = FALSE
  /\ lost = {}
  /\ changes = 0

(* Shopee: the count that has_next_page (more) is computed from ... *)
shopeeCount ==
  /\ reader.pc = "count"
  /\ reader' = [reader EXCEPT !.pc = "page", !.total = Len(Matching)]
  /\ UNCHANGED <<query, table, ghosts, changes>>

(* Mutant: pages are counted from zero. *)
OffsetFromZero(page) == page * PageSize

Offset(page) == (page - 1) * PageSize

(* The rows of a sequence behind its n-th. *)
Behind(rows, n) == {rows[k] : k \in n + 1 .. Len(rows)}

(* ... and the page itself, a query of its own of which n rows are read.  The client   *)
(* goes on while the count says so, whatever came.                                     *)
shopeePage ==
  /\ reader.pc = "page"
  /\ LET more == reader.page * PageSize < reader.total
         rows == Slice(Matching, PageSize, Offset(reader.page))
     IN \E n \in 0 .. Len(rows) :
          /\ reader' = [reader EXCEPT
               !.pc = IF more THEN "count" ELSE "done",
               !.page = IF more THEN @ + 1 ELSE @,
               !.got = @ \o SubSeq(rows, 1, n)]
          /\ outgrown' = (~more /\ Len(Matching) > reader.total)
          /\ lost' = lost \cup Behind(rows, n)
  /\ UNCHANGED <<query, table, start, touched, shrank, setback, changes>>

(* Mutant: the row that shows there is more is not asked for. *)
LimitWithoutProbe == PageSize

Limit == PageSize + 1

(* Tokopedia: one query for a row more than the page holds.  What is read of it also   *)
(* decides whether there is more: a read that fails ends the listing.                  *)
tokopediaSearch ==
  /\ reader.pc = "search"
  /\ LET offset == DecodeToken(reader.token)
         rows == Slice(Matching, Limit, offset)
     IN \E n \in 0 .. Len(rows) :
          LET more == n > PageSize IN
          /\ reader' = [reader EXCEPT
               !.pc = IF more THEN "search" ELSE "done",
               !.token = IF more THEN EncodeToken(offset + PageSize) ELSE @,
               !.got = @ \o SubSeq(rows, 1, IF more THEN PageSize ELSE n)]
          /\ lost' = lost \cup IF n < Len(rows) THEN Behind(Matching, offset + n) ELSE {}
  /\ UNCHANGED <<query, table, start, touched, shrank, setback, outgrown, changes>>

Reading == reader.pc \in {"count", "page", "search"}

(* The count or the query is refused by the database, or a row cannot be scanned. *)
listFails ==
  /\ Reading
  /\ reader' = [reader EXCEPT !.pc = "failed"]
  /\ UNCHANGED <<query, table, ghosts, changes>>

-----------------------------------------------------------------------------
(* The shop. *)

Change ==
  /\ Reading /\ changes < MaxChanges
  /\ changes' = changes + 1
  /\ UNCHANGED <<query, reader, start, outgrown, lost>>

(* The table changes under the client that is reading it. *)
Observed(new) ==
  /\ table' = new
  /\ shrank' = (shrank \/ ~(Found \subseteq Found'))
  /\ setback' = (setback \/ \E i \in Rows : Exists(i) /\ new[i] # NoRow /\ new[i].at < table[i].at)

Instants == 0 .. MaxInstant
Existing == {i \in Rows : Exists(i)}
Fresh == Rows \ (Existing \cup touched \cup start)

(* createControlProduct, createSimulatedOrder *)
Create(i) ==
  /\ Change
  /\ i \in Fresh
  /\ \E at \in Instants :
       LET status == IF OfOrders(query.listing) THEN "UNPAID" ELSE "ACTIVE" IN
       Observed([table EXCEPT ![i] = [status |-> status, at |-> at]])
  /\ touched' = touched \cup {i}

(* updateControlProduct, and stock changes, which renew updated_at as well *)
ChangeProduct(i) ==
  /\ Change
  /\ ~OfOrders(query.listing)
  /\ \E status \in ProductStatus, at \in Instants :
       Observed([table EXCEPT ![i] = [status |-> status, at |-> at]])
  /\ touched' = touched \cup {i}

(* archiveControlProduct *)
ArchiveProduct(i) ==
  /\ Change
  /\ ~OfOrders(query.listing)
  /\ Observed([table EXCEPT ![i] = NoRow])
  /\ touched' = touched \cup {i}

(* orders.Transition, Cancel and the shipment steps *)
ChangeOrder(i) ==
  /\ Change
  /\ OfOrders(query.listing)
  /\ \E status \in OrderStatus :
       /\ CanTransition(table[i].status, status)
       /\ Observed([table EXCEPT ![i].status = status])
  /\ touched' = touched \cup {i}

(* Every row goes and the seed comes: products all at once, orders an hour apart. *)
resetShopData(seed) ==
  /\ Change
  /\ seed \subseteq Fresh
  /\ \E now \in Instants :
       Observed([i \in Rows |->
         IF i \notin seed THEN NoRow
         ELSE IF OfOrders(query.listing) THEN [status |-> "COMPLETED", at |-> now - i]
         ELSE [status |-> "ACTIVE", at |-> now]])
  /\ touched' = touched \cup seed \cup Existing

Next ==
  \/ shopeeCount \/ shopeePage \/ tokopediaSearch \/ listFails
  \/ \E i \in Rows : Create(i)
  \/ \E i \in Existing : ChangeProduct(i) \/ ArchiveProduct(i) \/ ChangeOrder(i)
  \/ \E seed \in SUBSET Rows : resetShopData(seed)

Spec == Init /\ [][Next]_vars

-----------------------------------------------------------------------------
(* Properties. *)

RowType == [status : StatusesOf(query.listing), at : Int]

TypeOK ==
  /\ query.listing \in Listings /\ query.filter \in FiltersOf(query.listing) /\ query.size \in Sizes
  /\ table \in [Rows -> RowType \cup {NoRow}]
  /\ reader \in [pc : {"refused", "count", "page", "search", "done", "failed"}, page : Nat \ {0},
                 token : {<< >>} \cup ({"base64"} \X Nat), total : Nat, got : Seq(Rows)]
  /\ reader.pc # "refused" => PageSize \in 1 .. 100
  /\ start \subseteq Rows /\ touched \subseteq Rows /\ lost \subseteq Rows
  /\ shrank \in BOOLEAN /\ setback \in BOOLEAN /\ outgrown \in BOOLEAN
  /\ changes \in 0 .. MaxChanges

(* Read without a change underneath and without a read that failed halfway, every      *)
(* listing gives each row whose status it shows as the one asked for exactly once and  *)
(* in order, whatever the page size: no row falls between two pages, and each Tokopedia *)
(* status finds every order that is shown under it, although several statuses of the   *)
(* lifecycle may share it.                                                             *)
QuietListingExact ==
  reader.pc = "done" /\ changes = 0 /\ lost = {} =>
    reader.got = Sorted({i \in Existing : query.filter = "any" \/ Shown(table[i].status) = query.filter})

Delivered == {reader.got[k] : k \in DOMAIN reader.got}

(* A row that was there from the start and was left alone is missed only for a cause:  *)
(* rows before it left the listing, a product that had changed moved back in it because *)
(* a change with an older instant was committed later, by page number the listing       *)
(* outgrew the count taken just before the last page, or the row was lost to a read     *)
(* that failed halfway: by page number the rest of that page, by token all that         *)
(* follows, for the client is told there is no more.  New rows, wherever they sort, and *)
(* changed orders alone never hide it, and a failed read hides no row of another page.  *)
SkippedRowsHaveCause ==
  reader.pc = "done" /\ ~shrank /\ ~setback /\ ~outgrown => start \ (touched \cup lost) \subseteq Delivered
=============================================================================
