---------------------------- MODULE ShopifyOrders ----------------------------
(***************************************************************************)
(* The import of the Shopify store: refreshShopify (lib/connectors/        *)
(* pipeline.ts) every night and scripts/backfill-shopify.mts by hand read  *)
(* the catalogue, then the orders page by page (shopify/sync.ts), and      *)
(* write them (repositories/shopify-repository.ts) while people order,     *)
(* refund and cancel; scripts/delete-orders-before.mjs takes old orders    *)
(* out.  One import runs at a time; job keys are SyncRuns' matter.         *)
(*                                                                         *)
(* The state of an order is told by `rev`, the number of the change that   *)
(* made it, which also orders updated_at.  Shopify is external: it lists   *)
(* what a search matches by UPDATED_AT, a cursor is the place of the last  *)
(* node, so an order that is changed while pages are read comes again.     *)
(***************************************************************************)
EXTENDS Integers, FiniteSets, FiniteSetsExt

CONSTANTS
  Orders,         \* the orders that may be placed
  TestOrders,     \* those placed as tests
  CustomerOf,     \* the customer of an order
  OrderedAt,      \* processedAt ?? createdAt, as an instant
  VariantOf,      \* the variant an order's line sells
  OrdersPerPage,  \* orders per page
  OrderWindow,    \* 30: the days refreshShopify reaches back
  BackfillSince,  \* the date a backfill is given
  LastDay,        \* bound: days
  MaxEdits,       \* bound: orders placed, edited, refunded or cancelled
  MaxIncidents,   \* bound: failed syncs, killed processes, backfills, deletions
  Careless,       \* backfills are started over an interrupted sync
  Settlements     \* what the shop's API version answers about payouts

Customers == {CustomerOf[o] : o \in Orders}
Variants == {VariantOf[o] : o \in Orders}

ASSUME OrdersAssumption == /\ IsFiniteSet(Orders)
                           /\ TestOrders \subseteq Orders
                           /\ DOMAIN CustomerOf = Orders
                           /\ OrderedAt \in [Orders -> Nat \ {0}]
                           /\ DOMAIN VariantOf = Orders
ASSUME ShopBoundsAssumption == /\ OrdersPerPage \in Nat \ {0}
                               /\ OrderWindow \in Nat \ {0}
                               /\ BackfillSince \in Nat
                               /\ LastDay \in Nat \ {0}
                               /\ {MaxEdits, MaxIncidents} \subseteq Nat
                               /\ Careless \in BOOLEAN
                               /\ Settlements \in {"breakdown", "net", "not_permitted"}

NoRev == 0         \* rev of an order, or a row, that does not exist
NullCursor == 0      \* cursor_value is null
NoDate == 0        \* first_order_at is null

Nodes == [rev : Nat, placed : Nat, updated : Nat, live : BOOLEAN, refunded : BOOLEAN]
Searches == [by : {"created", "updated"}, since : Nat]
Everything == [by |-> "updated", since |-> 0]      \* the empty query

VARIABLES
  shop,                \* Shopify's orders
  edits,               \* how many changes there were
  shopDay,             \* today
  variants,            \* product_variants
  orderRows,           \* shopify_orders, by external id
  orderLines,          \* shopify_order_lines; known: their variant resolved
  refunds,             \* the orders that have shopify_refunds
  firstOrder,          \* shopify_customers.first_order_at
  orderCursor,         \* sync_cursors.cursor_value of resource orders
  payouts,             \* the columns of shopify_payouts that are filled
  shopStep, importer,  \* where the import is, and what runs it
  search,              \* its searchQuery
  after,               \* runSync's cursor
  nodes,               \* the nodes in hand, by order
  nextCursor,          \* the page's nextCursor
  known,               \* first_order_at as upsertCustomers read it
  promised,            \* history: what the sync has to store, as it was at its begin
  readBegun,           \* history: the read the cursor belongs to
  readUpTo,            \* history: every change up to rev, made by that day, was read
  removed,             \* history: the orders that were deleted
  incidents

store == <<shop, edits, shopDay>>
tables == <<variants, orderRows, orderLines, refunds, firstOrder, payouts>>
sync == <<shopStep, importer, search, after, nodes, nextCursor, known>>
history == <<promised, readBegun, readUpTo, removed>>
writing == <<orderCursor, importer, search, after, nodes, nextCursor, known, history, incidents>>
shopVars == <<store, tables, orderCursor, sync, history, incidents>>

OrderPromises == [order : Orders, rev : Nat, live : BOOLEAN, refunded : BOOLEAN, known : BOOLEAN]
OrderReads == [rev : Nat, day : Nat, since : Nat]
NoRead == [rev |-> 0, day |-> 1, since |-> 0]
Nowhere == [o \in {} |-> 0]
Runs == {"refresh", "backfill"}
Steps == {"idle", "catalogue", "begin", "reading", "customers", "orders", "lines", "refunds",
          "dates", "advancing", "payouts"}

ShopTypeOK ==
  /\ shop \in [Orders -> Nodes]
  /\ edits \in 0..MaxEdits /\ shopDay \in 1..LastDay
  /\ variants \subseteq Variants
  /\ orderRows \in [Orders -> [rev : Nat, live : BOOLEAN]]
  /\ orderLines \in [Orders -> [rev : Nat, known : BOOLEAN]]
  /\ refunds \subseteq Orders
  /\ firstOrder \in [Customers -> Nat]
  /\ {orderCursor, after, nextCursor} \subseteq 0..MaxEdits
  /\ removed \subseteq Orders
  /\ payouts \in {"none", "net", "breakdown"}
  /\ shopStep \in Steps /\ importer \in Runs
  /\ search \in Searches
  /\ DOMAIN nodes \subseteq Orders /\ \A o \in DOMAIN nodes : nodes[o] \in Nodes
  /\ known \in [Customers -> Nat]
  /\ promised \subseteq OrderPromises
  /\ readBegun \in OrderReads /\ readUpTo \in [rev : Nat, day : Nat]
  /\ incidents \in 0..MaxIncidents

ShopInit ==
  /\ shop = [o \in Orders |-> [rev |-> NoRev, placed |-> 0, updated |-> 0,
                               live |-> FALSE, refunded |-> FALSE]]
  /\ edits = 0 /\ shopDay = 1
  /\ variants = {}
  /\ orderRows = [o \in Orders |-> [rev |-> NoRev, live |-> FALSE]]
  /\ orderLines = [o \in Orders |-> [rev |-> NoRev, known |-> FALSE]]
  /\ refunds = {}
  /\ firstOrder = [c \in Customers |-> NoDate]
  /\ orderCursor = NullCursor
  /\ payouts = "none"
  /\ shopStep = "idle" /\ importer = "refresh" /\ search = Everything
  /\ after = NullCursor /\ nodes = Nowhere /\ nextCursor = NullCursor
  /\ known = [c \in Customers |-> NoDate]
  /\ promised = {} /\ removed = {}
  /\ readBegun = NoRead
  /\ readUpTo = [rev |-> 0, day |-> 1]
  /\ incidents = 0

-----------------------------------------------------------------------------
(* The shop.                                                                *)

Placed(o) == shop[o].rev # NoRev

ChangeOrder(o, placed, live, refunded) ==
  /\ edits < MaxEdits
  /\ edits' = edits + 1
  /\ shop' = [shop EXCEPT ![o] = [rev |-> edits + 1, placed |-> placed, updated |-> shopDay,
                                 live |-> live, refunded |-> refunded]]
  /\ UNCHANGED <<shopDay, tables, orderCursor, sync, history, incidents>>

Place(o) == ~Placed(o) /\ ChangeOrder(o, shopDay, o \notin TestOrders, FALSE)
Refund(o) == /\ Placed(o) /\ ~shop[o].refunded
             /\ ChangeOrder(o, shop[o].placed, shop[o].live, TRUE)
Cancel(o) == shop[o].live /\ ChangeOrder(o, shop[o].placed, FALSE, shop[o].refunded)

ShopDayPasses ==
  /\ shopDay < LastDay
  /\ shopDay' = shopDay + 1
  /\ UNCHANGED <<shop, edits, tables, orderCursor, sync, history, incidents>>

(* updatedSinceQuery and createdSinceQuery; an empty search matches all.    *)
Matches(s) == {o \in Orders : Placed(o) /\
                 (IF s.by = "created" THEN shop[o].placed ELSE shop[o].updated) >= s.since}

Behind(s, c) == {o \in Matches(s) : shop[o].rev > c}

(* The first OrdersPerPage nodes behind the cursor.                         *)
OrdersOnPage(s, c) ==
  {o \in Behind(s, c) :
     Cardinality({p \in Behind(s, c) : shop[p].rev < shop[o].rev}) < OrdersPerPage}

-----------------------------------------------------------------------------
(* refreshShopify: catalogue, orders, payouts; a backfill reads no payouts. *)

Incident == incidents < MaxIncidents /\ incidents' = incidents + 1

(* The page in hand, or the sync, is done with.                             *)
DropNodes == /\ nodes' = Nowhere /\ nextCursor' = NullCursor
             /\ known' = [c \in Customers |-> NoDate]
ShopifyIdle == shopStep' = "idle" /\ importer' = "refresh"
LeaveOrders == DropNodes /\ search' = Everything /\ after' = NullCursor

(* updatedSince is null when a cursor is stored, thirty days ago when not.  *)
BeginShopify ==
  /\ shopStep = "idle"
  /\ shopStep' = "catalogue" /\ importer' = "refresh"
  /\ UNCHANGED <<store, tables, orderCursor, search, after, nodes, nextCursor,
                 known, history, incidents>>

(* --since, --created-since, or neither; --skip-catalogue.                  *)
BeginBackfill ==
  /\ shopStep = "idle"
  /\ Incident
  /\ Careless \/ orderCursor = NullCursor
  /\ importer' = "backfill" /\ shopStep' \in {"catalogue", "begin"}
  /\ search' \in {Everything} \cup [by : {"created", "updated"}, since : {BackfillSince}]
  /\ UNCHANGED <<store, tables, orderCursor, after, nodes, nextCursor, known, history>>

(* The variants of what is on sale.  persistVariantBatch also writes the    *)
(* products before and the stock after them, which no order reads.          *)
SyncCatalogue ==
  /\ shopStep = "catalogue"
  /\ variants' = {VariantOf[o] : o \in {p \in Orders : Placed(p)}} \cup variants
  /\ shopStep' = "begin"
  /\ UNCHANGED <<store, orderRows, orderLines, refunds, firstOrder, payouts, writing>>

(* Faulty: misses an order that was placed before the window and changed in it. *)
RefreshSearchByCreation ==
  IF orderCursor # NullCursor \/ shopDay <= OrderWindow THEN Everything
  ELSE [by |-> "created", since |-> shopDay - OrderWindow]

RefreshSearch ==
  IF orderCursor # NullCursor \/ shopDay <= OrderWindow THEN Everything
  ELSE [by |-> "updated", since |-> shopDay - OrderWindow]

(* What the search of this run would list now.                              *)
ListingOf(s) == {[order |-> o, rev |-> shop[o].rev, live |-> shop[o].live,
                 refunded |-> shop[o].refunded, known |-> VariantOf[o] \in variants] :
                  o \in Matches(s)}

(* How far back a read is meant to go: a refresh thirty days.               *)
Reach == CASE importer = "refresh" -> Max({0, shopDay - OrderWindow})
           [] importer # "refresh" /\ search.by = "updated" -> search.since
           [] OTHER -> LastDay + 1

(* A refresh that finds a cursor lists what is behind it.  Of its own thirty *)
(* days it answers for the rest too, if the read it goes on with reaches as *)
(* far back; the lines of those were written when the page was.             *)
AfterCursor(o) == shop[o].rev > orderCursor
Owed == {o \in Matches(Everything) :
           AfterCursor(o) \/ (readBegun.since <= Reach /\ shop[o].updated >= Reach)}
ListingOfRest == {[order |-> o, rev |-> shop[o].rev, live |-> shop[o].live,
                   refunded |-> shop[o].refunded,
                   known |-> AfterCursor(o) /\ VariantOf[o] \in variants] : o \in Owed}

(* A run that finds a cursor goes on with an interrupted read.              *)
BeginOrders ==
  LET s == IF importer = "refresh" THEN RefreshSearch ELSE search IN
  /\ shopStep = "begin"
  /\ search' = s
  /\ after' = orderCursor
  /\ IF orderCursor = NullCursor \/ importer = "backfill"
       THEN /\ promised' = ListingOf(s)
            /\ readBegun' = [rev |-> edits, day |-> shopDay, since |-> Reach]
       ELSE /\ promised' = promised \cup ListingOfRest
            /\ UNCHANGED readBegun
  /\ shopStep' = "reading"
  /\ UNCHANGED <<store, tables, orderCursor, importer, nodes, nextCursor, known,
                 readUpTo, removed, incidents>>

(* fetchConnectionPage: the cursor of the last node where there are more.   *)
NextCursor(os) ==
  IF os = Behind(search, after) THEN NullCursor ELSE Max({shop[o].rev : o \in os})

(* fetchPage.  An empty page writes nothing.                                *)
ReadOrders ==
  LET os == OrdersOnPage(search, after) IN
  /\ shopStep = "reading"
  /\ nodes' = [o \in os |-> shop[o]]
  /\ nextCursor' = NextCursor(os)
  /\ shopStep' = IF os = {} THEN "advancing" ELSE "customers"
  /\ UNCHANGED <<store, tables, orderCursor, importer, search, after, known,
                 history, incidents>>

-----------------------------------------------------------------------------
(* persistOrderBatch: a statement at a time.                                *)

CustomersOf(os) == {CustomerOf[o] : o \in os}

(* upsertCustomers: new rows have no date; the dates there are read back.   *)
UpsertCustomers ==
  /\ shopStep = "customers"
  /\ known' = [c \in Customers |->
                 IF c \in CustomersOf(DOMAIN nodes) THEN firstOrder[c] ELSE NoDate]
  /\ shopStep' = "orders"
  /\ UNCHANGED <<store, tables, orderCursor, importer, search, after, nodes,
                 nextCursor, history, incidents>>

(* resolveVariants, and the upsert of the orders.                           *)
WriteOrders ==
  /\ shopStep = "orders"
  /\ orderRows' = [o \in Orders |->
       IF o \in DOMAIN nodes THEN [rev |-> nodes[o].rev, live |-> nodes[o].live]
       ELSE orderRows[o]]
  /\ shopStep' = "lines"
  /\ UNCHANGED <<store, variants, orderLines, refunds, firstOrder, payouts, writing>>

(* A line whose variant is not in the catalogue is written without one.     *)
WriteOrderLines ==
  /\ shopStep = "lines"
  /\ orderLines' = [o \in Orders |->
       IF o \in DOMAIN nodes THEN [rev |-> nodes[o].rev, known |-> VariantOf[o] \in variants]
       ELSE orderLines[o]]
  /\ shopStep' = "refunds"
  /\ UNCHANGED <<store, variants, orderRows, refunds, firstOrder, payouts, writing>>

(* persistRefunds.                                                          *)
WriteRefunds ==
  /\ shopStep = "refunds"
  /\ refunds' = refunds \cup {o \in DOMAIN nodes : nodes[o].refunded}
  /\ shopStep' = "dates"
  /\ UNCHANGED <<store, variants, orderRows, orderLines, firstOrder, payouts, writing>>

LiveOnPage(c) == {o \in DOMAIN nodes : CustomerOf[o] = c /\ nodes[o].live}
EarliestOf(c) == Min({OrderedAt[o] : o \in LiveOnPage(c)})

(* Faulty: the earliest order of the page, whatever is on record.           *)
EarlierOnPage(c) == LiveOnPage(c) # {} /\ firstOrder[c] # EarliestOf(c)

(* Faulty: the first date on record stands.                                 *)
EarlierOnce(c) == LiveOnPage(c) # {} /\ known[c] = NoDate

(* The customers whose date advanceFirstOrderDates moves.                   *)
Earlier(c) == /\ LiveOnPage(c) # {}
              /\ known[c] = NoDate \/ EarliestOf(c) < known[c]

(* advanceFirstOrderDates: an update per customer.  One that has its date   *)
(* already is not distinguished from one that has yet to get it.            *)
WriteDate(c) ==
  /\ shopStep = "dates"
  /\ Earlier(c)
  /\ firstOrder[c] # EarliestOf(c)
  /\ firstOrder' = [firstOrder EXCEPT ![c] = EarliestOf(c)]
  /\ UNCHANGED <<store, variants, orderRows, orderLines, refunds, payouts,
                 orderCursor, sync, history, incidents>>

DatesWritten ==
  /\ shopStep = "dates"
  /\ \A c \in Customers : Earlier(c) => firstOrder[c] = EarliestOf(c)
  /\ shopStep' = "advancing"
  /\ UNCHANGED <<store, tables, orderCursor, importer, search, after, nodes,
                 nextCursor, known, history, incidents>>

(* The read is over; all there was is read if it goes back to the last one. *)
Complete ==
  /\ promised' = {} /\ readBegun' = NoRead
  /\ readUpTo' = IF readBegun.since <= readUpTo.day
                   THEN [rev |-> readBegun.rev, day |-> readBegun.day] ELSE readUpTo
  /\ IF importer = "refresh" THEN shopStep' = "payouts" /\ UNCHANGED importer
     ELSE ShopifyIdle

(* setCursor: null after the last page, which completes the run.            *)
AdvanceOrders ==
  /\ shopStep = "advancing"
  /\ orderCursor' = nextCursor
  /\ IF nextCursor = NullCursor THEN Complete /\ LeaveOrders
     ELSE /\ shopStep' = "reading" /\ after' = nextCursor
          /\ DropNodes
          /\ UNCHANGED <<importer, search, promised, readBegun, readUpTo>>
  /\ UNCHANGED <<store, tables, removed, incidents>>

-----------------------------------------------------------------------------
(* buildShopifyPayoutsSyncJob: a schema rejection asks again for less, and  *)
(* persistPayouts writes every column of what came; a missing scope is a    *)
(* capability the store lacks.                                              *)
SyncPayouts ==
  /\ shopStep = "payouts"
  /\ payouts' = IF Settlements = "not_permitted" THEN payouts ELSE Settlements
  /\ ShopifyIdle
  /\ UNCHANGED <<store, variants, orderRows, orderLines, refunds, firstOrder, orderCursor, search, after,
                 nodes, nextCursor, known, history, incidents>>

(* A sync that fails is recorded and refreshShopify goes on with the next;  *)
(* the backfill stops without a catalogue.                                  *)
ShopifySyncFails ==
  /\ shopStep # "idle"
  /\ Incident
  /\ IF importer = "backfill" \/ shopStep = "payouts" THEN ShopifyIdle
     ELSE /\ shopStep' = IF shopStep = "catalogue" THEN "begin" ELSE "payouts"
          /\ UNCHANGED importer
  /\ LeaveOrders
  /\ UNCHANGED <<store, tables, orderCursor, history>>

ShopifyCrashes ==
  /\ shopStep # "idle"
  /\ Incident
  /\ ShopifyIdle /\ LeaveOrders
  /\ UNCHANGED <<store, tables, orderCursor, history>>

-----------------------------------------------------------------------------
(* delete-orders-before.mjs, run by hand between imports: one transaction.  *)

Surviving(gone) == {o \in Orders \ gone : orderRows[o].rev # NoRev}

Rebased(c, gone) ==
  LET mine == {o \in Surviving(gone) : CustomerOf[o] = c}
      live == {o \in mine : orderRows[o].live}
  IN  CASE mine = {} -> NoDate  \* the customer is deleted
        [] mine # {} /\ live = {} -> firstOrder[c]
        [] OTHER -> Min({OrderedAt[o] : o \in live})

DeleteOrdersBefore(cutoff) ==
  LET gone == {o \in Orders : orderRows[o].rev # NoRev /\ OrderedAt[o] < cutoff} IN
  /\ shopStep = "idle"
  /\ Incident
  /\ gone # {}
  /\ orderRows' = [o \in Orders |->
       IF o \in gone THEN [rev |-> NoRev, live |-> FALSE] ELSE orderRows[o]]
  /\ orderLines' = [o \in Orders |->
       IF o \in gone THEN [rev |-> NoRev, known |-> FALSE] ELSE orderLines[o]]
  /\ refunds' = refunds \ gone
  /\ firstOrder' = [c \in Customers |-> Rebased(c, gone)]
  /\ removed' = removed \cup gone
  /\ UNCHANGED <<store, variants, payouts, orderCursor, sync, promised, readBegun,
                 readUpTo>>

-----------------------------------------------------------------------------
ImportShopify == \/ BeginShopify \/ SyncCatalogue \/ BeginOrders \/ ReadOrders
                 \/ UpsertCustomers \/ WriteOrders \/ WriteOrderLines \/ WriteRefunds
                 \/ (\E c \in Customers : WriteDate(c)) \/ DatesWritten
                 \/ AdvanceOrders \/ SyncPayouts

ShopNext == \/ \E o \in Orders : Place(o) \/ Refund(o) \/ Cancel(o)
            \/ ShopDayPasses
            \/ ImportShopify \/ BeginBackfill \/ ShopifySyncFails \/ ShopifyCrashes
            \/ \E cutoff \in {OrderedAt[o] + 1 : o \in Orders} : DeleteOrdersBefore(cutoff)

ShopSpec == ShopInit /\ [][ShopNext]_shopVars

-----------------------------------------------------------------------------
(* Properties.                                                              *)

(* What a promise e is worth: the order is stored at that state or a later  *)
(* one, with its lines, its refunds and its customer's date.                *)
OrderArrived(e) ==
  LET o == e.order IN
  /\ orderRows[o].rev >= e.rev
  /\ orderLines[o].rev >= e.rev
  /\ e.known => orderLines[o].known
  /\ e.refunded => o \in refunds
  /\ e.live /\ orderRows[o].live => firstOrder[CustomerOf[o]] \in 1..OrderedAt[o]

(* A sync that succeeds has stored what it was asked for, each order at the *)
(* state it had when the sync began or a later one, although it was read    *)
(* page by page, written table by table, failed and resumed while orders    *)
(* changed and moved: all its search lists, and when it goes on with an     *)
(* interrupted read, all that one was asked for, all behind the cursor, and *)
(* its own thirty days if the read had begun as far back.  sync.ts: null    *)
(* "reads the whole order history, which is what a first backfill wants".   *)
SyncHoldsItsWindow ==
  [][AdvanceOrders /\ nextCursor = NullCursor =>
       \A e \in promised : e.order \in removed \/ OrderArrived(e)]_shopVars

(* Nothing falls between the windows of two refreshes: while each read      *)
(* begins no more than thirty days after the last complete one began, every *)
(* change made before it is in the database, an old order refunded late     *)
(* included.                                                                *)
WindowsLeaveNoGap ==
  \A o \in Orders \ removed :
    shop[o].rev \in 1..readUpTo.rev =>
      /\ orderRows[o].rev = shop[o].rev
      /\ orderLines[o].rev = shop[o].rev
      /\ shop[o].refunded => o \in refunds

(* "Only moving the date backwards keeps the answer independent of page     *)
(* order" (shopify-repository.ts): an import never moves the date of a      *)
(* customer's first order later; only deleting orders does.                 *)
FirstDateOnlyMovesBack ==
  [][\A c \in Customers :
       \/ firstOrder[c] = NoDate \/ firstOrder'[c] <= firstOrder[c]
       \/ \E o \in Orders : orderRows[o].rev # NoRev /\ orderRows'[o].rev = NoRev]_shopVars
=============================================================================
