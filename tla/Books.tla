------------------------------- MODULE Books -------------------------------
(* The stored facts and the loaders that shape them for the engine:           *)
(* src/lib/reporting/reporting-repository.ts and operations-repository.ts.    *)
(* Rows arrive one at a time, from the importers and from the settings pages; *)
(* each table keeps what a query or a calculation reads of a row. Row ids are *)
(* members of the DOMAIN of Catalogue, which says what the row will hold.     *)
(*                                                                            *)
(* An instant is an hour; a UTC day has Hours of them. The organisation's     *)
(* clock runs Offset hours ahead from the hour SummerFrom on.                 *)
EXTENDS Positions

CONSTANTS
  Catalogue,    \* row id -> its table and columns
  SummerFrom,   \* the first hour of summer time
  Offset,       \* hours the summer clock is ahead of UTC
  Seeded,       \* rows the master-data scripts wrote before the first import
  Policy,       \* the values of the approved policy decisions
  Outstanding   \* decisions not yet approved at the start

VARIABLES
  stored,       \* ids of the rows in the database
  cancelled,    \* stored orders with a cancelled_at
  firstOrderAt, \* shopify_customers.first_order_at, as an hour
  decided       \* approved policy decisions

bookVars == <<stored, cancelled, firstOrderAt, decided>>

Hours == 24

Decisions == {"status", "vat", "window", "reversal", "level"}

ASSUME BooksAssumption ==
  /\ SummerFrom \in Int /\ Offset \in 0 .. Hours
  /\ Outstanding \subseteq Decisions
  /\ Seeded \subseteq DOMAIN Catalogue /\ \A id \in Seeded : Catalogue[id].table # "orders"

IdsOf(table) == {id \in DOMAIN Catalogue : Catalogue[id].table = table}

(* What the tables guarantee of the rows they will hold: an instant and a     *)
(* date in every row that a loader cuts a range from, and one row per order,  *)
(* unique (organisation_id, external_id).                                     *)
ASSUME CatalogueAssumption ==
  /\ IsFiniteSet(DOMAIN Catalogue)
  /\ \A id \in IdsOf("orders") : Catalogue[id].orderedAt \in Nat
  /\ \A id, other \in IdsOf("orders") : Catalogue[id].externalId = Catalogue[other].externalId => id = other
  /\ \A id \in IdsOf("refunds") : Catalogue[id].processedAt \in Int
  /\ \A id \in IdsOf("adRows") \cup IdsOf("transactions") : Catalogue[id].date \in Int

Amounts(record, columns) == \A c \in columns : record[c] \in Int
Listed(lines, columns) ==
  /\ lines \in Seq({lines[i] : i \in DOMAIN lines})
  /\ \A i \in DOMAIN lines : Amounts(lines[i], columns)

(* Amounts and quantities are numbers, lines are listed, postage is charged in *)
(* pence, as every amount of Shopify's, and a cost is not negative and charged *)
(* on one of the four bases (cost_charge_basis), a recurring one per period.  *)
ASSUME AmountsAssumption ==
  /\ \A id \in IdsOf("orders") :
       /\ Amounts(Catalogue[id], {"grossSales", "discounts", "shippingRevenue", "tax"})
       /\ Catalogue[id].shippingRevenue % Penny = 0
       /\ Listed(Catalogue[id].lines, {"quantity", "grossSales", "discounts"})
  /\ \A id \in IdsOf("refunds") :
       Amounts(Catalogue[id], {"total", "tax"}) /\ Listed(Catalogue[id].lines, {"quantity"})
  /\ \A id \in IdsOf("adRows") : Catalogue[id].spend \in Int
  /\ \A id \in IdsOf("transactions") :
       Catalogue[id].total \in Int /\ Listed(Catalogue[id].lines, {"amount", "tax"})
  /\ \A id \in IdsOf("payouts") : Amounts(Catalogue[id], {"charges", "refunds", "fees", "net"})
  /\ \A id \in IdsOf("balances") : Amounts(Catalogue[id], {"date", "closing"})
  /\ \A id \in IdsOf("profiles") : Catalogue[id].from \in Int /\ Amounts(Catalogue[id].costs, UnitComponents)
  /\ \A id \in IdsOf("assumptions") :
       /\ Catalogue[id].amount \in Nat
       /\ Catalogue[id].basis \in {"per_order", "per_unit", "percentage_of_revenue", "fixed_period"}
       /\ Catalogue[id].basis = "fixed_period" => Catalogue[id].period \in {"day"} \cup Units

StoredIn(table) == stored \cap IdsOf(table)
Customers == {Catalogue[id].customer : id \in IdsOf("orders")} \ {NoCustomer}
Never == -1

TypeOK ==
  /\ stored \subseteq DOMAIN Catalogue
  /\ cancelled \subseteq StoredIn("orders")
  /\ firstOrderAt \in [Customers -> {Never} \cup {Catalogue[id].orderedAt : id \in IdsOf("orders")}]
  /\ decided \subseteq Decisions

BooksInit ==
  /\ stored = Seeded /\ cancelled = {}
  /\ firstOrderAt = [c \in Customers |-> Never]
  /\ decided = Decisions \ Outstanding

(*--------------------------- rows arriving -------------------------------*)
(* An import writes an order as it finds it: only one that is neither a test  *)
(* nor cancelled may move its customer's first order, and only earlier.       *)
StoreOrder(id, isCancelled) ==
  LET order == Catalogue[id]
      c == order.customer
      isEarlier == /\ c # NoCustomer /\ ~order.isTest /\ ~isCancelled
                   /\ firstOrderAt[c] = Never \/ order.orderedAt < firstOrderAt[c]
  IN  /\ id \notin stored
      /\ stored' = stored \cup {id}
      /\ cancelled' = IF isCancelled THEN cancelled \cup {id} ELSE cancelled
      /\ firstOrderAt' = IF isEarlier THEN [firstOrderAt EXCEPT ![c] = order.orderedAt] ELSE firstOrderAt
      /\ UNCHANGED decided

CancelOrder(id) ==
  /\ id \in StoredIn("orders") \ cancelled
  /\ cancelled' = cancelled \cup {id}
  /\ UNCHANGED <<stored, firstOrderAt, decided>>

(* A refund is written after its order, every other row whenever it comes.    *)
StoreRow(id) ==
  /\ id \notin stored
  /\ Catalogue[id].table = "refunds" => Catalogue[id].order \in stored
  /\ stored' = stored \cup {id}
  /\ UNCHANGED <<cancelled, firstOrderAt, decided>>

Decide(decision) ==
  /\ decision \in Outstanding \ decided
  /\ decided' = decided \cup {decision}
  /\ UNCHANGED <<stored, cancelled, firstOrderAt>>

BooksNext ==
  \/ \E id \in IdsOf("orders") :
       CancelOrder(id) \/ \E isCancelled \in BOOLEAN : StoreOrder(id, isCancelled)
  \/ \E id \in DOMAIN Catalogue \ IdsOf("orders") : StoreRow(id)
  \/ \E decision \in Decisions : Decide(decision)

(*------------------------------- loaders ---------------------------------*)
BusinessDate(hour) == (hour + (IF hour >= SummerFrom THEN Offset ELSE 0)) \div Hours

(* The UTC window that can possibly hold a range of business dates.           *)
InUtcWindow(hour, range) ==
  (range.from - 1) * Hours <= hour /\ hour < (range.to + 2) * Hours

(* Null until every decision the engine needs is approved; what is missing is *)
(* named.                                                                     *)
LoadPolicy ==
  IF decided = Decisions
  THEN [status |-> "approved", policy |-> Policy, missing |-> {}]
  ELSE [status |-> "not_approved", policy |-> Policy, missing |-> Decisions \ decided]

LoadAllocationContext ==
  [profiles |-> {Catalogue[id] : id \in StoredIn("profiles")},
   assumptions |-> {Catalogue[id] : id \in StoredIn("assumptions")}]

LiveOrders == {id \in StoredIn("orders") \ cancelled : ~Catalogue[id].isTest}

(* Mutant of LoadOrders: the orders asked for by id are kept only in range.   *)
LoadOrdersOfRange(range, alsoIncludeIds) ==
  {id \in LiveOrders : InRange(BusinessDate(Catalogue[id].orderedAt), range)}

(* Orders of the range, and those asked for by id wherever they lie.          *)
LoadOrders(range, alsoIncludeIds) ==
  LET window == {id \in LiveOrders : InUtcWindow(Catalogue[id].orderedAt, range)}
      fetched == window \cup (LiveOrders \cap alsoIncludeIds)
  IN  {id \in fetched : \/ id \in alsoIncludeIds
                        \/ InRange(BusinessDate(Catalogue[id].orderedAt), range)}

LoadRefunds(range) ==
  {id \in StoredIn("refunds") : /\ InUtcWindow(Catalogue[id].processedAt, range)
                                /\ InRange(BusinessDate(Catalogue[id].processedAt), range)}

LoadFirstOrderDates(customers) ==
  [c \in {k \in customers : firstOrderAt[k] # Never} |-> BusinessDate(firstOrderAt[c])]

(* Account rows only: the finer levels repeat the same spend.                 *)
LoadAdSpend(range) ==
  {[platform |-> Catalogue[id].platform, businessDate |-> Catalogue[id].date,
    spend |-> Catalogue[id].spend, purchases |-> Catalogue[id].purchases,
    purchaseValue |-> Catalogue[id].purchaseValue, id |-> id]
     : id \in {i \in StoredIn("adRows") : /\ Catalogue[i].entity = "account"
                                          /\ InRange(Catalogue[i].date, range)}}

ExpenseBucket ==
  [acquisition |-> "cm2", variable_operating |-> "cm3", fixed_operating |-> "fixed_operating",
   cash_commitment |-> "cash_only", excluded |-> "none"]

RulesFor(account, d) ==
  {r \in {Catalogue[id] : id \in StoredIn("rules")} : r.account = account /\ IsEffectiveOn(r, d)}

(* What a stored transaction charges to an account: its lines with their tax, *)
(* or the whole of it when no line was stored; a receipt takes cost back.     *)
ChargesOf(id) ==
  LET t == Catalogue[id]
      sign == IF t.type = "RECEIVE" THEN -1 ELSE 1
  IN  IF t.lines # <<>>
      THEN {[id |-> <<id, i>>, account |-> t.lines[i].account,
             amount |-> sign * (t.lines[i].amount + t.lines[i].tax)] : i \in DOMAIN t.lines}
      ELSE {[id |-> <<id, 0>>, account |-> t.account, amount |-> sign * t.total]}

LoadMappedExpenses(range) ==
  LET Mapped(id) ==
        LET d == Catalogue[id].date
            Bucket(c) == ExpenseBucket[(CHOOSE r \in RulesFor(c.account, d) : TRUE).category]
        IN  {[id |-> c.id, businessDate |-> d, bucket |-> Bucket(c), amount |-> c.amount]
               : c \in {x \in ChargesOf(id) : RulesFor(x.account, d) # {} /\ Bucket(x) # "none"}}
  IN  UNION {Mapped(id) : id \in {i \in StoredIn("transactions") : InRange(Catalogue[i].date, range)}}

(* The first order of a customer's first day is the acquisition. Dates known  *)
(* from stored history are lowered by the orders at hand.                     *)
AssignNewCustomerFlags(orders, known) ==
  LET eligible == {o \in orders : o.customer # NoCustomer /\ ~o.isExcluded}
      First(c) == Min({o.businessDate : o \in {p \in eligible : p.customer = c}}
                        \cup (IF c \in DOMAIN known THEN {known[c]} ELSE {}))
      IsFirst(o) == /\ o \in eligible
                    /\ o.businessDate = First(o.customer)
                    /\ \A p \in eligible : /\ p.customer = o.customer
                                           /\ p.businessDate = o.businessDate
                                           => o.externalId <= p.externalId
  IN  {[o EXCEPT !.isNew = IsFirst(o)] : o \in orders}

OrderInput(id) ==
  LET o == Catalogue[id]
  IN  [externalId |-> o.externalId, customer |-> o.customer,
       businessDate |-> BusinessDate(o.orderedAt), grossSales |-> o.grossSales,
       discounts |-> o.discounts, shippingRevenue |-> o.shippingRevenue, lines |-> o.lines,
       isNew |-> FALSE, isExcluded |-> FALSE]

RefundInput(id) ==
  LET r == Catalogue[id]
  IN  [externalId |-> id, order |-> Catalogue[r.order].externalId,
       processedBusinessDate |-> BusinessDate(r.processedAt), amount |-> r.total - r.tax,
       restocked |-> r.restocked, lines |-> r.lines]

FactsOf(range, refundIds, orderIds) ==
  [range |-> range,
   orders |-> AssignNewCustomerFlags(
     {OrderInput(o) : o \in orderIds},
     LoadFirstOrderDates({Catalogue[o].customer : o \in orderIds} \ {NoCustomer})),
   refunds |-> {RefundInput(r) : r \in {x \in refundIds : Catalogue[x].order \in orderIds}},
   adSpend |-> LoadAdSpend(range),
   mappedExpenses |-> LoadMappedExpenses(range),
   context |-> LoadAllocationContext,
   policy |-> Policy]

(* Everything the engine needs for one range. A refund pulls its order in,    *)
(* and counts only when that order does.                                      *)
LoadFacts(range) ==
  FactsOf(range, LoadRefunds(range), LoadOrders(range, {Catalogue[r].order : r \in LoadRefunds(range)}))

(*--------------------------- stock and cash ------------------------------*)
(* The newest snapshot of every location, the locations of a variant summed;  *)
(* the planning settings in force on the day.                                 *)
LoadInventoryPositions(asOf) ==
  LET snapshots == {Catalogue[id] : id \in StoredIn("snapshots")}
      latest == {s \in snapshots : \A o \in snapshots :
                   (o.variant = s.variant /\ o.location = s.location) => o.at <= s.at}
      Of(v) == {s \in latest : s.variant = v}
      Setting(v) == {s \in {Catalogue[id] : id \in StoredIn("settings")} :
                       s.variant = v /\ IsEffectiveOn(s, asOf)}
      Planned(v, Column(_)) ==
        IF Setting(v) = {} THEN NotAvailable ELSE <<Column(CHOOSE s \in Setting(v) : TRUE)>>
  IN  [v \in {s.variant : s \in latest} |->
         [available |-> SumOver(Of(v), LAMBDA s : s.available),
          onOrder |-> SumOver(Of(v), LAMBDA s : s.onOrder),
          snapshotAt |-> Max({s.at : s \in Of(v)}) \div Hours,
          reorderPoint |-> Planned(v, LAMBDA s : s.reorderPoint),
          leadTime |-> Planned(v, LAMBDA s : s.leadTime)]]

(* A spend leaves the account; only movements of a known bank account count.  *)
Moved(t) == IF t.type = "SPEND" THEN -t.total ELSE t.total
BankMovements(range) ==
  {[id |-> id, businessDate |-> Catalogue[id].date, amount |-> Moved(Catalogue[id])]
     : id \in {i \in StoredIn("transactions") : /\ Catalogue[i].bank # "none"
                                                /\ InRange(Catalogue[i].date, range)}}

BalancesTo(to) == {Catalogue[id] : id \in {i \in StoredIn("balances") : Catalogue[i].date <= to}}
BalanceOn(d, balances) == SumOver({b \in balances : b.date = d}, LAMBDA b : b.closing)

(* The balance is the one last reported, summed over the accounts of that one *)
(* day; unpaid bills count as commitments from their due or invoice date.     *)
LoadCash(range) ==
  LET balances == BalancesTo(range.to)
      latest == Max({b.date : b \in balances})
      commitments == {Catalogue[id] : id \in StoredIn("commitments")}
      bills == {b \in {Catalogue[id] : id \in StoredIn("bills")} :
                  b.due > 0 /\ b.status \notin {"VOIDED", "DELETED"}}
  IN  [bankBalance |-> IF balances = {} THEN NotAvailable ELSE <<BalanceOn(latest, balances)>>,
       bankBalanceAsAt |-> IF balances = {} THEN NoDate ELSE latest,
       movements |-> BankMovements(range),
       commitments |->
         {[id |-> c.id, dueDate |-> c.dueDate, category |-> c.category, amount |-> c.amount] : c \in commitments}
         \cup {[id |-> b.id, dueDate |-> IF b.dueDate = NoDate THEN b.invoiceDate ELSE b.dueDate,
                category |-> "supplier bill", amount |-> b.due] : b \in bills}]
=============================================================================
