----------------------------- MODULE Positions -----------------------------
(* Figures read beside the contribution walk: customers and cohorts           *)
(* (src/lib/financial/customers.ts), marketing (marketing.ts), stock cover    *)
(* (inventory.ts) and cash (cash.ts). Pure functions of allocated orders and  *)
(* of the positions stored by the connectors.                                 *)
EXTENDS Contribution

(*------------------------------- customers -------------------------------*)
NoCustomer == "guest"

OrdersOf(orders, customer) == {o \in orders : o.customer = customer}
CustomersOf(orders) == {o.customer : o \in orders} \ {NoCustomer}
NetOf(orders) == SumOver(orders, LAMBDA o : o.netRevenue)

SummariseCustomers(orders) ==
  LET acquired == {o \in orders : o.isNew}
      returning == orders \ acquired
      customers == CustomersOf(orders)
      repeat == {c \in customers : Cardinality(OrdersOf(orders, c)) > 1}
  IN  [orders |-> Cardinality(orders), returningOrders |-> Cardinality(returning),
       distinctCustomers |-> Cardinality(customers), newCustomers |-> Cardinality(acquired),
       netRevenue |-> NetOf(orders), newCustomerNetRevenue |-> NetOf(acquired),
       returningCustomerNetRevenue |-> NetOf(returning),
       averageOrderValue |-> Ratio(NetOf(orders), Cardinality(orders)),
       newCustomerAverageOrderValue |-> Ratio(NetOf(acquired), Cardinality(acquired)),
       ordersPerCustomer |-> Ratio(Cardinality(orders), Cardinality(customers)),
       repeatOrderShare |-> Ratio(Cardinality(returning), Cardinality(orders)),
       repeatCustomerRate |-> Ratio(Cardinality(repeat), Cardinality(customers))]

SummariseAcquisition(orders, level) ==
  LET firstOrders == {o \in orders : o.isNew}
  IN  [newCustomers |-> Cardinality(firstOrders), newCustomerNetRevenue |-> NetOf(firstOrders),
       newCustomerContributionBeforeAds |->
         SumOver(firstOrders, LAMBDA o : ContributionBeforeAds(o, level))]

(* Mutant of WindowIsComplete: counted from the cohort's first customer.      *)
WindowIsCompleteForOne(firstOrders, days, asOf) == Min(firstOrders) + days <= asOf

(* A window is over when it is over for the customer who joined last.         *)
WindowIsComplete(firstOrders, days, asOf) == Max(firstOrders) + days <= asOf

(* Realised revenue by the month of the first order among those given.        *)
BuildCustomerCohorts(orders, asOf, windows) ==
  LET first == Table([c \in CustomersOf(orders) |-> Min({o.businessDate : o \in OrdersOf(orders, c)})])
      Members(m) == {c \in DOMAIN first : PeriodStart("month", first[c]) = m}
      Cohort(m) ==
        LET theirs == {o \in orders : o.customer \in Members(m)}
        IN  [customers |-> Cardinality(Members(m)),
             firstOrderRevenue |-> NetOf({o \in theirs : o.businessDate = first[o.customer]}),
             windows |-> [days \in windows |->
               [revenue |-> NetOf({o \in theirs : o.businessDate <= first[o.customer] + days}),
                isComplete |-> WindowIsComplete({first[c] : c \in Members(m)}, days, asOf)]],
             revenuePerCustomer |-> Ratio(NetOf(theirs), Cardinality(Members(m)))]
  IN  [m \in {PeriodStart("month", first[c]) : c \in DOMAIN first} |-> Cohort(m)]

OrdersInRange(orders, range) == {o \in orders : InRange(o.businessDate, range)}

(*------------------------------- marketing -------------------------------*)
(* A quotient of quotients, kept as one pair.                                 *)
PlatformResult(p) ==
  [spend |-> p.spend, attributedPurchases |-> p.attributedPurchases,
   attributedCac |-> IF p.attributedPurchases # NotAvailable /\ p.attributedPurchases[1] > 0
                     THEN Ratio(p.spend, p.attributedPurchases[1]) ELSE NotAvailable,
   attributedRoas |-> IF p.attributedPurchaseValue = NotAvailable
                      THEN NotAvailable ELSE Ratio(p.attributedPurchaseValue[1], p.spend)]

(* Most that can be paid for a customer, against what was paid: both are per  *)
(* new customer, so the headroom is the difference of the totals; that of the *)
(* returns, the difference of two ratios, over their common divisor.          *)
CalculateMarketingPeriod(in) ==
  LET platforms == DOMAIN in.platforms
      advertising == SumOver(platforms, LAMBDA p : in.platforms[p].spend) + in.otherAcquisitionSpend
      n == in.newCustomers
      acquired == n > 0
      contribution == in.newCustomerContributionBeforeAds
  IN  [advertisingSpend |-> advertising,
       mer |-> Ratio(in.netRevenue, advertising),
       blendedCac |-> IF acquired THEN Ratio(advertising, n) ELSE NotAvailable,
       newCustomerRoas |-> Ratio(in.newCustomerNetRevenue, advertising),
       maximumCac |-> IF acquired THEN Ratio(contribution, n) ELSE NotAvailable,
       breakEvenRoas |-> IF acquired /\ contribution # 0
                         THEN Ratio(in.newCustomerNetRevenue, contribution) ELSE NotAvailable,
       cacHeadroom |-> IF acquired THEN Ratio(contribution - advertising, n) ELSE NotAvailable,
       roasHeadroom |-> IF acquired /\ contribution # 0
                        THEN Ratio(in.netRevenue * contribution - in.newCustomerNetRevenue * advertising,
                                   advertising * contribution)
                        ELSE NotAvailable,
       isAcquisitionViable |-> IF acquired THEN <<contribution >= advertising>> ELSE NotAvailable,
       platforms |-> [p \in platforms |-> PlatformResult(in.platforms[p])]]

(*--------------------------------- stock ---------------------------------*)
UnitsSold(orders, variant, range) ==
  SumOver(OrdersInRange(orders, range),
          LAMBDA o : SumOver({i \in DOMAIN o.lines : o.lines[i].variant = variant},
                             LAMBDA i : o.lines[i].quantity))

(* Cover of `available` units at `sold` units in a window of `days`.          *)
DaysOfStock(available, sold, days) == Ratio(available * days, sold)

IsReorderNeeded(available, reorderPoint, cover, leadTime) ==
  \/ reorderPoint # NotAvailable /\ available <= reorderPoint[1]
  \/ /\ cover # NotAvailable /\ leadTime # NotAvailable
     /\ cover[1] <= leadTime[1] * cover[2]

StockValue(available, costs) ==
  available * (costs.productCogs + costs.packaging + costs.inboundFreight)

StockPosition(p, sold7, sold30, cover, value) ==
  [available |-> p.available, onOrder |-> p.onOrder, snapshotAt |-> p.snapshotAt,
   unitsSoldLast7Days |-> sold7, unitsSoldLast30Days |-> sold30, daysOfStockRemaining |-> cover,
   needsReorder |-> IsReorderNeeded(p.available, p.reorderPoint, cover, p.leadTime),
   inventoryValue |-> value]

(* The code knows two sales windows: thirty days when asked, else seven.      *)
BuildInventoryPositions(positions, orders, profiles, asOf, alertWindow) ==
  LET days == IF alertWindow = 30 THEN 30 ELSE 7
      costs == ResolveVariantUnitCosts(profiles, asOf)
      Sold(v, window) == UnitsSold(orders, v, RangeEndingOn(asOf, window))
  IN  [v \in DOMAIN positions |->
         StockPosition(positions[v], Sold(v, 7), Sold(v, 30),
                       DaysOfStock(positions[v].available, Sold(v, days), days),
                       IF v \in DOMAIN costs THEN <<StockValue(positions[v].available, costs[v])>>
                       ELSE NotAvailable)]

TotalInventoryValue(stock) ==
  [value |-> SumOver({v \in DOMAIN stock : stock[v].inventoryValue # NotAvailable},
                     LAMBDA v : stock[v].inventoryValue[1]),
   variantsMissingCost |-> {v \in DOMAIN stock : stock[v].inventoryValue = NotAvailable}]

IsSnapshotStale(position, asOf) ==
  position.snapshotAt = NoDate \/ asOf - position.snapshotAt > 1

(* Days of cover of the SKU closest to running out, the unsold ones skipped.  *)
LowestCover(stock) ==
  LET covers == {stock[v].daysOfStockRemaining : v \in DOMAIN stock} \ {NotAvailable}
  IN  IF covers = {} THEN NotAvailable
      ELSE CHOOSE c \in covers : \A other \in covers : c[1] * other[2] <= other[1] * c[2]

(*---------------------------------- cash ---------------------------------*)
AmountsOf(entries) == SumOver(entries, LAMBDA e : e.amount)

CashPosition(asOf, balance, committed, total, flow, burnWindow) ==
  LET available == balance - committed
      runway == CASE flow >= 0 -> NotAvailable
                  [] flow < 0 /\ available > 0 -> Ratio(available * burnWindow, -flow)
                  [] OTHER -> <<0, 1>>
  IN  [bankBalance |-> balance, committedCash |-> committed, totalCommitments |-> total,
       availableCash |-> available, netCashFlow |-> flow, runwayDays |-> runway,
       averageDailyBurn |-> IF flow < 0 THEN Ratio(-flow, burnWindow) ELSE NotAvailable,
       projectedZeroCashDate |-> IF runway = NotAvailable THEN NoDate ELSE asOf + runway[1] \div runway[2]]

BuildCashPosition(asOf, balance, commitments, movements, horizon, burnWindow) ==
  CashPosition(asOf, balance,
    AmountsOf({c \in commitments : InRange(c.dueDate, [from |-> asOf, to |-> asOf + horizon])}),
    AmountsOf(commitments),
    AmountsOf({m \in movements : InRange(m.businessDate, RangeEndingOn(asOf, burnWindow))}),
    burnWindow)

DailyCashFlow(movements, range) ==
  [d \in {m.businessDate : m \in {x \in movements : InRange(x.businessDate, range)}} |->
     AmountsOf({m \in movements : m.businessDate = d})]

CashBalanceSeries(opening, movements, range) ==
  [d \in EnumerateDates(range) |->
     opening + AmountsOf({m \in movements : InRange(m.businessDate, [range EXCEPT !.to = d])})]

CommitmentsByCategory(commitments) ==
  [k \in {c.category : c \in commitments} |-> AmountsOf({c \in commitments : c.category = k})]
=============================================================================
