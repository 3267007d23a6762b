--------------------------- MODULE Contribution ---------------------------
(* From orders to the contribution walk: the allocation of an order's costs   *)
(* to its lines (src/lib/financial/allocation.ts), the daily rows and their   *)
(* sums (daily-aggregation.ts), the same walk as calculations.ts states it,   *)
(* and the economics of a SKU (unit-economics.ts). All of it is a function of *)
(* the facts handed in; nothing here reads or keeps state.                    *)
EXTENDS CostRules

NoVariant == "none"
NoSku == "none"

(*------------------------- one order, line by line -----------------------*)
LineMerchandise(line) == line.grossSales - line.discounts

LineCharge(a, line, net, share) ==
  CASE ~AssumptionMatchesLine(a, line) -> 0
    [] AssumptionMatchesLine(a, line) /\ a.basis = "per_order" -> share
    [] AssumptionMatchesLine(a, line) /\ a.basis = "per_unit" -> a.amount * line.quantity
    [] AssumptionMatchesLine(a, line) /\ a.basis = "percentage_of_revenue" -> (net * a.amount) \div 100

ChargesByShare(a, lines, net, shares) ==
  Table([i \in DOMAIN lines |-> LineCharge(a, lines[i], net[i], shares[i])])

(* What one order-level assumption charges to each line.                      *)
LineCharges(a, lines, net) ==
  ChargesByShare(a, lines, net,
    AllocateProportionally(a.amount,
      [i \in DOMAIN lines |-> IF AssumptionMatchesLine(a, lines[i]) THEN net[i] ELSE 0]))

ChargedTo(component, assumptions) ==
  {a \in assumptions : ComponentForAssumption(a) = component}

(* Orders without line detail carry the charges that apply to every order.    *)
CostsWithoutLines(assumptions, netRevenue) ==
  Table([c \in Components |->
           SumOver({a \in ChargedTo(c, assumptions) : a.appliesTo.kind = "all_orders"},
                   LAMBDA a : CASE a.basis = "per_order" -> a.amount
                                [] a.basis = "percentage_of_revenue" -> (netRevenue * a.amount) \div 100
                                [] OTHER -> 0)])

AllocatedLine(line, postage, net, costs) ==
  [variant |-> line.variant, sku |-> line.sku, quantity |-> line.quantity,
   grossSales |-> line.grossSales, discounts |-> line.discounts, shipping |-> postage,
   netRevenue |-> net, costs |-> costs, contributionBeforeAds |-> net - Cm1Costs(costs)]

UnitCost(line, unitCosts, c) ==
  IF line.variant \in DOMAIN unitCosts THEN unitCosts[line.variant][c] * line.quantity ELSE 0

LineCosts(line, i, rules, unitCosts, charges) ==
  Table([c \in Components |-> UnitCost(line, unitCosts, c)
                                + SumOver(ChargedTo(c, rules), LAMBDA a : charges[a][i])])

(* Every line takes its postage, the costs of its variant and its share of    *)
(* each order-level charge.                                                   *)
ChargedLines(lines, rules, unitCosts, postage, net, charges) ==
  Table([i \in DOMAIN lines |->
           AllocatedLine(lines[i], postage[i], net[i], LineCosts(lines[i], i, rules, unitCosts, charges))])

AllocateLines(lines, rules, unitCosts, postage) ==
  LET net == [i \in DOMAIN lines |-> LineMerchandise(lines[i]) + postage[i]]
  IN  ChargedLines(lines, rules, unitCosts, postage, net,
                   Table([a \in rules |-> LineCharges(a, lines, net)]))

AllocatedOrder(order, rules, unitCosts, lines) ==
  LET netRevenue == order.grossSales - order.discounts + order.shippingRevenue
      merchandise == SumOver(DOMAIN order.lines, LAMBDA i : LineMerchandise(order.lines[i]))
  IN  [externalId |-> order.externalId, customer |-> order.customer,
       businessDate |-> order.businessDate, isNew |-> order.isNew,
       grossSales |-> order.grossSales, discounts |-> order.discounts,
       shippingRevenue |-> order.shippingRevenue, netRevenue |-> netRevenue,
       costs |-> IF lines # <<>>
                 THEN Table([c \in Components |-> SumOver(DOMAIN lines, LAMBDA i : lines[i].costs[c])])
                 ELSE CostsWithoutLines(rules, netRevenue),
       lines |-> lines,
       missingCostVariants |->
         {order.lines[i].variant : i \in DOMAIN order.lines} \ ({NoVariant} \cup DOMAIN unitCosts),
       unattributedLines |-> Cardinality({i \in DOMAIN order.lines : order.lines[i].variant = NoVariant}),
       lineTotalsDiverge |-> lines # <<>> /\ merchandise # order.grossSales - order.discounts]

PricedOrder(order, rules, unitCosts) ==
  AllocatedOrder(order, rules, unitCosts,
    AllocateLines(order.lines, rules, unitCosts,
      AllocateProportionally(order.shippingRevenue,
                             [i \in DOMAIN order.lines |-> LineMerchandise(order.lines[i])])))

AllocateOrder(order, context) ==
  PricedOrder(order, ResolveAssumptions(context.assumptions, order.businessDate).orderLevel,
              ResolveVariantUnitCosts(context.profiles, order.businessDate))

AllocateOrders(orders, context) ==
  {AllocateOrder(o, context) : o \in {p \in orders : ~p.isExcluded}}

(* Money an order earned before advertising, at the given level.              *)
ContributionBeforeAds(allocated, level) ==
  allocated.netRevenue - Cm1Costs(allocated.costs)
    - (IF level = "cm3" THEN Cm3Costs(allocated.costs) ELSE 0)

(*------------------------------ one day's row ----------------------------*)
ShouldReverseCogs(policy, restocked) ==
  \/ policy.refundCogsReversal = "always_reverse"
  \/ policy.refundCogsReversal = "reverse_when_restocked" /\ restocked

UnitsValue(lines, costs) ==
  SumOver({i \in DOMAIN lines : lines[i].variant \in DOMAIN costs},
          LAMBDA i : costs[lines[i].variant].productCogs * lines[i].quantity)

(* Stock value of the refunded units, at the cost in force when they sold.    *)
RefundReversal(refunds, allocated, context, policy) ==
  LET Of(r) == {o \in allocated : o.externalId = r.order}
  IN  SumOver({r \in refunds : ShouldReverseCogs(policy, r.restocked) /\ Of(r) # {}},
              LAMBDA r : UnitsValue(r.lines, ResolveVariantUnitCosts(context.profiles,
                                               (CHOOSE o \in Of(r) : TRUE).businessDate)))

ExpenseTotal(expenses, bucket) ==
  SumOver({e \in expenses : e.bucket = bucket}, LAMBDA e : e.amount)

SpendTotal(spend, platform) ==
  SumOver({s \in spend : s.platform = platform}, LAMBDA s : s.spend)

BucketComponent == [cm1 |-> "otherVariableProductCosts", cm3 |-> "otherVariableOperatingCosts"]

(* Warnings are told apart by code and subject, the wording is left out.      *)
DayWarnings(orders, refunds, expenses, allocated, context, policy, d) ==
  LET charged == {ComponentForAssumption(a) : a \in ResolveAssumptions(context.assumptions, d).orderLevel}
      missing == UNION {o.missingCostVariants : o \in orders}
      diverging == {o.externalId : o \in {p \in orders : p.lineTotalsDiverge}}
      unattributed == SumOver(orders, LAMBDA o : o.unattributedLines)
      Warn(when, code, subject, count) ==
        IF when THEN {[code |-> code, subject |-> subject, count |-> count]} ELSE {}
  IN  UNION {Warn(missing # {}, "missing_variant_costs", missing, 0),
             Warn(diverging # {}, "line_totals_diverge", diverging, 0),
             Warn(unattributed > 0, "unattributed_order_lines", {}, unattributed),
             UNION {Warn(BucketComponent[e.bucket] \in charged, "duplicated_cost_source", {e.id, d}, 0)
                      : e \in {x \in expenses : x.bucket \in DOMAIN BucketComponent}},
             UNION {Warn(~\E o \in allocated : o.externalId = r.order,
                         "refund_without_original_order", {r.externalId}, 0)
                      : r \in {x \in refunds : ShouldReverseCogs(policy, x.restocked)}}}

DayCosts(orders, reversal, expenses) ==
  [Table([c \in Components |-> SumOver(orders, LAMBDA o : o.costs[c])]) EXCEPT
     !["productCogs"] = @ - reversal,
     !["otherVariableProductCosts"] = @ + ExpenseTotal(expenses, "cm1"),
     !["otherVariableOperatingCosts"] = @ + ExpenseTotal(expenses, "cm3")]

(* The contribution walk of a day.                                            *)
DayWalk(netRevenue, costs, advertising, fixed) ==
  LET cm1 == netRevenue - Cm1Costs(costs)
      cm2 == cm1 - advertising
      cm3 == cm2 - Cm3Costs(costs)
  IN  [netRevenue |-> netRevenue, costs |-> costs, cm1 |-> cm1, advertisingSpend |-> advertising,
       cm2 |-> cm2, cm3 |-> cm3, fixedOperatingCosts |-> fixed, operatingProfit |-> cm3 - fixed]

DayRow(d, orders, refunds, spend, expenses, reversal, fixedCosts, warnings) ==
  LET Sum(column) == SumOver(orders, LAMBDA o : o[column])
      refunded == SumOver(refunds, LAMBDA r : r.amount)
      otherSpend == ExpenseTotal(expenses, "cm2")
      walk == DayWalk(Sum("grossSales") - Sum("discounts") + Sum("shippingRevenue") - refunded,
                      DayCosts(orders, reversal, expenses),
                      SpendTotal(spend, "meta") + SpendTotal(spend, "tiktok") + otherSpend,
                      fixedCosts + ExpenseTotal(expenses, "fixed_operating"))
  IN  [businessDate |-> d, grossSales |-> Sum("grossSales"), discounts |-> Sum("discounts"),
       shippingRevenue |-> Sum("shippingRevenue"), refunds |-> refunded,
       netRevenue |-> walk.netRevenue, costs |-> walk.costs, cm1 |-> walk.cm1,
       metaAdSpend |-> SpendTotal(spend, "meta"), tiktokAdSpend |-> SpendTotal(spend, "tiktok"),
       otherAcquisitionSpend |-> otherSpend, advertisingSpend |-> walk.advertisingSpend,
       cm2 |-> walk.cm2, cm3 |-> walk.cm3, fixedOperatingCosts |-> walk.fixedOperatingCosts,
       operatingProfit |-> walk.operatingProfit, orders |-> Cardinality(orders),
       newCustomers |-> Cardinality({o \in orders : o.isNew}), warnings |-> warnings]

BuildDailyRow(d, facts, allocated) ==
  LET orders == {o \in allocated : o.businessDate = d}
      refunds == {r \in facts.refunds : r.processedBusinessDate = d}
      spend == {s \in facts.adSpend : s.businessDate = d}
      expenses == {e \in facts.mappedExpenses : e.businessDate = d}
  IN  DayRow(d, orders, refunds, spend, expenses,
             RefundReversal(refunds, allocated, facts.context, facts.policy),
             DailyFixedCosts(facts.context.assumptions, "fixed_operating", d),
             DayWarnings(orders, refunds, expenses, allocated, facts.context, facts.policy, d))

(* One row for every day of the range, days without activity included.        *)
BuildDailyRows(facts, allocated) ==
  Table([d \in EnumerateDates(facts.range) |-> BuildDailyRow(d, facts, allocated)])

BuildDailyFinancials(facts) == BuildDailyRows(facts, AllocateOrders(facts.orders, facts.context))

(*------------------------------ period totals ----------------------------*)
SummedFields ==
  {"grossSales", "discounts", "shippingRevenue", "refunds", "netRevenue", "cm1", "metaAdSpend",
   "tiktokAdSpend", "advertisingSpend", "cm2", "cm3", "fixedOperatingCosts", "operatingProfit",
   "orders", "newCustomers"}

Summary(total, warnings) ==
  [total |-> total, warnings |-> warnings,
   cm1Margin |-> Ratio(total["cm1"], total["netRevenue"]),
   cm2Margin |-> Ratio(total["cm2"], total["netRevenue"]),
   cm3Margin |-> Ratio(total["cm3"], total["netRevenue"]),
   operatingMargin |-> Ratio(total["operatingProfit"], total["netRevenue"]),
   averageOrderValue |-> Ratio(total["netRevenue"], total["orders"])]

SummariseDailyFinancials(rows) ==
  Summary(Table([f \in SummedFields |-> SumOver(DOMAIN rows, LAMBDA d : rows[d][f])]),
          UNION {{[w |-> x, on |-> d] : x \in rows[d].warnings} : d \in DOMAIN rows})

SummariseByMonth(rows) ==
  Table([m \in {PeriodStart("month", d) : d \in DOMAIN rows} |->
           SummariseDailyFinancials([d \in {x \in DOMAIN rows : PeriodStart("month", x) = m} |-> rows[d]])])

(* The walk as calculations.ts states it, from amounts normalised elsewhere.  *)
CalculateDailyFinancials(in) ==
  LET netRevenue == in.grossSales + in.shippingRevenue - in.discounts - in.refunds
      cm1 == netRevenue - Cm1Costs(in.costs)
      advertising == in.metaAdSpend + in.tiktokAdSpend + in.otherAcquisitionSpend
      cm2 == cm1 - advertising
      cm3 == cm2 - Cm3Costs(in.costs)
  IN  [netRevenue |-> netRevenue, cm1 |-> cm1, advertisingSpend |-> advertising, cm2 |-> cm2,
       cm3 |-> cm3, operatingProfit |-> cm3 - in.fixedOperatingCosts,
       blendedCac |-> IF in.newCustomers > 0 THEN Ratio(advertising, in.newCustomers) ELSE NotAvailable,
       mer |-> Ratio(netRevenue, advertising)]

(*--------------------------------- SKUs ----------------------------------*)
SkuKey(line) == IF line.variant # NoVariant THEN <<"variant", line.variant>> ELSE <<"sku", line.sku>>

SkuEntry(sales, units, net, costs, totalRevenue) ==
  LET beforeAds == net - Cm1Costs(costs)
      PerUnit(amount) == IF units > 0 THEN Ratio(amount, units) ELSE NotAvailable
  IN  [unitsSold |-> units, orders |-> Cardinality({s.externalId : s \in sales}),
       grossSales |-> SumOver(sales, LAMBDA s : s.line.grossSales),
       discounts |-> SumOver(sales, LAMBDA s : s.line.discounts),
       netRevenue |-> net, costs |-> costs, contributionBeforeAds |-> beforeAds,
       contributionMargin |-> Ratio(beforeAds, net),
       contributionAfterVariableOperating |-> beforeAds - Cm3Costs(costs),
       revenueShare |-> Ratio(net, totalRevenue),
       netSellingPrice |-> PerUnit(net), unitCogs |-> PerUnit(costs.productCogs),
       unitContribution |-> PerUnit(beforeAds)]

SkuEntries(sold, totalRevenue) ==
  LET Of(key) == {s \in sold : SkuKey(s.line) = key}
  IN  Table([key \in {SkuKey(s.line) : s \in sold} |->
        SkuEntry(Of(key), SumOver(Of(key), LAMBDA s : s.line.quantity),
                 SumOver(Of(key), LAMBDA s : s.line.netRevenue),
                 Table([c \in Components |-> SumOver(Of(key), LAMBDA s : s.line.costs[c])]),
                 totalRevenue)])

BuildSkuUnitEconomics(allocated) ==
  LET sold == UNION {{[externalId |-> o.externalId, i |-> i, line |-> o.lines[i]] : i \in DOMAIN o.lines}
                       : o \in allocated}
  IN  SkuEntries(sold, SumOver(sold, LAMBDA s : s.line.netRevenue))
=============================================================================
