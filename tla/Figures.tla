------------------------------ MODULE Figures ------------------------------
(* The figures a page, a custom report or the nightly publication shows,      *)
(* composed from the books: src/lib/reporting/report.ts, series.ts,           *)
(* timeframes.ts, dashboard-data.ts and the observations of alerts.ts. All of *)
(* them are computed on read; what may go wrong is that two of them disagree  *)
(* about the same day, or with the books.                                     *)
EXTENDS Books

CONSTANTS
  Days,   \* the business dates reports are asked about
  Today   \* the date the pages that look back are opened on

(* The days asked about follow one another.                                   *)
ASSUME DaysAssumption ==
  /\ Today \in Int /\ Days \subseteq Int /\ Days # {} /\ IsFiniteSet(Days)
  /\ \A a, b \in Days : a .. b \subseteq Days

(*------------------------------- one report ------------------------------*)
(* A platform that reported no purchases at all has none to divide by, which  *)
(* is not the same as zero.                                                   *)
PlatformTotals(spend, platform) ==
  LET rows == {s \in spend : s.platform = platform}
      Reported(Column(_)) ==
        LET known == {r \in rows : Column(r) # NotAvailable}
        IN  IF known = {} THEN NotAvailable ELSE <<SumOver(known, LAMBDA r : Column(r)[1])>>
  IN  [spend |-> SpendTotal(spend, platform),
       attributedPurchases |-> Reported(LAMBDA r : r.purchases),
       attributedPurchaseValue |-> Reported(LAMBDA r : r.purchaseValue)]

(* The marketing figures take the spend of the facts as they are, without     *)
(* looking at the range.                                                      *)
BuildMarketing(facts, summary, allocated) ==
  LET acquisition == SummariseAcquisition(allocated, facts.policy.breakEvenContributionLevel)
  IN  CalculateMarketingPeriod(
        [netRevenue |-> summary.total["netRevenue"],
         newCustomerNetRevenue |-> acquisition.newCustomerNetRevenue,
         newCustomerContributionBeforeAds |-> acquisition.newCustomerContributionBeforeAds,
         newCustomers |-> acquisition.newCustomers,
         platforms |-> [p \in {"meta", "tiktok"} |-> PlatformTotals(facts.adSpend, p)],
         otherAcquisitionSpend |-> ExpenseTotal(facts.mappedExpenses, "cm2")])

(* Warnings that count are summed over the period; the others are shown once. *)
DeduplicateWarnings(warnings) ==
  LET counting == {x \in warnings : x.w.count # 0}
  IN  {[code |-> code, subject |-> {},
        count |-> SumOver({x \in counting : x.w.code = code}, LAMBDA x : x.w.count)]
         : code \in {x.w.code : x \in counting}}
      \cup {x.w : x \in warnings \ counting}

ReportOf(facts, daily, allocated) ==
  LET summary == SummariseDailyFinancials(daily)
  IN  [range |-> facts.range, daily |-> daily, summary |-> summary,
       marketing |-> BuildMarketing(facts, summary, allocated),
       skus |-> BuildSkuUnitEconomics(allocated), allocated |-> allocated,
       warnings |-> DeduplicateWarnings(summary.warnings)]

(* Orders loaded only for their refund's sake stay out of SKUs, customers and *)
(* acquisition.                                                               *)
BuildReport(facts) ==
  ReportOf(facts, BuildDailyFinancials(facts),
           OrdersInRange(AllocateOrders(facts.orders, facts.context), facts.range))

Report(range) == BuildReport(LoadFacts(range))

(*-------------------------------- timeframes -----------------------------*)
TimeframeKeys == {"today", "yesterday", "7d", "30d", "mtd", "previous-month", "ytd"}

TimeframeRange(key, today) ==
  CASE key = "today"          -> [from |-> today, to |-> today]
    [] key = "yesterday"      -> [from |-> today - 1, to |-> today - 1]
    [] key = "7d"             -> RangeEndingOn(today, 7)
    [] key = "30d"            -> RangeEndingOn(today, 30)
    [] key = "mtd"            -> MonthToDate(today)
    [] key = "previous-month" -> PreviousMonth(today)
    [] key = "ytd"            -> YearToDate(today)

OrderDates == {BusinessDate(Catalogue[id].orderedAt) : id \in IdsOf("orders")}
ReportedDates == UNION {EnumerateDates(TimeframeRange(key, d)) : key \in TimeframeKeys, d \in Days}

(* The calendar reaches over the days of trading, the days a page may show    *)
(* and the period before each day asked about.                                *)
ASSUME CalendarAssumption ==
  \A unit \in Units :
    /\ \A d \in Days \cup OrderDates \cup ReportedDates : CalendarHolds(unit, d)
    /\ \A d \in Days : CalendarHolds(unit, PeriodStart(unit, d) - 1)

ResolveTimeframe(key, today) ==
  LET range == TimeframeRange(key, today)
  IN  [range |-> range,
       comparison |-> IF key = "previous-month" THEN PreviousMonth(range.from) ELSE PrecedingRange(range)]

LoadDashboard(key, today) ==
  LET timeframe == ResolveTimeframe(key, today)
  IN  IF LoadPolicy.status = "not_approved"
      THEN [status |-> "not_approved", missing |-> LoadPolicy.missing]
      ELSE [status |-> "ready", report |-> Report(timeframe.range),
            comparison |-> Report(timeframe.comparison)]

(* From the first live order on, so that cohorts see every first order.       *)
FullHistoryRange(today) ==
  [from |-> IF LiveOrders = {} THEN today
            ELSE BusinessDate(Min({Catalogue[id].orderedAt : id \in LiveOrders})),
   to |-> today]

(*------------------------------ custom reports ---------------------------*)
Grains == {"day", "week", "month", "total"}

(* The buckets of a range, each clipped to it.                                *)
BucketRanges(range, grain) ==
  LET Key(d) == CASE grain = "day" -> d
                  [] grain = "total" -> range.from
                  [] OTHER -> PeriodStart(grain, d)
      Of(key) == {d \in EnumerateDates(range) : Key(d) = key}
  IN  {[from |-> Min(Of(key)), to |-> Max(Of(key))] : key \in {Key(d) : d \in EnumerateDates(range)}}

(* Mutant of NarrowFacts: only the range changes.                             *)
NarrowRangeOnly(facts, range) == [facts EXCEPT !.range = range]

(* Spend and expenses are narrowed to the bucket; orders and refunds are not, *)
(* since the engine keeps to the range itself and needs the older orders.     *)
NarrowFacts(facts, range) ==
  [facts EXCEPT !.range = range,
                !.adSpend = {s \in @ : InRange(s.businessDate, range)},
                !.mappedExpenses = {e \in @ : InRange(e.businessDate, range)}]

(* The value of every catalogued metric, absent ones included.                *)
BuildObservations(report, cash, hasReportedBalance, stock) ==
  LET total == report.summary.total
      platforms == report.marketing.platforms
      Amount(a) == <<a, 1>>
      Known(a) == IF hasReportedBalance THEN a ELSE NotAvailable
  IN  [net_revenue |-> Amount(total["netRevenue"]),
       average_order_value |-> report.summary.averageOrderValue,
       refund_rate |-> Ratio(total["refunds"], total["grossSales"]),
       cm1_margin |-> report.summary.cm1Margin, cm2_margin |-> report.summary.cm2Margin,
       cm3_margin |-> report.summary.cm3Margin,
       operating_margin |-> IF total["fixedOperatingCosts"] = 0
                            THEN NotAvailable ELSE report.summary.operatingMargin,
       blended_cac |-> report.marketing.blendedCac, mer |-> report.marketing.mer,
       cac_headroom |-> report.marketing.cacHeadroom, roas_headroom |-> report.marketing.roasHeadroom,
       meta_cac |-> platforms["meta"].attributedCac, tiktok_cac |-> platforms["tiktok"].attributedCac,
       meta_roas |-> platforms["meta"].attributedRoas, tiktok_roas |-> platforms["tiktok"].attributedRoas,
       cash_balance |-> Known(Amount(cash.bankBalance)),
       available_cash |-> Known(Amount(cash.availableCash)),
       cash_runway_days |-> Known(cash.runwayDays),
       minimum_inventory_days |-> LowestCover(stock)]

NoCash == BuildCashPosition(0, 0, {}, {}, 0, 1)

(* Positions at an instant are no activity over a window: a series leaves     *)
(* them out.                                                                  *)
BuildPeriodSeries(facts, grain) ==
  [bucket \in BucketRanges(facts.range, grain) |->
     BuildObservations(BuildReport(NarrowFacts(facts, bucket)), NoCash, FALSE, <<>>)]

(*---------------------------------- pages --------------------------------*)
CommitmentHorizonDays == 30
BurnWindowDays == 90
CohortWindows == {30, 60, 90, 180}

History(today) == Report(FullHistoryRange(today))

StockPage(today) ==
  BuildInventoryPositions(LoadInventoryPositions(today), History(today).allocated,
                          LoadAllocationContext.profiles, today, Policy.inventoryAlertWindowDays)

(* A missing balance is computed with as zero and shown as unknown.           *)
CashPage(today) ==
  LET cash == LoadCash(RangeEndingOn(today, BurnWindowDays))
  IN  [connected |-> cash.bankBalance # NotAvailable,
       inventoryValue |-> TotalInventoryValue(StockPage(today)).value,
       series |-> CashBalanceSeries(0, cash.movements, RangeEndingOn(today, BurnWindowDays)),
       byCategory |-> CommitmentsByCategory(cash.commitments),
       position |-> BuildCashPosition(
         today, IF cash.bankBalance = NotAvailable THEN 0 ELSE cash.bankBalance[1],
         cash.commitments, cash.movements, CommitmentHorizonDays, BurnWindowDays)]

CustomersPage(key, today) ==
  LET timeframe == ResolveTimeframe(key, today)
  IN  [now |-> SummariseCustomers(Report(timeframe.range).allocated),
       before |-> SummariseCustomers(Report(timeframe.comparison).allocated),
       cohorts |-> BuildCustomerCohorts(History(today).allocated, today, CohortWindows)]

(* The walk in full: each cost line summed over the days, and month by month. *)
ProfitAndLossPage(report) ==
  [summary |-> report.summary,
   costs |-> [c \in Components |->
                SumOver(DOMAIN report.daily, LAMBDA d : report.daily[d].costs[c])],
   byMonth |-> SummariseByMonth(report.daily)]

(* What the overview judges against the targets.                              *)
OverviewPage(key, today) ==
  LET cash == CashPage(today)
  IN  BuildObservations(Report(ResolveTimeframe(key, today).range), cash.position,
                        cash.connected, StockPage(today))

ReportsPage(range, grain) == BuildPeriodSeries(LoadFacts(range), grain)

(*------------------------------- specification ---------------------------*)
Init == BooksInit
Next == BooksNext
Spec == Init /\ [][Next]_bookVars

(*-------------------------------- properties -----------------------------*)
Ranges == {[from |-> a, to |-> b] : a \in Days, b \in Days}
RealRanges == {r \in Ranges : r.from <= r.to}
Day(d) == [from |-> d, to |-> d]

RowsAgree(rows, alone) == \A d \in DOMAIN rows : rows[d] = alone[d]

(* A day has one row: which range it was asked for in, the nightly window or  *)
(* a page's timeframe, changes no figure of it, although refunds reach back   *)
(* to older orders, customers to older first orders, and the UTC window cuts  *)
(* through the days.                                                          *)
DayDoesNotDependOnRange ==
  LET alone == Table([d \in Days |-> BuildDailyFinancials(LoadFacts(Day(d)))[d]])
  IN  \A range \in RealRanges : RowsAgree(BuildDailyFinancials(LoadFacts(range)), alone)

SeriesAgrees(series) ==
  \A bucket \in DOMAIN series :
    series[bucket] = BuildObservations(Report(bucket), NoCash, FALSE, <<>>)

(* A bucket of a custom report, cut out of facts loaded for the whole report, *)
(* shows what the dashboard shows for those dates, the ratios included.       *)
BucketsAgreeWithDashboard ==
  \A grain \in {"week", "month"} :
    SeriesAgrees(ReportsPage([from |-> Min(Days), to |-> Max(Days)], grain))

Fits(order) == order.lines # <<>> /\ ~order.lineTotalsDiverge

LinesReturn(order) ==
  LET Net == [i \in DOMAIN order.lines |-> order.lines[i].netRevenue]
      Matching(a) == {i \in DOMAIN order.lines : AssumptionMatchesLine(a, order.lines[i])}
      Rules == ResolveAssumptions(LoadAllocationContext.assumptions, order.businessDate).orderLevel
  IN  /\ SumSeq(Net) = order.netRevenue
      /\ \A a \in {r \in Rules : r.basis = "per_order"} :
           (\A i \in Matching(a) : Net[i] >= 0) /\ SumOver(Matching(a), LAMBDA i : Net[i]) > 0
             => SumSeq(LineCharges(a, order.lines, Net)) = ToPence(a.amount)

SkusAddUpTo(orders, skus) ==
  /\ SumOver(DOMAIN skus, LAMBDA k : skus[k].netRevenue) = NetOf(orders)
  /\ \A c \in Components :
       SumOver(DOMAIN skus, LAMBDA k : skus[k].costs[c]) = SumOver(orders, LAMBDA o : o.costs[c])

(* Every penny of an order reaches its lines and every line its SKU: postage  *)
(* is shared out in full, a charge per order among the lines it applies to    *)
(* (sold for something, none below nothing), and the SKUs of a range add up   *)
(* to its orders, line by line of the walk.                                   *)
SkusReturnTheOrders ==
  LET Returned(orders) == /\ \A o \in orders : LinesReturn(o)
                          /\ SkusAddUpTo(orders, BuildSkuUnitEconomics(orders))
  IN  Returned({o \in History(Max(Days)).allocated : Fits(o)})

(* One report: day by day, as the policy states it, line by line over the     *)
(* period, month by month; the spend and the customers behind CAC and MER.    *)
WalksAgree(report) ==
  LET page == ProfitAndLossPage(report)
      total == page.summary.total
  IN  /\ \A d \in DOMAIN report.daily :
           LET walk == CalculateDailyFinancials(report.daily[d])
           IN  \A f \in {"netRevenue", "cm1", "advertisingSpend", "cm2", "cm3", "operatingProfit"} :
                 walk[f] = report.daily[d][f]
      /\ total["operatingProfit"]
           = total["grossSales"] - total["discounts"] + total["shippingRevenue"] - total["refunds"]
               - SumOver(Components, LAMBDA c : page.costs[c])
               - total["advertisingSpend"] - total["fixedOperatingCosts"]
      /\ \A f \in SummedFields :
           total[f] = SumOver(DOMAIN page.byMonth, LAMBDA m : page.byMonth[m].total[f])
      /\ report.marketing.advertisingSpend = total["advertisingSpend"]
      /\ report.marketing.mer = Ratio(total["netRevenue"], total["advertisingSpend"])
      /\ report.marketing.blendedCac
           = (IF total["newCustomers"] > 0
              THEN Ratio(total["advertisingSpend"], total["newCustomers"]) ELSE NotAvailable)
      /\ total["newCustomers"] = SummariseCustomers(report.allocated).newCustomers

(* The ways the program walks from sales to profit agree, for every timeframe *)
(* a page offers, and the days of a month or year carry its fixed cost to the *)
(* penny.                                                                     *)
TheWalksAgree ==
  /\ \A key \in TimeframeKeys : WalksAgree(Report(ResolveTimeframe(key, Max(Days)).range))
  /\ \A a \in {x \in LoadAllocationContext.assumptions : x.basis = "fixed_period"} :
       \A d \in {x \in Days : a.period \in DOMAIN Starts} :
         SumOver(PeriodStart(a.period, d) .. PeriodEnd(a.period, d),
                 LAMBDA x : DailyFixedPeriodAmount(a, x)) = ToPence(a.amount)

(* A cohort window reported as complete is final: no later day of trading     *)
(* changes its revenue. (The window must outlast the month that the cohort's  *)
(* customers join in, as each of the four on the page does.)                  *)
CompleteWindowsAreFinal ==
  LET LongestMonth ==
        Max({PeriodEnd("month", d) - PeriodStart("month", d) : d \in Days \cup OrderDates})
      Window(cohort) == cohort.windows[LongestMonth]
      Final(cohorts) ==
        \A d \in Days : \A m \in DOMAIN cohorts[d] :
          Window(cohorts[d][m]).isComplete =>
            \A later \in {x \in Days : x > d} :
              Window(cohorts[later][m]).revenue = Window(cohorts[d][m]).revenue
  IN  Final(Table([d \in Days |-> BuildCustomerCohorts(History(d).allocated, d, {LongestMonth})]))

(* "Acquisition spend that is not attributable to a platform": what was paid  *)
(* to an advertising platform is in the walk once, on a day the platform      *)
(* reports it itself. (Stated by marketing.ts; the code adds the ledger's     *)
(* copy of the same money.)                                                   *)
PlatformSpendIsCountedOnce ==
  \A d \in Days, platform \in {"meta", "tiktok"} :
    SpendTotal(LoadAdSpend(Day(d)), platform) > 0 =>
      \A t \in {id \in StoredIn("transactions") : Catalogue[id].date = d} :
        \A c \in ChargesOf(t) :
          (\E r \in RulesFor(c.account, d) : r.adPlatform = platform)
            => \A e \in LoadMappedExpenses(Day(d)) : e.id = c.id => e.bucket # "cm2"
=============================================================================
