----------------------------- MODULE Monitoring -----------------------------
(* The checks on the books: the reconciliations of                            *)
(* src/lib/monitoring/reconciliation.ts as reconcile.ts feeds them, and the   *)
(* data-quality checks of data-quality.ts as data-quality-run.ts feeds them.  *)
(* They read the tables the figures are computed from and change none.        *)
EXTENDS Books

CONSTANT ToleranceRate   \* tolerated share of the larger side, in percent

(*----------------------------- reconciliation ----------------------------*)
(* A side is <<amount>>, or NotAvailable when its source was never filled.    *)
Reconcile(key, a, b, tolerance) ==
  LET comparable == a # NotAvailable /\ b # NotAvailable
      difference == a[1] - b[1]
      magnitude == Magnitude(difference)
  IN  [key |-> key, a |-> a, b |-> b,
       difference |-> IF comparable THEN <<difference>> ELSE NotAvailable,
       status |-> CASE ~comparable -> "not_applicable"
                    [] comparable /\ magnitude = 0 -> "matched"
                    [] comparable /\ magnitude > 0 /\ magnitude <= tolerance -> "within_tolerance"
                    [] OTHER -> "unmatched"]

Total(entries) == SumOver(entries, LAMBDA e : e.amount)
TotalOf(side) == IF side = NotAvailable THEN NotAvailable ELSE <<Total(side[1])>>
Entries(side) == IF side = NotAvailable THEN {} ELSE side[1]

(* A share of the larger side, each taken entry by entry without its sign.    *)
ToleranceFor(a, b) ==
  LET Size(entries) == SumOver(entries, LAMBDA e : Magnitude(e.amount))
  IN  (Max({Size(Entries(a)), Size(Entries(b))}) * ToleranceRate) \div 100

ReconcileSides(key, a, b) == Reconcile(key, TotalOf(a), TotalOf(b), ToleranceFor(a, b))

(* What the customers were charged, tax included.                             *)
ChargedFor(o) == o.grossSales - o.discounts + o.shippingRevenue + o.tax

LoadChargedRevenue(range) ==
  <<{[id |-> id, amount |-> ChargedFor(Catalogue[id])] : id \in {i \in LiveOrders :
       /\ InUtcWindow(Catalogue[i].orderedAt, range)
       /\ InRange(BusinessDate(Catalogue[i].orderedAt), range)}}>>

(* Settlements gross of fees. A payout without its breakdown has no charges   *)
(* and its net is taken; no payout at all is no source.                       *)
GrossOf(p) == IF p.charges = 0 THEN p.net + p.fees ELSE p.charges - p.refunds

LoadPayouts(range) ==
  LET settled == {id \in StoredIn("payouts") : InRange(Catalogue[id].date, range)}
  IN  IF StoredIn("payouts") = {} THEN NotAvailable
      ELSE <<{[id |-> id, amount |-> GrossOf(Catalogue[id])] : id \in settled}>>

LoadPlatformSpend(range) ==
  {[id |-> s.id, platform |-> s.platform, amount |-> s.spend] : s \in LoadAdSpend(range)}

(* The ledger's side: lines on accounts mapped to acquisition, with the       *)
(* platform such an account is dedicated to; nothing mapped is no source.     *)
AdvertisingCharges(transactions, rules, range) ==
  LET acquisition == {Catalogue[id] : id \in rules}
      RuleOf(account, d) == {r \in acquisition : r.account = account /\ IsEffectiveOn(r, d)}
      On(id) == {[id |-> c.id, amount |-> c.amount,
                  platform |-> (CHOOSE r \in RuleOf(c.account, Catalogue[id].date) : TRUE).adPlatform]
                   : c \in {x \in ChargesOf(id) : RuleOf(x.account, Catalogue[id].date) # {}}}
  IN  UNION {On(id) : id \in {i \in transactions : InRange(Catalogue[i].date, range) /\ Catalogue[i].lines # <<>>}}

AcquisitionRules(rules) == {id \in rules : Catalogue[id].category = "acquisition"}

LoadAccountingAdvertising(range) ==
  LET rules == AcquisitionRules(StoredIn("rules"))
  IN  IF rules = {} THEN NotAvailable ELSE <<AdvertisingCharges(StoredIn("transactions"), rules, range)>>

(* Mutant of LoadBalances: the movements of the opening day are applied too.  *)
LoadBalancesFromOpening(range) ==
  LET inWindow == {b \in BalancesTo(range.to) : b.date >= range.from}
      opening == Min({b.date : b \in inWindow})
      latest == Max({b.date : b \in inWindow})
      applied == {m \in BankMovements(range) : opening <= m.businessDate /\ m.businessDate <= latest}
  IN  IF inWindow = {} THEN [modelled |-> NotAvailable, reported |-> NotAvailable]
      ELSE [modelled |-> <<BalanceOn(opening, inWindow) + Total(applied)>>,
            reported |-> <<BalanceOn(latest, inWindow)>>]

(* The first balance reported in the range carried forward by the movements   *)
(* after that day, and the last balance reported.                             *)
LoadBalances(range) ==
  LET inWindow == {b \in BalancesTo(range.to) : b.date >= range.from}
      opening == Min({b.date : b \in inWindow})
      latest == Max({b.date : b \in inWindow})
      applied == {m \in BankMovements(range) : opening < m.businessDate /\ m.businessDate <= latest}
  IN  IF inWindow = {} THEN [modelled |-> NotAvailable, reported |-> NotAvailable]
      ELSE [modelled |-> <<BalanceOn(opening, inWindow) + Total(applied)>>,
            reported |-> <<BalanceOn(latest, inWindow)>>]

RunReconciliation(range) ==
  LET platform == <<LoadPlatformSpend(range)>>
      ledger == LoadAccountingAdvertising(range)
      balances == LoadBalances(range)
      Of(side, p) == IF side = NotAvailable THEN NotAvailable ELSE <<{e \in side[1] : e.platform = p}>>
      Skipped(p) == /\ Entries(Of(platform, p)) = {} /\ Entries(Of(ledger, p)) = {}
                    /\ ledger # NotAvailable
  IN  {ReconcileSides("revenue.shopify_payouts", LoadChargedRevenue(range), LoadPayouts(range)),
       ReconcileSides("ad_spend.total", platform, ledger),
       Reconcile("cash.bank_balance", balances.modelled, balances.reported, 0)}
      \cup {ReconcileSides(p, Of(platform, p), Of(ledger, p))
              : p \in {x \in {"meta", "tiktok"} : ~Skipped(x)}}

SummariseReconciliation(results) ==
  LET unmatched == {r \in results : r.status = "unmatched"}
  IN  [unmatched |-> unmatched,
       status |-> CASE unmatched # {} -> "unmatched"
                    [] unmatched = {} /\ \E r \in results : r.status = "not_applicable" -> "needs_review"
                    [] OTHER -> "matched",
       totalUnmatchedDifference |-> SumOver(unmatched, LAMBDA r : Magnitude(r.difference[1]))]

(*------------------------------ data quality -----------------------------*)
Providers == {"shopify", "meta", "tiktok", "xero"}
MaximumSyncAgeHours == 36
AdCoverageWindowDays == 30

Check(key, status) == [key |-> key, status |-> status]

(* A connection is a row with its last success; only needs_reauth reads as    *)
(* failed, since no sync writes a failed status.                              *)
CheckSyncFreshness(connections, provider, now) ==
  LET mine == {c \in connections : c.provider = provider}
      it == CHOOSE c \in mine : TRUE
  IN  Check(<<"sync_freshness", provider>>,
            CASE mine = {} \/ it.lastSuccess = Never -> "fail"
              [] mine # {} /\ it.lastSuccess # Never /\ it.status \in {"failed", "needs_reauth"} -> "fail"
              [] mine # {} /\ it.lastSuccess # Never /\ it.status \notin {"failed", "needs_reauth"}
                   -> IF now - it.lastSuccess > MaximumSyncAgeHours THEN "warn" ELSE "pass")

CheckDateCoverage(present, range) ==
  Check(<<"advertising.coverage">>, IF EnumerateDates(range) \subseteq present THEN "pass" ELSE "fail")

CheckVariantCostCoverage(sold, profiles, asOf) ==
  Check(<<"cogs.coverage">>,
        IF sold \subseteq DOMAIN ResolveVariantUnitCosts(profiles, asOf) THEN "pass" ELSE "fail")

CheckExpenseMappingCoverage(active, mapped) ==
  Check(<<"xero.mapping">>, IF active \subseteq mapped THEN "pass" ELSE "warn")

CheckAdAccountTimezone(accounts, timezone) ==
  Check(<<"advertising.timezone">>,
        IF \A a \in accounts : a.timezone \in {"unknown", timezone} THEN "pass" ELSE "warn")

CheckFinancialPolicyApproved ==
  Check(<<"policy.approved">>, IF "status" \in decided THEN "pass" ELSE "fail")

LineAccounts ==
  UNION {{Catalogue[t].lines[i].account : i \in DOMAIN Catalogue[t].lines} : t \in StoredIn("transactions")}
    \ {"none"}

(* The advertising check is left out while no row of any level or platform    *)
(* lies in its window, the cost check until the sold variants are known.      *)
CollectDataQuality(today, sold, timezone) ==
  LET rows(table) == {Catalogue[id] : id \in StoredIn(table)}
      window == [from |-> today - AdCoverageWindowDays, to |-> today - 2]
      present == {d \in {r.date : r \in rows("adRows")} : InRange(d, window)}
  IN  {CheckFinancialPolicyApproved}
      \cup {CheckSyncFreshness(rows("connections"), p, today * Hours) : p \in Providers}
      \cup {CheckAdAccountTimezone(rows("adAccounts"), timezone)}
      \cup {CheckExpenseMappingCoverage(LineAccounts,
              {r.account : r \in {x \in rows("rules") : x.to = NoDate \/ x.to >= today}})}
      \cup (IF present = {} THEN {} ELSE {CheckDateCoverage(present, window)})
      \cup {CheckVariantCostCoverage(sold[1], LoadAllocationContext.profiles, today) : s \in {x \in {sold} : x # NotAvailable}}

SummariseDataQuality(results) ==
  LET status == {r.status : r \in results}
  IN  CASE "fail" \in status -> "fail"
        [] "fail" \notin status /\ "warn" \in status -> "warn"
        [] OTHER -> "pass"

(*------------------------------- properties ------------------------------*)
CONSTANTS ReconciledRange,  \* the range the properties reconcile
          Expected          \* the rows of the range a complete import stores

Inside == {id \in Expected : Catalogue[id].table = "transactions" /\ Catalogue[id].bank # "none"}

RowsDated(table) == {id \in IdsOf(table) : InRange(Catalogue[id].date, ReconciledRange)}
Sales ==
  {id \in IdsOf("orders") : /\ ~Catalogue[id].isTest
                            /\ InRange(BusinessDate(Catalogue[id].orderedAt), ReconciledRange)}
AccountSpend == {id \in RowsDated("adRows") : Catalogue[id].entity = "account"}
BookedCharges == AdvertisingCharges(IdsOf("transactions"), AcquisitionRules(IdsOf("rules")), ReconciledRange)
Reported == {Catalogue[id] : id \in RowsDated("balances")}
Opening == Min({b.date : b \in Reported})
Latest == Max({b.date : b \in Reported})
MovedBetween ==
  {id \in RowsDated("transactions") : /\ Catalogue[id].bank # "none"
                                      /\ Opening < Catalogue[id].date /\ Catalogue[id].date <= Latest}

(* A business whose sources agree on the range: what its customers were       *)
(* charged was settled, what its platforms charged was booked, and what its   *)
(* bank reported, before anything else arrived, is what moved.                *)
SourcesAgree ==
  LET Spend(rows) == SumOver(rows, LAMBDA id : Catalogue[id].spend)
  IN  /\ ReconciledRange.from \in Int /\ ReconciledRange.to \in Int
      /\ UNION {Sales, AccountSpend, RowsDated("payouts"), RowsDated("transactions"),
                AcquisitionRules(IdsOf("rules"))} \subseteq Expected
      /\ AcquisitionRules(IdsOf("rules")) # {} /\ IdsOf("payouts") \cap Expected # {}
      /\ SumOver(Sales, LAMBDA id : ChargedFor(Catalogue[id]))
           = SumOver(RowsDated("payouts"), LAMBDA id : GrossOf(Catalogue[id]))
      /\ Spend(AccountSpend) = Total(BookedCharges)
      /\ \A p \in {"meta", "tiktok"} :
           Spend({id \in AccountSpend : Catalogue[id].platform = p}) = Total({e \in BookedCharges : e.platform = p})
      /\ IdsOf("balances") \subseteq Seeded /\ Reported # {} /\ Inside \ MovedBetween \subseteq Seeded
      /\ BalanceOn(Latest, Reported)
           = BalanceOn(Opening, Reported) + SumOver(MovedBetween, LAMBDA id : Moved(Catalogue[id]))

ReconcilesAsStored(results) ==
  LET balance == CHOOSE r \in results : r.key = "cash.bank_balance"
  IN  /\ (Expected \subseteq stored /\ cancelled = {}) => SummariseReconciliation(results).status = "matched"
      /\ (balance.status # "not_applicable" /\ Inside \ stored # {}) =>
           balance.difference = <<- SumOver(Inside \ stored, LAMBDA id : Moved(Catalogue[id]))>>

(* No false alarm and none missed: books that hold every row of the range,    *)
(* of a business whose sources agree and whose payouts net off no refund,     *)
(* reconcile; without one of its bank movements the bank balance is reported  *)
(* as unexplained, to the penny.                                              *)
CompleteBooksReconcile == ReconcilesAsStored(RunReconciliation(ReconciledRange))
=============================================================================
