------------------------------ MODULE MCFigures ------------------------------
(* A small shop: two customers, three orders around midnight in summer time,  *)
(* a restocked refund, spend reported by two platforms and paid through the   *)
(* ledger, a cost that changes, months of two days after one of eleven.       *)
(* Amounts are ten-thousandths of a pound, hours count from day 0.            *)
EXTENDS Workbook, TLC

At(day, hour) == day * Hours + hour
Line(variant, quantity, grossSales, discounts) ==
  [variant |-> variant, sku |-> IF variant = NoVariant THEN "old" ELSE variant,
   quantity |-> quantity, grossSales |-> grossSales, discounts |-> discounts]
Order(externalId, customer, orderedAt, grossSales, discounts, shippingRevenue, tax, lines) ==
  [table |-> "orders", externalId |-> externalId, customer |-> customer, orderedAt |-> orderedAt,
   isTest |-> FALSE, grossSales |-> grossSales, discounts |-> discounts,
   shippingRevenue |-> shippingRevenue, tax |-> tax, lines |-> lines]
AdRow(platform, date, entity, spend, purchases, purchaseValue) ==
  [table |-> "adRows", platform |-> platform, date |-> date, entity |-> entity, spend |-> spend,
   purchases |-> purchases, purchaseValue |-> purchaseValue]
Charge(account, amount, tax) == [account |-> account, amount |-> amount, tax |-> tax]
Transaction(type, date, account, total, lines) ==
  [table |-> "transactions", type |-> type, date |-> date, account |-> account, total |-> total,
   bank |-> "main", lines |-> lines]
Rule(account, category, adPlatform) ==
  [table |-> "rules", account |-> account, category |-> category, adPlatform |-> adPlatform,
   from |-> 1, to |-> NoDate]
UnitCosts(cogs, packaging) ==
  [c \in UnitComponents |-> CASE c = "productCogs" -> cogs [] c = "packaging" -> packaging [] OTHER -> 0]
Profile(variant, from, to, costs) ==
  [table |-> "profiles", variant |-> variant, from |-> from, to |-> to, costs |-> costs]
Assumption(key, bucket, basis, amount, kind, id, period) ==
  [table |-> "assumptions", key |-> key, bucket |-> bucket, basis |-> basis, amount |-> amount,
   appliesTo |-> [kind |-> kind, id |-> id], from |-> 1, to |-> NoDate, period |-> period]
Balance(date, closing) == [table |-> "balances", date |-> date, closing |-> closing]

OrderRows ==
  [o1 |-> Order(2, "ann", At(3, 23), 9900, 900, 1000, 2000,
                <<Line("tee", 2, 5000, 900), Line("cap", 1, 3000, 0), Line(NoVariant, 1, 1900, 0)>>),
   o2 |-> Order(1, "ann", At(4, 10), 3000, 0, 0, 600, <<Line("tee", 1, 3000, 0)>>),
   o3 |-> Order(3, "bob", At(5, 3), 2000, 0, 0, 400, <<>>),
   o4 |-> Order(4, "bob", At(6, 12), 3000, 0, 0, 600, <<Line("cap", 1, 3000, 0)>>)]
ImportedRows ==
  [r1 |-> [table |-> "refunds", order |-> "o1", processedAt |-> At(5, 22), total |-> 2500, tax |-> 400,
           restocked |-> TRUE, lines |-> <<[variant |-> "tee", quantity |-> 1]>>],
   a1 |-> AdRow("meta", 4, "account", 3000, NotAvailable, NotAvailable),
   a3 |-> AdRow("tiktok", 5, "account", 1200, <<2>>, <<5000>>),
   t1 |-> Transaction("SPEND", 4, "none", 4800,
                      <<Charge("fees", 500, 100), Charge("ads", 3000, 0), Charge("clips", 1200, 0)>>),
   t2 |-> Transaction("RECEIVE", 5, "fees", 200, <<>>)]
SettingRows ==
  [a2 |-> AdRow("meta", 4, "campaign", 3000, NotAvailable, NotAvailable),
   m1 |-> Rule("fees", "variable_operating", "none"),
   m2 |-> Rule("ads", "acquisition", "meta"),
   m3 |-> Rule("clips", "acquisition", "tiktok"),
   c1 |-> Profile("tee", 1, 4, UnitCosts(700, 100)),
   c2 |-> Profile("tee", 5, NoDate, UnitCosts(900, 100)),
   f1 |-> Assumption("fulfilment", "cm3", "per_order", 500, "all_orders", "none", "none"),
   f2 |-> Assumption("payment_processing", "cm1", "percentage_of_revenue", 2, "all_orders", "none", "none"),
   f3 |-> Assumption("gift_note", "cm1", "per_order", 100, "variant", "cap", "none"),
   f4 |-> Assumption("rent", "fixed_operating", "fixed_period", 1500, "all_orders", "none", "month"),
   t3 |-> Transaction("SPEND", 3, "stock", 1000, <<>>),
   b1 |-> Balance(3, 9000),
   b2 |-> Balance(5, 4400),
   p1 |-> [table |-> "payouts", date |-> 6, charges |-> 21600, refunds |-> 0, fees |-> 300, net |-> 21300],
   s1 |-> [table |-> "snapshots", variant |-> "tee", location |-> "attic", at |-> At(6, 1), available |-> 8, onOrder |-> 0],
   s2 |-> [table |-> "snapshots", variant |-> "tee", location |-> "attic", at |-> At(7, 1), available |-> 5, onOrder |-> 0],
   s3 |-> [table |-> "snapshots", variant |-> "tee", location |-> "shop", at |-> At(6, 2), available |-> 2, onOrder |-> 4],
   s4 |-> [table |-> "snapshots", variant |-> "cap", location |-> "shop", at |-> At(6, 2), available |-> 3, onOrder |-> 0],
   n1 |-> [table |-> "settings", variant |-> "tee", from |-> 1, to |-> NoDate, reorderPoint |-> 2, leadTime |-> 14],
   k1 |-> [table |-> "commitments", dueDate |-> 25, category |-> "VAT", amount |-> 900, id |-> "k1"],
   i1 |-> [table |-> "bills", id |-> "i1", dueDate |-> NoDate, invoiceDate |-> 20, due |-> 700, status |-> "AUTHORISED"],
   x1 |-> [table |-> "connections", provider |-> "xero", status |-> "connected", lastSuccess |-> At(18, 2)],
   x2 |-> [table |-> "connections", provider |-> "meta", status |-> "needs_reauth", lastSuccess |-> At(6, 2)],
   y1 |-> [table |-> "adAccounts", timezone |-> "unknown"]]

MCCatalogue == OrderRows @@ ImportedRows @@ SettingRows
MCSeeded == DOMAIN SettingRows \cup {"t2", "a1", "a3"}
MCStarts == [week |-> {-30, -23, -16, -9, -2, 5, 12}, year |-> {-400, 1, 400},
             month |-> {-99, -69, -39, -9, 2, 4, 6, 8, 18, 28}]
MCPolicy == [refundCogsReversal |-> "reverse_when_restocked", breakEvenContributionLevel |-> "cm3",
             inventoryAlertWindowDays |-> 7]
MCRange == [from |-> 3, to |-> 6]
MCExpected == DOMAIN MCCatalogue

ASSUME SourcesAgreeHere == SourcesAgree
=============================================================================
