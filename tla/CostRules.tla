----------------------------- MODULE CostRules -----------------------------
(* Date-effective costs (src/lib/financial/effective-dating.ts, dates.ts and  *)
(* cost-resolution.ts). A business date is a day number, NoDate stands for    *)
(* null, and Starts names the first day of every week, month and year of the  *)
(* calendar, so that periods of unequal length are part of the model.         *)
EXTENDS Money

CONSTANT Starts   \* [week, month, year] -> sets of day numbers

NoDate == 0

Units == {"week", "month", "year"}

ASSUME StartsAssumption ==
  DOMAIN Starts = Units /\ \A unit \in Units : Starts[unit] \subseteq Int

(*------------------------------- calendar --------------------------------*)
PeriodStart(unit, d) == Max({s \in Starts[unit] : s <= d})
PeriodEnd(unit, d)   == Min({s \in Starts[unit] : s > d}) - 1

(* The calendar has a last start by the day and a first one after it.         *)
CalendarHolds(unit, d) ==
  /\ \E s \in Starts[unit] : s <= d /\ \A other \in Starts[unit] : other <= d => other <= s
  /\ \E s \in Starts[unit] : s > d /\ \A other \in Starts[unit] : other > d => s <= other

(* Where a day sits in its period and how many days the period has.           *)
PeriodPosition(unit, d) ==
  IF unit = "day"
  THEN [index |-> 0, days |-> 1]
  ELSE [index |-> d - PeriodStart(unit, d),
        days  |-> PeriodEnd(unit, d) - PeriodStart(unit, d) + 1]

EnumerateDates(range) == range.from .. range.to
InRange(d, range) == range.from <= d /\ d <= range.to
RangeEndingOn(to, days) == [from |-> to - (days - 1), to |-> to]
MonthToDate(to) == [from |-> PeriodStart("month", to), to |-> to]
YearToDate(to) == [from |-> PeriodStart("year", to), to |-> to]
PreviousMonth(to) ==
  LET last == PeriodStart("month", to) - 1
  IN  [from |-> PeriodStart("month", last), to |-> last]
PrecedingRange(range) ==
  [from |-> range.from - (range.to - range.from + 1), to |-> range.from - 1]

(*---------------------------- effective dating ---------------------------*)
IsEffectiveOn(record, d) ==
  record.from <= d /\ (record.to = NoDate \/ record.to >= d)

ResolveAllEffective(records, d) == {r \in records : IsEffectiveOn(r, d)}

(* The latest version in force, for a non-empty set of candidates.            *)
ResolveEffective(candidates) ==
  CHOOSE r \in candidates : \A other \in candidates : other.from <= r.from

(* One record per key that has one in force.                                  *)
ResolveEffectiveByKey(records, d, KeyOf(_)) ==
  LET inForce == ResolveAllEffective(records, d)
  IN  Table([k \in {KeyOf(r) : r \in inForce} |->
               ResolveEffective({r \in inForce : KeyOf(r) = k})])

(*--------------------------------- costs ---------------------------------*)
ProductComponents ==
  {"productCogs", "packaging", "inboundFreight", "paymentProcessing", "otherVariableProductCosts"}
OperatingComponents ==
  {"fulfilment", "shipping", "shopifyAndVariableApps", "otherVariableOperatingCosts"}
Components == ProductComponents \cup OperatingComponents
UnitComponents ==
  {"productCogs", "packaging", "inboundFreight", "paymentProcessing", "fulfilment", "shipping"}

Cm1Costs(costs) == SumOver(ProductComponents, LAMBDA c : costs[c])
Cm3Costs(costs) == SumOver(OperatingComponents, LAMBDA c : costs[c])

KeyComponents ==
  [product_cogs |-> "productCogs", packaging |-> "packaging",
   inbound_freight |-> "inboundFreight", payment_processing |-> "paymentProcessing",
   payment_processing_per_order |-> "paymentProcessing", fulfilment |-> "fulfilment",
   outbound_shipping |-> "shipping", shipping |-> "shipping",
   shopify_fees |-> "shopifyAndVariableApps", variable_apps |-> "shopifyAndVariableApps"]

(* Where an assumption is reported; "none" when it is no order cost.          *)
ComponentForAssumption(a) ==
  CASE a.key \in DOMAIN KeyComponents -> KeyComponents[a.key]
    [] a.key \notin DOMAIN KeyComponents /\ a.bucket = "cm1" -> "otherVariableProductCosts"
    [] a.key \notin DOMAIN KeyComponents /\ a.bucket = "cm3" -> "otherVariableOperatingCosts"
    [] OTHER -> "none"

UnitCostsOf(resolved) ==
  Table([v \in DOMAIN resolved |->
           [c \in Components |-> IF c \in UnitComponents THEN resolved[v].costs[c] ELSE 0]])

(* variant |-> unit costs in force on the day, zero for the order-level parts. *)
ResolveVariantUnitCosts(profiles, d) ==
  UnitCostsOf(ResolveEffectiveByKey(profiles, d, LAMBDA p : p.variant))

AssumptionMatchesLine(a, line) ==
  \/ a.appliesTo.kind = "all_orders"
  \/ a.appliesTo.kind = "sku" /\ line.sku = a.appliesTo.id
  \/ a.appliesTo.kind = "variant" /\ line.variant = a.appliesTo.id

ResolveAssumptions(assumptions, d) ==
  LET effective == ResolveAllEffective(assumptions, d)
  IN  [orderLevel  |-> {a \in effective : a.basis # "fixed_period"},
       fixedPeriod |-> {a \in effective : a.basis = "fixed_period"}]

(* A null period is a month.                                                  *)
PositionFor(a, d) == PeriodPosition(IF a.period = "none" THEN "month" ELSE a.period, d)

(* Mutant of DailyFixedPeriodAmount: every day takes the same rounded share.  *)
RoundedDailyAmount(a, d) == ToPence(a.amount \div PositionFor(a, d).days)

(* The share of a recurring cost that falls on one day of its period.         *)
DailyFixedPeriodAmount(a, d) ==
  AllocateProportionally(a.amount, [i \in 1 .. PositionFor(a, d).days |-> 1])[PositionFor(a, d).index + 1]

DailyFixedCosts(assumptions, bucket, d) ==
  SumOver({a \in ResolveAssumptions(assumptions, d).fixedPeriod : a.bucket = bucket},
          LAMBDA a : DailyFixedPeriodAmount(a, d))
=============================================================================
