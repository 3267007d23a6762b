------------------------------- MODULE Money -------------------------------
(* Exact money (src/lib/financial/money.ts). An amount is an integer number   *)
(* of ten-thousandths of a pound, the four places of the numeric(19, 4)       *)
(* columns, and Penny of them make a penny. A quotient is kept as the pair    *)
(* <<numerator, denominator>> and the missing quotient as the empty tuple.    *)
EXTENDS Integers, Sequences, FiniteSetsExt

Penny == 100

NotAvailable == <<>>

(* The function f itself, written out as a table: TLC then computes each of   *)
(* its values once, as the code does, and not at every use.                   *)
Table(f) == CHOOSE g \in {f} : g = f

SumOver(S, Amount(_)) == SumFunction([x \in S |-> Amount(x)])

SumSeq(amounts) == SumFunction(amounts)

Magnitude(a) == IF a < 0 THEN -a ELSE a

(* Division towards zero, as toDecimalPlaces with ROUND_DOWN.                 *)
TruncDiv(a, b) ==
  (IF (a < 0) = (b < 0) THEN 1 ELSE -1) * (Magnitude(a) \div Magnitude(b))

(* Half a penny is rounded away from zero (ROUND_HALF_UP).                    *)
ToPence(a) ==
  (IF a < 0 THEN -Penny ELSE Penny) * ((Magnitude(a) + Penny \div 2) \div Penny)

Ratio(numerator, divisor) ==
  IF divisor = 0 THEN NotAvailable ELSE <<numerator, divisor>>

(* Mutant of HandOut: the left-over pennies are dropped.                      *)
HandOutNothing(parts, remainder, rank) == parts

(* The step that hands the left-over pennies out one by one: `rank` is the    *)
(* place of each part in the order the code walks.                            *)
HandOut(parts, remainder, rank) ==
  LET step == IF remainder < 0 THEN -Penny ELSE Penny
  IN  Table([i \in DOMAIN parts |->
               IF rank[i] * Penny < Magnitude(remainder) THEN parts[i] + step ELSE parts[i]])

EqualShares(target, count, share) ==
  HandOut([i \in 1 .. count |-> share], target - share * count, [i \in 1 .. count |-> i - 1])

DistributeEvenly(target, count) == EqualShares(target, count, Penny * TruncDiv(target, count * Penny))

(* The largest fractions first, the earlier part first among equals (the sort *)
(* is stable).                                                                *)
RankByFraction(fraction) ==
  [i \in DOMAIN fraction |->
     Cardinality({j \in DOMAIN fraction : \/ fraction[j] > fraction[i]
                                          \/ fraction[j] = fraction[i] /\ j < i})]

(* What rounding towards zero leaves of the target goes out by rank.          *)
HandOutRest(target, weights, weightTotal, floored) ==
  HandOut(floored, target - SumSeq(floored),
          RankByFraction(
            Table([i \in DOMAIN floored |->
                     (target * weights[i] - floored[i] * weightTotal)
                       * (IF weightTotal < 0 THEN -1 ELSE 1)])))

SharesOf(target, weights, weightTotal) ==
  CASE weights = <<>>                     -> <<>>
    [] weights # <<>> /\ weightTotal = 0 -> DistributeEvenly(target, Len(weights))
    [] OTHER -> HandOutRest(target, weights, weightTotal,
                  Table([i \in DOMAIN weights |->
                           Penny * TruncDiv(target * weights[i], weightTotal * Penny)]))

(* Shares of the total in proportion to the weights, to the penny.            *)
AllocateProportionally(total, weights) == SharesOf(ToPence(total), weights, SumSeq(weights))
=============================================================================
