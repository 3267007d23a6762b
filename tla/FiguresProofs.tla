---------------------------- MODULE FiguresProofs ----------------------------
(* The figures agree for every set of books: any range, any window of it and  *)
(* any export show the same day. The argument is one absolute row per day,    *)
(* Row(d), a function of the stored tables alone: every set of facts that     *)
(* knows the day (Knows) gives that row, and every range that holds the day,  *)
(* loaded or narrowed, knows it.                                              *)
EXTENDS Workbook, MoneyProofs

(*------------------------------- the books -------------------------------*)
DateOf(id) == BusinessDate(Catalogue[id].orderedAt)
RefundDate(id) == BusinessDate(Catalogue[id].processedAt)

(* Stored history reaches back to the first live order of every customer.     *)
CustomersAreKnown ==
  \A id \in LiveOrders :
    LET c == Catalogue[id].customer
    IN  c # NoCustomer => firstOrderAt[c] # Never /\ firstOrderAt[c] <= Catalogue[id].orderedAt

BooksInv == TypeOK /\ CustomersAreKnown

LEMMA InitBooks == Init => BooksInv
<1> SUFFICES ASSUME Init PROVE BooksInv
  OBVIOUS
<1>1. stored \cap IdsOf("orders") = {}
  BY BooksAssumption DEF Init, BooksInit, IdsOf
<1>2. TypeOK
  BY BooksAssumption, <1>1 DEF Init, BooksInit, TypeOK, StoredIn
<1>3. LiveOrders = {}
  BY <1>1 DEF LiveOrders, StoredIn
<1> QED
  BY <1>2, <1>3 DEF BooksInv, CustomersAreKnown

LEMMA StoreOrderKeeps ==
  ASSUME BooksInv, NEW id \in IdsOf("orders"), NEW isCancelled \in BOOLEAN, StoreOrder(id, isCancelled)
  PROVE  BooksInv'
<1> DEFINE c == Catalogue[id].customer
<1> DEFINE at == Catalogue[id].orderedAt
<1> DEFINE Instants == {Catalogue[o].orderedAt : o \in IdsOf("orders")}
<1> DEFINE isEarlier == /\ c # NoCustomer /\ ~Catalogue[id].isTest /\ ~isCancelled
                        /\ firstOrderAt[c] = Never \/ at < firstOrderAt[c]
<1>1. /\ stored' = stored \cup {id}
      /\ cancelled' = IF isCancelled THEN cancelled \cup {id} ELSE cancelled
      /\ firstOrderAt' = IF isEarlier THEN [firstOrderAt EXCEPT ![c] = at] ELSE firstOrderAt
      /\ decided' = decided /\ id \notin stored
  BY DEF StoreOrder
<1>2. /\ stored \subseteq DOMAIN Catalogue /\ cancelled \subseteq stored \cap IdsOf("orders")
      /\ firstOrderAt \in [Customers -> {Never} \cup Instants] /\ decided \subseteq Decisions
  BY DEF BooksInv, TypeOK, StoredIn
<1>3. at \in Instants /\ Instants \subseteq Nat /\ (c # NoCustomer => c \in Customers)
  BY CatalogueAssumption DEF Customers
<1>4. firstOrderAt' \in [Customers -> {Never} \cup Instants]
  BY <1>1, <1>2, <1>3
<1>5. TypeOK'
  <2>1. stored' \subseteq DOMAIN Catalogue /\ cancelled' \subseteq stored' \cap IdsOf("orders") /\ decided' \subseteq Decisions
    BY <1>1, <1>2 DEF IdsOf
  <2> QED
    BY <1>4, <2>1 DEF TypeOK, StoredIn
<1>6. ASSUME NEW o \in LiveOrders', Catalogue[o].customer # NoCustomer
      PROVE  firstOrderAt'[Catalogue[o].customer] # Never
             /\ firstOrderAt'[Catalogue[o].customer] <= Catalogue[o].orderedAt
  <2> DEFINE k == Catalogue[o].customer
  <2>1. o \in IdsOf("orders") /\ ~Catalogue[o].isTest /\ o \notin cancelled' /\ o \in stored'
    BY DEF LiveOrders, StoredIn
  <2>2. k \in Customers /\ Catalogue[o].orderedAt \in Nat
    BY <1>6, <2>1, CatalogueAssumption DEF Customers
  <2>3. firstOrderAt[k] \in {Never} \cup Nat
    BY <1>2, <1>3, <2>2
  <2>4. CASE o = id
    <3>1. ~isCancelled
      BY <1>1, <2>1, <2>4
    <3>2. isEarlier <=> firstOrderAt[k] = Never \/ at < firstOrderAt[k]
      BY <1>6, <2>1, <2>4, <3>1
    <3> QED
      BY <1>1, <1>2, <2>2, <2>3, <2>4, <3>2 DEF Never
  <2>5. CASE o # id
    <3>1. o \in LiveOrders
      BY <1>1, <2>1, <2>5 DEF LiveOrders, StoredIn
    <3>2. firstOrderAt[k] # Never /\ firstOrderAt[k] <= Catalogue[o].orderedAt
      BY <1>6, <3>1 DEF BooksInv, CustomersAreKnown
    <3>3. firstOrderAt'[k] = firstOrderAt[k] \/ (firstOrderAt'[k] = at /\ at < firstOrderAt[k])
      BY <1>1, <1>2, <2>2, <3>2
    <3>4. at \in Nat
      BY <1>3
    <3> QED
      BY <2>2, <2>3, <3>2, <3>3, <3>4 DEF Never
  <2> QED
    BY <2>4, <2>5
<1> QED
  BY <1>5, <1>6 DEF BooksInv, CustomersAreKnown

LEMMA NextKeepsBooks == BooksInv /\ [Next]_bookVars => BooksInv'
<1> SUFFICES ASSUME BooksInv, [Next]_bookVars PROVE BooksInv'
  OBVIOUS
<1>1. ASSUME stored' = stored, cancelled' = cancelled, firstOrderAt' = firstOrderAt, decided' \subseteq Decisions
      PROVE  BooksInv'
  BY <1>1 DEF BooksInv, TypeOK, CustomersAreKnown, LiveOrders, StoredIn
<1>2. CASE UNCHANGED bookVars
  BY <1>1, <1>2 DEF bookVars, BooksInv, TypeOK
<1>3. ASSUME NEW id \in IdsOf("orders"), CancelOrder(id) PROVE BooksInv'
  <2>1. /\ stored' = stored /\ cancelled' = cancelled \cup {id} /\ firstOrderAt' = firstOrderAt
        /\ decided' = decided /\ id \in StoredIn("orders")
    BY <1>3 DEF CancelOrder
  <2>2. TypeOK'
    BY <2>1 DEF BooksInv, TypeOK, StoredIn
  <2>3. LiveOrders' \subseteq LiveOrders
    BY <2>1 DEF LiveOrders, StoredIn
  <2> QED
    BY <2>1, <2>2, <2>3 DEF BooksInv, CustomersAreKnown
<1>4. ASSUME NEW id \in IdsOf("orders"), NEW isCancelled \in BOOLEAN, StoreOrder(id, isCancelled) PROVE BooksInv'
  BY <1>4, StoreOrderKeeps
<1>5. ASSUME NEW id \in DOMAIN Catalogue \ IdsOf("orders"), StoreRow(id) PROVE BooksInv'
  <2>1. /\ stored' = stored \cup {id} /\ cancelled' = cancelled /\ firstOrderAt' = firstOrderAt
        /\ decided' = decided
    BY <1>5 DEF StoreRow
  <2>2. stored' \cap IdsOf("orders") = stored \cap IdsOf("orders")
    BY <1>5, <2>1
  <2>3. TypeOK'
    BY <2>1, <2>2 DEF BooksInv, TypeOK, StoredIn
  <2>4. LiveOrders' = LiveOrders
    BY <2>1, <2>2 DEF LiveOrders, StoredIn
  <2> QED
    BY <2>1, <2>3, <2>4 DEF BooksInv, CustomersAreKnown
<1>6. ASSUME NEW decision \in Decisions, Decide(decision) PROVE BooksInv'
  BY <1>1, <1>6 DEF Decide, BooksInv, TypeOK
<1> QED
  BY <1>2, <1>3, <1>4, <1>5, <1>6 DEF Next, BooksNext

(* The books keep their types, and know of every customer with a live order   *)
(* an instant no later than it.                                               *)
THEOREM BooksAreKept == Spec => []BooksInv
<1> QED
  BY InitBooks, NextKeepsBooks, PTL DEF Spec

(*------------------------------ business dates ---------------------------*)
LEMMA DivMonotone == \A m, n \in Int : m <= n => m \div 24 <= n \div 24
  BY SMT

LEMMA DivBetween == \A m \in Int : m \div 24 \in Int /\ 24 * (m \div 24) <= m /\ m < 24 * (m \div 24) + 24
  BY SMT

LEMMA DatesInOrder ==
  ASSUME NEW a \in Int, NEW b \in Int, a <= b
  PROVE  BusinessDate(a) \in Int /\ BusinessDate(a) <= BusinessDate(b)
<1> DEFINE At(h) == h + (IF h >= SummerFrom THEN Offset ELSE 0)
<1>1. Offset \in Nat /\ SummerFrom \in Int
  BY BooksAssumption DEF Hours
<1>2. At(a) \in Int /\ At(b) \in Int /\ At(a) <= At(b)
  BY <1>1
<1>3. BusinessDate(a) = At(a) \div 24 /\ BusinessDate(b) = At(b) \div 24
  BY DEF BusinessDate, Hours
<1> HIDE DEF At
<1> QED
  BY <1>2, <1>3, DivMonotone, DivBetween

(* The UTC window of a range holds every instant of its dates.                *)
LEMMA WindowHoldsDates ==
  ASSUME NEW h \in Int, NEW range, range.from \in Int, range.to \in Int, InRange(BusinessDate(h), range)
  PROVE  InUtcWindow(h, range)
<1> DEFINE at == h + (IF h >= SummerFrom THEN Offset ELSE 0)
<1>1. Offset \in 0 .. 24 /\ SummerFrom \in Int
  BY BooksAssumption DEF Hours
<1>2. at \in Int /\ h <= at /\ at <= h + 24
  BY <1>1
<1>3. BusinessDate(h) = at \div 24
  BY DEF BusinessDate, Hours
<1> HIDE DEF at
<1>4. at \div 24 \in Int /\ 24 * (at \div 24) <= at /\ at < 24 * (at \div 24) + 24
  BY <1>2, DivBetween
<1>5. range.from <= at \div 24 /\ at \div 24 <= range.to
  BY <1>3 DEF InRange
<1> QED
  BY <1>2, <1>4, <1>5 DEF InUtcWindow, Hours

(*------------------------------- one range -------------------------------*)
Proper(range) == range.from \in Int /\ range.to \in Int

(* The orders and refunds that a range is computed from.                      *)
OrdersBehind(range) == LoadOrders(range, {Catalogue[r].order : r \in LoadRefunds(range)})
RefundsBehind(range) == {r \in LoadRefunds(range) : Catalogue[r].order \in OrdersBehind(range)}
OrdersOn(d) == {id \in LiveOrders : DateOf(id) = d}
RefundsOn(d) == {r \in StoredIn("refunds") : Catalogue[r].order \in LiveOrders /\ RefundDate(r) = d}

LEMMA LiveOrdersAreTyped ==
  ASSUME NEW id \in LiveOrders
  PROVE  id \in IdsOf("orders") /\ Catalogue[id].orderedAt \in Nat /\ DateOf(id) \in Int
<1>1. id \in IdsOf("orders")
  BY DEF LiveOrders, StoredIn
<1>2. Catalogue[id].orderedAt \in Nat
  BY <1>1, CatalogueAssumption
<1> QED
  BY <1>1, <1>2, DatesInOrder DEF DateOf

LEMMA OrdersOfDay ==
  ASSUME NEW range, Proper(range), NEW d, InRange(d, range)
  PROVE  {id \in OrdersBehind(range) : DateOf(id) = d} = OrdersOn(d)
<1>1. OrdersBehind(range) \subseteq LiveOrders
  BY DEF OrdersBehind, LoadOrders
<1>2. ASSUME NEW id \in LiveOrders, DateOf(id) = d PROVE id \in OrdersBehind(range)
  <2>1. InUtcWindow(Catalogue[id].orderedAt, range)
    BY <1>2, LiveOrdersAreTyped, WindowHoldsDates DEF DateOf, Proper
  <2> QED
    BY <1>2, <2>1 DEF OrdersBehind, LoadOrders, DateOf
<1> QED
  BY <1>1, <1>2 DEF OrdersOn

LEMMA RefundsOfDay ==
  ASSUME NEW range, Proper(range), NEW d, InRange(d, range)
  PROVE  {r \in RefundsBehind(range) : RefundDate(r) = d} = RefundsOn(d)
<1>1. OrdersBehind(range) \subseteq LiveOrders /\ LoadRefunds(range) \subseteq StoredIn("refunds")
  BY DEF OrdersBehind, LoadOrders, LoadRefunds
<1>2. ASSUME NEW r \in StoredIn("refunds"), RefundDate(r) = d PROVE r \in LoadRefunds(range)
  <2>1. Catalogue[r].processedAt \in Int
    BY CatalogueAssumption DEF StoredIn
  <2>2. InUtcWindow(Catalogue[r].processedAt, range)
    BY <1>2, <2>1, WindowHoldsDates DEF RefundDate, Proper
  <2> QED
    BY <1>2, <2>2 DEF LoadRefunds, RefundDate
<1>3. ASSUME NEW r \in LoadRefunds(range), Catalogue[r].order \in LiveOrders
      PROVE  Catalogue[r].order \in OrdersBehind(range)
  BY <1>3 DEF OrdersBehind, LoadOrders
<1> QED
  BY <1>1, <1>2, <1>3 DEF RefundsBehind, RefundsOn

(*---------------------------- new customers ------------------------------*)
FirstDateOf(c) == BusinessDate(firstOrderAt[c])

(* The order that acquired its customer, as the stored tables have it.        *)
Acquires(id) ==
  LET c == Catalogue[id].customer
  IN  /\ c # NoCustomer
      /\ DateOf(id) = FirstDateOf(c)
      /\ \A p \in OrdersOn(DateOf(id)) :
           Catalogue[p].customer = c => Catalogue[id].externalId <= Catalogue[p].externalId

FlaggedAs(id, isNew) == [OrderInput(id) EXCEPT !.isNew = isNew]

LEMMA FlaggedFields ==
  ASSUME NEW id, NEW isNew
  PROVE  /\ FlaggedAs(id, isNew).externalId = Catalogue[id].externalId
         /\ FlaggedAs(id, isNew).businessDate = DateOf(id)
         /\ FlaggedAs(id, isNew).isExcluded = FALSE
         /\ FlaggedAs(id, isNew).customer = Catalogue[id].customer
  BY DEF FlaggedAs, OrderInput, DateOf

LEMMA InputFields ==
  ASSUME NEW id
  PROVE  /\ OrderInput(id).externalId = Catalogue[id].externalId
         /\ OrderInput(id).businessDate = DateOf(id)
         /\ OrderInput(id).customer = Catalogue[id].customer
         /\ OrderInput(id).isExcluded = FALSE
  BY DEF OrderInput, DateOf

LEMMA LeastOf ==
  ASSUME NEW S, S \subseteq Int, NEW m \in S, \A x \in S : m <= x
  PROVE  Min(S) = m
<1>1. Min(S) \in S /\ \A x \in S : Min(S) <= x
  BY DEF Min
<1>2. Min(S) \in Int /\ m \in Int /\ Min(S) <= m /\ m <= Min(S)
  BY <1>1
<1> QED
  BY <1>2

(* Flags are told by the orders of the day alone, whatever else was loaded.   *)
FlagIn(ids, known, id) ==
  LET eligible == {o \in {OrderInput(x) : x \in ids} : o.customer # NoCustomer /\ ~o.isExcluded}
      First(c) == Min({o.businessDate : o \in {p \in eligible : p.customer = c}}
                        \cup (IF c \in DOMAIN known THEN {known[c]} ELSE {}))
      o == OrderInput(id)
  IN  /\ o \in eligible
      /\ o.businessDate = First(o.customer)
      /\ \A p \in eligible : /\ p.customer = o.customer
                             /\ p.businessDate = o.businessDate
                             => o.externalId <= p.externalId

KnownBy(ids) == LoadFirstOrderDates({Catalogue[o].customer : o \in ids} \ {NoCustomer})

LEMMA FlagsAre ==
  ASSUME BooksInv, NEW ids, ids \subseteq LiveOrders, NEW id \in ids,
         OrdersOn(DateOf(id)) \subseteq ids
  PROVE  FlagIn(ids, KnownBy(ids), id) = Acquires(id)
<1> DEFINE c == Catalogue[id].customer
<1> DEFINE known == KnownBy(ids)
<1> DEFINE inputs == {OrderInput(x) : x \in ids}
<1> DEFINE eligible == {o \in inputs : o.customer # NoCustomer /\ ~o.isExcluded}
<1> DEFINE Dates == {o.businessDate : o \in {p \in eligible : p.customer = c}}
                      \cup (IF c \in DOMAIN known THEN {known[c]} ELSE {})
<1>1. \A x \in ids : /\ OrderInput(x).externalId = Catalogue[x].externalId
                     /\ OrderInput(x).businessDate = DateOf(x)
                     /\ OrderInput(x).customer = Catalogue[x].customer
                     /\ OrderInput(x).isExcluded = FALSE
  BY InputFields
<1>2. OrderInput(id) \in eligible <=> c # NoCustomer
  BY <1>1
<1>3. ASSUME c # NoCustomer PROVE Min(Dates) = FirstDateOf(c)
  <2>1. firstOrderAt[c] # Never
    BY <1>3 DEF BooksInv, CustomersAreKnown
  <2>2. c \in DOMAIN known /\ known[c] = FirstDateOf(c)
    BY <1>3, <2>1 DEF KnownBy, LoadFirstOrderDates, FirstDateOf
  <2>3. ASSUME NEW x \in ids, Catalogue[x].customer = c
        PROVE  FirstDateOf(c) \in Int /\ DateOf(x) \in Int /\ FirstDateOf(c) <= DateOf(x)
    <3>1. Catalogue[x].orderedAt \in Nat /\ DateOf(x) \in Int
      BY LiveOrdersAreTyped
    <3>2. firstOrderAt[c] <= Catalogue[x].orderedAt
      BY <1>3, <2>3 DEF BooksInv, CustomersAreKnown
    <3>3. firstOrderAt[c] \in Int
      <4>1. x \in IdsOf("orders") /\ c \in Customers
        BY <1>3, <2>3, LiveOrdersAreTyped DEF Customers
      <4> QED
        BY <4>1, CatalogueAssumption DEF BooksInv, TypeOK, Never
    <3> QED
      BY <3>1, <3>2, <3>3, DatesInOrder DEF FirstDateOf, DateOf
  <2>4. \A y \in Dates : y = FirstDateOf(c) \/ \E x \in ids : Catalogue[x].customer = c /\ y = DateOf(x)
    BY <1>1, <2>2
  <2>5. FirstDateOf(c) \in Int
    BY <2>3
  <2>6. Dates \subseteq Int /\ \A y \in Dates : FirstDateOf(c) <= y
    BY <2>3, <2>4, <2>5
  <2>7. FirstDateOf(c) \in Dates
    BY <2>2
  <2> HIDE DEF Dates
  <2> QED
    BY <2>6, <2>7, LeastOf
<1>4. ASSUME c # NoCustomer
      PROVE  (\A p \in eligible : /\ p.customer = c /\ p.businessDate = DateOf(id)
                                  => Catalogue[id].externalId <= p.externalId)
             <=> (\A p \in OrdersOn(DateOf(id)) :
                    Catalogue[p].customer = c => Catalogue[id].externalId <= Catalogue[p].externalId)
  BY <1>1, <1>4 DEF OrdersOn
<1>5. FlagIn(ids, known, id)
        = (/\ OrderInput(id) \in eligible
           /\ DateOf(id) = Min(Dates)
           /\ \A p \in eligible : /\ p.customer = c /\ p.businessDate = DateOf(id)
                                  => Catalogue[id].externalId <= p.externalId)
  BY <1>1 DEF FlagIn
<1>6. Acquires(id)
        = (/\ c # NoCustomer
           /\ DateOf(id) = FirstDateOf(c)
           /\ \A p \in OrdersOn(DateOf(id)) :
                Catalogue[p].customer = c => Catalogue[id].externalId <= Catalogue[p].externalId)
  BY DEF Acquires
<1>7. known = KnownBy(ids)
  OBVIOUS
<1> HIDE DEF Dates, eligible, known, c
<1> QED
  BY <1>2, <1>3, <1>4, <1>5, <1>6, <1>7

(*----------------------- facts that know a day ---------------------------*)
Flagged(id) == FlaggedAs(id, Acquires(id))

(* Every order of the facts is a live one, under its own name and date.       *)
OrdersAreNamed(orders) ==
  \A o \in orders : /\ o.isExcluded = FALSE
                    /\ \E id \in LiveOrders : /\ o.externalId = Catalogue[id].externalId
                                              /\ o.businessDate = DateOf(id)

SpendOn(d) == {s \in LoadAdSpend(Day(d)) : s.businessDate = d}
ExpensesOn(d) == {e \in LoadMappedExpenses(Day(d)) : e.businessDate = d}

(* The day of these facts is the day of the stored tables.                    *)
KnowsOrders(facts, d) ==
  /\ {o \in facts.orders : o.businessDate = d} = {Flagged(id) : id \in OrdersOn(d)}
  /\ OrdersAreNamed(facts.orders)
  /\ {r \in facts.refunds : r.processedBusinessDate = d} = {RefundInput(r) : r \in RefundsOn(d)}
  /\ \A r \in RefundsOn(d) : \E o \in facts.orders : o.externalId = Catalogue[Catalogue[r].order].externalId

KnowsCosts(facts, d) ==
  /\ facts.context = LoadAllocationContext /\ facts.policy = Policy
  /\ {s \in facts.adSpend : s.businessDate = d} = SpendOn(d)
  /\ {e \in facts.mappedExpenses : e.businessDate = d} = ExpensesOn(d)

Knows(facts, d) == KnowsOrders(facts, d) /\ KnowsCosts(facts, d)

LEMMA FlaggedOrders ==
  ASSUME NEW ids
  PROVE  AssignNewCustomerFlags({OrderInput(o) : o \in ids}, KnownBy(ids))
           = {FlaggedAs(id, FlagIn(ids, KnownBy(ids), id)) : id \in ids}
<1> DEFINE known == KnownBy(ids)
<1> DEFINE inputs == {OrderInput(x) : x \in ids}
<1> DEFINE eligible == {o \in inputs : o.customer # NoCustomer /\ ~o.isExcluded}
<1> DEFINE First(c) == Min({o.businessDate : o \in {p \in eligible : p.customer = c}}
                             \cup (IF c \in DOMAIN known THEN {known[c]} ELSE {}))
<1> DEFINE IsFirst(o) == /\ o \in eligible
                         /\ o.businessDate = First(o.customer)
                         /\ \A p \in eligible : /\ p.customer = o.customer
                                                /\ p.businessDate = o.businessDate
                                                => o.externalId <= p.externalId
<1>1. AssignNewCustomerFlags(inputs, known) = {[o EXCEPT !.isNew = IsFirst(o)] : o \in inputs}
  BY Zenon DEF AssignNewCustomerFlags
<1>2. \A id : FlagIn(ids, known, id) = IsFirst(OrderInput(id))
  BY Zenon DEF FlagIn
<1> HIDE DEF IsFirst, known
<1>3. {[o EXCEPT !.isNew = IsFirst(o)] : o \in inputs}
        = {[OrderInput(id) EXCEPT !.isNew = IsFirst(OrderInput(id))] : id \in ids}
  OBVIOUS
<1>4. \A id : FlaggedAs(id, FlagIn(ids, known, id))
                = [OrderInput(id) EXCEPT !.isNew = IsFirst(OrderInput(id))]
  BY <1>2 DEF FlaggedAs
<1> QED
  BY <1>1, <1>3, <1>4 DEF known

LEMMA LoadedFields ==
  ASSUME NEW range
  PROVE  LET facts == LoadFacts(range)
             ids == OrdersBehind(range)
         IN  /\ facts.range = range
             /\ facts.orders = {FlaggedAs(id, FlagIn(ids, KnownBy(ids), id)) : id \in ids}
             /\ facts.refunds = {RefundInput(r) : r \in RefundsBehind(range)}
             /\ facts.adSpend = LoadAdSpend(range)
             /\ facts.mappedExpenses = LoadMappedExpenses(range)
             /\ facts.context = LoadAllocationContext /\ facts.policy = Policy
<1> DEFINE ids == OrdersBehind(range)
<1>1. LoadFacts(range) = FactsOf(range, LoadRefunds(range), ids)
  BY DEF LoadFacts, OrdersBehind
<1>2. FactsOf(range, LoadRefunds(range), ids).orders
        = AssignNewCustomerFlags({OrderInput(o) : o \in ids}, KnownBy(ids))
  BY DEF FactsOf, KnownBy
<1>3. FactsOf(range, LoadRefunds(range), ids).refunds = {RefundInput(r) : r \in RefundsBehind(range)}
  BY DEF FactsOf, RefundsBehind
<1>4. LET facts == FactsOf(range, LoadRefunds(range), ids)
      IN  /\ facts.range = range
          /\ facts.adSpend = LoadAdSpend(range)
          /\ facts.mappedExpenses = LoadMappedExpenses(range)
          /\ facts.context = LoadAllocationContext /\ facts.policy = Policy
  BY DEF FactsOf
<1> HIDE DEF ids
<1> QED
  BY <1>1, <1>2, <1>3, <1>4, FlaggedOrders DEF ids

LEMMA RefundFields ==
  ASSUME NEW r
  PROVE  /\ RefundInput(r).processedBusinessDate = RefundDate(r)
         /\ RefundInput(r).order = Catalogue[Catalogue[r].order].externalId
  BY DEF RefundInput, RefundDate

LEMMA LoadKnowsOrders ==
  ASSUME BooksInv, NEW range, Proper(range), NEW d, InRange(d, range)
  PROVE  KnowsOrders(LoadFacts(range), d)
<1> DEFINE ids == OrdersBehind(range)
<1> DEFINE Flag(id) == FlagIn(ids, KnownBy(ids), id)
<1> DEFINE orders == LoadFacts(range).orders
<1> DEFINE refunds == LoadFacts(range).refunds
<1>1. ids \subseteq LiveOrders
  BY DEF OrdersBehind, LoadOrders
<1>2. orders = {FlaggedAs(id, Flag(id)) : id \in ids} /\ refunds = {RefundInput(r) : r \in RefundsBehind(range)}
  BY LoadedFields
<1>3. {id \in ids : DateOf(id) = d} = OrdersOn(d)
  BY OrdersOfDay
<1>4. \A id \in OrdersOn(d) : Flag(id) = Acquires(id)
  <2>1. \A id \in OrdersOn(d) : id \in ids /\ DateOf(id) = d /\ OrdersOn(d) \subseteq ids
    BY <1>3
  <2> HIDE DEF ids
  <2> QED
    BY <1>1, <2>1, FlagsAre
<1>5. \A id \in ids : /\ FlaggedAs(id, Flag(id)).externalId = Catalogue[id].externalId
                      /\ FlaggedAs(id, Flag(id)).businessDate = DateOf(id)
                      /\ FlaggedAs(id, Flag(id)).isExcluded = FALSE
  BY FlaggedFields
<1>6. \A r \in RefundsBehind(range) : RefundInput(r).processedBusinessDate = RefundDate(r)
  BY RefundFields
<1>7. {r \in RefundsBehind(range) : RefundDate(r) = d} = RefundsOn(d)
  BY RefundsOfDay
<1>8. \A r \in RefundsOn(d) : Catalogue[r].order \in ids
  BY <1>7 DEF RefundsBehind
<1> HIDE DEF ids, Flag, orders, refunds
<1>9. {o \in orders : o.businessDate = d} = {Flagged(id) : id \in OrdersOn(d)}
  BY <1>2, <1>3, <1>4, <1>5 DEF Flagged
<1>10. OrdersAreNamed(orders)
  BY <1>1, <1>2, <1>5 DEF OrdersAreNamed
<1>11. {r \in refunds : r.processedBusinessDate = d} = {RefundInput(r) : r \in RefundsOn(d)}
  BY <1>2, <1>6, <1>7
<1>12. \A r \in RefundsOn(d) : \E o \in orders : o.externalId = Catalogue[Catalogue[r].order].externalId
  BY <1>2, <1>5, <1>8
<1> QED
  BY <1>9, <1>10, <1>11, <1>12 DEF KnowsOrders, orders, refunds

(*------------------------- spend and expenses ----------------------------*)
Within(inner, range) == \A d \in Int : InRange(d, inner) => InRange(d, range)

LEMMA SpendWithin ==
  ASSUME NEW range, NEW inner, Within(inner, range)
  PROVE  {s \in LoadAdSpend(range) : InRange(s.businessDate, inner)} = LoadAdSpend(inner)
<1> DEFINE Row(id) ==
      [platform |-> Catalogue[id].platform, businessDate |-> Catalogue[id].date,
       spend |-> Catalogue[id].spend, purchases |-> Catalogue[id].purchases,
       purchaseValue |-> Catalogue[id].purchaseValue, id |-> id]
<1> DEFINE Ids(r) == {i \in StoredIn("adRows") : Catalogue[i].entity = "account" /\ InRange(Catalogue[i].date, r)}
<1>1. LoadAdSpend(range) = {Row(id) : id \in Ids(range)} /\ LoadAdSpend(inner) = {Row(id) : id \in Ids(inner)}
  BY DEF LoadAdSpend
<1>2. \A id : Row(id).businessDate = Catalogue[id].date
  OBVIOUS
<1>3. {id \in Ids(range) : InRange(Catalogue[id].date, inner)} = Ids(inner)
  <2>1. \A i \in StoredIn("adRows") : Catalogue[i].date \in Int
    BY CatalogueAssumption DEF StoredIn
  <2> QED
    BY <2>1 DEF Within
<1> HIDE DEF Row, Ids
<1> QED
  BY <1>1, <1>2, <1>3

LEMMA ExpensesWithin ==
  ASSUME NEW range, NEW inner, Within(inner, range)
  PROVE  {e \in LoadMappedExpenses(range) : InRange(e.businessDate, inner)} = LoadMappedExpenses(inner)
<1> DEFINE Bucket(c, d) == ExpenseBucket[(CHOOSE r \in RulesFor(c.account, d) : TRUE).category]
<1> DEFINE Mapped(id) ==
      {[id |-> c.id, businessDate |-> Catalogue[id].date, bucket |-> Bucket(c, Catalogue[id].date), amount |-> c.amount]
         : c \in {x \in ChargesOf(id) : /\ RulesFor(x.account, Catalogue[id].date) # {}
                                        /\ Bucket(x, Catalogue[id].date) # "none"}}
<1> DEFINE Ids(r) == {i \in StoredIn("transactions") : InRange(Catalogue[i].date, r)}
<1>1. /\ LoadMappedExpenses(range) = UNION {Mapped(id) : id \in Ids(range)}
      /\ LoadMappedExpenses(inner) = UNION {Mapped(id) : id \in Ids(inner)}
  BY DEF LoadMappedExpenses
<1>2. \A id : \A e \in Mapped(id) : e.businessDate = Catalogue[id].date
  OBVIOUS
<1>3. {id \in Ids(range) : InRange(Catalogue[id].date, inner)} = Ids(inner)
  <2>1. \A i \in StoredIn("transactions") : Catalogue[i].date \in Int
    BY CatalogueAssumption DEF StoredIn
  <2> QED
    BY <2>1 DEF Within
<1> HIDE DEF Mapped, Ids
<1> QED
  BY <1>1, <1>2, <1>3

LEMMA SpendOfDay ==
  ASSUME NEW range, NEW d \in Int, InRange(d, range)
  PROVE  /\ {s \in LoadAdSpend(range) : s.businessDate = d} = SpendOn(d)
         /\ {e \in LoadMappedExpenses(range) : e.businessDate = d} = ExpensesOn(d)
<1>1. Within(Day(d), range) /\ InRange(d, Day(d))
  BY DEF Within, InRange, Day
<1>2. /\ {s \in LoadAdSpend(range) : InRange(s.businessDate, Day(d))} = LoadAdSpend(Day(d))
      /\ {e \in LoadMappedExpenses(range) : InRange(e.businessDate, Day(d))} = LoadMappedExpenses(Day(d))
  BY <1>1, SpendWithin, ExpensesWithin
<1> QED
  BY <1>1, <1>2 DEF SpendOn, ExpensesOn

LEMMA LoadKnows ==
  ASSUME BooksInv, NEW range, Proper(range), NEW d \in Int, InRange(d, range)
  PROVE  Knows(LoadFacts(range), d)
<1>1. KnowsOrders(LoadFacts(range), d)
  BY LoadKnowsOrders
<1>2. KnowsCosts(LoadFacts(range), d)
  BY LoadedFields, SpendOfDay DEF KnowsCosts
<1> QED
  BY <1>1, <1>2 DEF Knows

LEMMA NarrowFields ==
  ASSUME NEW range, NEW inner
  PROVE  LET facts == NarrowFacts(LoadFacts(range), inner)
         IN  /\ facts.range = inner
             /\ facts.orders = LoadFacts(range).orders
             /\ facts.refunds = LoadFacts(range).refunds
             /\ facts.adSpend = {s \in LoadAdSpend(range) : InRange(s.businessDate, inner)}
             /\ facts.mappedExpenses = {e \in LoadMappedExpenses(range) : InRange(e.businessDate, inner)}
             /\ facts.context = LoadAllocationContext /\ facts.policy = Policy
  BY DEF NarrowFacts, LoadFacts, FactsOf

LEMMA NarrowKnows ==
  ASSUME BooksInv, NEW range, Proper(range), NEW inner, Within(inner, range),
         NEW d \in Int, InRange(d, inner)
  PROVE  Knows(NarrowFacts(LoadFacts(range), inner), d)
<1> DEFINE facts == NarrowFacts(LoadFacts(range), inner)
<1>1. InRange(d, range)
  BY DEF Within
<1>2. KnowsOrders(LoadFacts(range), d)
  BY <1>1, LoadKnowsOrders
<1>3. KnowsOrders(facts, d)
  BY <1>2, NarrowFields DEF KnowsOrders
<1>4. facts.adSpend = LoadAdSpend(inner) /\ facts.mappedExpenses = LoadMappedExpenses(inner)
  <2>1. /\ {s \in LoadAdSpend(range) : InRange(s.businessDate, inner)} = LoadAdSpend(inner)
        /\ {e \in LoadMappedExpenses(range) : InRange(e.businessDate, inner)} = LoadMappedExpenses(inner)
    BY SpendWithin, ExpensesWithin
  <2>2. /\ facts.adSpend = {s \in LoadAdSpend(range) : InRange(s.businessDate, inner)}
        /\ facts.mappedExpenses = {e \in LoadMappedExpenses(range) : InRange(e.businessDate, inner)}
    BY NarrowFields
  <2> HIDE DEF facts
  <2> QED
    BY <2>1, <2>2
<1>5. KnowsCosts(facts, d)
  BY <1>4, NarrowFields, SpendOfDay DEF KnowsCosts
<1> QED
  BY <1>3, <1>5 DEF Knows

(*------------------------------ pricing ----------------------------------*)
LEMMA AllocatedFields ==
  ASSUME NEW o, NEW context
  PROVE  /\ AllocateOrder(o, context).externalId = o.externalId
         /\ AllocateOrder(o, context).businessDate = o.businessDate
         /\ AllocateOrder(o, context).isNew = o.isNew
         /\ AllocateOrder(o, context).customer = o.customer
<1>1. ASSUME NEW rules, NEW unitCosts, NEW lines
      PROVE  /\ AllocatedOrder(o, rules, unitCosts, lines).externalId = o.externalId
             /\ AllocatedOrder(o, rules, unitCosts, lines).businessDate = o.businessDate
             /\ AllocatedOrder(o, rules, unitCosts, lines).isNew = o.isNew
             /\ AllocatedOrder(o, rules, unitCosts, lines).customer = o.customer
  BY DEF AllocatedOrder
<1> QED
  BY <1>1 DEF AllocateOrder, PricedOrder

Priced(id) == AllocateOrder(Flagged(id), LoadAllocationContext)
PricedOn(d) == {Priced(id) : id \in OrdersOn(d)}
PricedOrders == {Priced(id) : id \in LiveOrders}

LEMMA PricedFields ==
  ASSUME NEW id
  PROVE  /\ Priced(id).externalId = Catalogue[id].externalId
         /\ Priced(id).businessDate = DateOf(id)
         /\ Priced(id).customer = Catalogue[id].customer
<1> DEFINE o == Flagged(id)
<1>1. /\ o.externalId = Catalogue[id].externalId /\ o.businessDate = DateOf(id)
      /\ o.customer = Catalogue[id].customer
  BY FlaggedFields DEF Flagged
<1> HIDE DEF o
<1>2. /\ AllocateOrder(o, LoadAllocationContext).externalId = o.externalId
      /\ AllocateOrder(o, LoadAllocationContext).businessDate = o.businessDate
      /\ AllocateOrder(o, LoadAllocationContext).customer = o.customer
  BY AllocatedFields
<1> QED
  BY <1>1, <1>2 DEF Priced, o

LEMMA AllocatedOnDay ==
  ASSUME NEW facts, NEW d, Knows(facts, d)
  PROVE  {o \in AllocateOrders(facts.orders, facts.context) : o.businessDate = d} = PricedOn(d)
<1> DEFINE Alloc(o) == AllocateOrder(o, LoadAllocationContext)
<1>1. \A o : Alloc(o).businessDate = o.businessDate
  BY AllocatedFields
<1>2. \A id : Priced(id) = Alloc(Flagged(id))
  BY DEF Priced
<1> HIDE DEF Alloc
<1>3. AllocateOrders(facts.orders, facts.context) = {Alloc(o) : o \in facts.orders}
  BY DEF AllocateOrders, Knows, KnowsOrders, KnowsCosts, OrdersAreNamed, Alloc
<1>4. {o \in facts.orders : o.businessDate = d} = {Flagged(id) : id \in OrdersOn(d)}
  BY DEF Knows, KnowsOrders
<1> QED
  BY <1>1, <1>2, <1>3, <1>4 DEF PricedOn

(* The orders a refund may belong to: live ones, under their names.           *)
Named(allocated) ==
  \A o \in allocated : \E id \in LiveOrders : /\ o.externalId = Catalogue[id].externalId
                                              /\ o.businessDate = DateOf(id)

LEMMA AllocatedAreNamed ==
  ASSUME NEW facts, NEW d, Knows(facts, d)
  PROVE  /\ Named(AllocateOrders(facts.orders, facts.context))
         /\ \A r \in RefundsOn(d) : \E o \in AllocateOrders(facts.orders, facts.context) :
              o.externalId = Catalogue[Catalogue[r].order].externalId
<1>1. \A o \in facts.orders : /\ AllocateOrder(o, facts.context).externalId = o.externalId
                              /\ AllocateOrder(o, facts.context).businessDate = o.businessDate
                              /\ o.isExcluded = FALSE
  BY AllocatedFields DEF Knows, KnowsOrders, OrdersAreNamed
<1> QED
  BY <1>1 DEF Knows, KnowsOrders, OrdersAreNamed, AllocateOrders, Named

LEMMA PricedAreNamed ==
  /\ Named(PricedOrders)
  /\ \A d : \A r \in RefundsOn(d) : \E o \in PricedOrders :
       o.externalId = Catalogue[Catalogue[r].order].externalId
<1>1. \A id \in LiveOrders : Priced(id).externalId = Catalogue[id].externalId /\ Priced(id).businessDate = DateOf(id)
  BY PricedFields
<1> QED
  BY <1>1 DEF Named, PricedOrders, RefundsOn

(*----------------------------- a day's refunds ---------------------------*)
RefundRowsOn(d) == {RefundInput(r) : r \in RefundsOn(d)}

(* The orders at hand hold the order of every refund of the day.              *)
Answers(allocated, d) ==
  /\ Named(allocated)
  /\ \A r \in RefundsOn(d) : \E o \in allocated : o.externalId = Catalogue[Catalogue[r].order].externalId

LEMMA RefundFindsOrder ==
  ASSUME NEW allocated, NEW d, Answers(allocated, d), NEW r \in RefundRowsOn(d)
  PROVE  \E id \in LiveOrders :
           /\ r.order = Catalogue[id].externalId
           /\ {o \in allocated : o.externalId = r.order} # {}
           /\ \A o \in {x \in allocated : x.externalId = r.order} : o.businessDate = DateOf(id)
<1>1. PICK x \in RefundsOn(d) : r = RefundInput(x)
  BY DEF RefundRowsOn
<1> DEFINE id == Catalogue[x].order
<1>2. id \in LiveOrders /\ r.order = Catalogue[id].externalId
  BY <1>1, RefundFields DEF RefundsOn
<1>3. {o \in allocated : o.externalId = r.order} # {}
  BY <1>2 DEF Answers
<1>4. ASSUME NEW o \in allocated, o.externalId = r.order PROVE o.businessDate = DateOf(id)
  <2>1. PICK y \in LiveOrders : o.externalId = Catalogue[y].externalId /\ o.businessDate = DateOf(y)
    BY DEF Answers, Named
  <2>2. y \in IdsOf("orders") /\ id \in IdsOf("orders")
    BY <1>2, LiveOrdersAreTyped
  <2>3. y = id
    BY <1>2, <1>4, <2>1, <2>2, CatalogueAssumption
  <2> QED
    BY <2>1, <2>3
<1> QED
  BY <1>2, <1>3, <1>4

LEMMA ReversalOfDay ==
  ASSUME NEW d, NEW one, NEW other, Answers(one, d), Answers(other, d), NEW context, NEW policy
  PROVE  RefundReversal(RefundRowsOn(d), one, context, policy)
           = RefundReversal(RefundRowsOn(d), other, context, policy)
<1> DEFINE Of(allocated, r) == {o \in allocated : o.externalId = r.order}
<1> DEFINE Sold(allocated, r) == (CHOOSE o \in Of(allocated, r) : TRUE).businessDate
<1> DEFINE Value(r, date) == UnitsValue(r.lines, ResolveVariantUnitCosts(context.profiles, date))
<1> DEFINE Counted(allocated) ==
      {r \in RefundRowsOn(d) : ShouldReverseCogs(policy, r.restocked) /\ Of(allocated, r) # {}}
<1>1. \A r \in RefundRowsOn(d) : /\ Of(one, r) # {} /\ Of(other, r) # {}
                                 /\ Sold(one, r) = Sold(other, r)
  <2> SUFFICES ASSUME NEW r \in RefundRowsOn(d)
               PROVE  Of(one, r) # {} /\ Of(other, r) # {} /\ Sold(one, r) = Sold(other, r)
    OBVIOUS
  <2>1. PICK a \in LiveOrders : /\ r.order = Catalogue[a].externalId /\ Of(one, r) # {}
                                /\ \A o \in Of(one, r) : o.businessDate = DateOf(a)
    BY RefundFindsOrder
  <2>2. PICK b \in LiveOrders : /\ r.order = Catalogue[b].externalId /\ Of(other, r) # {}
                                /\ \A o \in Of(other, r) : o.businessDate = DateOf(b)
    BY RefundFindsOrder
  <2>3. a = b
    BY <2>1, <2>2, LiveOrdersAreTyped, CatalogueAssumption
  <2> HIDE DEF Of
  <2> QED
    BY <2>1, <2>2, <2>3
<1>2. \A allocated : RefundReversal(RefundRowsOn(d), allocated, context, policy)
        = SumFunction([r \in Counted(allocated) |-> Value(r, Sold(allocated, r))])
  BY DEF RefundReversal, SumOver
<1>3. Counted(one) = Counted(other)
  BY <1>1
<1>4. \A r \in Counted(one) : Sold(one, r) = Sold(other, r)
  BY <1>1
<1> HIDE DEF Sold, Counted, Value
<1>5. [r \in Counted(one) |-> Value(r, Sold(one, r))] = [r \in Counted(other) |-> Value(r, Sold(other, r))]
  BY <1>3, <1>4
<1> QED
  BY <1>2, <1>5

LEMMA WarningsOfDay ==
  ASSUME NEW d, NEW one, NEW other, Answers(one, d), Answers(other, d),
         NEW orders, NEW expenses, NEW context, NEW policy
  PROVE  DayWarnings(orders, RefundRowsOn(d), expenses, one, context, policy, d)
           = DayWarnings(orders, RefundRowsOn(d), expenses, other, context, policy, d)
<1> DEFINE Found(allocated, r) == \E o \in allocated : o.externalId = r.order
<1> DEFINE Warn(when, code, subject, count) ==
      IF when THEN {[code |-> code, subject |-> subject, count |-> count]} ELSE {}
<1> DEFINE Unfound(allocated) ==
      UNION {Warn(~Found(allocated, r), "refund_without_original_order", {r.externalId}, 0)
               : r \in {x \in RefundRowsOn(d) : ShouldReverseCogs(policy, x.restocked)}}
<1>1. \A r \in RefundRowsOn(d) : Found(one, r) /\ Found(other, r)
  BY RefundFields DEF RefundRowsOn, Answers
<1>2. Unfound(one) = {} /\ Unfound(other) = {}
  BY <1>1
<1> DEFINE charged == {ComponentForAssumption(a) : a \in ResolveAssumptions(context.assumptions, d).orderLevel}
<1> DEFINE missing == UNION {o.missingCostVariants : o \in orders}
<1> DEFINE diverging == {o.externalId : o \in {p \in orders : p.lineTotalsDiverge}}
<1> DEFINE unattributed == SumOver(orders, LAMBDA o : o.unattributedLines)
<1> DEFINE A == Warn(missing # {}, "missing_variant_costs", missing, 0)
<1> DEFINE B == Warn(diverging # {}, "line_totals_diverge", diverging, 0)
<1> DEFINE C == Warn(unattributed > 0, "unattributed_order_lines", {}, unattributed)
<1> DEFINE D == UNION {Warn(BucketComponent[e.bucket] \in charged, "duplicated_cost_source", {e.id, d}, 0)
                         : e \in {x \in expenses : x.bucket \in DOMAIN BucketComponent}}
<1>3. \A allocated : DayWarnings(orders, RefundRowsOn(d), expenses, allocated, context, policy, d)
                       = UNION {A, B, C, D, Unfound(allocated)}
  BY DEF DayWarnings
<1> HIDE DEF Unfound, A, B, C, D
<1> QED
  BY <1>2, <1>3

(*------------------------------ the row of a day -------------------------*)
(* The day as the stored tables have it.                                      *)
Row(d) ==
  DayRow(d, PricedOn(d), RefundRowsOn(d), SpendOn(d), ExpensesOn(d),
         RefundReversal(RefundRowsOn(d), PricedOrders, LoadAllocationContext, Policy),
         DailyFixedCosts(LoadAllocationContext.assumptions, "fixed_operating", d),
         DayWarnings(PricedOn(d), RefundRowsOn(d), ExpensesOn(d), PricedOrders,
                     LoadAllocationContext, Policy, d))

(* Any facts that know the day give its one row.                              *)
LEMMA RowOfDay ==
  ASSUME NEW facts, NEW d, Knows(facts, d)
  PROVE  BuildDailyRow(d, facts, AllocateOrders(facts.orders, facts.context)) = Row(d)
<1> DEFINE allocated == AllocateOrders(facts.orders, facts.context)
<1>1. {o \in allocated : o.businessDate = d} = PricedOn(d)
  BY AllocatedOnDay
<1>2. Answers(allocated, d) /\ Answers(PricedOrders, d)
  BY AllocatedAreNamed, PricedAreNamed DEF Answers
<1>3. /\ {r \in facts.refunds : r.processedBusinessDate = d} = RefundRowsOn(d)
      /\ {s \in facts.adSpend : s.businessDate = d} = SpendOn(d)
      /\ {e \in facts.mappedExpenses : e.businessDate = d} = ExpensesOn(d)
      /\ facts.context = LoadAllocationContext /\ facts.policy = Policy
  BY DEF Knows, KnowsOrders, KnowsCosts, RefundRowsOn
<1> HIDE DEF allocated
<1>4. RefundReversal(RefundRowsOn(d), allocated, LoadAllocationContext, Policy)
        = RefundReversal(RefundRowsOn(d), PricedOrders, LoadAllocationContext, Policy)
  BY <1>2, ReversalOfDay
<1>5. DayWarnings(PricedOn(d), RefundRowsOn(d), ExpensesOn(d), allocated, LoadAllocationContext, Policy, d)
        = DayWarnings(PricedOn(d), RefundRowsOn(d), ExpensesOn(d), PricedOrders, LoadAllocationContext, Policy, d)
  BY <1>2, WarningsOfDay
<1>6. BuildDailyRow(d, facts, allocated) = Row(d)
  BY <1>1, <1>3, <1>4, <1>5 DEF BuildDailyRow, Row
<1> QED
  BY <1>6 DEF allocated

LEMMA DailyOf ==
  ASSUME NEW facts, Proper(facts.range), \A d \in EnumerateDates(facts.range) : Knows(facts, d)
  PROVE  BuildDailyFinancials(facts) = [d \in EnumerateDates(facts.range) |-> Row(d)]
<1>1. \A d \in EnumerateDates(facts.range) :
        BuildDailyRow(d, facts, AllocateOrders(facts.orders, facts.context)) = Row(d)
  BY RowOfDay
<1>2. BuildDailyFinancials(facts)
        = [d \in EnumerateDates(facts.range) |->
             BuildDailyRow(d, facts, AllocateOrders(facts.orders, facts.context))]
  BY TableIs DEF BuildDailyFinancials, BuildDailyRows
<1> QED
  BY <1>1, <1>2

LEMMA LoadedDaily ==
  ASSUME BooksInv, NEW range, Proper(range)
  PROVE  BuildDailyFinancials(LoadFacts(range)) = [d \in EnumerateDates(range) |-> Row(d)]
<1> DEFINE facts == LoadFacts(range)
<1>1. facts.range = range
  BY LoadedFields
<1>2. \A d \in EnumerateDates(range) : Knows(facts, d)
  BY LoadKnows DEF EnumerateDates, InRange, Proper
<1> HIDE DEF facts
<1>3. BuildDailyFinancials(facts) = [d \in EnumerateDates(facts.range) |-> Row(d)]
  BY <1>1, <1>2, DailyOf
<1> QED
  BY <1>1, <1>3 DEF facts

(* A day has one row, whichever range it is asked for in (reporting           *)
(* repository, normalise and daily-aggregation): for every set of books,      *)
(* every summer clock, every order, refund and cost.                          *)
THEOREM DayIsTheSameInEveryRange == Spec => []DayDoesNotDependOnRange
<1>1. ASSUME BooksInv PROVE DayDoesNotDependOnRange
  <2> DEFINE alone == Table([d \in Days |-> BuildDailyFinancials(LoadFacts(Day(d)))[d]])
  <2>1. ASSUME NEW d \in Days PROVE alone[d] = Row(d)
    <3>1. Proper(Day(d)) /\ d \in EnumerateDates(Day(d))
      BY DaysAssumption DEF Proper, Day, EnumerateDates
    <3>2. BuildDailyFinancials(LoadFacts(Day(d)))[d] = Row(d)
      BY <1>1, <3>1, LoadedDaily
    <3> QED
      BY <3>2, TableIs
  <2>2. ASSUME NEW range \in RealRanges
        PROVE  RowsAgree(BuildDailyFinancials(LoadFacts(range)), alone)
    <3>1. Proper(range) /\ EnumerateDates(range) \subseteq Days
      BY DaysAssumption DEF RealRanges, Ranges, Proper, EnumerateDates
    <3>2. BuildDailyFinancials(LoadFacts(range)) = [d \in EnumerateDates(range) |-> Row(d)]
      BY <1>1, <3>1, LoadedDaily
    <3> HIDE DEF alone
    <3> QED
      BY <2>1, <3>1, <3>2 DEF RowsAgree
  <2> HIDE DEF alone
  <2>3. \A range \in RealRanges : RowsAgree(BuildDailyFinancials(LoadFacts(range)), alone)
    BY <2>2
  <2> QED
    BY <2>3 DEF DayDoesNotDependOnRange, alone
<1> QED
  BY <1>1, BooksAreKept, PTL

(*------------------------- reports of a window ---------------------------*)
PricedIn(range) == {Priced(id) : id \in {x \in LiveOrders : InRange(DateOf(x), range)}}

KnowsAll(facts, range) ==
  /\ OrdersAreNamed(facts.orders)
  /\ facts.context = LoadAllocationContext /\ facts.policy = Policy
  /\ \A d \in Int : InRange(d, range) => Knows(facts, d)

LEMMA AllocatedWithin ==
  ASSUME NEW facts, NEW range, KnowsAll(facts, range)
  PROVE  OrdersInRange(AllocateOrders(facts.orders, facts.context), range) = PricedIn(range)
<1> DEFINE allocated == AllocateOrders(facts.orders, facts.context)
<1>1. \A o \in allocated : o.businessDate \in Int
  <2>1. \A o \in facts.orders : AllocateOrder(o, facts.context).businessDate = o.businessDate
    BY AllocatedFields
  <2>2. \A o \in facts.orders : o.businessDate \in Int
    BY LiveOrdersAreTyped DEF KnowsAll, OrdersAreNamed
  <2> QED
    BY <2>1, <2>2 DEF AllocateOrders
<1>2. \A id \in LiveOrders : DateOf(id) \in Int /\ Priced(id).businessDate = DateOf(id)
  BY LiveOrdersAreTyped, PricedFields
<1>3. \A d \in Int : InRange(d, range) => {o \in allocated : o.businessDate = d} = PricedOn(d)
  BY AllocatedOnDay DEF KnowsAll
<1> HIDE DEF allocated
<1>4. \A o \in OrdersInRange(allocated, range) : o \in PricedIn(range)
  BY <1>1, <1>3 DEF OrdersInRange, PricedIn, PricedOn, OrdersOn
<1>5. \A o \in PricedIn(range) : o \in OrdersInRange(allocated, range)
  <2> SUFFICES ASSUME NEW id \in LiveOrders, InRange(DateOf(id), range)
               PROVE  Priced(id) \in OrdersInRange(allocated, range)
    BY DEF PricedIn
  <2>1. Priced(id) \in PricedOn(DateOf(id))
    BY DEF PricedOn, OrdersOn
  <2>2. Priced(id) \in allocated
    BY <1>2, <1>3, <2>1
  <2> QED
    BY <1>2, <2>2 DEF OrdersInRange
<1> QED
  BY <1>4, <1>5 DEF allocated

(* What a report is made of, when its facts know their days.                  *)
LEMMA ReportIs ==
  ASSUME NEW facts, Proper(facts.range), KnowsAll(facts, facts.range)
  PROVE  BuildReport(facts)
           = ReportOf(facts, [d \in EnumerateDates(facts.range) |-> Row(d)], PricedIn(facts.range))
<1>1. \A d \in EnumerateDates(facts.range) : Knows(facts, d)
  BY DEF KnowsAll, EnumerateDates, InRange, Proper
<1> QED
  BY <1>1, DailyOf, AllocatedWithin DEF BuildReport

LEMMA ReportNeeds ==
  ASSUME NEW one, NEW other, one.range = other.range, one.policy = other.policy,
         one.adSpend = other.adSpend, one.mappedExpenses = other.mappedExpenses,
         NEW daily, NEW allocated
  PROVE  ReportOf(one, daily, allocated) = ReportOf(other, daily, allocated)
  BY DEF ReportOf, BuildMarketing

LEMMA LoadedOrdersAreNamed ==
  ASSUME NEW range
  PROVE  OrdersAreNamed(LoadFacts(range).orders)
<1> DEFINE ids == OrdersBehind(range)
<1> DEFINE Flag(id) == FlagIn(ids, KnownBy(ids), id)
<1>1. ids \subseteq LiveOrders
  BY DEF OrdersBehind, LoadOrders
<1>2. LoadFacts(range).orders = {FlaggedAs(id, Flag(id)) : id \in ids}
  BY LoadedFields
<1>3. \A id \in ids : /\ FlaggedAs(id, Flag(id)).externalId = Catalogue[id].externalId
                      /\ FlaggedAs(id, Flag(id)).businessDate = DateOf(id)
                      /\ FlaggedAs(id, Flag(id)).isExcluded = FALSE
  BY FlaggedFields
<1> HIDE DEF ids, Flag
<1> QED
  BY <1>1, <1>2, <1>3 DEF OrdersAreNamed

LEMMA LoadKnowsAll ==
  ASSUME BooksInv, NEW range, Proper(range), NEW inner, Within(inner, range)
  PROVE  /\ KnowsAll(LoadFacts(range), inner)
         /\ KnowsAll(NarrowFacts(LoadFacts(range), inner), inner)
<1>1. \A d \in Int : InRange(d, inner) => Knows(LoadFacts(range), d)
  BY LoadKnows DEF Within
<1>2. \A d \in Int : InRange(d, inner) => Knows(NarrowFacts(LoadFacts(range), inner), d)
  BY NarrowKnows
<1> QED
  BY <1>1, <1>2, LoadedFields, NarrowFields, LoadedOrdersAreNamed DEF KnowsAll

LEMMA WithinItself == \A range : Within(range, range)
  BY DEF Within

(* The report of a bucket, cut out of facts loaded for more, is the report of *)
(* the bucket.                                                                *)
LEMMA NarrowedReport ==
  ASSUME BooksInv, NEW range, Proper(range), NEW inner, Proper(inner), Within(inner, range)
  PROVE  BuildReport(NarrowFacts(LoadFacts(range), inner)) = Report(inner)
<1> DEFINE cut == NarrowFacts(LoadFacts(range), inner)
<1> DEFINE own == LoadFacts(inner)
<1> DEFINE daily == [d \in EnumerateDates(inner) |-> Row(d)]
<1>1. /\ cut.range = inner /\ own.range = inner
      /\ cut.policy = Policy /\ own.policy = Policy
      /\ own.adSpend = LoadAdSpend(inner) /\ own.mappedExpenses = LoadMappedExpenses(inner)
  BY NarrowFields, LoadedFields
<1>2. cut.adSpend = LoadAdSpend(inner) /\ cut.mappedExpenses = LoadMappedExpenses(inner)
  <2>1. /\ {s \in LoadAdSpend(range) : InRange(s.businessDate, inner)} = LoadAdSpend(inner)
        /\ {e \in LoadMappedExpenses(range) : InRange(e.businessDate, inner)} = LoadMappedExpenses(inner)
    BY SpendWithin, ExpensesWithin
  <2>2. /\ cut.adSpend = {s \in LoadAdSpend(range) : InRange(s.businessDate, inner)}
        /\ cut.mappedExpenses = {e \in LoadMappedExpenses(range) : InRange(e.businessDate, inner)}
    BY NarrowFields
  <2> HIDE DEF cut
  <2> QED
    BY <2>1, <2>2
<1>3. KnowsAll(cut, inner) /\ KnowsAll(own, inner)
  BY LoadKnowsAll, WithinItself
<1> HIDE DEF cut, own
<1>4. /\ BuildReport(cut) = ReportOf(cut, daily, PricedIn(inner))
      /\ BuildReport(own) = ReportOf(own, daily, PricedIn(inner))
  BY <1>1, <1>3, ReportIs
<1> HIDE DEF daily
<1>5. ReportOf(cut, daily, PricedIn(inner)) = ReportOf(own, daily, PricedIn(inner))
  BY <1>1, <1>2, ReportNeeds
<1> QED
  BY <1>4, <1>5 DEF Report, cut, own

(*-------------------------------- buckets --------------------------------*)
LEMMA EndsExist ==
  ASSUME NEW S, IsFiniteSet(S), S \subseteq Int, S # {}
  PROVE  /\ Min(S) \in S /\ \A x \in S : Min(S) <= x
         /\ Max(S) \in S /\ \A x \in S : x <= Max(S)
<1> DEFINE Holds == {V \in SUBSET S : V # {} => /\ \E m \in V : \A x \in V : m <= x
                                                /\ \E m \in V : \A x \in V : m >= x}
<1>1. {} \in Holds
  OBVIOUS
<1>2. ASSUME NEW V \in SUBSET S, NEW y \in S \ V, V \in Holds PROVE V \cup {y} \in Holds
  <2>1. CASE V = {}
    BY <2>1
  <2>2. CASE V # {}
    <3>1. PICK low \in V : \A x \in V : low <= x
      BY <1>2, <2>2
    <3>2. PICK high \in V : \A x \in V : high >= x
      BY <1>2, <2>2
    <3>3. \E m \in V \cup {y} : \A x \in V \cup {y} : m <= x
      <4>1. CASE low <= y
        BY <3>1, <4>1
      <4>2. CASE ~(low <= y)
        <5>1. \A x \in V : y <= x
          BY <3>1, <4>2
        <5> QED
          BY <5>1
      <4> QED
        BY <4>1, <4>2
    <3>4. \E m \in V \cup {y} : \A x \in V \cup {y} : m >= x
      <4>1. CASE high >= y
        BY <3>2, <4>1
      <4>2. CASE ~(high >= y)
        <5>1. \A x \in V : y >= x
          BY <3>2, <4>2
        <5> QED
          BY <5>1
      <4> QED
        BY <4>1, <4>2
    <3> QED
      BY <3>3, <3>4
  <2> QED
    BY <2>1, <2>2
<1> HIDE DEF Holds
<1>3. S \in Holds
  BY <1>1, <1>2, OneByOne
<1>4. (\E m \in S : \A x \in S : m <= x) /\ (\E m \in S : \A x \in S : m >= x)
  BY <1>3 DEF Holds
<1>5. (Min(S) \in S /\ \A x \in S : Min(S) <= x) /\ (Max(S) \in S /\ \A x \in S : Max(S) >= x)
  BY <1>4 DEF Min, Max
<1> QED
  BY <1>5

LEMMA BucketsWithin ==
  ASSUME NEW range, Proper(range), NEW grain, NEW bucket \in BucketRanges(range, grain)
  PROVE  Proper(bucket) /\ Within(bucket, range)
<1> DEFINE Key(d) == CASE grain = "day" -> d
                       [] grain = "total" -> range.from
                       [] OTHER -> PeriodStart(grain, d)
<1> DEFINE Of(key) == {d \in EnumerateDates(range) : Key(d) = key}
<1>1. BucketRanges(range, grain)
        = {[from |-> Min(Of(key)), to |-> Max(Of(key))] : key \in {Key(d) : d \in EnumerateDates(range)}}
  BY Zenon DEF BucketRanges
<1> HIDE DEF Key
<1>2. PICK d \in EnumerateDates(range) : bucket = [from |-> Min(Of(Key(d))), to |-> Max(Of(Key(d)))]
  BY <1>1
<1> DEFINE S == Of(Key(d))
<1>3. S \subseteq EnumerateDates(range) /\ d \in S
  OBVIOUS
<1>4. IsFiniteSet(EnumerateDates(range)) /\ EnumerateDates(range) \subseteq Int
  BY FS_Interval DEF EnumerateDates, Proper
<1>5. bucket.from = Min(S) /\ bucket.to = Max(S)
  BY <1>2
<1> HIDE DEF S
<1>6. IsFiniteSet(S) /\ S \subseteq Int /\ S # {}
  BY <1>3, <1>4, FS_Subset
<1>7. Min(S) \in S /\ Max(S) \in S
  BY <1>6, EndsExist
<1>8. bucket.from \in range.from .. range.to /\ bucket.to \in range.from .. range.to
  BY <1>3, <1>5, <1>7 DEF EnumerateDates
<1>9. /\ bucket.from \in Int /\ bucket.to \in Int /\ range.from \in Int /\ range.to \in Int
      /\ range.from <= bucket.from /\ bucket.to <= range.to
  BY <1>8 DEF Proper
<1> QED
  BY <1>9 DEF Proper, Within, InRange

(* A bucket of a custom report shows what the dashboard shows for its dates   *)
(* (series.ts against report.ts), for every set of books and every calendar.  *)
THEOREM BucketsShowTheDashboard == Spec => []BucketsAgreeWithDashboard
<1>1. ASSUME BooksInv PROVE BucketsAgreeWithDashboard
  <2> DEFINE range == [from |-> Min(Days), to |-> Max(Days)]
  <2>1. Proper(range)
    BY DaysAssumption, EndsExist DEF Proper
  <2>2. ASSUME NEW grain \in {"week", "month"} PROVE SeriesAgrees(ReportsPage(range, grain))
    <3> DEFINE series == ReportsPage(range, grain)
    <3>1. LoadFacts(range).range = range
      BY LoadedFields
    <3> HIDE DEF range
    <3>2. series = [bucket \in BucketRanges(range, grain) |->
                      BuildObservations(BuildReport(NarrowFacts(LoadFacts(range), bucket)), NoCash, FALSE, <<>>)]
      BY <3>1 DEF ReportsPage, BuildPeriodSeries
    <3>3. \A bucket \in BucketRanges(range, grain) :
            BuildReport(NarrowFacts(LoadFacts(range), bucket)) = Report(bucket)
      BY <1>1, <2>1, BucketsWithin, NarrowedReport
    <3> QED
      BY <3>2, <3>3 DEF SeriesAgrees
  <2> HIDE DEF range
  <2>3. \A grain \in {"week", "month"} : SeriesAgrees(ReportsPage(range, grain))
    BY <2>2
  <2> QED
    BY <2>3 DEF BucketsAgreeWithDashboard, range
<1> QED
  BY <1>1, BooksAreKept, PTL

(*---------------------------- sheet and screen ---------------------------*)
LEMMA ReportFields ==
  ASSUME BooksInv, NEW range, Proper(range)
  PROVE  /\ Report(range).allocated = PricedIn(range)
         /\ Report(range).daily = [d \in EnumerateDates(range) |-> Row(d)]
<1> DEFINE facts == LoadFacts(range)
<1>1. facts.range = range /\ KnowsAll(facts, range)
  BY LoadedFields, LoadKnowsAll, WithinItself
<1> HIDE DEF facts
<1>2. BuildReport(facts) = ReportOf(facts, [d \in EnumerateDates(range) |-> Row(d)], PricedIn(range))
  BY <1>1, ReportIs
<1>3. \A daily, allocated : /\ ReportOf(facts, daily, allocated).allocated = allocated
                            /\ ReportOf(facts, daily, allocated).daily = daily
  BY DEF ReportOf
<1> QED
  BY <1>2, <1>3 DEF Report, facts

(* Every live order of the window is in the range.                            *)
HoldsOrdersOf(range, window) ==
  \A id \in LiveOrders : InRange(DateOf(id), window) => InRange(DateOf(id), range)

LEMMA WindowOfReport ==
  ASSUME BooksInv, NEW range, Proper(range), NEW window, HoldsOrdersOf(range, window)
  PROVE  OrdersInRange(Report(range).allocated, window) = PricedIn(window)
<1>1. Report(range).allocated = PricedIn(range)
  BY ReportFields
<1>2. \A id \in LiveOrders : Priced(id).businessDate = DateOf(id)
  BY PricedFields
<1>3. OrdersInRange(PricedIn(range), window) \subseteq PricedIn(window)
  BY <1>2 DEF OrdersInRange, PricedIn
<1>4. PricedIn(window) \subseteq OrdersInRange(PricedIn(range), window)
  BY <1>2 DEF OrdersInRange, PricedIn, HoldsOrdersOf
<1> QED
  BY <1>1, <1>3, <1>4

(* The full history holds every live order up to the day it is asked on.      *)
LEMMA HistoryHolds ==
  ASSUME BooksInv, NEW today \in Int
  PROVE  /\ Proper(FullHistoryRange(today))
         /\ FullHistoryRange(today).to = today
         /\ \A id \in LiveOrders : DateOf(id) <= today => InRange(DateOf(id), FullHistoryRange(today))
<1> DEFINE Instants == {Catalogue[id].orderedAt : id \in LiveOrders}
<1> DEFINE range == FullHistoryRange(today)
<1>1. range.to = today /\ range.from = IF LiveOrders = {} THEN today ELSE BusinessDate(Min(Instants))
  BY DEF FullHistoryRange
<1> HIDE DEF range
<1>2. CASE LiveOrders = {}
  BY <1>1, <1>2 DEF Proper, range
<1>3. CASE LiveOrders # {}
  <2>1. IsFiniteSet(LiveOrders)
    BY CatalogueAssumption, FS_Subset DEF LiveOrders, StoredIn, IdsOf
  <2> DEFINE at == [id \in LiveOrders |-> Catalogue[id].orderedAt]
  <2>2. Instants = {at[x] : x \in LiveOrders}
    OBVIOUS
  <2>3. IsFiniteSet(Instants) /\ Instants # {} /\ Instants \subseteq Int
    <3>1. Instants # {} /\ Instants \subseteq Int
      BY <1>3, LiveOrdersAreTyped
    <3> HIDE DEF at, Instants
    <3>2. IsFiniteSet(Instants)
      BY <2>1, <2>2, ImageIsFinite
    <3> QED
      BY <3>1, <3>2
  <2> HIDE DEF Instants, at
  <2>4. Min(Instants) \in Instants /\ \A x \in Instants : Min(Instants) <= x
    BY <2>3, EndsExist
  <2>5. Min(Instants) \in Int
    BY <2>3, <2>4
  <2>6. ASSUME NEW id \in LiveOrders PROVE BusinessDate(Min(Instants)) \in Int /\ BusinessDate(Min(Instants)) <= DateOf(id)
    <3>1. Catalogue[id].orderedAt \in Instants
      BY DEF Instants
    <3>2. Catalogue[id].orderedAt \in Int /\ Min(Instants) <= Catalogue[id].orderedAt
      BY <2>3, <2>4, <3>1
    <3> QED
      BY <2>5, <3>2, DatesInOrder DEF DateOf
  <2>7. BusinessDate(Min(Instants)) \in Int
    BY <1>3, <2>6
  <2> QED
    BY <1>1, <1>3, <2>6, <2>7 DEF Proper, InRange, range
<1> QED
  BY <1>2, <1>3

LEMMA StockNeeds ==
  ASSUME NEW positions, NEW one, NEW other, NEW profiles, NEW asOf, NEW alertWindow,
         \A w \in {7, 30} : OrdersInRange(one, RangeEndingOn(asOf, w)) = OrdersInRange(other, RangeEndingOn(asOf, w))
  PROVE  BuildInventoryPositions(positions, one, profiles, asOf, alertWindow)
           = BuildInventoryPositions(positions, other, profiles, asOf, alertWindow)
<1>1. \A v : \A w \in {7, 30} :
        UnitsSold(one, v, RangeEndingOn(asOf, w)) = UnitsSold(other, v, RangeEndingOn(asOf, w))
  BY DEF UnitsSold
<1>2. alertWindow = 30 \/ alertWindow # 30
  OBVIOUS
<1> QED
  BY <1>1, <1>2 DEF BuildInventoryPositions

(* Every figure of the workbook is the figure on screen, although the export  *)
(* loads its history from the exported range (sheets-export.ts) and the stock *)
(* page from the first order: for every set of books and every day.           *)
THEOREM SheetShowsTheScreen == Spec => []SheetAgreesWithScreen
<1>1. ASSUME BooksInv PROVE SheetAgreesWithScreen
  <2> DEFINE range == RangeEndingOn(Today, DefaultExportDays)
  <2> DEFINE exported == [from |-> EarliestDate(range, Today), to |-> Today]
  <2> DEFINE profiles == LoadAllocationContext.profiles
  <2> DEFINE Stock(orders) == BuildInventoryPositions(LoadInventoryPositions(Today), orders, profiles,
                                                      Today, Policy.inventoryAlertWindowDays)
  <2> DEFINE cash == LoadCash(RangeEndingOn(Today, BurnWindowDays))
  <2> DEFINE position == BuildCashPosition(Today,
               IF cash.bankBalance = NotAvailable THEN 0 ELSE cash.bankBalance[1],
               cash.commitments, cash.movements, CommitmentHorizonDays, BurnWindowDays)
  <2> DEFINE history == FullHistoryRange(Today)
  <2>1. Proper(exported) /\ exported.from = Today - 89 /\ exported.to = Today
    BY DaysAssumption DEF Proper, RangeEndingOn, EarliestDate, DefaultExportDays
  <2>2. Proper(history) /\ history.to = Today
        /\ \A id \in LiveOrders : DateOf(id) <= Today => InRange(DateOf(id), history)
    BY <1>1, DaysAssumption, HistoryHolds
  <2> HIDE DEF exported, history
  <2>3. ASSUME NEW w \in {7, 30}
        PROVE  /\ HoldsOrdersOf(exported, RangeEndingOn(Today, w))
               /\ HoldsOrdersOf(history, RangeEndingOn(Today, w))
    <3>1. \A id \in LiveOrders : DateOf(id) \in Int
      BY LiveOrdersAreTyped
    <3> QED
      BY <2>1, <2>2, <3>1, DaysAssumption DEF HoldsOrdersOf, RangeEndingOn, InRange
  <2>4. \A w \in {7, 30} : OrdersInRange(Report(exported).allocated, RangeEndingOn(Today, w))
                             = OrdersInRange(Report(history).allocated, RangeEndingOn(Today, w))
    BY <1>1, <2>1, <2>2, <2>3, WindowOfReport
  <2> HIDE DEF profiles
  <2>5. Stock(Report(exported).allocated) = Stock(Report(history).allocated)
    BY <2>4, StockNeeds
  <2>6. StockPage(Today) = Stock(Report(history).allocated)
    BY DEF StockPage, History, history, profiles
  <2> HIDE DEF Stock, cash
  <2> DEFINE in == ExportInput(range, Today)
  <2>7. in = InputOf(Today, Report(range), StockPage(Today), cash, position)
    BY <2>5, <2>6 DEF ExportInput, exported, Stock, profiles, cash
  <2>8. CashPage(Today).position = position /\ CashPage(Today).connected = (cash.bankBalance # NotAvailable)
    BY DEF CashPage, cash
  <2> HIDE DEF position, in, range
  <2>9. /\ in.report = Report(range) /\ in.cash = position /\ in.inventory = StockPage(Today)
        /\ in.hasReportedBankBalance = (cash.bankBalance # NotAvailable)
        /\ in.observations = BuildObservations(Report(range), position, cash.bankBalance # NotAvailable,
                                               StockPage(Today))
    BY <2>7 DEF InputOf
  <2>10. /\ BuildWorkbook(in).inventory = in.inventory
         /\ BuildWorkbook(in).cash = (IF in.hasReportedBankBalance THEN <<in.cash>> ELSE NotAvailable)
         /\ BuildWorkbook(in).monthly = MonthlyTab(in.report.daily)
    BY DEF BuildWorkbook, CashTab
  <2>11. ProfitAndLossPage(Report(range)).byMonth = SummariseByMonth(Report(range).daily)
    BY DEF ProfitAndLossPage
  <2>12. \A daily : \A m \in DOMAIN MonthlyTab(daily) :
           MonthlyTab(daily)[m].total = SummariseByMonth(daily)[m].total
    BY DEF MonthlyTab, Cells
  <2>13. ShowsTheSame(in, StockPage(Today), CashPage(Today), Report(range))
    BY <2>8, <2>9, <2>10, <2>11, <2>12 DEF ShowsTheSame
  <2> QED
    BY <2>13 DEF SheetAgreesWithScreen, in, range
<1> QED
  BY <1>1, BooksAreKept, PTL

(*-------------------------------- cohorts --------------------------------*)
LEMMA PeriodIs ==
  ASSUME NEW unit \in Units, NEW d \in Int, CalendarHolds(unit, d)
  PROVE  /\ PeriodStart(unit, d) \in Starts[unit] /\ PeriodStart(unit, d) \in Int
         /\ PeriodStart(unit, d) <= d
         /\ \A s \in Starts[unit] : s <= d => s <= PeriodStart(unit, d)
         /\ PeriodEnd(unit, d) \in Int /\ d <= PeriodEnd(unit, d)
         /\ PeriodEnd(unit, d) + 1 \in Starts[unit]
         /\ \A s \in Starts[unit] : s > d => PeriodEnd(unit, d) + 1 <= s
<1> DEFINE Before == {s \in Starts[unit] : s <= d}
<1> DEFINE After == {s \in Starts[unit] : s > d}
<1>1. Starts[unit] \subseteq Int
  BY StartsAssumption
<1>2. PICK a \in Before : \A s \in Before : s <= a
  BY DEF CalendarHolds
<1>3. PICK b \in After : \A s \in After : b <= s
  BY DEF CalendarHolds
<1>4. Before \subseteq Int /\ After \subseteq Int
  BY <1>1
<1>5. PeriodStart(unit, d) = Max(Before) /\ PeriodEnd(unit, d) = Min(After) - 1
  BY DEF PeriodStart, PeriodEnd
<1>6. Max(Before) = a
  <2> HIDE DEF Before
  <2>1. \A s \in Before : a >= s
    BY <1>2, <1>4
  <2>2. Max(Before) \in Before /\ \A s \in Before : Max(Before) >= s
    BY <1>2, <2>1 DEF Max
  <2>3. Max(Before) \in Int /\ a \in Int /\ Max(Before) >= a /\ a >= Max(Before)
    BY <1>2, <1>4, <2>1, <2>2
  <2> QED
    BY <2>3
<1>7. Min(After) = b
  <2> HIDE DEF After
  <2> QED
    BY <1>3, <1>4, LeastOf
<1>8. /\ a \in Int /\ a <= d /\ a \in Starts[unit]
      /\ \A s \in Starts[unit] : s <= d => s <= a
  BY <1>1, <1>2
<1>9. /\ b - 1 \in Int /\ d <= b - 1 /\ (b - 1) + 1 = b /\ b \in Starts[unit]
      /\ \A s \in Starts[unit] : s > d => b <= s
  BY <1>1, <1>3
<1>10. PeriodStart(unit, d) = a /\ PeriodEnd(unit, d) = b - 1
  BY <1>5, <1>6, <1>7
<1> QED
  BY <1>8, <1>9, <1>10

(* Two days of one period end with it.                                        *)
LEMMA PeriodEndsIt ==
  ASSUME NEW unit \in Units, NEW d \in Int, CalendarHolds(unit, d),
         NEW e \in Int, CalendarHolds(unit, e), PeriodStart(unit, e) = PeriodStart(unit, d)
  PROVE  e <= PeriodEnd(unit, d)
<1> DEFINE next == PeriodEnd(unit, d) + 1
<1>1. /\ PeriodEnd(unit, d) \in Int /\ next \in Starts[unit] /\ next \in Int /\ d < next
      /\ PeriodStart(unit, d) \in Int /\ PeriodStart(unit, d) <= d
  BY PeriodIs
<1>2. next <= e => next <= PeriodStart(unit, e)
  BY <1>1, PeriodIs
<1> QED
  BY <1>1, <1>2

(* The customers of the live orders by a day, and when each first bought.     *)
LiveBy(d) == {id \in LiveOrders : DateOf(id) <= d}
PricedBy(d) == {Priced(id) : id \in LiveBy(d)}
DatesBy(c, d) == {o.businessDate : o \in OrdersOf(PricedBy(d), c)}
FirstBy(d) == [c \in CustomersOf(PricedBy(d)) |-> Min(DatesBy(c, d))]
MembersBy(m, d) == {c \in CustomersOf(PricedBy(d)) : PeriodStart("month", FirstBy(d)[c]) = m}
WindowOrders(m, d, days) ==
  {o \in PricedBy(d) : o.customer \in MembersBy(m, d) /\ o.businessDate <= FirstBy(d)[o.customer] + days}

LEMMA HistoryIs ==
  ASSUME BooksInv, NEW d \in Int
  PROVE  History(d).allocated = PricedBy(d)
<1> DEFINE range == FullHistoryRange(d)
<1>1. Proper(range) /\ range.to = d /\ \A id \in LiveOrders : DateOf(id) <= d => InRange(DateOf(id), range)
  BY HistoryHolds
<1> HIDE DEF range
<1>2. Report(range).allocated = PricedIn(range)
  BY <1>1, ReportFields
<1>3. PricedIn(range) = PricedBy(d)
  BY <1>1 DEF PricedIn, PricedBy, LiveBy, InRange
<1> QED
  BY <1>2, <1>3 DEF History, range

LEMMA CohortsBy ==
  ASSUME NEW d, NEW days
  PROVE  LET cohorts == BuildCustomerCohorts(PricedBy(d), d, {days})
         IN  /\ DOMAIN cohorts = {PeriodStart("month", FirstBy(d)[c]) : c \in CustomersOf(PricedBy(d))}
             /\ \A m \in DOMAIN cohorts :
                  /\ cohorts[m].windows[days].revenue = NetOf(WindowOrders(m, d, days))
                  /\ cohorts[m].windows[days].isComplete
                       = (Max({FirstBy(d)[c] : c \in MembersBy(m, d)}) + days <= d)
<1> DEFINE orders == PricedBy(d)
<1> DEFINE first == Table([c \in CustomersOf(orders) |-> Min({o.businessDate : o \in OrdersOf(orders, c)})])
<1> DEFINE Members(m) == {c \in DOMAIN first : PeriodStart("month", first[c]) = m}
<1> DEFINE Theirs(m) == {o \in orders : o.customer \in Members(m)}
<1> DEFINE Cohort(m) ==
        [customers |-> Cardinality(Members(m)),
         firstOrderRevenue |-> NetOf({o \in Theirs(m) : o.businessDate = first[o.customer]}),
         windows |-> [x \in {days} |->
           [revenue |-> NetOf({o \in Theirs(m) : o.businessDate <= first[o.customer] + x}),
            isComplete |-> WindowIsComplete({first[c] : c \in Members(m)}, x, d)]],
         revenuePerCustomer |-> Ratio(NetOf(Theirs(m)), Cardinality(Members(m)))]
<1>2. BuildCustomerCohorts(orders, d, {days}) = [m \in {PeriodStart("month", first[c]) : c \in DOMAIN first} |-> Cohort(m)]
  BY Zenon DEF BuildCustomerCohorts
<1>3. first = FirstBy(d) /\ DOMAIN first = CustomersOf(orders)
  BY TableIs DEF FirstBy, DatesBy
<1>4. \A m : Members(m) = MembersBy(m, d)
  BY <1>3 DEF MembersBy
<1>5. \A m : {o \in Theirs(m) : o.businessDate <= first[o.customer] + days} = WindowOrders(m, d, days)
  BY <1>3, <1>4 DEF WindowOrders
<1>6. \A m : /\ Cohort(m).windows[days].revenue = NetOf({o \in Theirs(m) : o.businessDate <= first[o.customer] + days})
             /\ Cohort(m).windows[days].isComplete = WindowIsComplete({first[c] : c \in Members(m)}, days, d)
  OBVIOUS
<1> HIDE DEF first, Cohort, Members, Theirs
<1>7. \A m : /\ Cohort(m).windows[days].revenue = NetOf(WindowOrders(m, d, days))
             /\ Cohort(m).windows[days].isComplete
                  = (Max({FirstBy(d)[c] : c \in MembersBy(m, d)}) + days <= d)
  BY <1>3, <1>4, <1>5, <1>6 DEF WindowIsComplete
<1>8. {PeriodStart("month", first[c]) : c \in DOMAIN first}
        = {PeriodStart("month", FirstBy(d)[c]) : c \in CustomersOf(PricedBy(d))}
  BY <1>3
<1> DEFINE cohorts == BuildCustomerCohorts(PricedBy(d), d, {days})
<1> DEFINE Months == {PeriodStart("month", first[c]) : c \in DOMAIN first}
<1>9. cohorts = [m \in Months |-> Cohort(m)]
  BY <1>2
<1> HIDE DEF cohorts, Months
<1>10. DOMAIN cohorts = Months /\ \A m \in DOMAIN cohorts : cohorts[m] = Cohort(m)
  BY <1>9
<1>11. \A m \in DOMAIN cohorts :
         /\ cohorts[m].windows[days].revenue = NetOf(WindowOrders(m, d, days))
         /\ cohorts[m].windows[days].isComplete
              = (Max({FirstBy(d)[c] : c \in MembersBy(m, d)}) + days <= d)
  BY <1>7, <1>10
<1> QED
  BY <1>8, <1>10, <1>11 DEF cohorts, Months

LEMMA PricedDates ==
  ASSUME NEW d \in Int, NEW o \in PricedBy(d)
  PROVE  o.businessDate \in Int /\ o.businessDate <= d /\ o.businessDate \in OrderDates
<1>1. PICK id \in LiveBy(d) : o = Priced(id)
  BY DEF PricedBy
<1>2. id \in LiveOrders /\ DateOf(id) <= d
  BY DEF LiveBy
<1>3. id \in IdsOf("orders") /\ DateOf(id) \in Int
  BY <1>2, LiveOrdersAreTyped
<1>4. DateOf(id) \in OrderDates
  BY <1>3 DEF OrderDates, DateOf
<1>5. o.businessDate = DateOf(id)
  BY <1>1, PricedFields
<1> QED
  BY <1>2, <1>3, <1>4, <1>5

LEMMA OrderDatesAreFinite == IsFiniteSet(OrderDates) /\ OrderDates \subseteq Int
<1> DEFINE date == [id \in IdsOf("orders") |-> BusinessDate(Catalogue[id].orderedAt)]
<1>1. OrderDates = {date[id] : id \in IdsOf("orders")}
  BY DEF OrderDates
<1>2. IsFiniteSet(IdsOf("orders"))
  BY CatalogueAssumption, FS_Subset DEF IdsOf
<1>3. OrderDates \subseteq Int
  BY CatalogueAssumption, DatesInOrder DEF OrderDates
<1> HIDE DEF date
<1> QED
  BY <1>1, <1>2, <1>3, ImageIsFinite

LEMMA FirstIs ==
  ASSUME NEW d \in Int, NEW c \in CustomersOf(PricedBy(d))
  PROVE  /\ FirstBy(d)[c] \in DatesBy(c, d) /\ \A x \in DatesBy(c, d) : FirstBy(d)[c] <= x
         /\ FirstBy(d)[c] \in Int /\ FirstBy(d)[c] <= d /\ FirstBy(d)[c] \in OrderDates
<1>1. DatesBy(c, d) # {}
  BY DEF CustomersOf, DatesBy, OrdersOf
<1>2. \A x \in DatesBy(c, d) : x \in Int /\ x <= d /\ x \in OrderDates
  BY PricedDates DEF DatesBy, OrdersOf
<1>3. IsFiniteSet(DatesBy(c, d)) /\ DatesBy(c, d) \subseteq Int
  BY <1>2, OrderDatesAreFinite, FS_Subset
<1>4. FirstBy(d)[c] = Min(DatesBy(c, d))
  BY DEF FirstBy
<1>5. Min(DatesBy(c, d)) \in DatesBy(c, d) /\ \A x \in DatesBy(c, d) : Min(DatesBy(c, d)) <= x
  BY <1>1, <1>3, EndsExist
<1> QED
  BY <1>2, <1>4, <1>5

(* Trading on changes no first order.                                         *)
LEMMA FirstStays ==
  ASSUME NEW d \in Int, NEW later \in Int, d <= later
  PROVE  /\ \A o : o \in PricedBy(d) <=> o \in PricedBy(later) /\ o.businessDate <= d
         /\ \A c \in CustomersOf(PricedBy(d)) :
              c \in CustomersOf(PricedBy(later)) /\ FirstBy(later)[c] = FirstBy(d)[c]
         /\ \A c \in CustomersOf(PricedBy(later)) :
              FirstBy(later)[c] <= d => c \in CustomersOf(PricedBy(d))
<1>1. \A o : o \in PricedBy(d) <=> o \in PricedBy(later) /\ o.businessDate <= d
  <2>1. \A id \in LiveOrders : Priced(id).businessDate = DateOf(id) /\ DateOf(id) \in Int
    BY PricedFields, LiveOrdersAreTyped
  <2> QED
    BY <2>1 DEF PricedBy, LiveBy
<1>2. ASSUME NEW c \in CustomersOf(PricedBy(d))
      PROVE  c \in CustomersOf(PricedBy(later)) /\ FirstBy(later)[c] = FirstBy(d)[c]
  <2>1. c \in CustomersOf(PricedBy(later))
    BY <1>1 DEF CustomersOf
  <2>2. FirstBy(d)[c] \in DatesBy(c, d) /\ FirstBy(d)[c] \in Int /\ FirstBy(d)[c] <= d
        /\ \A x \in DatesBy(c, d) : FirstBy(d)[c] <= x
    BY FirstIs
  <2>3. FirstBy(later)[c] \in DatesBy(c, later) /\ FirstBy(later)[c] \in Int
        /\ \A x \in DatesBy(c, later) : FirstBy(later)[c] <= x
    BY <2>1, FirstIs
  <2>4. FirstBy(d)[c] \in DatesBy(c, later)
    BY <1>1, <2>2 DEF DatesBy, OrdersOf
  <2>5. FirstBy(later)[c] <= FirstBy(d)[c]
    BY <2>3, <2>4
  <2>6. FirstBy(later)[c] <= d
    BY <2>2, <2>3, <2>5
  <2>7. FirstBy(later)[c] \in DatesBy(c, d)
    BY <1>1, <2>3, <2>6 DEF DatesBy, OrdersOf
  <2>8. FirstBy(d)[c] <= FirstBy(later)[c]
    BY <2>2, <2>7
  <2> QED
    BY <2>1, <2>2, <2>3, <2>5, <2>8
<1>3. ASSUME NEW c \in CustomersOf(PricedBy(later)), FirstBy(later)[c] <= d
      PROVE  c \in CustomersOf(PricedBy(d))
  <2>1. FirstBy(later)[c] \in DatesBy(c, later)
    BY FirstIs
  <2>2. PICK o \in PricedBy(later) : o.customer = c /\ o.businessDate = FirstBy(later)[c]
    BY <2>1 DEF DatesBy, OrdersOf
  <2>3. o \in PricedBy(d)
    BY <1>1, <1>3, <2>2
  <2> QED
    BY <2>2, <2>3 DEF CustomersOf
<1> QED
  BY <1>1, <1>2, <1>3

LongestMonth == Max({PeriodEnd("month", d) - PeriodStart("month", d) : d \in Days \cup OrderDates})

LEMMA MonthsAreShort ==
  /\ LongestMonth \in Int
  /\ \A d \in Days \cup OrderDates : PeriodEnd("month", d) - PeriodStart("month", d) <= LongestMonth
<1> DEFINE S == Days \cup OrderDates
<1> DEFINE length == [d \in S |-> PeriodEnd("month", d) - PeriodStart("month", d)]
<1> DEFINE Lengths == {length[d] : d \in S}
<1>1. IsFiniteSet(S) /\ S # {} /\ S \subseteq Int
  BY DaysAssumption, OrderDatesAreFinite, FS_Union
<1>2. \A d \in S : length[d] \in Int
  BY <1>1, CalendarAssumption, PeriodIs DEF Units
<1>3. {PeriodEnd("month", d) - PeriodStart("month", d) : d \in Days \cup OrderDates} = Lengths
  OBVIOUS
<1>4. LongestMonth = Max(Lengths)
  BY <1>3 DEF LongestMonth
<1>5. \A d \in S : length[d] = PeriodEnd("month", d) - PeriodStart("month", d)
  OBVIOUS
<1> HIDE DEF length, S
<1>6. Lengths # {} /\ Lengths \subseteq Int
  BY <1>1, <1>2
<1>7. IsFiniteSet(Lengths)
  BY <1>1, ImageIsFinite
<1> HIDE DEF Lengths
<1>8. Max(Lengths) \in Lengths /\ \A x \in Lengths : x <= Max(Lengths)
  BY <1>6, <1>7, EndsExist
<1>9. \A d \in S : length[d] <= Max(Lengths)
  BY <1>8 DEF Lengths
<1> QED
  BY <1>4, <1>5, <1>6, <1>8, <1>9 DEF S

LEMMA CompleteWindowStays ==
  ASSUME NEW d \in Int, NEW later \in Int, d <= later, NEW m,
         NEW c0 \in MembersBy(m, d),
         Max({FirstBy(d)[c] : c \in MembersBy(m, d)}) + LongestMonth <= d
  PROVE  WindowOrders(m, later, LongestMonth) = WindowOrders(m, d, LongestMonth)
<1> DEFINE Firsts == {FirstBy(d)[c] : c \in MembersBy(m, d)}
<1>1. \A c \in MembersBy(m, d) : /\ FirstBy(d)[c] \in Int /\ FirstBy(d)[c] <= d /\ FirstBy(d)[c] \in OrderDates
                                 /\ PeriodStart("month", FirstBy(d)[c]) = m
  BY FirstIs DEF MembersBy
<1>2. Firsts # {} /\ Firsts \subseteq OrderDates /\ Firsts \subseteq Int
  BY <1>1
<1>3. IsFiniteSet(Firsts)
  BY <1>2, OrderDatesAreFinite, FS_Subset
<1>4. Max(Firsts) \in Int /\ \A x \in Firsts : x <= Max(Firsts)
  <2> HIDE DEF Firsts
  <2> QED
    BY <1>2, <1>3, EndsExist
<1>5. \A c \in MembersBy(m, d) : FirstBy(d)[c] + LongestMonth <= d
  <2>1. Max(Firsts) + LongestMonth <= d
    OBVIOUS
  <2>2. \A c \in MembersBy(m, d) : FirstBy(d)[c] \in Int /\ FirstBy(d)[c] <= Max(Firsts)
    BY <1>1, <1>4
  <2> HIDE DEF Firsts
  <2> QED
    BY <1>4, <2>1, <2>2, MonthsAreShort
<1> DEFINE f == FirstBy(d)[c0]
<1>6. f \in Int /\ f \in OrderDates /\ PeriodStart("month", f) = m /\ f + LongestMonth <= d
  BY <1>1, <1>5
<1> HIDE DEF f
<1>7. CalendarHolds("month", f) /\ "month" \in Units
  BY <1>6, CalendarAssumption DEF Units
<1>8. /\ m \in Int /\ m <= f /\ PeriodEnd("month", f) \in Int
      /\ PeriodEnd("month", f) - m <= LongestMonth /\ LongestMonth \in Int
  BY <1>6, <1>7, PeriodIs, MonthsAreShort
<1>9. PeriodEnd("month", f) <= d
  BY <1>6, <1>8
<1>10. MembersBy(m, d) \subseteq MembersBy(m, later)
  BY FirstStays DEF MembersBy
<1>11. MembersBy(m, later) \subseteq MembersBy(m, d)
  <2> SUFFICES ASSUME NEW c \in MembersBy(m, later) PROVE c \in MembersBy(m, d)
    OBVIOUS
  <2> DEFINE g == FirstBy(later)[c]
  <2>1. c \in CustomersOf(PricedBy(later)) /\ PeriodStart("month", g) = m
    BY DEF MembersBy
  <2>2. g \in Int /\ g \in OrderDates
    BY <2>1, FirstIs
  <2> HIDE DEF g
  <2>3. CalendarHolds("month", g)
    BY <2>2, CalendarAssumption DEF Units
  <2>4. g <= PeriodEnd("month", f)
    BY <1>6, <1>7, <2>1, <2>2, <2>3, PeriodEndsIt
  <2>5. g <= d
    BY <1>8, <1>9, <2>2, <2>4
  <2>6. c \in CustomersOf(PricedBy(d)) /\ FirstBy(later)[c] = FirstBy(d)[c]
    BY <2>1, <2>5, FirstStays DEF g
  <2> QED
    BY <2>1, <2>6 DEF MembersBy, g
<1>12. \A c \in MembersBy(m, d) : FirstBy(later)[c] = FirstBy(d)[c]
  BY FirstStays DEF MembersBy
<1>13. \A o \in PricedBy(later) :
         o.customer \in MembersBy(m, d) /\ o.businessDate <= FirstBy(d)[o.customer] + LongestMonth
           => o.businessDate <= d
  <2> SUFFICES ASSUME NEW o \in PricedBy(later), o.customer \in MembersBy(m, d),
                      o.businessDate <= FirstBy(d)[o.customer] + LongestMonth
               PROVE  o.businessDate <= d
    OBVIOUS
  <2>1. o.businessDate \in Int
    BY PricedDates
  <2>2. FirstBy(d)[o.customer] \in Int /\ FirstBy(d)[o.customer] + LongestMonth <= d
    BY <1>1, <1>5
  <2> QED
    BY <1>8, <2>1, <2>2
<1>14. \A o : o \in PricedBy(d) <=> o \in PricedBy(later) /\ o.businessDate <= d
  BY FirstStays
<1> QED
  BY <1>10, <1>11, <1>12, <1>13, <1>14 DEF WindowOrders

(* A cohort window shown as complete is final (customers.ts): no later day of *)
(* trading moves its revenue, for every set of books and every calendar.      *)
THEOREM CompleteWindowsStay == Spec => []CompleteWindowsAreFinal
<1>1. ASSUME BooksInv PROVE CompleteWindowsAreFinal
  <2> DEFINE Window(cohort) == cohort.windows[LongestMonth]
  <2> DEFINE cohorts == Table([d \in Days |-> BuildCustomerCohorts(History(d).allocated, d, {LongestMonth})])
  <2>1. ASSUME NEW d \in Days
        PROVE  cohorts[d] = BuildCustomerCohorts(PricedBy(d), d, {LongestMonth})
    <3>1. cohorts = [x \in Days |-> BuildCustomerCohorts(History(x).allocated, x, {LongestMonth})]
      BY TableIs
    <3>2. d \in Int /\ History(d).allocated = PricedBy(d)
      BY <1>1, DaysAssumption, HistoryIs
    <3> QED
      BY <3>1, <3>2
  <2>2. ASSUME NEW d \in Days, NEW m \in DOMAIN cohorts[d], Window(cohorts[d][m]).isComplete,
               NEW later \in Days, later > d
        PROVE  Window(cohorts[later][m]).revenue = Window(cohorts[d][m]).revenue
    <3>1. d \in Int /\ later \in Int /\ d <= later
      BY <2>2, DaysAssumption
    <3> HIDE DEF cohorts
    <3>2. /\ DOMAIN cohorts[d] = {PeriodStart("month", FirstBy(d)[c]) : c \in CustomersOf(PricedBy(d))}
          /\ cohorts[d][m].windows[LongestMonth].revenue = NetOf(WindowOrders(m, d, LongestMonth))
          /\ cohorts[d][m].windows[LongestMonth].isComplete
               = (Max({FirstBy(d)[c] : c \in MembersBy(m, d)}) + LongestMonth <= d)
      BY <2>1, CohortsBy
    <3>3. PICK c0 \in CustomersOf(PricedBy(d)) : m = PeriodStart("month", FirstBy(d)[c0])
      BY <3>2
    <3>4. c0 \in MembersBy(m, d)
      BY <3>3 DEF MembersBy
    <3>5. WindowOrders(m, later, LongestMonth) = WindowOrders(m, d, LongestMonth)
      BY <2>2, <3>1, <3>2, <3>4, CompleteWindowStays
    <3>6. c0 \in CustomersOf(PricedBy(later)) /\ FirstBy(later)[c0] = FirstBy(d)[c0]
      BY <3>1, <3>3, FirstStays
    <3>7. DOMAIN cohorts[later] = {PeriodStart("month", FirstBy(later)[c]) : c \in CustomersOf(PricedBy(later))}
      BY <2>1, CohortsBy
    <3>8. m \in DOMAIN cohorts[later]
      BY <3>3, <3>6, <3>7
    <3>9. cohorts[later][m].windows[LongestMonth].revenue = NetOf(WindowOrders(m, later, LongestMonth))
      BY <2>1, <3>8, CohortsBy
    <3> QED
      BY <3>2, <3>5, <3>9
  <2>3. \A d \in Days : \A m \in DOMAIN cohorts[d] :
          Window(cohorts[d][m]).isComplete =>
            \A later \in {x \in Days : x > d} :
              Window(cohorts[later][m]).revenue = Window(cohorts[d][m]).revenue
    BY <2>2
  <2> QED
    BY <2>3, Zenon DEF CompleteWindowsAreFinal, LongestMonth
<1> QED
  BY <1>1, BooksAreKept, PTL

(*------------------------- the engine on numbers -------------------------*)
LEMMA TotalIsInt ==
  ASSUME NEW f, IsFiniteSet(DOMAIN f), \A x \in DOMAIN f : f[x] \in Int
  PROVE  SumFunction(f) \in Int
  BY SumIsSumIn, SumType

LEMMA ListedIs ==
  ASSUME NEW lines, NEW columns, Listed(lines, columns)
  PROVE  /\ Len(lines) \in Nat /\ DOMAIN lines = 1 .. Len(lines)
         /\ IsFiniteSet(DOMAIN lines)
         /\ \A i \in DOMAIN lines : \A c \in columns : lines[i][c] \in Int
<1>1. lines \in Seq({lines[i] : i \in DOMAIN lines})
  BY DEF Listed
<1>2. Len(lines) \in Nat /\ DOMAIN lines = 1 .. Len(lines)
  BY <1>1
<1>3. IsFiniteSet(1 .. Len(lines))
  BY <1>2, FS_Interval
<1> QED
  BY <1>2, <1>3 DEF Listed, Amounts

LEMMA ComponentsAreFinite ==
  /\ IsFiniteSet(ProductComponents) /\ IsFiniteSet(OperatingComponents) /\ IsFiniteSet(Components)
  /\ ProductComponents \cap OperatingComponents = {}
<1>1. IsFiniteSet(ProductComponents)
  <2>1. ProductComponents = {"productCogs"} \cup ({"packaging"} \cup ({"inboundFreight"}
                              \cup ({"paymentProcessing"} \cup {"otherVariableProductCosts"})))
    BY DEF ProductComponents
  <2> QED
    BY <2>1, FS_Singleton, FS_Union
<1>2. IsFiniteSet(OperatingComponents)
  <2>1. OperatingComponents = {"fulfilment"} \cup ({"shipping"} \cup ({"shopifyAndVariableApps"}
                                \cup {"otherVariableOperatingCosts"}))
    BY DEF OperatingComponents
  <2> QED
    BY <2>1, FS_Singleton, FS_Union
<1>3. ProductComponents \cap OperatingComponents = {}
  BY DEF ProductComponents, OperatingComponents
<1> QED
  BY <1>1, <1>2, <1>3, FS_Union DEF Components

(* What the charges need to be numbers: rules, unit costs and lines that are. *)
RulesTyped(rules) ==
  /\ IsFiniteSet(rules)
  /\ \A a \in rules : a.amount \in Int /\ a.basis \in {"per_order", "per_unit", "percentage_of_revenue"}
UnitCostsTyped(unitCosts) == \A v \in DOMAIN unitCosts : \A c \in Components : unitCosts[v][c] \in Int
LinesTyped(lines) == Listed(lines, {"quantity", "grossSales", "discounts"})

LEMMA PercentIsInt == \A m \in Int : m \div 100 \in Int
  BY SMT

LEMMA ProductIsInt == \A m, n \in Int : m * n \in Int
  BY SMT

LEMMA LineChargeIsInt ==
  ASSUME NEW a, a.amount \in Int, a.basis \in {"per_order", "per_unit", "percentage_of_revenue"},
         NEW line, line.quantity \in Int, NEW net \in Int, NEW share \in Int
  PROVE  LineCharge(a, line, net, share) \in Int
<1>1. (net * a.amount) \div 100 \in Int /\ a.amount * line.quantity \in Int
  BY ProductIsInt, PercentIsInt
<1> DEFINE matches == AssumptionMatchesLine(a, line)
<1>2. matches \in BOOLEAN
  BY DEF AssumptionMatchesLine
<1> HIDE DEF matches
<1>3. LineCharge(a, line, net, share)
        = CASE ~matches -> 0
            [] matches /\ a.basis = "per_order" -> share
            [] matches /\ a.basis = "per_unit" -> a.amount * line.quantity
            [] matches /\ a.basis = "percentage_of_revenue" -> (net * a.amount) \div 100
  BY DEF LineCharge, matches
<1> QED
  BY <1>1, <1>2, <1>3

Weighed(a, lines, net) == [i \in DOMAIN lines |-> IF AssumptionMatchesLine(a, lines[i]) THEN net[i] ELSE 0]

LEMMA LineChargesAreInt ==
  ASSUME NEW a, a.amount \in Int, a.basis \in {"per_order", "per_unit", "percentage_of_revenue"},
         NEW lines, LinesTyped(lines), NEW net, \A i \in DOMAIN lines : net[i] \in Int
  PROVE  /\ DOMAIN LineCharges(a, lines, net) = DOMAIN lines
         /\ \A i \in DOMAIN lines : LineCharges(a, lines, net)[i] \in Int
<1> DEFINE weights == Weighed(a, lines, net)
<1> DEFINE shares == AllocateProportionally(a.amount, weights)
<1>1. LineCharges(a, lines, net) = [i \in DOMAIN lines |-> LineCharge(a, lines[i], net[i], shares[i])]
  BY TableIs DEF LineCharges, ChargesByShare, Weighed
<1>2. weights \in Seq(Int)
  <2>1. Len(lines) \in Nat /\ DOMAIN lines = 1 .. Len(lines)
    BY ListedIs DEF LinesTyped
  <2>2. \A i \in DOMAIN lines : weights[i] \in Int
    BY DEF Weighed
  <2>3. weights = [i \in 1 .. Len(lines) |-> weights[i]]
    BY <2>1 DEF Weighed
  <2> HIDE DEF weights
  <2> QED
    BY <2>1, <2>2, <2>3
<1>3. DOMAIN weights = DOMAIN lines
  BY DEF Weighed
<1>4. ASSUME NEW i \in DOMAIN lines PROVE LineCharge(a, lines[i], net[i], shares[i]) \in Int
  <2>1. weights # <<>>
    BY <1>3, <1>4
  <2> HIDE DEF weights
  <2>2. shares[i] \in Int
    BY <1>2, <1>3, <2>1, AllocationIsComplete
  <2>3. lines[i].quantity \in Int
    <3>1. \A j \in DOMAIN lines : \A c \in {"quantity", "grossSales", "discounts"} : lines[j][c] \in Int
      BY ListedIs DEF LinesTyped
    <3> QED
      BY <3>1
  <2> HIDE DEF shares
  <2> QED
    BY <2>2, <2>3, LineChargeIsInt
<1> HIDE DEF shares
<1> QED
  BY <1>1, <1>4

LEMMA LineCostsAreInt ==
  ASSUME NEW line, line.quantity \in Int, NEW i, NEW rules, RulesTyped(rules),
         NEW unitCosts, UnitCostsTyped(unitCosts), NEW charges, \A a \in rules : charges[a][i] \in Int
  PROVE  \A c \in Components : LineCosts(line, i, rules, unitCosts, charges)[c] \in Int
<1> SUFFICES ASSUME NEW c \in Components PROVE LineCosts(line, i, rules, unitCosts, charges)[c] \in Int
  OBVIOUS
<1> DEFINE S == ChargedTo(c, rules)
<1> DEFINE f == [a \in S |-> charges[a][i]]
<1>1. LineCosts(line, i, rules, unitCosts, charges)[c] = UnitCost(line, unitCosts, c) + SumFunction(f)
  BY TableIs DEF LineCosts, SumOver
<1>2. UnitCost(line, unitCosts, c) \in Int
  <2>1. CASE line.variant \in DOMAIN unitCosts
    <3>1. unitCosts[line.variant][c] \in Int
      BY <2>1 DEF UnitCostsTyped
    <3>2. UnitCost(line, unitCosts, c) = unitCosts[line.variant][c] * line.quantity
      BY <2>1 DEF UnitCost
    <3> QED
      BY <3>1, <3>2, ProductIsInt
  <2>2. CASE line.variant \notin DOMAIN unitCosts
    BY <2>2 DEF UnitCost
  <2> QED
    BY <2>1, <2>2
<1>3. S \subseteq rules /\ IsFiniteSet(S)
  <2>1. S \subseteq rules
    BY DEF ChargedTo
  <2> QED
    BY <2>1, FS_Subset DEF RulesTyped
<1>4. DOMAIN f = S /\ \A a \in S : f[a] \in Int
  BY <1>3
<1> HIDE DEF f, S
<1>5. SumFunction(f) \in Int
  BY <1>3, <1>4, TotalIsInt
<1> QED
  BY <1>1, <1>2, <1>5

LEMMA AllocatedLinesAre ==
  ASSUME NEW lines, LinesTyped(lines), NEW rules, RulesTyped(rules),
         NEW unitCosts, UnitCostsTyped(unitCosts), NEW postage, \A i \in DOMAIN lines : postage[i] \in Int
  PROVE  LET out == AllocateLines(lines, rules, unitCosts, postage)
         IN  /\ DOMAIN out = DOMAIN lines
             /\ \A i \in DOMAIN lines :
                  /\ LineMerchandise(lines[i]) \in Int
                  /\ out[i].netRevenue = LineMerchandise(lines[i]) + postage[i]
                  /\ out[i].netRevenue \in Int
                  /\ out[i].variant = lines[i].variant /\ out[i].sku = lines[i].sku
                  /\ \A c \in Components : out[i].costs[c] \in Int
<1> DEFINE net == [i \in DOMAIN lines |-> LineMerchandise(lines[i]) + postage[i]]
<1> DEFINE charges == Table([a \in rules |-> LineCharges(a, lines, net)])
<1> DEFINE costs(i) == LineCosts(lines[i], i, rules, unitCosts, charges)
<1> DEFINE out == AllocateLines(lines, rules, unitCosts, postage)
<1>1. out = [i \in DOMAIN lines |-> AllocatedLine(lines[i], postage[i], net[i], costs(i))]
  BY TableIs DEF AllocateLines, ChargedLines
<1>2. \A i \in DOMAIN lines : /\ lines[i].quantity \in Int /\ LineMerchandise(lines[i]) \in Int
                              /\ net[i] \in Int /\ net[i] = LineMerchandise(lines[i]) + postage[i]
  <2> SUFFICES ASSUME NEW i \in DOMAIN lines
               PROVE  /\ lines[i].quantity \in Int /\ LineMerchandise(lines[i]) \in Int
                      /\ net[i] \in Int /\ net[i] = LineMerchandise(lines[i]) + postage[i]
    OBVIOUS
  <2>1. \A c \in {"quantity", "grossSales", "discounts"} : lines[i][c] \in Int
    BY ListedIs DEF LinesTyped
  <2>2. lines[i].quantity \in Int /\ lines[i].grossSales \in Int /\ lines[i].discounts \in Int
    BY <2>1
  <2> QED
    BY <2>2 DEF LineMerchandise
<1>3. charges = [a \in rules |-> LineCharges(a, lines, net)]
  BY TableIs
<1> HIDE DEF net, charges, out
<1>4. \A a \in rules : \A i \in DOMAIN lines : charges[a][i] \in Int
  BY <1>2, <1>3, LineChargesAreInt DEF RulesTyped
<1>5. \A i \in DOMAIN lines : \A c \in Components : costs(i)[c] \in Int
  BY <1>2, <1>4, LineCostsAreInt
<1> HIDE DEF costs
<1>6. \A i \in DOMAIN lines :
        /\ out[i].netRevenue = net[i] /\ out[i].costs = costs(i)
        /\ out[i].variant = lines[i].variant /\ out[i].sku = lines[i].sku
  BY <1>1 DEF AllocatedLine
<1>7. DOMAIN out = DOMAIN lines
  BY <1>1
<1> QED
  BY <1>2, <1>5, <1>6, <1>7 DEF out

LEMMA CostsWithoutLinesAreInt ==
  ASSUME NEW rules, RulesTyped(rules), NEW net \in Int
  PROVE  \A c \in Components : CostsWithoutLines(rules, net)[c] \in Int
<1> SUFFICES ASSUME NEW c \in Components PROVE CostsWithoutLines(rules, net)[c] \in Int
  OBVIOUS
<1> DEFINE S == {a \in ChargedTo(c, rules) : a.appliesTo.kind = "all_orders"}
<1> DEFINE charge(a) == CASE a.basis = "per_order" -> a.amount
                          [] a.basis = "percentage_of_revenue" -> (net * a.amount) \div 100
                          [] OTHER -> 0
<1> DEFINE f == [a \in S |-> charge(a)]
<1>1. CostsWithoutLines(rules, net)[c] = SumFunction(f)
  BY TableIs DEF CostsWithoutLines, SumOver
<1>2. S \subseteq rules
  BY DEF ChargedTo
<1>3. \A a \in rules : charge(a) \in Int
  BY ProductIsInt, PercentIsInt DEF RulesTyped
<1>4. IsFiniteSet(S)
  BY <1>2, FS_Subset DEF RulesTyped
<1>5. DOMAIN f = S /\ \A a \in S : f[a] \in Int
  BY <1>2, <1>3
<1> HIDE DEF f, S, charge
<1> QED
  BY <1>1, <1>4, <1>5, TotalIsInt

(* An order the engine can price.                                             *)
OrderTyped(o) ==
  /\ Amounts(o, {"grossSales", "discounts", "shippingRevenue"})
  /\ LinesTyped(o.lines)

PostageOf(o) ==
  AllocateProportionally(o.shippingRevenue, [i \in DOMAIN o.lines |-> LineMerchandise(o.lines[i])])

LEMMA PostageIs ==
  ASSUME NEW o, OrderTyped(o)
  PROVE  \A i \in DOMAIN o.lines :
           /\ PostageOf(o)[i] \in Int
           /\ SumIn(PostageOf(o), DOMAIN o.lines) = ToPence(o.shippingRevenue)
<1> SUFFICES ASSUME NEW i \in DOMAIN o.lines
             PROVE  /\ PostageOf(o)[i] \in Int
                    /\ SumIn(PostageOf(o), DOMAIN o.lines) = ToPence(o.shippingRevenue)
  OBVIOUS
<1> DEFINE weights == [j \in DOMAIN o.lines |-> LineMerchandise(o.lines[j])]
<1>1. Len(o.lines) \in Nat /\ DOMAIN o.lines = 1 .. Len(o.lines)
  BY ListedIs DEF OrderTyped, LinesTyped
<1>2. \A j \in DOMAIN o.lines : LineMerchandise(o.lines[j]) \in Int
  <2> SUFFICES ASSUME NEW j \in DOMAIN o.lines PROVE LineMerchandise(o.lines[j]) \in Int
    OBVIOUS
  <2>1. \A c \in {"quantity", "grossSales", "discounts"} : o.lines[j][c] \in Int
    BY ListedIs DEF OrderTyped, LinesTyped
  <2>2. o.lines[j].grossSales \in Int /\ o.lines[j].discounts \in Int
    BY <2>1
  <2> QED
    BY <2>2 DEF LineMerchandise
<1>3. weights \in Seq(Int) /\ weights # <<>> /\ DOMAIN weights = DOMAIN o.lines
  <2> DEFINE n == Len(o.lines)
  <2>1. \A j \in 1 .. n : weights[j] \in Int
    BY <1>1, <1>2
  <2>2. weights = [j \in 1 .. n |-> weights[j]]
    BY <1>1
  <2>3. n \in Nat /\ i \in 1 .. n /\ DOMAIN o.lines = 1 .. n
    BY <1>1
  <2> HIDE DEF weights, n
  <2>4. weights \in Seq(Int) /\ DOMAIN weights = 1 .. n
    BY <2>1, <2>2, <2>3
  <2>5. weights # <<>>
    BY <2>3, <2>4
  <2> QED
    BY <2>3, <2>4, <2>5
<1>4. o.shippingRevenue \in Int
  BY DEF OrderTyped, Amounts
<1>5. PostageOf(o) = AllocateProportionally(o.shippingRevenue, weights)
  BY DEF PostageOf
<1> HIDE DEF weights
<1>6. /\ DOMAIN PostageOf(o) = DOMAIN o.lines
      /\ PostageOf(o)[i] \in Int
      /\ SumSeq(PostageOf(o)) = ToPence(o.shippingRevenue)
  BY <1>3, <1>4, <1>5, AllocationIsComplete
<1> QED
  BY <1>6, SumIsSumIn DEF SumSeq

(* What pricing an order gives.                                               *)
LEMMA PricedOrderIs ==
  ASSUME NEW o, OrderTyped(o), NEW rules, RulesTyped(rules), NEW unitCosts, UnitCostsTyped(unitCosts)
  PROVE  LET p == PricedOrder(o, rules, unitCosts)
             lines == AllocateLines(o.lines, rules, unitCosts, PostageOf(o))
         IN  /\ p.grossSales = o.grossSales /\ p.discounts = o.discounts
             /\ p.shippingRevenue = o.shippingRevenue
             /\ p.netRevenue = o.grossSales - o.discounts + o.shippingRevenue
             /\ p.netRevenue \in Int /\ p.lines = lines
             /\ p.lineTotalsDiverge = (lines # <<>> /\ SumFunction([i \in DOMAIN o.lines |-> LineMerchandise(o.lines[i])])
                                                         # o.grossSales - o.discounts)
             /\ \A c \in Components : p.costs[c] \in Int
             /\ lines # <<>> => \A c \in Components : p.costs[c] = SumFunction([i \in DOMAIN lines |-> lines[i].costs[c]])
<1> DEFINE p == PricedOrder(o, rules, unitCosts)
<1> DEFINE lines == AllocateLines(o.lines, rules, unitCosts, PostageOf(o))
<1> DEFINE net == o.grossSales - o.discounts + o.shippingRevenue
<1>1. p = AllocatedOrder(o, rules, unitCosts, lines)
  BY DEF PricedOrder, PostageOf
<1>2. /\ DOMAIN lines = DOMAIN o.lines
      /\ \A i \in DOMAIN lines : \A c \in Components : lines[i].costs[c] \in Int
  <2>1. \A i \in DOMAIN o.lines : PostageOf(o)[i] \in Int
    BY PostageIs
  <2>2. LinesTyped(o.lines)
    BY DEF OrderTyped
  <2> HIDE DEF lines
  <2> QED
    BY <2>1, <2>2, AllocatedLinesAre DEF lines
<1> HIDE DEF lines
<1>3. /\ p.grossSales = o.grossSales /\ p.discounts = o.discounts
      /\ p.shippingRevenue = o.shippingRevenue /\ p.netRevenue = net /\ p.lines = lines
      /\ p.lineTotalsDiverge = (lines # <<>> /\ SumFunction([i \in DOMAIN o.lines |-> LineMerchandise(o.lines[i])])
                                                  # o.grossSales - o.discounts)
  BY <1>1 DEF AllocatedOrder, SumOver
<1>4. net \in Int
  BY DEF OrderTyped, Amounts
<1>5. IsFiniteSet(DOMAIN o.lines)
  BY ListedIs DEF OrderTyped, LinesTyped
<1>6. p.costs = IF lines # <<>>
                THEN [c \in Components |-> SumFunction([i \in DOMAIN lines |-> lines[i].costs[c]])]
                ELSE CostsWithoutLines(rules, net)
  BY <1>1, TableIs DEF AllocatedOrder, SumOver
<1> HIDE DEF p, net
<1>7. ASSUME NEW c \in Components PROVE p.costs[c] \in Int
  <2>1. CASE lines # <<>>
    <3> DEFINE f == [i \in DOMAIN lines |-> lines[i].costs[c]]
    <3>1. p.costs[c] = SumFunction(f)
      BY <1>6, <2>1
    <3>2. DOMAIN f = DOMAIN o.lines /\ \A i \in DOMAIN f : f[i] \in Int
      BY <1>2
    <3> HIDE DEF f
    <3> QED
      BY <1>5, <3>1, <3>2, TotalIsInt
  <2>2. CASE lines = <<>>
    BY <1>4, <1>6, <2>2, CostsWithoutLinesAreInt
  <2> QED
    BY <2>1, <2>2
<1>8. lines # <<>> => \A c \in Components : p.costs[c] = SumFunction([i \in DOMAIN lines |-> lines[i].costs[c]])
  BY <1>6
<1> QED
  BY <1>3, <1>4, <1>7, <1>8 DEF p, lines, net

(*------------------------- the orders of the books -----------------------*)
LEMMA RowsAreFinite ==
  ASSUME NEW table, NEW S, S \subseteq IdsOf(table)
  PROVE  IsFiniteSet(S) /\ IsFiniteSet({Catalogue[id] : id \in S})
<1>1. IsFiniteSet(S)
  BY CatalogueAssumption, FS_Subset DEF IdsOf
<1> DEFINE row == [id \in S |-> Catalogue[id]]
<1>2. {Catalogue[id] : id \in S} = {row[id] : id \in S}
  OBVIOUS
<1> HIDE DEF row
<1> QED
  BY <1>1, <1>2, ImageIsFinite

RulesOn(d) == ResolveAssumptions(LoadAllocationContext.assumptions, d).orderLevel
UnitCostsOn(d) == ResolveVariantUnitCosts(LoadAllocationContext.profiles, d)

LEMMA RulesAreTyped == \A d : RulesTyped(RulesOn(d))
<1> SUFFICES ASSUME NEW d PROVE RulesTyped(RulesOn(d))
  OBVIOUS
<1> DEFINE S == {Catalogue[id] : id \in StoredIn("assumptions")}
<1>1. RulesOn(d) = {a \in S : IsEffectiveOn(a, d) /\ a.basis # "fixed_period"}
  BY DEF RulesOn, LoadAllocationContext, ResolveAssumptions, ResolveAllEffective
<1>2. \A a \in S : /\ a.amount \in Int
                   /\ a.basis \in {"per_order", "per_unit", "percentage_of_revenue", "fixed_period"}
  BY AmountsAssumption DEF StoredIn
<1>3. IsFiniteSet(S)
  BY RowsAreFinite DEF StoredIn
<1> HIDE DEF S
<1>4. IsFiniteSet(RulesOn(d))
  BY <1>1, <1>3, FS_Subset
<1> QED
  BY <1>1, <1>2, <1>4 DEF RulesTyped

LEMMA LatestExists ==
  ASSUME NEW S, IsFiniteSet(S), S # {}, \A r \in S : r.from \in Int
  PROVE  ResolveEffective(S) \in S
<1> DEFINE from == [r \in S |-> r.from]
<1> DEFINE T == {from[r] : r \in S}
<1>1. T # {} /\ T \subseteq Int
  OBVIOUS
<1>2. IsFiniteSet(T)
  <2> HIDE DEF from
  <2> QED
    BY ImageIsFinite
<1>3. PICK m \in T : \A x \in T : x <= m
  <2> HIDE DEF T
  <2> QED
    BY <1>1, <1>2, EndsExist
<1>4. PICK r \in S : m = r.from
  OBVIOUS
<1>5. \A other \in S : other.from <= r.from
  BY <1>3, <1>4
<1> QED
  BY <1>5 DEF ResolveEffective

LEMMA UnitCostsAreTyped == \A d : UnitCostsTyped(UnitCostsOn(d))
<1> SUFFICES ASSUME NEW d PROVE UnitCostsTyped(UnitCostsOn(d))
  OBVIOUS
<1> DEFINE S == {Catalogue[id] : id \in StoredIn("profiles")}
<1> DEFINE inForce == ResolveAllEffective(S, d)
<1> DEFINE Of(v) == {p \in inForce : p.variant = v}
<1> DEFINE resolved == Table([v \in {p.variant : p \in inForce} |-> ResolveEffective(Of(v))])
<1>1. UnitCostsOn(d) = UnitCostsOf(resolved)
  BY DEF UnitCostsOn, ResolveVariantUnitCosts, ResolveEffectiveByKey, LoadAllocationContext
<1>2. resolved = [v \in {p.variant : p \in inForce} |-> ResolveEffective(Of(v))]
  BY TableIs
<1>3. \A p \in S : p.from \in Int /\ \A c \in UnitComponents : p.costs[c] \in Int
  BY AmountsAssumption DEF StoredIn, Amounts
<1>4. IsFiniteSet(S)
  BY RowsAreFinite DEF StoredIn
<1>5. inForce \subseteq S
  BY DEF ResolveAllEffective
<1> HIDE DEF S, inForce, resolved
<1>6. \A v \in DOMAIN resolved : resolved[v] \in S
  <2> SUFFICES ASSUME NEW v \in DOMAIN resolved PROVE resolved[v] \in S
    OBVIOUS
  <2>1. Of(v) # {} /\ Of(v) \subseteq S /\ resolved[v] = ResolveEffective(Of(v))
    BY <1>2, <1>5
  <2>2. IsFiniteSet(Of(v)) /\ \A r \in Of(v) : r.from \in Int
    BY <1>3, <1>4, <2>1, FS_Subset
  <2> HIDE DEF Of
  <2>3. ResolveEffective(Of(v)) \in Of(v)
    BY <2>1, <2>2, LatestExists
  <2> QED
    BY <2>1, <2>3
<1>7. UnitCostsOn(d) = [v \in DOMAIN resolved |->
                          [c \in Components |-> IF c \in UnitComponents THEN resolved[v].costs[c] ELSE 0]]
  BY <1>1, TableIs DEF UnitCostsOf
<1> QED
  BY <1>3, <1>6, <1>7 DEF UnitCostsTyped

LinesOf(id) == AllocateLines(Catalogue[id].lines, RulesOn(DateOf(id)), UnitCostsOn(DateOf(id)), PostageOf(Catalogue[id]))

LEMMA FlaggedAmounts ==
  ASSUME NEW id
  PROVE  /\ Flagged(id).grossSales = Catalogue[id].grossSales /\ Flagged(id).discounts = Catalogue[id].discounts
         /\ Flagged(id).shippingRevenue = Catalogue[id].shippingRevenue /\ Flagged(id).lines = Catalogue[id].lines
         /\ Flagged(id).businessDate = DateOf(id) /\ Flagged(id).isNew = Acquires(id)
  BY DEF Flagged, FlaggedAs, OrderInput, DateOf

LEMMA PricedIs ==
  ASSUME NEW id \in LiveOrders
  PROVE  LET o == Catalogue[id]
             p == Priced(id)
         IN  /\ OrderTyped(o)
             /\ p.grossSales = o.grossSales /\ p.discounts = o.discounts
             /\ p.shippingRevenue = o.shippingRevenue
             /\ p.netRevenue = o.grossSales - o.discounts + o.shippingRevenue
             /\ Amounts(p, {"grossSales", "discounts", "shippingRevenue", "netRevenue"})
             /\ p.isNew = Acquires(id)
             /\ p.lines = LinesOf(id)
             /\ p.lineTotalsDiverge = (LinesOf(id) # <<>> /\ SumFunction([i \in DOMAIN o.lines |-> LineMerchandise(o.lines[i])])
                                                              # o.grossSales - o.discounts)
             /\ \A c \in Components : p.costs[c] \in Int
             /\ LinesOf(id) # <<>> =>
                  \A c \in Components : p.costs[c] = SumFunction([i \in DOMAIN LinesOf(id) |-> LinesOf(id)[i].costs[c]])
<1> DEFINE o == Catalogue[id]
<1> DEFINE f == Flagged(id)
<1> DEFINE rules == RulesOn(DateOf(id))
<1> DEFINE unitCosts == UnitCostsOn(DateOf(id))
<1>1. OrderTyped(o)
  BY LiveOrdersAreTyped, AmountsAssumption DEF OrderTyped, LinesTyped, Amounts
<1>2. /\ f.grossSales = o.grossSales /\ f.discounts = o.discounts
      /\ f.shippingRevenue = o.shippingRevenue /\ f.lines = o.lines
      /\ f.businessDate = DateOf(id) /\ f.isNew = Acquires(id)
  BY FlaggedAmounts
<1> HIDE DEF f
<1>3. OrderTyped(f)
  BY <1>1, <1>2 DEF OrderTyped, Amounts
<1>4. PostageOf(f) = PostageOf(o)
  BY <1>2 DEF PostageOf
<1>5. Priced(id) = PricedOrder(f, rules, unitCosts)
  BY <1>2 DEF Priced, AllocateOrder, RulesOn, UnitCostsOn, f
<1>6. RulesTyped(rules) /\ UnitCostsTyped(unitCosts)
  BY RulesAreTyped, UnitCostsAreTyped
<1>7. LinesOf(id) = AllocateLines(f.lines, rules, unitCosts, PostageOf(f))
  BY <1>2, <1>4 DEF LinesOf
<1> HIDE DEF rules, unitCosts
<1> DEFINE p == PricedOrder(f, rules, unitCosts)
<1> DEFINE lines == AllocateLines(f.lines, rules, unitCosts, PostageOf(f))
<1>8. /\ p.grossSales = f.grossSales /\ p.discounts = f.discounts
      /\ p.shippingRevenue = f.shippingRevenue
      /\ p.netRevenue = f.grossSales - f.discounts + f.shippingRevenue
      /\ p.netRevenue \in Int /\ p.lines = lines
      /\ p.lineTotalsDiverge = (lines # <<>> /\ SumFunction([i \in DOMAIN f.lines |-> LineMerchandise(f.lines[i])])
                                                  # f.grossSales - f.discounts)
      /\ \A c \in Components : p.costs[c] \in Int
      /\ lines # <<>> => \A c \in Components : p.costs[c] = SumFunction([i \in DOMAIN lines |-> lines[i].costs[c]])
  BY <1>3, <1>6, PricedOrderIs
<1>9. Priced(id).isNew = Acquires(id)
  BY <1>2, AllocatedFields DEF Priced, f
<1>10. Priced(id) = p /\ LinesOf(id) = lines
  BY <1>5, <1>7
<1> HIDE DEF p, lines
<1>11. Amounts(p, {"grossSales", "discounts", "shippingRevenue", "netRevenue"})
  <2>1. p.grossSales \in Int /\ p.discounts \in Int /\ p.shippingRevenue \in Int /\ p.netRevenue \in Int
    BY <1>3, <1>8 DEF OrderTyped, Amounts
  <2> QED
    BY <2>1 DEF Amounts
<1> QED
  BY <1>1, <1>2, <1>8, <1>9, <1>10, <1>11

(*----------------------------- recurring costs ---------------------------*)
LEMMA SamePeriod ==
  ASSUME NEW unit \in Units, NEW d \in Int, CalendarHolds(unit, d),
         NEW x \in PeriodStart(unit, d) .. PeriodEnd(unit, d)
  PROVE  /\ x \in Int
         /\ PeriodStart(unit, x) = PeriodStart(unit, d)
         /\ PeriodEnd(unit, x) = PeriodEnd(unit, d)
<1> DEFINE s == PeriodStart(unit, d)
<1> DEFINE e == PeriodEnd(unit, d)
<1>1. /\ s \in Starts[unit] /\ s \in Int /\ s <= d /\ e \in Int /\ d <= e /\ e + 1 \in Starts[unit]
      /\ \A t \in Starts[unit] : (t <= d => t <= s) /\ (t > d => e + 1 <= t)
  BY PeriodIs
<1>2. x \in Int /\ s <= x /\ x <= e
  BY <1>1
<1> HIDE DEF s, e
<1>3. \A t \in Starts[unit] : t \in Int
  BY StartsAssumption
<1>4. \A t \in Starts[unit] : (t <= x => t <= s) /\ (t > x => e + 1 <= t)
  <2> SUFFICES ASSUME NEW t \in Starts[unit] PROVE (t <= x => t <= s) /\ (t > x => e + 1 <= t)
    OBVIOUS
  <2>1. t \in Int /\ (t <= d => t <= s) /\ (t > d => e + 1 <= t)
    BY <1>1, <1>3
  <2> QED
    BY <1>1, <1>2, <2>1
<1>5. e + 1 > x
  BY <1>1, <1>2
<1>6. CalendarHolds(unit, x)
  BY <1>1, <1>2, <1>4, <1>5 DEF CalendarHolds
<1> DEFINE a == PeriodStart(unit, x)
<1> DEFINE b == PeriodEnd(unit, x)
<1>7. /\ a \in Starts[unit] /\ a \in Int /\ a <= x /\ b \in Int /\ x <= b /\ b + 1 \in Starts[unit]
      /\ \A t \in Starts[unit] : (t <= x => t <= a) /\ (t > x => b + 1 <= t)
  BY <1>2, <1>6, PeriodIs
<1> HIDE DEF a, b
<1>8. s <= a /\ a <= s
  BY <1>1, <1>2, <1>4, <1>7
<1>9. b + 1 <= e + 1 /\ e + 1 <= b + 1
  BY <1>1, <1>4, <1>5, <1>7
<1> QED
  BY <1>1, <1>2, <1>7, <1>8, <1>9 DEF a, b, s, e

LEMMA DaySharesAre ==
  ASSUME NEW amount \in Int, NEW n \in Nat \ {0}
  PROVE  LET shares == AllocateProportionally(amount, [i \in 1 .. n |-> 1])
         IN  /\ \A i \in 1 .. n : shares[i] \in Int
             /\ SumIn(shares, 1 .. n) = ToPence(amount)
<1> DEFINE weights == [i \in 1 .. n |-> 1]
<1>1. weights \in Seq(Int) /\ weights # <<>> /\ DOMAIN weights = 1 .. n
  <2>1. DOMAIN weights = 1 .. n /\ 1 \in 1 .. n
    OBVIOUS
  <2>2. weights \in Seq(Int)
    OBVIOUS
  <2> HIDE DEF weights
  <2> QED
    BY <2>1, <2>2
<1> HIDE DEF weights
<1> DEFINE shares == AllocateProportionally(amount, weights)
<1>2. DOMAIN shares = 1 .. n /\ (\A i \in 1 .. n : shares[i] \in Int) /\ SumSeq(shares) = ToPence(amount)
  BY <1>1, AllocationIsComplete
<1> HIDE DEF shares
<1>3. SumIn(shares, 1 .. n) = ToPence(amount)
  BY <1>2, SumIsSumIn DEF SumSeq
<1> QED
  BY <1>2, <1>3 DEF shares, weights

LEMMA PositionIs ==
  ASSUME NEW a, a.period \in {"day"} \cup Units, NEW d \in Int, \A unit \in Units : CalendarHolds(unit, d)
  PROVE  LET p == PositionFor(a, d) IN p.days \in Nat \ {0} /\ p.index + 1 \in 1 .. p.days
<1>1. a.period # "none"
  BY DEF Units
<1>2. CASE a.period = "day"
  BY <1>1, <1>2 DEF PositionFor, PeriodPosition
<1>3. CASE a.period \in Units
  <2> DEFINE s == PeriodStart(a.period, d)
  <2> DEFINE e == PeriodEnd(a.period, d)
  <2>1. s \in Int /\ s <= d /\ e \in Int /\ d <= e
    BY <1>3, PeriodIs
  <2>2. a.period # "day"
    BY <1>3 DEF Units
  <2>3. PositionFor(a, d) = [index |-> d - s, days |-> e - s + 1]
    BY <1>1, <2>2 DEF PositionFor, PeriodPosition
  <2> HIDE DEF s, e
  <2> QED
    BY <2>1, <2>3
<1> QED
  BY <1>2, <1>3

LEMMA FixedAmountIsInt ==
  ASSUME NEW a, a.amount \in Int, a.period \in {"day"} \cup Units,
         NEW d \in Int, \A unit \in Units : CalendarHolds(unit, d)
  PROVE  DailyFixedPeriodAmount(a, d) \in Int
<1> DEFINE p == PositionFor(a, d)
<1>1. p.days \in Nat \ {0} /\ p.index + 1 \in 1 .. p.days
  BY PositionIs
<1> HIDE DEF p
<1>2. \A i \in 1 .. p.days : AllocateProportionally(a.amount, [j \in 1 .. p.days |-> 1])[i] \in Int
  BY <1>1, DaySharesAre
<1> QED
  BY <1>1, <1>2 DEF DailyFixedPeriodAmount, p

(* The days of a week, month or year carry its recurring cost to the penny.   *)
LEMMA FixedCostReturns ==
  ASSUME NEW a, a.amount \in Int, a.period \in Units, NEW d \in Int, CalendarHolds(a.period, d)
  PROVE  SumOver(PeriodStart(a.period, d) .. PeriodEnd(a.period, d), LAMBDA x : DailyFixedPeriodAmount(a, x))
           = ToPence(a.amount)
<1> DEFINE s == PeriodStart(a.period, d)
<1> DEFINE e == PeriodEnd(a.period, d)
<1> DEFINE n == e - s + 1
<1> DEFINE shares == AllocateProportionally(a.amount, [i \in 1 .. n |-> 1])
<1> DEFINE S == s .. e
<1> DEFINE f == [x \in S |-> DailyFixedPeriodAmount(a, x)]
<1>1. s \in Int /\ s <= d /\ e \in Int /\ d <= e
  BY PeriodIs
<1>2. a.period # "none" /\ a.period # "day"
  BY DEF Units
<1>3. \A x \in S : f[x] = shares[x - s + 1]
  <2> SUFFICES ASSUME NEW x \in S PROVE DailyFixedPeriodAmount(a, x) = shares[x - s + 1]
    OBVIOUS
  <2>1. PeriodStart(a.period, x) = s /\ PeriodEnd(a.period, x) = e
    BY SamePeriod
  <2>2. PositionFor(a, x) = [index |-> x - s, days |-> n]
    BY <1>2, <2>1 DEF PositionFor, PeriodPosition
  <2> HIDE DEF s, e, n
  <2> QED
    BY <2>2 DEF DailyFixedPeriodAmount
<1>4. n \in Nat \ {0} /\ S = s .. e /\ n = e - s + 1
  BY <1>1
<1>5. (\A i \in 1 .. n : shares[i] \in Int) /\ SumIn(shares, 1 .. n) = ToPence(a.amount)
  <2> HIDE DEF n
  <2> QED
    BY <1>4, DaySharesAre
<1> DEFINE b == [x \in S |-> x - s + 1]
<1>6. IsFiniteSet(S)
  BY <1>1, FS_Interval
<1>7. DOMAIN f = S
  OBVIOUS
<1> HIDE DEF f, shares, n, s, e, S
<1>8. \A x \in S : b[x] \in 1 .. n /\ b[x] = x - s + 1
  BY <1>1, <1>4
<1>9. {b[x] : x \in S} = 1 .. n
  <2>1. \A i \in 1 .. n : i + s - 1 \in S /\ b[i + s - 1] = i
    BY <1>1, <1>4
  <2> QED
    BY <1>8, <2>1
<1>10. \A x, y \in S : b[x] = b[y] => x = y
  BY <1>1, <1>4
<1>11. \A x \in S : f[x] \in Int /\ shares[b[x]] = f[x]
  BY <1>3, <1>5, <1>8
<1> HIDE DEF b
<1>12. SumIn(shares, {b[x] : x \in S}) = SumIn(f, S)
  BY <1>6, <1>10, <1>11, SumRenamed
<1>13. SumFunction(f) = SumIn(f, S)
  BY <1>7, SumIsSumIn
<1> QED
  BY <1>5, <1>9, <1>12, <1>13 DEF SumOver, f, S, s, e

(*--------------------------- the numbers of a row ------------------------*)
LEMMA ColumnIsInt ==
  ASSUME NEW S, IsFiniteSet(S), NEW c, \A x \in S : x[c] \in Int
  PROVE  SumFunction([x \in S |-> x[c]]) \in Int
<1> DEFINE f == [x \in S |-> x[c]]
<1>1. DOMAIN f = S /\ \A x \in S : f[x] \in Int
  OBVIOUS
<1> HIDE DEF f
<1>2. SumFunction(f) \in Int
  BY <1>1, TotalIsInt
<1> QED
  BY <1>2 DEF f

(* What a day is made of, in numbers.                                         *)
DayTyped(orders, refunds, spend, expenses, reversal, fixedCosts) ==
  /\ IsFiniteSet(orders) /\ IsFiniteSet(refunds) /\ IsFiniteSet(spend) /\ IsFiniteSet(expenses)
  /\ \A o \in orders : /\ o.grossSales \in Int /\ o.discounts \in Int /\ o.shippingRevenue \in Int
                       /\ \A c \in Components : o.costs[c] \in Int
  /\ \A r \in refunds : r.amount \in Int
  /\ \A s \in spend : s.spend \in Int
  /\ \A e \in expenses : e.amount \in Int
  /\ reversal \in Int /\ fixedCosts \in Int

(* The walk of a row, one line of it from another.                            *)
RowHolds(r) ==
  /\ \A f \in SummedFields \cup {"otherAcquisitionSpend"} : r[f] \in Int
  /\ \A c \in Components : r.costs[c] \in Int
  /\ r.netRevenue = r.grossSales - r.discounts + r.shippingRevenue - r.refunds
  /\ r.cm1 = r.netRevenue - Cm1Costs(r.costs)
  /\ r.advertisingSpend = r.metaAdSpend + r.tiktokAdSpend + r.otherAcquisitionSpend
  /\ r.cm2 = r.cm1 - r.advertisingSpend
  /\ r.cm3 = r.cm2 - Cm3Costs(r.costs)
  /\ r.operatingProfit = r.cm3 - r.fixedOperatingCosts

LEMMA CostTotalsAreInt ==
  ASSUME NEW costs, \A c \in Components : costs[c] \in Int
  PROVE  /\ Cm1Costs(costs) \in Int /\ Cm3Costs(costs) \in Int
         /\ SumFunction([c \in Components |-> costs[c]]) = Cm1Costs(costs) + Cm3Costs(costs)
<1> DEFINE f == [c \in Components |-> costs[c]]
<1> DEFINE p == [c \in ProductComponents |-> costs[c]]
<1> DEFINE q == [c \in OperatingComponents |-> costs[c]]
<1>1. /\ Cm1Costs(costs) = SumFunction(p) /\ Cm3Costs(costs) = SumFunction(q)
      /\ DOMAIN f = Components /\ DOMAIN p = ProductComponents /\ DOMAIN q = OperatingComponents
  BY DEF Cm1Costs, Cm3Costs, SumOver
<1>2. Components = ProductComponents \cup OperatingComponents
  BY DEF Components
<1>3. \A c \in Components : f[c] \in Int /\ f[c] = costs[c]
  OBVIOUS
<1>4. (\A c \in ProductComponents : p[c] = costs[c]) /\ (\A c \in OperatingComponents : q[c] = costs[c])
  OBVIOUS
<1> HIDE DEF f, p, q
<1>5. SumIn(f, Components) = SumIn(f, ProductComponents) + SumIn(f, OperatingComponents)
  BY <1>2, <1>3, ComponentsAreFinite, SumUnion
<1>6. SumIn(f, ProductComponents) = SumIn(p, ProductComponents)
      /\ SumIn(f, OperatingComponents) = SumIn(q, OperatingComponents)
  BY <1>2, <1>3, <1>4, ComponentsAreFinite, SumCongruent
<1>7. SumFunction(p) \in Int /\ SumFunction(q) \in Int
  BY <1>1, <1>2, <1>3, <1>4, ComponentsAreFinite, TotalIsInt
<1>8. SumFunction(f) = SumFunction(p) + SumFunction(q)
  BY <1>1, <1>5, <1>6, SumIsSumIn
<1> QED
  BY <1>1, <1>7, <1>8 DEF f

LEMMA DayCostsAreInt ==
  ASSUME NEW orders, IsFiniteSet(orders), \A o \in orders : \A c \in Components : o.costs[c] \in Int,
         NEW expenses, IsFiniteSet(expenses), \A e \in expenses : e.amount \in Int, NEW reversal \in Int
  PROVE  \A c \in Components : DayCosts(orders, reversal, expenses)[c] \in Int
<1> DEFINE sums == Table([c \in Components |-> SumOver(orders, LAMBDA o : o.costs[c])])
<1>1. sums = [c \in Components |-> SumFunction([o \in orders |-> o.costs[c]])]
  BY TableIs DEF SumOver
<1>2. ASSUME NEW c \in Components PROVE SumFunction([o \in orders |-> o.costs[c]]) \in Int
  <2> DEFINE f == [o \in orders |-> o.costs[c]]
  <2>1. DOMAIN f = orders /\ \A o \in orders : f[o] \in Int
    OBVIOUS
  <2> HIDE DEF f
  <2>2. SumFunction(f) \in Int
    BY <2>1, TotalIsInt
  <2> QED
    BY <2>2 DEF f
<1>3. sums \in [Components -> Int]
  BY <1>1, <1>2
<1>4. \A bucket : ExpenseTotal(expenses, bucket) \in Int
  <2> SUFFICES ASSUME NEW bucket PROVE ExpenseTotal(expenses, bucket) \in Int
    OBVIOUS
  <2> DEFINE S == {e \in expenses : e.bucket = bucket}
  <2>1. IsFiniteSet(S) /\ \A e \in S : e["amount"] \in Int
    BY FS_Subset
  <2>2. ExpenseTotal(expenses, bucket) = SumFunction([e \in S |-> e["amount"]])
    BY DEF ExpenseTotal, SumOver
  <2> HIDE DEF S
  <2> QED
    BY <2>1, <2>2, ColumnIsInt
<1>5. DayCosts(orders, reversal, expenses)
        = [sums EXCEPT !["productCogs"] = @ - reversal,
                       !["otherVariableProductCosts"] = @ + ExpenseTotal(expenses, "cm1"),
                       !["otherVariableOperatingCosts"] = @ + ExpenseTotal(expenses, "cm3")]
  BY DEF DayCosts
<1> HIDE DEF sums
<1>6. ExpenseTotal(expenses, "cm1") \in Int /\ ExpenseTotal(expenses, "cm3") \in Int
  BY <1>4
<1> DEFINE one == [sums EXCEPT !["productCogs"] = @ - reversal]
<1> DEFINE two == [one EXCEPT !["otherVariableProductCosts"] = @ + ExpenseTotal(expenses, "cm1")]
<1>7. one \in [Components -> Int]
  BY <1>3 DEF Components, ProductComponents
<1>8. two \in [Components -> Int]
  <2> HIDE DEF one
  <2> QED
    BY <1>6, <1>7 DEF Components, ProductComponents
<1>9. DayCosts(orders, reversal, expenses)
        = [two EXCEPT !["otherVariableOperatingCosts"] = @ + ExpenseTotal(expenses, "cm3")]
  BY <1>5
<1>10. DayCosts(orders, reversal, expenses) \in [Components -> Int]
  <2> HIDE DEF two
  <2> QED
    BY <1>6, <1>8, <1>9 DEF Components, OperatingComponents
<1> QED
  BY <1>10

LEMMA PartIsInt ==
  ASSUME NEW S, IsFiniteSet(S), NEW T, T \subseteq S, NEW c, \A x \in S : x[c] \in Int
  PROVE  SumFunction([x \in T |-> x[c]]) \in Int
<1>1. IsFiniteSet(T) /\ \A x \in T : x[c] \in Int
  BY FS_Subset
<1> QED
  BY <1>1, ColumnIsInt

LEMMA SizeIsInt ==
  ASSUME NEW S, IsFiniteSet(S), NEW T, T \subseteq S
  PROVE  Cardinality(T) \in Int
  BY FS_Subset, FS_CardinalityType

LEMMA DayRowIs ==
  ASSUME NEW d, NEW orders, NEW refunds, NEW spend, NEW expenses, NEW reversal, NEW fixedCosts, NEW warnings,
         DayTyped(orders, refunds, spend, expenses, reversal, fixedCosts)
  PROVE  LET r == DayRow(d, orders, refunds, spend, expenses, reversal, fixedCosts, warnings)
         IN  /\ RowHolds(r)
             /\ r.metaAdSpend = SpendTotal(spend, "meta") /\ r.tiktokAdSpend = SpendTotal(spend, "tiktok")
             /\ r.otherAcquisitionSpend = ExpenseTotal(expenses, "cm2")
             /\ r.newCustomers = Cardinality({o \in orders : o.isNew})
<1> DEFINE r == DayRow(d, orders, refunds, spend, expenses, reversal, fixedCosts, warnings)
<1> DEFINE costs == DayCosts(orders, reversal, expenses)
<1> DEFINE gross == SumOver(orders, LAMBDA o : o["grossSales"])
<1> DEFINE discounts == SumOver(orders, LAMBDA o : o["discounts"])
<1> DEFINE shipping == SumOver(orders, LAMBDA o : o["shippingRevenue"])
<1> DEFINE refunded == SumOver(refunds, LAMBDA x : x.amount)
<1> DEFINE meta == SpendTotal(spend, "meta")
<1> DEFINE tiktok == SpendTotal(spend, "tiktok")
<1> DEFINE other == ExpenseTotal(expenses, "cm2")
<1> DEFINE fixed == fixedCosts + ExpenseTotal(expenses, "fixed_operating")
<1> DEFINE net == gross - discounts + shipping - refunded
<1> DEFINE walk == DayWalk(net, costs, meta + tiktok + other, fixed)
<1>1. /\ r.grossSales = gross /\ r.discounts = discounts /\ r.shippingRevenue = shipping /\ r.refunds = refunded
      /\ r.netRevenue = walk.netRevenue /\ r.costs = walk.costs /\ r.cm1 = walk.cm1
      /\ r.metaAdSpend = meta /\ r.tiktokAdSpend = tiktok /\ r.otherAcquisitionSpend = other
      /\ r.advertisingSpend = walk.advertisingSpend /\ r.cm2 = walk.cm2 /\ r.cm3 = walk.cm3
      /\ r.fixedOperatingCosts = walk.fixedOperatingCosts /\ r.operatingProfit = walk.operatingProfit
      /\ r.orders = Cardinality(orders) /\ r.newCustomers = Cardinality({o \in orders : o.isNew})
  BY Zenon DEF DayRow
<1>2. /\ walk.netRevenue = net /\ walk.costs = costs /\ walk.cm1 = net - Cm1Costs(costs)
      /\ walk.advertisingSpend = meta + tiktok + other /\ walk.cm2 = walk.cm1 - walk.advertisingSpend
      /\ walk.cm3 = walk.cm2 - Cm3Costs(costs) /\ walk.fixedOperatingCosts = fixed
      /\ walk.operatingProfit = walk.cm3 - fixed
  BY DEF DayWalk
<1>3. gross \in Int /\ discounts \in Int /\ shipping \in Int
  <2>1. /\ IsFiniteSet(orders)
        /\ \A o \in orders : o["grossSales"] \in Int /\ o["discounts"] \in Int /\ o["shippingRevenue"] \in Int
    BY DEF DayTyped
  <2> QED
    BY <2>1, ColumnIsInt DEF SumOver
<1>4. refunded \in Int
  <2>1. IsFiniteSet(refunds) /\ \A x \in refunds : x["amount"] \in Int
    BY DEF DayTyped
  <2> QED
    BY <2>1, ColumnIsInt DEF SumOver
<1>5. meta \in Int /\ tiktok \in Int
  <2>1. IsFiniteSet(spend) /\ \A x \in spend : x["spend"] \in Int
    BY DEF DayTyped
  <2>2. \A T : T \subseteq spend => SumFunction([s \in T |-> s["spend"]]) \in Int
    BY <2>1, PartIsInt
  <2>3. \A platform : SpendTotal(spend, platform) = SumFunction([s \in {x \in spend : x.platform = platform} |-> s["spend"]])
    BY DEF SpendTotal, SumOver
  <2>4. \A platform : {x \in spend : x.platform = platform} \subseteq spend
    OBVIOUS
  <2> QED
    BY <2>2, <2>3, <2>4
<1>6. other \in Int /\ fixed \in Int
  <2>1. IsFiniteSet(expenses) /\ (\A x \in expenses : x["amount"] \in Int) /\ fixedCosts \in Int
    BY DEF DayTyped
  <2>2. \A T : T \subseteq expenses => SumFunction([e \in T |-> e["amount"]]) \in Int
    BY <2>1, PartIsInt
  <2>3. \A bucket : ExpenseTotal(expenses, bucket) = SumFunction([e \in {x \in expenses : x.bucket = bucket} |-> e["amount"]])
    BY DEF ExpenseTotal, SumOver
  <2>4. \A bucket : {x \in expenses : x.bucket = bucket} \subseteq expenses
    OBVIOUS
  <2>5. \A bucket : ExpenseTotal(expenses, bucket) \in Int
    BY <2>2, <2>3, <2>4
  <2> QED
    BY <2>1, <2>5
<1>7. \A c \in Components : costs[c] \in Int
  <2>1. /\ IsFiniteSet(orders) /\ IsFiniteSet(expenses) /\ reversal \in Int
        /\ \A o \in orders : \A c \in Components : o.costs[c] \in Int
        /\ \A e \in expenses : e.amount \in Int
    BY DEF DayTyped
  <2> QED
    BY <2>1, DayCostsAreInt
<1>8. Cm1Costs(costs) \in Int /\ Cm3Costs(costs) \in Int
  BY <1>7, CostTotalsAreInt
<1>9. Cardinality(orders) \in Int /\ Cardinality({o \in orders : o.isNew}) \in Int
  <2>1. IsFiniteSet(orders) /\ {o \in orders : o.isNew} \subseteq orders
    BY DEF DayTyped
  <2> QED
    BY <2>1, SizeIsInt
<1> HIDE DEF costs, gross, discounts, shipping, refunded, meta, tiktok, other, fixed
<1>10. net \in Int
  BY <1>3, <1>4
<1> HIDE DEF net
<1>11. walk.cm1 \in Int /\ walk.advertisingSpend \in Int
  BY <1>2, <1>5, <1>6, <1>8, <1>10
<1>12. walk.cm2 \in Int
  BY <1>2, <1>11
<1>13. walk.cm3 \in Int /\ walk.operatingProfit \in Int
  BY <1>2, <1>6, <1>8, <1>12
<1> HIDE DEF walk, r
<1>14. \A f \in SummedFields \cup {"otherAcquisitionSpend"} : r[f] \in Int
  BY <1>1, <1>2, <1>3, <1>4, <1>5, <1>6, <1>9, <1>10, <1>11, <1>12, <1>13 DEF SummedFields
<1>15. RowHolds(r)
  <2>1. r.netRevenue = r.grossSales - r.discounts + r.shippingRevenue - r.refunds
    BY <1>1, <1>2 DEF net
  <2>2. /\ \A c \in Components : r.costs[c] \in Int
        /\ r.cm1 = r.netRevenue - Cm1Costs(r.costs)
        /\ r.advertisingSpend = r.metaAdSpend + r.tiktokAdSpend + r.otherAcquisitionSpend
        /\ r.cm2 = r.cm1 - r.advertisingSpend
        /\ r.cm3 = r.cm2 - Cm3Costs(r.costs)
        /\ r.operatingProfit = r.cm3 - r.fixedOperatingCosts
    BY <1>1, <1>2, <1>7
  <2> QED
    BY <1>14, <2>1, <2>2 DEF RowHolds
<1> QED
  BY <1>1, <1>15 DEF r, meta, tiktok, other

(*------------------------- what a day is made of -------------------------*)
LEMMA PricedOfDay ==
  ASSUME NEW d
  PROVE  /\ IsFiniteSet(PricedOn(d))
         /\ \A o \in PricedOn(d) : /\ o.grossSales \in Int /\ o.discounts \in Int /\ o.shippingRevenue \in Int
                                   /\ \A c \in Components : o.costs[c] \in Int
<1>1. OrdersOn(d) \subseteq LiveOrders /\ LiveOrders \subseteq IdsOf("orders")
  BY DEF OrdersOn, LiveOrders, StoredIn
<1>2. IsFiniteSet(PricedOn(d))
  <2> DEFINE row == [id \in OrdersOn(d) |-> Priced(id)]
  <2>1. IsFiniteSet(OrdersOn(d))
    BY <1>1, RowsAreFinite
  <2>2. PricedOn(d) = {row[id] : id \in OrdersOn(d)}
    BY DEF PricedOn
  <2> HIDE DEF row
  <2> QED
    BY <2>1, <2>2, ImageIsFinite
<1>3. ASSUME NEW id \in OrdersOn(d)
      PROVE  LET p == Priced(id)
             IN  /\ p.grossSales \in Int /\ p.discounts \in Int /\ p.shippingRevenue \in Int
                 /\ \A c \in Components : p.costs[c] \in Int
  <2>1. id \in LiveOrders
    BY <1>1
  <2>2. Amounts(Priced(id), {"grossSales", "discounts", "shippingRevenue", "netRevenue"})
    BY <2>1, PricedIs
  <2>3. \A c \in Components : Priced(id).costs[c] \in Int
    BY <2>1, PricedIs
  <2> QED
    BY <2>2, <2>3 DEF Amounts
<1> QED
  BY <1>2, <1>3 DEF PricedOn

LEMMA RefundsAreTyped ==
  ASSUME NEW d
  PROVE  /\ IsFiniteSet(RefundRowsOn(d))
         /\ \A r \in RefundRowsOn(d) : r.amount \in Int /\ Listed(r.lines, {"quantity"})
<1>1. RefundsOn(d) \subseteq IdsOf("refunds")
  BY DEF RefundsOn, StoredIn
<1>2. IsFiniteSet(RefundRowsOn(d))
  <2> DEFINE row == [id \in RefundsOn(d) |-> RefundInput(id)]
  <2>1. IsFiniteSet(RefundsOn(d))
    BY <1>1, RowsAreFinite
  <2>2. RefundRowsOn(d) = {row[id] : id \in RefundsOn(d)}
    BY DEF RefundRowsOn
  <2> HIDE DEF row
  <2> QED
    BY <2>1, <2>2, ImageIsFinite
<1>3. ASSUME NEW id \in RefundsOn(d)
      PROVE  RefundInput(id).amount \in Int /\ Listed(RefundInput(id).lines, {"quantity"})
  <2>1. Amounts(Catalogue[id], {"total", "tax"}) /\ Listed(Catalogue[id].lines, {"quantity"})
    BY <1>1, AmountsAssumption
  <2>2. Catalogue[id].total \in Int /\ Catalogue[id].tax \in Int
    BY <2>1 DEF Amounts
  <2>3. RefundInput(id).amount = Catalogue[id].total - Catalogue[id].tax /\ RefundInput(id).lines = Catalogue[id].lines
    BY DEF RefundInput
  <2> QED
    BY <2>1, <2>2, <2>3
<1> QED
  BY <1>2, <1>3 DEF RefundRowsOn

LEMMA SpendIsTyped ==
  ASSUME NEW range
  PROVE  /\ IsFiniteSet(LoadAdSpend(range))
         /\ \A s \in LoadAdSpend(range) : s.spend \in Int /\ s.businessDate \in Int /\ InRange(s.businessDate, range)
<1> DEFINE S == {i \in StoredIn("adRows") : Catalogue[i].entity = "account" /\ InRange(Catalogue[i].date, range)}
<1> DEFINE row == [id \in S |->
      [platform |-> Catalogue[id].platform, businessDate |-> Catalogue[id].date,
       spend |-> Catalogue[id].spend, purchases |-> Catalogue[id].purchases,
       purchaseValue |-> Catalogue[id].purchaseValue, id |-> id]]
<1>1. LoadAdSpend(range) = {row[id] : id \in S}
  BY DEF LoadAdSpend
<1>2. S \subseteq IdsOf("adRows") /\ \A id \in S : InRange(Catalogue[id].date, range)
  BY DEF StoredIn
<1>3. \A id \in S : row[id].spend = Catalogue[id].spend /\ row[id].businessDate = Catalogue[id].date
  OBVIOUS
<1> HIDE DEF row, S
<1>4. IsFiniteSet(LoadAdSpend(range))
  <2>1. IsFiniteSet(S)
    BY <1>2, RowsAreFinite
  <2> QED
    BY <1>1, <2>1, ImageIsFinite
<1>5. \A id \in S : Catalogue[id].spend \in Int /\ Catalogue[id].date \in Int
  BY <1>2, AmountsAssumption, CatalogueAssumption
<1> QED
  BY <1>1, <1>2, <1>3, <1>4, <1>5

LEMMA ChargesAreTyped ==
  ASSUME NEW id \in IdsOf("transactions")
  PROVE  IsFiniteSet(ChargesOf(id)) /\ \A c \in ChargesOf(id) : c.amount \in Int
<1> DEFINE t == Catalogue[id]
<1> DEFINE sign == IF t.type = "RECEIVE" THEN -1 ELSE 1
<1>1. t.total \in Int /\ Listed(t.lines, {"amount", "tax"})
  BY AmountsAssumption
<1>2. /\ IsFiniteSet(DOMAIN t.lines)
      /\ \A i \in DOMAIN t.lines : t.lines[i].amount \in Int /\ t.lines[i].tax \in Int
  <2>1. \A i \in DOMAIN t.lines : \A c \in {"amount", "tax"} : t.lines[i][c] \in Int
    BY <1>1, ListedIs
  <2>2. \A i \in DOMAIN t.lines : t.lines[i].amount \in Int /\ t.lines[i].tax \in Int
    BY <2>1
  <2> QED
    BY <1>1, <2>2, ListedIs
<1>3. CASE t.lines # <<>>
  <2> DEFINE row == [i \in DOMAIN t.lines |-> [id |-> <<id, i>>, account |-> t.lines[i].account,
                                               amount |-> sign * (t.lines[i].amount + t.lines[i].tax)]]
  <2>1. ChargesOf(id) = {row[i] : i \in DOMAIN t.lines}
    BY <1>3 DEF ChargesOf
  <2>2. \A i \in DOMAIN t.lines : row[i].amount = sign * (t.lines[i].amount + t.lines[i].tax)
    OBVIOUS
  <2>3. \A i \in DOMAIN t.lines : row[i].amount \in Int
    <3>1. sign \in Int
      OBVIOUS
    <3> HIDE DEF sign, row
    <3> QED
      BY <1>2, <2>2, <3>1, ProductIsInt
  <2> HIDE DEF row
  <2>4. IsFiniteSet(ChargesOf(id))
    BY <1>2, <2>1, ImageIsFinite
  <2> QED
    BY <2>1, <2>3, <2>4
<1>4. CASE t.lines = <<>>
  <2> DEFINE whole == [id |-> <<id, 0>>, account |-> t.account, amount |-> sign * t.total]
  <2>1. ChargesOf(id) = {whole} /\ whole.amount = sign * t.total
    BY <1>4 DEF ChargesOf
  <2>2. sign * t.total \in Int
    <3>1. sign \in Int
      OBVIOUS
    <3> HIDE DEF sign
    <3> QED
      BY <1>1, <3>1, ProductIsInt
  <2> HIDE DEF whole, sign
  <2> QED
    BY <2>1, <2>2, FS_Singleton
<1> QED
  BY <1>3, <1>4

LEMMA ExpensesAreTyped ==
  ASSUME NEW range
  PROVE  /\ IsFiniteSet(LoadMappedExpenses(range))
         /\ \A e \in LoadMappedExpenses(range) : e.amount \in Int /\ e.businessDate \in Int /\ InRange(e.businessDate, range)
<1> DEFINE Bucket(c, d) == ExpenseBucket[(CHOOSE r \in RulesFor(c.account, d) : TRUE).category]
<1> DEFINE Kept(id) == {x \in ChargesOf(id) : /\ RulesFor(x.account, Catalogue[id].date) # {}
                                              /\ Bucket(x, Catalogue[id].date) # "none"}
<1> DEFINE row == [id \in DOMAIN Catalogue |-> [c \in Kept(id) |->
      [id |-> c.id, businessDate |-> Catalogue[id].date, bucket |-> Bucket(c, Catalogue[id].date), amount |-> c.amount]]]
<1> DEFINE S == {i \in StoredIn("transactions") : InRange(Catalogue[i].date, range)}
<1> DEFINE mapped == [id \in S |-> {row[id][c] : c \in Kept(id)}]
<1> DEFINE Rows == {mapped[id] : id \in S}
<1>1. S \subseteq IdsOf("transactions") /\ S \subseteq DOMAIN Catalogue /\ \A id \in S : InRange(Catalogue[id].date, range)
  BY DEF StoredIn, IdsOf
<1> DEFINE Mapped(id) ==
      {[id |-> c.id, businessDate |-> Catalogue[id].date, bucket |-> Bucket(c, Catalogue[id].date), amount |-> c.amount]
         : c \in Kept(id)}
<1>2. LoadMappedExpenses(range) = UNION Rows
  <2>1. LoadMappedExpenses(range) = UNION {Mapped(id) : id \in S}
    BY DEF LoadMappedExpenses
  <2>2. \A id \in S : Mapped(id) = {row[id][c] : c \in Kept(id)}
    <3> HIDE DEF Kept, Bucket, S
    <3> QED
      BY <1>1
  <2> HIDE DEF Mapped, row, Kept, Bucket, S
  <2> QED
    BY <2>1, <2>2
<1>3. \A id \in S : \A c \in Kept(id) : row[id][c].amount = c.amount /\ row[id][c].businessDate = Catalogue[id].date
  BY <1>1
<1>4. \A id \in S : Kept(id) \subseteq ChargesOf(id)
  OBVIOUS
<1>5. \A id \in S : mapped[id] = {row[id][c] : c \in Kept(id)}
  OBVIOUS
<1> HIDE DEF Bucket, Kept, row, S, mapped
<1>6. ASSUME NEW id \in S
      PROVE  /\ IsFiniteSet(mapped[id])
             /\ \A e \in mapped[id] : e.amount \in Int /\ e.businessDate \in Int /\ InRange(e.businessDate, range)
  <2>1. IsFiniteSet(ChargesOf(id)) /\ \A c \in ChargesOf(id) : c.amount \in Int
    BY <1>1, ChargesAreTyped
  <2>2. IsFiniteSet(Kept(id))
    BY <1>4, <2>1, FS_Subset
  <2>3. IsFiniteSet({row[id][c] : c \in Kept(id)})
    <3> DEFINE f == row[id]
    <3> DEFINE T == {f[c] : c \in Kept(id)}
    <3> HIDE DEF f
    <3>1. IsFiniteSet(T)
      BY <2>2, ImageIsFinite
    <3> QED
      BY <3>1 DEF f
  <2>4. Catalogue[id].date \in Int /\ InRange(Catalogue[id].date, range)
    BY <1>1, CatalogueAssumption
  <2>5. mapped[id] = {row[id][c] : c \in Kept(id)}
    BY <1>5
  <2>6. \A c \in Kept(id) : /\ row[id][c].amount \in Int
                            /\ row[id][c].businessDate = Catalogue[id].date
    BY <1>3, <1>4, <2>1
  <2> QED
    BY <2>3, <2>4, <2>5, <2>6
<1>7. IsFiniteSet(Rows)
  <2>1. IsFiniteSet(S)
    BY <1>1, RowsAreFinite
  <2> QED
    BY <2>1, ImageIsFinite
<1>8. \A T \in Rows : /\ IsFiniteSet(T)
                      /\ \A e \in T : e.amount \in Int /\ e.businessDate \in Int /\ InRange(e.businessDate, range)
  BY <1>6
<1> HIDE DEF Rows
<1>9. IsFiniteSet(UNION Rows)
  BY <1>7, <1>8, FS_UNION
<1> QED
  BY <1>2, <1>8, <1>9

LEMMA UnitsValueIsInt ==
  ASSUME NEW lines, Listed(lines, {"quantity"}), NEW costs, UnitCostsTyped(costs)
  PROVE  UnitsValue(lines, costs) \in Int
<1> DEFINE S == {i \in DOMAIN lines : lines[i].variant \in DOMAIN costs}
<1> DEFINE f == [i \in S |-> costs[lines[i].variant].productCogs * lines[i].quantity]
<1>1. UnitsValue(lines, costs) = SumFunction(f)
  BY DEF UnitsValue, SumOver
<1>2. IsFiniteSet(S)
  BY ListedIs, FS_Subset
<1>3. \A i \in DOMAIN lines : lines[i].quantity \in Int
  BY ListedIs
<1>4. \A v \in DOMAIN costs : costs[v].productCogs \in Int
  BY DEF UnitCostsTyped, Components, ProductComponents
<1>5. DOMAIN f = S /\ \A i \in S : f[i] \in Int
  BY <1>3, <1>4, ProductIsInt
<1> HIDE DEF f, S
<1> QED
  BY <1>1, <1>2, <1>5, TotalIsInt

LEMMA ReversalIsInt ==
  ASSUME NEW d, NEW allocated
  PROVE  RefundReversal(RefundRowsOn(d), allocated, LoadAllocationContext, Policy) \in Int
<1> DEFINE Of(r) == {o \in allocated : o.externalId = r.order}
<1> DEFINE S == {r \in RefundRowsOn(d) : ShouldReverseCogs(Policy, r.restocked) /\ Of(r) # {}}
<1> DEFINE f == [r \in S |-> UnitsValue(r.lines, UnitCostsOn((CHOOSE o \in Of(r) : TRUE).businessDate))]
<1>1. RefundReversal(RefundRowsOn(d), allocated, LoadAllocationContext, Policy) = SumFunction(f)
  BY DEF RefundReversal, SumOver, UnitCostsOn
<1>2. S \subseteq RefundRowsOn(d)
  OBVIOUS
<1>3. IsFiniteSet(S) /\ \A r \in S : Listed(r.lines, {"quantity"})
  BY <1>2, RefundsAreTyped, FS_Subset
<1>4. DOMAIN f = S /\ \A r \in S : f[r] \in Int
  <2>1. \A r \in S : f[r] = UnitsValue(r.lines, UnitCostsOn((CHOOSE o \in Of(r) : TRUE).businessDate))
    OBVIOUS
  <2>2. DOMAIN f = S
    OBVIOUS
  <2> HIDE DEF f, S, Of
  <2> QED
    BY <1>3, <2>1, <2>2, UnitCostsAreTyped, UnitsValueIsInt
<1> HIDE DEF f, S
<1> QED
  BY <1>1, <1>3, <1>4, TotalIsInt

LEMMA FixedCostsAreInt ==
  ASSUME NEW d \in Int, \A unit \in Units : CalendarHolds(unit, d), NEW bucket
  PROVE  DailyFixedCosts(LoadAllocationContext.assumptions, bucket, d) \in Int
<1> DEFINE A == {Catalogue[id] : id \in StoredIn("assumptions")}
<1> DEFINE S == {a \in A : IsEffectiveOn(a, d) /\ a.basis = "fixed_period" /\ a.bucket = bucket}
<1> DEFINE T == {a \in ResolveAssumptions(LoadAllocationContext.assumptions, d).fixedPeriod : a.bucket = bucket}
<1>1. T = S
  BY DEF LoadAllocationContext, ResolveAssumptions, ResolveAllEffective
<1>2. \A a \in S : a.amount \in Int /\ a.period \in {"day"} \cup Units
  BY AmountsAssumption DEF StoredIn
<1>3. IsFiniteSet(S)
  <2>1. IsFiniteSet(A)
    BY RowsAreFinite DEF StoredIn
  <2> HIDE DEF A
  <2> QED
    BY <2>1, FS_Subset
<1> DEFINE f == [a \in T |-> DailyFixedPeriodAmount(a, d)]
<1>4. DailyFixedCosts(LoadAllocationContext.assumptions, bucket, d) = SumFunction(f)
  BY DEF DailyFixedCosts, SumOver
<1> HIDE DEF S
<1>5. \A a \in S : DailyFixedPeriodAmount(a, d) \in Int
  BY <1>2, FixedAmountIsInt
<1> HIDE DEF T
<1>6. DOMAIN f = S /\ \A a \in S : f[a] \in Int
  BY <1>1, <1>5
<1> HIDE DEF f
<1> QED
  BY <1>3, <1>4, <1>6, TotalIsInt

(* Every day of the calendar has a row whose walk holds.                      *)
LEMMA RowIs ==
  ASSUME NEW d \in Int, \A unit \in Units : CalendarHolds(unit, d)
  PROVE  /\ RowHolds(Row(d))
         /\ Row(d).metaAdSpend = SpendTotal(SpendOn(d), "meta")
         /\ Row(d).tiktokAdSpend = SpendTotal(SpendOn(d), "tiktok")
         /\ Row(d).otherAcquisitionSpend = ExpenseTotal(ExpensesOn(d), "cm2")
         /\ Row(d).newCustomers = Cardinality({o \in PricedOn(d) : o.isNew})
<1> DEFINE reversal == RefundReversal(RefundRowsOn(d), PricedOrders, LoadAllocationContext, Policy)
<1> DEFINE fixed == DailyFixedCosts(LoadAllocationContext.assumptions, "fixed_operating", d)
<1> DEFINE warnings == DayWarnings(PricedOn(d), RefundRowsOn(d), ExpensesOn(d), PricedOrders,
                                   LoadAllocationContext, Policy, d)
<1>1. Row(d) = DayRow(d, PricedOn(d), RefundRowsOn(d), SpendOn(d), ExpensesOn(d), reversal, fixed, warnings)
  BY DEF Row
<1>2. SpendOn(d) \subseteq LoadAdSpend(Day(d)) /\ ExpensesOn(d) \subseteq LoadMappedExpenses(Day(d))
  BY DEF SpendOn, ExpensesOn
<1>3. /\ IsFiniteSet(SpendOn(d)) /\ \A s \in SpendOn(d) : s.spend \in Int
      /\ IsFiniteSet(ExpensesOn(d)) /\ \A e \in ExpensesOn(d) : e.amount \in Int
  BY <1>2, SpendIsTyped, ExpensesAreTyped, FS_Subset
<1>4. reversal \in Int /\ fixed \in Int
  BY ReversalIsInt, FixedCostsAreInt
<1> HIDE DEF reversal, fixed, warnings
<1>5. DayTyped(PricedOn(d), RefundRowsOn(d), SpendOn(d), ExpensesOn(d), reversal, fixed)
  BY <1>3, <1>4, PricedOfDay, RefundsAreTyped DEF DayTyped
<1> QED
  BY <1>1, <1>5, DayRowIs

(*------------------------------ the walk agrees --------------------------*)
(* Day by day: the row is the walk as calculations.ts states it.              *)
LEMMA StatedWalkIs ==
  ASSUME NEW r, RowHolds(r)
  PROVE  \A f \in {"netRevenue", "cm1", "advertisingSpend", "cm2", "cm3", "operatingProfit"} :
           CalculateDailyFinancials(r)[f] = r[f]
<1> DEFINE net == r.grossSales + r.shippingRevenue - r.discounts - r.refunds
<1> DEFINE cm1 == net - Cm1Costs(r.costs)
<1> DEFINE advertising == r.metaAdSpend + r.tiktokAdSpend + r.otherAcquisitionSpend
<1> DEFINE cm2 == cm1 - advertising
<1> DEFINE cm3 == cm2 - Cm3Costs(r.costs)
<1> DEFINE walk == CalculateDailyFinancials(r)
<1>1. /\ walk.netRevenue = net /\ walk.cm1 = cm1 /\ walk.advertisingSpend = advertising /\ walk.cm2 = cm2
      /\ walk.cm3 = cm3 /\ walk.operatingProfit = cm3 - r.fixedOperatingCosts
  BY DEF CalculateDailyFinancials
<1>2. r.grossSales \in Int /\ r.discounts \in Int /\ r.shippingRevenue \in Int /\ r.refunds \in Int
  BY DEF RowHolds, SummedFields
<1>3. net = r.netRevenue
  BY <1>2 DEF RowHolds
<1>4. cm1 = r.cm1 /\ advertising = r.advertisingSpend
  BY <1>3 DEF RowHolds
<1>5. cm2 = r.cm2
  BY <1>4 DEF RowHolds
<1>6. cm3 = r.cm3 /\ cm3 - r.fixedOperatingCosts = r.operatingProfit
  BY <1>5 DEF RowHolds
<1> HIDE DEF walk, net, cm1, advertising, cm2, cm3
<1>7. /\ walk["netRevenue"] = r["netRevenue"] /\ walk["cm1"] = r["cm1"]
      /\ walk["advertisingSpend"] = r["advertisingSpend"] /\ walk["cm2"] = r["cm2"]
      /\ walk["cm3"] = r["cm3"] /\ walk["operatingProfit"] = r["operatingProfit"]
  BY <1>1, <1>3, <1>4, <1>5, <1>6
<1> QED
  BY <1>7 DEF walk

LEMMA MinusAdds == \A a, b \in Int : (a - b) + b = a
  OBVIOUS

LEMMA SumMinus ==
  ASSUME NEW f, NEW g, NEW h, NEW S, IsFiniteSet(S),
         \A x \in S : f[x] \in Int /\ g[x] \in Int /\ h[x] = f[x] - g[x]
  PROVE  SumIn(h, S) = SumIn(f, S) - SumIn(g, S)
<1>1. \A x \in S : h[x] \in Int /\ f[x] = h[x] + g[x]
  BY MinusAdds
<1>2. SumIn(f, S) = SumIn(h, S) + SumIn(g, S)
  BY <1>1, SumPlus
<1>3. SumIn(h, S) \in Int /\ SumIn(g, S) \in Int
  BY <1>1, SumType
<1> QED
  BY <1>2, <1>3

(* Rows of days, and the sum of one of their columns.                         *)
RowsHold(rows) == IsFiniteSet(DOMAIN rows) /\ \A d \in DOMAIN rows : RowHolds(rows[d])
ColumnOf(rows, f) == [d \in DOMAIN rows |-> rows[d][f]]
ColumnTotal(rows, f) == SumIn(ColumnOf(rows, f), DOMAIN rows)

LEMMA TotalsAre ==
  ASSUME NEW rows, NEW f \in SummedFields
  PROVE  SummariseDailyFinancials(rows).total[f] = ColumnTotal(rows, f)
<1> DEFINE totals == Table([g \in SummedFields |-> SumOver(DOMAIN rows, LAMBDA d : rows[d][g])])
<1>1. totals[f] = SumFunction(ColumnOf(rows, f))
  BY TableIs DEF SumOver, ColumnOf
<1>2. SummariseDailyFinancials(rows).total = totals
  BY DEF SummariseDailyFinancials, Summary
<1>3. DOMAIN ColumnOf(rows, f) = DOMAIN rows
  BY DEF ColumnOf
<1> QED
  BY <1>1, <1>2, <1>3, SumIsSumIn DEF ColumnTotal

LEMMA ColumnIs ==
  ASSUME NEW rows, RowsHold(rows)
  PROVE  \A f \in SummedFields \cup {"otherAcquisitionSpend"} : \A d \in DOMAIN rows :
           ColumnOf(rows, f)[d] = rows[d][f] /\ ColumnOf(rows, f)[d] \in Int
  BY DEF RowsHold, RowHolds, ColumnOf

(* Line by line over the period: each cost line summed over the days first.   *)
LEMMA CostLinesAddUp ==
  ASSUME NEW rows, RowsHold(rows)
  PROVE  SumOver(Components, LAMBDA c : SumOver(DOMAIN rows, LAMBDA d : rows[d].costs[c]))
           = SumIn([d \in DOMAIN rows |-> Cm1Costs(rows[d].costs) + Cm3Costs(rows[d].costs)], DOMAIN rows)
<1> DEFINE S == DOMAIN rows
<1> DEFINE F == [d \in S |-> [c \in Components |-> rows[d].costs[c]]]
<1> DEFINE G == [c \in Components |-> [d \in S |-> rows[d].costs[c]]]
<1> DEFINE costs == [d \in S |-> Cm1Costs(rows[d].costs) + Cm3Costs(rows[d].costs)]
<1> DEFINE lines == [c \in Components |-> SumFunction([d \in S |-> rows[d].costs[c]])]
<1>1. \A d \in S, c \in Components : F[d][c] \in Int /\ G[c][d] = F[d][c]
  BY DEF RowsHold, RowHolds
<1>2. \A d \in S : costs[d] = SumIn(F[d], Components)
  <2> SUFFICES ASSUME NEW d \in S PROVE SumIn(F[d], Components) = Cm1Costs(rows[d].costs) + Cm3Costs(rows[d].costs)
    OBVIOUS
  <2>1. \A c \in Components : rows[d].costs[c] \in Int
    BY <1>1
  <2>2. SumFunction([c \in Components |-> rows[d].costs[c]]) = Cm1Costs(rows[d].costs) + Cm3Costs(rows[d].costs)
    BY <2>1, CostTotalsAreInt
  <2>3. F[d] = [c \in Components |-> rows[d].costs[c]] /\ DOMAIN F[d] = Components
    OBVIOUS
  <2> HIDE DEF F
  <2> QED
    BY <2>2, <2>3, SumIsSumIn
<1>3. \A c \in Components : lines[c] = SumIn(G[c], S)
  <2> SUFFICES ASSUME NEW c \in Components PROVE lines[c] = SumIn(G[c], S)
    OBVIOUS
  <2> DEFINE column == [d \in S |-> rows[d].costs[c]]
  <2>1. G[c] = column /\ lines[c] = SumFunction(column) /\ DOMAIN column = S
    OBVIOUS
  <2> HIDE DEF column, G, S, lines
  <2> QED
    BY <2>1, SumIsSumIn
<1>4. IsFiniteSet(S)
  BY DEF RowsHold
<1>5. SumIn(costs, S) = SumIn(lines, Components)
  <2> HIDE DEF F, G, S, costs, lines
  <2>1. RowsAndColumns(S, Components, F, G, costs, lines)
    BY <1>1, <1>2, <1>3, <1>4, ComponentsAreFinite DEF RowsAndColumns
  <2> QED
    BY <2>1, SumsExchange
<1>6. SumOver(Components, LAMBDA c : SumOver(DOMAIN rows, LAMBDA d : rows[d].costs[c])) = SumFunction(lines)
  BY DEF SumOver
<1>7. DOMAIN lines = Components
  OBVIOUS
<1> HIDE DEF lines, costs
<1>8. SumFunction(lines) = SumIn(lines, Components)
  BY <1>7, SumIsSumIn
<1> QED
  BY <1>5, <1>6, <1>8 DEF costs

LEMMA ProfitOfDay ==
  ASSUME NEW r, RowHolds(r)
  PROVE  /\ Cm1Costs(r.costs) + Cm3Costs(r.costs) \in Int
         /\ r.operatingProfit
              = r.grossSales - r.discounts + r.shippingRevenue - r.refunds
                  - (Cm1Costs(r.costs) + Cm3Costs(r.costs)) - r.advertisingSpend - r.fixedOperatingCosts
<1> DEFINE p == Cm1Costs(r.costs)
<1> DEFINE q == Cm3Costs(r.costs)
<1>1. p \in Int /\ q \in Int
  BY CostTotalsAreInt DEF RowHolds
<1>2. /\ r.netRevenue \in Int /\ r.advertisingSpend \in Int /\ r.fixedOperatingCosts \in Int
      /\ r.netRevenue = r.grossSales - r.discounts + r.shippingRevenue - r.refunds
      /\ r.grossSales \in Int /\ r.discounts \in Int /\ r.shippingRevenue \in Int /\ r.refunds \in Int
  BY DEF RowHolds, SummedFields
<1>3. r.operatingProfit = r.netRevenue - p - r.advertisingSpend - q - r.fixedOperatingCosts
  BY DEF RowHolds
<1> HIDE DEF p, q
<1>4. r.operatingProfit = r.netRevenue - (p + q) - r.advertisingSpend - r.fixedOperatingCosts
  BY <1>1, <1>2, <1>3
<1> QED
  BY <1>1, <1>2, <1>4 DEF p, q

(* Line by line, the sales less every cost are the profit of the period.      *)
LEMMA ProfitOfPeriod ==
  ASSUME NEW rows, RowsHold(rows)
  PROVE  ColumnTotal(rows, "operatingProfit")
           = ColumnTotal(rows, "grossSales") - ColumnTotal(rows, "discounts")
               + ColumnTotal(rows, "shippingRevenue") - ColumnTotal(rows, "refunds")
               - SumOver(Components, LAMBDA c : SumOver(DOMAIN rows, LAMBDA d : rows[d].costs[c]))
               - ColumnTotal(rows, "advertisingSpend") - ColumnTotal(rows, "fixedOperatingCosts")
<1> DEFINE S == DOMAIN rows
<1> DEFINE C(f) == ColumnOf(rows, f)
<1> DEFINE costs == [d \in S |-> Cm1Costs(rows[d].costs) + Cm3Costs(rows[d].costs)]
<1> DEFINE merchandise == [d \in S |-> C("grossSales")[d] - C("discounts")[d]]
<1> DEFINE sales == [d \in S |-> merchandise[d] + C("shippingRevenue")[d]]
<1> DEFINE net == [d \in S |-> sales[d] - C("refunds")[d]]
<1> DEFINE earned == [d \in S |-> net[d] - costs[d]]
<1> DEFINE kept == [d \in S |-> earned[d] - C("advertisingSpend")[d]]
<1> DEFINE profit == [d \in S |-> kept[d] - C("fixedOperatingCosts")[d]]
<1>1. IsFiniteSet(S)
  BY DEF RowsHold
<1>2. \A d \in S : /\ C("grossSales")[d] \in Int /\ C("discounts")[d] \in Int /\ C("shippingRevenue")[d] \in Int
                   /\ C("refunds")[d] \in Int /\ C("advertisingSpend")[d] \in Int
                   /\ C("fixedOperatingCosts")[d] \in Int /\ C("operatingProfit")[d] \in Int
  <2>1. \A f \in SummedFields : \A d \in S : C(f)[d] \in Int
    BY ColumnIs
  <2> QED
    BY <2>1 DEF SummedFields
<1>3. \A d \in S : costs[d] \in Int
  BY ProfitOfDay DEF RowsHold
<1>4. \A d \in S :
        C("operatingProfit")[d]
                           = C("grossSales")[d] - C("discounts")[d] + C("shippingRevenue")[d] - C("refunds")[d]
                               - costs[d] - C("advertisingSpend")[d] - C("fixedOperatingCosts")[d]
  <2> SUFFICES ASSUME NEW d \in S
               PROVE  C("operatingProfit")[d]
                        = C("grossSales")[d] - C("discounts")[d] + C("shippingRevenue")[d] - C("refunds")[d]
                            - costs[d] - C("advertisingSpend")[d] - C("fixedOperatingCosts")[d]
    OBVIOUS
  <2>1. RowHolds(rows[d])
    BY DEF RowsHold
  <2>2. \A f : C(f)[d] = rows[d][f]
    BY DEF ColumnOf
  <2>3. costs[d] = Cm1Costs(rows[d].costs) + Cm3Costs(rows[d].costs)
    OBVIOUS
  <2> HIDE DEF C, costs
  <2> QED
    BY <2>1, <2>2, <2>3, ProfitOfDay
<1> HIDE DEF C, costs
<1>5. \A d \in S : merchandise[d] \in Int /\ merchandise[d] = C("grossSales")[d] - C("discounts")[d]
  BY <1>2
<1> HIDE DEF merchandise
<1>6. \A d \in S : sales[d] \in Int /\ sales[d] = merchandise[d] + C("shippingRevenue")[d]
  BY <1>2, <1>5
<1> HIDE DEF sales
<1>7. \A d \in S : net[d] \in Int /\ net[d] = sales[d] - C("refunds")[d]
  BY <1>2, <1>6
<1> HIDE DEF net
<1>8. \A d \in S : earned[d] \in Int /\ earned[d] = net[d] - costs[d]
  BY <1>3, <1>7
<1> HIDE DEF earned
<1>9. \A d \in S : kept[d] \in Int /\ kept[d] = earned[d] - C("advertisingSpend")[d]
  BY <1>2, <1>8
<1> HIDE DEF kept
<1>10. \A d \in S : profit[d] \in Int /\ profit[d] = kept[d] - C("fixedOperatingCosts")[d]
  BY <1>2, <1>9
<1> HIDE DEF profit, S
<1>11. SumIn(merchandise, S) = SumIn(C("grossSales"), S) - SumIn(C("discounts"), S)
  BY <1>1, <1>2, <1>5, SumMinus
<1>12. SumIn(sales, S) = SumIn(merchandise, S) + SumIn(C("shippingRevenue"), S)
  BY <1>1, <1>2, <1>5, <1>6, SumPlus
<1>13. SumIn(net, S) = SumIn(sales, S) - SumIn(C("refunds"), S)
  BY <1>1, <1>2, <1>6, <1>7, SumMinus
<1>14. SumIn(earned, S) = SumIn(net, S) - SumIn(costs, S)
  BY <1>1, <1>3, <1>7, <1>8, SumMinus
<1>15. SumIn(kept, S) = SumIn(earned, S) - SumIn(C("advertisingSpend"), S)
  BY <1>1, <1>2, <1>8, <1>9, SumMinus
<1>16. SumIn(profit, S) = SumIn(kept, S) - SumIn(C("fixedOperatingCosts"), S)
  BY <1>1, <1>2, <1>9, <1>10, SumMinus
<1>17. SumIn(profit, S) = SumIn(C("operatingProfit"), S)
  <2>1. \A d \in S : profit[d] = C("operatingProfit")[d]
    BY <1>2, <1>3, <1>4, <1>5, <1>6, <1>7, <1>8, <1>9, <1>10
  <2> QED
    BY <1>1, <1>2, <2>1, SumCongruent
<1>18. SumOver(Components, LAMBDA c : SumOver(DOMAIN rows, LAMBDA d : rows[d].costs[c])) = SumIn(costs, S)
  BY CostLinesAddUp DEF costs, S
<1> DEFINE T(f) == SumIn(C(f), S)
<1>19. /\ T("grossSales") \in Int /\ T("discounts") \in Int /\ T("shippingRevenue") \in Int /\ T("refunds") \in Int
       /\ T("advertisingSpend") \in Int /\ T("fixedOperatingCosts") \in Int
  BY <1>1, <1>2, SumType
<1>20. SumIn(costs, S) \in Int
  BY <1>1, <1>3, SumType
<1>21. \A f : ColumnTotal(rows, f) = T(f)
  BY DEF ColumnTotal, C, S
<1> HIDE DEF T
<1>22. SumIn(profit, S) = T("grossSales") - T("discounts") + T("shippingRevenue") - T("refunds") - SumIn(costs, S)
                            - T("advertisingSpend") - T("fixedOperatingCosts")
  BY <1>11, <1>12, <1>13, <1>14, <1>15, <1>16, <1>19, <1>20 DEF T
<1>23. SumIn(profit, S) = T("operatingProfit")
  BY <1>17 DEF T
<1> QED
  BY <1>18, <1>21, <1>22, <1>23

(* Month by month: the months a period reaches into have its totals.          *)
LEMMA MonthsAddUp ==
  ASSUME NEW rows, RowsHold(rows), NEW f \in SummedFields
  PROVE  SumOver(DOMAIN SummariseByMonth(rows), LAMBDA m : SummariseByMonth(rows)[m].total[f])
           = ColumnTotal(rows, f)
<1> DEFINE S == DOMAIN rows
<1> DEFINE month == [d \in S |-> PeriodStart("month", d)]
<1> DEFINE K == {month[d] : d \in S}
<1> DEFINE Of(m) == {d \in S : month[d] = m}
<1> DEFINE part(m) == [d \in Of(m) |-> rows[d]]
<1> DEFINE byMonth == SummariseByMonth(rows)
<1> DEFINE totals == [m \in K |-> byMonth[m].total[f]]
<1>1. byMonth = [m \in K |-> SummariseDailyFinancials(part(m))]
  <2>1. /\ {PeriodStart("month", d) : d \in DOMAIN rows} = K
        /\ \A m : {x \in DOMAIN rows : PeriodStart("month", x) = m} = Of(m)
    OBVIOUS
  <2>2. byMonth = [m \in {PeriodStart("month", d) : d \in DOMAIN rows} |->
                     SummariseDailyFinancials([d \in {x \in DOMAIN rows : PeriodStart("month", x) = m} |-> rows[d]])]
    BY TableIs DEF SummariseByMonth
  <2> HIDE DEF byMonth, K, Of
  <2> QED
    BY <2>1, <2>2
<1>2. IsFiniteSet(S) /\ \A d \in S : ColumnOf(rows, f)[d] \in Int /\ ColumnOf(rows, f)[d] = rows[d][f]
  BY ColumnIs DEF RowsHold
<1>3. IsFiniteSet(K)
  <2> HIDE DEF month, S
  <2> QED
    BY <1>2, ImageIsFinite
<1>4. \A m \in K : totals[m] = SumIn(ColumnOf(rows, f), Of(m))
  <2> SUFFICES ASSUME NEW m \in K PROVE totals[m] = SumIn(ColumnOf(rows, f), Of(m))
    OBVIOUS
  <2>1. totals[m] = ColumnTotal(part(m), f)
    <3>1. totals[m] = SummariseDailyFinancials(part(m)).total[f]
      BY <1>1
    <3> HIDE DEF totals, part
    <3> QED
      BY <3>1, TotalsAre
  <2>2. DOMAIN part(m) = Of(m) /\ \A d \in Of(m) : ColumnOf(part(m), f)[d] = rows[d][f]
    BY DEF ColumnOf
  <2>3. IsFiniteSet(Of(m)) /\ Of(m) \subseteq S
    BY <1>2, FS_Subset
  <2> HIDE DEF Of, part
  <2>4. SumIn(ColumnOf(part(m), f), Of(m)) = SumIn(ColumnOf(rows, f), Of(m))
    BY <1>2, <2>2, <2>3, SumCongruent
  <2> QED
    BY <2>1, <2>2, <2>4 DEF ColumnTotal
<1>5. \A d \in S : month[d] \in K
  OBVIOUS
<1>6. SumOver(DOMAIN byMonth, LAMBDA m : byMonth[m].total[f]) = SumIn(totals, K)
  <2>1. DOMAIN byMonth = K
    BY <1>1
  <2>2. SumOver(DOMAIN byMonth, LAMBDA m : byMonth[m].total[f]) = SumFunction(totals) /\ DOMAIN totals = K
    BY <2>1 DEF SumOver
  <2> HIDE DEF totals, byMonth, K
  <2> QED
    BY <2>2, SumIsSumIn
<1> HIDE DEF totals, K, month
<1>7. Grouped(S, ColumnOf(rows, f), month, K, totals)
  BY <1>2, <1>3, <1>4, <1>5 DEF Grouped
<1>8. SumIn(totals, K) = SumIn(ColumnOf(rows, f), S)
  BY <1>7, SumInGroups
<1> QED
  BY <1>6, <1>8 DEF ColumnTotal

(* A column of dated records, added up by day or all at once.                 *)
Dated(S, c, K, g) ==
  /\ IsFiniteSet(S) /\ IsFiniteSet(K)
  /\ \A x \in S : x[c] \in Int /\ x.businessDate \in K
  /\ \A d \in K : g[d] = SumFunction([x \in {y \in S : y.businessDate = d} |-> x[c]])

LEMMA DaysAddUp ==
  ASSUME NEW S, NEW c, NEW K, NEW g, Dated(S, c, K, g)
  PROVE  SumIn(g, K) = SumFunction([x \in S |-> x[c]])
<1> USE DEF Dated
<1> DEFINE f == [x \in S |-> x[c]]
<1> DEFINE date == [x \in S |-> x.businessDate]
<1>1. DOMAIN f = S /\ \A x \in S : f[x] \in Int /\ date[x] \in K
  OBVIOUS
<1>2. ASSUME NEW d \in K PROVE g[d] = SumIn(f, {x \in S : date[x] = d})
  <2> DEFINE T == {y \in S : y.businessDate = d}
  <2> DEFINE h == [x \in T |-> x[c]]
  <2>1. {x \in S : date[x] = d} = T /\ g[d] = SumFunction(h) /\ DOMAIN h = T
    OBVIOUS
  <2>2. T \subseteq S /\ \A x \in T : f[x] = x[c] /\ h[x] = f[x] /\ f[x] \in Int
    OBVIOUS
  <2> HIDE DEF f, h, date
  <2>3. IsFiniteSet(T)
    BY FS_Subset
  <2> HIDE DEF T
  <2>4. SumFunction(h) = SumIn(f, T)
    BY <2>1, <2>2, <2>3, SumIsSumIn, SumCongruent
  <2> QED
    BY <2>1, <2>4
<1> HIDE DEF f, date
<1>3. Grouped(S, f, date, K, g)
  BY <1>1, <1>2 DEF Grouped
<1>4. SumIn(g, K) = SumFunction(f)
  BY <1>1, <1>3, SumInGroups, SumIsSumIn
<1> QED
  BY <1>4 DEF f

(* A range the calendar reaches over.                                         *)
OnCalendar(range) ==
  Proper(range) /\ \A d \in EnumerateDates(range) : \A unit \in Units : CalendarHolds(unit, d)

RowsOf(range) == [d \in EnumerateDates(range) |-> Row(d)]

LEMMA RowsOfRange ==
  ASSUME NEW range, OnCalendar(range)
  PROVE  /\ IsFiniteSet(EnumerateDates(range)) /\ RowsHold(RowsOf(range)) /\ DOMAIN RowsOf(range) = EnumerateDates(range)
         /\ \A d \in EnumerateDates(range) : /\ d \in Int /\ InRange(d, range)
                                             /\ \A unit \in Units : CalendarHolds(unit, d)
<1>1. IsFiniteSet(EnumerateDates(range)) /\ \A d \in EnumerateDates(range) : d \in Int /\ InRange(d, range)
  BY FS_Interval DEF OnCalendar, Proper, EnumerateDates, InRange
<1>2. \A d \in EnumerateDates(range) : \A unit \in Units : CalendarHolds(unit, d)
  BY DEF OnCalendar
<1>3. \A d \in EnumerateDates(range) : RowHolds(Row(d))
  BY <1>1, <1>2, RowIs
<1>4. DOMAIN RowsOf(range) = EnumerateDates(range) /\ \A d \in EnumerateDates(range) : RowsOf(range)[d] = Row(d)
  BY DEF RowsOf
<1> QED
  BY <1>1, <1>2, <1>3, <1>4 DEF RowsHold

(* The spend of the days is the spend of the range.                           *)
LEMMA SpendAddsUp ==
  ASSUME NEW range, OnCalendar(range)
  PROVE  /\ ColumnTotal(RowsOf(range), "metaAdSpend") = SpendTotal(LoadAdSpend(range), "meta")
         /\ ColumnTotal(RowsOf(range), "tiktokAdSpend") = SpendTotal(LoadAdSpend(range), "tiktok")
         /\ ColumnTotal(RowsOf(range), "otherAcquisitionSpend") = ExpenseTotal(LoadMappedExpenses(range), "cm2")
<1> DEFINE E == EnumerateDates(range)
<1> DEFINE Paid(platform) == {s \in LoadAdSpend(range) : s.platform = platform}
<1> DEFINE Booked == {e \in LoadMappedExpenses(range) : e.bucket = "cm2"}
<1>1. IsFiniteSet(E) /\ \A d \in E : d \in Int /\ InRange(d, range) /\ \A unit \in Units : CalendarHolds(unit, d)
  BY RowsOfRange
<1>2. Proper(range)
  BY DEF OnCalendar
<1>3. \A d \in Int : InRange(d, range) => d \in E
  BY <1>2 DEF InRange, EnumerateDates, Proper
<1>4. /\ \A s \in LoadAdSpend(range) : s["spend"] \in Int /\ s.businessDate \in E
      /\ \A e \in LoadMappedExpenses(range) : e["amount"] \in Int /\ e.businessDate \in E
  BY <1>3, SpendIsTyped, ExpensesAreTyped
<1>5. ASSUME NEW platform, NEW column \in {"metaAdSpend", "tiktokAdSpend"},
             \A d \in E : Row(d)[column] = SpendTotal(SpendOn(d), platform)
      PROVE  ColumnTotal(RowsOf(range), column) = SpendTotal(LoadAdSpend(range), platform)
  <2> DEFINE g == ColumnOf(RowsOf(range), column)
  <2> DEFINE S == Paid(platform)
  <2>1. IsFiniteSet(S) /\ \A s \in S : s["spend"] \in Int /\ s.businessDate \in E
    BY <1>4, SpendIsTyped, FS_Subset
  <2>2. ASSUME NEW d \in E PROVE g[d] = SumFunction([x \in {y \in S : y.businessDate = d} |-> x["spend"]])
    <3>1. {s \in LoadAdSpend(range) : s.businessDate = d} = SpendOn(d)
      BY <1>1, SpendOfDay
    <3>2. {y \in S : y.businessDate = d} = {s \in SpendOn(d) : s.platform = platform}
      BY <3>1
    <3>3. g[d] = Row(d)[column]
      BY DEF ColumnOf, RowsOf
    <3>4. SpendTotal(SpendOn(d), platform) = SumFunction([s \in {x \in SpendOn(d) : x.platform = platform} |-> s["spend"]])
      BY DEF SpendTotal, SumOver
    <3> HIDE DEF S, g
    <3> QED
      BY <1>5, <3>2, <3>3, <3>4
  <2>3. SpendTotal(LoadAdSpend(range), platform) = SumFunction([s \in S |-> s["spend"]])
    BY DEF SpendTotal, SumOver
  <2>4. ColumnTotal(RowsOf(range), column) = SumIn(g, E)
    BY RowsOfRange DEF ColumnTotal
  <2> HIDE DEF S, g
  <2>5. Dated(S, "spend", E, g)
    BY <1>1, <2>1, <2>2 DEF Dated
  <2> HIDE DEF E
  <2> QED
    BY <2>3, <2>4, <2>5, DaysAddUp
<1>6. ColumnTotal(RowsOf(range), "otherAcquisitionSpend") = ExpenseTotal(LoadMappedExpenses(range), "cm2")
  <2> DEFINE g == ColumnOf(RowsOf(range), "otherAcquisitionSpend")
  <2>1. IsFiniteSet(Booked) /\ \A e \in Booked : e["amount"] \in Int /\ e.businessDate \in E
    BY <1>4, ExpensesAreTyped, FS_Subset
  <2>2. ASSUME NEW d \in E PROVE g[d] = SumFunction([x \in {y \in Booked : y.businessDate = d} |-> x["amount"]])
    <3>1. {e \in LoadMappedExpenses(range) : e.businessDate = d} = ExpensesOn(d)
      BY <1>1, SpendOfDay
    <3>2. {y \in Booked : y.businessDate = d} = {e \in ExpensesOn(d) : e.bucket = "cm2"}
      BY <3>1
    <3>3. g[d] = Row(d).otherAcquisitionSpend
      BY DEF ColumnOf, RowsOf
    <3>4. ExpenseTotal(ExpensesOn(d), "cm2") = SumFunction([e \in {x \in ExpensesOn(d) : x.bucket = "cm2"} |-> e["amount"]])
      BY DEF ExpenseTotal, SumOver
    <3>5. Row(d).otherAcquisitionSpend = ExpenseTotal(ExpensesOn(d), "cm2")
      BY <1>1, RowIs
    <3> HIDE DEF Booked, g
    <3> QED
      BY <3>2, <3>3, <3>4, <3>5
  <2>3. ExpenseTotal(LoadMappedExpenses(range), "cm2") = SumFunction([e \in Booked |-> e["amount"]])
    BY DEF ExpenseTotal, SumOver
  <2>4. ColumnTotal(RowsOf(range), "otherAcquisitionSpend") = SumIn(g, E)
    BY RowsOfRange DEF ColumnTotal
  <2> HIDE DEF Booked, g
  <2>5. Dated(Booked, "amount", E, g)
    BY <1>1, <2>1, <2>2 DEF Dated
  <2> HIDE DEF E
  <2> QED
    BY <2>3, <2>4, <2>5, DaysAddUp
<1>7. \A d \in E : /\ Row(d)["metaAdSpend"] = SpendTotal(SpendOn(d), "meta")
                   /\ Row(d)["tiktokAdSpend"] = SpendTotal(SpendOn(d), "tiktok")
  BY <1>1, RowIs
<1> HIDE DEF E
<1>8. /\ ColumnTotal(RowsOf(range), "metaAdSpend") = SpendTotal(LoadAdSpend(range), "meta")
      /\ ColumnTotal(RowsOf(range), "tiktokAdSpend") = SpendTotal(LoadAdSpend(range), "tiktok")
  BY <1>5, <1>7
<1> QED
  BY <1>6, <1>8

(* The new customers of the days are the new customers of the range.          *)
LEMMA CustomersAddUp ==
  ASSUME NEW range, OnCalendar(range)
  PROVE  ColumnTotal(RowsOf(range), "newCustomers") = Cardinality({o \in PricedIn(range) : o.isNew})
<1> DEFINE E == EnumerateDates(range)
<1> DEFINE S == {o \in PricedIn(range) : o.isNew}
<1> DEFINE On(d) == {o \in PricedOn(d) : o.isNew}
<1> DEFINE g == ColumnOf(RowsOf(range), "newCustomers")
<1> DEFINE one == [o \in S |-> 1]
<1> DEFINE date == [o \in S |-> o.businessDate]
<1>1. IsFiniteSet(E) /\ \A d \in E : d \in Int /\ InRange(d, range) /\ \A unit \in Units : CalendarHolds(unit, d)
  BY RowsOfRange
<1>2. \A d \in Int : InRange(d, range) => d \in E
  BY DEF OnCalendar, InRange, EnumerateDates, Proper
<1>3. \A id \in LiveOrders : Priced(id).businessDate = DateOf(id) /\ DateOf(id) \in Int
  BY PricedFields, LiveOrdersAreTyped
<1>4. \A o \in S : date[o] \in E
  BY <1>2, <1>3 DEF PricedIn
<1>5. IsFiniteSet(S)
  <2> DEFINE ids == {x \in LiveOrders : InRange(DateOf(x), range)}
  <2> DEFINE row == [id \in ids |-> Priced(id)]
  <2>1. IsFiniteSet(ids)
    <3>1. ids \subseteq IdsOf("orders")
      BY DEF LiveOrders, StoredIn
    <3> QED
      BY <3>1, RowsAreFinite
  <2>2. PricedIn(range) = {row[id] : id \in ids}
    BY DEF PricedIn
  <2> HIDE DEF row, ids
  <2>3. IsFiniteSet(PricedIn(range))
    BY <2>1, <2>2, ImageIsFinite
  <2> QED
    BY <2>3, FS_Subset
<1>6. ASSUME NEW d \in E PROVE {o \in S : date[o] = d} = On(d)
  <2>1. d \in Int /\ InRange(d, range)
    BY <1>1
  <2> QED
    BY <1>3, <2>1 DEF PricedIn, PricedOn, OrdersOn
<1>7. ASSUME NEW d \in E PROVE g[d] = SumIn(one, {o \in S : date[o] = d})
  <2>1. g[d] = Row(d).newCustomers
    BY DEF ColumnOf, RowsOf
  <2>2. Row(d).newCustomers = Cardinality(On(d))
    BY <1>1, RowIs
  <2>3. On(d) = {o \in S : date[o] = d}
    BY <1>6
  <2>4. On(d) \subseteq S /\ IsFiniteSet(On(d))
    BY <1>5, <2>3, FS_Subset
  <2>5. \A o \in On(d) : one[o] = 1
    BY <2>4
  <2> HIDE DEF one, On, S, date, g
  <2>6. SumIn(one, On(d)) = 1 * Cardinality(On(d)) /\ Cardinality(On(d)) \in Nat
    BY <2>4, <2>5, SumOfConstant, FS_CardinalityType
  <2> QED
    BY <2>1, <2>2, <2>3, <2>6
<1>8. \A o \in S : one[o] = 1
  OBVIOUS
<1>9. ColumnTotal(RowsOf(range), "newCustomers") = SumIn(g, E)
  BY RowsOfRange DEF ColumnTotal
<1> HIDE DEF one, date, S, E, g
<1>10. Grouped(S, one, date, E, g)
  BY <1>1, <1>4, <1>5, <1>7, <1>8 DEF Grouped
<1>11. SumIn(g, E) = SumIn(one, S)
  BY <1>10, SumInGroups
<1>12. SumIn(one, S) = 1 * Cardinality(S) /\ Cardinality(S) \in Nat
  BY <1>5, <1>8, SumOfConstant, FS_CardinalityType
<1>13. ColumnTotal(RowsOf(range), "newCustomers") = Cardinality(S)
  BY <1>9, <1>11, <1>12
<1> QED
  BY <1>13 DEF S

(* The advertising of the days is the spend of both platforms and the rest.   *)
LEMMA AdvertisingAddsUp ==
  ASSUME NEW rows, RowsHold(rows)
  PROVE  ColumnTotal(rows, "advertisingSpend")
           = ColumnTotal(rows, "metaAdSpend") + ColumnTotal(rows, "tiktokAdSpend")
               + ColumnTotal(rows, "otherAcquisitionSpend")
<1> DEFINE S == DOMAIN rows
<1> DEFINE C(f) == ColumnOf(rows, f)
<1> DEFINE platforms == [d \in S |-> C("metaAdSpend")[d] + C("tiktokAdSpend")[d]]
<1>1. IsFiniteSet(S)
  BY DEF RowsHold
<1>2. \A d \in S : /\ C("metaAdSpend")[d] \in Int /\ C("tiktokAdSpend")[d] \in Int
                   /\ C("otherAcquisitionSpend")[d] \in Int
                   /\ C("advertisingSpend")[d]
                        = C("metaAdSpend")[d] + C("tiktokAdSpend")[d] + C("otherAcquisitionSpend")[d]
  <2> SUFFICES ASSUME NEW d \in S
               PROVE  /\ C("metaAdSpend")[d] \in Int /\ C("tiktokAdSpend")[d] \in Int
                      /\ C("otherAcquisitionSpend")[d] \in Int
                      /\ C("advertisingSpend")[d]
                           = C("metaAdSpend")[d] + C("tiktokAdSpend")[d] + C("otherAcquisitionSpend")[d]
    OBVIOUS
  <2>1. RowHolds(rows[d])
    BY DEF RowsHold
  <2>2. \A f : C(f)[d] = rows[d][f]
    BY DEF ColumnOf
  <2>3. /\ rows[d]["metaAdSpend"] \in Int /\ rows[d]["tiktokAdSpend"] \in Int
        /\ rows[d]["otherAcquisitionSpend"] \in Int
    BY <2>1 DEF RowHolds, SummedFields
  <2>4. rows[d]["advertisingSpend"]
          = rows[d]["metaAdSpend"] + rows[d]["tiktokAdSpend"] + rows[d]["otherAcquisitionSpend"]
    BY <2>1 DEF RowHolds
  <2> HIDE DEF C
  <2> QED
    BY <2>2, <2>3, <2>4
<1> HIDE DEF C
<1>3. \A d \in S : platforms[d] \in Int /\ platforms[d] = C("metaAdSpend")[d] + C("tiktokAdSpend")[d]
  BY <1>2
<1> HIDE DEF platforms, S
<1>4. SumIn(platforms, S) = SumIn(C("metaAdSpend"), S) + SumIn(C("tiktokAdSpend"), S)
  BY <1>1, <1>2, <1>3, SumPlus
<1>5. SumIn(C("advertisingSpend"), S) = SumIn(platforms, S) + SumIn(C("otherAcquisitionSpend"), S)
  BY <1>1, <1>2, <1>3, SumPlus
<1> QED
  BY <1>4, <1>5 DEF ColumnTotal, C, S

LEMMA PlatformsAddUp ==
  ASSUME NEW f, f["meta"] \in Int, f["tiktok"] \in Int, DOMAIN f = {"meta", "tiktok"}
  PROVE  SumFunction(f) = f["meta"] + f["tiktok"]
<1>1. SumFunction(f) = SumIn(f, {"meta", "tiktok"})
  BY SumIsSumIn
<1>2. SumIn(f, {}) = 0
  BY SumEmpty
<1>3. SumIn(f, {} \cup {"tiktok"}) = f["tiktok"] + SumIn(f, {})
  BY FS_EmptySet, SumAdd
<1>4. IsFiniteSet({"tiktok"}) /\ {} \cup {"tiktok"} = {"tiktok"}
  BY FS_Singleton
<1>5. SumIn(f, {"tiktok"} \cup {"meta"}) = f["meta"] + SumIn(f, {"tiktok"})
  BY <1>4, SumAdd
<1>6. {"tiktok"} \cup {"meta"} = {"meta", "tiktok"}
  OBVIOUS
<1> QED
  BY <1>1, <1>2, <1>3, <1>4, <1>5, <1>6

(* The marketing figures of a report, from its facts and its totals.          *)
LEMMA MarketingIs ==
  ASSUME NEW facts, NEW summary, NEW allocated,
         SpendTotal(facts.adSpend, "meta") \in Int, SpendTotal(facts.adSpend, "tiktok") \in Int
  PROVE  LET marketing == BuildMarketing(facts, summary, allocated)
             advertising == SpendTotal(facts.adSpend, "meta") + SpendTotal(facts.adSpend, "tiktok")
                              + ExpenseTotal(facts.mappedExpenses, "cm2")
             acquired == Cardinality({o \in allocated : o.isNew})
         IN  /\ marketing.advertisingSpend = advertising
             /\ marketing.mer = Ratio(summary.total["netRevenue"], advertising)
             /\ marketing.blendedCac = IF acquired > 0 THEN Ratio(advertising, acquired) ELSE NotAvailable
<1> DEFINE acquisition == SummariseAcquisition(allocated, facts.policy.breakEvenContributionLevel)
<1> DEFINE in == [netRevenue |-> summary.total["netRevenue"],
                  newCustomerNetRevenue |-> acquisition.newCustomerNetRevenue,
                  newCustomerContributionBeforeAds |-> acquisition.newCustomerContributionBeforeAds,
                  newCustomers |-> acquisition.newCustomers,
                  platforms |-> [p \in {"meta", "tiktok"} |-> PlatformTotals(facts.adSpend, p)],
                  otherAcquisitionSpend |-> ExpenseTotal(facts.mappedExpenses, "cm2")]
<1> DEFINE spent == [p \in {"meta", "tiktok"} |-> in.platforms[p].spend]
<1>1. BuildMarketing(facts, summary, allocated) = CalculateMarketingPeriod(in)
  BY Zenon DEF BuildMarketing
<1>2. \A p : PlatformTotals(facts.adSpend, p).spend = SpendTotal(facts.adSpend, p)
  BY Zenon DEF PlatformTotals
<1>3. acquisition.newCustomers = Cardinality({o \in allocated : o.isNew})
  BY DEF SummariseAcquisition
<1> HIDE DEF acquisition
<1>4. /\ in.netRevenue = summary.total["netRevenue"] /\ in.newCustomers = acquisition.newCustomers
      /\ in.otherAcquisitionSpend = ExpenseTotal(facts.mappedExpenses, "cm2")
      /\ DOMAIN in.platforms = {"meta", "tiktok"}
      /\ \A p \in {"meta", "tiktok"} : in.platforms[p] = PlatformTotals(facts.adSpend, p)
  OBVIOUS
<1>5. /\ DOMAIN spent = {"meta", "tiktok"}
      /\ spent["meta"] = SpendTotal(facts.adSpend, "meta") /\ spent["tiktok"] = SpendTotal(facts.adSpend, "tiktok")
  BY <1>2, <1>4
<1> HIDE DEF in
<1>6. SumOver(DOMAIN in.platforms, LAMBDA p : in.platforms[p].spend) = SumFunction(spent)
  BY <1>4 DEF SumOver
<1> DEFINE advertising == SumFunction(spent) + ExpenseTotal(facts.mappedExpenses, "cm2")
<1>7. /\ CalculateMarketingPeriod(in).advertisingSpend = advertising
      /\ CalculateMarketingPeriod(in).mer = Ratio(in.netRevenue, advertising)
      /\ CalculateMarketingPeriod(in).blendedCac
           = IF in.newCustomers > 0 THEN Ratio(advertising, in.newCustomers) ELSE NotAvailable
  BY <1>4, <1>6 DEF CalculateMarketingPeriod
<1> HIDE DEF spent
<1>8. SumFunction(spent) = SpendTotal(facts.adSpend, "meta") + SpendTotal(facts.adSpend, "tiktok")
  BY <1>5, PlatformsAddUp
<1> QED
  BY <1>1, <1>3, <1>4, <1>7, <1>8

(* A row is an ordinary number of figures, and so is the page over them.      *)
LEMMA ReportOfWalk ==
  ASSUME NEW facts, NEW rows, NEW allocated, RowsHold(rows),
         SpendTotal(facts.adSpend, "meta") = ColumnTotal(rows, "metaAdSpend"),
         SpendTotal(facts.adSpend, "tiktok") = ColumnTotal(rows, "tiktokAdSpend"),
         ExpenseTotal(facts.mappedExpenses, "cm2") = ColumnTotal(rows, "otherAcquisitionSpend"),
         Cardinality({o \in allocated : o.isNew}) = ColumnTotal(rows, "newCustomers")
  PROVE  WalksAgree(ReportOf(facts, rows, allocated))
<1> DEFINE report == ReportOf(facts, rows, allocated)
<1> DEFINE page == ProfitAndLossPage(report)
<1> DEFINE summary == SummariseDailyFinancials(rows)
<1>1. /\ report.daily = rows /\ report.summary = summary /\ report.allocated = allocated
      /\ report.marketing = BuildMarketing(facts, summary, allocated)
  BY DEF ReportOf
<1>2. /\ page.summary = summary /\ page.byMonth = SummariseByMonth(rows)
      /\ page.costs = [c \in Components |-> SumOver(DOMAIN rows, LAMBDA d : rows[d].costs[c])]
  <2>1. /\ page.summary = report.summary /\ page.byMonth = SummariseByMonth(report.daily)
        /\ page.costs = [c \in Components |->
                           SumOver(DOMAIN report.daily, LAMBDA d : report.daily[d].costs[c])]
    BY DEF ProfitAndLossPage
  <2> HIDE DEF report, page
  <2> QED
    BY <1>1, <2>1
<1> HIDE DEF report, page, summary
<1>3. \A f \in SummedFields : summary.total[f] = ColumnTotal(rows, f)
  BY TotalsAre DEF summary
<1>4. /\ "operatingProfit" \in SummedFields /\ "grossSales" \in SummedFields /\ "discounts" \in SummedFields
      /\ "shippingRevenue" \in SummedFields /\ "refunds" \in SummedFields /\ "netRevenue" \in SummedFields
      /\ "advertisingSpend" \in SummedFields /\ "fixedOperatingCosts" \in SummedFields
      /\ "newCustomers" \in SummedFields
  BY DEF SummedFields
<1>5. \A d \in DOMAIN report.daily :
        \A f \in {"netRevenue", "cm1", "advertisingSpend", "cm2", "cm3", "operatingProfit"} :
          CalculateDailyFinancials(report.daily[d])[f] = report.daily[d][f]
  BY <1>1, StatedWalkIs DEF RowsHold
<1>6. page.summary.total["operatingProfit"]
        = page.summary.total["grossSales"] - page.summary.total["discounts"]
            + page.summary.total["shippingRevenue"] - page.summary.total["refunds"]
            - SumOver(Components, LAMBDA c : page.costs[c])
            - page.summary.total["advertisingSpend"] - page.summary.total["fixedOperatingCosts"]
  <2>1. SumOver(Components, LAMBDA c : page.costs[c])
          = SumOver(Components, LAMBDA c : SumOver(DOMAIN rows, LAMBDA d : rows[d].costs[c]))
    BY <1>2 DEF SumOver
  <2> QED
    BY <1>2, <1>3, <1>4, <2>1, ProfitOfPeriod
<1>7. \A f \in SummedFields :
        page.summary.total[f] = SumOver(DOMAIN page.byMonth, LAMBDA m : page.byMonth[m].total[f])
  <2> SUFFICES ASSUME NEW f \in SummedFields
               PROVE  page.summary.total[f] = SumOver(DOMAIN page.byMonth, LAMBDA m : page.byMonth[m].total[f])
    OBVIOUS
  <2>1. SumOver(DOMAIN page.byMonth, LAMBDA m : page.byMonth[m].total[f])
          = SumOver(DOMAIN SummariseByMonth(rows), LAMBDA m : SummariseByMonth(rows)[m].total[f])
    BY <1>2 DEF SumOver
  <2> QED
    BY <1>2, <1>3, <2>1, MonthsAddUp
<1> DEFINE advertising == SpendTotal(facts.adSpend, "meta") + SpendTotal(facts.adSpend, "tiktok")
                            + ExpenseTotal(facts.mappedExpenses, "cm2")
<1> DEFINE acquired == Cardinality({o \in allocated : o.isNew})
<1>8. advertising = ColumnTotal(rows, "advertisingSpend")
  BY AdvertisingAddsUp
<1>9. SpendTotal(facts.adSpend, "meta") \in Int /\ SpendTotal(facts.adSpend, "tiktok") \in Int
  <2>1. \A f \in {"metaAdSpend", "tiktokAdSpend"} : f \in SummedFields
    BY DEF SummedFields
  <2>2. IsFiniteSet(DOMAIN rows)
    BY DEF RowsHold
  <2>3. \A f \in {"metaAdSpend", "tiktokAdSpend"} : \A d \in DOMAIN rows : ColumnOf(rows, f)[d] \in Int
    BY <2>1, ColumnIs
  <2>4. \A f \in {"metaAdSpend", "tiktokAdSpend"} : SumIn(ColumnOf(rows, f), DOMAIN rows) \in Int
    BY <2>2, <2>3, SumType
  <2> QED
    BY <2>4 DEF ColumnTotal
<1>10. /\ report.marketing.advertisingSpend = advertising
       /\ report.marketing.mer = Ratio(summary.total["netRevenue"], advertising)
       /\ report.marketing.blendedCac = IF acquired > 0 THEN Ratio(advertising, acquired) ELSE NotAvailable
  BY <1>1, <1>9, MarketingIs
<1>11. SummariseCustomers(report.allocated).newCustomers = acquired
  BY <1>1 DEF SummariseCustomers
<1> HIDE DEF advertising, acquired
<1>12. /\ page.summary.total["advertisingSpend"] = advertising
       /\ page.summary.total["newCustomers"] = acquired
       /\ page.summary.total["netRevenue"] = summary.total["netRevenue"]
  BY <1>2, <1>3, <1>4, <1>8 DEF acquired
<1>13. /\ report.marketing.advertisingSpend = page.summary.total["advertisingSpend"]
       /\ report.marketing.mer = Ratio(page.summary.total["netRevenue"], page.summary.total["advertisingSpend"])
       /\ report.marketing.blendedCac
            = (IF page.summary.total["newCustomers"] > 0
               THEN Ratio(page.summary.total["advertisingSpend"], page.summary.total["newCustomers"])
               ELSE NotAvailable)
       /\ page.summary.total["newCustomers"] = SummariseCustomers(report.allocated).newCustomers
  BY <1>10, <1>11, <1>12
<1>14. WalksAgree(report)
  BY <1>5, <1>6, <1>7, <1>13 DEF WalksAgree, page
<1> QED
  BY <1>14 DEF report

LEMMA ReportWalksAgree ==
  ASSUME BooksInv, NEW range, OnCalendar(range)
  PROVE  WalksAgree(Report(range))
<1> DEFINE facts == LoadFacts(range)
<1>1. Proper(range)
  BY DEF OnCalendar
<1>2. /\ facts.range = range /\ facts.adSpend = LoadAdSpend(range)
      /\ facts.mappedExpenses = LoadMappedExpenses(range) /\ KnowsAll(facts, range)
  BY <1>1, LoadedFields, LoadKnowsAll, WithinItself
<1> HIDE DEF facts
<1>3. BuildReport(facts) = ReportOf(facts, RowsOf(range), PricedIn(range))
  BY <1>1, <1>2, ReportIs DEF RowsOf
<1>4. /\ SpendTotal(facts.adSpend, "meta") = ColumnTotal(RowsOf(range), "metaAdSpend")
      /\ SpendTotal(facts.adSpend, "tiktok") = ColumnTotal(RowsOf(range), "tiktokAdSpend")
      /\ ExpenseTotal(facts.mappedExpenses, "cm2") = ColumnTotal(RowsOf(range), "otherAcquisitionSpend")
  BY <1>2, SpendAddsUp
<1>5. WalksAgree(ReportOf(facts, RowsOf(range), PricedIn(range)))
  BY <1>4, RowsOfRange, CustomersAddUp, ReportOfWalk
<1> QED
  BY <1>3, <1>5 DEF Report, facts

(* Every timeframe a page offers lies on the calendar.                        *)
LEMMA TimeframesAreOnCalendar ==
  ASSUME NEW key \in TimeframeKeys, NEW d \in Days
  PROVE  OnCalendar(TimeframeRange(key, d))
<1> DEFINE range == TimeframeRange(key, d)
<1>1. d \in Int
  BY DaysAssumption
<1>2. EnumerateDates(range) \subseteq ReportedDates
  BY DEF ReportedDates
<1>3. "month" \in Units /\ "year" \in Units
  BY DEF Units
<1>4. \A unit \in Units : CalendarHolds(unit, d) /\ CalendarHolds(unit, PeriodStart(unit, d) - 1)
  BY CalendarAssumption
<1>5. PeriodStart("month", d) \in Int /\ PeriodStart("year", d) \in Int
  BY <1>1, <1>3, <1>4, PeriodIs
<1> DEFINE last == PeriodStart("month", d) - 1
<1>6. last \in Int
  BY <1>5
<1>7. PeriodStart("month", last) \in Int
  <2>1. CalendarHolds("month", last)
    BY <1>3, <1>4
  <2> HIDE DEF last
  <2> QED
    BY <1>3, <1>6, <2>1, PeriodIs
<1>8. Proper(range)
  <2> HIDE DEF last
  <2>1. CASE key = "today"
    BY <1>1, <2>1 DEF TimeframeRange, Proper
  <2>2. CASE key = "yesterday"
    BY <1>1, <2>2 DEF TimeframeRange, Proper
  <2>3. CASE key = "7d"
    BY <1>1, <2>3 DEF TimeframeRange, Proper, RangeEndingOn
  <2>4. CASE key = "30d"
    BY <1>1, <2>4 DEF TimeframeRange, Proper, RangeEndingOn
  <2>5. CASE key = "mtd"
    BY <1>1, <1>5, <2>5 DEF TimeframeRange, Proper, MonthToDate
  <2>6. CASE key = "previous-month"
    <3>1. range = [from |-> PeriodStart("month", last), to |-> last]
      BY <2>6 DEF TimeframeRange, PreviousMonth, last
    <3> QED
      BY <1>6, <1>7, <3>1 DEF Proper
  <2>7. CASE key = "ytd"
    BY <1>1, <1>5, <2>7 DEF TimeframeRange, Proper, YearToDate
  <2> QED
    BY <2>1, <2>2, <2>3, <2>4, <2>5, <2>6, <2>7 DEF TimeframeKeys
<1> HIDE DEF range
<1>9. \A x \in EnumerateDates(range) : \A unit \in Units : CalendarHolds(unit, x)
  BY <1>2, CalendarAssumption
<1>10. OnCalendar(range)
  BY <1>8, <1>9 DEF OnCalendar
<1> QED
  BY <1>10 DEF range

(* The walks agree in every report a page offers, for every set of books, and *)
(* a recurring cost returns to the penny (Figures!TheWalksAgree).             *)
THEOREM WalksAgreeAlways == Spec => []TheWalksAgree
<1>1. ASSUME BooksInv PROVE TheWalksAgree
  <2>1. Max(Days) \in Days
    BY DaysAssumption, EndsExist
  <2>2. ASSUME NEW key \in TimeframeKeys PROVE WalksAgree(Report(ResolveTimeframe(key, Max(Days)).range))
    <3>1. \A d : ResolveTimeframe(key, d).range = TimeframeRange(key, d)
      BY DEF ResolveTimeframe
    <3>2. OnCalendar(TimeframeRange(key, Max(Days)))
      BY <2>1, TimeframesAreOnCalendar
    <3> QED
      BY <1>1, <3>1, <3>2, ReportWalksAgree
  <2>3. ASSUME NEW a \in {x \in LoadAllocationContext.assumptions : x.basis = "fixed_period"},
               NEW d \in {x \in Days : a.period \in DOMAIN Starts}
        PROVE  SumOver(PeriodStart(a.period, d) .. PeriodEnd(a.period, d),
                       LAMBDA x : DailyFixedPeriodAmount(a, x)) = ToPence(a.amount)
    <3>1. d \in Int /\ d \in Days /\ a.period \in Units
      BY DaysAssumption, StartsAssumption
    <3>2. CalendarHolds(a.period, d)
      BY <3>1, CalendarAssumption
    <3>3. a.amount \in Int
      BY AmountsAssumption DEF LoadAllocationContext, StoredIn
    <3> QED
      BY <3>1, <3>2, <3>3, FixedCostReturns
  <2> QED
    BY <2>2, <2>3 DEF TheWalksAgree
<1> QED
  BY <1>1, BooksAreKept, PTL

(*---------------------------------- SKUs ---------------------------------*)
LEMMA WholePenceStay ==
  ASSUME NEW a \in Int, a % Penny = 0
  PROVE  ToPence(a) = a
<1> DEFINE k == a \div 100
<1>1. k \in Int /\ a = 100 * k
  BY SMT DEF Penny
<1> HIDE DEF k
<1>2. CASE a < 0
  <2>1. Magnitude(a) = 100 * (-k)
    BY <1>1, <1>2 DEF Magnitude
  <2>2. (100 * (-k) + 50) \div 100 = -k
    BY <1>1, SMT
  <2> QED
    BY <1>1, <1>2, <2>1, <2>2 DEF ToPence, Penny
<1>3. CASE ~(a < 0)
  <2>1. Magnitude(a) = 100 * k
    BY <1>1, <1>3 DEF Magnitude
  <2>2. (100 * k + 50) \div 100 = k
    BY <1>1, SMT
  <2> QED
    BY <1>1, <1>3, <2>1, <2>2 DEF ToPence, Penny
<1> QED
  BY <1>2, <1>3

(* The lines a charge per order applies to, sold for something, none of them  *)
(* below nothing.                                                             *)
MatchedBy(a, lines) == {i \in DOMAIN lines : AssumptionMatchesLine(a, lines[i])}
ChargedOn(a, lines, net) ==
  /\ a.amount \in Nat /\ a.basis = "per_order"
  /\ \E n \in Nat : DOMAIN lines = 1 .. n
  /\ \A i \in DOMAIN lines : net[i] \in Int
  /\ \A i \in MatchedBy(a, lines) : net[i] >= 0
  /\ SumFunction([i \in MatchedBy(a, lines) |-> net[i]]) > 0

LEMMA WeightsOfMatched ==
  ASSUME NEW a, NEW lines, NEW net, ChargedOn(a, lines, net)
  PROVE  LET weights == Weighed(a, lines, net)
         IN  /\ weights \in Seq(Int) /\ weights # <<>> /\ DOMAIN weights = DOMAIN lines
             /\ SumSeq(weights) > 0
             /\ \A i \in DOMAIN lines : weights[i] >= 0 /\ (i \notin MatchedBy(a, lines) => weights[i] = 0)
<1> DEFINE weights == Weighed(a, lines, net)
<1> DEFINE S == DOMAIN lines
<1> DEFINE M == MatchedBy(a, lines)
<1> DEFINE N == S \ M
<1> DEFINE matched == [i \in M |-> net[i]]
<1>1. PICK n \in Nat : S = 1 .. n
  BY DEF ChargedOn
<1>2. DOMAIN weights = S /\ \A i \in S : weights[i] = IF i \in M THEN net[i] ELSE 0
  BY DEF Weighed, MatchedBy
<1>3. \A i \in S : net[i] \in Int /\ (i \in M => net[i] >= 0)
  BY DEF ChargedOn
<1>4. SumFunction(matched) > 0
  BY DEF ChargedOn
<1>5. S = M \cup N /\ M \cap N = {} /\ M \subseteq S /\ N \subseteq S
  BY DEF MatchedBy
<1>6. DOMAIN matched = M /\ \A i \in M : matched[i] = net[i]
  OBVIOUS
<1>7. weights = [i \in 1 .. n |-> weights[i]]
  BY <1>1 DEF Weighed
<1> HIDE DEF weights, S, M, N, matched
<1>8. \A i \in S : weights[i] \in Int /\ weights[i] >= 0 /\ (i \notin M => weights[i] = 0)
  BY <1>2, <1>3
<1>9. weights \in Seq(Int)
  BY <1>1, <1>7, <1>8
<1>10. IsFiniteSet(S) /\ IsFiniteSet(M) /\ IsFiniteSet(N) /\ Cardinality(N) \in Nat
  <2>1. IsFiniteSet(S)
    BY <1>1, FS_Interval
  <2> QED
    BY <1>5, <2>1, FS_Subset, FS_CardinalityType
<1>11. SumIn(weights, S) = SumIn(weights, M) + SumIn(weights, N)
  <2>1. \A i \in M \cup N : weights[i] \in Int
    BY <1>5, <1>8
  <2> QED
    BY <1>5, <1>10, <2>1, SumUnion
<1>12. SumIn(weights, M) = SumFunction(matched)
  <2>1. \A i \in M : weights[i] \in Int /\ matched[i] = weights[i]
    BY <1>2, <1>5, <1>6, <1>8
  <2>2. SumIn(matched, M) = SumIn(weights, M)
    BY <1>10, <2>1, SumCongruent
  <2> QED
    BY <1>6, <2>2, SumIsSumIn
<1>13. SumIn(weights, N) = 0
  <2>1. \A i \in N : weights[i] = 0
    BY <1>2, <1>5
  <2>2. SumIn(weights, N) = 0 * Cardinality(N)
    BY <1>10, <2>1, SumOfConstant
  <2> QED
    BY <1>10, <2>2
<1>14. SumIn(weights, M) \in Int
  <2>1. \A i \in M : weights[i] \in Int
    BY <1>5, <1>8
  <2> QED
    BY <1>10, <2>1, SumType
<1>15. SumSeq(weights) = SumIn(weights, S)
  BY <1>2, SumIsSumIn DEF SumSeq
<1>16. SumIn(weights, S) > 0
  BY <1>4, <1>11, <1>12, <1>13, <1>14
<1>17. S # {}
  BY <1>16, SumEmpty
<1>18. weights # <<>>
  BY <1>2, <1>17
<1> QED
  BY <1>2, <1>8, <1>9, <1>15, <1>16, <1>18 DEF weights, S, M

(* A charge per order is shared out in full among the lines it applies to.    *)
LEMMA ChargeReturns ==
  ASSUME NEW a, NEW lines, NEW net, ChargedOn(a, lines, net)
  PROVE  SumSeq(LineCharges(a, lines, net)) = ToPence(a.amount)
<1> DEFINE weights == Weighed(a, lines, net)
<1> DEFINE shares == AllocateProportionally(a.amount, weights)
<1> DEFINE charges == LineCharges(a, lines, net)
<1> DEFINE S == DOMAIN lines
<1>1. a.amount \in Int /\ a.amount >= 0 /\ a.basis = "per_order" /\ \E n \in Nat : S = 1 .. n
  BY DEF ChargedOn
<1>2. charges = [i \in S |-> LineCharge(a, lines[i], net[i], shares[i])]
  BY TableIs DEF LineCharges, ChargesByShare, Weighed
<1>3. /\ weights \in Seq(Int) /\ weights # <<>> /\ DOMAIN weights = S /\ SumSeq(weights) > 0
      /\ \A i \in S : weights[i] >= 0 /\ (i \notin MatchedBy(a, lines) => weights[i] = 0)
  BY WeightsOfMatched
<1> HIDE DEF weights
<1>4. DOMAIN shares = S /\ (\A i \in S : shares[i] \in Int) /\ SumSeq(shares) = ToPence(a.amount)
  BY <1>1, <1>3, AllocationIsComplete
<1>5. \A i \in S : i \notin MatchedBy(a, lines) => shares[i] = 0
  BY <1>1, <1>3, NothingWithoutWeight
<1> HIDE DEF shares, charges
<1>6. ASSUME NEW i \in S PROVE charges[i] = shares[i]
  <2> DEFINE matches == AssumptionMatchesLine(a, lines[i])
  <2>1. charges[i] = LineCharge(a, lines[i], net[i], shares[i])
    BY <1>2
  <2>2. matches \in BOOLEAN
    BY DEF AssumptionMatchesLine
  <2>3. ~matches => shares[i] = 0
    BY <1>5 DEF MatchedBy
  <2> HIDE DEF matches
  <2>4. LineCharge(a, lines[i], net[i], shares[i])
          = CASE ~matches -> 0
              [] matches /\ a.basis = "per_order" -> shares[i]
              [] matches /\ a.basis = "per_unit" -> a.amount * lines[i].quantity
              [] matches /\ a.basis = "percentage_of_revenue" -> (net[i] * a.amount) \div 100
    BY DEF LineCharge, matches
  <2>5. LineCharge(a, lines[i], net[i], shares[i]) = IF matches THEN shares[i] ELSE 0
    BY <1>1, <2>2, <2>4
  <2> QED
    BY <2>1, <2>3, <2>5
<1>7. DOMAIN charges = S /\ IsFiniteSet(S)
  BY <1>1, <1>2, FS_Interval
<1>8. SumIn(charges, S) = SumIn(shares, S)
  BY <1>4, <1>6, <1>7, SumCongruent
<1>9. SumSeq(charges) = SumSeq(shares)
  BY <1>4, <1>7, <1>8, SumIsSumIn DEF SumSeq
<1> QED
  BY <1>4, <1>9 DEF charges

(* What was sold, as buildSkuUnitEconomics gathers it.                        *)
Sale(o, i) == [externalId |-> o.externalId, i |-> i, line |-> o.lines[i]]
SalesOf(o) == {Sale(o, i) : i \in DOMAIN o.lines}
SoldIn(orders) == UNION {SalesOf(o) : o \in orders}
KeysIn(orders) == {SkuKey(s.line) : s \in SoldIn(orders)}
UnderKey(orders, key) == {s \in SoldIn(orders) : SkuKey(s.line) = key}

(* An amount of every sale, and what it comes to per order and per SKU.       *)
ToldApart(orders) == \A o, other \in orders : o.externalId = other.externalId => o = other
SoldFor(orders, f, perOrder) ==
  /\ IsFiniteSet(orders) /\ ToldApart(orders)
  /\ \A o \in orders : IsFiniteSet(DOMAIN o.lines) /\ \A i \in DOMAIN o.lines : f[Sale(o, i)] \in Int
  /\ \A o \in orders : perOrder[o] = SumFunction([i \in DOMAIN o.lines |-> f[Sale(o, i)]])

LEMMA SalesAreFinite ==
  ASSUME NEW orders, NEW f, NEW perOrder, SoldFor(orders, f, perOrder)
  PROVE  IsFiniteSet(SoldIn(orders)) /\ \A s \in SoldIn(orders) : f[s] \in Int
<1> USE DEF SoldFor
<1> DEFINE row == [o \in orders |-> SalesOf(o)]
<1> DEFINE T == {row[o] : o \in orders}
<1>1. ASSUME NEW o \in orders PROVE IsFiniteSet(SalesOf(o))
  <2> DEFINE sale == [i \in DOMAIN o.lines |-> Sale(o, i)]
  <2> DEFINE D == DOMAIN o.lines
  <2>1. SalesOf(o) = {sale[i] : i \in D} /\ IsFiniteSet(D)
    BY DEF SalesOf
  <2> HIDE DEF sale, D
  <2> QED
    BY <2>1, ImageIsFinite
<1>2. SoldIn(orders) = UNION T /\ \A o \in orders : row[o] = SalesOf(o)
  BY DEF SoldIn
<1> HIDE DEF row
<1>3. IsFiniteSet(T)
  BY ImageIsFinite
<1>4. \A U \in T : IsFiniteSet(U)
  BY <1>1, <1>2
<1> HIDE DEF T
<1>5. IsFiniteSet(UNION T)
  BY <1>3, <1>4, FS_UNION
<1>6. \A s \in SoldIn(orders) : f[s] \in Int
  BY DEF SoldIn, SalesOf
<1> QED
  BY <1>2, <1>5, <1>6

LEMMA SalesAddUp ==
  ASSUME NEW orders, NEW f, NEW perOrder, SoldFor(orders, f, perOrder)
  PROVE  SumIn(f, SoldIn(orders)) = SumIn(perOrder, orders)
<1> USE DEF SoldFor
<1> DEFINE S == SoldIn(orders)
<1> DEFINE owner == [s \in S |-> CHOOSE o \in orders : s \in SalesOf(o)]
<1>1. IsFiniteSet(S) /\ \A s \in S : f[s] \in Int
  BY SalesAreFinite
<1>2. \A s \in S : owner[s] \in orders /\ s \in SalesOf(owner[s])
  BY DEF SoldIn
<1>3. \A o \in orders : SalesOf(o) \subseteq S /\ \A s \in SalesOf(o) : s.externalId = o.externalId
  BY DEF SoldIn, SalesOf, Sale
<1> HIDE DEF S, owner
<1>4. ASSUME NEW o \in orders PROVE {s \in S : owner[s] = o} = SalesOf(o)
  <2>1. \A s \in SalesOf(o) : owner[s] = o
    BY <1>2, <1>3 DEF ToldApart
  <2> QED
    BY <1>2, <1>3, <2>1
<1>5. ASSUME NEW o \in orders PROVE perOrder[o] = SumIn(f, SalesOf(o))
  <2> DEFINE D == DOMAIN o.lines
  <2> DEFINE sale == [i \in D |-> Sale(o, i)]
  <2> DEFINE h == [i \in D |-> f[Sale(o, i)]]
  <2>1. IsFiniteSet(D) /\ perOrder[o] = SumFunction(h) /\ DOMAIN h = D /\ SalesOf(o) = {sale[i] : i \in D}
    BY DEF SalesOf
  <2>2. \A i \in D : h[i] \in Int /\ f[sale[i]] = h[i]
    OBVIOUS
  <2>3. \A i, j \in D : sale[i] = sale[j] => i = j
    BY DEF Sale
  <2> HIDE DEF D, sale, h
  <2>4. SumIn(f, {sale[i] : i \in D}) = SumIn(h, D)
    BY <2>1, <2>2, <2>3, SumRenamed
  <2> QED
    BY <2>1, <2>4, SumIsSumIn
<1>6. Grouped(S, f, owner, orders, perOrder)
  BY <1>1, <1>2, <1>4, <1>5 DEF Grouped
<1>7. SumIn(perOrder, orders) = SumIn(f, S)
  BY <1>6, SumInGroups
<1> QED
  BY <1>7 DEF S

LEMMA SkusAddUp ==
  ASSUME NEW orders, NEW f, NEW perOrder, SoldFor(orders, f, perOrder),
         NEW perSku, \A key \in KeysIn(orders) : perSku[key] = SumIn(f, UnderKey(orders, key))
  PROVE  SumIn(perSku, KeysIn(orders)) = SumIn(perOrder, orders)
<1> DEFINE S == SoldIn(orders)
<1> DEFINE K == KeysIn(orders)
<1> DEFINE key == [s \in S |-> SkuKey(s.line)]
<1>1. IsFiniteSet(S) /\ \A s \in S : f[s] \in Int
  BY SalesAreFinite
<1>2. K = {key[s] : s \in S} /\ \A k : UnderKey(orders, k) = {s \in S : key[s] = k}
  BY DEF KeysIn, UnderKey
<1> HIDE DEF S, K, key
<1>3. IsFiniteSet(K)
  BY <1>1, <1>2, ImageIsFinite
<1>4. \A k \in K : perSku[k] = SumIn(f, {s \in S : key[s] = k})
  BY <1>2 DEF K
<1>5. \A s \in S : key[s] \in K
  BY <1>2
<1>6. Grouped(S, f, key, K, perSku)
  BY <1>1, <1>3, <1>4, <1>5 DEF Grouped
<1>7. SumIn(perSku, K) = SumIn(f, S)
  BY <1>6, SumInGroups
<1> QED
  BY <1>7, SalesAddUp DEF K, S

(* What the economics of a SKU are: the sales under its key, summed.          *)
LEMMA SkusAre ==
  ASSUME NEW orders
  PROVE  LET skus == BuildSkuUnitEconomics(orders)
         IN  /\ DOMAIN skus = KeysIn(orders)
             /\ \A key \in KeysIn(orders) :
                  /\ skus[key].netRevenue = SumFunction([s \in UnderKey(orders, key) |-> s.line.netRevenue])
                  /\ \A c \in Components :
                       skus[key].costs[c] = SumFunction([s \in UnderKey(orders, key) |-> s.line.costs[c]])
<1> DEFINE sold == SoldIn(orders)
<1> DEFINE total == SumOver(sold, LAMBDA s : s.line.netRevenue)
<1> DEFINE Of(key) == {s \in sold : SkuKey(s.line) = key}
<1> DEFINE entry(key) ==
      SkuEntry(Of(key), SumOver(Of(key), LAMBDA s : s.line.quantity),
               SumOver(Of(key), LAMBDA s : s.line.netRevenue),
               Table([c \in Components |-> SumOver(Of(key), LAMBDA s : s.line.costs[c])]), total)
<1> DEFINE skus == BuildSkuUnitEconomics(orders)
<1>1. skus = SkuEntries(sold, total)
  BY DEF BuildSkuUnitEconomics, SoldIn, SalesOf, Sale
<1>2. SkuEntries(sold, total) = Table([key \in KeysIn(orders) |-> entry(key)])
  BY DEF SkuEntries, KeysIn
<1>3. \A key : Of(key) = UnderKey(orders, key)
  BY DEF UnderKey
<1>4. ASSUME NEW sales, NEW units, NEW net, NEW costs, NEW revenue
      PROVE  /\ SkuEntry(sales, units, net, costs, revenue).netRevenue = net
             /\ SkuEntry(sales, units, net, costs, revenue).costs = costs
  BY DEF SkuEntry
<1>5. ASSUME NEW key
      PROVE  /\ entry(key).netRevenue = SumOver(Of(key), LAMBDA s : s.line.netRevenue)
             /\ entry(key).costs = Table([c \in Components |-> SumOver(Of(key), LAMBDA s : s.line.costs[c])])
  BY <1>4
<1>6. ASSUME NEW key
      PROVE  /\ entry(key).netRevenue = SumFunction([s \in UnderKey(orders, key) |-> s.line.netRevenue])
             /\ \A c \in Components :
                  entry(key).costs[c] = SumFunction([s \in UnderKey(orders, key) |-> s.line.costs[c]])
  <2>1. Of(key) = UnderKey(orders, key)
    BY <1>3
  <2> HIDE DEF entry, Of
  <2>2. entry(key).netRevenue = SumFunction([s \in Of(key) |-> s.line.netRevenue])
    BY <1>5 DEF SumOver
  <2>3. entry(key).costs = [c \in Components |-> SumFunction([s \in Of(key) |-> s.line.costs[c]])]
    BY <1>5, TableIs DEF SumOver
  <2> QED
    BY <2>1, <2>2, <2>3
<1>7. skus = [key \in KeysIn(orders) |-> entry(key)]
  BY <1>1, <1>2, TableIs
<1> HIDE DEF entry, skus
<1> QED
  BY <1>6, <1>7 DEF skus

(* Orders whose lines carry what the order carries.                           *)
CarriedByLines(orders) ==
  /\ IsFiniteSet(orders) /\ ToldApart(orders)
  /\ \A o \in orders :
       /\ IsFiniteSet(DOMAIN o.lines)
       /\ \A i \in DOMAIN o.lines : o.lines[i].netRevenue \in Int /\ \A c \in Components : o.lines[i].costs[c] \in Int
       /\ o.netRevenue = SumFunction([i \in DOMAIN o.lines |-> o.lines[i].netRevenue])
       /\ \A c \in Components : o.costs[c] = SumFunction([i \in DOMAIN o.lines |-> o.lines[i].costs[c]])

LEMMA SalesCarry ==
  ASSUME NEW orders, CarriedByLines(orders), NEW o \in orders, NEW i \in DOMAIN o.lines
  PROVE  Sale(o, i) \in SoldIn(orders) /\ Sale(o, i).line = o.lines[i]
  BY DEF SoldIn, SalesOf, Sale

LEMMA AmountsReachSkus ==
  ASSUME NEW orders, NEW f, NEW perOrder, SoldFor(orders, f, perOrder), DOMAIN perOrder = orders,
         NEW perSku, DOMAIN perSku = KeysIn(orders),
         \A k \in KeysIn(orders) : perSku[k] = SumFunction([s \in UnderKey(orders, k) |-> f[s]])
  PROVE  SumFunction(perSku) = SumFunction(perOrder)
<1>1. ASSUME NEW k \in KeysIn(orders) PROVE perSku[k] = SumIn(f, UnderKey(orders, k))
  <2> DEFINE U == UnderKey(orders, k)
  <2> DEFINE g == [s \in U |-> f[s]]
  <2>1. perSku[k] = SumFunction(g) /\ DOMAIN g = U /\ \A s \in U : g[s] = f[s]
    OBVIOUS
  <2>2. IsFiniteSet(U) /\ \A s \in U : f[s] \in Int
    BY SalesAreFinite, FS_Subset DEF UnderKey
  <2> HIDE DEF U, g
  <2>3. SumIn(g, U) = SumIn(f, U)
    BY <2>1, <2>2, SumCongruent
  <2> QED
    BY <2>1, <2>3, SumIsSumIn DEF U
<1>2. SumIn(perSku, KeysIn(orders)) = SumIn(perOrder, orders)
  BY <1>1, SkusAddUp
<1> QED
  BY <1>2, SumIsSumIn

(* The orders' revenue and costs, line by line of the walk, are the SKUs'.    *)
LEMMA SkusReturnWhatLinesCarry ==
  ASSUME NEW orders, CarriedByLines(orders)
  PROVE  SkusAddUpTo(orders, BuildSkuUnitEconomics(orders))
<1> DEFINE skus == BuildSkuUnitEconomics(orders)
<1> DEFINE K == KeysIn(orders)
<1>1. /\ DOMAIN skus = K
      /\ \A k \in K :
           /\ skus[k].netRevenue = SumFunction([s \in UnderKey(orders, k) |-> s.line.netRevenue])
           /\ \A c \in Components : skus[k].costs[c] = SumFunction([s \in UnderKey(orders, k) |-> s.line.costs[c]])
  BY SkusAre
<1>2. \A o \in orders : \A i \in DOMAIN o.lines :
        /\ Sale(o, i) \in SoldIn(orders) /\ Sale(o, i).line = o.lines[i]
        /\ o.lines[i].netRevenue \in Int /\ \A c \in Components : o.lines[i].costs[c] \in Int
  BY SalesCarry DEF CarriedByLines
<1>3. \A k : UnderKey(orders, k) \subseteq SoldIn(orders)
  BY DEF UnderKey
<1> HIDE DEF skus, K
<1>4. SumOver(DOMAIN skus, LAMBDA k : skus[k].netRevenue) = NetOf(orders)
  <2> DEFINE f == [s \in SoldIn(orders) |-> s.line.netRevenue]
  <2> DEFINE perOrder == [o \in orders |-> o.netRevenue]
  <2> DEFINE perSku == [k \in K |-> skus[k].netRevenue]
  <2>1. ASSUME NEW o \in orders
        PROVE  /\ \A i \in DOMAIN o.lines : f[Sale(o, i)] = o.lines[i].netRevenue
               /\ perOrder[o] = SumFunction([i \in DOMAIN o.lines |-> f[Sale(o, i)]])
    <3>1. \A i \in DOMAIN o.lines : f[Sale(o, i)] = o.lines[i].netRevenue
      BY <1>2
    <3>2. perOrder[o] = SumFunction([i \in DOMAIN o.lines |-> o.lines[i].netRevenue])
      BY DEF CarriedByLines
    <3> HIDE DEF f
    <3>3. [i \in DOMAIN o.lines |-> f[Sale(o, i)]] = [i \in DOMAIN o.lines |-> o.lines[i].netRevenue]
      BY <3>1
    <3> QED
      BY <3>1, <3>2, <3>3
  <2>2. ASSUME NEW k \in K PROVE perSku[k] = SumFunction([s \in UnderKey(orders, k) |-> f[s]])
    <3>1. [s \in UnderKey(orders, k) |-> f[s]] = [s \in UnderKey(orders, k) |-> s.line.netRevenue]
      BY <1>3
    <3> QED
      BY <1>1, <3>1
  <2>3. DOMAIN perOrder = orders /\ DOMAIN perSku = K
    OBVIOUS
  <2>4. SumOver(DOMAIN skus, LAMBDA k : skus[k].netRevenue) = SumFunction(perSku)
    BY <1>1 DEF SumOver
  <2>5. NetOf(orders) = SumFunction(perOrder)
    BY DEF NetOf, SumOver
  <2> HIDE DEF f, perOrder, perSku
  <2>6. SoldFor(orders, f, perOrder)
    BY <1>2, <2>1 DEF SoldFor, CarriedByLines
  <2>7. SumFunction(perSku) = SumFunction(perOrder)
    BY <2>2, <2>3, <2>6, AmountsReachSkus DEF K
  <2> QED
    BY <2>4, <2>5, <2>7
<1>5. ASSUME NEW c \in Components
      PROVE  SumOver(DOMAIN skus, LAMBDA k : skus[k].costs[c]) = SumOver(orders, LAMBDA o : o.costs[c])
  <2> DEFINE f == [s \in SoldIn(orders) |-> s.line.costs[c]]
  <2> DEFINE perOrder == [o \in orders |-> o.costs[c]]
  <2> DEFINE perSku == [k \in K |-> skus[k].costs[c]]
  <2>1. ASSUME NEW o \in orders
        PROVE  /\ \A i \in DOMAIN o.lines : f[Sale(o, i)] = o.lines[i].costs[c]
               /\ perOrder[o] = SumFunction([i \in DOMAIN o.lines |-> f[Sale(o, i)]])
    <3>1. \A i \in DOMAIN o.lines : f[Sale(o, i)] = o.lines[i].costs[c]
      BY <1>2
    <3>2. perOrder[o] = SumFunction([i \in DOMAIN o.lines |-> o.lines[i].costs[c]])
      BY DEF CarriedByLines
    <3> HIDE DEF f
    <3>3. [i \in DOMAIN o.lines |-> f[Sale(o, i)]] = [i \in DOMAIN o.lines |-> o.lines[i].costs[c]]
      BY <3>1
    <3> QED
      BY <3>1, <3>2, <3>3
  <2>2. ASSUME NEW k \in K PROVE perSku[k] = SumFunction([s \in UnderKey(orders, k) |-> f[s]])
    <3>1. [s \in UnderKey(orders, k) |-> f[s]] = [s \in UnderKey(orders, k) |-> s.line.costs[c]]
      BY <1>3
    <3> QED
      BY <1>1, <3>1
  <2>3. DOMAIN perOrder = orders /\ DOMAIN perSku = K
    OBVIOUS
  <2>4. SumOver(DOMAIN skus, LAMBDA k : skus[k].costs[c]) = SumFunction(perSku)
    BY <1>1 DEF SumOver
  <2>5. SumOver(orders, LAMBDA o : o.costs[c]) = SumFunction(perOrder)
    BY DEF SumOver
  <2> HIDE DEF f, perOrder, perSku
  <2>6. SoldFor(orders, f, perOrder)
    BY <1>2, <2>1 DEF SoldFor, CarriedByLines
  <2>7. SumFunction(perSku) = SumFunction(perOrder)
    BY <2>2, <2>3, <2>6, AmountsReachSkus DEF K
  <2> QED
    BY <2>4, <2>5, <2>7
<1>6. SkusAddUpTo(orders, skus)
  BY <1>4, <1>5 DEF SkusAddUpTo
<1> QED
  BY <1>6 DEF skus

LEMMA LinesOfAre ==
  ASSUME NEW id \in LiveOrders
  PROVE  LET o == Catalogue[id]
         IN  /\ DOMAIN LinesOf(id) = DOMAIN o.lines /\ IsFiniteSet(DOMAIN o.lines)
             /\ \E n \in Nat : DOMAIN o.lines = 1 .. n
             /\ \A i \in DOMAIN o.lines :
                  /\ LineMerchandise(o.lines[i]) \in Int /\ PostageOf(o)[i] \in Int
                  /\ LinesOf(id)[i].netRevenue = LineMerchandise(o.lines[i]) + PostageOf(o)[i]
                  /\ LinesOf(id)[i].netRevenue \in Int
                  /\ \A c \in Components : LinesOf(id)[i].costs[c] \in Int
             /\ o.lines # <<>> => DOMAIN o.lines # {}
<1> DEFINE o == Catalogue[id]
<1> DEFINE lines == o.lines
<1> DEFINE rules == RulesOn(DateOf(id))
<1> DEFINE unitCosts == UnitCostsOn(DateOf(id))
<1> DEFINE postage == PostageOf(o)
<1>1. OrderTyped(o)
  BY PricedIs
<1>2. \A i \in DOMAIN lines : postage[i] \in Int
  BY <1>1, PostageIs
<1>3. RulesTyped(rules) /\ UnitCostsTyped(unitCosts) /\ LinesTyped(lines)
  BY <1>1, RulesAreTyped, UnitCostsAreTyped DEF OrderTyped
<1>4. LinesOf(id) = AllocateLines(lines, rules, unitCosts, postage)
  BY DEF LinesOf
<1>5. lines \in Seq({lines[i] : i \in DOMAIN lines})
  BY <1>1 DEF OrderTyped, LinesTyped, Listed
<1>6. Len(lines) \in Nat /\ DOMAIN lines = 1 .. Len(lines) /\ IsFiniteSet(DOMAIN lines)
  BY <1>1, ListedIs DEF OrderTyped, LinesTyped
<1>7. lines # <<>> => DOMAIN lines # {}
  BY <1>5, <1>6
<1> HIDE DEF lines, rules, unitCosts, postage
<1>8. /\ DOMAIN LinesOf(id) = DOMAIN lines
      /\ \A i \in DOMAIN lines :
           /\ LineMerchandise(lines[i]) \in Int
           /\ LinesOf(id)[i].netRevenue = LineMerchandise(lines[i]) + postage[i]
           /\ LinesOf(id)[i].netRevenue \in Int
           /\ \A c \in Components : LinesOf(id)[i].costs[c] \in Int
  BY <1>2, <1>3, <1>4, AllocatedLinesAre
<1> QED
  BY <1>2, <1>6, <1>7, <1>8 DEF lines, postage

(* An order that fits returns its revenue to its lines.                       *)
LEMMA RevenueReachesLines ==
  ASSUME NEW id \in LiveOrders, Fits(Priced(id))
  PROVE  /\ LinesOf(id) # <<>>
         /\ SumFunction([i \in DOMAIN LinesOf(id) |-> LinesOf(id)[i].netRevenue]) = Priced(id).netRevenue
<1> DEFINE o == Catalogue[id]
<1> DEFINE p == Priced(id)
<1> DEFINE S == DOMAIN o.lines
<1> DEFINE net == [i \in S |-> LinesOf(id)[i].netRevenue]
<1> DEFINE goods == [i \in S |-> LineMerchandise(o.lines[i])]
<1> DEFINE postage == PostageOf(o)
<1>1. /\ OrderTyped(o) /\ p.netRevenue = o.grossSales - o.discounts + o.shippingRevenue
      /\ p.lines = LinesOf(id)
      /\ p.lineTotalsDiverge = (LinesOf(id) # <<>> /\ SumFunction(goods) # o.grossSales - o.discounts)
  BY PricedIs
<1>2. LinesOf(id) # <<>> /\ SumFunction(goods) = o.grossSales - o.discounts
  BY <1>1 DEF Fits
<1>3. /\ DOMAIN LinesOf(id) = S /\ IsFiniteSet(S)
      /\ \A i \in S : /\ goods[i] \in Int /\ postage[i] \in Int /\ net[i] = goods[i] + postage[i]
  BY LinesOfAre
<1>4. S # {}
  <2>1. \E n \in Nat : S = 1 .. n
    BY LinesOfAre
  <2>2. LinesOf(id) = AllocateLines(o.lines, RulesOn(DateOf(id)), UnitCostsOn(DateOf(id)), postage)
    BY DEF LinesOf
  <2>3. LinesOf(id) = [i \in S |-> LinesOf(id)[i]]
    BY <1>3, <2>2, TableIs DEF AllocateLines, ChargedLines
  <2> HIDE DEF S
  <2>4. S = {} => LinesOf(id) = <<>>
    BY <2>3
  <2> QED
    BY <1>2, <2>4
<1>5. o.grossSales \in Int /\ o.discounts \in Int /\ o.shippingRevenue \in Int
  BY <1>1 DEF OrderTyped, Amounts
<1>6. SumIn(postage, S) = o.shippingRevenue
  <2>1. SumIn(postage, S) = ToPence(o.shippingRevenue)
    BY <1>1, <1>4, PostageIs
  <2>2. id \in IdsOf("orders")
    BY DEF LiveOrders, StoredIn
  <2>3. o.shippingRevenue % Penny = 0
    BY <2>2, AmountsAssumption
  <2> QED
    BY <1>5, <2>1, <2>3, WholePenceStay
<1>7. DOMAIN net = S /\ DOMAIN goods = S
  OBVIOUS
<1>8. SumFunction([i \in DOMAIN LinesOf(id) |-> LinesOf(id)[i].netRevenue]) = SumFunction(net)
  BY <1>3
<1> HIDE DEF S, net, goods, postage
<1>9. SumIn(net, S) = SumIn(goods, S) + SumIn(postage, S)
  BY <1>3, SumPlus
<1>10. SumFunction(net) = (o.grossSales - o.discounts) + o.shippingRevenue
  BY <1>2, <1>6, <1>7, <1>9, SumIsSumIn
<1> QED
  BY <1>1, <1>2, <1>8, <1>10

(* ... and so does every charge per order that applies to some of them.       *)
ReturnedTo(lines, net, rules, revenue) ==
  LET Matching(a) == {i \in DOMAIN lines : AssumptionMatchesLine(a, lines[i])}
  IN  /\ SumSeq(net) = revenue
      /\ \A a \in {r \in rules : r.basis = "per_order"} :
           (\A i \in Matching(a) : net[i] >= 0) /\ SumOver(Matching(a), LAMBDA i : net[i]) > 0
             => SumSeq(LineCharges(a, lines, net)) = ToPence(a.amount)

LEMMA OrderReachesLines ==
  ASSUME NEW id \in LiveOrders, Fits(Priced(id))
  PROVE  LinesReturn(Priced(id))
<1> DEFINE p == Priced(id)
<1> DEFINE lines == LinesOf(id)
<1> DEFINE net == [i \in DOMAIN lines |-> lines[i].netRevenue]
<1> DEFINE Matching(a) == {i \in DOMAIN lines : AssumptionMatchesLine(a, lines[i])}
<1>1. p.lines = lines /\ p.businessDate = DateOf(id)
  BY PricedIs, PricedFields
<1>2. SumFunction(net) = p.netRevenue
  BY RevenueReachesLines
<1>3. (\E n \in Nat : DOMAIN lines = 1 .. n) /\ \A i \in DOMAIN lines : net[i] \in Int
  BY LinesOfAre
<1>4. RulesOn(DateOf(id)) \subseteq LoadAllocationContext.assumptions
  BY DEF RulesOn, ResolveAssumptions, ResolveAllEffective
<1>5. \A a \in LoadAllocationContext.assumptions : a.amount \in Nat
  BY AmountsAssumption DEF LoadAllocationContext, StoredIn
<1> HIDE DEF lines, net
<1>6. ASSUME NEW a \in RulesOn(DateOf(id)), a.basis = "per_order",
             \A i \in Matching(a) : net[i] >= 0, SumOver(Matching(a), LAMBDA i : net[i]) > 0
      PROVE  SumSeq(LineCharges(a, lines, net)) = ToPence(a.amount)
  <2>1. SumFunction([i \in Matching(a) |-> net[i]]) > 0
    BY <1>6 DEF SumOver
  <2>2. Matching(a) = MatchedBy(a, lines)
    BY DEF MatchedBy
  <2> HIDE DEF Matching
  <2>3. ChargedOn(a, lines, net)
    BY <1>3, <1>4, <1>5, <1>6, <2>1, <2>2 DEF ChargedOn
  <2> QED
    BY <2>3, ChargeReturns
<1>7. ReturnedTo(lines, net, RulesOn(DateOf(id)), p.netRevenue)
  <2>1. SumSeq(net) = p.netRevenue
    BY <1>2 DEF SumSeq
  <2> QED
    BY <1>6, <2>1 DEF ReturnedTo
<1> HIDE DEF p
<1>8. LinesReturn(p)
  <2>1. LinesReturn(p) = ReturnedTo(p.lines, [i \in DOMAIN p.lines |-> p.lines[i].netRevenue],
                                    RulesOn(p.businessDate), p.netRevenue)
    BY DEF LinesReturn, ReturnedTo, RulesOn
  <2> QED
    BY <1>1, <1>7, <2>1 DEF net
<1> QED
  BY <1>8 DEF p

LEMMA FittingOrdersCarry ==
  ASSUME BooksInv, NEW d \in Int
  PROVE  CarriedByLines({o \in PricedBy(d) : Fits(o)})
<1> DEFINE ids == LiveBy(d)
<1> DEFINE price == [id \in ids |-> Priced(id)]
<1> DEFINE orders == {o \in PricedBy(d) : Fits(o)}
<1>1. ids \subseteq LiveOrders /\ LiveOrders \subseteq IdsOf("orders")
  BY DEF LiveBy, LiveOrders, StoredIn
<1>2. PricedBy(d) = {price[id] : id \in ids}
  BY DEF PricedBy
<1>3. IsFiniteSet(PricedBy(d))
  <2> HIDE DEF ids, price
  <2> QED
    BY <1>1, <1>2, RowsAreFinite, ImageIsFinite
<1>4. IsFiniteSet(orders)
  BY <1>3, FS_Subset
<1>5. ToldApart(orders)
  <2>1. \A id, other \in ids : Priced(id).externalId = Priced(other).externalId => id = other
    BY <1>1, PricedFields, CatalogueAssumption
  <2> QED
    BY <2>1 DEF ToldApart, PricedBy
<1>6. ASSUME NEW o \in orders
      PROVE  /\ IsFiniteSet(DOMAIN o.lines)
             /\ \A i \in DOMAIN o.lines : o.lines[i].netRevenue \in Int /\ \A c \in Components : o.lines[i].costs[c] \in Int
             /\ o.netRevenue = SumFunction([i \in DOMAIN o.lines |-> o.lines[i].netRevenue])
             /\ \A c \in Components : o.costs[c] = SumFunction([i \in DOMAIN o.lines |-> o.lines[i].costs[c]])
  <2>1. PICK id \in LiveOrders : o = Priced(id)
    BY DEF PricedBy, LiveBy
  <2>2. Fits(Priced(id))
    BY <2>1
  <2>3. LinesOf(id) # <<>> /\ SumFunction([i \in DOMAIN LinesOf(id) |-> LinesOf(id)[i].netRevenue]) = o.netRevenue
    BY <2>1, <2>2, RevenueReachesLines
  <2>4. /\ IsFiniteSet(DOMAIN LinesOf(id))
        /\ \A i \in DOMAIN LinesOf(id) : LinesOf(id)[i].netRevenue \in Int /\ \A c \in Components : LinesOf(id)[i].costs[c] \in Int
    BY LinesOfAre
  <2>5. o.lines = LinesOf(id)
        /\ \A c \in Components : o.costs[c] = SumFunction([i \in DOMAIN LinesOf(id) |-> LinesOf(id)[i].costs[c]])
    BY <2>1, <2>3, PricedIs
  <2> QED
    BY <2>3, <2>4, <2>5
<1> HIDE DEF orders
<1>7. CarriedByLines(orders)
  BY <1>4, <1>5, <1>6 DEF CarriedByLines
<1> QED
  BY <1>7 DEF orders

(* Every penny of an order reaches its lines and every line its SKU, in every *)
(* history the program loads (Figures!SkusReturnTheOrders).                   *)
THEOREM SkusReturn == Spec => []SkusReturnTheOrders
<1>1. ASSUME BooksInv PROVE SkusReturnTheOrders
  <2> DEFINE last == Max(Days)
  <2> DEFINE orders == {o \in History(last).allocated : Fits(o)}
  <2>1. last \in Int
    BY DaysAssumption, EndsExist
  <2> HIDE DEF last
  <2>2. History(last).allocated = PricedBy(last)
    BY <1>1, <2>1, HistoryIs
  <2>3. orders = {o \in PricedBy(last) : Fits(o)}
    BY <2>2
  <2>4. SkusAddUpTo(orders, BuildSkuUnitEconomics(orders))
    BY <1>1, <2>1, <2>3, FittingOrdersCarry, SkusReturnWhatLinesCarry
  <2>5. \A o \in orders : LinesReturn(o)
    BY <2>3, OrderReachesLines DEF PricedBy, LiveBy
  <2> QED
    BY <2>4, <2>5, Zenon DEF SkusReturnTheOrders, last
<1> QED
  BY <1>1, BooksAreKept, PTL

(*----------------------------- reconciliation ----------------------------*)
(* What was there before the first import stays.                              *)
SeededStay == Seeded \subseteq stored

LEMMA SeededAreKept == Spec => []SeededStay
<1>1. Init => SeededStay
  BY DEF Init, BooksInit, SeededStay
<1>2. SeededStay /\ [Next]_bookVars => SeededStay'
  BY DEF SeededStay, Next, BooksNext, StoreOrder, CancelOrder, StoreRow, Decide, bookVars
<1> QED
  BY <1>1, <1>2, PTL DEF Spec

LEMMA EqualSidesMatch ==
  ASSUME NEW key, NEW x \in Int, NEW tolerance
  PROVE  LET r == Reconcile(key, <<x>>, <<x>>, tolerance)
         IN  r.key = key /\ r.status = "matched"
<1> DEFINE r == Reconcile(key, <<x>>, <<x>>, tolerance)
<1>1. <<x>> # NotAvailable
  BY DEF NotAvailable
<1>2. Magnitude(x - x) = 0
  BY DEF Magnitude
<1>3. \A a, b : (a # NotAvailable /\ b # NotAvailable /\ Magnitude(a[1] - b[1]) = 0) =>
        Reconcile(key, a, b, tolerance).key = key /\ Reconcile(key, a, b, tolerance).status = "matched"
  BY DEF Reconcile
<1>4. <<x>>[1] = x
  OBVIOUS
<1> QED
  BY <1>1, <1>2, <1>3, <1>4

(* The entries of rows come to what the rows come to.                         *)
LEMMA EntriesComeTo ==
  ASSUME NEW S, IsFiniteSet(S), NEW entry, NEW f, DOMAIN f = S,
         \A id \in S : entry[id].id = id /\ entry[id].amount = f[id] /\ f[id] \in Int
  PROVE  Total({entry[id] : id \in S}) = SumFunction(f)
<1> DEFINE T == {entry[id] : id \in S}
<1> DEFINE g == [e \in T |-> e.amount]
<1>1. Total(T) = SumFunction(g) /\ DOMAIN g = T
  BY DEF Total, SumOver
<1>2. \A id \in S : f[id] \in Int /\ g[entry[id]] = f[id]
  OBVIOUS
<1>3. \A id, other \in S : entry[id] = entry[other] => id = other
  OBVIOUS
<1> HIDE DEF g
<1>4. SumIn(g, {entry[id] : id \in S}) = SumIn(f, S)
  BY <1>2, <1>3, SumRenamed
<1> QED
  BY <1>1, <1>4, SumIsSumIn

(* Books that hold every row of the range.                                    *)
BooksAreComplete == Expected \subseteq stored /\ cancelled = {}

LEMMA RowsAreThere ==
  ASSUME SourcesAgree, BooksAreComplete
  PROVE  /\ Sales = {id \in LiveOrders : /\ InUtcWindow(Catalogue[id].orderedAt, ReconciledRange)
                                        /\ InRange(BusinessDate(Catalogue[id].orderedAt), ReconciledRange)}
         /\ RowsDated("payouts") = {id \in StoredIn("payouts") : InRange(Catalogue[id].date, ReconciledRange)}
         /\ RowsDated("transactions") = {id \in StoredIn("transactions") : InRange(Catalogue[id].date, ReconciledRange)}
         /\ AccountSpend = {id \in StoredIn("adRows") : /\ Catalogue[id].entity = "account"
                                                       /\ InRange(Catalogue[id].date, ReconciledRange)}
         /\ AcquisitionRules(IdsOf("rules")) = AcquisitionRules(StoredIn("rules"))
<1>1. /\ ReconciledRange.from \in Int /\ ReconciledRange.to \in Int
      /\ Sales \subseteq stored /\ AccountSpend \subseteq stored /\ RowsDated("payouts") \subseteq stored
      /\ RowsDated("transactions") \subseteq stored /\ AcquisitionRules(IdsOf("rules")) \subseteq stored
  BY DEF SourcesAgree, BooksAreComplete
<1>2. \A id \in Sales : id \in LiveOrders /\ InUtcWindow(Catalogue[id].orderedAt, ReconciledRange)
  <2> SUFFICES ASSUME NEW id \in Sales
               PROVE  id \in LiveOrders /\ InUtcWindow(Catalogue[id].orderedAt, ReconciledRange)
    OBVIOUS
  <2>1. id \in IdsOf("orders") /\ ~Catalogue[id].isTest /\ InRange(BusinessDate(Catalogue[id].orderedAt), ReconciledRange)
    BY DEF Sales
  <2>2. id \in LiveOrders
    BY <1>1, <2>1 DEF LiveOrders, StoredIn, BooksAreComplete
  <2>3. Catalogue[id].orderedAt \in Int
    BY <2>1, CatalogueAssumption
  <2> QED
    BY <1>1, <2>1, <2>2, <2>3, WindowHoldsDates
<1>3. Sales = {id \in LiveOrders : /\ InUtcWindow(Catalogue[id].orderedAt, ReconciledRange)
                                   /\ InRange(BusinessDate(Catalogue[id].orderedAt), ReconciledRange)}
  BY <1>2 DEF Sales, LiveOrders, StoredIn
<1> QED
  BY <1>1, <1>3 DEF RowsDated, AccountSpend, AcquisitionRules, StoredIn

(* What the customers were charged, and what was settled.                     *)
ChargedTotal == SumFunction([id \in Sales |-> ChargedFor(Catalogue[id])])

LEMMA RevenueMatches ==
  ASSUME SourcesAgree, BooksAreComplete
  PROVE  /\ TotalOf(LoadChargedRevenue(ReconciledRange)) = <<ChargedTotal>>
         /\ TotalOf(LoadPayouts(ReconciledRange)) = <<ChargedTotal>>
         /\ ChargedTotal \in Int
<1> DEFINE charged == [id \in Sales |-> ChargedFor(Catalogue[id])]
<1> DEFINE sale == [id \in Sales |-> [id |-> id, amount |-> ChargedFor(Catalogue[id])]]
<1> DEFINE P == RowsDated("payouts")
<1> DEFINE gross == [id \in P |-> GrossOf(Catalogue[id])]
<1> DEFINE settled == [id \in P |-> [id |-> id, amount |-> GrossOf(Catalogue[id])]]
<1>1. IsFiniteSet(Sales) /\ IsFiniteSet(P)
  <2>1. Sales \subseteq IdsOf("orders") /\ P \subseteq IdsOf("payouts")
    BY DEF Sales, RowsDated
  <2> HIDE DEF P
  <2> QED
    BY <2>1, RowsAreFinite
<1>2. \A id \in Sales : ChargedFor(Catalogue[id]) \in Int
  <2> SUFFICES ASSUME NEW id \in Sales PROVE ChargedFor(Catalogue[id]) \in Int
    OBVIOUS
  <2>1. Amounts(Catalogue[id], {"grossSales", "discounts", "shippingRevenue", "tax"})
    BY AmountsAssumption DEF Sales
  <2>2. /\ Catalogue[id].grossSales \in Int /\ Catalogue[id].discounts \in Int
        /\ Catalogue[id].shippingRevenue \in Int /\ Catalogue[id].tax \in Int
    BY <2>1 DEF Amounts
  <2> QED
    BY <2>2 DEF ChargedFor
<1>3. \A id \in P : GrossOf(Catalogue[id]) \in Int
  <2> SUFFICES ASSUME NEW id \in P PROVE GrossOf(Catalogue[id]) \in Int
    OBVIOUS
  <2>1. Amounts(Catalogue[id], {"charges", "refunds", "fees", "net"})
    BY AmountsAssumption DEF RowsDated
  <2>2. /\ Catalogue[id].charges \in Int /\ Catalogue[id].refunds \in Int
        /\ Catalogue[id].fees \in Int /\ Catalogue[id].net \in Int
    BY <2>1 DEF Amounts
  <2> QED
    BY <2>2 DEF GrossOf
<1>4. LoadChargedRevenue(ReconciledRange) = <<{sale[id] : id \in Sales}>>
  BY RowsAreThere DEF LoadChargedRevenue
<1>5. LoadPayouts(ReconciledRange) = <<{settled[id] : id \in P}>>
  <2>1. StoredIn("payouts") # {}
    BY DEF SourcesAgree, BooksAreComplete, StoredIn
  <2> QED
    BY <2>1, RowsAreThere DEF LoadPayouts
<1>6. ChargedTotal = SumFunction(charged) /\ ChargedTotal = SumFunction(gross)
  <2>1. SumOver(Sales, LAMBDA id : ChargedFor(Catalogue[id]))
          = SumOver(RowsDated("payouts"), LAMBDA id : GrossOf(Catalogue[id]))
    BY DEF SourcesAgree
  <2> QED
    BY <2>1 DEF SumOver, ChargedTotal
<1>7. DOMAIN charged = Sales /\ \A id \in Sales : charged[id] \in Int /\ sale[id].id = id /\ sale[id].amount = charged[id]
  BY <1>2
<1>8. DOMAIN gross = P /\ \A id \in P : gross[id] \in Int /\ settled[id].id = id /\ settled[id].amount = gross[id]
  BY <1>3
<1> HIDE DEF charged, gross, sale, settled, P
<1>9. Total({sale[id] : id \in Sales}) = ChargedTotal /\ ChargedTotal \in Int
  <2>1. Total({sale[id] : id \in Sales}) = SumFunction(charged)
    BY <1>1, <1>7, EntriesComeTo
  <2>2. SumFunction(charged) \in Int
    BY <1>1, <1>7, TotalIsInt
  <2> QED
    BY <1>6, <2>1, <2>2
<1>10. Total({settled[id] : id \in P}) = ChargedTotal
  BY <1>1, <1>6, <1>8, EntriesComeTo
<1>11. \A x : TotalOf(<<x>>) = <<Total(x)>>
  BY DEF TotalOf, NotAvailable
<1> QED
  BY <1>4, <1>5, <1>9, <1>10, <1>11

(* What the platforms charged, and what was booked for them.                  *)
LEMMA LedgerIs ==
  ASSUME SourcesAgree, BooksAreComplete
  PROVE  LoadAccountingAdvertising(ReconciledRange) = <<BookedCharges>>
<1> DEFINE rules == AcquisitionRules(IdsOf("rules"))
<1> DEFINE listed(ids) == {i \in ids : InRange(Catalogue[i].date, ReconciledRange) /\ Catalogue[i].lines # <<>>}
<1>1. AcquisitionRules(StoredIn("rules")) = rules /\ rules # {}
  BY RowsAreThere DEF SourcesAgree
<1>2. listed(StoredIn("transactions")) = listed(IdsOf("transactions"))
  BY RowsAreThere DEF RowsDated
<1> HIDE DEF rules
<1>3. AdvertisingCharges(StoredIn("transactions"), rules, ReconciledRange)
        = AdvertisingCharges(IdsOf("transactions"), rules, ReconciledRange)
  BY <1>2, Zenon DEF AdvertisingCharges
<1> QED
  BY <1>1, <1>3 DEF LoadAccountingAdvertising, BookedCharges, rules

SpendOf(rows) == SumFunction([id \in rows |-> Catalogue[id].spend])
AccountSpendOn(p) == {id \in AccountSpend : Catalogue[id].platform = p}
EntriesOf(entries, p) == {e \in entries : e.platform = p}

LEMMA SpendEntries ==
  ASSUME SourcesAgree, BooksAreComplete, NEW rows, rows \subseteq AccountSpend
  PROVE  /\ Total({[id |-> id, platform |-> Catalogue[id].platform, amount |-> Catalogue[id].spend] : id \in rows})
              = SpendOf(rows)
         /\ SpendOf(rows) \in Int
<1> DEFINE f == [id \in rows |-> Catalogue[id].spend]
<1> DEFINE entry == [id \in rows |-> [id |-> id, platform |-> Catalogue[id].platform, amount |-> Catalogue[id].spend]]
<1>1. rows \subseteq IdsOf("adRows")
  BY DEF AccountSpend, RowsDated
<1>2. IsFiniteSet(rows)
  BY <1>1, RowsAreFinite
<1>3. DOMAIN f = rows /\ \A id \in rows : f[id] \in Int /\ entry[id].id = id /\ entry[id].amount = f[id]
  BY <1>1, AmountsAssumption
<1>4. SpendOf(rows) = SumFunction(f)
  BY DEF SpendOf
<1>5. {entry[id] : id \in rows}
        = {[id |-> id, platform |-> Catalogue[id].platform, amount |-> Catalogue[id].spend] : id \in rows}
  OBVIOUS
<1> HIDE DEF f, entry
<1>6. Total({entry[id] : id \in rows}) = SumFunction(f)
  BY <1>2, <1>3, EntriesComeTo
<1>7. SumFunction(f) \in Int
  BY <1>2, <1>3, TotalIsInt
<1> QED
  BY <1>4, <1>5, <1>6, <1>7

LEMMA SpendMatches ==
  ASSUME SourcesAgree, BooksAreComplete
  PROVE  LET charged == LoadPlatformSpend(ReconciledRange)
         IN  /\ Total(charged) = Total(BookedCharges) /\ Total(charged) \in Int
             /\ \A p \in {"meta", "tiktok"} :
                  /\ Total(EntriesOf(charged, p)) = Total(EntriesOf(BookedCharges, p))
                  /\ Total(EntriesOf(charged, p)) \in Int
<1> DEFINE charged == LoadPlatformSpend(ReconciledRange)
<1> DEFINE entry(id) == [id |-> id, platform |-> Catalogue[id].platform, amount |-> Catalogue[id].spend]
<1>1. charged = {entry(id) : id \in AccountSpend}
  <2> DEFINE row(id) ==
        [platform |-> Catalogue[id].platform, businessDate |-> Catalogue[id].date,
         spend |-> Catalogue[id].spend, purchases |-> Catalogue[id].purchases,
         purchaseValue |-> Catalogue[id].purchaseValue, id |-> id]
  <2> DEFINE shown(s) == [id |-> s.id, platform |-> s.platform, amount |-> s.spend]
  <2>1. LoadAdSpend(ReconciledRange) = {row(id) : id \in AccountSpend}
    BY RowsAreThere DEF LoadAdSpend
  <2>2. charged = {shown(s) : s \in LoadAdSpend(ReconciledRange)}
    BY DEF LoadPlatformSpend
  <2>3. \A id : shown(row(id)) = entry(id)
    OBVIOUS
  <2> HIDE DEF row, shown, entry, charged
  <2> QED
    BY <2>1, <2>2, <2>3
<1>2. \A p : EntriesOf(charged, p) = {entry(id) : id \in AccountSpendOn(p)}
  BY <1>1 DEF EntriesOf, AccountSpendOn
<1>3. \A p : AccountSpendOn(p) \subseteq AccountSpend
  BY DEF AccountSpendOn
<1>4. /\ SpendOf(AccountSpend) = Total(BookedCharges)
      /\ \A p \in {"meta", "tiktok"} : SpendOf(AccountSpendOn(p)) = Total(EntriesOf(BookedCharges, p))
  BY DEF SourcesAgree, SumOver, SpendOf, AccountSpendOn, EntriesOf
<1>5. \A rows : rows \subseteq AccountSpend => Total({entry(id) : id \in rows}) = SpendOf(rows) /\ SpendOf(rows) \in Int
  BY SpendEntries
<1> HIDE DEF charged, entry
<1>6. Total(charged) = Total(BookedCharges) /\ Total(charged) \in Int
  BY <1>1, <1>4, <1>5
<1>7. ASSUME NEW p \in {"meta", "tiktok"}
      PROVE  /\ Total(EntriesOf(charged, p)) = Total(EntriesOf(BookedCharges, p))
             /\ Total(EntriesOf(charged, p)) \in Int
  BY <1>2, <1>3, <1>4, <1>5
<1> QED
  BY <1>6, <1>7 DEF charged

(* What the bank reported, and what the movements between make of it.         *)
LEMMA BalancesShowWhatIsMissing ==
  ASSUME SourcesAgree, SeededStay
  PROVE  LET balances == LoadBalances(ReconciledRange)
             missing == SumFunction([id \in Inside \ stored |-> Moved(Catalogue[id])])
         IN  \E x, y \in Int : /\ balances.modelled = <<x>> /\ balances.reported = <<y>>
                               /\ missing \in Int /\ x - y = - missing
<1> DEFINE there == MovedBetween \cap stored
<1> DEFINE away == MovedBetween \ stored
<1> DEFINE moved == [id \in MovedBetween |-> Moved(Catalogue[id])]
<1> DEFINE missing == [id \in Inside \ stored |-> Moved(Catalogue[id])]
<1> DEFINE here == [id \in there |-> Moved(Catalogue[id])]
<1> DEFINE entry(id) == [id |-> id, businessDate |-> Catalogue[id].date, amount |-> Moved(Catalogue[id])]
<1> DEFINE row == [id \in there |-> entry(id)]
<1> DEFINE applied == {m \in BankMovements(ReconciledRange) : Opening < m.businessDate /\ m.businessDate <= Latest}
<1> DEFINE balances == LoadBalances(ReconciledRange)
<1>1. MovedBetween \subseteq IdsOf("transactions") /\ IsFiniteSet(MovedBetween)
  <2>1. MovedBetween \subseteq IdsOf("transactions")
    BY DEF MovedBetween, RowsDated
  <2> QED
    BY <2>1, RowsAreFinite
<1>2. \A id \in MovedBetween : moved[id] \in Int
  <2> SUFFICES ASSUME NEW id \in MovedBetween PROVE Moved(Catalogue[id]) \in Int
    OBVIOUS
  <2>1. Catalogue[id].total \in Int
    BY <1>1, AmountsAssumption
  <2> QED
    BY <2>1 DEF Moved
<1>3. IsFiniteSet(there) /\ IsFiniteSet(away) /\ MovedBetween = there \cup away /\ there \cap away = {}
  BY <1>1, FS_Subset
<1>4. Inside \ stored = away
  <2>1. MovedBetween \subseteq Inside
    BY DEF MovedBetween, Inside, SourcesAgree, RowsDated, IdsOf
  <2>2. Inside \ MovedBetween \subseteq stored
    BY DEF SourcesAgree, SeededStay
  <2> QED
    BY <2>1, <2>2
<1>5. {b \in BalancesTo(ReconciledRange.to) : b.date >= ReconciledRange.from} = Reported
  <2>1. StoredIn("balances") = IdsOf("balances")
    BY DEF StoredIn, SourcesAgree, SeededStay
  <2>2. \A id \in IdsOf("balances") : Catalogue[id].date \in Int
    BY AmountsAssumption DEF Amounts
  <2>3. ReconciledRange.from \in Int /\ ReconciledRange.to \in Int
    BY DEF SourcesAgree
  <2> QED
    BY <2>1, <2>2, <2>3 DEF BalancesTo, Reported, RowsDated, InRange
<1>6. applied = {row[id] : id \in there}
  <2>1. BankMovements(ReconciledRange)
          = {entry(id) : id \in {i \in StoredIn("transactions") : /\ Catalogue[i].bank # "none"
                                                                 /\ InRange(Catalogue[i].date, ReconciledRange)}}
    BY DEF BankMovements
  <2>2. \A id : entry(id).businessDate = Catalogue[id].date
    OBVIOUS
  <2>3. there = {i \in StoredIn("transactions") : /\ Catalogue[i].bank # "none" /\ InRange(Catalogue[i].date, ReconciledRange)
                                                  /\ Opening < Catalogue[i].date /\ Catalogue[i].date <= Latest}
    BY DEF MovedBetween, RowsDated, StoredIn
  <2>4. {row[id] : id \in there} = {entry(id) : id \in there}
    OBVIOUS
  <2> HIDE DEF entry, row, there
  <2> QED
    BY <2>1, <2>2, <2>3, <2>4
<1>7. balances = [modelled |-> <<BalanceOn(Opening, Reported) + Total(applied)>>,
                  reported |-> <<BalanceOn(Latest, Reported)>>]
  <2>1. Reported # {}
    BY DEF SourcesAgree
  <2> QED
    BY <1>5, <2>1 DEF LoadBalances, Opening, Latest
<1>8. \A d : BalanceOn(d, Reported) \in Int
  <2> SUFFICES ASSUME NEW d PROVE BalanceOn(d, Reported) \in Int
    OBVIOUS
  <2> DEFINE S == {b \in Reported : b.date = d}
  <2> DEFINE f == [b \in S |-> b.closing]
  <2>1. IsFiniteSet(Reported)
    <3>1. RowsDated("balances") \subseteq IdsOf("balances")
      BY DEF RowsDated
    <3> QED
      BY <3>1, RowsAreFinite DEF Reported
  <2>2. IsFiniteSet(S)
    BY <2>1, FS_Subset
  <2>3. \A b \in Reported : b.closing \in Int
    BY AmountsAssumption DEF Reported, RowsDated, Amounts
  <2>4. BalanceOn(d, Reported) = SumFunction(f) /\ DOMAIN f = S /\ \A b \in S : f[b] \in Int
    BY <2>3 DEF BalanceOn, SumOver
  <2> HIDE DEF f, S
  <2> QED
    BY <2>2, <2>4, TotalIsInt
<1>9. BalanceOn(Latest, Reported) = BalanceOn(Opening, Reported) + SumFunction(moved)
  BY DEF SourcesAgree, SumOver
<1>10. /\ DOMAIN moved = MovedBetween /\ DOMAIN here = there /\ DOMAIN missing = Inside \ stored
       /\ \A id \in there : here[id] = moved[id] /\ row[id].id = id /\ row[id].amount = here[id]
       /\ \A id \in Inside \ stored : id \in MovedBetween => missing[id] = moved[id]
  OBVIOUS
<1> HIDE DEF moved, here, missing, row, applied, balances, there, away
<1>11. Total(applied) = SumFunction(here)
  BY <1>2, <1>3, <1>6, <1>10, EntriesComeTo
<1>12. SumFunction(here) = SumIn(moved, there)
  <2>1. SumIn(here, there) = SumIn(moved, there)
    BY <1>2, <1>3, <1>10, SumCongruent
  <2> QED
    BY <1>10, <2>1, SumIsSumIn
<1>13. SumFunction(missing) = SumIn(moved, away)
  <2>1. \A id \in away : moved[id] \in Int /\ missing[id] = moved[id]
    BY <1>2, <1>3, <1>4, <1>10
  <2>2. SumIn(missing, away) = SumIn(moved, away)
    BY <1>3, <2>1, SumCongruent
  <2> QED
    BY <1>4, <1>10, <2>2, SumIsSumIn
<1>14. SumFunction(moved) = SumIn(moved, there) + SumIn(moved, away)
  <2>1. \A id \in there \cup away : moved[id] \in Int
    BY <1>2, <1>3
  <2>2. SumIn(moved, there \cup away) = SumIn(moved, there) + SumIn(moved, away)
    BY <1>3, <2>1, SumUnion
  <2> QED
    BY <1>3, <1>10, <2>2, SumIsSumIn
<1>15. SumIn(moved, there) \in Int /\ SumIn(moved, away) \in Int
  <2>1. (\A id \in there : moved[id] \in Int) /\ (\A id \in away : moved[id] \in Int)
    BY <1>2, <1>3
  <2> QED
    BY <1>3, <2>1, SumType
<1> DEFINE x == BalanceOn(Opening, Reported) + SumIn(moved, there)
<1> DEFINE y == BalanceOn(Opening, Reported) + (SumIn(moved, there) + SumIn(moved, away))
<1>16. x \in Int /\ y \in Int /\ x - y = - SumIn(moved, away)
  BY <1>8, <1>15
<1>17. balances.modelled = <<x>> /\ balances.reported = <<y>>
  BY <1>7, <1>9, <1>11, <1>12, <1>14
<1> HIDE DEF x, y
<1>18. \E a, b \in Int : /\ balances.modelled = <<a>> /\ balances.reported = <<b>>
                         /\ SumFunction(missing) \in Int /\ a - b = - SumFunction(missing)
  BY <1>13, <1>15, <1>16, <1>17
<1> QED
  BY <1>18 DEF balances, missing

(* The results of a reconciliation, side by side.                             *)
BankResult ==
  LET balances == LoadBalances(ReconciledRange)
  IN  Reconcile("cash.bank_balance", balances.modelled, balances.reported, 0)
RevenueResult ==
  ReconcileSides("revenue.shopify_payouts", LoadChargedRevenue(ReconciledRange), LoadPayouts(ReconciledRange))
AdvertisingResult ==
  ReconcileSides("ad_spend.total", <<LoadPlatformSpend(ReconciledRange)>>, LoadAccountingAdvertising(ReconciledRange))
OfPlatform(side, p) == IF side = NotAvailable THEN NotAvailable ELSE <<EntriesOf(side[1], p)>>
ResultOfPlatform(p) ==
  ReconcileSides(p, OfPlatform(<<LoadPlatformSpend(ReconciledRange)>>, p),
                 OfPlatform(LoadAccountingAdvertising(ReconciledRange), p))

LEMMA ResultsAre ==
  LET results == RunReconciliation(ReconciledRange)
  IN  /\ BankResult \in results
      /\ \A r \in results : \/ r = BankResult \/ r = RevenueResult \/ r = AdvertisingResult
                            \/ \E p \in {"meta", "tiktok"} : r = ResultOfPlatform(p)
<1> DEFINE results == RunReconciliation(ReconciledRange)
<1> DEFINE platform == <<LoadPlatformSpend(ReconciledRange)>>
<1> DEFINE ledger == LoadAccountingAdvertising(ReconciledRange)
<1> DEFINE Skipped(p) == /\ Entries(OfPlatform(platform, p)) = {} /\ Entries(OfPlatform(ledger, p)) = {}
                         /\ ledger # NotAvailable
<1>1. results = {RevenueResult, AdvertisingResult, BankResult}
                  \cup {ResultOfPlatform(p) : p \in {x \in {"meta", "tiktok"} : ~Skipped(x)}}
  BY Zenon DEF RunReconciliation, RevenueResult, AdvertisingResult, BankResult, ResultOfPlatform, OfPlatform, EntriesOf
<1> HIDE DEF results, Skipped
<1> QED
  BY <1>1 DEF results

LEMMA KeysAre ==
  /\ BankResult.key = "cash.bank_balance"
  /\ RevenueResult.key # "cash.bank_balance" /\ AdvertisingResult.key # "cash.bank_balance"
  /\ \A p \in {"meta", "tiktok"} : ResultOfPlatform(p).key # "cash.bank_balance"
<1>1. \A key, a, b, tolerance : Reconcile(key, a, b, tolerance).key = key
  BY DEF Reconcile
<1> QED
  BY <1>1 DEF BankResult, RevenueResult, AdvertisingResult, ResultOfPlatform, ReconcileSides

LEMMA CompleteBooksMatch ==
  ASSUME SourcesAgree, SeededStay, BooksAreComplete
  PROVE  SummariseReconciliation(RunReconciliation(ReconciledRange)).status = "matched"
<1> DEFINE charged == LoadPlatformSpend(ReconciledRange)
<1> DEFINE results == RunReconciliation(ReconciledRange)
<1>1. \A x : TotalOf(<<x>>) = <<Total(x)>>
  BY DEF TotalOf, NotAvailable
<1>2. ASSUME NEW key, NEW a, NEW b, NEW x \in Int, TotalOf(a) = <<x>>, TotalOf(b) = <<x>>
      PROVE  ReconcileSides(key, a, b).status = "matched"
  BY <1>2, EqualSidesMatch DEF ReconcileSides
<1>3. RevenueResult.status = "matched"
  BY <1>2, RevenueMatches DEF RevenueResult
<1>4. LoadAccountingAdvertising(ReconciledRange) = <<BookedCharges>>
  BY LedgerIs
<1>5. /\ Total(charged) = Total(BookedCharges) /\ Total(charged) \in Int
      /\ \A p \in {"meta", "tiktok"} : /\ Total(EntriesOf(charged, p)) = Total(EntriesOf(BookedCharges, p))
                                       /\ Total(EntriesOf(charged, p)) \in Int
  BY SpendMatches
<1>6. AdvertisingResult.status = "matched"
  BY <1>1, <1>2, <1>4, <1>5 DEF AdvertisingResult
<1>7. \A x, p : OfPlatform(<<x>>, p) = <<EntriesOf(x, p)>>
  BY DEF OfPlatform, NotAvailable
<1>8. \A p \in {"meta", "tiktok"} : ResultOfPlatform(p).status = "matched"
  BY <1>1, <1>2, <1>4, <1>5, <1>7 DEF ResultOfPlatform
<1>9. BankResult.status = "matched"
  <2> DEFINE missing == [id \in Inside \ stored |-> Moved(Catalogue[id])]
  <2> DEFINE balances == LoadBalances(ReconciledRange)
  <2>1. Inside \ stored = {}
    BY DEF Inside, BooksAreComplete
  <2>2. SumFunction(missing) = 0
    <3>1. DOMAIN missing = {}
      BY <2>1
    <3> HIDE DEF missing
    <3> QED
      BY <3>1, SumIsSumIn, SumEmpty
  <2>3. PICK x, y \in Int : balances.modelled = <<x>> /\ balances.reported = <<y>> /\ x - y = - SumFunction(missing)
    BY BalancesShowWhatIsMissing
  <2> HIDE DEF missing
  <2>4. x = y
    BY <2>2, <2>3
  <2> QED
    BY <2>3, <2>4, EqualSidesMatch DEF BankResult
<1>10. BankResult \in results /\ \A r \in results : r.status = "matched"
  BY <1>3, <1>6, <1>8, <1>9, ResultsAre
<1> HIDE DEF results
<1>11. {r \in results : r.status = "unmatched"} = {} /\ ~\E r \in results : r.status = "not_applicable"
  BY <1>10
<1>12. SummariseReconciliation(results).status = "matched"
  BY <1>11 DEF SummariseReconciliation
<1> QED
  BY <1>12 DEF results

(* Complete books reconcile, and a bank movement that is missing is reported  *)
(* to the penny, for every business whose sources agree                       *)
(* (Monitoring!CompleteBooksReconcile).                                       *)
THEOREM BooksReconcile == ASSUME SourcesAgree PROVE Spec => []CompleteBooksReconcile
<1>1. ASSUME SeededStay PROVE CompleteBooksReconcile
  <2> DEFINE results == RunReconciliation(ReconciledRange)
  <2> DEFINE missing == [id \in Inside \ stored |-> Moved(Catalogue[id])]
  <2> DEFINE balance == CHOOSE r \in results : r.key = "cash.bank_balance"
  <2> DEFINE balances == LoadBalances(ReconciledRange)
  <2>1. Expected \subseteq stored /\ cancelled = {} => SummariseReconciliation(results).status = "matched"
    BY <1>1, CompleteBooksMatch DEF BooksAreComplete
  <2>2. balance = BankResult
    <3>1. BankResult \in results /\ \A r \in results : r.key = "cash.bank_balance" <=> r = BankResult
      BY ResultsAre, KeysAre
    <3> HIDE DEF results
    <3> QED
      BY <3>1
  <2>3. PICK x, y \in Int : balances.modelled = <<x>> /\ balances.reported = <<y>> /\ x - y = - SumFunction(missing)
    BY <1>1, BalancesShowWhatIsMissing
  <2>4. BankResult.difference = <<x - y>>
    <3>1. \A a, b : a # NotAvailable /\ b # NotAvailable =>
            Reconcile("cash.bank_balance", a, b, 0).difference = <<a[1] - b[1]>>
      BY DEF Reconcile
    <3>2. <<x>> # NotAvailable /\ <<y>> # NotAvailable /\ <<x>>[1] = x /\ <<y>>[1] = y
      BY DEF NotAvailable
    <3> QED
      BY <2>3, <3>1, <3>2 DEF BankResult
  <2>5. balance.difference = <<- SumFunction(missing)>>
    BY <2>2, <2>3, <2>4
  <2>6. SumOver(Inside \ stored, LAMBDA id : Moved(Catalogue[id])) = SumFunction(missing)
    BY DEF SumOver
  <2> HIDE DEF missing, results
  <2> QED
    BY <2>1, <2>5, <2>6, Zenon DEF CompleteBooksReconcile, ReconcilesAsStored, results
<1> QED
  BY <1>1, SeededAreKept, PTL
=============================================================================
