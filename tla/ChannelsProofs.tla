----------------------------- MODULE ChannelsProofs -----------------------------
(***************************************************************************)
(* What an import of the sales and advertising channels can be relied on   *)
(* for, with any orders, entities and days, page sizes and windows, and    *)
(* whatever changes, fails and is killed meanwhile.                        *)
(***************************************************************************)
EXTENDS ShopifyOrders, AdMetrics, MoneyProofs

-----------------------------------------------------------------------------
(* Advertising.  A charge that a read has not seen was made after it, and   *)
(* so for a day that a platform still restates then (Late); the window is   *)
(* longer than that, so that nothing older is left behind when a read       *)
(* Reaches back over the last one.                                          *)

Late(p, read) == \A d \in AdDays : revised[p][d] > read.rev => d >= read.day - RestatedDays

Known(read) == read \in AccountReads /\ read.rev <= charges /\ read.day <= today

AdSteps == {"idle", "hierarchy", "account", "entity", "writing account", "writing entity"}

ChargesInv ==
  /\ charges \in Nat /\ today \in Nat
  /\ charged \in [Entities -> [AdDays -> Nat]]
  /\ revised \in [Platforms -> [AdDays -> Nat]]
  /\ entities \subseteq Entities /\ platform \in Platforms
  /\ \A p \in Platforms, d \in AdDays :
       /\ revised[p][d] <= charges
       /\ revised[p][d] > 0 => d <= today /\ \E e \in EntitiesOf(p) : charged[e][d] > 0

ReadsInv ==
  /\ DOMAIN readThrough = Platforms
  /\ \A p \in Platforms : Known(readThrough[p]) /\ Late(p, readThrough[p])

InHandInv ==
  adStep = "writing account" =>
    /\ Known(accountRead) /\ Late(platform, accountRead)
    /\ readThrough[platform].rev <= accountRead.rev
    /\ \A r \in insights : r.entity = Account /\ r.day >= accountRead.day - RestatementWindow
    /\ \A d \in AdDays :
         d >= accountRead.day - RestatementWindow /\ revised[platform][d] \in 1..accountRead.rev =>
           \E r \in insights : r.day = d /\ r.rev = revised[platform][d]

AdInv == /\ adStep \in AdSteps
         /\ ChargesInv /\ ReadsInv /\ InHandInv /\ RestatementsAreImported

LEMMA AdBounds ==
  /\ RestatementWindow \in Nat /\ RestatedDays \in Nat /\ RestatedDays < RestatementWindow
  /\ LastAdDay \in Nat /\ AdDays \subseteq Nat \ {0}
  /\ Account \notin Entities /\ Account \notin Undated
  /\ \A p \in Platforms : EntitiesOf(p) \subseteq Entities
  BY EntitiesAssumption, WindowAssumption DEF AdDays, EntitiesOf, Entities, Platforms

LEMMA UpTo ==
  ASSUME NEW a \in Nat, NEW b \in Nat, a <= b, NEW c \in 1..a
  PROVE  c # b + 1 /\ c > 0 /\ c \in Nat /\ c <= b
  OBVIOUS

LEMMA AtMost ==
  ASSUME NEW n \in Nat
  PROVE  n <= n /\ \A m \in Nat : m <= n => ~(m > n)
  OBVIOUS

LEMMA RevisedIsBounded ==
  ASSUME AdInv, NEW p \in Platforms, NEW d \in AdDays
  PROVE  revised[p][d] \in Nat /\ revised[p][d] <= charges
<1>1. revised \in [Platforms -> [AdDays -> Nat]]
  BY DEF AdInv, ChargesInv
<1>2. revised[p][d] \in Nat
  BY <1>1
<1> QED
  BY <1>2 DEF AdInv, ChargesInv

LEMMA InitAdInv == AdInit => AdInv
<1> SUFFICES ASSUME AdInit PROVE AdInv
  OBVIOUS
<1>1. \A p \in Platforms, d \in AdDays : revised[p][d] = 0
  BY DEF AdInit
<1>2. \A p \in Platforms : readThrough[p] = [rev |-> 0, day |-> 1]
  BY DEF AdInit
<1>3. ChargesInv
  BY <1>1 DEF AdInit, ChargesInv, Platforms
<1>4. ReadsInv
  BY <1>1, <1>2 DEF AdInit, ReadsInv, Known, AccountReads, Late
<1>5. RestatementsAreImported
  BY <1>1 DEF RestatementsAreImported
<1> QED
  BY <1>3, <1>4, <1>5 DEF AdInit, AdInv, InHandInv, AdSteps

LEMMA ChargeKeeps ==
  ASSUME AdInv, NEW p \in Platforms, NEW e \in EntitiesOf(p), NEW d \in AdDays, Charge(p, e, d)
  PROVE  AdInv'
<1>1. /\ charges' = charges + 1 /\ UNCHANGED <<today, entities, metrics, adStep, platform,
                                               insights, accountRead, readThrough>>
      /\ charged' = [charged EXCEPT ![e][d] = @ + 1]
      /\ revised' = [revised EXCEPT ![p][d] = charges + 1]
      /\ d >= today - RestatedDays /\ d <= today
  BY AdBounds DEF Charge, AdInv, ChargesInv
<1>2. e \in Entities
  BY AdBounds
<1>0. charges \in Nat /\ today \in Nat /\ revised \in [Platforms -> [AdDays -> Nat]]
  BY DEF AdInv, ChargesInv
<1>3. /\ revised' \in [Platforms -> [AdDays -> Nat]]
      /\ charged' \in [Entities -> [AdDays -> Nat]]
      /\ revised'[p][d] = charges + 1
      /\ \A q \in Platforms, x \in AdDays :
           q # p \/ x # d => revised'[q][x] = revised[q][x]
      /\ \A f \in Entities, x \in AdDays : charged'[f][x] >= charged[f][x]
      /\ charged'[e][d] > 0
  BY <1>1, <1>2 DEF AdInv, ChargesInv
<1>4. ChargesInv'
  BY <1>1, <1>2, <1>3, AdBounds DEF AdInv, ChargesInv
<1>5. ASSUME NEW q \in Platforms, NEW read, Known(read), Late(q, read)
      PROVE  Known(read)' /\ Late(q, read)'
  BY <1>1, <1>3, <1>5, AdBounds DEF AdInv, ChargesInv, Known, Late, AccountReads
<1>6. ReadsInv'
  BY <1>1, <1>5 DEF AdInv, ReadsInv
<1>7. InHandInv'
  <2> SUFFICES ASSUME adStep = "writing account" PROVE InHandInv'
    BY <1>1 DEF InHandInv
  <2>0. /\ Known(accountRead) /\ Late(platform, accountRead) /\ platform \in Platforms
        /\ readThrough[platform].rev <= accountRead.rev
        /\ \A r \in insights : r.entity = Account /\ r.day >= accountRead.day - RestatementWindow
        /\ \A x \in AdDays :
             x >= accountRead.day - RestatementWindow
             /\ revised[platform][x] \in 1..accountRead.rev =>
               \E r \in insights : r.day = x /\ r.rev = revised[platform][x]
    BY DEF AdInv, InHandInv, ChargesInv
  <2>1. Known(accountRead)' /\ Late(platform, accountRead)'
    BY <1>1, <1>5, <2>0
  <2>2. ASSUME NEW x \in AdDays, x >= accountRead.day - RestatementWindow,
               revised'[platform][x] \in 1..accountRead.rev
        PROVE  \E r \in insights : r.day = x /\ r.rev = revised'[platform][x]
    <3>1. accountRead.rev \in Nat /\ accountRead.rev <= charges /\ charges \in Nat
      BY <2>0 DEF Known, AccountReads, AdInv, ChargesInv
    <3>2. revised'[platform][x] # charges + 1
      BY <2>2, <3>1, UpTo
    <3>3. revised'[platform][x] = revised[platform][x]
      BY <1>3, <2>0, <3>2
    <3> QED
      BY <2>0, <2>2, <3>3
  <2>3. /\ platform' = platform /\ insights' = insights /\ readThrough' = readThrough
        /\ accountRead' = accountRead
    BY <1>1
  <2> QED
    BY <2>0, <2>1, <2>2, <2>3 DEF InHandInv
<1>8. RestatementsAreImported'
  <2> SUFFICES ASSUME NEW q \in Platforms, NEW x \in AdDays,
                      revised'[q][x] \in 1..readThrough[q].rev
               PROVE  \E r \in AccountRowsOf(q, x) : r.rev >= revised'[q][x]
    BY <1>1 DEF RestatementsAreImported, AccountRowsOf
  <2>a. readThrough[q].rev \in Nat /\ readThrough[q].rev <= charges
    BY DEF AdInv, ReadsInv, Known, AccountReads
  <2>1. revised'[q][x] # charges + 1
    BY <1>0, <2>a, UpTo
  <2>2. revised'[q][x] = revised[q][x]
    BY <1>3, <2>1
  <2> QED
    BY <2>2 DEF AdInv, RestatementsAreImported
<1> QED
  BY <1>1, <1>4, <1>6, <1>7, <1>8 DEF AdInv

LEMMA AdDayKeeps ==
  ASSUME AdInv, AdDayPasses
  PROVE  AdInv'
<1>1. /\ today' = today + 1
      /\ UNCHANGED <<charged, revised, charges, entities, metrics, adStep, platform,
                     insights, accountRead, readThrough>>
  BY DEF AdDayPasses
<1>2. ASSUME NEW read, Known(read) PROVE Known(read)'
  BY <1>1, <1>2 DEF AdInv, ChargesInv, Known, AccountReads
<1>3. ChargesInv'
  BY <1>1, AdBounds DEF AdInv, ChargesInv
<1>4. ReadsInv' /\ InHandInv' /\ RestatementsAreImported'
  BY <1>1, <1>2 DEF AdInv, ReadsInv, InHandInv, Late, RestatementsAreImported, AccountRowsOf
<1> QED
  BY <1>1, <1>3, <1>4 DEF AdInv

(* The account's page: a row for every charged day of the window.           *)
LEMMA AccountPage ==
  ASSUME AdInv
  PROVE  /\ \A r \in PageOf("account") : r.entity = Account /\ r.day >= today - RestatementWindow
         /\ \A d \in AdDays :
              d >= today - RestatementWindow /\ revised[platform][d] > 0 =>
                \E r \in PageOf("account") : r.day = d /\ r.rev = revised[platform][d]
<1> DEFINE rows(p) == AccountRows(p, IncrementalWindow)
<1>1. ASSUME NEW p \in Platforms, NEW r \in rows(p)
      PROVE  /\ r.entity = Account /\ r.day >= today - RestatementWindow
             /\ r = [entity |-> r.entity, day |-> r.day, spend |-> r.spend, rev |-> r.rev,
                     measured |-> r.measured]
  BY <1>1, AdBounds DEF AccountRows, IncrementalWindow, AdInv, ChargesInv
<1>2. ASSUME NEW p \in Platforms, NEW d \in AdDays, d >= today - RestatementWindow,
             revised[p][d] > 0
      PROVE  \E r \in rows(p) : r.day = d /\ r.rev = revised[p][d]
  <2> DEFINE row == [entity |-> Account, day |-> d, spend |-> AccountTotal(p, d),
                     rev |-> revised[p][d], measured |-> TRUE]
  <2>1. d \in IncrementalWindow /\ \E e \in EntitiesOf(p) : charged[e][d] > 0
    BY <1>2, AdBounds DEF IncrementalWindow, AdInv, ChargesInv
  <2>2. row \in rows(p)
    BY <2>1 DEF AccountRows
  <2> QED
    BY <2>2
<1>3. CASE platform = "meta"
  <2>1. PageOf("account") = rows("meta") /\ platform \in Platforms
    BY <1>3 DEF PageOf, MetaPage, RowsOf, Platforms
  <2> HIDE DEF rows
  <2> QED
    BY <1>1, <1>2, <1>3, <2>1
<1>4. CASE platform # "meta"
  <2>1. /\ platform = "tiktok" /\ platform \in Platforms
        /\ PageOf("account") = {r \in ReportRows("account") : r.entity \notin Undated}
        /\ ReportRows("account") = {[r EXCEPT !.measured = ~Refused] : r \in rows("tiktok")}
    BY <1>4 DEF PageOf, TikTokPage, ReportRows, RowsOf, Platforms, AdInv, ChargesInv
  <2> HIDE DEF rows
  <2>2. ASSUME NEW r \in rows("tiktok")
        PROVE  /\ [r EXCEPT !.measured = ~Refused].entity = Account
               /\ [r EXCEPT !.measured = ~Refused].day = r.day
               /\ [r EXCEPT !.measured = ~Refused].rev = r.rev
               /\ r.day >= today - RestatementWindow
    BY <1>1, <2>1
  <2>3. ASSUME NEW r \in rows("tiktok")
        PROVE  [r EXCEPT !.measured = ~Refused] \in PageOf("account")
    BY <2>1, <2>2, AdBounds
  <2>4. \A r \in PageOf("account") : r.entity = Account /\ r.day >= today - RestatementWindow
    BY <2>1, <2>2
  <2>5. ASSUME NEW d \in AdDays, d >= today - RestatementWindow, revised[platform][d] > 0
        PROVE  \E r \in PageOf("account") : r.day = d /\ r.rev = revised[platform][d]
    <3>1. PICK r \in rows("tiktok") : r.day = d /\ r.rev = revised[platform][d]
      BY <1>2, <2>1, <2>5
    <3> QED
      BY <2>2, <2>3, <3>1
  <2> QED
    BY <2>4, <2>5
<1> QED
  BY <1>3, <1>4

LEMMA ReadLevelKeeps ==
  ASSUME AdInv, NEW level \in Levels, ReadLevel(level)
  PROVE  AdInv'
<1>1. /\ UNCHANGED <<charged, revised, charges, today, entities, metrics, platform, readThrough>>
      /\ insights' = PageOf(level)
      /\ adStep' \in AdSteps
      /\ adStep' = "writing account" =>
           level = "account" /\ accountRead' = [rev |-> charges, day |-> today]
  BY DEF ReadLevel, ads, Levels, AdSteps
<1>2. ChargesInv' /\ ReadsInv' /\ RestatementsAreImported'
  BY <1>1 DEF AdInv, ChargesInv, ReadsInv, Known, Late, RestatementsAreImported, AccountRowsOf
<1>3. InHandInv'
  <2> SUFFICES ASSUME adStep' = "writing account" PROVE InHandInv'
    BY DEF InHandInv
  <2>0. accountRead' = [rev |-> charges, day |-> today]
    BY <1>1
  <2>1. accountRead'.rev = charges /\ accountRead'.day = today
    BY <2>0
  <2>a. level = "account"
    BY <1>1
  <2>b. insights' = PageOf("account")
    BY <1>1, <2>a
  <2>2. Known(accountRead)' /\ Late(platform, accountRead)'
    <3>1. accountRead' \in AccountReads
      BY <2>0 DEF AdInv, ChargesInv, AccountReads
    <3>2. charges' = charges /\ today' = today /\ charges \in Nat /\ today \in Nat
          /\ revised' = revised /\ platform' = platform
      BY <1>1 DEF AdInv, ChargesInv
    <3>3. Known(accountRead)'
      <4>1. charges <= charges /\ today <= today
        BY <3>2, AtMost
      <4> QED
        BY <2>1, <3>1, <3>2, <4>1 DEF Known
    <3>4. ASSUME NEW d \in AdDays PROVE ~(revised[platform][d] > charges)
      <4>1. platform \in Platforms
        BY DEF AdInv, ChargesInv
      <4>2. revised[platform][d] \in Nat /\ revised[platform][d] <= charges
        BY <4>1, RevisedIsBounded
      <4> QED
        BY <3>2, <4>2, AtMost
    <3> QED
      BY <2>1, <3>2, <3>3, <3>4 DEF Late
  <2>3. readThrough[platform].rev <= charges
    BY DEF AdInv, ReadsInv, ChargesInv, Known
  <2>4. /\ \A r \in insights' : r.entity = Account /\ r.day >= today - RestatementWindow
        /\ \A d \in AdDays :
             d >= today - RestatementWindow /\ revised[platform][d] > 0 =>
               \E r \in insights' : r.day = d /\ r.rev = revised[platform][d]
    BY <2>b, AccountPage
  <2>5. ASSUME NEW d \in AdDays, revised[platform][d] \in 1..charges
        PROVE  revised[platform][d] > 0
    <3>1. charges \in Nat
      BY DEF AdInv, ChargesInv
    <3> QED
      BY <2>5, <3>1, AtMost, UpTo
  <2> QED
    BY <1>1, <2>1, <2>2, <2>3, <2>4, <2>5 DEF InHandInv
<1> QED
  BY <1>1, <1>2, <1>3 DEF AdInv

LEMMA PersistAccountKeeps ==
  ASSUME AdInv, PersistRows("account")
  PROVE  AdInv'
<1> DEFINE new == {[platform |-> platform, entity |-> r.entity, day |-> r.day, spend |-> r.spend,
                    rev |-> r.rev, measured |-> r.measured] : r \in insights}
<1>1. /\ UNCHANGED <<charged, revised, charges, today, entities, accountRead>>
      /\ adStep = "writing account" /\ platform' = platform
      /\ adStep' \in AdSteps \ {"writing account"}
      /\ metrics' = {r \in metrics : \A n \in new : ~SameKey(r, n)} \cup new
      /\ readThrough' = IF Reaches THEN [readThrough EXCEPT ![platform] = accountRead] ELSE readThrough
  BY DEF PersistRows, UpsertMetrics, Resolved, AfterAdSync, ads, AdSteps
<1>2. /\ Known(accountRead) /\ Late(platform, accountRead)
      /\ readThrough[platform].rev <= accountRead.rev /\ platform \in Platforms
      /\ \A r \in insights : r.entity = Account /\ r.day >= accountRead.day - RestatementWindow
      /\ \A d \in AdDays :
           d >= accountRead.day - RestatementWindow /\ revised[platform][d] \in 1..accountRead.rev =>
             \E r \in insights : r.day = d /\ r.rev = revised[platform][d]
  BY <1>1 DEF AdInv, InHandInv, ChargesInv
<1>3. ChargesInv'
  BY <1>1 DEF AdInv, ChargesInv
<1>4. ReadsInv'
  BY <1>1, <1>2 DEF AdInv, ReadsInv, Known, Late
<1>5. ASSUME NEW p \in Platforms, p = platform, NEW d \in AdDays,
             d >= accountRead.day - RestatementWindow, revised[p][d] \in 1..accountRead.rev
      PROVE  \E r \in AccountRowsOf(p, d)' : r.rev >= revised[p][d]
  <2>1. PICK r \in insights : r.day = d /\ r.rev = revised[platform][d]
    BY <1>2, <1>5
  <2> DEFINE n == [platform |-> platform, entity |-> r.entity, day |-> r.day,
                   spend |-> r.spend, rev |-> r.rev, measured |-> r.measured]
  <2>2. n \in metrics' /\ r.entity = Account
    BY <1>1, <1>2
  <2>3. n.platform = platform /\ n.entity = Account /\ n.day = d /\ n.rev = revised[platform][d]
    BY <2>1, <2>2
  <2>4. revised[platform][d] \in Nat
    BY <1>2 DEF AdInv, ChargesInv
  <2> HIDE DEF n
  <2>5. n \in AccountRowsOf(p, d)'
    BY <1>1, <1>5, <2>2, <2>3 DEF AccountRowsOf
  <2> QED
    BY <1>5, <2>3, <2>4, <2>5, AtMost
<1>6. ASSUME NEW p \in Platforms, NEW d \in AdDays,
             p # platform \/ ~(d >= accountRead.day - RestatementWindow)
      PROVE  AccountRowsOf(p, d) \subseteq AccountRowsOf(p, d)'
  <2>1. \A n \in new : n.platform = platform /\ n.day >= accountRead.day - RestatementWindow
    BY <1>2
  <2> HIDE DEF new
  <2> QED
    BY <1>1, <1>6, <2>1 DEF AccountRowsOf, SameKey
<1>7. RestatementsAreImported'
  <2> SUFFICES ASSUME NEW p \in Platforms, NEW d \in AdDays, revised[p][d] \in 1..readThrough'[p].rev
               PROVE  \E r \in AccountRowsOf(p, d)' : r.rev >= revised[p][d]
    BY <1>1 DEF RestatementsAreImported
  <2>1. CASE p # platform
    <3>1. readThrough'[p] = readThrough[p]
      BY <1>1, <2>1 DEF AdInv, ReadsInv
    <3> QED
      BY <1>6, <2>1, <3>1 DEF AdInv, RestatementsAreImported
  <2>2. CASE p = platform
    <3>1. readThrough'[p] = accountRead \/ readThrough'[p] = readThrough[p]
      BY <1>1, <1>2, <2>2 DEF AdInv, ReadsInv
    <3>2. revised[p][d] \in 1..accountRead.rev
      BY <1>2, <2>2, <3>1 DEF Known, AccountReads, AdInv, ReadsInv, ChargesInv
    <3>3. CASE d >= accountRead.day - RestatementWindow
      BY <1>5, <2>2, <3>2, <3>3
    <3>4. CASE ~(d >= accountRead.day - RestatementWindow)
      <4>1. revised[p][d] <= readThrough[p].rev
        <5>1. CASE readThrough'[p] = readThrough[p]
          BY <5>1
        <5>2. CASE readThrough'[p] # readThrough[p]
          <6>1. Reaches
            BY <1>1, <5>2
          <6>2. accountRead.day - RestatementWindow <= readThrough[p].day - RestatedDays
            BY <1>2, <2>2, <3>4, <6>1, AdBounds DEF Reaches, Known, AccountReads
          <6>3. ~(d >= readThrough[p].day - RestatedDays)
            BY <1>2, <3>4, <6>2, AdBounds DEF Known, AccountReads, AdInv, ReadsInv
          <6> QED
            BY <6>3 DEF AdInv, ReadsInv, Late, Known, AccountReads, ChargesInv
        <5> QED
          BY <5>1, <5>2
      <4>2. revised[p][d] \in 1..readThrough[p].rev
        BY <3>2, <4>1 DEF AdInv, ReadsInv, Known, AccountReads, ChargesInv
      <4> QED
        BY <1>6, <3>4, <4>2 DEF AdInv, RestatementsAreImported
    <3> QED
      BY <3>3, <3>4
  <2> QED
    BY <2>1, <2>2
<1> QED
  BY <1>1, <1>3, <1>4, <1>7 DEF AdInv, InHandInv

LEMMA PersistEntityKeeps ==
  ASSUME AdInv, PersistRows("entity")
  PROVE  AdInv'
<1> DEFINE new == {[platform |-> platform, entity |-> r.entity, day |-> r.day, spend |-> r.spend,
                    rev |-> r.rev, measured |-> r.measured] : r \in Resolved("entity")}
<1>1. /\ UNCHANGED <<charged, revised, charges, today, entities, accountRead, readThrough>>
      /\ adStep' \in AdSteps \ {"writing account"} /\ platform' \in Platforms
      /\ metrics' = {r \in metrics : \A n \in new : ~SameKey(r, n)} \cup new
  <2>1. platform \in {"meta", "tiktok"}
    BY DEF AdInv, ChargesInv, Platforms
  <2> QED
    BY <2>1 DEF PersistRows, UpsertMetrics, AfterAdSync, ads, Platforms, AdSteps
<1>2. \A n \in new : n.entity # Account
  BY AdBounds DEF Resolved, AdInv, ChargesInv
<1> HIDE DEF new
<1>3. \A p \in Platforms, d \in AdDays : AccountRowsOf(p, d) \subseteq AccountRowsOf(p, d)'
  BY <1>1, <1>2 DEF AccountRowsOf, SameKey
<1>4. ChargesInv' /\ ReadsInv' /\ InHandInv'
  BY <1>1 DEF AdInv, ChargesInv, ReadsInv, InHandInv, Known, Late
<1>5. RestatementsAreImported'
  BY <1>1, <1>3 DEF AdInv, RestatementsAreImported
<1> QED
  BY <1>1, <1>4, <1>5 DEF AdInv

(* The other steps read and write no figures.                               *)
LEMMA OtherAdSteps ==
  ASSUME AdInv, BeginAds \/ SyncHierarchy \/ AdSyncFails \/ AdsCrash \/ UNCHANGED adVars
  PROVE  AdInv'
<1>1. /\ UNCHANGED <<charged, revised, charges, today, metrics, readThrough, accountRead>>
      /\ platform' \in Platforms /\ entities' \subseteq Entities /\ adStep' \in AdSteps
      /\ \/ adStep' # "writing account"
         \/ UNCHANGED <<adStep, platform, insights>>
  <2>1. CASE BeginAds
    BY <2>1 DEF BeginAds, ads, Platforms, AdSteps, AdInv, ChargesInv
  <2>2. CASE SyncHierarchy
    BY <2>2, AdBounds DEF SyncHierarchy, PersistEntities, AfterAdSync, ads, Platforms, AdSteps, AdInv, ChargesInv
  <2>3. CASE AdSyncFails
    <3>1. /\ UNCHANGED <<charged, revised, charges, today, metrics, entities, readThrough, accountRead>>
          /\ AfterAdSync(SyncOf(adStep)) /\ adStep \in AdSteps \ {"idle"}
          /\ platform \in {"meta", "tiktok"} /\ entities \subseteq Entities
      BY <2>3 DEF AdSyncFails, ads, AdInv, ChargesInv, Platforms
    <3>2. SyncOf(adStep) \in {"hierarchy", "account", "entity"}
      BY <3>1 DEF SyncOf, AdSteps
    <3>3. adStep' \in AdSteps \ {"writing account"} /\ platform' \in Platforms
      BY <3>1, <3>2 DEF AfterAdSync, AdSteps, Platforms
    <3> QED
      BY <3>1, <3>3
  <2>4. CASE AdsCrash
    BY <2>4 DEF AdsCrash, ads, Platforms, AdSteps, AdInv, ChargesInv
  <2>5. CASE UNCHANGED adVars
    BY <2>5 DEF adVars, ads, AdInv, ChargesInv
  <2> QED
    BY <2>1, <2>2, <2>3, <2>4, <2>5
<1>2. ChargesInv' /\ ReadsInv' /\ RestatementsAreImported'
  BY <1>1 DEF AdInv, ChargesInv, ReadsInv, Known, Late, RestatementsAreImported, AccountRowsOf
<1>3. InHandInv'
  BY <1>1 DEF AdInv, InHandInv, Known, Late
<1> QED
  BY <1>1, <1>2, <1>3 DEF AdInv

(* Once a refresh has read the account level, every charge and restatement  *)
(* before it is in the figures, as long as the window reaches back over     *)
(* what was restated since the last read.                                   *)
THEOREM RestatementsArrive == AdSpec => []RestatementsAreImported
<1>1. AdInv /\ [AdNext]_adVars => AdInv'
  BY ChargeKeeps, AdDayKeeps, ReadLevelKeeps, PersistAccountKeeps, PersistEntityKeeps,
     OtherAdSteps DEF AdNext, Levels
<1>2. AdInv => RestatementsAreImported
  BY DEF AdInv
<1> QED
  BY InitAdInv, <1>1, <1>2, PTL DEF AdSpec

-----------------------------------------------------------------------------
(* Advertising once more: the totals.  Every total the account level was    *)
(* read with, and every row written from it, is one the platform charged,   *)
(* and a day has one row.                                                   *)

BilledInv ==
  /\ billed \in [Platforms -> [AdDays -> SUBSET Int]]
  /\ \A p \in Platforms, d \in AdDays : AccountTotal(p, d) \in billed[p][d] /\ 0 \in billed[p][d]

AccountPageInv ==
  adStep = "writing account" =>
    /\ \A r \in insights : r.entity = Account /\ r.day \in AdDays /\ r.spend \in billed[platform][r.day]
    /\ \A r, n \in insights : r.day = n.day => r = n

OneRowADay ==
  \A p \in Platforms, d \in AdDays :
    /\ \A r, n \in AccountRowsOf(p, d) : r = n
    /\ \A r \in AccountRowsOf(p, d) : r.spend \in billed[p][d]

SpendInv == BilledInv /\ AccountPageInv /\ OneRowADay

LEMMA EntitiesAreFinite ==
  /\ IsFiniteSet(Entities)
  /\ \A p \in Platforms : IsFiniteSet(EntitiesOf(p)) /\ EntitiesOf(p) \subseteq Entities
  /\ \A p, q \in Platforms : p # q => EntitiesOf(p) \cap EntitiesOf(q) = {}
<1>1. IsFiniteSet(Entities) /\ MetaEntities \cap TikTokEntities = {}
  BY EntitiesAssumption
<1>2. \A p \in Platforms : EntitiesOf(p) \subseteq Entities
  BY AdBounds
<1>3. \A p \in Platforms : IsFiniteSet(EntitiesOf(p))
  BY <1>1, <1>2, FS_Subset
<1>4. \A p, q \in Platforms : p # q => EntitiesOf(p) \cap EntitiesOf(q) = {}
  BY <1>1 DEF EntitiesOf, Platforms
<1> QED
  BY <1>1, <1>2, <1>3, <1>4

ChargedOn(d) == [e \in Entities |-> charged[e][d]]

LEMMA TotalIsSum == \A p, d : AccountTotal(p, d) = SumIn(ChargedOn(d), EntitiesOf(p))
  BY DEF AccountTotal, SumIn, ChargedOn

LEMMA TotalNext == \A p, d : AccountTotal(p, d)' = SumIn(ChargedOn(d)', EntitiesOf(p))
  BY DEF AccountTotal, SumIn, ChargedOn

LEMMA TotalsAreWhole ==
  ASSUME ChargesInv, NEW p \in Platforms, NEW d \in AdDays
  PROVE  AccountTotal(p, d) \in Int
<1>1. \A e \in EntitiesOf(p) : ChargedOn(d)[e] \in Int
  BY EntitiesAreFinite DEF ChargesInv, ChargedOn
<1> QED
  BY <1>1, EntitiesAreFinite, TotalIsSum, SumType

(* A charge raises one total of one platform.                               *)
LEMMA ChargeRaises ==
  ASSUME AdInv, NEW p \in Platforms, NEW e \in EntitiesOf(p), NEW d \in AdDays, Charge(p, e, d),
         NEW q \in Platforms, NEW x \in AdDays
  PROVE  AccountTotal(q, x)' = IF q = p /\ x = d THEN AccountTotal(q, x) + 1 ELSE AccountTotal(q, x)
<1> DEFINE f == ChargedOn(x)
<1> DEFINE g == ChargedOn(x)'
<1> DEFINE S == EntitiesOf(q)
<1>1. charged \in [Entities -> [AdDays -> Nat]] /\ charged' = [charged EXCEPT ![e][d] = @ + 1]
  BY DEF Charge, AdInv, ChargesInv
<1>2. e \in Entities /\ S \subseteq Entities /\ IsFiniteSet(S)
  BY EntitiesAreFinite
<1>3. \A c \in S : f[c] \in Int /\ f[c] = charged[c][x] /\ g[c] = charged'[c][x] /\ g[c] \in Int
  BY <1>1, <1>2 DEF ChargedOn
<1>4. AccountTotal(q, x) = SumIn(f, S) /\ AccountTotal(q, x)' = SumIn(g, S)
  BY TotalIsSum, TotalNext
<1>5. CASE q = p /\ x = d
  <2>1. e \in S /\ g[e] = f[e] + 1 /\ \A c \in S \ {e} : g[c] = f[c]
    BY <1>1, <1>2, <1>3, <1>5
  <2> DEFINE T == S \ {e}
  <2>2. IsFiniteSet(T) /\ \A c \in T : f[c] \in Int /\ g[c] = f[c]
    BY <1>2, <1>3, <2>1, FS_Subset
  <2> HIDE DEF f, g, S
  <2>3. SumIn(f, S) = f[e] + SumIn(f, T) /\ SumIn(g, S) = g[e] + SumIn(g, T)
    BY <1>2, <1>3, <2>1, SumRemove
  <2> HIDE DEF T
  <2>4. SumIn(g, T) = SumIn(f, T) /\ SumIn(f, T) \in Int
    BY <2>2, SumCongruent, SumType
  <2>5. SumIn(g, S) = SumIn(f, S) + 1
    BY <1>3, <2>1, <2>3, <2>4
  <2> QED
    BY <1>4, <1>5, <2>5
<1>6. CASE ~(q = p /\ x = d)
  <2>1. q # p => e \notin S
    BY EntitiesAreFinite
  <2>2. \A c \in S : g[c] = f[c]
    BY <1>1, <1>2, <1>3, <1>6, <2>1
  <2> HIDE DEF f, g, S
  <2>3. SumIn(g, S) = SumIn(f, S)
    BY <1>2, <1>3, <2>2, SumCongruent
  <2> QED
    BY <1>4, <1>6, <2>3
<1> QED
  BY <1>5, <1>6

LEMMA InitSpendInv == AdInit => SpendInv
<1> SUFFICES ASSUME AdInit PROVE SpendInv
  OBVIOUS
<1>1. ASSUME NEW p \in Platforms, NEW d \in AdDays PROVE AccountTotal(p, d) = 0
  <2> DEFINE f == ChargedOn(d)
  <2>1. IsFiniteSet(EntitiesOf(p)) /\ \A e \in EntitiesOf(p) : f[e] = 0
    BY EntitiesAreFinite DEF AdInit, ChargedOn
  <2> HIDE DEF f
  <2>2. SumIn(f, EntitiesOf(p)) = 0 * Cardinality(EntitiesOf(p))
    BY <2>1, SumOfConstant
  <2>3. Cardinality(EntitiesOf(p)) \in Nat
    BY <2>1, FS_CardinalityType
  <2>4. SumIn(f, EntitiesOf(p)) = 0
    BY <2>2, <2>3
  <2> QED
    BY <2>4, TotalIsSum DEF f
<1>2. BilledInv
  BY <1>1 DEF AdInit, BilledInv
<1> QED
  BY <1>2 DEF AdInit, SpendInv, AccountPageInv, OneRowADay, AccountRowsOf

LEMMA ChargeKeepsSpend ==
  ASSUME AdInv, SpendInv, NEW p \in Platforms, NEW e \in EntitiesOf(p), NEW d \in AdDays, Charge(p, e, d)
  PROVE  SpendInv'
<1>1. /\ billed' = [billed EXCEPT ![p][d] = @ \cup {AccountTotal(p, d) + 1}]
      /\ UNCHANGED <<metrics, adStep, platform, insights>>
  BY DEF Charge
<1>2. \A q \in Platforms, x \in AdDays : AccountTotal(q, x) \in Int
  BY TotalsAreWhole DEF AdInv
<1>3. billed' \in [Platforms -> [AdDays -> SUBSET Int]]
  BY <1>1, <1>2 DEF SpendInv, BilledInv
<1>4. \A q \in Platforms, x \in AdDays : billed[q][x] \subseteq billed'[q][x]
  BY <1>1 DEF SpendInv, BilledInv
<1>5. ASSUME NEW q \in Platforms, NEW x \in AdDays PROVE AccountTotal(q, x)' \in billed'[q][x]
  <2>1. CASE q = p /\ x = d
    <3>1. AccountTotal(q, x)' = AccountTotal(p, d) + 1
      BY <2>1, ChargeRaises
    <3>2. billed'[p][d] = billed[p][d] \cup {AccountTotal(p, d) + 1}
      BY <1>1 DEF SpendInv, BilledInv
    <3> QED
      BY <2>1, <3>1, <3>2
  <2>2. CASE ~(q = p /\ x = d)
    <3>1. AccountTotal(q, x)' = AccountTotal(q, x)
      BY <2>2, ChargeRaises
    <3> QED
      BY <1>4, <3>1 DEF SpendInv, BilledInv
  <2> QED
    BY <2>1, <2>2
<1>6. BilledInv'
  BY <1>3, <1>4, <1>5 DEF SpendInv, BilledInv
<1>7. AccountPageInv'
  BY <1>1, <1>4 DEF SpendInv, AccountPageInv, AdInv, ChargesInv
<1>8. OneRowADay'
  BY <1>1, <1>4 DEF SpendInv, OneRowADay, AccountRowsOf
<1> QED
  BY <1>6, <1>7, <1>8 DEF SpendInv

LEMMA TotalsRest ==
  ASSUME SpendInv, UNCHANGED <<charged, billed>>
  PROVE  BilledInv'
  BY DEF SpendInv, BilledInv, AccountTotal

LEMMA RowsRest ==
  ASSUME OneRowADay, UNCHANGED <<metrics, billed>>
  PROVE  OneRowADay'
<1>1. \A p, d : AccountRowsOf(p, d)' = AccountRowsOf(p, d)
  BY DEF AccountRowsOf
<1> QED
  BY <1>1 DEF OneRowADay

(* The account's page: the total of each charged day of the window, once.   *)
LEMMA AccountPageIsBilled ==
  ASSUME AdInv, SpendInv
  PROVE  /\ \A r \in PageOf("account") :
              r.entity = Account /\ r.day \in AdDays /\ r.spend \in billed[platform][r.day]
         /\ \A r, n \in PageOf("account") : r.day = n.day => r = n
<1> DEFINE Row(p, d) == [entity |-> Account, day |-> d, spend |-> AccountTotal(p, d),
                         rev |-> revised[p][d], measured |-> TRUE]
<1> DEFINE Less(r) == [r EXCEPT !.measured = ~Refused]
<1>0. platform \in Platforms
  BY DEF AdInv, ChargesInv
<1>1. \A r \in AccountRows(platform, IncrementalWindow) : \E d \in AdDays : r = Row(platform, d)
  BY DEF AccountRows, IncrementalWindow
<1>2. ASSUME NEW r \in PageOf("account")
      PROVE  \E d \in AdDays : r = Row(platform, d) \/ r = Less(Row(platform, d))
  <2>1. CASE platform = "meta"
    <3>1. r \in AccountRows(platform, IncrementalWindow)
      BY <1>2, <2>1 DEF PageOf, MetaPage, RowsOf
    <3> QED
      BY <1>1, <3>1
  <2>2. CASE platform = "tiktok"
    <3>1. r \in ReportRows("account")
      BY <1>2, <2>2 DEF PageOf, TikTokPage
    <3>2. PICK o \in AccountRows(platform, IncrementalWindow) : r = Less(o)
      BY <2>2, <3>1 DEF ReportRows, RowsOf
    <3>3. PICK d \in AdDays : o = Row(platform, d)
      BY <1>1, <3>2
    <3> HIDE DEF Row, Less
    <3> QED
      BY <3>2, <3>3
  <2> QED
    BY <1>0, <2>1, <2>2 DEF Platforms
<1>3. CASE platform = "meta"
  <2>1. \A r \in PageOf("account") : \E d \in AdDays : r = Row(platform, d)
    BY <1>1, <1>3 DEF PageOf, MetaPage, RowsOf
  <2> HIDE DEF Row
  <2>2. \A d \in AdDays : /\ Row(platform, d).entity = Account /\ Row(platform, d).day = d
                          /\ Row(platform, d).spend = AccountTotal(platform, d)
    BY DEF Row
  <2>3. \A d \in AdDays : AccountTotal(platform, d) \in billed[platform][d]
    BY <1>0 DEF SpendInv, BilledInv
  <2> QED
    BY <2>1, <2>2, <2>3
<1>4. CASE platform = "tiktok"
  <2>1. \A r \in PageOf("account") : \E d \in AdDays : r = Less(Row(platform, d))
    <3> TAKE r \in PageOf("account")
    <3>1. r \in ReportRows("account")
      BY <1>4 DEF PageOf, TikTokPage
    <3>2. PICK o \in AccountRows(platform, IncrementalWindow) : r = Less(o)
      BY <1>4, <3>1 DEF ReportRows, RowsOf
    <3>3. PICK d \in AdDays : o = Row(platform, d)
      BY <1>1, <3>2
    <3> HIDE DEF Row, Less
    <3> QED
      BY <3>2, <3>3
  <2>2. \A d \in AdDays : /\ Less(Row(platform, d)).entity = Account /\ Less(Row(platform, d)).day = d
                          /\ Less(Row(platform, d)).spend = AccountTotal(platform, d)
    OBVIOUS
  <2>3. \A d \in AdDays : AccountTotal(platform, d) \in billed[platform][d]
    BY <1>0 DEF SpendInv, BilledInv
  <2> HIDE DEF Row, Less
  <2> QED
    BY <2>1, <2>2, <2>3
<1> QED
  BY <1>0, <1>3, <1>4 DEF Platforms

LEMMA ReadLevelKeepsSpend ==
  ASSUME AdInv, SpendInv, NEW level \in Levels, ReadLevel(level)
  PROVE  SpendInv'
<1>1. /\ UNCHANGED <<charged, billed, metrics, platform>> /\ insights' = PageOf(level)
      /\ adStep' = IF level = "account" THEN "writing account" ELSE "writing entity"
  BY DEF ReadLevel, ads
<1>2. AccountPageInv'
  <2> SUFFICES ASSUME adStep' = "writing account" PROVE AccountPageInv'
    BY DEF AccountPageInv
  <2>1. level = "account"
    BY <1>1
  <2>2. insights' = PageOf("account") /\ billed' = billed /\ platform' = platform
    BY <1>1, <2>1
  <2> QED
    BY <2>2, AccountPageIsBilled DEF AccountPageInv
<1>3. OneRowADay'
  BY <1>1, RowsRest DEF SpendInv
<1> QED
  BY <1>1, <1>2, <1>3, TotalsRest DEF SpendInv

(* What is written replaces the row of the day.                             *)
LEMMA PersistKeepsSpend ==
  ASSUME AdInv, SpendInv, NEW level \in Levels, PersistRows(level)
  PROVE  SpendInv'
<1> DEFINE Row(r) == [platform |-> platform, entity |-> r.entity, day |-> r.day, spend |-> r.spend,
                      rev |-> r.rev, measured |-> r.measured]
<1> DEFINE new == {Row(r) : r \in Resolved(level)}
<1>1. /\ UNCHANGED <<charged, billed>> /\ insights' = {}
      /\ adStep = (IF level = "account" THEN "writing account" ELSE "writing entity")
      /\ metrics' = {r \in metrics : \A n \in new : ~SameKey(r, n)} \cup new
  BY DEF PersistRows, UpsertMetrics, ads
<1>2. ASSUME NEW n \in new, n.entity = Account
      PROVE  /\ n.platform = platform /\ n.day \in AdDays /\ n.spend \in billed[platform][n.day]
             /\ \E r \in insights : n = Row(r) /\ r.day = n.day
             /\ adStep = "writing account"
  <2>1. PICK r \in Resolved(level) : n = Row(r)
    OBVIOUS
  <2>2. n.entity = r.entity /\ n.day = r.day /\ n.spend = r.spend /\ n.platform = platform
    BY <2>1
  <2>3. level = "account"
    <3> SUFFICES ASSUME level = "entity" PROVE FALSE
      BY DEF Levels
    <3>1. r.entity \in entities
      BY <2>1 DEF Resolved
    <3> QED
      BY <1>2, <2>2, <3>1, AdBounds DEF AdInv, ChargesInv
  <2>4. r \in insights /\ adStep = "writing account"
    BY <1>1, <2>1, <2>3 DEF Resolved
  <2> HIDE DEF Row
  <2> QED
    BY <2>1, <2>2, <2>4 DEF SpendInv, AccountPageInv
<1>3. ASSUME NEW n \in new, NEW m \in new, n.entity = Account, m.entity = Account, n.day = m.day PROVE n = m
  <2>1. PICK r \in insights : n = Row(r) /\ r.day = n.day
    BY <1>2, <1>3
  <2>2. PICK s \in insights : m = Row(s) /\ s.day = m.day
    BY <1>2, <1>3
  <2>3. r = s
    BY <1>2, <1>3, <2>1, <2>2 DEF SpendInv, AccountPageInv
  <2> QED
    BY <2>1, <2>2, <2>3
<1> HIDE DEF new, Row
<1>4. OneRowADay'
  <2> SUFFICES ASSUME NEW p \in Platforms, NEW d \in AdDays
               PROVE  /\ \A r, n \in AccountRowsOf(p, d)' : r = n
                      /\ \A r \in AccountRowsOf(p, d)' : r.spend \in billed'[p][d]
    BY DEF OneRowADay
  <2>1. ASSUME NEW r \in AccountRowsOf(p, d)'
        PROVE  /\ r \in new \/ (r \in AccountRowsOf(p, d) /\ \A n \in new : ~SameKey(r, n))
               /\ r.platform = p /\ r.entity = Account /\ r.day = d
    BY <1>1 DEF AccountRowsOf
  <2>2. ASSUME NEW r \in AccountRowsOf(p, d)' PROVE r.spend \in billed'[p][d]
    <3>1. CASE r \in new
      BY <1>1, <1>2, <2>1, <3>1
    <3>2. CASE r \notin new
      BY <1>1, <2>1, <3>2 DEF SpendInv, OneRowADay
    <3> QED
      BY <3>1, <3>2
  <2>3. ASSUME NEW r \in AccountRowsOf(p, d)', NEW n \in AccountRowsOf(p, d)' PROVE r = n
    <3>1. CASE r \in new /\ n \in new
      BY <1>3, <2>1, <3>1
    <3>2. CASE r \notin new /\ n \notin new
      BY <2>1, <3>2 DEF SpendInv, OneRowADay
    <3>3. CASE r \in new /\ n \notin new
      BY <2>1, <3>3 DEF SameKey
    <3>4. CASE r \notin new /\ n \in new
      BY <2>1, <3>4 DEF SameKey
    <3> QED
      BY <3>1, <3>2, <3>3, <3>4
  <2> QED
    BY <2>2, <2>3
<1>5. AccountPageInv'
  BY <1>1 DEF AccountPageInv
<1> QED
  BY <1>1, <1>4, <1>5, TotalsRest DEF SpendInv

LEMMA OtherAdStepsKeepSpend ==
  ASSUME AdInv, SpendInv,
         AdDayPasses \/ BeginAds \/ SyncHierarchy \/ AdSyncFails \/ AdsCrash \/ UNCHANGED adVars
  PROVE  SpendInv'
<1>1. /\ UNCHANGED <<charged, metrics, billed>>
      /\ \/ adStep' # "writing account"
         \/ UNCHANGED <<adStep, platform, insights>>
  <2>1. CASE AdDayPasses
    BY <2>1 DEF AdDayPasses
  <2>2. CASE BeginAds
    BY <2>2 DEF BeginAds, ads
  <2>3. CASE SyncHierarchy
    BY <2>3 DEF SyncHierarchy, AfterAdSync, ads
  <2>4. CASE AdSyncFails
    <3>1. UNCHANGED <<charged, metrics, billed>> /\ AfterAdSync(SyncOf(adStep)) /\ adStep \in AdSteps \ {"idle"}
          /\ platform \in {"meta", "tiktok"}
      BY <2>4 DEF AdSyncFails, ads, AdInv, ChargesInv, Platforms
    <3>2. SyncOf(adStep) \in {"hierarchy", "account", "entity"}
      BY <3>1 DEF SyncOf, AdSteps
    <3>3. adStep' # "writing account"
      BY <3>1, <3>2 DEF AfterAdSync
    <3> QED
      BY <3>1, <3>3
  <2>5. CASE AdsCrash
    BY <2>5 DEF AdsCrash, ads
  <2>6. CASE UNCHANGED adVars
    BY <2>6 DEF adVars, ads
  <2> QED
    BY <2>1, <2>2, <2>3, <2>4, <2>5, <2>6
<1>2. BilledInv'
  BY <1>1, TotalsRest
<1>3. AccountPageInv'
  BY <1>1 DEF SpendInv, AccountPageInv
<1>4. OneRowADay'
  BY <1>1, RowsRest DEF SpendInv
<1> QED
  BY <1>2, <1>3, <1>4 DEF SpendInv

LEMMA OneRowIsItsSpend == SpendInv => SpendIsCountedOnce
<1> SUFFICES ASSUME SpendInv, NEW p \in Platforms, NEW d \in AdDays
             PROVE  LoadAdSpend(p, d) \in billed[p][d]
  BY DEF SpendIsCountedOnce
<1> DEFINE rows == AccountRowsOf(p, d)
<1> DEFINE f == [r \in rows |-> r.spend]
<1>1. LoadAdSpend(p, d) = SumIn(f, rows)
  BY SumIsSumIn DEF LoadAdSpend
<1>2. billed[p][d] \subseteq Int /\ 0 \in billed[p][d]
  BY DEF SpendInv, BilledInv
<1>3. CASE rows = {}
  <2>1. SumIn(f, rows) = 0
    BY <1>3, SumEmpty
  <2> QED
    BY <1>1, <1>2, <2>1
<1>4. ASSUME NEW r \in rows PROVE LoadAdSpend(p, d) \in billed[p][d]
  <2>1. rows = {r} /\ r.spend \in billed[p][d]
    BY DEF SpendInv, OneRowADay
  <2>2. f[r] = r.spend /\ f[r] \in Int
    BY <1>2, <2>1
  <2> HIDE DEF f
  <2>3. SumIn(f, {r}) = f[r]
    BY <2>2, SumSingleton
  <2> QED
    BY <1>1, <2>1, <2>2, <2>3
<1> QED
  BY <1>3, <1>4

(* Advertising is counted once, for any hierarchy of entities: what the P&L *)
(* charges a day with is a total the platform charged for that day, however *)
(* often the day is read again, whichever syncs fail, and whether or not    *)
(* the campaigns below the account were known.                              *)
THEOREM SpendCountsOnce == AdSpec => []SpendIsCountedOnce
<1>1. AdInit => AdInv /\ SpendInv
  BY InitAdInv, InitSpendInv
<1>2. (AdInv /\ SpendInv) /\ [AdNext]_adVars => (AdInv /\ SpendInv)'
  <2>1. AdInv /\ [AdNext]_adVars => AdInv'
    BY ChargeKeeps, AdDayKeeps, ReadLevelKeeps, PersistAccountKeeps, PersistEntityKeeps,
       OtherAdSteps DEF AdNext, Levels
  <2>2. (AdInv /\ SpendInv) /\ [AdNext]_adVars => SpendInv'
    BY ChargeKeepsSpend, ReadLevelKeepsSpend, PersistKeepsSpend, OtherAdStepsKeepSpend DEF AdNext
  <2> QED
    BY <2>1, <2>2
<1>3. AdInv /\ SpendInv => SpendIsCountedOnce
  BY OneRowIsItsSpend
<1> QED
  BY <1>1, <1>2, <1>3, PTL DEF AdSpec

-----------------------------------------------------------------------------
(* The shop.  First what the least and the greatest of a set are.           *)

LEMMA MinIsLeast ==
  ASSUME NEW S \in SUBSET Nat, S # {}
  PROVE  Min(S) \in S /\ \A x \in S : Min(S) <= x
<1>1. PICK m \in S : \A x \in S : ~(<<x, m>> \in OpToRel(<, Nat))
  BY NatLessThanWellFounded, WFMin
<1>2. ASSUME NEW x \in S PROVE m <= x
  <2>1. x \in Nat /\ m \in Nat
    OBVIOUS
  <2>2. x < m => <<x, m>> \in OpToRel(<, Nat)
    BY <2>1 DEF OpToRel
  <2>3. ~(x < m)
    BY <1>1, <2>2
  <2> QED
    BY <2>1, <2>3
<1> QED
  BY <1>2 DEF Min

LEMMA MaxIsGreatest ==
  ASSUME NEW S \in SUBSET Nat, S # {}, NEW b \in Nat, \A x \in S : x <= b
  PROVE  Max(S) \in S /\ \A x \in S : Max(S) >= x
<1> DEFINE D == {b - x : x \in S}
<1>1. D \in SUBSET Nat /\ D # {}
  <2>1. ASSUME NEW x \in S PROVE b - x \in Nat
    <3>1. x \in Nat /\ x <= b
      OBVIOUS
    <3> QED
      BY <3>1
  <2>2. D # {}
    OBVIOUS
  <2> QED
    BY <2>1, <2>2
<1>2. PICK x \in S : Min(D) = b - x
  BY <1>1, MinIsLeast
<1>3. \A y \in S : b - x <= b - y
  BY <1>1, <1>2, MinIsLeast
<1>4. \A y \in S : x >= y
  BY <1>3
<1> QED
  BY <1>4 DEF Max

(* The invariant.  A row is never ahead of its order; the page in hand is   *)
(* behind the cursor, not older than what is stored of it (HandInv), and    *)
(* stage by stage it is stored (StagesInv).                                 *)

HandSteps == {"customers", "orders", "lines", "refunds", "dates", "advancing"}
OrderSteps == HandSteps \cup {"reading"}

StoreInv ==
  /\ edits \in Nat /\ shopDay \in Nat /\ shopDay <= LastDay
  /\ shop \in [Orders -> Nodes]
  /\ \A o \in Orders : shop[o].rev <= edits /\ shop[o].updated <= shopDay

TablesInv ==
  /\ orderRows \in [Orders -> [rev : Nat, live : BOOLEAN]]
  /\ orderLines \in [Orders -> [rev : Nat, known : BOOLEAN]]
  /\ firstOrder \in [Customers -> Nat]
  /\ \A o \in Orders : orderRows[o].rev <= shop[o].rev /\ orderLines[o].rev <= shop[o].rev

HandInv ==
  /\ shopStep \in Steps /\ importer \in Runs /\ search \in Searches
  /\ orderCursor \in Nat /\ nextCursor \in Nat /\ known \in [Customers -> Nat]
  /\ DOMAIN nodes \subseteq Orders
  /\ shopStep \notin HandSteps => DOMAIN nodes = {}
  /\ shopStep \in OrderSteps => after = orderCursor
  /\ \A o \in DOMAIN nodes :
       /\ nodes[o] \in Nodes /\ o \in Matches(search)
       /\ nodes[o].rev > orderCursor /\ nodes[o].rev <= shop[o].rev
       /\ orderRows[o].rev <= nodes[o].rev /\ orderLines[o].rev <= nodes[o].rev

StagesInv ==
  \A o \in DOMAIN nodes :
    /\ shopStep \in {"lines", "refunds", "dates", "advancing"} =>
         orderRows[o] = [rev |-> nodes[o].rev, live |-> nodes[o].live]
    /\ shopStep \in {"refunds", "dates", "advancing"} =>
         orderLines[o] = [rev |-> nodes[o].rev, known |-> VariantOf[o] \in variants]
    /\ shopStep \in {"dates", "advancing"} /\ nodes[o].refunded => o \in refunds
    /\ shopStep = "advancing" /\ nodes[o].live =>
         firstOrder[CustomerOf[o]] \in 1..OrderedAt[o]

(* Until a customer's turn comes, the first date is still what              *)
(* upsertCustomers read.                                                    *)
DatesInv ==
  shopStep \in {"orders", "lines", "refunds", "dates"} =>
    \A c \in Customers : LiveOnPage(c) # {} => firstOrder[c] \in {known[c], EarliestOf(c)}

(* An interrupted read is resumed by a refresh alone, with the search that  *)
(* matches everything; what it promised is then ahead of the cursor, or in  *)
(* the database (ArrivalInv).                                               *)
Underway == orderCursor # NullCursor \/ shopStep \in OrderSteps

ResumedByRefresh ==
  shopStep \in {"catalogue", "begin"} /\ importer = "backfill" =>
    Careless \/ orderCursor = NullCursor

PromiseInv ==
  /\ promised \subseteq OrderPromises
  /\ \A e \in promised :
       /\ 0 < e.rev /\ e.rev <= shop[e.order].rev
       /\ e.refunded => shop[e.order].refunded
       /\ e.known => VariantOf[e.order] \in variants
       /\ e.order \in DOMAIN nodes =>
            e.rev <= nodes[e.order].rev /\ (e.refunded => nodes[e.order].refunded)

Ahead(e) == /\ shop[e.order].rev > orderCursor
            /\ shopStep \in OrderSteps => e.order \in Matches(search)
BehindPage(e) == /\ nextCursor # NullCursor /\ shop[e.order].rev > nextCursor
                 /\ e.order \in Matches(search)

ArrivalInv ==
  ~Careless =>
    \A e \in promised :
      /\ Underway => e.order \in removed \/ Ahead(e) \/ OrderArrived(e)
      /\ shopStep \in HandSteps =>
           e.order \in removed \cup DOMAIN nodes \/ BehindPage(e) \/ OrderArrived(e)

ImportInv == /\ StoreInv /\ TablesInv /\ HandInv /\ StagesInv /\ DatesInv
             /\ ResumedByRefresh /\ PromiseInv /\ ArrivalInv

(* What the cursor has passed of the days a read reaches back over is       *)
(* stored as it is: a change since then has brought it to the end again.    *)
(* So a refresh that goes on with the read can answer for it.               *)
StoredAsIs(o) ==
  /\ orderRows[o].rev >= shop[o].rev /\ orderLines[o].rev >= shop[o].rev
  /\ shop[o].refunded => o \in refunds
  /\ orderRows[o].live => firstOrder[CustomerOf[o]] \in 1..OrderedAt[o]

ListsItsDays ==
  \/ readBegun.since > LastDay
  \/ search.by = "updated" /\ search.since <= readBegun.since

Passed(o) == shop[o].rev \in 1..orderCursor /\ shop[o].updated >= readBegun.since
OnPage(o) == /\ o \in Matches(search)
             /\ shop[o].rev > orderCursor /\ shop[o].rev <= nextCursor

PassedInv ==
  /\ Underway => /\ readBegun.since \in Nat /\ orderCursor <= edits
                 /\ \A o \in Orders \ removed : Passed(o) => StoredAsIs(o)
  /\ shopStep \in OrderSteps => ListsItsDays
  /\ shopStep \in HandSteps =>
       /\ nextCursor <= edits
       /\ \A o \in Orders : OnPage(o) => o \in DOMAIN nodes /\ nodes[o] = shop[o]

ResumeInv == ~Careless => PassedInv

LEMMA CustomersAreOf == \A o \in Orders : CustomerOf[o] \in Customers
  BY DEF Customers

LEMMA EarliestIsOnPage ==
  ASSUME HandInv, NEW c \in Customers, LiveOnPage(c) # {}
  PROVE  /\ EarliestOf(c) \in Nat /\ EarliestOf(c) > 0
         /\ \A o \in LiveOnPage(c) : EarliestOf(c) <= OrderedAt[o]
<1> DEFINE S == {OrderedAt[o] : o \in LiveOnPage(c)}
<1>1. S \in SUBSET Nat /\ S \subseteq Nat \ {0} /\ S # {}
  BY OrdersAssumption DEF LiveOnPage, HandInv
<1> QED
  BY <1>1, MinIsLeast DEF EarliestOf

LEMMA InitImportInv == ShopInit => ImportInv
<1> SUFFICES ASSUME ShopInit PROVE ImportInv
  OBVIOUS
<1>1. StoreInv /\ TablesInv
  BY ShopBoundsAssumption DEF ShopInit, StoreInv, TablesInv, Nodes, NoRev, NoDate
<1>2. HandInv /\ StagesInv /\ DatesInv
  BY DEF ShopInit, HandInv, StagesInv, DatesInv, HandSteps, OrderSteps, Steps, Runs, Searches,
         Everything, NullCursor, NoDate, Nowhere
<1>3. PromiseInv /\ ResumedByRefresh /\ ArrivalInv
  BY DEF ShopInit, PromiseInv, ResumedByRefresh, ArrivalInv
<1> QED
  BY <1>1, <1>2, <1>3 DEF ImportInv

(* People order, refund and cancel: an order only gets newer, and goes on   *)
(* matching the search.                                                     *)
LEMMA ChangeKeeps ==
  ASSUME ImportInv, NEW o \in Orders, NEW at \in Nat, NEW live \in BOOLEAN,
         NEW back \in BOOLEAN, ChangeOrder(o, at, live, back),
         Placed(o) => at = shop[o].placed,
         Placed(o) /\ shop[o].refunded => back
  PROVE  ImportInv'
<1> DEFINE new == [rev |-> edits + 1, placed |-> at, updated |-> shopDay, live |-> live,
                   refunded |-> back]
<1>1. /\ edits' = edits + 1 /\ shop' = [shop EXCEPT ![o] = new]
      /\ UNCHANGED <<shopDay, tables, orderCursor, sync, history, incidents>>
  BY DEF ChangeOrder
<1>2. /\ shopDay' = shopDay /\ variants' = variants /\ orderRows' = orderRows
      /\ orderLines' = orderLines /\ refunds' = refunds /\ firstOrder' = firstOrder
      /\ orderCursor' = orderCursor /\ shopStep' = shopStep /\ importer' = importer
      /\ search' = search /\ after' = after /\ nodes' = nodes /\ nextCursor' = nextCursor
      /\ known' = known /\ promised' = promised /\ removed' = removed
  BY <1>1 DEF tables, sync, history
<1>3. /\ edits \in Nat /\ shopDay \in Nat /\ shop \in [Orders -> Nodes]
      /\ \A p \in Orders : shop[p] \in Nodes /\ shop[p].rev <= edits /\ shop[p].updated <= shopDay
  BY DEF ImportInv, StoreInv
<1>4. /\ new \in Nodes /\ new.rev = edits + 1 /\ new.updated = shopDay
      /\ new.placed = at /\ new.refunded = back
  BY <1>3 DEF Nodes
<1> HIDE DEF new
<1>5. /\ shop' \in [Orders -> Nodes]
      /\ shop'[o].rev = edits + 1 /\ shop'[o].updated = shopDay
      /\ shop'[o].placed = at /\ shop'[o].refunded = back
      /\ \A p \in Orders \ {o} : shop'[p] = shop[p]
  BY <1>1, <1>3, <1>4
<1>6. ASSUME NEW p \in Orders
      PROVE  /\ shop'[p].rev \in Nat /\ shop[p].rev \in Nat
             /\ shop[p].rev <= shop'[p].rev /\ shop'[p].rev <= edits + 1
             /\ shop'[p].updated \in Nat /\ shop[p].updated \in Nat
             /\ shop[p].updated <= shop'[p].updated /\ shop'[p].updated <= shopDay
             /\ shop[p].rev > 0 => shop'[p].placed = shop[p].placed
             /\ shop[p].rev > 0 /\ shop[p].refunded => shop'[p].refunded
  <2>1. shop[p].rev \in Nat /\ shop[p].updated \in Nat /\ shop[p].rev <= edits /\ shop[p].updated <= shopDay
    BY <1>3 DEF Nodes
  <2>2. CASE p = o
    BY <1>3, <1>5, <2>1, <2>2 DEF Placed, NoRev
  <2>3. CASE p # o
    BY <1>3, <1>5, <2>1, <2>3
  <2> QED
    BY <2>2, <2>3
<1>7. ASSUME NEW p \in Matches(search) PROVE p \in Matches(search)'
  <2>1. search \in Searches /\ search' = search
    BY <1>2 DEF ImportInv, HandInv
  <2>2. p \in Orders /\ shop[p].rev > 0
    BY <1>6 DEF Matches, Placed, NoRev
  <2>3. shop'[p].rev # 0
    BY <1>6, <2>2
  <2>4. search.since \in Nat /\ shop[p].updated >= search.since => shop'[p].updated >= search.since
    BY <1>6, <2>1, <2>2 DEF Searches
  <2>5. shop'[p].placed = shop[p].placed
    BY <1>6, <2>2
  <2>6. (IF search.by = "created" THEN shop[p].placed ELSE shop[p].updated) >= search.since
    BY DEF Matches
  <2>7. (IF search.by = "created" THEN shop'[p].placed ELSE shop'[p].updated) >= search.since
    BY <2>1, <2>4, <2>5, <2>6 DEF Searches
  <2> QED
    BY <2>1, <2>2, <2>3, <2>7 DEF Matches, Placed, NoRev
<1>8. StoreInv'
  BY <1>2, <1>3, <1>5, <1>6, <1>1 DEF StoreInv, ImportInv
<1>9. TablesInv'
  BY <1>2, <1>6 DEF TablesInv, ImportInv
<1>10. HandInv'
  <2>1. HandInv
    BY DEF ImportInv
  <2>2. ASSUME NEW p \in DOMAIN nodes
        PROVE  p \in Matches(search)' /\ nodes[p].rev <= shop'[p].rev
    <3>1. /\ p \in Orders /\ nodes[p].rev \in Nat /\ nodes[p].rev <= shop[p].rev
          /\ p \in Matches(search)
      BY <2>1 DEF HandInv, Nodes
    <3>2. /\ shop'[p].rev \in Nat /\ shop[p].rev \in Nat /\ shop[p].rev <= shop'[p].rev
      BY <1>6, <3>1
    <3> QED
      BY <1>7, <3>1, <3>2
  <2> QED
    BY <1>2, <2>1, <2>2 DEF HandInv
<1>11. StagesInv' /\ DatesInv' /\ ResumedByRefresh'
  BY <1>2 DEF StagesInv, DatesInv, ResumedByRefresh, ImportInv, LiveOnPage, EarliestOf
<1>12. PromiseInv'
  BY <1>2, <1>6 DEF PromiseInv, ImportInv, OrderPromises
<1>13. ArrivalInv'
  <2> SUFFICES ASSUME ~Careless, NEW e \in promised
               PROVE  /\ Underway' => e.order \in removed \/ Ahead(e)' \/ OrderArrived(e)'
                      /\ shopStep' \in HandSteps =>
                           \/ e.order \in removed \cup DOMAIN nodes
                           \/ BehindPage(e)' \/ OrderArrived(e)'
    BY <1>2 DEF ArrivalInv
  <2>1. e.order \in Orders /\ orderCursor \in Nat /\ nextCursor \in Nat
    BY DEF ImportInv, PromiseInv, OrderPromises, HandInv
  <2>2. Underway' = Underway /\ OrderArrived(e)' = OrderArrived(e)
    BY <1>2 DEF Underway, OrderArrived
  <2>3. Ahead(e) => Ahead(e)'
    BY <1>2, <1>6, <1>7, <2>1 DEF Ahead
  <2>4. BehindPage(e) => BehindPage(e)'
    BY <1>2, <1>6, <1>7, <2>1 DEF BehindPage
  <2> QED
    BY <1>2, <2>2, <2>3, <2>4 DEF ArrivalInv, ImportInv
<1> QED
  BY <1>8, <1>9, <1>10, <1>11, <1>12, <1>13 DEF ImportInv

LEMMA ShopDayKeeps ==
  ASSUME ImportInv, ShopDayPasses
  PROVE  ImportInv'
<1>1. /\ shopDay' = shopDay + 1 /\ shopDay < LastDay
      /\ UNCHANGED <<shop, edits, tables, orderCursor, sync, history>>
  BY DEF ShopDayPasses
<1>2. StoreInv'
  <2>1. StoreInv /\ shop' = shop /\ edits' = edits
    BY <1>1 DEF ImportInv
  <2>2. ASSUME NEW o \in Orders PROVE shop[o].updated <= shopDay + 1
    BY <2>1 DEF StoreInv, Nodes
  <2> QED
    BY <1>1, <2>1, <2>2, ShopBoundsAssumption DEF StoreInv
<1>3. TablesInv' /\ HandInv' /\ StagesInv' /\ DatesInv' /\ ResumedByRefresh' /\ PromiseInv'
  BY <1>1 DEF ImportInv, TablesInv, HandInv, StagesInv, DatesInv, ResumedByRefresh, PromiseInv,
              tables, sync, history, LiveOnPage, EarliestOf, Matches, Placed
<1>4. ArrivalInv'
  BY <1>1 DEF ImportInv, ArrivalInv, Underway, Ahead, BehindPage, OrderArrived, tables, sync,
              history, Matches, Placed
<1> QED
  BY <1>2, <1>3, <1>4 DEF ImportInv

(* A run begins or ends, or reads the catalogue or payouts: no order is in  *)
(* hand.                                                                    *)
LEMMA BetweenOrdersKeeps ==
  ASSUME ImportInv,
         UNCHANGED <<store, orderRows, orderLines, refunds, firstOrder, orderCursor, promised,
                     removed>>,
         variants \subseteq variants', shopStep' \in Steps \ OrderSteps, importer' \in Runs,
         search' \in Searches, nextCursor' \in Nat, known' \in [Customers -> Nat],
         DOMAIN nodes' = {}, ResumedByRefresh'
  PROVE  ImportInv'
<1>1. StoreInv' /\ TablesInv'
  BY DEF ImportInv, StoreInv, TablesInv, store
<1>2. HandInv' /\ StagesInv'
  BY DEF ImportInv, HandInv, StagesInv, OrderSteps
<1>3. DatesInv'
  BY DEF DatesInv, OrderSteps, HandSteps
<1>4. PromiseInv'
  BY DEF ImportInv, PromiseInv, OrderPromises, store
<1>5. ArrivalInv'
  <2> SUFFICES ASSUME ~Careless, NEW e \in promised, orderCursor # NullCursor
               PROVE  e.order \in removed \/ Ahead(e)' \/ OrderArrived(e)'
    BY DEF ArrivalInv, Underway, OrderSteps
  <2>1. e.order \in removed \/ Ahead(e) \/ OrderArrived(e)
    BY DEF ArrivalInv, Underway, ImportInv
  <2>2. OrderArrived(e) => OrderArrived(e)'
    BY DEF OrderArrived
  <2>3. Ahead(e) => Ahead(e)'
    BY DEF Ahead, store
  <2> QED
    BY <2>1, <2>2, <2>3
<1> QED
  BY <1>1, <1>2, <1>3, <1>4, <1>5 DEF ImportInv

LEMMA BetweenOrders ==
  ASSUME ImportInv,
         \/ BeginShopify \/ BeginBackfill \/ SyncCatalogue \/ SyncPayouts
         \/ ShopifySyncFails \/ ShopifyCrashes
  PROVE  ImportInv'
<1> DEFINE Kept == UNCHANGED <<store, orderRows, orderLines, refunds, firstOrder, orderCursor,
                               promised, removed>>
           Typed == /\ variants \subseteq variants' /\ shopStep' \in Steps \ OrderSteps
                    /\ importer' \in Runs /\ search' \in Searches /\ nextCursor' \in Nat
                    /\ known' \in [Customers -> Nat] /\ DOMAIN nodes' = {}
<1>1. /\ importer \in Runs /\ search \in Searches /\ nextCursor \in Nat
      /\ known \in [Customers -> Nat] /\ (shopStep \notin HandSteps => DOMAIN nodes = {})
      /\ Everything \in Searches
  BY DEF ImportInv, HandInv, Searches, Everything
<1>2. CASE BeginShopify
  <2>1. Kept /\ Typed /\ ResumedByRefresh'
    BY <1>1, <1>2 DEF BeginShopify, tables, store, history, Steps, Runs, OrderSteps, HandSteps,
                      ResumedByRefresh
  <2> QED
    BY <2>1, BetweenOrdersKeeps
<1>3. CASE BeginBackfill
  <2>1. Kept /\ ResumedByRefresh' /\ UNCHANGED <<variants, nextCursor, known, nodes>>
        /\ shopStep = "idle" /\ shopStep' \in {"catalogue", "begin"} /\ importer' = "backfill"
        /\ search' \in {Everything} \cup [by : {"created", "updated"}, since : {BackfillSince}]
    BY <1>3 DEF BeginBackfill, tables, store, history, ResumedByRefresh
  <2>2. search' \in Searches
    BY <1>1, <2>1, ShopBoundsAssumption DEF Searches
  <2>3. Typed
    BY <1>1, <2>1, <2>2 DEF Steps, Runs, OrderSteps, HandSteps
  <2> QED
    BY <2>1, <2>3, BetweenOrdersKeeps
<1>4. CASE SyncCatalogue
  <2>1. Kept /\ Typed /\ ResumedByRefresh'
    BY <1>1, <1>4 DEF SyncCatalogue, writing, store, history, Steps, OrderSteps, HandSteps,
                      ResumedByRefresh, ImportInv
  <2> QED
    BY <2>1, BetweenOrdersKeeps
<1>5. CASE SyncPayouts
  <2>1. Kept /\ Typed /\ ResumedByRefresh'
    BY <1>1, <1>5 DEF SyncPayouts, ShopifyIdle, store, history, Steps, Runs, OrderSteps,
                      HandSteps, ResumedByRefresh
  <2> QED
    BY <2>1, BetweenOrdersKeeps
<1>6. CASE ShopifySyncFails
  <2>1. /\ Kept /\ UNCHANGED variants /\ LeaveOrders
        /\ \/ shopStep' \in {"idle", "payouts"} /\ importer' \in {importer, "refresh"}
           \/ shopStep' = "begin" /\ shopStep = "catalogue" /\ importer' = importer
    BY <1>6 DEF ShopifySyncFails, ShopifyIdle, tables, history
  <2>2. Typed
    BY <1>1, <2>1 DEF LeaveOrders, DropNodes, Steps, Runs, OrderSteps, HandSteps, NullCursor,
                      NoDate, Nowhere
  <2>3. ResumedByRefresh'
    BY <2>1 DEF ResumedByRefresh, ImportInv
  <2> QED
    BY <2>1, <2>2, <2>3, BetweenOrdersKeeps
<1>7. CASE ShopifyCrashes
  <2>1. Kept /\ UNCHANGED variants /\ LeaveOrders /\ shopStep' = "idle" /\ importer' = "refresh"
    BY <1>7 DEF ShopifyCrashes, ShopifyIdle, tables, history
  <2>2. Typed
    BY <1>1, <2>1 DEF LeaveOrders, DropNodes, Steps, Runs, OrderSteps, HandSteps, NullCursor,
                      NoDate, Nowhere
  <2>3. ResumedByRefresh'
    BY <2>1 DEF ResumedByRefresh
  <2> QED
    BY <2>1, <2>2, <2>3, BetweenOrdersKeeps
<1> QED
  BY <1>2, <1>3, <1>4, <1>5, <1>6, <1>7

LEMMA MaxWithZero ==
  ASSUME NEW x \in Int
  PROVE  Max({0, x}) \in Nat /\ Max({0, x}) >= x
<1>1. \E m \in {0, x} : \A y \in {0, x} : m >= y
  BY DEF Max
<1>2. Max({0, x}) \in {0, x} /\ \A y \in {0, x} : Max({0, x}) >= y
  BY <1>1 DEF Max
<1> QED
  BY <1>2

(* The search of a read lists all that changed since the day it reaches     *)
(* back to.                                                                 *)
LEMMA SearchReaches ==
  ASSUME ImportInv
  PROVE  LET s == IF importer = "refresh" THEN RefreshSearch ELSE search
         IN  /\ Reach \in Nat
             /\ Reach > LastDay \/ (s.by = "updated" /\ s.since \in Nat /\ s.since <= Reach)
<1> DEFINE s == IF importer = "refresh" THEN RefreshSearch ELSE search
<1>1. /\ shopDay \in Nat /\ search \in Searches /\ importer \in Runs /\ LastDay \in Nat
      /\ OrderWindow \in Nat
  BY ShopBoundsAssumption DEF ImportInv, StoreInv, HandInv
<1>2. CASE importer = "refresh"
  <2>1. Reach = Max({0, shopDay - OrderWindow}) /\ s = RefreshSearch
    BY <1>2 DEF Reach
  <2>2. Reach \in Nat /\ Reach >= shopDay - OrderWindow
    BY <1>1, <2>1, MaxWithZero
  <2>3. \/ s = Everything
        \/ s = [by |-> "updated", since |-> shopDay - OrderWindow] /\ shopDay > OrderWindow
    BY <1>1, <2>1 DEF RefreshSearch
  <2> QED
    BY <1>1, <2>2, <2>3 DEF Everything
<1>3. CASE importer # "refresh" /\ search.by = "updated"
  <2>1. Reach = search.since /\ s = search /\ search.since \in Nat
    BY <1>1, <1>3 DEF Reach, Searches
  <2>2. search.since <= search.since
    BY <2>1
  <2> QED
    BY <1>3, <2>1, <2>2
<1>4. CASE importer # "refresh" /\ search.by # "updated"
  <2>1. Reach = LastDay + 1
    BY <1>4 DEF Reach
  <2> QED
    BY <1>1, <2>1
<1> QED
  BY <1>2, <1>3, <1>4

LEMMA BeginOrdersKeeps ==
  ASSUME ImportInv, ResumeInv, BeginOrders
  PROVE  ImportInv'
<1> DEFINE s == IF importer = "refresh" THEN RefreshSearch ELSE search
           fresh == orderCursor = NullCursor \/ importer = "backfill"
<1>1. /\ UNCHANGED <<store, tables, orderCursor, importer, nodes, nextCursor, known, removed>>
      /\ shopStep = "begin" /\ shopStep' = "reading" /\ search' = s /\ after' = orderCursor
      /\ promised' = IF fresh THEN ListingOf(s) ELSE promised \cup ListingOfRest
  BY DEF BeginOrders
<1>2. s \in Searches
  <2>1. search \in Searches /\ shopDay \in Nat
    BY DEF ImportInv, HandInv, StoreInv
  <2>2. RefreshSearch \in Searches
    BY <2>1, ShopBoundsAssumption DEF RefreshSearch, Searches, Everything
  <2> QED
    BY <2>1, <2>2
<1> HIDE DEF s
<1>3. DOMAIN nodes = {} /\ orderCursor \in Nat
  BY <1>1 DEF ImportInv, HandInv, HandSteps
<1>4. StoreInv' /\ TablesInv'
  BY <1>1 DEF ImportInv, StoreInv, TablesInv, store, tables
<1>5. HandInv' /\ StagesInv' /\ DatesInv' /\ ResumedByRefresh'
  BY <1>1, <1>2, <1>3 DEF ImportInv, HandInv, StagesInv, DatesInv, ResumedByRefresh, Steps,
                          OrderSteps, HandSteps
<1>6. ASSUME NEW e \in ListingOf(s)
      PROVE  /\ e \in OrderPromises /\ 0 < e.rev /\ e.rev = shop[e.order].rev
             /\ e.refunded = shop[e.order].refunded
             /\ e.known => VariantOf[e.order] \in variants
             /\ e.order \in Matches(s)
  <2>1. PICK o \in Matches(s) :
          e = [order |-> o, rev |-> shop[o].rev, live |-> shop[o].live,
               refunded |-> shop[o].refunded, known |-> VariantOf[o] \in variants]
    BY DEF ListingOf
  <2>2. o \in Orders /\ shop[o] \in Nodes /\ shop[o].rev # 0
    BY DEF Matches, Placed, NoRev, ImportInv, StoreInv
  <2>3. PICK k \in BOOLEAN : k = (VariantOf[o] \in variants)
    <3>1. CASE VariantOf[o] \in variants
      <4>1. TRUE \in BOOLEAN /\ TRUE = (VariantOf[o] \in variants)
        BY <3>1
      <4> QED
        BY <4>1
    <3>2. CASE VariantOf[o] \notin variants
      <4>1. FALSE \in BOOLEAN /\ FALSE = (VariantOf[o] \in variants)
        BY <3>2
      <4> QED
        BY <4>1
    <3> QED
      BY <3>1, <3>2
  <2>4. e = [order |-> o, rev |-> shop[o].rev, live |-> shop[o].live,
             refunded |-> shop[o].refunded, known |-> k]
    BY <2>1, <2>3
  <2>5. /\ e.order = o /\ e.rev = shop[o].rev /\ e.refunded = shop[o].refunded
        /\ e.known = k
    BY <2>4
  <2>6. e \in OrderPromises /\ 0 < shop[o].rev
    BY <2>2, <2>4 DEF OrderPromises, Nodes
  <2>7. e.known => VariantOf[o] \in variants
    BY <2>3, <2>5
  <2> QED
    BY <2>5, <2>6, <2>7
<1>9. ASSUME NEW e \in ListingOfRest
      PROVE  /\ e \in OrderPromises /\ 0 < e.rev /\ e.rev = shop[e.order].rev
             /\ e.refunded = shop[e.order].refunded
             /\ e.known => VariantOf[e.order] \in variants /\ AfterCursor(e.order)
             /\ e.order \in Matches(Everything)
             /\ \/ AfterCursor(e.order)
                \/ readBegun.since <= Reach /\ shop[e.order].updated >= Reach
  <2>1. PICK o \in Owed :
          e = [order |-> o, rev |-> shop[o].rev, live |-> shop[o].live,
               refunded |-> shop[o].refunded,
               known |-> AfterCursor(o) /\ VariantOf[o] \in variants]
    BY DEF ListingOfRest
  <2>2. /\ o \in Matches(Everything)
        /\ AfterCursor(o) \/ (readBegun.since <= Reach /\ shop[o].updated >= Reach)
    BY <2>1 DEF Owed
  <2>3. o \in Orders /\ shop[o] \in Nodes /\ shop[o].rev # 0
    BY <2>2 DEF Matches, Placed, NoRev, ImportInv, StoreInv
  <2>4. PICK k \in BOOLEAN : k = (AfterCursor(o) /\ VariantOf[o] \in variants)
    <3>1. (AfterCursor(o) /\ VariantOf[o] \in variants) \in BOOLEAN
      BY Zenon
    <3> QED
      BY <3>1
  <2>5. e = [order |-> o, rev |-> shop[o].rev, live |-> shop[o].live,
             refunded |-> shop[o].refunded, known |-> k]
    BY <2>1, <2>4
  <2>6. /\ e.order = o /\ e.rev = shop[o].rev /\ e.refunded = shop[o].refunded
        /\ e.known = k
    BY <2>5
  <2>7. e \in OrderPromises /\ 0 < shop[o].rev
    BY <2>3, <2>5 DEF OrderPromises, Nodes
  <2>8. e.known => VariantOf[o] \in variants /\ AfterCursor(o)
    BY <2>4, <2>6
  <2> QED
    BY <2>2, <2>6, <2>7, <2>8
<1>7. PromiseInv'
  <2> USE DEF PromiseInv
  <2>1. CASE fresh
    <3>1. promised' = ListingOf(s) /\ shop' = shop /\ variants' = variants /\ DOMAIN nodes' = {}
      BY <1>1, <1>3, <2>1 DEF store, tables
    <3>2. ASSUME NEW e \in ListingOf(s) PROVE e.rev <= shop[e.order].rev /\ 0 < e.rev
      BY <1>6 DEF OrderPromises
    <3> QED
      BY <1>6, <3>1, <3>2
  <2>2. CASE ~fresh
    <3>1. /\ promised' = promised \cup ListingOfRest
          /\ shop' = shop /\ variants' = variants /\ DOMAIN nodes' = {}
      BY <1>1, <1>3, <2>2 DEF store, tables
    <3>2. ASSUME NEW e \in ListingOfRest PROVE e.rev <= shop[e.order].rev /\ 0 < e.rev
      BY <1>9 DEF OrderPromises
    <3>3. PromiseInv
      BY DEF ImportInv
    <3>4. ASSUME NEW e \in promised'
          PROVE  /\ e \in OrderPromises /\ 0 < e.rev /\ e.rev <= shop[e.order].rev
                 /\ e.refunded => shop[e.order].refunded
                 /\ e.known => VariantOf[e.order] \in variants
      <4>1. CASE e \in promised
        BY <3>3, <4>1
      <4>2. CASE e \in ListingOfRest
        BY <1>9, <3>2, <4>2
      <4> QED
        BY <3>1, <4>1, <4>2
    <3> QED
      BY <3>1, <3>4
  <2> QED
    BY <2>1, <2>2
<1>8. ArrivalInv'
  <2> SUFFICES ASSUME ~Careless, NEW e \in promised'
               PROVE  e.order \in removed' \/ Ahead(e)' \/ OrderArrived(e)'
    BY <1>1 DEF ArrivalInv, HandSteps
  <2>1. CASE fresh
    <3>1. e \in ListingOf(s)
      BY <1>1, <2>1
    <3>2. orderCursor = NullCursor
      BY <1>1, <2>1 DEF ImportInv, ResumedByRefresh
    <3>3. e.order \in Matches(s) /\ shop[e.order].rev > 0
      BY <1>6, <3>1 DEF OrderPromises
    <3>4. e.order \in Matches(search)'
      BY <1>1, <3>3 DEF Matches, Placed, store
    <3> QED
      BY <1>1, <3>2, <3>3, <3>4 DEF Ahead, NullCursor, store
  <2>2. CASE ~fresh
    <3>1. /\ e \in promised \cup ListingOfRest /\ orderCursor # NullCursor
          /\ importer = "refresh" /\ orderCursor' = orderCursor
      BY <1>1, <2>2 DEF ImportInv, HandInv, Runs
    <3>2. search' = Everything /\ shop' = shop /\ removed' = removed
      BY <1>1, <3>1 DEF s, RefreshSearch, store
    <3>3. ASSUME e.order \in Orders, shop[e.order].rev > orderCursor PROVE Ahead(e)'
      <4>1. shop[e.order] \in Nodes
        BY <3>3 DEF ImportInv, StoreInv
      <4>2. e.order \in Matches(Everything)
        BY <1>3, <3>3, <4>1 DEF Matches, Placed, Everything, NoRev, Nodes
      <4>3. Matches(Everything)' = Matches(Everything)
        BY <3>2 DEF Matches, Placed, Everything
      <4> QED
        BY <3>1, <3>2, <3>3, <4>2, <4>3 DEF Ahead
    <3>4. OrderArrived(e) => OrderArrived(e)'
      BY <1>1 DEF OrderArrived, tables
    <3>5. CASE e \in promised
      <4>1. e.order \in removed \/ Ahead(e) \/ OrderArrived(e)
        BY <3>1, <3>5 DEF ImportInv, ArrivalInv, Underway
      <4>2. e.order \in Orders
        BY <3>5 DEF ImportInv, PromiseInv, OrderPromises
      <4> QED
        BY <3>2, <3>3, <3>4, <4>1, <4>2 DEF Ahead
    <3>6. CASE e \in ListingOfRest
      <4> DEFINE o == e.order
      <4>1. o \in Orders /\ shop[o] \in Nodes /\ e.rev = shop[o].rev /\ 0 < shop[o].rev
            /\ e.refunded = shop[o].refunded
        BY <1>9, <3>6 DEF Matches, ImportInv, StoreInv
      <4>2. CASE AfterCursor(o)
        BY <3>3, <4>1, <4>2 DEF AfterCursor
      <4>3. CASE ~AfterCursor(o)
        <5>1. readBegun.since <= Reach /\ shop[o].updated >= Reach /\ ~e.known
          BY <1>9, <3>6, <4>3
        <5>2. PassedInv /\ Underway /\ Reach \in Nat
          BY <3>1, SearchReaches DEF ResumeInv, Underway
        <5>3. readBegun.since \in Nat
          BY <5>2 DEF PassedInv
        <5>4. Passed(o)
          BY <1>3, <4>1, <4>3, <5>1, <5>2, <5>3 DEF Passed, AfterCursor, Nodes
        <5>5. o \in removed \/ StoredAsIs(o)
          BY <4>1, <5>2, <5>4 DEF PassedInv
        <5>6. StoredAsIs(o) => OrderArrived(e)
          BY <4>1, <5>1 DEF StoredAsIs, OrderArrived
        <5> QED
          BY <3>2, <3>4, <5>5, <5>6
      <4> QED
        BY <4>2, <4>3
    <3> QED
      BY <3>1, <3>5, <3>6
  <2> QED
    BY <2>1, <2>2
<1> QED
  BY <1>4, <1>5, <1>7, <1>8 DEF ImportInv

(* A page holds the first nodes behind the cursor: what it leaves is newer  *)
(* than all it holds, and it is empty at the end alone.                     *)
LEMMA PageIsFirst ==
  ASSUME StoreInv, NEW s \in Searches, NEW c \in Nat
  PROVE  /\ \A o \in Behind(s, c) \ OrdersOnPage(s, c), q \in OrdersOnPage(s, c) :
              shop[q].rev < shop[o].rev
         /\ Behind(s, c) # {} => OrdersOnPage(s, c) # {}
<1> DEFINE Older(o) == {p \in Behind(s, c) : shop[p].rev < shop[o].rev}
<1>1. ASSUME NEW o \in Behind(s, c) PROVE o \in Orders /\ shop[o].rev \in Nat
  BY DEF Behind, Matches, StoreInv, Nodes
<1>2. ASSUME NEW o \in Behind(s, c)
      PROVE  IsFiniteSet(Older(o)) /\ Cardinality(Older(o)) \in Nat
  <2>1. Older(o) \in SUBSET Orders
    BY <1>1
  <2> HIDE DEF Older
  <2> QED
    BY <2>1, OrdersAssumption, FS_Subset, FS_CardinalityType
<1>3. \A o \in Behind(s, c) : o \in OrdersOnPage(s, c) <=> Cardinality(Older(o)) < OrdersPerPage
  BY DEF OrdersOnPage
<1>4. ASSUME NEW o \in Behind(s, c) \ OrdersOnPage(s, c), NEW q \in OrdersOnPage(s, c),
             ~(shop[q].rev < shop[o].rev)
      PROVE  FALSE
  <2>1. q \in Behind(s, c) /\ o \in Behind(s, c)
    BY DEF OrdersOnPage
  <2>2. shop[o].rev <= shop[q].rev /\ shop[o].rev \in Nat /\ shop[q].rev \in Nat
    BY <1>1, <1>4, <2>1
  <2>3. Older(o) \in SUBSET Older(q)
    BY <1>1, <2>2
  <2>4. Cardinality(Older(q)) < OrdersPerPage /\ ~(Cardinality(Older(o)) < OrdersPerPage)
    BY <1>3, <2>1
  <2>5. /\ Cardinality(Older(o)) \in Nat /\ Cardinality(Older(q)) \in Nat
        /\ Cardinality(Older(o)) <= Cardinality(Older(q))
    <3>1. IsFiniteSet(Older(q))
      BY <1>2, <2>1
    <3> HIDE DEF Older
    <3> QED
      BY <1>2, <2>1, <2>3, <3>1, FS_Subset
  <2> HIDE DEF Older
  <2> QED
    BY <2>4, <2>5, ShopBoundsAssumption
<1>5. ASSUME Behind(s, c) # {} PROVE OrdersOnPage(s, c) # {}
  <2> DEFINE S == {shop[o].rev : o \in Behind(s, c)}
  <2>1. S \in SUBSET Nat /\ S # {}
    BY <1>1, <1>5
  <2>2. PICK o \in Behind(s, c) : shop[o].rev = Min(S)
    BY <2>1, MinIsLeast
  <2>3. \A p \in Behind(s, c) : shop[o].rev <= shop[p].rev
    BY <2>1, <2>2, MinIsLeast
  <2>4. Older(o) = {}
    BY <1>1, <2>3
  <2>5. Cardinality(Older(o)) = 0
    BY <2>4, FS_EmptySet
  <2> HIDE DEF Older
  <2>6. Cardinality(Older(o)) < OrdersPerPage
    BY <2>5, ShopBoundsAssumption
  <2> QED
    BY <1>3, <2>6
<1> QED
  BY <1>4, <1>5

LEMMA ReadOrdersKeeps ==
  ASSUME ImportInv, ReadOrders
  PROVE  ImportInv'
<1> DEFINE os == OrdersOnPage(search, after)
<1>1. /\ UNCHANGED <<store, tables, orderCursor, importer, search, after, known, promised,
                     removed>>
      /\ shopStep = "reading" /\ nodes' = [o \in os |-> shop[o]]
      /\ nextCursor' = NextCursor(os)
      /\ shopStep' = IF os = {} THEN "advancing" ELSE "customers"
  BY DEF ReadOrders, history
<1>2. /\ StoreInv /\ TablesInv /\ HandInv /\ PromiseInv /\ ArrivalInv
      /\ search \in Searches /\ after = orderCursor /\ after \in Nat
  BY <1>1 DEF ImportInv, HandInv, OrderSteps
<1>3. /\ \A o \in Behind(search, after) \ os, q \in os : shop[q].rev < shop[o].rev
      /\ Behind(search, after) # {} => os # {}
  BY <1>2, PageIsFirst
<1>4. ASSUME NEW o \in os
      PROVE  /\ o \in Behind(search, after) /\ o \in Orders /\ o \in Matches(search)
             /\ shop[o].rev \in Nat /\ shop[o].rev > after /\ shop[o] \in Nodes
             /\ shop[o].rev <= edits
  BY <1>2 DEF OrdersOnPage, Behind, Matches, StoreInv, Nodes
<1>5. /\ nextCursor' \in Nat
      /\ \A o \in Behind(search, after) \ os :
           nextCursor' # NullCursor /\ shop[o].rev > nextCursor'
  <2>1. CASE os = Behind(search, after)
    BY <1>1, <2>1 DEF NextCursor, NullCursor
  <2>2. CASE os # Behind(search, after)
    <3> DEFINE S == {shop[o].rev : o \in os}
    <3>1. os # {}
      BY <1>3, <2>2 DEF OrdersOnPage
    <3>2. S \in SUBSET Nat /\ S # {} /\ edits \in Nat /\ \A x \in S : x <= edits
      BY <1>2, <1>4, <3>1 DEF StoreInv
    <3>3. PICK q \in os : shop[q].rev = Max(S)
      BY <3>2, MaxIsGreatest
    <3>4. nextCursor' = shop[q].rev
      BY <1>1, <2>2, <3>3 DEF NextCursor
    <3>5. shop[q].rev \in Nat /\ shop[q].rev > 0
      BY <1>2, <1>4
    <3>6. ASSUME NEW o \in Behind(search, after) \ os PROVE shop[o].rev > shop[q].rev
      <4>1. shop[o].rev \in Nat
        BY <1>2 DEF Behind, Matches, StoreInv, Nodes
      <4> QED
        BY <1>3, <3>5, <4>1
    <3> QED
      BY <3>4, <3>5, <3>6 DEF NullCursor
  <2> QED
    BY <2>1, <2>2
<1> HIDE DEF os
<1>6. DOMAIN nodes' = os /\ \A o \in os : nodes'[o] = shop[o]
  BY <1>1
<1>7. shop' = shop /\ orderRows' = orderRows /\ orderLines' = orderLines /\ promised' = promised
      /\ removed' = removed /\ Matches(search)' = Matches(search) /\ variants' = variants
      /\ orderCursor' = orderCursor /\ refunds' = refunds /\ firstOrder' = firstOrder
  BY <1>1 DEF store, tables, Matches, Placed
<1>8. StoreInv' /\ TablesInv'
  BY <1>1, <1>2 DEF StoreInv, TablesInv, store, tables
<1>9. HandInv'
  <2>1. ASSUME NEW o \in os
        PROVE  /\ orderRows[o].rev <= shop[o].rev /\ orderLines[o].rev <= shop[o].rev
               /\ shop[o].rev <= shop[o].rev
    BY <1>2, <1>4 DEF TablesInv
  <2> QED
    BY <1>1, <1>2, <1>4, <1>5, <1>6, <1>7, <2>1 DEF HandInv, Steps, HandSteps, OrderSteps
<1>10. StagesInv' /\ DatesInv' /\ ResumedByRefresh'
  BY <1>1, <1>6 DEF StagesInv, DatesInv, ResumedByRefresh
<1>11. PromiseInv'
  BY <1>2, <1>6, <1>7 DEF PromiseInv
<1>12. ArrivalInv'
  <2> SUFFICES ASSUME ~Careless, NEW e \in promised
               PROVE  /\ e.order \in removed \/ Ahead(e)' \/ OrderArrived(e)'
                      /\ e.order \in removed \cup os \/ BehindPage(e)' \/ OrderArrived(e)'
    BY <1>6, <1>7 DEF ArrivalInv
  <2>1. e.order \in removed \/ Ahead(e) \/ OrderArrived(e)
    BY <1>1, <1>2 DEF ArrivalInv, Underway, OrderSteps
  <2>2. OrderArrived(e) => OrderArrived(e)'
    BY <1>7 DEF OrderArrived
  <2>3. Ahead(e) => Ahead(e)'
    BY <1>1, <1>7 DEF Ahead, OrderSteps
  <2>4. Ahead(e) => e.order \in os \/ BehindPage(e)'
    <3>1. Ahead(e) => e.order \in Behind(search, after)
      BY <1>1, <1>2 DEF Ahead, Behind, OrderSteps
    <3> QED
      BY <1>5, <1>7, <3>1 DEF BehindPage, Behind
  <2> QED
    BY <2>1, <2>2, <2>3, <2>4
<1> QED
  BY <1>8, <1>9, <1>10, <1>11, <1>12 DEF ImportInv

(* A statement of persistOrderBatch: the orders that are not in hand stay   *)
(* as they are, apart from dates, and those in hand are ahead of the cursor.*)
LEMMA PageStepKeeps ==
  ASSUME ImportInv, shopStep \in HandSteps, shopStep' \in HandSteps,
         UNCHANGED <<store, variants, orderCursor, importer, search, after, nodes, nextCursor,
                     promised, removed>>,
         known' \in [Customers -> Nat], TablesInv', StagesInv', DatesInv',
         \A o \in DOMAIN nodes :
           orderRows'[o].rev <= nodes[o].rev /\ orderLines'[o].rev <= nodes[o].rev,
         ASSUME NEW e \in promised, e.order \notin DOMAIN nodes, OrderArrived(e)
         PROVE  OrderArrived(e)'
  PROVE  ImportInv'
<1>1. /\ shop' = shop /\ variants' = variants /\ nodes' = nodes /\ promised' = promised
      /\ search' = search /\ removed' = removed /\ orderCursor' = orderCursor
      /\ importer' = importer /\ after' = after /\ nextCursor' = nextCursor
      /\ Matches(search)' = Matches(search)
  BY DEF store, Matches, Placed
<1>2. StoreInv' /\ ResumedByRefresh' /\ PromiseInv'
  BY <1>1 DEF ImportInv, StoreInv, ResumedByRefresh, PromiseInv, store, HandSteps
<1>3. HandInv'
  BY <1>1 DEF ImportInv, HandInv, Steps, HandSteps, OrderSteps
<1>4. ArrivalInv'
  <2> SUFFICES ASSUME ~Careless, NEW e \in promised
               PROVE  /\ e.order \in removed \/ Ahead(e)' \/ OrderArrived(e)'
                      /\ \/ e.order \in removed \cup DOMAIN nodes
                         \/ BehindPage(e)' \/ OrderArrived(e)'
    BY <1>1 DEF ArrivalInv
  <2>1. /\ e.order \in removed \/ Ahead(e) \/ OrderArrived(e)
        /\ e.order \in removed \cup DOMAIN nodes \/ BehindPage(e) \/ OrderArrived(e)
    BY DEF ImportInv, ArrivalInv, Underway, OrderSteps
  <2>2. /\ Ahead(e) => Ahead(e)'
        /\ BehindPage(e) => BehindPage(e)'
    BY <1>1 DEF Ahead, BehindPage, OrderSteps
  <2>3. CASE e.order \in DOMAIN nodes
    <3>1. /\ nodes[e.order].rev \in Nat /\ shop[e.order].rev \in Nat /\ orderCursor \in Nat
          /\ nodes[e.order].rev > orderCursor /\ nodes[e.order].rev <= shop[e.order].rev
          /\ e.order \in Matches(search)
      BY <2>3 DEF ImportInv, HandInv, StoreInv, Nodes
    <3>2. Ahead(e)'
      BY <1>1, <3>1 DEF Ahead
    <3> QED
      BY <2>3, <3>2
  <2>4. CASE e.order \notin DOMAIN nodes
    <3>1. OrderArrived(e) => OrderArrived(e)'
      BY <2>4
    <3> QED
      BY <2>1, <2>2, <3>1
  <2> QED
    BY <2>3, <2>4
<1> QED
  BY <1>2, <1>3, <1>4 DEF ImportInv

LEMMA UpsertCustomersKeeps ==
  ASSUME ImportInv, UpsertCustomers
  PROVE  ImportInv'
<1>1. /\ shopStep = "customers" /\ shopStep' = "orders"
      /\ UNCHANGED <<store, variants, orderCursor, importer, search, after, nodes, nextCursor,
                     promised, removed>>
      /\ UNCHANGED <<orderRows, orderLines, refunds, firstOrder>>
      /\ known' = [c \in Customers |->
                     IF c \in CustomersOf(DOMAIN nodes) THEN firstOrder[c] ELSE NoDate]
  BY DEF UpsertCustomers, tables, history
<1>2. TablesInv /\ HandInv
  BY DEF ImportInv
<1>3. known' \in [Customers -> Nat]
  BY <1>1, <1>2 DEF TablesInv, NoDate
<1>4. TablesInv' /\ StagesInv'
  BY <1>1, <1>2 DEF TablesInv, StagesInv, store
<1>5. DatesInv'
  <2> SUFFICES ASSUME NEW c \in Customers, LiveOnPage(c)' # {}
               PROVE  firstOrder'[c] = known'[c]
    BY DEF DatesInv
  <2>1. c \in CustomersOf(DOMAIN nodes)
    BY <1>1 DEF LiveOnPage, CustomersOf
  <2> QED
    BY <1>1, <2>1
<1>6. \A o \in DOMAIN nodes :
        orderRows'[o].rev <= nodes[o].rev /\ orderLines'[o].rev <= nodes[o].rev
  BY <1>1, <1>2 DEF HandInv
<1>7. ASSUME NEW e \in promised, OrderArrived(e) PROVE OrderArrived(e)'
  BY <1>1, <1>7 DEF OrderArrived
<1>8. shopStep \in HandSteps /\ shopStep' \in HandSteps
  BY <1>1 DEF HandSteps
<1> QED
  BY <1>1, <1>3, <1>4, <1>5, <1>6, <1>7, <1>8, PageStepKeeps

LEMMA WriteOrdersKeeps ==
  ASSUME ImportInv, WriteOrders
  PROVE  ImportInv'
<1>1. /\ shopStep = "orders" /\ shopStep' = "lines"
      /\ UNCHANGED <<store, variants, orderCursor, importer, search, after, nodes, nextCursor,
                     promised, removed>>
      /\ UNCHANGED <<orderLines, refunds, firstOrder, known>>
      /\ orderRows' = [o \in Orders |->
           IF o \in DOMAIN nodes THEN [rev |-> nodes[o].rev, live |-> nodes[o].live]
           ELSE orderRows[o]]
  BY DEF WriteOrders, writing, history
<1>2. TablesInv /\ HandInv /\ StoreInv /\ PromiseInv
  BY DEF ImportInv
<1>3. ASSUME NEW o \in DOMAIN nodes
      PROVE  /\ o \in Orders /\ orderRows'[o] = [rev |-> nodes[o].rev, live |-> nodes[o].live]
             /\ orderRows'[o].rev = nodes[o].rev /\ nodes[o] \in Nodes /\ nodes[o].rev <= nodes[o].rev
             /\ nodes[o].rev <= shop[o].rev
             /\ [rev |-> nodes[o].rev, live |-> nodes[o].live] \in [rev : Nat, live : BOOLEAN]
  BY <1>1, <1>2 DEF HandInv, Nodes
<1>4. \A o \in Orders \ DOMAIN nodes : orderRows'[o] = orderRows[o]
  BY <1>1
<1>5. TablesInv'
  <2>1. orderRows' \in [Orders -> [rev : Nat, live : BOOLEAN]]
    BY <1>1, <1>2, <1>3 DEF TablesInv
  <2>2. \A o \in Orders : orderRows'[o].rev <= shop[o].rev
    BY <1>2, <1>3, <1>4 DEF TablesInv
  <2> QED
    BY <1>1, <1>2, <2>1, <2>2 DEF TablesInv, store
<1>6. StagesInv'
  BY <1>1, <1>3 DEF StagesInv
<1>7. DatesInv'
  BY <1>1 DEF ImportInv, DatesInv, LiveOnPage, EarliestOf
<1>8. \A o \in DOMAIN nodes :
        orderRows'[o].rev <= nodes[o].rev /\ orderLines'[o].rev <= nodes[o].rev
  BY <1>1, <1>2, <1>3 DEF HandInv
<1>9. ASSUME NEW e \in promised, e.order \notin DOMAIN nodes, OrderArrived(e)
      PROVE  OrderArrived(e)'
  <2>1. orderRows'[e.order] = orderRows[e.order]
    BY <1>2, <1>4, <1>9 DEF PromiseInv, OrderPromises
  <2> QED
    BY <1>1, <1>9, <2>1 DEF OrderArrived
<1>10. shopStep \in HandSteps /\ shopStep' \in HandSteps /\ known' \in [Customers -> Nat]
  BY <1>1, <1>2 DEF HandSteps, HandInv
<1> QED
  BY <1>1, <1>5, <1>6, <1>7, <1>8, <1>9, <1>10, PageStepKeeps

LEMMA WriteOrderLinesKeeps ==
  ASSUME ImportInv, WriteOrderLines
  PROVE  ImportInv'
<1>1. /\ shopStep = "lines" /\ shopStep' = "refunds"
      /\ UNCHANGED <<store, variants, orderCursor, importer, search, after, nodes, nextCursor,
                     promised, removed>>
      /\ UNCHANGED <<orderRows, refunds, firstOrder, known>>
      /\ orderLines' = [o \in Orders |->
           IF o \in DOMAIN nodes THEN [rev |-> nodes[o].rev, known |-> VariantOf[o] \in variants]
           ELSE orderLines[o]]
  BY DEF WriteOrderLines, writing, history
<1>2. TablesInv /\ HandInv /\ StoreInv /\ PromiseInv /\ StagesInv
  BY DEF ImportInv
<1>3. ASSUME NEW o \in DOMAIN nodes
      PROVE  /\ o \in Orders
             /\ orderLines'[o] = [rev |-> nodes[o].rev, known |-> VariantOf[o] \in variants]
             /\ orderLines'[o].rev = nodes[o].rev
             /\ nodes[o].rev \in Nat /\ nodes[o].rev <= nodes[o].rev /\ nodes[o].rev <= shop[o].rev
  BY <1>1, <1>2 DEF HandInv, Nodes
<1>4. \A o \in Orders \ DOMAIN nodes : orderLines'[o] = orderLines[o]
  BY <1>1
<1>5. TablesInv'
  <2>1. ASSUME NEW o \in DOMAIN nodes
        PROVE  [rev |-> nodes[o].rev, known |-> VariantOf[o] \in variants]
                 \in [rev : Nat, known : BOOLEAN]
    <3>1. CASE VariantOf[o] \in variants
      <4>1. (VariantOf[o] \in variants) = TRUE
        BY <3>1
      <4> QED
        BY <1>3, <4>1
    <3>2. CASE VariantOf[o] \notin variants
      <4>1. (VariantOf[o] \in variants) = FALSE
        BY <3>2
      <4> QED
        BY <1>3, <4>1
    <3> QED
      BY <3>1, <3>2
  <2>2. orderLines' \in [Orders -> [rev : Nat, known : BOOLEAN]]
    BY <1>1, <1>2, <2>1 DEF TablesInv
  <2>3. \A o \in Orders : orderLines'[o].rev <= shop[o].rev
    BY <1>2, <1>3, <1>4 DEF TablesInv
  <2> QED
    BY <1>1, <1>2, <2>2, <2>3 DEF TablesInv, store
<1>6. StagesInv'
  BY <1>1, <1>2, <1>3 DEF StagesInv
<1>7. DatesInv'
  BY <1>1 DEF ImportInv, DatesInv, LiveOnPage, EarliestOf
<1>8. \A o \in DOMAIN nodes :
        orderRows'[o].rev <= nodes[o].rev /\ orderLines'[o].rev <= nodes[o].rev
  BY <1>1, <1>2, <1>3 DEF HandInv
<1>9. ASSUME NEW e \in promised, e.order \notin DOMAIN nodes, OrderArrived(e)
      PROVE  OrderArrived(e)'
  <2>1. orderLines'[e.order] = orderLines[e.order]
    BY <1>2, <1>4, <1>9 DEF PromiseInv, OrderPromises
  <2> QED
    BY <1>1, <1>9, <2>1 DEF OrderArrived
<1>10. shopStep \in HandSteps /\ shopStep' \in HandSteps /\ known' \in [Customers -> Nat]
  BY <1>1, <1>2 DEF HandSteps, HandInv
<1> QED
  BY <1>1, <1>5, <1>6, <1>7, <1>8, <1>9, <1>10, PageStepKeeps

LEMMA WriteRefundsKeeps ==
  ASSUME ImportInv, WriteRefunds
  PROVE  ImportInv'
<1>1. /\ shopStep = "refunds" /\ shopStep' = "dates"
      /\ UNCHANGED <<store, variants, orderCursor, importer, search, after, nodes, nextCursor,
                     promised, removed>>
      /\ UNCHANGED <<orderRows, orderLines, firstOrder, known>>
      /\ refunds' = refunds \cup {o \in DOMAIN nodes : nodes[o].refunded}
  BY DEF WriteRefunds, writing, history
<1>2. TablesInv /\ HandInv /\ StagesInv
  BY DEF ImportInv
<1>3. TablesInv' /\ StagesInv'
  BY <1>1, <1>2 DEF TablesInv, StagesInv, store
<1>4. DatesInv'
  BY <1>1 DEF ImportInv, DatesInv, LiveOnPage, EarliestOf
<1>5. \A o \in DOMAIN nodes :
        orderRows'[o].rev <= nodes[o].rev /\ orderLines'[o].rev <= nodes[o].rev
  BY <1>1, <1>2 DEF HandInv
<1>6. ASSUME NEW e \in promised, OrderArrived(e) PROVE OrderArrived(e)'
  BY <1>1, <1>6 DEF OrderArrived
<1>7. shopStep \in HandSteps /\ shopStep' \in HandSteps /\ known' \in [Customers -> Nat]
  BY <1>1, <1>2 DEF HandSteps, HandInv
<1> QED
  BY <1>1, <1>3, <1>4, <1>5, <1>6, <1>7, PageStepKeeps

(* A date that is written is earlier than the one on record.                *)
LEMMA DateMovesBack ==
  ASSUME ImportInv, NEW c \in Customers, WriteDate(c)
  PROVE  /\ firstOrder' = [firstOrder EXCEPT ![c] = EarliestOf(c)]
         /\ EarliestOf(c) \in Nat /\ EarliestOf(c) > 0 /\ firstOrder[c] \in Nat
         /\ firstOrder[c] = NoDate \/ EarliestOf(c) < firstOrder[c]
<1>1. /\ shopStep = "dates" /\ LiveOnPage(c) # {} /\ firstOrder[c] # EarliestOf(c)
      /\ known[c] = NoDate \/ EarliestOf(c) < known[c]
      /\ firstOrder' = [firstOrder EXCEPT ![c] = EarliestOf(c)]
  BY DEF WriteDate, Earlier
<1>2. firstOrder[c] = known[c] /\ firstOrder[c] \in Nat
  BY <1>1 DEF ImportInv, DatesInv, TablesInv
<1>3. EarliestOf(c) \in Nat /\ EarliestOf(c) > 0
  BY <1>1, EarliestIsOnPage DEF ImportInv
<1> QED
  BY <1>1, <1>2, <1>3

LEMMA WriteDateKeeps ==
  ASSUME ImportInv, NEW c \in Customers, WriteDate(c)
  PROVE  ImportInv'
<1>1. /\ shopStep = "dates" /\ shopStep' = "dates"
      /\ UNCHANGED <<store, variants, orderCursor, importer, search, after, nodes, nextCursor,
                     promised, removed>>
      /\ UNCHANGED <<orderRows, orderLines, refunds, known>>
  BY DEF WriteDate, sync, history
<1>2. TablesInv /\ HandInv /\ StagesInv /\ DatesInv /\ PromiseInv
  BY DEF ImportInv
<1>3. /\ firstOrder' = [firstOrder EXCEPT ![c] = EarliestOf(c)]
      /\ EarliestOf(c) \in Nat /\ EarliestOf(c) > 0 /\ firstOrder[c] \in Nat
      /\ firstOrder[c] = NoDate \/ EarliestOf(c) < firstOrder[c]
  BY DateMovesBack
<1>4. /\ firstOrder' \in [Customers -> Nat] /\ firstOrder'[c] = EarliestOf(c)
      /\ \A d \in Customers \ {c} : firstOrder'[d] = firstOrder[d]
  BY <1>2, <1>3 DEF TablesInv
<1>5. TablesInv' /\ StagesInv'
  BY <1>1, <1>2, <1>4 DEF TablesInv, StagesInv, store
<1>6. DatesInv'
  <2>1. ASSUME NEW d \in Customers
        PROVE  LiveOnPage(d)' = LiveOnPage(d) /\ EarliestOf(d)' = EarliestOf(d)
    BY <1>1 DEF LiveOnPage, EarliestOf
  <2> QED
    BY <1>1, <1>2, <1>4, <2>1 DEF DatesInv
<1>7. \A o \in DOMAIN nodes :
        orderRows'[o].rev <= nodes[o].rev /\ orderLines'[o].rev <= nodes[o].rev
  BY <1>1, <1>2 DEF HandInv
<1>8. ASSUME NEW e \in promised, OrderArrived(e) PROVE OrderArrived(e)'
  <2>1. e.order \in Orders /\ CustomerOf[e.order] \in Customers /\ OrderedAt[e.order] \in Nat
    BY <1>2, CustomersAreOf, OrdersAssumption DEF PromiseInv, OrderPromises
  <2>2. firstOrder[CustomerOf[e.order]] \in 1..OrderedAt[e.order] =>
          firstOrder'[CustomerOf[e.order]] \in 1..OrderedAt[e.order]
    BY <1>3, <1>4, <2>1 DEF NoDate
  <2> QED
    BY <1>1, <1>8, <2>2 DEF OrderArrived
<1>9. shopStep \in HandSteps /\ shopStep' \in HandSteps /\ known' \in [Customers -> Nat]
  BY <1>1, <1>2 DEF HandSteps, HandInv
<1> QED
  BY <1>1, <1>5, <1>6, <1>7, <1>8, <1>9, PageStepKeeps

LEMMA DatesWrittenKeeps ==
  ASSUME ImportInv, DatesWritten
  PROVE  ImportInv'
<1>1. /\ shopStep = "dates" /\ shopStep' = "advancing"
      /\ UNCHANGED <<store, variants, orderCursor, importer, search, after, nodes, nextCursor,
                     promised, removed>>
      /\ UNCHANGED <<orderRows, orderLines, refunds, firstOrder, known>>
      /\ \A c \in Customers : Earlier(c) => firstOrder[c] = EarliestOf(c)
  BY DEF DatesWritten, tables, history
<1>2. TablesInv /\ HandInv /\ StagesInv /\ DatesInv
  BY DEF ImportInv
<1>3. ASSUME NEW o \in DOMAIN nodes, nodes[o].live
      PROVE  firstOrder[CustomerOf[o]] \in 1..OrderedAt[o]
  <2> DEFINE c == CustomerOf[o]
  <2>1. o \in Orders /\ c \in Customers /\ o \in LiveOnPage(c) /\ OrderedAt[o] \in Nat
    BY <1>2, <1>3, CustomersAreOf, OrdersAssumption DEF HandInv, LiveOnPage
  <2>2. EarliestOf(c) \in Nat /\ EarliestOf(c) > 0 /\ EarliestOf(c) <= OrderedAt[o]
    BY <1>2, <2>1, EarliestIsOnPage
  <2>3. firstOrder[c] \in {known[c], EarliestOf(c)} /\ known[c] \in Nat
    BY <1>1, <1>2, <2>1 DEF DatesInv, HandInv
  <2>4. ~Earlier(c) => known[c] # NoDate /\ ~(EarliestOf(c) < known[c])
    BY <2>1 DEF Earlier
  <2>5. Earlier(c) => firstOrder[c] = EarliestOf(c)
    BY <1>1, <2>1
  <2> QED
    BY <2>1, <2>2, <2>3, <2>4, <2>5 DEF NoDate
<1>4. TablesInv' /\ StagesInv' /\ DatesInv'
  BY <1>1, <1>2, <1>3 DEF TablesInv, StagesInv, DatesInv, store
<1>5. \A o \in DOMAIN nodes :
        orderRows'[o].rev <= nodes[o].rev /\ orderLines'[o].rev <= nodes[o].rev
  BY <1>1, <1>2 DEF HandInv
<1>6. ASSUME NEW e \in promised, OrderArrived(e) PROVE OrderArrived(e)'
  BY <1>1, <1>6 DEF OrderArrived
<1>7. shopStep \in HandSteps /\ shopStep' \in HandSteps /\ known' \in [Customers -> Nat]
  BY <1>1, <1>2 DEF HandSteps, HandInv
<1> QED
  BY <1>1, <1>4, <1>5, <1>6, <1>7, PageStepKeeps

(* At the end of a page what it holds has arrived.                          *)
LEMMA HandArrives ==
  ASSUME ImportInv, shopStep = "advancing", NEW e \in promised, e.order \in DOMAIN nodes
  PROVE  OrderArrived(e)
<1> DEFINE o == e.order
<1>1. /\ e.rev <= nodes[o].rev /\ (e.refunded => nodes[o].refunded)
      /\ e.known => VariantOf[o] \in variants
  BY DEF ImportInv, PromiseInv
<1>2. /\ orderRows[o] = [rev |-> nodes[o].rev, live |-> nodes[o].live]
      /\ orderLines[o] = [rev |-> nodes[o].rev, known |-> VariantOf[o] \in variants]
      /\ nodes[o].refunded => o \in refunds
      /\ nodes[o].live => firstOrder[CustomerOf[o]] \in 1..OrderedAt[o]
  BY DEF ImportInv, StagesInv
<1>3. /\ orderRows[o].rev = nodes[o].rev /\ orderRows[o].live = nodes[o].live
      /\ orderLines[o].rev = nodes[o].rev
  BY <1>2
<1>4. ASSUME VariantOf[o] \in variants PROVE orderLines[o].known
  <2>1. (VariantOf[o] \in variants) = TRUE
    BY <1>4
  <2>2. orderLines[o] = [rev |-> nodes[o].rev, known |-> TRUE]
    BY <1>2, <2>1
  <2> QED
    BY <2>2
<1>5. e.rev \in Nat /\ nodes[o].rev \in Nat
  BY DEF ImportInv, PromiseInv, OrderPromises, HandInv, Nodes
<1> QED
  BY <1>1, <1>2, <1>3, <1>4, <1>5 DEF OrderArrived

LEMMA AdvanceOrdersKeeps ==
  ASSUME ImportInv, AdvanceOrders
  PROVE  ImportInv'
<1>1. /\ shopStep = "advancing" /\ orderCursor' = nextCursor
      /\ UNCHANGED <<store, tables, removed>> /\ DropNodes
      /\ \/ /\ nextCursor = NullCursor /\ promised' = {} /\ search' = Everything
            /\ shopStep' \in {"payouts", "idle"} /\ importer' \in {importer, "refresh"}
         \/ /\ nextCursor # NullCursor /\ shopStep' = "reading" /\ after' = nextCursor
            /\ UNCHANGED <<importer, search, promised>>
  BY DEF AdvanceOrders, Complete, LeaveOrders, ShopifyIdle
<1>2. TablesInv /\ HandInv /\ StoreInv /\ PromiseInv
  BY DEF ImportInv
<1>3. StoreInv' /\ TablesInv'
  BY <1>1, <1>2 DEF StoreInv, TablesInv, store, tables
<1>4. DOMAIN nodes' = {} /\ nextCursor' = NullCursor /\ known' \in [Customers -> Nat]
  BY <1>1 DEF DropNodes, Nowhere, NoDate
<1>5. HandInv' /\ StagesInv' /\ DatesInv' /\ ResumedByRefresh'
  BY <1>1, <1>2, <1>4 DEF HandInv, StagesInv, DatesInv, ResumedByRefresh, HandSteps, OrderSteps,
                          Steps, Runs, Searches, Everything, NullCursor
<1>6. PromiseInv'
  BY <1>1, <1>2, <1>4 DEF PromiseInv, store, tables
<1>7. ArrivalInv'
  <2> SUFFICES ASSUME ~Careless, NEW e \in promised'
               PROVE  e.order \in removed \/ Ahead(e)' \/ OrderArrived(e)'
    BY <1>1 DEF ArrivalInv, HandSteps
  <2>1. e \in promised /\ nextCursor # NullCursor /\ UNCHANGED <<search, promised>>
    BY <1>1
  <2>2. OrderArrived(e) => OrderArrived(e)'
    BY <1>1 DEF OrderArrived, tables
  <2>3. BehindPage(e) => Ahead(e)'
    BY <1>1, <2>1 DEF BehindPage, Ahead, Matches, Placed, store
  <2>4. e.order \in removed \cup DOMAIN nodes \/ BehindPage(e) \/ OrderArrived(e)
    BY <1>1, <2>1 DEF ImportInv, ArrivalInv, HandSteps
  <2>5. e.order \in DOMAIN nodes => OrderArrived(e)
    BY <1>1, <2>1, HandArrives
  <2> QED
    BY <2>2, <2>3, <2>4, <2>5
<1> QED
  BY <1>3, <1>5, <1>6, <1>7 DEF ImportInv

(* What the deletion leaves a customer as the first date is not later than  *)
(* the live orders that are left.                                           *)
LEMMA RebasedIsEarliest ==
  ASSUME ImportInv, NEW gone, NEW c \in Customers
  PROVE  /\ Rebased(c, gone) \in Nat
         /\ \A o \in Surviving(gone) :
              CustomerOf[o] = c /\ orderRows[o].live => Rebased(c, gone) \in 1..OrderedAt[o]
<1> DEFINE mine == {o \in Surviving(gone) : CustomerOf[o] = c}
           live == {o \in mine : orderRows[o].live}
           S == {OrderedAt[o] : o \in live}
<1>1. S \in SUBSET Nat /\ S \subseteq Nat \ {0} /\ firstOrder[c] \in Nat
  BY OrdersAssumption DEF Surviving, ImportInv, TablesInv
<1>2. live # {} => S # {}
  OBVIOUS
<1>3. Rebased(c, gone) = IF mine = {} THEN NoDate
                         ELSE IF live = {} THEN firstOrder[c] ELSE Min(S)
  BY DEF Rebased
<1>4. CASE live = {}
  <2>1. Rebased(c, gone) \in Nat
    BY <1>1, <1>3, <1>4 DEF NoDate
  <2> QED
    BY <1>4, <2>1
<1>5. CASE live # {}
  <2>1. Rebased(c, gone) = Min(S)
    BY <1>3, <1>5
  <2>2. Min(S) \in S /\ \A x \in S : Min(S) <= x
    BY <1>1, <1>2, <1>5, MinIsLeast
  <2>3. Min(S) \in Nat /\ Min(S) >= 1
    BY <1>1, <2>2
  <2>4. ASSUME NEW o \in live PROVE Min(S) \in 1..OrderedAt[o]
    <3>1. OrderedAt[o] \in S
      OBVIOUS
    <3>2. OrderedAt[o] \in Nat /\ Min(S) <= OrderedAt[o]
      BY <1>1, <2>2, <3>1
    <3> QED
      BY <2>3, <3>2
  <2> QED
    BY <2>1, <2>3, <2>4
<1> QED
  BY <1>4, <1>5

(* delete-orders-before.mjs finds nothing in hand; what it leaves keeps a   *)
(* first date that is not later.                                            *)
LEMMA DeleteKeeps ==
  ASSUME ImportInv, NEW cutoff \in Nat, DeleteOrdersBefore(cutoff)
  PROVE  ImportInv'
<1> DEFINE gone == {o \in Orders : orderRows[o].rev # NoRev /\ OrderedAt[o] < cutoff}
<1>1. /\ UNCHANGED <<store, variants, orderCursor, sync, promised>> /\ shopStep = "idle"
      /\ orderRows' = [o \in Orders |->
           IF o \in gone THEN [rev |-> NoRev, live |-> FALSE] ELSE orderRows[o]]
      /\ orderLines' = [o \in Orders |->
           IF o \in gone THEN [rev |-> NoRev, known |-> FALSE] ELSE orderLines[o]]
      /\ refunds' = refunds \ gone
      /\ firstOrder' = [c \in Customers |-> Rebased(c, gone)]
      /\ removed' = removed \cup gone
  BY DEF DeleteOrdersBefore
<1> HIDE DEF gone
<1>2. TablesInv /\ HandInv /\ StoreInv /\ PromiseInv /\ DOMAIN nodes = {}
  BY <1>1 DEF ImportInv, HandInv, HandSteps
<1>3. UNCHANGED <<shop, edits, shopDay, variants, orderCursor, shopStep, importer, search, after,
                  nodes, nextCursor, known, promised>>
  BY <1>1 DEF store, sync
<1>4. ASSUME NEW c \in Customers
      PROVE  /\ Rebased(c, gone) \in Nat
             /\ \A o \in Surviving(gone) :
                  CustomerOf[o] = c /\ orderRows[o].live => Rebased(c, gone) \in 1..OrderedAt[o]
  BY RebasedIsEarliest
<1>5. StoreInv' /\ StagesInv' /\ DatesInv' /\ ResumedByRefresh' /\ PromiseInv'
  BY <1>1, <1>2, <1>3 DEF ImportInv, StoreInv, StagesInv, DatesInv, ResumedByRefresh, PromiseInv
<1>6. TablesInv'
  <2>1. firstOrder' \in [Customers -> Nat]
    BY <1>1, <1>4
  <2>2. /\ orderRows' \in [Orders -> [rev : Nat, live : BOOLEAN]]
        /\ orderLines' \in [Orders -> [rev : Nat, known : BOOLEAN]]
    BY <1>1, <1>2 DEF TablesInv, NoRev
  <2>3. ASSUME NEW o \in Orders
        PROVE  orderRows'[o].rev <= shop[o].rev /\ orderLines'[o].rev <= shop[o].rev
    <3>1. shop[o].rev \in Nat
      BY <1>2 DEF StoreInv, Nodes
    <3>2. CASE o \in gone
      <4>1. orderRows'[o].rev = 0 /\ orderLines'[o].rev = 0
        BY <1>1, <3>2 DEF NoRev
      <4> QED
        BY <3>1, <4>1
    <3>3. CASE o \notin gone
      BY <1>1, <1>2, <3>3 DEF TablesInv
    <3> QED
      BY <3>2, <3>3
  <2> QED
    BY <1>3, <2>1, <2>2, <2>3 DEF TablesInv
<1>7. HandInv'
  BY <1>2, <1>3 DEF HandInv
<1>8. ArrivalInv'
  <2> SUFFICES ASSUME ~Careless, NEW e \in promised, Underway
               PROVE  e.order \in removed' \/ Ahead(e)' \/ OrderArrived(e)'
    BY <1>1, <1>3 DEF ArrivalInv, Underway, HandSteps
  <2>1. e.order \in removed \/ Ahead(e) \/ OrderArrived(e)
    BY DEF ImportInv, ArrivalInv
  <2>2. Ahead(e) => Ahead(e)'
    BY <1>1, <1>3 DEF Ahead, OrderSteps, HandSteps
  <2>3. ASSUME OrderArrived(e), e.order \notin gone PROVE OrderArrived(e)'
    <3> DEFINE o == e.order
    <3>1. o \in Orders /\ CustomerOf[o] \in Customers /\ e.rev > 0 /\ e.rev \in Nat
      BY <1>2, CustomersAreOf DEF PromiseInv, OrderPromises
    <3>2. orderRows'[o] = orderRows[o] /\ orderLines'[o] = orderLines[o]
          /\ (o \in refunds => o \in refunds')
      BY <1>1, <2>3, <3>1
    <3>3. orderRows[o].rev \in Nat /\ orderRows[o].rev >= e.rev
      BY <1>2, <2>3, <3>1 DEF TablesInv, OrderArrived
    <3>4. o \in Surviving(gone)
      BY <2>3, <3>1, <3>3 DEF Surviving, NoRev
    <3>5. orderRows[o].live => firstOrder'[CustomerOf[o]] \in 1..OrderedAt[o]
      BY <1>1, <1>4, <3>1, <3>4
    <3> QED
      BY <2>3, <3>2, <3>5 DEF OrderArrived
  <2> QED
    BY <1>1, <2>1, <2>2, <2>3
<1> QED
  BY <1>5, <1>6, <1>7, <1>8 DEF ImportInv

LEMMA ImportStep ==
  ASSUME ImportInv, ResumeInv, [ShopNext]_shopVars
  PROVE  ImportInv'
<1>1. ASSUME NEW o \in Orders, Place(o) \/ Refund(o) \/ Cancel(o) PROVE ImportInv'
  <2>1. /\ shopDay \in Nat /\ shop[o].placed \in Nat /\ shop[o].live \in BOOLEAN
        /\ shop[o].refunded \in BOOLEAN
    BY DEF ImportInv, StoreInv, Nodes
  <2>2. CASE Place(o)
    <3>1. ~Placed(o) /\ ChangeOrder(o, shopDay, o \notin TestOrders, FALSE)
      BY <2>2 DEF Place
    <3>2. PICK live \in BOOLEAN : live = (o \notin TestOrders)
      OBVIOUS
    <3>3. ChangeOrder(o, shopDay, live, FALSE)
      BY <3>1, <3>2
    <3> QED
      BY <2>1, <3>1, <3>3, ChangeKeeps
  <2>3. CASE Refund(o)
    BY <2>1, <2>3, ChangeKeeps DEF Refund
  <2>4. CASE Cancel(o)
    BY <2>1, <2>4, ChangeKeeps DEF Cancel
  <2> QED
    BY <1>1, <2>2, <2>3, <2>4
<1>2. CASE ShopDayPasses
  BY <1>2, ShopDayKeeps
<1>3. CASE ImportShopify
  <2>1. ASSUME NEW c \in Customers, WriteDate(c) PROVE ImportInv'
    BY <2>1, WriteDateKeeps
  <2> QED
    BY <1>3, <2>1, BetweenOrders, BeginOrdersKeeps, ReadOrdersKeeps, UpsertCustomersKeeps,
       WriteOrdersKeeps, WriteOrderLinesKeeps, WriteRefundsKeeps, DatesWrittenKeeps,
       AdvanceOrdersKeeps DEF ImportShopify
<1>4. CASE BeginBackfill \/ ShopifySyncFails \/ ShopifyCrashes
  BY <1>4, BetweenOrders
<1>5. ASSUME NEW o \in Orders, DeleteOrdersBefore(OrderedAt[o] + 1) PROVE ImportInv'
  <2>1. OrderedAt[o] + 1 \in Nat
    BY OrdersAssumption
  <2> QED
    BY <1>5, <2>1, DeleteKeeps
<1>6. CASE UNCHANGED shopVars
  <2>1. UNCHANGED <<shop, edits, shopDay, variants, orderRows, orderLines, refunds, firstOrder,
                    orderCursor, shopStep, importer, search, after, nodes, nextCursor, known,
                    promised, removed>>
    BY <1>6 DEF shopVars, store, tables, sync, history
  <2>2. StoreInv' /\ TablesInv' /\ StagesInv' /\ DatesInv' /\ ResumedByRefresh' /\ PromiseInv'
    BY <2>1 DEF ImportInv, StoreInv, TablesInv, StagesInv, DatesInv, ResumedByRefresh,
                PromiseInv, LiveOnPage, EarliestOf
  <2>3. HandInv'
    BY <2>1 DEF ImportInv, HandInv, Matches, Placed
  <2>4. ArrivalInv'
    BY <2>1 DEF ImportInv, ArrivalInv, Underway, Ahead, BehindPage, OrderArrived, Matches, Placed
  <2> QED
    BY <2>2, <2>3, <2>4 DEF ImportInv
<1> QED
  BY <1>1, <1>2, <1>3, <1>4, <1>5, <1>6 DEF ShopNext

LEMMA QuietKeepsPassed ==
  ASSUME ImportInv, PassedInv,
         UNCHANGED <<shop, edits, orderCursor, readBegun>>,
         removed \subseteq removed',
         Underway' => Underway,
         shopStep' \in OrderSteps => shopStep \in OrderSteps /\ search' = search,
         shopStep' \in HandSteps => /\ shopStep \in HandSteps
                                   /\ nodes' = nodes /\ nextCursor' = nextCursor,
         \A o \in Orders \ removed' : Passed(o) /\ StoredAsIs(o) => StoredAsIs(o)'
  PROVE  PassedInv'
<1>1. ASSUME Underway'
      PROVE  /\ readBegun'.since \in Nat /\ orderCursor' <= edits'
             /\ \A o \in Orders \ removed' : Passed(o)' => StoredAsIs(o)'
  <2>1. /\ readBegun.since \in Nat /\ orderCursor <= edits
        /\ \A o \in Orders \ removed : Passed(o) => StoredAsIs(o)
    BY <1>1 DEF PassedInv
  <2>2. \A o \in Orders : Passed(o)' = Passed(o)
    BY DEF Passed
  <2> QED
    BY <2>1, <2>2
<1>2. shopStep' \in OrderSteps => ListsItsDays'
  BY DEF PassedInv, ListsItsDays
<1>3. ASSUME shopStep' \in HandSteps
      PROVE  /\ nextCursor' <= edits'
             /\ \A o \in Orders : OnPage(o)' => o \in DOMAIN nodes' /\ nodes'[o] = shop'[o]
  <2>1. \A o \in Orders : OnPage(o)' = OnPage(o)
    BY <1>3 DEF OnPage, Matches, Placed, OrderSteps
  <2> QED
    BY <1>3, <2>1 DEF PassedInv
<1> QED
  BY <1>1, <1>2, <1>3 DEF PassedInv

(* What changes goes to the end of the listing, behind every cursor.        *)
LEMMA ChangeKeepsPassed ==
  ASSUME ImportInv, PassedInv, NEW o \in Orders, NEW at, NEW live, NEW back,
         ChangeOrder(o, at, live, back)
  PROVE  PassedInv'
<1>1. /\ edits' = edits + 1
      /\ shop' = [shop EXCEPT ![o] = [rev |-> edits + 1, placed |-> at, updated |-> shopDay,
                                      live |-> live, refunded |-> back]]
      /\ UNCHANGED <<orderRows, orderLines, refunds, firstOrder, orderCursor, shopStep, search,
                     nodes, nextCursor, readBegun, removed>>
  BY DEF ChangeOrder, tables, sync, history
<1>2. edits \in Nat /\ shop \in [Orders -> Nodes] /\ orderCursor \in Nat /\ nextCursor \in Nat
  BY DEF ImportInv, StoreInv, HandInv
<1>3. shop'[o].rev = edits + 1 /\ \A p \in Orders \ {o} : shop'[p] = shop[p]
  BY <1>1, <1>2
<1>4. ASSUME Underway'
      PROVE  /\ readBegun'.since \in Nat /\ orderCursor' <= edits'
             /\ \A p \in Orders \ removed' : Passed(p)' => StoredAsIs(p)'
  <2>1. /\ readBegun.since \in Nat /\ orderCursor <= edits
        /\ \A p \in Orders \ removed : Passed(p) => StoredAsIs(p)
    BY <1>1, <1>4 DEF PassedInv, Underway
  <2>2. ~Passed(o)'
    BY <1>1, <1>2, <1>3, <2>1 DEF Passed
  <2>3. ASSUME NEW p \in Orders \ {o}
        PROVE  Passed(p)' = Passed(p) /\ StoredAsIs(p)' = StoredAsIs(p)
    BY <1>1, <1>3 DEF Passed, StoredAsIs
  <2> QED
    BY <1>1, <1>2, <2>1, <2>2, <2>3
<1>5. shopStep' \in OrderSteps => ListsItsDays'
  BY <1>1 DEF PassedInv, ListsItsDays
<1>6. ASSUME shopStep' \in HandSteps
      PROVE  /\ nextCursor' <= edits'
             /\ \A p \in Orders : OnPage(p)' => p \in DOMAIN nodes' /\ nodes'[p] = shop'[p]
  <2>1. /\ nextCursor <= edits
        /\ \A p \in Orders : OnPage(p) => p \in DOMAIN nodes /\ nodes[p] = shop[p]
    BY <1>1, <1>6 DEF PassedInv
  <2>2. ~OnPage(o)'
    BY <1>1, <1>2, <1>3, <2>1 DEF OnPage
  <2>3. ASSUME NEW p \in Orders \ {o} PROVE OnPage(p)' = OnPage(p)
    BY <1>1, <1>3 DEF OnPage, Matches, Placed
  <2> QED
    BY <1>1, <1>2, <1>3, <2>1, <2>2, <2>3
<1> QED
  BY <1>4, <1>5, <1>6 DEF PassedInv

LEMMA BeginOrdersKeepsPassed ==
  ASSUME ~Careless, ImportInv, PassedInv, BeginOrders
  PROVE  PassedInv'
<1> DEFINE s == IF importer = "refresh" THEN RefreshSearch ELSE search
           fresh == orderCursor = NullCursor \/ importer = "backfill"
<1>1. /\ UNCHANGED <<shop, edits, orderRows, orderLines, refunds, firstOrder, orderCursor, removed>>
      /\ shopStep = "begin" /\ shopStep' = "reading" /\ search' = s
      /\ fresh => readBegun' = [rev |-> edits, day |-> shopDay, since |-> Reach]
      /\ ~fresh => readBegun' = readBegun
  BY DEF BeginOrders, store, tables
<1>2. /\ Reach \in Nat
      /\ Reach > LastDay \/ (s.by = "updated" /\ s.since \in Nat /\ s.since <= Reach)
  BY SearchReaches
<1>3. shopStep' \notin HandSteps /\ edits \in Nat /\ orderCursor \in Nat
  BY <1>1 DEF HandSteps, ImportInv, StoreInv, HandInv
<1>4. CASE fresh
  <2>1. orderCursor = 0 /\ readBegun'.since = Reach
    BY <1>1, <1>4 DEF ImportInv, ResumedByRefresh, NullCursor
  <2>2. \A o \in Orders : ~Passed(o)'
    BY <1>1, <2>1 DEF Passed
  <2>3. ListsItsDays'
    BY <1>1, <1>2, <2>1 DEF ListsItsDays
  <2> QED
    BY <1>1, <1>2, <1>3, <2>1, <2>2, <2>3 DEF PassedInv
<1>5. CASE ~fresh
  <2>1. Underway /\ importer = "refresh" /\ readBegun' = readBegun
    BY <1>1, <1>5 DEF Underway, ImportInv, HandInv, Runs
  <2>2. /\ readBegun.since \in Nat /\ orderCursor <= edits
        /\ \A o \in Orders \ removed : Passed(o) => StoredAsIs(o)
    BY <2>1 DEF PassedInv
  <2>3. s = Everything
    BY <1>5, <2>1 DEF RefreshSearch
  <2>4. ListsItsDays'
    BY <1>1, <2>1, <2>2, <2>3 DEF ListsItsDays, Everything
  <2>5. \A o \in Orders : Passed(o)' = Passed(o) /\ StoredAsIs(o)' = StoredAsIs(o)
    BY <1>1, <2>1 DEF Passed, StoredAsIs
  <2> QED
    BY <1>1, <1>3, <2>1, <2>2, <2>4, <2>5 DEF PassedInv
<1> QED
  BY <1>4, <1>5

LEMMA ReadOrdersKeepsPassed ==
  ASSUME ImportInv, PassedInv, ReadOrders
  PROVE  PassedInv'
<1> DEFINE os == OrdersOnPage(search, after)
<1>1. /\ UNCHANGED <<shop, edits, orderRows, orderLines, refunds, firstOrder, orderCursor, search,
                     readBegun, removed>>
      /\ shopStep = "reading" /\ nodes' = [o \in os |-> shop[o]]
      /\ nextCursor' = NextCursor(os)
      /\ shopStep' = IF os = {} THEN "advancing" ELSE "customers"
  BY DEF ReadOrders, history, store, tables
<1>2. /\ StoreInv /\ search \in Searches /\ after = orderCursor /\ after \in Nat /\ edits \in Nat
      /\ shopStep \in OrderSteps
  BY <1>1 DEF ImportInv, HandInv, OrderSteps, StoreInv
<1>3. /\ \A o \in Behind(search, after) \ os, q \in os : shop[q].rev < shop[o].rev
      /\ Behind(search, after) # {} => os # {}
  BY <1>2, PageIsFirst
<1>4. ASSUME NEW o \in Behind(search, after)
      PROVE  shop[o].rev \in Nat /\ shop[o].rev <= edits /\ shop[o].rev > after
  BY <1>2 DEF Behind, Matches, StoreInv, Nodes
<1>5. os \subseteq Behind(search, after)
  BY DEF OrdersOnPage
<1> HIDE DEF os
<1>6. /\ nextCursor' <= edits
      /\ \A o \in Behind(search, after) : shop[o].rev <= nextCursor' => o \in os
  <2>1. CASE os = Behind(search, after)
    BY <1>1, <1>2, <2>1 DEF NextCursor, NullCursor
  <2>2. CASE os # Behind(search, after)
    <3> DEFINE S == {shop[o].rev : o \in os}
    <3>1. os # {}
      BY <1>3, <1>5, <2>2
    <3>2. S \in SUBSET Nat /\ S # {} /\ edits \in Nat /\ \A x \in S : x <= edits
      BY <1>2, <1>4, <1>5, <3>1
    <3>3. PICK q \in os : shop[q].rev = Max(S)
      BY <3>2, MaxIsGreatest
    <3>4. nextCursor' = shop[q].rev
      BY <1>1, <2>2, <3>3 DEF NextCursor
    <3>5. \A o \in Behind(search, after) \ os : ~(shop[o].rev <= shop[q].rev)
      BY <1>3, <1>4, <1>5
    <3> QED
      BY <1>4, <1>5, <3>4, <3>5
  <2> QED
    BY <2>1, <2>2
<1>7. /\ readBegun'.since \in Nat /\ orderCursor' <= edits'
      /\ \A o \in Orders \ removed' : Passed(o)' => StoredAsIs(o)'
  <2>1. /\ readBegun.since \in Nat /\ orderCursor <= edits
        /\ \A o \in Orders \ removed : Passed(o) => StoredAsIs(o)
    BY <1>2 DEF PassedInv, Underway
  <2>2. \A o \in Orders : Passed(o)' = Passed(o) /\ StoredAsIs(o)' = StoredAsIs(o)
    BY <1>1 DEF Passed, StoredAsIs
  <2> QED
    BY <1>1, <2>1, <2>2
<1>8. ListsItsDays'
  BY <1>1, <1>2 DEF PassedInv, ListsItsDays
<1>9. ASSUME NEW o \in Orders, OnPage(o)'
      PROVE  o \in DOMAIN nodes' /\ nodes'[o] = shop'[o]
  <2>1. o \in Behind(search, after) /\ shop[o].rev <= nextCursor'
    BY <1>1, <1>2, <1>9 DEF OnPage, Behind, Matches, Placed
  <2> QED
    BY <1>1, <1>6, <2>1
<1> QED
  BY <1>1, <1>6, <1>7, <1>8, <1>9 DEF PassedInv

(* A statement of persistOrderBatch writes the orders in hand, which are    *)
(* ahead of the cursor.                                                     *)
LEMMA WritingKeepsPassed ==
  ASSUME ImportInv, PassedInv,
         \/ UpsertCustomers \/ WriteOrders \/ WriteOrderLines \/ WriteRefunds \/ DatesWritten
         \/ \E c \in Customers : WriteDate(c)
  PROVE  PassedInv'
<1>1. /\ UNCHANGED <<shop, edits, orderCursor, readBegun, removed, search, nodes, nextCursor>>
      /\ shopStep \in HandSteps /\ shopStep' \in HandSteps
  BY DEF UpsertCustomers, WriteOrders, WriteOrderLines, WriteRefunds, DatesWritten, WriteDate,
         store, sync, writing, history, HandSteps
<1>2. /\ \/ orderRows' = orderRows
         \/ orderRows' = [o \in Orders |->
              IF o \in DOMAIN nodes THEN [rev |-> nodes[o].rev, live |-> nodes[o].live]
              ELSE orderRows[o]]
      /\ \/ orderLines' = orderLines
         \/ orderLines' = [o \in Orders |->
              IF o \in DOMAIN nodes
                THEN [rev |-> nodes[o].rev, known |-> VariantOf[o] \in variants]
              ELSE orderLines[o]]
      /\ refunds \subseteq refunds'
      /\ firstOrder' = firstOrder \/ \E c \in Customers : WriteDate(c)
  BY DEF UpsertCustomers, WriteOrders, WriteOrderLines, WriteRefunds, DatesWritten, WriteDate,
         tables
<1>3. ASSUME NEW o \in Orders, firstOrder[CustomerOf[o]] \in 1..OrderedAt[o]
      PROVE  firstOrder'[CustomerOf[o]] \in 1..OrderedAt[o]
  <2>1. CASE firstOrder' = firstOrder
    BY <1>3, <2>1
  <2>2. ASSUME NEW c \in Customers, WriteDate(c)
        PROVE  firstOrder'[CustomerOf[o]] \in 1..OrderedAt[o]
    <3>1. /\ firstOrder' = [firstOrder EXCEPT ![c] = EarliestOf(c)]
          /\ EarliestOf(c) \in Nat /\ EarliestOf(c) > 0 /\ firstOrder[c] \in Nat
          /\ firstOrder[c] = NoDate \/ EarliestOf(c) < firstOrder[c]
      BY <2>2, DateMovesBack
    <3>2. firstOrder \in [Customers -> Nat] /\ CustomerOf[o] \in Customers /\ OrderedAt[o] \in Nat
      BY CustomersAreOf, OrdersAssumption DEF ImportInv, TablesInv
    <3> QED
      BY <1>3, <3>1, <3>2 DEF NoDate
  <2> QED
    BY <1>2, <2>1, <2>2
<1>4. ASSUME NEW o \in Orders, Passed(o), StoredAsIs(o) PROVE StoredAsIs(o)'
  <2>1. o \notin DOMAIN nodes
    <3>1. shop[o].rev <= orderCursor /\ shop[o].rev \in Nat /\ orderCursor \in Nat
      BY <1>4 DEF Passed, ImportInv, HandInv, StoreInv, Nodes
    <3>2. o \in DOMAIN nodes =>
            nodes[o].rev \in Nat /\ nodes[o].rev > orderCursor /\ nodes[o].rev <= shop[o].rev
      BY DEF ImportInv, HandInv, Nodes
    <3> QED
      BY <3>1, <3>2
  <2>2. orderRows'[o] = orderRows[o] /\ orderLines'[o] = orderLines[o]
    BY <1>2, <2>1
  <2> QED
    BY <1>1, <1>2, <1>3, <1>4, <2>2 DEF StoredAsIs
<1>5. Underway
  BY <1>1 DEF Underway, OrderSteps
<1> QED
  BY <1>1, <1>4, <1>5, QuietKeepsPassed DEF OrderSteps

(* The cursor passes what the page held, which is stored.                   *)
LEMMA AdvanceKeepsPassed ==
  ASSUME ImportInv, PassedInv, AdvanceOrders
  PROVE  PassedInv'
<1>1. /\ UNCHANGED <<shop, edits, shopDay, orderRows, orderLines, refunds, firstOrder, removed>>
      /\ shopStep = "advancing" /\ orderCursor' = nextCursor
  BY DEF AdvanceOrders, store, tables
<1>2. shopStep \in HandSteps /\ shopStep \in OrderSteps /\ Underway
  BY <1>1 DEF HandSteps, OrderSteps, Underway
<1>3. CASE nextCursor = NullCursor
  <2>1. shopStep' \in {"payouts", "idle"}
    BY <1>3 DEF AdvanceOrders, Complete, ShopifyIdle
  <2> QED
    BY <1>1, <1>3, <2>1 DEF PassedInv, Underway, OrderSteps, HandSteps
<1>4. CASE nextCursor # NullCursor
  <2>1. shopStep' = "reading" /\ UNCHANGED <<search, readBegun>>
    BY <1>4 DEF AdvanceOrders
  <2>2. /\ readBegun.since \in Nat /\ ListsItsDays /\ nextCursor <= edits
        /\ \A o \in Orders \ removed : Passed(o) => StoredAsIs(o)
        /\ \A o \in Orders : OnPage(o) => o \in DOMAIN nodes /\ nodes[o] = shop[o]
    BY <1>2 DEF PassedInv
  <2>3. ASSUME NEW o \in Orders \ removed, Passed(o)' PROVE StoredAsIs(o)
    <3>1. /\ shop[o].rev \in Nat /\ shop[o].rev # 0 /\ shop[o].rev <= nextCursor
          /\ shop[o].updated \in Nat /\ shop[o].updated >= readBegun.since
          /\ orderCursor \in Nat /\ nextCursor \in Nat /\ search \in Searches
          /\ shopDay \in Nat /\ LastDay \in Nat /\ shopDay <= LastDay
          /\ shop[o].updated <= shopDay
      BY <1>1, <2>1, <2>3, ShopBoundsAssumption
         DEF Passed, ImportInv, StoreInv, HandInv, Nodes
    <3>2. CASE shop[o].rev <= orderCursor
      BY <2>2, <3>1, <3>2 DEF Passed
    <3>3. CASE shop[o].rev > orderCursor
      <4>1. search.by = "updated" /\ search.since <= readBegun.since /\ search.since \in Nat
        BY <2>2, <3>1 DEF ListsItsDays, Searches
      <4>2. OnPage(o)
        BY <2>2, <3>1, <3>3, <4>1 DEF OnPage, Matches, Placed, NoRev
      <4>3. o \in DOMAIN nodes /\ nodes[o] = shop[o]
        BY <2>2, <4>2
      <4>4. /\ orderRows[o] = [rev |-> nodes[o].rev, live |-> nodes[o].live]
            /\ orderLines[o] = [rev |-> nodes[o].rev, known |-> VariantOf[o] \in variants]
            /\ nodes[o].refunded => o \in refunds
            /\ nodes[o].live => firstOrder[CustomerOf[o]] \in 1..OrderedAt[o]
        BY <1>1, <4>3 DEF ImportInv, StagesInv
      <4>5. /\ orderRows[o].rev = shop[o].rev /\ orderRows[o].live = nodes[o].live
            /\ orderLines[o].rev = shop[o].rev
        BY <4>3, <4>4
      <4> QED
        BY <3>1, <4>3, <4>4, <4>5 DEF StoredAsIs
    <3> QED
      BY <3>1, <3>2, <3>3
  <2>4. \A o \in Orders \ removed' : Passed(o)' => StoredAsIs(o)'
    BY <1>1, <2>3 DEF StoredAsIs
  <2>5. ListsItsDays'
    BY <2>1, <2>2 DEF ListsItsDays
  <2> QED
    BY <1>1, <2>1, <2>2, <2>4, <2>5 DEF PassedInv, HandSteps
<1> QED
  BY <1>3, <1>4

LEMMA DeleteKeepsPassed ==
  ASSUME ImportInv, PassedInv, NEW cutoff \in Nat, DeleteOrdersBefore(cutoff)
  PROVE  PassedInv'
<1> DEFINE gone == {o \in Orders : orderRows[o].rev # NoRev /\ OrderedAt[o] < cutoff}
<1>1. /\ UNCHANGED <<shop, edits, orderCursor, readBegun, search, nodes, nextCursor, shopStep>>
      /\ shopStep = "idle" /\ removed' = removed \cup gone
      /\ orderRows' = [o \in Orders |->
           IF o \in gone THEN [rev |-> NoRev, live |-> FALSE] ELSE orderRows[o]]
      /\ orderLines' = [o \in Orders |->
           IF o \in gone THEN [rev |-> NoRev, known |-> FALSE] ELSE orderLines[o]]
      /\ refunds' = refunds \ gone
      /\ firstOrder' = [c \in Customers |-> Rebased(c, gone)]
  BY DEF DeleteOrdersBefore, store, sync
<1> HIDE DEF gone
<1>2. ASSUME NEW o \in Orders \ removed', Passed(o), StoredAsIs(o) PROVE StoredAsIs(o)'
  <2> DEFINE c == CustomerOf[o]
  <2>1. o \notin gone /\ o \in Orders /\ c \in Customers
    BY <1>1, CustomersAreOf
  <2>2. /\ orderRows'[o] = orderRows[o] /\ orderLines'[o] = orderLines[o]
        /\ (o \in refunds => o \in refunds')
    BY <1>1, <2>1
  <2>3. o \in Surviving(gone)
    <3>1. orderRows[o].rev \in Nat /\ orderRows[o].rev >= shop[o].rev /\ shop[o].rev \in Nat
          /\ shop[o].rev # 0
      BY <1>2, <2>1 DEF StoredAsIs, Passed, ImportInv, TablesInv, StoreInv, Nodes
    <3> QED
      BY <2>1, <3>1 DEF Surviving, NoRev
  <2>4. orderRows[o].live => firstOrder'[c] \in 1..OrderedAt[o]
    BY <1>1, <2>1, <2>3, RebasedIsEarliest
  <2> QED
    BY <1>1, <1>2, <2>2, <2>4 DEF StoredAsIs
<1>3. removed \subseteq removed' /\ (Underway' => Underway)
  BY <1>1 DEF Underway
<1> QED
  BY <1>1, <1>2, <1>3, QuietKeepsPassed

LEMMA ResumeStep ==
  ASSUME ImportInv, ResumeInv, [ShopNext]_shopVars
  PROVE  ResumeInv'
<1> SUFFICES ASSUME ~Careless, PassedInv PROVE PassedInv'
  BY DEF ResumeInv
<1>1. ASSUME NEW o \in Orders, Place(o) \/ Refund(o) \/ Cancel(o) PROVE PassedInv'
  BY <1>1, ChangeKeepsPassed DEF Place, Refund, Cancel
<1>2. CASE ShopDayPasses
  <2>1. /\ UNCHANGED <<shop, edits, orderCursor, readBegun, removed, search, nodes, nextCursor,
                       shopStep, orderRows, orderLines, refunds, firstOrder>>
        /\ Underway' = Underway
    BY <1>2 DEF ShopDayPasses, tables, sync, history, Underway
  <2>2. \A o \in Orders : StoredAsIs(o)' = StoredAsIs(o)
    BY <2>1 DEF StoredAsIs
  <2> QED
    BY <2>1, <2>2, QuietKeepsPassed
<1>3. CASE \/ BeginShopify \/ BeginBackfill \/ SyncCatalogue \/ SyncPayouts
           \/ ShopifySyncFails \/ ShopifyCrashes
  <2>1. /\ UNCHANGED <<shop, edits, orderCursor, readBegun, removed, orderRows, orderLines, refunds,
                       firstOrder>>
        /\ shopStep' \in {"catalogue", "begin", "payouts", "idle"}
    BY <1>3 DEF BeginShopify, BeginBackfill, SyncCatalogue, SyncPayouts, ShopifySyncFails,
                ShopifyCrashes, ShopifyIdle, tables, store, writing, history
  <2>2. shopStep' \notin OrderSteps /\ shopStep' \notin HandSteps /\ (Underway' => Underway)
    BY <2>1 DEF Underway, OrderSteps, HandSteps
  <2>3. \A o \in Orders : StoredAsIs(o)' = StoredAsIs(o)
    BY <2>1 DEF StoredAsIs
  <2> QED
    BY <2>1, <2>2, <2>3, QuietKeepsPassed
<1>4. CASE \/ BeginOrders \/ ReadOrders \/ AdvanceOrders
           \/ UpsertCustomers \/ WriteOrders \/ WriteOrderLines \/ WriteRefunds \/ DatesWritten
           \/ \E c \in Customers : WriteDate(c)
  BY <1>4, BeginOrdersKeepsPassed, ReadOrdersKeepsPassed, AdvanceKeepsPassed, WritingKeepsPassed
<1>5. ASSUME NEW o \in Orders, DeleteOrdersBefore(OrderedAt[o] + 1) PROVE PassedInv'
  <2>1. OrderedAt[o] + 1 \in Nat
    BY OrdersAssumption
  <2> QED
    BY <1>5, <2>1, DeleteKeepsPassed
<1>6. CASE UNCHANGED shopVars
  <2>1. /\ UNCHANGED <<shop, edits, orderCursor, readBegun, removed, search, nodes, nextCursor,
                       shopStep, orderRows, orderLines, refunds, firstOrder>>
        /\ Underway' = Underway
    BY <1>6 DEF shopVars, store, tables, sync, history, Underway
  <2>2. \A o \in Orders : StoredAsIs(o)' = StoredAsIs(o)
    BY <2>1 DEF StoredAsIs
  <2> QED
    BY <2>1, <2>2, QuietKeepsPassed
<1> QED
  BY <1>1, <1>2, <1>3, <1>4, <1>5, <1>6 DEF ShopNext, ImportShopify

LEMMA InitResumeInv == ShopInit => ResumeInv
  BY DEF ShopInit, ResumeInv, PassedInv, Underway, OrderSteps, HandSteps, NullCursor

(* Only moving the date backwards (advanceFirstOrderDates): whatever the    *)
(* pages and their order, the windows and the interruptions, and however    *)
(* orders change meanwhile, no import makes a customer's first order later. *)
THEOREM FirstDatesMoveBack == ShopSpec => FirstDateOnlyMovesBack
<1> DEFINE Back == \A c \in Customers :
       \/ firstOrder[c] = NoDate \/ firstOrder'[c] <= firstOrder[c]
       \/ \E o \in Orders : orderRows[o].rev # NoRev /\ orderRows'[o].rev = NoRev
<1>1. ASSUME ImportInv, [ShopNext]_shopVars PROVE Back
  <2>0. ASSUME firstOrder' = firstOrder PROVE Back
    <3>1. \A c \in Customers : firstOrder[c] \in Nat
      BY <1>1 DEF ImportInv, TablesInv
    <3>2. \A n \in Nat : n <= n
      OBVIOUS
    <3> QED
      BY <2>0, <3>1, <3>2
  <2>1. ASSUME NEW d \in Customers, WriteDate(d) PROVE Back
    <3>1. /\ firstOrder' = [firstOrder EXCEPT ![d] = EarliestOf(d)]
          /\ EarliestOf(d) \in Nat /\ firstOrder[d] \in Nat
          /\ firstOrder[d] = NoDate \/ EarliestOf(d) < firstOrder[d]
      BY <1>1, <2>1, DateMovesBack
    <3>2. firstOrder \in [Customers -> Nat]
      BY <1>1 DEF ImportInv, TablesInv
    <3>3. ASSUME NEW c \in Customers
          PROVE  firstOrder[c] = NoDate \/ firstOrder'[c] <= firstOrder[c]
      BY <3>1, <3>2
    <3> QED
      BY <3>3
  <2>2. ASSUME NEW cutoff \in Nat, DeleteOrdersBefore(cutoff) PROVE Back
    <3> DEFINE gone == {o \in Orders : orderRows[o].rev # NoRev /\ OrderedAt[o] < cutoff}
    <3>1. PICK o \in gone : TRUE
      BY <2>2 DEF DeleteOrdersBefore
    <3>2. orderRows'[o] = [rev |-> NoRev, live |-> FALSE]
      BY <2>2, <3>1 DEF DeleteOrdersBefore
    <3> QED
      BY <3>1, <3>2
  <2> HIDE DEF Back
  <2>3. CASE BeginBackfill \/ ShopifySyncFails \/ ShopifyCrashes \/ ShopDayPasses
    <3>1. firstOrder' = firstOrder
      BY <2>3 DEF BeginBackfill, ShopifySyncFails, ShopifyCrashes, ShopDayPasses, tables
    <3> QED
      BY <2>0, <3>1
  <2>4. ASSUME NEW o \in Orders, Place(o) \/ Refund(o) \/ Cancel(o) PROVE Back
    <3>1. firstOrder' = firstOrder
      BY <2>4 DEF Place, Refund, Cancel, ChangeOrder, tables
    <3> QED
      BY <2>0, <3>1
  <2>5. CASE ImportShopify
    <3>1. \/ firstOrder' = firstOrder
          \/ \E c \in Customers : WriteDate(c)
      BY <2>5 DEF ImportShopify, BeginShopify, SyncCatalogue, BeginOrders, ReadOrders,
                  UpsertCustomers, WriteOrders, WriteOrderLines, WriteRefunds, DatesWritten,
                  AdvanceOrders, SyncPayouts, tables
    <3> QED
      BY <2>0, <2>1, <3>1
  <2>6. ASSUME NEW o \in Orders, DeleteOrdersBefore(OrderedAt[o] + 1) PROVE Back
    <3>1. OrderedAt[o] + 1 \in Nat
      BY OrdersAssumption
    <3> QED
      BY <2>2, <2>6, <3>1
  <2>7. CASE UNCHANGED shopVars
    <3>1. firstOrder' = firstOrder
      BY <2>7 DEF shopVars, tables
    <3> QED
      BY <2>0, <3>1
  <2> QED
    BY <1>1, <2>3, <2>4, <2>5, <2>6, <2>7 DEF ShopNext
<1>2. ImportInv /\ ResumeInv /\ [ShopNext]_shopVars => ImportInv' /\ ResumeInv'
  BY ImportStep, ResumeStep
<1>3. ImportInv /\ [ShopNext]_shopVars => [Back]_shopVars
  BY <1>1
<1> HIDE DEF Back
<1>4. ShopSpec => [][Back]_shopVars
  BY InitImportInv, InitResumeInv, <1>2, <1>3, PTL DEF ShopSpec
<1> QED
  BY <1>4 DEF Back, FirstDateOnlyMovesBack

(* A sync that succeeds has stored what it was asked for, each order with   *)
(* its lines, refunds and customer at the state it had when the sync began  *)
(* or later, although it was read page by page and written table by table,  *)
(* failed and was resumed while orders changed; unless a backfill is        *)
(* started over an interrupted sync.  A refresh that goes on with another   *)
(* run's read answers for all behind the cursor, and for its own thirty     *)
(* days if that read had begun as far back.                                 *)
THEOREM SyncsHoldTheirWindow ==
  ASSUME ~Careless
  PROVE  ShopSpec => SyncHoldsItsWindow
<1> DEFINE Held == AdvanceOrders /\ nextCursor = NullCursor =>
                     \A e \in promised : e.order \in removed \/ OrderArrived(e)
<1>1. ASSUME ImportInv PROVE Held
  <2> SUFFICES ASSUME AdvanceOrders, nextCursor = NullCursor, NEW e \in promised
               PROVE  e.order \in removed \/ OrderArrived(e)
    OBVIOUS
  <2>1. shopStep = "advancing"
    BY DEF AdvanceOrders
  <2>2. e.order \in removed \cup DOMAIN nodes \/ OrderArrived(e)
    BY <1>1, <2>1 DEF ImportInv, ArrivalInv, HandSteps, BehindPage
  <2> QED
    BY <1>1, <2>1, <2>2, HandArrives
<1>2. ImportInv /\ ResumeInv /\ [ShopNext]_shopVars => ImportInv' /\ ResumeInv'
  BY ImportStep, ResumeStep
<1>3. ImportInv /\ [ShopNext]_shopVars => [Held]_shopVars
  BY <1>1
<1> HIDE DEF Held
<1>4. ShopSpec => [][Held]_shopVars
  BY InitImportInv, InitResumeInv, <1>2, <1>3, PTL DEF ShopSpec
<1> QED
  BY <1>4 DEF Held, SyncHoldsItsWindow

(* The windows of successive reads.  What changed after a read began was    *)
(* changed on its day or later; what had changed before it is promised, or  *)
(* is older than its window, and then the reads before account for it.      *)

Promised(o) == \E e \in promised : /\ e.order = o /\ e.rev = shop[o].rev
                                   /\ shop[o].refunded => e.refunded

ReachesBack ==
  readBegun.since <= readUpTo.day =>
    \A o \in Orders :
      shop[o].rev \in 1..readBegun.rev => shop[o].updated < readBegun.since \/ Promised(o)

ReadSince(read) ==
  /\ read.rev \in Nat /\ read.day \in Nat /\ read.rev <= edits /\ read.day <= shopDay
  /\ \A o \in Orders : shop[o].rev > read.rev => shop[o].updated >= read.day

WindowInv == /\ ReadSince(readUpTo)
             /\ Underway => readBegun.since \in Nat /\ ReadSince(readBegun) /\ ReachesBack
             /\ WindowsLeaveNoGap

LEMMA InitWindowInv == ShopInit => WindowInv
<1> SUFFICES ASSUME ShopInit PROVE WindowInv
  OBVIOUS
<1>1. \A o \in Orders : shop[o].rev = 0
  BY DEF ShopInit, NoRev
<1>2. readUpTo.rev = 0 /\ readUpTo.day = 1 /\ edits = 0 /\ shopDay = 1
  BY DEF ShopInit
<1>3. ReadSince(readUpTo) /\ WindowsLeaveNoGap
  BY <1>1, <1>2 DEF ReadSince, WindowsLeaveNoGap
<1>4. ~Underway
  BY DEF ShopInit, Underway, NullCursor, OrderSteps, HandSteps
<1> QED
  BY <1>3, <1>4 DEF WindowInv

(* Nothing changes in the shop, and no read begins or is completed.         *)
LEMMA QuietKeepsWindows ==
  ASSUME ImportInv, WindowInv,
         UNCHANGED <<shop, edits, readUpTo>>, shopDay' \in Nat, shopDay <= shopDay',
         Underway' => Underway /\ promised \subseteq promised' /\ readBegun' = readBegun,
         WindowsLeaveNoGap'
  PROVE  WindowInv'
<1>1. shopDay \in Nat
  BY DEF ImportInv, StoreInv
<1>2. ASSUME NEW read, ReadSince(read) PROVE ReadSince(read)'
  <2>1. read.day <= shopDay'
    BY <1>1, <1>2 DEF ReadSince
  <2> QED
    BY <1>2, <2>1 DEF ReadSince
<1>3. ReadSince(readUpTo)'
  <2>1. ReadSince(readUpTo)
    BY DEF WindowInv
  <2>2. readUpTo' = readUpTo
    OBVIOUS
  <2> QED
    BY <1>1, <2>1, <2>2 DEF ReadSince
<1>4. ASSUME Underway' PROVE readBegun'.since \in Nat /\ ReadSince(readBegun)' /\ ReachesBack'
  <2>1. /\ readBegun' = readBegun /\ promised \subseteq promised' /\ readBegun.since \in Nat
        /\ ReadSince(readBegun) /\ ReachesBack
    BY <1>4 DEF WindowInv
  <2>2. ReadSince(readBegun)'
    BY <1>1, <2>1 DEF ReadSince
  <2>3. ReachesBack'
    BY <2>1 DEF ReachesBack, Promised
  <2> QED
    BY <2>1, <2>2, <2>3
<1> QED
  BY <1>3, <1>4 DEF WindowInv

LEMMA ChangeKeepsWindows ==
  ASSUME ImportInv, WindowInv, NEW o \in Orders, NEW at, NEW live, NEW back,
         ChangeOrder(o, at, live, back)
  PROVE  WindowInv'
<1>1. /\ edits' = edits + 1
      /\ shop' = [shop EXCEPT ![o] = [rev |-> edits + 1, placed |-> at, updated |-> shopDay,
                                      live |-> live, refunded |-> back]]
      /\ UNCHANGED <<shopDay, orderRows, orderLines, refunds, orderCursor, shopStep, promised,
                     readBegun, readUpTo, removed>>
  BY DEF ChangeOrder, tables, sync, history
<1>2. /\ edits \in Nat /\ shopDay \in Nat /\ shop \in [Orders -> Nodes]
  BY DEF ImportInv, StoreInv
<1>3. /\ shop'[o].rev = edits + 1 /\ shop'[o].updated = shopDay
      /\ \A p \in Orders \ {o} : shop'[p] = shop[p]
  BY <1>1, <1>2
<1>4. ASSUME NEW read, ReadSince(read)
      PROVE  /\ read.rev \in Nat /\ read.rev <= edits + 1
             /\ \A p \in Orders : shop'[p].rev > read.rev => shop'[p].updated >= read.day
             /\ \A p \in Orders : shop'[p].rev \in 1..read.rev => shop'[p] = shop[p]
  <2>1. /\ read.rev \in Nat /\ read.day \in Nat /\ read.rev <= edits /\ read.day <= shopDay
        /\ \A p \in Orders : shop[p].rev > read.rev => shop[p].updated >= read.day
    BY <1>4 DEF ReadSince
  <2>2. ~(shop'[o].rev \in 1..read.rev) /\ shop'[o].updated >= read.day
    BY <1>2, <1>3, <2>1
  <2> QED
    BY <1>2, <1>3, <2>1, <2>2
<1>5. ASSUME NEW read, ReadSince(read), read' = read PROVE ReadSince(read)'
  BY <1>1, <1>4, <1>5 DEF ReadSince
<1>6. ReadSince(readUpTo)' /\ WindowsLeaveNoGap'
  <2>1. ReadSince(readUpTo) /\ readUpTo' = readUpTo /\ WindowsLeaveNoGap
    BY <1>1 DEF WindowInv
  <2>2. \A p \in Orders : shop'[p].rev \in 1..readUpTo.rev => shop'[p] = shop[p]
    BY <1>4, <2>1
  <2>3. WindowsLeaveNoGap'
    BY <1>1, <2>1, <2>2 DEF WindowsLeaveNoGap
  <2>4. ReadSince(readUpTo)'
    BY <1>1, <1>4, <2>1 DEF ReadSince
  <2> QED
    BY <2>3, <2>4
<1>7. ASSUME Underway' PROVE readBegun'.since \in Nat /\ ReadSince(readBegun)' /\ ReachesBack'
  <2>1. /\ readBegun' = readBegun /\ readUpTo' = readUpTo /\ promised' = promised
        /\ readBegun.since \in Nat /\ ReadSince(readBegun) /\ ReachesBack
    BY <1>1, <1>7 DEF WindowInv, Underway
  <2>2. ReadSince(readBegun)'
    BY <1>1, <1>4, <2>1 DEF ReadSince
  <2>3. \A p \in Orders : shop'[p].rev \in 1..readBegun.rev => shop'[p] = shop[p]
    BY <1>4, <2>1
  <2>4. ReachesBack'
    BY <2>1, <2>3 DEF ReachesBack, Promised
  <2> QED
    BY <2>1, <2>2, <2>4
<1> QED
  BY <1>6, <1>7 DEF WindowInv

LEMMA BeginKeepsWindows ==
  ASSUME ~Careless, ImportInv, ImportInv', WindowInv, BeginOrders
  PROVE  WindowInv'
<1> DEFINE s == IF importer = "refresh" THEN RefreshSearch ELSE search
           fresh == orderCursor = NullCursor \/ importer = "backfill"
<1>1. /\ UNCHANGED <<shop, edits, shopDay, variants, orderRows, orderLines, refunds, orderCursor,
                     readUpTo, removed>>
      /\ shopStep' = "reading"
      /\ fresh => /\ promised' = ListingOf(s)
                  /\ readBegun' = [rev |-> edits, day |-> shopDay, since |-> Reach]
      /\ ~fresh => promised \subseteq promised' /\ readBegun' = readBegun
  BY DEF BeginOrders, store, tables
<1>2. WindowsLeaveNoGap'
  BY <1>1 DEF WindowInv, WindowsLeaveNoGap
<1>3. /\ shopDay \in Nat /\ edits \in Nat /\ shopDay <= LastDay /\ LastDay \in Nat
      /\ \A o \in Orders : shop[o] \in Nodes /\ shop[o].rev <= edits
      /\ ReadSince(readUpTo)
  BY ShopBoundsAssumption DEF ImportInv, StoreInv, WindowInv
<1>4. CASE ~fresh
  <2>1. shopDay <= shopDay' /\ (Underway' => Underway)
    BY <1>1, <1>3, <1>4 DEF Underway
  <2> QED
    BY <1>1, <1>2, <1>3, <1>4, <2>1, QuietKeepsWindows
<1>5. CASE fresh
  <2>1. /\ readBegun'.rev = edits /\ readBegun'.day = shopDay /\ readBegun'.since = Reach
        /\ promised' = ListingOf(s)
    BY <1>1, <1>5
  <2>2. /\ Reach \in Nat
        /\ Reach > LastDay \/ (s.by = "updated" /\ s.since \in Nat /\ s.since <= Reach)
    BY SearchReaches
  <2>3. ReadSince(readUpTo)'
    BY <1>1, <1>3 DEF ReadSince
  <2>4. ReadSince(readBegun)'
    <3>1. edits <= edits /\ shopDay <= shopDay
      BY <1>3
    <3>2. \A o \in Orders : ~(shop[o].rev > edits)
      BY <1>3 DEF Nodes
    <3> QED
      BY <1>1, <1>3, <2>1, <3>1, <3>2 DEF ReadSince
  <2>5. ReachesBack'
    <3> SUFFICES ASSUME Reach <= readUpTo.day, NEW o \in Orders, shop[o].rev \in 1..edits,
                        ~(shop[o].updated < Reach)
                 PROVE  Promised(o)'
      BY <1>1, <2>1 DEF ReachesBack
    <3>1. s.by = "updated" /\ s.since \in Nat /\ s.since <= Reach
      BY <1>3, <2>2 DEF ReadSince
    <3>2. shop[o].updated >= s.since /\ shop[o].rev # NoRev
      BY <1>3, <2>2, <3>1 DEF Nodes, NoRev
    <3>3. o \in Matches(s)
      BY <3>1, <3>2 DEF Matches, Placed
    <3> HIDE DEF s
    <3> DEFINE e == [order |-> o, rev |-> shop[o].rev, live |-> shop[o].live,
                     refunded |-> shop[o].refunded, known |-> VariantOf[o] \in variants]
    <3>4. e \in ListingOf(s)
      BY <3>3 DEF ListingOf
    <3>5. e.order = o /\ e.rev = shop[o].rev /\ e.refunded = shop[o].refunded
      OBVIOUS
    <3> HIDE DEF e
    <3> QED
      BY <1>1, <2>1, <3>4, <3>5 DEF Promised
  <2> QED
    BY <1>2, <2>1, <2>2, <2>3, <2>4, <2>5 DEF WindowInv
<1> QED
  BY <1>4, <1>5

(* A row that is up to date is only written again as it is.                 *)
LEMMA WritingKeepsWindows ==
  ASSUME ImportInv, WindowInv, WriteOrders \/ WriteOrderLines \/ WriteRefunds
  PROVE  WindowInv'
<1>1. /\ UNCHANGED <<shop, edits, shopDay, orderCursor, promised, readBegun, readUpTo, removed>>
      /\ shopStep \in OrderSteps
      /\ refunds \subseteq refunds'
  BY DEF WriteOrders, WriteOrderLines, WriteRefunds, writing, store, history, OrderSteps, HandSteps
<1>2. /\ orderRows' = orderRows
         \/ orderRows' = [o \in Orders |->
              IF o \in DOMAIN nodes THEN [rev |-> nodes[o].rev, live |-> nodes[o].live]
              ELSE orderRows[o]]
      /\ orderLines' = orderLines
         \/ orderLines' = [o \in Orders |->
              IF o \in DOMAIN nodes
                THEN [rev |-> nodes[o].rev, known |-> VariantOf[o] \in variants]
              ELSE orderLines[o]]
  BY DEF WriteOrders, WriteOrderLines, WriteRefunds
<1>3. ASSUME NEW o \in Orders
      PROVE  /\ orderRows[o].rev = shop[o].rev => orderRows'[o].rev = shop[o].rev
             /\ orderLines[o].rev = shop[o].rev => orderLines'[o].rev = shop[o].rev
  <2>1. CASE o \in DOMAIN nodes
    <3>1. /\ nodes[o].rev \in Nat /\ shop[o].rev \in Nat /\ nodes[o].rev <= shop[o].rev
          /\ orderRows[o].rev <= nodes[o].rev /\ orderLines[o].rev <= nodes[o].rev
      BY <2>1 DEF ImportInv, HandInv, StoreInv, Nodes
    <3>2. orderRows'[o].rev = orderRows[o].rev \/ orderRows'[o].rev = nodes[o].rev
      BY <1>2, <2>1
    <3>3. orderLines'[o].rev = orderLines[o].rev \/ orderLines'[o].rev = nodes[o].rev
      BY <1>2, <2>1
    <3> QED
      BY <3>1, <3>2, <3>3
  <2>2. CASE o \notin DOMAIN nodes
    BY <1>2, <2>2
  <2> QED
    BY <2>1, <2>2
<1>4. WindowsLeaveNoGap'
  BY <1>1, <1>3 DEF WindowInv, WindowsLeaveNoGap
<1>5. shopDay' \in Nat /\ shopDay <= shopDay'
  BY <1>1 DEF ImportInv, StoreInv
<1> QED
  BY <1>1, <1>4, <1>5, QuietKeepsWindows DEF Underway

LEMMA AdvanceKeepsWindows ==
  ASSUME ~Careless, ImportInv, WindowInv, AdvanceOrders
  PROVE  WindowInv'
<1>1. /\ UNCHANGED <<shop, edits, shopDay, orderRows, orderLines, refunds, removed>>
      /\ shopStep = "advancing"
  BY DEF AdvanceOrders, store, tables
<1>2. /\ shopDay' \in Nat /\ shopDay <= shopDay' /\ Underway
      /\ ReadSince(readUpTo) /\ WindowsLeaveNoGap
      /\ readBegun.since \in Nat /\ ReadSince(readBegun) /\ ReachesBack
  BY <1>1 DEF ImportInv, StoreInv, WindowInv, Underway, OrderSteps, HandSteps
<1>3. CASE nextCursor # NullCursor
  <2>1. UNCHANGED <<promised, readBegun, readUpTo>>
    BY <1>3 DEF AdvanceOrders
  <2>2. WindowsLeaveNoGap'
    BY <1>1, <1>2, <2>1 DEF WindowsLeaveNoGap
  <2> QED
    BY <1>1, <1>2, <2>1, <2>2, QuietKeepsWindows
<1>4. CASE nextCursor = NullCursor
  <2>1. /\ readUpTo' = IF readBegun.since <= readUpTo.day
                         THEN [rev |-> readBegun.rev, day |-> readBegun.day] ELSE readUpTo
        /\ ~Underway'
    BY <1>4 DEF AdvanceOrders, Complete, ShopifyIdle, Underway, OrderSteps, HandSteps
  <2>2. CASE ~(readBegun.since <= readUpTo.day)
    <3>1. readUpTo' = readUpTo
      BY <2>1, <2>2
    <3>2. WindowsLeaveNoGap'
      BY <1>1, <1>2, <3>1 DEF WindowsLeaveNoGap
    <3> QED
      BY <1>1, <1>2, <2>1, <3>1, <3>2, QuietKeepsWindows
  <2>3. CASE readBegun.since <= readUpTo.day
    <3>1. readUpTo'.rev = readBegun.rev /\ readUpTo'.day = readBegun.day
      BY <2>1, <2>3
    <3>2. ReadSince(readUpTo)'
      BY <1>1, <1>2, <3>1 DEF ReadSince
    <3>3. ASSUME NEW o \in Orders \ removed, shop[o].rev \in 1..readBegun.rev
          PROVE  /\ orderRows[o].rev = shop[o].rev /\ orderLines[o].rev = shop[o].rev
                 /\ shop[o].refunded => o \in refunds
      <4>0. /\ shop[o].rev \in Nat /\ shop[o].updated \in Nat
            /\ orderRows[o].rev \in Nat /\ orderLines[o].rev \in Nat
            /\ orderRows[o].rev <= shop[o].rev /\ orderLines[o].rev <= shop[o].rev
        BY DEF ImportInv, StoreInv, TablesInv, Nodes
      <4>1. CASE Promised(o)
        <5>1. PICK e \in promised : /\ e.order = o /\ e.rev = shop[o].rev
                                    /\ shop[o].refunded => e.refunded
          BY <4>1 DEF Promised
        <5>2. e.order \in removed \cup DOMAIN nodes \/ OrderArrived(e)
          BY <1>1, <1>4 DEF ImportInv, ArrivalInv, HandSteps, BehindPage
        <5>3. OrderArrived(e)
          BY <1>1, <5>1, <5>2, HandArrives
        <5>4. orderRows[o].rev >= shop[o].rev /\ orderLines[o].rev >= shop[o].rev
          BY <5>1, <5>3 DEF OrderArrived
        <5>5. shop[o].refunded => o \in refunds
          BY <5>1, <5>3 DEF OrderArrived
        <5> QED
          BY <4>0, <5>4, <5>5
      <4>2. CASE shop[o].updated < readBegun.since
        <5>1. ~(shop[o].updated >= readUpTo.day)
          BY <1>2, <2>3, <4>0, <4>2 DEF ReadSince
        <5>2. ~(shop[o].rev > readUpTo.rev) /\ readUpTo.rev \in Nat
          BY <1>2, <5>1 DEF ReadSince
        <5>3. shop[o].rev \in 1..readUpTo.rev
          BY <3>3, <4>0, <5>2
        <5> QED
          BY <1>2, <5>3 DEF WindowsLeaveNoGap
      <4> QED
        BY <1>2, <2>3, <3>3, <4>1, <4>2 DEF ReachesBack
    <3>4. WindowsLeaveNoGap'
      BY <1>1, <3>1, <3>3 DEF WindowsLeaveNoGap
    <3> QED
      BY <2>1, <3>2, <3>4 DEF WindowInv
  <2> QED
    BY <2>2, <2>3
<1> QED
  BY <1>3, <1>4

LEMMA WindowStep ==
  ASSUME ~Careless, ImportInv, ImportInv', WindowInv, [ShopNext]_shopVars
  PROVE  WindowInv'
<1>1. ASSUME NEW o \in Orders, Place(o) \/ Refund(o) \/ Cancel(o) PROVE WindowInv'
  BY <1>1, ChangeKeepsWindows DEF Place, Refund, Cancel
<1> DEFINE Quiet == /\ UNCHANGED <<shop, edits, readUpTo, readBegun, promised>>
                    /\ shopDay' \in {shopDay, shopDay + 1}
                    /\ Underway' => Underway
                    /\ removed \subseteq removed'
                    /\ \A o \in Orders \ removed' :
                         /\ orderRows'[o] = orderRows[o] /\ orderLines'[o] = orderLines[o]
                         /\ o \in refunds => o \in refunds'
<1>2. ASSUME Quiet PROVE WindowInv'
  <2>1. shopDay' \in Nat /\ shopDay <= shopDay'
    BY <1>2 DEF ImportInv, StoreInv
  <2>2. WindowsLeaveNoGap'
    BY <1>2 DEF WindowInv, WindowsLeaveNoGap
  <2> QED
    BY <1>2, <2>1, <2>2, QuietKeepsWindows
<1>3. CASE ShopDayPasses
  <2>1. Quiet
    BY <1>3 DEF ShopDayPasses, tables, sync, history, Underway
  <2> QED
    BY <1>2, <2>1
<1>4. CASE \/ BeginShopify \/ BeginBackfill \/ SyncCatalogue \/ SyncPayouts
           \/ ShopifySyncFails \/ ShopifyCrashes
  <2>1. /\ UNCHANGED <<shop, edits, shopDay, readUpTo, readBegun, promised, removed, orderRows,
                       orderLines, refunds, orderCursor>>
        /\ shopStep' \in {"catalogue", "begin", "payouts", "idle"}
    BY <1>4 DEF BeginShopify, BeginBackfill, SyncCatalogue, SyncPayouts, ShopifySyncFails,
                ShopifyCrashes, ShopifyIdle, tables, store, writing, history
  <2>2. Underway' => Underway
    BY <2>1 DEF Underway, OrderSteps, HandSteps
  <2> QED
    BY <1>2, <2>1, <2>2
<1>5. CASE ReadOrders \/ UpsertCustomers \/ DatesWritten \/ \E c \in Customers : WriteDate(c)
  <2>1. /\ UNCHANGED <<shop, edits, shopDay, readUpTo, readBegun, promised, removed, orderRows,
                       orderLines, refunds, orderCursor>>
        /\ shopStep \in OrderSteps
    BY <1>5 DEF ReadOrders, UpsertCustomers, DatesWritten, WriteDate, tables, store, history,
                sync, OrderSteps, HandSteps
  <2>2. Underway' => Underway
    BY <2>1 DEF Underway
  <2> QED
    BY <1>2, <2>1, <2>2
<1>6. ASSUME NEW cutoff, DeleteOrdersBefore(cutoff) PROVE WindowInv'
  <2>1. Quiet
    BY <1>6 DEF DeleteOrdersBefore, store, sync, Underway
  <2> QED
    BY <1>2, <2>1
<1>7. CASE UNCHANGED shopVars
  <2>1. Quiet
    BY <1>7 DEF shopVars, store, tables, sync, history, Underway
  <2> QED
    BY <1>2, <2>1
<1>8. CASE BeginOrders \/ WriteOrders \/ WriteOrderLines \/ WriteRefunds \/ AdvanceOrders
  BY <1>8, BeginKeepsWindows, WritingKeepsWindows, AdvanceKeepsWindows
<1> HIDE DEF Quiet
<1> QED
  BY <1>1, <1>3, <1>4, <1>5, <1>6, <1>7, <1>8 DEF ShopNext, ImportShopify

(* Nothing falls between the windows of two reads, an old order refunded    *)
(* late included, while each begins no later than OrderWindow days after    *)
(* the one before it; unless a backfill is started over an interrupted sync.*)
THEOREM NoGapBetweenWindows ==
  ASSUME ~Careless
  PROVE  ShopSpec => []WindowsLeaveNoGap
<1>1. /\ ImportInv /\ ResumeInv /\ WindowInv /\ [ShopNext]_shopVars
      => ImportInv' /\ ResumeInv' /\ WindowInv'
  BY ImportStep, ResumeStep, WindowStep
<1>2. ImportInv /\ WindowInv => WindowsLeaveNoGap
  BY DEF WindowInv
<1> QED
  BY InitImportInv, InitResumeInv, InitWindowInv, <1>1, <1>2, PTL DEF ShopSpec
=============================================================================
