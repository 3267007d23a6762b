------------------------------ MODULE AdMetrics ------------------------------
(***************************************************************************)
(* The import of advertising: refreshMeta and refreshTikTok                *)
(* (lib/connectors/pipeline.ts) read the hierarchy, then the daily         *)
(* figures level by level, account first (meta/sync.ts, tiktok/sync.ts),   *)
(* and upsert them into ad_daily_metrics (repositories/meta-repository.ts, *)
(* tiktok-repository.ts) while the platforms go on charging and restate    *)
(* what they charged.  A row without an entity is the account's: the P&L   *)
(* adds up those alone, because every level repeats the same spend.        *)
(*                                                                         *)
(* One level below the account stands for campaigns, ad sets and ads.  A   *)
(* window is a page of the account level; the pages of the finer levels,   *)
(* which no total reads, are read as one.                                  *)
(***************************************************************************)
EXTENDS Integers, FiniteSets, FiniteSetsExt

CONSTANTS
  MetaEntities, TikTokEntities,  \* campaigns, ad sets and ads
  RestatementWindow,             \* RESTATEMENT_WINDOW_DAYS
  RestatedDays,                  \* for how many days a platform restates a day
  Undated,                       \* TikTok entities whose rows come without stat_time_day
  Refused,                       \* the conversion metrics TikTok does not know
  LastAdDay, MaxCharges, MaxAdFaults   \* bounds

Platforms == {"meta", "tiktok"}
EntitiesOf(p) == IF p = "meta" THEN MetaEntities ELSE TikTokEntities
Entities == MetaEntities \cup TikTokEntities
Account == "account"      \* entity_id is null
AdDays == 1..LastAdDay

ASSUME EntitiesAssumption == /\ IsFiniteSet(Entities)
                             /\ MetaEntities \cap TikTokEntities = {}
                             /\ Account \notin Entities
                             /\ Undated \subseteq TikTokEntities
                             /\ Refused \in BOOLEAN
ASSUME WindowAssumption ==
  /\ {RestatementWindow, RestatedDays, LastAdDay, MaxCharges, MaxAdFaults} \subseteq Nat
  /\ RestatedDays < RestatementWindow

VARIABLES
  running,      \* the entities that exist at the platforms
  charged,      \* what each entity was charged for each day
  revised,      \* the number of the charge that last changed a day's account total
  charges,      \* how many there were
  today,
  entities,          \* ad_entities
  metrics,           \* ad_daily_metrics
  adStep, platform,  \* where the refresh is: "idle", a sync, or its upsert
  insights,          \* the normalised rows in hand
  billed,            \* history: the totals each platform charged for a day
  accountRead,       \* history: when the account level was read
  readThrough,       \* history: every charge up to rev, made by that day, was read
  adFaults

ads == <<running, charged, revised, charges, today>>
adVars == <<ads, entities, metrics, adStep, platform, insights,
            billed, accountRead, readThrough, adFaults>>

MetricRows == [platform : Platforms, entity : Entities \cup {Account}, day : AdDays,
               spend : Nat, rev : Nat, measured : BOOLEAN]
AccountReads == [rev : Nat, day : Nat]

AdTypeOK ==
  /\ running \subseteq Entities
  /\ charged \in [Entities -> [AdDays -> Nat]]
  /\ revised \in [Platforms -> [AdDays -> Nat]]
  /\ charges \in 0..MaxCharges /\ today \in AdDays
  /\ entities \subseteq Entities
  /\ metrics \subseteq MetricRows
  /\ adStep \in {"idle", "hierarchy", "account", "entity", "writing account", "writing entity"}
  /\ platform \in Platforms
  /\ insights \subseteq [entity : Entities \cup {Account}, day : AdDays, spend : Nat, rev : Nat,
                        measured : BOOLEAN]
  /\ billed \in [Platforms -> [AdDays -> SUBSET Nat]]
  /\ accountRead \in AccountReads /\ readThrough \in [Platforms -> AccountReads]
  /\ adFaults \in 0..MaxAdFaults

AdInit ==
  /\ running = {}
  /\ charged = [e \in Entities |-> [d \in AdDays |-> 0]]
  /\ revised = [p \in Platforms |-> [d \in AdDays |-> 0]]
  /\ charges = 0 /\ today = 1
  /\ entities = {} /\ metrics = {}
  /\ adStep = "idle" /\ platform = "meta" /\ insights = {}
  /\ billed = [p \in Platforms |-> [d \in AdDays |-> {0}]]
  /\ accountRead = [rev |-> 0, day |-> 1]
  /\ readThrough = [p \in Platforms |-> [rev |-> 0, day |-> 1]]
  /\ adFaults = 0

-----------------------------------------------------------------------------
(* The platforms.                                                           *)

AccountTotal(p, d) == SumFunctionOnSet([e \in Entities |-> charged[e][d]], EntitiesOf(p))

Charge(p, e, d) ==
  /\ charges < MaxCharges
  /\ d \in today - RestatedDays .. today
  /\ running' = running \cup {e}
  /\ charged' = [charged EXCEPT ![e][d] = @ + 1]
  /\ charges' = charges + 1
  /\ revised' = [revised EXCEPT ![p][d] = charges + 1]
  /\ billed' = [billed EXCEPT ![p][d] = @ \cup {AccountTotal(p, d) + 1}]
  /\ UNCHANGED <<today, entities, metrics, adStep, platform, insights, accountRead,
                 readThrough, adFaults>>

AdDayPasses ==
  /\ today < LastAdDay
  /\ today' = today + 1
  /\ UNCHANGED <<running, charged, revised, charges, entities, metrics, adStep, platform, insights,
                 billed, accountRead, readThrough, adFaults>>

-----------------------------------------------------------------------------
(* refreshMeta, then refreshTikTok.  A sync that fails is recorded and the  *)
(* next one runs.                                                           *)

BeginAds ==
  /\ adStep = "idle"
  /\ adStep' = "hierarchy" /\ platform' = "meta"
  /\ UNCHANGED <<ads, entities, metrics, insights, billed, accountRead, readThrough,
                 adFaults>>

AfterAdSync(sync) ==
  CASE sync = "hierarchy" -> adStep' = "account" /\ UNCHANGED platform
    [] sync = "account"   -> adStep' = "entity" /\ UNCHANGED platform
    [] sync = "entity" /\ platform = "meta"   -> adStep' = "hierarchy" /\ platform' = "tiktok"
    [] sync = "entity" /\ platform = "tiktok" -> adStep' = "idle" /\ platform' = "meta"

(* persistEntities, parents before children.                                *)
PersistEntities(es) == entities' = entities \cup es

(* buildMetaHierarchySyncJob and buildTikTokHierarchySyncJob: getAll reads  *)
(* every page before anything is written.                                   *)
SyncHierarchy ==
  /\ adStep = "hierarchy"
  /\ PersistEntities(EntitiesOf(platform) \cap running)
  /\ AfterAdSync("hierarchy")
  /\ UNCHANGED <<ads, metrics, insights, billed, accountRead, readThrough, adFaults>>

(* Faulty: yesterday alone.                                                 *)
YesterdayAlone == {today - 1} \cap AdDays

(* incrementalWindow.                                                       *)
IncrementalWindow == (today - RestatementWindow .. today) \cap AdDays

(* The rows of the account level, one a day, in the account's timezone.     *)
AccountRows(p, days) ==
  {[entity |-> Account, day |-> d, spend |-> AccountTotal(p, d), rev |-> revised[p][d],
    measured |-> TRUE] : d \in {x \in days : \E e \in EntitiesOf(p) : charged[e][x] > 0}}

EntityRows(p, days) ==
  {[entity |-> e, day |-> d, spend |-> charged[e][d], rev |-> 0, measured |-> TRUE] :
     e \in EntitiesOf(p) \cap running, d \in days}

RowsOf(p, level, days) ==
  IF level = "account" THEN AccountRows(p, days) ELSE EntityRows(p, days)

(* normaliseInsights.                                                       *)
MetaPage(level) == RowsOf("meta", level, IncrementalWindow)

(* reportWithFallback: metrics TikTok refuses are asked for no more.        *)
ReportRows(level) ==
  {[r EXCEPT !.measured = ~Refused] : r \in RowsOf("tiktok", level, IncrementalWindow)}

(* normaliseReports drops the rows without a date.                          *)
TikTokPage(level) == {r \in ReportRows(level) : r.entity \notin Undated}

PageOf(level) == IF platform = "meta" THEN MetaPage(level) ELSE TikTokPage(level)

(* buildMetaInsightsSyncJob and buildTikTokReportSyncJob: fetchPage.        *)
ReadLevel(level) ==
  /\ adStep = level
  /\ insights' = PageOf(level)
  /\ adStep' = IF level = "account" THEN "writing account" ELSE "writing entity"
  /\ accountRead' = IF level = "account" THEN [rev |-> charges, day |-> today] ELSE accountRead
  /\ UNCHANGED <<ads, entities, metrics, platform, billed, readThrough, adFaults>>

(* persistInsights and persistReports leave out a row whose entity is not   *)
(* in ad_entities, and below the account a row without one.                 *)
Resolved(level) ==
  IF level = "account" THEN insights ELSE {r \in insights : r.entity \in entities}

(* Faulty: the natural key before migration 0007, nulls distinct.           *)
SameKeyNullsDistinct(r, n) ==
  r.platform = n.platform /\ r.entity = n.entity /\ r.day = n.day /\ r.entity # Account

(* ad_daily_metrics_natural_key, nulls not distinct.  A platform has one    *)
(* account and one attribution key.                                         *)
SameKey(r, n) == r.platform = n.platform /\ r.entity = n.entity /\ r.day = n.day

UpsertMetrics(new) == metrics' = {r \in metrics : \A n \in new : ~SameKey(r, n)} \cup new

(* A fresh read of the account level leaves nothing out that was charged    *)
(* since the last one, if that is not too long ago.                         *)
Reaches ==
  \/ accountRead.day - RestatementWindow <= readThrough[platform].day - RestatedDays
  \/ accountRead.day <= RestatementWindow

PersistRows(level) ==
  /\ adStep = (IF level = "account" THEN "writing account" ELSE "writing entity")
  /\ UpsertMetrics({[platform |-> platform, entity |-> r.entity, day |-> r.day, spend |-> r.spend,
                     rev |-> r.rev, measured |-> r.measured] : r \in Resolved(level)})
  /\ readThrough' = IF level = "account" /\ Reaches
                   THEN [readThrough EXCEPT ![platform] = accountRead] ELSE readThrough
  /\ insights' = {}
  /\ AfterAdSync(level)
  /\ UNCHANGED <<ads, entities, billed, accountRead, adFaults>>

SyncOf(at) == CASE at = "writing account" -> "account"
                [] at = "writing entity"  -> "entity"
                [] OTHER                  -> at

AdSyncFails ==
  /\ adStep # "idle"
  /\ adFaults < MaxAdFaults /\ adFaults' = adFaults + 1
  /\ insights' = {}
  /\ AfterAdSync(SyncOf(adStep))
  /\ UNCHANGED <<ads, entities, metrics, billed, accountRead, readThrough>>

AdsCrash ==
  /\ adStep # "idle"
  /\ adFaults < MaxAdFaults /\ adFaults' = adFaults + 1
  /\ insights' = {}
  /\ adStep' = "idle" /\ platform' = "meta"
  /\ UNCHANGED <<ads, entities, metrics, billed, accountRead, readThrough>>

-----------------------------------------------------------------------------
Levels == {"account", "entity"}

AdNext == \/ \E p \in Platforms : \E e \in EntitiesOf(p), d \in AdDays : Charge(p, e, d)
          \/ AdDayPasses
          \/ BeginAds \/ SyncHierarchy
          \/ \E level \in Levels : ReadLevel(level) \/ PersistRows(level)
          \/ AdSyncFails \/ AdsCrash

AdSpec == AdInit /\ [][AdNext]_adVars

-----------------------------------------------------------------------------
(* Properties.                                                              *)

AccountRowsOf(p, d) == {r \in metrics : r.platform = p /\ r.entity = Account /\ r.day = d}

(* What loadAdSpend adds up for a day of a platform.                        *)
LoadAdSpend(p, d) == SumFunction([r \in AccountRowsOf(p, d) |-> r.spend])

(* Advertising is counted once: what the P&L charges a day with is a total  *)
(* the platform charged for that day at some moment, however often the day  *)
(* is imported again, and whether or not its campaigns were known.          *)
SpendIsCountedOnce ==
  \A p \in Platforms, d \in AdDays : LoadAdSpend(p, d) \in billed[p][d]

(* "a sync that only ever fetched yesterday would freeze the first, lowest  *)
(* figure" (meta/sync.ts): once a refresh has read the account level, every *)
(* charge and restatement before it is in the figures, although hierarchy   *)
(* and finer levels failed and nights were missed, as long as the window    *)
(* reaches back over what was restated since the last read.                 *)
RestatementsAreImported ==
  \A p \in Platforms, d \in AdDays :
    revised[p][d] \in 1..readThrough[p].rev =>
      \E r \in AccountRowsOf(p, d) : r.rev >= revised[p][d]
=============================================================================
