----------------------------- MODULE SavedReports -----------------------------
(***************************************************************************)
(* Custom reports: a report is a query string that the page and the CSV    *)
(* route parse alike (app/(dashboard)/reports/query.ts), and that people   *)
(* save by name, open again and delete (lib/reporting/saved-reports.ts,    *)
(* reports/actions.ts) while others do the same and deployments add and    *)
(* remove metrics.  A page on screen stays as it was rendered; what it     *)
(* saves was in its hidden fields.  Figures are Figures' matter.           *)
(***************************************************************************)
EXTENDS Integers, FiniteSets

CONSTANTS
  People,
  Viewers,         \* people whom row level security refuses writes
  Names,           \* names of reports
  Metrics,         \* metric keys that were ever in a catalogue
  DefaultMetrics,  \* DEFAULT_METRICS, in every catalogue
  MostMetrics,     \* 20
  Dates,           \* dates of custom ranges
  Links,           \* the links people follow and the forms they fill in
  MaxSaves,        \* bound: reports saved
  MaxDeployments   \* bound: deployments

ASSUME ReportsAssumption == /\ Viewers \subseteq People
                            /\ DefaultMetrics \subseteq Metrics /\ DefaultMetrics # {}
                            /\ IsFiniteSet(Metrics)
                            /\ Dates \subseteq Nat \ {0}
                            /\ \A q \in Links : q.metrics \subseteq Metrics
                            /\ {MostMetrics, MaxSaves, MaxDeployments} \subseteq Nat

Absent == 0           \* no value in the query string, or null
Malformed == -1       \* a value that is none of those there are
Grains == {1, 2}      \* REPORT_GRAINS
Timeframes == {1, 2}  \* TIMEFRAMES
MonthGrain == 1       \* "month"
ThirtyDays == 1       \* "30d"

Specifications == [metrics : SUBSET Metrics, grain : Grains, timeframe : Timeframes \cup {Absent},
                   from : Dates \cup {Absent}, to : Dates \cup {Absent}]
NoReport == [id |-> 0]
NoScreen == [metrics |-> {}, grain |-> MonthGrain, timeframe |-> ThirtyDays,
             from |-> Absent, to |-> Absent]

VARIABLES
  catalogue,    \* METRIC_CATALOGUE of the deployment
  savedReports, \* saved_reports, by name
  screens,      \* the report on each person's screen
  listed,       \* the ids of the saved reports listed there
  told,         \* history: what was on screen when a report was last "saved"
  saves, deployments

reportVars == <<catalogue, savedReports, screens, listed, told, saves, deployments>>

ReportsTypeOK ==
  /\ catalogue \in SUBSET Metrics /\ DefaultMetrics \subseteq catalogue
  /\ \A n \in Names : savedReports[n].id \in 0..MaxSaves
  /\ screens \in [People -> Specifications]
  /\ listed \in [People -> SUBSET (1..MaxSaves)]
  /\ told \in [Names -> Specifications]
  /\ saves \in 0..MaxSaves /\ deployments \in 0..MaxDeployments

ReportsInit ==
  /\ catalogue = Metrics
  /\ savedReports = [n \in Names |-> NoReport]
  /\ screens = [u \in People |-> NoScreen]
  /\ listed = [u \in People |-> {}]
  /\ told = [n \in Names |-> NoScreen]
  /\ saves = 0 /\ deployments = 0

-----------------------------------------------------------------------------
(* query.ts.                                                                *)

RejectedMetrics(q) == q.metrics \ catalogue
HasCustomRange(q) == q.from \in Dates /\ q.to \in Dates /\ q.from <= q.to

ParseReport(q) ==
  LET asked == q.metrics \cap catalogue
      custom == HasCustomRange(q)
  IN  [metrics   |-> IF asked # {} THEN asked ELSE DefaultMetrics,
       grain     |-> IF q.grain \in Grains THEN q.grain ELSE MonthGrain,
       timeframe |-> CASE custom -> Absent
                       [] ~custom /\ q.timeframe \in Timeframes -> q.timeframe
                       [] OTHER -> ThirtyDays,
       from      |-> IF custom THEN q.from ELSE Absent,
       to        |-> IF custom THEN q.to ELSE Absent]

(* Faulty: a named timeframe wins over the dates.                           *)
ReportQueryNamed(s) ==
  [metrics |-> s.metrics, grain |-> s.grain, timeframe |-> s.timeframe, from |-> Absent, to |-> Absent]

(* The dates of a range, or else the timeframe.                             *)
ReportQuery(s) ==
  [metrics |-> s.metrics, grain |-> s.grain,
   timeframe |-> IF s.from = Absent THEN s.timeframe ELSE Absent, from |-> s.from, to |-> s.to]

-----------------------------------------------------------------------------
(* The page.                                                                *)

RowsThere == {n \in Names : savedReports[n] # NoReport}

(* ReportsPage, for a link or a filled-in form.                             *)
Show(u, q) ==
  /\ screens' = [screens EXCEPT ![u] = ParseReport(q)]
  /\ listed' = [listed EXCEPT ![u] = {savedReports[n].id : n \in RowsThere}]
  /\ UNCHANGED <<catalogue, savedReports, told, saves, deployments>>

UnknownMetrics(r) == r.metricKeys \ catalogue

(* toSavedReport, and the link it is opened by.                             *)
LinkOf(r) == ReportQuery([metrics |-> r.metricKeys \ UnknownMetrics(r), grain |-> r.grain,
                          timeframe |-> r.timeframe, from |-> r.from, to |-> r.to])

OpenReport(u, n) == savedReports[n].id \in listed[u] /\ Show(u, LinkOf(savedReports[n]))

-----------------------------------------------------------------------------
(* saveReport and deleteReport.                                             *)

(* The draft of the hidden fields of a page.                                *)
DraftOf(s) ==
  LET ranged == s.from # Absent /\ s.to # Absent IN
  [metricKeys |-> s.metrics,
   grain      |-> IF s.grain \in Grains THEN s.grain ELSE MonthGrain,
   timeframe  |-> CASE ranged -> Absent
                    [] ~ranged /\ s.timeframe \in Timeframes -> s.timeframe
                    [] OTHER  -> ThirtyDays,
   from       |-> IF ranged THEN s.from ELSE Absent,
   to         |-> IF ranged THEN s.to ELSE Absent]

(* validateDraft, which the action and the repository both ask.             *)
Valid(d) == /\ d.metricKeys # {} /\ d.metricKeys \subseteq catalogue
            /\ Cardinality(d.metricKeys) <= MostMetrics
            /\ (d.timeframe # Absent) # (d.from # Absent)
            /\ d.from <= d.to

(* The CHECKs of saved_reports.                                             *)
Storable(d) == /\ Cardinality(d.metricKeys) \in 1..MostMetrics
               /\ \/ d.timeframe # Absent /\ d.from = Absent /\ d.to = Absent
                  \/ d.timeframe = Absent /\ d.from # Absent /\ d.to # Absent
               /\ d.to >= d.from

(* revalidatePath: the page of who saved or deleted is rendered again.      *)
Revalidate(u) ==
  /\ screens' = [screens EXCEPT ![u] = ParseReport(ReportQuery(screens[u]))]
  /\ listed' = [listed EXCEPT ![u] =
                  {savedReports'[n].id : n \in {m \in Names : savedReports'[m] # NoReport}}]

(* The upsert on the name keeps the id of a row that is there.              *)
SaveReport(u, n) ==
  LET d == DraftOf(screens[u])
      id == IF savedReports[n] = NoReport THEN saves + 1 ELSE savedReports[n].id
  IN  /\ u \notin Viewers
      /\ saves < MaxSaves
      /\ Valid(d) /\ Storable(d)
      /\ savedReports' = [savedReports EXCEPT ![n] =
           [id |-> id, metricKeys |-> d.metricKeys, grain |-> d.grain, timeframe |-> d.timeframe,
            from |-> d.from, to |-> d.to]]
      /\ told' = [told EXCEPT ![n] = screens[u]]
      /\ saves' = saves + 1
      /\ Revalidate(u)
      /\ UNCHANGED <<catalogue, deployments>>

(* By the id on screen: a report saved again under its name is the same     *)
(* row, one deleted and saved again is not.                                 *)
DeleteReport(u, id) ==
  /\ u \notin Viewers
  /\ id \in listed[u]
  /\ savedReports' = [n \in Names |->
       IF savedReports[n].id = id THEN NoReport ELSE savedReports[n]]
  /\ Revalidate(u)
  /\ UNCHANGED <<catalogue, told, saves, deployments>>

Deploy(metrics) ==
  /\ deployments < MaxDeployments
  /\ catalogue' = DefaultMetrics \cup metrics
  /\ deployments' = deployments + 1
  /\ UNCHANGED <<savedReports, screens, listed, told, saves>>

-----------------------------------------------------------------------------
ReportsNext == \/ \E u \in People : \/ \E q \in Links : Show(u, q)
                                    \/ \E n \in Names : OpenReport(u, n) \/ SaveReport(u, n)
                                    \/ \E id \in 1..MaxSaves : DeleteReport(u, id)
               \/ \E metrics \in SUBSET Metrics : Deploy(metrics)

ReportsSpec == ReportsInit /\ [][ReportsNext]_reportVars

-----------------------------------------------------------------------------
(* "What gets saved is unambiguously what was shown" (report-form.tsx), and *)
(* a metric that is gone is "surfaced rather than dropped"                  *)
(* (saved-reports.ts): a saved report opens as it was on the screen of the  *)
(* last person who was told it was saved, and names the metrics it had to   *)
(* leave out, whoever saved, deleted and deployed in between.               *)
SavedReportsReopen ==
  \A n \in RowsThere :
    LET seen == ParseReport(LinkOf(savedReports[n]))
        known == told[n].metrics \cap catalogue
    IN  /\ known # {} => seen = [told[n] EXCEPT !.metrics = known]
        /\ UnknownMetrics(savedReports[n]) = told[n].metrics \ catalogue
=============================================================================
