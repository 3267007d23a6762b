----------------------------- MODULE RecordsProofs -----------------------------
(***************************************************************************)
(* What is recorded, saved and exported can be relied on, with any number  *)
(* of runners, people and exporters: migrations that are recorded are      *)
(* applied, a saved report opens as it was saved, an export leaves its     *)
(* figures and nothing else, and protections do not pile up.               *)
(***************************************************************************)
EXTENDS SavedReports, Migrations, SheetsExport, FiniteSetTheorems, TLAPS

-----------------------------------------------------------------------------
(* Migrations.  A runner that has read schema_migrations has every file of  *)
(* its checkout recorded or outstanding, and works on the first of those;   *)
(* so that, on checkouts without gaps, the files recorded are the first     *)
(* ones, and the next that is not recorded sorts after all of them.         *)

InFile == {"begun", "applied", "recorded"}

MigrationShape == /\ DOMAIN runStep = Runners /\ DOMAIN pending = Runners
                  /\ DOMAIN applying = Runners /\ DOMAIN open = Runners

WorksInOrder(r) ==
  /\ pending[r] \subseteq CheckoutOf[r]
  /\ runStep[r] \in InFile \cup {"next"} => CheckoutOf[r] \subseteq versions \cup pending[r]
  /\ runStep[r] \in InFile => /\ open[r]
                              /\ applying[r] \in pending[r]
                              /\ \A g \in pending[r] : applying[r] <= g
  /\ runStep[r] = "recorded" => applying[r] \notin versions

OneRecords == \A r, s \in Runners :
  r # s /\ runStep[r] = "recorded" /\ runStep[s] = "recorded" => applying[r] # applying[s]

FirstOnes == Linear => \A v \in versions, g \in Files : g < v => g \in versions

SchemaInv == /\ schema \in Seq(Files)
             /\ RecordedIsApplied
             /\ FirstOnes

MigrationsInv == /\ MigrationShape /\ SchemaInv /\ OneRecords
                 /\ \A r \in Runners : WorksInOrder(r)

LEMMA InitMigrationsInv == MigrationsInit => MigrationsInv
<1> SUFFICES ASSUME MigrationsInit PROVE MigrationsInv
  OBVIOUS
<1>1. SchemaInv
  BY DEF MigrationsInit, SchemaInv, RecordedIsApplied, FirstOnes
<1> QED
  BY <1>1 DEF MigrationsInit, MigrationsInv, MigrationShape, OneRecords, WorksInOrder, InFile

LEMMA FilesAreNumbers ==
  ASSUME NEW r \in Runners
  PROVE  CheckoutOf[r] \subseteq Files /\ Files \subseteq Nat
  BY MigrationsAssumption

(* The file of a transaction that commits sorts after those recorded.       *)
LEMMA CommitKeepsSchema ==
  ASSUME MigrationsInv, NEW r \in Runners, CommitFile(r)
  PROVE  /\ SchemaInv'
         /\ versions' = versions \cup {applying[r]} /\ applying[r] \in pending[r]
<1> DEFINE f == applying[r]
           n == Len(schema)
<1>1. /\ f \in pending[r] /\ f \in CheckoutOf[r] /\ f \in Files /\ f \notin versions
      /\ \A g \in pending[r] : f <= g
      /\ CheckoutOf[r] \subseteq versions \cup pending[r]
      /\ schema' = Append(schema, f) /\ versions' = versions \cup {f}
  BY FilesAreNumbers DEF CommitFile, MigrationsInv, WorksInOrder, InFile
<1>2. /\ schema \in Seq(Files) /\ n \in Nat /\ DOMAIN schema = 1..n
      /\ versions = {schema[i] : i \in 1..n} /\ versions \subseteq Files
      /\ \A i, j \in 1..n :
           i < j => schema[i] # schema[j] /\ (Linear => schema[i] < schema[j])
      /\ Linear => \A v \in versions, g \in Files : g < v => g \in versions
  BY DEF MigrationsInv, SchemaInv, RecordedIsApplied, FirstOnes
<1> HIDE DEF f, n
<1>3. /\ schema' \in Seq(Files) /\ DOMAIN schema' = 1 .. n + 1
      /\ schema'[n + 1] = f /\ \A i \in 1..n : schema'[i] = schema[i]
  BY <1>1, <1>2 DEF n
<1>4. Linear => \A g \in Files : g < f => g \in versions
  <2> SUFFICES ASSUME Linear, NEW g \in Files, g < f PROVE g \in versions
    OBVIOUS
  <2>1. g \in CheckoutOf[r]
    BY <1>1 DEF Linear
  <2>2. g \notin pending[r]
    BY <1>1, FilesAreNumbers
  <2> QED
    BY <1>1, <2>1, <2>2
<1>5. Linear => \A v \in versions : v < f
  <2> SUFFICES ASSUME Linear, NEW v \in versions PROVE v < f
    OBVIOUS
  <2>1. ~(f < v)
    BY <1>1, <1>2
  <2> QED
    BY <1>1, <1>2, <2>1, FilesAreNumbers
<1>6. \A i, j \in 1 .. n + 1 : i < j =>
        schema'[i] # schema'[j] /\ (Linear => schema'[i] < schema'[j])
  <2> SUFFICES ASSUME NEW i \in 1 .. n + 1, NEW j \in 1 .. n + 1, i < j
               PROVE  schema'[i] # schema'[j] /\ (Linear => schema'[i] < schema'[j])
    OBVIOUS
  <2>1. i \in 1..n /\ schema'[i] = schema[i] /\ schema[i] \in versions
    BY <1>2, <1>3
  <2>2. CASE j = n + 1
    BY <1>1, <1>3, <1>5, <2>1, <2>2
  <2>3. CASE j \in 1..n
    BY <1>2, <1>3, <2>1, <2>3
  <2> QED
    BY <1>2, <2>2, <2>3
<1>7. versions' = {schema'[i] : i \in 1 .. n + 1}
  <2>1. \A i \in 1 .. n + 1 : i \in 1..n \/ i = n + 1
    BY <1>2
  <2>2. 1..n \subseteq 1 .. n + 1 /\ n + 1 \in 1 .. n + 1
    BY <1>2
  <2> QED
    BY <1>1, <1>2, <1>3, <2>1, <2>2
<1>8. FirstOnes'
  BY <1>1, <1>2, <1>4 DEF FirstOnes, Linear
<1> QED
  BY <1>1, <1>3, <1>6, <1>7, <1>8 DEF SchemaInv, RecordedIsApplied, Linear, f

(* What another runner does leaves one with what it knows: rows are added   *)
(* and never taken away, and nobody commits the file that it has recorded.  *)
LEMMA OtherRunners ==
  ASSUME MigrationsInv, NEW r \in Runners, NEW s \in Runners, r # s,
         runStep'[s] = runStep[s], pending'[s] = pending[s],
         applying'[s] = applying[s], open'[s] = open[s],
         \/ versions' = versions
         \/ versions' = versions \cup {applying[r]} /\ runStep[r] = "recorded"
  PROVE  WorksInOrder(s)'
  BY DEF MigrationsInv, WorksInOrder, OneRecords, InFile

LEMMA StepMigrationsInv ==
  ASSUME MigrationsInv, [MigrationsNext]_migrationVars
  PROVE  MigrationsInv'
<1> USE DEF MigrationShape, InFile, To
<1>1. ASSUME NEW r \in Runners,
             StartRunner(r) \/ ReadApplied(r) \/ BeginFile(r) \/ NothingPending(r)
             \/ ApplyFile(r) \/ FileFails(r) \/ InsertVersion(r) \/ KillRunner(r)
      PROVE  MigrationsInv'
  <2>1. /\ UNCHANGED <<schema, versions>> /\ MigrationShape'
        /\ \A s \in Runners \ {r} : /\ runStep'[s] = runStep[s] /\ pending'[s] = pending[s]
                                    /\ applying'[s] = applying[s] /\ open'[s] = open[s]
    <3> USE DEF MigrationsInv
    <3>1. CASE StartRunner(r)
      BY <3>1 DEF StartRunner
    <3>2. CASE ReadApplied(r)
      BY <3>2 DEF ReadApplied
    <3>3. CASE BeginFile(r)
      BY <3>3 DEF BeginFile
    <3>4. CASE NothingPending(r)
      BY <3>4 DEF NothingPending
    <3>5. CASE ApplyFile(r)
      BY <3>5 DEF ApplyFile, StripOwnTransaction, WorksInOrder
    <3>6. CASE FileFails(r)
      BY <3>6 DEF FileFails, Stop
    <3>7. CASE InsertVersion(r)
      BY <3>7 DEF InsertVersion, Stop, WorksInOrder
    <3>8. CASE KillRunner(r)
      BY <3>8 DEF KillRunner, Stop
    <3> QED
      BY <1>1, <3>1, <3>2, <3>3, <3>4, <3>5, <3>6, <3>7, <3>8
  <2>2. SchemaInv'
    BY <2>1 DEF MigrationsInv, SchemaInv, RecordedIsApplied, FirstOnes, Linear
  <2>3. \A s \in Runners \ {r} : WorksInOrder(s)'
    BY <2>1, OtherRunners
  <2>4. /\ WorksInOrder(r)'
        /\ runStep'[r] = "recorded" =>
             \A s \in Runners \ {r} : ~(applying[s] = applying'[r] /\ runStep[s] = "recorded")
    <3> USE DEF MigrationsInv, WorksInOrder
    <3>1. CASE StartRunner(r)
      BY <3>1 DEF StartRunner
    <3>2. CASE ReadApplied(r)
      BY <3>2 DEF ReadApplied
    <3>3. CASE BeginFile(r)
      BY <3>3 DEF BeginFile
    <3>4. CASE NothingPending(r)
      BY <3>4 DEF NothingPending
    <3>5. CASE ApplyFile(r)
      BY <3>5 DEF ApplyFile, StripOwnTransaction
    <3>6. CASE FileFails(r)
      BY <3>6 DEF FileFails, Stop
    <3>7. CASE InsertVersion(r)
      BY <3>7 DEF InsertVersion, Stop
    <3>8. CASE KillRunner(r)
      BY <3>8 DEF KillRunner, Stop
    <3> QED
      BY <1>1, <3>1, <3>2, <3>3, <3>4, <3>5, <3>6, <3>7, <3>8
  <2>5. OneRecords'
    BY <2>1, <2>4 DEF MigrationsInv, OneRecords
  <2> QED
    BY <2>1, <2>2, <2>3, <2>4, <2>5 DEF MigrationsInv
<1>2. ASSUME NEW r \in Runners, CommitFile(r) PROVE MigrationsInv'
  <2>1. /\ SchemaInv'
        /\ versions' = versions \cup {applying[r]} /\ applying[r] \in pending[r]
    BY <1>2, CommitKeepsSchema
  <2>2. /\ MigrationShape' /\ runStep[r] = "recorded" /\ runStep'[r] = "next"
        /\ pending'[r] = pending[r] \ {applying[r]}
        /\ \A s \in Runners \ {r} : /\ runStep'[s] = runStep[s] /\ pending'[s] = pending[s]
                                    /\ applying'[s] = applying[s] /\ open'[s] = open[s]
    BY <1>2 DEF CommitFile, MigrationsInv
  <2>3. \A s \in Runners \ {r} : WorksInOrder(s)'
    BY <2>1, <2>2, OtherRunners
  <2>4. WorksInOrder(r)'
    BY <2>1, <2>2 DEF MigrationsInv, WorksInOrder
  <2>5. OneRecords'
    BY <2>2 DEF MigrationsInv, OneRecords
  <2> QED
    BY <2>1, <2>2, <2>3, <2>4, <2>5 DEF MigrationsInv
<1>3. CASE UNCHANGED migrationVars
  BY <1>3 DEF migrationVars, MigrationsInv, SchemaInv, RecordedIsApplied, FirstOnes, Linear,
              OneRecords, WorksInOrder
<1> QED
  BY <1>1, <1>2, <1>3 DEF MigrationsNext, Migrate

(* "a migration can never be recorded as applied unless it actually was,    *)
(* and vice versa", none twice, and on checkouts without gaps in order.     *)
THEOREM RecordedMigrationsAreApplied == MigrationsSpec => []RecordedIsApplied
<1>1. MigrationsInv /\ [MigrationsNext]_migrationVars => MigrationsInv'
  BY StepMigrationsInv
<1>2. MigrationsInv => RecordedIsApplied
  BY DEF MigrationsInv, SchemaInv
<1> QED
  BY InitMigrationsInv, <1>1, <1>2, PTL DEF MigrationsSpec

-----------------------------------------------------------------------------
(* Saved reports.  What ParseReport returns is a report that its own link,  *)
(* and the draft of its page, give back; so that a stored row holds the     *)
(* report that was on screen, field by field.                               *)

WellFormed(s) ==
  /\ s \in Specifications
  /\ \/ s.timeframe \in Timeframes /\ s.from = Absent /\ s.to = Absent
     \/ s.timeframe = Absent /\ s.from \in Dates /\ s.to \in Dates /\ s.from <= s.to

Holds(row, s) == /\ row.metricKeys = s.metrics /\ row.grain = s.grain
                 /\ row.timeframe = s.timeframe /\ row.from = s.from /\ row.to = s.to

ReportsInv ==
  /\ catalogue \subseteq Metrics /\ DefaultMetrics \subseteq catalogue
  /\ DOMAIN screens = People /\ DOMAIN savedReports = Names /\ DOMAIN told = Names
  /\ \A u \in People : WellFormed(screens[u])
  /\ \A n \in Names : /\ WellFormed(told[n])
                      /\ savedReports[n] = NoReport \/ Holds(savedReports[n], told[n])

LEMMA ParsedIsWellFormed ==
  ASSUME NEW q, catalogue \subseteq Metrics, DefaultMetrics \subseteq catalogue
  PROVE  WellFormed(ParseReport(q))
<1> DEFINE s == ParseReport(q)
<1>1. s.metrics \in SUBSET Metrics /\ s.grain \in Grains
  BY DEF ParseReport, Grains, MonthGrain
<1>2. \/ s.timeframe \in Timeframes /\ s.from = Absent /\ s.to = Absent
      \/ s.timeframe = Absent /\ s.from \in Dates /\ s.to \in Dates /\ s.from <= s.to
  <2>1. CASE HasCustomRange(q)
    BY <2>1 DEF ParseReport, HasCustomRange, Absent
  <2>2. CASE ~HasCustomRange(q)
    BY <2>2 DEF ParseReport, Timeframes, ThirtyDays
  <2> QED
    BY <2>1, <2>2
<1>3. s = [metrics |-> s.metrics, grain |-> s.grain, timeframe |-> s.timeframe,
           from |-> s.from, to |-> s.to]
  BY DEF ParseReport
<1> HIDE DEF s
<1>4. s \in Specifications
  BY <1>1, <1>2, <1>3 DEF Specifications
<1> QED
  BY <1>2, <1>4 DEF WellFormed, s

LEMMA DraftHolds ==
  ASSUME NEW s, WellFormed(s)
  PROVE  Holds(DraftOf(s), s)
  BY ReportsAssumption
  DEF WellFormed, Specifications, Holds, DraftOf, Grains, Timeframes, Absent

(* A row opens as the report it holds, less the metrics that are gone.      *)
LEMMA RowReopens ==
  ASSUME NEW row, NEW s, WellFormed(s), Holds(row, s), s.metrics \cap catalogue # {}
  PROVE  ParseReport(LinkOf(row)) = [s EXCEPT !.metrics = s.metrics \cap catalogue]
<1> DEFINE known == s.metrics \cap catalogue
           link == LinkOf(row)
<1>1. /\ link.metrics = known /\ link.grain = s.grain /\ link.from = s.from /\ link.to = s.to
      /\ link.timeframe = IF s.from = Absent THEN s.timeframe ELSE Absent
  BY DEF LinkOf, ReportQuery, UnknownMetrics, Holds
<1> HIDE DEF link
<1>2. /\ link.metrics \cap catalogue = known
      /\ s.grain \in Grains
      /\ HasCustomRange(link) <=> s.from # Absent
  BY <1>1, ReportsAssumption
  DEF WellFormed, Specifications, HasCustomRange, Grains, Timeframes, Absent
<1>3. ParseReport(link) = [metrics |-> known, grain |-> s.grain, timeframe |-> s.timeframe,
                           from |-> s.from, to |-> s.to]
  <2>1. CASE s.from = Absent
    BY <1>1, <1>2, <2>1, ReportsAssumption
    DEF ParseReport, WellFormed, Specifications, Timeframes, Absent
  <2>2. CASE s.from # Absent
    BY <1>1, <1>2, <2>2, ReportsAssumption
    DEF ParseReport, WellFormed, Specifications, Timeframes, Absent
  <2> QED
    BY <2>1, <2>2
<1>4. [s EXCEPT !.metrics = known] = [metrics |-> known, grain |-> s.grain,
         timeframe |-> s.timeframe, from |-> s.from, to |-> s.to]
  BY DEF WellFormed, Specifications
<1> QED
  BY <1>3, <1>4 DEF link

LEMMA InitReportsInv == ReportsInit => ReportsInv
  BY ReportsAssumption
  DEF ReportsInit, ReportsInv, WellFormed, Specifications, NoScreen, MonthGrain, ThirtyDays,
      Grains, Timeframes, Absent

LEMMA StepReportsInv ==
  ASSUME ReportsInv, [ReportsNext]_reportVars
  PROVE  ReportsInv'
<1>1. ASSUME NEW u \in People, NEW q, Show(u, q) PROVE ReportsInv'
  BY <1>1, ParsedIsWellFormed DEF Show, ReportsInv, WellFormed
<1>2. ASSUME NEW u \in People, NEW n \in Names, SaveReport(u, n) PROVE ReportsInv'
  <2>1. Holds(DraftOf(screens[u]), screens[u]) /\ WellFormed(screens[u])
    BY DraftHolds DEF ReportsInv
  <2>2. /\ catalogue' = catalogue
        /\ screens' = [screens EXCEPT ![u] = ParseReport(ReportQuery(screens[u]))]
        /\ told' = [told EXCEPT ![n] = screens[u]]
    BY <1>2 DEF SaveReport, Revalidate
  <2>3. /\ DOMAIN savedReports' = Names
        /\ \A m \in Names \ {n} : savedReports'[m] = savedReports[m]
        /\ Holds(savedReports'[n], screens[u])
    BY <1>2, <2>1 DEF SaveReport, Holds, ReportsInv
  <2>4. WellFormed(ParseReport(ReportQuery(screens[u])))
    BY ParsedIsWellFormed DEF ReportsInv
  <2> QED
    BY <2>1, <2>2, <2>3, <2>4 DEF ReportsInv, WellFormed
<1>3. ASSUME NEW u \in People, NEW id, DeleteReport(u, id) PROVE ReportsInv'
  <2>1. WellFormed(ParseReport(ReportQuery(screens[u])))
    BY ParsedIsWellFormed DEF ReportsInv
  <2>2. /\ catalogue' = catalogue /\ told' = told
        /\ screens' = [screens EXCEPT ![u] = ParseReport(ReportQuery(screens[u]))]
        /\ DOMAIN savedReports' = Names
        /\ \A n \in Names : savedReports'[n] = NoReport \/ savedReports'[n] = savedReports[n]
    BY <1>3 DEF DeleteReport, Revalidate
  <2> QED
    BY <2>1, <2>2 DEF ReportsInv, WellFormed
<1>4. ASSUME NEW metrics \in SUBSET Metrics, Deploy(metrics) PROVE ReportsInv'
  BY <1>4, ReportsAssumption DEF Deploy, ReportsInv, WellFormed
<1>5. CASE UNCHANGED reportVars
  BY <1>5 DEF reportVars, ReportsInv, WellFormed
<1> QED
  BY <1>1, <1>2, <1>3, <1>4, <1>5 DEF ReportsNext, OpenReport

(* A saved report opens as it was on the screen of the last person who was  *)
(* told it was saved, and names the metrics it had to leave out.            *)
THEOREM ReportsReopen == ReportsSpec => []SavedReportsReopen
<1>1. ReportsInv /\ [ReportsNext]_reportVars => ReportsInv'
  BY StepReportsInv
<1>2. ASSUME ReportsInv PROVE SavedReportsReopen
  <2> SUFFICES ASSUME NEW n \in RowsThere
               PROVE  /\ told[n].metrics \cap catalogue # {} =>
                           ParseReport(LinkOf(savedReports[n])) =
                             [told[n] EXCEPT !.metrics = told[n].metrics \cap catalogue]
                      /\ UnknownMetrics(savedReports[n]) = told[n].metrics \ catalogue
    BY DEF SavedReportsReopen
  <2>1. WellFormed(told[n]) /\ Holds(savedReports[n], told[n])
    BY <1>2 DEF ReportsInv, RowsThere
  <2>2. UnknownMetrics(savedReports[n]) = told[n].metrics \ catalogue
    BY <2>1 DEF UnknownMetrics, Holds
  <2> QED
    BY <2>1, <2>2, RowReopens
<1> QED
  BY InitReportsInv, <1>1, <1>2, PTL DEF ReportsSpec

-----------------------------------------------------------------------------
(* The workbook.  While nobody else has touched it since an export cleared  *)
(* it, every tab is there, empty until the export writes, and then its own. *)

Written == {"listing again", "listing protected", "protecting"}

SheetShape == /\ DOMAIN exportStep = Exporters /\ DOMAIN gathered = Exporters
              /\ DOMAIN alone = Exporters /\ DOMAIN sheetId = Tabs
              /\ DOMAIN existing = Exporters /\ DOMAIN guarded = Exporters

LeftAlone(e) ==
  alone[e] => /\ exportStep[e] \in Written \cup {"updating"}
              /\ \A t \in Tabs : sheetId[t] # NoSheet
              /\ exportStep[e] = "updating" => cells = Cleared
              /\ exportStep[e] \in Written => \A t \in Tabs : Shows(t, gathered[e])

WholeInv == SheetShape /\ \A e \in Exporters : LeftAlone(e)

(* What happens to an export leaves another that is alone as it was.        *)
LEMMA AloneStays ==
  ASSUME WholeInv, NEW e \in Exporters, alone'[e] => alone[e],
         exportStep'[e] = exportStep[e], gathered'[e] = gathered[e],
         \A t \in Tabs : sheetId'[t] = sheetId[t], cells' = cells
  PROVE  LeftAlone(e)'
  BY DEF WholeInv, LeftAlone, Shows, Cleared, Written

LEMMA StepWholeInv ==
  ASSUME WholeInv, [SheetNext]_sheetVars
  PROVE  WholeInv'
<1> USE DEF SheetShape, GoesTo
<1>1. ASSUME NEW e \in Exporters, Ends(e), UNCHANGED <<sheetId, cells>> PROVE WholeInv'
  BY <1>1 DEF Ends, WholeInv, LeftAlone, Shows
<1>2. CASE FiguresChange
  BY <1>2 DEF FiguresChange, spreadsheet, WholeInv, LeftAlone, Shows
<1>3. ASSUME NEW t \in Tabs, DeleteTab(t) \/ \E r \in TabRows : EditCell(t, r) PROVE WholeInv'
  <2>1. /\ alone' = [e \in Exporters |-> FALSE] /\ DOMAIN sheetId' = Tabs
        /\ UNCHANGED <<exportStep, gathered, existing, guarded>>
    BY <1>3 DEF DeleteTab, EditCell, Touch, WholeInv
  <2> QED
    BY <2>1 DEF WholeInv, LeftAlone
<1>4. ASSUME NEW e \in Exporters, BeginExport(e) PROVE WholeInv'
  <2>1. /\ UNCHANGED <<sheetId, cells, alone>> /\ SheetShape' /\ ~alone[e]
        /\ \A x \in Exporters \ {e} :
             exportStep'[x] = exportStep[x] /\ gathered'[x] = gathered[x]
    BY <1>4 DEF BeginExport, spreadsheet, WholeInv, LeftAlone, Written
  <2>2. \A x \in Exporters \ {e} : LeftAlone(x)'
    BY <2>1, AloneStays
  <2> QED
    BY <2>1, <2>2 DEF WholeInv, LeftAlone
<1>5. ASSUME NEW e \in Exporters, ListSheets(e) \/ ListProtectedSheetIds(e) PROVE WholeInv'
  <2>1. /\ UNCHANGED <<sheetId, cells, alone, gathered>> /\ SheetShape'
        /\ exportStep'[e] \in {"adding", "listing protected", "protecting"}
        /\ exportStep[e] = "listing" \/ (exportStep[e] \in Written /\ exportStep'[e] \in Written)
        /\ \A x \in Exporters \ {e} : exportStep'[x] = exportStep[x]
    BY <1>5 DEF ListSheets, ListProtectedSheetIds, spreadsheet, WholeInv, Written
  <2>2. \A x \in Exporters \ {e} : LeftAlone(x)'
    BY <2>1, AloneStays
  <2>3. LeftAlone(e)'
    <3> SUFFICES ASSUME alone[e] PROVE LeftAlone(e)'
      BY <2>1 DEF LeftAlone
    <3>1. exportStep[e] \in Written /\ exportStep'[e] \in Written
      BY <2>1 DEF WholeInv, LeftAlone, Written
    <3>2. \A t \in Tabs : sheetId[t] # NoSheet /\ Shows(t, gathered[e])
      BY <3>1 DEF WholeInv, LeftAlone
    <3>3. \A t \in Tabs : Shows(t, gathered[e])'
      BY <2>1, <3>2 DEF Shows
    <3> QED
      BY <2>1, <3>1, <3>2, <3>3 DEF LeftAlone, Written
  <2> QED
    BY <2>1, <2>2, <2>3 DEF WholeInv
<1>6. ASSUME NEW e \in Exporters, AddSheets(e) \/ AdditionSentTwice(e) PROVE WholeInv'
  <2>1. CASE Refused(e)
    BY <1>1, <2>1 DEF Refused, spreadsheet
  <2>2. CASE /\ \A t \in Created(e) : sheetId[t] = NoSheet
             /\ sheetId' = WithSheets(Created(e)) /\ UNCHANGED cells
             /\ exportStep[e] = "adding"
    <3>1. \A x \in Exporters : alone[x] => Created(e) = {}
      BY <2>2 DEF WholeInv, LeftAlone, Created
    <3>2. /\ DOMAIN sheetId' = Tabs
          /\ Created(e) = {} => \A t \in Tabs : sheetId'[t] = sheetId[t]
      BY <2>2 DEF WithSheets
    <3>3. ~alone[e]
      BY <2>2 DEF WholeInv, LeftAlone, Written
    <3>4. CASE AddSheets(e) /\ ~Refused(e)
      <4>1. /\ SheetShape' /\ UNCHANGED <<cells, alone, gathered>>
            /\ \A x \in Exporters \ {e} : exportStep'[x] = exportStep[x]
        BY <3>2, <3>4 DEF AddSheets, WholeInv
      <4>2. \A x \in Exporters \ {e} : alone[x] => LeftAlone(x)'
        BY <3>1, <3>2, <4>1, AloneStays
      <4> QED
        BY <3>3, <4>1, <4>2 DEF WholeInv, LeftAlone
    <3>5. CASE AdditionSentTwice(e)
      <4>1. /\ SheetShape' /\ UNCHANGED cells /\ ~alone'[e]
            /\ \A x \in Exporters \ {e} : /\ exportStep'[x] = exportStep[x]
                                          /\ gathered'[x] = gathered[x] /\ alone'[x] = alone[x]
        BY <3>2, <3>5 DEF AdditionSentTwice, Ends, WholeInv
      <4>2. \A x \in Exporters \ {e} : alone[x] => LeftAlone(x)'
        BY <3>1, <3>2, <4>1, AloneStays
      <4> QED
        BY <4>1, <4>2 DEF WholeInv, LeftAlone
    <3> QED
      BY <1>1, <1>6, <2>2, <3>4, <3>5 DEF Refused, spreadsheet
  <2> QED
    BY <1>6, <2>1, <2>2 DEF AddSheets, AdditionSentTwice
<1>7. ASSUME NEW e \in Exporters, ClearRanges(e) PROVE WholeInv'
  <2>1. CASE Refused(e)
    BY <1>1, <2>1 DEF Refused, spreadsheet
  <2>2. CASE ~Missing /\ cells' = Cleared
    BY <1>7, <2>2 DEF ClearRanges, Missing, WholeInv, LeftAlone, Cleared, Written
  <2> QED
    BY <1>7, <2>1, <2>2 DEF ClearRanges
<1>8. ASSUME NEW e \in Exporters, UpdateValues(e) PROVE WholeInv'
  <2>1. CASE Refused(e)
    BY <1>1, <2>1 DEF Refused, spreadsheet
  <2>2. CASE ~Missing
    <3>1. /\ cells' = [t \in Tabs |->
                [r \in TabRows |-> IF r \in Filled(gathered[e]) THEN gathered[e] ELSE cells[t][r]]]
          /\ alone' = [x \in Exporters |-> alone[x] /\ x = e]
          /\ UNCHANGED <<sheetId, gathered, existing, guarded>>
          /\ exportStep[e] = "updating"
          /\ exportStep'[e] \in Written
          /\ DOMAIN exportStep' = Exporters
      BY <1>8, <2>2 DEF UpdateValues, Written, WholeInv
    <3>2. ASSUME alone[e], NEW t \in Tabs PROVE Shows(t, gathered[e])'
      <4>1. cells = Cleared /\ sheetId[t] # NoSheet
        BY <3>1, <3>2 DEF WholeInv, LeftAlone
      <4>2. \A r \in TabRows : cells[t][r] = Empty
        BY <4>1 DEF Cleared, Blank
      <4> QED
        BY <3>1, <4>1, <4>2 DEF Shows
    <3> QED
      BY <3>1, <3>2 DEF WholeInv, LeftAlone, Written
  <2> QED
    BY <1>8, <2>1, <2>2 DEF UpdateValues
<1>9. ASSUME NEW e \in Exporters, ProtectSheets(e) \/ ExportFails(e) PROVE WholeInv'
  BY <1>1, <1>9 DEF ProtectSheets, ExportFails, Refused, spreadsheet
<1>10. ASSUME NEW e \in Exporters, ProtectionSentTwice(e) PROVE WholeInv'
  BY <1>10 DEF ProtectionSentTwice, WholeInv, LeftAlone, Shows
<1>11. CASE UNCHANGED sheetVars
  BY <1>11 DEF sheetVars, spreadsheet, WholeInv, LeftAlone, Shows
<1> QED
  BY <1>2, <1>3, <1>4, <1>5, <1>6, <1>7, <1>8, <1>9, <1>10, <1>11
  DEF SheetNext, WriteWorkbook

(* Once an export has written, and unless somebody else touched the         *)
(* workbook since it cleared it, every tab holds its figures and no more.   *)
THEOREM ExportLeavesItsFigures == SheetSpec => []ExportIsWhole
<1>1. SheetInit => WholeInv
  BY DEF SheetInit, WholeInv, SheetShape, LeftAlone, NoTabs
<1>2. WholeInv /\ [SheetNext]_sheetVars => WholeInv'
  BY StepWholeInv
<1>3. WholeInv => ExportIsWhole
  BY DEF WholeInv, LeftAlone, ExportIsWhole, Written
<1> QED
  BY <1>1, <1>2, <1>3, PTL DEF SheetSpec

-----------------------------------------------------------------------------
(* Protections.  An export adds one to a sheet only if it found none there, *)
(* so that what a sheet has, and what the exports that found none may yet   *)
(* add, is no more than one for each of them and for each lost answer.      *)

MayProtect(i) == {e \in Exporters : /\ InSpreadsheet(i)
                                    /\ exportStep[e] = "protecting"
                                    /\ i \in Unprotected(e)}

CountShape == /\ sheets \in Nat /\ exportFaults \in Nat
              /\ DOMAIN shields = SheetIds /\ \A i \in SheetIds : shields[i] \in Nat

Bounded(i) == shields[i] + Cardinality(MayProtect(i)) <= Cardinality(Exporters) + exportFaults

StackInv == /\ SheetShape /\ CountShape
            /\ \A i \in SheetIds : Bounded(i)

LEMMA CountProtectors ==
  /\ IsFiniteSet(Exporters) /\ Cardinality(Exporters) \in Nat
  /\ \A P \in SUBSET Exporters :
       /\ IsFiniteSet(P) /\ Cardinality(P) \in Nat /\ Cardinality(P) <= Cardinality(Exporters)
       /\ \A Q \in SUBSET P : Cardinality(Q) <= Cardinality(P)
       /\ \A e \in P : Cardinality(P \ {e}) = Cardinality(P) - 1
<1>1. IsFiniteSet(Exporters) /\ Cardinality(Exporters) \in Nat
  BY ExportAssumption, FS_CardinalityType
<1>2. ASSUME NEW P \in SUBSET Exporters
      PROVE  /\ IsFiniteSet(P) /\ Cardinality(P) \in Nat
             /\ Cardinality(P) <= Cardinality(Exporters)
  BY <1>1, FS_Subset, FS_CardinalityType
<1>3. ASSUME NEW P \in SUBSET Exporters, NEW Q \in SUBSET P
      PROVE  Cardinality(Q) <= Cardinality(P)
  BY <1>2, FS_Subset
<1>4. ASSUME NEW P \in SUBSET Exporters, NEW e \in P
      PROVE  Cardinality(P \ {e}) = Cardinality(P) - 1
  BY <1>2, FS_RemoveElement
<1> QED
  BY <1>1, <1>2, <1>3, <1>4

(* New sheets get ids that were never used.                                 *)
LEMMA NewIdsAreNew ==
  ASSUME NEW ts \in SUBSET Tabs, sheets \in Nat
  PROVE  /\ Cardinality(ts) \in Nat
         /\ \A t \in ts : NewIds(ts)[t] \in sheets + 1 .. sheets + Cardinality(ts)
<1> DEFINE n == Cardinality(ts)
           ids == sheets + 1 .. sheets + n
<1>1. IsFiniteSet(ts) /\ n \in Nat
  BY ExportAssumption, FS_Subset, FS_CardinalityType
<1>2. IsFiniteSet(ids) /\ Cardinality(ids) = n
  <2> DEFINE a == sheets + 1
             b == sheets + n
  <2>1. a \in Int /\ b \in Int
    BY <1>1
  <2>2. (IF a > b THEN 0 ELSE b - a + 1) = n
    BY <1>1
  <2> HIDE DEF a, b
  <2>3. IsFiniteSet(a..b) /\ Cardinality(a..b) = n
    BY <2>1, <2>2, FS_Interval
  <2> QED
    BY <2>3 DEF a, b
<1>3. ExistsBijection(ts, ids)
  BY <1>1, <1>2, FS_SameCardinalityBij
<1>4. \E f \in [ts -> ids] : IsInjective(f)
  BY <1>3 DEF ExistsBijection, Bijection, Injection
<1>5. NewIds(ts) \in [ts -> ids]
  BY <1>4 DEF NewIds
<1> QED
  BY <1>1, <1>5

(* Nothing is counted that was not.                                         *)
LEMMA BoundStays ==
  ASSUME StackInv, NEW i \in SheetIds, shields'[i] = shields[i],
         exportFaults' \in Nat, exportFaults' >= exportFaults,
         MayProtect(i)' \subseteq MayProtect(i)
  PROVE  Bounded(i)'
<1>1. MayProtect(i) \in SUBSET Exporters
  BY DEF MayProtect
<1>2. Cardinality(MayProtect(i)') <= Cardinality(MayProtect(i))
  BY <1>1, CountProtectors
<1>3. /\ Cardinality(MayProtect(i)) \in Nat /\ Cardinality(MayProtect(i)') \in Nat
      /\ Cardinality(Exporters) \in Nat
  BY <1>1, CountProtectors
<1>4. shields[i] + Cardinality(MayProtect(i)) <= Cardinality(Exporters) + exportFaults
  BY DEF StackInv, Bounded
<1> QED
  BY <1>2, <1>3, <1>4 DEF StackInv, CountShape, Bounded

(* The steps that add no protection and no exporter that may.               *)
LEMMA QuietStep ==
  ASSUME StackInv, SheetShape', UNCHANGED <<shields, sheets>>,
         exportFaults' \in Nat, exportFaults' >= exportFaults,
         \A t \in Tabs : sheetId'[t] = sheetId[t] \/ sheetId'[t] = NoSheet,
         \A e \in Exporters :
           \/ exportStep'[e] # "protecting"
           \/ /\ exportStep'[e] = exportStep[e]
              /\ existing'[e] = existing[e] /\ guarded'[e] = guarded[e]
  PROVE  StackInv'
<1>1. ASSUME NEW i \in SheetIds PROVE MayProtect(i)' \subseteq MayProtect(i)
  <2>1. InSpreadsheet(i)' => InSpreadsheet(i)
    BY DEF InSpreadsheet, SheetIds, NoSheet, StackInv, CountShape
  <2>2. \A e \in Exporters :
          exportStep'[e] = "protecting" => Unprotected(e)' = Unprotected(e)
                                           /\ exportStep[e] = "protecting"
    BY DEF Unprotected
  <2> QED
    BY <2>1, <2>2 DEF MayProtect
<1>2. \A i \in SheetIds : Bounded(i)'
  BY <1>1, BoundStays
<1> QED
  BY <1>2 DEF StackInv, CountShape, SheetIds

LEMMA AddKeepsStack ==
  ASSUME StackInv, NEW e \in Exporters, SheetShape',
         \A t \in Created(e) : sheetId[t] = NoSheet,
         sheetId' = WithSheets(Created(e)),
         sheets' = sheets + Cardinality(Created(e)),
         shields' = [i \in 1..sheets' |-> IF i \in SheetIds THEN shields[i] ELSE 0],
         exportFaults' \in Nat, exportFaults' >= exportFaults,
         \A x \in Exporters :
           \/ exportStep'[x] # "protecting"
           \/ /\ exportStep'[x] = exportStep[x]
              /\ existing'[x] = existing[x] /\ guarded'[x] = guarded[x]
  PROVE  StackInv'
<1>1. Created(e) \in SUBSET Tabs /\ sheets \in Nat
  BY DEF Created, StackInv, CountShape
<1>2. /\ Cardinality(Created(e)) \in Nat
      /\ \A t \in Created(e) : sheetId'[t] > sheets
      /\ \A t \in Tabs \ Created(e) : sheetId'[t] = sheetId[t]
  <2>1. /\ Cardinality(Created(e)) \in Nat
        /\ \A t \in Created(e) :
             NewIds(Created(e))[t] \in sheets + 1 .. sheets + Cardinality(Created(e))
    BY <1>1, NewIdsAreNew
  <2> QED
    BY <1>1, <2>1 DEF WithSheets
<1>3. CountShape'
  BY <1>1, <1>2 DEF StackInv, CountShape, SheetIds
<1>4. ASSUME NEW i \in SheetIds PROVE Bounded(i)'
  <2>1. shields'[i] = shields[i]
    BY <1>1, <1>2, <1>4 DEF SheetIds
  <2>2. InSpreadsheet(i)' => InSpreadsheet(i)
    BY <1>1, <1>2 DEF InSpreadsheet, SheetIds
  <2>3. \A x \in Exporters :
          exportStep'[x] = "protecting" => Unprotected(x)' = Unprotected(x)
                                           /\ exportStep[x] = "protecting"
    BY DEF Unprotected
  <2>4. MayProtect(i)' \subseteq MayProtect(i)
    BY <2>2, <2>3 DEF MayProtect
  <2> QED
    BY <2>1, <2>4, BoundStays
<1>5. ASSUME NEW i \in SheetIds', i \notin SheetIds PROVE Bounded(i)'
  <2>1. shields'[i] = 0
    BY <1>5 DEF SheetIds
  <2>2. MayProtect(i)' \in SUBSET Exporters
    BY DEF MayProtect
  <2>3. /\ Cardinality(MayProtect(i)') \in Nat /\ Cardinality(Exporters) \in Nat
        /\ Cardinality(MayProtect(i)') <= Cardinality(Exporters)
    BY <2>2, CountProtectors
  <2> QED
    BY <2>1, <2>3 DEF Bounded
<1> QED
  BY <1>3, <1>4, <1>5 DEF StackInv

LEMMA ListKeepsStack ==
  ASSUME StackInv, NEW e \in Exporters, ListProtectedSheetIds(e)
  PROVE  StackInv'
<1>1. /\ UNCHANGED <<sheetId, shields, sheets, existing, exportFaults>> /\ SheetShape'
      /\ guarded'[e] = {i \in SheetIds : InSpreadsheet(i) /\ shields[i] > 0}
      /\ \A x \in Exporters \ {e} :
           exportStep'[x] = exportStep[x] /\ guarded'[x] = guarded[x]
  BY DEF ListProtectedSheetIds, GoesTo, spreadsheet, StackInv, SheetShape
<1>2. CountShape'
  BY <1>1 DEF StackInv, CountShape, SheetIds
<1>3. ASSUME NEW i \in SheetIds PROVE Bounded(i)'
  <2>0. InSpreadsheet(i)' <=> InSpreadsheet(i)
    BY <1>1 DEF InSpreadsheet
  <2>1. CASE shields[i] = 0
    <3>1. MayProtect(i)' \in SUBSET Exporters
      BY DEF MayProtect
    <3>2. /\ Cardinality(MayProtect(i)') \in Nat /\ Cardinality(Exporters) \in Nat
          /\ Cardinality(MayProtect(i)') <= Cardinality(Exporters)
      BY <3>1, CountProtectors
    <3> QED
      BY <1>1, <2>1, <3>2 DEF Bounded, StackInv, CountShape
  <2>2. CASE shields[i] # 0
    <3>1. shields[i] > 0
      BY <1>3, <2>2 DEF StackInv, CountShape
    <3>2. InSpreadsheet(i) => i \notin Unprotected(e)'
      BY <1>1, <1>3, <3>1 DEF Unprotected
    <3>3. \A x \in Exporters \ {e} : Unprotected(x)' = Unprotected(x)
      BY <1>1 DEF Unprotected
    <3>4. MayProtect(i)' \subseteq MayProtect(i)
      BY <1>1, <2>0, <3>2, <3>3 DEF MayProtect
    <3> QED
      BY <1>1, <3>4, BoundStays DEF StackInv, CountShape
  <2> QED
    BY <2>1, <2>2
<1> QED
  BY <1>1, <1>2, <1>3 DEF StackInv, SheetIds

LEMMA ProtectKeepsStack ==
  ASSUME StackInv, NEW e \in Exporters, exportStep[e] = "protecting", SheetShape',
         \A i \in Unprotected(e) : InSpreadsheet(i),
         shields' = Shielded(Unprotected(e)), UNCHANGED <<sheetId, sheets>>,
         \/ Ends(e) /\ exportFaults' = exportFaults
         \/ /\ UNCHANGED <<exportStep, existing, guarded>>
            /\ exportFaults' = exportFaults + 1
  PROVE  StackInv'
<1>1. CountShape'
  BY DEF StackInv, CountShape, SheetIds, Shielded
<1>2. ASSUME NEW i \in SheetIds PROVE Bounded(i)'
  <2>1. shields'[i] = shields[i] + IF i \in Unprotected(e) THEN 1 ELSE 0
    BY <1>2 DEF Shielded
  <2>2. MayProtect(i)' \subseteq MayProtect(i)
    <3>1. \A x \in Exporters :
            exportStep'[x] = "protecting" => Unprotected(x)' = Unprotected(x)
                                             /\ exportStep[x] = "protecting"
      BY DEF Unprotected, Ends, GoesTo, StackInv, SheetShape
    <3>2. InSpreadsheet(i)' <=> InSpreadsheet(i)
      BY DEF InSpreadsheet
    <3> QED
      BY <3>1, <3>2 DEF MayProtect
  <2>3. CASE i \notin Unprotected(e)
    BY <1>1, <2>1, <2>2, <2>3, BoundStays DEF StackInv, CountShape
  <2>4. CASE i \in Unprotected(e)
    <3> DEFINE P == MayProtect(i)
               Q == MayProtect(i)'
    <3>1. e \in P /\ P \in SUBSET Exporters
      BY <2>4 DEF MayProtect
    <3>2. shields[i] + Cardinality(P) <= Cardinality(Exporters) + exportFaults
      BY DEF StackInv, Bounded
    <3>3. CASE Ends(e) /\ exportFaults' = exportFaults
      <4>1. e \notin Q
        BY <3>3 DEF MayProtect, Ends, GoesTo, StackInv, SheetShape
      <4>2. Q \in SUBSET (P \ {e}) /\ P \ {e} \in SUBSET Exporters
        BY <2>2, <3>1, <4>1
      <4>3. Cardinality(Q) <= Cardinality(P \ {e}) /\ Cardinality(P \ {e}) = Cardinality(P) - 1
        BY <3>1, <4>2, CountProtectors
      <4>4. /\ Cardinality(P) \in Nat /\ Cardinality(Q) \in Nat /\ Cardinality(Exporters) \in Nat
            /\ shields[i] \in Nat /\ exportFaults \in Nat
        BY <1>2, <2>2, <3>1, CountProtectors DEF StackInv, CountShape
      <4> HIDE DEF P, Q
      <4>5. shields'[i] + Cardinality(Q) <= Cardinality(Exporters) + exportFaults'
        BY <2>1, <2>4, <3>2, <3>3, <4>3, <4>4
      <4> QED
        BY <4>5 DEF Bounded, Q
    <3>4. CASE exportFaults' = exportFaults + 1
      <4>1. Cardinality(Q) <= Cardinality(P)
        BY <2>2, <3>1, CountProtectors
      <4>2. /\ Cardinality(P) \in Nat /\ Cardinality(Q) \in Nat /\ Cardinality(Exporters) \in Nat
            /\ shields[i] \in Nat /\ exportFaults \in Nat
        BY <1>2, <2>2, <3>1, CountProtectors DEF StackInv, CountShape
      <4> HIDE DEF P, Q
      <4>3. shields'[i] + Cardinality(Q) <= Cardinality(Exporters) + exportFaults'
        BY <2>1, <2>4, <3>2, <3>4, <4>1, <4>2
      <4> QED
        BY <4>3 DEF Bounded, Q
    <3> QED
      BY <3>3, <3>4
  <2> QED
    BY <2>3, <2>4
<1> QED
  BY <1>1, <1>2 DEF StackInv, SheetIds

LEMMA StepStackInv ==
  ASSUME StackInv, [SheetNext]_sheetVars
  PROVE  StackInv'
<1> USE DEF GoesTo
<1>1. /\ exportFaults \in Nat /\ SheetShape
      /\ ExportFault => exportFaults' \in Nat /\ exportFaults' >= exportFaults
  BY DEF StackInv, CountShape, ExportFault
<1>2. ASSUME NEW e \in Exporters, Ends(e), UNCHANGED <<sheetId, shields, sheets>>,
             exportFaults' \in Nat, exportFaults' >= exportFaults
      PROVE  StackInv'
  <2>1. SheetShape' /\ \A x \in Exporters :
          \/ exportStep'[x] # "protecting"
          \/ /\ exportStep'[x] = exportStep[x]
             /\ existing'[x] = existing[x] /\ guarded'[x] = guarded[x]
    BY <1>1, <1>2 DEF Ends, SheetShape
  <2> QED
    BY <1>2, <2>1, QuietStep
<1>3. ASSUME NEW e \in Exporters, Refused(e) PROVE StackInv'
  BY <1>1, <1>2, <1>3 DEF Refused, spreadsheet
<1>4. CASE FiguresChange
  <2>1. SheetShape' /\ UNCHANGED <<sheetId, shields, sheets, exportStep, existing, guarded, exportFaults>>
    BY <1>1, <1>4 DEF FiguresChange, spreadsheet, SheetShape
  <2> QED
    BY <1>1, <2>1, QuietStep
<1>5. ASSUME NEW t \in Tabs, DeleteTab(t) \/ \E r \in TabRows : EditCell(t, r) PROVE StackInv'
  <2>1. /\ SheetShape' /\ UNCHANGED <<shields, sheets, exportStep, existing, guarded, exportFaults>>
        /\ \A u \in Tabs : sheetId'[u] = sheetId[u] \/ sheetId'[u] = NoSheet
    BY <1>1, <1>5 DEF DeleteTab, EditCell, Touch, SheetShape
  <2> QED
    BY <1>1, <2>1, QuietStep
<1>6. ASSUME NEW e \in Exporters,
             \/ BeginExport(e) \/ ListSheets(e)
             \/ (ClearRanges(e) \/ UpdateValues(e)) /\ ~Refused(e)
      PROVE  StackInv'
  <2>1. /\ SheetShape' /\ UNCHANGED <<sheetId, shields, sheets, guarded, exportFaults>>
        /\ exportStep'[e] # "protecting"
        /\ \A x \in Exporters \ {e} :
             exportStep'[x] = exportStep[x] /\ existing'[x] = existing[x]
    <3>1. CASE BeginExport(e)
      BY <1>1, <3>1 DEF BeginExport, spreadsheet, SheetShape
    <3>2. CASE ListSheets(e)
      BY <1>1, <3>2 DEF ListSheets, spreadsheet, SheetShape
    <3>3. CASE ClearRanges(e) /\ ~Refused(e)
      BY <1>1, <3>3 DEF ClearRanges, SheetShape
    <3>4. CASE UpdateValues(e) /\ ~Refused(e)
      BY <1>1, <3>4 DEF UpdateValues, SheetShape
    <3> QED
      BY <1>6, <3>1, <3>2, <3>3, <3>4
  <2> QED
    BY <1>1, <2>1, QuietStep
<1>7. ASSUME NEW e \in Exporters, AddSheets(e) /\ ~Refused(e) PROVE StackInv'
  <2>1. /\ SheetShape' /\ UNCHANGED <<existing, guarded, exportFaults>>
        /\ exportStep'[e] # "protecting"
        /\ \A x \in Exporters \ {e} : exportStep'[x] = exportStep[x]
    BY <1>1, <1>7 DEF AddSheets, SheetShape, WithSheets
  <2> QED
    BY <1>1, <1>7, <2>1, AddKeepsStack DEF AddSheets
<1>8. ASSUME NEW e \in Exporters, AdditionSentTwice(e) PROVE StackInv'
  <2>1. SheetShape' /\ exportStep'[e] # "protecting"
    BY <1>1, <1>8 DEF AdditionSentTwice, Ends, SheetShape, WithSheets
  <2>2. \A x \in Exporters \ {e} : /\ exportStep'[x] = exportStep[x]
                                   /\ existing'[x] = existing[x] /\ guarded'[x] = guarded[x]
    BY <1>1, <1>8 DEF AdditionSentTwice, Ends, SheetShape
  <2> QED
    BY <1>1, <1>8, <2>1, <2>2, AddKeepsStack DEF AdditionSentTwice
<1>9. ASSUME NEW e \in Exporters, ProtectSheets(e) /\ ~Refused(e) PROVE StackInv'
  <2>1. SheetShape'
    BY <1>1, <1>9 DEF ProtectSheets, Ends, SheetShape
  <2> QED
    BY <1>9, <2>1, ProtectKeepsStack DEF ProtectSheets
<1>10. ASSUME NEW e \in Exporters, ProtectionSentTwice(e) PROVE StackInv'
  <2>1. SheetShape' /\ exportFaults' = exportFaults + 1
    BY <1>1, <1>10 DEF ProtectionSentTwice, SheetShape, ExportFault
  <2> QED
    BY <1>10, <2>1, ProtectKeepsStack DEF ProtectionSentTwice
<1>11. ASSUME NEW e \in Exporters, ExportFails(e) PROVE StackInv'
  BY <1>1, <1>2, <1>11 DEF ExportFails, spreadsheet
<1>12. CASE UNCHANGED sheetVars
  <2>1. SheetShape' /\ UNCHANGED <<sheetId, shields, sheets, exportStep, existing, guarded, exportFaults>>
    BY <1>1, <1>12 DEF sheetVars, spreadsheet, SheetShape
  <2> QED
    BY <1>1, <2>1, QuietStep
<1> QED
  BY <1>3, <1>4, <1>5, <1>6, <1>7, <1>8, <1>9, <1>10, <1>11, <1>12, ListKeepsStack
  DEF SheetNext, WriteWorkbook

(* A sheet gets no more than one protection from each of the exports that   *)
(* overlapped, and one for each lost answer, however many nights pass.      *)
THEOREM ProtectionsStayFew == SheetSpec => []ProtectionsDoNotStack
<1>1. SheetInit => StackInv
  BY DEF SheetInit, StackInv, SheetShape, CountShape, SheetIds, NoTabs
<1>2. StackInv /\ [SheetNext]_sheetVars => StackInv'
  BY StepStackInv
<1>3. ASSUME StackInv PROVE ProtectionsDoNotStack
  <2> SUFFICES ASSUME NEW i \in SheetIds
               PROVE  shields[i] <= Cardinality(Exporters) + exportFaults
    BY DEF ProtectionsDoNotStack
  <2>1. MayProtect(i) \in SUBSET Exporters
    BY DEF MayProtect
  <2>2. Cardinality(MayProtect(i)) \in Nat /\ Cardinality(Exporters) \in Nat
    BY <2>1, CountProtectors
  <2> QED
    BY <1>3, <2>2 DEF StackInv, CountShape, Bounded
<1> QED
  BY <1>1, <1>2, <1>3, PTL DEF SheetSpec
=============================================================================
