----------------------------- MODULE SheetsExport -----------------------------
(***************************************************************************)
(* Writing the Google Sheets workbook: writeWorkbook (lib/reporting/       *)
(* sheets-export.ts) through lib/connectors/google/sheets-client.ts, every *)
(* night after the refresh and by hand (scripts/export-sheets.mts).  Each  *)
(* request is a step, so exports may overlap, be killed between two        *)
(* requests, and meet people who edit cells and delete tabs.  What the     *)
(* tabs contain is Workbook's matter: here a tab is told by the figures    *)
(* it was gathered from, which fill more rows on some days than on others. *)
(*                                                                         *)
(* Google is external: a batch request takes effect as a whole or not at   *)
(* all, and fails when it names a tab that is not there, or adds one that  *)
(* is.  A request whose answer is lost is sent again (http.ts).            *)
(***************************************************************************)
EXTENDS Integers, FiniteSets, Functions

CONSTANTS
  Exporters,       \* the nightly export and those by hand
  Nightly,         \* the exporters that vercel.json starts again every day
  Tabs,            \* the titles buildWorkbook makes
  LastFigures,     \* bound: how often the figures change
  MaxTouches,      \* bound: edits and deletions by people
  MaxExportFaults  \* bound: failed requests, kills and lost answers

ASSUME ExportAssumption == /\ IsFiniteSet(Exporters) /\ IsFiniteSet(Tabs)
                           /\ Nightly \subseteq Exporters
                           /\ {LastFigures, MaxTouches, MaxExportFaults} \subseteq Nat

TabRows == 1..2
Filled(f) == 1 .. 1 + (f % 2)     \* the rows that figures f fill
Empty == 0                       \* an empty cell
Scribble == -1                   \* a cell a person wrote
NoSheet == 0                     \* sheetId of a tab that is not there

ExportSteps == {"idle", "listing", "adding", "clearing", "updating",
                "listing again", "listing protected", "protecting"}

VARIABLES
  figures,     \* what exportToSheets would gather now
  sheetId,     \* the tabs of the spreadsheet
  cells,       \* their cells
  shields,     \* how many protected ranges a sheet has
  sheets,      \* how many sheets were ever added
  exportStep,  \* where each export is
  gathered,    \* the figures it writes
  existing,    \* existing, then afterCreate: the sheets it knows of
  guarded,     \* alreadyProtected
  alone,       \* history: nobody else touched the cells since it cleared them
  touches, exportFaults

spreadsheet == <<sheetId, cells, shields, sheets>>
sheetVars == <<figures, spreadsheet, exportStep, gathered, existing, guarded, alone,
               touches, exportFaults>>

SheetIds == 1..sheets

SheetTypeOK ==
  /\ figures \in 1..LastFigures
  /\ sheets \in Nat
  /\ sheetId \in [Tabs -> {NoSheet} \cup SheetIds]
  /\ cells \in [Tabs -> [TabRows -> {Scribble, Empty} \cup 1..LastFigures]]
  /\ shields \in [SheetIds -> Nat]
  /\ exportStep \in [Exporters -> ExportSteps]
  /\ gathered \in [Exporters -> 0..LastFigures]
  /\ existing \in [Exporters -> [Tabs -> {NoSheet} \cup SheetIds]]
  /\ guarded \in [Exporters -> SUBSET SheetIds]
  /\ alone \in [Exporters -> BOOLEAN]
  /\ touches \in 0..MaxTouches /\ exportFaults \in 0..MaxExportFaults

NoTabs == [t \in Tabs |-> NoSheet]
Blank == [r \in TabRows |-> Empty]

SheetInit ==
  /\ figures = 1
  /\ sheetId = NoTabs /\ sheets = 0
  /\ cells = [t \in Tabs |-> Blank]
  /\ shields = [i \in {} |-> 0]
  /\ exportStep = [e \in Exporters |-> "idle"]
  /\ gathered = [e \in Exporters |-> 0]
  /\ existing = [e \in Exporters |-> NoTabs]
  /\ guarded = [e \in Exporters |-> {}]
  /\ alone = [e \in Exporters |-> FALSE]
  /\ touches = 0 /\ exportFaults = 0

-----------------------------------------------------------------------------
(* The database, and people with the workbook open.                         *)

FiguresChange ==
  /\ figures < LastFigures
  /\ figures' = figures + 1
  /\ UNCHANGED <<spreadsheet, exportStep, gathered, existing, guarded, alone, touches, exportFaults>>

Touch == /\ touches < MaxTouches
         /\ touches' = touches + 1
         /\ alone' = [e \in Exporters |-> FALSE]
         /\ UNCHANGED <<figures, shields, sheets, exportStep, gathered, existing, guarded, exportFaults>>

EditCell(t, r) ==
  /\ sheetId[t] # NoSheet
  /\ cells' = [cells EXCEPT ![t][r] = Scribble]
  /\ UNCHANGED sheetId
  /\ Touch

DeleteTab(t) ==
  /\ sheetId[t] # NoSheet
  /\ sheetId' = [sheetId EXCEPT ![t] = NoSheet]
  /\ cells' = [cells EXCEPT ![t] = Blank]
  /\ Touch

-----------------------------------------------------------------------------
(* writeWorkbook.                                                           *)

(* e goes on to a step; an export that has ended knows nothing any more.    *)
GoesTo(e, s) == exportStep' = [exportStep EXCEPT ![e] = s]

Ends(e) == /\ GoesTo(e, "idle")
           /\ gathered' = [gathered EXCEPT ![e] = 0]
           /\ existing' = [existing EXCEPT ![e] = NoTabs]
           /\ guarded' = [guarded EXCEPT ![e] = {}]
           /\ alone' = [alone EXCEPT ![e] = FALSE]

(* A request that Google refuses throws.                                    *)
Refused(e) == Ends(e) /\ UNCHANGED <<figures, spreadsheet, touches, exportFaults>>

(* exportToSheets gathers everything first.  Without an approved policy it  *)
(* ends there; exportWorkbook without its settings does not begin.          *)
BeginExport(e) ==
  /\ exportStep[e] = "idle"
  /\ gathered' = [gathered EXCEPT ![e] = figures]
  /\ GoesTo(e, "listing")
  /\ UNCHANGED <<figures, spreadsheet, existing, guarded, alone, touches, exportFaults>>

ListSheets(e) ==
  /\ exportStep[e] \in {"listing", "listing again"}
  /\ existing' = [existing EXCEPT ![e] = sheetId]
  /\ GoesTo(e, IF exportStep[e] = "listing" THEN "adding" ELSE "listing protected")
  /\ UNCHANGED <<figures, spreadsheet, gathered, guarded, alone, touches, exportFaults>>

(* Faulty: every tab is taken to be missing.                                *)
CreatedAll(e) == Tabs

Created(e) == {t \in Tabs : existing[e][t] = NoSheet}

(* New sheets get ids that were never used.                                 *)
NewIds(ts) == CHOOSE f \in [ts -> sheets + 1 .. sheets + Cardinality(ts)] : IsInjective(f)
WithSheets(ts) == [t \in Tabs |-> IF t \in ts THEN NewIds(ts)[t] ELSE sheetId[t]]

AddSheets(e) ==
  /\ exportStep[e] = "adding"
  /\ IF \E t \in Created(e) : sheetId[t] # NoSheet THEN Refused(e)
     ELSE /\ sheetId' = WithSheets(Created(e))
          /\ sheets' = sheets + Cardinality(Created(e))
          /\ shields' = [i \in 1..sheets' |-> IF i \in SheetIds THEN shields[i] ELSE 0]
          /\ GoesTo(e, "clearing")
          /\ UNCHANGED <<figures, cells, gathered, existing, guarded, alone, touches, exportFaults>>

Missing == \E t \in Tabs : sheetId[t] = NoSheet

(* Faulty: writes over what is there.                                       *)
ClearedNothing == cells

Cleared == [t \in Tabs |-> Blank]

ClearRanges(e) ==
  /\ exportStep[e] = "clearing"
  /\ IF Missing THEN Refused(e)
     ELSE /\ cells' = Cleared
          /\ alone' = [x \in Exporters |-> x = e]
          /\ GoesTo(e, "updating")
          /\ UNCHANGED <<figures, sheetId, shields, sheets, gathered, existing, guarded, touches,
                         exportFaults>>

(* The sheets are listed again where some were added.                       *)
UpdateValues(e) ==
  /\ exportStep[e] = "updating"
  /\ IF Missing THEN Refused(e)
     ELSE /\ cells' = [t \in Tabs |->
                [r \in TabRows |-> IF r \in Filled(gathered[e]) THEN gathered[e] ELSE cells[t][r]]]
          /\ alone' = [x \in Exporters |-> alone[x] /\ x = e]
          /\ GoesTo(e, IF Created(e) # {} THEN "listing again" ELSE "listing protected")
          /\ UNCHANGED <<figures, sheetId, shields, sheets, gathered, existing, guarded, touches,
                         exportFaults>>

InSpreadsheet(i) == \E t \in Tabs : sheetId[t] = i

ListProtectedSheetIds(e) ==
  /\ exportStep[e] = "listing protected"
  /\ guarded' = [guarded EXCEPT ![e] = {i \in SheetIds : InSpreadsheet(i) /\ shields[i] > 0}]
  /\ GoesTo(e, "protecting")
  /\ UNCHANGED <<figures, spreadsheet, gathered, existing, alone, touches, exportFaults>>

(* Faulty: protects every tab, every night.                                 *)
UnprotectedAll(e) == {existing[e][t] : t \in Tabs} \ {NoSheet}

Unprotected(e) == {existing[e][t] : t \in Tabs} \ ({NoSheet} \cup guarded[e])

Shielded(is) == [i \in SheetIds |-> shields[i] + IF i \in is THEN 1 ELSE 0]

ProtectSheets(e) ==
  /\ exportStep[e] = "protecting"
  /\ IF \E i \in Unprotected(e) : ~InSpreadsheet(i) THEN Refused(e)
     ELSE /\ shields' = Shielded(Unprotected(e))
          /\ Ends(e)
          /\ UNCHANGED <<figures, sheetId, cells, sheets, touches, exportFaults>>

ExportFault == exportFaults < MaxExportFaults /\ exportFaults' = exportFaults + 1

(* A request fails for good, or the process is killed.                      *)
ExportFails(e) ==
  /\ exportStep[e] # "idle"
  /\ ExportFault
  /\ Ends(e)
  /\ UNCHANGED <<figures, spreadsheet, touches>>

(* The answer of protectSheets is lost: the ranges are added again by the   *)
(* retry.  Sent twice, the other requests do what they did, but addSheets,  *)
(* whose retry is refused.                                                  *)
ProtectionSentTwice(e) ==
  /\ exportStep[e] = "protecting"
  /\ \A i \in Unprotected(e) : InSpreadsheet(i)
  /\ ExportFault
  /\ shields' = Shielded(Unprotected(e))
  /\ UNCHANGED <<figures, sheetId, cells, sheets, exportStep, gathered, existing, guarded, alone,
                 touches>>

AdditionSentTwice(e) ==
  /\ exportStep[e] = "adding"
  /\ Created(e) # {} /\ \A t \in Created(e) : sheetId[t] = NoSheet
  /\ ExportFault
  /\ sheetId' = WithSheets(Created(e))
  /\ sheets' = sheets + Cardinality(Created(e))
  /\ shields' = [i \in 1..sheets' |-> IF i \in SheetIds THEN shields[i] ELSE 0]
  /\ Ends(e)
  /\ UNCHANGED <<figures, cells, touches>>

-----------------------------------------------------------------------------
WriteWorkbook(e) == \/ BeginExport(e) \/ ListSheets(e) \/ AddSheets(e) \/ ClearRanges(e)
                    \/ UpdateValues(e) \/ ListProtectedSheetIds(e) \/ ProtectSheets(e)

SheetNext == \/ FiguresChange
             \/ \E t \in Tabs : DeleteTab(t) \/ \E r \in TabRows : EditCell(t, r)
             \/ \E e \in Exporters : \/ WriteWorkbook(e) \/ ExportFails(e)
                                     \/ ProtectionSentTwice(e) \/ AdditionSentTwice(e)

SheetSpec == SheetInit /\ [][SheetNext]_sheetVars

(* The cron exports every night, and not every request of it fails.         *)
FairSheetSpec == SheetSpec /\ \A e \in Nightly : WF_sheetVars(WriteWorkbook(e))

-----------------------------------------------------------------------------
(* Properties.                                                              *)

Shows(t, f) == /\ sheetId[t] # NoSheet
               /\ cells[t] = [r \in TabRows |-> IF r \in Filled(f) THEN f ELSE Empty]

(* "A shorter export would otherwise leave last night's rows below this     *)
(* one" (sheets-export.ts): once an export has written, and unless somebody *)
(* else touched the workbook since it cleared it, every tab holds its       *)
(* figures and nothing else, whatever killed or overlapping exports and     *)
(* people had left in it.                                                   *)
ExportIsWhole ==
  \A e \in Exporters :
    alone[e] /\ exportStep[e] \in {"listing again", "listing protected", "protecting"} =>
      \A t \in Tabs : Shows(t, gathered[e])

(* "Protection is added once per tab, not on every run" (sheets-export.ts): *)
(* however many nights pass, a sheet gets no more than one protection from  *)
(* each of the exports that overlapped, and one for each lost answer.       *)
ProtectionsDoNotStack ==
  \A i \in SheetIds : shields[i] <= Cardinality(Exporters) + exportFaults

(* The workbook catches up: whenever an export has begun, every tab shows   *)
(* the figures of the database at some later time.  An export that was      *)
(* killed between clearing and writing, a tab that was deleted or added by  *)
(* another export, and a cell that was overtyped are made good by a later   *)
(* night.                                                                   *)
WorkbookCatchesUp ==
  (\E e \in Exporters : exportStep[e] # "idle") ~> (\A t \in Tabs : Shows(t, figures))
=============================================================================
