------------------------------ MODULE Workbook ------------------------------
(* What the Sheets export gathers and lays out: exportToSheets of             *)
(* src/lib/reporting/sheets-export.ts and the tabs of sheets-workbook.ts. A   *)
(* tab is the rows it shows; labels, stamps and the padding of short rows are *)
(* left out, and so are the reconciliations, which are read back as stored.   *)
(* Writing the tabs is in SheetsExport.                                       *)
EXTENDS Figures, Monitoring

CONSTANT BusinessTimezone

Cells(record, columns) == [c \in columns |-> record[c]]

(* Operating profit without fixed costs is not profit: the cell stays blank.  *)
DashboardTab(in) ==
  LET total == in.report.summary.total
  IN  [walk |-> Cells(total, {"netRevenue", "orders", "newCustomers", "cm1", "cm2", "cm3"}),
       averageOrderValue |-> in.report.summary.averageOrderValue,
       operatingProfit |-> IF total["fixedOperatingCosts"] = 0
                           THEN NotAvailable ELSE <<total["operatingProfit"]>>,
       marketing |-> Cells(in.report.marketing,
         {"advertisingSpend", "mer", "blendedCac", "maximumCac", "cacHeadroom", "breakEvenRoas",
          "roasHeadroom"}),
       cash |-> IF in.hasReportedBankBalance
                THEN <<in.cash.bankBalance, in.cash.availableCash, in.inventoryValue, in.cash.runwayDays>>
                ELSE NotAvailable]

UnitEconomicsTab(report) ==
  [key \in DOMAIN report.skus |->
     Cells(report.skus[key],
           {"unitsSold", "orders", "grossSales", "discounts", "netRevenue", "costs",
            "contributionBeforeAds", "contributionMargin", "netSellingPrice", "unitCogs",
            "unitContribution", "revenueShare"})]

DailyTab(daily) ==
  [d \in DOMAIN daily |->
     Cells(daily[d], SummedFields \cup {"otherAcquisitionSpend"})]

(* Summarised by the engine: a margin is a ratio of totals, which adding up   *)
(* the days in the sheet would lose.                                          *)
MonthlyTab(daily) ==
  LET months == SummariseByMonth(daily)
  IN  [m \in DOMAIN months |->
         Cells(months[m], {"total", "cm1Margin", "cm2Margin", "cm3Margin", "averageOrderValue"})]

MarketingTab(report) ==
  Cells(report.marketing, {"advertisingSpend", "mer", "blendedCac", "newCustomerRoas", "maximumCac",
                           "breakEvenRoas", "cacHeadroom", "roasHeadroom", "isAcquisitionViable",
                           "platforms"})

CashTab(in) == IF in.hasReportedBankBalance THEN <<in.cash>> ELSE NotAvailable

DataQualityTab(in) == [checks |-> in.dataQuality, warnings |-> in.report.warnings]

BuildWorkbook(in) ==
  [dashboard |-> DashboardTab(in), unitEconomics |-> UnitEconomicsTab(in.report),
   daily |-> DailyTab(in.report.daily), monthly |-> MonthlyTab(in.report.daily),
   marketing |-> MarketingTab(in.report), inventory |-> in.inventory,
   cash |-> CashTab(in), dataQuality |-> DataQualityTab(in)]

(* Mutant of EarliestDate: one week of history.                               *)
LastWeekOnly(range, today) == today - 6

EarliestDate(range, today) == IF range.from < today THEN range.from ELSE today

InputOf(today, report, inventory, cash, position) ==
  [report |-> report, cash |-> position,
   hasReportedBankBalance |-> cash.bankBalance # NotAvailable,
   inventory |-> inventory, inventoryValue |-> TotalInventoryValue(inventory).value,
   dataQuality |-> CollectDataQuality(today, NotAvailable, BusinessTimezone),
   observations |-> BuildObservations(report, position, cash.bankBalance # NotAvailable, inventory)]

(* The history is loaded from the first exported day on.                      *)
ExportInput(range, today) ==
  LET cash == LoadCash(RangeEndingOn(today, BurnWindowDays))
      Stock(history) ==
        BuildInventoryPositions(LoadInventoryPositions(today), history.allocated,
          LoadAllocationContext.profiles, today, Policy.inventoryAlertWindowDays)
  IN  InputOf(today, Report(range),
              Stock(Report([from |-> EarliestDate(range, today), to |-> today])), cash,
              BuildCashPosition(today, IF cash.bankBalance = NotAvailable THEN 0 ELSE cash.bankBalance[1],
                cash.commitments, cash.movements, CommitmentHorizonDays, BurnWindowDays))

DefaultExportDays == 90

(* The tabs of an export against the stock, cash and report of the pages.     *)
ShowsTheSame(in, stock, cash, screen) ==
  LET book == BuildWorkbook(in)
      months == ProfitAndLossPage(screen).byMonth
  IN  /\ book.inventory = stock
      /\ book.cash = (IF cash.connected THEN <<cash.position>> ELSE NotAvailable)
      /\ \A m \in DOMAIN book.monthly : book.monthly[m].total = months[m].total
      /\ in.observations = BuildObservations(screen, cash.position, cash.connected, stock)

(* "A figure in the spreadsheet and the same figure on screen cannot come     *)
(* from different code": the workbook of the default range shows the stock,   *)
(* the cash, the months and the judged figures that the pages of that day     *)
(* show, although the export loads its history from the exported range and    *)
(* the pages from the first order.                                            *)
SheetAgreesWithScreen ==
  LET range == RangeEndingOn(Today, DefaultExportDays)
  IN  LoadPolicy.status = "approved" =>
        ShowsTheSame(ExportInput(range, Today), StockPage(Today), CashPage(Today), Report(range))
=============================================================================
