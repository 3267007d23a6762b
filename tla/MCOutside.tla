------------------------------ MODULE MCOutside ------------------------------
(***************************************************************************)
(* Small instances of what is kept in step with services outside: the Xero *)
(* tokens, the Xero ledger and the Google workbook.  They share no state:  *)
(* a behaviour is one of one of them, chosen at first, with the others at  *)
(* rest, and what is checked here together holds of each alone.            *)
(***************************************************************************)
EXTENDS XeroTokens, XeroLedger, SheetsExport

VARIABLE side

MCInit == side \in {"tokens", "ledger", "workbook"} /\ TokensInit /\ Init /\ SheetInit

MCNext == \/ side = "tokens" /\ TokensNext /\ UNCHANGED <<side, vars, sheetVars>>
          \/ side = "ledger" /\ Next /\ UNCHANGED <<side, tokenVars, sheetVars>>
          \/ side = "workbook" /\ SheetNext /\ UNCHANGED <<side, tokenVars, vars>>

(* With the fairness of FairTokensSpec, FairSpec and FairSheetSpec.         *)
MCSpec ==
  /\ MCInit
  /\ [][MCNext]_<<side, tokenVars, vars, sheetVars>>
  /\ \A p \in Processes :
       /\ WF_tokenVars(side = "tokens" /\ BeginXeroRun(p))
       /\ WF_tokenVars(side = "tokens" /\ CurrentAccessToken(p))
       /\ WF_tokenVars(side = "tokens" /\ (NextRequest(p) \/ EndRun(p)))
  /\ WF_tokenVars(side = "tokens" /\ ExpireAccess)
  /\ WF_vars(side = "ledger" /\ RefreshXero)
  /\ \A e \in Nightly : WF_sheetVars(side = "workbook" /\ WriteWorkbook(e))

(* The first transaction has no date; the others are coded to different     *)
(* accounts.                                                                *)
MCAccountOf == [d \in Docs |-> IF d = "t2" THEN "rent" ELSE "fees"]
=============================================================================
