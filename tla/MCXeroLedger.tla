----------------------------- MODULE MCXeroLedger -----------------------------
(* Small instances of XeroLedger: the first transaction has no date, and    *)
(* the others are coded to different accounts.                              *)
EXTENDS XeroLedger

MCAccountOf == [d \in Docs |-> IF d = "t2" THEN "rent" ELSE "fees"]
=============================================================================
