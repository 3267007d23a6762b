CONSTANTS
  Transactions = {"t1", "t2"}
  Invoices = {"i1"}
  Dropped = {"t1"}
  Accounts = {"rent", "fees"}
  AccountOf <- MCAccountOf
  PageSize = 1
  MaxChanges = 3
  MaxFaults = 0
SPECIFICATION FairSpec
PROPERTIES
  VoidedIsTakenBack
