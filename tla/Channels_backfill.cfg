CONSTANTS
  Orders = {"o1", "o2"}
  TestOrders = {}
  CustomerOf <- MCCustomerOf
  OrderedAt <- MCOrderedAt
  VariantOf <- MCVariantOf
  OrdersPerPage = 1
  OrderWindow = 1
  BackfillSince = 2
  LastDay = 3
  MaxEdits = 2
  MaxIncidents = 2
  Careless = TRUE
  Settlements = "net"
  MetaEntities = {"m1", "m2"}
  TikTokEntities = {"t1"}
  RestatementWindow = 1
  RestatedDays = 0
  Undated = {"t1"}
  Refused = TRUE
  LastAdDay = 3
  MaxCharges = 2
  MaxAdFaults = 1
SPECIFICATION ChannelsSpec
PROPERTIES
  SyncHoldsItsWindow
ACTION_CONSTRAINT ChangesMeetReads
