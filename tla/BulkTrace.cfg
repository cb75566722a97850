\* A quote is revised while the customer pays the old one.
SPECIFICATION BulkSpec
CONSTANTS
  Requests = {r}
  Prices = {p1, p2}
  Statuses = {"quoted", "cancelled"}
  MaxOrders = 2
  NoPrice = NoPrice
  Keep = Keep
INVARIANTS
  RefusedLeavesTrace
CHECK_DEADLOCK FALSE
