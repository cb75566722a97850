\* A call outlives the claim: two refunds of one order.
SPECIFICATION Spec
CONSTANTS
  Admins = {a1, a2}
  Cron = cron
  Refunds = {r1, r2}
  NoRefund = NoRefund
  Paid = 2
  Environments <- OnlySlow
SYMMETRY Symmetry
INVARIANTS
  AtMostOneLiveRefund
CHECK_DEADLOCK FALSE
