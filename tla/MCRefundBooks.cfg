\* The bookkeeping of a completed refund fails and is never repeated.
SPECIFICATION Spec
CONSTANTS
  Admins = {a1}
  Cron = cron
  Refunds = {r1}
  NoRefund = NoRefund
  Paid = 2
  Environments <- OnlyCalm
SYMMETRY Symmetry
INVARIANTS
  AcknowledgedIsBooked
CHECK_DEADLOCK FALSE
