\* The webhook of a failed refund hits a newer retry.
SPECIFICATION Spec
CONSTANTS
  Admins = {a1}
  Cron = cron
  Refunds = {r1, r2}
  NoRefund = NoRefund
  Paid = 2
  Environments <- OnlyRacing
SYMMETRY Symmetry
INVARIANTS
  FailedMovesNoMoney
CHECK_DEADLOCK FALSE
