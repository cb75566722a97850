\* Calls of any length, requests that arrive late, racing failures; or none.
SPECIFICATION Spec
CONSTANTS
  Admins = {a1, a2}
  Cron = cron
  Refunds = {r1, r2}
  NoRefund = NoRefund
  Paid = 2
  Environments <- HostileOrCalm
SYMMETRY Symmetry
INVARIANTS
  TypeOK
  CompletedIsProcessed
  RowsAgree
  RefundedIsNotShipped
  RefundPassedInspection
  CalmRefundIsSingle
PROPERTIES
  CompletedIsFinal
CHECK_DEADLOCK FALSE
