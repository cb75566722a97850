\* The cron alone settles what crashes and lost webhooks leave behind.
SPECIFICATION FairSpec
CONSTANTS
  Admins = {a1}
  Cron = cron
  Refunds = {r1, r2}
  NoRefund = NoRefund
  Paid = 2
  Environments <- OnlyCalm
PROPERTIES
  InitiatedSettles
  LostRefundIsAdopted
  KeepsPromise
CHECK_DEADLOCK FALSE
