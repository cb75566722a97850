\* An order: two attempts, one verify request at a time, news when they
\* come or in order.
\* A subscription: two charges, four events, one request. A bulk booking: two
\* requests, two prices, two Razorpay orders. Only one part runs, so what
\* differs only in name may share its names.
SPECIFICATION PayingSpec
CONSTANTS
  Attempts = {x1, x2}
  Verifiers = {v}
  NoPayment = NoPayment
  Requesters = {c}
  total_count = 2
  MaxNews = 4
  Requests = {x1, x2}
  Prices = {p1, p2}
  Statuses = {"quoted", "confirmed", "cancelled"}
  MaxOrders = 2
  NoPrice = NoPrice
  Keep = Keep
SYMMETRY PayingSymmetry
INVARIANTS
  TypeOK
  PaidIsPaidFor
  RowsAgree
  SubscriptionSafe
  AgreesAtRest
  BulkSafe
PROPERTIES
  StoredPaymentStays
  OrderNeverMovesBack
  PaidStaysPaid
CHECK_DEADLOCK FALSE
