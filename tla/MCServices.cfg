\* Two senders and the reconciler, two attempts at most. Two requests with one
\* idempotency key, one without, two connections. Three ticks and a change of
\* the subscription, two permits. Two attempts to pay, one verify request.
SPECIFICATION ServicesSpec
CONSTANTS
  Senders = {s1, s2}
  Reconcilers = {c}
  MaxAttempts = 2
  Keyed = {r1, r2}
  Keyless = {r3}
  Connections = 2
  NoRequest = NoRequest
  Ticks = {k1, k2, k3}
  Changers = {x}
  Permits = 2
  PoolSize = 3
  NoTick = NoTick
  Attempts = {p1, p2}
  Verifiers = {v}
  NoPayment = NoPayment
INVARIANTS
  TypeOK
  ToldOnce
  RetryMeansRefused
  AttemptsBounded
  CheckoutSafe
  ReminderSafe
PROPERTIES
  VerdictIsFinal
  NothingIsForgotten
  CheckoutEnds
  ReminderPromise
  PaymentIsBooked
CHECK_DEADLOCK FALSE
