\* Two cancellations that may overlap, with and without the foreign key; two
\* instances of the app; a package of three cycles, two days apart; a
\* cart of two products, two of each or none, whose rows an admin changes among three.
SPECIFICATION FulfilmentSpec
CONSTANTS
  Admins = {a1, a2}
  Schemas = {TRUE, FALSE}
  Trackers = {t1, t2}
  NoTracker = NoTracker
  Triggers = {verify, webhook}
  Instances = {i1, i2}
  total_cycles = 3
  interval_days = 2
  MaxLate = 2
  Products = {p1, p2}
  PriceList <- ThreeRows
  Hidden = Hidden
  Quantities = {0, 2}
INVARIANTS
  OrderKeepsUp
  WindowOpensOnce
  ReturnSafe
  PackageSafe
  PricingSafe
PROPERTIES
  MovesForward
  CancelledIsQuiet
  DeliveryIsNoticed
  ReturnPromise
  PackagePromise
CHECK_DEADLOCK FALSE
