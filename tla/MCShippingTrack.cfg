\* The schema as it is.
SPECIFICATION Spec
CONSTANTS
  Admins = {a}
  Schemas = {TRUE}
PROPERTIES
  TrackedIsApplied
CHECK_DEADLOCK FALSE
