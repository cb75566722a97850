\* One attempt, one verify request; news come when they come.
SPECIFICATION Spec
CONSTANTS
  Attempts = {p}
  Verifiers = {v}
  NoPayment = NoPayment
PROPERTIES
  CancelledIsTerminal
CHECK_DEADLOCK FALSE
