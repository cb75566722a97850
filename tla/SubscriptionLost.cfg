\* The renewal's transaction throws and its event is completed all the same.
SPECIFICATION SubscriptionSpec
CONSTANTS
  Requesters = {c}
  total_count = 2
  MaxNews = 4
INVARIANTS
  CompletedIsBooked
CHECK_DEADLOCK FALSE
