CONSTANTS
  Stations = {panel, logger, scope}
  Nobody = nobody
  MaxSubscribers = 2
  Timeout = 2
  Bound = 2
  PerBlock = 1
SPECIFICATION StreamSpec
INVARIANTS
  ReachesTheLive
  StaleReadIsCheap
PROPERTIES
  SparesTheSilent
  KeepsSending
