CONSTANTS
  Stations = {panel, logger}
  Nobody = nobody
  MaxSubscribers = 2
  Timeout = 1
  Bound = 2
  PerBlock = 1
SPECIFICATION StreamSpec
INVARIANT AudioNeverWaits
