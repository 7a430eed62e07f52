CONSTANTS
  Samples = {lo, hi}
  Silence = lo
  Cap = 4
  Block = 3
  Packet = 2
SPECIFICATION RingSpec
INVARIANTS
  NoSharedSlot
  StoresWhatFits
  FreshAfterReset
PROPERTY ImplementsQueue
