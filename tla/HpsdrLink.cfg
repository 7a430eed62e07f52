CONSTANTS
  Samples = {lo}
  Silence = lo
  Cap = 4
  Block = 2
  Packet = 2
  Stations = {skimmer, console}
  SeqMod = 3
SPECIFICATION LinkSpec
INVARIANTS
  NumbersFromZero
  FreshForNewClient
PROPERTY KeepsStreaming
