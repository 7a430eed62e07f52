CONSTANTS
  Callers = {rigctl}
  Worker = tx_worker
  Freqs = {7030000, 14020000}
  Offsets = {500}
  StartFreq = 7030000
SPECIFICATION TuneSpec
INVARIANT RitKeepsOffTransmitter
