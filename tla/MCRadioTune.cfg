CONSTANTS
  Callers = {rigctl, hpsdr}
  Worker = tx_worker
  Freqs = {7030000, 14020000}
  Offsets = {0, 500}
  StartFreq = 7030000
SPECIFICATION TuneSpec
INVARIANTS
  Clk2FollowsDial
  RitBelongsToDial
  FilterFollowsDial
SYMMETRY CallerSymmetry
