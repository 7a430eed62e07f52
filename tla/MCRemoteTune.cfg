CONSTANTS
  Surfaces = {cat, rigctl}
  Freqs = {7030000, 14020000}
  StartFreq = 7030000
  RitStep = 10
  RitMax = 15
  Offsets = {15}
  AaTaps = 3
  DecTaps = 2
  SsbTaps = 4
  Silence = silence
  MaxFrames = 7
  MaxSamples = 7
  Lines <- MCLines
  MaxLines = 7
  MaxBands = 2
  DefaultScale = default
  CompiledIn <- MCCompiledIn
  Periods = 4
  MaxFd = 1
  LineMax = 2
  Chars = {letter, digit}
SPECIFICATION MCSpec
INVARIANTS
  TransmitsWhereAsked
  FollowsInReceive
  RitStartsAfresh
  NoBoundaryShows
  EachBandAsWritten
  ClockReaches
  HealsItself
  LeavesNothingBound
  WritesToLiveGadget
  BelievesOnlyAHost
  TouchesItsOwnUnlessLate
  LineIsWhatWasSent
SYMMETRY SurfaceSymmetry
