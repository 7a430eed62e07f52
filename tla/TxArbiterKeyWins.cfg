CONSTANTS
  Audio = audio
  Hpsdr = hpsdr
  Callers = {audio, hpsdr, rigctl}
  HangPolls = 2
  RampBlocks = 1
SPECIFICATION ArbSpec
INVARIANT KeyWins
