CONSTANTS
  Audio = audio
  Hpsdr = hpsdr
  Callers = {audio, hpsdr, rigctl}
  HangPolls = 2
  RampBlocks = 1
SPECIFICATION ArbSpec
INVARIANTS
  KeyWinsUnlessLate
  NoHotSwitch
  RestFollowsRequest
  InTxHonestUnlessRaced
PROPERTIES
  HangsThroughGaps
  ReleasesInSilence
  KeyLetsGo
  KeyIsHeard
  SwitchesCold
  SettlesOnLastRequest
  ImplementsSwitch
