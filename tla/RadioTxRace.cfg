CONSTANTS
  Callers = {audio, rigctl}
SPECIFICATION Spec
INVARIANT InTxHonest
