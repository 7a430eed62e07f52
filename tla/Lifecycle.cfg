CONSTANTS
  Callers = {"main", "key", "hamlib", "hpsdr"}
  Surfaces = {"hamlib", "hpsdr"}
SPECIFICATION LifeSpec
INVARIANTS
  ParkedUnlessKeyedLate
  ColdUnlessKeyedEarly
PROPERTIES
  ShutsDown
CHECK_DEADLOCK FALSE
