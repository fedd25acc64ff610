CONSTANTS
  W = 4
SPECIFICATION Spec
INVARIANTS EveryValueOccurs
