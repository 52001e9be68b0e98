SPECIFICATION Spec
CONSTANTS
  Triggers = {t1, t2}
  MaxSpawns = 3
INVARIANT OneSimulator
PROPERTIES ComesBack TriggersAreAnswered
