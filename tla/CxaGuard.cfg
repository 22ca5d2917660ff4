SPECIFICATION GuardSpec
CONSTANT
  Callers = {t1, t2, t3}
INVARIANTS
  UseIsBuilt
  BuiltOnce
  GuardInv
PROPERTY
  EveryoneGetsIn
