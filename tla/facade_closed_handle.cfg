SPECIFICATION Spec
CONSTANTS
  Callers = {c1, c2}
  Loaders = {l1, l2}
  Timers = {t1, t2}
  Kinds = {"reply"}
  LoadOutcomes = {"ok"}
SYMMETRY CallerSymmetry
INVARIANT NoUseAfterClose
