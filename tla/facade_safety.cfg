SPECIFICATION Spec
CONSTANTS
  Callers = {c1, c2}
  Loaders = {l1, l2}
  Timers = {t1, t2}
  Kinds = {"load", "reply", "interpret"}
  LoadOutcomes = {"ok", "exception", "error"}
CHECK_DEADLOCK FALSE
SYMMETRY CallerSymmetry
INVARIANTS TypeOK OneLoadAtATime NativeCallsExclude
