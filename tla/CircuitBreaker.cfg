\* Two half-open slots and a threshold of two, so that a period can end with
\* slots partly answered; four callers leave two besides the trial calls.
\* No symmetry: the run also checks liveness.
SPECIFICATION BreakerSpec
CONSTANTS
  Callers = {c1, c2, c3, c4}
  Threshold = 2
  HalfOpenMaxCalls = 2
INVARIANTS NotWedged SlotsAccounted
PROPERTIES ContractKept SaturationResolves
