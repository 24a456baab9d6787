CONSTANTS
  a = a
  b = b
  c1 = c1
  c2 = c2
  RT_NULL = RT_NULL
  Timer = {a}
  Caller = {c1}
  TICK_MOD = 8
  Ticks = {0, 1}
  MaxLate = 1
  Handler = {"return", "start"}
  Overlap = FALSE
SPECIFICATION Spec
INVARIANTS
  StopStops
