CONSTANTS
  Keys = {k}
  Values = {v, w}
  None = none
  Blank = blank
  MaxTouches = 1
  Callers = {c1, c2}
  Controller = ctl
  Goroutines = {g1}
  NTiers = 2
  Policies = {"write-through", "write-back", "write-around"}
  WarmKey = k
  WarmValue = w
  MaxConfigs = 2
SPECIFICATION Spec
INVARIANTS TypeOK CopiesAllowed
SYMMETRY Symmetry
