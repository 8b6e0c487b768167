SPECIFICATION Spec
CONSTANTS
  None = None
  Watchers = {w1, w2}
  Targets = {a, b}
  MaxLaunches = 2
  MaxSaves = 1
  MaxStops = 1
  MaxRebuilds = 1
  MaxRetries = 3
SYMMETRY Symmetry
INVARIANTS SleepInv ActionsRight NeverSilentlyOff StopIsFinal
