SPECIFICATION FairSpec
CONSTANTS
  None = None
  Watchers = {w1, w2}
  Targets = {a}
  MaxLaunches = 1
  MaxSaves = 1
  MaxStops = 1
  MaxRebuilds = 1
  MaxRetries = 3
PROPERTIES SleepSettles
