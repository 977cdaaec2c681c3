\* One reading is ten percent too low.
SPECIFICATION Spec
CONSTANTS
  Drain = {1}
  Charge = {2571}
  Interval = {100}
  Early = {}
  Noise <- MCNoise
  MaxUpsets = 1
  MaxAge = 2000
INVARIANT NoNeedlessPause
