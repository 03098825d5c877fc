CONSTANTS
  Fetchers = {w1, w2, w3}
  Keys = {k1}
  MinInterval = 3
SPECIFICATION IntervalSpec
PROPERTY OwnSpacing
