SPECIFICATION FairMeasureSpec
CONSTANTS
  NoConnection = NoConnection
  NoState = NoState
  a = a
  b = b
  g1 = g1
  g2 = g2
  p1 = p1
  p2 = p2
  x = x
  y = y
  Session = {a, b}
  Connection = {x}
  State = {g1, g2}
  Probe = {p1, p2}
  Fallback <- MCNone
INVARIANT HeldIsWatched
PROPERTY HoldEnds
PROPERTY RetryEnds
