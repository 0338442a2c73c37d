SPECIFICATION Spec
CONSTANTS
  NoConnection = NoConnection
  NoState = NoState
  a = a
  g1 = g1
  g2 = g2
  p1 = p1
  x = x
  y = y
  Session = {a}
  Connection = {x, y}
  State = {g1, g2}
  Probe = {p1}
  Fallback <- MCFallback
SYMMETRY States
INVARIANT OneSchedule
INVARIANT RetryAlive
