SPECIFICATION Spec
CONSTANTS
  a = a
  b = b
  c = c
  x = x
  y = y
  Session = {a, b}
  Connection = {x}
  ConnectionOf <- MCConnectionOf
  ConnectionLimit <- MCOne
  MaxConcurrent = 1
  QueueDepth = 0
  Desktop = {}
  Call = {c1}
  NoSession = NoSession
  NoCard = NoCard
  MaxRun = 2
  MaxMessage = 2
SYMMETRY Chats
INVARIANT SlotInv
INVARIANT EndInv
 
PROPERTY HeldStartsNothing
CHECK_DEADLOCK FALSE
