SPECIFICATION FairSpec
CONSTANTS
  c1 = c1
  c2 = c2
  w1 = w1
  Conns = {c1, c2}
  Workers = {w1, w2}
  Loop = Loop
  App = App
  None = None
  Chosen = "all"
  MaxEvents = 1
  SendSize = 3
  Window = 1
  Budgets <- AllBudgets
CHECK_DEADLOCK FALSE
INVARIANT RefsCounted
INVARIANT OutputInOrder
PROPERTY InputServed
PROPERTY OutputServed
PROPERTY CloseServed
