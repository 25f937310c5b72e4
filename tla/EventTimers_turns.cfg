SPECIFICATION Spec
CONSTANTS
  e1 = e1
  e2 = e2
  e3 = e3
  Node = {e1, e2, e3}
  Nil = Nil
  Null = Null
  KeyOf <- MCKeyOf
  MaxTime = 4
  Delay = {1, 3}
  LazyDelay = 2
  TurnAdds = 1
INVARIANT TimersKept
PROPERTIES ExpirySound DueTimersFire
