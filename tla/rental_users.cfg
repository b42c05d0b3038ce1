SPECIFICATION RentalSpec
CONSTANTS
  u1 = u1
  u2 = u2
  i1 = i1
  i2 = i2
  Users = {u1, u2}
  NoUser = NoUser
  Items = {i1}
  Names = {i1}
  NameOf <- OwnName
  Shelf <- TwoEach
  Lines = {l1, l2}
  NoLine = NoLine
  Calls = {c1, c2, c3}
  MaxCount = 1
  MaxOrders = 2
SYMMETRY Symmetric
INVARIANTS LedgerBalanced CarefulUseIsExact NoLineOrderedTwice ScreenFollowsOrders
CHECK_DEADLOCK FALSE
