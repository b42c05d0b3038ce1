\* One item with two pieces: the third call to arrive is refused.
SPECIFICATION Spec
CONSTANTS
  u1 = u1
  i1 = i1
  i2 = i2
  Users = {u1}
  NoUser = NoUser
  Items = {i1}
  Names = {i1}
  NameOf <- OwnName
  Shelf <- TwoEach
  Lines = {l1, l2, l3}
  NoLine = NoLine
  Calls = {c1, c2, c3}
  MaxCount = 1
INVARIANTS RefusalReachesClient
CHECK_DEADLOCK FALSE
