SPECIFICATION FairRentalSpec
CONSTANTS
  u1 = u1
  u2 = u2
  i1 = i1
  i2 = i2
  Users = {u1}
  NoUser = NoUser
  Items = {i1, i2}
  Names = {"name"}
  NameOf <- OneName
  Shelf <- OneEach
  Lines = {l1, l2}
  NoLine = NoLine
  Calls = {c1, c2}
  MaxCount = 1
  MaxOrders = 2
PROPERTIES LedgerSpec OrderAlertCloses OrderedLinesLeave ScreensCatchUp
CHECK_DEADLOCK FALSE
