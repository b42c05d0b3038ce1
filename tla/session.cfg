SPECIFICATION FairSpec
CONSTANTS
  Accounts = {"ann", "bob"}
  Nobody = "nobody"
  MaxContents = 4
  MaxPhones = 2
  MaxKills = 2
  MaxBlocks = 4
INVARIANTS TypeOK ScreensFollowAuth ProfileIsRight DocumentsFollowAccounts
PROPERTIES ContentIsStable LoadingCloses
CHECK_DEADLOCK FALSE
