SPECIFICATION Spec
CONSTANTS
  Goods = {1, 2}
  Cost <- Prices
  Maker <- Sources
  MaxCount = 2
  MaxChanges = 1
  MaxAdds = 2
  MaxBlocks = 2
INVARIANT FiltersHaveCosts
CHECK_DEADLOCK FALSE
