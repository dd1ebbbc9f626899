CONSTANTS
  Operations = {}
  Reports = {}
  MaxCalls = 0
  MaxStore = 2
  Values <- MCValues
  NaN = NaN
  MaxChanges = 2
SPECIFICATION FairSpec
PROPERTIES
  SettledIsShown
  HomeIsLearnt
