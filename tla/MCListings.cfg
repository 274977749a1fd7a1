SPECIFICATION ListingsSpec
CONSTANTS
  LineWidth = 20
  Types = {1, 2, 3, 4, 5, 6}
  Parent <- ParentOf
  Marked = {5, 6}
  Residual = 6
  Documents <- Docs
  BigHeight = 4
  MultiLines = 20
  LinesAbove = 2
  TableSize = 4
  Selections = {{}, {1, 2, 3, 4, 5, 6}, {1, 4, 2}}
  MaxRequests = 5
INVARIANTS PagesAreRight SelectionsAreSound ListingsMean SpecifiersMean
CHECK_DEADLOCK FALSE
