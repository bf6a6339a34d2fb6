SPECIFICATION ListingSpec
CONSTANTS
  RowIds = {1, 2, 3}
  MaxTime = 1
  Limits = {1, 2}
  NoStamp = NoStamp
  NoCursor = NoCursor
INVARIANTS ListingTypeOK ScanIsExact
