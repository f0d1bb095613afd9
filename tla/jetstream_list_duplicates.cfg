\* Three items listed two to a page, with no failed request.
CONSTANTS
  Total = 3
  Limit = 2
  MaxErrors = 0
SPECIFICATION Spec
INVARIANT ListsEachItemOnce
