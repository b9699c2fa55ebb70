CONSTANTS
  Chars <- MCChars
  GroupNames <- MCGroupNames
  Users <- MCUsers
  LineSize = 11
  BufSizes = {1, 2, 3, 4, 5, 6, 7, 8, 9, 10, 11, 12, 13, 16, 20, 21, 22, 23, 24, 30, 31, 32, 33, 40}
SPECIFICATION ListingSpec
CHECK_DEADLOCK FALSE
INVARIANTS
  ListingFits
  ListingIsCut
