SPECIFICATION VaultSpec
CONSTANTS
  Docs = {d1}
  NoDoc = NoDoc
  MaxDoing = 1
  MaxReviews = 1
INVARIANT ExpiredIsRefused
CHECK_DEADLOCK FALSE
