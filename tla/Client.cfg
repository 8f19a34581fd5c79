SPECIFICATION FairSpec
CONSTANTS
  MaxItems = 7
  PageLimit = 2
  MaxChanges = 3
  MaxPages = 3
  MaxRetries = 2
INVARIANTS
  TypeOK
  MissedOnlyBehindAMove
  TwiceOnlyIfMoved
  ReceivedIsWritten
PROPERTIES
  ImplementsSource
  EveryListingEnds
