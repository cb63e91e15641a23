SPECIFICATION FairSpec
CONSTANTS
  r1 = r1
  r2 = r2
  w1 = w1
  a = a
  b = b
  NoThread = NoThread
  NumVars = 3
  MaxDoc = 4
  MaxRequests = 3
  Value <- MCValue
  Initial <- MCInitial
  Ignored <- MCIgnored
  Requests <- MCRequests
  Workers <- MCWorkers
INVARIANTS
  TypeOK
  TransactionsBalanced
  PendingOrKnown
  RepeatIsHarmless
  AtRestInSync
PROPERTIES
  AnnouncerSpec
  EventuallyTold
