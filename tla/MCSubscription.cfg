SPECIFICATION SubFairSpec
CONSTANTS
  r1 = r1
  w1 = w1
  s1 = s1
  s2 = s2
  a = a
  b = b
  NoThread = NoThread
  Nobody = Nobody
  Value <- MCValue
  Initial <- MCInitial
  Requests <- MCRequest
  Workers <- MCWorkers
  NumVars = 2
  MaxDoc = 2
  MaxRequests = 1
  Ignored <- MCNoneIgnored
  Subscribers <- MCTwo
INVARIANTS
  TypeOKSub
  QuietSubscriberKnowsAll
PROPERTY EverySubscriptionAnswered
