SPECIFICATION PubSubFairSpec
CONSTANTS
  s1 = s1
  s2 = s2
  Subscriptions <- MCSubscriptions
  Replay = 2
  SubscriberCapacity = 1
  MaxPublished = 4
CHECK_DEADLOCK FALSE
INVARIANTS
  GapFree
PROPERTIES
  EverySubscriberHears
