SPECIFICATION FairSpec
CONSTANTS
  o1 = o1
  o2 = o2
  o3 = o3
  o4 = o4
  t1 = t1
  i1 = i1
  NoItem = NoItem
  Offers <- MCOffers
  Takes <- MCTakes
  Iterators <- MCIterators
  Signalled <- MCSignalled
  Capacity = 2
INVARIANTS
  NoLostWakeup
  WaitersStandOnce
  Conservation
  WaitersListen
PROPERTIES
  ImplementsChannel
  Drained
