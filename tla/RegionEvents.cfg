SPECIFICATION FairSpec
CONSTANTS
  Regions = {r1, r2}
  Threads = {t1}
  NoRegion = NoRegion
  MaxObjects = 2
  MaxEvents = 2
INVARIANTS
  TypeOK
  IteratorValid
  RefMatchesQueue
  NotStranded
  ExitLosesNothing
  NoEventMissed
  Inv
PROPERTIES
  FeedSpec
  EventsArePublished
