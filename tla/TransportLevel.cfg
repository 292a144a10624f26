CONSTANTS
  Levels = {"serial", "radio", "mia"}
  Producers = {"p", "q"}
  Kinds = {"a", "long"}
  LongKinds = {"long"}
  MaxBlocked = 2
  MaxOffers = 3
SPECIFICATION FairSpec
INVARIANT ListSound
PROPERTY PassedInOrder Delivered
CHECK_DEADLOCK FALSE
