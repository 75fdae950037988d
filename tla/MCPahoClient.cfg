SPECIFICATION FairSpec
INVARIANT SubscriptionKept
PROPERTY QuitsOnQ
CHECK_DEADLOCK FALSE
