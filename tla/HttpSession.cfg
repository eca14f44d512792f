SPECIFICATION FairSpec
CONSTANTS
  MaxRequests = 4
  MaxInput = 3
  MaxOutput = 2
INVARIANT NothingLeaks
INVARIANT AnsweredInOrder
INVARIANT NeverStuck
INVARIANT DeadlineFollowsRequest
PROPERTY CountedOnce
PROPERTY AwaitEnds
