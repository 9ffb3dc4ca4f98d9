CONSTANTS
  Base <- MCBase
  Limit <- MCLimit
  Requests <- MCRequests
SPECIFICATION Spec
INVARIANTS
  NoOverlap
  NothingLost
  FreedIsReusable
PROPERTY RefinesAllocator
