CONSTANTS
  Limit = 2
  SockSize = 3
  MaxRequests = 3
SPECIFICATION FairSampling
INVARIANT PingPong
