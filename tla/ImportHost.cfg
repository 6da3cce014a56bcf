SPECIFICATION MCSpec
CONSTANTS
  Claims = {"k1", "k2"}
  MaxFaults = 8
  Threads = {"c1", "c2"}
  MaxCalls = 4
  Requests = {"r1", "r2"}
  Pollers = {"p1", "p2"}
  Timed = {"p1"}
  Topics = {"t1", "t2"}
  MaxMessages = 3
INVARIANTS
  ImportInv
  ClosuresEndWithJob
  BlockInv
  PollerInv
  TrackerInv
  SourceReportsTruly
PROPERTIES
  HostReturns
  FirstSettleWins
  WaitEnds
  StopIsServed
  DisabledForGood
