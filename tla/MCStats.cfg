SPECIFICATION MCSpec
CONSTANTS
  w1 = w1
  None = None
  Poller = Poller
  Workers = {w1}
  Callers = {c1}
  Keys = {k1, k2}
  TicksLog2 = 1
  MaxDuration = 9
  Samples <- MCSamples
  MaxSamples = 5
  MaxPolls = 2
  MaxCounts = 1
  MaxResets = 2
INVARIANTS
  TypeOK
  FlowOrdered
  SnapshotCurrent
  HistogramExact
  NativeExact
  ClassicExact
