SPECIFICATION MCSpec
SYMMETRY Symmetry
CONSTANTS
  t1 = t1
  t2 = t2
  s1 = s1
  s2 = s2
  tube = tube
  g1 = g1
  g2 = g2
  None = None
  NoTube = NoTube
  DefaultTube = tube
  Tickets = {t1, t2}
  Sessions = {s1, s2}
  Tubes <- MCTubes
  Groups <- MCGroups
  Nices <- MCNices
  Horizon = 1
  MaxAge = 0
  MaxAttempts = 0
  Submissions <- MCSubmissions
  Batches <- MCBatches
  FnUpdates <- Finishes
  PollDelays <- MCPollDelays
  Limit = 1
  ExpireLimit = 1
  Bases <- MCBases
  Durations <- MCDurations
  Extras <- MCExtras
  MostAttempts = 8
PROPERTY ExpireOnlyTerminal
