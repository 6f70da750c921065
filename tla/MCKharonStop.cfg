SPECIFICATION FairSpec
CONSTANTS
  tube = tube
  group = group
  None = None
  Tickets = {t1}
  Tubes <- MCTubes
  Groups <- MCNoGroups
  Nices <- MCNices
  Horizon = 1
  MaxAge = 0
  MaxAttempts = 0
  Workers = {w1}
  Flushers = {f1}
  Poller = Poller
  Pusher = Pusher
  BatchCap = 2
  OutcomeCap = 10
  TubesOn = FALSE
  InitialTubes <- MCTubes
  Submissions <- MCSubmissions
  HandlerCalls <- OnlyAck
  ClientCalls <- MCNoCalls
  PollDelays <- MCPollDelays
  Limit = 1
  ExpireLimit = 2
  MayStop = TRUE
  MayDelete = FALSE
PROPERTY CancelledRunReturns
