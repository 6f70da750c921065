SPECIFICATION Spec
CONSTANTS
  tube = tube
  group = group
  None = None
  Tickets = {t1, t2}
  Tubes <- MCTubes
  Groups <- MCNoGroups
  Nices <- MCNices
  Horizon = 1
  MaxAge = 0
  MaxAttempts = 0
  Workers = {w1}
  Flushers = {f1}
  Poller = Poller
  Pusher = Pusher
  BatchCap = 2
  OutcomeCap = 2
  TubesOn = FALSE
  InitialTubes <- MCTubes
  Submissions <- MCSubmissions
  HandlerCalls <- AckOrDone
  ClientCalls <- MCNoCalls
  PollDelays <- MCPollDelays
  Limit = 2
  ExpireLimit = 2
  MayStop = FALSE
  MayDelete = FALSE
PROPERTY NoUpdateDropped
