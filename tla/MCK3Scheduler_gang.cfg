CONSTANTS
  World = 2
  Width = 2
  Tray = 4
  Slack = 4
  Latency = 1
  q1 = q1
  q2 = q2
  q3 = q3
  Request = {q1, q2, q3}
  Fickle = {q1}
  NoReq = NoReq
  Home <- MCHome
  Setups <- MCSetups
  MaxBatch = 1
  MaxTokens = 2
  PrefillLaunches = 2
  MaxPost = 0
  MaxLaunch = 18
SPECIFICATION Spec
INVARIANTS TypeOK NeverFatal OneLaunchPerSuperstep FallbackMeansCancelled SlotsConserved
PROPERTY EveryoneAnswered
