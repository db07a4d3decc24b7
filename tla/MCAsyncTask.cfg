\* Two requests of one RPC thread that share the session of a server.
CONSTANTS
  r1 = r1
  r2 = r2
  a = a
  b = b
  Requests = {r1, r2}
  Hosts = {a, b}
  MaxFan = 2
  Lists <- Broadcast
SPECIFICATION FairSpec
INVARIANTS
  AnswersTellAll
  AnswersDoNotCross
  TimedOutLeavesPool
PROPERTIES
  RequestsAnswered
\* The model stops when all requests are answered.
CHECK_DEADLOCK FALSE
