\* Two connections that share one topic, tickets that expire, a channel of
\* two messages.
CONSTANTS
  a = a
  b = b
  None = None
  Conns <- MCConns
  Topics <- MCTopics
  MaxTickets = 2
  Ttl = 1
  Capacity = 2
  MaxClock = 2
  MaxMessages = 4
  MaxRequests = 3
SPECIFICATION LiveSpec
INVARIANTS TypeOK OnlineExact UpdatesKept
PROPERTIES AdmittedOnce UpdateArrives
CHECK_DEADLOCK FALSE
