SPECIFICATION LinkSpec
CONSTANTS
  Addrs = {a1, a2}
  Cams = {c1, c2}
  MaxConns = 2
  MaxMsgs = 3
  MaxSessions = 2
INVARIANTS LinkTypeOK NothingUnpaired OneAck
PROPERTY AnsweredOrGone
CHECK_DEADLOCK FALSE
