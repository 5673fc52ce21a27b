SPECIFICATION SocketSpec
CONSTANTS
  Channels = {c1, c2, c3}
  Nobody = Nobody
CHECK_DEADLOCK FALSE
INVARIANTS OneChannel
