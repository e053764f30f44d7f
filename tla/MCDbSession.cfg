SPECIFICATION SSpec
CONSTANTS
  Users = {u1, u2}
  Conns = {c1, c2}
  pool_size = 1
  NoUser = NoUser
  NoConn = NoConn
CHECK_DEADLOCK FALSE
INVARIANTS ConnectionsSafe PermitsServed UnitsWhole
PROPERTIES WaitersServed
