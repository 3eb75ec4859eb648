CONSTANTS
  Handlers = {h1}
  Loop = loop
  MaxRestarts = 1
  MaxFaults = 0
  MaxReboots = 0
  Slots = {q1, q2}
  MaxVersion = 3
  auth = auth
  Keys = {auth, other}
  Limit <- MCLimit
  Window = 2
  CleanEvery = 3
  MaxTime = 5
  Markets = {m1, m2}
  MaxSize = 2
  Tenants = {t1, t2}
  Chats = {c1, c2}
  MaxCodes = 1
  Nobody = nobody
  Users = {u1}
  Operators = {u1}
  Strategies = {x, y}
  Cooldown = 2
  MaxNow = 6
  MaxTaps = 2
SPECIFICATION ControlPlaneSpec
INVARIANT OneProcessPerTenant
CHECK_DEADLOCK FALSE
