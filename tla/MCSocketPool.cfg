SPECIFICATION Spec
CONSTANTS
  r1 = r1  r2 = r2  n1 = n1  n2 = n2  n3 = n3
  f1 = f1  f2 = f2  f3 = f3
  plain = plain  secure = secure
  Nil = Nil
  Requests = {r1, r2}
  Hosts = {plain, secure}
  SslHosts = {secure}
  Nodes = {n1, n2, n3}
  Fds = {f1, f2, f3}
  Capacity = 2
  MaxLine = 2
SYMMETRY Symmetry
INVARIANTS CapacityIsKept NoSharedSocket AnswersMatchRequests StopLeavesNothingOpen
CHECK_DEADLOCK FALSE
