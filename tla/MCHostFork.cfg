SPECIFICATION MCSpec
CONSTANTS
  Parts = {"ledger"}
  Kin = {k1, k2}
  Serial = {s1, s2}
  Lasting = {s1}
  TLSTarget = {"guardrail-proxy"}
  ReloadModes = {"fn", "signal"}
  TLSFaults = {}
  NumArchives = 3
  MaxInode = 6
  FirstInode = 3
  MaxFiles = 2
  MaxBytes = 5
  DiskFaults = {}
  Config = {g1, g2, b1}
  WellFormed = {g1, g2}
  CfgReload = {TRUE, FALSE}
  CfgFaults = {}
  Server = {d1, d2, d3}
  MaxPid = 6
  HangFaults = {}
  SockFaults = {}
  Worker = {w1, w2}
  Process = {daemon, ctl}
  DampFaults = {}
  Key = {target}
  Lock = {lockA, lockB}
  MaxExecutions10Min = 2
  MaxExecutions1Hour = 3
  DefaultCooldown = 1
  DefaultQuarantineDuration = 4
  Window10Min = 2
  Window1Hour = 4
  Retention = 5
  Durations = {2}
  Watched = {}
  MaxIncidents = 1
  MaxTime = 5
  MaxRecords = 4
  Writer = {p1, p2}
  Data = {e1, e2}
  LongData = {}
  MaxLines = 3
  LedgerFaults = {}
  SizeOf <- MCSizeOf
  ProcOf <- MCProcOf
  KeyOf <- MCKeyOf
  LockOf <- MCSerial
  k1 = k1
  k2 = k2
  s1 = s1
  s2 = s2
  g1 = g1
  g2 = g2
  b1 = b1
  d1 = d1
  d2 = d2
  d3 = d3
  w1 = w1
  w2 = w2
  daemon = daemon
  ctl = ctl
  target = target
  lockA = lockA
  lockB = lockB
  p1 = p1
  p2 = p2
  e1 = e1
  e2 = e2
  e3 = e3
  Absent = Absent
  Torn = Torn
  NoConfig = NoConfig
  NoSocket = NoSocket
INVARIANTS
  AppendedVerifies
CHECK_DEADLOCK FALSE
