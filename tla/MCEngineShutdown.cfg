SPECIFICATION Spec
CONSTANTS
  c1 = c1
  c2 = c2
  daemon = daemon
  ctl = ctl
  r1 = r1
  f1 = f1
  rbFile = rbFile
  rbConf = rbConf
  stale = stale
  cfgId = cfgId
  Call = {c1, c2}
  Process = {daemon, ctl}
  ProcOf <- MCProcOf
  Resource = {r1}
  LockPath = {f1}
  LockPathFor <- MCLockPathFor
  Runbook = {rbFile, rbConf}
  Label = {stale, cfgId}
  NamesOf <- MCNamesOf
  TargetOf <- MCTargetOf
  NumActions <- MCNumActions
  NumSteps <- MCNumSteps
  NoCall = NoCall
  NoResource = NoResource
  NoRunbook = NoRunbook
  NoLabel = NoLabel
  Faults = {"close"}
INVARIANTS
  SuccessIsAudited

CHECK_DEADLOCK FALSE
