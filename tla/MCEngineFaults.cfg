SPECIFICATION Spec
CONSTANTS
  c1 = c1
  c2 = c2
  daemon = daemon
  ctl = ctl
  r1 = r1
  f1 = f1
  rbFile = rbFile
  rbConf = rbConf
  stale = stale
  cfgId = cfgId
  Call = {c1, c2}
  Process = {daemon}
  ProcOf <- MCOneProcOf
  Resource = {r1}
  LockPath = {f1}
  LockPathFor <- MCLockPathFor
  Runbook = {rbFile}
  Label = {stale}
  NamesOf <- MCNamesOf
  TargetOf <- MCTargetOf
  NumActions <- MCNumActions
  NumSteps <- MCNumSteps
  NoCall = NoCall
  NoResource = NoResource
  NoRunbook = NoRunbook
  NoLabel = NoLabel
  Faults = {"lock", "stage", "update", "close", "crash"}
SYMMETRY MCSymmetry
INVARIANTS
  TypeOK
  JournalTruth
  ResultTruth
  AuditMonotone
PROPERTIES
  SettledForever
  AuditTracksFSM
  ImplementsTx
CHECK_DEADLOCK FALSE
