------------------------------- MODULE Engine -------------------------------
(***************************************************************************)
(* Engine.Remediate (internal/engine/engine.go), the closed control loop   *)
(* that takes an alert through the FSM of RemediationFSM, as run by many   *)
(* concurrent calls in one or more processes (the daemon's ingress         *)
(* goroutines and remediation-ctl runs share the lock directory and the    *)
(* journal directory).  One action per stretch of Remediate between two    *)
(* writes to state that another call, a crash or a later reader can see:   *)
(* the flock files, the WAL files, the audit ledger.                       *)
(*                                                                         *)
(* Abstracted: verdicts of pre/postconditions, of the damping gate and of  *)
(* actions and compensating steps are arbitrary; payload digests, reasons  *)
(* and timestamps are dropped; the ledger is seen through the records each *)
(* call appended to it (AuditLedger models the chain itself).              *)
(***************************************************************************)
EXTENDS RemediationFSM, Naturals, Sequences

CONSTANTS
  Call,          \* Remediate invocations
  Process,       \* operating-system processes that host an engine
  ProcOf,        \* the process a call runs in
  Resource,      \* alert.ResourceID values
  LockPath,      \* lock files
  LockPathFor,   \* Coordinator.LockPathFor
  Runbook,       \* the registered catalog
  Label,         \* values of the alert's runbook_id label
  NamesOf,       \* labels GetRunbook resolves to a runbook: id, name, aliases
  TargetOf,      \* Runbook.TargetResourceID
  NumActions,    \* len(Runbook.Actions)
  NumSteps,      \* len(Runbook.RollbackSteps)
  NoCall, NoResource, NoRunbook, NoLabel,
  Faults         \* the failures the environment may inject

FaultKinds == {"lock", "stage", "append", "update", "close", "crash"}

ASSUME EngineAssumption ==
  /\ ProcOf \in [Call -> Process]
  /\ LockPathFor \in [Resource -> LockPath]
  /\ NamesOf \in [Runbook -> SUBSET Label]
  /\ TargetOf \in [Runbook -> Resource]
  /\ NumActions \in [Runbook -> Nat]
  /\ NumSteps \in [Runbook -> Nat]
  /\ NoCall \notin Call
  /\ NoResource \notin Resource
  /\ NoRunbook \notin Runbook
  /\ NoLabel \notin Label
  /\ Faults \subseteq FaultKinds

VARIABLES
  pc,        \* where each call is in Remediate
  alert,     \* its alert: resource and runbook_id label
  runbook,   \* the matched runbook
  fsm,       \* its FSM
  trail,     \* the states it managed to append to the audit ledger, in order
  holder,    \* the call that holds the flock on each lock file
  wal,       \* the state on disk of the call's WAL record
  applied,   \* actions dispatched to the executor
  undone,    \* compensating steps completed, counted from the last one
  recorded,  \* calls counted by damping.RecordExecution
  result,    \* the RemediationResult returned
  up,        \* processes running
  open       \* processes whose ledger file is open

vars == <<pc, alert, runbook, fsm, trail, holder, wal, applied, undone,
          recorded, result, up, open>>

-----------------------------------------------------------------------------
\* Journal record states (internal/rollback/journal.go).  NONE: no file.  TORN:
\* a file that readUnsafe cannot parse, left by a truncated or partial write.
WALStates == {"PREPARED", "COMMITTED", "ROLLING_BACK", "ROLLED_BACK", "FAILED"}

Readable(c) == wal[c] \in WALStates

\* Journal.ListPending: unreadable files are skipped.
ListPending == {c \in Call : wal[c] \in {"PREPARED", "ROLLING_BACK"}}

NoAlert == [resource |-> NoResource, label |-> NoLabel]
NoResult == [final |-> "NONE", success |-> FALSE, rolledBack |-> FALSE]
Result(s, ok, rb) == [final |-> s, success |-> ok, rolledBack |-> rb]

PCs == {"idle", "resolve", "lock", "lockEscalate", "damp", "precheck",
        "refuse", "stage", "stageEscalate", "execute", "act", "pass", "commit",
        "audit", "record", "fault", "rollback", "undoStart", "undo",
        "undoFail", "undoEscalate", "rolledBack", "rbEscalate", "unlock",
        "done", "dead"}

\* From a successful TryLock until the deferred Unlock.
Critical == PCs \ {"idle", "resolve", "lock", "lockEscalate", "done", "dead"}

Path(c) == LockPathFor[alert[c].resource]

Init ==
  /\ pc = [c \in Call |-> "idle"]
  /\ alert = [c \in Call |-> NoAlert]
  /\ runbook = [c \in Call |-> NoRunbook]
  /\ fsm = [c \in Call |-> "DETECTED"]
  /\ trail = [c \in Call |-> <<>>]
  /\ holder = [f \in LockPath |-> NoCall]
  /\ wal = [c \in Call |-> "NONE"]
  /\ applied = [c \in Call |-> 0]
  /\ undone = [c \in Call |-> 0]
  /\ recorded = {}
  /\ result = [c \in Call |-> NoResult]
  /\ up = Process
  /\ open = Process

-----------------------------------------------------------------------------
Goto(c, from, to) == pc[c] = from /\ pc' = [pc EXCEPT ![c] = to]

\* Ledger.Append; Remediate discards its error.
LedgerAppend(c, s) ==
  \/ /\ ProcOf[c] \in open
     /\ trail' = [trail EXCEPT ![c] = Append(@, s)]
  \/ /\ ProcOf[c] \notin open \/ "append" \in Faults
     /\ UNCHANGED trail

\* The idiom of Remediate: fsm.Transition, then ledger.Append of that state.
Enter(c, s) ==
  /\ fsm' = [fsm EXCEPT ![c] = Transition(@, s)]
  /\ LedgerAppend(c, s)

\* Journal.UpdateState, whose error Remediate and ExecuteRollback discard: it
\* re-reads the file, then truncates and rewrites it.
UpdateState(c, s) ==
  \/ /\ Readable(c)
     /\ wal' = [wal EXCEPT ![c] = s]
  \/ /\ ~Readable(c)
     /\ UNCHANGED wal
  \/ /\ "update" \in Faults
     /\ \E s2 \in {wal[c], "TORN"} : wal' = [wal EXCEPT ![c] = s2]

Return(c, r) == result' = [result EXCEPT ![c] = r]

\* Runbooks an alert may be resolved to: by its runbook_id label, or else by
\* target resource (the first match of an iteration over a Go map: any match).
Matching(a) ==
  IF a.label # NoLabel
    THEN {b \in Runbook : a.label \in NamesOf[b]}
    ELSE {b \in Runbook : TargetOf[b] = a.resource}

-----------------------------------------------------------------------------
\* Seeded defects: each stands in for the action named after "of" to show that
\* a property below can fail.

\* of TryLock: the flock is taken without asking whether it is held.
TryLockUnchecked(c) ==
  /\ Goto(c, "lock", "damp")
  /\ holder' = [holder EXCEPT ![Path(c)] = c]
  /\ UNCHANGED <<alert, runbook, fsm, trail, wal, applied, undone, recorded,
                 result, up, open>>

\* of UndoDone: the reverse loop stops at i > 0 instead of i >= 0.
UndoDoneOffByOne(c) ==
  /\ Goto(c, "undo", "rolledBack")
  /\ undone[c] + 1 >= NumSteps[runbook[c]]
  /\ UpdateState(c, "ROLLED_BACK")
  /\ UNCHANGED <<alert, runbook, fsm, trail, holder, applied, undone, recorded,
                 result, up, open>>

\* of UndoFail: a failed compensating step is logged and the loop goes on to
\* report a clean rollback.
UndoFailIgnored(c) ==
  /\ Goto(c, "undoFail", "rolledBack")
  /\ UpdateState(c, "FAILED")
  /\ UNCHANGED <<alert, runbook, fsm, trail, holder, applied, undone, recorded,
                 result, up, open>>

\* of UndoFail: the early return on a failed step leaves the record open.
UndoFailUnsettled(c) ==
  /\ Goto(c, "undoFail", "undoEscalate")
  /\ UNCHANGED <<alert, runbook, fsm, trail, holder, wal, applied, undone,
                 recorded, result, up, open>>

\* of UndoFail: the FSM's state is written to the journal instead of its own.
UndoFailWrongState(c) ==
  /\ Goto(c, "undoFail", "undoEscalate")
  /\ UpdateState(c, "ESCALATED")
  /\ UNCHANGED <<alert, runbook, fsm, trail, holder, applied, undone, recorded,
                 result, up, open>>

\* of CommitAudit: a commit whose ledger append may have failed is rolled back.
CommitAuditOrRollback(c) ==
  /\ Goto(c, "audit", "record") \/ Goto(c, "audit", "fault")
  /\ LedgerAppend(c, "COMMITTED")
  /\ UNCHANGED <<alert, runbook, fsm, holder, wal, applied, undone, recorded,
                 result, up, open>>

\* of Pass: COMMITTED is entered in the ledger ahead of the journal.
PassAuditFirst(c) ==
  /\ Goto(c, "pass", "commit")
  /\ fsm' = [fsm EXCEPT ![c] = Transition(@, "POSTCHECK_PASSED")]
  /\ LedgerAppend(c, "COMMITTED")
  /\ UNCHANGED <<alert, runbook, holder, wal, applied, undone, recorded,
                 result, up, open>>

\* of Rollback: the lock is given up before the compensating steps.
RollbackUnlocked(c) ==
  /\ Goto(c, "rollback", "undoStart")
  /\ Enter(c, "ROLLING_BACK")
  /\ holder' = [holder EXCEPT ![Path(c)] = NoCall]
  /\ UNCHANGED <<alert, runbook, wal, applied, undone, recorded, result, up,
                 open>>

\* of LockEscalate: only the ledger hears of the escalation.
LockEscalateLedgerOnly(c) ==
  /\ Goto(c, "lockEscalate", "done")
  /\ LedgerAppend(c, "ESCALATED")
  /\ Return(c, Result("ESCALATED", FALSE, FALSE))
  /\ UNCHANGED <<alert, runbook, fsm, holder, wal, applied, undone, recorded,
                 up, open>>

\* of Undo: a failed compensating step is retried for ever.
UndoRetry(c) ==
  /\ pc[c] = "undo"
  /\ undone[c] < NumSteps[runbook[c]]
  /\ \/ undone' = [undone EXCEPT ![c] = @ + 1]
     \/ undone' = [undone EXCEPT ![c] = 0]
  /\ UNCHANGED <<pc, alert, runbook, fsm, trail, holder, wal, applied, recorded,
                 result, up, open>>

\* of Refuse: the early return of a refused call without a deferred Unlock.
RefuseKeepsLock(c) ==
  /\ Goto(c, "refuse", "done")
  /\ Enter(c, "ESCALATED")
  /\ Return(c, Result("PRECHECK_FAILED", FALSE, FALSE))
  /\ UNCHANGED <<alert, runbook, holder, wal, applied, undone, recorded, up,
                 open>>

-----------------------------------------------------------------------------
\* A malformed alert (no id or no resource) is refused without a ledger record.
RejectAlert(c) ==
  /\ ProcOf[c] \in open
  /\ Goto(c, "idle", "done")
  /\ fsm' = [fsm EXCEPT ![c] = Transition(@, "ESCALATED")]
  /\ Return(c, Result("ESCALATED", FALSE, FALSE))
  /\ UNCHANGED <<alert, runbook, trail, holder, wal, applied, undone, recorded,
                 up, open>>

\* Alerts are handed to an engine between NewEngine and Close only.
Receive(c) ==
  /\ ProcOf[c] \in open
  /\ Goto(c, "idle", "resolve")
  /\ \E r \in Resource, l \in Label \cup {NoLabel} :
       alert' = [alert EXCEPT ![c] = [resource |-> r, label |-> l]]
  /\ LedgerAppend(c, "DETECTED")
  /\ UNCHANGED <<runbook, fsm, holder, wal, applied, undone, recorded, result,
                 up, open>>

ResolveMatched(c) ==
  /\ Goto(c, "resolve", "lock")
  /\ \E b \in Matching(alert[c]) : runbook' = [runbook EXCEPT ![c] = b]
  /\ Enter(c, "EVALUATING")
  /\ UNCHANGED <<alert, holder, wal, applied, undone, recorded, result, up,
                 open>>

ResolveUnmatched(c) ==
  /\ Goto(c, "resolve", "done")
  /\ Matching(alert[c]) = {}
  /\ Enter(c, "ESCALATED")
  /\ Return(c, Result("ESCALATED", FALSE, FALSE))
  /\ UNCHANGED <<alert, runbook, holder, wal, applied, undone, recorded, up,
                 open>>

\* Coordinator.TryLock: a non-blocking exclusive flock.
TryLock(c) ==
  /\ Goto(c, "lock", "damp")
  /\ holder[Path(c)] = NoCall
  /\ holder' = [holder EXCEPT ![Path(c)] = c]
  /\ UNCHANGED <<alert, runbook, fsm, trail, wal, applied, undone, recorded,
                 result, up, open>>

\* EWOULDBLOCK, or a failure to create or open the lock file.
LockFailed(c) ==
  /\ Goto(c, "lock", "lockEscalate")
  /\ holder[Path(c)] # NoCall \/ "lock" \in Faults
  /\ Enter(c, "PRECHECK_FAILED")
  /\ UNCHANGED <<alert, runbook, holder, wal, applied, undone, recorded,
                 result, up, open>>

LockEscalate(c) ==
  /\ Goto(c, "lockEscalate", "done")
  /\ Enter(c, "ESCALATED")
  /\ Return(c, Result("ESCALATED", FALSE, FALSE))
  /\ UNCHANGED <<alert, runbook, holder, wal, applied, undone, recorded, up,
                 open>>

DampingClear(c) ==
  /\ Goto(c, "damp", "precheck")
  /\ UNCHANGED <<alert, runbook, fsm, trail, holder, wal, applied, undone,
                 recorded, result, up, open>>

\* The damping gate or one of the preconditions said no.
GateFailed(c) ==
  /\ Goto(c, "damp", "refuse") \/ Goto(c, "precheck", "refuse")
  /\ Enter(c, "PRECHECK_FAILED")
  /\ UNCHANGED <<alert, runbook, holder, wal, applied, undone, recorded,
                 result, up, open>>

Refuse(c) ==
  /\ Goto(c, "refuse", "unlock")
  /\ Enter(c, "ESCALATED")
  /\ Return(c, Result("PRECHECK_FAILED", FALSE, FALSE))
  /\ UNCHANGED <<alert, runbook, holder, wal, applied, undone, recorded, up,
                 open>>

PrecheckPassed(c) ==
  /\ Goto(c, "precheck", "stage")
  /\ Enter(c, "PRECHECK_PASSED")
  /\ UNCHANGED <<alert, runbook, holder, wal, applied, undone, recorded,
                 result, up, open>>

Stage(c) ==
  /\ Goto(c, "stage", "execute")
  /\ wal' = [wal EXCEPT ![c] = "PREPARED"]
  /\ UNCHANGED <<alert, runbook, fsm, trail, holder, applied, undone, recorded,
                 result, up, open>>

\* writeAndSync failed to open, to write or to fsync the new WAL file.
StageFailed(c) ==
  /\ "stage" \in Faults
  /\ Goto(c, "stage", "stageEscalate")
  /\ \E s \in {"NONE", "TORN", "PREPARED"} : wal' = [wal EXCEPT ![c] = s]
  /\ UNCHANGED <<alert, runbook, fsm, trail, holder, applied, undone, recorded,
                 result, up, open>>

StageEscalate(c) ==
  /\ Goto(c, "stageEscalate", "unlock")
  /\ Enter(c, "ESCALATED")
  /\ Return(c, Result("ESCALATED", FALSE, FALSE))
  /\ UNCHANGED <<alert, runbook, holder, wal, applied, undone, recorded, up,
                 open>>

BeginExecute(c) ==
  /\ Goto(c, "execute", "act")
  /\ Enter(c, "EXECUTING")
  /\ UNCHANGED <<alert, runbook, holder, wal, applied, undone, recorded,
                 result, up, open>>

\* One iteration of the action loop; a failed action may have mutated the target.
Act(c) ==
  /\ Goto(c, "act", "act") \/ Goto(c, "act", "fault")
  /\ applied[c] < NumActions[runbook[c]]
  /\ applied' = [applied EXCEPT ![c] = @ + 1]
  /\ UNCHANGED <<alert, runbook, fsm, trail, holder, wal, undone, recorded,
                 result, up, open>>

Postcheck(c) ==
  /\ Goto(c, "act", "pass") \/ Goto(c, "act", "fault")
  /\ applied[c] = NumActions[runbook[c]]
  /\ UNCHANGED <<alert, runbook, fsm, trail, holder, wal, applied, undone,
                 recorded, result, up, open>>

Pass(c) ==
  /\ Goto(c, "pass", "commit")
  /\ Enter(c, "POSTCHECK_PASSED")
  /\ UNCHANGED <<alert, runbook, holder, wal, applied, undone, recorded,
                 result, up, open>>

\* COMMITTED: the FSM and the journal first, then the ledger, then damping.
CommitJournal(c) ==
  /\ Goto(c, "commit", "audit")
  /\ fsm' = [fsm EXCEPT ![c] = Transition(@, "COMMITTED")]
  /\ UpdateState(c, "COMMITTED")
  /\ UNCHANGED <<alert, runbook, trail, holder, applied, undone, recorded,
                 result, up, open>>

CommitAudit(c) ==
  /\ Goto(c, "audit", "record")
  /\ LedgerAppend(c, "COMMITTED")
  /\ UNCHANGED <<alert, runbook, fsm, holder, wal, applied, undone, recorded,
                 result, up, open>>

RecordExecution(c) ==
  /\ Goto(c, "record", "unlock")
  /\ recorded' = recorded \cup {c}
  /\ Return(c, Result("COMMITTED", TRUE, FALSE))
  /\ UNCHANGED <<alert, runbook, fsm, trail, holder, wal, applied, undone, up,
                 open>>

Fault(c) ==
  /\ Goto(c, "fault", "rollback")
  /\ Enter(c, "POSTCHECK_FAILED")
  /\ UNCHANGED <<alert, runbook, holder, wal, applied, undone, recorded,
                 result, up, open>>

Rollback(c) ==
  /\ Goto(c, "rollback", "undoStart")
  /\ Enter(c, "ROLLING_BACK")
  /\ UNCHANGED <<alert, runbook, holder, wal, applied, undone, recorded,
                 result, up, open>>

\* RollbackEngine.ExecuteRollback works from the record Stage returned, in
\* memory: it does not read the steps back from the WAL file.
UndoStart(c) ==
  /\ Goto(c, "undoStart", "undo")
  /\ UpdateState(c, "ROLLING_BACK")
  /\ UNCHANGED <<alert, runbook, fsm, trail, holder, applied, undone, recorded,
                 result, up, open>>

\* One compensating step, in reverse order; the first failure stops the loop.
Undo(c) ==
  /\ pc[c] = "undo"
  /\ undone[c] < NumSteps[runbook[c]]
  /\ \/ /\ Goto(c, "undo", "undo")
        /\ undone' = [undone EXCEPT ![c] = @ + 1]
     \/ /\ Goto(c, "undo", "undoFail")
        /\ UNCHANGED undone
  /\ UNCHANGED <<alert, runbook, fsm, trail, holder, wal, applied, recorded,
                 result, up, open>>

UndoDone(c) ==
  /\ Goto(c, "undo", "rolledBack")
  /\ undone[c] = NumSteps[runbook[c]]
  /\ UpdateState(c, "ROLLED_BACK")
  /\ UNCHANGED <<alert, runbook, fsm, trail, holder, applied, undone, recorded,
                 result, up, open>>

UndoFail(c) ==
  /\ Goto(c, "undoFail", "undoEscalate")
  /\ UpdateState(c, "FAILED")
  /\ UNCHANGED <<alert, runbook, fsm, trail, holder, applied, undone, recorded,
                 result, up, open>>

UndoEscalate(c) ==
  /\ Goto(c, "undoEscalate", "unlock")
  /\ Enter(c, "ESCALATED")
  /\ Return(c, Result("ESCALATED", FALSE, FALSE))
  /\ UNCHANGED <<alert, runbook, holder, wal, applied, undone, recorded, up,
                 open>>

RolledBack(c) ==
  /\ Goto(c, "rolledBack", "rbEscalate")
  /\ Enter(c, "ROLLED_BACK")
  /\ UNCHANGED <<alert, runbook, holder, wal, applied, undone, recorded,
                 result, up, open>>

RolledBackEscalate(c) ==
  /\ Goto(c, "rbEscalate", "unlock")
  /\ Enter(c, "ESCALATED")
  /\ Return(c, Result("ROLLED_BACK", FALSE, TRUE))
  /\ UNCHANGED <<alert, runbook, holder, wal, applied, undone, recorded, up,
                 open>>

\* The deferred resLock.Unlock.
Unlock(c) ==
  /\ Goto(c, "unlock", "done")
  /\ holder' = [holder EXCEPT ![Path(c)] = NoCall]
  /\ UNCHANGED <<alert, runbook, fsm, trail, wal, applied, undone, recorded,
                 result, up, open>>

-----------------------------------------------------------------------------
\* Engine.Close while calls are still running: Daemon.Stop gives HTTP handlers
\* five seconds, then closes the ledger under them.
Close(p) ==
  /\ "close" \in Faults
  /\ p \in open
  /\ open' = open \ {p}
  /\ UNCHANGED <<pc, alert, runbook, fsm, trail, holder, wal, applied, undone,
                 recorded, result, up>>

Lives(p) == {c \in Call : ProcOf[c] = p /\ pc[c] \notin {"idle", "done"}}

\* Calls that may be inside writeAndSync: of a new record, or of one they read.
Writing(p) ==
  {c \in Lives(p) :
     \/ pc[c] = "stage"
     \/ /\ Readable(c)
        /\ \/ pc[c] \in {"commit", "undoStart", "undoFail"}
           \/ pc[c] = "undo" /\ undone[c] = NumSteps[runbook[c]]}

\* The process dies (os.Exit at the end of shutdown, a kill, a panic): the
\* kernel drops its flocks; a WAL file caught between truncation and write is
\* left unreadable (at most one: the journal's mutex).
Crash(p) ==
  /\ "crash" \in Faults
  /\ p \in up
  /\ up' = up \ {p}
  /\ open' = open \ {p}
  /\ pc' = [c \in Call |-> IF c \in Lives(p) THEN "dead" ELSE pc[c]]
  /\ holder' = [f \in LockPath |-> IF holder[f] \in Lives(p)
                                     THEN NoCall ELSE holder[f]]
  /\ \/ UNCHANGED wal
     \/ \E c \in Writing(p) : wal' = [wal EXCEPT ![c] = "TORN"]
  /\ UNCHANGED <<alert, runbook, fsm, trail, applied, undone, recorded, result>>

\* NewEngine: opens the ledger.  Pending WAL records are left as they are.
Restart(p) ==
  /\ p \notin up
  /\ up' = up \cup {p}
  /\ open' = open \cup {p}
  /\ UNCHANGED <<pc, alert, runbook, fsm, trail, holder, wal, applied, undone,
                 recorded, result>>

Step(c) ==
  \/ ResolveMatched(c) \/ ResolveUnmatched(c)
  \/ TryLock(c) \/ LockFailed(c) \/ LockEscalate(c)
  \/ DampingClear(c) \/ GateFailed(c) \/ Refuse(c) \/ PrecheckPassed(c)
  \/ Stage(c) \/ StageFailed(c) \/ StageEscalate(c)
  \/ BeginExecute(c) \/ Act(c) \/ Postcheck(c)
  \/ Pass(c) \/ CommitJournal(c) \/ CommitAudit(c) \/ RecordExecution(c)
  \/ Fault(c) \/ Rollback(c) \/ UndoStart(c) \/ Undo(c) \/ UndoDone(c)
  \/ UndoFail(c) \/ UndoEscalate(c) \/ RolledBack(c) \/ RolledBackEscalate(c)
  \/ Unlock(c)

Next ==
  \/ \E c \in Call : RejectAlert(c) \/ Receive(c) \/ Step(c)
  \/ \E p \in Process : Close(p) \/ Crash(p) \/ Restart(p)

Spec == Init /\ [][Next]_vars

\* A call that has started is a running goroutine: the Go scheduler keeps
\* giving it turns.  Alerts, shutdowns and crashes are the environment's.
FairSpec == Spec /\ \A c \in Call : WF_vars(Step(c))

-----------------------------------------------------------------------------
TypeOK ==
  /\ pc \in [Call -> PCs]
  /\ alert \in [Call -> [resource : Resource \cup {NoResource},
                         label : Label \cup {NoLabel}]]
  /\ runbook \in [Call -> Runbook \cup {NoRunbook}]
  /\ fsm \in [Call -> AllStates]
  /\ trail \in [Call -> Seq(AllStates)]
  /\ holder \in [LockPath -> Call \cup {NoCall}]
  /\ wal \in [Call -> WALStates \cup {"NONE", "TORN"}]
  /\ applied \in [Call -> Nat]
  /\ undone \in [Call -> Nat]
  /\ recorded \subseteq Call
  /\ result \in [Call -> [final : AllStates \cup {"NONE"}, success : BOOLEAN,
                          rolledBack : BOOLEAN]]
  /\ up \subseteq Process
  /\ open \subseteq up

\* Two calls whose alerts name the same lock file are never both between a
\* successful TryLock and the deferred Unlock, whichever processes they run in
\* and whatever crashes: Remediate's step 3, "Mutual Exclusion".
LockMutex ==
  \A c, d \in Call :
    c # d /\ pc[c] \in Critical /\ pc[d] \in Critical => Path(c) # Path(d)

WALTrue(c) ==
  /\ applied[c] > 0 => wal[c] # "NONE"
  /\ wal[c] = "COMMITTED" =>
       applied[c] = NumActions[runbook[c]] /\ undone[c] = 0
  /\ wal[c] = "ROLLED_BACK" => undone[c] = NumSteps[runbook[c]]
  /\ wal[c] = "FAILED" => undone[c] < NumSteps[runbook[c]]
  /\ undone[c] > 0 => wal[c] \notin {"NONE", "COMMITTED"}

\* What the WAL file says of a call is true of the target, under every fault:
\* nothing is applied before a record was staged; a COMMITTED record means the
\* whole action list ran and nothing was undone; ROLLED_BACK means every
\* compensating step ran, FAILED that one did not.
JournalTruth == \A c \in Call : WALTrue(c)

ResultTrue(c) ==
  /\ result[c].success =>
       /\ applied[c] = NumActions[runbook[c]]
       /\ undone[c] = 0
       /\ c \in recorded
  /\ result[c].rolledBack =>
       undone[c] = NumSteps[runbook[c]] /\ c \notin recorded
  /\ result[c].final = "PRECHECK_FAILED" => applied[c] = 0 /\ wal[c] = "NONE"
  /\ result[c].final = "ESCALATED" =>
       applied[c] = 0 \/ undone[c] < NumSteps[runbook[c]]

\* What the caller is told is true of the target: success means all actions ran
\* and none was undone, RolledBack that every compensating step ran, a refusal
\* that nothing was touched, and an escalation that the target is untouched or
\* was left with a compensating step missing.
ResultTruth == \A c \in Call : pc[c] = "done" => ResultTrue(c)

\* A settled WAL record is never rewritten: a committed remediation is not
\* rolled back later, a failed rollback is not turned into a clean one.
SettledForever ==
  [][\A c \in Call : wal[c] \in {"COMMITTED", "ROLLED_BACK", "FAILED"}
                       => wal'[c] = wal[c]]_vars

Before(s, i) == {s[j] : j \in 1..(i - 1)}

\* The ledger's records of one call follow the FSM of state.go forward: no state
\* twice, nothing after COMMITTED or ESCALATED, and never both a commit and a
\* rollback, even when appends are lost because their errors are discarded.
AuditMonotone ==
  \A c \in Call : \A i \in 1..Len(trail[c]) :
    /\ trail[c][i] \notin Before(trail[c], i)
    /\ ~ \E s \in Before(trail[c], i) :
         \/ IsTerminal(s)
         \/ <<trail[c][i], s>> \in validTransitions
         \/ s = "POSTCHECK_PASSED" /\ trail[c][i] # "COMMITTED"

\* A ledger record may follow another: as a transition of the FSM, or as the
\* ESCALATED that Remediate appends after a failed Stage although the FSM has no
\* such transition and refused it.
MayFollow(s, t) ==
  CanTransition(s, t) \/ (s = "PRECHECK_PASSED" /\ t = "ESCALATED")

\* The ledger's records of c are the path of its FSM.  Two gaps are the code's:
\* COMMITTED is appended a journal write after the transition, and after a failed
\* Stage the ledger says ESCALATED while the FSM stays at PRECHECK_PASSED.
Followed(c) ==
  LET last == trail[c][Len(trail[c])] IN
  trail[c] # <<>> =>
    /\ trail[c][1] = "DETECTED"
    /\ \A i \in 1..(Len(trail[c]) - 1) : MayFollow(trail[c][i], trail[c][i + 1])
    /\ \/ last = fsm[c]
       \/ /\ pc[c] \in {"audit", "dead"}
          /\ fsm[c] = "COMMITTED" /\ last = "POSTCHECK_PASSED"
       \/ /\ pc[c] \in {"unlock", "done", "dead"}
          /\ fsm[c] = "PRECHECK_PASSED" /\ last = "ESCALATED"

\* Until the ledger is closed under a call or an append of it fails, each of its
\* steps, and a crash that ends it, leaves in the ledger the path its FSM took,
\* up to the state the FSM is in: nothing is skipped, repeated or made up.  The
\* two places where Remediate itself departs from that are named in Followed.
AuditTracksFSM ==
  [][\A c \in Call : ProcOf[c] \in open /\ pc'[c] # pc[c] => Followed(c)']_vars

\* While journal writes succeed, the ledger is never ahead of the journal: what
\* it records as executing, committed or rolled back is durable in the WAL,
\* at every instant at which the process may die.
AuditNeverAhead ==
  \A c \in Call : \A i \in 1..Len(trail[c]) :
    /\ trail[c][i] = "EXECUTING" => wal[c] # "NONE"
    /\ trail[c][i] = "COMMITTED" => wal[c] = "COMMITTED"
    /\ trail[c][i] = "ROLLED_BACK" => wal[c] = "ROLLED_BACK"

\* While journal writes succeed, a transaction that ListPending reports is one
\* whose call is still running or was cut off: every return path of Remediate
\* settles its record, so an operator who asks what is pending gets no ghosts.
PendingIsUnfinished == \A c \in ListPending : pc[c] # "done"

\* Every call that starts ends, unless its process dies under it.
Terminates ==
  \A c \in Call : pc[c] \notin {"idle"} ~> pc[c] \in {"done", "dead"}

\* Whoever holds a resource's lock gives it up, on every return path of Remediate
\* and on death: no resource is shut out of remediation for good.
LockReleased ==
  \A f \in LockPath, c \in Call : holder[f] = c ~> holder[f] # c

\* The response to a successful remediation says "Remediation verified, committed,
\* and chained to audit ledger": a successful call has its COMMITTED record.
SuccessIsAudited ==
  \A c \in Call : pc[c] = "done" /\ result[c].success =>
    trail[c] # <<>> /\ trail[c][Len(trail[c])] = "COMMITTED"

-----------------------------------------------------------------------------
\* A call as a transaction of RemediationTx: what its place in Remediate and its
\* result mean there.
PhaseAt(s) ==
  CASE s \in {"idle", "resolve", "lock", "lockEscalate"} -> "new"
    [] s \in Critical -> "owner"
    [] s = "done" -> "ended"
    [] s = "dead" -> "lost"

ToldBy(r) ==
  CASE r.final = "NONE" -> "nothing"
    [] r.final = "PRECHECK_FAILED" -> "refused"
    [] r.final = "COMMITTED" -> "committed"
    [] r.final = "ROLLED_BACK" -> "rolledBack"
    [] OTHER -> "escalated"

Tx == INSTANCE RemediationTx WITH
        Tx <- Call, Target <- LockPath, Plan <- Runbook, NoTx <- NoCall,
        NoPlan <- NoRunbook, phase <- [c \in Call |-> PhaseAt(pc[c])],
        owner <- holder, plan <- runbook, done <- applied, undone <- undone,
        told <- [c \in Call |-> ToldBy(result[c])]

\* Remediate implements the transaction: under every fault it changes the target
\* only while it holds the lock, never applies after it began to compensate, says
\* once and truthfully how it ended, and gives up the lock only after that.
ImplementsTx == Tx!Spec

=============================================================================
