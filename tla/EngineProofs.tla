---------------------------- MODULE EngineProofs ----------------------------
(***************************************************************************)
(* Proofs about Engine for any set of calls, processes, resources and      *)
(* runbooks, any lock-file naming and any set of injected faults.          *)
(***************************************************************************)
EXTENDS Engine, SequenceTheorems, TLAPS

Settled == {"COMMITTED", "ROLLED_BACK", "FAILED"}

\* A call inside its critical section holds the flock of its alert's resource.
LockInv ==
  \A c \in Call : pc[c] \in Critical => holder[Path(c)] = c

\* The alert of a call that has not returned names a resource.
AlertInv ==
  \A c \in Call : pc[c] \notin {"idle", "done", "dead"} =>
    alert[c].resource \in Resource

\* What is on disk and on the target at each point of Remediate.
Progress(c) ==
  /\ pc[c] \in {"idle", "resolve", "lock", "lockEscalate", "damp", "precheck",
                "refuse", "stage"} =>
       wal[c] = "NONE" /\ applied[c] = 0 /\ undone[c] = 0
  /\ pc[c] = "stageEscalate" =>
       wal[c] \in {"NONE", "TORN", "PREPARED"} /\ applied[c] = 0 /\ undone[c] = 0
  /\ pc[c] = "execute" => wal[c] = "PREPARED" /\ applied[c] = 0
  /\ pc[c] \in {"execute", "act", "pass", "commit", "fault", "rollback",
                "undoStart"} =>
       wal[c] = "PREPARED" /\ undone[c] = 0
  /\ pc[c] \in {"pass", "commit", "audit", "record"} =>
       applied[c] = NumActions[runbook[c]]
  /\ pc[c] \in {"audit", "record"} =>
       wal[c] \in {"PREPARED", "TORN", "COMMITTED"} /\ undone[c] = 0
  /\ pc[c] \in {"undo", "undoFail"} =>
       wal[c] \in {"PREPARED", "TORN", "ROLLING_BACK"}
  /\ pc[c] \in {"undoFail", "undoEscalate"} => undone[c] < NumSteps[runbook[c]]
  /\ pc[c] = "undoEscalate" =>
       wal[c] \in {"PREPARED", "TORN", "ROLLING_BACK", "FAILED"}
  /\ pc[c] \in {"rolledBack", "rbEscalate"} =>
       /\ wal[c] \in {"PREPARED", "TORN", "ROLLING_BACK", "ROLLED_BACK"}
       /\ undone[c] = NumSteps[runbook[c]]

\* A call counts as executed, and has a result, only once it is about to return.
Reported(c) ==
  /\ pc[c] \notin {"unlock", "done", "dead"} => c \notin recorded
  /\ pc[c] \in {"unlock", "done"} => ResultTrue(c)

CallOK(c) == Progress(c) /\ WALTrue(c) /\ Reported(c)

CallInv == \A c \in Call : CallOK(c)

IInv == TypeOK /\ AlertInv /\ LockInv /\ CallInv

-----------------------------------------------------------------------------
\* The FSM never leaves its eleven states.
LEMMA TransitionType ==
  ASSUME NEW s \in AllStates, NEW t \in AllStates
  PROVE  Transition(s, t) \in AllStates
  BY DEF Transition

\* The four building blocks of Remediate keep the type of what they write.
LEMMA GotoType ==
  ASSUME TypeOK, NEW c \in Call, NEW s, NEW t \in PCs, Goto(c, s, t)
  PROVE  pc' \in [Call -> PCs]
  BY DEF TypeOK, Goto

\* An append keeps the ledger trails well typed.
LEMMA AppendType ==
  ASSUME TypeOK, NEW c \in Call, NEW s \in AllStates, LedgerAppend(c, s)
  PROVE  trail' \in [Call -> Seq(AllStates)]
<1>1. trail \in [Call -> Seq(AllStates)]
  BY DEF TypeOK
<1>2. Append(trail[c], s) \in Seq(AllStates)
  BY <1>1, AppendProperties
<1>3. QED
  BY <1>1, <1>2 DEF LedgerAppend

\* Enter keeps FSM states and trails well typed.
LEMMA EnterType ==
  ASSUME TypeOK, NEW c \in Call, NEW s \in AllStates, Enter(c, s)
  PROVE  fsm' \in [Call -> AllStates] /\ trail' \in [Call -> Seq(AllStates)]
  BY AppendType, TransitionType DEF TypeOK, Enter

\* UpdateState keeps the journal well typed.
LEMMA UpdateType ==
  ASSUME TypeOK, NEW c \in Call, NEW s \in WALStates, UpdateState(c, s)
  PROVE  wal' \in [Call -> WALStates \cup {"NONE", "TORN"}]
  BY DEF TypeOK, UpdateState

\* A returned result is well typed.
LEMMA ReturnType ==
  ASSUME TypeOK, NEW c \in Call, NEW s \in AllStates,
         NEW ok \in BOOLEAN, NEW rb \in BOOLEAN, Return(c, Result(s, ok, rb))
  PROVE  result' \in [Call -> [final : AllStates \cup {"NONE"},
                               success : BOOLEAN, rolledBack : BOOLEAN]]
  BY DEF TypeOK, Return, Result

\* Every step of every call, and of the processes, keeps the types.
LEMMA TypeStep == TypeOK /\ [Next]_vars => TypeOK'
<1> SUFFICES ASSUME TypeOK, [Next]_vars PROVE TypeOK'
  OBVIOUS
<1> USE EngineAssumption
<1>1. ASSUME NEW c \in Call, RejectAlert(c) PROVE TypeOK'
  <2>1. "ESCALATED" \in AllStates /\ "done" \in PCs
    BY DEF AllStates, PCs
  <2>2. fsm' \in [Call -> AllStates]
    BY <1>1, <2>1, TransitionType DEF RejectAlert, TypeOK
  <2>3. pc' \in [Call -> PCs]
    BY <1>1, <2>1, GotoType DEF RejectAlert
  <2> QED
    BY <1>1, <2>1, <2>2, <2>3, ReturnType DEF RejectAlert, TypeOK
<1>2. ASSUME NEW c \in Call, Receive(c) PROVE TypeOK'
  BY <1>2, GotoType, AppendType DEF Receive, TypeOK, PCs, AllStates
<1>3. ASSUME NEW c \in Call, ResolveMatched(c) PROVE TypeOK'
  <2>1. "EVALUATING" \in AllStates /\ "lock" \in PCs
    BY DEF AllStates, PCs
  <2>2. runbook' \in [Call -> Runbook \cup {NoRunbook}]
    BY <1>3 DEF ResolveMatched, TypeOK, Matching
  <2>3. pc' \in [Call -> PCs]
    BY <1>3, <2>1, GotoType DEF ResolveMatched
  <2> QED
    BY <1>3, <2>1, <2>2, <2>3, EnterType DEF ResolveMatched, TypeOK
<1>4. ASSUME NEW c \in Call, ResolveUnmatched(c) PROVE TypeOK'
  BY <1>4, GotoType, EnterType, ReturnType
     DEF ResolveUnmatched, TypeOK, PCs, AllStates
<1>5. ASSUME NEW c \in Call, TryLock(c) PROVE TypeOK'
  BY <1>5, GotoType DEF TryLock, TypeOK, PCs
<1>6. ASSUME NEW c \in Call, LockFailed(c) PROVE TypeOK'
  BY <1>6, GotoType, EnterType DEF LockFailed, TypeOK, PCs, AllStates
<1>7. ASSUME NEW c \in Call, LockEscalate(c) PROVE TypeOK'
  BY <1>7, GotoType, EnterType, ReturnType
     DEF LockEscalate, TypeOK, PCs, AllStates
<1>8. ASSUME NEW c \in Call, DampingClear(c) PROVE TypeOK'
  BY <1>8, GotoType DEF DampingClear, TypeOK, PCs
<1>9. ASSUME NEW c \in Call, GateFailed(c) PROVE TypeOK'
  BY <1>9, GotoType, EnterType DEF GateFailed, TypeOK, PCs, AllStates
<1>10. ASSUME NEW c \in Call, Refuse(c) PROVE TypeOK'
  BY <1>10, GotoType, EnterType, ReturnType DEF Refuse, TypeOK, PCs, AllStates
<1>11. ASSUME NEW c \in Call, PrecheckPassed(c) PROVE TypeOK'
  BY <1>11, GotoType, EnterType DEF PrecheckPassed, TypeOK, PCs, AllStates
<1>12. ASSUME NEW c \in Call, Stage(c) PROVE TypeOK'
  BY <1>12, GotoType DEF Stage, TypeOK, PCs, WALStates
<1>13. ASSUME NEW c \in Call, StageFailed(c) PROVE TypeOK'
  BY <1>13, GotoType DEF StageFailed, TypeOK, PCs, WALStates
<1>14. ASSUME NEW c \in Call, StageEscalate(c) PROVE TypeOK'
  BY <1>14, GotoType, EnterType, ReturnType
     DEF StageEscalate, TypeOK, PCs, AllStates
<1>15. ASSUME NEW c \in Call, BeginExecute(c) PROVE TypeOK'
  BY <1>15, GotoType, EnterType DEF BeginExecute, TypeOK, PCs, AllStates
<1>16. ASSUME NEW c \in Call, Act(c) PROVE TypeOK'
  BY <1>16, GotoType DEF Act, TypeOK, PCs
<1>17. ASSUME NEW c \in Call, Postcheck(c) PROVE TypeOK'
  BY <1>17, GotoType DEF Postcheck, TypeOK, PCs
<1>18. ASSUME NEW c \in Call, Pass(c) PROVE TypeOK'
  BY <1>18, GotoType, EnterType DEF Pass, TypeOK, PCs, AllStates
<1>19. ASSUME NEW c \in Call, CommitJournal(c) PROVE TypeOK'
  <2>1. "COMMITTED" \in AllStates /\ "COMMITTED" \in WALStates /\ "audit" \in PCs
    BY DEF AllStates, WALStates, PCs
  <2>2. fsm' \in [Call -> AllStates]
    BY <1>19, <2>1, TransitionType DEF CommitJournal, TypeOK
  <2>3. pc' \in [Call -> PCs]
    BY <1>19, <2>1, GotoType DEF CommitJournal
  <2> QED
    BY <1>19, <2>1, <2>2, <2>3, UpdateType DEF CommitJournal, TypeOK
<1>20. ASSUME NEW c \in Call, CommitAudit(c) PROVE TypeOK'
  BY <1>20, GotoType, AppendType DEF CommitAudit, TypeOK, PCs, AllStates
<1>21. ASSUME NEW c \in Call, RecordExecution(c) PROVE TypeOK'
  BY <1>21, GotoType, ReturnType DEF RecordExecution, TypeOK, PCs, AllStates
<1>22. ASSUME NEW c \in Call, Fault(c) PROVE TypeOK'
  BY <1>22, GotoType, EnterType DEF Fault, TypeOK, PCs, AllStates
<1>23. ASSUME NEW c \in Call, Rollback(c) PROVE TypeOK'
  BY <1>23, GotoType, EnterType DEF Rollback, TypeOK, PCs, AllStates
<1>24. ASSUME NEW c \in Call, UndoStart(c) PROVE TypeOK'
  BY <1>24, GotoType, UpdateType DEF UndoStart, TypeOK, PCs, WALStates
<1>25. ASSUME NEW c \in Call, Undo(c) PROVE TypeOK'
  <2>1. "undo" \in PCs /\ "undoFail" \in PCs
    BY DEF PCs
  <2>2. pc' \in [Call -> PCs]
    BY <1>25, <2>1, GotoType DEF Undo
  <2>3. undone' = [undone EXCEPT ![c] = undone[c] + 1] \/ undone' = undone
    BY <1>25 DEF Undo
  <2>4. undone \in [Call -> Nat]
    BY DEF TypeOK
  <2>5. undone' \in [Call -> Nat]
    BY <2>3, <2>4
  <2> QED
    BY <1>25, <2>2, <2>5 DEF Undo, TypeOK
<1>26. ASSUME NEW c \in Call, UndoDone(c) PROVE TypeOK'
  BY <1>26, GotoType, UpdateType DEF UndoDone, TypeOK, PCs, WALStates
<1>27. ASSUME NEW c \in Call, UndoFail(c) PROVE TypeOK'
  BY <1>27, GotoType, UpdateType DEF UndoFail, TypeOK, PCs, WALStates
<1>28. ASSUME NEW c \in Call, UndoEscalate(c) PROVE TypeOK'
  BY <1>28, GotoType, EnterType, ReturnType
     DEF UndoEscalate, TypeOK, PCs, AllStates
<1>29. ASSUME NEW c \in Call, RolledBack(c) PROVE TypeOK'
  BY <1>29, GotoType, EnterType DEF RolledBack, TypeOK, PCs, AllStates
<1>30. ASSUME NEW c \in Call, RolledBackEscalate(c) PROVE TypeOK'
  BY <1>30, GotoType, EnterType, ReturnType
     DEF RolledBackEscalate, TypeOK, PCs, AllStates
<1>31. ASSUME NEW c \in Call, Unlock(c) PROVE TypeOK'
  BY <1>31, GotoType DEF Unlock, TypeOK, PCs
<1>32. ASSUME NEW p \in Process, Close(p) PROVE TypeOK'
  BY <1>32 DEF Close, TypeOK
<1>33. ASSUME NEW p \in Process, Crash(p) PROVE TypeOK'
  BY <1>33 DEF Crash, TypeOK, Writing, Lives, PCs
<1>34. ASSUME NEW p \in Process, Restart(p) PROVE TypeOK'
  BY <1>34 DEF Restart, TypeOK
<1>35. CASE UNCHANGED vars
  BY <1>35 DEF TypeOK, vars
<1> QED
  BY <1>1, <1>2, <1>3, <1>4, <1>5, <1>6, <1>7, <1>8, <1>9, <1>10, <1>11,
     <1>12, <1>13, <1>14, <1>15, <1>16, <1>17, <1>18, <1>19, <1>20, <1>21,
     <1>22, <1>23, <1>24, <1>25, <1>26, <1>27, <1>28, <1>29, <1>30, <1>31,
     <1>32, <1>33, <1>34, <1>35
     DEF Next, Step

-----------------------------------------------------------------------------
\* A move that neither enters the critical section nor leaves "idle" for it
\* keeps every lock with its holder.
LEMMA MoveKeepsLock ==
  ASSUME TypeOK, AlertInv, LockInv, NEW c \in Call, NEW s, NEW t,
         Goto(c, s, t), UNCHANGED <<alert, holder>>,
         s \in Critical \/ t \notin Critical,
         s \notin {"idle", "done", "dead"} \/ t \in {"done", "dead"}
  PROVE  AlertInv' /\ LockInv'
<1>1. AlertInv'
  BY DEF AlertInv, Goto, TypeOK
<1>2. LockInv'
  BY DEF LockInv, Goto, TypeOK, Path
<1>3. QED
  BY <1>1, <1>2

\* Mutual exclusion step by step.  TryLock finds the file free, so no other call
\* in its critical section has the same path; Unlock frees a file only its caller
\* held; a crash frees the files of calls that leave their critical sections.
LEMMA LockStep == TypeOK /\ AlertInv /\ LockInv /\ [Next]_vars => AlertInv' /\ LockInv'
<1> SUFFICES ASSUME TypeOK, AlertInv, LockInv, [Next]_vars
             PROVE  AlertInv' /\ LockInv'
  OBVIOUS
<1> USE EngineAssumption
<1>1. ASSUME NEW c \in Call, RejectAlert(c) PROVE AlertInv' /\ LockInv'
  BY <1>1, MoveKeepsLock DEF RejectAlert, Critical, PCs
<1>2. ASSUME NEW c \in Call, Receive(c) PROVE AlertInv' /\ LockInv'
  <2>1. AlertInv'
    BY <1>2 DEF Receive, Goto, AlertInv, TypeOK
  <2>2. LockInv'
    <3> SUFFICES ASSUME NEW d \in Call, pc'[d] \in Critical
                 PROVE  holder'[Path(d)'] = d
      BY DEF LockInv
    <3>1. d # c /\ pc[d] \in Critical
      BY <1>2 DEF Receive, Goto, TypeOK, Critical
    <3>2. alert'[d] = alert[d] /\ holder' = holder
      BY <1>2, <3>1 DEF Receive, TypeOK
    <3> QED
      BY <3>1, <3>2 DEF LockInv, Path
  <2> QED
    BY <2>1, <2>2
<1>3. ASSUME NEW c \in Call, ResolveMatched(c) PROVE AlertInv' /\ LockInv'
  BY <1>3, MoveKeepsLock DEF ResolveMatched, Critical, PCs
<1>4. ASSUME NEW c \in Call, ResolveUnmatched(c) PROVE AlertInv' /\ LockInv'
  BY <1>4, MoveKeepsLock DEF ResolveUnmatched, Critical, PCs
<1>5. ASSUME NEW c \in Call, TryLock(c) PROVE AlertInv' /\ LockInv'
  <2>1. AlertInv'
    BY <1>5 DEF TryLock, Goto, AlertInv, TypeOK
  <2>2. Path(c) \in LockPath
    BY <1>5 DEF TryLock, Goto, AlertInv, Path
  <2>3. ASSUME NEW d \in Call, pc'[d] \in Critical
        PROVE  holder'[Path(d)'] = d
    <3>1. CASE d = c
      BY <1>5, <2>2, <3>1 DEF TryLock, Path, TypeOK
    <3>2. CASE d # c
      <4>1. pc[d] \in Critical
        BY <1>5, <2>3, <3>2 DEF TryLock, Goto, TypeOK
      <4>2. holder[Path(d)] = d
        BY <4>1 DEF LockInv
      <4>3. Path(d) # Path(c)
        BY <1>5, <4>2 DEF TryLock
      <4> QED
        BY <1>5, <4>2, <4>3 DEF TryLock, Path, TypeOK
    <3> QED
      BY <3>1, <3>2
  <2> QED
    BY <2>1, <2>3 DEF LockInv
<1>6. ASSUME NEW c \in Call, LockFailed(c) PROVE AlertInv' /\ LockInv'
  BY <1>6, MoveKeepsLock DEF LockFailed, Critical, PCs
<1>7. ASSUME NEW c \in Call, LockEscalate(c) PROVE AlertInv' /\ LockInv'
  BY <1>7, MoveKeepsLock DEF LockEscalate, Critical, PCs
<1>8. ASSUME NEW c \in Call, DampingClear(c) PROVE AlertInv' /\ LockInv'
  BY <1>8, MoveKeepsLock DEF DampingClear, Critical, PCs
<1>9. ASSUME NEW c \in Call, GateFailed(c) PROVE AlertInv' /\ LockInv'
  BY <1>9, MoveKeepsLock DEF GateFailed, Critical, PCs
<1>10. ASSUME NEW c \in Call, Refuse(c) PROVE AlertInv' /\ LockInv'
  BY <1>10, MoveKeepsLock DEF Refuse, Critical, PCs
<1>11. ASSUME NEW c \in Call, PrecheckPassed(c) PROVE AlertInv' /\ LockInv'
  BY <1>11, MoveKeepsLock DEF PrecheckPassed, Critical, PCs
<1>12. ASSUME NEW c \in Call, Stage(c) PROVE AlertInv' /\ LockInv'
  BY <1>12, MoveKeepsLock DEF Stage, Critical, PCs
<1>13. ASSUME NEW c \in Call, StageFailed(c) PROVE AlertInv' /\ LockInv'
  BY <1>13, MoveKeepsLock DEF StageFailed, Critical, PCs
<1>14. ASSUME NEW c \in Call, StageEscalate(c) PROVE AlertInv' /\ LockInv'
  BY <1>14, MoveKeepsLock DEF StageEscalate, Critical, PCs
<1>15. ASSUME NEW c \in Call, BeginExecute(c) PROVE AlertInv' /\ LockInv'
  BY <1>15, MoveKeepsLock DEF BeginExecute, Critical, PCs
<1>16. ASSUME NEW c \in Call, Act(c) PROVE AlertInv' /\ LockInv'
  BY <1>16, MoveKeepsLock DEF Act, Critical, PCs
<1>17. ASSUME NEW c \in Call, Postcheck(c) PROVE AlertInv' /\ LockInv'
  BY <1>17, MoveKeepsLock DEF Postcheck, Critical, PCs
<1>18. ASSUME NEW c \in Call, Pass(c) PROVE AlertInv' /\ LockInv'
  BY <1>18, MoveKeepsLock DEF Pass, Critical, PCs
<1>19. ASSUME NEW c \in Call, CommitJournal(c) PROVE AlertInv' /\ LockInv'
  BY <1>19, MoveKeepsLock DEF CommitJournal, Critical, PCs
<1>20. ASSUME NEW c \in Call, CommitAudit(c) PROVE AlertInv' /\ LockInv'
  BY <1>20, MoveKeepsLock DEF CommitAudit, Critical, PCs
<1>21. ASSUME NEW c \in Call, RecordExecution(c) PROVE AlertInv' /\ LockInv'
  BY <1>21, MoveKeepsLock DEF RecordExecution, Critical, PCs
<1>22. ASSUME NEW c \in Call, Fault(c) PROVE AlertInv' /\ LockInv'
  BY <1>22, MoveKeepsLock DEF Fault, Critical, PCs
<1>23. ASSUME NEW c \in Call, Rollback(c) PROVE AlertInv' /\ LockInv'
  BY <1>23, MoveKeepsLock DEF Rollback, Critical, PCs
<1>24. ASSUME NEW c \in Call, UndoStart(c) PROVE AlertInv' /\ LockInv'
  BY <1>24, MoveKeepsLock DEF UndoStart, Critical, PCs
<1>25. ASSUME NEW c \in Call, Undo(c) PROVE AlertInv' /\ LockInv'
  BY <1>25, MoveKeepsLock DEF Undo, Critical, PCs
<1>26. ASSUME NEW c \in Call, UndoDone(c) PROVE AlertInv' /\ LockInv'
  BY <1>26, MoveKeepsLock DEF UndoDone, Critical, PCs
<1>27. ASSUME NEW c \in Call, UndoFail(c) PROVE AlertInv' /\ LockInv'
  BY <1>27, MoveKeepsLock DEF UndoFail, Critical, PCs
<1>28. ASSUME NEW c \in Call, UndoEscalate(c) PROVE AlertInv' /\ LockInv'
  BY <1>28, MoveKeepsLock DEF UndoEscalate, Critical, PCs
<1>29. ASSUME NEW c \in Call, RolledBack(c) PROVE AlertInv' /\ LockInv'
  BY <1>29, MoveKeepsLock DEF RolledBack, Critical, PCs
<1>30. ASSUME NEW c \in Call, RolledBackEscalate(c) PROVE AlertInv' /\ LockInv'
  BY <1>30, MoveKeepsLock DEF RolledBackEscalate, Critical, PCs
<1>31. ASSUME NEW c \in Call, Unlock(c) PROVE AlertInv' /\ LockInv'
  <2>1. AlertInv'
    BY <1>31 DEF Unlock, Goto, AlertInv, TypeOK
  <2>2. holder[Path(c)] = c
    BY <1>31 DEF Unlock, Goto, LockInv, Critical, PCs
  <2>3. ASSUME NEW d \in Call, pc'[d] \in Critical
        PROVE  holder'[Path(d)'] = d
    <3>1. d # c /\ pc[d] \in Critical
      BY <1>31, <2>3 DEF Unlock, Goto, TypeOK, Critical
    <3>2. holder[Path(d)] = d
      BY <3>1 DEF LockInv
    <3>3. Path(d) # Path(c)
      BY <2>2, <3>1, <3>2
    <3> QED
      BY <1>31, <3>2, <3>3 DEF Unlock, Path, TypeOK
  <2> QED
    BY <2>1, <2>3 DEF LockInv
<1>32. ASSUME NEW p \in Process, Crash(p) PROVE AlertInv' /\ LockInv'
  <2>1. AlertInv'
    BY <1>32 DEF Crash, AlertInv, TypeOK
  <2>2. ASSUME NEW d \in Call, pc'[d] \in Critical
        PROVE  holder'[Path(d)'] = d
    <3>1. d \notin Lives(p) /\ pc[d] \in Critical
      BY <1>32, <2>2 DEF Crash, Critical
    <3>2. holder[Path(d)] = d
      BY <3>1 DEF LockInv
    <3>3. Path(d) \in LockPath
      BY <3>1 DEF AlertInv, Path, Critical
    <3> QED
      BY <1>32, <3>1, <3>2, <3>3 DEF Crash, Path, TypeOK
  <2> QED
    BY <2>1, <2>2 DEF LockInv
<1>33. ASSUME NEW p \in Process, Close(p) PROVE AlertInv' /\ LockInv'
  BY <1>33 DEF Close, AlertInv, LockInv, Path
<1>34. ASSUME NEW p \in Process, Restart(p) PROVE AlertInv' /\ LockInv'
  BY <1>34 DEF Restart, AlertInv, LockInv, Path
<1>35. CASE UNCHANGED vars
  BY <1>35 DEF vars, AlertInv, LockInv, Path
<1> QED
  BY <1>1, <1>2, <1>3, <1>4, <1>5, <1>6, <1>7, <1>8, <1>9, <1>10, <1>11,
     <1>12, <1>13, <1>14, <1>15, <1>16, <1>17, <1>18, <1>19, <1>20, <1>21,
     <1>22, <1>23, <1>24, <1>25, <1>26, <1>27, <1>28, <1>29, <1>30, <1>31,
     <1>32, <1>33, <1>34, <1>35
     DEF Next, Step

-----------------------------------------------------------------------------
\* A step of call c leaves every other call's data alone.
OnlyCall(c) ==
  \A d \in Call \ {c} :
    /\ pc'[d] = pc[d]
    /\ runbook'[d] = runbook[d]
    /\ wal'[d] = wal[d]
    /\ applied'[d] = applied[d]
    /\ undone'[d] = undone[d]
    /\ result'[d] = result[d]
    /\ d \in recorded' <=> d \in recorded

CallStepOf(c) == RejectAlert(c) \/ Receive(c) \/ Step(c)

\* Calls interfere only through the lock files and the ledger.
LEMMA CallsAreLocal ==
  ASSUME TypeOK, NEW c \in Call, CallStepOf(c)
  PROVE  OnlyCall(c)
<1>1. CASE RejectAlert(c)
  BY <1>1 DEF OnlyCall, TypeOK, RejectAlert, Goto, Return
<1>2. CASE Receive(c)
  BY <1>2 DEF OnlyCall, TypeOK, Receive, Goto
<1>3. CASE ResolveMatched(c)
  BY <1>3 DEF OnlyCall, TypeOK, ResolveMatched, Goto
<1>4. CASE ResolveUnmatched(c)
  BY <1>4 DEF OnlyCall, TypeOK, ResolveUnmatched, Goto, Return
<1>5. CASE TryLock(c)
  BY <1>5 DEF OnlyCall, TypeOK, TryLock, Goto
<1>6. CASE LockFailed(c)
  BY <1>6 DEF OnlyCall, TypeOK, LockFailed, Goto
<1>7. CASE LockEscalate(c)
  BY <1>7 DEF OnlyCall, TypeOK, LockEscalate, Goto, Return
<1>8. CASE DampingClear(c)
  BY <1>8 DEF OnlyCall, TypeOK, DampingClear, Goto
<1>9. CASE GateFailed(c)
  BY <1>9 DEF OnlyCall, TypeOK, GateFailed, Goto
<1>10. CASE Refuse(c)
  BY <1>10 DEF OnlyCall, TypeOK, Refuse, Goto, Return
<1>11. CASE PrecheckPassed(c)
  BY <1>11 DEF OnlyCall, TypeOK, PrecheckPassed, Goto
<1>12. CASE Stage(c)
  BY <1>12 DEF OnlyCall, TypeOK, Stage, Goto
<1>13. CASE StageFailed(c)
  BY <1>13 DEF OnlyCall, TypeOK, StageFailed, Goto
<1>14. CASE StageEscalate(c)
  BY <1>14 DEF OnlyCall, TypeOK, StageEscalate, Goto, Return
<1>15. CASE BeginExecute(c)
  BY <1>15 DEF OnlyCall, TypeOK, BeginExecute, Goto
<1>16. CASE Act(c)
  BY <1>16 DEF OnlyCall, TypeOK, Act, Goto
<1>17. CASE Postcheck(c)
  BY <1>17 DEF OnlyCall, TypeOK, Postcheck, Goto
<1>18. CASE Pass(c)
  BY <1>18 DEF OnlyCall, TypeOK, Pass, Goto
<1>19. CASE CommitJournal(c)
  BY <1>19 DEF OnlyCall, TypeOK, CommitJournal, Goto, UpdateState
<1>20. CASE CommitAudit(c)
  BY <1>20 DEF OnlyCall, TypeOK, CommitAudit, Goto
<1>21. CASE RecordExecution(c)
  BY <1>21 DEF OnlyCall, TypeOK, RecordExecution, Goto, Return
<1>22. CASE Fault(c)
  BY <1>22 DEF OnlyCall, TypeOK, Fault, Goto
<1>23. CASE Rollback(c)
  BY <1>23 DEF OnlyCall, TypeOK, Rollback, Goto
<1>24. CASE UndoStart(c)
  BY <1>24 DEF OnlyCall, TypeOK, UndoStart, Goto, UpdateState
<1>25. CASE Undo(c)
  BY <1>25 DEF OnlyCall, TypeOK, Undo, Goto
<1>26. CASE UndoDone(c)
  BY <1>26 DEF OnlyCall, TypeOK, UndoDone, Goto, UpdateState
<1>27. CASE UndoFail(c)
  BY <1>27 DEF OnlyCall, TypeOK, UndoFail, Goto, UpdateState
<1>28. CASE UndoEscalate(c)
  BY <1>28 DEF OnlyCall, TypeOK, UndoEscalate, Goto, Return
<1>29. CASE RolledBack(c)
  BY <1>29 DEF OnlyCall, TypeOK, RolledBack, Goto
<1>30. CASE RolledBackEscalate(c)
  BY <1>30 DEF OnlyCall, TypeOK, RolledBackEscalate, Goto, Return
<1>31. CASE Unlock(c)
  BY <1>31 DEF OnlyCall, TypeOK, Unlock, Goto
<1> QED
  BY <1>1, <1>2, <1>3, <1>4, <1>5, <1>6, <1>7, <1>8, <1>9, <1>10, <1>11,
     <1>12, <1>13, <1>14, <1>15, <1>16, <1>17, <1>18, <1>19, <1>20, <1>21,
     <1>22, <1>23, <1>24, <1>25, <1>26, <1>27, <1>28, <1>29, <1>30, <1>31
     DEF CallStepOf, Step

\* A step of one call leaves every other call as it was.
LEMMA OthersKeep ==
  ASSUME CallInv, NEW c \in Call, OnlyCall(c), CallOK(c)'
  PROVE  CallInv'
<1> SUFFICES ASSUME NEW d \in Call, d # c PROVE CallOK(d)'
  BY DEF CallInv
<1>1. CallOK(d)
  BY DEF CallInv
<1> QED
  BY <1>1 DEF OnlyCall, CallOK, Progress, WALTrue, Reported, ResultTrue

\* Each step of Remediate moves its own call from one point of Progress to the
\* next, keeping the WAL record and the result true of the target.
LEMMA OwnStep ==
  ASSUME TypeOK, NEW c \in Call, CallOK(c), CallStepOf(c)
  PROVE  CallOK(c)'
<1> USE DEF CallOK, Progress, WALTrue, Reported
<1>1. CASE RejectAlert(c)
  BY <1>1 DEF TypeOK, RejectAlert, Goto, Return, Result, ResultTrue
<1>2. CASE Receive(c)
  BY <1>2 DEF TypeOK, Receive, Goto
<1>3. CASE ResolveMatched(c)
  BY <1>3 DEF TypeOK, ResolveMatched, Goto
<1>4. CASE ResolveUnmatched(c)
  BY <1>4 DEF TypeOK, ResolveUnmatched, Goto, Return, Result, ResultTrue
<1>5. CASE TryLock(c)
  BY <1>5 DEF TypeOK, TryLock, Goto
<1>6. CASE LockFailed(c)
  BY <1>6 DEF TypeOK, LockFailed, Goto
<1>7. CASE LockEscalate(c)
  BY <1>7 DEF TypeOK, LockEscalate, Goto, Return, Result, ResultTrue
<1>8. CASE DampingClear(c)
  BY <1>8 DEF TypeOK, DampingClear, Goto
<1>9. CASE GateFailed(c)
  BY <1>9 DEF TypeOK, GateFailed, Goto
<1>10. CASE Refuse(c)
  BY <1>10 DEF TypeOK, Refuse, Goto, Return, Result, ResultTrue
<1>11. CASE PrecheckPassed(c)
  BY <1>11 DEF TypeOK, PrecheckPassed, Goto
<1>12. CASE Stage(c)
  BY <1>12 DEF TypeOK, Stage, Goto
<1>13. CASE StageFailed(c)
  BY <1>13 DEF TypeOK, StageFailed, Goto
<1>14. CASE StageEscalate(c)
  BY <1>14 DEF TypeOK, StageEscalate, Goto, Return, Result, ResultTrue
<1>15. CASE BeginExecute(c)
  BY <1>15 DEF TypeOK, BeginExecute, Goto
<1>16. CASE Act(c)
  BY <1>16 DEF TypeOK, Act, Goto
<1>17. CASE Postcheck(c)
  BY <1>17 DEF TypeOK, Postcheck, Goto
<1>18. CASE Pass(c)
  BY <1>18 DEF TypeOK, Pass, Goto
<1>19. CASE CommitJournal(c)
  BY <1>19 DEF TypeOK, CommitJournal, Goto, UpdateState, Readable, WALStates
<1>20. CASE CommitAudit(c)
  BY <1>20 DEF TypeOK, CommitAudit, Goto
<1>21. CASE RecordExecution(c)
  BY <1>21 DEF TypeOK, RecordExecution, Goto, Return, Result, ResultTrue
<1>22. CASE Fault(c)
  BY <1>22 DEF TypeOK, Fault, Goto
<1>23. CASE Rollback(c)
  BY <1>23 DEF TypeOK, Rollback, Goto
<1>24. CASE UndoStart(c)
  BY <1>24 DEF TypeOK, UndoStart, Goto, UpdateState, Readable, WALStates
<1>25. CASE Undo(c)
  BY <1>25 DEF TypeOK, Undo, Goto
<1>26. CASE UndoDone(c)
  BY <1>26 DEF TypeOK, UndoDone, Goto, UpdateState, Readable, WALStates
<1>27. CASE UndoFail(c)
  BY <1>27 DEF TypeOK, UndoFail, Goto, UpdateState, Readable, WALStates
<1>28. CASE UndoEscalate(c)
  BY <1>28 DEF TypeOK, UndoEscalate, Goto, Return, Result, ResultTrue
<1>29. CASE RolledBack(c)
  BY <1>29 DEF TypeOK, RolledBack, Goto
<1>30. CASE RolledBackEscalate(c)
  BY <1>30 DEF TypeOK, RolledBackEscalate, Goto, Return, Result, ResultTrue
<1>31. CASE Unlock(c)
  BY <1>31 DEF TypeOK, Unlock, Goto, ResultTrue
<1> QED
  BY <1>1, <1>2, <1>3, <1>4, <1>5, <1>6, <1>7, <1>8, <1>9, <1>10, <1>11,
     <1>12, <1>13, <1>14, <1>15, <1>16, <1>17, <1>18, <1>19, <1>20, <1>21,
     <1>22, <1>23, <1>24, <1>25, <1>26, <1>27, <1>28, <1>29, <1>30, <1>31
     DEF CallStepOf, Step

\* A crash kills calls where they stand; at most one WAL file is left torn, and
\* never a settled one.
LEMMA CrashStep ==
  ASSUME TypeOK, CallInv, NEW p \in Process, Crash(p)
  PROVE  CallInv'
<1> SUFFICES ASSUME NEW d \in Call PROVE CallOK(d)'
  BY DEF CallInv
<1>1. CallOK(d)
  BY DEF CallInv
<1>2. /\ applied' = applied /\ undone' = undone /\ runbook' = runbook
      /\ result' = result /\ recorded' = recorded
  BY DEF Crash
<1>3. pc'[d] = IF d \in Lives(p) THEN "dead" ELSE pc[d]
  BY DEF Crash
<1>4. wal'[d] = wal[d] \/ (d \in Lives(p) /\ wal'[d] = "TORN")
  BY DEF Crash, Writing, TypeOK
<1>5. CASE d \notin Lives(p)
  BY <1>1, <1>2, <1>3, <1>4, <1>5
  DEF CallOK, Progress, WALTrue, Reported, ResultTrue
<1>6. CASE d \in Lives(p)
  BY <1>1, <1>2, <1>3, <1>4, <1>6 DEF CallOK, Progress, WALTrue, Reported
<1> QED
  BY <1>5, <1>6

\* Every step of the system keeps what is claimed of each call.
LEMMA CallStep == TypeOK /\ CallInv /\ [Next]_vars => CallInv'
<1> SUFFICES ASSUME TypeOK, CallInv, [Next]_vars PROVE CallInv'
  OBVIOUS
<1>1. ASSUME NEW c \in Call, CallStepOf(c) PROVE CallInv'
  BY <1>1, CallsAreLocal, OwnStep, OthersKeep DEF CallInv
<1>2. ASSUME NEW p \in Process, Crash(p) PROVE CallInv'
  BY <1>2, CrashStep
<1>3. ASSUME NEW p \in Process, Close(p) \/ Restart(p) PROVE CallInv'
  BY <1>3
  DEF Close, Restart, CallInv, CallOK, Progress, WALTrue, Reported, ResultTrue
<1>4. CASE UNCHANGED vars
  BY <1>4 DEF vars, CallInv, CallOK, Progress, WALTrue, Reported, ResultTrue
<1> QED
  BY <1>1, <1>2, <1>3, <1>4 DEF Next, CallStepOf

-----------------------------------------------------------------------------
\* The invariant holds when no alert has been received.
LEMMA InitIInv == Init => IInv
<1> SUFFICES ASSUME Init PROVE IInv
  OBVIOUS
<1>1. TypeOK
  BY EngineAssumption
  DEF Init, TypeOK, PCs, NoAlert, NoResult, AllStates, WALStates
<1>2. AlertInv /\ LockInv
  BY DEF Init, AlertInv, LockInv, Critical
<1>3. CallInv
  BY DEF Init, CallInv, CallOK, Progress, WALTrue, Reported
<1> QED
  BY <1>1, <1>2, <1>3 DEF IInv

\* Every step keeps the invariant.
LEMMA NextIInv == IInv /\ [Next]_vars => IInv'
  BY TypeStep, LockStep, CallStep DEF IInv

\* The strengthened invariant holds in every reachable state.
THEOREM Invariance == Spec => []IInv
  BY InitIInv, NextIInv, PTL DEF Spec

\* Type correctness of the engine, for any constants.
THEOREM TypeCorrect == Spec => []TypeOK
<1>1. IInv => TypeOK
  BY DEF IInv
<1> QED
  BY <1>1, Invariance, PTL

\* Remediate's advisory lock gives mutual exclusion per lock file, for any number
\* of calls and processes and under every fault, crashes included.
THEOREM MutualExclusion == Spec => []LockMutex
<1>1. IInv => LockMutex
  BY DEF IInv, LockInv, LockMutex
<1> QED
  BY <1>1, Invariance, PTL

\* The write-ahead journal never says anything false of the target, whatever
\* fails: WAL before mutation, COMMITTED only after all actions, ROLLED_BACK only
\* after all compensating steps.
THEOREM JournalIsTrue == Spec => []JournalTruth
<1>1. IInv => JournalTruth
  BY DEF IInv, CallInv, CallOK, JournalTruth
<1> QED
  BY <1>1, Invariance, PTL

\* The result Remediate returns is true of the target, whatever fails.
THEOREM ResultIsTrue == Spec => []ResultTruth
<1>1. IInv => ResultTruth
  BY DEF IInv, CallInv, CallOK, Reported, ResultTruth
<1> QED
  BY <1>1, Invariance, PTL

\* A settled WAL record stays as it is: UpdateState is only reached with a record
\* that is PREPARED or ROLLING_BACK, or that is unreadable.
THEOREM SettledStays == Spec => SettledForever
<1>1. ASSUME IInv, [Next]_vars, NEW c \in Call, wal[c] \in Settled
      PROVE  wal'[c] = wal[c]
  <2>1. TypeOK /\ CallOK(c)
    BY <1>1 DEF IInv, CallInv
  <2>2. ASSUME NEW d \in Call, CallStepOf(d), d # c PROVE wal'[c] = wal[c]
    BY <2>1, <2>2, CallsAreLocal DEF OnlyCall
  <2>3. ASSUME CallStepOf(c) PROVE wal'[c] = wal[c]
    <3>1. pc[c] \notin {"stage", "commit", "undoStart", "undo", "undoFail"}
      BY <1>1, <2>1 DEF CallOK, Progress, Settled
    <3>2. CASE Stage(c) \/ StageFailed(c) \/ CommitJournal(c) \/ UndoDone(c)
            \/ UndoFail(c) \/ UndoStart(c)
      BY <3>1, <3>2
      DEF Stage, StageFailed, CommitJournal, UndoDone, UndoFail, UndoStart,
          Goto
    <3>3. CASE RejectAlert(c) \/ Receive(c) \/ ResolveMatched(c) \/
            ResolveUnmatched(c) \/ TryLock(c) \/ LockFailed(c) \/
            LockEscalate(c) \/ DampingClear(c) \/ GateFailed(c) \/ Refuse(c)
            \/ PrecheckPassed(c) \/ StageEscalate(c) \/ BeginExecute(c) \/
            Act(c) \/ Postcheck(c) \/ Pass(c) \/ CommitAudit(c) \/
            RecordExecution(c) \/ Fault(c) \/ Rollback(c) \/ Undo(c) \/
            UndoEscalate(c) \/ RolledBack(c) \/ RolledBackEscalate(c) \/
            Unlock(c)
      BY <3>1, <3>3
      DEF RejectAlert, Receive, ResolveMatched, ResolveUnmatched, TryLock,
          LockFailed, LockEscalate, DampingClear, GateFailed, Refuse,
          PrecheckPassed, StageEscalate, BeginExecute, Act, Postcheck, Pass,
          CommitAudit, RecordExecution, Fault, Rollback, Undo, UndoEscalate,
          RolledBack, RolledBackEscalate, Unlock
    <3> QED
      BY <2>3, <3>2, <3>3 DEF CallStepOf, Step
  <2>4. ASSUME NEW p \in Process, Crash(p) PROVE wal'[c] = wal[c]
    BY <1>1, <2>1, <2>4
    DEF Crash, Writing, TypeOK, CallOK, Progress, Settled
  <2>5. ASSUME NEW p \in Process, Close(p) \/ Restart(p) PROVE wal'[c] = wal[c]
    BY <2>5 DEF Close, Restart
  <2>6. CASE UNCHANGED vars
    BY <2>6 DEF vars
  <2> QED
    BY <1>1, <2>2, <2>3, <2>4, <2>5, <2>6 DEF Next, CallStepOf
<1>2. IInv /\ [Next]_vars =>
        [\A c \in Call : wal[c] \in {"COMMITTED", "ROLLED_BACK", "FAILED"}
                           => wal'[c] = wal[c]]_vars
  BY <1>1 DEF Settled
<1> QED
  BY <1>2, Invariance, PTL DEF Spec, SettledForever

=============================================================================
