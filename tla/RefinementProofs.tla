--------------------------- MODULE RefinementProofs ---------------------------
(***************************************************************************)
(* Engine implements RemediationTx: for any calls, processes, resources    *)
(* and runbooks, and under every fault, each step of Remediate is a step   *)
(* of the abstract transaction or leaves it alone.                         *)
(***************************************************************************)
EXTENDS EngineProofs

New == {"idle", "resolve", "lock", "lockEscalate"}

\* Whoever holds a lock file is in its critical section and the file is its own:
\* the converse of LockInv.
HolderInv ==
  \A f \in LockPath, c \in Call :
    holder[f] = c => pc[c] \in Critical /\ f = Path(c)

\* A call has a runbook from the time it was resolved, and has said nothing before
\* it goes to unlock.
Ready(c) ==
  /\ pc[c] \in {"idle", "resolve"} => runbook[c] = NoRunbook
  /\ pc[c] \in Critical \cup {"lock", "lockEscalate"} => runbook[c] \in Runbook
  /\ pc[c] \in New \cup (Critical \ {"unlock"}) => result[c] = NoResult
  /\ pc[c] = "unlock" => result[c].final # "NONE"

ReadyInv == \A c \in Call : Ready(c)

RInv == IInv /\ HolderInv /\ ReadyInv

-----------------------------------------------------------------------------
\* The phases of the places in Remediate.
LEMMA Phases ==
  /\ \A s \in New : PhaseAt(s) = "new"
  /\ \A s \in Critical : PhaseAt(s) = "owner"
  /\ PhaseAt("done") = "ended"
  /\ PhaseAt("dead") = "lost"
<1>1. \A s \in New : PhaseAt(s) = "new"
  BY DEF PhaseAt, New, Critical, PCs
<1>2. \A s \in Critical : PhaseAt(s) = "owner"
  BY DEF PhaseAt, New, Critical, PCs
<1>3. PhaseAt("done") = "ended"
  BY DEF PhaseAt, New, Critical, PCs
<1>4. PhaseAt("dead") = "lost"
  BY DEF PhaseAt, New, Critical, PCs
<1> QED
  BY <1>1, <1>2, <1>3, <1>4

\* A move within a phase that touches nothing else is not seen by the transaction.
LEMMA Unseen ==
  ASSUME TypeOK, NEW c \in Call, NEW s, NEW t, Goto(c, s, t),
         PhaseAt(s) = PhaseAt(t),
         UNCHANGED <<runbook, holder, applied, undone, result>>
  PROVE  UNCHANGED Tx!txVars
  BY DEF TypeOK, Goto, Tx!txVars

-----------------------------------------------------------------------------
\* The steps of Remediate as the transaction sees them.
Owned == Critical \ {"unlock"}

\* A return before the lock was taken.
Declines(c) ==
  /\ \E s \in New : Goto(c, s, "done")
  /\ Return(c, Result("ESCALATED", FALSE, FALSE))
  /\ UNCHANGED <<alert, runbook, holder, applied, undone>>

\* A step within the critical section.
Moves(c) ==
  /\ \E s, t \in Owned : Goto(c, s, t)
  /\ UNCHANGED <<alert, runbook, holder, result>>

\* The step that decides on the result.
Tells(c) ==
  /\ \E s \in Owned : Goto(c, s, "unlock")
  /\ \E r \in {Result("ESCALATED", FALSE, FALSE), Result("COMMITTED", TRUE, FALSE),
               Result("PRECHECK_FAILED", FALSE, FALSE),
               Result("ROLLED_BACK", FALSE, TRUE)} : Return(c, r)
  /\ UNCHANGED <<alert, runbook, holder, applied, undone>>

\* Every return before TryLock is the escalation of a call that owns nothing.
LEMMA DeclineSteps ==
  ASSUME NEW c \in Call,
         RejectAlert(c) \/ ResolveUnmatched(c) \/ LockEscalate(c)
  PROVE  Declines(c)
  BY DEF RejectAlert, ResolveUnmatched, LockEscalate, Declines, New

\* Between TryLock and the result, steps stay within the critical section.
LEMMA QuietSteps ==
  ASSUME NEW c \in Call,
         \/ DampingClear(c) \/ GateFailed(c) \/ PrecheckPassed(c) \/ Stage(c)
         \/ StageFailed(c) \/ BeginExecute(c) \/ Postcheck(c) \/ Pass(c)
         \/ CommitJournal(c) \/ CommitAudit(c) \/ Fault(c) \/ Rollback(c)
         \/ UndoStart(c) \/ UndoDone(c) \/ UndoFail(c) \/ RolledBack(c)
  PROVE  Moves(c) /\ UNCHANGED <<applied, undone>>
<1> USE DEF Moves, Owned, Critical, PCs
<1>1. CASE DampingClear(c)
  BY <1>1 DEF DampingClear
<1>2. CASE GateFailed(c)
  BY <1>2 DEF GateFailed
<1>3. CASE PrecheckPassed(c)
  BY <1>3 DEF PrecheckPassed
<1>4. CASE Stage(c)
  BY <1>4 DEF Stage
<1>5. CASE StageFailed(c)
  BY <1>5 DEF StageFailed
<1>6. CASE BeginExecute(c)
  BY <1>6 DEF BeginExecute
<1>7. CASE Postcheck(c)
  BY <1>7 DEF Postcheck
<1>8. CASE Pass(c)
  BY <1>8 DEF Pass
<1>9. CASE CommitJournal(c)
  BY <1>9 DEF CommitJournal
<1>10. CASE CommitAudit(c)
  BY <1>10 DEF CommitAudit
<1>11. CASE Fault(c)
  BY <1>11 DEF Fault
<1>12. CASE Rollback(c)
  BY <1>12 DEF Rollback
<1>13. CASE UndoStart(c)
  BY <1>13 DEF UndoStart
<1>14. CASE UndoDone(c)
  BY <1>14 DEF UndoDone
<1>15. CASE UndoFail(c)
  BY <1>15 DEF UndoFail
<1>16. CASE RolledBack(c)
  BY <1>16 DEF RolledBack
<1> QED
  BY <1>1, <1>2, <1>3, <1>4, <1>5, <1>6, <1>7, <1>8, <1>9, <1>10, <1>11,
     <1>12, <1>13, <1>14, <1>15, <1>16

\* So do actions and compensating steps.
LEMMA WorkSteps ==
  ASSUME NEW c \in Call, Act(c) \/ Undo(c)
  PROVE  Moves(c)
<1>1. CASE Act(c)
  BY <1>1 DEF Act, Moves, Owned, Critical, PCs
<1>2. CASE Undo(c)
  BY <1>2 DEF Undo, Moves, Owned, Critical, PCs
<1> QED
  BY <1>1, <1>2

\* Every return from the critical section goes through the deferred Unlock.
LEMMA TellSteps ==
  ASSUME NEW c \in Call,
         \/ Refuse(c) \/ StageEscalate(c) \/ RecordExecution(c)
         \/ UndoEscalate(c) \/ RolledBackEscalate(c)
  PROVE  Tells(c)
<1> USE DEF Tells, Owned, Critical, PCs
<1>1. CASE Refuse(c)
  BY <1>1 DEF Refuse
<1>2. CASE StageEscalate(c)
  BY <1>2 DEF StageEscalate
<1>3. CASE RecordExecution(c)
  BY <1>3 DEF RecordExecution
<1>4. CASE UndoEscalate(c)
  BY <1>4 DEF UndoEscalate
<1>5. CASE RolledBackEscalate(c)
  BY <1>5 DEF RolledBackEscalate
<1> QED
  BY <1>1, <1>2, <1>3, <1>4, <1>5

\* These are all the steps a call takes.
LEMMA StepKinds ==
  ASSUME NEW c \in Call, CallStepOf(c)
  PROVE  \/ Declines(c) \/ Receive(c) \/ ResolveMatched(c) \/ TryLock(c)
         \/ LockFailed(c) \/ Moves(c) \/ Tells(c) \/ Unlock(c)
  BY DeclineSteps, QuietSteps, WorkSteps, TellSteps DEF CallStepOf, Step

-----------------------------------------------------------------------------
\* A lock file is only ever held by the call that took it.
LEMMA HolderStep == IInv /\ HolderInv /\ [Next]_vars => HolderInv'
<1> SUFFICES ASSUME IInv, HolderInv, [Next]_vars,
                    NEW f \in LockPath, NEW d \in Call, holder'[f] = d
             PROVE  pc'[d] \in Critical /\ f = Path(d)'
  BY DEF HolderInv
<1> USE EngineAssumption
<1>0. TypeOK /\ AlertInv /\ LockInv
  BY DEF IInv
<1>1. ASSUME NEW c \in Call, Declines(c) PROVE pc'[d] \in Critical /\ f = Path(d)'
  BY <1>0, <1>1 DEF Declines, Goto, HolderInv, Path, TypeOK, New, Critical
<1>2. ASSUME NEW c \in Call, Receive(c) PROVE pc'[d] \in Critical /\ f = Path(d)'
  <2>1. holder[f] = d /\ d # c
    BY <1>0, <1>2 DEF Receive, Goto, HolderInv, Critical
  <2>2. alert'[d] = alert[d] /\ pc'[d] = pc[d]
    BY <1>0, <1>2, <2>1 DEF Receive, Goto, TypeOK
  <2> QED
    BY <2>1, <2>2 DEF HolderInv, Path
<1>3. ASSUME NEW c \in Call, ResolveMatched(c) \/ LockFailed(c)
      PROVE  pc'[d] \in Critical /\ f = Path(d)'
  BY <1>0, <1>3
  DEF ResolveMatched, LockFailed, Goto, HolderInv, Path, TypeOK, Critical
<1>4. ASSUME NEW c \in Call, TryLock(c) PROVE pc'[d] \in Critical /\ f = Path(d)'
  <2>1. CASE d = c
    <3>1. pc[c] \notin Critical
      BY <1>4 DEF TryLock, Goto, Critical
    <3>2. holder[f] # c
      BY <3>1 DEF HolderInv
    <3>3. f = Path(c)
      BY <1>0, <1>4, <2>1, <3>2 DEF TryLock, TypeOK
    <3>4. "damp" \in Critical
      BY DEF Critical, PCs
    <3> QED
      BY <1>0, <1>4, <2>1, <3>3, <3>4 DEF TryLock, Goto, Path, TypeOK
  <2>2. CASE d # c
    <3>1. holder[f] = d
      BY <1>0, <1>4, <2>2 DEF TryLock, TypeOK
    <3> QED
      BY <1>0, <1>4, <2>2, <3>1 DEF TryLock, Goto, Path, TypeOK, HolderInv
  <2> QED
    BY <2>1, <2>2
<1>5. ASSUME NEW c \in Call, Moves(c) PROVE pc'[d] \in Critical /\ f = Path(d)'
  BY <1>0, <1>5 DEF Moves, Owned, Goto, HolderInv, Path, TypeOK
<1>6. ASSUME NEW c \in Call, Tells(c) PROVE pc'[d] \in Critical /\ f = Path(d)'
  <2>1. "unlock" \in Critical
    BY DEF Critical, PCs
  <2> QED
    BY <1>0, <1>6, <2>1 DEF Tells, Goto, HolderInv, Path, TypeOK
<1>7. ASSUME NEW c \in Call, Unlock(c) PROVE pc'[d] \in Critical /\ f = Path(d)'
  <2>1. f # Path(c) /\ holder[f] = d
    BY <1>0, <1>7 DEF Unlock, TypeOK
  <2>2. d # c
    BY <2>1 DEF HolderInv
  <2> QED
    BY <1>0, <1>7, <2>1, <2>2 DEF Unlock, Goto, HolderInv, Path, TypeOK
<1>8. ASSUME NEW p \in Process, Crash(p) PROVE pc'[d] \in Critical /\ f = Path(d)'
  BY <1>0, <1>8 DEF Crash, HolderInv, Path, TypeOK
<1>9. ASSUME NEW p \in Process, Close(p) \/ Restart(p)
      PROVE  pc'[d] \in Critical /\ f = Path(d)'
  BY <1>9 DEF Close, Restart, HolderInv, Path
<1>10. CASE UNCHANGED vars
  BY <1>10 DEF vars, HolderInv, Path
<1> QED
  BY <1>1, <1>2, <1>3, <1>4, <1>5, <1>6, <1>7, <1>8, <1>9, <1>10, StepKinds
  DEF Next, CallStepOf

\* A call is resolved before it asks for the lock, and tells once.
LEMMA ReadyStep == TypeOK /\ ReadyInv /\ [Next]_vars => ReadyInv'
<1> SUFFICES ASSUME TypeOK, ReadyInv, [Next]_vars, NEW d \in Call
             PROVE  Ready(d)'
  BY DEF ReadyInv
<1>0. Ready(d)
  BY DEF ReadyInv
<1>1. ASSUME NEW c \in Call, CallStepOf(c), c # d PROVE Ready(d)'
  BY <1>0, <1>1, CallsAreLocal DEF OnlyCall, Ready
<1>2. ASSUME CallStepOf(d) PROVE Ready(d)'
  <2> USE DEF Ready, TypeOK, Goto, New, Critical, PCs
  <2>1. CASE Declines(d)
    BY <1>0, <2>1 DEF Declines
  <2>2. CASE Receive(d)
    BY <1>0, <2>2 DEF Receive
  <2>3. CASE ResolveMatched(d)
    BY <1>0, <2>3 DEF ResolveMatched, Matching
  <2>4. CASE TryLock(d) \/ LockFailed(d)
    BY <1>0, <2>4 DEF TryLock, LockFailed
  <2>5. CASE Moves(d)
    BY <1>0, <2>5 DEF Moves, Owned
  <2>6. CASE Tells(d)
    BY <1>0, <2>6 DEF Tells, Owned, Return, Result
  <2>7. CASE Unlock(d)
    BY <1>0, <2>7 DEF Unlock
  <2> QED
    BY <1>2, <2>1, <2>2, <2>3, <2>4, <2>5, <2>6, <2>7, StepKinds
<1>3. ASSUME NEW p \in Process, Crash(p) PROVE Ready(d)'
  BY <1>0, <1>3 DEF Crash, Ready, New, Critical, PCs, TypeOK
<1>4. ASSUME NEW p \in Process, Close(p) \/ Restart(p) PROVE Ready(d)'
  BY <1>0, <1>4 DEF Close, Restart, Ready
<1>5. CASE UNCHANGED vars
  BY <1>0, <1>5 DEF vars, Ready
<1> QED
  BY <1>1, <1>2, <1>3, <1>4, <1>5 DEF Next, CallStepOf

\* The strengthened invariant of the refinement holds in every reachable state.
LEMMA RefinementInvariant == Spec => []RInv
<1>1. Init => RInv
  <2> SUFFICES ASSUME Init PROVE RInv
    OBVIOUS
  <2>1. HolderInv
    BY EngineAssumption DEF Init, HolderInv
  <2>2. ReadyInv
    BY DEF Init, ReadyInv, Ready, Critical, NoResult
  <2> QED
    BY <2>1, <2>2, InitIInv DEF RInv
<1>2. RInv /\ [Next]_vars => RInv'
  BY NextIInv, HolderStep, ReadyStep DEF RInv, IInv
<1> QED
  BY <1>1, <1>2, PTL DEF Spec

-----------------------------------------------------------------------------
\* What the results a call can return tell.
LEMMA Tellings ==
  /\ ToldBy(NoResult) = "nothing"
  /\ ToldBy(Result("ESCALATED", FALSE, FALSE)) = "escalated"
  /\ ToldBy(Result("COMMITTED", TRUE, FALSE)) = "committed"
  /\ ToldBy(Result("PRECHECK_FAILED", FALSE, FALSE)) = "refused"
  /\ ToldBy(Result("ROLLED_BACK", FALSE, TRUE)) = "rolledBack"
<1>1. /\ NoResult.final = "NONE"
      /\ Result("ESCALATED", FALSE, FALSE).final = "ESCALATED"
      /\ Result("COMMITTED", TRUE, FALSE).final = "COMMITTED"
      /\ Result("PRECHECK_FAILED", FALSE, FALSE).final = "PRECHECK_FAILED"
      /\ Result("ROLLED_BACK", FALSE, TRUE).final = "ROLLED_BACK"
  BY DEF NoResult, Result
<1>2. /\ "NONE" # "PRECHECK_FAILED" /\ "NONE" # "COMMITTED"
      /\ "NONE" # "ROLLED_BACK" /\ "NONE" # "ESCALATED"
      /\ "ESCALATED" # "PRECHECK_FAILED" /\ "ESCALATED" # "COMMITTED"
      /\ "ESCALATED" # "ROLLED_BACK" /\ "COMMITTED" # "PRECHECK_FAILED"
      /\ "COMMITTED" # "ROLLED_BACK" /\ "ROLLED_BACK" # "PRECHECK_FAILED"
  OBVIOUS
<1>3. ToldBy(NoResult) = "nothing"
  BY <1>1, <1>2, Zenon DEF ToldBy
<1>4. ToldBy(Result("ESCALATED", FALSE, FALSE)) = "escalated"
  BY <1>1, <1>2, Zenon DEF ToldBy
<1>5. ToldBy(Result("COMMITTED", TRUE, FALSE)) = "committed"
  BY <1>1, <1>2, Zenon DEF ToldBy
<1>6. ToldBy(Result("PRECHECK_FAILED", FALSE, FALSE)) = "refused"
  BY <1>1, <1>2, Zenon DEF ToldBy
<1>7. ToldBy(Result("ROLLED_BACK", FALSE, TRUE)) = "rolledBack"
  BY <1>1, <1>2, Zenon DEF ToldBy
<1> QED
  BY <1>3, <1>4, <1>5, <1>6, <1>7

\* A call with a result tells something.
LEMMA ResultTells ==
  ASSUME NEW r, r.final # "NONE" PROVE ToldBy(r) # "nothing"
<1>1. /\ "refused" # "nothing" /\ "committed" # "nothing"
      /\ "rolledBack" # "nothing" /\ "escalated" # "nothing"
  OBVIOUS
<1> QED
  BY <1>1, Zenon DEF ToldBy

\* A call in its critical section owns its target in the transaction's sense.
LEMMA CriticalOwns ==
  ASSUME RInv, NEW c \in Call, pc[c] \in Critical
  PROVE  Tx!Owns(c)
<1>1. Path(c) \in LockPath
  BY EngineAssumption DEF RInv, IInv, AlertInv, Path, Critical
<1>2. holder[Path(c)] = c
  BY DEF RInv, IInv, LockInv
<1> QED
  BY <1>1, <1>2, Phases DEF Tx!Owns

\* Before it goes to unlock it is at work and has said nothing.
LEMMA OwnedWorks ==
  ASSUME RInv, NEW c \in Call, pc[c] \in Owned
  PROVE  Tx!Working(c)
  BY CriticalOwns, Tellings
  DEF Tx!Working, RInv, ReadyInv, Ready, Owned

\* A move changes the phase of its own call only, to that of where it goes.
LEMMA PhaseMoves ==
  ASSUME TypeOK, NEW c \in Call, NEW s, NEW t, Goto(c, s, t)
  PROVE  [d \in Call |-> PhaseAt(pc[d])]' =
           [[d \in Call |-> PhaseAt(pc[d])] EXCEPT ![c] = PhaseAt(t)]
  BY DEF TypeOK, Goto

\* Returning a result tells it, and changes nobody else's.
LEMMA ToldMoves ==
  ASSUME TypeOK, NEW c \in Call, NEW r, Return(c, r)
  PROVE  [d \in Call |-> ToldBy(result[d])]' =
           [[d \in Call |-> ToldBy(result[d])] EXCEPT ![c] = ToldBy(r)]
  BY DEF TypeOK, Return

\* A step of a call is a step of its transaction, or is not seen by it.
LEMMA CallImplements ==
  ASSUME RInv, NEW c \in Call, CallStepOf(c)
  PROVE  Tx!Next \/ UNCHANGED Tx!txVars
<1> USE EngineAssumption
<1>0. TypeOK /\ CallOK(c) /\ Ready(c)
  BY DEF RInv, IInv, CallInv, ReadyInv
<1>1. CASE Declines(c)
  <2>1. PICK s \in New : Goto(c, s, "done")
    BY <1>1 DEF Declines
  <2>2. PhaseAt(pc[c]) = "new"
    BY <2>1, Phases DEF Goto
  <2>3. [d \in Call |-> PhaseAt(pc[d])]' =
          [[d \in Call |-> PhaseAt(pc[d])] EXCEPT ![c] = "ended"]
    BY <1>0, <2>1, PhaseMoves, Phases
  <2>4. [d \in Call |-> ToldBy(result[d])]' =
          [[d \in Call |-> ToldBy(result[d])] EXCEPT ![c] = "escalated"]
    <3>1. Return(c, Result("ESCALATED", FALSE, FALSE))
      BY <1>1 DEF Declines
    <3>2. [d \in Call |-> ToldBy(result[d])]' =
            [[d \in Call |-> ToldBy(result[d])] EXCEPT
               ![c] = ToldBy(Result("ESCALATED", FALSE, FALSE))]
      BY <1>0, <3>1, ToldMoves
    <3>3. ToldBy(Result("ESCALATED", FALSE, FALSE)) = "escalated"
      BY Tellings
    <3> QED
      BY <3>2, <3>3
  <2>5. Tx!Decline(c)
    BY <1>1, <2>2, <2>3, <2>4 DEF Tx!Decline, Declines
  <2> QED
    BY <2>5 DEF Tx!Next
<1>2. CASE Receive(c)
  <2>1. PhaseAt("idle") = PhaseAt("resolve")
    BY Phases DEF New
  <2> QED
    BY <1>0, <1>2, <2>1, Unseen DEF Receive
<1>3. CASE ResolveMatched(c)
  <2>1. PhaseAt("resolve") = "new" /\ PhaseAt("lock") = "new"
    BY Phases DEF New
  <2>2. [d \in Call |-> PhaseAt(pc[d])]' = [d \in Call |-> PhaseAt(pc[d])]
    BY <1>0, <1>3, <2>1 DEF ResolveMatched, Goto, TypeOK
  <2>3. runbook[c] = NoRunbook /\ PhaseAt(pc[c]) = "new"
    BY <1>0, <1>3, <2>1 DEF ResolveMatched, Goto, Ready
  <2>4. Tx!Choose(c)
    BY <1>3, <2>2, <2>3 DEF Tx!Choose, ResolveMatched, Matching
  <2> QED
    BY <2>4 DEF Tx!Next
<1>4. CASE TryLock(c)
  <2>1. PhaseAt("lock") = "new" /\ PhaseAt("damp") = "owner"
    BY Phases DEF New, Critical, PCs
  <2>2. Path(c) \in LockPath
    BY <1>4 DEF TryLock, Goto, RInv, IInv, AlertInv, Path
  <2>3. runbook[c] # NoRunbook
    BY <1>0, <1>4 DEF TryLock, Goto, Ready
  <2>4. Tx!Claim(c)
    BY <1>0, <1>4, <2>1, <2>2, <2>3, PhaseMoves DEF Tx!Claim, TryLock, Goto
  <2> QED
    BY <2>4 DEF Tx!Next
<1>5. CASE LockFailed(c)
  <2>1. PhaseAt("lock") = PhaseAt("lockEscalate")
    BY Phases DEF New
  <2> QED
    BY <1>0, <1>5, <2>1, Unseen DEF LockFailed
<1>6. CASE Moves(c) /\ UNCHANGED <<applied, undone>>
  BY <1>0, <1>6, Unseen, Phases DEF Moves, Owned
<1>7. CASE Act(c)
  <2>1. PICK s, t \in Owned : Goto(c, s, t)
    BY <1>7, WorkSteps DEF Moves
  <2>2. [d \in Call |-> PhaseAt(pc[d])]' = [d \in Call |-> PhaseAt(pc[d])]
    BY <1>0, <2>1, Phases DEF Goto, TypeOK, Owned
  <2>3. undone[c] = 0
    BY <1>0, <1>7 DEF Act, Goto, CallOK, Progress
  <2>4. Tx!Working(c)
    BY <2>1, OwnedWorks DEF Goto
  <2>5. Tx!Apply(c)
    BY <1>7, <2>2, <2>3, <2>4 DEF Tx!Apply, Act
  <2> QED
    BY <2>5 DEF Tx!Next
<1>8. CASE Undo(c)
  <2>1. PICK s, t \in Owned : Goto(c, s, t)
    BY <1>8, WorkSteps DEF Moves
  <2>2. [d \in Call |-> PhaseAt(pc[d])]' = [d \in Call |-> PhaseAt(pc[d])]
    BY <1>0, <2>1, Phases DEF Goto, TypeOK, Owned
  <2>3. Tx!Working(c)
    BY <2>1, OwnedWorks DEF Goto
  <2>4. CASE undone' = [undone EXCEPT ![c] = @ + 1]
    <3>1. Tx!Compensate(c)
      BY <1>8, <2>2, <2>3, <2>4 DEF Tx!Compensate, Undo
    <3> QED
      BY <3>1 DEF Tx!Next
  <2>5. CASE UNCHANGED undone
    BY <1>8, <2>2, <2>5 DEF Undo, Tx!txVars
  <2> QED
    BY <1>8, <2>4, <2>5 DEF Undo
<1>9. CASE \/ Refuse(c) \/ StageEscalate(c) \/ RecordExecution(c)
           \/ UndoEscalate(c) \/ RolledBackEscalate(c)
  <2>0. Tells(c)
    BY <1>9, TellSteps
  <2>1. PICK s \in Owned : Goto(c, s, "unlock")
    BY <2>0 DEF Tells
  <2>2. [d \in Call |-> PhaseAt(pc[d])]' = [d \in Call |-> PhaseAt(pc[d])]
    <3>1. PhaseAt(s) = "owner" /\ PhaseAt("unlock") = "owner"
      BY <2>1, Phases DEF Owned, Critical, PCs
    <3> QED
      BY <1>0, <2>1, <3>1 DEF Goto, TypeOK
  <2>3. Tx!Working(c)
    BY <2>1, OwnedWorks DEF Goto
  <2>4. ASSUME NEW r, Return(c, r),
               ToldBy(r) \in {"refused", "committed", "rolledBack", "escalated"},
               Tx!MayTell(c, ToldBy(r))
        PROVE  Tx!Tell(c)
    BY <1>0, <2>0, <2>2, <2>3, <2>4, ToldMoves DEF Tx!Tell, Tells
  <2>5. Tx!Tell(c)
    <3> USE <1>0, <2>4, Tellings
        DEF CallOK, Progress, Goto, Tx!MayTell
    <3>1. CASE Refuse(c)
      BY <3>1 DEF Refuse
    <3>2. CASE StageEscalate(c)
      BY <3>2 DEF StageEscalate
    <3>3. CASE RecordExecution(c)
      BY <3>3 DEF RecordExecution
    <3>4. CASE UndoEscalate(c)
      BY <3>4 DEF UndoEscalate
    <3>5. CASE RolledBackEscalate(c)
      BY <3>5 DEF RolledBackEscalate
    <3> QED
      BY <1>9, <3>1, <3>2, <3>3, <3>4, <3>5
  <2> QED
    BY <2>5 DEF Tx!Next
<1>10. CASE Unlock(c)
  <2>1. PhaseAt("done") = "ended" /\ "unlock" \in Critical
    BY Phases DEF Critical, PCs
  <2>2. pc[c] = "unlock" /\ Tx!Owns(c)
    BY <1>10, <2>1, CriticalOwns DEF Unlock, Goto
  <2>3. ToldBy(result[c]) # "nothing"
    BY <1>0, <2>2, ResultTells DEF Ready
  <2>4. [d \in Call |-> PhaseAt(pc[d])]' =
          [[d \in Call |-> PhaseAt(pc[d])] EXCEPT ![c] = "ended"]
    BY <1>0, <1>10, <2>1, PhaseMoves DEF Unlock
  <2>5. \A f \in LockPath : holder[f] = c <=> f = Path(c)
    BY <2>1, <2>2 DEF RInv, IInv, HolderInv, LockInv
  <2>6. holder' = Tx!Without({c})
    BY <1>0, <1>10, <2>5 DEF Unlock, TypeOK, Tx!Without
  <2>7. Tx!Release(c)
    BY <1>10, <2>2, <2>3, <2>4, <2>6 DEF Tx!Release, Unlock
  <2> QED
    BY <2>7 DEF Tx!Next
<1> QED
  BY <1>1, <1>2, <1>3, <1>4, <1>5, <1>6, <1>7, <1>8, <1>9, <1>10,
     DeclineSteps, QuietSteps
  DEF CallStepOf, Step

\* The death of a process loses its transactions and frees what they owned.
LEMMA CrashImplements ==
  ASSUME RInv, NEW p \in Process, Crash(p)
  PROVE  Tx!Next
<1>0. TypeOK
  BY DEF RInv, IInv
<1>1. Lives(p) \in SUBSET Call
  BY DEF Lives
<1>2. \A c \in Lives(p) : PhaseAt(pc[c]) # "ended"
  <2> SUFFICES ASSUME NEW c \in Lives(p) PROVE PhaseAt(pc[c]) # "ended"
    OBVIOUS
  <2>1. pc[c] \in New \cup Critical \cup {"dead"}
    BY <1>0 DEF Lives, TypeOK, New, Critical, PCs
  <2> QED
    BY <2>1, Phases
<1>3. [d \in Call |-> PhaseAt(pc[d])]' =
        [d \in Call |-> IF d \in Lives(p) THEN "lost" ELSE PhaseAt(pc[d])]
  BY <1>0, Phases DEF Crash, TypeOK
<1>4. holder' = Tx!Without(Lives(p))
  BY DEF Crash, Tx!Without
<1>5. \A c \in Lives(p) : [d \in Call |-> PhaseAt(pc[d])][c] # "ended"
  BY <1>1, <1>2
<1>6. [d \in Call |-> IF d \in Lives(p) THEN "lost" ELSE PhaseAt(pc[d])] =
        [d \in Call |-> IF d \in Lives(p) THEN "lost"
                        ELSE [e \in Call |-> PhaseAt(pc[e])][d]]
  OBVIOUS
<1>7. Tx!Die(Lives(p))
  BY <1>3, <1>4, <1>5, <1>6 DEF Tx!Die, Crash
<1> QED
  BY <1>1, <1>7 DEF Tx!Next

\* Engine implements RemediationTx, for any constants and under every fault.
THEOREM EngineImplementsTx == Spec => ImplementsTx
<1>1. Init => Tx!Init
  <2> SUFFICES ASSUME Init PROVE Tx!Init
    OBVIOUS
  <2>1. [c \in Call |-> PhaseAt(pc[c])] = [c \in Call |-> "new"]
    BY Phases DEF Init, New
  <2>2. [c \in Call |-> ToldBy(result[c])] = [c \in Call |-> "nothing"]
    BY Tellings DEF Init
  <2> QED
    BY <2>1, <2>2 DEF Init, Tx!Init
<1>2. RInv /\ [Next]_vars => [Tx!Next]_Tx!txVars
  <2> SUFFICES ASSUME RInv, [Next]_vars PROVE Tx!Next \/ UNCHANGED Tx!txVars
    OBVIOUS
  <2>1. ASSUME NEW c \in Call, CallStepOf(c)
        PROVE  Tx!Next \/ UNCHANGED Tx!txVars
    BY <2>1, CallImplements
  <2>2. ASSUME NEW p \in Process, Crash(p) PROVE Tx!Next
    BY <2>2, CrashImplements
  <2>3. ASSUME NEW p \in Process, Close(p) \/ Restart(p)
        PROVE  UNCHANGED Tx!txVars
    BY <2>3 DEF Close, Restart, Tx!txVars
  <2>4. CASE UNCHANGED vars
    BY <2>4 DEF vars, Tx!txVars
  <2> QED
    BY <2>1, <2>2, <2>3, <2>4 DEF Next, CallStepOf
<1> QED
  BY <1>1, <1>2, RefinementInvariant, PTL DEF Spec, ImplementsTx, Tx!Spec

=============================================================================
