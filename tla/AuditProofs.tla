----------------------------- MODULE AuditProofs ----------------------------
(***************************************************************************)
(* Proofs about what Remediate leaves in the audit ledger and in the       *)
(* journal: the order of a call's ledger records, and how they agree with  *)
(* its FSM and with its WAL record.  Every step of a call is one row of a  *)
(* table; the invariants are then questions about the table's rows.        *)
(***************************************************************************)
EXTENDS EngineProofs

\* The rows: place left, place reached, state entered in the FSM, state appended
\* to the ledger, state written to the WAL; "-" where there is none.
MoveTable ==
  {<<"idle", "done", "ESCALATED", "-", "-">>,
   <<"idle", "resolve", "-", "DETECTED", "-">>,
   <<"resolve", "lock", "EVALUATING", "EVALUATING", "-">>,
   <<"resolve", "done", "ESCALATED", "ESCALATED", "-">>,
   <<"lock", "damp", "-", "-", "-">>,
   <<"lock", "lockEscalate", "PRECHECK_FAILED", "PRECHECK_FAILED", "-">>,
   <<"lockEscalate", "done", "ESCALATED", "ESCALATED", "-">>,
   <<"damp", "precheck", "-", "-", "-">>,
   <<"damp", "refuse", "PRECHECK_FAILED", "PRECHECK_FAILED", "-">>,
   <<"precheck", "refuse", "PRECHECK_FAILED", "PRECHECK_FAILED", "-">>,
   <<"refuse", "unlock", "ESCALATED", "ESCALATED", "-">>,
   <<"precheck", "stage", "PRECHECK_PASSED", "PRECHECK_PASSED", "-">>,
   <<"stage", "execute", "-", "-", "PREPARED">>,
   <<"stage", "stageEscalate", "-", "-", "TRIED">>,
   <<"stageEscalate", "unlock", "ESCALATED", "ESCALATED", "-">>,
   <<"execute", "act", "EXECUTING", "EXECUTING", "-">>,
   <<"act", "act", "-", "-", "-">>,
   <<"act", "pass", "-", "-", "-">>,
   <<"act", "fault", "-", "-", "-">>,
   <<"pass", "commit", "POSTCHECK_PASSED", "POSTCHECK_PASSED", "-">>,
   <<"commit", "audit", "COMMITTED", "-", "COMMITTED">>,
   <<"audit", "record", "-", "COMMITTED", "-">>,
   <<"record", "unlock", "-", "-", "-">>,
   <<"fault", "rollback", "POSTCHECK_FAILED", "POSTCHECK_FAILED", "-">>,
   <<"rollback", "undoStart", "ROLLING_BACK", "ROLLING_BACK", "-">>,
   <<"undoStart", "undo", "-", "-", "ROLLING_BACK">>,
   <<"undo", "undo", "-", "-", "-">>,
   <<"undo", "undoFail", "-", "-", "-">>,
   <<"undo", "rolledBack", "-", "-", "ROLLED_BACK">>,
   <<"undoFail", "undoEscalate", "-", "-", "FAILED">>,
   <<"undoEscalate", "unlock", "ESCALATED", "ESCALATED", "-">>,
   <<"rolledBack", "rbEscalate", "ROLLED_BACK", "ROLLED_BACK", "-">>,
   <<"rbEscalate", "unlock", "ESCALATED", "ESCALATED", "-">>,
   <<"unlock", "done", "-", "-", "-">>}

EntersFSM(c, s) ==
  IF s = "-" THEN UNCHANGED fsm
             ELSE fsm' = [fsm EXCEPT ![c] = Transition(@, s)]

AppendsTo(c, s) == IF s = "-" THEN UNCHANGED trail ELSE LedgerAppend(c, s)

\* TRIED: Stage failed before, while or after it wrote the record.
WritesWAL(c, s) ==
  /\ s = "-" => UNCHANGED wal
  /\ s = "PREPARED" => wal' = [wal EXCEPT ![c] = "PREPARED"]
  /\ s = "TRIED" => \E w \in {"NONE", "TORN", "PREPARED"} :
                      wal' = [wal EXCEPT ![c] = w]
  /\ s \notin {"-", "PREPARED", "TRIED"} => UpdateState(c, s)

Move(c, from, to, enter, log, write) ==
  /\ <<from, to, enter, log, write>> \in MoveTable
  /\ Goto(c, from, to)
  /\ EntersFSM(c, enter)
  /\ AppendsTo(c, log)
  /\ WritesWAL(c, write)
  /\ from = "idle" => ProcOf[c] \in open
  /\ to = "stageEscalate" => "stage" \in Faults
  /\ UNCHANGED <<up, open>>

Moves(c) == \E from, to, enter, log, write : Move(c, from, to, enter, log, write)

-----------------------------------------------------------------------------
\* The table is complete: whatever a call does, it moves along one of the rows.
LEMMA StepsAreMoves ==
  ASSUME NEW c \in Call, CallStepOf(c)
  PROVE  Moves(c)
<1> USE DEF Move, EntersFSM, AppendsTo, WritesWAL, Enter
<1>1. ASSUME RejectAlert(c) PROVE Moves(c)
  <2>1. Move(c, "idle", "done", "ESCALATED", "-", "-")
    BY <1>1 DEF RejectAlert, MoveTable
  <2> QED
    BY <2>1 DEF Moves
<1>2. ASSUME Receive(c) PROVE Moves(c)
  <2>1. Move(c, "idle", "resolve", "-", "DETECTED", "-")
    BY <1>2 DEF Receive, MoveTable
  <2> QED
    BY <2>1 DEF Moves
<1>3. ASSUME ResolveMatched(c) PROVE Moves(c)
  <2>1. Move(c, "resolve", "lock", "EVALUATING", "EVALUATING", "-")
    BY <1>3 DEF ResolveMatched, MoveTable
  <2> QED
    BY <2>1 DEF Moves
<1>4. ASSUME ResolveUnmatched(c) PROVE Moves(c)
  <2>1. Move(c, "resolve", "done", "ESCALATED", "ESCALATED", "-")
    BY <1>4 DEF ResolveUnmatched, MoveTable
  <2> QED
    BY <2>1 DEF Moves
<1>5. ASSUME TryLock(c) PROVE Moves(c)
  <2>1. Move(c, "lock", "damp", "-", "-", "-")
    BY <1>5 DEF TryLock, MoveTable
  <2> QED
    BY <2>1 DEF Moves
<1>6. ASSUME LockFailed(c) PROVE Moves(c)
  <2>1. Move(c, "lock", "lockEscalate", "PRECHECK_FAILED", "PRECHECK_FAILED", "-")
    BY <1>6 DEF LockFailed, MoveTable
  <2> QED
    BY <2>1 DEF Moves
<1>7. ASSUME LockEscalate(c) PROVE Moves(c)
  <2>1. Move(c, "lockEscalate", "done", "ESCALATED", "ESCALATED", "-")
    BY <1>7 DEF LockEscalate, MoveTable
  <2> QED
    BY <2>1 DEF Moves
<1>8. ASSUME DampingClear(c) PROVE Moves(c)
  <2>1. Move(c, "damp", "precheck", "-", "-", "-")
    BY <1>8 DEF DampingClear, MoveTable
  <2> QED
    BY <2>1 DEF Moves
<1>9. ASSUME GateFailed(c) PROVE Moves(c)
  <2>1. \/ Move(c, "damp", "refuse", "PRECHECK_FAILED", "PRECHECK_FAILED", "-")
        \/ Move(c, "precheck", "refuse", "PRECHECK_FAILED", "PRECHECK_FAILED", "-")
    BY <1>9 DEF GateFailed, MoveTable
  <2> QED
    BY <2>1 DEF Moves
<1>10. ASSUME Refuse(c) PROVE Moves(c)
  <2>1. Move(c, "refuse", "unlock", "ESCALATED", "ESCALATED", "-")
    BY <1>10 DEF Refuse, MoveTable
  <2> QED
    BY <2>1 DEF Moves
<1>11. ASSUME PrecheckPassed(c) PROVE Moves(c)
  <2>1. Move(c, "precheck", "stage", "PRECHECK_PASSED", "PRECHECK_PASSED", "-")
    BY <1>11 DEF PrecheckPassed, MoveTable
  <2> QED
    BY <2>1 DEF Moves
<1>12. ASSUME Stage(c) PROVE Moves(c)
  <2>1. Move(c, "stage", "execute", "-", "-", "PREPARED")
    BY <1>12 DEF Stage, MoveTable
  <2> QED
    BY <2>1 DEF Moves
<1>13. ASSUME StageFailed(c) PROVE Moves(c)
  <2>1. Move(c, "stage", "stageEscalate", "-", "-", "TRIED")
    BY <1>13 DEF StageFailed, MoveTable
  <2> QED
    BY <2>1 DEF Moves
<1>14. ASSUME StageEscalate(c) PROVE Moves(c)
  <2>1. Move(c, "stageEscalate", "unlock", "ESCALATED", "ESCALATED", "-")
    BY <1>14 DEF StageEscalate, MoveTable
  <2> QED
    BY <2>1 DEF Moves
<1>15. ASSUME BeginExecute(c) PROVE Moves(c)
  <2>1. Move(c, "execute", "act", "EXECUTING", "EXECUTING", "-")
    BY <1>15 DEF BeginExecute, MoveTable
  <2> QED
    BY <2>1 DEF Moves
<1>16. ASSUME Act(c) PROVE Moves(c)
  <2>1. \/ Move(c, "act", "act", "-", "-", "-")
        \/ Move(c, "act", "fault", "-", "-", "-")
    BY <1>16 DEF Act, MoveTable
  <2> QED
    BY <2>1 DEF Moves
<1>17. ASSUME Postcheck(c) PROVE Moves(c)
  <2>1. \/ Move(c, "act", "pass", "-", "-", "-")
        \/ Move(c, "act", "fault", "-", "-", "-")
    BY <1>17 DEF Postcheck, MoveTable
  <2> QED
    BY <2>1 DEF Moves
<1>18. ASSUME Pass(c) PROVE Moves(c)
  <2>1. Move(c, "pass", "commit", "POSTCHECK_PASSED", "POSTCHECK_PASSED", "-")
    BY <1>18 DEF Pass, MoveTable
  <2> QED
    BY <2>1 DEF Moves
<1>19. ASSUME CommitJournal(c) PROVE Moves(c)
  <2>1. Move(c, "commit", "audit", "COMMITTED", "-", "COMMITTED")
    BY <1>19 DEF CommitJournal, MoveTable
  <2> QED
    BY <2>1 DEF Moves
<1>20. ASSUME CommitAudit(c) PROVE Moves(c)
  <2>1. Move(c, "audit", "record", "-", "COMMITTED", "-")
    BY <1>20 DEF CommitAudit, MoveTable
  <2> QED
    BY <2>1 DEF Moves
<1>21. ASSUME RecordExecution(c) PROVE Moves(c)
  <2>1. Move(c, "record", "unlock", "-", "-", "-")
    BY <1>21 DEF RecordExecution, MoveTable
  <2> QED
    BY <2>1 DEF Moves
<1>22. ASSUME Fault(c) PROVE Moves(c)
  <2>1. Move(c, "fault", "rollback", "POSTCHECK_FAILED", "POSTCHECK_FAILED", "-")
    BY <1>22 DEF Fault, MoveTable
  <2> QED
    BY <2>1 DEF Moves
<1>23. ASSUME Rollback(c) PROVE Moves(c)
  <2>1. Move(c, "rollback", "undoStart", "ROLLING_BACK", "ROLLING_BACK", "-")
    BY <1>23 DEF Rollback, MoveTable
  <2> QED
    BY <2>1 DEF Moves
<1>24. ASSUME UndoStart(c) PROVE Moves(c)
  <2>1. Move(c, "undoStart", "undo", "-", "-", "ROLLING_BACK")
    BY <1>24 DEF UndoStart, MoveTable
  <2> QED
    BY <2>1 DEF Moves
<1>25. ASSUME Undo(c) PROVE Moves(c)
  <2>1. \/ Move(c, "undo", "undo", "-", "-", "-")
        \/ Move(c, "undo", "undoFail", "-", "-", "-")
    BY <1>25 DEF Undo, MoveTable
  <2> QED
    BY <2>1 DEF Moves
<1>26. ASSUME UndoDone(c) PROVE Moves(c)
  <2>1. Move(c, "undo", "rolledBack", "-", "-", "ROLLED_BACK")
    BY <1>26 DEF UndoDone, MoveTable
  <2> QED
    BY <2>1 DEF Moves
<1>27. ASSUME UndoFail(c) PROVE Moves(c)
  <2>1. Move(c, "undoFail", "undoEscalate", "-", "-", "FAILED")
    BY <1>27 DEF UndoFail, MoveTable
  <2> QED
    BY <2>1 DEF Moves
<1>28. ASSUME UndoEscalate(c) PROVE Moves(c)
  <2>1. Move(c, "undoEscalate", "unlock", "ESCALATED", "ESCALATED", "-")
    BY <1>28 DEF UndoEscalate, MoveTable
  <2> QED
    BY <2>1 DEF Moves
<1>29. ASSUME RolledBack(c) PROVE Moves(c)
  <2>1. Move(c, "rolledBack", "rbEscalate", "ROLLED_BACK", "ROLLED_BACK", "-")
    BY <1>29 DEF RolledBack, MoveTable
  <2> QED
    BY <2>1 DEF Moves
<1>30. ASSUME RolledBackEscalate(c) PROVE Moves(c)
  <2>1. Move(c, "rbEscalate", "unlock", "ESCALATED", "ESCALATED", "-")
    BY <1>30 DEF RolledBackEscalate, MoveTable
  <2> QED
    BY <2>1 DEF Moves
<1>31. ASSUME Unlock(c) PROVE Moves(c)
  <2>1. Move(c, "unlock", "done", "-", "-", "-")
    BY <1>31 DEF Unlock, MoveTable
  <2> QED
    BY <2>1 DEF Moves
<1> QED
  BY <1>1, <1>2, <1>3, <1>4, <1>5, <1>6, <1>7, <1>8, <1>9, <1>10, <1>11,
     <1>12, <1>13, <1>14, <1>15, <1>16, <1>17, <1>18, <1>19, <1>20, <1>21,
     <1>22, <1>23, <1>24, <1>25, <1>26, <1>27, <1>28, <1>29, <1>30, <1>31,
     CallStepOf(c) DEF CallStepOf, Step

-----------------------------------------------------------------------------
Ended == {"unlock", "done", "dead"}

Early == {"idle", "resolve", "lock", "lockEscalate", "damp", "precheck",
          "refuse"}

Undoing == {"undoStart", "undo", "undoFail", "undoEscalate", "rolledBack",
            "rbEscalate"}

\* The records a call that stands at place p may already have in the ledger.
Recordable(p, s) ==
  /\ s = "DETECTED" => p # "idle"
  /\ s = "EVALUATING" => p \notin {"idle", "resolve"}
  /\ s = "PRECHECK_FAILED" => p \in {"lockEscalate", "refuse"} \cup Ended
  /\ s = "PRECHECK_PASSED" => p \notin Early
  /\ s = "EXECUTING" => p \notin Early \cup {"stage", "stageEscalate", "execute"}
  /\ s = "POSTCHECK_PASSED" => p \in {"commit", "audit", "record"} \cup Ended
  /\ s = "COMMITTED" => p \in {"record"} \cup Ended
  /\ s = "POSTCHECK_FAILED" => p \in {"rollback"} \cup Undoing \cup Ended
  /\ s = "ROLLING_BACK" => p \in Undoing \cup Ended
  /\ s = "ROLLED_BACK" => p \in {"rbEscalate"} \cup Ended
  /\ s = "ESCALATED" => p \in Ended

\* State t may be recorded, at any distance, after state s.
Follows(s, t) ==
  /\ s # t
  /\ ~IsTerminal(s)
  /\ <<t, s>> \notin validTransitions
  /\ s = "POSTCHECK_PASSED" => t = "COMMITTED"

\* Each row carries the records of the place it leaves to the place it reaches,
\* and the state it appends may follow all of them.
LEMMA RowsGoForward ==
  ASSUME NEW from, NEW to, NEW enter, NEW log, NEW write,
         <<from, to, enter, log, write>> \in MoveTable,
         NEW s \in AllStates, Recordable(from, s)
  PROVE  Recordable(to, s) /\ (log # "-" => Follows(s, log))
  BY DEF MoveTable, AllStates, Recordable, Follows, IsTerminal, validTransitions,
         Early, Undoing, Ended

\* What a row appends is a state of the FSM that fits the place it reaches.
LEMMA RowLogs ==
  ASSUME NEW from, NEW to, NEW enter, NEW log, NEW write,
         <<from, to, enter, log, write>> \in MoveTable, log # "-"
  PROVE  log \in AllStates /\ Recordable(to, log)
  BY DEF MoveTable, AllStates, Recordable, Early, Undoing, Ended

\* A call's records fit the place it stands at, and each may follow every record
\* before it.
Forward(c) ==
  \A i \in 1..Len(trail[c]) :
    /\ Recordable(pc[c], trail[c][i])
    /\ \A j \in 1..(i - 1) : Follows(trail[c][j], trail[c][i])

AuditInv == \A c \in Call : Forward(c)

\* What an append that is not lost does to a trail.
LEMMA Appended ==
  ASSUME NEW t \in Seq(AllStates), NEW s \in AllStates
  PROVE  /\ Append(t, s) \in Seq(AllStates)
         /\ Append(t, s) # << >>
         /\ Len(t) \in Nat
         /\ Len(Append(t, s)) = Len(t) + 1
         /\ \A i \in 1..Len(t) : Append(t, s)[i] = t[i] /\ t[i] \in AllStates
         /\ Append(t, s)[Len(t) + 1] = s
  BY AppendProperties, LenProperties, ElementOfSeq

\* A move changes the place, the FSM, the trail and the WAL record of its own
\* call only.
LEMMA MovesAreLocal ==
  ASSUME TypeOK, NEW c \in Call, NEW d \in Call, d # c,
         NEW from, NEW to, NEW enter, NEW log, NEW write,
         Move(c, from, to, enter, log, write)
  PROVE  pc'[d] = pc[d] /\ fsm'[d] = fsm[d] /\ trail'[d] = trail[d]
           /\ wal'[d] = wal[d]
<1>1. pc'[d] = pc[d]
  BY DEF Move, Goto, TypeOK
<1>2. fsm'[d] = fsm[d]
  BY DEF Move, EntersFSM, TypeOK
<1>3. trail'[d] = trail[d]
  BY DEF Move, AppendsTo, LedgerAppend, TypeOK
<1>4. wal'[d] = wal[d]
  BY DEF Move, WritesWAL, UpdateState, TypeOK
<1> QED
  BY <1>1, <1>2, <1>3, <1>4

\* A move takes its call to the place its row names, and its trail is the old one
\* or, when the row appends, the old one and one record more.
LEMMA MoveTrail ==
  ASSUME TypeOK, NEW c \in Call,
         NEW from, NEW to, NEW enter, NEW log, NEW write,
         Move(c, from, to, enter, log, write)
  PROVE  /\ pc[c] = from
         /\ pc'[c] = to
         /\ trail[c] \in Seq(AllStates)
         /\ \/ trail'[c] = trail[c]
            \/ log # "-" /\ trail'[c] = Append(trail[c], log)
<1>1. pc[c] = from /\ pc'[c] = to
  BY DEF Move, Goto, TypeOK
<1>2. trail[c] \in Seq(AllStates)
  BY DEF TypeOK
<1>3. \/ trail'[c] = trail[c]
      \/ log # "-" /\ trail'[c] = Append(trail[c], log)
  BY DEF Move, AppendsTo, LedgerAppend, TypeOK
<1> QED
  BY <1>1, <1>2, <1>3

\* A call's own move keeps its records in order.
LEMMA MoveForward ==
  ASSUME TypeOK, NEW c \in Call, Forward(c),
         NEW from, NEW to, NEW enter, NEW log, NEW write,
         Move(c, from, to, enter, log, write)
  PROVE  Forward(c)'
<1>1. /\ pc[c] = from /\ pc'[c] = to /\ trail[c] \in Seq(AllStates)
      /\ <<from, to, enter, log, write>> \in MoveTable
  BY MoveTrail DEF Move
<1>2. \A i \in 1..Len(trail[c]) : trail[c][i] \in AllStates
  BY <1>1, ElementOfSeq
<1>3. \A i \in 1..Len(trail[c]) : Recordable(to, trail[c][i])
  BY <1>1, <1>2, RowsGoForward DEF Forward
<1>4. CASE trail'[c] = trail[c]
  BY <1>1, <1>3, <1>4 DEF Forward
<1>5. CASE log # "-" /\ trail'[c] = Append(trail[c], log)
  <2>1. log \in AllStates /\ Recordable(to, log)
    BY <1>1, <1>5, RowLogs
  <2>2. \A j \in 1..Len(trail[c]) : Follows(trail[c][j], log)
    BY <1>1, <1>2, <1>5, RowsGoForward DEF Forward
  <2>3. /\ Len(trail[c]) \in Nat
        /\ Len(trail'[c]) = Len(trail[c]) + 1
        /\ \A i \in 1..Len(trail[c]) : trail'[c][i] = trail[c][i]
        /\ trail'[c][Len(trail[c]) + 1] = log
    BY <1>1, <1>5, <2>1, Appended
  <2> SUFFICES ASSUME NEW i \in 1..Len(trail'[c])
               PROVE  /\ Recordable(to, trail'[c][i])
                      /\ \A j \in 1..(i - 1) : Follows(trail'[c][j], trail'[c][i])
    BY <1>1 DEF Forward
  <2>4. CASE i \in 1..Len(trail[c])
    BY <1>3, <2>3, <2>4 DEF Forward
  <2>5. CASE i = Len(trail[c]) + 1
    BY <2>1, <2>2, <2>3, <2>5
  <2> QED
    BY <2>3, <2>4, <2>5
<1> QED
  BY <1>4, <1>5, MoveTrail

\* Every step of the system keeps every call's records in order.
LEMMA AuditStep == TypeOK /\ AuditInv /\ [Next]_vars => AuditInv'
<1> SUFFICES ASSUME TypeOK, AuditInv, [Next]_vars, NEW d \in Call
             PROVE  Forward(d)'
  BY DEF AuditInv
<1>1. Forward(d)
  BY DEF AuditInv
<1>2. ASSUME NEW c \in Call, CallStepOf(c) PROVE Forward(d)'
  <2>1. PICK from, to, enter, log, write : Move(c, from, to, enter, log, write)
    BY <1>2, StepsAreMoves DEF Moves
  <2>2. CASE d = c
    BY <1>1, <2>1, <2>2, MoveForward
  <2>3. CASE d # c
    BY <1>1, <2>1, <2>3, MovesAreLocal DEF Forward
  <2> QED
    BY <2>2, <2>3
<1>3. ASSUME NEW p \in Process, Crash(p) PROVE Forward(d)'
  <2>1. trail' = trail /\ (pc'[d] = pc[d] \/ pc'[d] = "dead")
    BY <1>3 DEF Crash
  <2>2. \A s : Recordable(pc[d], s) => Recordable("dead", s)
    BY DEF Recordable, Early, Ended
  <2> QED
    BY <1>1, <2>1, <2>2 DEF Forward
<1>4. ASSUME NEW p \in Process, Close(p) \/ Restart(p) PROVE Forward(d)'
  BY <1>1, <1>4 DEF Close, Restart, Forward
<1>5. CASE UNCHANGED vars
  BY <1>1, <1>5 DEF vars, Forward
<1> QED
  BY <1>2, <1>3, <1>4, <1>5 DEF Next, CallStepOf

\* The ledger's records of a call stay in order in every reachable state.
LEMMA AuditInvariance == Spec => []AuditInv
<1>1. Init => AuditInv
  BY DEF Init, AuditInv, Forward
<1>2. TypeOK /\ AuditInv /\ [Next]_vars => AuditInv'
  BY AuditStep
<1> QED
  BY <1>1, <1>2, TypeCorrect, PTL DEF Spec

\* What a call leaves in the ledger follows the FSM forward, whichever of its
\* appends are lost, ledgers closed or processes killed: no state twice, nothing
\* after a terminal one, never both a commit and a rollback.
THEOREM AuditIsMonotone == Spec => []AuditMonotone
<1>1. AuditInv => AuditMonotone
  <2> SUFFICES ASSUME AuditInv, NEW c \in Call, NEW i \in 1..Len(trail[c]),
                      NEW s \in Before(trail[c], i)
               PROVE  Follows(s, trail[c][i])
    BY DEF AuditMonotone, Follows
  <2>1. PICK j \in 1..(i - 1) : s = trail[c][j]
    BY DEF Before
  <2> QED
    BY <2>1 DEF AuditInv, Forward
<1> QED
  BY <1>1, AuditInvariance, PTL

-----------------------------------------------------------------------------
\* While UpdateState does not fail, the place a call stands at says what its WAL
\* record holds.
FirmAt(p, w) ==
  /\ p \in Early \cup {"stage"} => w = "NONE"
  /\ p \in {"execute", "act", "pass", "commit", "fault", "rollback",
            "undoStart"} => w = "PREPARED"
  /\ p \in {"audit", "record"} => w = "COMMITTED"
  /\ p \in {"undo", "undoFail"} => w = "ROLLING_BACK"
  /\ p = "undoEscalate" => w = "FAILED"
  /\ p \in {"rolledBack", "rbEscalate"} => w = "ROLLED_BACK"

\* While Stage does not fail either, a call about to return has settled its record.
SettledAt(p, w) ==
  /\ p # "stageEscalate"
  /\ p \in {"unlock", "done"} => w \notin {"PREPARED", "ROLLING_BACK"}

\* The journal is not behind ledger record s.
Durable(s, w) ==
  /\ s = "EXECUTING" => w # "NONE"
  /\ s = "COMMITTED" => w = "COMMITTED"
  /\ s = "ROLLED_BACK" => w = "ROLLED_BACK"

\* What a row makes of the WAL record when no write fails.
Written(write, w, v) ==
  /\ write = "-" => v = w
  /\ write = "TRIED" => v \in {"NONE", "TORN", "PREPARED"}
  /\ write \notin {"-", "TRIED"} => v = write

Firm(c) ==
  /\ FirmAt(pc[c], wal[c])
  /\ \A i \in 1..Len(trail[c]) : Durable(trail[c][i], wal[c])

FirmInv == \A c \in Call : Firm(c)

SettleInv == \A c \in Call : SettledAt(pc[c], wal[c])

\* Rows that write the journal do so before the ledger hears of it.
LEMMA RowsAreFirm ==
  ASSUME NEW from, NEW to, NEW enter, NEW log, NEW write, NEW w, NEW v,
         <<from, to, enter, log, write>> \in MoveTable,
         FirmAt(from, w), Written(write, w, v)
  PROVE  FirmAt(to, v) /\ (log # "-" => Durable(log, v))
  BY DEF MoveTable, FirmAt, Written, Durable, Early

\* No row takes back what the journal held of an earlier record.
LEMMA RowsStayFirm ==
  ASSUME NEW from, NEW to, NEW enter, NEW log, NEW write, NEW w, NEW v,
         <<from, to, enter, log, write>> \in MoveTable,
         FirmAt(from, w), Written(write, w, v),
         NEW s, Recordable(from, s), Durable(s, w)
  PROVE  Durable(s, v)
  BY DEF MoveTable, FirmAt, Written, Durable, Recordable, Early, Undoing, Ended

\* Rows that return leave no open record, unless Stage failed.
LEMMA RowsSettle ==
  ASSUME NEW from, NEW to, NEW enter, NEW log, NEW write, NEW w, NEW v,
         <<from, to, enter, log, write>> \in MoveTable, to # "stageEscalate",
         FirmAt(from, w), SettledAt(from, w), Written(write, w, v)
  PROVE  SettledAt(to, v)
  BY DEF MoveTable, FirmAt, SettledAt, Written, Early

\* While UpdateState does not fail, a move writes what its row says.
LEMMA MoveWrites ==
  ASSUME TypeOK, "update" \notin Faults, NEW c \in Call, FirmAt(pc[c], wal[c]),
         NEW from, NEW to, NEW enter, NEW log, NEW write,
         Move(c, from, to, enter, log, write)
  PROVE  Written(write, wal[c], wal'[c])
<1>1. pc[c] = from /\ <<from, to, enter, log, write>> \in MoveTable
  BY DEF Move, Goto
<1>2. write \notin {"-", "PREPARED", "TRIED"} => Readable(c)
  BY <1>1 DEF MoveTable, FirmAt, Readable, WALStates
<1>3. wal \in [Call -> WALStates \cup {"NONE", "TORN"}]
  BY DEF TypeOK
<1> QED
  BY <1>2, <1>3 DEF Move, WritesWAL, UpdateState, Written

\* A call's own move keeps the journal ahead of the ledger.
LEMMA MoveFirm ==
  ASSUME TypeOK, "update" \notin Faults, NEW c \in Call, Forward(c), Firm(c),
         NEW from, NEW to, NEW enter, NEW log, NEW write,
         Move(c, from, to, enter, log, write)
  PROVE  Firm(c)'
<1>1. /\ pc[c] = from /\ pc'[c] = to /\ trail[c] \in Seq(AllStates)
      /\ <<from, to, enter, log, write>> \in MoveTable
  BY MoveTrail DEF Move
<1>2. Written(write, wal[c], wal'[c])
  BY MoveWrites DEF Firm
<1>3. FirmAt(to, wal'[c]) /\ (log # "-" => Durable(log, wal'[c]))
  BY <1>1, <1>2, RowsAreFirm DEF Firm
<1>4. \A i \in 1..Len(trail[c]) : Durable(trail[c][i], wal'[c])
  BY <1>1, <1>2, RowsStayFirm DEF Firm, Forward
<1>5. CASE trail'[c] = trail[c]
  BY <1>1, <1>3, <1>4, <1>5 DEF Firm
<1>6. CASE log # "-" /\ trail'[c] = Append(trail[c], log)
  <2>1. log \in AllStates
    BY <1>1, <1>6, RowLogs
  <2>2. /\ Len(trail[c]) \in Nat
        /\ Len(trail'[c]) = Len(trail[c]) + 1
        /\ \A i \in 1..Len(trail[c]) : trail'[c][i] = trail[c][i]
        /\ trail'[c][Len(trail[c]) + 1] = log
    BY <1>1, <1>6, <2>1, Appended
  <2>3. \A i \in 1..Len(trail'[c]) : Durable(trail'[c][i], wal'[c])
    BY <1>3, <1>4, <1>6, <2>2
  <2> QED
    BY <1>1, <1>3, <2>3 DEF Firm
<1> QED
  BY <1>5, <1>6, MoveTrail

\* A crash tears at most the WAL file that a call is rewriting, and no call that
\* may be rewriting has a settled state in the ledger.
LEMMA CrashFirm ==
  ASSUME TypeOK, NEW p \in Process, Crash(p), NEW d \in Call, Forward(d), Firm(d)
  PROVE  Firm(d)'
<1>1. trail' = trail
  BY DEF Crash
<1>2. CASE wal'[d] = wal[d]
  BY <1>1, <1>2 DEF Crash, Firm, FirmAt, Early
<1>3. CASE wal'[d] # wal[d]
  <2>1. d \in Writing(p) /\ wal'[d] = "TORN"
    BY <1>3 DEF Crash, TypeOK, Writing
  <2>2. pc'[d] = "dead"
    BY <2>1 DEF Crash, Writing
  <2>3. pc[d] \in {"stage", "commit", "undoStart", "undo", "undoFail"}
    BY <2>1 DEF Writing
  <2>4. \A i \in 1..Len(trail[d]) : Durable(trail[d][i], "TORN")
    BY <2>3 DEF Forward, Recordable, Durable, Undoing, Ended
  <2> QED
    BY <1>1, <2>1, <2>2, <2>4 DEF Firm, FirmAt, Early
<1> QED
  BY <1>2, <1>3

\* Every step keeps the journal ahead of the ledger, while no UpdateState fails.
LEMMA FirmStep ==
  ASSUME "update" \notin Faults
  PROVE  TypeOK /\ AuditInv /\ FirmInv /\ [Next]_vars => FirmInv'
<1> SUFFICES ASSUME TypeOK, AuditInv, FirmInv, [Next]_vars, NEW d \in Call
             PROVE  Firm(d)'
  BY DEF FirmInv
<1>1. Firm(d) /\ Forward(d)
  BY DEF FirmInv, AuditInv
<1>2. ASSUME NEW c \in Call, CallStepOf(c) PROVE Firm(d)'
  <2>1. PICK from, to, enter, log, write : Move(c, from, to, enter, log, write)
    BY <1>2, StepsAreMoves DEF Moves
  <2>2. CASE d = c
    BY <1>1, <2>1, <2>2, MoveFirm
  <2>3. CASE d # c
    BY <1>1, <2>1, <2>3, MovesAreLocal DEF Firm
  <2> QED
    BY <2>2, <2>3
<1>3. ASSUME NEW p \in Process, Crash(p) PROVE Firm(d)'
  BY <1>1, <1>3, CrashFirm
<1>4. ASSUME NEW p \in Process, Close(p) \/ Restart(p) PROVE Firm(d)'
  BY <1>1, <1>4 DEF Close, Restart, Firm
<1>5. CASE UNCHANGED vars
  BY <1>1, <1>5 DEF vars, Firm
<1> QED
  BY <1>2, <1>3, <1>4, <1>5 DEF Next, CallStepOf

\* While no UpdateState fails, the journal stays ahead of the ledger.
LEMMA FirmInvariance ==
  ASSUME "update" \notin Faults
  PROVE  Spec => []FirmInv
<1>1. Init => FirmInv
  BY DEF Init, FirmInv, Firm, FirmAt, Early
<1>2. TypeOK /\ AuditInv /\ FirmInv /\ [Next]_vars => FirmInv'
  BY FirmStep
<1> QED
  BY <1>1, <1>2, TypeCorrect, AuditInvariance, PTL DEF Spec

\* While no UpdateState fails, what the ledger says was executed, committed or
\* rolled back is in the journal, at every instant at which a process may die and
\* whichever other faults occur.
THEOREM LedgerNeverAhead ==
  ASSUME "update" \notin Faults
  PROVE  Spec => []AuditNeverAhead
<1>1. FirmInv => AuditNeverAhead
  BY DEF FirmInv, Firm, Durable, AuditNeverAhead
<1> QED
  BY <1>1, FirmInvariance, PTL

\* Every step keeps a returning call's record settled, while neither Stage nor
\* UpdateState fails.
LEMMA SettleStep ==
  ASSUME "update" \notin Faults, "stage" \notin Faults
  PROVE  TypeOK /\ FirmInv /\ SettleInv /\ [Next]_vars => SettleInv'
<1> SUFFICES ASSUME TypeOK, FirmInv, SettleInv, [Next]_vars, NEW d \in Call
             PROVE  SettledAt(pc'[d], wal'[d])
  BY DEF SettleInv
<1>1. SettledAt(pc[d], wal[d]) /\ FirmAt(pc[d], wal[d])
  BY DEF SettleInv, FirmInv, Firm
<1>2. ASSUME NEW c \in Call, CallStepOf(c) PROVE SettledAt(pc'[d], wal'[d])
  <2>1. PICK from, to, enter, log, write : Move(c, from, to, enter, log, write)
    BY <1>2, StepsAreMoves DEF Moves
  <2>2. CASE d = c
    <3>1. /\ pc[d] = from /\ pc'[d] = to /\ to # "stageEscalate"
          /\ <<from, to, enter, log, write>> \in MoveTable
      BY <2>1, <2>2, MoveTrail DEF Move
    <3>2. Written(write, wal[d], wal'[d])
      BY <1>1, <2>1, <2>2, MoveWrites
    <3> QED
      BY <1>1, <3>1, <3>2, RowsSettle
  <2>3. CASE d # c
    BY <1>1, <2>1, <2>3, MovesAreLocal
  <2> QED
    BY <2>2, <2>3
<1>3. ASSUME NEW p \in Process, Crash(p) PROVE SettledAt(pc'[d], wal'[d])
  BY <1>1, <1>3 DEF Crash, Writing, Lives, TypeOK, SettledAt
<1>4. ASSUME NEW p \in Process, Close(p) \/ Restart(p)
      PROVE  SettledAt(pc'[d], wal'[d])
  BY <1>1, <1>4 DEF Close, Restart
<1>5. CASE UNCHANGED vars
  BY <1>1, <1>5 DEF vars
<1> QED
  BY <1>2, <1>3, <1>4, <1>5 DEF Next, CallStepOf

\* While neither Stage nor UpdateState fails, what Journal.ListPending reports is
\* unfinished: every return path of Remediate has settled its record.
THEOREM NoGhostsPending ==
  ASSUME "update" \notin Faults, "stage" \notin Faults
  PROVE  Spec => []PendingIsUnfinished
<1>1. Init => SettleInv
  BY DEF Init, SettleInv, SettledAt
<1>2. TypeOK /\ FirmInv /\ SettleInv /\ [Next]_vars => SettleInv'
  BY SettleStep
<1>3. SettleInv => PendingIsUnfinished
  BY DEF SettleInv, SettledAt, PendingIsUnfinished, ListPending
<1> QED
  BY <1>1, <1>2, <1>3, TypeCorrect, FirmInvariance, PTL DEF Spec

-----------------------------------------------------------------------------
\* The FSM state of a call at place p.
FsmAt(p, f) ==
  /\ p \in {"idle", "resolve"} => f = "DETECTED"
  /\ p \in {"lock", "damp", "precheck"} => f = "EVALUATING"
  /\ p \in {"lockEscalate", "refuse"} => f = "PRECHECK_FAILED"
  /\ p \in {"stage", "stageEscalate", "execute"} => f = "PRECHECK_PASSED"
  /\ p \in {"act", "pass", "fault"} => f = "EXECUTING"
  /\ p = "commit" => f = "POSTCHECK_PASSED"
  /\ p \in {"audit", "record"} => f = "COMMITTED"
  /\ p = "rollback" => f = "POSTCHECK_FAILED"
  /\ p \in Undoing \ {"rbEscalate"} => f = "ROLLING_BACK"
  /\ p = "rbEscalate" => f = "ROLLED_BACK"

\* The last ledger record of a call at place p with FSM state f.
LastAt(p, f, l) ==
  \/ p # "audit" /\ l = f
  \/ p \in {"audit", "dead"} /\ f = "COMMITTED" /\ l = "POSTCHECK_PASSED"
  \/ p \in Ended /\ f = "PRECHECK_PASSED" /\ l = "ESCALATED"

Running(c) == pc[c] \notin {"idle", "done", "dead"}

\* A running call's process is up.
UpInv == \A c \in Call : Running(c) => ProcOf[c] \in up

\* A running call's process has its ledger open.
OpenInv == \A c \in Call : Running(c) => ProcOf[c] \in open

\* The FSM fits the place; the trail is a legal path from DETECTED, it has begun
\* by the time the alert was received, and ends where the FSM is.
Tracks(c) ==
  /\ FsmAt(pc[c], fsm[c])
  /\ pc[c] = "idle" => trail[c] = <<>>
  /\ Running(c) => trail[c] # <<>>
  /\ trail[c] # <<>> =>
       /\ trail[c][1] = "DETECTED"
       /\ \A i \in 1..(Len(trail[c]) - 1) :
            MayFollow(trail[c][i], trail[c][i + 1])
       /\ LastAt(pc[c], fsm[c], trail[c][Len(trail[c])])

\* A call that has lost no append: not started, or running on an open ledger.
Heard(c) == pc[c] = "idle" \/ (Running(c) /\ ProcOf[c] \in open)

TrackInv == \A c \in Call : Heard(c) => Tracks(c)

\* Each row moves the FSM along its table, and appends the state the FSM has, at
\* once or, for COMMITTED, in the next row.
LEMMA RowsTrackFSM ==
  ASSUME NEW from, NEW to, NEW enter, NEW log, NEW write, NEW f, NEW g, NEW l,
         <<from, to, enter, log, write>> \in MoveTable,
         FsmAt(from, f), g = IF enter = "-" THEN f ELSE Transition(f, enter)
  PROVE  /\ FsmAt(to, g)
         /\ from = "idle" => (to = "done" /\ log = "-") \/ log = "DETECTED"
         /\ log = "-" /\ from # "idle" /\ LastAt(from, f, l) => LastAt(to, g, l)
         /\ log # "-" => LastAt(to, g, log)
         /\ log # "-" /\ from # "idle" /\ LastAt(from, f, l) => MayFollow(l, log)
<1> USE DEF MoveTable, FsmAt, LastAt, Transition, CanTransition, MayFollow,
            validTransitions, Undoing, Ended
<1>1. FsmAt(to, g)
  OBVIOUS
<1>2. from = "idle" => (to = "done" /\ log = "-") \/ log = "DETECTED"
  OBVIOUS
<1>3. log = "-" /\ from # "idle" /\ LastAt(from, f, l) => LastAt(to, g, l)
  OBVIOUS
<1>4. log # "-" => LastAt(to, g, log)
  OBVIOUS
<1>5. log # "-" /\ from # "idle" /\ LastAt(from, f, l) => MayFollow(l, log)
  OBVIOUS
<1> QED
  BY <1>1, <1>2, <1>3, <1>4, <1>5

\* While Close does not run under a call, its ledger stays open until it ends.
LEMMA OpenStep ==
  ASSUME "close" \notin Faults
  PROVE  TypeOK /\ OpenInv /\ [Next]_vars => OpenInv'
<1> SUFFICES ASSUME TypeOK, OpenInv, [Next]_vars, NEW d \in Call, Running(d)'
             PROVE  ProcOf[d] \in open'
  BY DEF OpenInv
<1>1. ASSUME NEW c \in Call, CallStepOf(c) PROVE ProcOf[d] \in open'
  <2>1. PICK from, to, enter, log, write : Move(c, from, to, enter, log, write)
    BY <1>1, StepsAreMoves DEF Moves
  <2>2. CASE d = c
    <3>1. pc[d] = from /\ pc'[d] = to /\ from \notin {"done", "dead"}
      BY <2>1, <2>2, MoveTrail DEF Move, MoveTable
    <3> QED
      BY <2>1, <2>2, <3>1 DEF OpenInv, Running, Move
  <2>3. CASE d # c
    BY <2>1, <2>3, MovesAreLocal DEF OpenInv, Running, Move
  <2> QED
    BY <2>2, <2>3
<1>2. ASSUME NEW p \in Process, Crash(p) PROVE ProcOf[d] \in open'
  BY <1>2 DEF Crash, Lives, OpenInv, Running
<1>3. ASSUME NEW p \in Process, Close(p) \/ Restart(p) PROVE ProcOf[d] \in open'
  BY <1>3 DEF Close, Restart, OpenInv, Running
<1>4. CASE UNCHANGED vars
  BY <1>4 DEF vars, OpenInv, Running
<1> QED
  BY <1>1, <1>2, <1>3, <1>4 DEF Next, CallStepOf

\* While Close does not run under a call, its ledger is open.
LEMMA OpenInvariance ==
  ASSUME "close" \notin Faults
  PROVE  Spec => []OpenInv
<1>1. Init => OpenInv
  BY DEF Init, OpenInv, Running
<1>2. TypeOK /\ OpenInv /\ [Next]_vars => OpenInv'
  BY OpenStep
<1> QED
  BY <1>1, <1>2, TypeCorrect, PTL DEF Spec

\* While appends do not fail and the ledger is open, none is lost.
LEMMA MoveAppends ==
  ASSUME TypeOK, "append" \notin Faults, NEW c \in Call, ProcOf[c] \in open,
         NEW from, NEW to, NEW enter, NEW log, NEW write,
         Move(c, from, to, enter, log, write)
  PROVE  IF log = "-" THEN trail'[c] = trail[c]
                      ELSE trail'[c] = Append(trail[c], log)
  BY DEF Move, AppendsTo, LedgerAppend, TypeOK

\* A call's own move takes its FSM and its trail along the same path.
LEMMA MoveTracks ==
  ASSUME TypeOK, "append" \notin Faults, NEW c \in Call, ProcOf[c] \in open,
         Tracks(c),
         NEW from, NEW to, NEW enter, NEW log, NEW write,
         Move(c, from, to, enter, log, write)
  PROVE  Tracks(c)'
<1> DEFINE t == trail[c]
           last == trail[c][Len(trail[c])]
           g == IF enter = "-" THEN fsm[c] ELSE Transition(fsm[c], enter)
<1>1. /\ pc[c] = from /\ pc'[c] = to /\ t \in Seq(AllStates)
      /\ <<from, to, enter, log, write>> \in MoveTable
  BY MoveTrail DEF Move
<1>2. fsm'[c] = g
  BY DEF Move, EntersFSM, TypeOK
<1>3. FsmAt(from, fsm[c])
  BY <1>1 DEF Tracks
<1>4. /\ FsmAt(to, g)
      /\ from = "idle" => (to = "done" /\ log = "-") \/ log = "DETECTED"
      /\ log = "-" /\ from # "idle" /\ LastAt(from, fsm[c], last) => LastAt(to, g, last)
      /\ log # "-" => LastAt(to, g, log)
      /\ log # "-" /\ from # "idle" /\ LastAt(from, fsm[c], last) =>
           MayFollow(last, log)
  BY <1>1, <1>3, RowsTrackFSM
<1>5. from \notin {"done", "dead"} /\ to # "idle"
  BY <1>1 DEF MoveTable
<1>6. IF log = "-" THEN trail'[c] = t ELSE trail'[c] = Append(t, log)
  BY MoveAppends
<1>7. CASE log = "-"
  <2>1. trail'[c] = t
    BY <1>6, <1>7
  <2>2. CASE from = "idle"
    BY <1>1, <1>2, <1>4, <1>5, <1>7, <2>1, <2>2 DEF Tracks, Running
  <2>3. CASE from # "idle"
    BY <1>1, <1>2, <1>4, <1>5, <1>7, <2>1, <2>3 DEF Tracks, Running
  <2> QED
    BY <2>2, <2>3
<1>8. CASE log # "-"
  <2>1. log \in AllStates
    BY <1>1, <1>8, RowLogs
  <2>2. /\ Len(t) \in Nat
        /\ trail'[c] # <<>>
        /\ Len(trail'[c]) = Len(t) + 1
        /\ \A i \in 1..Len(t) : trail'[c][i] = t[i]
        /\ trail'[c][Len(t) + 1] = log
    BY <1>1, <1>6, <1>8, <2>1, Appended
  <2>3. LastAt(pc'[c], fsm'[c], trail'[c][Len(trail'[c])])
    BY <1>1, <1>2, <1>4, <1>8, <2>2
  <2>4. CASE from = "idle"
    <3>1. Len(t) = 0 /\ log = "DETECTED"
      BY <1>1, <1>4, <1>8, <2>4 DEF Tracks
    <3> QED
      BY <1>1, <1>2, <1>4, <1>5, <2>2, <2>3, <3>1 DEF Tracks
  <2>5. CASE from # "idle"
    <3>1. t # <<>> /\ t[1] = "DETECTED" /\ LastAt(from, fsm[c], last)
      BY <1>1, <1>5, <2>5 DEF Tracks, Running
    <3>2. Len(t) >= 1
      BY <1>1, <2>2, <3>1, EmptySeq
    <3>3. trail'[c][1] = "DETECTED"
      BY <2>2, <3>1, <3>2
    <3>4. MayFollow(last, log)
      BY <1>4, <1>8, <2>5, <3>1
    <3>5. ASSUME NEW i \in 1..(Len(trail'[c]) - 1)
          PROVE  MayFollow(trail'[c][i], trail'[c][i + 1])
      <4>1. CASE i = Len(t)
        BY <2>2, <3>2, <3>4, <4>1
      <4>2. CASE i \in 1..(Len(t) - 1)
        <5>1. i \in 1..Len(t) /\ i + 1 \in 1..Len(t)
          BY <2>2, <4>2
        <5>2. trail'[c][i] = t[i] /\ trail'[c][i + 1] = t[i + 1]
          BY <2>2, <5>1
        <5>3. MayFollow(t[i], t[i + 1])
          BY <3>1, <4>2 DEF Tracks
        <5> QED
          BY <5>2, <5>3
      <4> QED
        BY <2>2, <4>1, <4>2
    <3> QED
      BY <1>1, <1>2, <1>4, <1>5, <2>2, <2>3, <3>3, <3>5 DEF Tracks
  <2> QED
    BY <2>4, <2>5
<1> QED
  BY <1>7, <1>8

\* A running call's process is up, whatever happens.
LEMMA UpStep == TypeOK /\ UpInv /\ [Next]_vars => UpInv'
<1> SUFFICES ASSUME TypeOK, UpInv, [Next]_vars, NEW d \in Call, Running(d)'
             PROVE  ProcOf[d] \in up'
  BY DEF UpInv
<1>1. ASSUME NEW c \in Call, CallStepOf(c) PROVE ProcOf[d] \in up'
  <2>1. PICK from, to, enter, log, write : Move(c, from, to, enter, log, write)
    BY <1>1, StepsAreMoves DEF Moves
  <2>2. CASE d = c
    <3>1. pc[d] = from /\ from \notin {"done", "dead"}
      BY <2>1, <2>2, MoveTrail DEF Move, MoveTable
    <3> QED
      BY <2>1, <2>2, <3>1 DEF UpInv, Running, Move, TypeOK
  <2>3. CASE d # c
    BY <2>1, <2>3, MovesAreLocal DEF UpInv, Running, Move
  <2> QED
    BY <2>2, <2>3
<1>2. ASSUME NEW p \in Process, Crash(p) PROVE ProcOf[d] \in up'
  BY <1>2 DEF Crash, Lives, UpInv, Running
<1>3. ASSUME NEW p \in Process, Close(p) \/ Restart(p) PROVE ProcOf[d] \in up'
  BY <1>3 DEF Close, Restart, UpInv, Running
<1>4. CASE UNCHANGED vars
  BY <1>4 DEF vars, UpInv, Running
<1> QED
  BY <1>1, <1>2, <1>3, <1>4 DEF Next, CallStepOf

\* Every step keeps the trail of a call that lost no append on its FSM's path: a
\* ledger once closed is open again only after a crash that ended the call.
LEMMA TrackStep ==
  ASSUME "append" \notin Faults
  PROVE  TypeOK /\ UpInv /\ TrackInv /\ [Next]_vars => TrackInv'
<1> SUFFICES ASSUME TypeOK, UpInv, TrackInv, [Next]_vars, NEW d \in Call, Heard(d)'
             PROVE  Tracks(d)'
  BY DEF TrackInv
<1>1. Heard(d) => Tracks(d)
  BY DEF TrackInv
<1>2. ASSUME NEW c \in Call, CallStepOf(c) PROVE Tracks(d)'
  <2>1. PICK from, to, enter, log, write : Move(c, from, to, enter, log, write)
    BY <1>2, StepsAreMoves DEF Moves
  <2>2. CASE d = c
    <3>1. /\ pc[d] = from /\ pc'[d] = to /\ open' = open
          /\ from \notin {"done", "dead"} /\ to # "idle"
          /\ from = "idle" => ProcOf[d] \in open
      BY <2>1, <2>2, MoveTrail DEF Move, MoveTable
    <3>2. Heard(d) /\ ProcOf[d] \in open
      BY <3>1 DEF Heard, Running
    <3> QED
      BY <1>1, <2>1, <2>2, <3>1, <3>2, MoveTracks
  <2>3. CASE d # c
    <3>1. /\ pc'[d] = pc[d] /\ fsm'[d] = fsm[d] /\ trail'[d] = trail[d]
          /\ open' = open
      BY <2>1, <2>3, MovesAreLocal DEF Move
    <3> QED
      BY <1>1, <3>1 DEF Heard, Tracks, Running
  <2> QED
    BY <2>2, <2>3
<1>3. ASSUME NEW p \in Process, Crash(p) PROVE Tracks(d)'
  <2>1. /\ trail' = trail /\ fsm' = fsm /\ open' \subseteq open
        /\ pc'[d] = pc[d] \/ pc'[d] = "dead"
    BY <1>3 DEF Crash
  <2> QED
    BY <1>1, <2>1 DEF Heard, Tracks, Running
<1>4. ASSUME NEW p \in Process, Close(p) PROVE Tracks(d)'
  BY <1>1, <1>4 DEF Close, Heard, Tracks, Running
<1>5. ASSUME NEW p \in Process, Restart(p) PROVE Tracks(d)'
  <2>1. Heard(d)
    BY <1>5 DEF Restart, Heard, Running, UpInv
  <2> QED
    BY <1>1, <1>5, <2>1 DEF Restart, Tracks, Running
<1>6. CASE UNCHANGED vars
  BY <1>1, <1>6 DEF vars, Heard, Tracks, Running
<1> QED
  BY <1>2, <1>3, <1>4, <1>5, <1>6 DEF Next, CallStepOf

\* What the step of a call, or the crash that ends it, leaves while its ledger is
\* open.
LEMMA TrackLeaves ==
  ASSUME "append" \notin Faults, TypeOK, TrackInv, [Next]_vars, NEW d \in Call,
         ProcOf[d] \in open, pc'[d] # pc[d]
  PROVE  Followed(d)'
<1>1. Heard(d) => Tracks(d)
  BY DEF TrackInv
<1>2. SUFFICES Tracks(d)'
  BY DEF Tracks, LastAt, Followed, Ended
<1>3. ASSUME NEW c \in Call, CallStepOf(c) PROVE Tracks(d)'
  <2>1. PICK from, to, enter, log, write : Move(c, from, to, enter, log, write)
    BY <1>3, StepsAreMoves DEF Moves
  <2>2. d = c
    BY <2>1, MovesAreLocal
  <2>3. pc[d] = from /\ from \notin {"done", "dead"}
    BY <2>1, <2>2, MoveTrail DEF Move, MoveTable
  <2> QED
    BY <1>1, <2>1, <2>2, <2>3, MoveTracks DEF Heard, Running
<1>4. ASSUME NEW p \in Process, Crash(p) PROVE Tracks(d)'
  <2>1. /\ trail' = trail /\ fsm' = fsm /\ pc'[d] = "dead"
        /\ pc[d] \notin {"idle", "done", "dead"}
    BY <1>4 DEF Crash, Lives
  <2>2. Tracks(d)
    BY <1>1, <2>1 DEF Heard, Running
  <2>3. \A f, l : LastAt(pc[d], f, l) => LastAt("dead", f, l)
    BY DEF LastAt, Ended
  <2>4. FsmAt("dead", fsm[d])
    BY DEF FsmAt, Undoing
  <2> QED
    BY <2>1, <2>2, <2>3, <2>4 DEF Tracks, Running
<1>5. ASSUME NEW p \in Process, Close(p) \/ Restart(p) PROVE FALSE
  BY <1>5 DEF Close, Restart
<1>6. CASE UNCHANGED vars
  BY <1>6 DEF vars
<1> QED
  BY <1>3, <1>4, <1>5, <1>6 DEF Next, CallStepOf

\* For any number of calls, processes and runbooks, and under crashes, closed
\* ledgers and failures of the lock and of the journal at any point: as long as
\* the ledger is open and its appends succeed, the records of a call are the path
\* its FSM took, but for the two gaps that Followed names.
THEOREM LedgerTracksFSM ==
  ASSUME "append" \notin Faults
  PROVE  Spec => AuditTracksFSM
<1>1. Init => UpInv /\ TrackInv
  BY DEF Init, UpInv, TrackInv, Heard, Tracks, FsmAt, Running, Undoing
<1>2. TypeOK /\ UpInv /\ [Next]_vars => UpInv'
  BY UpStep
<1>3. TypeOK /\ UpInv /\ TrackInv /\ [Next]_vars => TrackInv'
  BY TrackStep
<1>4. TypeOK /\ TrackInv /\ [Next]_vars =>
        [\A c \in Call : ProcOf[c] \in open /\ pc'[c] # pc[c] => Followed(c)']_vars
  BY TrackLeaves
<1> QED
  BY <1>1, <1>2, <1>3, <1>4, TypeCorrect, PTL DEF Spec, AuditTracksFSM

-----------------------------------------------------------------------------
\* A call that damping counts, or is about to count, has COMMITTED as its last
\* ledger record.
Audited(c) ==
  (pc[c] = "record" \/ c \in recorded) =>
    trail[c] # <<>> /\ trail[c][Len(trail[c])] = "COMMITTED"

AuditedInv == \A c \in Call : Audited(c)

\* Only RecordExecution, reached with the ledger record written, counts a call.
LEMMA OnlyRecordCounts ==
  ASSUME NEW c \in Call, CallStepOf(c)
  PROVE  recorded' = recorded \/ (pc[c] = "record" /\ recorded' = recorded \cup {c})
<1>1. CASE RecordExecution(c)
  BY <1>1 DEF RecordExecution, Goto
<1>2. CASE ~RecordExecution(c)
  BY <1>2
  DEF CallStepOf, Step, RejectAlert, Receive, ResolveMatched, ResolveUnmatched,
      TryLock, LockFailed, LockEscalate, DampingClear, GateFailed, Refuse,
      PrecheckPassed, Stage, StageFailed, StageEscalate, BeginExecute, Act,
      Postcheck, Pass, CommitJournal, CommitAudit, Fault, Rollback, UndoStart,
      Undo, UndoDone, UndoFail, UndoEscalate, RolledBack, RolledBackEscalate,
      Unlock
<1> QED
  BY <1>1, <1>2

\* Every step keeps counted calls audited, while no append is lost.
LEMMA AuditedStep ==
  ASSUME "append" \notin Faults
  PROVE  IInv /\ OpenInv /\ AuditedInv /\ [Next]_vars => AuditedInv'
<1> SUFFICES ASSUME IInv, OpenInv, AuditedInv, [Next]_vars, NEW d \in Call
             PROVE  Audited(d)'
  BY DEF AuditedInv
<1>1. TypeOK /\ Audited(d) /\ Reported(d)
  BY DEF AuditedInv, IInv, CallInv, CallOK
<1>2. ASSUME NEW c \in Call, CallStepOf(c) PROVE Audited(d)'
  <2>1. PICK from, to, enter, log, write : Move(c, from, to, enter, log, write)
    BY <1>2, StepsAreMoves DEF Moves
  <2>2. recorded' = recorded \/ (pc[c] = "record" /\ recorded' = recorded \cup {c})
    BY <1>2, OnlyRecordCounts
  <2>3. CASE d # c
    BY <1>1, <2>1, <2>2, <2>3, MovesAreLocal DEF Audited
  <2>4. CASE d = c
    <3>1. /\ pc[d] = from /\ pc'[d] = to /\ trail[d] \in Seq(AllStates)
          /\ <<from, to, enter, log, write>> \in MoveTable
      BY <1>1, <2>1, <2>4, MoveTrail DEF Move
    <3>2. IF log = "-" THEN trail'[d] = trail[d]
                       ELSE trail'[d] = Append(trail[d], log)
      <4>1. ProcOf[d] \in open
        BY <2>1, <2>4, <3>1 DEF OpenInv, Running, Move, MoveTable
      <4> QED
        BY <1>1, <2>1, <2>4, <4>1, MoveAppends
    <3>3. CASE from = "audit"
      <4>1. log = "COMMITTED"
        BY <3>1, <3>3 DEF MoveTable
      <4>2. trail'[d] = Append(trail[d], "COMMITTED") /\ "COMMITTED" \in AllStates
        BY <3>2, <4>1 DEF AllStates
      <4>3. trail'[d] # <<>> /\ trail'[d][Len(trail'[d])] = "COMMITTED"
        BY <3>1, <4>2, Appended
      <4> QED
        BY <4>3 DEF Audited
    <3>4. CASE from \in {"record", "unlock"}
      <4>1. log = "-" /\ to # "record"
        BY <3>1, <3>4 DEF MoveTable
      <4> QED
        BY <1>1, <2>2, <2>4, <3>1, <3>2, <3>4, <4>1 DEF Audited
    <3>5. CASE from \notin {"audit", "record", "unlock"}
      <4>1. to # "record" /\ from \notin {"done", "dead"}
        BY <3>1, <3>5 DEF MoveTable
      <4>2. d \notin recorded'
        BY <1>1, <2>2, <2>4, <3>1, <3>5, <4>1 DEF Reported
      <4> QED
        BY <3>1, <4>1, <4>2 DEF Audited
    <3> QED
      BY <3>3, <3>4, <3>5
  <2> QED
    BY <2>3, <2>4
<1>3. ASSUME NEW p \in Process, Crash(p) PROVE Audited(d)'
  BY <1>1, <1>3 DEF Crash, Audited
<1>4. ASSUME NEW p \in Process, Close(p) \/ Restart(p) PROVE Audited(d)'
  BY <1>1, <1>4 DEF Close, Restart, Audited
<1>5. CASE UNCHANGED vars
  BY <1>1, <1>5 DEF vars, Audited
<1> QED
  BY <1>2, <1>3, <1>4, <1>5 DEF Next, CallStepOf

\* The response "committed, and chained to audit ledger" is true as long as no
\* append fails and no ledger is closed under a call: these two are all that
\* stands between Remediate and its promise.
THEOREM SuccessAuditedWithoutLoss ==
  ASSUME "append" \notin Faults, "close" \notin Faults
  PROVE  Spec => []SuccessIsAudited
<1>1. Init => AuditedInv
  BY DEF Init, AuditedInv, Audited
<1>2. IInv /\ OpenInv /\ AuditedInv /\ [Next]_vars => AuditedInv'
  BY AuditedStep
<1>3. IInv /\ AuditedInv => SuccessIsAudited
  BY DEF IInv, CallInv, CallOK, Reported, ResultTrue, AuditedInv, Audited,
         SuccessIsAudited
<1> QED
  BY <1>1, <1>2, <1>3, Invariance, OpenInvariance, PTL DEF Spec

=============================================================================
