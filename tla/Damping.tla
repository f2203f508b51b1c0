------------------------------ MODULE Damping -------------------------------
(***************************************************************************)
(* The flapping circuit breaker of internal/damping/damping.go and its     *)
(* callers: Remediate's check (CanExecute), the run it admits, and the     *)
(* record it leaves (RecordExecution) when the run succeeds; the           *)
(* damping-status command, a process of its own that also calls            *)
(* CanExecute; the persisted state file, which a save rewrites whole or,   *)
(* its error discarded, leaves as it was, and which is read only at        *)
(* start-up.                                                               *)
(*                                                                         *)
(* Each process keeps the states map in memory.  A process that ends and   *)
(* the next one that opens the same file are one process that restarts.    *)
(* A save is a write to a temporary file and a rename, so that a process   *)
(* that dies in it has saved or has not; two processes that write the same *)
(* temporary file at once are left out.  The map's missing entry and an    *)
(* entry with nothing in it behave alike and are both Fresh.  Reasons are  *)
(* dropped.                                                                *)
(***************************************************************************)
EXTENDS Integers, FiniteSets

CONSTANTS
  Worker,      \* Remediate calls, each repeated for ever
  Process,     \* processes with a Controller on the state file
  ProcOf,      \* the process of a worker
  DampFaults,  \* {"save"} when saveLocked may fail
  Key,         \* damping keys: the TargetResource of the matched runbook
  KeyOf,       \* the key a worker's alert leads to
  Lock,        \* advisory locks
  LockOf,      \* the lock a worker takes: that of its alert's ResourceID
  MaxExecutions10Min, MaxExecutions1Hour,
  DefaultCooldown, DefaultQuarantineDuration, Window10Min, Window1Hour,
  Retention,   \* 24 hours
  Durations,   \* quarantine durations an operator may ask Trip for
  Watched,     \* keys whose runs are counted in the history runs
  MaxIncidents, \* bound on incidents, for model checking
  MaxTime,     \* bound on the clock, for model checking
  MaxRecords   \* bound on the recorded executions, for model checking

ASSUME DampingAssumption ==
  /\ ProcOf \in [Worker -> Process]
  /\ KeyOf \in [Worker -> Key]
  /\ LockOf \in [Worker -> Lock]
  /\ MaxExecutions10Min \in Nat \ {0}
  /\ MaxExecutions1Hour \in Nat \ {0}
  /\ DefaultCooldown \in Nat \ {0}
  /\ DefaultQuarantineDuration \in Nat
  /\ Window10Min \in Nat
  /\ Window1Hour \in Nat
  /\ Retention \in Nat
  /\ Durations \subseteq Nat
  /\ DefaultCooldown < Retention
  /\ Window10Min < Retention
  /\ Window1Hour < Retention
  /\ MaxTime \in Nat
  /\ MaxRecords \in Nat
  /\ MaxIncidents \in Nat
  /\ DampFaults \subseteq {"save"}

VARIABLES
  now,     \* the clock, in ticks
  mem,     \* Controller.states of each process
  file,    \* the state file
  pc,      \* where each worker is
  stamp,   \* the time RecordExecution read, before it took the mutex
  seq,     \* executions recorded so far, in any process
  ran,     \* per key, the executions recorded since the last Reset
  runs,    \* per key, when the runs of the last ten minutes ended
  forgot,  \* history: keys of which a restart loaded other executions than the
           \* process had, and which have not been reset since
  incidents  \* saves that failed and damping-status commands so far

dampVars == <<now, mem, file, pc, stamp, seq, ran, runs, forgot, incidents>>

\* Processes that remediate; the others are damping-status commands.
Remediator == {ProcOf[w] : w \in Worker}

-----------------------------------------------------------------------------
\* An element of ResourceState.Executions: its time, and its place in the order
\* of the appends.
Execution == [n : Nat, t : Nat]

ResourceState == [execs : SUBSET Execution, tripped : BOOLEAN, until : Nat]

Fresh == [execs |-> {}, tripped |-> FALSE, until |-> 0]

Latest(E) == CHOOSE e \in E : \A f \in E : f.n <= e.n

Recent(E, t, w) == {e \in E : t - e.t <= w}

\* Seeded defect, of Cooling: the oldest execution is taken for the latest.
CoolingOldest(E, t) ==
  /\ E # {}
  /\ t - (CHOOSE e \in E : \A f \in E : f.n >= e.n).t < DefaultCooldown

\* The three rate equations; the first that fails trips the breaker.
Cooling(E, t) == E # {} /\ t - Latest(E).t < DefaultCooldown

\* Seeded defect, of Breach: the 10-minute count is compared with >, not >=.
BreachOffByOne(E, t) ==
  \/ Cooling(E, t)
  \/ Cardinality(Recent(E, t, Window10Min)) > MaxExecutions10Min
  \/ Cardinality(Recent(E, t, Window1Hour)) >= MaxExecutions1Hour

Breach(E, t) ==
  \/ Cooling(E, t)
  \/ Cardinality(Recent(E, t, Window10Min)) >= MaxExecutions10Min
  \/ Cardinality(Recent(E, t, Window1Hour)) >= MaxExecutions1Hour

Quarantined(st, t) == st.tripped /\ t < st.until

\* Seeded defect, of tripLocked: the quarantine is counted backwards.
tripLockedBackwards(st, t, d) ==
  [st EXCEPT !.tripped = TRUE, !.until = t - d]

tripLocked(st, t, d) == [st EXCEPT !.tripped = TRUE, !.until = t + d]

Cleared(st) == [st EXCEPT !.tripped = FALSE, !.until = 0]

\* CanExecute's answer, and the entry it leaves behind (saved when it changed).
Allows(st, t) == ~Quarantined(st, t) /\ ~Breach(st.execs, t)

Evaluated(st, t) ==
  CASE Quarantined(st, t) -> st
    [] ~Quarantined(st, t) /\ Breach(st.execs, t) ->
         tripLocked(st, t, DefaultQuarantineDuration)
    [] OTHER -> Cleared(st)

\* The map entry after RecordExecutionAt appended e and pruned.
Recorded(st, e) ==
  [st EXCEPT !.execs = {x \in @ \cup {e} : x.t > e.t - Retention}]

Incident == incidents < MaxIncidents /\ incidents' = incidents + 1

\* saveLocked of process p's map, under the mutex that the assignment of it holds.
\* Its callers discard its error.
saveLocked(p) ==
  \/ file' = mem'[p] /\ UNCHANGED incidents
  \/ "save" \in DampFaults /\ UNCHANGED file /\ Incident

Assign(p, k, st) ==
  /\ mem' = [mem EXCEPT ![p][k] = st]
  /\ saveLocked(p)

\* CanExecute saves when it trips the breaker or clears an expired quarantine.
AssignChanged(p, k, st) ==
  \/ st # mem[p][k] /\ Assign(p, k, st)
  \/ st = mem[p][k] /\ UNCHANGED <<mem, file, incidents>>

DampInit ==
  /\ now = 0
  /\ file = [k \in Key |-> Fresh]
  /\ mem = [p \in Process |-> file]
  /\ pc = [w \in Worker |-> "idle"]
  /\ stamp = [w \in Worker |-> 0]
  /\ seq = 0
  /\ ran = [k \in Key |-> {}]
  /\ runs = [k \in Key |-> {}]
  /\ forgot = {}
  /\ incidents = 0

-----------------------------------------------------------------------------
Tick ==
  /\ now < MaxTime
  /\ now' = now + 1
  /\ UNCHANGED <<mem, file, pc, stamp, seq, ran, runs, forgot, incidents>>

Busy == {"gate", "run", "record"}

\* Remediate takes the advisory lock of the alert's resource.
TryLock(w) ==
  /\ pc[w] = "idle"
  /\ \A v \in Worker : LockOf[v] = LockOf[w] => pc[v] \notin Busy
  /\ pc' = [pc EXCEPT ![w] = "gate"]
  /\ UNCHANGED <<now, mem, file, stamp, seq, ran, runs, forgot, incidents>>

\* CanExecute on the runbook's target; a refused call returns and unlocks.
CanExecute(w) ==
  LET p == ProcOf[w]
      k == KeyOf[w]
      st == mem[p][k]
  IN
  /\ pc[w] = "gate"
  /\ AssignChanged(p, k, Evaluated(st, now))
  /\ pc' = [pc EXCEPT ![w] = IF Allows(st, now) THEN "run" ELSE "idle"]
  /\ UNCHANGED <<now, stamp, seq, ran, runs, forgot>>

\* The runbook's actions have run on the key, well or badly.
Ran(k) ==
  runs' = IF k \in Watched
          THEN [runs EXCEPT ![k] = {t \in @ : now - t <= Window10Min} \cup {now}]
          ELSE runs

\* One of the preconditions failed: nothing was run.
PrecheckFailed(w) ==
  /\ pc[w] = "run"
  /\ pc' = [pc EXCEPT ![w] = "idle"]
  /\ UNCHANGED <<now, mem, file, stamp, seq, ran, runs, forgot, incidents>>

\* The run committed: RecordExecution reads the clock outside the mutex.
Succeed(w) ==
  /\ pc[w] = "run"
  /\ pc' = [pc EXCEPT ![w] = "record"]
  /\ stamp' = [stamp EXCEPT ![w] = now]
  /\ Ran(KeyOf[w])
  /\ UNCHANGED <<now, mem, file, seq, ran, forgot, incidents>>

\* The run was rolled back or escalated: RecordExecution is not called.
Fail(w) ==
  /\ pc[w] = "run"
  /\ pc' = [pc EXCEPT ![w] = "idle"]
  /\ Ran(KeyOf[w])
  /\ UNCHANGED <<now, mem, file, stamp, seq, ran, forgot, incidents>>

\* RecordExecutionAt under the mutex; then Remediate returns and unlocks.
RecordExecutionAt(w) ==
  LET p == ProcOf[w]
      k == KeyOf[w]
      e == [n |-> seq, t |-> stamp[w]]
  IN
  /\ pc[w] = "record"
  /\ seq < MaxRecords
  /\ Assign(p, k, Recorded(mem[p][k], e))
  /\ seq' = seq + 1
  /\ ran' = [ran EXCEPT ![k] = @ \cup {e}]
  /\ pc' = [pc EXCEPT ![w] = "idle"]
  /\ stamp' = [stamp EXCEPT ![w] = 0]
  /\ UNCHANGED <<now, runs, forgot>>

\* remediation-ctl damping-status, which loaded the file when it started, asks
\* CanExecute about a tracked resource and so may save its map over a newer one.
DampingStatus(p, k) ==
  /\ p \notin Remediator
  /\ AssignChanged(p, k, Evaluated(mem[p][k], now))
  /\ UNCHANGED <<now, pc, stamp, seq, ran, runs, forgot>>

\* Controller.Trip and Reset, the operator's API; no command calls them yet.  Trip
\* is for some quarantine duration (a non-positive one means the default, so
\* Durations holds what comes out of that).
Trip(p, k) ==
  /\ p \in Remediator
  /\ \E d \in Durations :
       Assign(p, k, tripLocked(mem[p][k], now, d))
  /\ UNCHANGED <<now, pc, stamp, seq, ran, runs, forgot>>

Reset(p, k) ==
  /\ p \in Remediator
  /\ Assign(p, k, Fresh)
  /\ ran' = [ran EXCEPT ![k] = {}]
  /\ runs' = [runs EXCEPT ![k] = {}]
  /\ forgot' = forgot \ {k}
  /\ UNCHANGED <<now, pc, stamp, seq>>

\* The process dies, at any point of its calls, and the next one loads the file.
Restart(p) ==
  /\ p \in Remediator
  /\ mem' = [mem EXCEPT ![p] = file]
  /\ forgot' = forgot \cup {k \in Key : file[k].execs # mem[p][k].execs}
  /\ pc' = [w \in Worker |-> IF ProcOf[w] = p THEN "idle" ELSE pc[w]]
  /\ stamp' = [w \in Worker |-> IF ProcOf[w] = p THEN 0 ELSE stamp[w]]
  /\ UNCHANGED <<now, file, seq, ran, runs, incidents>>

\* Another damping-status command starts.
StatusLoad(p) ==
  /\ p \notin Remediator
  /\ mem' = [mem EXCEPT ![p] = file]
  /\ Incident
  /\ UNCHANGED <<now, file, pc, stamp, seq, ran, runs, forgot>>

DampNext ==
  \/ Tick
  \/ \E w \in Worker : TryLock(w) \/ CanExecute(w) \/ PrecheckFailed(w)
                         \/ Succeed(w) \/ Fail(w) \/ RecordExecutionAt(w)
  \/ \E p \in Process, k \in Key : DampingStatus(p, k) \/ Trip(p, k)
                                     \/ Reset(p, k)
  \/ \E p \in Process : Restart(p) \/ StatusLoad(p)

DampSpec == DampInit /\ [][DampNext]_dampVars

-----------------------------------------------------------------------------
DampTypeOK ==
  /\ now \in Nat
  /\ mem \in [Process -> [Key -> ResourceState]]
  /\ file \in [Key -> ResourceState]
  /\ pc \in [Worker -> Busy \cup {"idle"}]
  /\ stamp \in [Worker -> Nat]
  /\ seq \in Nat
  /\ ran \in [Key -> SUBSET Execution]
  /\ runs \in [Key -> SUBSET Nat]
  /\ forgot \subseteq Key
  /\ incidents \in Nat

\* The executions of E in the window of length w that ends at t.
Window(E, t, w) == {e \in E : e.t <= t /\ t - e.t <= w}

\* "<= 2 runs per 10 minutes, <= 4 runs per hour": with one process that remediates
\* (a second one keeps a history of its own) and one lock per target, no window of
\* that length holds more recorded executions of one target, whatever trips,
\* expiries, resets, failed saves and overwritten files there are, and across
\* restarts, until one loads another history of the target than the process that
\* died had.  The code does not prevent that: it takes a save that failed, or a map
\* that damping-status saved over a newer one.
ExecRate ==
  \A k \in Key \ forgot : \A e \in ran[k] :
    /\ Cardinality(Window(ran[k], e.t, Window10Min)) <= MaxExecutions10Min
    /\ Cardinality(Window(ran[k], e.t, Window1Hour)) <= MaxExecutions1Hour

\* "300s cooldown": consecutive executions of one target are that far apart, on the
\* same conditions.
CooldownKept ==
  \A k \in Key \ forgot : \A e, f \in ran[k] :
    e.n < f.n => f.t - e.t >= DefaultCooldown

\* "<= 2 runs per 10 minutes ... prevents runaway restart loops": the same bound
\* on the runs of a target's actions, whether or not they succeed.
RunRate ==
  \A k \in Key : \A t \in runs[k] :
    Cardinality({u \in runs[k] : u <= t /\ t - u <= Window10Min})
      <= MaxExecutions10Min

=============================================================================
