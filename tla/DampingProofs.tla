--------------------------- MODULE DampingProofs ----------------------------
(***************************************************************************)
(* The rate limits of Damping, proved for any clock bound, any windows and *)
(* limits and any number of workers, damping-status commands and failed    *)
(* saves, under two conditions the code does not enforce: calls that reach *)
(* the same damping key take the same advisory lock, and one process at a  *)
(* time remediates with the state file.                                    *)
(***************************************************************************)
EXTENDS Damping, FiniteSetTheorems, TLAPS

\* Remediate locks the alert's resource but damps the runbook's target: the two
\* agree when no alert names a runbook of another target.
SerialKeys ==
  \A v, w \in Worker : KeyOf[v] = KeyOf[w] => LockOf[v] = LockOf[w]

OneRemediator == \A p, q \in Remediator : p = q

Exclusive ==
  \A v, w \in Worker :
    v # w /\ LockOf[v] = LockOf[w] /\ pc[v] \in Busy => pc[w] \notin Busy

\* The log of a key: finite, in the past, numbered without repetition.
Logged ==
  \A k \in Key :
    /\ IsFiniteSet(ran[k])
    /\ \A e \in ran[k] : e.t <= now /\ e.n < seq
    /\ \A e, f \in ran[k] : e.n = f.n => e = f

\* Unless a restart lost some of it, the map in memory holds the log but for what
\* was pruned, and its last append.  The file may be older, or someone else's.
Kept ==
  \A p \in Remediator, k \in Key \ forgot :
    /\ mem[p][k].execs \subseteq ran[k]
    /\ \A e \in ran[k] \ mem[p][k].execs : e.t + Retention <= now
    /\ mem[p][k].execs # {} =>
         \E e \in mem[p][k].execs : \A f \in mem[p][k].execs : f.n <= e.n

\* The time an admitted worker will record.
Moment(w) == IF pc[w] = "record" THEN stamp[w] ELSE now

\* Room for one more execution of log R at time m.
Room(R, m) ==
  /\ \A e \in R : m - e.t >= DefaultCooldown
  /\ Cardinality(Recent(R, m, Window10Min)) < MaxExecutions10Min
  /\ Cardinality(Recent(R, m, Window1Hour)) < MaxExecutions1Hour

\* What CanExecute found when it admitted a worker is still true when it records.
Admitted ==
  \A w \in Worker : pc[w] \in {"run", "record"} =>
    /\ Moment(w) <= now
    /\ KeyOf[w] \notin forgot => Room(ran[KeyOf[w]], Moment(w))

DampInv ==
  DampTypeOK /\ Exclusive /\ Logged /\ Kept /\ Admitted /\ ExecRate /\ CooldownKept

-----------------------------------------------------------------------------
\* Sets of executions are sets of records with natural times.
LEMMA RecentFinite ==
  ASSUME NEW R \in SUBSET Execution, IsFiniteSet(R), NEW m, NEW w
  PROVE  /\ IsFiniteSet(Recent(R, m, w))
         /\ Cardinality(Recent(R, m, w)) \in Nat
<1>1. Recent(R, m, w) \subseteq R
  BY DEF Recent
<1> QED
  BY <1>1, FS_Subset, FS_CardinalityType

\* As time passes a log only gains room.
LEMMA RoomGrows ==
  ASSUME NEW R \in SUBSET Execution, IsFiniteSet(R),
         NEW m \in Nat, NEW m2 \in Nat, m <= m2, Room(R, m)
  PROVE  Room(R, m2)
<1> USE DampingAssumption
<1>1. \A e \in R : e.t \in Nat
  BY DEF Execution
<1>2. \A e \in R : m2 - e.t >= DefaultCooldown
  BY <1>1 DEF Room
<1>3. ASSUME NEW w \in Nat, NEW max \in Nat,
             Cardinality(Recent(R, m, w)) < max
      PROVE  Cardinality(Recent(R, m2, w)) < max
  <2>1. Recent(R, m2, w) \subseteq Recent(R, m, w)
    BY <1>1 DEF Recent
  <2>2. Cardinality(Recent(R, m2, w)) <= Cardinality(Recent(R, m, w))
    BY <2>1, RecentFinite, FS_Subset
  <2> QED
    BY <1>3, <2>2, RecentFinite
<1> QED
  BY <1>2, <1>3 DEF Room

\* An empty log has room.
LEMMA RoomEmpty ==
  ASSUME NEW m \in Nat PROVE Room({}, m)
<1>1. Recent({}, m, Window10Min) = {} /\ Recent({}, m, Window1Hour) = {}
  BY DEF Recent
<1>2. Cardinality({}) = 0
  BY FS_EmptySet
<1> QED
  BY <1>1, <1>2, DampingAssumption DEF Room

\* An execution added to a log that has room keeps the rate and the cooldown: a
\* window that ends at it holds at most what was recent, and itself; a window
\* that ends earlier does not reach it.
LEMMA AddedInWindow ==
  ASSUME NEW R \in SUBSET Execution, IsFiniteSet(R), NEW e \in Execution,
         NEW w \in Nat, NEW max \in Nat,
         \A f \in R : f.t < e.t,
         Cardinality(Recent(R, e.t, w)) < max,
         \A f \in R : Cardinality(Window(R, f.t, w)) <= max
  PROVE  \A f \in R \cup {e} : Cardinality(Window(R \cup {e}, f.t, w)) <= max
<1> DEFINE R2 == R \cup {e}
<1>1. \A f \in R2 : f.t \in Nat
  BY DEF Execution
<1>2. ASSUME NEW f \in R PROVE Cardinality(Window(R2, f.t, w)) <= max
  <2>1. Window(R2, f.t, w) = Window(R, f.t, w)
    BY <1>1 DEF Window
  <2> QED
    BY <2>1
<1>3. Cardinality(Window(R2, e.t, w)) <= max
  <2> DEFINE S == Recent(R, e.t, w)
  <2>1. IsFiniteSet(S) /\ Cardinality(S) \in Nat
    BY RecentFinite, <1>1
  <2>2. Window(R2, e.t, w) \subseteq S \cup {e}
    BY <1>1 DEF Window, Recent
  <2>3. /\ IsFiniteSet(S \cup {e})
        /\ Cardinality(S \cup {e}) <= Cardinality(S) + 1
    <3> HIDE DEF S
    <3>1. /\ IsFiniteSet(S \cup {e})
          /\ \/ Cardinality(S \cup {e}) = Cardinality(S)
             \/ Cardinality(S \cup {e}) = Cardinality(S) + 1
      BY <2>1, FS_AddElement, Zenon
    <3> QED
      BY <2>1, <3>1
  <2>4. Cardinality(Window(R2, e.t, w)) <= Cardinality(S \cup {e})
    <3> HIDE DEF S, R2
    <3> QED
      BY <2>2, <2>3, FS_Subset
  <2>5. Cardinality(Window(R2, e.t, w)) \in Nat /\ Cardinality(S \cup {e}) \in Nat
    <3> HIDE DEF S, R2
    <3> QED
      BY <2>2, <2>3, FS_Subset, FS_CardinalityType
  <2> QED
    BY <2>1, <2>3, <2>4, <2>5
<1> QED
  BY <1>2, <1>3

-----------------------------------------------------------------------------
\* What is assigned to a resource is a ResourceState.
LEMMA EntryTypes ==
  ASSUME NEW st \in ResourceState, NEW t \in Nat
  PROVE  /\ \A d \in Nat : tripLocked(st, t, d) \in ResourceState
         /\ Evaluated(st, t) \in ResourceState
         /\ \A e \in Execution : Recorded(st, e) \in ResourceState
         /\ Fresh \in ResourceState
<1>1. ASSUME NEW d \in Nat PROVE tripLocked(st, t, d) \in ResourceState
  <2> DEFINE u == t + d
  <2>1. u \in Nat
    OBVIOUS
  <2> HIDE DEF u
  <2>2. [st EXCEPT !.tripped = TRUE, !.until = u] \in ResourceState
    BY <2>1 DEF ResourceState
  <2> QED
    BY <2>2 DEF tripLocked, u
<1>2. Cleared(st) \in ResourceState
  BY DEF Cleared, ResourceState
<1>3. Evaluated(st, t) \in ResourceState
  BY <1>1, <1>2, DampingAssumption DEF Evaluated
<1>4. \A e \in Execution : Recorded(st, e) \in ResourceState
  BY DEF Recorded, ResourceState
<1>5. Fresh \in ResourceState
  BY DEF Fresh, ResourceState
<1> QED
  BY <1>1, <1>3, <1>4, <1>5

\* CanExecute leaves the execution history alone.
LEMMA EvaluatedExecs ==
  ASSUME NEW st \in ResourceState, NEW t
  PROVE  Evaluated(st, t).execs = st.execs
  BY DEF Evaluated, tripLocked, Cleared, ResourceState

\* A remediating process is one of the processes.
LEMMA RemediatorType == Remediator \subseteq Process
  BY DampingAssumption DEF Remediator

\* An assignment changes one entry of one process's map; the file is some map.
LEMMA AssignEffect ==
  ASSUME DampTypeOK, NEW p \in Process, NEW k \in Key,
         NEW st \in ResourceState, Assign(p, k, st) \/ AssignChanged(p, k, st)
  PROVE  /\ mem' \in [Process -> [Key -> ResourceState]]
         /\ file' \in [Key -> ResourceState]
         /\ incidents' \in Nat
         /\ mem'[p][k] = st
         /\ \A q \in Process, j \in Key :
              q # p \/ j # k => mem'[q][j] = mem[q][j]
<1>1. CASE Assign(p, k, st)
  <2>1. mem' = [mem EXCEPT ![p] = [mem[p] EXCEPT ![k] = st]]
    BY <1>1 DEF Assign, DampTypeOK
  <2>2. mem' \in [Process -> [Key -> ResourceState]]
    BY <2>1 DEF DampTypeOK
  <2>3. file' \in [Key -> ResourceState] /\ incidents' \in Nat
    BY <1>1, <2>2 DEF Assign, saveLocked, Incident, DampTypeOK
  <2> QED
    BY <2>1, <2>2, <2>3 DEF DampTypeOK
<1>2. CASE st = mem[p][k] /\ UNCHANGED <<mem, file, incidents>>
  BY <1>2 DEF DampTypeOK
<1> QED
  BY <1>1, <1>2 DEF AssignChanged

\* An assignment that keeps the executions of its entry, with the log as it was,
\* keeps what is said of the log.
LEMMA SameHistory ==
  ASSUME DampInv, NEW p \in Process, NEW k \in Key,
         NEW st \in ResourceState, Assign(p, k, st) \/ AssignChanged(p, k, st),
         st.execs = mem[p][k].execs, UNCHANGED <<now, seq, ran, forgot>>
  PROVE  Logged' /\ Kept' /\ ExecRate' /\ CooldownKept'
<1>1. DampTypeOK /\ Logged /\ Kept /\ ExecRate /\ CooldownKept
  BY DEF DampInv
<1>2. /\ mem'[p][k] = st
      /\ \A q \in Process, j \in Key : q # p \/ j # k => mem'[q][j] = mem[q][j]
  BY <1>1, AssignEffect
<1>3. \A q \in Process, j \in Key : mem'[q][j].execs = mem[q][j].execs
  BY <1>2
<1>4. Kept'
  BY <1>1, <1>3, RemediatorType DEF Kept
<1>5. Logged' /\ ExecRate' /\ CooldownKept'
  BY <1>1 DEF Logged, ExecRate, CooldownKept
<1> QED
  BY <1>4, <1>5

\* Workers that stop, or are left alone, keep the mutual exclusion and what they
\* were admitted on.
LEMMA WorkersRest ==
  ASSUME DampTypeOK, Exclusive, Admitted,
         \A w \in Worker : pc'[w] \in {pc[w], "idle"},
         \A w \in Worker : pc'[w] # "idle" => stamp'[w] = stamp[w],
         UNCHANGED <<now, ran>>, forgot \subseteq forgot'
  PROVE  Exclusive' /\ Admitted'
<1>1. Exclusive'
  BY DEF Exclusive, Busy
<1>2. Admitted'
  BY DEF Admitted, Moment
<1> QED
  BY <1>1, <1>2

\* The passing of time keeps the invariant.
LEMMA TickStep ==
  ASSUME DampInv, Tick PROVE DampInv'
<1>1. DampTypeOK /\ Exclusive /\ Logged /\ Kept /\ Admitted
  BY DEF DampInv
<1>2. DampTypeOK'
  BY <1>1 DEF DampTypeOK, Tick
<1>3. Exclusive'
  BY <1>1 DEF Tick, Exclusive
<1>4. Logged' /\ Kept'
  <2>1. \A k \in Key : \A e \in ran[k] : e.t \in Nat
    BY <1>1 DEF DampTypeOK, Execution
  <2>2. now' = now + 1 /\ now \in Nat /\ UNCHANGED <<ran, seq, mem, forgot>>
    BY <1>1 DEF Tick, DampTypeOK
  <2>3. Logged'
    BY <1>1, <2>1, <2>2 DEF Logged
  <2>4. Kept'
    BY <1>1, <2>1, <2>2, DampingAssumption DEF Kept
  <2> QED
    BY <2>3, <2>4
<1>5. Admitted'
  <2> SUFFICES ASSUME NEW w \in Worker, pc[w] \in {"run", "record"}
               PROVE  /\ Moment(w)' <= now'
                      /\ KeyOf[w] \notin forgot => Room(ran[KeyOf[w]], Moment(w)')
    BY DEF Admitted, Tick
  <2>1. /\ Moment(w) <= now
        /\ KeyOf[w] \notin forgot => Room(ran[KeyOf[w]], Moment(w))
    BY <1>1 DEF Admitted
  <2>2. /\ Moment(w) \in Nat /\ Moment(w)' \in Nat
        /\ Moment(w) <= Moment(w)' /\ Moment(w)' <= now'
    BY <1>1, <2>1 DEF Moment, Tick, DampTypeOK
  <2>3. ran[KeyOf[w]] \in SUBSET Execution /\ IsFiniteSet(ran[KeyOf[w]])
    BY <1>1, DampingAssumption DEF DampTypeOK, Logged
  <2> QED
    BY <2>1, <2>2, <2>3, RoomGrows
<1>6. ExecRate' /\ CooldownKept'
  BY DEF DampInv, Tick, ExecRate, CooldownKept
<1> QED
  BY <1>2, <1>3, <1>4, <1>5, <1>6 DEF DampInv

\* A log whose recent part, as the process has it, is below the limits has room.
LEMMA ClearHasRoom ==
  ASSUME DampInv, NEW p \in Remediator, NEW k \in Key \ forgot,
         ~Breach(mem[p][k].execs, now)
  PROVE  Room(ran[k], now)
<1> USE DampingAssumption
<1> DEFINE E == mem[p][k].execs
           R == ran[k]
<1>1. /\ R \in SUBSET Execution /\ IsFiniteSet(R) /\ E \subseteq R
      /\ now \in Nat
  BY DEF DampInv, DampTypeOK, Logged, Kept
<1>2. \A e \in R : e.t \in Nat /\ e.n \in Nat
  BY <1>1 DEF Execution
<1>3. \A e \in R \ E : e.t + Retention <= now
  BY DEF DampInv, Kept
<1>4. ASSUME NEW w \in Nat, w < Retention
      PROVE  Recent(R, now, w) = Recent(E, now, w)
  <2> HIDE DEF R, E
  <2> QED
    BY <1>1, <1>2, <1>3, <1>4 DEF Recent
<1>5. \A w \in Nat : Cardinality(Recent(R, now, w)) \in Nat
  BY <1>1, RecentFinite
<1>6. /\ Cardinality(Recent(R, now, Window10Min)) < MaxExecutions10Min
      /\ Cardinality(Recent(R, now, Window1Hour)) < MaxExecutions1Hour
  <2>1. /\ ~(Cardinality(Recent(E, now, Window10Min)) >= MaxExecutions10Min)
        /\ ~(Cardinality(Recent(E, now, Window1Hour)) >= MaxExecutions1Hour)
    BY DEF Breach
  <2>2. /\ Recent(R, now, Window10Min) = Recent(E, now, Window10Min)
        /\ Recent(R, now, Window1Hour) = Recent(E, now, Window1Hour)
    BY <1>4
  <2> HIDE DEF R, E
  <2> QED
    BY <1>5, <2>1, <2>2
<1>7. ASSUME NEW e \in R PROVE now - e.t >= DefaultCooldown
  <2>1. CASE e \notin E
    <3> HIDE DEF R, E
    <3> QED
      BY <1>1, <1>2, <1>3, <1>7, <2>1
  <2>2. CASE e \in E
    <3> DEFINE l == Latest(E)
    <3>1. l \in E /\ \A f \in E : f.n <= l.n
      <4>1. \E x \in E : \A f \in E : f.n <= x.n
        BY <2>2 DEF DampInv, Kept
      <4> HIDE DEF E
      <4> QED
        BY <4>1 DEF Latest
    <3>2. now - l.t >= DefaultCooldown
      <4>1. ~(now - l.t < DefaultCooldown)
        BY <2>2 DEF Breach, Cooling
      <4>2. l.t \in Nat
        BY <1>1, <1>2, <3>1
      <4> HIDE DEF l
      <4> QED
        BY <1>1, <4>1, <4>2
    <3>3. e.t <= l.t
      <4>1. CASE e.n = l.n
        <5>1. e = l
          BY <1>1, <2>2, <3>1, <4>1 DEF DampInv, Logged
        <5> QED
          BY <1>2, <5>1
      <4>2. CASE e.n # l.n
        <5>1. e.n < l.n
          BY <1>1, <1>2, <2>2, <3>1, <4>2
        <5>2. l.t - e.t >= DefaultCooldown
          BY <1>1, <2>2, <3>1, <5>1 DEF DampInv, CooldownKept
        <5> HIDE DEF l
        <5> QED
          BY <1>1, <1>2, <2>2, <3>1, <5>2
      <4> QED
        BY <4>1, <4>2
    <3> HIDE DEF l
    <3> QED
      BY <1>1, <1>2, <2>2, <3>1, <3>2, <3>3
  <2> QED
    BY <2>1, <2>2
<1> QED
  BY <1>6, <1>7 DEF Room

-----------------------------------------------------------------------------
\* A worker that takes the lock keeps the invariant.
LEMMA TryLockStep ==
  ASSUME DampInv, NEW w \in Worker, TryLock(w) PROVE DampInv'
<1>1. DampTypeOK /\ Exclusive /\ Admitted
  BY DEF DampInv
<1>2. DampTypeOK'
  BY <1>1 DEF DampTypeOK, TryLock, Busy
<1>3. Exclusive'
  BY <1>1 DEF Exclusive, TryLock, DampTypeOK
<1>4. Admitted'
  BY <1>1 DEF Admitted, TryLock, DampTypeOK, Moment
<1>5. Logged' /\ Kept' /\ ExecRate' /\ CooldownKept'
  BY DEF DampInv, TryLock, Logged, Kept, ExecRate, CooldownKept
<1> QED
  BY <1>2, <1>3, <1>4, <1>5 DEF DampInv

\* An admission or a refusal by the gate keeps the invariant.
LEMMA CanExecuteStep ==
  ASSUME DampInv, NEW w \in Worker, CanExecute(w) PROVE DampInv'
<1> USE DampingAssumption
<1> DEFINE p == ProcOf[w]
           k == KeyOf[w]
           st == mem[p][k]
<1>1. DampTypeOK /\ Exclusive /\ Admitted /\ Logged
  BY DEF DampInv
<1>2. p \in Process /\ p \in Remediator /\ k \in Key /\ st \in ResourceState
  BY <1>1 DEF DampTypeOK, Remediator
<1>4. now \in Nat /\ Evaluated(st, now) \in ResourceState
  BY <1>1, <1>2, EntryTypes DEF DampTypeOK
<1>3. /\ AssignChanged(p, k, Evaluated(st, now))
      /\ UNCHANGED <<now, stamp, seq, ran, runs, forgot>>
  BY DEF CanExecute
<1>5. Evaluated(st, now).execs = st.execs
  BY <1>2, EvaluatedExecs
<1>6. Logged' /\ Kept' /\ ExecRate' /\ CooldownKept'
  BY <1>2, <1>3, <1>4, <1>5, SameHistory
<1>7. /\ mem' \in [Process -> [Key -> ResourceState]]
      /\ file' \in [Key -> ResourceState]
      /\ incidents' \in Nat
  BY <1>1, <1>2, <1>3, <1>4, AssignEffect
<1>8. CASE Allows(st, now) /\ pc' = [pc EXCEPT ![w] = "run"]
  <2>1. DampTypeOK'
    BY <1>1, <1>2, <1>3, <1>4, <1>7, <1>8 DEF DampTypeOK, Busy
  <2>2. Exclusive'
    BY <1>1, <1>8 DEF Exclusive, DampTypeOK, CanExecute, Busy
  <2>3. k \notin forgot => Room(ran[k], now)
    BY <1>2, <1>8, ClearHasRoom DEF Allows
  <2>4. Admitted'
    <3> SUFFICES ASSUME NEW v \in Worker, pc'[v] \in {"run", "record"}
                 PROVE  /\ Moment(v)' <= now'
                        /\ KeyOf[v] \notin forgot =>
                             Room(ran[KeyOf[v]], Moment(v)')
      BY <1>3 DEF Admitted
    <3>1. CASE v = w
      BY <1>1, <1>3, <1>4, <1>8, <2>3, <3>1 DEF Moment, DampTypeOK
    <3>2. CASE v # w
      BY <1>1, <1>3, <1>8, <3>2 DEF Moment, DampTypeOK, Admitted
    <3> QED
      BY <3>1, <3>2
  <2> QED
    BY <1>6, <2>1, <2>2, <2>4 DEF DampInv
<1>9. CASE pc' = [pc EXCEPT ![w] = "idle"]
  <2>1. DampTypeOK'
    BY <1>1, <1>3, <1>7, <1>9 DEF DampTypeOK
  <2>2. Exclusive' /\ Admitted'
    BY <1>1, <1>3, <1>9, WorkersRest DEF DampTypeOK
  <2> QED
    BY <1>6, <2>1, <2>2 DEF DampInv
<1> QED
  BY <1>2, <1>8, <1>9 DEF CanExecute

\* Noting a run keeps the type of the run times.
LEMMA RanType ==
  ASSUME DampTypeOK, NEW w \in Worker, Ran(KeyOf[w])
  PROVE  runs' \in [Key -> SUBSET Nat]
<1>1. KeyOf[w] \in Key /\ now \in Nat /\ runs \in [Key -> SUBSET Nat]
  BY DampingAssumption DEF DampTypeOK
<1> QED
  BY <1>1 DEF Ran

\* The end of the actions keeps the invariant.
LEMMA SucceedStep ==
  ASSUME DampInv, NEW w \in Worker, Succeed(w) PROVE DampInv'
<1>1. DampTypeOK /\ Exclusive /\ Admitted
  BY DEF DampInv
<1>2. DampTypeOK'
  <2>1. runs' \in [Key -> SUBSET Nat]
    BY <1>1, RanType DEF Succeed, DampTypeOK
  <2> QED
    BY <1>1, <2>1 DEF DampTypeOK, Succeed, Busy
<1>3. Exclusive'
  BY <1>1 DEF Exclusive, Succeed, DampTypeOK, Busy
<1>4. Admitted'
  BY <1>1 DEF Admitted, Succeed, DampTypeOK, Moment
<1>5. Logged' /\ Kept' /\ ExecRate' /\ CooldownKept'
  BY DEF DampInv, Succeed, Logged, Kept, ExecRate, CooldownKept
<1> QED
  BY <1>2, <1>3, <1>4, <1>5 DEF DampInv

\* A run that is refused or fails keeps the invariant.
LEMMA FailStep ==
  ASSUME DampInv, NEW w \in Worker, PrecheckFailed(w) \/ Fail(w) PROVE DampInv'
<1>1. DampTypeOK /\ Exclusive /\ Admitted
  BY DEF DampInv
<1>2. DampTypeOK'
  <2>1. runs' \in [Key -> SUBSET Nat]
    BY <1>1, RanType DEF PrecheckFailed, Fail, DampTypeOK
  <2> QED
    BY <1>1, <2>1 DEF DampTypeOK, PrecheckFailed, Fail
<1>3. Exclusive' /\ Admitted'
  BY <1>1, WorkersRest DEF PrecheckFailed, Fail, DampTypeOK
<1>4. Logged' /\ Kept' /\ ExecRate' /\ CooldownKept'
  BY DEF DampInv, PrecheckFailed, Fail, Logged, Kept, ExecRate,
         CooldownKept
<1> QED
  BY <1>2, <1>3, <1>4 DEF DampInv

\* The heart of the argument: between its check and its record a worker is alone
\* on its key, so the room the check found is still there.
LEMMA RecordStep ==
  ASSUME DampInv, OneRemediator, SerialKeys, NEW w \in Worker, RecordExecutionAt(w)
  PROVE  DampInv'
<1> USE DampingAssumption
<1> DEFINE p == ProcOf[w]
           k == KeyOf[w]
           e == [n |-> seq, t |-> stamp[w]]
           st == mem[p][k]
           R == ran[k]
<1>1. /\ DampTypeOK /\ Exclusive /\ Logged /\ Kept /\ Admitted
      /\ ExecRate /\ CooldownKept
  BY DEF DampInv
<1>2. p \in Process /\ p \in Remediator /\ k \in Key /\ st \in ResourceState
  BY <1>1 DEF DampTypeOK, Remediator
<1>3. e \in Execution /\ e.t = stamp[w] /\ e.n = seq /\ seq \in Nat /\ now \in Nat
  BY <1>1 DEF DampTypeOK, Execution
<1>4. /\ Assign(p, k, Recorded(st, e))
      /\ pc[w] = "record" /\ pc' = [pc EXCEPT ![w] = "idle"]
      /\ stamp' = [stamp EXCEPT ![w] = 0]
      /\ seq' = seq + 1 /\ ran' = [ran EXCEPT ![k] = R \cup {e}]
      /\ UNCHANGED <<now, runs, forgot>>
  BY <1>2 DEF RecordExecutionAt
<1>5. /\ mem' \in [Process -> [Key -> ResourceState]]
      /\ file' \in [Key -> ResourceState]
      /\ incidents' \in Nat
      /\ mem'[p][k] = Recorded(st, e)
      /\ \A q \in Process, j \in Key : q # p \/ j # k => mem'[q][j] = mem[q][j]
  BY <1>1, <1>2, <1>3, <1>4, AssignEffect, EntryTypes
<1>6. /\ R \in SUBSET Execution /\ IsFiniteSet(R)
      /\ \A f \in R : f.t \in Nat /\ f.n \in Nat /\ f.t <= now /\ f.n < seq
  BY <1>1, <1>2 DEF DampTypeOK, Logged, Execution
<1>7. stamp[w] <= now /\ (k \notin forgot => Room(R, stamp[w]))
  BY <1>1, <1>4 DEF Admitted, Moment
<1>8. ASSUME k \notin forgot
      PROVE  \A f \in R : f.t < e.t /\ e.t - f.t >= DefaultCooldown
  <2>1. \A f \in R : e.t - f.t >= DefaultCooldown
    BY <1>3, <1>7, <1>8 DEF Room
  <2> HIDE DEF e, R
  <2> QED
    BY <1>3, <1>6, <2>1 DEF Execution
<1>9. ran'[k] = R \cup {e} /\ \A j \in Key \ {k} : ran'[j] = ran[j]
  BY <1>1, <1>2, <1>4 DEF DampTypeOK
<1> HIDE DEF e, R
<1>10. DampTypeOK'
  <2>1. ran' \in [Key -> SUBSET Execution]
    BY <1>1, <1>2, <1>3, <1>4, <1>6 DEF DampTypeOK
  <2>2. seq' \in Nat
    BY <1>3, <1>4
  <2> QED
    BY <1>1, <1>4, <1>5, <2>1, <2>2 DEF DampTypeOK
<1>11. Logged'
  <2>1. IsFiniteSet(R \cup {e})
    BY <1>6, FS_AddElement
  <2>2. \A f \in R \cup {e} : f.t <= now' /\ f.n < seq'
    BY <1>3, <1>4, <1>6, <1>7
  <2>3. \A f, g \in R : f.n = g.n => f = g
    BY <1>1, <1>2 DEF Logged, R
  <2>4. \A f, g \in R \cup {e} : f.n = g.n => f = g
    BY <1>3, <1>6, <2>3
  <2>5. ASSUME NEW j \in Key, j # k
        PROVE  /\ IsFiniteSet(ran[j])
               /\ \A f \in ran[j] : f.t <= now' /\ f.n < seq'
               /\ \A f, g \in ran[j] : f.n = g.n => f = g
    <3>1. \A f \in ran[j] : f.n \in Nat
      BY <1>1 DEF DampTypeOK, Execution
    <3> QED
      BY <1>1, <1>3, <1>4, <3>1 DEF Logged
  <2> QED
    BY <1>9, <2>1, <2>2, <2>4, <2>5 DEF Logged
<1>12. Kept'
  <2> DEFINE E == st.execs
             E2 == {x \in E \cup {e} : x.t > e.t - Retention}
  <2>1. mem'[p][k].execs = E2
    BY <1>1, <1>2, <1>5 DEF DampTypeOK, Recorded, ResourceState
  <2>2. ASSUME k \notin forgot
        PROVE  E \subseteq R /\ \A x \in R \ E : x.t + Retention <= now
    BY <1>1, <1>2, <2>2 DEF Kept, R
  <2>4. e \in E2
    BY <1>3 DEF Execution
  <2> HIDE DEF E
  <2>5. ASSUME k \notin forgot
        PROVE  /\ E2 \subseteq R \cup {e}
               /\ \A x \in (R \cup {e}) \ E2 : x.t + Retention <= now'
               /\ \A x \in E2 : x.n <= e.n
    BY <1>3, <1>4, <1>6, <1>7, <2>2, <2>4, <2>5 DEF Execution
  <2> HIDE DEF E2
  <2>8. ASSUME NEW q \in Remediator, NEW j \in Key \ forgot
        PROVE  /\ mem'[q][j].execs \subseteq ran'[j]
               /\ \A x \in ran'[j] \ mem'[q][j].execs : x.t + Retention <= now'
               /\ mem'[q][j].execs # {} =>
                    \E x \in mem'[q][j].execs :
                      \A y \in mem'[q][j].execs : y.n <= x.n
    <3>1. CASE j = k
      <4>1. q = p
        BY <1>2 DEF OneRemediator
      <4> QED
        BY <1>9, <2>1, <2>4, <2>5, <3>1, <4>1
    <3>2. CASE j # k
      BY <1>1, <1>4, <1>5, <1>9, <3>2, RemediatorType DEF Kept
    <3> QED
      BY <3>1, <3>2
  <2> QED
    BY <1>4, <2>8 DEF Kept
<1>13. Exclusive'
  BY <1>1, <1>4 DEF Exclusive, DampTypeOK, Busy
<1>14. Admitted'
  <2> SUFFICES ASSUME NEW v \in Worker, pc'[v] \in {"run", "record"}
               PROVE  /\ Moment(v)' <= now'
                      /\ KeyOf[v] \notin forgot =>
                           Room(ran'[KeyOf[v]], Moment(v)')
    BY <1>4 DEF Admitted
  <2>1. v # w /\ pc[v] \in {"run", "record"} /\ stamp'[v] = stamp[v]
    BY <1>1, <1>4 DEF DampTypeOK
  <2>2. KeyOf[v] # k
    BY <1>1, <1>4, <2>1 DEF SerialKeys, Exclusive, Busy
  <2>3. ran'[KeyOf[v]] = ran[KeyOf[v]]
    BY <1>9, <2>2
  <2>4. Moment(v)' = Moment(v)
    BY <1>1, <1>4, <2>1 DEF Moment, DampTypeOK
  <2> QED
    BY <1>1, <1>4, <2>1, <2>3, <2>4 DEF Admitted
<1>15. ExecRate'
  <2>1. ASSUME k \notin forgot, NEW f \in R \cup {e}
        PROVE  /\ Cardinality(Window(R \cup {e}, f.t, Window10Min))
                    <= MaxExecutions10Min
               /\ Cardinality(Window(R \cup {e}, f.t, Window1Hour))
                    <= MaxExecutions1Hour
    <3>1. /\ Cardinality(Recent(R, e.t, Window10Min)) < MaxExecutions10Min
          /\ Cardinality(Recent(R, e.t, Window1Hour)) < MaxExecutions1Hour
      BY <1>3, <1>7, <2>1 DEF Room
    <3>2. \A g \in R :
            /\ Cardinality(Window(R, g.t, Window10Min)) <= MaxExecutions10Min
            /\ Cardinality(Window(R, g.t, Window1Hour)) <= MaxExecutions1Hour
      BY <1>1, <1>2, <2>1 DEF ExecRate, R
    <3> QED
      BY <1>3, <1>6, <1>8, <2>1, <3>1, <3>2, AddedInWindow
  <2> QED
    BY <1>1, <1>4, <1>9, <2>1 DEF ExecRate
<1>16. CooldownKept'
  <2>1. ASSUME k \notin forgot
        PROVE  \A f, g \in R \cup {e} : f.n < g.n => g.t - f.t >= DefaultCooldown
    <3>1. \A f, g \in R : f.n < g.n => g.t - f.t >= DefaultCooldown
      BY <1>1, <1>2, <2>1 DEF CooldownKept, R
    <3> QED
      BY <1>3, <1>6, <1>8, <2>1, <3>1
  <2> QED
    BY <1>1, <1>4, <1>9, <2>1 DEF CooldownKept
<1> QED
  BY <1>5, <1>10, <1>11, <1>12, <1>13, <1>14, <1>15, <1>16 DEF DampInv

\* DampingStatus and Trip: an entry changes, its history does not.
LEMMA OperatorStep ==
  ASSUME DampInv, NEW p \in Process, NEW k \in Key,
         DampingStatus(p, k) \/ Trip(p, k)
  PROVE  DampInv'
<1> DEFINE st == mem[p][k]
<1>1. DampTypeOK /\ Exclusive /\ Admitted
  BY DEF DampInv
<1>2. st \in ResourceState /\ now \in Nat
  BY <1>1 DEF DampTypeOK
<1>3. UNCHANGED <<now, pc, stamp, seq, ran, runs, forgot>>
  BY DEF DampingStatus, Trip
<1>4. PICK s2 \in ResourceState :
        s2.execs = st.execs /\ (Assign(p, k, s2) \/ AssignChanged(p, k, s2))
  <2>1. CASE DampingStatus(p, k)
    <3>1. /\ Evaluated(st, now) \in ResourceState
          /\ Evaluated(st, now).execs = st.execs
      BY <1>2, EntryTypes, EvaluatedExecs
    <3> QED
      BY <2>1, <3>1 DEF DampingStatus
  <2>2. CASE Trip(p, k)
    <3>1. PICK d \in Durations : Assign(p, k, tripLocked(st, now, d))
      BY <2>2 DEF Trip
    <3>2. d \in Nat
      BY DampingAssumption
    <3>3. tripLocked(st, now, d) \in ResourceState
      BY <1>2, <3>2, EntryTypes
    <3>4. tripLocked(st, now, d).execs = st.execs
      BY <1>2 DEF tripLocked, ResourceState
    <3> QED
      BY <3>1, <3>3, <3>4
  <2> QED
    BY <2>1, <2>2
<1>5. Logged' /\ Kept' /\ ExecRate' /\ CooldownKept'
  BY <1>3, <1>4, SameHistory
<1>6. DampTypeOK'
  BY <1>1, <1>3, <1>4, AssignEffect DEF DampTypeOK
<1>7. Exclusive' /\ Admitted'
  BY <1>1, <1>3, WorkersRest
<1> QED
  BY <1>5, <1>6, <1>7 DEF DampInv

\* Clearing a resource keeps the invariant.
LEMMA ResetStep ==
  ASSUME DampInv, OneRemediator, NEW p \in Process, NEW k \in Key, Reset(p, k)
  PROVE  DampInv'
<1>1. /\ DampTypeOK /\ Exclusive /\ Logged /\ Kept /\ Admitted
      /\ ExecRate /\ CooldownKept
  BY DEF DampInv
<1>2. Fresh \in ResourceState /\ Fresh.execs = {}
  BY DEF Fresh, ResourceState
<1>3. /\ Assign(p, k, Fresh) /\ p \in Remediator /\ forgot' = forgot \ {k}
      /\ UNCHANGED <<now, pc, stamp, seq>>
  BY DEF Reset
<1>4. /\ mem' \in [Process -> [Key -> ResourceState]]
      /\ file' \in [Key -> ResourceState]
      /\ incidents' \in Nat
      /\ mem'[p][k] = Fresh
      /\ \A q \in Process, j \in Key : q # p \/ j # k => mem'[q][j] = mem[q][j]
  BY <1>1, <1>2, <1>3, AssignEffect
<1>5. ran'[k] = {} /\ \A j \in Key \ {k} : ran'[j] = ran[j]
  BY <1>1 DEF Reset, DampTypeOK
<1>6. /\ \A q \in Remediator : mem'[q][k].execs = {}
      /\ \A q \in Remediator, j \in Key \ {k} : mem'[q][j] = mem[q][j]
  BY <1>2, <1>3, <1>4, RemediatorType DEF OneRemediator
<1>7. DampTypeOK'
  BY <1>1, <1>3, <1>4 DEF DampTypeOK, Reset
<1>8. Logged'
  BY <1>1, <1>3, <1>5, FS_EmptySet DEF Logged
<1>9. Kept'
  BY <1>1, <1>3, <1>5, <1>6 DEF Kept
<1>10. ExecRate' /\ CooldownKept'
  <2>1. ASSUME NEW j \in Key \ forgot'
        PROVE  ran'[j] = {} \/ (j \notin forgot /\ ran'[j] = ran[j])
    BY <1>3, <1>5
  <2>2. ExecRate'
    BY <1>1, <1>3, <2>1 DEF ExecRate
  <2>3. CooldownKept'
    BY <1>1, <1>3, <2>1 DEF CooldownKept
  <2> QED
    BY <2>2, <2>3
<1>11. Exclusive'
  BY <1>1, <1>3 DEF Exclusive
<1>12. Admitted'
  <2> SUFFICES ASSUME NEW v \in Worker, pc[v] \in {"run", "record"}
               PROVE  /\ Moment(v) <= now
                      /\ KeyOf[v] \notin forgot' =>
                           Room(ran'[KeyOf[v]], Moment(v))
    BY <1>3 DEF Admitted, Moment
  <2>1. /\ Moment(v) <= now /\ Moment(v) \in Nat
        /\ KeyOf[v] \notin forgot => Room(ran[KeyOf[v]], Moment(v))
    BY <1>1 DEF Admitted, Moment, DampTypeOK
  <2>2. KeyOf[v] \in Key
    BY DampingAssumption
  <2> QED
    BY <1>3, <1>5, <2>1, <2>2, RoomEmpty
<1> QED
  BY <1>4, <1>7, <1>8, <1>9, <1>10, <1>11, <1>12 DEF DampInv

\* The next process finds in the file what the last one had in memory, or the key
\* counts as forgotten.
LEMMA RestartStep ==
  ASSUME DampInv, NEW p \in Process, Restart(p) PROVE DampInv'
<1>1. DampTypeOK /\ Exclusive /\ Admitted /\ Kept
  BY DEF DampInv
<1>2. /\ mem' = [mem EXCEPT ![p] = file] /\ UNCHANGED <<now, ran, seq>>
      /\ forgot' = forgot \cup {k \in Key : file[k].execs # mem[p][k].execs}
  BY DEF Restart
<1>3. DampTypeOK'
  BY <1>1 DEF Restart, DampTypeOK
<1>4. Exclusive' /\ Admitted'
  BY <1>1, WorkersRest DEF Restart, DampTypeOK
<1>5. \A q \in Process, k \in Key \ forgot' : mem'[q][k].execs = mem[q][k].execs
  BY <1>1, <1>2 DEF DampTypeOK
<1>6. Kept'
  BY <1>1, <1>2, <1>5, RemediatorType DEF Kept
<1>7. Logged' /\ ExecRate' /\ CooldownKept'
  BY <1>2 DEF DampInv, Logged, ExecRate, CooldownKept
<1> QED
  BY <1>3, <1>4, <1>6, <1>7 DEF DampInv

\* A damping-status command loads the file and leaves the remediating process be.
LEMMA StatusLoadStep ==
  ASSUME DampInv, NEW p \in Process, StatusLoad(p) PROVE DampInv'
<1>1. DampTypeOK /\ Exclusive /\ Admitted /\ Kept
  BY DEF DampInv
<1>2. /\ mem' = [mem EXCEPT ![p] = file] /\ p \notin Remediator
      /\ UNCHANGED <<now, pc, stamp, ran, seq, forgot>>
  BY DEF StatusLoad
<1>3. DampTypeOK'
  BY <1>1 DEF StatusLoad, Incident, DampTypeOK
<1>4. Exclusive' /\ Admitted'
  BY <1>1, <1>2, WorkersRest
<1>5. \A q \in Remediator : mem'[q] = mem[q]
  BY <1>1, <1>2, RemediatorType DEF DampTypeOK
<1>6. Kept'
  BY <1>1, <1>2, <1>5 DEF Kept
<1>7. Logged' /\ ExecRate' /\ CooldownKept'
  BY <1>2 DEF DampInv, Logged, ExecRate, CooldownKept
<1> QED
  BY <1>3, <1>4, <1>6, <1>7 DEF DampInv

-----------------------------------------------------------------------------
\* The invariant holds of an empty history.
LEMMA InitDampInv == DampInit => DampInv
<1> SUFFICES ASSUME DampInit PROVE DampInv
  OBVIOUS
<1>1. DampTypeOK
  BY DEF DampInit, DampTypeOK, Fresh, ResourceState
<1>2. Exclusive /\ Admitted
  BY DEF DampInit, Exclusive, Admitted, Busy
<1>4. Logged /\ ExecRate /\ CooldownKept
  BY FS_EmptySet DEF DampInit, Logged, ExecRate, CooldownKept
<1>5. Kept
  BY RemediatorType DEF DampInit, Kept, Fresh
<1> QED
  BY <1>1, <1>2, <1>4, <1>5 DEF DampInv

\* Every step keeps the invariant.
LEMMA NextDampInv ==
  ASSUME OneRemediator, SerialKeys
  PROVE  DampInv /\ [DampNext]_dampVars => DampInv'
<1> SUFFICES ASSUME DampInv, [DampNext]_dampVars PROVE DampInv'
  OBVIOUS
<1>1. CASE Tick
  BY <1>1, TickStep
<1>2. ASSUME NEW w \in Worker,
             TryLock(w) \/ CanExecute(w) \/ PrecheckFailed(w)
               \/ Succeed(w) \/ Fail(w) \/ RecordExecutionAt(w)
      PROVE  DampInv'
  BY <1>2, TryLockStep, CanExecuteStep, SucceedStep, FailStep, RecordStep
<1>3. ASSUME NEW p \in Process, NEW k \in Key,
             DampingStatus(p, k) \/ Trip(p, k) \/ Reset(p, k)
      PROVE  DampInv'
  BY <1>3, OperatorStep, ResetStep
<1>4. ASSUME NEW p \in Process, Restart(p) \/ StatusLoad(p) PROVE DampInv'
  BY <1>4, RestartStep, StatusLoadStep
<1>5. CASE UNCHANGED dampVars
  BY <1>5 DEF dampVars, DampInv, DampTypeOK, Exclusive, Logged, Kept, Admitted,
              Moment, ExecRate, CooldownKept
<1> QED
  BY <1>1, <1>2, <1>3, <1>4, <1>5 DEF DampNext

\* No window of ten minutes holds more than MaxExecutions10Min recorded
\* executions of a target, and no hour more than MaxExecutions1Hour, for any
\* limits, any number of workers, failed saves and damping-status commands, and
\* across every restart that loads the history the process had.
THEOREM RateLimited ==
  ASSUME OneRemediator, SerialKeys
  PROVE  DampSpec => []ExecRate
<1>1. DampInv => ExecRate
  BY DEF DampInv
<1>2. DampInv /\ [DampNext]_dampVars => DampInv'
  BY NextDampInv
<1> QED
  BY <1>1, <1>2, InitDampInv, PTL DEF DampSpec

\* Recorded executions of one target are at least a cooldown apart, likewise.
THEOREM CooledDown ==
  ASSUME OneRemediator, SerialKeys
  PROVE  DampSpec => []CooldownKept
<1>1. DampInv => CooldownKept
  BY DEF DampInv
<1>2. DampInv /\ [DampNext]_dampVars => DampInv'
  BY NextDampInv
<1> QED
  BY <1>1, <1>2, InitDampInv, PTL DEF DampSpec

-----------------------------------------------------------------------------
\* Types need neither hypothesis: several processes that overwrite each other's
\* file and calls that share a key without sharing a lock lose counts, not shape.
THEOREM DampingTypes == DampSpec => []DampTypeOK
<1>1. DampInit => DampTypeOK
  BY InitDampInv DEF DampInv
<1>2. DampTypeOK /\ [DampNext]_dampVars => DampTypeOK'
  <2> SUFFICES ASSUME DampTypeOK, [DampNext]_dampVars PROVE DampTypeOK'
    OBVIOUS
  <2> USE DEF DampTypeOK
  <2>1. CASE Tick \/ UNCHANGED dampVars
    BY <2>1 DEF Tick, dampVars
  <2>2. ASSUME NEW w \in Worker,
               TryLock(w) \/ PrecheckFailed(w) \/ Succeed(w) \/ Fail(w)
        PROVE  DampTypeOK'
    <3>1. KeyOf[w] \in Key
      BY DampingAssumption
    <3>2. Ran(KeyOf[w]) => runs' \in [Key -> SUBSET Nat]
      BY <3>1 DEF Ran
    <3>3. runs' \in [Key -> SUBSET Nat]
      BY <2>2, <3>2 DEF TryLock, PrecheckFailed, Succeed, Fail
    <3> QED
      BY <2>2, <3>3 DEF TryLock, PrecheckFailed, Succeed, Fail, Busy
  <2>3. ASSUME NEW w \in Worker, CanExecute(w) \/ RecordExecutionAt(w)
        PROVE  DampTypeOK'
    <3>1. ProcOf[w] \in Process /\ KeyOf[w] \in Key
      BY DampingAssumption
    <3> DEFINE st == mem[ProcOf[w]][KeyOf[w]]
               e == [n |-> seq, t |-> stamp[w]]
    <3>2. st \in ResourceState /\ e \in Execution
      BY <3>1 DEF Execution
    <3>3. Evaluated(st, now) \in ResourceState /\ Recorded(st, e) \in ResourceState
      BY <3>2, EntryTypes
    <3>4. /\ mem' \in [Process -> [Key -> ResourceState]]
          /\ file' \in [Key -> ResourceState]
          /\ incidents' \in Nat
      BY <2>3, <3>1, <3>3, AssignEffect DEF CanExecute, RecordExecutionAt
    <3>5. ran' \in [Key -> SUBSET Execution]
      BY <2>3, <3>1, <3>2 DEF CanExecute, RecordExecutionAt
    <3>6. pc' \in [Worker -> Busy \cup {"idle"}]
      BY <2>3 DEF CanExecute, RecordExecutionAt, Busy
    <3>7. /\ now' \in Nat /\ stamp' \in [Worker -> Nat] /\ seq' \in Nat
          /\ runs' \in [Key -> SUBSET Nat] /\ forgot' \subseteq Key
      BY <2>3 DEF CanExecute, RecordExecutionAt
    <3> QED
      BY <3>4, <3>5, <3>6, <3>7
  <2>4. ASSUME NEW p \in Process, NEW k \in Key,
               DampingStatus(p, k) \/ Trip(p, k) \/ Reset(p, k)
        PROVE  DampTypeOK'
    <3>1. mem[p][k] \in ResourceState
      OBVIOUS
    <3>2. /\ Evaluated(mem[p][k], now) \in ResourceState
          /\ \A d \in Durations : tripLocked(mem[p][k], now, d) \in ResourceState
          /\ Fresh \in ResourceState
      BY <3>1, EntryTypes, DampingAssumption
    <3>3. /\ mem' \in [Process -> [Key -> ResourceState]]
          /\ file' \in [Key -> ResourceState]
          /\ incidents' \in Nat
      BY <2>4, <3>2, AssignEffect DEF DampingStatus, Trip, Reset
    <3> QED
      BY <2>4, <3>3 DEF DampingStatus, Trip, Reset
  <2>5. ASSUME NEW p \in Process, Restart(p) \/ StatusLoad(p) PROVE DampTypeOK'
    BY <2>5 DEF Restart, StatusLoad, Incident, Busy
  <2> QED
    BY <2>1, <2>2, <2>3, <2>4, <2>5 DEF DampNext
<1> QED
  BY <1>1, <1>2, PTL DEF DampSpec

=============================================================================
