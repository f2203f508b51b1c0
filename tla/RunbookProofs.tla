---------------------------- MODULE RunbookProofs ---------------------------
(***************************************************************************)
(* Proofs about what touches the machine: the executor's commands and the  *)
(* four runbooks of the catalog, each against the environment its own      *)
(* module gives it, for any constants.                                     *)
(***************************************************************************)
EXTENDS MCHost, SocketPathProofs, FiniteSetTheorems, TLAPS

-----------------------------------------------------------------------------
\* Executor.  A timeout is reported after the whole group was killed, and a group
\* without a living member cannot fork.
KilledInv ==
  verdict = "timedOut" =>
    execPC = "returned" /\ child \in {"bad", "killed"} /\ Members = {}

\* Every step keeps the executor's types and what a timeout means.
LEMMA ExecStep ==
  ExecTypeOK /\ KilledInv /\ [ExecNext]_execVars => ExecTypeOK' /\ KilledInv'
<1> SUFFICES ASSUME ExecTypeOK, KilledInv, [ExecNext]_execVars
             PROVE  ExecTypeOK' /\ KilledInv'
  OBVIOUS
<1> USE DEF ExecTypeOK, KilledInv, Members, Holders
<1>1. CASE ExecStart
  BY <1>1 DEF ExecStart
<1>2. CASE ExecDeadline
  BY <1>2 DEF ExecDeadline
<1>3. CASE ExecCancel
  BY <1>3 DEF ExecCancel
<1>4. CASE ExecReturn
  BY <1>4 DEF ExecReturn
<1>5. CASE ChildExit
  BY <1>5 DEF ChildExit
<1>6. ASSUME NEW k \in Kin, KinFork(k) PROVE ExecTypeOK' /\ KilledInv'
  BY <1>6 DEF KinFork
<1>7. ASSUME NEW k \in Kin, KinLeave(k) PROVE ExecTypeOK' /\ KilledInv'
  BY <1>7 DEF KinLeave
<1>8. CASE UNCHANGED execVars
  BY <1>8 DEF execVars
<1> QED
  BY <1>1, <1>2, <1>3, <1>4, <1>5, <1>6, <1>7, <1>8 DEF ExecNext

\* "execution timed out" is the last word on a command, for any number of
\* descendants and however they fork: no process of its group is alive then or
\* ever after.
THEOREM TimeoutIsFinal == ExecSpec => [](ExecTypeOK /\ TimeoutKillsGroup)
<1>1. ExecInit => ExecTypeOK /\ KilledInv
  BY DEF ExecInit, ExecTypeOK, KilledInv
<1>2. ExecTypeOK /\ KilledInv => ExecTypeOK /\ TimeoutKillsGroup
  BY DEF KilledInv, TimeoutKillsGroup
<1> QED
  BY <1>1, <1>2, ExecStep, PTL DEF ExecSpec

-----------------------------------------------------------------------------
\* Configuration rollback.  A run works towards a hash whose content was
\* validated, and from the comparison on the active file has that content,
\* unless it was edited.
ValidatedInv ==
  /\ cfgPC # "idle" => lkgSHA \in WellFormed
  /\ cfgPC = "probe" => config = lkgSHA \/ retouched

\* Every step keeps the types and the validated hash.
LEMMA CfgStep ==
  CfgTypeOK /\ ValidatedInv /\ [CfgNext]_cfgVars => CfgTypeOK' /\ ValidatedInv'
<1> SUFFICES ASSUME CfgTypeOK, ValidatedInv, [CfgNext]_cfgVars
             PROVE  CfgTypeOK' /\ ValidatedInv'
  OBVIOUS
<1> USE CfgAssumption DEF CfgTypeOK, ValidatedInv, CfgGoto
<1>1. CASE CfgPrecheck
  BY <1>1 DEF CfgPrecheck, ValidateConfigSyntax
<1>2. CASE CfgQuarantine
  BY <1>2 DEF CfgQuarantine
<1>3. CASE CfgRead
  BY <1>3 DEF CfgRead
<1>4. CASE CfgSwap
  BY <1>4 DEF CfgSwap
<1>5. CASE CfgActionFails
  BY <1>5 DEF CfgActionFails
<1>6. CASE CfgRestart
  BY <1>6 DEF CfgRestart, Restarted
<1>7. CASE CfgHashCheck \/ CfgProbe
  BY <1>7 DEF CfgHashCheck, CfgProbe
<1>8. CASE CfgEnd
  BY <1>8 DEF CfgEnd, CfgForget
<1>9. CASE CfgCrash
  BY <1>9 DEF CfgCrash, CfgForget
<1>10. CASE Edit \/ Release
  BY <1>10 DEF Edit, Release
<1>11. CASE ServiceTurn
  BY <1>11 DEF ServiceTurn, Restarted
<1>12. CASE UNCHANGED cfgVars
  BY <1>12 DEF cfgVars
<1> QED
  BY <1>1, <1>2, <1>3, <1>4, <1>5, <1>6, <1>7, <1>8, <1>9, <1>10, <1>11, <1>12
  DEF CfgNext

\* The configuration runbook's types and its validated hash, always.
LEMMA CfgInvariance == CfgSpec => [](CfgTypeOK /\ ValidatedInv)
<1>1. CfgInit => CfgTypeOK /\ ValidatedInv
  BY CfgAssumption DEF CfgInit, CfgTypeOK, ValidatedInv
<1> QED
  BY <1>1, CfgStep, PTL DEF CfgSpec

\* Whatever is released, edited or restarted meanwhile, a configuration rollback
\* commits only over the content that passed validation, unless the active file was
\* edited after the hashes were compared, and with a RestartFn only if the service
\* answered the probe.
THEOREM CfgCommitsKnownGood == CfgSpec => CommitIsKnownGood
<1> DEFINE Good ==
      cfgPC # "committed" /\ cfgPC' = "committed" =>
        /\ (config' = lkgSHA /\ lkgSHA \in WellFormed) \/ retouched
        /\ hasRestart => running' # NoConfig
<1>1. CfgTypeOK /\ ValidatedInv /\ [CfgNext]_cfgVars => [Good]_cfgVars
  <2> SUFFICES ASSUME CfgTypeOK, ValidatedInv, CfgNext,
                      cfgPC # "committed", cfgPC' = "committed"
               PROVE  /\ (config' = lkgSHA /\ lkgSHA \in WellFormed) \/ retouched
                      /\ hasRestart => running' # NoConfig
    OBVIOUS
  <2>1. CfgProbe
    BY DEF CfgNext, CfgPrecheck, CfgQuarantine, CfgRead, CfgSwap, CfgActionFails,
           CfgRestart, CfgHashCheck, CfgEnd, CfgCrash, Edit, Release, ServiceTurn,
           CfgGoto
  <2> QED
    BY <2>1 DEF CfgProbe, CfgGoto, ValidatedInv
<1> QED
  BY <1>1, CfgInvariance, PTL DEF CfgSpec, CommitIsKnownGood

-----------------------------------------------------------------------------
\* Hang recovery.  When the replacement is started its predecessor has ended;
\* from then on, unless strangers were about, it is the only service process;
\* and once recorded, closure and pid file name it.
LadderInv ==
  /\ hangPC = "wait" => cur \in Pid
  /\ hangPC = "spawn" => cur \notin Mortal
  /\ hangPC \in {"record", "postAlive", "postHealth"} =>
       cur \in Pid /\ (~strangers => Mortal \subseteq {cur})
  /\ hangPC \in {"postAlive", "postHealth"} => activePID = cur /\ pidfile = cur

\* Processes that end keep the table well typed, and add nobody to it.
LEMMA EndType ==
  ASSUME HangTypeOK, NEW D \in SUBSET Pid, End(D)
  PROVE  /\ ps' \in [Pid -> PsStates]
         /\ port' \in 0..MaxPid
         /\ Mortal' = Mortal \ D
<1>1. ps \in [Pid -> PsStates] /\ port \in 0..MaxPid
  BY DEF HangTypeOK
<1>2. \A p \in Pid : ps'[p] = IF p \notin D THEN ps[p]
                              ELSE IF p \in children THEN "zombie" ELSE "gone"
  BY DEF End
<1>3. DOMAIN ps' = Pid /\ ps' = [p \in Pid |-> ps'[p]]
  BY DEF End
<1>4. ps' \in [Pid -> PsStates]
  BY <1>1, <1>2, <1>3 DEF PsStates
<1>5. port' \in 0..MaxPid
  BY <1>1, HangAssumption DEF End
<1>6. Mortal' = Mortal \ D
  BY <1>2 DEF Mortal
<1> QED
  BY <1>4, <1>5, <1>6

\* No process and the first process are in the range of the pid variables.
LEMMA ZeroOne == 0 \in 0..MaxPid /\ 1 \in 0..MaxPid
  BY HangAssumption

\* Every step keeps the types of the process table.
LEMMA HangTypeStep == HangTypeOK /\ [HangNext]_hangVars => HangTypeOK'
<1> SUFFICES ASSUME HangTypeOK, [HangNext]_hangVars PROVE HangTypeOK'
  OBVIOUS
<1> USE HangAssumption
<1>1. CASE HangPrecheck
  BY <1>1 DEF HangPrecheck, HangTypeOK
<1>2. CASE HangTerm
  <2>1. {activePID} \cap Mortal \in SUBSET Pid
    BY DEF Mortal
  <2> QED
    BY <1>2, <2>1, EndType DEF HangTerm, HangTypeOK
<1>3. CASE HangNoTarget \/ HangTerminated
  BY <1>3 DEF HangNoTarget, HangTerminated, HangTypeOK
<1>4. CASE HangKill
  <2>1. {cur} \cap Mortal \in SUBSET Pid
    BY DEF Mortal
  <2> QED
    BY <1>4, <2>1, EndType DEF HangKill, HangTypeOK
<1>5. CASE HangSpawn
  BY <1>5 DEF HangSpawn, HangTypeOK, PsStates, Pid
<1>6. CASE HangSpawnFails \/ HangRecord
  BY <1>6 DEF HangSpawnFails, HangRecord, HangTypeOK
<1>7. CASE HangPostAlive
  BY <1>7 DEF HangPostAlive, HangTypeOK
<1>8. CASE HangPostHealth \/ HangEnd
  <2>1. {port', pidfile', activePID', cur'} \subseteq 0..MaxPid
    BY <1>8, ZeroOne DEF HangPostHealth, HangEnd, HangTypeOK
  <2> QED
    BY <1>8, <2>1 DEF HangPostHealth, HangEnd, HangTypeOK
<1>9. CASE HangCrash
  <2>1. {port', pidfile', activePID', cur'} \subseteq 0..MaxPid
    BY <1>9, ZeroOne DEF HangCrash, HangTypeOK
  <2>2. ps' \in [Pid -> PsStates]
    BY <1>9 DEF HangCrash, HangTypeOK, PsStates
  <2> QED
    BY <1>9, <2>1, <2>2 DEF HangCrash, HangTypeOK
<1>10. ASSUME NEW p \in Pid, Bind(p) PROVE HangTypeOK'
  <2>1. {p} \in SUBSET Pid
    OBVIOUS
  <2>2. ps' \in [Pid -> PsStates] /\ port' \in 0..MaxPid
    BY <1>10, <2>1, EndType DEF Bind, HangTypeOK, PsStates, Pid
  <2> QED
    BY <1>10, <2>2 DEF Bind, HangTypeOK
<1>11. ASSUME NEW p \in Pid, Hang(p) PROVE HangTypeOK'
  BY <1>11 DEF Hang, HangTypeOK, PsStates
<1>12. ASSUME NEW p \in Pid, Exit(p) PROVE HangTypeOK'
  <2>1. {p} \in SUBSET Pid
    OBVIOUS
  <2> QED
    BY <1>12, <2>1, EndType DEF Exit, HangTypeOK
<1>13. CASE UNCHANGED hangVars
  BY <1>13 DEF hangVars, HangTypeOK
<1> QED
  BY <1>1, <1>2, <1>3, <1>4, <1>5, <1>6, <1>7, <1>8, <1>9, <1>10, <1>11,
     <1>12, <1>13
  DEF HangNext

\* Every step keeps the ladder's promise, while SIGKILL works, the replacement is
\* a process and the pid file can be written.
LEMMA LadderStep ==
  ASSUME HangFaults \cap {"stuck", "mock", "pidfile"} = {}
  PROVE  HangTypeOK /\ LadderInv /\ [HangNext]_hangVars => LadderInv'
<1> SUFFICES ASSUME HangTypeOK, LadderInv, [HangNext]_hangVars PROVE LadderInv'
  OBVIOUS
<1>1. CASE HangPrecheck
  BY <1>1 DEF HangPrecheck, LadderInv
<1>2. CASE HangTerm
  BY <1>2 DEF HangTerm, LadderInv, HangTypeOK, Pid
<1>3. CASE HangNoTarget
  BY <1>3 DEF HangNoTarget, LadderInv, Mortal, Alive, HangTypeOK, Pid
<1>4. CASE HangTerminated
  BY <1>4 DEF HangTerminated, LadderInv, Mortal, Alive
<1>5. CASE HangKill
  <2>1. {cur} \cap Mortal \in SUBSET Pid
    BY DEF Mortal
  <2>2. Mortal' = Mortal \ ({cur} \cap Mortal)
    BY <1>5, <2>1, EndType DEF HangKill
  <2> QED
    BY <1>5, <2>2 DEF HangKill, LadderInv
<1>6. CASE HangSpawn
  <2>1. PICK p \in Pid : ps[p] = "free" /\ cur' = p
                         /\ ps' = [ps EXCEPT ![p] = "starting"]
    BY <1>6 DEF HangSpawn
  <2>2. Mortal' = Mortal \cup {p}
    BY <2>1 DEF Mortal, HangTypeOK
  <2>3. ~strangers' => Mortal = {}
    BY <1>6 DEF HangSpawn, LadderInv
  <2> QED
    BY <1>6, <2>1, <2>2, <2>3 DEF HangSpawn, LadderInv
<1>7. CASE HangSpawnFails
  BY <1>7 DEF HangSpawnFails, LadderInv
<1>8. CASE HangRecord
  BY <1>8 DEF HangRecord, LadderInv, Mortal
<1>9. CASE HangPostAlive
  BY <1>9 DEF HangPostAlive, LadderInv, Mortal
<1>10. CASE HangPostHealth \/ HangEnd
  BY <1>10 DEF HangPostHealth, HangEnd, LadderInv
<1>11. CASE HangCrash
  BY <1>11 DEF HangCrash, LadderInv
<1>12. ASSUME NEW p \in Pid, Bind(p) \/ Hang(p) \/ Exit(p) PROVE LadderInv'
  <2>1. Mortal' \subseteq Mortal
    <3>1. {p} \in SUBSET Pid
      OBVIOUS
    <3>2. CASE Bind(p)
      BY <3>1, <3>2, EndType DEF Bind, Mortal, HangTypeOK
    <3>3. CASE Hang(p)
      BY <3>3 DEF Hang, Mortal, HangTypeOK
    <3>4. CASE Exit(p)
      BY <3>1, <3>4, EndType DEF Exit
    <3> QED
      BY <1>12, <3>2, <3>3, <3>4
  <2>2. UNCHANGED <<hangPC, pidfile, activePID, cur, strangers>>
    BY <1>12 DEF Bind, Hang, Exit
  <2> QED
    BY <2>1, <2>2 DEF LadderInv
<1>13. CASE UNCHANGED hangVars
  BY <1>13 DEF hangVars, LadderInv, Mortal
<1> QED
  BY <1>1, <1>2, <1>3, <1>4, <1>5, <1>6, <1>7, <1>8, <1>9, <1>10, <1>11,
     <1>12, <1>13
  DEF HangNext

\* The process table is well typed, always.
LEMMA HangTypes == HangSpec => []HangTypeOK
<1>1. HangInit => HangTypeOK
  <2> SUFFICES ASSUME HangInit PROVE HangTypeOK
    OBVIOUS
  <2>1. {port, pidfile, activePID, cur} \subseteq 0..MaxPid
    BY ZeroOne DEF HangInit
  <2>2. ps \in [Pid -> PsStates]
    BY DEF HangInit, PsStates
  <2> QED
    BY <2>1, <2>2 DEF HangInit, HangTypeOK
<1> QED
  BY <1>1, HangTypeStep, PTL DEF HangSpec

\* A recovery that commits leaves a pid file that names the process that answers,
\* for any number of runs, crashes, slow starts and zombies, provided that
\* SIGKILL ends its target, the replacement is a process and the pid file can be
\* written, and that no other service process was about.
THEOREM HangCommitNamesServer ==
  ASSUME HangFaults \cap {"stuck", "mock", "pidfile"} = {}
  PROVE  HangSpec => CommitNamesServer
<1>1. HangInit => LadderInv
  BY DEF HangInit, LadderInv
<1>2. HangTypeOK /\ LadderInv /\ [HangNext]_hangVars => LadderInv'
  BY LadderStep
<1>3. HangTypeOK /\ LadderInv /\ [HangNext]_hangVars =>
        [hangPC # "committed" /\ hangPC' = "committed" /\ ~strangers =>
           port' = pidfile' /\ port' = activePID' /\ Healthy']_hangVars
  <2> SUFFICES ASSUME HangTypeOK, LadderInv, HangNext,
                      hangPC # "committed", hangPC' = "committed", ~strangers
               PROVE  port' = pidfile' /\ port' = activePID' /\ Healthy'
    OBVIOUS
  <2>1. HangPostHealth \/ HangPostAlive
    BY DEF HangNext, HangPrecheck, HangTerm, HangNoTarget, HangTerminated,
           HangKill, HangSpawn, HangSpawnFails, HangRecord, HangEnd, HangCrash,
           Bind, Hang, Exit
  <2>2. CASE HangPostHealth
    <3>1. Healthy /\ UNCHANGED <<ps, port, pidfile, activePID>>
      BY <2>2 DEF HangPostHealth
    <3>2. port \in Mortal
      BY <3>1 DEF Healthy, Mortal, HangTypeOK, Pid
    <3>3. port = cur /\ activePID = cur /\ pidfile = cur
      BY <2>2, <3>2 DEF HangPostHealth, LadderInv
    <3> QED
      BY <3>1, <3>3 DEF Healthy
  <2>3. CASE HangPostAlive
    <3>1. activePID \in Pid
      BY <2>3 DEF HangPostAlive, LadderInv
    <3>2. activePID > 0
      BY <3>1, HangAssumption DEF Pid
    <3>3. FALSE
      BY <2>3, <3>2 DEF HangPostAlive, HangTypeOK
    <3> QED
      BY <3>3
  <2> QED
    BY <2>1, <2>2, <2>3
<1> QED
  BY <1>1, <1>2, <1>3, HangTypes, PTL DEF HangSpec, CommitNamesServer

-----------------------------------------------------------------------------
\* Disk cleanup.  The clamps hold when a file is about to be unlinked.
PruneInv ==
  /\ diskPC = "unlink" => todo # <<>> /\ ~Stop(Head(todo))
  /\ bytes > MaxBytes => files = 1
  /\ diskPC \in {"postcheck", "committed"} => bytes <= MaxBytes

DInv == DiskTypeOK /\ PruneInv

Listed == [name : Archive, size : Nat]

\* Entries of the candidate list, and what is left of it.
LEMMA TodoParts ==
  ASSUME DiskTypeOK, todo # <<>>
  PROVE  /\ Head(todo).name \in Archive
         /\ Head(todo).size \in Nat
         /\ Tail(todo) \in Seq(Listed)
<1>1. todo \in Seq(Listed)
  BY DEF DiskTypeOK, Listed
<1>2. Head(todo) \in Listed /\ Tail(todo) \in Seq(Listed)
  BY <1>1
<1> QED
  BY <1>2 DEF Listed

\* The sorted listing is a well-typed candidate list.
LEMMA ListType ==
  ASSUME DiskTypeOK, DiskList
  PROVE  todo' \in Seq(Listed)
<1>1. Archive \in SUBSET Int /\ IsFiniteSet(Archive)
  BY DiskAssumption, FS_Interval DEF Archive
<1>2. Cardinality(Candidates) \in Nat
  BY <1>1, FS_Subset, FS_CardinalityType DEF Candidates
<1>3. PICK order \in [1..Cardinality(Candidates) -> Candidates] :
        todo' = [i \in 1..Cardinality(Candidates) |->
                   [name |-> order[i], size |-> SizeOf[dir[order[i]]]]]
  BY DEF DiskList, Injection
<1>4. \A n \in Candidates : n \in Archive /\ SizeOf[dir[n]] \in Nat
  BY DiskAssumption DEF DiskTypeOK, Candidates, Archive
<1>5. \A i \in 1..Cardinality(Candidates) :
        [name |-> order[i], size |-> SizeOf[dir[order[i]]]] \in Listed
  BY <1>3, <1>4 DEF Listed
<1> QED
  BY <1>2, <1>3, <1>5

\* A run that is over has nothing in hand.
LEMMA ForgetKeeps ==
  ASSUME Forget, diskPC' = "idle", dir' \in [0..NumArchives -> 0..MaxInode],
         nextInode' \in 1..(MaxInode + 1), open' \in Inode,
         activeInode' \in 0..Foreign
  PROVE  DInv'
<1>1. 0 \in 0..MaxInode /\ 0 \in 0..MaxFiles /\ <<>> \in Seq(Listed)
  BY DiskAssumption
<1>2. DiskTypeOK'
  BY <1>1 DEF Forget, DiskTypeOK, Listed
<1>3. PruneInv'
  BY DiskAssumption DEF Forget, PruneInv
<1> QED
  BY <1>2, <1>3 DEF DInv

\* Every step keeps the types and the clamps.
LEMMA DiskStep == DInv /\ [DiskNext]_diskVars => DInv'
<1> SUFFICES ASSUME DiskTypeOK, PruneInv, [DiskNext]_diskVars PROVE DInv'
  BY DEF DInv
<1> USE DEF dirVars
<1>0. /\ MaxInode \in Nat /\ NumArchives \in Nat /\ MaxFiles \in Nat /\ MaxBytes \in Nat
      /\ Foreign = MaxInode + 1 /\ Active \in 0..NumArchives /\ 0 \notin Archive
      /\ Archive \subseteq 0..NumArchives
  BY DiskAssumption DEF Foreign, Active, Archive
<1>1. CASE DiskStat
  <2>1. dir[Active] \in 0..MaxInode
    BY <1>0 DEF DiskTypeOK
  <2>2. activeInode' \in 0..Foreign
    BY <1>0, <1>1, <2>1 DEF DiskStat, DiskTypeOK
  <2> QED
    BY <1>1, <2>2 DEF DiskStat, DInv, DiskTypeOK, PruneInv
<1>2. CASE DiskInspect
  BY <1>2 DEF DiskInspect, DInv, DiskTypeOK, PruneInv
<1>3. CASE DiskList
  BY <1>3, ListType DEF DiskList, DInv, DiskTypeOK, PruneInv, Listed
<1>4. CASE DiskCheck
  <2>1. todo' \in Seq(Listed)
    BY <1>4, TodoParts DEF DiskCheck, DiskTypeOK, Listed
  <2>2. unlinked' \in 0..MaxInode
    BY <1>0, <1>4 DEF DiskCheck
  <2>3. DiskTypeOK'
    BY <1>4, <2>1, <2>2 DEF DiskCheck, DiskTypeOK, Listed
  <2>4. PruneInv'
    BY <1>4 DEF DiskCheck, PruneInv, Stop
  <2> QED
    BY <2>3, <2>4 DEF DInv
<1>5. CASE DiskUnlink
  <2>1. /\ todo # <<>> /\ Head(todo).name \in Archive /\ Head(todo).size \in Nat
        /\ Tail(todo) \in Seq(Listed)
    BY <1>5, TodoParts DEF DiskUnlink, PruneInv
  <2>2. files < MaxFiles /\ (files > 0 => bytes + Head(todo).size <= MaxBytes)
    BY <1>0, <1>5, <2>1 DEF DiskUnlink, PruneInv, Stop, DiskTypeOK
  <2>3. DiskTypeOK'
    <3>1. /\ dir' \in [0..NumArchives -> 0..MaxInode]
          /\ unlinked' \in 0..MaxInode
      <4>1. dir \in [0..NumArchives -> 0..MaxInode] /\ 0 \in 0..MaxInode
        BY <1>0 DEF DiskTypeOK
      <4>2. Head(todo).name \in 0..NumArchives
        BY <1>0, <2>1
      <4>3. /\ dir' = [dir EXCEPT ![Head(todo).name] = 0]
            /\ unlinked' = dir[Head(todo).name]
        BY <1>5 DEF DiskUnlink
      <4> QED
        BY <4>1, <4>2, <4>3
    <3>2. files' \in 0..MaxFiles /\ bytes' \in Nat
      BY <1>0, <1>5, <2>1, <2>2 DEF DiskUnlink, DiskTypeOK
    <3> QED
      BY <1>5, <2>1, <3>1, <3>2 DEF DiskUnlink, DiskTypeOK, Listed
  <2>4. PruneInv'
    BY <1>0, <1>5, <2>1, <2>2 DEF DiskUnlink, PruneInv, DiskTypeOK
  <2> QED
    BY <2>3, <2>4 DEF DInv
<1>6. CASE DiskUnlinkFails
  BY <1>6 DEF DiskUnlinkFails, DInv, DiskTypeOK, PruneInv
<1>7. CASE DiskVerdict
  <2>1. diskPC' = "rolledBack" \/ (diskPC' = "postcheck" /\ bytes <= MaxBytes)
    BY <1>0, <1>7, DiskAssumption DEF DiskVerdict, MutateVerdict, DiskTypeOK
  <2> QED
    BY <1>7, <2>1 DEF DiskVerdict, DInv, DiskTypeOK, PruneInv
<1>8. CASE DiskPostcheck
  BY <1>8 DEF DiskPostcheck, DInv, DiskTypeOK, PruneInv
<1>9. CASE DiskEnd
  BY <1>9, ForgetKeeps DEF DiskEnd, DiskTypeOK
<1>10. CASE DiskCrash
  <2>1. activeInode' \in 0..Foreign
    BY <1>0, <1>10 DEF DiskCrash
  <2> QED
    BY <1>10, <2>1, ForgetKeeps DEF DiskCrash, DiskTypeOK
<1>11. CASE Rotate
  <2>1. dir' \in [0..NumArchives -> 0..MaxInode]
    <3>1. CASE dir' = [n \in 0..NumArchives |-> IF n = 0 THEN 0 ELSE dir[n - 1]]
      <4>1. \A n \in 0..NumArchives : n = 0 \/ n - 1 \in 0..NumArchives
        BY <1>0
      <4> QED
        BY <1>0, <3>1, <4>1 DEF DiskTypeOK
    <3>2. ASSUME NEW n \in Archive,
                 dir' = [dir EXCEPT ![n] = dir[Active], ![Active] = 0]
          PROVE  dir' \in [0..NumArchives -> 0..MaxInode]
      BY <1>0, <3>2 DEF DiskTypeOK
    <3> QED
      BY <1>11, <3>1, <3>2 DEF Rotate
  <2> QED
    BY <1>11, <2>1 DEF Rotate, DInv, DiskTypeOK, PruneInv, Stop
<1>12. CASE Reopen
  <2>1. DiskTypeOK'
    BY <1>0, <1>12 DEF Reopen, DiskTypeOK, Inode
  <2> QED
    BY <1>12, <2>1 DEF Reopen, DInv, PruneInv, Stop
<1>13. CASE OtherStat
  <2>1. activeInode' \in 0..Foreign
    BY <1>0, <1>13 DEF OtherStat
  <2> QED
    BY <1>13, <2>1 DEF OtherStat, DInv, DiskTypeOK, PruneInv, Stop
<1>14. CASE UNCHANGED diskVars
  BY <1>14 DEF diskVars, DInv, DiskTypeOK, PruneInv, Stop
<1> QED
  BY <1>1, <1>2, <1>3, <1>4, <1>5, <1>6, <1>7, <1>8, <1>9, <1>10, <1>11,
     <1>12, <1>13, <1>14
  DEF DiskNext

\* The disk runbook's invariant, for any directory, sizes, clamps and faults.
LEMMA DiskInvariance == DiskSpec => []DInv
<1>1. DiskInit => DInv
  <2> SUFFICES ASSUME DiskInit PROVE DInv
    OBVIOUS
  <2>1. /\ 0 \in 0..MaxInode /\ 0 \in 0..MaxFiles /\ 0 \in 0..Foreign
        /\ FirstInode + 1 \in 1..(MaxInode + 1) /\ FirstInode \in Inode
    BY DiskAssumption DEF Foreign, Inode
  <2>2. dir \in [0..NumArchives -> 0..MaxInode]
    BY DiskAssumption DEF DiskInit
  <2>3. todo \in Seq(Listed)
    BY DEF DiskInit
  <2>4. DiskTypeOK
    BY <2>1, <2>2, <2>3 DEF DiskInit, DiskTypeOK, Listed
  <2>5. PruneInv
    BY DiskAssumption DEF DiskInit, PruneInv
  <2> QED
    BY <2>4, <2>5 DEF DInv
<1> QED
  BY <1>1, DiskStep, PTL DEF DiskSpec

\* A run stays within MaxFilesToDelete and MaxBytesToDelete, or has removed one
\* oversized file and does not commit.
THEOREM DiskHonoursClamp == DiskSpec => []ClampHonoured
<1>1. DInv => ClampHonoured
  BY DiskAssumption DEF DInv, PruneInv, ClampHonoured, DiskTypeOK
<1> QED
  BY <1>1, DiskInvariance, PTL

-----------------------------------------------------------------------------
\* Certificate rotation.  A file operation on one field of a pair of files.
LEMMA FieldType ==
  ASSUME NEW F \in [Pair -> Files], NEW p \in Pair, NEW f \in {"cert", "key"},
         NEW v \in Content
  PROVE  /\ F[p][f] \in Content
         /\ [F EXCEPT ![p][f] = v] \in [Pair -> Files]
<1>1. F[p] \in Files
  OBVIOUS
<1>2. F[p][f] \in Content /\ [F[p] EXCEPT ![f] = v] \in Files
  BY <1>1 DEF Files
<1> QED
  BY <1>2

\* The targets' pairs.
LEMMA PairType ==
  ASSUME NEW t
  PROVE  PairOf(t) \in Pair
  BY DEF PairOf, Pair

\* What the service loads is a certificate, or what it had.
LEMMA LoadedType ==
  ASSUME TLSTypeOK
  PROVE  Loaded \in Serial \cup {Absent}
  BY DEF TLSTypeOK, Loaded, Matches

\* Every step keeps the types of files, closures and runs.
LEMMA TLSTypeStep == TLSTypeOK /\ [TLSNext]_tlsVars => TLSTypeOK'
<1> SUFFICES ASSUME TLSTypeOK, [TLSNext]_tlsVars PROVE TLSTypeOK'
  OBVIOUS
<1> USE TLSAssumption
<1>0. /\ "configured" \in Pair /\ NoFiles \in Files
      /\ staged.cert \in Content /\ staged.key \in Content
      /\ \A u \in TLSTarget : got[u].cert \in Content /\ got[u].key \in Content
  BY DEF Pair, NoFiles, Files, Content, TLSTypeOK
<1>1. ASSUME NEW t \in TLSTarget, TLSPrecheck(t) PROVE TLSTypeOK'
  <2>1. tlsPC' \in [TLSTarget -> TLSPCs]
    BY <1>1 DEF TLSPrecheck, TLSGoto, TLSTypeOK, TLSPCs
  <2>2. fresh' \in [TLSTarget -> BOOLEAN]
    BY <1>1 DEF TLSPrecheck, TLSTypeOK
  <2>3. before' \in [TLSTarget -> Files]
    BY <1>1, PairType DEF TLSPrecheck, TLSTypeOK
  <2>4. stagedSerial' \in Serial
    BY <1>1 DEF TLSPrecheck, Matches
  <2> QED
    BY <1>1, <2>1, <2>2, <2>3, <2>4 DEF TLSPrecheck, TLSTypeOK
<1>2. ASSUME NEW t \in TLSTarget, NEW f \in {"cert", "key"}, SaveTo(t, f)
      PROVE  backup' \in [Pair -> Files] /\ botched' \subseteq TLSTarget
  <2> DEFINE p == PairOf(t)
  <2>1. backup \in [Pair -> Files] /\ active \in [Pair -> Files]
    BY DEF TLSTypeOK
  <2>2. p \in Pair /\ active[p][f] \in Content /\ Torn \in Content
    BY <2>1, PairType DEF Files, Content
  <2>3. /\ [backup EXCEPT ![p][f] = active[p][f]] \in [Pair -> Files]
        /\ [backup EXCEPT ![p][f] = Torn] \in [Pair -> Files]
    BY <2>1, <2>2, FieldType
  <2> QED
    BY <1>2, <2>1, <2>3 DEF SaveTo, TLSTypeOK
<1>3. ASSUME NEW t \in TLSTarget, TLSBackupCert(t) \/ TLSBackupKey(t)
      PROVE  TLSTypeOK'
  <2>1. tlsPC' \in [TLSTarget -> TLSPCs]
    BY <1>3 DEF TLSBackupCert, TLSBackupKey, TLSGoto, TLSTypeOK, TLSPCs
  <2>2. backup' \in [Pair -> Files] /\ botched' \subseteq TLSTarget
    BY <1>2, <1>3 DEF TLSBackupCert, TLSBackupKey
  <2>3. backupOf' \in Pair \cup {NoPair}
    BY <1>3, PairType DEF TLSBackupCert, TLSBackupKey, TLSTypeOK
  <2> QED
    BY <1>3, <2>1, <2>2, <2>3 DEF TLSBackupCert, TLSBackupKey, TLSTypeOK
<1>4. ASSUME NEW t \in TLSTarget, TLSReadCert(t) \/ TLSReadKey(t)
      PROVE  TLSTypeOK'
  <2>1. tlsPC' \in [TLSTarget -> TLSPCs]
    BY <1>4 DEF TLSReadCert, TLSReadKey, TLSGoto, TLSTypeOK, TLSPCs
  <2>2. got' \in [TLSTarget -> Files]
    BY <1>0, <1>4 DEF TLSReadCert, TLSReadKey, TLSTypeOK, Files
  <2> QED
    BY <1>4, <2>1, <2>2 DEF TLSReadCert, TLSReadKey, TLSTypeOK
<1>5. ASSUME NEW t \in TLSTarget, TLSSwapCert(t) \/ TLSSwapKey(t)
      PROVE  TLSTypeOK'
  <2>1. tlsPC' \in [TLSTarget -> TLSPCs]
    BY <1>5 DEF TLSSwapCert, TLSSwapKey, TLSGoto, TLSTypeOK, TLSPCs
  <2>2. active' \in [Pair -> Files]
    BY <1>0, <1>5, PairType, FieldType DEF TLSSwapCert, TLSSwapKey, TLSTypeOK
  <2> QED
    BY <1>5, <2>1, <2>2 DEF TLSSwapCert, TLSSwapKey, TLSTypeOK
<1>6. ASSUME NEW t \in TLSTarget, TLSActionFails(t) \/ TLSPostcheck(t)
      PROVE  TLSTypeOK'
  <2>1. tlsPC' \in [TLSTarget -> TLSPCs]
    BY <1>6 DEF TLSActionFails, TLSPostcheck, TLSGoto, TLSTypeOK, TLSPCs
  <2>2. got' \in [TLSTarget -> Files]
    BY <1>0, <1>6 DEF TLSActionFails, TLSPostcheck, TLSTypeOK
  <2> QED
    BY <1>6, <2>1, <2>2 DEF TLSActionFails, TLSPostcheck, TLSTypeOK
<1>7. ASSUME NEW t \in TLSTarget, TLSReload(t) \/ TLSRestoreReload(t)
      PROVE  TLSTypeOK'
  <2>1. tlsPC' \in [TLSTarget -> TLSPCs]
    BY <1>7 DEF TLSReload, TLSRestoreReload, TLSGoto, TLSTypeOK, TLSPCs
  <2>2. served' \in Serial \cup {Absent}
    BY <1>7, LoadedType DEF TLSReload, TLSRestoreReload, TLSTypeOK
  <2>3. hup' \in BOOLEAN
    BY <1>7 DEF TLSReload, TLSRestoreReload, TLSTypeOK
  <2>4. got' \in [TLSTarget -> Files]
    BY <1>0, <1>7 DEF TLSReload, TLSRestoreReload, TLSTypeOK
  <2> QED
    BY <1>7, <2>1, <2>2, <2>3, <2>4 DEF TLSReload, TLSRestoreReload, TLSTypeOK
<1>8. ASSUME NEW t \in TLSTarget, NEW f \in {"cert", "key"}, Restore(t, f)
      PROVE  active' \in [Pair -> Files] /\ botched' \subseteq TLSTarget
  <2>1. Torn \in Content /\ active \in [Pair -> Files] /\ backup \in [Pair -> Files]
    BY DEF Content, TLSTypeOK
  <2>2. [active EXCEPT !["configured"][f] = Torn] \in [Pair -> Files]
    BY <1>0, <2>1, FieldType
  <2>3. backupOf # NoPair =>
          [active EXCEPT !["configured"][f] = backup[backupOf][f]]
            \in [Pair -> Files]
    BY <1>0, <2>1, FieldType DEF TLSTypeOK
  <2> QED
    BY <1>8, <2>1, <2>2, <2>3 DEF Restore, TLSTypeOK
<1>9. ASSUME NEW t \in TLSTarget, TLSRestoreCert(t) \/ TLSRestoreKey(t)
      PROVE  TLSTypeOK'
  <2>1. tlsPC' \in [TLSTarget -> TLSPCs]
    BY <1>9 DEF TLSRestoreCert, TLSRestoreKey, TLSGoto, TLSTypeOK, TLSPCs
  <2>2. active' \in [Pair -> Files] /\ botched' \subseteq TLSTarget
    BY <1>8, <1>9 DEF TLSRestoreCert, TLSRestoreKey
  <2> QED
    BY <1>9, <2>1, <2>2 DEF TLSRestoreCert, TLSRestoreKey, TLSTypeOK
<1>10. ASSUME NEW t \in TLSTarget, TLSEnd(t) PROVE TLSTypeOK'
  <2>1. tlsPC' \in [TLSTarget -> TLSPCs]
    BY <1>10 DEF TLSEnd, TLSGoto, TLSTypeOK, TLSPCs
  <2>2. fresh' \in [TLSTarget -> BOOLEAN]
    BY <1>10 DEF TLSEnd, TLSTypeOK
  <2> QED
    BY <1>0, <1>10, <2>1, <2>2 DEF TLSEnd, TLSTypeOK
<1>11. CASE TLSCrash
  <2>1. Torn \in Content
    BY DEF Content
  <2>2. active' \in [Pair -> Files] /\ backup' \in [Pair -> Files]
    <3>1. backup \in [Pair -> Files] /\ active \in [Pair -> Files]
      BY DEF TLSTypeOK
    <3>2. CASE UNCHANGED <<active, backup>>
      BY <3>1, <3>2
    <3>3. ASSUME NEW t \in TLSTarget, NEW f \in {"cert", "key"},
                 backup' = [backup EXCEPT ![PairOf(t)][f] = Torn],
                 UNCHANGED active
          PROVE  active' \in [Pair -> Files] /\ backup' \in [Pair -> Files]
      BY <2>1, <3>1, <3>3, PairType, FieldType
    <3>4. ASSUME NEW f \in {"cert", "key"},
                 active' = [active EXCEPT !["configured"][f] = Torn],
                 UNCHANGED backup
          PROVE  active' \in [Pair -> Files] /\ backup' \in [Pair -> Files]
      BY <1>0, <2>1, <3>1, <3>4, FieldType
    <3> QED
      BY <1>11, <3>2, <3>3, <3>4 DEF TLSCrash
  <2>3. tlsPC' \in [TLSTarget -> TLSPCs] /\ fresh' \in [TLSTarget -> BOOLEAN]
    BY <1>11 DEF TLSCrash, TLSPCs
  <2> QED
    BY <1>0, <1>11, <2>2, <2>3 DEF TLSCrash, TLSTypeOK
<1>12. CASE Restage
  <2>1. fresh' \in [TLSTarget -> BOOLEAN]
    BY <1>12 DEF Restage
  <2>2. staged' \in Files
    BY <1>12 DEF Restage, TLSTypeOK, Files, Content
  <2> QED
    BY <1>12, <2>1, <2>2 DEF Restage, TLSTypeOK
<1>13. CASE ServiceReload \/ ServiceStopStart
  <2>1. served' \in Serial \cup {Absent}
    BY <1>13, LoadedType DEF ServiceReload, ServiceStopStart
  <2>2. hup' \in BOOLEAN
    BY <1>13 DEF ServiceReload, ServiceStopStart
  <2> QED
    BY <1>13, <2>1, <2>2 DEF ServiceReload, ServiceStopStart, TLSTypeOK
<1>14. CASE UNCHANGED tlsVars
  BY <1>14 DEF tlsVars, TLSTypeOK
<1> QED
  BY <1>1, <1>3, <1>4, <1>5, <1>6, <1>7, <1>9, <1>10, <1>11, <1>12, <1>13, <1>14
  DEF TLSNext, TLSRun

\* The rotation's types, for any targets, certificates and faults.
LEMMA TLSTypes == TLSSpec => []TLSTypeOK
<1>1. TLSInit => TLSTypeOK
  <2> SUFFICES ASSUME TLSInit PROVE TLSTypeOK
    OBVIOUS
  <2>1. NoFiles \in Files /\ \A s \in Serial : [cert |-> s, key |-> s] \in Files
    BY DEF NoFiles, Files, Content
  <2>2. hup \in BOOLEAN /\ fresh \in [TLSTarget -> BOOLEAN]
    BY DEF TLSInit
  <2> QED
    BY <2>1, <2>2 DEF TLSInit, TLSTypeOK, TLSPCs
<1> QED
  BY <1>1, TLSTypeStep, PTL DEF TLSSpec

\* The places of a run, from a point of the rotation on.
FromSwapKey == {"swapKey", "reload", "postcheck", "committed", "restoreCert"}
FromReadCert == {"readCert", "readKey", "swapCert"} \cup FromSwapKey

Same(f, g) == f.cert = g.cert /\ f.key = g.key

\* What the files hold at each point of a run on the configured pair in which no
\* backup or restore has failed: the pair it found is in place until the first rename,
\* in the backup from the moment it was saved until it is restored, and in place again
\* after that.
Undoable(t) ==
  /\ tlsPC[t] \in {"backupCert", "backupKey", "readCert", "readKey", "swapCert",
                   "restoreReload", "rolledBack"} =>
       Same(active["configured"], before[t])
  /\ tlsPC[t] \in {"backupKey", "restoreKey"} \cup FromReadCert =>
       backupOf = "configured" /\ backup["configured"].cert = before[t].cert
  /\ tlsPC[t] \in {"restoreKey"} \cup FromReadCert =>
       backup["configured"].key = before[t].key
  /\ tlsPC[t] \in {"backupKey", "restoreKey"} \cup FromReadCert =>
       before[t].cert # Absent /\ before[t].key # Absent
  /\ tlsPC[t] = "restoreKey" => active["configured"].cert = before[t].cert

\* What a run has read and is about to rename was there.
Readable(t) ==
  /\ tlsPC[t] \in {"readKey", "swapCert", "swapKey"} => got[t].cert # Absent
  /\ tlsPC[t] \in {"swapCert", "swapKey"} => got[t].key # Absent

RestoreInv ==
  /\ staged.cert \in Serial /\ staged.key \in Serial
  /\ active["configured"].cert # Absent /\ active["configured"].key # Absent
  /\ \A t \in TLSTarget : Readable(t) /\ (t \notin botched => Undoable(t))

\* A run on one target, the configured pair's, is the only one.
Solo == TLSTarget \subseteq {"guardrail-proxy"}

\* Every step keeps the pair a run found within its reach.
LEMMA RestoreStep ==
  ASSUME Solo
  PROVE  TLSTypeOK /\ RestoreInv /\ [TLSNext]_tlsVars => RestoreInv'
<1> SUFFICES ASSUME TLSTypeOK, RestoreInv, [TLSNext]_tlsVars PROVE RestoreInv'
  OBVIOUS
<1> USE TLSAssumption
<1>0. /\ "configured" \in Pair
      /\ active \in [Pair -> Files] /\ backup \in [Pair -> Files]
      /\ got \in [TLSTarget -> Files] /\ before \in [TLSTarget -> Files]
      /\ tlsPC \in [TLSTarget -> TLSPCs]
      /\ \A t \in TLSTarget : PairOf(t) = "configured"
      /\ \A t, u \in TLSTarget : t = u
  BY DEF Pair, TLSTypeOK, PairOf, Solo
<1>1. ASSUME NEW t \in TLSTarget, TLSPrecheck(t) PROVE RestoreInv'
  BY <1>0, <1>1
  DEF TLSPrecheck, TLSGoto, RestoreInv, Undoable, Readable, Same, FromReadCert,
      FromSwapKey
<1>2. ASSUME NEW t \in TLSTarget, TLSBackupCert(t) PROVE RestoreInv'
  BY <1>0, <1>2
  DEF TLSBackupCert, SaveTo, TLSGoto, RestoreInv, Undoable, Readable, Same, FromReadCert,
      FromSwapKey, Files
<1>3. ASSUME NEW t \in TLSTarget, TLSBackupKey(t) PROVE RestoreInv'
  BY <1>0, <1>3
  DEF TLSBackupKey, SaveTo, TLSGoto, RestoreInv, Undoable, Readable, Same, FromReadCert,
      FromSwapKey, Files
<1>4. ASSUME NEW t \in TLSTarget, TLSReadCert(t) \/ TLSReadKey(t)
      PROVE  RestoreInv'
  BY <1>0, <1>4
  DEF TLSReadCert, TLSReadKey, TLSGoto, RestoreInv, Undoable, Readable, Same,
      FromReadCert, FromSwapKey, Files
<1>5. ASSUME NEW t \in TLSTarget, TLSSwapCert(t) PROVE RestoreInv'
  BY <1>0, <1>5
  DEF TLSSwapCert, TLSGoto, RestoreInv, Undoable, Readable, Same, FromReadCert,
      FromSwapKey, Files
<1>6. ASSUME NEW t \in TLSTarget, TLSSwapKey(t) PROVE RestoreInv'
  BY <1>0, <1>6
  DEF TLSSwapKey, TLSGoto, RestoreInv, Undoable, Readable, Same, FromReadCert,
      FromSwapKey, Files
<1>7. ASSUME NEW t \in TLSTarget,
             TLSActionFails(t) \/ TLSReload(t) \/ TLSPostcheck(t)
      PROVE  RestoreInv'
  <2>1. UNCHANGED <<staged, active, backup, backupOf, before, botched>>
    BY <1>7 DEF TLSActionFails, TLSReload, TLSPostcheck
  <2>2. /\ tlsPC[t] \in FromReadCert
        /\ tlsPC'[t] \in {"postcheck", "committed", "restoreCert"}
    BY <1>0, <1>7
    DEF TLSActionFails, TLSReload, TLSPostcheck, TLSGoto, FromReadCert,
        FromSwapKey
  <2> QED
    BY <1>0, <2>1, <2>2
    DEF RestoreInv, Undoable, Readable, FromReadCert, FromSwapKey
<1>8. ASSUME NEW t \in TLSTarget, TLSRestoreCert(t) PROVE RestoreInv'
  <2>1. /\ active'["configured"].cert # Absent /\ active'["configured"].key # Absent
        /\ t \notin botched' =>
             /\ t \notin botched
             /\ active' = IF backupOf # NoPair /\ backup[backupOf].cert # Absent
                            THEN [active EXCEPT !["configured"]["cert"] =
                                    backup[backupOf].cert]
                            ELSE active
    BY <1>0, <1>8 DEF TLSRestoreCert, Restore, RestoreInv, Files
  <2>2. ASSUME t \notin botched' PROVE Undoable(t)'
    <3>1. /\ backupOf = "configured" /\ before[t].cert # Absent
          /\ backup["configured"].cert = before[t].cert
          /\ backup["configured"].key = before[t].key /\ before[t].key # Absent
      BY <1>8, <2>1, <2>2
      DEF TLSRestoreCert, TLSGoto, RestoreInv, Undoable, FromReadCert, FromSwapKey
    <3>2. active' = [active EXCEPT !["configured"]["cert"] = before[t].cert]
      BY <2>1, <2>2, <3>1 DEF NoPair
    <3>3. active'["configured"].cert = before[t].cert
      BY <1>0, <3>2 DEF Files
    <3>4. tlsPC'[t] = "restoreKey" /\ UNCHANGED <<backupOf, backup, before>>
      BY <1>0, <1>8 DEF TLSRestoreCert, TLSGoto
    <3> QED
      BY <3>1, <3>3, <3>4 DEF Undoable, FromReadCert, FromSwapKey
  <2> QED
    BY <1>0, <1>8, <2>1, <2>2 DEF TLSRestoreCert, TLSGoto, RestoreInv, Readable
<1>9. ASSUME NEW t \in TLSTarget, TLSRestoreKey(t) PROVE RestoreInv'
  <2>1. /\ active'["configured"].cert # Absent /\ active'["configured"].key # Absent
        /\ t \notin botched' =>
             /\ t \notin botched
             /\ active' = IF backupOf # NoPair /\ backup[backupOf].key # Absent
                            THEN [active EXCEPT !["configured"]["key"] =
                                    backup[backupOf].key]
                            ELSE active
    BY <1>0, <1>9 DEF TLSRestoreKey, Restore, RestoreInv, Files
  <2>2. ASSUME t \notin botched' PROVE Undoable(t)'
    <3>1. /\ backupOf = "configured" /\ before[t].key # Absent
          /\ backup["configured"].key = before[t].key
          /\ active["configured"].cert = before[t].cert
      BY <1>9, <2>1, <2>2
      DEF TLSRestoreKey, TLSGoto, RestoreInv, Undoable, FromReadCert, FromSwapKey
    <3>2. active' = [active EXCEPT !["configured"]["key"] = before[t].key]
      BY <2>1, <2>2, <3>1 DEF NoPair
    <3>3. /\ active'["configured"].key = before[t].key
          /\ active'["configured"].cert = before[t].cert
      BY <1>0, <3>1, <3>2 DEF Files
    <3>4. tlsPC'[t] = "restoreReload" /\ UNCHANGED before
      BY <1>0, <1>9 DEF TLSRestoreKey, TLSGoto
    <3> QED
      BY <3>3, <3>4 DEF Undoable, Same, FromReadCert, FromSwapKey
  <2> QED
    BY <1>0, <1>9, <2>1, <2>2 DEF TLSRestoreKey, TLSGoto, RestoreInv, Readable
<1>10. ASSUME NEW t \in TLSTarget, TLSRestoreReload(t) PROVE RestoreInv'
  BY <1>0, <1>10
  DEF TLSRestoreReload, TLSGoto, RestoreInv, Undoable, Readable, Same,
      FromReadCert, FromSwapKey
<1>11. ASSUME NEW t \in TLSTarget, TLSEnd(t) PROVE RestoreInv'
  <2>1. tlsPC'[t] = "idle" /\ UNCHANGED <<staged, active>>
    BY <1>0, <1>11 DEF TLSEnd, TLSGoto
  <2> QED
    BY <1>0, <2>1 DEF RestoreInv, Undoable, Readable, FromReadCert, FromSwapKey
<1>12. CASE TLSCrash
  <2>1. active'["configured"].cert # Absent /\ active'["configured"].key # Absent
    BY <1>0, <1>12 DEF TLSCrash, RestoreInv, Files
  <2>2. \A t \in TLSTarget : tlsPC'[t] = "idle"
    BY <1>12 DEF TLSCrash
  <2> QED
    BY <1>12, <2>1, <2>2
    DEF TLSCrash, RestoreInv, Undoable, Readable, FromReadCert, FromSwapKey
<1>13. CASE Restage
  <2>1. staged'.cert \in Serial /\ staged'.key \in Serial
    BY <1>13 DEF Restage, RestoreInv, TLSTypeOK, Files
  <2> QED
    BY <1>13, <2>1 DEF Restage, RestoreInv, Undoable, Readable
<1>14. CASE ServiceReload \/ ServiceStopStart
  BY <1>14 DEF ServiceReload, ServiceStopStart, RestoreInv, Undoable, Readable
<1>15. CASE UNCHANGED tlsVars
  BY <1>15 DEF tlsVars, RestoreInv, Undoable, Readable
<1> QED
  BY <1>1, <1>2, <1>3, <1>4, <1>5, <1>6, <1>7, <1>8, <1>9, <1>10, <1>11, <1>12,
     <1>13, <1>14, <1>15
  DEF TLSNext, TLSRun

\* "Restores original cert/key from backup": a run on the configured pair that
\* reports ROLLED_BACK and in which no backup or restore failed unnoticed has left both
\* files as it found them, through any number of failed, botched and crashed runs and
\* whatever certificates were staged, as long as no other target shares the closures.
THEOREM TLSRollbackRestores ==
  ASSUME Solo
  PROVE  TLSSpec => []RollbackRestores
<1>1. TLSInit => RestoreInv
  BY TLSAssumption
  DEF TLSInit, RestoreInv, Undoable, Readable, FromReadCert, FromSwapKey, Pair
<1>2. TLSTypeOK /\ RestoreInv /\ [TLSNext]_tlsVars => RestoreInv'
  BY RestoreStep
<1>3. TLSTypeOK /\ RestoreInv => RollbackRestores
  <2> SUFFICES ASSUME TLSTypeOK, RestoreInv, NEW t \in TLSTarget \ botched,
                      tlsPC[t] = "rolledBack"
               PROVE  active[PairOf(t)] = before[t]
    BY DEF RollbackRestores
  <2>1. PairOf(t) = "configured" /\ Same(active["configured"], before[t])
    BY DEF PairOf, Solo, RestoreInv, Undoable
  <2>2. active["configured"] \in Files /\ before[t] \in Files
    BY DEF TLSTypeOK, Pair
  <2> QED
    BY <2>1, <2>2 DEF Same, Files
<1> QED
  BY <1>1, <1>2, <1>3, TLSTypes, PTL DEF TLSSpec

-----------------------------------------------------------------------------
\* What a run will commit: the serial it accepted is a lasting one; while staging
\* is untouched, what it read and then renamed has that serial; and a committed
\* run's certificate is on disk and presented, or nothing is.
Verified(t) ==
  /\ tlsPC[t] # "idle" => stagedSerial \in Lasting
  /\ fresh[t] => staged.cert = stagedSerial /\ staged.key = stagedSerial
  /\ fresh[t] /\ tlsPC[t] \in {"swapCert", "swapKey"} => got[t].key = stagedSerial
  /\ fresh[t] /\ tlsPC[t] \in {"reload", "postcheck", "committed"} =>
       active["configured"].key = stagedSerial
  /\ tlsPC[t] = "committed" =>
       /\ active["configured"].cert = stagedSerial
       /\ served \in {Absent, stagedSerial}

VerifiedInv == \A t \in TLSTarget : Verified(t)

\* Every step keeps what a run will commit.
LEMMA VerifiedStep ==
  ASSUME Solo
  PROVE  TLSTypeOK /\ VerifiedInv /\ [TLSNext]_tlsVars => VerifiedInv'
<1> SUFFICES ASSUME TLSTypeOK, VerifiedInv, [TLSNext]_tlsVars PROVE VerifiedInv'
  OBVIOUS
<1> USE DEF TLSGoto, VerifiedInv, Verified
<1>0. /\ "configured" \in Pair
      /\ active \in [Pair -> Files]
      /\ got \in [TLSTarget -> Files]
      /\ tlsPC \in [TLSTarget -> TLSPCs]
      /\ fresh \in [TLSTarget -> BOOLEAN]
      /\ \A t \in TLSTarget : PairOf(t) = "configured"
      /\ \A t, u \in TLSTarget : t = u
  BY TLSAssumption DEF Pair, TLSTypeOK, PairOf, Solo
<1>1. ASSUME NEW t \in TLSTarget, TLSPrecheck(t) PROVE VerifiedInv'
  BY <1>0, <1>1 DEF TLSPrecheck, Matches
<1>2. ASSUME NEW t \in TLSTarget, TLSBackupCert(t) \/ TLSBackupKey(t)
      PROVE  VerifiedInv'
  BY <1>0, <1>2 DEF TLSBackupCert, TLSBackupKey
<1>3. ASSUME NEW t \in TLSTarget, TLSReadCert(t) \/ TLSReadKey(t)
      PROVE  VerifiedInv'
  BY <1>0, <1>3 DEF TLSReadCert, TLSReadKey, Files
<1>4. ASSUME NEW t \in TLSTarget, TLSSwapCert(t) PROVE VerifiedInv'
  BY <1>0, <1>4 DEF TLSSwapCert
<1>5. ASSUME NEW t \in TLSTarget, TLSSwapKey(t) PROVE VerifiedInv'
  BY <1>0, <1>5 DEF TLSSwapKey, Files
<1>6. ASSUME NEW t \in TLSTarget, TLSActionFails(t) \/ TLSReload(t)
      PROVE  VerifiedInv'
  BY <1>0, <1>6 DEF TLSActionFails, TLSReload
<1>7. ASSUME NEW t \in TLSTarget, TLSPostcheck(t) PROVE VerifiedInv'
  BY <1>0, <1>7 DEF TLSPostcheck, Rotated
<1>8. ASSUME NEW t \in TLSTarget,
             TLSRestoreCert(t) \/ TLSRestoreKey(t) \/ TLSRestoreReload(t)
      PROVE  VerifiedInv'
  BY <1>0, <1>8 DEF TLSRestoreCert, TLSRestoreKey, TLSRestoreReload
<1>9. ASSUME NEW t \in TLSTarget, TLSEnd(t) PROVE VerifiedInv'
  BY <1>0, <1>9 DEF TLSEnd
<1>10. CASE TLSCrash \/ Restage
  BY <1>0, <1>10 DEF TLSCrash, Restage
<1>11. CASE ServiceReload \/ ServiceStopStart
  BY <1>0, <1>11 DEF ServiceReload, ServiceStopStart, Loaded
<1>12. CASE UNCHANGED tlsVars
  BY <1>12 DEF tlsVars
<1> QED
  BY <1>1, <1>2, <1>3, <1>4, <1>5, <1>6, <1>7, <1>8, <1>9, <1>10, <1>11, <1>12
  DEF TLSNext, TLSRun

\* A rotation of the configured pair commits a certificate that was verified to
\* last, which the service presents unless nobody listens, with the key that
\* belongs to it unless the staged files were exchanged after the check, under
\* every fault.
THEOREM TLSCommitIsVerified ==
  ASSUME Solo
  PROVE  TLSSpec => []CommitIsVerified
<1>1. TLSInit => VerifiedInv
  BY DEF TLSInit, VerifiedInv, Verified
<1>2. TLSTypeOK /\ VerifiedInv /\ [TLSNext]_tlsVars => VerifiedInv'
  BY VerifiedStep
<1>3. VerifiedInv => CommitIsVerified
  BY TLSAssumption
  DEF VerifiedInv, Verified, CommitIsVerified, Matches, PairOf, Solo
<1> QED
  BY <1>1, <1>2, <1>3, TLSTypes, PTL DEF TLSSpec

-----------------------------------------------------------------------------
\* The composition.  The parts share no variable, so a behaviour in which one of
\* them moves is a behaviour of each: a step of another part stutters here.
LEMMA PartsAlone ==
  MCSpec => /\ TLSSpec /\ DiskSpec /\ CfgSpec
            /\ HangSpec /\ ExecSpec /\ SockSpec
<1>1. MCInit => /\ TLSInit /\ DiskInit /\ CfgInit
                /\ HangInit /\ ExecInit /\ SockInit
  BY DEF MCInit
<1>2. [MCNext]_mcVars => [TLSNext]_tlsVars
  BY DEF MCNext, mcVars
<1>3. [MCNext]_mcVars => [DiskNext]_diskVars
  BY DEF MCNext, mcVars
<1>4. [MCNext]_mcVars => [CfgNext]_cfgVars
  BY DEF MCNext, mcVars
<1>5. [MCNext]_mcVars => [HangNext]_hangVars
  BY DEF MCNext, mcVars
<1>6. [MCNext]_mcVars => [ExecNext]_execVars
  BY DEF MCNext, mcVars
<1>7. [MCNext]_mcVars => [SockNext]_sockVars
  BY DEF MCNext, mcVars
<1> QED
  BY <1>1, <1>2, <1>3, <1>4, <1>5, <1>6, <1>7, PTL
  DEF MCSpec, TLSSpec, DiskSpec, CfgSpec, HangSpec, ExecSpec, SockSpec

\* The types of the four runbooks, the executor and the socket path, for any
\* targets, archives, configurations, processes and faults.
THEOREM RunbookTypes == MCSpec => []RunbooksTypeOK
<1>1. DInv => DiskTypeOK
  BY DEF DInv
<1>2. DiskSpec => []DiskTypeOK
  BY <1>1, DiskInvariance, PTL
<1>3. TLSTypeOK /\ DiskTypeOK /\ CfgTypeOK /\ HangTypeOK /\ ExecTypeOK
        /\ SockTypeOK => RunbooksTypeOK
  BY DEF RunbooksTypeOK
<1> QED
  BY <1>2, <1>3, PartsAlone, TLSTypes, CfgInvariance, HangTypes, TimeoutIsFinal,
     SocketTypes, PTL

=============================================================================
