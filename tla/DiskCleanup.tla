----------------------------- MODULE DiskCleanup -----------------------------
(***************************************************************************)
(* RBK-DISK-001 (internal/runbooks/runbooks.go): pruning rotated archives  *)
(* of one log directory while a log rotator renames the files in it, and   *)
(* while another run of the same runbook, on another directory and so      *)
(* under another lock, shares the closure variable activeInode.            *)
(*                                                                         *)
(* Files are inodes, numbered in the order of their creation, which is     *)
(* also the order of their modification times: a log is written until the  *)
(* next one is opened.  Archive holds the names isArchiveFile accepts,     *)
(* ordered as a numbering rotator shifts them; other names are not listed. *)
(***************************************************************************)
EXTENDS Executor, Sequences, FiniteSets, Functions

CONSTANTS
  NumArchives,  \* archive names 1..NumArchives; name 0 is cfg.ActiveLogName
  MaxInode,     \* bound: inodes ever created
  FirstInode,   \* the active log at the start; older ones are archives
  SizeOf,       \* bytes of each inode
  MaxFiles,     \* cfg.MaxFilesToDelete
  MaxBytes,     \* cfg.MaxBytesToDelete
  DiskFaults    \* remove (os.Remove fails), crash, other (the other run)

ASSUME DiskAssumption ==
  /\ NumArchives \in Nat /\ MaxInode \in Nat
  /\ FirstInode \in 1..MaxInode
  /\ FirstInode <= NumArchives + 1
  /\ SizeOf \in [1..MaxInode -> Nat]
  /\ MaxFiles \in Nat \ {0} /\ MaxBytes \in Nat \ {0}
  /\ DiskFaults \subseteq {"remove", "crash", "other"}

VARIABLES
  dir,          \* the directory: inode of each name, 0 if there is none
  nextInode,
  open,         \* inode the service has open and writes to
  diskPC,
  activeInode,  \* closure: inode of the active log, kept from run to run
  todo,         \* candidateList: names with the sizes seen when listed
  files, bytes, \* filesDeleted, totalBytesDeleted
  unlinked      \* history: inode the run unlinked last, or 0

dirVars == <<dir, nextInode, open>>
diskVars == <<dirVars, diskPC, activeInode, todo, files, bytes, unlinked>>

Active == 0
Archive == 1..NumArchives
Inode == 1..MaxInode
Foreign == MaxInode + 1   \* the active log of the other directory

DiskInit ==
  /\ dir = [n \in 0..NumArchives |-> IF n < FirstInode THEN FirstInode - n ELSE 0]
  /\ nextInode = FirstInode + 1
  /\ open = FirstInode
  /\ diskPC = "idle"
  /\ activeInode = 0
  /\ todo = <<>>
  /\ files = 0 /\ bytes = 0 /\ unlinked = 0

\* findCandidateArchives.
Candidates == {n \in Archive : dir[n] # 0}

-----------------------------------------------------------------------------
\* Seeded defect, of Stop: one file more than the clamp allows.
StopOffByOne(f) ==
  \/ files > MaxFiles
  \/ bytes + f.size > MaxBytes /\ files > 0

\* Seeded defect, of Stop: the clamp is compared before the file's own size is
\* added.
StopLate(f) ==
  \/ files >= MaxFiles
  \/ bytes > MaxBytes /\ files > 0

-----------------------------------------------------------------------------
\* checkCandidateFileSafe: it must exist, and not be the active log's inode.  Who has
\* the file open is not asked.
Safe(n) == dir[n] # 0 /\ dir[n] # activeInode

\* The loop stops at the clamps; the first file is exempt from the second.
Stop(f) ==
  \/ files >= MaxFiles
  \/ bytes + f.size > MaxBytes /\ files > 0

\* The precondition: os.Stat of the active log, ...
DiskStat ==
  /\ diskPC = "idle"
  /\ diskPC' = "inspect"
  /\ activeInode' = IF dir[Active] # 0 THEN dir[Active] ELSE activeInode
  /\ UNCHANGED <<dirVars, todo, files, bytes, unlinked>>

\* ... then every candidate is compared with it.  A refusal ends the run; of the
\* inspection nothing is kept but its verdict.
DiskInspect ==
  /\ diskPC = "inspect"
  /\ diskPC' = IF \A n \in Candidates : Safe(n) THEN "list" ELSE "ended"
  /\ UNCHANGED <<dirVars, activeInode, todo, files, bytes, unlinked>>

\* The action lists the directory again and sorts by modification time, oldest
\* (the smallest inode) first.
DiskList ==
  /\ diskPC = "list"
  /\ diskPC' = "prune"
  /\ \E order \in Injection(1..Cardinality(Candidates), Candidates) :
       /\ \A i, j \in DOMAIN order : i < j => dir[order[i]] <= dir[order[j]]
       /\ todo' = [i \in 1..Cardinality(Candidates) |->
                     [name |-> order[i], size |-> SizeOf[dir[order[i]]]]]
  /\ UNCHANGED <<dirVars, activeInode, files, bytes, unlinked>>

\* One turn of the loop up to "Double check candidate safety before unlinking".
DiskCheck ==
  /\ diskPC = "prune"
  /\ todo # <<>>
  /\ ~Stop(Head(todo))
  /\ unlinked' = 0
  /\ IF Safe(Head(todo).name)
       THEN diskPC' = "unlink" /\ UNCHANGED todo
       ELSE diskPC' = "prune" /\ todo' = Tail(todo)
  /\ UNCHANGED <<dirVars, activeInode, files, bytes>>

\* os.Remove by name; the bytes counted are those of the listing.
DiskUnlink ==
  /\ diskPC = "unlink"
  /\ dir[Head(todo).name] # 0
  /\ dir' = [dir EXCEPT ![Head(todo).name] = 0]
  /\ unlinked' = dir[Head(todo).name]
  /\ files' = files + 1
  /\ bytes' = bytes + Head(todo).size
  /\ todo' = Tail(todo)
  /\ diskPC' = "prune"
  /\ UNCHANGED <<nextInode, open, activeInode>>

\* os.Remove fails, of a file that is gone or for another reason: the action
\* returns an error and no result.  There are no compensating steps.
DiskUnlinkFails ==
  /\ diskPC = "unlink"
  /\ dir[Head(todo).name] = 0 \/ "remove" \in DiskFaults
  /\ diskPC' = "rolledBack"
  /\ UNCHANGED <<dirVars, activeInode, todo, files, bytes, unlinked>>

\* The loop is over and the executor judges the action.
DiskVerdict ==
  /\ diskPC = "prune"
  /\ todo # <<>> => Stop(Head(todo))
  /\ \E late \in BOOLEAN :
       diskPC' = IF MutateVerdict(FALSE, bytes, MaxBytes, late) = "ok"
                   THEN "postcheck" ELSE "rolledBack"
  /\ UNCHANGED <<dirVars, activeInode, todo, files, bytes, unlinked>>

\* The active log must be the inode on record; free space is the machine's say.
DiskPostcheck ==
  /\ diskPC = "postcheck"
  /\ \/ diskPC' = "rolledBack"
     \/ /\ activeInode > 0 => dir[Active] = activeInode
        /\ diskPC' = "committed"
  /\ UNCHANGED <<dirVars, activeInode, todo, files, bytes, unlinked>>

Forget ==
  /\ todo' = <<>>
  /\ files' = 0 /\ bytes' = 0 /\ unlinked' = 0

DiskEnd ==
  /\ diskPC \in {"ended", "committed", "rolledBack"}
  /\ diskPC' = "idle"
  /\ Forget
  /\ UNCHANGED <<dirVars, activeInode>>

DiskCrash ==
  /\ "crash" \in DiskFaults
  /\ diskPC' = "idle"
  /\ activeInode' = 0
  /\ Forget
  /\ UNCHANGED dirVars

-----------------------------------------------------------------------------
\* The rotator: numbered archives are shifted by one, the last is overwritten;
\* dated ones get a name of their own.  The service writes on to the renamed file...
Rotate ==
  /\ dir[Active] # 0
  /\ \/ dir' = [n \in 0..NumArchives |-> IF n = 0 THEN 0 ELSE dir[n - 1]]
     \/ \E n \in Archive \ Candidates :
          dir' = [dir EXCEPT ![n] = dir[Active], ![Active] = 0]
  /\ UNCHANGED <<nextInode, open, diskPC, activeInode, todo, files, bytes, unlinked>>

\* ... until it opens a new log.
Reopen ==
  /\ dir[Active] = 0
  /\ nextInode \in Inode
  /\ dir' = [dir EXCEPT ![Active] = nextInode]
  /\ open' = nextInode
  /\ nextInode' = nextInode + 1
  /\ UNCHANGED <<diskPC, activeInode, todo, files, bytes, unlinked>>

\* A run on another directory passes its os.Stat of the active log.
OtherStat ==
  /\ "other" \in DiskFaults
  /\ activeInode' = Foreign
  /\ UNCHANGED <<dirVars, diskPC, todo, files, bytes, unlinked>>

DiskNext ==
  \/ DiskStat \/ DiskInspect \/ DiskList \/ DiskCheck \/ DiskUnlink
  \/ DiskUnlinkFails \/ DiskVerdict \/ DiskPostcheck \/ DiskEnd \/ DiskCrash
  \/ Rotate \/ Reopen \/ OtherStat

DiskSpec == DiskInit /\ [][DiskNext]_diskVars

-----------------------------------------------------------------------------
DiskTypeOK ==
  /\ dir \in [0..NumArchives -> 0..MaxInode]
  /\ nextInode \in 1..(MaxInode + 1)
  /\ open \in Inode
  /\ diskPC \in {"idle", "inspect", "list", "prune", "unlink", "postcheck",
                 "ended", "committed", "rolledBack"}
  /\ activeInode \in 0..Foreign
  /\ todo \in Seq([name : Archive, size : Nat])
  /\ files \in 0..MaxFiles
  /\ bytes \in Nat
  /\ unlinked \in 0..MaxInode


\* README: "maximum 500 MB per run".  A run removes at most MaxBytes bytes.
BytesClamped == bytes <= MaxBytes

\* What the code keeps of the clamps.  A run removes at most MaxFiles files and counts
\* at most MaxBytes bytes, save when its first file alone is larger, which the loop
\* exempts and the README does not; then it removes only that one, and the executor's
\* clamp keeps it from committing.
ClampHonoured ==
  /\ files <= MaxFiles
  /\ bytes > MaxBytes => files = 1
  /\ diskPC = "committed" => bytes <= MaxBytes

=============================================================================
