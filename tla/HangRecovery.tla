---------------------------- MODULE HangRecovery ----------------------------
(***************************************************************************)
(* RBK-PROC-001 (internal/runbooks/runbooks.go): terminating a hung        *)
(* service and starting a replacement, over a table of processes, the port *)
(* one of them can hold, and the pid file.  A process this daemon started  *)
(* is its child and is never waited for: when it ends it stays a zombie,   *)
(* which kill(pid, 0) finds alive, until the daemon itself dies.           *)
(*                                                                         *)
(* The daemon runs as root, so that signals are never refused; its own pid *)
(* is not in the table.  The configuration has a pid file and no TargetPID *)
(* (the default).                                                          *)
(***************************************************************************)
EXTENDS Executor

CONSTANTS
  MaxPid,       \* bound: process ids, used in increasing order
  HangFaults    \* spawn (the start fails), mock (startMockHealthServer fails),
                \* pidfile (its write fails, error discarded), stuck (a process
                \* that SIGKILL does not end in time), crash

ASSUME HangAssumption ==
  /\ MaxPid \in Nat \ {0}
  /\ HangFaults \subseteq {"spawn", "mock", "pidfile", "stuck", "crash"}

VARIABLES
  hangPC,
  ps,          \* state of each process
  children,    \* those whose parent is the running daemon
  port,        \* the process that holds the service's port, or 0
  pidfile,     \* the pid in cfg.PIDFilePath, or 0
  activePID,   \* closure: kept from run to run
  cur,         \* curPID, then newPID, of the action
  strangers    \* history: when the replacement was started there were service
               \* processes other than the one the ladder was for

hangVars == <<hangPC, ps, children, port, pidfile, activePID, cur, strangers>>

Pid == 1..MaxPid

\* starting: has not bound the port yet.  ok and hung hold the port.
PsStates == {"free", "starting", "ok", "hung", "zombie", "gone"}

\* syscall.Kill(pid, 0).
Alive(p) == ps[p] \notin {"free", "gone"}

\* GET cfg.HealthURL answers 200.
Healthy == port # 0 /\ ps[port] = "ok"

HangInit ==
  /\ hangPC = "idle"
  /\ ps = [p \in Pid |-> IF p = 1 THEN "ok" ELSE "free"]
  /\ children = {}
  /\ port = 1
  /\ pidfile = 1
  /\ activePID = 0
  /\ cur = 0
  /\ strangers = FALSE

\* Processes in D end and let go of the port.
End(D) ==
  /\ ps' = [p \in Pid |-> CASE p \notin D -> ps[p]
                            [] p \in D /\ p \in children -> "zombie"
                            [] OTHER -> "gone"]
  /\ port' = IF port \in D THEN 0 ELSE port

\* Processes a signal can end.
Mortal == {p \in Pid : ps[p] \in {"starting", "ok", "hung"}}

-----------------------------------------------------------------------------
\* Seeded defects.

\* of HangKill: after the grace period the ladder stops.
HangKillNot ==
  /\ hangPC = "wait"
  /\ Alive(cur)
  /\ hangPC' = "spawn"
  /\ UNCHANGED <<ps, children, port, pidfile, activePID, cur, strangers>>

-----------------------------------------------------------------------------
\* The precondition: the pid file replaces what the closure holds, a pid nobody
\* has is dropped, and the run is refused only if the service answers and no pid
\* is known.
HangPrecheck ==
  /\ hangPC = "idle"
  /\ LET known == IF pidfile > 0 THEN pidfile ELSE activePID
         live == IF known > 0 /\ Alive(known) THEN known ELSE 0
     IN  /\ activePID' = live
         /\ hangPC' = IF Healthy /\ live = 0 THEN "idle" ELSE "ladder"
  /\ UNCHANGED <<ps, children, port, pidfile, cur, strangers>>

\* SIGTERM, which a process may ignore, if there is somebody to send it to.
HangTerm ==
  /\ hangPC = "ladder"
  /\ activePID > 0 /\ Alive(activePID)
  /\ cur' = activePID
  /\ hangPC' = "wait"
  /\ \/ End({activePID} \cap Mortal)
     \/ UNCHANGED <<ps, port>>
  /\ UNCHANGED <<children, pidfile, activePID, strangers>>

HangNoTarget ==
  /\ hangPC = "ladder"
  /\ activePID > 0 => ~Alive(activePID)
  /\ cur' = activePID
  /\ hangPC' = "spawn"
  /\ UNCHANGED <<ps, children, port, pidfile, activePID, strangers>>

\* The process is found dead before TermTimeout ...
HangTerminated ==
  /\ hangPC = "wait"
  /\ ~Alive(cur)
  /\ hangPC' = "spawn"
  /\ UNCHANGED <<ps, children, port, pidfile, activePID, cur, strangers>>

\* ... or it is not, a zombie included, and SIGKILL follows.  The ladder goes on
\* after KillTimeout whatever has become of it.
HangKill ==
  /\ hangPC = "wait"
  /\ Alive(cur)
  /\ hangPC' = "spawn"
  /\ \/ End({cur} \cap Mortal)
     \/ "stuck" \in HangFaults /\ UNCHANGED <<ps, port>>
  /\ UNCHANGED <<children, pidfile, activePID, cur, strangers>>

\* The replacement is started ...
HangSpawn ==
  /\ hangPC = "spawn"
  /\ hangPC' = "record"
  /\ \E p \in Pid :
       /\ ps[p] = "free"
       /\ \A q \in 1..(p - 1) : ps[q] # "free"
       /\ ps' = [ps EXCEPT ![p] = "starting"]
       /\ children' = children \cup {p}
       /\ cur' = p
  /\ strangers' = (Mortal \ {cur} # {})
  /\ UNCHANGED <<port, pidfile, activePID>>

\* ... and its pid goes into the closure and the pid file.
HangRecord ==
  /\ hangPC = "record"
  /\ activePID' = cur
  /\ \/ pidfile' = cur
     \/ "pidfile" \in HangFaults /\ UNCHANGED pidfile
  /\ \E late \in BOOLEAN :
       hangPC' = IF MutateVerdict(FALSE, 0, 0, late) = "ok"
                   THEN "postAlive" ELSE "rolledBack"
  /\ UNCHANGED <<ps, children, port, cur, strangers>>

\* cmd.Start fails and the action with it; startMockHealthServer fails and
\* the action succeeds without a process.
HangSpawnFails ==
  /\ \/ "spawn" \in HangFaults /\ hangPC' = "rolledBack"
     \/ "mock" \in HangFaults /\ hangPC' = "postAlive"
  /\ hangPC = "spawn"
  /\ strangers' = (Mortal \ {cur} # {})
  /\ UNCHANGED <<ps, children, port, pidfile, activePID, cur>>

\* The postcondition asks only if a pid is known: is it alive, ...
HangPostAlive ==
  /\ hangPC = "postAlive"
  /\ hangPC' = CASE activePID = 0 -> "committed"
                 [] activePID > 0 /\ Alive(activePID) -> "postHealth"
                 [] OTHER -> "rolledBack"
  /\ UNCHANGED <<ps, children, port, pidfile, activePID, cur, strangers>>

\* ... and does the port answer, whoever holds it.  It gives up after a while.
HangPostHealth ==
  /\ hangPC = "postHealth"
  /\ \/ Healthy /\ hangPC' = "committed"
     \/ ~Healthy /\ hangPC' = "rolledBack"
  /\ UNCHANGED <<ps, children, port, pidfile, activePID, cur, strangers>>

HangEnd ==
  /\ hangPC \in {"committed", "rolledBack"}
  /\ hangPC' = "idle"
  /\ cur' = 0
  /\ strangers' = FALSE
  /\ UNCHANGED <<ps, children, port, pidfile, activePID>>

\* The daemon dies and is started again: its children are adopted by init, which
\* reaps the zombies.
HangCrash ==
  /\ "crash" \in HangFaults
  /\ hangPC' = "idle"
  /\ children' = {}
  /\ ps' = [p \in Pid |-> IF ps[p] = "zombie" THEN "gone" ELSE ps[p]]
  /\ activePID' = 0
  /\ cur' = 0
  /\ strangers' = FALSE
  /\ UNCHANGED <<port, pidfile>>

-----------------------------------------------------------------------------
\* The services: a process that starts takes the port or fails on it; one that
\* holds it hangs, comes back, or ends.
Bind(p) ==
  /\ ps[p] = "starting"
  /\ \/ /\ port = 0
        /\ port' = p
        /\ ps' = [ps EXCEPT ![p] = "ok"]
     \/ port # 0 /\ End({p})
  /\ UNCHANGED <<hangPC, children, pidfile, activePID, cur, strangers>>

Hang(p) ==
  /\ ps[p] \in {"ok", "hung"}
  /\ ps' = [ps EXCEPT ![p] = IF @ = "ok" THEN "hung" ELSE "ok"]
  /\ UNCHANGED <<hangPC, children, port, pidfile, activePID, cur, strangers>>

Exit(p) ==
  /\ p \in Mortal
  /\ End({p})
  /\ UNCHANGED <<hangPC, children, pidfile, activePID, cur, strangers>>

HangNext ==
  \/ HangPrecheck \/ HangTerm \/ HangNoTarget \/ HangTerminated \/ HangKill
  \/ HangSpawn \/ HangSpawnFails \/ HangRecord \/ HangPostAlive
  \/ HangPostHealth \/ HangEnd \/ HangCrash
  \/ \E p \in Pid : Bind(p) \/ Hang(p) \/ Exit(p)

HangSpec == HangInit /\ [][HangNext]_hangVars

-----------------------------------------------------------------------------
HangTypeOK ==
  /\ hangPC \in {"idle", "ladder", "wait", "spawn", "record", "postAlive", "postHealth",
                 "committed", "rolledBack"}
  /\ ps \in [Pid -> PsStates]
  /\ children \subseteq Pid
  /\ {port, pidfile, activePID, cur} \subseteq 0..MaxPid
  /\ strangers \in BOOLEAN

\* "New PID is active, target port is listening": when a recovery commits, the
\* process that answers on the port is the one named by the pid file, so that
\* the next recovery finds it, unless a service process unknown to the run was
\* about when the replacement was started (a daemon that died between starting
\* one and writing the pid file leaves such a process).  The probe does not ask
\* who answers: this rests on the ladder having ended its target, through slow
\* starts, processes that ignore SIGTERM and zombies that look alive.  It is
\* stated for a pid file that can be written, a mock server that starts and
\* processes that SIGKILL ends (without the faults pidfile, mock and stuck), and
\* for a daemon that may signal every process: when kill(pid, 0) is refused, the
\* precondition takes the process for alive and the ladder skips it.
CommitNamesServer ==
  [][hangPC # "committed" /\ hangPC' = "committed" /\ ~strangers =>
       port' = pidfile' /\ port' = activePID' /\ Healthy']_hangVars

=============================================================================
