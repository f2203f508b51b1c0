------------------------------ MODULE Executor ------------------------------
(***************************************************************************)
(* Executor.Execute (internal/executor/executor.go): the deadline and the  *)
(* blast radius around one action.  MutateVerdict is what it makes of an   *)
(* in-process action, the kind all four catalogued runbooks use.  The      *)
(* state machine is a direct command: a child in a process group of its    *)
(* own, with descendants that may inherit its output pipe, leave the pipe  *)
(* or outlive the child.  os/exec kills the child alone at the deadline    *)
(* and goes on waiting until nobody holds the pipe.                        *)
(***************************************************************************)
EXTENDS Naturals

CONSTANT Kin   \* processes the child may start

VARIABLES
  execPC,    \* ready, running, returned
  child,     \* none, running, ok (exit 0), bad (another code), killed
  kin,       \* none, holds (alive, with the pipe), detached (without), dead
  expired,   \* the deadline of execCtx has passed
  verdict    \* what Execute returned

execVars == <<execPC, child, kin, expired, verdict>>

\* The in-process branch: a function that ran past the deadline has failed
\* whatever it returned, and the clamp is compared after the fact.
MutateVerdict(err, bytes, maxBytes, late) ==
  IF late THEN "timedOut"
  ELSE IF maxBytes > 0 /\ bytes > maxBytes THEN "exceeded"
  ELSE IF err THEN "failed" ELSE "ok"

\* Descendants that have the pipe, and all that are alive in the child's group.
Holders == {k \in Kin : kin[k] = "holds"}
Members == {k \in Kin : kin[k] \in {"holds", "detached"}}

ExecInit ==
  /\ execPC = "ready"
  /\ child = "none"
  /\ kin = [k \in Kin |-> "none"]
  /\ expired = FALSE
  /\ verdict = "none"

-----------------------------------------------------------------------------
\* Seeded defects.

\* of ExecReturn: the signal goes to the child, not to its group.
ExecReturnNoGroup ==
  /\ execPC = "running"
  /\ child \in {"ok", "bad", "killed"}
  /\ Holders = {}
  /\ execPC' = "returned"
  /\ verdict' = CASE child = "ok" -> "ok"
                  [] child # "ok" /\ expired -> "timedOut"
                  [] OTHER -> "failed"
  /\ UNCHANGED <<child, kin, expired>>

\* of ExecCancel: the command is not bound to the deadline (exec.Command).
ExecCancelNever ==
  /\ expired
  /\ child = "killed"
  /\ UNCHANGED execVars

-----------------------------------------------------------------------------
\* cmd.Run starts the child, or fails to.
ExecStart ==
  /\ execPC = "ready"
  /\ \/ execPC' = "running" /\ child' = "running" /\ UNCHANGED verdict
     \/ execPC' = "returned" /\ verdict' = "failed" /\ UNCHANGED child
  /\ UNCHANGED <<kin, expired>>

ExecDeadline ==
  /\ execPC = "running"
  /\ ~expired
  /\ expired' = TRUE
  /\ UNCHANGED <<execPC, child, kin, verdict>>

\* exec.CommandContext kills the child, and only the child.
ExecCancel ==
  /\ expired
  /\ child = "running"
  /\ child' = "killed"
  /\ UNCHANGED <<execPC, kin, expired, verdict>>

\* cmd.Run returns once the child is reaped and the copying of its output has
\* met the end of the pipe.  The group is killed only on the path on which the
\* child failed and the deadline has passed.
ExecReturn ==
  /\ execPC = "running"
  /\ child \in {"ok", "bad", "killed"}
  /\ Holders = {}
  /\ execPC' = "returned"
  /\ verdict' = CASE child = "ok" -> "ok"
                  [] child # "ok" /\ expired -> "timedOut"
                  [] OTHER -> "failed"
  /\ kin' = IF child # "ok" /\ expired
              THEN [k \in Kin |-> IF kin[k] = "none" THEN "none" ELSE "dead"]
              ELSE kin
  /\ UNCHANGED <<child, expired>>

-----------------------------------------------------------------------------
\* The command's own processes.
ChildExit ==
  /\ child = "running"
  /\ child' \in {"ok", "bad"}
  /\ UNCHANGED <<execPC, kin, expired, verdict>>

\* A fork inherits the pipe from a parent that has it, or closes it at once.
KinFork(k) ==
  /\ kin[k] = "none"
  /\ \/ /\ child = "running" \/ Holders # {}
        /\ kin' = [kin EXCEPT ![k] = "holds"]
     \/ /\ child = "running" \/ Members # {}
        /\ kin' = [kin EXCEPT ![k] = "detached"]
  /\ UNCHANGED <<execPC, child, expired, verdict>>

\* A descendant closes its copy of the pipe: it redirects its output, or exits.
KinLeave(k) ==
  /\ k \in Members
  /\ \/ kin[k] = "holds" /\ kin' = [kin EXCEPT ![k] = "detached"]
     \/ kin' = [kin EXCEPT ![k] = "dead"]
  /\ UNCHANGED <<execPC, child, expired, verdict>>

ExecNext ==
  \/ ExecStart \/ ExecDeadline \/ ExecCancel \/ ExecReturn \/ ChildExit
  \/ \E k \in Kin : KinFork(k) \/ KinLeave(k)

ExecSpec == ExecInit /\ [][ExecNext]_execVars

\* Timers fire, the runtime's watcher and Wait get their turns.  The child may hang,
\* and its descendants may keep the pipe for ever.
ExecFairness ==
  /\ WF_execVars(ExecDeadline)
  /\ WF_execVars(ExecCancel)
  /\ WF_execVars(ExecReturn)

-----------------------------------------------------------------------------
ExecTypeOK ==
  /\ execPC \in {"ready", "running", "returned"}
  /\ child \in {"none", "running", "ok", "bad", "killed"}
  /\ kin \in [Kin -> {"none", "holds", "detached", "dead"}]
  /\ expired \in BOOLEAN
  /\ verdict \in {"none", "ok", "failed", "timedOut"}

\* "execution timed out" is the last word on a command: no process of its group
\* is left to change the target while the engine rolls back, however they forked
\* and whatever they did with the pipe (the kill of -Pid in Execute).  It says nothing
\* of a command whose child succeeds late or fails early: its descendants live on.
TimeoutKillsGroup ==
  verdict = "timedOut" => Members = {}

\* A command whose child hangs is cut off and Execute returns, unless descendants keep
\* the output pipe open for ever: cmd.WaitDelay is not set, so that the deadline does
\* not bound that wait, where the README promises hard execution timeouts.
ExecReturns ==
  <>[](Holders = {}) => (execPC = "running" ~> execPC = "returned")

=============================================================================
