------------------------------ MODULE MCEngine ------------------------------
(***************************************************************************)
(* Engine on two calls in two processes (the daemon and a remediation-ctl  *)
(* run) that meet on one resource.  Two runbooks stand for the catalog,    *)
(* and both target that resource, as RBK-PROC-001 and RBK-CFG-001 both     *)
(* target ai-gateway: rbFile has two actions and two compensating steps,   *)
(* rbConf one action and none, like RBK-CFG-001.  An alert without a label *)
(* is resolved by resource; the label stale names a runbook that is not    *)
(* registered, cfgId is the id of rbConf.                                  *)
(***************************************************************************)
EXTENDS Engine, TLC

CONSTANTS c1, c2, daemon, ctl, r1, f1, rbFile, rbConf, stale, cfgId

MCProcOf == c1 :> daemon @@ c2 :> ctl
MCOneProcOf == c1 :> daemon @@ c2 :> daemon
MCLockPathFor == r1 :> f1
MCNamesOf == [b \in Runbook |-> IF b = rbConf THEN {cfgId} \cap Label ELSE {}]
MCSymmetry == Permutations({c1, c2})
MCTargetOf == [b \in Runbook |-> r1]
MCNumActions == [b \in Runbook |-> IF b = rbConf THEN 1 ELSE 2]
MCNumSteps == [b \in Runbook |-> IF b = rbConf THEN 0 ELSE 2]

=============================================================================
