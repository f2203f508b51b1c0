------------------------------- MODULE MCHost -------------------------------
(***************************************************************************)
(* What lives on the host's disk and process table: the four runbooks of   *)
(* the catalog, the executor's commands, the daemons' socket path, the     *)
(* circuit breaker's state file and the audit ledger's file.  They share   *)
(* no variable and no file, so that a behaviour of one says nothing of     *)
(* another: the variable part, chosen once, says which of them moves, and  *)
(* TLC explores the sum of their state spaces.                             *)
(***************************************************************************)
EXTENDS TLSRotation, DiskCleanup, ConfigRollback, HangRecovery, SocketPath,
        Damping, AuditLedger, TLC

CONSTANTS
  Parts,                                 \* the parts a run explores
  k1, k2,                                \* descendants of a command
  s1, s2,                                \* certificates
  g1, g2, b1,                            \* configurations
  d1, d2, d3,                            \* daemons on the socket path
  w1, w2, daemon, ctl, target, lockA, lockB,  \* the breaker and its callers
  p1, p2, e1, e2, e3                     \* the ledger's processes and data

VARIABLE part

mcVars == <<part, tlsVars, diskVars, cfgVars, hangVars, execVars, sockVars,
            dampVars, ledgerVars>>

\* Sizes that make each clamp bite: the oldest archive alone exceeds MaxBytes,
\* two odd ones together do, and three neighbours do not but are too many.
MCSizeOf == [i \in 1..MaxInode |-> IF i = 1 THEN 6 ELSE IF i % 2 = 1 THEN 3 ELSE 1]

\* Two Remediate calls in the daemon lead to one damping key, through one lock
\* (MCSerial) or through two, as alerts with different ResourceIDs do (MCSplit).
MCProcOf == w1 :> daemon @@ w2 :> daemon
MCKeyOf == w1 :> target @@ w2 :> target
MCSerial == w1 :> lockA @@ w2 :> lockA
MCSplit == w1 :> lockA @@ w2 :> lockB

MCInit ==
  /\ part \in Parts
  /\ TLSInit /\ DiskInit /\ CfgInit /\ HangInit /\ ExecInit /\ SockInit
  /\ DampInit /\ LedgerInit
  \* A part that does not move starts anywhere: one place is enough.
  /\ part # "tls" => staged.cert = s1 /\ served = s1 /\ reload = "fn"
  /\ part # "cfg" => config = g1 /\ lkg = g1 /\ hasRestart
  /\ part # "socket" => ~overlap

MCNext ==
  \/ /\ part = "tls" /\ TLSNext
     /\ UNCHANGED <<part, diskVars, cfgVars, hangVars, execVars, sockVars,
                    dampVars, ledgerVars>>
  \/ /\ part = "disk" /\ DiskNext
     /\ UNCHANGED <<part, tlsVars, cfgVars, hangVars, execVars, sockVars,
                    dampVars, ledgerVars>>
  \/ /\ part = "cfg" /\ CfgNext
     /\ UNCHANGED <<part, tlsVars, diskVars, hangVars, execVars, sockVars,
                    dampVars, ledgerVars>>
  \/ /\ part = "hang" /\ HangNext
     /\ UNCHANGED <<part, tlsVars, diskVars, cfgVars, execVars, sockVars,
                    dampVars, ledgerVars>>
  \/ /\ part = "exec" /\ ExecNext
     /\ UNCHANGED <<part, tlsVars, diskVars, cfgVars, hangVars, sockVars,
                    dampVars, ledgerVars>>
  \/ /\ part = "socket" /\ SockNext
     /\ UNCHANGED <<part, tlsVars, diskVars, cfgVars, hangVars, execVars,
                    dampVars, ledgerVars>>
  \/ /\ part = "damping" /\ DampNext
     /\ UNCHANGED <<part, tlsVars, diskVars, cfgVars, hangVars, execVars, sockVars,
                    ledgerVars>>
  \/ /\ part = "ledger" /\ LedgerNext
     /\ UNCHANGED <<part, tlsVars, diskVars, cfgVars, hangVars, execVars, sockVars,
                    dampVars>>

MCSpec == MCInit /\ [][MCNext]_mcVars /\ ExecFairness

\* Type correctness of the four runbooks, of the executor and of the socket path.
RunbooksTypeOK ==
  /\ TLSTypeOK /\ DiskTypeOK /\ CfgTypeOK /\ HangTypeOK /\ ExecTypeOK
  /\ SockTypeOK

=============================================================================
