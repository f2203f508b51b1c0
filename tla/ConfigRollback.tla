--------------------------- MODULE ConfigRollback ---------------------------
(***************************************************************************)
(* RBK-CFG-001 (internal/runbooks/runbooks.go): restoring the last-known-  *)
(* good configuration, while operators edit the active file and a release  *)
(* process replaces the known-good one.  A file is its content, and the    *)
(* SHA-256 of a content is the content.                                    *)
(***************************************************************************)
EXTENDS Executor

CONSTANTS
  Config,       \* contents of configuration files
  WellFormed,   \* those ValidateConfigSyntax accepts
  CfgReload,    \* configured with a RestartFn: possible values
  CfgFaults,    \* io, quarantine (its error is discarded), crash
  NoConfig      \* no file, no hash

ASSUME CfgAssumption ==
  /\ WellFormed \subseteq Config
  /\ CfgReload \subseteq BOOLEAN
  /\ CfgFaults \subseteq {"io", "quarantine", "crash"}
  /\ NoConfig \notin Config

VARIABLES
  cfgPC,
  config,      \* the active file
  lkg,         \* the known-good file
  quarantine,  \* contents kept in QuarantineDir
  lkgSHA,      \* closure: hash of the known-good file the precondition accepted
  read,        \* known-good bytes the action has read
  hasRestart,  \* cfg.RestartFn is set: fixed
  running,     \* content the service runs with; NoConfig: it is down
  retouched    \* history: the active file was edited after its hash was compared

cfgVars == <<cfgPC, config, lkg, quarantine, lkgSHA, read, hasRestart, running,
             retouched>>

CfgInit ==
  /\ cfgPC = "idle"
  /\ config \in Config \cup {NoConfig}
  /\ lkg \in Config
  /\ quarantine = {}
  /\ lkgSHA = NoConfig
  /\ read = NoConfig
  /\ hasRestart \in CfgReload
  /\ running = IF config \in WellFormed THEN config ELSE NoConfig
  /\ retouched = FALSE

CfgGoto(from, to) == cfgPC = from /\ cfgPC' = to

\* The syntax check of the precondition, which the service repeats in its own way.
ValidateConfigSyntax(c) == c \in WellFormed

\* What the service runs with after a restart: a malformed file stops it.
Restarted == IF ValidateConfigSyntax(config) THEN config ELSE NoConfig

-----------------------------------------------------------------------------
\* Seeded defect, of CfgHashCheck: compared with the known-good file as it is now.
CfgHashCheckLive ==
  /\ CfgGoto("postcheck", IF config = lkg THEN "probe" ELSE "rolledBack")
  /\ retouched' = FALSE
  /\ UNCHANGED <<config, lkg, quarantine, lkgSHA, read, hasRestart, running>>

-----------------------------------------------------------------------------
\* The precondition: the hash is set even when the files turn out to be equal.
\* The known-good file is read first: a release in between may as well come
\* after both reads, and an edit before them.
CfgPrecheck ==
  /\ cfgPC = "idle"
  /\ ValidateConfigSyntax(lkg)
  /\ lkgSHA' = lkg
  /\ cfgPC' = IF config = lkg THEN "idle" ELSE "quarantine"
  /\ UNCHANGED <<config, lkg, quarantine, read, hasRestart, running, retouched>>

CfgQuarantine ==
  /\ CfgGoto("quarantine", "read")
  /\ \/ quarantine' = quarantine \cup ({config} \ {NoConfig})
     \/ "quarantine" \in CfgFaults /\ UNCHANGED quarantine
  /\ UNCHANGED <<config, lkg, lkgSHA, read, hasRestart, running, retouched>>

\* The known-good file is read again and not validated again.
CfgRead ==
  /\ CfgGoto("read", "swap")
  /\ read' = lkg
  /\ UNCHANGED <<config, lkg, quarantine, lkgSHA, hasRestart, running, retouched>>

CfgSwap ==
  /\ CfgGoto("swap", "restart")
  /\ config' = read
  /\ UNCHANGED <<lkg, quarantine, lkgSHA, read, hasRestart, running, retouched>>

\* A read, a write, the rename or the restart function fails.  There are no
\* compensating steps: the run ends ROLLED_BACK with whatever it has done.
CfgActionFails ==
  /\ "io" \in CfgFaults
  /\ \/ CfgGoto("read", "rolledBack") \/ CfgGoto("swap", "rolledBack")
     \/ hasRestart /\ CfgGoto("restart", "rolledBack")
  /\ UNCHANGED <<config, lkg, quarantine, lkgSHA, read, hasRestart, running, retouched>>

\* RestartFn, or a SIGHUP if a pid is configured; the default has neither.
CfgRestart ==
  /\ \E late \in BOOLEAN :
       CfgGoto("restart", IF MutateVerdict(FALSE, 0, 0, late) = "ok"
                            THEN "postcheck" ELSE "rolledBack")
  /\ running' = IF hasRestart THEN Restarted ELSE running
  /\ UNCHANGED <<config, lkg, quarantine, lkgSHA, read, hasRestart, retouched>>

\* The postcondition: hashes must agree, ...
CfgHashCheck ==
  /\ CfgGoto("postcheck", IF config = lkgSHA THEN "probe" ELSE "rolledBack")
  /\ retouched' = FALSE
  /\ UNCHANGED <<config, lkg, quarantine, lkgSHA, read, hasRestart, running>>

\* ... then the health probe, tried up to 20 times, must answer if a RestartFn is
\* set, and otherwise only if somebody listens: a service that is down passes.
CfgProbe ==
  /\ \/ CfgGoto("probe", "committed") /\ (hasRestart => running # NoConfig)
     \/ CfgGoto("probe", "rolledBack")
  /\ UNCHANGED <<config, lkg, quarantine, lkgSHA, read, hasRestart, running,
                 retouched>>

CfgForget == read' = NoConfig /\ retouched' = FALSE

CfgEnd ==
  /\ CfgGoto("committed", "idle") \/ CfgGoto("rolledBack", "idle")
  /\ CfgForget
  /\ UNCHANGED <<config, lkg, quarantine, lkgSHA, hasRestart, running>>

CfgCrash ==
  /\ "crash" \in CfgFaults
  /\ cfgPC # "idle"
  /\ cfgPC' = "idle"
  /\ lkgSHA' = NoConfig
  /\ CfgForget
  /\ UNCHANGED <<config, lkg, quarantine, hasRestart, running>>

-----------------------------------------------------------------------------
Edit ==
  /\ \E c \in Config : config' = c
  /\ retouched' = (retouched \/ cfgPC = "probe")
  /\ UNCHANGED <<cfgPC, lkg, quarantine, lkgSHA, read, hasRestart, running>>

Release ==
  /\ \E c \in Config : lkg' = c
  /\ UNCHANGED <<cfgPC, config, quarantine, lkgSHA, read, hasRestart, running, retouched>>

\* The service is restarted by someone else, or dies.
ServiceTurn ==
  /\ running' \in {Restarted, NoConfig}
  /\ UNCHANGED <<cfgPC, config, lkg, quarantine, lkgSHA, read, hasRestart, retouched>>

CfgNext ==
  \/ CfgPrecheck \/ CfgQuarantine \/ CfgRead \/ CfgSwap \/ CfgActionFails
  \/ CfgRestart \/ CfgHashCheck \/ CfgProbe \/ CfgEnd \/ CfgCrash
  \/ Edit \/ Release \/ ServiceTurn

CfgSpec == CfgInit /\ [][CfgNext]_cfgVars

-----------------------------------------------------------------------------
CfgTypeOK ==
  /\ cfgPC \in {"idle", "quarantine", "read", "swap", "restart", "postcheck",
                "probe", "committed", "rolledBack"}
  /\ {config, lkg, lkgSHA, read, running} \subseteq Config \cup {NoConfig}
  /\ quarantine \subseteq Config
  /\ {hasRestart, retouched} \subseteq BOOLEAN

\* A configuration rollback commits over the very content that passed syntax
\* validation, also when the known-good file was replaced or the active file edited
\* meanwhile, save by an edit while the health probe was being tried, after the hashes
\* were compared; and with a RestartFn the service runs.  Without one, a service that
\* is down passes, where the README has it pass "/healthz" checks.
CommitIsKnownGood ==
  [][cfgPC # "committed" /\ cfgPC' = "committed" =>
       /\ (config' = lkgSHA /\ lkgSHA \in WellFormed) \/ retouched
       /\ hasRestart => running' # NoConfig]_cfgVars

=============================================================================
