----------------------------- MODULE TLSRotation -----------------------------
(***************************************************************************)
(* RBK-TLS-001 (internal/runbooks/runbooks.go): the closures of            *)
(* NewTLSCertRotationRunbook as Remediate calls them, one action per file  *)
(* operation that another process or a crash can see.  The resource lock   *)
(* allows one run per target at a time; runs on different targets share    *)
(* the closures' variables, which die with the process.                    *)
(*                                                                         *)
(* A certificate is known by its serial, and a key by the serial of the    *)
(* certificate whose public key it matches.  Expiry of more than 30 days   *)
(* is membership in Lasting.  The temporary files are not visible to       *)
(* anyone: the bytes they hold are in got.                                 *)
(***************************************************************************)
EXTENDS Executor

CONSTANTS
  Serial,        \* certificates
  Lasting,       \* those valid for more than 30 days
  TLSTarget,     \* target resources of the alerts
  ReloadModes,   \* configurations of the reload: fn, signal, none
  TLSFaults,     \* what may fail: io (reads, writes, renames, the reload
                 \* function), backup and restore (whose errors are discarded),
                 \* crash
  Absent, Torn   \* a file that is not there; one that does not parse

ASSUME TLSAssumption ==
  /\ Lasting \subseteq Serial
  /\ TLSTarget \subseteq {"ai-gateway", "guardrail-proxy"}
  /\ ReloadModes \subseteq {"fn", "signal", "none"}
  /\ TLSFaults \subseteq {"io", "backup", "restore", "crash"}
  /\ Absent \notin Serial /\ Torn \notin Serial /\ Absent # Torn

VARIABLES
  tlsPC,         \* where the run on each target is
  staged,        \* the staged pair
  active,        \* the pairs the services load
  backup,        \* BackupDir: one .bak file per active file
  stagedSerial,  \* closure: serial accepted by the precondition
  backupOf,      \* closure: the pair backupCertPath and backupKeyPath belong to
  got,           \* the staged bytes a run's action has read
  reload,        \* how cfg reloads the service: fixed
  hup,           \* a SIGHUP is pending at the service
  served,        \* the certificate presented at cfg.TargetAddr, or Absent
  before,        \* history: the active pair a run started from
  fresh,         \* history: staging is as the run's precondition saw it
  botched        \* history: runs in which a backup or a restore failed unnoticed

tlsVars == <<tlsPC, staged, active, backup, stagedSerial, backupOf, got, reload,
             hup, served, before, fresh, botched>>

Content == Serial \cup {Absent, Torn}
Files == [cert : Content, key : Content]
NoFiles == [cert |-> Absent, key |-> Absent]

\* cfg.ActiveCertPath with cfg.ActiveKeyPath, and the ai-gateway pair.
Pair == {"configured", "gateway"}
NoPair == "none"

\* resolveTLSCertPaths, with the default configuration.
PairOf(t) == IF t = "ai-gateway" THEN "gateway" ELSE "configured"

\* VerifyCertAndKeyModulus.
Matches(f) == f.cert \in Serial /\ f.key = f.cert

\* The service at TargetAddr loads the configured pair, or keeps what it has.
Loaded == IF Matches(active["configured"]) THEN active["configured"].cert
                                           ELSE served

TLSInit ==
  /\ tlsPC = [t \in TLSTarget |-> "idle"]
  /\ \E s \in Serial : staged = [cert |-> s, key |-> s]
  /\ \E s \in Serial : /\ active = [p \in Pair |-> [cert |-> s, key |-> s]]
                       /\ served = s
  /\ backup = [p \in Pair |-> NoFiles]
  /\ stagedSerial = Absent
  /\ backupOf = NoPair
  /\ got = [t \in TLSTarget |-> NoFiles]
  /\ reload \in ReloadModes
  /\ hup = FALSE
  /\ before = [t \in TLSTarget |-> NoFiles]
  /\ fresh = [t \in TLSTarget |-> FALSE]
  /\ botched = {}

TLSGoto(t, from, to) == tlsPC[t] = from /\ tlsPC' = [tlsPC EXCEPT ![t] = to]

-----------------------------------------------------------------------------
\* Seeded defects.

\* of TLSRestoreKey: the compensating step restores the certificate only.
TLSRestoreKeySkipped(t) ==
  /\ TLSGoto(t, "restoreKey", "restoreReload")
  /\ UNCHANGED <<staged, active, backup, stagedSerial, backupOf, got, reload,
                 hup, served, before, fresh, botched>>

\* of TLSSwapKey: an error of the second rename is only logged.
TLSSwapKeyUnchecked(t) ==
  /\ TLSGoto(t, "swapKey", "reload")
  /\ \/ active' = [active EXCEPT ![PairOf(t)].key = got[t].key]
     \/ "io" \in TLSFaults /\ UNCHANGED active
  /\ UNCHANGED <<staged, backup, stagedSerial, backupOf, got, reload, hup,
                 served, before, fresh, botched>>

-----------------------------------------------------------------------------
\* The precondition.  A run it refuses changes nothing.  Certificate and key are
\* read one after the other; as they are also staged one at a time and in any
\* order, nothing is lost by reading them at once.
TLSPrecheck(t) ==
  /\ TLSGoto(t, "idle", "backupCert")
  /\ Matches(staged)
  /\ staged.cert \in Lasting
  /\ stagedSerial' = staged.cert
  /\ before' = [before EXCEPT ![t] = active[PairOf(t)]]
  /\ fresh' = [fresh EXCEPT ![t] = TRUE]
  /\ UNCHANGED <<staged, active, backup, backupOf, got, reload, hup, served,
                 botched>>

\* os.WriteFile of one backup file.  An error is discarded: the file is as it was, or
\* cut short.
SaveTo(t, field) ==
  LET p == PairOf(t) IN
  \/ /\ backup' = IF active[p][field] = Absent THEN backup
                   ELSE [backup EXCEPT ![p][field] = active[p][field]]
     /\ UNCHANGED botched
  \/ /\ "backup" \in TLSFaults
     /\ UNCHANGED backup \/ backup' = [backup EXCEPT ![p][field] = Torn]
     /\ botched' = botched \cup {t}

TLSBackupCert(t) ==
  /\ TLSGoto(t, "backupCert", "backupKey")
  /\ backupOf' = PairOf(t)
  /\ SaveTo(t, "cert")
  /\ UNCHANGED <<staged, active, stagedSerial, got, reload, hup, served, before,
                 fresh>>

TLSBackupKey(t) ==
  /\ TLSGoto(t, "backupKey", "readCert")
  /\ SaveTo(t, "key")
  /\ UNCHANGED <<staged, active, stagedSerial, backupOf, got, reload, hup,
                 served, before, fresh>>

\* The staged files are read again, one after the other, and not verified again.
TLSReadCert(t) ==
  /\ TLSGoto(t, "readCert", "readKey")
  /\ got' = [got EXCEPT ![t].cert = staged.cert]
  /\ UNCHANGED <<staged, active, backup, stagedSerial, backupOf, reload, hup,
                 served, before, fresh, botched>>

TLSReadKey(t) ==
  /\ TLSGoto(t, "readKey", "swapCert")
  /\ got' = [got EXCEPT ![t].key = staged.key]
  /\ UNCHANGED <<staged, active, backup, stagedSerial, backupOf, reload, hup,
                 served, before, fresh, botched>>

\* Each rename is atomic, the two together are not.
TLSSwapCert(t) ==
  /\ TLSGoto(t, "swapCert", "swapKey")
  /\ active' = [active EXCEPT ![PairOf(t)].cert = got[t].cert]
  /\ UNCHANGED <<staged, backup, stagedSerial, backupOf, got, reload, hup,
                 served, before, fresh, botched>>

TLSSwapKey(t) ==
  /\ TLSGoto(t, "swapKey", "reload")
  /\ active' = [active EXCEPT ![PairOf(t)].key = got[t].key]
  /\ UNCHANGED <<staged, backup, stagedSerial, backupOf, got, reload, hup,
                 served, before, fresh, botched>>

\* A read, a write of a temporary file, a rename or the reload function fails:
\* the action returns an error and Remediate rolls back.
TLSActionFails(t) ==
  /\ "io" \in TLSFaults
  /\ \/ \E s \in {"readCert", "readKey", "swapCert", "swapKey"} :
          TLSGoto(t, s, "restoreCert")
     \/ reload = "fn" /\ TLSGoto(t, "reload", "restoreCert")
  /\ got' = [got EXCEPT ![t] = NoFiles]
  /\ UNCHANGED <<staged, active, backup, stagedSerial, backupOf, reload, hup,
                 served, before, fresh, botched>>

\* ReloadFn, or SIGHUP to a process that will act on it in its own time, or
\* nothing when neither a function nor a pid is configured (the default).
\* Then the executor's verdict: only the deadline can still fail the action.
TLSReload(t) ==
  /\ \E late \in BOOLEAN :
       TLSGoto(t, "reload",
               IF MutateVerdict(FALSE, 0, 0, late) = "ok" THEN "postcheck"
                                                          ELSE "restoreCert")
  /\ served' = IF reload = "fn" /\ served # Absent THEN Loaded ELSE served
  /\ hup' = (hup \/ reload = "signal")
  /\ got' = [got EXCEPT ![t] = NoFiles]
  /\ UNCHANGED <<staged, active, backup, stagedSerial, backupOf, reload, before,
                 fresh, botched>>

\* The certificate on disk, and if anyone listens the one presented, must have
\* the serial the precondition accepted.  Nothing is asked of the key.
Rotated(t) ==
  /\ active[PairOf(t)].cert \in Serial
  /\ active[PairOf(t)].cert = stagedSerial
  /\ served \in {Absent, stagedSerial}

TLSPostcheck(t) ==
  /\ TLSGoto(t, "postcheck", IF Rotated(t) THEN "committed" ELSE "restoreCert")
  /\ UNCHANGED <<staged, active, backup, stagedSerial, backupOf, got, reload,
                 hup, served, before, fresh, botched>>

-----------------------------------------------------------------------------
\* The compensating step: always into cfg.ActiveCertPath and cfg.ActiveKeyPath,
\* whichever pair was backed up.  It never returns an error: a file that cannot be
\* read back stays as it is, one that cannot be written may be cut short.
Restore(t, field) ==
  \/ /\ active' = IF backupOf # NoPair /\ backup[backupOf][field] # Absent
                     THEN [active EXCEPT !["configured"][field] =
                             backup[backupOf][field]]
                     ELSE active
     /\ UNCHANGED botched
  \/ /\ "restore" \in TLSFaults
     /\ backupOf # NoPair
     /\ UNCHANGED active \/ active' = [active EXCEPT !["configured"][field] = Torn]
     /\ botched' = botched \cup {t}

TLSRestoreCert(t) ==
  /\ TLSGoto(t, "restoreCert", "restoreKey")
  /\ Restore(t, "cert")
  /\ UNCHANGED <<staged, backup, stagedSerial, backupOf, got, reload, hup,
                 served, before, fresh>>

TLSRestoreKey(t) ==
  /\ TLSGoto(t, "restoreKey", "restoreReload")
  /\ Restore(t, "key")
  /\ UNCHANGED <<staged, backup, stagedSerial, backupOf, got, reload, hup,
                 served, before, fresh>>

\* Only a reload function is called again: no SIGHUP on this path.
TLSRestoreReload(t) ==
  /\ TLSGoto(t, "restoreReload", "rolledBack")
  /\ served' = IF reload = "fn" /\ backupOf # NoPair /\ served # Absent
                 THEN Loaded ELSE served
  /\ UNCHANGED <<staged, active, backup, stagedSerial, backupOf, got, reload,
                 hup, before, fresh, botched>>

\* Remediate returns.
TLSEnd(t) ==
  /\ TLSGoto(t, "committed", "idle") \/ TLSGoto(t, "rolledBack", "idle")
  /\ before' = [before EXCEPT ![t] = NoFiles]
  /\ fresh' = [fresh EXCEPT ![t] = FALSE]
  /\ botched' = botched \ {t}
  /\ UNCHANGED <<staged, active, backup, stagedSerial, backupOf, got, reload, hup,
                 served>>

\* The process dies: runs and closures are gone, files stay.  The backup and the
\* compensating step rewrite files in place, and may be cut short.
TLSCrash ==
  /\ "crash" \in TLSFaults
  /\ \E t \in TLSTarget : tlsPC[t] # "idle"
  /\ \/ UNCHANGED <<active, backup>>
     \/ \E t \in TLSTarget, f \in {"cert", "key"} :
          \/ /\ tlsPC[t] = (IF f = "cert" THEN "backupCert" ELSE "backupKey")
             /\ backup' = [backup EXCEPT ![PairOf(t)][f] = Torn]
             /\ UNCHANGED active
          \/ /\ tlsPC[t] = (IF f = "cert" THEN "restoreCert" ELSE "restoreKey")
             /\ active' = [active EXCEPT !["configured"][f] = Torn]
             /\ UNCHANGED backup
  /\ tlsPC' = [t \in TLSTarget |-> "idle"]
  /\ stagedSerial' = Absent
  /\ backupOf' = NoPair
  /\ got' = [t \in TLSTarget |-> NoFiles]
  /\ before' = [t \in TLSTarget |-> NoFiles]
  /\ fresh' = [t \in TLSTarget |-> FALSE]
  /\ botched' = {}
  /\ UNCHANGED <<staged, reload, hup, served>>

-----------------------------------------------------------------------------
\* Whoever stages certificates writes one file after the other, at any time.
Restage ==
  /\ \E f \in {"cert", "key"}, s \in Serial :
       staged' = [staged EXCEPT ![f] = s]
  /\ fresh' = [t \in TLSTarget |-> FALSE]
  /\ UNCHANGED <<tlsPC, active, backup, stagedSerial, backupOf, got, reload,
                 hup, served, before, botched>>

\* The service acts on a SIGHUP, stops, or starts.
ServiceReload ==
  /\ hup
  /\ hup' = FALSE
  /\ served' = IF served = Absent THEN Absent ELSE Loaded
  /\ UNCHANGED <<tlsPC, staged, active, backup, stagedSerial, backupOf, got,
                 reload, before, fresh, botched>>

ServiceStopStart ==
  /\ served' = IF served = Absent THEN Loaded ELSE Absent
  /\ hup' = FALSE
  /\ UNCHANGED <<tlsPC, staged, active, backup, stagedSerial, backupOf, got,
                 reload, before, fresh, botched>>

TLSRun(t) ==
  \/ TLSPrecheck(t) \/ TLSBackupCert(t) \/ TLSBackupKey(t)
  \/ TLSReadCert(t) \/ TLSReadKey(t) \/ TLSSwapCert(t) \/ TLSSwapKey(t)
  \/ TLSActionFails(t) \/ TLSReload(t) \/ TLSPostcheck(t)
  \/ TLSRestoreCert(t) \/ TLSRestoreKey(t) \/ TLSRestoreReload(t) \/ TLSEnd(t)

TLSNext ==
  \/ \E t \in TLSTarget : TLSRun(t)
  \/ TLSCrash \/ Restage \/ ServiceReload \/ ServiceStopStart

TLSSpec == TLSInit /\ [][TLSNext]_tlsVars

-----------------------------------------------------------------------------
TLSPCs == {"idle", "backupCert", "backupKey", "readCert", "readKey", "swapCert",
           "swapKey", "reload", "postcheck", "committed", "restoreCert",
           "restoreKey", "restoreReload", "rolledBack"}

TLSTypeOK ==
  /\ tlsPC \in [TLSTarget -> TLSPCs]
  /\ staged \in Files
  /\ active \in [Pair -> Files]
  /\ backup \in [Pair -> Files]
  /\ stagedSerial \in Serial \cup {Absent}
  /\ backupOf \in Pair \cup {NoPair}
  /\ got \in [TLSTarget -> Files]
  /\ reload \in ReloadModes
  /\ hup \in BOOLEAN
  /\ served \in Serial \cup {Absent}
  /\ before \in [TLSTarget -> Files]
  /\ fresh \in [TLSTarget -> BOOLEAN]
  /\ botched \subseteq TLSTarget

\* README: "Restores original cert/key from backup".  A run that reports ROLLED_BACK,
\* and in which no discarded error of a backup or restore write was hit, has left the
\* certificate and the key of its target as it found them, at whatever point the
\* rotation failed, and however often earlier runs, botched ones too, or crashes left
\* an older backup, a torn file or a half-swapped pair behind.
RollbackRestores ==
  \A t \in TLSTarget \ botched :
    tlsPC[t] = "rolledBack" => active[PairOf(t)] = before[t]

\* A rotation that commits has deployed a certificate that was verified with more
\* than 30 days left, the service presents it or nobody listens (which the code
\* accepts, runbooks.go:718, where the README speaks of a live handshake), and the key
\* beside it matches, unless the staged files were exchanged after they were verified.
CommitIsVerified ==
  \A t \in TLSTarget : tlsPC[t] = "committed" =>
    /\ active[PairOf(t)].cert \in Lasting
    /\ served \in {Absent, active[PairOf(t)].cert}
    /\ fresh[t] => Matches(active[PairOf(t)])

=============================================================================
