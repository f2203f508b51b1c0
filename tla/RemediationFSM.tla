--------------------------- MODULE RemediationFSM ---------------------------
(***************************************************************************)
(* The 11-state remediation machine of internal/model/state.go: its states *)
(* and its transition table.  Every Remediate call owns one FSM; the       *)
(* module has no state of its own, Engine keeps one FSM value per call.    *)
(***************************************************************************)

AllStates ==
  {"DETECTED", "EVALUATING", "PRECHECK_PASSED", "PRECHECK_FAILED",
   "EXECUTING", "POSTCHECK_PASSED", "COMMITTED", "POSTCHECK_FAILED",
   "ROLLING_BACK", "ROLLED_BACK", "ESCALATED"}

\* The table, as the set of its (from, to) pairs.
validTransitions ==
  {<<"DETECTED", "EVALUATING">>,
   <<"DETECTED", "ESCALATED">>,
   <<"EVALUATING", "PRECHECK_PASSED">>,
   <<"EVALUATING", "PRECHECK_FAILED">>,
   <<"PRECHECK_PASSED", "EXECUTING">>,
   <<"PRECHECK_FAILED", "ESCALATED">>,
   <<"EXECUTING", "POSTCHECK_PASSED">>,
   <<"EXECUTING", "POSTCHECK_FAILED">>,
   <<"POSTCHECK_PASSED", "COMMITTED">>,
   <<"POSTCHECK_FAILED", "ROLLING_BACK">>,
   <<"ROLLING_BACK", "ROLLED_BACK">>,
   <<"ROLLING_BACK", "ESCALATED">>,
   <<"ROLLED_BACK", "ESCALATED">>}

CanTransition(from, to) == <<from, to>> \in validTransitions

IsTerminal(s) == s \in {"COMMITTED", "ESCALATED"}

\* FSM.Transition as the engine uses it: an illegal move returns an error that
\* every caller discards, so the machine silently stays where it is.
Transition(current, to) == IF CanTransition(current, to) THEN to ELSE current

=============================================================================
