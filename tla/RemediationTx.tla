---------------------------- MODULE RemediationTx ----------------------------
(***************************************************************************)
(* What a remediation promises to its caller and to the target, with no    *)
(* FSM, journal, ledger or lock files: a transaction owns its target       *)
(* before it changes anything and until it has said how it ended; it       *)
(* applies its actions in order, may turn to compensating steps but never  *)
(* back, and what it says of itself is true.  Engine is shown to implement *)
(* this module, whatever fails.                                            *)
(***************************************************************************)
EXTENDS Naturals

CONSTANTS
  Tx,          \* transactions
  Target,      \* what they own
  Plan,        \* what they may do
  NumActions,  \* actions of a plan
  NumSteps,    \* compensating steps of a plan
  NoTx, NoPlan

VARIABLES
  phase,   \* new, owner, ended or lost (its process died)
  owner,   \* the transaction that owns each target
  plan,    \* the plan of each transaction
  done,    \* actions it has applied
  undone,  \* compensating steps it has completed
  told     \* what it said of itself

txVars == <<phase, owner, plan, done, undone, told>>

Init ==
  /\ phase = [x \in Tx |-> "new"]
  /\ owner = [t \in Target |-> NoTx]
  /\ plan = [x \in Tx |-> NoPlan]
  /\ done = [x \in Tx |-> 0]
  /\ undone = [x \in Tx |-> 0]
  /\ told = [x \in Tx |-> "nothing"]

-----------------------------------------------------------------------------
Owns(x) == phase[x] = "owner" /\ \E t \in Target : owner[t] = x

Working(x) == Owns(x) /\ told[x] = "nothing"

\* The owners once the transactions in X have given up what they own.
Without(X) == [t \in Target |-> IF owner[t] \in X THEN NoTx ELSE owner[t]]

Choose(x) ==
  /\ phase[x] = "new"
  /\ plan[x] = NoPlan
  /\ \E p \in Plan : plan' = [plan EXCEPT ![x] = p]
  /\ UNCHANGED <<phase, owner, done, undone, told>>

\* Nothing was owned and nothing touched.
Decline(x) ==
  /\ phase[x] = "new"
  /\ phase' = [phase EXCEPT ![x] = "ended"]
  /\ told' = [told EXCEPT ![x] = "escalated"]
  /\ UNCHANGED <<owner, plan, done, undone>>

Claim(x) ==
  /\ phase[x] = "new"
  /\ plan[x] # NoPlan
  /\ \E t \in Target : /\ owner[t] = NoTx
                       /\ owner' = [owner EXCEPT ![t] = x]
  /\ phase' = [phase EXCEPT ![x] = "owner"]
  /\ UNCHANGED <<plan, done, undone, told>>

Apply(x) ==
  /\ Working(x)
  /\ undone[x] = 0
  /\ done[x] < NumActions[plan[x]]
  /\ done' = [done EXCEPT ![x] = @ + 1]
  /\ UNCHANGED <<phase, owner, plan, undone, told>>

Compensate(x) ==
  /\ Working(x)
  /\ undone[x] < NumSteps[plan[x]]
  /\ undone' = [undone EXCEPT ![x] = @ + 1]
  /\ UNCHANGED <<phase, owner, plan, done, told>>

\* What may be said, and when it is true.
MayTell(x, w) ==
  \/ w = "refused" /\ done[x] = 0 /\ undone[x] = 0
  \/ w = "committed" /\ done[x] = NumActions[plan[x]] /\ undone[x] = 0
  \/ w = "rolledBack" /\ undone[x] = NumSteps[plan[x]]
  \/ w = "escalated" /\ (done[x] = 0 \/ undone[x] < NumSteps[plan[x]])

Tell(x) ==
  /\ Working(x)
  /\ \E w \in {"refused", "committed", "rolledBack", "escalated"} :
       MayTell(x, w) /\ told' = [told EXCEPT ![x] = w]
  /\ UNCHANGED <<phase, owner, plan, done, undone>>

Release(x) ==
  /\ Owns(x)
  /\ told[x] # "nothing"
  /\ phase' = [phase EXCEPT ![x] = "ended"]
  /\ owner' = Without({x})
  /\ UNCHANGED <<plan, done, undone, told>>

\* A process dies with some of its transactions; what they owned is free again.
Die(X) ==
  /\ \A x \in X : phase[x] # "ended"
  /\ phase' = [x \in Tx |-> IF x \in X THEN "lost" ELSE phase[x]]
  /\ owner' = Without(X)
  /\ UNCHANGED <<plan, done, undone, told>>

Next ==
  \/ \E x \in Tx : \/ Choose(x) \/ Decline(x) \/ Claim(x) \/ Apply(x)
                   \/ Compensate(x) \/ Tell(x) \/ Release(x)
  \/ \E X \in SUBSET Tx : Die(X)

Spec == Init /\ [][Next]_txVars

=============================================================================
