---------------------------- MODULE DaemonProofs ----------------------------
(***************************************************************************)
(* Daemon's shutdown order, for any number of clients and requests.        *)
(***************************************************************************)
EXTENDS Daemon, TLAPS

\* Where the poller's loop is known to be over, and where wg.Wait has returned or
\* was never needed.
Quiet ==
  main \in {"boot", "unix", "http", "abort", "stopHTTP", "stopUnix", "close",
            "leave", "exit"} => poll = "off"

Settled == main \in {"boot", "close", "leave", "exit"} => UnixDrained

\* The inductive invariant.  It needs both waits of Stop, and that nothing is cut
\* but by the end of the process, after them.
IInv ==
  /\ TypeOK
  /\ Quiet
  /\ Settled
  /\ ~ledger => main \in {"leave", "exit"}
  /\ \A c \in Conn : conn[c] # "cut"

\* It holds of the daemon NewDaemon returns.
LEMMA InitIInv == Init => IInv
  BY DEF Init, IInv, TypeOK, Quiet, Settled, UnixDrained, InFlight, Phases,
         Handler

\* What ends the process where the Unix server is drained cuts no connection.
LEMMA ExitStep ==
  ASSUME IInv, NEW from \in {"boot", "abort", "leave"}, Exit(from),
         UnixDrained, ledger' = ledger
  PROVE  IInv'
<1>1. conn' = conn
  BY DEF Exit, UnixDrained, InFlight, IInv, TypeOK
<1>2. web' \in [Request -> Handler]
  BY DEF Exit, IInv, TypeOK, Handler
<1>3. TypeOK'
  BY <1>1, <1>2 DEF Exit, Goto, IInv, TypeOK, Phases
<1>4. Quiet' /\ Settled'
  BY <1>1 DEF Exit, Goto, IInv, Quiet, Settled, UnixDrained, InFlight
<1> QED
  BY <1>1, <1>3, <1>4 DEF Exit, Goto, IInv

\* The steps of Start and Stop.
LEMMA MainIInv ==
  ASSUME IInv, MainStep \/ StartUnixFailed \/ StartHTTPFailed \/ Signal
  PROVE  IInv'
<1> USE DEF IInv, TypeOK, Quiet, Settled, UnixDrained, InFlight, Goto, Phases
<1>1. CASE StartUnix
  BY <1>1 DEF StartUnix
<1>2. CASE StartHTTP \/ StartHTTPFailed
  BY <1>2 DEF StartHTTP, StartHTTPFailed
<1>3. CASE StartPoller \/ Signal
  BY <1>3 DEF StartPoller, Signal
<1>4. CASE PollerStopped \/ HTTPStopped
  BY <1>4 DEF PollerStopped, HTTPStopped
<1>5. CASE UnixStopped
  BY <1>5 DEF UnixStopped
<1>6. CASE CloseEngine
  BY <1>6 DEF CloseEngine
<1>7. CASE StartUnixFailed \/ Aborted \/ Leave
  <2>1. UnixDrained
    BY <1>7 DEF StartUnixFailed, Aborted, Leave, Exit
  <2> QED
    BY <1>7, <2>1, ExitStep DEF StartUnixFailed, Aborted, Leave
<1> QED
  BY <1>1, <1>2, <1>3, <1>4, <1>5, <1>6, <1>7 DEF MainStep

\* The steps of the servers' goroutines: a new one needs the accept loop.
LEMMA ServerIInv ==
  ASSUME IInv,
         \/ AcceptEnds \/ PollTick \/ PollDone \/ PollExit
         \/ \E c \in Conn : Accept(c) \/ Decode(c) \/ Reply(c)
         \/ \E r \in Request : ServeHTTP(r) \/ Validate(r) \/ Respond(r)
  PROVE  IInv'
<1> USE DEF IInv, TypeOK, Quiet, Settled, UnixDrained, InFlight, Handler
<1>1. CASE AcceptEnds
  BY <1>1 DEF AcceptEnds
<1>2. CASE PollTick \/ PollDone \/ PollExit
  BY <1>2 DEF PollTick, PollDone, PollExit, Stopping
<1>3. ASSUME NEW c \in Conn, Accept(c) \/ Decode(c) \/ Reply(c) PROVE IInv'
  BY <1>3 DEF Accept, Decode, Reply, Alive
<1>4. ASSUME NEW r \in Request, ServeHTTP(r) \/ Validate(r) \/ Respond(r)
      PROVE  IInv'
  BY <1>4 DEF ServeHTTP, Validate, Respond
<1> QED
  BY <1>1, <1>2, <1>3, <1>4

\* The invariant holds throughout.
LEMMA Invariance == Spec => []IInv
<1>1. Init => IInv
  BY InitIInv
<1>2. IInv /\ [Next]_vars => IInv'
  <2>1. IInv /\ Next => IInv'
    BY MainIInv, ServerIInv DEF Next
  <2>2. IInv /\ UNCHANGED vars => IInv'
    BY DEF IInv, TypeOK, Quiet, Settled, UnixDrained, InFlight, vars
  <2> QED
    BY <2>1, <2>2
<1> QED
  BY <1>1, <1>2, PTL DEF Spec

\* No remediation of the Unix socket or the poller meets a closed ledger or is cut
\* by the end of the process, for any number of clients, whichever start-up step
\* fails and however handlers and shutdown interleave.
THEOREM ShutdownDrains == Spec => []Drained
<1>1. IInv => Drained
  BY DEF IInv, TypeOK, Drained, Quiet, Settled, UnixDrained, InFlight
<1> QED
  BY <1>1, Invariance, PTL

=============================================================================
