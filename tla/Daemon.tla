------------------------------- MODULE Daemon -------------------------------
(***************************************************************************)
(* The life of remediation-daemon: cmd/remediation-daemon/main.go starts   *)
(* the three ingress servers of internal/ingress (UnixSocketServer,        *)
(* HTTPServer, Poller) over one engine and, on SIGINT or SIGTERM, stops    *)
(* them in order and closes the engine's ledger.  Each connection, request *)
(* and polling round is a goroutine of its own.                            *)
(*                                                                         *)
(* A remediation (ProcessAlert) is the stretch in which a goroutine is     *)
(* busy: Engine models what happens in it.  Contents of alerts, replies,   *)
(* metrics and logs are dropped.                                           *)
(***************************************************************************)
EXTENDS Naturals

CONSTANTS
  Conn,      \* clients of the Unix socket
  Request,   \* HTTP requests
  Silent,    \* clients that connect and then neither write nor hang up
  Faults     \* failures that may happen

ASSUME DaemonAssumption ==
  /\ Silent \subseteq Conn
  /\ Faults \subseteq {"unix", "http", "accept"}

VARIABLES
  main,        \* where main, Start and Stop are
  listening,   \* the Unix listener is open
  accepting,   \* acceptLoop is running
  conn,        \* the goroutine of each Unix connection
  serving,     \* the HTTP listener is open
  web,         \* the goroutine of each HTTP request
  poll,        \* the Poller's loop
  ledger       \* the audit ledger is open

vars == <<main, listening, accepting, conn, serving, web, poll, ledger>>

-----------------------------------------------------------------------------
Phases == {"boot", "unix", "http", "run", "stopPoller", "stopHTTP", "stopUnix",
           "close", "leave", "abort", "exit"}

\* A goroutine: not there yet, reading its alert, in ProcessAlert, returned, or
\* ended by the end of the process.
Handler == {"away", "reading", "busy", "done", "cut"}

Alive == main # "exit"

\* Poller.Stop closes quit; main cancels the context just before.
Stopping == main \in {"stopPoller", "stopHTTP", "stopUnix", "close", "leave"}

InFlight(h) == h \in {"reading", "busy"}

Goto(from, to) == main = from /\ main' = to

\* os.Exit or log.Fatalf: whatever goroutine is still there ends with it.
Exit(from) ==
  /\ Goto(from, "exit")
  /\ conn' = [c \in Conn |-> IF InFlight(conn[c]) THEN "cut" ELSE conn[c]]
  /\ web' = [r \in Request |-> IF InFlight(web[r]) THEN "cut" ELSE web[r]]
  /\ UNCHANGED <<listening, accepting, serving, poll>>

\* UnixSocketServer.Stop after the listener is closed: wg.Wait, for acceptLoop and
\* for every handleConn it spawned.
UnixDrained == ~accepting /\ \A c \in Conn : ~InFlight(conn[c])

\* NewDaemon: the engine is open, nothing listens yet.
Init ==
  /\ main = "boot"
  /\ listening = FALSE
  /\ accepting = FALSE
  /\ conn = [c \in Conn |-> "away"]
  /\ serving = FALSE
  /\ web = [r \in Request |-> "away"]
  /\ poll = "off"
  /\ ledger = TRUE

-----------------------------------------------------------------------------
\* Daemon.Start, one server after the other.
StartUnix ==
  /\ Goto("boot", "unix")
  /\ listening' = TRUE
  /\ accepting' = TRUE
  /\ UNCHANGED <<conn, serving, web, poll, ledger>>

StartUnixFailed ==
  /\ "unix" \in Faults
  /\ Exit("boot")
  /\ ledger' = ledger

StartHTTP ==
  /\ Goto("unix", "http")
  /\ serving' = TRUE
  /\ UNCHANGED <<listening, accepting, conn, web, poll, ledger>>

\* The HTTP address is taken: the Unix server is stopped again.
StartHTTPFailed ==
  /\ "http" \in Faults
  /\ Goto("unix", "abort")
  /\ listening' = FALSE
  /\ UNCHANGED <<accepting, conn, serving, web, poll, ledger>>

Aborted ==
  /\ UnixDrained
  /\ Exit("abort")
  /\ ledger' = ledger

\* Poller.Start cannot fail; its loop begins with a round of checks.
StartPoller ==
  /\ Goto("http", "run")
  /\ poll' = "busy"
  /\ UNCHANGED <<listening, accepting, conn, serving, web, ledger>>

-----------------------------------------------------------------------------
\* UnixSocketServer.acceptLoop and handleConn.
Accept(c) ==
  /\ Alive /\ accepting /\ listening
  /\ conn[c] = "away"
  /\ conn' = [conn EXCEPT ![c] = "reading"]
  /\ UNCHANGED <<main, listening, accepting, serving, web, poll, ledger>>

\* Seeded defect, of AcceptEnds: the loop goes on after any error of Accept.
AcceptRetries ==
  /\ Alive /\ accepting
  /\ ~listening
  /\ UNCHANGED vars

\* Any error of Accept ends the loop: the listener was closed, or a transient
\* failure.
AcceptEnds ==
  /\ Alive /\ accepting
  /\ ~listening \/ "accept" \in Faults
  /\ accepting' = FALSE
  /\ UNCHANGED <<main, listening, conn, serving, web, poll, ledger>>

\* Decode returns an alert, or an error that is answered at once.
Decode(c) ==
  /\ Alive /\ c \notin Silent
  /\ conn[c] = "reading"
  /\ \E h \in {"busy", "done"} : conn' = [conn EXCEPT ![c] = h]
  /\ UNCHANGED <<main, listening, accepting, serving, web, poll, ledger>>

Reply(c) ==
  /\ Alive /\ conn[c] = "busy"
  /\ conn' = [conn EXCEPT ![c] = "done"]
  /\ UNCHANGED <<main, listening, accepting, serving, web, poll, ledger>>

\* HTTPServer.handleAlerts: read (within ReadTimeout) and validate, or refuse.
ServeHTTP(r) ==
  /\ Alive /\ serving
  /\ web[r] = "away"
  /\ web' = [web EXCEPT ![r] = "reading"]
  /\ UNCHANGED <<main, listening, accepting, conn, serving, poll, ledger>>

Validate(r) ==
  /\ Alive /\ web[r] = "reading"
  /\ \E h \in {"busy", "done"} : web' = [web EXCEPT ![r] = h]
  /\ UNCHANGED <<main, listening, accepting, conn, serving, poll, ledger>>

Respond(r) ==
  /\ Alive /\ web[r] = "busy"
  /\ web' = [web EXCEPT ![r] = "done"]
  /\ UNCHANGED <<main, listening, accepting, conn, serving, poll, ledger>>

\* Poller.loop: select takes any channel that is ready, a tick or a stop.
PollTick ==
  /\ Alive /\ poll = "wait"
  /\ poll' = "busy"
  /\ UNCHANGED <<main, listening, accepting, conn, serving, web, ledger>>

PollDone ==
  /\ Alive /\ poll = "busy"
  /\ poll' = "wait"
  /\ UNCHANGED <<main, listening, accepting, conn, serving, web, ledger>>

PollExit ==
  /\ Alive /\ poll = "wait"
  /\ Stopping
  /\ poll' = "off"
  /\ UNCHANGED <<main, listening, accepting, conn, serving, web, ledger>>

-----------------------------------------------------------------------------
\* Seeded defect, of UnixStopped: wg.Wait is left out.
UnixStoppedNoWait ==
  /\ Goto("stopUnix", "close")
  /\ UNCHANGED <<listening, accepting, conn, serving, web, poll, ledger>>

\* A termination signal; then Daemon.Stop, one server after the other.
Signal ==
  /\ Goto("run", "stopPoller")
  /\ UNCHANGED <<listening, accepting, conn, serving, web, poll, ledger>>

\* Poller.Stop has waited for the loop; HTTPServer.Stop closes its listener.
PollerStopped ==
  /\ Goto("stopPoller", "stopHTTP")
  /\ poll = "off"
  /\ serving' = FALSE
  /\ UNCHANGED <<listening, accepting, conn, web, poll, ledger>>

\* Shutdown returns when no request is left, or after five seconds whatever is;
\* UnixSocketServer.Stop closes its listener, not its connections.
HTTPStopped ==
  /\ Goto("stopHTTP", "stopUnix")
  /\ listening' = FALSE
  /\ UNCHANGED <<accepting, conn, serving, web, poll, ledger>>

UnixStopped ==
  /\ Goto("stopUnix", "close")
  /\ UnixDrained
  /\ UNCHANGED <<listening, accepting, conn, serving, web, poll, ledger>>

CloseEngine ==
  /\ Goto("close", "leave")
  /\ ledger' = FALSE
  /\ UNCHANGED <<listening, accepting, conn, serving, web, poll>>

Leave ==
  /\ Exit("leave")
  /\ ledger' = ledger

MainStep ==
  \/ StartUnix \/ StartHTTP \/ StartPoller \/ Aborted
  \/ PollerStopped \/ HTTPStopped \/ UnixStopped \/ CloseEngine \/ Leave

Next ==
  \/ MainStep \/ StartUnixFailed \/ StartHTTPFailed \/ Signal
  \/ AcceptEnds \/ PollTick \/ PollDone \/ PollExit
  \/ \E c \in Conn : Accept(c) \/ Decode(c) \/ Reply(c)
  \/ \E r \in Request : ServeHTTP(r) \/ Validate(r) \/ Respond(r)

Spec == Init /\ [][Next]_vars

\* Goroutines that can run do, and every ProcessAlert returns (Engine!Terminates);
\* a client that is not Silent writes or hangs up; HTTP reads time out.  select
\* chooses at random among what is ready, so a loop told to stop does not take
\* the tick every time: strong fairness.
FairSpec ==
  /\ Spec
  /\ WF_vars(MainStep)
  /\ WF_vars(~listening /\ AcceptEnds)
  /\ WF_vars(PollDone)
  /\ SF_vars(PollExit)
  /\ \A c \in Conn : WF_vars(Decode(c)) /\ WF_vars(Reply(c))
  /\ \A r \in Request : WF_vars(Validate(r)) /\ WF_vars(Respond(r))

-----------------------------------------------------------------------------
TypeOK ==
  /\ main \in Phases
  /\ listening \in BOOLEAN
  /\ accepting \in BOOLEAN
  /\ conn \in [Conn -> Handler]
  /\ serving \in BOOLEAN
  /\ web \in [Request -> Handler]
  /\ poll \in {"off", "wait", "busy"}
  /\ ledger \in BOOLEAN

\* "Gracefully stops all listeners": whatever failed on the way up and however
\* the stop interleaves with alerts, no remediation that came in by the Unix
\* socket or the poller meets a closed ledger or is cut by the process's end.
Drained ==
  ~ledger \/ main = "exit" =>
    poll # "busy" /\ \A c \in Conn : conn[c] \notin {"busy", "cut"}

\* An alert read from the Unix socket is answered, shutdown or not.
UnixAnswered == \A c \in Conn : conn[c] = "busy" ~> conn[c] = "done"

\* "Stop gracefully shuts down the listener, closes active connections": once a
\* termination signal came, the daemon ends.
StopEnds == Stopping ~> main = "exit"

=============================================================================
