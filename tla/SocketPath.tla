----------------------------- MODULE SocketPath -----------------------------
(***************************************************************************)
(* Daemons on one socket path: UnixSocketServer.Start and Stop             *)
(* (internal/ingress/unix_socket.go) of several processes, system call by  *)
(* system call.  The path names the socket of the process that bound it    *)
(* last, which stays there when that process dies.  What the daemon does   *)
(* between Start and Stop is in Daemon.                                    *)
(***************************************************************************)

CONSTANTS
  Server,    \* daemons configured with the path
  NoSocket,  \* there is no file at the path
  SockFaults \* failures that may happen

ASSUME SocketAssumption ==
  /\ NoSocket \notin Server
  /\ SockFaults \subseteq {"crash", "chmod", "dial", "remove"}

VARIABLES
  at,       \* where each daemon is in Start or Stop
  path,     \* whose socket the file is
  overlap,  \* a daemon may start or stop while another one is doing so
  killed,   \* history: daemons that died and have not bound the path since
  misread,  \* history: a dial to a listening socket failed and it was taken for stale
  unremoved \* history: daemons in whose last start the stale file was not removed

sockVars == <<at, path, overlap, killed, misread, unremoved>>

SockSteps == {"off", "stat", "dial", "remove", "bind", "listen", "chmod", "up",
              "unlink"}

SockTypeOK ==
  /\ at \in [Server -> SockSteps]
  /\ path \in Server \cup {NoSocket}
  /\ overlap \in BOOLEAN
  /\ killed \subseteq Server
  /\ misread \in BOOLEAN
  /\ unremoved \subseteq Server

-----------------------------------------------------------------------------
SockGoto(s, from, to) ==
  /\ at[s] = from
  /\ at' = [at EXCEPT ![s] = to]
  /\ UNCHANGED overlap

\* A socket that accepts connections: between listen(2) and the listener's Close.
\* A socket that is only bound, or whose process is gone, refuses them.
Listening(s) == at[s] \in {"chmod", "up"}

InUse == path # NoSocket /\ Listening(path)

\* Without overlap a supervisor starts and stops one daemon at a time.
MayMove(s) == overlap \/ \A t \in Server \ {s} : at[t] \in {"off", "up"}

\* Unlinking goes by name: it takes whatever is at the path.
Unlink == path' = NoSocket /\ UNCHANGED <<killed, misread, unremoved>>

SockInit ==
  /\ at = [s \in Server |-> "off"]
  /\ path = NoSocket
  /\ overlap \in BOOLEAN
  /\ killed = {}
  /\ misread = FALSE
  /\ unremoved = {}

-----------------------------------------------------------------------------
\* UnixSocketServer.Start.
Start(s) ==
  /\ MayMove(s)
  /\ SockGoto(s, "off", "stat")
  /\ unremoved' = unremoved \ {s}
  /\ UNCHANGED <<path, killed, misread>>

Stat(s) ==
  /\ SockGoto(s, "stat", IF path = NoSocket THEN "bind" ELSE "dial")
  /\ UNCHANGED <<path, killed, misread, unremoved>>

\* DialTimeout succeeds: Start returns an error, and main ends.
DialAnswered(s) ==
  /\ InUse
  /\ SockGoto(s, "dial", "off")
  /\ UNCHANGED <<path, killed, misread, unremoved>>

\* Seeded defect, of DialFailed: the answer is not looked at.
DialIgnored(s) ==
  /\ SockGoto(s, "dial", "remove")
  /\ UNCHANGED <<path, killed, misread, unremoved>>

\* DialTimeout fails, and the file is taken for stale.  A socket that nobody listens
\* on refuses; one that is listened on may fail too: the 100 ms pass, its backlog is
\* full, its mode forbids.
DialFailed(s) ==
  /\ ~InUse \/ "dial" \in SockFaults
  /\ SockGoto(s, "dial", "remove")
  /\ misread' = (misread \/ InUse)
  /\ UNCHANGED <<path, killed, unremoved>>

\* Seeded defect, of RemoveStale: the stale file stays.
RemoveNothing(s) ==
  /\ SockGoto(s, "remove", "bind")
  /\ UNCHANGED <<path, killed, misread, unremoved>>

RemoveStale(s) == SockGoto(s, "remove", "bind") /\ Unlink

\* The error of os.Remove is discarded.
RemoveFailed(s) ==
  /\ "remove" \in SockFaults
  /\ SockGoto(s, "remove", "bind")
  /\ unremoved' = unremoved \cup {s}
  /\ UNCHANGED <<path, killed, misread>>

\* net.Listen: bind(2), which refuses a path that exists, then listen(2).
BindSocket(s) ==
  /\ path = NoSocket
  /\ SockGoto(s, "bind", "listen")
  /\ path' = s
  /\ killed' = killed \ {s}
  /\ UNCHANGED <<misread, unremoved>>

BindFailed(s) ==
  /\ path # NoSocket
  /\ SockGoto(s, "bind", "off")
  /\ UNCHANGED <<path, killed, misread, unremoved>>

Listen(s) ==
  /\ SockGoto(s, "listen", "chmod")
  /\ UNCHANGED <<path, killed, misread, unremoved>>

\* Chmod goes by name too: it fails when the file is gone.
Chmod(s) ==
  /\ path # NoSocket
  /\ SockGoto(s, "chmod", "up")
  /\ UNCHANGED <<path, killed, misread, unremoved>>

\* The listener is closed, which unlinks the path; os.Remove follows.
ChmodFailed(s) ==
  /\ path = NoSocket \/ "chmod" \in SockFaults
  /\ SockGoto(s, "chmod", "unlink")
  /\ Unlink

-----------------------------------------------------------------------------
\* Seeded defect, of Close: the listener keeps the file, as after
\* SetUnlinkOnClose(false).
CloseOnly(s) ==
  /\ MayMove(s)
  /\ SockGoto(s, "up", "unlink")
  /\ UNCHANGED <<path, killed, misread, unremoved>>

\* UnixSocketServer.Stop: listener.Close unlinks the path and closes the socket...
Close(s) ==
  /\ MayMove(s)
  /\ SockGoto(s, "up", "unlink")
  /\ Unlink

\* ... and after wg.Wait the path is removed once more.
RemoveAgain(s) == SockGoto(s, "unlink", "off") /\ Unlink

\* The process dies: its socket refuses connections from now on, the file stays.
Crash(s) ==
  /\ "crash" \in SockFaults
  /\ at[s] # "off"
  /\ at' = [at EXCEPT ![s] = "off"]
  /\ killed' = killed \cup {s}
  /\ UNCHANGED <<path, overlap, misread, unremoved>>

SockNext ==
  \E s \in Server :
    \/ Start(s) \/ Stat(s) \/ DialAnswered(s) \/ DialFailed(s)
    \/ RemoveStale(s) \/ RemoveFailed(s) \/ BindSocket(s) \/ BindFailed(s)
    \/ Listen(s) \/ Chmod(s) \/ ChmodFailed(s)
    \/ Close(s) \/ RemoveAgain(s) \/ Crash(s)

SockSpec == SockInit /\ [][SockNext]_sockVars

-----------------------------------------------------------------------------
\* With one start or stop at a time, and as long as no dial to a daemon that listens
\* has failed, a daemon that is up is the one clients reach at the path, whatever died
\* before and whoever else tried to start.  Both conditions are needed: the start of a
\* second daemon between another one's bind and listen, or a dial that times out,
\* unlinks the socket of a daemon that is up.
UpReachable ==
  ~overlap /\ ~misread => \A s \in Server : at[s] = "up" => path = s

\* A file at the path belongs to a daemon that has bound it and not closed it, or to
\* one that was killed: no interleaving of starts and orderly stops leaves a socket
\* nobody answers.
NoLitter ==
  path # NoSocket => at[path] \in {"listen", "chmod", "up"} \/ path \in killed

\* With one start or stop at a time, a start that could remove the file it took for
\* stale gives up only because another daemon has the path, not because of a file
\* that a dead one left.
RefusedRightly ==
  [][\A s \in Server \ unremoved :
       ~overlap /\ (DialAnswered(s) \/ BindFailed(s)) =>
         path # s /\ at[path] \in {"listen", "chmod", "up"}]_sockVars

=============================================================================
