-------------------------- MODULE SocketPathProofs --------------------------
(***************************************************************************)
(* The socket path for any number of daemons: what a supervisor gets that  *)
(* starts and stops one at a time, and what orderly stops leave behind.    *)
(***************************************************************************)
EXTENDS SocketPath, TLAPS

Owning == {"listen", "chmod", "up"}

\* One daemon at a time is in Start or Stop.
Lone ==
  \A s, t \in Server :
    at[s] \notin {"off", "up"} /\ at[t] \notin {"off", "up"} => s = t

\* A bound socket is at the path.
Owns == \A s \in Server : at[s] \in Owning => path = s

\* Whoever is about to unlink the path, or to bind it, has no daemon in its way.
Clear ==
  \A s, t \in Server : at[s] \in {"remove", "bind", "unlink"} => at[t] # "up"

\* What bind(2) finds, unless the file could not be removed.
Vacant == \A s \in Server \ unremoved : at[s] = "bind" => path = NoSocket

Apart == Lone /\ Vacant /\ (~misread => Owns /\ Clear)

SInv == SockTypeOK /\ (~overlap => Apart)

-----------------------------------------------------------------------------
\* Every step keeps the types.
LEMMA TypeStep == SockTypeOK /\ [SockNext]_sockVars => SockTypeOK'
<1> SUFFICES ASSUME SockTypeOK, [SockNext]_sockVars PROVE SockTypeOK'
  OBVIOUS
<1> USE DEF SockTypeOK, SockSteps, SockGoto, Unlink
<1>1. CASE UNCHANGED sockVars
  BY <1>1 DEF sockVars
<1>2. ASSUME NEW s \in Server,
             \/ Start(s) \/ Stat(s) \/ DialAnswered(s) \/ DialFailed(s)
             \/ RemoveStale(s) \/ RemoveFailed(s) \/ BindSocket(s) \/ BindFailed(s)
      PROVE  SockTypeOK'
  BY <1>2 DEF Start, Stat, DialAnswered, DialFailed, RemoveStale, RemoveFailed,
              BindSocket, BindFailed
<1>3. ASSUME NEW s \in Server,
             \/ Listen(s) \/ Chmod(s) \/ ChmodFailed(s) \/ Close(s)
             \/ RemoveAgain(s) \/ Crash(s)
      PROVE  SockTypeOK'
  BY <1>3 DEF Listen, Chmod, ChmodFailed, Close, RemoveAgain, Crash
<1> QED
  BY <1>1, <1>2, <1>3 DEF SockNext

\* Type correctness, for any daemons and faults.
THEOREM SocketTypes == SockSpec => []SockTypeOK
<1>1. SockInit => SockTypeOK
  BY DEF SockInit, SockTypeOK, SockSteps
<1> QED
  BY <1>1, TypeStep, PTL DEF SockSpec

-----------------------------------------------------------------------------
\* A step of one daemon under supervision keeps them apart.
LEMMA ServerStep ==
  ASSUME SockTypeOK, Apart, ~overlap, NEW s \in Server, SockTypeOK',
         \/ Start(s) \/ Stat(s) \/ DialAnswered(s) \/ DialFailed(s)
         \/ RemoveStale(s) \/ RemoveFailed(s) \/ BindSocket(s) \/ BindFailed(s)
         \/ Listen(s)
         \/ Chmod(s) \/ ChmodFailed(s) \/ Close(s) \/ RemoveAgain(s) \/ Crash(s)
  PROVE  Apart'
<1> USE SocketAssumption
    DEF Apart, SockTypeOK, SockSteps, Owning, Lone, Owns, Clear, Vacant, SockGoto,
        Unlink
<1>1. CASE Start(s)
  BY <1>1 DEF Start, MayMove
<1>2. CASE Stat(s)
  BY <1>2 DEF Stat
<1>3. CASE DialAnswered(s)
  BY <1>3 DEF DialAnswered
<1>4. CASE DialFailed(s)
  <2>1. ~misread' => ~misread /\ ~InUse
    BY <1>4, Zenon DEF DialFailed
  <2>2. Lone' /\ Vacant' /\ (~misread /\ ~InUse => Owns' /\ Clear')
    BY <1>4 DEF DialFailed, InUse, Listening
  <2> QED
    BY <2>1, <2>2, Zenon DEF Apart
<1>5. CASE RemoveStale(s)
  BY <1>5 DEF RemoveStale
<1>14. CASE RemoveFailed(s)
  BY <1>14 DEF RemoveFailed
<1>6. CASE BindSocket(s)
  BY <1>6 DEF BindSocket
<1>7. CASE BindFailed(s)
  BY <1>7 DEF BindFailed
<1>8. CASE Listen(s)
  BY <1>8 DEF Listen
<1>9. CASE Chmod(s)
  BY <1>9 DEF Chmod
<1>10. CASE ChmodFailed(s)
  BY <1>10 DEF ChmodFailed
<1>11. CASE Close(s)
  BY <1>11 DEF Close, MayMove
<1>12. CASE RemoveAgain(s)
  BY <1>12 DEF RemoveAgain
<1>13. CASE Crash(s)
  BY <1>13 DEF Crash
<1> QED
  BY <1>1, <1>2, <1>3, <1>4, <1>5, <1>6, <1>7, <1>8, <1>9, <1>10, <1>11,
     <1>12, <1>13, <1>14

\* The invariant, under all four faults.
LEMMA SupervisedInvariant == SockSpec => []SInv
<1>1. SockInit => SInv
  BY SocketAssumption
  DEF SockInit, SInv, Apart, SockTypeOK, SockSteps, Owning, Lone, Owns, Clear, Vacant
<1>2. SInv /\ [SockNext]_sockVars => SInv'
  <2> SUFFICES ASSUME SInv, [SockNext]_sockVars PROVE SInv'
    OBVIOUS
  <2>1. SockTypeOK'
    BY TypeStep DEF SInv
  <2>2. overlap' = overlap
    BY DEF SockNext, sockVars, Start, Stat, DialAnswered, DialFailed, RemoveStale, RemoveFailed,
           BindSocket, BindFailed, Listen, Chmod, ChmodFailed, Close, RemoveAgain,
           Crash, SockGoto
  <2>3. CASE UNCHANGED sockVars
    BY <2>3 DEF sockVars, SInv, Apart, SockTypeOK, Lone, Owns, Clear, Vacant
  <2>4. CASE SockNext
    BY <2>1, <2>2, <2>4, ServerStep DEF SockNext, SInv
  <2> QED
    BY <2>3, <2>4
<1> QED
  BY <1>1, <1>2, PTL DEF SockSpec

\* With one start or stop at a time and no failed dial to a listening daemon, a daemon
\* that is up is the one at the path, whatever crashes and whichever Chmod or Remove
\* fails in between, for any number of daemons.
THEOREM SupervisedReachable == SockSpec => []UpReachable
<1>1. SInv => UpReachable
  BY DEF SInv, Apart, Owns, Owning, UpReachable
<1> QED
  BY <1>1, SupervisedInvariant, PTL

\* With one start or stop at a time, a file that a dead daemon left refuses nobody who
\* can remove it; here a failed dial to a listening daemon does no harm.
THEOREM SupervisedStart == SockSpec => RefusedRightly
<1> DEFINE Right ==
      \A s \in Server \ unremoved :
        ~overlap /\ (DialAnswered(s) \/ BindFailed(s)) =>
          path # s /\ at[path] \in {"listen", "chmod", "up"}
<1>1. SInv => Right
  BY DEF SInv, Apart, Vacant, DialAnswered, BindFailed, InUse, Listening, SockGoto
<1>2. SInv /\ [SockNext]_sockVars => [Right]_sockVars
  BY <1>1
<1> QED
  BY <1>2, SupervisedInvariant, PTL DEF SockSpec, RefusedRightly

-----------------------------------------------------------------------------
\* In every interleaving of starts, stops and crashes, only a killed daemon leaves a
\* socket that nobody answers: Close unlinks before the daemon is gone.
THEOREM OrderlyStopsClean == SockSpec => []NoLitter
<1> DEFINE Clean == SockTypeOK /\ NoLitter
<1>1. SockInit => Clean
  BY DEF SockInit, SockTypeOK, SockSteps, NoLitter
<1>2. Clean /\ [SockNext]_sockVars => Clean'
  <2> SUFFICES ASSUME Clean, [SockNext]_sockVars PROVE NoLitter'
    BY TypeStep
  <2> USE SocketAssumption DEF SockTypeOK, SockSteps, NoLitter, SockGoto, Unlink
  <2>1. CASE UNCHANGED sockVars
    BY <2>1 DEF sockVars
  <2>2. ASSUME NEW s \in Server,
               \/ Start(s) \/ Stat(s) \/ DialAnswered(s) \/ DialFailed(s)
               \/ RemoveStale(s) \/ RemoveFailed(s) \/ BindSocket(s) \/ BindFailed(s)
        PROVE  NoLitter'
    BY <2>2 DEF Start, Stat, DialAnswered, DialFailed, RemoveStale, RemoveFailed,
                BindSocket, BindFailed
  <2>3. ASSUME NEW s \in Server,
               \/ Listen(s) \/ Chmod(s) \/ ChmodFailed(s) \/ Close(s)
               \/ RemoveAgain(s) \/ Crash(s)
        PROVE  NoLitter'
    BY <2>3 DEF Listen, Chmod, ChmodFailed, Close, RemoveAgain, Crash
  <2> QED
    BY <2>1, <2>2, <2>3 DEF SockNext
<1> QED
  BY <1>1, <1>2, PTL DEF SockSpec
=============================================================================
