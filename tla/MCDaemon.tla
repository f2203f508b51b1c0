------------------------------ MODULE MCDaemon ------------------------------
(***************************************************************************)
(* Daemon with two Unix clients and two HTTP requests: one can be waited   *)
(* for while the other arrives.                                            *)
(***************************************************************************)
EXTENDS Daemon, TLC

CONSTANTS u1, u2, h1, h2

=============================================================================
