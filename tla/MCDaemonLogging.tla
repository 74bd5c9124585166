--------------------------- MODULE MCDaemonLogging --------------------------
(***************************************************************************)
(* Instances of DaemonLogging for TLC.                                     *)
(***************************************************************************)
EXTENDS DaemonLogging, TLC

ThreeWriters == {"start", "signals", "service"}

CONSTANT c1

WantedAlone == c1 :> 2
=============================================================================
