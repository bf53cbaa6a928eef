-------------------------- MODULE MCGracefulRestart --------------------------
(***************************************************************************)
(* Small instances of GracefulRestart.                                     *)
(***************************************************************************)
EXTENDS GracefulRestart

CONSTANTS x1

MCPrefixes == {x1}

MCQueues == <<1, 2, 1>>

=============================================================================
