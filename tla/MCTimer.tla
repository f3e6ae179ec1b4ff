------------------------------- MODULE MCTimer -------------------------------
(***************************************************************************)
(* A small instance of RetransmitTimer.                                    *)
(***************************************************************************)
EXTENDS RetransmitTimer

CONSTANTS a, b
=============================================================================
