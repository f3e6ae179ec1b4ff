----------------------------- MODULE MCEndToEnd -----------------------------
(***************************************************************************)
(* Small instances of EndToEnd for TLC.                                    *)
(***************************************************************************)
EXTENDS EndToEnd
=============================================================================
