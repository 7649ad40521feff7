------------------------------ MODULE MCPairing ------------------------------
(* Two dongles in range, one of them home. *)
EXTENDS Pairing

CONSTANTS home, other

MCDongles == { home, other }
==============================================================================
