---------------------------- MODULE MCEsbEndpoint ----------------------------
(* Two dongles in range, one of them home. *)
EXTENDS EsbEndpoint

CONSTANTS home, other

MCDongles == { home, other }
==============================================================================
