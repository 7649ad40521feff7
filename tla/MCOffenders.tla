---------------------------- MODULE MCOffenders ----------------------------
(* Values for Offenders: three channels beside the rendezvous compete for a *)
(* table of two, of which one is remembered.                                *)
EXTENDS Offenders

CONSTANTS rv, zero, c1, c2

MCChannels == {rv, zero, c1, c2}

=============================================================================
