--------------------------- MODULE MCChannelHopEp ---------------------------
(* The rendezvous channel and two others. *)
EXTENDS ChannelHopEp

CONSTANTS boot, c1, c2

MCChannels == { boot, c1, c2 }
=============================================================================
