---------------------------- MODULE MCChannelPick ----------------------------
(* Values for TLC: five channels and a distance of two, so that a timed and  *)
(* a persistent quarantine leave no channel at full distance; a clock whose  *)
(* second half begins while an expired hold is still remembered; a strong    *)
(* and a weak reading.                                                       *)
EXTENDS ChannelPick

MCSamples == {-90, -41}
=============================================================================
