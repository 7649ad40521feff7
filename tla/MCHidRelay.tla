----------------------------- MODULE MCHidRelay -----------------------------
(* Values for TLC: a key and a media key that share a modifier.  The media   *)
(* key is held already, so that its release and the other key can cross.  A  *)
(* ring of one overflows with the resync that meets a report there, the FIFO *)
(* with the third report.                                                    *)
EXTENDS HidRelay

MCInputs == {"a", "vol"}
MCPAGE == [i \in MCInputs |-> IF i = "a" THEN "key" ELSE "consumer"]
MCEXPLICIT == [i \in MCInputs |-> {}]
MCIMPLICIT == [i \in MCInputs |-> {"S"}]
MCDEPTH == [k \in Kinds |-> IF k = "kb" THEN 2 ELSE 1]

=============================================================================
