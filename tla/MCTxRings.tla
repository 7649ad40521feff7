------------------------------ MODULE MCTxRings ------------------------------
(* Values for TLC: a FIFO of three is full while an old packet, a failed one *)
(* and a new one are queued; the user can move once more than the cap.      *)
EXTENDS TxRings

MCFifoSize == 3
MCInflightCap == 1
MCMaxMotion == 2
MCMaxSlots == 5

=============================================================================
