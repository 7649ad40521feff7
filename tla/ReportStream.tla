---------------------------- MODULE ReportStream ----------------------------
(***************************************************************************)
(* What the endpoint promises of the reports of one kind ("so the host     *)
(* observes every press/release edge", hid_relay.c): the host shows them   *)
(* in the order they were made and skips none, unless it is excused.  Once *)
(* excused it may skip or show an old one again, never one nobody made.    *)
(* Reports are numbered; number 0 is the state at boot.                    *)
(***************************************************************************)
EXTENDS Naturals

VARIABLES made,    \* the newest report
          shown,   \* the report the host shows
          excused  \* something happened that reports do not survive

streamVars == <<made, shown, excused>>

StreamInit == made = 0 /\ shown = 0 /\ excused = FALSE

Make == made' = made + 1 /\ shown' = shown /\ (excused => excused')

Excuse == excused' = TRUE /\ UNCHANGED <<made, shown>>

(* An excuse ends only when the host shows the newest report. *)
Show ==
  /\ UNCHANGED made
  /\ \/ shown' = shown + 1 /\ shown' <= made
     \/ excused /\ shown' \in 0..made
  /\ excused' \in {excused, excused /\ shown' # made}

StreamNext == Make \/ Excuse \/ Show

StreamSpec == StreamInit /\ [][StreamNext]_streamVars

=============================================================================
