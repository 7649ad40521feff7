--------------------------- MODULE InputProcessor ---------------------------
(***************************************************************************)
(* input_processor_esb.c: motion adds up in an accumulator and leaves with *)
(* the next report; button edges made while the transport defers wait in a *)
(* ring; a retry and a resync on the work queue send what waits.           *)
(*                                                                         *)
(* The input thread may be preempted by the work queue wherever the        *)
(* scheduler is not locked, so also between the stamp of an event, the     *)
(* read and the write of its `d->dx += value'.  Only the work queue makes  *)
(* the transport quiet, so its own handlers meet no -EAGAIN and are one    *)
(* action each.                                                            *)
(*                                                                         *)
(* Every delta is one unit of motion on one axis.  A report is the number  *)
(* of the button edge it shows and the motion it carries.  A report the    *)
(* transport accepts has left this module: what a failure does to its      *)
(* motion is in TxRings, here it asks for a resync of the buttons.         *)
(***************************************************************************)
EXTENDS Naturals, Sequences, SequencesExt

CONSTANTS
  DEPTH,      \* CONFIG_ZMK_ESB_ENDPOINT_IP_PENDING_BTN_QUEUE
  LIMIT,      \* INT16_MAX: the motion a report has room for
  MaxMoves,   \* bound: deltas the user makes
  MaxEdges,   \* bound: presses and releases
  MaxFaults   \* bound: reports that are accepted and not delivered

ASSUME PointerAssumption ==
  /\ DEPTH \in Nat \ {0} /\ LIMIT \in Nat \ {0}
  /\ MaxMoves \in Nat /\ MaxEdges \in Nat /\ MaxFaults \in Nat

VARIABLES
  acc,        \* dx, dy, scroll_x, scroll_y
  stamp,      \* accum_start_ms: "none", "fresh", "stale" (by now too old)
  edge,       \* number of the state d->buttons is in
  pending,    \* pending_buttons
  retry,      \* retry_work is scheduled
  at,         \* where the input thread is
  sync,       \* the event it handles ends a packet of events
  old,        \* the value of acc it has read
  changed,    \* button_changed
  hand,       \* drain_pending_buttons: what it took from the ring
  taken,      \* the report in send_mouse_report: edge, motion and stamp
  active,     \* the endpoint is active and connected
  quiet, pressure, \* esb_transport_is_quiet and _pointer_backpressure
  resync,     \* the transport has been asked to resync the mouse
  shown,      \* edge of the last report accepted
  moved, sent, dropped, \* history: motion made, sent, dropped as stale
  clipped,    \* history: motion a report had no room for
  faults,     \* history
  owed,       \* history: the session still owes the newest edge
  excused,    \* history: an edge was dropped or overtaken
  skipped,    \* history: an edge was skipped or shown out of order, not excused
  raced       \* history: the retry took the accumulator in mid-addition

motion == <<acc, stamp, moved, sent, dropped, clipped, raced>>
event == <<sync, old, changed>>
thread == <<at, event, hand, taken>>
view == <<shown, skipped, owed>>
edges == <<edge, pending, view, excused>>
env == <<active, quiet, pressure, resync, faults>>
vars == <<motion, thread, edges, env, retry>>

NoReport == [edge |-> 0, motion |-> 0, stamp |-> "none"]

Init ==
  /\ acc = 0 /\ stamp = "none" /\ moved = 0 /\ sent = 0 /\ dropped = 0
  /\ clipped = 0
  /\ edge = 0 /\ pending = <<>> /\ shown = 0 /\ retry = FALSE
  /\ at = "idle" /\ sync = FALSE /\ old = 0 /\ changed = FALSE
  /\ hand = <<>> /\ taken = NoReport
  /\ active = FALSE /\ quiet = FALSE /\ pressure = FALSE
  /\ resync = FALSE /\ faults = 0
  /\ owed = FALSE /\ excused = FALSE /\ skipped = FALSE /\ raced = FALSE

Defers == quiet \/ pressure

(* Faulty variant: a full ring refuses the newest. *)
Kept_newest_lost(numbers) ==
  SubSeq(numbers, 1, IF Len(numbers) < DEPTH THEN Len(numbers) ELSE DEPTH)

(* A ring that overflows loses its oldest entries. *)
Kept(numbers) ==
  SubSeq(numbers, 1 + (IF Len(numbers) > DEPTH THEN Len(numbers) - DEPTH ELSE 0),
         Len(numbers))

Overflows(numbers) == Len(numbers) > DEPTH

(* History: an edge may be skipped or shown out of order from now until the *)
(* newest is shown and no other is on its way.                              *)
Excuse(cause) ==
  excused' = ((excused \/ cause)
    /\ (shown' # edge' \/ pending' # <<>> \/ hand' # <<>> \/ at' # "idle"))

(* The CLAMP to the width of a report; the accumulator is wider. *)
Carried(amount) == IF amount > LIMIT THEN LIMIT ELSE amount

(* send_hid_report_raw of one report after another, outside a quiet window. *)
Accepted(numbers, amount, excuse) ==
  LET all == <<shown>> \o numbers IN
  /\ shown' = Last(all)
  /\ skipped' = (skipped \/ (~excused /\ ~excuse /\ \E i \in DOMAIN numbers :
                               all[i + 1] \notin {all[i], all[i] + 1}))
  /\ owed' = (owed /\ shown' # edge)
  /\ sent' = sent + Carried(amount)
  /\ clipped' = clipped + IF amount > LIMIT THEN amount - LIMIT ELSE 0

-----------------------------------------------------------------------------
(* esb_ip_handle_event, on the input thread *)

(* A delta: the stamp first. *)
MoveStamps(isSync) ==
  /\ at = "idle" /\ active /\ moved < MaxMoves
  /\ stamp' = IF stamp = "none" THEN "fresh" ELSE stamp
  /\ at' = "read" /\ sync' = isSync /\ changed' = FALSE
  /\ UNCHANGED <<acc, moved, sent, dropped, clipped, raced, old, hand, taken>>
  /\ UNCHANGED <<edges, env, retry>>

MoveReads ==
  /\ at = "read" /\ at' = "write" /\ old' = acc
  /\ UNCHANGED <<motion, sync, changed, hand, taken, edges, env, retry>>

(* The last event of a packet makes a report. *)
MoveWrites ==
  /\ at = "write" /\ acc' = old + 1 /\ moved' = moved + 1
  /\ at' = IF sync THEN "defer" ELSE "idle"
  /\ UNCHANGED <<stamp, sent, dropped, clipped, raced, event, hand, taken>>
  /\ UNCHANGED <<edge, pending, view, env, retry>>
  /\ Excuse(FALSE)

Button ==
  /\ at = "idle" /\ active /\ edge < MaxEdges
  /\ edge' = edge + 1 /\ owed' = TRUE
  /\ at' = "defer" /\ changed' = TRUE
  /\ UNCHANGED <<motion, sync, old, hand, taken, pending, shown, skipped, env, retry>>
  /\ Excuse(FALSE)

-----------------------------------------------------------------------------
(* send_mouse_report *)

ParkEdge ==
  pending' = IF changed THEN Kept(Append(pending, edge)) ELSE pending

ParkLoses == changed /\ Overflows(Append(pending, edge))

(* Motion alone stays in the accumulator, and nobody is asked to send it. *)
Deferred ==
  /\ at = "defer"
  /\ IF Defers THEN ParkEdge /\ at' = (IF changed THEN "sched" ELSE "idle")
               ELSE at' = "drain" /\ UNCHANGED pending
  /\ UNCHANGED <<motion, event, hand, taken, edge, view, env, retry>>
  /\ Excuse(Defers /\ ParkLoses)

DrainTakes ==
  /\ at = "drain" /\ at' = "send" /\ hand' = pending /\ pending' = <<>>
  /\ UNCHANGED <<motion, event, taken, env, retry>>
  /\ UNCHANGED <<edge, view, excused>>

DrainSends ==
  /\ at = "send" /\ hand # <<>> /\ ~quiet /\ hand' = Tail(hand)
  /\ Accepted(<<Head(hand)>>, 0, FALSE)
  /\ UNCHANGED <<acc, stamp, moved, dropped, raced, at, event, taken>>
  /\ UNCHANGED <<edge, pending, env, retry>>
  /\ Excuse(FALSE)

(* Faulty variant: the tail is forgotten. *)
DrainReparks_dropped ==
  /\ at = "send" /\ hand # <<>> /\ quiet
  /\ hand' = <<>> /\ at' = "park"
  /\ UNCHANGED <<motion, event, taken, edge, pending, view, env>>
  /\ UNCHANGED retry
  /\ Excuse(FALSE)

(* -EAGAIN: the tail goes back in front of what came meanwhile. *)
DrainReparks ==
  /\ at = "send" /\ hand # <<>> /\ quiet
  /\ pending' = Kept(hand \o pending) /\ hand' = <<>> /\ at' = "park"
  /\ UNCHANGED <<motion, event, taken, edge, view, env, retry>>
  /\ Excuse(Overflows(hand \o pending))

EdgeParked ==
  /\ at = "park" /\ ParkEdge /\ at' = "sched"
  /\ UNCHANGED <<motion, event, hand, taken, edge, view, env, retry>>
  /\ Excuse(ParkLoses)

RetryScheduled ==
  /\ at = "sched" /\ at' = "idle" /\ retry' = TRUE
  /\ UNCHANGED <<motion, event, hand, taken, edge, pending, view>>
  /\ UNCHANGED env
  /\ Excuse(FALSE)

(* Motion too old is dropped, unless a button changed. *)
StaleDropped ==
  /\ at = "send" /\ hand = <<>> /\ ~changed /\ stamp = "stale"
  /\ dropped' = dropped + acc /\ acc' = 0 /\ stamp' = "none" /\ at' = "idle"
  /\ UNCHANGED <<moved, sent, clipped, raced, event, hand, taken, env, retry>>
  /\ UNCHANGED <<edge, pending, view>>
  /\ Excuse(FALSE)

ReportTaken ==
  /\ at = "send" /\ hand = <<>> /\ (changed \/ stamp # "stale")
  /\ taken' = [edge |-> edge, motion |-> acc, stamp |-> stamp]
  /\ acc' = 0 /\ stamp' = "none" /\ at' = "mine"
  /\ UNCHANGED <<moved, sent, dropped, clipped, raced, event, hand, edges, env, retry>>

ReportSent ==
  /\ at = "mine" /\ ~quiet /\ at' = "idle" /\ taken' = NoReport
  /\ Accepted(<<taken.edge>>, taken.motion, FALSE)
  /\ UNCHANGED <<acc, stamp, moved, dropped, raced, event, hand>>
  /\ UNCHANGED <<edge, pending, env, retry>>
  /\ Excuse(FALSE)

(* Faulty variant: the motion is not put back. *)
ReportRefused_no_merge ==
  /\ at = "mine" /\ quiet /\ at' = "sched" /\ taken' = NoReport
  /\ stamp' = IF stamp = "none" THEN taken.stamp ELSE stamp
  /\ ParkEdge
  /\ UNCHANGED <<acc, moved, sent, dropped, clipped, raced, event, hand>>
  /\ UNCHANGED <<edge, view, env, retry>>
  /\ Excuse(ParkLoses)

(* -EAGAIN: the motion is added back and keeps the older stamp. *)
ReportRefused ==
  /\ at = "mine" /\ quiet /\ at' = "sched" /\ taken' = NoReport
  /\ acc' = acc + taken.motion
  /\ stamp' = IF stamp = "none" THEN taken.stamp ELSE stamp
  /\ ParkEdge
  /\ UNCHANGED <<moved, sent, dropped, clipped, raced, event, hand>>
  /\ UNCHANGED <<edge, view, env, retry>>
  /\ Excuse(ParkLoses)

InputThread ==
  \/ MoveReads \/ MoveWrites \/ Deferred \/ DrainTakes \/ DrainSends \/ DrainReparks
  \/ EdgeParked \/ RetryScheduled \/ StaleDropped \/ ReportTaken
  \/ ReportSent \/ ReportRefused

-----------------------------------------------------------------------------
(* The work queue *)

(* The work queue shows an edge while the input thread has an older report. *)
Overtaken(numbers) == numbers # <<>> /\ (hand # <<>> \/ at = "mine")

(* While the transport defers it reschedules itself.  Motion is taken in any *)
(* case and sent if it has a stamp that is not too old.                      *)
retry_work_fn ==
  LET flushes == acc # 0 /\ stamp = "fresh"
      numbers == pending \o IF flushes THEN <<edge>> ELSE <<>>
  IN
  /\ retry /\ ~Defers /\ retry' = FALSE
  /\ pending' = <<>> /\ acc' = 0 /\ stamp' = "none"
  /\ Accepted(numbers, IF flushes THEN acc ELSE 0, Overtaken(numbers))
  /\ dropped' = dropped + (IF stamp = "stale" THEN acc ELSE 0)
  /\ raced' = (raced \/ at \in {"read", "write"})
  /\ UNCHANGED <<moved, thread, edge, env>>
  /\ Excuse(Overtaken(numbers))

(* The transport asks for the buttons: the ring and the current state, or, if *)
(* it defers, the state goes into the ring.  Nothing after the session.       *)
esb_ip_resync_cb ==
  /\ resync /\ resync' = FALSE
  /\ CASE ~active -> UNCHANGED <<pending, retry, view, sent, clipped>>
       [] active /\ Defers ->
            /\ pending' = Kept(Append(pending, edge)) /\ retry' = TRUE
            /\ UNCHANGED <<view, sent, clipped>>
       [] active /\ ~Defers ->
            /\ pending' = <<>> /\ UNCHANGED retry
            /\ Accepted(Append(pending, edge), 0, Overtaken(Append(pending, edge)))
  /\ UNCHANGED <<acc, stamp, moved, dropped, raced, thread, edge, active, quiet>>
  /\ UNCHANGED <<pressure, faults>>
  /\ Excuse(active /\ IF Defers THEN Overflows(Append(pending, edge))
                              ELSE Overtaken(Append(pending, edge)))

-----------------------------------------------------------------------------
(* The transport, the session and the clock *)

QuietChanges ==
  /\ quiet' = ~quiet
  /\ UNCHANGED <<motion, thread, edges, retry, active, pressure, resync, faults>>

PressureChanges ==
  /\ pressure' = ~pressure
  /\ UNCHANGED <<motion, thread, edges, retry, active, quiet, resync, faults>>

(* The quiet window is over and the reports in flight have been acknowledged. *)
TransportClears ==
  /\ Defers /\ quiet' = FALSE /\ pressure' = FALSE
  /\ UNCHANGED <<motion, thread, edges, retry, active, resync, faults>>

(* A report accepted is not delivered: the host lacks the newest edge. *)
ReportLost ==
  /\ faults < MaxFaults /\ faults' = faults + 1
  /\ active /\ resync' = TRUE /\ owed' = TRUE
  /\ UNCHANGED <<motion, thread, edge, pending, shown, skipped, excused, retry>>
  /\ UNCHANGED <<active, quiet, pressure>>

SessionChanges ==
  /\ active' = ~active /\ owed' = FALSE
  /\ UNCHANGED <<motion, thread, edge, pending, shown, skipped, excused, retry>>
  /\ UNCHANGED <<quiet, pressure, resync, faults>>

MotionAges ==
  /\ \/ stamp = "fresh" /\ stamp' = "stale" /\ UNCHANGED taken
     \/ taken.stamp = "fresh" /\ taken' = [taken EXCEPT !.stamp = "stale"]
        /\ UNCHANGED stamp
  /\ UNCHANGED <<acc, moved, sent, dropped, clipped, raced, at, event, hand>>
  /\ UNCHANGED <<edges, env, retry>>

Next ==
  \/ \E isSync \in BOOLEAN : MoveStamps(isSync)
  \/ Button \/ InputThread
  \/ retry_work_fn \/ esb_ip_resync_cb
  \/ QuietChanges \/ PressureChanges \/ TransportClears
  \/ ReportLost \/ SessionChanges \/ MotionAges

(* Threads run; on a link that works the transport is clear again and again, *)
(* and the retry, which polls, finds such a moment.                          *)
Fairness ==
  /\ WF_vars(InputThread) /\ WF_vars(esb_ip_resync_cb) /\ SF_vars(retry_work_fn)
  /\ WF_vars(TransportClears)

Spec == Init /\ [][Next]_vars /\ Fairness

-----------------------------------------------------------------------------
(* Properties *)

PointerTypeOK ==
  /\ {acc, old, moved, sent, dropped, clipped} \subseteq Nat
  /\ stamp \in {"none", "fresh", "stale"} /\ edge \in 0..MaxEdges
  /\ Len(pending) <= DEPTH /\ ToSet(pending) \subseteq 0..edge
  /\ at \in {"idle", "read", "write", "defer", "drain", "send", "park", "sched",
            "mine"}
  /\ Len(hand) <= DEPTH /\ ToSet(hand) \subseteq 0..edge
  /\ taken \in [edge : 0..MaxEdges, motion : 0..MaxMoves,
               stamp : {"none", "fresh", "stale"}]
  /\ {retry, sync, changed, active, quiet, pressure, resync} \subseteq BOOLEAN
  /\ {owed, excused, skipped, raced} \subseteq BOOLEAN
  /\ shown \in 0..edge /\ faults \in 0..MaxFaults

(* Every unit of motion is in the accumulator, in the report being sent, sent, *)
(* dropped as too old or cut off by the clamp, and in one of them only ("a     *)
(* delta arriving mid-send must not be lost to the clear"), as long as the     *)
(* retry did not take the accumulator in the middle of an addition.            *)
Accounted == moved = acc + taken.motion + sent + dropped + clipped
MotionConserved == ~raced => Accounted

(* The same without that condition, which the lock was to make needless. *)
MotionOnce == at \notin {"read", "write"} => Accounted

(* The host sees each press and release in order, except across what Excuse  *)
(* is called with: a ring that overflows, and reports of the work queue that *)
(* overtake those the input thread has in hand.                              *)
NoEdgeSkipped == ~skipped

(* The newest press or release is accepted, or asked for again and accepted, *)
(* while the session lasts: no phantom drag stays.                           *)
NewestEdgeArrives == owed ~> ~owed

=============================================================================
