------------------------------- MODULE TxRings -------------------------------
(***************************************************************************)
(* The sending half of esb_transport.c: the TX FIFO of the ESB library and *)
(* the rings the transport keeps beside it.  Each send pushes one slot and *)
(* each completion pops one; nothing but the order ties a slot to its      *)
(* packet.  The library, the radio ISR, the threads that send, the hop and *)
(* the side trip to the rendezvous channel act on both.                    *)
(*                                                                         *)
(* The three rings (noack, critical, motion) are pushed, popped and        *)
(* snapped together, so they are one ring here.  A packet is what the      *)
(* transport tells apart: its kind ("kb" stands for consumer reports too), *)
(* the motion it carries, and whether it is the newest keyboard report     *)
(* (fresh, which is history).  Retransmissions are part of one completion. *)
(* Build: HID_NOACK=n, channel hop and rendezvous on, as Kconfig has them. *)
(***************************************************************************)
EXTENDS Naturals, Sequences, FiniteSets, SequencesExt

CONSTANTS
  FIFO_SIZE,     \* CONFIG_ESB_TX_FIFO_SIZE
  INFLIGHT_CAP,  \* CONFIG_ZMK_ESB_ENDPOINT_POINTER_INFLIGHT_CAP
  MaxMotion,     \* bound: units of motion the user makes
  MaxSlots       \* bound: slots in the ring, less than MOTION_RING_SIZE

ASSUME TxAssumption ==
  /\ FIFO_SIZE \in Nat \ {0} /\ INFLIGHT_CAP \in Nat \ {0}
  /\ MaxMotion \in Nat /\ MaxSlots \in Nat \ {0}

VARIABLES
  on,       \* the ESB library is initialised (a slot has started)
  fifo,     \* its TX FIFO, front first
  stash,    \* tx_stash: the FIFO parked across a retune
  radio,    \* the packet being transmitted, or NoPacket when the radio is idle
  visiting, \* the radio is tuned to the rendezvous channel, m_addr.channel is not
  ring,     \* the slots between tail and head
  m_pointer_inflight_count,
  refund,   \* m_motion_refund
  hid_resync_pending,     \* m_hid_resync_pending: kinds to send again
  quiet,                  \* m_tx_quiet_until_ms is in the future
  m_sync_tx_in_progress,
  at,       \* the work queue: "none", in set_channel between the stash and the
            \* retune ("hop"), the same in send_blocking ("trip"), in its wait
            \* for the completion ("wait"), or in send_idle_packet between
            \* the flush and the send ("idle")
  input,    \* the preemptible input thread: "none", or "tested" the sync flag
  strayed,  \* history: it has sent while the radio was visiting
  moved,    \* history: motion the user made
  kb_owed,  \* history: the newest keyboard report has not been delivered
  drifted   \* history: a slot and its packet have gone separate ways (Drifts)

tuning == <<visiting, quiet, at, strayed>>
books == <<ring, m_pointer_inflight_count, refund, hid_resync_pending>>
vars == <<on, fifo, stash, radio, tuning, books, m_sync_tx_in_progress, input,
          moved, kb_owed, drifted>>

Packets == [kind : {"kb", "mouse", "other", "sync", "none"},
            motion : 0..MaxMotion, fresh : BOOLEAN]
Packet(kind, motion) ==
  [kind |-> kind, motion |-> motion, fresh |-> kind = "kb"]
NoPacket == Packet("none", 0)

(* What send classifies a report as: enum esb_transport_hid_kind. *)
Slot(p) == [hid |-> IF p.kind \in {"kb", "mouse"} THEN p.kind ELSE "none",
            motion |-> p.motion]
HidKinds(slots) == {slots[i].hid : i \in DOMAIN slots} \ {"none"}
WithMotion(slots) == Cardinality({i \in DOMAIN slots : slots[i].motion > 0})
(* The motion in the slots, each unit with the slot it is in. *)
Units(slots) == UNION {{i} \X (1..slots[i].motion) : i \in DOMAIN slots}
Motion(slots) == Cardinality(Units(slots))
Slots(packets) == [i \in DOMAIN packets |-> Slot(packets[i])]
FrontOf(packets) == IF packets = <<>> THEN NoPacket ELSE Head(packets)
(* The packets without the one a side trip has put in front. *)
User(packets) ==
  IF FrontOf(packets).kind = "sync" THEN Tail(packets) ELSE packets
esb_tx_full == Len(fifo) >= FIFO_SIZE

(* A packet, and packets, once a report of this kind has been sent after. *)
Aged(kind, p) ==
  IF kind = "kb" THEN [kind |-> p.kind, motion |-> p.motion, fresh |-> FALSE] ELSE p
After(kind, packets) == [i \in DOMAIN packets |-> Aged(kind, packets[i])]

Init ==
  /\ on = FALSE /\ fifo = <<>> /\ stash = <<>> /\ radio = NoPacket
  /\ visiting = FALSE /\ quiet = FALSE /\ at = "none" /\ strayed = FALSE
  /\ ring = <<>> /\ m_pointer_inflight_count = 0 /\ refund = 0
  /\ hid_resync_pending = {}
  /\ m_sync_tx_in_progress = FALSE /\ input = "none"
  /\ moved = 0 /\ kb_owed = FALSE /\ drifted = FALSE

(* Slots and packets may go separate ways when cause holds of the step, and *)
(* are together again once there is neither.                               *)
Drifts(cause) ==
  drifted' = /\ drifted \/ cause
             /\ ~(fifo' \o stash' \o ring' = <<>> /\ radio' = NoPacket)

(***************************************************************************)
(* Bookkeeping                                                             *)
(***************************************************************************)

(* Faulty variant: the slots are given up, the count stays. *)
tx_bookkeeping_resync_counted ==
  /\ ring' = <<>>
  /\ hid_resync_pending' = hid_resync_pending \cup HidKinds(ring)
  /\ UNCHANGED m_pointer_inflight_count

(* Faulty variant: nobody is asked to send again. *)
tx_bookkeeping_resync_silent ==
  ring' = <<>> /\ m_pointer_inflight_count' = 0 /\ UNCHANGED hid_resync_pending

(* Every slot is harvested for the kinds to send again, and given up. *)
tx_bookkeeping_resync ==
  /\ ring' = <<>>
  /\ m_pointer_inflight_count' = 0
  /\ hid_resync_pending' = hid_resync_pending \cup HidKinds(ring)

(* Faulty variant: a failure books the motion and leaves the slot. *)
motion_ring_consume_again(failed) ==
  IF ring = <<>> \/ (failed /\ refund > MaxMotion) THEN UNCHANGED books ELSE
  /\ ring' = IF failed THEN ring ELSE Tail(ring)
  /\ m_pointer_inflight_count' = WithMotion(ring')
  /\ refund' = IF failed THEN refund + Head(ring).motion ELSE refund
  /\ UNCHANGED hid_resync_pending

(* The slot at the tail, which may not be that of the packet completed. *)
motion_ring_consume(failed) ==
  LET rec == Head(ring)
      moves == rec.motion > 0
  IN
  IF ring = <<>> THEN UNCHANGED books ELSE
  /\ ring' = Tail(ring)
  /\ m_pointer_inflight_count' =
       IF moves /\ m_pointer_inflight_count > 0
         THEN m_pointer_inflight_count - 1 ELSE m_pointer_inflight_count
  /\ refund' = IF failed THEN refund + rec.motion ELSE refund
  /\ hid_resync_pending' =
       hid_resync_pending \cup IF failed THEN HidKinds(<<rec>>) ELSE {}

(* Faulty variant: the packets go back and their slots are given up, as    *)
(* after a flush.                                                          *)
esb_restore_tx_or_drop_resync ==
  /\ stash' = <<>> /\ fifo' = fifo \o stash
  /\ tx_bookkeeping_resync

(* esb_restore_tx_or_drop: the stash goes behind what the FIFO holds, and   *)
(* the radio is not started.  A stash that does not go back is never read.  *)
esb_restore_tx_or_drop ==
  /\ stash' = <<>>
  /\ \/ /\ on /\ Len(fifo) + Len(stash) <= FIFO_SIZE
        /\ fifo' = fifo \o stash
        /\ UNCHANGED <<ring, m_pointer_inflight_count, hid_resync_pending>>
     \/ /\ ~(on /\ Len(fifo) + Len(stash) <= FIFO_SIZE)
        /\ tx_bookkeeping_resync /\ UNCHANGED fifo

(***************************************************************************)
(* Sending                                                                 *)
(***************************************************************************)

(* What follows the refusals in esb_transport_send: flush when full, apply  *)
(* the refund (or drop it once it is stale), push, write.  The library      *)
(* starts the radio if it is idle, with the front of the FIFO; while it is  *)
(* not initialised it refuses the write, after the push.                    *)
Submit(kind, motion, pending) ==
  \E applied \in IF kind = "mouse" THEN {0, refund} ELSE {0} :
    LET p == Packet(kind, motion + applied)
        slots == IF esb_tx_full THEN <<>> ELSE ring
        packets == IF esb_tx_full THEN <<>> ELSE After(kind, fifo)
    IN
    /\ esb_tx_full \/ Len(ring) < MaxSlots
    /\ ring' = Append(slots, Slot(p))
    /\ m_pointer_inflight_count' =
         (IF esb_tx_full THEN 0 ELSE m_pointer_inflight_count)
           + IF p.motion > 0 THEN 1 ELSE 0
    /\ refund' = IF kind = "mouse" THEN 0 ELSE refund
    /\ hid_resync_pending' =
         pending \cup IF esb_tx_full THEN HidKinds(ring) ELSE {}
    /\ fifo' = IF on THEN Append(packets, p) ELSE packets
    /\ radio' = IF on /\ radio = NoPacket THEN Head(fifo')
                ELSE Aged(kind, radio)
    /\ kb_owed' = (kb_owed \/ (on /\ kind = "kb"))
    /\ Drifts(~on \/ (esb_tx_full /\ radio # NoPacket) \/ at = "wait")

(* A report or a control packet.  In the quiet window and during the side  *)
(* trip send refuses it; a shell packet it also refuses when the FIFO is   *)
(* full.  Motion waits while the pointer is held back.                      *)
Accepts(kind) ==
  /\ ~quiet
  /\ kind = "shell" => ~esb_tx_full
  /\ kind = "mouse" => m_pointer_inflight_count < INFLIGHT_CAP
PacketKind(kind) == IF kind = "shell" THEN "other" ELSE kind

esb_transport_send(kind) ==
  /\ at = "none" /\ ~m_sync_tx_in_progress /\ Accepts(kind)
  /\ kind # "mouse" \/ moved < MaxMotion
  /\ moved' = IF kind = "mouse" THEN moved + 1 ELSE moved
  /\ UNCHANGED <<on, stash, tuning, m_sync_tx_in_progress, input>>
  /\ Submit(PacketKind(kind), IF kind = "mouse" THEN 1 ELSE 0, hid_resync_pending)

(* The input thread has found no side trip, and has not taken the lock. *)
InputTests ==
  /\ input = "none" /\ at = "none"
  /\ ~m_sync_tx_in_progress /\ Accepts("mouse") /\ moved < MaxMotion
  /\ input' = "tested" /\ moved' = moved + 1
  /\ UNCHANGED <<on, fifo, stash, radio, tuning, books, m_sync_tx_in_progress,
                 kb_owed, drifted>>

(* It takes the lock, when the work queue (which goes first) has nothing to *)
(* run.  A report the quiet window refuses now goes back to the input       *)
(* processor.                                                               *)
InputSends ==
  /\ input = "tested" /\ input' = "none"
  /\ at = "none" \/ (at = "wait" /\ m_sync_tx_in_progress)
  /\ strayed' = (strayed \/ (visiting /\ ~quiet))
  /\ UNCHANGED <<on, stash, visiting, quiet, at, m_sync_tx_in_progress>>
  /\ \/ /\ quiet /\ moved' = moved - 1
        /\ UNCHANGED <<fifo, radio, books, kb_owed, drifted>>
     \/ ~quiet /\ Submit("mouse", 1, hid_resync_pending) /\ UNCHANGED moved

(* hid_resync_work_fn and the consumer's callback, which sends the current *)
(* state.  While the transport is quiet the callback parks the report and  *)
(* its retry sends it: the same step, later.  After the session it sends   *)
(* nothing.                                                                *)
hid_resync_work_fn(kind) ==
  /\ kind \in hid_resync_pending
  /\ at = "none"
  /\ UNCHANGED <<on, stash, tuning, m_sync_tx_in_progress, input, moved>>
  /\ LET rest == hid_resync_pending \ {kind} IN
     \/ /\ on /\ ~m_sync_tx_in_progress /\ Accepts(kind)
        /\ Submit(kind, 0, rest)
     \/ /\ ~on /\ hid_resync_pending' = rest
        /\ UNCHANGED <<fifo, radio, ring, m_pointer_inflight_count, refund,
                       kb_owed, drifted>>

(* What send_idle_packet does first.  Its handler is on the work queue,     *)
(* which goes on with the send before any other thread runs.                *)
esb_transport_flush_tx ==
  /\ at = "none" /\ at' = "idle"
  /\ fifo' = <<>> /\ tx_bookkeeping_resync
  /\ UNCHANGED <<on, stash, radio, visiting, strayed, quiet, refund,
                 m_sync_tx_in_progress, input, moved, kb_owed>>
  /\ Drifts(radio # NoPacket)

(* The IDLE behind the flush; only interrupts come in between.  A refusal is *)
(* logged.                                                                  *)
send_idle_packet ==
  /\ at = "idle" /\ at' = "none"
  /\ UNCHANGED <<on, stash, visiting, strayed, quiet, m_sync_tx_in_progress,
                 input, moved>>
  /\ \/ Accepts("other") /\ Submit("other", 0, hid_resync_pending)
     \/ /\ ~Accepts("other")
        /\ UNCHANGED <<fifo, radio, books, kb_owed, drifted>>

(***************************************************************************)
(* The radio's interrupts                                                  *)
(***************************************************************************)

(* An acknowledgement: the library removes the front of the FIFO, whatever *)
(* it is by now, goes on with the next, and reports.  While a side trip is *)
(* on, the event is the side trip's.                                       *)
TxAcked ==
  /\ radio # NoPacket
  /\ fifo' = IF fifo = <<>> THEN <<>> ELSE Tail(fifo)
  /\ radio' = FrontOf(fifo')
  /\ kb_owed' = (kb_owed /\ ~radio.fresh)
  /\ m_sync_tx_in_progress' = FALSE
  /\ IF m_sync_tx_in_progress THEN UNCHANGED books ELSE motion_ring_consume(FALSE)
  /\ UNCHANGED <<on, stash, tuning, input, moved>>
  /\ Drifts(at \in {"hop", "trip"})

(* All retransmissions are spent: the packet stays at the front, the radio *)
(* idles until the next write, its slot goes; a full FIFO is flushed.  A   *)
(* failed side trip empties the FIFO and touches no ring.                   *)
TxFailed ==
  /\ radio # NoPacket /\ radio' = NoPacket
  /\ m_sync_tx_in_progress' = FALSE
  /\ \/ m_sync_tx_in_progress /\ fifo' = <<>> /\ UNCHANGED books
     \/ /\ ~m_sync_tx_in_progress /\ ~esb_tx_full
        /\ motion_ring_consume(TRUE) /\ UNCHANGED fifo
     \/ /\ ~m_sync_tx_in_progress /\ esb_tx_full
        /\ fifo' = <<>>
        /\ ring' = <<>> /\ m_pointer_inflight_count' = 0
        /\ refund' = refund + IF ring = <<>> THEN 0 ELSE Head(ring).motion
        /\ hid_resync_pending' = hid_resync_pending \cup HidKinds(ring)
  /\ UNCHANGED <<on, stash, tuning, input, moved, kb_owed>>
  /\ Drifts(~m_sync_tx_in_progress)

(***************************************************************************)
(* The hop                                                                 *)
(***************************************************************************)

(* esb_transport_set_channel up to the retune.  The scheduler is locked:    *)
(* only interrupts run before it goes on.                                  *)
Stash ==
  IF on THEN stash' = fifo /\ fifo' = <<>> ELSE UNCHANGED <<stash, fifo>>

HopStashes ==
  /\ at = "none" /\ at' = "hop" /\ Stash
  /\ UNCHANGED <<on, radio, visiting, strayed, quiet, books,
                 m_sync_tx_in_progress, input, moved, kb_owed, drifted>>

(* The radio is idle, or has been busy often enough to be stopped, which   *)
(* raises no event.                                                        *)
HopRetunes ==
  /\ at = "hop" /\ at' = "none"
  /\ radio' = NoPacket /\ visiting' = FALSE /\ strayed' = FALSE /\ quiet' = TRUE
  /\ esb_restore_tx_or_drop /\ refund' = 0
  /\ UNCHANGED <<on, m_sync_tx_in_progress, input, moved, kb_owed>>
  /\ Drifts(FALSE)

HopBusy ==
  /\ at = "hop" /\ at' = "none" /\ radio # NoPacket
  /\ esb_restore_tx_or_drop
  /\ UNCHANGED <<on, radio, visiting, strayed, quiet, refund,
                 m_sync_tx_in_progress, input, moved, kb_owed>>
  /\ Drifts(FALSE)

QuietPasses ==
  /\ quiet /\ at = "none" /\ quiet' = FALSE
  /\ UNCHANGED <<on, fifo, stash, radio, visiting, strayed, at, books,
                 m_sync_tx_in_progress, input, moved, kb_owed, drifted>>

(***************************************************************************)
(* The side trip to the rendezvous channel                                 *)
(***************************************************************************)

(* esb_transport_send_blocking up to its retune. *)
TripStashes ==
  /\ at = "none" /\ ~m_sync_tx_in_progress /\ at' = "trip" /\ Stash
  /\ UNCHANGED <<on, radio, visiting, strayed, quiet, books,
                 m_sync_tx_in_progress, input, moved, kb_owed, drifted>>

TripRefused ==
  /\ at = "trip" /\ at' = "none" /\ (radio # NoPacket \/ ~on)
  /\ esb_restore_tx_or_drop
  /\ UNCHANGED <<on, radio, visiting, strayed, quiet, refund,
                 m_sync_tx_in_progress, input, moved, kb_owed>>
  /\ Drifts(FALSE)

(* The radio is idle, the FIFO empty: the packet leaves at once. *)
TripSends ==
  /\ at = "trip" /\ at' = "wait" /\ radio = NoPacket /\ on
  /\ visiting' = TRUE /\ m_sync_tx_in_progress' = TRUE
  /\ fifo' = Append(fifo, Packet("sync", 0)) /\ radio' = FrontOf(fifo')
  /\ UNCHANGED <<on, stash, strayed, quiet, books, input, moved, kb_owed,
                 drifted>>

(* Back: the retune is refused while the radio transmits, and nobody looks. *)
(* The time is long enough for every retransmission: it only runs out when  *)
(* the slot was stopped and no event comes.                                 *)
Back(tuned) ==
  /\ at = "wait" /\ at' = "none"
  /\ ~m_sync_tx_in_progress \/ radio = NoPacket
  /\ visiting' = tuned /\ strayed' = (strayed /\ tuned)
  /\ esb_restore_tx_or_drop
  /\ radio' = IF radio = NoPacket THEN FrontOf(fifo') ELSE radio
  /\ m_sync_tx_in_progress' = FALSE
  /\ UNCHANGED <<on, quiet, refund, input, moved, kb_owed>>
  /\ Drifts(FALSE)

(* Faulty variant: the radio is not tuned back. *)
TripReturnsVisiting == Back(visiting)

TripReturns == Back(visiting /\ radio # NoPacket)

(***************************************************************************)
(* The slot                                                                *)
(***************************************************************************)

(* esb_disable empties the FIFO and stops the radio; the rings keep their  *)
(* slots.  The session is over: nothing is owed.                           *)
esb_transport_on_slot_stop ==
  /\ on /\ at \in {"none", "wait"}
  /\ on' = FALSE /\ fifo' = <<>> /\ radio' = NoPacket /\ kb_owed' = FALSE
  /\ UNCHANGED <<stash, tuning, books, m_sync_tx_in_progress, input, moved>>
  /\ Drifts(User(fifo) # <<>>)

esb_transport_on_slot_start ==
  /\ ~on /\ at \in {"none", "wait"}
  /\ on' = TRUE /\ visiting' = FALSE /\ strayed' = FALSE
  /\ UNCHANGED <<fifo, stash, radio, quiet, at, books, m_sync_tx_in_progress,
                 input, moved, kb_owed, drifted>>

Next ==
  \/ \E kind \in {"kb", "mouse", "other", "shell"} : esb_transport_send(kind)
  \/ InputTests \/ InputSends
  \/ \E kind \in {"kb", "mouse"} : hid_resync_work_fn(kind)
  \/ esb_transport_flush_tx \/ send_idle_packet
  \/ TxAcked \/ TxFailed
  \/ HopStashes \/ HopRetunes \/ HopBusy \/ QuietPasses
  \/ TripStashes \/ TripRefused \/ TripSends \/ TripReturns
  \/ esb_transport_on_slot_stop \/ esb_transport_on_slot_start

Spec == Init /\ [][Next]_vars

-----------------------------------------------------------------------------
(***************************************************************************)
(* Properties                                                              *)
(***************************************************************************)

(* Types and bounds: the FIFO never holds more than the library's array,    *)
(* however a stash, a side trip and a flush follow each other.             *)
TxTypeOK ==
  /\ {on, visiting, strayed, quiet, m_sync_tx_in_progress, kb_owed, drifted}
       \subseteq BOOLEAN
  /\ \A p \in ToSet(stash \o fifo) \cup {radio} : p \in Packets
  /\ Len(fifo) <= FIFO_SIZE /\ Len(stash) <= FIFO_SIZE /\ Len(ring) <= MaxSlots
  /\ \A s \in ToSet(ring) :
       s \in [hid : {"kb", "mouse", "none"}, motion : 0..MaxMotion]
  /\ m_pointer_inflight_count \in 0..MaxSlots
  /\ refund \in 0..MaxMotion /\ moved \in 0..MaxMotion
  /\ hid_resync_pending \subseteq {"kb", "mouse"}
  /\ at \in {"none", "hop", "trip", "wait", "idle"} /\ input \in {"none", "tested"}

(* What holds the pointer back is the number of slots that carry motion, no *)
(* matter which packets they belong to by now: a count above it would hold *)
(* the pointer back for good.                                              *)
InflightMatchesRing == m_pointer_inflight_count = WithMotion(ring)

(* No motion is booked twice: what may be refunded and what has been is no  *)
(* more than the user made (the cursor does not drift by the bookkeeping).  *)
MotionBooked == refund + Motion(ring) <= moved

(* Until one of the causes that Drifts names, the ring is the slots of the  *)
(* parked and queued packets, in their order, and the radio has the front:  *)
(* a completion pops its own slot.                                         *)
Lockstep ==
  ~drifted =>
    /\ ring = Slots(stash \o User(fifo))
    /\ radio # NoPacket =>
         radio = FrontOf(IF at \in {"hop", "trip"} THEN stash ELSE fifo)

(* The newest keyboard report, if it has not been delivered, is parked,     *)
(* queued or on the air, or its layer will be asked to send it again       *)
(* ("silently eats queued key/button edges", esb_transport.c:760).          *)
KbNotForgotten ==
  kb_owed => \/ "kb" \in hid_resync_pending
             \/ \E p \in ToSet(stash \o fifo) \cup {radio} : p.fresh

(* A step from lockstep forgets no key: flush, hop, side trip and           *)
(* completion may, only once slots and packets have gone separate ways.     *)
LockstepForgetsNothing ==
  [][~drifted /\ KbNotForgotten => KbNotForgotten' \/ drifted']_vars

(* Reports leave on the agreed channel only, and the side trip comes back to *)
(* it ("would silently break every subsequent user TX",                    *)
(* esb_transport.c:1668).                                                   *)
UserTxOnActive ==
  visiting => at = "wait" /\ radio.kind \in {"sync", "none"}

(* They do unless the input thread has slipped a report in between: no hop, *)
(* failed trip or slot stop in its middle strands the radio.               *)
StrandedOnlyByInput == UserTxOnActive \/ strayed

=============================================================================
