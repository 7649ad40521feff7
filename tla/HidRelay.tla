------------------------------ MODULE HidRelay ------------------------------
(***************************************************************************)
(* hid_relay.c: key events become reports; reports made while the          *)
(* transport is quiet wait in a ring per kind; a retry and a resync on the *)
(* work queue send what waits or what was lost.                            *)
(*                                                                         *)
(* Two threads, as the locking note in the file has it: the one ZMK raises *)
(* events on, which the work queue may preempt wherever the scheduler is   *)
(* not locked, and the work queue, whose handlers do not block and are one *)
(* action each.  (Events the work queue itself raises are those behaviors  *)
(* of the model in which nothing comes in between.)  Only the work queue   *)
(* makes the transport quiet (a hop, a side trip), so -EAGAIN never comes  *)
(* in the middle of its own drains.                                        *)
(*                                                                         *)
(* A report is its kind and a number, counted per kind: number n is the    *)
(* state after the n-th event that concerns the kind.  The transport is    *)
(* reduced to what it promises: a FIFO, and a request for a kind whose     *)
(* report failed or was flushed (TxRings says when it keeps that promise). *)
(***************************************************************************)
EXTENDS Naturals, Sequences, FiniteSets, SequencesExt

CONSTANTS
  Inputs,     \* what the user can press
  PAGE,       \* usage page of an input: "mod" and "key" are one page in the code
  EXPLICIT,   \* explicit_modifiers of its event; a modifier's own bit
  IMPLICIT,   \* implicit_modifiers
  Before,     \* inputs held down since before the radio first started
  DEPTH,      \* HID_QUIET_KB_QUEUE_DEPTH and HID_QUIET_CONS_QUEUE_DEPTH
  FIFO_SIZE,  \* CONFIG_ESB_TX_FIFO_SIZE
  MaxEvents,  \* bound: events the user makes
  MaxFaults   \* bound: packets that fail, and flushes by others

Kinds == {"kb", "cons"}
Mods == UNION ({EXPLICIT[i] : i \in Inputs} \cup {IMPLICIT[i] : i \in Inputs})

ASSUME RelayAssumption ==
  /\ PAGE \in [Inputs -> {"mod", "key", "consumer"}]
  /\ EXPLICIT \in [Inputs -> SUBSET Mods] /\ IMPLICIT \in [Inputs -> SUBSET Mods]
  /\ IsFiniteSet(Inputs) /\ Before \subseteq Inputs
  /\ DEPTH \in [Kinds -> Nat \ {0}] /\ FIFO_SIZE \in Nat \ {0}
  /\ MaxEvents \in Nat /\ MaxFaults \in Nat

VARIABLES
  held,       \* inputs the user holds down
  rc,         \* explicit_mod_refcount and implicit_mod_refcount
  mods,       \* explicit_mods and implicit_mods
  made,       \* number of the state kb_body and cons_body are in
  pending,    \* kb_pending and cons_pending
  retry,      \* hid_retry_work is scheduled
  was_active,
  at, todo,   \* the event thread: where in send_keyboard or send_consumer, and
              \* the kinds it still has to send, the current one first
  snap,       \* its snapshot of the current report
  hand,       \* drain_pending: the reports taken from the ring and not sent
  link,       \* "off", "on" (the slot runs), "up" (active and connected)
  quiet,      \* esb_transport_is_quiet
  fifo, busy, \* the TX FIFO, and whether the radio works on it
  resync,     \* m_hid_resync_pending
  host,       \* the report the host shows, per kind
  events, faults, \* history: how many there have been
  owed,       \* history: kinds whose newest report the session still owes
  excused     \* history: kinds that were dropped or overtaken (Excuse)

body == <<held, rc, mods, made, events, was_active>>
thread == <<at, todo, snap, hand>>
radio == <<fifo, busy, resync>>
env == <<link, quiet, host, owed, faults>>
vars == <<body, thread, pending, retry, radio, env, excused>>

Report(kind, n) == [kind |-> kind, n |-> n]
Reports(kind, numbers) == [i \in DOMAIN numbers |-> Report(kind, numbers[i])]
KindsOf(reports) == {reports[i].kind : i \in DOMAIN reports}
active == link = "up"
ModsOf(set, i) == IF set = "explicit" THEN EXPLICIT[i] ELSE IMPLICIT[i]

Init ==
  /\ held = Before /\ made = [k \in Kinds |-> 0] /\ host = made
  /\ rc = [set \in {"explicit", "implicit"} |->
       [m \in Mods |-> Cardinality({i \in Before : m \in ModsOf(set, i)})]]
  /\ mods = [set \in {"explicit", "implicit"} |->
       UNION {ModsOf(set, i) : i \in Before}]
  /\ pending = [k \in Kinds |-> <<>>] /\ retry = FALSE /\ was_active = FALSE
  /\ at = "idle" /\ todo = <<>> /\ snap = 0 /\ hand = <<>>
  /\ link = "off" /\ quiet = FALSE
  /\ fifo = <<>> /\ busy = FALSE /\ resync = {}
  /\ events = 0 /\ faults = 0 /\ owed = {} /\ excused = {}

(* A report of this kind is on its way, or the host does not show the newest. *)
UnderWay(k) ==
  \/ pending[k] # <<>> \/ k \in KindsOf(fifo) \/ k \in ToSet(todo)
  \/ host[k] # made[k]

(* History: reports of these kinds may be skipped or shown out of order from *)
(* now until nothing of the kind is under way.                               *)
Excuse(kinds) == excused' = {k \in excused \cup kinds : UnderWay(k)'}

-----------------------------------------------------------------------------
(* The rings *)

(* Faulty variant: what is put back is not trimmed. *)
Kept_untrimmed(k, numbers) == numbers

(* A ring that overflows loses its oldest entries. *)
Kept(k, numbers) ==
  SubSeq(numbers, 1 + (IF Len(numbers) > DEPTH[k] THEN Len(numbers) - DEPTH[k]
                       ELSE 0), Len(numbers))

Overflown(k, numbers) == IF Len(numbers) > DEPTH[k] THEN {k} ELSE {}

(* esb_transport_send, outside a quiet window, of one report after another: a *)
(* full FIFO is flushed first and its kinds asked for again; the library      *)
(* refuses the write while the slot is off, and starts an idle radio.         *)
Fits(reports) ==
  LET n == Len(fifo) + Len(reports)
  IN IF n <= FIFO_SIZE THEN n ELSE 1 + ((n - FIFO_SIZE - 1) % FIFO_SIZE)

Flushed(reports) ==
  IF link = "off" THEN <<>>
  ELSE SubSeq(fifo \o reports, 1, Len(fifo) + Len(reports) - Fits(reports))

Sent(reports, pendingResync) ==
  LET all == fifo \o reports
  IN /\ resync' = pendingResync \cup KindsOf(Flushed(reports))
     /\ IF link = "off" THEN UNCHANGED <<faults, fifo, busy>>
        ELSE /\ fifo' = SubSeq(all, Len(all) - Fits(reports) + 1, Len(all))
             /\ busy' = (busy \/ reports # <<>>)

(* What the sends of a step excuse. *)
LostBy(reports) ==
  KindsOf(Flushed(reports)) \cup IF link = "off" THEN KindsOf(reports) ELSE {}

-----------------------------------------------------------------------------
(* hid_relay_cb, on the event thread *)

Concerned(i) ==
  IF PAGE[i] # "consumer" THEN <<"kb">>
  ELSE IF EXPLICIT[i] \cup IMPLICIT[i] # {} THEN <<"kb", "cons">> ELSE <<"cons">>

(* Faulty variant: a release takes its modifiers away from every other key. *)
mods_dec_unconditional(i) ==
  /\ rc' = [set \in DOMAIN rc |-> [m \in Mods |->
       IF m \in ModsOf(set, i) /\ rc[set][m] > 0 THEN rc[set][m] - 1
       ELSE rc[set][m]]]
  /\ mods' = [set \in DOMAIN mods |-> mods[set] \ ModsOf(set, i)]

mods_dec(i) ==
  /\ rc' = [set \in DOMAIN rc |-> [m \in Mods |->
       IF m \in ModsOf(set, i) /\ rc[set][m] > 0 THEN rc[set][m] - 1
       ELSE rc[set][m]]]
  /\ mods' = [set \in DOMAIN mods |->
       mods[set] \ {m \in ModsOf(set, i) : rc[set][m] = 1}]

mods_inc(i) ==
  /\ rc' = [set \in DOMAIN rc |-> [m \in Mods |->
       IF m \in ModsOf(set, i) THEN rc[set][m] + 1 ELSE rc[set][m]]]
  /\ mods' = [set \in DOMAIN mods |->
       mods[set] \cup {m \in ModsOf(set, i) : rc[set][m] = 0}]

(* An event: state is kept whether or not the link is up; the rings are      *)
(* cleared on the first event after it went down.  What was active decides   *)
(* whether the reports are sent, even if the link changes meanwhile.         *)
hid_relay_cb(i) ==
  LET ks == ToSet(Concerned(i)) IN
  /\ at = "idle" /\ events < MaxEvents
  /\ events' = events + 1
  /\ IF i \in held THEN mods_dec(i) ELSE mods_inc(i)
  /\ held' = IF i \in held THEN held \ {i} ELSE held \cup {i}
  /\ made' = [k \in Kinds |-> IF k \in ks THEN made[k] + 1 ELSE made[k]]
  /\ was_active' = active
  /\ IF was_active /\ ~active
       THEN retry' = FALSE /\ pending' = [k \in Kinds |-> <<>>]
       ELSE UNCHANGED <<retry, pending>>
  /\ IF active
       THEN at' = "snap" /\ todo' = Concerned(i) /\ owed' = owed \cup ks
       ELSE UNCHANGED <<at, todo, owed>>
  /\ UNCHANGED <<snap, hand, link, quiet, radio, host, faults>>
  /\ Excuse(IF active THEN {} ELSE Kinds)

kind == Head(todo)

(* The rest of send_keyboard and send_consumer for the current kind. *)
NextKind ==
  /\ todo' = Tail(todo) /\ at' = IF Len(todo) = 1 THEN "idle" ELSE "snap"

(* The locked section: the snapshot; in a quiet window it goes into the ring. *)
Snapshots ==
  /\ at = "snap" /\ snap' = made[kind]
  /\ IF quiet
       THEN /\ pending' = [pending EXCEPT ![kind] = Kept(kind, Append(@, snap'))]
            /\ at' = "sched"
       ELSE at' = "drain" /\ UNCHANGED pending
  /\ UNCHANGED <<body, todo, hand, retry, radio, env>>
  /\ Excuse(IF quiet THEN Overflown(kind, Append(pending[kind], snap')) ELSE {})

(* drain_pending, its locked section. *)
DrainTakes ==
  /\ at = "drain" /\ at' = "send"
  /\ hand' = pending[kind] /\ pending' = [pending EXCEPT ![kind] = <<>>]
  /\ UNCHANGED <<body, todo, snap, retry, radio, excused, env>>

(* A report taken from the ring is accepted. *)
DrainSends ==
  /\ at = "send" /\ hand # <<>> /\ ~quiet
  /\ hand' = Tail(hand)
  /\ Sent(<<Report(kind, Head(hand))>>, resync)
  /\ UNCHANGED <<body, at, todo, snap, pending, retry, env>>
  /\ Excuse(LostBy(<<Report(kind, Head(hand))>>))

(* Faulty variant: only the current report is put back, not the tail. *)
DrainReparks_dropped ==
  /\ at = "send" /\ hand # <<>> /\ quiet
  /\ hand' = <<>> /\ at' = "park"
  /\ UNCHANGED <<body, todo, snap, pending, retry, radio, env>>
  /\ Excuse({})

(* -EAGAIN: the transport has become quiet since; the tail goes back in front *)
(* of what came meanwhile.                                                    *)
DrainReparks ==
  /\ at = "send" /\ hand # <<>> /\ quiet
  /\ pending' = [pending EXCEPT ![kind] = Kept(kind, hand \o @)]
  /\ hand' = <<>> /\ at' = "park"
  /\ UNCHANGED <<body, todo, snap, retry, radio, env>>
  /\ Excuse(Overflown(kind, hand \o pending[kind]))

(* The ring is empty: the snapshot itself is sent, or refused. *)
SnapshotSent ==
  /\ at = "send" /\ hand = <<>>
  /\ IF quiet
       THEN at' = "park" /\ UNCHANGED <<todo, radio>>
       ELSE NextKind /\ Sent(<<Report(kind, snap)>>, resync)
  /\ UNCHANGED <<body, snap, hand, pending, retry, env>>
  /\ Excuse(IF quiet THEN {} ELSE LostBy(<<Report(kind, snap)>>))

SnapshotParked ==
  /\ at = "park" /\ at' = "sched"
  /\ pending' = [pending EXCEPT ![kind] = Kept(kind, Append(@, snap))]
  /\ UNCHANGED <<body, todo, snap, hand, retry, radio, env>>
  /\ Excuse(Overflown(kind, Append(pending[kind], snap)))

RetryScheduled ==
  /\ at = "sched" /\ retry' = TRUE /\ NextKind
  /\ UNCHANGED <<body, snap, hand, pending, radio, env>>
  /\ Excuse({})

EventThread ==
  \/ Snapshots \/ DrainTakes \/ DrainSends \/ DrainReparks \/ SnapshotSent
  \/ SnapshotParked \/ RetryScheduled

-----------------------------------------------------------------------------
(* The work queue *)

(* What the work queue sends overtakes what the event thread has in hand. *)
Overtaken(reports) == IF hand # <<>> THEN {kind} \cap KindsOf(reports) ELSE {}

(* In a quiet window it reschedules itself: nothing changes. *)
hid_retry_work_fn ==
  LET reports == Reports("kb", pending["kb"]) \o Reports("cons", pending["cons"])
  IN
  /\ retry /\ ~quiet
  /\ retry' = FALSE /\ pending' = [k \in Kinds |-> <<>>]
  /\ Sent(reports, resync)
  /\ UNCHANGED <<body, thread, env>>
  /\ Excuse(LostBy(reports) \cup Overtaken(reports))

(* send_keyboard and send_consumer outside a quiet window: ring, then state. *)
ResyncReports(k) == Reports(k, Append(pending[k], made[k]))

(* Faulty variant: only the keyboard is asked. *)
hid_resync_cb_kb_only ==
  LET kinds == IF active THEN resync \cap {"kb"} ELSE {}
      reports == IF "kb" \in kinds THEN ResyncReports("kb") ELSE <<>>
  IN
  /\ resync # {} /\ ~quiet
  /\ Sent(reports, {})
  /\ pending' = [k \in Kinds |-> IF k \in kinds THEN <<>> ELSE pending[k]]
  /\ UNCHANGED <<body, thread, retry, env>>
  /\ Excuse(LostBy(reports) \cup Overtaken(reports))

(* hid_resync_work_fn and hid_resync_cb: the kinds asked for, if the link is  *)
(* up; nothing after the session.                                             *)
hid_resync_cb ==
  LET kinds == IF active THEN resync ELSE {}
      reports == (IF "kb" \in kinds THEN ResyncReports("kb") ELSE <<>>)
                   \o IF "cons" \in kinds THEN ResyncReports("cons") ELSE <<>>
  IN
  /\ resync # {}
  /\ IF quiet
       THEN /\ resync' = {} /\ UNCHANGED <<fifo, busy>>
            /\ pending' = [k \in Kinds |-> IF k \in kinds
                 THEN Kept(k, Append(pending[k], made[k])) ELSE pending[k]]
            /\ retry' = (retry \/ kinds # {})
       ELSE /\ Sent(reports, {})
            /\ pending' = [k \in Kinds |-> IF k \in kinds THEN <<>> ELSE pending[k]]
            /\ UNCHANGED retry
  /\ UNCHANGED <<body, thread, env>>
  /\ Excuse(IF quiet
       THEN UNION {Overflown(k, Append(pending[k], made[k])) : k \in kinds}
       ELSE LostBy(reports) \cup Overtaken(reports))

-----------------------------------------------------------------------------
(* The transport and the session *)

(* A hop or a side trip starts a quiet window; time ends it. *)
QuietBegins ==
  /\ ~quiet /\ link # "off" /\ quiet' = TRUE
  /\ UNCHANGED <<body, thread, pending, retry, link, radio, host, owed, excused, faults>>

QuietEnds ==
  /\ quiet /\ quiet' = FALSE
  /\ UNCHANGED <<body, thread, pending, retry, link, radio, host, owed, excused, faults>>

TxAcked ==
  /\ busy
  /\ LET r == Head(fifo) IN
     /\ host' = [host EXCEPT ![r.kind] = r.n]
     /\ owed' = IF r.n = made[r.kind] THEN owed \ {r.kind} ELSE owed
  /\ fifo' = Tail(fifo) /\ busy' = (fifo' # <<>>)
  /\ UNCHANGED <<body, thread, pending, retry, link, quiet, resync, faults>>
  /\ Excuse({})

(* Retries exhausted: the packet stays in front until the radio is started   *)
(* again; a full FIFO is flushed.                                            *)
TxFailed ==
  /\ busy /\ busy' = FALSE /\ faults < MaxFaults /\ faults' = faults + 1
  /\ LET lost == IF Len(fifo) = FIFO_SIZE THEN KindsOf(fifo) ELSE {} IN
     /\ resync' = resync \cup {Head(fifo).kind} \cup lost
     /\ fifo' = IF lost # {} THEN <<>> ELSE fifo
     /\ UNCHANGED <<body, thread, pending, retry, link, quiet, host, owed>>
     /\ Excuse(lost)

(* Another sender, or the hop engine before it idles, flushes the FIFO. *)
OtherFlush ==
  /\ faults < MaxFaults /\ faults' = faults + 1
  /\ fifo # <<>> /\ fifo' = <<>> /\ busy' = FALSE
  /\ resync' = resync \cup KindsOf(fifo)
  /\ UNCHANGED <<body, thread, pending, retry, link, quiet, host, owed>>
  /\ Excuse(KindsOf(fifo))

SlotStarts ==
  /\ link = "off" /\ link' = "on"
  /\ UNCHANGED <<body, thread, pending, retry, quiet, radio, host, owed, excused, faults>>

Connects ==
  /\ link = "on" /\ link' = "up"
  /\ UNCHANGED <<body, thread, pending, retry, quiet, radio, host, owed, excused, faults>>

(* The session ends: nothing is owed any more. *)
Disconnects ==
  /\ link = "up" /\ link' = "on" /\ owed' = {}
  /\ UNCHANGED <<body, thread, pending, retry, quiet, radio, host, faults>>
  /\ Excuse(Kinds)

SlotStops ==
  /\ link = "on" /\ link' = "off"
  /\ fifo' = <<>> /\ busy' = FALSE /\ owed' = {}
  /\ UNCHANGED <<body, thread, pending, retry, quiet, resync, host, faults>>
  /\ Excuse(Kinds)

Next ==
  \/ \E i \in Inputs : hid_relay_cb(i)
  \/ EventThread
  \/ hid_retry_work_fn \/ hid_resync_cb
  \/ QuietBegins \/ QuietEnds
  \/ TxAcked \/ TxFailed \/ OtherFlush
  \/ SlotStarts \/ Connects \/ Disconnects \/ SlotStops

(* The event thread and the work queue run; a quiet window ends and lasts    *)
(* less long than the windows are apart, so that the retry, which polls,     *)
(* finds the transport ready; what does not fail is acknowledged.            *)
Fairness ==
  /\ WF_vars(EventThread) /\ WF_vars(hid_resync_cb) /\ SF_vars(hid_retry_work_fn)
  /\ WF_vars(QuietEnds) /\ WF_vars(TxAcked)

Spec == Init /\ [][Next]_vars /\ Fairness

-----------------------------------------------------------------------------
(* Properties *)

HidTypeOK ==
  /\ held \subseteq Inputs /\ events \in 0..MaxEvents /\ faults \in 0..MaxFaults
  /\ made \in [Kinds -> 0..MaxEvents] /\ host \in [Kinds -> 0..MaxEvents]
  /\ \A set \in {"explicit", "implicit"} :
       mods[set] \subseteq Mods /\ \A m \in Mods : rc[set][m] \in Nat
  /\ \A k \in Kinds :
       Len(pending[k]) <= DEPTH[k] /\ ToSet(pending[k]) \subseteq 1..made[k]
  /\ at \in {"idle", "snap", "drain", "send", "park", "sched"}
  /\ ToSet(todo) \subseteq Kinds /\ (at = "idle" <=> todo = <<>>)
  /\ snap \in 0..MaxEvents /\ ToSet(hand) \subseteq 1..MaxEvents
  /\ link \in {"off", "on", "up"} /\ {quiet, busy, retry, was_active} \subseteq BOOLEAN
  /\ Len(fifo) <= FIFO_SIZE /\ KindsOf(fifo) \subseteq Kinds
  /\ busy => fifo # <<>>
  /\ resync \subseteq Kinds /\ owed \subseteq Kinds /\ excused \subseteq Kinds

(* A modifier is in the report exactly while something held down brings it, *)
(* however presses and releases of keys that share it cross ("ZMK's known   *)
(* implicit-mod cross-release bug", hid_relay.c:36).                         *)
ModsFollowKeys ==
  \A set \in {"explicit", "implicit"} :
    mods[set] = UNION {ModsOf(set, i) : i \in held}

(* The host sees every edge, in order, except across what Excuse is called   *)
(* with: an overflow, a flush, the end of a session, and reports of the work *)
(* queue that overtake a drain of the event thread.                          *)
KbStream == INSTANCE ReportStream
  WITH made <- made["kb"], shown <- host["kb"], excused <- "kb" \in excused
ConsStream == INSTANCE ReportStream
  WITH made <- made["cons"], shown <- host["cons"], excused <- "cons" \in excused
EveryEdgeInOrder == KbStream!StreamSpec /\ ConsStream!StreamSpec

(* Nothing newer of a kind goes out while the event thread has older reports *)
(* of it in hand ("Drain the queue in arrival order", hid_relay.c:198).       *)
HandGoesFirst ==
  \A i \in DOMAIN fifo :
    hand # <<>> /\ fifo[i].kind = kind => fifo[i].n <= Head(hand)

(* The host comes to show the newest report while the session lasts, through *)
(* quiet windows, full rings, failures and flushes (no stuck keys).          *)
NewestArrives == \A k \in Kinds : k \in owed ~> k \notin owed

=============================================================================
