# zmk-esb-endpoint in TLA+

zmk-esb-endpoint turns the last BLE profile of a ZMK keyboard into an ESB
transmitter (PTX) that talks to a USB dongle.  It runs on one small Cortex-M
under Zephyr.  This directory models its control logic, checks it with TLC and
proves part of it with TLAPS.  Paths below are relative to the repository.

## 1. The system

### Components

| component | source | state it keeps | operations |
|---|---|---|---|
| pairing | `src/esb/pairing.c` | `m_state`, the peer's device id, whether one is stored, two delayable works, the settings record `esb_ep/paired` | start, stop, unpair, the two timers, one handler per packet |
| endpoint control | `src/esb/esb_endpoint.c` | `esb_active`, a message queue of commands | profile listener, boot check, the `esb_ctrl` thread, linker wraps of ZMK's advertising and HID calls |
| transport | `src/esb/esb_transport.c` | the channel, the ESB FIFO and rings kept in lockstep with it (in-flight, critical, motion, noack), link quality, RX mailbox, saved radio PPI mask | send, send_blocking, set_channel, slot start/stop, the event callback in the RADIO ISR |
| hop engine | `src/esb/channel_hop_ep.c` | the agreed next channel, where to revert to, cooldowns and holds, quarantine, the cooperative handshake | nine works, two ISR hooks, connect/disconnect/user-TX hooks, three packets |
| offender table | `src/esb/channel_hop_ep.c` | hits per channel, the list avoided, two clocks, a record on flash | record a hit, age, distil, save, load |
| quarantine and pick | `src/esb/channel_hop.c` | expiry per channel, RSSI per channel | add, test, weighted random pick |
| HID relay | `src/esb/hid_relay.c` | current key and consumer report, modifier counts, two rings of pending reports | ZMK events in, reports out, retry, resync after a lost report |
| input processor | `src/esb/input_processor_esb.c` | accumulated motion, queue of button edges | event in, drain, retry, resync |
| shell relay | `src/shell/shell_relay.c` | session flag, five timers, a line of console output | request, data, drain, inactivity, background poll, console and log hooks |
| bench, behaviors | `src/esb/bench.c`, `src/behaviors/` | a small state machine; none | throughput test; keys for unpair, shell, goto |

Interaction: ZMK raises a profile event; the listener queues ACTIVATE or
DEACTIVATE; `esb_ctrl` quiesces BLE, takes the radio (slot start), starts
pairing.  Pairing tells the hop engine and the shell relay when the link comes
and goes.  The HID relay, the input processor and the shell relay send through
the transport, which tells the hop engine of each user packet, of TX_SUCCESS,
and of failures that last for a window; the hop engine moves the transport's
channel.  Received packets go from the ISR through a one-packet mailbox to
`rx_work`, and from there to `pairing_on_rx`, which dispatches them.

### Who runs when

| context | runs | may be interrupted by |
|---|---|---|
| RADIO ISR | the event callback and the hop engine's `_isr` hooks | nothing of this code |
| system workqueue (cooperative) | all works, `pairing_on_rx`, key behaviors, the shell relay's timers and packets | the ISR; other threads only where it blocks: a flash write, a semaphore |
| `esb_ctrl` (cooperative) | ACTIVATE, DEACTIVATE | the ISR; other threads only in its sleeps and in ZMK's calls |
| the thread ZMK raises key events on | the HID relay's listener and its drains | per the locking note in `hid_relay.c`: the workqueue, wherever the scheduler is not locked |
| input thread (preemptible) | mouse events | everything, between any two statements |
| shell, command, console and log threads (preemptible) | `esb unpair`, session output | everything, between any two statements |

A handler is therefore one action, split where it blocks, where the ISR can
change what the rest of it depends on, or, on a preemptible thread, at each
statement on shared state.

### What is hard

Commands that lag behind the flag they are compared with; flash writes in the
middle of a handler, and two contexts that wait for the flash at once; a mailbox
that drops packets; two sources of hops and an ISR that cancels their premises;
rings drained from two threads; lost acknowledgements; power loss between RAM and
flash; output printed while the session it belongs to ends.  `PROJECT.json` lists
each such place under `hazards`.

### What makes each component correct

- pairing: never silent while it waits for a dongle; CONNECTED has a peer; flash
  agrees with RAM; a bound keyboard is not taken over.
- endpoint control: the radio has one owner; the profile picked takes effect;
  ZMK's idea of advertising is right again after a switch.
- hop engine: works keep running on an active link; the rendezvous channel stays
  usable; a dead link is searched for ever; the handshake does not wedge.
- offender table: flash holds what was distilled last; the rendezvous channel is not
  avoided; a channel left alone is pardoned in the end, across reboots.
- transport: a ring slot belongs to the packet whose completion pops it; motion is
  booked once; keys flushed are resent.
- HID relay: the host sees each report in order, the newest gets through, and the
  modifiers are those of the keys held.
- input processor: motion is conserved, button edges arrive in order, the newest
  gets through.
- shell relay: a session has its timers, output has someone to send it, and the two
  sides agree in the end whether there is a session.

## 2. Modules

| module | models |
|---|---|
| `Pairing` | `pairing.c`, with the mailbox, the flash and the air |
| `EsbEndpoint` | EXTENDS `Pairing`: `esb_endpoint.c` and the radio hand-over; here `esb_ctrl` says when pairing starts and stops |
| `ChannelHopEp` | `channel_hop_ep.c`: which channel, when and why |
| `Offenders` | the offender table of `channel_hop_ep.c` and its record on flash |
| `ChannelPick` | `channel_hop.c`: quarantine on a clock that wraps, the pick by distance, the weighted draw |
| `TxRings` | the sending half of `esb_transport.c`, and the TX FIFO of the ESB library under it |
| `ReportStream` | what the endpoint promises of the reports of one kind (abstract) |
| `HidRelay` | `hid_relay.c`, shown to implement `ReportStream` for each kind |
| `InputProcessor` | `input_processor_esb.c` |
| `ShellRelay` | `shell_relay.c`, with a dongle |
| `MCPairing`, `MCEsbEndpoint`, `MCChannelHopEp`, `MCOffenders`, `MCChannelPick`, `MCTxRings`, `MCHidRelay` | values for TLC (the other modules take theirs from the cfg) |
| `EndpointProofs` (with `Pairing`), `ChannelHopProofs`, `OffendersProofs`, `ChannelPickProofs`, `TxRingsProofs`, `HidRelayProofs`, `InputProcessorProofs`, `ShellRelayProofs` | theorems about the module they extend |

Variables and actions carry the names of the C variables and functions; an action
in capitals (`PairReqSaved`, `HopMoves`) is the rest of the function it names in
its comment, after the point where it waits.  A definition under the comment
"Faulty variant" is not part of any specification: it is a plausible bug, kept to
show that a property notices it.

**Pairing.** `wq` says which save the workqueue waits for and with which record;
`sh` is the shell thread's place in `pairing_unpair`; `rx` is the mailbox, `air`
the last request not answered.  In this module `esb_ctrl` starts and stops the
machine whenever it likes.

**EsbEndpoint.** `ctrl` is the place of the `esb_ctrl` thread.  ZMK is external: it
has the profile, the advertising status it believes in (`advertising_status`) and
what the link layer does (`ll_adv`).  Only `CtrlSlotStart` and `CtrlDeactivate`
touch the radio; the PPI mask is reduced to one bit, whether BLE's channels are
enabled, which is enough to lose by saving it twice.  `hasty` is a history
variable: the last switch was made while the previous one was still being acted on.

**ChannelHopEp.** `quarantined` is the set of channels `quarantine_is` says yes of;
the weighted pick may return any channel outside it.  Times are flags
(`hop_cooldown`, `rendezvous_hold`, `coop_cooldown`, and `link_event` for the
silence clock).  `wq.at = "move"` is `hop_work_fn` between its decision and the
retune, `"offer"` is the offer work between the tag and the send; only the ISR can
run there.  `"decay"`, `"connect"` and `waking` are flash writes, in which threads
run.  `offer` is a history variable: what became of the last OFFER.

**TxRings.** `fifo`, `stash` and `radio` are the library's: what is queued, what is
parked across a retune, what is on the air.  The noack, critical and motion rings
are pushed, popped and snapped together, so they are one `ring`; only the ISR runs
under the scheduler lock, so `set_channel` and `send_blocking` are split between
stash and retune (`at = "hop"`, `"trip"`), and `send_blocking` again where it waits
(`"wait"`).  Mouse reports come from the work queue's retry and from the preemptible
input thread, whose send is split where it has tested the side trip's flag and not
yet taken the lock.  `moved`, `kb_owed`, `strayed` and `drifted` are history; `drifted` is set by the steps
that part a slot from its packet (a failed packet that stays queued, a flush under a transmission,
an acknowledgement between stash and restore, a slot stop, a send refused while the
slot is off, a send in the side trip) and cleared when nothing is left of either.
`esb_transport_flush_tx` has one caller, `send_idle_packet`, which queues the IDLE
behind it: the work queue does nothing else in between (`at = "idle"`).

**Offenders.** Two contexts, the workqueue and a thread that wakes the engine, count
minutes, hop, distil and save; `saves` are the `persist_write` calls that wait for
the flash, in order.  Boots load the record, with power lost anywhere.  `suppressed`
is history: a write was skipped because the record looked unchanged while an older
save was still waiting; `counted`: a minute of this session has reached the flash.

**ChannelPick.** The algorithms are operators on the state; the actions are the calls the
hop engine makes of them, with every target it could move to.  `now` is the clock the
code reads, `expires_at` what it stores; `uptime` and `until` are history: the same
without a width, `until` being the longest hold promised and not pardoned since.  The
random generator is replaced by every number it may return: `DrawFollowsWeights` counts
over all of them.  Offender lists come from `persist_rebuild_avoided` of `Offenders`.

**ReportStream and HidRelay.** A report is its kind and a number; number n is the
state after the n-th event that concerns the kind, so the abstract stream is three
numbers: newest made, newest shown, and whether something happened that a report
does not survive.  `HidRelay` has the refinement mapping (`KbStream`, `ConsStream`).
`Excuse` marks what the code itself cannot hide: a ring overflows, the FIFO is
flushed or fails, a session ends, the workqueue's drain overtakes the event thread's
hand.  The transport under it is reduced to what `TxRings` shows of it: a FIFO, and
a request to send a kind again after a failure or a flush.

**InputProcessor.** The input thread is split where it may be preempted, so also
between the read and the write of `d->dx += value`.  A report the transport has
accepted has left the module, with as much of its motion as the clamp lets through
(`Carried`); the rest is in `clipped`.  `raced` is history (the retry came in mid-addition),
as are `excused` and `skipped` (an edge was dropped or overtaken; one was skipped
without an excuse).

**ShellRelay.** `works` are the delayable works scheduled, `out` counts packets in the
relay core's buffer.  Commands, the console hook and the log backend are threads of
their own, split between test, store and schedule.  The dongle is external: it
starts and drops sessions as the comments say, and answers only in the payload of an
acknowledgement.



## 3. Runs

| run | instance | what it shows |
|---|---|---|
| `pairing` | 2 dongles, shell command built in | `NoStall`, `ConnectedHasPeer`, `HandshakeEnds` |
| `endpoint` | 2 dongles, queue of 2, no shell command | `RadioHandedOver`, `AdvertisingResynced`, `OffNeverConnected`, `FollowsPatientUser`, `RecordMatchesRam`, `RebindOnlyAfterForget`, `SwitchTakesEffect` |
| `hop` | rendezvous and 2 channels, fallback and persistent quarantine, no handshake | `ActiveTicks`, `RendezvousUsable`, `FallbackHasRunner`, `DeadLinkKeepsMoving` |
| `coop_hop` | the same channels, handshake, no fallback | `CoopEnds` |
| `offenders` | 4 channels (rendezvous, channel 0 and 2 more), a list of 1, a table of 2 | `RecordCurrent`, `RendezvousNotAvoided`, `OffenderAgesOut` |
| `pick` | 5 channels, distance 2, 1 offender, a clock of 10 ticks, holds of 2 and 1, readings of 2 strengths, 3 calls | `HoldsKept`, `PickIsClearest`, `DrawFollowsWeights` |
| `tx` | FIFO of 3, two units of motion, one in flight | `InflightMatchesRing`, `MotionBooked`, `Lockstep`, `LockstepForgetsNothing`, `StrandedOnlyByInput` |
| `hid` | a key and a media key that share a modifier, rings of 2 and 1, FIFO of 2, 2 events, 2 faults | `EveryEdgeInOrder` (the refinement), `NewestArrives`, `ModsFollowKeys` |
| `pointer` | ring of 2, 2 moves, reports of 1 unit at most, 3 edges, 1 fault | `MotionConserved`, `NoEdgeSkipped`, `NewestEdgeArrives` |
| `shell` | a buffer of 2 packets | `TimersMatchSession`, `OutputHasRunner`, `PeerLearns` |
| `endpoint_profile`, `tx_flush` | as above | a statement of the repository that the code does not keep, see section 6 |

The type invariants of the endpoint (which includes that of pairing), the hop engine,
the rings, the HID relay and the shell relay are checked; those of `ChannelPick`
and of the input processor are proved, and that of the offender table is stated only, as
what could break it breaks the properties too.

Bounds.  Two dongles: the one at home and a stranger; the code compares an id
only with the one stored, so a third would behave as the second.  A queue of two
(the least `CONFIG_ZMK_ESB_ENDPOINT_CTRL_MSGQ_DEPTH` allows; the default is 5) is
full after two events, so overflow happens.  Three channels: the code tells
apart the current one, the rendezvous, the previous one and a fresh one, and with
three, candidates run out.  Fallback and handshake are checked apart because
their product is too large for a run of a few minutes; they share `HopMoves` and
`Leave`, which both runs exercise.

Offenders: with a list of one and a table of two, two ordinary channels compete for
the list and a third evicts from the table; `THRESHOLD` 2, `PERIOD` 2 and `MaxHits` 3
let a channel be promoted, halved and saturated; `MaxElapsed` 1 minute between
looks loses nothing, since longer gaps are several looks.

Pick: with five channels, a timed and a persistent quarantine beside the current
channel leave no room at full distance, so the relaxation is used; a distance of two is
the least at which the halved one of offenders differs from none.  The clock runs long
enough (`MaxUptime`) for an expired hold to come back; hops and reverts that leave no
hold are not counted by `MaxCalls`, the three others are enough for a hold renewed,
shortened and pardoned.  Channels are not symmetric (distances), so no symmetry is used.

Pointer: `LIMIT` stands for `INT16_MAX`; with 1, two moves in one report are clamped.

A FIFO of three is full while an old packet, a failed one and a new one are queued;
`MaxMotion` (the moves of the user) exceeds the pointer's cap, `MaxSlots` exceeds the
FIFO, so slots of an earlier session and of this one are in the ring together.
`MaxSlots` stays below the depth of the motion ring: overwriting its oldest slots is
not modelled.

HID: the media key is held from the start, so that with two events its release and
the other key cross; a ring of one overflows with the resync that meets a report
there, the FIFO with the third report; two faults are a failure of a resync.
Pointer: three edges overflow a ring of two; two moves are one in the accumulator
and one in flight.  Shell: a buffer of two is empty, partly full and full.  Every
other variable has finitely many values.

Fairness.  `HandshakeEnds`: the workqueue runs what is due and the flash answers
(weak), and the home dongle hears one of infinitely many requests (strong: the
air loses packets, not for ever).  `SwitchTakesEffect`: `esb_ctrl` is scheduled
(weak); the boot check has strong fairness because each unpair key takes the
queue away for one save, and the queue is a FIFO.  `DeadLinkKeepsMoving`: works
run, clocks run, the transport goes on reporting failures of a link that fails
(it counts windows), and a retune the radio refuses succeeds in the end, since
the transport stops the radio after `HOP_STOP_TX_AFTER_BUSY` refusals.
`NewestArrives`, `NewestEdgeArrives`: the event thread and the resync run (weak), the
quiet window and the back-pressure pass, and the retry, which reschedules itself
while the transport is quiet, meets it open once (strong).  Failures are bounded by
`MaxFaults`.  `PeerLearns`: the nudge's cooldown passes, the user goes on typing
(without traffic the keyboard hears nothing at all, see `PollsWhileIdle` in section 6), and of
infinitely many packets one is delivered and answered (strong).  `OffenderAgesOut`:
a keyboard that is used (addresses set, connected, typed on) runs its works, minutes
pass while it is, and the flash answers (weak).

Deadlock is checked in every run but `pick`, where the bounds on the clock and the
calls end every behaviour.  Every property of a passing run has a faulty
variant of a mapped definition that breaks it (`mutants`).

## 4. Proofs

Eight modules, all for any value of the constants:

| module | assumptions | theorems |
|---|---|---|
| `EndpointProofs`, on `Pairing` | `DonglesAssumption` | `PairingTypeCorrect`, `NeverStalls`, `ConnectedKnowsPeer`; `RecordIsRam` and `RebindForgetsFirst` (with `~SHELL_CMDS`) |
| `EndpointProofs`, on `EsbEndpoint` | that, and `DepthAssumption` | `EndpointImplementsPairing`, `EndpointTypeCorrect`, `RadioIsHandedOver`, `AdvertisingIsResynced`, `PatientUserIsFollowed`; `EndpointRecordIsRam`, `EndpointRebindForgetsFirst`, `OffIsNeverConnected` (with `~SHELL_CMDS`) |
| `ChannelHopProofs` | `ChannelsAssumption` | `HopTypeCorrect`, `RendezvousStaysUsable`, `FallbackIsRun`, `ActiveKeepsTicking`, `HandshakesEnd` |
| `OffendersProofs` | `OffendersAssumption` | `OffendersTypes`, `RendezvousIsNotAvoided`, `ListsServeThePick`, `RecordIsCurrent` |
| `ChannelPickProofs` | `PickAssumption` | `PickTypeCorrect`, `HoldsAreKept`, `PickLeavesMostRoom`, `DrawsFollowWeights`, `DrawServesTheHop` |
| `TxRingsProofs` | `TxAssumption` | `TxTypesHold`, `HeldBackByTheRing`, `NoMotionTwice`, `CompletionPopsItsSlot`, `NoKeyForgotten`, `TripComesBack` |
| `HidRelayProofs` | `RelayAssumption` (with a finite set of inputs) | `ModsAreThoseHeld`, `RelayTypes`, `RelayImplementsStream` |
| `InputProcessorProofs` | `PointerAssumption` | `MotionIsConserved`, `PointerTypes`, `EdgesShownInOrder` |
| `ShellRelayProofs` | `ShellAssumption` | `ShellTypeCorrect`, `TimersBelongToSession`, `OutputIsDrained` |

The arguments.

*Pairing.* `PairingTypeOK` is inductive.  `NoStall` needs `SavesForget`: while a
save that forgets the dongle is under way, nothing on another thread can bring a
dongle back, as the only handler that could runs on the thread that waits.
Without it, `pairing_start` in the middle of a DISCONNECT's save would enter
VERIFYING, and the rest of the handler cancels the verify timer.  `ConnectedHasPeer`
needs `PeerKnown`, which adds VERIFYING, from which CONNECTED is reached.
`RecordMatchesRam` needs `RecordFollowsRam`: what RAM holds is on flash or is the
record being saved, and a pair's save replaces an empty record; the last conjunct
gives `RebindOnlyAfterForget`.

*EsbEndpoint.* Each step of the composed system is a step of the pairing machine or
leaves its variables alone, so the theorems about `PairingSpec` carry over.
`RadioInv`: the link layer's channels are off exactly while it is suspended, the mask
saved has them on (what a second save would lose), and it is suspended only while
ESB is active or `esb_ctrl` is about to make it so.  `AdvertisingResynced` is
inductive.  `OffInv` adds that a machine left UNPAIRED while ESB is off has an empty
mailbox: the packet that made it so was the last one, or else a PAIR_REQ behind it
would connect.  `PatientInv`: after a switch that was not hasty, every command queued
or under way is the one the profile wants, and one is there, or the boot check to
come, while ESB does not follow yet.

*ChannelHopEp.* The type invariant goes in four parts, by what the actions change
together.  `RendezvousUsable` and `FallbackHasRunner` are inductive; `ActiveTicks`
needs that only a link that is up is active, `CoopEnds` that a tagged OFFER has a
target.

*Offenders.* Sorting and selecting (`Distilled`, `Picked`) are stated by rank: the n-th entry is the one
with n - 1 before it.  That there always is exactly one is a counting argument, not an
induction: ranks grow along a strict order, so they map the entries one to one into as
many numbers, and therefore onto them (`RankTaken`).  So distillation makes a list of any
table (`DistilledList`: no longer than `SIZE`, over the threshold, the worst first,
without the rendezvous), and a list distilled again, as at every boot, is itself but for
channel 0 (`DistilledAgain`).  `RendezvousNotAvoided` needs that a link comes after the
addresses, from when on distillation leaves out the right channel.  `RecordCurrent` needs
`SyncInv` about the writes under way: each context has at most one, the last of them is of
the list distilled last, unless a later one was suppressed, and while two wait nobody can
distil, which is why a suppressed write is made good when the other one lands.

*ChannelPick.* `ClockInv`: as long as they fit into the clock's width, the clock and the
expiries are those of a clock without one, and no promise is farther ahead than the
longest hold; hence `HoldsKept`.  `PickIsClearest` is about one state: a channel is a
candidate at a distance exactly if it has the room (`CandidatesHaveRoom`; halving the
distance to an offender is doubling its room), so the first distance at which the loop
stops is the most room anybody has.  That the minima and maxima exist comes from the
well-foundedness of `<` on the naturals.  `DrawFollowsWeights` needs `AverageInv`: the
averages stay among the readings, as the sum of two products is between those of the
extremes, division is monotone (`DivisionMonotone`) and truncation goes towards zero, which
no reading exceeds.  So each weight is positive and grows with the signal (`WeightsAre`).
The running sum of the weights is a recursive function; that it exists and never falls is
shown by the first channel at which it would not (`SumExists`, `UptoGrows`), which stands in
for an induction.  The numbers that end the walk at a candidate are then those between two
values of the sum (`DrawIs`), as many as its weight (`DrawnAsOften`).  `DrawServesTheHop`
is the other side of a simplification: `ChannelHopEp` lets a pick be any channel that is
neither current nor in quarantine, none only if there is none, and that is what the
distances, the weights and the draw leave.  `ListsServeThePick` of `Offenders` does the
same for the lists that `ChannelPick` lets `persist_rebuild_avoided` distil.

*TxRings.* `TxInv` keeps the books: the in-flight count is taken from the ring slot by
slot, and so is its motion, so that a push, a pop and a resync each change both by what
the slot holds (`MotionAppend`, `MotionTail`); and it says in which phases of the work
queue the FIFO or the stash is empty (so also between a flush and the IDLE).  `LockInv` is lockstep proper: unless something
parted them, the ring is the slots of the packets in the FIFO, or in the stash while the
work queue has them there, and what is on the air is the front of those.  Lockstep alone
is not inductive, as between stash and restore the FIFO is empty or holds the side trip's
packet.  `NoKeyForgotten` rests on both and on `KbKept`: a keyboard report that is owed is
queued, parked or asked for again.  `TripInv`: behind the stash the FIFO is empty, so unless the input thread slips
a report in, the side trip's packet is alone in the FIFO and on the air, and its flag is
up while it is there; the wait for the flag is then a wait for the radio, and the retune
back is not refused.

*HidRelay.* `ModsInv`: each count is the number of held inputs that bring the
modifier, and a bit is set where the count is not zero.  For the refinement, each step
has to be a step of `ReportStream` or a stutter, so a report that reaches the host must
be the one shown or the next.  That needs `Ordered`, for each kind nothing excuses: FIFO
before hand before ring, each ascending, and every report made after the one shown is in
one of the three, but for the newest, which the event thread may still have to send.
The radio shows the head of the FIFO, and `OrderHead` says which number that can have.

*InputProcessor.* `MotionConserved` needs that a report carries motion only while it
is being sent, that motion always has a stamp (the retry forgets what has none) and
that what the thread has read is still there when it writes, unless the retry came
in between.  `NoEdgeSkipped` needs `EdgeOrder`: what the host shows, the edges in hand and
those in the ring form one line in which each is its predecessor or the next, and the
line ends with the newest edge, or with the one before while the input thread still has
to park or send it.  A resync may repeat an edge in the ring, so the line is not strictly
ascending; but while the input thread sends, only the newest can come into the ring, which
is why its report may go first.

*ShellRelay.* Both invariants are inductive with the type invariant.

Every invariant and every action property of a passing run is stated by a theorem.
Only model-checked: liveness (`HandshakeEnds`, `SwitchTakesEffect`, `DeadLinkKeepsMoving`,
`NewestArrives`, `NewestEdgeArrives`, `PeerLearns`, `OffenderAgesOut`), as fairness and
`ENABLED` are beyond the prover, and what the two refuting runs find.

## 5. Not modelled (yet), and the plan

1. `TxRings`: the retransmit count and its override, the bench as a sender that pushes
   no slots, link quality and the windows of failure; the receive side: a mailbox read while
   the ISR writes it.
2. `Negotiation`: proposals, the synced flag, bursts and the blocking side trip.

Left out for good: the vendored ESB library and the dongle (external; modelled as
far as the code under `src/src` depends on them), logging, `esb status`, the
crystal and vector-table handling of the slot, feedback events, `session_hits`, the
number of offenders configured at run time, records superseded on flash.

## 6. What the runs and the proofs found

Checked by a run of their own:

- `endpoint_profile`: leaving the ESB profile before ACTIVATE has been executed
  queues nothing, because the listener compares with `esb_active`
  (`esb_endpoint.c:221`); ESB keeps the radio on a BLE profile.  With a patient
  user the README's promise holds (`PatientUserIsFollowed`).
- `tx_flush`: `esb_transport_send` flushes a full FIFO while a packet is on the air
  and queues the new one (`esb_transport.c:1466`).  When the old packet is
  acknowledged the library removes the front of the FIFO, which is the new packet,
  and its slot is popped as delivered: a key press sent then is lost, and no resync
  is asked for.  The trace: three packets fill the FIFO, the first goes on the air, a key
  report flushes and follows, the first packet is acknowledged.  Behind the other flush,
  that of `send_idle_packet`, it is the IDLE that such an acknowledgement removes.

Stated in the modules and refuted there by TLC, without a run that is kept:

- `LinkUpOnlyConnected` (Pairing): the unpair key and a second ACTIVATE leave CONNECTED
  without calling `channel_hop_ep_on_disconnected` (`pairing.c:141`, `:115`).
- `ArmedAfterOffer` (ChannelHopEp): the tag that should identify the OFFER's completion
  is set before the OFFER is queued (`channel_hop_ep.c:1207`): an earlier packet's
  success arms the commit, and the keyboard may hop although the dongle never heard
  the OFFER.
- `RetryKeepsDecision` (ChannelHopEp): the fallback flag is consumed before a retune
  that can fail (`channel_hop_ep.c:1009`), so the retry decides something else.
- `UserTxOnActive` (TxRings): `m_sync_tx_in_progress` is tested before the scheduler is
  locked (`esb_transport.c:1390`), so the input thread can queue a report during the
  side trip; it leaves on the rendezvous channel, and the retune back is refused.
- `HandGoesFirst` (HidRelay): the reports a drain has in hand are to go first
  (comment at `hid_relay.c:198`); the workqueue's retry can overtake them, and
  `EveryEdgeInOrder` excuses it.
- `MotionOnce` (InputProcessor): the lock is to make the snapshot atomic
  (`input_processor_esb.c:144`, `:229`), but `d->dx += value` is not under it: a retry
  in mid-addition is undone by the write, and the motion it took is sent twice.

- `PollsWhileIdle` (ShellRelay): a session cancels the background poll
  (`shell_relay.c:360`), and `inactivity_work_fn` (`:163`) ends the session without
  starting it again, although the README has the idle keyboard poll periodically
  (`README.md:127-130`).
- `HeldIffAhead` (ChannelPick): a channel is to be in quarantine iff its expiry is greater
  than the clock (`channel_hop.h:61`), but the test is on the circle: from half the clock's
  range after its expiry (24.9 days) on, a forgotten hold is in force again for as long.

Seen while modelling, and contained in the models:

- After a failure the packet stays queued and its motion is refunded, so the motion is
  delivered twice if the packet gets through later.
- Motion held back by back-pressure has no retry of its own unless a button changed
  too (`input_processor_esb.c:184`): it waits for the next event.
- Buttons are not tracked while ESB is inactive (`input_processor_esb.c:285`): one
  released then is still down in the next session's reports.
- HOP_ACCEPT's counter-proposal is not compared with the quarantine
  (`channel_hop_ep.c:1395`), and `on_disconnected` does not cancel `hop_work` (`:1337`).
- A write of the offender record is suppressed by comparing with what was written
  last, while an older save may still wait (`channel_hop_ep.c:397`); the next check
  catches up.
- `quarantine_add` compares expiries as numbers (`channel_hop.c:88`): a hold that ends
  after the wrap of the clock is refused if an earlier one of the same channel, however
  long expired, is remembered.  `HoldsKept` is stated up to there.
- A promoted offender can be evicted from the table by newer ones, although the comment
  at `channel_hop_ep.c:420` has only decay erode it.
- With `SHELL_CMDS`, a PAIR_REQ between the statements of `esb unpair` leaves flash
  and RAM different; `RecordMatchesRam` is therefore checked and proved without it.
