---------------------------- MODULE ChannelHopEp ----------------------------
(***************************************************************************)
(* The hop engine of the keyboard (src/esb/channel_hop_ep.c): on which     *)
(* channel the radio is, when it moves and where to.                       *)
(*                                                                         *)
(* Work items run on the system workqueue (cooperative).  The RADIO ISR    *)
(* runs between any two of their statements; the esb_ctrl thread and the   *)
(* threads that send HID reports run when the workqueue is free or waits   *)
(* for the flash.  So hop_work_fn is split where it has taken its decision *)
(* and not moved the radio yet, and coop_hop_offer_work_fn where it has    *)
(* tagged the OFFER and not queued it yet.                                 *)
(*                                                                         *)
(* Times are abstracted to the flags the code compares them for; what the  *)
(* PROPOSALs say to the dongle is left out, what its answers do is not.    *)
(***************************************************************************)
EXTENDS Naturals

CONSTANTS
  Channels,
  BootChannel,          \* esb_transport_get_rendezvous_channel()
  Invalid,              \* CHANNEL_HOP_INVALID
  COOP_HOP,             \* CONFIG_ZMK_ESB_ENDPOINT_COOP_HOP
  RENDEZVOUS,           \* CONFIG_ZMK_ESB_ENDPOINT_RENDEZVOUS
  QUARANTINE_PERSIST    \* CONFIG_..._CHANNEL_QUARANTINE_PERSIST

ASSUME ChannelsAssumption ==
  /\ BootChannel \in Channels
  /\ Invalid \notin Channels
  /\ COOP_HOP \in BOOLEAN
  /\ RENDEZVOUS \in BOOLEAN
  /\ QUARANTINE_PERSIST \in BOOLEAN

VARIABLES
  channel,                  \* m_addr.channel: where the radio is
  quarantined,              \* channels quarantine_is() says yes of
  m_committed_next,
  m_prev_channel,
  m_prev_known_channel,
  m_link_up,
  m_active,
  negotiate_work,           \* TRUE: scheduled; the same for the works below
  idle_check_work,
  hop_work,
  hop_retry_work,
  hop_cooldown,             \* m_hop_cooldown_until has not passed
  link_event,               \* m_last_link_event_ms: "never" (0), "recent",
                            \* or "silent" for RENDEZVOUS_FALLBACK_MS
  m_rendezvous_fallback_pending,
  rendezvous_hold,          \* m_rendezvous_hold_until has not passed
  wq,                       \* what the workqueue is in the middle of
  waking,                   \* a sender waits for the flash in enter_active_state
  m_coop_hop_state,
  m_coop_hop_target,
  m_last_tx_was_offer,
  coop_hop_offer_work,
  coop_hop_commit_work,
  coop_cooldown,            \* m_coop_hop_cooldown_until has not passed
  offer                     \* what became of the last OFFER (history)

placeVars == << channel, quarantined, m_prev_channel, m_prev_known_channel >>
linkVars == << m_link_up, m_active, negotiate_work, idle_check_work, waking >>
timeVars == << hop_cooldown, link_event >>
rendezvousVars == << m_rendezvous_fallback_pending, rendezvous_hold >>
hopWorks == << hop_work, hop_retry_work >>
coopVars == << m_coop_hop_state, m_coop_hop_target, m_last_tx_was_offer,
               coop_hop_offer_work, coop_hop_commit_work, coop_cooldown, offer >>
vars == << placeVars, m_committed_next, linkVars, timeVars, rendezvousVars,
           hopWorks, wq, coopVars >>

----------------------------------------------------------------------------
Kinds == { "fallback", "revert", "normal" }

(* The workqueue is free, waits for the flash inside hop_work_fn or        *)
(* on_connected, has decided a hop, or has tagged an OFFER.                *)
Free == [at |-> "free", kind |-> "normal", target |-> Invalid]
In(where) == [at |-> where, kind |-> "normal", target |-> Invalid]
WqPoints ==
  { Free, In("decay"), In("connect"), In("offer") }
    \union [at : { "move" }, kind : Kinds, target : Channels]

(* Other threads run only at these points. *)
ThreadsRun == wq.at \in { "free", "decay", "connect" }

Usable(c) == c # Invalid /\ c # channel /\ c \notin quarantined

(* channel_hop_pick_weighted: some channel that is neither quarantined nor *)
(* the current one; the distances and weights only narrow the choice.      *)
Pick ==
  LET candidates == Channels \ (quarantined \union { channel })
  IN IF candidates = {} THEN { Invalid } ELSE candidates

Init ==
  /\ channel = BootChannel
  /\ quarantined \in IF QUARANTINE_PERSIST THEN SUBSET Channels ELSE { {} }
  /\ m_committed_next = Invalid
  /\ m_prev_channel = Invalid
  /\ m_prev_known_channel = Invalid
  /\ m_link_up = FALSE
  /\ m_active = FALSE
  /\ negotiate_work = FALSE
  /\ idle_check_work = FALSE
  /\ hop_work = FALSE
  /\ hop_retry_work = FALSE
  /\ hop_cooldown = FALSE
  /\ link_event = "never"
  /\ m_rendezvous_fallback_pending = FALSE
  /\ rendezvous_hold = FALSE
  /\ wq = Free
  /\ waking = FALSE
  /\ m_coop_hop_state = "IDLE"
  /\ m_coop_hop_target = Invalid
  /\ m_last_tx_was_offer = FALSE
  /\ coop_hop_offer_work = FALSE
  /\ coop_hop_commit_work = FALSE
  /\ coop_cooldown = FALSE
  /\ offer = "none"

----------------------------------------------------------------------------
(* Coming and going of the link. *)

(* The ISR may see the OFFER acknowledged after the cancel and before the  *)
(* state is reset: then the commit work is left behind.                    *)
coop_hop_abort ==
  /\ coop_hop_offer_work' = FALSE
  /\ coop_hop_commit_work' \in { FALSE, m_last_tx_was_offer }
  /\ m_coop_hop_state' = "IDLE"
  /\ m_last_tx_was_offer' = FALSE
  /\ UNCHANGED << m_coop_hop_target, offer >>

(* Faulty variant: a wake-up restarts the idle check only. *)
enter_active_state_silent(flashing) ==
  /\ flashing => QUARANTINE_PERSIST /\ ~m_active
  /\ m_active' = TRUE
  /\ idle_check_work' = (idle_check_work \/ ~flashing)
  /\ UNCHANGED negotiate_work

(* enter_active_state.  persist_decay_check may write the record to flash  *)
(* before the timers are started; flashing says it does.                   *)
enter_active_state(flashing) ==
  IF m_active
    THEN /\ ~flashing
         /\ idle_check_work' = TRUE
         /\ UNCHANGED << m_active, negotiate_work >>
    ELSE /\ flashing => QUARANTINE_PERSIST
         /\ m_active' = TRUE
         /\ idle_check_work' = (idle_check_work \/ ~flashing)
         /\ negotiate_work' = (negotiate_work \/ ~flashing)

channel_hop_ep_on_connected ==
  /\ wq = Free
  /\ m_link_up' = TRUE
  /\ quarantined' = quarantined \ { BootChannel }
  /\ \E flashing \in BOOLEAN :
       /\ enter_active_state(flashing)
       /\ wq' = IF flashing THEN In("connect") ELSE wq
  /\ UNCHANGED << channel, m_committed_next, m_prev_channel,
                  m_prev_known_channel, waking, timeVars, rendezvousVars,
                  hopWorks, coopVars >>

OnConnectedFlashed ==
  /\ wq = In("connect")
  /\ wq' = Free
  /\ idle_check_work' = TRUE
  /\ negotiate_work' = TRUE
  /\ UNCHANGED << placeVars, m_committed_next, m_link_up, m_active, waking,
                  timeVars, rendezvousVars, hopWorks, coopVars >>

(* Called on the workqueue or by esb_ctrl.  hop_work is not cancelled.     *)
channel_hop_ep_on_disconnected ==
  /\ ThreadsRun
  /\ m_link_up' = FALSE
  /\ m_active' = FALSE
  /\ m_committed_next' = Invalid
  /\ m_prev_channel' = Invalid
  /\ m_prev_known_channel' = Invalid
  /\ hop_cooldown' = FALSE
  /\ link_event' = "never"
  /\ m_rendezvous_fallback_pending' = FALSE
  /\ rendezvous_hold' = FALSE
  /\ negotiate_work' = FALSE
  /\ idle_check_work' = FALSE
  /\ hop_retry_work' = FALSE
  /\ coop_cooldown' = FALSE
  /\ IF COOP_HOP
       THEN coop_hop_abort
       ELSE UNCHANGED << m_coop_hop_state, m_coop_hop_target,
                         m_last_tx_was_offer, coop_hop_offer_work,
                         coop_hop_commit_work, offer >>
  /\ UNCHANGED << channel, quarantined, hop_work, wq, waking >>

(* A HID or shell packet is sent: esb_transport_send calls                 *)
(* channel_hop_ep_note_user_tx.                                            *)
channel_hop_ep_note_user_tx ==
  /\ ThreadsRun
  /\ m_link_up
  /\ \E flashing \in BOOLEAN :
       /\ enter_active_state(flashing)
       /\ flashing => ~waking
       /\ waking' = (waking \/ flashing)
  /\ UNCHANGED << placeVars, m_committed_next, m_link_up, timeVars,
                  rendezvousVars, hopWorks, wq, coopVars >>

NoteUserTxFlashed ==
  /\ ThreadsRun
  /\ waking
  /\ waking' = FALSE
  /\ idle_check_work' = TRUE
  /\ negotiate_work' = TRUE
  /\ UNCHANGED << placeVars, m_committed_next, m_link_up, m_active, timeVars,
                  rendezvousVars, hopWorks, wq, coopVars >>

(* idle_check_work_fn and enter_idle_state.  The IDLE packet goes out      *)
(* behind a flush, which may drop an OFFER.                                *)
idle_check_work_fn ==
  /\ wq = Free
  /\ idle_check_work
  /\ idle_check_work' = FALSE
  /\ IF m_link_up /\ m_active
       THEN /\ m_active' = FALSE
            /\ negotiate_work' = FALSE
            /\ IF COOP_HOP
                 THEN /\ coop_hop_abort
                      /\ UNCHANGED coop_cooldown
                 ELSE UNCHANGED coopVars
       ELSE UNCHANGED << m_active, negotiate_work, coopVars >>
  /\ UNCHANGED << placeVars, m_committed_next, m_link_up, waking, timeVars,
                  rendezvousVars, hopWorks, wq >>

(* esb_ctrl executes ACTIVATE, also when ESB was active already: the radio *)
(* starts on the boot channel.                                             *)
esb_transport_set_addresses ==
  /\ ThreadsRun
  /\ channel' = BootChannel
  /\ UNCHANGED << quarantined, m_prev_channel, m_prev_known_channel,
                  m_committed_next, linkVars, timeVars, rendezvousVars,
                  hopWorks, wq, coopVars >>

----------------------------------------------------------------------------
(* Negotiation: what keeps m_committed_next and negotiate_work going.      *)

(* Sends a PROPOSAL, or not, and reschedules itself at one of two paces;   *)
(* while idle it only reschedules itself.                                  *)
negotiate_work_fn ==
  /\ wq = Free
  /\ negotiate_work
  /\ negotiate_work' = m_link_up
  /\ UNCHANGED << placeVars, m_committed_next, m_link_up, m_active,
                  idle_check_work, waking, timeVars, rendezvousVars, hopWorks,
                  wq, coopVars >>

(* CONFIRM: the dongle agrees to a channel.  One that is quarantined is    *)
(* refused, and a new round of PROPOSALs begins at once.                   *)
OnConfirm(agreed) ==
  /\ wq = Free
  /\ IF agreed \in quarantined
       THEN UNCHANGED m_committed_next
       ELSE m_committed_next' = agreed
  /\ negotiate_work' =
       \/ negotiate_work
       \/ /\ m_link_up /\ m_active
          /\ agreed \in quarantined \/ m_committed_next = Invalid
  /\ UNCHANGED << placeVars, m_link_up, m_active, idle_check_work, waking,
                  timeVars, rendezvousVars, hopWorks, wq, coopVars >>

channel_hop_ep_on_request ==
  /\ wq = Free
  /\ m_link_up
  /\ negotiate_work' = TRUE
  /\ UNCHANGED << placeVars, m_committed_next, m_link_up, m_active,
                  idle_check_work, waking, timeVars, rendezvousVars, hopWorks,
                  wq, coopVars >>

(* ACCEPT: the dongle may have counter-proposed.  Only the answer to the   *)
(* last OFFER passes the seq test.                                         *)
OnAccept(agreed) ==
  /\ COOP_HOP
  /\ wq = Free
  /\ m_coop_hop_state \in { "OFFERED", "ARMED" }
  /\ offer = "acked"
  /\ m_coop_hop_target' = agreed
  /\ UNCHANGED << placeVars, m_committed_next, linkVars, timeVars,
                  rendezvousVars, hopWorks, wq, m_coop_hop_state,
                  m_last_tx_was_offer, coop_hop_offer_work,
                  coop_hop_commit_work, coop_cooldown, offer >>

----------------------------------------------------------------------------
(* The RADIO ISR. *)

(* What becomes of the OFFER when a packet is acknowledged: it may be that *)
(* packet, if it is in the FIFO.                                           *)
Acked == IF offer = "queued" THEN { "queued", "acked" } ELSE { offer }

(* channel_hop_ep_on_tx_success_isr, then the link-quality threshold,      *)
(* which may call channel_hop_ep_on_link_degraded_isr.                     *)
TxSuccess ==
  LET armed == m_last_tx_was_offer /\ m_coop_hop_state = "OFFERED"
      may_offer == COOP_HOP /\ m_link_up /\ m_active /\ ~hop_cooldown
                   /\ m_coop_hop_state = "IDLE" /\ ~coop_cooldown
  IN /\ \E degraded \in { FALSE, may_offer } :
          /\ m_coop_hop_state' = IF armed THEN "ARMED"
                                 ELSE IF degraded THEN "OFFERED"
                                 ELSE m_coop_hop_state
          /\ coop_hop_offer_work' = (coop_hop_offer_work \/ degraded)
     /\ coop_hop_commit_work' = (coop_hop_commit_work \/ armed)
     /\ m_last_tx_was_offer' = FALSE
     /\ offer' \in Acked
     /\ m_prev_channel' = Invalid
     /\ rendezvous_hold' = FALSE
     /\ link_event' = "recent"
     /\ UNCHANGED << channel, quarantined, m_prev_known_channel,
                     m_committed_next, linkVars, hop_cooldown,
                     m_rendezvous_fallback_pending, hopWorks, wq,
                     m_coop_hop_target, coop_cooldown >>

(* The transport drops the FIFO and the OFFER in it without an event:      *)
(* esb_flush_tx_and_reset when it is full, a stash that cannot be restored.*)
OfferFlushed ==
  /\ offer = "queued"
  /\ offer' = "flushed"
  /\ UNCHANGED << placeVars, m_committed_next, linkVars, timeVars,
                  rendezvousVars, hopWorks, wq, m_coop_hop_state,
                  m_coop_hop_target, m_last_tx_was_offer, coop_hop_offer_work,
                  coop_hop_commit_work, coop_cooldown >>

(* channel_hop_ep_on_tx_fail_isr: the transport calls it when failures     *)
(* have lasted for one of its two windows, not for every lost packet.      *)
OfferFailed == m_last_tx_was_offer /\ m_coop_hop_state = "OFFERED"

TriggersHop ==
  /\ m_active
  /\ ~OfferFailed
  /\ ~rendezvous_hold
  /\ hop_cooldown => /\ RENDEZVOUS
                     /\ link_event = "silent"
                     /\ ~m_rendezvous_fallback_pending

TxFail ==
  /\ m_last_tx_was_offer' = FALSE
  /\ m_coop_hop_state' = IF OfferFailed THEN "IDLE" ELSE m_coop_hop_state
  /\ hop_work' = (hop_work \/ TriggersHop)
  /\ m_rendezvous_fallback_pending' =
       (m_rendezvous_fallback_pending \/ (TriggersHop /\ hop_cooldown))
  /\ UNCHANGED << placeVars, m_committed_next, linkVars, timeVars,
                  rendezvous_hold, hop_retry_work, wq, m_coop_hop_target,
                  coop_hop_offer_work, coop_hop_commit_work, coop_cooldown,
                  offer >>

----------------------------------------------------------------------------
(* hop_work_fn. *)

hop_retry_work_fn ==
  /\ wq = Free
  /\ hop_retry_work
  /\ hop_retry_work' = FALSE
  /\ hop_work' = TRUE
  /\ UNCHANGED << placeVars, m_committed_next, linkVars, timeVars,
                  rendezvousVars, wq, coopVars >>

(* It starts with persist_decay_check, which may wait for the flash. *)
HopFlashes ==
  /\ QUARANTINE_PERSIST
  /\ wq = Free
  /\ hop_work
  /\ hop_work' = FALSE
  /\ wq' = In("decay")
  /\ UNCHANGED << placeVars, m_committed_next, linkVars, timeVars,
                  rendezvousVars, hop_retry_work, coopVars >>

Kind ==
  IF RENDEZVOUS /\ m_rendezvous_fallback_pending THEN "fallback"
  ELSE IF m_prev_channel \notin { Invalid, channel } THEN "revert"
  ELSE "normal"

Targets ==
  CASE Kind = "fallback" -> { BootChannel }
    [] Kind = "revert" -> { m_prev_channel }
    [] OTHER ->
         IF Usable(m_committed_next) THEN { m_committed_next }
         ELSE IF channel # BootChannel THEN { BootChannel }
         ELSE IF m_prev_known_channel \notin { Invalid, channel }
           THEN { m_prev_known_channel }
         ELSE Pick

(* Faulty variant: CHANNEL_HOP_INVALID is taken for a target. *)
HopDecidesUnchecked ==
  /\ \/ wq = Free /\ hop_work /\ hop_work' = FALSE
     \/ wq = In("decay") /\ UNCHANGED hop_work
  /\ m_rendezvous_fallback_pending' = FALSE
  /\ \E target \in Targets :
       wq' = IF target = channel
               THEN Free
               ELSE [at |-> "move", kind |-> Kind, target |-> target]
  /\ UNCHANGED << placeVars, m_committed_next, linkVars, timeVars,
                  rendezvous_hold, hop_retry_work, coopVars >>

(* Faulty variant: the flag is cleared only if there is somewhere to go. *)
HopDecidesKeepsFlag ==
  /\ \/ wq = Free /\ hop_work /\ hop_work' = FALSE
     \/ wq = In("decay") /\ UNCHANGED hop_work
  /\ \E target \in Targets :
       IF target \in { Invalid, channel }
         THEN wq' = Free /\ UNCHANGED m_rendezvous_fallback_pending
         ELSE /\ wq' = [at |-> "move", kind |-> Kind, target |-> target]
              /\ m_rendezvous_fallback_pending' = FALSE
  /\ UNCHANGED << placeVars, m_committed_next, linkVars, timeVars,
                  rendezvous_hold, hop_retry_work, coopVars >>

(* The decision, from a snapshot of what the ISR writes.  There is nothing *)
(* to do on the rendezvous channel already, or without a candidate.        *)
HopDecides ==
  /\ \/ wq = Free /\ hop_work /\ hop_work' = FALSE
     \/ wq = In("decay") /\ UNCHANGED hop_work
  /\ m_rendezvous_fallback_pending' = FALSE
  /\ \E target \in Targets :
       wq' = IF target \in { Invalid, channel }
               THEN Free
               ELSE [at |-> "move", kind |-> Kind, target |-> target]
  /\ UNCHANGED << placeVars, m_committed_next, linkVars, timeVars,
                  rendezvous_hold, hop_retry_work, coopVars >>

(* esb_transport_set_channel fails: the radio was busy. *)
HopFails ==
  /\ wq.at = "move"
  /\ wq' = Free
  /\ hop_retry_work' = TRUE
  /\ UNCHANGED << placeVars, m_committed_next, linkVars, timeVars,
                  rendezvousVars, hop_work, coopVars >>

(* The tail that every successful hop shares: commit_hop_bookkeeping less  *)
(* the quarantine, and the same statements in the fallback branch.         *)
NewChannel(target) ==
  /\ channel' = target
  /\ m_committed_next' = Invalid
  /\ hop_cooldown' = TRUE
  /\ link_event' = "recent"
  /\ negotiate_work' = TRUE

(* Faulty variant: the rendezvous channel is quarantined like any other. *)
LeaveAny(prev, released) ==
  /\ quarantined' = (quarantined \ released) \union { prev }
  /\ m_prev_known_channel' = prev

(* commit_hop_bookkeeping's quarantine of the channel it leaves. *)
Leave(prev, released) ==
  IF prev = BootChannel
    THEN /\ quarantined' = quarantined \ released
         /\ UNCHANGED m_prev_known_channel
    ELSE /\ quarantined' = (quarantined \ released) \union { prev }
         /\ m_prev_known_channel' = prev

(* It succeeds. *)
HopMoves ==
  /\ wq.at = "move"
  /\ wq' = Free
  /\ NewChannel(wq.target)
  /\ CASE wq.kind = "fallback" ->
            /\ quarantined' = quarantined \ { wq.target }
            /\ m_prev_channel' = Invalid
            /\ rendezvous_hold' = TRUE
            /\ UNCHANGED m_prev_known_channel
       [] wq.kind = "revert" ->
            /\ Leave(channel, { wq.target })
            /\ m_prev_channel' = Invalid
            /\ UNCHANGED rendezvous_hold
       [] wq.kind = "normal" ->
            /\ Leave(channel, {})
            /\ m_prev_channel' = channel
            /\ UNCHANGED rendezvous_hold
  /\ UNCHANGED << m_link_up, m_active, idle_check_work, waking,
                  m_rendezvous_fallback_pending, hopWorks, coopVars >>

----------------------------------------------------------------------------
(* The cooperative handshake. *)

(* coop_hop_offer_work_fn up to the tag it sets for the ISR...             *)
OfferTagged ==
  /\ wq = Free
  /\ coop_hop_offer_work
  /\ coop_hop_offer_work' = FALSE
  /\ \/ /\ ~(m_link_up /\ m_active)
        /\ m_coop_hop_state' = "IDLE"
        /\ UNCHANGED << wq, m_coop_hop_target, m_last_tx_was_offer, offer >>
     \/ /\ m_link_up /\ m_active
        /\ m_coop_hop_state # "OFFERED"
        /\ UNCHANGED << wq, m_coop_hop_state, m_coop_hop_target,
                        m_last_tx_was_offer, offer >>
     \/ /\ m_link_up /\ m_active
        /\ m_coop_hop_state = "OFFERED"
        /\ \E target \in IF Usable(m_committed_next)
                           THEN { m_committed_next } ELSE Pick :
             IF target = Invalid
               THEN /\ m_coop_hop_state' = "IDLE"
                    /\ UNCHANGED << wq, m_coop_hop_target,
                                    m_last_tx_was_offer, offer >>
               ELSE /\ m_coop_hop_target' = target
                    /\ m_last_tx_was_offer' = TRUE
                    /\ offer' = "tagged"
                    /\ wq' = In("offer")
                    /\ UNCHANGED m_coop_hop_state
  /\ UNCHANGED << placeVars, m_committed_next, linkVars, timeVars,
                  rendezvousVars, hopWorks, coop_hop_commit_work,
                  coop_cooldown >>

(* Faulty variant: a refused send takes the tag back and not the state.    *)
OfferQueuedKeepsState ==
  /\ wq = In("offer")
  /\ wq' = Free
  /\ \/ offer' = "queued" /\ UNCHANGED m_last_tx_was_offer
     \/ offer' = "refused" /\ m_last_tx_was_offer' = FALSE
  /\ UNCHANGED << placeVars, m_committed_next, linkVars, timeVars,
                  rendezvousVars, hopWorks, m_coop_hop_state,
                  m_coop_hop_target, coop_hop_offer_work,
                  coop_hop_commit_work, coop_cooldown >>

(* ...and the esb_transport_send, which may refuse it.  A send that fails  *)
(* resets the handshake.                                                   *)
OfferQueued ==
  /\ wq = In("offer")
  /\ wq' = Free
  /\ \/ /\ offer' = "queued"
        /\ UNCHANGED << m_coop_hop_state, m_last_tx_was_offer >>
     \/ /\ offer' = "refused"
        /\ m_coop_hop_state' = "IDLE"
        /\ m_last_tx_was_offer' = FALSE
  /\ UNCHANGED << placeVars, m_committed_next, linkVars, timeVars,
                  rendezvousVars, hopWorks, m_coop_hop_target,
                  coop_hop_offer_work, coop_hop_commit_work, coop_cooldown >>

(* coop_hop_commit_work_fn.  m_prev_channel is cleared before the          *)
(* bookkeeping, and a channel the radio fails to reach is left to          *)
(* hop_retry_work.                                                         *)
coop_hop_commit_work_fn ==
  /\ wq = Free
  /\ coop_hop_commit_work
  /\ coop_hop_commit_work' = FALSE
  /\ m_coop_hop_state' = IF m_coop_hop_state = "ARMED" THEN "IDLE"
                         ELSE m_coop_hop_state
  /\ IF m_coop_hop_state = "ARMED" /\ m_coop_hop_target \notin { Invalid, channel }
       THEN \/ /\ NewChannel(m_coop_hop_target)
               /\ Leave(channel, {})
               /\ m_prev_channel' = Invalid
               /\ coop_cooldown' = TRUE
               /\ UNCHANGED hop_retry_work
            \/ /\ hop_retry_work' = TRUE
               /\ UNCHANGED << placeVars, m_committed_next, timeVars,
                               negotiate_work, coop_cooldown >>
       ELSE UNCHANGED << placeVars, m_committed_next, timeVars,
                         negotiate_work, hop_retry_work, coop_cooldown >>
  /\ UNCHANGED << m_link_up, m_active, idle_check_work, waking, rendezvousVars,
                  hop_work, wq, m_coop_hop_target, m_last_tx_was_offer,
                  coop_hop_offer_work, offer >>

----------------------------------------------------------------------------
(* Time. *)

CooldownPasses ==
  /\ hop_cooldown
  /\ hop_cooldown' = FALSE
  /\ UNCHANGED << placeVars, m_committed_next, linkVars, link_event,
                  rendezvousVars, hopWorks, wq, coopVars >>

(* RENDEZVOUS_FALLBACK_MS without a link event, which is shorter than the  *)
(* cooldown (BUILD_ASSERT).                                                *)
LinkFallsSilent ==
  /\ RENDEZVOUS
  /\ link_event = "recent"
  /\ link_event' = "silent"
  /\ UNCHANGED << placeVars, m_committed_next, linkVars, hop_cooldown,
                  rendezvousVars, hopWorks, wq, coopVars >>

(* Faulty variant: only a TX_SUCCESS ends the hold. *)
HoldNeverPasses == FALSE /\ UNCHANGED vars

HoldPasses ==
  /\ rendezvous_hold
  /\ rendezvous_hold' = FALSE
  /\ UNCHANGED << placeVars, m_committed_next, linkVars, timeVars,
                  m_rendezvous_fallback_pending, hopWorks, wq, coopVars >>

CoopCooldownPasses ==
  /\ coop_cooldown
  /\ coop_cooldown' = FALSE
  /\ UNCHANGED << placeVars, m_committed_next, linkVars, timeVars,
                  rendezvousVars, hopWorks, wq, m_coop_hop_state,
                  m_coop_hop_target, m_last_tx_was_offer, coop_hop_offer_work,
                  coop_hop_commit_work, offer >>

(* A channel is pardoned: its quarantine expires, or decay takes it off    *)
(* the list of persistent offenders.                                       *)
QuarantineEnds(c) ==
  /\ c \in quarantined
  /\ quarantined' = quarantined \ { c }
  /\ UNCHANGED << channel, m_prev_channel, m_prev_known_channel,
                  m_committed_next, linkVars, timeVars, rendezvousVars,
                  hopWorks, wq, coopVars >>

(* persist_work_fn rebuilds the avoided set from the evidence, which may   *)
(* condemn any channel but the rendezvous one.                             *)
persist_work_fn(c) ==
  /\ QUARANTINE_PERSIST
  /\ wq = Free
  /\ c # BootChannel
  /\ quarantined' = quarantined \union { c }
  /\ UNCHANGED << channel, m_prev_channel, m_prev_known_channel,
                  m_committed_next, linkVars, timeVars, rendezvousVars,
                  hopWorks, wq, coopVars >>

----------------------------------------------------------------------------
Isr ==
  \/ TxSuccess
  \/ TxFail

Link ==
  \/ channel_hop_ep_on_connected
  \/ OnConnectedFlashed
  \/ channel_hop_ep_on_disconnected
  \/ channel_hop_ep_note_user_tx
  \/ NoteUserTxFlashed
  \/ esb_transport_set_addresses

Answers ==
  \/ \E c \in Channels : OnConfirm(c) \/ OnAccept(c)
  \/ channel_hop_ep_on_request
  \/ OfferFlushed

Works ==
  \/ idle_check_work_fn
  \/ negotiate_work_fn
  \/ hop_retry_work_fn
  \/ HopFlashes
  \/ HopDecides
  \/ HopFails
  \/ HopMoves
  \/ OfferTagged
  \/ OfferQueued
  \/ coop_hop_commit_work_fn
  \/ \E c \in Channels : persist_work_fn(c)

Time ==
  \/ CooldownPasses
  \/ LinkFallsSilent
  \/ HoldPasses
  \/ CoopCooldownPasses
  \/ \E c \in Channels : QuarantineEnds(c)

Next ==
  \/ Isr
  \/ Link
  \/ Answers
  \/ Works
  \/ Time

Spec == Init /\ [][Next]_vars

(* The workqueue runs what is due and the flash answers; a busy radio is   *)
(* stopped after HOP_STOP_TX_AFTER_BUSY refusals, so a retried hop         *)
(* succeeds; clocks run; and as packets keep failing the transport calls   *)
(* again after each of its windows.                                        *)
HopFairness ==
  /\ WF_vars(HopDecides)
  /\ WF_vars(HopMoves \/ HopFails)
  /\ SF_vars(HopMoves)
  /\ WF_vars(hop_retry_work_fn)
  /\ WF_vars(OnConnectedFlashed)
  /\ WF_vars(TxFail)
  /\ WF_vars(CooldownPasses)
  /\ WF_vars(HoldPasses)
  /\ \A c \in Channels : WF_vars(QuarantineEnds(c))

FairSpec == Spec /\ HopFairness

----------------------------------------------------------------------------
(* Properties. *)

HopTypeOK ==
  /\ channel \in Channels
  /\ quarantined \subseteq Channels
  /\ m_committed_next \in Channels \union { Invalid }
  /\ m_prev_channel \in Channels \union { Invalid }
  /\ m_prev_known_channel \in Channels \union { Invalid }
  /\ m_link_up \in BOOLEAN /\ m_active \in BOOLEAN /\ waking \in BOOLEAN
  /\ negotiate_work \in BOOLEAN /\ idle_check_work \in BOOLEAN
  /\ hop_work \in BOOLEAN /\ hop_retry_work \in BOOLEAN /\ hop_cooldown \in BOOLEAN
  /\ m_rendezvous_fallback_pending \in BOOLEAN /\ rendezvous_hold \in BOOLEAN
  /\ m_last_tx_was_offer \in BOOLEAN /\ coop_cooldown \in BOOLEAN
  /\ coop_hop_offer_work \in BOOLEAN /\ coop_hop_commit_work \in BOOLEAN
  /\ link_event \in { "never", "recent", "silent" }
  /\ wq \in WqPoints
  /\ m_coop_hop_state \in { "IDLE", "OFFERED", "ARMED" }
  /\ m_coop_hop_target \in Channels \union { Invalid }
  /\ offer \in { "none", "tagged", "queued", "acked", "flushed", "refused" }

(* On an active link negotiation and the idle check are always scheduled:  *)
(* no order of connects, hops, pauses and flash writes leaves the engine   *)
(* awake with nothing that would build a committed_next or send it to      *)
(* sleep ("leaving the dongle's committed_next INVALID for arbitrarily     *)
(* long stretches", negotiate_work_fn).                                    *)
ActiveTicks ==
  m_link_up /\ m_active /\ ~waking /\ wq # In("connect") =>
    negotiate_work /\ idle_check_work

(* "Never quarantine the rendezvous channel -- it must stay a usable       *)
(* fallback" (commit_hop_bookkeeping): whatever is left, reverted,         *)
(* recorded or loaded from flash, while there is a link it is not in       *)
(* quarantine.                                                             *)
RendezvousUsable == m_link_up => BootChannel \notin quarantined

(* The fallback flag is set by the ISR and consumed by hop_work_fn: while  *)
(* it is set a run of hop_work_fn that has not read it yet is queued or    *)
(* begun, or else the ISR would never ask for a fallback again.            *)
FallbackHasRunner ==
  m_rendezvous_fallback_pending => hop_work \/ wq = In("decay")

(* A handshake always has somebody who will end it, and an armed one has   *)
(* a target: the ISR and the workqueue never leave the state machine in    *)
(* OFFERED or ARMED with no work and no tag, where no new OFFER could      *)
(* start.                                                                  *)
CoopEnds ==
  /\ m_coop_hop_state = "OFFERED" =>
       coop_hop_offer_work \/ m_last_tx_was_offer
  /\ m_coop_hop_state = "ARMED" =>
       coop_hop_commit_work /\ m_coop_hop_target \in Channels

(* "awaiting TX_SUCCESS to arm the commit timer" of the OFFER (COOP_OFFERED*)
(* in channel_hop_ep.c): the commit is armed only once the OFFER has been  *)
(* acknowledged.                                                           *)
ArmedAfterOffer == m_coop_hop_state = "ARMED" => offer = "acked"

(* "so the retry ... sees the same decision inputs" (hop_work_fn): a hop   *)
(* that fails in the radio is retried as the hop it was, unless the link   *)
(* came back meanwhile.                                                    *)
RetryKeepsDecision ==
  [][ HopFails => wq.kind \in { "revert", Kind' } ]_vars

(* On a link that stays dead while the user keeps typing the radio never   *)
(* settles: it visits the rendezvous channel and other channels for ever,  *)
(* through cooldowns, holds, refused retunes and fallbacks ("so a dead     *)
(* rendezvous channel is not a permanent trap", on_tx_fail_isr).  A dead   *)
(* link brings no CONFIRM either, and the evidence is not distilled again. *)
DeadLink ==
  /\ <>[](m_link_up /\ m_active)
  /\ <>[][ /\ ~TxSuccess
           /\ ~\E c \in Channels : OnConfirm(c) \/ persist_work_fn(c) ]_vars

DeadLinkKeepsMoving ==
  DeadLink => []<>(channel = BootChannel) /\ []<>(channel # BootChannel)
============================================================================
