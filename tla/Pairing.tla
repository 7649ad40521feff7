------------------------------ MODULE Pairing ------------------------------
(***************************************************************************)
(* The pairing state machine of the keyboard (src/esb/pairing.c): beacon   *)
(* while unpaired, VERIFY a remembered dongle, stay CONNECTED, and keep    *)
(* the one NVS record that survives a power loss.                          *)
(*                                                                         *)
(* Three threads run this code.                                            *)
(*   - the system workqueue (cooperative, one item at a time): the beacon  *)
(*     and verify timers, pairing_on_rx, and the unpair key.  It gives up  *)
(*     the CPU only inside settings_save_one, which waits for the flash.   *)
(*   - the esb_ctrl thread (cooperative): pairing_start and pairing_stop,  *)
(*     which do not block.                                                 *)
(*   - the shell thread (preemptible): `esb unpair`.  A cooperative thread *)
(*     may run between any two of its statements.                          *)
(* So a handler is one action up to the save, and a second one after it;   *)
(* the shell command is one action per statement that shares state.        *)
(***************************************************************************)
EXTENDS Naturals

CONSTANTS
  Dongles,     \* device_ids of the dongles in radio range
  NoDongle,    \* the all-zero device_id
  Home,        \* the dongle whose pair button the user presses
  SHELL_CMDS   \* CONFIG_ZMK_ESB_ENDPOINT_SHELL_CMDS: `esb unpair` is built in

ASSUME DonglesAssumption ==
  /\ NoDongle \notin Dongles
  /\ Home \in Dongles
  /\ SHELL_CMDS \in BOOLEAN

VARIABLES
  m_state,            \* pairing_state_t
  m_peer_device_id,
  m_has_stored_peer,
  beacon_work,        \* TRUE: the delayable is scheduled
  verify_work,
  m_link_up,          \* channel_hop_ep's flag, set and cleared from here
  nvs,                \* the record "esb_ep/paired": a device_id, or NoDongle
  rx,                 \* the RX mailbox: a packet rx_work has not read yet
  wq,                 \* where the workqueue waits for the flash, and for what
  sh,                 \* where the shell thread stands in pairing_unpair
  air                 \* the last request on the air, not answered yet

pairingVars == << m_state, m_peer_device_id, m_has_stored_peer, beacon_work,
                  verify_work, m_link_up, nvs, rx, wq, sh, air >>

----------------------------------------------------------------------------
(* Data. *)

(* PAIRING_STATE_PAIRING is declared and never assigned. *)
States == { "IDLE", "UNPAIRED", "VERIFYING", "CONNECTED" }

DeviceIds == Dongles \union { NoDongle }

NoPacket == [type |-> "none", id |-> NoDongle]

(* The packets pairing_on_rx itself acts on.  The type byte and the length *)
(* check of the two that carry a device_id are abstracted to well-formed.  *)
Packets ==
  [type : { "PAIR_REQ", "VERIFY_RESP" }, id : Dongles]
    \union [type : { "DISCONNECT", "RESYNC" }, id : { NoDongle }]

(* Each point at which the workqueue can be waiting for settings_save_one, *)
(* with the record it saves: built on the stack before the call.           *)
Running == [at |-> "running", rec |-> NoDongle]
Saves ==
  [at : { "pair" }, rec : Dongles]
    \union [at : { "disconnect", "unpair" }, rec : { NoDongle }]

ShellPoints == { "prompt", "memset", "save", "cancel", "test", "set", "rearm" }

WqFree == wq = Running

----------------------------------------------------------------------------
(* What survives a reset is the record; settings_load_cb rebuilds the rest *)
(* (pairing_init).                                                         *)
LoadSettings(rec) ==
  /\ m_has_stored_peer = (rec # NoDongle)
  /\ m_peer_device_id = rec

PairingInit ==
  /\ m_state = "IDLE"
  /\ nvs \in DeviceIds
  /\ LoadSettings(nvs)
  /\ beacon_work = FALSE
  /\ verify_work = FALSE
  /\ m_link_up = FALSE
  /\ rx = NoPacket
  /\ wq = Running
  /\ sh = "prompt"
  /\ air = "none"

PairingPowerLoss ==
  /\ m_state' = "IDLE"
  /\ m_has_stored_peer' = (nvs # NoDongle)
  /\ m_peer_device_id' = nvs
  /\ beacon_work' = FALSE
  /\ verify_work' = FALSE
  /\ m_link_up' = FALSE
  /\ rx' = NoPacket
  /\ wq' = Running
  /\ sh' = "prompt"
  /\ air' = "none"
  /\ UNCHANGED nvs

----------------------------------------------------------------------------
(* The esb_ctrl thread. *)

pairing_start ==
  /\ IF m_has_stored_peer
       THEN /\ m_state' = "VERIFYING"
            /\ verify_work' = TRUE
            /\ UNCHANGED beacon_work
       ELSE /\ m_state' = "UNPAIRED"
            /\ beacon_work' = TRUE
            /\ UNCHANGED verify_work
  /\ UNCHANGED << m_peer_device_id, m_has_stored_peer, m_link_up, nvs, rx, wq,
                  sh, air >>

pairing_stop ==
  /\ m_state' = "IDLE"
  /\ beacon_work' = FALSE
  /\ verify_work' = FALSE
  /\ m_link_up' = FALSE
  /\ UNCHANGED << m_peer_device_id, m_has_stored_peer, nvs, rx, wq, sh, air >>

----------------------------------------------------------------------------
(* The system workqueue: timers. *)

beacon_work_fn ==
  /\ WqFree
  /\ beacon_work
  /\ IF m_state = "UNPAIRED"
       THEN air' = "BEACON" /\ UNCHANGED beacon_work
       ELSE beacon_work' = FALSE /\ UNCHANGED air
  /\ UNCHANGED << m_state, m_peer_device_id, m_has_stored_peer, verify_work,
                  m_link_up, nvs, rx, wq, sh >>

(* Faulty variant: the request is sent once, never repeated. *)
verify_work_fn_no_rearm ==
  /\ WqFree
  /\ verify_work
  /\ verify_work' = FALSE
  /\ IF m_state = "VERIFYING" THEN air' = "VERIFY_REQ" ELSE UNCHANGED air
  /\ UNCHANGED << m_state, m_peer_device_id, m_has_stored_peer, beacon_work,
                  m_link_up, nvs, rx, wq, sh >>

verify_work_fn ==
  /\ WqFree
  /\ verify_work
  /\ IF m_state = "VERIFYING"
       THEN air' = "VERIFY_REQ" /\ UNCHANGED verify_work
       ELSE verify_work' = FALSE /\ UNCHANGED air
  /\ UNCHANGED << m_state, m_peer_device_id, m_has_stored_peer, beacon_work,
                  m_link_up, nvs, rx, wq, sh >>

----------------------------------------------------------------------------
(* The system workqueue: pairing_on_rx, called by rx_work with the packet  *)
(* in the mailbox.                                                         *)

Deliver(p) ==
  /\ WqFree
  /\ rx = p
  /\ rx' = NoPacket

(* PAIR_REQ while UNPAIRED: up to save_paired(true)... *)
OnPairReq(d) ==
  /\ Deliver([type |-> "PAIR_REQ", id |-> d])
  /\ m_state = "UNPAIRED"
  /\ m_peer_device_id' = d
  /\ beacon_work' = FALSE
  /\ m_has_stored_peer' = TRUE
  /\ m_state' = "CONNECTED"
  /\ wq' = [at |-> "pair", rec |-> d]
  /\ UNCHANGED << verify_work, m_link_up, nvs, sh, air >>

(* ...and from its return on.  m_state is not read again: whatever         *)
(* happened to it meanwhile, the link is reported up.                      *)
PairReqSaved ==
  /\ wq.at = "pair"
  /\ nvs' = wq.rec
  /\ m_link_up' = TRUE
  /\ wq' = Running
  /\ UNCHANGED << m_state, m_peer_device_id, m_has_stored_peer, beacon_work,
                  verify_work, rx, sh, air >>

OnVerifyResp(d) ==
  /\ Deliver([type |-> "VERIFY_RESP", id |-> d])
  /\ m_state = "VERIFYING"
  /\ d = m_peer_device_id
  /\ verify_work' = FALSE
  /\ m_state' = "CONNECTED"
  /\ m_link_up' = TRUE
  /\ UNCHANGED << m_peer_device_id, m_has_stored_peer, beacon_work, nvs, wq,
                  sh, air >>

(* DISCONNECT is obeyed in every state, IDLE included. *)
OnDisconnect ==
  /\ Deliver([type |-> "DISCONNECT", id |-> NoDongle])
  /\ m_state' = "UNPAIRED"
  /\ m_has_stored_peer' = FALSE
  /\ m_peer_device_id' = NoDongle
  /\ wq' = [at |-> "disconnect", rec |-> NoDongle]
  /\ UNCHANGED << beacon_work, verify_work, m_link_up, nvs, sh, air >>

(* Faulty variant: the record on flash is left as it was. *)
DisconnectUnsaved ==
  /\ wq.at = "disconnect"
  /\ verify_work' = FALSE
  /\ beacon_work' = TRUE
  /\ m_link_up' = FALSE
  /\ wq' = Running
  /\ UNCHANGED << m_state, m_peer_device_id, m_has_stored_peer, nvs, rx, sh,
                  air >>

DisconnectSaved ==
  /\ wq.at = "disconnect"
  /\ nvs' = wq.rec
  /\ verify_work' = FALSE
  /\ beacon_work' = TRUE
  /\ m_link_up' = FALSE
  /\ wq' = Running
  /\ UNCHANGED << m_state, m_peer_device_id, m_has_stored_peer, rx, sh, air >>

(* Faulty variant: back to VERIFYING with nothing scheduled to ask. *)
OnResyncSilent ==
  /\ Deliver([type |-> "RESYNC", id |-> NoDongle])
  /\ m_state = "CONNECTED"
  /\ m_state' = "VERIFYING"
  /\ m_link_up' = FALSE
  /\ UNCHANGED << m_peer_device_id, m_has_stored_peer, beacon_work,
                  verify_work, nvs, wq, sh, air >>

OnResync ==
  /\ Deliver([type |-> "RESYNC", id |-> NoDongle])
  /\ m_state = "CONNECTED"
  /\ m_state' = "VERIFYING"
  /\ verify_work' = TRUE
  /\ m_link_up' = FALSE
  /\ UNCHANGED << m_peer_device_id, m_has_stored_peer, beacon_work, nvs, wq,
                  sh, air >>

(* The early returns: a packet this state has no use for is dropped. *)
Ignored(p) ==
  \/ p.type = "PAIR_REQ" /\ m_state # "UNPAIRED"
  \/ p.type = "VERIFY_RESP" /\ (m_state # "VERIFYING" \/ p.id # m_peer_device_id)
  \/ p.type = "RESYNC" /\ m_state # "CONNECTED"

OnIgnored(p) ==
  /\ Deliver(p)
  /\ Ignored(p)
  /\ UNCHANGED << m_state, m_peer_device_id, m_has_stored_peer, beacon_work,
                  verify_work, m_link_up, nvs, wq, sh, air >>

pairing_on_rx ==
  \/ \E d \in Dongles : OnPairReq(d) \/ OnVerifyResp(d)
  \/ OnDisconnect
  \/ OnResync
  \/ \E p \in Packets : OnIgnored(p)

----------------------------------------------------------------------------
(* The system workqueue: the unpair key calls pairing_unpair. *)

UnpairKey ==
  /\ WqFree
  /\ m_has_stored_peer' = FALSE
  /\ m_peer_device_id' = NoDongle
  /\ wq' = [at |-> "unpair", rec |-> NoDongle]
  /\ UNCHANGED << m_state, beacon_work, verify_work, m_link_up, nvs, rx, sh, air >>

(* Faulty variant: forgets the dongle and keeps the state. *)
UnpairKeySavedStays ==
  /\ wq.at = "unpair"
  /\ nvs' = wq.rec
  /\ verify_work' = FALSE
  /\ beacon_work' = (m_state # "IDLE")
  /\ wq' = Running
  /\ UNCHANGED << m_state, m_peer_device_id, m_has_stored_peer, m_link_up, rx,
                  sh, air >>

UnpairKeySaved ==
  /\ wq.at = "unpair"
  /\ nvs' = wq.rec
  /\ verify_work' = FALSE
  /\ IF m_state # "IDLE"
       THEN m_state' = "UNPAIRED" /\ beacon_work' = TRUE
       ELSE UNCHANGED << m_state, beacon_work >>
  /\ wq' = Running
  /\ UNCHANGED << m_peer_device_id, m_has_stored_peer, m_link_up, rx, sh, air >>

(* The shell thread: `esb unpair` calls the same function, and can be      *)
(* preempted after each statement.                                         *)

ShellMoves(from, to) ==
  /\ sh = from
  /\ sh' = to

UnpairShell ==
  /\ SHELL_CMDS
  /\ ShellMoves("prompt", "memset")
  /\ m_has_stored_peer' = FALSE
  /\ UNCHANGED << m_state, m_peer_device_id, beacon_work, verify_work,
                  m_link_up, nvs, rx, wq, air >>

UnpairShellMemset ==
  /\ ShellMoves("memset", "save")
  /\ m_peer_device_id' = NoDongle
  /\ UNCHANGED << m_state, m_has_stored_peer, beacon_work, verify_work,
                  m_link_up, nvs, rx, wq, air >>

UnpairShellSaved ==
  /\ ShellMoves("save", "cancel")
  /\ nvs' = NoDongle
  /\ UNCHANGED << m_state, m_peer_device_id, m_has_stored_peer, beacon_work,
                  verify_work, m_link_up, rx, wq, air >>

UnpairShellCancel ==
  /\ ShellMoves("cancel", "test")
  /\ verify_work' = FALSE
  /\ UNCHANGED << m_state, m_peer_device_id, m_has_stored_peer, beacon_work,
                  m_link_up, nvs, rx, wq, air >>

UnpairShellTest ==
  /\ ShellMoves("test", IF m_state # "IDLE" THEN "set" ELSE "prompt")
  /\ beacon_work' = (beacon_work /\ m_state = "IDLE")
  /\ UNCHANGED << m_state, m_peer_device_id, m_has_stored_peer, verify_work,
                  m_link_up, nvs, rx, wq, air >>

UnpairShellSet ==
  /\ ShellMoves("set", "rearm")
  /\ m_state' = "UNPAIRED"
  /\ UNCHANGED << m_peer_device_id, m_has_stored_peer, beacon_work,
                  verify_work, m_link_up, nvs, rx, wq, air >>

UnpairShellRearm ==
  /\ ShellMoves("rearm", "prompt")
  /\ beacon_work' = TRUE
  /\ UNCHANGED << m_state, m_peer_device_id, m_has_stored_peer, verify_work,
                  m_link_up, nvs, rx, wq, air >>

----------------------------------------------------------------------------
(* The dongles (external: they are known from the packets pairing.c reads  *)
(* and the README's protocol section).                                     *)

(* A packet reaches the mailbox and overwrites one not read yet: the ISR   *)
(* half of the transport keeps only the latest.                            *)
RxEvent(p) ==
  /\ rx' = p
  /\ UNCHANGED << m_state, m_peer_device_id, m_has_stored_peer, beacon_work,
                  verify_work, m_link_up, nvs, wq, sh, air >>

(* The home dongle answers the request it heard. *)
HomeAnswers ==
  /\ air # "none"
  /\ air' = "none"
  /\ rx' = [type |-> IF air = "BEACON" THEN "PAIR_REQ" ELSE "VERIFY_RESP",
            id |-> Home]
  /\ UNCHANGED << m_state, m_peer_device_id, m_has_stored_peer, beacon_work,
                  verify_work, m_link_up, nvs, wq, sh >>

(* Nobody heard it. *)
RequestLost ==
  /\ air # "none"
  /\ air' = "none"
  /\ UNCHANGED << m_state, m_peer_device_id, m_has_stored_peer, beacon_work,
                  verify_work, m_link_up, nvs, rx, wq, sh >>

----------------------------------------------------------------------------
(* The threads of this file that run without being called by esb_ctrl. *)

Workqueue ==
  \/ beacon_work_fn
  \/ verify_work_fn
  \/ pairing_on_rx
  \/ PairReqSaved
  \/ DisconnectSaved
  \/ UnpairKeySaved

Shell ==
  \/ UnpairShellMemset
  \/ UnpairShellSaved
  \/ UnpairShellCancel
  \/ UnpairShellTest
  \/ UnpairShellSet
  \/ UnpairShellRearm

Air ==
  \/ HomeAnswers
  \/ RequestLost

User ==
  \/ UnpairKey
  \/ UnpairShell

(* In this module esb_ctrl calls pairing_start and pairing_stop whenever   *)
(* and as often as it likes; EsbEndpoint says when it really does.         *)
PairingNext ==
  \/ pairing_start
  \/ pairing_stop
  \/ Workqueue
  \/ Shell
  \/ Air
  \/ User
  \/ \E p \in Packets : RxEvent(p)
  \/ PairingPowerLoss

(* The workqueue runs every item that stays due, a save returns, and the   *)
(* shell thread is scheduled.  The home dongle hears one of infinitely     *)
(* many requests, as the radio is not deaf for ever.                       *)
PairingFairness ==
  /\ WF_pairingVars(beacon_work_fn)
  /\ WF_pairingVars(verify_work_fn)
  /\ WF_pairingVars(pairing_on_rx)
  /\ WF_pairingVars(PairReqSaved \/ DisconnectSaved \/ UnpairKeySaved)
  /\ WF_pairingVars(Shell)
  /\ SF_pairingVars(HomeAnswers)

PairingSpec == PairingInit /\ [][PairingNext]_pairingVars

FairPairingSpec == PairingSpec /\ PairingFairness

----------------------------------------------------------------------------
(* Properties. *)

PairingTypeOK ==
  /\ m_state \in States
  /\ m_peer_device_id \in DeviceIds
  /\ m_has_stored_peer \in BOOLEAN
  /\ beacon_work \in BOOLEAN
  /\ verify_work \in BOOLEAN
  /\ m_link_up \in BOOLEAN
  /\ nvs \in DeviceIds
  /\ rx \in Packets \union { NoPacket }
  /\ wq \in Saves \union { Running }
  /\ sh \in ShellPoints
  /\ air \in { "none", "BEACON", "VERIFY_REQ" }

(* A state that waits for the dongle always has the timer that asks it     *)
(* scheduled, or a thread inside the handler that is about to schedule it: *)
(* no order of timers, packets, unpair and esb_ctrl calls leaves the       *)
(* keyboard silent.  (beacon_work_fn and verify_work_fn stop rescheduling  *)
(* themselves when the state changes, so every way back must restart them.)*)
NoStall ==
  /\ m_state = "VERIFYING" =>
       verify_work \/ sh \in { "test", "set" }
  /\ m_state = "UNPAIRED" =>
       beacon_work \/ wq.at = "disconnect" \/ sh \in { "set", "rearm" }

(* CONNECTED means a dongle is known: no interleaving of a handshake with  *)
(* an unpair on another thread ends connected to the zero id.              *)
ConnectedHasPeer ==
  m_state = "CONNECTED" /\ wq.at # "unpair" /\ sh = "prompt" =>
    m_has_stored_peer /\ m_peer_device_id \in Dongles

(* "A single settings_save_one keeps updates atomic" (pairing.c:29): when  *)
(* no thread is inside a save, the record a reboot would load is what RAM  *)
(* holds.                                                                  *)
RecordMatchesRam ==
  WqFree /\ sh = "prompt" =>
    /\ m_has_stored_peer <=> nvs # NoDongle
    /\ m_peer_device_id = nvs

(* The remembered dongle is never swapped for another in one step: between *)
(* two bindings the record says "not paired", across power losses too.  So *)
(* a stranger's PAIR_REQ cannot take over a keyboard that is still bound.  *)
RebindOnlyAfterForget ==
  [][ nvs # nvs' => NoDongle \in { nvs, nvs' } ]_pairingVars

(* Once the user, esb_ctrl and the other dongles are quiet, a keyboard     *)
(* that waits for the home dongle gets through to it, whatever was lost,   *)
(* overwritten in the mailbox or cut short before.                         *)
Undisturbed == Workqueue \/ Shell \/ Air

HandshakeEnds ==
  <>[][Undisturbed]_pairingVars =>
    /\ m_state = "UNPAIRED" ~> m_state # "UNPAIRED"
    /\ (m_state = "VERIFYING" /\ m_peer_device_id = Home) ~>
         (m_state # "VERIFYING" \/ m_peer_device_id # Home)

(* "Called from esb_endpoint when pairing transitions into CONNECTED state *)
(* ... and when the link drops" (channel_hop_ep.h:38): once no handler is  *)
(* running, the hop engine believes in a link only in CONNECTED.           *)
LinkUpOnlyConnected ==
  m_link_up /\ WqFree /\ sh = "prompt" => m_state = "CONNECTED"

----------------------------------------------------------------------------
(* Inductive strengthenings, for the proofs. *)

(* While a save that forgets the dongle is under way nothing remembers it  *)
(* again: the only handler that could runs on the thread that waits.       *)
SavesForget ==
  /\ wq.at = "disconnect" =>
       ~m_has_stored_peer /\ m_state \in { "IDLE", "UNPAIRED" }
  /\ wq.at = "unpair" => ~m_has_stored_peer

(* Outside an unpair, the states that speak of a dongle have one. *)
PeerKnown ==
  wq.at # "unpair" /\ sh \in { "prompt", "rearm" } =>
    /\ m_state = "VERIFYING" => m_has_stored_peer
    /\ m_state = "CONNECTED" => m_has_stored_peer /\ m_peer_device_id \in Dongles

(* Without the shell command: what RAM holds is on flash or being saved.   *)
RecordFollowsRam ==
  ~SHELL_CMDS =>
    /\ sh = "prompt"
    /\ m_has_stored_peer <=> m_peer_device_id # NoDongle
    /\ m_state = "UNPAIRED" => ~m_has_stored_peer
    /\ WqFree => nvs = m_peer_device_id
    /\ ~WqFree => wq.rec = m_peer_device_id
    /\ wq.at = "pair" => nvs = NoDongle
============================================================================
