---------------------------- MODULE EsbEndpoint ----------------------------
(***************************************************************************)
(* The endpoint's control path (src/esb/esb_endpoint.c) composed with the  *)
(* pairing machine it starts and stops: the profile listener and the boot  *)
(* check queue commands, the esb_ctrl thread executes them, and the radio  *)
(* goes back and forth between ESB and the Bluetooth link layer            *)
(* (esb_transport_on_slot_start and _stop).                                *)
(*                                                                         *)
(* ZMK's BLE code is external.  Of it the model has the active profile,    *)
(* the advertising status ZMK believes in, and whether the link layer      *)
(* really advertises.                                                      *)
(***************************************************************************)
EXTENDS Pairing, Sequences

CONSTANT MSGQ_DEPTH     \* CONFIG_ZMK_ESB_ENDPOINT_CTRL_MSGQ_DEPTH

ASSUME DepthAssumption == MSGQ_DEPTH \in Nat \ {0}

VARIABLES
  esb_active,
  esb_ctrl_msgq,      \* commands not executed yet
  ctrl,               \* where the esb_ctrl thread sleeps or blocks
  boot_check,         \* TRUE: boot_profile_check_work is scheduled
  slot_on,            \* the ESB library is initialised and owns the radio IRQ
  bt_ll_suspended,
  ble_ppi,            \* the link layer's PPI channels are enabled in CHEN
  saved_ble_ppi,      \* ...and were, when bt_ll_suspend saved them
  profile_esb,        \* ZMK: the last profile slot is the active one
  advertising_status, \* ZMK believes it advertises
  ll_adv,             \* the link layer advertises
  hasty               \* the last profile switch came before the previous one
                      \* had been acted on (history)

endpointVars == << esb_active, esb_ctrl_msgq, ctrl, boot_check, slot_on,
                   bt_ll_suspended, ble_ppi, saved_ble_ppi, profile_esb,
                   advertising_status, ll_adv, hasty >>
radioVars == << slot_on, bt_ll_suspended, ble_ppi, saved_ble_ppi >>
bleVars == << advertising_status, ll_adv >>
vars == << pairingVars, endpointVars >>

----------------------------------------------------------------------------
Commands == { "ACTIVATE", "DEACTIVATE" }

(* The command being executed is out of the queue: "quiesce" and "settle"  *)
(* are the two sleeps of ACTIVATE, "rename" is zmk_ble_set_device_name at  *)
(* the end of DEACTIVATE.                                                  *)
CtrlPoints == { "get", "quiesce", "settle", "rename" }

CtrlIdle == ctrl = "get" /\ esb_ctrl_msgq = << >>

Init ==
  /\ PairingInit
  /\ esb_active = FALSE
  /\ esb_ctrl_msgq = << >>
  /\ ctrl = "get"
  /\ boot_check = TRUE
  /\ slot_on = FALSE
  /\ bt_ll_suspended = FALSE
  /\ ble_ppi = TRUE
  /\ saved_ble_ppi = FALSE
  /\ profile_esb \in BOOLEAN
  /\ advertising_status = FALSE
  /\ ll_adv = FALSE
  /\ hasty = FALSE

(* Faulty variant: no bound. *)
PutUnbounded(cmd) == esb_ctrl_msgq' = Append(esb_ctrl_msgq, cmd)

(* k_msgq_put(.., K_NO_WAIT), the result ignored. *)
Put(cmd) ==
  esb_ctrl_msgq' = IF Len(esb_ctrl_msgq) < MSGQ_DEPTH
                     THEN Append(esb_ctrl_msgq, cmd)
                     ELSE esb_ctrl_msgq

----------------------------------------------------------------------------
(* ZMK's side (external, as the wraps and the comments of esb_endpoint.c   *)
(* use it). *)

(* The wrapped bt_le_adv_start: reports success and does nothing while ESB *)
(* is active.                                                              *)
wrap_bt_le_adv_start == ll_adv' = (ll_adv \/ ~esb_active)

(* update_advertising(): move from the status ZMK believes in to the one   *)
(* it wants.                                                               *)
UpdateAdvertisingFrom(status, want) ==
  /\ advertising_status' = want
  /\ IF want = status
       THEN UNCHANGED ll_adv
       ELSE IF want THEN wrap_bt_le_adv_start ELSE ll_adv' = FALSE

(* The ESB slot has no bonded peer, so it always wants to advertise; a BLE *)
(* slot wants to unless its host is connected.                             *)
Wants(esb_slot) == IF esb_slot THEN { TRUE } ELSE BOOLEAN

UpdateAdvertising ==
  /\ \E want \in Wants(profile_esb) :
       UpdateAdvertisingFrom(advertising_status, want)
  /\ UNCHANGED << pairingVars, esb_active, esb_ctrl_msgq, ctrl, boot_check,
                  radioVars, profile_esb, hasty >>

(* A host connects to the running advertisement, which ends it. *)
HostConnects ==
  /\ ll_adv
  /\ ~bt_ll_suspended
  /\ ll_adv' = FALSE
  /\ advertising_status' = FALSE
  /\ UNCHANGED << pairingVars, esb_active, esb_ctrl_msgq, ctrl, boot_check,
                  radioVars, profile_esb, hasty >>

----------------------------------------------------------------------------
(* The listener and the boot check: compare with esb_active as it is now.  *)

profile_listener_cb(should_be_active) ==
  CASE should_be_active /\ ~esb_active -> Put("ACTIVATE")
    [] ~should_be_active /\ esb_active -> Put("DEACTIVATE")
    [] OTHER -> UNCHANGED esb_ctrl_msgq

(* The user selects a profile: ZMK updates its advertising, then raises    *)
(* the event.  Selecting another BLE profile raises it too.                *)
SelectProfile(esb) ==
  /\ profile_esb' = esb
  /\ \E want \in Wants(esb) : UpdateAdvertisingFrom(advertising_status, want)
  /\ profile_listener_cb(esb)
  /\ hasty' = ~CtrlIdle
  /\ UNCHANGED << pairingVars, esb_active, ctrl, boot_check, radioVars >>

(* A connection comes or goes: the event is raised with the same index. *)
ProfileEvent ==
  /\ profile_listener_cb(profile_esb)
  /\ UNCHANGED << pairingVars, esb_active, ctrl, boot_check, radioVars,
                  bleVars, profile_esb, hasty >>

(* Faulty variant: the profile restored from flash is not looked at. *)
boot_profile_check_fn_blind ==
  /\ boot_check
  /\ WqFree
  /\ boot_check' = FALSE
  /\ UNCHANGED << pairingVars, esb_active, esb_ctrl_msgq, ctrl, radioVars,
                  bleVars, profile_esb, hasty >>

boot_profile_check_fn ==
  /\ boot_check
  /\ WqFree
  /\ boot_check' = FALSE
  /\ IF profile_esb /\ ~esb_active
       THEN Put("ACTIVATE")
       ELSE UNCHANGED esb_ctrl_msgq
  /\ UNCHANGED << pairingVars, esb_active, ctrl, radioVars, bleVars,
                  profile_esb, hasty >>

----------------------------------------------------------------------------
(* The esb_ctrl thread. *)

Get(cmd) ==
  /\ ctrl = "get"
  /\ esb_ctrl_msgq # << >>
  /\ Head(esb_ctrl_msgq) = cmd
  /\ esb_ctrl_msgq' = Tail(esb_ctrl_msgq)

(* Disconnect the hosts, bt_le_adv_stop() (which ZMK is not told about),   *)
(* sleep BLE_QUIESCE_MS.                                                   *)
CtrlActivate ==
  /\ Get("ACTIVATE")
  /\ ll_adv' = FALSE
  /\ ctrl' = "quiesce"
  /\ UNCHANGED << pairingVars, esb_active, boot_check, radioVars,
                  advertising_status, profile_esb, hasty >>

(* Faulty variant: a second suspend saves the channels the first disabled. *)
bt_ll_suspend_always ==
  /\ saved_ble_ppi' = ble_ppi
  /\ ble_ppi' = FALSE
  /\ bt_ll_suspended' = TRUE

bt_ll_suspend ==
  /\ bt_ll_suspended' = TRUE
  /\ IF bt_ll_suspended
       THEN UNCHANGED << ble_ppi, saved_ble_ppi >>
       ELSE saved_ble_ppi' = ble_ppi /\ ble_ppi' = FALSE

bt_ll_resume ==
  /\ bt_ll_suspended' = FALSE
  /\ ble_ppi' = (ble_ppi \/ (bt_ll_suspended /\ saved_ble_ppi))
  /\ UNCHANGED saved_ble_ppi

(* configure_esb_addresses and esb_transport_on_slot_start.  esb_init      *)
(* disables a library that is already initialised, and may then fail; the  *)
(* thread goes on all the same.                                            *)
CtrlSlotStart ==
  /\ ctrl = "quiesce"
  /\ bt_ll_suspend
  /\ slot_on' \in BOOLEAN
  /\ ctrl' = "settle"
  /\ UNCHANGED << pairingVars, esb_active, esb_ctrl_msgq, boot_check, bleVars,
                  profile_esb, hasty >>

(* Faulty variant: esb_active is not set. *)
CtrlPairingStartUnmarked ==
  /\ ctrl = "settle"
  /\ pairing_start
  /\ ctrl' = "get"
  /\ UNCHANGED << esb_active, esb_ctrl_msgq, boot_check, radioVars, bleVars,
                  profile_esb, hasty >>

CtrlPairingStart ==
  /\ ctrl = "settle"
  /\ pairing_start
  /\ esb_active' = TRUE
  /\ ctrl' = "get"
  /\ UNCHANGED << esb_ctrl_msgq, boot_check, radioVars, bleVars, profile_esb,
                  hasty >>

(* Faulty variant: the slot is stopped and the pairing machine is not. *)
CtrlDeactivateKeepsPairing ==
  /\ Get("DEACTIVATE")
  /\ esb_active' = FALSE
  /\ slot_on' = FALSE
  /\ bt_ll_resume
  /\ ctrl' = "rename"
  /\ UNCHANGED << pairingVars, boot_check, bleVars, profile_esb, hasty >>

CtrlDeactivate ==
  /\ Get("DEACTIVATE")
  /\ esb_active' = FALSE
  /\ slot_on' = FALSE
  /\ bt_ll_resume
  /\ pairing_stop
  /\ ctrl' = "rename"
  /\ UNCHANGED << boot_check, bleVars, profile_esb, hasty >>

(* Faulty variant: update_advertising() without the reset. *)
CtrlResyncAdvertisingBare ==
  /\ ctrl = "rename"
  /\ \E want \in Wants(profile_esb) :
       UpdateAdvertisingFrom(advertising_status, want)
  /\ ctrl' = "get"
  /\ UNCHANGED << pairingVars, esb_active, esb_ctrl_msgq, boot_check,
                  radioVars, profile_esb, hasty >>

(* zmk_ble_set_device_name: stop, status NONE, update_advertising(). *)
CtrlResyncAdvertising ==
  /\ ctrl = "rename"
  /\ \E want \in Wants(profile_esb) :
       /\ advertising_status' = want
       /\ ll_adv' = (want /\ ~esb_active)
  /\ ctrl' = "get"
  /\ UNCHANGED << pairingVars, esb_active, esb_ctrl_msgq, boot_check,
                  radioVars, profile_esb, hasty >>

----------------------------------------------------------------------------
(* The pairing machine's own threads run as in Pairing; a packet arrives   *)
(* only while the ESB library runs, though rx_work may read it later.      *)
PairingRuns ==
  /\ \/ Workqueue
     \/ Shell
     \/ User
     \/ RequestLost
     \/ slot_on /\ HomeAnswers
     \/ slot_on /\ \E p \in Packets : RxEvent(p)
  /\ UNCHANGED endpointVars

(* The profile is ZMK's setting, saved with a delay: either value may come *)
(* back after a reset.                                                     *)
PowerLoss ==
  /\ PairingPowerLoss
  /\ esb_active' = FALSE
  /\ esb_ctrl_msgq' = << >>
  /\ ctrl' = "get"
  /\ boot_check' = TRUE
  /\ slot_on' = FALSE
  /\ bt_ll_suspended' = FALSE
  /\ ble_ppi' = TRUE
  /\ saved_ble_ppi' = FALSE
  /\ profile_esb' \in BOOLEAN
  /\ advertising_status' = FALSE
  /\ ll_adv' = FALSE
  /\ hasty' = FALSE

EsbCtrl ==
  \/ CtrlActivate
  \/ CtrlSlotStart
  \/ CtrlPairingStart
  \/ CtrlDeactivate
  \/ CtrlResyncAdvertising

Next ==
  \/ EsbCtrl
  \/ boot_profile_check_fn
  \/ PairingRuns
  \/ UpdateAdvertising
  \/ HostConnects
  \/ \E esb \in BOOLEAN : SelectProfile(esb)
  \/ ProfileEvent
  \/ PowerLoss

Spec == Init /\ [][Next]_vars

(* The kernel schedules the esb_ctrl thread; a save returns; and the       *)
(* workqueue is a FIFO, so the boot check has its turn even if somebody    *)
(* keeps pressing the unpair key (strong fairness: each press takes the    *)
(* queue away for one save).                                               *)
FairSpec ==
  /\ Spec
  /\ WF_vars(EsbCtrl)
  /\ SF_vars(boot_profile_check_fn)
  /\ WF_vars((PairReqSaved \/ DisconnectSaved \/ UnpairKeySaved)
             /\ UNCHANGED endpointVars)

----------------------------------------------------------------------------
(* Properties. *)

EndpointTypeOK ==
  /\ PairingTypeOK
  /\ esb_active \in BOOLEAN
  /\ esb_ctrl_msgq \in Seq(Commands)
  /\ Len(esb_ctrl_msgq) <= MSGQ_DEPTH
  /\ ctrl \in CtrlPoints
  /\ boot_check \in BOOLEAN
  /\ slot_on \in BOOLEAN
  /\ bt_ll_suspended \in BOOLEAN
  /\ ble_ppi \in BOOLEAN
  /\ saved_ble_ppi \in BOOLEAN
  /\ profile_esb \in BOOLEAN
  /\ advertising_status \in BOOLEAN
  /\ ll_adv \in BOOLEAN
  /\ hasty \in BOOLEAN

(* ESB and the Bluetooth link layer never drive the radio together, and    *)
(* when esb_ctrl has nothing left to do and ESB is not active the link     *)
(* layer has its radio back, however many ACTIVATEs and DEACTIVATEs were   *)
(* queued twice (slot_start saves CHEN, slot_stop restores it).            *)
RadioHandedOver ==
  /\ slot_on => ~ble_ppi
  /\ CtrlIdle /\ ~esb_active => ~slot_on /\ ble_ppi

(* "Resync ZMK's static advertising_status with reality" (esb_endpoint.c   *)
(* DEACTIVATE): between commands, while ESB is not active, ZMK advertises  *)
(* exactly when it believes so, although starts were swallowed by the wrap *)
(* and stopped behind ZMK's back before.                                   *)
AdvertisingResynced ==
  ctrl = "get" /\ ~esb_active => (advertising_status <=> ll_adv)

(* While ESB is off no packet that was still in the mailbox, no save that  *)
(* was still running and no unpair brings the machine to a state in which  *)
(* it claims a dongle: the HID relay would send into a dead radio.         *)
OffNeverConnected ==
  CtrlIdle /\ ~esb_active => m_state \in { "IDLE", "UNPAIRED" }

(* "Pick that profile and ESB takes the radio; pick a different one and    *)
(* BLE comes back" (README): once the boot check has run and every command *)
(* is executed, ESB is active exactly on the last profile.                 *)
FollowsProfile ==
  CtrlIdle /\ ~boot_check => (esb_active <=> profile_esb)

(* ...which is so when the last switch was made after the previous one had *)
(* been acted on.                                                          *)
FollowsPatientUser ==
  CtrlIdle /\ ~boot_check /\ ~hasty => (esb_active <=> profile_esb)

(* And it comes about: when the user and the power stay as they are, the   *)
(* command is executed, whatever connections do meanwhile.                 *)
SwitchTakesEffect ==
  <>[][~ PowerLoss /\ ~ \E esb \in BOOLEAN : SelectProfile(esb)]_vars =>
    <>[](hasty \/ (esb_active <=> profile_esb))
============================================================================
