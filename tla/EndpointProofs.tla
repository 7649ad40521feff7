--------------------------- MODULE EndpointProofs ---------------------------
(***************************************************************************)
(* Theorems about Pairing and about EsbEndpoint, for any set of dongles    *)
(* and a queue of any depth.                                               *)
(*                                                                         *)
(* First the pairing machine: each invariant gets an inductive             *)
(* strengthening of its own, and every step lemma goes through the actions *)
(* of PairingNext one by one.  The composed system implements that machine,*)
(* so what is proved of it holds there too; the rest is about the radio,   *)
(* the advertising and the profile.                                        *)
(***************************************************************************)
EXTENDS EsbEndpoint, TLAPS

-----------------------------------------------------------------------------
(* The pairing machine *)

LEMMA TypeInit == PairingInit => PairingTypeOK
  BY DonglesAssumption
  DEF PairingInit, PairingTypeOK, LoadSettings, States, DeviceIds, Packets,
      NoPacket, Saves, Running, ShellPoints

LEMMA TypeStep == PairingTypeOK /\ [PairingNext]_pairingVars => PairingTypeOK'
<1> SUFFICES ASSUME PairingTypeOK, [PairingNext]_pairingVars
             PROVE  PairingTypeOK'
  OBVIOUS
<1> USE DEF PairingTypeOK
<1>1. CASE pairing_start
  BY <1>1 DEF pairing_start, States
<1>2. CASE pairing_stop
  BY <1>2 DEF pairing_stop, States
<1>3. CASE beacon_work_fn \/ verify_work_fn
  BY <1>3 DEF beacon_work_fn, verify_work_fn
<1>4. CASE pairing_on_rx
  <2>1. ASSUME NEW d \in Dongles, OnPairReq(d) PROVE PairingTypeOK'
    BY <2>1 DEF OnPairReq, Deliver, States, DeviceIds, Saves
  <2>2. ASSUME NEW d \in Dongles, OnVerifyResp(d) PROVE PairingTypeOK'
    BY <2>2 DEF OnVerifyResp, Deliver, States
  <2>3. CASE OnDisconnect
    BY <2>3 DEF OnDisconnect, Deliver, States, DeviceIds, Saves
  <2>4. CASE OnResync
    BY <2>4 DEF OnResync, Deliver, States
  <2>5. ASSUME NEW p \in Packets, OnIgnored(p) PROVE PairingTypeOK'
    BY <2>5 DEF OnIgnored, Deliver
  <2> QED
    BY <1>4, <2>1, <2>2, <2>3, <2>4, <2>5 DEF pairing_on_rx
<1>5. CASE PairReqSaved \/ DisconnectSaved \/ UnpairKeySaved
  <2>1. CASE PairReqSaved
    <3>1. wq.rec \in DeviceIds
      BY <2>1 DEF PairReqSaved, Saves, DeviceIds, Running
    <3> QED
      BY <2>1, <3>1 DEF PairReqSaved
  <2>2. CASE DisconnectSaved
    <3>1. wq.rec \in DeviceIds
      BY <2>2 DEF DisconnectSaved, Saves, DeviceIds, Running
    <3> QED
      BY <2>2, <3>1 DEF DisconnectSaved
  <2>3. CASE UnpairKeySaved
    <3>1. wq.rec \in DeviceIds
      BY <2>3 DEF UnpairKeySaved, Saves, DeviceIds, Running
    <3> QED
      BY <2>3, <3>1 DEF UnpairKeySaved, States
  <2> QED
    BY <1>5, <2>1, <2>2, <2>3
<1>6. CASE Shell
  BY <1>6 DEF Shell, ShellPoints, States, DeviceIds,
      ShellMoves, UnpairShellMemset, UnpairShellSaved,
      UnpairShellCancel, UnpairShellTest, UnpairShellSet, UnpairShellRearm
<1>7. CASE Air
  BY <1>7, DonglesAssumption DEF Air, HomeAnswers, RequestLost, Packets
<1>8. CASE User
  <2>1. CASE UnpairKey
    BY <2>1 DEF UnpairKey, DeviceIds, Saves
  <2>2. CASE UnpairShell
    BY <2>2 DEF UnpairShell, ShellMoves, ShellPoints
  <2> QED
    BY <1>8, <2>1, <2>2 DEF User
<1>9. ASSUME NEW p \in Packets, RxEvent(p) PROVE PairingTypeOK'
  BY <1>9 DEF RxEvent
<1>10. CASE PairingPowerLoss
  BY <1>10 DEF PairingPowerLoss, States, ShellPoints
<1>11. CASE UNCHANGED pairingVars
  BY <1>11 DEF pairingVars
<1> QED
  BY <1>1, <1>2, <1>3, <1>4, <1>5, <1>6, <1>7, <1>8, <1>9, <1>10, <1>11
  DEF PairingNext, Workqueue

(* Every variable keeps its type: the states, records and packets that     *)
(* pairing.c declares are all it ever holds.                               *)
THEOREM PairingTypeCorrect == PairingSpec => []PairingTypeOK
  BY TypeInit, TypeStep, PTL DEF PairingSpec

----------------------------------------------------------------------------
(* While a forgetting save is under way nothing remembers a dongle. *)

LEMMA SavesForgetStep ==
  PairingTypeOK /\ SavesForget /\ [PairingNext]_pairingVars => SavesForget'
<1> SUFFICES ASSUME PairingTypeOK, SavesForget, [PairingNext]_pairingVars
             PROVE  SavesForget'
  OBVIOUS
<1> USE DEF SavesForget
<1>1. CASE pairing_start
  BY <1>1 DEF pairing_start
<1>2. CASE pairing_stop
  BY <1>2 DEF pairing_stop
<1>3. CASE beacon_work_fn \/ verify_work_fn
  BY <1>3 DEF beacon_work_fn, verify_work_fn
<1>4. CASE pairing_on_rx
  BY <1>4 DEF pairing_on_rx, OnPairReq, OnVerifyResp, OnDisconnect, OnResync,
      OnIgnored, Deliver, WqFree, Running
<1>5. CASE PairReqSaved \/ DisconnectSaved \/ UnpairKeySaved
  BY <1>5 DEF PairReqSaved, DisconnectSaved, UnpairKeySaved, Running
<1>6. CASE Shell
  BY <1>6 DEF Shell, ShellMoves, UnpairShellMemset, UnpairShellSaved,
      UnpairShellCancel, UnpairShellTest, UnpairShellSet, UnpairShellRearm
<1>7. CASE Air
  BY <1>7 DEF Air, HomeAnswers, RequestLost
<1>8. CASE User
  BY <1>8 DEF User, UnpairKey, UnpairShell, ShellMoves, WqFree, Running
<1>9. ASSUME NEW p \in Packets, RxEvent(p) PROVE SavesForget'
  BY <1>9 DEF RxEvent
<1>10. CASE PairingPowerLoss
  BY <1>10 DEF PairingPowerLoss, Running
<1>11. CASE UNCHANGED pairingVars
  BY <1>11 DEF pairingVars
<1> QED
  BY <1>1, <1>2, <1>3, <1>4, <1>5, <1>6, <1>7, <1>8, <1>9, <1>10, <1>11
  DEF PairingNext, Workqueue

----------------------------------------------------------------------------
(* A waiting state has its timer.  SavesForget is needed for one step: the *)
(* end of DISCONNECT cancels the VERIFY timer without looking at m_state.  *)

LEMMA NoStallStep ==
  PairingTypeOK /\ SavesForget /\ NoStall /\ [PairingNext]_pairingVars
    => NoStall'
<1> SUFFICES ASSUME PairingTypeOK, SavesForget, NoStall,
                    [PairingNext]_pairingVars
             PROVE  NoStall'
  OBVIOUS
<1> USE DEF NoStall
<1>1. CASE pairing_start
  BY <1>1 DEF pairing_start
<1>2. CASE pairing_stop
  BY <1>2 DEF pairing_stop
<1>3. CASE beacon_work_fn
  BY <1>3 DEF beacon_work_fn
<1>4. CASE verify_work_fn
  BY <1>4 DEF verify_work_fn
<1>5. CASE pairing_on_rx
  BY <1>5 DEF pairing_on_rx, OnPairReq, OnVerifyResp, OnDisconnect, OnResync,
      OnIgnored, Deliver, WqFree
<1>6. CASE PairReqSaved
  BY <1>6 DEF PairReqSaved
<1>7. CASE DisconnectSaved
  BY <1>7 DEF DisconnectSaved, SavesForget
<1>8. CASE UnpairKeySaved
  BY <1>8 DEF UnpairKeySaved
<1>9. CASE Shell
  <2>1. CASE UnpairShellMemset \/ UnpairShellSaved \/ UnpairShellCancel
    BY <2>1 DEF UnpairShellMemset, UnpairShellSaved, UnpairShellCancel, ShellMoves
  <2>2. CASE UnpairShellTest
    BY <2>2 DEF UnpairShellTest, ShellMoves
  <2>3. CASE UnpairShellSet \/ UnpairShellRearm
    BY <2>3 DEF UnpairShellSet, UnpairShellRearm, ShellMoves
  <2> QED
    BY <1>9, <2>1, <2>2, <2>3 DEF Shell
<1>10. CASE Air
  BY <1>10 DEF Air, HomeAnswers, RequestLost
<1>11. CASE UnpairKey
  BY <1>11 DEF UnpairKey, WqFree, Running
<1>12. CASE UnpairShell
  BY <1>12 DEF UnpairShell, ShellMoves
<1>13. ASSUME NEW p \in Packets, RxEvent(p) PROVE NoStall'
  BY <1>13 DEF RxEvent
<1>14. CASE PairingPowerLoss
  BY <1>14 DEF PairingPowerLoss
<1>15. CASE UNCHANGED pairingVars
  BY <1>15 DEF pairingVars
<1> QED
  BY <1>1, <1>2, <1>3, <1>4, <1>5, <1>6, <1>7, <1>8, <1>9, <1>10, <1>11,
     <1>12, <1>13, <1>14, <1>15
  DEF PairingNext, Workqueue, User

(* A keyboard that waits for a dongle never falls silent: while VERIFYING  *)
(* or UNPAIRED the timer that asks is scheduled, or some thread is inside  *)
(* the handler that is about to schedule it.                               *)
THEOREM NeverStalls == PairingSpec => []NoStall
<1>1. PairingInit => NoStall /\ SavesForget
  BY DEF PairingInit, NoStall, SavesForget, Running
<1> QED
  BY <1>1, NoStallStep, SavesForgetStep, PairingTypeCorrect, PTL
  DEF PairingSpec

----------------------------------------------------------------------------
(* The states that speak of a dongle have one. *)

LEMMA PeerKnownStep ==
  PairingTypeOK /\ SavesForget /\ PeerKnown /\ [PairingNext]_pairingVars
    => PeerKnown'
<1> SUFFICES ASSUME PairingTypeOK, SavesForget, PeerKnown,
                    [PairingNext]_pairingVars
             PROVE  PeerKnown'
  OBVIOUS
<1> USE DEF PeerKnown
<1>1. CASE pairing_start
  BY <1>1 DEF pairing_start
<1>2. CASE pairing_stop
  BY <1>2 DEF pairing_stop
<1>3. CASE beacon_work_fn \/ verify_work_fn
  BY <1>3 DEF beacon_work_fn, verify_work_fn
<1>4. CASE pairing_on_rx
  <2>1. ASSUME NEW d \in Dongles, OnPairReq(d) PROVE PeerKnown'
    BY <2>1 DEF OnPairReq
  <2>2. ASSUME NEW d \in Dongles, OnVerifyResp(d) PROVE PeerKnown'
    BY <2>2 DEF OnVerifyResp
  <2>3. CASE OnDisconnect
    BY <2>3 DEF OnDisconnect
  <2>4. CASE OnResync
    BY <2>4 DEF OnResync
  <2>5. ASSUME NEW p \in Packets, OnIgnored(p) PROVE PeerKnown'
    BY <2>5 DEF OnIgnored
  <2> QED
    BY <1>4, <2>1, <2>2, <2>3, <2>4, <2>5 DEF pairing_on_rx
<1>5. CASE PairReqSaved
  BY <1>5 DEF PairReqSaved
<1>6. CASE DisconnectSaved
  BY <1>6 DEF DisconnectSaved
<1>7. CASE UnpairKeySaved
  <2>1. m_state' \in { "IDLE", "UNPAIRED" }
    BY <1>7 DEF UnpairKeySaved
  <2> QED
    BY <2>1
<1>8. CASE Shell
  <2>1. CASE UnpairShellMemset \/ UnpairShellSaved \/ UnpairShellCancel
    BY <2>1 DEF UnpairShellMemset, UnpairShellSaved, UnpairShellCancel, ShellMoves
  <2>2. CASE UnpairShellTest
    BY <2>2 DEF UnpairShellTest, ShellMoves
  <2>3. CASE UnpairShellSet \/ UnpairShellRearm
    BY <2>3 DEF UnpairShellSet, UnpairShellRearm, ShellMoves
  <2> QED
    BY <1>8, <2>1, <2>2, <2>3 DEF Shell
<1>9. CASE Air
  BY <1>9 DEF Air, HomeAnswers, RequestLost
<1>10. CASE User
  BY <1>10 DEF User, UnpairKey, UnpairShell, ShellMoves
<1>11. ASSUME NEW p \in Packets, RxEvent(p) PROVE PeerKnown'
  BY <1>11 DEF RxEvent
<1>12. CASE PairingPowerLoss
  BY <1>12 DEF PairingPowerLoss
<1>13. CASE UNCHANGED pairingVars
  BY <1>13 DEF pairingVars
<1> QED
  BY <1>1, <1>2, <1>3, <1>4, <1>5, <1>6, <1>7, <1>8, <1>9, <1>10, <1>11,
     <1>12, <1>13
  DEF PairingNext, Workqueue

(* Whatever the order of handshakes, unpair commands, starts, stops and    *)
(* power losses, a CONNECTED keyboard that is not in the middle of an      *)
(* unpair knows the dongle it is connected to.                             *)
THEOREM ConnectedKnowsPeer == PairingSpec => []ConnectedHasPeer
<1>1. PairingInit => PeerKnown /\ SavesForget
  BY DEF PairingInit, PeerKnown, SavesForget, Running
<1>2. PeerKnown => ConnectedHasPeer
  BY DEF PeerKnown, ConnectedHasPeer
<1> QED
  BY <1>1, <1>2, PeerKnownStep, SavesForgetStep, PairingTypeCorrect, PTL
  DEF PairingSpec

----------------------------------------------------------------------------
(* The NVS record.  Without the shell command all writers of the pairing   *)
(* data run on one thread, which is what makes the record follow RAM.      *)

LEMMA RecordStep ==
  PairingTypeOK /\ SavesForget /\ RecordFollowsRam
    /\ [PairingNext]_pairingVars => RecordFollowsRam'
<1> SUFFICES ASSUME PairingTypeOK, SavesForget, RecordFollowsRam,
                    [PairingNext]_pairingVars, ~SHELL_CMDS
             PROVE  RecordFollowsRam'
  BY DEF RecordFollowsRam
<1> USE DEF RecordFollowsRam, WqFree
<1>1. CASE pairing_start
  BY <1>1 DEF pairing_start
<1>2. CASE pairing_stop
  BY <1>2 DEF pairing_stop
<1>3. CASE beacon_work_fn \/ verify_work_fn
  BY <1>3 DEF beacon_work_fn, verify_work_fn
<1>4. CASE pairing_on_rx
  <2>1. ASSUME NEW d \in Dongles, OnPairReq(d) PROVE RecordFollowsRam'
    BY <2>1, DonglesAssumption DEF OnPairReq, Deliver, Running
  <2>2. ASSUME NEW d \in Dongles, OnVerifyResp(d) PROVE RecordFollowsRam'
    BY <2>2 DEF OnVerifyResp
  <2>3. CASE OnDisconnect
    BY <2>3 DEF OnDisconnect, Running
  <2>4. CASE OnResync
    BY <2>4 DEF OnResync
  <2>5. ASSUME NEW p \in Packets, OnIgnored(p) PROVE RecordFollowsRam'
    BY <2>5 DEF OnIgnored
  <2> QED
    BY <1>4, <2>1, <2>2, <2>3, <2>4, <2>5 DEF pairing_on_rx
<1>5. CASE PairReqSaved
  BY <1>5 DEF PairReqSaved, Running
<1>6. CASE DisconnectSaved
  BY <1>6 DEF DisconnectSaved, Running
<1>7. CASE UnpairKeySaved
  BY <1>7 DEF UnpairKeySaved, SavesForget, Running
<1>8. CASE Shell
  BY <1>8 DEF Shell, ShellMoves, UnpairShellMemset, UnpairShellSaved,
      UnpairShellCancel, UnpairShellTest, UnpairShellSet, UnpairShellRearm
<1>9. CASE Air
  BY <1>9 DEF Air, HomeAnswers, RequestLost
<1>10. CASE User
  BY <1>10 DEF User, UnpairKey, UnpairShell, Running
<1>11. ASSUME NEW p \in Packets, RxEvent(p) PROVE RecordFollowsRam'
  BY <1>11 DEF RxEvent
<1>12. CASE PairingPowerLoss
  BY <1>12 DEF PairingPowerLoss, Running
<1>13. CASE UNCHANGED pairingVars
  BY <1>13 DEF pairingVars
<1> QED
  BY <1>1, <1>2, <1>3, <1>4, <1>5, <1>6, <1>7, <1>8, <1>9, <1>10, <1>11,
     <1>12, <1>13
  DEF PairingNext, Workqueue

LEMMA RecordInvariant ==
  PairingSpec => [](PairingTypeOK /\ RecordFollowsRam)
<1>1. ASSUME PairingInit PROVE RecordFollowsRam /\ SavesForget
  <2>1. wq.at = "running" /\ wq = Running /\ sh = "prompt" /\ m_state = "IDLE"
    BY <1>1 DEF PairingInit, Running
  <2>2. m_peer_device_id = nvs
    BY <1>1 DEF PairingInit, LoadSettings
  <2>3. m_has_stored_peer <=> m_peer_device_id # NoDongle
    BY <1>1, <2>2 DEF PairingInit, LoadSettings
  <2> QED
    BY <2>1, <2>2, <2>3 DEF RecordFollowsRam, SavesForget, WqFree
<1> QED
  BY <1>1, RecordStep, SavesForgetStep, PairingTypeCorrect, PTL
  DEF PairingSpec

(* Without the shell command, whenever no save is under way the record a   *)
(* reboot would load says what RAM says.                                   *)
THEOREM RecordIsRam ==
  ASSUME ~SHELL_CMDS
  PROVE  PairingSpec => []RecordMatchesRam
<1>1. RecordFollowsRam => RecordMatchesRam
  BY DEF RecordFollowsRam, RecordMatchesRam
<1> QED
  BY <1>1, RecordInvariant, PTL

(* Without the shell command the record never goes from one dongle to      *)
(* another: an unpair or a DISCONNECT is always saved in between.          *)
THEOREM RebindForgetsFirst ==
  ASSUME ~SHELL_CMDS
  PROVE  PairingSpec => RebindOnlyAfterForget
<1>1. PairingTypeOK /\ RecordFollowsRam /\ [PairingNext]_pairingVars
        => [nvs # nvs' => NoDongle \in { nvs, nvs' }]_pairingVars
  <2> SUFFICES ASSUME PairingTypeOK, RecordFollowsRam, PairingNext, nvs # nvs'
               PROVE  NoDongle \in { nvs, nvs' }
    BY DEF pairingVars
  <2>1. CASE PairReqSaved
    BY <2>1 DEF PairReqSaved, RecordFollowsRam
  <2>2. CASE DisconnectSaved \/ UnpairKeySaved
    BY <2>2 DEF DisconnectSaved, UnpairKeySaved, PairingTypeOK, Saves, Running
  <2>3. CASE Shell
    BY <2>3 DEF Shell, ShellMoves, UnpairShellMemset, UnpairShellSaved,
        UnpairShellCancel, UnpairShellTest, UnpairShellSet, UnpairShellRearm
  <2>4. CASE pairing_start \/ pairing_stop \/ beacon_work_fn \/ verify_work_fn
    BY <2>4 DEF pairing_start, pairing_stop, beacon_work_fn, verify_work_fn
  <2>5. CASE pairing_on_rx
    BY <2>5 DEF pairing_on_rx, OnPairReq, OnVerifyResp, OnDisconnect,
        OnResync, OnIgnored
  <2>6. CASE Air \/ User \/ PairingPowerLoss
    BY <2>6 DEF Air, User, HomeAnswers, RequestLost, UnpairKey, UnpairShell,
        PairingPowerLoss
  <2>7. CASE \E p \in Packets : RxEvent(p)
    BY <2>7 DEF RxEvent
  <2> QED
    BY <2>1, <2>2, <2>3, <2>4, <2>5, <2>6, <2>7 DEF PairingNext, Workqueue
<1> QED
  BY <1>1, RecordInvariant, PTL DEF PairingSpec, RebindOnlyAfterForget

-----------------------------------------------------------------------------
(* The endpoint *)

LEMMA InitRefines == Init => PairingInit
  BY DEF Init

LEMMA StepRefines == [Next]_vars => [PairingNext]_pairingVars
<1> SUFFICES ASSUME [Next]_vars
             PROVE  [PairingNext]_pairingVars
  OBVIOUS
<1>1. CASE CtrlActivate \/ CtrlSlotStart \/ CtrlResyncAdvertising
  BY <1>1 DEF CtrlActivate, CtrlSlotStart, CtrlResyncAdvertising
<1>2. CASE CtrlPairingStart
  BY <1>2 DEF CtrlPairingStart, PairingNext
<1>3. CASE CtrlDeactivate
  BY <1>3 DEF CtrlDeactivate, PairingNext
<1>4. CASE boot_profile_check_fn
  BY <1>4 DEF boot_profile_check_fn
<1>5. CASE PairingRuns
  BY <1>5 DEF PairingRuns, PairingNext, Air
<1>6. CASE UpdateAdvertising \/ HostConnects \/ ProfileEvent
  BY <1>6 DEF UpdateAdvertising, HostConnects, ProfileEvent
<1>7. ASSUME NEW esb \in BOOLEAN, SelectProfile(esb)
      PROVE  [PairingNext]_pairingVars
  BY <1>7 DEF SelectProfile
<1>8. CASE PowerLoss
  BY <1>8 DEF PowerLoss, PairingNext
<1>9. CASE UNCHANGED vars
  BY <1>9 DEF vars
<1> QED
  BY <1>1, <1>2, <1>3, <1>4, <1>5, <1>6, <1>7, <1>8, <1>9 DEF Next, EsbCtrl

(* The endpoint starts and stops the pairing machine only in ways the       *)
(* machine allows: every behaviour of the composed system is, to who looks  *)
(* at pairing.c's state alone, one of the pairing machine.                  *)
THEOREM EndpointImplementsPairing == Spec => PairingSpec
  BY InitRefines, StepRefines, PTL DEF Spec, PairingSpec

(* The record on flash says what RAM says in the composed system too        *)
(* (save_paired, settings_load_cb).                                         *)
THEOREM EndpointRecordIsRam ==
  ASSUME ~SHELL_CMDS
  PROVE  Spec => []RecordMatchesRam
  BY EndpointImplementsPairing, RecordIsRam, PTL

(* ...and a bound keyboard is not taken over behind its owner's back.       *)
THEOREM EndpointRebindForgetsFirst ==
  ASSUME ~SHELL_CMDS
  PROVE  Spec => RebindOnlyAfterForget
  BY EndpointImplementsPairing, RebindForgetsFirst, PTL

-----------------------------------------------------------------------------
(* The type invariant: the queue, then the flags. *)

QueueTyped ==
  /\ esb_ctrl_msgq \in Seq(Commands)
  /\ Len(esb_ctrl_msgq) <= MSGQ_DEPTH

FlagsTyped ==
  /\ esb_active \in BOOLEAN /\ ctrl \in CtrlPoints /\ boot_check \in BOOLEAN
  /\ slot_on \in BOOLEAN /\ bt_ll_suspended \in BOOLEAN
  /\ ble_ppi \in BOOLEAN /\ saved_ble_ppi \in BOOLEAN
  /\ profile_esb \in BOOLEAN /\ advertising_status \in BOOLEAN
  /\ ll_adv \in BOOLEAN /\ hasty \in BOOLEAN

(* What k_msgq_put leaves in a queue that had its type. *)
LEMMA PutTyped ==
  ASSUME QueueTyped, NEW cmd \in Commands, Put(cmd)
  PROVE  QueueTyped'
  BY DepthAssumption DEF DepthAssumption, QueueTyped, Put

LEMMA ListenerTyped ==
  ASSUME QueueTyped, NEW on \in BOOLEAN, profile_listener_cb(on)
  PROVE  QueueTyped'
<1>1. CASE on /\ ~esb_active
  BY <1>1, PutTyped DEF profile_listener_cb, Commands
<1>2. CASE ~on /\ esb_active
  BY <1>2, PutTyped DEF profile_listener_cb, Commands
<1>3. CASE ~(on /\ ~esb_active) /\ ~(~on /\ esb_active)
  BY <1>3 DEF profile_listener_cb, QueueTyped
<1> QED
  BY <1>1, <1>2, <1>3

LEMMA GetTyped ==
  ASSUME QueueTyped, NEW cmd, Get(cmd)
  PROVE  QueueTyped'
  BY DepthAssumption DEF DepthAssumption, QueueTyped, Get

LEMMA QueueStep == QueueTyped /\ FlagsTyped /\ [Next]_vars => QueueTyped'
<1> SUFFICES ASSUME QueueTyped, FlagsTyped, [Next]_vars
             PROVE  QueueTyped'
  OBVIOUS
<1>1. CASE CtrlActivate \/ CtrlDeactivate
  BY <1>1, GetTyped DEF CtrlActivate, CtrlDeactivate
<1>2. CASE CtrlSlotStart \/ CtrlPairingStart \/ CtrlResyncAdvertising
  BY <1>2 DEF CtrlSlotStart, CtrlPairingStart, CtrlResyncAdvertising, QueueTyped
<1>3. CASE boot_profile_check_fn
  BY <1>3, PutTyped DEF boot_profile_check_fn, Commands, QueueTyped
<1>4. CASE PairingRuns \/ UpdateAdvertising \/ HostConnects
  BY <1>4
  DEF PairingRuns, endpointVars, UpdateAdvertising, HostConnects, QueueTyped
<1>5. ASSUME NEW esb \in BOOLEAN, SelectProfile(esb)
      PROVE  QueueTyped'
  BY <1>5, ListenerTyped DEF SelectProfile
<1>6. CASE ProfileEvent
  BY <1>6, ListenerTyped DEF ProfileEvent, FlagsTyped
<1>7. CASE PowerLoss
  BY <1>7, DepthAssumption DEF PowerLoss, QueueTyped, DepthAssumption
<1>8. CASE UNCHANGED vars
  BY <1>8 DEF vars, endpointVars, QueueTyped
<1> QED
  BY <1>1, <1>2, <1>3, <1>4, <1>5, <1>6, <1>7, <1>8 DEF Next, EsbCtrl

LEMMA FlagsStep == FlagsTyped /\ [Next]_vars => FlagsTyped'
<1> SUFFICES ASSUME FlagsTyped, [Next]_vars
             PROVE  FlagsTyped'
  OBVIOUS
<1> USE DEF FlagsTyped, CtrlPoints, radioVars, bleVars
<1>1. CASE CtrlActivate
  BY <1>1 DEF CtrlActivate
<1>2. CASE CtrlSlotStart
  BY <1>2 DEF CtrlSlotStart, bt_ll_suspend
<1>3. CASE CtrlPairingStart
  BY <1>3 DEF CtrlPairingStart
<1>4. CASE CtrlDeactivate
  BY <1>4 DEF CtrlDeactivate, bt_ll_resume
<1>5. CASE CtrlResyncAdvertising
  BY <1>5 DEF CtrlResyncAdvertising, Wants
<1>6. CASE boot_profile_check_fn
  BY <1>6 DEF boot_profile_check_fn
<1>7. CASE PairingRuns
  BY <1>7 DEF PairingRuns, endpointVars
<1>8. CASE UpdateAdvertising
  BY <1>8 DEF UpdateAdvertising, UpdateAdvertisingFrom, wrap_bt_le_adv_start,
              Wants
<1>9. CASE HostConnects
  BY <1>9 DEF HostConnects
<1>10. ASSUME NEW esb \in BOOLEAN, SelectProfile(esb)
       PROVE  FlagsTyped'
  BY <1>10 DEF SelectProfile, UpdateAdvertisingFrom, wrap_bt_le_adv_start,
               Wants, CtrlIdle
<1>11. CASE ProfileEvent
  BY <1>11 DEF ProfileEvent
<1>12. CASE PowerLoss
  BY <1>12 DEF PowerLoss
<1>13. CASE UNCHANGED vars
  BY <1>13 DEF vars, endpointVars
<1> QED
  BY <1>1, <1>2, <1>3, <1>4, <1>5, <1>6, <1>7, <1>8, <1>9, <1>10, <1>11,
     <1>12, <1>13
  DEF Next, EsbCtrl

LEMMA EndpointTypeParts == EndpointTypeOK <=> PairingTypeOK /\ QueueTyped /\ FlagsTyped
  BY DEF EndpointTypeOK, QueueTyped, FlagsTyped

LEMMA TypedInit == Init => QueueTyped /\ FlagsTyped
<1> SUFFICES ASSUME Init
             PROVE  QueueTyped /\ FlagsTyped
  OBVIOUS
<1>1. QueueTyped
  BY DepthAssumption DEF Init, QueueTyped, DepthAssumption
<1>2. FlagsTyped
  BY DEF Init, FlagsTyped, CtrlPoints
<1> QED
  BY <1>1, <1>2

(* The endpoint's variables keep their types; the command queue never holds *)
(* more than its depth (K_MSGQ_DEFINE, k_msgq_put with K_NO_WAIT).          *)
THEOREM EndpointTypeCorrect == Spec => []EndpointTypeOK
<1>1. Spec => []PairingTypeOK
  BY EndpointImplementsPairing, PairingTypeCorrect, PTL
<1> QED
  BY <1>1, TypedInit, QueueStep, FlagsStep, EndpointTypeParts, PTL DEF Spec

-----------------------------------------------------------------------------
(* The radio.  The link layer's channels are off exactly while it is        *)
(* suspended, and the mask to restore has them on; it is suspended only     *)
(* while ESB is active or about to be.                                      *)
RadioInv ==
  /\ bt_ll_suspended => ~ble_ppi /\ saved_ble_ppi
  /\ ~bt_ll_suspended => ble_ppi
  /\ slot_on => bt_ll_suspended
  /\ bt_ll_suspended => esb_active \/ ctrl = "settle"

LEMMA RadioStep == FlagsTyped /\ RadioInv /\ [Next]_vars => RadioInv'
<1> SUFFICES ASSUME FlagsTyped, RadioInv, [Next]_vars
             PROVE  RadioInv'
  OBVIOUS
<1> USE DEF RadioInv, FlagsTyped, CtrlPoints, radioVars
<1>1. CASE CtrlActivate
  BY <1>1 DEF CtrlActivate, Get
<1>2. CASE CtrlSlotStart
  BY <1>2 DEF CtrlSlotStart, bt_ll_suspend
<1>3. CASE CtrlPairingStart
  BY <1>3 DEF CtrlPairingStart
<1>4. CASE CtrlDeactivate
  BY <1>4 DEF CtrlDeactivate, bt_ll_resume, Get
<1>5. CASE CtrlResyncAdvertising
  BY <1>5 DEF CtrlResyncAdvertising
<1>6. CASE boot_profile_check_fn
  BY <1>6 DEF boot_profile_check_fn
<1>7. CASE PairingRuns
  BY <1>7 DEF PairingRuns, endpointVars
<1>8. CASE UpdateAdvertising \/ HostConnects \/ ProfileEvent
  BY <1>8 DEF UpdateAdvertising, HostConnects, ProfileEvent
<1>9. ASSUME NEW esb \in BOOLEAN, SelectProfile(esb)
      PROVE  RadioInv'
  BY <1>9 DEF SelectProfile
<1>10. CASE PowerLoss
  BY <1>10 DEF PowerLoss
<1>11. CASE UNCHANGED vars
  BY <1>11 DEF vars, endpointVars
<1> QED
  BY <1>1, <1>2, <1>3, <1>4, <1>5, <1>6, <1>7, <1>8, <1>9, <1>10, <1>11
  DEF Next, EsbCtrl

LEMMA RadioInit == Init => RadioInv
  BY DEF Init, RadioInv

(* ESB and the Bluetooth link layer never drive the radio together, and     *)
(* when esb_ctrl is done with ESB the link layer has its channels back,     *)
(* however many commands were queued twice (bt_ll_suspend, bt_ll_resume).   *)
THEOREM RadioIsHandedOver == Spec => []RadioHandedOver
<1>1. RadioInv => RadioHandedOver
  BY DEF RadioInv, RadioHandedOver, CtrlIdle
<1> QED
  BY <1>1, RadioInit, RadioStep, TypedInit, FlagsStep, PTL DEF Spec

-----------------------------------------------------------------------------
(* update_advertising() keeps the status and the link layer in step while   *)
(* ESB is off.                                                              *)
LEMMA UpdateKeeps ==
  ASSUME FlagsTyped, AdvertisingResynced, NEW want \in BOOLEAN,
         UpdateAdvertisingFrom(advertising_status, want),
         UNCHANGED << ctrl, esb_active >>
  PROVE  AdvertisingResynced'
<1> SUFFICES ASSUME ctrl = "get", ~esb_active
             PROVE  advertising_status' <=> ll_adv'
  BY DEF AdvertisingResynced
<1>1. advertising_status = ll_adv
  BY DEF AdvertisingResynced, FlagsTyped
<1>2. advertising_status' = want
  BY DEF UpdateAdvertisingFrom
<1>3. CASE want = advertising_status
  BY <1>1, <1>2, <1>3 DEF UpdateAdvertisingFrom
<1>4. CASE want # advertising_status /\ want
  <2>1. ll_adv' = (ll_adv \/ ~esb_active)
    BY <1>4 DEF UpdateAdvertisingFrom, wrap_bt_le_adv_start
  <2>2. ll_adv'
    BY <2>1
  <2>3. advertising_status'
    BY <1>2, <1>4
  <2> QED
    BY <2>2, <2>3
<1>5. CASE want # advertising_status /\ ~want
  BY <1>2, <1>5 DEF UpdateAdvertisingFrom
<1> QED
  BY <1>3, <1>4, <1>5

LEMMA AdvertisingStep ==
  FlagsTyped /\ AdvertisingResynced /\ [Next]_vars => AdvertisingResynced'
<1> SUFFICES ASSUME FlagsTyped, AdvertisingResynced, [Next]_vars
             PROVE  AdvertisingResynced'
  OBVIOUS
<1> USE DEF AdvertisingResynced, FlagsTyped, bleVars
<1>1. CASE CtrlActivate
  BY <1>1 DEF CtrlActivate
<1>2. CASE CtrlSlotStart
  BY <1>2 DEF CtrlSlotStart
<1>3. CASE CtrlPairingStart
  BY <1>3 DEF CtrlPairingStart
<1>4. CASE CtrlDeactivate
  BY <1>4 DEF CtrlDeactivate
<1>5. CASE CtrlResyncAdvertising
  <2>1. PICK want \in BOOLEAN :
          advertising_status' = want /\ ll_adv' = (want /\ ~esb_active)
    BY <1>5 DEF CtrlResyncAdvertising, Wants
  <2>2. esb_active' = esb_active
    BY <1>5 DEF CtrlResyncAdvertising
  <2>3. CASE esb_active
    BY <2>2, <2>3
  <2>4. CASE ~esb_active
    BY <2>1, <2>4
  <2> QED
    BY <2>3, <2>4
<1>6. CASE boot_profile_check_fn
  BY <1>6 DEF boot_profile_check_fn
<1>7. CASE PairingRuns
  BY <1>7 DEF PairingRuns, endpointVars
<1>8. CASE UpdateAdvertising
  <2>1. PICK want \in BOOLEAN : UpdateAdvertisingFrom(advertising_status, want)
    BY <1>8 DEF UpdateAdvertising, Wants
  <2> QED
    BY <1>8, <2>1, UpdateKeeps DEF UpdateAdvertising
<1>9. CASE HostConnects
  BY <1>9 DEF HostConnects
<1>10. ASSUME NEW esb \in BOOLEAN, SelectProfile(esb)
       PROVE  AdvertisingResynced'
  <2>1. PICK want \in BOOLEAN : UpdateAdvertisingFrom(advertising_status, want)
    BY <1>10 DEF SelectProfile, Wants
  <2> QED
    BY <1>10, <2>1, UpdateKeeps DEF SelectProfile
<1>11. CASE ProfileEvent
  BY <1>11 DEF ProfileEvent
<1>12. CASE PowerLoss
  BY <1>12 DEF PowerLoss
<1>13. CASE UNCHANGED vars
  BY <1>13 DEF vars, endpointVars
<1> QED
  BY <1>1, <1>2, <1>3, <1>4, <1>5, <1>6, <1>7, <1>8, <1>9, <1>10, <1>11,
     <1>12, <1>13
  DEF Next, EsbCtrl

(* Between commands, while ESB is off, ZMK advertises exactly when it       *)
(* believes so (the resync at the end of DEACTIVATE, the wraps).            *)
THEOREM AdvertisingIsResynced == Spec => []AdvertisingResynced
<1>1. Init => AdvertisingResynced
  BY DEF Init, AdvertisingResynced
<1> QED
  BY <1>1, AdvertisingStep, TypedInit, FlagsStep, PTL DEF Spec

-----------------------------------------------------------------------------
(* While ESB is off the machine claims no dongle, and a machine left        *)
(* UNPAIRED has an empty mailbox: the packet that made it so was the last.  *)
OffInv ==
  ~esb_active /\ ctrl # "settle" =>
    /\ m_state \in { "IDLE", "UNPAIRED" }
    /\ m_state = "UNPAIRED" => rx = NoPacket

(* The steps of the pairing machine, with the library stopped. *)
LEMMA OffPairingStep ==
  ASSUME ~SHELL_CMDS, sh = "prompt", RadioInv, OffInv, PairingRuns
  PROVE  OffInv'
<1> USE DEF OffInv
<1>0. UNCHANGED << esb_active, ctrl, slot_on >>
  BY DEF PairingRuns, endpointVars
<1> SUFFICES ASSUME ~esb_active, ctrl # "settle"
             PROVE  OffInv'
  BY <1>0
<1>1. ~slot_on
  BY DEF RadioInv
<1>2. CASE Workqueue
  <2>1. CASE beacon_work_fn \/ verify_work_fn
    BY <2>1 DEF beacon_work_fn, verify_work_fn
  <2>2. ASSUME NEW d \in Dongles, OnPairReq(d) \/ OnVerifyResp(d)
        PROVE  OffInv'
    BY <2>2 DEF OnPairReq, OnVerifyResp, Deliver, NoPacket
  <2>3. CASE OnDisconnect
    BY <2>3 DEF OnDisconnect, Deliver
  <2>4. CASE OnResync
    BY <2>4 DEF OnResync
  <2>5. ASSUME NEW p \in Packets, OnIgnored(p)
        PROVE  OffInv'
    BY <2>5 DEF OnIgnored, Deliver
  <2>6. CASE PairReqSaved \/ DisconnectSaved \/ UnpairKeySaved
    BY <2>6 DEF PairReqSaved, DisconnectSaved, UnpairKeySaved
  <2> QED
    BY <1>2, <2>1, <2>2, <2>3, <2>4, <2>5, <2>6 DEF Workqueue, pairing_on_rx
<1>3. CASE Shell
  BY <1>3 DEF Shell, ShellMoves, UnpairShellMemset, UnpairShellSaved,
      UnpairShellCancel, UnpairShellTest, UnpairShellSet, UnpairShellRearm
<1>4. CASE User
  BY <1>4 DEF User, UnpairKey, UnpairShell
<1>5. CASE RequestLost
  BY <1>5 DEF RequestLost
<1> QED
  BY <1>1, <1>2, <1>3, <1>4, <1>5 DEF PairingRuns

LEMMA OffStep ==
  ASSUME ~SHELL_CMDS
  PROVE  sh = "prompt" /\ FlagsTyped /\ RadioInv /\ OffInv /\ [Next]_vars => OffInv'
<1> SUFFICES ASSUME sh = "prompt", FlagsTyped, RadioInv, OffInv, [Next]_vars
             PROVE  OffInv'
  OBVIOUS
<1>1. CASE PairingRuns
  BY <1>1, OffPairingStep
<1> USE DEF OffInv, FlagsTyped, CtrlPoints, pairingVars
<1>2. CASE CtrlActivate
  BY <1>2 DEF CtrlActivate, Get
<1>3. CASE CtrlSlotStart
  BY <1>3 DEF CtrlSlotStart
<1>4. CASE CtrlPairingStart
  BY <1>4 DEF CtrlPairingStart
<1>5. CASE CtrlDeactivate
  BY <1>5 DEF CtrlDeactivate, pairing_stop
<1>6. CASE CtrlResyncAdvertising
  BY <1>6 DEF CtrlResyncAdvertising
<1>7. CASE boot_profile_check_fn
  BY <1>7 DEF boot_profile_check_fn
<1>8. CASE UpdateAdvertising \/ HostConnects \/ ProfileEvent
  BY <1>8 DEF UpdateAdvertising, HostConnects, ProfileEvent
<1>9. ASSUME NEW esb \in BOOLEAN, SelectProfile(esb)
      PROVE  OffInv'
  BY <1>9 DEF SelectProfile
<1>10. CASE PowerLoss
  BY <1>10 DEF PowerLoss, PairingPowerLoss
<1>11. CASE UNCHANGED vars
  BY <1>11 DEF vars, endpointVars
<1> QED
  BY <1>1, <1>2, <1>3, <1>4, <1>5, <1>6, <1>7, <1>8, <1>9, <1>10, <1>11
  DEF Next, EsbCtrl

(* Without the shell command, while ESB is off no packet left in the        *)
(* mailbox, no save still running and no unpair key brings the machine to a *)
(* state in which it claims a dongle (pairing_stop, pairing_on_rx).         *)
THEOREM OffIsNeverConnected ==
  ASSUME ~SHELL_CMDS
  PROVE  Spec => []OffNeverConnected
<1>1. Init => OffInv
  BY DEF Init, PairingInit, OffInv
<1>2. OffInv => OffNeverConnected
  BY DEF OffInv, OffNeverConnected, CtrlIdle
<1>3. RecordFollowsRam => sh = "prompt"
  BY DEF RecordFollowsRam
<1>4. Spec => [](sh = "prompt")
  BY <1>3, EndpointImplementsPairing, RecordInvariant, PTL
<1> QED
  BY <1>1, <1>2, <1>4, OffStep, RadioInit, RadioStep, TypedInit, FlagsStep, PTL
  DEF Spec

-----------------------------------------------------------------------------
(* The profile.  Since a switch that was not hasty every command queued or  *)
(* under way is the one the profile wants, and while ESB does not follow    *)
(* the profile yet there is one, or the boot check is still to come.        *)
Wanted == IF profile_esb THEN "ACTIVATE" ELSE "DEACTIVATE"

OnlyHolds(q, cmd) == \A i \in 1..Len(q) : q[i] = cmd

UnderWay ==
  esb_ctrl_msgq # << >> \/ ctrl \in { "quiesce", "settle" }
    \/ (boot_check /\ profile_esb)

PatientInv ==
  ~hasty =>
    /\ OnlyHolds(esb_ctrl_msgq, Wanted)
    /\ ctrl \in { "quiesce", "settle" } => profile_esb
    /\ ctrl = "rename" => ~profile_esb /\ ~esb_active
    /\ esb_active # profile_esb => UnderWay

LEMMA PutHolds ==
  ASSUME QueueTyped, NEW cmd, OnlyHolds(esb_ctrl_msgq, cmd), Put(cmd)
  PROVE  OnlyHolds(esb_ctrl_msgq', cmd) /\ esb_ctrl_msgq' # << >>
<1>1. CASE Len(esb_ctrl_msgq) < MSGQ_DEPTH
  BY <1>1 DEF Put, OnlyHolds, QueueTyped
<1>2. CASE ~(Len(esb_ctrl_msgq) < MSGQ_DEPTH)
  BY <1>2, DepthAssumption DEF Put, OnlyHolds, QueueTyped, DepthAssumption
<1> QED
  BY <1>1, <1>2

LEMMA GetHolds ==
  ASSUME QueueTyped, NEW cmd, NEW any, OnlyHolds(esb_ctrl_msgq, cmd), Get(any)
  PROVE  OnlyHolds(esb_ctrl_msgq', cmd) /\ any = cmd
  BY DEF Get, OnlyHolds, QueueTyped

(* What the listener makes of a profile, when only its command is queued.   *)
LEMMA ListenerHolds ==
  ASSUME QueueTyped, FlagsTyped, NEW esb \in BOOLEAN, NEW cmd,
         cmd = (IF esb THEN "ACTIVATE" ELSE "DEACTIVATE"),
         OnlyHolds(esb_ctrl_msgq, cmd), profile_listener_cb(esb)
  PROVE  /\ OnlyHolds(esb_ctrl_msgq', cmd)
         /\ esb_active # esb => esb_ctrl_msgq' # << >>
         /\ esb_active = esb => UNCHANGED esb_ctrl_msgq
<1>1. CASE esb /\ ~esb_active
  <2>1. Put("ACTIVATE") /\ cmd = "ACTIVATE"
    BY <1>1 DEF profile_listener_cb
  <2> QED
    BY <1>1, <2>1, PutHolds
<1>2. CASE ~esb /\ esb_active
  <2>1. Put("DEACTIVATE") /\ cmd = "DEACTIVATE"
    BY <1>2 DEF profile_listener_cb
  <2> QED
    BY <1>2, <2>1, PutHolds
<1>3. CASE ~(esb /\ ~esb_active) /\ ~(~esb /\ esb_active)
  <2>1. esb_active = esb
    BY <1>3 DEF FlagsTyped
  <2>2. UNCHANGED esb_ctrl_msgq
    BY <1>3 DEF profile_listener_cb
  <2> QED
    BY <2>1, <2>2
<1> QED
  BY <1>1, <1>2, <1>3

LEMMA PatientStep ==
  QueueTyped /\ FlagsTyped /\ PatientInv /\ [Next]_vars => PatientInv'
<1> SUFFICES ASSUME QueueTyped, FlagsTyped, PatientInv, [Next]_vars, ~hasty'
             PROVE  PatientInv'
  BY DEF PatientInv
<1> USE DEF PatientInv, UnderWay
<1>1. CASE CtrlActivate
  <2>1. profile_esb
    BY <1>1, GetHolds DEF CtrlActivate, Wanted
  <2> QED
    BY <1>1, <2>1, GetHolds DEF CtrlActivate, Wanted
<1>2. CASE CtrlSlotStart
  BY <1>2 DEF CtrlSlotStart, Wanted
<1>3. CASE CtrlPairingStart
  BY <1>3 DEF CtrlPairingStart, Wanted, FlagsTyped
<1>4. CASE CtrlDeactivate
  <2>1. ~profile_esb
    BY <1>4, GetHolds DEF CtrlDeactivate, Wanted
  <2> QED
    BY <1>4, <2>1, GetHolds DEF CtrlDeactivate, Wanted, FlagsTyped
<1>5. CASE CtrlResyncAdvertising
  BY <1>5 DEF CtrlResyncAdvertising, Wanted, FlagsTyped
<1>6. CASE boot_profile_check_fn
  <2>1. CASE profile_esb /\ ~esb_active
    BY <1>6, <2>1, PutHolds DEF boot_profile_check_fn, Wanted
  <2>2. CASE ~(profile_esb /\ ~esb_active)
    BY <1>6, <2>2 DEF boot_profile_check_fn, Wanted, FlagsTyped
  <2> QED
    BY <2>1, <2>2
<1>7. CASE PairingRuns
  BY <1>7 DEF PairingRuns, endpointVars, Wanted
<1>8. CASE UpdateAdvertising \/ HostConnects
  BY <1>8 DEF UpdateAdvertising, HostConnects, Wanted
<1>9. CASE ProfileEvent
  BY <1>9, ListenerHolds DEF ProfileEvent, Wanted, FlagsTyped
<1>10. ASSUME NEW esb \in BOOLEAN, SelectProfile(esb)
       PROVE  PatientInv'
  <2>1. ctrl = "get" /\ esb_ctrl_msgq = << >>
    BY <1>10 DEF SelectProfile, CtrlIdle
  <2>2. OnlyHolds(esb_ctrl_msgq, IF esb THEN "ACTIVATE" ELSE "DEACTIVATE")
    BY <2>1 DEF OnlyHolds
  <2>3. profile_listener_cb(esb) /\ profile_esb' = esb
        /\ UNCHANGED << esb_active, ctrl >>
    BY <1>10 DEF SelectProfile
  <2> QED
    BY <2>1, <2>2, <2>3, ListenerHolds DEF Wanted
<1>11. CASE PowerLoss
  <2>1. OnlyHolds(esb_ctrl_msgq', Wanted')
    BY <1>11 DEF PowerLoss, OnlyHolds
  <2>2. CASE profile_esb' = TRUE
    BY <1>11, <2>1, <2>2 DEF PowerLoss
  <2>3. CASE profile_esb' = FALSE
    BY <1>11, <2>1, <2>3 DEF PowerLoss
  <2> QED
    BY <1>11, <2>2, <2>3 DEF PowerLoss
<1>12. CASE UNCHANGED vars
  BY <1>12 DEF vars, endpointVars, Wanted
<1> QED
  BY <1>1, <1>2, <1>3, <1>4, <1>5, <1>6, <1>7, <1>8, <1>9, <1>10, <1>11, <1>12
  DEF Next, EsbCtrl

(* Once the boot check has run and every command is executed, ESB is active *)
(* exactly on the last profile, provided that the last switch came after    *)
(* the previous one had been acted on; whatever connections, full queues    *)
(* and repeated events did meanwhile (profile_listener_cb, esb_ctrl).       *)
THEOREM PatientUserIsFollowed == Spec => []FollowsPatientUser
<1>1. ASSUME Init
      PROVE  PatientInv
  <2>1. OnlyHolds(esb_ctrl_msgq, Wanted)
    BY <1>1 DEF Init, OnlyHolds
  <2>2. CASE profile_esb = TRUE
    BY <1>1, <2>1, <2>2 DEF Init, PatientInv, UnderWay
  <2>3. CASE profile_esb = FALSE
    BY <1>1, <2>1, <2>3 DEF Init, PatientInv, UnderWay
  <2> QED
    BY <1>1, <2>2, <2>3 DEF Init
<1>2. FlagsTyped /\ PatientInv => FollowsPatientUser
  BY DEF FlagsTyped, PatientInv, UnderWay, FollowsPatientUser, CtrlIdle
<1> QED
  BY <1>1, <1>2, PatientStep, TypedInit, QueueStep, FlagsStep, PTL DEF Spec
=============================================================================
