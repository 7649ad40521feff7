-------------------------- MODULE ChannelHopProofs --------------------------
(***************************************************************************)
(* Theorems about ChannelHopEp, for any set of channels and any choice of  *)
(* the three options.                                                      *)
(*                                                                         *)
(* The type invariant is proved in four parts, by what the actions change  *)
(* together.  RendezvousUsable and FallbackHasRunner are inductive by      *)
(* themselves; ActiveTicks needs that only a link that is up is active,    *)
(* CoopEnds that an OFFER that is tagged has a target.                     *)
(***************************************************************************)
EXTENDS ChannelHopEp, TLAPS

PlaceTyped ==
  /\ channel \in Channels
  /\ quarantined \subseteq Channels
  /\ m_committed_next \in Channels \union { Invalid }
  /\ m_prev_channel \in Channels \union { Invalid }
  /\ m_prev_known_channel \in Channels \union { Invalid }

FlagsTyped ==
  /\ m_link_up \in BOOLEAN /\ m_active \in BOOLEAN /\ waking \in BOOLEAN
  /\ negotiate_work \in BOOLEAN /\ idle_check_work \in BOOLEAN
  /\ hop_work \in BOOLEAN /\ hop_retry_work \in BOOLEAN /\ hop_cooldown \in BOOLEAN
  /\ m_rendezvous_fallback_pending \in BOOLEAN /\ rendezvous_hold \in BOOLEAN
  /\ link_event \in { "never", "recent", "silent" }

CoopTyped ==
  /\ m_last_tx_was_offer \in BOOLEAN /\ coop_cooldown \in BOOLEAN
  /\ coop_hop_offer_work \in BOOLEAN /\ coop_hop_commit_work \in BOOLEAN
  /\ m_coop_hop_state \in { "IDLE", "OFFERED", "ARMED" }
  /\ m_coop_hop_target \in Channels \union { Invalid }
  /\ offer \in { "none", "tagged", "queued", "acked", "flushed", "refused" }

WqTyped == wq \in WqPoints

LEMMA TypeParts == HopTypeOK <=> PlaceTyped /\ FlagsTyped /\ CoopTyped /\ WqTyped
  BY DEF HopTypeOK, PlaceTyped, FlagsTyped, CoopTyped, WqTyped

LEMMA PlainPoints == Free \in WqPoints
                     /\ \A where \in { "decay", "connect", "offer" } :
                          In(where) \in WqPoints
  BY DEF WqPoints

(* A hop that has been decided has a kind and a channel. *)
LEMMA MoveIsDecided ==
  ASSUME WqTyped, wq.at = "move"
  PROVE  wq.target \in Channels /\ wq.kind \in { "fallback", "revert", "normal" }
  BY DEF WqTyped, WqPoints, Free, In, Kinds

LEMMA TypeInit == Init => HopTypeOK
<1> SUFFICES ASSUME Init
             PROVE  HopTypeOK
  OBVIOUS
<1> USE ChannelsAssumption DEF ChannelsAssumption, Init
<1>1. PlaceTyped
  BY DEF PlaceTyped
<1>2. FlagsTyped
  BY DEF FlagsTyped
<1>3. CoopTyped
  BY DEF CoopTyped
<1>4. WqTyped
  BY PlainPoints DEF WqTyped
<1> QED
  BY <1>1, <1>2, <1>3, <1>4, TypeParts

(* The steps that neither move the radio nor touch a channel remembered. *)
PlaceAside ==
  \/ TxFail \/ OnConnectedFlashed \/ channel_hop_ep_note_user_tx
  \/ NoteUserTxFlashed \/ channel_hop_ep_on_request \/ OfferFlushed
  \/ idle_check_work_fn \/ negotiate_work_fn \/ hop_retry_work_fn
  \/ HopFlashes \/ HopDecides \/ HopFails \/ OfferTagged \/ OfferQueued
  \/ CooldownPasses \/ LinkFallsSilent \/ HoldPasses
  \/ CoopCooldownPasses
  \/ \E c \in Channels : OnAccept(c)

LEMMA PlaceAsideKeeps ==
  ASSUME PlaceAside
  PROVE  UNCHANGED << placeVars, m_committed_next >>
  BY DEF PlaceAside, TxFail, OnConnectedFlashed, channel_hop_ep_note_user_tx,
         NoteUserTxFlashed, channel_hop_ep_on_request, OfferFlushed,
         idle_check_work_fn, negotiate_work_fn, hop_retry_work_fn,
         HopFlashes, HopDecides, HopFails, OfferTagged, OfferQueued,
         CooldownPasses, LinkFallsSilent, HoldPasses, CoopCooldownPasses,
         OnAccept, placeVars

LEMMA PlaceStep ==
  PlaceTyped /\ CoopTyped /\ WqTyped /\ [Next]_vars => PlaceTyped'
<1> SUFFICES ASSUME PlaceTyped, CoopTyped, WqTyped, [Next]_vars
             PROVE  PlaceTyped'
  OBVIOUS
<1> USE ChannelsAssumption
    DEF ChannelsAssumption, PlaceTyped, placeVars
<1>1. CASE TxSuccess
  BY <1>1 DEF TxSuccess
<1>2. CASE channel_hop_ep_on_connected
  BY <1>2 DEF channel_hop_ep_on_connected
<1>3. CASE channel_hop_ep_on_disconnected
  BY <1>3 DEF channel_hop_ep_on_disconnected
<1>4. CASE esb_transport_set_addresses
  BY <1>4 DEF esb_transport_set_addresses
<1>5. CASE HopMoves
  <2>1. wq.target \in Channels /\ channel' = wq.target /\ m_committed_next' = Invalid
    BY <1>5, MoveIsDecided DEF HopMoves, NewChannel
  <2>2. CASE wq.kind = "fallback"
    BY <1>5, <2>1, <2>2 DEF HopMoves
  <2>3. CASE wq.kind = "revert"
    BY <1>5, <2>1, <2>3 DEF HopMoves, Leave
  <2>4. CASE wq.kind = "normal"
    BY <1>5, <2>1, <2>4 DEF HopMoves, Leave
  <2> QED
    BY <1>5, <2>2, <2>3, <2>4, MoveIsDecided DEF HopMoves
<1>6. CASE coop_hop_commit_work_fn
  BY <1>6 DEF coop_hop_commit_work_fn, NewChannel, Leave, CoopTyped
<1>7. ASSUME NEW c \in Channels, OnConfirm(c)
      PROVE  PlaceTyped'
  BY <1>7 DEF OnConfirm
<1>8. ASSUME NEW c \in Channels, persist_work_fn(c)
      PROVE  PlaceTyped'
  BY <1>8 DEF persist_work_fn
<1>9. ASSUME NEW c \in Channels, QuarantineEnds(c)
      PROVE  PlaceTyped'
  BY <1>9 DEF QuarantineEnds
<1>10. CASE PlaceAside
  BY <1>10, PlaceAsideKeeps
<1>11. CASE UNCHANGED vars
  BY <1>11 DEF vars
<1> QED
  BY <1>1, <1>2, <1>3, <1>4, <1>5, <1>6, <1>7, <1>8, <1>9, <1>10, <1>11
  DEF Next, Isr, Link, Answers, Works, Time, PlaceAside

(* The steps that change no flag, clock or work but the handshake's. *)
FlagsAside ==
  \/ esb_transport_set_addresses \/ OfferFlushed \/ OfferTagged
  \/ OfferQueued \/ CoopCooldownPasses
  \/ \E c \in Channels : OnAccept(c) \/ persist_work_fn(c) \/ QuarantineEnds(c)

LEMMA FlagsAsideKeeps ==
  ASSUME FlagsAside
  PROVE  UNCHANGED << linkVars, timeVars, rendezvousVars, hopWorks >>
  BY DEF FlagsAside, esb_transport_set_addresses, OfferFlushed, OfferTagged,
         OfferQueued, CoopCooldownPasses, OnAccept, persist_work_fn,
         QuarantineEnds

LEMMA FlagsStep ==
  FlagsTyped /\ WqTyped /\ [Next]_vars => FlagsTyped'
<1> SUFFICES ASSUME FlagsTyped, WqTyped, [Next]_vars
             PROVE  FlagsTyped'
  OBVIOUS
<1> USE DEF FlagsTyped, linkVars, timeVars, rendezvousVars, hopWorks
<1>1. CASE TxSuccess
  BY <1>1 DEF TxSuccess
<1>2. CASE TxFail
  BY <1>2 DEF TxFail, TriggersHop
<1>3. CASE channel_hop_ep_on_connected
  BY <1>3 DEF channel_hop_ep_on_connected, enter_active_state
<1>4. CASE OnConnectedFlashed
  BY <1>4 DEF OnConnectedFlashed
<1>5. CASE channel_hop_ep_on_disconnected
  BY <1>5 DEF channel_hop_ep_on_disconnected
<1>6. CASE channel_hop_ep_note_user_tx
  BY <1>6 DEF channel_hop_ep_note_user_tx, enter_active_state
<1>7. CASE NoteUserTxFlashed
  BY <1>7 DEF NoteUserTxFlashed
<1>8. CASE channel_hop_ep_on_request
  BY <1>8 DEF channel_hop_ep_on_request
<1>9. CASE idle_check_work_fn
  BY <1>9 DEF idle_check_work_fn
<1>10. CASE negotiate_work_fn
  BY <1>10 DEF negotiate_work_fn
<1>11. CASE hop_retry_work_fn
  BY <1>11 DEF hop_retry_work_fn
<1>12. CASE HopFlashes
  BY <1>12 DEF HopFlashes
<1>13. CASE HopDecides
  BY <1>13 DEF HopDecides
<1>14. CASE HopFails
  BY <1>14 DEF HopFails
<1>15. CASE HopMoves
  <2>1. hop_cooldown' = TRUE /\ link_event' = "recent" /\ negotiate_work' = TRUE
    BY <1>15 DEF HopMoves, NewChannel
  <2>2. CASE wq.kind = "fallback"
    BY <1>15, <2>1, <2>2 DEF HopMoves
  <2>3. CASE wq.kind = "revert"
    BY <1>15, <2>1, <2>3 DEF HopMoves
  <2>4. CASE wq.kind = "normal"
    BY <1>15, <2>1, <2>4 DEF HopMoves
  <2> QED
    BY <1>15, <2>2, <2>3, <2>4, MoveIsDecided DEF HopMoves
<1>16. CASE coop_hop_commit_work_fn
  BY <1>16 DEF coop_hop_commit_work_fn, NewChannel
<1>17. CASE CooldownPasses
  BY <1>17 DEF CooldownPasses
<1>18. CASE LinkFallsSilent
  BY <1>18 DEF LinkFallsSilent
<1>19. CASE HoldPasses
  BY <1>19 DEF HoldPasses
<1>20. ASSUME NEW c \in Channels, OnConfirm(c)
      PROVE  FlagsTyped'
  BY <1>20 DEF OnConfirm
<1>21. CASE FlagsAside
  BY <1>21, FlagsAsideKeeps
<1>22. CASE UNCHANGED vars
  BY <1>22 DEF vars
<1> QED
  BY <1>1, <1>2, <1>3, <1>4, <1>5, <1>6, <1>7, <1>8, <1>9, <1>10, <1>11,
     <1>12, <1>13, <1>14, <1>15, <1>16, <1>17, <1>18, <1>19, <1>20, <1>21,
     <1>22
  DEF Next, Isr, Link, Answers, Works, Time, FlagsAside

(* The steps that leave the handshake alone. *)
CoopAside ==
  \/ channel_hop_ep_on_connected \/ OnConnectedFlashed
  \/ channel_hop_ep_note_user_tx \/ NoteUserTxFlashed
  \/ esb_transport_set_addresses \/ channel_hop_ep_on_request
  \/ negotiate_work_fn \/ hop_retry_work_fn \/ HopFlashes \/ HopDecides
  \/ HopFails \/ HopMoves \/ CooldownPasses \/ LinkFallsSilent
  \/ HoldPasses
  \/ \E c \in Channels : OnConfirm(c) \/ persist_work_fn(c) \/ QuarantineEnds(c)

LEMMA CoopAsideKeeps ==
  ASSUME CoopAside
  PROVE  UNCHANGED coopVars
  BY DEF CoopAside, channel_hop_ep_on_connected, OnConnectedFlashed,
         channel_hop_ep_note_user_tx, NoteUserTxFlashed,
         esb_transport_set_addresses, channel_hop_ep_on_request,
         negotiate_work_fn, hop_retry_work_fn, HopFlashes, HopDecides,
         HopFails, HopMoves, CooldownPasses, LinkFallsSilent, HoldPasses,
         OnConfirm, persist_work_fn, QuarantineEnds

LEMMA CoopStep ==
  CoopTyped /\ PlaceTyped /\ [Next]_vars => CoopTyped'
<1> SUFFICES ASSUME CoopTyped, PlaceTyped, [Next]_vars
             PROVE  CoopTyped'
  OBVIOUS
<1> USE DEF CoopTyped, coopVars
<1>1. CASE TxSuccess
  BY <1>1 DEF TxSuccess, Acked
<1>2. CASE TxFail
  BY <1>2 DEF TxFail, OfferFailed
<1>3. CASE channel_hop_ep_on_disconnected
  BY <1>3 DEF channel_hop_ep_on_disconnected, coop_hop_abort
<1>4. CASE OfferFlushed
  BY <1>4 DEF OfferFlushed
<1>5. CASE idle_check_work_fn
  BY <1>5 DEF idle_check_work_fn, coop_hop_abort
<1>6. CASE OfferTagged
  BY <1>6 DEF OfferTagged, Pick, PlaceTyped
<1>7. CASE OfferQueued
  BY <1>7 DEF OfferQueued
<1>8. CASE coop_hop_commit_work_fn
  BY <1>8 DEF coop_hop_commit_work_fn
<1>9. CASE CoopCooldownPasses
  BY <1>9 DEF CoopCooldownPasses
<1>10. ASSUME NEW c \in Channels, OnAccept(c)
      PROVE  CoopTyped'
  BY <1>10 DEF OnAccept
<1>11. CASE CoopAside
  BY <1>11, CoopAsideKeeps
<1>12. CASE UNCHANGED vars
  BY <1>12 DEF vars
<1> QED
  BY <1>1, <1>2, <1>3, <1>4, <1>5, <1>6, <1>7, <1>8, <1>9, <1>10, <1>11,
     <1>12
  DEF Next, Isr, Link, Answers, Works, Time, CoopAside

(* The steps that leave the workqueue where it is. *)
WqAside ==
  \/ TxSuccess \/ TxFail \/ channel_hop_ep_on_disconnected
  \/ channel_hop_ep_note_user_tx \/ NoteUserTxFlashed
  \/ esb_transport_set_addresses \/ channel_hop_ep_on_request
  \/ OfferFlushed \/ idle_check_work_fn \/ negotiate_work_fn
  \/ hop_retry_work_fn \/ coop_hop_commit_work_fn \/ CooldownPasses
  \/ LinkFallsSilent \/ HoldPasses \/ CoopCooldownPasses
  \/ \E c \in Channels : OnConfirm(c) \/ OnAccept(c) \/ persist_work_fn(c) \/ QuarantineEnds(c)

LEMMA WqAsideKeeps ==
  ASSUME WqAside
  PROVE  UNCHANGED wq
  BY DEF WqAside, TxSuccess, TxFail, channel_hop_ep_on_disconnected,
         channel_hop_ep_note_user_tx, NoteUserTxFlashed,
         esb_transport_set_addresses, channel_hop_ep_on_request,
         OfferFlushed, idle_check_work_fn, negotiate_work_fn,
         hop_retry_work_fn, coop_hop_commit_work_fn, CooldownPasses,
         LinkFallsSilent, HoldPasses, CoopCooldownPasses, OnConfirm,
         OnAccept, persist_work_fn, QuarantineEnds, vars

LEMMA WqStep ==
  WqTyped /\ PlaceTyped /\ [Next]_vars => WqTyped'
<1> SUFFICES ASSUME WqTyped, PlaceTyped, [Next]_vars
             PROVE  WqTyped'
  OBVIOUS
<1> USE PlainPoints DEF WqTyped
<1>1. CASE channel_hop_ep_on_connected
  BY <1>1 DEF channel_hop_ep_on_connected
<1>2. CASE OnConnectedFlashed
  BY <1>2 DEF OnConnectedFlashed
<1>3. CASE HopFlashes
  BY <1>3 DEF HopFlashes
<1>4. CASE HopDecides
  <2>1. Targets \subseteq Channels \union { Invalid }
    BY ChannelsAssumption
    DEF ChannelsAssumption, Targets, Kind, Usable, Pick, PlaceTyped
  <2>2. PICK target \in Targets :
          wq' = IF target \in { Invalid, channel }
                  THEN Free
                  ELSE [at |-> "move", kind |-> Kind, target |-> target]
    BY <1>4 DEF HopDecides
  <2>3. CASE target \in { Invalid, channel }
    BY <2>2, <2>3, PlainPoints
  <2>4. CASE target \notin { Invalid, channel }
    <3>1. target \in Channels /\ Kind \in Kinds
      BY <2>1, <2>4 DEF Kind, Kinds
    <3>2. [at |-> "move", kind |-> Kind, target |-> target]
            \in [at : { "move" }, kind : Kinds, target : Channels]
      BY <3>1
    <3> QED
      BY <2>2, <2>4, <3>2 DEF WqPoints
  <2> QED
    BY <2>3, <2>4
<1>5. CASE HopFails
  BY <1>5 DEF HopFails
<1>6. CASE HopMoves
  BY <1>6 DEF HopMoves
<1>7. CASE OfferTagged
  BY <1>7 DEF OfferTagged
<1>8. CASE OfferQueued
  BY <1>8 DEF OfferQueued
<1>9. CASE WqAside
  BY <1>9, WqAsideKeeps
<1>10. CASE UNCHANGED vars
  BY <1>10 DEF vars
<1> QED
  BY <1>1, <1>2, <1>3, <1>4, <1>5, <1>6, <1>7, <1>8, <1>9, <1>10
  DEF Next, Isr, Link, Answers, Works, Time, WqAside

LEMMA TypeStep == HopTypeOK /\ [Next]_vars => HopTypeOK'
  BY PlaceStep, FlagsStep, CoopStep, WqStep, TypeParts
  DEF HopTypeOK, PlaceTyped, FlagsTyped, CoopTyped, WqTyped

(* Every variable of the hop engine keeps its type: in particular a radio   *)
(* that moves is always on a channel, never on CHANNEL_HOP_INVALID.         *)
THEOREM HopTypeCorrect == Spec => []HopTypeOK
  BY TypeInit, TypeStep, PTL DEF Spec

-----------------------------------------------------------------------------
(* The steps that leave the link and the quarantine as they are. *)
QuarantineAside ==
  \/ TxSuccess \/ TxFail \/ OnConnectedFlashed
  \/ channel_hop_ep_note_user_tx \/ NoteUserTxFlashed
  \/ esb_transport_set_addresses \/ channel_hop_ep_on_request
  \/ OfferFlushed \/ idle_check_work_fn \/ negotiate_work_fn
  \/ hop_retry_work_fn \/ HopFlashes \/ HopDecides \/ HopFails
  \/ OfferTagged \/ OfferQueued \/ CooldownPasses \/ LinkFallsSilent
  \/ HoldPasses \/ CoopCooldownPasses
  \/ \E c \in Channels : OnConfirm(c) \/ OnAccept(c)

LEMMA QuarantineAsideKeeps ==
  ASSUME QuarantineAside
  PROVE  UNCHANGED << m_link_up, quarantined >>
  BY DEF QuarantineAside, TxSuccess, TxFail, OnConnectedFlashed,
         channel_hop_ep_note_user_tx, NoteUserTxFlashed,
         esb_transport_set_addresses, channel_hop_ep_on_request,
         OfferFlushed, idle_check_work_fn, negotiate_work_fn,
         hop_retry_work_fn, HopFlashes, HopDecides, HopFails, OfferTagged,
         OfferQueued, CooldownPasses, LinkFallsSilent, HoldPasses,
         CoopCooldownPasses, OnConfirm, OnAccept, placeVars, linkVars

LEMMA RendezvousStep ==
  HopTypeOK /\ RendezvousUsable /\ [Next]_vars => RendezvousUsable'
<1> SUFFICES ASSUME HopTypeOK, RendezvousUsable, [Next]_vars
             PROVE  RendezvousUsable'
  OBVIOUS
<1> USE DEF RendezvousUsable, linkVars, placeVars
<1>1. CASE channel_hop_ep_on_connected
  BY <1>1 DEF channel_hop_ep_on_connected
<1>2. CASE channel_hop_ep_on_disconnected
  BY <1>2 DEF channel_hop_ep_on_disconnected
<1>3. CASE HopMoves
  <2>1. m_link_up' = m_link_up /\ wq.kind \in { "fallback", "revert", "normal" }
    BY <1>3, MoveIsDecided, TypeParts DEF HopMoves
  <2>2. CASE wq.kind = "fallback"
    BY <1>3, <2>1, <2>2 DEF HopMoves
  <2>3. CASE wq.kind = "revert"
    BY <1>3, <2>1, <2>3 DEF HopMoves, Leave
  <2>4. CASE wq.kind = "normal"
    BY <1>3, <2>1, <2>4 DEF HopMoves, Leave
  <2> QED
    BY <2>1, <2>2, <2>3, <2>4
<1>4. CASE coop_hop_commit_work_fn
  BY <1>4 DEF coop_hop_commit_work_fn, Leave
<1>5. ASSUME NEW c \in Channels, persist_work_fn(c)
      PROVE  RendezvousUsable'
  BY <1>5 DEF persist_work_fn
<1>6. ASSUME NEW c \in Channels, QuarantineEnds(c)
      PROVE  RendezvousUsable'
  BY <1>6 DEF QuarantineEnds
<1>7. CASE QuarantineAside
  BY <1>7, QuarantineAsideKeeps
<1>8. CASE UNCHANGED vars
  BY <1>8 DEF vars
<1> QED
  BY <1>1, <1>2, <1>3, <1>4, <1>5, <1>6, <1>7, <1>8
  DEF Next, Isr, Link, Answers, Works, Time, QuarantineAside

(* While there is a link the rendezvous channel is not in quarantine,       *)
(* whatever is left, reverted, recorded or loaded from flash                *)
(* (commit_hop_bookkeeping, load_persistent_offenders, on_connected).       *)
THEOREM RendezvousStaysUsable == Spec => []RendezvousUsable
<1>1. Init => RendezvousUsable
  BY DEF Init, RendezvousUsable
<1> QED
  BY <1>1, TypeInit, TypeStep, RendezvousStep, PTL DEF Spec

-----------------------------------------------------------------------------
(* The steps that touch neither the fallback's flag nor hop_work_fn. *)
FallbackAside ==
  \/ TxSuccess \/ channel_hop_ep_note_user_tx \/ NoteUserTxFlashed
  \/ esb_transport_set_addresses \/ channel_hop_ep_on_request
  \/ OfferFlushed \/ idle_check_work_fn \/ negotiate_work_fn
  \/ coop_hop_commit_work_fn \/ CooldownPasses \/ LinkFallsSilent
  \/ HoldPasses \/ CoopCooldownPasses
  \/ \E c \in Channels : OnConfirm(c) \/ OnAccept(c) \/ persist_work_fn(c) \/ QuarantineEnds(c)

LEMMA FallbackAsideKeeps ==
  ASSUME FallbackAside
  PROVE  UNCHANGED << m_rendezvous_fallback_pending, hop_work, wq >>
  BY DEF FallbackAside, TxSuccess, channel_hop_ep_note_user_tx,
         NoteUserTxFlashed, esb_transport_set_addresses,
         channel_hop_ep_on_request, OfferFlushed, idle_check_work_fn,
         negotiate_work_fn, coop_hop_commit_work_fn, CooldownPasses,
         LinkFallsSilent, HoldPasses, CoopCooldownPasses, OnConfirm,
         OnAccept, persist_work_fn, QuarantineEnds, rendezvousVars, hopWorks

LEMMA FallbackStep ==
  FallbackHasRunner /\ [Next]_vars => FallbackHasRunner'
<1> SUFFICES ASSUME FallbackHasRunner, [Next]_vars
             PROVE  FallbackHasRunner'
  OBVIOUS
<1> USE DEF FallbackHasRunner, rendezvousVars, hopWorks, In, Free
<1>1. CASE TxFail
  BY <1>1 DEF TxFail, TriggersHop
<1>2. CASE channel_hop_ep_on_connected
  BY <1>2 DEF channel_hop_ep_on_connected
<1>3. CASE OnConnectedFlashed
  BY <1>3 DEF OnConnectedFlashed
<1>4. CASE channel_hop_ep_on_disconnected
  BY <1>4 DEF channel_hop_ep_on_disconnected
<1>5. CASE hop_retry_work_fn
  BY <1>5 DEF hop_retry_work_fn
<1>6. CASE HopFlashes
  BY <1>6 DEF HopFlashes
<1>7. CASE HopDecides
  BY <1>7 DEF HopDecides
<1>8. CASE HopFails
  BY <1>8 DEF HopFails
<1>9. CASE HopMoves
  BY <1>9 DEF HopMoves
<1>10. CASE OfferTagged
  BY <1>10 DEF OfferTagged
<1>11. CASE OfferQueued
  BY <1>11 DEF OfferQueued
<1>12. CASE FallbackAside
  BY <1>12, FallbackAsideKeeps
<1>13. CASE UNCHANGED vars
  BY <1>13 DEF vars
<1> QED
  BY <1>1, <1>2, <1>3, <1>4, <1>5, <1>6, <1>7, <1>8, <1>9, <1>10, <1>11,
     <1>12, <1>13
  DEF Next, Isr, Link, Answers, Works, Time, FallbackAside

(* A fallback the ISR has asked for has a run of hop_work_fn before it, also *)
(* while that run waits for the flash: the flag cannot stay set and keep the *)
(* ISR from asking again (channel_hop_ep_on_tx_fail_isr, hop_work_fn).       *)
THEOREM FallbackIsRun == Spec => []FallbackHasRunner
<1>1. Init => FallbackHasRunner
  BY DEF Init, FallbackHasRunner
<1> QED
  BY <1>1, FallbackStep, PTL DEF Spec

-----------------------------------------------------------------------------
(* Only a link that is up is active. *)
ActiveIsUp == m_active => m_link_up

TicksInv == ActiveIsUp /\ ActiveTicks

(* The steps that touch neither the link nor what keeps it awake. *)
TicksAside ==
  \/ TxSuccess \/ TxFail \/ esb_transport_set_addresses \/ OfferFlushed
  \/ hop_retry_work_fn \/ CooldownPasses \/ LinkFallsSilent \/ HoldPasses
  \/ CoopCooldownPasses
  \/ \E c \in Channels : OnAccept(c) \/ persist_work_fn(c) \/ QuarantineEnds(c)

LEMMA TicksAsideKeeps ==
  ASSUME TicksAside
  PROVE  UNCHANGED << linkVars, wq >>
  BY DEF TicksAside, TxSuccess, TxFail, esb_transport_set_addresses,
         OfferFlushed, hop_retry_work_fn, CooldownPasses, LinkFallsSilent,
         HoldPasses, CoopCooldownPasses, OnAccept, persist_work_fn,
         QuarantineEnds, linkVars

LEMMA TicksStep ==
  HopTypeOK /\ TicksInv /\ [Next]_vars => TicksInv'
<1> SUFFICES ASSUME HopTypeOK, TicksInv, [Next]_vars
             PROVE  TicksInv'
  OBVIOUS
<1> USE DEF TicksInv, ActiveIsUp, ActiveTicks, linkVars, In, Free
<1>1. CASE channel_hop_ep_on_connected
  BY <1>1 DEF channel_hop_ep_on_connected, enter_active_state
<1>2. CASE OnConnectedFlashed
  BY <1>2 DEF OnConnectedFlashed
<1>3. CASE channel_hop_ep_on_disconnected
  BY <1>3 DEF channel_hop_ep_on_disconnected
<1>4. CASE channel_hop_ep_note_user_tx
  BY <1>4 DEF channel_hop_ep_note_user_tx, enter_active_state
<1>5. CASE NoteUserTxFlashed
  BY <1>5 DEF NoteUserTxFlashed
<1>6. CASE channel_hop_ep_on_request
  BY <1>6 DEF channel_hop_ep_on_request
<1>7. CASE idle_check_work_fn
  BY <1>7 DEF idle_check_work_fn
<1>8. CASE negotiate_work_fn
  BY <1>8 DEF negotiate_work_fn
<1>9. CASE HopFlashes
  BY <1>9 DEF HopFlashes
<1>10. CASE HopDecides
  BY <1>10 DEF HopDecides
<1>11. CASE HopFails
  BY <1>11 DEF HopFails
<1>12. CASE HopMoves
  BY <1>12 DEF HopMoves, NewChannel, HopTypeOK, WqPoints
<1>13. CASE OfferTagged
  BY <1>13 DEF OfferTagged
<1>14. CASE OfferQueued
  BY <1>14 DEF OfferQueued
<1>15. CASE coop_hop_commit_work_fn
  BY <1>15 DEF coop_hop_commit_work_fn, NewChannel
<1>16. ASSUME NEW c \in Channels, OnConfirm(c)
      PROVE  TicksInv'
  BY <1>16 DEF OnConfirm
<1>17. CASE TicksAside
  BY <1>17, TicksAsideKeeps
<1>18. CASE UNCHANGED vars
  BY <1>18 DEF vars
<1> QED
  BY <1>1, <1>2, <1>3, <1>4, <1>5, <1>6, <1>7, <1>8, <1>9, <1>10, <1>11,
     <1>12, <1>13, <1>14, <1>15, <1>16, <1>17, <1>18
  DEF Next, Isr, Link, Answers, Works, Time, TicksAside

(* On an active link negotiation and the idle check are scheduled, through   *)
(* every order of connects, hops, pauses and flash writes                    *)
(* (enter_active_state, negotiate_work_fn, idle_check_work_fn).              *)
THEOREM ActiveKeepsTicking == Spec => []ActiveTicks
<1>1. Init => TicksInv
  BY DEF Init, TicksInv, ActiveIsUp, ActiveTicks
<1>2. TicksInv => ActiveTicks
  BY DEF TicksInv
<1> QED
  BY <1>1, <1>2, TypeInit, TypeStep, TicksStep, PTL DEF Spec

-----------------------------------------------------------------------------
(* The packet tagged for the ISR as an OFFER has a channel to offer. *)
TaggedHasTarget == m_last_tx_was_offer => m_coop_hop_target \in Channels

CoopInv == TaggedHasTarget /\ CoopEnds

LEMMA CoopEndsStep ==
  HopTypeOK /\ CoopInv /\ [Next]_vars => CoopInv'
<1> SUFFICES ASSUME HopTypeOK, CoopInv, [Next]_vars
             PROVE  CoopInv'
  OBVIOUS
<1> USE DEF CoopInv, TaggedHasTarget, CoopEnds, coopVars
<1>1. CASE TxSuccess
  BY <1>1 DEF TxSuccess
<1>2. CASE TxFail
  BY <1>2 DEF TxFail, OfferFailed
<1>3. CASE channel_hop_ep_on_disconnected
  BY <1>3 DEF channel_hop_ep_on_disconnected, coop_hop_abort
<1>4. CASE OfferFlushed
  BY <1>4 DEF OfferFlushed
<1>5. CASE idle_check_work_fn
  BY <1>5 DEF idle_check_work_fn, coop_hop_abort
<1>6. CASE OfferTagged
  BY <1>6 DEF OfferTagged, Pick, HopTypeOK
<1>7. CASE OfferQueued
  BY <1>7 DEF OfferQueued
<1>8. CASE coop_hop_commit_work_fn
  BY <1>8 DEF coop_hop_commit_work_fn
<1>9. CASE CoopCooldownPasses
  BY <1>9 DEF CoopCooldownPasses
<1>10. ASSUME NEW c \in Channels, OnAccept(c)
      PROVE  CoopInv'
  BY <1>10 DEF OnAccept
<1>11. CASE CoopAside
  BY <1>11, CoopAsideKeeps
<1>12. CASE UNCHANGED vars
  BY <1>12 DEF vars
<1> QED
  BY <1>1, <1>2, <1>3, <1>4, <1>5, <1>6, <1>7, <1>8, <1>9, <1>10, <1>11,
     <1>12
  DEF Next, Isr, Link, Answers, Works, Time, CoopAside

(* A handshake that is OFFERED or ARMED always has a work or a tag that will *)
(* end it, and an armed one a channel to go to: no interleaving of the ISR,  *)
(* the works and a link that goes wedges it (coop_hop_offer_work_fn,         *)
(* coop_hop_abort, the two ISR hooks).                                       *)
THEOREM HandshakesEnd == Spec => []CoopEnds
<1>1. Init => CoopInv
  BY DEF Init, CoopInv, TaggedHasTarget, CoopEnds
<1>2. CoopInv => CoopEnds
  BY DEF CoopInv
<1> QED
  BY <1>1, <1>2, TypeInit, TypeStep, CoopEndsStep, PTL DEF Spec
=============================================================================
