---------------------------- MODULE ChannelPick ----------------------------
(***************************************************************************)
(* The channel algorithms of src/esb/channel_hop.c: the timed quarantine   *)
(* on a clock that wraps, the choice of a channel by its distance from     *)
(* those in quarantine, and the draw that signal strength biases.          *)
(*                                                                         *)
(* The calls are those of the hop engine.  Which channel it moves to is    *)
(* decided in ChannelHopEp; here it may be any, as the dongle's choice and *)
(* the channel held before are taken without a look at the distances.      *)
(* ChannelHopEp reduces this module to a set of channels in quarantine.    *)
(***************************************************************************)
EXTENDS Integers, FiniteSetsExt

CONSTANTS
  CHANNEL_COUNT,       \* CHANNEL_HOP_CHANNEL_COUNT
  BootChannel,         \* esb_transport_get_rendezvous_channel()
  HALF,                \* 2^31: half the range of k_uptime_get_32
  QUARANTINE_MS,       \* CONFIG_..._CHANNEL_QUARANTINE_MS
  COOP_QUARANTINE_MS,  \* CONFIG_..._COOP_HOP_QUARANTINE_MS
  MIN_DISTANCE,        \* CONFIG_..._CHANNEL_QUARANTINE_MIN_DISTANCE
  PERSIST_SIZE,        \* CONFIG_..._CHANNEL_QUARANTINE_PERSIST_SIZE
  ALPHA, SCALE,        \* CONFIG_..._CHANNEL_RSSI_EWMA_ALPHA, _RSSI_WEIGHT_SCALE
  WEIGHT_MIN, WEIGHT_MAX,  \* CONFIG_..._CHANNEL_RSSI_WEIGHT_MIN, _MAX
  Samples,             \* readings in dBm, the magnitudes received negated
  MaxUptime,           \* bound: ticks since boot
  MaxCalls             \* bound: hops that leave a hold, fallbacks, readings
                       \* and rebuilt offender lists

Channels == 0 .. CHANNEL_COUNT - 1
CLOCK == 2 * HALF
NONE == 127   \* CHANNEL_RSSI_NONE

(* What persist_rebuild_avoided may distil: never the rendezvous channel.    *)
Offenders ==
  {s \in SUBSET (Channels \ {BootChannel}) : Cardinality(s) <= PERSIST_SIZE}

ASSUME PickAssumption ==
  /\ CHANNEL_COUNT \in Nat /\ BootChannel \in Channels
  /\ HALF \in Nat
  /\ QUARANTINE_MS \in 1 .. HALF - 1 /\ COOP_QUARANTINE_MS \in 1 .. QUARANTINE_MS
  /\ MIN_DISTANCE \in Nat /\ PERSIST_SIZE \in Nat
  /\ SCALE \in Nat /\ ALPHA \in 1 .. SCALE
  /\ WEIGHT_MIN \in Nat \ {0} /\ WEIGHT_MAX \in Nat /\ WEIGHT_MIN < WEIGHT_MAX
  /\ Samples \subseteq -127 .. 0
  /\ MaxUptime \in Nat /\ MaxCalls \in Nat

VARIABLES
  channel,     \* where the radio is
  now,         \* k_uptime_get_32
  expires_at,  \* m_quarantine.expires_at
  persistent,  \* m_quarantine.persistent.channels
  ewma,        \* m_channel_rssi.ewma
  uptime,      \* history: the clock, had it no width
  until,       \* history: how long a channel is to be held, 0 if released
  calls        \* history: how many calls there have been

vars == <<channel, now, expires_at, persistent, ewma, uptime, until, calls>>

Init ==
  /\ channel = BootChannel
  /\ now = 0 /\ uptime = 0 /\ calls = 0
  /\ expires_at = [c \in Channels |-> 0] /\ until = [c \in Channels |-> 0]
  /\ persistent \in Offenders
  /\ ewma = [c \in Channels |-> NONE]

Wrap(t) == IF t < CLOCK THEN t ELSE t - CLOCK

-----------------------------------------------------------------------------
(* Quarantine *)

(* Faulty variant: the newest hold wins. *)
quarantine_add_newest(expires, c, hold) ==
  [expires EXCEPT ![c] = Wrap(now + hold)]

(* The later expiry wins, compared as numbers and not on the circle. *)
quarantine_add(expires, c, hold) ==
  [expires EXCEPT ![c] = IF Wrap(now + hold) > @ THEN Wrap(now + hold) ELSE @]

(* The expiry is ahead of the clock by less than half its range. *)
Ahead(e) == IF e >= now THEN e - now ELSE e - now + CLOCK
timed_quarantine_is(c) ==
  expires_at[c] # 0 /\ Ahead(expires_at[c]) \in 1 .. HALF - 1

timed == {c \in Channels : timed_quarantine_is(c)}
quarantined == timed \cup persistent

-----------------------------------------------------------------------------
(* The pick *)

Distance(a, b) == IF a >= b THEN a - b ELSE b - a
within_distance(c, d, channels) == \E x \in channels \ {c} : Distance(c, x) <= d

(* Faulty variant: persistent offenders get the full distance. *)
Candidates_full(d, avoid) ==
  {c \in Channels \ (quarantined \cup {avoid}) :
     d > 0 => /\ ~within_distance(c, d, quarantined)
              /\ Distance(c, avoid) > d}

(* Who may be picked at distance d: persistent offenders get half of it. *)
Candidates(d, avoid) ==
  {c \in Channels \ (quarantined \cup {avoid}) :
     /\ d > 0 => ~within_distance(c, d, timed) /\ Distance(c, avoid) > d
     /\ d > 1 => ~within_distance(c, d \div 2, persistent)}

(* channel_hop_pick_weighted: the distance is relaxed until somebody may be  *)
(* picked; without anybody at distance 0 there is no pick (INVALID).         *)
channel_hop_pick(min_distance, avoid) ==
  LET found == {d \in 0 .. min_distance : Candidates(d, avoid) # {}}
  IN IF found = {} THEN {} ELSE Candidates(Max(found), avoid)

-----------------------------------------------------------------------------
(* The draw among the candidates *)

(* Division in C rounds towards zero. *)
Quotient(a, b) == IF a >= 0 THEN a \div b ELSE -((-a) \div b)

(* channel_rssi_update *)
Averaged(old, sample) ==
  IF old = NONE THEN sample
  ELSE Quotient(ALPHA * sample + (SCALE - ALPHA) * old, SCALE)

Readings(candidates) == {ewma[c] : c \in candidates} \ {NONE}

(* Without any reading the draw is uniform. *)
candidate_weight(c, candidates) ==
  LET lo == Min(Readings(candidates))
      hi == Max(Readings(candidates))
  IN IF Readings(candidates) = {} THEN 1
     ELSE IF ewma[c] = NONE \/ hi = lo THEN (WEIGHT_MIN + WEIGHT_MAX) \div 2
     ELSE WEIGHT_MIN + ((WEIGHT_MAX - WEIGHT_MIN) * (ewma[c] - lo)) \div (hi - lo)

(* The weights of the candidates up to c, added in the order of the walk. *)
WeightUpto(c, candidates) ==
  LET sum[x \in Channels] ==
        (IF x = 0 THEN 0 ELSE sum[x - 1])
        + (IF x \in candidates THEN candidate_weight(x, candidates) ELSE 0)
  IN sum[c]

(* Faulty variant: the walk stops a step early, at r = 0. *)
weighted_index_late(r, candidates) ==
  LET reached == {c \in candidates : r <= WeightUpto(c, candidates)}
  IN IF reached = {} THEN Max(candidates) ELSE Min(reached)

(* The walk with the random number r; its last line catches what cannot be. *)
weighted_index(r, candidates) ==
  LET reached == {c \in candidates : r < WeightUpto(c, candidates)}
  IN IF reached = {} THEN Max(candidates) ELSE Min(reached)

-----------------------------------------------------------------------------
(* The hop engine's calls *)

Call(counts) ==
  (calls' = IF counts THEN calls + 1 ELSE calls) /\ calls' <= MaxCalls

(* commit_hop_bookkeeping: the channel left is held, unless it is the        *)
(* rendezvous; released is one let go before.                                *)
Leave(released, hold) ==
  LET expires == [c \in Channels |-> IF c \in released THEN 0 ELSE expires_at[c]]
      held == [c \in Channels |-> IF c \in released THEN 0 ELSE until[c]]
  IN IF channel = BootChannel THEN expires_at' = expires /\ until' = held
     ELSE /\ expires_at' = quarantine_add(expires, channel, hold)
          /\ until' = [held EXCEPT ![channel] = Max({@, uptime + hold})]

(* A speculative or a cooperative hop; a channel the dongle names, or the    *)
(* one held before, may be in quarantine.                                    *)
Hop(target, hold) ==
  /\ Call(channel # BootChannel) /\ target # channel /\ channel' = target
  /\ Leave({}, hold)
  /\ UNCHANGED <<now, persistent, ewma, uptime>>

(* A revert: the target is pardoned. *)
Revert(target) ==
  /\ Call(channel # BootChannel) /\ target # channel /\ channel' = target
  /\ Leave({target}, QUARANTINE_MS) /\ persistent' = persistent \ {target}
  /\ UNCHANGED <<now, ewma, uptime>>

(* A rendezvous fallback, or a session that starts over: nothing is held. *)
Fallback ==
  /\ Call(TRUE) /\ channel # BootChannel /\ channel' = BootChannel
  /\ expires_at' = [expires_at EXCEPT ![BootChannel] = 0]
  /\ until' = [until EXCEPT ![BootChannel] = 0]
  /\ persistent' = persistent \ {BootChannel}
  /\ UNCHANGED <<now, ewma, uptime>>

(* The list of persistent offenders is distilled anew (Offenders). *)
persist_rebuild_avoided(offenders) ==
  /\ Call(TRUE) /\ persistent' = offenders
  /\ UNCHANGED <<channel, now, expires_at, ewma, uptime, until>>

(* A LINK_STATS packet: the reading is booked on the current channel. *)
channel_hop_ep_note_peer_rssi(sample) ==
  /\ Call(TRUE) /\ ewma' = [ewma EXCEPT ![channel] = Averaged(@, sample)]
  /\ UNCHANGED <<channel, now, expires_at, persistent, uptime, until>>

Tick ==
  /\ uptime < MaxUptime /\ uptime' = uptime + 1 /\ now' = Wrap(now + 1)
  /\ UNCHANGED <<channel, expires_at, persistent, ewma, until, calls>>

Next ==
  \/ \E c \in Channels, hold \in {QUARANTINE_MS, COOP_QUARANTINE_MS} : Hop(c, hold)
  \/ \E c \in Channels : Revert(c)
  \/ Fallback
  \/ \E offenders \in Offenders : persist_rebuild_avoided(offenders)
  \/ \E sample \in Samples : channel_hop_ep_note_peer_rssi(sample)
  \/ Tick

Spec == Init /\ [][Next]_vars

-----------------------------------------------------------------------------
(* Properties *)

PickTypeOK ==
  /\ channel \in Channels
  /\ now \in 0 .. CLOCK - 1 /\ expires_at \in [Channels -> 0 .. CLOCK - 1]
  /\ persistent \subseteq Channels /\ ewma \in [Channels -> Int]
  /\ uptime \in Nat /\ until \in [Channels -> Nat] /\ calls \in 0 .. MaxCalls

(* The expiry is so far behind that it seems to be ahead. *)
Returned(c) == until[c] # 0 /\ uptime - until[c] > HALF

(* "Mark a channel as quarantined for at least hold_ms from now. If the      *)
(* channel is already quarantined for longer, the existing expiry wins"      *)
(* (channel_hop.h:75): until an expiry can wrap, a channel is held while it  *)
(* has been promised, however holds, reverts and hops back to a channel in   *)
(* quarantine follow each other, and once more from half the clock's range   *)
(* after its expiry on.                                                      *)
HoldsKept ==
  uptime + QUARANTINE_MS < CLOCK =>
    \A c \in Channels : c \in timed <=> until[c] > uptime \/ Returned(c)

(* "Channel ch is quarantined iff expires_at[ch] > k_uptime_get_32()"        *)
(* (channel_hop.h:61).                                                       *)
HeldIffAhead == \A c \in Channels : c \in timed <=> expires_at[c] > now

(* The largest distance, up to min_distance, at which c may be picked. *)
Room(c, min_distance, avoid) ==
  Min({min_distance}
      \cup {Distance(c, x) - 1 : x \in (timed \cup {avoid}) \ {c}}
      \cup {2 * Distance(c, x) - 1 : x \in persistent \ {c}})

(* The loop over distances, with its two kinds of buffer, returns exactly    *)
(* the channels that are not excluded and keep the largest distance: it      *)
(* gives up no more of the distance than it must, and there is no pick only  *)
(* if every other channel is in quarantine.                                  *)
PickIsClearest ==
  LET open == Channels \ (quarantined \cup {channel}) IN
  \A d \in 0 .. MIN_DISTANCE :
    LET best == Max({Room(c, d, channel) : c \in open}) IN
    channel_hop_pick(d, channel) = {c \in open : Room(c, d, channel) = best}

(* "biases the draw by per-channel RSSI": over all random numbers each       *)
(* candidate is drawn as often as its weight says; a stronger signal never   *)
(* weighs less, and no average leaves the range of the readings, or turns    *)
(* into the mark for "no reading".                                           *)
DrawFollowsWeights ==
  LET picks == channel_hop_pick(MIN_DISTANCE, channel)
      weight == [c \in picks |-> candidate_weight(c, picks)]
      draws == [r \in 0 .. WeightUpto(CHANNEL_COUNT - 1, picks) - 1 |->
                  weighted_index(r, picks)]
  IN
  /\ \A c \in picks :
       Cardinality({r \in DOMAIN draws : draws[r] = c}) = weight[c]
  /\ \A a, b \in {c \in picks : ewma[c] # NONE} :
       ewma[a] > ewma[b] => weight[a] >= weight[b]
  /\ \A c \in Channels : ewma[c] = NONE \/ ewma[c] \in Min(Samples) .. Max(Samples)

=============================================================================
