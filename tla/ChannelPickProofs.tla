------------------------- MODULE ChannelPickProofs -------------------------
(***************************************************************************)
(* Theorems about ChannelPick, for any number of channels, any distance    *)
(* and a clock of any width.  HoldsKept follows from an invariant that     *)
(* relates the clock and the expiries to those without a width;            *)
(* PickIsClearest is a fact about every state, by lemmas about Min and Max;*)
(* DrawFollowsWeights needs that the averages stay among the readings, and *)
(* then is about the running sum of the weights.                           *)
(***************************************************************************)
EXTENDS ChannelPick, FiniteSetTheorems, TLAPS

-----------------------------------------------------------------------------
(* Least and greatest members *)

LEMMA LeastExists ==
  ASSUME NEW S \in SUBSET Nat, S # {}
  PROVE  \E m \in S : \A x \in S : m <= x
<1> DEFINE R == OpToRel(<, Nat)
<1>1. PICK m \in S : \A x \in S : <<x, m>> \notin R
  <2>1. IsWellFoundedOn(R, Nat)
    BY NatLessThanWellFounded
  <2> HIDE DEF R
  <2> QED
    BY <2>1, WFMin
<1>2. \A x \in S : ~(x < m)
  BY <1>1 DEF OpToRel
<1> QED
  BY <1>2

LEMMA MinIs ==
  ASSUME NEW S \in SUBSET Nat, S # {}
  PROVE  Min(S) \in S /\ \A x \in S : Min(S) <= x
  BY LeastExists DEF Min

LEMMA MaxIs ==
  ASSUME NEW S \in SUBSET Int, NEW m \in S, \A x \in S : x <= m
  PROVE  Max(S) = m
<1>1. \A y \in S : (\A x \in S : y >= x) <=> y = m
  OBVIOUS
<1> QED
  BY <1>1 DEF Max

LEMMA GreatestExists ==
  ASSUME NEW n \in Nat, NEW S \in SUBSET (0 .. n), S # {}
  PROVE  \E m \in S : \A x \in S : x <= m
<1> DEFINE T == {t \in 0 .. n : n - t \in S}
<1>1. ASSUME NEW x \in S PROVE n - x \in T
  <2>1. x \in 0 .. n
    OBVIOUS
  <2>2. n - x \in 0 .. n /\ n - (n - x) = x
    BY <2>1
  <2> QED
    BY <2>2
<1>2. T \in SUBSET Nat /\ T # {}
  <2>1. T \in SUBSET Nat
    OBVIOUS
  <2>2. PICK x \in S : TRUE
    OBVIOUS
  <2> QED
    BY <1>1, <2>1, <2>2
<1>3. PICK t \in T : \A u \in T : t <= u
  BY <1>2, LeastExists
<1>4. ASSUME NEW x \in S PROVE x <= n - t
  BY <1>1, <1>3
<1> QED
  BY <1>3, <1>4

-----------------------------------------------------------------------------
(* Types *)

LEMMA LaterIs ==
  ASSUME NEW a \in Nat, NEW b \in Nat
  PROVE  Max({a, b}) = IF b > a THEN b ELSE a
<1>1. CASE b > a
  BY <1>1, MaxIs, Max({a, b}) = b
<1>2. CASE ~(b > a)
  BY <1>2, MaxIs, Max({a, b}) = a
<1> QED
  BY <1>1, <1>2

LEMMA WrapType ==
  ASSUME NEW t \in 0 .. 2 * CLOCK - 1
  PROVE  Wrap(t) \in 0 .. CLOCK - 1
  BY PickAssumption DEF PickAssumption, Wrap, CLOCK

LEMMA AveragedType ==
  ASSUME NEW old \in Int, NEW sample \in Samples
  PROVE  Averaged(old, sample) \in Int
<1> DEFINE sum == ALPHA * sample + (SCALE - ALPHA) * old
<1>1. /\ sample \in Int /\ ALPHA \in Int /\ SCALE \in Nat \ {0}
  BY PickAssumption DEF PickAssumption
<1>2. sum \in Int
  BY <1>1
<1> HIDE DEF sum
<1>3. sum \div SCALE \in Int /\ -((-sum) \div SCALE) \in Int
  BY <1>1, <1>2
<1> QED
  BY <1>1, <1>3 DEF Averaged, Quotient, sum

(* What a hop leaves of the expiries, and of the promises, when released is  *)
(* pardoned: before the channel left is held.                                *)
Pardoned(f, released) == [c \in Channels |-> IF c \in released THEN 0 ELSE f[c]]

(* The expiries and the promises after the hop. *)
LEMMA LeaveIs ==
  ASSUME PickTypeOK, NEW released \in SUBSET Channels,
         NEW hold \in {QUARANTINE_MS, COOP_QUARANTINE_MS}, Leave(released, hold)
  PROVE  \A c \in Channels :
           LET promise == Pardoned(until, released)[c]
               expiry == Pardoned(expires_at, released)[c]
               left == c = channel /\ channel # BootChannel
           IN /\ until'[c] = IF left /\ uptime + hold > promise
                             THEN uptime + hold ELSE promise
              /\ expires_at'[c] = IF left /\ Wrap(now + hold) > expiry
                                  THEN Wrap(now + hold) ELSE expiry
<1> USE PickAssumption DEF PickAssumption
<1> DEFINE P == Pardoned(until, released)
           E == Pardoned(expires_at, released)
<1>1. P \in [Channels -> Nat] /\ E \in [Channels -> 0 .. CLOCK - 1]
  BY DEF PickTypeOK, Pardoned, CLOCK
<1>2. CASE channel = BootChannel
  BY <1>2 DEF Leave, Pardoned
<1>3. CASE channel # BootChannel
  <2>1. /\ until' = [P EXCEPT ![channel] = Max({P[channel], uptime + hold})]
        /\ expires_at' = quarantine_add(E, channel, hold)
    BY <1>3 DEF Leave, PickTypeOK, Pardoned
  <2>2. Max({P[channel], uptime + hold})
          = IF uptime + hold > P[channel] THEN uptime + hold ELSE P[channel]
    BY <1>1, LaterIs DEF PickTypeOK
  <2> HIDE DEF P, E
  <2>3. \A c \in Channels :
          /\ until'[c] = IF c = channel /\ uptime + hold > P[c]
                         THEN uptime + hold ELSE P[c]
          /\ expires_at'[c] = IF c = channel /\ Wrap(now + hold) > E[c]
                              THEN Wrap(now + hold) ELSE E[c]
    BY <1>1, <2>1, <2>2 DEF quarantine_add
  <2> QED
    BY <1>3, <2>3 DEF P, E
<1> QED
  BY <1>2, <1>3

LEMMA LeaveTypes ==
  ASSUME PickTypeOK, NEW released \in SUBSET Channels,
         NEW hold \in {QUARANTINE_MS, COOP_QUARANTINE_MS}, Leave(released, hold)
  PROVE  expires_at' \in [Channels -> 0 .. CLOCK - 1] /\ until' \in [Channels -> Nat]
<1> USE PickAssumption DEF PickAssumption
<1>1. Wrap(now + hold) \in 0 .. CLOCK - 1 /\ uptime + hold \in Nat
  BY WrapType DEF PickTypeOK, CLOCK
<1>2. \A c \in Channels :
        /\ until'[c] \in Nat
        /\ expires_at'[c] \in 0 .. CLOCK - 1
  BY <1>1, LeaveIs DEF PickTypeOK, Pardoned, CLOCK
<1>3. /\ until' = [c \in Channels |-> until'[c]]
      /\ expires_at' = [c \in Channels |-> expires_at'[c]]
  BY DEF Leave, PickTypeOK, quarantine_add
<1> QED
  BY <1>2, <1>3

LEMMA TypeInit == Init => PickTypeOK
  BY PickAssumption DEF PickAssumption, Init, PickTypeOK, Offenders, NONE, CLOCK

LEMMA TypeStep == PickTypeOK /\ [Next]_vars => PickTypeOK'
<1> SUFFICES ASSUME PickTypeOK, [Next]_vars
             PROVE  PickTypeOK'
  OBVIOUS
<1>1. ASSUME NEW c \in Channels, NEW hold \in {QUARANTINE_MS, COOP_QUARANTINE_MS},
             Hop(c, hold)
      PROVE  PickTypeOK'
  BY <1>1, LeaveTypes DEF Hop, PickTypeOK, Call
<1>2. ASSUME NEW c \in Channels, Revert(c)
      PROVE  PickTypeOK'
  BY <1>2, LeaveTypes DEF Revert, PickTypeOK, Call
<1>3. CASE Fallback
  <2>1. 0 \in Nat /\ 0 \in 0 .. CLOCK - 1
    BY PickAssumption DEF PickAssumption, CLOCK
  <2>2. /\ expires_at' \in [Channels -> 0 .. CLOCK - 1]
        /\ until' \in [Channels -> Nat]
    BY <1>3, <2>1, ZenonT(30) DEF Fallback, PickTypeOK
  <2> QED
    BY <1>3, <2>2, PickAssumption DEF PickAssumption, Fallback, PickTypeOK, Call
<1>4. ASSUME NEW offenders \in Offenders, persist_rebuild_avoided(offenders)
      PROVE  PickTypeOK'
  BY <1>4 DEF persist_rebuild_avoided, PickTypeOK, Call, Offenders
<1>5. ASSUME NEW sample \in Samples, channel_hop_ep_note_peer_rssi(sample)
      PROVE  PickTypeOK'
  <2>1. Averaged(ewma[channel], sample) \in Int
    BY AveragedType DEF PickTypeOK
  <2>2. ewma' \in [Channels -> Int]
    BY <1>5, <2>1 DEF channel_hop_ep_note_peer_rssi, PickTypeOK
  <2> QED
    BY <1>5, <2>2 DEF channel_hop_ep_note_peer_rssi, PickTypeOK, Call
<1>6. CASE Tick
  BY <1>6, PickAssumption DEF PickAssumption, Tick, PickTypeOK, Wrap, CLOCK
<1>7. CASE UNCHANGED vars
  BY <1>7 DEF vars, PickTypeOK
<1> QED
  BY <1>1, <1>2, <1>3, <1>4, <1>5, <1>6, <1>7 DEF Next

(* The clock and the expiries stay within their width, and the channels in   *)
(* quarantine are channels, whatever is held, pardoned and distilled.        *)
THEOREM PickTypeCorrect == Spec => []PickTypeOK
  BY TypeInit, TypeStep, PTL DEF Spec

-----------------------------------------------------------------------------
(* HoldsKept *)

(* The clock and the expiries are what they would be without a width, as     *)
(* long as they fit into it.                                                 *)
ClockInv ==
  /\ uptime < CLOCK => now = uptime
  /\ \A c \in Channels : until[c] <= uptime + QUARANTINE_MS
  /\ uptime + QUARANTINE_MS < CLOCK => \A c \in Channels : expires_at[c] = until[c]

LEMMA ClockInit == Init => ClockInv
  BY PickAssumption DEF PickAssumption, Init, ClockInv, CLOCK

LEMMA LeaveKeeps ==
  ASSUME PickTypeOK, ClockInv, NEW released \in SUBSET Channels,
         NEW hold \in {QUARANTINE_MS, COOP_QUARANTINE_MS}, Leave(released, hold),
         UNCHANGED <<now, uptime>>
  PROVE  ClockInv'
<1> USE PickAssumption DEF PickAssumption
<1>1. ASSUME NEW c \in Channels PROVE until'[c] <= uptime + QUARANTINE_MS
  BY LeaveIs DEF PickTypeOK, ClockInv, Pardoned
<1>2. ASSUME uptime + QUARANTINE_MS < CLOCK, NEW c \in Channels
      PROVE  expires_at'[c] = until'[c]
  <2>1. Wrap(now + hold) = uptime + hold
    BY <1>2 DEF PickTypeOK, ClockInv, Wrap, CLOCK
  <2> QED
    BY <1>2, <2>1, LeaveIs DEF ClockInv, Pardoned
<1> QED
  BY <1>1, <1>2 DEF ClockInv

LEMMA ClockStep == PickTypeOK /\ ClockInv /\ [Next]_vars => ClockInv'
<1> SUFFICES ASSUME PickTypeOK, ClockInv, [Next]_vars
             PROVE  ClockInv'
  OBVIOUS
<1>1. ASSUME NEW c \in Channels, NEW hold \in {QUARANTINE_MS, COOP_QUARANTINE_MS},
             Hop(c, hold)
      PROVE  ClockInv'
  BY <1>1, LeaveKeeps DEF Hop
<1>2. ASSUME NEW c \in Channels, Revert(c)
      PROVE  ClockInv'
  BY <1>2, LeaveKeeps DEF Revert
<1>3. CASE Fallback
  <2>1. \A c \in Channels :
          /\ until'[c] = IF c = BootChannel THEN 0 ELSE until[c]
          /\ expires_at'[c] = IF c = BootChannel THEN 0 ELSE expires_at[c]
    BY <1>3 DEF Fallback, PickTypeOK
  <2>2. UNCHANGED <<now, uptime>>
    BY <1>3 DEF Fallback
  <2>3. \A c \in Channels : until'[c] <= uptime + QUARANTINE_MS
    BY <2>1, PickAssumption DEF PickAssumption, PickTypeOK, ClockInv
  <2> QED
    BY <2>1, <2>2, <2>3 DEF ClockInv
<1>4. ASSUME NEW offenders \in Offenders, persist_rebuild_avoided(offenders)
      PROVE  ClockInv'
  BY <1>4 DEF persist_rebuild_avoided, ClockInv
<1>5. ASSUME NEW sample \in Samples, channel_hop_ep_note_peer_rssi(sample)
      PROVE  ClockInv'
  BY <1>5 DEF channel_hop_ep_note_peer_rssi, ClockInv
<1>6. CASE Tick
  BY <1>6, PickAssumption DEF PickAssumption, Tick, PickTypeOK, ClockInv, Wrap, CLOCK
<1>7. CASE UNCHANGED vars
  BY <1>7 DEF vars, ClockInv
<1> QED
  BY <1>1, <1>2, <1>3, <1>4, <1>5, <1>6, <1>7 DEF Next

LEMMA ClockImplies == PickTypeOK /\ ClockInv => HoldsKept
<1> SUFFICES ASSUME PickTypeOK, ClockInv, uptime + QUARANTINE_MS < CLOCK, NEW c \in Channels
             PROVE  c \in timed <=> until[c] > uptime \/ Returned(c)
  BY DEF HoldsKept
<1> USE PickAssumption DEF PickAssumption
<1>1. now = uptime /\ expires_at[c] = until[c] /\ until[c] \in Nat /\ uptime \in Nat
      /\ until[c] <= uptime + QUARANTINE_MS
  BY DEF PickTypeOK, ClockInv, CLOCK
<1>2. c \in timed <=> until[c] # 0 /\ Ahead(until[c]) \in 1 .. HALF - 1
  BY <1>1 DEF timed, timed_quarantine_is
<1>3. CASE until[c] >= uptime
  BY <1>1, <1>2, <1>3 DEF Ahead, Returned
<1>4. CASE until[c] < uptime
  BY <1>1, <1>2, <1>4 DEF Ahead, Returned, CLOCK
<1> QED
  BY <1>1, <1>3, <1>4

(* Whatever the width of the clock: while no expiry has wrapped, a channel   *)
(* is held as long as the longest of its holds has promised, no call ends a  *)
(* hold except a pardon, and an expired one comes back only from half the    *)
(* range on (quarantine_add, timed_quarantine_is).                           *)
THEOREM HoldsAreKept == Spec => []HoldsKept
<1>1. Spec => []ClockInv
  BY PickTypeCorrect, ClockInit, ClockStep, PTL DEF Spec
<1> QED
  BY <1>1, PickTypeCorrect, ClockImplies, PTL

-----------------------------------------------------------------------------
(* PickIsClearest *)

(* What Room is the least of. *)
Rooms(c, d, avoid) ==
  {d} \cup {Distance(c, x) - 1 : x \in (timed \cup {avoid}) \ {c}}
      \cup {2 * Distance(c, x) - 1 : x \in persistent \ {c}}

LEMMA DistanceType ==
  ASSUME NEW a \in Channels, NEW b \in Channels
  PROVE  /\ Distance(a, b) \in Nat
         /\ a # b => Distance(a, b) >= 1
  BY PickAssumption DEF PickAssumption, Channels, Distance

(* Room is the greatest distance that all the neighbours allow. *)
LEMMA RoomIs ==
  ASSUME PickTypeOK, NEW c \in Channels, NEW d \in Nat
  PROVE  /\ Room(c, d, channel) \in 0 .. d
         /\ \A n \in Nat :
              n <= Room(c, d, channel) <=> \A r \in Rooms(c, d, channel) : n <= r
<1> DEFINE S == Rooms(c, d, channel)
<1>1. S \in SUBSET Nat /\ d \in S
  <2>1. \A x \in (timed \cup {channel}) \ {c} : Distance(c, x) - 1 \in Nat
    BY DistanceType DEF PickTypeOK, timed
  <2>2. \A x \in persistent \ {c} : 2 * Distance(c, x) - 1 \in Nat
    BY DistanceType DEF PickTypeOK
  <2> QED
    BY <2>1, <2>2 DEF Rooms
<1>2. Room(c, d, channel) = Min(S)
  BY DEF Room, Rooms
<1>3. Min(S) \in S /\ \A x \in S : Min(S) <= x
  <2> HIDE DEF S
  <2> QED
    BY <1>1, MinIs
<1> QED
  BY <1>1, <1>2, <1>3

(* Somebody is a candidate at a distance if and only if he has the room: the *)
(* halved distance to an offender is enough when its double is.              *)
LEMMA CandidatesHaveRoom ==
  ASSUME PickTypeOK, NEW d \in Nat, NEW n \in 0 .. d
  PROVE  Candidates(n, channel) =
           {c \in Channels \ (quarantined \cup {channel}) : n <= Room(c, d, channel)}
<1> SUFFICES ASSUME NEW c \in Channels \ (quarantined \cup {channel})
             PROVE  c \in Candidates(n, channel) <=> n <= Room(c, d, channel)
  BY DEF Candidates
<1>1. n <= Room(c, d, channel) <=>
        /\ \A x \in timed \ {c} : n <= Distance(c, x) - 1
        /\ n <= Distance(c, channel) - 1
        /\ \A x \in persistent \ {c} : n <= 2 * Distance(c, x) - 1
  <2>1. n <= Room(c, d, channel) <=> \A r \in Rooms(c, d, channel) : n <= r
    BY RoomIs
  <2>2. n <= d /\ channel # c
    OBVIOUS
  <2>3. (\A r \in Rooms(c, d, channel) : n <= r) <=>
          /\ n <= d
          /\ \A x \in (timed \cup {channel}) \ {c} : n <= Distance(c, x) - 1
          /\ \A x \in persistent \ {c} : n <= 2 * Distance(c, x) - 1
    BY DEF Rooms
  <2> QED
    BY <2>1, <2>2, <2>3
<1>2. c \in Candidates(n, channel) <=>
        /\ n > 0 => /\ \A x \in timed \ {c} : ~(Distance(c, x) <= n)
                    /\ Distance(c, channel) > n
        /\ n > 1 => \A x \in persistent \ {c} : ~(Distance(c, x) <= n \div 2)
  BY DEF Candidates, within_distance
<1>3. \A x \in Channels : Distance(c, x) \in Nat /\ (x # c => Distance(c, x) >= 1)
  BY DistanceType
<1>4. \A m \in Nat : m >= 1 => /\ n <= m - 1 <=> (n > 0 => ~(m <= n))
                              /\ n <= 2 * m - 1 <=> (n > 1 => ~(m <= n \div 2))
  OBVIOUS
<1>5. timed \subseteq Channels /\ persistent \subseteq Channels
      /\ channel \in Channels /\ channel # c
  BY DEF PickTypeOK, timed
<1>6. (\A x \in timed \ {c} : n <= Distance(c, x) - 1)
        <=> (n > 0 => \A x \in timed \ {c} : ~(Distance(c, x) <= n))
  BY <1>3, <1>4, <1>5
<1>7. n <= Distance(c, channel) - 1 <=> (n > 0 => Distance(c, channel) > n)
  BY <1>3, <1>4, <1>5
<1>8. (\A x \in persistent \ {c} : n <= 2 * Distance(c, x) - 1)
        <=> (n > 1 => \A x \in persistent \ {c} : ~(Distance(c, x) <= n \div 2))
  BY <1>3, <1>4, <1>5
<1> QED
  BY <1>1, <1>2, <1>6, <1>7, <1>8

(* For any number of channels and any distance, the loop of                  *)
(* channel_hop_pick_weighted offers exactly the open channels that keep the  *)
(* largest distance, and gives up only when there are none.                  *)
THEOREM PickLeavesMostRoom == Spec => []PickIsClearest
<1>1. ASSUME PickTypeOK PROVE PickIsClearest
  <2> DEFINE open == Channels \ (quarantined \cup {channel})
             room(c, d) == Room(c, d, channel)
             best(d) == Max({room(c, d) : c \in open})
             found(d) == {n \in 0 .. d : Candidates(n, channel) # {}}
  <2> SUFFICES ASSUME NEW d \in 0 .. MIN_DISTANCE
               PROVE  channel_hop_pick(d, channel) = {c \in open : room(c, d) = best(d)}
    BY DEF PickIsClearest
  <2>1. d \in Nat
    OBVIOUS
  <2>2. \A n \in 0 .. d : Candidates(n, channel) = {c \in open : n <= room(c, d)}
    BY <1>1, <2>1, CandidatesHaveRoom
  <2>3. \A c \in open : room(c, d) \in 0 .. d
    BY <1>1, <2>1, RoomIs
  <2>4. channel_hop_pick(d, channel) =
          IF found(d) = {} THEN {} ELSE Candidates(Max(found(d)), channel)
    BY DEF channel_hop_pick
  <2> HIDE DEF open, room
  <2>5. CASE open = {}
    BY <2>2, <2>4, <2>5
  <2>6. CASE open # {}
    <3> DEFINE R == {room(c, d) : c \in open}
    <3>1. R \in SUBSET (0 .. d) /\ R # {}
      BY <2>3, <2>6
    <3> HIDE DEF R
    <3>2. PICK m \in R : \A r \in R : r <= m
      BY <2>1, <3>1, GreatestExists
    <3>3. m \in 0 .. d /\ R \in SUBSET Int
      BY <3>1
    <3>4. Max(R) = m
      BY <3>2, <3>3, MaxIs
    <3>5. PICK c \in open : room(c, d) = m
      BY DEF R
    <3>6. \A b \in open : room(b, d) <= m
      BY <3>2 DEF R
    <3>7. m \in found(d) /\ \A n \in found(d) : n <= m
      <4>1. m \in found(d)
        BY <2>2, <3>3, <3>5
      <4>2. ASSUME NEW n \in found(d) PROVE n <= m
        <5>1. PICK b \in open : n <= room(b, d)
          BY <2>2
        <5> QED
          BY <2>3, <3>3, <3>6, <5>1
      <4> QED
        BY <4>1, <4>2
    <3>8. Max(found(d)) = m
      <4>1. found(d) \in SUBSET Int
        OBVIOUS
      <4> HIDE DEF found
      <4> QED
        BY <3>7, <4>1, MaxIs
    <3>9. channel_hop_pick(d, channel) = {b \in open : m <= room(b, d)}
      BY <2>2, <2>4, <3>3, <3>7, <3>8
    <3>10. \A b \in open : m <= room(b, d) <=> room(b, d) = m
      BY <2>3, <3>3, <3>6
    <3> QED
      BY <3>4, <3>9, <3>10 DEF R
  <2> QED
    BY <2>5, <2>6
<1> QED
  BY <1>1, PickTypeCorrect, PTL

-----------------------------------------------------------------------------
(* DrawFollowsWeights: the averages *)

LEMMA ExtremesAre ==
  ASSUME NEW a \in Int, NEW b \in Int, NEW S \in SUBSET (a .. b), S # {}
  PROVE  /\ Min(S) \in S /\ Max(S) \in S
         /\ \A x \in S : Min(S) <= x /\ x <= Max(S)
<1> DEFINE T == {t \in 0 .. b - a : a + t \in S}
<1>1. ASSUME NEW x \in S PROVE x - a \in T /\ a + (x - a) = x
  <2>1. x \in a .. b
    OBVIOUS
  <2>2. x - a \in 0 .. b - a /\ a + (x - a) = x
    BY <2>1
  <2> QED
    BY <2>2
<1>2. b - a \in Nat /\ T \in SUBSET (0 .. b - a) /\ T \in SUBSET Nat /\ T # {}
  <2>1. PICK x \in S : TRUE
    OBVIOUS
  <2>2. x - a \in T
    BY <1>1
  <2>3. T \in SUBSET (0 .. b - a) /\ T \in SUBSET Nat
    OBVIOUS
  <2>4. x \in a .. b
    OBVIOUS
  <2>5. b - a \in Nat
    BY <2>4
  <2> HIDE DEF T
  <2> QED
    BY <2>2, <2>3, <2>5
<1>3. \A t \in T : t \in Int /\ a + t \in S
  OBVIOUS
<1>4. S \in SUBSET Int
  OBVIOUS
<1> HIDE DEF T
<1>5. PICK l \in T : \A t \in T : l <= t
  BY <1>2, LeastExists
<1>6. PICK h \in T : \A t \in T : t <= h
  BY <1>2, GreatestExists
<1>7. a + l \in S /\ \A x \in S : a + l <= x
  BY <1>1, <1>3, <1>4, <1>5
<1>8. a + h \in S /\ \A x \in S : x <= a + h
  BY <1>1, <1>3, <1>4, <1>6
<1>9. Min(S) \in S /\ \A x \in S : Min(S) <= x
  BY <1>7 DEF Min
<1>10. Max(S) = a + h
  BY <1>4, <1>8, MaxIs
<1> QED
  BY <1>8, <1>9, <1>10

(* Division is monotone, and the inverse of a multiplication. *)
LEMMA QuotientOf ==
  ASSUME NEW n \in Nat, n > 0, NEW x \in Int
  PROVE  /\ x \div n \in Int
         /\ n * (x \div n) <= x
         /\ x < n * (x \div n) + n
  OBVIOUS

LEMMA TimesMonotone ==
  ASSUME NEW n \in Nat, NEW x \in Int, NEW y \in Int, x <= y
  PROVE  n * x <= n * y
  OBVIOUS

LEMMA DivisionMonotone ==
  ASSUME NEW n \in Nat, n > 0, NEW x \in Int, NEW y \in Int, x <= y
  PROVE  x \div n <= y \div n
<1> DEFINE p == x \div n
           q == y \div n
<1>1. p \in Int /\ q \in Int /\ n * p <= x /\ y < n * q + n
  BY QuotientOf
<1> HIDE DEF p, q
<1>2. ASSUME q + 1 <= p PROVE FALSE
  <2>1. n * (q + 1) <= n * p
    BY <1>1, <1>2, TimesMonotone
  <2>2. n * (q + 1) = n * q + n
    BY <1>1
  <2>3. n * q \in Int /\ n * p \in Int
    BY <1>1
  <2> QED
    BY <1>1, <2>1, <2>2, <2>3
<1>3. p <= q
  BY <1>1, <1>2
<1> QED
  BY <1>3 DEF p, q

LEMMA DivisionInverts ==
  ASSUME NEW n \in Nat, n > 0, NEW x \in Int
  PROVE  (n * x) \div n = x
<1> DEFINE q == (n * x) \div n
<1>1. n * x \in Int
  OBVIOUS
<1>2. q \in Int /\ n * q <= n * x /\ n * x < n * q + n
  BY <1>1, QuotientOf
<1> HIDE DEF q
<1>3. n * q \in Int /\ n * (q + 1) = n * q + n /\ n * (x + 1) = n * x + n
  BY <1>2
<1>4. ASSUME q + 1 <= x PROVE FALSE
  <2>1. n * (q + 1) <= n * x
    BY <1>2, <1>4, TimesMonotone
  <2> QED
    BY <1>1, <1>2, <1>3, <2>1
<1>5. ASSUME x + 1 <= q PROVE FALSE
  <2>1. n * (x + 1) <= n * q
    BY <1>2, <1>5, TimesMonotone
  <2> QED
    BY <1>1, <1>2, <1>3, <2>1
<1>6. q = x
  BY <1>2, <1>4, <1>5
<1> QED
  BY <1>6 DEF q

(* An average of two values in a range is in it: the truncation goes towards *)
(* zero, which no value of the range is below.                               *)
LEMMA AverageBetween ==
  ASSUME NEW lo \in Int, NEW hi \in Int, hi <= 0,
         NEW old \in lo .. hi, NEW sample \in lo .. hi
  PROVE  Quotient(ALPHA * sample + (SCALE - ALPHA) * old, SCALE) \in lo .. hi
<1> DEFINE B == SCALE - ALPHA
           sum == ALPHA * sample + B * old
           q == (-sum) \div SCALE
<1>1. ALPHA \in Nat /\ B \in Nat /\ SCALE \in Nat /\ SCALE > 0 /\ ALPHA + B = SCALE
  BY PickAssumption DEF PickAssumption
<1> HIDE DEF B
<1>2. /\ ALPHA * lo <= ALPHA * sample /\ ALPHA * sample <= ALPHA * hi
      /\ B * lo <= B * old /\ B * old <= B * hi
  BY <1>1, TimesMonotone
<1>3. /\ ALPHA * lo + B * lo = SCALE * lo
      /\ ALPHA * hi + B * hi = SCALE * hi
  <2>1. \A x \in Int : ALPHA * x + B * x = (ALPHA + B) * x
    BY <1>1
  <2> QED
    BY <1>1, <2>1
<1>4. /\ ALPHA * lo \in Int /\ ALPHA * hi \in Int /\ ALPHA * sample \in Int
      /\ B * lo \in Int /\ B * hi \in Int /\ B * old \in Int
      /\ SCALE * lo \in Int /\ SCALE * hi \in Int
  BY <1>1
<1>5. sum \in Int /\ SCALE * lo <= sum /\ sum <= SCALE * hi
  BY <1>2, <1>3, <1>4
<1>6. SCALE * hi <= SCALE * 0 /\ SCALE * 0 = 0
  BY <1>1, TimesMonotone
<1> HIDE DEF sum
<1>7. -sum \in Int /\ SCALE * (-hi) <= -sum /\ -sum <= SCALE * (-lo)
  <2>1. SCALE * (-hi) = -(SCALE * hi) /\ SCALE * (-lo) = -(SCALE * lo)
    BY <1>1
  <2> QED
    BY <1>4, <1>5, <2>1
<1>8. q \in Int /\ -hi <= q /\ q <= -lo
  <2>1. SCALE * (-hi) \in Int /\ SCALE * (-lo) \in Int /\ -hi \in Int /\ -lo \in Int
    BY <1>1
  <2>2. /\ (SCALE * (-hi)) \div SCALE <= q
        /\ q <= (SCALE * (-lo)) \div SCALE
    BY <1>1, <1>7, <2>1, DivisionMonotone
  <2>3. (SCALE * (-hi)) \div SCALE = -hi /\ (SCALE * (-lo)) \div SCALE = -lo
    BY <1>1, <2>1, DivisionInverts
  <2>4. q \in Int
    BY <1>1, <1>7, QuotientOf
  <2> QED
    BY <2>2, <2>3, <2>4
<1> HIDE DEF q
<1>9. CASE sum >= 0
  <2>1. sum = 0 /\ SCALE * hi = 0
    BY <1>4, <1>5, <1>6, <1>9
  <2>2. hi = 0
    <3>1. ASSUME hi <= -1 PROVE FALSE
      <4>1. SCALE * hi <= SCALE * (-1) /\ SCALE * (-1) = -SCALE
        BY <1>1, <3>1, TimesMonotone
      <4> QED
        BY <1>1, <2>1, <4>1
    <3> QED
      BY <3>1
  <2>3. 0 \div SCALE = 0
    BY <1>1, DivisionInverts, SCALE * 0 = 0
  <2>4. 0 \in lo .. hi
    BY <2>2
  <2> QED
    BY <1>9, <2>1, <2>3, <2>4 DEF Quotient, sum, B
<1>10. CASE ~(sum >= 0)
  <2>1. -q \in lo .. hi
    BY <1>8
  <2> QED
    BY <1>10, <2>1 DEF Quotient, sum, B, q
<1> QED
  BY <1>9, <1>10

(* The averages are in the range of the readings, of which there are some. *)
AverageInv ==
  \A c \in Channels :
    ewma[c] # NONE => Samples # {} /\ ewma[c] \in Min(Samples) .. Max(Samples)

LEMMA AveragesInit == Init => AverageInv
  BY DEF Init, AverageInv

LEMMA AveragesStep == PickTypeOK /\ AverageInv /\ [Next]_vars => AverageInv'
<1> SUFFICES ASSUME PickTypeOK, AverageInv, [Next]_vars
             PROVE  AverageInv'
  OBVIOUS
<1>1. ASSUME NEW sample \in Samples, channel_hop_ep_note_peer_rssi(sample)
      PROVE  AverageInv'
  <2> DEFINE lo == Min(Samples)
             hi == Max(Samples)
             old == ewma[channel]
  <2>1. /\ lo \in -127 .. 0 /\ hi \in -127 .. 0 /\ sample \in lo .. hi
    <3>1. Samples \in SUBSET (-127 .. 0) /\ Samples # {}
      BY PickAssumption DEF PickAssumption
    <3>2. /\ lo \in Samples /\ hi \in Samples
          /\ lo <= sample /\ sample <= hi
      <4>1. -127 \in Int /\ 0 \in Int
        OBVIOUS
      <4> QED
        BY <3>1, <4>1, ExtremesAre
    <3>3. sample \in -127 .. 0 /\ lo \in -127 .. 0 /\ hi \in -127 .. 0
      BY <3>1, <3>2
    <3> QED
      BY <3>2, <3>3
  <2>2. channel \in Channels /\ (old = NONE \/ old \in lo .. hi)
    BY DEF PickTypeOK, AverageInv
  <2> HIDE DEF lo, hi, old
  <2>3. Averaged(old, sample) \in lo .. hi
    <3>1. CASE old = NONE
      BY <2>1, <3>1 DEF Averaged
    <3>2. CASE old # NONE
      <4>1. lo \in Int /\ hi \in Int /\ hi <= 0
        BY <2>1
      <4> QED
        BY <2>1, <2>2, <3>2, <4>1, AverageBetween DEF Averaged
    <3> QED
      BY <3>1, <3>2
  <2>4. ewma' = [ewma EXCEPT ![channel] = Averaged(old, sample)]
    BY <1>1 DEF channel_hop_ep_note_peer_rssi, old
  <2>5. ASSUME NEW c \in Channels, ewma'[c] # NONE
        PROVE  ewma'[c] \in lo .. hi
    BY <2>3, <2>4, <2>5 DEF PickTypeOK, AverageInv, lo, hi
  <2> QED
    BY <2>5 DEF AverageInv, lo, hi
<1>2. ASSUME UNCHANGED ewma PROVE AverageInv'
  BY <1>2 DEF AverageInv
<1> QED
  BY <1>1, <1>2 DEF Next, Hop, Revert, Fallback, persist_rebuild_avoided, Tick, vars

(* No average ever leaves the range of the readings, or is their mark for    *)
(* none (channel_rssi_update).                                               *)
LEMMA AveragesHold == Spec => []AverageInv
  BY PickTypeCorrect, AveragesInit, AveragesStep, PTL DEF Spec

-----------------------------------------------------------------------------
(* DrawFollowsWeights: the weights *)

(* The share of the span that a reading at distance x from the weakest of n  *)
(* has.                                                                      *)
LEMMA ShareIs ==
  ASSUME NEW k \in Nat, NEW n \in Nat, n > 0, NEW x \in 0 .. n
  PROVE  (k * x) \div n \in 0 .. k
<1>1. k * 0 <= k * x /\ k * x <= k * n
  BY TimesMonotone
<1>2. k * 0 = n * 0 /\ k * n = n * k /\ k * x \in Int /\ n * 0 \in Int /\ n * k \in Int
  OBVIOUS
<1>3. (n * 0) \div n <= (k * x) \div n /\ (k * x) \div n <= (n * k) \div n
  BY <1>1, <1>2, DivisionMonotone
<1>4. (n * 0) \div n = 0 /\ (n * k) \div n = k
  BY DivisionInverts
<1>5. (k * x) \div n \in Int
  BY <1>2, QuotientOf
<1> QED
  BY <1>3, <1>4, <1>5

LEMMA ReadingsAre ==
  ASSUME PickTypeOK, AverageInv, NEW candidates \in SUBSET Channels
  PROVE  /\ Readings(candidates) \in SUBSET (-127 .. 0)
         /\ \A c \in candidates :
              ewma[c] # NONE =>
                /\ ewma[c] \in Readings(candidates)
                /\ Min(Readings(candidates)) \in -127 .. 0
                /\ Max(Readings(candidates)) \in -127 .. 0
                /\ Min(Readings(candidates)) <= ewma[c]
                /\ ewma[c] <= Max(Readings(candidates))
<1> DEFINE R == Readings(candidates)
<1>1. ASSUME NEW c \in Channels, ewma[c] # NONE PROVE ewma[c] \in -127 .. 0
  <2>1. Samples \in SUBSET (-127 .. 0) /\ -127 \in Int /\ 0 \in Int
    BY PickAssumption DEF PickAssumption
  <2>2. Samples # {} /\ ewma[c] \in Min(Samples) .. Max(Samples)
    BY <1>1 DEF AverageInv
  <2>3. Min(Samples) \in Samples /\ Max(Samples) \in Samples
    BY <2>1, <2>2, ExtremesAre
  <2>4. Min(Samples) \in -127 .. 0 /\ Max(Samples) \in -127 .. 0
    BY <2>1, <2>3
  <2> QED
    BY <2>2, <2>4
<1>2. R \in SUBSET (-127 .. 0)
  BY <1>1 DEF Readings
<1>3. ASSUME NEW c \in candidates, ewma[c] # NONE
      PROVE  /\ ewma[c] \in R
             /\ Min(R) \in R /\ Max(R) \in R
             /\ Min(R) <= ewma[c] /\ ewma[c] <= Max(R)
  <2>1. ewma[c] \in R
    BY <1>3 DEF Readings
  <2>2. -127 \in Int /\ 0 \in Int
    OBVIOUS
  <2> HIDE DEF R
  <2>3. /\ Min(R) \in R /\ Max(R) \in R
        /\ \A x \in R : Min(R) <= x /\ x <= Max(R)
    BY <1>2, <2>1, <2>2, ExtremesAre
  <2> QED
    BY <2>1, <2>3
<1> HIDE DEF R
<1>4. \A c \in candidates :
        ewma[c] # NONE =>
          /\ ewma[c] \in R
          /\ Min(R) \in -127 .. 0 /\ Max(R) \in -127 .. 0
          /\ Min(R) <= ewma[c] /\ ewma[c] <= Max(R)
  BY <1>2, <1>3
<1> QED
  BY <1>2, <1>4 DEF R

(* "map linearly onto [WEIGHT_MIN, WEIGHT_MAX]": a sampled weight is in that *)
(* range, so every candidate has one, and a stronger signal weighs no less.  *)
LEMMA WeightsAre ==
  ASSUME PickTypeOK, AverageInv, NEW candidates \in SUBSET Channels
  PROVE  /\ \A c \in candidates :
              IF Readings(candidates) = {} THEN candidate_weight(c, candidates) = 1
              ELSE candidate_weight(c, candidates) \in WEIGHT_MIN .. WEIGHT_MAX
         /\ \A a, b \in {c \in candidates : ewma[c] # NONE} :
              ewma[a] > ewma[b] =>
                candidate_weight(a, candidates) >= candidate_weight(b, candidates)
<1> DEFINE R == Readings(candidates)
           lo == Min(R)
           hi == Max(R)
           weight(c) == candidate_weight(c, candidates)
           k == WEIGHT_MAX - WEIGHT_MIN
           share(c) == (k * (ewma[c] - lo)) \div (hi - lo)
<1>1. /\ WEIGHT_MIN \in Nat /\ WEIGHT_MAX \in Nat /\ k \in Nat
      /\ WEIGHT_MIN + k = WEIGHT_MAX
      /\ (WEIGHT_MIN + WEIGHT_MAX) \div 2 \in WEIGHT_MIN .. WEIGHT_MAX
  BY PickAssumption DEF PickAssumption
<1>2. \A c \in candidates :
        weight(c) = IF R = {} THEN 1
                    ELSE IF ewma[c] = NONE \/ hi = lo THEN (WEIGHT_MIN + WEIGHT_MAX) \div 2
                    ELSE WEIGHT_MIN + share(c)
  BY DEF candidate_weight
<1>3. \A c \in candidates :
        ewma[c] # NONE => /\ R # {}
                          /\ ewma[c] \in Int /\ lo \in Int /\ hi \in Int
                          /\ lo <= ewma[c] /\ ewma[c] <= hi
  BY ReadingsAre DEF PickTypeOK
<1> HIDE DEF R, lo, hi, weight, k
<1>4. ASSUME NEW c \in candidates, ewma[c] # NONE, hi # lo
      PROVE  share(c) \in 0 .. k
  <2>1. hi - lo \in Nat /\ hi - lo > 0 /\ ewma[c] - lo \in 0 .. hi - lo
    BY <1>3, <1>4
  <2> QED
    BY <1>1, <2>1, ShareIs
<1>5. ASSUME NEW c \in candidates
      PROVE  IF R = {} THEN weight(c) = 1 ELSE weight(c) \in WEIGHT_MIN .. WEIGHT_MAX
  <2>1. CASE R = {}
    BY <1>2, <2>1
  <2>2. CASE R # {} /\ (ewma[c] = NONE \/ hi = lo)
    BY <1>1, <1>2, <2>2
  <2>3. CASE R # {} /\ ewma[c] # NONE /\ hi # lo
    <3>1. weight(c) = WEIGHT_MIN + share(c) /\ share(c) \in 0 .. k
      BY <1>2, <1>4, <2>3
    <3> HIDE DEF share
    <3> QED
      BY <1>1, <2>3, <3>1
  <2> QED
    BY <2>1, <2>2, <2>3
<1>6. ASSUME NEW a \in candidates, NEW b \in candidates,
             ewma[a] # NONE, ewma[b] # NONE, ewma[a] > ewma[b]
      PROVE  weight(a) >= weight(b)
  <2>1. R # {} /\ hi # lo
    BY <1>3, <1>6
  <2>2. /\ hi - lo \in Nat /\ hi - lo > 0
        /\ ewma[a] - lo \in Int /\ ewma[b] - lo \in Int /\ ewma[b] - lo <= ewma[a] - lo
    BY <1>3, <1>6, <2>1
  <2>3. k * (ewma[b] - lo) <= k * (ewma[a] - lo)
    BY <1>1, <2>2, TimesMonotone
  <2>4. k * (ewma[b] - lo) \in Int /\ k * (ewma[a] - lo) \in Int
    BY <1>1, <2>2
  <2>5. share(b) <= share(a)
    BY <2>2, <2>3, <2>4, DivisionMonotone
  <2>6. share(a) \in 0 .. k /\ share(b) \in 0 .. k
    BY <1>4, <1>6, <2>1
  <2>7. weight(a) = WEIGHT_MIN + share(a) /\ weight(b) = WEIGHT_MIN + share(b)
    BY <1>2, <1>6, <2>1
  <2> HIDE DEF share
  <2> QED
    BY <1>1, <2>5, <2>6, <2>7
<1>7. \A a, b \in {c \in candidates : ewma[c] # NONE} :
        ewma[a] > ewma[b] => weight(a) >= weight(b)
  BY <1>6
<1> QED
  BY <1>5, <1>7 DEF R, weight

-----------------------------------------------------------------------------
(* DrawFollowsWeights: the walk *)

IsSum(f, w, n) ==
  f = [x \in 0 .. n |-> (IF x = 0 THEN 0 ELSE f[x - 1]) + w[x]]

(* Whatever is added, the running sum is defined: a first position without   *)
(* one could add to that of its predecessor.                                 *)
LEMMA SumExists ==
  ASSUME NEW n \in Nat, NEW w
  PROVE  \E f : IsSum(f, w, n)
<1> DEFINE without == {k \in Nat : ~(\E f : IsSum(f, w, k))}
<1>1. CASE without = {}
  BY <1>1
<1>2. CASE without # {}
  <2>1. without \in SUBSET Nat
    OBVIOUS
  <2> HIDE DEF without
  <2>2. PICK k \in without : \A j \in without : k <= j
    BY <1>2, <2>1, LeastExists
  <2>3. k \in Nat /\ ~(\E f : IsSum(f, w, k))
    BY DEF without
  <2>4. CASE k = 0
    <3> DEFINE f == [x \in 0 .. 0 |-> 0 + w[0]]
    <3>1. IsSum(f, w, 0)
      BY DEF IsSum
    <3> QED
      BY <2>3, <2>4, <3>1
  <2>5. CASE k # 0
    <3>1. k - 1 \in Nat /\ k - 1 \notin without
      BY <2>2, <2>3, <2>5
    <3>2. PICK g : IsSum(g, w, k - 1)
      BY <3>1 DEF without
    <3> DEFINE f == [x \in 0 .. k |-> IF x = k THEN g[k - 1] + w[k] ELSE g[x]]
    <3>3. ASSUME NEW x \in 0 .. k - 1
          PROVE  g[x] = (IF x = 0 THEN 0 ELSE g[x - 1]) + w[x]
      BY <3>2 DEF IsSum
    <3>4. ASSUME NEW x \in 0 .. k
          PROVE  f[x] = (IF x = 0 THEN 0 ELSE f[x - 1]) + w[x]
      BY <2>3, <2>5, <3>3
    <3>5. f = [x \in 0 .. k |-> f[x]]
      OBVIOUS
    <3> HIDE DEF f
    <3>6. IsSum(f, w, k)
      BY <3>4, <3>5 DEF IsSum
    <3> QED
      BY <2>3, <3>6
  <2> QED
    BY <2>4, <2>5
<1> QED
  BY <1>1, <1>2

Weights(candidates) ==
  [x \in Channels |-> IF x \in candidates THEN candidate_weight(x, candidates) ELSE 0]

LEMMA UptoIs ==
  ASSUME NEW candidates, NEW c \in Channels
  PROVE  WeightUpto(c, candidates)
           = (IF c = 0 THEN 0 ELSE WeightUpto(c - 1, candidates)) + Weights(candidates)[c]
<1> DEFINE w == Weights(candidates)
           OK(f) == f = [x \in Channels |-> (IF x = 0 THEN 0 ELSE f[x - 1])
                      + (IF x \in candidates THEN candidate_weight(x, candidates) ELSE 0)]
           sum == CHOOSE f : OK(f)
<1>0. Channels = 0 .. CHANNEL_COUNT - 1 /\ CHANNEL_COUNT - 1 \in Nat
  BY PickAssumption DEF PickAssumption, Channels
<1>1. \E f : OK(f)
  <2>1. PICK f : IsSum(f, w, CHANNEL_COUNT - 1)
    BY <1>0, SumExists
  <2>2. f = [x \in Channels |-> (IF x = 0 THEN 0 ELSE f[x - 1]) + w[x]]
    BY <1>0, <2>1 DEF IsSum
  <2>3. \A x \in Channels : w[x] = IF x \in candidates THEN candidate_weight(x, candidates) ELSE 0
    BY DEF Weights
  <2>4. OK(f)
    BY <2>2, <2>3
  <2> QED
    BY <2>4
<1>2. OK(sum)
  <2> HIDE DEF OK
  <2> QED
    BY <1>1
<1>3. \A x : WeightUpto(x, candidates) = sum[x]
  BY DEF WeightUpto
<1> HIDE DEF sum
<1>4. sum[c] = (IF c = 0 THEN 0 ELSE sum[c - 1]) + w[c]
  BY <1>2 DEF Weights
<1> QED
  BY <1>3, <1>4

(* The running sum never falls. *)
LEMMA UptoGrows ==
  ASSUME NEW candidates, Weights(candidates) \in [Channels -> Nat]
  PROVE  \A c \in Channels :
           /\ WeightUpto(c, candidates) \in Nat
           /\ \A a \in 0 .. c : WeightUpto(a, candidates) <= WeightUpto(c, candidates)
<1> DEFINE U(c) == WeightUpto(c, candidates)
           w == Weights(candidates)
           Good(c) == U(c) \in Nat /\ \A a \in 0 .. c : U(a) <= U(c)
           bad == {c \in Channels : ~Good(c)}
<1>1. \A c \in Channels : c \in Nat /\ w[c] \in Nat
  BY PickAssumption DEF PickAssumption, Channels
<1>2. \A c \in Channels : c # 0 => c - 1 \in Channels
  BY PickAssumption DEF PickAssumption, Channels
<1>3. \A c \in Channels : U(c) = (IF c = 0 THEN 0 ELSE U(c - 1)) + w[c]
  BY UptoIs
<1> HIDE DEF U, w
<1>4. CASE bad = {}
  BY <1>4 DEF U
<1>5. CASE bad # {}
  <2>1. bad \in SUBSET Nat
    BY <1>1
  <2> HIDE DEF bad
  <2>2. PICK c \in bad : \A b \in bad : c <= b
    BY <1>5, <2>1, LeastExists
  <2>3. c \in Channels /\ ~Good(c)
    BY DEF bad
  <2>4. CASE c = 0
    <3>1. U(c) = w[c] /\ U(c) \in Nat
      BY <1>1, <1>3, <2>3, <2>4
    <3>2. \A a \in 0 .. c : a = c
      BY <2>4
    <3> QED
      BY <2>3, <3>1, <3>2
  <2>5. CASE c # 0
    <3>1. c - 1 \in Channels /\ c - 1 \notin bad
      BY <1>1, <1>2, <2>2, <2>3, <2>5
    <3>2. Good(c - 1)
      BY <3>1 DEF bad
    <3>3. U(c) = U(c - 1) + w[c]
      BY <1>3, <2>3, <2>5
    <3>4. U(c) \in Nat /\ U(c - 1) <= U(c)
      BY <1>1, <2>3, <3>2, <3>3
    <3>5. ASSUME NEW a \in 0 .. c PROVE U(a) <= U(c)
      <4>1. CASE a = c
        BY <3>4, <4>1
      <4>2. CASE a # c
        <5>1. a \in 0 .. c - 1 /\ 0 \in 0 .. c - 1 /\ c - 1 \in 0 .. c - 1
          BY <1>1, <2>3, <4>2
        <5>2. U(a) <= U(c - 1) /\ U(c) = U(c - 1) + w[c]
          BY <3>2, <3>3, <5>1
        <5>3. a \in Channels
          BY <2>3, PickAssumption DEF PickAssumption, Channels
        <5>4. a \notin bad
          BY <1>1, <2>2, <2>3, <4>2, <5>1
        <5>5. U(a) \in Nat
          BY <5>3, <5>4 DEF bad
        <5> QED
          BY <3>2, <3>4, <5>2, <5>5
      <4> QED
        BY <4>1, <4>2
    <3> QED
      BY <2>3, <3>4, <3>5
  <2> QED
    BY <2>4, <2>5
<1> QED
  BY <1>4, <1>5

(* A random number below the total ends the walk at the candidate whose      *)
(* share of the running sum it falls into.                                   *)
LEMMA DrawIs ==
  ASSUME NEW candidates \in SUBSET Channels, Weights(candidates) \in [Channels -> Nat],
         NEW r \in 0 .. WeightUpto(CHANNEL_COUNT - 1, candidates) - 1
  PROVE  LET c == weighted_index(r, candidates) IN
         /\ c \in candidates
         /\ r < WeightUpto(c, candidates)
         /\ c # 0 => WeightUpto(c - 1, candidates) <= r
<1> DEFINE U(c) == WeightUpto(c, candidates)
           w == Weights(candidates)
           S == {c \in Channels : r < U(c)}
           reached == {c \in candidates : r < U(c)}
<1>1. /\ Channels \in SUBSET Nat /\ CHANNEL_COUNT - 1 \in Channels
      /\ \A c \in Channels : c # 0 => c - 1 \in Channels
  BY PickAssumption DEF PickAssumption, Channels
<1>2. \A c \in Channels : U(c) \in Nat /\ w[c] \in Nat
  BY UptoGrows
<1>3. \A c \in Channels : U(c) = (IF c = 0 THEN 0 ELSE U(c - 1)) + w[c]
  BY UptoIs
<1>4. \A c \in Channels : c \notin candidates => w[c] = 0
  BY DEF Weights
<1>5. weighted_index(r, candidates) = IF reached = {} THEN Max(candidates) ELSE Min(reached)
  BY DEF weighted_index
<1>6. r \in Nat /\ r < U(CHANNEL_COUNT - 1)
  <2>1. U(CHANNEL_COUNT - 1) \in Nat
    BY <1>1, <1>2
  <2> HIDE DEF U
  <2>2. r \in 0 .. U(CHANNEL_COUNT - 1) - 1
    BY DEF U
  <2> QED
    BY <2>1, <2>2
<1> HIDE DEF U, w
<1>7. PICK m \in S : \A c \in S : m <= c
  <2>1. S \in SUBSET Nat /\ S # {}
    BY <1>1, <1>6
  <2> HIDE DEF S
  <2> QED
    BY <2>1, LeastExists
<1>8. m # 0 => U(m - 1) <= r
  <2> SUFFICES ASSUME m # 0 PROVE U(m - 1) <= r
    OBVIOUS
  <2>1. m \in Nat /\ m - 1 \in Channels /\ m - 1 \notin S
    BY <1>1, <1>7
  <2> QED
    BY <1>2, <1>6, <2>1
<1>9. m \in candidates
  <2> SUFFICES ASSUME m \notin candidates PROVE FALSE
    OBVIOUS
  <2>1. U(m) = IF m = 0 THEN 0 ELSE U(m - 1)
    <3>1. CASE m = 0
      BY <1>3, <1>4, <3>1
    <3>2. CASE m # 0
      BY <1>1, <1>2, <1>3, <1>4, <3>2
    <3> QED
      BY <3>1, <3>2
  <2>2. r < U(m) /\ U(m) \in Nat
    BY <1>2
  <2> QED
    BY <1>6, <1>8, <2>1, <2>2
<1>10. Min(reached) = m
  <2>1. reached \in SUBSET Nat /\ m \in reached /\ reached \in SUBSET S
    BY <1>1, <1>9
  <2> HIDE DEF reached, S
  <2>2. Min(reached) \in reached /\ Min(reached) <= m
    BY <2>1, MinIs
  <2>3. m <= Min(reached)
    BY <1>7, <2>1, <2>2
  <2>4. m \in Nat /\ Min(reached) \in Nat
    BY <2>1, <2>2
  <2> QED
    BY <2>2, <2>3, <2>4
<1>11. weighted_index(r, candidates) = m
  BY <1>5, <1>9, <1>10
<1> QED
  BY <1>7, <1>8, <1>9, <1>11 DEF U

(* The numbers that draw c are as many as its weight: they are those from    *)
(* the weights before it to its own, and no other candidate's share overlaps.*)
LEMMA DrawnAsOften ==
  ASSUME NEW candidates \in SUBSET Channels, Weights(candidates) \in [Channels -> Nat],
         NEW c \in candidates
  PROVE  Cardinality({r \in 0 .. WeightUpto(CHANNEL_COUNT - 1, candidates) - 1 :
                        weighted_index(r, candidates) = c}) = Weights(candidates)[c]
<1> DEFINE U(x) == WeightUpto(x, candidates)
           w == Weights(candidates)
           before == IF c = 0 THEN 0 ELSE U(c - 1)
           index(r) == weighted_index(r, candidates)
           all == 0 .. U(CHANNEL_COUNT - 1) - 1
<1>1. /\ Channels \in SUBSET Nat /\ CHANNEL_COUNT - 1 \in Channels /\ c \in Channels
      /\ \A x \in Channels : /\ x # 0 => x - 1 \in Channels
                             /\ x <= CHANNEL_COUNT - 1
  BY PickAssumption DEF PickAssumption, Channels
<1>2. \A x \in Channels : U(x) \in Nat /\ \A a \in 0 .. x : U(a) <= U(x)
  BY UptoGrows
<1>3. U(c) = before + w[c] /\ w[c] \in Nat
  BY <1>1, UptoIs
<1>4. \A r \in all : /\ index(r) \in candidates /\ r < U(index(r))
                     /\ index(r) # 0 => U(index(r) - 1) <= r
  BY DrawIs
<1> HIDE DEF U, w, index
<1>5. before \in Nat
  BY <1>1, <1>2
<1>6. {r \in all : index(r) = c} = before .. U(c) - 1
  <2>1. ASSUME NEW r \in all, index(r) = c PROVE r \in before .. U(c) - 1
    BY <1>1, <1>2, <1>4, <1>5, <2>1
  <2>2. ASSUME NEW r \in before .. U(c) - 1 PROVE r \in all /\ index(r) = c
    <3>1. r \in Nat /\ before <= r /\ r < U(c) /\ U(c) \in Nat
      BY <1>1, <1>2, <1>5
    <3>2. r \in all
      <4>1. c \in 0 .. CHANNEL_COUNT - 1
        BY <1>1
      <4>2. U(c) <= U(CHANNEL_COUNT - 1) /\ U(CHANNEL_COUNT - 1) \in Nat
        BY <1>1, <1>2, <4>1
      <4> QED
        BY <3>1, <4>2
    <3> DEFINE d == index(r)
    <3>3. /\ d \in Channels /\ d \in Nat /\ c \in Nat
          /\ r < U(d) /\ (d # 0 => U(d - 1) <= r)
      BY <1>1, <1>4, <3>2
    <3> HIDE DEF d, all
    <3>4. ASSUME d < c PROVE FALSE
      <4>1. c # 0 /\ c - 1 \in Channels /\ d \in 0 .. c - 1
        BY <1>1, <3>3, <3>4
      <4>2. U(d) <= U(c - 1) /\ U(c - 1) <= r
        BY <1>2, <3>1, <4>1
      <4> QED
        BY <1>2, <3>1, <3>3, <4>1, <4>2
    <3>5. ASSUME c < d PROVE FALSE
      <4>1. d # 0 /\ d - 1 \in Channels /\ c \in 0 .. d - 1
        BY <1>1, <3>3, <3>5
      <4>2. U(c) <= U(d - 1) /\ U(d - 1) <= r
        BY <1>2, <3>3, <4>1
      <4>3. U(d - 1) \in Nat
        BY <1>2, <4>1
      <4> QED
        BY <3>1, <4>2, <4>3
    <3>6. d = c
      BY <3>3, <3>4, <3>5
    <3> QED
      BY <3>2, <3>6 DEF d
  <2> HIDE DEF all, before
  <2>3. \A r \in before .. U(c) - 1 : r \in all /\ index(r) = c
    BY <2>2
  <2> QED
    BY <2>1, <2>3
<1>7. Cardinality(before .. U(c) - 1) = w[c]
  <2> HIDE DEF before
  <2>1. U(c) \in Nat /\ U(c) - 1 \in Int /\ before \in Int
    BY <1>1, <1>2, <1>5
  <2>2. Cardinality(before .. U(c) - 1)
          = IF before > U(c) - 1 THEN 0 ELSE U(c) - 1 - before + 1
    BY <2>1, FS_Interval
  <2> QED
    BY <1>3, <1>5, <2>1, <2>2
<1> QED
  BY <1>6, <1>7 DEF U, w, index

(* For any number of channels, any weights and any readings that fit the     *)
(* byte without being its mark: each candidate is drawn by as many numbers   *)
(* as its weight, a stronger signal never weighs less, and the averages stay *)
(* among the readings (weighted_index, candidate_weight,                     *)
(* channel_rssi_update).                                                     *)
THEOREM DrawsFollowWeights == Spec => []DrawFollowsWeights
<1>1. ASSUME PickTypeOK, AverageInv PROVE DrawFollowsWeights
  <2> DEFINE picks == channel_hop_pick(MIN_DISTANCE, channel)
             weight == [c \in picks |-> candidate_weight(c, picks)]
             draws == [r \in 0 .. WeightUpto(CHANNEL_COUNT - 1, picks) - 1 |->
                         weighted_index(r, picks)]
  <2>1. picks \in SUBSET Channels
    BY DEF channel_hop_pick, Candidates
  <2> HIDE DEF picks
  <2>2. \A c \in picks : weight[c] = candidate_weight(c, picks) /\ weight[c] = Weights(picks)[c]
    BY <2>1 DEF Weights
  <2>3. Weights(picks) \in [Channels -> Nat]
    <3>1. \A c \in picks : candidate_weight(c, picks) \in Nat
      BY <1>1, <2>1, WeightsAre, PickAssumption DEF PickAssumption
    <3> QED
      BY <3>1 DEF Weights
  <2>4. ASSUME NEW c \in picks
        PROVE  Cardinality({r \in DOMAIN draws : draws[r] = c}) = weight[c]
    <3>1. {r \in DOMAIN draws : draws[r] = c}
            = {r \in 0 .. WeightUpto(CHANNEL_COUNT - 1, picks) - 1 :
                 weighted_index(r, picks) = c}
      OBVIOUS
    <3>2. Cardinality({r \in 0 .. WeightUpto(CHANNEL_COUNT - 1, picks) - 1 :
                         weighted_index(r, picks) = c}) = Weights(picks)[c]
      BY <2>1, <2>3, DrawnAsOften
    <3> QED
      BY <2>2, <3>1, <3>2
  <2>5. \A a, b \in {c \in picks : ewma[c] # NONE} :
          ewma[a] > ewma[b] => weight[a] >= weight[b]
    BY <1>1, <2>1, <2>2, WeightsAre
  <2>6. \A c \in Channels : ewma[c] = NONE \/ ewma[c] \in Min(Samples) .. Max(Samples)
    BY <1>1 DEF AverageInv
  <2> QED
    BY <2>4, <2>5, <2>6 DEF DrawFollowsWeights, picks
<1> QED
  BY <1>1, PickTypeCorrect, AveragesHold, PTL

-----------------------------------------------------------------------------
(* What the hop engine takes for granted *)

(* The channels that some random number leads to. *)
Drawn(d) ==
  LET picks == channel_hop_pick(d, channel)
  IN {weighted_index(r, picks) : r \in 0 .. WeightUpto(CHANNEL_COUNT - 1, picks) - 1}

(* Each candidate has a weight, and each weight a number. *)
LEMMA EachIsDrawn ==
  ASSUME PickTypeOK, AverageInv, NEW d \in Nat
  PROVE  Drawn(d) = channel_hop_pick(d, channel)
<1> DEFINE picks == channel_hop_pick(d, channel)
           all == 0 .. WeightUpto(CHANNEL_COUNT - 1, picks) - 1
<1>1. picks \in SUBSET Channels
  BY DEF channel_hop_pick, Candidates
<1>2. Drawn(d) = {weighted_index(r, picks) : r \in all}
  BY DEF Drawn
<1> HIDE DEF picks
<1>3. \A c \in picks : candidate_weight(c, picks) \in Nat /\ candidate_weight(c, picks) > 0
  BY <1>1, WeightsAre, PickAssumption DEF PickAssumption
<1>4. Weights(picks) \in [Channels -> Nat]
  BY <1>3 DEF Weights
<1>5. \A r \in all : weighted_index(r, picks) \in picks
  BY <1>1, <1>4, DrawIs
<1>6. ASSUME NEW c \in picks PROVE \E r \in all : weighted_index(r, picks) = c
  <2> DEFINE drawing == {r \in all : weighted_index(r, picks) = c}
  <2>1. Cardinality(drawing) = Weights(picks)[c]
    BY <1>1, <1>4, DrawnAsOften
  <2>2. Weights(picks)[c] # 0
    BY <1>1, <1>3 DEF Weights
  <2>3. drawing # {}
    <3> HIDE DEF drawing
    <3> QED
      BY <2>1, <2>2, FS_EmptySet
  <2> QED
    BY <2>3
<1> QED
  BY <1>2, <1>5, <1>6 DEF picks

(* The pick is as ChannelHopEp has it: a channel that is neither the current *)
(* one nor in quarantine, at any distance, and none (INVALID) only if there  *)
(* is no such channel; and the weights shut out no channel that the distance *)
(* admits, so that none is given up for a bad reading.                       *)
THEOREM DrawServesTheHop ==
  Spec => [](\A d \in 0 .. MIN_DISTANCE :
               LET open == Channels \ (quarantined \cup {channel}) IN
               /\ Drawn(d) = channel_hop_pick(d, channel)
               /\ Drawn(d) \subseteq open
               /\ Drawn(d) = {} => open = {})
<1> DEFINE open == Channels \ (quarantined \cup {channel})
           Serves(d) == /\ Drawn(d) = channel_hop_pick(d, channel)
                        /\ Drawn(d) \subseteq open
                        /\ Drawn(d) = {} => open = {}
<1>1. ASSUME PickTypeOK, AverageInv PROVE \A d \in 0 .. MIN_DISTANCE : Serves(d)
  <2> SUFFICES ASSUME NEW d \in 0 .. MIN_DISTANCE PROVE Serves(d)
    OBVIOUS
  <2> DEFINE found == {n \in 0 .. d : Candidates(n, channel) # {}}
  <2>1. d \in Nat /\ 0 \in 0 .. d
    BY PickAssumption DEF PickAssumption
  <2>2. Drawn(d) = channel_hop_pick(d, channel)
    BY <1>1, <2>1, EachIsDrawn
  <2>3. channel_hop_pick(d, channel) \subseteq open
    BY DEF channel_hop_pick, Candidates
  <2>4. ASSUME open # {} PROVE channel_hop_pick(d, channel) # {}
    <3>1. Candidates(0, channel) = open
      BY DEF Candidates
    <3>2. found # {}
      BY <2>1, <2>4, <3>1
    <3>3. found \in SUBSET (0 .. d) /\ 0 \in Int /\ d \in Int
      BY <2>1
    <3>4. Max(found) \in found
      <4> HIDE DEF found
      <4> QED
        BY <3>2, <3>3, ExtremesAre
    <3>5. Candidates(Max(found), channel) # {}
      BY <3>4
    <3> QED
      BY <3>2, <3>5 DEF channel_hop_pick
  <2> QED
    BY <2>2, <2>3, <2>4
<1> QED
  BY <1>1, PickTypeCorrect, AveragesHold, PTL

=============================================================================
