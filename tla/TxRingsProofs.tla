--------------------------- MODULE TxRingsProofs ---------------------------
(***************************************************************************)
(* Theorems about TxRings, for a FIFO, a ring and an amount of motion of   *)
(* any size.                                                               *)
(*                                                                         *)
(* TxInv carries the books: the count and the motion in the ring, taken    *)
(* from the ring slot by slot (MotionAppend, MotionTail), and the phases   *)
(* of the work queue in which the FIFO or the stash is empty.  LockInv is  *)
(* lockstep, for the packets that have slots: those in the FIFO, or in the *)
(* stash while the work queue has them there.  On both rests what becomes  *)
(* of the newest keyboard report, step by step.  TripInv is the side trip. *)
(***************************************************************************)
EXTENDS TxRings, FiniteSetTheorems, SequenceTheorems, TLAPS

Sync == Packet("sync", 0)

(* Only a keyboard report is ever the newest keyboard report. *)
Sendable == {p \in Packets : p.fresh => p.kind = "kb"}
HidSlots == [hid : {"kb", "mouse", "none"}, motion : 0..MaxMotion]

(***************************************************************************)
(* The operators on packets and slots                                      *)
(***************************************************************************)

LEMMA PacketType ==
  ASSUME NEW k \in {"kb", "mouse", "other", "sync", "none"}, NEW n \in 0..MaxMotion
  PROVE  /\ Packet(k, n) \in Sendable
         /\ Packet(k, n).kind = k /\ Packet(k, n).motion = n
         /\ Packet(k, n).fresh <=> k = "kb"
<1> DEFINE p == Packet(k, n)
<1>1. p = [kind |-> k, motion |-> n, fresh |-> k = "kb"]
  BY DEF Packet
<1>2. (k = "kb") \in BOOLEAN
  OBVIOUS
<1> HIDE DEF p
<1>3. p \in Packets
  BY <1>1, <1>2 DEF Packets
<1>4. p.kind = k /\ p.motion = n
  BY <1>1
<1>5. p.fresh = (k = "kb")
  BY <1>1, Zenon
<1>6. p \in Sendable /\ (p.fresh <=> k = "kb")
  BY <1>3, <1>4, <1>5 DEF Sendable
<1> QED
  BY <1>4, <1>6 DEF p

LEMMA SlotType ==
  ASSUME NEW p \in Sendable
  PROVE  Slot(p) \in HidSlots /\ Slot(p).motion = p.motion
  BY DEF Slot, Packets, Sendable, HidSlots

LEMMA SlotsOf ==
  ASSUME NEW ps \in Seq(Sendable)
  PROVE  /\ Slots(ps) \in Seq(HidSlots) /\ Len(Slots(ps)) = Len(ps)
         /\ \A i \in 1..Len(ps) : Slots(ps)[i] = Slot(ps[i])
<1>1. Len(ps) \in Nat /\ DOMAIN ps = 1..Len(ps)
  BY LenProperties
<1>2. Slots(ps) = [i \in 1..Len(ps) |-> Slot(ps[i])]
  BY <1>1 DEF Slots
<1>3. \A i \in 1..Len(ps) : Slot(ps[i]) \in HidSlots
  BY SlotType, ElementOfSeq
<1>4. Slots(ps) \in [1..Len(ps) -> HidSlots]
  BY <1>2, <1>3
<1>5. Slots(ps) \in Seq(HidSlots)
  BY <1>1, <1>4, SeqDef
<1>6. Len(Slots(ps)) = Len(ps)
  BY <1>1, <1>2, <1>5, LenProperties
<1> QED
  BY <1>2, <1>5, <1>6

(* Nothing of a packet but whether it is the newest changes. *)
LEMMA AgedOf ==
  ASSUME NEW k, NEW p \in Sendable
  PROVE  /\ Aged(k, p) \in Sendable /\ Slot(Aged(k, p)) = Slot(p)
         /\ Aged(k, p).kind = p.kind /\ (k # "kb" => Aged(k, p) = p)
<1>1. CASE k = "kb"
  <2>1. Aged(k, p) = [kind |-> p.kind, motion |-> p.motion, fresh |-> FALSE]
    BY <1>1 DEF Aged
  <2>2. Aged(k, p) \in Packets /\ ~Aged(k, p).fresh
    BY <2>1 DEF Sendable, Packets
  <2>3. Aged(k, p).kind = p.kind /\ Aged(k, p).motion = p.motion
    BY <2>1
  <2> QED
    BY <1>1, <2>2, <2>3 DEF Sendable, Slot
<1>2. CASE k # "kb"
  BY <1>2 DEF Aged
<1> QED
  BY <1>1, <1>2

LEMMA AfterOf ==
  ASSUME NEW k, NEW ps \in Seq(Sendable)
  PROVE  /\ After(k, ps) \in Seq(Sendable) /\ Len(After(k, ps)) = Len(ps)
         /\ \A i \in 1..Len(ps) : After(k, ps)[i] = Aged(k, ps[i])
<1>1. Len(ps) \in Nat /\ DOMAIN ps = 1..Len(ps)
  BY LenProperties
<1>2. After(k, ps) = [i \in 1..Len(ps) |-> Aged(k, ps[i])]
  BY <1>1 DEF After
<1>3. \A i \in 1..Len(ps) : Aged(k, ps[i]) \in Sendable
  BY AgedOf, ElementOfSeq
<1>4. After(k, ps) \in [1..Len(ps) -> Sendable]
  BY <1>2, <1>3
<1>5. After(k, ps) \in Seq(Sendable)
  BY <1>1, <1>4, SeqDef
<1>6. Len(After(k, ps)) = Len(ps)
  BY <1>1, <1>2, <1>5, LenProperties
<1> QED
  BY <1>2, <1>5, <1>6

LEMMA SlotsAfter ==
  ASSUME NEW k, NEW ps \in Seq(Sendable)
  PROVE  Slots(After(k, ps)) = Slots(ps)
<1>1. \A i \in 1..Len(ps) : Slot(After(k, ps)[i]) = Slot(ps[i])
  BY AfterOf, AgedOf, ElementOfSeq
<1>2. /\ Slots(ps) \in Seq(HidSlots) /\ Slots(After(k, ps)) \in Seq(HidSlots)
      /\ Len(Slots(ps)) = Len(Slots(After(k, ps)))
      /\ \A i \in 1..Len(Slots(ps)) : Slots(After(k, ps))[i] = Slots(ps)[i]
  BY <1>1, AfterOf, SlotsOf
<1> QED
  BY <1>2, SeqEqual

LEMMA SlotsAppend ==
  ASSUME NEW ps \in Seq(Sendable), NEW p \in Sendable
  PROVE  Slots(Append(ps, p)) = Append(Slots(ps), Slot(p))
<1>1. /\ Append(ps, p) \in Seq(Sendable) /\ Len(Append(ps, p)) = Len(ps) + 1
      /\ \A i \in 1..Len(ps) : Append(ps, p)[i] = ps[i]
      /\ Append(ps, p)[Len(ps) + 1] = p
  BY AppendProperties
<1>2. /\ Slots(ps) \in Seq(HidSlots) /\ Len(Slots(ps)) = Len(ps) /\ Len(ps) \in Nat
      /\ Slot(p) \in HidSlots
  BY SlotsOf, SlotType, LenProperties
<1>3. /\ Append(Slots(ps), Slot(p)) \in Seq(HidSlots)
      /\ Len(Append(Slots(ps), Slot(p))) = Len(ps) + 1
      /\ \A i \in 1..Len(ps) : Append(Slots(ps), Slot(p))[i] = Slots(ps)[i]
      /\ Append(Slots(ps), Slot(p))[Len(ps) + 1] = Slot(p)
  BY <1>2, AppendProperties
<1>4. /\ Slots(Append(ps, p)) \in Seq(HidSlots) /\ Len(Slots(Append(ps, p))) = Len(ps) + 1
      /\ \A i \in 1..Len(ps) + 1 : Slots(Append(ps, p))[i] = Slot(Append(ps, p)[i])
  BY <1>1, SlotsOf
<1>5. \A i \in 1..Len(ps) + 1 : Slots(Append(ps, p))[i] = Append(Slots(ps), Slot(p))[i]
  <2> TAKE i \in 1..Len(ps) + 1
  <2>1. CASE i \in 1..Len(ps)
    BY <2>1, <1>1, <1>3, <1>4, SlotsOf
  <2>2. CASE i = Len(ps) + 1
    BY <2>2, <1>1, <1>2, <1>3, <1>4
  <2> QED
    BY <1>2, <2>1, <2>2
<1> QED
  BY <1>3, <1>4, <1>5, SeqEqual

LEMMA SlotsTail ==
  ASSUME NEW ps \in Seq(Sendable), ps # <<>>
  PROVE  Slots(ps) # <<>> /\ Head(Slots(ps)) = Slot(Head(ps)) /\ Slots(Tail(ps)) = Tail(Slots(ps))
<1>1. /\ Tail(ps) \in Seq(Sendable) /\ Len(Tail(ps)) = Len(ps) - 1 /\ Len(ps) \in Nat \ {0}
      /\ Head(ps) = ps[1]
      /\ \A i \in 1..Len(Tail(ps)) : Tail(ps)[i] = ps[i + 1]
  BY HeadTailProperties, EmptySeq
<1>2. Slots(ps) \in Seq(HidSlots) /\ Len(Slots(ps)) = Len(ps) /\ Slots(ps) # <<>>
  BY <1>1, SlotsOf, EmptySeq
<1>3. /\ Tail(Slots(ps)) \in Seq(HidSlots) /\ Len(Tail(Slots(ps))) = Len(ps) - 1
      /\ Head(Slots(ps)) = Slots(ps)[1]
      /\ \A i \in 1..Len(ps) - 1 : Tail(Slots(ps))[i] = Slots(ps)[i + 1]
  BY <1>2, HeadTailProperties
<1>4. /\ Slots(Tail(ps)) \in Seq(HidSlots) /\ Len(Slots(Tail(ps))) = Len(ps) - 1
      /\ \A i \in 1..Len(ps) - 1 : Slots(Tail(ps))[i] = Slot(ps[i + 1])
  BY <1>1, SlotsOf
<1>5. \A i \in 1..Len(ps) : Slots(ps)[i] = Slot(ps[i])
  BY SlotsOf
<1>6. \A i \in 1..Len(ps) - 1 : Tail(Slots(ps))[i] = Slots(Tail(ps))[i]
  BY <1>1, <1>3, <1>4, <1>5
<1> QED
  BY <1>1, <1>2, <1>3, <1>4, <1>5, <1>6, SeqEqual

LEMMA SlotsNone == Slots(<<>>) = <<>>
  BY EmptySeq, SlotsOf

(***************************************************************************)
(* The motion in a ring                                                    *)
(***************************************************************************)

Moving(slots) == {i \in DOMAIN slots : slots[i].motion > 0}

LEMMA MotionOf ==
  ASSUME NEW s \in HidSlots
  PROVE  s.motion \in Nat /\ s.motion <= MaxMotion
  BY TxAssumption DEF TxAssumption, HidSlots

LEMMA ColumnSize ==
  ASSUME NEW i, NEW n \in Nat
  PROVE  IsFiniteSet({i} \X (1..n)) /\ Cardinality({i} \X (1..n)) = n
<1>1. IsFiniteSet({i}) /\ Cardinality({i}) = 1
  BY FS_Singleton
<1>2. IsFiniteSet(1..n)
  BY FS_Interval
<1>3. Cardinality(1..n) = n
  <2>1. 1 \in Int /\ n \in Int
    OBVIOUS
  <2>2. Cardinality(1..n) = IF 1 > n THEN 0 ELSE n - 1 + 1
    BY <2>1, FS_Interval
  <2> QED
    BY <2>2
<1>4. /\ IsFiniteSet({i} \X (1..n))
      /\ Cardinality({i} \X (1..n)) = Cardinality({i}) * Cardinality(1..n)
  BY <1>1, <1>2, FS_Product
<1> QED
  BY <1>1, <1>3, <1>4

LEMMA MovingCount ==
  ASSUME NEW slots
  PROVE  WithMotion(slots) = Cardinality(Moving(slots))
  BY DEF WithMotion, Moving

LEMMA UnitsFinite ==
  ASSUME NEW slots \in Seq(HidSlots)
  PROVE  /\ IsFiniteSet(Units(slots)) /\ Motion(slots) \in Nat
         /\ IsFiniteSet(Moving(slots)) /\ WithMotion(slots) \in Nat
         /\ WithMotion(slots) <= Len(slots)
<1>1. Len(slots) \in Nat /\ DOMAIN slots = 1..Len(slots)
  BY LenProperties
<1>2. IsFiniteSet(1..Len(slots)) /\ Cardinality(1..Len(slots)) = Len(slots)
      /\ IsFiniteSet(1..MaxMotion)
  BY <1>1, FS_Interval, TxAssumption DEF TxAssumption
<1>3. IsFiniteSet((1..Len(slots)) \X (1..MaxMotion))
  BY <1>2, FS_Product
<1>4. Units(slots) \subseteq (1..Len(slots)) \X (1..MaxMotion)
  <2>1. \A i \in 1..Len(slots) : slots[i].motion \in Nat /\ slots[i].motion <= MaxMotion
    BY MotionOf, ElementOfSeq
  <2>2. \A i \in 1..Len(slots) : 1..slots[i].motion \subseteq 1..MaxMotion
    BY <2>1, TxAssumption DEF TxAssumption
  <2> QED
    BY <1>1, <2>2 DEF Units
<1>5. IsFiniteSet(Units(slots))
  BY <1>3, <1>4, FS_Subset
<1>6. Moving(slots) \subseteq 1..Len(slots)
  BY <1>1 DEF Moving
<1>7. IsFiniteSet(Moving(slots)) /\ Cardinality(Moving(slots)) <= Len(slots)
  BY <1>2, <1>6, FS_Subset
<1> QED
  BY <1>5, <1>7, FS_CardinalityType DEF Motion, WithMotion, Moving

LEMMA MotionNone == Motion(<<>>) = 0 /\ WithMotion(<<>>) = 0
<1>1. Units(<<>>) = {} /\ {i \in DOMAIN <<>> : <<>>[i].motion > 0} = {}
  BY DEF Units
<1> QED
  BY <1>1, FS_EmptySet DEF Motion, WithMotion

LEMMA MotionAppend ==
  ASSUME NEW slots \in Seq(HidSlots), NEW s \in HidSlots
  PROVE  /\ Motion(Append(slots, s)) = Motion(slots) + s.motion
         /\ WithMotion(Append(slots, s)) =
              WithMotion(slots) + IF s.motion > 0 THEN 1 ELSE 0
<1> DEFINE n == Len(slots) + 1
           more == Append(slots, s)
           new == {n} \X (1..s.motion)
<1>1. /\ more \in Seq(HidSlots) /\ Len(slots) \in Nat /\ DOMAIN slots = 1..Len(slots)
      /\ DOMAIN more = 1..n /\ more[n] = s /\ \A i \in 1..Len(slots) : more[i] = slots[i]
  BY AppendProperties, LenProperties
<1> HIDE DEF more
<1>2. s.motion \in Nat
  BY MotionOf
<1>3. 1..n = (1..Len(slots)) \cup {n} /\ n \notin 1..Len(slots)
  BY <1>1
<1>4. Units(more) = Units(slots) \cup new
  BY <1>1, <1>3 DEF Units
<1>5. Units(slots) \cap new = {}
  BY <1>1, <1>3 DEF Units
<1>6. IsFiniteSet(new) /\ Cardinality(new) = s.motion
  BY <1>2, ColumnSize
<1>7. Motion(more) = Motion(slots) + s.motion
  <2>1. Cardinality(Units(slots) \cup new) = Cardinality(Units(slots)) + Cardinality(new)
                                           - Cardinality(Units(slots) \cap new)
    BY <1>6, UnitsFinite, FS_Union
  <2>2. Cardinality(Units(slots) \cap new) = 0
    BY <1>5, FS_EmptySet
  <2>3. Motion(slots) \in Nat
    BY UnitsFinite
  <2> QED
    BY <1>2, <1>4, <1>6, <2>1, <2>2, <2>3 DEF Motion
<1>8. WithMotion(more) = WithMotion(slots) + IF s.motion > 0 THEN 1 ELSE 0
  <2>1. Moving(more) = IF s.motion > 0 THEN Moving(slots) \cup {n} ELSE Moving(slots)
    BY <1>1, <1>3 DEF Moving
  <2>2. n \notin Moving(slots)
    BY <1>1, <1>3 DEF Moving
  <2>3. Cardinality(Moving(slots) \cup {n}) = Cardinality(Moving(slots)) + 1
    BY <2>2, UnitsFinite, FS_AddElement
  <2>4. WithMotion(slots) \in Nat
    BY UnitsFinite
  <2>5. /\ WithMotion(more) = Cardinality(Moving(more))
        /\ WithMotion(slots) = Cardinality(Moving(slots))
    BY MovingCount
  <2>6. CASE s.motion > 0
    BY <2>1, <2>3, <2>5, <2>6
  <2>7. CASE ~(s.motion > 0)
    BY <2>1, <2>4, <2>5, <2>7
  <2> QED
    BY <2>6, <2>7
<1> QED
  BY <1>7, <1>8 DEF more

LEMMA MotionTail ==
  ASSUME NEW slots \in Seq(HidSlots), slots # <<>>
  PROVE  /\ Motion(slots) = Head(slots).motion + Motion(Tail(slots))
         /\ WithMotion(slots) =
              WithMotion(Tail(slots)) + IF Head(slots).motion > 0 THEN 1 ELSE 0
<1> DEFINE rest == Tail(slots)
           s == Head(slots)
           shifted == {<<u[1] + 1, u[2]>> : u \in Units(rest)}
           old == {1} \X (1..s.motion)
<1>1. /\ rest \in Seq(HidSlots) /\ Len(slots) \in Nat \ {0} /\ DOMAIN slots = 1..Len(slots)
      /\ DOMAIN rest = 1..Len(slots) - 1 /\ slots[1] = s /\ s \in HidSlots
      /\ \A i \in 1..Len(slots) - 1 : rest[i] = slots[i + 1]
  BY HeadTailProperties, LenProperties, EmptySeq
<1> HIDE DEF rest, s
<1>2. s.motion \in Nat
  BY <1>1, MotionOf
<1>3. Units(slots) = shifted \cup old
  <2>1. ASSUME NEW u \in Units(slots) PROVE u \in shifted \cup old
    <3>1. PICK i \in 1..Len(slots) : u \in {i} \X (1..slots[i].motion)
      BY <1>1 DEF Units
    <3>2. CASE i = 1
      BY <1>1, <3>1, <3>2
    <3>3. CASE i # 1
      <4>1. i - 1 \in 1..Len(slots) - 1 /\ rest[i - 1] = slots[i]
        BY <1>1, <3>3
      <4>2. <<i - 1, u[2]>> \in Units(rest)
        BY <1>1, <3>1, <4>1 DEF Units
      <4>3. u = <<(i - 1) + 1, u[2]>>
        BY <3>1
      <4> QED
        BY <4>2, <4>3
    <3> QED
      BY <3>2, <3>3
  <2>2. ASSUME NEW u \in Units(rest) PROVE <<u[1] + 1, u[2]>> \in Units(slots)
    <3>1. PICK i \in 1..Len(slots) - 1 : u \in {i} \X (1..rest[i].motion)
      BY <1>1 DEF Units
    <3>2. i + 1 \in 1..Len(slots) /\ slots[i + 1] = rest[i]
      BY <1>1
    <3> QED
      BY <1>1, <3>1, <3>2 DEF Units
  <2>3. old \subseteq Units(slots)
    BY <1>1 DEF Units
  <2> QED
    BY <2>1, <2>2, <2>3
<1>4. shifted \cap old = {}
  <2>1. \A u \in Units(rest) : u[1] \in Nat /\ u[1] >= 1
    BY <1>1 DEF Units
  <2> QED
    BY <2>1
<1>5. IsFiniteSet(shifted) /\ Cardinality(shifted) = Cardinality(Units(rest))
  <2> DEFINE f == [u \in Units(rest) |-> <<u[1] + 1, u[2]>>]
  <2>1. f \in Bijection(Units(rest), shifted)
    <3>1. f \in Surjection(Units(rest), shifted)
      BY DEF Surjection
    <3>2. ASSUME NEW u \in Units(rest), NEW v \in Units(rest), f[u] = f[v] PROVE u = v
      <4>1. u[1] + 1 = v[1] + 1 /\ u[2] = v[2]
        BY <3>2
      <4>2. /\ u = <<u[1], u[2]>> /\ v = <<v[1], v[2]>>
            /\ u[1] \in Nat /\ v[1] \in Nat
        BY <1>1 DEF Units
      <4> QED
        BY <4>1, <4>2
    <3> QED
      BY <3>1, <3>2 DEF Bijection, Injection, Surjection, IsInjective
  <2> QED
    BY <1>1, <2>1, UnitsFinite, FS_Bijection DEF ExistsBijection
<1>6. IsFiniteSet(old) /\ Cardinality(old) = s.motion
  BY <1>2, ColumnSize
<1>7. Motion(slots) = s.motion + Motion(rest)
  <2>1. Cardinality(shifted \cup old) = Cardinality(shifted) + Cardinality(old)
                                       - Cardinality(shifted \cap old)
    BY <1>5, <1>6, FS_Union
  <2>2. Cardinality(shifted \cap old) = 0
    BY <1>4, FS_EmptySet
  <2>3. Motion(rest) \in Nat
    BY <1>1, UnitsFinite
  <2> QED
    BY <1>2, <1>3, <1>5, <1>6, <2>1, <2>2, <2>3 DEF Motion
<1>8. WithMotion(slots) = WithMotion(rest) + IF s.motion > 0 THEN 1 ELSE 0
  <2> DEFINE up == {i + 1 : i \in Moving(rest)}
             g == [i \in Moving(rest) |-> i + 1]
  <2>1. Moving(slots) = IF s.motion > 0 THEN up \cup {1} ELSE up
    <3>1. ASSUME NEW i \in Moving(slots), i # 1 PROVE i \in up
      <4>1. i - 1 \in 1..Len(slots) - 1 /\ rest[i - 1] = slots[i]
        BY <1>1, <3>1 DEF Moving
      <4>2. i - 1 \in Moving(rest) /\ i = (i - 1) + 1
        BY <1>1, <3>1, <4>1 DEF Moving
      <4> QED
        BY <4>2
    <3>2. ASSUME NEW i \in Moving(rest) PROVE i + 1 \in Moving(slots)
      BY <1>1 DEF Moving
    <3>3. 1 \in Moving(slots) <=> s.motion > 0
      BY <1>1 DEF Moving
    <3> QED
      BY <3>1, <3>2, <3>3
  <2>2. Moving(rest) \subseteq Nat \ {0}
    BY <1>1 DEF Moving
  <2>3. 1 \notin up
    BY <2>2
  <2>4. g \in Bijection(Moving(rest), up)
    BY <2>2 DEF Bijection, Injection, Surjection, IsInjective
  <2>5. IsFiniteSet(up) /\ Cardinality(up) = Cardinality(Moving(rest))
    BY <1>1, <2>4, UnitsFinite, FS_Bijection DEF ExistsBijection
  <2>6. Cardinality(up \cup {1}) = Cardinality(up) + 1
    BY <2>3, <2>5, FS_AddElement
  <2>7. WithMotion(rest) \in Nat
    BY <1>1, UnitsFinite
  <2>8. /\ WithMotion(slots) = Cardinality(Moving(slots))
        /\ WithMotion(rest) = Cardinality(Moving(rest))
    BY MovingCount
  <2> HIDE DEF up
  <2>9. CASE s.motion > 0
    BY <2>1, <2>5, <2>6, <2>8, <2>9
  <2>10. CASE ~(s.motion > 0)
    BY <2>1, <2>5, <2>7, <2>8, <2>10
  <2> QED
    BY <2>9, <2>10
<1> QED
  BY <1>7, <1>8 DEF rest, s

(***************************************************************************)
(* The books and the phases of the work queue                              *)
(***************************************************************************)

(* The unit of motion the input thread has in hand. *)
Tested == IF input = "tested" THEN 1 ELSE 0

(* What may be refunded, what the slots carry and what the input thread has *)
(* in hand are together no more than the user made: what is sent fits.       *)
Books ==
  /\ ring \in Seq(HidSlots) /\ Len(ring) <= MaxSlots
  /\ refund \in Nat /\ moved \in 0..MaxMotion /\ input \in {"none", "tested"}
  /\ m_pointer_inflight_count = WithMotion(ring)
  /\ refund + Motion(ring) + Tested <= moved
  /\ hid_resync_pending \subseteq {"kb", "mouse"}

Queues ==
  /\ fifo \in Seq(Sendable) /\ Len(fifo) <= FIFO_SIZE
  /\ stash \in Seq(Sendable) /\ Len(stash) <= FIFO_SIZE
  /\ radio \in Sendable

Flags ==
  /\ on \in BOOLEAN /\ visiting \in BOOLEAN /\ strayed \in BOOLEAN
  /\ quiet \in BOOLEAN /\ m_sync_tx_in_progress \in BOOLEAN
  /\ kb_owed \in BOOLEAN /\ drifted \in BOOLEAN

(* Where the queues are empty, and when the side trip has its flag up. *)
Phases ==
  /\ at \in {"none", "hop", "trip", "wait", "idle"}
  /\ at \in {"none", "idle"} => stash = <<>>
  /\ at \in {"hop", "trip"} => fifo = <<>>
  /\ m_sync_tx_in_progress => at = "wait"
  /\ ~on => fifo = <<>> /\ radio = NoPacket /\ ~kb_owed
  /\ ~on /\ at # "wait" => stash = <<>>

TxInv == Books /\ Queues /\ Flags /\ Phases

LEMMA NothingSent ==
  /\ NoPacket \in Sendable /\ NoPacket.kind = "none" /\ ~NoPacket.fresh
  /\ Packet("sync", 0) \in Sendable
  /\ Packet("sync", 0).kind = "sync" /\ ~Packet("sync", 0).fresh
<1>1. 0 \in 0..MaxMotion
  BY TxAssumption DEF TxAssumption
<1> QED
  BY <1>1, PacketType DEF NoPacket

LEMMA FrontType ==
  ASSUME NEW ps \in Seq(Sendable)
  PROVE  FrontOf(ps) \in Sendable
  BY NothingSent, HeadTailProperties DEF FrontOf

LEMMA HidKindsType ==
  ASSUME NEW slots \in Seq(HidSlots)
  PROVE  HidKinds(slots) \subseteq {"kb", "mouse"}
<1>1. \A i \in DOMAIN slots : slots[i] \in HidSlots
  BY LenProperties, ElementOfSeq
<1> QED
  BY <1>1 DEF HidKinds, HidSlots

LEMMA TxInit == Init => TxInv
<1> SUFFICES ASSUME Init
             PROVE  TxInv
  OBVIOUS
<1>1. Books
  <2>1. <<>> \in Seq(HidSlots) /\ Len(<<>>) = 0
    BY EmptySeq
  <2> QED
    BY <2>1, MotionNone, TxAssumption DEF Init, Books, Tested, TxAssumption
<1>2. Queues
  <2>1. <<>> \in Seq(Sendable) /\ Len(<<>>) = 0
    BY EmptySeq
  <2> QED
    BY <2>1, NothingSent, TxAssumption DEF Init, Queues, TxAssumption
<1>3. Phases
  BY DEF Init, Phases
<1>4. Flags
  BY DEF Init, Flags
<1> QED
  BY <1>1, <1>2, <1>3, <1>4 DEF TxInv

(* What every step that gives slots up relies on. *)
LEMMA BooksFacts ==
  ASSUME Books
  PROVE  /\ Motion(ring) \in Nat /\ WithMotion(ring) \in Nat
         /\ WithMotion(ring) <= MaxSlots /\ Len(ring) \in Nat
         /\ Tested \in {0, 1} /\ MaxSlots \in Nat \ {0} /\ MaxMotion \in Nat
<1>1. ring \in Seq(HidSlots)
  BY DEF Books
<1>2. Motion(ring) \in Nat /\ WithMotion(ring) \in Nat /\ WithMotion(ring) <= Len(ring)
      /\ Len(ring) \in Nat
  BY <1>1, UnitsFinite, LenProperties
<1> QED
  BY <1>2, TxAssumption DEF Books, Tested, TxAssumption

(* A step of one of the threads that do not make motion. *)
LEMMA BooksFrom ==
  ASSUME Books, UNCHANGED <<input, moved>>,
         ring' \in Seq(HidSlots), Len(ring') <= MaxSlots,
         m_pointer_inflight_count' = WithMotion(ring'),
         refund' \in Nat, refund' + Motion(ring') <= refund + Motion(ring),
         hid_resync_pending' \subseteq {"kb", "mouse"}
  PROVE  Books'
<1>1. Motion(ring') \in Nat /\ Tested' = Tested
  BY UnitsFinite DEF Tested
<1>2. refund' + Motion(ring') + Tested <= refund + Motion(ring) + Tested
  BY <1>1, BooksFacts DEF Books
<1>3. refund' + Motion(ring') + Tested' <= moved'
  BY <1>1, <1>2, BooksFacts DEF Books
<1> QED
  BY <1>3 DEF Books

LEMMA NoBooks ==
  /\ <<>> \in Seq(HidSlots) /\ Motion(<<>>) = 0 /\ WithMotion(<<>>) = 0
  /\ Len(<<>>) <= MaxSlots
  BY EmptySeq, MotionNone, TxAssumption DEF TxAssumption

LEMMA ResyncBooks ==
  ASSUME Books, ring' = <<>>, m_pointer_inflight_count' = 0,
         hid_resync_pending' = hid_resync_pending \cup HidKinds(ring),
         refund' \in {0, refund}, UNCHANGED <<input, moved>>
  PROVE  Books'
<1>1. hid_resync_pending' \subseteq {"kb", "mouse"}
  BY HidKindsType DEF Books
<1>2. refund' \in Nat /\ refund' + 0 <= refund + Motion(ring)
  <2>1. refund' = 0 \/ refund' = refund
    OBVIOUS
  <2>2. refund \in Nat /\ Motion(ring) \in Nat
    BY BooksFacts DEF Books
  <2> QED
    BY <2>1, <2>2
<1> QED
  BY <1>1, <1>2, NoBooks, BooksFrom

(* The slot at the tail of the ring. *)
LEMMA TailFacts ==
  ASSUME Books, ring # <<>>
  PROVE  /\ Head(ring) \in HidSlots /\ Tail(ring) \in Seq(HidSlots)
         /\ Len(Tail(ring)) = Len(ring) - 1 /\ Len(Tail(ring)) <= MaxSlots
         /\ Motion(ring) = Head(ring).motion + Motion(Tail(ring))
         /\ WithMotion(ring) =
              WithMotion(Tail(ring)) + IF Head(ring).motion > 0 THEN 1 ELSE 0
         /\ Motion(Tail(ring)) \in Nat /\ WithMotion(Tail(ring)) \in Nat
         /\ Head(ring).motion \in Nat
<1>1. /\ ring \in Seq(HidSlots) /\ Head(ring) \in HidSlots /\ Tail(ring) \in Seq(HidSlots)
      /\ Len(Tail(ring)) = Len(ring) - 1
  BY HeadTailProperties DEF Books
<1>2. Len(Tail(ring)) <= MaxSlots
  BY <1>1, BooksFacts DEF Books
<1> QED
  BY <1>1, <1>2, MotionTail, UnitsFinite, MotionOf

LEMMA ConsumeBooks ==
  ASSUME Books, NEW failed \in BOOLEAN, motion_ring_consume(failed),
         UNCHANGED <<input, moved>>
  PROVE  Books'
<1>1. CASE ring = <<>>
  <2>1. UNCHANGED books
    BY <1>1 DEF motion_ring_consume
  <2> QED
    BY <2>1 DEF books, Books, Tested
<1>2. CASE ring # <<>>
  <2>1. /\ ring' = Tail(ring)
        /\ m_pointer_inflight_count' =
             IF Head(ring).motion > 0 /\ m_pointer_inflight_count > 0
               THEN m_pointer_inflight_count - 1 ELSE m_pointer_inflight_count
        /\ refund' = IF failed THEN refund + Head(ring).motion ELSE refund
        /\ hid_resync_pending' =
             hid_resync_pending \cup IF failed THEN HidKinds(<<Head(ring)>>) ELSE {}
    BY <1>2 DEF motion_ring_consume
  <2>2. m_pointer_inflight_count' = WithMotion(ring')
    BY <1>2, <2>1, TailFacts DEF Books
  <2>3. refund' \in Nat /\ refund' + Motion(ring') <= refund + Motion(ring)
    <3> DEFINE m == Head(ring).motion
               rest == Motion(Tail(ring))
    <3>1. m \in Nat /\ rest \in Nat /\ Motion(ring) = m + rest
      BY <1>2, TailFacts
    <3>2. refund \in Nat
      BY DEF Books
    <3>3. refund' = IF failed THEN refund + m ELSE refund
      BY <2>1
    <3>4. Motion(ring') = rest
      BY <2>1
    <3> HIDE DEF m, rest
    <3> QED
      BY <3>1, <3>2, <3>3, <3>4
  <2>4. hid_resync_pending' \subseteq {"kb", "mouse"}
    <3>1. <<Head(ring)>> \in Seq(HidSlots)
      BY <1>2, TailFacts
    <3> QED
      BY <2>1, <3>1, HidKindsType DEF Books
  <2> QED
    BY <1>2, <2>1, <2>2, <2>3, <2>4, TailFacts, BooksFrom
<1> QED
  BY <1>1, <1>2

(* A full FIFO is flushed by a failure: the slot at the tail is booked, the *)
(* others are given up.                                                     *)
LEMMA FlushBooks ==
  ASSUME Books, ring' = <<>>, m_pointer_inflight_count' = 0,
         refund' = refund + IF ring = <<>> THEN 0 ELSE Head(ring).motion,
         hid_resync_pending' = hid_resync_pending \cup HidKinds(ring),
         UNCHANGED <<input, moved>>
  PROVE  Books'
<1>1. hid_resync_pending' \subseteq {"kb", "mouse"}
  BY HidKindsType DEF Books
<1>2. refund' \in Nat /\ refund' <= refund + Motion(ring)
  <2>1. CASE ring = <<>>
    BY <2>1, BooksFacts DEF Books
  <2>2. CASE ring # <<>>
    BY <2>2, TailFacts DEF Books
  <2> QED
    BY <2>1, <2>2
<1>3. refund' + Motion(ring') <= refund + Motion(ring)
  BY <1>2, NoBooks
<1> QED
  BY <1>1, <1>2, <1>3, NoBooks, BooksFrom

LEMMA BooksAside ==
  ASSUME Books, UNCHANGED <<books, input, moved>>
  PROVE  Books'
  BY DEF Books, books, Tested

(***************************************************************************)
(* Sending                                                                 *)
(***************************************************************************)

(* What Submit does, whatever kind it sends; p is the packet. *)
Submits(k, pending, p) ==
  LET slots == IF esb_tx_full THEN <<>> ELSE ring
      packets == IF esb_tx_full THEN <<>> ELSE After(k, fifo)
  IN
  /\ p \in Sendable /\ p.kind = k /\ (p.fresh <=> k = "kb")
  /\ Append(slots, Slot(p)) \in Seq(HidSlots) /\ Len(Append(slots, Slot(p))) <= MaxSlots
  /\ ring' = Append(slots, Slot(p))
  /\ m_pointer_inflight_count' = WithMotion(ring')
  /\ Motion(ring') = Motion(slots) + p.motion
  /\ hid_resync_pending' = pending \cup IF esb_tx_full THEN HidKinds(ring) ELSE {}
  /\ packets \in Seq(Sendable) /\ Len(Append(packets, p)) <= FIFO_SIZE
  /\ fifo' = IF on THEN Append(packets, p) ELSE packets
  /\ radio' = IF on /\ radio = NoPacket THEN Head(fifo')
              ELSE Aged(k, radio)

LEMMA QueueFacts ==
  ASSUME Queues
  PROVE  /\ Len(fifo) \in Nat /\ Len(stash) \in Nat /\ FIFO_SIZE \in Nat \ {0}
         /\ \A ps \in Seq(Sendable) : Len(ps) = 0 => ps = <<>>
  BY LenProperties, EmptySeq, TxAssumption DEF Queues, TxAssumption

LEMMA SubmitsFrom ==
  ASSUME Books, Queues, NEW k \in {"kb", "mouse", "other"}, NEW motion \in {0, 1},
         NEW pending, Submit(k, motion, pending),
         motion + refund <= MaxMotion \/ (motion = 0 /\ k # "mouse")
  PROVE  \E applied \in IF k = "mouse" THEN {0, refund} ELSE {0} :
           LET p == Packet(k, motion + applied)
           IN Submits(k, pending, p) /\ p.motion = motion + applied
<1>1. PICK applied \in (IF k = "mouse" THEN {0, refund} ELSE {0}) :
        LET p == Packet(k, motion + applied)
            slots == IF esb_tx_full THEN <<>> ELSE ring
            packets == IF esb_tx_full THEN <<>> ELSE After(k, fifo)
        IN
        /\ esb_tx_full \/ Len(ring) < MaxSlots
        /\ ring' = Append(slots, Slot(p))
        /\ m_pointer_inflight_count' =
             (IF esb_tx_full THEN 0 ELSE m_pointer_inflight_count)
               + IF p.motion > 0 THEN 1 ELSE 0
        /\ hid_resync_pending' =
             pending \cup IF esb_tx_full THEN HidKinds(ring) ELSE {}
        /\ fifo' = IF on THEN Append(packets, p) ELSE packets
        /\ radio' = IF on /\ radio = NoPacket THEN Head(fifo')
                    ELSE Aged(k, radio)
  BY DEF Submit
<1> DEFINE p == Packet(k, motion + applied)
           slots == IF esb_tx_full THEN <<>> ELSE ring
           packets == IF esb_tx_full THEN <<>> ELSE After(k, fifo)
<1>2. motion + applied \in 0..MaxMotion
  <2>1. refund \in Nat /\ MaxMotion \in Nat
    BY BooksFacts DEF Books
  <2>2. applied = 0 \/ (applied = refund /\ k = "mouse")
    OBVIOUS
  <2> QED
    BY <2>1, <2>2
<1>3. p \in Sendable /\ p.kind = k /\ (p.fresh <=> k = "kb") /\ p.motion = motion + applied
  BY <1>2, PacketType
<1>4. Slot(p) \in HidSlots /\ Slot(p).motion = p.motion
  BY <1>3, SlotType
<1>5. slots \in Seq(HidSlots) /\ Len(slots) < MaxSlots
      /\ WithMotion(slots) = IF esb_tx_full THEN 0 ELSE m_pointer_inflight_count
  <2>1. CASE esb_tx_full
    <3>1. Len(<<>>) = 0 /\ MaxSlots \in Nat \ {0}
      BY EmptySeq, BooksFacts
    <3> QED
      BY <2>1, <3>1, NoBooks
  <2>2. CASE ~esb_tx_full
    BY <1>1, <2>2 DEF Books
  <2> QED
    BY <2>1, <2>2
<1>6. packets \in Seq(Sendable) /\ Len(packets) < FIFO_SIZE
  <2>1. CASE esb_tx_full
    BY <2>1, EmptySeq, QueueFacts
  <2>2. CASE ~esb_tx_full
    <3>1. packets = After(k, fifo) /\ fifo \in Seq(Sendable)
      BY <2>2 DEF Queues
    <3>2. packets \in Seq(Sendable) /\ Len(packets) = Len(fifo)
      BY <3>1, AfterOf
    <3> QED
      BY <2>2, <3>2, QueueFacts DEF esb_tx_full
  <2> QED
    BY <2>1, <2>2
<1> HIDE DEF p, slots, packets
<1>7. Append(slots, Slot(p)) \in Seq(HidSlots) /\ Len(Append(slots, Slot(p))) <= MaxSlots
  <2>1. Len(Append(slots, Slot(p))) = Len(slots) + 1 /\ Len(slots) \in Nat
    BY <1>4, <1>5, AppendProperties, LenProperties
  <2> QED
    BY <1>4, <1>5, <2>1, BooksFacts, AppendProperties
<1>8. Len(Append(packets, p)) <= FIFO_SIZE
  <2>1. Len(Append(packets, p)) = Len(packets) + 1 /\ Len(packets) \in Nat
    BY <1>3, <1>6, AppendProperties, LenProperties
  <2> QED
    BY <1>6, <2>1, QueueFacts
<1>9. /\ Motion(Append(slots, Slot(p))) = Motion(slots) + p.motion
      /\ WithMotion(Append(slots, Slot(p))) =
           WithMotion(slots) + IF p.motion > 0 THEN 1 ELSE 0
  BY <1>4, <1>5, MotionAppend
<1>10. /\ ring' = Append(slots, Slot(p))
       /\ m_pointer_inflight_count' =
            (IF esb_tx_full THEN 0 ELSE m_pointer_inflight_count)
              + IF p.motion > 0 THEN 1 ELSE 0
       /\ hid_resync_pending' =
            pending \cup IF esb_tx_full THEN HidKinds(ring) ELSE {}
       /\ fifo' = IF on THEN Append(packets, p) ELSE packets
       /\ radio' = IF on /\ radio = NoPacket THEN Head(fifo')
                   ELSE Aged(k, radio)
  BY <1>1 DEF p, slots, packets
<1>11. m_pointer_inflight_count' = WithMotion(ring')
  BY <1>5, <1>9, <1>10
<1>12. Submits(k, pending, p)
  BY <1>3, <1>6, <1>7, <1>8, <1>9, <1>10, <1>11, Zenon DEF Submits, slots, packets
<1>13. WITNESS applied \in IF k = "mouse" THEN {0, refund} ELSE {0}
<1> QED
  BY <1>3, <1>12 DEF p

(* What is sent, refunds included, is motion the user has made. *)
LEMMA SubmitBooks ==
  ASSUME Books, Queues, NEW k \in {"kb", "mouse", "other"}, NEW motion \in {0, 1},
         NEW pending \in SUBSET {"kb", "mouse"}, Submit(k, motion, pending),
         motion = 0 \/ k = "mouse",
         moved' \in 0..MaxMotion, input' \in {"none", "tested"},
         refund + Motion(ring) + motion + Tested' <= moved'
  PROVE  Books'
<1>1. motion + refund <= MaxMotion \/ (motion = 0 /\ k # "mouse")
  <2>1. motion + refund <= moved' /\ moved' <= MaxMotion
    <3>1. Tested' \in {0, 1} /\ Motion(ring) \in Nat /\ refund \in Nat /\ MaxMotion \in Nat
      BY BooksFacts DEF Tested, Books
    <3> QED
      BY <3>1
  <2>2. motion + refund \in Nat /\ moved' \in Nat /\ MaxMotion \in Nat
    BY BooksFacts DEF Books
  <2> QED
    BY <2>1, <2>2
<1>2. PICK applied \in (IF k = "mouse" THEN {0, refund} ELSE {0}) :
        LET p == Packet(k, motion + applied)
        IN Submits(k, pending, p) /\ p.motion = motion + applied
  BY <1>1, SubmitsFrom
<1> DEFINE p == Packet(k, motion + applied)
           slots == IF esb_tx_full THEN <<>> ELSE ring
<1>3. Submits(k, pending, p) /\ p.motion = motion + applied
  BY <1>2
<1> HIDE DEF p
<1>4. /\ ring' \in Seq(HidSlots) /\ Len(ring') <= MaxSlots
      /\ m_pointer_inflight_count' = WithMotion(ring')
      /\ Motion(ring') = Motion(slots) + p.motion
      /\ hid_resync_pending' = pending \cup IF esb_tx_full THEN HidKinds(ring) ELSE {}
  BY <1>3 DEF Submits
<1>5. refund' = IF k = "mouse" THEN 0 ELSE refund
  BY DEF Submit
<1>6. Motion(slots) \in Nat /\ Motion(slots) <= Motion(ring)
  BY NoBooks, BooksFacts
<1>7. applied = 0 \/ (applied = refund /\ k = "mouse")
  OBVIOUS
<1>8. refund' \in Nat /\ refund' + Motion(ring') <= refund + Motion(ring) + motion
  BY <1>3, <1>4, <1>5, <1>6, <1>7, BooksFacts DEF Books
<1>9. refund' + Motion(ring') + Tested' <= moved'
  <2>1. Tested' \in {0, 1} /\ Motion(ring) \in Nat /\ Motion(ring') \in Nat
        /\ refund \in Nat /\ moved' \in Nat
    BY <1>4, BooksFacts, UnitsFinite DEF Tested, Books
  <2> QED
    BY <1>8, <2>1
<1>10. hid_resync_pending' \subseteq {"kb", "mouse"}
  BY <1>4, HidKindsType DEF Books
<1> QED
  BY <1>4, <1>8, <1>9, <1>10 DEF Books

LEMMA NoQueue ==
  /\ <<>> \in Seq(Sendable) /\ Len(<<>>) = 0 /\ Len(<<>>) <= FIFO_SIZE
  BY EmptySeq, TxAssumption DEF TxAssumption

LEMMA SubmitQueues ==
  ASSUME Books, Queues, NEW k \in {"kb", "mouse", "other"}, NEW motion \in {0, 1},
         NEW pending, Submit(k, motion, pending),
         motion + refund <= MaxMotion \/ (motion = 0 /\ k # "mouse"), UNCHANGED stash
  PROVE  Queues' /\ (~on => fifo' \in {<<>>, After(k, fifo)})
<1>1. PICK applied \in (IF k = "mouse" THEN {0, refund} ELSE {0}) :
        LET p == Packet(k, motion + applied)
        IN Submits(k, pending, p) /\ p.motion = motion + applied
  BY SubmitsFrom
<1> DEFINE p == Packet(k, motion + applied)
           packets == IF esb_tx_full THEN <<>> ELSE After(k, fifo)
<1>2. Submits(k, pending, p)
  BY <1>1
<1> HIDE DEF p
<1>3. /\ p \in Sendable /\ packets \in Seq(Sendable)
      /\ Len(Append(packets, p)) <= FIFO_SIZE
      /\ fifo' = IF on THEN Append(packets, p) ELSE packets
      /\ radio' = IF on /\ radio = NoPacket THEN Head(fifo')
                  ELSE Aged(k, radio)
  BY <1>2 DEF Submits
<1> HIDE DEF packets
<1>4. /\ Append(packets, p) \in Seq(Sendable) /\ Append(packets, p) # <<>>
      /\ Len(packets) <= FIFO_SIZE /\ Head(Append(packets, p)) \in Sendable
  <2>1. /\ Append(packets, p) \in Seq(Sendable)
        /\ Len(Append(packets, p)) = Len(packets) + 1 /\ Len(packets) \in Nat
    BY <1>3, AppendProperties, LenProperties
  <2>2. Append(packets, p) # <<>>
    BY <2>1, NoQueue
  <2> QED
    BY <1>3, <2>1, <2>2, QueueFacts, HeadTailProperties
<1>5. Aged(k, radio) \in Sendable
  BY AgedOf DEF Queues
<1>6. fifo' \in Seq(Sendable) /\ Len(fifo') <= FIFO_SIZE /\ radio' \in Sendable
  BY <1>3, <1>4, <1>5
<1> QED
  BY <1>3, <1>6 DEF Queues, packets

(***************************************************************************)
(* The queues                                                              *)
(***************************************************************************)

(* The stash goes back, or is dropped with the slots. *)
LEMMA RestoreQueues ==
  ASSUME Queues, esb_restore_tx_or_drop
  PROVE  /\ stash' = <<>> /\ fifo' \in Seq(Sendable) /\ Len(fifo') <= FIFO_SIZE
         /\ ~on => fifo' = fifo
<1>1. CASE fifo' = fifo \o stash /\ on /\ Len(fifo) + Len(stash) <= FIFO_SIZE
  BY <1>1, ConcatProperties DEF Queues, esb_restore_tx_or_drop
<1>2. CASE fifo' = fifo
  BY <1>2 DEF Queues, esb_restore_tx_or_drop
<1> QED
  BY <1>1, <1>2 DEF esb_restore_tx_or_drop

LEMMA RestoreBooks ==
  ASSUME Books, esb_restore_tx_or_drop, refund' \in {0, refund},
         UNCHANGED <<input, moved>>
  PROVE  Books'
<1>1. CASE UNCHANGED <<ring, m_pointer_inflight_count, hid_resync_pending>>
  <2>1. refund' = 0 \/ refund' = refund
    OBVIOUS
  <2>2. refund \in Nat /\ Motion(ring) \in Nat
    BY BooksFacts DEF Books
  <2>3. refund' \in Nat /\ refund' + Motion(ring') <= refund + Motion(ring)
    BY <1>1, <2>1, <2>2
  <2> QED
    BY <1>1, <2>3, BooksFrom DEF Books
<1>2. CASE tx_bookkeeping_resync
  BY <1>2, ResyncBooks DEF tx_bookkeeping_resync
<1> QED
  BY <1>1, <1>2 DEF esb_restore_tx_or_drop

LEMMA DriftsType ==
  ASSUME NEW cause \in BOOLEAN, drifted \in BOOLEAN, Drifts(cause)
  PROVE  drifted' \in BOOLEAN
  BY DEF Drifts

(* The motion the input thread brings: one unit, which it has made before. *)
LEMMA InputMotion ==
  ASSUME Books, input = "tested"
  PROVE  refund + Motion(ring) + 1 <= moved /\ 1 + refund <= MaxMotion
<1>1. refund + Motion(ring) + 1 <= moved
  BY DEF Books, Tested
<1>2. refund \in Nat /\ Motion(ring) \in Nat /\ moved <= MaxMotion /\ moved \in Nat /\ MaxMotion \in Nat
  BY BooksFacts DEF Books
<1> QED
  BY <1>1, <1>2

LEMMA BooksSend ==
  ASSUME Books, Queues, NEW k \in {"kb", "mouse", "other", "shell"}, esb_transport_send(k)
  PROVE  Books' /\ Queues'
<1> DEFINE motion == IF k = "mouse" THEN 1 ELSE 0
<1>1. /\ Submit(PacketKind(k), motion, hid_resync_pending)
      /\ k # "mouse" \/ moved < MaxMotion
      /\ moved' = IF k = "mouse" THEN moved + 1 ELSE moved
      /\ UNCHANGED <<stash, input>>
  BY DEF esb_transport_send
<1>2. PacketKind(k) \in {"kb", "mouse", "other"} /\ (PacketKind(k) = "mouse" <=> k = "mouse")
  BY DEF PacketKind
<1>3. /\ refund \in Nat /\ Motion(ring) \in Nat /\ moved \in Nat /\ MaxMotion \in Nat
      /\ moved <= MaxMotion /\ Tested \in {0, 1}
  BY BooksFacts DEF Books
<1>4. Tested' = Tested /\ refund + Motion(ring) + Tested <= moved
  BY <1>1 DEF Tested, Books
<1>5. motion \in {0, 1} /\ (motion = 0 \/ PacketKind(k) = "mouse") /\ moved' = moved + motion
  BY <1>1, <1>2, <1>3
<1>6. moved' \in 0..MaxMotion /\ refund + Motion(ring) + motion + Tested' <= moved'
  BY <1>1, <1>3, <1>4, <1>5
<1>7. motion + refund <= MaxMotion \/ (motion = 0 /\ PacketKind(k) # "mouse")
  BY <1>2, <1>3, <1>4, <1>6
<1> HIDE DEF motion
<1>8. input' \in {"none", "tested"} /\ hid_resync_pending \in SUBSET {"kb", "mouse"}
  BY <1>1 DEF Books
<1>9. Books'
  BY <1>1, <1>2, <1>5, <1>6, <1>8, SubmitBooks
<1>10. Queues'
  BY <1>1, <1>2, <1>5, <1>7, SubmitQueues
<1> QED
  BY <1>9, <1>10

LEMMA BooksInput ==
  ASSUME Books, Queues, InputSends
  PROVE  Books' /\ Queues'
<1>1. input = "tested" /\ input' = "none" /\ UNCHANGED stash
  BY DEF InputSends
<1>2. /\ refund \in Nat /\ Motion(ring) \in Nat /\ moved \in Nat /\ MaxMotion \in Nat
      /\ moved <= MaxMotion /\ Tested' = 0
      /\ refund + Motion(ring) + 1 <= moved /\ 1 + refund <= MaxMotion
  BY <1>1, BooksFacts, InputMotion DEF Books, Tested
<1>3. CASE moved' = moved - 1 /\ UNCHANGED <<fifo, radio, books>>
  <2>1. moved' \in 0..MaxMotion /\ refund + Motion(ring) + 0 <= moved'
    BY <1>2, <1>3
  <2>2. Books'
    BY <1>1, <1>2, <1>3, <2>1 DEF Books, books
  <2> QED
    BY <1>1, <1>3, <2>2 DEF Queues
<1>4. CASE Submit("mouse", 1, hid_resync_pending) /\ UNCHANGED moved
  <2>1. moved' \in 0..MaxMotion /\ refund + Motion(ring) + 1 + Tested' <= moved'
    BY <1>2, <1>4
  <2>2. hid_resync_pending \in SUBSET {"kb", "mouse"}
    BY DEF Books
  <2>3. Books'
    BY <1>1, <1>4, <2>1, <2>2, SubmitBooks
  <2>4. Queues'
    BY <1>1, <1>2, <1>4, SubmitQueues
  <2> QED
    BY <2>3, <2>4
<1> QED
  BY <1>3, <1>4 DEF InputSends

LEMMA BooksResync ==
  ASSUME Books, Queues, NEW k \in {"kb", "mouse"}, hid_resync_work_fn(k)
  PROVE  Books' /\ Queues'
<1>1. UNCHANGED <<stash, input, moved>> /\ Tested' = Tested
  BY DEF hid_resync_work_fn, Tested
<1>2. hid_resync_pending \ {k} \in SUBSET {"kb", "mouse"}
  BY DEF Books
<1>3. CASE Submit(k, 0, hid_resync_pending \ {k})
  <2>1. /\ moved' \in 0..MaxMotion /\ refund + Motion(ring) + 0 + Tested' <= moved'
        /\ input' \in {"none", "tested"}
    BY <1>1, BooksFacts DEF Books
  <2>2. refund \in Nat /\ Motion(ring) \in Nat /\ Tested \in {0, 1} /\ moved <= MaxMotion
        /\ moved \in Nat /\ MaxMotion \in Nat
    BY BooksFacts DEF Books
  <2>3. 0 + refund <= MaxMotion
    BY <1>1, <2>1, <2>2
  <2>4. Books'
    BY <1>2, <1>3, <2>1, SubmitBooks
  <2>5. Queues'
    BY <1>1, <1>3, <2>3, SubmitQueues
  <2> QED
    BY <2>4, <2>5
<1>4. CASE /\ hid_resync_pending' = hid_resync_pending \ {k}
           /\ UNCHANGED <<fifo, radio, ring, m_pointer_inflight_count, refund>>
  BY <1>1, <1>2, <1>4 DEF Books, Queues
<1> QED
  BY <1>3, <1>4 DEF hid_resync_work_fn

LEMMA BooksIdle ==
  ASSUME Books, Queues, send_idle_packet
  PROVE  Books' /\ Queues'
<1>1. UNCHANGED <<stash, input, moved>> /\ Tested' = Tested
  BY DEF send_idle_packet, Tested
<1>2. CASE Submit("other", 0, hid_resync_pending)
  <2>1. /\ refund \in Nat /\ Motion(ring) \in Nat /\ Tested \in {0, 1} /\ moved <= MaxMotion
        /\ moved \in Nat /\ MaxMotion \in Nat /\ refund + Motion(ring) + Tested <= moved
    BY BooksFacts DEF Books
  <2>2. /\ moved' \in 0..MaxMotion /\ refund + Motion(ring) + 0 + Tested' <= moved'
        /\ input' \in {"none", "tested"} /\ hid_resync_pending \in SUBSET {"kb", "mouse"}
    BY <1>1, <2>1 DEF Books
  <2>3. 0 + refund <= MaxMotion
    BY <2>1
  <2>4. Books'
    BY <1>2, <2>2, SubmitBooks
  <2>5. Queues'
    BY <1>1, <1>2, <2>3, SubmitQueues
  <2> QED
    BY <2>4, <2>5
<1>3. CASE UNCHANGED <<fifo, radio, books>>
  BY <1>1, <1>3 DEF Books, Queues, books
<1> QED
  BY <1>2, <1>3 DEF send_idle_packet

LEMMA BooksStep == TxInv /\ [Next]_vars => Books'
<1> SUFFICES ASSUME TxInv, [Next]_vars PROVE Books'
  OBVIOUS
<1> USE DEF TxInv
<1>1. ASSUME NEW k \in {"kb", "mouse", "other", "shell"}, esb_transport_send(k)
      PROVE  Books'
  BY <1>1, BooksSend
<1>2. CASE InputTests
  <2>1. /\ input = "none" /\ input' = "tested" /\ moved' = moved + 1 /\ moved < MaxMotion
        /\ UNCHANGED books
    BY <1>2 DEF InputTests
  <2>2. Tested = 0 /\ Tested' = 1
    BY <2>1 DEF Tested
  <2>3. moved' \in 0..MaxMotion /\ refund + Motion(ring) + 1 <= moved'
    BY <2>1, <2>2, BooksFacts DEF Books
  <2> QED
    BY <2>1, <2>2, <2>3 DEF Books, books
<1>3. CASE InputSends
  BY <1>3, BooksInput
<1>4. ASSUME NEW k \in {"kb", "mouse"}, hid_resync_work_fn(k) PROVE Books'
  BY <1>4, BooksResync
<1>5. CASE esb_transport_flush_tx
  BY <1>5, ResyncBooks DEF esb_transport_flush_tx, tx_bookkeeping_resync
<1>6. CASE TxAcked
  <2>1. UNCHANGED books \/ motion_ring_consume(FALSE)
    BY <1>6 DEF TxAcked
  <2>2. UNCHANGED <<input, moved>>
    BY <1>6 DEF TxAcked
  <2> QED
    BY <2>1, <2>2, BooksAside, ConsumeBooks
<1>7. CASE TxFailed
  <2>1. UNCHANGED <<input, moved>>
    BY <1>7 DEF TxFailed
  <2>2. CASE UNCHANGED books \/ motion_ring_consume(TRUE)
    BY <2>1, <2>2, BooksAside, ConsumeBooks
  <2>3. CASE ~(UNCHANGED books \/ motion_ring_consume(TRUE))
    BY <1>7, <2>1, <2>3, FlushBooks DEF TxFailed
  <2> QED
    BY <2>2, <2>3
<1>8. CASE HopRetunes \/ HopBusy \/ TripRefused \/ TripReturns
  <2>1. esb_restore_tx_or_drop /\ UNCHANGED <<input, moved>>
    BY <1>8 DEF HopRetunes, HopBusy, TripRefused, TripReturns, Back
  <2>2. refund' \in {0, refund}
    BY <1>8 DEF HopRetunes, HopBusy, TripRefused, TripReturns, Back
  <2> QED
    BY <2>1, <2>2, RestoreBooks
<1>9. CASE HopStashes \/ QuietPasses \/ TripStashes \/ TripSends
  BY <1>9, BooksAside DEF HopStashes, QuietPasses, TripStashes, TripSends
<1>10. CASE esb_transport_on_slot_stop \/ esb_transport_on_slot_start
  BY <1>10, BooksAside DEF esb_transport_on_slot_stop, esb_transport_on_slot_start
<1>11. CASE UNCHANGED vars
  BY <1>11, BooksAside DEF vars
<1>12. CASE send_idle_packet
  BY <1>12, BooksIdle
<1> QED
  BY <1>1, <1>2, <1>3, <1>4, <1>5, <1>6, <1>7, <1>8, <1>9, <1>10, <1>11, <1>12 DEF Next

LEMMA QueuesStep == TxInv /\ [Next]_vars => Queues'
<1> SUFFICES ASSUME TxInv, [Next]_vars PROVE Queues'
  OBVIOUS
<1> USE DEF TxInv
<1>1. ASSUME NEW k \in {"kb", "mouse", "other", "shell"}, esb_transport_send(k)
      PROVE  Queues'
  BY <1>1, BooksSend
<1>2. CASE InputSends
  BY <1>2, BooksInput
<1>3. ASSUME NEW k \in {"kb", "mouse"}, hid_resync_work_fn(k) PROVE Queues'
  BY <1>3, BooksResync
<1>4. CASE esb_transport_flush_tx
  BY <1>4, NoQueue DEF esb_transport_flush_tx, Queues
<1>5. CASE TxAcked
  <2>1. fifo' = (IF fifo = <<>> THEN <<>> ELSE Tail(fifo)) /\ radio' = FrontOf(fifo')
        /\ UNCHANGED stash
    BY <1>5 DEF TxAcked
  <2>2. fifo' \in Seq(Sendable) /\ Len(fifo') <= FIFO_SIZE
    <3>1. CASE fifo = <<>>
      BY <2>1, <3>1, NoQueue
    <3>2. CASE fifo # <<>>
      <4>1. Tail(fifo) \in Seq(Sendable) /\ Len(Tail(fifo)) = Len(fifo) - 1
        BY <3>2, HeadTailProperties DEF Queues
      <4> QED
        BY <2>1, <3>2, <4>1, QueueFacts DEF Queues
    <3> QED
      BY <3>1, <3>2
  <2> QED
    BY <2>1, <2>2, FrontType DEF Queues
<1>6. CASE TxFailed
  <2>1. fifo' \in {<<>>, fifo} /\ radio' = NoPacket /\ UNCHANGED stash
    BY <1>6 DEF TxFailed
  <2> QED
    BY <2>1, NoQueue, NothingSent DEF Queues
<1>7. CASE HopStashes \/ TripStashes
  <2>1. Stash /\ UNCHANGED radio
    BY <1>7 DEF HopStashes, TripStashes
  <2> QED
    BY <2>1, NoQueue DEF Stash, Queues
<1>8. CASE HopRetunes \/ HopBusy \/ TripRefused \/ TripReturns
  <2>1. esb_restore_tx_or_drop /\ radio' \in {NoPacket, radio, FrontOf(fifo')}
    BY <1>8 DEF HopRetunes, HopBusy, TripRefused, TripReturns, Back
  <2>2. /\ stash' = <<>> /\ fifo' \in Seq(Sendable) /\ Len(fifo') <= FIFO_SIZE
    BY <2>1, RestoreQueues
  <2> QED
    BY <2>1, <2>2, NoQueue, NothingSent, FrontType DEF Queues
<1>9. CASE TripSends
  <2>1. fifo = <<>> /\ fifo' = Append(fifo, Packet("sync", 0)) /\ radio' = FrontOf(fifo')
        /\ UNCHANGED stash
    BY <1>9 DEF TripSends, Phases
  <2>2. fifo' = <<Packet("sync", 0)>>
    BY <2>1
  <2>3. fifo' \in Seq(Sendable) /\ Len(fifo') = 1
    BY <2>2, NothingSent
  <2>4. radio' \in Sendable
    BY <2>1, <2>3, FrontType
  <2>5. Len(fifo') <= FIFO_SIZE
    BY <2>3, TxAssumption DEF TxAssumption
  <2> QED
    BY <2>1, <2>3, <2>4, <2>5 DEF Queues
<1>10. CASE esb_transport_on_slot_stop
  BY <1>10, NoQueue, NothingSent DEF esb_transport_on_slot_stop, Queues
<1>11. CASE InputTests \/ QuietPasses \/ esb_transport_on_slot_start \/ UNCHANGED vars
  BY <1>11 DEF InputTests, QuietPasses, esb_transport_on_slot_start, vars, Queues
<1>12. CASE send_idle_packet
  BY <1>12, BooksIdle
<1> QED
  BY <1>1, <1>2, <1>3, <1>4, <1>5, <1>6, <1>7, <1>8, <1>9, <1>10, <1>11, <1>12 DEF Next

LEMMA FlagsStep == TxInv /\ [Next]_vars => Flags'
<1> SUFFICES ASSUME TxInv, [Next]_vars PROVE Flags'
  OBVIOUS
<1> USE DEF TxInv
<1>1. ASSUME NEW k \in {"kb", "mouse", "other", "shell"}, esb_transport_send(k)
      PROVE  Flags'
  BY <1>1 DEF esb_transport_send, Submit, Drifts, tuning, Flags
<1>2. CASE InputTests
  BY <1>2 DEF InputTests, tuning, Flags
<1>3. CASE InputSends
  BY <1>3 DEF InputSends, Submit, Drifts, Flags
<1>4. ASSUME NEW k \in {"kb", "mouse"}, hid_resync_work_fn(k) PROVE Flags'
  BY <1>4 DEF hid_resync_work_fn, Submit, Drifts, tuning, Flags
<1>5. CASE esb_transport_flush_tx
  BY <1>5 DEF esb_transport_flush_tx, Drifts, tuning, Flags
<1>6. CASE TxAcked
  BY <1>6 DEF TxAcked, Drifts, tuning, Flags
<1>7. CASE TxFailed
  BY <1>7 DEF TxFailed, Drifts, tuning, Flags
<1>8. CASE HopRetunes
  BY <1>8 DEF HopRetunes, Drifts, Flags
<1>9. CASE HopBusy
  BY <1>9 DEF HopBusy, Drifts, Flags
<1>10. CASE TripRefused
  BY <1>10 DEF TripRefused, Drifts, Flags
<1>11. CASE TripReturns
  BY <1>11 DEF TripReturns, Back, Drifts, Flags
<1>12. CASE HopStashes \/ QuietPasses \/ TripStashes \/ TripSends
  BY <1>12 DEF HopStashes, QuietPasses, TripStashes, TripSends, Flags
<1>13. CASE esb_transport_on_slot_stop
  BY <1>13 DEF esb_transport_on_slot_stop, Drifts, tuning, Flags
<1>14. CASE esb_transport_on_slot_start \/ UNCHANGED vars
  BY <1>14 DEF esb_transport_on_slot_start, vars, tuning, Flags
<1>15. CASE send_idle_packet
  BY <1>15 DEF send_idle_packet, Submit, Drifts, Flags
<1> QED
  BY <1>1, <1>2, <1>3, <1>4, <1>5, <1>6, <1>7, <1>8, <1>9, <1>10, <1>11, <1>12,
     <1>13, <1>14, <1>15 DEF Next

(* The parts of Phases about queues. *)
LEMMA SubmitPhases ==
  ASSUME Queues, NEW k \in {"kb", "mouse", "other"}, NEW motion, NEW pending,
         Submit(k, motion, pending)
  PROVE  ~on /\ fifo = <<>> /\ radio = NoPacket /\ ~kb_owed
           => fifo' = <<>> /\ radio' = NoPacket /\ ~kb_owed'
<1> SUFFICES ASSUME ~on, fifo = <<>>, radio = NoPacket, ~kb_owed
             PROVE  fifo' = <<>> /\ radio' = NoPacket /\ ~kb_owed'
  OBVIOUS
<1>1. After(k, <<>>) = <<>>
  BY AfterOf, NoQueue, EmptySeq
<1>2. Aged(k, NoPacket) = NoPacket
  <2>1. ("none" = "kb") = FALSE
    OBVIOUS
  <2>2. NoPacket = [kind |-> "none", motion |-> 0, fresh |-> FALSE]
    BY <2>1 DEF NoPacket, Packet
  <2>3. NoPacket.kind = "none" /\ NoPacket.motion = 0
    BY <2>2
  <2> QED
    BY <2>2, <2>3 DEF Aged
<1> QED
  BY <1>1, <1>2 DEF Submit

LEMMA PhasesStep == TxInv /\ [Next]_vars => Phases'
<1> SUFFICES ASSUME TxInv, [Next]_vars PROVE Phases'
  OBVIOUS
<1>e. Phases /\ Flags /\ Queues
  BY DEF TxInv
<1>1. ASSUME NEW k \in {"kb", "mouse", "other", "shell"}, esb_transport_send(k)
      PROVE  Phases'
  <2>1. /\ Submit(PacketKind(k), IF k = "mouse" THEN 1 ELSE 0, hid_resync_pending)
        /\ at = "none" /\ UNCHANGED <<on, stash, at, m_sync_tx_in_progress>>
    BY <1>1 DEF esb_transport_send, tuning
  <2>2. PacketKind(k) \in {"kb", "mouse", "other"}
    BY DEF PacketKind
  <2> QED
    BY <1>e, <2>1, <2>2, SubmitPhases DEF Phases
<1>2. CASE InputSends
  <2>1. /\ at \in {"none", "wait"}
        /\ UNCHANGED <<on, stash, at, m_sync_tx_in_progress>>
    BY <1>2 DEF InputSends
  <2>2. UNCHANGED <<fifo, radio, kb_owed>> \/ Submit("mouse", 1, hid_resync_pending)
    BY <1>2 DEF InputSends
  <2>3. ~on => fifo' = <<>> /\ radio' = NoPacket /\ ~kb_owed'
    BY <1>e, <2>2, SubmitPhases DEF Phases
  <2> QED
    BY <1>e, <2>1, <2>3 DEF Phases
<1>3. ASSUME NEW k \in {"kb", "mouse"}, hid_resync_work_fn(k) PROVE Phases'
  <2>1. at = "none" /\ UNCHANGED <<on, stash, at, m_sync_tx_in_progress>>
    BY <1>3 DEF hid_resync_work_fn, tuning
  <2>2. UNCHANGED <<fifo, radio, kb_owed>> \/ Submit(k, 0, hid_resync_pending \ {k})
    BY <1>3 DEF hid_resync_work_fn
  <2>3. ~on => fifo' = <<>> /\ radio' = NoPacket /\ ~kb_owed'
    BY <1>e, <2>2, SubmitPhases DEF Phases
  <2> QED
    BY <1>e, <2>1, <2>3 DEF Phases
<1>4. CASE esb_transport_flush_tx
  BY <1>e, <1>4 DEF esb_transport_flush_tx, tuning, Phases
<1>5. CASE TxAcked
  <2>1. FrontOf(<<>>) = NoPacket
    BY DEF FrontOf
  <2>2. /\ fifo = <<>> => fifo' = <<>> /\ radio' = NoPacket
        /\ UNCHANGED <<on, stash, at>> /\ ~m_sync_tx_in_progress' /\ radio # NoPacket
    BY <1>5, <2>1 DEF TxAcked, tuning
  <2> QED
    BY <1>e, <2>2 DEF Phases
<1>6. CASE TxFailed
  <2>1. /\ fifo' \in {<<>>, fifo} /\ radio # NoPacket
        /\ UNCHANGED <<on, stash, at>> /\ ~m_sync_tx_in_progress'
    BY <1>6 DEF TxFailed, tuning
  <2> QED
    BY <1>e, <2>1 DEF Phases
<1>7. CASE HopStashes \/ TripStashes
  <2>1. /\ Stash /\ at = "none" /\ at' \in {"hop", "trip"}
        /\ UNCHANGED <<on, radio, m_sync_tx_in_progress, kb_owed>>
    BY <1>7 DEF HopStashes, TripStashes
  <2> QED
    BY <1>e, <2>1 DEF Stash, Phases
<1>8. CASE HopRetunes \/ HopBusy \/ TripRefused
  <2>1. /\ esb_restore_tx_or_drop /\ at' = "none" /\ at \in {"hop", "trip"}
        /\ radio' \in {NoPacket, radio} /\ UNCHANGED <<on, m_sync_tx_in_progress, kb_owed>>
    BY <1>8 DEF HopRetunes, HopBusy, TripRefused
  <2> QED
    BY <1>e, <2>1, RestoreQueues DEF Phases
<1>9. CASE TripSends
  BY <1>e, <1>9 DEF TripSends, Phases
<1>10. CASE TripReturns
  <2>1. /\ esb_restore_tx_or_drop /\ at' = "none" /\ ~m_sync_tx_in_progress'
        /\ radio' = IF radio = NoPacket THEN FrontOf(fifo') ELSE radio
        /\ UNCHANGED <<on, kb_owed>>
    BY <1>10 DEF TripReturns, Back
  <2>2. FrontOf(<<>>) = NoPacket
    BY DEF FrontOf
  <2> QED
    BY <1>e, <2>1, <2>2, RestoreQueues DEF Phases
<1>11. CASE esb_transport_on_slot_stop \/ esb_transport_on_slot_start
  BY <1>e, <1>11 DEF esb_transport_on_slot_stop, esb_transport_on_slot_start, tuning, Phases
<1>12. CASE InputTests \/ QuietPasses \/ UNCHANGED vars
  BY <1>e, <1>12 DEF InputTests, QuietPasses, vars, tuning, Phases
<1>13. CASE send_idle_packet
  <2>1. at = "idle" /\ at' = "none" /\ UNCHANGED <<on, stash, m_sync_tx_in_progress>>
    BY <1>13 DEF send_idle_packet
  <2>2. UNCHANGED <<fifo, radio, kb_owed>> \/ Submit("other", 0, hid_resync_pending)
    BY <1>13 DEF send_idle_packet
  <2>3. ~on => fifo' = <<>> /\ radio' = NoPacket /\ ~kb_owed'
    BY <1>e, <2>2, SubmitPhases DEF Phases
  <2> QED
    BY <1>e, <2>1, <2>3 DEF Phases
<1> QED
  BY <1>1, <1>2, <1>3, <1>4, <1>5, <1>6, <1>7, <1>8, <1>9, <1>10, <1>11, <1>12, <1>13 DEF Next

LEMMA TxStep == TxInv /\ [Next]_vars => TxInv'
  BY BooksStep, QueuesStep, FlagsStep, PhasesStep DEF TxInv

LEMMA TxAlways == Spec => []TxInv
  BY TxInit, TxStep, PTL DEF Spec

LEMMA InSequence ==
  ASSUME NEW S, NEW s \in Seq(S)
  PROVE  \A x \in ToSet(s) : x \in S
  BY LenProperties, ElementOfSeq DEF ToSet

LEMMA TxTyped == TxInv => TxTypeOK
<1> SUFFICES ASSUME TxInv PROVE TxTypeOK
  OBVIOUS
<1> USE DEF TxInv
<1>1. \A p \in ToSet(stash \o fifo) \cup {radio} : p \in Packets
  <2>1. stash \o fifo \in Seq(Sendable) /\ radio \in Sendable
    BY ConcatProperties DEF Queues
  <2> QED
    BY <2>1, InSequence DEF Sendable
<1>2. \A s \in ToSet(ring) : s \in HidSlots
  BY InSequence DEF Books
<1>3. m_pointer_inflight_count \in 0..MaxSlots
  BY BooksFacts DEF Books
<1>4. refund \in 0..MaxMotion
  <2>1. refund \in Nat /\ Motion(ring) \in Nat /\ Tested \in {0, 1} /\ moved \in Nat
        /\ moved <= MaxMotion /\ MaxMotion \in Nat /\ refund + Motion(ring) + Tested <= moved
    BY BooksFacts DEF Books
  <2> QED
    BY <2>1
<1> QED
  BY <1>1, <1>2, <1>3, <1>4 DEF TxTypeOK, Books, Queues, Flags, Phases, HidSlots

(* However sends, failures, flushes, hops and side trips follow each other,  *)
(* no queue grows beyond its array, no slot carries more motion than was     *)
(* made and the count stays within the ring.                                 *)
THEOREM TxTypesHold == Spec => []TxTypeOK
  BY TxAlways, TxTyped, PTL

(* m_pointer_inflight_count is the number of slots with motion after every  *)
(* push, pop, resync and flush: no drift holds the pointer back for good.    *)
THEOREM HeldBackByTheRing == Spec => []InflightMatchesRing
<1>1. TxInv => InflightMatchesRing
  BY DEF TxInv, Books, InflightMatchesRing
<1> QED
  BY <1>1, TxAlways, PTL

(* motion_ring_consume and the refund in esb_transport_send: no motion is    *)
(* refunded that is still in a slot or has been sent.                        *)
THEOREM NoMotionTwice == Spec => []MotionBooked
<1>1. TxInv => MotionBooked
  <2> SUFFICES ASSUME TxInv PROVE MotionBooked
    OBVIOUS
  <2>1. refund \in Nat /\ Motion(ring) \in Nat /\ Tested \in {0, 1} /\ moved \in Nat
        /\ refund + Motion(ring) + Tested <= moved
    BY BooksFacts DEF Books, TxInv
  <2> QED
    BY <2>1 DEF MotionBooked
<1> QED
  BY <1>1, TxAlways, PTL

(***************************************************************************)
(* Lockstep                                                                *)
(***************************************************************************)

(* The packets the ring has slots for: the parked ones from the stash on. *)
Reported == IF at \in {"none", "idle"} THEN fifo ELSE stash
Users(ps) == \A i \in 1..Len(ps) : ps[i].kind # "sync"

LockInv ==
  ~drifted =>
    /\ ring = Slots(Reported) /\ Users(Reported)
    /\ at # "wait" /\ radio # NoPacket => radio = FrontOf(Reported)
    /\ at = "wait" => \/ fifo = <<>> /\ radio = NoPacket
                      \/ fifo = <<Sync>> /\ radio = Sync /\ m_sync_tx_in_progress

LEMMA UserOf ==
  ASSUME NEW ps \in Seq(Sendable), Users(ps)
  PROVE  User(ps) = ps
<1>1. CASE ps = <<>>
  BY <1>1, NothingSent DEF User, FrontOf
<1>2. CASE ps # <<>>
  <2>1. Head(ps) = ps[1] /\ 1 \in 1..Len(ps)
    BY <1>2, HeadTailProperties, EmptySeq
  <2> QED
    BY <1>2, <2>1 DEF User, FrontOf, Users
<1> QED
  BY <1>1, <1>2

LEMMA UserNone == User(<<>>) = <<>> /\ User(<<Sync>>) = <<>>
  BY NothingSent DEF User, FrontOf, Sync

LEMMA LockstepOf == TxInv /\ LockInv => Lockstep
<1> SUFFICES ASSUME TxInv, LockInv, ~drifted
             PROVE  /\ ring = Slots(stash \o User(fifo))
                    /\ radio # NoPacket =>
                         radio = FrontOf(IF at \in {"hop", "trip"} THEN stash ELSE fifo)
  BY DEF Lockstep
<1> USE DEF TxInv, LockInv
<1>1. stash \in Seq(Sendable) /\ fifo \in Seq(Sendable)
  BY DEF Queues
<1>2. CASE at \in {"none", "idle"}
  <2>1. stash = <<>> /\ User(fifo) = fifo /\ Reported = fifo
    BY <1>1, <1>2, UserOf DEF Phases, Reported
  <2>2. stash \o User(fifo) = fifo
    BY <1>1, <2>1, ConcatEmptySeq
  <2> QED
    BY <1>2, <2>1, <2>2
<1>3. CASE at \in {"hop", "trip"}
  <2>1. fifo = <<>> /\ Reported = stash
    BY <1>3 DEF Phases, Reported
  <2>2. stash \o User(fifo) = stash
    BY <1>1, <2>1, UserNone, ConcatEmptySeq
  <2> QED
    BY <1>3, <2>1, <2>2
<1>4. CASE at = "wait"
  <2>1. Reported = stash /\ User(fifo) = <<>>
    BY <1>4, UserNone DEF Reported
  <2>2. stash \o User(fifo) = stash
    BY <1>1, <2>1, ConcatEmptySeq
  <2>3. radio # NoPacket => radio = FrontOf(fifo)
    BY <1>4 DEF FrontOf
  <2> QED
    BY <1>4, <2>1, <2>2, <2>3
<1> QED
  BY <1>2, <1>3, <1>4 DEF Phases

LEMMA LockInit == Init => LockInv
<1> SUFFICES ASSUME Init PROVE LockInv
  OBVIOUS
<1>1. Reported = <<>> /\ ring = <<>> /\ radio = NoPacket /\ at = "none"
  BY DEF Init, Reported
<1>2. Users(<<>>)
  BY EmptySeq DEF Users
<1> QED
  BY <1>1, <1>2, SlotsNone DEF LockInv

(* Slots and packets are together after a step if its cause for drifting is *)
(* absent and they were before, or if nothing is left of either.            *)
LEMMA Together ==
  ASSUME NEW cause \in BOOLEAN, Drifts(cause), TxInv, TxInv', ~drifted'
  PROVE  \/ ~drifted /\ ~cause
         \/ fifo' = <<>> /\ stash' = <<>> /\ ring' = <<>> /\ radio' = NoPacket
<1>1. CASE fifo' \o stash' \o ring' = <<>> /\ radio' = NoPacket
  <2> DEFINE Elements == Sendable \cup HidSlots
  <2>1. fifo' \in Seq(Elements) /\ stash' \in Seq(Elements) /\ ring' \in Seq(Elements)
    BY SeqMonotonic DEF TxInv, Queues, Books
  <2>2. /\ fifo' \o stash' \in Seq(Elements) /\ Len(fifo' \o stash') = Len(fifo') + Len(stash')
    BY <2>1, ConcatProperties
  <2>3. Len(fifo' \o stash' \o ring') = Len(fifo') + Len(stash') + Len(ring')
    BY <2>1, <2>2, ConcatProperties
  <2>4. Len(fifo' \o stash' \o ring') = 0
    BY <1>1, EmptySeq
  <2>5. /\ Len(fifo') \in Nat /\ Len(stash') \in Nat /\ Len(ring') \in Nat
    BY <2>1, LenProperties
  <2>6. Len(fifo') = 0 /\ Len(stash') = 0 /\ Len(ring') = 0
    BY <2>3, <2>4, <2>5
  <2> QED
    BY <1>1, <2>1, <2>6, EmptySeq
<1>2. CASE ~(fifo' \o stash' \o ring' = <<>> /\ radio' = NoPacket)
  BY <1>2 DEF Drifts
<1> QED
  BY <1>1, <1>2

LEMMA LockEmpty ==
  ASSUME fifo' = <<>>, stash' = <<>>, ring' = <<>>, radio' = NoPacket
  PROVE  LockInv'
<1>1. Reported' = <<>>
  BY DEF Reported
<1>2. Users(<<>>)
  BY EmptySeq DEF Users
<1> QED
  BY <1>1, <1>2, SlotsNone DEF LockInv

LEMMA LockAside ==
  ASSUME LockInv, UNCHANGED <<fifo, stash, ring, radio, at, m_sync_tx_in_progress, drifted>>
  PROVE  LockInv'
  BY DEF LockInv, Reported

LEMMA UsersAppend ==
  ASSUME NEW ps \in Seq(Sendable), Users(ps), NEW p \in Sendable, p.kind # "sync"
  PROVE  Users(Append(ps, p))
<1>1. /\ Len(Append(ps, p)) = Len(ps) + 1 /\ Len(ps) \in Nat
      /\ \A i \in 1..Len(ps) : Append(ps, p)[i] = ps[i]
      /\ Append(ps, p)[Len(ps) + 1] = p
  BY AppendProperties, LenProperties
<1> SUFFICES ASSUME NEW i \in 1..Len(ps) + 1
             PROVE  Append(ps, p)[i].kind # "sync"
  BY <1>1 DEF Users
<1>2. CASE i \in 1..Len(ps)
  BY <1>1, <1>2 DEF Users
<1>3. CASE i = Len(ps) + 1
  BY <1>1, <1>3
<1> QED
  BY <1>1, <1>2, <1>3

LEMMA UsersTail ==
  ASSUME NEW ps \in Seq(Sendable), Users(ps), ps # <<>>
  PROVE  Users(Tail(ps))
<1>1. /\ Len(Tail(ps)) = Len(ps) - 1 /\ Len(ps) \in Nat
      /\ \A i \in 1..Len(Tail(ps)) : Tail(ps)[i] = ps[i + 1]
  BY HeadTailProperties, LenProperties
<1> QED
  BY <1>1 DEF Users

LEMMA UsersAfter ==
  ASSUME NEW k, NEW ps \in Seq(Sendable), Users(ps)
  PROVE  Users(After(k, ps))
<1> SUFFICES ASSUME NEW i \in 1..Len(ps) PROVE After(k, ps)[i].kind # "sync"
  BY AfterOf DEF Users
<1>1. After(k, ps)[i] = Aged(k, ps[i]) /\ ps[i] \in Sendable
  BY AfterOf, ElementOfSeq
<1> QED
  BY <1>1, AgedOf DEF Users

LEMMA HeadAppend ==
  ASSUME NEW ps \in Seq(Sendable), NEW p \in Sendable
  PROVE  /\ Append(ps, p) # <<>> /\ Append(ps, p) \in Seq(Sendable)
         /\ Head(Append(ps, p)) = IF ps = <<>> THEN p ELSE Head(ps)
<1>1. /\ Append(ps, p) \in Seq(Sendable) /\ Len(Append(ps, p)) = Len(ps) + 1
      /\ \A i \in 1..Len(ps) : Append(ps, p)[i] = ps[i]
      /\ Append(ps, p)[Len(ps) + 1] = p
  BY AppendProperties
<1>2. Append(ps, p) # <<>> /\ Head(Append(ps, p)) = Append(ps, p)[1]
  <2>1. Append(ps, p) # <<>>
    BY <1>1, LenProperties, NoQueue
  <2> QED
    BY <1>1, <2>1, HeadTailProperties
<1>3. CASE ps = <<>>
  BY <1>1, <1>2, <1>3, NoQueue
<1>4. CASE ps # <<>>
  <2>1. Head(ps) = ps[1] /\ 1 \in 1..Len(ps)
    BY <1>4, HeadTailProperties, EmptySeq
  <2> QED
    BY <1>1, <1>2, <1>4, <2>1
<1> QED
  BY <1>1, <1>2, <1>3, <1>4

(* A send after which slots and packets are together. *)
LEMMA SubmitTogether ==
  ASSUME TxInv, TxInv', ~drifted', NEW k \in {"kb", "mouse", "other"},
         NEW motion \in {0, 1}, NEW pending, Submit(k, motion, pending),
         motion + refund <= MaxMotion \/ (motion = 0 /\ k # "mouse"),
         UNCHANGED stash, at' = at \/ (at = "idle" /\ at' = "none")
  PROVE  /\ ~drifted /\ on /\ at \in {"none", "idle"} /\ (esb_tx_full => radio = NoPacket)
         /\ \E p : Submits(k, pending, p)
<1> USE DEF TxInv
<1>1. PICK applied \in (IF k = "mouse" THEN {0, refund} ELSE {0}) :
        LET p == Packet(k, motion + applied)
        IN Submits(k, pending, p) /\ p.motion = motion + applied
  BY SubmitsFrom
<1> DEFINE p == Packet(k, motion + applied)
           slots == IF esb_tx_full THEN <<>> ELSE ring
           packets == IF esb_tx_full THEN <<>> ELSE After(k, fifo)
           cause == ~on \/ (esb_tx_full /\ radio # NoPacket) \/ at = "wait"
<1>2. Submits(k, pending, p)
  BY <1>1
<1> HIDE DEF p
<1>3. /\ p \in Sendable /\ packets \in Seq(Sendable)
      /\ ring' = Append(slots, Slot(p))
      /\ fifo' = IF on THEN Append(packets, p) ELSE packets
  BY <1>2 DEF Submits
<1>4. ring' # <<>>
  <2>1. slots \in Seq(HidSlots) /\ Slot(p) \in HidSlots
    BY <1>3, SlotType, NoBooks DEF Books
  <2>2. Len(ring') = Len(slots) + 1 /\ Len(slots) \in Nat
    BY <1>3, <2>1, AppendProperties, LenProperties
  <2> QED
    BY <2>2, NoQueue
<1>5. Drifts(cause)
  BY DEF Submit
<1>6. ~drifted /\ ~cause
  <2>1. cause \in BOOLEAN
    OBVIOUS
  <2> HIDE DEF cause
  <2> QED
    BY <1>4, <1>5, <2>1, Together
<1>7. on /\ at # "wait" /\ (esb_tx_full => radio = NoPacket)
  BY <1>6
<1>8. at \in {"none", "idle"}
  <2>1. at \in {"hop", "trip"} => fifo' = <<>>
    BY DEF Phases
  <2> QED
    BY <1>3, <1>7, <2>1, HeadAppend DEF Phases
<1> QED
  BY <1>2, <1>6, <1>7, <1>8

(* A send outside the side trip, with the radio idle if it flushes: the     *)
(* packet goes behind the packets, its slot behind the slots.               *)
LEMMA LockSubmit ==
  ASSUME TxInv, TxInv', LockInv, NEW k \in {"kb", "mouse", "other"},
         NEW motion \in {0, 1}, NEW pending, Submit(k, motion, pending),
         motion + refund <= MaxMotion \/ (motion = 0 /\ k # "mouse"),
         UNCHANGED stash, at' = at \/ (at = "idle" /\ at' = "none")
  PROVE  LockInv'
<1> SUFFICES ASSUME ~drifted' PROVE LockInv'
  BY DEF LockInv
<1> USE DEF TxInv
<1>1. /\ ~drifted /\ on /\ at \in {"none", "idle"} /\ (esb_tx_full => radio = NoPacket)
      /\ \E p : Submits(k, pending, p)
  BY SubmitTogether
<1>2. PICK p : Submits(k, pending, p)
  BY <1>1
<1> DEFINE slots == IF esb_tx_full THEN <<>> ELSE ring
           packets == IF esb_tx_full THEN <<>> ELSE After(k, fifo)
<1>3. /\ p \in Sendable /\ p.kind = k /\ packets \in Seq(Sendable)
      /\ ring' = Append(slots, Slot(p))
      /\ fifo' = Append(packets, p)
      /\ radio' = IF radio = NoPacket THEN Head(fifo') ELSE Aged(k, radio)
  BY <1>1, <1>2 DEF Submits
<1>9. Reported = fifo /\ Reported' = fifo' /\ at' \in {"none", "idle"}
  BY <1>1 DEF Reported
<1>10. slots = Slots(packets) /\ Users(packets)
  <2>1. CASE esb_tx_full
    BY <2>1, SlotsNone, EmptySeq DEF Users
  <2>2. CASE ~esb_tx_full
    BY <1>1, <1>9, <2>2, SlotsAfter, UsersAfter DEF LockInv, Queues
  <2> QED
    BY <2>1, <2>2
<1> HIDE DEF slots
<1>11. ring' = Slots(fifo') /\ Users(fifo')
  BY <1>3, <1>10, SlotsAppend, UsersAppend
<1>12. radio' = FrontOf(fifo')
  <2>1. fifo' # <<>> /\ FrontOf(fifo') = Head(fifo')
    BY <1>3, <1>11, HeadAppend DEF FrontOf
  <2>2. CASE radio = NoPacket
    BY <1>3, <2>1, <2>2
  <2>3. CASE radio # NoPacket
    <3>1. ~esb_tx_full /\ packets = After(k, fifo) /\ radio = FrontOf(fifo)
          /\ fifo \in Seq(Sendable)
      BY <1>1, <1>9, <2>3 DEF LockInv, Queues
    <3>2. fifo # <<>> /\ radio = Head(fifo)
      BY <2>3, <3>1 DEF FrontOf
    <3>3. packets # <<>> /\ Head(packets) = Aged(k, Head(fifo))
      <4>1. Len(packets) = Len(fifo) /\ packets[1] = Aged(k, fifo[1]) /\ Head(fifo) = fifo[1]
        BY <3>1, <3>2, AfterOf, HeadTailProperties, EmptySeq
      <4>2. packets # <<>>
        BY <3>1, <3>2, <4>1, EmptySeq
      <4> QED
        BY <1>3, <4>1, <4>2, HeadTailProperties
    <3> HIDE DEF packets
    <3>4. Head(fifo') = Head(packets)
      BY <1>3, <1>11, <3>3, HeadAppend
    <3> QED
      BY <1>3, <2>1, <2>3, <3>2, <3>3, <3>4
  <2> QED
    BY <2>2, <2>3
<1> QED
  BY <1>9, <1>11, <1>12 DEF LockInv

(* A stash that goes back, or is dropped while the radio is off, finds the   *)
(* FIFO empty.                                                              *)
LEMMA LockRestore ==
  ASSUME TxInv, TxInv', ~drifted, LockInv, at \notin {"none", "idle"}, at' = "none",
         fifo = <<>>, esb_restore_tx_or_drop, UNCHANGED on,
         radio' # NoPacket => radio' = FrontOf(fifo')
  PROVE  LockInv'
<1> USE DEF TxInv
<1>1. Reported = stash /\ Reported' = fifo'
  BY DEF Reported
<1>2. CASE on /\ Len(fifo) + Len(stash) <= FIFO_SIZE
  <2>1. fifo' = fifo \o stash /\ ring' = ring
    BY <1>2 DEF esb_restore_tx_or_drop
  <2>2. fifo' = stash
    BY <2>1, ConcatEmptySeq DEF Queues
  <2> QED
    BY <1>1, <2>1, <2>2 DEF LockInv
<1>3. CASE ~(on /\ Len(fifo) + Len(stash) <= FIFO_SIZE)
  <2>1. fifo' = <<>> /\ ring' = <<>> /\ stash' = <<>>
    BY <1>3 DEF esb_restore_tx_or_drop, tx_bookkeeping_resync
  <2>2. ~on
    BY <1>3, NoQueue, QueueFacts DEF Queues
  <2>3. Users(<<>>)
    BY EmptySeq DEF Users
  <2> QED
    BY <1>1, <2>1, <2>3, SlotsNone DEF LockInv
<1> QED
  BY <1>2, <1>3

LEMMA LockAcked ==
  ASSUME TxInv, TxInv', LockInv, TxAcked
  PROVE  LockInv'
<1> SUFFICES ASSUME ~drifted' PROVE LockInv'
  BY DEF LockInv
<1> USE DEF TxInv
<1>1. /\ radio # NoPacket /\ fifo' = (IF fifo = <<>> THEN <<>> ELSE Tail(fifo))
      /\ radio' = FrontOf(fifo') /\ m_sync_tx_in_progress' = FALSE
      /\ UNCHANGED <<stash, at>> /\ Drifts(at \in {"hop", "trip"})
      /\ IF m_sync_tx_in_progress THEN UNCHANGED books ELSE motion_ring_consume(FALSE)
  BY DEF TxAcked, tuning
<1>2. CASE fifo' = <<>> /\ stash' = <<>> /\ ring' = <<>> /\ radio' = NoPacket
  BY <1>2, LockEmpty
<1>3. CASE ~drifted /\ at \notin {"hop", "trip"}
  <2>1. CASE at = "wait"
    <3>1. fifo = <<Sync>> /\ m_sync_tx_in_progress
      BY <1>1, <1>3, <2>1 DEF LockInv
    <3>2. fifo' = <<>> /\ radio' = NoPacket /\ UNCHANGED <<ring, stash, at>>
      BY <1>1, <3>1 DEF FrontOf, books
    <3> QED
      BY <1>3, <2>1, <3>2 DEF LockInv, Reported
  <2>2. CASE at \in {"none", "idle"}
    <3>1. Reported = fifo /\ Reported' = fifo' /\ ~m_sync_tx_in_progress
      BY <1>1, <2>2 DEF Reported, Phases
    <3>2. fifo # <<>> /\ fifo \in Seq(Sendable)
      BY <1>1, <1>3, <2>2, <3>1 DEF LockInv, FrontOf, Queues
    <3>3. /\ Slots(fifo) # <<>> /\ Slots(Tail(fifo)) = Tail(Slots(fifo))
          /\ Users(Tail(fifo))
      BY <1>3, <3>1, <3>2, SlotsTail, UsersTail DEF LockInv
    <3>4. ring = Slots(fifo) /\ ring' = Tail(ring) /\ fifo' = Tail(fifo)
      BY <1>1, <1>3, <3>1, <3>2, <3>3 DEF LockInv, motion_ring_consume
    <3> QED
      BY <1>1, <2>2, <3>1, <3>3, <3>4 DEF LockInv
  <2> QED
    BY <1>3, <2>1, <2>2 DEF Phases
<1>4. (at \in {"hop", "trip"}) \in BOOLEAN
  OBVIOUS
<1>5. (~drifted /\ at \notin {"hop", "trip"}) \/
      (fifo' = <<>> /\ stash' = <<>> /\ ring' = <<>> /\ radio' = NoPacket)
  BY <1>1, <1>4, Together
<1> QED
  BY <1>2, <1>3, <1>5

LEMMA LockFailed ==
  ASSUME TxInv, TxInv', LockInv, TxFailed
  PROVE  LockInv'
<1> SUFFICES ASSUME ~drifted' PROVE LockInv'
  BY DEF LockInv
<1> USE DEF TxInv
<1>1. /\ radio # NoPacket /\ radio' = NoPacket /\ UNCHANGED <<stash, at>>
      /\ Drifts(~m_sync_tx_in_progress)
      /\ m_sync_tx_in_progress => fifo' = <<>> /\ UNCHANGED books
  BY DEF TxFailed, tuning
<1>2. CASE fifo' = <<>> /\ stash' = <<>> /\ ring' = <<>> /\ radio' = NoPacket
  BY <1>2, LockEmpty
<1>3. CASE ~drifted /\ m_sync_tx_in_progress
  BY <1>1, <1>3 DEF LockInv, Reported, Phases, books
<1>4. m_sync_tx_in_progress \in BOOLEAN /\ (~m_sync_tx_in_progress) \in BOOLEAN
  BY DEF Flags
<1> QED
  BY <1>1, <1>2, <1>3, <1>4, Together

LEMMA LockFlush ==
  ASSUME TxInv, TxInv', LockInv, esb_transport_flush_tx
  PROVE  LockInv'
<1> SUFFICES ASSUME ~drifted' PROVE LockInv'
  BY DEF LockInv
<1> USE DEF TxInv
<1>1. /\ at = "none" /\ fifo' = <<>> /\ ring' = <<>> /\ UNCHANGED <<radio, stash>>
      /\ Drifts(radio # NoPacket)
  BY DEF esb_transport_flush_tx, tx_bookkeeping_resync
<1>2. stash = <<>>
  BY <1>1 DEF Phases
<1>3. (radio # NoPacket) \in BOOLEAN
  OBVIOUS
<1>4. radio' = NoPacket
  BY <1>1, <1>3, Together
<1> QED
  BY <1>1, <1>2, <1>4, LockEmpty

LEMMA NotWhileTrip ==
  ASSUME TxInv, LockInv, ~drifted, at \notin {"none", "idle"},
         at = "wait" => ~m_sync_tx_in_progress \/ radio = NoPacket
  PROVE  fifo = <<>> /\ (at = "wait" => radio = NoPacket)
<1>1. Sync # NoPacket
  BY NothingSent DEF Sync
<1> QED
  BY <1>1 DEF TxInv, Phases, LockInv

LEMMA LockStashes ==
  ASSUME TxInv, TxInv', LockInv, HopStashes \/ TripStashes
  PROVE  LockInv'
<1>1. /\ at = "none" /\ at' \in {"hop", "trip"} /\ Stash
      /\ UNCHANGED <<on, radio, ring, drifted>>
  BY DEF HopStashes, TripStashes, books
<1>2. on => stash' = fifo
  BY <1>1 DEF Stash
<1>3. ~on => stash' = fifo
  BY <1>1 DEF Stash, TxInv, Phases
<1>4. Reported' = Reported
  BY <1>1, <1>2, <1>3 DEF Reported
<1> QED
  BY <1>1, <1>4 DEF LockInv

LEMMA LockReturns ==
  ASSUME TxInv, TxInv', LockInv, HopRetunes \/ HopBusy \/ TripRefused \/ TripReturns
  PROVE  LockInv'
<1> SUFFICES ASSUME ~drifted' PROVE LockInv'
  BY DEF LockInv
<1>1. /\ at \notin {"none", "idle"} /\ at' = "none" /\ esb_restore_tx_or_drop /\ UNCHANGED on
      /\ Drifts(FALSE)
      /\ at = "wait" => ~m_sync_tx_in_progress \/ radio = NoPacket
  BY DEF HopRetunes, HopBusy, TripRefused, TripReturns, Back
<1>2. CASE fifo' = <<>> /\ stash' = <<>> /\ ring' = <<>> /\ radio' = NoPacket
  BY <1>2, LockEmpty
<1>3. CASE ~drifted
  <2>1. fifo = <<>> /\ (at = "wait" => radio = NoPacket)
    BY <1>1, <1>3, NotWhileTrip
  <2>2. radio # NoPacket => radio = FrontOf(stash)
    BY <1>1, <1>3, <2>1 DEF LockInv, Reported
  <2>3. on => fifo' = stash
    <3>1. on => Len(fifo) + Len(stash) <= FIFO_SIZE
      BY <2>1, NoQueue, QueueFacts DEF TxInv, Queues
    <3>2. on => fifo' = <<>> \o stash
      BY <1>1, <2>1, <3>1 DEF esb_restore_tx_or_drop
    <3> QED
      BY <3>2, ConcatEmptySeq DEF TxInv, Queues
  <2>4. ~on => radio = NoPacket /\ fifo' = <<>>
    BY <1>1, <2>1 DEF TxInv, Phases, esb_restore_tx_or_drop
  <2>5. radio' \in {NoPacket, radio} \/ (radio = NoPacket /\ radio' = FrontOf(fifo'))
    BY DEF HopRetunes, HopBusy, TripRefused, TripReturns, Back
  <2>6. radio' # NoPacket => radio' = FrontOf(fifo')
    BY <2>2, <2>3, <2>4, <2>5
  <2> QED
    BY <1>1, <1>3, <2>1, <2>6, LockRestore
<1> QED
  BY <1>1, <1>2, <1>3, Together

LEMMA LockTripSends ==
  ASSUME TxInv, TxInv', LockInv, TripSends
  PROVE  LockInv'
<1> SUFFICES ASSUME ~drifted' PROVE LockInv'
  BY DEF LockInv
<1>1. /\ at = "trip" /\ at' = "wait" /\ m_sync_tx_in_progress' = TRUE /\ ~drifted
      /\ fifo' = Append(fifo, Sync) /\ radio' = FrontOf(fifo') /\ UNCHANGED <<stash, ring>>
  BY DEF TripSends, books, Sync
<1>2. fifo' = <<Sync>>
  BY <1>1 DEF TxInv, Phases
<1>3. radio' = Sync
  BY <1>1, <1>2 DEF FrontOf
<1>4. Reported' = Reported
  BY <1>1 DEF Reported
<1> QED
  BY <1>1, <1>2, <1>3, <1>4 DEF LockInv

LEMMA LockStops ==
  ASSUME TxInv, TxInv', LockInv, esb_transport_on_slot_stop
  PROVE  LockInv'
<1> SUFFICES ASSUME ~drifted' PROVE LockInv'
  BY DEF LockInv
<1>1. /\ at \in {"none", "wait"} /\ fifo' = <<>> /\ radio' = NoPacket
      /\ UNCHANGED <<stash, ring, at>> /\ Drifts(User(fifo) # <<>>)
  BY DEF esb_transport_on_slot_stop, tuning, books
<1>2. CASE fifo' = <<>> /\ stash' = <<>> /\ ring' = <<>> /\ radio' = NoPacket
  BY <1>2, LockEmpty
<1>3. CASE ~drifted /\ User(fifo) = <<>>
  <2>1. CASE at = "none"
    <3>1. fifo = <<>>
      BY <1>3, <2>1, UserOf DEF TxInv, Queues, LockInv, Reported
    <3> QED
      BY <1>1, <1>3, <2>1, <3>1 DEF LockInv, Reported
  <2>2. CASE at = "wait"
    BY <1>1, <1>3, <2>2 DEF LockInv, Reported
  <2> QED
    BY <1>1, <2>1, <2>2
<1>4. (User(fifo) # <<>>) \in BOOLEAN
  OBVIOUS
<1>5. (~drifted /\ User(fifo) = <<>>) \/
      (fifo' = <<>> /\ stash' = <<>> /\ ring' = <<>> /\ radio' = NoPacket)
  BY <1>1, <1>4, Together
<1> QED
  BY <1>2, <1>3, <1>5

(* What the three senders hand to Submit. *)
LEMMA SendsOf ==
  ASSUME TxInv, NEW k \in {"kb", "mouse", "other", "shell"}, esb_transport_send(k)
  PROVE  LET motion == IF k = "mouse" THEN 1 ELSE 0
         IN /\ Submit(PacketKind(k), motion, hid_resync_pending)
            /\ PacketKind(k) \in {"kb", "mouse", "other"}
            /\ motion + refund <= MaxMotion \/ (motion = 0 /\ PacketKind(k) # "mouse")
            /\ UNCHANGED <<stash, at>>
<1>1. /\ Submit(PacketKind(k), IF k = "mouse" THEN 1 ELSE 0, hid_resync_pending)
      /\ (k # "mouse" \/ moved < MaxMotion) /\ UNCHANGED <<stash, at>>
  BY DEF esb_transport_send, tuning
<1>2. UNCHANGED <<stash, at>>
  BY DEF esb_transport_send, tuning
<1>3. PacketKind(k) \in {"kb", "mouse", "other"} /\ (k # "mouse" => PacketKind(k) # "mouse")
  BY DEF PacketKind
<1>4. k = "mouse" => 1 + refund <= MaxMotion
  <2>1. /\ refund \in Nat /\ Motion(ring) \in Nat /\ moved \in Nat /\ MaxMotion \in Nat
        /\ Tested \in {0, 1} /\ refund + Motion(ring) + Tested <= moved
    BY BooksFacts DEF TxInv, Books
  <2>2. refund <= moved
    BY <2>1
  <2> QED
    BY <1>1, <2>1, <2>2
<1> QED
  BY <1>1, <1>2, <1>3, <1>4

LEMMA InputOf ==
  ASSUME TxInv, InputSends
  PROVE  /\ \/ UNCHANGED <<fifo, radio, books, kb_owed, drifted>>
            \/ Submit("mouse", 1, hid_resync_pending)
         /\ 1 + refund <= MaxMotion /\ UNCHANGED <<stash, at, m_sync_tx_in_progress>>
  BY InputMotion DEF TxInv, InputSends

LEMMA ResyncOf ==
  ASSUME TxInv, NEW k \in {"kb", "mouse"}, hid_resync_work_fn(k)
  PROVE  /\ \/ Submit(k, 0, hid_resync_pending \ {k})
            \/ ~on /\ UNCHANGED <<fifo, radio, ring, kb_owed, drifted>>
         /\ 0 + refund <= MaxMotion /\ UNCHANGED <<on, stash, at, m_sync_tx_in_progress>>
<1>1. 0 + refund <= MaxMotion
  <2>1. /\ refund \in Nat /\ Motion(ring) \in Nat /\ moved \in Nat /\ MaxMotion \in Nat
        /\ Tested \in {0, 1} /\ refund + Motion(ring) + Tested <= moved /\ moved <= MaxMotion
    BY BooksFacts DEF TxInv, Books
  <2> QED
    BY <2>1
<1> QED
  BY <1>1 DEF hid_resync_work_fn, tuning

LEMMA IdleOf ==
  ASSUME TxInv, send_idle_packet
  PROVE  /\ \/ Submit("other", 0, hid_resync_pending)
            \/ UNCHANGED <<fifo, radio, books, kb_owed, drifted>>
         /\ at = "idle" /\ at' = "none" /\ UNCHANGED <<stash, m_sync_tx_in_progress>>
  BY DEF send_idle_packet

LEMMA LockStep == TxInv /\ TxInv' /\ LockInv /\ [Next]_vars => LockInv'
<1> SUFFICES ASSUME TxInv, TxInv', LockInv, [Next]_vars PROVE LockInv'
  OBVIOUS
<1>1. ASSUME NEW k \in {"kb", "mouse", "other", "shell"}, esb_transport_send(k)
      PROVE  LockInv'
  <2> DEFINE motion == IF k = "mouse" THEN 1 ELSE 0
  <2>1. motion \in {0, 1}
    OBVIOUS
  <2>2. /\ Submit(PacketKind(k), motion, hid_resync_pending)
        /\ PacketKind(k) \in {"kb", "mouse", "other"}
        /\ motion + refund <= MaxMotion \/ (motion = 0 /\ PacketKind(k) # "mouse")
        /\ UNCHANGED <<stash, at>>
    BY <1>1, SendsOf
  <2> HIDE DEF motion
  <2> QED
    BY <2>1, <2>2, LockSubmit
<1>2. CASE InputSends
  <2>1. CASE UNCHANGED <<fifo, radio, books, kb_owed, drifted>>
    BY <1>2, <2>1, InputOf, LockAside DEF books
  <2>2. CASE Submit("mouse", 1, hid_resync_pending)
    BY <1>2, <2>2, InputOf, LockSubmit
  <2> QED
    BY <1>2, <2>1, <2>2, InputOf
<1>3. ASSUME NEW k \in {"kb", "mouse"}, hid_resync_work_fn(k) PROVE LockInv'
  <2>1. CASE ~on /\ UNCHANGED <<fifo, radio, ring, kb_owed, drifted>>
    BY <1>3, <2>1, ResyncOf, LockAside
  <2>2. CASE Submit(k, 0, hid_resync_pending \ {k})
    BY <1>3, <2>2, ResyncOf, LockSubmit
  <2> QED
    BY <1>3, <2>1, <2>2, ResyncOf
<1>4. CASE esb_transport_flush_tx
  BY <1>4, LockFlush
<1>5. CASE TxAcked
  BY <1>5, LockAcked
<1>6. CASE TxFailed
  BY <1>6, LockFailed
<1>7. CASE HopStashes \/ TripStashes
  BY <1>7, LockStashes
<1>8. CASE HopRetunes \/ HopBusy \/ TripRefused \/ TripReturns
  BY <1>8, LockReturns
<1>9. CASE TripSends
  BY <1>9, LockTripSends
<1>10. CASE esb_transport_on_slot_stop
  BY <1>10, LockStops
<1>11. CASE InputTests \/ QuietPasses \/ esb_transport_on_slot_start \/ UNCHANGED vars
  BY <1>11, LockAside
  DEF InputTests, QuietPasses, esb_transport_on_slot_start, vars, tuning, books
<1>12. CASE send_idle_packet
  <2>1. CASE UNCHANGED <<fifo, radio, books, kb_owed, drifted>>
    <3>1. Reported' = Reported /\ UNCHANGED <<ring, radio, drifted>>
      BY <1>12, <2>1, IdleOf DEF Reported, books
    <3> QED
      BY <1>12, <3>1, IdleOf DEF LockInv
  <2>2. CASE Submit("other", 0, hid_resync_pending)
    BY <1>12, <2>2, IdleOf, LockSubmit
  <2> QED
    BY <1>12, <2>1, <2>2, IdleOf
<1> QED
  BY <1>1, <1>2, <1>3, <1>4, <1>5, <1>6, <1>7, <1>8, <1>9, <1>10, <1>11, <1>12 DEF Next

(* Until a cause that Drifts names, a completion pops the slot of its own    *)
(* packet: stash, restore and side trip keep the ring in step with the FIFO. *)
THEOREM CompletionPopsItsSlot == Spec => []Lockstep
<1>1. Spec => [](TxInv /\ LockInv)
  BY TxInit, TxStep, LockInit, LockStep, PTL DEF Spec
<1> QED
  BY <1>1, LockstepOf, PTL

(***************************************************************************)
(* The newest keyboard report                                              *)
(***************************************************************************)

Fresh(ps) == \E i \in 1..Len(ps) : ps[i].fresh
KbKept == kb_owed => "kb" \in hid_resync_pending \/ Fresh(Reported)

LEMMA FreshFront ==
  ASSUME NEW ps \in Seq(Sendable), FrontOf(ps).fresh
  PROVE  Fresh(ps)
<1>1. ps # <<>> /\ FrontOf(ps) = Head(ps)
  BY NothingSent DEF FrontOf
<1>2. Head(ps) = ps[1] /\ 1 \in 1..Len(ps)
  BY <1>1, HeadTailProperties, EmptySeq
<1> QED
  BY <1>1, <1>2 DEF Fresh

LEMMA FreshMember ==
  ASSUME NEW ps \in Seq(Sendable)
  PROVE  Fresh(ps) <=> \E p \in ToSet(ps) : p.fresh
  BY LenProperties DEF Fresh, ToSet

(* In lockstep, what is on the air is in front or belongs to the side trip, *)
(* so the report to look for is among those the ring has slots for.         *)
LEMMA KbMeans ==
  ASSUME TxInv, LockInv, ~drifted
  PROVE  KbNotForgotten <=> KbKept
<1>1. stash \in Seq(Sendable) /\ fifo \in Seq(Sendable)
  BY DEF TxInv, Queues
<1>2. Reported \in Seq(Sendable)
  BY <1>1 DEF Reported
<1>3. radio.fresh => Fresh(Reported)
  <2>1. CASE at = "wait"
    BY <2>1, NothingSent DEF LockInv, Sync
  <2>2. CASE at # "wait"
    BY <1>2, <2>2, FreshFront, NothingSent DEF LockInv
  <2> QED
    BY <2>1, <2>2
<1>4. Fresh(stash \o fifo) <=> Fresh(Reported)
  <2>1. CASE at \in {"none", "idle"}
    <3>1. stash = <<>> /\ Reported = fifo
      BY <2>1 DEF TxInv, Phases, Reported
    <3>2. stash \o fifo = fifo
      BY <1>1, <3>1, ConcatEmptySeq
    <3> QED
      BY <3>1, <3>2
  <2>2. CASE at \notin {"none", "idle"} /\ fifo = <<>>
    <3>1. Reported = stash
      BY <2>2 DEF Reported
    <3>2. stash \o fifo = stash
      BY <1>1, <2>2, ConcatEmptySeq
    <3> QED
      BY <3>1, <3>2
  <2>3. CASE at = "wait" /\ fifo = <<Sync>>
    <3>1. Reported = stash /\ stash \o fifo = Append(stash, Sync)
      BY <1>1, <2>3 DEF Reported
    <3>2. /\ Len(Append(stash, Sync)) = Len(stash) + 1 /\ Len(stash) \in Nat
          /\ \A i \in 1..Len(stash) : Append(stash, Sync)[i] = stash[i]
          /\ Append(stash, Sync)[Len(stash) + 1] = Sync
      BY <1>1, NothingSent, AppendProperties, LenProperties DEF Sync
    <3>3. ~Sync.fresh
      BY NothingSent DEF Sync
    <3>4. \A i \in 1..Len(stash) + 1 : i \in 1..Len(stash) \/ i = Len(stash) + 1
      BY <3>2
    <3>5. \A i \in 1..Len(stash) : i \in 1..Len(stash) + 1
      BY <3>2
    <3> QED
      BY <3>1, <3>2, <3>3, <3>4, <3>5 DEF Fresh
  <2> QED
    BY <2>1, <2>2, <2>3 DEF LockInv, TxInv, Phases
<1>5. stash \o fifo \in Seq(Sendable)
  BY <1>1, ConcatProperties
<1>6. (\E p \in ToSet(stash \o fifo) \cup {radio} : p.fresh) <=> Fresh(Reported)
  BY <1>3, <1>4, <1>5, FreshMember
<1> QED
  BY <1>6 DEF KbNotForgotten, KbKept

(* Giving the slots up asks for the kind of every packet that had one.      *)
LEMMA FreshAsked ==
  ASSUME NEW ps \in Seq(Sendable), Fresh(ps)
  PROVE  "kb" \in HidKinds(Slots(ps))
<1>1. PICK i \in 1..Len(ps) : ps[i].fresh
  BY DEF Fresh
<1>2. ps[i] \in Sendable
  BY ElementOfSeq
<1>3. ps[i].kind = "kb"
  BY <1>1, <1>2 DEF Sendable
<1>4. Slots(ps)[i].hid = "kb" /\ i \in DOMAIN Slots(ps)
  <2>1. Slots(ps)[i] = Slot(ps[i]) /\ Len(Slots(ps)) = Len(ps) /\ Slots(ps) \in Seq(HidSlots)
    BY SlotsOf
  <2>2. i \in DOMAIN Slots(ps)
    BY <2>1, LenProperties
  <2> QED
    BY <1>3, <2>1, <2>2 DEF Slot
<1> QED
  BY <1>4 DEF HidKinds

LEMMA KbAside ==
  ASSUME KbKept, Reported' = Reported, kb_owed' => kb_owed,
         hid_resync_pending \subseteq hid_resync_pending'
  PROVE  KbKept'
  BY DEF KbKept

LEMMA KbSubmit ==
  ASSUME TxInv, TxInv', LockInv, KbKept, ~drifted', NEW k \in {"kb", "mouse", "other"},
         NEW motion \in {0, 1}, NEW pending, Submit(k, motion, pending),
         motion + refund <= MaxMotion \/ (motion = 0 /\ k # "mouse"),
         UNCHANGED stash, at' = at \/ (at = "idle" /\ at' = "none"), hid_resync_pending \subseteq pending \cup {k}
  PROVE  KbKept'
<1>1. ~drifted /\ on /\ at \in {"none", "idle"} /\ \E p : Submits(k, pending, p)
  BY SubmitTogether
<1>2. PICK p : Submits(k, pending, p)
  BY <1>1
<1> DEFINE packets == IF esb_tx_full THEN <<>> ELSE After(k, fifo)
<1>3. /\ p \in Sendable /\ (p.fresh <=> k = "kb") /\ packets \in Seq(Sendable)
      /\ fifo' = Append(packets, p)
      /\ hid_resync_pending' = pending \cup IF esb_tx_full THEN HidKinds(ring) ELSE {}
  BY <1>1, <1>2 DEF Submits
<1>4. Reported = fifo /\ Reported' = fifo' /\ fifo \in Seq(Sendable)
  BY <1>1 DEF Reported, TxInv, Queues
<1>5. /\ Len(fifo') = Len(packets) + 1 /\ Len(packets) \in Nat
      /\ \A i \in 1..Len(packets) : fifo'[i] = packets[i]
      /\ fifo'[Len(packets) + 1] = p
  BY <1>3, AppendProperties, LenProperties
<1>6. CASE k = "kb"
  <2>1. Len(packets) + 1 \in 1..Len(fifo')
    BY <1>5
  <2>2. p.fresh
    BY <1>3, <1>6
  <2> QED
    BY <1>4, <1>5, <2>1, <2>2 DEF KbKept, Fresh
<1>7. CASE k # "kb"
  <2>1. kb_owed' => kb_owed
    BY <1>7 DEF Submit
  <2>2. CASE "kb" \in hid_resync_pending
    BY <1>3, <1>7, <2>2 DEF KbKept
  <2>3. CASE Fresh(fifo) /\ esb_tx_full
    <3>1. "kb" \in HidKinds(ring)
      BY <1>1, <1>4, <2>3, FreshAsked DEF LockInv
    <3> QED
      BY <1>3, <2>3, <3>1 DEF KbKept
  <2>4. CASE Fresh(fifo) /\ ~esb_tx_full
    <3>1. PICK i \in 1..Len(fifo) : fifo[i].fresh
      BY <2>4 DEF Fresh
    <3>2. Len(packets) = Len(fifo) /\ packets[i] = fifo[i]
      BY <1>4, <1>7, <2>4, AfterOf, AgedOf, ElementOfSeq
    <3>3. i \in 1..Len(fifo') /\ fifo'[i] = fifo[i]
      BY <1>5, <3>2
    <3> QED
      BY <1>4, <3>1, <3>3 DEF KbKept, Fresh
  <2> QED
    BY <1>4, <2>1, <2>2, <2>3, <2>4 DEF KbKept
<1> QED
  BY <1>6, <1>7

LEMMA FreshTail ==
  ASSUME NEW ps \in Seq(Sendable), ps # <<>>, Fresh(ps), ~Head(ps).fresh
  PROVE  Fresh(Tail(ps))
<1>1. PICK i \in 1..Len(ps) : ps[i].fresh
  BY DEF Fresh
<1>2. /\ Len(Tail(ps)) = Len(ps) - 1 /\ Len(ps) \in Nat /\ Head(ps) = ps[1]
      /\ \A j \in 1..Len(Tail(ps)) : Tail(ps)[j] = ps[j + 1]
  BY HeadTailProperties, LenProperties
<1>3. i # 1
  BY <1>1, <1>2
<1>4. i - 1 \in 1..Len(Tail(ps)) /\ (i - 1) + 1 = i
  BY <1>2, <1>3
<1>5. Tail(ps)[i - 1] = ps[i]
  BY <1>2, <1>4
<1> QED
  BY <1>1, <1>4, <1>5 DEF Fresh

LEMMA KbAcked ==
  ASSUME TxInv, TxInv', LockInv, ~drifted, KbKept, ~drifted', TxAcked
  PROVE  KbKept'
<1>1. /\ radio # NoPacket /\ fifo' = (IF fifo = <<>> THEN <<>> ELSE Tail(fifo))
      /\ kb_owed' = (kb_owed /\ ~radio.fresh) /\ UNCHANGED <<stash, at>>
      /\ Drifts(at \in {"hop", "trip"})
      /\ IF m_sync_tx_in_progress THEN UNCHANGED books ELSE motion_ring_consume(FALSE)
  BY DEF TxAcked, tuning
<1>2. hid_resync_pending' = hid_resync_pending
  BY <1>1 DEF motion_ring_consume, books
<1>3. CASE at \in {"none", "idle"}
  <2>1. Reported = fifo /\ Reported' = fifo' /\ fifo \in Seq(Sendable)
    BY <1>1, <1>3 DEF Reported, TxInv, Queues
  <2>2. fifo # <<>> /\ radio = Head(fifo)
    BY <1>1, <1>3, <2>1 DEF LockInv, FrontOf
  <2>3. Fresh(fifo) /\ ~radio.fresh => Fresh(fifo')
    BY <1>1, <2>1, <2>2, FreshTail
  <2> QED
    BY <1>1, <1>2, <2>1, <2>3 DEF KbKept
<1>4. CASE at \notin {"none", "idle"}
  <2>1. Reported' = Reported
    BY <1>1, <1>4 DEF Reported
  <2> QED
    BY <1>1, <1>2, <2>1 DEF KbKept
<1> QED
  BY <1>3, <1>4

LEMMA KbFailed ==
  ASSUME TxInv, TxInv', LockInv, ~drifted, KbKept, ~drifted', TxFailed
  PROVE  KbKept'
<1>1. /\ radio # NoPacket /\ UNCHANGED <<stash, at, kb_owed>>
      /\ Drifts(~m_sync_tx_in_progress)
      /\ m_sync_tx_in_progress => UNCHANGED books
  BY DEF TxFailed, tuning
<1>2. CASE m_sync_tx_in_progress
  <2>1. Reported' = Reported /\ UNCHANGED hid_resync_pending
    BY <1>1, <1>2 DEF Reported, TxInv, Phases, books
  <2> QED
    BY <1>1, <2>1, KbAside
<1>3. CASE ~m_sync_tx_in_progress
  <2>1. fifo' = <<>> /\ stash' = <<>>
    BY <1>1, <1>3, Together
  <2>2. at \in {"none", "idle"}
    <3>1. at # "wait"
      BY <1>1, <1>3 DEF LockInv
    <3>2. at \in {"hop", "trip"} => radio = FrontOf(stash)
      BY <1>1 DEF LockInv, Reported
    <3> QED
      BY <1>1, <2>1, <3>1, <3>2 DEF TxInv, Phases, FrontOf
  <2>3. Reported = fifo /\ fifo # <<>> /\ fifo \in Seq(Sendable)
    BY <1>1, <2>2 DEF LockInv, Reported, FrontOf, TxInv, Queues
  <2>4. hid_resync_pending' = hid_resync_pending \cup HidKinds(ring)
    BY <1>3, <2>1, <2>3 DEF TxFailed
  <2>5. Fresh(fifo) => "kb" \in HidKinds(ring)
    BY <2>3, FreshAsked DEF LockInv
  <2> QED
    BY <1>1, <2>3, <2>4, <2>5 DEF KbKept
<1> QED
  BY <1>2, <1>3

LEMMA KbFlushed ==
  ASSUME TxInv, TxInv', LockInv, ~drifted, KbKept, esb_transport_flush_tx
  PROVE  KbKept'
<1>1. at = "none" /\ at' = "idle" /\ UNCHANGED kb_owed
      /\ hid_resync_pending' = hid_resync_pending \cup HidKinds(ring)
  BY DEF esb_transport_flush_tx, tx_bookkeeping_resync
<1>2. Reported = fifo /\ fifo \in Seq(Sendable)
  BY <1>1 DEF Reported, TxInv, Queues
<1>3. Fresh(fifo) => "kb" \in HidKinds(ring)
  BY <1>2, FreshAsked DEF LockInv
<1> QED
  BY <1>1, <1>2, <1>3 DEF KbKept

LEMMA KbReturns ==
  ASSUME TxInv, TxInv', LockInv, ~drifted, KbKept,
         HopRetunes \/ HopBusy \/ TripRefused \/ TripReturns
  PROVE  KbKept'
<1>1. /\ at \notin {"none", "idle"} /\ at' = "none" /\ esb_restore_tx_or_drop /\ UNCHANGED kb_owed
      /\ at = "wait" => ~m_sync_tx_in_progress \/ radio = NoPacket
  BY DEF HopRetunes, HopBusy, TripRefused, TripReturns, Back
<1>2. CASE ~on
  BY <1>1, <1>2 DEF TxInv, Phases, KbKept
<1>3. CASE on
  <2>1. fifo = <<>>
    BY <1>1, NotWhileTrip
  <2>2. Len(fifo) + Len(stash) <= FIFO_SIZE
    BY <2>1, NoQueue, QueueFacts DEF TxInv, Queues
  <2>3. fifo' = <<>> \o stash /\ UNCHANGED hid_resync_pending
    BY <1>1, <1>3, <2>1, <2>2 DEF esb_restore_tx_or_drop
  <2>4. fifo' = stash
    BY <2>3, ConcatEmptySeq DEF TxInv, Queues
  <2>5. Reported' = Reported
    BY <1>1, <2>4 DEF Reported
  <2> QED
    BY <1>1, <2>3, <2>5, KbAside
<1> QED
  BY <1>2, <1>3 DEF TxInv, Flags

LEMMA KbStep ==
  ASSUME TxInv, TxInv', LockInv, [Next]_vars, ~drifted, KbKept, ~drifted'
  PROVE  KbKept'
<1>1. ASSUME NEW k \in {"kb", "mouse", "other", "shell"}, esb_transport_send(k)
      PROVE  KbKept'
  <2> DEFINE motion == IF k = "mouse" THEN 1 ELSE 0
  <2>1. motion \in {0, 1} /\ hid_resync_pending \subseteq hid_resync_pending \cup {PacketKind(k)}
    OBVIOUS
  <2>2. /\ Submit(PacketKind(k), motion, hid_resync_pending)
        /\ PacketKind(k) \in {"kb", "mouse", "other"}
        /\ motion + refund <= MaxMotion \/ (motion = 0 /\ PacketKind(k) # "mouse")
        /\ UNCHANGED <<stash, at>>
    BY <1>1, SendsOf
  <2> HIDE DEF motion
  <2> QED
    BY <2>1, <2>2, KbSubmit
<1>2. CASE InputSends
  <2>1. CASE UNCHANGED <<fifo, radio, books, kb_owed, drifted>>
    <3>1. Reported' = Reported /\ UNCHANGED <<kb_owed, hid_resync_pending>>
      BY <1>2, <2>1, InputOf DEF Reported, books
    <3> QED
      BY <3>1, KbAside
  <2>2. CASE Submit("mouse", 1, hid_resync_pending)
    BY <1>2, <2>2, InputOf, KbSubmit
  <2> QED
    BY <1>2, <2>1, <2>2, InputOf
<1>3. ASSUME NEW k \in {"kb", "mouse"}, hid_resync_work_fn(k) PROVE KbKept'
  <2>1. CASE ~on /\ UNCHANGED <<fifo, radio, ring, kb_owed, drifted>>
    BY <2>1 DEF TxInv, Phases, KbKept
  <2>2. CASE Submit(k, 0, hid_resync_pending \ {k})
    BY <1>3, <2>2, ResyncOf, KbSubmit
  <2> QED
    BY <1>3, <2>1, <2>2, ResyncOf
<1>4. CASE esb_transport_flush_tx
  BY <1>4, KbFlushed
<1>5. CASE TxAcked
  BY <1>5, KbAcked
<1>6. CASE TxFailed
  BY <1>6, KbFailed
<1>7. CASE HopStashes \/ TripStashes
  <2>1. /\ at = "none" /\ at' \in {"hop", "trip"} /\ Stash
        /\ UNCHANGED <<kb_owed, hid_resync_pending>>
    BY <1>7 DEF HopStashes, TripStashes, books
  <2>2. Reported' = Reported
    BY <2>1 DEF Reported, Stash, TxInv, Phases
  <2> QED
    BY <2>1, <2>2, KbAside
<1>8. CASE HopRetunes \/ HopBusy \/ TripRefused \/ TripReturns
  BY <1>8, KbReturns
<1>9. CASE TripSends
  <2>1. Reported' = Reported /\ UNCHANGED <<kb_owed, hid_resync_pending>>
    BY <1>9 DEF TripSends, Reported, books
  <2> QED
    BY <2>1, KbAside
<1>10. CASE esb_transport_on_slot_stop
  BY <1>10 DEF esb_transport_on_slot_stop, KbKept
<1>11. CASE InputTests \/ QuietPasses \/ esb_transport_on_slot_start \/ UNCHANGED vars
  <2>1. Reported' = Reported /\ UNCHANGED <<kb_owed, hid_resync_pending>>
    BY <1>11
    DEF InputTests, QuietPasses, esb_transport_on_slot_start, vars, tuning, books, Reported
  <2> QED
    BY <2>1, KbAside
<1>12. CASE send_idle_packet
  <2>1. CASE UNCHANGED <<fifo, radio, books, kb_owed, drifted>>
    <3>1. Reported' = Reported /\ UNCHANGED <<kb_owed, hid_resync_pending>>
      BY <1>12, <2>1, IdleOf DEF Reported, books
    <3> QED
      BY <3>1, KbAside
  <2>2. CASE Submit("other", 0, hid_resync_pending)
    BY <1>12, <2>2, IdleOf, KbSubmit
  <2> QED
    BY <1>12, <2>1, <2>2, IdleOf
<1> QED
  BY <1>1, <1>2, <1>3, <1>4, <1>5, <1>6, <1>7, <1>8, <1>9, <1>10, <1>11, <1>12 DEF Next

(* No step from lockstep to lockstep drops the newest keyboard report        *)
(* without asking for it again (tx_bookkeeping_resync, hid_resync_work_fn).  *)
THEOREM NoKeyForgotten == Spec => LockstepForgetsNothing
<1>1. Spec => [](TxInv /\ LockInv)
  BY TxInit, TxStep, LockInit, LockStep, PTL DEF Spec
<1>2. TxInv /\ LockInv => (~drifted => (KbNotForgotten <=> KbKept))
  BY KbMeans
<1>3. TxInv /\ LockInv /\ (TxInv /\ LockInv)' /\ [Next]_vars
        => (~drifted /\ KbKept => KbKept' \/ drifted')
  BY KbStep
<1> QED
  BY <1>1, <1>2, <1>3, PTL DEF Spec, LockstepForgetsNothing

(***************************************************************************)
(* The side trip                                                           *)
(***************************************************************************)

(* Behind the stash the FIFO is empty.  Unless the input thread has slipped  *)
(* a report in, the packet of the side trip is alone in the FIFO and on the  *)
(* air, and as long as it is there its flag is up: Back waits for it.        *)
TripInv ==
  /\ visiting \in BOOLEAN /\ strayed \in BOOLEAN /\ m_sync_tx_in_progress \in BOOLEAN
  /\ at = "trip" /\ on => fifo = <<>>
  /\ visiting /\ ~strayed =>
       /\ at = "wait"
       /\ fifo \in {<<>>, <<Sync>>} /\ radio \in {Sync, NoPacket}
       /\ radio # NoPacket => m_sync_tx_in_progress

LEMMA TripInit == Init => TripInv
  BY DEF Init, TripInv

(* What is sent from the workqueue is not sent during a side trip. *)
LEMMA AtNoneKeeps ==
  ASSUME TripInv, at \in {"none", "idle"}, at' \in {"none", "idle"},
         UNCHANGED <<visiting, strayed, m_sync_tx_in_progress>>
  PROVE  TripInv'
  BY DEF TripInv

LEMMA NothingBehind == Tail(<<Sync>>) = <<>> /\ FrontOf(<<>>) = NoPacket
  BY DEF FrontOf

LEMMA AckKeeps == TripInv /\ TxAcked => TripInv'
<1> SUFFICES ASSUME TripInv, TxAcked PROVE TripInv'
  OBVIOUS
<1>1. UNCHANGED <<on, visiting, strayed, at>> /\ m_sync_tx_in_progress' = FALSE
      /\ fifo' = (IF fifo = <<>> THEN <<>> ELSE Tail(fifo)) /\ radio' = FrontOf(fifo')
  BY DEF TxAcked, tuning
<1>2. fifo \in {<<>>, <<Sync>>} => fifo' = <<>> /\ radio' = NoPacket
  BY <1>1, NothingBehind
<1> QED
  BY <1>1, <1>2 DEF TripInv

LEMMA FailKeeps == TripInv /\ TxFailed => TripInv'
<1> SUFFICES ASSUME TripInv, TxFailed PROVE TripInv'
  OBVIOUS
<1>1. UNCHANGED <<on, visiting, strayed, at>> /\ m_sync_tx_in_progress' = FALSE
      /\ radio' = NoPacket /\ fifo' \in {fifo, <<>>}
  BY DEF TxFailed, tuning
<1> QED
  BY <1>1 DEF TripInv

LEMMA TripSendsKeeps == TripInv /\ TripSends => TripInv'
<1> SUFFICES ASSUME TripInv, TripSends PROVE TripInv'
  OBVIOUS
<1>1. fifo' = <<Sync>>
  BY DEF TripInv, TripSends, Sync
<1>2. radio' = Sync
  BY <1>1 DEF TripSends, FrontOf
<1> QED
  BY <1>1, <1>2 DEF TripInv, TripSends

LEMMA ReturnKeeps == TripInv /\ TripReturns => TripInv'
<1> SUFFICES ASSUME TripInv, TripReturns PROVE TripInv'
  OBVIOUS
<1>1. /\ at = "wait" /\ at' = "none" /\ m_sync_tx_in_progress' = FALSE
      /\ ~m_sync_tx_in_progress \/ radio = NoPacket
      /\ visiting' = (visiting /\ radio # NoPacket)
      /\ strayed' = (strayed /\ visiting /\ radio # NoPacket)
  BY DEF TripReturns, Back
<1>2. ~(visiting' /\ ~strayed')
  BY <1>1 DEF TripInv
<1> QED
  BY <1>1, <1>2 DEF TripInv

LEMMA TripStep == TripInv /\ [Next]_vars => TripInv'
<1> SUFFICES ASSUME TripInv, [Next]_vars PROVE TripInv'
  OBVIOUS
<1>1. ASSUME NEW kind \in {"kb", "mouse", "other", "shell"}, esb_transport_send(kind)
      PROVE  TripInv'
  BY <1>1, AtNoneKeeps DEF esb_transport_send, tuning
<1>2. CASE InputTests
  BY <1>2 DEF InputTests, tuning, TripInv
<1>3. CASE InputSends
  BY <1>3 DEF InputSends, TripInv, Submit
<1>4. ASSUME NEW kind \in {"kb", "mouse"}, hid_resync_work_fn(kind)
      PROVE  TripInv'
  BY <1>4, AtNoneKeeps DEF hid_resync_work_fn, tuning
<1>5. CASE esb_transport_flush_tx
  BY <1>5, AtNoneKeeps DEF esb_transport_flush_tx
<1>6. CASE TxAcked
  BY <1>6, AckKeeps
<1>7. CASE TxFailed
  BY <1>7, FailKeeps
<1>8. CASE HopStashes
  BY <1>8 DEF HopStashes, TripInv
<1>9. CASE HopRetunes \/ HopBusy
  <2>1. at = "hop" /\ at' = "none" /\ UNCHANGED m_sync_tx_in_progress
    BY <1>9 DEF HopRetunes, HopBusy
  <2>2. visiting' = FALSE \/ UNCHANGED <<visiting, strayed>>
    BY <1>9 DEF HopRetunes, HopBusy
  <2>3. visiting' \in BOOLEAN /\ strayed' \in BOOLEAN
    BY <1>9 DEF HopRetunes, HopBusy, TripInv
  <2> QED
    BY <2>1, <2>2, <2>3 DEF TripInv
<1>10. CASE QuietPasses
  BY <1>10, AtNoneKeeps DEF QuietPasses
<1>11. CASE TripStashes
  BY <1>11 DEF TripStashes, Stash, TripInv
<1>12. CASE TripRefused
  BY <1>12 DEF TripRefused, TripInv
<1>13. CASE TripSends
  BY <1>13, TripSendsKeeps
<1>14. CASE TripReturns
  BY <1>14, ReturnKeeps
<1>15. CASE esb_transport_on_slot_stop
  BY <1>15 DEF esb_transport_on_slot_stop, tuning, TripInv
<1>16. CASE esb_transport_on_slot_start
  BY <1>16 DEF esb_transport_on_slot_start, TripInv
<1>17. CASE UNCHANGED vars
  BY <1>17 DEF vars, tuning, TripInv
<1>18. CASE send_idle_packet
  BY <1>18, AtNoneKeeps DEF send_idle_packet
<1> QED
  BY <1>1, <1>2, <1>3, <1>4, <1>5, <1>6, <1>7, <1>8, <1>9, <1>10, <1>11, <1>12,
     <1>13, <1>14, <1>15, <1>16, <1>17, <1>18 DEF Next

(* With a FIFO of any size and any number of motions and slots, a report     *)
(* leaves on the rendezvous channel, or the radio stays there after          *)
(* esb_transport_send_blocking, only if the input thread has sent during     *)
(* the trip: no failure, hop, flush or slot stop does it.                    *)
THEOREM TripComesBack == Spec => []StrandedOnlyByInput
<1>1. Spec => []TripInv
  BY TripInit, TripStep, PTL DEF Spec
<1>2. TripInv => StrandedOnlyByInput
  BY DEF TripInv, StrandedOnlyByInput, UserTxOnActive, Sync, NoPacket, Packet
<1> QED
  BY <1>1, <1>2, PTL

=============================================================================
