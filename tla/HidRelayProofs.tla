--------------------------- MODULE HidRelayProofs ---------------------------
(***************************************************************************)
(* Theorems about HidRelay, for any finite set of inputs and any modifiers *)
(* they bring, any ring depths and any FIFO size.                          *)
(*                                                                         *)
(*   ModsAreThoseHeld       a modifier is in the report exactly while      *)
(*                          something held brings it                       *)
(*   RelayTypes             types, and the bounds of rings and FIFO        *)
(*   RelayImplementsStream  each kind of report is a ReportStream          *)
(*                                                                         *)
(* For the first, the strengthening says what the reference counts count:  *)
(* the held inputs that bring the modifier.  For the last it is Ordered:   *)
(* of a kind that nothing excuses, the FIFO comes before what the event    *)
(* thread has in hand and that before the ring, each in its order, and     *)
(* every report after the one the host shows is in one of them, but for    *)
(* the newest, which the event thread may still have to send.              *)
(***************************************************************************)
EXTENDS HidRelay, FiniteSetTheorems, SequenceTheorems, TLAPS

Sets == {"explicit", "implicit"}

(* The held inputs that bring modifier m. *)
Bringers(set, m) == {i \in held : m \in ModsOf(set, i)}

ModsTyped ==
  /\ held \subseteq Inputs
  /\ rc \in [Sets -> [Mods -> Nat]] /\ mods \in [Sets -> SUBSET Mods]

CountsFollowKeys ==
  \A set \in Sets, m \in Mods : rc[set][m] = Cardinality(Bringers(set, m))

ModsInv == ModsTyped /\ CountsFollowKeys /\ ModsFollowKeys

LEMMA ModsOfType ==
  ASSUME NEW set \in Sets, NEW i \in Inputs
  PROVE  ModsOf(set, i) \subseteq Mods
  BY RelayAssumption DEF RelayAssumption, ModsOf

LEMMA BringersFinite ==
  ASSUME ModsTyped, NEW set, NEW m
  PROVE  /\ IsFiniteSet(Bringers(set, m))
         /\ Cardinality(Bringers(set, m)) \in Nat
<1>1. Bringers(set, m) \subseteq Inputs
  BY DEF ModsTyped, Bringers
<1>2. IsFiniteSet(Bringers(set, m))
  BY <1>1, FS_Subset, RelayAssumption DEF RelayAssumption
<1> QED
  BY <1>2, FS_CardinalityType

(* A modifier counts zero exactly if nothing held brings it. *)
LEMMA CountZero ==
  ASSUME ModsInv, NEW set \in Sets, NEW m \in Mods
  PROVE  rc[set][m] = 0 <=> Bringers(set, m) = {}
  BY BringersFinite, FS_EmptySet DEF ModsInv, CountsFollowKeys

LEMMA ModsFromBringers ==
  ASSUME ModsInv, NEW set \in Sets, NEW m \in Mods
  PROVE  m \in mods[set] <=> Bringers(set, m) # {}
  BY DEF ModsInv, ModsFollowKeys, Bringers, Sets

LEMMA ModsInit == Init => ModsInv
<1> SUFFICES ASSUME Init
             PROVE  ModsInv
  OBVIOUS
<1>1. held = Before /\ held \subseteq Inputs
  BY RelayAssumption DEF Init, RelayAssumption
<1>2. \A set \in Sets, i \in held : ModsOf(set, i) \subseteq Mods
  BY <1>1, ModsOfType
<1>3. \A set \in Sets, m \in Mods : Cardinality(Bringers(set, m)) \in Nat
  <2> TAKE set \in Sets, m \in Mods
  <2>1. Bringers(set, m) \subseteq Inputs
    BY <1>1 DEF Bringers
  <2> QED
    BY <2>1, FS_Subset, FS_CardinalityType, RelayAssumption DEF RelayAssumption
<1>4. rc = [set \in Sets |-> [m \in Mods |-> Cardinality(Bringers(set, m))]]
  BY <1>1 DEF Init, Bringers, Sets
<1>5. mods = [set \in Sets |-> UNION {ModsOf(set, i) : i \in held}]
  BY <1>1 DEF Init, Sets
<1>6. \A set \in Sets : UNION {ModsOf(set, i) : i \in held} \subseteq Mods
  BY <1>2
<1> QED
  BY <1>1, <1>3, <1>4, <1>5, <1>6
  DEF ModsInv, ModsTyped, CountsFollowKeys, ModsFollowKeys, Sets

(* A press adds the input to the bringers of its modifiers. *)
LEMMA PressKeeps ==
  ASSUME ModsInv, NEW i \in Inputs, i \notin held, mods_inc(i), held' = held \cup {i}
  PROVE  ModsInv'
<1> USE DEF ModsInv
<1>1. \A set \in Sets, m \in Mods : rc'[set][m] =
        IF m \in ModsOf(set, i) THEN rc[set][m] + 1 ELSE rc[set][m]
  BY DEF mods_inc, ModsTyped
<1>2. \A set \in Sets : mods'[set] =
        mods[set] \cup {m \in ModsOf(set, i) : rc[set][m] = 0}
  BY DEF mods_inc, ModsTyped
<1>3. ModsTyped'
  <2>1. rc' \in [Sets -> [Mods -> Nat]]
    BY DEF mods_inc, ModsTyped
  <2>2. mods' \in [Sets -> SUBSET Mods]
    BY ModsOfType DEF mods_inc, ModsTyped
  <2> QED
    BY <2>1, <2>2 DEF ModsTyped
<1>4. ASSUME NEW set \in Sets, NEW m \in Mods
      PROVE  Bringers(set, m)' = IF m \in ModsOf(set, i) THEN Bringers(set, m) \cup {i}
                                 ELSE Bringers(set, m)
  BY DEF Bringers, ModsOf
<1>5. CountsFollowKeys'
  <2> SUFFICES ASSUME NEW set \in Sets, NEW m \in Mods
               PROVE  rc'[set][m] = Cardinality(Bringers(set, m)')
    BY DEF CountsFollowKeys
  <2>1. i \notin Bringers(set, m)
    BY DEF Bringers
  <2>2. IsFiniteSet(Bringers(set, m))
    BY BringersFinite
  <2>3. Cardinality(Bringers(set, m) \cup {i}) = Cardinality(Bringers(set, m)) + 1
    BY <2>1, <2>2, FS_AddElement
  <2>4. rc[set][m] = Cardinality(Bringers(set, m))
    BY DEF CountsFollowKeys
  <2> QED
    BY <1>1, <1>4, <2>3, <2>4
<1>6. ModsFollowKeys'
  <2> SUFFICES ASSUME NEW set \in Sets
               PROVE  mods'[set] = UNION {ModsOf(set, j) : j \in held'}
    BY DEF ModsFollowKeys, Sets, ModsOf
  <2>1. \A m \in ModsOf(set, i) : rc[set][m] # 0 => m \in mods[set]
    BY CountZero, ModsFromBringers, ModsOfType
  <2>2. mods'[set] = mods[set] \cup ModsOf(set, i)
    BY <1>2, <2>1
  <2>3. mods[set] = UNION {ModsOf(set, j) : j \in held}
    BY DEF ModsFollowKeys, Sets
  <2> QED
    BY <2>2, <2>3
<1> QED
  BY <1>3, <1>5, <1>6

(* A release takes it from them, and a modifier only the input brought goes. *)
LEMMA ReleaseKeeps ==
  ASSUME ModsInv, NEW i \in held, mods_dec(i), held' = held \ {i}
  PROVE  ModsInv'
<1> USE DEF ModsInv
<1>0. i \in Inputs
  BY DEF ModsTyped
<1>1. \A set \in Sets, m \in Mods : rc'[set][m] =
        IF m \in ModsOf(set, i) /\ rc[set][m] > 0 THEN rc[set][m] - 1 ELSE rc[set][m]
  BY DEF mods_dec, ModsTyped
<1>2. \A set \in Sets : mods'[set] =
        mods[set] \ {m \in ModsOf(set, i) : rc[set][m] = 1}
  BY DEF mods_dec, ModsTyped
<1>3. ModsTyped'
  <2>1. rc' \in [Sets -> [Mods -> Nat]]
    BY DEF mods_dec, ModsTyped
  <2>2. mods' \in [Sets -> SUBSET Mods]
    BY DEF mods_dec, ModsTyped
  <2> QED
    BY <2>1, <2>2 DEF ModsTyped
<1>4. ASSUME NEW set \in Sets, NEW m \in Mods
      PROVE  Bringers(set, m)' = IF m \in ModsOf(set, i) THEN Bringers(set, m) \ {i}
                                 ELSE Bringers(set, m)
  BY DEF Bringers, ModsOf
<1>5. ASSUME NEW set \in Sets, NEW m \in Mods, m \in ModsOf(set, i)
      PROVE  /\ rc[set][m] > 0
             /\ Cardinality(Bringers(set, m)') = rc[set][m] - 1
  <2>1. i \in Bringers(set, m)
    BY <1>5 DEF Bringers
  <2>2. IsFiniteSet(Bringers(set, m)) /\ Cardinality(Bringers(set, m)) \in Nat
    BY BringersFinite
  <2>3. rc[set][m] = Cardinality(Bringers(set, m))
    BY DEF CountsFollowKeys
  <2>4. rc[set][m] # 0
    BY <2>1, CountZero
  <2>5. Cardinality(Bringers(set, m) \ {i}) = Cardinality(Bringers(set, m)) - 1
    BY <2>1, <2>2, FS_RemoveElement
  <2>6. Bringers(set, m)' = Bringers(set, m) \ {i}
    BY <1>4, <1>5
  <2>7. rc[set][m] > 0
    BY <2>2, <2>3, <2>4
  <2> QED
    BY <2>3, <2>5, <2>6, <2>7
<1>6. CountsFollowKeys'
  <2> SUFFICES ASSUME NEW set \in Sets, NEW m \in Mods
               PROVE  rc'[set][m] = Cardinality(Bringers(set, m)')
    BY DEF CountsFollowKeys
  <2>1. CASE m \in ModsOf(set, i)
    BY <1>1, <1>5, <2>1
  <2>2. CASE m \notin ModsOf(set, i)
    BY <1>1, <1>4, <2>2 DEF CountsFollowKeys
  <2> QED
    BY <2>1, <2>2
<1>7. ModsFollowKeys'
  <2> SUFFICES ASSUME NEW set \in Sets
               PROVE  mods'[set] = UNION {ModsOf(set, j) : j \in held'}
    BY DEF ModsFollowKeys, Sets, ModsOf
  <2>1. ASSUME NEW m \in Mods
        PROVE  m \in mods'[set] <=> Bringers(set, m)' # {}
    <3>1. CASE m \in ModsOf(set, i)
      <4>1. IsFiniteSet(Bringers(set, m)')
        BY <1>4, BringersFinite, FS_Subset
      <4>2. Bringers(set, m)' = {} <=> Cardinality(Bringers(set, m)') = 0
        BY <4>1, FS_EmptySet
      <4>3. rc[set][m] \in Nat
        BY DEF ModsTyped
      <4>4. Bringers(set, m)' = {} <=> rc[set][m] = 1
        BY <1>5, <3>1, <4>2, <4>3
      <4>5. m \in mods[set]
        BY <3>1, ModsFromBringers DEF Bringers
      <4> QED
        BY <1>2, <3>1, <4>4, <4>5
    <3>2. CASE m \notin ModsOf(set, i)
      BY <1>2, <1>4, <3>2, ModsFromBringers
    <3> QED
      BY <3>1, <3>2
  <2>2. \A m \in Mods : Bringers(set, m)' # {} <=> \E j \in held' : m \in ModsOf(set, j)
    BY DEF Bringers, ModsOf
  <2>3. mods'[set] \subseteq Mods
    BY <1>3 DEF ModsTyped
  <2>4. \A j \in held' : ModsOf(set, j) \subseteq Mods
    BY <1>3, ModsOfType DEF ModsTyped
  <2> QED
    BY <2>1, <2>2, <2>3, <2>4
<1> QED
  BY <1>3, <1>6, <1>7

(* Only key events touch the modifiers. *)
LEMMA ModsAside ==
  ASSUME ModsInv, UNCHANGED <<held, rc, mods>>
  PROVE  ModsInv'
  BY DEF ModsInv, ModsTyped, CountsFollowKeys, ModsFollowKeys, Bringers, ModsOf

LEMMA ModsStep == ModsInv /\ [Next]_vars => ModsInv'
<1> SUFFICES ASSUME ModsInv, [Next]_vars
             PROVE  ModsInv'
  OBVIOUS
<1>1. ASSUME NEW i \in Inputs, hid_relay_cb(i)
      PROVE  ModsInv'
  <2>1. CASE i \in held
    BY <1>1, <2>1, ReleaseKeeps DEF hid_relay_cb
  <2>2. CASE i \notin held
    BY <1>1, <2>2, PressKeeps DEF hid_relay_cb
  <2> QED
    BY <2>1, <2>2
<1>2. CASE EventThread
  <2>1. UNCHANGED body
    BY <1>2 DEF EventThread, Snapshots, DrainTakes, DrainSends, DrainReparks,
                SnapshotSent, SnapshotParked, RetryScheduled
  <2> QED
    BY <2>1, ModsAside DEF body
<1>3. CASE hid_retry_work_fn \/ hid_resync_cb
  <2>1. UNCHANGED body
    BY <1>3 DEF hid_retry_work_fn, hid_resync_cb
  <2> QED
    BY <2>1, ModsAside DEF body
<1>4. CASE \/ QuietBegins \/ QuietEnds \/ TxAcked \/ TxFailed \/ OtherFlush
           \/ SlotStarts \/ Connects \/ Disconnects \/ SlotStops
  <2>1. UNCHANGED body
    BY <1>4 DEF QuietBegins, QuietEnds, TxAcked, TxFailed, OtherFlush, SlotStarts,
                Connects, Disconnects, SlotStops
  <2> QED
    BY <2>1, ModsAside DEF body
<1>5. CASE UNCHANGED vars
  BY <1>5, ModsAside DEF vars, body
<1> QED
  BY <1>1, <1>2, <1>3, <1>4, <1>5 DEF Next

(* However presses and releases of inputs that share modifiers cross, the    *)
(* report has the modifiers of those held (mods_inc, mods_dec).              *)
THEOREM ModsAreThoseHeld == Spec => []ModsFollowKeys
<1>1. ModsInv => ModsFollowKeys
  BY DEF ModsInv
<1> QED
  BY <1>1, ModsInit, ModsStep, PTL DEF Spec

(***************************************************************************)
(* Reports of one kind in a queue                                          *)
(***************************************************************************)

AnyReport == [kind : Kinds, n : Nat]

(* The numbers of kind k in a queue, and whether they come in their order.  *)
Nums(k, q) == {q[i].n : i \in {j \in 1..Len(q) : q[j].kind = k}}
InOrder(k, q) ==
  \A i, j \in 1..Len(q) : i < j /\ q[i].kind = k /\ q[j].kind = k => q[i].n <= q[j].n
Ascending(s) == \A i, j \in 1..Len(s) : i < j => s[i] <= s[j]
Below(S, T) == \A x \in S, y \in T : x <= y

LEMMA ToSetOf ==
  ASSUME NEW s \in Seq(Nat)
  PROVE  /\ ToSet(s) = {s[i] : i \in 1..Len(s)} /\ ToSet(s) \subseteq Nat
         /\ Len(s) \in Nat
  BY LenProperties, ElementOfSeq DEF ToSet

LEMMA ToSetConcat ==
  ASSUME NEW s \in Seq(Nat), NEW t \in Seq(Nat)
  PROVE  s \o t \in Seq(Nat) /\ ToSet(s \o t) = ToSet(s) \cup ToSet(t)
<1> DEFINE all == s \o t
<1>1. /\ all \in Seq(Nat) /\ Len(all) = Len(s) + Len(t)
      /\ \A i \in 1..Len(s) + Len(t) :
           all[i] = IF i <= Len(s) THEN s[i] ELSE t[i - Len(s)]
      /\ Len(s) \in Nat /\ Len(t) \in Nat
  BY ConcatProperties, LenProperties
<1> HIDE DEF all
<1>2. /\ ToSet(s) = {s[i] : i \in 1..Len(s)} /\ ToSet(t) = {t[i] : i \in 1..Len(t)}
      /\ ToSet(all) = {all[i] : i \in 1..Len(s) + Len(t)}
  BY <1>1, ToSetOf
<1>3. \A i \in 1..Len(s) + Len(t) :
        \/ i \in 1..Len(s) /\ all[i] = s[i]
        \/ i - Len(s) \in 1..Len(t) /\ all[i] = t[i - Len(s)]
  BY <1>1
<1>4. ToSet(all) \subseteq ToSet(s) \cup ToSet(t)
  BY <1>2, <1>3
<1>5. \A i \in 1..Len(s) : i \in 1..Len(s) + Len(t) /\ all[i] = s[i]
  BY <1>1
<1>6. \A i \in 1..Len(t) : i + Len(s) \in 1..Len(s) + Len(t) /\ all[i + Len(s)] = t[i]
  <2> TAKE i \in 1..Len(t)
  <2>1. i + Len(s) \in 1..Len(s) + Len(t) /\ ~(i + Len(s) <= Len(s)) /\ (i + Len(s)) - Len(s) = i
    BY <1>1
  <2> QED
    BY <1>1, <2>1
<1>7. ToSet(s) \subseteq ToSet(all)
  BY <1>2, <1>5
<1>8. ToSet(t) \subseteq ToSet(all)
  BY <1>2, <1>6
<1> QED
  BY <1>1, <1>4, <1>7, <1>8 DEF all

LEMMA ToSetAppend ==
  ASSUME NEW s \in Seq(Nat), NEW x \in Nat
  PROVE  /\ Append(s, x) \in Seq(Nat) /\ ToSet(Append(s, x)) = ToSet(s) \cup {x}
         /\ Append(s, x) = s \o <<x>> /\ Len(Append(s, x)) = Len(s) + 1
<1>1. Append(s, x) = s \o <<x>> /\ <<x>> \in Seq(Nat) /\ Len(Append(s, x)) = Len(s) + 1
  BY AppendIsConcat, AppendProperties
<1>2. ToSet(<<x>>) = {x}
  BY DEF ToSet
<1>3. s \o <<x>> \in Seq(Nat) /\ ToSet(s \o <<x>>) = ToSet(s) \cup ToSet(<<x>>)
  BY <1>1, ToSetConcat
<1> QED
  BY <1>1, <1>2, <1>3

LEMMA ToSetTail ==
  ASSUME NEW s \in Seq(Nat), s # <<>>
  PROVE  /\ Tail(s) \in Seq(Nat) /\ Head(s) \in Nat
         /\ ToSet(s) = {Head(s)} \cup ToSet(Tail(s))
<1>1. s = <<Head(s)>> \o Tail(s) /\ Tail(s) \in Seq(Nat) /\ Head(s) \in Nat
  BY HeadTailProperties
<1>2. <<Head(s)>> \in Seq(Nat) /\ ToSet(<<Head(s)>>) = {Head(s)}
  BY <1>1 DEF ToSet
<1>3. ToSet(<<Head(s)>> \o Tail(s)) = ToSet(<<Head(s)>>) \cup ToSet(Tail(s))
  BY <1>1, <1>2, ToSetConcat
<1> QED
  BY <1>1, <1>2, <1>3

LEMMA AscendingConcat ==
  ASSUME NEW s \in Seq(Nat), NEW t \in Seq(Nat), Ascending(s), Ascending(t),
         Below(ToSet(s), ToSet(t))
  PROVE  Ascending(s \o t)
<1>1. /\ s \o t \in Seq(Nat) /\ Len(s \o t) = Len(s) + Len(t)
      /\ \A i \in 1..Len(s) + Len(t) :
           (s \o t)[i] = IF i <= Len(s) THEN s[i] ELSE t[i - Len(s)]
      /\ Len(s) \in Nat /\ Len(t) \in Nat
  BY ConcatProperties, LenProperties
<1> SUFFICES ASSUME NEW i \in 1..Len(s) + Len(t), NEW j \in 1..Len(s) + Len(t), i < j
             PROVE  (s \o t)[i] <= (s \o t)[j]
  BY <1>1 DEF Ascending
<1>2. CASE j <= Len(s)
  BY <1>1, <1>2 DEF Ascending
<1>3. CASE i > Len(s)
  <2>1. i - Len(s) \in 1..Len(t) /\ j - Len(s) \in 1..Len(t) /\ i - Len(s) < j - Len(s)
    BY <1>1, <1>3
  <2>2. (s \o t)[i] = t[i - Len(s)] /\ (s \o t)[j] = t[j - Len(s)]
    BY <1>1, <1>3
  <2> QED
    BY <2>1, <2>2 DEF Ascending
<1>4. CASE i <= Len(s) /\ j > Len(s)
  <2>1. i \in 1..Len(s) /\ j - Len(s) \in 1..Len(t)
    BY <1>1, <1>4
  <2>2. (s \o t)[i] = s[i] /\ (s \o t)[j] = t[j - Len(s)]
    BY <1>1, <1>4
  <2>3. s[i] \in ToSet(s) /\ t[j - Len(s)] \in ToSet(t)
    BY <2>1, ToSetOf
  <2> QED
    BY <2>2, <2>3 DEF Below
<1> QED
  BY <1>1, <1>2, <1>3, <1>4

LEMMA AscendingTail ==
  ASSUME NEW s \in Seq(Nat), s # <<>>, Ascending(s)
  PROVE  Ascending(Tail(s)) /\ Below({Head(s)}, ToSet(Tail(s)))
<1>1. /\ Tail(s) \in Seq(Nat) /\ Len(Tail(s)) = Len(s) - 1 /\ Head(s) = s[1]
      /\ \A i \in 1..Len(Tail(s)) : Tail(s)[i] = s[i + 1]
      /\ Len(s) \in Nat \ {0}
  BY HeadTailProperties, EmptySeq
<1>2. Ascending(Tail(s))
  BY <1>1 DEF Ascending
<1>3. \A i \in 1..Len(Tail(s)) : s[1] <= Tail(s)[i]
  BY <1>1 DEF Ascending
<1>4. ToSet(Tail(s)) = {Tail(s)[i] : i \in 1..Len(Tail(s))}
  BY <1>1, ToSetOf
<1> QED
  BY <1>1, <1>2, <1>3, <1>4 DEF Below

LEMMA NumsConcat ==
  ASSUME NEW k \in Kinds, NEW q \in Seq(AnyReport), NEW r \in Seq(AnyReport)
  PROVE  /\ q \o r \in Seq(AnyReport)
         /\ Nums(k, q \o r) = Nums(k, q) \cup Nums(k, r)
         /\ InOrder(k, q) /\ InOrder(k, r) /\ Below(Nums(k, q), Nums(k, r))
              => InOrder(k, q \o r)
<1> DEFINE all == q \o r
<1>1. /\ all \in Seq(AnyReport) /\ Len(all) = Len(q) + Len(r)
      /\ \A i \in 1..Len(q) + Len(r) :
           all[i] = IF i <= Len(q) THEN q[i] ELSE r[i - Len(q)]
      /\ Len(q) \in Nat /\ Len(r) \in Nat
  BY ConcatProperties, LenProperties
<1> HIDE DEF all
<1>2. \A i \in 1..Len(q) : i \in 1..Len(all) /\ all[i] = q[i]
  BY <1>1
<1>3. \A i \in 1..Len(r) : i + Len(q) \in 1..Len(all) /\ all[i + Len(q)] = r[i]
  BY <1>1
<1>4. \A i \in 1..Len(all) : \/ i \in 1..Len(q) /\ all[i] = q[i]
                             \/ i > Len(q) /\ i - Len(q) \in 1..Len(r) /\ all[i] = r[i - Len(q)]
  BY <1>1
<1>5. Nums(k, all) = Nums(k, q) \cup Nums(k, r)
  <2>1. Nums(k, q) \subseteq Nums(k, all)
    BY <1>2 DEF Nums
  <2>2. Nums(k, r) \subseteq Nums(k, all)
    BY <1>3 DEF Nums
  <2>3. Nums(k, all) \subseteq Nums(k, q) \cup Nums(k, r)
    BY <1>4 DEF Nums
  <2> QED
    BY <2>1, <2>2, <2>3
<1>6. ASSUME InOrder(k, q), InOrder(k, r), Below(Nums(k, q), Nums(k, r))
      PROVE  InOrder(k, all)
  <2> SUFFICES ASSUME NEW i \in 1..Len(all), NEW j \in 1..Len(all), i < j,
                      all[i].kind = k, all[j].kind = k
               PROVE  all[i].n <= all[j].n
    BY DEF InOrder
  <2>1. CASE j \in 1..Len(q)
    <3>1. i \in 1..Len(q) /\ all[i] = q[i] /\ all[j] = q[j]
      BY <1>1, <1>2, <2>1
    <3> QED
      BY <1>6, <2>1, <3>1 DEF InOrder
  <2>2. CASE i \notin 1..Len(q)
    <3>1. /\ i - Len(q) \in 1..Len(r) /\ all[i] = r[i - Len(q)]
          /\ j - Len(q) \in 1..Len(r) /\ all[j] = r[j - Len(q)]
          /\ i - Len(q) < j - Len(q)
      BY <1>1, <1>4, <2>2
    <3> QED
      BY <1>6, <3>1 DEF InOrder
  <2>3. CASE i \in 1..Len(q) /\ j \notin 1..Len(q)
    <3>1. all[i] = q[i] /\ j - Len(q) \in 1..Len(r) /\ all[j] = r[j - Len(q)]
      BY <1>2, <1>4, <2>3
    <3>2. all[i].n \in Nums(k, q) /\ all[j].n \in Nums(k, r)
      BY <2>3, <3>1 DEF Nums
    <3> QED
      BY <1>6, <3>2 DEF Below
  <2> QED
    BY <2>1, <2>2, <2>3
<1> QED
  BY <1>1, <1>5, <1>6 DEF all

LEMMA ReportsOf ==
  ASSUME NEW k \in Kinds, NEW c \in Kinds, NEW s \in Seq(Nat)
  PROVE  /\ Reports(c, s) \in Seq(AnyReport) /\ Len(Reports(c, s)) = Len(s)
         /\ Nums(k, Reports(c, s)) = IF k = c THEN ToSet(s) ELSE {}
         /\ Ascending(s) => InOrder(k, Reports(c, s))
         /\ KindsOf(Reports(c, s)) \subseteq {c}
<1>1. Len(s) \in Nat /\ DOMAIN s = 1..Len(s) /\ \A i \in 1..Len(s) : s[i] \in Nat
  BY LenProperties, ElementOfSeq
<1>2. Reports(c, s) = [i \in 1..Len(s) |-> [kind |-> c, n |-> s[i]]]
  BY <1>1 DEF Reports, Report
<1>3. Reports(c, s) \in [1..Len(s) -> AnyReport]
  BY <1>1, <1>2 DEF AnyReport
<1>4. Reports(c, s) \in Seq(AnyReport) /\ Len(Reports(c, s)) = Len(s)
  BY <1>1, <1>3, SeqDef, LenProperties
<1>5. \A i \in 1..Len(s) : Reports(c, s)[i].kind = c /\ Reports(c, s)[i].n = s[i]
  BY <1>2
<1>6. Nums(k, Reports(c, s)) = IF k = c THEN ToSet(s) ELSE {}
  BY <1>4, <1>5, ToSetOf DEF Nums
<1>7. KindsOf(Reports(c, s)) \subseteq {c}
  BY <1>1, <1>4, <1>5, LenProperties DEF KindsOf
<1> QED
  BY <1>4, <1>5, <1>6, <1>7 DEF InOrder, Ascending

(* The length SubSeq has when it drops the first d of n. *)
LEMMA CutLength ==
  ASSUME NEW n \in Nat, NEW d \in 0..n
  PROVE  /\ (IF d + 1 <= n THEN n - (d + 1) + 1 ELSE 0) = n - d
         /\ d + 1 \in 1..n + 1 /\ n - (d + 1) + 1 = n - d
         /\ \A i \in Nat : (d + 1) + i - 1 = d + i
  OBVIOUS

(* What is left of a queue when its first reports are cut off. *)
LEMMA CutOff ==
  ASSUME NEW q \in Seq(AnyReport), NEW d \in 0..Len(q)
  PROVE  LET rest == SubSeq(q, d + 1, Len(q))
             gone == SubSeq(q, 1, d)
         IN /\ rest \in Seq(AnyReport) /\ Len(rest) = Len(q) - d
            /\ KindsOf(gone) = {q[i].kind : i \in 1..d} /\ KindsOf(gone) \subseteq KindsOf(q)
            /\ \A k \in Kinds :
                 /\ Nums(k, rest) \subseteq Nums(k, q)
                 /\ k \notin KindsOf(gone) => Nums(k, rest) = Nums(k, q)
                 /\ InOrder(k, q) => InOrder(k, rest)
<1> DEFINE rest == SubSeq(q, d + 1, Len(q))
           gone == SubSeq(q, 1, d)
<1>0. Len(q) \in Nat /\ d \in Nat /\ d <= Len(q) /\ DOMAIN q = 1..Len(q)
      /\ \A i \in 1..Len(q) : q[i] \in AnyReport
  BY LenProperties, ElementOfSeq
<1>1. /\ rest \in Seq(AnyReport) /\ Len(rest) = Len(q) - d
      /\ \A i \in 1..Len(q) - d : rest[i] = q[d + i]
  <2>1. d + 1 \in 1..Len(q) + 1
    BY <1>0
  <2>2. /\ rest \in Seq(AnyReport)
        /\ Len(rest) = IF d + 1 <= Len(q) THEN Len(q) - (d + 1) + 1 ELSE 0
        /\ \A i \in 1 .. Len(q) - (d + 1) + 1 : rest[i] = q[(d + 1) + i - 1]
    BY <1>0, <2>1, SubSeqProperties
  <2> HIDE DEF rest
  <2>3. Len(rest) = Len(q) - d
    BY <1>0, <2>2, CutLength
  <2>4. ASSUME NEW i \in 1..Len(q) - d
        PROVE  rest[i] = q[d + i]
    <3>1. i \in 1 .. Len(q) - (d + 1) + 1 /\ (d + 1) + i - 1 = d + i
      BY <1>0
    <3> QED
      BY <2>2, <3>1
  <2> QED
    BY <2>2, <2>3, <2>4
<1>2. /\ gone \in Seq(AnyReport) /\ Len(gone) = d
      /\ \A i \in 1..d : gone[i] = q[i]
  <2>1. 1 \in 1..d+1 /\ d \in 0..Len(q) /\ 1 \in 1..Len(q) + 1
    BY <1>0
  <2>2. /\ gone \in Seq(AnyReport)
        /\ Len(gone) = IF 1 <= d THEN d - 1 + 1 ELSE 0
        /\ \A i \in 1 .. d - 1 + 1 : gone[i] = q[1 + i - 1]
    BY <1>0, <2>1, SubSeqProperties
  <2>3. Len(gone) = d
    BY <1>0, <2>2
  <2>4. ASSUME NEW i \in 1..d
        PROVE  gone[i] = q[i]
    <3>1. i \in 1 .. d - 1 + 1 /\ 1 + i - 1 = i
      BY <1>0
    <3> QED
      BY <2>2, <3>1
  <2> QED
    BY <2>2, <2>3, <2>4
<1> HIDE DEF rest, gone
<1>3. KindsOf(gone) = {q[i].kind : i \in 1..d}
  <2>1. DOMAIN gone = 1..d
    BY <1>2, LenProperties
  <2> QED
    BY <1>2, <2>1 DEF KindsOf
<1>4. KindsOf(gone) \subseteq KindsOf(q)
  <2>1. 1..d \subseteq 1..Len(q)
    BY <1>0
  <2> QED
    BY <1>0, <1>3, <2>1 DEF KindsOf
<1>5. ASSUME NEW k \in Kinds
      PROVE  /\ Nums(k, rest) \subseteq Nums(k, q)
             /\ k \notin KindsOf(gone) => Nums(k, rest) = Nums(k, q)
             /\ InOrder(k, q) => InOrder(k, rest)
  <2>1. \A i \in 1..Len(rest) : d + i \in 1..Len(q) /\ rest[i] = q[d + i]
    BY <1>0, <1>1
  <2>2. Nums(k, rest) \subseteq Nums(k, q)
    BY <2>1 DEF Nums
  <2>3. ASSUME k \notin KindsOf(gone)
        PROVE  Nums(k, q) \subseteq Nums(k, rest)
    <3>1. ASSUME NEW i \in 1..Len(q), q[i].kind = k
          PROVE  i - d \in 1..Len(rest) /\ rest[i - d] = q[i]
      <4>1. i \notin 1..d
        BY <1>3, <2>3, <3>1
      <4>2. i - d \in 1..Len(q) - d /\ d + (i - d) = i
        BY <1>0, <4>1
      <4> QED
        BY <1>1, <4>2
    <3> QED
      BY <3>1 DEF Nums
  <2>4. ASSUME InOrder(k, q)
        PROVE  InOrder(k, rest)
    <3> SUFFICES ASSUME NEW i \in 1..Len(rest), NEW j \in 1..Len(rest), i < j,
                        rest[i].kind = k, rest[j].kind = k
                 PROVE  rest[i].n <= rest[j].n
      BY DEF InOrder
    <3>1. /\ d + i \in 1..Len(q) /\ rest[i] = q[d + i]
          /\ d + j \in 1..Len(q) /\ rest[j] = q[d + j]
      BY <2>1
    <3>2. d + i < d + j
      BY <1>0, <1>1
    <3> QED
      BY <2>4, <3>1, <3>2 DEF InOrder
  <2> QED
    BY <2>2, <2>3, <2>4
<1> QED
  BY <1>1, <1>3, <1>4, <1>5 DEF rest, gone

LEMMA KindsAndNums ==
  ASSUME NEW q \in Seq(AnyReport)
  PROVE  /\ KindsOf(q) \subseteq Kinds
         /\ \A k \in Kinds : k \in KindsOf(q) <=> Nums(k, q) # {}
<1>1. DOMAIN q = 1..Len(q) /\ \A i \in 1..Len(q) : q[i] \in AnyReport
  BY LenProperties, ElementOfSeq
<1>2. \A i \in 1..Len(q) : q[i].kind \in Kinds
  BY <1>1 DEF AnyReport
<1> QED
  BY <1>1, <1>2 DEF KindsOf, Nums

(* What is left in the FIFO of more reports than fit. *)
LEMMA FitsRange ==
  ASSUME NEW F \in Nat \ {0}, NEW n \in Nat
  PROVE  LET fits == IF n <= F THEN n ELSE 1 + ((n - F - 1) % F)
         IN fits \in 0..n /\ fits <= F /\ (n # 0 => fits # 0)
<1>1. CASE n <= F
  BY <1>1
<1>2. CASE n > F
  <2> DEFINE m == n - F - 1
  <2>1. m \in Nat
    BY <1>2
  <2> HIDE DEF m
  <2>2. m % F \in 0..F-1
    BY <2>1
  <2> QED
    BY <1>2, <2>2 DEF m
<1> QED
  BY <1>1, <1>2

LEMMA SentGeneral ==
  ASSUME NEW reports \in Seq(AnyReport), NEW pendingResync, Sent(reports, pendingResync),
         fifo \in Seq(AnyReport), Len(fifo) <= FIFO_SIZE, busy \in BOOLEAN,
         busy => fifo # <<>>
  PROVE  /\ fifo' \in Seq(AnyReport) /\ Len(fifo') <= FIFO_SIZE /\ busy' \in BOOLEAN
         /\ busy' => fifo' # <<>>
         /\ \A k \in resync' :
              \/ k \in pendingResync
              \/ k \in Kinds /\ (Nums(k, fifo) # {} \/ Nums(k, reports) # {})
         /\ \A k \in Kinds :
              /\ Nums(k, fifo') \subseteq Nums(k, fifo) \cup Nums(k, reports)
              /\ k \notin LostBy(reports) =>
                   /\ Nums(k, fifo') = Nums(k, fifo) \cup Nums(k, reports)
                   /\ InOrder(k, fifo \o reports) => InOrder(k, fifo')
<1> DEFINE all == fifo \o reports
           fits == Fits(reports)
           d == Len(fifo) + Len(reports) - Fits(reports)
<1>1. /\ all \in Seq(AnyReport) /\ Len(all) = Len(fifo) + Len(reports)
      /\ Len(fifo) \in Nat /\ Len(reports) \in Nat
      /\ \A k \in Kinds : Nums(k, all) = Nums(k, fifo) \cup Nums(k, reports)
  BY NumsConcat, ConcatProperties, LenProperties
<1>2. fits \in 0..Len(all) /\ fits <= FIFO_SIZE /\ (Len(all) # 0 => fits # 0)
  <2>1. FIFO_SIZE \in Nat \ {0} /\ Len(fifo) + Len(reports) \in Nat
    BY <1>1, RelayAssumption DEF RelayAssumption
  <2> QED
    BY <1>1, <2>1, FitsRange DEF Fits
<1> HIDE DEF all
<1>3. d = Len(all) - fits
  <2>1. Fits(reports) \in Int
    BY <1>1, <1>2
  <2> QED
    BY <1>1, <2>1
<1> HIDE DEF fits, d
<1>7. d \in 0..Len(all) /\ Len(all) - d = fits /\ Len(all) \in Nat /\ fits \in Nat
  BY <1>1, <1>2, <1>3
<1> DEFINE rest == SubSeq(all, d + 1, Len(all))
           gone == SubSeq(all, 1, d)
<1>4. /\ rest \in Seq(AnyReport) /\ Len(rest) = fits
      /\ KindsOf(gone) \subseteq KindsOf(all)
      /\ \A k \in Kinds :
           /\ Nums(k, rest) \subseteq Nums(k, all)
           /\ k \notin KindsOf(gone) => Nums(k, rest) = Nums(k, all)
           /\ InOrder(k, all) => InOrder(k, rest)
  BY <1>1, <1>7, CutOff
<1>5. CASE link = "off"
  <2>1. UNCHANGED <<fifo, busy>> /\ resync' = pendingResync
    <3>1. Flushed(reports) = <<>>
      BY <1>5 DEF Flushed
    <3>2. KindsOf(<<>>) = {}
      BY DEF KindsOf
    <3> QED
      BY <1>5, <3>1, <3>2 DEF Sent
  <2>2. \A k \in Kinds : k \notin LostBy(reports) => Nums(k, reports) = {}
    BY <1>5, KindsAndNums DEF LostBy
  <2>3. ASSUME NEW k \in Kinds, k \notin LostBy(reports), InOrder(k, fifo \o reports)
        PROVE  InOrder(k, fifo)
    <3> SUFFICES ASSUME NEW i \in 1..Len(fifo), NEW j \in 1..Len(fifo), i < j,
                        fifo[i].kind = k, fifo[j].kind = k
                 PROVE  fifo[i].n <= fifo[j].n
      BY DEF InOrder
    <3>1. /\ i \in 1..Len(all) /\ j \in 1..Len(all)
          /\ (fifo \o reports)[i] = fifo[i] /\ (fifo \o reports)[j] = fifo[j]
      BY <1>1, ConcatProperties
    <3> QED
      BY <2>3, <3>1 DEF InOrder, all
  <2>4. ASSUME NEW k \in Kinds
        PROVE  /\ Nums(k, fifo') = Nums(k, fifo)
               /\ InOrder(k, fifo') <=> InOrder(k, fifo)
    BY <2>1
  <2>5. \A k \in Kinds : Nums(k, fifo) \subseteq Nums(k, fifo) \cup Nums(k, reports)
    OBVIOUS
  <2>6. /\ fifo' \in Seq(AnyReport) /\ Len(fifo') <= FIFO_SIZE /\ busy' \in BOOLEAN
        /\ busy' => fifo' # <<>>
    BY <2>1
  <2>7. \A k \in resync' : k \in pendingResync
    BY <2>1
  <2>8. ASSUME NEW k \in Kinds
        PROVE  /\ Nums(k, fifo') \subseteq Nums(k, fifo) \cup Nums(k, reports)
               /\ k \notin LostBy(reports) =>
                   /\ Nums(k, fifo') = Nums(k, fifo) \cup Nums(k, reports)
                   /\ InOrder(k, fifo \o reports) => InOrder(k, fifo')
    BY <2>2, <2>3, <2>4
  <2> QED
    BY <2>6, <2>7, <2>8
<1>6. CASE link # "off"
  <2>1. Flushed(reports) = gone
    BY <1>6 DEF Flushed, all, d
  <2>2. resync' = pendingResync \cup KindsOf(gone)
    BY <2>1 DEF Sent
  <2>3. fifo' = rest /\ busy' = (busy \/ reports # <<>>)
    <3>1. Len(all) - fits + 1 = d + 1
      BY <1>3
    <3> QED
      BY <1>6, <3>1 DEF Sent, all, fits
  <2>4. busy' => Len(all) # 0
    <3>1. (busy => Len(fifo) # 0) /\ (reports # <<>> => Len(reports) # 0)
      BY EmptySeq
    <3> QED
      BY <1>1, <2>3, <3>1
  <2>5. busy' => fifo' # <<>>
    <3>1. busy' => Len(rest) # 0
      BY <1>2, <1>4, <2>4
    <3> QED
      BY <1>4, <2>3, <3>1, EmptySeq
  <2>6. \A k \in KindsOf(gone) : k \in Kinds /\ (Nums(k, fifo) # {} \/ Nums(k, reports) # {})
    BY <1>1, <1>4, KindsAndNums
  <2>7. \A k \in Kinds : k \notin LostBy(reports) => k \notin KindsOf(gone)
    BY <2>1 DEF LostBy
  <2>8. \A k \in Kinds : k \notin LostBy(reports) =>
           /\ Nums(k, rest) = Nums(k, fifo) \cup Nums(k, reports)
           /\ InOrder(k, fifo \o reports) => InOrder(k, rest)
    BY <1>1, <1>4, <2>7 DEF all
  <2>9. \A k \in Kinds : Nums(k, rest) \subseteq Nums(k, fifo) \cup Nums(k, reports)
    BY <1>1, <1>4
  <2>10. Len(rest) <= FIFO_SIZE
    BY <1>2, <1>4
  <2> HIDE DEF rest, gone
  <2>11. ASSUME NEW k \in Kinds
         PROVE  /\ Nums(k, fifo') = Nums(k, rest)
                /\ InOrder(k, fifo') <=> InOrder(k, rest)
    BY <2>3
  <2>12. \A k \in resync' :
              \/ k \in pendingResync
              \/ k \in Kinds /\ (Nums(k, fifo) # {} \/ Nums(k, reports) # {})
    BY <2>2, <2>6
  <2>13. fifo' \in Seq(AnyReport) /\ Len(fifo') <= FIFO_SIZE /\ busy' \in BOOLEAN
    BY <1>4, <2>3, <2>10
  <2>14. ASSUME NEW k \in Kinds
        PROVE  /\ Nums(k, fifo') \subseteq Nums(k, fifo) \cup Nums(k, reports)
               /\ k \notin LostBy(reports) =>
                   /\ Nums(k, fifo') = Nums(k, fifo) \cup Nums(k, reports)
                   /\ InOrder(k, fifo \o reports) => InOrder(k, fifo')
    BY <2>8, <2>9, <2>11
  <2> QED
    BY <2>5, <2>12, <2>13, <2>14
<1> QED
  BY <1>5, <1>6

(* A ring keeps the newest of what is put into it, all of it if it fits. *)
LEMMA KeptGeneral ==
  ASSUME NEW k \in Kinds, NEW s \in Seq(Nat)
  PROVE  /\ Kept(k, s) \in Seq(Nat) /\ Len(Kept(k, s)) <= DEPTH[k]
         /\ ToSet(Kept(k, s)) \subseteq ToSet(s)
         /\ k \notin Overflown(k, s) => Kept(k, s) = s
<1> DEFINE d == IF Len(s) > DEPTH[k] THEN Len(s) - DEPTH[k] ELSE 0
           t == SubSeq(s, d + 1, Len(s))
<1>1. DEPTH[k] \in Nat \ {0} /\ Len(s) \in Nat
  BY RelayAssumption, LenProperties DEF RelayAssumption
<1>2. d \in 0..Len(s) /\ 1 + d = d + 1
  BY <1>1
<1>3. /\ t \in Seq(Nat)
      /\ Len(t) = IF d + 1 <= Len(s) THEN Len(s) - (d + 1) + 1 ELSE 0
      /\ \A i \in 1 .. Len(s) - (d + 1) + 1 : t[i] = s[(d + 1) + i - 1]
  <2> HIDE DEF d
  <2>1. d + 1 \in 1..Len(s) + 1
    BY <1>1, <1>2
  <2> QED
    BY <1>1, <2>1, SubSeqProperties
<1>4. Kept(k, s) = t
  BY <1>2 DEF Kept
<1> HIDE DEF t
<1>5. Len(t) = Len(s) - d
  <2> HIDE DEF d
  <2> QED
    BY <1>1, <1>2, <1>3, CutLength
<1>6. Len(t) <= DEPTH[k]
  BY <1>1, <1>5
<1>7. \A i \in 1..Len(t) : t[i] \in ToSet(s)
  <2> TAKE i \in 1..Len(t)
  <2> HIDE DEF d
  <2>1. i \in 1 .. Len(s) - (d + 1) + 1 /\ (d + 1) + i - 1 \in 1..Len(s)
    BY <1>1, <1>2, <1>5
  <2>2. ToSet(s) = {s[j] : j \in 1..Len(s)}
    BY ToSetOf
  <2> QED
    BY <1>3, <2>1, <2>2
<1>8. ToSet(t) \subseteq ToSet(s)
  <2>1. ToSet(t) = {t[i] : i \in 1..Len(t)}
    BY <1>3, ToSetOf
  <2> QED
    BY <1>7, <2>1
<1>9. ASSUME k \notin Overflown(k, s)
      PROVE  t = s
  <2>1. d = 0
    BY <1>9 DEF Overflown
  <2> QED
    BY <1>1, <2>1, SubSeqFull DEF t
<1> QED
  BY <1>3, <1>4, <1>6, <1>8, <1>9

(***************************************************************************)
(* Types, and what the numbers in the queues are                           *)
(***************************************************************************)

AnyTodo == {<<>>, <<"kb">>, <<"cons">>, <<"kb", "cons">>}

LinksOK ==
  /\ link \in {"off", "on", "up"} /\ quiet \in BOOLEAN /\ retry \in BOOLEAN
  /\ was_active \in BOOLEAN /\ owed \subseteq Kinds /\ excused \subseteq Kinds
  /\ faults \in 0..MaxFaults

CountsOK ==
  /\ made \in [Kinds -> Nat] /\ host \in [Kinds -> Nat] /\ events \in 0..MaxEvents
  /\ \A k \in Kinds : host[k] <= made[k] /\ made[k] <= events

ThreadOK ==
  /\ at \in {"idle", "snap", "drain", "send", "park", "sched"}
  /\ todo \in AnyTodo /\ (at = "idle" <=> todo = <<>>)
  /\ snap \in 0..MaxEvents
  /\ at \in {"drain", "send", "park", "sched"} => snap = made[kind]
  /\ hand \in Seq(Nat) /\ (hand # <<>> => at = "send")
  /\ at = "send" => ToSet(hand) \subseteq 1..made[kind]
  /\ \A k \in ToSet(todo) : made[k] >= 1

(* What comes into the ring while the event thread sends is the newest: a    *)
(* resync, no event.                                                         *)
RingsOK ==
  /\ pending \in [Kinds -> Seq(Nat)]
  /\ \A k \in Kinds : Len(pending[k]) <= DEPTH[k] /\ ToSet(pending[k]) \subseteq 1..made[k]
  /\ at = "send" => ToSet(pending[kind]) \subseteq {made[kind]}

RadioOK ==
  /\ fifo \in Seq(AnyReport) /\ Len(fifo) <= FIFO_SIZE
  /\ busy \in BOOLEAN /\ (busy => fifo # <<>>) /\ resync \subseteq Kinds
  /\ \A k \in Kinds : Nums(k, fifo) \subseteq 1..made[k]
  /\ \A k \in resync : made[k] >= 1

RelayTyped == LinksOK /\ CountsOK /\ ThreadOK /\ RingsOK /\ RadioOK

(* The kinds still to be sent: each at most once. *)
LEMMA TodoFacts ==
  ASSUME NEW t \in AnyTodo
  PROVE  /\ ToSet(t) \subseteq Kinds /\ (t = <<>> <=> ToSet(t) = {})
         /\ t # <<>> => /\ Head(t) \in Kinds /\ Tail(t) \in AnyTodo
                        /\ ToSet(t) = {Head(t)} \cup ToSet(Tail(t))
                        /\ Head(t) \notin ToSet(Tail(t))
                        /\ Len(t) = 1 <=> Tail(t) = <<>>
<1>1. ToSet(<<>>) = {} /\ ToSet(<<"kb">>) = {"kb"} /\ ToSet(<<"cons">>) = {"cons"}
      /\ ToSet(<<"kb", "cons">>) = {"kb", "cons"}
  BY DEF ToSet
<1>2. /\ Tail(<<"kb">>) = <<>> /\ Tail(<<"cons">>) = <<>>
      /\ Tail(<<"kb", "cons">>) = <<"cons">>
      /\ Head(<<"kb">>) = "kb" /\ Head(<<"cons">>) = "cons"
      /\ Head(<<"kb", "cons">>) = "kb"
      /\ Len(<<"kb">>) = 1 /\ Len(<<"cons">>) = 1 /\ Len(<<"kb", "cons">>) = 2
  OBVIOUS
<1>3. CASE t = <<>>
  BY <1>1, <1>3
<1>4. CASE t = <<"kb">>
  BY <1>1, <1>2, <1>4 DEF AnyTodo, Kinds
<1>5. CASE t = <<"cons">>
  BY <1>1, <1>2, <1>5 DEF AnyTodo, Kinds
<1>6. CASE t = <<"kb", "cons">>
  <2>1. "kb" # "cons" /\ <<"kb", "cons">> # <<>> /\ <<"cons">> # <<>>
    OBVIOUS
  <2> QED
    BY <1>1, <1>2, <1>6, <2>1 DEF AnyTodo, Kinds
<1> QED
  BY <1>3, <1>4, <1>5, <1>6 DEF AnyTodo

LEMMA ConcernedFacts ==
  ASSUME NEW i \in Inputs
  PROVE  Concerned(i) \in AnyTodo /\ Concerned(i) # <<>> /\ ToSet(Concerned(i)) \subseteq Kinds
<1>1. Concerned(i) \in AnyTodo /\ Concerned(i) # <<>>
  BY DEF Concerned, AnyTodo
<1> QED
  BY <1>1, TodoFacts

LEMMA KindFacts ==
  ASSUME RelayTyped, at # "idle"
  PROVE  /\ kind \in Kinds /\ todo # <<>> /\ made[kind] \in Nat /\ made[kind] >= 1
         /\ made[kind] \in 0..MaxEvents /\ pending[kind] \in Seq(Nat)
         /\ ToSet(pending[kind]) \subseteq 1..made[kind]
         /\ kind \in ToSet(todo)
<1>1. todo # <<>> /\ todo \in AnyTodo
  BY DEF RelayTyped, ThreadOK
<1>2. kind \in Kinds /\ kind \in ToSet(todo)
  BY <1>1, TodoFacts DEF kind
<1>3. MaxEvents \in Nat
  BY RelayAssumption DEF RelayAssumption
<1> QED
  BY <1>1, <1>2, <1>3 DEF RelayTyped, ThreadOK, CountsOK, RingsOK

LEMMA OneReport ==
  ASSUME NEW c \in Kinds, NEW n \in Nat
  PROVE  /\ <<Report(c, n)>> \in Seq(AnyReport)
         /\ \A k \in Kinds : /\ Nums(k, <<Report(c, n)>>) = IF k = c THEN {n} ELSE {}
                             /\ InOrder(k, <<Report(c, n)>>)
<1> DEFINE q == <<Report(c, n)>>
<1>1. Report(c, n) \in AnyReport /\ Report(c, n).kind = c /\ Report(c, n).n = n
  BY DEF Report, AnyReport
<1>2. q \in Seq(AnyReport) /\ Len(q) = 1 /\ q[1] = Report(c, n)
  BY <1>1
<1> HIDE DEF q
<1>3. ASSUME NEW k \in Kinds
      PROVE  Nums(k, q) = (IF k = c THEN {n} ELSE {}) /\ InOrder(k, q)
  <2>1. \A i \in 1..Len(q) : i = 1
    BY <1>2
  <2>2. 1 \in 1..Len(q)
    BY <1>2
  <2>3. InOrder(k, q)
    <3> SUFFICES ASSUME NEW i \in 1..Len(q), NEW j \in 1..Len(q), i < j
                 PROVE  FALSE
      BY DEF InOrder
    <3>1. i = 1 /\ j = 1
      BY <2>1
    <3> QED
      BY <3>1
  <2>4. Nums(k, q) = IF k = c THEN {n} ELSE {}
    BY <1>1, <1>2, <2>1, <2>2 DEF Nums
  <2> QED
    BY <2>3, <2>4
<1> QED
  BY <1>2, <1>3 DEF q

(* The work queue sends the keyboard's reports, then the consumer's. *)
Both(f) == Reports("kb", f["kb"]) \o Reports("cons", f["cons"])

LEMMA BothFacts ==
  ASSUME NEW f \in [Kinds -> Seq(Nat)]
  PROVE  /\ Both(f) \in Seq(AnyReport)
         /\ \A k \in Kinds : /\ Nums(k, Both(f)) = ToSet(f[k])
                             /\ Ascending(f[k]) => InOrder(k, Both(f))
<1> DEFINE q == Reports("kb", f["kb"])
           r == Reports("cons", f["cons"])
<1>1. "kb" \in Kinds /\ "cons" \in Kinds /\ "kb" # "cons"
      /\ f["kb"] \in Seq(Nat) /\ f["cons"] \in Seq(Nat)
  BY DEF Kinds
<1>2. q \in Seq(AnyReport) /\ r \in Seq(AnyReport)
  BY <1>1, ReportsOf
<1>3. ASSUME NEW k \in Kinds
      PROVE  /\ Nums(k, q) = IF k = "kb" THEN ToSet(f["kb"]) ELSE {}
             /\ Nums(k, r) = IF k = "cons" THEN ToSet(f["cons"]) ELSE {}
             /\ Ascending(f["kb"]) => InOrder(k, q)
             /\ Ascending(f["cons"]) => InOrder(k, r)
  BY <1>1, ReportsOf
<1> HIDE DEF q, r
<1>4. ASSUME NEW k \in Kinds, NEW z \in Seq(AnyReport), Nums(k, z) = {}
      PROVE  InOrder(k, z)
  BY <1>4 DEF InOrder, Nums
<1>5. ASSUME NEW k \in Kinds
      PROVE  /\ Nums(k, q \o r) = ToSet(f[k])
             /\ Ascending(f[k]) => InOrder(k, q \o r)
  <2>1. /\ Nums(k, q \o r) = Nums(k, q) \cup Nums(k, r)
        /\ InOrder(k, q) /\ InOrder(k, r) /\ Below(Nums(k, q), Nums(k, r))
              => InOrder(k, q \o r)
    BY <1>2, NumsConcat
  <2>2. CASE k = "kb"
    <3>1. Nums(k, q) = ToSet(f[k]) /\ Nums(k, r) = {} /\ InOrder(k, r)
      BY <1>1, <1>2, <1>3, <1>4, <2>2
    <3>2. Below(Nums(k, q), Nums(k, r))
      BY <3>1 DEF Below
    <3> QED
      BY <1>3, <2>1, <2>2, <3>1, <3>2
  <2>3. CASE k = "cons"
    <3>1. Nums(k, r) = ToSet(f[k]) /\ Nums(k, q) = {} /\ InOrder(k, q)
      BY <1>1, <1>2, <1>3, <1>4, <2>3
    <3>2. Below(Nums(k, q), Nums(k, r))
      BY <3>1 DEF Below
    <3> QED
      BY <1>3, <2>1, <2>3, <3>1, <3>2
  <2> QED
    BY <2>2, <2>3 DEF Kinds
<1>6. q \o r \in Seq(AnyReport)
  BY <1>2, NumsConcat, <1>1
<1> QED
  BY <1>5, <1>6 DEF Both, q, r

(* What hid_resync_cb sends: the rings of the kinds asked for, then the state. *)
Asked == IF active THEN resync ELSE {}
Wanted == [k \in Kinds |-> IF k \in Asked THEN Append(pending[k], made[k]) ELSE <<>>]

LEMMA WantedFacts ==
  ASSUME RelayTyped
  PROVE  /\ Asked \subseteq Kinds /\ Wanted \in [Kinds -> Seq(Nat)]
         /\ \A k \in Kinds : ToSet(Wanted[k]) \subseteq 1..made[k]
         /\ \A k \in Asked : ToSet(Wanted[k]) = ToSet(pending[k]) \cup {made[k]}
         /\ \A k \in Kinds : k \notin Asked => Wanted[k] = <<>> /\ ToSet(Wanted[k]) = {}
         /\ (IF "kb" \in Asked THEN ResyncReports("kb") ELSE <<>>)
              \o (IF "cons" \in Asked THEN ResyncReports("cons") ELSE <<>>) = Both(Wanted)
<1>1. Asked \subseteq Kinds /\ \A k \in Asked : made[k] >= 1
  BY DEF Asked, RelayTyped, RadioOK
<1>2. ASSUME NEW k \in Kinds
      PROVE  /\ pending[k] \in Seq(Nat) /\ made[k] \in Nat
             /\ ToSet(pending[k]) \subseteq 1..made[k]
  BY DEF RelayTyped, RingsOK, CountsOK
<1>3. ASSUME NEW k \in Asked
      PROVE  /\ Wanted[k] \in Seq(Nat) /\ ToSet(Wanted[k]) = ToSet(pending[k]) \cup {made[k]}
             /\ ToSet(Wanted[k]) \subseteq 1..made[k]
             /\ ResyncReports(k) = Reports(k, Wanted[k])
  <2>1. k \in Kinds
    BY <1>1
  <2>2. Wanted[k] = Append(pending[k], made[k])
    BY <2>1 DEF Wanted
  <2>3. Append(pending[k], made[k]) \in Seq(Nat)
        /\ ToSet(Append(pending[k], made[k])) = ToSet(pending[k]) \cup {made[k]}
    BY <1>2, <2>1, ToSetAppend
  <2>4. made[k] \in 1..made[k]
    BY <1>1, <1>2, <2>1
  <2> QED
    BY <1>2, <2>1, <2>2, <2>3, <2>4 DEF ResyncReports
<1>4. ASSUME NEW k \in Kinds, k \notin Asked
      PROVE  Wanted[k] = <<>> /\ ToSet(Wanted[k]) = {} /\ Reports(k, Wanted[k]) = <<>>
  <2>1. Wanted[k] = <<>>
    BY <1>4 DEF Wanted
  <2>2. DOMAIN <<>> = {} /\ ToSet(<<>>) = {}
    BY DEF ToSet
  <2>3. Reports(k, <<>>) = <<>>
    BY <2>2 DEF Reports
  <2> QED
    BY <2>1, <2>2, <2>3
<1>5. Wanted \in [Kinds -> Seq(Nat)]
  <2>1. \A k \in Kinds : (IF k \in Asked THEN Append(pending[k], made[k]) ELSE <<>>) \in Seq(Nat)
    BY <1>2, ToSetAppend
  <2> QED
    BY <2>1 DEF Wanted
<1>6. "kb" \in Kinds /\ "cons" \in Kinds
  BY DEF Kinds
<1>7. /\ Reports("kb", Wanted["kb"]) = IF "kb" \in Asked THEN ResyncReports("kb") ELSE <<>>
      /\ Reports("cons", Wanted["cons"]) = IF "cons" \in Asked THEN ResyncReports("cons") ELSE <<>>
  BY <1>3, <1>4, <1>6
<1>8. (IF "kb" \in Asked THEN ResyncReports("kb") ELSE <<>>)
              \o (IF "cons" \in Asked THEN ResyncReports("cons") ELSE <<>>) = Both(Wanted)
  BY <1>7 DEF Both
<1>9. \A k \in Kinds : ToSet(Wanted[k]) \subseteq 1..made[k]
  BY <1>3, <1>4
<1> QED
  BY <1>1, <1>3, <1>4, <1>5, <1>8, <1>9

LEMMA ResyncStep ==
  ASSUME RelayTyped, hid_resync_cb
  PROVE  /\ UNCHANGED <<body, thread, env>>
         /\ quiet =>
              /\ resync' = {} /\ UNCHANGED <<fifo, busy>> /\ retry' = (retry \/ Asked # {})
              /\ pending' = [k \in Kinds |-> IF k \in Asked THEN Kept(k, Wanted[k])
                                             ELSE pending[k]]
              /\ Excuse(UNION {Overflown(k, Wanted[k]) : k \in Asked})
         /\ ~quiet =>
              /\ Sent(Both(Wanted), {}) /\ retry' = retry
              /\ pending' = [k \in Kinds |-> IF k \in Asked THEN <<>> ELSE pending[k]]
              /\ Excuse(LostBy(Both(Wanted)) \cup Overtaken(Both(Wanted)))
<1> DEFINE reports == (IF "kb" \in Asked THEN ResyncReports("kb") ELSE <<>>)
              \o (IF "cons" \in Asked THEN ResyncReports("cons") ELSE <<>>)
<1>1. reports = Both(Wanted) /\ Asked \subseteq Kinds
  BY WantedFacts
<1>2. \A k \in Kinds : k \in Asked => Wanted[k] = Append(pending[k], made[k])
  BY DEF Wanted
<1>3. UNCHANGED <<body, thread, env>>
  BY DEF hid_resync_cb
<1>4. ASSUME quiet
      PROVE  /\ resync' = {} /\ UNCHANGED <<fifo, busy>> /\ retry' = (retry \/ Asked # {})
             /\ pending' = [k \in Kinds |-> IF k \in Asked
                              THEN Kept(k, Append(pending[k], made[k])) ELSE pending[k]]
             /\ Excuse(UNION {Overflown(k, Append(pending[k], made[k])) : k \in Asked})
  BY <1>4 DEF hid_resync_cb, Asked
<1>5. /\ [k \in Kinds |-> IF k \in Asked THEN Kept(k, Append(pending[k], made[k]))
                          ELSE pending[k]]
         = [k \in Kinds |-> IF k \in Asked THEN Kept(k, Wanted[k]) ELSE pending[k]]
      /\ {Overflown(k, Append(pending[k], made[k])) : k \in Asked}
         = {Overflown(k, Wanted[k]) : k \in Asked}
  BY <1>1, <1>2
<1>6. ASSUME ~quiet
      PROVE  /\ Sent(reports, {}) /\ retry' = retry
             /\ pending' = [k \in Kinds |-> IF k \in Asked THEN <<>> ELSE pending[k]]
             /\ Excuse(LostBy(reports) \cup Overtaken(reports))
  BY <1>6 DEF hid_resync_cb, Asked
<1> HIDE DEF reports
<1> QED
  BY <1>1, <1>3, <1>4, <1>5, <1>6

LEMMA RetryStep ==
  ASSUME hid_retry_work_fn
  PROVE  /\ UNCHANGED <<body, thread, env>> /\ retry' = FALSE
         /\ pending' = [k \in Kinds |-> <<>>] /\ Sent(Both(pending), resync)
         /\ Excuse(LostBy(Both(pending)) \cup Overtaken(Both(pending)))
  BY DEF hid_retry_work_fn, Both

LEMMA RadioFromSent ==
  ASSUME RelayTyped, NEW reports \in Seq(AnyReport), NEW pr \in SUBSET resync,
         Sent(reports, pr), \A k \in Kinds : Nums(k, reports) \subseteq 1..made[k],
         made' = made
  PROVE  RadioOK'
<1>1. /\ fifo' \in Seq(AnyReport) /\ Len(fifo') <= FIFO_SIZE /\ busy' \in BOOLEAN
      /\ busy' => fifo' # <<>>
      /\ \A k \in resync' :
              \/ k \in pr
              \/ k \in Kinds /\ (Nums(k, fifo) # {} \/ Nums(k, reports) # {})
      /\ \A k \in Kinds : Nums(k, fifo') \subseteq Nums(k, fifo) \cup Nums(k, reports)
  BY SentGeneral DEF RelayTyped, RadioOK
<1>2. \A k \in Kinds : made[k] \in Nat /\ (1..made[k] # {} => made[k] >= 1)
  BY DEF RelayTyped, CountsOK
<1>3. \A k \in Kinds : Nums(k, fifo) \subseteq 1..made[k]
  BY DEF RelayTyped, RadioOK
<1>4. \A k \in resync' : k \in Kinds /\ made'[k] >= 1
  <2> TAKE k \in resync'
  <2>1. CASE k \in pr
    BY <2>1 DEF RelayTyped, RadioOK
  <2>2. CASE k \in Kinds /\ (Nums(k, fifo) # {} \/ Nums(k, reports) # {})
    <3>1. 1..made[k] # {}
      BY <1>3, <2>2
    <3> QED
      BY <1>2, <2>2, <3>1
  <2> QED
    BY <1>1, <2>1, <2>2
<1>5. \A k \in Kinds : Nums(k, fifo') \subseteq 1..made'[k]
  BY <1>1, <1>3
<1> QED
  BY <1>1, <1>4, <1>5 DEF RadioOK

(* What the two senders of the event thread put into the FIFO. *)
LEMMA HandHead ==
  ASSUME RelayTyped, at = "send", hand # <<>>
  PROVE  /\ Head(hand) \in 1..made[kind] /\ Tail(hand) \in Seq(Nat)
         /\ ToSet(hand) = {Head(hand)} \cup ToSet(Tail(hand))
  BY ToSetTail DEF RelayTyped, ThreadOK

LEMMA EventSends ==
  ASSUME RelayTyped, EventThread
  PROVE  \/ UNCHANGED radio
         \/ DrainSends /\ Sent(<<Report(kind, Head(hand))>>, resync)
         \/ SnapshotSent /\ ~quiet /\ Sent(<<Report(kind, snap)>>, resync)
  BY DEF EventThread, Snapshots, DrainTakes, DrainSends, DrainReparks, SnapshotSent,
         SnapshotParked, RetryScheduled

LEMMA RelayRadioStep == RelayTyped /\ [Next]_vars => RadioOK'
<1> SUFFICES ASSUME RelayTyped, [Next]_vars
             PROVE  RadioOK'
  OBVIOUS
<1>0. /\ RadioOK /\ ThreadOK /\ CountsOK
      /\ \A k \in Kinds : made[k] \in Nat
  BY DEF RelayTyped, CountsOK
<1>1. ASSUME NEW i \in Inputs, hid_relay_cb(i)
      PROVE  RadioOK'
  <2>1. UNCHANGED <<fifo, busy, resync>>
    BY <1>1 DEF hid_relay_cb, radio
  <2>2. \A k \in Kinds : made'[k] \in Nat /\ made'[k] >= made[k]
    BY <1>0, <1>1 DEF hid_relay_cb
  <2>3. \A k \in Kinds : 1..made[k] \subseteq 1..made'[k]
    BY <1>0, <2>2
  <2>4. \A k \in resync' : k \in Kinds /\ made'[k] >= 1
    BY <1>0, <2>1, <2>2 DEF RadioOK
  <2>5. \A k \in Kinds : Nums(k, fifo') \subseteq 1..made'[k]
    BY <1>0, <2>1, <2>3 DEF RadioOK
  <2> QED
    BY <1>0, <2>1, <2>4, <2>5 DEF RadioOK
<1>2. CASE EventThread
  <2>0. made' = made
    BY <1>2 DEF EventThread, Snapshots, DrainTakes, DrainSends, DrainReparks,
                SnapshotSent, SnapshotParked, RetryScheduled, body
  <2>1. CASE UNCHANGED radio
    BY <1>0, <2>0, <2>1 DEF RadioOK, radio
  <2>2. CASE DrainSends /\ Sent(<<Report(kind, Head(hand))>>, resync)
    <3>1. at = "send" /\ hand # <<>> /\ at # "idle"
      BY <2>2 DEF DrainSends
    <3>2. Head(hand) \in 1..made[kind] /\ kind \in Kinds
      BY <3>1, HandHead, KindFacts
    <3>3. <<Report(kind, Head(hand))>> \in Seq(AnyReport)
          /\ \A k \in Kinds : Nums(k, <<Report(kind, Head(hand))>>) \subseteq 1..made[k]
      <4>1. Head(hand) \in Nat
        BY <3>2
      <4>2. \A k \in Kinds : Nums(k, <<Report(kind, Head(hand))>>)
                               = IF k = kind THEN {Head(hand)} ELSE {}
        BY <3>2, <4>1, OneReport
      <4> QED
        BY <3>2, <4>1, <4>2, OneReport
    <3> QED
      BY <2>0, <2>2, <3>3, RadioFromSent
  <2>3. CASE SnapshotSent /\ ~quiet /\ Sent(<<Report(kind, snap)>>, resync)
    <3>1. at = "send" /\ at # "idle"
      BY <2>3 DEF SnapshotSent
    <3>2. kind \in Kinds /\ snap = made[kind] /\ made[kind] \in Nat /\ made[kind] >= 1
      BY <1>0, <3>1, KindFacts DEF ThreadOK
    <3>3. <<Report(kind, snap)>> \in Seq(AnyReport)
          /\ \A k \in Kinds : Nums(k, <<Report(kind, snap)>>) \subseteq 1..made[k]
      <4>1. snap \in Nat /\ snap \in 1..made[kind]
        BY <3>2
      <4>2. \A k \in Kinds : Nums(k, <<Report(kind, snap)>>) = IF k = kind THEN {snap} ELSE {}
        BY <3>2, <4>1, OneReport
      <4> QED
        BY <3>2, <4>1, <4>2, OneReport
    <3> QED
      BY <2>0, <2>3, <3>3, RadioFromSent
  <2> QED
    BY <1>2, <2>1, <2>2, <2>3, EventSends
<1>3. CASE hid_retry_work_fn
  <2>1. Sent(Both(pending), resync) /\ made' = made
    BY <1>3, RetryStep DEF body
  <2>2. pending \in [Kinds -> Seq(Nat)] /\ \A k \in Kinds : ToSet(pending[k]) \subseteq 1..made[k]
    BY DEF RelayTyped, RingsOK
  <2>3. Both(pending) \in Seq(AnyReport)
        /\ \A k \in Kinds : Nums(k, Both(pending)) \subseteq 1..made[k]
    BY <2>2, BothFacts
  <2> QED
    BY <2>1, <2>3, RadioFromSent
<1>4. CASE hid_resync_cb
  <2>1. made' = made
    BY <1>4, ResyncStep DEF body
  <2>2. CASE quiet
    <3>1. resync' = {} /\ UNCHANGED <<fifo, busy>>
      BY <1>4, <2>2, ResyncStep
    <3> QED
      BY <1>0, <2>1, <3>1 DEF RadioOK
  <2>3. CASE ~quiet
    <3>1. Sent(Both(Wanted), {})
      BY <1>4, <2>3, ResyncStep
    <3>2. Both(Wanted) \in Seq(AnyReport)
          /\ \A k \in Kinds : Nums(k, Both(Wanted)) \subseteq 1..made[k]
      BY WantedFacts, BothFacts
    <3> QED
      BY <2>1, <3>1, <3>2, RadioFromSent
  <2> QED
    BY <2>2, <2>3
<1>5. CASE TxAcked
  <2>1. fifo # <<>> /\ fifo' = Tail(fifo) /\ busy' = (fifo' # <<>>) /\ UNCHANGED <<resync, made>>
    BY <1>0, <1>5 DEF TxAcked, RadioOK, body
  <2>2. /\ fifo' \in Seq(AnyReport) /\ Len(fifo') = Len(fifo) - 1 /\ Len(fifo) \in Nat
        /\ \A i \in 1..Len(fifo') : fifo'[i] = fifo[i + 1] /\ i + 1 \in 1..Len(fifo)
    <3>1. fifo \in Seq(AnyReport)
      BY <1>0 DEF RadioOK
    <3> QED
      BY <2>1, <3>1, HeadTailProperties, LenProperties
  <2>3. \A k \in Kinds : Nums(k, fifo') \subseteq Nums(k, fifo)
    BY <2>2 DEF Nums
  <2>4. Len(fifo') <= FIFO_SIZE
    BY <1>0, <2>2, RelayAssumption DEF RelayAssumption, RadioOK
  <2> QED
    BY <1>0, <2>1, <2>2, <2>3, <2>4 DEF RadioOK
<1>6. CASE TxFailed \/ OtherFlush \/ SlotStops
  <2>1. /\ fifo' \in {fifo, <<>>} /\ (busy' = FALSE) /\ made' = made
        /\ resync' \subseteq resync \cup KindsOf(fifo)
    <3>1. CASE TxFailed
      <4>1. Head(fifo).kind \in KindsOf(fifo)
        <5>1. fifo # <<>> /\ fifo \in Seq(AnyReport)
          BY <1>0, <3>1 DEF TxFailed, RadioOK
        <5>2. 1 \in DOMAIN fifo /\ Head(fifo) = fifo[1]
          BY <5>1, HeadTailProperties, LenProperties, EmptySeq
        <5> QED
          BY <5>2 DEF KindsOf
      <4> QED
        BY <3>1, <4>1 DEF TxFailed, body
    <3>2. CASE OtherFlush \/ SlotStops
      BY <3>2 DEF OtherFlush, SlotStops, body
    <3> QED
      BY <1>6, <3>1, <3>2
  <2>2. \A k \in KindsOf(fifo) : k \in Kinds /\ Nums(k, fifo) # {}
    BY <1>0, KindsAndNums DEF RadioOK
  <2>3. \A k \in KindsOf(fifo) : made[k] >= 1
    <3> TAKE k \in KindsOf(fifo)
    <3>1. 1..made[k] # {} /\ made[k] \in Nat
      BY <1>0, <2>2 DEF RadioOK
    <3> QED
      BY <3>1
  <2>4. \A k \in Kinds : Nums(k, <<>>) = {}
    BY DEF Nums
  <2>5. /\ fifo' \in Seq(AnyReport) /\ Len(fifo') <= FIFO_SIZE
        /\ \A k \in Kinds : Nums(k, fifo') \subseteq 1..made'[k]
    <3>1. CASE fifo' = fifo
      BY <1>0, <2>1, <3>1 DEF RadioOK
    <3>2. CASE fifo' = <<>>
      <4>1. <<>> \in Seq(AnyReport) /\ Len(<<>>) = 0 /\ 0 <= FIFO_SIZE
        BY RelayAssumption DEF RelayAssumption
      <4> QED
        BY <2>4, <3>2, <4>1
    <3> QED
      BY <2>1, <3>1, <3>2
  <2>6. \A k \in resync' : k \in Kinds /\ made'[k] >= 1
    BY <1>0, <2>1, <2>2, <2>3 DEF RadioOK
  <2> QED
    BY <2>1, <2>5, <2>6 DEF RadioOK
<1>7. CASE \/ QuietBegins \/ QuietEnds \/ SlotStarts \/ Connects \/ Disconnects
           \/ UNCHANGED vars
  <2>1. UNCHANGED <<fifo, busy, resync, made>>
    BY <1>7 DEF QuietBegins, QuietEnds, SlotStarts, Connects, Disconnects, vars, radio, body
  <2> QED
    BY <1>0, <2>1 DEF RadioOK
<1> QED
  BY <1>1, <1>2, <1>3, <1>4, <1>5, <1>6, <1>7 DEF Next

(* The report at the head of the FIFO. *)
LEMMA HeadFacts ==
  ASSUME RelayTyped, fifo # <<>>
  PROVE  /\ Head(fifo).kind \in Kinds /\ Head(fifo).n \in Nums(Head(fifo).kind, fifo)
         /\ Head(fifo).n \in 1..made[Head(fifo).kind]
<1>1. /\ fifo \in Seq(AnyReport) /\ \A k \in Kinds : Nums(k, fifo) \subseteq 1..made[k]
  BY DEF RelayTyped, RadioOK
<1>2. Head(fifo) = fifo[1] /\ 1 \in 1..Len(fifo) /\ Head(fifo) \in AnyReport
  BY <1>1, HeadTailProperties, LenProperties, EmptySeq
<1>3. Head(fifo).kind \in Kinds
  BY <1>2 DEF AnyReport
<1>4. Head(fifo).n \in Nums(Head(fifo).kind, fifo)
  BY <1>2 DEF Nums
<1> QED
  BY <1>1, <1>3, <1>4

LEMMA RelayCountsStep == RelayTyped /\ [Next]_vars => CountsOK'
<1> SUFFICES ASSUME RelayTyped, [Next]_vars
             PROVE  CountsOK'
  OBVIOUS
<1>0. CountsOK /\ MaxEvents \in Nat
  BY RelayAssumption DEF RelayTyped, RelayAssumption
<1>1. ASSUME NEW i \in Inputs, hid_relay_cb(i)
      PROVE  CountsOK'
  <2>1. /\ events < MaxEvents /\ events' = events + 1 /\ host' = host
        /\ made' = [k \in Kinds |-> IF k \in ToSet(Concerned(i)) THEN made[k] + 1 ELSE made[k]]
    BY <1>1 DEF hid_relay_cb
  <2>2. events \in Nat /\ events' \in 0..MaxEvents
    BY <1>0, <2>1 DEF CountsOK
  <2>3. ASSUME NEW k \in Kinds
        PROVE  made'[k] \in Nat /\ host'[k] <= made'[k] /\ made'[k] <= events'
    BY <1>0, <2>1, <2>2 DEF CountsOK
  <2> QED
    BY <1>0, <2>1, <2>2, <2>3 DEF CountsOK
<1>2. CASE TxAcked
  <2>1. fifo # <<>> /\ UNCHANGED <<made, events>>
        /\ host' = [host EXCEPT ![Head(fifo).kind] = Head(fifo).n]
    BY <1>2 DEF TxAcked, body, RelayTyped, RadioOK
  <2>2. Head(fifo).kind \in Kinds /\ Head(fifo).n \in 1..made[Head(fifo).kind]
    BY <2>1, HeadFacts
  <2> QED
    BY <1>0, <2>1, <2>2 DEF CountsOK
<1>3. CASE EventThread
  <2>1. UNCHANGED <<made, host, events>>
    BY <1>3 DEF EventThread, Snapshots, DrainTakes, DrainSends, DrainReparks, SnapshotSent,
                SnapshotParked, RetryScheduled, body, env
  <2> QED
    BY <1>0, <2>1 DEF CountsOK
<1>4. CASE \/ hid_retry_work_fn \/ hid_resync_cb \/ QuietBegins \/ QuietEnds \/ TxFailed
           \/ OtherFlush \/ SlotStarts \/ Connects \/ Disconnects \/ SlotStops
           \/ UNCHANGED vars
  <2>1. UNCHANGED <<made, host, events>>
    BY <1>4 DEF hid_retry_work_fn, hid_resync_cb, QuietBegins, QuietEnds, TxFailed,
           OtherFlush, SlotStarts, Connects, Disconnects, SlotStops, vars, body, env
  <2> QED
    BY <1>0, <2>1 DEF CountsOK
<1> QED
  BY <1>1, <1>2, <1>3, <1>4 DEF Next

LEMMA RelayThreadStep == RelayTyped /\ [Next]_vars => ThreadOK'
<1> SUFFICES ASSUME RelayTyped, [Next]_vars
             PROVE  ThreadOK'
  OBVIOUS
<1>0. ThreadOK /\ <<>> \in Seq(Nat) /\ ToSet(<<>>) = {}
  BY DEF RelayTyped, ToSet
<1>1. ASSUME NEW i \in Inputs, hid_relay_cb(i)
      PROVE  ThreadOK'
  <2>1. /\ at = "idle" /\ UNCHANGED <<snap, hand>>
        /\ made' = [k \in Kinds |-> IF k \in ToSet(Concerned(i)) THEN made[k] + 1 ELSE made[k]]
        /\ IF active THEN at' = "snap" /\ todo' = Concerned(i) ELSE UNCHANGED <<at, todo>>
    BY <1>1 DEF hid_relay_cb
  <2>2. hand = <<>> /\ todo = <<>> /\ snap \in 0..MaxEvents
    BY <1>0, <2>1 DEF ThreadOK
  <2>3. CASE active
    <3>1. at' = "snap" /\ todo' = Concerned(i)
      BY <2>1, <2>3
    <3>2. Concerned(i) \in AnyTodo /\ Concerned(i) # <<>> /\ ToSet(Concerned(i)) \subseteq Kinds
      BY ConcernedFacts
    <3>3. \A k \in ToSet(todo') : made'[k] >= 1
      BY <2>1, <3>1, <3>2 DEF RelayTyped, CountsOK
    <3> QED
      BY <1>0, <2>1, <2>2, <3>1, <3>2, <3>3 DEF ThreadOK
  <2>4. CASE ~active
    <3>1. at' = "idle" /\ todo' = <<>>
      BY <2>1, <2>2, <2>4
    <3> QED
      BY <1>0, <2>1, <2>2, <3>1 DEF ThreadOK, AnyTodo
  <2> QED
    BY <2>3, <2>4
<1>2. CASE EventThread
  <2>0. made' = made /\ at # "idle"
    BY <1>2 DEF EventThread, Snapshots, DrainTakes, DrainSends, DrainReparks, SnapshotSent,
                SnapshotParked, RetryScheduled, body
  <2>1. /\ kind \in Kinds /\ todo # <<>> /\ made[kind] \in 0..MaxEvents
        /\ pending[kind] \in Seq(Nat) /\ ToSet(pending[kind]) \subseteq 1..made[kind]
    BY <2>0, KindFacts
  <2>2. ASSUME NextKind, snap' = snap, hand' = hand, hand = <<>>
        PROVE  ThreadOK'
    <3>1. todo' = Tail(todo) /\ at' = IF Len(todo) = 1 THEN "idle" ELSE "snap"
      BY <2>2 DEF NextKind
    <3>2. /\ todo' \in AnyTodo /\ (Len(todo) = 1 <=> todo' = <<>>)
          /\ ToSet(todo') \subseteq ToSet(todo)
      BY <1>0, <2>1, <3>1, TodoFacts DEF ThreadOK
    <3>3. \A k \in ToSet(todo') : made'[k] >= 1
      BY <1>0, <2>0, <3>2 DEF ThreadOK
    <3>4. at' = "idle" \/ at' = "snap"
      BY <3>1
    <3> QED
      BY <1>0, <2>0, <2>2, <3>1, <3>2, <3>3, <3>4 DEF ThreadOK
  <2>3. CASE Snapshots
    <3>1. /\ at = "snap" /\ snap' = made[kind] /\ UNCHANGED <<todo, hand>>
          /\ at' = "sched" \/ at' = "drain"
      BY <2>3 DEF Snapshots
    <3> QED
      BY <1>0, <2>0, <2>1, <3>1 DEF ThreadOK, kind
  <2>4. CASE DrainTakes
    <3>1. at = "drain" /\ at' = "send" /\ hand' = pending[kind] /\ UNCHANGED <<todo, snap>>
      BY <2>4 DEF DrainTakes
    <3> QED
      BY <1>0, <2>0, <2>1, <3>1 DEF ThreadOK, kind
  <2>5. CASE DrainSends
    <3>1. at = "send" /\ hand # <<>> /\ hand' = Tail(hand) /\ UNCHANGED <<at, todo, snap>>
      BY <2>5 DEF DrainSends
    <3>2. Tail(hand) \in Seq(Nat) /\ ToSet(Tail(hand)) \subseteq ToSet(hand)
      BY <3>1, HandHead
    <3> QED
      BY <1>0, <2>0, <2>1, <3>1, <3>2 DEF ThreadOK, kind
  <2>6. CASE DrainReparks
    <3>1. at = "send" /\ hand' = <<>> /\ at' = "park" /\ UNCHANGED <<todo, snap>>
      BY <2>6 DEF DrainReparks
    <3> QED
      BY <1>0, <2>0, <2>1, <3>1 DEF ThreadOK, kind
  <2>7. CASE SnapshotSent
    <3>1. CASE quiet
      <4>1. at = "send" /\ hand = <<>> /\ at' = "park" /\ UNCHANGED <<todo, snap, hand>>
        BY <2>7, <3>1 DEF SnapshotSent
      <4> QED
        BY <1>0, <2>0, <2>1, <4>1 DEF ThreadOK, kind
    <3>2. CASE ~quiet
      BY <2>2, <2>7, <3>2 DEF SnapshotSent
    <3> QED
      BY <3>1, <3>2
  <2>8. CASE SnapshotParked
    <3>1. at = "park" /\ at' = "sched" /\ UNCHANGED <<todo, snap, hand>>
      BY <2>8 DEF SnapshotParked
    <3> QED
      BY <1>0, <2>0, <2>1, <3>1 DEF ThreadOK, kind
  <2>9. CASE RetryScheduled
    <3>1. at = "sched" /\ NextKind /\ snap' = snap /\ hand' = hand
      BY <2>9 DEF RetryScheduled
    <3>2. hand = <<>>
      BY <1>0, <3>1 DEF ThreadOK
    <3> QED
      BY <2>2, <3>1, <3>2
  <2> QED
    BY <1>2, <2>3, <2>4, <2>5, <2>6, <2>7, <2>8, <2>9 DEF EventThread
<1>3. CASE \/ hid_retry_work_fn \/ hid_resync_cb \/ QuietBegins \/ QuietEnds \/ TxFailed
           \/ TxAcked \/ OtherFlush \/ SlotStarts \/ Connects \/ Disconnects \/ SlotStops
           \/ UNCHANGED vars
  <2>1. UNCHANGED <<made, at, todo, snap, hand>>
    BY <1>3 DEF hid_retry_work_fn, hid_resync_cb, QuietBegins, QuietEnds, TxFailed, TxAcked,
           OtherFlush, SlotStarts, Connects, Disconnects, SlotStops, vars, body, thread
  <2> QED
    BY <1>0, <2>1 DEF ThreadOK, kind
<1> QED
  BY <1>1, <1>2, <1>3 DEF Next

(* The ring of kind c after more has been put into it. *)
LEMMA RingPut ==
  ASSUME RelayTyped, NEW c \in Kinds, NEW s \in Seq(Nat), ToSet(s) \subseteq 1..made[c],
         pending' = [pending EXCEPT ![c] = Kept(c, s)], made' = made, at' # "send"
  PROVE  RingsOK'
<1>1. /\ Kept(c, s) \in Seq(Nat) /\ Len(Kept(c, s)) <= DEPTH[c]
      /\ ToSet(Kept(c, s)) \subseteq 1..made[c]
  BY KeptGeneral
<1> QED
  BY <1>1 DEF RelayTyped, RingsOK

(* A ring is only emptied, or left alone. *)
LEMMA RingsEmptied ==
  ASSUME RelayTyped, NEW K, made' = made, at' = "send" => at = "send" /\ todo' = todo,
         pending' = [k \in Kinds |-> IF k \in K THEN <<>> ELSE pending[k]]
  PROVE  RingsOK'
<1>1. <<>> \in Seq(Nat) /\ ToSet(<<>>) = {} /\ Len(<<>>) = 0
  BY DEF ToSet
<1>2. \A k \in Kinds : DEPTH[k] \in Nat
  BY RelayAssumption DEF RelayAssumption
<1>3. RingsOK
  BY DEF RelayTyped
<1>4. ASSUME NEW k \in Kinds
      PROVE  /\ pending'[k] \in Seq(Nat) /\ Len(pending'[k]) <= DEPTH[k]
             /\ ToSet(pending'[k]) \subseteq 1..made'[k]
             /\ ToSet(pending'[k]) \subseteq ToSet(pending[k])
  <2>1. CASE k \in K
    <3>1. pending'[k] = <<>>
      BY <2>1
    <3>2. Len(pending'[k]) = 0 /\ ToSet(pending'[k]) = {} /\ pending'[k] \in Seq(Nat)
      BY <1>1, <3>1
    <3>3. DEPTH[k] \in Nat
      BY <1>2
    <3> QED
      BY <3>2, <3>3
  <2>2. CASE k \notin K
    <3>1. pending'[k] = pending[k]
      BY <2>2
    <3> QED
      BY <1>3, <3>1 DEF RingsOK
  <2> QED
    BY <2>1, <2>2
<1>5. pending' \in [Kinds -> Seq(Nat)]
  BY <1>4
<1>6. at' = "send" => ToSet(pending[kind]) \subseteq {made[kind]} /\ kind' = kind /\ kind \in Kinds
  BY <1>3, KindFacts DEF RingsOK, kind
<1> QED
  BY <1>4, <1>5, <1>6 DEF RingsOK

LEMMA RelayRingsStep == RelayTyped /\ [Next]_vars => RingsOK'
<1> SUFFICES ASSUME RelayTyped, [Next]_vars
             PROVE  RingsOK'
  OBVIOUS
<1>0. RingsOK /\ CountsOK /\ ThreadOK
  BY DEF RelayTyped
<1>1. ASSUME NEW i \in Inputs, hid_relay_cb(i)
      PROVE  RingsOK'
  <2>1. /\ pending' = pending \/ pending' = [k \in Kinds |-> <<>>]
        /\ at = "idle" /\ (at' = "snap" \/ at' = at)
        /\ made' = [k \in Kinds |-> IF k \in ToSet(Concerned(i)) THEN made[k] + 1 ELSE made[k]]
    BY <1>1 DEF hid_relay_cb
  <2>2. at' # "send"
    BY <2>1
  <2>3. ASSUME NEW k \in Kinds
        PROVE  1..made[k] \subseteq 1..made'[k]
    BY <1>0, <2>1 DEF CountsOK
  <2>4. ASSUME NEW k \in Kinds
        PROVE  /\ pending'[k] \in Seq(Nat) /\ Len(pending'[k]) <= DEPTH[k]
               /\ ToSet(pending'[k]) \subseteq 1..made'[k]
    <3>1. CASE pending' = pending
      BY <1>0, <2>3, <3>1 DEF RingsOK
    <3>2. CASE pending' = [j \in Kinds |-> <<>>]
      <4>1. pending'[k] = <<>>
        BY <3>2
      <4>2. <<>> \in Seq(Nat) /\ ToSet(<<>>) = {} /\ Len(<<>>) = 0 /\ DEPTH[k] \in Nat
        BY RelayAssumption DEF ToSet, RelayAssumption
      <4> QED
        BY <4>1, <4>2
    <3> QED
      BY <2>1, <3>1, <3>2
  <2>5. pending' \in [Kinds -> Seq(Nat)]
    BY <1>0, <2>1, <2>4 DEF RingsOK
  <2> QED
    BY <2>2, <2>4, <2>5 DEF RingsOK
<1>2. CASE EventThread
  <2>0. made' = made /\ at # "idle"
    BY <1>2 DEF EventThread, Snapshots, DrainTakes, DrainSends, DrainReparks, SnapshotSent,
                SnapshotParked, RetryScheduled, body
  <2>1. /\ kind \in Kinds /\ made[kind] \in Nat /\ made[kind] >= 1
        /\ pending[kind] \in Seq(Nat) /\ ToSet(pending[kind]) \subseteq 1..made[kind]
    BY <2>0, KindFacts
  <2>2. /\ Append(pending[kind], made[kind]) \in Seq(Nat)
        /\ ToSet(Append(pending[kind], made[kind])) \subseteq 1..made[kind]
    <3>1. ToSet(Append(pending[kind], made[kind])) = ToSet(pending[kind]) \cup {made[kind]}
      BY <2>1, ToSetAppend
    <3>2. made[kind] \in 1..made[kind]
      BY <2>1
    <3> QED
      BY <2>1, <3>1, <3>2, ToSetAppend
  <2>3. CASE Snapshots
    <3>1. CASE quiet
      <4>1. /\ pending' = [pending EXCEPT ![kind] = Kept(kind, Append(pending[kind], made[kind]))]
            /\ at' = "sched"
        BY <2>3, <3>1 DEF Snapshots
      <4>2. at' # "send"
        BY <4>1
      <4> QED
        BY <2>0, <2>1, <2>2, <4>1, <4>2, RingPut
    <3>2. CASE ~quiet
      <4>1. pending' = pending /\ at' # "send"
        BY <2>3, <3>2 DEF Snapshots
      <4> QED
        BY <1>0, <2>0, <4>1 DEF RingsOK
    <3> QED
      BY <3>1, <3>2
  <2>4. CASE DrainTakes
    <3>1. pending' = [pending EXCEPT ![kind] = <<>>] /\ todo' = todo
      BY <2>4 DEF DrainTakes
    <3>2. <<>> \in Seq(Nat) /\ ToSet(<<>>) = {} /\ Len(<<>>) = 0 /\ DEPTH[kind] \in Nat
      BY <2>1, RelayAssumption DEF ToSet, RelayAssumption
    <3> QED
      BY <1>0, <2>0, <2>1, <3>1, <3>2 DEF RingsOK, kind
  <2>5. CASE DrainSends
    <3>1. UNCHANGED <<pending, at, todo>>
      BY <2>5 DEF DrainSends
    <3> QED
      BY <1>0, <2>0, <3>1 DEF RingsOK, kind
  <2>6. CASE DrainReparks
    <3>1. /\ at = "send" /\ at' = "park"
          /\ pending' = [pending EXCEPT ![kind] = Kept(kind, hand \o pending[kind])]
      BY <2>6 DEF DrainReparks
    <3>2. at' # "send"
      BY <3>1
    <3>3. hand \in Seq(Nat) /\ ToSet(hand) \subseteq 1..made[kind]
      BY <1>0, <3>1 DEF ThreadOK
    <3>4. /\ hand \o pending[kind] \in Seq(Nat)
          /\ ToSet(hand \o pending[kind]) = ToSet(hand) \cup ToSet(pending[kind])
      BY <2>1, <3>3, ToSetConcat
    <3>5. ToSet(hand \o pending[kind]) \subseteq 1..made[kind]
      BY <2>1, <3>3, <3>4
    <3> QED
      BY <2>0, <2>1, <3>1, <3>2, <3>4, <3>5, RingPut
  <2>7. CASE SnapshotSent \/ RetryScheduled
    <3>1. pending' = pending /\ at' # "send"
      BY <2>7 DEF SnapshotSent, RetryScheduled, NextKind
    <3> QED
      BY <1>0, <2>0, <3>1 DEF RingsOK
  <2>8. CASE SnapshotParked
    <3>1. /\ at = "park" /\ at' = "sched" /\ snap = made[kind]
          /\ pending' = [pending EXCEPT ![kind] = Kept(kind, Append(pending[kind], snap))]
      BY <1>0, <2>8 DEF SnapshotParked, ThreadOK
    <3>2. at' # "send" /\ pending' = [pending EXCEPT ![kind] =
                                        Kept(kind, Append(pending[kind], made[kind]))]
      BY <3>1
    <3> QED
      BY <2>0, <2>1, <2>2, <3>2, RingPut
  <2> QED
    BY <1>2, <2>3, <2>4, <2>5, <2>6, <2>7, <2>8 DEF EventThread
<1>3. CASE hid_retry_work_fn
  <2>1. made' = made /\ UNCHANGED <<at, todo>> /\ pending' = [k \in Kinds |-> <<>>]
    BY <1>3, RetryStep DEF body, thread
  <2>2. pending' = [k \in Kinds |-> IF k \in Kinds THEN <<>> ELSE pending[k]]
    BY <2>1
  <2> QED
    BY <2>1, <2>2, RingsEmptied
<1>4. CASE hid_resync_cb
  <2>1. made' = made /\ UNCHANGED <<at, todo>>
    BY <1>4, ResyncStep DEF body, thread
  <2>2. CASE quiet
    <3>1. pending' = [k \in Kinds |-> IF k \in Asked THEN Kept(k, Wanted[k]) ELSE pending[k]]
      BY <1>4, <2>2, ResyncStep
    <3>2. ASSUME NEW k \in Kinds
          PROVE  /\ pending'[k] \in Seq(Nat) /\ Len(pending'[k]) <= DEPTH[k]
                 /\ ToSet(pending'[k]) \subseteq 1..made'[k]
                 /\ ToSet(pending'[k]) \subseteq ToSet(pending[k]) \cup {made[k]}
      <4>1. CASE k \in Asked
        <5>1. /\ Wanted[k] \in Seq(Nat) /\ ToSet(Wanted[k]) \subseteq 1..made[k]
              /\ ToSet(Wanted[k]) = ToSet(pending[k]) \cup {made[k]}
          BY <4>1, WantedFacts
        <5>2. pending'[k] = Kept(k, Wanted[k])
          BY <3>1, <4>1
        <5>3. /\ Kept(k, Wanted[k]) \in Seq(Nat) /\ Len(Kept(k, Wanted[k])) <= DEPTH[k]
              /\ ToSet(Kept(k, Wanted[k])) \subseteq ToSet(Wanted[k])
          BY <5>1, KeptGeneral
        <5>4. ToSet(pending'[k]) \subseteq ToSet(Wanted[k])
          BY <5>2, <5>3
        <5> QED
          BY <2>1, <5>1, <5>2, <5>3, <5>4
      <4>2. CASE k \notin Asked
        <5>1. pending'[k] = pending[k]
          BY <3>1, <4>2
        <5> QED
          BY <1>0, <2>1, <5>1 DEF RingsOK
      <4> QED
        BY <4>1, <4>2
    <3>3. pending' \in [Kinds -> Seq(Nat)]
      BY <3>1, <3>2
    <3>4. at' = "send" => ToSet(pending'[kind']) \subseteq {made'[kind']}
      <4>1. ASSUME at' = "send"
            PROVE  kind' = kind /\ kind \in Kinds /\ ToSet(pending[kind]) \subseteq {made[kind]}
        BY <1>0, <2>1, <4>1, KindFacts DEF RingsOK, kind
      <4> QED
        BY <2>1, <3>2, <4>1
    <3> QED
      BY <3>2, <3>3, <3>4 DEF RingsOK
  <2>3. CASE ~quiet
    BY <1>4, <2>1, <2>3, ResyncStep, RingsEmptied
  <2> QED
    BY <2>2, <2>3
<1>5. CASE \/ QuietBegins \/ QuietEnds \/ TxFailed \/ TxAcked \/ OtherFlush \/ SlotStarts
           \/ Connects \/ Disconnects \/ SlotStops \/ UNCHANGED vars
  <2>1. UNCHANGED <<made, pending, at, todo>>
    BY <1>5 DEF QuietBegins, QuietEnds, TxFailed, TxAcked,
           OtherFlush, SlotStarts, Connects, Disconnects, SlotStops, vars, body, thread
  <2> QED
    BY <1>0, <2>1 DEF RingsOK, kind
<1> QED
  BY <1>1, <1>2, <1>3, <1>4, <1>5 DEF Next

(* Every step excuses some kinds, which ends with nothing of the kind under  *)
(* way, or leaves the excuses alone.                                         *)
LEMMA EveryStepExcuses ==
  ASSUME RelayTyped, [Next]_vars
  PROVE  excused' \subseteq Kinds
<1>0. /\ excused \subseteq Kinds /\ KindsOf(fifo) \subseteq Kinds
      /\ pending \in [Kinds -> Seq(Nat)]
  BY KindsAndNums DEF RelayTyped, LinksOK, RadioOK, RingsOK
<1>1. ASSUME NEW K \in SUBSET Kinds, Excuse(K)
      PROVE  excused' \subseteq Kinds
  BY <1>0, <1>1 DEF Excuse
<1>2. ASSUME NEW reports \in Seq(AnyReport)
      PROVE  LostBy(reports) \subseteq Kinds
  <2>1. KindsOf(reports) \subseteq Kinds
    BY KindsAndNums
  <2>2. KindsOf(Flushed(reports)) \subseteq Kinds
    <3>1. CASE link = "off"
      BY <3>1 DEF Flushed, KindsOf
    <3>2. CASE link # "off"
      <4> DEFINE all == fifo \o reports
                 d == Len(fifo) + Len(reports) - Fits(reports)
      <4>1. /\ all \in Seq(AnyReport) /\ Len(all) = Len(fifo) + Len(reports)
            /\ Len(fifo) \in Nat /\ Len(reports) \in Nat
        BY ConcatProperties, LenProperties DEF RelayTyped, RadioOK
      <4>2. Fits(reports) \in 0..Len(all)
        <5>1. FIFO_SIZE \in Nat \ {0} /\ Len(fifo) + Len(reports) \in Nat
          BY <4>1, RelayAssumption DEF RelayAssumption
        <5> QED
          BY <4>1, <5>1, FitsRange DEF Fits
      <4>3. d \in 0..Len(all)
        BY <4>1, <4>2
      <4>4. Flushed(reports) = SubSeq(all, 1, d)
        BY <3>2 DEF Flushed
      <4> HIDE DEF d, all
      <4>5. KindsOf(SubSeq(all, 1, d)) \subseteq KindsOf(all)
        BY <4>1, <4>3, CutOff
      <4> QED
        BY <4>1, <4>4, <4>5, KindsAndNums
    <3> QED
      BY <3>1, <3>2
  <2> QED
    BY <2>1, <2>2 DEF LostBy
<1>3. ASSUME NEW reports \in Seq(AnyReport)
      PROVE  Overtaken(reports) \subseteq Kinds
  BY KindsAndNums DEF Overtaken
<1>4. ASSUME NEW c \in Kinds, NEW s
      PROVE  Overflown(c, s) \subseteq Kinds
  BY DEF Overflown
<1>5. ASSUME NEW i \in Inputs, hid_relay_cb(i)
      PROVE  excused' \subseteq Kinds
  BY <1>1, <1>5 DEF hid_relay_cb
<1>6. CASE EventThread
  <2>0. at # "idle"
    BY <1>6 DEF EventThread, Snapshots, DrainTakes, DrainSends, DrainReparks, SnapshotSent,
                SnapshotParked, RetryScheduled
  <2>1. kind \in Kinds
    BY <2>0, KindFacts
  <2>2. ASSUME DrainSends
        PROVE  Excuse(LostBy(<<Report(kind, Head(hand))>>))
               /\ <<Report(kind, Head(hand))>> \in Seq(AnyReport)
    <3>1. Head(hand) \in 1..made[kind]
      BY <2>2, HandHead DEF DrainSends
    <3>2. Head(hand) \in Nat
      BY <3>1
    <3> QED
      BY <2>1, <2>2, <3>2, OneReport DEF DrainSends
  <2>3. ASSUME SnapshotSent
        PROVE  /\ Excuse({}) \/ Excuse(LostBy(<<Report(kind, snap)>>))
               /\ <<Report(kind, snap)>> \in Seq(AnyReport)
    <3>1. snap \in Nat
      BY DEF RelayTyped, ThreadOK
    <3> QED
      BY <2>1, <2>3, <3>1, OneReport DEF SnapshotSent
  <2>4. ASSUME NEW s, Excuse(Overflown(kind, s))
        PROVE  excused' \subseteq Kinds
    BY <1>1, <1>4, <2>1, <2>4
  <2>5. Excuse({}) => excused' \subseteq Kinds
    BY <1>1
  <2>6. CASE Snapshots
    <3>1. \/ Excuse({}) \/ Excuse(Overflown(kind, Append(pending[kind], snap')))
      BY <2>6 DEF Snapshots
    <3> QED
      BY <2>4, <2>5, <3>1
  <2>7. CASE DrainTakes
    BY <1>0, <2>7 DEF DrainTakes
  <2>8. CASE DrainSends
    BY <1>1, <1>2, <2>2, <2>8
  <2>9. CASE DrainReparks
    BY <2>4, <2>9 DEF DrainReparks
  <2>10. CASE SnapshotSent
    BY <1>1, <1>2, <2>3, <2>5, <2>10
  <2>11. CASE SnapshotParked
    BY <2>4, <2>11 DEF SnapshotParked
  <2>12. CASE RetryScheduled
    BY <2>5, <2>12 DEF RetryScheduled
  <2> QED
    BY <1>6, <2>6, <2>7, <2>8, <2>9, <2>10, <2>11, <2>12 DEF EventThread
<1>7. CASE hid_retry_work_fn
  <2>1. Both(pending) \in Seq(AnyReport)
    BY <1>0, BothFacts
  <2>2. LostBy(Both(pending)) \cup Overtaken(Both(pending)) \subseteq Kinds
    BY <1>2, <1>3, <2>1
  <2> QED
    BY <1>1, <1>7, <2>2, RetryStep
<1>8. CASE hid_resync_cb
  <2>1. Both(Wanted) \in Seq(AnyReport) /\ Asked \subseteq Kinds
    BY WantedFacts, BothFacts
  <2>2. LostBy(Both(Wanted)) \cup Overtaken(Both(Wanted)) \subseteq Kinds
    BY <1>2, <1>3, <2>1
  <2>3. UNION {Overflown(k, Wanted[k]) : k \in Asked} \subseteq Kinds
    BY <1>4, <2>1
  <2> QED
    BY <1>1, <1>8, <2>2, <2>3, ResyncStep
<1>9. CASE TxFailed
  <2>1. Excuse(IF Len(fifo) = FIFO_SIZE THEN KindsOf(fifo) ELSE {})
    BY <1>9 DEF TxFailed
  <2> QED
    BY <1>0, <1>1, <2>1
<1>10. CASE TxAcked \/ OtherFlush \/ Disconnects \/ SlotStops
  BY <1>0, <1>1, <1>10 DEF TxAcked, OtherFlush, Disconnects, SlotStops
<1>11. CASE QuietBegins \/ QuietEnds \/ SlotStarts \/ Connects \/ UNCHANGED vars
  BY <1>0, <1>11 DEF QuietBegins, QuietEnds, SlotStarts, Connects, vars
<1> QED
  BY <1>5, <1>6, <1>7, <1>8, <1>9, <1>10, <1>11 DEF Next

LEMMA RelayLinksStep == RelayTyped /\ [Next]_vars => LinksOK'
<1> SUFFICES ASSUME RelayTyped, [Next]_vars
             PROVE  LinksOK'
  OBVIOUS
<1>0. LinksOK /\ CountsOK /\ RadioOK /\ MaxFaults \in Nat /\ excused' \subseteq Kinds
  BY EveryStepExcuses, RelayAssumption DEF RelayTyped, RelayAssumption
<1>1. ASSUME NEW i \in Inputs, hid_relay_cb(i)
      PROVE  LinksOK'
  <2>1. /\ UNCHANGED <<link, quiet, faults>> /\ was_active' = active
        /\ retry' = FALSE \/ retry' = retry
        /\ owed' = owed \/ owed' = owed \cup ToSet(Concerned(i))
    BY <1>1 DEF hid_relay_cb
  <2>2. owed' \subseteq Kinds
    BY <1>0, <2>1, ConcernedFacts DEF LinksOK
  <2> QED
    BY <1>0, <2>1, <2>2 DEF LinksOK, active
<1>2. CASE EventThread
  <2>1. UNCHANGED <<link, quiet, faults, owed, was_active>> /\ (retry' = TRUE \/ retry' = retry)
    BY <1>2 DEF EventThread, Snapshots, DrainTakes, DrainSends, DrainReparks, SnapshotSent,
                SnapshotParked, RetryScheduled, env, body
  <2> QED
    BY <1>0, <2>1 DEF LinksOK
<1>3. CASE hid_retry_work_fn
  <2>1. UNCHANGED <<link, quiet, faults, owed, was_active>> /\ retry' = FALSE
    BY <1>3, RetryStep DEF env, body
  <2> QED
    BY <1>0, <2>1 DEF LinksOK
<1>4. CASE hid_resync_cb
  <2>1. UNCHANGED <<link, quiet, faults, owed, was_active>>
        /\ (retry' = retry \/ retry' = (retry \/ Asked # {}))
    BY <1>0, <1>4, ResyncStep DEF env, body, LinksOK
  <2>2. retry' \in BOOLEAN
    BY <1>0, <2>1 DEF LinksOK
  <2> QED
    BY <1>0, <2>1, <2>2 DEF LinksOK
<1>5. CASE TxAcked
  <2>1. /\ UNCHANGED <<link, quiet, faults, retry, was_active>> /\ owed' \subseteq owed
    BY <1>5 DEF TxAcked, body
  <2> QED
    BY <1>0, <2>1 DEF LinksOK
<1>6. CASE TxFailed \/ OtherFlush
  <2>1. /\ UNCHANGED <<link, quiet, owed, retry, was_active>>
        /\ faults < MaxFaults /\ faults' = faults + 1
    BY <1>6 DEF TxFailed, OtherFlush, body
  <2>2. faults' \in 0..MaxFaults
    BY <1>0, <2>1 DEF LinksOK
  <2> QED
    BY <1>0, <2>1, <2>2 DEF LinksOK
<1>7. CASE SlotStarts \/ Connects \/ Disconnects \/ SlotStops
  <2>1. /\ link' \in {"off", "on", "up"} /\ (owed' = owed \/ owed' = {})
        /\ UNCHANGED <<quiet, faults, retry, was_active>>
    BY <1>7 DEF SlotStarts, Connects, Disconnects, SlotStops, body
  <2> QED
    BY <1>0, <2>1 DEF LinksOK
<1>8. CASE QuietBegins \/ QuietEnds
  <2>1. UNCHANGED <<link, owed, faults, retry, was_active>> /\ quiet' \in BOOLEAN
    BY <1>8 DEF QuietBegins, QuietEnds, body
  <2> QED
    BY <1>0, <2>1 DEF LinksOK
<1>9. CASE UNCHANGED vars
  BY <1>0, <1>9 DEF LinksOK, vars, env, body
<1> QED
  BY <1>1, <1>2, <1>3, <1>4, <1>5, <1>6, <1>7, <1>8, <1>9 DEF Next

LEMMA RelayTypedInit == Init => RelayTyped
<1> SUFFICES ASSUME Init
             PROVE  RelayTyped
  OBVIOUS
<1>1. <<>> \in Seq(Nat) /\ ToSet(<<>>) = {} /\ Len(<<>>) = 0 /\ <<>> \in Seq(AnyReport)
  BY DEF ToSet
<1>2. \A k \in Kinds : Nums(k, <<>>) = {}
  BY DEF Nums
<1>3. MaxEvents \in Nat /\ MaxFaults \in Nat /\ FIFO_SIZE \in Nat /\ \A k \in Kinds : DEPTH[k] \in Nat
  BY RelayAssumption DEF RelayAssumption
<1>9. /\ made = [k \in Kinds |-> 0] /\ host = made /\ events = 0 /\ at = "idle" /\ todo = <<>>
       /\ snap = 0 /\ hand = <<>> /\ pending = [k \in Kinds |-> <<>>]
       /\ fifo = <<>> /\ busy = FALSE /\ resync = {}
       /\ link = "off" /\ quiet = FALSE /\ retry = FALSE /\ was_active = FALSE
       /\ owed = {} /\ excused = {} /\ faults = 0
  BY DEF Init
<1>4. LinksOK
  <2>1. quiet \in BOOLEAN /\ retry \in BOOLEAN /\ was_active \in BOOLEAN
    BY <1>9
  <2>2. faults \in 0..MaxFaults /\ owed \subseteq Kinds /\ excused \subseteq Kinds
    BY <1>3, <1>9
  <2>3. link \in {"off", "on", "up"}
    BY <1>9
  <2> QED
    BY <2>1, <2>2, <2>3 DEF LinksOK
<1>5. CountsOK
  BY <1>3, <1>9 DEF CountsOK
<1>6. ThreadOK
  BY <1>1, <1>3, <1>9 DEF ThreadOK, AnyTodo
<1>7. RingsOK
  <2>1. \A k \in Kinds : pending[k] = <<>>
    BY <1>9
  <2>2. pending \in [Kinds -> Seq(Nat)]
    BY <1>1, <1>9
  <2>3. ASSUME NEW k \in Kinds
        PROVE  Len(pending[k]) <= DEPTH[k] /\ ToSet(pending[k]) \subseteq 1..made[k]
    <3>1. Len(pending[k]) = 0 /\ ToSet(pending[k]) = {} /\ DEPTH[k] \in Nat
      BY <1>1, <1>3, <2>1
    <3> QED
      BY <3>1
  <2> QED
    BY <1>9, <2>2, <2>3 DEF RingsOK
<1>8. RadioOK
  <2>1. Len(fifo) <= FIFO_SIZE /\ fifo \in Seq(AnyReport)
    BY <1>1, <1>3, <1>9
  <2>2. \A k \in Kinds : Nums(k, fifo) \subseteq 1..made[k]
    BY <1>2, <1>9
  <2> QED
    BY <1>9, <2>1, <2>2 DEF RadioOK
<1> QED
  BY <1>4, <1>5, <1>6, <1>7, <1>8 DEF RelayTyped

LEMMA RelayTypedStep == RelayTyped /\ [Next]_vars => RelayTyped'
  BY RelayLinksStep, RelayCountsStep, RelayThreadStep, RelayRingsStep, RelayRadioStep
  DEF RelayTyped

LEMMA HeldBound ==
  ASSUME RelayTyped, ModsInv
  PROVE  HidTypeOK
<1>1. LinksOK /\ CountsOK /\ ThreadOK /\ RingsOK /\ RadioOK /\ MaxEvents \in Nat
  BY RelayAssumption DEF RelayTyped, RelayAssumption
<1>2. \A k \in Kinds : made[k] \in 0..MaxEvents /\ host[k] \in 0..MaxEvents
  BY <1>1 DEF CountsOK
<1>3. made \in [Kinds -> 0..MaxEvents] /\ host \in [Kinds -> 0..MaxEvents]
  BY <1>1, <1>2 DEF CountsOK
<1>4. ToSet(hand) \subseteq 1..MaxEvents
  <2>1. CASE hand = <<>>
    BY <2>1 DEF ToSet
  <2>2. CASE hand # <<>>
    <3>1. at = "send" /\ ToSet(hand) \subseteq 1..made[kind]
      BY <1>1, <2>2 DEF ThreadOK
    <3>2. made[kind] \in 0..MaxEvents
      BY <3>1, KindFacts
    <3>3. 1..made[kind] \subseteq 1..MaxEvents
      BY <1>1, <3>2
    <3> QED
      BY <3>1, <3>3
  <2> QED
    BY <2>1, <2>2
<1>5. ToSet(todo) \subseteq Kinds
  BY <1>1, TodoFacts DEF ThreadOK
<1>6. KindsOf(fifo) \subseteq Kinds
  BY <1>1, KindsAndNums DEF RadioOK
<1>7. \A set \in {"explicit", "implicit"} :
        mods[set] \subseteq Mods /\ \A m \in Mods : rc[set][m] \in Nat
  BY DEF ModsInv, ModsTyped, Sets
<1>8. held \subseteq Inputs
  BY DEF ModsInv, ModsTyped
<1>9. \A k \in Kinds : Len(pending[k]) <= DEPTH[k] /\ ToSet(pending[k]) \subseteq 1..made[k]
  BY <1>1 DEF RingsOK
<1>10. {quiet, busy, retry, was_active} \subseteq BOOLEAN
  BY <1>1 DEF LinksOK, RadioOK
<1> QED
  BY <1>1, <1>3, <1>4, <1>5, <1>6, <1>7, <1>8, <1>9, <1>10
  DEF HidTypeOK, LinksOK, CountsOK, ThreadOK, RadioOK

(* Queues and rings stay within their sizes, and hold only reports that were *)
(* made (ring_push, esb_transport_send).                                     *)
THEOREM RelayTypes == Spec => []HidTypeOK
<1>1. Init => RelayTyped /\ ModsInv
  BY RelayTypedInit, ModsInit
<1>2. (RelayTyped /\ ModsInv) /\ [Next]_vars => (RelayTyped /\ ModsInv)'
  BY RelayTypedStep, ModsStep
<1>3. RelayTyped /\ ModsInv => HidTypeOK
  BY HeldBound
<1> QED
  BY <1>1, <1>2, <1>3, PTL DEF Spec

(***************************************************************************)
(* Where the reports of a kind are that nothing excuses                    *)
(***************************************************************************)

(* What drain_pending has in hand of kind k, and what waits in its ring. *)
HandOf(k) == IF todo # <<>> /\ kind = k THEN hand ELSE <<>>
Held(k) == ToSet(HandOf(k))
Parked(k) == ToSet(pending[k])

(* The event thread has yet to send or to park the current report. *)
Due(k) == k \in ToSet(todo) /\ ~(k = kind /\ at = "sched")

(* First what is in the FIFO, then what is in hand, then the ring; nothing   *)
(* is older than what the host shows, and nothing newer is missing.          *)
Order(k) ==
  /\ InOrder(k, fifo) /\ Ascending(HandOf(k)) /\ Ascending(pending[k])
  /\ Below(Nums(k, fifo), Held(k) \cup Parked(k)) /\ Below(Held(k), Parked(k))
  /\ Below({host[k]}, Nums(k, fifo) \cup Held(k) \cup Parked(k))
  /\ \A m \in host[k] + 1..made[k] :
       \/ m \in Nums(k, fifo) \cup Held(k) \cup Parked(k)
       \/ m = made[k] /\ Due(k)

Ordered == \A k \in Kinds : k \notin excused => Order(k)

LEMMA EmptyFacts ==
  /\ <<>> \in Seq(Nat) /\ ToSet(<<>>) = {} /\ Ascending(<<>>)
  /\ \A k \in Kinds : Nums(k, <<>>) = {} /\ InOrder(k, <<>>)
  BY DEF ToSet, Ascending, Nums, InOrder

LEMMA NoneInFifo ==
  ASSUME NEW k \in Kinds, NEW q \in Seq(AnyReport), Nums(k, q) = {}
  PROVE  InOrder(k, q)
  BY DEF Nums, InOrder

LEMMA OrderTyped ==
  ASSUME RelayTyped, NEW k \in Kinds
  PROVE  /\ HandOf(k) \in Seq(Nat) /\ Held(k) \subseteq 1..made[k]
         /\ pending[k] \in Seq(Nat) /\ Parked(k) \subseteq 1..made[k]
         /\ Nums(k, fifo) \subseteq 1..made[k] /\ fifo \in Seq(AnyReport)
         /\ made[k] \in Nat /\ host[k] \in Nat /\ host[k] <= made[k]
         /\ hand = <<>> => HandOf(k) = <<>> /\ Held(k) = {}
<1>1. /\ pending[k] \in Seq(Nat) /\ Parked(k) \subseteq 1..made[k]
      /\ Nums(k, fifo) \subseteq 1..made[k] /\ fifo \in Seq(AnyReport)
      /\ made[k] \in Nat /\ host[k] \in Nat /\ host[k] <= made[k]
  BY DEF RelayTyped, RingsOK, RadioOK, CountsOK, Parked
<1>2. hand \in Seq(Nat) /\ (hand # <<>> => at = "send" /\ ToSet(hand) \subseteq 1..made[kind])
  BY DEF RelayTyped, ThreadOK
<1>3. HandOf(k) \in Seq(Nat)
  BY <1>2 DEF HandOf
<1>4. hand = <<>> => HandOf(k) = <<>> /\ Held(k) = {}
  BY EmptyFacts DEF HandOf, Held
<1>5. Held(k) \subseteq 1..made[k]
  <2>1. CASE hand = <<>>
    BY <1>4, <2>1
  <2>2. CASE hand # <<>>
    <3>1. (Held(k) = ToSet(hand) /\ kind = k) \/ Held(k) = {}
      BY EmptyFacts DEF Held, HandOf
    <3> QED
      BY <1>2, <2>2, <3>1
  <2> QED
    BY <2>1, <2>2
<1> QED
  BY <1>1, <1>3, <1>4, <1>5

(* Nothing under way is in order. *)
LEMMA OrderAtRest ==
  ASSUME RelayTyped', NEW k \in Kinds, ~UnderWay(k)'
  PROVE  Order(k)'
<1>1. /\ pending'[k] = <<>> /\ k \notin KindsOf(fifo') /\ k \notin ToSet(todo')
      /\ host'[k] = made'[k]
  BY DEF UnderWay
<1>2. /\ fifo' \in Seq(AnyReport) /\ made'[k] \in Nat /\ todo' \in AnyTodo
  BY DEF RelayTyped, RadioOK, CountsOK, ThreadOK
<1>3. Nums(k, fifo') = {}
  BY <1>1, <1>2, KindsAndNums
<1>4. HandOf(k)' = <<>>
  <2>1. todo' # <<>> => kind' \in ToSet(todo')
    BY <1>2, TodoFacts DEF kind
  <2> QED
    BY <1>1, <2>1 DEF HandOf
<1>5. Held(k)' = {} /\ Parked(k)' = {}
  BY <1>1, <1>4, EmptyFacts DEF Held, Parked
<1>6. InOrder(k, fifo') /\ Ascending(HandOf(k)') /\ Ascending(pending'[k])
  BY <1>1, <1>2, <1>3, <1>4, EmptyFacts, NoneInFifo
<1>7. host'[k] + 1..made'[k] = {}
  BY <1>1, <1>2
<1> QED
  BY <1>3, <1>5, <1>6, <1>7 DEF Order, Below

LEMMA Spared ==
  ASSUME RelayTyped', NEW K, Excuse(K), NEW k \in Kinds, k \notin excused'
  PROVE  Order(k)' \/ (k \notin excused /\ k \notin K)
  BY OrderAtRest DEF Excuse

(* Reports of kind k move on: from the ring into a hand, from there or from  *)
(* the current state into the FIFO (R), or back.                             *)
LEMMA OrderMoved ==
  ASSUME RelayTyped, RelayTyped', NEW k \in Kinds, Order(k), NEW R \in SUBSET Nat,
         made' = made, host' = host,
         Nums(k, fifo') = Nums(k, fifo) \cup R, InOrder(k, fifo'),
         Ascending(HandOf(k)'), Ascending(pending'[k]),
         R \cup Held(k)' \cup Parked(k)' \subseteq Held(k) \cup Parked(k) \cup {made[k]},
         Below(R, Held(k)' \cup Parked(k)'), Below(Held(k)', Parked(k)'),
         Held(k) \cup Parked(k) \subseteq R \cup Held(k)' \cup Parked(k)',
         Due(k) => Due(k)' \/ made[k] \in R \cup Held(k)' \cup Parked(k)'
  PROVE  Order(k)'
<1>1. /\ Nums(k, fifo) \subseteq 1..made[k] /\ made[k] \in Nat /\ host[k] \in Nat
      /\ host[k] <= made[k]
  BY OrderTyped
<1>2. Below(Nums(k, fifo), Held(k) \cup Parked(k) \cup {made[k]})
  BY <1>1 DEF Below, Order
<1>3. Below({host[k]}, Nums(k, fifo) \cup Held(k) \cup Parked(k) \cup {made[k]})
  BY <1>1 DEF Below, Order
<1>4. Below(Nums(k, fifo'), Held(k)' \cup Parked(k)')
  BY <1>2 DEF Below
<1>5. Below({host'[k]}, Nums(k, fifo') \cup Held(k)' \cup Parked(k)')
  BY <1>3 DEF Below
<1>6. ASSUME NEW m \in host'[k] + 1..made'[k]
      PROVE  \/ m \in Nums(k, fifo') \cup Held(k)' \cup Parked(k)'
             \/ m = made'[k] /\ Due(k)'
  <2>1. \/ m \in Nums(k, fifo) \cup Held(k) \cup Parked(k)
        \/ m = made[k] /\ Due(k)
    BY DEF Order
  <2> QED
    BY <2>1
<1> QED
  BY <1>4, <1>5, <1>6 DEF Order

(* Nothing of kind k moves. *)
LEMMA OrderAside ==
  ASSUME RelayTyped, RelayTyped', NEW k \in Kinds, Order(k), made' = made, host' = host,
         Nums(k, fifo') = Nums(k, fifo), InOrder(k, fifo'),
         pending'[k] = pending[k], HandOf(k)' = HandOf(k), Due(k) => Due(k)'
  PROVE  Order(k)'
<1>1. Held(k)' = Held(k) /\ Parked(k)' = Parked(k)
  BY DEF Held, Parked
<1>2. /\ Ascending(HandOf(k)) /\ Ascending(pending[k]) /\ Below(Held(k), Parked(k))
      /\ Below({}, Held(k) \cup Parked(k))
  BY DEF Order, Below
<1>3. Nums(k, fifo') = Nums(k, fifo) \cup {}
  OBVIOUS
<1>4. Ascending(HandOf(k)') /\ Ascending(pending'[k])
  BY <1>2
<1>5. Below(Held(k)', Parked(k)') /\ Below({}, Held(k)' \cup Parked(k)')
  BY <1>1, <1>2
<1>6. /\ {} \cup Held(k)' \cup Parked(k)' \subseteq Held(k) \cup Parked(k) \cup {made[k]}
      /\ Held(k) \cup Parked(k) \subseteq {} \cup Held(k)' \cup Parked(k)'
  BY <1>1
<1>7. {} \in SUBSET Nat /\ (Due(k) => Due(k)' \/ made[k] \in {} \cup Held(k)' \cup Parked(k)')
  OBVIOUS
<1> QED
  BY <1>3, <1>4, <1>5, <1>6, <1>7, OrderMoved

(* A kind the event thread is not sending. *)
LEMMA OtherKind ==
  ASSUME RelayTyped, RelayTyped', NEW k \in Kinds, k # kind, Order(k),
         at # "idle", made' = made, host' = host,
         Nums(k, fifo') = Nums(k, fifo), InOrder(k, fifo'), pending'[k] = pending[k],
         \/ todo' = todo
         \/ todo' = Tail(todo) /\ hand' = <<>> /\ at' # "sched"
  PROVE  Order(k)'
<1>1. /\ todo # <<>> /\ todo \in AnyTodo /\ ToSet(todo) = {kind} \cup ToSet(Tail(todo))
  BY TodoFacts DEF RelayTyped, ThreadOK, kind
<1>2. HandOf(k) = <<>>
  BY DEF HandOf
<1>3. HandOf(k)' = <<>>
  BY DEF HandOf, kind
<1>4. Due(k) => Due(k)'
  <2>1. CASE todo' = todo
    BY <2>1 DEF Due, kind
  <2>2. CASE todo' = Tail(todo) /\ at' # "sched"
    BY <1>1, <2>2 DEF Due
  <2> QED
    BY <2>1, <2>2
<1> QED
  BY <1>2, <1>3, <1>4, OrderAside

(* Reports of kind k are sent. *)
LEMMA OrderSent ==
  ASSUME RelayTyped, RelayTyped', NEW k \in Kinds, Order(k), made' = made, host' = host,
         NEW reports \in Seq(AnyReport), NEW pr, Sent(reports, pr), k \notin LostBy(reports),
         InOrder(k, reports), Ascending(HandOf(k)'), Ascending(pending'[k]),
         Nums(k, reports) \cup Held(k)' \cup Parked(k)'
           \subseteq Held(k) \cup Parked(k) \cup {made[k]},
         Below(Nums(k, reports), Held(k)' \cup Parked(k)'), Below(Held(k)', Parked(k)'),
         Held(k) \cup Parked(k) \subseteq Nums(k, reports) \cup Held(k)' \cup Parked(k)',
         Due(k) => Due(k)' \/ made[k] \in Nums(k, reports) \cup Held(k)' \cup Parked(k)'
  PROVE  Order(k)'
<1>1. RadioOK /\ fifo \in Seq(AnyReport)
  BY DEF RelayTyped, RadioOK
<1>2. /\ Nums(k, fifo') = Nums(k, fifo) \cup Nums(k, reports)
      /\ InOrder(k, fifo \o reports) => InOrder(k, fifo')
  BY <1>1, SentGeneral DEF RadioOK
<1>3. /\ Held(k) \subseteq 1..made[k] /\ Parked(k) \subseteq 1..made[k]
      /\ Nums(k, fifo) \subseteq 1..made[k] /\ made[k] \in Nat
  BY OrderTyped
<1>4. Nums(k, reports) \in SUBSET Nat
  BY <1>3
<1>5. Below(Nums(k, fifo), Nums(k, reports))
  BY <1>3 DEF Below, Order
<1>6. InOrder(k, fifo \o reports)
  <2>1. InOrder(k, fifo)
    BY DEF Order
  <2> QED
    BY <1>1, <1>5, <2>1, NumsConcat
<1> QED
  BY <1>2, <1>4, <1>6, OrderMoved

(* One kind's sends do not touch the other. *)
LEMMA NotSent ==
  ASSUME RelayTyped, NEW k \in Kinds, Order(k), NEW reports \in Seq(AnyReport), NEW pr,
         Sent(reports, pr), k \notin LostBy(reports), Nums(k, reports) = {}
  PROVE  Nums(k, fifo') = Nums(k, fifo) /\ InOrder(k, fifo')
<1>1. RadioOK /\ fifo \in Seq(AnyReport) /\ InOrder(k, fifo)
  BY DEF RelayTyped, RadioOK, Order
<1>2. /\ Nums(k, fifo') = Nums(k, fifo) \cup Nums(k, reports)
      /\ InOrder(k, fifo \o reports) => InOrder(k, fifo')
  BY <1>1, SentGeneral DEF RadioOK
<1>3. InOrder(k, reports) /\ Below(Nums(k, fifo), Nums(k, reports))
  BY NoneInFifo DEF Below
<1>4. InOrder(k, fifo \o reports)
  BY <1>1, <1>3, NumsConcat
<1> QED
  BY <1>2, <1>4

LEMMA AscendingAppend ==
  ASSUME NEW s \in Seq(Nat), NEW n \in Nat, Ascending(s), ToSet(s) \subseteq 0..n
  PROVE  /\ Append(s, n) \in Seq(Nat) /\ Ascending(Append(s, n))
         /\ ToSet(Append(s, n)) = ToSet(s) \cup {n}
<1>1. /\ Append(s, n) = s \o <<n>> /\ <<n>> \in Seq(Nat) /\ Append(s, n) \in Seq(Nat)
      /\ ToSet(Append(s, n)) = ToSet(s) \cup {n}
  BY ToSetAppend
<1>2. ToSet(<<n>>) = {n} /\ Ascending(<<n>>)
  BY DEF ToSet, Ascending
<1>3. Below(ToSet(s), {n})
  BY DEF Below
<1> QED
  BY <1>1, <1>2, <1>3, AscendingConcat

(* An event: the new report is due, or the link is down and all excused. *)
LEMMA OrderEvent ==
  ASSUME RelayTyped, RelayTyped', Ordered, NEW i \in Inputs, hid_relay_cb(i)
  PROVE  Ordered'
<1> SUFFICES ASSUME NEW k \in Kinds, k \notin excused'
             PROVE  Order(k)'
  BY DEF Ordered
<1>1. /\ at = "idle" /\ UNCHANGED <<hand, fifo, host>>
      /\ made' = [c \in Kinds |-> IF c \in ToSet(Concerned(i)) THEN made[c] + 1 ELSE made[c]]
  BY DEF hid_relay_cb, radio
<1>2. todo = <<>> /\ hand = <<>>
  BY <1>1 DEF RelayTyped, ThreadOK
<1>3. CASE ~active
  <2>1. Excuse(Kinds)
    BY <1>3 DEF hid_relay_cb
  <2> QED
    BY <2>1, Spared
<1>4. CASE active
  <2>1. Excuse({}) /\ pending' = pending /\ at' = "snap" /\ todo' = Concerned(i)
    BY <1>4 DEF hid_relay_cb
  <2>2. CASE k \in excused
    BY <2>1, <2>2, Spared
  <2>3. CASE k \notin excused
    <3>1. Order(k)
      BY <2>3 DEF Ordered
    <3>2. HandOf(k)' = <<>> /\ HandOf(k) = <<>> /\ ~Due(k)
      BY <1>1, <1>2, EmptyFacts DEF HandOf, Due
    <3>3. Held(k)' = {} /\ Held(k) = {} /\ Parked(k)' = Parked(k)
      BY <2>1, <3>2, EmptyFacts DEF Held, Parked
    <3>4. made[k] \in Nat /\ host[k] \in Nat
      BY OrderTyped
    <3>5. ASSUME NEW m \in host'[k] + 1..made'[k]
          PROVE  \/ m \in Nums(k, fifo') \cup Held(k)' \cup Parked(k)'
                 \/ m = made'[k] /\ Due(k)'
      <4>1. CASE k \in ToSet(Concerned(i)) /\ m = made[k] + 1
        <5>1. Due(k)' /\ made'[k] = made[k] + 1
          BY <1>1, <2>1, <4>1 DEF Due
        <5> QED
          BY <4>1, <5>1
      <4>2. CASE ~(k \in ToSet(Concerned(i)) /\ m = made[k] + 1)
        <5>1. m \in host[k] + 1..made[k]
          BY <1>1, <3>4, <4>2
        <5>2. m \in Nums(k, fifo) \cup Held(k) \cup Parked(k)
          BY <3>1, <3>2, <5>1 DEF Order
        <5> QED
          BY <1>1, <3>3, <5>2
      <4> QED
        BY <4>1, <4>2
    <3>6. /\ InOrder(k, fifo') /\ Ascending(HandOf(k)') /\ Ascending(pending'[k])
          /\ Nums(k, fifo') = Nums(k, fifo) /\ host'[k] = host[k]
      BY <1>1, <2>1, <3>1, <3>2, EmptyFacts DEF Order
    <3> QED
      BY <3>1, <3>3, <3>5, <3>6 DEF Order
  <2> QED
    BY <2>2, <2>3
<1> QED
  BY <1>3, <1>4

(* The current kind's report is put into the ring. *)
LEMMA OrderParked ==
  ASSUME RelayTyped, RelayTyped', NEW k \in Kinds, Order(k), made' = made, host' = host,
         fifo' = fifo, HandOf(k)' = HandOf(k),
         pending'[k] = Kept(k, Append(pending[k], made[k])),
         k \notin Overflown(k, Append(pending[k], made[k]))
  PROVE  Order(k)'
<1>1. /\ pending[k] \in Seq(Nat) /\ Parked(k) \subseteq 1..made[k] /\ made[k] \in Nat
      /\ Held(k) \subseteq 1..made[k]
      /\ Ascending(pending[k]) /\ Ascending(HandOf(k)) /\ InOrder(k, fifo)
      /\ Below(Held(k), Parked(k))
  BY OrderTyped DEF Order
<1>2. ToSet(pending[k]) \subseteq 0..made[k]
  BY <1>1 DEF Parked
<1>3. /\ Append(pending[k], made[k]) \in Seq(Nat) /\ Ascending(Append(pending[k], made[k]))
      /\ ToSet(Append(pending[k], made[k])) = Parked(k) \cup {made[k]}
  BY <1>1, <1>2, AscendingAppend DEF Parked
<1>4. pending'[k] = Append(pending[k], made[k])
  BY <1>3, KeptGeneral
<1>5. Held(k)' = Held(k) /\ Parked(k)' = Parked(k) \cup {made[k]}
  BY <1>3, <1>4 DEF Held, Parked
<1>6. Below(Held(k)', Parked(k)')
  BY <1>1, <1>5 DEF Below
<1> DEFINE R == {}
<1>7. /\ R \in SUBSET Nat /\ Nums(k, fifo') = Nums(k, fifo) \cup R /\ InOrder(k, fifo')
      /\ Ascending(HandOf(k)') /\ Ascending(pending'[k])
      /\ R \cup Held(k)' \cup Parked(k)' \subseteq Held(k) \cup Parked(k) \cup {made[k]}
      /\ Below(R, Held(k)' \cup Parked(k)')
      /\ Held(k) \cup Parked(k) \subseteq R \cup Held(k)' \cup Parked(k)'
      /\ Due(k) => Due(k)' \/ made[k] \in R \cup Held(k)' \cup Parked(k)'
  BY <1>1, <1>3, <1>4, <1>5 DEF Below
<1> HIDE DEF R
<1> QED
  BY <1>6, <1>7, OrderMoved

LEMMA OrderSnapshot ==
  ASSUME RelayTyped, RelayTyped', Ordered, Snapshots
  PROVE  Ordered'
<1> SUFFICES ASSUME NEW k \in Kinds, k \notin excused'
             PROVE  Order(k)'
  BY DEF Ordered
<1>1. /\ at = "snap" /\ at # "idle" /\ UNCHANGED <<made, host, fifo, todo, hand>>
      /\ snap' = made[kind]
      /\ Excuse(IF quiet THEN Overflown(kind, Append(pending[kind], snap')) ELSE {})
      /\ quiet => pending' = [pending EXCEPT ![kind] = Kept(kind, Append(pending[kind], snap'))]
      /\ ~quiet => pending' = pending /\ at' = "drain"
  BY DEF Snapshots, body, radio, env
<1>2. kind \in Kinds /\ hand = <<>> /\ pending \in [Kinds -> Seq(Nat)]
  BY <1>1, KindFacts DEF RelayTyped, ThreadOK, RingsOK
<1> DEFINE K == IF quiet THEN Overflown(kind, Append(pending[kind], made[kind])) ELSE {}
<1>3. Excuse(K)
  BY <1>1
<1>4. CASE ~(k \notin excused /\ k \notin K)
  BY <1>3, <1>4, Spared
<1>5. CASE k \notin excused /\ k \notin K
  <2>1. Order(k) /\ InOrder(k, fifo)
    BY <1>5 DEF Ordered, Order
  <2>2. HandOf(k)' = HandOf(k)
    BY <1>1 DEF HandOf, kind
  <2>3. CASE k # kind
    <3>1. pending'[k] = pending[k]
      BY <1>1, <1>2, <2>3
    <3> QED
      BY <1>1, <2>1, <2>3, <3>1, OtherKind
  <2>4. CASE k = kind /\ quiet
    <3>1. pending'[k] = Kept(k, Append(pending[k], made[k]))
      BY <1>1, <1>2, <2>4
    <3>2. k \notin Overflown(k, Append(pending[k], made[k]))
      BY <1>5, <2>4
    <3> QED
      BY <1>1, <2>1, <2>2, <3>1, <3>2, OrderParked
  <2>5. CASE k = kind /\ ~quiet
    <3>1. pending'[k] = pending[k] /\ (Due(k) => Due(k)')
      BY <1>1, <2>5 DEF Due
    <3> QED
      BY <1>1, <2>1, <2>2, <3>1, OrderAside
  <2> QED
    BY <2>3, <2>4, <2>5
<1> QED
  BY <1>4, <1>5

LEMMA OrderTakes ==
  ASSUME RelayTyped, RelayTyped', Ordered, DrainTakes
  PROVE  Ordered'
<1> SUFFICES ASSUME NEW k \in Kinds, k \notin excused'
             PROVE  Order(k)'
  BY DEF Ordered
<1>1. /\ at = "drain" /\ at # "idle" /\ at' = "send" /\ UNCHANGED <<made, host, fifo, todo, excused>>
      /\ hand' = pending[kind] /\ pending' = [pending EXCEPT ![kind] = <<>>]
  BY DEF DrainTakes, body, radio, env
<1>2. kind \in Kinds /\ todo # <<>> /\ hand = <<>> /\ pending \in [Kinds -> Seq(Nat)]
  BY <1>1, KindFacts DEF RelayTyped, ThreadOK, RingsOK
<1>3. Order(k) /\ InOrder(k, fifo)
  BY <1>1 DEF Ordered, Order
<1>4. CASE k # kind
  <2>1. pending'[k] = pending[k]
    BY <1>1, <1>2, <1>4
  <2> QED
    BY <1>1, <1>3, <1>4, <2>1, OtherKind
<1>5. CASE k = kind
  <2>1. HandOf(k)' = pending[k] /\ pending'[k] = <<>> /\ Held(k) = {}
    BY <1>1, <1>2, <1>5, OrderTyped DEF HandOf, kind
  <2>2. Held(k)' = Parked(k) /\ Parked(k)' = {}
    BY <2>1, EmptyFacts DEF Held, Parked
  <2> DEFINE R == {}
  <2>3. /\ R \in SUBSET Nat /\ Nums(k, fifo') = Nums(k, fifo) \cup R /\ InOrder(k, fifo')
        /\ Ascending(HandOf(k)') /\ Ascending(pending'[k])
        /\ R \cup Held(k)' \cup Parked(k)' \subseteq Held(k) \cup Parked(k) \cup {made[k]}
        /\ Below(R, Held(k)' \cup Parked(k)') /\ Below(Held(k)', Parked(k)')
        /\ Held(k) \cup Parked(k) \subseteq R \cup Held(k)' \cup Parked(k)'
    BY <1>1, <1>3, <2>1, <2>2, EmptyFacts DEF Below, Order
  <2>4. Due(k) => Due(k)' \/ made[k] \in R \cup Held(k)' \cup Parked(k)'
    BY <1>1 DEF Due
  <2> HIDE DEF R
  <2> QED
    BY <1>1, <1>3, <2>3, <2>4, OrderMoved
<1> QED
  BY <1>4, <1>5

LEMMA OrderDrains ==
  ASSUME RelayTyped, RelayTyped', Ordered, DrainSends
  PROVE  Ordered'
<1> SUFFICES ASSUME NEW k \in Kinds, k \notin excused'
             PROVE  Order(k)'
  BY DEF Ordered
<1> DEFINE reports == <<Report(kind, Head(hand))>>
<1>1. /\ at = "send" /\ at # "idle" /\ hand # <<>> /\ hand' = Tail(hand)
      /\ UNCHANGED <<made, host, at, todo, pending>>
      /\ Sent(reports, resync) /\ Excuse(LostBy(reports))
  BY DEF DrainSends, body, env
<1>2. /\ kind \in Kinds /\ todo # <<>> /\ Head(hand) \in 1..made[kind]
      /\ Tail(hand) \in Seq(Nat) /\ ToSet(hand) = {Head(hand)} \cup ToSet(Tail(hand))
      /\ hand \in Seq(Nat) /\ made[kind] \in Nat
  BY <1>1, KindFacts, HandHead DEF RelayTyped, ThreadOK
<1>3. /\ reports \in Seq(AnyReport)
      /\ Nums(k, reports) = (IF k = kind THEN {Head(hand)} ELSE {}) /\ InOrder(k, reports)
  <2>1. Head(hand) \in Nat
    BY <1>2
  <2> QED
    BY <1>2, <2>1, OneReport
<1> HIDE DEF reports
<1>4. CASE ~(k \notin excused /\ k \notin LostBy(reports))
  BY <1>1, <1>4, Spared
<1>5. CASE k \notin excused /\ k \notin LostBy(reports)
  <2>1. Order(k)
    BY <1>5 DEF Ordered
  <2>2. CASE k # kind
    <3>1. Nums(k, fifo') = Nums(k, fifo) /\ InOrder(k, fifo')
      BY <1>1, <1>3, <1>5, <2>1, <2>2, NotSent
    <3> QED
      BY <1>1, <2>1, <2>2, <3>1, OtherKind
  <2>3. CASE k = kind
    <3>1. HandOf(k) = hand /\ HandOf(k)' = Tail(hand)
      BY <1>1, <1>2, <2>3 DEF HandOf, kind
    <3>2. Held(k) = {Head(hand)} \cup Held(k)' /\ Parked(k)' = Parked(k)
      BY <1>1, <1>2, <3>1 DEF Held, Parked
    <3>3. Ascending(hand) /\ Ascending(pending[k]) /\ Below(Held(k), Parked(k))
      BY <2>1, <3>1 DEF Order
    <3>4. Ascending(Tail(hand)) /\ Below({Head(hand)}, Held(k)')
      BY <1>1, <1>2, <3>1, <3>3, AscendingTail DEF Held
    <3>5. /\ Nums(k, reports) = {Head(hand)}
          /\ Below({Head(hand)}, Held(k)' \cup Parked(k)') /\ Below(Held(k)', Parked(k)')
      BY <1>3, <2>3, <3>2, <3>3, <3>4 DEF Below
    <3>6. Due(k) => Due(k)'
      BY <1>1 DEF Due, kind
    <3>7. /\ Ascending(HandOf(k)') /\ Ascending(pending'[k])
          /\ Nums(k, reports) \cup Held(k)' \cup Parked(k)'
               \subseteq Held(k) \cup Parked(k) \cup {made[k]}
          /\ Held(k) \cup Parked(k) \subseteq Nums(k, reports) \cup Held(k)' \cup Parked(k)'
      BY <1>1, <3>1, <3>2, <3>3, <3>4, <3>5
    <3> QED
      BY <1>1, <1>3, <1>5, <2>1, <3>5, <3>6, <3>7, OrderSent
  <2> QED
    BY <2>2, <2>3
<1> QED
  BY <1>4, <1>5

LEMMA OrderReparks ==
  ASSUME RelayTyped, RelayTyped', Ordered, DrainReparks
  PROVE  Ordered'
<1> SUFFICES ASSUME NEW k \in Kinds, k \notin excused'
             PROVE  Order(k)'
  BY DEF Ordered
<1>1. /\ at = "send" /\ at # "idle" /\ at' = "park" /\ hand' = <<>>
      /\ UNCHANGED <<made, host, todo, fifo>>
      /\ pending' = [pending EXCEPT ![kind] = Kept(kind, hand \o pending[kind])]
      /\ Excuse(Overflown(kind, hand \o pending[kind]))
  BY DEF DrainReparks, body, env, radio
<1>2. /\ kind \in Kinds /\ todo # <<>> /\ hand \in Seq(Nat) /\ pending \in [Kinds -> Seq(Nat)]
  BY <1>1, KindFacts DEF RelayTyped, ThreadOK, RingsOK
<1>3. CASE ~(k \notin excused /\ k \notin Overflown(kind, hand \o pending[kind]))
  BY <1>1, <1>3, Spared
<1>4. CASE k \notin excused /\ k \notin Overflown(kind, hand \o pending[kind])
  <2>1. Order(k) /\ InOrder(k, fifo)
    BY <1>4 DEF Ordered, Order
  <2>2. CASE k # kind
    <3>1. pending'[k] = pending[k]
      BY <1>1, <1>2, <2>2
    <3> QED
      BY <1>1, <2>1, <2>2, <3>1, OtherKind
  <2>3. CASE k = kind
    <3>1. HandOf(k) = hand /\ HandOf(k)' = <<>>
      BY <1>1, <1>2, <2>3 DEF HandOf
    <3>2. /\ hand \o pending[k] \in Seq(Nat)
          /\ ToSet(hand \o pending[k]) = Held(k) \cup Parked(k)
      BY <1>2, <3>1, ToSetConcat DEF Held, Parked
    <3>3. pending'[k] = hand \o pending[k]
      BY <1>1, <1>2, <1>4, <2>3, <3>2, KeptGeneral
    <3>4. Ascending(hand \o pending[k])
      <4>1. Ascending(hand) /\ Ascending(pending[k]) /\ Below(ToSet(hand), ToSet(pending[k]))
        BY <2>1, <3>1 DEF Order, Held, Parked
      <4> QED
        BY <1>2, <4>1, AscendingConcat
    <3>5. Held(k)' = {} /\ Parked(k)' = Held(k) \cup Parked(k)
      BY <3>1, <3>2, <3>3, EmptyFacts DEF Held, Parked
    <3> DEFINE R == {}
    <3>6. /\ R \in SUBSET Nat /\ Nums(k, fifo') = Nums(k, fifo) \cup R /\ InOrder(k, fifo')
          /\ Ascending(HandOf(k)') /\ Ascending(pending'[k])
          /\ R \cup Held(k)' \cup Parked(k)' \subseteq Held(k) \cup Parked(k) \cup {made[k]}
          /\ Below(R, Held(k)' \cup Parked(k)') /\ Below(Held(k)', Parked(k)')
          /\ Held(k) \cup Parked(k) \subseteq R \cup Held(k)' \cup Parked(k)'
      BY <1>1, <2>1, <3>1, <3>3, <3>4, <3>5, EmptyFacts DEF Below
    <3>7. Due(k) => Due(k)' \/ made[k] \in R \cup Held(k)' \cup Parked(k)'
      BY <1>1 DEF Due
    <3> HIDE DEF R
    <3> QED
      BY <1>1, <2>1, <3>6, <3>7, OrderMoved
  <2> QED
    BY <2>2, <2>3
<1> QED
  BY <1>3, <1>4

LEMMA OrderSnapshotSent ==
  ASSUME RelayTyped, RelayTyped', Ordered, SnapshotSent
  PROVE  Ordered'
<1> SUFFICES ASSUME NEW k \in Kinds, k \notin excused'
             PROVE  Order(k)'
  BY DEF Ordered
<1>1. /\ at = "send" /\ at # "idle" /\ hand = <<>> /\ hand' = <<>>
      /\ UNCHANGED <<made, host, pending>>
  BY DEF SnapshotSent, body, env
<1>2. /\ kind \in Kinds /\ todo # <<>> /\ todo \in AnyTodo
      /\ made[kind] \in Nat /\ made[kind] >= 1 /\ snap = made[kind]
      /\ ToSet(pending[kind]) \subseteq {made[kind]}
  BY <1>1, KindFacts DEF RelayTyped, ThreadOK, RingsOK
<1>3. HandOf(k) = <<>> /\ HandOf(k)' = <<>> /\ Held(k) = {} /\ Held(k)' = {}
      /\ Parked(k)' = Parked(k)
  BY <1>1, EmptyFacts DEF HandOf, Held, Parked
<1>4. CASE quiet
  <2>1. Excuse({}) /\ at' = "park" /\ UNCHANGED <<todo, fifo>>
    BY <1>4 DEF SnapshotSent, radio
  <2>2. CASE k \in excused
    BY <2>1, <2>2, Spared
  <2>3. CASE k \notin excused
    <3>1. Order(k) /\ InOrder(k, fifo')
      BY <2>1, <2>3 DEF Ordered, Order
    <3>2. Due(k) => Due(k)'
      BY <2>1 DEF Due
    <3> QED
      BY <1>1, <1>3, <2>1, <3>1, <3>2, OrderAside
  <2> QED
    BY <2>2, <2>3
<1>5. CASE ~quiet
  <2> DEFINE reports == <<Report(kind, snap)>>
  <2>1. /\ Excuse(LostBy(reports)) /\ Sent(reports, resync)
        /\ todo' = Tail(todo) /\ (at' = "idle" \/ at' = "snap")
    BY <1>5 DEF SnapshotSent, NextKind
  <2>2. /\ reports \in Seq(AnyReport)
        /\ Nums(k, reports) = (IF k = kind THEN {made[kind]} ELSE {}) /\ InOrder(k, reports)
    BY <1>2, OneReport
  <2> HIDE DEF reports
  <2>3. CASE ~(k \notin excused /\ k \notin LostBy(reports))
    BY <2>1, <2>3, Spared
  <2>4. CASE k \notin excused /\ k \notin LostBy(reports)
    <3>1. Order(k)
      BY <2>4 DEF Ordered
    <3>2. CASE k # kind
      <4>1. Nums(k, fifo') = Nums(k, fifo) /\ InOrder(k, fifo')
        BY <2>1, <2>2, <2>4, <3>1, <3>2, NotSent
      <4>2. todo' = Tail(todo) /\ hand' = <<>> /\ at' # "sched" /\ pending'[k] = pending[k]
        BY <1>1, <2>1
      <4> QED
        BY <1>1, <3>1, <3>2, <4>1, <4>2, OtherKind
    <3>3. CASE k = kind
      <4>1. Nums(k, reports) = {made[k]} /\ Parked(k)' \subseteq {made[k]} /\ made[k] \in Nat
        BY <1>2, <1>3, <2>2, <3>3 DEF Parked
      <4>2. Below(Nums(k, reports), Held(k)' \cup Parked(k)') /\ Below(Held(k)', Parked(k)')
        BY <1>3, <4>1 DEF Below
      <4>3. /\ Ascending(HandOf(k)') /\ Ascending(pending'[k])
            /\ Nums(k, reports) \cup Held(k)' \cup Parked(k)'
                 \subseteq Held(k) \cup Parked(k) \cup {made[k]}
            /\ Held(k) \cup Parked(k) \subseteq Nums(k, reports) \cup Held(k)' \cup Parked(k)'
            /\ made[k] \in Nums(k, reports) \cup Held(k)' \cup Parked(k)'
        BY <1>1, <1>3, <3>1, <4>1, EmptyFacts DEF Order
      <4> QED
        BY <1>1, <2>1, <2>2, <2>4, <3>1, <4>2, <4>3, OrderSent
    <3> QED
      BY <3>2, <3>3
  <2> QED
    BY <2>3, <2>4
<1> QED
  BY <1>4, <1>5

LEMMA OrderSnapshotParked ==
  ASSUME RelayTyped, RelayTyped', Ordered, SnapshotParked
  PROVE  Ordered'
<1> SUFFICES ASSUME NEW k \in Kinds, k \notin excused'
             PROVE  Order(k)'
  BY DEF Ordered
<1>1. /\ at = "park" /\ at # "idle" /\ at' = "sched" /\ UNCHANGED <<made, host, fifo, todo, hand>>
      /\ Excuse(Overflown(kind, Append(pending[kind], snap)))
      /\ pending' = [pending EXCEPT ![kind] = Kept(kind, Append(pending[kind], snap))]
  BY DEF SnapshotParked, body, radio, env
<1>2. kind \in Kinds /\ pending \in [Kinds -> Seq(Nat)] /\ snap = made[kind]
  BY <1>1, KindFacts DEF RelayTyped, ThreadOK, RingsOK
<1> DEFINE K == Overflown(kind, Append(pending[kind], made[kind]))
<1>3. Excuse(K)
  BY <1>1, <1>2
<1>4. CASE ~(k \notin excused /\ k \notin K)
  BY <1>3, <1>4, Spared
<1>5. CASE k \notin excused /\ k \notin K
  <2>1. Order(k) /\ InOrder(k, fifo)
    BY <1>5 DEF Ordered, Order
  <2>2. HandOf(k)' = HandOf(k)
    BY <1>1 DEF HandOf, kind
  <2>3. CASE k # kind
    <3>1. pending'[k] = pending[k]
      BY <1>1, <1>2, <2>3
    <3> QED
      BY <1>1, <2>1, <2>3, <3>1, OtherKind
  <2>4. CASE k = kind
    <3>1. pending'[k] = Kept(k, Append(pending[k], made[k]))
      BY <1>1, <1>2, <2>4
    <3>2. k \notin Overflown(k, Append(pending[k], made[k]))
      BY <1>5, <2>4
    <3> QED
      BY <1>1, <2>1, <2>2, <3>1, <3>2, OrderParked
  <2> QED
    BY <2>3, <2>4
<1> QED
  BY <1>4, <1>5

LEMMA OrderScheduled ==
  ASSUME RelayTyped, RelayTyped', Ordered, RetryScheduled
  PROVE  Ordered'
<1> SUFFICES ASSUME NEW k \in Kinds, k \notin excused'
             PROVE  Order(k)'
  BY DEF Ordered
<1>1. /\ at = "sched" /\ at # "idle" /\ UNCHANGED <<made, host, fifo, hand, pending>>
      /\ todo' = Tail(todo) /\ at' # "sched" /\ Excuse({})
  BY DEF RetryScheduled, NextKind, body, radio, env
<1>2. hand = <<>> /\ hand' = <<>>
  BY <1>1 DEF RelayTyped, ThreadOK
<1>3. CASE k \in excused
  BY <1>1, <1>3, Spared
<1>4. CASE k \notin excused
  <2>1. Order(k) /\ InOrder(k, fifo)
    BY <1>4 DEF Ordered, Order
  <2>2. CASE k # kind
    BY <1>1, <1>2, <2>1, <2>2, OtherKind
  <2>3. CASE k = kind
    <3>1. ~Due(k) /\ HandOf(k)' = HandOf(k)
      BY <1>1, <1>2, <2>3 DEF Due, HandOf
    <3> QED
      BY <1>1, <2>1, <3>1, OrderAside
  <2> QED
    BY <2>2, <2>3
<1> QED
  BY <1>3, <1>4

LEMMA OrderEventThread ==
  ASSUME RelayTyped, RelayTyped', Ordered, EventThread
  PROVE  Ordered'
  BY OrderSnapshot, OrderTakes, OrderDrains, OrderReparks, OrderSnapshotSent,
     OrderSnapshotParked, OrderScheduled DEF EventThread

(* The work queue sends kind k while the event thread has nothing of it in   *)
(* hand.                                                                     *)
LEMMA OrderWorkQueue ==
  ASSUME RelayTyped, RelayTyped', NEW k \in Kinds, Order(k), UNCHANGED <<made, host, thread>>,
         NEW reports \in Seq(AnyReport), NEW pr, Sent(reports, pr),
         k \notin LostBy(reports), k \notin Overtaken(reports), InOrder(k, reports),
         Parked(k)' \subseteq Parked(k), Ascending(pending'[k]),
         Below(Nums(k, reports), Parked(k)'),
         Nums(k, reports) \subseteq Parked(k) \cup {made[k]},
         Parked(k) \subseteq Nums(k, reports) \cup Parked(k)'
  PROVE  Order(k)'
<1>1. UNCHANGED <<made, host, at, todo, hand>>
  BY DEF thread
<1>2. HandOf(k)' = HandOf(k) /\ Held(k)' = Held(k) /\ (Due(k) => Due(k)')
  BY <1>1 DEF HandOf, Held, Due, kind
<1>3. Held(k) = {} \/ Nums(k, reports) = {}
  <2>1. CASE hand # <<>> /\ kind = k
    <3>1. k \notin KindsOf(reports)
      BY <2>1 DEF Overtaken
    <3> QED
      BY <3>1, KindsAndNums
  <2>2. CASE ~(hand # <<>> /\ kind = k)
    BY <2>2, EmptyFacts DEF Held, HandOf
  <2> QED
    BY <2>1, <2>2
<1>4. Ascending(HandOf(k)) /\ Below(Held(k), Parked(k))
  BY DEF Order
<1>5. /\ Below(Nums(k, reports), Held(k)' \cup Parked(k)') /\ Below(Held(k)', Parked(k)')
  BY <1>2, <1>3, <1>4 DEF Below
<1>6. /\ Ascending(HandOf(k)')
      /\ Nums(k, reports) \cup Held(k)' \cup Parked(k)'
           \subseteq Held(k) \cup Parked(k) \cup {made[k]}
      /\ Held(k) \cup Parked(k) \subseteq Nums(k, reports) \cup Held(k)' \cup Parked(k)'
  BY <1>2, <1>4
<1> QED
  BY <1>1, <1>2, <1>5, <1>6, OrderSent

LEMMA OrderRetry ==
  ASSUME RelayTyped, RelayTyped', Ordered, hid_retry_work_fn
  PROVE  Ordered'
<1> SUFFICES ASSUME NEW k \in Kinds, k \notin excused'
             PROVE  Order(k)'
  BY DEF Ordered
<1> DEFINE reports == Both(pending)
<1>1. /\ UNCHANGED <<made, host, thread>> /\ pending' = [c \in Kinds |-> <<>>]
      /\ Sent(reports, resync) /\ Excuse(LostBy(reports) \cup Overtaken(reports))
  BY RetryStep DEF body, env
<1>2. pending \in [Kinds -> Seq(Nat)]
  BY DEF RelayTyped, RingsOK
<1>3. /\ reports \in Seq(AnyReport) /\ Nums(k, reports) = Parked(k)
      /\ Ascending(pending[k]) => InOrder(k, reports)
  BY <1>2, BothFacts DEF Parked
<1> HIDE DEF reports
<1>4. CASE ~(k \notin excused /\ k \notin LostBy(reports) \cup Overtaken(reports))
  BY <1>1, <1>4, Spared
<1>5. CASE k \notin excused /\ k \notin LostBy(reports) \cup Overtaken(reports)
  <2>1. Order(k) /\ Ascending(pending[k])
    BY <1>5 DEF Ordered, Order
  <2>2. pending'[k] = <<>> /\ Parked(k)' = {} /\ Ascending(pending'[k])
    BY <1>1, EmptyFacts DEF Parked
  <2>3. /\ Below(Nums(k, reports), Parked(k)') /\ Parked(k)' \subseteq Parked(k)
        /\ Nums(k, reports) \subseteq Parked(k) \cup {made[k]}
        /\ Parked(k) \subseteq Nums(k, reports) \cup Parked(k)'
    BY <1>3, <2>2 DEF Below
  <2> QED
    BY <1>1, <1>3, <1>5, <2>1, <2>2, <2>3, OrderWorkQueue
<1> QED
  BY <1>4, <1>5

LEMMA OrderResync ==
  ASSUME RelayTyped, RelayTyped', Ordered, hid_resync_cb
  PROVE  Ordered'
<1> SUFFICES ASSUME NEW k \in Kinds, k \notin excused'
             PROVE  Order(k)'
  BY DEF Ordered
<1>1. UNCHANGED <<made, host, thread>> /\ UNCHANGED <<at, todo, hand>>
  BY ResyncStep DEF body, env, thread
<1>2. /\ Asked \subseteq Kinds /\ Wanted \in [Kinds -> Seq(Nat)]
      /\ k \in Asked => ToSet(Wanted[k]) = Parked(k) \cup {made[k]}
                        /\ Wanted[k] = Append(pending[k], made[k])
      /\ k \notin Asked => Wanted[k] = <<>> /\ ToSet(Wanted[k]) = {}
  BY WantedFacts DEF Parked, Wanted
<1>3. HandOf(k)' = HandOf(k) /\ (Due(k) => Due(k)')
  BY <1>1 DEF HandOf, Due, kind
<1>4. CASE quiet
  <2>1. /\ fifo' = fifo /\ Excuse(UNION {Overflown(c, Wanted[c]) : c \in Asked})
        /\ pending' = [c \in Kinds |-> IF c \in Asked THEN Kept(c, Wanted[c]) ELSE pending[c]]
    BY <1>4, ResyncStep
  <2> DEFINE K == UNION {Overflown(c, Wanted[c]) : c \in Asked}
  <2>2. CASE ~(k \notin excused /\ k \notin K)
    BY <2>1, <2>2, Spared
  <2>3. CASE k \notin excused /\ k \notin K
    <3>1. Order(k) /\ InOrder(k, fifo)
      BY <2>3 DEF Ordered, Order
    <3>2. CASE k \in Asked
      <4>1. pending'[k] = Kept(k, Append(pending[k], made[k]))
        BY <1>2, <2>1, <3>2
      <4>2. k \notin Overflown(k, Append(pending[k], made[k]))
        BY <1>2, <2>3, <3>2
      <4> QED
        BY <1>1, <1>3, <2>1, <3>1, <4>1, <4>2, OrderParked
    <3>3. CASE k \notin Asked
      <4>1. pending'[k] = pending[k]
        BY <2>1, <3>3
      <4> QED
        BY <1>1, <1>3, <2>1, <3>1, <4>1, OrderAside
    <3> QED
      BY <3>2, <3>3
  <2> QED
    BY <2>2, <2>3
<1>5. CASE ~quiet
  <2> DEFINE reports == Both(Wanted)
  <2>1. /\ Sent(reports, {}) /\ Excuse(LostBy(reports) \cup Overtaken(reports))
        /\ pending' = [c \in Kinds |-> IF c \in Asked THEN <<>> ELSE pending[c]]
    BY <1>5, ResyncStep
  <2>2. /\ reports \in Seq(AnyReport) /\ Nums(k, reports) = ToSet(Wanted[k])
        /\ Ascending(Wanted[k]) => InOrder(k, reports)
    BY <1>2, BothFacts
  <2> HIDE DEF reports
  <2>3. CASE ~(k \notin excused /\ k \notin LostBy(reports) \cup Overtaken(reports))
    BY <2>1, <2>3, Spared
  <2>4. CASE k \notin excused /\ k \notin LostBy(reports) \cup Overtaken(reports)
    <3>1. Order(k) /\ Ascending(pending[k])
      BY <2>4 DEF Ordered, Order
    <3>2. CASE k \in Asked
      <4>1. pending'[k] = <<>> /\ Parked(k)' = {} /\ Ascending(pending'[k])
        BY <2>1, <3>2, EmptyFacts DEF Parked
      <4>2. Ascending(Wanted[k])
        <5>1. pending[k] \in Seq(Nat) /\ made[k] \in Nat /\ Parked(k) \subseteq 1..made[k]
          BY OrderTyped
        <5>2. ToSet(pending[k]) \subseteq 0..made[k]
          BY <5>1 DEF Parked
        <5> QED
          BY <1>2, <3>1, <3>2, <5>1, <5>2, AscendingAppend
      <4>3. /\ InOrder(k, reports)
            /\ Below(Nums(k, reports), Parked(k)') /\ Parked(k)' \subseteq Parked(k)
            /\ Nums(k, reports) \subseteq Parked(k) \cup {made[k]}
            /\ Parked(k) \subseteq Nums(k, reports) \cup Parked(k)'
        BY <1>2, <2>2, <3>2, <4>1, <4>2 DEF Below
      <4> QED
        BY <1>1, <2>1, <2>2, <2>4, <3>1, <4>1, <4>3, OrderWorkQueue
    <3>3. CASE k \notin Asked
      <4>1. pending'[k] = pending[k] /\ Parked(k)' = Parked(k)
        BY <2>1, <3>3 DEF Parked
      <4>2. Nums(k, reports) = {} /\ InOrder(k, reports) /\ Below(Nums(k, reports), Parked(k)')
        BY <1>2, <2>2, <3>3, NoneInFifo DEF Below
      <4>3. Ascending(pending'[k])
        BY <3>1, <4>1
      <4> QED
        BY <1>1, <2>1, <2>2, <2>4, <3>1, <4>1, <4>2, <4>3, OrderWorkQueue
    <3> QED
      BY <3>2, <3>3
  <2> QED
    BY <2>3, <2>4
<1> QED
  BY <1>4, <1>5

(* The radio takes the oldest report of a kind that is not excused, and the  *)
(* host has seen all before it.                                              *)
LEMMA OrderHead ==
  ASSUME RelayTyped, fifo # <<>>, Order(Head(fifo).kind)
  PROVE  LET k == Head(fifo).kind
             n == Head(fifo).n
         IN /\ n \in host[k]..host[k] + 1
            /\ Below({n}, Nums(k, fifo) \cup Held(k) \cup Parked(k))
<1> DEFINE k == Head(fifo).kind
           n == Head(fifo).n
<1>1. k \in Kinds /\ n \in Nums(k, fifo) /\ n \in 1..made[k]
  BY HeadFacts
<1>2. /\ made[k] \in Nat /\ host[k] \in Nat /\ fifo \in Seq(AnyReport)
      /\ Nums(k, fifo) \subseteq 1..made[k] /\ Held(k) \subseteq 1..made[k]
      /\ Parked(k) \subseteq 1..made[k]
  BY <1>1, OrderTyped
<1>3. Head(fifo) = fifo[1] /\ 1 \in 1..Len(fifo) /\ Len(fifo) \in Nat
  BY <1>2, HeadTailProperties, LenProperties, EmptySeq
<1> HIDE DEF k, n
<1>4. Below({n}, Nums(k, fifo))
  <2> SUFFICES ASSUME NEW j \in 1..Len(fifo), fifo[j].kind = k
               PROVE  n <= fifo[j].n
    BY DEF Below, Nums
  <2>1. CASE j = 1
    <3>1. fifo[j].n = n /\ n \in Nat
      BY <1>1, <1>2, <1>3, <2>1 DEF n
    <3> QED
      BY <3>1
  <2>2. CASE j # 1
    <3>1. 1 < j /\ fifo[1].kind = k /\ fifo[1].n = n
      BY <1>3, <2>2 DEF k, n
    <3> QED
      BY <1>3, <3>1 DEF Order, InOrder, k
  <2> QED
    BY <2>1, <2>2
<1>5. Below({n}, Held(k) \cup Parked(k))
  BY <1>1 DEF Below, Order, k
<1>6. host[k] <= n
  BY <1>1 DEF Below, Order, k
<1>7. n <= host[k] + 1
  <2> SUFFICES ASSUME ~(n <= host[k] + 1)
               PROVE  FALSE
    OBVIOUS
  <2>1. host[k] + 1 \in host[k] + 1..made[k] /\ host[k] + 1 # made[k]
    BY <1>1, <1>2
  <2>2. host[k] + 1 \in Nums(k, fifo) \cup Held(k) \cup Parked(k)
    BY <2>1 DEF Order, k
  <2>3. n <= host[k] + 1
    BY <1>4, <1>5, <2>2 DEF Below
  <2> QED
    BY <2>3
<1>8. n \in host[k]..host[k] + 1
  BY <1>1, <1>2, <1>6, <1>7
<1> QED
  BY <1>4, <1>5, <1>8 DEF Below, k, n

LEMMA OrderAcked ==
  ASSUME RelayTyped, RelayTyped', Ordered, TxAcked
  PROVE  Ordered'
<1> SUFFICES ASSUME NEW k \in Kinds, k \notin excused'
             PROVE  Order(k)'
  BY DEF Ordered
<1>1. /\ UNCHANGED <<made, thread, pending>> /\ UNCHANGED <<at, todo, hand>>
      /\ Excuse({}) /\ fifo # <<>> /\ fifo' = Tail(fifo)
      /\ host' = [host EXCEPT ![Head(fifo).kind] = Head(fifo).n]
  BY DEF TxAcked, body, thread, RelayTyped, RadioOK
<1>2. CASE k \in excused
  BY <1>1, <1>2, Spared
<1>3. CASE k \notin excused
  <2>1. Order(k) /\ host \in [Kinds -> Nat] /\ Head(fifo).kind \in Kinds
    BY <1>1, <1>3, HeadFacts DEF Ordered, RelayTyped, CountsOK
  <2>2. /\ fifo \in Seq(AnyReport) /\ Len(fifo') = Len(fifo) - 1 /\ Len(fifo) \in Nat
        /\ Head(fifo) = fifo[1]
        /\ \A i \in 1..Len(fifo') : fifo'[i] = fifo[i + 1] /\ i + 1 \in 1..Len(fifo)
    BY <1>1, HeadTailProperties, LenProperties DEF RelayTyped, RadioOK
  <2>3. InOrder(k, fifo')
    <3> SUFFICES ASSUME NEW i \in 1..Len(fifo'), NEW j \in 1..Len(fifo'), i < j,
                        fifo'[i].kind = k, fifo'[j].kind = k
                 PROVE  fifo'[i].n <= fifo'[j].n
      BY DEF InOrder
    <3>1. /\ fifo'[i] = fifo[i + 1] /\ i + 1 \in 1..Len(fifo)
          /\ fifo'[j] = fifo[j + 1] /\ j + 1 \in 1..Len(fifo) /\ i + 1 < j + 1
      BY <2>2
    <3>2. InOrder(k, fifo)
      BY <2>1 DEF Order
    <3> QED
      BY <3>1, <3>2 DEF InOrder
  <2>4. Nums(k, fifo') \subseteq Nums(k, fifo)
    BY <2>2 DEF Nums
  <2>5. ASSUME NEW m \in Nums(k, fifo), ~(Head(fifo).kind = k /\ m = Head(fifo).n)
        PROVE  m \in Nums(k, fifo')
    <3>1. PICK j \in 1..Len(fifo) : fifo[j].kind = k /\ fifo[j].n = m
      BY DEF Nums
    <3>2. j # 1
      BY <2>2, <2>5, <3>1
    <3>3. j - 1 \in 1..Len(fifo') /\ fifo'[j - 1] = fifo[j]
      <4>1. j - 1 \in 1..Len(fifo') /\ (j - 1) + 1 = j
        BY <2>2, <3>2
      <4> QED
        BY <2>2, <4>1
    <3> QED
      BY <3>1, <3>3 DEF Nums
  <2>6. HandOf(k)' = HandOf(k) /\ Held(k)' = Held(k) /\ Parked(k)' = Parked(k) /\ Due(k)' = Due(k)
    BY <1>1 DEF HandOf, Held, Parked, Due, kind
  <2>7. /\ Ascending(HandOf(k)') /\ Ascending(pending'[k])
        /\ Below(Nums(k, fifo'), Held(k)' \cup Parked(k)') /\ Below(Held(k)', Parked(k)')
    BY <1>1, <2>1, <2>4, <2>6 DEF Order, Below
  <2>8. CASE Head(fifo).kind # k
    <3>1. host'[k] = host[k] /\ Nums(k, fifo') = Nums(k, fifo)
      BY <1>1, <2>1, <2>4, <2>5, <2>8
    <3> QED
      BY <1>1, <2>1, <2>3, <2>6, <2>7, <3>1 DEF Order
  <2>9. CASE Head(fifo).kind = k
    <3> DEFINE n == Head(fifo).n
    <3>1. host'[k] = n
      BY <1>1, <2>1, <2>9
    <3>2. /\ n \in host[k]..host[k] + 1 /\ host[k] \in Nat /\ made[k] \in Nat
          /\ Below({n}, Nums(k, fifo) \cup Held(k) \cup Parked(k))
      BY <1>1, <2>1, <2>9, OrderHead, OrderTyped
    <3>3. Below({host'[k]}, Nums(k, fifo') \cup Held(k)' \cup Parked(k)')
      BY <2>4, <2>6, <3>1, <3>2 DEF Below
    <3>4. ASSUME NEW m \in host'[k] + 1..made'[k]
          PROVE  \/ m \in Nums(k, fifo') \cup Held(k)' \cup Parked(k)'
                 \/ m = made'[k] /\ Due(k)'
      <4>1. m \in host[k] + 1..made[k] /\ m # n
        BY <1>1, <3>1, <3>2
      <4>2. \/ m \in Nums(k, fifo) \cup Held(k) \cup Parked(k)
            \/ m = made[k] /\ Due(k)
        BY <2>1, <4>1 DEF Order
      <4> QED
        BY <1>1, <2>5, <2>6, <4>1, <4>2
    <3> QED
      BY <2>3, <2>7, <3>3, <3>4 DEF Order
  <2> QED
    BY <2>8, <2>9
<1> QED
  BY <1>2, <1>3

(* A failure, a flush. *)
LEMMA OrderFlushed ==
  ASSUME RelayTyped, RelayTyped', Ordered, TxFailed \/ OtherFlush
  PROVE  Ordered'
<1> SUFFICES ASSUME NEW k \in Kinds, k \notin excused'
             PROVE  Order(k)'
  BY DEF Ordered
<1>1. UNCHANGED <<made, host, pending>> /\ UNCHANGED <<at, todo, hand>>
  BY DEF TxFailed, OtherFlush, body, thread
<1>2. PICK K : Excuse(K) /\ (fifo' = fifo \/ (fifo' = <<>> /\ K = KindsOf(fifo)))
  BY DEF TxFailed, OtherFlush
<1>3. CASE ~(k \notin excused /\ k \notin K)
  BY <1>2, <1>3, Spared
<1>4. CASE k \notin excused /\ k \notin K
  <2>1. Order(k) /\ InOrder(k, fifo) /\ fifo \in Seq(AnyReport)
    BY <1>4 DEF Ordered, Order, RelayTyped, RadioOK
  <2>2. Nums(k, fifo') = Nums(k, fifo) /\ InOrder(k, fifo')
    <3>1. CASE fifo' = fifo
      BY <2>1, <3>1
    <3>2. CASE fifo' = <<>> /\ K = KindsOf(fifo)
      BY <1>4, <2>1, <3>2, KindsAndNums, EmptyFacts
    <3> QED
      BY <1>2, <3>1, <3>2
  <2>3. HandOf(k)' = HandOf(k) /\ (Due(k) => Due(k)')
    BY <1>1 DEF HandOf, Due, kind
  <2> QED
    BY <1>1, <2>1, <2>2, <2>3, OrderAside
<1> QED
  BY <1>3, <1>4

LEMMA OrderStep ==
  ASSUME RelayTyped, RelayTyped', Ordered, [Next]_vars
  PROVE  Ordered'
<1>1. ASSUME UNCHANGED <<body, thread, pending, radio, host, excused>>
      PROVE  Ordered'
  <2> SUFFICES ASSUME NEW k \in Kinds, k \notin excused'
               PROVE  Order(k)'
    BY DEF Ordered
  <2>1. UNCHANGED <<made, host, at, todo, hand, pending, fifo, excused>>
    BY <1>1 DEF body, thread, radio
  <2>2. Order(k) /\ InOrder(k, fifo)
    BY <2>1 DEF Ordered, Order
  <2>3. HandOf(k)' = HandOf(k) /\ (Due(k) => Due(k)')
    BY <2>1 DEF HandOf, Due, kind
  <2> QED
    BY <2>1, <2>2, <2>3, OrderAside
<1>2. CASE QuietBegins \/ QuietEnds \/ SlotStarts \/ Connects
  <2>1. UNCHANGED <<body, thread, pending, radio, host, excused>>
    BY <1>2 DEF QuietBegins, QuietEnds, SlotStarts, Connects
  <2> QED
    BY <1>1, <2>1
<1>3. CASE UNCHANGED vars
  <2>1. UNCHANGED <<body, thread, pending, radio, host, excused>>
    BY <1>3 DEF vars, env
  <2> QED
    BY <1>1, <2>1
<1>4. CASE Disconnects \/ SlotStops
  <2>1. Excuse(Kinds)
    BY <1>4 DEF Disconnects, SlotStops
  <2> QED
    BY <2>1, Spared DEF Ordered
<1> QED
  BY <1>2, <1>3, <1>4, OrderEvent, OrderEventThread, OrderRetry, OrderResync, OrderAcked,
     OrderFlushed DEF Next

LEMMA OrderInit == Init => Ordered
<1> SUFFICES ASSUME Init, NEW k \in Kinds
             PROVE  Order(k)
  BY DEF Ordered
<1>1. /\ made[k] = 0 /\ host[k] = 0 /\ pending[k] = <<>> /\ fifo = <<>> /\ todo = <<>>
  BY DEF Init
<1>2. HandOf(k) = <<>> /\ Held(k) = {} /\ Parked(k) = {} /\ Nums(k, fifo) = {}
  BY <1>1, EmptyFacts DEF HandOf, Held, Parked
<1>3. 0 + 1..0 = {}
  OBVIOUS
<1> QED
  BY <1>1, <1>2, <1>3, EmptyFacts DEF Order, Below

(***************************************************************************)
(* The refinement: each kind is a ReportStream                             *)
(***************************************************************************)

LEMMA SomeExcuse ==
  ASSUME [Next]_vars
  PROVE  excused' = excused \/ \E K : Excuse(K)
<1>1. CASE EventThread
  BY <1>1 DEF EventThread, Snapshots, DrainTakes, DrainSends, DrainReparks, SnapshotSent,
              SnapshotParked, RetryScheduled
<1>2. CASE \E i \in Inputs : hid_relay_cb(i)
  BY <1>2 DEF hid_relay_cb
<1>3. CASE hid_retry_work_fn \/ hid_resync_cb \/ TxAcked \/ TxFailed
  BY <1>3 DEF hid_retry_work_fn, hid_resync_cb, TxAcked, TxFailed
<1>4. CASE \/ QuietBegins \/ QuietEnds \/ OtherFlush \/ SlotStarts \/ Connects
           \/ Disconnects \/ SlotStops \/ UNCHANGED vars
  BY <1>4 DEF QuietBegins, QuietEnds, OtherFlush, SlotStarts, Connects, Disconnects,
              SlotStops, vars
<1> QED
  BY <1>1, <1>2, <1>3, <1>4 DEF Next

(* Only an event makes reports, only an acknowledgement shows them. *)
LEMMA OnlyEventsMake ==
  ASSUME [Next]_vars
  PROVE  \/ UNCHANGED <<made, host>>
         \/ \E i \in Inputs : hid_relay_cb(i)
         \/ TxAcked
<1>1. CASE EventThread
  BY <1>1 DEF EventThread, Snapshots, DrainTakes, DrainSends, DrainReparks, SnapshotSent,
              SnapshotParked, RetryScheduled, body, env
<1>2. CASE hid_retry_work_fn \/ hid_resync_cb \/ TxFailed
  BY <1>2 DEF hid_retry_work_fn, hid_resync_cb, TxFailed, body, env
<1>3. CASE \/ QuietBegins \/ QuietEnds \/ OtherFlush \/ SlotStarts \/ Connects
           \/ Disconnects \/ SlotStops \/ UNCHANGED vars
  BY <1>3 DEF QuietBegins, QuietEnds, OtherFlush, SlotStarts, Connects, Disconnects,
              SlotStops, vars, body, env
<1> QED
  BY <1>1, <1>2, <1>3 DEF Next

(* What a step is to kind k: a new report, an excuse, a report shown. *)
Makes(k) ==
  made'[k] = made[k] + 1 /\ host'[k] = host[k] /\ (k \in excused => k \in excused')
Excuses(k) == k \in excused' /\ made'[k] = made[k] /\ host'[k] = host[k]
Shows(k) ==
  /\ made'[k] = made[k]
  /\ \/ k \notin excused /\ k \notin excused' /\ host'[k] = host[k] + 1 /\ host'[k] <= made[k]
     \/ /\ k \in excused /\ host'[k] \in 0..made[k]
        /\ k \in excused' \/ host'[k] = made[k]
Rests(k) ==
  made'[k] = made[k] /\ host'[k] = host[k] /\ (k \in excused <=> k \in excused')

LEMMA ExcuseEnds ==
  ASSUME [Next]_vars, NEW k \in excused, k \notin excused'
  PROVE  host'[k] = made'[k] /\ k \notin ToSet(todo')
<1>1. PICK K : Excuse(K)
  BY SomeExcuse
<1> QED
  BY <1>1 DEF Excuse, UnderWay

LEMMA StreamStep ==
  ASSUME RelayTyped, RelayTyped', Ordered, [Next]_vars, NEW k \in Kinds
  PROVE  Makes(k) \/ Excuses(k) \/ Shows(k) \/ Rests(k)
<1>0. /\ made[k] \in Nat /\ host[k] \in Nat /\ host[k] <= made[k]
      /\ made'[k] \in Nat /\ host'[k] \in Nat /\ host'[k] <= made'[k]
  BY DEF RelayTyped, CountsOK
<1>1. ASSUME made'[k] = made[k], host'[k] = host[k]
      PROVE  Excuses(k) \/ Shows(k) \/ Rests(k)
  <2>1. CASE k \in excused'
    BY <1>1, <2>1 DEF Excuses
  <2>2. CASE k \notin excused' /\ k \notin excused
    BY <1>1, <2>2 DEF Rests
  <2>3. CASE k \notin excused' /\ k \in excused
    <3>1. host'[k] = made[k]
      BY <1>1, <2>3, ExcuseEnds
    <3> QED
      BY <1>0, <1>1, <2>3, <3>1 DEF Shows
  <2> QED
    BY <2>1, <2>2, <2>3
<1>2. CASE UNCHANGED <<made, host>>
  BY <1>1, <1>2
<1>3. ASSUME NEW i \in Inputs, hid_relay_cb(i)
      PROVE  Makes(k) \/ Excuses(k) \/ Shows(k) \/ Rests(k)
  <2>1. /\ made' = [c \in Kinds |-> IF c \in ToSet(Concerned(i)) THEN made[c] + 1 ELSE made[c]]
        /\ host' = host
    BY <1>3 DEF hid_relay_cb
  <2>2. CASE k \in ToSet(Concerned(i))
    <3>1. made'[k] = made[k] + 1 /\ host'[k] = host[k]
      BY <2>1, <2>2
    <3>2. k \in excused => k \in excused'
      BY <1>0, <3>1, ExcuseEnds
    <3> QED
      BY <3>1, <3>2 DEF Makes
  <2>3. CASE k \notin ToSet(Concerned(i))
    BY <1>1, <2>1, <2>3
  <2> QED
    BY <2>2, <2>3
<1>4. CASE TxAcked
  <2>1. /\ made' = made /\ host' = [host EXCEPT ![Head(fifo).kind] = Head(fifo).n]
        /\ fifo # <<>> /\ Excuse({}) /\ host \in [Kinds -> Nat]
    BY <1>4 DEF TxAcked, body, RelayTyped, RadioOK, CountsOK
  <2>2. CASE Head(fifo).kind # k
    BY <1>1, <2>1, <2>2
  <2>3. CASE Head(fifo).kind = k
    <3>1. host'[k] = Head(fifo).n
      BY <2>1, <2>3
    <3>2. CASE k \in excused
      <4>1. k \in excused' \/ host'[k] = made[k]
        BY <2>1, <3>2, ExcuseEnds
      <4>2. host'[k] \in 0..made[k]
        BY <1>0, <2>1
      <4> QED
        BY <2>1, <3>2, <4>1, <4>2 DEF Shows
    <3>3. CASE k \notin excused
      <4>1. k \notin excused'
        BY <2>1, <3>3 DEF Excuse
      <4>2. Head(fifo).n \in host[k]..host[k] + 1
        BY <2>1, <2>3, <3>3, OrderHead DEF Ordered
      <4>3. host'[k] = host[k] \/ host'[k] = host[k] + 1
        BY <1>0, <3>1, <4>2
      <4> QED
        BY <1>0, <2>1, <3>3, <4>1, <4>3 DEF Shows, Rests
    <3> QED
      BY <3>2, <3>3
  <2> QED
    BY <2>2, <2>3
<1> QED
  BY <1>2, <1>3, <1>4, OnlyEventsMake

RelayInv == RelayTyped /\ Ordered

LEMMA RelayInvStep == RelayInv /\ [Next]_vars => RelayInv'
  BY RelayTypedStep, OrderStep DEF RelayInv

LEMMA KbStep ==
  ASSUME RelayInv, [Next]_vars
  PROVE  [KbStream!StreamNext]_KbStream!streamVars
<1>1. Makes("kb") \/ Excuses("kb") \/ Shows("kb") \/ Rests("kb")
  BY RelayTypedStep, StreamStep DEF RelayInv, Kinds
<1>2. CASE Makes("kb")
  BY <1>2 DEF Makes, KbStream!StreamNext, KbStream!Make
<1>3. CASE Excuses("kb")
  BY <1>3 DEF Excuses, KbStream!StreamNext, KbStream!Excuse
<1>4. CASE Shows("kb")
  BY <1>4 DEF Shows, KbStream!StreamNext, KbStream!Show
<1>5. CASE Rests("kb")
  BY <1>5 DEF Rests, KbStream!streamVars
<1> QED
  BY <1>1, <1>2, <1>3, <1>4, <1>5

LEMMA ConsStep ==
  ASSUME RelayInv, [Next]_vars
  PROVE  [ConsStream!StreamNext]_ConsStream!streamVars
<1>1. Makes("cons") \/ Excuses("cons") \/ Shows("cons") \/ Rests("cons")
  BY RelayTypedStep, StreamStep DEF RelayInv, Kinds
<1>2. CASE Makes("cons")
  BY <1>2 DEF Makes, ConsStream!StreamNext, ConsStream!Make
<1>3. CASE Excuses("cons")
  BY <1>3 DEF Excuses, ConsStream!StreamNext, ConsStream!Excuse
<1>4. CASE Shows("cons")
  BY <1>4 DEF Shows, ConsStream!StreamNext, ConsStream!Show
<1>5. CASE Rests("cons")
  BY <1>5 DEF Rests, ConsStream!streamVars
<1> QED
  BY <1>1, <1>2, <1>3, <1>4, <1>5

(* The host is shown every report of a kind in the order they were made,     *)
(* except across an excuse: the rings, the drains of two threads and the     *)
(* flushes of the transport together implement ReportStream, once per kind   *)
(* (send_keyboard, send_consumer, hid_retry_work_fn, hid_resync_cb).         *)
THEOREM RelayImplementsStream == Spec => EveryEdgeInOrder
<1>1. Init => RelayInv
  BY RelayTypedInit, OrderInit DEF RelayInv
<1>2. Init => KbStream!StreamInit /\ ConsStream!StreamInit
  BY DEF Init, KbStream!StreamInit, ConsStream!StreamInit, Kinds
<1>3. RelayInv /\ [Next]_vars => [KbStream!StreamNext]_KbStream!streamVars
  BY KbStep
<1>4. RelayInv /\ [Next]_vars => [ConsStream!StreamNext]_ConsStream!streamVars
  BY ConsStep
<1> QED
  BY <1>1, <1>2, <1>3, <1>4, RelayInvStep, PTL
  DEF Spec, EveryEdgeInOrder, KbStream!StreamSpec, ConsStream!StreamSpec
=============================================================================
