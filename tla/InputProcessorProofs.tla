------------------------ MODULE InputProcessorProofs ------------------------
(***************************************************************************)
(* Theorems about InputProcessor, for rings of any depth and any number of *)
(* events.                                                                 *)
(*                                                                         *)
(*   MotionIsConserved  motion is in one place and counted once            *)
(*   PointerTypes       types, and the bounds of the ring                  *)
(*   EdgesShownInOrder  no press or release is skipped or out of order     *)
(*                                                                         *)
(* MotionConserved alone is not inductive.  The retry forgets motion that  *)
(* has no stamp, and `d->dx += value' writes back what it has read: the    *)
(* strengthening says that, unless the retry came in between, there is no  *)
(* such motion and nothing changes between the read and the write, and     *)
(* that only a report that is being sent carries motion.                   *)
(*                                                                         *)
(* NoEdgeSkipped needs EdgeOrder: what the host shows, what is in hand and *)
(* what is in the ring is one line in which each edge is the one before it *)
(* or the next, and it ends with the newest, or with the one before while  *)
(* the input thread has still to park or send that.                        *)
(***************************************************************************)
EXTENDS InputProcessor, SequenceTheorems, TLAPS

Stamps == {"none", "fresh", "stale"}

MotionTyped ==
  /\ acc \in Nat /\ old \in Nat /\ moved \in Nat
  /\ sent \in Nat /\ dropped \in Nat /\ clipped \in Nat
  /\ stamp \in Stamps
  /\ taken.motion \in Nat /\ taken.stamp \in Stamps
  /\ raced \in BOOLEAN

TakenWhileSending == at # "mine" => taken = NoReport

Stamped ==
  ~raced =>
    /\ acc # 0 \/ at \in {"read", "write"} => stamp # "none"
    /\ taken.motion # 0 => taken.stamp # "none"

ReadStillCurrent == ~raced /\ at = "write" => old = acc

MotionInv ==
  /\ MotionTyped /\ TakenWhileSending /\ Stamped /\ ReadStillCurrent
  /\ MotionConserved

LEMMA MotionInit == Init => MotionInv
<1> SUFFICES ASSUME Init
             PROVE  MotionInv
  OBVIOUS
<1>1. /\ acc = 0 /\ old = 0 /\ moved = 0 /\ sent = 0 /\ dropped = 0 /\ clipped = 0
      /\ stamp = "none" /\ raced = FALSE /\ at = "idle" /\ taken = NoReport
  BY DEF Init
<1>2. taken.motion = 0 /\ taken.stamp = "none"
  BY <1>1 DEF NoReport
<1>3. MotionTyped
  <2>1. raced \in BOOLEAN
    BY <1>1
  <2>2. /\ acc \in Nat /\ old \in Nat /\ moved \in Nat
        /\ sent \in Nat /\ dropped \in Nat /\ clipped \in Nat
    BY <1>1
  <2> QED
    BY <1>1, <1>2, <2>1, <2>2 DEF MotionTyped, Stamps
<1> QED
  BY <1>1, <1>2, <1>3 DEF MotionInv, TakenWhileSending, Stamped, ReadStillCurrent,
                          MotionConserved, Accounted

(* The motion of a report goes out or is cut off. *)
LEMMA AcceptedAmount ==
  ASSUME NEW numbers, NEW amount \in Nat, NEW excuse, sent \in Nat, clipped \in Nat,
         Accepted(numbers, amount, excuse)
  PROVE  /\ sent' \in Nat /\ clipped' \in Nat
         /\ sent' + clipped' = sent + clipped + amount
<1>1. LIMIT \in Nat
  BY PointerAssumption DEF PointerAssumption
<1>2. /\ sent' = sent + (IF amount > LIMIT THEN LIMIT ELSE amount)
      /\ clipped' = clipped + IF amount > LIMIT THEN amount - LIMIT ELSE 0
  BY DEF Accepted, Carried
<1> QED
  BY <1>1, <1>2

(* A report without motion leaves both as they are. *)
LEMMA AcceptedNothing ==
  ASSUME NEW numbers, NEW excuse, sent \in Nat, clipped \in Nat,
         Accepted(numbers, 0, excuse)
  PROVE  UNCHANGED <<sent, clipped>>
<1>1. LIMIT \in Nat
  BY PointerAssumption DEF PointerAssumption
<1> QED
  BY <1>1 DEF Accepted, Carried

(* What leaves the accumulator is in the three sums it leaves to. *)
LEMMA MotionFlushed ==
  ASSUME MotionTyped, Accounted, NEW out \in Nat, NEW late \in Nat, acc = out + late,
         acc' = 0, moved' = moved, taken' = taken, dropped' = dropped + late,
         sent' \in Nat, clipped' \in Nat, sent' + clipped' = sent + clipped + out
  PROVE  Accounted'
<1> DEFINE waits == taken.motion
           goneNow == sent'
           cutNow == clipped'
<1>1. waits \in Nat /\ sent \in Nat /\ dropped \in Nat /\ clipped \in Nat
  BY DEF MotionTyped
<1>2. goneNow \in Nat /\ cutNow \in Nat /\ goneNow + cutNow = sent + clipped + out
  OBVIOUS
<1>3. moved' = (out + late) + waits + sent + dropped + clipped
  BY DEF Accounted
<1> HIDE DEF waits, goneNow, cutNow
<1>4. (out + late) + waits + sent + dropped + clipped
        = 0 + waits + goneNow + (dropped + late) + cutNow
  BY <1>1, <1>2
<1>5. moved' = 0 + waits + goneNow + (dropped + late) + cutNow
  BY <1>3, <1>4
<1> QED
  BY <1>5 DEF Accounted, waits, goneNow, cutNow

(* The steps that move neither motion nor the thread's place in an addition. *)
LEMMA MotionAside ==
  ASSUME MotionInv,
         UNCHANGED <<acc, old, moved, sent, dropped, clipped, raced, stamp, taken>>,
         at' = at \/ (at \notin {"mine", "idle"} /\ at' \notin {"read", "write"})
                  \/ (at = "idle" /\ at' \notin {"read", "write"})
  PROVE  MotionInv'
  BY DEF MotionInv, MotionTyped, TakenWhileSending, Stamped, ReadStillCurrent,
         MotionConserved, Accounted

LEMMA MotionStep == MotionInv /\ [Next]_vars => MotionInv'
<1> SUFFICES ASSUME MotionInv, [Next]_vars
             PROVE  MotionInv'
  OBVIOUS
<1> USE DEF MotionInv, MotionTyped, Stamps, TakenWhileSending, NoReport, Stamped,
            ReadStillCurrent, MotionConserved, Accounted
<1>1. ASSUME NEW isSync \in BOOLEAN, MoveStamps(isSync)
      PROVE  MotionInv'
  BY <1>1 DEF MoveStamps
<1>2. CASE Button
  <2>1. UNCHANGED <<acc, old, moved, sent, dropped, clipped, raced, stamp, taken>>
    BY <1>2 DEF Button, motion
  <2>2. at = "idle" /\ at' = "defer"
    BY <1>2 DEF Button
  <2> QED
    BY <2>1, <2>2, MotionAside
<1>3. CASE InputThread
  <2>1. CASE MoveReads
    BY <2>1 DEF MoveReads, motion
  <2>2. CASE MoveWrites
    BY <2>2 DEF MoveWrites, event
  <2>3. CASE Deferred \/ DrainTakes \/ DrainReparks \/ EdgeParked \/ RetryScheduled
    <3>1. UNCHANGED <<acc, old, moved, sent, dropped, clipped, raced, stamp, taken>>
      BY <2>3 DEF Deferred, DrainTakes, DrainReparks, EdgeParked, RetryScheduled,
                  motion, event
    <3>2. at \in {"defer", "drain", "send", "park", "sched"}
           /\ at' \in {"defer", "drain", "send", "park", "sched", "idle"}
      BY <2>3 DEF Deferred, DrainTakes, DrainReparks, EdgeParked, RetryScheduled
    <3> QED
      BY <3>1, <3>2, MotionAside
  <2>4. CASE DrainSends
    <3>1. UNCHANGED <<acc, old, moved, dropped, raced, stamp, taken, at>>
      BY <2>4 DEF DrainSends, event
    <3>2. UNCHANGED <<sent, clipped>>
      BY <2>4, AcceptedNothing DEF DrainSends
    <3> QED
      BY <3>1, <3>2, MotionAside
  <2>5. CASE StaleDropped
    BY <2>5 DEF StaleDropped, event
  <2>6. CASE ReportTaken
    BY <2>6 DEF ReportTaken, event
  <2>7. CASE ReportSent
    <3>1. /\ sent' \in Nat /\ clipped' \in Nat
          /\ sent' + clipped' = sent + clipped + taken.motion
      BY <2>7, AcceptedAmount DEF ReportSent
    <3>2. /\ at' = "idle" /\ taken' = NoReport
          /\ UNCHANGED <<acc, old, moved, dropped, raced, stamp>>
      BY <2>7 DEF ReportSent, event
    <3>3. taken'.motion = 0 /\ taken'.stamp = "none"
      BY <3>2
    <3>4. MotionTyped'
      BY <3>1, <3>2, <3>3
    <3>5. Accounted => Accounted'
      <4>1. moved = acc + taken.motion + sent + dropped + clipped
            => moved = acc + 0 + sent' + dropped + clipped'
        BY <3>1
      <4> QED
        BY <3>2, <3>3, <4>1
    <3> QED
      BY <3>2, <3>3, <3>4, <3>5
  <2>8. CASE ReportRefused
    BY <2>8 DEF ReportRefused, event
  <2> QED
    BY <1>3, <2>1, <2>2, <2>3, <2>4, <2>5, <2>6, <2>7, <2>8 DEF InputThread
(* Motion without a stamp is forgotten here, fresh motion sent, stale dropped. *)
<1>4. CASE retry_work_fn
  <2> DEFINE out == IF acc # 0 /\ stamp = "fresh" THEN acc ELSE 0
             late == IF stamp = "stale" THEN acc ELSE 0
  <2>1. /\ acc' = 0 /\ stamp' = "none" /\ dropped' = dropped + late
        /\ raced' = (raced \/ at \in {"read", "write"})
        /\ UNCHANGED <<moved, old, at, taken>>
    BY <1>4 DEF retry_work_fn, thread, event
  <2>2. out \in Nat /\ late \in Nat
    OBVIOUS
  <2>3. ~raced /\ at \notin {"read", "write"} => acc = out + late
    OBVIOUS
  <2>4. \E numbers, excuse : Accepted(numbers, out, excuse)
    BY <1>4 DEF retry_work_fn
  <2> HIDE DEF out, late
  <2>5. sent' \in Nat /\ clipped' \in Nat /\ sent' + clipped' = sent + clipped + out
    BY <2>2, <2>4, AcceptedAmount
  <2>6. ASSUME ~raced, at \notin {"read", "write"}
        PROVE  Accounted'
    <3>1. MotionTyped /\ Accounted /\ acc = out + late
      BY <2>3, <2>6
    <3> QED
      BY <2>1, <2>2, <2>5, <3>1, MotionFlushed
  <2>7. MotionTyped'
    <3>1. raced' \in BOOLEAN
      BY <2>1
    <3>2. dropped' \in Nat
      BY <2>1, <2>2
    <3> QED
      BY <2>1, <2>5, <3>1, <3>2
  <2>8. raced' = FALSE => ~raced /\ at \notin {"read", "write"}
    BY <2>1
  <2> QED
    BY <2>1, <2>6, <2>7, <2>8
<1>5. CASE esb_ip_resync_cb
  <2>1. UNCHANGED <<sent, clipped>>
    <3>1. CASE ~active
      BY <1>5, <3>1 DEF esb_ip_resync_cb
    <3>2. CASE active /\ Defers
      BY <1>5, <3>2 DEF esb_ip_resync_cb
    <3>3. CASE active /\ ~Defers
      BY <1>5, <3>3, AcceptedNothing DEF esb_ip_resync_cb
    <3> QED
      BY <3>1, <3>2, <3>3
  <2>2. UNCHANGED <<acc, old, moved, dropped, raced, stamp, taken, at>>
    BY <1>5 DEF esb_ip_resync_cb, thread, event
  <2> QED
    BY <2>1, <2>2, MotionAside
<1>6. CASE \/ QuietChanges \/ PressureChanges \/ TransportClears \/ ReportLost
           \/ SessionChanges
  <2>1. UNCHANGED <<acc, old, moved, sent, dropped, clipped, raced, stamp, taken, at>>
    BY <1>6 DEF QuietChanges, PressureChanges, TransportClears, ReportLost,
                SessionChanges, motion, thread, event
  <2> QED
    BY <2>1, MotionAside
<1>7. CASE MotionAges
  <2>1. CASE stamp = "fresh" /\ stamp' = "stale" /\ UNCHANGED taken
    BY <1>7, <2>1 DEF MotionAges, event
  <2>2. CASE /\ taken.stamp = "fresh" /\ taken' = [taken EXCEPT !.stamp = "stale"]
             /\ UNCHANGED stamp
    <3>1. at = "mine"
      BY <2>2
    <3>2. taken'.motion = taken.motion /\ taken'.stamp = "stale"
      BY <2>2
    <3> QED
      BY <1>7, <2>2, <3>1, <3>2 DEF MotionAges, event
  <2> QED
    BY <1>7, <2>1, <2>2 DEF MotionAges
<1>8. CASE UNCHANGED vars
  <2>1. UNCHANGED <<acc, old, moved, sent, dropped, clipped, raced, stamp, taken, at>>
    BY <1>8 DEF vars, motion, thread, event
  <2> QED
    BY <2>1, MotionAside
<1> QED
  BY <1>1, <1>2, <1>3, <1>4, <1>5, <1>6, <1>7, <1>8 DEF Next

(* Every unit of motion is in the accumulator, in the report being sent,      *)
(* sent, dropped as stale or cut off by the clamp, and counted once, however  *)
(* the input thread and the retry interleave outside an addition              *)
(* (send_mouse_report, send_hid_report_raw, retry_work_fn).                   *)
THEOREM MotionIsConserved == Spec => []MotionConserved
<1>1. MotionInv => MotionConserved
  BY DEF MotionInv
<1> QED
  BY <1>1, MotionInit, MotionStep, PTL DEF Spec

(***************************************************************************)
(* Rings                                                                   *)
(***************************************************************************)

(* A ring keeps what it was given, as much as fits. *)
LEMMA KeptFits ==
  ASSUME NEW S, NEW s \in Seq(S)
  PROVE  /\ Kept(s) \in Seq(S) /\ Len(Kept(s)) <= DEPTH
         /\ ~Overflows(s) => Kept(s) = s
<1>1. Len(s) \in Nat /\ DEPTH \in Nat \ {0}
  BY LenProperties, PointerAssumption DEF PointerAssumption
<1>2. CASE Len(s) > DEPTH
  <2> DEFINE first == 1 + (Len(s) - DEPTH)
  <2>1. Kept(s) = SubSeq(s, first, Len(s)) /\ Overflows(s)
    BY <1>2 DEF Kept, Overflows
  <2>2. first \in Int /\ Len(s) \in Int /\ first >= 1 /\ first <= Len(s)
        /\ Len(s) - first + 1 = DEPTH
    BY <1>1, <1>2
  <2> HIDE DEF first
  <2>3. \A i \in first..Len(s) : s[i] \in S
    <3> TAKE i \in first..Len(s)
    <3>1. i \in 1..Len(s)
      BY <1>1, <2>2
    <3> QED
      BY <3>1, ElementOfSeq
  <2>4. SubSeq(s, first, Len(s)) \in Seq(S)
        /\ Len(SubSeq(s, first, Len(s))) = IF first <= Len(s) THEN Len(s) - first + 1 ELSE 0
    BY <2>2, <2>3, SubSeqProperties
  <2>5. Len(SubSeq(s, first, Len(s))) = DEPTH
    BY <2>2, <2>4
  <2> QED
    BY <1>1, <2>1, <2>4, <2>5
<1>3. CASE ~(Len(s) > DEPTH)
  <2>1. Kept(s) = SubSeq(s, 1, Len(s))
    BY <1>1, <1>3 DEF Kept
  <2>2. Kept(s) = s
    BY <2>1, SubSeqFull
  <2> QED
    BY <1>1, <1>3, <2>2
<1> QED
  BY <1>2, <1>3

(***************************************************************************)
(* Chains: each edge is the one before it or the next.                     *)
(***************************************************************************)
Chain(s) == \A i \in 1..Len(s) - 1 : s[i + 1] \in {s[i], s[i] + 1}

LEMMA AppendFacts ==
  ASSUME NEW s \in Seq(Nat), NEW e \in Nat
  PROVE  /\ Append(s, e) \in Seq(Nat) /\ Len(Append(s, e)) = Len(s) + 1
         /\ Append(s, e)[Len(s) + 1] = e /\ Last(Append(s, e)) = e
         /\ \A i \in 1..Len(s) : Append(s, e)[i] = s[i]
         /\ Append(s, e) = s \o <<e>>
  BY AppendProperties, AppendIsConcat, LenProperties DEF Last

(* A chain grows by its last edge or the next. *)
LEMMA ChainAppend ==
  ASSUME NEW s \in Seq(Nat), s # <<>>, NEW e \in Nat, Chain(s), e \in {Last(s), Last(s) + 1}
  PROVE  Chain(Append(s, e)) /\ Last(Append(s, e)) = e
<1>1. Len(s) \in Nat \ {0}
  BY EmptySeq
<1>2. /\ Len(Append(s, e)) = Len(s) + 1
      /\ Append(s, e)[Len(s) + 1] = e /\ Last(Append(s, e)) = e
      /\ \A i \in 1..Len(s) : Append(s, e)[i] = s[i]
  BY AppendFacts
<1>3. ASSUME NEW i \in 1..Len(s)
      PROVE  Append(s, e)[i + 1] \in {Append(s, e)[i], Append(s, e)[i] + 1}
  <2>1. CASE i = Len(s)
    BY <1>1, <1>2, <2>1 DEF Last
  <2>2. CASE i # Len(s)
    <3>1. i \in 1..Len(s) - 1 /\ i + 1 \in 1..Len(s)
      BY <1>1, <2>2
    <3> QED
      BY <1>2, <3>1 DEF Chain
  <2> QED
    BY <2>1, <2>2
<1>4. 1..Len(Append(s, e)) - 1 = 1..Len(s)
  BY <1>1, <1>2
<1> QED
  BY <1>2, <1>3, <1>4 DEF Chain

(* The rest of a chain is a chain with the same end. *)
LEMMA ChainTail ==
  ASSUME NEW s \in Seq(Nat), s # <<>>, Tail(s) # <<>>, Chain(s)
  PROVE  /\ Tail(s) \in Seq(Nat) /\ Chain(Tail(s)) /\ Last(Tail(s)) = Last(s)
<1>1. /\ Len(s) \in Nat \ {0} /\ Tail(s) \in Seq(Nat) /\ Len(Tail(s)) = Len(s) - 1
      /\ \A i \in 1..Len(Tail(s)) : Tail(s)[i] = s[i + 1]
  BY EmptySeq, HeadTailProperties
<1>2. Len(Tail(s)) \in Nat \ {0}
  BY <1>1, EmptySeq
<1>3. Last(Tail(s)) = Last(s)
  BY <1>1, <1>2 DEF Last
<1>4. ASSUME NEW i \in 1..Len(Tail(s)) - 1
      PROVE  Tail(s)[i + 1] \in {Tail(s)[i], Tail(s)[i] + 1}
  <2>1. i + 1 \in 1..Len(s) - 1 /\ i \in 1..Len(Tail(s)) /\ i + 1 \in 1..Len(Tail(s))
    BY <1>1, <1>2
  <2> QED
    BY <1>1, <2>1 DEF Chain
<1> QED
  BY <1>1, <1>3, <1>4 DEF Chain

LEMMA OneChain ==
  ASSUME NEW e \in Nat
  PROVE  <<e>> \in Seq(Nat) /\ <<e>> # <<>> /\ Chain(<<e>>) /\ Last(<<e>>) = e
  BY DEF Chain, Last

(* One edge over and over is a chain. *)
LEMMA ConstantChain ==
  ASSUME NEW e \in Nat, NEW s \in Seq({e})
  PROVE  Chain(<<e>> \o s) /\ Last(<<e>> \o s) = e
<1>1. /\ Len(s) \in Nat /\ \A i \in 1..Len(s) : s[i] = e
  BY LenProperties, ElementOfSeq
<1>2. <<e>> \in Seq({e}) /\ Len(<<e>>) = 1 /\ <<e>>[1] = e
  OBVIOUS
<1>3. /\ <<e>> \o s \in Seq({e}) /\ Len(<<e>> \o s) = 1 + Len(s)
  BY <1>2, ConcatProperties
<1>4. \A i \in 1..1 + Len(s) : (<<e>> \o s)[i] = e
  BY <1>3, ElementOfSeq
<1> HIDE DEF Chain
<1>5. Last(<<e>> \o s) = e
  BY <1>1, <1>3, <1>4 DEF Last
<1>6. \A i \in 1..Len(<<e>> \o s) - 1 : i \in 1..1 + Len(s) /\ i + 1 \in 1..1 + Len(s)
  BY <1>1, <1>3
<1> QED
  BY <1>4, <1>5, <1>6 DEF Chain

(***************************************************************************)
(* Types, and which edges the rings hold                                   *)
(***************************************************************************)

Places == {"idle", "read", "write", "defer", "drain", "send", "park", "sched", "mine"}

(* What comes into the ring while the input thread sends is the newest edge: *)
(* a resync, no button.                                                      *)
NumbersOK ==
  /\ edge \in 0..MaxEdges /\ shown \in 0..edge /\ at \in Places
  /\ pending \in Seq(0..edge) /\ Len(pending) <= DEPTH
  /\ hand \in Seq(0..edge) /\ Len(hand) <= DEPTH
  /\ hand # <<>> => at = "send"
  /\ at = "mine" => taken.edge = edge
  /\ at \in {"send", "mine"} => pending \in Seq({edge})

AmountsOK ==
  /\ moved \in 0..MaxMoves /\ acc \in 0..moved /\ old \in 0..moved
  /\ taken.motion \in 0..moved
  /\ sent \in Nat /\ dropped \in Nat /\ clipped \in Nat
  /\ at = "mine" => acc = 0
  /\ at \in {"read", "write"} => moved < MaxMoves

FlagsOK ==
  /\ stamp \in Stamps
  /\ taken \in [edge : 0..MaxEdges, motion : 0..MaxMoves, stamp : Stamps]
  /\ retry \in BOOLEAN /\ sync \in BOOLEAN /\ changed \in BOOLEAN /\ active \in BOOLEAN
  /\ quiet \in BOOLEAN /\ pressure \in BOOLEAN /\ resync \in BOOLEAN
  /\ owed \in BOOLEAN /\ excused \in BOOLEAN /\ skipped \in BOOLEAN /\ raced \in BOOLEAN
  /\ faults \in 0..MaxFaults

PointerTyped == NumbersOK /\ AmountsOK /\ FlagsOK

LEMMA BoundsAreNat == MaxMoves \in Nat /\ MaxEdges \in Nat /\ MaxFaults \in Nat
  BY PointerAssumption DEF PointerAssumption

LEMMA PointerTypedInit == Init => PointerTyped
<1> SUFFICES ASSUME Init
             PROVE  PointerTyped
  OBVIOUS
<1>0. MaxMoves \in Nat /\ MaxEdges \in Nat /\ MaxFaults \in Nat /\ DEPTH \in Nat
  BY BoundsAreNat, PointerAssumption DEF PointerAssumption
<1>1. /\ edge = 0 /\ shown = 0 /\ at = "idle" /\ pending = <<>> /\ hand = <<>>
      /\ moved = 0 /\ acc = 0 /\ old = 0 /\ sent = 0 /\ dropped = 0 /\ clipped = 0
      /\ taken = [edge |-> 0, motion |-> 0, stamp |-> "none"] /\ stamp = "none" /\ faults = 0
  BY DEF Init, NoReport
<1>2. <<>> \in Seq(0..edge) /\ Len(<<>>) = 0
  BY EmptySeq
<1>3. NumbersOK
  BY <1>0, <1>1, <1>2 DEF NumbersOK, Places
<1>4. AmountsOK
  BY <1>0, <1>1 DEF AmountsOK
<1>5. taken \in [edge : 0..MaxEdges, motion : 0..MaxMoves, stamp : Stamps]
  BY <1>0, <1>1 DEF Stamps
<1>6. /\ retry \in BOOLEAN /\ sync \in BOOLEAN /\ changed \in BOOLEAN /\ active \in BOOLEAN
      /\ quiet \in BOOLEAN /\ pressure \in BOOLEAN /\ resync \in BOOLEAN
      /\ owed \in BOOLEAN /\ excused \in BOOLEAN /\ skipped \in BOOLEAN /\ raced \in BOOLEAN
  BY Zenon DEF Init
<1>7. FlagsOK
  BY <1>0, <1>1, <1>5, <1>6 DEF FlagsOK, Stamps
<1> QED
  BY <1>3, <1>4, <1>7 DEF PointerTyped

(* What a send shows is an edge that was made. *)
LEMMA AcceptedShows ==
  ASSUME NEW e \in Nat, shown \in 0..e, NEW numbers \in Seq(0..e), NEW amount, NEW excuse,
         Accepted(numbers, amount, excuse)
  PROVE  shown' \in 0..e
<1> DEFINE all == <<shown>> \o numbers
<1>1. <<shown>> \in Seq(0..e) /\ Len(<<shown>>) = 1
  OBVIOUS
<1>2. /\ all \in Seq(0..e) /\ Len(all) = 1 + Len(numbers) /\ Len(numbers) \in Nat
  BY <1>1, ConcatProperties, LenProperties
<1> HIDE DEF all
<1>3. Len(all) \in 1..Len(all)
  BY <1>2
<1>4. all[Len(all)] \in 0..e
  BY <1>2, <1>3, ElementOfSeq
<1> QED
  BY <1>4 DEF Accepted, Last, all

LEMMA RingAppend ==
  ASSUME NumbersOK
  PROVE  /\ edge \in Nat /\ Append(pending, edge) \in Seq(0..edge)
         /\ pending \in Seq({edge}) => Append(pending, edge) \in Seq({edge})
<1>1. edge \in Nat /\ edge \in 0..edge
  BY BoundsAreNat DEF NumbersOK
<1> QED
  BY <1>1, AppendProperties DEF NumbersOK

LEMMA Parks ==
  ASSUME NumbersOK, ParkEdge
  PROVE  /\ pending' \in Seq(0..edge) /\ Len(pending') <= DEPTH
<1>1. Append(pending, edge) \in Seq(0..edge)
  BY RingAppend
<1>2. Kept(Append(pending, edge)) \in Seq(0..edge) /\ Len(Kept(Append(pending, edge))) <= DEPTH
  BY <1>1, KeptFits
<1> QED
  BY <1>2 DEF ParkEdge, NumbersOK

LEMMA NumbersStep == PointerTyped /\ [Next]_vars => NumbersOK'
<1> SUFFICES ASSUME PointerTyped, [Next]_vars
             PROVE  NumbersOK'
  OBVIOUS
<1>0. /\ NumbersOK /\ edge \in Nat /\ MaxEdges \in Nat /\ DEPTH \in Nat
      /\ edge \in 0..MaxEdges /\ shown \in 0..edge /\ at \in Places
      /\ pending \in Seq(0..edge) /\ Len(pending) <= DEPTH
      /\ hand \in Seq(0..edge) /\ Len(hand) <= DEPTH
      /\ hand # <<>> => at = "send"
      /\ at = "mine" => taken.edge = edge
      /\ at \in {"send", "mine"} => pending \in Seq({edge})
  BY BoundsAreNat, PointerAssumption DEF PointerTyped, NumbersOK, PointerAssumption
<1>9. \A S : <<>> \in Seq(S) /\ Len(<<>>) = 0
  BY EmptySeq
<1>1. ASSUME NEW isSync \in BOOLEAN, MoveStamps(isSync)
      PROVE  NumbersOK'
  BY <1>0, <1>1 DEF MoveStamps, NumbersOK, Places, edges, view
<1>2. CASE Button
  <2>1. /\ edge' = edge + 1 /\ at = "idle" /\ at' = "defer" /\ edge < MaxEdges
        /\ UNCHANGED <<hand, taken, pending, shown>>
    BY <1>2 DEF Button
  <2>2. edge' \in 0..MaxEdges /\ shown' \in 0..edge' /\ 0..edge \subseteq 0..edge'
    BY <1>0, <2>1
  <2>3. pending' \in Seq(0..edge') /\ hand' \in Seq(0..edge')
    BY <1>0, <2>1, <2>2, SeqMonotonic
  <2> QED
    BY <1>0, <2>1, <2>2, <2>3 DEF NumbersOK, Places
<1>3. CASE InputThread
  <2>1. CASE MoveReads \/ MoveWrites \/ RetryScheduled \/ StaleDropped \/ ReportTaken
    <3>1. UNCHANGED <<edge, shown, pending, hand>>
      BY <2>1 DEF MoveReads, MoveWrites, RetryScheduled, StaleDropped, ReportTaken, edges,
                  view, motion
    <3>2. /\ at' \in Places /\ (hand' # <<>> => at' = "send")
          /\ (at' \in {"send", "mine"} => at = "send") /\ (at' = "mine" => taken'.edge = edge)
      <4>1. CASE MoveReads \/ MoveWrites \/ RetryScheduled \/ StaleDropped
        <5>1. /\ hand' = hand /\ at' \in {"write", "defer", "idle"}
              /\ (hand # <<>> => at' = "send")
          BY <1>0, <4>1 DEF MoveReads, MoveWrites, RetryScheduled, StaleDropped
        <5> QED
          BY <5>1 DEF Places
      <4>2. CASE ReportTaken
        <5>1. /\ hand' = hand /\ hand = <<>> /\ at = "send" /\ at' = "mine"
              /\ taken' = [edge |-> edge, motion |-> acc, stamp |-> stamp]
          BY <4>2 DEF ReportTaken
        <5> QED
          BY <5>1 DEF Places
      <4> QED
        BY <2>1, <4>1, <4>2
    <3> QED
      BY <1>0, <3>1, <3>2 DEF NumbersOK
  <2>2. CASE Deferred
    <3>1. UNCHANGED <<edge, shown, hand>> /\ at = "defer" /\ at' \in {"idle", "sched", "drain"}
      BY <2>2 DEF Deferred, view
    <3>2. ParkEdge \/ pending' = pending
      BY <2>2 DEF Deferred
    <3>3. pending' \in Seq(0..edge) /\ Len(pending') <= DEPTH
      BY <1>0, <3>2, Parks
    <3> QED
      BY <1>0, <3>1, <3>3 DEF NumbersOK, Places
  <2>3. CASE DrainTakes
    <3>1. /\ UNCHANGED <<edge, shown, taken>> /\ at' = "send" /\ hand' = pending
          /\ pending' = <<>>
      BY <2>3 DEF DrainTakes, view
    <3> QED
      BY <1>0, <1>9, <3>1 DEF NumbersOK, Places
  <2>4. CASE DrainSends
    <3>1. /\ at = "send" /\ hand # <<>> /\ hand' = Tail(hand)
          /\ Accepted(<<Head(hand)>>, 0, FALSE) /\ UNCHANGED <<at, taken, edge, pending>>
      BY <2>4 DEF DrainSends
    <3>2. /\ Head(hand) \in 0..edge /\ Tail(hand) \in Seq(0..edge)
          /\ Len(Tail(hand)) = Len(hand) - 1 /\ Len(hand) \in Nat
      BY <1>0, <3>1, HeadTailProperties, LenProperties
    <3>3. <<Head(hand)>> \in Seq(0..edge)
      BY <3>2
    <3>4. shown' \in 0..edge
      BY <1>0, <3>1, <3>3, AcceptedShows
    <3> QED
      BY <1>0, <3>1, <3>2, <3>4 DEF NumbersOK
  <2>5. CASE DrainReparks
    <3>1. /\ at' = "park" /\ hand' = <<>> /\ pending' = Kept(hand \o pending)
          /\ UNCHANGED <<edge, shown, taken>>
      BY <2>5 DEF DrainReparks, view
    <3>2. hand \o pending \in Seq(0..edge)
      BY <1>0, ConcatProperties
    <3>3. pending' \in Seq(0..edge) /\ Len(pending') <= DEPTH
      BY <3>1, <3>2, KeptFits
    <3> QED
      BY <1>0, <1>9, <3>1, <3>3 DEF NumbersOK, Places
  <2>6. CASE EdgeParked \/ ReportRefused
    <3>1. /\ UNCHANGED <<edge, shown, hand>> /\ at' = "sched" /\ ParkEdge /\ hand = <<>>
      BY <1>0, <2>6 DEF EdgeParked, ReportRefused, view
    <3>2. pending' \in Seq(0..edge) /\ Len(pending') <= DEPTH
      BY <1>0, <3>1, Parks
    <3> QED
      BY <1>0, <3>1, <3>2 DEF NumbersOK, Places
  <2>7. CASE ReportSent
    <3>1. /\ at = "mine" /\ at' = "idle" /\ Accepted(<<taken.edge>>, taken.motion, FALSE)
          /\ UNCHANGED <<hand, edge, pending>>
      BY <2>7 DEF ReportSent
    <3>2. <<taken.edge>> \in Seq(0..edge)
      BY <1>0, <3>1
    <3>3. shown' \in 0..edge
      BY <1>0, <3>1, <3>2, AcceptedShows
    <3> QED
      BY <1>0, <3>1, <3>3 DEF NumbersOK, Places
  <2> QED
    BY <1>3, <2>1, <2>2, <2>3, <2>4, <2>5, <2>6, <2>7 DEF InputThread
<1>4. CASE retry_work_fn
  <2> DEFINE flushes == acc # 0 /\ stamp = "fresh"
             numbers == pending \o IF flushes THEN <<edge>> ELSE <<>>
  <2>1. /\ pending' = <<>> /\ Accepted(numbers, IF flushes THEN acc ELSE 0, Overtaken(numbers))
        /\ UNCHANGED <<at, hand, taken, edge>>
    BY <1>4 DEF retry_work_fn, thread
  <2>2. (IF flushes THEN <<edge>> ELSE <<>>) \in Seq(0..edge)
    <3>1. <<edge>> \in Seq(0..edge) /\ <<>> \in Seq(0..edge)
      BY <1>0, <1>9
    <3> QED
      BY <3>1
  <2>3. numbers \in Seq(0..edge)
    BY <1>0, <2>2, ConcatProperties
  <2> HIDE DEF numbers
  <2>4. shown' \in 0..edge
    BY <1>0, <2>1, <2>3, AcceptedShows
  <2> QED
    BY <1>0, <1>9, <2>1, <2>4 DEF NumbersOK
<1>5. CASE esb_ip_resync_cb
  <2>1. UNCHANGED <<at, hand, taken, edge>>
    BY <1>5 DEF esb_ip_resync_cb, thread
  <2>2. /\ Append(pending, edge) \in Seq(0..edge)
        /\ pending \in Seq({edge}) => Append(pending, edge) \in Seq({edge})
    BY <1>0, RingAppend
  <2>3. CASE ~active
    <3>1. UNCHANGED <<pending, shown>>
      BY <1>5, <2>3 DEF esb_ip_resync_cb, view
    <3> QED
      BY <1>0, <2>1, <3>1 DEF NumbersOK
  <2>4. CASE active /\ Defers
    <3>1. pending' = Kept(Append(pending, edge)) /\ shown' = shown
      BY <1>5, <2>4 DEF esb_ip_resync_cb, view
    <3>2. pending' \in Seq(0..edge) /\ Len(pending') <= DEPTH
      BY <2>2, <3>1, KeptFits
    <3>3. pending \in Seq({edge}) => pending' \in Seq({edge})
      BY <2>2, <3>1, KeptFits
    <3> QED
      BY <1>0, <2>1, <3>1, <3>2, <3>3 DEF NumbersOK
  <2>5. CASE active /\ ~Defers
    <3>1. /\ pending' = <<>>
          /\ Accepted(Append(pending, edge), 0, Overtaken(Append(pending, edge)))
      BY <1>5, <2>5 DEF esb_ip_resync_cb
    <3>2. shown' \in 0..edge
      BY <1>0, <2>2, <3>1, AcceptedShows
    <3> QED
      BY <1>0, <1>9, <2>1, <3>1, <3>2 DEF NumbersOK
  <2> QED
    BY <2>3, <2>4, <2>5
<1>6. CASE \/ QuietChanges \/ PressureChanges \/ TransportClears \/ ReportLost
           \/ SessionChanges \/ MotionAges \/ UNCHANGED vars
  <2>1. UNCHANGED <<at, hand, taken.edge, edge, pending, shown>>
    <3>1. UNCHANGED <<at, hand, edge, pending, shown>>
      BY <1>6 DEF QuietChanges, PressureChanges, TransportClears, ReportLost, SessionChanges,
                  MotionAges, vars, thread, edges, view
    <3>2. taken' = taken \/ taken' = [taken EXCEPT !.stamp = "stale"]
      BY <1>6 DEF QuietChanges, PressureChanges, TransportClears, ReportLost, SessionChanges,
                  MotionAges, vars, thread
    <3>3. taken'.edge = taken.edge
      BY <3>2 DEF PointerTyped, FlagsOK
    <3> QED
      BY <3>1, <3>3
  <2> QED
    BY <1>0, <2>1 DEF NumbersOK
<1> QED
  BY <1>1, <1>2, <1>3, <1>4, <1>5, <1>6 DEF Next

LEMMA AmountsStep == PointerTyped /\ [Next]_vars => AmountsOK'
<1> SUFFICES ASSUME PointerTyped, [Next]_vars
             PROVE  AmountsOK'
  OBVIOUS
<1>0. /\ MaxMoves \in Nat /\ moved \in 0..MaxMoves /\ acc \in 0..moved /\ old \in 0..moved
      /\ taken.motion \in 0..moved
      /\ sent \in Nat /\ dropped \in Nat /\ clipped \in Nat
      /\ at = "mine" => acc = 0
      /\ at \in {"read", "write"} => moved < MaxMoves
  BY BoundsAreNat DEF PointerTyped, AmountsOK
(* The steps that change no amount, or empty the accumulator. *)
<1>7. ASSUME UNCHANGED <<moved, old, taken>>, acc' \in {acc, 0},
             at' = "mine" => acc' = 0,
             at' \in {"read", "write"} => moved < MaxMoves,
             sent' \in Nat, clipped' \in Nat,
             dropped' \in {dropped, dropped + acc, dropped + 0}
      PROVE  AmountsOK'
  BY <1>0, <1>7 DEF AmountsOK
<1>1. ASSUME NEW isSync \in BOOLEAN, MoveStamps(isSync)
      PROVE  AmountsOK'
  BY <1>0, <1>1 DEF MoveStamps, AmountsOK
<1>2. CASE Button
  <2>1. UNCHANGED <<acc, moved, old, taken, sent, dropped, clipped>> /\ at' = "defer"
    BY <1>2 DEF Button, motion
  <2> QED
    BY <1>0, <2>1, <1>7
<1>3. CASE InputThread
  <2>1. CASE MoveReads
    BY <1>0, <2>1 DEF MoveReads, AmountsOK, motion
  <2>2. CASE MoveWrites
    <3>1. /\ at = "write" /\ acc' = old + 1 /\ moved' = moved + 1 /\ at' \in {"defer", "idle"}
          /\ UNCHANGED <<old, taken, sent, dropped, clipped>>
      BY <2>2 DEF MoveWrites, event
    <3> QED
      BY <1>0, <3>1 DEF AmountsOK
  <2>3. CASE Deferred \/ DrainTakes \/ DrainReparks \/ EdgeParked \/ RetryScheduled
    <3>1. /\ UNCHANGED <<acc, moved, old, taken, sent, dropped, clipped>>
          /\ at' \in {"idle", "sched", "drain", "send", "park"}
      BY <2>3 DEF Deferred, DrainTakes, DrainReparks, EdgeParked, RetryScheduled, motion, event
    <3> QED
      BY <1>0, <3>1, <1>7
  <2>4. CASE DrainSends
    <3>1. UNCHANGED <<acc, moved, old, taken, dropped>> /\ at' = "send"
      BY <2>4 DEF DrainSends, event
    <3>2. UNCHANGED <<sent, clipped>>
      BY <1>0, <2>4, AcceptedNothing DEF DrainSends
    <3> QED
      BY <1>0, <3>1, <3>2, <1>7
  <2>5. CASE StaleDropped
    <3>1. /\ UNCHANGED <<moved, old, taken, sent, clipped>> /\ dropped' = dropped + acc /\ acc' = 0
          /\ at' = "idle"
      BY <2>5 DEF StaleDropped, event
    <3> QED
      BY <1>0, <3>1, <1>7
  <2>6. CASE ReportTaken
    <3>1. /\ UNCHANGED <<moved, old, sent, dropped, clipped>> /\ acc' = 0 /\ at' = "mine"
          /\ taken'.motion = acc
      BY <2>6 DEF ReportTaken, event
    <3> QED
      BY <1>0, <3>1 DEF AmountsOK
  <2>7. CASE ReportSent
    <3>1. /\ UNCHANGED <<acc, moved, old, dropped>> /\ at' = "idle" /\ taken'.motion = 0
      BY <2>7 DEF ReportSent, event, NoReport
    <3>2. sent' \in Nat /\ clipped' \in Nat
      <4>1. taken.motion \in Nat
        BY <1>0
      <4> QED
        BY <1>0, <2>7, <4>1, AcceptedAmount DEF ReportSent
    <3> QED
      BY <1>0, <3>1, <3>2 DEF AmountsOK
  <2>8. CASE ReportRefused
    <3>1. /\ at = "mine" /\ at' = "sched" /\ acc' = acc + taken.motion /\ taken'.motion = 0
          /\ UNCHANGED <<moved, old, sent, dropped, clipped>>
      BY <2>8 DEF ReportRefused, event, NoReport
    <3> QED
      BY <1>0, <3>1 DEF AmountsOK
  <2> QED
    BY <1>3, <2>1, <2>2, <2>3, <2>4, <2>5, <2>6, <2>7, <2>8 DEF InputThread
<1>4. CASE retry_work_fn
  <2>1. /\ acc' = 0 /\ UNCHANGED <<at, moved, old, taken>>
        /\ dropped' = dropped + IF stamp = "stale" THEN acc ELSE 0
    BY <1>4 DEF retry_work_fn, thread, event
  <2>2. sent' \in Nat /\ clipped' \in Nat
    <3> DEFINE amount == IF acc # 0 /\ stamp = "fresh" THEN acc ELSE 0
    <3>1. \E numbers, excuse : Accepted(numbers, amount, excuse)
      BY <1>4 DEF retry_work_fn
    <3>2. amount \in Nat
      BY <1>0
    <3> HIDE DEF amount
    <3> QED
      BY <1>0, <3>1, <3>2, AcceptedAmount
  <2> QED
    BY <1>0, <2>1, <2>2, <1>7
<1>5. CASE esb_ip_resync_cb
  <2>1. UNCHANGED <<acc, at, moved, old, taken, dropped>>
    BY <1>5 DEF esb_ip_resync_cb, thread, event
  <2>2. UNCHANGED <<sent, clipped>>
    BY <1>0, <1>5, AcceptedNothing DEF esb_ip_resync_cb
  <2> QED
    BY <1>0, <2>1, <2>2, <1>7
<1>6. CASE \/ QuietChanges \/ PressureChanges \/ TransportClears \/ ReportLost
           \/ SessionChanges \/ MotionAges \/ UNCHANGED vars
  <2>1. UNCHANGED <<acc, at, moved, old, sent, dropped, clipped>>
    BY <1>6 DEF QuietChanges, PressureChanges, TransportClears, ReportLost, SessionChanges,
                MotionAges, vars, motion, thread, event
  <2>2. taken' = taken \/ taken' = [taken EXCEPT !.stamp = "stale"]
    BY <1>6 DEF QuietChanges, PressureChanges, TransportClears, ReportLost, SessionChanges,
                MotionAges, vars, thread
  <2>3. taken'.motion = taken.motion
    BY <2>2 DEF PointerTyped, FlagsOK
  <2> QED
    BY <1>0, <2>1, <2>3 DEF AmountsOK
<1> QED
  BY <1>1, <1>2, <1>3, <1>4, <1>5, <1>6 DEF Next

LEMMA ExcuseFlag == \A cause : Excuse(cause) => excused' \in BOOLEAN
  BY Zenon DEF Excuse

LEMMA EveryExcuse == PointerTyped /\ [Next]_vars => excused' \in BOOLEAN
<1> SUFFICES ASSUME PointerTyped, [Next]_vars
             PROVE  excused' \in BOOLEAN
  OBVIOUS
<1>0. excused \in BOOLEAN
  BY DEF PointerTyped, FlagsOK
<1>1. \/ excused' = excused
      \/ \E cause : Excuse(cause)
  <2>1. ASSUME NEW isSync \in BOOLEAN, MoveStamps(isSync)
        PROVE  excused' = excused
    BY <2>1 DEF MoveStamps, edges
  <2>2. CASE InputThread
    BY <2>2 DEF InputThread, MoveReads, MoveWrites, Deferred, DrainTakes, DrainSends,
                DrainReparks, EdgeParked, RetryScheduled, StaleDropped, ReportTaken,
                ReportSent, ReportRefused, edges
  <2>3. CASE Button \/ retry_work_fn \/ esb_ip_resync_cb
    BY <2>3 DEF Button, retry_work_fn, esb_ip_resync_cb
  <2>4. CASE \/ QuietChanges \/ PressureChanges \/ TransportClears \/ ReportLost
             \/ SessionChanges \/ MotionAges \/ UNCHANGED vars
    BY <2>4 DEF QuietChanges, PressureChanges, TransportClears, ReportLost, SessionChanges,
                MotionAges, vars, edges
  <2> QED
    BY <2>1, <2>2, <2>3, <2>4 DEF Next
<1> QED
  BY <1>0, <1>1, ExcuseFlag

LEMMA TakenStep == PointerTyped /\ [Next]_vars =>
  taken' \in [edge : 0..MaxEdges, motion : 0..MaxMoves, stamp : Stamps]
<1> SUFFICES ASSUME PointerTyped, [Next]_vars
             PROVE  taken' \in [edge : 0..MaxEdges, motion : 0..MaxMoves, stamp : Stamps]
  OBVIOUS
<1>0. /\ taken \in [edge : 0..MaxEdges, motion : 0..MaxMoves, stamp : Stamps]
      /\ edge \in 0..MaxEdges /\ acc \in 0..MaxMoves /\ stamp \in Stamps
      /\ MaxMoves \in Nat /\ MaxEdges \in Nat
  BY BoundsAreNat DEF PointerTyped, FlagsOK, NumbersOK, AmountsOK
<1>1. \/ taken' = taken \/ taken' = NoReport \/ taken' = [taken EXCEPT !.stamp = "stale"]
      \/ taken' = [edge |-> edge, motion |-> acc, stamp |-> stamp]
  BY DEF Next, MoveStamps, Button, InputThread, MoveReads, MoveWrites, Deferred, DrainTakes,
         DrainSends, DrainReparks, EdgeParked, RetryScheduled, StaleDropped, ReportTaken,
         ReportSent, ReportRefused, retry_work_fn, esb_ip_resync_cb, QuietChanges,
         PressureChanges, TransportClears, ReportLost, SessionChanges, MotionAges, vars, thread
<1> QED
  BY <1>0, <1>1 DEF NoReport, Stamps

LEMMA FaultsStep == PointerTyped /\ [Next]_vars => faults' \in 0..MaxFaults
<1> SUFFICES ASSUME PointerTyped, [Next]_vars
             PROVE  faults' \in 0..MaxFaults
  OBVIOUS
<1>0. faults \in 0..MaxFaults /\ MaxFaults \in Nat
  BY BoundsAreNat DEF PointerTyped, FlagsOK
<1>1. faults' = faults \/ (faults < MaxFaults /\ faults' = faults + 1)
  BY DEF Next, MoveStamps, Button, InputThread, MoveReads, MoveWrites, Deferred, DrainTakes,
         DrainSends, DrainReparks, EdgeParked, RetryScheduled, StaleDropped, ReportTaken,
         ReportSent, ReportRefused, retry_work_fn, esb_ip_resync_cb, QuietChanges,
         PressureChanges, TransportClears, ReportLost, SessionChanges, MotionAges, vars, env
<1> QED
  BY <1>0, <1>1

LEMMA StampStep == PointerTyped /\ [Next]_vars => stamp' \in Stamps
<1> SUFFICES ASSUME PointerTyped, [Next]_vars
             PROVE  stamp' \in Stamps
  OBVIOUS
<1>0. stamp \in Stamps /\ taken.stamp \in Stamps
  BY DEF PointerTyped, FlagsOK
<1>1. stamp' \in {stamp, taken.stamp, "none", "fresh", "stale"}
  BY DEF Next, MoveStamps, Button, InputThread, MoveReads, MoveWrites, Deferred, DrainTakes,
         DrainSends, DrainReparks, EdgeParked, RetryScheduled, StaleDropped, ReportTaken,
         ReportSent, ReportRefused, retry_work_fn, esb_ip_resync_cb, QuietChanges,
         PressureChanges, TransportClears, ReportLost, SessionChanges, MotionAges, vars, motion
<1> QED
  BY <1>0, <1>1 DEF Stamps

LEMMA AcceptedFlags ==
  ASSUME FlagsOK, NEW numbers, NEW amount, NEW excuse, Accepted(numbers, amount, excuse)
  PROVE  owed' \in BOOLEAN /\ skipped' \in BOOLEAN
<1>1. owed \in BOOLEAN /\ skipped \in BOOLEAN
  BY DEF FlagsOK
<1> QED
  BY <1>1, Zenon DEF Accepted

LEMMA FlagsStep == PointerTyped /\ [Next]_vars => FlagsOK'
<1> SUFFICES ASSUME PointerTyped, [Next]_vars
             PROVE  FlagsOK'
  OBVIOUS
<1>0. /\ FlagsOK
      /\ retry \in BOOLEAN /\ sync \in BOOLEAN /\ changed \in BOOLEAN /\ active \in BOOLEAN
      /\ quiet \in BOOLEAN /\ pressure \in BOOLEAN /\ resync \in BOOLEAN
      /\ owed \in BOOLEAN /\ skipped \in BOOLEAN /\ raced \in BOOLEAN
  BY DEF PointerTyped, FlagsOK
<1> DEFINE Flags ==
      /\ retry' \in BOOLEAN /\ sync' \in BOOLEAN /\ changed' \in BOOLEAN
      /\ active' \in BOOLEAN /\ quiet' \in BOOLEAN /\ pressure' \in BOOLEAN
      /\ resync' \in BOOLEAN /\ owed' \in BOOLEAN /\ skipped' \in BOOLEAN
      /\ raced' \in BOOLEAN
<1> SUFFICES Flags
  BY EveryExcuse, TakenStep, FaultsStep, StampStep DEF FlagsOK
<1>1. ASSUME NEW isSync \in BOOLEAN, MoveStamps(isSync)
      PROVE  Flags
  BY <1>0, <1>1, Zenon DEF MoveStamps, edges, view, env
<1>2. CASE Button
  BY <1>0, <1>2, Zenon DEF Button, env, motion
<1>3. CASE InputThread
  <2>1. CASE DrainSends \/ ReportSent
    <3>1. owed' \in BOOLEAN /\ skipped' \in BOOLEAN
      BY <1>0, <2>1, AcceptedFlags DEF DrainSends, ReportSent
    <3>2. UNCHANGED <<retry, sync, changed, active, quiet, pressure, resync, raced>>
      BY <2>1, Zenon DEF DrainSends, ReportSent, event, env
    <3> QED
      BY <1>0, <3>1, <3>2, Zenon
  <2>2. CASE \/ MoveReads \/ MoveWrites \/ Deferred \/ DrainTakes \/ DrainReparks
             \/ EdgeParked \/ RetryScheduled \/ StaleDropped \/ ReportTaken \/ ReportRefused
    <3>1. UNCHANGED <<sync, changed, active, quiet, pressure, resync, raced, owed, skipped>>
          /\ retry' \in {retry, TRUE}
      BY <2>2 DEF MoveReads, MoveWrites, Deferred, DrainTakes, DrainReparks, EdgeParked,
                  RetryScheduled, StaleDropped, ReportTaken, ReportRefused, event, env, view,
                  edges, motion
    <3>2. retry' \in BOOLEAN
      BY <1>0, <3>1, Zenon
    <3> QED
      BY <1>0, <3>1, <3>2, Zenon
  <2> QED
    BY <1>3, <2>1, <2>2 DEF InputThread
<1>4. CASE retry_work_fn
  <2>1. owed' \in BOOLEAN /\ skipped' \in BOOLEAN
    BY <1>0, <1>4, AcceptedFlags DEF retry_work_fn
  <2>2. /\ UNCHANGED <<sync, changed, active, quiet, pressure, resync>> /\ retry' = FALSE
        /\ raced' = (raced \/ at \in {"read", "write"})
    BY <1>4, Zenon DEF retry_work_fn, thread, event, env
  <2> QED
    BY <1>0, <2>1, <2>2, Zenon
<1>5. CASE esb_ip_resync_cb
  <2>1. /\ UNCHANGED <<sync, changed, active, quiet, pressure, raced>> /\ resync' = FALSE
    BY <1>5, Zenon DEF esb_ip_resync_cb, thread, event
  <2>2. CASE ~active
    <3>1. UNCHANGED <<retry, owed, skipped>>
      BY <1>5, <2>2 DEF esb_ip_resync_cb, view
    <3> QED
      BY <1>0, <2>1, <3>1, Zenon
  <2>3. CASE active /\ Defers
    <3>1. retry' = TRUE /\ UNCHANGED <<owed, skipped>>
      BY <1>5, <2>3 DEF esb_ip_resync_cb, view
    <3> QED
      BY <1>0, <2>1, <3>1, Zenon
  <2>4. CASE active /\ ~Defers
    <3>1. /\ UNCHANGED retry
          /\ Accepted(Append(pending, edge), 0, Overtaken(Append(pending, edge)))
      BY <1>5, <2>4 DEF esb_ip_resync_cb
    <3>2. owed' \in BOOLEAN /\ skipped' \in BOOLEAN
      BY <1>0, <3>1, AcceptedFlags
    <3> QED
      BY <1>0, <2>1, <3>1, <3>2, Zenon
  <2> QED
    BY <2>2, <2>3, <2>4
<1>6. CASE \/ QuietChanges \/ PressureChanges \/ TransportClears \/ ReportLost
           \/ SessionChanges \/ MotionAges \/ UNCHANGED vars
  <2>1. /\ UNCHANGED <<retry, sync, changed, skipped, raced>>
        /\ active' \in {active, ~active} /\ quiet' \in {quiet, ~quiet, FALSE}
        /\ pressure' \in {pressure, ~pressure, FALSE} /\ resync' \in {resync, TRUE}
        /\ owed' \in {owed, TRUE, FALSE}
    BY <1>6 DEF QuietChanges, PressureChanges, TransportClears, ReportLost, SessionChanges,
                MotionAges, vars, motion, thread, event, edges, view, env
  <2>2. \A b \in BOOLEAN : {b, ~b, TRUE, FALSE} \subseteq BOOLEAN
    OBVIOUS
  <2>3. active' \in BOOLEAN /\ quiet' \in BOOLEAN
    BY <1>0, <2>1, <2>2, Zenon
  <2>4. pressure' \in BOOLEAN /\ resync' \in BOOLEAN
    BY <1>0, <2>1, <2>2, Zenon
  <2>5. owed' \in BOOLEAN
    BY <1>0, <2>1, <2>2, Zenon
  <2>6. /\ retry' \in BOOLEAN /\ sync' \in BOOLEAN /\ changed' \in BOOLEAN
        /\ skipped' \in BOOLEAN /\ raced' \in BOOLEAN
    BY <1>0, <2>1, Zenon
  <2> QED
    BY <2>3, <2>4, <2>5, <2>6, Zenon
<1> QED
  BY <1>1, <1>2, <1>3, <1>4, <1>5, <1>6 DEF Next

LEMMA PointerTypedStep == PointerTyped /\ [Next]_vars => PointerTyped'
  BY NumbersStep, AmountsStep, FlagsStep DEF PointerTyped

(* The types of the state, the capacity of the ring of button edges, and that *)
(* no edge is shown, parked or in hand that was not made (d->buttons,         *)
(* pending_buttons, drain_pending_buttons).                                   *)
THEOREM PointerTypes == Spec => []PointerTypeOK
<1>1. PointerTyped => PointerTypeOK
  <2> SUFFICES ASSUME PointerTyped
               PROVE  PointerTypeOK
    OBVIOUS
  <2>1. ToSet(pending) \subseteq 0..edge /\ ToSet(hand) \subseteq 0..edge
    <3>1. \A i \in DOMAIN pending : pending[i] \in 0..edge
      BY LenProperties, ElementOfSeq DEF PointerTyped, NumbersOK
    <3>2. \A i \in DOMAIN hand : hand[i] \in 0..edge
      BY LenProperties, ElementOfSeq DEF PointerTyped, NumbersOK
    <3> QED
      BY <3>1, <3>2 DEF ToSet
  <2>2. /\ retry \in BOOLEAN /\ sync \in BOOLEAN /\ changed \in BOOLEAN /\ active \in BOOLEAN
        /\ quiet \in BOOLEAN /\ pressure \in BOOLEAN /\ resync \in BOOLEAN
        /\ owed \in BOOLEAN /\ excused \in BOOLEAN /\ skipped \in BOOLEAN /\ raced \in BOOLEAN
    BY DEF PointerTyped, FlagsOK
  <2>3. /\ {retry, sync, changed, active, quiet, pressure, resync} \subseteq BOOLEAN
        /\ {owed, excused, skipped, raced} \subseteq BOOLEAN
    BY <2>2, Zenon
  <2>4. {acc, old, moved, sent, dropped, clipped} \subseteq Nat
    BY BoundsAreNat DEF PointerTyped, AmountsOK
  <2> QED
    BY <2>1, <2>3, <2>4 DEF PointerTyped, PointerTypeOK, NumbersOK, AmountsOK, FlagsOK,
                            Stamps, Places
<1> QED
  BY <1>1, PointerTypedInit, PointerTypedStep, PTL DEF Spec

(***************************************************************************)
(* The line of edges that are on their way to the host                     *)
(***************************************************************************)

(* A chain that leads to edge e, or to the one before it if e is due. *)
LeadsTo(s, e, due) ==
  s \in Seq(Nat) /\ s # <<>> /\ Chain(s) /\ (Last(s) = e \/ (due /\ Last(s) + 1 = e))

LEMMA LeadsAppend ==
  ASSUME NEW s, NEW e \in Nat, NEW due, NEW later, LeadsTo(s, e, due)
  PROVE  LeadsTo(Append(s, e), e, later)
<1>1. s \in Seq(Nat) /\ s # <<>> /\ Len(s) \in Nat \ {0} /\ Last(s) \in Nat
  BY EmptySeq, ElementOfSeq DEF LeadsTo, Last
<1>2. e \in {Last(s), Last(s) + 1} /\ Chain(s)
  BY <1>1 DEF LeadsTo
<1>3. Chain(Append(s, e)) /\ Last(Append(s, e)) = e
  BY <1>1, <1>2, ChainAppend
<1>4. Append(s, e) \in Seq(Nat) /\ Len(Append(s, e)) = Len(s) + 1
  BY <1>1, AppendFacts
<1>5. Append(s, e) # <<>>
  BY <1>1, <1>4, EmptySeq
<1> QED
  BY <1>3, <1>4, <1>5 DEF LeadsTo

LEMMA LeadsTail ==
  ASSUME NEW s, NEW e \in Nat, NEW due, LeadsTo(s, e, due), Tail(s) # <<>>
  PROVE  LeadsTo(Tail(s), e, due)
  BY ChainTail DEF LeadsTo

LEMMA LeadsLast ==
  ASSUME NEW s, NEW e \in Nat, NEW due, LeadsTo(s, e, due)
  PROVE  Last(s) \in Nat /\ LeadsTo(<<Last(s)>>, e, due)
<1>1. Last(s) \in Nat
  BY EmptySeq, ElementOfSeq DEF LeadsTo, Last
<1> QED
  BY <1>1, OneChain DEF LeadsTo

LEMMA ChainPrefix ==
  ASSUME NEW s \in Seq(Nat), NEW t \in Seq(Nat), Chain(s \o t)
  PROVE  Chain(s)
<1>1. /\ Len(s) \in Nat /\ Len(t) \in Nat /\ Len(s \o t) = Len(s) + Len(t)
      /\ \A i \in 1..Len(s) + Len(t) :
           (s \o t)[i] = IF i <= Len(s) THEN s[i] ELSE t[i - Len(s)]
  BY ConcatProperties, LenProperties
<1> SUFFICES ASSUME NEW i \in 1..Len(s) - 1
             PROVE  s[i + 1] \in {s[i], s[i] + 1}
  BY DEF Chain
<1>2. /\ i \in 1..Len(s) + Len(t) /\ i + 1 \in 1..Len(s) + Len(t)
      /\ i <= Len(s) /\ i + 1 <= Len(s) /\ i \in 1..Len(s \o t) - 1
  BY <1>1
<1>3. (s \o t)[i] = s[i] /\ (s \o t)[i + 1] = s[i + 1]
  BY <1>1, <1>2
<1> QED
  BY <1>2, <1>3 DEF Chain

LEMMA OneAfter ==
  ASSUME NEW a \in Nat, NEW t \in Seq(Nat)
  PROVE  <<a>> \o t \in Seq(Nat) /\ <<a>> \o t # <<>> /\ Tail(<<a>> \o t) = t
<1>1. <<a>> \in Seq(Nat) /\ Len(<<a>>) = 1 /\ Len(t) \in Nat
  BY LenProperties
<1>2. /\ <<a>> \o t \in Seq(Nat) /\ Len(<<a>> \o t) = 1 + Len(t)
      /\ \A i \in 1..1 + Len(t) :
           (<<a>> \o t)[i] = IF i <= 1 THEN <<a>>[i] ELSE t[i - 1]
  BY <1>1, ConcatProperties
<1>3. <<a>> \o t # <<>>
  BY <1>1, <1>2, EmptySeq
<1>4. /\ Tail(<<a>> \o t) \in Seq(Nat) /\ Len(Tail(<<a>> \o t)) = Len(<<a>> \o t) - 1
      /\ \A i \in 1..Len(Tail(<<a>> \o t)) : Tail(<<a>> \o t)[i] = (<<a>> \o t)[i + 1]
  BY <1>2, <1>3, HeadTailProperties
<1>5. Len(Tail(<<a>> \o t)) = Len(t)
  BY <1>1, <1>2, <1>4
<1>6. \A i \in 1..Len(t) : Tail(<<a>> \o t)[i] = t[i]
  <2> TAKE i \in 1..Len(t)
  <2>1. i + 1 \in 1..1 + Len(t) /\ ~(i + 1 <= 1) /\ (i + 1) - 1 = i
    BY <1>1
  <2> QED
    BY <1>2, <1>4, <1>5, <2>1
<1>7. Tail(<<a>> \o t) = t
  BY <1>4, <1>5, <1>6, SeqEqual
<1> QED
  BY <1>2, <1>3, <1>7

(* The line is what the host shows, what is in hand and what is in the ring. *)
LineOf(a, h, p) == <<a>> \o h \o p

LEMMA LineFacts ==
  ASSUME NEW a \in Nat, NEW h \in Seq(Nat), NEW p \in Seq(Nat)
  PROVE  /\ LineOf(a, h, p) \in Seq(Nat) /\ LineOf(a, h, p) # <<>>
         /\ LineOf(a, h, p) = <<a>> \o (h \o p)
         /\ LineOf(a, <<>>, p) = <<a>> \o p /\ LineOf(a, h, <<>>) = <<a>> \o h
         /\ LineOf(a, <<>>, <<>>) = <<a>>
<1>1. <<a>> \in Seq(Nat) /\ <<>> \in Seq(Nat) /\ h \o p \in Seq(Nat) /\ <<a>> \o h \in Seq(Nat)
  BY EmptySeq, ConcatProperties, OneChain
<1>2. (<<a>> \o h) \o p = <<a>> \o (h \o p)
  BY <1>1, ConcatAssociative
<1>3. <<a>> \o <<>> = <<a>> /\ (<<a>> \o h) \o <<>> = <<a>> \o h
  BY <1>1, ConcatEmptySeq
<1>4. <<a>> \o (h \o p) \in Seq(Nat) /\ <<a>> \o (h \o p) # <<>>
  BY <1>1, OneAfter
<1> QED
  BY <1>2, <1>3, <1>4 DEF LineOf

LEMMA LineAppend ==
  ASSUME NEW a \in Nat, NEW h \in Seq(Nat), NEW p \in Seq(Nat), NEW e \in Nat
  PROVE  LineOf(a, h, Append(p, e)) = Append(LineOf(a, h, p), e)
<1>1. <<a>> \o h \in Seq(Nat) /\ <<e>> \in Seq(Nat) /\ (<<a>> \o h) \o p \in Seq(Nat)
  BY ConcatProperties, OneChain
<1>2. ((<<a>> \o h) \o p) \o <<e>> = (<<a>> \o h) \o (p \o <<e>>)
  BY <1>1, ConcatAssociative
<1>3. Append(p, e) = p \o <<e>> /\ Append((<<a>> \o h) \o p, e) = ((<<a>> \o h) \o p) \o <<e>>
  BY <1>1, AppendFacts
<1> QED
  BY <1>2, <1>3 DEF LineOf

(* The first in hand is shown: the line loses its first. *)
LEMMA LineShows ==
  ASSUME NEW a \in Nat, NEW h \in Seq(Nat), NEW p \in Seq(Nat), h # <<>>
  PROVE  /\ Head(h) \in Nat /\ Tail(h) \in Seq(Nat)
         /\ LineOf(Head(h), Tail(h), p) = Tail(LineOf(a, h, p))
         /\ <<Head(h)>> \o (Tail(h) \o p) \in Seq(Nat)
         /\ LineOf(a, h, p) = (<<a>> \o <<Head(h)>>) \o (Tail(h) \o p)
<1>1. Head(h) \in Nat /\ Tail(h) \in Seq(Nat) /\ h = <<Head(h)>> \o Tail(h)
  BY HeadTailProperties
<1>2. /\ <<Head(h)>> \in Seq(Nat) /\ <<a>> \in Seq(Nat) /\ Tail(h) \o p \in Seq(Nat)
      /\ h \o p \in Seq(Nat)
  BY <1>1, OneChain, ConcatProperties
<1>3. h \o p = <<Head(h)>> \o (Tail(h) \o p)
  BY <1>1, <1>2, ConcatAssociative
<1>4. LineOf(a, h, p) = <<a>> \o (h \o p)
  BY LineFacts
<1>5. Tail(<<a>> \o (h \o p)) = h \o p
  BY <1>2, OneAfter
<1>6. LineOf(Head(h), Tail(h), p) = <<Head(h)>> \o (Tail(h) \o p)
  BY <1>1, LineFacts
<1>7. <<a>> \o (<<Head(h)>> \o (Tail(h) \o p)) = (<<a>> \o <<Head(h)>>) \o (Tail(h) \o p)
  BY <1>2, ConcatAssociative
<1> QED
  BY <1>1, <1>2, <1>3, <1>4, <1>5, <1>6, <1>7

(* A chain may be shown with nothing skipped. *)
LEMMA NothingSkipped ==
  ASSUME NEW numbers \in Seq(Nat), NEW amount, NEW excuse, Accepted(numbers, amount, excuse),
         shown \in Nat, ~skipped, skipped \in BOOLEAN,
         ~excused /\ ~excuse => Chain(<<shown>> \o numbers)
  PROVE  ~skipped'
<1> DEFINE all == <<shown>> \o numbers
<1>1. /\ Len(numbers) \in Nat /\ DOMAIN numbers = 1..Len(numbers) /\ <<shown>> \in Seq(Nat)
      /\ Len(<<shown>>) = 1
  BY LenProperties, OneChain
<1>2. Len(all) = 1 + Len(numbers)
  BY <1>1, ConcatProperties
<1>3. skipped' = (skipped \/ (~excused /\ ~excuse /\ \E i \in DOMAIN numbers :
                               all[i + 1] \notin {all[i], all[i] + 1}))
  BY DEF Accepted
<1> HIDE DEF all
<1>4. 1..Len(all) - 1 = DOMAIN numbers
  BY <1>1, <1>2
<1>5. ~excused /\ ~excuse => Chain(all)
  BY DEF all
<1>6. ~excused /\ ~excuse => \A i \in DOMAIN numbers : all[i + 1] \in {all[i], all[i] + 1}
  BY <1>4, <1>5 DEF Chain
<1> QED
  BY <1>3, <1>6

(* The newest edge has been made, and the input thread has still to park or  *)
(* to send it.                                                               *)
Due == changed /\ at \in {"defer", "drain", "send", "park", "mine"}

Ordered == LeadsTo(LineOf(shown, hand, pending), edge, Due)
EdgeOrder == ~excused => Ordered

EdgeInv == PointerTyped /\ EdgeOrder /\ NoEdgeSkipped

LEMMA EdgesTyped ==
  ASSUME PointerTyped
  PROVE  /\ edge \in Nat /\ shown \in Nat /\ hand \in Seq(Nat) /\ pending \in Seq(Nat)
         /\ at \in Places /\ (hand # <<>> => at = "send") /\ (at = "mine" => taken.edge = edge)
         /\ at \in {"send", "mine"} => pending \in Seq({edge})
         /\ skipped \in BOOLEAN /\ excused \in BOOLEAN
<1>1. NumbersOK /\ FlagsOK /\ edge \in Nat
  BY BoundsAreNat DEF PointerTyped, NumbersOK
<1>2. 0..edge \subseteq Nat /\ hand \in Seq(0..edge) /\ pending \in Seq(0..edge)
  BY <1>1 DEF NumbersOK
<1>3. hand \in Seq(Nat) /\ pending \in Seq(Nat)
  BY <1>2, SeqMonotonic
<1> QED
  BY <1>1, <1>3 DEF NumbersOK, FlagsOK

LEMMA EdgesTypedNext ==
  ASSUME PointerTyped'
  PROVE  edge' \in Nat /\ shown' \in Nat
<1>1. MaxEdges \in Nat /\ edge' \in 0..MaxEdges /\ shown' \in 0..edge'
  BY BoundsAreNat DEF PointerTyped, NumbersOK
<1> QED
  BY <1>1

(* Once everything has been shown, everything is in order again. *)
LEMMA ExcuseEnds ==
  ASSUME PointerTyped', NEW cause, Excuse(cause), ~excused', ~excused /\ ~cause => Ordered'
  PROVE  Ordered'
<1>1. CASE ~excused /\ ~cause
  BY <1>1
<1>2. CASE ~(~excused /\ ~cause)
  <2>1. shown' = edge' /\ pending' = <<>> /\ hand' = <<>>
    BY <1>2 DEF Excuse
  <2>2. edge' \in Nat
    BY EdgesTypedNext
  <2>3. LineOf(edge', <<>>, <<>>) = <<edge'>>
    BY <2>2, EmptySeq, LineFacts
  <2>4. LeadsTo(<<edge'>>, edge', Due')
    BY <2>2, OneChain DEF LeadsTo
  <2> QED
    BY <2>1, <2>3, <2>4 DEF Ordered
<1> QED
  BY <1>1, <1>2

(* Steps that leave the line alone. *)
LEMMA OrderAside ==
  ASSUME EdgeOrder, ~excused, UNCHANGED <<shown, hand, pending, edge>>, Due => Due'
  PROVE  Ordered'
  BY DEF EdgeOrder, Ordered, LeadsTo

LEMMA OrderParked ==
  ASSUME PointerTyped, EdgeOrder, ~excused, ParkEdge, ~ParkLoses, hand = <<>>,
         UNCHANGED <<shown, hand, edge>>, at \in {"defer", "park", "mine"}
  PROVE  Ordered'
<1>1. /\ edge \in Nat /\ shown \in Nat /\ pending \in Seq(Nat) /\ <<>> \in Seq(Nat)
      /\ hand \in Seq(Nat) /\ Ordered
  BY EdgesTyped, EmptySeq DEF EdgeOrder
<1>2. CASE changed
  <2>1. Append(pending, edge) \in Seq(Nat) /\ ~Overflows(Append(pending, edge))
    BY <1>1, <1>2, AppendFacts DEF ParkLoses
  <2>2. pending' = Append(pending, edge)
    BY <1>2, <2>1, KeptFits DEF ParkEdge
  <2>3. LeadsTo(Append(LineOf(shown, hand, pending), edge), edge, Due')
    BY <1>1, LeadsAppend DEF Ordered
  <2>4. LineOf(shown, hand, Append(pending, edge)) = Append(LineOf(shown, hand, pending), edge)
    BY <1>1, LineAppend
  <2> QED
    BY <2>2, <2>3, <2>4 DEF Ordered
<1>3. CASE ~changed
  <2>1. ~Due /\ pending' = pending
    BY <1>3 DEF Due, ParkEdge
  <2> QED
    BY <1>1, <2>1 DEF Ordered, LeadsTo
<1> QED
  BY <1>2, <1>3

(* The work queue sends the whole line, with the newest edge or without. *)
LEMMA OrderFlushed ==
  ASSUME PointerTyped, Ordered, NEW numbers, numbers \in {pending, Append(pending, edge)},
         hand = <<>> \/ numbers = <<>>
  PROVE  /\ numbers \in Seq(Nat) /\ Chain(<<shown>> \o numbers)
         /\ LeadsTo(LineOf(Last(<<shown>> \o numbers), hand, <<>>), edge, Due)
<1>1. /\ edge \in Nat /\ shown \in Nat /\ pending \in Seq(Nat) /\ hand \in Seq(Nat)
      /\ <<>> \in Seq(Nat) /\ Append(pending, edge) \in Seq(Nat)
      /\ Append(pending, edge) # <<>>
  <2>1. edge \in Nat /\ shown \in Nat /\ pending \in Seq(Nat) /\ hand \in Seq(Nat)
    BY EdgesTyped
  <2>2. Append(pending, edge) \in Seq(Nat) /\ Len(Append(pending, edge)) = Len(pending) + 1
    BY <2>1, AppendFacts
  <2>3. Len(pending) \in Nat /\ Len(<<>>) = 0 /\ <<>> \in Seq(Nat)
    BY <2>1, LenProperties, EmptySeq
  <2> QED
    BY <2>1, <2>2, <2>3
<1>2. CASE numbers = <<>>
  <2>1. pending = <<>>
    BY <1>1, <1>2
  <2>2. <<shown>> \o numbers = <<shown>> /\ Last(<<shown>>) = shown /\ Chain(<<shown>>)
    BY <1>1, <1>2, OneChain, ConcatEmptySeq
  <2> QED
    BY <1>1, <1>2, <2>1, <2>2 DEF Ordered
<1>3. CASE hand = <<>> /\ numbers = pending
  <2>1. LineOf(shown, hand, pending) = <<shown>> \o numbers
    BY <1>1, <1>3, LineFacts
  <2>2. LeadsTo(<<shown>> \o numbers, edge, Due)
    BY <2>1 DEF Ordered
  <2>3. /\ Last(<<shown>> \o numbers) \in Nat
        /\ LeadsTo(<<Last(<<shown>> \o numbers)>>, edge, Due)
    BY <1>1, <2>2, LeadsLast
  <2>4. LineOf(Last(<<shown>> \o numbers), hand, <<>>) = <<Last(<<shown>> \o numbers)>>
    BY <1>1, <1>3, <2>3, LineFacts
  <2> QED
    BY <1>1, <1>3, <2>2, <2>3, <2>4 DEF LeadsTo
<1>4. CASE hand = <<>> /\ numbers = Append(pending, edge)
  <2>1. LineOf(shown, hand, numbers) = Append(LineOf(shown, hand, pending), edge)
    BY <1>1, <1>4, LineAppend
  <2>2. LineOf(shown, hand, numbers) = <<shown>> \o numbers
    BY <1>1, <1>4, LineFacts
  <2>3. LeadsTo(<<shown>> \o numbers, edge, Due)
    BY <1>1, <2>1, <2>2, LeadsAppend DEF Ordered
  <2>4. /\ Last(<<shown>> \o numbers) \in Nat
        /\ LeadsTo(<<Last(<<shown>> \o numbers)>>, edge, Due)
    BY <1>1, <2>3, LeadsLast
  <2>5. LineOf(Last(<<shown>> \o numbers), hand, <<>>) = <<Last(<<shown>> \o numbers)>>
    BY <1>1, <1>4, <2>4, LineFacts
  <2> QED
    BY <1>1, <1>4, <2>3, <2>4, <2>5 DEF LeadsTo
<1> QED
  BY <1>2, <1>3, <1>4

LEMMA RetryNumbers ==
  ASSUME PointerTyped, NEW numbers, NEW flushes \in BOOLEAN,
         numbers = pending \o IF flushes THEN <<edge>> ELSE <<>>
  PROVE  numbers \in {pending, Append(pending, edge)}
<1>1. edge \in Nat /\ pending \in Seq(Nat)
  BY EdgesTyped
<1>2. pending \o <<>> = pending /\ pending \o <<edge>> = Append(pending, edge)
  BY <1>1, ConcatEmptySeq, AppendFacts
<1> QED
  BY <1>2

LEMMA NotOvertaken ==
  ASSUME PointerTyped, NEW numbers, ~Overtaken(numbers)
  PROVE  hand = <<>> \/ numbers = <<>>
  BY DEF Overtaken

(* What the input thread sends next follows what the host shows. *)
LEMMA HandFollows ==
  ASSUME PointerTyped, Ordered, hand # <<>>
  PROVE  Chain(<<shown>> \o <<Head(hand)>>)
<1>1. /\ shown \in Nat /\ hand \in Seq(Nat) /\ pending \in Seq(Nat)
      /\ Chain(LineOf(shown, hand, pending))
  BY EdgesTyped DEF Ordered, LeadsTo
<1>2. /\ LineOf(shown, hand, pending) = (<<shown>> \o <<Head(hand)>>) \o (Tail(hand) \o pending)
      /\ Head(hand) \in Nat /\ Tail(hand) \in Seq(Nat)
  BY <1>1, LineShows
<1>3. <<shown>> \o <<Head(hand)>> \in Seq(Nat) /\ Tail(hand) \o pending \in Seq(Nat)
  BY <1>1, <1>2, ConcatProperties, OneChain
<1> QED
  BY <1>1, <1>2, <1>3, ChainPrefix

LEMMA ReportFollows ==
  ASSUME PointerTyped, Ordered, at = "mine"
  PROVE  Chain(<<shown>> \o <<edge>>)
<1>1. /\ shown \in Nat /\ hand = <<>> /\ pending \in Seq(Nat) /\ edge \in Nat
      /\ pending \in Seq({edge})
      /\ LeadsTo(LineOf(shown, hand, pending), edge, Due)
  BY EdgesTyped DEF Ordered
<1>2. LineOf(shown, hand, pending) = <<shown>> \o pending
  BY <1>1, LineFacts
<1>3. CASE pending = <<>>
  <2>1. <<shown>> \o pending = <<shown>> /\ Last(<<shown>>) = shown /\ <<shown>> \in Seq(Nat)
        /\ <<shown>> # <<>> /\ Chain(<<shown>>)
    BY <1>1, <1>3, OneChain, ConcatEmptySeq
  <2>2. Chain(Append(<<shown>>, edge))
    BY <1>1, <1>2, <2>1, ChainAppend DEF LeadsTo
  <2> QED
    BY <1>1, <2>1, <2>2, AppendFacts
<1>4. CASE pending # <<>>
  <2>1. /\ pending = <<Head(pending)>> \o Tail(pending) /\ Head(pending) \in {edge}
        /\ Tail(pending) \in Seq(Nat)
    BY <1>1, <1>4, HeadTailProperties
  <2>2. <<shown>> \in Seq(Nat) /\ <<edge>> \in Seq(Nat) /\ <<shown>> \o <<edge>> \in Seq(Nat)
    BY <1>1, OneChain, ConcatProperties
  <2>3. <<shown>> \o pending = (<<shown>> \o <<edge>>) \o Tail(pending)
    BY <2>1, <2>2, ConcatAssociative
  <2> QED
    BY <1>1, <1>2, <2>1, <2>2, <2>3, ChainPrefix DEF LeadsTo
<1> QED
  BY <1>3, <1>4

LEMMA LastOfTwo ==
  ASSUME NEW a \in Nat, NEW e \in Nat
  PROVE  Last(<<a>> \o <<e>>) = e
<1>1. <<a>> \in Seq(Nat)
  BY OneChain
<1>2. Last(Append(<<a>>, e)) = e
  BY <1>1, AppendFacts
<1>3. Append(<<a>>, e) = <<a>> \o <<e>>
  BY <1>1, AppendFacts
<1> QED
  BY <1>2, <1>3

LEMMA OrderEvent ==
  ASSUME PointerTyped, PointerTyped', EdgeOrder, ~excused',
         Button \/ \E isSync \in BOOLEAN : MoveStamps(isSync)
  PROVE  Ordered'
<1>1. CASE Button
  <2>1. /\ at = "idle" /\ edge' = edge + 1 /\ at' = "defer" /\ changed' = TRUE
        /\ UNCHANGED <<hand, pending, shown>> /\ Excuse(FALSE)
    BY <1>1 DEF Button
  <2>2. ASSUME ~excused
        PROVE  Ordered'
    <3>1. LeadsTo(LineOf(shown, hand, pending), edge, Due) /\ ~Due /\ Due' /\ edge \in Nat
      BY <2>1, <2>2, EdgesTyped DEF EdgeOrder, Ordered, Due
    <3> QED
      BY <2>1, <3>1 DEF LeadsTo, Ordered
  <2> QED
    BY <2>1, <2>2, ExcuseEnds
<1>2. CASE \E isSync \in BOOLEAN : MoveStamps(isSync)
  <2>1. at = "idle" /\ UNCHANGED <<shown, hand, pending, edge, excused>>
    BY <1>2 DEF MoveStamps, edges, view
  <2>2. ~Due
    BY <2>1 DEF Due
  <2> QED
    BY <2>1, <2>2, OrderAside
<1> QED
  BY <1>1, <1>2

LEMMA OrderThread ==
  ASSUME PointerTyped, PointerTyped', EdgeOrder, ~excused', InputThread
  PROVE  Ordered'
<1>0. /\ edge \in Nat /\ shown \in Nat /\ hand \in Seq(Nat) /\ pending \in Seq(Nat)
      /\ <<>> \in Seq(Nat)
      /\ (hand # <<>> => at = "send") /\ (at = "mine" => taken.edge = edge)
      /\ at \in {"send", "mine"} => pending \in Seq({edge})
  BY EdgesTyped, EmptySeq
<1>1. CASE MoveReads \/ ReportTaken
  <2>1. UNCHANGED <<shown, hand, pending, edge, excused>> /\ (Due => Due')
    BY <1>1 DEF MoveReads, ReportTaken, edges, view, event, Due
  <2> QED
    BY <2>1, OrderAside
<1>2. CASE MoveWrites \/ RetryScheduled \/ StaleDropped
  <2>1. UNCHANGED <<shown, hand, pending, edge>> /\ Excuse(FALSE) /\ ~Due
    BY <1>2 DEF MoveWrites, RetryScheduled, StaleDropped, view, Due
  <2> QED
    BY <2>1, OrderAside, ExcuseEnds
<1>3. CASE Deferred
  <2>1. /\ at = "defer" /\ UNCHANGED <<shown, hand, edge, changed>>
        /\ Excuse(Defers /\ ParkLoses)
    BY <1>3 DEF Deferred, view, event
  <2>2. ASSUME ~excused, ~(Defers /\ ParkLoses)
        PROVE  Ordered'
    <3>1. CASE Defers
      <4>1. ParkEdge /\ ~ParkLoses /\ hand = <<>>
        BY <1>0, <1>3, <2>1, <2>2, <3>1 DEF Deferred
      <4> QED
        BY <2>1, <2>2, <4>1, OrderParked
    <3>2. CASE ~Defers
      <4>1. pending' = pending /\ at' = "drain"
        BY <1>3, <3>2 DEF Deferred
      <4>2. Due => Due'
        BY <2>1, <4>1 DEF Due
      <4> QED
        BY <2>1, <2>2, <4>1, <4>2, OrderAside
    <3> QED
      BY <3>1, <3>2
  <2> QED
    BY <2>1, <2>2, ExcuseEnds
<1>4. CASE DrainTakes
  <2>1. /\ at = "drain" /\ at' = "send" /\ hand' = pending /\ pending' = <<>> /\ hand = <<>>
        /\ UNCHANGED <<edge, shown, excused, changed>>
    BY <1>0, <1>4 DEF DrainTakes, view, event
  <2>2. LineOf(shown, pending, <<>>) = LineOf(shown, <<>>, pending)
    <3>1. LineOf(shown, pending, <<>>) = <<shown>> \o pending
      BY <1>0, LineFacts
    <3>2. LineOf(shown, <<>>, pending) = <<shown>> \o pending
      BY <1>0, LineFacts
    <3> QED
      BY <3>1, <3>2
  <2>3. Due' = Due
    BY <2>1 DEF Due
  <2> QED
    BY <2>1, <2>2, <2>3 DEF EdgeOrder, Ordered
<1>5. CASE DrainSends
  <2>1. /\ hand # <<>> /\ hand' = Tail(hand) /\ Accepted(<<Head(hand)>>, 0, FALSE)
        /\ UNCHANGED <<edge, pending, at, changed>> /\ Excuse(FALSE)
    BY <1>5 DEF DrainSends, event
  <2>2. ASSUME ~excused
        PROVE  Ordered'
    <3>1. /\ LineOf(Head(hand), Tail(hand), pending) = Tail(LineOf(shown, hand, pending))
          /\ Head(hand) \in Nat /\ Tail(hand) \in Seq(Nat)
      BY <1>0, <2>1, LineShows
    <3>2. LineOf(Head(hand), Tail(hand), pending) # <<>>
      BY <1>0, <3>1, LineFacts
    <3>3. LeadsTo(LineOf(Head(hand), Tail(hand), pending), edge, Due)
      BY <1>0, <2>2, <3>1, <3>2, LeadsTail DEF EdgeOrder, Ordered
    <3>4. shown' = Head(hand)
      BY <1>0, <2>1, <3>1, LastOfTwo DEF Accepted
    <3>5. Due' = Due
      BY <2>1 DEF Due
    <3> QED
      BY <2>1, <3>3, <3>4, <3>5 DEF Ordered
  <2> QED
    BY <2>1, <2>2, ExcuseEnds
<1>6. CASE DrainReparks
  <2>1. /\ at = "send" /\ at' = "park" /\ hand' = <<>> /\ pending' = Kept(hand \o pending)
        /\ UNCHANGED <<edge, shown, changed>> /\ Excuse(Overflows(hand \o pending))
    BY <1>6 DEF DrainReparks, view, event
  <2>2. ASSUME ~excused, ~Overflows(hand \o pending)
        PROVE  Ordered'
    <3>1. hand \o pending \in Seq(Nat)
      BY <1>0, ConcatProperties
    <3>2. pending' = hand \o pending
      BY <2>1, <2>2, <3>1, KeptFits
    <3>3. LineOf(shown, <<>>, hand \o pending) = LineOf(shown, hand, pending)
      <4>1. LineOf(shown, <<>>, hand \o pending) = <<shown>> \o (hand \o pending)
        <5> DEFINE both == hand \o pending
        <5> HIDE DEF both
        <5>1. both \in Seq(Nat)
          BY <3>1 DEF both
        <5>2. LineOf(shown, <<>>, both) = <<shown>> \o both
          BY <1>0, <5>1, LineFacts
        <5> QED
          BY <5>2 DEF both
      <4>2. LineOf(shown, hand, pending) = <<shown>> \o (hand \o pending)
        BY <1>0, LineFacts
      <4> QED
        BY <4>1, <4>2
    <3>4. Due' = Due
      BY <2>1 DEF Due
    <3> QED
      BY <2>1, <2>2, <3>2, <3>3, <3>4 DEF EdgeOrder, Ordered
  <2> QED
    BY <2>1, <2>2, ExcuseEnds
<1>7. CASE EdgeParked \/ ReportRefused
  <2>1. /\ at \in {"park", "mine"} /\ hand = <<>> /\ ParkEdge /\ Excuse(ParkLoses)
        /\ UNCHANGED <<edge, shown, hand>>
    BY <1>0, <1>7 DEF EdgeParked, ReportRefused, view
  <2> QED
    BY <2>1, OrderParked, ExcuseEnds
<1>8. CASE ReportSent
  <2>1. /\ at = "mine" /\ hand = <<>> /\ Accepted(<<edge>>, taken.motion, FALSE)
        /\ UNCHANGED <<edge, pending, hand>> /\ pending \in Seq({edge})
    BY <1>0, <1>8 DEF ReportSent
  <2>2. shown' = edge
    BY <1>0, <2>1, LastOfTwo DEF Accepted
  <2>3. Chain(<<edge>> \o pending) /\ Last(<<edge>> \o pending) = edge
    BY <1>0, <2>1, ConstantChain
  <2>4. /\ LineOf(edge, <<>>, pending) = <<edge>> \o pending
        /\ LineOf(edge, <<>>, pending) \in Seq(Nat) /\ LineOf(edge, <<>>, pending) # <<>>
    BY <1>0, LineFacts
  <2> QED
    BY <2>1, <2>2, <2>3, <2>4 DEF Ordered, LeadsTo
<1> QED
  BY <1>1, <1>2, <1>3, <1>4, <1>5, <1>6, <1>7, <1>8 DEF InputThread

(* What the work queue shows while the input thread holds nothing older. *)
LEMMA OrderWorkQueue ==
  ASSUME PointerTyped, PointerTyped', EdgeOrder, ~excused',
         NEW numbers \in {pending, Append(pending, edge)}, NEW amount,
         Accepted(numbers, amount, Overtaken(numbers)), Excuse(Overtaken(numbers)),
         pending' = <<>>, UNCHANGED <<at, changed, hand, edge>>
  PROVE  Ordered'
<1>1. ASSUME ~excused, ~Overtaken(numbers)
      PROVE  Ordered'
  <2>1. Ordered /\ (hand = <<>> \/ numbers = <<>>)
    BY <1>1, NotOvertaken DEF EdgeOrder
  <2>2. LeadsTo(LineOf(Last(<<shown>> \o numbers), hand, <<>>), edge, Due)
    BY <2>1, OrderFlushed
  <2>3. shown' = Last(<<shown>> \o numbers) /\ Due' = Due
    BY DEF Accepted, Due
  <2> QED
    BY <2>2, <2>3 DEF Ordered
<1> QED
  BY <1>1, ExcuseEnds

LEMMA OrderRetry ==
  ASSUME PointerTyped, PointerTyped', EdgeOrder, ~excused', retry_work_fn
  PROVE  Ordered'
<1> DEFINE flushes == acc # 0 /\ stamp = "fresh"
           numbers == pending \o IF flushes THEN <<edge>> ELSE <<>>
           amount == IF flushes THEN acc ELSE 0
<1>1. /\ pending' = <<>> /\ Accepted(numbers, amount, Overtaken(numbers))
      /\ Excuse(Overtaken(numbers)) /\ UNCHANGED <<at, changed, hand, edge>>
  BY DEF retry_work_fn, thread, event
<1>2. flushes \in BOOLEAN
  OBVIOUS
<1>3. numbers \in {pending, Append(pending, edge)}
  <2> HIDE DEF flushes
  <2> QED
    BY <1>2, RetryNumbers
<1> HIDE DEF numbers, amount
<1> QED
  BY <1>1, <1>3, OrderWorkQueue

LEMMA OrderResync ==
  ASSUME PointerTyped, PointerTyped', EdgeOrder, ~excused', esb_ip_resync_cb
  PROVE  Ordered'
<1>0. /\ edge \in Nat /\ shown \in Nat /\ hand \in Seq(Nat) /\ pending \in Seq(Nat)
  BY EdgesTyped
<1>1. UNCHANGED <<at, changed, hand, edge>>
  BY DEF esb_ip_resync_cb, thread, event
<1>2. Due' = Due
  BY <1>1 DEF Due
<1>3. CASE ~active
  <2>1. UNCHANGED <<pending, shown>> /\ Excuse(FALSE)
    BY <1>3 DEF esb_ip_resync_cb, view
  <2> QED
    BY <1>1, <1>2, <2>1, OrderAside, ExcuseEnds
<1>4. CASE active /\ Defers
  <2>1. /\ pending' = Kept(Append(pending, edge)) /\ shown' = shown
    BY <1>4 DEF esb_ip_resync_cb, view
  <2>3. Excuse(Overflows(Append(pending, edge)))
    BY <1>4 DEF esb_ip_resync_cb, Excuse
  <2>2. ASSUME ~excused, ~Overflows(Append(pending, edge))
        PROVE  Ordered'
    <3>1. Append(pending, edge) \in Seq(Nat)
      BY <1>0, AppendFacts
    <3>2. pending' = Append(pending, edge)
      BY <2>1, <2>2, <3>1, KeptFits
    <3>3. LineOf(shown, hand, Append(pending, edge)) = Append(LineOf(shown, hand, pending), edge)
      BY <1>0, LineAppend
    <3>4. LeadsTo(Append(LineOf(shown, hand, pending), edge), edge, Due')
      BY <1>0, <2>2, LeadsAppend DEF EdgeOrder, Ordered
    <3> QED
      BY <1>1, <2>1, <3>2, <3>3, <3>4 DEF Ordered
  <2> QED
    BY <2>2, <2>3, ExcuseEnds
<1>5. CASE active /\ ~Defers
  <2>1. /\ pending' = <<>>
        /\ Accepted(Append(pending, edge), 0, Overtaken(Append(pending, edge)))
    BY <1>5 DEF esb_ip_resync_cb
  <2>2. Excuse(Overtaken(Append(pending, edge)))
    BY <1>5 DEF esb_ip_resync_cb, Excuse
  <2> QED
    BY <1>1, <2>1, <2>2, OrderWorkQueue
<1> QED
  BY <1>3, <1>4, <1>5

LEMMA OrderStep ==
  ASSUME PointerTyped, PointerTyped', EdgeOrder, [Next]_vars
  PROVE  EdgeOrder'
<1> SUFFICES ASSUME ~excused'
             PROVE  Ordered'
  BY DEF EdgeOrder
<1>1. CASE \/ QuietChanges \/ PressureChanges \/ TransportClears \/ ReportLost
           \/ SessionChanges \/ MotionAges \/ UNCHANGED vars
  <2>1. UNCHANGED <<shown, hand, pending, edge, at, changed, excused>>
    BY <1>1 DEF QuietChanges, PressureChanges, TransportClears, ReportLost, SessionChanges,
                MotionAges, vars, thread, event, edges, view
  <2>2. Due => Due'
    BY <2>1 DEF Due
  <2> QED
    BY <2>1, <2>2, OrderAside
<1> QED
  BY <1>1, OrderEvent, OrderThread, OrderRetry, OrderResync DEF Next

LEMMA SkipStep ==
  ASSUME EdgeInv, [Next]_vars
  PROVE  ~skipped'
<1>0. /\ PointerTyped /\ EdgeOrder /\ ~skipped /\ skipped \in BOOLEAN
      /\ edge \in Nat /\ shown \in Nat /\ hand \in Seq(Nat) /\ pending \in Seq(Nat)
      /\ at = "mine" => taken.edge = edge
  BY EdgesTyped DEF EdgeInv, NoEdgeSkipped
(* The work queue, as in OrderWorkQueue. *)
<1>8. ASSUME NEW numbers \in {pending, Append(pending, edge)}, NEW amount,
             Accepted(numbers, amount, Overtaken(numbers))
      PROVE  ~skipped'
  <2>1. numbers \in Seq(Nat)
    BY <1>0, AppendFacts
  <2>2. ASSUME ~excused, ~Overtaken(numbers)
        PROVE  Chain(<<shown>> \o numbers)
    <3>1. Ordered /\ (hand = <<>> \/ numbers = <<>>)
      BY <1>0, <2>2, NotOvertaken DEF EdgeOrder
    <3> QED
      BY <1>0, <3>1, OrderFlushed
  <2> QED
    BY <1>0, <1>8, <2>1, <2>2, NothingSkipped
<1>1. CASE DrainSends
  <2>1. hand # <<>> /\ Accepted(<<Head(hand)>>, 0, FALSE)
    BY <1>1 DEF DrainSends
  <2>2. <<Head(hand)>> \in Seq(Nat)
    BY <1>0, <2>1, LineShows, OneChain
  <2>3. ~excused => Chain(<<shown>> \o <<Head(hand)>>)
    BY <1>0, <2>1, HandFollows DEF EdgeOrder
  <2> QED
    BY <1>0, <2>1, <2>2, <2>3, NothingSkipped
<1>2. CASE ReportSent
  <2>1. at = "mine" /\ Accepted(<<edge>>, taken.motion, FALSE)
    BY <1>0, <1>2 DEF ReportSent
  <2>2. <<edge>> \in Seq(Nat)
    BY <1>0, OneChain
  <2>3. ~excused => Chain(<<shown>> \o <<edge>>)
    BY <1>0, <2>1, ReportFollows DEF EdgeOrder
  <2> QED
    BY <1>0, <2>1, <2>2, <2>3, NothingSkipped
<1>3. CASE retry_work_fn
  <2> DEFINE flushes == acc # 0 /\ stamp = "fresh"
             numbers == pending \o IF flushes THEN <<edge>> ELSE <<>>
             amount == IF flushes THEN acc ELSE 0
  <2>1. Accepted(numbers, amount, Overtaken(numbers))
    BY <1>3 DEF retry_work_fn
  <2>2. flushes \in BOOLEAN
    OBVIOUS
  <2>3. numbers \in {pending, Append(pending, edge)}
    <3> HIDE DEF flushes
    <3> QED
      BY <1>0, <2>2, RetryNumbers
  <2> HIDE DEF numbers, amount
  <2> QED
    BY <2>1, <2>3, <1>8
<1>4. CASE esb_ip_resync_cb
  <2>1. CASE active /\ ~Defers
    <3>1. Accepted(Append(pending, edge), 0, Overtaken(Append(pending, edge)))
      BY <1>4, <2>1 DEF esb_ip_resync_cb
    <3> QED
      BY <3>1, <1>8
  <2>2. CASE ~(active /\ ~Defers)
    BY <1>0, <1>4, <2>2 DEF esb_ip_resync_cb, view
  <2> QED
    BY <2>1, <2>2
<1>5. CASE \E isSync \in BOOLEAN : MoveStamps(isSync)
  BY <1>0, <1>5 DEF MoveStamps, edges, view
<1>6. CASE \/ Button \/ MoveReads \/ MoveWrites \/ Deferred \/ DrainTakes \/ DrainReparks
           \/ EdgeParked \/ RetryScheduled \/ StaleDropped \/ ReportTaken \/ ReportRefused
  BY <1>0, <1>6 DEF Button, MoveReads, MoveWrites, Deferred, DrainTakes, DrainReparks,
                    EdgeParked, RetryScheduled, StaleDropped, ReportTaken, ReportRefused,
                    edges, view
<1>7. CASE \/ QuietChanges \/ PressureChanges \/ TransportClears \/ ReportLost
           \/ SessionChanges \/ MotionAges \/ UNCHANGED vars
  BY <1>0, <1>7 DEF QuietChanges, PressureChanges, TransportClears, ReportLost,
                    SessionChanges, MotionAges, vars, edges, view
<1> QED
  BY <1>1, <1>2, <1>3, <1>4, <1>5, <1>6, <1>7 DEF Next, InputThread

LEMMA EdgeInvInit == Init => EdgeInv
<1> SUFFICES ASSUME Init
             PROVE  EdgeInv
  OBVIOUS
<1>1. PointerTyped
  BY PointerTypedInit
<1>2. skipped = FALSE /\ shown = 0 /\ hand = <<>> /\ pending = <<>> /\ edge = 0
  BY DEF Init
<1>3. LineOf(0, <<>>, <<>>) = <<0>>
  BY EmptySeq, LineFacts
<1>4. LeadsTo(<<0>>, 0, Due)
  BY OneChain DEF LeadsTo
<1>5. Ordered
  BY <1>2, <1>3, <1>4 DEF Ordered
<1> QED
  BY <1>1, <1>2, <1>5 DEF EdgeInv, EdgeOrder, NoEdgeSkipped

LEMMA EdgeInvStep == EdgeInv /\ [Next]_vars => EdgeInv'
<1> SUFFICES ASSUME EdgeInv, [Next]_vars
             PROVE  EdgeInv'
  OBVIOUS
<1>1. PointerTyped /\ EdgeOrder
  BY DEF EdgeInv
<1>2. PointerTyped'
  BY <1>1, PointerTypedStep
<1>3. EdgeOrder'
  BY <1>1, <1>2, OrderStep
<1>4. NoEdgeSkipped'
  BY SkipStep DEF NoEdgeSkipped
<1> QED
  BY <1>2, <1>3, <1>4 DEF EdgeInv

(* The host sees every press and release in its order and none is skipped,    *)
(* whatever the input thread, the retry and the resync do to the ring, except *)
(* where a ring overflowed or the work queue overtook the input thread        *)
(* (send_mouse_report, drain_pending_buttons, retry_work_fn,                  *)
(* esb_ip_resync_cb).                                                         *)
THEOREM EdgesShownInOrder == Spec => []NoEdgeSkipped
<1>1. EdgeInv => NoEdgeSkipped
  BY DEF EdgeInv
<1> QED
  BY <1>1, EdgeInvInit, EdgeInvStep, PTL DEF Spec
=============================================================================
