-------------------------- MODULE OffendersProofs --------------------------
(***************************************************************************)
(* Theorems about Offenders, for any set of channels, any sizes and any    *)
(* decay period.                                                           *)
(*                                                                         *)
(* The lists the code sorts are described by ranks: first what ranks are,  *)
(* then what each operation makes of a table, then the steps.              *)
(***************************************************************************)
EXTENDS Offenders, FiniteSetTheorems, SequenceTheorems, TLAPS

-----------------------------------------------------------------------------
(* Ranks.  A strict total order on a finite set is given by who comes before *)
(* each element; the ranks 0, 1, ... are then taken exactly once.           *)

LEMMA UpTo ==
  ASSUME NEW n \in Nat
  PROVE  IsFiniteSet(1..n) /\ Cardinality(1..n) = n
<1>1. /\ IsFiniteSet(1..n)
      /\ Cardinality(1..n) = IF 1 > n THEN 0 ELSE n - 1 + 1
  BY FS_Interval
<1> QED
  BY <1>1

IsOrder(P, before) ==
  /\ IsFiniteSet(P) /\ before \in [P -> SUBSET P]
  /\ \A i \in P : i \notin before[i]
  /\ \A i, j \in P : i # j => i \in before[j] \/ j \in before[i]
  /\ \A i, j \in P : i \in before[j] => before[i] \subseteq before[j]

LEMMA RankGrows ==
  ASSUME NEW P, NEW before, IsOrder(P, before)
  PROVE  /\ \A i \in P : Cardinality(before[i]) \in 0..Cardinality(P) - 1
         /\ \A i, j \in P : i \in before[j] =>
              Cardinality(before[i]) < Cardinality(before[j])
         /\ Cardinality(P) \in Nat
<1>1. \A i \in P : IsFiniteSet(before[i]) /\ before[i] \subseteq P
  BY FS_Subset DEF IsOrder
<1>2. Cardinality(P) \in Nat /\ \A i \in P : Cardinality(before[i]) \in Nat
  BY <1>1, FS_CardinalityType DEF IsOrder
<1>3. ASSUME NEW i \in P PROVE Cardinality(before[i]) < Cardinality(P)
  <2>1. before[i] # P
    BY DEF IsOrder
  <2>2. /\ Cardinality(before[i]) <= Cardinality(P)
        /\ Cardinality(P) = Cardinality(before[i]) => P = before[i]
    BY <1>1, FS_Subset DEF IsOrder
  <2> QED
    BY <1>2, <2>1, <2>2
<1>4. ASSUME NEW i \in P, NEW j \in P, i \in before[j]
      PROVE  Cardinality(before[i]) < Cardinality(before[j])
  <2>1. before[i] \subseteq before[j] /\ before[i] # before[j]
    BY <1>4 DEF IsOrder
  <2>2. /\ Cardinality(before[i]) <= Cardinality(before[j])
        /\ Cardinality(before[j]) = Cardinality(before[i]) => before[j] = before[i]
    BY <1>1, <2>1, FS_Subset
  <2> QED
    BY <1>2, <2>1, <2>2
<1> QED
  BY <1>2, <1>3, <1>4

LEMMA RankOnce ==
  ASSUME NEW P, NEW before, IsOrder(P, before), NEW i \in P, NEW j \in P,
         Cardinality(before[i]) = Cardinality(before[j])
  PROVE  i = j
<1>1. Cardinality(before[i]) \in Nat /\ Cardinality(before[j]) \in Nat
  BY RankGrows
<1>2. CASE i # j
  <2>1. i \in before[j] \/ j \in before[i]
    BY <1>2 DEF IsOrder
  <2>2. \/ Cardinality(before[i]) < Cardinality(before[j])
        \/ Cardinality(before[j]) < Cardinality(before[i])
    BY <2>1, RankGrows
  <2> QED
    BY <1>1, <2>2
<1> QED
  BY <1>2

LEMMA RankTaken ==
  ASSUME NEW P, NEW before, IsOrder(P, before), NEW n \in 0..Cardinality(P) - 1
  PROVE  \E i \in P : Cardinality(before[i]) = n
<1> DEFINE k == Cardinality(P)
           ranks == [i \in P |-> Cardinality(before[i])]
<1>1. k \in Nat /\ IsFiniteSet(P)
  BY RankGrows DEF IsOrder
<1>2. ranks \in [P -> 0..k - 1]
  BY RankGrows
<1>3. ASSUME NEW i \in P, NEW j \in P, ranks[i] = ranks[j] PROVE i = j
  BY <1>3, RankOnce
<1>4. ranks \in Injection(P, 0..k - 1)
  BY <1>2, <1>3 DEF Injection, IsInjective
<1>5. IsFiniteSet(0..k - 1) /\ Cardinality(0..k - 1) = k
  BY <1>1, FS_Interval
<1> HIDE DEF ranks
<1>6. ranks \in Surjection(P, 0..k - 1)
  BY <1>4, <1>5, FS_Injection
<1> USE DEF ranks
<1> QED
  BY <1>6 DEF Surjection

-----------------------------------------------------------------------------
(* What a list is, and what becomes of a table *)

(* No channel is twice in a table. *)
Tables == {t \in Seq(Hits) :
             \A i, j \in DOMAIN t : t[i].channel = t[j].channel => i = j}

(* A list is what persist_rebuild_avoided makes: not too long, of channels   *)
(* hit often, the worst first.                                               *)
Lists == {t \in Tables :
            /\ Len(t) <= SIZE
            /\ \A i \in DOMAIN t : t[i].hits >= THRESHOLD
            /\ \A i, j \in DOMAIN t : i < j => t[i].hits >= t[j].hits}

(* The n-th in an order. *)
At(before, n) == CHOOSE i \in DOMAIN before : Cardinality(before[i]) = n - 1

LEMMA AtFacts ==
  ASSUME NEW P, NEW before, IsOrder(P, before), NEW n \in 1..Cardinality(P)
  PROVE  At(before, n) \in P /\ Cardinality(before[At(before, n)]) = n - 1
<1>1. Cardinality(P) \in Nat
  BY RankGrows
<1>2. n - 1 \in 0..Cardinality(P) - 1 /\ DOMAIN before = P
  BY <1>1 DEF IsOrder
<1>3. \E i \in DOMAIN before : Cardinality(before[i]) = n - 1
  BY <1>2, RankTaken
<1> QED
  BY <1>2, <1>3 DEF At

(* Two entries in order: the order has the first of them before the second.  *)
LEMMA AtOrdered ==
  ASSUME NEW P, NEW before, IsOrder(P, before),
         NEW n \in 1..Cardinality(P), NEW m \in 1..Cardinality(P), n < m
  PROVE  At(before, n) \in before[At(before, m)]
<1>1. Cardinality(P) \in Nat
  BY RankGrows
<1>2. /\ At(before, n) \in P /\ Cardinality(before[At(before, n)]) = n - 1
      /\ At(before, m) \in P /\ Cardinality(before[At(before, m)]) = m - 1
  BY AtFacts
<1>3. ~(At(before, m) \in before[At(before, n)])
  BY <1>1, <1>2, RankGrows
<1>4. At(before, n) # At(before, m)
  BY <1>1, <1>2
<1> QED
  BY <1>2, <1>3, <1>4 DEF IsOrder

Placed(t, before) ==
  [n \in 1..Cardinality(DOMAIN before) |-> t[At(before, n)]]

(* Who has as many before it as the n-th is the n-th.                        *)
LEMMA AtUnique ==
  ASSUME NEW P, NEW before, IsOrder(P, before), NEW n \in 1..Cardinality(P),
         NEW i \in P, Cardinality(before[i]) = n - 1
  PROVE  i = At(before, n)
<1>1. At(before, n) \in P /\ Cardinality(before[At(before, n)]) = n - 1
  BY AtFacts
<1> QED
  BY <1>1, RankOnce

(* Entries put in an order are a table again, no longer than the one they    *)
(* come from.                                                                *)
LEMMA PlacedTable ==
  ASSUME NEW t \in Tables, NEW P \in SUBSET DOMAIN t, NEW before, IsOrder(P, before)
  PROVE  /\ Placed(t, before) \in Tables
         /\ DOMAIN Placed(t, before) = 1..Cardinality(P)
         /\ \A n \in 1..Cardinality(P) :
              Placed(t, before)[n] = t[At(before, n)] /\ At(before, n) \in P
         /\ Cardinality(P) <= Len(t) /\ Cardinality(P) \in Nat
<1> DEFINE s == Placed(t, before)
<1>1. t \in Seq(Hits) /\ DOMAIN t = 1..Len(t) /\ Len(t) \in Nat
  BY DEF Tables
<1>2. IsFiniteSet(DOMAIN t) /\ Cardinality(DOMAIN t) = Len(t)
  <2>1. IsFiniteSet(1..Len(t)) /\ Cardinality(1..Len(t)) = Len(t)
    BY <1>1, UpTo
  <2> QED
    BY <1>1, <2>1
<1>3. Cardinality(P) <= Len(t) /\ Cardinality(P) \in Nat
  BY <1>2, FS_Subset, RankGrows
<1>4. s = [n \in 1..Cardinality(P) |-> t[At(before, n)]]
  BY DEF Placed, IsOrder
<1>5. \A n \in 1..Cardinality(P) : At(before, n) \in P /\ t[At(before, n)] \in Hits
  BY <1>1, AtFacts
<1>6. s \in Seq(Hits)
  <2>1. s \in [1..Cardinality(P) -> Hits]
    BY <1>4, <1>5
  <2> QED
    BY <1>3, <2>1, SeqDef
<1>7. ASSUME NEW n \in 1..Cardinality(P), NEW m \in 1..Cardinality(P),
             s[n].channel = s[m].channel
      PROVE  n = m
  <2>1. t[At(before, n)].channel = t[At(before, m)].channel
    BY <1>4, <1>7
  <2>2. At(before, n) = At(before, m)
    BY <1>5, <2>1 DEF Tables
  <2>3. n - 1 = m - 1
    BY <2>2, AtFacts
  <2> QED
    BY <2>3
<1>8. s \in Tables
  BY <1>4, <1>6, <1>7 DEF Tables
<1> QED
  BY <1>3, <1>4, <1>5, <1>8

(* In the order of the table. *)
Forth(P) == [i \in P |-> {j \in P : j < i}]

LEMMA ForthIsOrder ==
  ASSUME NEW t, t \in Seq(Hits), NEW P \in SUBSET DOMAIN t
  PROVE  IsOrder(P, Forth(P))
<1>1. t \in Seq(Hits) /\ DOMAIN t = 1..Len(t) /\ Len(t) \in Nat
  OBVIOUS
<1>2. IsFiniteSet(P)
  <2>1. IsFiniteSet(1..Len(t))
    BY <1>1, FS_Interval
  <2> QED
    BY <1>1, <2>1, FS_Subset
<1>3. P \subseteq Nat
  BY <1>1
<1> QED
  BY <1>2, <1>3 DEF IsOrder, Forth

LEMMA PickedIs ==
  ASSUME NEW t, t \in Seq(Hits), NEW P \in SUBSET DOMAIN t
  PROVE  Picked(t, P) = [n \in 1..Cardinality(P) |-> t[At(Forth(P), n)]]
<1>1. IsOrder(P, Forth(P))
  BY ForthIsOrder
<1> DEFINE Nth(n) == CHOOSE i \in P : Cardinality({j \in P : j < i}) = n - 1
<1>2. \A i \in P : Forth(P)[i] = {j \in P : j < i}
  BY DEF Forth
<1>3. ASSUME NEW n \in 1..Cardinality(P) PROVE Nth(n) = At(Forth(P), n)
  <2>1. At(Forth(P), n) \in P /\ Cardinality(Forth(P)[At(Forth(P), n)]) = n - 1
    BY <1>1, AtFacts
  <2>2. \E i \in P : Cardinality({j \in P : j < i}) = n - 1
    BY <1>2, <2>1
  <2>3. Nth(n) \in P /\ Cardinality({j \in P : j < Nth(n)}) = n - 1
    BY <2>2
  <2> HIDE DEF Nth
  <2>4. Cardinality(Forth(P)[Nth(n)]) = n - 1
    BY <1>2, <2>3
  <2> QED
    BY <1>1, <2>3, <2>4, AtUnique
<1>4. Picked(t, P) = [n \in 1..Cardinality(P) |-> t[Nth(n)]]
  BY DEF Picked
<1> HIDE DEF Nth
<1> QED
  BY <1>3, <1>4

LEMMA PickedTable ==
  ASSUME NEW t \in Tables, NEW P \in SUBSET DOMAIN t
  PROVE  /\ Picked(t, P) \in Tables
         /\ DOMAIN Picked(t, P) = 1..Cardinality(P)
         /\ \A n \in 1..Cardinality(P) :
              Picked(t, P)[n] = t[At(Forth(P), n)] /\ At(Forth(P), n) \in P
         /\ Cardinality(P) <= Len(t) /\ Cardinality(P) \in Nat
<1>1. IsOrder(P, Forth(P))
  BY ForthIsOrder DEF Tables
<1>2. Picked(t, P) = Placed(t, Forth(P))
  BY PickedIs DEF Placed, Forth, Tables
<1> QED
  BY <1>1, <1>2, PlacedTable

(* The worst first, the earlier among equals. *)
Worst(t, P) == [i \in P |-> {j \in P :
                  t[j].hits > t[i].hits \/ (t[j].hits = t[i].hits /\ j < i)}]

LEMMA WorstIsOrder ==
  ASSUME NEW t, t \in Seq(Hits), NEW P \in SUBSET DOMAIN t
  PROVE  IsOrder(P, Worst(t, P))
<1>1. t \in Seq(Hits) /\ DOMAIN t = 1..Len(t) /\ Len(t) \in Nat
  OBVIOUS
<1>2. IsFiniteSet(P)
  <2>1. IsFiniteSet(1..Len(t))
    BY <1>1, FS_Interval
  <2> QED
    BY <1>1, <2>1, FS_Subset
<1>3. P \subseteq Nat /\ \A i \in P : t[i] \in Hits
  BY <1>1
<1>4. \A i \in P : t[i].hits \in Nat
  BY <1>3, OffendersAssumption DEF Hits, OffendersAssumption
<1> QED
  BY <1>2, <1>3, <1>4 DEF IsOrder, Worst

(* The fewest hits, the earlier among equals. *)
Fewest(t, P) == [i \in P |-> {j \in P :
                  t[j].hits < t[i].hits \/ (t[j].hits = t[i].hits /\ j < i)}]

LEMMA FewestIsOrder ==
  ASSUME NEW t, t \in Seq(Hits), NEW P \in SUBSET DOMAIN t
  PROVE  IsOrder(P, Fewest(t, P))
<1>1. t \in Seq(Hits) /\ DOMAIN t = 1..Len(t) /\ Len(t) \in Nat
  OBVIOUS
<1>2. IsFiniteSet(P)
  <2>1. IsFiniteSet(1..Len(t))
    BY <1>1, FS_Interval
  <2> QED
    BY <1>1, <2>1, FS_Subset
<1>3. P \subseteq Nat /\ \A i \in P : t[i] \in Hits
  BY <1>1
<1>4. \A i \in P : t[i].hits \in Nat
  BY <1>3, OffendersAssumption DEF Hits, OffendersAssumption
<1> QED
  BY <1>2, <1>3, <1>4 DEF IsOrder, Fewest

(* persist_decay_apply keeps a table a table. *)
LEMMA AgedTable ==
  ASSUME NEW t \in Tables, NEW periods \in Nat
  PROVE  Aged(t, periods) \in Tables /\ Len(Aged(t, periods)) <= Len(t)
<1> DEFINE P == {i \in DOMAIN t : t[i].hits > periods}
           kept == Picked(t, P)
           aged == [i \in DOMAIN kept |-> [kept[i] EXCEPT !.hits = @ - periods]]
<1>1. /\ kept \in Tables /\ DOMAIN kept = 1..Cardinality(P)
      /\ \A n \in 1..Cardinality(P) : kept[n] = t[At(Forth(P), n)] /\ At(Forth(P), n) \in P
      /\ Cardinality(P) <= Len(t) /\ Cardinality(P) \in Nat
  BY PickedTable
<1>2. Aged(t, periods) = aged
  BY DEF Aged
<1>3. kept \in Seq(Hits) /\ Len(kept) = Cardinality(P)
  BY <1>1 DEF Tables
<1>4. ASSUME NEW n \in 1..Cardinality(P) PROVE kept[n] \in Hits /\ kept[n].hits > periods
  BY <1>1, <1>3
<1> HIDE DEF P, kept
<1>5. ASSUME NEW n \in 1..Cardinality(P)
      PROVE  aged[n] \in Hits /\ aged[n].channel = kept[n].channel
  BY <1>1, <1>4, OffendersAssumption DEF Hits, OffendersAssumption
<1>6. aged \in [1..Cardinality(P) -> Hits]
  BY <1>1, <1>5
<1>7. aged \in Seq(Hits) /\ DOMAIN aged = 1..Cardinality(P)
  BY <1>1, <1>6, SeqDef
<1>8. Len(aged) = Cardinality(P)
  BY <1>1, <1>7, LenProperties
<1>9. \A i, j \in DOMAIN aged : aged[i].channel = aged[j].channel => i = j
  BY <1>1, <1>5, <1>7 DEF Tables
<1> HIDE DEF aged
<1> QED
  BY <1>1, <1>2, <1>7, <1>8, <1>9 DEF Tables

(* persist_rebuild_avoided makes a list of any table, and the rendezvous     *)
(* channel is not on it.                                                     *)
Promoted(t, except) ==
  {i \in DOMAIN t : t[i].hits >= THRESHOLD /\ t[i].channel # except}

LEMMA DistilledShape ==
  ASSUME NEW t \in Tables, NEW except
  PROVE  \E n \in Nat :
           /\ n <= SIZE /\ n <= Cardinality(Promoted(t, except))
           /\ n = SIZE \/ n = Cardinality(Promoted(t, except))
           /\ Distilled(t, except) =
                [k \in 1..n |-> t[At(Worst(t, Promoted(t, except)), k)]]
<1> DEFINE P == Promoted(t, except)
           B == Worst(t, P)
           card == Cardinality(P)
           n == IF card <= SIZE THEN card ELSE SIZE
<1>1. IsOrder(P, B)
  BY WorstIsOrder DEF Tables, Promoted
<1>2. card \in Nat
  <2> HIDE DEF P, B
  <2> QED
    BY <1>1, RankGrows
<1>3. SIZE \in Nat
  BY OffendersAssumption DEF OffendersAssumption
<1>4. /\ n \in Nat /\ n <= SIZE /\ n <= card /\ (n = SIZE \/ n = card)
      /\ n = IF card < SIZE THEN card ELSE SIZE
  BY <1>2, <1>3
<1> DEFINE Worse(i) == {j \in P : t[j].hits > t[i].hits
                                  \/ (t[j].hits = t[i].hits /\ j < i)}
           Nth(k) == CHOOSE i \in P : Cardinality(Worse(i)) = k - 1
<1>5. \A i \in P : B[i] = Worse(i)
  BY DEF Worst
<1>6. Distilled(t, except) = [k \in 1..n |-> t[Nth(k)]]
  <2>1. Distilled(t, except) =
          [k \in 1..(IF card < SIZE THEN card ELSE SIZE) |-> t[Nth(k)]]
    BY DEF Distilled, Promoted
  <2> HIDE DEF n, Nth
  <2> QED
    BY <1>4, <2>1
<1> HIDE DEF P, B, Worse, n
<1>7. ASSUME NEW k \in 1..n PROVE Nth(k) = At(B, k)
  <2>1. k \in 1..card
    BY <1>2, <1>4
  <2>2. At(B, k) \in P /\ Cardinality(B[At(B, k)]) = k - 1
    BY <1>1, <2>1, AtFacts
  <2>3. \E i \in P : Cardinality(Worse(i)) = k - 1
    BY <1>5, <2>2
  <2>4. Nth(k) \in P /\ Cardinality(Worse(Nth(k))) = k - 1
    BY <2>3
  <2> HIDE DEF Nth
  <2> QED
    BY <1>1, <1>5, <2>1, <2>4, AtUnique
<1> HIDE DEF Nth
<1>8. Distilled(t, except) = [k \in 1..n |-> t[At(B, k)]]
  BY <1>6, <1>7
<1> QED
  BY <1>4, <1>8 DEF P, B

LEMMA DistilledList ==
  ASSUME NEW t \in Tables, NEW except
  PROVE  /\ Distilled(t, except) \in Lists
         /\ \A k \in DOMAIN Distilled(t, except) :
              Distilled(t, except)[k].channel # except
<1> DEFINE P == Promoted(t, except)
           B == Worst(t, P)
           off == Distilled(t, except)
           card == Cardinality(P)
<1>1. IsOrder(P, B) /\ P \subseteq DOMAIN t
  BY WorstIsOrder DEF Tables, Promoted
<1>2. PICK n \in Nat : /\ n <= SIZE /\ n <= card
                       /\ off = [k \in 1..n |-> t[At(B, k)]]
  BY DistilledShape
<1>3. card \in Nat /\ SIZE \in Nat
  BY <1>1, RankGrows, OffendersAssumption DEF OffendersAssumption
<1>4. 1..n \subseteq 1..card
  BY <1>2, <1>3
<1>5. \A k \in 1..n : At(B, k) \in P
  BY <1>1, <1>4, AtFacts
<1>6. \A k \in 1..n : t[At(B, k)] \in Hits /\ t[At(B, k)].hits >= THRESHOLD
                      /\ t[At(B, k)].channel # except
  BY <1>1, <1>5 DEF Tables, Promoted
<1> HIDE DEF off, P, B
<1>7. off \in [1..n -> Hits]
  BY <1>2, <1>6
<1>8. off \in Seq(Hits) /\ Len(off) = n /\ DOMAIN off = 1..n
  <2>1. off \in Seq(Hits) /\ DOMAIN off = 1..n
    BY <1>7, SeqDef
  <2> QED
    BY <2>1, LenProperties
<1>9. ASSUME NEW k \in 1..n, NEW m \in 1..n, k < m
      PROVE  /\ off[k].channel # off[m].channel
             /\ off[k].hits >= off[m].hits
  <2>1. At(B, k) \in B[At(B, m)]
    BY <1>1, <1>4, <1>9, AtOrdered
  <2>2. At(B, m) \in P /\ At(B, k) \in P
    BY <1>5
  <2>3. \/ t[At(B, k)].hits > t[At(B, m)].hits
        \/ t[At(B, k)].hits = t[At(B, m)].hits
    BY <2>1, <2>2 DEF B, Worst
  <2>4. t[At(B, k)].hits \in Nat /\ t[At(B, m)].hits \in Nat
    BY <1>6, OffendersAssumption DEF Hits, OffendersAssumption
  <2>5. off[k].hits >= off[m].hits
    BY <1>2, <2>3, <2>4
  <2>6. At(B, k) # At(B, m)
    BY <2>1, <2>2, <1>1 DEF IsOrder
  <2>7. t[At(B, k)].channel # t[At(B, m)].channel
    BY <2>2, <2>6, <1>1 DEF Tables
  <2> QED
    BY <1>2, <2>5, <2>7
<1>10. \A i, j \in DOMAIN off : off[i].channel = off[j].channel => i = j
  BY <1>8, <1>9
<1>11. off \in Tables
  BY <1>8, <1>10 DEF Tables
<1>12. \A k \in DOMAIN off : off[k].hits >= THRESHOLD /\ off[k].channel # except
  BY <1>2, <1>6, <1>8
<1>13. off \in Lists
  BY <1>2, <1>8, <1>9, <1>11, <1>12 DEF Lists
<1> QED
  BY <1>12, <1>13 DEF off

(* A list is what it is distilled from again, but for the channel that is    *)
(* left out.                                                                 *)
Others(t, c) == {i \in DOMAIN t : t[i].channel # c}

LEMMA DistilledAgain ==
  ASSUME NEW off \in Lists, NEW c
  PROVE  Distilled(off, c) = Picked(off, Others(off, c))
<1> DEFINE P == Promoted(off, c)
<1>1. off \in Tables /\ DOMAIN off = 1..Len(off) /\ Len(off) \in Nat /\ Len(off) <= SIZE
  BY DEF Lists, Tables
<1>2. P = Others(off, c)
  BY DEF Promoted, Others, Lists
<1>3. \A i \in DOMAIN off : off[i].hits \in Nat
  <2>1. \A i \in DOMAIN off : off[i] \in Hits
    BY <1>1 DEF Tables
  <2> QED
    BY <2>1, OffendersAssumption DEF Hits, OffendersAssumption
<1>4. Worst(off, P) = Forth(P)
  <2>1. ASSUME NEW i \in P, NEW j \in P
        PROVE  (off[j].hits > off[i].hits \/ (off[j].hits = off[i].hits /\ j < i))
                 <=> j < i
    <3>1. i \in DOMAIN off /\ j \in DOMAIN off
      BY DEF Promoted
    <3>2. /\ i < j => off[i].hits >= off[j].hits
          /\ j < i => off[j].hits >= off[i].hits
      BY <3>1 DEF Lists
    <3>3. i \in Nat /\ j \in Nat /\ off[i].hits \in Nat /\ off[j].hits \in Nat
      BY <1>1, <1>3, <3>1
    <3> QED
      BY <3>2, <3>3
  <2> QED
    BY <2>1 DEF Worst, Forth
<1>5. P \subseteq DOMAIN off
  BY DEF Promoted
<1>6. Cardinality(P) <= SIZE /\ Cardinality(P) \in Nat
  BY <1>1, <1>5, PickedTable, OffendersAssumption DEF OffendersAssumption
<1>7. PICK n \in Nat : /\ n <= SIZE /\ n <= Cardinality(P)
                       /\ n = SIZE \/ n = Cardinality(P)
                       /\ Distilled(off, c) =
                            [k \in 1..n |-> off[At(Worst(off, P), k)]]
  BY <1>1, DistilledShape
<1>8. n = Cardinality(P)
  BY <1>6, <1>7, OffendersAssumption DEF OffendersAssumption
<1>9. Picked(off, P) = [k \in 1..Cardinality(P) |-> off[At(Forth(P), k)]]
  BY <1>1, <1>5, PickedIs DEF Tables
<1> QED
  BY <1>2, <1>4, <1>7, <1>8, <1>9

(* Whoever picks all entries has the table.                                  *)
LEMMA PickedAll ==
  ASSUME NEW t \in Tables
  PROVE  Picked(t, DOMAIN t) = t
<1> DEFINE P == DOMAIN t
<1>1. t \in Seq(Hits) /\ P = 1..Len(t) /\ Len(t) \in Nat
  BY DEF Tables
<1>2. IsOrder(P, Forth(P))
  BY <1>1, ForthIsOrder
<1>3. Cardinality(P) = Len(t)
  BY <1>1, UpTo
<1>4. ASSUME NEW n \in 1..Len(t) PROVE At(Forth(P), n) = n
  <2>1. {j \in P : j < n} = 1..n - 1
    BY <1>1
  <2>2. Cardinality(1..n - 1) = n - 1
    <3>1. n - 1 \in Nat
      BY <1>1
    <3> QED
      BY <3>1, UpTo
  <2>3. n \in P /\ Forth(P)[n] = {j \in P : j < n}
    BY <1>1 DEF Forth
  <2>4. Cardinality(Forth(P)[n]) = n - 1
    BY <2>1, <2>2, <2>3
  <2>5. At(Forth(P), n) \in P /\ Cardinality(Forth(P)[At(Forth(P), n)]) = n - 1
    BY <1>2, <1>3, AtFacts
  <2> QED
    BY <1>2, <2>3, <2>4, <2>5, RankOnce
<1>5. Picked(t, P) = [n \in 1..Cardinality(P) |-> t[At(Forth(P), n)]]
  <2>1. P \in SUBSET DOMAIN t
    OBVIOUS
  <2> HIDE DEF P
  <2> QED
    BY <1>1, <2>1, PickedIs
<1>6. Picked(t, P) = [n \in 1..Len(t) |-> t[n]]
  BY <1>3, <1>4, <1>5
<1> QED
  BY <1>1, <1>6

(* What is known of a list, channel 0 aside, is still known when it has been *)
(* distilled without channel 0.                                              *)
LEMMA KnownAgain ==
  ASSUME NEW off \in Lists, NEW c
  PROVE  Picked(Distilled(off, c), Others(Distilled(off, c), c))
           = Picked(off, Others(off, c))
<1> DEFINE d == Distilled(off, c)
<1>1. off \in Tables
  BY DEF Lists
<1>2. d \in Lists /\ \A k \in DOMAIN d : d[k].channel # c
  BY <1>1, DistilledList
<1>3. Others(d, c) = DOMAIN d /\ d \in Tables
  BY <1>2 DEF Others, Lists
<1>4. Picked(d, Others(d, c)) = d
  BY <1>3, PickedAll
<1> QED
  BY <1>4, DistilledAgain

(* persist_record_hit and persist_reclaim keep a table a table.              *)
LEMMA HitNumbers ==
  ASSUME NEW e \in Hits
  PROVE  /\ e.channel \in Channels /\ e.hits \in 1..MaxHits
         /\ e.hits \in Nat /\ MaxHits \in Nat /\ MaxHits >= 1
         /\ (IF e.hits < MaxHits THEN e.hits + 1 ELSE e.hits) \in 1..MaxHits
<1>1. MaxHits \in Nat /\ MaxHits >= THRESHOLD /\ THRESHOLD \in Nat \ {0}
  BY OffendersAssumption DEF OffendersAssumption
<1>2. e.channel \in Channels /\ e.hits \in 1..MaxHits
  BY DEF Hits
<1> QED
  BY <1>1, <1>2

LEMMA LeastExists ==
  ASSUME NEW t \in Tables, t # <<>>
  PROVE  \E i \in DOMAIN t : \A j \in DOMAIN t :
           t[i].hits < t[j].hits \/ (t[i].hits = t[j].hits /\ i <= j)
<1> DEFINE P == DOMAIN t
<1>1. t \in Seq(Hits) /\ P = 1..Len(t) /\ Len(t) \in Nat /\ Len(t) # 0
  BY EmptySeq DEF Tables
<1>2. IsOrder(P, Fewest(t, P))
  BY <1>1, FewestIsOrder
<1>3. Cardinality(P) = Len(t)
  BY <1>1, UpTo
<1>4. 0 \in 0..Cardinality(P) - 1
  BY <1>1, <1>3
<1>5. PICK i \in P : Cardinality(Fewest(t, P)[i]) = 0
  BY <1>2, <1>4, RankTaken
<1>6. IsFiniteSet(Fewest(t, P)[i])
  <2>1. Fewest(t, P)[i] \subseteq P /\ IsFiniteSet(P)
    BY <1>2 DEF IsOrder
  <2> QED
    BY <2>1, FS_Subset
<1>7. Fewest(t, P)[i] = {}
  BY <1>5, <1>6, FS_EmptySet
<1>8. \A j \in P : ~(t[j].hits < t[i].hits \/ (t[j].hits = t[i].hits /\ j < i))
  BY <1>7 DEF Fewest
<1>9. \A j \in P : t[j].hits \in Nat /\ j \in Nat
  BY <1>1, HitNumbers
<1> QED
  BY <1>8, <1>9

LEMMA RecordedTable ==
  ASSUME NEW t \in Tables, Len(t) <= HIT_TABLE_SIZE, NEW c \in Channels
  PROVE  Recorded(t, c) \in Tables /\ Len(Recorded(t, c)) <= HIT_TABLE_SIZE
<1> DEFINE Up(n) == IF n < MaxHits THEN n + 1 ELSE n
           least == CHOOSE i \in DOMAIN t : \A j \in DOMAIN t :
                      t[i].hits < t[j].hits \/ (t[i].hits = t[j].hits /\ i <= j)
           more == [i \in DOMAIN t |->
                      IF t[i].channel = c THEN [t[i] EXCEPT !.hits = Up(@)] ELSE t[i]]
           longer == Append(t, [channel |-> c, hits |-> 1])
           over == [t EXCEPT ![least] = [channel |-> c, hits |-> Up(@.hits)]]
<1>1. /\ t \in Seq(Hits) /\ DOMAIN t = 1..Len(t) /\ Len(t) \in Nat
      /\ \A i, j \in DOMAIN t : t[i].channel = t[j].channel => i = j
  BY DEF Tables
<1>2. \A i \in DOMAIN t : t[i] \in Hits
  BY <1>1
<1>3. HIT_TABLE_SIZE \in Nat /\ HIT_TABLE_SIZE # 0
  BY OffendersAssumption DEF OffendersAssumption
<1>4. CASE c = rendezvous
  BY <1>4 DEF Recorded
<1>5. CASE c # rendezvous /\ IndexOf(t, c) # {}
  <2>1. Recorded(t, c) = more
    BY <1>5 DEF Recorded
  <2>2. \A i \in DOMAIN t : more[i] \in Hits /\ more[i].channel = t[i].channel
    <3> SUFFICES ASSUME NEW i \in DOMAIN t
                 PROVE  more[i] \in Hits /\ more[i].channel = t[i].channel
      OBVIOUS
    <3>1. t[i] \in Hits /\ Up(t[i].hits) \in 1..MaxHits
      BY <1>2, HitNumbers
    <3> HIDE DEF Up
    <3> QED
      BY <3>1 DEF Hits
  <2> HIDE DEF Up
  <2>3. more \in [1..Len(t) -> Hits]
    BY <1>1, <2>2
  <2>4. more \in Seq(Hits) /\ DOMAIN more = 1..Len(t)
    BY <1>1, <2>3, SeqDef
  <2>5. Len(more) = Len(t)
    BY <1>1, <2>4, LenProperties
  <2>6. more \in Tables
    <3>1. DOMAIN more = DOMAIN t
      BY <1>1, <2>4
    <3> HIDE DEF more
    <3>2. \A i, j \in DOMAIN more : more[i].channel = more[j].channel => i = j
      BY <1>1, <2>2, <3>1
    <3> QED
      BY <2>4, <3>2 DEF Tables
  <2> HIDE DEF more
  <2> QED
    BY <2>1, <2>5, <2>6
<1>6. CASE c # rendezvous /\ IndexOf(t, c) = {} /\ Len(t) < HIT_TABLE_SIZE
  <2>1. Recorded(t, c) = longer
    BY <1>6 DEF Recorded
  <2> DEFINE new == [channel |-> c, hits |-> 1]
  <2>2. new \in Hits /\ new.channel = c
    BY OffendersAssumption DEF Hits, OffendersAssumption
  <2> HIDE DEF new
  <2>3. /\ longer \in Seq(Hits) /\ Len(longer) = Len(t) + 1
        /\ \A i \in 1..Len(t) : longer[i] = t[i]
        /\ longer[Len(t) + 1] = new
    BY <1>1, <2>2, AppendProperties DEF new
  <2>4. DOMAIN longer = 1..Len(t) + 1
    BY <2>3, LenProperties
  <2>5. \A i \in 1..Len(t) : t[i].channel # c
    BY <1>1, <1>6 DEF IndexOf
  <2>6. \A i, j \in DOMAIN longer : longer[i].channel = longer[j].channel => i = j
    BY <1>1, <2>2, <2>3, <2>4, <2>5
  <2>7. longer \in Tables
    BY <2>3, <2>6 DEF Tables
  <2> HIDE DEF longer
  <2> QED
    BY <1>1, <1>3, <1>6, <2>1, <2>3, <2>7
<1>7. CASE /\ c # rendezvous /\ IndexOf(t, c) = {} /\ ~(Len(t) < HIT_TABLE_SIZE)
  <2>1. Recorded(t, c) = over
    BY <1>7 DEF Recorded
  <2>2. t # <<>>
    BY <1>1, <1>3, <1>7, EmptySeq
  <2>3. least \in DOMAIN t
    BY <2>2, LeastExists
  <2> HIDE DEF least
  <2> DEFINE new == [channel |-> c, hits |-> Up(t[least].hits)]
  <2>4. new \in Hits /\ new.channel = c
    <3>1. Up(t[least].hits) \in 1..MaxHits
      BY <1>2, <2>3, HitNumbers
    <3> HIDE DEF Up
    <3> QED
      BY <3>1 DEF Hits
  <2>5. over = [t EXCEPT ![least] = new]
    OBVIOUS
  <2> HIDE DEF new, over
  <2>6. over \in Seq(Hits) /\ Len(over) = Len(t)
    BY <1>1, <2>3, <2>4, <2>5, ExceptSeq
  <2>7. DOMAIN over = DOMAIN t
    BY <2>5
  <2>8. \A i \in DOMAIN t : over[i] = IF i = least THEN new ELSE t[i]
    BY <2>5
  <2>9. \A i \in DOMAIN t : t[i].channel # c
    BY <1>7 DEF IndexOf
  <2>10. \A i, j \in DOMAIN over : over[i].channel = over[j].channel => i = j
    BY <1>1, <2>4, <2>7, <2>8, <2>9
  <2> QED
    BY <2>1, <2>6, <2>10 DEF Tables
<1> QED
  BY <1>4, <1>5, <1>6, <1>7

LEMMA FrontIs ==
  ASSUME NEW s \in Seq(Hits), Len(s) >= 1
  PROVE  Front(s) = [i \in 1..Len(s) - 1 |-> s[i]]
<1>1. Len(s) \in Nat /\ DOMAIN s = 1..Len(s)
  OBVIOUS
<1>2. /\ SubSeq(s, 1, Len(s) - 1) \in Seq(Hits)
      /\ Len(SubSeq(s, 1, Len(s) - 1)) = Len(s) - 1
      /\ \A i \in 1..Len(s) - 1 : SubSeq(s, 1, Len(s) - 1)[i] = s[i]
  BY <1>1
<1> DEFINE short == SubSeq(s, 1, Len(s) - 1)
<1> HIDE DEF short
<1>3. DOMAIN short = 1..Len(s) - 1 /\ short = [i \in DOMAIN short |-> short[i]]
  BY <1>2, LenProperties DEF short
<1>4. short = [i \in 1..Len(s) - 1 |-> s[i]]
  BY <1>2, <1>3 DEF short
<1> QED
  BY <1>4 DEF Front, short

LEMMA ReclaimedTable ==
  ASSUME NEW t \in Tables, NEW c
  PROVE  Reclaimed(t, c) \in Tables /\ Len(Reclaimed(t, c)) <= Len(t)
<1> DEFINE gap == CHOOSE i \in IndexOf(t, c) : TRUE
           last == t[Len(t)]
           moved == [t EXCEPT ![gap] = last]
           less == Front(moved)
<1>1. /\ t \in Seq(Hits) /\ DOMAIN t = 1..Len(t) /\ Len(t) \in Nat
      /\ \A i, j \in DOMAIN t : t[i].channel = t[j].channel => i = j
  BY DEF Tables
<1>2. CASE IndexOf(t, c) = {}
  <2>1. Reclaimed(t, c) = t
    BY <1>2 DEF Reclaimed
  <2> QED
    BY <1>1, <2>1
<1>3. CASE IndexOf(t, c) # {}
  <2>1. Reclaimed(t, c) = less
    BY <1>3 DEF Reclaimed
  <2>2. gap \in DOMAIN t
    BY <1>3 DEF IndexOf
  <2> HIDE DEF gap
  <2>3. Len(t) \in DOMAIN t /\ Len(t) >= 1
    BY <1>1, <2>2
  <2>4. last \in Hits
    BY <1>1, <2>3
  <2>5. moved \in Seq(Hits) /\ Len(moved) = Len(t)
    BY <1>1, <2>2, <2>4, ExceptSeq
  <2>6. \A i \in DOMAIN t : moved[i] = IF i = gap THEN last ELSE t[i]
    OBVIOUS
  <2>7. less = [i \in 1..Len(t) - 1 |-> moved[i]]
    <3> HIDE DEF moved
    <3> QED
      BY <2>3, <2>5, FrontIs
  <2>8. less \in [1..Len(t) - 1 -> Hits]
    <3>1. \A i \in 1..Len(t) - 1 : moved[i] \in Hits
      BY <1>1, <2>4, <2>6
    <3> HIDE DEF moved, less
    <3> QED
      BY <2>7, <3>1
  <2>9. less \in Seq(Hits) /\ DOMAIN less = 1..Len(t) - 1
    <3>1. Len(t) - 1 \in Nat
      BY <1>1, <2>3
    <3> HIDE DEF less
    <3> QED
      BY <2>8, <3>1, SeqDef
  <2>10. Len(less) = Len(t) - 1
    <3>1. Len(t) - 1 \in Nat
      BY <1>1, <2>3
    <3> HIDE DEF less
    <3> QED
      BY <2>9, <3>1, LenProperties
  <2>11. \A i \in 1..Len(t) - 1 : less[i] = IF i = gap THEN last ELSE t[i]
    <3> HIDE DEF less, moved
    <3> QED
      BY <1>1, <2>6, <2>7
  <2> HIDE DEF less
  <2>12. \A i, j \in DOMAIN less : less[i].channel = less[j].channel => i = j
    BY <1>1, <2>2, <2>3, <2>9, <2>11
  <2> QED
    BY <1>1, <2>1, <2>9, <2>10, <2>12 DEF Tables
<1> QED
  BY <1>2, <1>3

(* The channels of a list are few enough to be avoided.                      *)
FewChannels(av) ==
  av \subseteq Channels /\ IsFiniteSet(av) /\ Cardinality(av) <= SIZE

LEMMA ListChannels ==
  ASSUME NEW off \in Lists
  PROVE  FewChannels(ChannelsOf(off))
<1> DEFINE f == [i \in 1..Len(off) |-> off[i].channel]
           S == ChannelsOf(off)
<1>1. off \in Seq(Hits) /\ DOMAIN off = 1..Len(off) /\ Len(off) \in Nat /\ Len(off) <= SIZE
  BY DEF Lists, Tables
<1>2. S \subseteq Channels
  BY <1>1, HitNumbers DEF ChannelsOf
<1>3. f \in Surjection(1..Len(off), S)
  BY <1>1 DEF ChannelsOf, Surjection
<1>4. IsFiniteSet(1..Len(off)) /\ Cardinality(1..Len(off)) = Len(off)
  BY <1>1, UpTo
<1> HIDE DEF f, S
<1>5. IsFiniteSet(S) /\ Cardinality(S) <= Cardinality(1..Len(off))
  BY <1>3, <1>4, FS_Surjection
<1>6. Cardinality(S) \in Nat /\ SIZE \in Nat
  BY <1>5, FS_CardinalityType, OffendersAssumption DEF OffendersAssumption
<1> QED
  BY <1>1, <1>2, <1>4, <1>5, <1>6 DEF FewChannels, S

LEMMA FewerChannels ==
  ASSUME NEW av, FewChannels(av), NEW c
  PROVE  FewChannels(av \ {c})
<1>1. av \ {c} \in SUBSET av
  OBVIOUS
<1>2. IsFiniteSet(av \ {c}) /\ Cardinality(av \ {c}) <= Cardinality(av)
  BY <1>1, FS_Subset DEF FewChannels
<1>3. Cardinality(av \ {c}) \in Nat /\ Cardinality(av) \in Nat /\ SIZE \in Nat
  BY <1>2, FS_CardinalityType, OffendersAssumption DEF FewChannels, OffendersAssumption
<1> QED
  BY <1>2, <1>3 DEF FewChannels

-----------------------------------------------------------------------------
(* The invariant *)

Pending == [by : Contexts, acc : 0..PERIOD - 1, off : Lists]
OnFlash == [acc : 0..PERIOD - 1, off : Lists]

TableInv ==
  /\ m_hits \in Tables /\ Len(m_hits) <= HIT_TABLE_SIZE
  /\ FewChannels(avoided)

(* Each context has at most one write under way. *)
WriteInv ==
  /\ m_off_buf \in Lists /\ m_saved_off \in Lists /\ flash \in OnFlash
  /\ saves \in Seq(Pending) /\ Len(saves) <= 2
  /\ \A i, j \in DOMAIN saves : saves[i].by = saves[j].by => i = j
  /\ acc \in 0..PERIOD - 1 /\ saved_acc \in 0..PERIOD - 1
  /\ suppressed \in BOOLEAN /\ counted \in BOOLEAN

RestInv ==
  /\ elapsed \in 0..MaxElapsed /\ wq \in {"idle", "hop"}
  /\ configured \in BOOLEAN /\ linked \in BOOLEAN

OffInv == TableInv /\ WriteInv /\ RestInv

(* The last of the writes under way is of the list last distilled, unless a  *)
(* later one was suppressed; while two wait neither context can distil.      *)
SyncInv ==
  /\ Len(saves) = 2 => saves[2].off = m_off_buf
  /\ Len(saves) = 1 /\ ~suppressed => saves[1].off = m_off_buf
  /\ saves = <<>> /\ ~suppressed =>
       /\ m_saved_off = m_off_buf
       /\ m_off_buf = flash.off \/ m_off_buf = Distilled(flash.off, Zero)

LinkInv == linked => configured /\ Rendezvous \notin avoided

LEMMA OffendersNumbers ==
  /\ PERIOD \in Nat /\ PERIOD >= 1 /\ SIZE \in Nat /\ SIZE >= 1
  /\ HIT_TABLE_SIZE \in Nat /\ SIZE <= HIT_TABLE_SIZE
  /\ THRESHOLD \in 1..MaxHits /\ MaxElapsed \in Nat
  /\ Rendezvous \in Channels /\ Zero \in Channels
  BY OffendersAssumption DEF OffendersAssumption

LEMMA MinutesSplit ==
  ASSUME NEW m \in Nat
  PROVE  m \div PERIOD \in Nat /\ m % PERIOD \in 0..PERIOD - 1
  BY OffendersNumbers

(* A write joins the queue. *)
LEMMA SaveJoins ==
  ASSUME WriteInv, NEW who \in Contexts, ~Waits(who), NEW off \in Lists,
         NEW minutes \in 0..PERIOD - 1, Save(who, off, minutes)
  PROVE  /\ saves' \in Seq(Pending)
         /\ Len(saves') = Len(saves) + 1 /\ Len(saves') \in 1..2
         /\ \A i, j \in DOMAIN saves' : saves'[i].by = saves'[j].by => i = j
         /\ saves'[Len(saves')].off = off
<1> DEFINE new == [by |-> who, acc |-> minutes, off |-> off]
<1>1. new \in Pending /\ new.by = who /\ new.off = off
  BY DEF Pending
<1>2. saves \in Seq(Pending) /\ Len(saves) \in 0..2 /\ DOMAIN saves = 1..Len(saves)
  <2>1. saves \in Seq(Pending) /\ Len(saves) <= 2
    BY DEF WriteInv
  <2>2. Len(saves) \in Nat /\ DOMAIN saves = 1..Len(saves)
    BY <2>1, LenProperties
  <2> QED
    BY <2>1, <2>2
<1>3. saves' = Append(saves, new)
  BY DEF Save
<1> HIDE DEF new
<1>4. /\ saves' \in Seq(Pending) /\ Len(saves') = Len(saves) + 1
      /\ \A i \in 1..Len(saves) : saves'[i] = saves[i]
      /\ saves'[Len(saves) + 1] = new
  BY <1>1, <1>2, <1>3, AppendProperties
<1>5. DOMAIN saves' = 1..Len(saves) + 1
  BY <1>4, LenProperties
<1>6. \A i \in 1..Len(saves) : saves[i].by # who
  BY <1>2 DEF Waits
<1>7. \A i, j \in DOMAIN saves' : saves'[i].by = saves'[j].by => i = j
  BY <1>1, <1>2, <1>4, <1>5, <1>6 DEF WriteInv
<1>8. Len(saves) # 2
  <2> SUFFICES ASSUME Len(saves) = 2 PROVE FALSE
    OBVIOUS
  <2>1. saves[1] \in Pending /\ saves[2] \in Pending /\ saves[1].by # saves[2].by
    <3>1. 1 \in DOMAIN saves /\ 2 \in DOMAIN saves /\ saves \in Seq(Pending)
      BY <1>2
    <3>2. saves[1] \in Pending /\ saves[2] \in Pending
      BY <3>1, ElementOfSeq, <1>2
    <3> QED
      BY <3>1, <3>2 DEF WriteInv
  <2>2. saves[1].by \in Contexts /\ saves[2].by \in Contexts
    BY <2>1 DEF Pending
  <2>3. saves[1].by # who /\ saves[2].by # who
    BY <1>6
  <2> QED
    BY <2>1, <2>2, <2>3 DEF Contexts
<1> QED
  BY <1>1, <1>2, <1>4, <1>7, <1>8

(* What persist_decay_check does, whatever the clock says. *)
LEMMA DecayShape ==
  ASSUME WriteInv, elapsed \in 0..MaxElapsed,
         NEW who \in Contexts, NEW t \in Tables, NEW av,
         Len(t) <= HIT_TABLE_SIZE, FewChannels(av), persist_decay_check(who, t, av)
  PROVE  /\ acc' \in 0..PERIOD - 1 /\ elapsed' = 0
         /\ m_hits' \in Tables /\ Len(m_hits') <= HIT_TABLE_SIZE
         /\ m_off_buf' \in Lists /\ FewChannels(avoided')
         /\ \/ Save(who, m_off_buf', acc')
            \/ UNCHANGED <<saves, m_off_buf>>
         /\ \/ avoided' = av
            \/ \E x \in Tables : avoided' = ChannelsOf(Distilled(x, rendezvous))
<1> DEFINE minutes == acc + elapsed
           periods == minutes \div PERIOD
           aged == IF periods > 0 THEN Aged(t, periods) ELSE t
           off == Distilled(aged, rendezvous)
<1>1. /\ acc' = minutes % PERIOD /\ elapsed' = 0
      /\ m_hits' = aged
      /\ IF periods > 0 THEN m_off_buf' = off /\ avoided' = ChannelsOf(off)
                        ELSE UNCHANGED m_off_buf /\ avoided' = av
      /\ IF periods > 0 \/ acc' >= saved_acc + FLUSH
           THEN Save(who, m_off_buf', acc') ELSE UNCHANGED saves
  BY DEF persist_decay_check
<1>2. minutes \in Nat
  BY OffendersNumbers DEF WriteInv
<1> HIDE DEF minutes
<1>3. periods \in Nat /\ acc' \in 0..PERIOD - 1
  BY <1>1, <1>2, MinutesSplit
<1> HIDE DEF periods
<1>4. aged \in Tables /\ Len(aged) <= HIT_TABLE_SIZE
  <2>1. Aged(t, periods) \in Tables /\ Len(Aged(t, periods)) <= Len(t)
    BY <1>3, AgedTable
  <2>2. Len(t) \in Nat /\ Len(Aged(t, periods)) \in Nat
    BY <2>1 DEF Tables
  <2> QED
    BY <2>1, <2>2, OffendersNumbers
<1> HIDE DEF aged
<1>5. off \in Lists /\ FewChannels(ChannelsOf(off))
  BY <1>4, DistilledList, ListChannels
<1> HIDE DEF off
<1>6. m_off_buf' \in Lists /\ FewChannels(avoided')
  BY <1>1, <1>5 DEF WriteInv
<1>7. \/ avoided' = av
      \/ \E x \in Tables : avoided' = ChannelsOf(Distilled(x, rendezvous))
  BY <1>1, <1>4 DEF off
<1>8. Save(who, m_off_buf', acc') \/ UNCHANGED <<saves, m_off_buf>>
  BY <1>1
<1> QED
  BY <1>1, <1>3, <1>4, <1>6, <1>7, <1>8

(* Whoever calls it, the copies stay in step with the record.               *)
LEMMA DecayKeeps ==
  ASSUME WriteInv, SyncInv, elapsed \in 0..MaxElapsed,
         NEW who \in Contexts, ~Waits(who), NEW t \in Tables, NEW av,
         Len(t) <= HIT_TABLE_SIZE, FewChannels(av), persist_decay_check(who, t, av),
         UNCHANGED <<m_saved_off, saved_acc, flash, history>>
  PROVE  TableInv' /\ WriteInv' /\ SyncInv' /\ elapsed' \in 0..MaxElapsed
<1>1. /\ acc' \in 0..PERIOD - 1 /\ elapsed' = 0
      /\ m_hits' \in Tables /\ Len(m_hits') <= HIT_TABLE_SIZE
      /\ m_off_buf' \in Lists /\ FewChannels(avoided')
      /\ Save(who, m_off_buf', acc') \/ UNCHANGED <<saves, m_off_buf>>
  BY DecayShape
<1>2. TableInv' /\ elapsed' \in 0..MaxElapsed
  BY <1>1, OffendersNumbers DEF TableInv
<1>3. UNCHANGED <<m_saved_off, saved_acc, flash, suppressed, counted>>
  BY DEF history
<1>4. CASE Save(who, m_off_buf', acc')
  <2>1. /\ saves' \in Seq(Pending) /\ Len(saves') \in 1..2
        /\ \A i, j \in DOMAIN saves' : saves'[i].by = saves'[j].by => i = j
        /\ saves'[Len(saves')].off = m_off_buf'
    BY <1>1, <1>4, SaveJoins
  <2>2. WriteInv'
    BY <1>1, <1>3, <2>1 DEF WriteInv
  <2>3. SyncInv'
    BY <2>1, EmptySeq DEF SyncInv
  <2> QED
    BY <1>2, <2>2, <2>3
<1>5. CASE UNCHANGED <<saves, m_off_buf>>
  <2>1. WriteInv'
    BY <1>1, <1>3, <1>5 DEF WriteInv
  <2>2. SyncInv'
    BY <1>3, <1>5 DEF SyncInv
  <2> QED
    BY <1>2, <2>1, <2>2
<1> QED
  BY <1>1, <1>4, <1>5

(* A power loss: the record on flash becomes the table and is distilled.     *)
LEMMA BootKeeps ==
  ASSUME flash \in OnFlash, Boots(flash), UNCHANGED flash
  PROVE  OffInv' /\ SyncInv' /\ LinkInv'
<1>1. /\ flash.off \in Lists /\ flash.acc \in 0..PERIOD - 1
      /\ flash.off \in Tables /\ flash.off \in Seq(Hits) /\ Len(flash.off) <= SIZE
  BY DEF OnFlash, Lists, Tables
<1>2. Len(flash.off) <= HIT_TABLE_SIZE
  <2>1. Len(flash.off) \in Nat
    BY <1>1, LenProperties
  <2> QED
    BY <1>1, <2>1, OffendersNumbers
<1> DEFINE off == Distilled(flash.off, Zero)
<1>3. off \in Lists /\ FewChannels(ChannelsOf(off))
  BY <1>1, DistilledList, ListChannels
<1>4. /\ m_hits' = flash.off /\ m_off_buf' = off /\ m_saved_off' = off
      /\ avoided' = ChannelsOf(off)
      /\ acc' = flash.acc /\ saved_acc' = flash.acc /\ elapsed' = 0
      /\ configured' = FALSE /\ linked' = FALSE /\ wq' = "idle" /\ saves' = <<>>
      /\ suppressed' = FALSE /\ counted' = FALSE /\ flash' = flash
  BY DEF Boots
<1> HIDE DEF off
<1>5. TableInv'
  BY <1>1, <1>2, <1>3, <1>4 DEF TableInv
<1>6. saves' \in Seq(Pending) /\ Len(saves') = 0 /\ DOMAIN saves' = {}
  BY <1>4, EmptySeq
<1>7. WriteInv'
  <2>1. acc' \in 0..PERIOD - 1 /\ saved_acc' \in 0..PERIOD - 1
    BY <1>1, <1>4
  <2>2. suppressed' \in BOOLEAN /\ counted' \in BOOLEAN
    BY <1>4, Zenon
  <2>3. Len(saves') <= 2 /\ \A i, j \in DOMAIN saves' : saves'[i].by = saves'[j].by => i = j
    BY <1>6
  <2>4. m_off_buf' \in Lists /\ m_saved_off' \in Lists /\ flash' \in OnFlash
    BY <1>3, <1>4
  <2> QED
    BY <1>6, <2>1, <2>2, <2>3, <2>4, Zenon DEF WriteInv
<1>8. RestInv' /\ LinkInv'
  <2>1. elapsed' \in 0..MaxElapsed /\ wq' \in {"idle", "hop"}
    BY <1>4, OffendersNumbers
  <2>2. configured' \in BOOLEAN /\ linked' \in BOOLEAN /\ ~linked'
    BY <1>4, Zenon
  <2> QED
    BY <2>1, <2>2, Zenon DEF RestInv, LinkInv
<1>9. SyncInv'
  BY <1>4, <1>6 DEF SyncInv, off
<1> QED
  BY <1>5, <1>7, <1>8, <1>9 DEF OffInv

LEMMA ShortLists ==
  /\ <<>> \in Lists
  /\ <<[channel |-> Rendezvous, hits |-> THRESHOLD]>> \in Lists
<1> DEFINE e == [channel |-> Rendezvous, hits |-> THRESHOLD]
           one == <<e>>
<1>1. e \in Hits /\ e.hits = THRESHOLD
  BY OffendersNumbers DEF Hits
<1>2. <<>> \in Seq(Hits) /\ Len(<<>>) = 0 /\ DOMAIN <<>> = {}
  BY EmptySeq
<1>3. <<>> \in Lists
  BY <1>2, OffendersNumbers DEF Lists, Tables
<1> HIDE DEF e
<1>4. one \in Seq(Hits) /\ Len(one) = 1 /\ one[1] = e /\ DOMAIN one = 1..1
  BY <1>1
<1> HIDE DEF one
<1>5. \A i \in DOMAIN one : i = 1
  BY <1>4
<1>6. one \in Tables
  BY <1>4, <1>5 DEF Tables
<1>7. one \in Lists
  <2>1. \A i \in DOMAIN one : one[i].hits >= THRESHOLD
    BY <1>1, <1>4, <1>5, OffendersNumbers
  <2>2. \A i, j \in DOMAIN one : ~(i < j)
    BY <1>5
  <2> QED
    BY <1>4, <1>6, <2>1, <2>2, OffendersNumbers DEF Lists
<1> QED
  BY <1>3, <1>7 DEF one, e

LEMMA OffInit == Init => OffInv /\ SyncInv /\ LinkInv
<1> SUFFICES ASSUME Init PROVE OffInv /\ SyncInv /\ LinkInv
  OBVIOUS
<1>1. /\ flash.acc = 0 /\ flash.off \in Lists /\ flash \in OnFlash
  BY ShortLists, OffendersNumbers DEF Init, OnFlash
<1> DEFINE off == Distilled(flash.off, Zero)
<1>2. flash.off \in Tables /\ flash.off \in Seq(Hits) /\ Len(flash.off) <= SIZE
  BY <1>1 DEF Lists, Tables
<1>3. Len(flash.off) <= HIT_TABLE_SIZE
  <2>1. Len(flash.off) \in Nat
    BY <1>2, LenProperties
  <2> QED
    BY <1>2, <2>1, OffendersNumbers
<1>4. off \in Lists /\ FewChannels(ChannelsOf(off))
  BY <1>2, DistilledList, ListChannels
<1>5. /\ m_hits = flash.off /\ m_off_buf = off /\ m_saved_off = off
      /\ avoided = ChannelsOf(off)
      /\ acc = 0 /\ saved_acc = 0 /\ elapsed = 0
      /\ configured = FALSE /\ linked = FALSE /\ wq = "idle" /\ saves = <<>>
      /\ suppressed = FALSE /\ counted = FALSE
  BY DEF Init
<1> HIDE DEF off
<1>6. TableInv
  BY <1>2, <1>3, <1>4, <1>5 DEF TableInv
<1>7. saves \in Seq(Pending) /\ Len(saves) = 0 /\ DOMAIN saves = {}
  BY <1>5, EmptySeq
<1>8. WriteInv
  <2>1. acc \in 0..PERIOD - 1 /\ saved_acc \in 0..PERIOD - 1
    BY <1>5, OffendersNumbers
  <2>2. suppressed \in BOOLEAN /\ counted \in BOOLEAN
    BY <1>5, Zenon
  <2>3. Len(saves) <= 2 /\ \A i, j \in DOMAIN saves : saves[i].by = saves[j].by => i = j
    BY <1>7
  <2>4. m_off_buf \in Lists /\ m_saved_off \in Lists
    BY <1>4, <1>5
  <2> QED
    BY <1>1, <1>7, <2>1, <2>2, <2>3, <2>4, Zenon DEF WriteInv
<1>9. RestInv /\ LinkInv
  <2>1. elapsed \in 0..MaxElapsed /\ wq \in {"idle", "hop"}
    BY <1>5, OffendersNumbers
  <2>2. configured \in BOOLEAN /\ linked \in BOOLEAN /\ ~linked
    BY <1>5, Zenon
  <2> QED
    BY <2>1, <2>2, Zenon DEF RestInv, LinkInv
<1>10. SyncInv
  BY <1>5, <1>7 DEF SyncInv, off
<1> QED
  BY <1>6, <1>8, <1>9, <1>10 DEF OffInv

(* A write reaches the flash. *)
LEMMA SaveDoneKeeps ==
  ASSUME WriteInv, SyncInv, SaveDone
  PROVE  WriteInv' /\ SyncInv'
<1>1. saves \in Seq(Pending) /\ saves # <<>> /\ Len(saves) \in 1..2
  <2>1. saves \in Seq(Pending) /\ saves # <<>> /\ Len(saves) <= 2
    BY DEF WriteInv, SaveDone
  <2> DEFINE n == Len(saves)
  <2>2. n \in Nat /\ n # 0 /\ n <= 2
    BY <2>1, LenProperties, EmptySeq
  <2> HIDE DEF n
  <2>3. n \in 1..2
    BY <2>2
  <2> QED
    BY <2>1, <2>3 DEF n
<1> DEFINE first == Head(saves)
           rest == Tail(saves)
<1>2. /\ first \in Pending /\ first = saves[1]
      /\ rest \in Seq(Pending) /\ Len(rest) = Len(saves) - 1
      /\ \A i \in 1..Len(rest) : rest[i] = saves[i + 1]
  BY <1>1, HeadTailProperties
<1>3. DOMAIN rest = 1..Len(saves) - 1 /\ DOMAIN saves = 1..Len(saves)
  BY <1>1, <1>2, LenProperties
<1>4. /\ saves' = rest /\ flash' = [acc |-> first.acc, off |-> first.off]
      /\ m_saved_off' = m_off_buf /\ saved_acc' = first.acc
      /\ suppressed' = (suppressed /\ flash'.off # m_off_buf)
      /\ counted' = (counted \/ first.acc # saved_acc)
      /\ m_off_buf' = m_off_buf /\ acc' = acc
  BY DEF SaveDone, clock
<1> HIDE DEF first, rest
<1>5. first.acc \in 0..PERIOD - 1 /\ first.off \in Lists
  BY <1>2 DEF Pending
<1>6. \A i, j \in DOMAIN saves' : saves'[i].by = saves'[j].by => i = j
  <2> SUFFICES ASSUME NEW i \in DOMAIN rest, NEW j \in DOMAIN rest,
                      rest[i].by = rest[j].by
               PROVE  i = j
    BY <1>4
  <2>1. /\ i \in 1..Len(rest) /\ j \in 1..Len(rest)
        /\ i + 1 \in DOMAIN saves /\ j + 1 \in DOMAIN saves
    BY <1>1, <1>2, <1>3
  <2>2. saves[i + 1].by = saves[j + 1].by
    BY <1>2, <2>1
  <2>3. i + 1 = j + 1
    BY <2>1, <2>2 DEF WriteInv
  <2> QED
    BY <2>1, <2>3
<1>7. WriteInv'
  BY <1>1, <1>2, <1>4, <1>5, <1>6 DEF WriteInv, OnFlash
<1>8. flash'.off = first.off
  BY <1>4
<1>9. CASE Len(saves) = 2
  <2>1. Len(rest) = 1 /\ rest[1] = saves[2]
    BY <1>2, <1>9
  <2>2. rest[1].off = m_off_buf
    BY <1>9, <2>1 DEF SyncInv
  <2>3. rest # <<>>
    BY <2>1, EmptySeq
  <2>4. SyncInv'
    BY <1>4, <2>1, <2>2, <2>3 DEF SyncInv
  <2> QED
    BY <1>7, <2>4
<1>10. CASE Len(saves) = 1
  <2>1. Len(rest) = 0
    BY <1>2, <1>10
  <2>2. ~suppressed' => first.off = m_off_buf
    <3>1. ~suppressed => first.off = m_off_buf
      BY <1>2, <1>10 DEF SyncInv
    <3> QED
      BY <1>4, <1>8, <3>1
  <2>3. SyncInv'
    BY <1>4, <1>8, <2>1, <2>2 DEF SyncInv
  <2> QED
    BY <1>7, <2>3
<1> QED
  BY <1>1, <1>9, <1>10

(* The periodic distillation, which may write. *)
LEMMA DistilKeeps ==
  ASSUME OffInv, SyncInv, persist_work_fn
  PROVE  TableInv' /\ WriteInv' /\ SyncInv' /\ UNCHANGED <<elapsed, wq, configured, linked>>
<1> DEFINE off == Distilled(m_hits, rendezvous)
<1>1. /\ ~Waits("wq") /\ "wq" \in Contexts
      /\ m_off_buf' = off /\ avoided' = ChannelsOf(off) /\ counted' = counted
      /\ IF off # m_saved_off
           THEN Save("wq", off, acc) /\ UNCHANGED suppressed
           ELSE UNCHANGED saves /\ suppressed' = (suppressed \/ saves # <<>>)
      /\ UNCHANGED <<m_hits, m_saved_off, saved_acc, flash, acc, elapsed, wq>>
      /\ UNCHANGED <<configured, linked>>
  BY DEF persist_work_fn, Busy, Contexts, clock
<1>2. off \in Lists /\ FewChannels(ChannelsOf(off))
  BY DistilledList, ListChannels DEF OffInv, TableInv
<1> HIDE DEF off
<1>3. TableInv'
  BY <1>1, <1>2 DEF OffInv, TableInv
<1>4. CASE off # m_saved_off
  <2>1. acc \in 0..PERIOD - 1 /\ WriteInv
    BY DEF OffInv, WriteInv
  <2>2. Save("wq", off, acc) /\ UNCHANGED suppressed
    BY <1>1, <1>4
  <2>3. /\ saves' \in Seq(Pending) /\ Len(saves') \in 1..2
        /\ \A i, j \in DOMAIN saves' : saves'[i].by = saves'[j].by => i = j
        /\ saves'[Len(saves')].off = m_off_buf'
    BY <1>1, <1>2, <2>1, <2>2, SaveJoins
  <2>4. WriteInv'
    BY <1>1, <1>2, <2>1, <2>2, <2>3 DEF WriteInv
  <2>5. SyncInv'
    BY <2>3, EmptySeq DEF SyncInv
  <2> QED
    BY <1>1, <1>3, <2>4, <2>5
<1>5. CASE off = m_saved_off
  <2>1. UNCHANGED saves /\ suppressed' = (suppressed \/ saves # <<>>)
    BY <1>1, <1>5
  <2>2. WriteInv /\ suppressed' \in BOOLEAN
    BY <2>1 DEF OffInv, WriteInv
  <2>3. WriteInv'
    BY <1>1, <1>2, <2>1, <2>2 DEF WriteInv
  <2>4. Len(saves) # 2
    <3> SUFFICES ASSUME Len(saves) = 2 PROVE FALSE
      OBVIOUS
    <3>1. saves \in Seq(Pending) /\ DOMAIN saves = 1..2
      BY <2>2, LenProperties DEF WriteInv
    <3>2. saves[1] \in Pending /\ saves[2] \in Pending /\ saves[1].by # saves[2].by
      <4>1. saves[1] \in Pending /\ saves[2] \in Pending
        BY <3>1, ElementOfSeq
      <4> QED
        BY <2>2, <3>1, <4>1 DEF WriteInv
    <3>3. saves[1].by # "wq" /\ saves[2].by # "wq"
      BY <1>1, <3>1 DEF Waits
    <3> QED
      BY <3>2, <3>3 DEF Pending, Contexts
  <2>5. CASE saves = <<>> /\ ~suppressed
    <3>1. m_off_buf' = m_off_buf
      BY <1>1, <1>5, <2>5 DEF SyncInv
    <3>2. suppressed' = suppressed
      <4>1. suppressed' = FALSE /\ suppressed = FALSE
        BY <2>1, <2>2, <2>5, Zenon DEF WriteInv
      <4> QED
        BY <4>1
    <3>3. UNCHANGED <<saves, m_saved_off, flash>>
      BY <1>1, <2>1
    <3>4. SyncInv'
      BY <3>1, <3>2, <3>3 DEF SyncInv
    <3> QED
      BY <1>1, <1>3, <2>3, <3>4
  <2>6. CASE saves # <<>> \/ suppressed
    <3>1. suppressed' = TRUE /\ saves' = saves
      BY <2>1, <2>2, <2>6 DEF WriteInv
    <3>2. SyncInv'
      BY <2>4, <3>1 DEF SyncInv
    <3> QED
      BY <1>1, <1>3, <2>3, <3>2
  <2> QED
    BY <2>5, <2>6
<1> QED
  BY <1>4, <1>5

LEMMA DistilledSpares ==
  ASSUME NEW t \in Tables, NEW c
  PROVE  c \notin ChannelsOf(Distilled(t, c))
<1>1. \A k \in DOMAIN Distilled(t, c) : Distilled(t, c)[k].channel # c
  BY DistilledList
<1> QED
  BY <1>1 DEF ChannelsOf

(* The clock, on a link. *)
LEMMA DecaySpares ==
  ASSUME WriteInv, elapsed \in 0..MaxElapsed, configured,
         NEW who \in Contexts, NEW t \in Tables, NEW av,
         Len(t) <= HIT_TABLE_SIZE, FewChannels(av), Rendezvous \notin av,
         persist_decay_check(who, t, av)
  PROVE  Rendezvous \notin avoided'
<1>1. \/ avoided' = av
      \/ \E x \in Tables : avoided' = ChannelsOf(Distilled(x, rendezvous))
  BY DecayShape
<1>2. rendezvous = Rendezvous
  BY DEF rendezvous
<1> QED
  BY <1>1, <1>2, DistilledSpares

(* A move on the work queue that leaves the record alone.                    *)
LEMMA TableMoves ==
  ASSUME OffInv, SyncInv, LinkInv, TableInv',
         UNCHANGED <<written, clock, configured, linked>>,
         wq' \in {"idle", "hop"}, avoided' \subseteq avoided
  PROVE  OffInv' /\ SyncInv' /\ LinkInv'
<1>1. WriteInv'
  BY DEF OffInv, WriteInv, written, clock, history
<1>2. SyncInv'
  BY DEF SyncInv, written, history
<1>3. RestInv' /\ LinkInv'
  BY DEF OffInv, RestInv, LinkInv, clock
<1> QED
  BY <1>1, <1>2, <1>3 DEF OffInv

LEMMA ConnectKeeps ==
  ASSUME OffInv, SyncInv, LinkInv, channel_hop_ep_on_connected
  PROVE  OffInv' /\ SyncInv' /\ LinkInv'
<1> DEFINE t == Reclaimed(m_hits, Rendezvous)
           av == avoided \ {Rendezvous}
<1>1. /\ ~Waits("wq") /\ "wq" \in Contexts /\ configured /\ linked' = TRUE
      /\ UNCHANGED <<m_saved_off, saved_acc, flash, history, wq, configured>>
      /\ \/ persist_decay_check("wq", t, av)
         \/ /\ m_hits' = t /\ avoided' = av
            /\ UNCHANGED <<clock, m_off_buf, saves>>
  BY DEF channel_hop_ep_on_connected, Busy, Contexts
<1>2. t \in Tables /\ Len(t) <= HIT_TABLE_SIZE
  <2>1. /\ m_hits \in Tables /\ Len(m_hits) <= HIT_TABLE_SIZE
        /\ t \in Tables /\ Len(t) <= Len(m_hits)
    BY ReclaimedTable DEF OffInv, TableInv
  <2>2. Len(t) \in Nat /\ Len(m_hits) \in Nat /\ HIT_TABLE_SIZE \in Nat
    BY <2>1, OffendersNumbers DEF Tables
  <2> HIDE DEF t
  <2> QED
    BY <2>1, <2>2
<1>3. FewChannels(av) /\ Rendezvous \notin av
  BY FewerChannels DEF OffInv, TableInv
<1> HIDE DEF t, av
<1>4. WriteInv /\ elapsed \in 0..MaxElapsed
  BY DEF OffInv, RestInv
<1>5. wq' \in {"idle", "hop"} /\ configured' \in BOOLEAN /\ linked' \in BOOLEAN
  BY <1>1, Zenon DEF OffInv, RestInv
<1>6. CASE persist_decay_check("wq", t, av)
  <2>1. TableInv' /\ WriteInv' /\ SyncInv' /\ elapsed' \in 0..MaxElapsed
    BY <1>1, <1>2, <1>3, <1>4, <1>6, DecayKeeps
  <2>2. Rendezvous \notin avoided'
    BY <1>1, <1>2, <1>3, <1>4, <1>6, DecaySpares
  <2> QED
    BY <1>1, <1>5, <2>1, <2>2 DEF OffInv, RestInv, LinkInv
<1>7. CASE /\ m_hits' = t /\ avoided' = av
           /\ UNCHANGED <<clock, m_off_buf, saves>>
  <2>1. TableInv'
    BY <1>2, <1>3, <1>7 DEF TableInv
  <2>2. WriteInv'
    BY <1>1, <1>4, <1>7 DEF WriteInv, clock, history
  <2>3. SyncInv'
    BY <1>1, <1>7 DEF SyncInv, history
  <2>4. elapsed' \in 0..MaxElapsed /\ Rendezvous \notin avoided'
    BY <1>3, <1>4, <1>7 DEF clock
  <2> QED
    BY <1>1, <1>5, <2>1, <2>2, <2>3, <2>4 DEF OffInv, RestInv, LinkInv
<1> QED
  BY <1>1, <1>6, <1>7

(* The engine is woken by user traffic, or hop_work_fn begins. *)
LEMMA LinkedDecayKeeps ==
  ASSUME OffInv, SyncInv, LinkInv, linked, NEW who \in Contexts, ~Waits(who),
         persist_decay_check(who, m_hits, avoided),
         UNCHANGED <<m_saved_off, saved_acc, flash, history, configured, linked>>,
         wq' \in {"idle", "hop"}
  PROVE  OffInv' /\ SyncInv' /\ LinkInv'
<1>1. /\ m_hits \in Tables /\ Len(m_hits) <= HIT_TABLE_SIZE /\ FewChannels(avoided)
      /\ WriteInv /\ elapsed \in 0..MaxElapsed
      /\ configured /\ Rendezvous \notin avoided
  BY DEF OffInv, TableInv, RestInv, LinkInv
<1>2. TableInv' /\ WriteInv' /\ SyncInv' /\ elapsed' \in 0..MaxElapsed
  BY <1>1, DecayKeeps
<1>3. Rendezvous \notin avoided'
  BY <1>1, DecaySpares
<1>4. configured' \in BOOLEAN /\ linked' \in BOOLEAN
  BY DEF OffInv, RestInv
<1> QED
  BY <1>1, <1>2, <1>3, <1>4 DEF OffInv, RestInv, LinkInv

LEMMA HopKeeps ==
  ASSUME OffInv, SyncInv, LinkInv, NEW c \in Channels, NEW target,
         NEW isRevert \in BOOLEAN, HopMoves(c, target, isRevert)
  PROVE  OffInv' /\ SyncInv' /\ LinkInv'
<1> DEFINE t == IF isRevert THEN Reclaimed(m_hits, target) ELSE m_hits
<1>1. /\ wq' = "idle" /\ m_hits' = Recorded(t, c)
      /\ avoided' = IF isRevert THEN avoided \ {target} ELSE avoided
      /\ UNCHANGED <<written, clock, configured, linked>>
  BY DEF HopMoves
<1>2. t \in Tables /\ Len(t) <= HIT_TABLE_SIZE
  <2>1. /\ m_hits \in Tables /\ Len(m_hits) <= HIT_TABLE_SIZE
        /\ Reclaimed(m_hits, target) \in Tables
        /\ Len(Reclaimed(m_hits, target)) <= Len(m_hits)
    BY ReclaimedTable DEF OffInv, TableInv
  <2>2. /\ Len(Reclaimed(m_hits, target)) \in Nat /\ Len(m_hits) \in Nat
        /\ HIT_TABLE_SIZE \in Nat
    BY <2>1, OffendersNumbers DEF Tables
  <2> QED
    BY <2>1, <2>2
<1> HIDE DEF t
<1>3. m_hits' \in Tables /\ Len(m_hits') <= HIT_TABLE_SIZE
  BY <1>1, <1>2, RecordedTable
<1>4. FewChannels(avoided') /\ avoided' \subseteq avoided
  BY <1>1, FewerChannels DEF OffInv, TableInv
<1>5. TableInv'
  BY <1>3, <1>4 DEF TableInv
<1> QED
  BY <1>1, <1>4, <1>5, TableMoves

LEMMA FallbackKeeps ==
  ASSUME OffInv, SyncInv, LinkInv, FallsBack
  PROVE  OffInv' /\ SyncInv' /\ LinkInv'
<1>1. /\ wq' = "idle" /\ m_hits' = Reclaimed(m_hits, Rendezvous)
      /\ avoided' = avoided \ {Rendezvous}
      /\ UNCHANGED <<written, clock, configured, linked>>
  BY DEF FallsBack
<1>2. /\ m_hits \in Tables /\ Len(m_hits) <= HIT_TABLE_SIZE
      /\ m_hits' \in Tables /\ Len(m_hits') <= Len(m_hits)
  BY <1>1, ReclaimedTable DEF OffInv, TableInv
<1>3. Len(m_hits') \in Nat /\ Len(m_hits) \in Nat /\ HIT_TABLE_SIZE \in Nat
  BY <1>2, OffendersNumbers DEF Tables
<1>4. Len(m_hits') <= HIT_TABLE_SIZE
  BY <1>2, <1>3
<1>5. FewChannels(avoided') /\ avoided' \subseteq avoided
  BY <1>1, FewerChannels DEF OffInv, TableInv
<1>6. TableInv'
  BY <1>2, <1>4, <1>5 DEF TableInv
<1> QED
  BY <1>1, <1>5, <1>6, TableMoves

LEMMA OffStep ==
  OffInv /\ SyncInv /\ LinkInv /\ [Next]_vars => OffInv' /\ SyncInv' /\ LinkInv'
<1> SUFFICES ASSUME OffInv, SyncInv, LinkInv, [Next]_vars
             PROVE  OffInv' /\ SyncInv' /\ LinkInv'
  OBVIOUS
<1>1. CASE persist_work_fn
  <2>1. /\ TableInv' /\ WriteInv' /\ SyncInv'
        /\ UNCHANGED <<elapsed, wq, configured, linked>>
    BY <1>1, DistilKeeps
  <2>2. RestInv'
    BY <2>1 DEF OffInv, RestInv
  <2>3. LinkInv'
    <3>1. linked => rendezvous = Rendezvous
      BY DEF LinkInv, rendezvous
    <3>2. avoided' = ChannelsOf(Distilled(m_hits, rendezvous)) /\ m_hits \in Tables
      BY <1>1 DEF persist_work_fn, OffInv, TableInv
    <3>3. linked => Rendezvous \notin avoided'
      BY <3>1, <3>2, DistilledSpares
    <3> QED
      BY <2>1, <3>3 DEF LinkInv
  <2> QED
    BY <2>1, <2>2, <2>3 DEF OffInv
<1>2. CASE channel_hop_ep_on_connected
  BY <1>2, ConnectKeeps
<1>3. CASE NoteUserTx
  <2>1. /\ linked /\ "thread" \in Contexts /\ ~Waits("thread")
        /\ persist_decay_check("thread", m_hits, avoided)
        /\ UNCHANGED <<m_saved_off, saved_acc, flash, history, configured, linked>>
        /\ wq' \in {"idle", "hop"}
    BY <1>3 DEF NoteUserTx, Busy, Contexts, OffInv, RestInv
  <2> QED
    BY <2>1, LinkedDecayKeeps
<1>4. CASE HopStarts
  <2>1. /\ linked /\ "wq" \in Contexts /\ ~Waits("wq")
        /\ persist_decay_check("wq", m_hits, avoided)
        /\ UNCHANGED <<m_saved_off, saved_acc, flash, history, configured, linked>>
        /\ wq' \in {"idle", "hop"}
    BY <1>4 DEF HopStarts, Busy, Contexts
  <2> QED
    BY <2>1, LinkedDecayKeeps
<1>5. CASE HopFails
  <2>1. TableInv' /\ avoided' \subseteq avoided
    BY <1>5 DEF HopFails, OffInv, TableInv, table
  <2>2. UNCHANGED <<written, clock, configured, linked>> /\ wq' \in {"idle", "hop"}
    BY <1>5 DEF HopFails
  <2> QED
    BY <2>1, <2>2, TableMoves
<1>6. CASE FallsBack
  BY <1>6, FallbackKeeps
<1>7. ASSUME NEW c \in Channels, HopsFrom(c)
      PROVE  OffInv' /\ SyncInv' /\ LinkInv'
  <2>1. \E target, isRevert : isRevert \in BOOLEAN /\ HopMoves(c, target, isRevert)
    BY <1>7 DEF HopsFrom
  <2> QED
    BY <2>1, HopKeeps
<1>8. CASE SaveDone
  <2>1. WriteInv' /\ SyncInv'
    BY <1>8, SaveDoneKeeps DEF OffInv
  <2>2. TableInv' /\ RestInv' /\ LinkInv'
    BY <1>8 DEF SaveDone, OffInv, TableInv, RestInv, LinkInv, table, clock
  <2> QED
    BY <2>1, <2>2 DEF OffInv
<1>9. CASE esb_transport_set_addresses
  <2>1. /\ configured' = TRUE /\ ~configured
        /\ UNCHANGED <<table, written, clock, wq, linked>>
    BY <1>9 DEF esb_transport_set_addresses
  <2>2. TableInv' /\ WriteInv' /\ SyncInv'
    BY <2>1 DEF OffInv, TableInv, WriteInv, SyncInv, table, written, clock, history
  <2>3. RestInv' /\ LinkInv'
    BY <2>1 DEF OffInv, RestInv, LinkInv, table, clock
  <2> QED
    BY <2>2, <2>3 DEF OffInv
<1>10. CASE MinutePasses
  <2>1. /\ elapsed < MaxElapsed /\ elapsed' = elapsed + 1
        /\ UNCHANGED <<table, written, acc, wq, configured, linked>>
    BY <1>10 DEF MinutePasses
  <2>2. TableInv' /\ WriteInv' /\ SyncInv' /\ LinkInv'
    BY <2>1 DEF OffInv, TableInv, WriteInv, SyncInv, LinkInv, table, written, history
  <2>3. RestInv'
    BY <2>1, OffendersNumbers DEF OffInv, RestInv
  <2> QED
    BY <2>2, <2>3 DEF OffInv
<1>11. CASE PowerLoss
  <2>1. flash \in OnFlash /\ Boots(flash) /\ UNCHANGED flash
    BY <1>11 DEF PowerLoss, OffInv, WriteInv
  <2> QED
    BY <2>1, BootKeeps
<1>12. CASE UNCHANGED vars
  <2>1. UNCHANGED <<table, written, clock, wq, configured, linked>>
    BY <1>12 DEF vars
  <2>2. TableInv' /\ WriteInv' /\ SyncInv' /\ LinkInv'
    BY <2>1 DEF OffInv, TableInv, WriteInv, SyncInv, LinkInv, table, written, clock, history
  <2>3. RestInv'
    BY <2>1 DEF OffInv, RestInv, clock
  <2> QED
    BY <2>2, <2>3 DEF OffInv
<1> QED
  BY <1>1, <1>2, <1>3, <1>4, <1>5, <1>6, <1>7, <1>8, <1>9, <1>10, <1>11, <1>12
  DEF Next

LEMMA OffInvariant == Spec => [](OffInv /\ SyncInv /\ LinkInv)
  BY OffInit, OffStep, PTL DEF Spec

-----------------------------------------------------------------------------
(* The theorems *)

(* The table stays a table (persist_record_hit, persist_reclaim and          *)
(* persist_decay_apply never count a channel twice or outgrow m_hits), the    *)
(* lists fit the record, each context has at most one write under way: for   *)
(* any channels, any sizes, any threshold and any decay period.              *)
THEOREM OffendersTypes == Spec => []OffendersTypeOK
<1>1. OffInv => OffendersTypeOK
  <2> SUFFICES ASSUME OffInv PROVE OffendersTypeOK
    OBVIOUS
  <2>1. /\ \A i \in DOMAIN m_hits : m_hits[i] \in Hits
        /\ Len(m_hits) <= HIT_TABLE_SIZE
        /\ \A i, j \in DOMAIN m_hits : m_hits[i].channel = m_hits[j].channel => i = j
    BY DEF OffInv, TableInv, Tables
  <2>2. Len(m_off_buf) <= SIZE /\ Len(m_saved_off) <= SIZE /\ Len(flash.off) <= SIZE
    BY DEF OffInv, WriteInv, Lists, OnFlash
  <2>3. {acc, saved_acc, flash.acc} \subseteq 0..PERIOD - 1
    BY DEF OffInv, WriteInv, OnFlash
  <2>4. avoided \subseteq Channels /\ Cardinality(avoided) <= SIZE
    BY DEF OffInv, TableInv, FewChannels
  <2>5. Len(saves) <= 2 /\ \A i \in DOMAIN saves : saves[i].by \in Contexts
    <3>1. \A i \in DOMAIN saves : saves[i] \in Pending
      BY DEF OffInv, WriteInv
    <3> QED
      BY <3>1 DEF OffInv, WriteInv, Pending
  <2>6. /\ elapsed \in 0..MaxElapsed /\ wq \in {"idle", "hop"}
        /\ {configured, linked, suppressed, counted} \subseteq BOOLEAN
    BY DEF OffInv, RestInv, WriteInv
  <2> QED
    BY <2>1, <2>2, <2>3, <2>4, <2>5, <2>6 DEF OffendersTypeOK
<1> QED
  BY <1>1, OffInvariant, PTL

(* From channel_hop_ep_on_connected on, through hits, decay, distillation and *)
(* reverts, the rendezvous channel is not among those the pick avoids.       *)
THEOREM RendezvousIsNotAvoided == Spec => []RendezvousNotAvoided
<1>1. LinkInv => RendezvousNotAvoided
  BY DEF LinkInv, RendezvousNotAvoided
<1> QED
  BY <1>1, OffInvariant, PTL

(* What ChannelPick takes for granted of persist_rebuild_avoided: on a link,  *)
(* whatever hits, minutes, hops and reboots came before, the list the pick   *)
(* is given is no longer than the record and leaves the rendezvous out.      *)
THEOREM ListsServeThePick ==
  Spec => [](linked => avoided \in {s \in SUBSET (Channels \ {Rendezvous}) :
                                     Cardinality(s) <= SIZE})
<1>1. OffendersTypeOK /\ RendezvousNotAvoided =>
        (linked => avoided \in {s \in SUBSET (Channels \ {Rendezvous}) :
                                 Cardinality(s) <= SIZE})
  BY DEF OffendersTypeOK, RendezvousNotAvoided
<1> QED
  BY <1>1, OffendersTypes, RendezvousIsNotAvoided, PTL

(* Whenever no write is under way and none was suppressed behind another,    *)
(* flash holds the list distilled last, and offenders_changed compares with  *)
(* what is there.                                                            *)
THEOREM RecordIsCurrent == Spec => []RecordCurrent
<1>1. OffInv /\ SyncInv => RecordCurrent
  <2> SUFFICES ASSUME OffInv, SyncInv, saves = <<>>, ~suppressed
               PROVE  /\ Picked(flash.off, Others(flash.off, Zero))
                           = Picked(m_off_buf, Others(m_off_buf, Zero))
                      /\ m_saved_off = m_off_buf
    BY DEF RecordCurrent, Others
  <2>1. m_saved_off = m_off_buf
    BY DEF SyncInv
  <2>2. m_off_buf = flash.off \/ m_off_buf = Distilled(flash.off, Zero)
    BY DEF SyncInv
  <2>3. flash.off \in Lists
    BY DEF OffInv, WriteInv, OnFlash
  <2> QED
    BY <2>1, <2>2, <2>3, KnownAgain
<1> QED
  BY <1>1, OffInvariant, PTL

=============================================================================
