----------------------------- MODULE Offenders -----------------------------
(***************************************************************************)
(* The offender table of channel_hop_ep.c: each hop away from a channel    *)
(* that failed counts a hit against it; the channels hit most often are    *)
(* avoided, and remembered on flash, until powered-on time has decayed     *)
(* their hits.                                                             *)
(*                                                                         *)
(* The work queue distils the table, hops and connects; a thread that      *)
(* sends user traffic may wake the engine, which ages the table too.  Both *)
(* wait for the flash in persist_write, and while one waits the other      *)
(* runs; the settings subsystem writes one record at a time.  Time is      *)
(* counted in minutes, as the code does.  session_hits is shown and never  *)
(* read, and is left out.                                                  *)
(***************************************************************************)
EXTENDS Naturals, Sequences, SequencesExt, FiniteSets

CONSTANTS
  Channels,
  Rendezvous, \* the channel both sides can always find each other on
  Zero,       \* channel 0, the rendezvous until addresses are configured
  SIZE,       \* PERSIST_N_MAX: offenders avoided and remembered
  HIT_TABLE_SIZE, \* channels counted: three times SIZE in the code
  THRESHOLD,  \* hits before a channel is avoided
  PERIOD,     \* persist_decay_period_min()
  MaxHits,    \* UINT16_MAX: where a count saturates
  MaxElapsed  \* bound: minutes between two looks at the clock

FLUSH == IF PERIOD < 16 THEN 1 ELSE PERIOD \div 16

ASSUME OffendersAssumption ==
  /\ {Rendezvous, Zero} \subseteq Channels
  /\ {SIZE, THRESHOLD, PERIOD, MaxElapsed} \subseteq Nat \ {0}
  /\ HIT_TABLE_SIZE \in Nat /\ HIT_TABLE_SIZE >= SIZE
  /\ MaxHits \in Nat /\ MaxHits >= THRESHOLD

VARIABLES
  m_hits,      \* the table: a sequence of [channel, hits]
  avoided,     \* m_quarantine.persistent: the channels the pick avoids
  m_off_buf,   \* the list as last distilled
  m_saved_off, \* the list as last written
  acc,         \* m_decay_accum_min
  saved_acc,   \* m_saved_accum_min
  elapsed,     \* minutes since the clock was last looked at
  saves,       \* persist_write calls that wait for the flash, in order
  wq,          \* the work queue: "idle", "hop" (between clock and move)
  flash,       \* the record: the accumulator and the list
  configured,  \* the addresses, and with them the rendezvous, are known
  linked,      \* on_connected has run since boot
  suppressed,  \* history: a write was suppressed while another one waited
  counted      \* history: a minute of this session has been written

table == <<m_hits, avoided>>
history == <<suppressed, counted>>
written == <<m_off_buf, m_saved_off, saved_acc, saves, flash, history>>
clock == <<acc, elapsed>>
vars == <<table, written, clock, wq, configured, linked>>

Contexts == {"wq", "thread"}
Hits == [channel : Channels, hits : 1..MaxHits]
Records == [acc : 0..PERIOD - 1, off : UNION {[1..n -> Hits] : n \in 0..SIZE}]

rendezvous == IF configured THEN Rendezvous ELSE Zero
Waits(who) == \E i \in DOMAIN saves : saves[i].by = who
Busy(who) == Waits(who) \/ (who = "wq" /\ wq # "idle")

IndexOf(t, c) == {i \in DOMAIN t : t[i].channel = c}

-----------------------------------------------------------------------------
(* The table *)

(* persist_record_hit: count, append, or take over the first of the slots    *)
(* with the fewest hits and count on from there.                             *)
Recorded(t, c) ==
  LET Up(n) == IF n < MaxHits THEN n + 1 ELSE n
      least == CHOOSE i \in DOMAIN t : \A j \in DOMAIN t :
                 t[i].hits < t[j].hits \/ (t[i].hits = t[j].hits /\ i <= j)
  IN CASE c = rendezvous -> t
       [] c # rendezvous /\ IndexOf(t, c) # {} ->
            [i \in DOMAIN t |->
               IF t[i].channel = c THEN [t[i] EXCEPT !.hits = Up(@)] ELSE t[i]]
       [] c # rendezvous /\ IndexOf(t, c) = {} /\ Len(t) < HIT_TABLE_SIZE ->
            Append(t, [channel |-> c, hits |-> 1])
       [] OTHER -> [t EXCEPT ![least] = [channel |-> c, hits |-> Up(@.hits)]]

(* persist_reclaim: the last entry moves into the gap. *)
Reclaimed(t, c) ==
  IF IndexOf(t, c) = {} THEN t
  ELSE LET gap == CHOOSE i \in IndexOf(t, c) : TRUE
           last == t[Len(t)]
       IN Front([t EXCEPT ![gap] = last])

(* The entries at some positions, in the order of the table: at each place   *)
(* the position with so many before it.                                      *)
Picked(t, positions) ==
  [n \in 1..Cardinality(positions) |->
     t[CHOOSE i \in positions : Cardinality({j \in positions : j < i}) = n - 1]]

(* persist_decay_apply *)
Aged(t, periods) ==
  LET kept == Picked(t, {i \in DOMAIN t : t[i].hits > periods})
  IN [i \in DOMAIN kept |-> [kept[i] EXCEPT !.hits = @ - periods]]

(* persist_rebuild_avoided: the worst first, among equals the earlier. *)
Distilled(t, except) ==
  LET promoted == {i \in DOMAIN t : t[i].hits >= THRESHOLD /\ t[i].channel # except}
      Worse(i) == {j \in promoted : t[j].hits > t[i].hits
                                     \/ (t[j].hits = t[i].hits /\ j < i)}
      n == IF Cardinality(promoted) < SIZE THEN Cardinality(promoted) ELSE SIZE
  IN [k \in 1..n |-> t[CHOOSE i \in promoted : Cardinality(Worse(i)) = k - 1]]

ChannelsOf(off) == {off[i].channel : i \in DOMAIN off}

-----------------------------------------------------------------------------
(* The record *)

(* persist_load: the list seeds the table, and is distilled again. *)
Boots(record) ==
  /\ configured' = FALSE /\ linked' = FALSE /\ wq' = "idle" /\ saves' = <<>>
  /\ suppressed' = FALSE /\ counted' = FALSE
  /\ acc' = record.acc /\ saved_acc' = record.acc /\ elapsed' = 0
  /\ m_hits' = record.off
  /\ m_off_buf' = Distilled(record.off, Zero) /\ m_saved_off' = m_off_buf'
  /\ avoided' = ChannelsOf(m_off_buf')

(* A fresh keyboard, or one whose rendezvous was another channel before. *)
Init ==
  /\ flash \in [acc : {0},
                off : {<<>>, <<[channel |-> Rendezvous, hits |-> THRESHOLD]>>}]
  /\ m_hits = flash.off
  /\ m_off_buf = Distilled(flash.off, Zero) /\ m_saved_off = m_off_buf
  /\ avoided = ChannelsOf(m_off_buf)
  /\ acc = 0 /\ saved_acc = 0 /\ elapsed = 0
  /\ saves = <<>> /\ wq = "idle" /\ configured = FALSE /\ linked = FALSE
  /\ suppressed = FALSE /\ counted = FALSE

(* persist_write up to the flash: what is to be written is copied first. *)
Save(who, off, minutes) ==
  saves' = Append(saves, [by |-> who, acc |-> minutes, off |-> off])

(* The record is written.  What is remembered as saved is read afterwards.   *)
SaveDone ==
  /\ saves # <<>> /\ saves' = Tail(saves)
  /\ flash' = [acc |-> Head(saves).acc, off |-> Head(saves).off]
  /\ m_saved_off' = m_off_buf /\ saved_acc' = Head(saves).acc
  /\ suppressed' = (suppressed /\ flash'.off # m_off_buf)
  /\ counted' = (counted \/ Head(saves).acc # saved_acc)
  /\ UNCHANGED <<table, m_off_buf, clock, wq, configured, linked>>

(* Faulty variant: decay is written only with the next coarse step. *)
persist_decay_check_unwritten(who, t, av) ==
  LET minutes == acc + elapsed
      periods == minutes \div PERIOD
      aged == IF periods > 0 THEN Aged(t, periods) ELSE t
      off == Distilled(aged, rendezvous)
  IN /\ acc' = minutes % PERIOD /\ elapsed' = 0
     /\ m_hits' = aged
     /\ IF periods > 0 THEN m_off_buf' = off /\ avoided' = ChannelsOf(off)
                       ELSE UNCHANGED m_off_buf /\ avoided' = av
     /\ IF acc' >= saved_acc + FLUSH
          THEN Save(who, m_off_buf', acc') ELSE UNCHANGED saves

(* The clock; whole periods age the table (t, once av is avoided) and are    *)
(* written at once, minutes when enough have come together.                  *)
persist_decay_check(who, t, av) ==
  LET minutes == acc + elapsed
      periods == minutes \div PERIOD
      aged == IF periods > 0 THEN Aged(t, periods) ELSE t
      off == Distilled(aged, rendezvous)
  IN /\ acc' = minutes % PERIOD /\ elapsed' = 0
     /\ m_hits' = aged
     /\ IF periods > 0 THEN m_off_buf' = off /\ avoided' = ChannelsOf(off)
                       ELSE UNCHANGED m_off_buf /\ avoided' = av
     /\ IF periods > 0 \/ acc' >= saved_acc + FLUSH
          THEN Save(who, m_off_buf', acc') ELSE UNCHANGED saves

-----------------------------------------------------------------------------
(* Who calls it *)

persist_work_fn ==
  /\ ~Busy("wq")
  /\ m_off_buf' = Distilled(m_hits, rendezvous) /\ avoided' = ChannelsOf(m_off_buf')
  /\ UNCHANGED counted
  /\ IF m_off_buf' # m_saved_off
       THEN Save("wq", m_off_buf', acc) /\ UNCHANGED suppressed
       ELSE UNCHANGED saves /\ suppressed' = (suppressed \/ saves # <<>>)
  /\ UNCHANGED <<m_hits, m_saved_off, saved_acc, flash, clock, wq>>
  /\ UNCHANGED <<configured, linked>>

(* Faulty variant: the rendezvous channel keeps its hits. *)
channel_hop_ep_on_connected_keeps ==
  /\ ~Busy("wq") /\ configured /\ linked' = TRUE
  /\ persist_decay_check("wq", m_hits, avoided)
  /\ UNCHANGED <<m_saved_off, saved_acc, flash, history, wq, configured>>

(* The rendezvous channel is known by now: whatever the record said of it is *)
(* forgotten.  (Already active, it does not look at the clock.)              *)
channel_hop_ep_on_connected ==
  /\ ~Busy("wq") /\ configured /\ linked' = TRUE
  /\ LET t == Reclaimed(m_hits, Rendezvous)
         av == avoided \ {Rendezvous}
     IN \/ persist_decay_check("wq", t, av)
        \/ /\ m_hits' = t /\ avoided' = av
           /\ UNCHANGED <<clock, m_off_buf, saves>>
  /\ UNCHANGED <<m_saved_off, saved_acc, flash, history, wq, configured>>

(* enter_active_state on a thread that sends user traffic *)
NoteUserTx ==
  /\ linked /\ ~Busy("thread")
  /\ persist_decay_check("thread", m_hits, avoided)
  /\ UNCHANGED <<m_saved_off, saved_acc, flash, history, wq, configured, linked>>

(* hop_work_fn: first the clock, which may wait; then perhaps the move. *)
HopStarts ==
  /\ linked /\ ~Busy("wq") /\ wq' = "hop"
  /\ persist_decay_check("wq", m_hits, avoided)
  /\ UNCHANGED <<m_saved_off, saved_acc, flash, history, configured, linked>>

HopFails ==
  /\ wq = "hop" /\ ~Waits("wq") /\ wq' = "idle"
  /\ UNCHANGED <<table, written, clock, configured, linked>>

(* The rendezvous fallback condemns nothing. *)
FallsBack ==
  /\ wq = "hop" /\ ~Waits("wq") /\ wq' = "idle"
  /\ m_hits' = Reclaimed(m_hits, Rendezvous) /\ avoided' = avoided \ {Rendezvous}
  /\ UNCHANGED <<written, clock, configured, linked>>

(* A hop away from a channel counts against it; a revert pardons its target. *)
HopMoves(current, target, isRevert) ==
  /\ wq = "hop" /\ ~Waits("wq") /\ wq' = "idle" /\ current # target
  /\ m_hits' = Recorded(IF isRevert THEN Reclaimed(m_hits, target) ELSE m_hits,
                        current)
  /\ avoided' = IF isRevert THEN avoided \ {target} ELSE avoided
  /\ UNCHANGED <<written, clock, configured, linked>>

esb_transport_set_addresses ==
  /\ ~configured /\ configured' = TRUE
  /\ UNCHANGED <<table, written, clock, wq, linked>>

MinutePasses ==
  /\ elapsed < MaxElapsed /\ elapsed' = elapsed + 1
  /\ UNCHANGED <<table, written, acc, wq, configured, linked>>

(* Faulty variant: the accumulator starts anew at every boot. *)
PowerLoss_forgets_time == Boots([flash EXCEPT !.acc = 0]) /\ UNCHANGED flash

PowerLoss == Boots(flash) /\ UNCHANGED flash

HopsFrom(c) ==
  \/ HopMoves(c, CHOOSE t \in Channels : t # c, FALSE)
  \/ \E t \in Channels : HopMoves(c, t, TRUE)

Next ==
  \/ persist_work_fn \/ channel_hop_ep_on_connected \/ NoteUserTx
  \/ HopStarts \/ HopFails \/ FallsBack \/ \E c \in Channels : HopsFrom(c)
  \/ SaveDone \/ esb_transport_set_addresses \/ MinutePasses \/ PowerLoss

(* The keyboard connects, time passes, the user types, the flash answers. *)
Works ==
  \/ esb_transport_set_addresses \/ MinutePasses \/ SaveDone
  \/ elapsed > 0 /\ NoteUserTx
  \/ ~linked /\ channel_hop_ep_on_connected

Spec == Init /\ [][Next]_vars /\ WF_vars(Works)

-----------------------------------------------------------------------------
(* Properties *)

(* No channel is twice in the table, and the lists fit their arrays. *)
OffendersTypeOK ==
  /\ \A i \in DOMAIN m_hits : m_hits[i] \in Hits
  /\ Len(m_hits) <= HIT_TABLE_SIZE
  /\ \A i, j \in DOMAIN m_hits : m_hits[i].channel = m_hits[j].channel => i = j
  /\ Len(m_off_buf) <= SIZE /\ Len(m_saved_off) <= SIZE /\ Len(flash.off) <= SIZE
  /\ avoided \subseteq Channels /\ Cardinality(avoided) <= SIZE
  /\ {acc, saved_acc, flash.acc} \subseteq 0..PERIOD - 1
  /\ elapsed \in 0..MaxElapsed /\ wq \in {"idle", "hop"}
  /\ {configured, linked, suppressed, counted} \subseteq BOOLEAN
  /\ \A i \in DOMAIN saves : saves[i].by \in Contexts
  /\ Len(saves) <= 2

(* Flash follows what was distilled last, and the copy that suppresses       *)
(* writes is what is there, through overlapping writes, decay and power loss *)
(* ("The offender list is rewritten only when it changes",                   *)
(* channel_hop_ep.c:269), unless a write was suppressed while another one,   *)
(* of another list, waited for the flash.  (Channel 0 passes for the         *)
(* rendezvous until the addresses are known, and is not in the copies then.) *)
RecordCurrent ==
  LET Known(off) == Picked(off, {i \in DOMAIN off : off[i].channel # Zero}) IN
  saves = <<>> /\ ~suppressed =>
    Known(flash.off) = Known(m_off_buf) /\ m_saved_off = m_off_buf

(* On a link the rendezvous channel is not avoided, whatever a record of     *)
(* another configuration says ("in case a stale NVS record promoted it",     *)
(* channel_hop_ep.c:1328).                                                   *)
RendezvousNotAvoided == linked => Rendezvous \notin avoided

(* A channel that is left alone does not stay avoided for ever, though the   *)
(* keyboard is switched off and on again, if now and then a minute of a      *)
(* session is written: time counted survives ("progress toward the next      *)
(* DECAY_S period survives reboots", channel_hop_ep.c:260).                  *)
OffenderAgesOut ==
  <>[][PowerLoss => counted]_vars =>
    \A c \in Channels : <>[][~HopsFrom(c)]_vars => []<>(c \notin avoided)

=============================================================================
