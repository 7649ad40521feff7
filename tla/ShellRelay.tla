----------------------------- MODULE ShellRelay -----------------------------
(***************************************************************************)
(* shell_relay.c: a shell session the dongle asks for.  Its packets reach  *)
(* the keyboard only as payloads of acknowledgements, so a session lives   *)
(* by what the keyboard sends: polls while it is active, a background poll *)
(* while it is not.                                                        *)
(*                                                                         *)
(* Timers, received packets and the connect and disconnect hooks run on    *)
(* threads that nothing preempts and are one action each.  Output comes    *)
(* from other threads: a command's, and whatever thread prints or logs;    *)
(* they are split between what they read, write and schedule.  The relay   *)
(* core (zmk_shell_relay.h) is external: a buffer and a thread that runs   *)
(* commands.  The dongle is external too: it does what the comments say it *)
(* does.  Output is counted in packets, commands are not told apart.       *)
(***************************************************************************)
EXTENDS Naturals, FiniteSets

CONSTANTS
  BUF \* packets the relay core's output buffer holds

ASSUME ShellAssumption == BUF \in Nat \ {0}

Works == {"poll", "inactivity", "drain", "flush", "bg_poll"}
Session == {"poll", "inactivity", "drain"}

VARIABLES
  up,       \* pairing says CONNECTED
  active,   \* m_shell_active
  works,    \* the delayable works that are scheduled
  out,      \* packets in the relay core's buffer
  line,     \* stdout_buf holds something
  cooldown, \* the last SHELL_STOP nudge is recent
  cmd,      \* the command thread: "idle", "running", "slept", "prompted"
  hook,     \* a printing thread: "idle", "tested", "stored"
  log,      \* the log thread: "idle", "newline" (queued, not yet the message)
  air,      \* the keyboard's packets on their way to the dongle: "STOP", "START",
            \* "session" (POLL and DATA), "other" (a background poll, a report)
  rx,       \* the packet in the keyboard's mailbox: "none", "REQ", "DATA"
  peer      \* the dongle: "off", "asks" (it wants a session), "on"

local == <<line, cmd, hook, log>>
vars == <<up, active, works, out, cooldown, local, air, rx, peer>>

Init ==
  /\ up = FALSE /\ active = FALSE /\ works = {} /\ out = 0 /\ line = FALSE
  /\ cooldown = FALSE
  /\ cmd = "idle" /\ hook = "idle" /\ log = "idle"
  /\ air = {} /\ rx = "none" /\ peer = "off"

(* esb_transport_send may refuse: the senders here ignore that. *)
MaySend(kind) == air' \in {air, air \cup {kind}}

Enqueued == IF out < BUF THEN out + 1 ELSE out

-----------------------------------------------------------------------------
(* Timers *)

(* Faulty variant: only a poll that was sent is followed by another. *)
shell_poll_work_fn_gives_up ==
  /\ "poll" \in works
  /\ \/ active /\ air' = air \cup {"session"} /\ UNCHANGED works
     \/ works' = works \ {"poll"} /\ UNCHANGED air
  /\ UNCHANGED <<up, active, out, cooldown, local, rx, peer>>

(* A poll the transport refuses is followed by another all the same. *)
shell_poll_work_fn ==
  /\ "poll" \in works
  /\ IF active THEN MaySend("session") /\ UNCHANGED works
               ELSE works' = works \ {"poll"} /\ UNCHANGED air
  /\ UNCHANGED <<up, active, out, cooldown, local, rx, peer>>

(* The end of a session: the timers, the buffers, the commands not yet run. *)
Resets(cancelled) ==
  /\ active' = FALSE /\ works' = works \ (cancelled \cup {"flush"})
  /\ out' = 0 /\ line' = FALSE

inactivity_work_fn ==
  /\ "inactivity" \in works
  /\ Resets(Session) /\ MaySend("STOP")
  /\ UNCHANGED <<up, cooldown, cmd, hook, log, rx, peer>>

(* Only if there has been activity lately, if a threshold is set. *)
bg_poll_work_fn ==
  /\ "bg_poll" \in works
  /\ IF active THEN works' = works \ {"bg_poll"} /\ UNCHANGED air
               ELSE MaySend("other") /\ UNCHANGED works
  /\ UNCHANGED <<up, active, out, cooldown, local, rx, peer>>

(* Faulty variant: a packet is taken from the buffer when it is claimed, and *)
(* again when it has been sent.                                              *)
out_drain_work_fn_finishes_twice(n) ==
  /\ "drain" \in works
  /\ IF ~active THEN n = 0 /\ UNCHANGED <<out, air>> ELSE
       out' = out - 2 * n /\ air' = IF n > 0 THEN air \cup {"session"} ELSE air
  /\ works' = IF active /\ out' > 0 THEN works ELSE works \ {"drain"}
  /\ UNCHANGED <<up, active, cooldown, local, rx, peer>>

(* It sends until the transport refuses (quiet, its FIFO half full, an error *)
(* that drops the packet): n packets leave the buffer.                       *)
out_drain_work_fn(n) ==
  /\ "drain" \in works
  /\ IF ~active THEN n = 0 /\ UNCHANGED <<out, air>> ELSE
       out' = out - n /\ air' = IF n > 0 THEN air \cup {"session"} ELSE air
  /\ works' = IF active /\ out' > 0 THEN works ELSE works \ {"drain"}
  /\ UNCHANGED <<up, active, cooldown, local, rx, peer>>

stdout_flush_work_fn ==
  /\ "flush" \in works /\ line' = FALSE
  /\ IF line /\ active
       THEN out' = Enqueued /\ works' = (works \ {"flush"}) \cup {"drain"}
       ELSE works' = works \ {"flush"} /\ UNCHANGED out
  /\ UNCHANGED <<up, active, cooldown, cmd, hook, log, air, rx, peer>>

-----------------------------------------------------------------------------
(* Packets of the dongle *)

(* Faulty variant: the flush is cancelled, the console's bytes are kept. *)
esb_shell_relay_on_req_keeps_line ==
  /\ rx = "REQ" /\ rx' = "none"
  /\ IF active
       THEN UNCHANGED <<active, works, out>>
       ELSE /\ active' = TRUE /\ out' = 1
            /\ works' = (works \ {"flush", "bg_poll"}) \cup Session
  /\ UNCHANGED <<up, cooldown, local, air, peer>>

(* The prompt is the first thing a new session sends. *)
esb_shell_relay_on_req ==
  /\ rx = "REQ" /\ rx' = "none"
  /\ IF active
       THEN UNCHANGED <<active, works, out, line>>
       ELSE /\ active' = TRUE /\ out' = 1 /\ line' = FALSE
            /\ works' = (works \ {"flush", "bg_poll"}) \cup Session
  /\ UNCHANGED <<up, cooldown, cmd, hook, log, air, peer>>

(* Typed bytes: echo of an erase, a command for the relay core, or neither. *)
OnInput ==
  /\ rx = "DATA" /\ active /\ rx' = "none"
  /\ \/ UNCHANGED <<out, works, cmd>>
     \/ out' = Enqueued /\ works' = works \cup {"drain"} /\ UNCHANGED cmd
     \/ cmd = "idle" /\ cmd' = "running" /\ UNCHANGED <<out, works>>
  /\ UNCHANGED <<up, active, cooldown, line, hook, log, air, peer>>

(* Faulty variant: input without a session is ignored. *)
OnStrayInput_ignored ==
  /\ rx = "DATA" /\ ~active /\ rx' = "none"
  /\ UNCHANGED <<up, active, works, out, cooldown, local, air, peer>>

(* Input without a session: the dongle thinks there is one; it is told, but *)
(* not more often than the cooldown allows, sent or not.                    *)
OnStrayInput ==
  /\ rx = "DATA" /\ ~active /\ rx' = "none"
  /\ IF cooldown THEN UNCHANGED <<air, cooldown>>
                 ELSE cooldown' = TRUE /\ MaySend("STOP")
  /\ UNCHANGED <<up, active, works, out, local, peer>>

CooldownPasses ==
  /\ cooldown /\ cooldown' = FALSE
  /\ UNCHANGED <<up, active, works, out, local, air, rx, peer>>

-----------------------------------------------------------------------------
(* Connect, disconnect, the key, and interrupts *)

esb_shell_relay_on_connected ==
  /\ ~up /\ up' = TRUE
  /\ active' = FALSE /\ out' = 0 /\ line' = FALSE
  /\ works' = (works \ (Session \cup {"flush"})) \cup {"bg_poll"}
  /\ UNCHANGED <<cooldown, cmd, hook, log, air, rx, peer>>

(* A disconnect outside a session leaves the buffers alone. *)
esb_shell_relay_on_disconnected ==
  /\ up /\ up' = FALSE
  /\ IF active
       THEN Resets(Session \cup {"bg_poll"})
       ELSE works' = works \ {"bg_poll"} /\ UNCHANGED <<active, out, line>>
  /\ UNCHANGED <<cooldown, cmd, hook, log, air, rx, peer>>

(* The unpair key leaves CONNECTED without telling the relay. *)
UnpairKey ==
  /\ up /\ up' = FALSE
  /\ UNCHANGED <<active, works, out, cooldown, local, air, rx, peer>>

(* The shell key. *)
esb_shell_relay_request ==
  /\ ~active /\ MaySend("START")
  /\ UNCHANGED <<up, active, works, out, cooldown, local, rx, peer>>

(* Every success or failure of a packet, in the ISR. *)
esb_shell_relay_notify_tx ==
  /\ active /\ out > 0 /\ works' = works \cup {"drain"}
  /\ UNCHANGED <<up, active, out, cooldown, local, air, rx, peer>>

(* Power comes back: only the dongle remembers the session. *)
Reboot ==
  /\ up' = FALSE /\ active' = FALSE /\ works' = {} /\ out' = 0 /\ line' = FALSE
  /\ cooldown' = FALSE /\ cmd' = "idle" /\ hook' = "idle" /\ log' = "idle"
  /\ air' = {} /\ rx' = "none"
  /\ UNCHANGED peer

-----------------------------------------------------------------------------
(* Threads that print *)

(* A command prints through the sink if there is one; the buffer takes it in *)
(* any case.                                                                 *)
CmdPrints ==
  /\ cmd = "running" /\ out' = Enqueued
  /\ works' = IF active THEN works \cup {"drain"} ELSE works
  /\ UNCHANGED <<up, active, cooldown, local, air, rx, peer>>

(* esb_cmd_done sleeps, then prompts, whatever became of the session. *)
esb_cmd_done ==
  /\ cmd # "idle"
  /\ cmd' = CASE cmd = "running" -> "slept" [] cmd = "slept" -> "prompted"
              [] cmd = "prompted" -> "idle"
  /\ out' = IF cmd = "slept" THEN Enqueued ELSE out
  /\ works' = IF cmd = "prompted" THEN works \cup {"drain"} ELSE works
  /\ UNCHANGED <<up, active, cooldown, line, hook, log, air, rx, peer>>

(* A byte for the console: test, store, schedule. *)
esb_stdout_hook ==
  /\ \/ /\ hook = "idle" /\ active /\ hook' = "tested" /\ UNCHANGED <<line, works>>
     \/ /\ hook = "tested" /\ hook' = "stored" /\ line' = TRUE /\ UNCHANGED works
     \/ /\ hook = "stored" /\ hook' = "idle" /\ works' = works \cup {"flush"}
        /\ UNCHANGED line
  /\ UNCHANGED <<up, active, out, cooldown, cmd, log, air, rx, peer>>

(* A log message: a newline ahead of it if the cursor is not at a line start, *)
(* then the text, if there still is a session.                                *)
esb_log_backend_process ==
  /\ \/ log = "idle" /\ active /\ log' = "newline" /\ out' \in {out, Enqueued}
        /\ UNCHANGED works
     \/ log = "newline" /\ log' = "idle"
        /\ IF active THEN out' = Enqueued /\ works' = works \cup {"drain"}
                     ELSE UNCHANGED <<out, works>>
  /\ UNCHANGED <<up, active, cooldown, line, cmd, hook, air, rx, peer>>

-----------------------------------------------------------------------------
(* The dongle and the link *)

(* A packet arrives, and its acknowledgement may bring one back.  START asks *)
(* for a session; STOP resets the dongle, which may ask again; POLL and DATA *)
(* tell it that the session has begun.                                       *)
Answers(p) ==
  CASE p = "asks" -> {"none", "REQ"} [] p = "on" -> {"none", "DATA"}
    [] OTHER -> {"none"}

Delivered(kind) ==
  /\ up /\ kind \in air /\ air' = air \ {kind}
  /\ peer' \in CASE kind = "STOP" -> {"off", "asks"}
                 [] kind = "START" -> {IF peer = "off" THEN "asks" ELSE peer}
                 [] kind = "session" -> {IF peer = "asks" THEN "on" ELSE peer}
                 [] OTHER -> {peer}
  /\ \E p \in Answers(peer) : rx' = IF p = "none" THEN rx ELSE p
  /\ UNCHANGED <<up, active, works, out, cooldown, local>>

Lost(kind) ==
  /\ kind \in air /\ air' = air \ {kind}
  /\ UNCHANGED <<up, active, works, out, cooldown, local, rx, peer>>

(* The user types: a key report. *)
KeyTyped ==
  /\ up /\ MaySend("other")
  /\ UNCHANGED <<up, active, works, out, cooldown, local, rx, peer>>

(* Somebody at the dongle opens a session. *)
PeerAsks ==
  /\ peer = "off" /\ peer' = "asks"
  /\ UNCHANGED <<up, active, works, out, cooldown, local, air, rx>>

Next ==
  \/ shell_poll_work_fn \/ inactivity_work_fn \/ bg_poll_work_fn
  \/ \E n \in 0..out : out_drain_work_fn(n)
  \/ stdout_flush_work_fn
  \/ esb_shell_relay_on_req \/ OnInput \/ OnStrayInput \/ CooldownPasses
  \/ esb_shell_relay_on_connected \/ esb_shell_relay_on_disconnected \/ UnpairKey
  \/ esb_shell_relay_request \/ esb_shell_relay_notify_tx \/ Reboot
  \/ CmdPrints \/ esb_cmd_done \/ esb_stdout_hook \/ esb_log_backend_process
  \/ \E kind \in air : Delivered(kind) \/ Lost(kind)
  \/ KeyTyped \/ PeerAsks

(* The clock runs; the user types now and then, of what is sent some        *)
(* arrives, a dongle that thinks itself in a session brings input back now   *)
(* and then, and the transport does not refuse every SHELL_STOP.             *)
Fairness ==
  /\ WF_vars(CooldownPasses) /\ WF_vars(OnStrayInput)
  /\ WF_vars(KeyTyped /\ air' # air)
  /\ SF_vars(Delivered("other") /\ rx' = "DATA") /\ SF_vars(Delivered("STOP"))
  /\ SF_vars(OnStrayInput /\ "STOP" \in air')

Spec == Init /\ [][Next]_vars /\ Fairness

-----------------------------------------------------------------------------
(* Properties *)

ShellTypeOK ==
  /\ up \in BOOLEAN /\ active \in BOOLEAN /\ line \in BOOLEAN /\ cooldown \in BOOLEAN
  /\ works \subseteq Works /\ out \in 0..BUF
  /\ cmd \in {"idle", "running", "slept", "prompted"}
  /\ hook \in {"idle", "tested", "stored"} /\ log \in {"idle", "newline"}
  /\ air \subseteq {"STOP", "START", "session", "other"}
  /\ rx \in {"none", "REQ", "DATA"} /\ peer \in {"off", "asks", "on"}

(* A session polls, or it would hear nothing more, and has the timer that    *)
(* ends it; no such timer runs on into the next session, and the background  *)
(* poll never competes with a session's.                                     *)
TimersMatchSession ==
  /\ active => {"poll", "inactivity"} \subseteq works
  /\ "inactivity" \in works => active
  /\ ~({"poll", "bg_poll"} \subseteq works)

(* Output that waits in a session will be sent, and the console's bytes that *)
(* wait flushed in the session they were stored in: the drain or the flush   *)
(* is scheduled, or the thread that stored them is about to schedule it.     *)
OutputHasRunner ==
  active =>
    /\ out > 0 => "drain" \in works \/ cmd = "prompted" \/ log = "newline"
    /\ line => "flush" \in works \/ hook = "stored"

(* A dongle that thinks itself in a session the keyboard has forgotten       *)
(* (a reboot, a lost SHELL_STOP) is told, or a new session starts, as long as *)
(* the link lasts.                                                            *)
PeerLearns == up /\ peer = "on" /\ ~active ~> ~up \/ peer # "on" \/ active

(* "While paired but idle, the keyboard sends a periodic SHELL_BG_POLL"      *)
(* (README.md:127).                                                          *)
PollsWhileIdle == up /\ ~active => "bg_poll" \in works

=============================================================================
