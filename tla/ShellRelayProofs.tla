-------------------------- MODULE ShellRelayProofs --------------------------
(***************************************************************************)
(* Theorems about ShellRelay, for an output buffer of any size.  The type  *)
(* invariant and TimersMatchSession are inductive; OutputHasRunner is so   *)
(* together with the type invariant.                                       *)
(***************************************************************************)
EXTENDS ShellRelay, TLAPS

(* The steps that leave the session's flag, its timers and its output alone. *)
Aside ==
  \/ CooldownPasses \/ esb_shell_relay_request \/ OnStrayInput \/ UnpairKey
  \/ (\E kind \in air : Delivered(kind) \/ Lost(kind))
  \/ KeyTyped \/ PeerAsks

(* Such a step changes nothing the invariants below speak of. *)
LEMMA AsideKeeps ==
  ASSUME Aside
  PROVE  UNCHANGED <<active, works, out, local>>
  BY DEF Aside, CooldownPasses, esb_shell_relay_request, OnStrayInput, UnpairKey,
         Delivered, Lost, KeyTyped, PeerAsks, local

(* What the buffer holds after one more packet. *)
LEMMA EnqueuedFits ==
  ASSUME ShellTypeOK
  PROVE  Enqueued \in 0..BUF
  BY ShellAssumption DEF ShellAssumption, ShellTypeOK, Enqueued

(* An empty buffer, and one with the prompt in it, are buffers. *)
LEMMA RoomForPrompt == 0 \in 0..BUF /\ 1 \in 0..BUF
  BY ShellAssumption DEF ShellAssumption

LEMMA TypeInit == Init => ShellTypeOK
  BY RoomForPrompt DEF Init, ShellTypeOK, Works

LEMMA TypeStep == ShellTypeOK /\ [Next]_vars => ShellTypeOK'
<1> SUFFICES ASSUME ShellTypeOK, [Next]_vars
             PROVE  ShellTypeOK'
  OBVIOUS
<1> USE ShellAssumption DEF ShellAssumption, ShellTypeOK, Works, local
<1>1. CASE shell_poll_work_fn
  BY <1>1 DEF shell_poll_work_fn, MaySend
<1>2. CASE inactivity_work_fn
  BY <1>2, RoomForPrompt DEF inactivity_work_fn, Resets, MaySend
<1>3. CASE bg_poll_work_fn
  BY <1>3 DEF bg_poll_work_fn, MaySend
<1>4. ASSUME NEW n \in 0..out, out_drain_work_fn(n)
      PROVE  ShellTypeOK'
  <2>1. out' \in 0..BUF
    BY <1>4 DEF out_drain_work_fn
  <2>2. works' \subseteq Works
    BY <1>4 DEF out_drain_work_fn
  <2>3. air' \subseteq {"STOP", "START", "session", "other"}
    BY <1>4 DEF out_drain_work_fn
  <2> QED
    BY <1>4, <2>1, <2>2, <2>3 DEF out_drain_work_fn
<1>5. CASE stdout_flush_work_fn
  BY <1>5, EnqueuedFits DEF stdout_flush_work_fn
<1>6. CASE esb_shell_relay_on_req
  BY <1>6, RoomForPrompt DEF esb_shell_relay_on_req, Session
<1>7. CASE OnInput
  BY <1>7, EnqueuedFits DEF OnInput
<1>8. CASE OnStrayInput
  BY <1>8 DEF OnStrayInput, MaySend
<1>9. CASE CooldownPasses
  BY <1>9 DEF CooldownPasses
<1>10. CASE esb_shell_relay_on_connected
  BY <1>10, RoomForPrompt DEF esb_shell_relay_on_connected
<1>11. CASE esb_shell_relay_on_disconnected
  BY <1>11, RoomForPrompt DEF esb_shell_relay_on_disconnected, Resets
<1>12. CASE UnpairKey
  BY <1>12 DEF UnpairKey
<1>13. CASE esb_shell_relay_request
  BY <1>13 DEF esb_shell_relay_request, MaySend
<1>14. CASE esb_shell_relay_notify_tx
  BY <1>14 DEF esb_shell_relay_notify_tx
<1>15. CASE Reboot
  BY <1>15, RoomForPrompt DEF Reboot
<1>16. CASE CmdPrints
  <2>1. out' \in 0..BUF
    BY <1>16, EnqueuedFits DEF CmdPrints
  <2>2. works' \subseteq Works
    BY <1>16 DEF CmdPrints
  <2> QED
    BY <1>16, <2>1, <2>2 DEF CmdPrints
<1>17. CASE esb_cmd_done
  <2>1. out' \in 0..BUF
    BY <1>17, EnqueuedFits DEF esb_cmd_done
  <2>2. works' \subseteq Works
    BY <1>17 DEF esb_cmd_done
  <2> QED
    BY <1>17, <2>1, <2>2 DEF esb_cmd_done
<1>18. CASE esb_stdout_hook
  BY <1>18 DEF esb_stdout_hook
<1>19. CASE esb_log_backend_process
  <2>1. out' \in 0..BUF
    BY <1>19, EnqueuedFits DEF esb_log_backend_process
  <2>2. works' \subseteq Works
    BY <1>19 DEF esb_log_backend_process
  <2> QED
    BY <1>19, <2>1, <2>2 DEF esb_log_backend_process
<1>20. ASSUME NEW kind \in air, Delivered(kind) \/ Lost(kind)
       PROVE  ShellTypeOK'
  <2>1. CASE Delivered(kind)
    <3>1. peer' \in {"off", "asks", "on"}
      BY <2>1 DEF Delivered
    <3>2. rx' \in {"none", "REQ", "DATA"}
      BY <2>1 DEF Delivered, Answers
    <3> QED
      BY <2>1, <3>1, <3>2 DEF Delivered
  <2>2. CASE Lost(kind)
    BY <2>2 DEF Lost
  <2> QED
    BY <1>20, <2>1, <2>2
<1>21. CASE KeyTyped
  BY <1>21 DEF KeyTyped, MaySend
<1>22. CASE PeerAsks
  BY <1>22 DEF PeerAsks
<1>23. CASE UNCHANGED vars
  BY <1>23 DEF vars
<1> QED
  BY <1>1, <1>2, <1>3, <1>4, <1>5, <1>6, <1>7, <1>8, <1>9, <1>10, <1>11, <1>12,
     <1>13, <1>14, <1>15, <1>16, <1>17, <1>18, <1>19, <1>20, <1>21, <1>22, <1>23
  DEF Next

(* The relay's variables keep their types and the output buffer never holds *)
(* more than it has room for.                                               *)
THEOREM ShellTypeCorrect == Spec => []ShellTypeOK
  BY TypeInit, TypeStep, PTL DEF Spec

-----------------------------------------------------------------------------
LEMMA TimersInit == Init => TimersMatchSession
  BY DEF Init, TimersMatchSession

LEMMA TimersStep == TimersMatchSession /\ [Next]_vars => TimersMatchSession'
<1> SUFFICES ASSUME TimersMatchSession, [Next]_vars
             PROVE  TimersMatchSession'
  OBVIOUS
<1> USE DEF TimersMatchSession
<1>1. CASE shell_poll_work_fn
  BY <1>1 DEF shell_poll_work_fn
<1>2. CASE inactivity_work_fn
  BY <1>2 DEF inactivity_work_fn, Resets, Session
<1>3. CASE bg_poll_work_fn
  BY <1>3 DEF bg_poll_work_fn
<1>4. ASSUME NEW n \in 0..out, out_drain_work_fn(n)
      PROVE  TimersMatchSession'
  BY <1>4 DEF out_drain_work_fn
<1>5. CASE stdout_flush_work_fn
  BY <1>5 DEF stdout_flush_work_fn
<1>6. CASE esb_shell_relay_on_req
  BY <1>6 DEF esb_shell_relay_on_req, Session
<1>7. CASE OnInput
  BY <1>7 DEF OnInput
<1>8. CASE esb_shell_relay_on_connected
  BY <1>8 DEF esb_shell_relay_on_connected, Session
<1>9. CASE esb_shell_relay_on_disconnected
  BY <1>9 DEF esb_shell_relay_on_disconnected, Resets, Session
<1>10. CASE esb_shell_relay_notify_tx
  BY <1>10 DEF esb_shell_relay_notify_tx
<1>11. CASE Reboot
  BY <1>11 DEF Reboot
<1>12. CASE CmdPrints
  BY <1>12 DEF CmdPrints
<1>13. CASE esb_cmd_done
  BY <1>13 DEF esb_cmd_done
<1>14. CASE esb_stdout_hook
  BY <1>14 DEF esb_stdout_hook
<1>15. CASE esb_log_backend_process
  BY <1>15 DEF esb_log_backend_process
<1>16. CASE Aside
  BY <1>16, AsideKeeps
<1>17. CASE UNCHANGED vars
  BY <1>17 DEF vars
<1> QED
  BY <1>1, <1>2, <1>3, <1>4, <1>5, <1>6, <1>7, <1>8, <1>9, <1>10, <1>11, <1>12,
     <1>13, <1>14, <1>15, <1>16, <1>17
  DEF Next, Aside

(* A session has its poll and its end, no session's end outlives it, and    *)
(* the two polls never run together (shell_relay.c's works).                *)
THEOREM TimersBelongToSession == Spec => []TimersMatchSession
  BY TimersInit, TimersStep, PTL DEF Spec

-----------------------------------------------------------------------------
LEMMA RunnerInit == Init => OutputHasRunner
  BY DEF Init, OutputHasRunner

LEMMA RunnerStep ==
  ShellTypeOK /\ OutputHasRunner /\ [Next]_vars => OutputHasRunner'
<1> SUFFICES ASSUME ShellTypeOK, OutputHasRunner, [Next]_vars
             PROVE  OutputHasRunner'
  OBVIOUS
<1> USE DEF OutputHasRunner, local
<1>1. CASE shell_poll_work_fn
  BY <1>1 DEF shell_poll_work_fn
<1>2. CASE inactivity_work_fn
  BY <1>2 DEF inactivity_work_fn, Resets
<1>3. CASE bg_poll_work_fn
  BY <1>3 DEF bg_poll_work_fn
<1>4. ASSUME NEW n \in 0..out, out_drain_work_fn(n)
      PROVE  OutputHasRunner'
  <2>1. CASE active /\ out' > 0
    BY <1>4, <2>1 DEF out_drain_work_fn
  <2>2. CASE ~(active /\ out' > 0)
    BY <1>4, <2>2 DEF out_drain_work_fn
  <2> QED
    BY <2>1, <2>2
(* The console's bytes move to the buffer, with a drain to send them. *)
<1>5. CASE stdout_flush_work_fn
  BY <1>5 DEF stdout_flush_work_fn
<1>6. CASE esb_shell_relay_on_req
  BY <1>6 DEF esb_shell_relay_on_req, Session
<1>7. CASE OnInput
  BY <1>7 DEF OnInput
<1>8. CASE esb_shell_relay_on_connected
  BY <1>8 DEF esb_shell_relay_on_connected
<1>9. CASE esb_shell_relay_on_disconnected
  BY <1>9 DEF esb_shell_relay_on_disconnected, Resets
<1>10. CASE esb_shell_relay_notify_tx
  BY <1>10 DEF esb_shell_relay_notify_tx
<1>11. CASE Reboot
  BY <1>11 DEF Reboot
<1>12. CASE CmdPrints
  BY <1>12 DEF CmdPrints
<1>13. CASE esb_cmd_done
  <2>1. cmd \in {"running", "slept", "prompted"}
    BY <1>13 DEF esb_cmd_done, ShellTypeOK
  <2> QED
    BY <1>13, <2>1 DEF esb_cmd_done
<1>14. CASE esb_stdout_hook
  BY <1>14 DEF esb_stdout_hook
<1>15. CASE esb_log_backend_process
  BY <1>15 DEF esb_log_backend_process
<1>16. CASE Aside
  BY <1>16, AsideKeeps
<1>17. CASE UNCHANGED vars
  BY <1>17 DEF vars
<1> QED
  BY <1>1, <1>2, <1>3, <1>4, <1>5, <1>6, <1>7, <1>8, <1>9, <1>10, <1>11, <1>12,
     <1>13, <1>14, <1>15, <1>16, <1>17
  DEF Next, Aside

(* Output that waits in a session is sent, or about to be scheduled, however *)
(* commands, the console and the log interleave with the session's start and *)
(* end (out_drain_kick and stdout_flush_work in shell_relay.c).              *)
THEOREM OutputIsDrained == Spec => []OutputHasRunner
  BY TypeInit, TypeStep, RunnerInit, RunnerStep, PTL DEF Spec
=============================================================================
