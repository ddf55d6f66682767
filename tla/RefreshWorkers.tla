--------------------------- MODULE RefreshWorkers ---------------------------
(***************************************************************************)
(* What makes SurfaceFlinger compose again when no application draws: the  *)
(* InvalidateWorker of the primary display, which calls back cnt times     *)
(* (for ever if cnt is negative), and the one-shot SIGALRM timer that is   *)
(* armed by every frame and asks for one more frame, composed by the GPU,  *)
(* once the screen stood still.                                            *)
(***************************************************************************)
EXTENDS Integers

VARIABLES
  control,  \* refresh_cnt_ of the primary's InvalidateWorker; its period is left out
  iw,       \* program counter of its thread
  wanted,   \* external: SurfaceFlinger was asked to compose a frame
  timerOn,  \* static_screen_timer_enable_
  armed,    \* external: the process's real-time interval timer
  opt,      \* static_screen_opt_
  calledOff \* history: were refreshes called off while the timer was not armed

refreshVars == <<control, iw, wanted, timerOn, armed, opt, calledOff>>

RefreshInit ==
  /\ control = 0 /\ iw = "wait" /\ wanted = FALSE
  /\ timerOn = FALSE /\ armed = FALSE /\ opt = FALSE /\ calledOff = FALSE

\* A request replaces the one before it and wakes the thread.
InvalidateControl(cnt) ==
  /\ control' = cnt
  /\ calledOff' = (calledOff \/ (cnt = 0 /\ ~armed))

\* Routine(): waits while there is nothing to do.  Woken by a request for no
\* refresh it goes round once without an effect, which is left out.
IwChecks ==
  /\ iw = "wait" /\ control # 0 /\ iw' = "sleep"
  /\ UNCHANGED <<control, wanted, timerOn, armed, opt, calledOff>>

\* Mutant: counted before it is tested.
CountedFirst == control > 1 \/ control < 0
Enabled == control > 0 \/ control < 0

\* It sleeps for one period, counts and calls back.
IwTicks ==
  /\ iw = "sleep" /\ iw' = "wait"
  /\ control' = IF control > 0 THEN control - 1 ELSE control
  /\ wanted' = (wanted \/ Enabled)
  /\ UNCHANGED <<timerOn, armed, opt, calledOff>>

\* After every frame: arm the timer anew, unless the frame was the one the
\* timer asked for or shows something that moves.
UpdateTimerState(glesComp) ==
  /\ armed' = (timerOn /\ glesComp)
  /\ opt' = (opt /\ timerOn /\ glesComp)
  /\ calledOff' = (calledOff /\ ~armed')

\* The timer's handler, on any thread.  The shortest time-out is longer than
\* the longest refresh period, so it cannot expire while the worker counts.
StaticScreenOptHandler ==
  /\ armed /\ control = 0
  /\ armed' = FALSE /\ opt' = TRUE
  /\ control' = 1
  /\ UNCHANGED <<iw, wanted, timerOn, calledOff>>

RefreshTypeOK ==
  /\ control \in -1 .. 2 /\ iw \in {"wait", "sleep"}
  /\ {wanted, timerOn, armed, opt, calledOff} \subseteq BOOLEAN
=============================================================================
