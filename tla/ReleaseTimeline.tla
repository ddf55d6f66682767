-------------------------- MODULE ReleaseTimeline --------------------------
(***************************************************************************)
(* What SurfaceFlinger relies on from a display that is being streamed to: *)
(* frames are issued with consecutive release-fence values, each display   *)
(* shows frames in the order of issue, possibly skipping some, and the     *)
(* fences signal in that order and only of frames a newer one has replaced *)
(* on the screen.                                                          *)
(***************************************************************************)
EXTENDS Integers

CONSTANT Displays

VARIABLES
  issued,    \* frames handed to the display, numbered from 1
  shown,     \* the frame on the screen, 0 for none
  released   \* frames 1..released may be drawn into again

vars == <<issued, shown, released>>

Init ==
  /\ issued = [d \in Displays |-> 0]
  /\ shown = [d \in Displays |-> 0]
  /\ released = [d \in Displays |-> 0]

Issue(d) ==
  /\ issued' = [issued EXCEPT ![d] = @ + 1]
  /\ UNCHANGED <<shown, released>>

\* One commit may update several displays of the CRTC.
Show ==
  /\ \A d \in Displays :
       \/ shown'[d] = shown[d]
       \/ shown'[d] > released[d] /\ shown'[d] \in (shown[d] + 1)..issued[d]
  /\ DOMAIN shown' = Displays
  /\ UNCHANGED <<issued, released>>

Release ==
  /\ \A d \in Displays :
       \/ released'[d] = released[d]
       \/ released'[d] \in (released[d] + 1)..(shown[d] - 1)
  /\ DOMAIN released' = Displays
  /\ UNCHANGED <<issued, shown>>

\* A display that shows nothing, such as one that is off, may refuse a frame.
Refuse(d) ==
  /\ shown[d] = 0
  /\ released[d] + 1 = issued[d]
  /\ released' = [released EXCEPT ![d] = issued[d]]
  /\ UNCHANGED <<issued, shown>>

Next == (\E d \in Displays : Issue(d) \/ Refuse(d)) \/ Show \/ Release

Spec == Init /\ [][Next]_vars
=============================================================================
