------------------------------ MODULE MCStream ------------------------------
(* Two displays of one CRTC being streamed to: no power-off, no hotplug and  *)
(* no failing call, in both queueing modes.                                  *)
EXTENDS DisplayCompositor

Promise == INSTANCE ReleaseTimeline WITH
  issued <- created, shown <- screen, released <- timeline

(* The compositor keeps the promise of ReleaseTimeline.                      *)
KeepsPromise == Promise!Spec
=============================================================================
