----------------------------- MODULE MCHotplug -----------------------------
(* Constants of the DisplayHotplug runs: two displays and two CRTCs.         *)
EXTENDS DisplayHotplug

\* Each connector has a CRTC of its own, or display 1 may use either.
OwnCrtc == [d \in Displays |-> {d + 1}]
SharedCrtc == [d \in Displays |-> IF d = 0 THEN {2} ELSE {1, 2}]

\* Display 0 may take display 1's CRTC.
InOrder == [d \in Displays |-> d + 1]

\* CRTC 1 outputs the small mode only.
Capability == [c \in Crtcs |-> c]
Unlimited == [c \in Crtcs |-> 2]

\* The boot loader may have lit any of the displays on CRTCs it could use.
Dark == [d \in Displays |-> NoCrtc]
AnyBoot ==
  {k \in [Displays -> Crtcs \cup {NoCrtc}] : \A d \in Displays :
     k[d] # NoCrtc => k[d] \in Possible[d] /\ \A e \in Displays \ {d} : k[e] # k[d]}
DarkBoot == {Dark}

\* Display 1 lit on the only CRTC that display 0 can use, or nothing lit.
TakenBoot == {Dark, [Dark EXCEPT ![1] = 2]}
============================================================================
