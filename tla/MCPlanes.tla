------------------------------ MODULE MCPlanes ------------------------------
(* Constants of the Vop3588 runs: a display with three windows of two       *)
(* clusters and two Esmart groups of two areas each.                         *)
EXTENDS Vop3588

AllGroups == << <<"c0w0">>, <<"c0w1">>, <<"c1w0">>, <<"e0w0", "e0w1">>,
                <<"e1w0", "e1w1">> >>
AllClusters == [w \in {"c0w0", "c0w1", "c1w0", "e0w0", "e0w1", "e1w0", "e1w1"} |->
                  CASE w \in {"c0w0", "c0w1"} -> 0 [] w = "c1w0" -> 1 [] OTHER -> -1]
SecondWindows == {"c0w1"}
Cluster1AndEsmart1 == {3, 5}

ScreenOf == [m \in {"4k", "4k120", "8k"} |->
               [w |-> IF m = "8k" THEN 7680 ELSE 3840,
                h |-> IF m = "8k" THEN 4320 ELSE 2160, hdr |-> m # "4k120"]]

\* A full-screen UI of the GPU, the layers below differ from it in a few ways.
Ui == [w |-> 1920, h |-> 1080, left |-> 0, top |-> 0, dw |-> 3840, dh |-> 2160,
       fmt |-> "rgb", afbc |-> TRUE, rot |-> "0", aligned |-> TRUE,
       alpha |-> 255, sf |-> "device", hdr |-> FALSE, sideband |-> FALSE,
       hand |-> FALSE, best |-> "any"]
At(l, top, dw, dh) == [l EXCEPT !.w = dw, !.h = dh, !.top = top, !.dw = dw, !.dh = dh]
StatusBar == At([Ui EXCEPT !.afbc = FALSE], 0, 1920, 80)
NavBar    == At([Ui EXCEPT !.afbc = FALSE], 2000, 1920, 80)
Pen       == At([Ui EXCEPT !.afbc = FALSE, !.hand = TRUE], 500, 800, 800)
Dialog    == At(Ui, 600, 1200, 900)
Video     == [Ui EXCEPT !.fmt = "yuv", !.w = 3840, !.h = 2160, !.dw = 1280,
                        !.dh = 720, !.hdr = TRUE]
Turned    == [Ui EXCEPT !.fmt = "yuv", !.afbc = FALSE, !.rot = "90",
                        !.dw = 540, !.dh = 960, !.left = 1301, !.top = 100]
Tv        == [Ui EXCEPT !.fmt = "yuv", !.afbc = FALSE, !.sideband = TRUE]
Blurred   == [Ui EXCEPT !.sf = "client", !.afbc = FALSE]
Sliver    == At(Ui, 1000, 1920, 2)

Stacks3 ==
  LET kinds == {Ui, StatusBar, NavBar, Pen, Dialog, Video, Turned, Tv, Blurred, Sliver}
  IN UNION {[1 .. n -> kinds] : n \in 1 .. 2}
       \cup {s \in [1 .. 3 -> kinds] : s[1] \in {Ui, Tv, Video, StatusBar}}
Stacks4 ==
  {s \in [1 .. 4 -> {Ui, StatusBar, NavBar, Video, Turned, Dialog, Blurred}] :
     s[1] = Ui /\ \A i, j \in 1 .. 4 : i < j => s[i] # s[j]}
AnyStack == Stacks3 \cup Stacks4

Normal == [compose |-> 1, gles |-> FALSE, mode |-> "4k", split |-> "no",
           bound |-> FALSE, afbc |-> FALSE, rot |-> "0", rga |-> TRUE]
Primary == [Normal EXCEPT !.split = "primary"]
AnySetting ==
  {Normal, [Normal EXCEPT !.rga = FALSE], [Normal EXCEPT !.mode = "4k120"],
   [Normal EXCEPT !.mode = "8k"], [Normal EXCEPT !.gles = TRUE], Primary,
   [Normal EXCEPT !.split = "secondary"]}
     \cup {[Primary EXCEPT !.bound = TRUE, !.rot = r, !.afbc = a] :
             r \in {"0", "90"}, a \in BOOLEAN}
=============================================================================
