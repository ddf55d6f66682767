----------------------------- MODULE MCSideband -----------------------------
(* Constants of the video run.                                              *)
EXTENDS SidebandStream

\* A producer may get ahead of the display with four buffers, two displays
\* hold one of three each, and a display switches between the smaller two.
Pools == << {"a", "b", "c", "d"}, {"p", "q", "r"}, {"u", "v"}, {"x"} >>

On0(ts) == [d \in Displays |-> IF d = 0 THEN ts ELSE {}]
Plain   == [shows |-> On0({1}), rotated |-> {}, cleared |-> {0}, faults |-> {}]
Situations ==
  { [Plain EXCEPT !.shows = On0({0, 2}), !.cleared = {}, !.faults = {"commit"}],
    [Plain EXCEPT !.faults = {"reject", "fence"}],
    [Plain EXCEPT !.faults = {"import"}],
    [Plain EXCEPT !.shows = On0({2}), !.cleared = {}, !.rotated = {0}],
    [Plain EXCEPT !.shows = On0({3, 4}), !.cleared = {}, !.faults = {"connect"}],
    [Plain EXCEPT !.shows = [d \in Displays |-> IF d > 0 THEN {2} ELSE {}], !.cleared = {}] }
=============================================================================
