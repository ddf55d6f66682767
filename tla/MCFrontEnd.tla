----------------------------- MODULE MCFrontEnd -----------------------------
(* Constants of the frontend run: what happens in each situation.           *)
EXTENDS HwcDisplay

Quiet == [app |-> 1, frames |-> 6, sessions |-> 0, moves |-> 0, resizes |-> 0, fails |-> 0,
          kinds |-> {"ui"}, sink |-> {}, other |-> FALSE, swaps |-> 0, ways |-> {},
          mode |-> 1, configs |-> "single", fixed |-> 0, wishes |-> {}]
Wish(m) == <<"property", m>>
Situations ==
  { \* a long recording, by the VOP and by RGA, and with a change of size
    [Quiet EXCEPT !.frames = 5, !.sessions = 1],
    [Quiet EXCEPT !.frames = 4, !.sessions = 1, !.mode = 3],
    [Quiet EXCEPT !.frames = 1, !.sessions = 1, !.resizes = 1, !.wishes = {Wish(3)}],
    \* recordings one after the other and at once, and some that are not served
    [Quiet EXCEPT !.frames = 1, !.sessions = 2],
    [Quiet EXCEPT !.frames = 1, !.sessions = 3],
    [Quiet EXCEPT !.frames = 1, !.sessions = 1, !.moves = 1, !.other = TRUE],
    \* all that can stand still, and all that a sink is sent
    [Quiet EXCEPT !.app = 2, !.frames = 3, !.moves = 1,
                  !.kinds = {"ui", "large", "accelerated", "empty"}],
    [Quiet EXCEPT !.app = 3, !.frames = 3, !.fails = 1,
                  !.kinds = {"ui", "pq", "pq10", "hlg10"}, !.sink = {"pq", "hlg"}],
    [Quiet EXCEPT !.app = 2, !.frames = 3, !.kinds = {"yuv10", "hlg10"}, !.sink = {"pq"}],
    \* buffers of layers that come and go
    [Quiet EXCEPT !.app = 2, !.frames = 2, !.kinds = {"yuv"}, !.swaps = 3, !.ways = {"id"}],
    [Quiet EXCEPT !.app = 2, !.frames = 2, !.kinds = {"yuv"}, !.swaps = 2, !.ways = {"slot"}],
    [Quiet EXCEPT !.app = 2, !.frames = 1, !.kinds = {"yuv", "empty"}, !.swaps = 2, !.ways = {"uncached"},
                  !.fails = 1, !.moves = 1],
    \* modes asked for by the settings and by SurfaceFlinger
    [Quiet EXCEPT !.frames = 2, !.resizes = 1, !.moves = 1, !.wishes = {Wish(2)}],
    [Quiet EXCEPT !.frames = 1, !.resizes = 2, !.wishes = {Wish(3), Wish(Unlisted), <<"base", 4>>}],
    [Quiet EXCEPT !.frames = 3, !.resizes = 1, !.fails = 1, !.wishes = {Wish(2)}],
    [Quiet EXCEPT !.frames = 2, !.resizes = 1, !.wishes = {Wish(2)}, !.fixed = 2],
    [Quiet EXCEPT !.frames = 2, !.resizes = 1, !.wishes = {Wish(2)}, !.configs = "static"],
    [Quiet EXCEPT !.frames = 1, !.resizes = 2, !.fails = 1, !.mode = 5, !.configs = "standard"],
    [Quiet EXCEPT !.frames = 1, !.resizes = 1, !.moves = 2, !.mode = 5, !.configs = "standard"]
  }
=============================================================================
