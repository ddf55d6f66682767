------------------------------ MODULE Vop3588 ------------------------------
(***************************************************************************)
(* How the layers of one frame are put on the windows of an RK3588 display *)
(* (rockchip/platform/rk3588/drmvop3588.cpp): MatchPlane() finds a window  *)
(* for each layer, the policies decide which layers are left to            *)
(* SurfaceFlinger's GPU composition, whose result, the FB target, then     *)
(* takes a window in their place, and TryHwcPolicy() runs the policies in  *)
(* order until one fits.  An action is one policy of TryHwcPolicy().       *)
(*                                                                         *)
(* The layers of a frame are numbered from the bottom, FB is the FB        *)
(* target.  Sizes and positions are numbers where a limit depends on them, *)
(* formats and rotations are what the windows tell apart.  The SR and MEMC *)
(* policies (#ifdef, closed libraries) and the 4K layer budget             *)
(* (vendor.hwc.vop_max_overlay_4k_plane, off by default) are left out; so  *)
(* is the reuse of the last RGA result, which compares a layer's buffer    *)
(* with the id of the RGA's own buffer and never applies.                  *)
(***************************************************************************)
EXTENDS Integers, Sequences, FiniteSets, SequencesExt

CONSTANTS Groups,      \* the plane groups: a sequence of sequences of windows
          ClusterOf,   \* [window -> its cluster], -1 for an Esmart window
          SubWindows,  \* the second windows (win1) of the clusters
          ReservedIn8k,\* the indices of the groups 8K mode takes away
          Stacks,      \* the stacks of layers it sends
          Settings,    \* properties, display mode and split mode of a frame
          Screen,      \* [mode -> [w, h, hdr]] of the display
          MultiArea    \* vendor.hwc.multi_area_enable

FB == 0

VARIABLES layers,      \* the frame's layers, from the bottom
          fb,          \* the FB target as a layer
          here,        \* what the vector of layers still holds
          set,         \* the frame's settings
          setHwcPolicy,\* ctx.state.setHwcPolicy
          groups,      \* the groups ValidatePlanes() acquired
          bReserved,   \* the reserved groups
          composition, \* composition_planes_
          matched,     \* the vector MatchPlanes() found windows for
          rga,         \* the layer the RGA works for and what it replaced
          phase        \* the policy to try next, "done" or "failed"

vars == <<layers, fb, here, set, setHwcPolicy, groups, bReserved, composition,
          matched, rga, phase>>

Windows == UNION {ToSet(Groups[g]) : g \in DOMAIN Groups}
IsCluster(w) == ClusterOf[w] >= 0
Layer(id) == IF id = FB THEN fb ELSE layers[id]
Stack == SelectSeq([i \in 1 .. Len(layers) |-> i], LAMBDA i : i \in here)
Is8k == set.mode = "8k"
----------------------------------------------------------------------------
\* What a window accepts.  A ratio is <<source, target>>.

HScale(l) == IF l.rot = "90" THEN <<l.h, l.dw>> ELSE <<l.w, l.dw>>
VScale(l) == IF l.rot = "90" THEN <<l.w, l.dh>> ELSE <<l.h, l.dh>>
Scaled(l) == HScale(l)[1] # HScale(l)[2] \/ VScale(l)[1] # VScale(l)[2]
Shrunk(r, n) == r[1] > n * r[2]         \* shrunk by more than n
Grown(r, n) == n * r[1] < r[2]          \* enlarged by more than n

SupportFormat(w, l, afbc) ==
  IF IsCluster(w) THEN l.fmt # "none" /\ (afbc \/ l.fmt = "rgb")
                  ELSE l.fmt # "none" /\ ~afbc

SupportSize(w, h) ==
  /\ w >= 4 /\ h >= 4
  /\ IF Is8k THEN w <= 8096 /\ h <= 4320 ELSE w <= 4096 /\ h <= 4096

\* An Esmart window does not enlarge by 8 exactly, though it is its rate.
SupportRatio(w, r) ==
  IF IsCluster(w) THEN ~Shrunk(r, 4) /\ ~Grown(r, 4)
                  ELSE ~Shrunk(r, 8) /\ 8 * r[1] > r[2]

SupportRatio8k(w, r) ==
  IF IsCluster(w) THEN 10 * r[1] >= 9 * r[2] /\ 10 * r[1] <= 11 * r[2]
                  ELSE SupportRatio(w, r)

Centred(l) == /\ Screen[set.mode].w - (l.dw + 2 * l.left) < 2
              /\ Screen[set.mode].h - (l.dh + 2 * l.top) < 2

SupportScale(w, l) ==
  LET ratios == {HScale(l), VScale(l)} IN
  /\ IF Is8k /\ l.w > 4096
     THEN Centred(l) /\ \A r \in ratios : SupportRatio8k(w, r)
     ELSE /\ \A r \in ratios : SupportRatio(w, r)
          /\ (Is8k /\ l.w >= 3840) =>
               \/ \A r \in ratios : ~Shrunk(r, 1)
               \/ Centred(l) /\ \A r \in ratios : 10 * r[1] < 11 * r[2]
  /\ (set.mode = "4k120" /\ l.w >= 3840) => \A r \in ratios : ~Shrunk(r, 1)

\* A cluster rotates AFBC only; a sideband layer is rotated by its producer.
SupportTransform(w, l, afbc) ==
  \/ l.sideband
  \/ l.rot = "0"
  \/ /\ ~Is8k
     /\ l.rot \in (IF IsCluster(w) THEN {"x", "y", "90"} ELSE {"y"})
     /\ IsCluster(w) => afbc
     /\ l.rot \in {"x", "90"} => l.aligned
     /\ l.rot = "90" => l.h <= 2048

SupportLayer(w, l) ==
  /\ SupportSize(l.w, l.h) /\ SupportSize(l.dw, l.dh)
  /\ SupportScale(w, l)
  /\ l.hdr => Screen[set.mode].hdr
----------------------------------------------------------------------------
\* MatchPlane(): one combined group of layers, at one z position, onto the
\* windows of one plane group.  A matching state keeps the windows taken,
\* what is known of each cluster, and the FB target's AFBC flag.

UnusedCluster == [used |-> FALSE, z |-> -1, left |-> 0, fmt |-> "none",
                  afbc |-> FALSE, two |-> TRUE]

\* ResetPlaneGroups() and ResetLayer()
NothingMatched == [ok |-> TRUE, planes |-> <<>>, taken |-> {},
                   fbAfbc |-> fb.afbc,
                   clusters |-> [c \in {ClusterOf[w] : w \in Windows} |->
                                   UnusedCluster]]

InUse(m) == {m.planes[i].win : i \in DOMAIN m.planes}

\* Mutant: the second window does not ask what its first one shows.
TwoWinModeAlone(cl, l, afbc, zpos) ==
  cl.two /\ cl.left % 2 = l.left % 2 /\ l.w <= 2048 /\ l.dw <= 2048

\* The second window of a cluster only continues its first one: the next
\* layer, of the same format, on the same parity and not too wide.
TwoWinMode(cl, l, afbc, zpos) ==
  /\ cl.two
  /\ cl.used => (zpos - cl.z \in {0, 1} /\ cl.fmt = l.fmt /\ cl.afbc = afbc)
  /\ cl.left % 2 = l.left % 2
  /\ l.w <= 2048 /\ l.dw <= 2048

ClusterUsed(l, afbc, zpos) ==
  [used |-> TRUE, z |-> zpos, left |-> l.left, fmt |-> l.fmt, afbc |-> afbc,
   two |-> l.w <= 2048 /\ l.dw <= 2048 /\ l.rot # "90" /\ ~Is8k]

\* The FB target changes to the format the window can take.
AfbcOn(w, id, afbc) ==
  IF id = FB /\ ~SupportFormat(w, Layer(id), afbc) THEN ~afbc ELSE afbc

\* What MatchPlane() knows of the window's cluster before it looks at it.
ClusterOfWindow(m, w) == IF IsCluster(w) /\ w \notin SubWindows
                         THEN UnusedCluster ELSE m.clusters[ClusterOf[w]]

Given(m, id) == IF id = FB THEN m.fbAfbc ELSE Layer(id).afbc
Accepts(w, l, afbc) == SupportLayer(w, l) /\ SupportTransform(w, l, afbc)

ClusterAfter(w, l, afbc, zpos, ok, old) ==
  IF ok /\ IsCluster(w) /\ w \notin SubWindows THEN ClusterUsed(l, afbc, zpos) ELSE old

\* A format that fits is kept even when the rest does not.
Place(m, id, w, zpos, src, afbc, ok, old) ==
  [m EXCEPT !.clusters[ClusterOf[w]] = ClusterAfter(w, Layer(id), afbc, zpos, ok, old),
            !.fbAfbc = IF id = FB THEN afbc ELSE @,
            !.planes = IF ok THEN Append(@, [win |-> w, layer |-> id, zpos |-> zpos,
                                             src |-> src]) ELSE @]

TryFormat(m, id, w, zpos, src, afbc, old) ==
  IF SupportFormat(w, Layer(id), afbc)
  THEN Place(m, id, w, zpos, src, afbc, Accepts(w, Layer(id), afbc), old)
  ELSE [m EXCEPT !.clusters[ClusterOf[w]] = old]

TryWindow(m, id, w, zpos, src) ==
  LET old == ClusterOfWindow(m, w) IN
  IF w \in SubWindows /\ ~TwoWinMode(old, Layer(id), Given(m, id), zpos)
  THEN [m EXCEPT !.clusters[ClusterOf[w]].two = FALSE]
  ELSE TryFormat(m, id, w, zpos, src, AfbcOn(w, id, Given(m, id)), old)

\* Mutant: a window that has a layer is not passed over (is_use).
MatchLayerAnyWindow(m, id, group, zpos, src) ==
  IF Layer(id).best = "esmart" /\ IsCluster(group[1]) THEN m
  ELSE FoldLeft(LAMBDA a, w : IF Len(a.planes) > Len(m.planes)
                              THEN a ELSE TryWindow(a, id, w, zpos, src), m, group)

\* A layer takes the first window of the group that is free and accepts it.
MatchLayer(m, id, group, zpos, src) ==
  IF Layer(id).best = "esmart" /\ IsCluster(group[1]) THEN m
  ELSE FoldLeft(LAMBDA a, w : IF Len(a.planes) > Len(m.planes) \/ w \in InUse(a)
                              THEN a ELSE TryWindow(a, id, w, zpos, src),
                m, group)

\* A group that takes only some of the layers keeps them and is left unused.
MatchGroup(m, combined, g, zpos, drmZpos) ==
  FoldLeft(LAMBDA a, id : MatchLayer(a, id, Groups[g], zpos, drmZpos[id]), m, combined)

Used(before, after, combined, g) ==
  IF Len(after.planes) - Len(before.planes) = Len(combined)
  THEN [after EXCEPT !.ok = TRUE, !.taken = @ \cup {g}] ELSE after

\* Mutant: the groups acquired, and not reserved, are not told apart.
MayTryAny(m, combined, g) == ~m.ok /\ g \notin m.taken /\ Len(combined) <= Len(Groups[g])

MayTry(m, combined, g) == /\ ~m.ok
                          /\ g \in groups \ (m.taken \cup bReserved)
                          /\ Len(combined) <= Len(Groups[g])

MatchPlane(m, combined, zpos, drmZpos) ==
  FoldLeft(LAMBDA a, g : IF MayTry(a, combined, g)
                         THEN Used(a, MatchGroup(a, combined, g, zpos, drmZpos), combined, g)
                         ELSE a,
           [m EXCEPT !.ok = FALSE], [g \in 1 .. Len(Groups) |-> g])
----------------------------------------------------------------------------
\* CombineLayer(): neighbours in z order that share no line of the screen
\* can use the areas of one plane group.

Apart(from, size, from2, size2) == from + size < from2 \/ from2 + size2 < from
IsRec1IntersectRec2(a, b) == /\ ~Apart(a.left, a.dw, b.left, b.dw)
                             /\ ~Apart(a.top, a.dh, b.top, b.dh)
IsXIntersect(a, b) == a.top < b.top + b.dh /\ b.top < a.top + a.dh

\* A 10 bit video, as those with HDR are, is never combined; a scaled layer is,
\* bMultiAreaScaleEnable being set by default.
TenBit(l) == l.fmt = "yuv" /\ l.hdr
IsLayerCombine(a, b) ==
  /\ MultiArea /\ ~Is8k
  /\ FB \notin {a, b}
  /\ LET x == Layer(a)  y == Layer(b) IN
       /\ ~TenBit(x) /\ ~TenBit(y)
       /\ x.fmt = y.fmt /\ x.afbc = y.afbc /\ x.alpha = y.alpha
       /\ ~IsRec1IntersectRec2(x, y) /\ ~IsXIntersect(x, y)

CombineLayer(list) ==
  LET Add(gs, id) ==
        IF gs # <<>> /\ \A other \in ToSet(Last(gs)) : IsLayerCombine(other, id)
        THEN [gs EXCEPT ![Len(gs)] = Append(@, id)]
        ELSE Append(gs, <<id>>)
      ByTop(g) == SortSeq(g, LAMBDA a, b : Layer(a).top < Layer(b).top)
      all == FoldLeft(Add, <<>>, list)
  IN [i \in DOMAIN all |-> ByTop(all[i])]

\* iDrmZpos_: the place a layer has in the vector that is matched.
DrmZpos(list) ==
  [id \in ToSet(list) |-> (CHOOSE i \in DOMAIN list : list[i] = id) - 1]

NoMatch == [ok |-> FALSE, list |-> <<>>, planes |-> <<>>]

\* Either every layer of the vector gets a window, or nothing is kept.
Outcome(list, m) ==
  IF m.ok THEN [ok |-> TRUE, list |-> list, planes |-> m.planes] ELSE NoMatch

MatchCombined(all, drmZpos) ==
  FoldLeft(LAMBDA m, i : IF m.ok THEN MatchPlane(m, all[i], i - 1, drmZpos) ELSE m,
           NothingMatched, [i \in 1 .. Len(all) |-> i])

MatchPlanes(list) == Outcome(list, MatchCombined(CombineLayer(list), DrmZpos(list)))
----------------------------------------------------------------------------
\* The vectors a policy tries in turn.  OutputMatchLayer() takes the layers
\* first .. last out for the GPU and puts the FB target in their place; a
\* range outside the vector leaves it as it is, without the FB target.

\* Mutant: the FB target goes on top, not in the place of what it replaces.
OutputOnTop(first, last) ==
  IF 0 <= first /\ first <= last /\ last <= Len(Stack) - 1
  THEN SubSeq(Stack, 1, first) \o SubSeq(Stack, last + 2, Len(Stack)) \o <<FB>>
  ELSE Stack

OutputMatchLayer(first, last) ==
  LET n == Len(Stack) IN
  IF 0 <= first /\ first <= last /\ last <= n - 1
  THEN SubSeq(Stack, 1, first) \o SelectSeq(<<FB>>, LAMBDA x : x \in here)
         \o SubSeq(Stack, last + 2, n)
  ELSE Stack

Attempts(firsts, lasts) ==
  [i \in 1 .. Len(firsts) |-> OutputMatchLayer(firsts[i], lasts[i])]
Same(x, seq) == [i \in DOMAIN seq |-> x]
UpTo(a, b) == [i \in 1 .. (IF b < a THEN 0 ELSE b - a + 1) |-> a + i - 1]
DownTo(a, b) == [i \in 1 .. (IF a < b THEN 0 ELSE a - b + 1) |-> a - i + 1]

\* The places of the layers with a property, from 0.
IndexesOf(P(_)) == {i - 1 : i \in {j \in 1 .. Len(Stack) : P(layers[Stack[j]])}}
LastOf(S) == Max(S \cup {-1})
FirstOf(S) == IF S = {} THEN -1 ELSE Min(S)

NeedsGles(l) == \/ l.w < 4 \/ l.h < 4 \/ l.dw < 4 \/ l.dh < 4
                \/ l.sf = "solid"
                \/ l.sf = "client" /\ l.fmt # "yuv"
Skips(l) == NeedsGles(l) \/ (l.fmt = "none" /\ ~l.sideband)

Size == Len(Stack)
TryMixSideband ==
  LET s == LastOf(IndexesOf(LAMBDA l : l.sideband))
      lasts == <<s + 1>> \o UpTo(s + 2, Size - 1)
  IN IF Size >= 2 THEN Attempts(Same(s + 1, lasts), lasts) ELSE <<Stack>>

TryAccelerate ==
  LET a == FirstOf(IndexesOf(LAMBDA l : l.hand /\ ~Skips(l)))
      firsts == <<a - 2>> \o DownTo(a - 3, 0)
      last == IF Size = 2 THEN a - 2 ELSE a - 1
  IN IF Size >= 2 THEN Attempts(firsts, Same(last, firsts)) ELSE <<Stack>>

\* Mutant: only the first of the layers to skip is looked for.
TryMixSkipFirst ==
  LET f == FirstOf(IndexesOf(Skips))
      up == UpTo(f, Size - 1)
      down == DownTo(f - 1, 0)
  IN IF f = -1 THEN <<>>
     ELSE Attempts(Same(f, up) \o down, up \o Same(Size - 1, down))

TryMixSkip ==
  LET f == FirstOf(IndexesOf(Skips))
      l == LastOf(IndexesOf(Skips))
      up == UpTo(l, Size - 1)
      down == DownTo(f - 1, 0)
  IN IF f = -1 THEN <<>>
     ELSE Attempts(Same(f, up) \o down, up \o Same(Size - 1, down))

\* TryMixVideoPolicy() and TryMixUpPolicy() try the same ranges.
TryMixUp ==
  LET first == IF Size >= 4 THEN 3 ELSE IF Size = 2 THEN 1 ELSE Size - 2
      firsts == <<first>> \o DownTo(first - 1, 1)
  IN Attempts(firsts, Same(Size - 1, firsts))

TryGlesSideband ==
  IF LastOf(IndexesOf(LAMBDA l : l.sideband)) # 0 THEN <<>>
  ELSE IF Size >= 2 THEN <<OutputMatchLayer(1, Size - 1)>> ELSE <<Stack>>

\* The GPU composes everything; the FB target may have been lost.
TryGles == <<SelectSeq(<<FB>>, LAMBDA x : x \in here)>>

TryMixPolicy ==
  CASE "sideband" \in setHwcPolicy -> TryMixSideband
    [] OTHER ->
         (IF "accelerate" \in setHwcPolicy THEN TryAccelerate ELSE <<>>) \o
         (IF "mix_skip" \in setHwcPolicy THEN TryMixSkip ELSE TryMixUp)

TryRgaOverlay == IF "mix_skip" \in setHwcPolicy THEN TryMixSkip
                 ELSE <<Stack>> \o TryMixUp

\* A split display shows the FB target only, or one layer, as it is.
TrySplit == IF set.split = "primary" THEN TryGles ELSE <<Stack>>

FirstMatch(attempts) ==
  FoldLeft(LAMBDA r, list : IF r.ok THEN r ELSE MatchPlanes(list), NoMatch, attempts)
----------------------------------------------------------------------------
\* InitContext(): which policies are worth trying.  What the windows can do
\* is counted before 8K mode takes some of them away.

Support(cluster) ==
  Cardinality({w \in UNION {ToSet(Groups[g]) : g \in groups} : IsCluster(w) = cluster})
Ordinary == {i \in DOMAIN layers : ~Skips(layers[i])}
Plain == {i \in Ordinary : ~layers[i].afbc}

OverlayMayFit ==
  /\ Ordinary = DOMAIN layers
  /\ Cardinality(Ordinary \ Plain) <= Support(TRUE)
  /\ Cardinality({i \in Plain : Scaled(layers[i])}) <= Support(FALSE)
  /\ Cardinality({i \in Plain : layers[i].fmt = "yuv"}) <= Support(FALSE)
  /\ Cardinality({i \in Plain : layers[i].rot # "0"}) <= Support(FALSE)

Sideband == \E i \in Ordinary : layers[i].sideband
Handwriting == \E i \in Ordinary : layers[i].hand

TryMix ==
  {"mix", "mix_up", "rga", "mix_video"}
    \cup (IF Ordinary # DOMAIN layers THEN {"mix_skip"} ELSE {})
    \cup (IF Sideband THEN {"sideband"} ELSE {})
    \cup (IF Handwriting THEN {"accelerate"} ELSE {})

ForceGles ==
  {"gles"} \cup (IF Sideband THEN {"gles_sideband"} ELSE {})
           \cup (IF Handwriting THEN {"accelerate"} ELSE {})

Policies ==
  (IF set.split # "no" THEN {"split"} ELSE {}) \cup
  (IF set.compose # 2 /\ (set.compose # 1 \/ set.gles) THEN ForceGles
   ELSE IF OverlayMayFit THEN {"overlay"} ELSE TryMix)

\* The FB target loses its AFBC when a cluster is missing or video needs it.
FbUseAfbc ==
  /\ fb.afbc /\ ~Is8k
  /\ Support(TRUE) > 0
  /\ (\E i \in Ordinary \ Plain :
         LET l == layers[i] IN l.fmt = "yuv" /\ (l.w > 2048 \/ l.hdr \/ l.dw > 2048))
       => Support(TRUE) > 2

Order == <<"split", "overlay", "rga", "mix", "gles_sideband", "gles">>
NextPolicy(after, policies) ==
  LET left == SelectSeq(SubSeq(Order, after + 1, Len(Order)), LAMBDA p : p \in policies)
  IN IF left = <<>> THEN "failed" ELSE left[1]
After(policy) == CHOOSE i \in DOMAIN Order : Order[i] = policy
----------------------------------------------------------------------------
\* The RGA scales or rotates a video before the VOP shows it.

NeedUseRga(l) ==
  /\ l.fmt = "yuv" /\ l.sf # "client" /\ l.w <= 8176
  /\ l.rot # "0" \/ \E r \in {HScale(l), VScale(l)} : Shrunk(r, 2)
  /\ Screen[set.mode].w <= 3840 => l.w * l.h <= 7680 * 2160

\* Beyond 8 times the RGA scales by 4 and the VOP does the rest; a side that
\* is scaled by less than 4 then has no length.
RgaSide(l, r) ==
  LET far == \E x \in {HScale(l), VScale(l)} : Shrunk(x, 8) \/ Grown(x, 8)
      n == IF ~far THEN r[2]
           ELSE IF Shrunk(r, 4) THEN r[1] \div 4
           ELSE IF Grown(r, 4) THEN r[1] * 4 ELSE 0
  IN 2 * (n \div 2)

\* UpdateAndStoreInfoFromDrmBuffer() and what each policy sets besides: the
\* split policy has the layer turned into RGB.
RgaOutput(l) == [l EXCEPT !.w = RgaSide(l, HScale(l)), !.h = RgaSide(l, VScale(l)),
                          !.rot = "0", !.afbc = FALSE]
VideoOutput(l) == [RgaOutput(l) EXCEPT !.best = "esmart"]
SplitOutput(l) == [RgaOutput(l) EXCEPT !.fmt = "rgb"]

\* ResetInfoFromStore() leaves the best plane type as it is.
Restored == [rga.stored EXCEPT !.best = Layer(rga.layer).best]

Replace(id, l) ==
  IF id = FB THEN fb' = l /\ UNCHANGED layers
             ELSE layers' = [layers EXCEPT ![id] = l] /\ UNCHANGED fb

RgaCanDraw(l) == RgaSide(l, HScale(l)) > 0 /\ RgaSide(l, VScale(l)) > 0
RgaCandidates ==
  {id \in here \ {FB} : set.rga /\ NeedUseRga(Layer(id)) /\ RgaCanDraw(Layer(id))}

\* The FB target has a buffer for the RGA only in the second pass of a split
\* primary display, which shows nothing else.
SplitCandidates ==
  {id \in here : /\ id = FB => set.bound
                 /\ set.split = "primary" => id = FB
                 /\ RgaCanDraw(Layer(id))}

NoRga == [layer |-> -1, stored |-> FB]
----------------------------------------------------------------------------
\* The frame.  A first pass has no buffer for the FB target yet.

FbTarget(s) ==
  [w |-> Screen[s.mode].w, h |-> Screen[s.mode].h, left |-> 0, top |-> 0,
   dw |-> Screen[s.mode].w, dh |-> Screen[s.mode].h, fmt |-> "rgb",
   afbc |-> s.bound /\ s.afbc, rot |-> "0", aligned |-> TRUE, alpha |-> 255,
   sf |-> "client", hdr |-> FALSE, sideband |-> FALSE, hand |-> FALSE,
   best |-> "any"]

Init ==
  /\ layers = <<>> /\ here = {FB} /\ setHwcPolicy = {}
  /\ set \in Settings
  /\ fb = FbTarget(set)
  /\ groups = {} /\ bReserved = {}
  /\ composition = <<>> /\ matched = <<>> /\ rga = NoRga
  /\ phase = "idle"

\* GetOrCreateDummyLayer(): what a split display that is not the primary shows.
SplitLayers == {l \in UNION {ToSet(stack) : stack \in Stacks} :
                  l.sf = "device" /\ l.fmt = "rgb" /\ ~Skips(l)}

ValidatePlanes ==
  /\ phase = "idle"
  /\ \E stack \in Stacks, s \in Settings :
       /\ ~s.bound
       /\ s.split = "secondary" => Len(stack) = 1 /\ stack[1] \in SplitLayers
       /\ layers' = stack
       /\ set' = s
       /\ fb' = FbTarget(s)
       /\ here' = {FB} \cup DOMAIN stack
  /\ groups' = DOMAIN Groups \ bReserved
  /\ phase' = IF groups' = {} THEN "failed" ELSE "init"
  /\ UNCHANGED <<bReserved, composition, matched, rga, setHwcPolicy>>

\* Only acquired groups, none of them reserved, are looked at.
InitStateContext ==
  bReserved' = IF Is8k THEN bReserved \cup (ReservedIn8k \cap groups)
                       ELSE bReserved \ groups

InitContext ==
  /\ phase = "init"
  /\ setHwcPolicy' = Policies
  /\ InitStateContext
  /\ fb' = [fb EXCEPT !.afbc = FbUseAfbc,
                      !.rot = IF set.split = "primary" /\ set.bound
                              THEN set.rot ELSE @]
  /\ phase' = NextPolicy(0, Policies)
  /\ UNCHANGED <<layers, here, set, groups, composition, matched, rga>>

\* The policies, by the vectors each tries and the policies it adds when none
\* of them fits.
AttemptsOf(policy) ==
  CASE policy = "split" -> TrySplit
    [] policy = "overlay" -> <<Stack>>
    [] policy = "mix" -> TryMixPolicy
    [] policy = "gles_sideband" -> TryGlesSideband
    [] policy = "gles" -> TryGles

\* Mutant: a mix policy that fails leaves no policy behind it.
AddedByOverlay(policy) == IF policy = "overlay" THEN TryMix ELSE {}

Added(policy) == CASE policy = "overlay" -> TryMix
                   [] policy = "mix" -> {"gles"}
                   [] OTHER -> {}

\* The first vector that fits ends the frame, otherwise the next policy has
\* its turn.
TryPolicy ==
  /\ phase \in {"split", "overlay", "mix", "gles_sideband", "gles"}
  /\ \E r \in {FirstMatch(AttemptsOf(phase))} :
       /\ composition' = r.planes /\ matched' = r.list
       /\ setHwcPolicy' = IF r.ok THEN setHwcPolicy ELSE setHwcPolicy \cup Added(phase)
       /\ phase' = IF r.ok THEN "done"
                   ELSE IF phase = "split" THEN "split_rga"
                   ELSE NextPolicy(After(phase), setHwcPolicy')
  /\ UNCHANGED <<layers, fb, here, set, groups, bReserved, rga>>

RgaPolicy == IF phase \in {"rga", "rga_match"} THEN "rga" ELSE "split"
GiveUpRga == phase' = NextPolicy(After(RgaPolicy), setHwcPolicy)

\* Whichever of the layers there is a buffer and a handle for, or none.
PrepareRga ==
  /\ phase = "rga"
  /\ \/ \E id \in RgaCandidates :
          /\ Replace(id, VideoOutput(Layer(id)))
          /\ rga' = [layer |-> id, stored |-> Layer(id)]
          /\ phase' = "rga_match"
     \/ GiveUpRga /\ UNCHANGED <<layers, fb, rga>>
  /\ UNCHANGED <<here, set, setHwcPolicy, groups, bReserved, composition, matched>>

PrepareSplit ==
  /\ phase = "split_rga"
  /\ \/ \E id \in SplitCandidates :
          /\ Replace(id, SplitOutput(Layer(id)))
          /\ rga' = [layer |-> id, stored |-> Layer(id)]
          /\ phase' = "split_match"
     \/ GiveUpRga /\ UNCHANGED <<layers, fb, rga>>
  /\ UNCHANGED <<here, set, setHwcPolicy, groups, bReserved, composition, matched>>

\* The match succeeded and the job with it, or one of the two failed.
RgaDone(r) ==
  /\ r.ok
  /\ composition' = r.planes /\ matched' = r.list /\ phase' = "done"
  /\ UNCHANGED <<layers, fb, here, rga>>
RgaFails(r) ==
  /\ ~r.ok \/ rga.layer \in ToSet(r.list)
  /\ Replace(rga.layer, Restored)
  /\ rga' = NoRga
  /\ GiveUpRga
  /\ UNCHANGED <<composition, matched>>

\* A job that fails after the match leaves in the vector what was matched:
\* the policy's own vector of set-aside layers is gone.
TryRgaOverlayPolicy ==
  /\ phase = "rga_match"
  /\ \E r \in {FirstMatch(TryRgaOverlay)} :
       \/ RgaDone(r)
       \/ RgaFails(r) /\ here' = IF r.ok THEN ToSet(r.list) ELSE here
  /\ UNCHANGED <<set, setHwcPolicy, groups, bReserved>>

TrySplitPolicy ==
  /\ phase = "split_match"
  /\ \E r \in {FirstMatch(TrySplit)} :
       \/ RgaDone(r)
       \/ /\ RgaFails(r)
          /\ here' = IF r.ok /\ set.split # "primary" THEN ToSet(r.list) ELSE here
  /\ UNCHANGED <<set, setHwcPolicy, groups, bReserved>>

\* DoMirrorDisplay(): when SurfaceFlinger has composed the frame of a split
\* primary display, all its layers are matched again, with the buffer.
DoMirrorDisplay ==
  /\ phase \in {"done", "failed"} /\ set.split = "primary" /\ ~set.bound
  /\ \E s \in Settings : s.bound /\ s.mode = set.mode /\ set' = s
  /\ fb' = FbTarget(set') /\ here' = {FB} \cup DOMAIN layers
  /\ groups' = DOMAIN Groups \ bReserved
  /\ composition' = <<>> /\ matched' = <<>> /\ rga' = NoRga
  /\ phase' = "init"
  /\ UNCHANGED <<layers, bReserved, setHwcPolicy>>

\* The compositor takes the layers and planes, or the frame is refused.
CreateComposition ==
  /\ phase \in {"done", "failed"} /\ (set.split = "primary" => set.bound)
  /\ layers' = <<>> /\ here' = {FB} /\ fb' = FbTarget(set)
  /\ composition' = <<>> /\ matched' = <<>> /\ rga' = NoRga
  /\ setHwcPolicy' = {} /\ groups' = {} /\ phase' = "idle"
  /\ UNCHANGED <<set, bReserved>>

Next ==
  \/ ValidatePlanes \/ InitContext \/ CreateComposition
  \/ TryPolicy \/ PrepareRga \/ TryRgaOverlayPolicy
  \/ PrepareSplit \/ TrySplitPolicy \/ DoMirrorDisplay

Spec == Init /\ [][Next]_vars
----------------------------------------------------------------------------
\* What the compositor makes of it: CreateComposition() keeps the matched
\* layers, SetLayers() sorts them by iDrmZpos_, a window takes its source's
\* place among them.

Sources == SortSeq(matched, LAMBDA a, b : DrmZpos(matched)[a] < DrmZpos(matched)[b])
Source(plane) == Sources[plane.src + 1]
Planes == ToSet(composition)
Standing(i) == IF i \in ToSet(matched) THEN i ELSE FB
ZposOf(id) == (CHOOSE p \in Planes : p.layer = id).zpos

Overlap(a, b) == /\ a.left < b.left + b.dw /\ b.left < a.left + a.dw
                 /\ a.top < b.top + b.dh /\ b.top < a.top + a.dh

\* Every variable has a value the program can give it, and every window a
\* composition uses belongs to a group that was acquired and is not reserved.
TypeOK ==
  /\ here \subseteq {FB} \cup DOMAIN layers
  /\ ToSet(matched) \subseteq here
  /\ groups \cup bReserved \subseteq DOMAIN Groups
  /\ setHwcPolicy \subseteq ToSet(Order) \cup
       {"mix_up", "mix_video", "mix_skip", "sideband", "accelerate"}
  /\ phase \in ToSet(Order) \cup
       {"idle", "init", "split_rga", "split_match", "rga_match", "done", "failed"}
  /\ \A p \in Planes : \E g \in groups \ bReserved : p.win \in ToSet(Groups[g])

\* The screen shows the stack SurfaceFlinger sent: every layer, or the FB
\* target in its place, is on the window that was checked for it, and of two
\* that overlap the upper one is above (MatchPlane(), OutputMatchLayer() and
\* SetLayers() together).  Only a failing RGA job breaks it: see Lost.
Lost == here # {FB} \cup DOMAIN layers
StackPreserved ==
  phase = "done" /\ ~Lost =>
    /\ \A p \in Planes : Source(p) = p.layer
    /\ \A i \in DOMAIN layers : \E p \in Planes : p.layer = Standing(i)
    /\ \A i, j \in DOMAIN layers :
         (i < j /\ Overlap(layers[i], layers[j]) /\ Standing(i) # Standing(j))
           => ZposOf(Standing(i)) < ZposOf(Standing(j))

\* No window shows two layers, and no layer has two windows, though a group
\* of windows that takes part of the layers keeps them (MatchPlane()).
OneWindowEach ==
  phase = "done" =>
    \A i, j \in DOMAIN composition : i # j =>
      /\ composition[i].win # composition[j].win
      /\ composition[i].layer # composition[j].layer

\* The windows of a cluster share its line buffer: both are only used by
\* neighbours in z order of one format, narrow enough to halve it, on the same
\* parity (the two-win mode MatchPlane() keeps track of).
ClusterShared ==
  phase = "done" =>
    \A p, q \in Planes :
      (/\ IsCluster(p.win) /\ ClusterOf[p.win] = ClusterOf[q.win]
       /\ p.win \notin SubWindows /\ q.win \in SubWindows) =>
        LET a == Layer(p.layer)  b == Layer(q.layer) IN
        /\ q.zpos - p.zpos \in {0, 1}
        /\ a.fmt = b.fmt
        /\ \A x \in {a.w, a.dw, b.w, b.dw} : x <= 2048
        /\ a.left % 2 = b.left % 2
        /\ a.rot # "90"

\* A frame only fails when the FB target alone fits no window: whatever the
\* policies tried before, TryGLESPolicy() is the last (TryHwcPolicy()).
FallsBack == (phase = "failed" /\ groups # {}) => ~MatchPlanes(TryGles[1]).ok

\* What SurfaceFlinger asked to compose itself, or the VOP cannot show, is
\* left to it, "since we can't composite HWC_SKIP_LAYERs by ourselves": by
\* every policy but those that keep a sideband or handwriting layer.
SkipComposedBySf ==
  phase = "done" /\ setHwcPolicy \cap {"sideband", "accelerate"} = {} =>
    ToSet(matched) \cap ((DOMAIN layers) \ Ordinary) = {}
============================================================================
