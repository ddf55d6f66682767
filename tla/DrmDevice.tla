----------------------------- MODULE DrmDevice -----------------------------
(***************************************************************************)
(* Which connector drives which CRTC: the functions of DrmDevice that bind, *)
(* release, mirror, compete for and power the CRTCs, as operators on the    *)
(* device's bookkeeping.  The code runs each of them under mRecursiveMutex, *)
(* so each is one step of whoever calls it; DisplayHotplug says who does.   *)
(*                                                                         *)
(* What they change is a record; a function of the code maps it to the set  *)
(* of its outcomes [dev, ok], one for each way its atomic commits may go.   *)
(* Whether a connector is connected they only read.  Every connector has an *)
(* encoder of its own, as on all the platforms, so conn->encoder()->crtc()  *)
(* is one value, "bound".                                                   *)
(***************************************************************************)
EXTENDS Integers, FiniteSets, Folds

CONSTANTS
  Displays,   \* display ids, one per connector; 0 is HWC_DISPLAY_PRIMARY
  Crtcs,      \* CRTC numbers, in the order of crtcs_
  Possible,   \* enc->possible_crtcs(), per display
  Priority,   \* conn->priority(): 0 is none, else smaller is stronger
  Modes,      \* display modes; a larger one needs a larger output width
  Cap,        \* the largest mode a CRTC can output
  RgbSinks,   \* displays that accept RGB, hence may mirror
  CommitFails \* may drmModeAtomicCommit() refuse a sound request

VARIABLES
  state,      \* conn->state() is DRM_MODE_CONNECTED, per display
  hotplug     \* conn->hotplug_state() is, what the uevent listener saw last

NoDisplay == -1
NoCrtc == 0
NoMode == 0

ASSUME DeviceAssumption ==
  /\ Displays \subseteq Nat /\ 0 \in Displays /\ IsFiniteSet(Displays)
  /\ Crtcs \subseteq Nat \ {0} /\ Crtcs # {}
  /\ Modes \subseteq Nat \ {0} /\ Modes # {}
  /\ Possible \in [Displays -> SUBSET Crtcs]
  /\ Priority \in [Displays -> Nat]
  /\ Cap \in [Crtcs -> Nat]
  /\ RgbSinks \subseteq Displays
  /\ CommitFails \in BOOLEAN

Device ==
  [owner    : [Crtcs -> Displays \cup {NoDisplay}],  \* crtc->display()
   bound    : [Displays -> Crtcs \cup {NoCrtc}],     \* conn->encoder()->crtc()
   mirrorOf : [Displays -> Displays \cup {NoDisplay}], \* mirror_primary_id
   mirrors  : [Displays -> SUBSET Displays],  \* connected_mirror_display_id_set
   current  : [Displays -> Modes \cup {NoMode}],
   active   : [Displays -> Modes \cup {NoMode}],
   boot     : [Displays -> Crtcs \cup {NoCrtc}],     \* mKernelCrtcId_
   planes   : [Crtcs -> Displays \cup {NoDisplay}],  \* owner of the CRTC's planes
   kernel   : [Displays -> Crtcs \cup {NoCrtc}]]     \* the kernel's CRTC_ID

Done(dev) == [dev |-> dev, ok |-> TRUE]
Failed(dev) == [dev |-> dev, ok |-> FALSE]

\* What follows a call whose outcomes are rs: After if it succeeded.
Then(rs, After(_)) ==
  UNION {IF r.ok THEN After(r.dev) ELSE {r} : r \in rs}

(* drmModeAtomicCommit() with ALLOW_MODESET: connectors move to k, the CRTCs *)
(* in on get a mode and those in off lose theirs.  The kernel refuses a CRTC *)
(* that is enabled without a connector or disabled with one.                 *)
Commit(dev, k, on, off) ==
  LET Drives(kern, c) == \E d \in Displays : kern[d] = c
      Enabled(c) == c \in on \/ (c \notin off /\ Drives(dev.kernel, c))
      sound == \A c \in Crtcs : Enabled(c) <=> Drives(k, c)
  IN  {Done([dev EXCEPT !.kernel = k]) : b \in {x \in {TRUE} : sound}}
      \cup {Failed(dev) : b \in {x \in {TRUE} : CommitFails \/ ~sound}}

Attach(dev, d, c) == [dev.kernel EXCEPT ![d] = c]

GetCrtcForDisplay(dev, d) ==
  LET claimed == {c \in Crtcs : dev.owner[c] = d}
  IN  IF claimed = {} THEN NoCrtc
      ELSE CHOOSE c \in claimed : \A e \in claimed : c <= e

Capable(c, m) == m # NoMode /\ m <= Cap[c]

-----------------------------------------------------------------------------
(* Mirroring: a connector driven by the CRTC of another, its primary.        *)

IsMirror(dev, d) == dev.mirrorOf[d] # NoDisplay
IsMirrorPrimary(dev, d) == dev.mirrorOf[d] = d

(* enable_connector_mirror_mode() on the primary p and the external d.       *)
EnableMirror(dev, p, d) ==
  [dev EXCEPT !.mirrorOf[p] = p, !.mirrorOf[d] = p,
              !.mirrors[p] = @ \cup {d}, !.mirrors[d] = {}]

\* Mutant of DisableMirror: a primary keeps the external in its set.
DisableKeepsExternal(dev, x, d) ==
  IF IsMirrorPrimary(dev, x) THEN dev ELSE [dev EXCEPT !.mirrorOf[x] = NoDisplay]

(* conn->disable_connector_mirror_mode(d), conn being the connector of x.    *)
DisableMirror(dev, x, d) ==
  LET left == dev.mirrors[x] \ {d}
  IN  IF IsMirrorPrimary(dev, x)
      THEN [dev EXCEPT !.mirrors[x] = left,
                       !.mirrorOf[x] = IF left = {} THEN NoDisplay ELSE x]
      ELSE [dev EXCEPT !.mirrorOf[x] = NoDisplay]

-----------------------------------------------------------------------------
(* Releasing                                                                 *)

\* Mutant of TryAssignPlane: only planes that belong to nobody are assigned.
TryAssignFreePlane(dev) ==
  [dev EXCEPT !.planes = [c \in Crtcs |->
     IF @[c] = NoDisplay /\ \E d \in Displays : state[d] /\ GetCrtcForDisplay(dev, d) = c
     THEN dev.owner[c] ELSE @[c]]]

(* TryAssignPlane(): the planes of a connected display's CRTC become its.    *)
TryAssignPlane(dev) ==
  [dev EXCEPT !.planes = [c \in Crtcs |->
     IF \E d \in Displays : state[d] /\ GetCrtcForDisplay(dev, d) = c
     THEN dev.owner[c] ELSE @[c]]]

\* Mutant of Unclaim: crtc->set_display(-1) is forgotten.
UnclaimKeepsOwner(dev, d, c) == [dev EXCEPT !.bound[d] = NoCrtc, !.boot[d] = NoCrtc]

\* Mutant of Unclaim: the CRTC id is reset to the display's -1.
UnclaimWrongId(dev, d, c) ==
  [dev EXCEPT !.owner[c] = NoDisplay, !.bound[d] = NoDisplay, !.boot[d] = NoCrtc]

Unclaim(dev, d, c) ==
  [dev EXCEPT !.owner[c] = NoDisplay, !.bound[d] = NoCrtc, !.boot[d] = NoCrtc]

\* Mutant of ReleaseDpyResByNormal: the kernel is not told.
ReleaseWithoutCommit(dev, d, c) ==
  {Done([Unclaim(dev, d, c) EXCEPT !.planes[c] = NoDisplay])}

(* Also takes the planes of the CRTC from whoever had them.                  *)
ReleaseDpyResByNormal(dev, d, c) ==
  Then(Commit(dev, Attach(dev, d, NoCrtc), {}, {c}),
       LAMBDA s : {Done([Unclaim(s, d, c) EXCEPT !.planes[c] = NoDisplay])})

(* The CRTC is turned off only with the last external of a primary that was  *)
(* unplugged; crtc->display() is left as it is.                              *)
ReleaseDpyResByMirror(dev, d, c) ==
  LET p == IF IsMirrorPrimary(dev, d) THEN NoDisplay ELSE dev.mirrorOf[d]
      release_crtc == p # NoDisplay /\ ~hotplug[p] /\ dev.mirrors[p] = {d}
      Forget(s) ==
        LET s1 == DisableMirror([s EXCEPT !.boot[d] = NoCrtc], d, d)
            s2 == [s1 EXCEPT !.bound[d] = NoCrtc]
        IN  IF IsMirrorPrimary(s1, d) THEN s1
            ELSE IF p = NoDisplay THEN s2 ELSE DisableMirror(s2, p, d)
  IN  Then(Commit(dev, Attach(dev, d, NoCrtc), {}, IF release_crtc THEN {c} ELSE {}),
           LAMBDA s : {Done(Forget(s))})

ReleaseAny(dev, d, c) ==
  IF IsMirror(dev, d) THEN ReleaseDpyResByMirror(dev, d, c)
  ELSE ReleaseDpyResByNormal(dev, d, c)

ReleaseDpyRes(dev, d) ==
  Then(IF dev.bound[d] = NoCrtc THEN {Done(dev)} ELSE ReleaseAny(dev, d, dev.bound[d]),
       LAMBDA s : {Done(TryAssignPlane(s))})

(* Takes CRTC c from display d for another one.                              *)
ReleaseConnectorAndCrtc(dev, d, c) ==
  Then(Commit(dev, Attach(dev, d, NoCrtc), {}, {c}),
       LAMBDA s : {Done(Unclaim(s, d, c))})

(* The CRTC the boot loader gave to d is released before d gets another one. *)
CheckKernelCrtcNeedRelease(dev, d, c) ==
  IF dev.boot[d] \in {NoCrtc, c} THEN {Done(dev)}
  ELSE ReleaseAny(dev, d, dev.boot[d])

-----------------------------------------------------------------------------
(* Finding a CRTC                                                            *)

Claim(dev, d, c) == [dev EXCEPT !.owner[c] = d, !.bound[d] = c]

\* The devices after taking c from its owner; the call's result is ignored.
Evict(dev, c) ==
  IF dev.owner[c] = NoDisplay THEN {dev}
  ELSE {r.dev : r \in ReleaseConnectorAndCrtc(dev, dev.owner[c], c)}

(* The loops over the possible CRTCs: the first candidate for which the boot *)
(* loader's CRTC can be released; ok is FALSE if there is none.              *)
FirstCandidate(dev, d, candidates) ==
  LET check(c) == CheckKernelCrtcNeedRelease(dev, d, c)
      CanFail(c) == \E r \in check(c) : ~r.ok
      reached == {c \in candidates : \A e \in candidates : e < c => CanFail(e)}
      found == UNION {{[dev |-> r.dev, ok |-> TRUE, crtc |-> c] : r \in {x \in check(c) : x.ok}}
                        : c \in reached}
  IN  found
      \cup {[dev |-> dev, ok |-> FALSE, crtc |-> NoCrtc] :
               x \in {y \in {TRUE} : \A c \in candidates : CanFail(c)}}

TakeFirst(dev, d, candidates, Take(_, _)) ==
  UNION {IF f.ok THEN Take(f.dev, f.crtc) ELSE {Failed(f.dev)}
           : f \in FirstCandidate(dev, d, candidates)}

Connected(d) == d # NoDisplay /\ state[d]

\* Mutant of MayTake: a display cannot take the CRTC it already has.
MayTakeFree(dev, d, c) == dev.owner[c] = NoDisplay

MayTake(dev, d, c) == dev.owner[c] \in {NoDisplay, d}

(* First a CRTC that is free or d's own, then one of a disconnected display. *)
FindAvailableCrtcByFirst(dev0, d, check_crtc_cap) ==
  LET dev == [dev0 EXCEPT !.bound[d] = NoCrtc]
      suitable == {c \in Possible[d] : check_crtc_cap => Capable(c, dev.current[d])}
      can_bind == {c \in suitable : MayTake(dev, d, c)}
      unused == {c \in suitable : ~Connected(dev.owner[c])}
      TakeFree(s, c) == {Done(Claim(s, d, c))}
      TakeUnused(s, c) == {Done(Claim(e, d, c)) : e \in Evict(s, c)}
      free == TakeFirst(dev, d, can_bind, TakeFree)
  IN  UNION {IF r.ok THEN {r} ELSE TakeFirst(dev, d, unused, TakeUnused) : r \in free}

(* The CRTC of a connected display that shows the mode d wants.              *)
FindAvailableCrtcByMirror(dev, d) ==
  LET Fits(c) == LET p == dev.owner[c] IN
        /\ p # d /\ Connected(p)
        /\ Capable(c, dev.current[d])
        /\ dev.active[p] # NoMode /\ dev.active[p] = dev.current[d]
      candidates == {c \in Possible[d] : d \in RgbSinks /\ Fits(c)}
      Mirror(s, c) ==
        {Done([EnableMirror(s, s.owner[c], d) EXCEPT !.bound[d] = c])}
  IN  TakeFirst(dev, d, candidates, Mirror)

(* The CRTC of a display with a weaker priority, or any if d has none.       *)
FindAvailableCrtcByCompete(dev, d) ==
  LET Weaker(c) == \/ Priority[d] = 0
                   \/ ~Connected(dev.owner[c])
                   \/ Priority[d] < Priority[dev.owner[c]]
      Take(s, c) == {Done(Claim(e, d, c)) : e \in Evict(s, c)}
  IN  TakeFirst(dev, d, {c \in Possible[d] : Weaker(c)}, Take)

FindAvailableCrtc(dev, d) ==
  LET Else(rs, Next(_)) == UNION {IF r.ok THEN {r} ELSE Next(r.dev) : r \in rs}
  IN  Else(FindAvailableCrtcByFirst(dev, d, TRUE), LAMBDA s1 :
      Else(FindAvailableCrtcByMirror(s1, d), LAMBDA s2 :
      Else(FindAvailableCrtcByFirst(s2, d, FALSE), LAMBDA s3 :
           FindAvailableCrtcByCompete(s3, d))))

-----------------------------------------------------------------------------
(* Binding                                                                   *)

\* GetSuitableMode() if the CRTC cannot output the mode: one it can.
SuitMode(dev, d, c) ==
  LET fitting == {m \in Modes : m <= Cap[c]}
  IN  IF Capable(c, dev.current[d]) \/ fitting = {} THEN {dev}
      ELSE {[dev EXCEPT !.current[d] = m] : m \in fitting}

Shown(dev, d) ==
  [dev EXCEPT !.active[d] = dev.current[d], !.boot[d] = NoCrtc]

\* The commit that shows d on c, and what is noted down when it succeeds.
Show(dev, d, c) ==
  Then(Commit(dev, Attach(dev, d, c), {c}, {}), LAMBDA s : {Done(Shown(s, d))})

BindConnectorAndCrtc(dev, d, c) ==
  IF dev.current[d] = NoMode THEN {Failed(dev)}
  ELSE UNION {Show(s, d, c) : s \in SuitMode(dev, d, c)}

BindDpyRes(dev, d) ==
  IF ~state[d] THEN {Failed(dev)}
  ELSE Then(FindAvailableCrtc(dev, d), LAMBDA s :
       Then(BindConnectorAndCrtc(s, d, s.bound[d]), LAMBDA t :
            {Done(TryAssignPlane(t))}))

-----------------------------------------------------------------------------
(* Switching modes                                                           *)

(* The planes are turned off first; a mode beyond the CRTC's capability ends *)
(* in a search for another CRTC.                                             *)
UpdateDisplayModeNormal(dev, d) ==
  LET c == dev.bound[d]
      Rebind(s) == Then(ReleaseDpyRes(s, d), LAMBDA t :
                   Then(BindDpyRes(t, d), LAMBDA u : {Done(Shown(u, d))}))
  IN  Then(Commit(dev, dev.kernel, {}, {}), LAMBDA s :
           IF Capable(c, s.current[d]) THEN Show(s, d, c) ELSE Rebind(s))

\* f applied to the displays of S in ascending order, until it fails.
EachOf(S, dev, f(_, _)) ==
  MapThenFoldSet(LAMBDA d, rs : Then(rs, LAMBDA s : f(s, d)), {Done(dev)},
                 LAMBDA d : d, LAMBDA T : CHOOSE x \in T : \A y \in T : y <= x, S)

(* A primary's externals leave the mirror, the primary switches and they are *)
(* bound again; an external leaves it and is bound again.                    *)
UpdateDisplayModeMirror(dev, d) ==
  LET leaving == {m \in dev.mirrors[d] : dev.bound[m] # NoCrtc}
      Leave(s, m) == ReleaseDpyResByMirror(s, m, s.bound[m])
  IN  IF IsMirrorPrimary(dev, d)
      THEN Then(EachOf(leaving, dev, Leave), LAMBDA s :
           Then(UpdateDisplayModeNormal(s, d), LAMBDA t :
                EachOf(leaving, t, BindDpyRes)))
      ELSE Then(Leave(dev, d), LAMBDA s : BindDpyRes(s, d))

UpdateDisplayMode(dev, d) ==
  IF \/ ~state[d] \/ dev.current[d] = NoMode \/ dev.bound[d] = NoCrtc
     \/ dev.current[d] = dev.active[d]
  THEN {Done(dev)}
  ELSE IF IsMirror(dev, d) THEN UpdateDisplayModeMirror(dev, d)
  ELSE UpdateDisplayModeNormal(dev, d)

-----------------------------------------------------------------------------
(* Power                                                                     *)

Usable(dev, d) == state[d] /\ dev.bound[d] # NoCrtc /\ dev.current[d] # NoMode

Partners(dev, d) == {m \in dev.mirrors[d] : dev.bound[m] = dev.bound[d]}

DoPowerOn(dev, d) ==
  LET c == dev.bound[d]
      k == [x \in Displays |->
              IF x = d \/ (IsMirror(dev, d) /\ x \in Partners(dev, d)) THEN c
              ELSE dev.kernel[x]]
      On(s) == IF IsMirror(dev, d) THEN [s EXCEPT !.active[d] = s.current[d]] ELSE s
  IN  IF ~Usable(dev, d) \/ (IsMirror(dev, d) /\ ~IsMirrorPrimary(dev, d))
      THEN {Failed(dev)}
      ELSE Then(Commit(dev, k, {c}, {}), LAMBDA s : {Done(On(s))})

(* The externals are disconnected one commit each, then the CRTC turned off. *)
DoPowerOff(dev, d) ==
  LET Cut(s, m) == Commit(s, Attach(s, m, NoCrtc), {}, {})
      Off(s) == Commit(s, Attach(s, d, NoCrtc), {}, {dev.bound[d]})
  IN  IF ~Usable(dev, d) \/ (IsMirror(dev, d) /\ ~IsMirrorPrimary(dev, d))
      THEN {Failed(dev)}
      ELSE IF IsMirror(dev, d) THEN Then(EachOf(Partners(dev, d), dev, Cut), Off)
      ELSE Off(dev)

SetPowerMode(dev, d, on) == IF on THEN DoPowerOn(dev, d) ELSE DoPowerOff(dev, d)
=============================================================================
