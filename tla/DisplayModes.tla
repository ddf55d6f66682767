---------------------------- MODULE DisplayModes ----------------------------
(***************************************************************************)
(* The modes of the primary display: the mode asked for by properties, the *)
(* baseparameter or SurfaceFlinger, the connector's best, current and      *)
(* active mode, the framebuffer size and the crop of the client layer      *)
(* derived from them, and the configs reported to SurfaceFlinger.  One     *)
(* operator per function, on the record dm.                                *)
(***************************************************************************)
EXTENDS Integers, Sequences, SequencesExt

\* The connector's modes in its order: 4 is the interlaced form of 1, 5 has
\* the size and the rate of 2 and another timing, 3 is above 2160p.
ModeList  == <<1, 4, 2, 5, 3>>
Preferred == 1
NoMode    == 0
Unlisted  == 9    \* a resolution asked for that the connector does not have
Interlaced(m) == m = 4
Extent(m)     == CASE m = 4 -> 1 [] m = 5 -> 2 [] OTHER -> m
Largest       == 2    \* 2160p

VARIABLE
  dm    \* the record below

\* std: bStandardSwitchResolution; dynamic: mDynamicDisplayMode_; resolution, base, stamp: external,
\* the properties for the resolution and its timeline, and the stored baseparameter, half: are they
\* being changed; read, readAt: baseparameter_ and iTimeline_; seen: display_timeline; replug: is
\* hotplug_timeline another than the device's; best, current, active: the connector's modes;
\* fixed: the size set for the framebuffer, or 0; fb: framebuffer_width and _height; crop: that
\* of client_layer_; changed: IsActiveModeChange(); list: sf_modes_; told: external, has
\* SurfaceFlinger to read the configs, configs, size: those it has read, and the size it draws in.
ModesInit(mode, kind, fixed) ==
  LET size == IF fixed # 0 THEN fixed ELSE IF Extent(mode) > Largest THEN Largest ELSE Extent(mode)
      drawn == IF kind = "standard" THEN Extent(mode) ELSE size
  IN  dm = [std |-> kind = "standard", dynamic |-> kind # "static",
            resolution |-> IF mode = Preferred THEN NoMode ELSE mode, base |-> NoMode,
            stamp |-> 1, half |-> FALSE, read |-> NoMode, readAt |-> 1, seen |-> 1, replug |-> FALSE,
            best |-> mode, current |-> mode, active |-> mode,
            fixed |-> fixed, fb |-> drawn, crop |-> drawn, changed |-> FALSE,
            list |-> {}, told |-> kind = "standard", configs |-> {}, size |-> drawn]

(***************************************************************************)
(* A mode is asked for by properties.                                      *)
(***************************************************************************)
\* The settings write the resolution, or the baseparameter, then the timeline.
WritesResolution(d, m, way) ==
  IF way = "base" THEN [d EXCEPT !.base = m, !.resolution = NoMode, !.half = TRUE]
  ELSE [d EXCEPT !.resolution = m, !.half = TRUE]
WritesTimeline(d) == [d EXCEPT !.stamp = @ + 1, !.half = FALSE]

\* The stored baseparameter is read once per timeline, if no property is set.
UpdateConnectorBaseInfo(d) ==
  IF d.resolution = NoMode /\ d.readAt # d.stamp
  THEN [d EXCEPT !.read = d.base, !.readAt = d.stamp] ELSE d

\* Does the connector have a mode of these timings?
Listed(m) == m \in Range(ModeList)

\* A resolution that is not listed is not looked for in the baseparameter.
GetBestDisplayMode(d) ==
  LET wish == IF d.resolution # NoMode THEN d.resolution ELSE d.read
  IN  [d EXCEPT !.best = IF Listed(wish) THEN wish ELSE Preferred]

HoplugEventTmeline(d) == [d EXCEPT !.replug = TRUE]

Unseen(d) == ~d.std /\ (d.stamp # d.seen \/ d.replug)
Taken(d)  ==
  LET b == GetBestDisplayMode(UpdateConnectorBaseInfo(d))
  IN  [b EXCEPT !.seen = d.stamp, !.replug = FALSE, !.current = b.best]

\* Mutant: the change is not marked.
Unmarked(d) == IF Unseen(d) THEN Taken(d) ELSE d

\* A mode other than the active one is marked; the caller clears the display.
GetCurrentDisplayMode(d) ==
  IF Unseen(d) THEN [Taken(d) EXCEPT !.changed = @ \/ Taken(d).best # d.active] ELSE d
Clears(d) == Unseen(d) /\ Taken(d).best # d.active

\* DrmDevice::UpdateDisplayMode(); the result of its commit is ignored.
NeedsSwitch(d, connected) == connected /\ d.current # d.active
UpdateDisplayMode(d, connected, ok) ==
  IF NeedsSwitch(d, connected) /\ ok THEN [d EXCEPT !.active = d.current] ELSE d

\* BindDpyRes() sets the current mode with the CRTC.
BindDpyRes(d) == [d EXCEPT !.active = d.current]

(***************************************************************************)
(* The configs reported.                                                   *)
(***************************************************************************)
\* The preferred mode and the active one; then, in the connector's order, interlaced modes
\* without a progressive form and the first of the modes that differ in their timing only.
\* Nothing depends on the order in which the configs are reported, which is left out.
First(d) == {Preferred, d.active}
Same(m, n) == Extent(m) = Extent(n) /\ Interlaced(m) = Interlaced(n)
Before(m)  == { ModeList[i] : i \in { j \in DOMAIN ModeList : \E k \in DOMAIN ModeList : j < k /\ ModeList[k] = m } }
Offered(first, m) ==
  IF Interlaced(m) THEN \A n \in Range(ModeList) : Interlaced(n) \/ Extent(n) # Extent(m)
  ELSE \A n \in first \cup Before(m) : ~Same(m, n)
SelectedModes(d) == First(d) \cup { m \in Range(ModeList) : Offered(First(d), m) }

GetFramebufferInfo(d) == d.fixed
FramebufferSize(d) ==
  IF GetFramebufferInfo(d) # 0 THEN GetFramebufferInfo(d)
  ELSE IF Extent(d.active) > Largest THEN Largest ELSE Extent(d.active)

\* Called for the count, ...
CountDisplayConfigs(d) ==
  IF d.std THEN [d EXCEPT !.list = SelectedModes(d)] ELSE [d EXCEPT !.fb = FramebufferSize(d)]

\* ... then for the configs, which are those counted before; the new ones are kept.
GetDisplayConfigs(d) ==
  IF d.std THEN [CountDisplayConfigs(d) EXCEPT !.configs = d.list]
  ELSE [CountDisplayConfigs(d) EXCEPT !.configs = {0}]

GetActiveConfig(d) ==
  IF d.std THEN [d EXCEPT !.fb = Extent(d.best), !.crop = Extent(d.best)] ELSE [d EXCEPT !.crop = d.fb]

\* Width and height of the active config; one that is not listed is refused.
GetDisplayAttribute(d) ==
  IF ~d.std THEN [d EXCEPT !.size = d.fb]
  ELSE IF d.active \in d.list THEN [d EXCEPT !.size = Extent(d.active)] ELSE d

\* SetActiveConfig(), SetActiveConfigWithConstraints(): without standard
\* switching only the crop is set.
SetActiveConfig(d, config, connected, ok) ==
  IF ~d.std THEN [d EXCEPT !.crop = d.fb]
  ELSE IF config \notin d.list THEN d
  ELSE UpdateDisplayMode([d EXCEPT !.best = config, !.current = config, !.crop = Extent(config)],
                         connected, ok)

ChosePreferredConfig(d, connected, ok) ==
  SetActiveConfig(CountDisplayConfigs(d), IF d.std THEN d.active ELSE 0, connected, ok)

\* What SurfaceFlinger does with a config, and when it is told of a display.
FlingerSets(d, config, connected, ok) ==
  LET s == SetActiveConfig(d, config, connected, ok)
  IN  IF config \in d.list THEN [s EXCEPT !.size = Extent(config)] ELSE s
FlingerCounts(d) == [CountDisplayConfigs(d) EXCEPT !.told = FALSE]
FlingerReads(d)  == GetDisplayAttribute(GetActiveConfig(GetDisplayConfigs(d)))

(***************************************************************************)
(* Property.                                                               *)
(***************************************************************************)
\* The mode that a look at what is asked for would choose.
Wanted(d) == GetBestDisplayMode(UpdateConnectorBaseInfo(d)).best

\* Everything follows the active mode, which is the one asked for.
Agree(d) ==
  /\ d.active = d.current /\ d.current = d.best
  /\ IF d.std THEN /\ d.size = Extent(d.active) /\ d.crop = Extent(d.active)
                   /\ d.active \in d.list /\ d.configs = d.list
     ELSE /\ d.half \/ d.best = Wanted(d)
          /\ d.fb = FramebufferSize(d) /\ d.crop = d.fb /\ d.size = d.fb
=============================================================================
