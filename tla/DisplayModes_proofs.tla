------------------------- MODULE DisplayModes_proofs -------------------------
(***************************************************************************)
(* Proofs about the primary display's modes, for any situation to start in *)
(* and any modes asked for: once a change has come to rest, the mode, the  *)
(* framebuffer, the client layer and SurfaceFlinger agree.                 *)
(***************************************************************************)
EXTENDS HwcDisplay, SequenceTheorems, TLAPS

DmFields == {"std", "dynamic", "resolution", "base", "stamp", "half", "read", "readAt", "seen", "replug",
             "best", "current", "active", "fixed", "fb", "crop", "changed", "list", "told", "configs", "size"}

(* The events still to be handled: a plugged display is reinitialised before *)
(* anything else and configured right after.                                 *)
EventForm(e, plugged) ==
  /\ e \in Seq({"clear", "reinit", "config", "refresh"})
  /\ \A i \in 1 .. Len(e) :
       /\ e[i] \in {"clear", "reinit"} => i = 1
       /\ e[i] = "reinit" => plugged /\ Len(e) > 1 /\ e[2] = "config"

Has(e, step) == \E i \in 1 .. Len(e) : e[i] = step

(* A change of mode is on its way to the framebuffer.                        *)
ConfigComes ==
  \/ dm.changed \/ "mode" \in pending
  \/ "hotplug" \in pending /\ connected
  \/ Has(event, "config")

(* A plugged display is on its way to be set up.                             *)
ReinitComes == "hotplug" \in pending \/ Has(event, "reinit")

(* Without standard switching the framebuffer has a size of its own.         *)
OwnSize ==
  /\ dm.best = dm.current
  /\ connected => dm.active = dm.current \/ ReinitComes
  /\ dm.fb = FramebufferSize(dm) \/ ConfigComes
  /\ dm.crop = dm.fb \/ sf = "configs"
  /\ dm.size = dm.fb \/ dm.told \/ sf = "configs"
  /\ dm.half \/ Unseen(dm) \/ dm.best = Wanted(dm)

(* With it everything has the size of the active mode, which SurfaceFlinger  *)
(* has chosen among those it was told of.                                    *)
ModeSize ==
  /\ dm.active = dm.current /\ dm.current = dm.best
  /\ dm.size = Extent(dm.active) /\ dm.crop = Extent(dm.active)
  /\ sf = "configs" => dm.told \/ dm.list = SelectedModes(dm)
  /\ dm.told \/ sf = "configs" \/ (dm.active \in dm.list /\ dm.configs = dm.list)

ModesInv ==
  /\ DOMAIN dm = DmFields
  /\ dm.seen \in Nat /\ dm.stamp \in Nat /\ dm.seen <= dm.stamp
  /\ EventForm(event, connected)
  /\ "unswitched" \notin past /\ dm.dynamic => IF dm.std THEN ModeSize ELSE OwnSize

(***************************************************************************)
(* Events.                                                                 *)
(***************************************************************************)
Steps == {"clear", "reinit", "config", "refresh"}

(* The first event is handled, the others wait.                              *)
LEMMA EventTail ==
  ASSUME NEW e, NEW plugged, EventForm(e, plugged), e # <<>>, NEW t, t = Tail(e)
  PROVE  /\ EventForm(t, plugged)
         /\ \A step : Has(e, step) /\ Head(e) # step => Has(t, step)
         /\ Head(e) = "reinit" => plugged /\ Has(t, "config")
         /\ ~Has(t, "reinit")
<1>1. /\ e \in Seq(Steps) /\ t \in Seq(Steps) /\ Len(t) = Len(e) - 1 /\ Len(e) \in Nat \ {0}
      /\ Head(e) = e[1]
      /\ \A i \in 1 .. Len(t) : t[i] = e[i + 1]
  BY DEF EventForm, Steps
<1>2. \A i \in 1 .. Len(t) : i + 1 \in 1 .. Len(e) /\ i + 1 # 1
  BY <1>1
<1>3. \A i \in 1 .. Len(t) : t[i] \notin {"clear", "reinit"}
  BY <1>1, <1>2 DEF EventForm
<1>4. EventForm(t, plugged)
  BY <1>1, <1>3 DEF EventForm, Steps
<1>5. ASSUME NEW step, Has(e, step), Head(e) # step
      PROVE  Has(t, step)
  <2>1. PICK i \in 1 .. Len(e) : e[i] = step
    BY <1>5 DEF Has
  <2>2. i - 1 \in 1 .. Len(t) /\ t[i - 1] = step
    BY <1>1, <1>5, <2>1
  <2> QED BY <2>2 DEF Has
<1>6. ASSUME Head(e) = "reinit"
      PROVE  plugged /\ Has(t, "config")
  <2>1. plugged /\ Len(e) > 1 /\ e[2] = "config"
    BY <1>1, <1>6 DEF EventForm
  <2>2. 1 \in 1 .. Len(t) /\ t[1] = "config"
    BY <1>1, <2>1
  <2> QED BY <2>1, <2>2 DEF Has
<1> QED BY <1>3, <1>4, <1>5, <1>6 DEF Has

(* Two handlers one after the other: the first may set up the display.       *)
LEMMA EventsJoined ==
  ASSUME NEW h \in Seq(Steps), NEW m \in Seq(Steps), NEW plugged, EventForm(h, plugged),
         \A i \in 1 .. Len(m) : m[i] \notin {"clear", "reinit"}
  PROVE  /\ EventForm(h \o m, plugged)
         /\ \A step : Has(h, step) \/ Has(m, step) => Has(h \o m, step)
<1> DEFINE e == h \o m
<1>1. /\ e \in Seq(Steps) /\ Len(e) = Len(h) + Len(m) /\ Len(h) \in Nat /\ Len(m) \in Nat
      /\ \A i \in 1 .. Len(e) : e[i] = IF i <= Len(h) THEN h[i] ELSE m[i - Len(h)]
  <2>1. Len(h) \in Nat /\ Len(m) \in Nat
    BY LenProperties
  <2>2. /\ e \in Seq(Steps) /\ Len(e) = Len(h) + Len(m)
        /\ \A i \in 1 .. Len(h) + Len(m) : e[i] = IF i <= Len(h) THEN h[i] ELSE m[i - Len(h)]
    BY ConcatProperties, Zenon
  <2> HIDE DEF e
  <2> QED BY <2>1, <2>2
<1> HIDE DEF e
<1>2. \A i \in 1 .. Len(h) : i \in 1 .. Len(e) /\ e[i] = h[i]
  BY <1>1
<1>3. \A i \in 1 .. Len(m) : i + Len(h) \in 1 .. Len(e) /\ e[i + Len(h)] = m[i]
  BY <1>1
<1>4. \A i \in 1 .. Len(e) : e[i] \in {"clear", "reinit"} => i \in 1 .. Len(h) /\ e[i] = h[i]
  <2>1. SUFFICES ASSUME NEW i \in 1 .. Len(e), ~(i <= Len(h))
                 PROVE  e[i] \notin {"clear", "reinit"}
    BY <1>1
  <2>2. i - Len(h) \in 1 .. Len(m) /\ e[i] = m[i - Len(h)]
    BY <1>1, <2>1
  <2> QED BY <2>2
<1>5. EventForm(e, plugged)
  <2>1. SUFFICES ASSUME NEW i \in 1 .. Len(e), e[i] \in {"clear", "reinit"}
                 PROVE  /\ i = 1
                        /\ e[i] = "reinit" => plugged /\ Len(e) > 1 /\ e[2] = "config"
    BY <1>1 DEF EventForm, Steps
  <2>2. i \in 1 .. Len(h) /\ e[i] = h[i]
    BY <1>4, <2>1
  <2>3. i = 1 /\ (h[i] = "reinit" => plugged /\ Len(h) > 1 /\ h[2] = "config")
    BY <2>1, <2>2 DEF EventForm
  <2>4. Len(h) > 1 => Len(e) > 1 /\ e[2] = h[2]
    BY <1>1, <1>2
  <2> QED BY <2>2, <2>3, <2>4
<1>6. ASSUME NEW step, Has(h, step) \/ Has(m, step)
      PROVE  Has(e, step)
  BY <1>2, <1>3, <1>6 DEF Has
<1> QED BY <1>5, <1>6 DEF e

(* What is taken from the pending events: the display is set up if it was    *)
(* plugged in, and configured if its mode has changed, too.                  *)
LEMMA EventsTaken ==
  ASSUME NEW e, e = HandlesHotplug \o HandlesMode
  PROVE  /\ EventForm(e, connected)
         /\ "hotplug" \in pending /\ connected => Has(e, "reinit") /\ Has(e, "config")
         /\ "mode" \in pending /\ dm.dynamic => Has(e, "config")
<1> DEFINE h == HandlesHotplug
           m == HandlesMode
<1>1. /\ m \in Seq(Steps)
      /\ \A i \in 1 .. Len(m) : m[i] \notin {"clear", "reinit"}
      /\ "mode" \in pending /\ dm.dynamic => Has(m, "config")
  <2>1. CASE m = <<>>
    BY <2>1 DEF HandlesMode
  <2>2. CASE m = <<"config", "refresh">>
    <3>1. m \in Seq(Steps) /\ Len(m) = 2 /\ m[1] = "config" /\ m[2] = "refresh"
      BY <2>2 DEF Steps
    <3> HIDE DEF m
    <3>2. 1 \in 1 .. Len(m)
      BY <3>1
    <3> QED BY <3>1, <3>2 DEF Has
  <2> QED BY <2>1, <2>2 DEF HandlesMode
<1>2. /\ h \in Seq(Steps) /\ EventForm(h, connected)
      /\ "hotplug" \in pending /\ connected => Has(h, "reinit") /\ Has(h, "config")
  <2>1. CASE h = <<>>
    <3>1. h \in Seq(Steps) /\ Len(h) = 0
      BY <2>1
    <3>2. ~("hotplug" \in pending /\ connected)
      BY <2>1 DEF HandlesHotplug
    <3> HIDE DEF h
    <3> QED BY <3>1, <3>2 DEF EventForm, Steps
  <2>2. CASE h = <<"reinit", "config", "refresh">> /\ connected
    <3>1. h \in Seq(Steps) /\ Len(h) = 3 /\ h[1] = "reinit" /\ h[2] = "config" /\ h[3] = "refresh"
      BY <2>2 DEF Steps
    <3> HIDE DEF h
    <3>2. 1 \in 1 .. Len(h) /\ 2 \in 1 .. Len(h)
      BY <3>1
    <3> QED BY <2>2, <3>1, <3>2 DEF EventForm, Has, Steps
  <2>3. CASE h = <<"clear", "refresh">> /\ ~connected
    <3>1. h \in Seq(Steps) /\ Len(h) = 2 /\ h[1] = "clear" /\ h[2] = "refresh"
      BY <2>3 DEF Steps
    <3> HIDE DEF h
    <3> QED BY <2>3, <3>1 DEF EventForm, Steps
  <2> QED BY <2>1, <2>2, <2>3 DEF HandlesHotplug
<1>3. e = h \o m
  OBVIOUS
<1> HIDE DEF h, m
<1> QED BY <1>1, <1>2, <1>3, EventsJoined

(***************************************************************************)
(* The operators on dm: what each of them changes.                         *)
(***************************************************************************)

(* Nothing but the fields fs changes from d to e.                            *)
Keeps(d, e, fs) ==
  DOMAIN e = DmFields /\ \A f \in DmFields \ fs : e[f] = d[f]

LEMMA KeepsThen ==
  ASSUME NEW c, NEW d, NEW e, NEW fs, NEW gs, Keeps(c, d, fs), Keeps(d, e, gs)
  PROVE  Keeps(c, e, fs \cup gs)
  BY DEF Keeps

(* The mode that is asked for, of a resolution and of what is stored.        *)
Choice(resolution, stored) ==
  LET wish == IF resolution # NoMode THEN resolution ELSE stored
  IN  IF Listed(wish) THEN wish ELSE Preferred
Stored(d) == IF d.readAt # d.stamp THEN d.base ELSE d.read

LEMMA WantedIs ==
  ASSUME NEW d, DOMAIN d = DmFields
  PROVE  Wanted(d) = Choice(d.resolution, Stored(d))
<1> DEFINE u == UpdateConnectorBaseInfo(d)
           choice == IF Listed(IF u.resolution # NoMode THEN u.resolution ELSE u.read)
                     THEN (IF u.resolution # NoMode THEN u.resolution ELSE u.read) ELSE Preferred
<1>1. /\ DOMAIN u = DmFields /\ u.resolution = d.resolution
      /\ u.resolution = NoMode => u.read = Stored(d)
  BY DEF UpdateConnectorBaseInfo, DmFields, Stored
<1>2. Wanted(d) = [u EXCEPT !.best = choice].best
  BY DEF Wanted, GetBestDisplayMode
<1>3. choice = Choice(d.resolution, Stored(d))
  BY <1>1 DEF Choice
<1> HIDE DEF u, choice
<1> QED BY <1>1, <1>2, <1>3 DEF DmFields

(* What Wanted() looks at.                                                   *)
LEMMA WantedSame ==
  ASSUME NEW d, NEW e, DOMAIN d = DmFields, DOMAIN e = DmFields, e.resolution = d.resolution,
         e.base = d.base, e.stamp = d.stamp, e.read = d.read, e.readAt = d.readAt
  PROVE  Wanted(e) = Wanted(d)
  BY WantedIs DEF Stored

TakenFields == {"read", "readAt", "best", "seen", "replug", "current"}

LEMMA TakenIs ==
  ASSUME NEW d, DOMAIN d = DmFields, NEW t, t = Taken(d)
  PROVE  /\ Keeps(d, t, TakenFields)
         /\ t.seen = d.stamp /\ t.replug = FALSE /\ t.current = t.best /\ t.best = Wanted(t)
<1> DEFINE u == UpdateConnectorBaseInfo(d)
           b == GetBestDisplayMode(u)
           choice == Choice(u.resolution, u.read)
<1>1. /\ Keeps(d, u, {"read", "readAt"})
      /\ u.resolution = NoMode => u.readAt = u.stamp
  BY DEF UpdateConnectorBaseInfo, DmFields, Keeps
<1>2. b = [u EXCEPT !.best = choice]
  BY DEF GetBestDisplayMode, Choice
<1>3. t = [b EXCEPT !.seen = d.stamp, !.replug = FALSE, !.current = b.best]
  BY DEF Taken
<1> HIDE DEF u, b, choice
<1>4. Keeps(u, b, {"best"}) /\ b.best = choice
  BY <1>1, <1>2 DEF Keeps, DmFields
<1>5. /\ Keeps(b, t, {"seen", "replug", "current"})
      /\ t.seen = d.stamp /\ t.replug = FALSE /\ t.current = b.best
  BY <1>3, <1>4 DEF Keeps, DmFields
<1>6. Keeps(d, t, TakenFields)
  BY <1>1, <1>4, <1>5 DEF Keeps, TakenFields
<1>7. /\ DOMAIN t = DmFields /\ t.best = choice /\ t.resolution = u.resolution /\ t.read = u.read
      /\ t.readAt = u.readAt /\ t.stamp = u.stamp
  BY <1>4, <1>5 DEF Keeps, DmFields
<1>8. Wanted(t) = choice
  BY <1>1, <1>7, WantedIs DEF Stored, choice, Choice
<1> QED BY <1>4, <1>5, <1>6, <1>7, <1>8

(* What is asked for is taken over, and marked if it is not what is active.  *)
LEMMA GetCurrentDisplayModeIs ==
  ASSUME NEW d, DOMAIN d = DmFields, NEW g, g = GetCurrentDisplayMode(d)
  PROVE  /\ Keeps(d, g, TakenFields \cup {"changed"})
         /\ ~Unseen(d) => g = d
         /\ Unseen(d) => /\ g.seen = d.stamp /\ g.replug = FALSE /\ g.current = g.best /\ g.best = Wanted(g)
                         /\ d.changed \/ g.best # d.active => g.changed
<1>1. CASE Unseen(d)
  <2> DEFINE t == Taken(d)
             changed == d.changed \/ t.best # d.active
  <2>1. /\ Keeps(d, t, TakenFields)
        /\ t.seen = d.stamp /\ t.replug = FALSE /\ t.current = t.best /\ t.best = Wanted(t)
    BY TakenIs
  <2>2. t.changed = d.changed
    BY <2>1 DEF Keeps, DmFields, TakenFields
  <2>3. g = [t EXCEPT !.changed = changed]
    BY <1>1, <2>2 DEF GetCurrentDisplayMode
  <2> HIDE DEF t, changed
  <2>4. Keeps(t, g, {"changed"}) /\ g.changed = changed
    BY <2>1, <2>3 DEF Keeps, DmFields
  <2>5. Keeps(d, g, TakenFields \cup {"changed"})
    BY <2>1, <2>4, KeepsThen
  <2>6. /\ g.seen = t.seen /\ g.replug = t.replug /\ g.current = t.current /\ g.best = t.best
        /\ DOMAIN t = DmFields /\ DOMAIN g = DmFields /\ g.resolution = t.resolution /\ g.base = t.base
        /\ g.stamp = t.stamp /\ g.read = t.read /\ g.readAt = t.readAt
    BY <2>1, <2>4 DEF Keeps, DmFields
  <2>7. Wanted(g) = Wanted(t)
    BY <2>6, WantedSame
  <2> QED BY <1>1, <2>1, <2>4, <2>5, <2>6, <2>7 DEF changed
<1>2. CASE ~Unseen(d)
  BY <1>2 DEF GetCurrentDisplayMode, Keeps
<1> QED BY <1>1, <1>2

LEMMA UpdateDisplayModeIs ==
  ASSUME NEW d, DOMAIN d = DmFields, NEW cable, NEW ok, NEW e, e = UpdateDisplayMode(d, cable, ok)
  PROVE  /\ Keeps(d, e, {"active"})
         /\ IF NeedsSwitch(d, cable) /\ ok THEN e.active = d.current ELSE e = d
  BY DEF UpdateDisplayMode, Keeps, DmFields

LEMMA BindDpyResIs ==
  ASSUME NEW d, DOMAIN d = DmFields, NEW e, e = BindDpyRes(d)
  PROVE  Keeps(d, e, {"active"}) /\ e.active = d.current
  BY DEF BindDpyRes, Keeps, DmFields

LEMMA CountDisplayConfigsIs ==
  ASSUME NEW d, DOMAIN d = DmFields, NEW e, e = CountDisplayConfigs(d)
  PROVE  /\ d.std => Keeps(d, e, {"list"}) /\ e.list = SelectedModes(d)
         /\ ~d.std => Keeps(d, e, {"fb"}) /\ e.fb = FramebufferSize(d)
  BY DEF CountDisplayConfigs, Keeps, DmFields

LEMMA FramebufferSizeSame ==
  ASSUME NEW d, NEW e, e.fixed = d.fixed, e.active = d.active
  PROVE  FramebufferSize(e) = FramebufferSize(d)
  BY DEF FramebufferSize, GetFramebufferInfo

LEMMA SelectedModesSame ==
  ASSUME NEW d, NEW e, e.active = d.active
  PROVE  SelectedModes(e) = SelectedModes(d)
  BY DEF SelectedModes, First

LEMMA ActiveIsSelected ==
  ASSUME NEW d
  PROVE  d.active \in SelectedModes(d)
  BY DEF SelectedModes, First

LEMMA UnseenSame ==
  ASSUME NEW d, NEW e, e.std = d.std, e.stamp = d.stamp, e.seen = d.seen, e.replug = d.replug
  PROVE  Unseen(e) <=> Unseen(d)
  BY DEF Unseen

LEMMA SetActiveConfigIs ==
  ASSUME NEW d, DOMAIN d = DmFields, NEW config, NEW cable, NEW ok, NEW e, e = SetActiveConfig(d, config, cable, ok)
  PROVE  /\ ~d.std => Keeps(d, e, {"crop"}) /\ e.crop = d.fb
         /\ d.std /\ config \notin d.list => e = d
         /\ d.std /\ config \in d.list =>
              /\ Keeps(d, e, {"best", "current", "crop", "active"})
              /\ e.best = config /\ e.current = config /\ e.crop = Extent(config)
              /\ e.active = IF cable /\ ok /\ config # d.active THEN config ELSE d.active
<1>1. CASE ~d.std
  BY <1>1 DEF SetActiveConfig, Keeps, DmFields
<1>2. CASE d.std /\ config \notin d.list
  BY <1>2 DEF SetActiveConfig
<1>3. CASE d.std /\ config \in d.list
  <2> DEFINE x == Extent(config)
             s == [d EXCEPT !.best = config, !.current = config, !.crop = x]
  <2>1. e = UpdateDisplayMode(s, cable, ok)
    BY <1>3 DEF SetActiveConfig
  <2> HIDE DEF x
  <2>2. Keeps(d, s, {"best", "current", "crop"}) /\ s.best = config /\ s.current = config /\ s.crop = x
        /\ s.active = d.active
    BY DEF Keeps, DmFields
  <2> HIDE DEF s
  <2>3. /\ Keeps(s, e, {"active"})
        /\ IF NeedsSwitch(s, cable) /\ ok THEN e.active = s.current ELSE e = s
    BY <2>1, <2>2, UpdateDisplayModeIs DEF Keeps
  <2>4. e.active = IF cable /\ ok /\ config # d.active THEN config ELSE d.active
    BY <2>2, <2>3 DEF NeedsSwitch
  <2>5. e.best = config /\ e.current = config /\ e.crop = x
    BY <2>2, <2>3 DEF Keeps, DmFields
  <2>6. Keeps(d, e, {"best", "current", "crop", "active"})
    BY <2>2, <2>3 DEF Keeps
  <2> QED BY <1>3, <2>4, <2>5, <2>6 DEF x
<1> QED BY <1>1, <1>2, <1>3

(* The event thread sets the active config anew.                             *)
LEMMA ConfiguredIs ==
  ASSUME NEW d, DOMAIN d = DmFields, NEW cable,
         NEW e, e = [ChosePreferredConfig(d, cable, TRUE) EXCEPT !.told = TRUE]
  PROVE  /\ e.told = TRUE
         /\ ~d.std => /\ Keeps(d, e, {"fb", "crop", "told"})
                      /\ e.fb = FramebufferSize(d) /\ e.crop = e.fb
         /\ d.std => /\ Keeps(d, e, {"list", "best", "current", "crop", "told"})
                     /\ e.list = SelectedModes(d)
                     /\ e.best = d.active /\ e.current = d.active /\ e.crop = Extent(d.active)
<1> DEFINE c == CountDisplayConfigs(d)
           s == ChosePreferredConfig(d, cable, TRUE)
           config == IF d.std THEN d.active ELSE 0
<1>1. s = SetActiveConfig(c, config, cable, TRUE)
  BY DEF ChosePreferredConfig
<1>2. /\ d.std => Keeps(d, c, {"list"}) /\ c.list = SelectedModes(d)
      /\ ~d.std => Keeps(d, c, {"fb"}) /\ c.fb = FramebufferSize(d)
  BY CountDisplayConfigsIs
<1>3. e = [s EXCEPT !.told = TRUE]
  OBVIOUS
<1> HIDE DEF c, s, config
<1>4. DOMAIN c = DmFields /\ c.std = d.std
  BY <1>2 DEF Keeps, DmFields
<1>5. CASE ~d.std
  <2>1. Keeps(c, s, {"crop"}) /\ s.crop = c.fb
    BY <1>1, <1>4, <1>5, SetActiveConfigIs
  <2>2. Keeps(s, e, {"told"}) /\ e.told = TRUE
    BY <1>3, <2>1 DEF Keeps, DmFields
  <2>3. e.fb = FramebufferSize(d) /\ e.crop = e.fb
    <3>1. c.fb = FramebufferSize(d)
      BY <1>2, <1>5
    <3>2. s.fb = c.fb /\ e.fb = s.fb /\ e.crop = s.crop
      BY <2>1, <2>2 DEF Keeps, DmFields
    <3> QED BY <2>1, <3>1, <3>2
  <2>4. Keeps(d, e, {"fb", "crop", "told"})
    BY <1>2, <1>5, <2>1, <2>2 DEF Keeps
  <2> QED BY <1>5, <2>2, <2>3, <2>4
<1>6. CASE d.std
  <2>1. c.active = d.active /\ config = d.active /\ config \in c.list
    BY <1>2, <1>6, ActiveIsSelected DEF Keeps, DmFields, config
  <2>2. /\ Keeps(c, s, {"best", "current", "crop", "active"})
        /\ s.best = config /\ s.current = config /\ s.crop = Extent(config)
        /\ s.active = c.active
    <3>1. c.std /\ config \in c.list
      BY <1>4, <1>6, <2>1
    <3> DEFINE yes == TRUE
    <3>2. s = SetActiveConfig(c, config, cable, yes)
      BY <1>1
    <3> HIDE DEF yes
    <3>3. /\ Keeps(c, s, {"best", "current", "crop", "active"})
          /\ s.best = config /\ s.current = config /\ s.crop = Extent(config)
          /\ s.active = IF cable /\ yes /\ config # c.active THEN config ELSE c.active
      BY <1>4, <3>1, <3>2, SetActiveConfigIs
    <3> QED BY <2>1, <3>3
  <2>3. Keeps(s, e, {"told"}) /\ e.told = TRUE
    BY <1>3, <2>2 DEF Keeps, DmFields
  <2>4. /\ e.list = c.list /\ e.best = s.best /\ e.current = s.current /\ e.crop = s.crop /\ e.active = s.active
    BY <2>2, <2>3 DEF Keeps, DmFields
  <2>5. e.active = d.active
    BY <2>1, <2>2, <2>4, Zenon
  <2>6. Keeps(d, e, {"list", "best", "current", "crop", "told"})
    <3>1. DOMAIN e = DmFields
      BY <2>3 DEF Keeps
    <3>2. ASSUME NEW f \in DmFields \ {"list", "best", "current", "crop", "told"}
          PROVE  e[f] = d[f]
      <4>1. CASE f = "active"
        BY <2>5, <4>1
      <4>2. CASE f # "active"
        <5>1. Keeps(d, c, {"list"})
          BY <1>2, <1>6
        <5>2. c[f] = d[f]
          BY <5>1, <3>2 DEF Keeps
        <5>3. s[f] = c[f]
          BY <2>2, <3>2, <4>2 DEF Keeps
        <5>4. e[f] = s[f]
          BY <2>3, <3>2 DEF Keeps
        <5> QED BY <5>2, <5>3, <5>4
      <4> QED BY <4>1, <4>2
    <3> QED BY <3>1, <3>2 DEF Keeps
  <2> QED BY <1>2, <1>6, <2>1, <2>2, <2>3, <2>4, <2>6
<1> QED BY <1>5, <1>6

LEMMA FlingerCountsIs ==
  ASSUME NEW d, DOMAIN d = DmFields, NEW e, e = FlingerCounts(d)
  PROVE  /\ e.told = FALSE
         /\ d.std => Keeps(d, e, {"list", "told"}) /\ e.list = SelectedModes(d)
         /\ ~d.std => Keeps(d, e, {"fb", "told"}) /\ e.fb = FramebufferSize(d)
<1> DEFINE c == CountDisplayConfigs(d)
<1>1. /\ d.std => Keeps(d, c, {"list"}) /\ c.list = SelectedModes(d)
      /\ ~d.std => Keeps(d, c, {"fb"}) /\ c.fb = FramebufferSize(d)
  BY CountDisplayConfigsIs
<1>2. e = [c EXCEPT !.told = FALSE]
  BY DEF FlingerCounts
<1> HIDE DEF c
<1>3. DOMAIN c = DmFields
  BY <1>1 DEF Keeps
<1>4. Keeps(c, e, {"told"}) /\ e.told = FALSE
  BY <1>2, <1>3 DEF Keeps, DmFields
<1>5. e.list = c.list /\ e.fb = c.fb
  BY <1>4 DEF Keeps, DmFields
<1> QED BY <1>1, <1>4, <1>5 DEF Keeps

(* What SurfaceFlinger has read is what was counted before.                  *)
LEMMA FlingerReadsIs ==
  ASSUME NEW d, DOMAIN d = DmFields, NEW e, e = FlingerReads(d)
  PROVE  /\ ~d.std => /\ Keeps(d, e, {"fb", "crop", "size", "configs"})
                      /\ e.fb = FramebufferSize(d) /\ e.crop = e.fb /\ e.size = e.fb
         /\ d.std => /\ Keeps(d, e, {"list", "fb", "crop", "size", "configs"})
                     /\ e.list = SelectedModes(d) /\ e.configs = d.list
                     /\ e.crop = Extent(d.best) /\ e.size = Extent(d.active)
<1> DEFINE c == CountDisplayConfigs(d)
           g == GetDisplayConfigs(d)
           a == GetActiveConfig(g)
<1>1. /\ d.std => Keeps(d, c, {"list"}) /\ c.list = SelectedModes(d)
      /\ ~d.std => Keeps(d, c, {"fb"}) /\ c.fb = FramebufferSize(d)
  BY CountDisplayConfigsIs
<1>2. DOMAIN c = DmFields
  BY <1>1 DEF Keeps
<1>3. e = GetDisplayAttribute(a)
  BY DEF FlingerReads
<1> HIDE DEF c
<1>4. g = IF d.std THEN [c EXCEPT !.configs = d.list] ELSE [c EXCEPT !.configs = {0}]
  BY DEF GetDisplayConfigs, c
<1> HIDE DEF g
<1>5. Keeps(c, g, {"configs"}) /\ (d.std => g.configs = d.list)
  BY <1>2, <1>4 DEF Keeps, DmFields
<1>6. /\ g.std = d.std /\ g.best = d.best /\ g.active = d.active /\ g.list = c.list /\ g.fb = c.fb
      /\ DOMAIN g = DmFields
  BY <1>1, <1>5 DEF Keeps, DmFields
<1> DEFINE x == Extent(d.best)
<1>7. a = IF d.std THEN [g EXCEPT !.fb = x, !.crop = x] ELSE [g EXCEPT !.crop = g.fb]
  BY <1>6 DEF GetActiveConfig
<1> HIDE DEF a, x
<1>8. /\ Keeps(g, a, {"fb", "crop"})
      /\ IF d.std THEN a.crop = x ELSE a.crop = g.fb /\ a.fb = g.fb
  BY <1>6, <1>7 DEF Keeps, DmFields
<1>9. /\ a.std = d.std /\ a.active = d.active /\ a.list = c.list /\ a.configs = g.configs
      /\ DOMAIN a = DmFields
  BY <1>6, <1>8 DEF Keeps, DmFields
<1> DEFINE y == Extent(d.active)
<1>10. d.std => d.active \in a.list
  BY <1>1, <1>9, ActiveIsSelected
<1>11. e = IF d.std THEN [a EXCEPT !.size = y] ELSE [a EXCEPT !.size = a.fb]
  BY <1>3, <1>9, <1>10 DEF GetDisplayAttribute
<1> HIDE DEF y
<1>12. Keeps(a, e, {"size"}) /\ (IF d.std THEN e.size = y ELSE e.size = a.fb)
  BY <1>9, <1>11 DEF Keeps, DmFields
<1>13. /\ e.list = a.list /\ e.configs = a.configs /\ e.crop = a.crop /\ e.fb = a.fb
  BY <1>12 DEF Keeps, DmFields
<1>14. CASE ~d.std
  <2>1. Keeps(d, e, {"fb", "crop", "size", "configs"})
    BY <1>1, <1>5, <1>8, <1>12, <1>14 DEF Keeps
  <2> QED BY <1>1, <1>6, <1>8, <1>12, <1>13, <1>14, <2>1
<1>15. CASE d.std
  <2>1. Keeps(d, e, {"list", "fb", "crop", "size", "configs"})
    BY <1>1, <1>5, <1>8, <1>12, <1>15 DEF Keeps
  <2> QED BY <1>1, <1>5, <1>8, <1>9, <1>12, <1>13, <1>15, <2>1 DEF x, y
<1> QED BY <1>14, <1>15

(* SurfaceFlinger sets a config, which is refused if it is not listed.       *)
LEMMA FlingerSetsIs ==
  ASSUME NEW d, DOMAIN d = DmFields, d.std, NEW config, NEW cable, NEW ok,
         NEW e, e = FlingerSets(d, config, cable, ok)
  PROVE  /\ config \notin d.list => e = d
         /\ config \in d.list =>
              /\ Keeps(d, e, {"best", "current", "crop", "active", "size"})
              /\ e.best = config /\ e.current = config /\ e.crop = Extent(config) /\ e.size = Extent(config)
              /\ e.active = IF cable /\ ok /\ config # d.active THEN config ELSE d.active
<1> DEFINE s == SetActiveConfig(d, config, cable, ok)
           x == Extent(config)
<1>1. e = IF config \in d.list THEN [s EXCEPT !.size = x] ELSE s
  BY DEF FlingerSets
<1>2. /\ config \notin d.list => s = d
      /\ config \in d.list =>
              /\ Keeps(d, s, {"best", "current", "crop", "active"})
              /\ s.best = config /\ s.current = config /\ s.crop = x
              /\ s.active = IF cable /\ ok /\ config # d.active THEN config ELSE d.active
  BY SetActiveConfigIs
<1> HIDE DEF s, x
<1>3. CASE config \in d.list
  <2>1. Keeps(s, e, {"size"}) /\ e.size = x
    BY <1>1, <1>2, <1>3 DEF Keeps, DmFields
  <2>2. /\ e.best = s.best /\ e.current = s.current /\ e.crop = s.crop /\ e.active = s.active
    BY <2>1 DEF Keeps, DmFields
  <2>3. Keeps(d, e, {"best", "current", "crop", "active", "size"})
    BY <1>2, <1>3, <2>1 DEF Keeps
  <2> QED BY <1>2, <1>3, <2>1, <2>2, <2>3 DEF x
<1> QED BY <1>1, <1>2, <1>3

(***************************************************************************)
(* The invariant.                                                          *)
(***************************************************************************)
LEMMA ModesInvInit == Init => ModesInv
<1> SUFFICES ASSUME Init PROVE ModesInv
  OBVIOUS
<1>1. PICK mode \in 1 .. 5, kind_ \in {"single", "standard", "static"}, fixed \in 0 .. 2 :
        ModesInit(mode, kind_, fixed)
  BY HwcDisplayAssumption DEF Init, Setup
<1> DEFINE own == IF fixed # 0 THEN fixed ELSE IF Extent(mode) > Largest THEN Largest ELSE Extent(mode)
           drawn == IF kind_ = "standard" THEN Extent(mode) ELSE own
<1>2. /\ DOMAIN dm = DmFields
      /\ dm.std <=> kind_ = "standard"
      /\ dm.resolution = (IF mode = Preferred THEN NoMode ELSE mode) /\ dm.base = NoMode /\ dm.read = NoMode
      /\ dm.stamp = 1 /\ dm.readAt = 1 /\ dm.seen = 1
      /\ dm.best = mode /\ dm.current = mode /\ dm.active = mode /\ dm.fixed = fixed
      /\ dm.fb = drawn /\ dm.crop = drawn /\ dm.size = drawn
      /\ dm.told <=> kind_ = "standard"
  BY <1>1 DEF ModesInit, DmFields
<1>3. Listed(mode) /\ ~Listed(NoMode)
  <2>1. Range(ModeList) = 1 .. 5
    BY DEF ModeList, Range
  <2> QED BY <2>1 DEF Listed, NoMode
<1>4. dm.best = Wanted(dm)
  BY <1>2, <1>3, WantedIs DEF Choice, Stored, Preferred, NoMode
<1>5. EventForm(event, connected)
  <2>1. event \in Seq(Steps) /\ Len(event) = 0
    BY DEF Init
  <2> QED BY <2>1 DEF EventForm, Steps
<1>6. CASE dm.std
  <2>1. dm.size = Extent(mode) /\ dm.crop = Extent(mode)
    BY <1>2, <1>6
  <2>2. ModeSize
    BY <1>2, <1>6, <2>1 DEF ModeSize
  <2> QED BY <1>2, <1>5, <1>6, <2>2 DEF ModesInv
<1>7. CASE ~dm.std
  <2>1. dm.fb = own
    BY <1>2, <1>7
  <2>2. FramebufferSize(dm) = own
    BY <1>2 DEF FramebufferSize, GetFramebufferInfo
  <2>3. OwnSize
    BY <1>2, <1>4, <2>1, <2>2, <1>7 DEF OwnSize
  <2> QED BY <1>2, <1>5, <1>7, <2>3 DEF ModesInv
<1> QED BY <1>6, <1>7

(* What does not touch the modes, the cable or the events; an event may      *)
(* become pending.                                                           *)
LEMMA ModesSame ==
  ASSUME ModesInv, dm' = dm, event' = event, connected' = connected, pending' = pending,
         sf' = "configs" <=> sf = "configs", "unswitched" \in past => "unswitched" \in past'
  PROVE  ModesInv'
<1>1. ModeSize => ModeSize'
  BY DEF ModeSize
<1>2. OwnSize => OwnSize'
  BY DEF OwnSize, ConfigComes, ReinitComes
<1> QED BY <1>1, <1>2 DEF ModesInv

(* SurfaceFlinger's thread looks at the modes asked for.                     *)
LEMMA UpdatesModeKeeps ==
  ASSUME ModesInv, UpdatesMode
  PROVE  ModesInv'
<1> DEFINE d == GetCurrentDisplayMode(dm)
<1>1. PICK ok \in BOOLEAN :
        /\ ok \/ NeedsSwitch(d, connected)
        /\ past' = Unswitched(NeedsSwitch(d, connected), ok)
        /\ dm' = UpdateDisplayMode(d, connected, ok)
  BY DEF UpdatesMode
<1>2. /\ DOMAIN dm = DmFields /\ ~dm.std /\ dm.seen \in Nat /\ dm.stamp \in Nat /\ dm.seen <= dm.stamp
      /\ EventForm(event, connected)
      /\ event' = event /\ connected' = connected /\ pending' = pending
      /\ sf = "idle" /\ sf' = "validate"
  BY DEF ModesInv, UpdatesMode, ModeToUpdate, Starts
<1>3. /\ Keeps(dm, d, TakenFields \cup {"changed"})
      /\ ~Unseen(dm) => d = dm
      /\ Unseen(dm) => /\ d.seen = dm.stamp /\ d.replug = FALSE /\ d.current = d.best /\ d.best = Wanted(d)
                       /\ dm.changed \/ d.best # dm.active => d.changed
  BY <1>2, GetCurrentDisplayModeIs
<1> HIDE DEF d
<1>4. /\ Keeps(d, dm', {"active"})
      /\ IF NeedsSwitch(d, connected) /\ ok THEN dm'.active = d.current ELSE dm' = d
  BY <1>1, <1>3, UpdateDisplayModeIs DEF Keeps
<1>5. /\ DOMAIN d = DmFields /\ DOMAIN dm' = DmFields
      /\ d.std = dm.std /\ d.dynamic = dm.dynamic /\ d.stamp = dm.stamp /\ d.half = dm.half /\ d.active = dm.active
      /\ d.fixed = dm.fixed /\ d.fb = dm.fb /\ d.crop = dm.crop /\ d.size = dm.size /\ d.told = dm.told
      /\ dm'.std = dm.std /\ dm'.dynamic = dm.dynamic /\ dm'.stamp = dm.stamp /\ dm'.half = dm.half
      /\ dm'.fixed = dm.fixed /\ dm'.fb = dm.fb /\ dm'.crop = dm.crop /\ dm'.size = dm.size /\ dm'.told = dm.told
      /\ dm'.best = d.best /\ dm'.current = d.current /\ dm'.seen = d.seen /\ dm'.replug = d.replug
      /\ dm'.changed = d.changed /\ dm'.resolution = d.resolution /\ dm'.base = d.base
      /\ dm'.read = d.read /\ dm'.readAt = d.readAt
  BY <1>3, <1>4 DEF Keeps, DmFields, TakenFields
<1>6. dm'.seen \in Nat /\ dm'.stamp \in Nat /\ dm'.seen <= dm'.stamp
  BY <1>2, <1>3, <1>5
<1>7. ASSUME "unswitched" \notin past', dm.dynamic
      PROVE  OwnSize'
  <2>1. OwnSize /\ (NeedsSwitch(d, connected) => ok)
    BY <1>1, <1>2, <1>7 DEF ModesInv, Unswitched
  <2>2. Wanted(dm') = Wanted(d) /\ (Unseen(dm') <=> Unseen(d))
    BY <1>5, WantedSame, UnseenSame
  <2>3. dm'.best = dm'.current
    BY <1>3, <1>5, <2>1 DEF OwnSize
  <2>4. connected => dm'.active = dm'.current
    BY <1>4, <1>5, <2>1 DEF NeedsSwitch
  <2>5. dm'.half \/ Unseen(dm') \/ dm'.best = Wanted(dm')
    BY <1>3, <1>5, <2>1, <2>2 DEF OwnSize
  <2>6. dm'.fb = FramebufferSize(dm') \/ ConfigComes'
    <3>1. CASE dm'.active = dm.active
      <4>1. FramebufferSize(dm') = FramebufferSize(dm)
        BY <1>5, <3>1, FramebufferSizeSame
      <4>2. dm.changed => dm'.changed
        BY <1>3, <1>5
      <4> QED BY <1>2, <1>5, <2>1, <4>1, <4>2 DEF OwnSize, ConfigComes
    <3>2. CASE dm'.active # dm.active
      <4>1. connected /\ d.current # dm.active
        BY <1>4, <1>5, <3>2 DEF NeedsSwitch
      <4>2. CASE Unseen(dm)
        BY <1>3, <1>5, <4>1, <4>2 DEF ConfigComes
      <4>3. CASE ~Unseen(dm)
        <5>1. ReinitComes
          BY <1>3, <2>1, <4>1, <4>3 DEF OwnSize
        <5>2. ConfigComes
          <6>1. CASE "hotplug" \in pending
            BY <4>1, <6>1 DEF ConfigComes
          <6>2. CASE Has(event, "reinit")
            <7>1. PICK i \in 1 .. Len(event) : event[i] = "reinit"
              BY <6>2 DEF Has
            <7>2. Len(event) > 1 /\ event[2] = "config"
              BY <1>2, <7>1 DEF EventForm
            <7>3. 2 \in 1 .. Len(event)
              BY <1>2, <7>2 DEF EventForm
            <7> QED BY <7>2, <7>3 DEF Has, ConfigComes
          <6> QED BY <5>1, <6>1, <6>2 DEF ReinitComes
        <5> QED BY <1>2, <1>3, <1>5, <4>3, <5>2 DEF ConfigComes
      <4> QED BY <4>2, <4>3
    <3> QED BY <3>1, <3>2
  <2>7. dm'.crop = dm'.fb /\ (dm'.size = dm'.fb \/ dm'.told)
    BY <1>2, <1>5, <2>1 DEF OwnSize
  <2> QED BY <1>2, <2>3, <2>4, <2>5, <2>6, <2>7 DEF OwnSize
<1> QED BY <1>2, <1>5, <1>6, <1>7 DEF ModesInv

(* SurfaceFlinger counts the configs, and reads them.                        *)
LEMMA CountsKeeps ==
  ASSUME ModesInv, CountsConfigs
  PROVE  ModesInv'
<1>1. /\ DOMAIN dm = DmFields /\ dm' = FlingerCounts(dm) /\ sf' = "configs"
      /\ event' = event /\ connected' = connected /\ pending' = pending /\ past' = past
  BY DEF ModesInv, CountsConfigs
<1>2. /\ dm'.told = FALSE
      /\ dm.std => Keeps(dm, dm', {"list", "told"}) /\ dm'.list = SelectedModes(dm)
      /\ ~dm.std => Keeps(dm, dm', {"fb", "told"}) /\ dm'.fb = FramebufferSize(dm)
  BY <1>1, FlingerCountsIs
<1>3. /\ DOMAIN dm' = DmFields
      /\ dm'.std = dm.std /\ dm'.dynamic = dm.dynamic /\ dm'.stamp = dm.stamp /\ dm'.half = dm.half
      /\ dm'.seen = dm.seen /\ dm'.replug = dm.replug /\ dm'.best = dm.best /\ dm'.current = dm.current
      /\ dm'.active = dm.active /\ dm'.crop = dm.crop /\ dm'.size = dm.size /\ dm'.fixed = dm.fixed
      /\ dm'.resolution = dm.resolution /\ dm'.base = dm.base /\ dm'.read = dm.read /\ dm'.readAt = dm.readAt
  BY <1>2 DEF Keeps, DmFields
<1>4. CASE dm.std
  <2>1. SelectedModes(dm') = SelectedModes(dm)
    BY <1>3, SelectedModesSame
  <2>2. ModeSize => ModeSize'
    BY <1>1, <1>2, <1>3, <1>4, <2>1 DEF ModeSize
  <2> QED BY <1>1, <1>3, <1>4, <2>2 DEF ModesInv
<1>5. CASE ~dm.std
  <2>1. FramebufferSize(dm') = FramebufferSize(dm) /\ (Unseen(dm') <=> Unseen(dm)) /\ Wanted(dm') = Wanted(dm)
    BY <1>1, <1>3, FramebufferSizeSame, UnseenSame, WantedSame
  <2>2. OwnSize => OwnSize'
    BY <1>1, <1>2, <1>3, <1>5, <2>1 DEF OwnSize, ReinitComes
  <2> QED BY <1>1, <1>3, <1>5, <2>2 DEF ModesInv
<1> QED BY <1>4, <1>5

LEMMA ReadsKeeps ==
  ASSUME ModesInv, ReadsConfigs
  PROVE  ModesInv'
<1>1. /\ DOMAIN dm = DmFields /\ dm' = FlingerReads(dm) /\ sf = "configs" /\ sf' = "idle"
      /\ event' = event /\ connected' = connected /\ pending' = pending /\ past' = past
  BY DEF ModesInv, ReadsConfigs
<1>2. /\ ~dm.std => /\ Keeps(dm, dm', {"fb", "crop", "size", "configs"})
                    /\ dm'.fb = FramebufferSize(dm) /\ dm'.crop = dm'.fb /\ dm'.size = dm'.fb
      /\ dm.std => /\ Keeps(dm, dm', {"list", "fb", "crop", "size", "configs"})
                   /\ dm'.list = SelectedModes(dm) /\ dm'.configs = dm.list
                   /\ dm'.crop = Extent(dm.best) /\ dm'.size = Extent(dm.active)
  BY <1>1, FlingerReadsIs
<1>3. /\ DOMAIN dm' = DmFields
      /\ dm'.std = dm.std /\ dm'.dynamic = dm.dynamic /\ dm'.stamp = dm.stamp /\ dm'.half = dm.half
      /\ dm'.seen = dm.seen /\ dm'.replug = dm.replug /\ dm'.best = dm.best /\ dm'.current = dm.current
      /\ dm'.active = dm.active /\ dm'.fixed = dm.fixed /\ dm'.told = dm.told
      /\ dm'.resolution = dm.resolution /\ dm'.base = dm.base /\ dm'.read = dm.read /\ dm'.readAt = dm.readAt
  BY <1>2 DEF Keeps, DmFields
<1>4. CASE dm.std
  <2>1. dm.active \in SelectedModes(dm)
    BY ActiveIsSelected
  <2>2. ModeSize => ModeSize'
    BY <1>1, <1>2, <1>3, <1>4, <2>1 DEF ModeSize
  <2> QED BY <1>1, <1>3, <1>4, <2>2 DEF ModesInv
<1>5. CASE ~dm.std
  <2>1. FramebufferSize(dm') = FramebufferSize(dm) /\ (Unseen(dm') <=> Unseen(dm)) /\ Wanted(dm') = Wanted(dm)
    BY <1>1, <1>3, FramebufferSizeSame, UnseenSame, WantedSame
  <2>2. OwnSize => OwnSize'
    BY <1>1, <1>2, <1>3, <1>5, <2>1 DEF OwnSize, ReinitComes
  <2> QED BY <1>1, <1>3, <1>5, <2>2 DEF ModesInv
<1> QED BY <1>4, <1>5

(* It sets one it was told of; a switch that fails is on record.             *)
LEMMA SetsKeeps ==
  ASSUME ModesInv, SetsConfig
  PROVE  ModesInv'
<1>1. PICK config \in dm.configs, ok \in BOOLEAN :
        /\ config # dm.active
        /\ dm' = FlingerSets(dm, config, connected, ok)
        /\ past' = Unswitched(TRUE, connected /\ ok)
  BY DEF SetsConfig
<1>2. /\ DOMAIN dm = DmFields /\ dm.std /\ sf = "idle" /\ sf' = sf
      /\ event' = event /\ connected' = connected /\ pending' = pending
  <2>1. DOMAIN dm = DmFields
    BY DEF ModesInv
  <2>2. dm.std /\ sf = "idle"
    BY Zenon DEF SetsConfig
  <2> QED BY <2>1, <2>2 DEF SetsConfig, sfVars
<1>3. /\ config \notin dm.list => dm' = dm
      /\ config \in dm.list =>
           /\ Keeps(dm, dm', {"best", "current", "crop", "active", "size"})
           /\ dm'.best = config /\ dm'.current = config
           /\ dm'.crop = Extent(config) /\ dm'.size = Extent(config)
           /\ dm'.active = IF connected /\ ok /\ config # dm.active THEN config ELSE dm.active
  <2> DEFINE d == dm
             e == dm'
             cable == connected
  <2>1. DOMAIN d = DmFields /\ d.std /\ e = FlingerSets(d, config, cable, ok)
    BY <1>1, <1>2
  <2> HIDE DEF d, e, cable
  <2>2. /\ config \notin d.list => e = d
        /\ config \in d.list =>
             /\ Keeps(d, e, {"best", "current", "crop", "active", "size"})
             /\ e.best = config /\ e.current = config /\ e.crop = Extent(config) /\ e.size = Extent(config)
             /\ e.active = IF cable /\ ok /\ config # d.active THEN config ELSE d.active
    BY <2>1, FlingerSetsIs
  <2> QED BY <2>2 DEF d, e, cable
<1>4. "unswitched" \in past => "unswitched" \in past'
  BY <1>1 DEF Unswitched
<1>5. CASE config \notin dm.list
  BY <1>2, <1>3, <1>4, <1>5, ModesSame
<1>6. CASE config \in dm.list
  <2>1. /\ DOMAIN dm' = DmFields
        /\ dm'.std = dm.std /\ dm'.dynamic = dm.dynamic /\ dm'.stamp = dm.stamp /\ dm'.seen = dm.seen
        /\ dm'.list = dm.list /\ dm'.configs = dm.configs /\ dm'.told = dm.told
    BY <1>3, <1>6 DEF Keeps, DmFields
  <2>2. "unswitched" \notin past' => connected /\ ok
    BY <1>1 DEF Unswitched
  <2>3. ModeSize /\ connected /\ ok => ModeSize'
    BY <1>1, <1>2, <1>3, <1>6, <2>1 DEF ModeSize
  <2> QED BY <1>2, <1>4, <2>1, <2>2, <2>3 DEF ModesInv
<1> QED BY <1>5, <1>6

(* A mode is asked for; what was looked at before is looked at again.        *)
LEMMA RequestsKeeps ==
  ASSUME ModesInv, RequestsMode \/ TellsTimeline
  PROVE  ModesInv'
<1>1. /\ DOMAIN dm = DmFields /\ sf' = sf /\ event' = event /\ connected' = connected
      /\ pending' = pending /\ past' = past
      /\ dm.seen \in Nat /\ dm.stamp \in Nat /\ dm.seen <= dm.stamp
  BY DEF ModesInv, RequestsMode, TellsTimeline, sfVars
<1>2. /\ Keeps(dm, dm', {"base", "resolution", "half", "stamp"})
      /\ dm'.half \/ dm'.stamp = dm.stamp + 1
      /\ dm'.stamp \in {dm.stamp, dm.stamp + 1}
  <2>1. CASE RequestsMode
    <3>1. PICK m, way : dm' = WritesResolution(dm, m, way)
      BY <2>1 DEF RequestsMode
    <3> QED BY <1>1, <3>1 DEF WritesResolution, Keeps, DmFields
  <2>2. CASE TellsTimeline
    BY <1>1, <2>2 DEF TellsTimeline, WritesTimeline, Keeps, DmFields
  <2> QED BY <2>1, <2>2
<1>3. /\ DOMAIN dm' = DmFields
      /\ dm'.std = dm.std /\ dm'.dynamic = dm.dynamic
      /\ dm'.seen = dm.seen /\ dm'.replug = dm.replug /\ dm'.best = dm.best /\ dm'.current = dm.current
      /\ dm'.active = dm.active /\ dm'.crop = dm.crop /\ dm'.size = dm.size /\ dm'.fixed = dm.fixed
      /\ dm'.fb = dm.fb /\ dm'.told = dm.told /\ dm'.changed = dm.changed
      /\ dm'.list = dm.list /\ dm'.configs = dm.configs
  BY <1>2 DEF Keeps, DmFields
<1>4. FramebufferSize(dm') = FramebufferSize(dm) /\ SelectedModes(dm') = SelectedModes(dm)
  BY <1>3, FramebufferSizeSame, SelectedModesSame
<1>5. ~dm.std => dm'.half \/ Unseen(dm')
  BY <1>1, <1>2, <1>3 DEF Unseen
<1>6. CASE dm.std
  <2>1. ModeSize => ModeSize'
    BY <1>1, <1>3, <1>4 DEF ModeSize
  <2> QED BY <1>1, <1>2, <1>3, <1>6, <2>1 DEF ModesInv
<1>7. CASE ~dm.std
  <2>1. OwnSize => OwnSize'
    BY <1>1, <1>3, <1>4, <1>5, <1>7 DEF OwnSize, ReinitComes, ConfigComes
  <2> QED BY <1>1, <1>2, <1>3, <1>7, <2>1 DEF ModesInv
<1> QED BY <1>6, <1>7

(* The event thread is told of a change.                                     *)
LEMMA PresentsKeeps ==
  ASSUME ModesInv, PresentDisplay
  PROVE  ModesInv'
<1>1. /\ DOMAIN dm = DmFields /\ sf # "configs" /\ sf' # "configs" /\ event' = event /\ connected' = connected
      /\ "unswitched" \in past => "unswitched" \in past'
      /\ TellsMode
  BY DEF ModesInv, PresentDisplay, ImportFails, NeedsTarget
<1>2. CASE ~dm.changed
  BY <1>1, <1>2, ModesSame DEF TellsMode
<1>3. CASE dm.changed
  <2>1. pending' = pending \cup {"mode"} /\ dm' = [dm EXCEPT !.changed = FALSE]
    BY <1>1, <1>3 DEF TellsMode
  <2>2. Keeps(dm, dm', {"changed"})
    BY <1>1, <2>1 DEF Keeps, DmFields
  <2>3. /\ DOMAIN dm' = DmFields
        /\ dm'.std = dm.std /\ dm'.dynamic = dm.dynamic /\ dm'.stamp = dm.stamp /\ dm'.half = dm.half
        /\ dm'.seen = dm.seen /\ dm'.replug = dm.replug /\ dm'.best = dm.best /\ dm'.current = dm.current
        /\ dm'.active = dm.active /\ dm'.crop = dm.crop /\ dm'.size = dm.size /\ dm'.fixed = dm.fixed
        /\ dm'.fb = dm.fb /\ dm'.told = dm.told /\ dm'.list = dm.list /\ dm'.configs = dm.configs
        /\ dm'.resolution = dm.resolution /\ dm'.base = dm.base /\ dm'.read = dm.read /\ dm'.readAt = dm.readAt
    BY <2>2 DEF Keeps, DmFields
  <2>4. (Unseen(dm') <=> Unseen(dm)) /\ Wanted(dm') = Wanted(dm)
    BY <1>1, <2>3, UnseenSame, WantedSame
  <2>5. OwnSize => OwnSize'
    BY <1>1, <2>1, <2>3, <2>4 DEF OwnSize, ReinitComes, ConfigComes
  <2>6. ModeSize => ModeSize'
    BY <1>1, <2>3 DEF ModeSize
  <2> QED BY <1>1, <2>3, <2>5, <2>6 DEF ModesInv
<1> QED BY <1>2, <1>3

(* The cable moves; what was to be done for its last move is done.           *)
LEMMA CableKeeps ==
  ASSUME ModesInv, MoveCable
  PROVE  ModesInv'
<1>1. /\ sf' = sf /\ dm' = dm /\ event' = event /\ connected' = ~connected /\ past' = past
      /\ pending' = pending \cup {"hotplug"} /\ "hotplug" \notin pending
      /\ Range(event) \cap {"clear", "reinit"} = {}
  BY DEF MoveCable, sfVars
<1>2. EventForm(event, connected)
  BY DEF ModesInv
<1>3. event \in Seq(Steps) /\ \A i \in 1 .. Len(event) : event[i] \notin {"clear", "reinit"}
  BY <1>1, <1>2 DEF EventForm, Steps, Range
<1>4. EventForm(event', connected')
  BY <1>1, <1>3 DEF EventForm, Steps
<1>5. ModeSize => ModeSize'
  BY <1>1 DEF ModeSize
<1>6. OwnSize => OwnSize'
  BY <1>1 DEF OwnSize, ConfigComes, ReinitComes
<1> QED BY <1>1, <1>4, <1>5, <1>6 DEF ModesInv

LEMMA TakenKeeps ==
  ASSUME ModesInv, EventTaken
  PROVE  ModesInv'
<1>1. /\ sf' = sf /\ dm' = dm /\ event = <<>> /\ event' = HandlesHotplug \o HandlesMode
      /\ connected' = connected /\ past' = past /\ pending' = {}
  BY DEF EventTaken, sfVars
<1>2. /\ EventForm(event', connected)
      /\ "hotplug" \in pending /\ connected => Has(event', "reinit") /\ Has(event', "config")
      /\ "mode" \in pending /\ dm.dynamic => Has(event', "config")
  BY <1>1, EventsTaken
<1>3. \A step : ~Has(event, step)
  BY <1>1 DEF Has
<1>4. ModeSize => ModeSize'
  BY <1>1 DEF ModeSize
<1>5. OwnSize /\ dm.dynamic => OwnSize'
  BY <1>1, <1>2, <1>3 DEF OwnSize, ConfigComes, ReinitComes
<1> QED BY <1>1, <1>2, <1>4, <1>5 DEF ModesInv

(* An event that neither sets up nor configures the display.                 *)
LEMMA OtherEventKeeps ==
  ASSUME ModesInv, EventClears \/ EventRefreshes
  PROVE  ModesInv'
<1>1. /\ event # <<>> /\ event' = Tail(event) /\ Head(event) \in {"clear", "refresh"}
      /\ sf' = sf /\ dm' = dm /\ connected' = connected /\ past' = past /\ pending' = pending
  BY DEF EventClears, EventRefreshes, EventStep, sfVars
<1>2. /\ EventForm(event', connected)
      /\ Has(event, "config") => Has(event', "config")
      /\ Has(event, "reinit") => Has(event', "reinit")
  BY <1>1, EventTail DEF ModesInv
<1>3. ModeSize => ModeSize'
  BY <1>1 DEF ModeSize
<1>4. OwnSize => OwnSize'
  BY <1>1, <1>2 DEF OwnSize, ConfigComes, ReinitComes
<1> QED BY <1>1, <1>2, <1>3, <1>4 DEF ModesInv

(* A display that was plugged in takes over the mode asked for and is set up,*)
(* and will be configured.                                                   *)
LEMMA ReinitKeeps ==
  ASSUME ModesInv, EventReinits
  PROVE  ModesInv'
<1> DEFINE h == HoplugEventTmeline(dm)
           g == GetCurrentDisplayMode(h)
<1>1. /\ event # <<>> /\ event' = Tail(event) /\ Head(event) = "reinit"
      /\ sf' = sf /\ dm' = BindDpyRes(g) /\ connected' = connected /\ past' = past /\ pending' = pending
  BY DEF EventReinits, EventStep, sfVars
<1>2. DOMAIN dm = DmFields /\ dm.seen \in Nat /\ dm.stamp \in Nat /\ dm.seen <= dm.stamp
  BY DEF ModesInv
<1>3. EventForm(event', connected) /\ Has(event', "config")
  BY <1>1, EventTail DEF ModesInv
<1>4. Keeps(dm, h, {"replug"}) /\ h.replug = TRUE
  BY <1>2 DEF HoplugEventTmeline, Keeps, DmFields
<1>5. /\ DOMAIN h = DmFields /\ h.std = dm.std /\ h.stamp = dm.stamp /\ h.active = dm.active /\ h.changed = dm.changed
  BY <1>4 DEF Keeps, DmFields
<1>0. g = GetCurrentDisplayMode(h)
  OBVIOUS
<1> HIDE DEF h, g
<1>6. /\ Keeps(h, g, TakenFields \cup {"changed"})
      /\ ~Unseen(h) => g = h
      /\ Unseen(h) => /\ g.seen = h.stamp /\ g.replug = FALSE /\ g.current = g.best /\ g.best = Wanted(g)
                      /\ h.changed \/ g.best # h.active => g.changed
  <2>1. DOMAIN h = DmFields
    BY <1>5
  <2> QED BY <1>0, <2>1, GetCurrentDisplayModeIs, Zenon
<1>7. Keeps(g, dm', {"active"}) /\ dm'.active = g.current
  BY <1>1, <1>6, BindDpyResIs DEF Keeps
<1>8. /\ DOMAIN g = DmFields /\ DOMAIN dm' = DmFields
      /\ dm'.std = dm.std /\ dm'.dynamic = dm.dynamic /\ dm'.stamp = dm.stamp /\ dm'.half = dm.half
      /\ dm'.fixed = dm.fixed /\ dm'.fb = dm.fb /\ dm'.crop = dm.crop /\ dm'.size = dm.size /\ dm'.told = dm.told
      /\ dm'.list = dm.list /\ dm'.configs = dm.configs
      /\ dm'.best = g.best /\ dm'.current = g.current /\ dm'.seen = g.seen
      /\ dm'.resolution = g.resolution /\ dm'.base = g.base /\ dm'.stamp = g.stamp
      /\ dm'.read = g.read /\ dm'.readAt = g.readAt
  BY <1>4, <1>6, <1>7 DEF Keeps, DmFields, TakenFields
<1>9. Unseen(h) <=> ~dm.std
  BY <1>4, <1>5 DEF Unseen
<1>10. CASE dm.std
  <2>1. g = h /\ g.current = dm.current /\ g.best = dm.best /\ g.seen = dm.seen
    BY <1>4, <1>6, <1>9, <1>10 DEF Keeps, DmFields
  <2>2. ModeSize => dm'.active = dm.active
    BY <1>7, <2>1 DEF ModeSize
  <2>3. ModeSize => SelectedModes(dm') = SelectedModes(dm)
    BY <2>2, SelectedModesSame
  <2>4. ModeSize => ModeSize'
    BY <1>1, <1>8, <2>1, <2>2, <2>3 DEF ModeSize
  <2> QED BY <1>1, <1>2, <1>3, <1>8, <1>10, <2>1, <2>4 DEF ModesInv
<1>11. CASE ~dm.std
  <2>1. Wanted(dm') = Wanted(g)
    BY <1>8, WantedSame
  <2>2. dm'.best = dm'.current /\ dm'.active = dm'.current /\ dm'.best = Wanted(dm') /\ dm'.seen = dm.stamp
    BY <1>5, <1>6, <1>7, <1>8, <1>9, <1>11, <2>1
  <2>3. OwnSize => OwnSize'
    BY <1>1, <1>3, <1>8, <2>2 DEF OwnSize, ConfigComes
  <2> QED BY <1>1, <1>2, <1>3, <1>8, <1>11, <2>2, <2>3 DEF ModesInv
<1> QED BY <1>10, <1>11

(* The framebuffer follows.                                                  *)
LEMMA ConfiguresKeeps ==
  ASSUME ModesInv, EventConfigures
  PROVE  ModesInv'
<1>1. /\ event # <<>> /\ event' = Tail(event) /\ Head(event) = "config"
      /\ sf' = sf /\ connected' = connected /\ past' = past /\ pending' = pending
      /\ dm' = [ChosePreferredConfig(dm, connected, TRUE) EXCEPT !.told = TRUE]
      /\ DOMAIN dm = DmFields
  BY DEF EventConfigures, EventStep, sfVars, ModesInv
<1>2. /\ EventForm(event', connected)
      /\ Has(event, "reinit") => Has(event', "reinit")
  BY <1>1, EventTail DEF ModesInv
<1>3. /\ dm'.told = TRUE
      /\ ~dm.std => /\ Keeps(dm, dm', {"fb", "crop", "told"})
                    /\ dm'.fb = FramebufferSize(dm) /\ dm'.crop = dm'.fb
      /\ dm.std => /\ Keeps(dm, dm', {"list", "best", "current", "crop", "told"})
                   /\ dm'.list = SelectedModes(dm)
                   /\ dm'.best = dm.active /\ dm'.current = dm.active /\ dm'.crop = Extent(dm.active)
  <2> DEFINE e == dm'
             cable == connected
  <2>1. DOMAIN dm = DmFields /\ e = [ChosePreferredConfig(dm, cable, TRUE) EXCEPT !.told = TRUE]
    BY <1>1
  <2> HIDE DEF e, cable
  <2>2. /\ e.told = TRUE
        /\ ~dm.std => /\ Keeps(dm, e, {"fb", "crop", "told"})
                      /\ e.fb = FramebufferSize(dm) /\ e.crop = e.fb
        /\ dm.std => /\ Keeps(dm, e, {"list", "best", "current", "crop", "told"})
                     /\ e.list = SelectedModes(dm)
                     /\ e.best = dm.active /\ e.current = dm.active /\ e.crop = Extent(dm.active)
    BY <2>1, ConfiguredIs, ZenonT(30)
  <2> QED BY <2>2 DEF e
<1>4. /\ DOMAIN dm' = DmFields
      /\ dm'.std = dm.std /\ dm'.dynamic = dm.dynamic /\ dm'.stamp = dm.stamp /\ dm'.half = dm.half
      /\ dm'.seen = dm.seen /\ dm'.replug = dm.replug
      /\ dm'.active = dm.active /\ dm'.size = dm.size /\ dm'.fixed = dm.fixed
      /\ dm'.resolution = dm.resolution /\ dm'.base = dm.base /\ dm'.read = dm.read /\ dm'.readAt = dm.readAt
      /\ ~dm.std => dm'.best = dm.best /\ dm'.current = dm.current
  BY <1>3 DEF Keeps, DmFields
<1>5. CASE dm.std
  <2>1. SelectedModes(dm') = SelectedModes(dm)
    BY <1>4, SelectedModesSame
  <2>2. ModeSize => ModeSize'
    BY <1>1, <1>3, <1>4, <1>5, <2>1 DEF ModeSize
  <2> QED BY <1>1, <1>2, <1>4, <1>5, <2>2 DEF ModesInv
<1>6. CASE ~dm.std
  <2>1. FramebufferSize(dm') = FramebufferSize(dm) /\ (Unseen(dm') <=> Unseen(dm)) /\ Wanted(dm') = Wanted(dm)
    BY <1>1, <1>4, FramebufferSizeSame, UnseenSame, WantedSame
  <2>2. OwnSize => OwnSize'
    BY <1>1, <1>2, <1>3, <1>4, <1>6, <2>1 DEF OwnSize, ReinitComes
  <2> QED BY <1>1, <1>2, <1>4, <1>6, <2>2 DEF ModesInv
<1> QED BY <1>5, <1>6

LEMMA ModesInvStep == ModesInv /\ [Next]_vars => ModesInv'
<1> SUFFICES ASSUME ModesInv, [Next]_vars PROVE ModesInv'
  OBVIOUS
<1> USE DEF sfVars, cwVars, wbVars, refreshVars
<1>1. CASE SetsLayers
  BY <1>1, ModesSame DEF SetsLayers
<1>2. CASE UpdatesMode
  BY <1>2, UpdatesModeKeeps
<1>3. CASE ValidateDisplay
  BY <1>3, ModesSame DEF ValidateDisplay, Starts
<1>4. CASE CountsConfigs
  BY <1>4, CountsKeeps
<1>5. CASE ReadsConfigs
  BY <1>5, ReadsKeeps
<1>6. CASE SetsClientTarget
  BY <1>6, ModesSame DEF SetsClientTarget
<1>7. CASE PresentDisplay
  BY <1>7, PresentsKeeps
<1>8. CASE OutputWBBuffer \/ OutputDone
  BY <1>8, ModesSame DEF OutputWBBuffer, OutputDone
<1>9. CASE PresentsClientTarget \/ CycleEnds
  BY <1>9, ModesSame DEF PresentsClientTarget, CycleEnds
<1>10. CASE SetsConfig
  BY <1>10, SetsKeeps
<1>11. CASE RequestsMode \/ TellsTimeline
  BY <1>11, RequestsKeeps
<1>12. CASE CreateVirtualDisplay \/ DestroyVirtualDisplay
  BY <1>12, ModesSame DEF CreateVirtualDisplay, DestroyVirtualDisplay
<1>13. CASE Collect
  BY <1>13, ModesSame DEF Collect
<1>14. CASE CollectSize \/ CollectNext
  BY <1>14, ModesSame DEF CollectSize, CollectNext, Reject
<1>15. CASE WriteBackByRGA \/ RgaSwaps
  BY <1>15, ModesSame DEF WriteBackByRGA, RgaSwaps, Swap, SwapsNothing
<1>16. CASE Commits \/ CommitFails
  BY <1>16, ModesSame DEF Commits, CommitFails
<1>17. CASE CommitTail
  BY <1>17, ModesSame DEF CommitTail, Swap
<1>18. CASE Iw \/ Alarm \/ Hardware
  BY <1>18, ModesSame DEF Iw, Alarm, Hardware
<1>19. CASE MoveCable
  BY <1>19, CableKeeps
<1>20. CASE EventThread
  BY <1>20, TakenKeeps, OtherEventKeeps, ReinitKeeps, ConfiguresKeeps DEF EventThread
<1>21. CASE UNCHANGED vars
  BY <1>21, ModesSame DEF vars
<1> QED
  BY <1>1, <1>2, <1>3, <1>4, <1>5, <1>6, <1>7, <1>8, <1>9, <1>10, <1>11, <1>12, <1>13, <1>14, <1>15,
     <1>16, <1>17, <1>18, <1>19, <1>20, <1>21
  DEF Next, SfGoesOn, Compositor

(* Once a change of mode has come to rest, the connector drives the mode     *)
(* that is asked for, and the framebuffer's size, the crop of the client     *)
(* layer and the size SurfaceFlinger draws in follow it, unless the commit   *)
(* of a mode failed or changes are not dynamic: UpdateDisplayMode(),         *)
(* GetCurrentDisplayMode(), CheckStateAndReinit() and the config functions.  *)
THEOREM ModesComeToAgree == Spec => []ModesAgree
<1>1. ModesInv => ModesAgree
  <2> SUFFICES ASSUME ModesInv, sf = "idle", connected, event = <<>>, pending = {},
                      ~dm.told, ~dm.changed, ~Unseen(dm), "unswitched" \notin past, dm.dynamic
               PROVE  Agree(dm)
    BY DEF ModesAgree
  <2>1. ~ConfigComes /\ ~ReinitComes
    BY DEF ConfigComes, ReinitComes, Has
  <2> QED BY <2>1 DEF ModesInv, ModeSize, OwnSize, Agree
<1> QED BY <1>1, ModesInvInit, ModesInvStep, PTL DEF Spec
=============================================================================
