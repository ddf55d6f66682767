----------------------------- MODULE HwcDisplay -----------------------------
(***************************************************************************)
(* The primary HwcDisplay from a frame's validation to the kernel, and the *)
(* virtual displays that record it.  SurfaceFlinger's thread validates and *)
(* presents the primary, then every virtual display; the compositor's      *)
(* thread collects the composition, asks for writeback and for HDR, and    *)
(* commits; the event thread handles the cable and the changes of mode.    *)
(* What DisplayCompositor models in detail, its queue, fences and power,   *)
(* is one queued composition here.  A step is what is done under the       *)
(* compositor's lock_ or under ResourceManager's mutex, which the copy for *)
(* a recorder holds from its choice of a buffer to its end.                *)
(***************************************************************************)
EXTENDS RefreshWorkers, Writeback, LayerBuffers, DisplayModes

CONSTANTS Setups    \* the situations to start in, see Setup

\* What the applications show: an interface, one with a layer larger than the framebuffer,
\* one with an unmatched accelerated layer, videos, HDR videos of a transfer, no layer.
Kinds == {"ui", "large", "accelerated", "yuv", "yuv10", "pq", "pq10", "hlg10", "empty"}
Yuv(k)    == k \in {"yuv", "yuv10", "pq", "pq10", "hlg10"}
Yuv10(k)  == k \in {"yuv10", "pq10", "hlg10"}
Transfer(k) == IF k \in {"pq", "pq10"} THEN "pq" ELSE IF k = "hlg10" THEN "hlg" ELSE "sdr"

\* app, frames: frames the applications draw, and in all; sessions, moves, resizes: virtual
\* displays created, cable moves and modes asked for; sink: the transfers the sink supports;
\* fails: commits and imports that fail; other: may virtual displays have layers of their own;
\* swaps, ways: buffers given to layers and how, no layers are followed if there are none;
\* mode, configs, fixed: see ModesInit(), wishes: the modes asked for.
Setup == [app : Nat, frames : Nat, sessions : Nat, moves : Nat, resizes : Nat, fails : Nat,
          kinds : SUBSET Kinds, sink : SUBSET {"pq", "hlg"}, other : BOOLEAN, mode : 1 .. 5,
          swaps : Nat, ways : SUBSET {"slot", "id", "uncached"},
          configs : {"single", "standard", "static"}, fixed : 0 .. 2, wishes : SUBSET ({"property", "base"} \X Nat)]
ASSUME HwcDisplayAssumption == Setups \subseteq Setup

NoComp  == <<>>
SdrMode == [on |-> FALSE, space |-> "sdr"]
Sdr     == [hdr |-> FALSE, space |-> "sdr", ten |-> FALSE]
Screen  == [n |-> Blank, gpu |-> FALSE, set |-> Sdr]

VARIABLES
  setup,     \* what is left of one of Setups
  connected, \* the primary connector's state
  pending,   \* mMapPendingEvent_ of the event thread
  event,     \* what the event thread still has to do
  kind,      \* what the applications show
  sf,        \* program counter of SurfaceFlinger's thread
  todo,      \* virtual displays still to be presented in this cycle
  copy,      \* the buffer being copied to a recorder
  vds,       \* virtual displays: wb_frame_no_, and what the recorder got
  no,        \* frame_no_
  hdr,       \* ctx_.hdr_mode and ctx_.dataspace
  valid,     \* drm_hwc_layers_ if validate_success_, else NoComp
  queue,     \* the queued composition
  collected, \* collect_composition_map_
  cw,        \* program counter of the compositor's thread
  pset,      \* the atomic request: its composition, switching writeback off, and mode-set
  modeset,   \* current_mode_set_, request_mode_set_ and need_mode_set_
  wbOn,      \* bWriteBackEnable_
  reqOff,    \* bWriteBackRequestDisable_
  wbFence,   \* writeback_fence_ > 0
  attached,  \* external: does the writeback connector have the CRTC
  wire,      \* external: the transfer and depth the connector sends
  shown,     \* external: the composition on the screen
  past       \* history: what has gone wrong so far

cwVars == <<queue, collected, cw, pset, modeset, wbOn, reqOff, wbFence, attached, wire, shown>>
sfVars == <<kind, sf, todo, copy, vds, no, hdr, valid>>
vars == <<setup, connected, event, pending, dm, sfVars, cwVars, past, refreshVars, wbVars, lb>>

Init ==
  /\ setup \in Setups /\ ModesInit(setup.mode, setup.configs, setup.fixed)
  /\ connected = TRUE /\ event = <<>> /\ pending = {}
  /\ kind = "ui" /\ sf = "idle" /\ todo = {} /\ copy = <<>> /\ vds = <<>> /\ no = 0
  /\ hdr = SdrMode /\ valid = NoComp
  /\ queue = NoComp /\ collected = NoComp /\ cw = "idle" /\ pset = <<>>
  /\ modeset = [current |-> Sdr, request |-> Sdr, need |-> FALSE]
  /\ wbOn = FALSE /\ reqOff = FALSE /\ wbFence = FALSE /\ attached = FALSE
  /\ wire = [eotf |-> "sdr", depth |-> 24] /\ shown = Screen
  /\ past = {}
  /\ RefreshInit /\ WritebackInit
  /\ LayersInit(IF setup.swaps > 0 THEN {"a", Target} ELSE {})

\* Nobody holds ResourceManager's mutex, the compositor's lock_.
MutexFree == copy = <<>>
size == Extent(dm.current)
LockFree  == cw \notin {"size", "next"}

(***************************************************************************)
(* SurfaceFlinger's thread: the primary display.                           *)
(***************************************************************************)
\* A CRTC or a mirror without HDR, a small video, one composed by the GPU on
\* an 8K mode and a property disable it.
DisableHdrMode(k) == IF Transfer(k) = "sdr" THEN {TRUE} ELSE BOOLEAN

\* The transfer of the first HDR video stays until HDR ends.
EnableHdrMode(k) ==
  IF setup.sink = {} THEN SdrMode
  ELSE IF hdr.on THEN hdr ELSE [on |-> TRUE, space |-> Transfer(k)]

SwitchHdrMode(k) ==
  \E disable \in DisableHdrMode(k) : hdr' = IF disable THEN SdrMode ELSE EnableHdrMode(k)

\* UpdateTimerEnable(); SelfRefreshEnable().
UpdateTimerEnable(k) == timerOn' = (k \in {"ui", "accelerated"})
SelfRefreshEnable(k) ==
  IF k = "accelerated" \/ isWBMode(rm) THEN InvalidateControl(-1)
  ELSE UNCHANGED <<control, calledOff>>

\* The planes are matched, as in Vop3588; the GPU composes everything once the screen stood still.
ValidatePlanes == [gpu |-> opt]

\* Applications come, give their layer a buffer, and go.
SetsLayers ==
  /\ sf = "idle" /\ setup.swaps > 0
  /\ setup' = [setup EXCEPT !.swaps = @ - 1]
  /\ \E l \in Apps :
       \/ l \notin DOMAIN lb.layers /\ lb' = CreateLayer(lb, l)
       \/ l \in DOMAIN lb.layers /\ lb' = DestroyLayer(lb, l)
       \/ /\ l \in DOMAIN lb.layers
          /\ \E b \in AppBuffers, way \in setup.ways : lb' \in SetLayerBuffer(lb, l, b, way)
  /\ UNCHANGED <<connected, event, pending, dm, sfVars, cwVars, past, refreshVars, wbVars>>

\* ClearDisplay(): the compositions go, and writeback is switched off by a
\* commit of its own; a collected request stays.
ClearDisplay ==
  /\ LockFree
  /\ queue' = NoComp /\ collected' = NoComp
  /\ attached' = (attached /\ ~wbOn) /\ reqOff' = (reqOff \/ wbOn) /\ wbOn' = FALSE
  /\ lb' = ClearLayers(lb)
  /\ UNCHANGED <<cw, pset, modeset, wbFence, wire, shown>>

\* A frame starts because an application drew or a refresh was asked for.
Starts == sf = "idle" /\ no < setup.frames /\ (setup.app > 0 \/ wanted)

\* A commit that fails may be a mode's.
Fails(ok) == IF ok THEN UNCHANGED setup ELSE setup.fails > 0 /\ setup' = [setup EXCEPT !.fails = @ - 1]
Unswitched(needed, ok) == past \cup IF needed /\ ~ok THEN {"unswitched"} ELSE {}

\* ValidateDisplay() first takes over a mode asked for, with the display cleared, and
\* switches to it; a switch that failed is tried again with every frame. One step,
\* though the event thread could run between the choice, the clearing and the commit.
ModeToUpdate == ~dm.std /\ (Unseen(dm) \/ NeedsSwitch(dm, connected))
UpdatesMode ==
  /\ Starts /\ ModeToUpdate /\ sf' = "validate"
  /\ IF Clears(dm) THEN ClearDisplay ELSE UNCHANGED <<cwVars, lb>>
  /\ \E ok \in BOOLEAN, d \in {GetCurrentDisplayMode(dm)} :
       /\ ok \/ NeedsSwitch(d, connected)
       /\ Fails(ok) /\ past' = Unswitched(NeedsSwitch(d, connected), ok)
       /\ dm' = UpdateDisplayMode(d, connected, ok)
  /\ UNCHANGED <<connected, event, pending, kind, todo, copy, vds, no, hdr, valid, refreshVars, wbVars>>

\* May a frame be shown?  The display has layers, and the cable is in.
CheckDisplayState(k) ==
  IF ~connected THEN "NoResources" ELSE IF k = "empty" THEN "BadLayer" ELSE "None"

\* Then the frame is validated.
ValidateDisplay ==
  /\ sf = "validate" \/ (Starts /\ ~ModeToUpdate)
  /\ sf' = "present"
  /\ \/ /\ setup.app > 0 /\ setup' = [setup EXCEPT !.app = @ - 1]
        /\ kind' \in setup.kinds
     \/ wanted /\ UNCHANGED <<setup, kind>>
  /\ wanted' = FALSE
  /\ IF CheckDisplayState(kind') = "None"
     THEN /\ valid' = ValidatePlanes
          /\ \E match \in SUBSET DOMAIN lb.layers :
               (opt => match = {}) /\ lb' = InitDrmHwcLayer(lb, match)
          /\ SwitchHdrMode(kind') /\ UpdateTimerEnable(kind') /\ SelfRefreshEnable(kind')
     ELSE valid' = NoComp /\ UNCHANGED <<hdr, timerOn, control, calledOff, lb>>
  /\ UNCHANGED <<connected, event, pending, dm, todo, copy, vds, no, cwVars, past, iw, armed, opt, wbVars>>

\* What SurfaceFlinger composed itself goes with the frame.
NeedsTarget == valid # NoComp /\ UseClientLayer(lb)
SetsClientTarget ==
  /\ sf = "present" /\ NeedsTarget /\ sf' = "target"
  /\ lb' = SetClientTarget(lb)
  /\ UNCHANGED <<setup, connected, event, pending, dm, kind, todo, copy, vds, no, hdr, valid, cwVars, past, refreshVars, wbVars>>

\* The mode chosen by validation, and whether a video of ten bits has a plane.
SetDisplayHdrMode == [hdr |-> hdr.on, space |-> hdr.space, ten |-> Yuv10(kind) /\ ~valid.gpu]
Composition == [n |-> no, gpu |-> valid.gpu, set |-> SetDisplayHdrMode]

\* ImportBuffers(): a buffer has no handle, is not the framebuffer the match
\* was made for or is refused by the kernel.
ImportFails ==
  /\ setup.fails > 0 /\ setup' = [setup EXCEPT !.fails = @ - 1]
  /\ \E drm \in {PopulateFB(lb)} : \E gems \in SUBSET Matched(drm) : \E done \in SUBSET gems :
       /\ Matched(drm) # {} => done # Matched(drm)
       /\ done # {} => gems = Matched(drm)
       /\ lb' = ImportBuffers(drm, gems, done)
  /\ past' = past \cup {"failed"} /\ UNCHANGED cwVars

\* PresentDisplay(): a frame that was not validated, or whose buffers cannot
\* be imported, is counted all the same, and the event thread is told of a
\* mode that changed.
TellsMode ==
  IF dm.changed THEN pending' = pending \cup {"mode"} /\ dm' = [dm EXCEPT !.changed = FALSE]
  ELSE UNCHANGED <<pending, dm>>

PresentDisplay ==
  /\ sf = IF NeedsTarget THEN "target" ELSE "present"
  /\ sf' = "mirror" /\ todo' = DOMAIN vds
  /\ no' = no + 1 /\ UpdateTimerState(~opt)
  /\ IF valid = NoComp \/ CheckDisplayState(kind) # "None"
     THEN /\ IF CheckDisplayState(kind) = "BadLayer" THEN ClearDisplay ELSE UNCHANGED <<cwVars, lb>>
          /\ UNCHANGED <<setup, past>>
     ELSE \/ ImportFails
          \/ /\ queue = NoComp /\ LockFree /\ queue' = Composition
             /\ lb' = CreateComposition(PopulateFB(lb))
             /\ UNCHANGED <<setup, past, collected, cw, pset, modeset, wbOn, reqOff, wbFence, attached, wire, shown>>
  /\ valid' = NoComp /\ TellsMode
  /\ UNCHANGED <<connected, event, kind, copy, vds, hdr, control, iw, wanted, timerOn, wbVars>>

\* SurfaceFlinger reads the configs it was told of, in two calls, ...
CountsConfigs ==
  /\ sf = "idle" /\ dm.told /\ sf' = "configs" /\ dm' = FlingerCounts(dm)
  /\ UNCHANGED <<setup, connected, event, pending, kind, todo, copy, vds, no, hdr, valid, cwVars,
                 past, refreshVars, wbVars, lb>>
ReadsConfigs ==
  /\ sf = "configs" /\ sf' = "idle" /\ dm' = FlingerReads(dm)
  /\ UNCHANGED <<setup, connected, event, pending, kind, todo, copy, vds, no, hdr, valid, cwVars,
                 past, refreshVars, wbVars, lb>>

\* ... and sets one, where it may choose. Without a cable, as when the commit
\* fails, nothing is switched.
SetsConfig ==
  /\ sf = "idle" /\ dm.std /\ setup.resizes > 0
  /\ \E config \in dm.configs, ok \in BOOLEAN :
       /\ config # dm.active
       /\ IF ok THEN setup' = [setup EXCEPT !.resizes = @ - 1]
          ELSE setup.fails > 0 /\ setup' = [setup EXCEPT !.resizes = @ - 1, !.fails = @ - 1]
       /\ dm' = FlingerSets(dm, config, connected, ok)
       /\ past' = Unswitched(TRUE, connected /\ ok)
  /\ UNCHANGED <<connected, event, pending, sfVars, cwVars, refreshVars, wbVars, lb>>

\* A mode is asked for elsewhere; a frame looks at its start, so it may as
\* well be between frames.
RequestsMode ==
  /\ sf = "idle" /\ setup.resizes > 0 /\ ~dm.std /\ ~dm.half
  /\ setup' = [setup EXCEPT !.resizes = @ - 1]
  /\ \E wish \in setup.wishes : dm' = WritesResolution(dm, wish[2], wish[1])
  /\ UNCHANGED <<connected, event, pending, sfVars, cwVars, past, refreshVars, wbVars, lb>>
TellsTimeline ==
  /\ sf = "idle" /\ dm.half /\ dm' = WritesTimeline(dm)
  /\ UNCHANGED <<setup, connected, event, pending, sfVars, cwVars, past, refreshVars, wbVars, lb>>

(***************************************************************************)
(* SurfaceFlinger's thread: the virtual displays.                          *)
(***************************************************************************)
\* InitVirtual().
NewRecorder == [last |-> 0, seen |-> Blank, born |-> IF isWBMode(rm) THEN Blank ELSE shown.n]

\* CreateVirtualDisplay(): the id is the number of displays, whichever of
\* them have been destroyed; a taken id is refused.
CreateVirtualDisplay ==
  /\ sf = "idle" /\ setup.sessions > 0
  /\ isWBMode(rm) \/ ~connected \/ CanDequeue(rm, WbSize([mode |-> ChooseWriteBackMode(connected, size)], size))
  /\ setup' = [setup EXCEPT !.sessions = @ - 1]
  /\ \E id \in {Cardinality(DOMAIN vds)} \ DOMAIN vds :
       vds' = [v \in DOMAIN vds \cup {id} |-> IF v = id THEN NewRecorder ELSE vds[v]]
  /\ rm' = EnableWriteBackMode(rm, connected, size)
  /\ past' = past \cup IF ~isWBMode(rm') THEN {"refused"} ELSE {}
  /\ InvalidateControl(-1)
  /\ UNCHANGED <<connected, event, pending, dm, kind, sf, todo, copy, no, hdr, valid, cwVars, wanted,
                 iw, timerOn, armed, opt, jobs, held, dst, lb>>

DestroyVirtualDisplay ==
  /\ sf = "idle"
  /\ \E v \in DOMAIN vds : vds' = Restrict(vds, DOMAIN vds \ {v})
  /\ rm' = DisableWriteBackMode(rm)
  /\ InvalidateControl(0)
  /\ UNCHANGED <<setup, connected, event, pending, dm, kind, sf, todo, copy, no, hdr, valid, cwVars, past,
                 iw, wanted, timerOn, armed, opt, jobs, held, dst, lb>>

\* ValidateVirtualDisplay(): may the display be served by writeback?  Its
\* layers may be other than the primary's.
UsesWriteBack == isWBMode(rm) /\ rm.owner >= 0 /\ rm.mode # "none" /\ connected
NextDisplay   == Min(todo)
PresentedVirtual == todo' = todo \ {NextDisplay}

\* PresentVirtualDisplay(): the picture is chosen once it is complete, ...
OutputWBBuffer ==
  /\ sf = "mirror" /\ todo # {} /\ copy = <<>> /\ UsesWriteBack
  /\ \E f \in ToOutput(rm, vds[NextDisplay].last) :
       /\ ~Pending(f.buf)
       /\ copy' = [buf |-> f.buf, no |-> f.no, seen |-> rm.buf[f.buf].n]
       /\ past' = past \cup IF f.buf = rm.next THEN {"overrun"} ELSE {}
  /\ UNCHANGED <<setup, connected, event, pending, dm, kind, sf, todo, vds, no, hdr, valid, cwVars, refreshVars, wbVars, lb>>

\* ... and the copy ends;
OutputDone ==
  /\ copy # <<>> /\ copy' = <<>>
  /\ vds' = [vds EXCEPT ![NextDisplay].last = copy.no, ![NextDisplay].seen = copy.seen]
  /\ PresentedVirtual
  /\ UNCHANGED <<setup, connected, event, pending, dm, kind, sf, no, hdr, valid, cwVars, past, refreshVars, wbVars, lb>>

\* without writeback or without a picture nothing is copied.
PresentsClientTarget ==
  /\ sf = "mirror" /\ todo # {} /\ copy = <<>>
  /\ \/ ~UsesWriteBack \/ setup.other
     \/ ToOutput(rm, vds[NextDisplay].last) = {}
  /\ PresentedVirtual
  /\ UNCHANGED <<setup, connected, event, pending, dm, kind, sf, copy, vds, no, hdr, valid, cwVars, past, refreshVars, wbVars, lb>>

CycleEnds ==
  /\ sf = "mirror" /\ todo = {} /\ sf' = "idle"
  /\ UNCHANGED <<setup, connected, event, pending, dm, kind, todo, copy, vds, no, hdr, valid, cwVars, past, refreshVars, wbVars, lb>>

(***************************************************************************)
(* The event thread.                                                       *)
(***************************************************************************)
\* The cable moves again only once the last move is handled, see DisplayHotplug.
MoveCable ==
  /\ setup.moves > 0 /\ "hotplug" \notin pending /\ Range(event) \cap {"clear", "reinit"} = {}
  /\ setup' = [setup EXCEPT !.moves = @ - 1]
  /\ connected' = ~connected /\ pending' = pending \cup {"hotplug"}
  /\ UNCHANGED <<event, dm, sfVars, cwVars, past, refreshVars, wbVars, lb>>

\* What each event comes to, in its handler's order; hotplug events go first.
HandlesHotplug == IF "hotplug" \notin pending THEN <<>>
                  ELSE IF connected THEN <<"reinit", "config", "refresh">> ELSE <<"clear", "refresh">>
HandlesMode == IF "mode" \in pending /\ dm.dynamic THEN <<"config", "refresh">> ELSE <<>>
EventTaken ==
  /\ event = <<>> /\ pending # {}
  /\ event' = HandlesHotplug \o HandlesMode /\ pending' = {}
  /\ UNCHANGED <<setup, connected, dm, sfVars, cwVars, past, refreshVars, wbVars, lb>>

EventStep(step) == event # <<>> /\ Head(event) = step /\ event' = Tail(event)

EventClears ==
  /\ EventStep("clear") /\ ClearDisplay
  /\ UNCHANGED <<setup, connected, pending, dm, sfVars, past, refreshVars, wbVars>>

\* CheckStateAndReinit() takes over a mode asked for and sets it with the CRTC.
EventReinits ==
  /\ EventStep("reinit")
  /\ \E d \in {HoplugEventTmeline(dm)} :
       /\ IF Clears(d) THEN ClearDisplay ELSE UNCHANGED <<cwVars, lb>>
       /\ dm' = BindDpyRes(GetCurrentDisplayMode(d))
  /\ UNCHANGED <<setup, connected, pending, sfVars, past, refreshVars, wbVars>>

\* The framebuffer follows the mode and SurfaceFlinger is told, as if plugged.
EventConfigures ==
  /\ EventStep("config")
  /\ dm' = [ChosePreferredConfig(dm, connected, TRUE) EXCEPT !.told = TRUE]
  /\ UNCHANGED <<setup, connected, pending, sfVars, cwVars, past, refreshVars, wbVars, lb>>

\* Both kinds of event end with a few refreshes (twenty of them, Refreshes here).
Refreshes == 2
EventRefreshes ==
  /\ EventStep("refresh") /\ InvalidateControl(Refreshes)
  /\ UNCHANGED <<setup, connected, pending, dm, sfVars, cwVars, past, iw, wanted, timerOn, armed, opt, wbVars, lb>>

(***************************************************************************)
(* The compositor's thread.                                                *)
(***************************************************************************)
\* Mutant: the depth is forgotten.
OnlyTheMode(a, b) == a.hdr # b.hdr
Differs(a, b) == a.hdr # b.hdr \/ a.ten # b.ten

\* CollectModeSetInfo(): a mode other than the current one is requested, and
\* stays requested until some commit succeeds.
CollectModeSetInfo(c, off) ==
  \E switch \in {Differs(c.set, modeset.current)} :
    /\ pset' = [c |-> c, off |-> off, switch |-> switch]
    /\ modeset' = IF switch THEN [modeset EXCEPT !.request = c.set, !.need = TRUE] ELSE modeset
    /\ collected' = c
    /\ cw' = "rga"

\* CollectCommitInfo() without writeback by the VOP switches it off if it is on.
CollectCommitInfo ==
  IF WbByVop(rm)
  THEN /\ cw' = "size" /\ pset' = queue
       /\ UNCHANGED <<collected, modeset, reqOff>>
  ELSE CollectModeSetInfo(queue, wbOn) /\ reqOff' = (reqOff \/ wbOn)

Collect ==
  /\ cw = "idle" /\ queue # NoComp /\ MutexFree
  /\ queue' = NoComp /\ lb' = CollectLayers(lb)
  /\ CollectCommitInfo
  /\ UNCHANGED <<setup, connected, event, pending, dm, sfVars, wbOn, wbFence, attached, wire, shown, past, refreshVars, wbVars>>

Reject == /\ cw' = "idle" /\ pset' = <<>> /\ past' = past \cup {"failed"} /\ lb' = RejectLayers(lb)
          /\ UNCHANGED <<queue, collected, modeset, wbOn, reqOff, wbFence, attached, wire, shown, rm>>

\* SetupWritebackCommit(): the size first ...
CollectSize ==
  /\ cw = "size" /\ MutexFree
  /\ IF ~CanWriteBack(rm, connected) THEN Reject
     ELSE /\ Resizes(rm, size) => CanDequeue(rm, size)
          /\ rm' = UpdateWriteBackResolution(rm, size)
          /\ past' = past \cup IF Resizes(rm, size) THEN {"resized"} ELSE {}
          /\ cw' = "next"
          /\ UNCHANGED <<queue, collected, pset, modeset, wbOn, reqOff, wbFence, attached, wire, shown, lb>>
  /\ UNCHANGED <<setup, connected, event, pending, dm, sfVars, refreshVars, jobs, held, dst>>

\* ... then the buffer.
CollectNext ==
  /\ cw = "next" /\ MutexFree
  /\ IF rm.next = None THEN Reject /\ UNCHANGED held
     ELSE /\ CollectModeSetInfo(pset, FALSE) /\ held' = rm.next
          /\ wbOn' = TRUE /\ wbFence' = FALSE
          /\ UNCHANGED <<queue, reqOff, attached, wire, shown, past, rm, lb>>
  /\ UNCHANGED <<setup, connected, event, pending, dm, sfVars, refreshVars, jobs, dst>>

\* The bottom layer is drawn at once, and with it the picture unless there are layers above;
\* that a tunnelled video may be skipped there, and failures of RGA, are left out.
DrawsBottom(r, n) == [r EXCEPT !.buf[r.next].n = n]

\* The layers above are blended by jobs that end later.
DrawsOthers(r, n) == [buf |-> r.next, n |-> n, by |-> "rga", fence |-> None]

\* WriteBackByRGA(): the collected composition is drawn into the next buffer,
\* also if its request has the VOP write it to another, ...
WriteBackByRGA ==
  /\ cw = "rga" /\ MutexFree
  /\ IF ~WbByRga(rm) \/ collected = NoComp
     THEN cw' = "ioctl" /\ UNCHANGED <<wbOn, past, wbVars>>
     ELSE /\ cw' = "rgaswap" /\ wbOn' = TRUE
          /\ dst' = rm.next /\ UNCHANGED held
          /\ past' = past \cup IF held # None THEN {"mixed"} ELSE {}
          /\ \/ rm' = DrawsBottom(rm, pset.c.n) /\ UNCHANGED jobs
             \/ jobs' = jobs \cup {DrawsOthers(rm, pset.c.n)} /\ UNCHANGED rm
  /\ UNCHANGED <<setup, connected, event, pending, dm, sfVars, queue, collected, pset, modeset, reqOff, wbFence,
                 attached, wire, shown, refreshVars, lb>>

\* A buffer other than the one the picture was written to gets its fence and
\* is swapped in, when the session was made anew meanwhile.
Swap(by, b) ==
  /\ CanDequeue(rm, rm.size)
  /\ rm' = SwapWBBuffer(rm, pset.c.n)
  /\ jobs' = SetFinishFence(jobs, rm.next, by, pset.c.n)
  /\ past' = past \cup IF b # rm.next THEN {"mixed"} ELSE {}

\* Without a session a picture still being written keeps no fence.
SwapsNothing == past' = past \cup {"cut"} /\ UNCHANGED <<rm, jobs>>

\* ... and swapped before the commit.
RgaSwaps ==
  /\ cw = "rgaswap" /\ MutexFree /\ cw' = "ioctl" /\ dst' = None
  /\ IF isWBMode(rm) THEN Swap("rga", dst) ELSE SwapsNothing
  /\ UNCHANGED <<setup, connected, event, pending, dm, sfVars, queue, collected, pset, modeset, wbOn, reqOff,
                 wbFence, attached, wire, shown, refreshVars, held, lb>>

\* UpdateOutputFormat(): the depth configured for SDR, its default.
SdrDepth == 24

\* What switch_hdmi_hdr_mode() makes the connector send.
Wire(s) == IF s.space \in setup.sink
           THEN [eotf |-> s.space, depth |-> IF s.ten THEN 30 ELSE 24]
           ELSE [eotf |-> "sdr", depth |-> SdrDepth]

\* The ioctl returns at the flip, with which the VOP starts to write; UpdateModeSetState().
Commits ==
  /\ cw = "ioctl" /\ \A j \in jobs : j.by = "rga"
  /\ Exist(lb, lb.request) /\ lb' = Scanned(lb)
  /\ cw' = "tail"
  /\ shown' = pset.c
  /\ wire' = IF pset.switch THEN Wire(pset.c.set) ELSE wire
  /\ modeset' = IF modeset.need THEN [modeset EXCEPT !.current = modeset.request, !.need = FALSE]
                ELSE modeset
  /\ past' = (IF pset.switch THEN past \ {"lost"} ELSE past)
             \cup IF held # None /\ ~wbOn THEN {"late"} ELSE {}
  /\ wbFence' = (wbFence \/ held # None)
  /\ attached' = IF held # None THEN TRUE ELSE IF pset.off THEN FALSE ELSE attached
  /\ jobs' = IF held # None
             THEN jobs \cup {[buf |-> held, n |-> pset.c.n, by |-> "vop", fence |-> None]}
             ELSE jobs
  /\ UNCHANGED <<setup, connected, event, pending, dm, sfVars, queue, collected, pset, wbOn, reqOff, refreshVars, rm, held, dst>>

\* Nothing is undone when the ioctl fails, as it does for a framebuffer that is gone.
CommitFails ==
  /\ cw = "ioctl"
  /\ IF Exist(lb, lb.request) THEN setup.fails > 0 /\ setup' = [setup EXCEPT !.fails = @ - 1]
     ELSE UNCHANGED setup
  /\ lb' = NotScanned(lb)
  /\ cw' = "idle" /\ collected' = NoComp /\ pset' = <<>> /\ held' = None
  /\ past' = past \cup (IF pset.switch THEN {"lost"} ELSE {}) \cup {"failed"}
  /\ UNCHANGED <<connected, event, pending, dm, sfVars, queue, modeset, wbOn, reqOff, wbFence, attached, wire,
                 shown, refreshVars, rm, jobs, dst>>

\* The end of Commit(): the fence goes to the session's next buffer, or is
\* closed if the session has ended.
CommitTail ==
  /\ cw = "tail" /\ cw' = "idle"
  /\ lb' = RetireLayers(lb)
  /\ IF wbFence
     THEN /\ MutexFree /\ wbFence' = FALSE
          /\ IF WbByVop(rm)
             THEN Swap("vop", held) /\ UNCHANGED wbOn
             ELSE /\ wbOn' = (wbOn /\ ~reqOff)
                  /\ past' = past \cup {"cut"} \cup IF reqOff THEN {"late"} ELSE {}
                  /\ UNCHANGED <<rm, jobs>>
     ELSE UNCHANGED <<wbFence, wbOn, past, rm, jobs>>
  /\ collected' = NoComp /\ pset' = <<>> /\ held' = None
  /\ UNCHANGED <<setup, connected, event, pending, dm, sfVars, queue, modeset, reqOff, attached, wire, shown, refreshVars, dst>>

Validated  == sf = "validate" /\ ValidateDisplay
SfGoesOn   == \/ CountsConfigs \/ ReadsConfigs \/ SetsClientTarget \/ PresentDisplay \/ OutputWBBuffer \/ OutputDone \/ PresentsClientTarget \/ CycleEnds
Refreshed  == wanted /\ (UpdatesMode \/ ValidateDisplay)
Iw         == (IwChecks \/ IwTicks) /\ UNCHANGED <<setup, connected, event, pending, dm, sfVars, cwVars, past, wbVars, lb>>
Alarm      == StaticScreenOptHandler /\ UNCHANGED <<setup, connected, event, pending, dm, sfVars, cwVars, past, wbVars, lb>>
Hardware   == JobFinishes /\ UNCHANGED <<setup, connected, event, pending, dm, sfVars, cwVars, past, refreshVars, lb>>
EventThread == EventTaken \/ EventClears \/ EventReinits \/ EventConfigures \/ EventRefreshes
Compositor == \/ Collect \/ CollectSize \/ CollectNext \/ WriteBackByRGA \/ RgaSwaps
              \/ Commits \/ CommitFails \/ CommitTail

Next == \/ SetsLayers \/ UpdatesMode \/ ValidateDisplay \/ SfGoesOn
        \/ SetsConfig \/ RequestsMode \/ TellsTimeline
        \/ CreateVirtualDisplay \/ DestroyVirtualDisplay
        \/ Compositor \/ Iw \/ Alarm \/ Hardware
        \/ MoveCable \/ EventThread

\* The threads and the hardware go on, SurfaceFlinger composes when asked to
\* and the timer expires.
Fairness == /\ WF_vars(SfGoesOn \/ Validated) /\ WF_vars(Refreshed) /\ WF_vars(Compositor) /\ WF_vars(Iw)
            /\ WF_vars(Alarm) /\ WF_vars(Hardware) /\ WF_vars(EventThread)
Spec == Init /\ [][Next]_vars /\ Fairness

(***************************************************************************)
(* Properties.                                                             *)
(***************************************************************************)
\* Types; a request exists exactly while the compositor works on it.
TypeOK ==
  /\ RefreshTypeOK /\ WritebackTypeOK
  /\ kind \in Kinds /\ sf \in {"idle", "configs", "validate", "present", "target", "mirror"} /\ todo \subseteq DOMAIN vds
  /\ DOMAIN vds \subseteq Nat /\ (copy # <<>> => sf = "mirror" /\ todo # {})
  /\ cw \in {"idle", "size", "next", "rga", "rgaswap", "ioctl", "tail"}
  /\ pset = <<>> <=> cw = "idle"
  /\ {connected, wbOn, reqOff, wbFence, attached} \subseteq BOOLEAN
  /\ Range(event) \subseteq {"clear", "reinit", "config", "refresh"} /\ pending \subseteq {"hotplug", "mode"}
  /\ wire.eotf \in setup.sink \cup {"sdr"} /\ wire.depth \in {24, 30}

\* A recorder never gets an older picture than it had, nor one older than
\* what was on the screen when it started the recording, however it falls
\* behind and across recordings that share the ring.  Excused: a copy from the
\* very buffer that is next to be written, a session made anew or ended during
\* a commit (the latter's picture has no fence, so that a later session may use
\* its buffer before it is complete), a change of size.
RecordedInOrder ==
  [][\A v \in DOMAIN vds \cap DOMAIN vds' :
       \/ vds'[v].seen = vds[v].seen \/ past \cap {"overrun", "mixed", "cut", "resized"} # {}
       \/ vds'[v].seen >= vds[v].seen /\ vds'[v].seen >= vds'[v].born]_vds

\* The buffer written next is neither the one being drawn nor a finished one,
\* but for the oldest of a full queue, and no picture is written into a
\* buffer that is being copied, with the same exception; until the size
\* changes.
BuffersApart ==
  \/ "resized" \in past
  \/ /\ rm.next = None \/ rm.next # rm.drawing
     /\ \A i \in DOMAIN rm.finish : \/ rm.finish[i].buf \notin {rm.next, rm.drawing}
                                    \/ i = 1 /\ Len(rm.finish) = 3 /\ rm.finish[1].buf = rm.next
     /\ copy # <<>> => \A j \in jobs : j.buf = copy.buf => past \cap {"overrun", "mixed", "cut"} # {}

\* Unless a session was refused, the count is that of the virtual displays,
\* and without any no buffer is held; the writeback connector is attached
\* only if the compositor knows that it has to be detached, unless it was
\* attached by a commit that ClearDisplay() or the end of its session came
\* before.
SessionsExact ==
  /\ "refused" \notin past =>
       /\ rm.ref = Cardinality(DOMAIN vds)
       /\ rm.ref = 0 => rm.next = None /\ rm.drawing = None /\ rm.finish = <<>>
  /\ attached /\ "late" \notin past => wbOn

\* Unless a commit that carried a switch has failed since the last that
\* succeeded, a sink that supports all of HDR is sent HDR exactly while the
\* composition on the screen is HDR, in its depth.
HdrFollows ==
  ("lost" \notin past /\ setup.sink = {"pq", "hlg"}) =>
    /\ wire.eotf # "sdr" <=> shown.set.hdr
    /\ wire.depth = IF shown.set.hdr /\ shown.set.ten THEN 30 ELSE 24

\* A screen on which the applications stop drawing ends up composed by the
\* GPU, unless the end of a recording called the refresh off since, a frame
\* or commit failed, the refresh goes on for ever or the bound is reached.
StillScreenFlattened ==
  \/ []<>("failed" \in past)
  \/ <>[]( shown.gpu \/ calledOff \/ ~timerOn \/ control < 0
            \/ ~connected \/ kind = "empty" \/ no = setup.frames)

\* Once a change of mode has come to rest, the connector drives the mode that
\* was asked for, and the framebuffer's size, the crop of the client layer and
\* the size SurfaceFlinger draws in follow it, unless the commit of a mode
\* failed (its retry tells nobody), a config was set while the cable was out
\* (no mode is committed then) or changes are not dynamic.
ModesAgree ==
  (/\ sf = "idle" /\ connected /\ event = <<>> /\ pending = {}
   /\ ~dm.told /\ ~dm.changed /\ ~Unseen(dm)
   /\ "unswitched" \notin past /\ dm.dynamic) => Agree(dm)
=============================================================================
