# A verification of the Rockchip hwcomposer

The repository is the hardware composer of Rockchip's Android platforms: it takes
the layers SurfaceFlinger wants on each display, finds hardware planes for them and
commits them to the kernel with DRM atomic requests, while displays are plugged,
unplugged, switched off and streamed to from video tunnels. Paths below are
relative to `src/`.

## Inventory

| Component | State it keeps | Operations | Correct when |
|---|---|---|---|
| Frame pipeline, one per CRTC (`rockchip/compositor/drmdisplaycompositor.cpp`, `drm/drmcompositorworker.cpp`) | `active_`, `clear_`, `drop_mode_`, `composite_queue_`, `mapDisplayHaveQeueuCnt_`, `collect_composition_map_`, `active_composition_map_`, `pset_`; sideband, MEMC, HDR, mode-set and writeback state | `QueueComposition`, `Composite` (`CollectSFInfo`, `CollectVPInfo`, `Commit`), `ClearDisplay`, destructor | every composition is shown or released, once, in order; a buffer is released only when it is off the screen; a blocked presenter wakes up; a powered-off display drains |
| Compositions and fences (`drmdisplaycomposition.cpp`, `common/drmfence.cpp`) | planes, acquire fences, release fences, the useless queue, `signal_` | `CreateAndAssignReleaseFences`, `SignalCompositionDone`, destructor; `SyncTimeline::IncTimeline` | each fence signals once, at its frame's end |
| HWC2 front end (`drmhwctwo.cpp`) | layers, `init_success_`, `validate_success_`, `mPowerMode_`, `connector_`, `crtc_`, `frame_no_`, the retire fence queue | validate, present, power, active config, client target | a display presents only what it validated, to a CRTC it owns |
| Hotplug and events (`drmhwctwo.cpp`, `drm/drmeventlistener.cpp`) | the event queue, `is_pending_event_`, per-connector `hotplug` state | uevents, plug, unplug, mode update, display mode switch | the resources of an unplugged display are released; no event is lost |
| CRTC, connector and plane allocation (`drm/drmdevice.cpp`, `drm/drmplane.cpp`, `drm/drmconnector.cpp`) | `crtc->display_`, `conn->encoder`, plane groups' current, next and disable sets | `BindDpyRes`, `ReleaseDpyRes`, mirror and compete modes, `SetPowerMode`, plane migration | a CRTC drives one display, a plane one CRTC |
| Workers (`utils/worker.cpp`, `drm/vsyncworker.cpp`, `drm/invalidateworker.cpp`) | `exit_`, `enabled_`, `last_timestamp_`, `refresh_`, `refresh_cnt_` | `Signal`, `Exit`, `VSyncControl`, `InvalidateControl`, `Routine`, the static screen timer | an enabled worker is awake, an exit ends it; a still screen ends up composed by the GPU |
| Sideband producer (`rockchip/producer/*.cpp`) | tunnels, their connections, the two newest video buffers, their references and release fences | connect, destroy, acquire, release, rotate | what is on the screen keeps its tunnel and buffer; nothing leaks; buffers keep flowing |
| Buffers and caches (`rockchip/common/drmbuffer*.cpp`, `drmgralloc*.cpp`, `resources/resourcescache.cpp`) | the buffer queues, finish fences, GEM handle and framebuffer counts, the layers' buffer caches | dequeue, queue, import, cache, drop | a buffer in use is not written; a framebuffer lives while it is shown |
| Resource manager (`resources/resourcemanager.cpp`) | writeback sessions, the next, drawing and finished buffers | enable, disable, swap, output | recorders get pictures in order; sessions are counted |
| Plane matching (`rockchip/platform/**`) | the requested layers and the windows taken | `TryHwcPolicy`, `MatchPlanes` | the stack is kept; a window shows one layer; the last policy can always be tried |
| Modes (`drm/drmmode.cpp`, `drm/drmconnector.cpp`, `drmhwctwo.cpp`) | best, current and active mode, framebuffer size, crop, SurfaceFlinger's configs | mode properties, `UpdateDisplayMode`, `SetActiveConfig`, `ChosePreferredConfig` | connector, framebuffer, crop and SurfaceFlinger agree on the size |
| HDR (`drmhwctwo.cpp`, `drmdisplaycompositor.cpp`) | `hdr_mode`, `dataspace`, the sink's metadata | `SwitchHdrMode`, `CollectModeSetInfo` | the sink gets HDR exactly while HDR is shown |
| Layers (`rockchip/common/drmlayer.cpp`) | the imported buffer, attributes | import, conversion | see buffers and plane matching |

Threads: SurfaceFlinger's binder thread calls the HWC2 functions; one
`drm-compositor` thread per CRTC runs `Routine()`; the hotplug `EventWorker` handles
DRM and display mode events; vsync and invalidate workers call back. Nothing
serialises SurfaceFlinger's thread and the event thread in `drmhwctwo.cpp`: what
protects the pipeline is the compositor's `lock_`, which `active_` and the atomic
commit are outside of. These interleavings are the hard part, next to failing calls
that leave half of the work done.

## Modules

**`DisplayCompositor`** models one `DrmDisplayCompositor` with everybody who touches
it. Variables have the names of the members they stand for (`queue`, `count`,
`collect`, `current` and `useless` are `composite_queue_`,
`mapDisplayHaveQeueuCnt_`, `collect_composition_map_`, `active_composition_map_` and
a composition's useless queue). Each section the code runs under `lock_` is one
action; what it does outside is split at each access to shared state:

- `PresentDisplay`, `QueueComposition`, `QueueLocked`, `QueueWoken`, `SignalWorker`:
  the presenter creates a composition with the next value of the display's
  timeline, tests `active_` without and with the lock, blocks in
  `pthread_cond_wait()` and signals the worker after unlocking;
- `WorkerCheck` ... `CompositeTail`: one pass of the worker, `HaveQueuedComposites()`
  and the timed wait, collecting (in sequence or drop mode), the tests before the
  ioctl, the ioctl, the retirement of the replaced frames, the interception at the
  end of `Composite()`;
- `SfPowerOn/Off`, `EventPower`, `Hotplug`, `PresentNoLayers` and the three callers of
  `ClearDisplay()`.

A composition is the pair of its display and its number on that display's sw_sync
timeline. A release fence is that number: it has signalled once `timeline` has
reached it, because `ReleaseFence::signal()` only adds one. `done` records which
compositions were really signalled, so that the two can be compared. One layer and
one fence stand for all of a frame's; the planes of a display are set and turned off
together (`screen`). The order in which `CollectInfo()` meets the displays of a
batch is left open (`kept`), and so is whether a call fails, for the calls in
`Faults`.

**`ReleaseTimeline`** is what SurfaceFlinger relies on while it streams: frames are
shown in order, perhaps with gaps, and released in order, each only after a newer one
is on the screen. **`MCStream`** maps `DisplayCompositor` onto it (`KeepsPromise`).
**`MCEvents`** is the instance with events and faults.

**`DrmDevice`** is the bookkeeping of which connector drives which CRTC, as a record
(`dev`) and one operator per function of `drm/drmdevice.cpp`, each mapping the record
to the set of its outcomes `[dev, ok]`: `BindDpyRes` with the three searches
(`FindAvailableCrtcByFirst`, `ByMirror`, `ByCompete`), `ReleaseDpyRes` with and without
a mirror, eviction, mode switching and power. The functions hold `mRecursiveMutex`
throughout, so each is one step of its caller. What they only read, whether a connector is
connected (`state`) and what the uevent listener saw last (`hotplug`), are variables beside
the record. `Commit` stands for
`drmModeAtomicCommit()`: it moves connectors between the kernel's CRTCs (`kernel`) and
refuses, as DRM does, a CRTC enabled without a connector or disabled with one; with
`CommitFails` it may refuse anything. A CRTC's output width and clock are one number,
the largest mode it can output; a connector has one encoder; the planes of a CRTC are
one plane.

**`DisplayHotplug`** has the actors that call them, one action for each call between which the
mutex is free: boot (`InitDisplay` for each display, `Start` when SurfaceFlinger registers its
callbacks), the uevent handler (`HandleUevent`, one connector a step, since `SendDrmEvent()`
takes the queue's lock for each), the event worker (`TakeEvents`, `NextEvent`, then `DrmEvent`,
`Plug*`, `Unplug*` and `Rescan` for an event of the kernel and `UserEvent`, `UserUpdate`,
`UserExternals`, `UserPost` and `Plug*` for one of HWC's own: `worker` says where in the handler
it is) and SurfaceFlinger's thread (`SfValidate` to `SfPost` are
`HwcDisplay::UpdateDisplayMode()`, which the worker runs as `UserEvent` to `UserPost`; `SfPower`
and `SfSetPower` are `SetPowerMode()`). `Cable` and `ChooseMode` are the world. `pending` is
`mMapPendingEvent_`, whose second event of a display and type replaces the first; `stale` stands
for the timelines that make `GetCurrentDisplayMode()` look again; `registered` is
`mHasRegisterDisplay_`; `needSync` is `bNeedSyncPMState_`. `plug` starts with any value, as
`plug_` does. `refused` is a history variable: a bind or a switch of mode has failed.
**`MCHotplug`** holds the constants of its runs.

These parts are checked apart from the pipeline: `DisplayCompositor` has its own small
`Hotplug` and `EventPower` actions for what these calls do to one pipeline.

**`Vop3588`** is how the layers of one frame get windows on an RK3588 display: what a window
accepts (`SupportFormat` to `SupportPlane`), `MatchPlane()` with its members for clusters and
multi-area windows, and the policies. An action is a policy of `TryHwcPolicy()`, in the code's
order (`phase`), each on what the earlier ones left in the context. A policy that ends in RGA
has a step before the job (`PrepareRga`) and one after it, which may fail. A split primary
display is matched twice: `DoMirrorDisplay` starts the second pass, which has its own layers and
windows, on what the first left of the context. Sizes are numbers, since limits on width,
scaling and parity decide; a format is what the windows tell apart. Left out: SR and MEMC
(`#ifdef`, closed libraries), the 4K layer budget (a property, off by default), windows reserved
by name, `TryMixDownPolicy()`, which nothing requests, `bMultiAreaScaleEnable` (a property,
taken as on, its default; `TenBit` stands for the comparison of formats beside it), and the
reuse of an RGA result, which compares a layer's buffer with the id of RGA's own and never
applies. **`MCPlanes`** has the stacks of layers.

**`SidebandStream`** is video that bypasses SurfaceFlinger: the tunnel's producer outside
the process (`vtq`, `given`), the producer thread (`dvp`), the references and fences of
each tunnel, and a compositor per display that fetches a buffer for each commit
(`current` and `drawing` are `current_sideband2_` and `drawing_sideband2_`).
A release fence is known by the number of releases it waits for, because releasing
*any* buffer advances the tunnel's timeline. **`MCSideband`** has its situations.

**`HwcDisplay`** is the primary display from validation to the commit, and the virtual
displays that record it. It extends four modules, each a record or a few variables with
one operator per function, and its actions are the steps that call them:

- `RefreshWorkers`: `InvalidateWorker` and the one-shot timer that flattens a still screen
  by asking for a frame composed by the GPU;
- `Writeback`: the writeback part of `ResourceManager` with its `DrmBufferQueue`. While a
  virtual display exists the primary's picture goes into a ring of buffers, written by
  the VOP or, above 4096x2160, by RGA, and is copied from there for the recorder. `jobs`
  are the writes in flight, from which the fences follow; `held` and `dst` are the buffers
  that the compositor's request and RGA keep alive beyond their session;
- `LayerBuffers`: the layers' caches, the GEM handles and framebuffers that `DrmGralloc`
  counts by buffer id, and the compositions that hold them on two threads;
- `DisplayModes`: the mode asked for by properties, baseparameter or SurfaceFlinger, the
  connector's modes, the framebuffer's size and crop and SurfaceFlinger's configs.

`HwcDisplay` itself adds HDR, the client target, sessions, `sf`, `cw` and `event` as program
counters of SurfaceFlinger's, the compositor's and the event thread. What
`DisplayCompositor` models in detail is one queued composition here. `past` records what
the properties excuse. **`MCFrontEnd`** has its situations.

## Runs

| Run | Instance | Shows |
|---|---|---|
| `stream` | 2 displays on one CRTC, 3 frames each, no events | the refinement of `ReleaseTimeline`; no fence of a frame on the screen has signalled |
| `events` | 1 display, power and bad layers from SurfaceFlinger, hotplug, failing commits | the pipeline's order, fences in order, every composition gets somewhere |
| `races` | 1 display, power also from the event thread, rejected compositions too | what needs no assumption: one place, one signal, no lost wake-up, draining, a screen that never goes back |
| `rejected` | collection may fail | a fence signals for the frame still shown (finding) |
| `unplugged` | hotplug | a released frame is scanned out (finding) |
| `leftover` | power from the event thread | a composition stays in the collect map (finding) |
| `hotplug` | 2 displays, each with its own CRTC, any boot configuration, 3 cable moves, 1 power switch | what HWC has bound is what the kernel scans out, owners and encoders agree; once the cables rest SurfaceFlinger knows the connected displays and each has a CRTC |
| `mirror` | 2 displays of which one may use either CRTC, 2 modes of which one CRTC outputs only the smaller, any commit failing, a dark boot or one CRTC lit, 2 cable moves, 1 mode choice | both ends of a mirror agree on it; planes leave a display with its CRTC, by release, eviction, mirroring or mode switch; no cable change is forgotten |
| `replug` | the same without failures | a connector is bound to a second CRTC without being released (finding) |
| `planes` | 3 cluster windows and 2 Esmart groups of 2 windows; all stacks of up to 2 of 10 kinds of layers and many of 3 and 4; 4K, 4K at 120 Hz, 8K, both halves of a split display, RGA on and off | the screen shows SurfaceFlinger's stack in its order; windows and clusters are not shared wrongly; a failing policy leaves the next a frame it can compose |
| `video` | 3 displays, 4 tunnels of 4 to 1 buffers, 6 situations | a shown buffer keeps its tunnel and reference; nothing leaks; a listed buffer's fence is pending; buffers keep flowing |
| `frontend` | one primary display, up to 3 virtual ones, 19 situations | recordings in order from buffers nobody writes; exact counts of sessions, handles and framebuffers; HDR, mode, framebuffer and SurfaceFlinger agree; a still screen is flattened |

Bounds. `MaxFrames` = 3 compositions per display fill the queue limit of each mode
with one more on the screen; the limits themselves are 1, 2 and 3 in place of 1, 3
and 10 so that a queue can be full, and a normal frame can find more than its
limit in the queue. Two displays are what one CRTC serves at most (a horizontally
split connector). `CHECK_DEADLOCK` is off because presents are bounded and nothing
obliges SurfaceFlinger to do anything else.

Fairness. A thread that has begun a call goes on with it (`SfStep`, `EventStep`), and
the worker goes round its loop (`WorkerStep`): its waits are timed, so `WorkerTimeout`
happens even if a signal is lost. A presenter asleep is not scheduled: its wake-up
must come from another thread. Nothing is assumed of presents, power or cables.

For the hotplug runs, `MaxCable`, `MaxSetting` and `MaxPower` bound the moves of a
cable, the mode choices and the power switches. A display needs two cable moves to be
unplugged and back, which is the case that goes wrong in `replug`; a third moves the
other display or overtakes the replug. `EarlyCable` lets cables move before the
displays are initialized. `Bounce` is `FALSE` in all runs: a cable does not move again
before the uevent handler has read its last move. With `TRUE` a plug that the worker
skips because the cable is already out, followed by a replug before the handler
looks, leaves `hotplug_state()` unchanged, no event follows and a connected display
stays without a CRTC; the runs say what holds when a sink is slower than the uevent
thread, and that race is listed as a hazard that no property covers. `hotplug` gives each
display a CRTC of its own and one mode, and no commit fails, so that its properties speak
of releasing, binding and powering, not of CRTCs that change hands: when CRTCs are shared,
`replug` shows how `KernelFollows` and `OwnersMatch` are lost, and when commits fail an
eviction may be only half done. CRTCs change hands in `mirror`, where `PlanesWithOwner` is
checked. It is strict as long as every bind and switch succeeds. A refused one (`refused`)
leaves the planes of an evicted display assigned, and a later switch of mode shows the
display without assigning planes (`Show`); it may also leave a display with two CRTCs, of
which the next bind assigns the planes of the first only. Even then a CRTC that nobody
owns has no planes assigned.
The liveness properties say "once the cables rest", which the bound on cable moves
brings about. `CHECK_DEADLOCK` is off for the same reason as above. The fairness is
that boot, the uevent handler, the worker and a call SurfaceFlinger has begun go on;
none of them waits for another, except the worker for an event.

`planes`: the windows are those of one RK3588 video port with some Esmart windows left
out, so that three layers can fill the clusters and four layers exceed the windows. The
kinds of layer differ in what the checks look at: size against 2048 and the 8K limits,
scaling, parity of the offset, rotation, compression, alpha, HDR, sideband, handwriting,
and layers SurfaceFlinger composes itself. Everything is sequential, so every stack is
followed to its end and deadlock is not excused. Excused is one thing: when an RGA job
fails after the match succeeded, the layers set aside for it are gone (`Lost`) and the
frame is shown without them.

`video`: `Situations` gives each question its smallest setting (a switch of tunnels, four
buffers, a rotated display, two displays on one tunnel, an import, commit, connection or
fence that fails), since their product adds nothing. A call of a kind fails at most once
per display or tunnel. The outside producer fills and queues buffers in the order it got
them back. Fairness: the threads run, the producer fills what it gets, RGA ends its jobs.
A worker's fetch is strongly fair (`SF_vars(Fetch(d))`): a buffer that is listed again and
again is some time found ready when the worker looks, which is what video at the display's
rate means; nothing makes SurfaceFlinger present. What the properties excuse: a rejected or
failed commit keeps references and connections that nobody gives back (`failed`); the
producer's thread, having found no tunnel, waits without a time-out for a signal that was
sent before it waited (`Overslept`); and, for `VideoFlows`, a tunnel with a failed import
(`dropped`) as long as its timeline is behind (`TimelineBehind`). The last is a consequence of
the shared timeline: another buffer's release signals the fence of a buffer still on the
screen, the producer fills that buffer again, and acquiring it replaces the fence whose release
is still due, so one advance is missing. One failed import, which gives the buffer back without
a release, is then enough for the producer to wait for an advance that does not come.

`frontend`: the situations (`Quiet` and what happens in each) are long recordings, recordings in
sequence and at once, every kind of content, buffers by slot, by id and uncached, and modes from
each of their sources, each with the faults and cable moves that bear on it. A mode is one of
five that differ as the code tells them apart (interlaced, above 2160p, same size and rate).
Sizes are numbers; 3 is above what the VOP writes back. `Refreshes` stands for the 20 frames
asked for when nothing moves; the refresh period is left out, and the timer, longer than the
longest period, expires only while the worker does not count. The format of a buffer in the ring
never changes. Taking over a mode (`UpdatesMode`) is one step, from the choice over
`ClearDisplay()` to the commit, between which the event thread could run
`CheckStateAndReinit()`. Layers have two buffers and the client target one, each with one
framebuffer; the HWC's own buffers for RGA are left out. A mode is asked for between frames and
one cable event is handled at a time. The primary has neither mirror nor split;
`CheckCrtcOutputCapability` and variable refresh rate are left out. Fairness: the threads, the
hardware and the timer go on, and SurfaceFlinger composes a frame it was asked for. What the
properties excuse, recorded in `past` or `stale`: a copy from the very buffer that is next to be
written (`"overrun"`, the oldest of a full queue), a session made anew (`"mixed"`) or ended
(`"cut"`, its picture keeps no fence) during a commit, a change of size while recording
(`"resized"`), a session that was not granted (`"refused"`), a commit that a `ClearDisplay()` or
the session's end came before (`"late"`), a failed commit that carried an HDR switch (`"lost"`)
or a mode, or a config set while the cable is out (both `"unswitched"`: the retry tells nobody,
and without a cable no mode is committed), and a composition destroyed between collection and
commit or after a failed commit, whose framebuffers are removed while they are used (`stale`).
Each is something the code does and a limit of what it promises.

## Proofs

`DisplayCompositor_proofs` proves, for every number of displays and frames, every
limit and every combination of events and faults, that the types hold
(`TypeCorrect`), that the counters match the queues (`CountCorrect`), that no wake-up
is lost (`NoLostWakeup`) and that a cleared pipeline is empty (`ClearIsComplete`).
The four are inductive only together, as `IInv`: that a sleeping presenter's queue is
not empty needs the counters to be exact, and a cleared pipeline needs the
collected frames' useless lists to be gone with it. `TypeOK` is proved in parts
(`FlagsOK`, `QueueOK`, `HeldOK`, `ShownOK`, `FencesOK`, `ThreadsOK`), because most actions
disturb only one or two of them.

Its second half adds the order of the frames under `OrderedWorld`: no composition
is rejected by `CollectInfo()` and only SurfaceFlinger's thread switches the power.
Both are necessary: `rejected` and `leftover` show what happens otherwise. The
invariant `OrderInv` says that the stages of each display (released, current,
useless, collected, queued, in hand) are consecutive intervals of serial numbers;
for that to be kept by `CollectInfo()`, which destroys a composition if the collect
map is occupied, the map must be empty when the worker collects, which is what
`PhasesAgree` gives. Since the intervals partition the frames created, each frame is in
the one place that stands for its interval (`NothingLost`), and since the released ones
are `1..timeline`, there are as many of them as signals (`SignalsExact`). The run `races`
checks these two without the assumption, on one display.

`Streaming_proofs` proves the refinement, for any number of displays and frames, any
limits and both queueing modes: while there is no event and no failing call
(`StreamingWorld`) every step of the compositor is a step of `ReleaseTimeline` or a stutter
(`StreamingImplementsTimeline`), the fence of the frame being scanned out has not
signalled (`ScreenBufferHeld`) and the screen never goes back (`StreamMovesForward`). `StreamInv`
is what is needed beside `OrderInv`: the request holds exactly the collected frames until
the ioctl, and the screen shows the current frames or, between the ioctl and the
retirement, the collected ones. That the world is quiet is needed too: `rejected` and
`unplugged` break `ScreenFenceHeld` and the like otherwise.

`SidebandStream_proofs` proves what the run `video` checks of the sideband stream, for any
displays, any tunnels with finite pools of buffers and any situation to start in, with every
failing call. The four properties are inductive together, as `IInv`. The buffers of a tunnel
are its pool, each once, in the queue or with the producer (`Lists`), which is the deep part of
`TypesHold`. `Fences` is what `ListedIsPending` needs: a tunnel's fences are counted on one
timeline which the release of *any* buffer advances, so the newest buffers' fences must be the
last of all those still to signal, one apart, and there must be at least as many releases to
come as armed buffers (`Cardinality(f.armed) <= f.ahead`); it follows the buffer the producer's
thread has in hand (`Pushed`). `States` ties what a display shows to its tunnel's connections
and references (`DrawnIsHeld`), and `Kept` bounds what it may keep by where its compositor's
thread is (`NothingLeaks`), closed tunnels included: a display that took part in nothing that
was refused (`failed`) has connections and references only for `current` and `drawing`.

`HwcDisplay_proofs` has two arguments about the front end, for any situation.
`SessionsAreExact`: without a session there is no mode (`Unused`), hence no swap or resize that
would take a buffer, so the count is enough to know what is held; the writeback connector's
state is known to the compositor (`AttachedOf`). `WireFollowsScreen`: a switch of HDR travels from
the frame to the wire through the queue, the request and the commit; `Requests` says that the
request carries a switch exactly if its frame differs from the mode set, and that none is due
outside a request, which is what `HdrFollows` needs across a composition that is dropped.

`Writeback_proofs` is about the ring of buffers, for any situation. `RecordingApart`: no buffer
is written while it is drawn, finished or copied. What makes it inductive is where things are in
the ring (`InTurn`): the next buffer is its last, the drawn one stands before it and the
finished ones before that, newest first, so that what is taken from the ring's head cannot be
any of them but the oldest of a full queue. That a picture is not written into a buffer being
copied also needs the fences: `Writing` says of every picture in flight that its buffer's fence
waits for it and the buffer is not the next one, or that the request at hand has just begun it;
a copy waits for the fence (`Copying`). A fault (`Faults`) ends this: a session that ends during
a commit leaves a picture without a fence, one made anew gets the fence of another's, and a
change of size takes a buffer out of turn. `FrontEndTyped` follows from the same invariant,
since what a pointer may point at are the buffers alive (`Buffered`, `Kept`), a function whose
domain changes.

`Recording_proofs` proves `RecordingOrdered`, the order of the recorded pictures, over any
number of sessions that share the ring. A buffer may hold several pictures at once, the one
it has and those the hardware has begun, so the invariant (`RecordInv`) speaks of what a
buffer may yet show (`Pictures`): it ascends along the finished buffers and the drawn one,
but for the oldest of a full queue, which the next picture may overwrite (`Resting`); none
is newer than the presented frame; and each recorder `Follows`, that is, whichever buffer
`OutputWBBuffer()` can still choose for it shows a picture no older than its last and than
the one of its start. While a copy runs, the same holds of the picture being copied
(`Copied`). `RecordInv` needs the fences again: a picture the hardware has not finished may
not arrive in a buffer that has passed to another frame, which `Writing` excludes until a
fault. On small instances TLC finds `RecordInv` invariant, too.

`DisplayModes_proofs` proves `ModesComeToAgree`, for any modes asked for in any of the four ways.
`ModesAgree` is about rest; the invariant (`ModesInv`) says for every step what is still on its
way: an event (`EventForm` orders them: a reinitialisation is followed by a configuration), a
pending hotplug, or a change noted for the next validation. With standard switching
(`ModeSize`) all sizes are the active mode's and SurfaceFlinger's configs are the connector's
list unless it is about to be told; without (`OwnSize`) the framebuffer has a size of its own.

`DisplayHotplug_proofs` is about the bookkeeping of connectors and CRTCs. `ChangesAreAwaited`
holds for any displays and CRTCs, shared or not, whatever fails, and needs `~Bounce`: with it
what the uevent handler last saw is the cable itself once no uevent is left (`AwaitedInv`), so a
state that differs from the cable has its event. The other four theorems (`KernelIsFollowed`,
`OwnersAlwaysMatch`, `PlanesFollowOwner`, `RoutedTypes`) are about `OwnCrtcs`: each connector
has at most one CRTC, which no other has, as most device trees route them, and the boot loader
lit nothing else. There any commit may fail, for any number of displays, CRTCs, modes and
events, whereas the run `hotplug`, which has liveness to check, lets none fail.
`PlanesFollowOwner` needs no excuse (`refused`) there, since nobody is evicted. The invariant is
`RoutedInv`. `Shape` says that no mirror ever comes to be and that every connector is where its
device tree allows; `Agrees` relates owner, encoder, kernel and planes, and is weaker for a
display that still has what the boot loader gave it; `Presented` says that the displays
SurfaceFlinger may present are none of those, without which a mode switch would release a CRTC
that nobody owns. Each function of `DrmDevice` has a lemma that it takes a sound device to a
sound one on every outcome (`Goes`), and never takes the boot loader's choice back. With shared
CRTCs the properties do not hold so: `replug` shows one way, a failed eviction is another.

The constants are assumed to satisfy `ConstantsAssumption`, `SidebandAssumption`,
`DeviceAssumption`, `HotplugAssumption` and `HwcDisplayAssumption`; the
theorems' own hypotheses are named in their statements; nothing else is assumed.

Only model-checked:

- the liveness properties, which are out of the prover's reach;
- `OnePlace`, `SignalledOnce` and `ScreenMovesForward` with all events and faults: the
  theorems have the hypotheses `OrderedWorld` or `StreamingWorld`, under which the frames
  of a stage are an interval;
- `MirrorsAgree`: leaving a mirror goes through the externals by a fold (`EachOf`), and what
  a fold computes for every input needs induction over data; so do `KernelFollows` and the
  others where CRTCs are shared;
- `FramebuffersHeld`, which counts by folds;
- `Vop3588`, whose matching is made of folds over layers and windows.

## Plan

What is left, in this order; modules are written without recursive operators where
theorems are planned.

1. Theorems on the windows that `Vop3588` takes (`OneWindowEach`), with the matching's folds
   replaced where a direct definition says the same, and on `MirrorsAgree` likewise.
2. `ScreenMovesForward` with failing commits and power switches, which needs a bound on
   the planes left in a request by `pset_`.
3. The life of a worker: `Worker::Exit`, the compositor's destructor, the vsync worker and
   the registration of the uevent handler; an abstract worker (awake while enabled, ends
   after `Exit`) that each implements.
4. The rest of the event worker: single-display mode, change of the primary, split
   displays; the agreement of the kernel's power with `mPowerMode_`, and the release of
   every CRTC of a disconnected display.
5. Exclusive use of CRTCs when an eviction's commit fails.
6. HDR metadata of video frames, picture quality, the retire fence queue.

## Not modelled

- SR, MEMC, picture quality and e-book paths, which call closed libraries; the other
  platforms (RK3399, RK356x, RK3528), whose windows and policies are variants of the RK3588's.
- HDR metadata parsing, format tables, property parsing, RGA and gralloc wrappers, logging
  and dumps: conversions and queries without a protocol.
- `VSyncWorker`, the end of a worker, the compositor's destructor and `Init()`.
- The migration of planes between CRTCs and reservation of windows by name.
- SurfaceFlinger's queries that read the connector again when its modes are not ready,
  and the time a callback into SurfaceFlinger takes.
- A boot loader that drives two connectors from one CRTC (`drmdevice.cpp`,
  the kernel's mirror configuration).
- The memory model: an access outside a lock is a step of its own, but a torn or
  reordered one is not considered.
