------------------------- MODULE DisplayCompositor -------------------------
(***************************************************************************)
(* The frame pipeline of one DrmDisplayCompositor: SurfaceFlinger's thread *)
(* queues compositions, the compositor's worker thread collects them into  *)
(* one atomic request, commits it and releases the frames it replaced, and *)
(* SurfaceFlinger's thread, the hotplug event thread and the worker itself *)
(* may empty the whole pipeline with ClearDisplay().                       *)
(*                                                                         *)
(* One compositor exists per CRTC; the displays it serves (two with a      *)
(* horizontally split connector) share its queue, its lock and its worker. *)
(*                                                                         *)
(* A composition is known by its display and its serial number on that     *)
(* display's sw_sync timeline, which is also the value of its release      *)
(* fence: the fence of frame n signals once the timeline has reached n.    *)
(* 0 stands for no composition.  Every section the code runs under lock_   *)
(* is one step; what it does without the lock is split at each access.     *)
(***************************************************************************)
EXTENDS Integers, Sequences, FiniteSets, Functions

CONSTANTS
  Displays,      \* the displays driven by this compositor's CRTC
  MaxFrames,     \* bound: compositions created per display
  DropModes,     \* values of vendor.hwc.enable_composition_drop_mode to try
  SvepKinds,     \* may a frame carry SVEP layers: a subset of BOOLEAN
  NormalMax, SvepMax, DropMax,  \* the queue limits 1, 3 and 10 of the code
  SfOps,         \* what SurfaceFlinger does beside presenting
  EventOps,      \* what the hotplug event thread does
  Faults         \* which calls may fail: "collect", "commit", "disable"

ASSUME ConstantsAssumption ==
  /\ Displays # {}
  /\ MaxFrames \in Nat
  /\ DropModes \subseteq BOOLEAN /\ DropModes # {}
  /\ SvepKinds \subseteq BOOLEAN
  /\ NormalMax \in Nat \ {0} /\ SvepMax \in Nat \ {0} /\ DropMax \in Nat \ {0}
  /\ SfOps \subseteq {"power", "badlayer"}
  /\ EventOps \subseteq {"hotplug", "power"}
  /\ Faults \subseteq {"collect", "commit", "disable"}

VARIABLES
  active_,     \* the DPMS flag: written and read without lock_
  clear_,      \* ClearDisplay() ran and nothing was queued since
  drop_mode_,  \* sticky: a drop-mode composition has been queued
  mCompositionDropMode, \* ResourceManager's property, read once at start
  queue,       \* composite_queue_, one sequence per display
  count,       \* mapDisplayHaveQeueuCnt_
  collect,     \* collect_composition_map_
  useless,     \* useless_composition_queue() of the composition in collect
  current,     \* active_composition_map_
  pset_,       \* is the atomic request allocated
  planes,      \* the frame whose planes the request sets, per display
  screen,      \* kernel: the frame scanned out, per display
  timeline,    \* kernel: the display's sw_sync timeline
  created,     \* compositions, hence release fences, created per display
  done,        \* history: frames whose SignalCompositionDone() has run
  worker,      \* program counter of the drm-compositor thread
  sf, hand,    \* SurfaceFlinger's thread and the composition it is queueing
  ev,          \* program counter of the hotplug event thread
  plugged      \* connector->state() == DRM_MODE_CONNECTED

sets == <<collect, useless, current>>
request == <<pset_, planes>>
kernel == <<screen, timeline>>
vars == <<active_, clear_, drop_mode_, mCompositionDropMode, queue, count, sets,
          request, kernel, created, done, worker, sf, hand, ev, plugged>>

NoHand == [d |-> CHOOSE d \in Displays : TRUE, n |-> 0, svep |-> FALSE]

One(n) == IF n = 0 THEN 0 ELSE 1
Nonzero(n) == {n} \ {0}

TypeOK ==
  /\ active_ \in BOOLEAN /\ clear_ \in BOOLEAN /\ drop_mode_ \in BOOLEAN
  /\ mCompositionDropMode \in BOOLEAN
  /\ queue \in [Displays -> Seq(Nat)]
  /\ count \in [Displays -> Nat]
  /\ collect \in [Displays -> Nat]
  /\ useless \in [Displays -> Seq(Nat)]
  /\ current \in [Displays -> Nat]
  /\ pset_ \in BOOLEAN
  /\ planes \in [Displays -> Nat]
  /\ screen \in [Displays -> Nat]
  /\ timeline \in [Displays -> Nat]
  /\ created \in [Displays -> Nat]
  /\ done \in [Displays -> SUBSET Nat]
  /\ worker \in {"check", "prewait", "wait", "collect", "commit", "kernel",
                 "retire", "tail", "clear"}
  /\ sf \in {"idle", "queue", "lock", "waiting", "woken", "notify",
             "clear", "release", "badlayer"}
  /\ hand \in [d : Displays, n : Nat, svep : BOOLEAN]
  /\ ev \in {"idle", "clear", "release"}
  /\ plugged \in BOOLEAN

Init ==
  /\ active_ = FALSE
  /\ clear_ \in BOOLEAN     \* the constructor leaves it uninitialized
  /\ drop_mode_ = FALSE
  /\ mCompositionDropMode \in DropModes
  /\ queue = [d \in Displays |-> << >>]
  /\ count = [d \in Displays |-> 0]
  /\ collect = [d \in Displays |-> 0]
  /\ useless = [d \in Displays |-> << >>]
  /\ current = [d \in Displays |-> 0]
  /\ pset_ = FALSE
  /\ planes = [d \in Displays |-> 0]
  /\ screen = [d \in Displays |-> 0]
  /\ timeline = [d \in Displays |-> 0]
  /\ created = [d \in Displays |-> 0]
  /\ done = [d \in Displays |-> {}]
  /\ worker = "check"
  /\ sf = "idle"
  /\ hand = NoHand
  /\ ev = "idle"
  /\ plugged = TRUE

-----------------------------------------------------------------------------
(* Release fences.  signal() only advances the display's timeline by one,    *)
(* whichever frame's fence it is called on; the destructor of a composition  *)
(* signals it if nothing else did, and then destroys its useless queue.      *)

\* Mutant: the destructor signals what SignalCompositionDone() signalled.
SignalTwice(d, n) ==
  /\ done' = [done EXCEPT ![d] = @ \cup {n}]
  /\ timeline' = [timeline EXCEPT ![d] = @ + 2]

SignalOne(d, n) ==
  /\ done' = [done EXCEPT ![d] = @ \cup {n}]
  /\ timeline' = [timeline EXCEPT ![d] = @ + 1]

-----------------------------------------------------------------------------
(* SurfaceFlinger's thread                                                   *)

(* PresentDisplay() past CheckDisplayState(): CreateComposition() takes the  *)
(* next value of the timeline for the new composition's release fence.       *)
PresentDisplay(d, svep) ==
  /\ sf = "idle" /\ plugged
  /\ created[d] < MaxFrames
  /\ created' = [created EXCEPT ![d] = @ + 1]
  /\ hand' = [d |-> d, n |-> created[d] + 1, svep |-> svep]
  /\ sf' = "queue"
  /\ UNCHANGED <<active_, clear_, drop_mode_, mCompositionDropMode, queue, count,
                 sets, request, kernel, done, worker, ev, plugged>>

(* QueueComposition() returns -ENODEV: its argument is destroyed.            *)
Refuse ==
  /\ SignalOne(hand.d, hand.n)
  /\ hand' = NoHand
  /\ sf' = "idle"

(* The first test of active_, before lock_ is taken.                         *)
QueueComposition ==
  /\ sf = "queue"
  /\ \/ /\ active_
        /\ sf' = "lock"
        /\ UNCHANGED <<timeline, done, hand>>
     \/ ~active_ /\ Refuse
  /\ UNCHANGED <<active_, clear_, drop_mode_, mCompositionDropMode, queue, count,
                 sets, request, screen, created, worker, ev, plugged>>

SetsDropMode == ~hand.svep /\ mCompositionDropMode

GetCompositeQueueMaxSize ==
  CASE hand.svep -> SvepMax
    [] SetsDropMode -> DropMax
    [] OTHER -> NormalMax

QueueFull == count[hand.d] >= GetCompositeQueueMaxSize

\* Mutants of Push: the counter, the end of the queue.
PushUncounted ==
  /\ queue' = [queue EXCEPT ![hand.d] = Append(@, hand.n)]
  /\ clear_' = FALSE
  /\ UNCHANGED count
PushFront ==
  /\ queue' = [queue EXCEPT ![hand.d] = << hand.n >> \o @]
  /\ count' = [count EXCEPT ![hand.d] = @ + 1]
  /\ clear_' = FALSE

Push ==
  /\ queue' = [queue EXCEPT ![hand.d] = Append(@, hand.n)]
  /\ count' = [count EXCEPT ![hand.d] = @ + 1]
  /\ clear_' = FALSE

(* The loop around pthread_cond_wait(): block, or push and drop the lock.    *)
WaitOrPush ==
  /\ drop_mode_' = (drop_mode_ \/ SetsDropMode)
  /\ \/ /\ QueueFull
        /\ sf' = "waiting"
        /\ UNCHANGED <<queue, count, clear_, hand>>
     \/ /\ ~QueueFull
        /\ Push
        /\ hand' = NoHand
        /\ sf' = "notify"

(* lock_ held: active_ is tested again, once, before the first wait.         *)
QueueLocked ==
  /\ sf = "lock"
  /\ \/ /\ active_
        /\ WaitOrPush
        /\ UNCHANGED <<timeline, done>>
     \/ /\ ~active_
        /\ Refuse
        /\ UNCHANGED <<drop_mode_, queue, count, clear_>>
  /\ UNCHANGED <<active_, mCompositionDropMode, sets, request, screen, created,
                 worker, ev, plugged>>

(* pthread_cond_wait() returned: the size is tested again, active_ is not.   *)
QueueWoken ==
  /\ sf = "woken"
  /\ WaitOrPush
  /\ UNCHANGED <<active_, mCompositionDropMode, sets, request, kernel, created, done,
                 worker, ev, plugged>>

(* worker_.Signal() after the unlock: lost unless the worker is waiting.     *)
SignalWorker ==
  /\ sf = "notify"
  /\ worker' = IF worker = "wait" THEN "collect" ELSE worker
  /\ sf' = "idle"
  /\ UNCHANGED <<active_, clear_, drop_mode_, mCompositionDropMode, queue, count,
                 sets, request, kernel, created, done, hand, ev, plugged>>

(* A present whose display has no layers: CheckDisplayState() is BadLayer.   *)
PresentNoLayers ==
  /\ "badlayer" \in SfOps
  /\ sf = "idle" /\ plugged
  /\ sf' = "badlayer"
  /\ UNCHANGED <<active_, clear_, drop_mode_, mCompositionDropMode, queue, count,
                 sets, request, kernel, created, done, worker, hand, ev, plugged>>

-----------------------------------------------------------------------------
(* ClearDisplay(), under lock_                                               *)

Holds(d) == current[d] # 0 \/ collect[d] # 0 \/ queue[d] # << >>
Empty == \A d \in Displays : ~Holds(d) /\ useless[d] = << >>

Held(d) ==
  Nonzero(current[d]) \cup Nonzero(collect[d]) \cup Range(useless[d]) \cup Range(queue[d])

NumHeld(d) ==
  One(current[d]) + One(collect[d]) + Len(useless[d]) + Len(queue[d])

\* Mutant: mapDisplayHaveQeueuCnt_ is not cleared.
EmptyKeepsCount ==
  /\ queue' = [d \in Displays |-> << >>]
  /\ collect' = [d \in Displays |-> 0]
  /\ useless' = [d \in Displays |-> << >>]
  /\ current' = [d \in Displays |-> 0]
  /\ UNCHANGED count

EmptyContainers ==
  /\ queue' = [d \in Displays |-> << >>]
  /\ count' = [d \in Displays |-> 0]
  /\ collect' = [d \in Displays |-> 0]
  /\ useless' = [d \in Displays |-> << >>]
  /\ current' = [d \in Displays |-> 0]

(* The planes of a display are turned off unless the commit of that fails.   *)
DisablePlanes ==
  \E stuck \in SUBSET Displays :
    /\ stuck # {} => "disable" \in Faults
    /\ screen' = [d \in Displays |->
                   IF Holds(d) /\ d \notin stuck THEN 0 ELSE screen[d]]

(* Every composition is signalled and destroyed, after DisablePlanes() of its *)
(* display.  pset_ is left as it is.  There is one pthread_cond_signal() per  *)
(* composition removed from the queue.                                        *)
ClearDisplay ==
  /\ DisablePlanes
  /\ done' = [d \in Displays |-> done[d] \cup Held(d)]
  /\ timeline' = [d \in Displays |-> timeline[d] + NumHeld(d)]
  /\ EmptyContainers
  /\ clear_' = TRUE

\* Mutant: no pthread_cond_signal().
WakesNobody == FALSE

WakesPresenter == sf = "waiting" /\ \E d \in Displays : queue[d] # << >>

(* HwcDisplay::ClearDisplay(), called while powering off or on a bad layer.  *)
SfClearDisplay ==
  /\ sf \in {"clear", "badlayer"}
  /\ ClearDisplay
  /\ sf' = IF sf = "clear" THEN "release" ELSE "idle"
  /\ UNCHANGED <<active_, drop_mode_, mCompositionDropMode, request, created, worker,
                 hand, ev, plugged>>

(* ... and by the event thread, which may find SurfaceFlinger blocked.       *)
EventClearDisplay ==
  /\ ev = "clear"
  /\ ClearDisplay
  /\ ev' = "release"
  /\ sf' = IF WakesPresenter THEN "woken" ELSE sf
  /\ UNCHANGED <<active_, drop_mode_, mCompositionDropMode, request, created, worker,
                 hand, plugged>>

-----------------------------------------------------------------------------
(* Power and hotplug.  SetPowerMode() writes active_ through a DPMS          *)
(* composition, without lock_, then clears, then disables the CRTC's planes. *)

SfPowerOn ==
  /\ sf = "idle"
  /\ active_' = TRUE
  /\ UNCHANGED <<clear_, drop_mode_, mCompositionDropMode, queue, count, sets, request,
                 kernel, created, done, worker, sf, hand, ev, plugged>>

\* Mutant: SetPowerMode() disables the planes without ClearDisplay().
SfPowerOffNoClear ==
  /\ "power" \in SfOps
  /\ sf = "idle"
  /\ active_' = FALSE
  /\ sf' = "release"
  /\ UNCHANGED <<clear_, drop_mode_, mCompositionDropMode, queue, count, sets, request,
                 kernel, created, done, worker, hand, ev, plugged>>

SfPowerOff ==
  /\ "power" \in SfOps
  /\ sf = "idle"
  /\ active_' = FALSE
  /\ sf' = "clear"
  /\ UNCHANGED <<clear_, drop_mode_, mCompositionDropMode, queue, count, sets, request,
                 kernel, created, done, worker, hand, ev, plugged>>

EventPower ==
  /\ "power" \in EventOps
  /\ ev = "idle"
  /\ \/ active_' = TRUE /\ UNCHANGED ev
     \/ active_' = FALSE /\ ev' = "clear"
  /\ UNCHANGED <<clear_, drop_mode_, mCompositionDropMode, queue, count, sets, request,
                 kernel, created, done, worker, sf, hand, plugged>>

(* HandleDrmHotplugEvent(): UpdateModes() publishes the new connector state. *)
Hotplug ==
  /\ "hotplug" \in EventOps
  /\ ev = "idle"
  /\ plugged' = ~plugged
  /\ ev' = IF plugged THEN "clear" ELSE "idle"
  /\ UNCHANGED <<active_, clear_, drop_mode_, mCompositionDropMode, queue, count, sets,
                 request, kernel, created, done, worker, sf, hand>>

(* DisableAllPlaneForCrtc(), at the end of a power-off or of ReleaseDpyRes().*)
DisableAllPlaneForCrtc ==
  \/ screen' = [d \in Displays |-> 0]
  \/ "disable" \in Faults /\ UNCHANGED screen

SfDisablePlanes ==
  /\ sf = "release"
  /\ DisableAllPlaneForCrtc
  /\ sf' = "idle"
  /\ UNCHANGED <<active_, clear_, drop_mode_, mCompositionDropMode, queue, count, sets,
                 request, timeline, created, done, worker, hand, ev, plugged>>

EventDisablePlanes ==
  /\ ev = "release"
  /\ DisableAllPlaneForCrtc
  /\ ev' = "idle"
  /\ UNCHANGED <<active_, clear_, drop_mode_, mCompositionDropMode, queue, count, sets,
                 request, timeline, created, done, worker, sf, hand, plugged>>

-----------------------------------------------------------------------------
(* The worker: DrmCompositorWorker::Routine(), then Composite()              *)

HaveQueuedComposites == \E d \in Displays : queue[d] # << >>

WorkerGoes(from, to) ==
  /\ worker = from
  /\ worker' = to

OthersUnchanged == UNCHANGED <<mCompositionDropMode, created, hand, ev, plugged>>
PipelineUnchanged ==
  UNCHANGED <<clear_, drop_mode_, queue, count, sets, request, kernel, done, sf>>

(* HaveQueuedComposites() drops lock_ before the worker waits: a Signal() in *)
(* between is lost, and only the time-out makes the worker look again.       *)
WorkerCheck ==
  /\ WorkerGoes("check", IF HaveQueuedComposites THEN "collect" ELSE "prewait")
  /\ UNCHANGED active_ /\ PipelineUnchanged /\ OthersUnchanged

WorkerWait ==
  /\ WorkerGoes("prewait", "wait")
  /\ UNCHANGED active_ /\ PipelineUnchanged /\ OthersUnchanged

\* Mutant: the worker's wait has no time-out.
NoTimeout == FALSE

WorkerTimeout ==
  /\ WorkerGoes("wait", "check")
  /\ UNCHANGED active_ /\ PipelineUnchanged /\ OthersUnchanged

(* What CollectSFInfo() takes from one display's queue: in sequence the      *)
(* oldest frame; in drop mode the newer of the two oldest, the other one     *)
(* being kept to be released with it.                                        *)
\* Mutants of Picked: the older of the two, and the newest of all.
PickedOldest(q) == q[1]
PickedNewest(q) == IF drop_mode_ THEN q[Len(q)] ELSE q[1]

Picked(q) ==
  IF drop_mode_ /\ Len(q) > 1 /\ q[2] > q[1] THEN q[2] ELSE q[1]

Dropped(q) ==
  IF drop_mode_ /\ Len(q) > 1
  THEN << IF q[2] > q[1] THEN q[1] ELSE q[2] >>
  ELSE << >>

Remaining(q) == SubSeq(q, 2 + Len(Dropped(q)), Len(q))

(* CollectInfo() destroys the composition it could not collect; and          *)
(* map::insert() keeps the old entry and destroys the new one when the map   *)
(* still holds a composition of that display.                                *)
\* Mutant: the map's old entry is overwritten.
CollectInfoOverwrites(d, failed) == d \in failed

CollectInfoLoses(d, failed) == d \in failed \/ collect[d] # 0

(* The displays with something queued; CollectInfo() runs once for each.     *)
Batch == {d \in Displays : queue[d] # << >>}

(* The frame each display's planes are set to by the request.  A failure     *)
(* frees the whole request, the planes collected for other displays          *)
(* included: `kept' are those collected after the last failure, in whatever  *)
(* order the displays' compositions come.                                    *)
CollectCommitInfo(failed, kept) ==
  planes' = [d \in Displays |->
    IF d \in kept /\ ~clear_ THEN Picked(queue[d])
    ELSE IF failed = {} THEN planes[d] ELSE 0]

CollectInfo(failed, kept) ==
  LET Collects(d) == d \in Batch /\ ~CollectInfoLoses(d, failed)
      Loses(d) == d \in Batch /\ CollectInfoLoses(d, failed)
  IN
  /\ pset_' = IF Batch = {} THEN pset_ ELSE (failed = {} \/ kept # {})
  /\ CollectCommitInfo(failed, kept)
  /\ collect' = [d \in Displays |->
       IF Collects(d) THEN Picked(queue[d]) ELSE collect[d]]
  /\ useless' = [d \in Displays |->
       IF Collects(d) THEN Dropped(queue[d]) ELSE useless[d]]
  /\ done' = [d \in Displays |->
       IF Loses(d) THEN done[d] \cup {Picked(queue[d])} \cup Range(Dropped(queue[d]))
       ELSE done[d]]
  /\ timeline' = [d \in Displays |->
       IF Loses(d) THEN timeline[d] + 1 + Len(Dropped(queue[d])) ELSE timeline[d]]

CollectSFInfo ==
  /\ WorkerGoes("collect", "commit")
  /\ \E failed \in SUBSET Batch, kept \in SUBSET Batch :
       /\ failed # {} => "collect" \in Faults /\ ~clear_ /\ kept \cap failed = {}
       /\ failed = {} => kept = Batch
       /\ CollectInfo(failed, kept)
  /\ queue' = [d \in Displays |-> IF d \in Batch THEN Remaining(queue[d]) ELSE << >>]
  /\ count' = [d \in Displays |->
       IF d \in Batch THEN count[d] - 1 - Len(Dropped(queue[d])) ELSE count[d]]
  /\ sf' = IF WakesPresenter THEN "woken" ELSE sf
  /\ UNCHANGED <<active_, clear_, drop_mode_, current, screen>>
  /\ OthersUnchanged

(* Commit(): the tests it makes before the ioctl, without lock_.             *)
CommitCheck ==
  /\ WorkerGoes("commit", IF active_ /\ pset_ THEN "kernel" ELSE "tail")
  /\ pset_' = (pset_ /\ active_)
  /\ planes' = IF active_ THEN planes ELSE [d \in Displays |-> 0]
  /\ UNCHANGED <<active_, clear_, drop_mode_, queue, count, sets, kernel, done, sf>>
  /\ OthersUnchanged

(* drmModeAtomicCommit(), without lock_; the request is then freed.          *)
AtomicCommit ==
  /\ WorkerGoes("kernel", "retire")
  /\ \/ screen' = [d \in Displays |-> IF planes[d] # 0 THEN planes[d] ELSE screen[d]]
     \/ "commit" \in Faults /\ UNCHANGED screen
  /\ pset_' = FALSE
  /\ planes' = [d \in Displays |-> 0]
  /\ UNCHANGED <<active_, clear_, drop_mode_, queue, count, sets, timeline, done, sf>>
  /\ OthersUnchanged

(* The end of Commit(), under lock_ and whatever the ioctl returned: of each *)
(* display with a collected frame, the frame shown so far and the dropped    *)
(* ones are signalled, and the collected one becomes the current one.        *)
Replaced(d) == Nonzero(current[d]) \cup Range(useless[d])
\* Mutant: signals the collected frame in place of the one it replaces.
NumReplacedByNew(d) == One(collect[d]) + Len(useless[d])

NumReplaced(d) == One(current[d]) + Len(useless[d])

CommitRetire ==
  /\ WorkerGoes("retire", "tail")
  /\ done' = [d \in Displays |->
       IF collect[d] # 0 THEN done[d] \cup Replaced(d) ELSE done[d]]
  /\ timeline' = [d \in Displays |->
       IF collect[d] # 0 THEN timeline[d] + NumReplaced(d) ELSE timeline[d]]
  /\ current' = [d \in Displays |-> IF collect[d] # 0 THEN collect[d] ELSE current[d]]
  /\ collect' = [d \in Displays |-> 0]
  /\ useless' = [d \in Displays |-> << >>]
  /\ UNCHANGED <<active_, clear_, drop_mode_, queue, count, request, screen, sf>>
  /\ OthersUnchanged

(* The end of Composite(): active_ once more, then ClearDisplay().           *)
\* Mutant: compositions queued around a power-off are not caught.
CompositeNoIntercept ==
  /\ WorkerGoes("tail", "check")
  /\ UNCHANGED active_ /\ PipelineUnchanged /\ OthersUnchanged

CompositeTail ==
  /\ WorkerGoes("tail", IF active_ THEN "check" ELSE "clear")
  /\ UNCHANGED active_ /\ PipelineUnchanged /\ OthersUnchanged

WorkerClearDisplay ==
  /\ WorkerGoes("clear", "check")
  /\ ClearDisplay
  /\ sf' = IF WakesPresenter THEN "woken" ELSE sf
  /\ UNCHANGED <<active_, drop_mode_, request>>
  /\ OthersUnchanged

-----------------------------------------------------------------------------
(* What a thread does once it has begun, and what it may begin.              *)

SfStep ==
  \/ QueueComposition \/ QueueLocked \/ QueueWoken \/ SignalWorker \/ SfClearDisplay
  \/ SfDisablePlanes

EventStep == EventClearDisplay \/ EventDisablePlanes

WorkerStep ==
  \/ WorkerCheck \/ WorkerWait \/ WorkerTimeout \/ CollectSFInfo \/ CommitCheck
  \/ AtomicCommit \/ CommitRetire \/ CompositeTail \/ WorkerClearDisplay

Begin ==
  \/ \E d \in Displays, svep \in SvepKinds : PresentDisplay(d, svep)
  \/ PresentNoLayers \/ SfPowerOn \/ SfPowerOff \/ EventPower \/ Hotplug

Next == Begin \/ SfStep \/ EventStep \/ WorkerStep

(* Threads keep running: a call that has begun goes on, a blocked presenter  *)
(* once it has been woken, and the worker's waits are timed.  Nothing obliges *)
(* SurfaceFlinger to present nor a cable to be plugged.                       *)
Fairness ==
  /\ WF_vars(SfStep)
  /\ WF_vars(EventStep)
  /\ WF_vars(WorkerStep)

Spec == Init /\ [][Next]_vars
FairSpec == Spec /\ Fairness

-----------------------------------------------------------------------------
(* Properties                                                                *)

(* The bookkeeping the presenter blocks on is exact: the counter of each     *)
(* display is the number of its compositions in the queue, through the       *)
(* re-queueing of drop mode and the resets of ClearDisplay().  One           *)
(* decrement too many would wrap the unsigned counter and block the          *)
(* presenter for ever.                                                       *)
CountMatchesQueue == \A d \in Displays : count[d] = Len(queue[d])

(* A presenter blocked in pthread_cond_wait() has a reason to be: its        *)
(* display's queue still is at the limit.  If it were not, the wake-up it    *)
(* needs would already have been lost.                                       *)
BlockedHasReason == sf = "waiting" => QueueFull /\ queue[hand.d] # << >>

(* After ClearDisplay() nothing may linger in any of the compositor's        *)
(* containers until the next push: clear_ promises an empty pipeline.        *)
ClearMeansEmpty == clear_ => Empty

(* A composition is never lost and never in two places: each one created is  *)
(* either released or in exactly one of the presenter's hand, the queue, the *)
(* collect map, its useless list and the active map.                         *)
Places(d, n) ==
  (IF hand.d = d /\ hand.n = n THEN {"hand"} ELSE {})
  \cup {<<"queue", i>> : i \in {j \in DOMAIN queue[d] : queue[d][j] = n}}
  \cup {<<"useless", i>> : i \in {j \in DOMAIN useless[d] : useless[d][j] = n}}
  \cup (IF collect[d] = n THEN {"collect"} ELSE {})
  \cup (IF current[d] = n THEN {"current"} ELSE {})

OnePlace ==
  \A d \in Displays : \A n \in 1..MaxFrames :
    \/ n \in done[d] /\ Places(d, n) = {}
    \/ n > created[d] /\ Places(d, n) = {}
    \/ n \notin done[d] /\ n <= created[d] /\ \E p \in Places(d, n) : Places(d, n) = {p}

(* The stages of the pipeline hold consecutive frames, oldest first: what is *)
(* shown, what is dropped for the collected frame, the collected frame, the  *)
(* queue, the presenter's hand; and nothing else exists beside the released  *)
(* ones.  Releasing is a counter, so this order is what makes it right.      *)
AfterCurrent(d) == timeline[d] + One(current[d])
AfterUseless(d) == AfterCurrent(d) + Len(useless[d])
AfterCollect(d) == AfterUseless(d) + One(collect[d])
AfterQueue(d) == AfterCollect(d) + Len(queue[d])
InHand(d) == hand.d = d /\ hand.n # 0

PipelineInOrder ==
  \A d \in Displays :
    /\ current[d] \in {0, timeline[d] + 1}
    /\ \A i \in DOMAIN useless[d] : useless[d][i] = AfterCurrent(d) + i
    /\ collect[d] \in {0, AfterUseless(d) + 1}
    /\ \A i \in DOMAIN queue[d] : queue[d][i] = AfterCollect(d) + i
    /\ InHand(d) => hand.n = AfterQueue(d) + 1
    /\ created[d] = IF InHand(d) THEN AfterQueue(d) + 1 ELSE AfterQueue(d)

(* Between collecting and retiring, and only there unless the display is     *)
(* being powered off, the collect map holds frames; an inactive compositor   *)
(* holds none once the power-off has cleared it.                             *)
PhasesAgree ==
  /\ ~active_ => sf = "clear" \/ Empty
  /\ sf \in {"lock", "waiting", "woken"} => active_
  /\ hand.n # 0 <=> sf \in {"queue", "lock", "waiting", "woken"}
  /\ \A d \in Displays : useless[d] # << >> => collect[d] # 0
  /\ (\E d \in Displays : collect[d] # 0) =>
       \/ worker = "commit" /\ pset_
       \/ worker \in {"kernel", "retire"}
       \/ worker \in {"tail", "clear"} /\ ~active_ /\ sf = "clear"

(* Release fences signal for the frames that were released, and no others:   *)
(* the timeline stands at n exactly when frames 1 to n have been signalled.  *)
FencesInOrder == \A d \in Displays : done[d] = 1..timeline[d]

(* Out of order or not, no composition advances its timeline twice and none  *)
(* is destroyed without advancing it.                                        *)
SignalledOnce == \A d \in Displays : timeline[d] = Cardinality(done[d])

(* SurfaceFlinger gets a buffer back only when it is off the screen: the     *)
(* fence of the frame being scanned out has not signalled.                   *)
ScreenFenceHeld ==
  \A d \in Displays : screen[d] # 0 => timeline[d] < screen[d]

(* No composition is scanned out after it was released and destroyed.        *)
NoScanoutAfterRelease == \A d \in Displays : screen[d] \notin done[d]

(* What a display shows never goes back to an older frame, blank periods and *)
(* failed commits included: a step that changes what is shown either turns   *)
(* the display off or shows a frame newer than any shown before it, which    *)
(* the frames already released and the current one bound from below.         *)
ScreenMovesForward ==
  [][\A d \in Displays :
       screen'[d] \notin {0, screen[d]} =>
         screen'[d] > screen[d] /\ screen'[d] > current[d]]_vars

(* A presenter that blocks on a full queue goes on eventually.               *)
PresentReturns == (sf = "waiting") ~> (sf = "idle")

(* Every composition gets somewhere: it becomes the current one, or it is    *)
(* released.  A lost Signal() or a forgotten queue entry would break this.   *)
FrameProgress ==
  \A d \in Displays : \A n \in 1..MaxFrames :
    (created[d] >= n) ~> (n \in done[d] \/ current[d] = n)

(* Once the display stays off, every composition created is released: those  *)
(* the front end leaves behind are caught at the end of Composite().         *)
PowerOffDrains == <>[](~active_) => <>[](\A d \in Displays : done[d] = 1..created[d])
=============================================================================
