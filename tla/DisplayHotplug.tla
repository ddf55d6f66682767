--------------------------- MODULE DisplayHotplug ---------------------------
(***************************************************************************)
(* Who binds and releases the CRTCs: the initialization of the displays,    *)
(* the uevent listener (DrmHotplugHandler), the hotplug EventWorker and      *)
(* SurfaceFlinger's thread.  Each call of a DrmDevice function is a step, as *)
(* mRecursiveMutex is dropped between two of them; the pending events are    *)
(* behind the worker's own lock.                                            *)
(***************************************************************************)
EXTENDS DrmDevice, FiniteSetsExt

CONSTANTS
  BootCrtcs,  \* what the boot loader may have left in the kernel
  EarlyCable, \* may a cable move before the displays are initialized
  Bounce,     \* may a cable move again before the uevent of the last move is read
  MaxCable,   \* bound: times a cable is plugged or pulled
  MaxSetting, \* bound: times the user chooses another mode
  MaxPower    \* bound: times SurfaceFlinger switches a display on or off

ASSUME HotplugAssumption ==
  /\ BootCrtcs \subseteq [Displays -> Crtcs \cup {NoCrtc}]
  /\ EarlyCable \in BOOLEAN /\ Bounce \in BOOLEAN
  /\ MaxCable \in Nat /\ MaxSetting \in Nat /\ MaxPower \in Nat

VARIABLES
  dev,         \* the bookkeeping of DrmDevice, and the kernel's side of it
  plug,        \* conn->plug_
  cable,       \* is a sink attached to the connector
  setting,     \* the mode persist.vendor.resolution.* asks for
  stale,       \* displays whose current mode GetCurrentDisplayMode() renews
  uevent,      \* the kernel has sent a hotplug uevent not yet handled
  pending,     \* mMapPendingEvent_
  batch,       \* local_pending_event of the worker
  worker, job, \* the worker: where it is, and the event it handles
  sf, call,    \* SurfaceFlinger's thread: where it is, and its call
  registered,  \* mHasRegisterDisplay_: what SurfaceFlinger knows
  power,       \* mPowerMode_
  needSync,    \* bNeedSyncPMState_
  inited,      \* init_success_
  booting,     \* the displays HwcDisplay::Init() has yet to run for
  refused,     \* history: a call that binds or switches a display has failed
  cables, settings, powers  \* bounds

connectors == <<plug, state, hotplug>>
system == <<dev, connectors>>
world == <<cable, setting, uevent>>
events == <<pending, batch>>
work == <<worker, job>>
flinger == <<sf, call>>
power_mode == <<power, needSync>>
life == <<inited, booting, refused>>
bounds == <<cables, settings, powers>>
vars == <<system, world, stale, events, work, flinger, registered, power_mode, life,
          bounds>>

Events == [d : Displays, user : BOOLEAN, connected : BOOLEAN, changed : BOOLEAN]

Jobs == [d : Displays, user : BOOLEAN, connected : BOOLEAN, changed : BOOLEAN,
         rescan : BOOLEAN, primary : Displays \cup {NoDisplay},
         mirror : {"no", "primary", "external"}, externals : SUBSET Displays]

NoJob == [d |-> 0, user |-> FALSE, connected |-> FALSE, changed |-> FALSE,
          rescan |-> FALSE, primary |-> NoDisplay, mirror |-> "no", externals |-> {}]

NoCall == [d |-> 0, mirror |-> "no", externals |-> {}, on |-> TRUE]

TypeOK ==
  /\ dev \in Device
  /\ state \in [Displays -> BOOLEAN] /\ hotplug \in [Displays -> BOOLEAN]
  /\ plug \in [Displays -> BOOLEAN]
  /\ cable \in [Displays -> BOOLEAN]
  /\ setting \in [Displays -> Modes]
  /\ stale \subseteq Displays
  /\ uevent \in BOOLEAN
  /\ pending \subseteq Events
  /\ batch \subseteq Events
  /\ worker \in {"init", "idle", "next", "event", "update", "externals", "post", "mode",
                 "bind", "crtc", "sync", "power", "unplug", "release", "primary", "rescan"}
  /\ job \in Jobs
  /\ sf \in {"idle", "update", "externals", "post", "power"}
  /\ call \in [d : Displays, mirror : {"no", "primary", "external"},
               externals : SUBSET Displays, on : BOOLEAN]
  /\ registered \subseteq Displays
  /\ power \in [Displays -> BOOLEAN]
  /\ needSync \subseteq Displays
  /\ inited \subseteq Displays /\ booting \subseteq Displays /\ refused \in BOOLEAN
  /\ cables \in Nat /\ settings \in Nat /\ powers \in Nat

Init ==
  /\ cable \in [Displays -> BOOLEAN]
  /\ setting \in [Displays -> Modes]
  /\ state = cable /\ hotplug = cable
  /\ plug \in [Displays -> BOOLEAN]  \* the constructor leaves it uninitialized
  /\ \E k \in BootCrtcs :
       dev = [owner |-> [c \in Crtcs |-> NoDisplay],
              bound |-> k,
              mirrorOf |-> [d \in Displays |-> NoDisplay],
              mirrors |-> [d \in Displays |-> {}],
              current |-> [d \in Displays |-> NoMode],
              active |-> [d \in Displays |-> NoMode],
              boot |-> k,
              planes |-> [c \in Crtcs |-> NoDisplay],
              kernel |-> k]
  /\ stale = Displays
  /\ uevent = FALSE
  /\ pending = {} /\ batch = {}
  /\ worker = "init" /\ job = NoJob
  /\ sf = "idle" /\ call = NoCall
  /\ registered = {}
  /\ power = [d \in Displays |-> TRUE]
  /\ needSync = {}
  /\ inited = {} /\ booting = Displays /\ refused = FALSE
  /\ cables = 0 /\ settings = 0 /\ powers = 0

-----------------------------------------------------------------------------
(* The world: cables, and the user's choice of a mode.                       *)

Cable(d) ==
  /\ EarlyCable \/ worker # "init"
  /\ Bounce \/ hotplug[d] = cable[d]
  /\ cables < MaxCable
  /\ cables' = cables + 1
  /\ cable' = [cable EXCEPT ![d] = ~@]
  /\ uevent' = TRUE
  /\ UNCHANGED <<system, setting, stale, events, work, flinger, registered, power_mode,
                 life, settings, powers>>

(* The property and vendor.display.timeline change: every display looks.     *)
ChooseMode(d, m) ==
  /\ settings < MaxSetting
  /\ m # setting[d]
  /\ settings' = settings + 1
  /\ setting' = [setting EXCEPT ![d] = m]
  /\ stale' = Displays
  /\ UNCHANGED <<system, cable, uevent, events, work, flinger, registered, power_mode,
                 life, cables, powers>>

-----------------------------------------------------------------------------
(* Pieces of the handlers                                                    *)

UpdateModes(d) == state' = [state EXCEPT ![d] = cable[d]]

(* A display whose timeline moved takes the chosen mode, and a primary gives *)
(* its externals theirs.                                                     *)
GetCurrentDisplayMode(s, d, due) ==
  LET renewed == IF d \in due
                 THEN {d} \cup (IF IsMirrorPrimary(s, d) THEN s.mirrors[d] ELSE {})
                 ELSE {}
  IN  [s EXCEPT !.current = [x \in Displays |-> IF x \in renewed THEN setting[x]
                                                ELSE s.current[x]]]

(* SendDrmEvent(): one event per display and type; a later one replaces it.  *)
SendDrmEvent(queue, e) ==
  LET same == {x \in queue : x.d = e.d /\ x.user = e.user}
  IN  (queue \ same)
        \cup {[e EXCEPT !.changed = \E x \in same : x.connected # e.connected]}

Event(d, user, connected) ==
  [d |-> d, user |-> user, connected |-> connected, changed |-> FALSE]

Role(s, d) ==
  IF IsMirrorPrimary(s, d) THEN "primary" ELSE IF IsMirror(s, d) THEN "external" ELSE "no"

(* HwcDisplay::UpdateDisplayMode() remembers the mirror d is in (c), switches *)
(* d's mode, and then looks what became of the mirror.  An external that left *)
(* it and has a CRTC is to be announced ...                                   *)
Remember(c, s, d) ==
  [c EXCEPT !.d = d, !.mirror = Role(s, d),
            !.externals = IF IsMirrorPrimary(s, d) THEN s.mirrors[d] ELSE {}]

AnnounceLeft(queue, s, m) ==
  IF ~IsMirror(s, m) /\ state[m] /\ GetCrtcForDisplay(s, m) # NoCrtc
  THEN SendDrmEvent(queue, Event(m, TRUE, TRUE)) ELSE queue

(* ... and a display that became one is to be taken from SurfaceFlinger.      *)
WithdrawJoined(queue, c) ==
  IF c.mirror = "no" /\ IsMirror(dev, c.d)
  THEN SendDrmEvent(queue, Event(c.d, TRUE, FALSE)) ELSE queue

(* The head of SetPowerMode(On): the cable and the chosen mode are read.      *)
Renew(d, on) ==
  IF on THEN /\ UpdateModes(d)
             /\ dev' = GetCurrentDisplayMode(dev, d, Displays)
             /\ stale' = stale \ {d}
  ELSE UNCHANGED <<dev, state, stale>>

(* HandleDisplayHotplug(): SurfaceFlinger never loses its primary display.   *)
Register(d, connected) ==
  IF connected THEN registered \cup {d}
  ELSE IF d = 0 THEN registered ELSE registered \ {d}

-----------------------------------------------------------------------------
(* Boot: HwcDisplay::Init() runs for one display after the other.            *)

InitDisplay ==
  /\ worker = "init" /\ booting # {}
  /\ LET d == Min(booting)
         s == GetCurrentDisplayMode(dev, d, stale)
     IN  /\ booting' = booting \ {d}
         /\ IF state[d]
            THEN /\ stale' = stale \ {d}
                 /\ \E r \in BindDpyRes(s, d) :
                      /\ dev' = r.dev /\ refused' = (refused \/ ~r.ok)
                      /\ IF r.ok /\ GetCrtcForDisplay(r.dev, d) # NoCrtc
                         THEN /\ inited' = inited \cup {d}
                              /\ UpdateModes(d)
                              /\ hotplug' = [hotplug EXCEPT ![d] = cable[d]]
                         ELSE UNCHANGED <<inited, state, hotplug>>
            ELSE UNCHANGED <<dev, state, hotplug, stale, inited, refused>>
  /\ UNCHANGED <<plug, world, events, work, flinger, registered, power_mode, bounds>>

(* SurfaceFlinger registers its callbacks and the worker may call it back.   *)
Start ==
  /\ worker = "init" /\ booting = {}
  /\ registered' = {0} \cup {d \in Displays :
                      state[d] /\ GetCrtcForDisplay(dev, d) # NoCrtc}
  /\ worker' = "idle"
  /\ UNCHANGED <<system, world, stale, events, job, flinger, power_mode, life, bounds>>

-----------------------------------------------------------------------------
(* The uevent listener compares every connector's state with the last seen,  *)
(* one after the other, and queues an event for each that moved.             *)
HandleUevent ==
  /\ uevent /\ booting = {}
  /\ LET moved == {d \in Displays : hotplug[d] # cable[d]}
         d == Min(moved)
     IN  /\ uevent' = (moved # {} /\ moved # {d})
         /\ IF moved = {} THEN UNCHANGED <<hotplug, pending>>
            ELSE /\ hotplug' = [hotplug EXCEPT ![d] = cable[d]]
                 /\ pending' = SendDrmEvent(pending, Event(d, FALSE, cable[d]))
  /\ UNCHANGED <<dev, plug, state, cable, setting, stale, batch, work, flinger, registered,
                 power_mode, life, bounds>>

-----------------------------------------------------------------------------
(* The event worker                                                          *)

\* Mutant of TakeEvents: one event is taken and the map is emptied.
TakeOneEvent ==
  /\ worker = "idle" /\ pending # {}
  /\ \E e \in pending : batch' = {e}
  /\ pending' = {}
  /\ worker' = "next"
  /\ UNCHANGED <<system, world, stale, job, flinger, registered, power_mode, life,
                 bounds>>

(* Routine() empties the map and handles what it took in the map's order.    *)
TakeEvents ==
  /\ worker = "idle" /\ pending # {}
  /\ batch' = pending /\ pending' = {}
  /\ worker' = "next"
  /\ UNCHANGED <<system, world, stale, job, flinger, registered, power_mode, life,
                 bounds>>

NextEvent ==
  /\ worker = "next"
  /\ \/ /\ batch = {}
        /\ worker' = "idle" /\ job' = NoJob
        /\ UNCHANGED batch
     \/ \E e \in batch :
          /\ \A x \in batch : e.d < x.d \/ (e.d = x.d /\ (x.user \/ ~e.user))
          /\ batch' = batch \ {e}
          /\ worker' = "event"
          /\ job' = [NoJob EXCEPT !.d = e.d, !.user = e.user, !.connected = e.connected,
                                  !.changed = e.changed]
  /\ UNCHANGED <<system, world, stale, pending, flinger, registered, power_mode, life,
                 bounds>>

\* Mutant of DrmEvent: the event is compared with the state before UpdateModes().
DrmEventStale ==
  /\ worker = "event" /\ ~job.user
  /\ UpdateModes(job.d)
  /\ IF job.connected # state[job.d]
     THEN worker' = "next" /\ UNCHANGED stale
     ELSE IF job.connected THEN worker' = "mode" /\ stale' = stale \cup {job.d}
     ELSE worker' = "unplug" /\ UNCHANGED stale
  /\ UNCHANGED <<dev, plug, hotplug, world, events, job, flinger, registered, power_mode, life,
                 bounds>>

(* HandleDrmHotplugEvent(): an event the cable has overtaken is skipped.     *)
DrmEvent ==
  /\ worker = "event" /\ ~job.user
  /\ UpdateModes(job.d)
  /\ \/ /\ job.connected # cable[job.d]
        /\ worker' = "next"
        /\ UNCHANGED stale
     \/ /\ job.connected /\ cable[job.d]
        /\ stale' = stale \cup {job.d}
        /\ worker' = "mode"
     \/ /\ ~job.connected /\ ~cable[job.d]
        /\ worker' = "unplug"
        /\ UNCHANGED stale
  /\ UNCHANGED <<dev, plug, hotplug, world, events, job, flinger, registered, power_mode, life,
                 bounds>>

(* HandleUserHotplugEvent(): UpdateDisplayMode(), then CheckStateAndReinit(). *)
UserEvent ==
  /\ worker = "event" /\ job.user
  /\ \/ /\ job.connected
        /\ dev' = GetCurrentDisplayMode(dev, job.d, Displays)
        /\ stale' = stale \ {job.d}
        /\ job' = Remember(job, dev, job.d)
        /\ worker' = "update"
        /\ UNCHANGED registered
     \/ /\ ~job.connected
        /\ registered' = Register(job.d, FALSE)
        /\ worker' = "next"
        /\ UNCHANGED <<dev, stale, job>>
  /\ UNCHANGED <<connectors, world, events, flinger, power_mode, life, bounds>>

UserUpdate ==
  /\ worker = "update"
  /\ \E r \in UpdateDisplayMode(dev, job.d) :
       dev' = r.dev /\ refused' = (refused \/ ~r.ok)
  /\ worker' = IF job.mirror = "primary" THEN "externals" ELSE "post"
  /\ UNCHANGED <<connectors, world, stale, events, job, flinger, registered, power_mode,
                 inited, booting, bounds>>

UserExternals ==
  /\ worker = "externals"
  /\ IF job.externals = {}
     THEN /\ worker' = "mode" /\ job' = [job EXCEPT !.mirror = "no"]
          /\ UNCHANGED <<dev, pending, refused>>
     ELSE LET m == Min(job.externals)
          IN  /\ job' = [job EXCEPT !.externals = @ \ {m}]
              /\ \E r \in UpdateDisplayMode(dev, m) :
                   /\ dev' = r.dev /\ refused' = (refused \/ ~r.ok)
                   /\ pending' = AnnounceLeft(pending, r.dev, m)
              /\ UNCHANGED worker
  /\ UNCHANGED <<connectors, world, stale, batch, flinger, registered, power_mode, inited, booting, bounds>>

UserPost ==
  /\ worker = "post"
  /\ worker' = "mode" /\ job' = [job EXCEPT !.mirror = "no"]
  /\ pending' = WithdrawJoined(pending, job)
  /\ UNCHANGED <<system, world, stale, batch, flinger, registered, power_mode, life, bounds>>

After == IF job.rescan THEN "rescan" ELSE "next"

(* CheckStateAndReinit()                                                     *)
PlugMode ==
  /\ worker = "mode"
  /\ \/ /\ state[job.d]
        /\ dev' = GetCurrentDisplayMode(dev, job.d, stale)
        /\ stale' = stale \ {job.d}
        /\ worker' = "bind"
     \/ /\ ~state[job.d]
        /\ worker' = After
        /\ UNCHANGED <<dev, stale>>
  /\ UNCHANGED <<connectors, world, events, job, flinger, registered, power_mode, life,
                 bounds>>

PlugBind ==
  /\ worker = "bind"
  /\ \E r \in BindDpyRes(dev, job.d) :
       /\ dev' = r.dev /\ refused' = (refused \/ ~r.ok)
       /\ worker' = IF r.ok THEN "crtc" ELSE After
  /\ UNCHANGED <<connectors, world, stale, events, job, flinger, registered, power_mode,
                 inited, booting, bounds>>

(* A display without a CRTC of its own, as an external, is not announced.    *)
PlugAnnounce ==
  /\ worker = "crtc"
  /\ \/ /\ GetCrtcForDisplay(dev, job.d) # NoCrtc
        /\ inited' = inited \cup {job.d}
        /\ registered' = Register(job.d, TRUE)
        /\ needSync' = IF job.changed /\ ~job.user THEN needSync \cup {job.d} ELSE needSync
        /\ worker' = IF job.user THEN "next" ELSE "sync"
     \/ /\ GetCrtcForDisplay(dev, job.d) = NoCrtc
        /\ worker' = After
        /\ UNCHANGED <<inited, registered, needSync>>
  /\ UNCHANGED <<system, world, stale, events, job, flinger, power, booting, refused, bounds>>

(* SyncPowerMode(), and the modes SetPowerMode(On) renews first.             *)
PlugSync ==
  /\ worker = "sync"
  /\ IF job.d \in needSync
     THEN /\ worker' = "power"
          /\ Renew(job.d, power[job.d])
     ELSE /\ worker' = After
          /\ UNCHANGED <<dev, state, stale>>
  /\ UNCHANGED <<plug, hotplug, world, events, job, flinger, registered, power_mode, life,
                 bounds>>

PlugPower ==
  /\ worker = "power"
  /\ worker' = After
  /\ \E r \in SetPowerMode(dev, job.d, power[job.d]) :
       /\ dev' = r.dev
       /\ needSync' = IF r.ok THEN needSync \ {job.d} ELSE needSync
  /\ UNCHANGED <<connectors, world, stale, events, job, flinger, registered, power, life,
                 bounds>>

(* What is done for a pulled cable depends on the mirror the display is in.  *)
Unplug ==
  /\ worker = "unplug"
  /\ job' = [job EXCEPT !.mirror = Role(dev, job.d), !.primary = dev.mirrorOf[job.d]]
  /\ worker' = "release"
  /\ UNCHANGED <<system, world, stale, events, flinger, registered, power_mode, life,
                 bounds>>

UnplugRelease ==
  /\ worker = "release"
  /\ \E r \in ReleaseDpyRes(dev, job.d) :
       /\ dev' = r.dev
       /\ registered' = IF r.ok /\ job.mirror = "no" THEN Register(job.d, FALSE)
                        ELSE registered
       /\ worker' = IF job.mirror = "no" THEN "rescan"
                    ELSE IF r.ok /\ job.mirror = "external" /\ job.primary > 0
                         THEN "primary" ELSE "next"
  /\ UNCHANGED <<connectors, world, stale, events, job, flinger, power_mode, life, bounds>>

(* The last external is gone: so is a primary that was unplugged before it.  *)
UnplugPrimary ==
  /\ worker = "primary"
  /\ worker' = "next"
  /\ LET p == job.primary
     IN  IF ~hotplug[p] /\ ~IsMirror(dev, p)
         THEN \E r \in ReleaseDpyRes(dev, p) :
                /\ dev' = r.dev
                /\ registered' = IF r.ok THEN Register(p, FALSE) ELSE registered
         ELSE UNCHANGED <<dev, registered>>
  /\ UNCHANGED <<connectors, world, stale, events, job, flinger, power_mode, life, bounds>>

(* After an unplug the connected displays that wait for a CRTC try again.    *)
Rescan ==
  /\ worker = "rescan"
  /\ LET waiting == {d \in Displays : state[d] /\ plug[d] /\ (job.rescan => job.d < d)}
     IN  IF waiting = {}
         THEN /\ worker' = "next"
              /\ UNCHANGED <<plug, stale, job>>
         ELSE LET d == Min(waiting)
              IN  /\ plug' = [plug EXCEPT ![d] = FALSE]
                  /\ stale' = stale \cup {d}
                  /\ job' = [job EXCEPT !.d = d, !.rescan = TRUE, !.changed = FALSE]
                  /\ worker' = "mode"
  /\ UNCHANGED <<dev, state, hotplug, world, events, flinger, registered, power_mode, life,
                 bounds>>

-----------------------------------------------------------------------------
(* SurfaceFlinger's thread                                                   *)

(* ValidateDisplay() calls HwcDisplay::UpdateDisplayMode().                  *)
SfValidate(d) ==
  /\ sf = "idle" /\ d \in registered \cap inited
  /\ dev' = GetCurrentDisplayMode(dev, d, stale)
  /\ stale' = stale \ {d}
  /\ call' = Remember(NoCall, dev, d)
  /\ sf' = "update"
  /\ UNCHANGED <<connectors, world, events, work, registered, power_mode, life, bounds>>

SfUpdate ==
  /\ sf = "update"
  /\ \E r \in UpdateDisplayMode(dev, call.d) :
       dev' = r.dev /\ refused' = (refused \/ ~r.ok)
  /\ sf' = IF call.mirror = "primary" THEN "externals" ELSE "post"
  /\ UNCHANGED <<connectors, world, stale, events, work, call, registered, power_mode, inited, booting,
                 bounds>>

SfExternals ==
  /\ sf = "externals"
  /\ IF call.externals = {}
     THEN /\ sf' = "idle" /\ call' = NoCall
          /\ UNCHANGED <<dev, pending, refused>>
     ELSE LET m == Min(call.externals)
          IN  /\ call' = [call EXCEPT !.externals = @ \ {m}]
              /\ \E r \in UpdateDisplayMode(dev, m) :
                   /\ dev' = r.dev /\ refused' = (refused \/ ~r.ok)
                   /\ pending' = AnnounceLeft(pending, r.dev, m)
              /\ UNCHANGED sf
  /\ UNCHANGED <<connectors, world, stale, batch, work, registered, power_mode, inited, booting, bounds>>

SfPost ==
  /\ sf = "post"
  /\ sf' = "idle" /\ call' = NoCall
  /\ pending' = WithdrawJoined(pending, call)
  /\ UNCHANGED <<system, world, stale, batch, work, registered, power_mode, life,
                 bounds>>

(* A display that is not initialized yet only remembers the power mode.      *)
SfPower(d, on) ==
  /\ sf = "idle" /\ d \in registered
  /\ powers < MaxPower /\ powers' = powers + 1
  /\ power' = [power EXCEPT ![d] = on]
  /\ \/ /\ d \in inited
        /\ Renew(d, on)
        /\ call' = [NoCall EXCEPT !.d = d, !.on = on]
        /\ sf' = "power"
        /\ UNCHANGED needSync
     \/ /\ d \notin inited
        /\ needSync' = needSync \cup {d}
        /\ UNCHANGED <<dev, state, stale, flinger>>
  /\ UNCHANGED <<plug, hotplug, world, events, work, registered, life, cables, settings>>

SfSetPower ==
  /\ sf = "power"
  /\ \E r \in SetPowerMode(dev, call.d, call.on) : dev' = r.dev
  /\ sf' = "idle" /\ call' = NoCall
  /\ UNCHANGED <<connectors, world, stale, events, work, registered, power_mode, life, bounds>>

-----------------------------------------------------------------------------

WorldStep ==
  \/ \E d \in Displays : Cable(d)
  \/ \E d \in Displays, m \in Modes : ChooseMode(d, m)

BootStep == InitDisplay \/ Start

WorkerStep ==
  \/ TakeEvents \/ NextEvent \/ DrmEvent \/ UserEvent
  \/ UserUpdate \/ UserExternals \/ UserPost
  \/ PlugMode \/ PlugBind \/ PlugAnnounce \/ PlugSync \/ PlugPower
  \/ Unplug \/ UnplugRelease \/ UnplugPrimary \/ Rescan

SfCallStep == SfUpdate \/ SfExternals \/ SfPost \/ SfSetPower

SfStep ==
  \/ \E d \in Displays : SfValidate(d)
  \/ \E d \in Displays, on \in BOOLEAN : SfPower(d, on)
  \/ SfCallStep

Next == WorldStep \/ BootStep \/ HandleUevent \/ WorkerStep \/ SfStep

Spec == Init /\ [][Next]_vars

(* The threads go on with what they have begun; SurfaceFlinger, the user and *)
(* the cables owe nothing.                                                   *)
Fairness ==
  /\ WF_vars(BootStep) /\ WF_vars(HandleUevent) /\ WF_vars(WorkerStep)
  /\ WF_vars(SfCallStep)

FairSpec == Spec /\ Fairness

-----------------------------------------------------------------------------
(* Properties                                                                *)

(* Where each connector has a CRTC of its own: what the kernel scans a        *)
(* display out with is what HWC has it bound to, so replacing the boot        *)
(* loader's choice, releasing, binding anew after merged events and switching *)
(* power leave no connector on a CRTC that HWC has forgotten.  Until the      *)
(* displays are initialized the boot loader's choice stands.  Where displays  *)
(* share CRTCs it does not hold (RebindReleasesFirst).                        *)
KernelFollows ==
  booting = {} => \A d \in Displays :
    dev.kernel[d] # NoCrtc => dev.bound[d] = dev.kernel[d]

(* The comment at CheckKernelCrtcNeedRelease() (drmdevice.cpp:2111): a        *)
(* connector that the kernel has on one CRTC is released from it before it is *)
(* bound to another.                                                          *)
RebindReleasesFirst ==
  \A d \in Displays : dev.bound[d] # NoCrtc => dev.kernel[d] \in {NoCrtc, dev.bound[d]}

(* Where each connector has a CRTC of its own: encoder->crtc() and            *)
(* crtc->display() tell the same story.  A display that is bound owns its     *)
(* CRTC, and one that was released, by HWC or off the boot loader's CRTC, or  *)
(* whose commit was refused half way, owns none it is not bound to.           *)
OwnersMatch ==
  booting = {} => \A d \in Displays :
    dev.boot[d] = NoCrtc /\ ~IsMirror(dev, d)
      => {c \in Crtcs : dev.owner[c] = d} = {dev.bound[d]} \ {NoCrtc}

(* A mirror is a star on which both ends agree: the externals of a primary    *)
(* are exactly the displays that name it, and a primary names itself; no      *)
(* handler leaves a connector mirroring one that does not know of it.         *)
MirrorsAgree ==
  \A d, p \in Displays : d # p =>
    /\ dev.mirrorOf[d] = p <=> d \in dev.mirrors[p]
    /\ dev.mirrorOf[d] = p => IsMirrorPrimary(dev, p)

(* The planes of c would be committed for a display that does not own it.     *)
Stray(c) == dev.planes[c] # NoDisplay /\ dev.owner[c] # dev.planes[c]

(* The compositor never commits planes for a display that lost their CRTC:    *)
(* whether it was released, lost to another display or left for another, the *)
(* planes went along.  Only a bind or a mode switch that failed half way may  *)
(* leave them with the display before, and never on a CRTC nobody owns.       *)
PlanesWithOwner ==
  \A c \in Crtcs : Stray(c) => refused /\ dev.owner[c] # NoDisplay

(* A change of a cable the uevent handler has seen is not forgotten: until    *)
(* HWC's own state agrees there is an event for the display, waiting, taken   *)
(* or being handled, or another uevent to come.                               *)
ChangeIsAwaited ==
  booting = {} => \A d \in Displays : hotplug[d] # state[d] =>
    \/ uevent
    \/ \E e \in pending \cup batch : e.d = d /\ ~e.user
    \/ worker = "event" /\ job.d = d /\ ~job.user

(* Once the cables rest, SurfaceFlinger knows exactly the connected displays, *)
(* whatever happened before and however the events were merged.               *)
RegisteredFollowsCable ==
  <>[](\A d \in Displays \ {0} : d \in registered <=> cable[d])

(* Once the cables rest, every connected display has a CRTC.                  *)
ConnectedGetsCrtc ==
  <>[](\A d \in Displays : cable[d] => dev.bound[d] # NoCrtc)
=============================================================================
