------------------------ MODULE DisplayHotplug_proofs ------------------------
(***************************************************************************)
(* Proofs about hotplug, for any number of displays and CRTCs and any       *)
(* bounds.  No change of a cable is forgotten, whatever the connectors      *)
(* share, if cables do not bounce.  And where each connector has a CRTC of  *)
(* its own, as most device trees route them, the device's bookkeeping, the  *)
(* kernel and the planes agree, whichever commits fail, however the         *)
(* threads interleave and whatever the boot loader left behind.             *)
(***************************************************************************)
EXTENDS DisplayHotplug, WellFoundedInduction, TLAPS

(***************************************************************************)
(* Changes of the cables.                                                  *)
(***************************************************************************)

(* An event for d waits, is taken or is being handled.                       *)
Tells(e, d) == e.d = d /\ ~e.user
Awaited(d) ==
  \/ \E e \in pending \cup batch : Tells(e, d)
  \/ worker = "event" /\ Tells(job, d)

(* As long as the uevent handler has not seen a move there is a uevent; what *)
(* it has seen agrees with the state unless an event comes.                  *)
AwaitedInv ==
  /\ state \in [Displays -> BOOLEAN] /\ hotplug \in [Displays -> BOOLEAN]
  /\ cable \in [Displays -> BOOLEAN]
  /\ worker \in {"init", "idle"} => batch = {}
  /\ uevent \/ hotplug = cable
  /\ \A d \in Displays : hotplug[d] = cable[d] /\ state[d] # hotplug[d] => Awaited(d)

(* An event sent to the worker is there, and so are those of other displays  *)
(* and types.                                                                *)
LEMMA EventIsSent ==
  ASSUME NEW queue, NEW d, NEW user, NEW connected
  PROVE  LET q == SendDrmEvent(queue, Event(d, user, connected))
         IN  /\ \E e \in q : e.d = d /\ e.user = user
             /\ \A x \in queue : x.d # d \/ x.user # user => x \in q
<1> DEFINE q == SendDrmEvent(queue, Event(d, user, connected))
           same == {x \in queue : x.d = d /\ x.user = user}
           changed == \E x \in same : x.connected # connected
           e == [d |-> d, user |-> user, connected |-> connected, changed |-> changed]
<1>1. q = (queue \ same) \cup {e}
  BY DEF SendDrmEvent, Event
<1>2. e \in q /\ e.d = d /\ e.user = user
  BY <1>1
<1> QED BY <1>1, <1>2

(* The first of the displays that moved is one of them.                      *)
LEMMA MinIn == ASSUME NEW S \in SUBSET Displays, S # {} PROVE Min(S) \in S
<1>0. S \subseteq Nat
  BY DeviceAssumption DEF DeviceAssumption
<1>1. PICK t \in S : \A u \in S : ~(<<u, t>> \in OpToRel(<, Nat))
  BY <1>0, NatLessThanWellFounded, WFMin, Zenon
<1>2. ASSUME NEW u \in S PROVE t <= u
  <2>1. u \in Nat /\ t \in Nat
    BY <1>0
  <2>2. ASSUME u < t PROVE FALSE
    <3>1. <<u, t>> \in OpToRel(<, Nat)
      BY <2>1, <2>2 DEF OpToRel
    <3> QED BY <1>1, <3>1
  <2> QED BY <2>1, <2>2
<1> QED BY <1>2 DEF Min

LEMMA AwaitedInit == ASSUME Init PROVE AwaitedInv
  BY DEF Init, AwaitedInv

(* What leaves the events, the cables and what HWC knows of them alone.      *)
LEMMA AwaitedKept ==
  ASSUME AwaitedInv,
         UNCHANGED <<state, hotplug, cable, uevent, pending, batch>>,
         \/ worker' = worker /\ job' = job
         \/ (worker # "event" \/ job.user) /\ worker' \notin {"init", "idle", "event"}
  PROVE  AwaitedInv'
<1>1. ASSUME NEW d \in Displays, Awaited(d) PROVE Awaited(d)'
  BY <1>1 DEF Awaited, Tells
<1> QED BY <1>1 DEF AwaitedInv

(* What reads a cable, and what a handled event leads to.                    *)
LEMMA AwaitedRead ==
  ASSUME AwaitedInv, NEW d, UpdateModes(d),
         UNCHANGED <<hotplug, cable, uevent, pending, batch>>,
         \/ worker' = worker /\ job' = job
         \/ worker' \notin {"init", "idle", "event"} /\ (worker # "event" \/ job.d = d)
  PROVE  AwaitedInv'
<1>1. ASSUME NEW e \in Displays, e # d, Awaited(e) PROVE Awaited(e)'
  BY <1>1 DEF Awaited, Tells
<1>2. /\ state' \in [Displays -> BOOLEAN]
      /\ d \in Displays => state'[d] = cable[d]
      /\ \A e \in Displays : e # d => state'[e] = state[e]
  BY DEF UpdateModes, AwaitedInv
<1>3. ASSUME NEW e \in Displays, hotplug'[e] = cable'[e], state'[e] # hotplug'[e]
      PROVE  Awaited(e)'
  BY <1>1, <1>2, <1>3 DEF AwaitedInv
<1>4. worker' \in {"init", "idle"} => batch' = {}
  BY DEF AwaitedInv
<1> QED BY <1>2, <1>3, <1>4 DEF AwaitedInv

(* An event for a user takes no event of a cable away.                       *)
LEMMA AwaitedSent ==
  ASSUME AwaitedInv, NEW m, NEW connected,
         pending' = SendDrmEvent(pending, Event(m, TRUE, connected)),
         UNCHANGED <<state, hotplug, cable, uevent, batch>>,
         \/ worker' = worker /\ job' = job
         \/ worker # "event" /\ worker' \notin {"init", "idle", "event"}
  PROVE  AwaitedInv'
<1>1. \A x \in pending : x.user # TRUE => x \in pending'
  BY EventIsSent
<1>2. \A d \in Displays : Awaited(d) => Awaited(d)'
  BY <1>1 DEF Awaited, Tells
<1> QED BY <1>2 DEF AwaitedInv

(* No step forgets a change, if no cable bounces.                            *)
LEMMA AwaitedNext ==
  ASSUME ~Bounce, AwaitedInv, [Next]_vars
  PROVE  AwaitedInv'
<1> USE DEF vars, system, connectors, world, events, work, flinger, power_mode, life, bounds
<1>1. CASE UNCHANGED vars
  BY <1>1, AwaitedKept
<1>2. CASE WorldStep
  <2>1. ASSUME NEW d \in Displays, Cable(d)
        PROVE  AwaitedInv'
    <3>1. \A e \in Displays : Awaited(e) => Awaited(e)'
      BY <2>1 DEF Cable, Awaited, Tells
    <3>2. hotplug[d] = cable[d] /\ cable' = [cable EXCEPT ![d] = ~cable[d]] /\ uevent'
      BY <2>1 DEF Cable
    <3> QED BY <2>1, <3>1, <3>2 DEF AwaitedInv, Cable
  <2>2. ASSUME NEW d \in Displays, NEW m \in Modes, ChooseMode(d, m)
        PROVE  AwaitedInv'
    BY <2>2, AwaitedKept DEF ChooseMode
  <2> QED BY <1>2, <2>1, <2>2 DEF WorldStep
<1>3. CASE InitDisplay
  <2>1. \A e \in Displays : Awaited(e) => Awaited(e)'
    BY <1>3 DEF InitDisplay, Awaited, Tells
  <2>2. /\ UNCHANGED <<cable, uevent, pending, batch, worker, job>>
        /\ \/ UNCHANGED <<state, hotplug>>
           \/ \E d \in Displays \cup {Min(booting)} :
                state' = [state EXCEPT ![d] = cable[d]] /\ hotplug' = [hotplug EXCEPT ![d] = cable[d]]
    BY <1>3 DEF InitDisplay, UpdateModes
  <2> QED BY <2>1, <2>2 DEF AwaitedInv
<1>4. CASE Start
  <2>1. \A e \in Displays : Awaited(e) => Awaited(e)'
    BY <1>4 DEF Start, Awaited, Tells
  <2> QED BY <1>4, <2>1 DEF Start, AwaitedInv
<1>5. CASE HandleUevent
  <2> DEFINE moved == {e \in Displays : hotplug[e] # cable[e]}
             d == Min(moved)
  <2>1. /\ UNCHANGED <<state, cable, batch, worker, job>>
        /\ uevent' = (moved # {} /\ moved # {d})
        /\ \/ moved = {} /\ UNCHANGED <<hotplug, pending>>
           \/ /\ moved # {}
              /\ hotplug' = [hotplug EXCEPT ![d] = cable[d]]
              /\ pending' = SendDrmEvent(pending, Event(d, FALSE, cable[d]))
    BY <1>5 DEF HandleUevent
  <2>2. CASE moved = {}
    <3>1. hotplug = cable
      BY <2>2 DEF AwaitedInv
    <3>2. \A e \in Displays : Awaited(e) => Awaited(e)'
      BY <2>1, <2>2 DEF Awaited, Tells
    <3> QED BY <2>1, <2>2, <3>1, <3>2 DEF AwaitedInv
  <2>3. CASE moved # {}
    <3>1. d \in Displays /\ hotplug[d] # cable[d]
      BY <2>3, MinIn
    <3>2. moved = {d} => \A e \in Displays : e # d => hotplug[e] = cable[e]
      OBVIOUS
    <3> HIDE DEF d, moved
    <3>3. /\ \E e \in pending' : e.d = d /\ e.user = FALSE
          /\ \A x \in pending : x.d # d \/ x.user # FALSE => x \in pending'
      <4>1. pending' = SendDrmEvent(pending, Event(d, FALSE, cable[d]))
        BY <2>1, <2>3
      <4> QED BY <4>1, EventIsSent
    <3>4. /\ hotplug' \in [Displays -> BOOLEAN] /\ hotplug'[d] = cable[d]
          /\ \A e \in Displays : e # d => hotplug'[e] = hotplug[e]
      BY <2>1, <2>3, <3>1 DEF AwaitedInv
    <3>5. uevent' \/ hotplug' = cable'
      BY <2>1, <2>3, <3>2, <3>4 DEF AwaitedInv
    <3>6. ASSUME NEW e \in Displays, hotplug'[e] = cable'[e], state'[e] # hotplug'[e]
          PROVE  Awaited(e)'
      <4>1. CASE e = d
        BY <3>3, <4>1 DEF Awaited, Tells
      <4>2. CASE e # d
        <5>1. Awaited(e)
          BY <2>1, <3>4, <3>6, <4>2 DEF AwaitedInv
        <5> QED BY <2>1, <3>3, <4>2, <5>1 DEF Awaited, Tells
      <4> QED BY <4>1, <4>2
    <3> QED BY <2>1, <3>4, <3>5, <3>6 DEF AwaitedInv
  <2> QED BY <2>2, <2>3
<1>6. CASE WorkerStep
  <2>1. CASE TakeEvents
    <3>1. \A e \in Displays : Awaited(e) => Awaited(e)'
      BY <2>1 DEF TakeEvents, Awaited, Tells, AwaitedInv
    <3> QED BY <2>1, <3>1 DEF TakeEvents, AwaitedInv
  <2>2. CASE NextEvent
    <3>1. \A e \in Displays : Awaited(e) => Awaited(e)'
      <4>1. CASE batch = {} /\ worker' = "idle" /\ UNCHANGED <<batch, pending>>
        BY <2>2, <4>1 DEF NextEvent, Awaited
      <4>2. ASSUME NEW e \in batch, batch' = batch \ {e}, worker' = "event",
                   job' = [NoJob EXCEPT !.d = e.d, !.user = e.user, !.connected = e.connected,
                                        !.changed = e.changed]
            PROVE  \A d \in Displays : Awaited(d) => Awaited(d)'
        <5>1. job'.d = e.d /\ job'.user = e.user
          BY <4>2 DEF NoJob
        <5> QED BY <2>2, <4>2, <5>1 DEF NextEvent, Awaited, Tells
      <4> QED BY <2>2, <4>1, <4>2 DEF NextEvent
    <3>2. worker' = "idle" => batch' = {}
      BY <2>2 DEF NextEvent
    <3>3. worker' # "init"
      BY <2>2 DEF NextEvent
    <3> QED BY <2>2, <3>1, <3>2, <3>3 DEF NextEvent, AwaitedInv
  <2>3. CASE DrmEvent
    BY <2>3, AwaitedRead DEF DrmEvent
  <2>4. CASE UserEvent
    BY <2>4, AwaitedKept DEF UserEvent
  <2>5. CASE UserUpdate
    BY <2>5, AwaitedKept DEF UserUpdate
  <2>6. CASE PlugMode
    BY <2>6, AwaitedKept DEF PlugMode, After
  <2>7. CASE PlugBind
    BY <2>7, AwaitedKept DEF PlugBind, After
  <2>8. CASE PlugAnnounce
    BY <2>8, AwaitedKept DEF PlugAnnounce, After
  <2>9. CASE PlugSync
    BY <2>9, AwaitedKept, AwaitedRead DEF PlugSync, After, Renew
  <2>10. CASE PlugPower
    BY <2>10, AwaitedKept DEF PlugPower, After
  <2>11. CASE Unplug
    BY <2>11, AwaitedKept DEF Unplug
  <2>12. CASE UnplugRelease
    BY <2>12, AwaitedKept DEF UnplugRelease
  <2>13. CASE UnplugPrimary
    BY <2>13, AwaitedKept DEF UnplugPrimary
  <2>14. CASE Rescan
    BY <2>14, AwaitedKept DEF Rescan
  <2>15. CASE UserExternals
    BY <2>15, AwaitedSent, AwaitedKept DEF UserExternals, AnnounceLeft
  <2>16. CASE UserPost
    BY <2>16, AwaitedSent, AwaitedKept DEF UserPost, WithdrawJoined
  <2> QED BY <1>6, <2>1, <2>2, <2>3, <2>4, <2>5, <2>6, <2>7, <2>8, <2>9, <2>10, <2>11,
             <2>12, <2>13, <2>14, <2>15, <2>16 DEF WorkerStep
<1>7. CASE SfStep
  <2>1. ASSUME NEW d \in Displays, SfValidate(d) PROVE AwaitedInv'
    BY <2>1, AwaitedKept DEF SfValidate
  <2>2. ASSUME NEW d \in Displays, NEW on \in BOOLEAN, SfPower(d, on) PROVE AwaitedInv'
    BY <2>2, AwaitedKept, AwaitedRead DEF SfPower, Renew
  <2>3. CASE SfUpdate
    BY <2>3, AwaitedKept DEF SfUpdate
  <2>4. CASE SfSetPower
    BY <2>4, AwaitedKept DEF SfSetPower
  <2>5. CASE SfExternals
    BY <2>5, AwaitedSent, AwaitedKept DEF SfExternals, AnnounceLeft
  <2>6. CASE SfPost
    BY <2>6, AwaitedSent, AwaitedKept DEF SfPost, WithdrawJoined
  <2> QED BY <1>7, <2>1, <2>2, <2>3, <2>4, <2>5, <2>6 DEF SfStep, SfCallStep
<1> QED BY <1>1, <1>2, <1>3, <1>4, <1>5, <1>6, <1>7 DEF Next, BootStep

(* ChangeIsAwaited: unless a cable moves twice before it is looked at        *)
(* (Bounce), every move the uevent handler has seen is in HWC's state or in  *)
(* an event that is still to be handled, whoever reads the cable meanwhile   *)
(* and however events are merged.                                            *)
THEOREM ChangesAreAwaited == ~Bounce /\ Spec => []ChangeIsAwaited
<1> SUFFICES ASSUME ~Bounce PROVE Spec => []ChangeIsAwaited
  OBVIOUS
<1>1. AwaitedInv /\ [Next]_vars => AwaitedInv'
  BY AwaitedNext
<1>2. AwaitedInv => ChangeIsAwaited
  BY DEF AwaitedInv, ChangeIsAwaited, Awaited, Tells
<1> QED BY <1>1, <1>2, AwaitedInit, PTL DEF Spec

(***************************************************************************)
(* CRTCs that serve one connector each.                                    *)
(***************************************************************************)

(* Every connector has a CRTC of its own or none, and the boot loader has lit *)
(* nothing else.                                                              *)
OwnCrtcs ==
  /\ \A d, e \in Displays : \A c \in Possible[d], x \in Possible[e] : c = x <=> d = e
  /\ \A k \in BootCrtcs : \A d \in Displays : k[d] \in Possible[d] \cup {NoCrtc}

DevFields == {"owner", "bound", "mirrorOf", "mirrors", "current", "active", "boot", "planes", "kernel"}

(* The types, what no function does without mirrors, and that a connector is *)
(* only where it can be.                                                     *)
Shape(v) ==
  /\ DOMAIN v = DevFields
  /\ v \in Device
  /\ \A c \in Crtcs : v.owner[c] # NoDisplay => c \in Possible[v.owner[c]]
  /\ \A d \in Displays :
       /\ v.mirrorOf[d] = NoDisplay /\ v.mirrors[d] = {}
       /\ v.bound[d] \in Possible[d] \cup {NoCrtc}
       /\ v.boot[d] \in Possible[d] \cup {NoCrtc}
       /\ v.kernel[d] \in Possible[d] \cup {NoCrtc}

(* A CRTC is owned by the display that is bound to it, and conversely once   *)
(* the boot loader's choice is replaced; what the kernel shows is bound; the *)
(* planes are the owner's.                                                   *)
Agrees(v) ==
  /\ \A c \in Crtcs : v.owner[c] # NoDisplay => v.bound[v.owner[c]] = c
  /\ \A d \in Displays :
       /\ v.bound[d] = NoCrtc => v.kernel[d] = NoCrtc
       /\ v.boot[d] = NoCrtc /\ v.bound[d] # NoCrtc => v.owner[v.bound[d]] = d
  /\ \A c \in Crtcs : v.planes[c] # NoDisplay => v.owner[c] = v.planes[c]

Sound(v) == Shape(v) /\ Agrees(v)

(* What a function makes of v: the boot loader's choice is never taken back. *)
Goes(v, x) ==
  /\ Sound(x)
  /\ \A d \in Displays : v.boot[d] = NoCrtc => x.boot[d] = NoCrtc

(* Outside mirrors no event is for a user, and only displays that were bound *)
(* by HWC itself are presented.                                              *)
Presented ==
  /\ \A e \in pending \cup batch : ~e.user
  /\ ~job.user
  /\ \A d \in inited : dev.boot[d] = NoCrtc
  /\ worker = "crtc" => dev.boot[job.d] = NoCrtc
  /\ worker \notin {"update", "externals", "post", "primary"} /\ sf # "externals"
  /\ worker = "release" => job.mirror = "no"
  /\ sf = "update" => call.d \in inited /\ call.mirror = "no"

RoutedInv == TypeOK /\ Sound(dev) /\ Presented

(***************************************************************************)
(* What the functions of DrmDevice do to such a device.                    *)
(***************************************************************************)

(* A commit moves connectors, or changes nothing.                            *)
LEMMA CommitMoves ==
  ASSUME NEW v, NEW k, NEW on, NEW off, NEW r \in Commit(v, k, on, off)
  PROVE  (r.ok = FALSE /\ r.dev = v) \/ (r.ok = TRUE /\ r.dev = [v EXCEPT !.kernel = k])
<1> DEFINE w == [v EXCEPT !.kernel = k]
<1>1. r = Done(w) \/ r = Failed(v)
  BY DEF Commit
<1> HIDE DEF w
<1>2. (r.ok = FALSE /\ r.dev = v) \/ (r.ok = TRUE /\ r.dev = w)
  BY <1>1 DEF Done, Failed
<1> QED BY <1>2 DEF w

(* They move only to what they are bound to, or off.                         *)
LEMMA MovesSound ==
  ASSUME NEW v, Sound(v), NEW k \in [Displays -> Crtcs \cup {NoCrtc}],
         \A d \in Displays : k[d] \in {NoCrtc, v.bound[d], v.kernel[d]}
  PROVE  Goes(v, [v EXCEPT !.kernel = k])
<1> DEFINE x == [v EXCEPT !.kernel = k]
<1>1. /\ x.owner = v.owner /\ x.bound = v.bound /\ x.mirrorOf = v.mirrorOf /\ x.mirrors = v.mirrors
      /\ x.current = v.current /\ x.active = v.active /\ x.boot = v.boot /\ x.planes = v.planes
      /\ x.kernel = k /\ x \in Device
  BY DEF Sound, Shape, Device
<1> HIDE DEF x
<1>2. Shape(x)
  BY <1>1 DEF Sound, Shape, Device
<1>3. Agrees(x)
  BY <1>1 DEF Sound, Agrees
<1> QED BY <1>1, <1>2, <1>3 DEF Goes, Sound, x

(* A display attached to what it is bound to, or detached.                   *)
LEMMA AttachSound ==
  ASSUME NEW v, Sound(v), NEW d \in Displays, NEW c \in {NoCrtc, v.bound[d]}
  PROVE  Goes(v, [v EXCEPT !.kernel = Attach(v, d, c)])
<1>1. /\ v.kernel \in [Displays -> Crtcs \cup {NoCrtc}]
      /\ v.bound \in [Displays -> Crtcs \cup {NoCrtc}]
  BY DEF Sound, Shape, Device
<1>2. /\ Attach(v, d, c) \in [Displays -> Crtcs \cup {NoCrtc}]
      /\ \A e \in Displays : Attach(v, d, c)[e] \in {NoCrtc, v.bound[e], v.kernel[e]}
  BY <1>1 DEF Attach
<1> QED BY <1>2, MovesSound

LEMMA GoesThrough ==
  ASSUME NEW v, NEW x, NEW y, Goes(v, x), Goes(x, y)
  PROVE  Goes(v, y)
  BY DEF Goes

LEMMA GoesNowhere == ASSUME NEW v, Sound(v) PROVE Goes(v, v)
  BY DEF Goes

(* The planes are those of the owner.                                        *)
LEMMA PlanesSound == ASSUME NEW v, Sound(v) PROVE Goes(v, TryAssignPlane(v))
<1> DEFINE k == [c \in Crtcs |->
                  IF \E d \in Displays : state[d] /\ GetCrtcForDisplay(v, d) = c
                  THEN v.owner[c] ELSE v.planes[c]]
           x == [v EXCEPT !.planes = k]
<1>1. TryAssignPlane(v) = x
  BY DEF TryAssignPlane
<1>2. /\ k \in [Crtcs -> Displays \cup {NoDisplay}]
      /\ \A c \in Crtcs : k[c] \in {v.owner[c], v.planes[c]}
  BY DEF Sound, Shape, Device
<1> HIDE DEF k
<1>3. /\ x.owner = v.owner /\ x.bound = v.bound /\ x.mirrorOf = v.mirrorOf /\ x.mirrors = v.mirrors
      /\ x.current = v.current /\ x.active = v.active /\ x.boot = v.boot /\ x.planes = k
      /\ x.kernel = v.kernel /\ x \in Device
  BY <1>2 DEF Sound, Shape, Device
<1> HIDE DEF x
<1>4. Shape(x)
  BY <1>3 DEF Sound, Shape, Device
<1>5. Agrees(x)
  BY <1>2, <1>3 DEF Sound, Agrees
<1> QED BY <1>1, <1>3, <1>4, <1>5 DEF Goes, Sound

(***************************************************************************)
(* Searching: what is a display's own CRTC is found free.                  *)
(***************************************************************************)
LEMMA OneCandidate ==
  ASSUME OwnCrtcs, NEW v, NEW d \in Displays, v.boot[d] \in Possible[d] \cup {NoCrtc},
         NEW candidates \in SUBSET Possible[d], NEW f \in FirstCandidate(v, d, candidates)
  PROVE  \/ f.ok = FALSE /\ f.dev = v /\ candidates = {}
         \/ f.ok = TRUE /\ f.dev = v /\ f.crtc \in candidates
<1> DEFINE check(c) == CheckKernelCrtcNeedRelease(v, d, c)
           CanFail(c) == \E r \in check(c) : ~r.ok
           reached == {c \in candidates : \A e \in candidates : e < c => CanFail(e)}
<1>1. \A c \in candidates : v.boot[d] \in {NoCrtc, c}
  BY DEF OwnCrtcs
<1>2. \A c \in candidates : check(c) = {Done(v)}
  BY <1>1 DEF CheckKernelCrtcNeedRelease
<1>3. \A c \in candidates : ~CanFail(c)
  BY <1>2 DEF Done
<1>4. \/ \E c \in reached : \E r \in {x \in check(c) : x.ok} :
           f = [dev |-> r.dev, ok |-> TRUE, crtc |-> c]
      \/ (\A c \in candidates : CanFail(c)) /\ f = [dev |-> v, ok |-> FALSE, crtc |-> NoCrtc]
  <2> DEFINE found == UNION {{[dev |-> r.dev, ok |-> TRUE, crtc |-> c] : r \in {x \in check(c) : x.ok}}
                                : c \in reached}
             none == {[dev |-> v, ok |-> FALSE, crtc |-> NoCrtc] :
                        x \in {y \in {TRUE} : \A c \in candidates : CanFail(c)}}
  <2>1. FirstCandidate(v, d, candidates) = found \cup none
    BY DEF FirstCandidate
  <2>2. f \in found \/ f \in none
    <3> HIDE DEF found, none
    <3> QED BY <2>1
  <2> HIDE DEF check, CanFail, reached
  <2> QED BY <2>2
<1>5. CASE \E c \in reached : \E r \in {x \in check(c) : x.ok} :
             f = [dev |-> r.dev, ok |-> TRUE, crtc |-> c]
  <2>1. PICK c \in candidates : \E r \in {x \in check(c) : x.ok} :
             f = [dev |-> r.dev, ok |-> TRUE, crtc |-> c]
    BY <1>5
  <2>2. PICK r \in check(c) : f = [dev |-> r.dev, ok |-> TRUE, crtc |-> c]
    BY <2>1
  <2>3. r = Done(v)
    <3> HIDE DEF check
    <3> QED BY <1>2
  <2>4. r.dev = v
    BY <2>3 DEF Done
  <2> QED BY <2>2, <2>4
<1>6. CASE (\A c \in candidates : CanFail(c)) /\ f = [dev |-> v, ok |-> FALSE, crtc |-> NoCrtc]
  <2>1. candidates = {}
    BY <1>3, <1>6
  <2> QED BY <1>6, <2>1
<1> QED BY <1>4, <1>5, <1>6

Freed(v, d) == [v EXCEPT !.bound = [v.bound EXCEPT ![d] = NoCrtc]]
Taken(v, d, c) ==
  [v EXCEPT !.owner = [v.owner EXCEPT ![c] = d], !.bound = [v.bound EXCEPT ![d] = c]]

LEMMA FreedShape ==
  ASSUME NEW v, Shape(v), NEW d \in Displays
  PROVE  /\ Shape(Freed(v, d)) /\ Freed(v, d).boot = v.boot /\ Freed(v, d).owner = v.owner
         /\ Freed(Freed(v, d), d) = Freed(v, d)
         /\ \A c \in Crtcs : Claim(Freed(v, d), d, c) = Taken(v, d, c)
<1> DEFINE b == [v.bound EXCEPT ![d] = NoCrtc]
           x == [v EXCEPT !.bound = b]
<1>1. b \in [Displays -> Crtcs \cup {NoCrtc}] /\ b[d] = NoCrtc
      /\ \A e \in Displays : b[e] \in {v.bound[e], NoCrtc}
  BY DEF Shape, Device
<1>2. /\ x.owner = v.owner /\ x.bound = b /\ x.mirrorOf = v.mirrorOf /\ x.mirrors = v.mirrors
      /\ x.current = v.current /\ x.active = v.active /\ x.boot = v.boot /\ x.planes = v.planes
      /\ x.kernel = v.kernel /\ x \in Device
  <2> HIDE DEF b
  <2> QED BY <1>1 DEF Shape, Device
<1>3. Shape(x)
  <2> HIDE DEF x, b
  <2> QED BY <1>1, <1>2 DEF Shape, Device
<1>4. [x EXCEPT !.bound = [x.bound EXCEPT ![d] = NoCrtc]] = x
  <2>1. [b EXCEPT ![d] = NoCrtc] = b
    BY <1>1
  <2> QED BY <1>2, <2>1 DEF Device
<1>5. ASSUME NEW c \in Crtcs PROVE Claim(x, d, c) = Taken(v, d, c)
  <2>1. [b EXCEPT ![d] = c] = [v.bound EXCEPT ![d] = c]
    BY DEF Shape, Device
  <2>2. [x.bound EXCEPT ![d] = c] = [v.bound EXCEPT ![d] = c]
    BY <1>2, <2>1
  <2> HIDE DEF b
  <2> QED BY <1>2, <2>2 DEF Claim, Taken, Shape, Device
<1> QED BY <1>2, <1>3, <1>4, <1>5 DEF Freed

(* A CRTC a display may use is nobody else's.                                *)
LEMMA OwnOrFree ==
  ASSUME OwnCrtcs, NEW v, Shape(v), NEW d \in Displays, NEW c \in Possible[d]
  PROVE  v.owner[c] \in {NoDisplay, d}
<1>1. c \in Crtcs
  BY DeviceAssumption DEF DeviceAssumption
<1>2. v.owner[c] \in Displays \cup {NoDisplay}
  BY <1>1 DEF Shape, Device
<1> QED BY <1>1, <1>2 DEF OwnCrtcs, Shape

LEMMA FirstSearch ==
  ASSUME OwnCrtcs, NEW v, Shape(v), NEW d \in Displays, NEW cap,
         NEW r \in FindAvailableCrtcByFirst(v, d, cap)
  PROVE  \/ r.ok = FALSE /\ r.dev = Freed(v, d) /\ (cap = FALSE => Possible[d] = {})
         \/ r.ok = TRUE /\ \E c \in Possible[d] : r.dev = Taken(v, d, c)
<1> DEFINE u == Freed(v, d)
           suitable == {c \in Possible[d] : cap => Capable(c, u.current[d])}
           can_bind == {c \in suitable : MayTake(u, d, c)}
           unused == {c \in suitable : ~Connected(u.owner[c])}
           TakeFree(s, c) == {Done(Claim(s, d, c))}
           TakeUnused(s, c) == {Done(Claim(e, d, c)) : e \in Evict(s, c)}
           free == TakeFirst(u, d, can_bind, TakeFree)
<1>1. u = [v EXCEPT !.bound[d] = NoCrtc]
  BY DEF Freed
<1>2. \E f \in free : r \in (IF f.ok THEN {f} ELSE TakeFirst(u, d, unused, TakeUnused))
  <2>1. FindAvailableCrtcByFirst(v, d, cap)
          = UNION {IF f.ok THEN {f} ELSE TakeFirst(u, d, unused, TakeUnused) : f \in free}
    BY DEF FindAvailableCrtcByFirst, Freed
  <2> HIDE DEF u, suitable, can_bind, unused, free
  <2> QED BY <2>1
<1>3. /\ Shape(u) /\ u.boot = v.boot
      /\ \A c \in Crtcs : Claim(u, d, c) = Taken(v, d, c)
  BY FreedShape
<1>4. u.boot[d] \in Possible[d] \cup {NoCrtc}
  BY <1>3 DEF Shape
<1> HIDE DEF u
<1>5. can_bind = suitable /\ suitable \subseteq Possible[d] /\ unused \subseteq suitable
  <2>1. \A c \in Possible[d] : MayTake(u, d, c)
    BY <1>3, OwnOrFree DEF MayTake
  <2> QED BY <2>1
<1>6. cap = FALSE => suitable = Possible[d]
  OBVIOUS
<1> HIDE DEF suitable, can_bind, unused
<1>7. PICK f \in free : r \in (IF f.ok THEN {f} ELSE TakeFirst(u, d, unused, TakeUnused))
  BY <1>2
<1>8. PICK g \in FirstCandidate(u, d, can_bind) :
        f \in (IF g.ok THEN TakeFree(g.dev, g.crtc) ELSE {Failed(g.dev)})
  BY <1>7 DEF TakeFirst
<1> HIDE DEF free
<1>9. \/ g.ok = FALSE /\ g.dev = u /\ can_bind = {}
      \/ g.ok = TRUE /\ g.dev = u /\ g.crtc \in can_bind
  <2>1. can_bind \in SUBSET Possible[d]
    BY <1>5
  <2> QED BY <1>4, <1>8, <2>1, OneCandidate, Zenon
<1>10. CASE g.ok = FALSE /\ g.dev = u /\ can_bind = {}
  <2>1. f = Failed(u)
    BY <1>8, <1>10
  <2>2. r \in TakeFirst(u, d, unused, TakeUnused)
    BY <1>7, <2>1 DEF Failed
  <2>3. PICK h \in FirstCandidate(u, d, unused) :
          r \in (IF h.ok THEN TakeUnused(h.dev, h.crtc) ELSE {Failed(h.dev)})
    BY <2>2 DEF TakeFirst
  <2>4. h.ok = FALSE /\ h.dev = u
    <3>1. unused \in SUBSET Possible[d] /\ unused = {}
      BY <1>5, <1>10
    <3> QED BY <1>4, <2>3, <3>1, OneCandidate, Zenon
  <2>5. r = Failed(u)
    BY <2>3, <2>4
  <2> QED BY <1>5, <1>6, <1>10, <2>5 DEF Failed, u
<1>11. CASE g.ok = TRUE /\ g.dev = u /\ g.crtc \in can_bind
  <2>1. f = Done(Claim(u, d, g.crtc)) /\ g.crtc \in Possible[d] /\ g.crtc \in Crtcs
    BY <1>5, <1>8, <1>11, DeviceAssumption DEF DeviceAssumption
  <2>2. f = Done(Taken(v, d, g.crtc))
    BY <1>3, <2>1
  <2>3. f.ok = TRUE /\ f.dev = Taken(v, d, g.crtc)
    BY <2>2 DEF Done
  <2>4. r = f
    BY <1>7, <2>3
  <2> QED BY <2>1, <2>3, <2>4
<1> QED BY <1>9, <1>10, <1>11

(* It shows nothing that is not its own.                                     *)
LEMMA MirrorSearch ==
  ASSUME OwnCrtcs, NEW v, Shape(v), NEW d \in Displays,
         NEW r \in FindAvailableCrtcByMirror(v, d)
  PROVE  r.ok = FALSE /\ r.dev = v
<1> DEFINE Fits(c) == LET p == v.owner[c] IN
             /\ p # d /\ Connected(p)
             /\ Capable(c, v.current[d])
             /\ v.active[p] # NoMode /\ v.active[p] = v.current[d]
           candidates == {c \in Possible[d] : d \in RgbSinks /\ Fits(c)}
           Mirror(s, c) == {Done([EnableMirror(s, s.owner[c], d) EXCEPT !.bound[d] = c])}
<1>1. candidates = {}
  BY OwnOrFree DEF Connected
<1>2. r \in TakeFirst(v, d, candidates, Mirror)
  BY DEF FindAvailableCrtcByMirror
<1> HIDE DEF candidates
<1>3. PICK g \in FirstCandidate(v, d, candidates) :
        r \in (IF g.ok THEN Mirror(g.dev, g.crtc) ELSE {Failed(g.dev)})
  BY <1>2 DEF TakeFirst
<1>4. v.boot[d] \in Possible[d] \cup {NoCrtc}
  BY DEF Shape
<1>5. g.ok = FALSE /\ g.dev = v
  <2>1. candidates \in SUBSET Possible[d]
    BY <1>1
  <2>2. \/ g.ok = FALSE /\ g.dev = v /\ candidates = {}
        \/ g.ok = TRUE /\ g.dev = v /\ g.crtc \in candidates
    BY <1>3, <1>4, <2>1, OneCandidate, Zenon
  <2> QED BY <1>1, <2>2
<1> HIDE DEF Mirror
<1>6. r = Failed(v)
  BY <1>3, <1>5
<1> QED BY <1>6 DEF Failed

(* Without any CRTC there is nothing to compete for.                         *)
LEMMA CompeteSearch ==
  ASSUME OwnCrtcs, NEW v, Shape(v), NEW d \in Displays, Possible[d] = {},
         NEW r \in FindAvailableCrtcByCompete(v, d)
  PROVE  r.ok = FALSE /\ r.dev = v
<1> DEFINE Weaker(c) == \/ Priority[d] = 0
                        \/ ~Connected(v.owner[c])
                        \/ Priority[d] < Priority[v.owner[c]]
           candidates == {c \in Possible[d] : Weaker(c)}
           Take(s, c) == {Done(Claim(e, d, c)) : e \in Evict(s, c)}
<1>1. candidates = {}
  OBVIOUS
<1>2. r \in TakeFirst(v, d, candidates, Take)
  BY DEF FindAvailableCrtcByCompete
<1> HIDE DEF candidates
<1>3. PICK g \in FirstCandidate(v, d, candidates) :
        r \in (IF g.ok THEN Take(g.dev, g.crtc) ELSE {Failed(g.dev)})
  BY <1>2 DEF TakeFirst
<1>4. v.boot[d] \in Possible[d] \cup {NoCrtc}
  BY DEF Shape
<1>5. g.ok = FALSE /\ g.dev = v
  <2>1. candidates \in SUBSET Possible[d]
    BY <1>1
  <2>2. \/ g.ok = FALSE /\ g.dev = v /\ candidates = {}
        \/ g.ok = TRUE /\ g.dev = v /\ g.crtc \in candidates
    BY <1>3, <1>4, <2>1, OneCandidate, Zenon
  <2> QED BY <1>1, <2>2
<1> QED BY <1>3, <1>5 DEF Failed

LEMMA CrtcSearch ==
  ASSUME OwnCrtcs, NEW v, Shape(v), NEW d \in Displays, NEW r \in FindAvailableCrtc(v, d)
  PROVE  \/ r.ok = FALSE /\ r.dev = Freed(v, d) /\ Possible[d] = {}
         \/ r.ok = TRUE /\ \E c \in Possible[d] : r.dev = Taken(v, d, c)
<1> DEFINE u == Freed(v, d)
           compete(s) == FindAvailableCrtcByCompete(s, d)
           second(s) == UNION {IF x.ok THEN {x} ELSE compete(x.dev)
                                 : x \in FindAvailableCrtcByFirst(s, d, FALSE)}
           mirror(s) == UNION {IF x.ok THEN {x} ELSE second(x.dev)
                                 : x \in FindAvailableCrtcByMirror(s, d)}
           all == UNION {IF x.ok THEN {x} ELSE mirror(x.dev)
                           : x \in FindAvailableCrtcByFirst(v, d, TRUE)}
<1>1. FindAvailableCrtc(v, d) = all
  BY DEF FindAvailableCrtc
<1>2. Shape(u) /\ Freed(u, d) = u /\ \A c \in Possible[d] : Taken(u, d, c) = Taken(v, d, c)
  <2>1. Shape(u) /\ Freed(u, d) = u
    BY FreedShape
  <2>2. \A c \in Crtcs : Claim(u, d, c) = Taken(v, d, c) /\ Claim(Freed(u, d), d, c) = Taken(u, d, c)
    <3> HIDE DEF u
    <3>1. \A c \in Crtcs : Claim(Freed(u, d), d, c) = Taken(u, d, c)
      BY <2>1, FreedShape
    <3>2. \A c \in Crtcs : Claim(u, d, c) = Taken(v, d, c)
      BY FreedShape DEF u
    <3> QED BY <3>1, <3>2
  <2> HIDE DEF u
  <2> QED BY <2>1, <2>2, DeviceAssumption DEF DeviceAssumption
<1>3. PICK a \in FindAvailableCrtcByFirst(v, d, TRUE) :
        r \in (IF a.ok THEN {a} ELSE mirror(a.dev))
  <2> HIDE DEF mirror
  <2> QED BY <1>1
<1> HIDE DEF u
<1>4. \/ a.ok = FALSE /\ a.dev = u
      \/ a.ok = TRUE /\ \E c \in Possible[d] : a.dev = Taken(v, d, c)
  BY FirstSearch DEF u
<1>5. CASE a.ok = TRUE
  BY <1>3, <1>4, <1>5
<1>6. CASE a.ok = FALSE /\ a.dev = u
  <2>1. PICK b \in FindAvailableCrtcByMirror(u, d) : r \in (IF b.ok THEN {b} ELSE second(b.dev))
    <3> HIDE DEF second
    <3> QED BY <1>3, <1>6
  <2>2. b.ok = FALSE /\ b.dev = u
    BY <1>2, <2>1, MirrorSearch
  <2>3. PICK e \in FindAvailableCrtcByFirst(u, d, FALSE) : r \in (IF e.ok THEN {e} ELSE compete(e.dev))
    <3> HIDE DEF compete
    <3> QED BY <2>1, <2>2
  <2>4. \/ e.ok = FALSE /\ e.dev = Freed(u, d) /\ Possible[d] = {}
        \/ e.ok = TRUE /\ \E c \in Possible[d] : e.dev = Taken(u, d, c)
    BY <1>2, <2>3, FirstSearch
  <2>5. CASE e.ok = TRUE
    BY <1>2, <2>3, <2>4, <2>5
  <2>6. CASE e.ok = FALSE /\ e.dev = u /\ Possible[d] = {}
    <3>1. r \in FindAvailableCrtcByCompete(u, d)
      BY <2>3, <2>6
    <3> QED BY <1>2, <2>6, <3>1, CompeteSearch DEF u
  <2> QED BY <1>2, <2>4, <2>5, <2>6
<1> QED BY <1>4, <1>5, <1>6

(***************************************************************************)
(* Binding and releasing.                                                  *)
(***************************************************************************)
LEMMA TakenSound ==
  ASSUME OwnCrtcs, NEW v, Sound(v), NEW d \in Displays, NEW c \in Possible[d], NEW x,
         x = Taken(v, d, c)
  PROVE  Goes(v, x) /\ x.bound[d] = c /\ x.owner[c] = d
<1> DEFINE b == [v.bound EXCEPT ![d] = c]
           o == [v.owner EXCEPT ![c] = d]
<1>1. c \in Crtcs
  BY DeviceAssumption DEF DeviceAssumption
<1>2. /\ b \in [Displays -> Crtcs \cup {NoCrtc}] /\ b[d] = c
      /\ \A e \in Displays : e # d => b[e] = v.bound[e]
      /\ o \in [Crtcs -> Displays \cup {NoDisplay}] /\ o[c] = d
      /\ \A e \in Crtcs : e # c => o[e] = v.owner[e]
  BY <1>1 DEF Sound, Shape, Device
<1> HIDE DEF b, o
<1>3. /\ x.owner = o /\ x.bound = b /\ x.mirrorOf = v.mirrorOf /\ x.mirrors = v.mirrors
      /\ x.current = v.current /\ x.active = v.active /\ x.boot = v.boot /\ x.planes = v.planes
      /\ x.kernel = v.kernel /\ x \in Device /\ DOMAIN x = DevFields
  BY <1>2 DEF Taken, Sound, Shape, Device, DevFields, b, o
<1>4. v.owner[c] \in {NoDisplay, d}
  BY OwnOrFree DEF Sound
<1>5. Shape(x)
  BY <1>2, <1>3 DEF Sound, Shape, Device
<1>6. d # NoDisplay /\ c # NoCrtc
  BY <1>1, DeviceAssumption DEF DeviceAssumption, NoDisplay, NoCrtc
<1>7. \A e \in Crtcs : x.owner[e] # NoDisplay => x.bound[x.owner[e]] = e
  BY <1>2, <1>3, OwnOrFree DEF Sound, Shape, Agrees, OwnCrtcs, Device
<1>8. Agrees(x)
  BY <1>2, <1>3, <1>4, <1>6, <1>7 DEF Sound, Shape, Agrees, Device, OwnCrtcs
<1> QED BY <1>2, <1>3, <1>5, <1>8 DEF Goes, Sound

LEMMA FreedSound ==
  ASSUME NEW v, Sound(v), NEW d \in Displays, Possible[d] = {}
  PROVE  Freed(v, d) = v
<1>1. v.bound[d] = NoCrtc /\ v.bound \in [Displays -> Crtcs \cup {NoCrtc}]
  BY DEF Sound, Shape, Device
<1>2. [v.bound EXCEPT ![d] = NoCrtc] = v.bound
  BY <1>1
<1> QED BY <1>2 DEF Freed, Sound, Shape, Device

LEMMA CurrentSound ==
  ASSUME NEW v, Sound(v), NEW k \in [Displays -> Modes \cup {NoMode}], NEW x, x = [v EXCEPT !.current = k]
  PROVE  /\ Goes(v, x)
         /\ x.bound = v.bound /\ x.owner = v.owner /\ x.boot = v.boot
<1>1. /\ x.owner = v.owner /\ x.bound = v.bound /\ x.mirrorOf = v.mirrorOf /\ x.mirrors = v.mirrors
      /\ x.current = k /\ x.active = v.active /\ x.boot = v.boot /\ x.planes = v.planes
      /\ x.kernel = v.kernel /\ x \in Device /\ DOMAIN x = DevFields
  BY DEF Sound, Shape, Device, DevFields
<1>2. Shape(x)
  BY <1>1 DEF Sound, Shape
<1>3. Agrees(x)
  BY <1>1 DEF Sound, Agrees
<1> QED BY <1>1, <1>2, <1>3 DEF Goes, Sound

(* A display owns what it is bound to.                                       *)
Owns(v, d) == v.bound[d] # NoCrtc => v.owner[v.bound[d]] = d

LEMMA ShownSound ==
  ASSUME NEW v, Sound(v), NEW d \in Displays, Owns(v, d), NEW x, x = Shown(v, d)
  PROVE  Goes(v, x) /\ x.boot[d] = NoCrtc
<1> DEFINE a == [v.active EXCEPT ![d] = v.current[d]]
           b == [v.boot EXCEPT ![d] = NoCrtc]
<1>1. /\ a \in [Displays -> Modes \cup {NoMode}]
      /\ b \in [Displays -> Crtcs \cup {NoCrtc}] /\ b[d] = NoCrtc
      /\ \A e \in Displays : e # d => b[e] = v.boot[e]
  BY DEF Sound, Shape, Device
<1> HIDE DEF a, b
<1>2. /\ x.owner = v.owner /\ x.bound = v.bound /\ x.mirrorOf = v.mirrorOf /\ x.mirrors = v.mirrors
      /\ x.current = v.current /\ x.active = a /\ x.boot = b /\ x.planes = v.planes
      /\ x.kernel = v.kernel /\ x \in Device /\ DOMAIN x = DevFields
  BY <1>1 DEF Shown, Sound, Shape, Device, DevFields, a, b
<1>3. Shape(x)
  BY <1>1, <1>2 DEF Sound, Shape
<1>4. Agrees(x)
  BY <1>1, <1>2 DEF Sound, Agrees, Owns
<1> QED BY <1>1, <1>2, <1>3, <1>4 DEF Goes, Sound

(* A display switched on where it is bound.                                  *)
LEMMA SwitchSound ==
  ASSUME NEW v, Sound(v), NEW d \in Displays, Owns(v, d), NEW c, c = v.bound[d],
         NEW r \in Show(v, d, c)
  PROVE  Goes(v, r.dev) /\ (r.ok => r.dev.boot[d] = NoCrtc)
<1> DEFINE x == [v EXCEPT !.kernel = Attach(v, d, c)]
<1>1. Goes(v, x) /\ x.bound = v.bound /\ x.owner = v.owner
  <2>1. Goes(v, x)
    BY AttachSound
  <2>2. Attach(v, d, c) \in [Displays -> Crtcs \cup {NoCrtc}]
    BY DEF Sound, Shape, Device, Attach
  <2> QED BY <2>1, <2>2 DEF Sound, Shape, Device
<1> HIDE DEF x
<1>2. PICK t \in Commit(v, Attach(v, d, c), {c}, {}) :
        r \in (IF t.ok THEN {Done(Shown(t.dev, d))} ELSE {t})
  BY DEF Then, Show
<1>3. (t.ok = FALSE /\ t.dev = v) \/ (t.ok = TRUE /\ t.dev = x)
  BY <1>2, CommitMoves DEF x
<1>4. CASE t.ok = FALSE /\ t.dev = v
  BY <1>2, <1>4, GoesNowhere
<1>5. CASE t.ok = TRUE /\ t.dev = x
  <2>1. r = Done(Shown(x, d))
    BY <1>2, <1>5
  <2>2. Goes(x, Shown(x, d)) /\ Shown(x, d).boot[d] = NoCrtc
    BY <1>1, ShownSound DEF Goes, Owns
  <2>3. r.dev = Shown(x, d)
    BY <2>1 DEF Done
  <2> QED BY <1>1, <2>2, <2>3, GoesThrough
<1> QED BY <1>3, <1>4, <1>5

LEMMA BindSound ==
  ASSUME NEW v, Sound(v), NEW d \in Displays, Owns(v, d),
         NEW r \in BindConnectorAndCrtc(v, d, v.bound[d])
  PROVE  Goes(v, r.dev) /\ (r.ok => r.dev.boot[d] = NoCrtc)
<1> DEFINE c == v.bound[d]
<1>1. CASE r = Failed(v)
  BY <1>1, GoesNowhere DEF Failed
<1>2. ASSUME NEW s \in SuitMode(v, d, c), r \in Show(s, d, c)
      PROVE  Goes(v, r.dev) /\ (r.ok => r.dev.boot[d] = NoCrtc)
  <2>1. s = v \/ \E m \in Modes : s = [v EXCEPT !.current = [v.current EXCEPT ![d] = m]]
    BY <1>2 DEF SuitMode
  <2>2. \A m \in Modes : [v.current EXCEPT ![d] = m] \in [Displays -> Modes \cup {NoMode}]
    BY DEF Sound, Shape, Device
  <2>3. Goes(v, s) /\ s.bound = v.bound /\ s.owner = v.owner
    <3>1. CASE s = v
      BY <3>1, GoesNowhere
    <3>2. ASSUME NEW m \in Modes, s = [v EXCEPT !.current = [v.current EXCEPT ![d] = m]]
          PROVE  Goes(v, s) /\ s.bound = v.bound /\ s.owner = v.owner
      BY <2>2, <3>2, CurrentSound
    <3> QED BY <2>1, <3>1, <3>2
  <2>4. Goes(s, r.dev) /\ (r.ok => r.dev.boot[d] = NoCrtc)
    BY <1>2, <2>3, SwitchSound DEF Goes, Owns
  <2> QED BY <2>3, <2>4, GoesThrough
<1>3. r = Failed(v) \/ \E s \in SuitMode(v, d, c) : r \in Show(s, d, c)
  <2>1. BindConnectorAndCrtc(v, d, c)
          = IF v.current[d] = NoMode THEN {Failed(v)} ELSE UNION {Show(s, d, c) : s \in SuitMode(v, d, c)}
    BY DEF BindConnectorAndCrtc
  <2> QED BY <2>1
<1> QED BY <1>1, <1>2, <1>3

LEMMA BindDpyResSound ==
  ASSUME OwnCrtcs, NEW v, Sound(v), NEW d \in Displays, NEW r \in BindDpyRes(v, d)
  PROVE  Goes(v, r.dev) /\ (r.ok => r.dev.boot[d] = NoCrtc)
<1> DEFINE assign(t) == {Done(TryAssignPlane(t))}
           bind(s) == Then(BindConnectorAndCrtc(s, d, s.bound[d]), assign)
<1>1. CASE ~state[d]
  <2>1. r = Failed(v)
    BY <1>1 DEF BindDpyRes
  <2> QED BY <2>1, GoesNowhere DEF Failed
<1>2. CASE state[d]
  <2>1. PICK a \in FindAvailableCrtc(v, d) : r \in (IF a.ok THEN bind(a.dev) ELSE {a})
    <3>1. BindDpyRes(v, d) = Then(FindAvailableCrtc(v, d), bind)
      BY <1>2 DEF BindDpyRes
    <3>2. r \in UNION {IF a.ok THEN bind(a.dev) ELSE {a} : a \in FindAvailableCrtc(v, d)}
      BY <3>1 DEF Then
    <3> HIDE DEF bind
    <3> QED BY <3>2
  <2>2. \/ a.ok = FALSE /\ a.dev = Freed(v, d) /\ Possible[d] = {}
        \/ a.ok = TRUE /\ \E c \in Possible[d] : a.dev = Taken(v, d, c)
    BY <2>1, CrtcSearch DEF Sound
  <2>3. CASE a.ok = FALSE /\ a.dev = Freed(v, d) /\ Possible[d] = {}
    <3>1. r = a /\ a.dev = v
      BY <2>1, <2>3, FreedSound
    <3> QED BY <2>3, <3>1, GoesNowhere
  <2>4. ASSUME NEW c \in Possible[d], a.ok = TRUE, a.dev = Taken(v, d, c)
        PROVE  Goes(v, r.dev) /\ (r.ok => r.dev.boot[d] = NoCrtc)
    <3> DEFINE x == a.dev
    <3>1. Goes(v, x) /\ Owns(x, d)
      BY <2>4, TakenSound DEF Owns
    <3>2. PICK t \in BindConnectorAndCrtc(x, d, x.bound[d]) : r \in (IF t.ok THEN assign(t.dev) ELSE {t})
      <4>1. r \in bind(x)
        BY <2>1, <2>4
      <4>2. r \in UNION {IF t.ok THEN assign(t.dev) ELSE {t} : t \in BindConnectorAndCrtc(x, d, x.bound[d])}
        BY <4>1 DEF Then
      <4> HIDE DEF assign, x
      <4> QED BY <4>2
    <3> HIDE DEF x
    <3>3. Goes(x, t.dev) /\ (t.ok => t.dev.boot[d] = NoCrtc)
      BY <3>1, <3>2, BindSound DEF Goes
    <3>4. CASE t.ok
      <4> DEFINE y == TryAssignPlane(t.dev)
      <4>1. r.dev = y
        BY <3>2, <3>4 DEF Done
      <4>2. Goes(t.dev, y)
        BY <3>3, PlanesSound DEF Goes
      <4>3. y.boot[d] = NoCrtc
        BY <3>3, <3>4, <4>2 DEF Goes
      <4> HIDE DEF y
      <4> QED BY <3>1, <3>3, <4>1, <4>2, <4>3, GoesThrough
    <3>5. CASE ~t.ok
      BY <3>1, <3>2, <3>3, <3>5, GoesThrough
    <3> QED BY <3>4, <3>5
  <2> QED BY <2>2, <2>3, <2>4
<1> QED BY <1>1, <1>2

(* A display that is switched off gives its CRTC and its planes back.        *)
LEMMA UnclaimSound ==
  ASSUME OwnCrtcs, NEW v, Sound(v), NEW d \in Displays, NEW c \in Possible[d], v.kernel[d] = NoCrtc,
         NEW x, x = [Unclaim(v, d, c) EXCEPT !.planes[c] = NoDisplay]
  PROVE  Goes(v, x)
<1> DEFINE o == [v.owner EXCEPT ![c] = NoDisplay]
           b == [v.bound EXCEPT ![d] = NoCrtc]
           k == [v.boot EXCEPT ![d] = NoCrtc]
           p == [v.planes EXCEPT ![c] = NoDisplay]
<1>1. c \in Crtcs
  BY DeviceAssumption DEF DeviceAssumption
<1>2. /\ o \in [Crtcs -> Displays \cup {NoDisplay}] /\ o[c] = NoDisplay
      /\ \A e \in Crtcs : e # c => o[e] = v.owner[e]
      /\ p \in [Crtcs -> Displays \cup {NoDisplay}] /\ p[c] = NoDisplay
      /\ \A e \in Crtcs : e # c => p[e] = v.planes[e]
  BY <1>1 DEF Sound, Shape, Device
<1>3. /\ b \in [Displays -> Crtcs \cup {NoCrtc}] /\ b[d] = NoCrtc
      /\ \A e \in Displays : e # d => b[e] = v.bound[e]
      /\ k \in [Displays -> Crtcs \cup {NoCrtc}] /\ k[d] = NoCrtc
      /\ \A e \in Displays : e # d => k[e] = v.boot[e]
  BY DEF Sound, Shape, Device
<1> HIDE DEF o, b, k, p
<1>4. /\ x.owner = o /\ x.bound = b /\ x.mirrorOf = v.mirrorOf /\ x.mirrors = v.mirrors
      /\ x.current = v.current /\ x.active = v.active /\ x.boot = k /\ x.planes = p
      /\ x.kernel = v.kernel /\ x \in Device /\ DOMAIN x = DevFields
  <2>1. Unclaim(v, d, c) = [v EXCEPT !.owner = o, !.bound = b, !.boot = k]
    BY DEF Unclaim, o, b, k
  <2> DEFINE u == [v EXCEPT !.owner = o, !.bound = b, !.boot = k]
  <2>2. u.planes = v.planes /\ x = [u EXCEPT !.planes = p]
    BY <2>1 DEF p, Sound, Shape, Device
  <2>3. /\ u \in Device /\ u.owner = o /\ u.bound = b /\ u.mirrorOf = v.mirrorOf /\ u.mirrors = v.mirrors
        /\ u.current = v.current /\ u.active = v.active /\ u.boot = k /\ u.kernel = v.kernel
    BY <1>2, <1>3 DEF Sound, Shape, Device
  <2> HIDE DEF u
  <2> QED BY <1>2, <2>2, <2>3 DEF Device, DevFields
<1>5. Shape(x)
  BY <1>2, <1>3, <1>4 DEF Sound, Shape
<1>6. d # NoDisplay /\ \A e \in Displays : v.bound[e] = c => e = d
  BY DeviceAssumption, <1>1 DEF DeviceAssumption, NoDisplay, NoCrtc, Sound, Shape, OwnCrtcs
<1>7. \A e \in Crtcs : v.owner[e] = d => e = c
  BY <1>1, <1>6 DEF Sound, Shape, OwnCrtcs
<1>8. v.owner \in [Crtcs -> Displays \cup {NoDisplay}] /\ v.bound \in [Displays -> Crtcs \cup {NoCrtc}]
  BY DEF Sound, Shape, Device
<1>9. \A e \in Crtcs : x.owner[e] # NoDisplay => x.bound[x.owner[e]] = e
  BY <1>2, <1>3, <1>4, <1>7, <1>8 DEF Sound, Agrees
<1>10. ASSUME NEW e \in Displays
       PROVE  /\ x.bound[e] = NoCrtc => x.kernel[e] = NoCrtc
              /\ x.boot[e] = NoCrtc /\ x.bound[e] # NoCrtc => x.owner[x.bound[e]] = e
  BY <1>2, <1>3, <1>4, <1>6, <1>8 DEF Sound, Agrees
<1>11. Agrees(x)
  BY <1>2, <1>4, <1>9, <1>10 DEF Sound, Agrees
<1> QED BY <1>3, <1>4, <1>5, <1>11 DEF Goes, Sound

LEMMA NoMirror ==
  ASSUME NEW v, Sound(v), NEW d \in Displays
  PROVE  ~IsMirror(v, d) /\ ~IsMirrorPrimary(v, d) /\ v.mirrorOf[d] = NoDisplay /\ v.mirrors[d] = {}
  BY DeviceAssumption DEF Sound, Shape, IsMirror, IsMirrorPrimary, DeviceAssumption, NoDisplay

LEMMA ReleaseNormalSound ==
  ASSUME OwnCrtcs, NEW v, Sound(v), NEW d \in Displays, NEW c \in Possible[d],
         NEW r \in ReleaseDpyResByNormal(v, d, c)
  PROVE  Goes(v, r.dev)
<1> DEFINE x == [v EXCEPT !.kernel = Attach(v, d, NoCrtc)]
           unclaim(s) == {Done([Unclaim(s, d, c) EXCEPT !.planes[c] = NoDisplay])}
<1>1. Goes(v, x) /\ x.kernel[d] = NoCrtc
  <2>1. Goes(v, x)
    BY AttachSound
  <2>2. x.kernel[d] = NoCrtc
    BY DEF Sound, Shape, Device, Attach
  <2> QED BY <2>1, <2>2
<1> HIDE DEF x
<1>2. PICK t \in Commit(v, Attach(v, d, NoCrtc), {}, {c}) : r \in (IF t.ok THEN unclaim(t.dev) ELSE {t})
  <2>1. r \in UNION {IF t.ok THEN unclaim(t.dev) ELSE {t} : t \in Commit(v, Attach(v, d, NoCrtc), {}, {c})}
    BY DEF Then, ReleaseDpyResByNormal
  <2> HIDE DEF unclaim
  <2> QED BY <2>1
<1>3. (t.ok = FALSE /\ t.dev = v) \/ (t.ok = TRUE /\ t.dev = x)
  BY <1>2, CommitMoves DEF x
<1>4. CASE t.ok = FALSE /\ t.dev = v
  BY <1>2, <1>4, GoesNowhere
<1>5. CASE t.ok = TRUE /\ t.dev = x
  <2> DEFINE y == [Unclaim(x, d, c) EXCEPT !.planes[c] = NoDisplay]
  <2>1. r = Done(y)
    BY <1>2, <1>5
  <2>2. Goes(x, y)
    <3>1. Sound(x) /\ y = [Unclaim(x, d, c) EXCEPT !.planes[c] = NoDisplay]
      BY <1>1 DEF Goes
    <3> HIDE DEF y
    <3> QED BY <1>1, <3>1, UnclaimSound
  <2> HIDE DEF y
  <2>3. r.dev = y
    BY <2>1 DEF Done
  <2> QED BY <1>1, <2>2, <2>3, GoesThrough
<1> QED BY <1>3, <1>4, <1>5

LEMMA ReleaseSound ==
  ASSUME OwnCrtcs, NEW v, Sound(v), NEW d \in Displays, NEW r \in ReleaseDpyRes(v, d)
  PROVE  Goes(v, r.dev)
<1> DEFINE released == IF v.bound[d] = NoCrtc THEN {Done(v)} ELSE ReleaseAny(v, d, v.bound[d])
           assign(t) == {Done(TryAssignPlane(t))}
<1>1. PICK t \in released : r \in (IF t.ok THEN assign(t.dev) ELSE {t})
  <2>1. r \in UNION {IF t.ok THEN assign(t.dev) ELSE {t} : t \in released}
    BY DEF Then, ReleaseDpyRes
  <2> HIDE DEF assign, released
  <2> QED BY <2>1
<1>2. Goes(v, t.dev)
  <2>1. CASE v.bound[d] = NoCrtc
    BY <1>1, <2>1, GoesNowhere DEF Done
  <2>2. CASE v.bound[d] # NoCrtc
    <3>1. v.bound[d] \in Possible[d] /\ t \in ReleaseDpyResByNormal(v, d, v.bound[d])
      BY <1>1, <2>2, NoMirror DEF ReleaseAny, Sound, Shape
    <3> QED BY <3>1, ReleaseNormalSound
  <2> QED BY <2>1, <2>2
<1>3. CASE t.ok
  <2>1. r.dev = TryAssignPlane(t.dev)
    BY <1>1, <1>3 DEF Done
  <2>2. Goes(t.dev, TryAssignPlane(t.dev))
    BY <1>2, PlanesSound DEF Goes
  <2> QED BY <1>2, <2>1, <2>2, GoesThrough
<1>4. CASE ~t.ok
  BY <1>1, <1>2, <1>4
<1> QED BY <1>3, <1>4

(***************************************************************************)
(* Modes and power.                                                        *)
(***************************************************************************)
LEMMA OwnsBound ==
  ASSUME NEW v, Sound(v), NEW d \in Displays, v.boot[d] = NoCrtc
  PROVE  Owns(v, d)
  BY DEF Sound, Agrees, Owns

LEMMA UpdateModeSound ==
  ASSUME OwnCrtcs, NEW v, Sound(v), NEW d \in Displays, v.boot[d] = NoCrtc,
         NEW r \in UpdateDisplayMode(v, d)
  PROVE  Goes(v, r.dev)
<1> DEFINE c == v.bound[d]
           note(u) == {Done(Shown(u, d))}
           bind(t) == Then(BindDpyRes(t, d), note)
           rebind(s) == Then(ReleaseDpyRes(s, d), bind)
           next(s) == IF Capable(c, s.current[d]) THEN Show(s, d, c) ELSE rebind(s)
           x == [v EXCEPT !.kernel = v.kernel]
<1>1. r = Done(v) \/ r \in UpdateDisplayModeNormal(v, d)
  BY NoMirror DEF UpdateDisplayMode
<1>2. CASE r = Done(v)
  BY <1>2, GoesNowhere DEF Done
<1>3. CASE r \in UpdateDisplayModeNormal(v, d)
  <2>1. PICK s \in Commit(v, v.kernel, {}, {}) : r \in (IF s.ok THEN next(s.dev) ELSE {s})
    <3>1. UpdateDisplayModeNormal(v, d) = Then(Commit(v, v.kernel, {}, {}), next)
      BY DEF UpdateDisplayModeNormal
    <3>2. r \in UNION {IF s.ok THEN next(s.dev) ELSE {s} : s \in Commit(v, v.kernel, {}, {})}
      BY <1>3, <3>1 DEF Then
    <3> HIDE DEF next
    <3> QED BY <3>2
  <2>2. Goes(v, x) /\ x.bound = v.bound
    <3>1. /\ v.kernel \in [Displays -> Crtcs \cup {NoCrtc}] /\ x.bound = v.bound
      BY DEF Sound, Shape, Device
    <3> QED BY <3>1, MovesSound
  <2>3. (s.ok = FALSE /\ s.dev = v) \/ (s.ok = TRUE /\ s.dev = x)
    BY <2>1, CommitMoves
  <2> HIDE DEF x
  <2>4. CASE s.ok = FALSE /\ s.dev = v
    BY <2>1, <2>4, GoesNowhere
  <2>5. CASE s.ok = TRUE /\ s.dev = x
    <3>1. Sound(x) /\ x.boot[d] = NoCrtc
      BY <2>2 DEF Goes
    <3>2. r \in next(x)
      BY <2>1, <2>5
    <3>3. CASE r \in Show(x, d, c)
      <4>1. Goes(x, r.dev)
        BY <2>2, <3>1, <3>3, OwnsBound, SwitchSound
      <4> QED BY <2>2, <4>1, GoesThrough
    <3>4. CASE r \in rebind(x)
      <4>1. PICK t \in ReleaseDpyRes(x, d) : r \in (IF t.ok THEN bind(t.dev) ELSE {t})
        <5>1. r \in UNION {IF t.ok THEN bind(t.dev) ELSE {t} : t \in ReleaseDpyRes(x, d)}
          BY <3>4 DEF Then
        <5> HIDE DEF bind
        <5> QED BY <5>1
      <4>2. Goes(v, t.dev)
        BY <2>2, <3>1, <4>1, ReleaseSound, GoesThrough
      <4>3. CASE ~t.ok
        BY <4>1, <4>2, <4>3
      <4>4. CASE t.ok
        <5> DEFINE y == t.dev
        <5>1. PICK u \in BindDpyRes(y, d) : r \in (IF u.ok THEN note(u.dev) ELSE {u})
          <6>1. r \in bind(y)
            BY <4>1, <4>4
          <6>2. r \in UNION {IF u.ok THEN note(u.dev) ELSE {u} : u \in BindDpyRes(y, d)}
            BY <6>1 DEF Then
          <6> HIDE DEF note, y
          <6> QED BY <6>2
        <5> HIDE DEF y
        <5>2. Sound(y) /\ y.boot[d] = NoCrtc
          BY <4>2 DEF Goes, y
        <5>3. Goes(y, u.dev)
          BY <5>1, <5>2, BindDpyResSound
        <5>4. Goes(v, u.dev) /\ Owns(u.dev, d)
          BY <4>2, <5>2, <5>3, OwnsBound, GoesThrough DEF Goes, y
        <5>5. CASE ~u.ok
          BY <5>1, <5>4, <5>5
        <5>6. CASE u.ok
          <6> DEFINE z == Shown(u.dev, d)
          <6>1. Goes(u.dev, z)
            BY <5>4, ShownSound DEF Goes
          <6> HIDE DEF z
          <6>2. r.dev = z
            BY <5>1, <5>6 DEF Done, z
          <6> QED BY <5>4, <6>1, <6>2, GoesThrough
        <5> QED BY <5>5, <5>6
      <4> QED BY <4>3, <4>4
    <3> QED BY <3>2, <3>3, <3>4
  <2> QED BY <2>3, <2>4, <2>5
<1> QED BY <1>1, <1>2, <1>3

LEMMA PowerSound ==
  ASSUME OwnCrtcs, NEW v, Sound(v), NEW d \in Displays, NEW on, NEW r \in SetPowerMode(v, d, on)
  PROVE  Goes(v, r.dev)
<1> DEFINE c == v.bound[d]
           k == [x \in Displays |->
                   IF x = d \/ (IsMirror(v, d) /\ x \in Partners(v, d)) THEN c ELSE v.kernel[x]]
           a == Attach(v, d, NoCrtc)
           On(s) == IF IsMirror(v, d) THEN [s EXCEPT !.active[d] = s.current[d]] ELSE s
           powered(s) == {Done(On(s))}
<1>1. ~IsMirror(v, d)
  BY NoMirror
<1>2. /\ k \in [Displays -> Crtcs \cup {NoCrtc}]
      /\ \A e \in Displays : k[e] \in {NoCrtc, v.bound[e], v.kernel[e]}
  BY <1>1 DEF Sound, Shape, Device
<1>3. CASE r = Failed(v)
  BY <1>3, GoesNowhere DEF Failed
<1>4. CASE r \in Then(Commit(v, k, {c}, {}), powered)
  <2>1. r \in UNION {IF s.ok THEN powered(s.dev) ELSE {s} : s \in Commit(v, k, {c}, {})}
    BY <1>4 DEF Then
  <2> HIDE DEF k, c
  <2>2. PICK s \in Commit(v, k, {c}, {}) : r \in (IF s.ok THEN powered(s.dev) ELSE {s})
    <3> HIDE DEF powered
    <3> QED BY <2>1
  <2> DEFINE x == [v EXCEPT !.kernel = k]
  <2>3. s.dev = v \/ s.dev = x
    <3>1. s = Done(x) \/ s = Failed(v)
      BY <2>2 DEF Commit
    <3> HIDE DEF x
    <3> QED BY <3>1 DEF Done, Failed
  <2>4. r.dev = s.dev
    BY <1>1, <2>2 DEF Done
  <2> QED BY <1>2, <2>3, <2>4, MovesSound, GoesNowhere
<1>5. CASE r \in Commit(v, a, {}, {c})
  <2>1. Goes(v, [v EXCEPT !.kernel = a])
    BY AttachSound
  <2> HIDE DEF a, c
  <2> DEFINE x == [v EXCEPT !.kernel = a]
  <2>2. r = Done(x) \/ r = Failed(v)
    BY <1>5 DEF Commit
  <2> HIDE DEF x
  <2>3. r.dev = v \/ r.dev = x
    BY <2>2 DEF Done, Failed
  <2> QED BY <2>1, <2>3, GoesNowhere DEF x
<1>6. CASE on
  <2>1. SetPowerMode(v, d, on) = IF ~Usable(v, d) \/ (IsMirror(v, d) /\ ~IsMirrorPrimary(v, d))
                                 THEN {Failed(v)} ELSE Then(Commit(v, k, {c}, {}), powered)
    BY <1>6 DEF SetPowerMode, DoPowerOn
  <2> HIDE DEF k, c, powered
  <2> QED BY <1>3, <1>4, <2>1
<1>7. CASE ~on
  <2>1. r = Failed(v) \/ r \in Commit(v, a, {}, {c})
    BY <1>1, <1>7 DEF SetPowerMode, DoPowerOff
  <2> HIDE DEF a, c
  <2> QED BY <1>3, <1>5, <2>1
<1> QED BY <1>6, <1>7

(***************************************************************************)
(* The threads.                                                            *)
(***************************************************************************)
LEMMA RenewSound ==
  ASSUME RoutedInv, NEW d \in Displays, NEW due, NEW x, x = GetCurrentDisplayMode(dev, d, due)
  PROVE  Goes(dev, x)
<1> DEFINE renewed == IF d \in due
                      THEN {d} \cup (IF IsMirrorPrimary(dev, d) THEN dev.mirrors[d] ELSE {})
                      ELSE {}
           k == [y \in Displays |-> IF y \in renewed THEN setting[y] ELSE dev.current[y]]
<1>1. k \in [Displays -> Modes \cup {NoMode}]
  BY DEF RoutedInv, TypeOK, Device
<1>2. x = [dev EXCEPT !.current = k]
  BY DEF GetCurrentDisplayMode
<1> HIDE DEF k
<1> QED BY <1>1, <1>2, CurrentSound DEF RoutedInv

(* The types of everything but the device.                                   *)
LEMMA SentTyped ==
  ASSUME NEW queue \in SUBSET Events, NEW d \in Displays, NEW user \in BOOLEAN, NEW connected \in BOOLEAN
  PROVE  /\ SendDrmEvent(queue, Event(d, user, connected)) \in SUBSET Events
         /\ \A e \in SendDrmEvent(queue, Event(d, user, connected)) :
              e \in queue \/ e.user = user
<1> DEFINE same == {x \in queue : x.d = d /\ x.user = user}
           changed == \E x \in same : x.connected # connected
           e == [d |-> d, user |-> user, connected |-> connected, changed |-> changed]
<1>1. SendDrmEvent(queue, Event(d, user, connected)) = (queue \ same) \cup {e}
  BY DEF SendDrmEvent, Event
<1>2. changed \in BOOLEAN
  OBVIOUS
<1> HIDE DEF changed, same
<1>3. e \in Events /\ e.user = user
  BY <1>2 DEF Events
<1> HIDE DEF e
<1> QED BY <1>1, <1>3

(***************************************************************************)
(* The invariant.                                                          *)
(***************************************************************************)
LEMMA RoutedInit == ASSUME OwnCrtcs, Init PROVE RoutedInv
<1>1. PICK k \in BootCrtcs :
        dev = [owner |-> [c \in Crtcs |-> NoDisplay], bound |-> k,
               mirrorOf |-> [d \in Displays |-> NoDisplay],
               mirrors |-> [d \in Displays |-> {}],
               current |-> [d \in Displays |-> NoMode], active |-> [d \in Displays |-> NoMode],
               boot |-> k, planes |-> [c \in Crtcs |-> NoDisplay], kernel |-> k]
  BY DEF Init
<1>2. /\ k \in [Displays -> Crtcs \cup {NoCrtc}]
      /\ \A d \in Displays : k[d] \in Possible[d] \cup {NoCrtc}
  BY HotplugAssumption DEF HotplugAssumption, OwnCrtcs
<1>3. dev \in Device
  BY <1>1, <1>2 DEF Device
<1>4. Shape(dev)
  BY <1>1, <1>2, <1>3 DEF Shape, DevFields
<1>5. \A d \in Displays : NoCrtc \notin Possible[d] /\ Possible[d] \subseteq Crtcs
  BY DeviceAssumption DEF DeviceAssumption, NoCrtc
<1>6. Agrees(dev)
  BY <1>1, <1>2, <1>5 DEF Agrees
<1>7. TypeOK
  BY <1>3, DeviceAssumption DEF Init, TypeOK, DeviceAssumption, NoJob, NoCall, Jobs
<1> QED BY <1>4, <1>6, <1>7 DEF RoutedInv, Sound, Presented, Init, NoJob

(* What a step that leaves the device alone, or moves it soundly, keeps.     *)
LEMMA DeviceTyped ==
  ASSUME NEW x, Goes(dev, x)
  PROVE  x \in Device /\ Sound(x)
  BY DEF Goes, Sound, Shape

LEMMA StillBooted ==
  ASSUME RoutedInv, NEW x, Goes(dev, x)
  PROVE  /\ \A d \in inited : x.boot[d] = NoCrtc
         /\ worker = "crtc" => x.boot[job.d] = NoCrtc
<1>1. inited \subseteq Displays /\ job.d \in Displays
  BY DEF RoutedInv, TypeOK, Jobs
<1> QED BY <1>1 DEF RoutedInv, Presented, Goes

LEMMA InitDisplayRouted == ASSUME OwnCrtcs, RoutedInv, InitDisplay PROVE RoutedInv'
<1> DEFINE d == Min(booting)
           s == GetCurrentDisplayMode(dev, d, stale)
<1>1. d \in Displays
  BY MinIn DEF RoutedInv, TypeOK, InitDisplay
<1>2. Goes(dev, s)
  BY <1>1, RenewSound
<1>3. /\ worker = "init" /\ booting' = booting \ {d}
      /\ UNCHANGED <<plug, world, events, work, flinger, registered, power_mode, bounds>>
      /\ refused' = refused \/ refused' \in BOOLEAN
      /\ \/ /\ stale' = stale \ {d}
            /\ \E r \in BindDpyRes(s, d) :
                 /\ dev' = r.dev
                 /\ \/ /\ r.ok
                       /\ inited' = inited \cup {d}
                       /\ state' = [state EXCEPT ![d] = cable[d]]
                       /\ hotplug' = [hotplug EXCEPT ![d] = cable[d]]
                    \/ UNCHANGED <<inited, state, hotplug>>
         \/ UNCHANGED <<dev, state, hotplug, stale, inited>>
  BY DEF InitDisplay, UpdateModes
<1> HIDE DEF d, s
<1>4. /\ Goes(dev, dev')
      /\ inited' = inited \/ (inited' = inited \cup {d} /\ dev'.boot[d] = NoCrtc)
      /\ state' = state \/ state' = [state EXCEPT ![d] = cable[d]]
      /\ hotplug' = hotplug \/ hotplug' = [hotplug EXCEPT ![d] = cable[d]]
      /\ stale' = stale \/ stale' = stale \ {d}
  <2>1. CASE UNCHANGED <<dev, state, hotplug, stale, inited>>
    BY <2>1, GoesNowhere DEF RoutedInv
  <2>2. ASSUME NEW r \in BindDpyRes(s, d), dev' = r.dev
        PROVE  Goes(dev, dev') /\ (r.ok => dev'.boot[d] = NoCrtc)
    <3>1. Goes(s, r.dev) /\ (r.ok => r.dev.boot[d] = NoCrtc)
      BY <1>1, <1>2, <2>2, BindDpyResSound DEF Goes
    <3> QED BY <1>2, <2>2, <3>1, GoesThrough
  <2> QED BY <1>3, <2>1, <2>2
<1>5. dev' \in Device /\ Sound(dev')
  BY <1>4, DeviceTyped
<1>6. TypeOK'
  BY <1>1, <1>3, <1>4, <1>5 DEF RoutedInv, TypeOK, world, events, work, flinger, power_mode, bounds
<1>7. Presented'
  BY <1>3, <1>4, StillBooted DEF RoutedInv, Presented, world, events, work, flinger, power_mode, bounds
<1> QED BY <1>5, <1>6, <1>7 DEF RoutedInv

LEMMA WorkerRouted == ASSUME OwnCrtcs, RoutedInv, WorkerStep PROVE RoutedInv'
<1> USE DEF system, connectors, world, events, work, flinger, power_mode, life, bounds
<1>1. job.d \in Displays /\ ~job.user /\ job \in Jobs /\ job.rescan \in BOOLEAN
  BY DEF RoutedInv, TypeOK, Jobs, Presented
<1>2. Goes(dev, dev)
  BY GoesNowhere DEF RoutedInv
<1>3. NoJob \in Jobs /\ ~NoJob.user /\ NoJob.mirror = "no"
  BY DeviceAssumption DEF NoJob, Jobs, DeviceAssumption
<1>4. After \in {"rescan", "next"}
  BY DEF After
<1>5. CASE TakeEvents
  <2>1. TypeOK' /\ Presented'
    BY <1>5, <1>2, StillBooted DEF TakeEvents, RoutedInv, TypeOK, Presented
  <2> QED BY <1>5, <2>1 DEF TakeEvents, RoutedInv
<1>6. CASE NextEvent
  <2>1. UNCHANGED <<system, world, stale, pending, flinger, registered, power_mode, life, bounds>>
    BY <1>6 DEF NextEvent
  <2>2. /\ batch' \subseteq batch /\ job' \in Jobs /\ ~job'.user
        /\ worker' \in {"idle", "event"}
    <3>1. CASE batch = {} /\ worker' = "idle" /\ job' = NoJob /\ UNCHANGED batch
      BY <3>1, <1>3
    <3>2. ASSUME NEW e \in batch, batch' = batch \ {e}, worker' = "event",
                 job' = [NoJob EXCEPT !.d = e.d, !.user = e.user, !.connected = e.connected,
                                      !.changed = e.changed]
          PROVE  batch' \subseteq batch /\ job' \in Jobs /\ ~job'.user
      <4>1. e \in Events /\ ~e.user
        BY DEF RoutedInv, TypeOK, Presented
      <4>2. job' = [d |-> e.d, user |-> e.user, connected |-> e.connected, changed |-> e.changed,
                    rescan |-> FALSE, primary |-> NoDisplay, mirror |-> "no", externals |-> {}]
        BY <3>2 DEF NoJob
      <4>3. job' \in Jobs
        BY <4>1, <4>2 DEF Jobs, Events
      <4>4. job'.user = e.user
        BY <4>2
      <4> QED BY <3>2, <4>1, <4>3, <4>4
    <3> QED BY <1>6, <3>1, <3>2 DEF NextEvent
  <2>3. TypeOK' /\ Presented'
    BY <2>1, <2>2, <1>2, StillBooted DEF RoutedInv, TypeOK, Presented
  <2> QED BY <2>1, <2>3 DEF RoutedInv
<1>7. CASE DrmEvent
  <2>1. /\ UNCHANGED <<dev, plug, hotplug, world, events, job, flinger, registered, power_mode, life, bounds>>
        /\ state' = [state EXCEPT ![job.d] = cable[job.d]]
        /\ stale' = stale \/ stale' = stale \cup {job.d}
        /\ worker' \in {"next", "mode", "unplug"}
    BY <1>7 DEF DrmEvent, UpdateModes
  <2>2. TypeOK' /\ Presented'
    BY <2>1, <1>1, <1>2, StillBooted DEF RoutedInv, TypeOK, Presented
  <2> QED BY <2>1, <2>2 DEF RoutedInv
<1>8. CASE UserEvent
  BY <1>8, <1>1 DEF UserEvent
<1>9. CASE UserUpdate
  BY <1>9 DEF UserUpdate, RoutedInv, Presented
<1>19. CASE UserExternals
  BY <1>19 DEF UserExternals, RoutedInv, Presented
<1>20. CASE UserPost
  BY <1>20 DEF UserPost, RoutedInv, Presented
<1>10. CASE PlugMode
  <2>1. /\ UNCHANGED <<connectors, world, events, job, flinger, registered, power_mode, life, bounds>>
        /\ worker' \in {"bind", "rescan", "next"}
        /\ stale' \subseteq stale
        /\ dev' = dev \/ dev' = GetCurrentDisplayMode(dev, job.d, stale)
    BY <1>10, <1>4 DEF PlugMode
  <2>2. Goes(dev, dev')
    BY <2>1, <1>1, <1>2, RenewSound
  <2>3. TypeOK' /\ Presented'
    BY <2>1, <2>2, DeviceTyped, StillBooted DEF RoutedInv, TypeOK, Presented
  <2> QED BY <2>2, <2>3, DeviceTyped DEF RoutedInv
<1>11. CASE PlugBind
  <2>1. PICK r \in BindDpyRes(dev, job.d) : dev' = r.dev /\ worker' = IF r.ok THEN "crtc" ELSE After
    BY <1>11 DEF PlugBind
  <2>2. Goes(dev, dev') /\ (worker' = "crtc" => dev'.boot[job.d] = NoCrtc)
    <3>1. Goes(dev, r.dev) /\ (r.ok => r.dev.boot[job.d] = NoCrtc)
      BY <1>1, BindDpyResSound DEF RoutedInv
    <3> QED BY <2>1, <3>1, <1>4
  <2>3. /\ UNCHANGED <<connectors, world, stale, events, job, flinger, registered, power_mode, inited,
                       booting, bounds>>
        /\ refused' \in BOOLEAN
        /\ worker' \in {"crtc", "rescan", "next"}
    BY <1>11, <2>1, <1>4 DEF PlugBind
  <2>4. TypeOK' /\ Presented'
    BY <2>2, <2>3, DeviceTyped, StillBooted DEF RoutedInv, TypeOK, Presented
  <2> QED BY <2>2, <2>4, DeviceTyped DEF RoutedInv
<1>12. CASE PlugAnnounce
  <2>1. /\ UNCHANGED <<system, world, stale, events, job, flinger, power, booting, refused, bounds>>
        /\ inited' = inited \/ (worker = "crtc" /\ inited' = inited \cup {job.d})
        /\ registered' = registered \/ registered' = registered \cup {job.d}
        /\ needSync' = needSync \/ needSync' = needSync \cup {job.d}
        /\ worker' \in {"next", "sync", "rescan"}
    BY <1>12, <1>4 DEF PlugAnnounce, Register
  <2>2. TypeOK' /\ Presented'
    BY <2>1, <1>1, <1>2, StillBooted DEF RoutedInv, TypeOK, Presented
  <2> QED BY <2>1, <2>2 DEF RoutedInv
<1>13. CASE PlugSync
  <2>1. /\ UNCHANGED <<plug, hotplug, world, events, job, flinger, registered, power_mode, life, bounds>>
        /\ worker' \in {"power", "next", "rescan"}
        /\ state' = state \/ state' = [state EXCEPT ![job.d] = cable[job.d]]
        /\ stale' \subseteq stale
        /\ dev' = dev \/ dev' = GetCurrentDisplayMode(dev, job.d, Displays)
    BY <1>13, <1>4 DEF PlugSync, Renew, UpdateModes
  <2>2. Goes(dev, dev')
    BY <2>1, <1>1, <1>2, RenewSound
  <2>3. TypeOK' /\ Presented'
    BY <2>1, <2>2, <1>1, DeviceTyped, StillBooted DEF RoutedInv, TypeOK, Presented
  <2> QED BY <2>2, <2>3, DeviceTyped DEF RoutedInv
<1>14. CASE PlugPower
  <2>1. PICK r \in SetPowerMode(dev, job.d, power[job.d]) :
          dev' = r.dev /\ needSync' = IF r.ok THEN needSync \ {job.d} ELSE needSync
    BY <1>14 DEF PlugPower
  <2>2. Goes(dev, dev')
    BY <2>1, <1>1, PowerSound DEF RoutedInv
  <2>3. /\ UNCHANGED <<connectors, world, stale, events, job, flinger, registered, power, life, bounds>>
        /\ worker' \in {"next", "rescan"} /\ needSync' \subseteq needSync
    BY <1>14, <1>4, <2>1 DEF PlugPower
  <2>4. TypeOK' /\ Presented'
    BY <2>2, <2>3, DeviceTyped, StillBooted DEF RoutedInv, TypeOK, Presented
  <2> QED BY <2>2, <2>4, DeviceTyped DEF RoutedInv
<1>15. CASE Unplug
  <2>1. Role(dev, job.d) = "no" /\ dev.mirrorOf[job.d] = NoDisplay
    BY <1>1, NoMirror DEF RoutedInv, Role
  <2>2. /\ UNCHANGED <<system, world, stale, events, flinger, registered, power_mode, life, bounds>>
        /\ job' = [job EXCEPT !.mirror = "no", !.primary = NoDisplay]
        /\ worker' = "release"
    BY <1>15, <2>1 DEF Unplug
  <2>3. job' \in Jobs /\ job'.mirror = "no" /\ job'.user = job.user
    BY <2>2, <1>1 DEF Jobs
  <2>4. TypeOK' /\ Presented'
    BY <2>2, <2>3, <1>1, <1>2, StillBooted DEF RoutedInv, TypeOK, Presented
  <2> QED BY <2>2, <2>4 DEF RoutedInv
<1>16. CASE UnplugRelease
  <2>1. PICK r \in ReleaseDpyRes(dev, job.d) :
          /\ dev' = r.dev
          /\ registered' = IF r.ok /\ job.mirror = "no" THEN Register(job.d, FALSE) ELSE registered
    BY <1>16 DEF UnplugRelease
  <2>2. Goes(dev, dev')
    BY <2>1, <1>1, ReleaseSound DEF RoutedInv
  <2>3. /\ UNCHANGED <<connectors, world, stale, events, job, flinger, power_mode, life, bounds>>
        /\ worker' = "rescan" /\ registered' \subseteq registered
    BY <1>16, <2>1 DEF UnplugRelease, RoutedInv, Presented, Register
  <2>4. TypeOK' /\ Presented'
    BY <2>2, <2>3, DeviceTyped, StillBooted DEF RoutedInv, TypeOK, Presented
  <2> QED BY <2>2, <2>4, DeviceTyped DEF RoutedInv
<1>17. CASE UnplugPrimary
  BY <1>17 DEF UnplugPrimary, RoutedInv, Presented
<1>18. CASE Rescan
  <2> DEFINE waiting == {d \in Displays : state[d] /\ plug[d] /\ (job.rescan => job.d < d)}
             d == Min(waiting)
  <2>1. CASE waiting = {}
    <3>1. /\ UNCHANGED <<system, world, stale, events, job, flinger, registered, power_mode, life, bounds>>
          /\ worker' = "next"
      BY <1>18, <2>1 DEF Rescan
    <3>2. TypeOK' /\ Presented'
      BY <3>1, <1>2, StillBooted DEF RoutedInv, TypeOK, Presented
    <3> QED BY <3>1, <3>2 DEF RoutedInv
  <2>2. CASE waiting # {}
    <3>1. d \in Displays
      BY <2>2, MinIn
    <3>2. /\ UNCHANGED <<dev, state, hotplug, world, events, flinger, registered, power_mode, life, bounds>>
          /\ plug' = [plug EXCEPT ![d] = FALSE]
          /\ stale' = stale \cup {d}
          /\ job' = [job EXCEPT !.d = d, !.rescan = TRUE, !.changed = FALSE]
          /\ worker' = "mode"
      BY <1>18, <2>2 DEF Rescan
    <3> HIDE DEF d
    <3>3. job' \in Jobs /\ job'.user = job.user
      BY <3>1, <3>2, <1>1 DEF Jobs
    <3>4. TypeOK' /\ Presented'
      BY <3>1, <3>2, <3>3, <1>1, <1>2, StillBooted DEF RoutedInv, TypeOK, Presented
    <3> QED BY <3>2, <3>4 DEF RoutedInv
  <2> QED BY <2>1, <2>2
<1> QED BY <1>5, <1>6, <1>7, <1>8, <1>9, <1>10, <1>11, <1>12, <1>13, <1>14, <1>15, <1>16, <1>17,
           <1>18, <1>19, <1>20 DEF WorkerStep

LEMMA FlingerRouted == ASSUME OwnCrtcs, RoutedInv, SfStep PROVE RoutedInv'
<1> USE DEF system, connectors, world, events, work, flinger, power_mode, life, bounds
<1>1. call.d \in Displays
  BY DEF RoutedInv, TypeOK
<1>2. Goes(dev, dev)
  BY GoesNowhere DEF RoutedInv
<1> DEFINE Calls == [d : Displays, mirror : {"no", "primary", "external"},
                     externals : SUBSET Displays, on : BOOLEAN]
<1>3. NoCall \in Calls
  BY DeviceAssumption DEF NoCall, DeviceAssumption
<1>4. ASSUME NEW d \in Displays, SfValidate(d)
      PROVE  RoutedInv'
  <2>1. Role(dev, d) = "no" /\ ~IsMirrorPrimary(dev, d)
    BY NoMirror DEF RoutedInv, Role
  <2>2. /\ UNCHANGED <<connectors, world, events, work, registered, power_mode, life, bounds>>
        /\ d \in inited
        /\ dev' = GetCurrentDisplayMode(dev, d, stale)
        /\ stale' = stale \ {d}
        /\ sf' = "update"
    BY <1>4 DEF SfValidate
  <2>3. Goes(dev, dev')
    BY <2>2, RenewSound
  <2>4. call' = [d |-> d, mirror |-> "no", externals |-> {}, on |-> TRUE]
    BY <1>4, <2>1 DEF SfValidate, Remember, NoCall
  <2>5. call' \in Calls /\ call'.d = d /\ call'.mirror = "no"
    BY <2>4
  <2>6. TypeOK' /\ Presented'
    BY <2>2, <2>3, <2>5, DeviceTyped, StillBooted DEF RoutedInv, TypeOK, Presented
  <2> QED BY <2>3, <2>6, DeviceTyped DEF RoutedInv
<1>5. ASSUME NEW d \in Displays, NEW on \in BOOLEAN, SfPower(d, on)
      PROVE  RoutedInv'
  <2>1. /\ UNCHANGED <<plug, hotplug, world, events, work, registered, life, cables, settings>>
        /\ powers' = powers + 1
        /\ power' = [power EXCEPT ![d] = on]
        /\ needSync' = needSync \/ needSync' = needSync \cup {d}
        /\ state' = state \/ state' = [state EXCEPT ![d] = cable[d]]
        /\ stale' \subseteq stale
        /\ dev' = dev \/ dev' = GetCurrentDisplayMode(dev, d, Displays)
        /\ \/ sf' = "power" /\ call' = [NoCall EXCEPT !.d = d, !.on = on]
           \/ sf = "idle" /\ UNCHANGED flinger
    BY <1>5 DEF SfPower, Renew, UpdateModes
  <2>2. Goes(dev, dev')
    BY <2>1, <1>2, RenewSound
  <2>3. [NoCall EXCEPT !.d = d, !.on = on] \in Calls
    BY <1>3
  <2>4. call' \in Calls /\ sf' \in {"power", "idle"}
    BY <2>1, <2>3 DEF RoutedInv, TypeOK
  <2>5. TypeOK'
    BY <2>1, <2>2, <2>4, DeviceTyped DEF RoutedInv, TypeOK
  <2>6. Presented'
    BY <2>1, <2>2, <2>4, StillBooted DEF RoutedInv, Presented
  <2> QED BY <2>2, <2>5, <2>6, DeviceTyped DEF RoutedInv
<1>6. CASE SfUpdate
  <2>1. PICK r \in UpdateDisplayMode(dev, call.d) : dev' = r.dev
    BY <1>6 DEF SfUpdate
  <2>2. Goes(dev, dev')
    <3>1. dev.boot[call.d] = NoCrtc
      BY <1>6 DEF SfUpdate, RoutedInv, Presented
    <3> QED BY <2>1, <3>1, <1>1, UpdateModeSound DEF RoutedInv
  <2>3. /\ UNCHANGED <<connectors, world, stale, events, work, call, registered, power_mode, inited,
                       booting, bounds>>
        /\ refused' \in BOOLEAN
        /\ sf' = "post"
    BY <1>6 DEF SfUpdate, RoutedInv, Presented
  <2>4. TypeOK' /\ Presented'
    BY <2>2, <2>3, DeviceTyped, StillBooted DEF RoutedInv, TypeOK, Presented
  <2> QED BY <2>2, <2>4, DeviceTyped DEF RoutedInv
<1>7. CASE SfExternals
  BY <1>7 DEF SfExternals, RoutedInv, Presented
<1>8. CASE SfPost
  <2>1. ~IsMirror(dev, call.d)
    BY <1>1, NoMirror DEF RoutedInv
  <2>2. /\ UNCHANGED <<system, world, stale, events, work, registered, power_mode, life, bounds>>
        /\ sf' = "idle" /\ call' = NoCall
    BY <1>8, <2>1 DEF SfPost, WithdrawJoined
  <2>3. TypeOK' /\ Presented'
    BY <2>2, <1>2, <1>3, StillBooted DEF RoutedInv, TypeOK, Presented
  <2> QED BY <2>2, <2>3 DEF RoutedInv
<1>9. CASE SfSetPower
  <2>1. PICK r \in SetPowerMode(dev, call.d, call.on) : dev' = r.dev
    BY <1>9 DEF SfSetPower
  <2>2. Goes(dev, dev')
    BY <2>1, <1>1, PowerSound DEF RoutedInv
  <2>3. /\ UNCHANGED <<connectors, world, stale, events, work, registered, power_mode, life, bounds>>
        /\ sf' = "idle" /\ call' = NoCall
    BY <1>9 DEF SfSetPower
  <2>4. TypeOK' /\ Presented'
    BY <2>2, <2>3, <1>3, DeviceTyped, StillBooted DEF RoutedInv, TypeOK, Presented
  <2> QED BY <2>2, <2>4, DeviceTyped DEF RoutedInv
<1> QED BY <1>4, <1>5, <1>6, <1>7, <1>8, <1>9 DEF SfStep, SfCallStep

LEMMA RoutedNext == ASSUME OwnCrtcs, RoutedInv, [Next]_vars PROVE RoutedInv'
<1> USE DEF system, connectors, world, events, work, flinger, power_mode, life, bounds
<1>1. Goes(dev, dev)
  BY GoesNowhere DEF RoutedInv
<1>2. CASE UNCHANGED vars
  <2>1. TypeOK' /\ Presented'
    BY <1>2 DEF vars, RoutedInv, TypeOK, Presented
  <2> QED BY <1>2, <2>1 DEF vars, RoutedInv
<1>3. CASE WorldStep
  <2> DEFINE Rest == /\ cable' \in [Displays -> BOOLEAN] /\ setting' \in [Displays -> Modes]
                     /\ stale' \subseteq Displays /\ uevent' \in BOOLEAN
                     /\ cables' \in Nat /\ settings' \in Nat
  <2>1. ASSUME NEW d \in Displays, Cable(d) PROVE Rest
    BY <2>1 DEF Cable, RoutedInv, TypeOK
  <2>2. ASSUME NEW d \in Displays, NEW m \in Modes, ChooseMode(d, m) PROVE Rest
    BY <2>2 DEF ChooseMode, RoutedInv, TypeOK
  <2>3. UNCHANGED <<system, events, work, flinger, registered, power_mode, life, powers>>
    BY <1>3 DEF WorldStep, Cable, ChooseMode
  <2>4. Rest
    BY <1>3, <2>1, <2>2 DEF WorldStep
  <2>5. TypeOK'
    BY <2>3, <2>4 DEF RoutedInv, TypeOK
  <2>6. Presented'
    BY <2>3 DEF RoutedInv, Presented
  <2> QED BY <2>3, <2>5, <2>6 DEF RoutedInv
<1>4. CASE InitDisplay
  BY <1>4, InitDisplayRouted
<1>5. CASE Start
  <2>1. /\ UNCHANGED <<system, world, stale, events, job, flinger, power_mode, life, bounds>>
        /\ registered' \subseteq Displays /\ worker' = "idle"
    BY <1>5, DeviceAssumption DEF Start, DeviceAssumption
  <2>2. TypeOK' /\ Presented'
    BY <2>1, <1>1, StillBooted DEF RoutedInv, TypeOK, Presented
  <2> QED BY <2>1, <2>2 DEF RoutedInv
<1>6. CASE HandleUevent
  <2> DEFINE moved == {e \in Displays : hotplug[e] # cable[e]}
             d == Min(moved)
             sent == SendDrmEvent(pending, Event(d, FALSE, cable[d]))
  <2>1. /\ UNCHANGED <<dev, plug, state, cable, setting, stale, batch, work, flinger, registered,
                       power_mode, life, bounds>>
        /\ uevent' \in BOOLEAN
        /\ \/ UNCHANGED <<hotplug, pending>>
           \/ /\ moved # {} /\ pending' = sent
              /\ hotplug' = [hotplug EXCEPT ![d] = cable[d]]
    BY <1>6 DEF HandleUevent
  <2>2. CASE UNCHANGED <<hotplug, pending>>
    BY <2>1, <2>2 DEF RoutedInv, TypeOK, Presented
  <2>3. CASE moved # {} /\ pending' = sent /\ hotplug' = [hotplug EXCEPT ![d] = cable[d]]
    <3>1. d \in Displays
      BY <2>3, MinIn
    <3> HIDE DEF d
    <3>2. cable[d] \in BOOLEAN /\ pending \in SUBSET Events /\ \A e \in pending : e.user = FALSE
      BY <3>1 DEF RoutedInv, TypeOK, Presented, Events
    <3>3. pending' \in SUBSET Events /\ \A e \in pending' : ~e.user
      BY <2>3, <3>1, <3>2, SentTyped
    <3>4. TypeOK'
      BY <2>1, <2>3, <3>1, <3>3 DEF RoutedInv, TypeOK
    <3>5. Presented'
      BY <2>1, <3>3 DEF RoutedInv, Presented
    <3> QED BY <2>1, <3>4, <3>5 DEF RoutedInv
  <2> QED BY <2>1, <2>2, <2>3
<1> QED BY <1>2, <1>3, <1>4, <1>5, <1>6, WorkerRouted, FlingerRouted DEF Next, BootStep

(***************************************************************************)
(* Its consequences.                                                       *)
(***************************************************************************)

(* TypeOK: every variable keeps its type, whichever commits fail.            *)
THEOREM RoutedTypes == OwnCrtcs /\ Spec => []TypeOK
<1> SUFFICES ASSUME OwnCrtcs PROVE Spec => []TypeOK
  OBVIOUS
<1>1. Init => RoutedInv
  BY RoutedInit
<1>2. RoutedInv /\ [Next]_vars => RoutedInv'
  BY RoutedNext
<1>3. RoutedInv => TypeOK
  BY DEF RoutedInv
<1> QED BY <1>1, <1>2, <1>3, PTL DEF Spec

(* KernelFollows: what the kernel scans a display out with is what HWC has   *)
(* it bound to, whichever commits fail and whatever the boot loader lit.     *)
THEOREM KernelIsFollowed == OwnCrtcs /\ Spec => []KernelFollows
<1> SUFFICES ASSUME OwnCrtcs PROVE Spec => []KernelFollows
  OBVIOUS
<1>1. Init => RoutedInv
  BY RoutedInit
<1>2. RoutedInv /\ [Next]_vars => RoutedInv'
  BY RoutedNext
<1>3. RoutedInv => KernelFollows
  BY DEF RoutedInv, Sound, Shape, Agrees, OwnCrtcs, KernelFollows
<1> QED BY <1>1, <1>2, <1>3, PTL DEF Spec

(* OwnersMatch: the encoder's CRTC and the CRTC's display tell the same.     *)
THEOREM OwnersAlwaysMatch == OwnCrtcs /\ Spec => []OwnersMatch
<1> SUFFICES ASSUME OwnCrtcs PROVE Spec => []OwnersMatch
  OBVIOUS
<1>1. Init => RoutedInv
  BY RoutedInit
<1>2. RoutedInv /\ [Next]_vars => RoutedInv'
  BY RoutedNext
<1>3. RoutedInv => OwnersMatch
  <2> SUFFICES ASSUME RoutedInv, NEW d \in Displays, dev.boot[d] = NoCrtc
               PROVE  {c \in Crtcs : dev.owner[c] = d} = {dev.bound[d]} \ {NoCrtc}
    BY DEF OwnersMatch
  <2>1. /\ NoCrtc \notin Crtcs /\ NoDisplay \notin Displays
        /\ dev.bound[d] \in Crtcs \cup {NoCrtc}
    BY DeviceAssumption DEF DeviceAssumption, NoCrtc, NoDisplay, RoutedInv, TypeOK, Device
  <2>2. \A c \in Crtcs : dev.owner[c] = d => dev.bound[d] = c
    BY <2>1 DEF RoutedInv, Sound, Agrees
  <2>3. dev.bound[d] # NoCrtc => dev.owner[dev.bound[d]] = d
    BY DEF RoutedInv, Sound, Agrees
  <2> QED BY <2>1, <2>2, <2>3
<1> QED BY <1>1, <1>2, <1>3, PTL DEF Spec

(* PlanesWithOwner, and more: whichever commits fail, planes never stay with *)
(* a display that lost the CRTC.                                             *)
THEOREM PlanesFollowOwner ==
  OwnCrtcs /\ Spec => [](PlanesWithOwner /\ \A c \in Crtcs : ~Stray(c))
<1> SUFFICES ASSUME OwnCrtcs
             PROVE  Spec => [](PlanesWithOwner /\ \A c \in Crtcs : ~Stray(c))
  OBVIOUS
<1>1. Init => RoutedInv
  BY RoutedInit
<1>2. RoutedInv /\ [Next]_vars => RoutedInv'
  BY RoutedNext
<1>3. RoutedInv => PlanesWithOwner /\ \A c \in Crtcs : ~Stray(c)
  BY DEF RoutedInv, Sound, Agrees, PlanesWithOwner, Stray
<1> QED BY <1>1, <1>2, <1>3, PTL DEF Spec
=============================================================================
