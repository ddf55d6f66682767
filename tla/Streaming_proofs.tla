--------------------------- MODULE Streaming_proofs ---------------------------
(***************************************************************************)
(* While a display is streamed to, with no power switch, no hotplug and no *)
(* failing call, the compositor implements ReleaseTimeline: for any number *)
(* of displays and frames and any queue limits.                            *)
(***************************************************************************)
EXTENDS MCStream, DisplayCompositor_proofs

StreamingWorld == SfOps = {} /\ EventOps = {} /\ Faults = {}

(* Nobody clears the pipeline, and the worker only collects once switched on.*)
NoBlank ==
  /\ sf \notin {"clear", "release", "badlayer"} /\ ev = "idle"
  /\ sf = "notify" => active_
  /\ worker \notin {"check", "prewait", "wait"} => active_
  /\ worker # "clear"

(* The planes are set to the collected frames until the ioctl, and the       *)
(* screen shows the current frames, or from the ioctl until the retirement   *)
(* the collected ones.                                                       *)
Requested(d) == IF worker \in {"commit", "kernel"} THEN collect[d] ELSE 0
Scanned(d) == IF worker = "retire" /\ collect[d] # 0 THEN collect[d] ELSE current[d]

ScreenFollows == \A d \in Displays : planes[d] = Requested(d) /\ screen[d] = Scanned(d)

StreamInv == NoBlank /\ ScreenFollows

LEMMA StreamInit == Init => StreamInv
  BY DEF Init, StreamInv, NoBlank, ScreenFollows, Requested, Scanned

(* A step that touches neither the worker's frames nor what is shown.        *)
LEMMA ScreenUntouched ==
  ASSUME ScreenFollows, UNCHANGED <<collect, current, planes, screen>>,
         \/ worker' = worker
         \/ /\ worker \notin {"commit", "kernel", "retire"}
            /\ worker' \notin {"commit", "kernel", "retire"}
  PROVE  ScreenFollows'
  BY DEF ScreenFollows, Requested, Scanned

(* Collecting, in a world without failures, takes one frame per display with *)
(* something queued and releases none.                                       *)
LEMMA StreamCollect ==
  ASSUME StreamingWorld, IInv, OrderInv, StreamInv, CollectSFInfo
  PROVE  /\ UNCHANGED <<current, screen, timeline, created>>
         /\ worker = "collect" /\ worker' = "commit"
         /\ \A d \in Displays : planes'[d] = collect'[d]
<1>1. PICK failed \in SUBSET Batch, kept \in SUBSET Batch :
        /\ failed # {} => "collect" \in Faults
        /\ failed = {} => kept = Batch
        /\ CollectInfo(failed, kept)
  BY DEF CollectSFInfo
<1>2. failed = {} /\ kept = Batch
  BY <1>1 DEF StreamingWorld
<1>3. worker = "collect" /\ worker' = "commit" /\ UNCHANGED <<current, screen, created>>
  BY DEF CollectSFInfo, WorkerGoes, OthersUnchanged
<1>4. \A d \in Displays : collect[d] = 0 /\ planes[d] = 0
  BY <1>3 DEF OrderInv, PhasesAgree, StreamInv, ScreenFollows, Requested
<1>5. \A d \in Displays : ~CollectInfoLoses(d, failed)
  BY <1>2, <1>4 DEF CollectInfoLoses
<1>6. timeline' = [d \in Displays |-> timeline[d]]
  BY <1>1, <1>5 DEF CollectInfo
<1>7. timeline' = timeline
  BY <1>6 DEF IInv, TypeOK
<1>8. ASSUME NEW d \in Displays PROVE planes'[d] = collect'[d]
  <2>1. CASE d \in Batch
    <3>1. ~clear_
      BY <2>1 DEF Batch, IInv, QueueInv, ClearMeansEmpty, Empty, Holds
    <3>2. planes'[d] = Picked(queue[d])
      BY <1>1, <1>2, <2>1, <3>1 DEF CollectInfo, CollectCommitInfo
    <3>3. collect'[d] = Picked(queue[d])
      BY <1>1, <1>5, <2>1 DEF CollectInfo
    <3>. QED BY <3>2, <3>3
  <2>2. CASE d \notin Batch
    <3>1. planes'[d] = planes[d]
      BY <1>1, <1>2, <2>2 DEF CollectInfo, CollectCommitInfo
    <3>2. collect'[d] = collect[d]
      BY <1>1, <2>2 DEF CollectInfo
    <3>. QED BY <1>4, <3>1, <3>2
  <2>. QED BY <2>1, <2>2
<1>. QED BY <1>3, <1>7, <1>8

(* The commit sets every collected frame on its display.                     *)
LEMMA StreamCommit ==
  ASSUME StreamingWorld, IInv, StreamInv, AtomicCommit
  PROVE  /\ worker = "kernel" /\ worker' = "retire"
         /\ UNCHANGED <<collect, current, timeline, created>>
         /\ \A d \in Displays :
              /\ planes'[d] = 0
              /\ screen'[d] = IF collect[d] # 0 THEN collect[d] ELSE screen[d]
              /\ screen[d] = current[d]
<1>1. /\ worker = "kernel" /\ worker' = "retire"
      /\ UNCHANGED <<collect, current, timeline, created>>
  BY DEF AtomicCommit, WorkerGoes, OthersUnchanged, sets
<1>2. screen' = [d \in Displays |-> IF planes[d] # 0 THEN planes[d] ELSE screen[d]]
      /\ planes' = [d \in Displays |-> 0]
  BY DEF AtomicCommit, StreamingWorld
<1>3. \A d \in Displays : planes[d] = collect[d] /\ screen[d] = current[d]
  BY <1>1 DEF StreamInv, ScreenFollows, Requested, Scanned
<1>. QED BY <1>1, <1>2, <1>3

LEMMA StreamNext ==
  ASSUME StreamingWorld, IInv, OrderInv, StreamInv, [Next]_vars
  PROVE  StreamInv'
<1>. USE DEF sets, request, kernel, StreamInv
<1>1. ASSUME NEW d \in Displays, NEW svep \in SvepKinds, PresentDisplay(d, svep)
      PROVE StreamInv'
  BY <1>1, ScreenUntouched DEF PresentDisplay, NoBlank
<1>2. CASE QueueComposition
  BY <1>2, ScreenUntouched DEF QueueComposition, Refuse, NoBlank
<1>3. CASE QueueLocked
  <2>1. sf = "lock" /\ active_ /\ WaitOrPush
    BY <1>3 DEF QueueLocked, OrderInv, PhasesAgree
  <2>. QED BY <1>3, <2>1, ScreenUntouched DEF QueueLocked, WaitOrPush, Push, NoBlank
<1>4. CASE QueueWoken
  <2>1. sf = "woken" /\ active_
    BY <1>4 DEF QueueWoken, OrderInv, PhasesAgree
  <2>. QED BY <1>4, <2>1, ScreenUntouched DEF QueueWoken, WaitOrPush, Push, NoBlank
<1>5. CASE SignalWorker
  BY <1>5, ScreenUntouched DEF SignalWorker, NoBlank
<1>6. CASE SfPowerOn
  BY <1>6, ScreenUntouched DEF SfPowerOn, NoBlank
<1>7. CASE CollectSFInfo
  <2>1. NoBlank'
    BY <1>7, StreamCollect DEF CollectSFInfo, OthersUnchanged, WakesPresenter, NoBlank
  <2>2. ScreenFollows'
    BY <1>7, StreamCollect DEF ScreenFollows, Requested, Scanned
  <2>. QED BY <2>1, <2>2
<1>8. CASE AtomicCommit
  <2>1. NoBlank'
    BY <1>8 DEF AtomicCommit, WorkerGoes, OthersUnchanged, NoBlank
  <2>2. ScreenFollows'
    BY <1>8, StreamCommit DEF ScreenFollows, Requested, Scanned
  <2>. QED BY <2>1, <2>2
<1>9. CASE CommitRetire
  <2>1. NoBlank'
    BY <1>9 DEF CommitRetire, WorkerGoes, OthersUnchanged, NoBlank
  <2>2. ScreenFollows'
    BY <1>9 DEF CommitRetire, WorkerGoes, ScreenFollows, Requested, Scanned
  <2>. QED BY <2>1, <2>2
<1>10. CASE CommitCheck
  <2>1. NoBlank'
    BY <1>10 DEF CommitCheck, WorkerGoes, OthersUnchanged, NoBlank
  <2>2. /\ worker = "commit" /\ active_ /\ UNCHANGED <<collect, current, screen, planes>>
        /\ worker' = IF pset_ THEN "kernel" ELSE "tail"
    BY <1>10 DEF CommitCheck, WorkerGoes, NoBlank
  <2>3. ~pset_ => \A d \in Displays : collect[d] = 0
    BY <2>2 DEF OrderInv, PhasesAgree
  <2>4. ScreenFollows'
    BY <2>2, <2>3 DEF ScreenFollows, Requested, Scanned
  <2>. QED BY <2>1, <2>4
<1>11. CASE WorkerCheck
  <2>1. HaveQueuedComposites => active_
    BY DEF HaveQueuedComposites, OrderInv, PhasesAgree, NoBlank, Empty, Holds
  <2>. QED BY <1>11, <2>1, ScreenUntouched
           DEF WorkerCheck, WorkerGoes, PipelineUnchanged, OthersUnchanged, NoBlank
<1>12. CASE WorkerWait \/ WorkerTimeout \/ CompositeTail
  BY <1>12, ScreenUntouched
     DEF WorkerWait, WorkerTimeout, CompositeTail, WorkerGoes, PipelineUnchanged,
         OthersUnchanged, NoBlank
<1>13. CASE UNCHANGED vars
  BY <1>13, ScreenUntouched DEF vars, NoBlank
<1>14. ~(SfClearDisplay \/ SfDisablePlanes \/ EventStep \/ WorkerClearDisplay
         \/ PresentNoLayers \/ SfPowerOff \/ EventPower \/ Hotplug)
  BY DEF StreamingWorld, NoBlank, SfClearDisplay, SfDisablePlanes, EventStep,
         EventClearDisplay, EventDisablePlanes, WorkerClearDisplay, WorkerGoes,
         PresentNoLayers, SfPowerOff, EventPower, Hotplug
<1>. QED
  BY <1>1, <1>2, <1>3, <1>4, <1>5, <1>6, <1>7, <1>8, <1>9, <1>10, <1>11, <1>12, <1>13,
     <1>14, Zenon DEF Next, Begin, SfStep, WorkerStep

LEMMA StreamHolds == StreamingWorld /\ Spec => [](IInv /\ OrderInv /\ StreamInv)
<1>1. Init => IInv /\ OrderInv /\ StreamInv
  BY InvInit, OrderInit, StreamInit
<1>2. StreamingWorld /\ IInv /\ OrderInv /\ StreamInv /\ [Next]_vars
        => (IInv /\ OrderInv /\ StreamInv)'
  <2>1. StreamingWorld => OrderedWorld
    BY DEF StreamingWorld, OrderedWorld
  <2>. QED BY <2>1, NextKeepsInv, NextKeepsOrder, StreamNext, Zenon
<1>3. CASE StreamingWorld
  BY <1>1, <1>2, <1>3, PTL DEF Spec
<1>. QED BY <1>3, Zenon

(* Where the collected frame stands among the others of its display.         *)
LEMMA CollectedIsNewest ==
  ASSUME IInv, OrderInv, NEW d \in Displays, collect[d] # 0
  PROVE  /\ collect[d] = AfterUseless(d) + 1
         /\ collect[d] > timeline[d] /\ collect[d] > current[d]
         /\ collect[d] <= created[d]
<1>1. /\ timeline[d] \in Nat /\ current[d] \in Nat /\ collect[d] \in Nat
      /\ AfterCurrent(d) \in Nat /\ AfterUseless(d) \in Nat /\ AfterCollect(d) \in Nat
      /\ AfterQueue(d) \in Nat /\ created[d] \in Nat
  BY StageTypes DEF IInv
<1>2. collect[d] = AfterUseless(d) + 1
  BY Zenon DEF OrderInv, PipelineInOrder
<1>3. AfterCollect(d) = AfterUseless(d) + 1
  BY Zenon DEF AfterCollect, One
<1>4. current[d] <= AfterCurrent(d)
  <2>1. current[d] = 0 \/ (current[d] = timeline[d] + 1 /\ One(current[d]) = 1)
    BY <1>1 DEF OrderInv, PipelineInOrder, One
  <2>2. CASE current[d] = 0
    BY <1>1, <2>2
  <2>3. CASE current[d] = timeline[d] + 1 /\ One(current[d]) = 1
    <3>1. AfterCurrent(d) = timeline[d] + 1
      BY <2>3, Zenon DEF AfterCurrent
    <3>. QED BY <1>1, <2>3, <3>1
  <2>. QED BY <2>1, <2>2, <2>3
<1>5. /\ timeline[d] <= AfterCurrent(d) /\ AfterCurrent(d) <= AfterUseless(d)
      /\ AfterCollect(d) <= AfterQueue(d) /\ AfterQueue(d) <= created[d]
  BY StageBounds, Zenon
<1>. QED BY <1>1, <1>2, <1>3, <1>4, <1>5

(* SurfaceFlinger gets no buffer back that is being scanned out: the fence   *)
(* of the frame on the screen has not signalled, from one commit to the next *)
(* and at each step in between.                                              *)
THEOREM ScreenBufferHeld == StreamingWorld /\ Spec => []ScreenFenceHeld
<1>1. ASSUME IInv, OrderInv, StreamInv PROVE ScreenFenceHeld
  <2>. SUFFICES ASSUME NEW d \in Displays, screen[d] # 0 PROVE timeline[d] < screen[d]
    BY DEF ScreenFenceHeld
  <2>1. screen[d] = Scanned(d)
    BY <1>1 DEF StreamInv, ScreenFollows
  <2>2. timeline[d] \in Nat /\ current[d] \in Nat /\ collect[d] \in Nat
    BY <1>1 DEF IInv, TypeOK
  <2>3. CASE collect[d] # 0 /\ screen[d] = collect[d]
    BY <1>1, <2>2, <2>3, CollectedIsNewest
  <2>4. CASE screen[d] = current[d]
    <3>1. current[d] \in {0, timeline[d] + 1}
      BY <1>1, Zenon DEF OrderInv, PipelineInOrder
    <3>. QED BY <2>2, <2>4, <3>1
  <2>. QED BY <2>1, <2>3, <2>4 DEF Scanned
<1>. QED BY <1>1, StreamHolds, PTL

(* Every step of the compositor is a step of ReleaseTimeline or a stutter.   *)
LEMMA StreamStep ==
  ASSUME StreamingWorld, IInv, IInv', OrderInv, StreamInv, [Next]_vars
  PROVE  [Promise!Next]_Promise!vars
<1>. USE DEF sets, request, kernel
<1>t. /\ created \in [Displays -> Nat] /\ timeline \in [Displays -> Nat]
      /\ screen \in [Displays -> Nat]
      /\ DOMAIN screen' = Displays /\ DOMAIN timeline' = Displays
  BY DEF IInv, TypeOK
<1>1. ASSUME NEW d \in Displays, NEW svep \in SvepKinds, PresentDisplay(d, svep)
      PROVE Promise!Next
  <2>1. Promise!Issue(d)
    BY <1>1 DEF PresentDisplay, Promise!Issue
  <2>. QED BY <2>1 DEF Promise!Next
<1>2. CASE QueueComposition
  <2>1. CASE UNCHANGED <<timeline, screen, created>>
    BY <2>1 DEF Promise!vars
  <2>2. CASE ~active_ /\ Refuse
    <3>1. /\ UNCHANGED <<screen, created>> /\ sf = "queue"
          /\ timeline' = [timeline EXCEPT ![hand.d] = @ + 1]
      BY <1>2, <2>2 DEF QueueComposition, Refuse, SignalOne
    <3>2. Empty /\ hand.n # 0 /\ hand.d \in Displays
      BY <2>2, <3>1 DEF OrderInv, PhasesAgree, IInv, TypeOK
    <3>3. screen[hand.d] = 0
      BY <3>2 DEF StreamInv, ScreenFollows, Scanned, Empty, Holds
    <3>4. created[hand.d] = timeline[hand.d] + 1
      <4>1. /\ current[hand.d] = 0 /\ collect[hand.d] = 0
            /\ useless[hand.d] = << >> /\ queue[hand.d] = << >>
        BY <3>2 DEF Empty, Holds
      <4>2. timeline[hand.d] \in Nat
        BY <1>t, <3>2
      <4>3. AfterQueue(hand.d) = timeline[hand.d]
        BY <4>1, <4>2 DEF AfterQueue, AfterCollect, AfterUseless, AfterCurrent, One
      <4>4. created[hand.d] = AfterQueue(hand.d) + 1
        BY <3>2, Zenon DEF OrderInv, PipelineInOrder, InHand
      <4>. QED BY <4>3, <4>4
    <3>5. Promise!Refuse(hand.d)
      BY <3>1, <3>3, <3>4 DEF Promise!Refuse
    <3>. QED BY <3>2, <3>5 DEF Promise!Next
  <2>. QED BY <1>2, <2>1, <2>2 DEF QueueComposition
<1>3. CASE QueueLocked
  <2>1. active_
    BY <1>3 DEF QueueLocked, OrderInv, PhasesAgree
  <2>. QED BY <1>3, <2>1 DEF QueueLocked, Promise!vars
<1>4. CASE AtomicCommit
  <2>1. ASSUME NEW d \in Displays
        PROVE \/ screen'[d] = screen[d]
              \/ screen'[d] > timeline[d] /\ screen'[d] \in (screen[d] + 1)..created[d]
    <3>1. /\ screen'[d] = IF collect[d] # 0 THEN collect[d] ELSE screen[d]
          /\ screen[d] = current[d]
      BY <1>4, StreamCommit
    <3>2. /\ collect[d] \in Nat /\ created[d] \in Nat /\ timeline[d] \in Nat
          /\ current[d] \in Nat
      BY DEF IInv, TypeOK
    <3>3. CASE collect[d] # 0
      <4>1. collect[d] > timeline[d] /\ collect[d] > current[d] /\ collect[d] <= created[d]
        BY <3>3, CollectedIsNewest
      <4>. QED BY <3>1, <3>2, <3>3, <4>1
    <3>. QED BY <3>1, <3>3
  <2>2. Promise!Show
    BY <1>4, <1>t, <2>1, StreamCommit DEF Promise!Show
  <2>. QED BY <2>2 DEF Promise!Next
<1>5. CASE CommitRetire
  <2>1. /\ worker = "retire" /\ UNCHANGED <<screen, created>>
        /\ timeline' = [d \in Displays |->
             IF collect[d] # 0 THEN timeline[d] + NumReplaced(d) ELSE timeline[d]]
    BY <1>5 DEF CommitRetire, WorkerGoes, OthersUnchanged
  <2>2. ASSUME NEW d \in Displays
        PROVE \/ timeline'[d] = timeline[d]
              \/ timeline'[d] \in (timeline[d] + 1)..(screen[d] - 1)
    <3>1. CASE collect[d] # 0
      <4>1. screen[d] = collect[d]
        BY <2>1, <3>1 DEF StreamInv, ScreenFollows, Scanned
      <4>2. collect[d] = AfterUseless(d) + 1
        BY <3>1, CollectedIsNewest
      <4>3. /\ timeline[d] \in Nat /\ AfterUseless(d) \in Nat
            /\ One(current[d]) \in Nat /\ Len(useless[d]) \in Nat
        BY StageTypes DEF IInv, One
      <4>4. AfterUseless(d) = timeline[d] + One(current[d]) + Len(useless[d])
        BY Zenon DEF AfterUseless, AfterCurrent
      <4>5. timeline'[d] = timeline[d] + (One(current[d]) + Len(useless[d]))
        BY <2>1, <3>1, Zenon DEF NumReplaced
      <4>6. timeline'[d] = AfterUseless(d)
        BY <4>3, <4>4, <4>5
      <4>7. timeline[d] <= AfterUseless(d)
        BY <4>3, <4>4
      <4>. QED BY <4>1, <4>2, <4>3, <4>6, <4>7
    <3>2. CASE collect[d] = 0
      BY <2>1, <3>2
    <3>. QED BY <3>1, <3>2
  <2>3. Promise!Release
    BY <1>t, <2>1, <2>2 DEF Promise!Release
  <2>. QED BY <2>3 DEF Promise!Next
<1>6. CASE CollectSFInfo
  BY <1>6, StreamCollect DEF Promise!vars
<1>7. CASE QueueWoken \/ SignalWorker \/ SfPowerOn
  BY <1>7 DEF QueueWoken, SignalWorker, SfPowerOn, Promise!vars
<1>8. CASE CommitCheck \/ WorkerCheck \/ WorkerWait \/ WorkerTimeout \/ CompositeTail
  BY <1>8 DEF CommitCheck, WorkerCheck, WorkerWait, WorkerTimeout, CompositeTail,
     PipelineUnchanged, OthersUnchanged, Promise!vars
<1>9. CASE UNCHANGED vars
  BY <1>9 DEF vars, Promise!vars
<1>10. ~(SfClearDisplay \/ SfDisablePlanes \/ EventStep \/ WorkerClearDisplay
         \/ PresentNoLayers \/ SfPowerOff \/ EventPower \/ Hotplug)
  BY DEF StreamingWorld, StreamInv, NoBlank, SfClearDisplay, SfDisablePlanes, EventStep,
         EventClearDisplay, EventDisablePlanes, WorkerClearDisplay, WorkerGoes,
         PresentNoLayers, SfPowerOff, EventPower, Hotplug
<1>. QED
  BY <1>1, <1>2, <1>3, <1>4, <1>5, <1>6, <1>7, <1>8, <1>9, <1>10, Zenon
  DEF Next, Begin, SfStep, WorkerStep

(* The compositor keeps what ReleaseTimeline promises: frames appear in the  *)
(* order of issue, and a fence signals only once a newer frame has replaced  *)
(* its frame on the screen.                                                  *)
THEOREM StreamingImplementsTimeline == StreamingWorld /\ Spec => KeepsPromise
<1>1. Init => Promise!Init
  BY DEF Init, Promise!Init
<1>2. StreamingWorld /\ IInv /\ IInv' /\ OrderInv /\ StreamInv /\ [Next]_vars
        => [Promise!Next]_Promise!vars
  BY StreamStep
<1>3. CASE StreamingWorld
  BY <1>1, <1>2, <1>3, StreamHolds, PTL DEF Spec, KeepsPromise, Promise!Spec
<1>. QED BY <1>3, Zenon

(* What a display shows never goes back to an older frame, nor to one older  *)
(* than the compositor's current one.                                        *)
THEOREM StreamMovesForward == StreamingWorld /\ Spec => ScreenMovesForward
<1>. DEFINE Forward == \A d \in Displays :
                         screen'[d] \notin {0, screen[d]} =>
                           screen'[d] > screen[d] /\ screen'[d] > current[d]
<1>1. ASSUME StreamingWorld, IInv, OrderInv, StreamInv, [Next]_vars
      PROVE Forward \/ UNCHANGED vars
  <2>1. CASE AtomicCommit
    <3>. SUFFICES ASSUME NEW d \in Displays, screen'[d] # screen[d]
                  PROVE screen'[d] > screen[d] /\ screen'[d] > current[d]
      OBVIOUS
    <3>1. /\ screen'[d] = IF collect[d] # 0 THEN collect[d] ELSE screen[d]
          /\ screen[d] = current[d]
      BY <1>1, <2>1, StreamCommit
    <3>2. collect[d] # 0 /\ screen'[d] = collect[d]
      BY <3>1
    <3>3. collect[d] > current[d]
      BY <1>1, <3>2, CollectedIsNewest
    <3>. QED BY <3>1, <3>2, <3>3
  <2>2. CASE UNCHANGED screen
    BY <2>2
  <2>3. AtomicCommit \/ UNCHANGED screen
    <3>1. ~(SfClearDisplay \/ SfDisablePlanes \/ EventStep \/ WorkerClearDisplay)
      BY <1>1 DEF StreamingWorld, StreamInv, NoBlank, SfClearDisplay, SfDisablePlanes,
         EventStep, EventClearDisplay, EventDisablePlanes, WorkerClearDisplay, WorkerGoes
    <3>. QED BY <1>1, <3>1
         DEF Next, Begin, SfStep, WorkerStep, PresentDisplay, PresentNoLayers, SfPowerOn,
             SfPowerOff, EventPower, Hotplug, QueueComposition, QueueLocked, QueueWoken,
             SignalWorker, WorkerCheck, WorkerWait, WorkerTimeout, CollectSFInfo,
             CommitCheck, CommitRetire, CompositeTail, PipelineUnchanged, kernel, vars
  <2>. QED BY <2>1, <2>2, <2>3
<1>2. StreamingWorld /\ IInv /\ OrderInv /\ StreamInv /\ [Next]_vars => [Forward]_vars
  BY <1>1, Zenon
<1>3. CASE StreamingWorld
  BY <1>2, <1>3, StreamHolds, PTL DEF Spec, ScreenMovesForward
<1>. QED BY <1>3, Zenon
=============================================================================
