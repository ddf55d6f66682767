--------------------------- MODULE SidebandStream ---------------------------
(***************************************************************************)
(* Video that bypasses SurfaceFlinger (sideband 2.0, the TV input path).   *)
(* A producer outside this process queues buffers into a tunnel of the     *)
(* vtunnel driver.  The thread of DrmVideoProducer takes them out, keeps   *)
(* the two newest and hands each one back at once with a release fence;    *)
(* the compositor of every display that shows the tunnel fetches one of    *)
(* the two for each of its commits.  The release fences of a tunnel share  *)
(* a software timeline that a release advances by one, whichever buffer is *)
(* released: fence n has signalled after n releases.  A fence is therefore *)
(* known here by the number of releases it still waits for, 0 once it has  *)
(* signalled.                                                              *)
(*                                                                         *)
(* Every section under DrmVideoProducer::mtx_ or the compositor's lock_ is *)
(* one step.  Ui is the connection of the primary HwcDisplay (display 0, *)
(* id 1000 in the code), which lasts as long as a layer carries the tunnel.*)
(***************************************************************************)
EXTENDS Integers, Sequences, FiniteSets, Functions, SequencesExt

CONSTANTS
  Displays,   \* display ids, each with a compositor of its own
  Tunnels,    \* tunnel ids, positive numbers
  Buffers,    \* the buffers of each tunnel's producer
  Setups      \* the situations to start in, see Setup

\* What a display may show, 0 for no video, which displays have a transform on the video
\* layer, which may be emptied by ClearDisplay() and which calls may fail; of
\* "reject", "commit" and "import" at most one per display or tunnel.
Setup == [shows : [Displays -> SUBSET (Tunnels \cup {0})], rotated : SUBSET Displays,
          cleared : SUBSET Displays,
          faults : SUBSET {"reject", "commit", "connect", "import", "fence"}]

NoFrame == -1       \* no composition
NoBuf   == <<>>     \* buffer_ == NULL
Listed  == -1       \* the display id of lBuffer_'s references
Ui      == 1000     \* the display id of the primary HwcDisplay's connection

ASSUME SidebandAssumption ==
  /\ Displays \subseteq Nat \ {Ui} /\ Tunnels \subseteq Nat \ {0}
  /\ \A t \in Tunnels : IsFiniteSet(Buffers[t])
  /\ Setups \subseteq Setup

VARIABLES
  setup,    \* one of Setups
  given,    \* external: the buffers given back, in that order
  vtq,      \* external: the buffers queued in the tunnel
  open,     \* the tunnels of mMapCtx_
  conn,     \* refDpyConnection_ of a tunnel
  turn,     \* the displays mTransform_ gives a rotation
  list,     \* lBuffer_, oldest first
  fences,   \* the tunnel's buffers: references, fences and the timeline
  copies,   \* mTransfromBuffers_: the buffers copied, oldest first
  reading,  \* the buffers a rotation job still reads: <<tunnel, buffer>>
  dvp,      \* program counter of the producer's thread
  todo,     \* tunnelShouldAcquire, what is left of it
  got,      \* the buffer being processed: <<tunnel, buffer, rotate it?>>
  last,     \* iLastTunnelId_ of the primary HwcDisplay
  frame,    \* the queued composition: the tunnel of its layer, 0 for none
  collected,\* collect_composition_map_
  active,   \* active_composition_map_
  current,  \* current_sideband2_
  drawing,  \* drawing_sideband2_
  pset,     \* is the compositor's atomic request allocated
  worker,   \* program counter of the compositor's thread
  failed,   \* history: displays with a refused composition or commit
  dropped   \* history: tunnels with a buffer that could not be imported

dvpVars  == <<dvp, todo, got, dropped>>
ctxVars  == <<open, conn, turn, list, fences, copies, reading>>
compVars == <<frame, collected, active, current, drawing, pset, worker, failed>>
vars == <<setup, given, vtq, ctxVars, dvpVars, last, compVars>>

NewFences(t) == [hold  |-> [b \in Buffers[t] |-> {}],  \* mReleaseRefCnt_
                 armed |-> {},                         \* mReleaseFence_ # NULL
                 ahead |-> 0,     \* fences created less the timeline's value
                 wait  |-> [b \in Buffers[t] |-> 0]]   \* of the newest fence
Off == [on |-> FALSE, t |-> 0, buf |-> NoBuf]

\* The process starts without a tunnel.
Init ==
  /\ setup \in Setups
  /\ given = [t \in Tunnels |-> SetToSeq(Buffers[t])]
  /\ vtq = [t \in Tunnels |-> <<>>] /\ open = {} /\ last = 0
  /\ conn = [t \in Tunnels |-> {}] /\ turn = [t \in Tunnels |-> {}]
  /\ list = [t \in Tunnels |-> <<>>]
  /\ fences = [t \in Tunnels |-> NewFences(t)]
  /\ copies = [t \in Tunnels |-> <<>>]
  /\ reading = {}
  /\ dvp = "check" /\ todo = {} /\ got = <<>>
  /\ frame = [d \in Displays |-> NoFrame]
  /\ collected = frame /\ active = frame
  /\ current = [d \in Displays |-> Off] /\ drawing = current
  /\ pset = [d \in Displays |-> FALSE]
  /\ worker = [d \in Displays |-> "idle"]
  /\ failed = {} /\ dropped = {}

(***************************************************************************)
(* The buffers of a tunnel.                                                *)
(***************************************************************************)
\* A new fence for b, which replaces the one b may still have.
AddReleaseFence(f, b) ==
  [f EXCEPT !.ahead = @ + 1, !.armed = @ \cup {b}, !.wait[b] = f.ahead + 1]
AddReleaseRefCnt(f, who, b) == [f EXCEPT !.hold[b] = @ \cup {who}]

\* One release: the timeline advances, every pending fence comes closer.
Advance(f) == [f EXCEPT !.ahead = @ - 1,
                        !.wait = [b \in DOMAIN @ |-> IF @[b] = 0 THEN 0 ELSE @[b] - 1]]

\* Mutant: the reference count is ignored.
SignalWhateverIsHeld(f, who, b) ==
  IF b \in f.armed THEN Advance([f EXCEPT !.hold[b] = @ \ {who}, !.armed = @ \ {b}]) ELSE f

\* who gives up its reference; the last one releases the buffer.
SignalReleaseFence(f, who, b) ==
  LET left == [f EXCEPT !.hold[b] = @ \ {who}]
  IN  IF b \in f.armed /\ left.hold[b] = {}
      THEN Advance([left EXCEPT !.armed = @ \ {b}])
      ELSE left

\* A display gives up the buffer of a (current or drawing) sideband state.
Released(fs, d, s) ==
  IF s.buf = NoBuf \/ s.t \notin open THEN fs
  ELSE [fs EXCEPT ![s.t] = SignalReleaseFence(@, d, s.buf[1])]

DestoryConnection(cs, who, t) ==
  IF t \in open THEN [cs EXCEPT ![t] = @ \ {who}] ELSE cs

\* A new tunnel wakes the thread, if it already sleeps.
Woken(isNew) == IF isNew /\ dvp = "asleep" THEN "serve" ELSE dvp
\* May the call find or make the tunnel?
Connects(t) == {TRUE} \cup IF t \notin open /\ "connect" \in setup.faults THEN {FALSE} ELSE {}

(***************************************************************************)
(* The producer, outside this process.                                     *)
(***************************************************************************)
\* It takes its buffers in the order they were given back, waits for the
\* buffer's release fence, fills it and queues it.
ProducerQueues(t) ==
  /\ given[t] # <<>> /\ fences[t].wait[Head(given[t])] = 0
  /\ vtq' = [vtq EXCEPT ![t] = Append(@, Head(given[t]))]
  /\ given' = [given EXCEPT ![t] = Tail(@)]
  /\ UNCHANGED <<setup, ctxVars, dvpVars, last, compVars>>

(***************************************************************************)
(* DrmVideoProducer's thread.                                              *)
(***************************************************************************)
\* The map is looked at without the worker's mutex ...
DvpChecks ==
  /\ dvp = "check"
  /\ dvp' = IF open = {} THEN "waits" ELSE "serve"
  /\ UNCHANGED <<setup, given, vtq, ctxVars, todo, got, dropped, last, compVars>>

\* ... and the wait has no condition: a Signal() in between is lost.
DvpSleeps ==
  /\ dvp = "waits" /\ dvp' = "asleep"
  /\ UNCHANGED <<setup, given, vtq, ctxVars, todo, got, dropped, last, compVars>>

\* Tunnels without a connection are closed, when no rotation reads their
\* buffers any more; the timeline goes with them and its fences signal.
DvpServes ==
  LET closing == {t \in open : conn[t] = {}}
      Reset(f, new(_)) == [t \in Tunnels |-> IF t \in closing THEN new(t) ELSE f[t]]
  IN
  /\ dvp = "serve"
  /\ \A t \in closing : \A i \in DOMAIN list[t] : <<t, list[t][i]>> \notin reading
  /\ open' = open \ closing
  /\ fences' = Reset(fences, NewFences)
  /\ list' = Reset(list, LAMBDA t : <<>>)
  /\ copies' = Reset(copies, LAMBDA t : <<>>)
  /\ turn' = Reset(turn, LAMBDA t : {})
  /\ todo' = open \ closing
  /\ dvp' = IF todo' = {} THEN "check" ELSE "acquire"
  /\ UNCHANGED <<setup, given, vtq, conn, reading, got, dropped, last, compVars>>

NextTunnel == CHOOSE t \in todo : \A u \in todo : t <= u
AfterTunnel == /\ todo' = todo \ {NextTunnel}
               /\ dvp' = IF todo' = {} THEN "check" ELSE "acquire"

\* rk_vt_acquire_buffer() timed out: the next tunnel.
DvpTimesOut ==
  /\ dvp = "acquire" /\ vtq[NextTunnel] = <<>>
  /\ AfterTunnel
  /\ UNCHANGED <<setup, given, vtq, ctxVars, got, dropped, last, compVars>>

\* The buffer cannot be imported: it goes back without a fence.
DvpDropsBuffer ==
  /\ dvp = "acquire" /\ vtq[NextTunnel] # <<>>
  /\ "import" \in setup.faults /\ NextTunnel \notin dropped
  /\ vtq' = [vtq EXCEPT ![NextTunnel] = Tail(@)]
  /\ given' = [given EXCEPT ![NextTunnel] = Append(@, Head(vtq[NextTunnel]))]
  /\ dropped' = dropped \cup {NextTunnel}
  /\ AfterTunnel
  /\ UNCHANGED <<setup, ctxVars, got, last, compVars>>

\* The buffer gets a fence and the reference of lBuffer_, and goes back to
\* the producer with the fence.
DvpAcquires ==
  /\ dvp = "acquire" /\ vtq[NextTunnel] # <<>>
  /\ \E t \in {NextTunnel} : \E b \in {Head(vtq[t])} :
       /\ vtq' = [vtq EXCEPT ![t] = Tail(@)]
       /\ given' = [given EXCEPT ![t] = Append(@, b)]
       /\ fences' = [fences EXCEPT
                       ![t] = AddReleaseRefCnt(AddReleaseFence(@, b), Listed, b)]
       /\ got' = <<t, b, turn[t] # {}>>
  /\ dvp' = IF turn[NextTunnel] # {} THEN "turn" ELSE "push"
  /\ UNCHANGED <<setup, open, conn, turn, list, copies, reading, todo, dropped, last, compVars>>

\* The rotation of the buffer is started, without mtx_.
DvpRotates ==
  /\ dvp = "turn" /\ dvp' = "push"
  /\ reading' = reading \cup {<<got[1], got[2]>>}
  /\ UNCHANGED <<setup, given, vtq, open, conn, turn, list, fences, copies, todo, got, dropped, last, compVars>>

RgaFinishes ==
  /\ \E r \in reading : reading' = reading \ {r}
  /\ UNCHANGED <<setup, given, vtq, open, conn, turn, list, fences, copies, dvpVars, last, compVars>>

\* Mutant: off by one.
KeepThree(s) == IF Len(s) > 3 THEN Tail(s) ELSE s
KeepTwo(s) == IF Len(s) > 2 THEN Tail(s) ELSE s

\* The buffer, and its copy, join the newest two; the oldest is released
\* once no rotation reads it.
DvpPushes ==
  /\ dvp = "push"
  /\ \E t \in {got[1]} : \E new \in {Append(list[t], got[2])} :
       /\ list' = [list EXCEPT ![t] = KeepTwo(new)]
       /\ copies' = [copies EXCEPT
                       ![t] = IF got[3] THEN KeepTwo(Append(@, got[2]))
                              ELSE <<>>]
       /\ IF Len(new) > 2
          THEN /\ <<t, Head(new)>> \notin reading
               /\ fences' = [fences EXCEPT ![t] = SignalReleaseFence(@, Listed, Head(new))]
          ELSE UNCHANGED fences
  /\ got' = <<>>
  /\ AfterTunnel
  /\ UNCHANGED <<setup, given, vtq, open, conn, turn, reading, dropped, last, compVars>>

(***************************************************************************)
(* SurfaceFlinger's thread: a composition with a video layer of tunnel t,  *)
(* or without one (t = 0), one queued at a time.                           *)
(***************************************************************************)
\* UpdateSidebandMode(): the primary's own connection follows its layer.
UpdateSidebandMode(t) ==
  /\ IF t = last THEN UNCHANGED <<open, conn, turn, dvp, last>>
     ELSE \E old \in {IF last > 0 THEN DestoryConnection(conn, Ui, last) ELSE conn} :
       IF t = 0
       THEN /\ conn' = old
            /\ last' = IF last \in open THEN 0 ELSE last
            /\ UNCHANGED <<open, turn, dvp>>
       ELSE \E ok \in Connects(t) :
            /\ open' = IF ok THEN open \cup {t} ELSE open
            /\ conn' = IF ok THEN [old EXCEPT ![t] = @ \cup {Ui}] ELSE old
            /\ dvp' = Woken(ok /\ t \notin open)
            /\ last' = t
            /\ UNCHANGED turn
  /\ UNCHANGED <<list, fences, copies, reading>>

Present(d, t) ==
  /\ frame[d] = NoFrame
  /\ frame' = [frame EXCEPT ![d] = t]
  /\ IF d = 0 THEN UpdateSidebandMode(t) ELSE UNCHANGED <<ctxVars, dvp, last>>
  /\ UNCHANGED <<setup, given, vtq, todo, got, dropped, collected, active, current, drawing, pset, worker, failed>>

(***************************************************************************)
(* The compositor's thread of display d.                                   *)
(***************************************************************************)
\* Its loop does not wait while the last state collected is a video.
GoesRound(d) == worker[d] = "idle" /\ (frame[d] # NoFrame \/ current[d].on)

\* CollectSFInfo(): the sideband state of the composition replaces current;
\* a composition that is refused leaves it there.
CollectSF(d) ==
  /\ GoesRound(d)
  /\ worker' = [worker EXCEPT ![d] = "vp"]
  /\ IF frame[d] = NoFrame THEN UNCHANGED <<frame, collected, current, pset, failed>>
     ELSE \E ok \in {TRUE} \cup IF "reject" \in setup.faults /\ d \notin failed THEN {FALSE} ELSE {} :
       /\ frame' = [frame EXCEPT ![d] = NoFrame]
       /\ current' = [current EXCEPT ![d] = [on |-> frame[d] > 0, t |-> frame[d], buf |-> NoBuf]]
       /\ collected' = IF ok THEN [collected EXCEPT ![d] = frame[d]] ELSE collected
       /\ pset' = [pset EXCEPT ![d] = ok]
       /\ failed' = IF ok THEN failed ELSE failed \cup {d}
  /\ UNCHANGED <<setup, given, vtq, ctxVars, dvpVars, last, active, drawing>>

\* AcquireBuffer(): the newest buffer, the older one when the newest is not
\* ready, none when there is none or neither becomes ready in time.
AcquireChoices(d, t) ==
  LET from == IF d \in setup.rotated THEN copies[t] ELSE list[t]
  IN  IF t \notin open \/ from = <<>> THEN {NoBuf}
      ELSE {<<b, d \in setup.rotated>> : b \in Range(from)} \cup IF "fence" \in setup.faults /\ d \notin setup.rotated THEN {NoBuf} ELSE {}

\* CollectVPInfo(), for the composition just collected or the active one.
ShownComposition(d) == IF collected[d] # NoFrame THEN collected[d] ELSE active[d]

CollectVP(d) ==
  /\ worker[d] = "vp"
  /\ worker' = [worker EXCEPT ![d] = "commit"]
  /\ pset' = IF current[d].on THEN [pset EXCEPT ![d] = TRUE] ELSE pset
  /\ \E t \in {ShownComposition(d)} :
       IF ~current[d].on \/ t \notin Tunnels
       THEN UNCHANGED <<open, conn, turn, fences, dvp, current>>
       ELSE \E ok \in Connects(t) :
         /\ open' = IF ok THEN open \cup {t} ELSE open
         /\ conn' = IF ok THEN [conn EXCEPT ![t] = @ \cup {d}] ELSE conn
         /\ turn' = IF ok /\ d \in setup.rotated THEN [turn EXCEPT ![t] = @ \cup {d}] ELSE turn
         /\ dvp' = Woken(ok /\ t \notin open)
         /\ \E buf \in AcquireChoices(d, t) :
              IF buf = NoBuf THEN UNCHANGED <<fences, current>>
              ELSE /\ current' = [current EXCEPT ![d] = [on |-> TRUE, t |-> t, buf |-> buf]]
                   /\ fences' = IF d \in setup.rotated THEN fences
                                ELSE [fences EXCEPT ![t] = AddReleaseRefCnt(@, d, buf[1])]
  /\ UNCHANGED <<setup, given, vtq, list, copies, reading, todo, got, dropped, last, frame, collected,
                 active, drawing, failed>>

\* Mutants: the buffer shown last is released although it is shown again, is
\* never released, the old tunnel keeps its connection.
ReleasesTheShown(d) ==
  \E c \in {current[d]} : \E w \in {drawing[d]} :
    /\ fences' = IF w.t = 0 THEN fences ELSE Released(fences, d, w)
    /\ conn' = IF w.t \in {0, c.t} THEN conn ELSE DestoryConnection(conn, d, w.t)
    /\ drawing' = [drawing EXCEPT ![d] = c]
ForgetsTheShown(d) ==
  /\ conn' = IF drawing[d].t \in {0, current[d].t} THEN conn
             ELSE DestoryConnection(conn, d, drawing[d].t)
  /\ drawing' = [drawing EXCEPT ![d] = current[d]]
  /\ UNCHANGED fences
KeepsTheConnection(d) ==
  \E c \in {current[d]} : \E w \in {drawing[d]} :
    /\ fences' = IF w.t > 0 /\ w # c THEN Released(fences, d, w) ELSE fences
    /\ drawing' = [drawing EXCEPT ![d] = c]
    /\ UNCHANGED conn

\* UpdateSidebandState(), after a commit that succeeded.
UpdateSidebandState(d) ==
  \E c \in {current[d]} : \E w \in {drawing[d]} :
    IF c.t # w.t
    THEN /\ fences' = IF w.t = 0 THEN fences ELSE Released(fences, d, w)
         /\ conn' = IF w.t = 0 THEN conn ELSE DestoryConnection(conn, d, w.t)
         /\ drawing' = [drawing EXCEPT ![d] = c]
    ELSE IF c.t = 0 THEN UNCHANGED <<fences, conn, drawing>>
    ELSE /\ fences' = IF w.buf # c.buf THEN Released(fences, d, w) ELSE fences
         /\ drawing' = [drawing EXCEPT ![d] = [@ EXCEPT !.on = c.on, !.buf = c.buf]]
         /\ UNCHANGED conn

\* Commit() without a request only logs; after the ioctl the composition
\* becomes the active one, whatever came of it.
Commit(d) ==
  /\ worker[d] = "commit"
  /\ worker' = [worker EXCEPT ![d] = "idle"]
  /\ IF ~pset[d] THEN UNCHANGED <<pset, collected, active, fences, conn, drawing, failed>>
     ELSE /\ pset' = [pset EXCEPT ![d] = FALSE]
          /\ active' = [active EXCEPT ![d] = ShownComposition(d)]
          /\ collected' = [collected EXCEPT ![d] = NoFrame]
          /\ \/ UpdateSidebandState(d) /\ UNCHANGED failed
             \/ /\ "commit" \in setup.faults /\ d \notin failed
                /\ failed' = failed \cup {d}
                /\ UNCHANGED <<fences, conn, drawing>>
  /\ UNCHANGED <<setup, given, vtq, open, turn, list, copies, reading, dvpVars, last, frame, current>>

\* ClearDisplay(), of any thread and between any two steps of the worker.
ClearDisplay(d) ==
  /\ frame' = [frame EXCEPT ![d] = NoFrame]
  /\ collected' = [collected EXCEPT ![d] = NoFrame]
  /\ active' = [active EXCEPT ![d] = NoFrame]
  /\ IF current[d].on \/ drawing[d].on
     THEN /\ fences' = Released(Released(fences, d, drawing[d]), d,
                                IF current[d].on THEN current[d] ELSE Off)
          /\ conn' = DestoryConnection(DestoryConnection(conn, d, current[d].t), d, drawing[d].t)
          /\ current' = [current EXCEPT ![d] = IF @.t > 0 THEN Off ELSE @]
          /\ drawing' = [drawing EXCEPT ![d] = IF @.t > 0 THEN Off ELSE @]
     ELSE UNCHANGED <<fences, conn, current, drawing>>
  /\ UNCHANGED <<setup, given, vtq, open, turn, list, copies, reading, dvpVars, last, pset, worker, failed>>

Dvp == \/ DvpChecks \/ DvpSleeps \/ DvpServes \/ DvpTimesOut \/ DvpDropsBuffer
       \/ DvpAcquires \/ DvpRotates \/ DvpPushes
Worker(d) == CollectSF(d) \/ CollectVP(d) \/ Commit(d)

\* Only the tunnels some display may show have a producer.
Fed == (UNION Range(setup.shows)) \cap Tunnels

Next == \/ \E t \in Fed : ProducerQueues(t)
        \/ Dvp
        \/ RgaFinishes
        \/ \E d \in Displays : \E t \in setup.shows[d] : Present(d, t)
        \/ \E d \in Displays : Worker(d)
        \/ \E d \in setup.cleared : ClearDisplay(d)

\* A buffer that waits to be fetched becomes ready some time.
Fetch(d) == CollectVP(d) /\ current'[d].buf \in AcquireChoices(d, ShownComposition(d)) \ {NoBuf}

\* The threads run, the producer fills what it gets, RGA finishes its jobs.
\* Nothing makes SurfaceFlinger present or anyone clear a display.
Fairness == /\ \A t \in Tunnels : WF_vars(t \in Fed /\ ProducerQueues(t))
            /\ WF_vars(Dvp) /\ WF_vars(RgaFinishes)
            /\ \A d \in Displays : WF_vars(Worker(d)) /\ SF_vars(Fetch(d))
Spec == Init /\ [][Next]_vars /\ Fairness

(***************************************************************************)
(* Properties.                                                             *)
(***************************************************************************)
SidebandState(s) == /\ s.on \in BOOLEAN /\ s.t \in Tunnels \cup {0}
                    /\ \/ s.buf = NoBuf
                       \/ s.t > 0 /\ s.buf \in Buffers[s.t] \X BOOLEAN

\* Types; at most two buffers and copies are kept, references are held only
\* by the list and by displays.
TypeOK ==
  /\ \A t \in Tunnels :
       /\ Range(vtq[t] \o given[t]) = Buffers[t] /\ IsInjective(vtq[t] \o given[t])
       /\ conn[t] \subseteq Displays \cup {Ui} /\ turn[t] \subseteq setup.rotated
       /\ Range(list[t]) \subseteq Buffers[t] /\ Len(list[t]) <= 2
       /\ fences[t].hold \in [Buffers[t] -> SUBSET (Displays \cup {Listed})]
       /\ fences[t].armed \subseteq Buffers[t] /\ fences[t].ahead \in Nat
       /\ fences[t].wait \in [Buffers[t] -> 0 .. fences[t].ahead]
       /\ Range(copies[t]) \subseteq Buffers[t] /\ Len(copies[t]) <= 2
  /\ open \subseteq Tunnels /\ todo \subseteq open /\ last \in Tunnels \cup {0}
  /\ dvp \in {"check", "waits", "asleep", "serve", "acquire", "turn", "push"}
  /\ got # <<>> <=> dvp \in {"turn", "push"}
  /\ \A d \in Displays :
       /\ {frame[d], collected[d], active[d]} \subseteq Tunnels \cup {0, NoFrame}
       /\ SidebandState(current[d]) /\ SidebandState(drawing[d])
       /\ worker[d] \in {"idle", "vp", "commit"} /\ pset[d] \in BOOLEAN

\* The buffer of the last successful commit keeps its tunnel connected and
\* keeps the display's reference, through failed commits, refused
\* compositions, changes of tunnel and ClearDisplay(): without either the
\* tunnel is closed or the buffer returned under a picture on the screen.
DrawnIsHeld ==
  \A d \in Displays : drawing[d].buf # NoBuf =>
    /\ drawing[d].t \in open /\ d \in conn[drawing[d].t]
    /\ d \in setup.rotated \/ d \in fences[drawing[d].t].hold[drawing[d].buf[1]]

\* As long as none of a display's compositions or commits was refused, it
\* has a connection only to the tunnels of its current and drawing state,
\* and references only to their buffers.
Uses(d, t, b) == \E s \in {current[d], drawing[d]} : s.t = t /\ s.buf = <<b, FALSE>>
NothingLeaks ==
  \A d \in Displays \ failed : \A t \in open :
    /\ d \in conn[t] => t \in {current[d].t, drawing[d].t}
    /\ \A b \in Buffers[t] : d \in fences[t].hold[b] => Uses(d, t, b)

\* The release fence of a buffer that may still be fetched for a display, or
\* is about to join those, has not signalled: the timeline, which advances
\* whichever buffer is released, is never ahead of the two newest.
Newest(t) == Range(list[t]) \cup {b \in Buffers[t] : got # <<>> /\ got[1] = t /\ got[2] = b}
ListedIsPending ==
  \A t \in open : \A b \in Newest(t) : fences[t].wait[b] > 0

\* Buffers keep leaving a tunnel of three buffers or more for as long as it
\* is connected, unless
\*  - a composition or commit was refused, whose reference is never given back,
\*  - the thread's only wake-up was lost, or
\*  - an import of the tunnel failed while its timeline is behind: a buffer
\*    whose fence signalled early is acquired again before its release, its
\*    fence is replaced, and the advance owed to the old one never comes.
Overslept == dvp = "asleep" /\ open # {}
TimelineBehind(t) == fences[t].ahead > Cardinality(fences[t].armed)
VideoFlows ==
  \A t \in {u \in Tunnels : Cardinality(Buffers[u]) > 2} :
    \/ []<>(failed # {} \/ (t \in dropped /\ TimelineBehind(t)) \/ Overslept \/ t \notin open \/ conn[t] = {})
    \/ []<><<Len(vtq'[t]) < Len(vtq[t])>>_vtq
=============================================================================
