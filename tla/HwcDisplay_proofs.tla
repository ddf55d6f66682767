-------------------------- MODULE HwcDisplay_proofs --------------------------
(***************************************************************************)
(* Proofs about the primary display's front end, for any sizes and any     *)
(* situations to start in: the recording sessions are counted exactly, and *)
(* the sink is sent HDR exactly while the screen shows it.                 *)
(***************************************************************************)
EXTENDS HwcDisplay, FiniteSetTheorems, TLAPS

(***************************************************************************)
(* Recording sessions.                                                     *)
(***************************************************************************)
RmFields == {"ref", "mode", "owner", "size", "next", "drawing", "finish", "ring", "max", "buf"}

(* Without a session there is no mode, so that nothing is swapped or resized *)
(* either.                                                                   *)
Unused(r) == r.mode = "none" /\ r.next = None /\ r.drawing = None /\ r.finish = <<>>

(* The sessions of r are those of the virtual displays v.                    *)
Counted(r, v) ==
  /\ IsFiniteSet(v) /\ r.ref = Cardinality(v)
  /\ r.ref = 0 => Unused(r)

SessionsOf(r, v, p) == DOMAIN r = RmFields /\ ("refused" \notin p => Counted(r, v))
Sessions == SessionsOf(rm, DOMAIN vds, past)

(* The compositor knows of the writeback connector it has attached.          *)
AttachedOf(at, on, p) == at \in BOOLEAN /\ on \in BOOLEAN /\ (at /\ "late" \notin p => on)
Known == reqOff \in BOOLEAN /\ AttachedOf(attached, wbOn, past)

(***************************************************************************)
(* HDR.                                                                    *)
(***************************************************************************)
SetupFields == {"app", "frames", "sessions", "moves", "resizes", "fails", "kinds", "sink", "other", "mode",
                "swaps", "ways", "configs", "fixed", "wishes"}

Spaces == {"sdr", "pq", "hlg"}
HdrSets == { s \in [hdr : BOOLEAN, space : Spaces, ten : BOOLEAN] : s.hdr <=> s.space # "sdr" }
HdrModes == { h \in [on : BOOLEAN, space : Spaces] : h.on <=> h.space # "sdr" }

Requesting == cw \in {"rga", "rgaswap", "ioctl"}
PsetFields == {"c", "off", "switch"}

(* What the stages of the pipeline hold.                                     *)
Compositions ==
  /\ DOMAIN setup = SetupFields
  /\ hdr \in HdrModes
  /\ queue # NoComp => queue.set \in HdrSets
  /\ cw \in {"size", "next"} => pset.set \in HdrSets
  /\ Requesting \/ cw = "tail" => DOMAIN pset = PsetFields /\ pset.c.set \in HdrSets
  /\ shown.set \in HdrSets
  /\ modeset \in [current : HdrSets, request : HdrSets, need : BOOLEAN]
  /\ cw \in {"idle", "size", "next", "rga", "rgaswap", "ioctl", "tail"}

(* A request carries a switch exactly if it is needed, and what is still to  *)
(* be switched is what the request carries, unless a commit failed.          *)
Requests ==
  /\ Requesting => /\ pset.switch <=> Differs(pset.c.set, modeset.current)
                   /\ pset.switch => modeset.need /\ modeset.request = pset.c.set
  /\ "lost" \notin past => (modeset.need => Requesting /\ pset.switch)

(* The wire carries what a composition of the set s needs.                   *)
Carries(w, s) ==
  /\ w.eotf # "sdr" <=> s.hdr
  /\ w.depth = IF s.hdr /\ s.ten THEN 30 ELSE 24

Switched ==
  "lost" \notin past /\ setup.sink = {"pq", "hlg"} =>
    Carries(wire, modeset.current) /\ ~Differs(shown.set, modeset.current)

HdrInv == Compositions /\ Requests /\ Switched

(***************************************************************************)
(* What the functions of ResourceManager leave alone.                      *)
(***************************************************************************)
LEMMA FreedKeeps ==
  ASSUME NEW r, DOMAIN r = RmFields
  PROVE  /\ DOMAIN Freed(r) = RmFields
         /\ Freed(r).ref = r.ref /\ Freed(r).mode = r.mode
         /\ Freed(r).next = r.next /\ Freed(r).drawing = r.drawing /\ Freed(r).finish = r.finish
  BY DEF Freed, RmFields

(* A next buffer changes neither the sessions nor their mode.                *)
LEMMA NextBufferKeeps ==
  ASSUME NEW r, DOMAIN r = RmFields, NEW size_
  PROVE  /\ DOMAIN NextBuffer(r, size_) = RmFields
         /\ NextBuffer(r, size_).ref = r.ref /\ NextBuffer(r, size_).mode = r.mode
<1> DEFINE b == IF Reuses(r, size_) THEN Head(r.ring) ELSE NewBuffer(r)
           old == IF Full(r) THEN Tail(r.ring) ELSE r.ring
           new == IF Reuses(r, size_) THEN r.buf ELSE WithBuffer(r, b, size_)
           e == [r EXCEPT !.next = b, !.size = size_, !.ring = Append(old, b), !.buf = new]
<1>1. NextBuffer(r, size_) = Freed(e)
  BY DEF NextBuffer
<1> HIDE DEF b, old, new
<1>2. DOMAIN e = RmFields /\ e.ref = r.ref /\ e.mode = r.mode
  BY DEF RmFields
<1> HIDE DEF e
<1> QED BY <1>1, <1>2, FreedKeeps

LEMMA SwapKeeps ==
  ASSUME NEW r, DOMAIN r = RmFields, NEW n
  PROVE  /\ DOMAIN SwapWBBuffer(r, n) = RmFields
         /\ SwapWBBuffer(r, n).ref = r.ref /\ SwapWBBuffer(r, n).mode = r.mode
         /\ r.ref = 0 => SwapWBBuffer(r, n) = r
<1> DEFINE done == IF r.drawing = None THEN r.finish
                   ELSE KeepFinished(Append(r.finish, [no |-> n, buf |-> r.drawing]))
           e == [r EXCEPT !.finish = done, !.drawing = r.next]
<1>1. SwapWBBuffer(r, n) = IF r.ref > 0 THEN NextBuffer(e, r.size) ELSE r
  BY DEF SwapWBBuffer, isWBMode
<1> HIDE DEF done
<1>2. DOMAIN e = RmFields /\ e.ref = r.ref /\ e.mode = r.mode
  BY DEF RmFields
<1> HIDE DEF e
<1> DEFINE s == r.size
<1> HIDE DEF s
<1>3. DOMAIN NextBuffer(e, s) = RmFields /\ NextBuffer(e, s).ref = e.ref /\ NextBuffer(e, s).mode = e.mode
  BY <1>2, NextBufferKeeps
<1>4. SwapWBBuffer(r, n) = IF r.ref > 0 THEN NextBuffer(e, s) ELSE r
  BY <1>1 DEF s
<1> QED BY <1>2, <1>3, <1>4

(* A change of size happens in a session only: without one there is no mode. *)
LEMMA ResizeKeeps ==
  ASSUME NEW r, DOMAIN r = RmFields, NEW size_, r.ref = 0 => r.mode = "none"
  PROVE  /\ DOMAIN UpdateWriteBackResolution(r, size_) = RmFields
         /\ UpdateWriteBackResolution(r, size_).ref = r.ref
         /\ r.ref = 0 => UpdateWriteBackResolution(r, size_) = r
  BY NextBufferKeeps DEF UpdateWriteBackResolution, Resizes

LEMMA WrittenKeeps ==
  ASSUME NEW r, DOMAIN r = RmFields, NEW b, NEW n,
         NEW s, s = [r EXCEPT !.buf[b].n = n]
  PROVE  /\ DOMAIN s = RmFields
         /\ s.ref = r.ref /\ s.mode = r.mode
         /\ s.next = r.next /\ s.drawing = r.drawing /\ s.finish = r.finish
  BY DEF RmFields

(* The first session makes the ring and the next buffer, the others count.   *)
LEMMA EnableCounts ==
  ASSUME NEW r, DOMAIN r = RmFields, NEW cable, NEW size_
  PROVE  /\ DOMAIN EnableWriteBackMode(r, cable, size_) = RmFields
         /\ r.ref > 0 => EnableWriteBackMode(r, cable, size_).ref = r.ref + 1
         /\ r.ref = 0 => EnableWriteBackMode(r, cable, size_).ref \in {0, 1}
<1> DEFINE chosen == [r EXCEPT !.mode = ChooseWriteBackMode(cable, size_)]
           ringed == WithRing(chosen)
           s == WbSize(chosen, size_)
           first == NextBuffer(ringed, s)
           enabled == [first EXCEPT !.ref = @ + 1, !.owner = 0]
<1>1. EnableWriteBackMode(r, cable, size_)
        = IF r.ref > 0 THEN [r EXCEPT !.ref = @ + 1] ELSE IF chosen.mode = "none" THEN chosen ELSE enabled
  BY DEF EnableWriteBackMode
<1>2. DOMAIN chosen = RmFields /\ chosen.ref = r.ref
  BY DEF RmFields
<1>3. DOMAIN ringed = RmFields /\ ringed.ref = r.ref
  BY <1>2 DEF WithRing, RmFields
<1> HIDE DEF chosen, ringed, s
<1>4. DOMAIN first = RmFields /\ first.ref = r.ref
  BY <1>3, NextBufferKeeps
<1> HIDE DEF first
<1>5. DOMAIN enabled = RmFields /\ enabled.ref = r.ref + 1
  BY <1>4 DEF RmFields
<1> HIDE DEF enabled
<1>6. /\ DOMAIN [r EXCEPT !.ref = @ + 1] = RmFields
      /\ [r EXCEPT !.ref = @ + 1].ref = r.ref + 1
  BY DEF RmFields
<1> QED BY <1>1, <1>2, <1>5, <1>6

(* The last session takes everything with it.                                *)
LEMMA DisableCounts ==
  ASSUME NEW r, DOMAIN r = RmFields
  PROVE  /\ DOMAIN DisableWriteBackMode(r) = RmFields
         /\ DisableWriteBackMode(r).ref = r.ref - 1
         /\ r.ref > 1 \/ Unused(DisableWriteBackMode(r))
<1> DEFINE e == [r EXCEPT !.ref = @ - 1, !.mode = "none", !.owner = -1, !.finish = <<>>,
                       !.drawing = None, !.next = None]
           less == [r EXCEPT !.ref = @ - 1]
<1>1. DisableWriteBackMode(r) = IF r.ref > 1 THEN less ELSE Freed(e)
  BY DEF DisableWriteBackMode
<1>2. DOMAIN e = RmFields /\ e.ref = r.ref - 1 /\ Unused(e)
  BY DEF RmFields, Unused
<1>3. DOMAIN less = RmFields /\ less.ref = r.ref - 1
  BY DEF RmFields
<1> HIDE DEF e, less
<1>4. DOMAIN Freed(e) = RmFields /\ Freed(e).ref = r.ref - 1 /\ Unused(Freed(e))
  BY <1>2, FreedKeeps DEF Unused
<1> QED BY <1>1, <1>3, <1>4

(***************************************************************************)
(* The sessions.                                                           *)
(***************************************************************************)
LEMMA SessionsSame ==
  ASSUME Sessions, rm' = rm, DOMAIN vds' = DOMAIN vds, "refused" \in past => "refused" \in past'
  PROVE  Sessions'
  BY DEF Sessions, SessionsOf

(* What changes the bookkeeping but not the sessions.                        *)
LEMMA SessionsKept ==
  ASSUME Sessions, DOMAIN rm' = RmFields, vds' = vds, "refused" \in past => "refused" \in past',
         rm'.ref = rm.ref,
         "refused" \notin past /\ rm.ref = 0 => Unused(rm')
  PROVE  Sessions'
  BY DEF Sessions, SessionsOf, Counted

LEMMA SwapsSession ==
  ASSUME Sessions, NEW by, NEW b, Swap(by, b), vds' = vds
  PROVE  Sessions'
<1>1. DOMAIN rm = RmFields /\ ("refused" \notin past /\ rm.ref = 0 => Unused(rm))
  BY DEF Sessions, SessionsOf, Counted
<1> DEFINE n == pset.c.n
<1>2. rm' = SwapWBBuffer(rm, n) /\ ("refused" \in past => "refused" \in past')
  BY DEF Swap
<1> HIDE DEF n
<1>3. DOMAIN rm' = RmFields /\ rm'.ref = rm.ref /\ (rm.ref = 0 => rm' = rm)
  BY <1>1, <1>2, SwapKeeps
<1> QED BY <1>1, <1>2, <1>3, SessionsKept

LEMMA ResizesSession ==
  ASSUME Sessions, CollectSize
  PROVE  Sessions'
<1>1. /\ DOMAIN rm = RmFields
      /\ "refused" \notin past /\ rm.ref = 0 => Unused(rm)
  BY DEF Sessions, SessionsOf, Counted
<1>2. vds' = vds /\ ("refused" \in past => "refused" \in past')
  BY DEF CollectSize, Reject, sfVars
<1> DEFINE s == size
<1>3. rm' = rm \/ (rm' = UpdateWriteBackResolution(rm, s) /\ CanWriteBack(rm, connected))
  BY DEF CollectSize, Reject
<1> HIDE DEF s
<1>4. CASE rm' = rm
  BY <1>2, <1>4, SessionsSame
<1>5. CASE /\ rm' = UpdateWriteBackResolution(rm, s) /\ CanWriteBack(rm, connected)
           /\ rm.ref = 0 => rm.mode = "none"
  <2>1. DOMAIN rm' = RmFields /\ rm'.ref = rm.ref /\ (rm.ref = 0 => rm' = rm)
    BY <1>1, <1>5, ResizeKeeps
  <2> QED BY <1>1, <1>2, <2>1, SessionsKept
<1>6. CASE /\ rm' = UpdateWriteBackResolution(rm, s)
           /\ "refused" \in past
  <2>1. DOMAIN rm' = RmFields
    BY <1>1, <1>6, NextBufferKeeps DEF UpdateWriteBackResolution
  <2> QED BY <1>2, <1>6, <2>1 DEF Sessions, SessionsOf
<1> QED BY <1>1, <1>3, <1>4, <1>5, <1>6 DEF Unused

(* A virtual display gets an id nobody has, or the action does not happen.   *)
LEMMA CreatesSession ==
  ASSUME Sessions, CreateVirtualDisplay
  PROVE  Sessions'
<1>1. DOMAIN rm = RmFields /\ ("refused" \notin past => Counted(rm, DOMAIN vds))
  BY DEF Sessions, SessionsOf
<1> DEFINE s == size
<1>2. /\ rm' = EnableWriteBackMode(rm, connected, s)
      /\ past' = past \cup IF ~isWBMode(rm') THEN {"refused"} ELSE {}
  BY DEF CreateVirtualDisplay
<1>3. PICK id : id \notin DOMAIN vds /\ DOMAIN vds' = DOMAIN vds \cup {id}
  BY DEF CreateVirtualDisplay
<1> HIDE DEF s
<1>4. /\ DOMAIN rm' = RmFields
      /\ rm.ref > 0 => rm'.ref = rm.ref + 1
      /\ rm.ref = 0 => rm'.ref \in {0, 1}
  BY <1>1, <1>2, EnableCounts
<1>5. CASE "refused" \in past'
  BY <1>4, <1>5 DEF Sessions, SessionsOf
<1>6. CASE "refused" \notin past'
  <2>1. rm'.ref > 0 /\ "refused" \notin past
    BY <1>2, <1>6 DEF isWBMode
  <2>2. IsFiniteSet(DOMAIN vds) /\ rm.ref = Cardinality(DOMAIN vds) /\ rm.ref \in Nat
    BY <1>1, <2>1, FS_CardinalityType DEF Counted
  <2>3. IsFiniteSet(DOMAIN vds') /\ Cardinality(DOMAIN vds') = Cardinality(DOMAIN vds) + 1
    BY <1>3, <2>2, FS_AddElement
  <2>4. rm'.ref = Cardinality(DOMAIN vds')
    BY <1>4, <2>1, <2>2, <2>3
  <2>5. Counted(rm', DOMAIN vds')
    BY <2>1, <2>3, <2>4 DEF Counted
  <2> QED BY <1>4, <2>5 DEF Sessions, SessionsOf
<1> QED BY <1>5, <1>6

LEMMA DestroysSession ==
  ASSUME Sessions, DestroyVirtualDisplay
  PROVE  Sessions'
<1>1. DOMAIN rm = RmFields /\ ("refused" \notin past => Counted(rm, DOMAIN vds))
  BY DEF Sessions, SessionsOf
<1>2. rm' = DisableWriteBackMode(rm) /\ past' = past
  BY DEF DestroyVirtualDisplay, cwVars
<1>3. PICK v \in DOMAIN vds : DOMAIN vds' = DOMAIN vds \ {v}
  BY DEF DestroyVirtualDisplay, Restrict
<1>4. /\ DOMAIN rm' = RmFields
      /\ rm'.ref = rm.ref - 1
      /\ rm.ref > 1 \/ Unused(rm')
  BY <1>1, <1>2, DisableCounts
<1>5. CASE "refused" \in past
  BY <1>2, <1>4, <1>5 DEF Sessions, SessionsOf
<1>6. CASE "refused" \notin past
  <2>1. IsFiniteSet(DOMAIN vds) /\ rm.ref = Cardinality(DOMAIN vds) /\ rm.ref \in Nat
    BY <1>1, <1>6, FS_CardinalityType DEF Counted
  <2>2. IsFiniteSet(DOMAIN vds') /\ Cardinality(DOMAIN vds') = Cardinality(DOMAIN vds) - 1
    BY <1>3, <2>1, FS_RemoveElement, ZenonT(30)
  <2>3. rm'.ref = Cardinality(DOMAIN vds') /\ (rm'.ref = 0 => Unused(rm'))
    BY <1>4, <2>1, <2>2
  <2>4. Counted(rm', DOMAIN vds')
    BY <2>2, <2>3 DEF Counted
  <2> QED BY <1>4, <2>4 DEF Sessions, SessionsOf
<1> QED BY <1>5, <1>6

(* A picture that is drawn, or complete, is no session.                      *)
LEMMA DrawsSession ==
  ASSUME Sessions, NEW b, NEW n, rm' = [rm EXCEPT !.buf[b].n = n], vds' = vds,
         "refused" \in past => "refused" \in past'
  PROVE  Sessions'
<1>1. DOMAIN rm = RmFields /\ ("refused" \notin past /\ rm.ref = 0 => Unused(rm))
  BY DEF Sessions, SessionsOf, Counted
<1>2. /\ DOMAIN rm' = RmFields
      /\ rm'.ref = rm.ref /\ rm'.mode = rm.mode
      /\ rm'.next = rm.next /\ rm'.drawing = rm.drawing /\ rm'.finish = rm.finish
  BY <1>1, WrittenKeeps
<1>3. rm.ref = 0 /\ "refused" \notin past => Unused(rm')
  BY <1>1, <1>2 DEF Unused
<1> QED BY <1>2, <1>3, SessionsKept

LEMMA SessionsInit == Init => Sessions
<1> SUFFICES ASSUME Init PROVE Sessions
  OBVIOUS
<1>1. DOMAIN rm = RmFields /\ rm.ref = 0 /\ Unused(rm)
  BY DEF Init, WritebackInit, RmFields, Unused
<1>2. DOMAIN vds = {}
  BY DEF Init
<1>3. Counted(rm, DOMAIN vds)
  BY <1>1, <1>2, FS_EmptySet DEF Counted
<1> QED BY <1>1, <1>3 DEF Sessions, SessionsOf

LEMMA SessionsStep == Sessions /\ [Next]_vars => Sessions'
<1> SUFFICES ASSUME Sessions, [Next]_vars PROVE Sessions'
  OBVIOUS
<1> USE DEF sfVars, cwVars, wbVars, refreshVars
<1>1. CASE SetsLayers
  BY <1>1, SessionsSame DEF SetsLayers
<1>2. CASE UpdatesMode
  BY <1>2, SessionsSame DEF UpdatesMode, Unswitched
<1>3. CASE ValidateDisplay
  BY <1>3, SessionsSame DEF ValidateDisplay
<1>4. CASE CountsConfigs \/ ReadsConfigs \/ SetsClientTarget
  BY <1>4, SessionsSame DEF CountsConfigs, ReadsConfigs, SetsClientTarget
<1>5. CASE PresentDisplay
  BY <1>5, SessionsSame DEF PresentDisplay, ImportFails
<1>6. CASE OutputWBBuffer
  BY <1>6, SessionsSame DEF OutputWBBuffer
<1>7. CASE OutputDone
  <2>1. DOMAIN vds' = DOMAIN vds
    BY <1>7 DEF OutputDone
  <2> QED BY <1>7, <2>1, SessionsSame DEF OutputDone
<1>8. CASE PresentsClientTarget \/ CycleEnds
  BY <1>8, SessionsSame DEF PresentsClientTarget, CycleEnds
<1>9. CASE SetsConfig \/ RequestsMode \/ TellsTimeline
  BY <1>9, SessionsSame DEF SetsConfig, RequestsMode, TellsTimeline, Unswitched
<1>10. CASE CreateVirtualDisplay
  BY <1>10, CreatesSession
<1>11. CASE DestroyVirtualDisplay
  BY <1>11, DestroysSession
<1>12. CASE Collect
  BY <1>12, SessionsSame DEF Collect
<1>13. CASE CollectSize
  BY <1>13, ResizesSession
<1>14. CASE CollectNext
  BY <1>14, SessionsSame DEF CollectNext, Reject
<1>15. CASE WriteBackByRGA
  <2>1. rm' = rm \/ rm' = DrawsBottom(rm, pset.c.n)
    BY <1>15 DEF WriteBackByRGA
  <2>2. vds' = vds /\ ("refused" \in past => "refused" \in past')
    BY <1>15 DEF WriteBackByRGA
  <2>3. CASE rm' = rm
    BY <2>2, <2>3, SessionsSame
  <2>4. CASE rm' = DrawsBottom(rm, pset.c.n)
    <3> DEFINE b == rm.next
              n == pset.c.n
    <3>1. rm' = [rm EXCEPT !.buf[b].n = n]
      BY <2>4 DEF DrawsBottom
    <3> HIDE DEF b, n
    <3> QED BY <2>2, <3>1, DrawsSession
  <2> QED BY <2>1, <2>3, <2>4
<1>16. CASE RgaSwaps
  <2>1. vds' = vds /\ (Swap("rga", dst) \/ (rm' = rm /\ ("refused" \in past => "refused" \in past')))
    BY <1>16 DEF RgaSwaps, SwapsNothing
  <2> QED BY <2>1, SwapsSession, SessionsSame
<1>17. CASE Commits
  BY <1>17, SessionsSame DEF Commits
<1>18. CASE CommitFails
  BY <1>18, SessionsSame DEF CommitFails
<1>19. CASE CommitTail
  <2>1. vds' = vds /\ (Swap("vop", held) \/ (rm' = rm /\ ("refused" \in past => "refused" \in past')))
    BY <1>19 DEF CommitTail
  <2> QED BY <2>1, SwapsSession, SessionsSame
<1>20. CASE Iw \/ Alarm
  BY <1>20, SessionsSame DEF Iw, Alarm
<1>21. CASE Hardware
  <2>1. PICK j \in jobs : rm' = [rm EXCEPT !.buf[j.buf].n = j.n]
    BY <1>21 DEF Hardware, JobFinishes
  <2> DEFINE b == j.buf
            n == j.n
  <2>2. rm' = [rm EXCEPT !.buf[b].n = n]
    BY <2>1
  <2>3. vds' = vds /\ past' = past
    BY <1>21 DEF Hardware
  <2> HIDE DEF b, n
  <2> QED BY <2>2, <2>3, DrawsSession
<1>22. CASE MoveCable
  BY <1>22, SessionsSame DEF MoveCable
<1>23. CASE EventThread
  BY <1>23, SessionsSame
  DEF EventThread, EventTaken, EventClears, EventReinits, EventConfigures, EventRefreshes
<1>24. CASE UNCHANGED vars
  BY <1>24, SessionsSame DEF vars
<1> QED
  BY <1>1, <1>2, <1>3, <1>4, <1>5, <1>6, <1>7, <1>8, <1>9, <1>10, <1>11, <1>12, <1>13, <1>14, <1>15,
     <1>16, <1>17, <1>18, <1>19, <1>20, <1>21, <1>22, <1>23, <1>24
  DEF Next, SfGoesOn, Compositor

(***************************************************************************)
(* The writeback connector.                                                *)
(***************************************************************************)
LEMMA KnownSame ==
  ASSUME Known, reqOff' = reqOff, attached' = attached, wbOn' = wbOn, "late" \in past => "late" \in past'
  PROVE  Known'
  BY DEF Known, AttachedOf

(* Writeback is never switched on without the connector being known.         *)
LEMMA KnownOn ==
  ASSUME Known, reqOff' = reqOff, attached' = attached, wbOn' \in BOOLEAN, wbOn => wbOn',
         "late" \in past => "late" \in past'
  PROVE  Known'
  BY DEF Known, AttachedOf

LEMMA KnownCleared ==
  ASSUME Known, ClearDisplay, past \subseteq past'
  PROVE  Known'
  BY DEF Known, AttachedOf, ClearDisplay

LEMMA KnownStep == Known /\ [Next]_vars => Known'
<1> SUFFICES ASSUME Known, [Next]_vars PROVE Known'
  OBVIOUS
<1> USE DEF sfVars, cwVars, wbVars, refreshVars
<1>1. CASE SetsLayers
  BY <1>1, KnownSame DEF SetsLayers
<1>2. CASE UpdatesMode
  BY <1>2, KnownSame, KnownCleared DEF UpdatesMode, Unswitched
<1>3. CASE ValidateDisplay
  BY <1>3, KnownSame DEF ValidateDisplay
<1>4. CASE CountsConfigs \/ ReadsConfigs \/ SetsClientTarget
  BY <1>4, KnownSame DEF CountsConfigs, ReadsConfigs, SetsClientTarget
<1>5. CASE PresentDisplay
  BY <1>5, KnownSame, KnownCleared DEF PresentDisplay, ImportFails
<1>6. CASE OutputWBBuffer \/ OutputDone
  BY <1>6, KnownSame DEF OutputWBBuffer, OutputDone
<1>7. CASE PresentsClientTarget \/ CycleEnds
  BY <1>7, KnownSame DEF PresentsClientTarget, CycleEnds
<1>8. CASE SetsConfig \/ RequestsMode \/ TellsTimeline
  BY <1>8, KnownSame DEF SetsConfig, RequestsMode, TellsTimeline, Unswitched
<1>9. CASE CreateVirtualDisplay \/ DestroyVirtualDisplay
  BY <1>9, KnownSame DEF CreateVirtualDisplay, DestroyVirtualDisplay
<1>10. CASE Collect
  BY <1>10 DEF Collect, CollectCommitInfo, CollectModeSetInfo, Known, AttachedOf
<1>11. CASE CollectSize
  BY <1>11, KnownSame DEF CollectSize, Reject
<1>12. CASE CollectNext
  BY <1>12, KnownSame, KnownOn DEF CollectNext, Reject
<1>13. CASE WriteBackByRGA
  BY <1>13, KnownSame, KnownOn DEF WriteBackByRGA
<1>14. CASE RgaSwaps
  BY <1>14, KnownSame DEF RgaSwaps, Swap, SwapsNothing
<1>15. CASE Commits
  BY <1>15 DEF Commits, Known, AttachedOf
<1>16. CASE CommitFails
  BY <1>16, KnownSame DEF CommitFails
<1>17. CASE CommitTail
  BY <1>17 DEF CommitTail, Swap, Known, AttachedOf
<1>18. CASE Iw \/ Alarm \/ Hardware
  BY <1>18, KnownSame DEF Iw, Alarm, Hardware
<1>19. CASE MoveCable
  BY <1>19, KnownSame DEF MoveCable
<1>20. CASE EventThread
  BY <1>20, KnownSame, KnownCleared
  DEF EventThread, EventTaken, EventClears, EventReinits, EventConfigures, EventRefreshes
<1>21. CASE UNCHANGED vars
  BY <1>21, KnownSame DEF vars
<1> QED
  BY <1>1, <1>2, <1>3, <1>4, <1>5, <1>6, <1>7, <1>8, <1>9, <1>10, <1>11, <1>12, <1>13, <1>14, <1>15,
     <1>16, <1>17, <1>18, <1>19, <1>20, <1>21
  DEF Next, SfGoesOn, Compositor

(* Unless a session was refused, the sessions counted are the virtual        *)
(* displays that exist, and without any no buffer is held; the writeback     *)
(* connector is attached only if the compositor knows that it has to be      *)
(* detached, unless a commit came too late to be noted: EnableWriteBackMode, *)
(* DisableWriteBackMode and the compositor's bWriteBackEnable_.              *)
THEOREM SessionsAreExact == Spec => []SessionsExact
<1> DEFINE Inv == Sessions /\ Known
<1>1. Init => Inv
  BY SessionsInit DEF Init, Known, AttachedOf
<1>2. Inv /\ [Next]_vars => Inv'
  BY SessionsStep, KnownStep
<1>3. Inv => SessionsExact
  BY DEF Sessions, SessionsOf, Counted, Unused, Known, AttachedOf, SessionsExact
<1> QED BY <1>1, <1>2, <1>3, PTL DEF Spec

(***************************************************************************)
(* HDR: what is composed, requested and sent.                              *)
(***************************************************************************)
LEMMA SwitchesHdrMode ==
  ASSUME hdr \in HdrModes, NEW k, SwitchHdrMode(k)
  PROVE  hdr' \in HdrModes
<1>1. SdrMode \in HdrModes
  BY DEF SdrMode, HdrModes, Spaces
<1>2. PICK disable \in DisableHdrMode(k) : hdr' = IF disable THEN SdrMode ELSE EnableHdrMode(k)
  BY DEF SwitchHdrMode
<1>3. CASE disable = TRUE
  BY <1>1, <1>2, <1>3
<1>4. CASE disable = FALSE
  <2>1. Transfer(k) # "sdr"
    BY <1>4 DEF DisableHdrMode
  <2>2. Transfer(k) \in Spaces
    BY DEF Transfer, Spaces
  <2>3. [on |-> TRUE, space |-> Transfer(k)] \in HdrModes
    BY <2>1, <2>2 DEF HdrModes
  <2> QED BY <1>1, <1>2, <1>4, <2>3 DEF EnableHdrMode
<1> QED BY <1>3, <1>4 DEF DisableHdrMode

LEMMA ComposesHdrSet ==
  ASSUME hdr \in HdrModes
  PROVE  Composition.set \in HdrSets
<1> DEFINE ten == Yuv10(kind) /\ ~valid.gpu
<1>1. ten \in BOOLEAN
  BY Zenon
<1>2. Composition.set = [hdr |-> hdr.on, space |-> hdr.space, ten |-> ten]
  BY DEF Composition, SetDisplayHdrMode
<1> HIDE DEF ten
<1>3. hdr.on \in BOOLEAN /\ hdr.space \in Spaces /\ (hdr.on <=> hdr.space # "sdr")
  BY DEF HdrModes
<1> DEFINE on == hdr.on
           space == hdr.space
<1>4. Composition.set = [hdr |-> on, space |-> space, ten |-> ten]
  BY <1>2
<1>5. on \in BOOLEAN /\ space \in Spaces /\ (on <=> space # "sdr")
  BY <1>3
<1> HIDE DEF on, space
<1> QED BY <1>1, <1>4, <1>5 DEF HdrSets

(* What a commit with a switch makes the connector send.                     *)
LEMMA WireCarries ==
  ASSUME setup.sink = {"pq", "hlg"}, NEW s \in HdrSets
  PROVE  Carries(Wire(s), s)
<1>1. s.hdr \in BOOLEAN /\ s.space \in Spaces /\ s.ten \in BOOLEAN /\ (s.hdr <=> s.space # "sdr")
  BY DEF HdrSets
<1>2. CASE s.space = "sdr"
  BY <1>1, <1>2 DEF Wire, Carries, SdrDepth
<1>3. CASE s.space # "sdr"
  BY <1>1, <1>3 DEF Wire, Carries, Spaces
<1> QED BY <1>2, <1>3

(* Sets that do not differ are carried alike.                                *)
LEMMA AlikeCarried ==
  ASSUME NEW s \in HdrSets, NEW t \in HdrSets, ~Differs(s, t), NEW w, Carries(w, t)
  PROVE  Carries(w, s)
  BY DEF Carries, Differs

LEMMA DiffersIs ==
  ASSUME NEW s \in HdrSets
  PROVE  ~Differs(s, s)
  BY DEF Differs

(* What leaves the compositor and its request alone.                         *)
LEMMA HdrSame ==
  ASSUME HdrInv, DOMAIN setup' = SetupFields, setup'.sink = setup.sink, hdr' \in HdrModes,
         queue' = NoComp \/ queue' = queue \/ queue'.set \in HdrSets,
         cw' = cw, pset' = pset, shown' = shown, modeset' = modeset, wire' = wire,
         "lost" \in past => "lost" \in past'
  PROVE  HdrInv'
<1>1. Compositions'
  BY DEF HdrInv, Compositions, Requesting
<1>2. Requests'
  BY DEF HdrInv, Requests, Requesting
<1>3. Switched'
  BY DEF HdrInv, Switched
<1> QED BY <1>1, <1>2, <1>3 DEF HdrInv

LEMMA SinkKept ==
  ASSUME DOMAIN setup = SetupFields,
         \/ setup' = [setup EXCEPT !.swaps = @ - 1]   \/ setup' = [setup EXCEPT !.fails = @ - 1]
         \/ setup' = [setup EXCEPT !.app = @ - 1]     \/ setup' = [setup EXCEPT !.moves = @ - 1]
         \/ setup' = [setup EXCEPT !.resizes = @ - 1] \/ setup' = [setup EXCEPT !.sessions = @ - 1]
         \/ setup' = [setup EXCEPT !.resizes = @ - 1, !.fails = @ - 1] \/ setup' = setup
  PROVE  DOMAIN setup' = SetupFields /\ setup'.sink = setup.sink /\ setup'.kinds = setup.kinds
  BY DEF SetupFields

LEMMA HdrInit == Init => HdrInv
<1> SUFFICES ASSUME Init PROVE HdrInv
  OBVIOUS
<1>1. Sdr \in HdrSets /\ SdrMode \in HdrModes
  BY DEF Sdr, SdrMode, HdrSets, HdrModes, Spaces
<1>2. DOMAIN setup = SetupFields
  BY HwcDisplayAssumption DEF Init, Setup, SetupFields
<1>3. shown.set = Sdr /\ modeset.current = Sdr /\ modeset.need = FALSE
  BY DEF Init, Screen
<1>4. modeset \in [current : HdrSets, request : HdrSets, need : BOOLEAN]
  BY <1>1 DEF Init
<1>5. Compositions
  BY <1>1, <1>2, <1>3, <1>4 DEF Init, Compositions, Requesting
<1>6. Requests
  BY <1>3 DEF Init, Requests, Requesting
<1>7. Carries(wire, Sdr)
  BY DEF Init, Carries, Sdr
<1>8. Switched
  BY <1>1, <1>3, <1>7, DiffersIs DEF Switched
<1> QED BY <1>5, <1>6, <1>8 DEF HdrInv

(* A composition is collected: with a switch, if it is needed.               *)
LEMMA Requested ==
  ASSUME HdrInv, ~Requesting, NEW c, c.set \in HdrSets, NEW off, CollectModeSetInfo(c, off),
         setup' = setup, hdr' = hdr, queue' = NoComp \/ queue' = queue, shown' = shown, wire' = wire,
         past' = past
  PROVE  HdrInv'
<1> DEFINE switch == Differs(c.set, modeset.current)
<1>1. /\ pset' = [c |-> c, off |-> off, switch |-> switch]
      /\ modeset' = IF switch THEN [modeset EXCEPT !.request = c.set, !.need = TRUE] ELSE modeset
      /\ cw' = "rga"
  BY DEF CollectModeSetInfo
<1>2. /\ modeset \in [current : HdrSets, request : HdrSets, need : BOOLEAN]
      /\ switch \in BOOLEAN
  BY Zenon DEF HdrInv, Compositions, Differs
<1>3. DOMAIN pset' = PsetFields /\ pset'.c = c /\ pset'.switch = switch
  BY <1>1 DEF PsetFields
<1> HIDE DEF switch
<1> DEFINE s == c.set
<1>4. /\ modeset' \in [current : HdrSets, request : HdrSets, need : BOOLEAN]
      /\ modeset'.current = modeset.current
      /\ switch => modeset'.need = TRUE /\ modeset'.request = s
      /\ ~switch => modeset' = modeset
  <2>1. s \in HdrSets /\ modeset' = IF switch THEN [modeset EXCEPT !.request = s, !.need = TRUE] ELSE modeset
    BY <1>1
  <2> HIDE DEF s
  <2> QED BY <1>2, <2>1
<1>5. Compositions'
  BY <1>1, <1>3, <1>4 DEF HdrInv, Compositions, Requesting
<1>6. Requests'
  <2>1. switch <=> Differs(pset'.c.set, modeset'.current)
    BY <1>3, <1>4 DEF switch
  <2>2. "lost" \notin past => ~modeset.need
    BY DEF HdrInv, Requests
  <2> QED BY <1>1, <1>3, <1>4, <2>1, <2>2 DEF Requests, Requesting
<1>7. Switched'
  BY <1>4 DEF HdrInv, Switched
<1> QED BY <1>5, <1>6, <1>7 DEF HdrInv

(* The request is worked on.                                                 *)
LEMMA RequestKept ==
  ASSUME HdrInv, Requesting, Requesting', setup' = setup, hdr' = hdr, queue' = queue, shown' = shown,
         wire' = wire, modeset' = modeset, "lost" \in past => "lost" \in past',
         pset' = pset
  PROVE  HdrInv'
<1>1. Compositions'
  BY DEF HdrInv, Compositions, Requesting
<1>2. Requests'
  BY DEF HdrInv, Requests
<1>3. Switched'
  BY DEF HdrInv, Switched
<1> QED BY <1>1, <1>2, <1>3 DEF HdrInv

(* The compositor's thread stops working on what is no request, or on one it *)
(* could not commit.                                                         *)
LEMMA RequestGone ==
  ASSUME HdrInv, ~Requesting', cw' \in {"idle", "size", "next", "rga", "rgaswap", "ioctl", "tail"},
         DOMAIN setup' = SetupFields, setup'.sink = setup.sink, hdr' = hdr,
         queue' = queue \/ queue' = NoComp, shown' = shown,
         wire' = wire, modeset' = modeset, "lost" \in past => "lost" \in past',
         Requesting /\ pset.switch => "lost" \in past',
         cw' \in {"size", "next"} => pset'.set \in HdrSets,
         cw' # "tail"
  PROVE  HdrInv'
<1>1. Compositions'
  BY DEF HdrInv, Compositions
<1>2. Requests'
  BY DEF HdrInv, Requests
<1>3. Switched'
  BY DEF HdrInv, Switched
<1> QED BY <1>1, <1>2, <1>3 DEF HdrInv

(* A commit: the wire follows a switch, and without one nothing was asked.   *)
LEMMA Committed ==
  ASSUME HdrInv, Commits
  PROVE  HdrInv'
<1> DEFINE c == pset.c.set
<1>1. /\ Requesting /\ c \in HdrSets /\ DOMAIN pset = PsetFields
      /\ modeset \in [current : HdrSets, request : HdrSets, need : BOOLEAN]
      /\ shown.set \in HdrSets
      /\ pset.switch <=> Differs(c, modeset.current)
      /\ pset.switch => modeset.need /\ modeset.request = c
      /\ "lost" \notin past => (modeset.need => pset.switch)
  BY DEF HdrInv, Compositions, Requests, Requesting, Commits
<1>2. /\ cw' = "tail" /\ shown' = pset.c /\ pset' = pset /\ queue' = queue /\ hdr' = hdr /\ setup' = setup
      /\ wire' = IF pset.switch THEN Wire(c) ELSE wire
      /\ modeset' = IF modeset.need THEN [modeset EXCEPT !.current = modeset.request, !.need = FALSE]
                    ELSE modeset
      /\ pset.switch \/ ("lost" \in past => "lost" \in past')
  BY DEF Commits, sfVars
<1>3. /\ modeset' \in [current : HdrSets, request : HdrSets, need : BOOLEAN]
      /\ ~modeset'.need
      /\ modeset.need => modeset'.current = modeset.request
      /\ ~modeset.need => modeset' = modeset
  BY <1>1, <1>2
<1>4. Compositions'
  BY <1>1, <1>2, <1>3 DEF HdrInv, Compositions, Requesting
<1>5. Requests'
  BY <1>2, <1>3 DEF Requests, Requesting
<1>6. Switched'
  <2>1. SUFFICES ASSUME "lost" \notin past', setup.sink = {"pq", "hlg"}
                 PROVE  Carries(wire', modeset'.current) /\ ~Differs(c, modeset'.current)
    BY <1>2 DEF Switched
  <2>2. CASE pset.switch
    <3>1. modeset'.current = c /\ wire' = Wire(c)
      BY <1>1, <1>2, <1>3, <2>2
    <3> HIDE DEF c
    <3> QED BY <1>1, <2>1, <3>1, WireCarries, DiffersIs
  <2>3. CASE ~pset.switch
    <3>1. modeset' = modeset /\ wire' = wire /\ "lost" \notin past
      BY <1>1, <1>2, <1>3, <2>1, <2>3
    <3>2. Carries(wire, modeset.current)
      BY <2>1, <3>1 DEF HdrInv, Switched
    <3> QED BY <1>1, <2>3, <3>1, <3>2
  <2> QED BY <2>2, <2>3
<1> QED BY <1>4, <1>5, <1>6 DEF HdrInv

LEMMA CommitTailKeeps ==
  ASSUME HdrInv, CommitTail
  PROVE  HdrInv'
<1>1. /\ cw = "tail" /\ cw' = "idle" /\ setup' = setup /\ hdr' = hdr /\ queue' = queue /\ shown' = shown
      /\ wire' = wire /\ modeset' = modeset /\ ("lost" \in past => "lost" \in past')
  BY DEF CommitTail, Swap, sfVars
<1>2. ~Requesting /\ ~Requesting'
  BY <1>1 DEF Requesting
<1> QED BY <1>1, <1>2, RequestGone DEF HdrInv, Compositions

LEMMA HdrCollects ==
  ASSUME HdrInv, Collect \/ CollectNext
  PROVE  HdrInv'
<1>1. CASE Collect
  <2>1. /\ cw = "idle" /\ queue.set \in HdrSets /\ setup' = setup /\ hdr' = hdr /\ queue' = NoComp
        /\ shown' = shown /\ wire' = wire /\ past' = past
    BY <1>1 DEF Collect, sfVars, HdrInv, Compositions
  <2>2. ~Requesting
    BY <2>1 DEF Requesting
  <2>3. CASE cw' = "size" /\ pset' = queue /\ modeset' = modeset
    <3>1. ~Requesting'
      BY <2>3 DEF Requesting
    <3> QED BY <2>1, <2>2, <2>3, <3>1, RequestGone DEF HdrInv, Compositions
  <2>4. CASE CollectModeSetInfo(queue, wbOn)
    BY <2>1, <2>2, <2>4, Requested
  <2> QED BY <1>1, <2>3, <2>4 DEF Collect, CollectCommitInfo
<1>2. CASE CollectNext
  <2>1. /\ cw = "next" /\ pset.set \in HdrSets /\ setup' = setup /\ hdr' = hdr /\ queue' = queue
        /\ shown' = shown /\ wire' = wire
    BY <1>2 DEF CollectNext, Reject, sfVars, HdrInv, Compositions
  <2>2. ~Requesting
    BY <2>1 DEF Requesting
  <2>3. CASE Reject
    <3>1. cw' = "idle" /\ ~Requesting' /\ modeset' = modeset /\ ("lost" \in past => "lost" \in past')
      BY <2>3 DEF Reject, Requesting
    <3> QED BY <2>1, <2>2, <3>1, RequestGone DEF HdrInv, Compositions
  <2>4. CASE CollectModeSetInfo(pset, FALSE) /\ past' = past
    BY <2>1, <2>2, <2>4, Requested
  <2> QED BY <1>2, <2>3, <2>4 DEF CollectNext
<1> QED BY <1>1, <1>2

LEMMA HdrResizes ==
  ASSUME HdrInv, CollectSize
  PROVE  HdrInv'
<1>1. /\ cw = "size" /\ setup' = setup /\ hdr' = hdr /\ queue' = queue /\ shown' = shown /\ wire' = wire
      /\ modeset' = modeset /\ ("lost" \in past => "lost" \in past')
      /\ cw' = "idle" \/ (cw' = "next" /\ pset' = pset)
  BY DEF CollectSize, Reject, sfVars
<1>2. ~Requesting /\ ~Requesting'
  BY <1>1 DEF Requesting
<1> QED BY <1>1, <1>2, RequestGone DEF HdrInv, Compositions

LEMMA HdrDraws ==
  ASSUME HdrInv, WriteBackByRGA \/ RgaSwaps
  PROVE  HdrInv'
<1>1. /\ cw \in {"rga", "rgaswap"} /\ cw' \in {"rgaswap", "ioctl"}
      /\ setup' = setup /\ hdr' = hdr /\ queue' = queue /\ shown' = shown /\ wire' = wire
      /\ modeset' = modeset /\ ("lost" \in past => "lost" \in past')
      /\ pset' = pset
  BY DEF WriteBackByRGA, RgaSwaps, Swap, SwapsNothing, sfVars
<1>2. Requesting /\ Requesting'
  BY <1>1 DEF Requesting
<1> QED BY <1>1, <1>2, RequestKept

LEMMA HdrFails ==
  ASSUME HdrInv, CommitFails
  PROVE  HdrInv'
<1>1. /\ cw = "ioctl" /\ cw' = "idle" /\ hdr' = hdr /\ queue' = queue /\ shown' = shown /\ wire' = wire
      /\ modeset' = modeset /\ ("lost" \in past \/ pset.switch => "lost" \in past')
      /\ setup' = setup \/ setup' = [setup EXCEPT !.fails = @ - 1]
  BY DEF CommitFails, sfVars
<1>2. Requesting /\ ~Requesting'
  BY <1>1 DEF Requesting
<1>3. DOMAIN setup' = SetupFields /\ setup'.sink = setup.sink
  BY <1>1, SinkKept DEF HdrInv, Compositions
<1> QED BY <1>1, <1>2, <1>3, RequestGone

(* ClearDisplay() forgets compositions, not what is collected or on the wire.*)
LEMMA HdrClears ==
  ASSUME HdrInv, ClearDisplay \/ UNCHANGED cwVars, setup' = setup \/ setup' = [setup EXCEPT !.fails = @ - 1],
         hdr' = hdr, "lost" \in past => "lost" \in past'
  PROVE  HdrInv'
<1>1. DOMAIN setup' = SetupFields /\ setup'.sink = setup.sink /\ hdr' \in HdrModes
  BY SinkKept DEF HdrInv, Compositions
<1>2. /\ cw' = cw /\ pset' = pset /\ shown' = shown /\ modeset' = modeset /\ wire' = wire
      /\ queue' = NoComp \/ queue' = queue
  BY DEF ClearDisplay, cwVars
<1> QED BY <1>1, <1>2, HdrSame

LEMMA HdrStep == HdrInv /\ [Next]_vars => HdrInv'
<1> SUFFICES ASSUME HdrInv, [Next]_vars PROVE HdrInv'
  OBVIOUS
<1> USE DEF sfVars, cwVars, wbVars, refreshVars
<1>0. DOMAIN setup = SetupFields /\ hdr \in HdrModes
  BY DEF HdrInv, Compositions
<1>1. CASE SetsLayers
  <2>1. DOMAIN setup' = SetupFields /\ setup'.sink = setup.sink
    BY <1>0, <1>1, SinkKept DEF SetsLayers
  <2> QED BY <1>0, <1>1, <2>1, HdrSame DEF SetsLayers
<1>2. CASE UpdatesMode
  BY <1>2, HdrClears DEF UpdatesMode, Fails, Unswitched
<1>3. CASE ValidateDisplay
  <2>1. DOMAIN setup' = SetupFields /\ setup'.sink = setup.sink
    BY <1>0, <1>3, SinkKept DEF ValidateDisplay
  <2>2. hdr' \in HdrModes
    BY <1>0, <1>3, SwitchesHdrMode DEF ValidateDisplay
  <2> QED BY <1>3, <2>1, <2>2, HdrSame DEF ValidateDisplay
<1>4. CASE CountsConfigs \/ ReadsConfigs \/ SetsClientTarget
  BY <1>4, HdrClears DEF CountsConfigs, ReadsConfigs, SetsClientTarget
<1>5. CASE PresentDisplay
  <2>1. CASE ImportFails
    BY <1>5, <2>1, HdrClears DEF PresentDisplay, ImportFails
  <2>2. CASE (ClearDisplay \/ UNCHANGED cwVars) /\ UNCHANGED <<setup, past>>
    BY <1>5, <2>2, HdrClears DEF PresentDisplay
  <2>3. CASE /\ queue' = Composition
             /\ UNCHANGED <<setup, past, collected, cw, pset, modeset, wbOn, reqOff, wbFence, attached, wire, shown>>
    <3>1. Composition.set \in HdrSets
      BY <1>0, ComposesHdrSet
    <3> QED BY <1>0, <1>5, <2>3, <3>1, HdrSame DEF PresentDisplay
  <2> QED BY <1>5, <2>1, <2>2, <2>3 DEF PresentDisplay
<1>6. CASE OutputWBBuffer \/ OutputDone
  BY <1>6, HdrClears DEF OutputWBBuffer, OutputDone
<1>7. CASE PresentsClientTarget \/ CycleEnds
  BY <1>7, HdrClears DEF PresentsClientTarget, CycleEnds
<1>8. CASE SetsConfig \/ RequestsMode \/ TellsTimeline
  <2>1. DOMAIN setup' = SetupFields /\ setup'.sink = setup.sink
    BY <1>0, <1>8, SinkKept DEF SetsConfig, RequestsMode, TellsTimeline
  <2> QED BY <1>0, <1>8, <2>1, HdrSame DEF SetsConfig, RequestsMode, TellsTimeline, Unswitched
<1>9. CASE CreateVirtualDisplay \/ DestroyVirtualDisplay
  <2>1. DOMAIN setup' = SetupFields /\ setup'.sink = setup.sink
    BY <1>0, <1>9, SinkKept DEF CreateVirtualDisplay, DestroyVirtualDisplay
  <2> QED BY <1>0, <1>9, <2>1, HdrSame DEF CreateVirtualDisplay, DestroyVirtualDisplay
<1>10. CASE Collect \/ CollectNext
  BY <1>10, HdrCollects
<1>11. CASE CollectSize
  BY <1>11, HdrResizes
<1>12. CASE WriteBackByRGA \/ RgaSwaps
  BY <1>12, HdrDraws
<1>13. CASE Commits
  BY <1>13, Committed
<1>14. CASE CommitFails
  BY <1>14, HdrFails
<1>15. CASE CommitTail
  BY <1>15, CommitTailKeeps
<1>16. CASE Iw \/ Alarm \/ Hardware
  BY <1>16, HdrClears DEF Iw, Alarm, Hardware
<1>17. CASE MoveCable
  <2>1. DOMAIN setup' = SetupFields /\ setup'.sink = setup.sink
    BY <1>0, <1>17, SinkKept DEF MoveCable
  <2> QED BY <1>0, <1>17, <2>1, HdrSame DEF MoveCable
<1>18. CASE EventThread
  BY <1>18, HdrClears
  DEF EventThread, EventTaken, EventClears, EventReinits, EventConfigures, EventRefreshes
<1>19. CASE UNCHANGED vars
  BY <1>19, HdrClears DEF vars
<1> QED
  BY <1>1, <1>2, <1>3, <1>4, <1>5, <1>6, <1>7, <1>8, <1>9, <1>10, <1>11, <1>12, <1>13, <1>14, <1>15,
     <1>16, <1>17, <1>18, <1>19
  DEF Next, SfGoesOn, Compositor

(* Unless a commit that carried a switch has failed since the last that      *)
(* succeeded, a sink that supports all of HDR is sent HDR exactly while the  *)
(* composition on the screen is HDR, in its depth: SwitchHdrMode(),          *)
(* CollectModeSetInfo(), switch_hdmi_hdr_mode() and UpdateModeSetState().    *)
THEOREM WireFollowsScreen == Spec => []HdrFollows
<1>1. HdrInv => HdrFollows
  <2> SUFFICES ASSUME HdrInv, "lost" \notin past, setup.sink = {"pq", "hlg"}
               PROVE  Carries(wire, shown.set)
    BY DEF HdrFollows, Carries
  <2>1. /\ Carries(wire, modeset.current) /\ ~Differs(shown.set, modeset.current)
        /\ shown.set \in HdrSets /\ modeset.current \in HdrSets
    BY DEF HdrInv, Switched, Compositions
  <2> QED BY <2>1, AlikeCarried
<1> QED BY <1>1, HdrInit, HdrStep, PTL DEF Spec
=============================================================================
