---------------------- MODULE DisplayCompositor_proofs ----------------------
(***************************************************************************)
(* Proofs about DisplayCompositor, for any set of displays, any number of  *)
(* frames and any queue limits: the bookkeeping of its queue, whatever     *)
(* fails and whoever clears, and the order in which its fences signal.     *)
(***************************************************************************)
EXTENDS DisplayCompositor, SequenceTheorems, FiniteSetTheorems, TLAPS

(* The bookkeeping of the queue, whatever fails and whoever clears.          *)
QueueInv == CountMatchesQueue /\ BlockedHasReason /\ ClearMeansEmpty

IInv == TypeOK /\ QueueInv

-----------------------------------------------------------------------------
(* Operators of the model                                                    *)

(* NoHand is a composition slot of some display.                             *)
LEMMA NoHandType == NoHand \in [d : Displays, n : Nat, svep : BOOLEAN]
  BY ConstantsAssumption DEF NoHand

(* The rest of a sequence from position m on.                                *)
LEMMA Suffix ==
  ASSUME NEW q \in Seq(Nat), NEW m \in 1..(Len(q) + 1)
  PROVE  /\ SubSeq(q, m, Len(q)) \in Seq(Nat)
         /\ Len(SubSeq(q, m, Len(q))) = Len(q) - m + 1
         /\ \A i \in 1..(Len(q) - m + 1) : SubSeq(q, m, Len(q))[i] = q[m + i - 1]
<1>1. m \in Int /\ Len(q) \in Int /\ \A i \in m..Len(q) : q[i] \in Nat
  OBVIOUS
<1>2. SubSeq(q, m, Len(q)) \in Seq(Nat)
  BY <1>1, SubSeqProperties
<1>3. Len(SubSeq(q, m, Len(q))) = IF m <= Len(q) THEN Len(q) - m + 1 ELSE 0
  BY <1>1, SubSeqProperties
<1>4. \A i \in 1..(Len(q) - m + 1) : SubSeq(q, m, Len(q))[i] = q[m + i - 1]
  BY <1>1, SubSeqProperties
<1>5. Len(SubSeq(q, m, Len(q))) = Len(q) - m + 1
  BY <1>3
<1>. QED BY <1>2, <1>4, <1>5

(* What CollectSFInfo() leaves in a non-empty queue is a shorter queue: the  *)
(* picked composition and the dropped one, if any, are gone.                 *)
LEMMA QueueSplit ==
  ASSUME NEW q \in Seq(Nat), q # << >>, drop_mode_ \in BOOLEAN
  PROVE  /\ Picked(q) \in Nat
         /\ Dropped(q) \in Seq(Nat)
         /\ Remaining(q) \in Seq(Nat)
         /\ Len(q) = 1 + Len(Dropped(q)) + Len(Remaining(q))
         /\ Len(Dropped(q)) \in {0, 1}
<1>1. Len(q) \in Nat \ {0} /\ q[1] \in Nat
  BY EmptySeq
<1>2. CASE drop_mode_ /\ Len(q) > 1
  <2>1. q[2] \in Nat
    BY <1>2
  <2>2. Dropped(q) \in Seq(Nat) /\ Len(Dropped(q)) = 1
    BY <1>1, <1>2, <2>1 DEF Dropped
  <2>3. Remaining(q) = SubSeq(q, 3, Len(q))
    BY <2>2 DEF Remaining
  <2>4. Remaining(q) \in Seq(Nat) /\ Len(Remaining(q)) = Len(q) - 2
    <3>1. 3 \in 1..(Len(q) + 1)
      BY <1>1, <1>2
    <3>2. /\ SubSeq(q, 3, Len(q)) \in Seq(Nat)
          /\ Len(SubSeq(q, 3, Len(q))) = Len(q) - 3 + 1
      BY <3>1, Suffix
    <3>. QED BY <1>1, <2>3, <3>2
  <2>5. Picked(q) \in Nat
    BY <1>1, <1>2, <2>1 DEF Picked
  <2>. QED BY <1>1, <2>2, <2>4, <2>5
<1>3. CASE ~(drop_mode_ /\ Len(q) > 1)
  <2>1. Dropped(q) = << >>
    BY <1>3 DEF Dropped
  <2>2. Remaining(q) = SubSeq(q, 2, Len(q))
    BY <2>1 DEF Remaining
  <2>3. Remaining(q) \in Seq(Nat) /\ Len(Remaining(q)) = Len(q) - 1
    <3>1. 2 \in 1..(Len(q) + 1)
      BY <1>1
    <3>2. /\ SubSeq(q, 2, Len(q)) \in Seq(Nat)
          /\ Len(SubSeq(q, 2, Len(q))) = Len(q) - 2 + 1
      BY <3>1, Suffix
    <3>. QED BY <1>1, <2>2, <3>2
  <2>4. Picked(q) \in Nat
    BY <1>1, <1>3 DEF Picked
  <2>. QED BY <1>1, <2>1, <2>3, <2>4
<1>. QED BY <1>2, <1>3

-----------------------------------------------------------------------------
(* Type correctness in parts: an action disturbs one or two of them.         *)

FlagsOK ==
  /\ active_ \in BOOLEAN /\ clear_ \in BOOLEAN /\ drop_mode_ \in BOOLEAN
  /\ mCompositionDropMode \in BOOLEAN /\ pset_ \in BOOLEAN /\ plugged \in BOOLEAN
QueueOK == queue \in [Displays -> Seq(Nat)] /\ count \in [Displays -> Nat]
HeldOK ==
  /\ collect \in [Displays -> Nat] /\ current \in [Displays -> Nat]
  /\ useless \in [Displays -> Seq(Nat)]
ShownOK == planes \in [Displays -> Nat] /\ screen \in [Displays -> Nat]
FencesOK ==
  /\ timeline \in [Displays -> Nat] /\ created \in [Displays -> Nat]
  /\ done \in [Displays -> SUBSET Nat]
ThreadsOK ==
  /\ worker \in {"check", "prewait", "wait", "collect", "commit", "kernel",
                 "retire", "tail", "clear"}
  /\ sf \in {"idle", "queue", "lock", "waiting", "woken", "notify",
             "clear", "release", "badlayer"}
  /\ hand \in [d : Displays, n : Nat, svep : BOOLEAN]
  /\ ev \in {"idle", "clear", "release"}

LEMMA TypeParts ==
  TypeOK <=> FlagsOK /\ QueueOK /\ HeldOK /\ ShownOK /\ FencesOK /\ ThreadsOK
  BY Zenon DEF TypeOK, FlagsOK, QueueOK, HeldOK, ShownOK, FencesOK, ThreadsOK

LEMMA TypePartsNext ==
  (FlagsOK /\ QueueOK /\ HeldOK /\ ShownOK /\ FencesOK /\ ThreadsOK)' => TypeOK'
  BY Zenon DEF TypeOK, FlagsOK, QueueOK, HeldOK, ShownOK, FencesOK, ThreadsOK

(* A part whose variables do not change keeps its types.                     *)
LEMMA KeepFlags ==
  ASSUME FlagsOK, UNCHANGED <<active_, clear_, drop_mode_, mCompositionDropMode, pset_, plugged>>
  PROVE  FlagsOK'
  BY DEF FlagsOK
LEMMA KeepQueue == ASSUME QueueOK, UNCHANGED <<queue, count>> PROVE QueueOK'
  BY DEF QueueOK
LEMMA KeepHeld == ASSUME HeldOK, UNCHANGED <<collect, useless, current>> PROVE HeldOK'
  BY DEF HeldOK
LEMMA KeepShown == ASSUME ShownOK, UNCHANGED <<planes, screen>> PROVE ShownOK'
  BY DEF ShownOK
LEMMA KeepFences == ASSUME FencesOK, UNCHANGED <<timeline, created, done>> PROVE FencesOK'
  BY DEF FencesOK

-----------------------------------------------------------------------------
(* Type correctness and the bookkeeping of the queue                         *)

LEMMA InvInit == Init => IInv
<1>. SUFFICES ASSUME Init PROVE IInv
  OBVIOUS
<1>1. FlagsOK
  BY ConstantsAssumption DEF Init, FlagsOK
<1>2. QueueOK /\ HeldOK
  BY EmptySeq DEF Init, QueueOK, HeldOK
<1>3. ShownOK /\ FencesOK
  BY DEF Init, ShownOK, FencesOK
<1>4. ThreadsOK
  BY NoHandType DEF Init, ThreadsOK
<1>5. CountMatchesQueue
  BY DEF Init, CountMatchesQueue
<1>6. BlockedHasReason
  BY DEF Init, BlockedHasReason
<1>7. ClearMeansEmpty
  BY DEF Init, ClearMeansEmpty, Empty, Holds
<1>. QED BY <1>1, <1>2, <1>3, <1>4, <1>5, <1>6, <1>7, TypeParts, Zenon DEF IInv, QueueInv

(* The actions that change none of the containers, the counter, or what the  *)
(* presenter waits for.                                                      *)
LEMMA QuietKeepsInv ==
  ASSUME IInv, TypeOK',
         UNCHANGED <<clear_, queue, count, collect, useless, current,
                     mCompositionDropMode>>,
         sf' = "waiting" => sf = "waiting" /\ hand' = hand
  PROVE  IInv'
<1>0. CountMatchesQueue /\ BlockedHasReason /\ ClearMeansEmpty
  BY Zenon DEF IInv, QueueInv
<1>1. CountMatchesQueue'
  BY <1>0 DEF CountMatchesQueue
<1>2. BlockedHasReason'
  <2>. SUFFICES ASSUME sf' = "waiting" PROVE (QueueFull /\ queue[hand.d] # << >>)'
    BY Zenon DEF BlockedHasReason
  <2>1. hand' = hand /\ QueueFull /\ queue[hand.d] # << >>
    BY <1>0, Zenon DEF BlockedHasReason
  <2>2. QueueFull'
    BY <2>1 DEF QueueFull, GetCompositeQueueMaxSize, SetsDropMode
  <2>. QED BY <2>1, <2>2
<1>3. ClearMeansEmpty'
  BY <1>0 DEF ClearMeansEmpty, Empty, Holds
<1>. QED BY <1>1, <1>2, <1>3, Zenon DEF IInv, QueueInv

(* A composition is pushed only where the counter has room, and a presenter  *)
(* blocks only on a display whose queue is not empty.                        *)
LEMMA PushKeepsInv ==
  ASSUME QueueOK, FlagsOK, QueueInv, WaitOrPush, hand.d \in Displays,
         hand \in [d : Displays, n : Nat, svep : BOOLEAN],
         UNCHANGED <<mCompositionDropMode, collect, useless, current>>
  PROVE  /\ QueueOK' /\ clear_' \in BOOLEAN /\ drop_mode_' \in BOOLEAN
         /\ sf' \in {"waiting", "notify"}
         /\ hand' \in [d : Displays, n : Nat, svep : BOOLEAN]
         /\ QueueInv'
<1>0. CountMatchesQueue /\ BlockedHasReason /\ ClearMeansEmpty
  BY Zenon DEF QueueInv
<1>1. drop_mode_' \in BOOLEAN
  BY DEF FlagsOK, WaitOrPush
<1>2. CASE QueueFull /\ sf' = "waiting" /\ UNCHANGED <<queue, count, clear_, hand>>
  <2>1. GetCompositeQueueMaxSize \in Nat \ {0}
    BY ConstantsAssumption DEF GetCompositeQueueMaxSize
  <2>2. count[hand.d] = Len(queue[hand.d]) /\ queue[hand.d] \in Seq(Nat)
    BY <1>0 DEF QueueOK, CountMatchesQueue
  <2>3. queue[hand.d] # << >>
    BY <1>2, <2>1, <2>2 DEF QueueFull
  <2>4. BlockedHasReason'
    <3>1. QueueFull'
      BY <1>2 DEF QueueFull, GetCompositeQueueMaxSize, SetsDropMode
    <3>. QED BY <1>2, <2>3, <3>1 DEF BlockedHasReason
  <2>5. CountMatchesQueue'
    BY <1>0, <1>2 DEF CountMatchesQueue
  <2>6. ClearMeansEmpty'
    BY <1>0, <1>2 DEF ClearMeansEmpty, Empty, Holds
  <2>7. QueueOK'
    BY <1>2, KeepQueue
  <2>8. clear_' \in BOOLEAN
    BY <1>2 DEF FlagsOK
  <2>9. QueueInv'
    BY <2>4, <2>5, <2>6, Zenon DEF QueueInv
  <2>. QED BY <1>1, <1>2, <2>7, <2>8, <2>9
<1>3. CASE /\ ~QueueFull
           /\ queue' = [queue EXCEPT ![hand.d] = Append(@, hand.n)]
           /\ count' = [count EXCEPT ![hand.d] = @ + 1]
           /\ clear_' = FALSE /\ hand' = NoHand /\ sf' = "notify"
  <2>1. hand.n \in Nat /\ queue[hand.d] \in Seq(Nat) /\ count[hand.d] \in Nat
    BY DEF QueueOK
  <2>2. Append(queue[hand.d], hand.n) \in Seq(Nat)
    BY <2>1
  <2>3. QueueOK'
    BY <1>3, <2>1, <2>2 DEF QueueOK
  <2>4. CountMatchesQueue'
    <3>. SUFFICES ASSUME NEW d \in Displays PROVE count'[d] = Len(queue'[d])
      BY DEF CountMatchesQueue
    <3>1. count[d] = Len(queue[d]) /\ queue[d] \in Seq(Nat)
      BY <1>0 DEF QueueOK, CountMatchesQueue
    <3>2. CASE d = hand.d
      <4>1. Len(Append(queue[d], hand.n)) = Len(queue[d]) + 1
        BY <2>1, <3>1
      <4>2. queue'[d] = Append(queue[d], hand.n) /\ count'[d] = count[d] + 1
        BY <1>3, <3>2 DEF QueueOK
      <4>. QED BY <3>1, <4>1, <4>2
    <3>3. CASE d # hand.d
      BY <1>3, <3>1, <3>3 DEF QueueOK
    <3>. QED BY <3>2, <3>3
  <2>5. BlockedHasReason' /\ ClearMeansEmpty'
    BY <1>3 DEF BlockedHasReason, ClearMeansEmpty
  <2>6. QueueInv'
    BY <2>4, <2>5, Zenon DEF QueueInv
  <2>. QED BY <1>1, <1>3, <2>3, <2>6, NoHandType
<1>. QED BY <1>2, <1>3, Zenon DEF WaitOrPush, Push

(* ClearDisplay() leaves nothing behind, and wakes whoever was blocked.      *)
LEMMA ClearKeepsInv ==
  ASSUME QueueOK, HeldOK, ShownOK, FencesOK, hand.d \in Displays, QueueInv,
         ClearDisplay, UNCHANGED <<hand, planes, created>>,
         sf' = "waiting" => sf = "waiting" /\ ~WakesPresenter
  PROVE  QueueOK' /\ HeldOK' /\ ShownOK' /\ FencesOK' /\ clear_' = TRUE /\ QueueInv'
<1>1. ShownOK'
  BY DEF ClearDisplay, DisablePlanes, ShownOK
<1>2. done' \in [Displays -> SUBSET Nat]
  <2>. SUFFICES ASSUME NEW d \in Displays PROVE done[d] \cup Held(d) \subseteq Nat
    BY DEF ClearDisplay, EmptyContainers
  <2>1. useless[d] \in Seq(Nat) /\ queue[d] \in Seq(Nat)
    BY DEF HeldOK, QueueOK
  <2>2. Range(useless[d]) \subseteq Nat /\ Range(queue[d]) \subseteq Nat
    BY <2>1 DEF Range
  <2>3. current[d] \in Nat /\ collect[d] \in Nat /\ done[d] \subseteq Nat
    BY DEF HeldOK, FencesOK
  <2>. QED BY <2>2, <2>3 DEF Held, Nonzero
<1>3. timeline' \in [Displays -> Nat]
  <2>. SUFFICES ASSUME NEW d \in Displays PROVE timeline[d] + NumHeld(d) \in Nat
    BY DEF ClearDisplay, EmptyContainers
  <2>1. timeline[d] \in Nat
    BY DEF FencesOK
  <2>2. One(current[d]) \in Nat /\ One(collect[d]) \in Nat
    BY DEF One
  <2>3. useless[d] \in Seq(Nat) /\ queue[d] \in Seq(Nat)
    BY DEF HeldOK, QueueOK
  <2>4. Len(useless[d]) \in Nat /\ Len(queue[d]) \in Nat
    BY <2>3
  <2>5. NumHeld(d) \in Nat
    BY <2>2, <2>4 DEF NumHeld
  <2>. QED BY <2>1, <2>5
<1>4. FencesOK'
  BY <1>2, <1>3 DEF FencesOK
<1>5. EmptyContainers /\ clear_' = TRUE
  BY DEF ClearDisplay
<1>6. QueueOK' /\ HeldOK'
  BY <1>5, EmptySeq DEF EmptyContainers, QueueOK, HeldOK
<1>7. CountMatchesQueue'
  BY <1>5 DEF EmptyContainers, CountMatchesQueue
<1>8. ClearMeansEmpty'
  BY <1>5 DEF EmptyContainers, ClearMeansEmpty, Empty, Holds
<1>9. BlockedHasReason'
  BY Zenon DEF QueueInv, BlockedHasReason, WakesPresenter
<1>. QED BY <1>1, <1>4, <1>5, <1>6, <1>7, <1>8, <1>9, Zenon DEF QueueInv

(* CollectSFInfo() takes as many compositions from each queue as it subtracts *)
(* from its counter, and wakes whoever was blocked if it took any.            *)
LEMMA CollectKeepsInv == IInv /\ CollectSFInfo => IInv'
<1>. SUFFICES ASSUME IInv, CollectSFInfo PROVE IInv'
  OBVIOUS
<1>0. FlagsOK /\ QueueOK /\ HeldOK /\ ShownOK /\ FencesOK /\ ThreadsOK /\ QueueInv
  BY TypeParts, Zenon DEF IInv
<1>1. \A d \in Displays : queue[d] \in Seq(Nat) /\ count[d] = Len(queue[d])
  BY <1>0 DEF QueueOK, QueueInv, CountMatchesQueue
<1>2. \A d \in Batch :
         /\ Picked(queue[d]) \in Nat
         /\ Dropped(queue[d]) \in Seq(Nat)
         /\ Remaining(queue[d]) \in Seq(Nat)
         /\ Len(queue[d]) = 1 + Len(Dropped(queue[d])) + Len(Remaining(queue[d]))
         /\ Len(Dropped(queue[d])) \in {0, 1}
  <2>1. drop_mode_ \in BOOLEAN
    BY <1>0 DEF FlagsOK
  <2>. QED BY <1>1, <2>1, QueueSplit DEF Batch
<1>3. PICK failed \in SUBSET Batch, kept \in SUBSET Batch : CollectInfo(failed, kept)
  BY Zenon DEF CollectSFInfo
<1>4. /\ queue' = [d \in Displays |-> IF d \in Batch THEN Remaining(queue[d]) ELSE << >>]
      /\ count' = [d \in Displays |->
           IF d \in Batch THEN count[d] - 1 - Len(Dropped(queue[d])) ELSE count[d]]
      /\ sf' = IF WakesPresenter THEN "woken" ELSE sf
      /\ worker' = "commit"
      /\ UNCHANGED <<active_, clear_, drop_mode_, current, screen, mCompositionDropMode,
                     created, hand, ev, plugged>>
  BY DEF CollectSFInfo, WorkerGoes, OthersUnchanged
<1>5. CountMatchesQueue' /\ QueueOK'
  <2>. SUFFICES ASSUME NEW d \in Displays
                PROVE  /\ count'[d] = Len(queue'[d])
                       /\ queue'[d] \in Seq(Nat) /\ count'[d] \in Nat
    BY <1>4 DEF CountMatchesQueue, QueueOK
  <2>1. CASE d \in Batch
    <3>1. queue'[d] = Remaining(queue[d]) /\ count'[d] = count[d] - 1 - Len(Dropped(queue[d]))
      BY <1>4, <2>1
    <3>2. /\ count[d] = 1 + Len(Dropped(queue[d])) + Len(Remaining(queue[d]))
          /\ Len(Dropped(queue[d])) \in Nat /\ Remaining(queue[d]) \in Seq(Nat)
      BY <1>1, <1>2, <2>1
    <3>3. Len(Remaining(queue[d])) \in Nat
      BY <3>2
    <3>. QED BY <3>1, <3>2, <3>3
  <2>2. CASE d \notin Batch
    <3>1. queue[d] = << >> /\ count[d] = 0
      BY <1>1, <2>2, EmptySeq DEF Batch
    <3>2. queue'[d] = << >> /\ count'[d] = 0
      BY <1>4, <2>2, <3>1
    <3>. QED BY <3>2, EmptySeq
  <2>. QED BY <2>1, <2>2
<1>6. pset_' \in BOOLEAN
  BY <1>0, <1>3, Zenon DEF CollectInfo, FlagsOK
<1>7. FlagsOK'
  <2>1. /\ active_' = active_ /\ clear_' = clear_ /\ drop_mode_' = drop_mode_
        /\ mCompositionDropMode' = mCompositionDropMode /\ plugged' = plugged
    BY <1>4, Zenon
  <2>. QED BY <1>0, <1>6, <2>1, Zenon DEF FlagsOK
<1>8. HeldOK'
  <2>1. collect' \in [Displays -> Nat]
    <3>. SUFFICES ASSUME NEW d \in Displays PROVE collect'[d] \in Nat
      BY <1>3 DEF CollectInfo
    <3>1. collect[d] \in Nat /\ (d \in Batch => Picked(queue[d]) \in Nat)
      BY <1>0, <1>2 DEF HeldOK
    <3>2. collect'[d] \in {Picked(queue[d]), collect[d]}
      BY <1>3 DEF CollectInfo
    <3>3. d \notin Batch => collect'[d] = collect[d]
      BY <1>3 DEF CollectInfo
    <3>. QED BY <3>1, <3>2, <3>3
  <2>2. useless' \in [Displays -> Seq(Nat)]
    <3>. SUFFICES ASSUME NEW d \in Displays PROVE useless'[d] \in Seq(Nat)
      BY <1>3 DEF CollectInfo
    <3>1. useless[d] \in Seq(Nat) /\ (d \in Batch => Dropped(queue[d]) \in Seq(Nat))
      BY <1>0, <1>2 DEF HeldOK
    <3>2. useless'[d] = Dropped(queue[d]) \/ useless'[d] = useless[d]
      BY <1>3 DEF CollectInfo
    <3>3. d \notin Batch => useless'[d] = useless[d]
      BY <1>3 DEF CollectInfo
    <3>. QED BY <3>1, <3>2, <3>3
  <2>. QED BY <1>0, <1>4, <2>1, <2>2 DEF HeldOK
<1>9. ShownOK'
  <2>1. planes' \in [Displays -> Nat]
    <3>. SUFFICES ASSUME NEW d \in Displays PROVE planes'[d] \in Nat
      BY <1>3 DEF CollectInfo, CollectCommitInfo
    <3>1. planes[d] \in Nat /\ (d \in Batch => Picked(queue[d]) \in Nat)
      BY <1>0, <1>2 DEF ShownOK
    <3>. QED BY <1>3, <3>1 DEF CollectInfo, CollectCommitInfo
  <2>. QED BY <1>0, <1>4, <2>1 DEF ShownOK
<1>10. FencesOK'
  <2>1. timeline' \in [Displays -> Nat]
    <3>. SUFFICES ASSUME NEW d \in Displays PROVE timeline'[d] \in Nat
      BY <1>3 DEF CollectInfo
    <3>1. timeline[d] \in Nat
      BY <1>0 DEF FencesOK
    <3>2. CASE d \in Batch
      <4>1. Len(Dropped(queue[d])) \in Nat
        BY <1>2, <3>2
      <4>2. \/ timeline'[d] = timeline[d] + 1 + Len(Dropped(queue[d]))
            \/ timeline'[d] = timeline[d]
        BY <1>3 DEF CollectInfo
      <4>. QED BY <3>1, <4>1, <4>2
    <3>3. CASE d \notin Batch
      BY <1>3, <3>1, <3>3 DEF CollectInfo
    <3>. QED BY <3>2, <3>3
  <2>2. done' \in [Displays -> SUBSET Nat]
    <3>. SUFFICES ASSUME NEW d \in Displays PROVE done'[d] \subseteq Nat
      BY <1>3 DEF CollectInfo
    <3>1. done[d] \subseteq Nat
      BY <1>0 DEF FencesOK
    <3>2. CASE d \in Batch
      <4>1. Picked(queue[d]) \in Nat /\ Range(Dropped(queue[d])) \subseteq Nat
        BY <1>2, <3>2 DEF Range
      <4>2. \/ done'[d] = done[d] \cup {Picked(queue[d])} \cup Range(Dropped(queue[d]))
            \/ done'[d] = done[d]
        BY <1>3 DEF CollectInfo
      <4>. QED BY <3>1, <4>1, <4>2
    <3>3. CASE d \notin Batch
      BY <1>3, <3>1, <3>3 DEF CollectInfo
    <3>. QED BY <3>2, <3>3
  <2>. QED BY <1>0, <1>4, <2>1, <2>2 DEF FencesOK
<1>11. ThreadsOK'
  BY <1>0, <1>4 DEF ThreadsOK
<1>12. TypeOK'
  BY <1>5, <1>7, <1>8, <1>9, <1>10, <1>11, TypePartsNext
<1>13. BlockedHasReason'
  <2>1. sf = "waiting" => WakesPresenter
    <3>1. hand.d \in Displays
      BY <1>0 DEF ThreadsOK
    <3>. QED BY <1>0, <3>1, Zenon DEF QueueInv, BlockedHasReason, WakesPresenter
  <2>. QED BY <1>4, <2>1 DEF BlockedHasReason
<1>14. ClearMeansEmpty'
  <2>. SUFFICES ASSUME clear_', NEW d \in Displays PROVE (~Holds(d) /\ useless[d] = << >>)'
    BY DEF ClearMeansEmpty, Empty
  <2>1. ~Holds(d) /\ useless[d] = << >>
    BY <1>0, <1>4, Zenon DEF QueueInv, ClearMeansEmpty, Empty
  <2>2. d \notin Batch
    BY <2>1 DEF Batch, Holds
  <2>3. useless'[d] = useless[d] /\ collect'[d] = collect[d]
    BY <1>3, <2>2 DEF CollectInfo
  <2>4. queue'[d] = << >> /\ current'[d] = current[d]
    BY <1>4, <2>2
  <2>. QED BY <2>1, <2>3, <2>4 DEF Holds
<1>. QED BY <1>5, <1>12, <1>13, <1>14, Zenon DEF IInv, QueueInv

(* A refused composition is destroyed, which signals its fence.              *)
LEMMA RefuseType ==
  ASSUME FencesOK, hand \in [d : Displays, n : Nat, svep : BOOLEAN], Refuse,
         UNCHANGED created
  PROVE  /\ FencesOK'
         /\ hand' \in [d : Displays, n : Nat, svep : BOOLEAN] /\ sf' = "idle"
<1>1. hand.d \in Displays /\ hand.n \in Nat
  OBVIOUS
<1>2. timeline' \in [Displays -> Nat]
  BY <1>1 DEF Refuse, SignalOne, FencesOK
<1>3. done' = [done EXCEPT ![hand.d] = @ \cup {hand.n}]
  BY DEF Refuse, SignalOne
<1>4. done[hand.d] \cup {hand.n} \in SUBSET Nat
  BY <1>1 DEF FencesOK
<1>5. done' \in [Displays -> SUBSET Nat]
  BY <1>1, <1>3, <1>4 DEF FencesOK
<1>6. FencesOK'
  BY <1>2, <1>5 DEF FencesOK
<1>. QED BY <1>6, NoHandType DEF Refuse

LEMMA NextKeepsInv == IInv /\ [Next]_vars => IInv'
<1>. SUFFICES ASSUME IInv, [Next]_vars PROVE IInv'
  OBVIOUS
<1>. USE DEF sets, request, kernel
<1>0. FlagsOK /\ QueueOK /\ HeldOK /\ ShownOK /\ FencesOK /\ ThreadsOK /\ QueueInv
  BY TypeParts, Zenon DEF IInv
<1>1. ASSUME NEW d \in Displays, NEW svep \in SvepKinds, PresentDisplay(d, svep)
      PROVE IInv'
  <2>1. FencesOK'
    BY <1>0, <1>1 DEF PresentDisplay, FencesOK
  <2>2. FlagsOK' /\ QueueOK' /\ HeldOK' /\ ShownOK'
    BY <1>0, <1>1, KeepFlags, KeepQueue, KeepHeld, KeepShown DEF PresentDisplay
  <2>3. ThreadsOK'
    <3>1. svep \in BOOLEAN
      BY ConstantsAssumption, Zenon DEF ConstantsAssumption
    <3>2. created[d] + 1 \in Nat
      BY <1>0 DEF FencesOK
    <3>3. hand' \in [d : Displays, n : Nat, svep : BOOLEAN]
      BY <1>1, <3>1, <3>2 DEF PresentDisplay
    <3>. QED BY <1>0, <1>1, <3>3 DEF PresentDisplay, ThreadsOK
  <2>4. TypeOK'
    BY <2>1, <2>2, <2>3, TypePartsNext
  <2>. QED BY <1>1, <2>4, QuietKeepsInv DEF PresentDisplay
<1>2. CASE QueueComposition
  <2>1. FencesOK'
    <3>1. CASE UNCHANGED <<timeline, done, hand>>
      BY <1>0, <1>2, <3>1, KeepFences DEF QueueComposition
    <3>2. CASE Refuse
      BY <1>0, <1>2, <3>2, RefuseType DEF QueueComposition, ThreadsOK
    <3>. QED BY <1>2, <3>1, <3>2 DEF QueueComposition
  <2>2. FlagsOK' /\ QueueOK' /\ HeldOK' /\ ShownOK'
    BY <1>0, <1>2, KeepFlags, KeepQueue, KeepHeld, KeepShown DEF QueueComposition, Refuse
  <2>3. ThreadsOK'
    <3>1. CASE sf' = "lock" /\ UNCHANGED hand
      BY <1>0, <1>2, <3>1 DEF QueueComposition, ThreadsOK
    <3>2. CASE Refuse
      BY <1>0, <1>2, <3>2, NoHandType DEF QueueComposition, Refuse, ThreadsOK
    <3>. QED BY <1>2, <3>1, <3>2 DEF QueueComposition
  <2>4. TypeOK'
    BY <2>1, <2>2, <2>3, TypePartsNext
  <2>. QED BY <1>2, <2>4, QuietKeepsInv DEF QueueComposition, Refuse
<1>3. CASE SignalWorker
  <2>1. FlagsOK' /\ QueueOK' /\ HeldOK' /\ ShownOK' /\ FencesOK'
    BY <1>0, <1>3, KeepFlags, KeepQueue, KeepHeld, KeepShown, KeepFences DEF SignalWorker
  <2>2. ThreadsOK'
    BY <1>0, <1>3 DEF SignalWorker, ThreadsOK
  <2>3. TypeOK'
    BY <2>1, <2>2, TypePartsNext
  <2>. QED BY <1>3, <2>3, QuietKeepsInv DEF SignalWorker
<1>4. CASE PresentNoLayers
  <2>1. FlagsOK' /\ QueueOK' /\ HeldOK' /\ ShownOK' /\ FencesOK'
    BY <1>0, <1>4, KeepFlags, KeepQueue, KeepHeld, KeepShown, KeepFences DEF PresentNoLayers
  <2>2. ThreadsOK'
    BY <1>0, <1>4 DEF PresentNoLayers, ThreadsOK
  <2>3. TypeOK'
    BY <2>1, <2>2, TypePartsNext
  <2>. QED BY <1>4, <2>3, QuietKeepsInv DEF PresentNoLayers
<1>5. CASE SfPowerOn
  <2>1. FlagsOK'
    BY <1>0, <1>5 DEF SfPowerOn, FlagsOK
  <2>2. QueueOK' /\ HeldOK' /\ ShownOK' /\ FencesOK'
    BY <1>0, <1>5, KeepQueue, KeepHeld, KeepShown, KeepFences DEF SfPowerOn
  <2>3. ThreadsOK'
    BY <1>0, <1>5 DEF SfPowerOn, ThreadsOK
  <2>4. TypeOK'
    BY <2>1, <2>2, <2>3, TypePartsNext
  <2>. QED BY <1>5, <2>4, QuietKeepsInv DEF SfPowerOn
<1>6. CASE SfPowerOff
  <2>1. FlagsOK'
    BY <1>0, <1>6 DEF SfPowerOff, FlagsOK
  <2>2. QueueOK' /\ HeldOK' /\ ShownOK' /\ FencesOK'
    BY <1>0, <1>6, KeepQueue, KeepHeld, KeepShown, KeepFences DEF SfPowerOff
  <2>3. ThreadsOK'
    BY <1>0, <1>6 DEF SfPowerOff, ThreadsOK
  <2>4. TypeOK'
    BY <2>1, <2>2, <2>3, TypePartsNext
  <2>. QED BY <1>6, <2>4, QuietKeepsInv DEF SfPowerOff
<1>7. CASE EventPower
  <2>1. FlagsOK'
    BY <1>0, <1>7 DEF EventPower, FlagsOK
  <2>2. QueueOK' /\ HeldOK' /\ ShownOK' /\ FencesOK'
    BY <1>0, <1>7, KeepQueue, KeepHeld, KeepShown, KeepFences DEF EventPower
  <2>3. ThreadsOK'
    BY <1>0, <1>7 DEF EventPower, ThreadsOK
  <2>4. TypeOK'
    BY <2>1, <2>2, <2>3, TypePartsNext
  <2>. QED BY <1>7, <2>4, QuietKeepsInv DEF EventPower
<1>8. CASE Hotplug
  <2>1. FlagsOK'
    BY <1>0, <1>8 DEF Hotplug, FlagsOK
  <2>2. QueueOK' /\ HeldOK' /\ ShownOK' /\ FencesOK'
    BY <1>0, <1>8, KeepQueue, KeepHeld, KeepShown, KeepFences DEF Hotplug
  <2>3. ThreadsOK'
    BY <1>0, <1>8 DEF Hotplug, ThreadsOK
  <2>4. TypeOK'
    BY <2>1, <2>2, <2>3, TypePartsNext
  <2>. QED BY <1>8, <2>4, QuietKeepsInv DEF Hotplug
<1>9. CASE SfDisablePlanes
  <2>1. ShownOK'
    <3>1. screen' = [d \in Displays |-> 0] \/ screen' = screen
      BY <1>9 DEF SfDisablePlanes, DisableAllPlaneForCrtc
    <3>2. planes' = planes
      BY <1>9 DEF SfDisablePlanes
    <3>. QED BY <1>0, <3>1, <3>2 DEF ShownOK
  <2>2. FlagsOK' /\ QueueOK' /\ HeldOK' /\ FencesOK'
    BY <1>0, <1>9, KeepFlags, KeepQueue, KeepHeld, KeepFences DEF SfDisablePlanes
  <2>3. ThreadsOK'
    BY <1>0, <1>9 DEF SfDisablePlanes, ThreadsOK
  <2>4. TypeOK'
    BY <2>1, <2>2, <2>3, TypePartsNext
  <2>. QED BY <1>9, <2>4, QuietKeepsInv DEF SfDisablePlanes
<1>10. CASE EventDisablePlanes
  <2>1. ShownOK'
    <3>1. screen' = [d \in Displays |-> 0] \/ screen' = screen
      BY <1>10 DEF EventDisablePlanes, DisableAllPlaneForCrtc
    <3>2. planes' = planes
      BY <1>10 DEF EventDisablePlanes
    <3>. QED BY <1>0, <3>1, <3>2 DEF ShownOK
  <2>2. FlagsOK' /\ QueueOK' /\ HeldOK' /\ FencesOK'
    BY <1>0, <1>10, KeepFlags, KeepQueue, KeepHeld, KeepFences DEF EventDisablePlanes
  <2>3. ThreadsOK'
    BY <1>0, <1>10 DEF EventDisablePlanes, ThreadsOK
  <2>4. TypeOK'
    BY <2>1, <2>2, <2>3, TypePartsNext
  <2>. QED BY <1>10, <2>4, QuietKeepsInv DEF EventDisablePlanes
<1>11. CASE WorkerCheck
  <2>1. FlagsOK' /\ QueueOK' /\ HeldOK' /\ ShownOK' /\ FencesOK'
    BY <1>0, <1>11, KeepFlags, KeepQueue, KeepHeld, KeepShown, KeepFences DEF WorkerCheck, WorkerGoes, PipelineUnchanged, OthersUnchanged
  <2>2. ThreadsOK'
    BY <1>0, <1>11 DEF WorkerCheck, WorkerGoes, PipelineUnchanged, OthersUnchanged, ThreadsOK
  <2>3. TypeOK'
    BY <2>1, <2>2, TypePartsNext
  <2>. QED BY <1>11, <2>3, QuietKeepsInv DEF WorkerCheck, WorkerGoes, PipelineUnchanged, OthersUnchanged
<1>12. CASE WorkerWait
  <2>1. FlagsOK' /\ QueueOK' /\ HeldOK' /\ ShownOK' /\ FencesOK'
    BY <1>0, <1>12, KeepFlags, KeepQueue, KeepHeld, KeepShown, KeepFences DEF WorkerWait, WorkerGoes, PipelineUnchanged, OthersUnchanged
  <2>2. ThreadsOK'
    BY <1>0, <1>12 DEF WorkerWait, WorkerGoes, PipelineUnchanged, OthersUnchanged, ThreadsOK
  <2>3. TypeOK'
    BY <2>1, <2>2, TypePartsNext
  <2>. QED BY <1>12, <2>3, QuietKeepsInv DEF WorkerWait, WorkerGoes, PipelineUnchanged, OthersUnchanged
<1>13. CASE WorkerTimeout
  <2>1. FlagsOK' /\ QueueOK' /\ HeldOK' /\ ShownOK' /\ FencesOK'
    BY <1>0, <1>13, KeepFlags, KeepQueue, KeepHeld, KeepShown, KeepFences DEF WorkerTimeout, WorkerGoes, PipelineUnchanged, OthersUnchanged
  <2>2. ThreadsOK'
    BY <1>0, <1>13 DEF WorkerTimeout, WorkerGoes, PipelineUnchanged, OthersUnchanged, ThreadsOK
  <2>3. TypeOK'
    BY <2>1, <2>2, TypePartsNext
  <2>. QED BY <1>13, <2>3, QuietKeepsInv DEF WorkerTimeout, WorkerGoes, PipelineUnchanged, OthersUnchanged
<1>14. CASE CommitCheck
  <2>1. FlagsOK'
    <3>1. pset_' \in BOOLEAN
      BY <1>14, Zenon DEF CommitCheck
    <3>. QED BY <1>0, <1>14, <3>1 DEF CommitCheck, OthersUnchanged, FlagsOK
  <2>2. ShownOK'
    <3>1. planes' = planes \/ planes' = [d \in Displays |-> 0]
      BY <1>14 DEF CommitCheck
    <3>2. screen' = screen
      BY <1>14 DEF CommitCheck
    <3>. QED BY <1>0, <3>1, <3>2 DEF ShownOK
  <2>3. QueueOK' /\ HeldOK' /\ FencesOK'
    BY <1>0, <1>14, KeepQueue, KeepHeld, KeepFences DEF CommitCheck, WorkerGoes, OthersUnchanged
  <2>4. ThreadsOK'
    BY <1>0, <1>14 DEF CommitCheck, WorkerGoes, OthersUnchanged, ThreadsOK
  <2>5. TypeOK'
    BY <2>1, <2>2, <2>3, <2>4, TypePartsNext
  <2>. QED BY <1>14, <2>5, QuietKeepsInv DEF CommitCheck, WorkerGoes, OthersUnchanged
<1>15. CASE AtomicCommit
  <2>1. FlagsOK'
    BY <1>0, <1>15 DEF AtomicCommit, OthersUnchanged, FlagsOK
  <2>2. ShownOK'
    <3>1. \/ screen' = [d \in Displays |-> IF planes[d] # 0 THEN planes[d] ELSE screen[d]]
          \/ screen' = screen
      BY <1>15 DEF AtomicCommit
    <3>2. planes' = [d \in Displays |-> 0]
      BY <1>15 DEF AtomicCommit
    <3>. QED BY <1>0, <3>1, <3>2 DEF ShownOK
  <2>3. QueueOK' /\ HeldOK' /\ FencesOK'
    BY <1>0, <1>15, KeepQueue, KeepHeld, KeepFences DEF AtomicCommit, WorkerGoes, OthersUnchanged
  <2>4. ThreadsOK'
    BY <1>0, <1>15 DEF AtomicCommit, WorkerGoes, OthersUnchanged, ThreadsOK
  <2>5. TypeOK'
    BY <2>1, <2>2, <2>3, <2>4, TypePartsNext
  <2>. QED BY <1>15, <2>5, QuietKeepsInv DEF AtomicCommit, WorkerGoes, OthersUnchanged
<1>16. CASE CompositeTail
  <2>1. FlagsOK' /\ QueueOK' /\ HeldOK' /\ ShownOK' /\ FencesOK'
    BY <1>0, <1>16, KeepFlags, KeepQueue, KeepHeld, KeepShown, KeepFences DEF CompositeTail, WorkerGoes, PipelineUnchanged, OthersUnchanged
  <2>2. ThreadsOK'
    BY <1>0, <1>16 DEF CompositeTail, WorkerGoes, PipelineUnchanged, OthersUnchanged, ThreadsOK
  <2>3. TypeOK'
    BY <2>1, <2>2, TypePartsNext
  <2>. QED BY <1>16, <2>3, QuietKeepsInv DEF CompositeTail, WorkerGoes, PipelineUnchanged, OthersUnchanged
<1>17. CASE QueueLocked
  <2>1. hand \in [d : Displays, n : Nat, svep : BOOLEAN] /\ hand.d \in Displays
    BY <1>0 DEF ThreadsOK
  <2>2. HeldOK' /\ ShownOK'
    BY <1>0, <1>17, KeepHeld, KeepShown DEF QueueLocked
  <2>3. CASE WaitOrPush /\ UNCHANGED <<timeline, done>>
    <3>1. /\ QueueOK' /\ clear_' \in BOOLEAN /\ drop_mode_' \in BOOLEAN
          /\ sf' \in {"waiting", "notify"}
          /\ hand' \in [d : Displays, n : Nat, svep : BOOLEAN]
          /\ QueueInv'
      BY <1>0, <1>17, <2>1, <2>3, PushKeepsInv DEF QueueLocked
    <3>2. FlagsOK'
      BY <1>0, <1>17, <3>1 DEF QueueLocked, FlagsOK
    <3>3. FencesOK'
      BY <1>0, <1>17, <2>3, KeepFences DEF QueueLocked
    <3>4. ThreadsOK'
      BY <1>0, <1>17, <3>1 DEF QueueLocked, ThreadsOK
    <3>. QED BY <2>2, <3>1, <3>2, <3>3, <3>4, TypePartsNext DEF IInv
  <2>4. CASE Refuse /\ UNCHANGED <<drop_mode_, queue, count, clear_>>
    <3>1. FlagsOK' /\ QueueOK'
      BY <1>0, <1>17, <2>4, KeepFlags, KeepQueue DEF QueueLocked
    <3>2. /\ FencesOK' /\ sf' = "idle"
          /\ hand' \in [d : Displays, n : Nat, svep : BOOLEAN]
      BY <1>0, <1>17, <2>1, <2>4, RefuseType DEF QueueLocked
    <3>3. ThreadsOK'
      BY <1>0, <1>17, <3>2 DEF QueueLocked, ThreadsOK
    <3>4. TypeOK'
      BY <2>2, <3>1, <3>2, <3>3, TypePartsNext
    <3>. QED BY <1>17, <2>4, <3>2, <3>4, QuietKeepsInv DEF QueueLocked
  <2>. QED BY <1>17, <2>3, <2>4 DEF QueueLocked
<1>18. CASE QueueWoken
  <2>1. hand \in [d : Displays, n : Nat, svep : BOOLEAN] /\ hand.d \in Displays
    BY <1>0 DEF ThreadsOK
  <2>2. /\ QueueOK' /\ clear_' \in BOOLEAN /\ drop_mode_' \in BOOLEAN
        /\ sf' \in {"waiting", "notify"}
        /\ hand' \in [d : Displays, n : Nat, svep : BOOLEAN]
        /\ QueueInv'
    BY <1>0, <1>18, <2>1, PushKeepsInv DEF QueueWoken
  <2>3. FlagsOK'
    BY <1>0, <1>18, <2>2 DEF QueueWoken, FlagsOK
  <2>4. HeldOK' /\ ShownOK' /\ FencesOK'
    BY <1>0, <1>18, KeepHeld, KeepShown, KeepFences DEF QueueWoken
  <2>5. ThreadsOK'
    BY <1>0, <1>18, <2>2 DEF QueueWoken, ThreadsOK
  <2>. QED BY <2>2, <2>3, <2>4, <2>5, TypePartsNext DEF IInv
<1>19. CASE SfClearDisplay
  <2>1. hand.d \in Displays
    BY <1>0 DEF ThreadsOK
  <2>2. /\ ClearDisplay /\ UNCHANGED <<hand, planes, created>>
        /\ sf' = "waiting" => sf = "waiting" /\ ~WakesPresenter
    BY <1>19 DEF SfClearDisplay
  <2>3. /\ QueueOK' /\ HeldOK' /\ ShownOK' /\ FencesOK' /\ clear_' = TRUE
        /\ QueueInv'
    BY <1>0, <2>1, <2>2, ClearKeepsInv
  <2>4. FlagsOK'
    BY <1>0, <1>19, <2>3 DEF SfClearDisplay, FlagsOK
  <2>5. ThreadsOK'
    BY <1>0, <1>19 DEF SfClearDisplay, ThreadsOK
  <2>. QED BY <2>3, <2>4, <2>5, TypePartsNext DEF IInv
<1>20. CASE EventClearDisplay
  <2>1. hand.d \in Displays
    BY <1>0 DEF ThreadsOK
  <2>2. /\ ClearDisplay /\ UNCHANGED <<hand, planes, created>>
        /\ sf' = "waiting" => sf = "waiting" /\ ~WakesPresenter
    BY <1>20 DEF EventClearDisplay
  <2>3. /\ QueueOK' /\ HeldOK' /\ ShownOK' /\ FencesOK' /\ clear_' = TRUE
        /\ QueueInv'
    BY <1>0, <2>1, <2>2, ClearKeepsInv
  <2>4. FlagsOK'
    BY <1>0, <1>20, <2>3 DEF EventClearDisplay, FlagsOK
  <2>5. ThreadsOK'
    BY <1>0, <1>20 DEF EventClearDisplay, ThreadsOK
  <2>. QED BY <2>3, <2>4, <2>5, TypePartsNext DEF IInv
<1>21. CASE WorkerClearDisplay
  <2>1. hand.d \in Displays
    BY <1>0 DEF ThreadsOK
  <2>2. /\ ClearDisplay /\ UNCHANGED <<hand, planes, created>>
        /\ sf' = "waiting" => sf = "waiting" /\ ~WakesPresenter
    BY <1>21 DEF WorkerClearDisplay, WorkerGoes, OthersUnchanged
  <2>3. /\ QueueOK' /\ HeldOK' /\ ShownOK' /\ FencesOK' /\ clear_' = TRUE
        /\ QueueInv'
    BY <1>0, <2>1, <2>2, ClearKeepsInv
  <2>4. FlagsOK'
    BY <1>0, <1>21, <2>3 DEF WorkerClearDisplay, WorkerGoes, OthersUnchanged, FlagsOK
  <2>5. ThreadsOK'
    BY <1>0, <1>21 DEF WorkerClearDisplay, WorkerGoes, OthersUnchanged, ThreadsOK
  <2>. QED BY <2>3, <2>4, <2>5, TypePartsNext DEF IInv
<1>22. CASE CollectSFInfo
  BY <1>22, CollectKeepsInv
<1>23. CASE CommitRetire
  <2>1. FencesOK'
    <3>. SUFFICES ASSUME NEW d \in Displays
                  PROVE timeline[d] + NumReplaced(d) \in Nat /\ done[d] \cup Replaced(d) \subseteq Nat
      BY <1>0, <1>23 DEF CommitRetire, OthersUnchanged, FencesOK
    <3>1. useless[d] \in Seq(Nat) /\ current[d] \in Nat
      BY <1>0 DEF HeldOK
    <3>2. timeline[d] \in Nat /\ done[d] \subseteq Nat
      BY <1>0 DEF FencesOK
    <3>3. Range(useless[d]) \subseteq Nat
      BY <3>1 DEF Range
    <3>4. One(current[d]) \in Nat /\ Len(useless[d]) \in Nat
      BY <3>1 DEF One
    <3>. QED BY <3>1, <3>2, <3>3, <3>4 DEF NumReplaced, Replaced, Nonzero
  <2>2. HeldOK'
    <3>1. /\ current' = [d \in Displays |-> IF collect[d] # 0 THEN collect[d] ELSE current[d]]
          /\ collect' = [d \in Displays |-> 0]
          /\ useless' = [d \in Displays |-> << >>]
      BY <1>23 DEF CommitRetire
    <3>. QED BY <1>0, <3>1, EmptySeq DEF HeldOK
  <2>3. FlagsOK' /\ QueueOK' /\ ShownOK'
    BY <1>0, <1>23, KeepFlags, KeepQueue, KeepShown DEF CommitRetire, OthersUnchanged
  <2>4. ThreadsOK'
    BY <1>0, <1>23 DEF CommitRetire, WorkerGoes, OthersUnchanged, ThreadsOK
  <2>5. TypeOK'
    BY <2>1, <2>2, <2>3, <2>4, TypePartsNext
  <2>6. CountMatchesQueue'
    BY <1>0, <1>23 DEF CommitRetire, QueueInv, CountMatchesQueue
  <2>7. BlockedHasReason'
    <3>. SUFFICES ASSUME sf' = "waiting" PROVE (QueueFull /\ queue[hand.d] # << >>)'
      BY Zenon DEF BlockedHasReason
    <3>1. UNCHANGED <<hand, sf, queue, count, mCompositionDropMode>>
      BY <1>23 DEF CommitRetire, OthersUnchanged
    <3>2. QueueFull /\ queue[hand.d] # << >>
      BY <1>0, <3>1, Zenon DEF QueueInv, BlockedHasReason
    <3>3. QueueFull'
      BY <3>1, <3>2 DEF QueueFull, GetCompositeQueueMaxSize, SetsDropMode
    <3>. QED BY <3>1, <3>2, <3>3
  <2>8. ClearMeansEmpty'
    BY <1>0, <1>23 DEF CommitRetire, QueueInv, ClearMeansEmpty, Empty, Holds
  <2>. QED BY <2>5, <2>6, <2>7, <2>8, Zenon DEF IInv, QueueInv
<1>24. CASE UNCHANGED vars
  <2>1. FlagsOK' /\ QueueOK' /\ HeldOK' /\ ShownOK' /\ FencesOK'
    BY <1>0, <1>24, KeepFlags, KeepQueue, KeepHeld, KeepShown, KeepFences DEF vars
  <2>2. ThreadsOK'
    BY <1>0, <1>24 DEF vars, ThreadsOK
  <2>3. TypeOK'
    BY <2>1, <2>2, TypePartsNext
  <2>. QED BY <1>24, <2>3, QuietKeepsInv DEF vars
<1>. QED
  BY <1>1, <1>2, <1>3, <1>4, <1>5, <1>6, <1>7, <1>8, <1>9, <1>10, <1>11, <1>12, <1>13,
     <1>14, <1>15, <1>16, <1>17, <1>18, <1>19, <1>20, <1>21, <1>22, <1>23, <1>24, Zenon
  DEF Next, Begin, SfStep, EventStep, WorkerStep

LEMMA InvHolds == Spec => []IInv
  BY InvInit, NextKeepsInv, PTL DEF Spec

(* Every variable keeps its type: in particular the counter the presenter    *)
(* blocks on never goes below zero.                                          *)
THEOREM TypeCorrect == Spec => []TypeOK
  BY InvHolds, PTL DEF IInv

(* Each display's counter is the number of its compositions in the queue,    *)
(* for every queueing mode and every interleaving of the three threads.      *)
THEOREM CountCorrect == Spec => []CountMatchesQueue
  BY InvHolds, PTL DEF IInv, QueueInv

(* A presenter is never left blocked on a queue with room.                   *)
THEOREM NoLostWakeup == Spec => []BlockedHasReason
  BY InvHolds, PTL DEF IInv, QueueInv

(* After ClearDisplay() the pipeline stays empty until the next push.        *)
THEOREM ClearIsComplete == Spec => []ClearMeansEmpty
  BY InvHolds, PTL DEF IInv, QueueInv


(***************************************************************************)
(* Release fences signal in the order of the frames as long as no frame's  *)
(* properties are rejected and only SurfaceFlinger's thread switches the   *)
(* power: whatever is unplugged, cleared or fails to commit.               *)
(***************************************************************************)
OrderedWorld == "collect" \notin Faults /\ "power" \notin EventOps

OrderInv == PipelineInOrder /\ FencesInOrder /\ PhasesAgree

LEMMA OrderInit == Init => OrderInv
<1>. SUFFICES ASSUME Init PROVE OrderInv
  OBVIOUS
<1>1. PipelineInOrder
  BY DEF Init, PipelineInOrder, NoHand, InHand, AfterQueue, AfterCollect, AfterUseless,
         AfterCurrent, One
<1>2. FencesInOrder
  BY DEF Init, FencesInOrder
<1>3. PhasesAgree
  BY DEF Init, PhasesAgree, Empty, Holds, NoHand
<1>. QED BY <1>1, <1>2, <1>3 DEF OrderInv

(* The frames of one display, in the order of the pipeline: types and sums.  *)
LEMMA StageTypes ==
  ASSUME TypeOK, NEW d \in Displays
  PROVE  /\ timeline[d] \in Nat /\ created[d] \in Nat /\ done[d] \subseteq Nat
         /\ current[d] \in Nat /\ collect[d] \in Nat
         /\ useless[d] \in Seq(Nat) /\ Len(useless[d]) \in Nat
         /\ queue[d] \in Seq(Nat) /\ Len(queue[d]) \in Nat
         /\ AfterCurrent(d) \in Nat /\ AfterUseless(d) \in Nat
         /\ AfterCollect(d) \in Nat /\ AfterQueue(d) \in Nat
         /\ hand.d \in Displays /\ hand.n \in Nat
<1>1. /\ timeline[d] \in Nat /\ created[d] \in Nat /\ done[d] \subseteq Nat
      /\ current[d] \in Nat /\ collect[d] \in Nat
      /\ useless[d] \in Seq(Nat) /\ queue[d] \in Seq(Nat)
      /\ hand.d \in Displays /\ hand.n \in Nat
  BY DEF TypeOK
<1>2. Len(useless[d]) \in Nat /\ Len(queue[d]) \in Nat
  BY <1>1
<1>3. One(current[d]) \in Nat /\ One(collect[d]) \in Nat
  BY DEF One
<1>4. AfterCurrent(d) \in Nat /\ AfterUseless(d) \in Nat
  BY <1>1, <1>2, <1>3 DEF AfterCurrent, AfterUseless
<1>5. AfterCollect(d) \in Nat /\ AfterQueue(d) \in Nat
  BY <1>2, <1>3, <1>4 DEF AfterCollect, AfterQueue
<1>. QED BY <1>1, <1>2, <1>4, <1>5

(* A step that leaves the pipeline of every display alone.                   *)
LEMMA PipelineUntouched ==
  ASSUME PipelineInOrder, FencesInOrder,
         UNCHANGED <<queue, collect, useless, current, timeline, created, done, hand>>
  PROVE  PipelineInOrder' /\ FencesInOrder'
  BY DEF PipelineInOrder, FencesInOrder, InHand, AfterQueue, AfterCollect, AfterUseless,
         AfterCurrent

(* Taking the composition out of the presenter's hand.                       *)
LEMMA PresentKeepsOrder ==
  ASSUME IInv, OrderInv, NEW d \in Displays, NEW svep \in SvepKinds,
         PresentDisplay(d, svep)
  PROVE  OrderInv'
<1>1. hand.n = 0
  BY DEF OrderInv, PhasesAgree, PresentDisplay
<1>2. PipelineInOrder'
  <2>. SUFFICES ASSUME NEW e \in Displays
                PROVE  /\ InHand(e)' => hand'.n = AfterQueue(e) + 1
                       /\ created'[e] = IF InHand(e)' THEN AfterQueue(e) + 1
                                        ELSE AfterQueue(e)
    BY DEF PresentDisplay, OrderInv, PipelineInOrder, sets, kernel, AfterQueue,
           AfterCollect, AfterUseless, AfterCurrent
  <2>1. created[e] = AfterQueue(e)
    BY <1>1 DEF OrderInv, PipelineInOrder, InHand
  <2>2. hand' = [d |-> d, n |-> created[d] + 1, svep |-> svep]
        /\ created' = [created EXCEPT ![d] = @ + 1]
    BY DEF PresentDisplay
  <2>3. created \in [Displays -> Nat]
    BY DEF IInv, TypeOK
  <2>. QED BY <2>1, <2>2, <2>3 DEF InHand
<1>3. FencesInOrder'
  BY DEF PresentDisplay, OrderInv, FencesInOrder, kernel
<1>4. PhasesAgree'
  <2>1. created[d] \in Nat
    BY DEF IInv, TypeOK
  <2>2. hand'.n = created[d] + 1
    BY DEF PresentDisplay
  <2>3. hand'.n # 0
    BY <2>1, <2>2
  <2>. QED BY <2>3 DEF PresentDisplay, OrderInv, PhasesAgree, sets, request, Empty, Holds
<1>. QED BY <1>2, <1>3, <1>4 DEF OrderInv

(* Pushing it: the presenter does so only while the display is active.       *)
LEMMA PushKeepsOrder ==
  ASSUME IInv, OrderInv, WaitOrPush, sf \in {"lock", "woken"}, active_, active_',
         UNCHANGED <<worker, collect, useless, current, timeline, created, done, pset_>>
  PROVE  OrderInv'
<1>1. hand.n # 0 /\ hand.d \in Displays
  BY DEF OrderInv, PhasesAgree, IInv, TypeOK
<1>2. CASE sf' = "waiting" /\ UNCHANGED <<queue, count, clear_, hand>>
  <2>1. PhasesAgree'
    BY <1>1, <1>2 DEF OrderInv, PhasesAgree
  <2>. QED BY <1>2, <2>1, PipelineUntouched DEF OrderInv
<1>3. CASE /\ queue' = [queue EXCEPT ![hand.d] = Append(@, hand.n)]
           /\ hand' = NoHand /\ sf' = "notify"
  <2>1. PipelineInOrder'
    <3>. SUFFICES ASSUME NEW d \in Displays
                  PROVE  /\ \A i \in DOMAIN queue'[d] : queue'[d][i] = AfterCollect(d) + i
                         /\ created[d] = AfterCollect(d) + Len(queue'[d])
                         /\ hand'.n = 0
      BY <1>3 DEF OrderInv, PipelineInOrder, InHand, AfterQueue, AfterCollect,
                  AfterUseless, AfterCurrent
    <3>0. hand'.n = 0
      BY <1>3 DEF NoHand
    <3>1. /\ AfterCollect(d) \in Nat /\ queue[d] \in Seq(Nat) /\ hand.n \in Nat
          /\ queue \in [Displays -> Seq(Nat)]
      BY StageTypes DEF IInv, TypeOK
    <3>2. \A i \in DOMAIN queue[d] : queue[d][i] = AfterCollect(d) + i
      BY DEF OrderInv, PipelineInOrder
    <3>3. CASE d = hand.d
      <4>1. queue'[d] = Append(queue[d], hand.n)
        BY <1>3, <3>1, <3>3
      <4>2. hand.n = AfterCollect(d) + Len(queue[d]) + 1 /\ created[d] = hand.n
        BY <1>1, <3>3 DEF OrderInv, PipelineInOrder, InHand, AfterQueue
      <4>3. Len(queue'[d]) = Len(queue[d]) + 1
        BY <3>1, <4>1
      <4>4. ASSUME NEW i \in DOMAIN queue'[d]
            PROVE queue'[d][i] = AfterCollect(d) + i
        <5>1. i \in 1..(Len(queue[d]) + 1)
          BY <3>1, <4>1
        <5>2. CASE i \in 1..Len(queue[d])
          BY <3>1, <3>2, <4>1, <5>2
        <5>3. CASE i = Len(queue[d]) + 1
          BY <3>1, <4>1, <4>2, <5>3
        <5>. QED BY <3>1, <5>1, <5>2, <5>3
      <4>. QED BY <3>0, <3>1, <4>2, <4>3, <4>4
    <3>4. CASE d # hand.d
      <4>1. queue'[d] = queue[d]
        BY <1>3, <3>1, <3>4
      <4>. QED BY <3>0, <3>2, <3>4, <4>1 DEF OrderInv, PipelineInOrder, InHand, AfterQueue
    <3>. QED BY <3>3, <3>4
  <2>2. FencesInOrder'
    BY DEF OrderInv, FencesInOrder
  <2>3. PhasesAgree'
    BY <1>3 DEF OrderInv, PhasesAgree, NoHand
  <2>. QED BY <2>1, <2>2, <2>3 DEF OrderInv
<1>. QED BY <1>2, <1>3 DEF WaitOrPush, Push

(* A composition is refused only by an inactive compositor, which holds no   *)
(* other: its fence is the next one to signal.                               *)
LEMMA RefuseKeepsOrder ==
  ASSUME IInv, OrderInv, Refuse, sf = "queue", ~active_, ~active_',
         UNCHANGED <<worker, queue, collect, useless, current, created, pset_>>
  PROVE  OrderInv'
<1>1. Empty /\ hand.n # 0
  BY DEF OrderInv, PhasesAgree
<1>2. hand.d \in Displays /\ hand.n \in Nat /\ hand'.n = 0
  BY DEF IInv, TypeOK, Refuse, NoHand
<1>3. \A d \in Displays :
        /\ timeline[d] \in Nat
        /\ current[d] = 0 /\ collect[d] = 0 /\ useless[d] = << >> /\ queue[d] = << >>
        /\ AfterQueue(d) = timeline[d]
  BY <1>1 DEF Empty, Holds, AfterQueue, AfterCollect, AfterUseless, AfterCurrent, One,
              IInv, TypeOK
<1>4. timeline' = [timeline EXCEPT ![hand.d] = @ + 1]
      /\ done' = [done EXCEPT ![hand.d] = @ \cup {hand.n}]
  BY DEF Refuse, SignalOne
<1>5. timeline \in [Displays -> Nat] /\ done \in [Displays -> SUBSET Nat]
  BY DEF IInv, TypeOK
<1>6. hand.n = timeline[hand.d] + 1 /\ created[hand.d] = hand.n
  BY <1>1, <1>2, <1>3 DEF OrderInv, PipelineInOrder, InHand
<1>7. PipelineInOrder'
  <2>. SUFFICES ASSUME NEW d \in Displays PROVE created[d] = timeline'[d]
    BY <1>2, <1>3, <1>4, <1>5 DEF PipelineInOrder, InHand, AfterQueue, AfterCollect,
       AfterUseless, AfterCurrent, One
  <2>1. CASE d = hand.d
    BY <1>4, <1>5, <1>6, <2>1
  <2>2. CASE d # hand.d
    BY <1>3, <1>4, <1>5, <2>2 DEF OrderInv, PipelineInOrder, InHand
  <2>. QED BY <2>1, <2>2
<1>8. FencesInOrder'
  <2>. SUFFICES ASSUME NEW d \in Displays PROVE done'[d] = 1..timeline'[d]
    BY DEF FencesInOrder
  <2>1. done[d] = 1..timeline[d] /\ timeline[d] \in Nat
    BY <1>3 DEF OrderInv, FencesInOrder
  <2>2. CASE d = hand.d
    <3>1. timeline'[d] = timeline[d] + 1 /\ done'[d] = done[d] \cup {timeline[d] + 1}
      BY <1>4, <1>5, <1>6, <2>2
    <3>. QED BY <2>1, <3>1
  <2>3. CASE d # hand.d
    BY <1>4, <1>5, <2>1, <2>3
  <2>. QED BY <2>2, <2>3
<1>9. PhasesAgree'
  BY <1>1, <1>2, <1>3 DEF OrderInv, PhasesAgree, Refuse, Empty, Holds
<1>. QED BY <1>7, <1>8, <1>9 DEF OrderInv

(* A run of consecutive frames is an interval.                               *)
LEMMA Consecutive ==
  ASSUME NEW s \in Seq(Nat), NEW b \in Nat, \A i \in DOMAIN s : s[i] = b + i
  PROVE  Range(s) = (b + 1)..(b + Len(s))
<1>1. DOMAIN s = 1..Len(s) /\ Len(s) \in Nat
  OBVIOUS
<1>2. ASSUME NEW n \in Range(s) PROVE n \in (b + 1)..(b + Len(s))
  BY <1>1, <1>2 DEF Range
<1>3. ASSUME NEW n \in (b + 1)..(b + Len(s)) PROVE n \in Range(s)
  <2>1. n - b \in DOMAIN s /\ s[n - b] = n
    BY <1>1
  <2>. QED BY <2>1 DEF Range
<1>. QED BY <1>2, <1>3

(* ClearDisplay() releases the interval from the timeline to the queue's end.*)
LEMMA ClearKeepsOrder ==
  ASSUME IInv, OrderInv, ClearDisplay, UNCHANGED <<active_, created, hand, pset_>>,
         hand.n # 0 <=> sf' \in {"queue", "lock", "waiting", "woken"},
         sf' \in {"lock", "waiting", "woken"} => active_
  PROVE  OrderInv'
<1>1. /\ queue' = [d \in Displays |-> << >>] /\ collect' = [d \in Displays |-> 0]
      /\ useless' = [d \in Displays |-> << >>] /\ current' = [d \in Displays |-> 0]
      /\ done' = [d \in Displays |-> done[d] \cup Held(d)]
      /\ timeline' = [d \in Displays |-> timeline[d] + NumHeld(d)]
  BY DEF ClearDisplay, EmptyContainers
<1>2. \A d \in Displays : timeline[d] + NumHeld(d) = AfterQueue(d) /\ AfterQueue(d) \in Nat
  <2>. SUFFICES ASSUME NEW d \in Displays
                PROVE timeline[d] + NumHeld(d) = AfterQueue(d) /\ AfterQueue(d) \in Nat
    OBVIOUS
  <2>1. One(current[d]) \in Nat /\ One(collect[d]) \in Nat
    BY DEF One
  <2>2. /\ timeline[d] \in Nat /\ Len(useless[d]) \in Nat /\ Len(queue[d]) \in Nat
        /\ AfterQueue(d) \in Nat
    BY StageTypes DEF IInv
  <2>3. AfterQueue(d) = timeline[d] + One(current[d]) + Len(useless[d])
                        + One(collect[d]) + Len(queue[d])
    BY DEF AfterQueue, AfterCollect, AfterUseless, AfterCurrent
  <2>5. timeline[d] + (One(current[d]) + One(collect[d]) + Len(useless[d]) + Len(queue[d]))
          = timeline[d] + One(current[d]) + Len(useless[d]) + One(collect[d]) + Len(queue[d])
    <3>1. \A t, c, u, l, q \in Nat : t + (c + l + u + q) = t + c + u + l + q
      OBVIOUS
    <3>. QED BY <2>1, <2>2, <3>1, SMT
  <2>. QED BY <2>2, <2>3, <2>5, Zenon DEF NumHeld
<1>3. PipelineInOrder'
  <2>. SUFFICES ASSUME NEW d \in Displays
                PROVE  /\ AfterQueue(d)' = AfterQueue(d)
                       /\ InHand(d) => hand.n = AfterQueue(d) + 1
                       /\ created[d] = IF InHand(d) THEN AfterQueue(d) + 1 ELSE AfterQueue(d)
    BY <1>1 DEF PipelineInOrder, InHand
  <2>1. AfterQueue(d)' = AfterQueue(d)
    BY <1>1, <1>2 DEF AfterQueue, AfterCollect, AfterUseless, AfterCurrent, One
  <2>. QED BY <2>1 DEF OrderInv, PipelineInOrder
<1>4. FencesInOrder'
  <2>. SUFFICES ASSUME NEW d \in Displays PROVE done[d] \cup Held(d) = 1..AfterQueue(d)
    BY <1>1, <1>2 DEF FencesInOrder
  <2>1. done[d] = 1..timeline[d]
    BY DEF OrderInv, FencesInOrder
  <2>2. Range(useless[d]) = (AfterCurrent(d) + 1)..AfterUseless(d)
    BY StageTypes, Consecutive DEF IInv, OrderInv, PipelineInOrder, AfterUseless
  <2>3. Range(queue[d]) = (AfterCollect(d) + 1)..AfterQueue(d)
    BY StageTypes, Consecutive DEF IInv, OrderInv, PipelineInOrder, AfterQueue
  <2>4. Nonzero(current[d]) = (timeline[d] + 1)..AfterCurrent(d)
    BY StageTypes DEF IInv, OrderInv, PipelineInOrder, AfterCurrent, One, Nonzero
  <2>5. Nonzero(collect[d]) = (AfterUseless(d) + 1)..AfterCollect(d)
    BY StageTypes DEF IInv, OrderInv, PipelineInOrder, AfterCollect, One, Nonzero
  <2>6. /\ timeline[d] \in Nat /\ AfterCurrent(d) \in Nat /\ AfterUseless(d) \in Nat
        /\ AfterCollect(d) \in Nat /\ AfterQueue(d) \in Nat
        /\ Len(useless[d]) \in Nat /\ Len(queue[d]) \in Nat
    BY StageTypes DEF IInv
  <2>7. timeline[d] <= AfterCurrent(d) /\ AfterUseless(d) <= AfterCollect(d)
    BY <2>6 DEF AfterCurrent, AfterCollect, One
  <2>8. AfterCurrent(d) <= AfterUseless(d) /\ AfterCollect(d) <= AfterQueue(d)
    BY <2>6 DEF AfterUseless, AfterQueue
  <2>9. ASSUME NEW e PROVE e \in done[d] \cup Held(d) <=> e \in 1..AfterQueue(d)
    <3>1. e \in done[d] <=> e \in Int /\ 1 <= e /\ e <= timeline[d]
      BY <2>1, <2>6
    <3>2. e \in Nonzero(current[d]) <=> e \in Int /\ timeline[d] + 1 <= e /\ e <= AfterCurrent(d)
      BY <2>4, <2>6
    <3>3. e \in Range(useless[d]) <=> e \in Int /\ AfterCurrent(d) + 1 <= e /\ e <= AfterUseless(d)
      BY <2>2, <2>6
    <3>4. e \in Nonzero(collect[d]) <=> e \in Int /\ AfterUseless(d) + 1 <= e /\ e <= AfterCollect(d)
      BY <2>5, <2>6
    <3>5. e \in Range(queue[d]) <=> e \in Int /\ AfterCollect(d) + 1 <= e /\ e <= AfterQueue(d)
      BY <2>3, <2>6
    <3>6. e \in done[d] \cup Held(d)
            <=> e \in done[d] \/ e \in Nonzero(current[d]) \/ e \in Range(useless[d])
                \/ e \in Nonzero(collect[d]) \/ e \in Range(queue[d])
      BY Zenon DEF Held
    <3>7. e \in 1..AfterQueue(d) <=> e \in Int /\ 1 <= e /\ e <= AfterQueue(d)
      BY <2>6
    <3>. QED BY <2>6, <2>7, <2>8, <3>1, <3>2, <3>3, <3>4, <3>5, <3>6, <3>7
  <2>. QED BY <2>9, Zenon
<1>5. PhasesAgree'
  BY <1>1 DEF OrderInv, PhasesAgree, Empty, Holds
<1>. QED BY <1>3, <1>4, <1>5 DEF OrderInv

(* What CollectSFInfo() takes from consecutive frames are the oldest, and    *)
(* what it leaves follows them.                                              *)
LEMMA OrderedSplit ==
  ASSUME NEW q \in Seq(Nat), q # << >>, drop_mode_ \in BOOLEAN,
         NEW b \in Nat, \A i \in DOMAIN q : q[i] = b + i
  PROVE  /\ Picked(q) = b + Len(Dropped(q)) + 1
         /\ \A i \in DOMAIN Dropped(q) : Dropped(q)[i] = b + i
         /\ \A i \in DOMAIN Remaining(q) : Remaining(q)[i] = b + Len(Dropped(q)) + 1 + i
<1>1. Len(q) \in Nat \ {0} /\ q[1] = b + 1 /\ DOMAIN q = 1..Len(q)
  BY EmptySeq
<1>2. CASE drop_mode_ /\ Len(q) > 1
  <2>1. q[2] = b + 2 /\ q[2] > q[1]
    <3>1. 2 \in DOMAIN q
      BY <1>1, <1>2
    <3>2. q[2] = b + 2
      BY <3>1
    <3>. QED BY <1>1, <3>2
  <2>2. Dropped(q) = << b + 1 >> /\ Picked(q) = b + 2
    BY <1>1, <1>2, <2>1 DEF Dropped, Picked
  <2>3. Remaining(q) = SubSeq(q, 3, Len(q))
    BY <2>2 DEF Remaining
  <2>4. 3 \in 1..(Len(q) + 1)
    BY <1>1, <1>2
  <2>5. /\ SubSeq(q, 3, Len(q)) \in Seq(Nat)
        /\ Len(SubSeq(q, 3, Len(q))) = Len(q) - 3 + 1
        /\ \A i \in 1..(Len(q) - 3 + 1) : SubSeq(q, 3, Len(q))[i] = q[3 + i - 1]
    BY <2>4, Suffix
  <2>6. ASSUME NEW i \in DOMAIN Remaining(q)
        PROVE  Remaining(q)[i] = b + 2 + i
    <3>1. i \in 1..(Len(q) - 3 + 1)
      BY <1>1, <2>3, <2>5
    <3>2. Remaining(q)[i] = q[3 + i - 1]
      BY <2>3, <2>5, <3>1
    <3>3. 3 + i - 1 \in DOMAIN q
      BY <1>1, <3>1
    <3>4. q[3 + i - 1] = b + (3 + i - 1)
      BY <3>3
    <3>. QED BY <1>1, <3>1, <3>2, <3>4
  <2>. QED BY <2>2, <2>6
<1>3. CASE ~(drop_mode_ /\ Len(q) > 1)
  <2>1. Dropped(q) = << >> /\ Picked(q) = b + 1
    BY <1>1, <1>3 DEF Dropped, Picked
  <2>2. Remaining(q) = SubSeq(q, 2, Len(q))
    BY <2>1 DEF Remaining
  <2>3. 2 \in 1..(Len(q) + 1)
    BY <1>1
  <2>4. /\ SubSeq(q, 2, Len(q)) \in Seq(Nat)
        /\ Len(SubSeq(q, 2, Len(q))) = Len(q) - 2 + 1
        /\ \A i \in 1..(Len(q) - 2 + 1) : SubSeq(q, 2, Len(q))[i] = q[2 + i - 1]
    BY <2>3, Suffix
  <2>5. ASSUME NEW i \in DOMAIN Remaining(q)
        PROVE  Remaining(q)[i] = b + 1 + i
    <3>1. i \in 1..(Len(q) - 2 + 1)
      BY <1>1, <2>2, <2>4
    <3>2. Remaining(q)[i] = q[2 + i - 1]
      BY <2>2, <2>4, <3>1
    <3>3. 2 + i - 1 \in DOMAIN q
      BY <1>1, <3>1
    <3>4. q[2 + i - 1] = b + (2 + i - 1)
      BY <3>3
    <3>. QED BY <1>1, <3>1, <3>2, <3>4
  <2>. QED BY <2>1, <2>5
<1>. QED BY <1>2, <1>3

(* Collecting moves the oldest frames of each queue on, none of them lost.   *)
LEMMA CollectKeepsOrder ==
  ASSUME IInv, OrderInv, OrderedWorld, CollectSFInfo
  PROVE  OrderInv'
<1>1. \A d \in Displays : collect[d] = 0 /\ useless[d] = << >>
  BY DEF CollectSFInfo, WorkerGoes, OrderInv, PhasesAgree
<1>2. CollectInfo({}, Batch)
  BY Zenon DEF CollectSFInfo, OrderedWorld
<1>3. /\ worker' = "commit" /\ sf' = IF WakesPresenter THEN "woken" ELSE sf
      /\ queue' = [d \in Displays |-> IF d \in Batch THEN Remaining(queue[d]) ELSE << >>]
      /\ UNCHANGED <<active_, current, created, hand>>
  BY DEF CollectSFInfo, WorkerGoes, OthersUnchanged
<1>4. /\ pset_' = IF Batch = {} THEN pset_ ELSE TRUE
      /\ collect' = [d \in Displays |-> IF d \in Batch THEN Picked(queue[d]) ELSE 0]
      /\ useless' = [d \in Displays |-> IF d \in Batch THEN Dropped(queue[d]) ELSE << >>]
      /\ done' = [d \in Displays |-> done[d]]
      /\ timeline' = [d \in Displays |-> timeline[d]]
  BY <1>1, <1>2 DEF CollectInfo, CollectInfoLoses
<1>5. done' = done /\ timeline' = timeline
  BY <1>4 DEF IInv, TypeOK
<1>6. PipelineInOrder'
  <2>. SUFFICES ASSUME NEW d \in Displays
                PROVE  /\ \A i \in DOMAIN useless'[d] : useless'[d][i] = AfterCurrent(d) + i
                       /\ collect'[d] \in {0, AfterCurrent(d) + Len(useless'[d]) + 1}
                       /\ \A i \in DOMAIN queue'[d] :
                            queue'[d][i] = AfterCurrent(d) + Len(useless'[d]) + One(collect'[d]) + i
                       /\ AfterCurrent(d) + Len(useless'[d]) + One(collect'[d]) + Len(queue'[d])
                          = AfterQueue(d)
    <3>1. \A d \in Displays :
            /\ AfterCurrent(d)' = AfterCurrent(d)
            /\ AfterUseless(d)' = AfterCurrent(d) + Len(useless'[d])
            /\ AfterCollect(d)' = AfterCurrent(d) + Len(useless'[d]) + One(collect'[d])
            /\ AfterQueue(d)' = AfterCurrent(d) + Len(useless'[d]) + One(collect'[d])
                                + Len(queue'[d])
            /\ InHand(d)' <=> InHand(d)
      BY <1>3, <1>5 DEF AfterQueue, AfterCollect, AfterUseless, AfterCurrent, InHand, One
    <3>2. \A d \in Displays :
            /\ current'[d] \in {0, timeline'[d] + 1}
            /\ InHand(d) => hand'.n = AfterQueue(d) + 1
            /\ created'[d] = IF InHand(d) THEN AfterQueue(d) + 1 ELSE AfterQueue(d)
      BY <1>3, <1>5 DEF OrderInv, PipelineInOrder
    <3>. QED BY <3>1, <3>2 DEF PipelineInOrder
  <2>1. /\ queue[d] \in Seq(Nat) /\ Len(queue[d]) \in Nat /\ AfterCurrent(d) \in Nat
    BY StageTypes DEF IInv
  <2>2. AfterCollect(d) = AfterCurrent(d) /\ AfterQueue(d) = AfterCurrent(d) + Len(queue[d])
    BY <1>1, <2>1, EmptySeq DEF AfterQueue, AfterCollect, AfterUseless, One
  <2>3. CASE d \in Batch
    <3>1. \A i \in DOMAIN queue[d] : queue[d][i] = AfterCurrent(d) + i
      BY <2>2 DEF OrderInv, PipelineInOrder
    <3>2. queue[d] # << >> /\ drop_mode_ \in BOOLEAN
      BY <2>3 DEF Batch, IInv, TypeOK
    <3>3. /\ Picked(queue[d]) = AfterCurrent(d) + Len(Dropped(queue[d])) + 1
          /\ \A i \in DOMAIN Dropped(queue[d]) : Dropped(queue[d])[i] = AfterCurrent(d) + i
          /\ \A i \in DOMAIN Remaining(queue[d]) :
               Remaining(queue[d])[i] = AfterCurrent(d) + Len(Dropped(queue[d])) + 1 + i
      BY <2>1, <3>1, <3>2, OrderedSplit
    <3>4. /\ Len(queue[d]) = 1 + Len(Dropped(queue[d])) + Len(Remaining(queue[d]))
          /\ Len(Dropped(queue[d])) \in Nat /\ Len(Remaining(queue[d])) \in Nat
      <4>1. /\ Len(queue[d]) = 1 + Len(Dropped(queue[d])) + Len(Remaining(queue[d]))
            /\ Dropped(queue[d]) \in Seq(Nat) /\ Remaining(queue[d]) \in Seq(Nat)
        BY <2>1, <3>2, QueueSplit
      <4>. QED BY <4>1
    <3>5. /\ queue'[d] = Remaining(queue[d]) /\ collect'[d] = Picked(queue[d])
          /\ useless'[d] = Dropped(queue[d])
      BY <1>3, <1>4, <2>3
    <3>6. One(collect'[d]) = 1
      BY <2>1, <3>3, <3>4, <3>5 DEF One
    <3>. QED BY <2>1, <2>2, <3>3, <3>4, <3>5, <3>6
  <2>4. CASE d \notin Batch
    <3>1. /\ queue'[d] = << >> /\ collect'[d] = 0 /\ useless'[d] = << >>
          /\ queue[d] = << >>
      BY <1>3, <1>4, <2>4 DEF Batch
    <3>. QED BY <2>1, <2>2, <3>1, EmptySeq DEF One
  <2>. QED BY <2>3, <2>4
<1>7. FencesInOrder'
  BY <1>5 DEF OrderInv, FencesInOrder
<1>8. PhasesAgree'
  <2>1. ~active_' => sf' = "clear" \/ Empty'
    BY <1>3, <1>4 DEF OrderInv, PhasesAgree, WakesPresenter, Batch, Empty, Holds
  <2>2. /\ sf' \in {"lock", "waiting", "woken"} => active_'
        /\ hand'.n # 0 <=> sf' \in {"queue", "lock", "waiting", "woken"}
    BY <1>3 DEF OrderInv, PhasesAgree, WakesPresenter
  <2>3. ASSUME NEW d \in Displays, useless'[d] # << >> PROVE collect'[d] # 0
    <3>1. d \in Batch
      BY <1>4, <2>3
    <3>2. queue[d] \in Seq(Nat) /\ queue[d] # << >> /\ drop_mode_ \in BOOLEAN
          /\ AfterCollect(d) \in Nat
      BY <3>1, StageTypes DEF Batch, IInv, TypeOK
    <3>3. Picked(queue[d]) = AfterCollect(d) + Len(Dropped(queue[d])) + 1
      BY <3>2, OrderedSplit DEF OrderInv, PipelineInOrder
    <3>4. Len(Dropped(queue[d])) \in Nat
      BY <3>2, QueueSplit
    <3>. QED BY <1>4, <3>1, <3>2, <3>3, <3>4
  <2>4. ASSUME NEW d \in Displays, collect'[d] # 0 PROVE pset_'
    BY <1>4, <2>4
  <2>. QED BY <1>3, <2>1, <2>2, <2>3, <2>4 DEF PhasesAgree
<1>. QED BY <1>6, <1>7, <1>8 DEF OrderInv

(* Retiring releases what stands before the collected frame, which becomes   *)
(* the oldest.                                                               *)
LEMMA RetireKeepsOrder ==
  ASSUME IInv, OrderInv, CommitRetire
  PROVE  OrderInv'
<1>1. /\ done' = [d \in Displays |-> IF collect[d] # 0 THEN done[d] \cup Replaced(d) ELSE done[d]]
      /\ timeline' = [d \in Displays |->
           IF collect[d] # 0 THEN timeline[d] + NumReplaced(d) ELSE timeline[d]]
      /\ current' = [d \in Displays |-> IF collect[d] # 0 THEN collect[d] ELSE current[d]]
      /\ collect' = [d \in Displays |-> 0] /\ useless' = [d \in Displays |-> << >>]
      /\ UNCHANGED <<active_, queue, created, hand, sf, pset_>>
      /\ worker = "retire" /\ worker' = "tail"
  BY DEF CommitRetire, WorkerGoes, OthersUnchanged, request
<1>2. ASSUME NEW d \in Displays
      PROVE  /\ current'[d] \in {0, timeline'[d] + 1}
             /\ AfterCurrent(d)' = AfterCollect(d)
             /\ done'[d] = 1..timeline'[d]
  <2>1. /\ timeline[d] \in Nat /\ current[d] \in Nat /\ collect[d] \in Nat
        /\ useless[d] \in Seq(Nat) /\ Len(useless[d]) \in Nat
        /\ AfterCurrent(d) \in Nat /\ AfterUseless(d) \in Nat /\ AfterCollect(d) \in Nat
    BY StageTypes DEF IInv
  <2>2. /\ current[d] \in {0, timeline[d] + 1} /\ collect[d] \in {0, AfterUseless(d) + 1}
        /\ done[d] = 1..timeline[d]
        /\ \A i \in DOMAIN useless[d] : useless[d][i] = AfterCurrent(d) + i
        /\ useless[d] # << >> => collect[d] # 0
    BY DEF OrderInv, PipelineInOrder, FencesInOrder, PhasesAgree
  <2>3. CASE collect[d] # 0
    <3>1. timeline'[d] = AfterUseless(d)
      <4>1. timeline'[d] = timeline[d] + NumReplaced(d)
        BY <1>1, <2>3
      <4>2. One(current[d]) \in Nat
        BY DEF One
      <4>. QED BY <2>1, <4>1, <4>2 DEF NumReplaced, AfterUseless, AfterCurrent
    <3>2. current'[d] = AfterUseless(d) + 1
      BY <1>1, <2>2, <2>3
    <3>3. AfterCurrent(d)' = AfterCollect(d)
      BY <2>1, <2>3, <3>1, <3>2 DEF AfterCurrent, AfterCollect, One
    <3>4. Range(useless[d]) = (AfterCurrent(d) + 1)..AfterUseless(d)
      BY <2>1, <2>2, Consecutive DEF AfterUseless
    <3>5. Nonzero(current[d]) = (timeline[d] + 1)..AfterCurrent(d)
      BY <2>1, <2>2 DEF AfterCurrent, One, Nonzero
    <3>6. timeline[d] <= AfterCurrent(d) /\ AfterCurrent(d) <= AfterUseless(d)
      BY <2>1 DEF AfterCurrent, AfterUseless, One
    <3>7. done'[d] = 1..timeline'[d]
      BY <1>1, <2>1, <2>2, <2>3, <3>1, <3>4, <3>5, <3>6 DEF Replaced
    <3>. QED BY <3>1, <3>2, <3>3, <3>7
  <2>4. CASE collect[d] = 0
    <3>1. useless[d] = << >>
      BY <2>2, <2>4
    <3>2. AfterCollect(d) = AfterCurrent(d)
      BY <2>1, <2>4, <3>1, EmptySeq DEF AfterCollect, AfterUseless, One
    <3>. QED BY <1>1, <2>2, <2>4, <3>2 DEF AfterCurrent
  <2>. QED BY <2>3, <2>4
<1>3. PipelineInOrder'
  <2>. SUFFICES ASSUME NEW d \in Displays
                PROVE  AfterCollect(d)' = AfterCollect(d) /\ AfterQueue(d)' = AfterQueue(d)
    <3>1. \A d \in Displays :
            /\ useless'[d] = << >> /\ collect'[d] = 0 /\ queue'[d] = queue[d]
            /\ current'[d] \in {0, timeline'[d] + 1}
            /\ InHand(d)' <=> InHand(d)
      BY <1>1, <1>2 DEF InHand
    <3>2. \A d \in Displays :
            /\ \A i \in DOMAIN queue[d] : queue[d][i] = AfterCollect(d) + i
            /\ InHand(d) => hand'.n = AfterQueue(d) + 1
            /\ created'[d] = IF InHand(d) THEN AfterQueue(d) + 1 ELSE AfterQueue(d)
      BY <1>1 DEF OrderInv, PipelineInOrder
    <3>. QED BY <3>1, <3>2 DEF PipelineInOrder
  <2>1. AfterCollect(d) \in Nat
    BY StageTypes DEF IInv
  <2>2. AfterCollect(d)' = AfterCollect(d)
    <3>1. AfterUseless(d)' = AfterCurrent(d)' + 0
      BY <1>1, EmptySeq DEF AfterUseless
    <3>2. AfterCollect(d)' = AfterUseless(d)' + 0
      BY <1>1 DEF AfterCollect, One
    <3>. QED BY <1>2, <2>1, <3>1, <3>2
  <2>. QED BY <1>1, <2>2 DEF AfterQueue
<1>4. FencesInOrder'
  BY <1>2 DEF FencesInOrder
<1>5. PhasesAgree'
  BY <1>1 DEF OrderInv, PhasesAgree, Empty, Holds
<1>. QED BY <1>3, <1>4, <1>5 DEF OrderInv

LEMMA NextKeepsOrder ==
  ASSUME OrderedWorld, IInv, OrderInv, [Next]_vars
  PROVE  OrderInv'
<1>. USE DEF sets, request, kernel
<1>1. ASSUME NEW d \in Displays, NEW svep \in SvepKinds, PresentDisplay(d, svep)
      PROVE OrderInv'
  BY <1>1, PresentKeepsOrder
<1>2. CASE QueueComposition
  <2>1. CASE active_ /\ sf' = "lock" /\ UNCHANGED <<timeline, done, hand>>
    <3>1. PipelineInOrder' /\ FencesInOrder'
      BY <1>2, <2>1, PipelineUntouched DEF QueueComposition, OrderInv
    <3>2. PhasesAgree'
      BY <1>2, <2>1 DEF QueueComposition, OrderInv, PhasesAgree, Empty, Holds
    <3>. QED BY <3>1, <3>2 DEF OrderInv
  <2>2. CASE ~active_ /\ Refuse
    BY <1>2, <2>2, RefuseKeepsOrder DEF QueueComposition
  <2>. QED BY <1>2, <2>1, <2>2 DEF QueueComposition
<1>3. CASE QueueLocked
  <2>1. sf = "lock" /\ active_ /\ WaitOrPush
    BY <1>3 DEF QueueLocked, OrderInv, PhasesAgree
  <2>. QED BY <1>3, <2>1, PushKeepsOrder DEF QueueLocked
<1>4. CASE QueueWoken
  <2>1. sf = "woken" /\ active_ /\ WaitOrPush
    BY <1>4 DEF QueueWoken, OrderInv, PhasesAgree
  <2>. QED BY <1>4, <2>1, PushKeepsOrder DEF QueueWoken
<1>5. CASE SfClearDisplay
  BY <1>5, ClearKeepsOrder DEF SfClearDisplay, OrderInv, PhasesAgree
<1>6. CASE EventClearDisplay
  BY <1>6, ClearKeepsOrder DEF EventClearDisplay, WakesPresenter, OrderInv, PhasesAgree
<1>7. CASE WorkerClearDisplay
  BY <1>7, ClearKeepsOrder DEF WorkerClearDisplay, OthersUnchanged, WakesPresenter,
     OrderInv, PhasesAgree
<1>8. CASE CollectSFInfo
  BY <1>8, CollectKeepsOrder
<1>9. CASE CommitRetire
  BY <1>9, RetireKeepsOrder
<1>10. CASE SignalWorker
  <2>1. PipelineInOrder' /\ FencesInOrder'
    BY <1>10, PipelineUntouched DEF SignalWorker, OrderInv
  <2>2. PhasesAgree'
    BY <1>10 DEF SignalWorker, OrderInv, PhasesAgree, Empty, Holds
  <2>. QED BY <2>1, <2>2 DEF OrderInv
<1>11. CASE PresentNoLayers
  <2>1. PipelineInOrder' /\ FencesInOrder'
    BY <1>11, PipelineUntouched DEF PresentNoLayers, OrderInv
  <2>2. PhasesAgree'
    BY <1>11 DEF PresentNoLayers, OrderInv, PhasesAgree, Empty, Holds
  <2>. QED BY <2>1, <2>2 DEF OrderInv
<1>12. CASE SfPowerOn
  <2>1. PipelineInOrder' /\ FencesInOrder'
    BY <1>12, PipelineUntouched DEF SfPowerOn, OrderInv
  <2>2. PhasesAgree'
    BY <1>12 DEF SfPowerOn, OrderInv, PhasesAgree, Empty, Holds
  <2>. QED BY <2>1, <2>2 DEF OrderInv
<1>13. CASE SfPowerOff
  <2>1. PipelineInOrder' /\ FencesInOrder'
    BY <1>13, PipelineUntouched DEF SfPowerOff, OrderInv
  <2>2. PhasesAgree'
    BY <1>13 DEF SfPowerOff, OrderInv, PhasesAgree, Empty, Holds
  <2>. QED BY <2>1, <2>2 DEF OrderInv
<1>14. CASE EventPower
  <2>1. PipelineInOrder' /\ FencesInOrder'
    BY <1>14, PipelineUntouched DEF EventPower, OrderedWorld, OrderInv
  <2>2. PhasesAgree'
    BY <1>14 DEF EventPower, OrderedWorld, OrderInv, PhasesAgree, Empty, Holds
  <2>. QED BY <2>1, <2>2 DEF OrderInv
<1>15. CASE Hotplug
  <2>1. PipelineInOrder' /\ FencesInOrder'
    BY <1>15, PipelineUntouched DEF Hotplug, OrderInv
  <2>2. PhasesAgree'
    BY <1>15 DEF Hotplug, OrderInv, PhasesAgree, Empty, Holds
  <2>. QED BY <2>1, <2>2 DEF OrderInv
<1>16. CASE SfDisablePlanes
  <2>1. PipelineInOrder' /\ FencesInOrder'
    BY <1>16, PipelineUntouched DEF SfDisablePlanes, OrderInv
  <2>2. PhasesAgree'
    BY <1>16 DEF SfDisablePlanes, OrderInv, PhasesAgree, Empty, Holds
  <2>. QED BY <2>1, <2>2 DEF OrderInv
<1>17. CASE EventDisablePlanes
  <2>1. PipelineInOrder' /\ FencesInOrder'
    BY <1>17, PipelineUntouched DEF EventDisablePlanes, OrderInv
  <2>2. PhasesAgree'
    BY <1>17 DEF EventDisablePlanes, OrderInv, PhasesAgree, Empty, Holds
  <2>. QED BY <2>1, <2>2 DEF OrderInv
<1>18. CASE WorkerCheck
  <2>1. PipelineInOrder' /\ FencesInOrder'
    BY <1>18, PipelineUntouched DEF WorkerCheck, WorkerGoes, PipelineUnchanged, OthersUnchanged, OrderInv
  <2>2. PhasesAgree'
    BY <1>18 DEF WorkerCheck, WorkerGoes, PipelineUnchanged, OthersUnchanged, OrderInv, PhasesAgree, Empty, Holds
  <2>. QED BY <2>1, <2>2 DEF OrderInv
<1>19. CASE WorkerWait
  <2>1. PipelineInOrder' /\ FencesInOrder'
    BY <1>19, PipelineUntouched DEF WorkerWait, WorkerGoes, PipelineUnchanged, OthersUnchanged, OrderInv
  <2>2. PhasesAgree'
    BY <1>19 DEF WorkerWait, WorkerGoes, PipelineUnchanged, OthersUnchanged, OrderInv, PhasesAgree, Empty, Holds
  <2>. QED BY <2>1, <2>2 DEF OrderInv
<1>20. CASE WorkerTimeout
  <2>1. PipelineInOrder' /\ FencesInOrder'
    BY <1>20, PipelineUntouched DEF WorkerTimeout, WorkerGoes, PipelineUnchanged, OthersUnchanged, OrderInv
  <2>2. PhasesAgree'
    BY <1>20 DEF WorkerTimeout, WorkerGoes, PipelineUnchanged, OthersUnchanged, OrderInv, PhasesAgree, Empty, Holds
  <2>. QED BY <2>1, <2>2 DEF OrderInv
<1>21. CASE CommitCheck
  <2>1. PipelineInOrder' /\ FencesInOrder'
    BY <1>21, PipelineUntouched DEF CommitCheck, WorkerGoes, OthersUnchanged, OrderInv
  <2>2. PhasesAgree'
    BY <1>21 DEF CommitCheck, WorkerGoes, OthersUnchanged, OrderInv, PhasesAgree, Empty, Holds
  <2>. QED BY <2>1, <2>2 DEF OrderInv
<1>22. CASE AtomicCommit
  <2>1. PipelineInOrder' /\ FencesInOrder'
    BY <1>22, PipelineUntouched DEF AtomicCommit, WorkerGoes, OthersUnchanged, OrderInv
  <2>2. PhasesAgree'
    BY <1>22 DEF AtomicCommit, WorkerGoes, OthersUnchanged, OrderInv, PhasesAgree, Empty, Holds
  <2>. QED BY <2>1, <2>2 DEF OrderInv
<1>23. CASE CompositeTail
  <2>1. PipelineInOrder' /\ FencesInOrder'
    BY <1>23, PipelineUntouched DEF CompositeTail, WorkerGoes, PipelineUnchanged, OthersUnchanged, OrderInv
  <2>2. PhasesAgree'
    BY <1>23 DEF CompositeTail, WorkerGoes, PipelineUnchanged, OthersUnchanged, OrderInv, PhasesAgree, Empty, Holds
  <2>. QED BY <2>1, <2>2 DEF OrderInv
<1>24. CASE UNCHANGED vars
  <2>1. PipelineInOrder' /\ FencesInOrder'
    BY <1>24, PipelineUntouched DEF vars, OrderInv
  <2>2. PhasesAgree'
    BY <1>24 DEF vars, OrderInv, PhasesAgree, Empty, Holds
  <2>. QED BY <2>1, <2>2 DEF OrderInv
<1>. QED
  BY <1>1, <1>2, <1>3, <1>4, <1>5, <1>6, <1>7, <1>8, <1>9, <1>10, <1>11, <1>12,
     <1>13, <1>14, <1>15, <1>16, <1>17, <1>18, <1>19, <1>20, <1>21, <1>22, <1>23, <1>24
     DEF Next, Begin, SfStep, EventStep, WorkerStep

LEMMA OrderHolds == OrderedWorld /\ Spec => []OrderInv
<1>1. OrderedWorld /\ Init => OrderInv
  BY OrderInit
<1>2. OrderedWorld /\ IInv /\ OrderInv /\ [Next]_vars => OrderInv'
  BY NextKeepsOrder
<1>3. CASE OrderedWorld
  BY <1>1, <1>2, <1>3, InvHolds, PTL DEF Spec
<1>. QED BY <1>3, Zenon

(* The pipeline holds consecutive frames, in order, from the oldest frame    *)
(* not released to the newest created, whatever is unplugged, cleared or     *)
(* fails to commit.                                                          *)
THEOREM PipelineOrdered == OrderedWorld /\ Spec => []PipelineInOrder
  BY OrderHolds, PTL DEF OrderInv

(* Release fences signal in the order of the frames, and for the frames that *)
(* were released and no others.                                              *)
THEOREM FencesOrdered == OrderedWorld /\ Spec => []FencesInOrder
  BY OrderHolds, PTL DEF OrderInv

(* A composition waits in the collect map only between collecting and        *)
(* retiring, and an inactive compositor is empty once it has been cleared.   *)
THEOREM PhasesHold == OrderedWorld /\ Spec => []PhasesAgree
  BY OrderHolds, PTL DEF OrderInv

LEMMA OrderGivesCount == ASSUME IInv, OrderInv PROVE SignalledOnce
<1>. SUFFICES ASSUME NEW d \in Displays PROVE timeline[d] = Cardinality(done[d])
  BY DEF SignalledOnce
<1>1. timeline[d] \in Nat /\ done[d] = 1..timeline[d]
  BY DEF IInv, TypeOK, OrderInv, FencesInOrder
<1>2. Cardinality(1..timeline[d]) = timeline[d]
  BY <1>1, FS_Interval
<1>. QED BY <1>1, <1>2

(* A place that is empty or holds the frame after t, and the ith of the      *)
(* frames after b.                                                           *)
LEMMA HeldNext ==
  ASSUME NEW x \in Nat, NEW t \in Nat, NEW n \in Nat \ {0}, NEW a \in Nat,
         x \in {0, t + 1}, a = t + One(x)
  PROVE  x = n <=> t < n /\ n <= a
<1>1. CASE x = 0
  BY <1>1 DEF One
<1>2. CASE x = t + 1
  BY <1>2 DEF One
<1>. QED BY <1>1, <1>2

LEMMA HeldAt ==
  ASSUME NEW s \in Seq(Nat), NEW b \in Nat, NEW n \in Nat,
         \A i \in DOMAIN s : s[i] = b + i
  PROVE  {j \in DOMAIN s : s[j] = n}
           = IF b < n /\ n <= b + Len(s) THEN {n - b} ELSE {}
<1>1. DOMAIN s = 1..Len(s) /\ Len(s) \in Nat
  OBVIOUS
<1>2. \A i \in Nat : b + i = n <=> i = n - b
  OBVIOUS
<1>3. ASSUME NEW i \in DOMAIN s PROVE s[i] = n <=> i = n - b
  <2>1. i \in Nat
    BY <1>1
  <2>2. s[i] = b + i
    BY Zenon
  <2>. QED BY <1>2, <2>1, <2>2, Zenon
<1>4. \A i \in 1..Len(s) : s[i] = n <=> i = n - b
  BY <1>1, <1>3, Zenon
<1>5. CASE b < n /\ n <= b + Len(s)
  <2>1. n - b \in 1..Len(s)
    BY <1>1, <1>5
  <2>. QED BY <1>1, <1>4, <1>5, <2>1, Zenon
<1>6. CASE ~(b < n /\ n <= b + Len(s))
  <2>1. n - b \notin 1..Len(s)
    BY <1>1, <1>6
  <2>. QED BY <1>1, <1>4, <1>6, <2>1, Zenon
<1>. QED BY <1>5, <1>6

(* The stages cut the frames into intervals: a frame falls in exactly one.   *)
PlaceIn(t, a, b, c, q, m, n) ==
  (IF q < n /\ n <= m THEN {"hand"} ELSE {})
  \cup (IF c < n /\ n <= q THEN {<<"queue", n - c>>} ELSE {})
  \cup (IF a < n /\ n <= b THEN {<<"useless", n - a>>} ELSE {})
  \cup (IF b < n /\ n <= c THEN {"collect"} ELSE {})
  \cup (IF t < n /\ n <= a THEN {"current"} ELSE {})

Settled(S, t, m, n) ==
  \/ n <= t /\ S = {}
  \/ n > m /\ S = {}
  \/ t < n /\ n <= m /\ \E p \in S : S = {p}

LEMMA InOneInterval ==
  ASSUME NEW t \in Nat, NEW a \in Nat, NEW b \in Nat, NEW c \in Nat, NEW q \in Nat,
         NEW m \in Nat, NEW n \in Nat, t <= a, a <= b, b <= c, c <= q, q <= m
  PROVE  Settled(PlaceIn(t, a, b, c, q, m, n), t, m, n)
<1>1. CASE n <= t
  <2>1. /\ n <= t /\ ~(t < n) /\ ~(a < n) /\ ~(b < n) /\ ~(c < n) /\ ~(q < n)
    BY <1>1
  <2>2. PlaceIn(t, a, b, c, q, m, n) = {}
    BY <2>1, Zenon DEF PlaceIn
  <2>. QED BY <2>1, <2>2, Zenon DEF Settled
<1>2. CASE t < n /\ n <= a
  <2>1. /\ t < n /\ n <= m /\ n <= a /\ ~(a < n) /\ ~(b < n) /\ ~(c < n) /\ ~(q < n)
    BY <1>2
  <2>2. PlaceIn(t, a, b, c, q, m, n) = {"current"}
    BY <2>1, Zenon DEF PlaceIn
  <2>. QED BY <2>1, <2>2, Zenon DEF Settled
<1>3. CASE a < n /\ n <= b
  <2>1. /\ t < n /\ n <= m /\ a < n /\ n <= b /\ ~(n <= a) /\ ~(b < n) /\ ~(c < n) /\ ~(q < n)
    BY <1>3
  <2>2. PlaceIn(t, a, b, c, q, m, n) = {<<"useless", n - a>>}
    BY <2>1, Zenon DEF PlaceIn
  <2>. QED BY <2>1, <2>2, Zenon DEF Settled
<1>4. CASE b < n /\ n <= c
  <2>1. /\ t < n /\ n <= m /\ b < n /\ n <= c /\ ~(n <= a) /\ ~(n <= b) /\ ~(c < n) /\ ~(q < n)
    BY <1>4
  <2>2. PlaceIn(t, a, b, c, q, m, n) = {"collect"}
    BY <2>1, Zenon DEF PlaceIn
  <2>. QED BY <2>1, <2>2, Zenon DEF Settled
<1>5. CASE c < n /\ n <= q
  <2>1. /\ t < n /\ n <= m /\ c < n /\ n <= q /\ ~(n <= a) /\ ~(n <= b) /\ ~(n <= c) /\ ~(q < n)
    BY <1>5
  <2>2. PlaceIn(t, a, b, c, q, m, n) = {<<"queue", n - c>>}
    BY <2>1, Zenon DEF PlaceIn
  <2>. QED BY <2>1, <2>2, Zenon DEF Settled
<1>6. CASE q < n /\ n <= m
  <2>1. /\ t < n /\ n <= m /\ q < n /\ ~(n <= a) /\ ~(n <= b) /\ ~(n <= c) /\ ~(n <= q)
    BY <1>6
  <2>2. PlaceIn(t, a, b, c, q, m, n) = {"hand"}
    BY <2>1, Zenon DEF PlaceIn
  <2>. QED BY <2>1, <2>2, Zenon DEF Settled
<1>7. CASE n > m
  <2>1. /\ n > m /\ ~(n <= a) /\ ~(n <= b) /\ ~(n <= c) /\ ~(n <= q) /\ ~(n <= m)
    BY <1>7
  <2>2. PlaceIn(t, a, b, c, q, m, n) = {}
    BY <2>1, Zenon DEF PlaceIn
  <2>. QED BY <2>1, <2>2, Zenon DEF Settled
<1>8. n <= t \/ (t < n /\ n <= a) \/ (a < n /\ n <= b) \/ (b < n /\ n <= c)
      \/ (c < n /\ n <= q) \/ (q < n /\ n <= m) \/ n > m
  OBVIOUS
<1>. QED BY <1>1, <1>2, <1>3, <1>4, <1>5, <1>6, <1>7, <1>8, Zenon

(* The bounds of those intervals, in order.                                  *)
LEMMA StageBounds ==
  ASSUME IInv, OrderInv, NEW d \in Displays
  PROVE  /\ timeline[d] <= AfterCurrent(d) /\ AfterCurrent(d) <= AfterUseless(d)
         /\ AfterUseless(d) <= AfterCollect(d) /\ AfterCollect(d) <= AfterQueue(d)
         /\ AfterQueue(d) <= created[d]
<1>1. /\ timeline[d] \in Nat /\ AfterCurrent(d) \in Nat /\ AfterUseless(d) \in Nat
      /\ AfterCollect(d) \in Nat /\ AfterQueue(d) \in Nat /\ created[d] \in Nat
      /\ Len(useless[d]) \in Nat /\ Len(queue[d]) \in Nat
  BY StageTypes DEF IInv
<1>2. One(current[d]) \in Nat /\ One(collect[d]) \in Nat
  BY DEF One
<1>3. \A x, y, z \in Nat : z = x + y => x <= z
  OBVIOUS
<1>4. timeline[d] <= AfterCurrent(d)
  BY <1>1, <1>2, <1>3, Zenon DEF AfterCurrent
<1>5. AfterCurrent(d) <= AfterUseless(d)
  BY <1>1, <1>3, Zenon DEF AfterUseless
<1>6. AfterUseless(d) <= AfterCollect(d)
  BY <1>1, <1>2, <1>3, Zenon DEF AfterCollect
<1>7. AfterCollect(d) <= AfterQueue(d)
  BY <1>1, <1>3, Zenon DEF AfterQueue
<1>8. created[d] = AfterQueue(d) \/ created[d] = AfterQueue(d) + 1
  BY Zenon DEF OrderInv, PipelineInOrder
<1>9. AfterQueue(d) <= created[d]
  BY <1>1, <1>8
<1>. QED BY <1>4, <1>5, <1>6, <1>7, <1>9

(* Each place holds exactly the frames of its interval.                      *)
LEMMA PlacesAreIntervals ==
  ASSUME IInv, OrderInv, NEW d \in Displays, NEW n \in Nat \ {0}
  PROVE  Places(d, n) = PlaceIn(timeline[d], AfterCurrent(d), AfterUseless(d),
                                AfterCollect(d), AfterQueue(d), created[d], n)
<1>1. current[d] = n <=> timeline[d] < n /\ n <= AfterCurrent(d)
  <2>1. current[d] \in {0, timeline[d] + 1}
    BY Zenon DEF OrderInv, PipelineInOrder
  <2>2. AfterCurrent(d) = timeline[d] + One(current[d])
    BY Zenon DEF AfterCurrent
  <2>3. current[d] \in Nat /\ timeline[d] \in Nat /\ AfterCurrent(d) \in Nat
    BY StageTypes DEF IInv
  <2>. QED BY <2>1, <2>2, <2>3, HeldNext, Zenon
<1>2. collect[d] = n <=> AfterUseless(d) < n /\ n <= AfterCollect(d)
  <2>1. collect[d] \in {0, AfterUseless(d) + 1}
    BY Zenon DEF OrderInv, PipelineInOrder
  <2>2. AfterCollect(d) = AfterUseless(d) + One(collect[d])
    BY Zenon DEF AfterCollect
  <2>3. collect[d] \in Nat /\ AfterUseless(d) \in Nat /\ AfterCollect(d) \in Nat
    BY StageTypes DEF IInv
  <2>. QED BY <2>1, <2>2, <2>3, HeldNext, Zenon
<1>3. {j \in DOMAIN useless[d] : useless[d][j] = n}
        = IF AfterCurrent(d) < n /\ n <= AfterUseless(d) THEN {n - AfterCurrent(d)} ELSE {}
  <2>1. \A i \in DOMAIN useless[d] : useless[d][i] = AfterCurrent(d) + i
    BY Zenon DEF OrderInv, PipelineInOrder
  <2>2. useless[d] \in Seq(Nat) /\ AfterCurrent(d) \in Nat
    BY StageTypes DEF IInv
  <2>. QED BY <2>1, <2>2, HeldAt, Zenon DEF AfterUseless
<1>4. {j \in DOMAIN queue[d] : queue[d][j] = n}
        = IF AfterCollect(d) < n /\ n <= AfterQueue(d) THEN {n - AfterCollect(d)} ELSE {}
  <2>1. \A i \in DOMAIN queue[d] : queue[d][i] = AfterCollect(d) + i
    BY Zenon DEF OrderInv, PipelineInOrder
  <2>2. queue[d] \in Seq(Nat) /\ AfterCollect(d) \in Nat
    BY StageTypes DEF IInv
  <2>. QED BY <2>1, <2>2, HeldAt, Zenon DEF AfterQueue
<1>5. hand.d = d /\ hand.n = n <=> AfterQueue(d) < n /\ n <= created[d]
  <2>1. /\ InHand(d) => hand.n = AfterQueue(d) + 1
        /\ created[d] = IF InHand(d) THEN AfterQueue(d) + 1 ELSE AfterQueue(d)
    BY Zenon DEF OrderInv, PipelineInOrder
  <2>2. AfterQueue(d) \in Nat /\ hand.n \in Nat
    BY StageTypes DEF IInv
  <2>3. CASE InHand(d)
    BY <2>1, <2>2, <2>3 DEF InHand
  <2>4. CASE ~InHand(d)
    <3>1. ~(hand.d = d /\ hand.n = n)
      BY <2>4 DEF InHand
    <3>. QED BY <2>1, <2>2, <2>4, <3>1
  <2>. QED BY <2>3, <2>4
<1>6. {<<"queue", i>> : i \in {j \in DOMAIN queue[d] : queue[d][j] = n}}
        = IF AfterCollect(d) < n /\ n <= AfterQueue(d)
          THEN {<<"queue", n - AfterCollect(d)>>} ELSE {}
  BY <1>4, Zenon
<1>7. {<<"useless", i>> : i \in {j \in DOMAIN useless[d] : useless[d][j] = n}}
        = IF AfterCurrent(d) < n /\ n <= AfterUseless(d)
          THEN {<<"useless", n - AfterCurrent(d)>>} ELSE {}
  BY <1>3, Zenon
<1>. QED BY <1>1, <1>2, <1>5, <1>6, <1>7, Zenon DEF Places, PlaceIn

LEMMA OrderGivesPlace == ASSUME IInv, OrderInv PROVE OnePlace
<1>. SUFFICES ASSUME NEW d \in Displays, NEW n \in 1..MaxFrames
              PROVE \/ n \in done[d] /\ Places(d, n) = {}
                    \/ n > created[d] /\ Places(d, n) = {}
                    \/ /\ n \notin done[d] /\ n <= created[d]
                       /\ \E p \in Places(d, n) : Places(d, n) = {p}
  BY DEF OnePlace
<1>1. n \in Nat \ {0}
  BY ConstantsAssumption DEF ConstantsAssumption
<1>2. /\ timeline[d] \in Nat /\ AfterCurrent(d) \in Nat /\ AfterUseless(d) \in Nat
      /\ AfterCollect(d) \in Nat /\ AfterQueue(d) \in Nat /\ created[d] \in Nat
  BY StageTypes DEF IInv
<1>3. n \in done[d] <=> n <= timeline[d]
  <2>1. done[d] = 1..timeline[d]
    BY DEF OrderInv, FencesInOrder
  <2>. QED BY <1>1, <1>2, <2>1
<1>4. n \notin done[d] <=> timeline[d] < n
  BY <1>1, <1>2, <1>3
<1>5. Places(d, n) = PlaceIn(timeline[d], AfterCurrent(d), AfterUseless(d),
                            AfterCollect(d), AfterQueue(d), created[d], n)
  BY <1>1, PlacesAreIntervals, Zenon
<1>6. n \in Nat
  BY <1>1
<1>7. /\ timeline[d] <= AfterCurrent(d) /\ AfterCurrent(d) <= AfterUseless(d)
      /\ AfterUseless(d) <= AfterCollect(d) /\ AfterCollect(d) <= AfterQueue(d)
      /\ AfterQueue(d) <= created[d]
  BY StageBounds, Zenon
<1>8. Settled(Places(d, n), timeline[d], created[d], n)
  <2>1. \A k, t, a \in Nat : t <= a =>
          \A b \in Nat : a <= b =>
            \A c \in Nat : b <= c =>
              \A q \in Nat : c <= q =>
                \A m \in Nat : q <= m => Settled(PlaceIn(t, a, b, c, q, m, k), t, m, k)
    BY InOneInterval
  <2>2. \A c \in Nat : AfterUseless(d) <= c =>
          \A q \in Nat : c <= q =>
            \A m \in Nat : q <= m =>
              Settled(PlaceIn(timeline[d], AfterCurrent(d), AfterUseless(d), c, q, m, n),
                      timeline[d], m, n)
    BY <1>2, <1>6, <1>7, <2>1, Zenon
  <2>3. Settled(PlaceIn(timeline[d], AfterCurrent(d), AfterUseless(d),
                        AfterCollect(d), AfterQueue(d), created[d], n),
                timeline[d], created[d], n)
    BY <1>2, <1>7, <2>2, Zenon
  <2>. QED BY <1>5, <2>3, Zenon
<1>. QED BY <1>3, <1>4, <1>8, Zenon DEF Settled

(* The timeline advances once for each composition released: no composition  *)
(* signals twice and none is destroyed in silence.                           *)
THEOREM SignalsExact == OrderedWorld /\ Spec => []SignalledOnce
<1>1. OrderedWorld /\ Spec => []OrderInv
  BY OrderHolds
<1>2. Spec => []IInv
  BY InvHolds
<1>. QED BY <1>1, <1>2, OrderGivesCount, PTL

(* A composition that was created is released or in exactly one place of the *)
(* pipeline, whatever is unplugged, cleared or fails to commit.              *)
THEOREM NothingLost == OrderedWorld /\ Spec => []OnePlace
<1>1. OrderedWorld /\ Spec => []OrderInv
  BY OrderHolds
<1>2. Spec => []IInv
  BY InvHolds
<1>. QED BY <1>1, <1>2, OrderGivesPlace, PTL
=============================================================================
