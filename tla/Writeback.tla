------------------------------ MODULE Writeback ------------------------------
(***************************************************************************)
(* The writeback part of ResourceManager and its DrmBufferQueue: while a   *)
(* virtual display exists the primary's picture is written into a ring of  *)
(* buffers, by the VOP itself or, above 4096x2160, by RGA, and copied from *)
(* there into the recorder's buffers.  As in DrmDevice the bookkeeping is  *)
(* a record (rm) and one operator per function; the functions hold         *)
(* mRecursiveMutex throughout.  A picture is the number of the frame it    *)
(* shows, Blank before the first.  The only display written back is 0.     *)
(***************************************************************************)
EXTENDS Integers, Sequences, FiniteSets, TLC, Functions, SequencesExt, FiniteSetsExt

\* The sizes of the primary's modes are numbers; those above this one are RGA's.
VopLargest == 2
Sizes      == 1 .. VopLargest + 1

RingSize    == 4    \* WB_BUFFERQUEUE_MAX_SIZE
DefaultRing == 6    \* DRM_BUFFERQUEUE_MAX_SIZE
None  == 0          \* no buffer
Blank == -1

VARIABLES
  rm,       \* the record below
  jobs,     \* external: pictures still being written by the VOP or RGA
  held,     \* the buffer the VOP writes the compositor's request to, or None
  dst       \* dst_buffer of WriteBackByRGA(), or None

wbVars == <<rm, jobs, held, dst>>

\* ref: bEnableWriteBackRef_, mode: mVDMode_, owner: iWriteBackDisplayId_, size: iWBWidth_
\* and iWBHeight_, next, drawing, finish: mNextWriteBackBuffer_ and so on; ring, max:
\* mWriteBackBQ_, oldest first, max = 0 if it is NULL; buf: the buffers alive.
WritebackInit ==
  /\ rm = [ref |-> 0, mode |-> "none", owner |-> -1, size |-> 0, next |-> None,
           drawing |-> None, finish |-> <<>>, ring |-> <<>>, max |-> 0, buf |-> <<>>]
  /\ jobs = {} /\ held = None /\ dst = None

(***************************************************************************)
(* DrmBufferQueue.                                                         *)
(***************************************************************************)
\* Is b's finish fence still pending?
Pending(b) == \E j \in jobs : j.fence = b
Full(r)    == Len(r.ring) = r.max
\* The format is compared as well, but is always the same.
Reuses(r, size) == r.max > 0 /\ Full(r) /\ r.buf[Head(r.ring)].size = size

\* A buffer lives as long as someone points at it, or waits for it.
PointedAt(r) == {r.next, r.drawing, held, dst} \cup Range(r.ring) \cup {f.buf : f \in Range(r.finish)}
Written      == {j.buf : j \in jobs} \cup {j.fence : j \in jobs}
Freed(r) == [r EXCEPT !.buf = Restrict(@, DOMAIN @ \cap (PointedAt(r) \cup Written))]

NewBuffer(r) == CHOOSE b \in 1 .. Cardinality(DOMAIN r.buf) + 1 : b \notin DOMAIN r.buf
WithBuffer(r, b, size) ==
  [x \in DOMAIN r.buf \cup {b} |-> IF x = b THEN [size |-> size, n |-> Blank] ELSE r.buf[x]]

\* DequeueDrmBuffer() and QueueBuffer(): the oldest buffer of a full ring, or
\* a new one in its place if its size is wrong, becomes the next.
NextBuffer(r, size) ==
  LET reused == Reuses(r, size)
      b   == IF reused THEN Head(r.ring) ELSE NewBuffer(r)
      old == IF Full(r) THEN Tail(r.ring) ELSE r.ring
  IN  Freed([r EXCEPT !.next = b, !.size = size, !.ring = Append(old, b),
                      !.buf = IF reused THEN @ ELSE WithBuffer(r, b, size)])

\* The oldest buffer is waited for, with the mutex held.
CanDequeue(r, size) == Reuses(r, size) => ~Pending(Head(r.ring))

(***************************************************************************)
(* ResourceManager.                                                        *)
(***************************************************************************)
isWBMode(r) == r.ref > 0
WbByVop(r)  == isWBMode(r) /\ r.mode = "vop" /\ r.owner = 0
WbByRga(r)  == isWBMode(r) /\ r.mode = "rga" /\ r.owner = 0

ChooseWriteBackMode(connected, size) ==
  IF ~connected THEN "none" ELSE IF size > VopLargest THEN "rga" ELSE "vop"

\* WriteBackUseVop() and WriteBackUseRga(), whose buffers have the size of
\* the framebuffer; the ring is made once and kept, whoever made it.
WbSize(r, size) == IF r.mode = "rga" THEN 1 ELSE size
WithRing(r) ==
  [r EXCEPT !.max = IF @ > 0 THEN @ ELSE IF r.mode = "rga" THEN DefaultRing ELSE RingSize]

\* Mutant: only the first display is counted.
EnableFirst(r, connected, size) ==
  LET chosen == [r EXCEPT !.mode = ChooseWriteBackMode(connected, size)]
  IN  IF r.ref > 0 THEN r
      ELSE IF chosen.mode = "none" THEN chosen
      ELSE [NextBuffer(WithRing(chosen), WbSize(chosen, size)) EXCEPT !.ref = @ + 1, !.owner = 0]

EnableWriteBackMode(r, connected, size) ==
  LET chosen == [r EXCEPT !.mode = ChooseWriteBackMode(connected, size)]
  IN  IF r.ref > 0 THEN [r EXCEPT !.ref = @ + 1]
      ELSE IF chosen.mode = "none" THEN chosen
      ELSE [NextBuffer(WithRing(chosen), WbSize(chosen, size)) EXCEPT !.ref = @ + 1, !.owner = 0]

\* The caller passes the current owner, so that the test for another display
\* never fails: without a session the count drops below zero.
DisableWriteBackMode(r) ==
  IF r.ref > 1 THEN [r EXCEPT !.ref = @ - 1]
  ELSE Freed([r EXCEPT !.ref = @ - 1, !.mode = "none", !.owner = -1, !.finish = <<>>,
                       !.drawing = None, !.next = None])

\* UpdateWriteBackResolution(): is there a mode, and may next be used as it is?
CanWriteBack(r, connected) == r.mode = "rga" \/ (r.mode = "vop" /\ connected)
Resizes(r, size) == r.mode = "vop" /\ r.size # size
UpdateWriteBackResolution(r, size) == IF Resizes(r, size) THEN NextBuffer(r, size) ELSE r

\* Mutant: the queue may be as long as the ring.
KeepFour(s) == IF Len(s) > RingSize THEN Tail(s) ELSE s
KeepFinished(s) == IF Len(s) > RingSize - 1 THEN Tail(s) ELSE s

\* Mutant: the buffer is finished as soon as its writing has begun.
SwapAtOnce(r, no) ==
  IF ~isWBMode(r) THEN r
  ELSE NextBuffer([r EXCEPT !.finish = KeepFinished(Append(r.finish, [no |-> no, buf |-> r.next])),
                            !.drawing = r.next], r.size)

\* The buffer drawn last is finished, under the number of the frame that
\* replaces it, and the one just written is drawn.
SwapWBBuffer(r, no) ==
  IF ~isWBMode(r) THEN r
  ELSE LET done == IF r.drawing = None THEN r.finish
                   ELSE KeepFinished(Append(r.finish, [no |-> no, buf |-> r.drawing]))
       IN  NextBuffer([r EXCEPT !.finish = done, !.drawing = r.next], r.size)

\* Mutant: the oldest instead of the newest when none is new.
OldestWithout(r, last) ==
  LET newer == {i \in DOMAIN r.finish : r.finish[i].no > last}
  IN  IF newer # {} THEN {r.finish[Min(newer)]}
      ELSE IF r.finish # <<>> THEN {Head(r.finish)}
      ELSE IF r.drawing # None THEN {[no |-> 0, buf |-> r.drawing]} ELSE {}

\* OutputWBBuffer(): the first finished buffer newer than the last one, else
\* the newest, else the one being drawn; none fails.
ToOutput(r, last) ==
  LET newer == {i \in DOMAIN r.finish : r.finish[i].no > last}
  IN  IF newer # {} THEN {r.finish[Min(newer)]}
      ELSE IF r.finish # <<>> THEN {r.finish[Len(r.finish)]}
      ELSE IF r.drawing # None THEN {[no |-> 0, buf |-> r.drawing]} ELSE {}

\* A finish fence replaces the one the buffer had.
SetFinishFence(js, b, by, n) ==
  {[j EXCEPT !.fence = IF j.by = by /\ j.n = n THEN b ELSE IF @ = b THEN None ELSE @] : j \in js}

\* A picture is complete.
JobFinishes ==
  \E j \in jobs :
    /\ jobs' = jobs \ {j}
    /\ rm' = [rm EXCEPT !.buf[j.buf].n = j.n]
    /\ UNCHANGED <<held, dst>>

WritebackTypeOK ==
  /\ rm.ref \in Int /\ rm.mode \in {"none", "vop", "rga"} /\ rm.owner \in {-1, 0}
  /\ rm.max \in {0, RingSize, DefaultRing} /\ Len(rm.ring) <= rm.max /\ IsInjective(rm.ring)
  /\ {rm.next, rm.drawing, held, dst} \cup Range(rm.ring) \subseteq DOMAIN rm.buf \cup {None}
  /\ DOMAIN rm.buf \subseteq Nat \ {None} /\ Len(rm.finish) < RingSize
  /\ \A b \in DOMAIN rm.buf : rm.buf[b].size \in Sizes
  /\ \A j \in jobs : j.buf \in DOMAIN rm.buf /\ j.fence \in DOMAIN rm.buf \cup {None}
=============================================================================
