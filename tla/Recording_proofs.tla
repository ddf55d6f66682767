--------------------------- MODULE Recording_proofs ---------------------------
(***************************************************************************)
(* The order of the recorded pictures: no recorder of the primary display  *)
(* is ever given a picture older than the one it had, for any situation to *)
(* start in and over any number of recordings that share the ring.         *)
(***************************************************************************)
EXTENDS Writeback_proofs

RecorderFields == {"last", "seen", "born"}

(* The pictures a buffer shows or will show: those being written into it, or *)
(* else its own.                                                             *)
Pictures(r, js, b) ==
  IF \E j \in js : j.buf = b THEN {j.n : j \in {k \in js : k.buf = b}} ELSE {r.buf[b].n}
Precedes(r, js, b, c) == \A x \in Pictures(r, js, b), y \in Pictures(r, js, c) : x <= y

(* The finished buffers that are not written next show ever newer pictures   *)
(* under ever larger numbers, and the drawn one the newest.                  *)
Resting(r) == {i \in 1 .. Len(r.finish) : r.finish[i].buf # r.next}
Ascending(r, js) ==
  r.drawing # None =>
    /\ \A i, j \in 1 .. Len(r.finish) : i < j => r.finish[i].no <= r.finish[j].no
    /\ \A i \in Resting(r) : /\ Precedes(r, js, r.finish[i].buf, r.drawing)
                             /\ \A j \in Resting(r) : i < j => Precedes(r, js, r.finish[i].buf, r.finish[j].buf)

(* What a recorder may still be given is no older than what it has, nor than *)
(* the screen when the recording began.                                      *)
Follows(r, js, last, seen, born) ==
  r.drawing # None =>
    /\ \A x \in Pictures(r, js, r.drawing) : seen <= x /\ born <= x
    /\ \A i \in Resting(r) : \A x \in Pictures(r, js, r.finish[i].buf) :
         born <= x /\ (r.finish[i].no > last \/ i = Len(r.finish) => seen <= x)

(* The newest picture there may be so far; all the others are earlier.       *)
Newest == IF cw # "idle" THEN Current ELSE IF queue # NoComp THEN queue.n - 1 ELSE no - 1
Earlier(r, n) ==
  /\ \A b \in DOMAIN r.buf : r.buf[b].n \in Blank .. n
  /\ \A i \in 1 .. Len(r.finish) : r.finish[i].no \in 0 .. n
AllEarlier ==
  /\ Earlier(rm, Newest) /\ shown.n \in Blank .. Newest
  /\ \A v \in DOMAIN vds : /\ DOMAIN vds[v] = RecorderFields
                           /\ vds[v].seen \in Blank .. Newest /\ vds[v].born \in Blank .. Newest

(* Nobody else writes into the buffer of a request, nor into that of RGA.    *)
Spare == cw \in {"rga", "ioctl"} /\ held # None => \A j \in jobs : j.buf # held
Fresh ==
  /\ cw = "rgaswap" /\ dst # None => Pictures(rm, jobs, dst) \subseteq {Current}
  /\ cw = "tail" /\ held # None => Pictures(rm, jobs, held) \subseteq {Current}

(* Each recorder follows, as it will once the copy has ended.                *)
Followed == \A v \in DOMAIN vds : Follows(rm, jobs, vds[v].last, vds[v].seen, vds[v].born)
Copied ==
  copy # <<>> =>
    /\ copy.seen \in Blank .. Newest
    /\ \A v \in DOMAIN vds : v = NextDisplay =>
         /\ Follows(rm, jobs, copy.no, copy.seen, vds[v].born)
         /\ vds[v].seen <= copy.seen /\ vds[v].born <= copy.seen

Recorded  == AllEarlier /\ Spare /\ Fresh /\ Ascending(rm, jobs) /\ Followed /\ Copied
RecordInv == past \cap Faults = {} => Recorded

LEMMA PicturesIs ==
  ASSUME NEW r, NEW js, NEW b, NEW x
  PROVE  x \in Pictures(r, js, b) <=> \/ \E j \in js : j.buf = b /\ j.n = x
                                      \/ x = r.buf[b].n /\ \A j \in js : j.buf # b
  BY DEF Pictures

(* No picture becomes one of the buffer's that was not.                      *)
LEMMA PicturesStay ==
  ASSUME NEW r, NEW js, NEW s, NEW ks, NEW b,
         \A k \in ks : k.buf = b => \E j \in js : j.buf = b /\ j.n = k.n,
         (\A k \in ks : k.buf # b) => s.buf[b].n \in Pictures(r, js, b)
  PROVE  Pictures(s, ks, b) \subseteq Pictures(r, js, b)
<1> SUFFICES ASSUME NEW x \in Pictures(s, ks, b) PROVE x \in Pictures(r, js, b)
  OBVIOUS
<1>1. CASE \E k \in ks : k.buf = b /\ k.n = x
  BY <1>1, PicturesIs
<1>2. CASE x = s.buf[b].n /\ \A k \in ks : k.buf # b
  BY <1>2
<1> QED BY <1>1, <1>2, PicturesIs

(* All that is drawn and finished stays as it is, or nothing is drawn.       *)
Stays(r, js, s, ks) ==
  \/ s.drawing = None
  \/ /\ s.next = r.next /\ s.drawing = r.drawing /\ s.finish = r.finish
     /\ Pictures(s, ks, r.drawing) \subseteq Pictures(r, js, r.drawing)
     /\ \A i \in Resting(r) : Pictures(s, ks, r.finish[i].buf) \subseteq Pictures(r, js, r.finish[i].buf)

LEMMA StaysSame == \A r, js : Stays(r, js, r, js)
  BY DEF Stays

LEMMA AscendingStays ==
  ASSUME NEW r, NEW js, NEW s, NEW ks, Stays(r, js, s, ks), Ascending(r, js)
  PROVE  Ascending(s, ks)
<1>1. CASE s.drawing = None
  BY <1>1 DEF Ascending
<1>2. CASE s.drawing # None
  <2>1. /\ s.next = r.next /\ s.drawing = r.drawing /\ s.finish = r.finish
        /\ Pictures(s, ks, r.drawing) \subseteq Pictures(r, js, r.drawing)
        /\ \A i \in Resting(r) : Pictures(s, ks, r.finish[i].buf) \subseteq Pictures(r, js, r.finish[i].buf)
    BY <1>2 DEF Stays
  <2>2. Resting(s) = Resting(r)
    BY <2>1 DEF Resting
  <2> QED BY <1>2, <2>1, <2>2 DEF Ascending, Precedes
<1> QED BY <1>1, <1>2

LEMMA FollowsStays ==
  ASSUME NEW r, NEW js, NEW s, NEW ks, Stays(r, js, s, ks), NEW last, NEW seen, NEW born,
         Follows(r, js, last, seen, born)
  PROVE  Follows(s, ks, last, seen, born)
<1>1. CASE s.drawing = None
  BY <1>1 DEF Follows
<1>2. CASE s.drawing # None
  <2>1. /\ s.next = r.next /\ s.drawing = r.drawing /\ s.finish = r.finish
        /\ Pictures(s, ks, r.drawing) \subseteq Pictures(r, js, r.drawing)
        /\ \A i \in Resting(r) : Pictures(s, ks, r.finish[i].buf) \subseteq Pictures(r, js, r.finish[i].buf)
    BY <1>2 DEF Stays
  <2>2. Resting(s) = Resting(r)
    BY <2>1 DEF Resting
  <2> QED BY <1>2, <2>1, <2>2 DEF Follows
<1> QED BY <1>1, <1>2

(* Buffers that live on show what they showed.                               *)
LEMMA UnspoiltPictures ==
  ASSUME NEW r, NEW s, Unspoilt(r, s), NEW js, NEW b \in DOMAIN r.buf, b \in DOMAIN s.buf
  PROVE  Pictures(s, js, b) \subseteq Pictures(r, js, b)
<1>1. s.buf[b].n = r.buf[b].n
  BY DEF Unspoilt
<1>2. (\A k \in js : k.buf # b) => s.buf[b].n \in Pictures(r, js, b)
  BY <1>1, PicturesIs
<1> QED BY <1>2, PicturesStay

(***************************************************************************)
(* The newest picture.                                                     *)
(***************************************************************************)
LEMMA NewestIs ==
  ASSUME Numbered
  PROVE  /\ Newest \in Int /\ Blank <= Newest /\ (cw # "idle" => Newest = Current /\ Current \in Nat)
         /\ \A j \in jobs : j.n \in Nat /\ j.n <= Newest
  BY DEF Numbered, Newest, Blank

LEMMA NewestGrows ==
  ASSUME Numbered, Numbered',
         \/ cw # "idle" /\ cw' # "idle" /\ Current' = Current
         \/ cw # "idle" /\ cw' = "idle" /\ queue' = queue /\ no' = no
         \/ cw = "idle" /\ cw' = "idle" /\ queue' \in {queue, NoComp} /\ no' \in {no, no + 1}
         \/ cw = "idle" /\ cw' = "idle" /\ queue = NoComp /\ queue'.n = no /\ no' = no + 1
         \/ cw = "idle" /\ cw' # "idle" /\ queue # NoComp /\ Current' = queue.n
  PROVE  Newest <= Newest'
  BY DEF Numbered, Newest

LEMMA PicturesEarlier ==
  ASSUME Numbered, Earlier(rm, Newest), NEW b \in DOMAIN rm.buf, NEW x \in Pictures(rm, jobs, b)
  PROVE  x \in Int /\ Blank <= x /\ x <= Newest
<1>1. Newest \in Int /\ \A j \in jobs : j.n \in Nat /\ j.n <= Newest
  BY NewestIs
<1>2. rm.buf[b].n \in Blank .. Newest
  BY DEF Earlier
<1>3. (\E j \in jobs : j.buf = b /\ j.n = x) \/ x = rm.buf[b].n
  BY PicturesIs
<1> QED BY <1>1, <1>2, <1>3 DEF Blank

(***************************************************************************)
(* What leaves a part of it alone.                                         *)
(***************************************************************************)
LEMMA EarlierStays ==
  ASSUME NEW r, NEW s, NEW m \in Int, NEW n \in Int, Blank <= m, m <= n,
         Earlier(r, m), Unspoilt(r, s), s.finish \in {r.finish, <<>>}
  PROVE  Earlier(s, n)
<1>1. \A b \in DOMAIN s.buf : s.buf[b].n \in Blank .. n
  BY DEF Earlier, Unspoilt, Blank
<1>2. CASE s.finish = r.finish
  <2>1. \A i \in 1 .. Len(s.finish) : s.finish[i].no \in 0 .. m
    BY <1>2 DEF Earlier
  <2>2. \A i \in 1 .. Len(s.finish) : s.finish[i].no \in 0 .. n
    BY <2>1
  <2> QED BY <1>1, <2>2, Zenon DEF Earlier
<1>3. CASE s.finish = <<>>
  <2>1. 1 .. Len(s.finish) = {}
    BY <1>3
  <2> QED BY <1>1, <2>1, Zenon DEF Earlier
<1> QED BY <1>2, <1>3

LEMMA PartsStay ==
  ASSUME Ascending(rm, jobs), Followed, Copied, Stays(rm, jobs, rm', jobs'), vds' = vds,
         copy' = <<>> \/ (copy' = copy /\ todo' = todo),
         Newest \in Int, Newest' \in Int, Newest <= Newest'
  PROVE  Ascending(rm, jobs)' /\ Followed' /\ Copied'
<1>1. Ascending(rm, jobs)'
  BY AscendingStays
<1>2. Followed'
  BY FollowsStays DEF Followed
<1>3. Copied'
  <2>1. CASE copy' = <<>>
    BY <2>1 DEF Copied
  <2>2. CASE copy' # <<>>
    <3>1. copy' = copy /\ NextDisplay' = NextDisplay
      BY <2>2 DEF NextDisplay
    <3>2. copy.seen \in Blank .. Newest'
      BY <2>2, <3>1 DEF Copied, Blank
    <3>3. \A v \in DOMAIN vds : v = NextDisplay =>
            /\ Follows(rm', jobs', copy.no, copy.seen, vds[v].born)
            /\ vds[v].seen <= copy.seen /\ vds[v].born <= copy.seen
      BY <2>2, <3>1, FollowsStays DEF Copied
    <3> QED BY <3>1, <3>2, <3>3 DEF Copied
  <2> QED BY <2>1, <2>2
<1> QED BY <1>1, <1>2, <1>3

LEMMA FreshStays ==
  ASSUME Spare, Fresh, cw' = cw, held' = held, dst' = dst, Current' = Current, jobs' = jobs,
         Kept(rm), Kept(rm'), Unspoilt(rm, rm')
  PROVE  Spare' /\ Fresh'
<1>1. \A b : b \in {held, dst} /\ b # None => Pictures(rm', jobs, b) \subseteq Pictures(rm, jobs, b)
  BY UnspoiltPictures DEF Kept
<1> QED BY <1>1 DEF Spare, Fresh

(* What changes neither the recorders nor what is drawn and finished.        *)
LEMMA RecordKept ==
  ASSUME WbInv, WbInv', RecordInv, vds' = vds, shown' = shown \/ shown'.n = Newest', Newest <= Newest',
         copy' = <<>> \/ (copy' = copy /\ todo' = todo), past \cap Faults \subseteq past',
         past' \cap Faults = {} /\ past \cap Faults = {} /\ Recorded =>
           Stays(rm, jobs, rm', jobs') /\ Earlier(rm', Newest') /\ Spare' /\ Fresh'
  PROVE  RecordInv'
<1> SUFFICES ASSUME past' \cap Faults = {} PROVE Recorded'
  BY DEF RecordInv
<1>1. Recorded /\ past \cap Faults = {}
  BY DEF RecordInv
<1>2. Newest \in Int /\ Newest' \in Int /\ Blank <= Newest
  BY NewestIs DEF WbInv, Numbered, Newest
<1>3. AllEarlier'
  <2>1. Earlier(rm, Newest)'
    BY <1>1 DEF Earlier
  <2>2. shown'.n \in Blank .. Newest'
    BY <1>1, <1>2 DEF Recorded, AllEarlier, Blank
  <2>3. \A v \in DOMAIN vds : /\ DOMAIN vds[v] = RecorderFields
                              /\ vds[v].seen \in Blank .. Newest' /\ vds[v].born \in Blank .. Newest'
    BY <1>1, <1>2 DEF Recorded, AllEarlier, Blank
  <2> QED BY <2>1, <2>2, <2>3 DEF AllEarlier
<1>4. Ascending(rm, jobs)' /\ Followed' /\ Copied'
  BY <1>1, <1>2, PartsStay DEF Recorded
<1> QED BY <1>1, <1>3, <1>4 DEF Recorded

(* What changes the stage of the compositor only, ...                        *)
LEMMA RecordMoves ==
  ASSUME WbInv, WbInv', RecordInv, UNCHANGED <<rm, jobs, vds, shown>>, Newest <= Newest',
         copy' = <<>> \/ (copy' = copy /\ todo' = todo), past \cap Faults \subseteq past',
         past' \cap Faults = {} /\ past \cap Faults = {} /\ Recorded => Spare' /\ Fresh'
  PROVE  RecordInv'
<1>1. Newest \in Int /\ Newest' \in Int /\ Blank <= Newest
  BY NewestIs DEF WbInv, Numbered, Newest
<1>2. Recorded => Earlier(rm', Newest')
  BY <1>1, EarlierStays DEF Recorded, AllEarlier, Unspoilt
<1> QED BY <1>2, RecordKept, StaysSame

(* ... and what does not even do that.                                       *)
LEMMA RecordSame ==
  ASSUME WbInv, WbInv', RecordInv, UNCHANGED <<rm, jobs, held, dst, cw, pset, vds, shown>>, Newest <= Newest',
         copy' = <<>> \/ (copy' = copy /\ todo' = todo), past \cap Faults \subseteq past'
  PROVE  RecordInv'
<1>1. Current' = Current
  BY DEF Current
<1>2. Recorded => Spare' /\ Fresh'
  BY <1>1 DEF Recorded, Spare, Fresh
<1> QED BY <1>2, RecordMoves

(***************************************************************************)
(* SwapWBBuffer(): the picture just written is the newest.                 *)
(***************************************************************************)

LEMMA FinishIs ==
  ASSUME NEW r, Buffered(r)
  PROVE  Len(r.finish) \in Nat /\ \A i \in 1 .. Len(r.finish) : r.finish[i].no \in Nat /\ r.finish[i].buf \in DOMAIN r.buf
<1> DEFINE f == r.finish
           S == [no : Nat, buf : DOMAIN r.buf]
<1>1. f \in Seq(S)
  BY DEF Buffered
<1>2. \A x \in S : x.no \in Nat /\ x.buf \in DOMAIN r.buf
  OBVIOUS
<1> HIDE DEF f, S
<1>3. Len(f) \in Nat /\ \A i \in 1 .. Len(f) : f[i] \in S
  BY <1>1, LenProperties
<1> QED BY <1>2, <1>3 DEF f

(* The finished buffers before the last are those that were, none of which   *)
(* was next; the last is the one that was drawn.                             *)
LEMMA FinishedIs ==
  ASSUME NEW r, Buffered(r), Sessioned(r), InTurn(r), r.drawing # None, NEW n \in Nat, NEW f, f = Finished(r, n),
         NEW o, o = IF Len(r.finish) = 3 THEN 1 ELSE 0
  PROVE  /\ Len(f) = Len(r.finish) + 1 - o /\ Len(f) > 0 /\ o \in {0, 1} /\ Len(r.finish) \in Nat
         /\ f[Len(f)] = [no |-> n, buf |-> r.drawing]
         /\ \A i \in 1 .. Len(f) - 1 : f[i] = r.finish[i + o] /\ i + o \in 1 .. Len(r.finish) /\ i + o \in Resting(r)
<1> DEFINE g == r.finish
           x == [no |-> n, buf |-> r.drawing]
           S == [no : Nat, buf : DOMAIN r.buf]
           k == Len(g)
           l == Len(f)
<1>1. g \in Seq(S) /\ Len(g) < RingSize /\ r.drawing \in DOMAIN r.buf
  BY DEF Buffered
<1>2. x \in S /\ f = KeepFinished(Append(g, x))
  BY <1>1 DEF Finished
<1>3. k \in Nat /\ DOMAIN g = 1 .. k
  BY <1>1, LenProperties
<1>4. \A i \in DOMAIN g : g[i].buf \notin {r.next, r.drawing} \/ (i = 1 /\ k = 3 /\ g[1].buf = r.next)
  BY TurnsApart
<1>5. \A i \in 1 .. k : i + 1 > 1
  OBVIOUS
<1>6. \A i \in 1 .. k : i \in Resting(r) \/ (i = 1 /\ k = 3)
  BY <1>3, <1>4 DEF Resting
<1> HIDE DEF g, x, S
<1>7. /\ k = 3 => l = 3 /\ f[3] = x /\ \A i \in 1 .. 2 : f[i] = g[i + 1]
      /\ k # 3 => l = k + 1 /\ f[k + 1] = x /\ \A i \in 1 .. k : f[i] = g[i]
  BY <1>1, <1>2, OneMoreFinished
<1>8. o = IF k = 3 THEN 1 ELSE 0
  BY DEF g
<1> HIDE DEF k, l
<1>9. l = k + 1 - o /\ l > 0 /\ o \in {0, 1} /\ f[l] = x
  BY <1>3, <1>7, <1>8
<1>10. \A i \in 1 .. l - 1 : f[i] = g[i + o] /\ i + o \in 1 .. k /\ i + o \in Resting(r)
  <2>1. CASE k = 3
    <3>1. o = 1 /\ l - 1 = 2
      BY <1>7, <1>8, <2>1
    <3> QED BY <1>6, <1>7, <2>1, <3>1
  <2>2. CASE k # 3
    <3>1. o = 0 /\ l - 1 = k
      BY <1>3, <1>7, <1>8, <2>2
    <3> QED BY <1>3, <1>6, <1>7, <2>2, <3>1
  <2> QED BY <2>1, <2>2
<1> QED BY <1>3, <1>9, <1>10 DEF g, x, k, l

LEMMA SwapAscending ==
  ASSUME NEW r, NEW js, Buffered(r), Kept(r), Sessioned(r), r.ref > 0, InTurn(r), NEW n \in Nat,
         NEW s, s = SwapWBBuffer(r, n), NEW ks,
         \A k \in ks : \E j \in js : k.buf = j.buf /\ k.n = j.n,
         \A j \in js : \E k \in ks : k.buf = j.buf /\ k.n = j.n,
         Earlier(r, n), \A b \in DOMAIN r.buf : \A x \in Pictures(r, js, b) : x \in Int /\ x <= n,
         Pictures(r, js, r.next) \subseteq {n}, Ascending(r, js)
  PROVE  /\ Ascending(s, ks) /\ Earlier(s, n)
         /\ \A last : \A seen \in Int, born \in Int :
              seen <= n /\ born <= n /\ Follows(r, js, last, seen, born) => Follows(s, ks, last, seen, born)
<1> DEFINE f == Finished(r, n)
           l == Len(f)
           o == IF Len(r.finish) = 3 THEN 1 ELSE 0
<1>1. /\ Buffered(s) /\ s.drawing = r.next /\ s.finish = f /\ Unspoilt(r, s) /\ r.next # None
  BY SwapIs DEF Sessioned
<1>2. \A b : b \in DOMAIN r.buf /\ b \in DOMAIN s.buf => Pictures(s, ks, b) \subseteq Pictures(r, js, b)
  <2> SUFFICES ASSUME NEW b, b \in DOMAIN r.buf, b \in DOMAIN s.buf PROVE Pictures(s, ks, b) \subseteq Pictures(r, js, b)
    OBVIOUS
  <2>1. s.buf[b].n = r.buf[b].n
    BY <1>1 DEF Unspoilt
  <2>2. (\A k \in ks : k.buf # b) => s.buf[b].n \in Pictures(r, js, b)
    BY <2>1, PicturesIs
  <2> QED BY <2>2, PicturesStay, ZenonT(30)
<1>3. r.next \in DOMAIN r.buf /\ r.next \in DOMAIN s.buf /\ Pictures(s, ks, r.next) \subseteq {n}
  BY <1>1, <1>2 DEF Buffered
<1> HIDE DEF f
<1>4. l \in Nat /\ \A i \in 1 .. l : f[i].buf \in DOMAIN s.buf
  BY <1>1, FinishIs
<1>5. CASE r.drawing = None
  <2>1. f = <<>> /\ l = 0
    BY <1>5 DEF f, Finished, Sessioned
  <2>2. 1 .. Len(s.finish) = {} /\ Resting(s) = {}
    BY <1>1, <2>1 DEF Resting
  <2>3. Ascending(s, ks)
    BY <2>2 DEF Ascending
  <2>4. Earlier(s, n)
    BY <1>1, <2>2 DEF Earlier, Unspoilt, Blank
  <2>5. \A last, seen, born : seen <= n /\ born <= n => Follows(s, ks, last, seen, born)
    BY <1>1, <1>3, <2>2 DEF Follows
  <2> QED BY <2>3, <2>4, <2>5
<1>6. CASE r.drawing # None
  <2>1. /\ l = Len(r.finish) + 1 - o /\ l > 0 /\ o \in {0, 1} /\ Len(r.finish) \in Nat
        /\ f[l] = [no |-> n, buf |-> r.drawing]
        /\ \A i \in 1 .. l - 1 : f[i] = r.finish[i + o] /\ i + o \in 1 .. Len(r.finish) /\ i + o \in Resting(r)
    BY <1>6, FinishedIs DEF f
  <2> HIDE DEF l, o
  <2>2. /\ l \in 1 .. l /\ f[l].no = n /\ f[l].buf = r.drawing /\ r.drawing \in DOMAIN r.buf
        /\ \A i \in 1 .. Len(r.finish) : r.finish[i].no \in 0 .. n /\ r.finish[i].buf \in DOMAIN r.buf
    <3>1. f[l].no = n /\ f[l].buf = r.drawing
      BY <2>1
    <3>2. r.drawing \in DOMAIN r.buf
      BY <1>6 DEF Buffered
    <3>3. \A i \in 1 .. Len(r.finish) : r.finish[i].no \in 0 .. n /\ r.finish[i].buf \in DOMAIN r.buf
      BY FinishIs, Zenon DEF Earlier
    <3>4. l \in 1 .. l
      BY <1>4, <2>1
    <3> QED BY <3>1, <3>2, <3>3, <3>4
  <2>3. Pictures(s, ks, f[l].buf) \subseteq Pictures(r, js, r.drawing)
    BY <1>2, <1>4, <2>2
  <2>4. \A i \in 1 .. l - 1 : Pictures(s, ks, f[i].buf) \subseteq Pictures(r, js, r.finish[i + o].buf)
    BY <1>2, <1>4, <2>1, <2>2, SMTT(30)
  <2>5. \A i \in 1 .. l : \A x \in Pictures(s, ks, f[i].buf) : x \in Int /\ x <= n
    <3> SUFFICES ASSUME NEW i \in 1 .. l, NEW x \in Pictures(s, ks, f[i].buf) PROVE x \in Int /\ x <= n
      OBVIOUS
    <3>1. i = l \/ i \in 1 .. l - 1
      BY <1>4
    <3>2. PICK b \in DOMAIN r.buf : x \in Pictures(r, js, b)
      <4>1. CASE i = l
        BY <2>2, <2>3, <4>1
      <4>2. CASE i \in 1 .. l - 1
        <5>1. i + o \in 1 .. Len(r.finish) /\ x \in Pictures(r, js, r.finish[i + o].buf)
          BY <2>1, <2>4, <4>2
        <5> QED BY <2>2, <5>1
      <4> QED BY <3>1, <4>1, <4>2
    <3> QED BY <3>2
  <2>6. \A i \in 1 .. l : i = l \/ i \in 1 .. l - 1
    BY <1>4
  <2>7. \A i, j \in 1 .. l : i < j => /\ i \in 1 .. l - 1
                                      /\ j # l => j \in 1 .. l - 1 /\ i + o < j + o
    BY <1>4, <2>1
  <2>8. \A i, j \in 1 .. l : i < j => f[i].no <= f[j].no
    <3> SUFFICES ASSUME NEW i \in 1 .. l, NEW j \in 1 .. l, i < j PROVE f[i].no <= f[j].no
      OBVIOUS
    <3>1. f[i] = r.finish[i + o] /\ i + o \in 1 .. Len(r.finish) /\ r.finish[i + o].no \in 0 .. n
      BY <2>1, <2>2, <2>7
    <3>2. CASE j = l
      BY <2>2, <3>1, <3>2
    <3>3. CASE j # l
      <4>1. f[j] = r.finish[j + o] /\ j + o \in 1 .. Len(r.finish) /\ i + o < j + o
        BY <2>1, <2>7, <3>3
      <4> QED BY <1>6, <3>1, <4>1 DEF Ascending
    <3> QED BY <3>2, <3>3
  <2>9. \A i \in 1 .. l : Precedes(s, ks, f[i].buf, r.next)
    BY <1>3, <2>5 DEF Precedes
  <2>10. \A i, j \in 1 .. l : i < j => Precedes(s, ks, f[i].buf, f[j].buf)
    <3> SUFFICES ASSUME NEW i \in 1 .. l, NEW j \in 1 .. l, i < j PROVE Precedes(s, ks, f[i].buf, f[j].buf)
      OBVIOUS
    <3>1. i + o \in Resting(r) /\ Pictures(s, ks, f[i].buf) \subseteq Pictures(r, js, r.finish[i + o].buf)
      BY <2>1, <2>4, <2>7
    <3>2. CASE j = l
      <4>1. Precedes(r, js, r.finish[i + o].buf, r.drawing)
        BY <1>6, <3>1 DEF Ascending
      <4> QED BY <2>3, <3>1, <3>2, <4>1 DEF Precedes
    <3>3. CASE j # l
      <4>1. /\ j + o \in Resting(r) /\ i + o < j + o
            /\ Pictures(s, ks, f[j].buf) \subseteq Pictures(r, js, r.finish[j + o].buf)
        BY <2>1, <2>4, <2>7, <3>3
      <4>2. Precedes(r, js, r.finish[i + o].buf, r.finish[j + o].buf)
        BY <1>6, <3>1, <4>1 DEF Ascending
      <4> QED BY <3>1, <4>1, <4>2 DEF Precedes
    <3> QED BY <3>2, <3>3
  <2>11. Len(s.finish) = l /\ Resting(s) \subseteq 1 .. l
    BY <1>1 DEF l, Resting
  <2>12. Ascending(s, ks)
    BY <1>1, <2>8, <2>9, <2>10, <2>11 DEF Ascending
  <2>13. Earlier(s, n)
    <3>1. \A i \in 1 .. l : f[i].no \in 0 .. n
      <4> SUFFICES ASSUME NEW i \in 1 .. l PROVE f[i].no \in 0 .. n
        OBVIOUS
      <4>1. CASE i = l
        BY <2>2, <4>1
      <4>2. CASE i \in 1 .. l - 1
        <5>1. f[i] = r.finish[i + o] /\ i + o \in 1 .. Len(r.finish)
          BY <2>1, <4>2
        <5> QED BY <2>2, <5>1
      <4> QED BY <2>6, <4>1, <4>2
    <3>2. \A b \in DOMAIN s.buf : s.buf[b].n \in Blank .. n
      BY <1>1 DEF Earlier, Unspoilt, Blank
    <3> QED BY <1>1, <2>11, <3>1, <3>2 DEF Earlier
  <2>14. ASSUME NEW last, NEW seen \in Int, NEW born \in Int, seen <= n, born <= n,
                Follows(r, js, last, seen, born)
         PROVE  Follows(s, ks, last, seen, born)
    <3>1. \A x \in Pictures(s, ks, r.next) : seen <= x /\ born <= x
      BY <1>3, <2>14
    <3>2. ASSUME NEW i \in 1 .. l, NEW x \in Pictures(s, ks, f[i].buf)
          PROVE  born <= x /\ (f[i].no > last \/ i = l => seen <= x)
      <4>1. CASE i = l
        BY <1>6, <2>3, <2>14, <3>2, <4>1 DEF Follows
      <4>2. CASE i # l
        <5>1. /\ i + o \in Resting(r) /\ x \in Pictures(r, js, r.finish[i + o].buf) /\ f[i] = r.finish[i + o]
          BY <2>1, <2>4, <2>6, <3>2, <4>2
        <5> QED BY <1>6, <2>14, <4>2, <5>1 DEF Follows
      <4> QED BY <4>1, <4>2
    <3> QED BY <1>1, <2>11, <3>1, <3>2 DEF Follows
  <2> QED BY <2>12, <2>13, <2>14
<1> QED BY <1>5, <1>6

(* The fences change, the pictures do not.                                   *)
LEMMA FencedAll ==
  ASSUME NEW js, \A j \in js : DOMAIN j = JobFields, NEW b, NEW by, NEW n, NEW ks, ks = SetFinishFence(js, b, by, n)
  PROVE  \A j \in js : \E k \in ks : k.buf = j.buf /\ k.n = j.n
<1> SUFFICES ASSUME NEW j \in js PROVE \E k \in ks : k.buf = j.buf /\ k.n = j.n
  OBVIOUS
<1> DEFINE f == IF j.by = by /\ j.n = n THEN b ELSE IF j.fence = b THEN None ELSE j.fence
           k == [j EXCEPT !.fence = f]
<1>1. k \in ks
  BY DEF SetFinishFence
<1> HIDE DEF f
<1>2. k.buf = j.buf /\ k.n = j.n
  BY DEF JobFields
<1> QED BY <1>1, <1>2

LEMMA SwapRecorded ==
  ASSUME WbInv, WbInv', Recorded, past \cap Faults = {}, isWBMode(rm), cw # "idle", Current = pset.c.n,
         Pictures(rm, jobs, rm.next) \subseteq {Current}, NEW by,
         rm' = SwapWBBuffer(rm, pset.c.n), jobs' = SetFinishFence(jobs, rm.next, by, pset.c.n),
         copy' = <<>>, vds' = vds, shown' = shown, Newest <= Newest'
  PROVE  AllEarlier' /\ Ascending(rm, jobs)' /\ Followed' /\ Copied'
<1> DEFINE n == Current
           b == rm.next
<1>1. /\ Buffered(rm) /\ Kept(rm) /\ Sessioned(rm) /\ rm.ref > 0 /\ InTurn(rm)
      /\ n \in Nat /\ Newest = n /\ Newest' \in Int
  BY NewestIs DEF WbInv, RingInv, isWBMode, Faults, Numbered, Newest
<1>2. rm' = SwapWBBuffer(rm, n) /\ jobs' = SetFinishFence(jobs, b, by, n)
  OBVIOUS
<1>3. \A j \in jobs : DOMAIN j = JobFields
  BY DEF WbInv, Numbered
<1>4. Earlier(rm, n) /\ Ascending(rm, jobs) /\ Pictures(rm, jobs, rm.next) \subseteq {n}
  BY <1>1 DEF Recorded, AllEarlier
<1>5. \A c \in DOMAIN rm.buf : \A x \in Pictures(rm, jobs, c) : x \in Int /\ x <= n
  BY <1>1, <1>4, PicturesEarlier DEF WbInv
<1> HIDE DEF n, b
<1>6. /\ \A k \in jobs' : \E j \in jobs : k.buf = j.buf /\ k.n = j.n
      /\ \A j \in jobs : \E k \in jobs' : k.buf = j.buf /\ k.n = j.n
  BY <1>2, <1>3, FencedIs, FencedAll
<1>7. /\ Ascending(rm', jobs') /\ Earlier(rm', n)
      /\ \A last : \A seen \in Int, born \in Int :
           seen <= n /\ born <= n /\ Follows(rm, jobs, last, seen, born) => Follows(rm', jobs', last, seen, born)
  BY <1>1, <1>2, <1>4, <1>5, <1>6, SwapAscending
<1>8. Earlier(rm', Newest')
  <2>1. \A i \in 1 .. Len(rm'.finish) : rm'.finish[i].no \in 0 .. Newest'
    BY <1>1, <1>7 DEF Earlier
  <2>2. \A c \in DOMAIN rm'.buf : rm'.buf[c].n \in Blank .. Newest'
    BY <1>1, <1>7 DEF Earlier, Blank
  <2> QED BY <2>1, <2>2, Zenon DEF Earlier
<1>9. \A v \in DOMAIN vds : /\ DOMAIN vds[v] = RecorderFields
                            /\ vds[v].seen \in Blank .. n /\ vds[v].born \in Blank .. n
  BY <1>1 DEF Recorded, AllEarlier
<1>10. AllEarlier'
  <2>1. shown.n \in Blank .. n
    BY <1>1 DEF Recorded, AllEarlier
  <2> QED BY <1>1, <1>8, <1>9, <2>1 DEF AllEarlier, Blank
<1>11. Followed'
  <2>1. \A v \in DOMAIN vds : Follows(rm, jobs, vds[v].last, vds[v].seen, vds[v].born)
    BY DEF Recorded, Followed
  <2>2. \A v \in DOMAIN vds : vds[v].seen \in Int /\ vds[v].born \in Int /\ vds[v].seen <= n /\ vds[v].born <= n
    BY <1>1, <1>9 DEF Blank
  <2> QED BY <1>7, <2>1, <2>2 DEF Followed
<1> QED BY <1>7, <1>10, <1>11 DEF Copied

(***************************************************************************)
(* The order of the pictures: the compositor's thread.                     *)
(***************************************************************************)
LEMMA CollectRecord == WbInv /\ WbInv' /\ RecordInv /\ Collect => RecordInv'
<1> SUFFICES ASSUME WbInv, WbInv', RecordInv, Collect PROVE RecordInv'
  OBVIOUS
<1>1. /\ cw = "idle" /\ queue # NoComp /\ cw' \in {"size", "rga"} /\ Current' = queue.n
      /\ UNCHANGED <<rm, jobs, held, vds, shown, copy, todo, past>>
  BY DEF Collect, CollectCommitInfo, CollectModeSetInfo, Current, sfVars, wbVars
<1>2. Newest <= Newest'
  BY <1>1, NewestGrows DEF WbInv
<1>3. Spare' /\ Fresh'
  BY <1>1 DEF WbInv, Stages, Spare, Fresh
<1> QED BY <1>1, <1>2, <1>3, RecordMoves

LEMMA RejectRecord ==
  ASSUME WbInv, WbInv', RecordInv, cw \in {"size", "next"}, cw' = "idle",
         UNCHANGED <<rm, jobs, queue, no, vds, shown, copy, todo>>, past' = past \cup {"failed"}
  PROVE  RecordInv'
<1>1. Newest <= Newest'
  BY NewestGrows DEF WbInv
<1>2. Spare' /\ Fresh'
  BY DEF Spare, Fresh
<1> QED BY <1>1, <1>2, RecordMoves

LEMMA CollectSizeRecord == WbInv /\ WbInv' /\ RecordInv /\ CollectSize => RecordInv'
<1> SUFFICES ASSUME WbInv, WbInv', RecordInv, CollectSize PROVE RecordInv'
  OBVIOUS
<1>1. cw = "size" /\ UNCHANGED <<jobs, held, vds, shown, copy, todo, queue, no>>
  BY DEF CollectSize, Reject, sfVars
<1>2. CASE ~CanWriteBack(rm, connected)
  BY <1>1, <1>2, RejectRecord DEF CollectSize, Reject
<1>3. CASE CanWriteBack(rm, connected) /\ Resizes(rm, size)
  BY <1>3 DEF CollectSize, RecordInv, Faults
<1>4. CASE CanWriteBack(rm, connected) /\ ~Resizes(rm, size)
  <2>1. rm' = rm /\ cw' = "next" /\ Current' = Current /\ past \subseteq past'
    BY <1>1, <1>4 DEF CollectSize, UpdateWriteBackResolution, Current
  <2>2. Newest <= Newest'
    BY <1>1, <2>1, NewestGrows DEF WbInv
  <2>3. Spare' /\ Fresh'
    BY <2>1 DEF Spare, Fresh
  <2> QED BY <1>1, <2>1, <2>2, <2>3, RecordMoves
<1> QED BY <1>2, <1>3, <1>4

(* Nothing is written into the next buffer before it is held.                *)
LEMMA NextIsSpare ==
  ASSUME WbInv, past \cap Faults = {}, cw \in {"next", "rga"}, NEW j \in jobs
  PROVE  j.buf # rm.next
  BY DEF WbInv, Writing, Waited, Begun

LEMMA CollectNextRecord == WbInv /\ WbInv' /\ RecordInv /\ CollectNext => RecordInv'
<1> SUFFICES ASSUME WbInv, WbInv', RecordInv, CollectNext PROVE RecordInv'
  OBVIOUS
<1>1. cw = "next" /\ UNCHANGED <<rm, jobs, vds, shown, copy, todo, queue, no>>
  BY DEF CollectNext, Reject, sfVars
<1>2. CASE rm.next = None
  BY <1>1, <1>2, RejectRecord DEF CollectNext, Reject
<1>3. CASE rm.next # None
  <2>1. cw' = "rga" /\ Current' = Current /\ past' = past /\ held' = rm.next
    BY <1>1, <1>3 DEF CollectNext, CollectModeSetInfo, Current
  <2>2. Newest <= Newest'
    BY <1>1, <2>1, NewestGrows DEF WbInv
  <2>3. past \cap Faults = {} => Spare' /\ Fresh'
    BY <1>1, <2>1, NextIsSpare DEF Spare, Fresh
  <2> QED BY <1>1, <2>1, <2>2, <2>3, RecordMoves
<1> QED BY <1>2, <1>3

(* What is written next is not what is drawn and finished.                   *)
LEMMA StaysElsewhere ==
  ASSUME WbInv, past \cap Faults = {}, NEW b, b = rm.next \/ rm.drawing = None,
         rm'.next = rm.next, rm'.drawing = rm.drawing, rm'.finish = rm.finish,
         \A c \in DOMAIN rm.buf : c # b => Pictures(rm', jobs', c) \subseteq Pictures(rm, jobs, c)
  PROVE  Stays(rm, jobs, rm', jobs')
<1>1. Buffered(rm) /\ Sessioned(rm) /\ InTurn(rm)
  BY DEF WbInv, RingInv, Faults
<1>2. CASE rm.drawing = None
  BY <1>2 DEF Stays
<1>3. CASE rm.drawing # None
  <2>1. rm.drawing # b /\ rm.drawing \in DOMAIN rm.buf
    <3>1. rm.next = None \/ rm.next # rm.drawing
      BY <1>1, TurnsApart
    <3> QED BY <1>1, <1>3, <3>1 DEF Buffered
  <2>2. \A i \in Resting(rm) : rm.finish[i].buf # b /\ rm.finish[i].buf \in DOMAIN rm.buf
    BY <1>1, <1>3, FinishIs DEF Resting
  <2> QED BY <2>1, <2>2 DEF Stays
<1> QED BY <1>2, <1>3

LEMMA WriteBackByRGARecord == WbInv /\ WbInv' /\ RecordInv /\ WriteBackByRGA => RecordInv'
<1> SUFFICES ASSUME WbInv, WbInv', RecordInv, WriteBackByRGA PROVE RecordInv'
  OBVIOUS
<1>1. cw = "rga" /\ UNCHANGED <<pset, vds, shown, copy, todo, queue, no>>
  BY DEF WriteBackByRGA, sfVars
<1>2. cw' \in {"ioctl", "rgaswap"}
  BY DEF WriteBackByRGA
<1>3. Current' = Current /\ Current = pset.c.n
  BY <1>1, <1>2 DEF Current
<1>4. Newest <= Newest' /\ Newest = Current /\ Newest' = Current /\ Current \in Nat
  <2>1. Newest = Current /\ Newest' = Current'
    BY <1>1, <1>2 DEF Newest
  <2>2. Current \in Nat
    BY <1>1, NewestIs DEF WbInv
  <2> QED BY <1>3, <2>1, <2>2
<1>5. CASE ~WbByRga(rm) \/ collected = NoComp
  <2>1. cw' = "ioctl" /\ UNCHANGED <<rm, jobs, held, past>>
    BY <1>5 DEF WriteBackByRGA, wbVars
  <2>2. Recorded => Spare' /\ Fresh'
    BY <1>1, <2>1 DEF Recorded, Spare, Fresh
  <2> QED BY <1>1, <1>4, <2>1, <2>2, RecordMoves
<1>6. CASE ~(~WbByRga(rm) \/ collected = NoComp)
  <2>1. /\ cw' = "rgaswap" /\ dst' = rm.next /\ past \subseteq past'
        /\ \/ rm' = DrawsBottom(rm, pset.c.n) /\ jobs' = jobs
           \/ jobs' = jobs \cup {DrawsOthers(rm, pset.c.n)} /\ rm' = rm
    BY <1>6 DEF WriteBackByRGA
  <2> DEFINE b == rm.next
             n == Current
             k == DrawsOthers(rm, n)
  <2>2. b \in DOMAIN rm.buf
    BY <1>6 DEF WbInv, RingInv, Buffered, Sessioned, WbByRga, isWBMode
  <2>3. k.buf = b /\ k.n = n
    BY DEF DrawsOthers
  <2>4. \/ rm' = [rm EXCEPT !.buf[b].n = n] /\ jobs' = jobs
        \/ jobs' = jobs \cup {k} /\ rm' = rm
    BY <1>3, <2>1 DEF DrawsBottom
  <2> HIDE DEF b, n, k
  <2>5. ASSUME past \cap Faults = {}, Recorded
        PROVE  Stays(rm, jobs, rm', jobs') /\ Earlier(rm', n) /\ Pictures(rm', jobs', b) \subseteq {n}
    <3>1. \A j \in jobs : j.buf # b
      BY <1>1, <2>5, NextIsSpare DEF b
    <3>2. /\ rm'.next = rm.next /\ rm'.drawing = rm.drawing /\ rm'.finish = rm.finish /\ DOMAIN rm'.buf = DOMAIN rm.buf
          /\ \A x \in DOMAIN rm'.buf : x # b => rm'.buf[x] = rm.buf[x]
          /\ (rm'.buf[b].n = n /\ jobs' = jobs) \/ jobs' = jobs \cup {k}
          /\ rm'.buf[b].n \in {rm.buf[b].n, n}
      <4>1. CASE rm' = rm /\ jobs' = jobs \cup {k}
        BY <4>1
      <4>2. CASE rm' = [rm EXCEPT !.buf[b].n = n] /\ jobs' = jobs
        BY <2>2, <4>2, WrittenIs DEF WbInv, RingInv
      <4> QED BY <2>4, <4>1, <4>2
    <3>3. Earlier(rm, n)
      BY <1>4, <2>5 DEF Recorded, AllEarlier, n
    <3>4. Earlier(rm', n)
      BY <1>4, <3>2, <3>3 DEF Earlier, Blank, n
    <3>5. Pictures(rm', jobs', b) \subseteq {n}
      <4> SUFFICES ASSUME NEW x \in Pictures(rm', jobs', b) PROVE x = n
        OBVIOUS
      <4>1. (\E j \in jobs' : j.buf = b /\ j.n = x) \/ (x = rm'.buf[b].n /\ \A j \in jobs' : j.buf # b)
        BY PicturesIs
      <4> QED BY <2>3, <3>1, <3>2, <4>1
    <3>6. ASSUME NEW c, c # b, c \in DOMAIN rm.buf PROVE Pictures(rm', jobs', c) \subseteq Pictures(rm, jobs, c)
      <4>1. \A j \in jobs' : j.buf = c => j \in jobs
        BY <2>3, <2>4, <3>6
      <4>2. \A j \in jobs : j \in jobs'
        BY <2>4
      <4>3. rm'.buf[c].n = rm.buf[c].n
        BY <3>2, <3>6
      <4>4. (\A j \in jobs' : j.buf # c) => rm'.buf[c].n \in Pictures(rm, jobs, c)
        BY <4>2, <4>3, PicturesIs
      <4> QED BY <4>1, <4>4, PicturesStay
    <3>7. Stays(rm, jobs, rm', jobs')
      BY <2>5, <3>2, <3>6, StaysElsewhere DEF b
    <3> QED BY <3>4, <3>5, <3>7
  <2>6. past \cap Faults = {} /\ Recorded => Spare' /\ Fresh'
    BY <1>3, <2>1, <2>5 DEF Spare, Fresh, b, n
  <2> QED BY <1>1, <1>4, <2>1, <2>5, <2>6, RecordKept DEF n
<1> QED BY <1>5, <1>6

LEMMA RgaSwapsRecord == WbInv /\ WbInv' /\ RecordInv /\ RgaSwaps => RecordInv'
<1> SUFFICES ASSUME WbInv, WbInv', RecordInv, RgaSwaps, past' \cap Faults = {} PROVE Recorded'
  BY DEF RecordInv
<1>1. /\ cw = "rgaswap" /\ cw' = "ioctl" /\ copy = <<>>
      /\ UNCHANGED <<held, pset, vds, shown, copy, queue, no>>
  BY DEF RgaSwaps, MutexFree, sfVars
<1>2. isWBMode(rm)
  BY DEF RgaSwaps, SwapsNothing, Faults
<1>3. /\ rm' = SwapWBBuffer(rm, pset.c.n) /\ jobs' = SetFinishFence(jobs, rm.next, "rga", pset.c.n)
      /\ past' = past \cup IF dst # rm.next THEN {"mixed"} ELSE {}
  BY <1>2 DEF RgaSwaps, Swap
<1>4. past \cap Faults = {} /\ dst = rm.next
  BY <1>3 DEF Faults
<1>5. Recorded /\ rm.next # None
  BY <1>2, <1>4 DEF RecordInv, WbInv, RingInv, Sessioned, isWBMode
<1>6. Current' = Current /\ Current = pset.c.n
  BY <1>1 DEF Current
<1>7. Newest <= Newest'
  BY <1>1, <1>6, NewestGrows DEF WbInv
<1>8. Pictures(rm, jobs, rm.next) \subseteq {Current}
  BY <1>1, <1>4, <1>5 DEF Recorded, Fresh
<1> DEFINE by == "rga"
<1>9. jobs' = SetFinishFence(jobs, rm.next, by, pset.c.n)
  BY <1>3
<1> HIDE DEF by
<1>10. AllEarlier' /\ Ascending(rm, jobs)' /\ Followed' /\ Copied'
  BY <1>1, <1>2, <1>3, <1>4, <1>5, <1>6, <1>7, <1>8, <1>9, SwapRecorded
<1>11. Spare' /\ Fresh'
  BY <1>1, <1>4 DEF WbInv, Stages, Spare, Fresh
<1> QED BY <1>10, <1>11 DEF Recorded

LEMMA CommitsRecord == WbInv /\ WbInv' /\ RecordInv /\ Commits => RecordInv'
<1> SUFFICES ASSUME WbInv, WbInv', RecordInv, Commits PROVE RecordInv'
  OBVIOUS
<1> DEFINE k == [buf |-> held, n |-> pset.c.n, by |-> "vop", fence |-> None]
<1>1. /\ cw = "ioctl" /\ cw' = "tail" /\ shown' = pset.c /\ UNCHANGED <<rm, held, pset, vds, copy, todo, queue, no>>
      /\ jobs' = IF held # None THEN jobs \cup {k} ELSE jobs
  BY DEF Commits, sfVars
<1>2. past \cap Faults \subseteq past'
  BY DEF Commits, Faults
<1>3. Current' = Current /\ Current = pset.c.n /\ k.buf = held /\ k.n = Current
  BY <1>1 DEF Current
<1> HIDE DEF k
<1>4. Newest <= Newest' /\ shown'.n = Newest' /\ Newest' = Newest
  BY <1>1, <1>3, NewestGrows DEF WbInv, Newest
<1>5. ASSUME past \cap Faults = {}, Recorded
      PROVE  Stays(rm, jobs, rm', jobs') /\ Earlier(rm', Newest') /\ Spare' /\ Fresh'
  <2>1. Earlier(rm', Newest')
    BY <1>1, <1>4, <1>5 DEF Recorded, AllEarlier
  <2>2. CASE held = None
    <3>1. jobs' = jobs
      BY <1>1, <2>2
    <3> QED BY <1>1, <2>1, <2>2, <3>1, StaysSame DEF Spare, Fresh
  <2>3. CASE held # None
    <3>1. jobs' = jobs \cup {k} /\ \A j \in jobs : j.buf # held
      BY <1>1, <1>5, <2>3 DEF Recorded, Spare
    <3>2. held = rm.next \/ rm.drawing = None
      BY <1>5, <2>3 DEF WbInv, Stages
    <3>3. \A c : c # held => Pictures(rm', jobs', c) \subseteq Pictures(rm, jobs, c)
      <4> SUFFICES ASSUME NEW c, c # held PROVE Pictures(rm', jobs', c) \subseteq Pictures(rm, jobs, c)
        OBVIOUS
      <4>1. \A j \in jobs' : j.buf = c => j \in jobs
        BY <1>3, <3>1
      <4>2. (\A j \in jobs' : j.buf # c) => rm'.buf[c].n \in Pictures(rm, jobs, c)
        BY <1>1, <3>1, PicturesIs
      <4> QED BY <4>1, <4>2, PicturesStay
    <3>4. Stays(rm, jobs, rm', jobs')
      BY <1>1, <1>5, <3>2, <3>3, StaysElsewhere
    <3>5. \A x : x \in Pictures(rm', jobs', held) => x = Current
      BY <1>3, <3>1, PicturesIs
    <3> QED BY <1>1, <1>3, <2>1, <3>4, <3>5 DEF Spare, Fresh
  <2> QED BY <2>2, <2>3
<1> QED BY <1>1, <1>2, <1>4, <1>5, RecordKept

LEMMA CommitFailsRecord == WbInv /\ WbInv' /\ RecordInv /\ CommitFails => RecordInv'
<1> SUFFICES ASSUME WbInv, WbInv', RecordInv, CommitFails PROVE RecordInv'
  OBVIOUS
<1>1. /\ cw = "ioctl" /\ cw' = "idle" /\ past \subseteq past'
      /\ UNCHANGED <<rm, jobs, vds, shown, copy, todo, queue, no>>
  BY DEF CommitFails, sfVars
<1>2. Newest <= Newest'
  BY <1>1, NewestGrows DEF WbInv
<1>3. Spare' /\ Fresh'
  BY <1>1 DEF Spare, Fresh
<1> QED BY <1>1, <1>2, <1>3, RecordMoves

LEMMA CommitTailRecord == WbInv /\ WbInv' /\ RecordInv /\ CommitTail => RecordInv'
<1> SUFFICES ASSUME WbInv, WbInv', RecordInv, CommitTail PROVE RecordInv'
  OBVIOUS
<1>1. cw = "tail" /\ cw' = "idle" /\ UNCHANGED <<vds, shown, copy, todo, queue, no>>
  BY DEF CommitTail, sfVars
<1>2. Newest <= Newest' /\ Current = pset.c.n
  BY <1>1, NewestGrows DEF WbInv, Current
<1>3. Spare' /\ Fresh'
  BY <1>1 DEF Spare, Fresh
<1>4. CASE ~wbFence
  <2>1. UNCHANGED <<rm, jobs, past>>
    BY <1>4 DEF CommitTail
  <2> QED BY <1>1, <1>2, <1>3, <2>1, RecordMoves
<1>5. CASE wbFence /\ WbByVop(rm)
  <2> SUFFICES ASSUME past' \cap Faults = {} PROVE Recorded'
    BY DEF RecordInv
  <2>1. /\ rm' = SwapWBBuffer(rm, pset.c.n) /\ jobs' = SetFinishFence(jobs, rm.next, "vop", pset.c.n)
        /\ past' = past \cup IF held # rm.next THEN {"mixed"} ELSE {}
        /\ copy = <<>> /\ isWBMode(rm)
    BY <1>5 DEF CommitTail, Swap, MutexFree, WbByVop
  <2>2. past \cap Faults = {} /\ held = rm.next
    BY <2>1 DEF Faults
  <2>3. Recorded /\ rm.next # None
    BY <2>1, <2>2 DEF RecordInv, WbInv, RingInv, Sessioned, isWBMode
  <2>4. Pictures(rm, jobs, rm.next) \subseteq {Current}
    BY <1>1, <2>2, <2>3 DEF Recorded, Fresh
  <2> DEFINE by == "vop"
  <2>5. jobs' = SetFinishFence(jobs, rm.next, by, pset.c.n)
    BY <2>1
  <2> HIDE DEF by
  <2>6. AllEarlier' /\ Ascending(rm, jobs)' /\ Followed' /\ Copied'
    BY <1>1, <1>2, <2>1, <2>2, <2>3, <2>4, <2>5, SwapRecorded
  <2> QED BY <1>3, <2>3, <2>6 DEF Recorded
<1>6. CASE wbFence /\ ~WbByVop(rm)
  BY <1>6 DEF CommitTail, RecordInv, Faults
<1> QED BY <1>4, <1>5, <1>6

(* A picture is complete.                                                    *)
LEMMA HardwareRecord == WbInv /\ WbInv' /\ RecordInv /\ Hardware => RecordInv'
<1> SUFFICES ASSUME WbInv, WbInv', RecordInv, Hardware PROVE RecordInv'
  OBVIOUS
<1>1. PICK j \in jobs : jobs' = jobs \ {j} /\ rm' = [rm EXCEPT !.buf[j.buf].n = j.n]
  BY DEF Hardware, JobFinishes
<1>2. UNCHANGED <<held, dst, cw, pset, queue, no, vds, shown, copy, todo, past>>
  BY DEF Hardware, JobFinishes, sfVars, cwVars
<1>3. Current' = Current /\ Newest' = Newest
  BY <1>2 DEF Current, Newest
<1> DEFINE b == j.buf
           n == j.n
<1>4. b \in DOMAIN rm.buf /\ rm' = [rm EXCEPT !.buf[b].n = n] /\ n \in Nat /\ n <= Newest /\ Newest \in Int
  BY <1>1, NewestIs DEF WbInv, RingInv, Kept
<1> HIDE DEF b, n
<1>5. /\ rm'.next = rm.next /\ rm'.drawing = rm.drawing /\ rm'.finish = rm.finish /\ DOMAIN rm'.buf = DOMAIN rm.buf
      /\ rm'.buf[b].n = n /\ \A x \in DOMAIN rm'.buf : x # b => rm'.buf[x] = rm.buf[x]
  BY <1>4, WrittenIs DEF WbInv, RingInv
<1>6. \A c \in DOMAIN rm.buf : Pictures(rm', jobs', c) \subseteq Pictures(rm, jobs, c)
  <2> SUFFICES ASSUME NEW c \in DOMAIN rm.buf PROVE Pictures(rm', jobs', c) \subseteq Pictures(rm, jobs, c)
    OBVIOUS
  <2>1. (\A k \in jobs' : k.buf # c) => rm'.buf[c].n \in Pictures(rm, jobs, c)
    <3>1. CASE c = b
      <4>1. rm'.buf[c].n = j.n /\ j.buf = c
        BY <1>5, <3>1 DEF b, n
      <4> QED BY <4>1, PicturesIs
    <3>2. CASE c # b
      <4>1. rm'.buf[c].n = rm.buf[c].n /\ ((\A k \in jobs' : k.buf # c) => \A k \in jobs : k.buf # c)
        BY <1>1, <1>5, <3>2 DEF b
      <4> QED BY <4>1, PicturesIs
    <3> QED BY <3>1, <3>2
  <2> QED BY <1>1, <2>1, PicturesStay, ZenonT(30)
<1>7. ASSUME past \cap Faults = {}, Recorded
      PROVE  Stays(rm, jobs, rm', jobs') /\ Earlier(rm', Newest') /\ Spare' /\ Fresh'
  <2>1. Stays(rm, jobs, rm', jobs')
    BY <1>5, <1>6, <1>7, StaysElsewhere
  <2>2. Earlier(rm, Newest)
    BY <1>7 DEF Recorded, AllEarlier
  <2>3. Earlier(rm', Newest)
    BY <1>4, <1>5, <2>2 DEF Earlier, Blank
  <2>4. Spare' /\ Fresh'
    <3>1. \A c \in {held, dst} : c # None => Pictures(rm', jobs', c) \subseteq Pictures(rm, jobs, c)
      BY <1>6 DEF WbInv, RingInv, Kept
    <3> QED BY <1>1, <1>2, <1>3, <1>7, <3>1 DEF Recorded, Spare, Fresh
  <2> QED BY <1>3, <2>1, <2>3, <2>4
<1> QED BY <1>2, <1>3, <1>4, <1>7, RecordKept

(***************************************************************************)
(* The order of the pictures: SurfaceFlinger's thread.                     *)
(***************************************************************************)
LEMMA RecordElse ==
  ASSUME WbInv, WbInv', RecordInv, UNCHANGED <<rm, jobs, held, dst, cw, pset, vds, shown>>,
         queue' \in {queue, NoComp} \/ (queue = NoComp /\ queue'.n = no /\ no' = no + 1), no' \in {no, no + 1},
         copy' = <<>> \/ (copy' = copy /\ todo' = todo), past \cap Faults \subseteq past'
  PROVE  RecordInv'
<1>1. Current' = Current
  BY DEF Current
<1>2. Newest <= Newest'
  BY <1>1, NewestGrows DEF WbInv
<1> QED BY <1>2, RecordSame

LEMMA PresentRecord == WbInv /\ WbInv' /\ RecordInv /\ PresentDisplay => RecordInv'
<1> SUFFICES ASSUME WbInv, WbInv', RecordInv, PresentDisplay PROVE RecordInv'
  OBVIOUS
<1>1. sf # "mirror" /\ UNCHANGED <<rm, jobs, held, dst, vds, copy>> /\ no' = no + 1
  BY DEF PresentDisplay, wbVars
<1>2. UNCHANGED <<cw, pset, shown>>
  BY DEF PresentDisplay, ClearDisplay, ImportFails, cwVars
<1>3. past \subseteq past'
  BY DEF PresentDisplay, ImportFails
<1>4. queue' \in {queue, NoComp} \/ (queue = NoComp /\ queue'.n = no)
  BY DEF PresentDisplay, ClearDisplay, ImportFails, cwVars, Composition
<1>5. copy' = <<>>
  BY <1>1 DEF WbInv, Copying
<1> QED BY <1>1, <1>2, <1>3, <1>4, <1>5, RecordElse

(* A new recorder may be given anything of a recording under way.            *)
LEMMA CreateRecord ==
  WbInv /\ WbInv' /\ RangeOf(dm) /\ connected \in BOOLEAN /\ RecordInv /\ CreateVirtualDisplay => RecordInv'
<1> SUFFICES ASSUME WbInv, WbInv', RangeOf(dm), connected \in BOOLEAN, RecordInv, CreateVirtualDisplay,
                    past' \cap Faults = {}
             PROVE  Recorded'
  BY DEF RecordInv
<1> DEFINE z == size
           cable == connected
<1>1. /\ sf = "idle" /\ UNCHANGED <<copy, jobs, held, dst, cw, pset, queue, no, shown>>
      /\ rm' = EnableWriteBackMode(rm, cable, z) /\ past \subseteq past'
  BY DEF CreateVirtualDisplay, cwVars
<1>2. z \in Sizes /\ cable \in BOOLEAN
  BY SizeIs
<1>3. PICK id : vds' = [v \in DOMAIN vds \cup {id} |-> IF v = id THEN NewRecorder ELSE vds[v]]
  BY DEF CreateVirtualDisplay
<1> HIDE DEF z, cable
<1>4. Recorded /\ past \cap Faults = {} /\ copy' = <<>>
  BY <1>1 DEF RecordInv, WbInv, Copying
<1>5. /\ Buffered(rm) /\ Kept(rm) /\ Sessioned(rm) /\ Buffered(rm)' /\ Kept(rm)'
  BY DEF WbInv, RingInv
<1>6. /\ rm'.drawing = rm.drawing /\ rm'.finish = rm.finish /\ Unspoilt(rm, rm')
      /\ rm.ref > 0 => rm'.next = rm.next
      /\ rm.ref <= 0 => rm.drawing = None
  <2>1. Buffered(rm) /\ Kept(rm) /\ Sessioned(rm)
    BY <1>5
  <2> DEFINE r == rm
             s == rm'
  <2>2. s = EnableWriteBackMode(r, cable, z) /\ Buffered(r) /\ Kept(r) /\ Sessioned(r)
    BY <1>1, <2>1
  <2> HIDE DEF r, s
  <2>3. /\ Buffered(s) /\ Kept(s) /\ Sessioned(s) /\ (InTurn(r) => InTurn(s))
        /\ s.drawing = r.drawing /\ s.finish = r.finish /\ Unspoilt(r, s)
        /\ r.ref > 0 => s.next = r.next
        /\ r.ref <= 0 => /\ r.drawing = None
                         /\ \/ s.next \in {None, r.next} \/ s.next \notin DOMAIN r.buf
                            \/ cable /\ Reuses(r, WbSize([mode |-> ChooseWriteBackMode(cable, z)], z))
                               /\ s.next = Head(r.ring)
    BY <1>2, <2>2, EnableIs
  <2> QED BY <2>3 DEF r, s
<1>7. rm.ref > 0 \/ rm.ref <= 0
  BY <1>5 DEF Sessioned
<1>8. Stays(rm, jobs, rm', jobs')
  <2>1. CASE rm.drawing = None
    BY <1>6, <2>1 DEF Stays
  <2>2. CASE rm.drawing # None
    <3>1. rm.drawing \in DOMAIN rm.buf /\ rm.drawing \in DOMAIN rm'.buf
      BY <1>5, <1>6, <2>2 DEF Buffered
    <3>2. \A i \in Resting(rm) : rm.finish[i].buf \in DOMAIN rm.buf
      BY <1>5, FinishIs DEF Resting
    <3>3. Buffered(rm')
      BY <1>5 DEF Buffered
    <3>4. \A i \in Resting(rm) : rm.finish[i].buf \in DOMAIN rm'.buf
      BY <1>6, <3>3, FinishIs DEF Resting
    <3> QED BY <1>1, <1>6, <1>7, <2>2, <3>1, <3>2, <3>4, UnspoiltPictures DEF Stays
  <2> QED BY <2>1, <2>2
<1>9. Current' = Current /\ Newest' = Newest /\ Newest \in Int /\ Blank <= Newest
  BY <1>1, NewestIs DEF Current, Newest, WbInv
<1>10. shown.n \in Blank .. Newest /\ Earlier(rm, Newest)
  BY <1>4 DEF Recorded, AllEarlier
<1>11. /\ DOMAIN NewRecorder = RecorderFields /\ NewRecorder.seen = Blank
       /\ NewRecorder.born = IF isWBMode(rm) THEN Blank ELSE shown.n
  BY DEF NewRecorder, RecorderFields
<1>12. DOMAIN vds' = DOMAIN vds \cup {id} /\ \A v \in DOMAIN vds' : vds'[v] = IF v = id THEN NewRecorder ELSE vds[v]
  BY <1>3
<1>13. AllEarlier'
  <2>1. Earlier(rm', Newest)
    BY <1>6, <1>9, <1>10, EarlierStays
  <2>2. NewRecorder.seen \in Blank .. Newest /\ NewRecorder.born \in Blank .. Newest
    BY <1>9, <1>10, <1>11 DEF Blank
  <2>3. \A v \in DOMAIN vds : /\ DOMAIN vds[v] = RecorderFields
                              /\ vds[v].seen \in Blank .. Newest /\ vds[v].born \in Blank .. Newest
    BY <1>4 DEF Recorded, AllEarlier
  <2>4. \A v \in DOMAIN vds' : /\ DOMAIN vds'[v] = RecorderFields
                               /\ vds'[v].seen \in Blank .. Newest /\ vds'[v].born \in Blank .. Newest
    BY <1>11, <1>12, <2>2, <2>3
  <2> QED BY <1>1, <1>9, <1>10, <2>1, <2>4 DEF AllEarlier
<1>14. Spare' /\ Fresh'
  <2>1. Kept(rm')
    BY <1>1, <1>5 DEF Kept
  <2> QED BY <1>1, <1>4, <1>5, <1>6, <1>9, <2>1, FreshStays DEF Recorded
<1>15. Ascending(rm, jobs)'
  BY <1>4, <1>8, AscendingStays DEF Recorded
<1>16. Followed'
  <2>1. \A v \in DOMAIN vds : Follows(rm', jobs', vds[v].last, vds[v].seen, vds[v].born)
    BY <1>4, <1>8, FollowsStays DEF Recorded, Followed
  <2>2. Follows(rm', jobs', NewRecorder.last, Blank, NewRecorder.born)
    <3>1. CASE rm.drawing = None
      BY <1>6, <3>1 DEF Follows
    <3>2. CASE rm.drawing # None
      <4>1. NewRecorder.born = Blank
        BY <1>6, <1>7, <1>11, <3>2 DEF isWBMode
      <4>2. \A b \in DOMAIN rm.buf : \A x \in Pictures(rm, jobs, b) : Blank <= x
        BY <1>10, PicturesEarlier DEF WbInv
      <4>3. \A last : Follows(rm, jobs, last, Blank, Blank)
        BY <1>5, <3>2, <4>2, FinishIs DEF Follows, Resting, Buffered
      <4> QED BY <1>8, <4>1, <4>3, FollowsStays
    <3> QED BY <3>1, <3>2
  <2>3. \A v \in DOMAIN vds' : Follows(rm', jobs', vds'[v].last, vds'[v].seen, vds'[v].born)
    BY <1>11, <1>12, <2>1, <2>2
  <2> QED BY <2>3 DEF Followed
<1>17. Copied'
  BY <1>4 DEF Copied
<1> QED BY <1>13, <1>14, <1>15, <1>16, <1>17 DEF Recorded

LEMMA DestroyRecord == WbInv /\ WbInv' /\ RecordInv /\ DestroyVirtualDisplay => RecordInv'
<1> SUFFICES ASSUME WbInv, WbInv', RecordInv, DestroyVirtualDisplay, past' \cap Faults = {} PROVE Recorded'
  BY DEF RecordInv
<1>1. /\ sf = "idle" /\ UNCHANGED <<copy, jobs, held, dst, cw, pset, queue, no, shown, past>>
      /\ rm' = DisableWriteBackMode(rm)
  BY DEF DestroyVirtualDisplay, cwVars
<1>2. DOMAIN vds' \subseteq DOMAIN vds /\ \A v \in DOMAIN vds' : vds'[v] = vds[v]
  BY DEF DestroyVirtualDisplay, Restrict
<1>3. Recorded /\ past \cap Faults = {} /\ copy' = <<>>
  BY <1>1 DEF RecordInv, WbInv, Copying
<1>4. Buffered(rm) /\ Kept(rm) /\ Sessioned(rm) /\ Buffered(rm)' /\ Kept(rm)'
  BY DEF WbInv, RingInv
<1>5. /\ \/ rm'.next = rm.next /\ rm'.drawing = rm.drawing /\ rm'.finish = rm.finish
         \/ rm'.next = None /\ rm'.drawing = None /\ rm'.finish = <<>>
      /\ Unspoilt(rm, rm')
  BY <1>1, <1>4, DisableIs
<1>6. Stays(rm, jobs, rm', jobs')
  <2>1. CASE rm'.drawing = None
    BY <2>1 DEF Stays
  <2>2. CASE rm'.drawing # None
    <3>1. rm'.next = rm.next /\ rm'.drawing = rm.drawing /\ rm'.finish = rm.finish
      BY <1>5, <2>2
    <3>2. rm.drawing \in DOMAIN rm.buf /\ rm.drawing \in DOMAIN rm'.buf
      BY <1>4, <2>2, <3>1 DEF Buffered
    <3>3. Buffered(rm')
      BY <1>4 DEF Buffered
    <3>4. \A i \in Resting(rm) : rm.finish[i].buf \in DOMAIN rm.buf /\ rm.finish[i].buf \in DOMAIN rm'.buf
      BY <1>4, <3>1, <3>3, FinishIs DEF Resting
    <3> QED BY <1>1, <1>5, <3>1, <3>2, <3>4, UnspoiltPictures DEF Stays
  <2> QED BY <2>1, <2>2
<1>7. Current' = Current /\ Newest' = Newest /\ Newest \in Int /\ Blank <= Newest
  BY <1>1, NewestIs DEF Current, Newest, WbInv
<1>8. AllEarlier'
  <2>1. Earlier(rm', Newest)
    BY <1>3, <1>5, <1>7, EarlierStays DEF Recorded, AllEarlier
  <2> QED BY <1>1, <1>2, <1>3, <1>7, <2>1 DEF Recorded, AllEarlier
<1>9. Spare' /\ Fresh'
  <2>1. Kept(rm')
    BY <1>1, <1>4 DEF Kept
  <2> QED BY <1>1, <1>3, <1>4, <1>5, <1>7, <2>1, FreshStays DEF Recorded
<1>10. Ascending(rm, jobs)'
  BY <1>3, <1>6, AscendingStays DEF Recorded
<1>11. Followed'
  BY <1>2, <1>3, <1>6, FollowsStays DEF Recorded, Followed
<1>12. Copied'
  BY <1>3 DEF Copied
<1> QED BY <1>8, <1>9, <1>10, <1>11, <1>12 DEF Recorded

(* What OutputWBBuffer() chooses is no older than what came before, and what *)
(* it will choose next no older than that.                                   *)
LEMMA ChosenFollows ==
  ASSUME NEW r, NEW js, Buffered(r), r.drawing # None, Ascending(r, js),
         NEW last, NEW seen \in Int, NEW born \in Int, Follows(r, js, last, seen, born),
         NEW i \in Resting(r), r.finish[i].no > last \/ i = Len(r.finish),
         NEW x \in Int, \A y : y \in Pictures(r, js, r.finish[i].buf) <=> y = x
  PROVE  Follows(r, js, r.finish[i].no, x, born) /\ seen <= x /\ born <= x
<1> DEFINE f == r.finish
<1>1. Len(f) \in Nat /\ \A j \in 1 .. Len(f) : f[j].no \in Nat
  BY FinishIs
<1>2. i \in 1 .. Len(f) /\ x \in Pictures(r, js, f[i].buf)
  BY DEF Resting
<1>3. seen <= x /\ born <= x
  BY <1>2 DEF Follows
<1>4. \A y \in Pictures(r, js, r.drawing) : x <= y /\ born <= y
  BY <1>2 DEF Ascending, Follows, Precedes
<1>5. ASSUME NEW j \in Resting(r), NEW y \in Pictures(r, js, f[j].buf)
      PROVE  born <= y /\ (f[j].no > f[i].no \/ j = Len(f) => x <= y)
  <2>1. born <= y
    BY <1>5 DEF Follows
  <2>2. j \in 1 .. Len(f)
    BY <1>5 DEF Resting
  <2>3. CASE j < i
    <3>1. f[j].no <= f[i].no
      BY <1>2, <2>2, <2>3 DEF Ascending
    <3> QED BY <1>1, <1>2, <2>1, <2>2, <2>3, <3>1, SMTT(30)
  <2>4. CASE j = i
    BY <1>5, <2>1, <2>4
  <2>5. CASE i < j
    <3>1. Precedes(r, js, f[i].buf, f[j].buf)
      BY <1>5, <2>5 DEF Ascending
    <3> QED BY <1>2, <1>5, <2>1, <3>1 DEF Precedes
  <2> QED BY <1>1, <1>2, <2>2, <2>3, <2>4, <2>5
<1> QED BY <1>3, <1>4, <1>5 DEF Follows

(* The first of the finished buffers that are new.                           *)
LEMMA FirstIs ==
  ASSUME NEW S \in SUBSET (1 .. 3), S # {}
  PROVE  Min(S) \in S
<1>1. \A i \in S : i = 1 \/ i = 2 \/ i = 3
  OBVIOUS
<1>2. \E i \in S : \A j \in S : i <= j
  <2>1. CASE 1 \in S
    BY <1>1, <2>1
  <2>2. CASE 1 \notin S /\ 2 \in S
    BY <1>1, <2>2
  <2>3. CASE 1 \notin S /\ 2 \notin S
    <3>1. \A j \in S : j = 3
      BY <1>1, <2>3
    <3>2. 3 \in S
      BY <3>1
    <3> QED BY <3>1, <3>2
  <2> QED BY <2>1, <2>2, <2>3
<1> QED BY <1>2 DEF Min

LEMMA OutputIs ==
  ASSUME NEW r, Buffered(r), r.drawing # None, NEW last, NEW f \in ToOutput(r, last)
  PROVE  \/ \E i \in 1 .. Len(r.finish) : f = r.finish[i] /\ (r.finish[i].no > last \/ i = Len(r.finish))
         \/ r.finish = <<>> /\ f = [no |-> 0, buf |-> r.drawing]
<1> DEFINE newer == {i \in DOMAIN r.finish : r.finish[i].no > last}
           S == [no : Nat, buf : DOMAIN r.buf]
<1>1. Len(r.finish) \in Nat /\ DOMAIN r.finish = 1 .. Len(r.finish) /\ Len(r.finish) < 4
  <2>1. r.finish \in Seq(S) /\ Len(r.finish) < 4
    BY MaxIs DEF Buffered
  <2> HIDE DEF S
  <2> QED BY <2>1, LenProperties
<1>2. CASE newer # {}
  <2>1. f = r.finish[Min(newer)]
    BY <1>2 DEF ToOutput
  <2>2. newer \in SUBSET (1 .. 3)
    BY <1>1
  <2>3. Min(newer) \in newer
    BY <1>2, <2>2, FirstIs
  <2> QED BY <1>1, <2>1, <2>3
<1>3. CASE newer = {} /\ r.finish # <<>>
  <2>1. f = r.finish[Len(r.finish)]
    BY <1>3 DEF ToOutput
  <2>2. Len(r.finish) # 0
    <3>1. r.finish \in Seq(S)
      BY DEF Buffered
    <3> HIDE DEF S
    <3> QED BY <1>3, <3>1, EmptySeq
  <2> QED BY <1>1, <2>1, <2>2
<1>4. CASE newer = {} /\ r.finish = <<>>
  <2>1. f \in {[no |-> 0, buf |-> r.drawing]}
    BY <1>4 DEF ToOutput
  <2> QED BY <1>4, <2>1
<1> QED BY <1>2, <1>3, <1>4

LEMMA OutputRecord == WbInv /\ WbInv' /\ RecordInv /\ OutputWBBuffer => RecordInv'
<1> SUFFICES ASSUME WbInv, WbInv', RecordInv, OutputWBBuffer, past' \cap Faults = {} PROVE Recorded'
  BY DEF RecordInv
<1>1. UNCHANGED <<rm, jobs, held, dst, cw, pset, queue, no, vds, shown, todo>>
  BY DEF OutputWBBuffer, wbVars, cwVars
<1>2. PICK f \in ToOutput(rm, vds[NextDisplay].last) :
        /\ copy' = [buf |-> f.buf, no |-> f.no, seen |-> rm.buf[f.buf].n]
        /\ past' = past \cup IF f.buf = rm.next THEN {"overrun"} ELSE {}
  BY DEF OutputWBBuffer
<1> DEFINE x == rm.buf[f.buf].n
<1>3. /\ copy'.buf = f.buf /\ copy'.no = f.no /\ copy'.seen = x
      /\ past \cap Faults = {} /\ f.buf # rm.next
  BY <1>2 DEF Faults
<1>4. Recorded
  BY <1>3 DEF RecordInv
<1>5. Current' = Current /\ Newest' = Newest /\ Newest \in Int /\ NextDisplay' = NextDisplay
  BY <1>1, NewestIs DEF Current, Newest, NextDisplay, WbInv
<1>6. AllEarlier' /\ Spare' /\ Fresh' /\ Ascending(rm, jobs)' /\ Followed'
  <2>1. AllEarlier'
    BY <1>1, <1>4, <1>5 DEF Recorded, AllEarlier
  <2>2. Spare' /\ Fresh'
    BY <1>1, <1>4, <1>5 DEF Recorded, Spare, Fresh
  <2> QED BY <1>1, <1>4, <2>1, <2>2 DEF Recorded, Followed
<1>7. Copied'
  <2> SUFFICES ASSUME copy' # <<>> PROVE Copied'
    BY DEF Copied
  <2>1. rm.drawing # None /\ \A j \in jobs : j.buf # f.buf
    BY <1>1, <1>3 DEF WbInv, Copying
  <2>2. \/ \E i \in 1 .. Len(rm.finish) : f = rm.finish[i] /\ (rm.finish[i].no > vds[NextDisplay].last \/ i = Len(rm.finish))
        \/ rm.finish = <<>> /\ f = [no |-> 0, buf |-> rm.drawing]
    BY <2>1, OutputIs DEF WbInv, RingInv
  <2>3. f.buf \in DOMAIN rm.buf
    <3>1. Buffered(rm)
      BY DEF WbInv, RingInv
    <3>2. rm.drawing \in DOMAIN rm.buf
      BY <2>1, <3>1 DEF Buffered
    <3>3. \A i \in 1 .. Len(rm.finish) : rm.finish[i].buf \in DOMAIN rm.buf
      BY <3>1, FinishIs
    <3> QED BY <2>2, <3>2, <3>3
  <2>4. x \in Blank .. Newest
    BY <1>4, <2>3 DEF Recorded, AllEarlier, Earlier
  <2>5. \A y : y \in Pictures(rm, jobs, f.buf) <=> y = x
    BY <2>1, PicturesIs
  <2> HIDE DEF x
  <2>6. ASSUME NEW v \in DOMAIN vds, v = NextDisplay
        PROVE  Follows(rm, jobs, f.no, x, vds[v].born) /\ vds[v].seen <= x /\ vds[v].born <= x
    <3> DEFINE last == vds[v].last
               seen == vds[v].seen
               born == vds[v].born
    <3>1. Follows(rm, jobs, last, seen, born) /\ seen \in Int /\ born \in Int /\ x \in Int /\ Ascending(rm, jobs)
      BY <1>4, <1>5, <2>4, <2>6 DEF Recorded, Followed, AllEarlier, Blank
    <3>2. last = vds[NextDisplay].last
      BY <2>6
    <3> HIDE DEF last, seen, born
    <3>3. CASE \E i \in 1 .. Len(rm.finish) : f = rm.finish[i] /\ (rm.finish[i].no > last \/ i = Len(rm.finish))
      <4>1. PICK i \in 1 .. Len(rm.finish) : f = rm.finish[i] /\ (rm.finish[i].no > last \/ i = Len(rm.finish))
        BY <3>3
      <4>2. i \in Resting(rm)
        BY <1>3, <4>1 DEF Resting
      <4>3. Buffered(rm) /\ \A y : y \in Pictures(rm, jobs, rm.finish[i].buf) <=> y = x
        BY <2>5, <4>1 DEF WbInv, RingInv
      <4>4. Follows(rm, jobs, rm.finish[i].no, x, born) /\ seen <= x /\ born <= x
        BY <2>1, <3>1, <4>1, <4>2, <4>3, ChosenFollows
      <4> QED BY <4>1, <4>4 DEF born, seen
    <3>4. CASE rm.finish = <<>> /\ f = [no |-> 0, buf |-> rm.drawing]
      <4>1. f.buf = rm.drawing /\ Resting(rm) = {}
        BY <3>4 DEF Resting
      <4>2. seen <= x /\ born <= x
        BY <2>1, <2>5, <3>1, <4>1 DEF Follows
      <4>3. Follows(rm, jobs, f.no, x, born)
        BY <2>5, <3>1, <4>1, <4>2 DEF Follows
      <4> QED BY <4>2, <4>3 DEF born, seen
    <3> QED BY <2>2, <3>2, <3>3, <3>4
  <2> QED BY <1>1, <1>3, <1>5, <2>4, <2>6 DEF Copied
<1> QED BY <1>6, <1>7 DEF Recorded

(* The recorder got it.                                                      *)
LEMMA OutputDoneIs ==
  ASSUME OutputDone, \A v \in DOMAIN vds : DOMAIN vds[v] = RecorderFields
  PROVE  /\ DOMAIN vds' = DOMAIN vds /\ copy # <<>>
         /\ \A v \in DOMAIN vds : /\ DOMAIN vds'[v] = RecorderFields /\ vds'[v].born = vds[v].born
                                  /\ v = NextDisplay => vds'[v].last = copy.no /\ vds'[v].seen = copy.seen
                                  /\ v # NextDisplay => vds'[v] = vds[v]
<1> DEFINE d == NextDisplay
           a == copy.no
           b == copy.seen
<1>1. vds' = [vds EXCEPT ![d].last = a, ![d].seen = b] /\ copy # <<>>
  BY DEF OutputDone
<1>2. "last" \in RecorderFields /\ "seen" \in RecorderFields /\ "born" \in RecorderFields
  BY DEF RecorderFields
<1> HIDE DEF d, a, b
<1>3. /\ DOMAIN vds' = DOMAIN vds
      /\ \A v \in DOMAIN vds : v # d => vds'[v] = vds[v]
      /\ d \in DOMAIN vds => vds'[d] = [[vds[d] EXCEPT !.last = a] EXCEPT !.seen = b]
  BY <1>1
<1>4. d \in DOMAIN vds => /\ DOMAIN vds'[d] = RecorderFields /\ vds'[d].born = vds[d].born
                          /\ vds'[d].last = a /\ vds'[d].seen = b
  BY <1>2, <1>3
<1> QED BY <1>1, <1>3, <1>4 DEF d, a, b

LEMMA OutputDoneRecord == WbInv /\ WbInv' /\ RecordInv /\ OutputDone => RecordInv'
<1> SUFFICES ASSUME WbInv, WbInv', RecordInv, OutputDone, past' \cap Faults = {} PROVE Recorded'
  BY DEF RecordInv
<1>1. UNCHANGED <<rm, jobs, held, dst, cw, pset, queue, no, shown, past>> /\ copy' = <<>>
  BY DEF OutputDone, wbVars, cwVars
<1>2. Recorded
  BY <1>1 DEF RecordInv
<1>3. Current' = Current /\ Newest' = Newest /\ Newest \in Int
  BY <1>1, NewestIs DEF Current, Newest, WbInv
<1>4. \A v \in DOMAIN vds : DOMAIN vds[v] = RecorderFields
  BY <1>2 DEF Recorded, AllEarlier
<1>5. /\ DOMAIN vds' = DOMAIN vds /\ copy # <<>>
      /\ \A v \in DOMAIN vds : /\ DOMAIN vds'[v] = RecorderFields /\ vds'[v].born = vds[v].born
                               /\ v = NextDisplay => vds'[v].last = copy.no /\ vds'[v].seen = copy.seen
                               /\ v # NextDisplay => vds'[v] = vds[v]
  BY <1>4, OutputDoneIs
<1>6. AllEarlier'
  <2>1. copy.seen \in Blank .. Newest
    BY <1>2, <1>5 DEF Recorded, Copied
  <2>2. \A v \in DOMAIN vds : vds[v].seen \in Blank .. Newest /\ vds[v].born \in Blank .. Newest
    BY <1>2 DEF Recorded, AllEarlier
  <2>3. \A v \in DOMAIN vds' : /\ DOMAIN vds'[v] = RecorderFields
                               /\ vds'[v].seen \in Blank .. Newest /\ vds'[v].born \in Blank .. Newest
    BY <1>5, <2>1, <2>2
  <2> QED BY <1>1, <1>2, <1>3, <2>3 DEF Recorded, AllEarlier
<1>7. Spare' /\ Fresh'
  BY <1>1, <1>2, <1>3 DEF Recorded, Spare, Fresh
<1>8. Followed'
  <2>1. \A v \in DOMAIN vds : v = NextDisplay => Follows(rm, jobs, copy.no, copy.seen, vds[v].born)
    BY <1>2, <1>5 DEF Recorded, Copied
  <2>2. \A v \in DOMAIN vds : Follows(rm, jobs, vds[v].last, vds[v].seen, vds[v].born)
    BY <1>2 DEF Recorded, Followed
  <2>3. \A v \in DOMAIN vds' : Follows(rm, jobs, vds'[v].last, vds'[v].seen, vds'[v].born)
    BY <1>5, <2>1, <2>2
  <2> QED BY <1>1, <2>3 DEF Followed
<1> QED BY <1>1, <1>2, <1>6, <1>7, <1>8 DEF Recorded, Copied

LEMMA MirrorRecord == WbInv /\ WbInv' /\ RecordInv /\ (PresentsClientTarget \/ CycleEnds) => RecordInv'
<1> SUFFICES ASSUME WbInv, WbInv', RecordInv, PresentsClientTarget \/ CycleEnds PROVE RecordInv'
  OBVIOUS
<1>1. UNCHANGED <<rm, jobs, held, dst, cw, pset, queue, no, vds, shown, past>>
  BY DEF PresentsClientTarget, CycleEnds, wbVars, cwVars
<1>2. copy' = <<>> \/ (copy' = copy /\ todo' = todo)
  BY DEF PresentsClientTarget, CycleEnds
<1> QED BY <1>1, <1>2, RecordElse

(***************************************************************************)
(* The order of the pictures: all the steps.                               *)
(***************************************************************************)
LEMMA RecordInit == Init => RecordInv
<1> SUFFICES ASSUME Init PROVE Recorded
  BY DEF RecordInv
<1>1. /\ rm.drawing = None /\ rm.finish = <<>> /\ rm.buf = <<>> /\ jobs = {} /\ held = None /\ dst = None
      /\ vds = <<>> /\ copy = <<>> /\ cw = "idle" /\ queue = NoComp /\ no = 0 /\ shown.n = Blank
  BY DEF Init, WritebackInit, Screen
<1>2. Newest = -1
  BY <1>1 DEF Newest
<1>3. AllEarlier
  <2>1. DOMAIN rm.buf = {} /\ DOMAIN vds = {} /\ 1 .. Len(rm.finish) = {}
    BY <1>1
  <2>2. Earlier(rm, Newest)
    BY <2>1, Zenon DEF Earlier
  <2>3. shown.n \in Blank .. Newest
    BY <1>1, <1>2 DEF Blank
  <2> QED BY <2>1, <2>2, <2>3, Zenon DEF AllEarlier
<1>4. Spare /\ Fresh /\ Ascending(rm, jobs) /\ Copied
  BY <1>1 DEF Spare, Fresh, Ascending, Copied
<1>5. Followed
  <2>1. DOMAIN vds = {}
    BY <1>1
  <2> QED BY <2>1, Zenon DEF Followed
<1> QED BY <1>3, <1>4, <1>5 DEF Recorded

LEMMA RecordStep == FrontInv /\ WbInv' /\ RecordInv /\ [Next]_vars => RecordInv'
<1> SUFFICES ASSUME WbInv, RangeOf(dm), connected \in BOOLEAN, WbInv', RecordInv, [Next]_vars PROVE RecordInv'
  BY DEF FrontInv
<1> USE DEF sfVars, cwVars, wbVars
<1>1. CASE SetsLayers \/ SetsConfig \/ RequestsMode \/ TellsTimeline
  BY <1>1, RecordElse DEF SetsLayers, SetsConfig, RequestsMode, TellsTimeline, Unswitched
<1>2. CASE UpdatesMode
  <2>1. /\ IF Clears(dm) THEN ClearDisplay ELSE UNCHANGED <<cwVars, lb>>
        /\ UNCHANGED <<wbVars, copy, todo, vds, no>>
    BY <1>2 DEF UpdatesMode
  <2>2. UNCHANGED <<cw, pset, shown>> /\ queue' \in {queue, NoComp}
    BY <2>1 DEF ClearDisplay
  <2>3. past \subseteq past'
    BY <1>2 DEF UpdatesMode, Unswitched
  <2> QED BY <2>1, <2>2, <2>3, RecordElse
<1>3. CASE ValidateDisplay \/ CountsConfigs \/ ReadsConfigs \/ SetsClientTarget
  <2>1. UNCHANGED <<wbVars, cw, pset, shown, copy, todo, vds, no, queue, past>>
    BY <1>3 DEF ValidateDisplay, CountsConfigs, ReadsConfigs, SetsClientTarget
  <2> QED BY <2>1, RecordElse
<1>4. CASE PresentDisplay
  BY <1>4, PresentRecord
<1>5. CASE OutputWBBuffer \/ OutputDone
  BY <1>5, OutputRecord, OutputDoneRecord
<1>6. CASE PresentsClientTarget \/ CycleEnds
  BY <1>6, MirrorRecord
<1>7. CASE CreateVirtualDisplay
  BY <1>7, CreateRecord
<1>8. CASE DestroyVirtualDisplay
  BY <1>8, DestroyRecord
<1>9. CASE Collect \/ CollectSize \/ CollectNext
  BY <1>9, CollectRecord, CollectSizeRecord, CollectNextRecord
<1>10. CASE WriteBackByRGA \/ RgaSwaps
  BY <1>10, WriteBackByRGARecord, RgaSwapsRecord
<1>11. CASE Commits \/ CommitFails \/ CommitTail
  BY <1>11, CommitsRecord, CommitFailsRecord, CommitTailRecord
<1>12. CASE Hardware
  BY <1>12, HardwareRecord
<1>13. CASE Iw \/ Alarm \/ MoveCable
  BY <1>13, RecordElse DEF Iw, Alarm, MoveCable
<1>14. CASE EventThread
  <2>1. UNCHANGED <<wbVars, cw, pset, shown, copy, todo, vds, no, past>> /\ queue' \in {queue, NoComp}
    BY <1>14 DEF EventThread, EventTaken, EventClears, EventReinits, EventConfigures, EventRefreshes, ClearDisplay
  <2> QED BY <2>1, RecordElse
<1>15. CASE UNCHANGED vars
  BY <1>15, RecordElse DEF vars
<1> QED
  BY <1>1, <1>2, <1>3, <1>4, <1>5, <1>6, <1>7, <1>8, <1>9, <1>10, <1>11, <1>12, <1>13, <1>14, <1>15
  DEF Next, SfGoesOn, Compositor

(* Only the end of a copy gives a recorder a picture.                        *)
LEMMA OnlyOutput ==
  ASSUME [Next]_vars, ~OutputDone, NEW v \in DOMAIN vds \cap DOMAIN vds'
  PROVE  vds'[v] = vds[v]
<1> USE DEF sfVars, cwVars
<1>1. CASE CreateVirtualDisplay
  BY <1>1 DEF CreateVirtualDisplay
<1>2. CASE DestroyVirtualDisplay
  BY <1>2 DEF DestroyVirtualDisplay, Restrict
<1>3. CASE ~CreateVirtualDisplay /\ ~DestroyVirtualDisplay
  <2>1. vds' = vds
    BY <1>3 DEF Next, SfGoesOn, Compositor, EventThread, vars, SetsLayers, UpdatesMode, ValidateDisplay, CountsConfigs,
        ReadsConfigs, SetsClientTarget, PresentDisplay, OutputWBBuffer, PresentsClientTarget, CycleEnds,
        SetsConfig, RequestsMode, TellsTimeline, Collect, CollectSize, CollectNext, WriteBackByRGA, RgaSwaps,
        Commits, CommitFails, CommitTail, Iw, Alarm, Hardware, MoveCable,
        EventTaken, EventClears, EventReinits, EventConfigures, EventRefreshes
  <2> QED BY <2>1, ZenonT(30)
<1> QED BY <1>1, <1>2, <1>3

(* A recorder never gets an older picture than it had, nor one older than    *)
(* what the screen showed when it started the recording, whichever finished  *)
(* buffer OutputWBBuffer() gives it and however the ring turns meanwhile;    *)
(* but for a copy of the very buffer that is next, a session made anew or    *)
(* ended during a commit and a change of size.                               *)
THEOREM RecordingOrdered == Spec => RecordedInOrder
<1>1. Init => FrontInv /\ RecordInv
  BY WbInvInit, RangeInit, CableInit, RecordInit DEF FrontInv
<1>2. FrontInv /\ RecordInv /\ [Next]_vars => (FrontInv /\ RecordInv)'
  <2>1. FrontInv /\ [Next]_vars => FrontInv'
    BY WbInvStep, RangeStep, CableStep DEF FrontInv
  <2>2. FrontInv' => WbInv'
    BY DEF FrontInv
  <2> QED BY <2>1, <2>2, RecordStep
<1>3. FrontInv /\ RecordInv /\ [Next]_vars =>
        [\A v \in DOMAIN vds \cap DOMAIN vds' :
           \/ vds'[v].seen = vds[v].seen \/ past \cap {"overrun", "mixed", "cut", "resized"} # {}
           \/ vds'[v].seen >= vds[v].seen /\ vds'[v].seen >= vds'[v].born]_vds
  <2> SUFFICES ASSUME RecordInv, [Next]_vars, past \cap {"overrun", "mixed", "cut", "resized"} = {},
                      NEW v \in DOMAIN vds \cap DOMAIN vds'
               PROVE  \/ vds'[v].seen = vds[v].seen
                      \/ vds'[v].seen >= vds[v].seen /\ vds'[v].seen >= vds'[v].born
    OBVIOUS
  <2>1. Recorded
    BY DEF RecordInv, Faults
  <2>2. CASE ~OutputDone
    BY <2>2, OnlyOutput
  <2>3. CASE OutputDone
    <3>1. /\ copy # <<>> /\ vds'[v].born = vds[v].born
          /\ v = NextDisplay => vds'[v].seen = copy.seen
          /\ v # NextDisplay => vds'[v] = vds[v]
      BY <2>1, <2>3, OutputDoneIs DEF Recorded, AllEarlier
    <3>2. v = NextDisplay => vds[v].seen <= copy.seen /\ vds[v].born <= copy.seen /\ copy.seen \in Int
      BY <2>1, <3>1 DEF Recorded, Copied, Blank
    <3>3. vds[v].seen \in Int /\ vds[v].born \in Int
      BY <2>1 DEF Recorded, AllEarlier, Blank
    <3> QED BY <3>1, <3>2, <3>3
  <2> QED BY <2>2, <2>3
<1> QED BY <1>1, <1>2, <1>3, PTL DEF Spec, RecordedInOrder
=============================================================================
