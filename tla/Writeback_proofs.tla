--------------------------- MODULE Writeback_proofs ---------------------------
(***************************************************************************)
(* Proofs about the recording of the primary display, for any situation to *)
(* start in: the types of the front end, and that the buffers written,     *)
(* drawn, finished and copied are kept apart, in whatever order the three  *)
(* threads and the hardware take their turns.                              *)
(***************************************************************************)
EXTENDS HwcDisplay_proofs, DisplayModes_proofs

BufFields == {"size", "n"}

(* The ring is a sequence of buffers alive, and so is what points into it.   *)
Buffered(r) ==
  /\ DOMAIN r = RmFields
  /\ IsFiniteSet(DOMAIN r.buf) /\ DOMAIN r.buf \subseteq Nat \ {None}
  /\ \A b \in DOMAIN r.buf : DOMAIN r.buf[b] = BufFields /\ r.buf[b].size \in Sizes
  /\ r.max \in {0, RingSize, DefaultRing} /\ Len(r.ring) <= r.max
  /\ r.ring \in Seq(DOMAIN r.buf) /\ IsInjective(r.ring)
  /\ {r.next, r.drawing} \subseteq DOMAIN r.buf \cup {None}
  /\ r.finish \in Seq([no : Nat, buf : DOMAIN r.buf]) /\ Len(r.finish) < RingSize

(* Outside a session nothing is drawn or finished; in one there is a next    *)
(* buffer, of the size that was asked for.                                   *)
Sessioned(r) ==
  /\ r.ref \in Int /\ r.mode \in {"none", "vop", "rga"} /\ r.owner \in {-1, 0}
  /\ r.drawing = None => r.finish = <<>>
  /\ r.ref > 0 => r.next # None
  /\ r.ref <= 0 => r.drawing = None
  /\ r.mode # "none" => r.next # None
  /\ r.next # None => r.max > 0 /\ r.size \in Sizes

(* What the compositor and the hardware still write to is alive.             *)
Kept(r) ==
  /\ {held, dst} \subseteq DOMAIN r.buf \cup {None}
  /\ \A j \in jobs : j.buf \in DOMAIN r.buf /\ j.fence \in DOMAIN r.buf \cup {None}

(* From the end of the ring: the buffer to be written next, the one drawn    *)
(* and the finished ones, newest first; the oldest finished one of a full    *)
(* queue may just have left the ring, or be its last.                        *)
Place(r, i) == Len(r.ring) - 2 - (Len(r.finish) - i)
InTurn(r) ==
  /\ r.next # None => Len(r.ring) > 0 /\ r.next = r.ring[Len(r.ring)]
  /\ r.drawing # None => Len(r.ring) > 1 /\ r.drawing = r.ring[Len(r.ring) - 1] /\ r.next # None
  /\ \A i \in 1 .. Len(r.finish) :
       /\ Place(r, i) >= 0
       /\ Place(r, i) > 0 => r.finish[i].buf = r.ring[Place(r, i)]
       /\ Place(r, i) = 0 =>
            /\ Full(r)
            /\ \A l \in 1 .. Len(r.ring) : l < Len(r.ring) => r.finish[i].buf # r.ring[l]

(***************************************************************************)
(* The functions of DrmBufferQueue.                                        *)
(***************************************************************************)
LEMMA MaxIs == RingSize = 4 /\ DefaultRing = 6 /\ None = 0
  BY DEF RingSize, DefaultRing, None

LEMMA ElementsWithin ==
  ASSUME NEW S, NEW T, NEW q \in Seq(S), \A i \in 1 .. Len(q) : q[i] \in T
  PROVE  q \in Seq(T)
<1>1. Len(q) \in Nat /\ q \in [1 .. Len(q) -> S]
  BY LenProperties
<1>2. q \in [1 .. Len(q) -> T]
  BY <1>1
<1> QED BY <1>1, <1>2, SeqDef

LEMMA NewBufferIsNew ==
  ASSUME NEW r, IsFiniteSet(DOMAIN r.buf)
  PROVE  NewBuffer(r) \in Nat \ {None} /\ NewBuffer(r) \notin DOMAIN r.buf
<1> DEFINE D == DOMAIN r.buf
           m == Cardinality(D) + 1
<1>1. Cardinality(D) \in Nat /\ m \in Nat /\ m > Cardinality(D)
  BY FS_CardinalityType
<1>2. \E b \in 1 .. m : b \notin D
  <2> SUFFICES ASSUME 1 .. m \subseteq D PROVE FALSE
    OBVIOUS
  <2> HIDE DEF m, D
  <2>1. Cardinality(1 .. m) = m
    BY <1>1, FS_Interval
  <2>2. Cardinality(1 .. m) <= Cardinality(D)
    BY FS_Subset DEF D
  <2> QED BY <1>1, <2>1, <2>2
<1>3. NewBuffer(r) = CHOOSE b \in 1 .. m : b \notin D
  BY DEF NewBuffer
<1> HIDE DEF m, D
<1>4. NewBuffer(r) \in 1 .. m /\ NewBuffer(r) \notin D
  BY <1>2, <1>3
<1> QED BY <1>1, <1>4 DEF D, None

(* What is neither pointed at nor written is freed.                          *)
LEMMA FreedIs ==
  ASSUME NEW r, Buffered(r), Kept(r), NEW s, s = Freed(r)
  PROVE  /\ Buffered(s) /\ Kept(s) /\ DOMAIN s.buf \subseteq DOMAIN r.buf
         /\ \A b \in DOMAIN s.buf : s.buf[b] = r.buf[b]
         /\ \A f \in RmFields \ {"buf"} : s[f] = r[f]
<1> DEFINE D == DOMAIN r.buf \cap (PointedAt(r) \cup Written)
           kept == [b \in D |-> r.buf[b]]
<1>1. s = [r EXCEPT !.buf = kept]
  BY DEF Freed, Restrict
<1>2. DOMAIN kept = D /\ \A b \in D : kept[b] = r.buf[b]
  OBVIOUS
<1>3. D \subseteq DOMAIN r.buf
  OBVIOUS
<1> HIDE DEF kept
<1>4. /\ DOMAIN s = RmFields /\ s.buf = kept
      /\ \A f \in RmFields \ {"buf"} : s[f] = r[f]
  BY <1>1 DEF Buffered, RmFields
<1>5. /\ s.next = r.next /\ s.drawing = r.drawing /\ s.ring = r.ring /\ s.finish = r.finish /\ s.max = r.max
  BY <1>4 DEF RmFields
<1>6. \A i \in 1 .. Len(r.ring) : r.ring[i] \in D
  <2>1. r.ring \in Seq(DOMAIN r.buf)
    BY DEF Buffered
  <2> SUFFICES ASSUME NEW i \in 1 .. Len(r.ring) PROVE r.ring[i] \in D
    OBVIOUS
  <2>2. i \in DOMAIN r.ring /\ r.ring[i] \in DOMAIN r.buf
    BY <2>1, ElementOfSeq, LenProperties
  <2>3. r.ring[i] \in Range(r.ring)
    BY <2>2 DEF Range
  <2> QED BY <2>2, <2>3 DEF PointedAt
<1>7. \A i \in 1 .. Len(r.finish) : r.finish[i] \in [no : Nat, buf : D]
  <2>1. r.finish \in Seq([no : Nat, buf : DOMAIN r.buf])
    BY DEF Buffered
  <2> SUFFICES ASSUME NEW i \in 1 .. Len(r.finish) PROVE r.finish[i] \in [no : Nat, buf : D]
    OBVIOUS
  <2>2. i \in DOMAIN r.finish /\ r.finish[i] \in [no : Nat, buf : DOMAIN r.buf]
    BY <2>1, ElementOfSeq, LenProperties
  <2>3. r.finish[i] \in Range(r.finish)
    BY <2>2 DEF Range
  <2>4. r.finish[i].buf \in D
    BY <2>2, <2>3 DEF PointedAt
  <2> HIDE DEF D
  <2> QED BY <2>2, <2>4
<1>8. {r.next, r.drawing, held, dst} \subseteq D \cup {None}
  BY DEF Buffered, Kept, PointedAt
<1>9. \A j \in jobs : j.buf \in D /\ j.fence \in D \cup {None}
  BY DEF Kept, Written
<1> HIDE DEF D
<1>10. r.ring \in Seq(D)
  <2>1. r.ring \in Seq(DOMAIN r.buf)
    BY DEF Buffered
  <2> QED BY <1>6, <2>1, ElementsWithin
<1>11. r.finish \in Seq([no : Nat, buf : D])
  <2> DEFINE S == [no : Nat, buf : DOMAIN r.buf]
             T == [no : Nat, buf : D]
             q == r.finish
  <2>1. q \in Seq(S) /\ \A i \in 1 .. Len(q) : q[i] \in T
    BY <1>7 DEF Buffered
  <2> HIDE DEF S, T, q
  <2>2. q \in Seq(T)
    BY <2>1, ElementsWithin
  <2> QED BY <2>2 DEF T, q
<1>12. IsFiniteSet(D)
  BY <1>3, FS_Subset DEF Buffered
<1>13. Buffered(s)
  BY <1>2, <1>3, <1>4, <1>5, <1>8, <1>10, <1>11, <1>12 DEF Buffered
<1>14. Kept(s)
  BY <1>2, <1>4, <1>8, <1>9 DEF Kept
<1> QED BY <1>2, <1>3, <1>4, <1>13, <1>14

(* A new buffer shows nothing, and the others what they did.                 *)
Unspoilt(r, s) ==
  \A b \in DOMAIN s.buf : IF b \in DOMAIN r.buf THEN s.buf[b] = r.buf[b] ELSE s.buf[b].n = Blank

(* The next buffer takes its place at the end of the ring, from which the    *)
(* oldest has gone if it was full; it is the oldest or a new one.            *)
LEMMA NextBufferIs ==
  ASSUME NEW r, Buffered(r), Kept(r), r.max > 0, NEW z \in Sizes, NEW s, s = NextBuffer(r, z)
  PROVE  /\ Buffered(s) /\ Kept(s) /\ s.next # None /\ s.size = z
         /\ \A f \in RmFields \ {"next", "size", "ring", "buf"} : s[f] = r[f]
         /\ s.ring = Append(IF Full(r) THEN Tail(r.ring) ELSE r.ring, s.next)
         /\ s.next \notin DOMAIN r.buf \/ (Reuses(r, z) /\ s.next = Head(r.ring))
         /\ Unspoilt(r, s)
<1> DEFINE b == IF Reuses(r, z) THEN Head(r.ring) ELSE NewBuffer(r)
           old == IF Full(r) THEN Tail(r.ring) ELSE r.ring
           ring == Append(old, b)
           buf == IF Reuses(r, z) THEN r.buf ELSE WithBuffer(r, b, z)
           e == [r EXCEPT !.next = b, !.size = z, !.ring = ring, !.buf = buf]
           D == DOMAIN r.buf
<1>1. s = Freed(e)
  BY DEF NextBuffer
<1>2. /\ r.ring \in Seq(D) /\ Len(r.ring) \in Nat /\ Len(r.ring) <= r.max /\ r.max \in {RingSize, DefaultRing}
      /\ IsInjective(r.ring) /\ DOMAIN r.ring = 1 .. Len(r.ring)
  BY LenProperties, MaxIs DEF Buffered
<1>3. Full(r) => r.ring # <<>>
  BY <1>2, MaxIs DEF Full
<1>4. Reuses(r, z) => Full(r)
  BY DEF Reuses
<1>5. /\ b \in Nat \ {None}
      /\ b \in D <=> Reuses(r, z)
  <2>1. CASE Reuses(r, z)
    <3>1. Head(r.ring) \in D
      BY <1>2, <1>3, <1>4, <2>1, HeadTailProperties
    <3> QED BY <2>1, <3>1 DEF Buffered
  <2>2. CASE ~Reuses(r, z)
    BY <2>2, NewBufferIsNew DEF Buffered
  <2> QED BY <2>1, <2>2
<1>6. /\ old \in Seq(D) /\ Len(old) < r.max
      /\ \A i \in 1 .. Len(old) : old[i] = r.ring[IF Full(r) THEN i + 1 ELSE i]
      /\ Len(old) = IF Full(r) THEN Len(r.ring) - 1 ELSE Len(r.ring)
  <2>1. CASE Full(r)
    <3>1. /\ Tail(r.ring) \in Seq(D) /\ Len(Tail(r.ring)) = Len(r.ring) - 1
          /\ \A i \in 1 .. Len(Tail(r.ring)) : Tail(r.ring)[i] = r.ring[i + 1]
      BY <1>2, <1>3, <2>1, HeadTailProperties
    <3>2. old = Tail(r.ring)
      BY <2>1
    <3> HIDE DEF old, D
    <3> QED BY <1>2, <2>1, <3>1, <3>2, MaxIs
  <2>2. CASE ~Full(r)
    <3>1. old = r.ring
      BY <2>2
    <3> HIDE DEF old, D
    <3> QED BY <1>2, <2>2, <3>1, MaxIs DEF Full
  <2> QED BY <2>1, <2>2
<1>7. Reuses(r, z) => \A i \in 1 .. Len(old) : old[i] # b
  <2> SUFFICES ASSUME Reuses(r, z), NEW i \in 1 .. Len(old) PROVE old[i] # b
    OBVIOUS
  <2> HIDE DEF old
  <2>1. b = r.ring[1] /\ old[i] = r.ring[i + 1] /\ i + 1 \in DOMAIN r.ring /\ 1 \in DOMAIN r.ring /\ i + 1 # 1
    BY <1>2, <1>3, <1>4, <1>6
  <2> QED BY <1>2, <2>1 DEF IsInjective
<1>8. /\ DOMAIN buf = D \cup {b}
      /\ \A x \in D : buf[x] = r.buf[x]
      /\ ~Reuses(r, z) => buf[b] = [size |-> z, n |-> Blank]
  BY <1>5 DEF WithBuffer
<1> DEFINE B == D \cup {b}
<1> HIDE DEF b, old, buf, D
<1>9. /\ ring \in Seq(B) /\ Len(ring) = Len(old) + 1 /\ Len(old) \in Nat
      /\ \A i \in 1 .. Len(old) : ring[i] = old[i]
      /\ ring[Len(old) + 1] = b
  <2>1. old \in Seq(B) /\ b \in B
    BY <1>6, SeqMonotonic
  <2> HIDE DEF B
  <2> QED BY <2>1
<1>10. IsInjective(ring)
  <2> SUFFICES ASSUME NEW i \in DOMAIN ring, NEW j \in DOMAIN ring, ring[i] = ring[j], i # j PROVE FALSE
    BY DEF IsInjective
  <2>1. DOMAIN ring = 1 .. Len(old) + 1 /\ Len(old) \in Nat
    BY <1>9, LenProperties
  <2> HIDE DEF ring
  <2>2. CASE i \in 1 .. Len(old) /\ j \in 1 .. Len(old)
    <3>1. old[i] = old[j]
      BY <1>9, <2>2
    <3> DEFINE k == IF Full(r) THEN i + 1 ELSE i
               l == IF Full(r) THEN j + 1 ELSE j
    <3>2. k \in DOMAIN r.ring /\ l \in DOMAIN r.ring /\ k # l
      <4>1. CASE Full(r)
        BY <1>2, <1>6, <2>2, <4>1, SMTT(30)
      <4>2. CASE ~Full(r)
        BY <1>2, <1>6, <2>2, <4>2
      <4> QED BY <4>1, <4>2
    <3>3. r.ring[k] = old[i] /\ r.ring[l] = old[j]
      BY <1>6, <2>2
    <3> HIDE DEF k, l
    <3> QED BY <1>2, <3>1, <3>2, <3>3 DEF IsInjective
  <2>3. \A k \in 1 .. Len(old) : old[k] # b
    <3>1. \A k \in 1 .. Len(old) : old[k] \in D
      BY <1>6, ElementOfSeq
    <3> QED BY <1>5, <1>7, <3>1
  <2> QED BY <1>9, <2>1, <2>2, <2>3
<1>11. /\ DOMAIN e = RmFields /\ e.next = b /\ e.size = z /\ e.ring = ring /\ e.buf = buf
       /\ \A f \in RmFields \ {"next", "size", "ring", "buf"} : e[f] = r[f]
  <2>1. DOMAIN r = RmFields
    BY DEF Buffered
  <2> HIDE DEF ring
  <2> QED BY <2>1 DEF RmFields
<1> HIDE DEF e, ring
<1>12. e.drawing = r.drawing /\ e.finish = r.finish /\ e.max = r.max
  BY <1>11 DEF RmFields
<1>13. Buffered(e)
  <2>1. IsFiniteSet(B) /\ B \subseteq Nat \ {None}
    BY <1>5, FS_AddElement DEF Buffered, B, D
  <2>2. \A x \in B : DOMAIN buf[x] = BufFields /\ buf[x].size \in Sizes
    <3>1. \A x \in D : DOMAIN r.buf[x] = BufFields /\ r.buf[x].size \in Sizes
      BY DEF Buffered, D
    <3>2. CASE Reuses(r, z)
      BY <1>5, <1>8, <3>1, <3>2 DEF B
    <3>3. CASE ~Reuses(r, z)
      BY <1>5, <1>8, <3>1, <3>3 DEF B, BufFields
    <3> QED BY <3>2, <3>3
  <2>3. e.finish \in Seq([no : Nat, buf : B])
    <3> DEFINE S == [no : Nat, buf : D]
               T == [no : Nat, buf : B]
               q == r.finish
    <3>1. q \in Seq(S) /\ S \subseteq T
      BY DEF Buffered, B, D
    <3> HIDE DEF S, T
    <3>2. q \in Seq(T)
      BY <3>1, SeqMonotonic
    <3> QED BY <1>12, <3>2 DEF T
  <2>4. {b, r.drawing} \subseteq B \cup {None}
    BY DEF Buffered, B, D
  <2>5. Len(ring) <= r.max
    BY <1>2, <1>6, <1>9, MaxIs
  <2>6. Len(r.finish) < RingSize /\ r.max \in {0, RingSize, DefaultRing}
    BY DEF Buffered
  <2>7. DOMAIN e.buf = B
    BY <1>8, <1>11 DEF B
  <2> HIDE DEF B
  <2> QED BY <1>9, <1>10, <1>11, <1>12, <2>1, <2>2, <2>3, <2>4, <2>5, <2>6, <2>7 DEF Buffered
<1>14. Kept(e)
  BY <1>8, <1>11 DEF Kept, D
<1>15. /\ Buffered(s) /\ Kept(s)
       /\ \A f \in RmFields \ {"buf"} : s[f] = e[f]
  BY <1>1, <1>13, <1>14, FreedIs
<1>16. s.next = b /\ s.size = z /\ s.ring = ring /\ b # None
  BY <1>5, <1>11, <1>15 DEF RmFields
<1>17. \A f \in RmFields \ {"next", "size", "ring", "buf"} : s[f] = r[f]
  BY <1>11, <1>15
<1>18. b \notin D \/ (Reuses(r, z) /\ b = Head(r.ring))
  BY <1>5 DEF b
<1>19. Unspoilt(r, s)
  <2>1. /\ DOMAIN s.buf \subseteq DOMAIN e.buf
        /\ \A x \in DOMAIN s.buf : s.buf[x] = e.buf[x]
    BY <1>1, <1>13, <1>14, FreedIs
  <2> SUFFICES ASSUME NEW x \in DOMAIN s.buf PROVE IF x \in D THEN s.buf[x] = r.buf[x] ELSE s.buf[x].n = Blank
    BY DEF Unspoilt, D
  <2>2. s.buf[x] = buf[x] /\ x \in D \cup {b}
    BY <1>8, <1>11, <2>1
  <2>3. CASE x \in D
    BY <1>8, <2>2, <2>3
  <2>4. CASE x \notin D
    <3>1. x = b /\ ~Reuses(r, z)
      BY <1>5, <2>2, <2>4
    <3> QED BY <1>8, <2>2, <2>4, <3>1
  <2> QED BY <2>3, <2>4
<1> QED BY <1>15, <1>16, <1>17, <1>18, <1>19 DEF ring, old, D

(***************************************************************************)
(* SwapWBBuffer().                                                         *)
(***************************************************************************)

(* The finished buffers after one more; of four the oldest is dropped.       *)
LEMMA OneMoreFinished ==
  ASSUME NEW S, NEW f \in Seq(S), Len(f) < RingSize, NEW x \in S, NEW g, g = KeepFinished(Append(f, x))
  PROVE  /\ g \in Seq(S)
         /\ Len(f) = 3 => /\ Len(g) = 3 /\ g[3] = x
                          /\ \A i \in 1 .. 2 : g[i] = f[i + 1]
         /\ Len(f) # 3 => /\ Len(g) = Len(f) + 1 /\ g[Len(f) + 1] = x
                          /\ \A i \in 1 .. Len(f) : g[i] = f[i]
<1> DEFINE a == Append(f, x)
           k == Len(f)
           m == Len(a)
<1>1. /\ a \in Seq(S) /\ m = k + 1 /\ k \in Nat /\ k < 4
      /\ a[k + 1] = x /\ \A i \in 1 .. k : a[i] = f[i]
  BY MaxIs, LenProperties
<1>2. g = IF m > 3 THEN Tail(a) ELSE a
  BY MaxIs DEF KeepFinished
<1>3. /\ Tail(a) \in Seq(S) /\ Len(Tail(a)) = m - 1
      /\ \A i \in 1 .. Len(Tail(a)) : Tail(a)[i] = a[i + 1]
  <2>1. a # <<>> /\ a \in Seq(S)
    BY <1>1, EmptySeq
  <2> QED BY <2>1, HeadTailProperties, Zenon
<1>4. Len(a) = m
  OBVIOUS
<1> HIDE DEF a, k, m
<1>5. CASE k = 3
  <2>1. m = 4 /\ m > 3
    BY <1>1, <1>5
  <2>2. g \in Seq(S) /\ Len(g) = m - 1 /\ \A i \in 1 .. Len(g) : g[i] = a[i + 1]
    BY <1>2, <1>3, <2>1, Zenon
  <2>3. Len(g) = 3 /\ g[3] = x /\ \A i \in 1 .. 2 : g[i] = f[i + 1]
    BY <1>1, <1>5, <2>1, <2>2
  <2> QED BY <1>5, <2>2, <2>3 DEF k
<1>6. CASE k # 3
  <2>1. ~(m > 3)
    BY <1>1, <1>6
  <2>2. g = a
    BY <1>2, <2>1, Zenon
  <2> QED BY <1>1, <1>4, <1>6, <2>2 DEF k
<1> QED BY <1>5, <1>6

(* What SwapWBBuffer() does in a session.                                    *)
Finished(r, n) ==
  IF r.drawing = None THEN r.finish ELSE KeepFinished(Append(r.finish, [no |-> n, buf |-> r.drawing]))

LEMMA SwapIs ==
  ASSUME NEW r, Buffered(r), Kept(r), Sessioned(r), r.ref > 0, NEW n \in Nat, NEW s, s = SwapWBBuffer(r, n)
  PROVE  /\ Buffered(s) /\ Kept(s) /\ Sessioned(s) /\ s.next # None /\ s.drawing = r.next
         /\ s.ref = r.ref /\ s.mode = r.mode /\ s.max = r.max
         /\ s.finish = Finished(r, n) /\ Unspoilt(r, s)
         /\ s.ring = Append(IF Full(r) THEN Tail(r.ring) ELSE r.ring, s.next)
         /\ s.next \notin DOMAIN r.buf \/ (Reuses(r, r.size) /\ s.next = Head(r.ring))
<1> DEFINE done == Finished(r, n)
           e == [r EXCEPT !.finish = done, !.drawing = r.next]
           z == r.size
           S == [no : Nat, buf : DOMAIN r.buf]
<1>1. DOMAIN r = RmFields
  BY DEF Buffered
<1>2. s = NextBuffer(e, z)
  BY DEF SwapWBBuffer, Finished, isWBMode
<1>3. r.next # None /\ r.max > 0 /\ z \in Sizes
  BY DEF Sessioned
<1>4. done \in Seq(S) /\ Len(done) < RingSize
  <2>1. r.finish \in Seq(S) /\ Len(r.finish) < RingSize
    BY DEF Buffered
  <2>2. CASE r.drawing = None
    BY <2>1, <2>2 DEF Finished
  <2>3. CASE r.drawing # None
    <3> DEFINE x == [no |-> n, buf |-> r.drawing]
               f == r.finish
    <3>1. x \in S
      BY <2>3 DEF Buffered
    <3>2. done = KeepFinished(Append(f, x)) /\ f \in Seq(S) /\ Len(f) < RingSize /\ Len(f) \in Nat
      BY <2>1, <2>3, LenProperties DEF Finished
    <3> HIDE DEF S, x, f, done
    <3>3. /\ done \in Seq(S)
          /\ Len(f) = 3 => Len(done) = 3
          /\ Len(f) # 3 => Len(done) = Len(f) + 1
      BY <3>1, <3>2, OneMoreFinished
    <3> DEFINE k == Len(f)
               m == Len(done)
    <3>4. k \in Nat /\ k < 4 /\ (k = 3 => m = 3) /\ (k # 3 => m = k + 1)
      BY <3>2, <3>3, MaxIs
    <3>5. m < 4 <=> Len(done) < RingSize
      BY MaxIs
    <3> HIDE DEF k, m
    <3> QED BY <3>3, <3>4, <3>5
  <2> QED BY <2>2, <2>3
<1> HIDE DEF done, z
<1>5. /\ DOMAIN e = RmFields /\ e.finish = done /\ e.drawing = r.next
      /\ \A f \in RmFields \ {"finish", "drawing"} : e[f] = r[f]
  BY <1>1 DEF RmFields
<1> HIDE DEF e
<1>6. /\ e.buf = r.buf /\ e.ring = r.ring /\ e.max = r.max /\ e.next = r.next
      /\ e.ref = r.ref /\ e.mode = r.mode /\ e.owner = r.owner
  BY <1>5 DEF RmFields
<1>7. Buffered(e)
  BY <1>3, <1>4, <1>5, <1>6 DEF Buffered
<1>8. Kept(e)
  BY <1>6 DEF Kept
<1>9. /\ Buffered(s) /\ Kept(s) /\ s.next # None /\ s.size = z
      /\ \A f \in RmFields \ {"next", "size", "ring", "buf"} : s[f] = e[f]
      /\ s.ring = Append(IF Full(e) THEN Tail(e.ring) ELSE e.ring, s.next)
      /\ s.next \notin DOMAIN e.buf \/ (Reuses(e, z) /\ s.next = Head(e.ring))
      /\ Unspoilt(e, s)
  BY <1>2, <1>3, <1>6, <1>7, <1>8, NextBufferIs, SMTT(30)
<1>10. /\ s.ref = r.ref /\ s.mode = r.mode /\ s.owner = r.owner /\ s.max = r.max
       /\ s.drawing = r.next /\ s.finish = done
  BY <1>5, <1>6, <1>9 DEF RmFields
<1>11. (Full(e) <=> Full(r)) /\ (Reuses(e, z) <=> Reuses(r, z))
  BY <1>6 DEF Full, Reuses
<1>12. Sessioned(s)
  BY <1>3, <1>9, <1>10 DEF Sessioned
<1>13. Unspoilt(r, s)
  BY <1>6, <1>9 DEF Unspoilt
<1> QED BY <1>6, <1>9, <1>10, <1>11, <1>12, <1>13 DEF done, z

(* One more at the end of a ring, from which the oldest has gone if it was   *)
(* full.                                                                     *)
LEMMA OneMoreInRing ==
  ASSUME NEW S, NEW q \in Seq(S), NEW b, NEW full \in BOOLEAN, full => Len(q) > 0,
         NEW g, g = Append(IF full THEN Tail(q) ELSE q, b)
  PROVE  /\ Len(q) \in Nat /\ Len(g) = IF full THEN Len(q) ELSE Len(q) + 1
         /\ \A i \in 1 .. Len(q) : i < Len(q) /\ full => g[i] = q[i + 1]
         /\ \A i \in 1 .. Len(q) : ~full => g[i] = q[i]
         /\ g[Len(g)] = b
<1> DEFINE T == S \cup {b}
           t == Tail(q)
           L == Len(q)
<1>1. q \in Seq(T) /\ b \in T /\ L \in Nat
  BY SeqMonotonic
<1> HIDE DEF T
<1>2. full => t \in Seq(T) /\ Len(t) = L - 1 /\ \A i \in 1 .. L - 1 : t[i] = q[i + 1]
  <2> SUFFICES ASSUME full PROVE t \in Seq(T) /\ Len(t) = L - 1 /\ \A i \in 1 .. L - 1 : t[i] = q[i + 1]
    OBVIOUS
  <2>1. q # <<>>
    OBVIOUS
  <2> QED BY <1>1, <2>1, HeadTailProperties
<1> HIDE DEF t
<1>3. CASE full
  <2>1. g = Append(t, b)
    BY <1>3, Zenon DEF t
  <2> DEFINE m == Len(t)
  <2>2. Len(g) = m + 1 /\ g[m + 1] = b /\ \A i \in 1 .. m : g[i] = t[i]
    BY <1>1, <1>2, <1>3, <2>1
  <2>3. m = L - 1 /\ L > 0
    BY <1>2, <1>3
  <2> HIDE DEF m, L
  <2>4. Len(g) = L /\ g[Len(g)] = b
    BY <1>1, <2>2, <2>3
  <2>5. \A i \in 1 .. L : i < L => g[i] = q[i + 1]
    BY <1>1, <1>2, <1>3, <2>2, <2>3
  <2> QED BY <1>1, <1>3, <2>4, <2>5 DEF L
<1>4. CASE ~full
  <2>1. g = Append(q, b)
    BY <1>4, Zenon
  <2> QED BY <1>1, <1>4, <2>1
<1> QED BY <1>3, <1>4

(* After a swap the ring's end is in turn again, and what was just written   *)
(* is not written next.                                                      *)
LEMMA SwapTurns ==
  ASSUME NEW r, Buffered(r), Kept(r), Sessioned(r), InTurn(r), r.ref > 0, NEW n \in Nat, NEW s, s = SwapWBBuffer(r, n)
  PROVE  InTurn(s) /\ s.next # r.next
<1> DEFINE R == r.ring
           L == Len(R)
           f == r.finish
           k == Len(f)
           g == s.finish
           m == Len(g)
           Q == s.ring
           M == Len(Q)
           S == DOMAIN r.buf
           x == [no |-> n, buf |-> r.drawing]
           T == [no : Nat, buf : DOMAIN r.buf]
<1>1. /\ s.next # None /\ s.drawing = r.next /\ s.max = r.max /\ g = Finished(r, n)
      /\ Q = Append(IF Full(r) THEN Tail(R) ELSE R, s.next)
      /\ s.next \notin DOMAIN r.buf \/ (Reuses(r, r.size) /\ s.next = Head(R))
  BY SwapIs
<1>2. r.next # None /\ r.max \in {4, 6} /\ L > 0 /\ r.next = R[L] /\ r.next \in S
  BY MaxIs DEF Buffered, Sessioned, InTurn
<1>3. k < 4 /\ k \in Nat /\ L \in Nat
  BY MaxIs, LenProperties DEF Buffered
<1>20. R \in Seq(S) /\ IsInjective(R) /\ f \in Seq(T) /\ Len(f) < RingSize
  BY DEF Buffered
<1>21. s.next # None /\ s.drawing = r.next /\ s.max = r.max
  BY <1>1
<1>4. \A i, j \in 1 .. L : R[i] = R[j] => i = j
  <2>1. DOMAIN R = 1 .. L
    BY <1>20, LenProperties
  <2> HIDE DEF R, L
  <2> QED BY <1>20, <2>1 DEF IsInjective
<1>5. Full(r) => L >= 4 /\ L = r.max
  BY <1>2 DEF Full
<1>6. Full(r) \in BOOLEAN
  BY DEF Full
<1>7. /\ M = IF Full(r) THEN L ELSE L + 1
      /\ \A i \in 1 .. L : i < L /\ Full(r) => Q[i] = R[i + 1]
      /\ \A i \in 1 .. L : ~Full(r) => Q[i] = R[i]
      /\ Q[M] = s.next
  <2>1. Full(r) => Len(R) > 0
    BY <1>5
  <2> HIDE DEF S, R, Q
  <2> QED BY <1>1, <1>20, <1>6, <2>1, OneMoreInRing
<1>8. Reuses(r, r.size) => Full(r) /\ Head(R) = R[1]
  <2>1. R # <<>>
    BY <1>2
  <2> QED BY <1>20, <2>1, HeadTailProperties DEF Reuses
<1>9. s.next # r.next
  <2>1. s.next \notin S \/ (Full(r) /\ s.next = R[1])
    BY <1>1, <1>8, Zenon DEF S
  <2> HIDE DEF R, L, S
  <2>2. CASE s.next \notin S
    BY <1>2, <2>2
  <2>3. CASE Full(r) /\ s.next = R[1]
    <3>1. 1 \in 1 .. L /\ L \in 1 .. L /\ L # 1
      BY <1>3, <1>5, <2>3
    <3>2. R[1] # R[L]
      BY <1>4, <3>1
    <3> QED BY <1>2, <2>3, <3>2
  <2> QED BY <2>1, <2>2, <2>3
<1>10. /\ r.drawing = None => k = 0 /\ m = 0
       /\ r.drawing # None =>
            /\ k = 3 => m = 3 /\ g[3] = x /\ \A i \in 1 .. 2 : g[i] = f[i + 1]
            /\ k # 3 => m = k + 1 /\ g[k + 1] = x /\ \A i \in 1 .. k : g[i] = f[i]
  <2>1. CASE r.drawing = None
    BY <1>1, <2>1 DEF Finished, Sessioned
  <2>2. CASE r.drawing # None
    <3>1. g = KeepFinished(Append(f, x)) /\ x \in T
      BY <1>1, <2>2 DEF Finished, Buffered
    <3>3. f \in Seq(T) /\ Len(f) < RingSize
      BY <1>20
    <3> HIDE DEF g, f, x, T
    <3>2. /\ Len(f) = 3 => Len(g) = 3 /\ g[3] = x /\ \A i \in 1 .. 2 : g[i] = f[i + 1]
          /\ Len(f) # 3 => Len(g) = Len(f) + 1 /\ g[Len(f) + 1] = x /\ \A i \in 1 .. Len(f) : g[i] = f[i]
      BY <3>1, <3>3, OneMoreFinished
    <3> QED BY <2>2, <3>2, Zenon
  <2> QED BY <2>1, <2>2
<1>11. x.buf = r.drawing /\ (r.drawing # None => L > 1 /\ r.drawing = R[L - 1])
  BY DEF InTurn
<1> DEFINE place == [i \in 1 .. k |-> L - 2 - (k - i)]
           old == [i \in 1 .. k |-> f[i].buf]
           new == [j \in 1 .. m |-> g[j].buf]
<1>12. \A i \in 1 .. k : /\ place[i] = L - 2 - (k - i) /\ place[i] >= 0
                         /\ place[i] > 0 => old[i] = R[place[i]]
                         /\ place[i] = 0 => Full(r)
  BY DEF InTurn, Place
<1>13. /\ \A i \in 1 .. k : old[i] = f[i].buf
       /\ \A j \in 1 .. m : new[j] = g[j].buf
  OBVIOUS
<1>14. m \in Nat /\ M \in Nat
  BY <1>3, <1>7, <1>10
<1> HIDE DEF R, L, f, k, g, m, Q, M, S, x, T, place, old, new
<1>15. ASSUME NEW j \in 1 .. m, NEW p, p = M - 2 - (m - j)
       PROVE  /\ p >= 0
              /\ p > 0 => new[j] = Q[p]
              /\ p = 0 => Full(r) /\ \A l \in 1 .. M : l < M => new[j] # Q[l]
  <2>1. r.drawing # None
    BY <1>10
  <2>2. m = IF k = 3 THEN 3 ELSE k + 1
    BY <1>10, <2>1
  <2>3. CASE j = m
    <3>1. new[j] = R[L - 1]
      BY <1>3, <1>10, <1>11, <1>13, <2>1, <2>3
    <3>2. p = M - 2
      BY <1>14, <1>15, <2>3
    <3>3. CASE Full(r)
      BY <1>3, <1>5, <1>7, <1>11, <2>1, <3>1, <3>2, <3>3
    <3>4. CASE ~Full(r)
      BY <1>3, <1>7, <1>11, <2>1, <3>1, <3>2, <3>4
    <3> QED BY <3>3, <3>4
  <2>4. CASE j # m
    <3> DEFINE i == IF k = 3 THEN j + 1 ELSE j
    <3>1. i \in 1 .. k /\ m - j = k - i + 1 /\ g[j] = f[i]
      BY <1>3, <1>10, <1>15, <2>1, <2>2, <2>4
    <3>2. k - i <= 1
      BY <1>3, <2>2, <3>1
    <3> HIDE DEF i
    <3>3. new[j] = old[i]
      BY <1>13, <3>1
    <3>4. CASE Full(r)
      <4>1. place[i] \in Int /\ place[i] > 0 /\ place[i] <= L - 2 /\ p = place[i] - 1
        <5>1. M = L /\ L >= 4
          BY <1>5, <1>7, <3>4
        <5>2. place[i] = L - 2 - (k - i) /\ i \in Nat
          BY <1>12, <3>1
        <5>3. m - j = k - i + 1 /\ k - i >= 0
          BY <1>3, <3>1
        <5> QED BY <1>3, <1>14, <1>15, <3>2, <5>1, <5>2, <5>3
      <4>2. new[j] = R[place[i]]
        BY <1>12, <3>1, <3>3, <4>1
      <4>3. p > 0 => new[j] = Q[p]
        BY <1>3, <1>7, <3>4, <4>1, <4>2
      <4>4. p = 0 => \A l \in 1 .. M : l < M => new[j] # Q[l]
        <5> SUFFICES ASSUME p = 0, NEW l \in 1 .. M, l < M PROVE new[j] # Q[l]
          OBVIOUS
        <5>1. Q[l] = R[l + 1] /\ l + 1 \in 1 .. L /\ 1 \in 1 .. L /\ l + 1 # 1
          BY <1>3, <1>7, <3>4
        <5>2. new[j] = R[1]
          BY <1>3, <4>1, <4>2
        <5> QED BY <1>4, <5>1, <5>2
      <4>5. p >= 0
        BY <1>3, <4>1, <1>12, <3>1
      <4> QED BY <3>4, <4>3, <4>4, <4>5
    <3>5. CASE ~Full(r)
      <4>1. place[i] \in Int /\ place[i] > 0 /\ place[i] <= L - 2 /\ p = place[i]
        BY <1>3, <1>7, <1>12, <1>15, <3>1, <3>5
      <4>2. new[j] = R[place[i]]
        BY <1>12, <3>1, <3>3, <4>1
      <4> QED BY <1>3, <1>7, <3>5, <4>1, <4>2
    <3> QED BY <3>4, <3>5
  <2> QED BY <2>3, <2>4
<1>16. M > 1 /\ s.next = Q[M] /\ s.drawing = Q[M - 1]
  <2>1. CASE Full(r)
    BY <1>2, <1>3, <1>5, <1>7, <1>21, <2>1
  <2>2. CASE ~Full(r)
    BY <1>2, <1>3, <1>7, <1>21, <2>2
  <2> QED BY <2>1, <2>2
<1>17. Full(r) => Full(s)
  BY <1>5, <1>7, <1>21 DEF Full, Q, M
<1>18. InTurn(s)
  <2>1. ASSUME NEW j \in 1 .. Len(s.finish)
        PROVE  /\ Place(s, j) >= 0
               /\ Place(s, j) > 0 => s.finish[j].buf = s.ring[Place(s, j)]
               /\ Place(s, j) = 0 =>
                    /\ Full(s)
                    /\ \A l \in 1 .. Len(s.ring) : l < Len(s.ring) => s.finish[j].buf # s.ring[l]
    <3>1. Place(s, j) = M - 2 - (m - j) /\ j \in 1 .. m
      BY <2>1 DEF Place, M, m, Q, g
    <3>2. s.finish[j].buf = new[j]
      BY <1>13, <3>1 DEF g
    <3> DEFINE p == Place(s, j)
    <3> HIDE DEF p
    <3>3. p = M - 2 - (m - j)
      BY <3>1 DEF p
    <3>4. /\ p >= 0
          /\ p > 0 => new[j] = Q[p]
          /\ p = 0 => Full(r) /\ \A l \in 1 .. M : l < M => new[j] # Q[l]
      BY <1>15, <3>1, <3>3
    <3> QED BY <1>17, <3>2, <3>4 DEF p, Q, M
  <2>2. /\ s.next # None => Len(s.ring) > 0 /\ s.next = s.ring[Len(s.ring)]
        /\ s.drawing # None => Len(s.ring) > 1 /\ s.drawing = s.ring[Len(s.ring) - 1] /\ s.next # None
    <3>1. Len(s.ring) > 0 /\ s.next = s.ring[Len(s.ring)] /\ Len(s.ring) > 1 /\ s.drawing = s.ring[Len(s.ring) - 1]
      BY <1>14, <1>16 DEF Q, M
    <3> QED BY <1>21, <3>1, Zenon
  <2> QED BY <2>1, <2>2, Zenon DEF InTurn
<1> QED BY <1>9, <1>18

(***************************************************************************)
(* The other functions of ResourceManager.                                 *)
(***************************************************************************)
LEMMA TurnsSame ==
  ASSUME NEW r, NEW s, InTurn(r), s.next = r.next, s.drawing = r.drawing, s.ring = r.ring,
         s.finish = r.finish, s.max = r.max
  PROVE  InTurn(s)
<1>1. \A i \in 1 .. Len(r.finish) : Place(s, i) = Place(r, i)
  BY DEF Place
<1>2. Full(s) <=> Full(r)
  BY DEF Full
<1> DEFINE R == r.ring
           q == r.finish
<1>3. /\ r.next # None => Len(R) > 0 /\ r.next = R[Len(R)]
      /\ r.drawing # None => Len(R) > 1 /\ r.drawing = R[Len(R) - 1] /\ r.next # None
  BY DEF InTurn
<1>4. \A i \in 1 .. Len(q) :
        /\ Place(r, i) >= 0
        /\ Place(r, i) > 0 => q[i].buf = R[Place(r, i)]
        /\ Place(r, i) = 0 => Full(r) /\ \A l \in 1 .. Len(R) : l < Len(R) => q[i].buf # R[l]
  BY DEF InTurn
<1>5. s.ring = R /\ s.finish = q
  OBVIOUS
<1> HIDE DEF R, q
<1>6. /\ s.next # None => Len(s.ring) > 0 /\ s.next = s.ring[Len(s.ring)]
      /\ s.drawing # None => Len(s.ring) > 1 /\ s.drawing = s.ring[Len(s.ring) - 1] /\ s.next # None
  BY <1>3, <1>5
<1>7. \A i \in 1 .. Len(s.finish) :
        /\ Place(s, i) >= 0
        /\ Place(s, i) > 0 => s.finish[i].buf = s.ring[Place(s, i)]
        /\ Place(s, i) = 0 => Full(s) /\ \A l \in 1 .. Len(s.ring) : l < Len(s.ring) => s.finish[i].buf # s.ring[l]
  BY <1>1, <1>2, <1>4, <1>5
<1> QED BY <1>6, <1>7, Zenon DEF InTurn

LEMMA BufferedSame ==
  ASSUME NEW r, Buffered(r), NEW s, DOMAIN s = RmFields, s.next = r.next, s.drawing = r.drawing, s.ring = r.ring,
         s.finish = r.finish, s.max = r.max, s.buf = r.buf
  PROVE  Buffered(s)
<1> DEFINE S == [no : Nat, buf : DOMAIN r.buf]
<1>1. r.finish \in Seq(S) /\ Len(r.finish) < RingSize /\ r.ring \in Seq(DOMAIN r.buf)
  BY DEF Buffered
<1>2. s.finish \in Seq([no : Nat, buf : DOMAIN s.buf]) /\ Len(s.finish) < RingSize /\ s.ring \in Seq(DOMAIN s.buf)
  <2> HIDE DEF S
  <2>1. s.finish \in Seq(S) /\ Len(s.finish) < RingSize /\ s.ring \in Seq(DOMAIN s.buf)
    BY <1>1, Zenon
  <2>2. S = [no : Nat, buf : DOMAIN s.buf]
    BY Zenon DEF S
  <2> QED BY <2>1, <2>2, Zenon
<1>3. /\ IsFiniteSet(DOMAIN s.buf) /\ DOMAIN s.buf \subseteq Nat \ {None}
      /\ \A b \in DOMAIN s.buf : DOMAIN s.buf[b] = BufFields /\ s.buf[b].size \in Sizes
      /\ s.max \in {0, RingSize, DefaultRing} /\ Len(s.ring) <= s.max
      /\ IsInjective(s.ring) /\ {s.next, s.drawing} \subseteq DOMAIN s.buf \cup {None}
  BY Zenon DEF Buffered
<1> QED BY <1>2, <1>3, Zenon DEF Buffered

(* A picture is drawn into a buffer that is alive.                           *)
LEMMA WrittenIs ==
  ASSUME NEW r, Buffered(r), Kept(r), Sessioned(r), NEW b \in DOMAIN r.buf, NEW n, NEW s, s = [r EXCEPT !.buf[b].n = n]
  PROVE  /\ Buffered(s) /\ Kept(s) /\ Sessioned(s) /\ (InTurn(r) => InTurn(s))
         /\ s.next = r.next /\ s.drawing = r.drawing /\ s.finish = r.finish /\ s.ring = r.ring
         /\ s.ref = r.ref /\ s.mode = r.mode /\ s.owner = r.owner
         /\ DOMAIN s.buf = DOMAIN r.buf /\ s.buf[b].n = n
         /\ \A x \in DOMAIN s.buf : x # b => s.buf[x] = r.buf[x]
<1> DEFINE B == [r.buf EXCEPT ![b].n = n]
<1>1. DOMAIN r = RmFields
  BY DEF Buffered
<1>2. s.buf = B /\ DOMAIN s = RmFields /\ \A f \in RmFields \ {"buf"} : s[f] = r[f]
  BY <1>1 DEF RmFields
<1>3. DOMAIN B = DOMAIN r.buf /\ \A x \in DOMAIN B : DOMAIN B[x] = BufFields /\ B[x].size \in Sizes
  BY DEF Buffered, BufFields
<1>7. B[b].n = n /\ \A x \in DOMAIN B : x # b => B[x] = r.buf[x]
  BY DEF Buffered, BufFields
<1> HIDE DEF B
<1>4. /\ s.next = r.next /\ s.drawing = r.drawing /\ s.finish = r.finish /\ s.ring = r.ring /\ s.size = r.size
      /\ s.ref = r.ref /\ s.mode = r.mode /\ s.owner = r.owner /\ s.max = r.max /\ DOMAIN s.buf = DOMAIN r.buf
  BY <1>2, <1>3 DEF RmFields
<1>5. Buffered(s)
  BY <1>2, <1>3, <1>4 DEF Buffered
<1>6. Kept(s) /\ Sessioned(s)
  BY <1>4 DEF Kept, Sessioned
<1>8. InTurn(r) => InTurn(s)
  BY <1>4, TurnsSame
<1>9. s.buf[b].n = n /\ \A x \in DOMAIN s.buf : x # b => s.buf[x] = r.buf[x]
  BY <1>2, <1>3, <1>7
<1> QED BY <1>2, <1>4, <1>5, <1>6, <1>8, <1>9, Zenon

(* A session begins with an empty queue, in a ring that may be an older one. *)
LEMMA EnableIs ==
  ASSUME NEW r, Buffered(r), Kept(r), Sessioned(r), NEW cable \in BOOLEAN, NEW z \in Sizes,
         NEW s, s = EnableWriteBackMode(r, cable, z)
  PROVE  /\ Buffered(s) /\ Kept(s) /\ Sessioned(s) /\ (InTurn(r) => InTurn(s))
         /\ s.drawing = r.drawing /\ s.finish = r.finish /\ Unspoilt(r, s)
         /\ r.ref > 0 => s.next = r.next
         /\ r.ref <= 0 => /\ r.drawing = None
                          /\ \/ s.next \in {None, r.next} \/ s.next \notin DOMAIN r.buf
                             \/ cable /\ Reuses(r, WbSize([mode |-> ChooseWriteBackMode(cable, z)], z))
                                /\ s.next = Head(r.ring)
<1>1. DOMAIN r = RmFields /\ r.ref \in Int
  BY DEF Buffered, Sessioned
<1>2. CASE r.ref > 0
  <2>1. s = [r EXCEPT !.ref = @ + 1]
    BY <1>2 DEF EnableWriteBackMode
  <2>2. DOMAIN s = RmFields /\ s.ref = r.ref + 1 /\ \A f \in RmFields \ {"ref"} : s[f] = r[f]
    BY <1>1, <2>1 DEF RmFields
  <2>3. /\ s.next = r.next /\ s.drawing = r.drawing /\ s.finish = r.finish /\ s.ring = r.ring /\ s.size = r.size
        /\ s.mode = r.mode /\ s.owner = r.owner /\ s.max = r.max /\ s.buf = r.buf
    BY <2>2 DEF RmFields
  <2>4. Buffered(s) /\ Kept(s)
    BY <2>2, <2>3, BufferedSame DEF Kept
  <2>5. Sessioned(s)
    BY <1>1, <1>2, <2>2, <2>3 DEF Sessioned
  <2>6. Unspoilt(r, s)
    BY <2>3 DEF Unspoilt
  <2> QED BY <1>1, <1>2, <2>3, <2>4, <2>5, <2>6, TurnsSame
<1>3. CASE ~(r.ref > 0)
  <2> DEFINE m == ChooseWriteBackMode(cable, z)
             chosen == [r EXCEPT !.mode = m]
  <2>1. m \in {"none", "vop", "rga"} /\ (m # "none" => cable)
    BY DEF ChooseWriteBackMode
  <2>2. r.drawing = None /\ r.finish = <<>>
    BY <1>1, <1>3 DEF Sessioned
  <2>3. s = IF chosen.mode = "none" THEN chosen
            ELSE [NextBuffer(WithRing(chosen), WbSize(chosen, z)) EXCEPT !.ref = @ + 1, !.owner = 0]
    BY <1>3 DEF EnableWriteBackMode
  <2> HIDE DEF m
  <2>4. DOMAIN chosen = RmFields /\ chosen.mode = m /\ \A f \in RmFields \ {"mode"} : chosen[f] = r[f]
    BY <1>1 DEF RmFields
  <2> HIDE DEF chosen
  <2>5. /\ chosen.next = r.next /\ chosen.drawing = r.drawing /\ chosen.finish = r.finish /\ chosen.ring = r.ring
        /\ chosen.size = r.size /\ chosen.owner = r.owner /\ chosen.max = r.max /\ chosen.buf = r.buf
        /\ chosen.ref = r.ref
    BY <2>4 DEF RmFields
  <2>6. CASE m = "none"
    <3>1. s = chosen
      BY <2>3, <2>4, <2>6
    <3>2. Buffered(s) /\ Kept(s)
      BY <2>4, <2>5, <3>1, BufferedSame DEF Kept
    <3>3. Sessioned(s)
      BY <2>4, <2>5, <2>6, <3>1 DEF Sessioned
    <3>4. Unspoilt(r, s)
      BY <2>5, <3>1 DEF Unspoilt
    <3> QED BY <1>3, <2>2, <2>5, <3>1, <3>2, <3>3, <3>4, TurnsSame
  <2>7. CASE m # "none"
    <3> DEFINE e == WithRing(chosen)
               y == WbSize(chosen, z)
               d == NextBuffer(e, y)
    <3>1. /\ DOMAIN e = RmFields /\ e.max \in {RingSize, DefaultRing}
          /\ e.max = IF r.max > 0 THEN r.max ELSE IF m = "rga" THEN DefaultRing ELSE RingSize
          /\ \A f \in RmFields \ {"max"} : e[f] = chosen[f]
      BY <2>4, <2>5, MaxIs DEF WithRing, RmFields, Buffered
    <3>2. y \in Sizes /\ y = WbSize([mode |-> m], z)
      BY <2>4 DEF WbSize, Sizes, VopLargest
    <3>3. s = [d EXCEPT !.ref = @ + 1, !.owner = 0]
      BY <2>3, <2>4, <2>7
    <3> HIDE DEF e, y
    <3>4. /\ e.next = r.next /\ e.drawing = r.drawing /\ e.finish = r.finish /\ e.ring = r.ring
          /\ e.ref = r.ref /\ e.mode = m /\ e.buf = r.buf
      BY <2>4, <2>5, <3>1 DEF RmFields
    <3>5. Buffered(e) /\ Kept(e) /\ e.max > 0
      <4>1. Len(e.ring) <= e.max
        <5> DEFINE k == Len(r.ring)
        <5>1. k <= r.max /\ r.max \in {0, 4, 6} /\ k \in Nat /\ Len(e.ring) = k
          BY <3>4, MaxIs, LenProperties DEF Buffered
        <5> HIDE DEF k
        <5> QED BY <3>1, <5>1, MaxIs
      <4> QED BY <3>1, <3>4, <4>1, MaxIs DEF Buffered, Kept
    <3>6. /\ Buffered(d) /\ Kept(d) /\ d.next # None /\ d.size = y
          /\ \A f \in RmFields \ {"next", "size", "ring", "buf"} : d[f] = e[f]
          /\ d.ring = Append(IF Full(e) THEN Tail(e.ring) ELSE e.ring, d.next)
          /\ d.next \notin DOMAIN e.buf \/ (Reuses(e, y) /\ d.next = Head(e.ring))
          /\ Unspoilt(e, d)
      BY <3>2, <3>5, NextBufferIs
    <3> HIDE DEF d
    <3>7. DOMAIN s = RmFields /\ s.ref = d.ref + 1 /\ s.owner = 0 /\ \A f \in RmFields \ {"ref", "owner"} : s[f] = d[f]
      BY <3>3, <3>6 DEF RmFields, Buffered
    <3>8. /\ s.next = d.next /\ s.drawing = None /\ s.finish = <<>> /\ s.ring = d.ring /\ s.size = y
          /\ s.ref = r.ref + 1 /\ s.mode = m /\ s.max = e.max /\ s.buf = d.buf
      BY <2>2, <3>4, <3>6, <3>7 DEF RmFields
    <3>9. d.drawing = None /\ d.finish = <<>> /\ d.max = e.max
      BY <2>2, <3>4, <3>6 DEF RmFields
    <3>10. Buffered(s)
      BY <3>6, <3>7, <3>8, <3>9 DEF Buffered
    <3>11. Kept(s)
      BY <3>6, <3>8 DEF Kept
    <3>12. Sessioned(s)
      BY <1>1, <2>1, <3>1, <3>2, <3>6, <3>7, <3>8, MaxIs DEF Sessioned
    <3>13. InTurn(s)
      <4>1. Len(d.ring) > 0 /\ d.next = d.ring[Len(d.ring)]
        <5> DEFINE full == Full(e)
                   q == e.ring
                   g == d.ring
                   S == DOMAIN e.buf
        <5>1. q \in Seq(S) /\ full \in BOOLEAN /\ e.max > 0
          BY <3>5 DEF Buffered, Full
        <5>2. full => Len(q) > 0
          BY <3>5 DEF Full
        <5>3. g = Append(IF full THEN Tail(q) ELSE q, d.next)
          BY <3>6
        <5> HIDE DEF full, q, g, S
        <5>4. Len(q) \in Nat /\ Len(g) = (IF full THEN Len(q) ELSE Len(q) + 1) /\ g[Len(g)] = d.next
          BY <5>1, <5>2, <5>3, OneMoreInRing
        <5> DEFINE k == Len(g)
                   l == Len(q)
        <5>5. l \in Nat /\ k = (IF full THEN l ELSE l + 1) /\ (full => l > 0)
          BY <5>2, <5>4
        <5> HIDE DEF k, l
        <5>6. k > 0
          BY <5>5
        <5> QED BY <5>4, <5>6 DEF k, g
      <4>2. Len(s.finish) = 0
        BY <3>8
      <4>3. 1 .. Len(s.finish) = {}
        BY <4>2
      <4> HIDE DEF d
      <4> QED BY <3>8, <4>1, <4>3, Zenon DEF InTurn
    <3>14. Reuses(e, y) => Reuses(r, y)
      <4>1. Full(e) /\ ~(r.max > 0) => FALSE
        <5> DEFINE k == Len(r.ring)
        <5>1. k <= r.max /\ r.max \in {0, 4, 6} /\ k \in Nat /\ Len(e.ring) = k
          BY <3>4, MaxIs, LenProperties DEF Buffered
        <5>2. Full(e) <=> k = e.max
          BY <5>1 DEF Full
        <5> HIDE DEF k
        <5> QED BY <3>5, <5>1, <5>2
      <4> QED BY <3>1, <3>4, <4>1 DEF Reuses, Full
    <3>15. s.next \notin DOMAIN r.buf \/ (cable /\ Reuses(r, y) /\ s.next = Head(r.ring))
      BY <2>1, <2>7, <3>4, <3>6, <3>8, <3>14, Zenon
    <3>16. Unspoilt(r, s)
      BY <3>4, <3>6, <3>8 DEF Unspoilt
    <3> QED BY <1>3, <2>2, <3>2, <3>8, <3>10, <3>11, <3>12, <3>13, <3>15, <3>16, Zenon DEF m
  <2> QED BY <2>6, <2>7
<1> QED BY <1>2, <1>3

(* The last session's end forgets what was to be written.                    *)
LEMMA DisableIs ==
  ASSUME NEW r, Buffered(r), Kept(r), Sessioned(r), NEW s, s = DisableWriteBackMode(r)
  PROVE  /\ Buffered(s) /\ Kept(s) /\ Sessioned(s) /\ (InTurn(r) => InTurn(s))
         /\ \/ s.next = r.next /\ s.drawing = r.drawing /\ s.finish = r.finish
            \/ s.next = None /\ s.drawing = None /\ s.finish = <<>>
         /\ Unspoilt(r, s)
<1>1. DOMAIN r = RmFields /\ r.ref \in Int
  BY DEF Buffered, Sessioned
<1>2. CASE r.ref > 1
  <2>1. s = [r EXCEPT !.ref = @ - 1]
    BY <1>2 DEF DisableWriteBackMode
  <2>2. DOMAIN s = RmFields /\ s.ref = r.ref - 1 /\ \A f \in RmFields \ {"ref"} : s[f] = r[f]
    BY <1>1, <2>1 DEF RmFields
  <2>3. /\ s.next = r.next /\ s.drawing = r.drawing /\ s.finish = r.finish /\ s.ring = r.ring /\ s.size = r.size
        /\ s.mode = r.mode /\ s.owner = r.owner /\ s.max = r.max /\ s.buf = r.buf
    BY <2>2 DEF RmFields
  <2>4. Buffered(s) /\ Kept(s)
    BY <2>2, <2>3, BufferedSame DEF Kept
  <2>5. Sessioned(s)
    BY <1>1, <1>2, <2>2, <2>3 DEF Sessioned
  <2>6. Unspoilt(r, s)
    BY <2>3 DEF Unspoilt
  <2> QED BY <2>3, <2>4, <2>5, <2>6, TurnsSame
<1>3. CASE ~(r.ref > 1)
  <2> DEFINE e == [r EXCEPT !.ref = @ - 1, !.mode = "none", !.owner = -1, !.finish = <<>>,
                            !.drawing = None, !.next = None]
  <2>1. s = Freed(e)
    BY <1>3 DEF DisableWriteBackMode
  <2>2. /\ DOMAIN e = RmFields /\ e.ref = r.ref - 1 /\ e.mode = "none" /\ e.owner = -1 /\ e.finish = <<>>
        /\ e.drawing = None /\ e.next = None /\ e.ring = r.ring /\ e.max = r.max /\ e.buf = r.buf
    BY <1>1 DEF RmFields
  <2> HIDE DEF e
  <2>3. Buffered(e)
    <3>1. Len(<<>>) < RingSize /\ <<>> \in Seq([no : Nat, buf : DOMAIN r.buf])
      BY MaxIs
    <3> QED BY <2>2, <3>1 DEF Buffered
  <2>4. Kept(e)
    BY <2>2 DEF Kept
  <2>5. /\ Buffered(s) /\ Kept(s) /\ \A f \in RmFields \ {"buf"} : s[f] = e[f]
        /\ DOMAIN s.buf \subseteq DOMAIN e.buf /\ \A b \in DOMAIN s.buf : s.buf[b] = e.buf[b]
    BY <2>1, <2>3, <2>4, FreedIs
  <2>6. s.ref = r.ref - 1 /\ s.mode = "none" /\ s.owner = -1 /\ s.finish = <<>> /\ s.drawing = None /\ s.next = None
    BY <2>2, <2>5 DEF RmFields
  <2>7. Sessioned(s)
    <3>1. s.ref \in Int /\ ~(s.ref > 0) /\ s.mode \in {"none", "vop", "rga"} /\ s.owner \in {-1, 0}
      BY <1>1, <1>3, <2>6
    <3> QED BY <2>6, <3>1, Zenon DEF Sessioned
  <2>8. InTurn(s)
    <3>1. 1 .. Len(s.finish) = {}
      BY <2>6
    <3> QED BY <2>6, <3>1, Zenon DEF InTurn
  <2>9. Unspoilt(r, s)
    BY <2>2, <2>5 DEF Unspoilt
  <2> QED BY <2>5, <2>6, <2>7, <2>8, <2>9
<1> QED BY <1>2, <1>3

LEMMA ResizeIs ==
  ASSUME NEW r, Buffered(r), Kept(r), Sessioned(r), NEW z \in Sizes, NEW s, s = UpdateWriteBackResolution(r, z)
  PROVE  Buffered(s) /\ Kept(s) /\ Sessioned(s) /\ (~Resizes(r, z) => s = r)
<1>1. CASE Resizes(r, z)
  <2>1. s = NextBuffer(r, z) /\ r.mode = "vop" /\ r.next # None /\ r.max > 0
    BY <1>1 DEF UpdateWriteBackResolution, Resizes, Sessioned
  <2>2. /\ Buffered(s) /\ Kept(s) /\ s.next # None /\ s.size = z
        /\ \A f \in RmFields \ {"next", "size", "ring", "buf"} : s[f] = r[f]
    BY <2>1, NextBufferIs
  <2>3. /\ s.ref = r.ref /\ s.mode = r.mode /\ s.owner = r.owner /\ s.max = r.max /\ s.drawing = r.drawing
        /\ s.finish = r.finish
    BY <2>2 DEF RmFields
  <2>4. s.next # None /\ s.size \in Sizes /\ s.max > 0
    BY <2>1, <2>2, <2>3, Zenon
  <2>5. Sessioned(s)
    BY <2>1, <2>3, <2>4, Zenon DEF Sessioned
  <2> QED BY <1>1, <2>2, <2>5
<1>2. CASE ~Resizes(r, z)
  BY <1>2 DEF UpdateWriteBackResolution
<1> QED BY <1>1, <1>2

(***************************************************************************)
(* The primary's modes are those of its connector, whatever is asked for.  *)
(***************************************************************************)
RangeOf(d) == DOMAIN d = DmFields /\ {d.best, d.current, d.active} \cup d.list \subseteq 1 .. 5

LEMMA ListedIs == \A m : Listed(m) => m \in 1 .. 5
<1>1. \A i \in DOMAIN ModeList : ModeList[i] \in 1 .. 5
  BY DEF ModeList
<1> QED BY <1>1 DEF Listed, Range

LEMMA SelectedAreListed ==
  ASSUME NEW d, d.active \in 1 .. 5
  PROVE  SelectedModes(d) \subseteq 1 .. 5
<1>1. \A m \in Range(ModeList) : m \in 1 .. 5
  BY ListedIs DEF Listed
<1>2. First(d) \subseteq 1 .. 5
  BY DEF First, Preferred
<1> QED BY <1>1, <1>2 DEF SelectedModes

LEMMA WantedIsListed ==
  ASSUME NEW d, DOMAIN d = DmFields
  PROVE  Wanted(d) \in 1 .. 5
<1>1. \A x, y : Choice(x, y) \in 1 .. 5
  BY ListedIs DEF Choice, Preferred
<1> QED BY <1>1, WantedIs

LEMMA RangeSame ==
  ASSUME NEW d, RangeOf(d), NEW e, NEW fs, Keeps(d, e, fs), fs \cap {"best", "current", "active", "list"} = {}
  PROVE  RangeOf(e)
<1>1. DOMAIN e = DmFields /\ e.best = d.best /\ e.current = d.current /\ e.active = d.active /\ e.list = d.list
  BY DEF Keeps, DmFields
<1> QED BY <1>1 DEF RangeOf

LEMMA RangeTaken ==
  ASSUME NEW d, RangeOf(d), NEW g, g = GetCurrentDisplayMode(d)
  PROVE  RangeOf(g)
<1>1. CASE Unseen(d)
  <2>1. Keeps(d, g, TakenFields \cup {"changed"}) /\ g.current = g.best /\ g.best = Wanted(g)
    BY <1>1, GetCurrentDisplayModeIs DEF RangeOf
  <2>2. DOMAIN g = DmFields /\ g.active = d.active /\ g.list = d.list
    BY <2>1 DEF Keeps, DmFields, TakenFields
  <2>3. g.best \in 1 .. 5
    BY <2>1, <2>2, WantedIsListed
  <2> QED BY <2>1, <2>2, <2>3 DEF RangeOf
<1>2. CASE ~Unseen(d)
  BY <1>2 DEF GetCurrentDisplayMode
<1> QED BY <1>1, <1>2

LEMMA RangeSwitched ==
  ASSUME NEW d, RangeOf(d), NEW cable, NEW ok, NEW e, e = UpdateDisplayMode(d, cable, ok) \/ e = BindDpyRes(d)
  PROVE  RangeOf(e)
<1>1. Keeps(d, e, {"active"}) /\ e.active \in {d.active, d.current}
  BY UpdateDisplayModeIs, BindDpyResIs DEF RangeOf
<1>2. DOMAIN e = DmFields /\ e.best = d.best /\ e.current = d.current /\ e.list = d.list
  BY <1>1 DEF Keeps, DmFields
<1> QED BY <1>1, <1>2 DEF RangeOf

(* What the functions behind the configs do.                                 *)
LEMMA ConfiguredList ==
  ASSUME NEW d, DOMAIN d = DmFields, d.std, NEW cable, NEW e,
         e = [ChosePreferredConfig(d, cable, TRUE) EXCEPT !.told = TRUE]
  PROVE  /\ Keeps(d, e, {"list", "best", "current", "crop", "told"})
         /\ e.list = SelectedModes(d) /\ e.best = d.active /\ e.current = d.active
  BY ConfiguredIs

LEMMA RangeConfigured ==
  ASSUME NEW d, RangeOf(d), NEW cable, NEW e,
         \/ e = [ChosePreferredConfig(d, cable, TRUE) EXCEPT !.told = TRUE]
         \/ e = FlingerCounts(d) \/ e = FlingerReads(d)
  PROVE  RangeOf(e)
<1>1. CASE ~d.std
  <2>1. \/ Keeps(d, e, {"fb", "crop", "told"}) \/ Keeps(d, e, {"fb", "told"})
        \/ Keeps(d, e, {"fb", "crop", "size", "configs"})
    <3>1. CASE e = [ChosePreferredConfig(d, cable, TRUE) EXCEPT !.told = TRUE]
      BY <1>1, <3>1, ConfiguredIs DEF RangeOf
    <3>2. CASE e = FlingerCounts(d)
      BY <1>1, <3>2, FlingerCountsIs DEF RangeOf
    <3>3. CASE e = FlingerReads(d)
      BY <1>1, <3>3, FlingerReadsIs DEF RangeOf
    <3> QED BY <3>1, <3>2, <3>3
  <2>2. DOMAIN e = DmFields /\ e.best = d.best /\ e.current = d.current /\ e.active = d.active /\ e.list = d.list
    BY <2>1 DEF Keeps, DmFields
  <2> QED BY <2>2 DEF RangeOf
<1>2. CASE d.std
  <2>1. /\ e.list = SelectedModes(d)
        /\ \/ Keeps(d, e, {"list", "best", "current", "crop", "told"}) /\ e.best = d.active /\ e.current = d.active
           \/ Keeps(d, e, {"list", "told"})
           \/ Keeps(d, e, {"list", "fb", "crop", "size", "configs"})
    <3>1. CASE e = [ChosePreferredConfig(d, cable, TRUE) EXCEPT !.told = TRUE]
      <4>1. DOMAIN d = DmFields
        BY DEF RangeOf
      <4> QED BY <1>2, <3>1, <4>1, ConfiguredList
    <3>2. CASE e = FlingerCounts(d)
      BY <1>2, <3>2, FlingerCountsIs DEF RangeOf
    <3>3. CASE e = FlingerReads(d)
      BY <1>2, <3>3, FlingerReadsIs DEF RangeOf
    <3> QED BY <3>1, <3>2, <3>3
  <2>2. /\ DOMAIN e = DmFields /\ e.active = d.active
        /\ e.best \in {d.best, d.active} /\ e.current \in {d.current, d.active}
    BY <2>1 DEF Keeps, DmFields
  <2>3. e.list \subseteq 1 .. 5
    BY <2>1, SelectedAreListed DEF RangeOf
  <2> QED BY <2>2, <2>3 DEF RangeOf
<1> QED BY <1>1, <1>2

LEMMA RangeSet ==
  ASSUME NEW d, RangeOf(d), d.std, NEW config, NEW cable, NEW ok, NEW e, e = FlingerSets(d, config, cable, ok)
  PROVE  RangeOf(e)
<1>1. CASE config \in d.list
  <2>1. /\ Keeps(d, e, {"best", "current", "crop", "active", "size"})
        /\ e.best = config /\ e.current = config /\ e.active \in {config, d.active}
    BY <1>1, FlingerSetsIs DEF RangeOf
  <2>2. DOMAIN e = DmFields /\ e.list = d.list
    BY <2>1 DEF Keeps, DmFields
  <2> QED BY <1>1, <2>1, <2>2 DEF RangeOf
<1>2. CASE config \notin d.list
  BY <1>2, FlingerSetsIs DEF RangeOf
<1> QED BY <1>1, <1>2

LEMMA RangeInit == Init => RangeOf(dm)
<1> SUFFICES ASSUME Init PROVE RangeOf(dm)
  OBVIOUS
<1>1. PICK mode \in 1 .. 5, kind_ \in {"single", "standard", "static"}, fixed \in 0 .. 2 :
        ModesInit(mode, kind_, fixed)
  <2>1. setup \in Setup /\ ModesInit(setup.mode, setup.configs, setup.fixed)
    BY HwcDisplayAssumption DEF Init
  <2>2. setup.mode \in 1 .. 5 /\ setup.configs \in {"single", "standard", "static"} /\ setup.fixed \in 0 .. 2
    BY <2>1 DEF Setup
  <2> QED BY <2>1, <2>2, Zenon
<1>2. DOMAIN dm = DmFields /\ dm.best = mode /\ dm.current = mode /\ dm.active = mode /\ dm.list = {}
  BY <1>1, SMTT(30) DEF ModesInit, DmFields
<1> QED BY <1>2 DEF RangeOf

LEMMA RangeStep == RangeOf(dm) /\ [Next]_vars => RangeOf(dm)'
<1> SUFFICES ASSUME RangeOf(dm), [Next]_vars PROVE RangeOf(dm')
  BY DEF RangeOf
<1> USE DEF sfVars, cwVars, wbVars, refreshVars
<1>1. CASE UpdatesMode
  <2>1. PICK ok \in BOOLEAN : dm' = UpdateDisplayMode(GetCurrentDisplayMode(dm), connected, ok)
    BY <1>1 DEF UpdatesMode
  <2>2. RangeOf(GetCurrentDisplayMode(dm))
    BY RangeTaken
  <2> QED BY <2>1, <2>2, RangeSwitched
<1>2. CASE CountsConfigs \/ ReadsConfigs \/ EventConfigures
  BY <1>2, RangeConfigured DEF CountsConfigs, ReadsConfigs, EventConfigures
<1>3. CASE SetsConfig
  <2>1. dm.std /\ \E config \in dm.configs, ok \in BOOLEAN : dm' = FlingerSets(dm, config, connected, ok)
    BY <1>3 DEF SetsConfig
  <2> QED BY <2>1, RangeSet
<1>4. CASE RequestsMode
  <2>1. PICK wish \in setup.wishes : dm' = WritesResolution(dm, wish[2], wish[1])
    BY <1>4 DEF RequestsMode
  <2>2. Keeps(dm, dm', {"resolution", "base", "half"})
    BY <2>1 DEF WritesResolution, Keeps, DmFields, RangeOf
  <2> QED BY <2>2, RangeSame
<1>5. CASE TellsTimeline
  <2>1. Keeps(dm, dm', {"stamp", "half"})
    BY <1>5 DEF TellsTimeline, WritesTimeline, Keeps, DmFields, RangeOf
  <2> QED BY <2>1, RangeSame
<1>6. CASE PresentDisplay
  <2>1. dm' = dm \/ dm' = [dm EXCEPT !.changed = FALSE]
    BY <1>6 DEF PresentDisplay, TellsMode
  <2>2. Keeps(dm, dm', {"changed"})
    BY <2>1 DEF Keeps, DmFields, RangeOf
  <2> QED BY <2>2, RangeSame
<1>7. CASE EventReinits
  <2> DEFINE h == HoplugEventTmeline(dm)
             g == GetCurrentDisplayMode(h)
  <2>1. dm' = BindDpyRes(g)
    BY <1>7 DEF EventReinits
  <2>2. Keeps(dm, h, {"replug"})
    BY DEF HoplugEventTmeline, Keeps, DmFields, RangeOf
  <2> HIDE DEF h
  <2>3. RangeOf(g)
    BY <2>2, RangeSame, RangeTaken
  <2> HIDE DEF g
  <2> QED BY <2>1, <2>3, RangeSwitched
<1>8. CASE dm' = dm
  BY <1>8
<1> QED
  BY <1>1, <1>2, <1>3, <1>4, <1>5, <1>6, <1>7, <1>8
  DEF Next, SfGoesOn, Compositor, EventThread, vars, SetsLayers, ValidateDisplay, SetsClientTarget, OutputWBBuffer,
      OutputDone, PresentsClientTarget, CycleEnds, CreateVirtualDisplay, DestroyVirtualDisplay, Collect, CollectSize,
      CollectNext, WriteBackByRGA, RgaSwaps, Commits, CommitFails, CommitTail, Iw, Alarm, Hardware, MoveCable,
      EventTaken, EventClears, EventRefreshes

(* The sizes that a recording is made in.                                    *)
LEMMA SizeIs == RangeOf(dm) => size \in Sizes
  BY DEF RangeOf, size, Extent, Sizes, VopLargest

(***************************************************************************)
(* The invariant.                                                          *)
(***************************************************************************)
JobFields == {"buf", "n", "by", "fence"}

(* What excuses a picture written where it should not be.                    *)
Faults == {"resized", "overrun", "mixed", "cut"}

RingInv ==
  /\ Buffered(rm) /\ Sessioned(rm) /\ Kept(rm)
  /\ "resized" \in past \/ InTurn(rm)

(* The composition the compositor works on; they are numbered in order, and  *)
(* so are the pictures still being written.                                  *)
Current == IF cw \in {"size", "next"} THEN pset.n ELSE pset.c.n

Numbered ==
  /\ no \in Nat
  /\ queue # NoComp => queue.n \in Nat /\ queue.n < no
  /\ cw # "idle" => /\ Current \in Nat /\ Current < no
                    /\ queue # NoComp => Current < queue.n
  /\ \A j \in jobs : /\ DOMAIN j = JobFields
                     /\ j.n \in Nat /\ j.n < no
                     /\ queue # NoComp => j.n < queue.n
                     /\ cw # "idle" => j.n <= Current

(* The buffer of a request, and that of RGA, are the session's next one.     *)
Stages ==
  /\ cw \in {"idle", "size", "next", "rga", "rgaswap", "ioctl", "tail"}
  /\ cw \in {"idle", "size", "next"} => held = None
  /\ cw # "rgaswap" => dst = None
  /\ wbFence <=> cw = "tail" /\ held # None
  /\ past \cap Faults = {} =>
       /\ {held, dst} \subseteq {None, rm.next} \/ rm.drawing = None
       /\ cw = "rgaswap" => held = None

(* A picture being written is waited for by its buffer's finish fence, or it *)
(* has just been begun by the request.                                       *)
Waited(j) ==
  /\ j.fence = j.buf /\ j.fence # rm.next
  /\ cw = "idle" \/ j.n < Current \/ (cw \in {"ioctl", "tail"} /\ j.by = "rga")
Begun(j) ==
  /\ j.fence = None /\ j.n = Current
  /\ \/ cw = "rgaswap" /\ j.by = "rga" /\ j.buf = dst
     \/ cw = "tail" /\ j.by = "vop" /\ j.buf = held
Writing == past \cap Faults = {} => \A j \in jobs : Waited(j) \/ Begun(j)

(* The picture being copied is drawn or finished, and complete.              *)
Copying ==
  /\ sf # "mirror" => todo = {}
  /\ copy # <<>> => sf = "mirror" /\ todo # {}
  /\ todo \subseteq DOMAIN vds
  /\ copy # <<>> /\ past \cap Faults = {} =>
       rm.drawing # None /\ copy.buf # rm.next /\ \A j \in jobs : j.buf # copy.buf

WbInv == RingInv /\ Numbered /\ Stages /\ Writing /\ Copying

(***************************************************************************)
(* What leaves a part of it alone.                                         *)
(***************************************************************************)
LEMMA RingKept ==
  ASSUME RingInv, rm' = rm, Kept(rm)', "resized" \in past => "resized" \in past'
  PROVE  RingInv'
<1>1. Buffered(rm)' /\ Sessioned(rm)'
  BY DEF RingInv, Buffered, Sessioned
<1>2. InTurn(rm) => InTurn(rm)'
  BY DEF InTurn, Place, Full
<1> QED BY <1>1, <1>2 DEF RingInv

LEMMA RingSame ==
  ASSUME RingInv, rm' = rm, jobs' \subseteq jobs, held' \in {held, None, rm.next}, dst' \in {dst, None, rm.next},
         "resized" \in past => "resized" \in past'
  PROVE  RingInv'
<1>1. Kept(rm)'
  BY DEF RingInv, Kept, Buffered
<1> QED BY <1>1, RingKept

LEMMA NumberedSame ==
  ASSUME Numbered, queue' \in {queue, NoComp}, no' = no, jobs' \subseteq jobs,
         cw' # "idle" => cw # "idle" /\ Current' = Current
  PROVE  Numbered'
  BY DEF Numbered

LEMMA StagesSame ==
  ASSUME Stages, cw' = cw, held' = held, dst' = dst, wbFence' = wbFence,
         rm'.next = rm.next, rm'.drawing = rm.drawing, past \cap Faults \subseteq past'
  PROVE  Stages'
  BY DEF Stages

LEMMA WritingSame ==
  ASSUME Writing, jobs' \subseteq jobs, cw' = cw, Current' = Current, held' = held, dst' = dst,
         rm'.next = rm.next, past \cap Faults \subseteq past'
  PROVE  Writing'
  BY DEF Writing, Waited, Begun

LEMMA CopyingSame ==
  ASSUME Copying, copy' = copy, sf' = sf \/ "mirror" \notin {sf, sf'}, todo' = todo, vds' = vds, jobs' \subseteq jobs,
         rm'.next = rm.next, rm'.drawing = rm.drawing, past \cap Faults \subseteq past'
  PROVE  Copying'
  BY DEF Copying

LEMMA WbSame ==
  ASSUME WbInv, UNCHANGED <<wbVars, cw, pset, wbFence, copy, todo, vds, no>>, queue' \in {queue, NoComp},
         sf' = sf \/ "mirror" \notin {sf, sf'}, past \cap Faults \subseteq past'
  PROVE  WbInv'
<1>1. rm' = rm /\ jobs' = jobs /\ held' = held /\ dst' = dst /\ Current' = Current
  BY DEF wbVars, Current
<1>2. RingInv'
  BY <1>1, RingSame DEF WbInv, Faults
<1>3. Numbered' /\ Stages' /\ Writing' /\ Copying'
  BY <1>1, NumberedSame, StagesSame, WritingSame, CopyingSame DEF WbInv
<1> QED BY <1>2, <1>3 DEF WbInv

(***************************************************************************)
(* The compositor's thread.                                                *)
(***************************************************************************)
LEMMA CollectInv == WbInv /\ Collect => WbInv'
<1> SUFFICES ASSUME WbInv, Collect PROVE WbInv'
  OBVIOUS
<1>1. /\ cw = "idle" /\ queue # NoComp /\ queue' = NoComp /\ cw' \in {"size", "rga"} /\ Current' = queue.n
      /\ no' = no /\ wbFence' = wbFence /\ rm' = rm /\ jobs' = jobs /\ held' = held /\ dst' = dst /\ past' = past
      /\ copy' = copy /\ sf' = sf /\ todo' = todo /\ vds' = vds
  BY DEF Collect, CollectCommitInfo, CollectModeSetInfo, Current, sfVars, wbVars
<1>2. RingInv' /\ Copying'
  BY <1>1, RingSame, CopyingSame DEF WbInv
<1>3. Numbered'
  BY <1>1 DEF WbInv, Numbered
<1>4. Stages'
  BY <1>1 DEF WbInv, Stages
<1>5. Writing'
  <2> SUFFICES ASSUME past \cap Faults = {}, NEW j \in jobs PROVE Waited(j)'
    BY <1>1 DEF Writing
  <2>1. Waited(j)
    BY <1>1 DEF WbInv, Writing, Begun
  <2>2. j.n < queue.n
    BY <1>1 DEF WbInv, Numbered
  <2> QED BY <1>1, <2>1, <2>2 DEF Waited
<1> QED BY <1>2, <1>3, <1>4, <1>5 DEF WbInv

(* A composition that is rejected was not written.                           *)
LEMMA RejectInv ==
  ASSUME WbInv, cw \in {"size", "next"}, cw' = "idle", rm' = rm, jobs' = jobs, held' = held, dst' = dst,
         queue' = queue, no' = no, wbFence' = wbFence, past' = past \cup {"failed"},
         copy' = copy, sf' = sf, todo' = todo, vds' = vds
  PROVE  WbInv'
<1>1. past \cap Faults \subseteq past' /\ past' \cap Faults = past \cap Faults
  BY DEF Faults
<1>2. RingInv' /\ Numbered' /\ Copying'
  BY <1>1, RingSame, NumberedSame, CopyingSame DEF WbInv, Faults
<1>3. Stages'
  BY <1>1 DEF WbInv, Stages
<1>4. Writing'
  BY <1>1 DEF WbInv, Writing, Waited, Begun
<1> QED BY <1>2, <1>3, <1>4 DEF WbInv

LEMMA CollectSizeInv == WbInv /\ RangeOf(dm) /\ CollectSize => WbInv'
<1> SUFFICES ASSUME WbInv, RangeOf(dm), CollectSize PROVE WbInv'
  OBVIOUS
<1>1. /\ cw = "size" /\ jobs' = jobs /\ held' = held /\ dst' = dst /\ queue' = queue /\ no' = no
      /\ wbFence' = wbFence /\ copy' = copy /\ sf' = sf /\ todo' = todo /\ vds' = vds
  BY DEF CollectSize, Reject, sfVars
<1>2. CASE ~CanWriteBack(rm, connected)
  <2>1. cw' = "idle" /\ rm' = rm /\ past' = past \cup {"failed"}
    BY <1>2 DEF CollectSize, Reject
  <2> QED BY <1>1, <2>1, RejectInv
<1>3. CASE CanWriteBack(rm, connected)
  <2>1. /\ rm' = UpdateWriteBackResolution(rm, size) /\ cw' = "next" /\ pset' = pset
        /\ past' = past \cup IF Resizes(rm, size) THEN {"resized"} ELSE {}
    BY <1>3 DEF CollectSize
  <2>2. Current' = Current
    BY <1>1, <2>1 DEF Current
  <2>3. Buffered(rm') /\ Kept(rm') /\ Sessioned(rm') /\ (~Resizes(rm, size) => rm' = rm)
    BY <2>1, SizeIs, ResizeIs DEF WbInv, RingInv
  <2>4. Numbered'
    BY <1>1, <2>1, <2>2, NumberedSame DEF WbInv
  <2>5. CASE Resizes(rm, size)
    <3>1. "resized" \in past' /\ past' \cap Faults # {}
      BY <2>1, <2>5 DEF Faults
    <3>2. RingInv'
      BY <1>1, <2>3, <3>1 DEF RingInv, Buffered, Kept, Sessioned
    <3>3. Stages' /\ Writing' /\ Copying'
      BY <1>1, <2>1, <3>1 DEF WbInv, Stages, Writing, Copying
    <3> QED BY <2>4, <3>2, <3>3 DEF WbInv
  <2>6. CASE ~Resizes(rm, size)
    <3>1. rm' = rm /\ past' = past
      BY <2>1, <2>3, <2>6
    <3>2. RingInv' /\ Copying'
      BY <1>1, <3>1, RingSame, CopyingSame DEF WbInv
    <3>3. Stages'
      BY <1>1, <2>1, <3>1 DEF WbInv, Stages
    <3>4. Writing'
      BY <1>1, <2>1, <2>2, <3>1 DEF WbInv, Writing, Waited, Begun
    <3> QED BY <2>4, <3>2, <3>3, <3>4 DEF WbInv
  <2> QED BY <2>5, <2>6
<1> QED BY <1>2, <1>3

LEMMA CollectNextInv == WbInv /\ CollectNext => WbInv'
<1> SUFFICES ASSUME WbInv, CollectNext PROVE WbInv'
  OBVIOUS
<1>1. /\ cw = "next" /\ rm' = rm /\ jobs' = jobs /\ dst' = dst /\ queue' = queue /\ no' = no
      /\ copy' = copy /\ sf' = sf /\ todo' = todo /\ vds' = vds
  BY DEF CollectNext, Reject, sfVars
<1>2. CASE rm.next = None
  <2>1. cw' = "idle" /\ held' = held /\ past' = past \cup {"failed"} /\ wbFence' = wbFence
    BY <1>2 DEF CollectNext, Reject
  <2> QED BY <1>1, <2>1, RejectInv
<1>3. CASE rm.next # None
  <2>1. cw' = "rga" /\ pset'.c = pset /\ held' = rm.next /\ wbFence' = FALSE /\ past' = past
    BY <1>3 DEF CollectNext, CollectModeSetInfo
  <2>2. Current' = Current
    BY <1>1, <2>1 DEF Current
  <2>3. RingInv' /\ Numbered' /\ Copying'
    BY <1>1, <2>1, <2>2, RingSame, NumberedSame, CopyingSame DEF WbInv
  <2>4. Stages'
    BY <1>1, <2>1 DEF WbInv, Stages
  <2>5. Writing'
    BY <1>1, <2>1, <2>2 DEF WbInv, Writing, Waited, Begun
  <2> QED BY <2>3, <2>4, <2>5 DEF WbInv
<1> QED BY <1>2, <1>3

(* RGA draws the picture, or begins to.                                      *)
LEMMA WriteBackByRGAInv == WbInv /\ WriteBackByRGA => WbInv'
<1> SUFFICES ASSUME WbInv, WriteBackByRGA PROVE WbInv'
  OBVIOUS
<1>1. /\ cw = "rga" /\ queue' = queue /\ no' = no /\ pset' = pset /\ wbFence' = wbFence
      /\ copy' = copy /\ sf' = sf /\ todo' = todo /\ vds' = vds /\ copy = <<>>
  BY DEF WriteBackByRGA, MutexFree, sfVars
<1>2. CASE ~WbByRga(rm) \/ collected = NoComp
  <2>1. cw' = "ioctl" /\ rm' = rm /\ jobs' = jobs /\ held' = held /\ dst' = dst /\ past' = past
    BY <1>2 DEF WriteBackByRGA, wbVars
  <2>2. Current' = Current
    BY <1>1, <2>1 DEF Current
  <2>3. RingInv' /\ Numbered' /\ Copying'
    BY <1>1, <2>1, <2>2, RingSame, NumberedSame, CopyingSame DEF WbInv
  <2>4. Stages'
    BY <1>1, <2>1 DEF WbInv, Stages
  <2>5. Writing'
    BY <1>1, <2>1, <2>2 DEF WbInv, Writing, Waited, Begun
  <2> QED BY <2>3, <2>4, <2>5 DEF WbInv
<1>3. CASE ~(~WbByRga(rm) \/ collected = NoComp)
  <2>1. /\ cw' = "rgaswap" /\ dst' = rm.next /\ held' = held
        /\ past' = past \cup IF held # None THEN {"mixed"} ELSE {}
        /\ \/ rm' = DrawsBottom(rm, pset.c.n) /\ jobs' = jobs
           \/ jobs' = jobs \cup {DrawsOthers(rm, pset.c.n)} /\ rm' = rm
    BY <1>3 DEF WriteBackByRGA
  <2>2. Current' = Current /\ Current = pset.c.n
    BY <1>1, <2>1 DEF Current
  <2>3. rm.next \in DOMAIN rm.buf /\ rm.next # None
    BY <1>3 DEF WbInv, RingInv, Buffered, Sessioned, WbByRga, isWBMode
  <2> DEFINE k == DrawsOthers(rm, pset.c.n)
  <2>4. /\ DOMAIN k = JobFields /\ k.buf = rm.next /\ k.n = Current /\ k.by = "rga" /\ k.fence = None
    BY <2>2 DEF DrawsOthers, JobFields
  <2> HIDE DEF k
  <2>5. /\ Buffered(rm') /\ Kept(rm') /\ Sessioned(rm') /\ (InTurn(rm) => InTurn(rm'))
        /\ rm'.next = rm.next /\ rm'.drawing = rm.drawing /\ rm.next \in DOMAIN rm'.buf
    <3>1. CASE rm' = rm
      BY <2>3, <3>1 DEF WbInv, RingInv
    <3>2. CASE rm' = DrawsBottom(rm, pset.c.n)
      <4> DEFINE b == rm.next
                 n == pset.c.n
      <4>1. rm' = [rm EXCEPT !.buf[b].n = n]
        BY <3>2 DEF DrawsBottom
      <4>2. b \in DOMAIN rm.buf
        BY <2>3
      <4> HIDE DEF b, n
      <4>3. /\ Buffered(rm') /\ Kept(rm') /\ Sessioned(rm') /\ (InTurn(rm) => InTurn(rm'))
            /\ rm'.next = rm.next /\ rm'.drawing = rm.drawing
        BY <4>1, <4>2, WrittenIs, SMTT(30) DEF WbInv, RingInv
      <4>4. rm.next \in DOMAIN rm'.buf
        BY <2>3, <4>3 DEF Buffered
      <4> QED BY <4>3, <4>4
    <3> QED BY <2>1, <3>1, <3>2
  <2>6. jobs' = jobs \/ jobs' = jobs \cup {k}
    BY <2>1 DEF k
  <2>7. past \cap Faults \subseteq past' /\ ("resized" \in past => "resized" \in past')
    BY <2>1
  <2>8. RingInv'
    <3>1. Kept(rm)'
      BY <2>1, <2>4, <2>5, <2>6 DEF Kept
    <3> QED BY <2>5, <2>7, <3>1 DEF WbInv, RingInv, Buffered, Sessioned, InTurn, Place, Full
  <2>9. Numbered'
    BY <1>1, <2>1, <2>2, <2>4, <2>6 DEF WbInv, Numbered
  <2>10. Stages'
    BY <1>1, <2>1, <2>5 DEF WbInv, Stages, Faults
  <2>11. Writing'
    BY <1>1, <2>1, <2>2, <2>4, <2>5, <2>6, <2>7 DEF WbInv, Writing, Waited, Begun
  <2>12. Copying'
    BY <1>1, <2>7 DEF WbInv, Copying
  <2> QED BY <2>8, <2>9, <2>10, <2>11, <2>12 DEF WbInv
<1> QED BY <1>2, <1>3

(* A finish fence goes to the pictures of its own commit.                    *)
LEMMA FencedIs ==
  ASSUME NEW js, \A j \in js : DOMAIN j = JobFields, NEW b, NEW by, NEW n, NEW ks, ks = SetFinishFence(js, b, by, n)
  PROVE  \A k \in ks : \E j \in js :
           /\ DOMAIN k = JobFields /\ k.buf = j.buf /\ k.n = j.n /\ k.by = j.by
           /\ k.fence = IF j.by = by /\ j.n = n THEN b ELSE IF j.fence = b THEN None ELSE j.fence
<1> SUFFICES ASSUME NEW k \in ks
             PROVE  \E j \in js :
                      /\ DOMAIN k = JobFields /\ k.buf = j.buf /\ k.n = j.n /\ k.by = j.by
                      /\ k.fence = IF j.by = by /\ j.n = n THEN b ELSE IF j.fence = b THEN None ELSE j.fence
  OBVIOUS
<1>1. PICK j \in js : k = [j EXCEPT !.fence = IF j.by = by /\ j.n = n THEN b ELSE IF j.fence = b THEN None ELSE j.fence]
  BY DEF SetFinishFence
<1> DEFINE f == IF j.by = by /\ j.n = n THEN b ELSE IF j.fence = b THEN None ELSE j.fence
<1>2. k = [j EXCEPT !.fence = f]
  BY <1>1
<1> HIDE DEF f
<1>3. DOMAIN k = JobFields /\ k.buf = j.buf /\ k.n = j.n /\ k.by = j.by /\ k.fence = f
  BY <1>2 DEF JobFields
<1> QED BY <1>3 DEF f

(* The picture just written is drawn; nobody waits for the next buffer.      *)
LEMMA SwappedIs ==
  ASSUME RingInv, Numbered, isWBMode(rm), pset.c.n \in Nat, CanDequeue(rm, rm.size), NEW by,
         rm' = SwapWBBuffer(rm, pset.c.n), jobs' = SetFinishFence(jobs, rm.next, by, pset.c.n),
         held' \in {held, None}, dst' \in {dst, None}, "resized" \in past => "resized" \in past'
  PROVE  /\ RingInv' /\ rm.next # None /\ rm'.drawing = rm.next
         /\ "resized" \notin past => rm'.next # rm.next
         /\ \A j \in jobs : j.fence # rm'.next
         /\ \A k \in jobs' : \E j \in jobs :
              /\ DOMAIN k = JobFields /\ k.buf = j.buf /\ k.n = j.n /\ k.by = j.by
              /\ k.fence = IF j.by = by /\ j.n = pset.c.n THEN rm.next ELSE IF j.fence = rm.next THEN None ELSE j.fence
<1> DEFINE n == pset.c.n
<1>1. Buffered(rm) /\ Kept(rm) /\ Sessioned(rm) /\ rm.ref > 0 /\ rm.next # None
  BY DEF RingInv, isWBMode, Sessioned
<1>2. n \in Nat /\ rm' = SwapWBBuffer(rm, n)
  OBVIOUS
<1>3. \A k \in jobs' : \E j \in jobs :
        /\ DOMAIN k = JobFields /\ k.buf = j.buf /\ k.n = j.n /\ k.by = j.by
        /\ k.fence = IF j.by = by /\ j.n = n THEN rm.next ELSE IF j.fence = rm.next THEN None ELSE j.fence
  <2> DEFINE b == rm.next
  <2>1. jobs' = SetFinishFence(jobs, b, by, n) /\ \A j \in jobs : DOMAIN j = JobFields
    BY DEF Numbered
  <2> HIDE DEF b, n
  <2>2. \A k \in jobs' : \E j \in jobs :
           /\ DOMAIN k = JobFields /\ k.buf = j.buf /\ k.n = j.n /\ k.by = j.by
           /\ k.fence = IF j.by = by /\ j.n = n THEN b ELSE IF j.fence = b THEN None ELSE j.fence
    BY <2>1, FencedIs
  <2> QED BY <2>2 DEF b
<1> HIDE DEF n
<1>4. /\ Buffered(rm') /\ Kept(rm') /\ Sessioned(rm') /\ rm'.next # None /\ rm'.drawing = rm.next
      /\ rm'.next \notin DOMAIN rm.buf \/ (Reuses(rm, rm.size) /\ rm'.next = Head(rm.ring))
  BY <1>1, <1>2, SwapIs
<1>5. InTurn(rm) => InTurn(rm') /\ rm'.next # rm.next
  BY <1>1, <1>2, SwapTurns
<1>6. \A j \in jobs : j.fence # rm'.next
  BY <1>1, <1>4 DEF CanDequeue, Pending, Kept
<1>7. rm.next \in DOMAIN rm'.buf
  BY <1>1, <1>4 DEF Buffered
<1>8. Kept(rm)'
  BY <1>3, <1>4, <1>7 DEF Kept
<1>9. RingInv'
  <2>1. InTurn(rm') => InTurn(rm)'
    BY DEF InTurn, Place, Full
  <2>2. Buffered(rm)' /\ Sessioned(rm)'
    BY <1>4 DEF Buffered, Sessioned
  <2>3. ("resized" \in past \/ InTurn(rm))'
    BY <1>5, <2>1 DEF RingInv
  <2> QED BY <1>8, <2>2, <2>3 DEF RingInv
<1> QED BY <1>1, <1>3, <1>4, <1>5, <1>6, <1>9 DEF RingInv, n

LEMMA RgaSwapsInv == WbInv /\ RgaSwaps => WbInv'
<1> SUFFICES ASSUME WbInv, RgaSwaps PROVE WbInv'
  OBVIOUS
<1>1. /\ cw = "rgaswap" /\ cw' = "ioctl" /\ dst' = None /\ held' = held /\ pset' = pset /\ queue' = queue /\ no' = no
      /\ wbFence' = wbFence /\ copy' = copy /\ sf' = sf /\ todo' = todo /\ vds' = vds /\ copy = <<>>
  BY DEF RgaSwaps, MutexFree, sfVars
<1>2. Current' = Current /\ Current = pset.c.n /\ Current \in Nat
  BY <1>1 DEF Current, WbInv, Numbered
<1>3. CASE isWBMode(rm)
  <2>1. /\ rm' = SwapWBBuffer(rm, pset.c.n) /\ jobs' = SetFinishFence(jobs, rm.next, "rga", pset.c.n)
        /\ CanDequeue(rm, rm.size) /\ past' = past \cup IF dst # rm.next THEN {"mixed"} ELSE {}
    BY <1>3 DEF RgaSwaps, Swap
  <2>2. past \cap Faults \subseteq past' /\ ("resized" \in past => "resized" \in past')
    BY <2>1
  <2> DEFINE by == "rga"
  <2>3. jobs' = SetFinishFence(jobs, rm.next, by, pset.c.n)
    BY <2>1
  <2>4. by = "rga"
    OBVIOUS
  <2> HIDE DEF by
  <2>5. /\ RingInv' /\ rm.next # None /\ rm'.drawing = rm.next
        /\ "resized" \notin past => rm'.next # rm.next
        /\ \A j \in jobs : j.fence # rm'.next
        /\ \A k \in jobs' : \E j \in jobs :
              /\ DOMAIN k = JobFields /\ k.buf = j.buf /\ k.n = j.n /\ k.by = j.by
              /\ k.fence = IF j.by = by /\ j.n = pset.c.n THEN rm.next ELSE IF j.fence = rm.next THEN None ELSE j.fence
    BY <1>1, <1>2, <1>3, <2>1, <2>2, <2>3, SwappedIs DEF WbInv
  <2>6. Numbered'
    BY <1>1, <1>2, <2>5 DEF WbInv, Numbered
  <2>7. Stages'
    BY <1>1, <2>2 DEF WbInv, Stages
  <2>8. Writing'
    <3> SUFFICES ASSUME past' \cap Faults = {}, NEW k \in jobs' PROVE Waited(k)'
      BY DEF Writing
    <3>1. past \cap Faults = {} /\ dst = rm.next
      BY <2>1, <2>2 DEF Faults
    <3>2. PICK j \in jobs :
            /\ k.buf = j.buf /\ k.n = j.n /\ k.by = j.by
            /\ k.fence = IF j.by = by /\ j.n = pset.c.n THEN rm.next ELSE IF j.fence = rm.next THEN None ELSE j.fence
      BY <2>5
    <3>3. (Waited(j) /\ j.n < Current) \/ (j.by = by /\ j.n = pset.c.n /\ j.buf = rm.next)
      BY <1>1, <1>2, <2>4, <3>1 DEF WbInv, Writing, Waited, Begun
    <3>4. j.n \in Nat /\ rm'.next # rm.next
      BY <2>5, <3>1 DEF WbInv, Numbered, Faults
    <3>5. (Waited(j) /\ (j.by = by => j.n # pset.c.n)) \/ (j.by = by /\ j.n = pset.c.n /\ j.buf = rm.next)
      BY <1>2, <3>3, <3>4
    <3>6. k.fence = k.buf /\ k.fence # rm'.next
      <4>1. j.fence # rm'.next
        BY <2>5
      <4> QED BY <3>2, <3>4, <3>5, <4>1 DEF Waited
    <3> QED BY <1>1, <1>2, <2>4, <3>2, <3>3, <3>6 DEF Waited
  <2>9. Copying'
    BY <1>1, <2>2 DEF WbInv, Copying
  <2> QED BY <2>5, <2>6, <2>7, <2>8, <2>9 DEF WbInv
<1>4. CASE ~isWBMode(rm)
  <2>1. rm' = rm /\ jobs' = jobs /\ past' = past \cup {"cut"}
    BY <1>4 DEF RgaSwaps, SwapsNothing
  <2>2. past' \cap Faults # {} /\ past \cap Faults \subseteq past' /\ ("resized" \in past => "resized" \in past')
    BY <2>1 DEF Faults
  <2>3. RingInv' /\ Numbered' /\ Copying'
    BY <1>1, <1>2, <2>1, <2>2, RingSame, NumberedSame, CopyingSame DEF WbInv
  <2>4. Stages' /\ Writing'
    BY <1>1, <2>2 DEF WbInv, Stages, Writing
  <2> QED BY <2>3, <2>4 DEF WbInv
<1> QED BY <1>3, <1>4

(* With the flip the VOP begins to write.                                    *)
LEMMA CommitsInv == WbInv /\ Commits => WbInv'
<1> SUFFICES ASSUME WbInv, Commits PROVE WbInv'
  OBVIOUS
<1> DEFINE k == [buf |-> held, n |-> pset.c.n, by |-> "vop", fence |-> None]
<1>1. /\ cw = "ioctl" /\ cw' = "tail" /\ rm' = rm /\ dst' = dst /\ held' = held /\ pset' = pset /\ queue' = queue
      /\ no' = no /\ copy' = copy /\ sf' = sf /\ todo' = todo /\ vds' = vds /\ wbFence' = (wbFence \/ held # None)
      /\ \A j \in jobs : j.by = "rga"
      /\ jobs' = jobs \/ (held # None /\ jobs' = jobs \cup {k})
  BY DEF Commits, sfVars
<1>2. Current' = Current /\ Current = pset.c.n /\ Current \in Nat
  BY <1>1 DEF Current, WbInv, Numbered
<1>3. past \cap Faults \subseteq past' /\ ("resized" \in past => "resized" \in past')
  BY DEF Commits, Faults
<1>4. DOMAIN k = JobFields /\ k.buf = held /\ k.n = Current /\ k.by = "vop" /\ k.fence = None
  BY <1>2 DEF JobFields
<1> HIDE DEF k
<1>5. RingInv'
  <2>1. Kept(rm)'
    BY <1>1, <1>4 DEF WbInv, RingInv, Kept
  <2> QED BY <1>1, <1>3, <2>1, RingKept DEF WbInv
<1>6. Numbered'
  BY <1>1, <1>2, <1>4 DEF WbInv, Numbered
<1>7. Stages'
  BY <1>1, <1>3 DEF WbInv, Stages
<1>8. Writing'
  BY <1>1, <1>2, <1>3, <1>4 DEF WbInv, Writing, Waited, Begun
<1>9. Copying'
  <2> SUFFICES ASSUME copy # <<>>, past \cap Faults = {} PROVE \A j \in jobs' : j.buf # copy.buf
    BY <1>1, <1>3 DEF WbInv, Copying
  <2>1. rm.drawing # None /\ copy.buf # rm.next /\ \A j \in jobs : j.buf # copy.buf
    BY DEF WbInv, Copying
  <2>2. held # None => held = rm.next
    BY <2>1 DEF WbInv, Stages
  <2> QED BY <1>1, <1>4, <2>1, <2>2
<1> QED BY <1>5, <1>6, <1>7, <1>8, <1>9 DEF WbInv

LEMMA CommitFailsInv == WbInv /\ CommitFails => WbInv'
<1> SUFFICES ASSUME WbInv, CommitFails PROVE WbInv'
  OBVIOUS
<1>1. /\ cw = "ioctl" /\ cw' = "idle" /\ rm' = rm /\ jobs' = jobs /\ dst' = dst /\ held' = None /\ queue' = queue
      /\ no' = no /\ copy' = copy /\ sf' = sf /\ todo' = todo /\ vds' = vds /\ wbFence' = wbFence
  BY DEF CommitFails, sfVars
<1>2. past \cap Faults \subseteq past' /\ ("resized" \in past => "resized" \in past')
  BY DEF CommitFails
<1>3. RingInv' /\ Numbered' /\ Copying'
  BY <1>1, <1>2, RingSame, NumberedSame, CopyingSame DEF WbInv
<1>4. Stages'
  BY <1>1, <1>2 DEF WbInv, Stages
<1>5. Writing'
  BY <1>1, <1>2 DEF WbInv, Writing, Waited, Begun
<1> QED BY <1>3, <1>4, <1>5 DEF WbInv

LEMMA CommitTailInv == WbInv /\ CommitTail => WbInv'
<1> SUFFICES ASSUME WbInv, CommitTail PROVE WbInv'
  OBVIOUS
<1>1. /\ cw = "tail" /\ cw' = "idle" /\ dst' = dst /\ held' = None /\ queue' = queue /\ no' = no
      /\ copy' = copy /\ sf' = sf /\ todo' = todo /\ vds' = vds /\ ~wbFence'
  BY DEF CommitTail, sfVars
<1>2. Current = pset.c.n /\ Current \in Nat
  BY <1>1 DEF Current, WbInv, Numbered
<1>3. CASE ~wbFence
  <2>1. rm' = rm /\ jobs' = jobs /\ past' = past
    BY <1>3 DEF CommitTail
  <2>2. held = None
    BY <1>1, <1>3 DEF WbInv, Stages
  <2>3. RingInv' /\ Numbered' /\ Copying'
    BY <1>1, <2>1, RingSame, NumberedSame, CopyingSame DEF WbInv
  <2>4. Stages'
    BY <1>1, <2>1 DEF WbInv, Stages
  <2>5. Writing'
    <3>1. \A j \in jobs : j.buf # None
      BY DEF WbInv, RingInv, Kept, Buffered
    <3> QED BY <1>1, <2>1, <2>2, <3>1 DEF WbInv, Writing, Waited, Begun
  <2> QED BY <2>3, <2>4, <2>5 DEF WbInv
<1>4. CASE wbFence /\ WbByVop(rm)
  <2>1. /\ rm' = SwapWBBuffer(rm, pset.c.n) /\ jobs' = SetFinishFence(jobs, rm.next, "vop", pset.c.n)
        /\ CanDequeue(rm, rm.size) /\ past' = past \cup IF held # rm.next THEN {"mixed"} ELSE {}
        /\ copy = <<>> /\ isWBMode(rm)
    BY <1>4 DEF CommitTail, Swap, MutexFree, WbByVop
  <2>2. past \cap Faults \subseteq past' /\ ("resized" \in past => "resized" \in past')
    BY <2>1
  <2> DEFINE by == "vop"
  <2>3. jobs' = SetFinishFence(jobs, rm.next, by, pset.c.n)
    BY <2>1
  <2>4. by = "vop"
    OBVIOUS
  <2> HIDE DEF by
  <2>5. /\ RingInv' /\ rm.next # None /\ rm'.drawing = rm.next
        /\ "resized" \notin past => rm'.next # rm.next
        /\ \A j \in jobs : j.fence # rm'.next
        /\ \A k \in jobs' : \E j \in jobs :
              /\ DOMAIN k = JobFields /\ k.buf = j.buf /\ k.n = j.n /\ k.by = j.by
              /\ k.fence = IF j.by = by /\ j.n = pset.c.n THEN rm.next ELSE IF j.fence = rm.next THEN None ELSE j.fence
    BY <1>1, <1>2, <2>1, <2>2, <2>3, SwappedIs DEF WbInv
  <2>6. Numbered'
    BY <1>1, <2>5 DEF WbInv, Numbered
  <2>7. Stages'
    BY <1>1, <2>2 DEF WbInv, Stages
  <2>8. Writing'
    <3> SUFFICES ASSUME past' \cap Faults = {}, NEW k \in jobs' PROVE Waited(k)'
      BY DEF Writing
    <3>1. past \cap Faults = {} /\ held = rm.next
      BY <2>1, <2>2 DEF Faults
    <3>2. PICK j \in jobs :
            /\ k.buf = j.buf /\ k.n = j.n /\ k.by = j.by
            /\ k.fence = IF j.by = by /\ j.n = pset.c.n THEN rm.next ELSE IF j.fence = rm.next THEN None ELSE j.fence
      BY <2>5
    <3>3. \/ Waited(j) /\ (j.n < Current \/ j.by = "rga")
          \/ j.by = by /\ j.n = pset.c.n /\ j.buf = rm.next
      BY <1>1, <1>2, <2>4, <3>1 DEF WbInv, Writing, Waited, Begun
    <3>4. j.n \in Nat /\ rm'.next # rm.next
      BY <2>5, <3>1 DEF WbInv, Numbered, Faults
    <3>5. (Waited(j) /\ (j.by = by => j.n # pset.c.n)) \/ (j.by = by /\ j.n = pset.c.n /\ j.buf = rm.next)
      BY <1>2, <2>4, <3>3, <3>4
    <3>6. k.fence = k.buf /\ k.fence # rm'.next
      <4>1. j.fence # rm'.next
        BY <2>5
      <4> QED BY <3>2, <3>4, <3>5, <4>1 DEF Waited
    <3> QED BY <1>1, <3>6 DEF Waited
  <2>9. Copying'
    BY <1>1, <2>1, <2>2 DEF WbInv, Copying
  <2> QED BY <2>5, <2>6, <2>7, <2>8, <2>9 DEF WbInv
<1>5. CASE wbFence /\ ~WbByVop(rm)
  <2>1. rm' = rm /\ jobs' = jobs /\ "cut" \in past' /\ past \subseteq past'
    BY <1>5 DEF CommitTail
  <2>2. past' \cap Faults # {} /\ past \cap Faults \subseteq past' /\ ("resized" \in past => "resized" \in past')
    BY <2>1 DEF Faults
  <2>3. RingInv' /\ Numbered' /\ Copying'
    BY <1>1, <2>1, <2>2, RingSame, NumberedSame, CopyingSame DEF WbInv
  <2>4. Stages' /\ Writing'
    BY <1>1, <2>2 DEF WbInv, Stages, Writing
  <2> QED BY <2>3, <2>4 DEF WbInv
<1> QED BY <1>3, <1>4, <1>5

(* A picture is complete.                                                    *)
LEMMA HardwareInv == WbInv /\ Hardware => WbInv'
<1> SUFFICES ASSUME WbInv, Hardware PROVE WbInv'
  OBVIOUS
<1>1. PICK j \in jobs : jobs' = jobs \ {j} /\ rm' = [rm EXCEPT !.buf[j.buf].n = j.n]
  BY DEF Hardware, JobFinishes
<1>2. /\ held' = held /\ dst' = dst /\ cw' = cw /\ pset' = pset /\ wbFence' = wbFence /\ queue' = queue /\ no' = no
      /\ copy' = copy /\ sf' = sf /\ todo' = todo /\ vds' = vds /\ past' = past /\ jobs' \subseteq jobs
  BY <1>1 DEF Hardware, JobFinishes, sfVars, cwVars
<1> DEFINE b == j.buf
           n == j.n
<1>3. b \in DOMAIN rm.buf /\ rm' = [rm EXCEPT !.buf[b].n = n]
  BY <1>1 DEF WbInv, RingInv, Kept
<1> HIDE DEF b, n
<1>4. /\ Buffered(rm') /\ Kept(rm') /\ Sessioned(rm') /\ (InTurn(rm) => InTurn(rm'))
      /\ rm'.next = rm.next /\ rm'.drawing = rm.drawing
  BY <1>3, WrittenIs DEF WbInv, RingInv
<1>5. RingInv'
  <2>1. Kept(rm)'
    BY <1>2, <1>4 DEF Kept
  <2>2. (Buffered(rm) /\ Sessioned(rm))'
    BY <1>4 DEF Buffered, Sessioned
  <2>3. ("resized" \in past \/ InTurn(rm))'
    BY <1>2, <1>4 DEF WbInv, RingInv, InTurn, Place, Full
  <2> QED BY <2>1, <2>2, <2>3 DEF RingInv
<1>6. Current' = Current
  BY <1>2 DEF Current
<1>7. Numbered' /\ Stages' /\ Writing' /\ Copying'
  BY <1>2, <1>4, <1>6, NumberedSame, StagesSame, WritingSame, CopyingSame DEF WbInv
<1> QED BY <1>5, <1>7 DEF WbInv

(***************************************************************************)
(* SurfaceFlinger's thread.                                                *)
(***************************************************************************)
LEMMA CreateInv == WbInv /\ RangeOf(dm) /\ connected \in BOOLEAN /\ CreateVirtualDisplay => WbInv'
<1> SUFFICES ASSUME WbInv, RangeOf(dm), connected \in BOOLEAN, CreateVirtualDisplay PROVE WbInv'
  OBVIOUS
<1> DEFINE z == size
           cable == connected
           y == WbSize([mode |-> ChooseWriteBackMode(cable, z)], z)
<1>1. /\ sf = "idle" /\ sf' = "idle" /\ todo' = todo /\ copy' = copy /\ jobs' = jobs /\ held' = held /\ dst' = dst
      /\ cw' = cw /\ pset' = pset /\ wbFence' = wbFence /\ queue' = queue /\ no' = no
      /\ rm' = EnableWriteBackMode(rm, cable, z)
      /\ isWBMode(rm) \/ ~cable \/ CanDequeue(rm, y)
  BY DEF CreateVirtualDisplay, cwVars
<1>2. z \in Sizes /\ cable \in BOOLEAN
  BY SizeIs
<1>3. past \cap Faults \subseteq past' /\ ("resized" \in past => "resized" \in past')
  BY DEF CreateVirtualDisplay
<1> HIDE DEF z, cable, y
<1>4. /\ Buffered(rm') /\ Kept(rm') /\ Sessioned(rm') /\ (InTurn(rm) => InTurn(rm')) /\ rm'.drawing = rm.drawing
      /\ rm.ref > 0 => rm'.next = rm.next
      /\ rm.ref <= 0 => /\ rm.drawing = None
                        /\ \/ rm'.next \in {None, rm.next} \/ rm'.next \notin DOMAIN rm.buf
                           \/ cable /\ Reuses(rm, y) /\ rm'.next = Head(rm.ring)
  BY <1>1, <1>2, EnableIs DEF WbInv, RingInv, y
<1>5. rm.ref \in Int /\ \A j \in jobs : j.buf # None /\ j.fence \in DOMAIN rm.buf \cup {None}
  BY DEF WbInv, RingInv, Sessioned, Kept, Buffered
<1>6. rm.ref > 0 \/ rm.ref <= 0
  BY <1>5
<1>7. \A j \in jobs : j.fence # None /\ j.fence # rm.next => j.fence # rm'.next
  <2>1. CASE rm.ref > 0
    BY <1>4, <2>1
  <2>2. CASE rm.ref <= 0
    <3>1. cable => CanDequeue(rm, y)
      BY <1>1, <1>5, <2>2 DEF isWBMode
    <3> QED BY <1>4, <1>5, <2>2, <3>1 DEF CanDequeue, Pending
  <2> QED BY <1>6, <2>1, <2>2
<1>8. RingInv'
  <2>1. Kept(rm)'
    BY <1>1, <1>4 DEF Kept
  <2>2. (Buffered(rm) /\ Sessioned(rm))'
    BY <1>4 DEF Buffered, Sessioned
  <2>3. ("resized" \in past \/ InTurn(rm))'
    BY <1>3, <1>4 DEF WbInv, RingInv, InTurn, Place, Full
  <2> QED BY <2>1, <2>2, <2>3 DEF RingInv
<1>9. Current' = Current
  BY <1>1 DEF Current
<1>10. Numbered'
  BY <1>1, <1>9, NumberedSame DEF WbInv
<1>11. Stages'
  BY <1>1, <1>3, <1>4, <1>6 DEF WbInv, Stages
<1>12. Writing'
  BY <1>1, <1>3, <1>5, <1>7, <1>9 DEF WbInv, Writing, Waited, Begun
<1>13. Copying'
  <2>1. copy' = <<>> /\ todo' = {}
    BY <1>1 DEF WbInv, Copying
  <2> QED BY <1>1, <2>1 DEF Copying
<1> QED BY <1>8, <1>10, <1>11, <1>12, <1>13 DEF WbInv

LEMMA DestroyInv == WbInv /\ DestroyVirtualDisplay => WbInv'
<1> SUFFICES ASSUME WbInv, DestroyVirtualDisplay PROVE WbInv'
  OBVIOUS
<1>1. /\ sf = "idle" /\ sf' = "idle" /\ todo' = todo /\ copy' = copy /\ jobs' = jobs /\ held' = held /\ dst' = dst
      /\ cw' = cw /\ pset' = pset /\ wbFence' = wbFence /\ queue' = queue /\ no' = no /\ past' = past
      /\ rm' = DisableWriteBackMode(rm)
  BY DEF DestroyVirtualDisplay, cwVars
<1>2. /\ Buffered(rm') /\ Kept(rm') /\ Sessioned(rm') /\ (InTurn(rm) => InTurn(rm'))
      /\ \/ rm'.next = rm.next /\ rm'.drawing = rm.drawing
         \/ rm'.next = None /\ rm'.drawing = None
  BY <1>1, DisableIs DEF WbInv, RingInv
<1>3. RingInv'
  <2>1. Kept(rm)'
    BY <1>1, <1>2 DEF Kept
  <2>2. (Buffered(rm) /\ Sessioned(rm))'
    BY <1>2 DEF Buffered, Sessioned
  <2>3. ("resized" \in past \/ InTurn(rm))'
    BY <1>1, <1>2 DEF WbInv, RingInv, InTurn, Place, Full
  <2> QED BY <2>1, <2>2, <2>3 DEF RingInv
<1>4. Current' = Current
  BY <1>1 DEF Current
<1>5. Numbered'
  BY <1>1, <1>4, NumberedSame DEF WbInv
<1>6. Stages'
  BY <1>1, <1>2 DEF WbInv, Stages
<1>7. Writing'
  <2>1. \A j \in jobs : j.buf # None
    BY DEF WbInv, RingInv, Kept, Buffered
  <2> QED BY <1>1, <1>2, <1>4, <2>1 DEF WbInv, Writing, Waited, Begun
<1>8. Copying'
  <2>1. copy' = <<>> /\ todo' = {}
    BY <1>1 DEF WbInv, Copying
  <2> QED BY <1>1, <2>1 DEF Copying
<1> QED BY <1>3, <1>5, <1>6, <1>7, <1>8 DEF WbInv

LEMMA PresentInv == WbInv /\ PresentDisplay => WbInv'
<1> SUFFICES ASSUME WbInv, PresentDisplay PROVE WbInv'
  OBVIOUS
<1>1. /\ sf # "mirror" /\ sf' = "mirror" /\ todo' = DOMAIN vds /\ vds' = vds /\ no' = no + 1 /\ copy' = copy
      /\ rm' = rm /\ jobs' = jobs /\ held' = held /\ dst' = dst
  BY DEF PresentDisplay, wbVars
<1>2. cw' = cw /\ pset' = pset /\ wbFence' = wbFence
  BY DEF PresentDisplay, ClearDisplay, ImportFails, cwVars
<1>3. past' = past \/ past' = past \cup {"failed"}
  BY DEF PresentDisplay, ImportFails
<1>4. queue' \in {queue, NoComp} \/ queue' = Composition
  BY DEF PresentDisplay, ClearDisplay, ImportFails, cwVars
<1>5. Current' = Current /\ Composition.n = no
  BY <1>2 DEF Current, Composition
<1>6. RingInv' /\ Stages' /\ Writing'
  BY <1>1, <1>2, <1>3, <1>5, RingSame, StagesSame, WritingSame DEF WbInv
<1>7. Numbered'
  <2> DEFINE c == Composition
  <2>1. c.n = no /\ queue' \in {queue, NoComp, c}
    BY <1>4, <1>5
  <2> HIDE DEF c
  <2> QED BY <1>1, <1>2, <1>5, <2>1 DEF WbInv, Numbered
<1>8. Copying'
  BY <1>1, <1>3 DEF WbInv, Copying
<1> QED BY <1>6, <1>7, <1>8 DEF WbInv

(* What is copied is not next, and nobody writes it: it is finished, or      *)
(* drawn.                                                                    *)
LEMMA OutputInv == WbInv /\ OutputWBBuffer => WbInv'
<1> SUFFICES ASSUME WbInv, OutputWBBuffer PROVE WbInv'
  OBVIOUS
<1>1. /\ sf = "mirror" /\ todo # {} /\ sf' = sf /\ todo' = todo /\ vds' = vds /\ no' = no /\ queue' = queue
      /\ rm' = rm /\ jobs' = jobs /\ held' = held /\ dst' = dst /\ cw' = cw /\ pset' = pset /\ wbFence' = wbFence
  BY DEF OutputWBBuffer, wbVars, cwVars
<1>2. PICK f \in ToOutput(rm, vds[NextDisplay].last) :
        /\ ~Pending(f.buf) /\ copy'.buf = f.buf
        /\ past' = past \cup IF f.buf = rm.next THEN {"overrun"} ELSE {}
  BY DEF OutputWBBuffer
<1>3. past \cap Faults \subseteq past' /\ ("resized" \in past => "resized" \in past')
  BY <1>2
<1>4. Current' = Current
  BY <1>1 DEF Current
<1>5. RingInv' /\ Numbered' /\ Stages' /\ Writing'
  BY <1>1, <1>3, <1>4, RingSame, NumberedSame, StagesSame, WritingSame DEF WbInv
<1>6. rm.drawing # None
  <2> SUFFICES ASSUME rm.drawing = None PROVE FALSE
    OBVIOUS
  <2>1. rm.finish = <<>>
    BY DEF WbInv, RingInv, Sessioned
  <2>2. \A last : {i \in DOMAIN rm.finish : rm.finish[i].no > last} = {}
    BY <2>1
  <2>3. ToOutput(rm, vds[NextDisplay].last) = {}
    BY <2>1, <2>2, Zenon DEF ToOutput
  <2> QED BY <1>2, <2>3
<1>7. ASSUME past' \cap Faults = {}
      PROVE  copy'.buf # rm.next /\ \A j \in jobs : j.buf # copy'.buf
  <2>1. past \cap Faults = {} /\ f.buf # rm.next
    BY <1>2, <1>3, <1>7 DEF Faults
  <2>2. \A j \in jobs : j.buf # None
    BY DEF WbInv, RingInv, Kept, Buffered
  <2>3. ASSUME NEW j \in jobs, j.buf = f.buf PROVE FALSE
    <3>1. j.fence # j.buf
      BY <1>2, <2>3 DEF Pending
    <3>2. j.buf \in {held, dst} /\ j.buf # None
      BY <2>1, <2>2, <3>1 DEF WbInv, Writing, Waited, Begun
    <3>3. {held, dst} \subseteq {None, rm.next}
      BY <1>6, <2>1 DEF WbInv, Stages
    <3> QED BY <2>1, <2>3, <3>2, <3>3
  <2> QED BY <1>2, <2>1, <2>3
<1>8. Copying'
  <2>1. past' \cap Faults = {} => /\ rm'.drawing # None /\ copy'.buf # rm'.next
                                  /\ \A j \in jobs' : j.buf # copy'.buf
    BY <1>1, <1>6, <1>7
  <2> QED BY <1>1, <2>1 DEF WbInv, Copying
<1> QED BY <1>5, <1>8 DEF WbInv

(* The other steps between frames of the virtual displays.                   *)
LEMMA MirrorInv == WbInv /\ (OutputDone \/ PresentsClientTarget \/ CycleEnds) => WbInv'
<1> SUFFICES ASSUME WbInv, OutputDone \/ PresentsClientTarget \/ CycleEnds PROVE WbInv'
  OBVIOUS
<1>1. /\ no' = no /\ queue' = queue /\ past' = past
      /\ rm' = rm /\ jobs' = jobs /\ held' = held /\ dst' = dst /\ cw' = cw /\ pset' = pset /\ wbFence' = wbFence
  BY DEF OutputDone, PresentsClientTarget, CycleEnds, wbVars, cwVars
<1>2. Current' = Current
  BY <1>1 DEF Current
<1>3. RingInv' /\ Numbered' /\ Stages' /\ Writing'
  BY <1>1, <1>2, RingSame, NumberedSame, StagesSame, WritingSame DEF WbInv
<1>4. Copying'
  <2>1. CASE OutputDone
    <3>1. copy' = <<>> /\ sf' = sf /\ sf = "mirror" /\ todo' \subseteq todo
      BY <2>1 DEF OutputDone, PresentedVirtual, WbInv, Copying
    <3>2. DOMAIN vds' = DOMAIN vds
      BY <2>1 DEF OutputDone
    <3> QED BY <3>1, <3>2 DEF WbInv, Copying
  <2>2. CASE PresentsClientTarget
    <3>1. copy' = <<>> /\ sf' = sf /\ sf = "mirror" /\ todo' \subseteq todo /\ vds' = vds
      BY <2>2 DEF PresentsClientTarget, PresentedVirtual
    <3> QED BY <3>1 DEF WbInv, Copying
  <2>3. CASE CycleEnds
    <3>1. copy' = copy /\ todo' = {} /\ todo = {} /\ vds' = vds /\ sf' = "idle"
      BY <2>3 DEF CycleEnds
    <3> QED BY <3>1 DEF WbInv, Copying
  <2> QED BY <2>1, <2>2, <2>3
<1> QED BY <1>3, <1>4 DEF WbInv

(***************************************************************************)
(* All the steps.                                                          *)
(***************************************************************************)
LEMMA WbInvInit == Init => WbInv
<1> SUFFICES ASSUME Init PROVE WbInv
  OBVIOUS
<1>1. rm = [ref |-> 0, mode |-> "none", owner |-> -1, size |-> 0, next |-> None,
            drawing |-> None, finish |-> <<>>, ring |-> <<>>, max |-> 0, buf |-> <<>>]
      /\ jobs = {} /\ held = None /\ dst = None
  BY DEF Init, WritebackInit
<1>2. /\ DOMAIN rm = RmFields /\ rm.ref = 0 /\ rm.mode = "none" /\ rm.owner = -1 /\ rm.next = None /\ rm.drawing = None
      /\ rm.finish = <<>> /\ rm.ring = <<>> /\ rm.max = 0 /\ rm.buf = <<>>
  BY <1>1 DEF RmFields
<1>3. Buffered(rm)
  <2>1. DOMAIN rm.buf = {} /\ IsFiniteSet({})
    BY <1>2, FS_EmptySet
  <2>2. <<>> \in Seq(DOMAIN rm.buf) /\ Len(<<>>) = 0 /\ <<>> \in Seq([no : Nat, buf : DOMAIN rm.buf])
    OBVIOUS
  <2>3. IsInjective(<<>>)
    BY DEF IsInjective
  <2> QED BY <1>2, <2>1, <2>2, <2>3, MaxIs DEF Buffered
<1>4. Sessioned(rm) /\ Kept(rm)
  BY <1>1, <1>2 DEF Sessioned, Kept
<1>5. InTurn(rm)
  <2>1. 1 .. Len(rm.finish) = {}
    BY <1>2
  <2> QED BY <1>2, <2>1, Zenon DEF InTurn
<1>6. Numbered /\ Stages /\ Writing /\ Copying
  BY <1>1 DEF Init, Numbered, Stages, Writing, Copying, NoComp
<1> QED BY <1>3, <1>4, <1>5, <1>6 DEF WbInv, RingInv

LEMMA WbInvStep == WbInv /\ RangeOf(dm) /\ connected \in BOOLEAN /\ [Next]_vars => WbInv'
<1> SUFFICES ASSUME WbInv, RangeOf(dm), connected \in BOOLEAN, [Next]_vars PROVE WbInv'
  OBVIOUS
<1> USE DEF sfVars, cwVars
<1>1. CASE SetsLayers \/ SetsConfig \/ RequestsMode \/ TellsTimeline
  BY <1>1, WbSame DEF SetsLayers, SetsConfig, RequestsMode, TellsTimeline, Unswitched
<1>2. CASE UpdatesMode
  <2>1. /\ IF Clears(dm) THEN ClearDisplay ELSE UNCHANGED <<cwVars, lb>>
        /\ UNCHANGED <<wbVars, copy, todo, vds, no>> /\ sf = "idle" /\ sf' = "validate"
    BY <1>2 DEF UpdatesMode, Starts
  <2>2. UNCHANGED <<cw, pset, wbFence>> /\ queue' \in {queue, NoComp}
    BY <2>1 DEF ClearDisplay
  <2>3. past \subseteq past'
    BY <1>2 DEF UpdatesMode, Unswitched
  <2> QED BY <2>1, <2>2, <2>3, WbSame
<1>3. CASE ValidateDisplay \/ CountsConfigs \/ ReadsConfigs \/ SetsClientTarget
  <2>1. /\ UNCHANGED <<wbVars, cw, pset, wbFence, copy, todo, vds, no, queue, past>> /\ "mirror" \notin {sf, sf'}
    BY <1>3 DEF ValidateDisplay, Starts, CountsConfigs, ReadsConfigs, SetsClientTarget
  <2> QED BY <2>1, WbSame
<1>4. CASE PresentDisplay
  BY <1>4, PresentInv
<1>5. CASE OutputWBBuffer
  BY <1>5, OutputInv
<1>6. CASE OutputDone \/ PresentsClientTarget \/ CycleEnds
  BY <1>6, MirrorInv
<1>7. CASE CreateVirtualDisplay
  BY <1>7, CreateInv
<1>8. CASE DestroyVirtualDisplay
  BY <1>8, DestroyInv
<1>9. CASE Collect \/ CollectSize \/ CollectNext
  BY <1>9, CollectInv, CollectSizeInv, CollectNextInv
<1>10. CASE WriteBackByRGA \/ RgaSwaps
  BY <1>10, WriteBackByRGAInv, RgaSwapsInv
<1>11. CASE Commits \/ CommitFails \/ CommitTail
  BY <1>11, CommitsInv, CommitFailsInv, CommitTailInv
<1>12. CASE Hardware
  BY <1>12, HardwareInv
<1>13. CASE Iw \/ Alarm \/ MoveCable
  BY <1>13, WbSame DEF Iw, Alarm, MoveCable
<1>14. CASE EventThread
  <2>1. /\ UNCHANGED <<wbVars, cw, pset, wbFence, copy, todo, vds, no, sf, past>> /\ queue' \in {queue, NoComp}
    BY <1>14 DEF EventThread, EventTaken, EventClears, EventReinits, EventConfigures, EventRefreshes, ClearDisplay
  <2> QED BY <2>1, WbSame
<1>15. CASE UNCHANGED vars
  BY <1>15, WbSame DEF vars
<1> QED
  BY <1>1, <1>2, <1>3, <1>4, <1>5, <1>6, <1>7, <1>8, <1>9, <1>10, <1>11, <1>12, <1>13, <1>14, <1>15
  DEF Next, SfGoesOn, Compositor

(* The cable is in or out.                                                   *)
LEMMA CableInit == Init => connected \in BOOLEAN
  BY DEF Init

LEMMA CableStep == connected \in BOOLEAN /\ [Next]_vars => connected' \in BOOLEAN
<1> SUFFICES ASSUME connected \in BOOLEAN, [Next]_vars PROVE connected' \in BOOLEAN
  OBVIOUS
<1> USE DEF sfVars, cwVars, wbVars, refreshVars
<1>1. connected' = connected \/ MoveCable
  BY DEF Next, SfGoesOn, Compositor, EventThread, vars, SetsLayers, UpdatesMode, ValidateDisplay, CountsConfigs,
      ReadsConfigs, SetsClientTarget, PresentDisplay, OutputWBBuffer, OutputDone, PresentsClientTarget, CycleEnds,
      SetsConfig, RequestsMode, TellsTimeline, CreateVirtualDisplay, DestroyVirtualDisplay, Collect, CollectSize,
      CollectNext, WriteBackByRGA, RgaSwaps, Commits, CommitFails, CommitTail, Iw, Alarm, Hardware,
      EventTaken, EventClears, EventReinits, EventConfigures, EventRefreshes
<1> QED BY <1>1 DEF MoveCable

(***************************************************************************)
(* The recording's buffers.                                                *)
(***************************************************************************)
LEMMA TurnsApart ==
  ASSUME NEW r, Buffered(r), Sessioned(r), InTurn(r)
  PROVE  /\ r.next = None \/ r.next # r.drawing
         /\ \A i \in DOMAIN r.finish : \/ r.finish[i].buf \notin {r.next, r.drawing}
                                       \/ i = 1 /\ Len(r.finish) = 3 /\ r.finish[1].buf = r.next
<1> DEFINE R == r.ring
           L == Len(R)
           k == Len(r.finish)
<1>1. L \in Nat /\ k \in Nat /\ k < 4 /\ DOMAIN R = 1 .. L /\ DOMAIN r.finish = 1 .. k /\ r.max \in {0, 4, 6}
  BY MaxIs, LenProperties DEF Buffered
<1>2. \A i, j \in 1 .. L : R[i] = R[j] => i = j
  <2>1. IsInjective(R)
    BY DEF Buffered
  <2> HIDE DEF R, L
  <2> QED BY <1>1, <2>1 DEF IsInjective
<1>3. /\ r.next # None => L > 0 /\ r.next = R[L]
      /\ r.drawing # None => L > 1 /\ r.drawing = R[L - 1] /\ r.next # None
  BY DEF InTurn
<1>4. k > 0 => r.drawing # None
  BY DEF Sessioned
<1>5. ASSUME NEW i \in 1 .. k, r.finish[i].buf \in {r.next, r.drawing}
      PROVE  i = 1 /\ k = 3 /\ r.finish[1].buf = r.next
  <2> DEFINE p == L - 2 - (k - i)
             b == r.finish[i].buf
  <2>1. /\ p >= 0
        /\ p > 0 => b = R[p]
        /\ p = 0 => L = r.max /\ \A l \in 1 .. L : l < L => b # R[l]
    BY DEF InTurn, Place, Full
  <2>2. b \in {r.next, r.drawing}
    BY <1>5
  <2> HIDE DEF R, L, k, b, p
  <2>3. p = L - 2 - (k - i) /\ p \in Int
    BY <1>1 DEF p
  <2>4. r.drawing = R[L - 1] /\ r.next = R[L] /\ L > 1
    BY <1>1, <1>3, <1>4
  <2>5. ~(p > 0)
    <3> SUFFICES ASSUME p > 0 PROVE FALSE
      OBVIOUS
    <3>1. p \in 1 .. L /\ L \in 1 .. L /\ L - 1 \in 1 .. L /\ p # L /\ p # L - 1
      BY <1>1, <2>3, <2>4
    <3> QED BY <1>2, <2>1, <2>2, <2>4, <3>1
  <2>6. p = 0
    BY <2>1, <2>3, <2>5
  <2>7. i = 1 /\ k = 3
    BY <1>1, <2>1, <2>3, <2>4, <2>6
  <2>8. b # R[L - 1]
    BY <1>1, <2>1, <2>4, <2>6
  <2>9. b = r.next
    BY <2>2, <2>4, <2>8
  <2> QED BY <2>7, <2>9 DEF b
<1>6. r.next = None \/ r.next # r.drawing
  <2> SUFFICES ASSUME r.next # None, r.drawing # None PROVE r.next # r.drawing
    OBVIOUS
  <2> HIDE DEF R, L
  <2>1. L \in 1 .. L /\ L - 1 \in 1 .. L /\ L # L - 1
    BY <1>1, <1>3
  <2> QED BY <1>2, <1>3, <2>1
<1> QED BY <1>1, <1>5, <1>6

FrontInv == WbInv /\ RangeOf(dm) /\ connected \in BOOLEAN

(* The buffer written next is neither the one drawn nor a finished one, but  *)
(* for the oldest of a full queue, and no picture is written into a buffer   *)
(* that is being copied, with the same exception and unless the session was  *)
(* made anew or ended while a commit was under way; until the size changes:  *)
(* DequeueDrmBuffer(), QueueBuffer(), SwapWBBuffer() and OutputWBBuffer(),   *)
(* called by three threads.                                                  *)
THEOREM RecordingApart == Spec => []BuffersApart
<1>1. Init => FrontInv
  BY WbInvInit, RangeInit, CableInit DEF FrontInv
<1>2. FrontInv /\ [Next]_vars => FrontInv'
  BY WbInvStep, RangeStep, CableStep DEF FrontInv
<1>3. FrontInv => BuffersApart
  <2> SUFFICES ASSUME FrontInv, "resized" \notin past PROVE BuffersApart
    BY DEF BuffersApart
  <2>1. /\ rm.next = None \/ rm.next # rm.drawing
        /\ \A i \in DOMAIN rm.finish : \/ rm.finish[i].buf \notin {rm.next, rm.drawing}
                                       \/ i = 1 /\ Len(rm.finish) = 3 /\ rm.finish[1].buf = rm.next
    BY TurnsApart DEF FrontInv, WbInv, RingInv
  <2>2. copy # <<>> => \A j \in jobs : j.buf = copy.buf => past \cap {"overrun", "mixed", "cut"} # {}
    BY DEF FrontInv, WbInv, Copying, Faults
  <2> QED BY <2>1, <2>2 DEF BuffersApart
<1> QED BY <1>1, <1>2, <1>3, PTL DEF Spec

(***************************************************************************)
(* Types of the front end.                                                 *)
(***************************************************************************)
SfStages == {"idle", "configs", "validate", "present", "target", "mirror"}

(* What the types need beyond the other invariants: a request is there       *)
(* exactly while the compositor works on it.                                 *)
RequestAlive == pset = <<>> <=> cw = "idle"
Displays   == IsFiniteSet(DOMAIN vds) /\ DOMAIN vds \subseteq Nat
Situation  == DOMAIN setup = SetupFields /\ setup.kinds \subseteq Kinds /\ kind \in Kinds
Sent       == wire.eotf \in setup.sink \cup {"sdr"} /\ wire.depth \in {24, 30}
Flags      == sf \in SfStages /\ wbFence \in BOOLEAN /\ pending \subseteq {"hotplug", "mode"}

(* The refreshes asked for: for ever, a few, or the one of the timer.        *)
Refreshing ==
  /\ control \in {-1, 0, 1, 2} /\ iw \in {"wait", "sleep"}
  /\ wanted \in BOOLEAN /\ timerOn \in BOOLEAN /\ armed \in BOOLEAN /\ opt \in BOOLEAN /\ calledOff \in BOOLEAN

LEMMA RefreshingIs == RefreshTypeOK <=> Refreshing
<1>1. -1 .. 2 = {-1, 0, 1, 2}
  OBVIOUS
<1>2. {wanted, timerOn, armed, opt, calledOff} \subseteq BOOLEAN <=>
        wanted \in BOOLEAN /\ timerOn \in BOOLEAN /\ armed \in BOOLEAN /\ opt \in BOOLEAN /\ calledOff \in BOOLEAN
  BY Zenon
<1> QED BY <1>1, <1>2, Zenon DEF RefreshTypeOK, Refreshing

LEMMA TypesInit == Init => Refreshing /\ RequestAlive /\ Displays /\ Situation /\ Sent /\ Flags
<1> SUFFICES ASSUME Init PROVE Refreshing /\ RequestAlive /\ Displays /\ Situation /\ Sent /\ Flags
  OBVIOUS
<1>1. Refreshing
  BY DEF Init, RefreshInit, Refreshing
<1>2. RequestAlive /\ Sent /\ Flags
  BY DEF Init, RequestAlive, Sent, Flags, SfStages
<1>3. DOMAIN vds = {}
  BY DEF Init
<1>4. Displays
  BY <1>3, FS_EmptySet DEF Displays
<1>5. DOMAIN setup = SetupFields /\ setup.kinds \subseteq Kinds
  BY HwcDisplayAssumption DEF Init, Setup, SetupFields
<1>6. kind \in Kinds
  BY DEF Init, Kinds
<1> QED BY <1>1, <1>2, <1>4, <1>5, <1>6 DEF Situation

LEMMA RefreshStep == Refreshing /\ [Next]_vars => Refreshing'
<1> SUFFICES ASSUME Refreshing, [Next]_vars PROVE Refreshing'
  OBVIOUS
<1> USE DEF refreshVars, Refreshing
<1>1. CASE UNCHANGED refreshVars
  BY <1>1
<1>2. CASE ValidateDisplay
  <2>1. wanted' = FALSE /\ UNCHANGED <<iw, armed, opt>>
    BY <1>2 DEF ValidateDisplay
  <2>2. timerOn' = timerOn \/ timerOn' = (kind' \in {"ui", "accelerated"})
    BY <1>2, Zenon DEF ValidateDisplay, UpdateTimerEnable
  <2>3. \/ UNCHANGED <<control, calledOff>>
        \/ control' = -1 /\ calledOff' = (calledOff \/ (-1 = 0 /\ ~armed))
    BY <1>2, Zenon DEF ValidateDisplay, SelfRefreshEnable, InvalidateControl
  <2>4. timerOn' \in BOOLEAN
    <3>1. (kind' \in {"ui", "accelerated"}) \in BOOLEAN
      OBVIOUS
    <3> QED BY <2>2, <3>1, Zenon
  <2>5. control' \in {-1, 0, 1, 2} /\ calledOff' \in BOOLEAN
    BY <2>3
  <2> QED BY <2>1, <2>4, <2>5
<1>3. CASE PresentDisplay
  BY <1>3 DEF PresentDisplay, UpdateTimerState
<1>4. CASE CreateVirtualDisplay \/ DestroyVirtualDisplay \/ EventRefreshes
  BY <1>4 DEF CreateVirtualDisplay, DestroyVirtualDisplay, EventRefreshes, InvalidateControl, Refreshes
<1>5. CASE Iw
  <2>1. iw' \in {"wait", "sleep"} /\ UNCHANGED <<timerOn, armed, opt, calledOff>>
    BY <1>5 DEF Iw, IwChecks, IwTicks
  <2>2. control' = control \/ (control > 0 /\ control' = control - 1)
    BY <1>5 DEF Iw, IwChecks, IwTicks
  <2>3. wanted' = wanted \/ wanted' = (wanted \/ Enabled)
    BY <1>5, Zenon DEF Iw, IwChecks, IwTicks
  <2>4. wanted' \in BOOLEAN
    BY <2>3
  <2> QED BY <2>1, <2>2, <2>4
<1>6. CASE Alarm
  BY <1>6 DEF Alarm, StaticScreenOptHandler
<1>7. \/ UNCHANGED refreshVars \/ ValidateDisplay \/ PresentDisplay \/ CreateVirtualDisplay \/ DestroyVirtualDisplay
      \/ EventRefreshes \/ Iw \/ Alarm
  BY DEF Next, SfGoesOn, Compositor, EventThread, vars, SetsLayers, UpdatesMode, CountsConfigs,
      ReadsConfigs, SetsClientTarget, OutputWBBuffer, OutputDone, PresentsClientTarget, CycleEnds,
      SetsConfig, RequestsMode, TellsTimeline, Collect, CollectSize, CollectNext, WriteBackByRGA, RgaSwaps,
      Commits, CommitFails, CommitTail, Hardware, MoveCable, EventTaken, EventClears, EventReinits, EventConfigures
<1> QED BY <1>1, <1>2, <1>3, <1>4, <1>5, <1>6, <1>7

(* An id is counted from the displays there are.                             *)
LEMMA DisplaysStep == Displays /\ [Next]_vars => Displays'
<1> SUFFICES ASSUME Displays, [Next]_vars PROVE Displays'
  OBVIOUS
<1> USE DEF sfVars
<1>1. CASE vds' = vds
  BY <1>1 DEF Displays
<1>2. CASE CreateVirtualDisplay
  <2>1. PICK id \in {Cardinality(DOMAIN vds)} : DOMAIN vds' = DOMAIN vds \cup {id}
    BY <1>2 DEF CreateVirtualDisplay
  <2>2. id \in Nat
    BY <2>1, FS_CardinalityType DEF Displays
  <2> QED BY <2>1, <2>2, FS_AddElement DEF Displays
<1>3. CASE DestroyVirtualDisplay
  <2>1. DOMAIN vds' \subseteq DOMAIN vds
    BY <1>3 DEF DestroyVirtualDisplay, Restrict
  <2> QED BY <2>1, FS_Subset DEF Displays
<1>4. CASE OutputDone
  <2>1. DOMAIN vds' = DOMAIN vds
    BY <1>4, SMTT(30) DEF OutputDone
  <2> QED BY <2>1 DEF Displays
<1>5. vds' = vds \/ CreateVirtualDisplay \/ DestroyVirtualDisplay \/ OutputDone
  BY DEF Next, SfGoesOn, Compositor, EventThread, vars, SetsLayers, UpdatesMode, ValidateDisplay, CountsConfigs,
      ReadsConfigs, SetsClientTarget, PresentDisplay, OutputWBBuffer, PresentsClientTarget, CycleEnds,
      SetsConfig, RequestsMode, TellsTimeline, Collect, CollectSize, CollectNext, WriteBackByRGA, RgaSwaps,
      Commits, CommitFails, CommitTail, Iw, Alarm, Hardware, MoveCable,
      EventTaken, EventClears, EventReinits, EventConfigures, EventRefreshes
<1> QED BY <1>1, <1>2, <1>3, <1>4, <1>5

LEMMA RequestIs == \A c, off, switch : [c |-> c, off |-> off, switch |-> switch] # <<>>
<1> SUFFICES ASSUME NEW c, NEW off, NEW switch, [c |-> c, off |-> off, switch |-> switch] = <<>> PROVE FALSE
  OBVIOUS
<1>1. DOMAIN [c |-> c, off |-> off, switch |-> switch] = DOMAIN <<>>
  OBVIOUS
<1>2. "c" \in DOMAIN [c |-> c, off |-> off, switch |-> switch] /\ DOMAIN <<>> = {}
  OBVIOUS
<1> QED BY <1>1, <1>2

LEMMA RequestStep == RequestAlive /\ [Next]_vars => RequestAlive'
<1> SUFFICES ASSUME RequestAlive, [Next]_vars PROVE RequestAlive'
  OBVIOUS
<1> USE DEF cwVars
<1>1. CASE UNCHANGED <<pset, cw>>
  BY <1>1 DEF RequestAlive
<1>2. CASE Collect \/ CollectNext
  <2>1. \/ cw' = "size" /\ pset' = queue /\ queue # <<>>
        \/ cw' = "rga" /\ \E c, off, switch : pset' = [c |-> c, off |-> off, switch |-> switch]
        \/ cw' = "idle" /\ pset' = <<>>
    BY <1>2 DEF Collect, CollectNext, CollectCommitInfo, CollectModeSetInfo, Reject, NoComp
  <2> QED BY <2>1, RequestIs DEF RequestAlive
<1>3. CASE CollectSize \/ CommitFails \/ CommitTail
  BY <1>3 DEF RequestAlive, CollectSize, Reject, CommitFails, CommitTail
<1>4. CASE WriteBackByRGA \/ RgaSwaps \/ Commits
  BY <1>4 DEF RequestAlive, WriteBackByRGA, RgaSwaps, Commits
<1>5. \/ UNCHANGED <<pset, cw>> \/ Collect \/ CollectNext \/ CollectSize \/ CommitFails \/ CommitTail
      \/ WriteBackByRGA \/ RgaSwaps \/ Commits
  BY DEF Next, SfGoesOn, Compositor, EventThread, vars, SetsLayers, UpdatesMode, ValidateDisplay, CountsConfigs,
      ReadsConfigs, SetsClientTarget, PresentDisplay, ImportFails, OutputWBBuffer, OutputDone, PresentsClientTarget,
      CycleEnds, SetsConfig, RequestsMode, TellsTimeline, CreateVirtualDisplay, DestroyVirtualDisplay, ClearDisplay,
      Iw, Alarm, Hardware, MoveCable, EventTaken, EventClears, EventReinits, EventConfigures, EventRefreshes
<1> QED BY <1>1, <1>2, <1>3, <1>4, <1>5

(* What is left of the situation; its sink and its applications stay.        *)
LEMMA SituationStep ==
  Situation /\ Sent /\ [Next]_vars => Situation' /\ setup'.sink = setup.sink
<1> SUFFICES ASSUME Situation, Sent, [Next]_vars PROVE Situation' /\ setup'.sink = setup.sink
  OBVIOUS
<1>1. \/ setup' = [setup EXCEPT !.swaps = @ - 1]   \/ setup' = [setup EXCEPT !.fails = @ - 1]
      \/ setup' = [setup EXCEPT !.app = @ - 1]     \/ setup' = [setup EXCEPT !.moves = @ - 1]
      \/ setup' = [setup EXCEPT !.resizes = @ - 1] \/ setup' = [setup EXCEPT !.sessions = @ - 1]
      \/ setup' = [setup EXCEPT !.resizes = @ - 1, !.fails = @ - 1] \/ setup' = setup
  BY DEF Next, SfGoesOn, Compositor, EventThread, vars, SetsLayers, UpdatesMode, Fails, ValidateDisplay, CountsConfigs,
      ReadsConfigs, SetsClientTarget, PresentDisplay, ImportFails, OutputWBBuffer, OutputDone, PresentsClientTarget,
      CycleEnds, SetsConfig, RequestsMode, TellsTimeline, CreateVirtualDisplay, DestroyVirtualDisplay,
      Collect, CollectSize, CollectNext, WriteBackByRGA, RgaSwaps, Commits, CommitFails, CommitTail,
      Iw, Alarm, Hardware, MoveCable, EventTaken, EventClears, EventReinits, EventConfigures, EventRefreshes
<1>2. DOMAIN setup' = SetupFields /\ setup'.sink = setup.sink /\ setup'.kinds = setup.kinds
  BY <1>1, SinkKept DEF Situation
<1>3. kind' = kind \/ kind' \in setup.kinds
  BY DEF Next, SfGoesOn, Compositor, EventThread, vars, sfVars, SetsLayers, UpdatesMode, ValidateDisplay, CountsConfigs,
      ReadsConfigs, SetsClientTarget, PresentDisplay, OutputWBBuffer, OutputDone, PresentsClientTarget,
      CycleEnds, SetsConfig, RequestsMode, TellsTimeline, CreateVirtualDisplay, DestroyVirtualDisplay,
      Collect, CollectSize, CollectNext, WriteBackByRGA, RgaSwaps, Commits, CommitFails, CommitTail,
      Iw, Alarm, Hardware, MoveCable, EventTaken, EventClears, EventReinits, EventConfigures, EventRefreshes
<1> QED BY <1>2, <1>3 DEF Situation

LEMMA SentStep == Situation /\ Sent /\ [Next]_vars => Sent'
<1> SUFFICES ASSUME Situation, Sent, [Next]_vars PROVE Sent'
  OBVIOUS
<1>1. wire' = wire \/ \E s : wire' = Wire(s)
  BY DEF Next, SfGoesOn, Compositor, EventThread, vars, cwVars, SetsLayers, UpdatesMode, ValidateDisplay, CountsConfigs,
      ReadsConfigs, SetsClientTarget, PresentDisplay, ImportFails, OutputWBBuffer, OutputDone, PresentsClientTarget,
      CycleEnds, SetsConfig, RequestsMode, TellsTimeline, CreateVirtualDisplay, DestroyVirtualDisplay, ClearDisplay,
      Collect, CollectSize, CollectNext, Reject, WriteBackByRGA, RgaSwaps, Commits, CommitFails, CommitTail,
      Iw, Alarm, Hardware, MoveCable, EventTaken, EventClears, EventReinits, EventConfigures, EventRefreshes
<1>2. setup'.sink = setup.sink
  BY SituationStep
<1>3. \A s : Wire(s).eotf \in setup.sink \cup {"sdr"} /\ Wire(s).depth \in {24, 30}
  BY DEF Wire, SdrDepth
<1> QED BY <1>1, <1>2, <1>3 DEF Sent

LEMMA FlagsStep == Flags /\ [Next]_vars => Flags'
<1> SUFFICES ASSUME Flags, [Next]_vars PROVE Flags'
  OBVIOUS
<1> USE DEF sfVars, cwVars, wbVars, refreshVars
<1>1. sf' = sf \/ sf' \in SfStages
  BY DEF Next, SfGoesOn, Compositor, EventThread, vars, SetsLayers, UpdatesMode, ValidateDisplay, CountsConfigs,
      ReadsConfigs, SetsClientTarget, PresentDisplay, OutputWBBuffer, OutputDone, PresentsClientTarget,
      CycleEnds, SetsConfig, RequestsMode, TellsTimeline, CreateVirtualDisplay, DestroyVirtualDisplay,
      Collect, CollectSize, CollectNext, WriteBackByRGA, RgaSwaps, Commits, CommitFails, CommitTail, SfStages,
      Iw, Alarm, Hardware, MoveCable, EventTaken, EventClears, EventReinits, EventConfigures, EventRefreshes
<1>2. wbFence' = wbFence \/ wbFence' \in BOOLEAN
  BY DEF Next, SfGoesOn, Compositor, EventThread, vars, SetsLayers, UpdatesMode, ValidateDisplay, CountsConfigs,
      ReadsConfigs, SetsClientTarget, PresentDisplay, ImportFails, OutputWBBuffer, OutputDone, PresentsClientTarget,
      CycleEnds, SetsConfig, RequestsMode, TellsTimeline, CreateVirtualDisplay, DestroyVirtualDisplay, ClearDisplay,
      Collect, CollectSize, CollectNext, Reject, WriteBackByRGA, RgaSwaps, Commits, CommitFails, CommitTail,
      Iw, Alarm, Hardware, MoveCable, EventTaken, EventClears, EventReinits, EventConfigures, EventRefreshes
<1>3. pending' = {} \/ pending' \subseteq pending \cup {"hotplug", "mode"}
  BY DEF Next, SfGoesOn, Compositor, EventThread, vars, SetsLayers, UpdatesMode, ValidateDisplay, CountsConfigs,
      ReadsConfigs, SetsClientTarget, PresentDisplay, TellsMode, OutputWBBuffer, OutputDone, PresentsClientTarget,
      CycleEnds, SetsConfig, RequestsMode, TellsTimeline, CreateVirtualDisplay, DestroyVirtualDisplay,
      Collect, CollectSize, CollectNext, WriteBackByRGA, RgaSwaps, Commits, CommitFails, CommitTail,
      Iw, Alarm, Hardware, MoveCable, EventTaken, EventClears, EventReinits, EventConfigures, EventRefreshes
<1> QED BY <1>1, <1>2, <1>3 DEF Flags

TypeInv == /\ FrontInv /\ Known /\ ModesInv
           /\ Refreshing /\ RequestAlive /\ Displays /\ Situation /\ Sent /\ Flags

(* The types of the front end, of the refresh workers and of the recording:  *)
(* what PresentDisplay(), the compositor's thread and ResourceManager keep   *)
(* at any time.                                                              *)
THEOREM FrontEndTyped == Spec => []TypeOK
<1>1. Init => TypeInv
  <2>1. Init => Known
    BY DEF Init, Known, AttachedOf
  <2> QED BY <2>1, WbInvInit, RangeInit, CableInit, ModesInvInit, TypesInit DEF TypeInv, FrontInv
<1>2. TypeInv /\ [Next]_vars => TypeInv'
  BY WbInvStep, RangeStep, CableStep, KnownStep, ModesInvStep, RefreshStep, RequestStep, DisplaysStep, SituationStep,
     SentStep, FlagsStep
  DEF TypeInv, FrontInv
<1>3. TypeInv => TypeOK
  <2> SUFFICES ASSUME TypeInv PROVE TypeOK
    OBVIOUS
  <2>1. WritebackTypeOK
    <3> DEFINE R == rm.ring
    <3>1. Range(R) \subseteq DOMAIN rm.buf
      <4>1. R \in Seq(DOMAIN rm.buf)
        BY DEF TypeInv, FrontInv, WbInv, RingInv, Buffered
      <4> HIDE DEF R
      <4> QED BY <4>1, ElementOfSeq, LenProperties DEF Range
    <3> QED BY <3>1, MaxIs DEF TypeInv, FrontInv, WbInv, RingInv, Buffered, Sessioned, Kept, WritebackTypeOK
  <2>2. Range(event) \subseteq Steps
    <3>1. event \in Seq(Steps)
      BY DEF TypeInv, ModesInv, EventForm, Steps
    <3> QED BY <3>1, ElementOfSeq, LenProperties DEF Range
  <2>3. /\ sf \in SfStages /\ kind \in Kinds /\ pending \subseteq {"hotplug", "mode"} /\ (pset = <<>> <=> cw = "idle")
        /\ {connected, wbOn, reqOff, wbFence, attached} \subseteq BOOLEAN
        /\ wire.eotf \in setup.sink \cup {"sdr"} /\ wire.depth \in {24, 30}
    BY DEF TypeInv, FrontInv, Flags, Situation, RequestAlive, Known, AttachedOf, Sent
  <2>4. /\ todo \subseteq DOMAIN vds /\ DOMAIN vds \subseteq Nat /\ (copy # <<>> => sf = "mirror" /\ todo # {})
        /\ cw \in {"idle", "size", "next", "rga", "rgaswap", "ioctl", "tail"}
    BY DEF TypeInv, FrontInv, WbInv, Copying, Stages, Displays
  <2>5. RefreshTypeOK
    BY RefreshingIs DEF TypeInv
  <2> QED BY <2>1, <2>2, <2>3, <2>4, <2>5 DEF TypeOK, SfStages, Steps
<1> QED BY <1>1, <1>2, <1>3, PTL DEF Spec
===============================================================================
