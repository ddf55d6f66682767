----------------------- MODULE SidebandStream_proofs -----------------------
(***************************************************************************)
(* Proofs about the sideband video stream, for any displays, tunnels,      *)
(* pools of buffers and situations to start in: types, the fences of the   *)
(* newest buffers, the buffers held for the screen and what a display may  *)
(* keep.                                                                   *)
(***************************************************************************)
EXTENDS SidebandStream, FiniteSetTheorems, SequenceTheorems, WellFoundedInduction, TLAPS

Users == Displays \cup {Listed}
AllBuffers == UNION {Buffers[t] : t \in Tunnels}
Tunnelled == Tunnels \cup {0}
Connections == [Tunnels -> SUBSET (Displays \cup {Ui})]

(* The fences of a tunnel with the buffers B, of which those in q are the    *)
(* newest: they wait for all the releases still to come but those of the     *)
(* buffers after them, and there are more of those than buffers.             *)
FenceType(B) == [hold : [B -> SUBSET Users], armed : SUBSET B, ahead : Nat, wait : [B -> Nat]]

Behind(f, B, q) ==
  /\ f \in FenceType(B)
  /\ q \in Seq(B) /\ IsInjective(q)
  /\ Cardinality(f.armed) <= f.ahead
  /\ \A b \in B : f.wait[b] <= f.ahead
  /\ \A i \in 1 .. Len(q) :
       /\ q[i] \in f.armed /\ Listed \in f.hold[q[i]]
       /\ f.wait[q[i]] = f.ahead - (Len(q) - i)

(* The buffer being processed is about to join the list of its tunnel.       *)
Joined(l, g, t) == IF g # <<>> /\ g[1] = t THEN Append(l, g[2]) ELSE l
Pushed(t) == Joined(list[t], got, t)

SidebandType == [on : BOOLEAN, t : Tunnelled, buf : {NoBuf} \cup AllBuffers \X BOOLEAN]

(* A state of a display: without a video there is no buffer, and a display   *)
(* that rotates fetches copies only.                                         *)
StateOf(d, s) ==
  /\ s \in SidebandType
  /\ s.on <=> s.t > 0
  /\ s.buf # NoBuf => s.t > 0 /\ s.buf[1] \in Buffers[s.t] /\ s.buf[2] = (d \in setup.rotated)

Types ==
  /\ setup \in Setup
  /\ DOMAIN given = Tunnels /\ DOMAIN vtq = Tunnels
  /\ DOMAIN list = Tunnels /\ DOMAIN copies = Tunnels
  /\ conn \in Connections
  /\ turn \in [Tunnels -> SUBSET setup.rotated]
  /\ DOMAIN fences = Tunnels
  /\ open \subseteq Tunnels /\ todo \subseteq open /\ last \in Tunnelled
  /\ dvp \in {"check", "waits", "asleep", "serve", "acquire", "turn", "push"}
  /\ dvp \in {"acquire", "turn", "push"} => todo # {}
  /\ \/ got = <<>> /\ dvp \notin {"turn", "push"}
     \/ /\ dvp \in {"turn", "push"}
        /\ \E t \in open : \E b \in Buffers[t], r \in BOOLEAN : got = <<t, b, r>>
  /\ frame \in [Displays -> Tunnelled \cup {NoFrame}]
  /\ collected \in [Displays -> Tunnelled \cup {NoFrame}]
  /\ active \in [Displays -> Tunnelled \cup {NoFrame}]
  /\ current \in [Displays -> SidebandType] /\ drawing \in [Displays -> SidebandType]
  /\ pset \in [Displays -> BOOLEAN]
  /\ worker \in [Displays -> {"idle", "vp", "commit"}]

(* Every buffer of a pool is either queued or given back, once.              *)
Pool(B, queued, back) ==
  /\ queued \in Seq(B) /\ back \in Seq(B)
  /\ Range(queued \o back) = B /\ IsInjective(queued \o back)

ListsOf(t) ==
  /\ Pool(Buffers[t], vtq[t], given[t])
  /\ list[t] \in Seq(Buffers[t]) /\ Len(list[t]) <= 2
  /\ copies[t] \in Seq(Buffers[t]) /\ Len(copies[t]) <= 2
Lists == \A t \in Tunnels : ListsOf(t)

Ordered(f, B, q, queued) ==
  Behind(f, B, q) /\ \A i \in 1 .. Len(queued) : f.wait[queued[i]] = 0

FencesOf(fs) == \A t \in Tunnels : Ordered(fs[t], Buffers[t], Pushed(t), vtq[t])
Fences == FencesOf(fences)

Held(d, s) ==
  s.buf # NoBuf =>
    /\ s.t \in open /\ d \in conn[s.t]
    /\ d \in setup.rotated \/ d \in fences[s.t].hold[s.buf[1]]

States ==
  \A d \in Displays :
    /\ StateOf(d, current[d]) /\ StateOf(d, drawing[d])
    /\ Held(d, current[d]) /\ Held(d, drawing[d])

(* Nothing is held in a tunnel that is closed.                               *)
ClosedIsEmpty ==
  \A t \in Tunnels \ open :
    /\ conn[t] = {}
    /\ \A b \in Buffers[t] : fences[t].hold[b] \cap Displays = {}

(* What a display may keep depends on how far its compositor's thread is.     *)
Keeps(d) ==
  /\ \A t \in Tunnels :
       /\ d \in conn[t] => t \in {current[d].t, drawing[d].t}
       /\ \A b \in Buffers[t] : d \in fences[t].hold[b] => Uses(d, t, b)
  /\ current[d].on => ShownComposition(d) = current[d].t
  /\ ~pset[d] => current[d] = drawing[d]
  /\ worker[d] = "idle" => ~pset[d]
  /\ worker[d] = "vp" /\ pset[d] => current[d].buf = NoBuf

Kept == ClosedIsEmpty /\ \A d \in Displays \ failed : Keeps(d)

IInv == Types /\ Lists /\ Fences /\ States /\ Kept

(***************************************************************************)
(* Sequences: the buffers of a tunnel go round.                            *)
(***************************************************************************)

(* The elements of a sequence but for the first, and after one more.         *)
LEMMA TailOf ==
  ASSUME NEW B, NEW q \in Seq(B), q # <<>>
  PROVE  /\ Tail(q) \in Seq(B) /\ Len(Tail(q)) = Len(q) - 1 /\ Len(q) \in Nat \ {0}
         /\ \A i \in 1 .. Len(q) - 1 : Tail(q)[i] = q[i + 1]
         /\ Head(q) = q[1] /\ Head(q) \in B
  OBVIOUS

LEMMA AppendOf ==
  ASSUME NEW B, NEW q \in Seq(B), NEW b \in B
  PROVE  /\ Append(q, b) \in Seq(B) /\ Len(Append(q, b)) = Len(q) + 1 /\ Len(q) \in Nat
         /\ \A i \in 1 .. Len(q) : Append(q, b)[i] = q[i]
         /\ Append(q, b)[Len(q) + 1] = b
  OBVIOUS

LEMMA AppendIs ==
  ASSUME NEW B, NEW q \in Seq(B), NEW b \in B
  PROVE  Append(q, b) \in Seq(B) /\ Append(q, b) # <<>>
<1>1. Append(q, b) \in Seq(B) /\ Len(Append(q, b)) = Len(q) + 1 /\ Len(q) \in Nat
  BY AppendOf
<1>. QED BY <1>1

LEMMA InjectiveTail ==
  ASSUME NEW B, NEW q \in Seq(B), q # <<>>, IsInjective(q)
  PROVE  /\ IsInjective(Tail(q))
         /\ \A i \in 1 .. Len(q) - 1 : Tail(q)[i] # Head(q)
<1>1. /\ DOMAIN Tail(q) = 1 .. Len(q) - 1 /\ Len(q) \in Nat
      /\ \A i \in 1 .. Len(q) - 1 : Tail(q)[i] = q[i + 1]
      /\ Head(q) = q[1]
  BY TailOf
<1>2. \A i, j \in 1 .. Len(q) : q[i] = q[j] => i = j
  BY DEF IsInjective
<1>3. ASSUME NEW i \in 1 .. Len(q) - 1, NEW j \in 1 .. Len(q) - 1, Tail(q)[i] = Tail(q)[j]
      PROVE  i = j
  <2>1. q[i + 1] = q[j + 1] /\ i + 1 \in 1 .. Len(q) /\ j + 1 \in 1 .. Len(q)
    BY <1>1, <1>3
  <2>2. i + 1 = j + 1
    BY <1>2, <2>1
  <2>. QED BY <2>2
<1>4. ASSUME NEW i \in 1 .. Len(q) - 1 PROVE Tail(q)[i] # Head(q)
  <2>1. i + 1 \in 1 .. Len(q) /\ 1 \in 1 .. Len(q) /\ i + 1 # 1
    BY <1>1
  <2>. QED BY <1>1, <1>2, <2>1
<1>. QED BY <1>1, <1>3, <1>4 DEF IsInjective

LEMMA InjectiveAppend ==
  ASSUME NEW B, NEW q \in Seq(B), IsInjective(q), NEW b \in B,
         \A i \in 1 .. Len(q) : q[i] # b
  PROVE  IsInjective(Append(q, b))
<1>1. /\ DOMAIN Append(q, b) = 1 .. Len(q) + 1 /\ Len(q) \in Nat
      /\ \A i \in 1 .. Len(q) : Append(q, b)[i] = q[i]
      /\ Append(q, b)[Len(q) + 1] = b
  BY AppendOf
<1>2. \A i, j \in 1 .. Len(q) : q[i] = q[j] => i = j
  BY DEF IsInjective
<1>3. ASSUME NEW i \in 1 .. Len(q) + 1, NEW j \in 1 .. Len(q) + 1,
             Append(q, b)[i] = Append(q, b)[j]
      PROVE  i = j
  <2>1. CASE i = Len(q) + 1 /\ j = Len(q) + 1
    BY <2>1
  <2>2. CASE i = Len(q) + 1 /\ j \in 1 .. Len(q)
    BY <1>1, <1>3, <2>2
  <2>3. CASE j = Len(q) + 1 /\ i \in 1 .. Len(q)
    BY <1>1, <1>3, <2>3
  <2>4. CASE i \in 1 .. Len(q) /\ j \in 1 .. Len(q)
    BY <1>1, <1>2, <1>3, <2>4
  <2>. QED BY <1>1, <2>1, <2>2, <2>3, <2>4
<1>. QED BY <1>1, <1>3 DEF IsInjective

LEMMA RotationKeeps ==
  ASSUME NEW B, NEW s \in Seq(B), s # <<>>, IsInjective(s), Range(s) = B
  PROVE  /\ IsInjective(Append(Tail(s), Head(s)))
         /\ Range(Append(Tail(s), Head(s))) = B
<1> DEFINE t == Tail(s)  h == Head(s)  r == Append(t, h)
<1>1. /\ t \in Seq(B) /\ h \in B /\ h = s[1] /\ Len(t) = Len(s) - 1 /\ Len(s) \in Nat \ {0}
      /\ \A i \in 1 .. Len(s) - 1 : t[i] = s[i + 1]
  BY TailOf
<1>2. IsInjective(t) /\ \A i \in 1 .. Len(t) : t[i] # h
  BY <1>1, InjectiveTail
<1>3. IsInjective(r)
  BY <1>1, <1>2, InjectiveAppend
<1>4. /\ r \in Seq(B) /\ DOMAIN r = 1 .. Len(s) /\ r[Len(s)] = s[1]
      /\ \A i \in 1 .. Len(s) - 1 : r[i] = s[i + 1]
  BY <1>1, AppendOf
<1>5. ASSUME NEW b \in B PROVE \E i \in DOMAIN r : r[i] = b
  <2>1. PICK j \in 1 .. Len(s) : s[j] = b
    BY <1>1 DEF Range
  <2>2. CASE j = 1
    BY <1>1, <1>4, <2>1, <2>2
  <2>3. CASE j # 1
    <3>1. j - 1 \in 1 .. Len(s) - 1 /\ j - 1 \in 1 .. Len(s) /\ (j - 1) + 1 = j
      BY <1>1, <2>3
    <3>2. r[j - 1] = b
      BY <1>4, <2>1, <3>1
    <3>. QED BY <1>4, <3>1, <3>2
  <2>. QED BY <2>2, <2>3
<1>6. \A i \in DOMAIN r : r[i] \in B
  BY <1>4
<1>. QED BY <1>3, <1>5, <1>6, Zenon DEF Range

LEMMA ConcatMoves ==
  ASSUME NEW B, NEW p \in Seq(B), NEW q \in Seq(B)
  PROVE  /\ q # <<>> => Append(p, Head(q)) \o Tail(q) = p \o q
         /\ p # <<>> => /\ p \o q # <<>>
                        /\ Tail(p) \o Append(q, Head(p)) = Append(Tail(p \o q), Head(p \o q))
<1>1. ASSUME q # <<>> PROVE Append(p, Head(q)) \o Tail(q) = p \o q
  BY <1>1
<1>2. ASSUME p # <<>>
      PROVE  /\ p \o q # <<>>
             /\ Tail(p) \o Append(q, Head(p)) = Append(Tail(p \o q), Head(p \o q))
  <2> DEFINE x == Tail(p) \o Append(q, Head(p))
             y == Append(Tail(p \o q), Head(p \o q))
  <2>1. /\ Tail(p) \in Seq(B) /\ Len(Tail(p)) = Len(p) - 1 /\ Len(p) \in Nat \ {0}
        /\ Head(p) = p[1] /\ Head(p) \in B /\ \A i \in 1 .. Len(p) - 1 : Tail(p)[i] = p[i + 1]
    BY <1>2, TailOf
  <2>2. /\ p \o q \in Seq(B) /\ Len(p \o q) = Len(p) + Len(q) /\ Len(q) \in Nat
        /\ \A i \in 1 .. Len(p) + Len(q) : (p \o q)[i] = IF i <= Len(p) THEN p[i] ELSE q[i - Len(p)]
        /\ p \o q # <<>>
    BY <1>2, <2>1
  <2>3. /\ Tail(p \o q) \in Seq(B) /\ Len(Tail(p \o q)) = Len(p) + Len(q) - 1
        /\ Head(p \o q) = p[1]
        /\ \A i \in 1 .. Len(p) + Len(q) - 1 : Tail(p \o q)[i] = (p \o q)[i + 1]
    BY <2>1, <2>2, TailOf
  <2>4. /\ y \in Seq(B) /\ Len(y) = Len(p) + Len(q) /\ y[Len(p) + Len(q)] = p[1]
        /\ \A i \in 1 .. Len(p) + Len(q) - 1 : y[i] = (p \o q)[i + 1]
    BY <2>1, <2>2, <2>3, AppendOf
  <2>5. /\ Append(q, Head(p)) \in Seq(B) /\ Len(Append(q, Head(p))) = Len(q) + 1
        /\ Append(q, Head(p))[Len(q) + 1] = p[1]
        /\ \A i \in 1 .. Len(q) : Append(q, Head(p))[i] = q[i]
    BY <2>1, AppendOf
  <2>6. /\ x \in Seq(B) /\ Len(x) = Len(p) + Len(q)
        /\ \A i \in 1 .. Len(p) + Len(q) :
             x[i] = IF i <= Len(p) - 1 THEN Tail(p)[i] ELSE Append(q, Head(p))[i - (Len(p) - 1)]
    BY <2>1, <2>2, <2>5
  <2>7. ASSUME NEW i \in 1 .. Len(p) + Len(q) PROVE x[i] = y[i]
    <3>1. CASE i <= Len(p) - 1
      <4>1. /\ i \in 1 .. Len(p) - 1 /\ i \in 1 .. Len(p) + Len(q) - 1
            /\ i + 1 \in 1 .. Len(p) + Len(q) /\ i + 1 <= Len(p)
        BY <2>1, <2>2, <3>1
      <4>2. x[i] = p[i + 1]
        BY <2>1, <2>6, <3>1, <4>1
      <4>3. y[i] = p[i + 1]
        BY <2>2, <2>4, <4>1
      <4>. QED BY <4>2, <4>3
    <3>2. CASE i = Len(p) + Len(q)
      <4>1. ~(i <= Len(p) - 1) /\ i - (Len(p) - 1) = Len(q) + 1
        BY <2>1, <2>2, <3>2
      <4>. QED BY <2>4, <2>5, <2>6, <3>2, <4>1
    <3>3. CASE Len(p) <= i /\ i < Len(p) + Len(q)
      <4>1. /\ ~(i <= Len(p) - 1) /\ i - (Len(p) - 1) \in 1 .. Len(q)
            /\ i \in 1 .. Len(p) + Len(q) - 1
            /\ i + 1 \in 1 .. Len(p) + Len(q) /\ ~(i + 1 <= Len(p))
        BY <2>1, <2>2, <3>3
      <4>2. x[i] = q[i - (Len(p) - 1)]
        BY <2>5, <2>6, <4>1
      <4>3. y[i] = q[(i + 1) - Len(p)]
        BY <2>2, <2>4, <4>1
      <4>4. i - (Len(p) - 1) = (i + 1) - Len(p)
        BY <2>1, <2>2, <3>3
      <4>. QED BY <4>2, <4>3, <4>4, Zenon
    <3>4. i <= Len(p) - 1 \/ i = Len(p) + Len(q) \/ (Len(p) <= i /\ i < Len(p) + Len(q))
      BY <2>1, <2>2
    <3>. QED BY <3>1, <3>2, <3>3, <3>4, Zenon
  <2>8. x = y
    <3> HIDE DEF x, y
    <3>. QED BY <2>1, <2>2, <2>4, <2>6, <2>7, SeqEqual
  <2>. QED BY <2>2, <2>8
<1>. QED BY <1>1, <1>2

(* A finite set has a first element, and can be put in a row.                *)
LEMMA NextIsTodo ==
  ASSUME todo \subseteq Nat, todo # {}
  PROVE  NextTunnel \in todo
<1>1. PICK t \in todo : \A u \in todo : ~(<<u, t>> \in OpToRel(<, Nat))
  BY NatLessThanWellFounded, WFMin, Zenon
<1>2. ASSUME NEW u \in todo PROVE t <= u
  <2>1. u \in Nat /\ t \in Nat
    OBVIOUS
  <2>2. u < t => <<u, t>> \in OpToRel(<, Nat)
    BY <2>1 DEF OpToRel
  <2>3. ~(u < t)
    BY <1>1, <2>2, Zenon
  <2>. QED BY <2>1, <2>3
<1>. QED BY <1>2, Zenon DEF NextTunnel

LEMMA RowOf ==
  ASSUME NEW B, IsFiniteSet(B)
  PROVE  SetToSeq(B) \in Seq(B) /\ IsInjective(SetToSeq(B)) /\ Range(SetToSeq(B)) = B
<1> DEFINE n == Cardinality(B)  s == SetToSeq(B)
<1>1. n \in Nat /\ Bijection(1 .. n, B) # {}
  BY FS_CardinalityType DEF ExistsBijection
<1>2. \E f \in [1 .. n -> B] : IsInjective(f)
  BY <1>1 DEF Bijection, Injection
<1>3. s \in [1 .. n -> B] /\ IsInjective(s)
  BY <1>2, Zenon DEF SetToSeq
<1> HIDE DEF n, s
<1>4. s \in Injection(1 .. n, B)
  BY <1>3 DEF Injection
<1>5. Cardinality(1 .. n) = n
  BY <1>1, FS_Interval
<1>6. s \in Surjection(1 .. n, B)
  BY <1>4, <1>5, FS_Injection DEF n
<1>7. Range(s) = B
  BY <1>3, <1>6 DEF Range, Surjection
<1>8. s \in Seq(B)
  BY <1>1, <1>3
<1>. QED BY <1>3, <1>7, <1>8 DEF s

(***************************************************************************)
(* The fences of a tunnel.                                                 *)
(***************************************************************************)

LEMMA NewIsBehind ==
  ASSUME NEW t \in Tunnels
  PROVE  /\ Behind(NewFences(t), Buffers[t], <<>>)
         /\ \A b \in Buffers[t] : NewFences(t).wait[b] = 0 /\ NewFences(t).hold[b] = {}
<1>1. /\ NewFences(t) \in FenceType(Buffers[t])
      /\ NewFences(t).armed = {} /\ NewFences(t).ahead = 0
      /\ \A b \in Buffers[t] : NewFences(t).wait[b] = 0 /\ NewFences(t).hold[b] = {}
  BY DEF NewFences, FenceType
<1>2. Cardinality({}) = 0
  BY FS_EmptySet
<1>3. <<>> \in Seq(Buffers[t]) /\ IsInjective(<<>>) /\ Len(<<>>) = 0
  BY DEF IsInjective
<1>. QED BY <1>1, <1>2, <1>3 DEF Behind

(* None of the newest buffers' fences has signalled: each buffer is armed,   *)
(* and the timeline is behind by at least one for each.                      *)
LEMMA BehindIsPending ==
  ASSUME NEW B, IsFiniteSet(B), NEW f, NEW q, Behind(f, B, q), NEW i \in 1 .. Len(q)
  PROVE  f.wait[q[i]] > 0
<1> DEFINE n == Len(q) - i + 1
           g == [j \in 1 .. n |-> q[j + i - 1]]
<1>1. /\ q \in Seq(B) /\ f.armed \in SUBSET B /\ f.ahead \in Nat
  BY DEF Behind, FenceType
<1>2. Len(q) \in Nat /\ i \in Nat /\ i >= 1 /\ i <= Len(q) /\ DOMAIN q = 1 .. Len(q)
  BY <1>1
<1>3. \A j, k \in 1 .. Len(q) : q[j] = q[k] => j = k
  BY <1>2, Zenon DEF Behind, IsInjective
<1>4. n \in Nat /\ \A j \in 1 .. n : j + i - 1 \in 1 .. Len(q)
  BY <1>2
<1>5. g \in [1 .. n -> f.armed]
  BY <1>4 DEF Behind
<1>6. ASSUME NEW j \in 1 .. n, NEW k \in 1 .. n, g[j] = g[k] PROVE j = k
  <2>1. j + i - 1 = k + i - 1
    BY <1>3, <1>4, <1>6
  <2>. QED BY <1>2, <2>1
<1>7. DOMAIN g = 1 .. n
  OBVIOUS
<1> HIDE DEF g
<1>8. g \in Injection(1 .. n, f.armed)
  BY <1>5, <1>6, <1>7, Zenon DEF Injection, IsInjective
<1> HIDE DEF n
<1>9. IsFiniteSet(f.armed) /\ Cardinality(f.armed) \in Nat
  BY <1>1, FS_Subset, FS_CardinalityType
<1>10. Cardinality(1 .. n) <= Cardinality(f.armed)
  BY <1>8, <1>9, FS_Injection
<1>11. Cardinality(1 .. n) = n
  BY <1>4, FS_Interval
<1>12. Cardinality(f.armed) <= f.ahead /\ f.wait[q[i]] = f.ahead - (Len(q) - i)
  BY DEF Behind
<1>. QED BY <1>1, <1>2, <1>9, <1>10, <1>11, <1>12 DEF n


(* What the operations on the fences leave, field by field.                  *)
LEMMA FieldsOf ==
  ASSUME NEW B, NEW f \in FenceType(B)
  PROVE  /\ f = [hold |-> f.hold, armed |-> f.armed, ahead |-> f.ahead, wait |-> f.wait]
         /\ f.hold \in [B -> SUBSET Users] /\ f.armed \subseteq B /\ f.ahead \in Nat
         /\ f.wait \in [B -> Nat]
  BY DEF FenceType

LEMMA ReferenceFields ==
  ASSUME NEW h, NEW a, NEW n, NEW w, NEW b, NEW who, NEW f, NEW g,
         f = [hold |-> h, armed |-> a, ahead |-> n, wait |-> w],
         g = AddReleaseRefCnt(f, who, b)
  PROVE  g = [hold |-> [h EXCEPT ![b] = @ \cup {who}], armed |-> a, ahead |-> n, wait |-> w]
  BY DEF AddReleaseRefCnt

LEMMA AcquireFields ==
  ASSUME NEW h, NEW a, NEW n, NEW w, NEW b, NEW who, NEW f, NEW m, NEW g,
         f = [hold |-> h, armed |-> a, ahead |-> n, wait |-> w],
         m = AddReleaseFence(f, b), g = AddReleaseRefCnt(m, who, b)
  PROVE  g = [hold |-> [h EXCEPT ![b] = @ \cup {who}], armed |-> a \cup {b},
              ahead |-> n + 1, wait |-> [w EXCEPT ![b] = n + 1]]
<1>1. m = [hold |-> h, armed |-> a \cup {b}, ahead |-> n + 1, wait |-> [w EXCEPT ![b] = n + 1]]
  BY DEF AddReleaseFence
<1>. QED BY <1>1 DEF AddReleaseRefCnt

LEMMA SignalFields ==
  ASSUME NEW B, NEW f \in FenceType(B), NEW b, NEW who, NEW left, NEW less, NEW g,
         g = SignalReleaseFence(f, who, b), left = [f.hold EXCEPT ![b] = @ \ {who}],
         less = [x \in DOMAIN f.wait |-> IF f.wait[x] = 0 THEN 0 ELSE f.wait[x] - 1]
  PROVE  /\ b \in f.armed /\ left[b] = {} =>
              g = [hold |-> left, armed |-> f.armed \ {b}, ahead |-> f.ahead - 1, wait |-> less]
         /\ ~(b \in f.armed /\ left[b] = {}) =>
              g = [hold |-> left, armed |-> f.armed, ahead |-> f.ahead, wait |-> f.wait]
<1>1. PICK h, a, n, w : f = [hold |-> h, armed |-> a, ahead |-> n, wait |-> w]
  <2>1. f = [hold |-> f.hold, armed |-> f.armed, ahead |-> f.ahead, wait |-> f.wait]
    BY FieldsOf
  <2>. QED BY <2>1, Zenon
<1>2. h = f.hold /\ a = f.armed /\ n = f.ahead /\ w = f.wait
  BY <1>1
<1>3. /\ left = [h EXCEPT ![b] = @ \ {who}]
      /\ less = [x \in DOMAIN w |-> IF w[x] = 0 THEN 0 ELSE w[x] - 1]
  BY <1>2
<1>4. ASSUME b \in a, left[b] = {}
      PROVE  g = [hold |-> left, armed |-> a \ {b}, ahead |-> n - 1, wait |-> less]
  BY <1>1, <1>3, <1>4 DEF SignalReleaseFence, Advance
<1>5. ASSUME ~(b \in a /\ left[b] = {})
      PROVE  g = [hold |-> left, armed |-> a, ahead |-> n, wait |-> w]
  BY <1>1, <1>3, <1>5 DEF SignalReleaseFence
<1>. QED BY <1>2, <1>4, <1>5, Zenon

(* The newest buffer joins them, with a new fence and the list's reference.  *)
LEMMA AcquireKeepsBehind ==
  ASSUME NEW B, IsFiniteSet(B), NEW f, NEW q, Behind(f, B, q), NEW b \in B,
         \A i \in 1 .. Len(q) : q[i] # b,
         NEW g, g = AddReleaseRefCnt(AddReleaseFence(f, b), Listed, b)
  PROVE  /\ Behind(g, B, Append(q, b))
         /\ \A c \in B : g.hold[c] = f.hold[c] \cup (IF c = b THEN {Listed} ELSE {})
         /\ \A c \in B \ {b} : g.wait[c] = f.wait[c]
<1>1. /\ f = [hold |-> f.hold, armed |-> f.armed, ahead |-> f.ahead, wait |-> f.wait]
      /\ f.ahead \in Nat /\ f.armed \subseteq B
      /\ f.wait \in [B -> Nat] /\ f.hold \in [B -> SUBSET Users]
  BY FieldsOf DEF Behind
<1>2. g = [hold |-> [f.hold EXCEPT ![b] = @ \cup {Listed}], armed |-> f.armed \cup {b},
           ahead |-> f.ahead + 1, wait |-> [f.wait EXCEPT ![b] = f.ahead + 1]]
  BY <1>1, AcquireFields
<1>3. /\ \A c \in B : g.hold[c] = f.hold[c] \cup (IF c = b THEN {Listed} ELSE {})
      /\ \A c \in B \ {b} : g.wait[c] = f.wait[c]
      /\ g.wait[b] = f.ahead + 1 /\ g.ahead = f.ahead + 1 /\ g.armed = f.armed \cup {b}
  BY <1>1, <1>2
<1>4. g \in FenceType(B)
  <2>1. /\ [f.hold EXCEPT ![b] = @ \cup {Listed}] \in [B -> SUBSET Users]
        /\ [f.wait EXCEPT ![b] = f.ahead + 1] \in [B -> Nat]
        /\ f.armed \cup {b} \in SUBSET B /\ f.ahead + 1 \in Nat
    BY <1>1 DEF Users
  <2>. QED BY <1>2, <2>1 DEF FenceType
<1>5. q \in Seq(B) /\ IsInjective(q) /\ Len(q) \in Nat
  BY DEF Behind
<1>6. /\ Append(q, b) \in Seq(B) /\ Len(Append(q, b)) = Len(q) + 1
      /\ \A i \in 1 .. Len(q) : Append(q, b)[i] = q[i]
      /\ Append(q, b)[Len(q) + 1] = b
  BY <1>5, AppendOf
<1>7. IsInjective(Append(q, b))
  BY <1>5, InjectiveAppend
<1>8. Cardinality(g.armed) <= g.ahead
  <2>1. IsFiniteSet(f.armed) /\ Cardinality(f.armed) \in Nat
    BY <1>1, FS_Subset, FS_CardinalityType
  <2>2. Cardinality(f.armed \cup {b})
          = IF b \in f.armed THEN Cardinality(f.armed) ELSE Cardinality(f.armed) + 1
    BY <2>1, FS_AddElement, Zenon
  <2>3. Cardinality(f.armed) <= f.ahead
    BY DEF Behind
  <2>. QED BY <1>1, <1>3, <2>1, <2>2, <2>3
<1>9. \A c \in B : g.wait[c] <= g.ahead
  <2>1. \A c \in B : f.wait[c] <= f.ahead /\ f.wait[c] \in Nat
    BY <1>1 DEF Behind
  <2>. QED BY <1>1, <1>3, <2>1
<1>10. ASSUME NEW i \in 1 .. Len(Append(q, b))
       PROVE  /\ Append(q, b)[i] \in g.armed /\ Listed \in g.hold[Append(q, b)[i]]
              /\ g.wait[Append(q, b)[i]] = g.ahead - (Len(Append(q, b)) - i)
  <2>1. CASE i = Len(q) + 1
    <3>1. Append(q, b)[i] = b /\ Len(Append(q, b)) - i = 0
      BY <1>5, <1>6, <2>1
    <3>. QED BY <1>1, <1>3, <3>1
  <2>2. CASE i \in 1 .. Len(q)
    <3>1. /\ Append(q, b)[i] = q[i] /\ q[i] # b /\ q[i] \in B
          /\ q[i] \in f.armed /\ Listed \in f.hold[q[i]]
          /\ f.wait[q[i]] = f.ahead - (Len(q) - i)
      BY <1>5, <1>6, <2>2 DEF Behind
    <3>2. g.ahead - (Len(Append(q, b)) - i) = f.ahead - (Len(q) - i)
      BY <1>1, <1>3, <1>5, <1>6, <2>2
    <3>3. g.wait[q[i]] = f.wait[q[i]] /\ Listed \in g.hold[q[i]] /\ q[i] \in g.armed
      BY <1>3, <3>1
    <3>. QED BY <3>1, <3>2, <3>3, Zenon
  <2>. QED BY <1>5, <1>6, <2>1, <2>2
<1>11. Behind(g, B, Append(q, b))
  BY <1>4, <1>6, <1>7, <1>8, <1>9, <1>10, Zenon DEF Behind
<1>. QED BY <1>3, <1>11

(* A display's reference changes nothing about the fences.                   *)
LEMMA ReferenceKeepsBehind ==
  ASSUME NEW B, NEW f, NEW q, Behind(f, B, q), NEW b \in B, NEW who \in Users,
         NEW g, g = AddReleaseRefCnt(f, who, b)
  PROVE  /\ Behind(g, B, q)
         /\ \A c \in B : g.hold[c] = f.hold[c] \cup (IF c = b THEN {who} ELSE {})
         /\ \A c \in B : g.wait[c] = f.wait[c]
<1>1. /\ f = [hold |-> f.hold, armed |-> f.armed, ahead |-> f.ahead, wait |-> f.wait]
      /\ f.ahead \in Nat /\ f.armed \subseteq B
      /\ f.wait \in [B -> Nat] /\ f.hold \in [B -> SUBSET Users]
  BY FieldsOf DEF Behind
<1>2. g = [hold |-> [f.hold EXCEPT ![b] = @ \cup {who}], armed |-> f.armed,
           ahead |-> f.ahead, wait |-> f.wait]
  BY <1>1, ReferenceFields
<1>3. /\ \A c \in B : g.hold[c] = f.hold[c] \cup (IF c = b THEN {who} ELSE {})
      /\ g.armed = f.armed /\ g.ahead = f.ahead /\ g.wait = f.wait
  BY <1>1, <1>2
<1>4. g \in FenceType(B)
  <2>1. [f.hold EXCEPT ![b] = @ \cup {who}] \in [B -> SUBSET Users]
    BY <1>1
  <2>. QED BY <1>1, <1>2, <2>1 DEF FenceType
<1>5. \A i \in 1 .. Len(q) : q[i] \in B /\ Listed \in g.hold[q[i]]
  BY <1>3 DEF Behind
<1>6. Behind(g, B, q)
  BY <1>3, <1>4, <1>5, Zenon DEF Behind
<1>. QED BY <1>3, <1>6

(* Whoever gives up its reference: the newest buffers' fences stay behind,   *)
(* of those p that still have the reference of the list.                     *)
LEMMA SignalKeepsBehind ==
  ASSUME NEW B, IsFiniteSet(B), NEW f, NEW q, Behind(f, B, q), NEW b \in B, NEW who \in Users,
         NEW g, g = SignalReleaseFence(f, who, b),
         NEW p \in Seq(B), IsInjective(p),
         \A i \in 1 .. Len(p) :
           /\ p[i] = b => who # Listed
           /\ \E j \in 1 .. Len(q) : p[i] = q[j] /\ Len(p) - i = Len(q) - j
  PROVE  /\ Behind(g, B, p)
         /\ \A c \in B : g.hold[c] = f.hold[c] \ (IF c = b THEN {who} ELSE {})
         /\ \A c \in B : f.wait[c] = 0 => g.wait[c] = 0
<1> DEFINE left == [f.hold EXCEPT ![b] = @ \ {who}]
           less == [x \in DOMAIN f.wait |-> IF f.wait[x] = 0 THEN 0 ELSE f.wait[x] - 1]
<1>1. /\ f = [hold |-> f.hold, armed |-> f.armed, ahead |-> f.ahead, wait |-> f.wait]
      /\ f.ahead \in Nat /\ f.armed \subseteq B
      /\ f.wait \in [B -> Nat] /\ f.hold \in [B -> SUBSET Users]
  BY FieldsOf DEF Behind
<1>2. /\ left = [f.hold EXCEPT ![b] = @ \ {who}] /\ left \in [B -> SUBSET Users]
      /\ \A c \in B : left[c] = f.hold[c] \ (IF c = b THEN {who} ELSE {})
  BY <1>1
<1>3. /\ less = [x \in DOMAIN f.wait |-> IF f.wait[x] = 0 THEN 0 ELSE f.wait[x] - 1]
      /\ less \in [B -> Nat]
      /\ \A c \in B : less[c] = IF f.wait[c] = 0 THEN 0 ELSE f.wait[c] - 1
  BY <1>1
<1>4. ASSUME NEW i \in 1 .. Len(p)
      PROVE  /\ p[i] \in B /\ p[i] \in f.armed /\ Listed \in left[p[i]]
             /\ f.wait[p[i]] > 0 /\ f.wait[p[i]] = f.ahead - (Len(p) - i)
  <2>1. PICK j \in 1 .. Len(q) : p[i] = q[j] /\ Len(p) - i = Len(q) - j
    OBVIOUS
  <2>2. /\ p[i] \in f.armed /\ Listed \in f.hold[p[i]]
        /\ f.wait[p[i]] = f.ahead - (Len(p) - i)
    BY <2>1 DEF Behind
  <2>3. f.wait[p[i]] > 0
    BY <2>1, BehindIsPending
  <2>4. p[i] \in B /\ (p[i] = b => who # Listed)
    OBVIOUS
  <2>5. Listed \in left[p[i]]
    BY <1>2, <2>2, <2>4
  <2>. QED BY <2>2, <2>3, <2>4, <2>5
<1>5. /\ Cardinality(f.armed) <= f.ahead /\ IsFiniteSet(f.armed) /\ Cardinality(f.armed) \in Nat
      /\ \A c \in B : f.wait[c] <= f.ahead /\ f.wait[c] \in Nat
  <2>1. IsFiniteSet(f.armed) /\ Cardinality(f.armed) \in Nat
    BY <1>1, FS_Subset, FS_CardinalityType
  <2>. QED BY <1>1, <2>1 DEF Behind
<1> HIDE DEF left, less
<1>6. /\ b \in f.armed /\ left[b] = {} =>
           g = [hold |-> left, armed |-> f.armed \ {b}, ahead |-> f.ahead - 1, wait |-> less]
      /\ ~(b \in f.armed /\ left[b] = {}) =>
           g = [hold |-> left, armed |-> f.armed, ahead |-> f.ahead, wait |-> f.wait]
  <2>1. f \in FenceType(B)
    BY DEF Behind
  <2>. QED BY <1>2, <1>3, <2>1, SignalFields
<1>7. CASE b \in f.armed /\ left[b] = {}
  <2>1. /\ g = [hold |-> left, armed |-> f.armed \ {b}, ahead |-> f.ahead - 1, wait |-> less]
        /\ g.hold = left /\ g.armed = f.armed \ {b} /\ g.ahead = f.ahead - 1 /\ g.wait = less
    BY <1>6, <1>7
  <2>2. /\ Cardinality(f.armed \ {b}) = Cardinality(f.armed) - 1
        /\ Cardinality(f.armed \ {b}) \in Nat
    <3>1. Cardinality(f.armed \ {b})
            = IF b \in f.armed THEN Cardinality(f.armed) - 1 ELSE Cardinality(f.armed)
      BY <1>5, FS_RemoveElement, Zenon
    <3>2. IsFiniteSet(f.armed \ {b})
      BY <1>5, FS_Subset
    <3>. QED BY <1>7, <3>1, <3>2, FS_CardinalityType
  <2>3. f.ahead - 1 \in Nat /\ Cardinality(f.armed \ {b}) <= f.ahead - 1
    BY <1>1, <1>5, <2>2
  <2>4. g \in FenceType(B)
    BY <1>1, <1>2, <1>3, <2>1, <2>3 DEF FenceType
  <2>5. \A c \in B : g.wait[c] <= g.ahead
    BY <1>1, <1>3, <1>5, <2>1, <2>3
  <2>6. ASSUME NEW i \in 1 .. Len(p)
        PROVE  /\ p[i] \in g.armed /\ Listed \in g.hold[p[i]]
               /\ g.wait[p[i]] = g.ahead - (Len(p) - i)
    <3>1. p[i] # b
      BY <1>4, <1>7
    <3>2. p[i] \in g.armed /\ Listed \in g.hold[p[i]]
      BY <1>4, <2>1, <3>1
    <3>3. g.wait[p[i]] = f.wait[p[i]] - 1
      <4>1. p[i] \in B /\ f.wait[p[i]] # 0
        BY <1>4, <1>5
      <4>2. less[p[i]] = f.wait[p[i]] - 1
        BY <1>3, <4>1
      <4>. QED BY <2>1, <4>2
    <3>4. g.wait[p[i]] = g.ahead - (Len(p) - i)
      BY <1>1, <1>4, <2>1, <3>3, SMTT(30)
    <3>. QED BY <3>2, <3>4
  <2>7. Behind(g, B, p)
    BY <2>1, <2>3, <2>4, <2>5, <2>6, Zenon DEF Behind
  <2>. QED BY <1>2, <1>3, <2>1, <2>7
<1>8. CASE ~(b \in f.armed /\ left[b] = {})
  <2>1. /\ g = [hold |-> left, armed |-> f.armed, ahead |-> f.ahead, wait |-> f.wait]
        /\ g.hold = left /\ g.armed = f.armed /\ g.ahead = f.ahead /\ g.wait = f.wait
    BY <1>6, <1>8
  <2>2. g \in FenceType(B)
    BY <1>1, <1>2, <2>1 DEF FenceType
  <2>3. Behind(g, B, p)
    BY <1>4, <1>5, <2>1, <2>2, Zenon DEF Behind
  <2>. QED BY <1>2, <2>1, <2>3
<1>. QED BY <1>7, <1>8, Zenon

LEMMA DisplaySignals ==
  ASSUME NEW B, IsFiniteSet(B), NEW f, NEW q, Behind(f, B, q), NEW b \in B, NEW d \in Displays,
         NEW g, g = SignalReleaseFence(f, d, b)
  PROVE  /\ Behind(g, B, q)
         /\ \A c \in B : g.hold[c] = f.hold[c] \ (IF c = b THEN {d} ELSE {})
         /\ \A c \in B : f.wait[c] = 0 => g.wait[c] = 0
<1>1. d \in Users /\ d # Listed
  BY SidebandAssumption DEF Users, Listed
<1>2. q \in Seq(B) /\ IsInjective(q)
  BY DEF Behind
<1>. QED BY <1>1, <1>2, SignalKeepsBehind

LEMMA ListSignals ==
  ASSUME NEW B, IsFiniteSet(B), NEW f, NEW q, Behind(f, B, q), q # <<>>,
         NEW g, g = SignalReleaseFence(f, Listed, Head(q))
  PROVE  /\ Behind(g, B, Tail(q))
         /\ \A c \in B : g.hold[c] = f.hold[c] \ (IF c = Head(q) THEN {Listed} ELSE {})
         /\ \A c \in B : f.wait[c] = 0 => g.wait[c] = 0
<1>1. Listed \in Users
  BY DEF Users
<1>2. q \in Seq(B) /\ IsInjective(q)
  BY DEF Behind
<1>3. /\ Tail(q) \in Seq(B) /\ IsInjective(Tail(q)) /\ Head(q) \in B
      /\ Len(Tail(q)) = Len(q) - 1 /\ Len(q) \in Nat \ {0}
      /\ \A i \in 1 .. Len(q) - 1 : Tail(q)[i] = q[i + 1] /\ Tail(q)[i] # Head(q)
  BY <1>2, TailOf, InjectiveTail
<1>4. ASSUME NEW i \in 1 .. Len(Tail(q))
      PROVE  /\ Tail(q)[i] # Head(q)
             /\ \E j \in 1 .. Len(q) : Tail(q)[i] = q[j] /\ Len(Tail(q)) - i = Len(q) - j
  <2>1. /\ i + 1 \in 1 .. Len(q) /\ Len(Tail(q)) - i = Len(q) - (i + 1)
        /\ Tail(q)[i] = q[i + 1] /\ Tail(q)[i] # Head(q)
    BY <1>3
  <2>. QED BY <2>1
<1> DEFINE p == Tail(q)  b == Head(q)
<1>5. /\ p \in Seq(B) /\ IsInjective(p) /\ b \in B /\ g = SignalReleaseFence(f, Listed, b)
      /\ \A i \in 1 .. Len(p) :
           /\ p[i] # b
           /\ \E j \in 1 .. Len(q) : p[i] = q[j] /\ Len(p) - i = Len(q) - j
  BY <1>3, <1>4, Zenon
<1>6. /\ Behind(g, B, p)
      /\ \A c \in B : g.hold[c] = f.hold[c] \ (IF c = b THEN {Listed} ELSE {})
      /\ \A c \in B : f.wait[c] = 0 => g.wait[c] = 0
  <2> HIDE DEF p, b
  <2>. QED BY <1>1, <1>5, SignalKeepsBehind
<1>. QED BY <1>6

(***************************************************************************)
(* What the calls of a display do to all the tunnels.                      *)
(***************************************************************************)

(* A display without a buffer gives none back.                               *)
LEMMA ReleasedKeeps ==
  ASSUME Types, Lists, NEW fs, DOMAIN fs = Tunnels, FencesOf(fs), NEW d \in Displays, NEW s, StateOf(d, s),
         NEW gs, gs = Released(fs, d, s)
  PROVE  /\ DOMAIN gs = Tunnels /\ FencesOf(gs)
         /\ \A t \in Tunnels : \A b \in Buffers[t] :
              gs[t].hold[b] = fs[t].hold[b] \
                (IF s.buf # NoBuf /\ s.t \in open /\ s.t = t /\ s.buf[1] = b THEN {d} ELSE {})
<1>1. CASE s.buf = NoBuf \/ s.t \notin open
  BY <1>1, Zenon DEF Released
<1>2. CASE s.buf # NoBuf /\ s.t \in open
  <2> DEFINE v == s.t  c == s.buf[1]  g == SignalReleaseFence(fs[v], d, c)
  <2>1. v \in Tunnels /\ c \in Buffers[v] /\ IsFiniteSet(Buffers[v])
    BY <1>2, SidebandAssumption DEF Types, StateOf
  <2>2. gs = [fs EXCEPT ![v] = g]
    BY <1>2, Zenon DEF Released
  <2>3. /\ Behind(fs[v], Buffers[v], Pushed(v))
        /\ \A i \in 1 .. Len(vtq[v]) : fs[v].wait[vtq[v][i]] = 0
    BY <2>1 DEF FencesOf, Ordered
  <2>4. g = SignalReleaseFence(fs[v], d, c)
    OBVIOUS
  <2> HIDE DEF v, c, g
  <2>5. /\ Behind(g, Buffers[v], Pushed(v))
        /\ \A b \in Buffers[v] : g.hold[b] = fs[v].hold[b] \ (IF b = c THEN {d} ELSE {})
        /\ \A b \in Buffers[v] : fs[v].wait[b] = 0 => g.wait[b] = 0
    BY <2>1, <2>3, <2>4, DisplaySignals
  <2>6. /\ gs[v] = g /\ DOMAIN gs = Tunnels
        /\ \A t \in Tunnels \ {v} : gs[t] = fs[t]
    BY <2>1, <2>2
  <2>7. \A i \in 1 .. Len(vtq[v]) : vtq[v][i] \in Buffers[v]
    BY <2>1 DEF Lists, ListsOf, Pool
  <2>8. ASSUME NEW t \in Tunnels
        PROVE  /\ Ordered(gs[t], Buffers[t], Pushed(t), vtq[t])
               /\ \A b \in Buffers[t] :
                    gs[t].hold[b] = fs[t].hold[b] \ (IF v = t /\ c = b THEN {d} ELSE {})
    <3>1. CASE t = v
      BY <2>3, <2>5, <2>6, <2>7, <3>1, Zenon DEF Ordered
    <3>2. CASE t # v
      <4>1. gs[t] = fs[t] /\ \A b \in Buffers[t] : (IF v = t /\ c = b THEN {d} ELSE {}) = {}
        BY <2>6, <3>2
      <4>. QED BY <4>1 DEF FencesOf
    <3>. QED BY <3>1, <3>2
  <2>9. FencesOf(gs)
    BY <2>8, Zenon DEF FencesOf
  <2>10. \A t \in Tunnels : \A b \in Buffers[t] :
           (s.buf # NoBuf /\ s.t \in open /\ s.t = t /\ s.buf[1] = b) <=> (v = t /\ c = b)
    BY <1>2, Zenon DEF v, c
  <2>11. ASSUME NEW t \in Tunnels, NEW b \in Buffers[t]
         PROVE  gs[t].hold[b] = fs[t].hold[b] \
                  (IF s.buf # NoBuf /\ s.t \in open /\ s.t = t /\ s.buf[1] = b THEN {d} ELSE {})
    <3>1. gs[t].hold[b] = fs[t].hold[b] \ (IF v = t /\ c = b THEN {d} ELSE {})
      BY <2>8
    <3>. QED BY <2>10, <3>1
  <2>. QED BY <2>6, <2>9, <2>11, Zenon
<1>. QED BY <1>1, <1>2, Zenon

LEMMA Disconnected ==
  ASSUME Types, NEW cs \in Connections, NEW d, NEW t,
         NEW ds, ds = DestoryConnection(cs, d, t)
  PROVE  /\ ds \in Connections
         /\ \A u \in Tunnels : ds[u] = cs[u] \ (IF t \in open /\ u = t THEN {d} ELSE {})
  BY DEF DestoryConnection, Types, Connections

Pictures(d) == StateOf(d, current[d]) /\ StateOf(d, drawing[d])

LEMMA ClosedIsNoTunnel == Types => 0 \notin open /\ 0 \notin Tunnels
  BY SidebandAssumption DEF Types

(* Without a video nothing is shown, so the two states agree.                *)
LEMMA EmptyState ==
  ASSUME NEW d, NEW s, StateOf(d, s), s.t = 0
  PROVE  s = Off
<1>1. s \in SidebandType
  BY DEF StateOf
<1>2. s = [on |-> s.on, t |-> s.t, buf |-> s.buf]
  BY <1>1 DEF SidebandType
<1>3. s.on = FALSE /\ s.buf = NoBuf
  <2>1. ~(s.t > 0) /\ s.on \in BOOLEAN
    BY <1>1 DEF SidebandType
  <2>. QED BY <2>1, Zenon DEF StateOf
<1>. QED BY <1>2, <1>3, Zenon DEF Off

LEMMA StateFields ==
  ASSUME NEW d, NEW s, StateOf(d, s)
  PROVE  /\ s = [on |-> s.on, t |-> s.t, buf |-> s.buf] /\ s \in SidebandType
         /\ s.on \in BOOLEAN /\ s.t \in Tunnelled /\ s.t \in Nat
         /\ s.t = 0 => s.on = FALSE /\ s.buf = NoBuf
         /\ s.on = FALSE => s.t = 0
<1>1. s \in SidebandType
  BY DEF StateOf
<1>2. /\ s = [on |-> s.on, t |-> s.t, buf |-> s.buf]
      /\ s.on \in BOOLEAN /\ s.t \in Tunnelled /\ s.t \in Nat
  <2>1. Tunnelled \subseteq Nat
    BY SidebandAssumption DEF Tunnelled
  <2>2. /\ s = [on |-> s.on, t |-> s.t, buf |-> s.buf]
        /\ s.on \in BOOLEAN /\ s.t \in Tunnelled
    BY <1>1 DEF SidebandType
  <2>. QED BY <2>1, <2>2
<1>3. s.t = 0 => s.on = FALSE /\ s.buf = NoBuf
  BY EmptyState DEF Off
<1>4. s.t > 0 => s.on
  BY DEF StateOf
<1>5. s.on = FALSE => s.t = 0
  BY <1>2, <1>4
<1>. QED BY <1>1, <1>2, <1>3, <1>5, Zenon

LEMMA FieldsChange ==
  ASSUME NEW w, NEW c, NEW g, w.t = c.t, g = [w EXCEPT !.on = c.on, !.buf = c.buf],
         w = [on |-> w.on, t |-> w.t, buf |-> w.buf], c = [on |-> c.on, t |-> c.t, buf |-> c.buf]
  PROVE  g = c
<1>1. PICK a, n, b : w = [on |-> a, t |-> n, buf |-> b]
  BY Zenon
<1>2. PICK x, m, y : c = [on |-> x, t |-> m, buf |-> y]
  BY Zenon
<1>3. n = m /\ c.on = x /\ c.buf = y
  BY <1>1, <1>2
<1>4. g = [w EXCEPT !.on = x, !.buf = y]
  BY <1>3, Zenon
<1>5. g = [on |-> x, t |-> n, buf |-> y]
  BY <1>1, <1>4
<1>. QED BY <1>2, <1>3, <1>5, Zenon

(* After a commit the drawing state is the current one; what only the old    *)
(* drawing state has is given back.                                          *)
LEMMA UpdateIs ==
  ASSUME Types, NEW d \in Displays, Pictures(d), UpdateSidebandState(d),
         NEW c, c = current[d], NEW w, w = drawing[d]
  PROVE  /\ drawing' = [drawing EXCEPT ![d] = c]
         /\ fences' = IF c.t # w.t \/ w.buf # c.buf THEN Released(fences, d, w) ELSE fences
         /\ conn' = IF c.t # w.t THEN DestoryConnection(conn, d, w.t) ELSE conn
<1>1. /\ c = [on |-> c.on, t |-> c.t, buf |-> c.buf] /\ w = [on |-> w.on, t |-> w.t, buf |-> w.buf]
      /\ c.t = 0 => c.on = FALSE /\ c.buf = NoBuf
      /\ w.t = 0 => w.on = FALSE /\ w.buf = NoBuf
      /\ c.t \in Nat /\ w.t \in Nat
  BY StateFields DEF Pictures
<1>2. drawing \in [Displays -> SidebandType]
  BY DEF Types
<1>3. CASE c.t # w.t
  <2>1. /\ fences' = IF w.t = 0 THEN fences ELSE Released(fences, d, w)
        /\ conn' = IF w.t = 0 THEN conn ELSE DestoryConnection(conn, d, w.t)
        /\ drawing' = [drawing EXCEPT ![d] = c]
    BY <1>3, Zenon DEF UpdateSidebandState
  <2>2. w.t = 0 => Released(fences, d, w) = fences /\ DestoryConnection(conn, d, w.t) = conn
    BY <1>1, ClosedIsNoTunnel, Zenon DEF Released, DestoryConnection
  <2>. QED BY <1>3, <2>1, <2>2, Zenon
<1>4. CASE c.t = w.t /\ c.t = 0
  <2>1. c = w
    BY <1>1, <1>4, Zenon
  <2>2. UNCHANGED <<fences, conn, drawing>>
    BY <1>4, Zenon DEF UpdateSidebandState
  <2>. QED BY <1>2, <2>1, <2>2
<1>5. CASE c.t = w.t /\ c.t # 0
  <2>1. /\ fences' = IF w.buf # c.buf THEN Released(fences, d, w) ELSE fences
        /\ drawing' = [drawing EXCEPT ![d] = [w EXCEPT !.on = c.on, !.buf = c.buf]]
        /\ conn' = conn
    BY <1>5, Zenon DEF UpdateSidebandState
  <2>2. [w EXCEPT !.on = c.on, !.buf = c.buf] = c
    BY <1>1, <1>5, FieldsChange, Zenon
  <2>. QED BY <1>5, <2>1, <2>2, Zenon
<1>. QED BY <1>3, <1>4, <1>5, Zenon

(* Clearing gives back what both states have, and switches both off.         *)
LEMMA ClearIs ==
  ASSUME Types, NEW d \in Displays, Pictures(d), ClearDisplay(d),
         NEW c, c = current[d], NEW w, w = drawing[d]
  PROVE  /\ current' = [current EXCEPT ![d] = Off] /\ drawing' = [drawing EXCEPT ![d] = Off]
         /\ fences' = Released(Released(fences, d, w), d, c)
         /\ conn' = DestoryConnection(DestoryConnection(conn, d, c.t), d, w.t)
<1>1. /\ c.t = 0 => c.on = FALSE /\ c.buf = NoBuf
      /\ w.t = 0 => w.on = FALSE /\ w.buf = NoBuf
      /\ c.on = FALSE => c.t = 0
      /\ w.on = FALSE => w.t = 0
      /\ c.t \in Nat /\ w.t \in Nat /\ c.on \in BOOLEAN /\ w.on \in BOOLEAN
  BY StateFields DEF Pictures
<1>2. drawing \in [Displays -> SidebandType] /\ current \in [Displays -> SidebandType]
  BY DEF Types
<1>3. c.t = 0 => c = Off
  BY EmptyState DEF Pictures
<1>4. w.t = 0 => w = Off
  BY EmptyState DEF Pictures
<1>5. c.on = FALSE => \A fs : Released(fs, d, c) = fs
  BY <1>1, Zenon DEF Released
<1>6. \A fs : Released(fs, d, Off) = fs
  <2>1. Off.buf = NoBuf
    BY DEF Off
  <2>. QED BY <2>1, Zenon DEF Released
<1>7. CASE c.on \/ w.on
  <2>1. /\ fences' = Released(Released(fences, d, w), d, IF c.on THEN c ELSE Off)
        /\ conn' = DestoryConnection(DestoryConnection(conn, d, c.t), d, w.t)
        /\ current' = [current EXCEPT ![d] = IF c.t > 0 THEN Off ELSE c]
        /\ drawing' = [drawing EXCEPT ![d] = IF w.t > 0 THEN Off ELSE w]
    BY <1>7, Zenon DEF ClearDisplay
  <2>2. fences' = Released(Released(fences, d, w), d, c)
    BY <1>1, <1>5, <1>6, <2>1, Zenon
  <2>3. (IF c.t > 0 THEN Off ELSE c) = Off /\ (IF w.t > 0 THEN Off ELSE w) = Off
    BY <1>1, <1>3, <1>4
  <2>. QED BY <2>1, <2>2, <2>3, Zenon
<1>8. CASE ~(c.on \/ w.on)
  <2>1. UNCHANGED <<fences, conn, current, drawing>>
    BY <1>8, Zenon DEF ClearDisplay
  <2>2. c.on = FALSE /\ w.on = FALSE /\ c.t = 0 /\ w.t = 0
    BY <1>1, <1>8, Zenon
  <2>3. c = Off /\ w = Off
    BY <1>3, <1>4, <2>2
  <2>4. current = [current EXCEPT ![d] = Off] /\ drawing = [drawing EXCEPT ![d] = Off]
    BY <1>2, <2>3
  <2>5. conn' = DestoryConnection(DestoryConnection(conn, d, c.t), d, w.t)
    BY <2>1, <2>2, ClosedIsNoTunnel, Zenon DEF DestoryConnection
  <2>. QED BY <1>5, <1>6, <2>1, <2>2, <2>3, <2>4, <2>5, Zenon
<1>. QED BY <1>7, <1>8, Zenon

(***************************************************************************)
(* Types and lists.                                                        *)
(***************************************************************************)

LEMMA SetupFields ==
  ASSUME setup \in Setup
  PROVE  /\ setup.rotated \subseteq Displays
         /\ \A d \in Displays : setup.shows[d] \subseteq Tunnelled
         /\ Fed \subseteq Tunnels
<1>1. /\ setup.rotated \subseteq Displays
      /\ setup.shows \in [Displays -> SUBSET (Tunnels \cup {0})]
  BY DEF Setup
<1>. QED BY <1>1 DEF Fed, Tunnelled

LEMMA Numbers == Tunnels \subseteq Nat /\ Tunnelled \subseteq Nat /\ \A t \in Tunnels : t > 0
  BY SidebandAssumption DEF Tunnelled

(* The thread takes its next tunnel.                                         *)
LEMMA NextTunnelIs ==
  ASSUME Types, dvp = "acquire"
  PROVE  NextTunnel \in todo /\ NextTunnel \in open /\ NextTunnel \in Tunnels /\ got = <<>>
<1>1. todo \subseteq open /\ open \subseteq Tunnels /\ todo # {} /\ got = <<>>
  BY DEF Types
<1>2. todo \subseteq Nat
  BY <1>1, Numbers
<1>. QED BY <1>1, <1>2, NextIsTodo

LEMMA AfterTunnelTypes ==
  ASSUME Types, AfterTunnel
  PROVE  /\ todo' \subseteq todo
         /\ dvp' \in {"check", "acquire"} /\ (dvp' = "acquire" => todo' # {})
  BY DEF AfterTunnel

LEMMA WokenTypes ==
  ASSUME Types, NEW new, dvp' = Woken(new)
  PROVE  dvp' = dvp \/ (dvp = "asleep" /\ dvp' = "serve" /\ got = <<>>)
  BY DEF Types, Woken

LEMMA InitTypes == Init => Types
<1>1. ASSUME Init PROVE Types
  <2>1. Off \in SidebandType
    BY DEF Off, SidebandType, Tunnelled
  <2>2. current \in [Displays -> SidebandType] /\ drawing \in [Displays -> SidebandType]
    BY <1>1, <2>1, Zenon DEF Init
  <2>3. setup \in Setup
    BY <1>1, SidebandAssumption DEF Init
  <2>4. /\ frame \in [Displays -> Tunnelled \cup {NoFrame}]
        /\ collected \in [Displays -> Tunnelled \cup {NoFrame}]
        /\ active \in [Displays -> Tunnelled \cup {NoFrame}]
    BY <1>1 DEF Init
  <2>5. pset \in [Displays -> BOOLEAN]
    BY <1>1, Zenon DEF Init
  <2>6. /\ DOMAIN given = Tunnels /\ DOMAIN vtq = Tunnels
        /\ DOMAIN list = Tunnels /\ DOMAIN copies = Tunnels /\ DOMAIN fences = Tunnels
    BY <1>1, Zenon DEF Init
  <2>7. /\ conn \in Connections
        /\ turn \in [Tunnels -> SUBSET setup.rotated]
        /\ worker \in [Displays -> {"idle", "vp", "commit"}]
    BY <1>1 DEF Init, Connections
  <2>8. /\ open = {} /\ todo = {} /\ last = 0 /\ dvp = "check" /\ got = <<>>
    BY <1>1, Zenon DEF Init
  <2>. QED BY <2>2, <2>3, <2>4, <2>5, <2>6, <2>7, <2>8 DEF Types, Tunnelled
<1>. QED BY <1>1

(* The primary's connection comes and goes; those of the displays stay.      *)
LEMMA ModeIs ==
  ASSUME Types, NEW t \in Tunnelled, UpdateSidebandMode(t)
  PROVE  /\ UNCHANGED <<turn, list, fences, copies, reading>>
         /\ open \subseteq open' /\ open' \subseteq Tunnels /\ last' \in Tunnelled
         /\ conn' \in Connections
         /\ \A u \in Tunnels : conn'[u] \ {Ui} = conn[u] \ {Ui}
         /\ \A u \in Tunnels \ open' : conn'[u] \subseteq conn[u]
         /\ dvp' = dvp \/ (dvp = "asleep" /\ dvp' = "serve" /\ got = <<>>)
<1>0. UNCHANGED <<turn, list, fences, copies, reading>>
  BY DEF UpdateSidebandMode
<1>1. CASE t = last
  BY <1>0, <1>1 DEF UpdateSidebandMode, Types
<1>2. CASE t # last
  <2> DEFINE old == IF last > 0 THEN DestoryConnection(conn, Ui, last) ELSE conn
  <2>1. /\ old \in Connections
        /\ \A u \in Tunnels : old[u] \ {Ui} = conn[u] \ {Ui} /\ old[u] \subseteq conn[u]
    <3>1. conn \in Connections
      BY DEF Types
    <3>2. CASE last > 0
      <4>1. old = DestoryConnection(conn, Ui, last)
        BY <3>2
      <4> HIDE DEF old
      <4>2. /\ old \in Connections
            /\ \A u \in Tunnels :
                 old[u] = conn[u] \ (IF last \in open /\ u = last THEN {Ui} ELSE {})
        BY <3>1, <4>1, Disconnected
      <4>. QED BY <4>2
    <3>3. CASE ~(last > 0)
      BY <3>1, <3>3
    <3>. QED BY <3>2, <3>3 DEF Connections
  <2>2. IF t = 0
        THEN /\ conn' = old /\ last' = IF last \in open THEN 0 ELSE last
             /\ UNCHANGED <<open, turn, dvp>>
        ELSE \E ok \in Connects(t) :
               /\ open' = IF ok THEN open \cup {t} ELSE open
               /\ conn' = IF ok THEN [old EXCEPT ![t] = @ \cup {Ui}] ELSE old
               /\ dvp' = Woken(ok /\ t \notin open)
               /\ last' = t
               /\ UNCHANGED turn
    BY <1>2, Zenon DEF UpdateSidebandMode
  <2> HIDE DEF old
  <2>3. CASE t = 0
    BY <1>0, <2>1, <2>2, <2>3 DEF Types, Tunnelled
  <2>4. CASE t # 0
    <3>1. PICK ok \in Connects(t) :
               /\ open' = IF ok THEN open \cup {t} ELSE open
               /\ conn' = IF ok THEN [old EXCEPT ![t] = @ \cup {Ui}] ELSE old
               /\ dvp' = Woken(ok /\ t \notin open)
               /\ last' = t
      BY <2>2, <2>4, Zenon
    <3>2. t \in Tunnels
      BY <2>4 DEF Tunnelled
    <3>3. dvp' = dvp \/ (dvp = "asleep" /\ dvp' = "serve" /\ got = <<>>)
      BY <3>1, WokenTypes
    <3>4. CASE ok
      BY <1>0, <2>1, <3>1, <3>2, <3>3, <3>4 DEF Types, Connections
    <3>5. CASE ~ok
      BY <1>0, <2>1, <3>1, <3>2, <3>3, <3>5 DEF Types, Connections
    <3>. QED BY <3>4, <3>5
  <2>. QED BY <2>3, <2>4
<1>. QED BY <1>1, <1>2

LEMMA RangeOf ==
  ASSUME NEW B, NEW q \in Seq(B)
  PROVE  Range(q) \subseteq B
  BY DEF Range

(* What a display fetches is one of the tunnel's newest buffers, or a copy   *)
(* of one.                                                                   *)
LEMMA FetchedIs ==
  ASSUME Types, Lists, NEW d \in Displays, NEW t \in Tunnels, NEW buf \in AcquireChoices(d, t),
         buf # NoBuf
  PROVE  /\ t \in open /\ buf \in Buffers[t] \X BOOLEAN /\ buf[2] = (d \in setup.rotated)
<1> DEFINE from == IF d \in setup.rotated THEN copies[t] ELSE list[t]
           fetched == {<<b, d \in setup.rotated>> : b \in Range(from)}
<1>1. t \in open /\ buf \in fetched
  BY Zenon DEF AcquireChoices
<1>2. Range(from) \subseteq Buffers[t]
  <2>1. Range(list[t]) \subseteq Buffers[t] /\ Range(copies[t]) \subseteq Buffers[t]
    BY RangeOf DEF Lists, ListsOf, Pool
  <2>. QED BY <2>1
<1>3. PICK b \in Buffers[t] : buf = <<b, d \in setup.rotated>>
  BY <1>1, <1>2, Zenon
<1>4. (d \in setup.rotated) \in BOOLEAN
  OBVIOUS
<1>. QED BY <1>1, <1>3, <1>4, Zenon

(* A display that shows a video connects to its tunnel and fetches a buffer. *)
LEMMA FetchIs ==
  ASSUME NEW d, CollectVP(d), NEW t, t = ShownComposition(d), current[d].on, t \in Tunnels
  PROVE  \E ok \in Connects(t), buf \in AcquireChoices(d, t) :
            /\ open' = IF ok THEN open \cup {t} ELSE open
            /\ conn' = IF ok THEN [conn EXCEPT ![t] = @ \cup {d}] ELSE conn
            /\ turn' = IF ok /\ d \in setup.rotated THEN [turn EXCEPT ![t] = @ \cup {d}] ELSE turn
            /\ dvp' = Woken(ok /\ t \notin open)
            /\ IF buf = NoBuf THEN UNCHANGED <<fences, current>>
               ELSE /\ current' = [current EXCEPT ![d] = [on |-> TRUE, t |-> t, buf |-> buf]]
                    /\ fences' = IF d \in setup.rotated THEN fences
                                 ELSE [fences EXCEPT ![t] = AddReleaseRefCnt(@, d, buf[1])]
<1>1. \E ok \in Connects(t) :
         /\ open' = IF ok THEN open \cup {t} ELSE open
         /\ conn' = IF ok THEN [conn EXCEPT ![t] = @ \cup {d}] ELSE conn
         /\ turn' = IF ok /\ d \in setup.rotated THEN [turn EXCEPT ![t] = @ \cup {d}] ELSE turn
         /\ dvp' = Woken(ok /\ t \notin open)
         /\ \E buf \in AcquireChoices(d, t) :
              IF buf = NoBuf THEN UNCHANGED <<fences, current>>
              ELSE /\ current' = [current EXCEPT ![d] = [on |-> TRUE, t |-> t, buf |-> buf]]
                   /\ fences' = IF d \in setup.rotated THEN fences
                                ELSE [fences EXCEPT ![t] = AddReleaseRefCnt(@, d, buf[1])]
  BY DEF CollectVP
<1>. QED BY <1>1, Zenon

LEMMA TypesStep ==
  ASSUME Types, Lists, \A d \in Displays : Pictures(d), [Next]_vars
  PROVE  Types'
<1>1. ASSUME NEW t \in Fed, ProducerQueues(t) PROVE Types'
  BY <1>1 DEF Types, ProducerQueues, ctxVars, dvpVars, compVars
<1>2. ASSUME DvpChecks PROVE Types'
  BY <1>2 DEF Types, DvpChecks, ctxVars, compVars
<1>3. ASSUME DvpSleeps PROVE Types'
  BY <1>3 DEF Types, DvpSleeps, ctxVars, compVars
<1>4. ASSUME DvpServes PROVE Types'
  BY <1>4 DEF Types, DvpServes, compVars
<1>5. ASSUME DvpTimesOut PROVE Types'
  BY <1>5, AfterTunnelTypes, NextTunnelIs DEF Types, DvpTimesOut, ctxVars, compVars
<1>6. ASSUME DvpDropsBuffer PROVE Types'
  BY <1>6, AfterTunnelTypes, NextTunnelIs DEF Types, DvpDropsBuffer, ctxVars, compVars
<1>7. ASSUME DvpAcquires PROVE Types'
  <2> DEFINE t == NextTunnel  b == Head(vtq[t])
  <2>1. t \in open /\ b \in Buffers[t] /\ (turn[t] # {}) \in BOOLEAN /\ todo # {}
    BY <1>7, NextTunnelIs DEF Lists, ListsOf, Pool, DvpAcquires, Types
  <2>2. got' = <<t, b, turn[t] # {}>>
    BY <1>7, Zenon DEF DvpAcquires
  <2>3. \E u \in open : \E c \in Buffers[u], r \in BOOLEAN : got' = <<u, c, r>>
    BY <2>1, <2>2, Zenon
  <2>4. dvp' \in {"turn", "push"}
    BY <1>7 DEF DvpAcquires
  <2>. QED BY <1>7, <2>1, <2>3, <2>4 DEF Types, DvpAcquires, compVars
<1>8. ASSUME DvpRotates PROVE Types'
  BY <1>8 DEF Types, DvpRotates, compVars
<1>9. ASSUME DvpPushes PROVE Types'
  BY <1>9, AfterTunnelTypes DEF Types, DvpPushes, compVars
<1>10. ASSUME RgaFinishes PROVE Types'
  BY <1>10 DEF Types, RgaFinishes, dvpVars, compVars
<1>11. ASSUME NEW d \in Displays, NEW t \in setup.shows[d], Present(d, t) PROVE Types'
  <2>1. t \in Tunnelled
    BY SetupFields DEF Types
  <2>2. CASE d = 0
    <3>1. UpdateSidebandMode(t)
      BY <1>11, <2>2 DEF Present
    <3>. QED BY <1>11, <2>1, <3>1, ModeIs DEF Types, Present
  <2>3. CASE d # 0
    BY <1>11, <2>1, <2>3 DEF Types, Present, ctxVars
  <2>. QED BY <2>2, <2>3
<1>12. ASSUME NEW d \in Displays, CollectSF(d) PROVE Types'
  <2>1. CASE frame[d] = NoFrame
    BY <1>12, <2>1 DEF Types, CollectSF, ctxVars, dvpVars
  <2>2. CASE frame[d] # NoFrame
    <3>1. PICK ok \in BOOLEAN :
            /\ frame' = [frame EXCEPT ![d] = NoFrame]
            /\ current' = [current EXCEPT ![d] = [on |-> frame[d] > 0, t |-> frame[d], buf |-> NoBuf]]
            /\ collected' = IF ok THEN [collected EXCEPT ![d] = frame[d]] ELSE collected
            /\ pset' = [pset EXCEPT ![d] = ok]
      BY <1>12, <2>2 DEF CollectSF
    <3>2. frame[d] \in Tunnelled
      BY <2>2 DEF Types
    <3>3. [on |-> frame[d] > 0, t |-> frame[d], buf |-> NoBuf] \in SidebandType
      BY <3>2 DEF SidebandType
    <3>4. /\ current' \in [Displays -> SidebandType] /\ pset' \in [Displays -> BOOLEAN]
      BY <3>1, <3>3, Zenon DEF Types
    <3>. QED BY <1>12, <3>1, <3>2, <3>4 DEF Types, CollectSF, ctxVars, dvpVars
  <2>. QED BY <2>1, <2>2
<1>13. ASSUME NEW d \in Displays, CollectVP(d) PROVE Types'
  <2> DEFINE t == ShownComposition(d)
  <2>1. pset' \in [Displays -> BOOLEAN]
    BY <1>13, Zenon DEF Types, CollectVP
  <2>2. CASE ~current[d].on \/ t \notin Tunnels
    BY <1>13, <2>1, <2>2 DEF Types, CollectVP
  <2>3. CASE current[d].on /\ t \in Tunnels
    <3>1. PICK ok \in Connects(t), buf \in AcquireChoices(d, t) :
            /\ open' = IF ok THEN open \cup {t} ELSE open
            /\ conn' = IF ok THEN [conn EXCEPT ![t] = @ \cup {d}] ELSE conn
            /\ turn' = IF ok /\ d \in setup.rotated THEN [turn EXCEPT ![t] = @ \cup {d}] ELSE turn
            /\ dvp' = Woken(ok /\ t \notin open)
            /\ IF buf = NoBuf THEN UNCHANGED <<fences, current>>
               ELSE /\ current' = [current EXCEPT ![d] = [on |-> TRUE, t |-> t, buf |-> buf]]
                    /\ fences' = IF d \in setup.rotated THEN fences
                                 ELSE [fences EXCEPT ![t] = AddReleaseRefCnt(@, d, buf[1])]
      BY <1>13, <2>3, FetchIs
    <3>2. dvp' = dvp \/ (dvp = "asleep" /\ dvp' = "serve" /\ got = <<>>)
      BY <3>1, WokenTypes
    <3>3. current' \in [Displays -> SidebandType]
      <4>1. CASE buf = NoBuf
        BY <3>1, <4>1 DEF Types
      <4>2. CASE buf # NoBuf
        <5>1. buf \in Buffers[t] \X BOOLEAN
          BY <2>3, <4>2, FetchedIs
        <5>2. buf \in AllBuffers \X BOOLEAN
          BY <2>3, <5>1 DEF AllBuffers
        <5>3. [on |-> TRUE, t |-> t, buf |-> buf] \in SidebandType
          BY <2>3, <5>2 DEF SidebandType, Tunnelled
        <5>. QED BY <3>1, <4>2, <5>3, Zenon DEF Types
      <4>. QED BY <4>1, <4>2
    <3>4. open' \subseteq Tunnels /\ open \subseteq open'
      BY <2>3, <3>1 DEF Types
    <3>5. conn' \in Connections /\ turn' \in [Tunnels -> SUBSET setup.rotated]
      BY <2>3, <3>1 DEF Types, Connections
    <3>6. DOMAIN fences' = Tunnels
      BY <3>1 DEF Types
    <3> HIDE DEF t
    <3>. QED BY <1>13, <2>1, <3>2, <3>3, <3>4, <3>5, <3>6 DEF Types, CollectVP
  <2>. QED BY <2>2, <2>3
<1>14. ASSUME NEW d \in Displays, Commit(d) PROVE Types'
  <2>1. CASE ~pset[d]
    BY <1>14, <2>1 DEF Types, Commit, dvpVars
  <2>2. CASE pset[d]
    <3>1. /\ pset' \in [Displays -> BOOLEAN]
      BY <1>14, <2>2, Zenon DEF Types, Commit
    <3>2. /\ active' \in [Displays -> Tunnelled \cup {NoFrame}]
          /\ collected' \in [Displays -> Tunnelled \cup {NoFrame}]
      BY <1>14, <2>2 DEF Types, Commit, ShownComposition
    <3>3. /\ DOMAIN fences' = Tunnels /\ drawing' \in [Displays -> SidebandType]
          /\ conn' \in Connections
      <4>1. CASE UpdateSidebandState(d)
        <5>1. /\ drawing' = [drawing EXCEPT ![d] = current[d]]
              /\ fences' = fences \/ fences' = Released(fences, d, drawing[d])
              /\ conn' = conn \/ conn' = DestoryConnection(conn, d, drawing[d].t)
          BY <4>1, UpdateIs
        <5>2. conn \in Connections
          BY DEF Types
        <5>3. conn' \in Connections
          BY <5>1, <5>2, Disconnected
        <5>4. DOMAIN fences' = Tunnels
          BY <5>1 DEF Types, Released
        <5>. QED BY <5>1, <5>3, <5>4 DEF Types
      <4>2. CASE UNCHANGED <<fences, conn, drawing>>
        BY <4>2 DEF Types
      <4>. QED BY <1>14, <2>2, <4>1, <4>2 DEF Commit
    <3>. QED BY <1>14, <3>1, <3>2, <3>3 DEF Types, Commit, dvpVars
  <2>. QED BY <2>1, <2>2
<1>15. ASSUME NEW d \in Displays, ClearDisplay(d) PROVE Types'
  <2> DEFINE c == current[d]  w == drawing[d]
  <2>1. /\ current' = [current EXCEPT ![d] = Off] /\ drawing' = [drawing EXCEPT ![d] = Off]
        /\ fences' = Released(Released(fences, d, w), d, c)
        /\ conn' = DestoryConnection(DestoryConnection(conn, d, c.t), d, w.t)
    BY <1>15, ClearIs
  <2>2. Off \in SidebandType
    BY DEF Off, SidebandType, Tunnelled
  <2>3. current' \in [Displays -> SidebandType] /\ drawing' \in [Displays -> SidebandType]
    BY <2>1, <2>2, Zenon DEF Types
  <2>4. DOMAIN fences' = Tunnels
    BY <2>1 DEF Types, Released
  <2>5. conn' \in Connections
    <3> DEFINE ds == DestoryConnection(conn, d, c.t)
    <3>1. conn \in Connections
      BY DEF Types
    <3>2. ds \in Connections
      BY <3>1, Disconnected
    <3> HIDE DEF ds
    <3>3. conn' = DestoryConnection(ds, d, w.t)
      BY <2>1 DEF ds
    <3>. QED BY <3>2, <3>3, Disconnected
  <2>6. /\ frame' \in [Displays -> Tunnelled \cup {NoFrame}]
        /\ active' \in [Displays -> Tunnelled \cup {NoFrame}]
        /\ collected' \in [Displays -> Tunnelled \cup {NoFrame}]
    BY <1>15 DEF Types, ClearDisplay
  <2>. QED BY <1>15, <2>3, <2>4, <2>5, <2>6 DEF Types, ClearDisplay, dvpVars
<1>16. ASSUME UNCHANGED vars PROVE Types'
  BY <1>16 DEF Types, vars, ctxVars, dvpVars, compVars
<1>17. setup.cleared \subseteq Displays
  BY DEF Types, Setup
<1>. QED BY <1>1, <1>2, <1>3, <1>4, <1>5, <1>6, <1>7, <1>8, <1>9, <1>10, <1>11, <1>12, <1>13,
            <1>14, <1>15, <1>16, <1>17, Zenon DEF Next, Dvp, Worker

(* The buffers go from the end of one queue to the other.                    *)
LEMMA PoolQueues ==
  ASSUME NEW B, NEW q, NEW g, Pool(B, q, g), g # <<>>
  PROVE  Pool(B, Append(q, Head(g)), Tail(g))
<1>1. q \in Seq(B) /\ g \in Seq(B)
  BY DEF Pool
<1>2. Append(q, Head(g)) \in Seq(B) /\ Tail(g) \in Seq(B)
  BY <1>1
<1>3. Append(q, Head(g)) \o Tail(g) = q \o g
  BY <1>1, ConcatMoves
<1>. QED BY <1>2, <1>3, Zenon DEF Pool

LEMMA PoolReturns ==
  ASSUME NEW B, NEW q, NEW g, Pool(B, q, g), q # <<>>
  PROVE  Pool(B, Tail(q), Append(g, Head(q)))
<1>1. q \in Seq(B) /\ g \in Seq(B) /\ q \o g \in Seq(B)
  BY DEF Pool
<1>2. Append(g, Head(q)) \in Seq(B) /\ Tail(q) \in Seq(B)
  BY <1>1
<1>3. /\ q \o g # <<>>
      /\ Tail(q) \o Append(g, Head(q)) = Append(Tail(q \o g), Head(q \o g))
  BY <1>1, ConcatMoves
<1>4. IsInjective(q \o g) /\ Range(q \o g) = B
  BY DEF Pool
<1>5. /\ IsInjective(Append(Tail(q \o g), Head(q \o g)))
      /\ Range(Append(Tail(q \o g), Head(q \o g))) = B
  BY <1>1, <1>3, <1>4, RotationKeeps
<1>. QED BY <1>2, <1>3, <1>5, Zenon DEF Pool

LEMMA KeepTwoKeeps ==
  ASSUME NEW B, NEW q \in Seq(B), Len(q) <= 2, NEW b \in B
  PROVE  KeepTwo(Append(q, b)) \in Seq(B) /\ Len(KeepTwo(Append(q, b))) <= 2
  BY DEF KeepTwo

LEMMA InitLists == Init => Lists
<1>1. ASSUME Init, NEW t \in Tunnels PROVE ListsOf(t)
  <2>1. /\ vtq[t] = <<>> /\ given[t] = SetToSeq(Buffers[t])
        /\ list[t] = <<>> /\ copies[t] = <<>>
    BY <1>1, Zenon DEF Init
  <2>2. IsFiniteSet(Buffers[t])
    BY SidebandAssumption
  <2>3. given[t] \in Seq(Buffers[t]) /\ IsInjective(given[t]) /\ Range(given[t]) = Buffers[t]
    BY <2>1, <2>2, RowOf
  <2>4. vtq[t] \o given[t] = given[t]
    BY <2>1, <2>3
  <2>. QED BY <2>1, <2>3, <2>4 DEF ListsOf, Pool
<1>. QED BY <1>1, Zenon DEF Lists

LEMMA ListsStep ==
  ASSUME Types, Lists, [Next]_vars
  PROVE  Lists'
<1>1. ASSUME UNCHANGED <<given, vtq, list, copies>> PROVE Lists'
  BY <1>1 DEF Lists, ListsOf
<1>2. ASSUME NEW t \in Fed, ProducerQueues(t) PROVE Lists'
  <2>1. t \in Tunnels /\ given[t] # <<>> /\ UNCHANGED <<list, copies>>
    BY <1>2, SetupFields DEF ProducerQueues, Types, ctxVars
  <2>2. /\ vtq' = [vtq EXCEPT ![t] = Append(vtq[t], Head(given[t]))]
        /\ given' = [given EXCEPT ![t] = Tail(given[t])]
    BY <1>2, Zenon DEF ProducerQueues
  <2>3. Pool(Buffers[t], Append(vtq[t], Head(given[t])), Tail(given[t]))
    BY <2>1, PoolQueues DEF Lists, ListsOf
  <2>4. \A u \in Tunnels : /\ vtq'[u] = IF u = t THEN Append(vtq[t], Head(given[t])) ELSE vtq[u]
                           /\ given'[u] = IF u = t THEN Tail(given[t]) ELSE given[u]
    BY <2>1, <2>2 DEF Types
  <2>5. ASSUME NEW u \in Tunnels PROVE ListsOf(u)'
    <3>1. CASE u = t
      BY <2>1, <2>3, <2>4, <3>1, Zenon DEF Lists, ListsOf
    <3>2. CASE u # t
      BY <2>1, <2>3, <2>4, <3>2 DEF Lists, ListsOf
    <3>. QED BY <3>1, <3>2
  <2>. QED BY <2>5, Zenon DEF Lists, ListsOf
<1>3. ASSUME NEW t \in Tunnels, vtq[t] # <<>>, UNCHANGED <<list, copies>>,
             vtq' = [vtq EXCEPT ![t] = Tail(vtq[t])],
             given' = [given EXCEPT ![t] = Append(given[t], Head(vtq[t]))]
      PROVE  Lists'
  <2>1. Pool(Buffers[t], Tail(vtq[t]), Append(given[t], Head(vtq[t])))
    BY <1>3, PoolReturns DEF Lists, ListsOf
  <2>2. \A u \in Tunnels : /\ vtq'[u] = IF u = t THEN Tail(vtq[t]) ELSE vtq[u]
                           /\ given'[u] = IF u = t THEN Append(given[t], Head(vtq[t])) ELSE given[u]
    BY <1>3 DEF Types
  <2>5. ASSUME NEW u \in Tunnels PROVE ListsOf(u)'
    <3>1. CASE u = t
      BY <1>3, <2>1, <2>2, <3>1, Zenon DEF Lists, ListsOf
    <3>2. CASE u # t
      BY <1>3, <2>1, <2>2, <3>2 DEF Lists, ListsOf
    <3>. QED BY <3>1, <3>2
  <2>. QED BY <2>5, Zenon DEF Lists, ListsOf
<1>4. ASSUME DvpDropsBuffer PROVE Lists'
  BY <1>3, <1>4, NextTunnelIs DEF DvpDropsBuffer, ctxVars
<1>5. ASSUME DvpAcquires PROVE Lists'
  BY <1>3, <1>5, NextTunnelIs DEF DvpAcquires
<1>6. ASSUME DvpServes PROVE Lists'
  <2>1. UNCHANGED <<given, vtq>>
    BY <1>6 DEF DvpServes
  <2>2. \A t \in Tunnels : /\ list'[t] \in {list[t], <<>>}
                           /\ copies'[t] \in {copies[t], <<>>}
    BY <1>6 DEF DvpServes
  <2>3. \A B : <<>> \in Seq(B) /\ Len(<<>>) <= 2
    OBVIOUS
  <2>4. ASSUME NEW u \in Tunnels PROVE ListsOf(u)'
    <3>1. /\ Pool(Buffers[u], vtq'[u], given'[u])
      BY <2>1 DEF Lists, ListsOf
    <3>2. /\ list'[u] \in Seq(Buffers[u]) /\ Len(list'[u]) <= 2
          /\ copies'[u] \in Seq(Buffers[u]) /\ Len(copies'[u]) <= 2
      BY <2>2, <2>3, Zenon DEF Lists, ListsOf
    <3>. QED BY <3>1, <3>2, Zenon DEF ListsOf
  <2>. QED BY <2>4, Zenon DEF Lists, ListsOf
<1>7. ASSUME DvpPushes PROVE Lists'
  <2> DEFINE t == got[1]  b == got[2]
  <2>1. t \in Tunnels /\ b \in Buffers[t]
    BY <1>7 DEF DvpPushes, Types
  <2>2. /\ list' = [list EXCEPT ![t] = KeepTwo(Append(list[t], b))]
        /\ copies' = [copies EXCEPT ![t] = IF got[3] THEN KeepTwo(Append(copies[t], b)) ELSE <<>>]
        /\ UNCHANGED <<given, vtq>>
    BY <1>7, Zenon DEF DvpPushes
  <2> HIDE DEF t, b
  <2>3. /\ KeepTwo(Append(list[t], b)) \in Seq(Buffers[t])
        /\ Len(KeepTwo(Append(list[t], b))) <= 2
        /\ KeepTwo(Append(copies[t], b)) \in Seq(Buffers[t])
        /\ Len(KeepTwo(Append(copies[t], b))) <= 2
    BY <2>1, KeepTwoKeeps DEF Lists, ListsOf
  <2>4. \A u \in Tunnels \ {t} : list'[u] = list[u] /\ copies'[u] = copies[u]
    BY <2>1, <2>2 DEF Types
  <2>5. /\ list'[t] = KeepTwo(Append(list[t], b))
        /\ copies'[t] \in {KeepTwo(Append(copies[t], b)), <<>>}
    BY <2>1, <2>2 DEF Types
  <2>6. \A B : <<>> \in Seq(B) /\ Len(<<>>) <= 2
    OBVIOUS
  <2>7. ASSUME NEW u \in Tunnels PROVE ListsOf(u)'
    <3>1. /\ Pool(Buffers[u], vtq'[u], given'[u])
      BY <2>2 DEF Lists, ListsOf
    <3>2. CASE u = t
      BY <2>3, <2>5, <2>6, <3>1, <3>2, Zenon DEF ListsOf
    <3>3. CASE u # t
      <4>1. list'[u] = list[u] /\ copies'[u] = copies[u]
        BY <2>4, <3>3
      <4>. QED BY <3>1, <4>1, Zenon DEF Lists, ListsOf
    <3>. QED BY <3>2, <3>3
  <2>. QED BY <2>7, Zenon DEF Lists, ListsOf
<1>8. ASSUME NEW d \in Displays, NEW t \in setup.shows[d], Present(d, t) PROVE Lists'
  BY <1>1, <1>8 DEF Present, UpdateSidebandMode, ctxVars
<1>9. setup.cleared \subseteq Displays
  BY DEF Types, Setup
<1>10. ASSUME \/ DvpChecks \/ DvpSleeps \/ DvpTimesOut \/ DvpRotates \/ RgaFinishes
              \/ \E d \in Displays : Worker(d) \/ ClearDisplay(d)
              \/ UNCHANGED vars
       PROVE  Lists'
  BY <1>1, <1>10 DEF DvpChecks, DvpSleeps, DvpTimesOut, DvpRotates, RgaFinishes, Worker, CollectSF,
       CollectVP, Commit, ClearDisplay, vars, ctxVars
<1>. QED BY <1>2, <1>4, <1>5, <1>6, <1>7, <1>8, <1>9, <1>10, Zenon DEF Next, Dvp

(***************************************************************************)
(* The fences are behind.                                                  *)
(***************************************************************************)

LEMMA InitFences == Init => Fences
<1>1. ASSUME Init, NEW t \in Tunnels PROVE Ordered(fences[t], Buffers[t], Pushed(t), vtq[t])
  <2>1. /\ fences[t] = NewFences(t) /\ list[t] = <<>> /\ got = <<>> /\ vtq[t] = <<>>
    BY <1>1, Zenon DEF Init
  <2>2. Pushed(t) = <<>>
    BY <2>1, Zenon DEF Pushed, Joined
  <2>3. Behind(fences[t], Buffers[t], Pushed(t))
    BY <2>1, <2>2, NewIsBehind, Zenon
  <2>4. \A i \in 1 .. Len(vtq[t]) : fences[t].wait[vtq[t][i]] = 0
    BY <2>1
  <2>. QED BY <2>3, <2>4 DEF Ordered
<1>. QED BY <1>1, Zenon DEF Fences, FencesOf

(* The buffers still queued, or queued since, have no pending fence.         *)
LEMMA QueuedIsReady ==
  ASSUME Lists, Fences, NEW t \in Tunnels
  PROVE  /\ vtq[t] \in Seq(Buffers[t]) /\ Len(vtq[t]) \in Nat
         /\ vtq[t] # <<>> =>
              /\ Head(vtq[t]) \in Buffers[t] /\ fences[t].wait[Head(vtq[t])] = 0
              /\ \A i \in 1 .. Len(Tail(vtq[t])) :
                   /\ Tail(vtq[t])[i] \in Buffers[t] \ {Head(vtq[t])}
                   /\ fences[t].wait[Tail(vtq[t])[i]] = 0
<1> DEFINE q == vtq[t]  g == given[t]
<1>1. q \in Seq(Buffers[t]) /\ g \in Seq(Buffers[t]) /\ IsInjective(q \o g)
  BY DEF Lists, ListsOf, Pool
<1>2. \A i \in 1 .. Len(q) : fences[t].wait[q[i]] = 0
  BY DEF Fences, FencesOf, Ordered
<1> HIDE DEF q, g
<1>3. IsInjective(q)
  <2>1. /\ DOMAIN q = 1 .. Len(q) /\ Len(q) \in Nat /\ Len(g) \in Nat
        /\ DOMAIN (q \o g) = 1 .. Len(q) + Len(g)
        /\ \A i \in 1 .. Len(q) : (q \o g)[i] = q[i]
    BY <1>1
  <2>2. 1 .. Len(q) \subseteq 1 .. Len(q) + Len(g)
    BY <2>1
  <2>. QED BY <1>1, <2>1, <2>2 DEF IsInjective
<1>4. CASE q # <<>>
  <2>1. /\ Len(q) \in Nat \ {0} /\ Head(q) = q[1] /\ Head(q) \in Buffers[t]
        /\ Tail(q) \in Seq(Buffers[t]) /\ Len(Tail(q)) = Len(q) - 1
        /\ \A i \in 1 .. Len(q) - 1 : Tail(q)[i] = q[i + 1]
    BY <1>1, <1>4, TailOf
  <2>2. \A i \in 1 .. Len(q) - 1 : Tail(q)[i] # Head(q)
    BY <1>1, <1>3, <1>4, InjectiveTail
  <2>3. ASSUME NEW i \in 1 .. Len(Tail(q))
        PROVE  /\ Tail(q)[i] \in Buffers[t] \ {Head(q)}
               /\ fences[t].wait[Tail(q)[i]] = 0
    <3>1. i \in 1 .. Len(q) - 1 /\ i + 1 \in 1 .. Len(q)
      BY <2>1
    <3>2. Tail(q)[i] \in Buffers[t]
      BY <2>1
    <3>. QED BY <1>2, <2>1, <2>2, <3>1, <3>2
  <2>4. 1 \in 1 .. Len(q)
    BY <2>1
  <2>. QED BY <1>1, <1>2, <2>1, <2>3, <2>4 DEF q
<1>. QED BY <1>1, <1>4 DEF q

LEMMA FencesStep ==
  ASSUME Types, Lists, Fences, \A d \in Displays : Pictures(d), [Next]_vars
  PROVE  Fences'
<1> DEFINE At(u) == Ordered(fences'[u], Buffers[u], Joined(list'[u], got', u), vtq'[u])
<1>0. ASSUME \A u \in Tunnels : At(u) PROVE Fences'
  BY <1>0 DEF Fences, FencesOf, Pushed
<1>00. \A u \in Tunnels : Ordered(fences[u], Buffers[u], Joined(list[u], got, u), vtq[u])
  BY DEF Fences, FencesOf, Pushed
<1>1. ASSUME UNCHANGED <<fences, got, list, vtq>> PROVE Fences'
  BY <1>1 DEF Fences, FencesOf, Pushed
<1>2. ASSUME FencesOf(fences'), UNCHANGED <<got, list, vtq>> PROVE Fences'
  BY <1>2 DEF Fences, FencesOf, Pushed
<1>3. ASSUME NEW t \in Fed, ProducerQueues(t) PROVE Fences'
  <2>1. /\ t \in Tunnels /\ given[t] # <<>> /\ fences[t].wait[Head(given[t])] = 0
        /\ UNCHANGED <<fences, got, list>>
    BY <1>3, SetupFields DEF ProducerQueues, Types, ctxVars, dvpVars
  <2>2. vtq' = [vtq EXCEPT ![t] = Append(vtq[t], Head(given[t]))]
    BY <1>3, Zenon DEF ProducerQueues
  <2>3. vtq[t] \in Seq(Buffers[t]) /\ Head(given[t]) \in Buffers[t]
    BY <2>1 DEF Lists, ListsOf, Pool
  <2>4. \A i \in 1 .. Len(vtq[t]) : fences[t].wait[vtq[t][i]] = 0
    BY <1>00, <2>1 DEF Ordered
  <2>5. \A i \in 1 .. Len(Append(vtq[t], Head(given[t]))) :
          fences[t].wait[Append(vtq[t], Head(given[t]))[i]] = 0
    BY <2>1, <2>3, <2>4, AppendOf
  <2>6. /\ vtq'[t] = Append(vtq[t], Head(given[t]))
        /\ \A u \in Tunnels \ {t} : vtq'[u] = vtq[u]
    BY <2>1, <2>2 DEF Types
  <2>7. At(t)
    BY <1>00, <2>1, <2>5, <2>6 DEF Ordered
  <2>8. \A u \in Tunnels \ {t} : At(u)
    BY <1>00, <2>1, <2>6
  <2>. QED BY <1>0, <2>7, <2>8
<1>4. ASSUME DvpDropsBuffer PROVE Fences'
  <2> DEFINE t == NextTunnel
  <2>1. /\ t \in Tunnels /\ vtq[t] # <<>> /\ UNCHANGED <<fences, got, list>>
        /\ vtq' = [vtq EXCEPT ![t] = Tail(vtq[t])]
    BY <1>4, NextTunnelIs DEF DvpDropsBuffer, ctxVars
  <2>2. \A i \in 1 .. Len(Tail(vtq[t])) : fences[t].wait[Tail(vtq[t])[i]] = 0
    BY <2>1, QueuedIsReady
  <2> HIDE DEF t
  <2>3. vtq'[t] = Tail(vtq[t]) /\ \A u \in Tunnels \ {t} : vtq'[u] = vtq[u]
    BY <2>1 DEF Types
  <2>4. At(t)
    BY <1>00, <2>1, <2>2, <2>3 DEF Ordered
  <2>5. \A u \in Tunnels \ {t} : At(u)
    BY <1>00, <2>1, <2>3
  <2>. QED BY <1>0, <2>4, <2>5
<1>5. ASSUME DvpAcquires PROVE Fences'
  <2> DEFINE t == NextTunnel  b == Head(vtq[t])  f == fences[t]
             g == AddReleaseRefCnt(AddReleaseFence(f, b), Listed, b)
  <2>1. t \in Tunnels /\ got = <<>> /\ vtq[t] # <<>> /\ IsFiniteSet(Buffers[t])
    BY <1>5, NextTunnelIs, SidebandAssumption DEF DvpAcquires
  <2>2. /\ vtq' = [vtq EXCEPT ![t] = Tail(vtq[t])] /\ fences' = [fences EXCEPT ![t] = g]
        /\ got' = <<t, b, turn[t] # {}>> /\ list' = list
    BY <1>5, Zenon DEF DvpAcquires
  <2>3. /\ b \in Buffers[t] /\ f.wait[b] = 0
        /\ \A i \in 1 .. Len(Tail(vtq[t])) : /\ Tail(vtq[t])[i] \in Buffers[t] \ {b}
                                             /\ f.wait[Tail(vtq[t])[i]] = 0
    BY <2>1, QueuedIsReady
  <2>4. g = AddReleaseRefCnt(AddReleaseFence(f, b), Listed, b)
    OBVIOUS
  <2> HIDE DEF g
  <2>5. Joined(list[t], got, t) = list[t]
    BY <2>1, Zenon DEF Joined
  <2>6. Behind(f, Buffers[t], list[t]) 
    BY <1>00, <2>1, <2>5 DEF Ordered
  <2> HIDE DEF t, b, f
  <2>7. \A i \in 1 .. Len(list[t]) : list[t][i] # b
    BY <2>1, <2>3, <2>6, BehindIsPending
  <2>8. /\ Behind(g, Buffers[t], Append(list[t], b))
        /\ \A c \in Buffers[t] \ {b} : g.wait[c] = f.wait[c]
    BY <2>1, <2>3, <2>4, <2>6, <2>7, AcquireKeepsBehind
  <2>9. got' # <<>> /\ got'[1] = t /\ got'[2] = b
    BY <2>2
  <2>10. /\ Joined(list'[t], got', t) = Append(list[t], b)
         /\ \A u \in Tunnels \ {t} : Joined(list'[u], got', u) = Joined(list[u], got, u)
    BY <2>1, <2>2, <2>9 DEF Joined
  <2>11. /\ fences'[t] = g /\ vtq'[t] = Tail(vtq[t])
         /\ \A u \in Tunnels \ {t} : fences'[u] = fences[u] /\ vtq'[u] = vtq[u]
    BY <2>1, <2>2 DEF Types
  <2>12. At(t)
    BY <2>3, <2>8, <2>10, <2>11 DEF Ordered
  <2>13. \A u \in Tunnels \ {t} : At(u)
    BY <1>00, <2>10, <2>11
  <2>. QED BY <1>0, <2>12, <2>13
<1>6. ASSUME DvpPushes PROVE Fences'
  <2>0. PICK t \in open : \E b \in Buffers[t], r \in BOOLEAN : got = <<t, b, r>>
    BY <1>6 DEF DvpPushes, Types
  <2>1. PICK b \in Buffers[t], r \in BOOLEAN : got = <<t, b, r>>
    BY <2>0
  <2> DEFINE f == fences[t]  new == Append(list[t], b)  g == SignalReleaseFence(f, Listed, Head(new))
  <2>2. /\ t \in Tunnels /\ IsFiniteSet(Buffers[t])
    BY SidebandAssumption DEF Types
  <2>3. got # <<>> /\ got[1] = t /\ got[2] = b
    BY <2>1
  <2>4. /\ list' = [list EXCEPT ![t] = KeepTwo(new)] /\ vtq' = vtq /\ got' = <<>>
        /\ IF Len(new) > 2 THEN fences' = [fences EXCEPT ![t] = g] ELSE fences' = fences
    BY <1>6, <2>3, Zenon DEF DvpPushes
  <2>5. /\ Joined(list[t], got, t) = new
        /\ \A u \in Tunnels \ {t} : Joined(list[u], got, u) = list[u]
        /\ \A u \in Tunnels : Joined(list'[u], got', u) = list'[u]
    BY <2>3, <2>4, Zenon DEF Joined
  <2>6. new \in Seq(Buffers[t]) /\ new # <<>>
    <3>1. list[t] \in Seq(Buffers[t])
      BY <2>2 DEF Lists, ListsOf
    <3>. QED BY <3>1, AppendIs, Zenon
  <2>7. g = SignalReleaseFence(f, Listed, Head(new))
    OBVIOUS
  <2> HIDE DEF g, new
  <2>8. /\ Behind(f, Buffers[t], new)
        /\ \A i \in 1 .. Len(vtq[t]) : f.wait[vtq[t][i]] = 0
    BY <1>00, <2>2, <2>5 DEF Ordered
  <2>9. \A i \in 1 .. Len(vtq[t]) : vtq[t][i] \in Buffers[t]
    BY <2>2 DEF Lists, ListsOf, Pool
  <2> HIDE DEF f
  <2>10. /\ Behind(g, Buffers[t], Tail(new))
         /\ \A c \in Buffers[t] : f.wait[c] = 0 => g.wait[c] = 0
    BY <2>2, <2>6, <2>7, <2>8, ListSignals
  <2>11. Ordered(fences'[t], Buffers[t], list'[t], vtq[t])
    <3>1. CASE Len(new) > 2
      <4>1. list'[t] = Tail(new) /\ fences'[t] = g
        BY <2>2, <2>4, <3>1 DEF Types, KeepTwo
      <4>. QED BY <2>8, <2>9, <2>10, <4>1, Zenon DEF Ordered
    <3>2. CASE ~(Len(new) > 2)
      <4>1. list'[t] = new /\ fences'[t] = f
        BY <2>2, <2>4, <3>2 DEF Types, KeepTwo, f
      <4>. QED BY <2>8, <4>1, Zenon DEF Ordered
    <3>. QED BY <3>1, <3>2
  <2>12. \A u \in Tunnels \ {t} : list'[u] = list[u] /\ fences'[u] = fences[u]
    BY <2>2, <2>4 DEF Types
  <2>13. At(t)
    BY <2>2, <2>4, <2>5, <2>11
  <2>14. \A u \in Tunnels \ {t} : At(u)
    BY <1>00, <2>4, <2>5, <2>12
  <2>. QED BY <1>0, <2>13, <2>14
<1>7. ASSUME DvpServes PROVE Fences'
  <2> DEFINE closing == {t \in open : conn[t] = {}}
  <2>1. got = <<>> /\ got' = <<>> /\ vtq' = vtq
    BY <1>7 DEF DvpServes, Types
  <2>2. /\ fences' = [t \in Tunnels |-> IF t \in closing THEN NewFences(t) ELSE fences[t]]
        /\ list' = [t \in Tunnels |-> IF t \in closing THEN <<>> ELSE list[t]]
    BY <1>7 DEF DvpServes
  <2> HIDE DEF closing
  <2>3. ASSUME NEW u \in Tunnels PROVE At(u)
    <3>1. CASE u \in closing
      <4>1. fences'[u] = NewFences(u) /\ list'[u] = <<>>
        BY <2>2, <3>1
      <4>2. Joined(list'[u], got', u) = <<>>
        BY <2>1, <4>1, Zenon DEF Joined
      <4>3. \A i \in 1 .. Len(vtq[u]) : vtq[u][i] \in Buffers[u]
        BY DEF Lists, ListsOf, Pool
      <4>4. /\ Behind(NewFences(u), Buffers[u], <<>>)
            /\ \A b \in Buffers[u] : NewFences(u).wait[b] = 0
        BY NewIsBehind
      <4>5. \A i \in 1 .. Len(vtq[u]) : NewFences(u).wait[vtq[u][i]] = 0
        BY <4>3, <4>4
      <4>. QED BY <2>1, <4>1, <4>2, <4>4, <4>5 DEF Ordered
    <3>2. CASE u \notin closing
      <4>1. fences'[u] = fences[u] /\ list'[u] = list[u]
        BY <2>2, <3>2
      <4>. QED BY <1>00, <2>1, <4>1
    <3>. QED BY <3>1, <3>2
  <2>. QED BY <1>0, <2>3
<1>8. ASSUME NEW d \in Displays, CollectVP(d) PROVE Fences'
  <2> DEFINE t == ShownComposition(d)
  <2>1. UNCHANGED <<list, vtq, got>>
    BY <1>8 DEF CollectVP
  <2>2. CASE ~current[d].on \/ t \notin Tunnels
    BY <1>1, <1>8, <2>1, <2>2 DEF CollectVP
  <2>3. CASE current[d].on /\ t \in Tunnels
    <3>1. PICK buf \in AcquireChoices(d, t) :
            IF buf = NoBuf \/ d \in setup.rotated THEN fences' = fences
            ELSE fences' = [fences EXCEPT ![t] = AddReleaseRefCnt(fences[t], d, buf[1])]
      BY <1>8, <2>3, FetchIs
    <3>2. CASE buf = NoBuf \/ d \in setup.rotated
      BY <1>1, <2>1, <3>1, <3>2
    <3>3. CASE ~(buf = NoBuf \/ d \in setup.rotated)
      <4> DEFINE f == fences[t]  b == buf[1]  g == AddReleaseRefCnt(f, d, b)
      <4>1. b \in Buffers[t] /\ d \in Users
        BY <2>3, <3>3, FetchedIs DEF Users
      <4>2. Behind(f, Buffers[t], Joined(list[t], got, t)) /\ \A i \in 1 .. Len(vtq[t]) : f.wait[vtq[t][i]] = 0
        BY <1>00, <2>3 DEF Ordered
      <4>3. \A i \in 1 .. Len(vtq[t]) : vtq[t][i] \in Buffers[t]
        BY <2>3 DEF Lists, ListsOf, Pool
      <4>4. g = AddReleaseRefCnt(f, d, b) /\ fences' = [fences EXCEPT ![t] = g]
        BY <3>1, <3>3
      <4> HIDE DEF t, f, g, b
      <4>5. Behind(g, Buffers[t], Joined(list[t], got, t)) /\ \A c \in Buffers[t] : g.wait[c] = f.wait[c]
        BY <4>1, <4>2, <4>4, ReferenceKeepsBehind
      <4>6. fences'[t] = g /\ \A u \in Tunnels \ {t} : fences'[u] = fences[u]
        BY <2>3, <4>4 DEF Types
      <4>7. At(t)
        BY <2>1, <4>2, <4>3, <4>5, <4>6 DEF Ordered
      <4>8. \A u \in Tunnels \ {t} : At(u)
        BY <1>00, <2>1, <4>6
      <4>. QED BY <1>0, <4>7, <4>8
    <3>. QED BY <3>2, <3>3
  <2>. QED BY <2>2, <2>3
<1>9. ASSUME NEW d \in Displays, Commit(d) PROVE Fences'
  <2>1. UNCHANGED <<list, vtq, got>>
    BY <1>9 DEF Commit, dvpVars
  <2>2. CASE fences' = fences
    BY <1>1, <2>1, <2>2
  <2>3. CASE UpdateSidebandState(d)
    <3>1. fences' = fences \/ fences' = Released(fences, d, drawing[d])
      BY <2>3, UpdateIs
    <3>2. CASE fences' = Released(fences, d, drawing[d])
      <4>1. StateOf(d, drawing[d]) /\ FencesOf(fences) /\ DOMAIN fences = Tunnels
        BY DEF Pictures, Fences, Types
      <4>2. FencesOf(fences')
        BY <3>2, <4>1, ReleasedKeeps
      <4>. QED BY <1>2, <2>1, <4>2
    <3>. QED BY <2>2, <3>1, <3>2
  <2>. QED BY <1>9, <2>2, <2>3 DEF Commit
<1>10. ASSUME NEW d \in Displays, ClearDisplay(d) PROVE Fences'
  <2> DEFINE fs == Released(fences, d, drawing[d])
  <2>1. UNCHANGED <<list, vtq, got>>
    BY <1>10 DEF ClearDisplay, dvpVars
  <2>2. fences' = Released(fs, d, current[d])
    BY <1>10, ClearIs
  <2>3. StateOf(d, drawing[d]) /\ StateOf(d, current[d]) /\ FencesOf(fences) /\ DOMAIN fences = Tunnels
    BY DEF Pictures, Fences, Types
  <2>4. FencesOf(fs) /\ DOMAIN fs = Tunnels
    BY <2>3, ReleasedKeeps
  <2> HIDE DEF fs
  <2>5. FencesOf(fences')
    BY <2>2, <2>3, <2>4, ReleasedKeeps
  <2>. QED BY <1>2, <2>1, <2>5
<1>11. ASSUME NEW d \in Displays, NEW t \in setup.shows[d], Present(d, t) PROVE Fences'
  BY <1>1, <1>11 DEF Present, UpdateSidebandMode, ctxVars
<1>12. setup.cleared \subseteq Displays
  BY DEF Types, Setup
<1>13. ASSUME \/ DvpChecks \/ DvpSleeps \/ DvpTimesOut \/ DvpRotates \/ RgaFinishes
              \/ \E d \in Displays : CollectSF(d)
              \/ UNCHANGED vars
       PROVE  Fences'
  BY <1>1, <1>13 DEF DvpChecks, DvpSleeps, DvpTimesOut, DvpRotates, RgaFinishes, CollectSF, vars,
       ctxVars, dvpVars
<1>. QED BY <1>3, <1>4, <1>5, <1>6, <1>7, <1>8, <1>9, <1>10, <1>11, <1>12, <1>13, Zenon
         DEF Next, Dvp, Worker

(***************************************************************************)
(* What the displays hold.                                                 *)
(***************************************************************************)

LEMMA AcquireHolds ==
  ASSUME NEW B, NEW f \in FenceType(B), NEW b \in B, NEW g,
         g = AddReleaseRefCnt(AddReleaseFence(f, b), Listed, b)
  PROVE  \A c \in B : g.hold[c] = f.hold[c] \cup (IF c = b THEN {Listed} ELSE {})
<1>1. /\ f = [hold |-> f.hold, armed |-> f.armed, ahead |-> f.ahead, wait |-> f.wait]
      /\ f.hold \in [B -> SUBSET Users]
  BY FieldsOf
<1>2. g = [hold |-> [f.hold EXCEPT ![b] = @ \cup {Listed}], armed |-> f.armed \cup {b},
           ahead |-> f.ahead + 1, wait |-> [f.wait EXCEPT ![b] = f.ahead + 1]]
  BY <1>1, AcquireFields
<1>. QED BY <1>1, <1>2

LEMMA SignalHolds ==
  ASSUME NEW B, NEW f \in FenceType(B), NEW b \in B, NEW who, NEW g,
         g = SignalReleaseFence(f, who, b)
  PROVE  \A c \in B : g.hold[c] = f.hold[c] \ (IF c = b THEN {who} ELSE {})
<1>1. PICK h, a, n, w : f = [hold |-> h, armed |-> a, ahead |-> n, wait |-> w]
  <2>1. f = [hold |-> f.hold, armed |-> f.armed, ahead |-> f.ahead, wait |-> f.wait]
    BY FieldsOf
  <2>. QED BY <2>1, Zenon
<1>2. h = f.hold /\ h \in [B -> SUBSET Users]
  BY <1>1, FieldsOf
<1>3. ASSUME NEW left, left = [h EXCEPT ![b] = @ \ {who}]
      PROVE  g.hold = left
  <2>1. CASE b \in a /\ left[b] = {}
    BY <1>1, <1>3, <2>1 DEF SignalReleaseFence, Advance
  <2>2. CASE ~(b \in a /\ left[b] = {})
    BY <1>1, <1>3, <2>2 DEF SignalReleaseFence
  <2>. QED BY <2>1, <2>2
<1> DEFINE left == [h EXCEPT ![b] = @ \ {who}]
<1>4. g.hold = left
  BY <1>3
<1>. QED BY <1>2, <1>4

(* A step leaves what display e is connected to, and holds while connected;  *)
(* only a tunnel nobody is connected to is closed.                           *)
Untouched(e) ==
  \A t \in Tunnels :
    /\ e \in conn'[t] <=> e \in conn[t]
    /\ \A b \in Buffers[t] :
         /\ e \in fences'[t].hold[b] => e \in fences[t].hold[b]
         /\ e \in fences[t].hold[b] /\ e \in conn[t] => e \in fences'[t].hold[b]
OpenStays == \A t \in open \ open' : conn[t] = {}
Unmoved(e) ==
  /\ current'[e] = current[e] /\ drawing'[e] = drawing[e] /\ collected'[e] = collected[e]
  /\ active'[e] = active[e] /\ pset'[e] = pset[e] /\ worker'[e] = worker[e]

LEMMA NoDisplay == \A e \in Displays : e # Listed /\ e # Ui
  BY SidebandAssumption DEF Listed

LEMMA ListLeavesHolds ==
  ASSUME Types, Lists, Fences, DvpAcquires \/ DvpPushes
  PROVE  \A e \in Displays : \A t \in Tunnels : \A b \in Buffers[t] :
           e \in fences'[t].hold[b] <=> e \in fences[t].hold[b]
<1>1. \A t \in Tunnels : fences[t] \in FenceType(Buffers[t])
  BY DEF Fences, FencesOf, Ordered, Behind
<1>2. CASE DvpAcquires
  <2> DEFINE t == NextTunnel  b == Head(vtq[t])  f == fences[t]
             g == AddReleaseRefCnt(AddReleaseFence(f, b), Listed, b)
  <2>1. t \in Tunnels /\ vtq[t] # <<>>
    BY <1>2, NextTunnelIs DEF DvpAcquires
  <2>2. b \in Buffers[t]
    BY <2>1, QueuedIsReady
  <2>3. fences' = [fences EXCEPT ![t] = g]
    BY <1>2, Zenon DEF DvpAcquires
  <2>4. g = AddReleaseRefCnt(AddReleaseFence(f, b), Listed, b)
    OBVIOUS
  <2>5. f \in FenceType(Buffers[t])
    BY <1>1, <2>1
  <2> HIDE DEF t, b, f, g
  <2>6. \A c \in Buffers[t] : g.hold[c] = f.hold[c] \cup (IF c = b THEN {Listed} ELSE {})
    BY <2>2, <2>4, <2>5, AcquireHolds
  <2>7. fences'[t] = g /\ \A u \in Tunnels \ {t} : fences'[u] = fences[u]
    BY <2>1, <2>3 DEF Types
  <2>. QED BY <2>6, <2>7, NoDisplay DEF f
<1>3. CASE DvpPushes
  <2>0. PICK t \in open : \E b \in Buffers[t], r \in BOOLEAN : got = <<t, b, r>>
    BY <1>3 DEF DvpPushes, Types
  <2>1. PICK b \in Buffers[t], r \in BOOLEAN : got = <<t, b, r>>
    BY <2>0
  <2> DEFINE f == fences[t]  new == Append(list[t], b)  g == SignalReleaseFence(f, Listed, Head(new))
  <2>2. t \in Tunnels /\ got[1] = t /\ got[2] = b
    BY <2>1 DEF Types
  <2>3. fences' = fences \/ fences' = [fences EXCEPT ![t] = g]
    BY <1>3, <2>2, Zenon DEF DvpPushes
  <2>4. Head(new) \in Buffers[t]
    <3>1. list[t] \in Seq(Buffers[t])
      BY <2>2 DEF Lists, ListsOf
    <3>2. new \in Seq(Buffers[t]) /\ new # <<>>
      BY <3>1, AppendIs, Zenon
    <3> HIDE DEF new
    <3>. QED BY <3>2
  <2>5. g = SignalReleaseFence(f, Listed, Head(new)) /\ f \in FenceType(Buffers[t])
    BY <1>1, <2>2
  <2> HIDE DEF f, g, new
  <2>6. \A c \in Buffers[t] : g.hold[c] = f.hold[c] \ (IF c = Head(new) THEN {Listed} ELSE {})
    BY <2>4, <2>5, SignalHolds
  <2>7. CASE fences' = fences
    BY <2>7
  <2>8. CASE fences' = [fences EXCEPT ![t] = g]
    <3>1. fences'[t] = g /\ \A u \in Tunnels \ {t} : fences'[u] = fences[u]
      BY <2>2, <2>8 DEF Types
    <3>. QED BY <2>6, <3>1, NoDisplay DEF f
  <2>. QED BY <2>3, <2>7, <2>8
<1>. QED BY <1>2, <1>3

LEMMA OthersStep ==
  ASSUME Types, Lists, Fences, ClosedIsEmpty,
         \/ \E t \in Fed : ProducerQueues(t)
         \/ Dvp \/ RgaFinishes \/ UNCHANGED vars
         \/ \E d \in Displays : \E t \in setup.shows[d] : Present(d, t)
  PROVE  /\ \A e \in Displays : Untouched(e) /\ Unmoved(e)
         /\ OpenStays /\ ClosedIsEmpty' /\ UNCHANGED <<setup, failed>>
<1> DEFINE Still == UNCHANGED <<setup, failed, current, drawing, collected, active, pset, worker>>
<1>0. Still
  BY DEF ProducerQueues, Dvp, DvpChecks, DvpSleeps, DvpServes, DvpTimesOut, DvpDropsBuffer,
         DvpAcquires, DvpRotates, DvpPushes, RgaFinishes, vars, Present, compVars
<1>00. \A e \in Displays : Unmoved(e)
  BY <1>0 DEF Unmoved
<1> HIDE DEF Still
<1>1. ASSUME UNCHANGED <<open, conn>>,
             \A e \in Displays : \A t \in Tunnels : \A b \in Buffers[t] :
                e \in fences'[t].hold[b] <=> e \in fences[t].hold[b]
      PROVE  (\A e \in Displays : Untouched(e)) /\ OpenStays /\ ClosedIsEmpty'
  <2>1. \A e \in Displays : Untouched(e)
    BY <1>1 DEF Untouched
  <2>2. OpenStays
    BY <1>1 DEF OpenStays
  <2>3. ClosedIsEmpty'
    BY <1>1 DEF ClosedIsEmpty
  <2>. QED BY <2>1, <2>2, <2>3
<1>2. ASSUME UNCHANGED <<open, conn, fences>>
      PROVE  (\A e \in Displays : Untouched(e)) /\ OpenStays /\ ClosedIsEmpty'
  BY <1>1, <1>2
<1>3. CASE DvpAcquires \/ DvpPushes
  <2>1. UNCHANGED <<open, conn>>
    BY <1>3 DEF DvpAcquires, DvpPushes
  <2>. QED BY <1>0, <1>00, <1>1, <1>3, <2>1, ListLeavesHolds DEF Still
<1>4. CASE DvpServes
  <2> DEFINE closing == {t \in open : conn[t] = {}}
  <2>1. /\ open' = open \ closing /\ conn' = conn
        /\ fences' = [t \in Tunnels |-> IF t \in closing THEN NewFences(t) ELSE fences[t]]
    BY <1>4 DEF DvpServes
  <2>2. ASSUME NEW t \in Tunnels, t \in closing
        PROVE  \A b \in Buffers[t] : fences'[t].hold[b] = {}
    BY <2>1, <2>2, NewIsBehind
  <2>3. \A t \in Tunnels : t \notin closing => fences'[t] = fences[t]
    BY <2>1
  <2>4. \A e \in Displays : Untouched(e)
    BY <2>1, <2>2, <2>3 DEF Untouched
  <2>5. OpenStays
    BY <2>1 DEF OpenStays
  <2>6. ClosedIsEmpty'
    BY <2>1, <2>2, <2>3 DEF ClosedIsEmpty
  <2>. QED BY <1>0, <1>00, <2>4, <2>5, <2>6 DEF Still
<1>5. CASE \E d \in Displays : \E t \in setup.shows[d] : Present(d, t)
  <2>1. PICK d \in Displays : \E t \in setup.shows[d] : Present(d, t)
    BY <1>5
  <2>2. PICK t \in setup.shows[d] : Present(d, t)
    BY <2>1
  <2>3. CASE d # 0
    BY <1>0, <1>00, <1>2, <2>2, <2>3 DEF Present, ctxVars, Still
  <2>4. CASE d = 0
    <3>1. t \in Tunnelled /\ UpdateSidebandMode(t)
      BY <2>2, <2>4, SetupFields DEF Types, Present
    <3>2. /\ fences' = fences /\ open \subseteq open'
          /\ \A u \in Tunnels : conn'[u] \ {Ui} = conn[u] \ {Ui}
          /\ \A u \in Tunnels \ open' : conn'[u] \subseteq conn[u]
      BY <3>1, ModeIs
    <3>3. \A e \in Displays : Untouched(e)
      BY <3>2, NoDisplay DEF Untouched
    <3>4. OpenStays /\ ClosedIsEmpty'
      BY <3>2 DEF OpenStays, ClosedIsEmpty
    <3>. QED BY <1>0, <1>00, <3>3, <3>4 DEF Still
  <2>. QED BY <2>3, <2>4
<1>6. CASE \/ \E t \in Fed : ProducerQueues(t)
           \/ DvpChecks \/ DvpSleeps \/ DvpTimesOut \/ DvpDropsBuffer \/ DvpRotates
           \/ RgaFinishes \/ UNCHANGED vars
  <2>1. UNCHANGED <<open, conn, fences>>
    BY <1>6 DEF ProducerQueues, DvpChecks, DvpSleeps, DvpTimesOut, DvpDropsBuffer, DvpRotates,
                RgaFinishes, vars, ctxVars
  <2>. QED BY <1>0, <1>00, <1>2, <2>1 DEF Still
<1>. QED BY <1>3, <1>4, <1>5, <1>6 DEF Dvp

(* What display d gives back of a state when it no longer shows it.          *)
Gives(s, u, b) == s.buf # NoBuf /\ s.t \in open /\ s.t = u /\ s.buf[1] = b

LEMMA CommitGives ==
  ASSUME Types, Lists, Fences, NEW d \in Displays, Pictures(d), UpdateSidebandState(d),
         NEW c, c = current[d], NEW w, w = drawing[d]
  PROVE  /\ drawing' = [drawing EXCEPT ![d] = c]
         /\ \A u \in Tunnels :
              conn'[u] = conn[u] \ (IF c.t # w.t /\ w.t \in open /\ u = w.t THEN {d} ELSE {})
         /\ \A u \in Tunnels : \A b \in Buffers[u] :
              fences'[u].hold[b] = fences[u].hold[b] \
                (IF (c.t # w.t \/ w.buf # c.buf) /\ Gives(w, u, b) THEN {d} ELSE {})
<1>1. /\ drawing' = [drawing EXCEPT ![d] = c]
      /\ fences' = IF c.t # w.t \/ w.buf # c.buf THEN Released(fences, d, w) ELSE fences
      /\ conn' = IF c.t # w.t THEN DestoryConnection(conn, d, w.t) ELSE conn
  BY UpdateIs
<1>2. conn \in Connections /\ DOMAIN fences = Tunnels /\ FencesOf(fences) /\ StateOf(d, w)
  BY DEF Types, Fences, Pictures
<1>3. ASSUME NEW u \in Tunnels
      PROVE  conn'[u] = conn[u] \ (IF c.t # w.t /\ w.t \in open /\ u = w.t THEN {d} ELSE {})
  <2>1. CASE c.t # w.t
    BY <1>1, <1>2, <2>1, Disconnected
  <2>2. CASE c.t = w.t
    BY <1>1, <2>2
  <2>. QED BY <2>1, <2>2
<1>4. ASSUME NEW u \in Tunnels, NEW b \in Buffers[u]
      PROVE  fences'[u].hold[b] = fences[u].hold[b] \
                (IF (c.t # w.t \/ w.buf # c.buf) /\ Gives(w, u, b) THEN {d} ELSE {})
  <2>1. CASE c.t # w.t \/ w.buf # c.buf
    <3>1. fences' = Released(fences, d, w)
      BY <1>1, <2>1
    <3>2. fences'[u].hold[b] = fences[u].hold[b] \
            (IF w.buf # NoBuf /\ w.t \in open /\ w.t = u /\ w.buf[1] = b THEN {d} ELSE {})
      BY <1>2, <3>1, ReleasedKeeps
    <3>. QED BY <2>1, <3>2 DEF Gives
  <2>2. CASE ~(c.t # w.t \/ w.buf # c.buf)
    BY <1>1, <2>2
  <2>. QED BY <2>1, <2>2
<1>. QED BY <1>1, <1>3, <1>4

LEMMA ClearGives ==
  ASSUME Types, Lists, Fences, NEW d \in Displays, Pictures(d), ClearDisplay(d),
         NEW c, c = current[d], NEW w, w = drawing[d]
  PROVE  /\ current' = [current EXCEPT ![d] = Off] /\ drawing' = [drawing EXCEPT ![d] = Off]
         /\ \A u \in Tunnels :
              conn'[u] = conn[u] \ (IF u \in open /\ u \in {c.t, w.t} THEN {d} ELSE {})
         /\ \A u \in Tunnels : \A b \in Buffers[u] :
              fences'[u].hold[b] = fences[u].hold[b] \
                (IF Gives(w, u, b) \/ Gives(c, u, b) THEN {d} ELSE {})
<1> DEFINE fs == Released(fences, d, w)  cs == DestoryConnection(conn, d, c.t)
<1>1. /\ current' = [current EXCEPT ![d] = Off] /\ drawing' = [drawing EXCEPT ![d] = Off]
      /\ fences' = Released(fs, d, c)
      /\ conn' = DestoryConnection(cs, d, w.t)
  BY ClearIs
<1>2. conn \in Connections /\ DOMAIN fences = Tunnels /\ FencesOf(fences)
  BY DEF Types, Fences
<1>3. StateOf(d, w) /\ StateOf(d, c)
  BY DEF Pictures
<1>4. /\ cs \in Connections
      /\ \A u \in Tunnels : cs[u] = conn[u] \ (IF c.t \in open /\ u = c.t THEN {d} ELSE {})
  BY <1>2, Disconnected
<1>5. /\ DOMAIN fs = Tunnels /\ FencesOf(fs)
      /\ \A u \in Tunnels : \A b \in Buffers[u] :
           fs[u].hold[b] = fences[u].hold[b] \ (IF Gives(w, u, b) THEN {d} ELSE {})
  BY <1>2, <1>3, ReleasedKeeps DEF Gives
<1> HIDE DEF fs, cs
<1>6. \A u \in Tunnels : conn'[u] = cs[u] \ (IF w.t \in open /\ u = w.t THEN {d} ELSE {})
  BY <1>1, <1>4, Disconnected
<1>7. \A u \in Tunnels : \A b \in Buffers[u] :
        fences'[u].hold[b] = fs[u].hold[b] \ (IF Gives(c, u, b) THEN {d} ELSE {})
  BY <1>1, <1>3, <1>5, ReleasedKeeps DEF Gives
<1>8. \A u \in Tunnels :
        conn'[u] = conn[u] \ (IF u \in open /\ u \in {c.t, w.t} THEN {d} ELSE {})
  BY <1>4, <1>6
<1>9. ASSUME NEW u \in Tunnels, NEW b \in Buffers[u]
      PROVE  fences'[u].hold[b] = fences[u].hold[b] \
                (IF Gives(w, u, b) \/ Gives(c, u, b) THEN {d} ELSE {})
  BY <1>5, <1>7
<1>. QED BY <1>1, <1>8, <1>9

LEMMA FetchGives ==
  ASSUME Types, Lists, Fences, NEW d \in Displays, CollectVP(d), NEW t, t = ShownComposition(d),
         current[d].on, t \in Tunnels
  PROVE  \E ok \in BOOLEAN : \E buf \in {NoBuf} \cup Buffers[t] \X BOOLEAN :
           /\ open' = IF ok THEN open \cup {t} ELSE open
           /\ conn' = IF ok THEN [conn EXCEPT ![t] = @ \cup {d}] ELSE conn
           /\ buf # NoBuf => ok /\ t \in open /\ buf[2] = (d \in setup.rotated)
           /\ current' = IF buf = NoBuf THEN current
                         ELSE [current EXCEPT ![d] = [on |-> TRUE, t |-> t, buf |-> buf]]
           /\ \A u \in Tunnels : \A b \in Buffers[u] :
                fences'[u].hold[b] = fences[u].hold[b] \cup
                  (IF buf # NoBuf /\ d \notin setup.rotated /\ u = t /\ b = buf[1] THEN {d} ELSE {})
<1>1. PICK ok \in Connects(t), buf \in AcquireChoices(d, t) :
            /\ open' = IF ok THEN open \cup {t} ELSE open
            /\ conn' = IF ok THEN [conn EXCEPT ![t] = @ \cup {d}] ELSE conn
            /\ IF buf = NoBuf THEN UNCHANGED <<fences, current>>
               ELSE /\ current' = [current EXCEPT ![d] = [on |-> TRUE, t |-> t, buf |-> buf]]
                    /\ fences' = IF d \in setup.rotated THEN fences
                                 ELSE [fences EXCEPT ![t] = AddReleaseRefCnt(@, d, buf[1])]
  BY FetchIs
<1>2. ok \in BOOLEAN /\ (t \in open => ok)
  BY Zenon DEF Connects
<1>3. /\ buf # NoBuf => /\ t \in open /\ buf \in Buffers[t] \X BOOLEAN
                        /\ buf[2] = (d \in setup.rotated)
  BY FetchedIs
<1>4. ASSUME NEW u \in Tunnels, NEW b \in Buffers[u]
      PROVE  fences'[u].hold[b] = fences[u].hold[b] \cup
                  (IF buf # NoBuf /\ d \notin setup.rotated /\ u = t /\ b = buf[1] THEN {d} ELSE {})
  <2>1. CASE buf = NoBuf \/ d \in setup.rotated
    BY <1>1, <2>1
  <2>2. CASE ~(buf = NoBuf \/ d \in setup.rotated)
    <3> DEFINE f == fences[t]  x == buf[1]  g == AddReleaseRefCnt(f, d, x)
    <3>1. x \in Buffers[t] /\ d \in Users
      BY <1>3, <2>2 DEF Users
    <3>2. g = AddReleaseRefCnt(f, d, x) /\ fences' = [fences EXCEPT ![t] = g]
      BY <1>1, <2>2
    <3>3. Behind(f, Buffers[t], Pushed(t))
      BY DEF Fences, FencesOf, Ordered
    <3> HIDE DEF g, x, f
    <3>4. \A z \in Buffers[t] : g.hold[z] = f.hold[z] \cup (IF z = x THEN {d} ELSE {})
      BY <3>1, <3>2, <3>3, ReferenceKeepsBehind
    <3>5. fences'[t] = g /\ \A v \in Tunnels \ {t} : fences'[v] = fences[v]
      BY <3>2 DEF Types
    <3>. QED BY <2>2, <3>4, <3>5 DEF x, f
  <2>. QED BY <2>1, <2>2
<1>. QED BY <1>1, <1>2, <1>3, <1>4

(* A step of one display leaves the others alone.                            *)
LEMMA DisplayStep ==
  ASSUME Types, Lists, Fences, NEW d \in Displays, Pictures(d),
         CollectSF(d) \/ CollectVP(d) \/ Commit(d) \/ ClearDisplay(d)
  PROVE  /\ \A e \in Displays \ {d} : Untouched(e) /\ Unmoved(e)
         /\ OpenStays /\ UNCHANGED setup /\ failed \subseteq failed' /\ failed' \subseteq failed \cup {d}
<1>1. UNCHANGED setup /\ failed \subseteq failed' /\ failed' \subseteq failed \cup {d}
  BY DEF CollectSF, CollectVP, Commit, ClearDisplay
<1>2. CASE CollectSF(d)
  <2>1. UNCHANGED <<open, conn, fences, drawing, active>>
    BY <1>2 DEF CollectSF, ctxVars
  <2>2. \A e \in Displays \ {d} : Unmoved(e)
    BY <1>2, <2>1 DEF CollectSF, Unmoved, Types
  <2>3. OpenStays /\ \A e \in Displays \ {d} : Untouched(e)
    BY <2>1 DEF OpenStays, Untouched
  <2>. QED BY <1>1, <2>2, <2>3
<1>3. CASE CollectVP(d)
  <2> DEFINE t == ShownComposition(d)
  <2>1. UNCHANGED <<drawing, active, collected>> /\ pset' \in {pset, [pset EXCEPT ![d] = TRUE]}
        /\ worker' = [worker EXCEPT ![d] = "commit"]
    BY <1>3 DEF CollectVP
  <2>2. CASE ~current[d].on \/ t \notin Tunnels
    <3>1. UNCHANGED <<open, conn, fences, current>>
      BY <1>3, <2>2 DEF CollectVP
    <3>2. OpenStays /\ \A e \in Displays \ {d} : Untouched(e)
      BY <3>1 DEF OpenStays, Untouched
    <3>3. \A e \in Displays \ {d} : Unmoved(e)
      BY <2>1, <3>1 DEF Unmoved, Types
    <3>. QED BY <1>1, <3>2, <3>3
  <2>3. CASE current[d].on /\ t \in Tunnels
    <3>1. PICK ok \in BOOLEAN, buf \in {NoBuf} \cup Buffers[t] \X BOOLEAN :
           /\ open' = IF ok THEN open \cup {t} ELSE open
           /\ conn' = IF ok THEN [conn EXCEPT ![t] = @ \cup {d}] ELSE conn
           /\ current' = IF buf = NoBuf THEN current
                         ELSE [current EXCEPT ![d] = [on |-> TRUE, t |-> t, buf |-> buf]]
           /\ \A u \in Tunnels : \A b \in Buffers[u] :
                fences'[u].hold[b] = fences[u].hold[b] \cup
                  (IF buf # NoBuf /\ d \notin setup.rotated /\ u = t /\ b = buf[1] THEN {d} ELSE {})
      BY <1>3, <2>3, FetchGives
    <3>2. OpenStays
      BY <3>1 DEF OpenStays
    <3>3. ASSUME NEW e \in Displays, e # d PROVE Untouched(e) /\ Unmoved(e)
      <4>1. Unmoved(e)
        BY <2>1, <3>1, <3>3 DEF Unmoved, Types
      <4>2. \A u \in Tunnels : e \in conn'[u] <=> e \in conn[u]
        BY <2>3, <3>1, <3>3 DEF Types, Connections
      <4>3. \A u \in Tunnels : \A b \in Buffers[u] :
              e \in fences'[u].hold[b] <=> e \in fences[u].hold[b]
        BY <3>1, <3>3
      <4>. QED BY <4>1, <4>2, <4>3 DEF Untouched
    <3>. QED BY <1>1, <3>2, <3>3
  <2>. QED BY <2>2, <2>3
<1>4. CASE Commit(d)
  <2>1. UNCHANGED <<open, current>>
    BY <1>4 DEF Commit
  <2>2. OpenStays
    BY <2>1 DEF OpenStays
  <2>3. CASE UNCHANGED <<fences, conn, drawing>>
    <3>1. \A e \in Displays \ {d} : Untouched(e)
      BY <2>3 DEF Untouched
    <3>2. \A e \in Displays \ {d} : Unmoved(e)
      BY <1>4, <2>1, <2>3 DEF Unmoved, Commit, Types
    <3>. QED BY <1>1, <2>2, <3>1, <3>2
  <2>4. CASE UpdateSidebandState(d)
    <3> DEFINE c == current[d]  w == drawing[d]
    <3>1. /\ drawing' = [drawing EXCEPT ![d] = c]
          /\ \A u \in Tunnels :
               conn'[u] = conn[u] \ (IF c.t # w.t /\ w.t \in open /\ u = w.t THEN {d} ELSE {})
          /\ \A u \in Tunnels : \A b \in Buffers[u] :
               fences'[u].hold[b] = fences[u].hold[b] \
                 (IF (c.t # w.t \/ w.buf # c.buf) /\ Gives(w, u, b) THEN {d} ELSE {})
      BY <2>4, CommitGives
    <3>2. \A e \in Displays \ {d} : Untouched(e)
      BY <3>1 DEF Untouched
    <3>3. \A e \in Displays \ {d} : Unmoved(e)
      BY <1>4, <2>1, <3>1 DEF Unmoved, Commit, Types
    <3>. QED BY <1>1, <2>2, <3>2, <3>3
  <2>. QED BY <1>4, <2>3, <2>4 DEF Commit
<1>5. CASE ClearDisplay(d)
  <2> DEFINE c == current[d]  w == drawing[d]
  <2>1. /\ current' = [current EXCEPT ![d] = Off] /\ drawing' = [drawing EXCEPT ![d] = Off]
        /\ \A u \in Tunnels :
              conn'[u] = conn[u] \ (IF u \in open /\ u \in {c.t, w.t} THEN {d} ELSE {})
        /\ \A u \in Tunnels : \A b \in Buffers[u] :
              fences'[u].hold[b] = fences[u].hold[b] \
                (IF Gives(w, u, b) \/ Gives(c, u, b) THEN {d} ELSE {})
    BY <1>5, ClearGives
  <2>2. OpenStays
    BY <1>5 DEF OpenStays, ClearDisplay
  <2>3. \A e \in Displays \ {d} : Untouched(e)
    BY <2>1 DEF Untouched
  <2>4. \A e \in Displays \ {d} : Unmoved(e)
    BY <1>5, <2>1 DEF Unmoved, ClearDisplay, Types
  <2>. QED BY <1>1, <2>2, <2>3, <2>4
<1>. QED BY <1>2, <1>3, <1>4, <1>5

(* Held and Keeps of a display with the values they depend on.               *)
StatesAt(d) ==
  /\ StateOf(d, current[d]) /\ StateOf(d, drawing[d])
  /\ Held(d, current[d]) /\ Held(d, drawing[d])

LEMMA HeldStays ==
  ASSUME Types, NEW e \in Displays, NEW s, StateOf(e, s), Held(e, s), Untouched(e), OpenStays,
         s.buf # NoBuf
  PROVE  /\ s.t \in open' /\ e \in conn'[s.t]
         /\ e \in setup.rotated \/ e \in fences'[s.t].hold[s.buf[1]]
<1>1. /\ s.t \in open /\ s.t \in Tunnels /\ e \in conn[s.t] /\ s.buf[1] \in Buffers[s.t]
      /\ e \in setup.rotated \/ e \in fences[s.t].hold[s.buf[1]]
  BY DEF Types, Held, StateOf
<1>. QED BY <1>1 DEF Untouched, OpenStays

LEMMA StatesStay ==
  ASSUME Types, NEW e \in Displays, StatesAt(e), Untouched(e), OpenStays, UNCHANGED setup,
         current'[e] = current[e], drawing'[e] = drawing[e]
  PROVE  StatesAt(e)'
<1>1. /\ current[e].buf # NoBuf =>
           /\ current[e].t \in open' /\ e \in conn'[current[e].t]
           /\ e \in setup.rotated \/ e \in fences'[current[e].t].hold[current[e].buf[1]]
      /\ drawing[e].buf # NoBuf =>
           /\ drawing[e].t \in open' /\ e \in conn'[drawing[e].t]
           /\ e \in setup.rotated \/ e \in fences'[drawing[e].t].hold[drawing[e].buf[1]]
  BY HeldStays DEF StatesAt
<1>. QED BY <1>1, Zenon DEF StatesAt, StateOf, Held

LEMMA InitStates == Init => States
<1>1. ASSUME Init, NEW d \in Displays PROVE StatesAt(d)
  <2>1. current[d] = Off /\ drawing[d] = Off
    BY <1>1, Zenon DEF Init
  <2>2. Off \in SidebandType
    BY DEF Off, SidebandType, Tunnelled
  <2>3. Off.on = FALSE /\ Off.t = 0 /\ Off.buf = NoBuf
    BY DEF Off
  <2>4. ~(0 > 0)
    OBVIOUS
  <2>. QED BY <2>1, <2>2, <2>3, <2>4, Zenon DEF StatesAt, StateOf, Held
<1>. QED BY <1>1, Zenon DEF States, StatesAt

(* What a display's states must satisfy after a step, by their values.       *)
LEMMA StatesAre ==
  ASSUME NEW d, NEW c, NEW w, current'[d] = c, drawing'[d] = w, UNCHANGED setup,
         StateOf(d, c), StateOf(d, w),
         \A s \in {c, w} : s.buf # NoBuf =>
           /\ s.t \in open' /\ d \in conn'[s.t]
           /\ d \in setup.rotated \/ d \in fences'[s.t].hold[s.buf[1]]
  PROVE  StatesAt(d)'
<1>1. /\ c.buf # NoBuf => /\ c.t \in open' /\ d \in conn'[c.t]
                          /\ d \in setup.rotated \/ d \in fences'[c.t].hold[c.buf[1]]
      /\ w.buf # NoBuf => /\ w.t \in open' /\ d \in conn'[w.t]
                          /\ d \in setup.rotated \/ d \in fences'[w.t].hold[w.buf[1]]
  BY Zenon
<1>. QED BY <1>1, Zenon DEF StatesAt, StateOf, Held

LEMMA CollectStates ==
  ASSUME Types, NEW d \in Displays, StatesAt(d), CollectSF(d)
  PROVE  StatesAt(d)'
<1>1. UNCHANGED <<setup, open, conn, fences, drawing>>
  BY DEF CollectSF, ctxVars
<1>2. CASE frame[d] = NoFrame
  <2>1. UNCHANGED current
    BY <1>2 DEF CollectSF
  <2>. QED BY <1>1, <2>1, Zenon DEF StatesAt, StateOf, Held
<1>3. CASE frame[d] # NoFrame
  <2> DEFINE s == [on |-> frame[d] > 0, t |-> frame[d], buf |-> NoBuf]  w == drawing[d]
  <2>1. current' = [current EXCEPT ![d] = s]
    BY <1>3, Zenon DEF CollectSF
  <2>2. current'[d] = s /\ drawing'[d] = w
    BY <1>1, <2>1 DEF Types
  <2>3. frame[d] \in Tunnelled
    BY <1>3 DEF Types
  <2>5. s.buf = NoBuf /\ s.t = frame[d] /\ s.on = (frame[d] > 0)
    OBVIOUS
  <2>4. StateOf(d, s)
    <3>1. s \in SidebandType
      BY <2>3 DEF SidebandType
    <3> HIDE DEF s
    <3>. QED BY <2>5, <3>1, Zenon DEF StateOf
  <2>6. w.buf # NoBuf => /\ w.t \in open' /\ d \in conn'[w.t]
                         /\ d \in setup.rotated \/ d \in fences'[w.t].hold[w.buf[1]]
    BY <1>1, Zenon DEF StatesAt, Held
  <2>7. StateOf(d, w)
    BY DEF StatesAt
  <2>8. \A x \in {s, w} : x.buf # NoBuf =>
           /\ x.t \in open' /\ d \in conn'[x.t]
           /\ d \in setup.rotated \/ d \in fences'[x.t].hold[x.buf[1]]
    <3> HIDE DEF s, w
    <3>. QED BY <2>5, <2>6
  <2> HIDE DEF s, w
  <2>. QED BY <1>1, <2>2, <2>4, <2>7, <2>8, StatesAre
<1>. QED BY <1>2, <1>3

(* Nothing is given up when a buffer is fetched.                             *)
LEMMA HeldGrows ==
  ASSUME Types, NEW d, NEW s, StateOf(d, s), Held(d, s), s.buf # NoBuf,
         open \subseteq open', \A u \in Tunnels : d \in conn[u] => d \in conn'[u],
         \A u \in Tunnels : \A b \in Buffers[u] :
            d \in fences[u].hold[b] => d \in fences'[u].hold[b]
  PROVE  /\ s.t \in open' /\ d \in conn'[s.t]
         /\ d \in setup.rotated \/ d \in fences'[s.t].hold[s.buf[1]]
<1>1. /\ s.t \in open /\ s.t \in Tunnels /\ d \in conn[s.t] /\ s.buf[1] \in Buffers[s.t]
      /\ d \in setup.rotated \/ d \in fences[s.t].hold[s.buf[1]]
  BY DEF Types, Held, StateOf
<1>. QED BY <1>1

LEMMA FetchStates ==
  ASSUME Types, Lists, Fences, NEW d \in Displays, StatesAt(d), CollectVP(d)
  PROVE  StatesAt(d)'
<1> DEFINE t == ShownComposition(d)
<1>1. UNCHANGED <<setup, drawing>>
  BY DEF CollectVP
<1>2. CASE ~current[d].on \/ t \notin Tunnels
  <2>1. UNCHANGED <<open, conn, fences, current>>
    BY <1>2 DEF CollectVP
  <2>. QED BY <1>1, <2>1, Zenon DEF StatesAt, StateOf, Held
<1>3. CASE current[d].on /\ t \in Tunnels
  <2>1. PICK ok \in BOOLEAN : \E buf \in {NoBuf} \cup Buffers[t] \X BOOLEAN :
           /\ open' = IF ok THEN open \cup {t} ELSE open
           /\ conn' = IF ok THEN [conn EXCEPT ![t] = @ \cup {d}] ELSE conn
           /\ buf # NoBuf => ok /\ t \in open /\ buf[2] = (d \in setup.rotated)
           /\ current' = IF buf = NoBuf THEN current
                         ELSE [current EXCEPT ![d] = [on |-> TRUE, t |-> t, buf |-> buf]]
           /\ \A u \in Tunnels : \A b \in Buffers[u] :
                fences'[u].hold[b] = fences[u].hold[b] \cup
                  (IF buf # NoBuf /\ d \notin setup.rotated /\ u = t /\ b = buf[1] THEN {d} ELSE {})
    BY <1>3, FetchGives
  <2>2. PICK buf \in {NoBuf} \cup Buffers[t] \X BOOLEAN :
           /\ open' = IF ok THEN open \cup {t} ELSE open
           /\ conn' = IF ok THEN [conn EXCEPT ![t] = @ \cup {d}] ELSE conn
           /\ buf # NoBuf => ok /\ t \in open /\ buf[2] = (d \in setup.rotated)
           /\ current' = IF buf = NoBuf THEN current
                         ELSE [current EXCEPT ![d] = [on |-> TRUE, t |-> t, buf |-> buf]]
           /\ \A u \in Tunnels : \A b \in Buffers[u] :
                fences'[u].hold[b] = fences[u].hold[b] \cup
                  (IF buf # NoBuf /\ d \notin setup.rotated /\ u = t /\ b = buf[1] THEN {d} ELSE {})
    BY <2>1
  <2> DEFINE s == [on |-> TRUE, t |-> t, buf |-> buf]  w == drawing[d]  c == current[d]
  <2>3. /\ open \subseteq open'
        /\ \A u \in Tunnels : d \in conn[u] => d \in conn'[u]
        /\ \A u \in Tunnels : \A b \in Buffers[u] :
             d \in fences[u].hold[b] => d \in fences'[u].hold[b]
    BY <1>3, <2>2 DEF Types, Connections
  <2>4. /\ w.buf # NoBuf => /\ w.t \in open' /\ d \in conn'[w.t]
                            /\ d \in setup.rotated \/ d \in fences'[w.t].hold[w.buf[1]]
        /\ c.buf # NoBuf => /\ c.t \in open' /\ d \in conn'[c.t]
                            /\ d \in setup.rotated \/ d \in fences'[c.t].hold[c.buf[1]]
    BY <2>3, HeldGrows DEF StatesAt
  <2>5. StateOf(d, w) /\ StateOf(d, c) /\ drawing'[d] = w
    BY <1>1, Zenon DEF StatesAt
  <2>6. CASE buf = NoBuf
    <3>1. current'[d] = c
      BY <2>2, <2>6, Zenon
    <3>2. \A x \in {c, w} : x.buf # NoBuf =>
           /\ x.t \in open' /\ d \in conn'[x.t]
           /\ d \in setup.rotated \/ d \in fences'[x.t].hold[x.buf[1]]
      <4> HIDE DEF w, c
      <4>. QED BY <2>4
    <3> HIDE DEF w, c
    <3>. QED BY <1>1, <2>5, <3>1, <3>2, StatesAre
  <2>7. CASE buf # NoBuf
    <3>1. current' = [current EXCEPT ![d] = s]
      BY <2>2, <2>7, Zenon
    <3>2. current'[d] = s
      BY <3>1 DEF Types
    <3>3. /\ s.on = TRUE /\ s.t = t /\ s.buf = buf
      OBVIOUS
    <3>4. /\ buf \in Buffers[t] \X BOOLEAN /\ t \in open' /\ d \in conn'[t]
          /\ buf[2] = (d \in setup.rotated)
          /\ d \in setup.rotated \/ d \in fences'[t].hold[buf[1]]
      BY <1>3, <2>2, <2>7 DEF Types, Connections
    <3>5. StateOf(d, s)
      <4>1. buf \in AllBuffers \X BOOLEAN
        BY <1>3, <3>4 DEF AllBuffers
      <4>2. s \in SidebandType /\ t > 0
        BY <1>3, <4>1, Numbers DEF SidebandType, Tunnelled
      <4>3. buf[1] \in Buffers[t]
        BY <3>4
      <4>. QED BY <3>3, <3>4, <4>2, <4>3, Zenon DEF StateOf
    <3>6. \A x \in {s, w} : x.buf # NoBuf =>
           /\ x.t \in open' /\ d \in conn'[x.t]
           /\ d \in setup.rotated \/ d \in fences'[x.t].hold[x.buf[1]]
      <4> HIDE DEF w, s
      <4>. QED BY <2>4, <3>3, <3>4
    <3> HIDE DEF w, s
    <3>. QED BY <1>1, <2>5, <3>2, <3>5, <3>6, StatesAre
  <2>. QED BY <2>6, <2>7
<1>. QED BY <1>2, <1>3

(* Two buffers of one display are the same buffer or have another name.      *)
LEMMA SameBuffer ==
  ASSUME NEW d, NEW c, NEW w, StateOf(d, c), StateOf(d, w), c.buf # NoBuf, w.buf # NoBuf,
         c.buf[1] = w.buf[1]
  PROVE  c.buf = w.buf
<1>1. c.buf \in AllBuffers \X BOOLEAN /\ w.buf \in AllBuffers \X BOOLEAN
  BY DEF StateOf, SidebandType
<1>2. c.buf = <<c.buf[1], c.buf[2]>> /\ w.buf = <<w.buf[1], w.buf[2]>>
  BY <1>1
<1>3. c.buf[2] = w.buf[2]
  BY Zenon DEF StateOf
<1>. QED BY <1>2, <1>3, Zenon

LEMMA CommitStates ==
  ASSUME Types, Lists, Fences, NEW d \in Displays, StatesAt(d), Commit(d)
  PROVE  StatesAt(d)'
<1>1. UNCHANGED <<setup, open, current>>
  BY DEF Commit
<1>2. CASE UNCHANGED <<fences, conn, drawing>>
  BY <1>1, <1>2, Zenon DEF StatesAt, StateOf, Held
<1>3. CASE UpdateSidebandState(d)
  <2> DEFINE c == current[d]  w == drawing[d]
  <2>1. Pictures(d)
    BY DEF StatesAt, Pictures
  <2>2. /\ drawing' = [drawing EXCEPT ![d] = c]
        /\ \A u \in Tunnels :
             conn'[u] = conn[u] \ (IF c.t # w.t /\ w.t \in open /\ u = w.t THEN {d} ELSE {})
        /\ \A u \in Tunnels : \A b \in Buffers[u] :
             fences'[u].hold[b] = fences[u].hold[b] \
               (IF (c.t # w.t \/ w.buf # c.buf) /\ Gives(w, u, b) THEN {d} ELSE {})
    BY <1>3, <2>1, CommitGives
  <2>3. current'[d] = c /\ drawing'[d] = c
    BY <1>1, <2>2 DEF Types
  <2>4. StateOf(d, c) /\ StateOf(d, w)
    BY DEF StatesAt
  <2>5. ASSUME c.buf # NoBuf
        PROVE  /\ c.t \in open' /\ d \in conn'[c.t]
               /\ d \in setup.rotated \/ d \in fences'[c.t].hold[c.buf[1]]
    <3>1. /\ c.t \in open /\ c.t \in Tunnels /\ d \in conn[c.t] /\ c.buf[1] \in Buffers[c.t]
          /\ d \in setup.rotated \/ d \in fences[c.t].hold[c.buf[1]]
      <4>1. Held(d, c) /\ open \subseteq Tunnels
        BY DEF StatesAt, Types
      <4> HIDE DEF c
      <4>. QED BY <2>4, <2>5, <4>1 DEF Held, StateOf
    <3> HIDE DEF c, w
    <3>2. ~((c.t # w.t \/ w.buf # c.buf) /\ Gives(w, c.t, c.buf[1]))
      <4>1. ASSUME Gives(w, c.t, c.buf[1]) PROVE c.t = w.t /\ c.buf = w.buf
        <5>1. w.buf # NoBuf /\ w.t = c.t /\ c.buf[1] = w.buf[1]
          BY <4>1, Zenon DEF Gives
        <5>2. c.buf = w.buf
          BY <2>4, <2>5, <5>1, SameBuffer
        <5>. QED BY <5>1, <5>2
      <4>. QED BY <4>1, Zenon
    <3>3. conn'[c.t] = conn[c.t]
      <4>1. conn'[c.t] = conn[c.t] \
              (IF c.t # w.t /\ w.t \in open /\ c.t = w.t THEN {d} ELSE {})
        BY <2>2, <3>1, Zenon
      <4>. QED BY <4>1
    <3>4. fences'[c.t].hold[c.buf[1]] = fences[c.t].hold[c.buf[1]]
      <4>1. fences'[c.t].hold[c.buf[1]] = fences[c.t].hold[c.buf[1]] \
              (IF (c.t # w.t \/ w.buf # c.buf) /\ Gives(w, c.t, c.buf[1]) THEN {d} ELSE {})
        BY <2>2, <3>1, Zenon
      <4>. QED BY <3>2, <4>1
    <3>. QED BY <1>1, <3>1, <3>3, <3>4, Zenon
  <2> HIDE DEF c, w
  <2>. QED BY <1>1, <2>3, <2>4, <2>5, StatesAre
<1>. QED BY <1>2, <1>3 DEF Commit

LEMMA ClearStates ==
  ASSUME Types, Lists, Fences, NEW d \in Displays, StatesAt(d), ClearDisplay(d)
  PROVE  StatesAt(d)'
<1>1. UNCHANGED setup
  BY DEF ClearDisplay
<1>2. current' = [current EXCEPT ![d] = Off] /\ drawing' = [drawing EXCEPT ![d] = Off]
  BY ClearGives DEF StatesAt, Pictures
<1>3. current'[d] = Off /\ drawing'[d] = Off
  BY <1>2 DEF Types
<1>4. StateOf(d, Off) /\ Off.buf = NoBuf
  BY DEF StateOf, Off, SidebandType, Tunnelled
<1>. QED BY <1>1, <1>3, <1>4, StatesAre

LEMMA StatesStep ==
  ASSUME Types, Lists, Fences, States, ClosedIsEmpty, [Next]_vars
  PROVE  States'
<1>1. \A e \in Displays : StatesAt(e) /\ Pictures(e)
  BY Zenon DEF States, StatesAt, Pictures
<1>2. SUFFICES \A e \in Displays : StatesAt(e)'
  BY Zenon DEF States, StatesAt
<1>3. setup.cleared \subseteq Displays
  BY DEF Types, Setup
<1>4. CASE \E d \in Displays : CollectSF(d) \/ CollectVP(d) \/ Commit(d) \/ ClearDisplay(d)
  <2>1. PICK d \in Displays : CollectSF(d) \/ CollectVP(d) \/ Commit(d) \/ ClearDisplay(d)
    BY <1>4
  <2>2. /\ \A e \in Displays \ {d} : Untouched(e) /\ Unmoved(e)
        /\ OpenStays /\ UNCHANGED setup
    BY <1>1, <2>1, DisplayStep
  <2>3. ASSUME NEW e \in Displays, e # d PROVE StatesAt(e)'
    BY <1>1, <2>2, <2>3, StatesStay DEF Unmoved
  <2>4. StatesAt(d)'
    BY <1>1, <2>1, CollectStates, FetchStates, CommitStates, ClearStates
  <2>. QED BY <2>3, <2>4
<1>5. CASE \/ \E t \in Fed : ProducerQueues(t)
           \/ Dvp \/ RgaFinishes \/ UNCHANGED vars
           \/ \E d \in Displays : \E t \in setup.shows[d] : Present(d, t)
  <2>1. /\ \A e \in Displays : Untouched(e) /\ Unmoved(e)
        /\ OpenStays /\ UNCHANGED setup
    BY <1>5, OthersStep
  <2>. QED BY <1>1, <2>1, StatesStay DEF Unmoved
<1>. QED BY <1>3, <1>4, <1>5 DEF Next, Worker

(***************************************************************************)
(* What a display keeps.                                                   *)
(***************************************************************************)

(* One of two states shows the buffer b of tunnel t itself, not a copy.      *)
Shows(c, w, t, b) == \/ c.t = t /\ c.buf = <<b, FALSE>>
                     \/ w.t = t /\ w.buf = <<b, FALSE>>

(* What a display keeps after a step, by the values of its states.           *)
LEMMA KeepsAre ==
  ASSUME NEW d, NEW c, NEW w, current'[d] = c, drawing'[d] = w,
         \A t \in Tunnels : d \in conn'[t] => t \in {c.t, w.t},
         \A t \in Tunnels : \A b \in Buffers[t] : d \in fences'[t].hold[b] => Shows(c, w, t, b),
         c.on => ShownComposition(d)' = c.t,
         ~pset'[d] => c = w,
         worker'[d] = "idle" => ~pset'[d],
         worker'[d] = "vp" /\ pset'[d] => c.buf = NoBuf
  PROVE  Keeps(d)'
<1>1. ASSUME NEW t \in Tunnels, NEW b \in Buffers[t], d \in fences'[t].hold[b]
      PROVE  Uses(d, t, b)'
  <2>1. Shows(c, w, t, b)
    BY <1>1, Zenon
  <2>. QED BY <2>1, Zenon DEF Uses, Shows
<1>2. \A t \in Tunnels : d \in conn'[t] => t \in {current'[d].t, drawing'[d].t}
  BY Zenon
<1>. QED BY <1>1, <1>2, Zenon DEF Keeps

LEMMA KeepsFields ==
  ASSUME NEW d, Keeps(d), NEW c, c = current[d], NEW w, w = drawing[d]
  PROVE  /\ \A t \in Tunnels : d \in conn[t] => t \in {c.t, w.t}
         /\ \A t \in Tunnels : \A b \in Buffers[t] :
              d \in fences[t].hold[b] => Shows(c, w, t, b)
         /\ c.on => ShownComposition(d) = c.t
         /\ ~pset[d] => c = w
         /\ worker[d] = "idle" => ~pset[d]
         /\ worker[d] = "vp" /\ pset[d] => c.buf = NoBuf
<1>1. ASSUME NEW t \in Tunnels, NEW b \in Buffers[t], d \in fences[t].hold[b]
      PROVE  Shows(c, w, t, b)
  <2>1. Uses(d, t, b)
    BY <1>1, Zenon DEF Keeps
  <2>. QED BY <2>1, Zenon DEF Uses, Shows
<1>. QED BY <1>1, Zenon DEF Keeps

LEMMA KeepsStay ==
  ASSUME NEW e \in Displays, Keeps(e), Untouched(e), Unmoved(e)
  PROVE  Keeps(e)'
<1> DEFINE c == current[e]  w == drawing[e]
<1>1. /\ \A t \in Tunnels : e \in conn[t] => t \in {c.t, w.t}
      /\ \A t \in Tunnels : \A b \in Buffers[t] :
           e \in fences[t].hold[b] => Shows(c, w, t, b)
      /\ c.on => ShownComposition(e) = c.t
      /\ ~pset[e] => c = w
      /\ worker[e] = "idle" => ~pset[e]
      /\ worker[e] = "vp" /\ pset[e] => c.buf = NoBuf
  BY KeepsFields
<1>2. /\ current'[e] = c /\ drawing'[e] = w
      /\ pset'[e] = pset[e] /\ worker'[e] = worker[e]
  BY Zenon DEF Unmoved
<1>3. ShownComposition(e)' = ShownComposition(e)
  BY Zenon DEF Unmoved, ShownComposition
<1> HIDE DEF c, w
<1>4. \A t \in Tunnels : e \in conn'[t] => t \in {c.t, w.t}
  BY <1>1, Zenon DEF Untouched
<1>5. \A t \in Tunnels : \A b \in Buffers[t] : e \in fences'[t].hold[b] => Shows(c, w, t, b)
  BY <1>1, Zenon DEF Untouched
<1>6. /\ c.on => ShownComposition(e)' = c.t
      /\ ~pset'[e] => c = w
      /\ worker'[e] = "idle" => ~pset'[e]
      /\ worker'[e] = "vp" /\ pset'[e] => c.buf = NoBuf
  BY <1>1, <1>2, <1>3, Zenon
<1>. QED BY <1>2, <1>4, <1>5, <1>6, KeepsAre, Zenon

LEMMA CollectKeeps ==
  ASSUME Types, NEW d \in Displays, Keeps(d), CollectSF(d), d \notin failed'
  PROVE  Keeps(d)'
<1> DEFINE c == current[d]  w == drawing[d]
<1>1. /\ \A t \in Tunnels : d \in conn[t] => t \in {c.t, w.t}
      /\ \A t \in Tunnels : \A b \in Buffers[t] :
           d \in fences[t].hold[b] => Shows(c, w, t, b)
      /\ c.on => ShownComposition(d) = c.t
      /\ ~pset[d] => c = w
      /\ worker[d] = "idle" => ~pset[d]
  BY KeepsFields
<1>2. /\ UNCHANGED <<conn, fences, drawing, active>> /\ worker[d] = "idle" /\ worker'[d] = "vp"
  BY DEF CollectSF, GoesRound, Types, ctxVars
<1>3. c = w /\ ~pset[d]
  BY <1>1, <1>2
<1>4. CASE frame[d] = NoFrame
  <2>1. UNCHANGED <<collected, current, pset>>
    BY <1>4 DEF CollectSF
  <2>2. ShownComposition(d)' = ShownComposition(d)
    BY <1>2, <2>1, Zenon DEF ShownComposition
  <2>3. current'[d] = c /\ drawing'[d] = w
    BY <1>2, <2>1
  <2> HIDE DEF c, w
  <2>. QED BY <1>1, <1>2, <1>3, <2>1, <2>2, <2>3, KeepsAre
<1>5. CASE frame[d] # NoFrame
  <2> DEFINE s == [on |-> frame[d] > 0, t |-> frame[d], buf |-> NoBuf]
  <2>1. /\ current' = [current EXCEPT ![d] = s]
        /\ collected' = [collected EXCEPT ![d] = frame[d]]
        /\ pset' = [pset EXCEPT ![d] = TRUE]
    BY <1>5, Zenon DEF CollectSF
  <2>2. s.buf = NoBuf /\ s.t = frame[d]
    OBVIOUS
  <2>3. ShownComposition(d)' = s.t
    BY <1>5, <2>1 DEF ShownComposition, Types
  <2>4. current'[d] = s /\ drawing'[d] = w /\ pset'[d] = TRUE
    BY <1>2, <2>1 DEF Types
  <2> HIDE DEF s, c, w
  <2>5. \A t \in Tunnels : d \in conn'[t] => t \in {s.t, w.t}
    BY <1>1, <1>2, <1>3
  <2>6. \A t \in Tunnels : \A b \in Buffers[t] :
          d \in fences'[t].hold[b] => Shows(s, w, t, b)
    BY <1>1, <1>2, <1>3, Zenon DEF Shows
  <2>. QED BY <1>2, <2>2, <2>3, <2>4, <2>5, <2>6, KeepsAre
<1>. QED BY <1>4, <1>5

LEMMA FetchKeeps ==
  ASSUME Types, Lists, Fences, NEW d \in Displays, Pictures(d), Keeps(d), CollectVP(d)
  PROVE  Keeps(d)'
<1> DEFINE c == current[d]  w == drawing[d]  t == ShownComposition(d)
<1>1. /\ \A u \in Tunnels : d \in conn[u] => u \in {c.t, w.t}
      /\ \A u \in Tunnels : \A b \in Buffers[u] :
           d \in fences[u].hold[b] => Shows(c, w, u, b)
      /\ c.on => t = c.t
      /\ ~pset[d] => c = w
      /\ worker[d] = "vp" /\ pset[d] => c.buf = NoBuf
  BY KeepsFields
<1>2. /\ UNCHANGED <<drawing, active, collected>>
      /\ worker[d] = "vp" /\ worker'[d] = "commit"
      /\ pset' = IF c.on THEN [pset EXCEPT ![d] = TRUE] ELSE pset
  BY DEF CollectVP, Types
<1>3. pset[d] \in BOOLEAN /\ (~pset'[d] => ~pset[d] /\ ~c.on)
  BY <1>2, Zenon DEF Types
<1>4. ShownComposition(d)' = t
  BY <1>2, Zenon DEF ShownComposition
<1>5. drawing'[d] = w
  BY <1>2
<1>6. CASE ~c.on \/ t \notin Tunnels
  <2>1. UNCHANGED <<open, conn, fences, current>>
    BY <1>6 DEF CollectVP
  <2>2. current'[d] = c
    BY <2>1
  <2> HIDE DEF c, w, t
  <2>. QED BY <1>1, <1>2, <1>3, <1>4, <1>5, <2>1, <2>2, KeepsAre
<1>7. CASE c.on /\ t \in Tunnels
  <2>1. PICK ok \in BOOLEAN : \E buf \in {NoBuf} \cup Buffers[t] \X BOOLEAN :
           /\ conn' = IF ok THEN [conn EXCEPT ![t] = @ \cup {d}] ELSE conn
           /\ buf # NoBuf => ok /\ t \in open /\ buf[2] = (d \in setup.rotated)
           /\ current' = IF buf = NoBuf THEN current
                         ELSE [current EXCEPT ![d] = [on |-> TRUE, t |-> t, buf |-> buf]]
           /\ \A u \in Tunnels : \A b \in Buffers[u] :
                fences'[u].hold[b] = fences[u].hold[b] \cup
                  (IF buf # NoBuf /\ d \notin setup.rotated /\ u = t /\ b = buf[1] THEN {d} ELSE {})
    BY <1>7, FetchGives
  <2>2. PICK buf \in {NoBuf} \cup Buffers[t] \X BOOLEAN :
           /\ conn' = IF ok THEN [conn EXCEPT ![t] = @ \cup {d}] ELSE conn
           /\ buf # NoBuf => ok /\ t \in open /\ buf[2] = (d \in setup.rotated)
           /\ current' = IF buf = NoBuf THEN current
                         ELSE [current EXCEPT ![d] = [on |-> TRUE, t |-> t, buf |-> buf]]
           /\ \A u \in Tunnels : \A b \in Buffers[u] :
                fences'[u].hold[b] = fences[u].hold[b] \cup
                  (IF buf # NoBuf /\ d \notin setup.rotated /\ u = t /\ b = buf[1] THEN {d} ELSE {})
    BY <2>1
  <2>3. t = c.t /\ (~pset'[d] => FALSE)
    BY <1>1, <1>3, <1>7, Zenon
  <2>4. \A u \in Tunnels : d \in conn'[u] => u \in {t, w.t}
    <3>1. \A u \in Tunnels : d \in conn'[u] => d \in conn[u] \/ u = t
      BY <2>2 DEF Types, Connections
    <3> HIDE DEF w, c, t
    <3>. QED BY <1>1, <2>3, <3>1
  <2>5. CASE buf = NoBuf
    <3>1. current'[d] = c
      BY <2>2, <2>5, Zenon
    <3>2. \A u \in Tunnels : \A b \in Buffers[u] : fences'[u].hold[b] = fences[u].hold[b]
      BY <2>2, <2>5
    <3>3. \A u \in Tunnels : \A b \in Buffers[u] :
            d \in fences'[u].hold[b] => Shows(c, w, u, b)
      BY <1>1, <3>2, Zenon
    <3> HIDE DEF w, c, t
    <3>. QED BY <1>2, <1>4, <1>5, <2>3, <2>4, <3>1, <3>3, KeepsAre
  <2>6. CASE buf # NoBuf
    <3> DEFINE s == [on |-> TRUE, t |-> t, buf |-> buf]
    <3>1. current' = [current EXCEPT ![d] = s]
      BY <2>2, <2>6, Zenon
    <3>2. current'[d] = s /\ s.t = t /\ s.buf = buf
      BY <3>1 DEF Types
    <3>3. \A u \in Tunnels : \A b \in Buffers[u] : Shows(c, w, u, b) => w.t = u /\ w.buf = <<b, FALSE>>
      <4>1. CASE pset[d]
        <5>1. c.buf = NoBuf
          BY <1>1, <1>2, <4>1
        <5>2. \A b : NoBuf # <<b, FALSE>>
          BY DEF NoBuf
        <5>. QED BY <5>1, <5>2, Zenon DEF Shows
      <4>2. CASE ~pset[d]
        <5>1. c = w
          BY <1>1, <4>2
        <5>. QED BY <5>1, Zenon DEF Shows
      <4>. QED BY <4>1, <4>2
    <3>4. ASSUME NEW u \in Tunnels, NEW b \in Buffers[u], d \in fences'[u].hold[b]
          PROVE  Shows(s, w, u, b)
      <4>1. CASE d \in fences[u].hold[b]
        <5>1. w.t = u /\ w.buf = <<b, FALSE>>
          BY <1>1, <3>3, <4>1, Zenon
        <5> HIDE DEF s, w
        <5>. QED BY <5>1, Zenon DEF Shows
      <4>2. CASE d \notin fences[u].hold[b]
        <5>1. fences'[u].hold[b] = fences[u].hold[b] \cup
                (IF buf # NoBuf /\ d \notin setup.rotated /\ u = t /\ b = buf[1] THEN {d} ELSE {})
          BY <2>2, Zenon
        <5>2. d \notin setup.rotated /\ u = t /\ b = buf[1]
          <6> HIDE DEF t
          <6>. QED BY <3>4, <4>2, <5>1
        <5>3. buf \in Buffers[t] \X BOOLEAN /\ buf[2] = (d \in setup.rotated)
          BY <2>2, <2>6, Zenon
        <5>4. buf = <<b, FALSE>>
          <6>1. buf = <<buf[1], buf[2]>>
            BY <5>3
          <6>2. buf[2] = FALSE
            BY <5>2, <5>3, Zenon
          <6>. QED BY <5>2, <6>1, <6>2, Zenon
        <5>5. s.t = u /\ s.buf = <<b, FALSE>>
          BY <3>2, <5>2, <5>4, Zenon
        <5> HIDE DEF s, w
        <5>. QED BY <5>5, Zenon DEF Shows
      <4>. QED BY <4>1, <4>2
    <3> HIDE DEF s, w, c, t
    <3>. QED BY <1>2, <1>4, <1>5, <2>3, <2>4, <3>2, <3>4, KeepsAre
  <2>. QED BY <2>5, <2>6
<1>. QED BY <1>6, <1>7

LEMMA CommitKeeps ==
  ASSUME Types, Lists, Fences, ClosedIsEmpty, NEW d \in Displays, Pictures(d), Keeps(d),
         Commit(d), d \notin failed'
  PROVE  Keeps(d)'
<1> DEFINE c == current[d]  w == drawing[d]  t == ShownComposition(d)
<1>1. /\ \A u \in Tunnels : d \in conn[u] => u \in {c.t, w.t}
      /\ \A u \in Tunnels : \A b \in Buffers[u] :
           d \in fences[u].hold[b] => Shows(c, w, u, b)
      /\ c.on => t = c.t
      /\ ~pset[d] => c = w
  BY KeepsFields
<1>2. UNCHANGED <<open, current>> /\ worker'[d] = "idle" /\ current'[d] = c
  BY DEF Commit, Types
<1>3. CASE ~pset[d]
  <2>1. UNCHANGED <<pset, collected, active, fences, conn, drawing>>
    BY <1>3 DEF Commit
  <2>2. ShownComposition(d)' = t /\ drawing'[d] = w
    BY <2>1, Zenon DEF ShownComposition
  <2> HIDE DEF c, w, t
  <2>. QED BY <1>1, <1>2, <1>3, <2>1, <2>2, KeepsAre
<1>4. CASE pset[d]
  <2>1. /\ pset' = [pset EXCEPT ![d] = FALSE] /\ active' = [active EXCEPT ![d] = t]
        /\ collected' = [collected EXCEPT ![d] = NoFrame]
        /\ UpdateSidebandState(d)
    <3>1. ~(failed' = failed \cup {d})
      OBVIOUS
    <3>. QED BY <1>4, <3>1, Zenon DEF Commit
  <2>2. pset'[d] = FALSE /\ ShownComposition(d)' = t
    BY <2>1 DEF Types, ShownComposition
  <2>3. /\ drawing' = [drawing EXCEPT ![d] = c]
        /\ \A u \in Tunnels :
             conn'[u] = conn[u] \ (IF c.t # w.t /\ w.t \in open /\ u = w.t THEN {d} ELSE {})
        /\ \A u \in Tunnels : \A b \in Buffers[u] :
             fences'[u].hold[b] = fences[u].hold[b] \
               (IF (c.t # w.t \/ w.buf # c.buf) /\ Gives(w, u, b) THEN {d} ELSE {})
    BY <2>1, CommitGives
  <2>4. drawing'[d] = c
    BY <2>3 DEF Types
  <2>5. ASSUME NEW u \in Tunnels, d \in conn'[u] PROVE u \in {c.t, c.t}
    <3> HIDE DEF c, w, t
    <3>1. conn'[u] = conn[u] \ (IF c.t # w.t /\ w.t \in open /\ u = w.t THEN {d} ELSE {})
      BY <2>3, Zenon
    <3>2. d \in conn[u] /\ u \in open
      BY <2>5, <3>1 DEF ClosedIsEmpty
    <3>3. u = c.t \/ u = w.t
      BY <1>1, <3>2, Zenon
    <3>. QED BY <2>5, <3>1, <3>2, <3>3
  <2>6. ASSUME NEW u \in Tunnels, NEW b \in Buffers[u], d \in fences'[u].hold[b]
        PROVE  Shows(c, c, u, b)
    <3> HIDE DEF c, w, t
    <3>1. fences'[u].hold[b] = fences[u].hold[b] \
            (IF (c.t # w.t \/ w.buf # c.buf) /\ Gives(w, u, b) THEN {d} ELSE {})
      BY <2>3, Zenon
    <3>2. d \in fences[u].hold[b] /\ ~((c.t # w.t \/ w.buf # c.buf) /\ Gives(w, u, b))
      BY <2>6, <3>1
    <3>3. u \in open
      BY <3>2 DEF ClosedIsEmpty
    <3>4. CASE c.t = u /\ c.buf = <<b, FALSE>>
      BY <3>4, Zenon DEF Shows
    <3>5. CASE w.t = u /\ w.buf = <<b, FALSE>>
      <4>1. w.buf # NoBuf /\ w.buf[1] = b
        BY <3>5 DEF NoBuf
      <4>2. Gives(w, u, b)
        BY <3>3, <3>5, <4>1, Zenon DEF Gives
      <4>. QED BY <3>2, <3>5, <4>2, Zenon DEF Shows
    <3>. QED BY <1>1, <3>2, <3>4, <3>5, Zenon DEF Shows
  <2> HIDE DEF c, w, t
  <2>. QED BY <1>1, <1>2, <2>2, <2>4, <2>5, <2>6, KeepsAre
<1>. QED BY <1>3, <1>4

LEMMA ClearKeeps ==
  ASSUME Types, Lists, Fences, ClosedIsEmpty, NEW d \in Displays, Pictures(d), Keeps(d),
         ClearDisplay(d)
  PROVE  Keeps(d)'
<1> DEFINE c == current[d]  w == drawing[d]
<1>1. /\ \A u \in Tunnels : d \in conn[u] => u \in {c.t, w.t}
      /\ \A u \in Tunnels : \A b \in Buffers[u] :
           d \in fences[u].hold[b] => Shows(c, w, u, b)
      /\ worker[d] = "idle" => ~pset[d]
  BY KeepsFields
<1>2. UNCHANGED <<open, pset, worker>>
  BY DEF ClearDisplay
<1>3. /\ current' = [current EXCEPT ![d] = Off] /\ drawing' = [drawing EXCEPT ![d] = Off]
      /\ \A u \in Tunnels :
           conn'[u] = conn[u] \ (IF u \in open /\ u \in {c.t, w.t} THEN {d} ELSE {})
      /\ \A u \in Tunnels : \A b \in Buffers[u] :
           fences'[u].hold[b] = fences[u].hold[b] \
             (IF Gives(w, u, b) \/ Gives(c, u, b) THEN {d} ELSE {})
  BY ClearGives
<1>4. current'[d] = Off /\ drawing'[d] = Off
  BY <1>3 DEF Types
<1> HIDE DEF c, w
<1>5. ASSUME NEW u \in Tunnels, d \in conn'[u] PROVE FALSE
  <2>1. conn'[u] = conn[u] \ (IF u \in open /\ u \in {c.t, w.t} THEN {d} ELSE {})
    BY <1>3, Zenon
  <2>2. d \in conn[u]
    BY <1>5, <2>1
  <2>3. u \in open /\ u \in {c.t, w.t}
    BY <1>1, <2>2 DEF ClosedIsEmpty
  <2>. QED BY <1>5, <2>1, <2>3
<1>6. ASSUME NEW u \in Tunnels, NEW b \in Buffers[u], d \in fences'[u].hold[b]
      PROVE  FALSE
  <2>1. fences'[u].hold[b] = fences[u].hold[b] \
          (IF Gives(w, u, b) \/ Gives(c, u, b) THEN {d} ELSE {})
    BY <1>3, Zenon
  <2>2. d \in fences[u].hold[b] /\ ~(Gives(w, u, b) \/ Gives(c, u, b))
    BY <1>6, <2>1
  <2>3. u \in open /\ Shows(c, w, u, b)
    BY <1>1, <2>2 DEF ClosedIsEmpty
  <2>4. \A s : s.buf = <<b, FALSE>> => s.buf # NoBuf /\ s.buf[1] = b
    BY DEF NoBuf
  <2>. QED BY <2>2, <2>3, <2>4, Zenon DEF Shows, Gives
<1>7. Off.on = FALSE /\ Off.buf = NoBuf
  BY DEF Off
<1>. QED BY <1>1, <1>2, <1>4, <1>5, <1>6, <1>7, KeepsAre

(* A closed tunnel stays empty: nothing is fetched from it.                  *)
LEMMA ClosedStays ==
  ASSUME ClosedIsEmpty, open \subseteq open',
         \A u \in Tunnels \ open' : conn'[u] \subseteq conn[u],
         \A u \in Tunnels \ open' : \A b \in Buffers[u] :
            fences'[u].hold[b] \subseteq fences[u].hold[b]
  PROVE  ClosedIsEmpty'
<1>1. ASSUME NEW u \in Tunnels \ open'
      PROVE  /\ conn'[u] = {}
             /\ \A b \in Buffers[u] : fences'[u].hold[b] \cap Displays = {}
  <2>1. /\ conn[u] = {} /\ \A b \in Buffers[u] : fences[u].hold[b] \cap Displays = {}
    BY DEF ClosedIsEmpty
  <2>2. /\ conn'[u] \subseteq conn[u]
        /\ \A b \in Buffers[u] : fences'[u].hold[b] \subseteq fences[u].hold[b]
    BY Zenon
  <2>. QED BY <2>1, <2>2
<1>. QED BY <1>1, Zenon DEF ClosedIsEmpty

LEMMA DisplayClosed ==
  ASSUME Types, Lists, Fences, ClosedIsEmpty, NEW d \in Displays, Pictures(d),
         CollectSF(d) \/ CollectVP(d) \/ Commit(d) \/ ClearDisplay(d)
  PROVE  ClosedIsEmpty'
<1>1. CASE UNCHANGED <<open, conn, fences>>
  BY <1>1, ClosedStays
<1>2. CASE CollectSF(d)
  BY <1>1, <1>2 DEF CollectSF, ctxVars
<1>3. CASE CollectVP(d)
  <2> DEFINE t == ShownComposition(d)
  <2>1. CASE ~current[d].on \/ t \notin Tunnels
    BY <1>1, <1>3, <2>1 DEF CollectVP
  <2>2. CASE current[d].on /\ t \in Tunnels
    <3>1. PICK ok \in BOOLEAN, buf \in {NoBuf} \cup Buffers[t] \X BOOLEAN :
           /\ open' = IF ok THEN open \cup {t} ELSE open
           /\ conn' = IF ok THEN [conn EXCEPT ![t] = @ \cup {d}] ELSE conn
           /\ buf # NoBuf => ok
           /\ \A u \in Tunnels : \A b \in Buffers[u] :
                fences'[u].hold[b] = fences[u].hold[b] \cup
                  (IF buf # NoBuf /\ d \notin setup.rotated /\ u = t /\ b = buf[1] THEN {d} ELSE {})
      BY <1>3, <2>2, FetchGives
    <3> HIDE DEF t
    <3>2. open \subseteq open' /\ \A u \in Tunnels \ open' : conn'[u] \subseteq conn[u]
      BY <2>2, <3>1 DEF Types, Connections
    <3>3. ASSUME NEW u \in Tunnels \ open', NEW b \in Buffers[u]
          PROVE  fences'[u].hold[b] \subseteq fences[u].hold[b]
      <4>1. ~(buf # NoBuf /\ u = t)
        BY <3>1, <3>3
      <4>. QED BY <3>1, <4>1
    <3>. QED BY <3>2, <3>3, ClosedStays
  <2>. QED BY <2>1, <2>2
<1>4. CASE Commit(d)
  <2>1. UNCHANGED open
    BY <1>4 DEF Commit
  <2>2. CASE UNCHANGED <<conn, fences>>
    BY <1>1, <2>1, <2>2
  <2>3. CASE UpdateSidebandState(d)
    <3> DEFINE c == current[d]  w == drawing[d]
    <3>1. /\ \A u \in Tunnels :
               conn'[u] = conn[u] \ (IF c.t # w.t /\ w.t \in open /\ u = w.t THEN {d} ELSE {})
          /\ \A u \in Tunnels : \A b \in Buffers[u] :
               fences'[u].hold[b] = fences[u].hold[b] \
                 (IF (c.t # w.t \/ w.buf # c.buf) /\ Gives(w, u, b) THEN {d} ELSE {})
      BY <2>3, CommitGives
    <3> HIDE DEF c, w
    <3>. QED BY <2>1, <3>1, ClosedStays
  <2>. QED BY <1>4, <2>2, <2>3 DEF Commit
<1>5. CASE ClearDisplay(d)
  <2> DEFINE c == current[d]  w == drawing[d]
  <2>1. UNCHANGED open
    BY <1>5 DEF ClearDisplay
  <2>2. /\ \A u \in Tunnels :
             conn'[u] = conn[u] \ (IF u \in open /\ u \in {c.t, w.t} THEN {d} ELSE {})
        /\ \A u \in Tunnels : \A b \in Buffers[u] :
             fences'[u].hold[b] = fences[u].hold[b] \
               (IF Gives(w, u, b) \/ Gives(c, u, b) THEN {d} ELSE {})
    BY <1>5, ClearGives
  <2> HIDE DEF c, w
  <2>. QED BY <2>1, <2>2, ClosedStays
<1>. QED BY <1>2, <1>3, <1>4, <1>5

LEMMA KeptStep ==
  ASSUME Types, Lists, Fences, States, Kept, [Next]_vars
  PROVE  Kept'
<1>1. \A e \in Displays : Pictures(e)
  BY Zenon DEF States, Pictures
<1>2. ClosedIsEmpty /\ \A e \in Displays \ failed : Keeps(e)
  BY DEF Kept
<1>3. SUFFICES ClosedIsEmpty' /\ \A e \in Displays : e \notin failed' => Keeps(e)'
  BY DEF Kept
<1>4. setup.cleared \subseteq Displays
  BY DEF Types, Setup
<1>5. CASE \E d \in Displays : CollectSF(d) \/ CollectVP(d) \/ Commit(d) \/ ClearDisplay(d)
  <2>1. PICK d \in Displays : CollectSF(d) \/ CollectVP(d) \/ Commit(d) \/ ClearDisplay(d)
    BY <1>5
  <2>2. /\ \A e \in Displays \ {d} : Untouched(e) /\ Unmoved(e)
        /\ failed \subseteq failed'
    BY <1>1, <2>1, DisplayStep
  <2>3. ASSUME NEW e \in Displays, e # d, e \notin failed' PROVE Keeps(e)'
    BY <1>2, <2>2, <2>3, KeepsStay
  <2>4. ASSUME d \notin failed' PROVE Keeps(d)'
    BY <1>1, <1>2, <2>1, <2>2, <2>4, CollectKeeps, FetchKeeps, CommitKeeps, ClearKeeps
  <2>5. ClosedIsEmpty'
    BY <1>1, <1>2, <2>1, DisplayClosed
  <2>. QED BY <2>3, <2>4, <2>5
<1>6. CASE \/ \E t \in Fed : ProducerQueues(t)
           \/ Dvp \/ RgaFinishes \/ UNCHANGED vars
           \/ \E d \in Displays : \E t \in setup.shows[d] : Present(d, t)
  <2>1. /\ \A e \in Displays : Untouched(e) /\ Unmoved(e)
        /\ ClosedIsEmpty' /\ UNCHANGED failed
    BY <1>2, <1>6, OthersStep
  <2>. QED BY <1>2, <2>1, KeepsStay
<1>. QED BY <1>4, <1>5, <1>6 DEF Next, Worker

LEMMA InitKept == Init => Kept
<1>1. ASSUME Init PROVE ClosedIsEmpty
  <2>1. \A t \in Tunnels : conn[t] = {} /\ fences[t] = NewFences(t)
    BY <1>1, Zenon DEF Init
  <2>2. \A t \in Tunnels : \A b \in Buffers[t] : fences[t].hold[b] = {}
    BY <2>1, NewIsBehind
  <2>. QED BY <2>1, <2>2 DEF ClosedIsEmpty
<1>2. ASSUME Init, NEW d \in Displays PROVE Keeps(d)
  <2>1. /\ current[d] = Off /\ drawing[d] = Off /\ pset[d] = FALSE
        /\ \A t \in Tunnels : conn[t] = {} /\ fences[t] = NewFences(t)
    BY <1>2, Zenon DEF Init
  <2>2. \A t \in Tunnels : \A b \in Buffers[t] : fences[t].hold[b] = {}
    BY <2>1, NewIsBehind
  <2>3. Off.on = FALSE
    BY DEF Off
  <2>. QED BY <2>1, <2>2, <2>3, Zenon DEF Keeps
<1>. QED BY <1>1, <1>2 DEF Kept

(***************************************************************************)
(* The theorems.                                                           *)
(***************************************************************************)

(* The inductive invariant: the types and the pools of buffers, the fences   *)
(* of the newest buffers, what is held for the screen and what a display     *)
(* may keep.                                                                 *)
THEOREM Inductive == Spec => []IInv
<1>1. Init => IInv
  BY InitTypes, InitLists, InitFences, InitStates, InitKept DEF IInv
<1>2. IInv /\ [Next]_vars => IInv'
  <2>1. ASSUME IInv, [Next]_vars PROVE IInv'
    <3>1. Types /\ Lists /\ Fences /\ States /\ Kept
      BY <2>1 DEF IInv
    <3>2. ClosedIsEmpty /\ \A d \in Displays : Pictures(d)
      BY <3>1 DEF Kept, States, Pictures
    <3>3. Types'
      BY <2>1, <3>1, <3>2, TypesStep
    <3>4. Lists'
      BY <2>1, <3>1, ListsStep
    <3>5. Fences'
      BY <2>1, <3>1, <3>2, FencesStep
    <3>6. States'
      BY <2>1, <3>1, <3>2, StatesStep
    <3>7. Kept'
      BY <2>1, <3>1, KeptStep
    <3>. QED BY <3>3, <3>4, <3>5, <3>6, <3>7 DEF IInv
  <2>. QED BY <2>1
<1>. QED BY <1>1, <1>2, PTL DEF Spec

LEMMA PictureIsState ==
  ASSUME NEW d, NEW s, StateOf(d, s)
  PROVE  SidebandState(s)
<1>1. /\ s \in SidebandType
      /\ s.buf # NoBuf => s.t > 0 /\ s.buf[1] \in Buffers[s.t]
  BY DEF StateOf
<1>2. /\ s.on \in BOOLEAN /\ s.t \in Tunnels \cup {0}
      /\ s.buf = NoBuf \/ s.buf \in AllBuffers \X BOOLEAN
  BY <1>1 DEF SidebandType, Tunnelled
<1>3. s.buf # NoBuf => s.t > 0 /\ s.buf \in Buffers[s.t] \X BOOLEAN
  BY <1>1, <1>2
<1>. QED BY <1>2, <1>3, Zenon DEF SidebandState

(* Types, for any displays, tunnels and pools: every buffer is in exactly    *)
(* one queue, at most two buffers and copies of a tunnel are kept, and no    *)
(* fence waits for more releases than there are fences ahead.                *)
THEOREM TypesHold == Spec => []TypeOK
<1>1. ASSUME IInv PROVE TypeOK
  <2>1. Types /\ Lists /\ Fences /\ States
    BY <1>1 DEF IInv
  <2>2. ASSUME NEW t \in Tunnels
        PROVE  /\ Range(vtq[t] \o given[t]) = Buffers[t] /\ IsInjective(vtq[t] \o given[t])
               /\ conn[t] \subseteq Displays \cup {Ui} /\ turn[t] \subseteq setup.rotated
               /\ Range(list[t]) \subseteq Buffers[t] /\ Len(list[t]) <= 2
               /\ Range(copies[t]) \subseteq Buffers[t] /\ Len(copies[t]) <= 2
    <3>1. conn[t] \subseteq Displays \cup {Ui} /\ turn[t] \subseteq setup.rotated
      BY <2>1 DEF Types, Connections
    <3>2. /\ Pool(Buffers[t], vtq[t], given[t])
          /\ list[t] \in Seq(Buffers[t]) /\ Len(list[t]) <= 2
          /\ copies[t] \in Seq(Buffers[t]) /\ Len(copies[t]) <= 2
      BY <2>1 DEF Lists, ListsOf
    <3>. QED BY <3>1, <3>2, RangeOf, Zenon DEF Pool
  <2>3. ASSUME NEW t \in Tunnels
        PROVE  /\ fences[t].hold \in [Buffers[t] -> SUBSET (Displays \cup {Listed})]
               /\ fences[t].armed \subseteq Buffers[t] /\ fences[t].ahead \in Nat
               /\ fences[t].wait \in [Buffers[t] -> 0 .. fences[t].ahead]
    <3>1. Behind(fences[t], Buffers[t], Pushed(t))
      BY <2>1 DEF Fences, FencesOf, Ordered
    <3>2. /\ fences[t] \in FenceType(Buffers[t])
          /\ \A b \in Buffers[t] : fences[t].wait[b] <= fences[t].ahead
      BY <3>1 DEF Behind
    <3>. QED BY <3>2 DEF FenceType, Users
  <2>4. ASSUME NEW d \in Displays
        PROVE  /\ {frame[d], collected[d], active[d]} \subseteq Tunnels \cup {0, NoFrame}
               /\ SidebandState(current[d]) /\ SidebandState(drawing[d])
               /\ worker[d] \in {"idle", "vp", "commit"} /\ pset[d] \in BOOLEAN
    <3>1. /\ {frame[d], collected[d], active[d]} \subseteq Tunnels \cup {0, NoFrame}
          /\ worker[d] \in {"idle", "vp", "commit"}
      BY <2>1 DEF Types, Tunnelled
    <3>2. pset[d] \in BOOLEAN
      BY <2>1, Zenon DEF Types
    <3>3. SidebandState(current[d]) /\ SidebandState(drawing[d])
      BY <2>1, PictureIsState DEF States
    <3>. QED BY <3>1, <3>2, <3>3
  <2>5. /\ open \subseteq Tunnels /\ todo \subseteq open /\ last \in Tunnels \cup {0}
        /\ dvp \in {"check", "waits", "asleep", "serve", "acquire", "turn", "push"}
    BY <2>1 DEF Types, Tunnelled
  <2>6. got # <<>> <=> dvp \in {"turn", "push"}
    <3>1. \A t, b, r : <<t, b, r>> # <<>>
      OBVIOUS
    <3>. QED BY <2>1, <3>1, Zenon DEF Types
  <2>. QED BY <2>2, <2>3, <2>4, <2>5, <2>6, Zenon DEF TypeOK
<1>. QED BY <1>1, Inductive, PTL

(* The picture on the screen keeps its tunnel open and its buffer held, for  *)
(* any number of displays that share tunnels, change them, fail or clear.    *)
THEOREM DrawnStaysHeld == Spec => []DrawnIsHeld
<1>1. ASSUME IInv PROVE DrawnIsHeld
  <2>1. \A d \in Displays : Held(d, drawing[d])
    BY <1>1 DEF IInv, States
  <2>. QED BY <2>1, Zenon DEF DrawnIsHeld, Held
<1>. QED BY <1>1, Inductive, PTL

(* A display of which nothing was refused keeps only the connections and     *)
(* references of its two states: none is forgotten, whatever the order of    *)
(* its thread's steps, ClearDisplay() and the closing of tunnels.            *)
THEOREM NothingIsLeft == Spec => []NothingLeaks
<1>1. ASSUME IInv PROVE NothingLeaks
  <2>1. open \subseteq Tunnels
    BY <1>1 DEF IInv, Types
  <2>2. \A d \in Displays \ failed : Keeps(d)
    BY <1>1 DEF IInv, Kept
  <2>. QED BY <2>1, <2>2 DEF NothingLeaks, Keeps
<1>. QED BY <1>1, Inductive, PTL

(* The newest buffers of any pool wait for a release of their own: the       *)
(* timeline, which counts releases and not buffers, cannot overtake them.    *)
THEOREM NewestArePending == Spec => []ListedIsPending
<1>1. ASSUME IInv PROVE ListedIsPending
  <2>1. open \subseteq Tunnels /\ Types /\ Lists /\ Fences
    BY <1>1 DEF IInv, Types
  <2>2. ASSUME NEW t \in open, NEW b \in Newest(t) PROVE fences[t].wait[b] > 0
    <3>1. t \in Tunnels /\ list[t] \in Seq(Buffers[t]) /\ IsFiniteSet(Buffers[t])
      BY <2>1, SidebandAssumption DEF Lists, ListsOf
    <3>2. Behind(fences[t], Buffers[t], Pushed(t))
      BY <2>1, <3>1 DEF Fences, FencesOf, Ordered
    <3>3. \E i \in 1 .. Len(Pushed(t)) : Pushed(t)[i] = b
      <4>1. CASE got # <<>> /\ got[1] = t
        <5>1. Pushed(t) = Append(list[t], got[2])
          BY <4>1, Zenon DEF Pushed, Joined
        <5>2. got[2] \in Buffers[t]
          BY <2>1, <4>1 DEF Types
        <5>3. /\ Len(Pushed(t)) = Len(list[t]) + 1 /\ Len(list[t]) \in Nat
              /\ \A i \in 1 .. Len(list[t]) : Pushed(t)[i] = list[t][i]
              /\ Pushed(t)[Len(list[t]) + 1] = got[2]
          BY <3>1, <5>1, <5>2, AppendOf
        <5>4. b = got[2] \/ b \in Range(list[t])
          BY Zenon DEF Newest
        <5>5. CASE b = got[2]
          BY <5>3, <5>5
        <5>6. CASE b \in Range(list[t])
          <6>1. PICK i \in 1 .. Len(list[t]) : list[t][i] = b
            BY <3>1, <5>6 DEF Range
          <6>2. i \in 1 .. Len(Pushed(t)) /\ Pushed(t)[i] = b
            BY <5>3, <6>1
          <6>. QED BY <6>2
        <5>. QED BY <5>4, <5>5, <5>6
      <4>2. CASE ~(got # <<>> /\ got[1] = t)
        <5>1. Pushed(t) = list[t]
          BY <4>2, Zenon DEF Pushed, Joined
        <5>2. b \in Range(list[t])
          BY <4>2, Zenon DEF Newest
        <5>3. PICK i \in 1 .. Len(list[t]) : list[t][i] = b
          BY <3>1, <5>2 DEF Range
        <5>. QED BY <5>1, <5>3
      <4>. QED BY <4>1, <4>2
    <3>. QED BY <3>1, <3>2, <3>3, BehindIsPending
  <2>. QED BY <2>2 DEF ListedIsPending
<1>. QED BY <1>1, Inductive, PTL
=============================================================================
