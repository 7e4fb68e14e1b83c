-------------------------- MODULE FrameRunsLemmas --------------------------
(***************************************************************************)
(* Facts about queues, runs of frames and partitions: what the operators   *)
(* of FrameRuns keep when an element moves from one queue to the next.     *)
(***************************************************************************)
EXTENDS FrameRuns, SequenceTheorems, TLAPS

\* Moving the head of one queue to the end of the queue before it changes
\* nothing in the two taken together.
LEMMA MoveHead ==
  ASSUME NEW S, NEW s \in Seq(S), NEW t \in Seq(S), t # <<>>
  PROVE  Append(s, Head(t)) \o Tail(t) = s \o t
<1> DEFINE u == Append(s, Head(t))
<1>1. Head(t) \in S /\ Tail(t) \in Seq(S) /\ Len(Tail(t)) = Len(t) - 1
  BY HeadTailProperties
<1>2. \A i \in 1..Len(Tail(t)) : Tail(t)[i] = t[i + 1]
  BY HeadTailProperties
<1>3. /\ u \in Seq(S) /\ Len(u) = Len(s) + 1
      /\ \A i \in 1..Len(s) : u[i] = s[i]
      /\ u[Len(s) + 1] = Head(t)
  BY <1>1, AppendProperties
<1>4. Head(t) = t[1]
  OBVIOUS
<1>5. Len(s) \in Nat /\ Len(t) \in Nat
  BY LenProperties
<1> HIDE DEF u
<1>6. /\ u \o Tail(t) \in Seq(S)
      /\ Len(u \o Tail(t)) = Len(s) + Len(t)
      /\ \A i \in 1..(Len(s) + Len(t)) :
           (u \o Tail(t))[i] = IF i <= Len(u) THEN u[i] ELSE Tail(t)[i - Len(u)]
  <2>1. /\ u \o Tail(t) \in Seq(S)
        /\ Len(u \o Tail(t)) = Len(u) + Len(Tail(t))
        /\ \A i \in 1..(Len(u) + Len(Tail(t))) :
             (u \o Tail(t))[i] = IF i <= Len(u) THEN u[i] ELSE Tail(t)[i - Len(u)]
    BY <1>1, <1>3, ConcatProperties, Zenon
  <2>2. Len(u) + Len(Tail(t)) = Len(s) + Len(t)
    BY <1>1, <1>3, <1>5
  <2> QED
    BY <2>1, <2>2, Zenon
<1>7. /\ s \o t \in Seq(S)
      /\ Len(s \o t) = Len(s) + Len(t)
      /\ \A i \in 1..(Len(s) + Len(t)) :
           (s \o t)[i] = IF i <= Len(s) THEN s[i] ELSE t[i - Len(s)]
  BY ConcatProperties, Zenon
<1>8. ASSUME NEW i \in 1..(Len(s) + Len(t))
      PROVE  (u \o Tail(t))[i] = (s \o t)[i]
  <2>1. CASE i <= Len(s)
    BY <2>1, <1>3, <1>5, <1>6, <1>7
  <2>2. CASE i = Len(s) + 1
    BY <2>2, <1>3, <1>4, <1>5, <1>6, <1>7
  <2>3. CASE i > Len(s) + 1
    <3>1. i - Len(u) \in 1..Len(Tail(t)) /\ (i - Len(u)) + 1 = i - Len(s)
      BY <2>3, <1>1, <1>3, <1>5
    <3>2. Tail(t)[i - Len(u)] = t[i - Len(s)]
      BY <3>1, <1>2
    <3>3. (u \o Tail(t))[i] = Tail(t)[i - Len(u)]
      BY <2>3, <1>3, <1>5, <1>6
    <3>4. (s \o t)[i] = t[i - Len(s)]
      BY <2>3, <1>5, <1>7
    <3> QED
      BY <3>2, <3>3, <3>4
  <2>4. i <= Len(s) \/ i = Len(s) + 1 \/ i > Len(s) + 1
    BY <1>5
  <2> QED
    BY <2>1, <2>2, <2>3, <2>4
<1>9. u \o Tail(t) = s \o t
  BY <1>6, <1>7, <1>8, SeqEqual
<1> QED
  BY <1>9 DEF u

\* Cutting a sequence in two and joining the parts gives it back.
LEMMA Cut ==
  ASSUME NEW S, NEW s \in Seq(S), NEW k \in 0..Len(s)
  PROVE  /\ SubSeq(s, 1, k) \in Seq(S)
         /\ SubSeq(s, k + 1, Len(s)) \in Seq(S)
         /\ SubSeq(s, 1, k) \o SubSeq(s, k + 1, Len(s)) = s
<1> DEFINE a == SubSeq(s, 1, k)
           b == SubSeq(s, k + 1, Len(s))
<1>1. Len(s) \in Nat /\ \A i \in 1..Len(s) : s[i] \in S
  BY LenProperties, ElementOfSeq
<1>2. /\ a \in Seq(S) /\ Len(a) = k
      /\ \A i \in 1..k : a[i] = s[i]
  BY <1>1, SubSeqProperties
<1>3. /\ b \in Seq(S) /\ Len(b) = Len(s) - k
      /\ \A i \in 1..(Len(s) - k) : b[i] = s[k + i]
  <2>1. \A i \in (k + 1)..Len(s) : s[i] \in S
    BY <1>1
  <2>2. /\ b \in Seq(S)
        /\ Len(b) = IF k + 1 <= Len(s) THEN Len(s) - (k + 1) + 1 ELSE 0
        /\ \A i \in 1..(Len(s) - (k + 1) + 1) : b[i] = s[(k + 1) + i - 1]
    BY <1>1, <2>1, SubSeqProperties
  <2> HIDE DEF b
  <2> QED
    BY <1>1, <2>2
<1> HIDE DEF a, b
<1>4. /\ a \o b \in Seq(S)
      /\ Len(a \o b) = Len(s)
      /\ \A i \in 1..Len(s) : (a \o b)[i] = IF i <= k THEN a[i] ELSE b[i - k]
  <2>1. /\ a \o b \in Seq(S)
        /\ Len(a \o b) = Len(a) + Len(b)
        /\ \A i \in 1..(Len(a) + Len(b)) :
             (a \o b)[i] = IF i <= Len(a) THEN a[i] ELSE b[i - Len(a)]
    BY <1>2, <1>3, ConcatProperties, Zenon
  <2>2. Len(a) = k /\ Len(a) + Len(b) = Len(s)
    BY <1>1, <1>2, <1>3
  <2> QED
    BY <2>1, <2>2
<1>5. \A i \in 1..Len(s) : (a \o b)[i] = s[i]
  BY <1>1, <1>2, <1>3, <1>4
<1>6. a \o b = s
  BY <1>1, <1>4, <1>5, SeqEqual
<1> QED
  BY <1>2, <1>3, <1>6 DEF a, b

\* Concatenation under a name of its own: as long as it is not expanded, the
\* provers know nothing of it but the two laws below, and reorder terms quickly.
Cat(s, t) == s \o t

LEMMA CatClosed ==
  ASSUME NEW S
  PROVE  \A s, t \in Seq(S) : Cat(s, t) \in Seq(S)
  BY ConcatProperties DEF Cat

LEMMA CatAssoc ==
  ASSUME NEW S
  PROVE  \A s, t, u \in Seq(S) : Cat(Cat(s, t), u) = Cat(s, Cat(t, u))
  BY ConcatAssociative DEF Cat

\* MoveHead with a queue in front of the two.
HandsOver(r, s, t) == (r \o Append(s, Head(t))) \o Tail(t) = (r \o s) \o t

LEMMA MoveHeadBehind ==
  ASSUME NEW S, NEW r \in Seq(S), NEW s \in Seq(S), NEW t \in Seq(S), t # <<>>
  PROVE  HandsOver(r, s, t)
<1> DEFINE u == Append(s, Head(t))
           v == Tail(t)
<1>1. u \in Seq(S) /\ v \in Seq(S)
  BY HeadTailProperties, AppendProperties
<1>2. Cat(u, v) = Cat(s, t)
  BY MoveHead DEF Cat
<1> HIDE DEF u, v
<1>3. Cat(Cat(r, u), v) = Cat(Cat(r, s), t)
  BY <1>1, <1>2, CatAssoc
<1> QED
  BY <1>3 DEF u, v, Cat, HandsOver

\* Appending to the last of two queues appends to the two taken together.
LEMMA AppendBehind ==
  ASSUME NEW S, NEW s \in Seq(S), NEW t \in Seq(S), NEW e \in S
  PROVE  s \o Append(t, e) = Append(s \o t, e)
<1> DEFINE x == <<e>>
<1>1. x \in Seq(S)
  OBVIOUS
<1>2. Cat(s, t) \in Seq(S)
  BY CatClosed
<1>3. Append(t, e) = Cat(t, x)
  BY AppendIsConcat DEF Cat
<1>4. Append(Cat(s, t), e) = Cat(Cat(s, t), x)
  BY <1>2, AppendIsConcat DEF Cat
<1> HIDE DEF x
<1>5. Cat(Cat(s, t), x) = Cat(s, Cat(t, x))
  BY <1>1, CatAssoc
<1>6. Cat(s, Append(t, e)) = Append(Cat(s, t), e)
  BY <1>3, <1>4, <1>5
<1> QED
  BY <1>6 DEF Cat

\* A buffer w takes the head of its input i, becoming u, and spills its oldest k
\* elements into its output o, which is behind r: end to end nothing changes.
\* (Memberships are separate steps, for each leaf to see its own queues only.)
Spilled(r, o, w, i, k, u) ==
  ((r \o (o \o SubSeq(u, 1, k))) \o SubSeq(u, k + 1, Len(u))) \o Tail(i)
    = ((r \o o) \o w) \o i

LEMMA Spill ==
  ASSUME NEW S, NEW r, NEW o, NEW w, NEW i, NEW k, NEW u
  PROVE  /\ r \in Seq(S) /\ o \in Seq(S) /\ w \in Seq(S) /\ i \in Seq(S)
         /\ i # <<>> /\ u = Append(w, Head(i)) /\ k \in 0..Len(u)
         => Spilled(r, o, w, i, k, u)
<1>1. SUFFICES
        ASSUME r \in Seq(S), o \in Seq(S), w \in Seq(S), i \in Seq(S),
               i # <<>>, u = Append(w, Head(i)), k \in 0..Len(u)
        PROVE  Spilled(r, o, w, i, k, u)
  OBVIOUS
<1> DEFINE a == SubSeq(u, 1, k)
           b == SubSeq(u, k + 1, Len(u))
           j == Tail(i)
           q == Cat(r, o)
<1>2. r \in Seq(S) /\ o \in Seq(S)
  BY <1>1
<1>3. w \in Seq(S) /\ i \in Seq(S) /\ u \in Seq(S)
  BY <1>1, HeadTailProperties, AppendProperties
<1>4. a \in Seq(S) /\ b \in Seq(S)
  BY <1>1, <1>3, Cut
<1>5. Cat(a, b) = u
  BY <1>1, <1>3, Cut DEF Cat
<1>6. q \in Seq(S)
  BY <1>2, CatClosed
<1>7. j \in Seq(S)
  BY <1>1, HeadTailProperties
<1>8. Cat(u, j) = Cat(w, i)
  BY <1>1, MoveHead DEF Cat
<1> HIDE DEF a, b, q, j
<1>9. Cat(r, Cat(o, a)) = Cat(Cat(r, o), a)
  BY <1>2, <1>4, CatAssoc
<1>10. Cat(Cat(q, a), b) = Cat(q, Cat(a, b))
  BY <1>4, <1>6, CatAssoc
<1>11. Cat(Cat(q, u), j) = Cat(q, Cat(u, j)) /\ Cat(Cat(q, w), i) = Cat(q, Cat(w, i))
  BY <1>3, <1>6, <1>7, CatAssoc
<1>12. Cat(Cat(Cat(r, Cat(o, a)), b), j) = Cat(Cat(Cat(r, o), w), i)
  BY <1>5, <1>8, <1>9, <1>10, <1>11 DEF q
<1> QED
  BY <1>12 DEF a, b, j, Cat, Spilled

\* The first of six queues can be split off from the other five.
SplitsOff(f, a, b, c, d, e) ==
  ((((f \o a) \o b) \o c) \o d) \o e
    = f \o (((((<<>> \o a) \o b) \o c) \o d) \o e)

LEMMA SplitFirst ==
  ASSUME NEW S, NEW f \in Seq(S), NEW a \in Seq(S), NEW b \in Seq(S),
         NEW c \in Seq(S), NEW d \in Seq(S), NEW e \in Seq(S)
  PROVE  SplitsOff(f, a, b, c, d, e)
<1>1. /\ Cat(a, b) \in Seq(S)
      /\ Cat(Cat(a, b), c) \in Seq(S)
      /\ Cat(Cat(Cat(a, b), c), d) \in Seq(S)
  BY CatClosed
<1>2. Cat(Cat(Cat(Cat(Cat(f, a), b), c), d), e)
        = Cat(f, Cat(Cat(Cat(Cat(a, b), c), d), e))
  BY <1>1, CatAssoc
<1>3. Cat(<<>>, a) = a
  BY ConcatEmptySeq DEF Cat
<1>4. Cat(Cat(Cat(Cat(Cat(f, a), b), c), d), e)
        = Cat(f, Cat(Cat(Cat(Cat(Cat(<<>>, a), b), c), d), e))
  BY <1>2, <1>3
<1> QED
  BY <1>4 DEF Cat, SplitsOff

-----------------------------------------------------------------------------
(* Runs. *)

\* A concatenation is a run exactly if its parts are, one after the other.
LEMMA RunConcat ==
  ASSUME NEW s \in Seq(Nat), NEW t \in Seq(Nat), NEW a \in Int
  PROVE  IsRun(s \o t, a) <=> IsRun(s, a) /\ IsRun(t, a + Len(s))
<1>1. Len(s) \in Nat /\ Len(t) \in Nat
  BY LenProperties
<1>2. /\ Len(s \o t) = Len(s) + Len(t)
      /\ \A i \in 1..(Len(s) + Len(t)) :
           (s \o t)[i] = IF i <= Len(s) THEN s[i] ELSE t[i - Len(s)]
  BY ConcatProperties, Zenon
<1>3. ASSUME IsRun(s \o t, a)
      PROVE  IsRun(s, a) /\ IsRun(t, a + Len(s))
  <2>1. ASSUME NEW i \in 1..Len(s) PROVE s[i] = a + i
    <3>1. (s \o t)[i] = a + i
      BY <1>1, <1>2, <1>3 DEF IsRun
    <3>2. (s \o t)[i] = s[i]
      BY <1>1, <1>2
    <3> QED
      BY <3>1, <3>2
  <2>2. ASSUME NEW i \in 1..Len(t) PROVE t[i] = (a + Len(s)) + i
    <3>1. (s \o t)[Len(s) + i] = a + (Len(s) + i)
      <4>1. Len(s) + i \in 1..Len(s \o t)
        BY <1>1, <1>2
      <4> QED
        BY <4>1, <1>3, Zenon DEF IsRun
    <3>2. (s \o t)[Len(s) + i] = t[i]
      <4>1. (Len(s) + i) - Len(s) = i /\ ~(Len(s) + i <= Len(s))
        BY <1>1
      <4> QED
        BY <4>1, <1>1, <1>2
    <3> QED
      BY <3>1, <3>2, <1>1
  <2> QED
    BY <2>1, <2>2 DEF IsRun
<1>4. ASSUME IsRun(s, a), IsRun(t, a + Len(s))
      PROVE  IsRun(s \o t, a)
  <2>1. ASSUME NEW i \in 1..(Len(s) + Len(t)) PROVE (s \o t)[i] = a + i
    <3>1. CASE i <= Len(s)
      BY <3>1, <1>1, <1>2, <1>4 DEF IsRun
    <3>2. CASE i > Len(s)
      <4>1. i - Len(s) \in 1..Len(t)
        BY <3>2, <1>1
      <4>2. t[i - Len(s)] = (a + Len(s)) + (i - Len(s))
        BY <4>1, <1>4 DEF IsRun
      <4> QED
        BY <3>2, <4>2, <1>1, <1>2
    <3> QED
      BY <3>1, <3>2, <1>1
  <2> QED
    BY <2>1, <1>2 DEF IsRun
<1> QED
  BY <1>3, <1>4

\* A run stays a run when the next frame is appended.
LEMMA RunAppend ==
  ASSUME NEW s \in Seq(Nat), NEW a \in Nat, IsRun(s, a)
  PROVE  /\ IsRun(Append(s, a + Len(s) + 1), a)
         /\ Len(Append(s, a + Len(s) + 1)) = Len(s) + 1
<1> DEFINE e == a + Len(s) + 1
<1>1. Len(s) \in Nat /\ e \in Nat
  BY LenProperties
<1>2. /\ Len(Append(s, e)) = Len(s) + 1
      /\ \A i \in 1..Len(s) : Append(s, e)[i] = s[i]
      /\ Append(s, e)[Len(s) + 1] = e
  BY <1>1, AppendProperties
<1>3. ASSUME NEW i \in 1..(Len(s) + 1) PROVE Append(s, e)[i] = a + i
  <2>1. CASE i = Len(s) + 1
    BY <2>1, <1>1, <1>2
  <2>2. CASE i # Len(s) + 1
    <3>1. i \in 1..Len(s)
      BY <2>2, <1>1
    <3> QED
      BY <3>1, <1>2 DEF IsRun
  <2> QED
    BY <2>1, <2>2
<1> HIDE DEF e
<1>4. IsRun(Append(s, e), a)
  BY <1>2, <1>3 DEF IsRun
<1> QED
  BY <1>2, <1>4 DEF e

-----------------------------------------------------------------------------
(* Partitions. *)

\* A partition stays one when a submap of the frames that follow is appended.
LEMMA PartitionAppend ==
  ASSUME NEW m \in Seq(Seq(Nat)), NEW s \in Seq(Nat), s # <<>>,
         IsPartition(m), LastFrame(m) \in Nat, IsRun(s, LastFrame(m))
  PROVE  /\ IsPartition(Append(m, s))
         /\ LastFrame(Append(m, s)) = LastFrame(m) + Len(s)
<1> DEFINE n == Append(m, s)
<1>1. Len(m) \in Nat /\ Len(s) \in Nat /\ Len(s) > 0
  BY LenProperties, EmptySeq
<1>2. /\ Len(n) = Len(m) + 1
      /\ \A i \in 1..Len(m) : n[i] = m[i]
      /\ n[Len(m) + 1] = s
  BY AppendProperties
<1> HIDE DEF n
<1>3. \A i \in 0..Len(m) : EndOf(n, i) = EndOf(m, i)
  BY <1>1, <1>2 DEF EndOf
<1>4. ASSUME NEW i \in 1..Len(n)
      PROVE  n[i] # <<>> /\ IsRun(n[i], EndOf(n, i - 1))
  <2>1. CASE i = Len(m) + 1
    <3>1. EndOf(n, i - 1) = LastFrame(m)
      BY <2>1, <1>1, <1>3 DEF LastFrame
    <3> QED
      BY <2>1, <3>1, <1>2
  <2>2. CASE i # Len(m) + 1
    <3>1. i \in 1..Len(m) /\ i - 1 \in 0..Len(m)
      BY <2>2, <1>1, <1>2
    <3>2. m[i] # <<>> /\ IsRun(m[i], EndOf(m, i - 1))
      BY <3>1 DEF IsPartition
    <3> QED
      BY <3>1, <3>2, <1>2, <1>3
  <2> QED
    BY <2>1, <2>2
<1>5. LastFrame(n) = s[Len(s)]
  BY <1>1, <1>2 DEF LastFrame, EndOf
<1>6. s[Len(s)] = LastFrame(m) + Len(s)
  BY <1>1 DEF IsRun
<1>7. IsPartition(n) /\ LastFrame(n) = LastFrame(m) + Len(s)
  BY <1>4, <1>5, <1>6 DEF IsPartition
<1> QED
  BY <1>7 DEF n
=============================================================================
