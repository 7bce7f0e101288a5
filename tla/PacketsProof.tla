---------------------------- MODULE PacketsProof ----------------------------
(***************************************************************************)
(* Theorems about Packets for any packets that are read as they were sent   *)
(* when each comes alone: any number of them, concatenated and split over   *)
(* the messages of a connection in any way, are read so too.                *)
(***************************************************************************)
EXTENDS Packets, FiniteSetTheorems, WellFoundedInduction, TLAPS

-----------------------------------------------------------------------------
(* Numbers and sequences                                                    *)

\* Numbers are well-founded.
LEMMA LeastOf ==
  ASSUME NEW I \in SUBSET Nat, I # {}
  PROVE  \E x \in I : \A y \in I : x <= y
<1> DEFINE less == OpToRel(<, Nat)
<1>1. \A x, y \in Nat : x < y => <<x, y>> \in less
  BY DEF OpToRel
<1>2. IsWellFoundedOn(less, Nat)
  BY NatLessThanWellFounded
<1> HIDE DEF less
<1>3. PICK x \in I : \A y \in I : ~(<<y, x>> \in less)
  BY <1>2, WFMin
<1>4. ASSUME NEW y \in I PROVE x <= y
  <2>1. x \in Nat /\ y \in Nat /\ ~(y < x)
    BY <1>1, <1>3
  <2>2. QED
    BY <2>1
<1>5. QED
  BY <1>4

\* Sequences with the same entries are the same.
LEMMA SameEntries ==
  ASSUME NEW L, NEW a \in Seq(L), NEW b \in Seq(L), Len(a) = Len(b),
         \A k \in 1 .. Len(a) : a[k] = b[k]
  PROVE  a = b
OBVIOUS

\* Parts of a sequence, entry by entry.
LEMMA PartIs ==
  ASSUME NEW L, NEW d \in Seq(L), NEW i \in 1 .. Len(d) + 1, NEW j \in i - 1 .. Len(d)
  PROVE  /\ SubSeq(d, i, j) \in Seq(L) /\ Len(SubSeq(d, i, j)) = j - i + 1
         /\ \A k \in 1 .. j - i + 1 : SubSeq(d, i, j)[k] = d[i + k - 1]
<1>1. Len(d) \in Nat /\ i \in Nat /\ j \in Nat
  OBVIOUS
<1>2. QED
  BY <1>1

\* The part behind a place.
LEMMA PartAfter ==
  ASSUME NEW L, NEW d \in Seq(L), NEW i \in 0 .. Len(d), NEW j \in i .. Len(d)
  PROVE  /\ SubSeq(d, i + 1, j) \in Seq(L) /\ Len(SubSeq(d, i + 1, j)) = j - i
         /\ \A k \in 1 .. j - i : SubSeq(d, i + 1, j)[k] = d[i + k]
<1> DEFINE a == SubSeq(d, i + 1, j)
<1>1. /\ Len(d) \in Nat /\ i \in Nat /\ j \in Nat /\ i <= j
      /\ i + 1 \in 1 .. Len(d) + 1 /\ j \in (i + 1) - 1 .. Len(d)
  OBVIOUS
<1>2. a \in Seq(L) /\ Len(a) = j - (i + 1) + 1
      /\ \A k \in 1 .. j - (i + 1) + 1 : a[k] = d[(i + 1) + k - 1]
  BY <1>1, PartIs
<1> HIDE DEF a
<1>3. j - (i + 1) + 1 = j - i /\ \A k \in 1 .. j - i : (i + 1) + k - 1 = i + k
  BY <1>1
<1>4. QED
  BY <1>2, <1>3 DEF a

\* A function by recursion on a number exists, and is what its recursion says.
LEMMA LoopUnfolds ==
  ASSUME NEW b, Len(b) \in Nat
  PROVE  /\ Loop(b)[0] = [rest |-> b, packets |-> <<>>]
         /\ \A n \in 1 .. Len(b) : Loop(b)[n] = Round(Loop(b)[n - 1])
<1> DEFINE first == [rest |-> b, packets |-> <<>>]
           Unfolds(g, m) == g = [n \in 0 .. m |-> IF n = 0 THEN first ELSE Round(g[n - 1])]
           stuck == {m \in Nat : ~ \E g : Unfolds(g, m)}
<1> HIDE DEF first
<1>1. stuck = {}
  <2>1. SUFFICES ASSUME stuck # {} PROVE FALSE
    OBVIOUS
  <2>2. PICK m \in stuck : \A y \in stuck : m <= y
    BY <2>1, LeastOf
  <2>3. CASE m = 0
    <3>1. Unfolds([n \in 0 .. 0 |-> first], 0)
      OBVIOUS
    <3>2. QED
      BY <2>2, <2>3, <3>1
  <2>4. CASE m # 0
    <3>1. m - 1 \in Nat /\ m - 1 \notin stuck
      <4>1. m \in Nat
        BY <2>2
      <4> HIDE DEF stuck
      <4>2. m - 1 \in Nat /\ ~(m <= m - 1)
        BY <2>4, <4>1
      <4>3. QED
        BY <2>2, <4>2
    <3>2. PICK g : Unfolds(g, m - 1)
      BY <3>1
    <3> DEFINE h == [n \in 0 .. m |-> IF n < m THEN g[n] ELSE Round(g[m - 1])]
    <3>3. ASSUME NEW n \in 0 .. m PROVE h[n] = IF n = 0 THEN first ELSE Round(h[n - 1])
      <4>1. n # 0 => n - 1 \in 0 .. m - 1 /\ h[n - 1] = g[n - 1]
        BY <2>2
      <4>2. n < m => n \in 0 .. m - 1 /\ h[n] = g[n]
        BY <2>2
      <4>3. n < m => g[n] = IF n = 0 THEN first ELSE Round(g[n - 1])
        BY <3>2, <4>2
      <4>4. ~(n < m) => n = m /\ h[n] = Round(g[m - 1])
        BY <2>2
      <4>5. QED
        BY <2>4, <4>1, <4>2, <4>3, <4>4
    <3>4. Unfolds(h, m)
      BY <3>3
    <3>5. QED
      BY <2>2, <3>4
  <2>5. QED
    BY <2>3, <2>4
<1>2. \E g : Unfolds(g, Len(b))
  BY <1>1
<1>3. Loop(b) = CHOOSE g : Unfolds(g, Len(b))
  BY DEF Loop, first
<1>4. Unfolds(Loop(b), Len(b))
  BY <1>2, <1>3
<1>5. QED
  BY <1>4 DEF first

\* Flattening, likewise.
LEMMA FlattenUnfolds ==
  ASSUME NEW q, Len(q) \in Nat
  PROVE  \E g : /\ \A i \in 1 .. Len(q) : g[i] = IF i = 1 THEN q[i] ELSE g[i - 1] \o q[i]
                /\ Len(q) # 0 => FlattenSeq(q) = g[Len(q)]
<1> DEFINE Unfolds(g, m) == g = [i \in 1 .. m |-> IF i = 1 THEN q[i] ELSE g[i - 1] \o q[i]]
           stuck == {m \in Nat : ~ \E g : Unfolds(g, m)}
<1>1. stuck = {}
  <2>1. SUFFICES ASSUME stuck # {} PROVE FALSE
    OBVIOUS
  <2>2. PICK m \in stuck : \A y \in stuck : m <= y
    BY <2>1, LeastOf
  <2>3. CASE m = 0
    <3>1. Unfolds([i \in 1 .. 0 |-> q], 0)
      OBVIOUS
    <3>2. QED
      BY <2>2, <2>3, <3>1
  <2>4. CASE m # 0
    <3>1. m - 1 \in Nat /\ m - 1 \notin stuck
      <4>1. m \in Nat
        BY <2>2
      <4> HIDE DEF stuck
      <4>2. m - 1 \in Nat /\ ~(m <= m - 1)
        BY <2>4, <4>1
      <4>3. QED
        BY <2>2, <4>2
    <3>2. PICK g : Unfolds(g, m - 1)
      BY <3>1
    <3> DEFINE last == IF m = 1 THEN q[m] ELSE g[m - 1] \o q[m]
               h == [i \in 1 .. m |-> IF i < m THEN g[i] ELSE last]
    <3>3. ASSUME NEW i \in 1 .. m PROVE h[i] = IF i = 1 THEN q[i] ELSE h[i - 1] \o q[i]
      <4>1. i # 1 => i - 1 \in 1 .. m - 1 /\ h[i - 1] = g[i - 1]
        BY <2>2
      <4>2. i < m => i \in 1 .. m - 1 /\ h[i] = g[i]
        BY <2>2
      <4>3. i < m => g[i] = IF i = 1 THEN q[i] ELSE g[i - 1] \o q[i]
        BY <3>2, <4>2
      <4>4. ~(i < m) => i = m /\ h[i] = last
        BY <2>2
      <4>5. QED
        BY <2>4, <4>1, <4>2, <4>3, <4>4
    <3>4. Unfolds(h, m)
      BY <3>3
    <3>5. QED
      BY <2>2, <3>4
  <2>5. QED
    BY <2>3, <2>4
<1> DEFINE f == CHOOSE g : Unfolds(g, Len(q))
<1>2. \E g : Unfolds(g, Len(q))
  BY <1>1
<1>3. Unfolds(f, Len(q))
  BY <1>2
<1>4. Len(q) # 0 => FlattenSeq(q) = f[Len(q)]
  BY DEF FlattenSeq
<1> HIDE DEF f
<1>5. \A i \in 1 .. Len(q) : f[i] = IF i = 1 THEN q[i] ELSE f[i - 1] \o q[i]
  BY <1>3
<1>6. QED
  BY <1>4, <1>5

\* The last sequence comes after the others.
LEMMA FlattenAppend ==
  ASSUME NEW L, NEW q \in Seq(Seq(L)), NEW w \in Seq(L)
  PROVE  FlattenSeq(Append(q, w)) = IF q = <<>> THEN w ELSE FlattenSeq(q) \o w
<1> DEFINE r == Append(q, w)
<1>1. Len(q) \in Nat /\ Len(r) = Len(q) + 1 /\ r[Len(q) + 1] = w
      /\ \A i \in 1 .. Len(q) : r[i] = q[i]
  OBVIOUS
<1> HIDE DEF r
<1>2. PICK g : /\ \A i \in 1 .. Len(q) : g[i] = IF i = 1 THEN q[i] ELSE g[i - 1] \o q[i]
               /\ Len(q) # 0 => FlattenSeq(q) = g[Len(q)]
  BY <1>1, FlattenUnfolds
<1>3. PICK h : /\ \A i \in 1 .. Len(r) : h[i] = IF i = 1 THEN r[i] ELSE h[i - 1] \o r[i]
               /\ Len(r) # 0 => FlattenSeq(r) = h[Len(r)]
  <2>1. Len(r) \in Nat
    BY <1>1
  <2>2. QED
    BY <2>1, FlattenUnfolds
<1> DEFINE bad == {i \in 1 .. Len(q) : g[i] # h[i]}
<1>4. bad = {}
  <2>1. SUFFICES ASSUME bad # {} PROVE FALSE
    OBVIOUS
  <2>2. bad \in SUBSET Nat
    OBVIOUS
  <2>3. PICK i \in bad : \A y \in bad : i <= y
    <3> HIDE DEF bad
    <3>1. QED
      BY <2>1, <2>2, LeastOf
  <2>4. i \in 1 .. Len(q) /\ i \in 1 .. Len(r)
    BY <1>1
  <2>5. i # 1 => g[i - 1] = h[i - 1]
    <3>1. i # 1 => i - 1 \in 1 .. Len(q) /\ ~(i <= i - 1)
      BY <1>1
    <3>2. i # 1 => i - 1 \notin bad
      BY <2>3, <3>1
    <3>3. QED
      BY <3>1, <3>2
  <2>6. g[i] = h[i]
    BY <1>1, <1>2, <1>3, <2>4, <2>5
  <2>7. QED
    BY <2>6
<1>5. CASE q = <<>>
  <2>1. Len(q) = 0 /\ Len(r) = 1
    BY <1>1, <1>5
  <2>2. FlattenSeq(r) = r[1]
    BY <1>3, <2>1
  <2>3. QED
    BY <1>1, <1>5, <2>1, <2>2 DEF r
<1>6. CASE q # <<>>
  <2>1. Len(q) # 0 /\ Len(q) \in 1 .. Len(q) /\ Len(r) # 0 /\ Len(r) # 1 /\ Len(r) \in 1 .. Len(r)
    BY <1>1, <1>6
  <2>2. FlattenSeq(r) = h[Len(r)] /\ h[Len(r)] = h[Len(r) - 1] \o r[Len(r)]
    BY <1>3, <2>1
  <2>3. Len(r) - 1 = Len(q) /\ r[Len(r)] = w
    BY <1>1
  <2>4. h[Len(q)] = FlattenSeq(q)
    BY <1>2, <1>4, <2>1
  <2>5. QED
    BY <1>6, <2>2, <2>3, <2>4 DEF r
<1>7. QED
  BY <1>5, <1>6

-----------------------------------------------------------------------------
(* What is sent                                                             *)

\* A packet on the wire has a type and a length at least.
LEMMA WireIs ==
  ASSUME NEW p \in Kinds
  PROVE  Wire(p) \in Seq(Nat) /\ Len(Wire(p)) \in Nat /\ Len(Wire(p)) >= 2
<1>1. Wire(p) \in Seq(Nat) /\ LengthEnds(Wire(p)) # {}
  BY KindsAssumption DEF ReadAlone, Whole
<1>2. PICK i \in LengthEnds(Wire(p)) : TRUE
  BY <1>1
<1>3. i \in 2 .. 4 /\ i <= Len(Wire(p)) /\ Len(Wire(p)) \in Nat
  BY <1>1 DEF LengthEnds
<1>4. QED
  BY <1>1, <1>3

LEMMA NoneIsNothing == WireOf(<<>>) = <<>>
<1> DEFINE e == [i \in DOMAIN <<>> |-> Wire(<<>>[i])]
<1>1. e = <<>>
  OBVIOUS
<1>2. WireOf(<<>>) = FlattenSeq(e)
  BY DEF WireOf
<1>3. FlattenSeq(<<>>) = <<>>
  <2>1. Len(<<>>) = 0
    OBVIOUS
  <2>2. QED
    BY <2>1 DEF FlattenSeq
<1> HIDE DEF e
<1>4. QED
  BY <1>1, <1>2, <1>3

\* One packet more is that packet's bytes more.
LEMMA WireAppend ==
  ASSUME NEW s \in Seq(Kinds), NEW p \in Kinds, WireOf(s) \in Seq(Nat)
  PROVE  /\ WireOf(<<>>) = <<>>
         /\ WireOf(Append(s, p)) = WireOf(s) \o Wire(p)
<1> DEFINE q == [i \in DOMAIN s |-> Wire(s[i])]
           r == [i \in DOMAIN Append(s, p) |-> Wire(Append(s, p)[i])]
<1>1. WireOf(<<>>) = <<>>
  BY NoneIsNothing
<1>2. q \in Seq(Seq(Nat)) /\ Len(q) = Len(s)
  <2>1. \A i \in DOMAIN s : Wire(s[i]) \in Seq(Nat)
    BY WireIs
  <2>2. DOMAIN s = 1 .. Len(s) /\ Len(s) \in Nat
    OBVIOUS
  <2>3. QED
    BY <2>1, <2>2
<1>3. r = Append(q, Wire(p))
  <2>1. Wire(p) \in Seq(Nat)
    BY WireIs
  <2>2. DOMAIN Append(s, p) = 1 .. Len(s) + 1 /\ Len(s) \in Nat
    OBVIOUS
  <2>3. Append(q, Wire(p)) \in Seq(Seq(Nat)) /\ Len(Append(q, Wire(p))) = Len(s) + 1
    <3> HIDE DEF q
    <3>1. QED
      BY <1>2, <2>1
  <2>5. r \in Seq(Seq(Nat)) /\ Len(r) = Len(s) + 1
    <3> DEFINE a == Append(s, p)
    <3>1. a \in Seq(Kinds) /\ DOMAIN a = 1 .. Len(s) + 1
      BY <2>2
    <3> HIDE DEF a
    <3>2. \A i \in 1 .. Len(s) + 1 : a[i] \in Kinds
      BY <3>1
    <3>3. [i \in DOMAIN a |-> Wire(a[i])] \in [1 .. Len(s) + 1 -> Seq(Nat)]
      BY <3>1, <3>2, WireIs
    <3>4. r \in [1 .. Len(s) + 1 -> Seq(Nat)] /\ Len(s) + 1 \in Nat
      BY <2>2, <3>3 DEF a
    <3> HIDE DEF r
    <3>5. QED
      BY <3>4
  <2>4. ASSUME NEW i \in 1 .. Len(s) + 1 PROVE r[i] = Append(q, Wire(p))[i]
    <3>1. CASE i = Len(s) + 1
      BY <1>2, <2>1, <2>2, <3>1
    <3>2. CASE i # Len(s) + 1
      <4>1. i \in 1 .. Len(s)
        BY <2>2, <3>2
      <4>2. Append(s, p)[i] = s[i] /\ Append(q, Wire(p))[i] = q[i]
        BY <1>2, <2>1, <4>1
      <4>3. QED
        BY <2>2, <4>1, <4>2
    <3>3. QED
      BY <3>1, <3>2
  <2>6. QED
    <3> DEFINE z == Append(q, Wire(p))
    <3>1. \A i \in 1 .. Len(r) : r[i] = z[i]
      BY <2>4, <2>5
    <3>2. z \in Seq(Seq(Nat)) /\ Len(z) = Len(s) + 1
      BY <2>3
    <3> HIDE DEF r, z
    <3>3. r = z
      BY <2>5, <3>1, <3>2, SameEntries
    <3>4. QED
      BY <3>3 DEF z
<1>4. WireOf(Append(s, p)) = FlattenSeq(r) /\ WireOf(s) = FlattenSeq(q)
  BY DEF WireOf
<1>5. Wire(p) \in Seq(Nat)
  BY WireIs
<1> HIDE DEF q, r
<1>6. FlattenSeq(r) = IF q = <<>> THEN Wire(p) ELSE FlattenSeq(q) \o Wire(p)
  BY <1>2, <1>3, <1>5, FlattenAppend
<1>7. q = <<>> => WireOf(s) = <<>>
  <2>1. q = <<>> => Len(q) = 0
    OBVIOUS
  <2>2. QED
    BY <1>4, <2>1 DEF FlattenSeq
<1>8. <<>> \o Wire(p) = Wire(p)
  BY <1>5
<1>9. QED
  BY <1>1, <1>4, <1>6, <1>7, <1>8

LEMMA WireTyped == \A s \in Seq(Kinds) : WireOf(s) \in Seq(Nat)
<1> DEFINE bad == {m \in Nat : \E s \in Seq(Kinds) : Len(s) = m /\ WireOf(s) \notin Seq(Nat)}
<1>1. bad = {}
  <2>1. SUFFICES ASSUME bad # {} PROVE FALSE
    OBVIOUS
  <2>2. PICK m \in bad : \A y \in bad : m <= y
    BY <2>1, LeastOf
  <2>3. PICK s \in Seq(Kinds) : Len(s) = m /\ WireOf(s) \notin Seq(Nat)
    BY <2>2
  <2>4. CASE s = <<>>
    <3>1. <<>> \in Seq(Nat)
      OBVIOUS
    <3>2. QED
      BY <2>3, <2>4, <3>1, NoneIsNothing
  <2>5. CASE s # <<>>
    <3> DEFINE u == SubSeq(s, 1, m - 1)
    <3>1. m \in Nat /\ m >= 1 /\ m - 1 \in Nat
      BY <2>3, <2>5
    <3>2. u \in Seq(Kinds) /\ Len(u) = m - 1 /\ s[m] \in Kinds
      BY <2>3, <3>1
    <3>3. s = Append(u, s[m])
      BY <2>3, <3>1
    <3> HIDE DEF u
    <3>4. WireOf(u) \in Seq(Nat)
      <4>1. ~(m <= m - 1)
        BY <3>1
      <4>2. m - 1 \notin bad
        BY <2>2, <4>1
      <4>3. QED
        BY <3>1, <3>2, <4>2
    <3>5. WireOf(s) = WireOf(u) \o Wire(s[m])
      BY <3>2, <3>3, <3>4, WireAppend
    <3>6. QED
      BY <2>3, <3>2, <3>4, <3>5, WireIs
  <2>6. QED
    BY <2>4, <2>5
<1>2. QED
  BY <1>1

\* The bytes of the first packets.
First(s, i) == WireOf(SubSeq(s, 1, i))
Off(s, i)   == Len(First(s, i))

LEMMA FirstIs ==
  ASSUME NEW s \in Seq(Kinds)
  PROVE  /\ First(s, 0) = <<>> /\ Off(s, 0) = 0 /\ First(s, Len(s)) = WireOf(s)
         /\ \A i \in 0 .. Len(s) : First(s, i) \in Seq(Nat) /\ Off(s, i) \in Nat
         /\ \A i \in 0 .. Len(s) - 1 : First(s, i + 1) = First(s, i) \o Wire(s[i + 1])
<1>1. Len(s) \in Nat
  OBVIOUS
<1>2. \A i \in 0 .. Len(s) : SubSeq(s, 1, i) \in Seq(Kinds) /\ Len(SubSeq(s, 1, i)) = i
  BY <1>1
<1>3. ASSUME NEW i \in 0 .. Len(s) PROVE First(s, i) \in Seq(Nat) /\ Off(s, i) \in Nat
  <2>1. First(s, i) \in Seq(Nat)
    BY <1>2, WireTyped DEF First
  <2>2. QED
    BY <2>1 DEF Off
<1>4. ASSUME NEW i \in 0 .. Len(s) - 1 PROVE First(s, i + 1) = First(s, i) \o Wire(s[i + 1])
  <2>1. i + 1 \in 1 .. Len(s) /\ i \in 0 .. Len(s)
    BY <1>1
  <2>2. SubSeq(s, 1, i + 1) = Append(SubSeq(s, 1, i), s[i + 1])
    <3> DEFINE a == SubSeq(s, 1, i + 1)
               u == SubSeq(s, 1, i)
               b == Append(u, s[i + 1])
    <3>1. a \in Seq(Kinds) /\ Len(a) = i + 1 /\ \A k \in 1 .. i + 1 : a[k] = s[k]
      BY <1>1, <2>1
    <3>2. u \in Seq(Kinds) /\ Len(u) = i /\ \A k \in 1 .. i : u[k] = s[k]
      BY <1>1, <2>1
    <3>3. s[i + 1] \in Kinds
      BY <2>1
    <3> HIDE DEF a, u
    <3>4. b \in Seq(Kinds) /\ Len(b) = i + 1 /\ b[i + 1] = s[i + 1]
          /\ \A k \in 1 .. i : b[k] = u[k]
      BY <3>2, <3>3
    <3> HIDE DEF b
    <3>5. \A k \in 1 .. Len(a) : a[k] = b[k]
      BY <2>1, <3>1, <3>2, <3>4
    <3>6. a = b
      BY <3>1, <3>4, <3>5, SameEntries
    <3>7. QED
      BY <3>6 DEF a, b, u
  <2>3. s[i + 1] \in Kinds
    BY <2>1
  <2>4. QED
    BY <1>2, <1>3, <2>1, <2>2, <2>3, WireAppend DEF First
<1>5. SubSeq(s, 1, Len(s)) = s
  BY <1>1
<1>6. SubSeq(s, 1, 0) = <<>> /\ WireOf(<<>>) = <<>>
  <2>1. SubSeq(s, 1, 0) \in Seq(Kinds) /\ Len(SubSeq(s, 1, 0)) = 0
    BY <1>1, <1>2
  <2>2. SubSeq(s, 1, 0) = <<>>
    BY <2>1
  <2>3. QED
    BY <2>2, NoneIsNothing
<1>7. First(s, 0) = <<>> /\ Off(s, 0) = 0
  <2>1. Len(<<>>) = 0
    OBVIOUS
  <2>2. QED
    BY <1>6, <2>1 DEF First, Off
<1>8. First(s, Len(s)) = WireOf(s)
  BY <1>5 DEF First
<1>9. QED
  BY <1>3, <1>4, <1>7, <1>8

\* What was sent before a packet stays in front, and every packet adds to it.
LEMMA Grows ==
  ASSUME NEW s \in Seq(Kinds), NEW i \in 0 .. Len(s), NEW m \in i .. Len(s)
  PROVE  /\ Off(s, i) + (m - i) <= Off(s, m)
         /\ \A j \in 1 .. Off(s, i) : First(s, m)[j] = First(s, i)[j]
<1> DEFINE Good(k) == /\ Off(s, i) + (k - i) <= Off(s, k)
                      /\ \A j \in 1 .. Off(s, i) : First(s, k)[j] = First(s, i)[j]
           bad == {k \in i .. Len(s) : ~Good(k)}
<1>1. Len(s) \in Nat /\ i \in Nat
  OBVIOUS
<1>2. bad = {}
  <2>1. SUFFICES ASSUME bad # {} PROVE FALSE
    OBVIOUS
  <2>2. bad \in SUBSET Nat
    BY <1>1
  <2>3. PICK k \in bad : \A y \in bad : k <= y
    <3> HIDE DEF bad
    <3>1. QED
      BY <2>1, <2>2, LeastOf
  <2>4. k \in i .. Len(s) /\ k \in Nat
    BY <1>1
  <2>5. CASE k = i
    <3>1. Off(s, i) \in Nat
      BY FirstIs
    <3>2. Good(i)
      BY <1>1, <3>1
    <3>3. QED
      BY <2>5, <3>2
  <2>6. CASE k # i
    <3>1. k - 1 \in i .. Len(s) /\ k - 1 \in 0 .. Len(s) - 1 /\ ~(k <= k - 1) /\ (k - 1) + 1 = k
      BY <1>1, <2>4, <2>6
    <3>2. Good(k - 1)
      BY <2>3, <3>1
    <3>3. First(s, k) = First(s, k - 1) \o Wire(s[k])
      BY <3>1, FirstIs
    <3>4. s[k] \in Kinds
      BY <2>4, <3>1
    <3>5. First(s, k - 1) \in Seq(Nat) /\ Off(s, k - 1) \in Nat /\ Off(s, i) \in Nat
      BY <1>1, <3>1, FirstIs
    <3>6. Wire(s[k]) \in Seq(Nat) /\ Len(Wire(s[k])) \in Nat /\ Len(Wire(s[k])) >= 2
      BY <3>4, WireIs
    <3>7. /\ Off(s, k) = Off(s, k - 1) + Len(Wire(s[k]))
          /\ \A j \in 1 .. Off(s, k - 1) : First(s, k)[j] = First(s, k - 1)[j]
      BY <3>3, <3>5, <3>6 DEF Off
    <3>8. Off(s, i) <= Off(s, k - 1) /\ Off(s, i) + (k - i) <= Off(s, k)
      <4>1. k \in Nat /\ k - 1 \in Nat /\ k - 1 >= i /\ Len(Wire(s[k])) >= 1
        BY <1>1, <2>4, <3>1, <3>6
      <4>2. Off(s, i) + ((k - 1) - i) <= Off(s, k - 1)
        BY <3>2
      <4>3. Off(s, i) <= Off(s, k - 1)
        BY <1>1, <3>5, <4>1, <4>2
      <4> DEFINE o == Off(s, k - 1)
                 e == Off(s, k)
                 c == Off(s, i)
                 l == Len(Wire(s[k]))
      <4>4. o \in Nat /\ c \in Nat /\ l \in Nat /\ l >= 1 /\ e = o + l /\ c + ((k - 1) - i) <= o
        BY <3>5, <3>6, <3>7, <4>1, <4>2
      <4> HIDE DEF o, e, c, l
      <4>5. c + (k - i) <= e
        BY <1>1, <4>1, <4>4
      <4>6. QED
        BY <4>3, <4>5 DEF c, e
    <3>9. \A j \in 1 .. Off(s, i) : First(s, k)[j] = First(s, i)[j]
      BY <3>2, <3>5, <3>7, <3>8
    <3>10. QED
      BY <2>3, <3>8, <3>9
  <2>7. QED
    BY <2>5, <2>6
<1>3. QED
  BY <1>2

\* What is seen of packets.
SeenKinds == {Seen(p) : p \in Kinds}

LEMMA ShownIs ==
  ASSUME NEW s \in Seq(Kinds)
  PROVE  /\ Shown(s) \in Seq(SeenKinds) /\ Len(Shown(s)) = Len(s)
         /\ \A i \in 1 .. Len(s) : Shown(s)[i] = Seen(s[i])
<1>1. Len(s) \in Nat /\ DOMAIN s = 1 .. Len(s) /\ \A i \in 1 .. Len(s) : s[i] \in Kinds
  OBVIOUS
<1>2. Shown(s) = [i \in 1 .. Len(s) |-> Seen(s[i])]
  BY <1>1 DEF Shown
<1>3. Shown(s) \in [1 .. Len(s) -> SeenKinds]
  BY <1>1, <1>2 DEF SeenKinds
<1>4. \A i \in 1 .. Len(s) : Shown(s)[i] = Seen(s[i])
  BY <1>2
<1>5. QED
  BY <1>1, <1>3, <1>4

\* Where each packet is in what is sent.
LEMMA PacketIsThere ==
  ASSUME NEW s \in Seq(Kinds), NEW i \in 0 .. Len(s) - 1
  PROVE  LET w == Wire(s[i + 1])
         IN  /\ Off(s, i + 1) = Off(s, i) + Len(w) /\ Off(s, i + 1) <= Len(WireOf(s))
             /\ \A j \in 1 .. Len(w) : WireOf(s)[Off(s, i) + j] = w[j]
<1> DEFINE w == Wire(s[i + 1])
<1>1. Len(s) \in Nat /\ i \in 0 .. Len(s) /\ i + 1 \in 0 .. Len(s) /\ Len(s) \in i + 1 .. Len(s)
      /\ i + 1 \in 1 .. Len(s)
  OBVIOUS
<1>2. s[i + 1] \in Kinds
  BY <1>1
<1>3. w \in Seq(Nat) /\ Len(w) \in Nat
  BY <1>2, WireIs
<1>4. /\ First(s, i) \in Seq(Nat) /\ Off(s, i) \in Nat /\ Off(s, i + 1) \in Nat
      /\ First(s, i + 1) = First(s, i) \o w
      /\ First(s, Len(s)) = WireOf(s)
  BY <1>1, FirstIs
<1> HIDE DEF w
<1>5. /\ Off(s, i + 1) = Off(s, i) + Len(w)
      /\ \A j \in 1 .. Len(w) : First(s, i + 1)[Off(s, i) + j] = w[j]
  BY <1>3, <1>4 DEF Off
<1>6. /\ Off(s, i + 1) + (Len(s) - (i + 1)) <= Off(s, Len(s))
      /\ \A j \in 1 .. Off(s, i + 1) : WireOf(s)[j] = First(s, i + 1)[j]
  BY <1>1, <1>4, Grows
<1>7. Off(s, i + 1) <= Len(WireOf(s))
  <2>1. Off(s, Len(s)) = Len(WireOf(s)) /\ Off(s, Len(s)) \in Nat
    BY <1>1, <1>4, FirstIs DEF Off
  <2>2. QED
    BY <1>1, <1>4, <1>6, <2>1
<1>8. ASSUME NEW j \in 1 .. Len(w) PROVE WireOf(s)[Off(s, i) + j] = w[j]
  <2>1. Off(s, i) + j \in 1 .. Off(s, i + 1)
    BY <1>3, <1>4, <1>5
  <2>2. QED
    BY <1>5, <1>6, <2>1
<1>9. QED
  BY <1>5, <1>7, <1>8 DEF w

-----------------------------------------------------------------------------
(* What is read                                                             *)

\* The length of a packet ends at the first byte that says so.
LEMMA EndIs ==
  ASSUME NEW b, LengthEnds(b) # {}
  PROVE  LengthEnd(b) \in LengthEnds(b) /\ \A j \in LengthEnds(b) : LengthEnd(b) <= j
<1>1. LengthEnds(b) \in SUBSET Nat
  BY DEF LengthEnds
<1>2. PICK x \in LengthEnds(b) : \A y \in LengthEnds(b) : x <= y
  BY <1>1, LeastOf
<1>3. QED
  BY <1>2 DEF LengthEnd

\* A packet in front of other bytes is read as if it were alone.
LEMMA ReadInFront ==
  ASSUME NEW p \in Kinds, NEW b \in Seq(Nat), Len(Wire(p)) <= Len(b),
         \A j \in 1 .. Len(Wire(p)) : b[j] = Wire(p)[j]
  PROVE  Whole(b) /\ Readable(b) /\ Total(b) = Len(Wire(p)) /\ Packet(b) = Seen(p)
<1> DEFINE w == Wire(p)
           e == LengthEnd(w)
<1>1. /\ w \in Seq(Nat) /\ Len(w) \in Nat /\ Len(b) \in Nat /\ Len(w) <= Len(b)
      /\ \A j \in 1 .. Len(w) : b[j] = w[j]
  BY WireIs
<1>2. LengthEnds(w) # {} /\ Readable(w) /\ Total(w) = Len(w) /\ Packet(w) = Seen(p)
  BY KindsAssumption DEF ReadAlone, Whole
<1> HIDE DEF w
<1>3. e \in LengthEnds(w) /\ \A j \in LengthEnds(w) : e <= j
  BY <1>2, EndIs
<1> HIDE DEF e
<1>4. e \in 2 .. 4 /\ e <= Len(w)
  BY <1>3 DEF LengthEnds
<1>5. e \in LengthEnds(b)
  BY <1>1, <1>3, <1>4 DEF LengthEnds
<1>6. ASSUME NEW j \in LengthEnds(b) PROVE e <= j
  <2>1. j \in 2 .. 4 /\ b[j] < Base
    BY DEF LengthEnds
  <2>2. CASE j <= Len(w)
    <3>1. j \in LengthEnds(w)
      BY <1>1, <2>1, <2>2 DEF LengthEnds
    <3>2. QED
      BY <1>3, <3>1
  <2>3. CASE ~(j <= Len(w))
    BY <1>1, <1>4, <2>1, <2>3
  <2>4. QED
    BY <2>2, <2>3
<1>7. LengthEnd(b) = e
  <2>1. LengthEnd(b) \in LengthEnds(b) /\ LengthEnd(b) <= e
    BY <1>5, EndIs
  <2>2. LengthEnd(b) \in Nat /\ e <= LengthEnd(b)
    BY <1>6, <2>1 DEF LengthEnds
  <2>3. QED
    BY <1>4, <2>1, <2>2
<1>8. b[1] = w[1] /\ b[2] = w[2] /\ (e > 2 => b[3] = w[3]) /\ (e > 3 => b[4] = w[4])
  BY <1>1, <1>4
<1>9. Remaining(b) = Remaining(w)
  BY <1>7, <1>8 DEF Remaining, e
<1>10. Total(b) = Len(w)
  BY <1>2, <1>7, <1>9 DEF Total, e
<1>11. Whole(b)
  BY <1>1, <1>5, <1>10 DEF Whole
<1>12. PacketBody(b) = PacketBody(w)
  <2>1. e + 1 \in 1 .. Len(w) + 1 /\ e + 1 \in 1 .. Len(b) + 1
        /\ Len(w) \in (e + 1) - 1 .. Len(w) /\ Len(w) \in (e + 1) - 1 .. Len(b)
    BY <1>1, <1>4
  <2>2. /\ SubSeq(w, e + 1, Len(w)) \in Seq(Nat)
        /\ Len(SubSeq(w, e + 1, Len(w))) = Len(w) - (e + 1) + 1
        /\ \A k \in 1 .. Len(w) - (e + 1) + 1 : SubSeq(w, e + 1, Len(w))[k] = w[(e + 1) + k - 1]
    BY <1>1, <2>1, PartIs
  <2>3. /\ SubSeq(b, e + 1, Len(w)) \in Seq(Nat)
        /\ Len(SubSeq(b, e + 1, Len(w))) = Len(w) - (e + 1) + 1
        /\ \A k \in 1 .. Len(w) - (e + 1) + 1 : SubSeq(b, e + 1, Len(w))[k] = b[(e + 1) + k - 1]
    BY <1>1, <2>1, PartIs
  <2>4. ASSUME NEW k \in 1 .. Len(w) - (e + 1) + 1
        PROVE  SubSeq(b, e + 1, Len(w))[k] = SubSeq(w, e + 1, Len(w))[k]
    <3>1. (e + 1) + k - 1 \in 1 .. Len(w)
      BY <1>1, <1>4
    <3>2. QED
      BY <1>1, <2>2, <2>3, <3>1
  <2>5. SubSeq(b, e + 1, Len(w)) = SubSeq(w, e + 1, Len(w))
    BY <2>2, <2>3, <2>4, SameEntries
  <2>6. QED
    BY <1>2, <1>7, <1>10, <2>5 DEF e, PacketBody
<1>13. Packet(b) = Packet(w)
  BY <1>8, <1>12 DEF Packet, PacketType, PacketQos
<1>14. Readable(b) <=> Readable(w)
  BY <1>8, <1>12 DEF Readable, PacketType
<1>15. QED
  BY <1>2, <1>10, <1>11, <1>13, <1>14 DEF w

\* A packet of which not all has come is not read.
LEMMA NotReadInPart ==
  ASSUME NEW p \in Kinds, NEW b \in Seq(Nat), Len(b) < Len(Wire(p)),
         \A j \in 1 .. Len(b) : b[j] = Wire(p)[j]
  PROVE  ~Whole(b)
<1> DEFINE w == Wire(p)
           n == Len(b)
<1>1. /\ w \in Seq(Nat) /\ Len(w) \in Nat /\ n \in Nat /\ n < Len(w)
      /\ \A j \in 1 .. n : b[j] = w[j]
  <2>1. w \in Seq(Nat) /\ Len(w) \in Nat
    BY WireIs
  <2>2. n \in Nat
    OBVIOUS
  <2>3. QED
    BY <2>1, <2>2
<1>2. LengthEnds(w) # {} /\ Total(w) = Len(w)
  BY KindsAssumption DEF ReadAlone, Whole
<1> HIDE DEF w, n
<1>3. SUFFICES ASSUME LengthEnds(b) # {} PROVE Total(b) = Len(w)
  BY <1>1 DEF Whole, n
<1> DEFINE e == LengthEnd(b)
<1>4. e \in LengthEnds(b) /\ \A j \in LengthEnds(b) : e <= j
  BY <1>3, EndIs
<1> HIDE DEF e
<1>5. e \in 2 .. 4 /\ e <= n
  BY <1>4 DEF LengthEnds, n
<1>6. e \in LengthEnds(w)
  BY <1>1, <1>4, <1>5 DEF LengthEnds
<1>7. LengthEnd(w) = e
  <2>1. LengthEnd(w) \in LengthEnds(w) /\ LengthEnd(w) <= e
    BY <1>6, EndIs
  <2>2. LengthEnd(w) \in 2 .. 4 /\ w[LengthEnd(w)] < Base
    BY <2>1 DEF LengthEnds
  <2>3. LengthEnd(w) \in LengthEnds(b)
    <3>1. LengthEnd(w) \in 1 .. n
      BY <1>1, <1>5, <2>1, <2>2
    <3>2. b[LengthEnd(w)] = w[LengthEnd(w)]
      BY <1>1, <3>1
    <3>3. QED
      BY <1>1, <2>2, <3>1, <3>2 DEF LengthEnds, n
  <2>4. QED
    BY <1>4, <1>5, <2>1, <2>2, <2>3
<1>8. b[2] = w[2] /\ (e > 2 => b[3] = w[3]) /\ (e > 3 => b[4] = w[4])
  BY <1>1, <1>5
<1>9. Remaining(b) = Remaining(w)
  BY <1>7, <1>8 DEF Remaining, e
<1>10. QED
  BY <1>2, <1>7, <1>9 DEF Total, e

\* What is left of a part when its beginning is cut off.
LEMMA CutPart ==
  ASSUME NEW L, NEW d \in Seq(L), NEW i \in 1 .. Len(d) + 1, NEW j \in i - 1 .. Len(d),
         NEW c \in 0 .. j - i + 1
  PROVE  SubSeq(SubSeq(d, i, j), c + 1, Len(SubSeq(d, i, j))) = SubSeq(d, i + c, j)
<1> DEFINE a == SubSeq(d, i, j)
           l == Len(a)
           x == SubSeq(a, c + 1, l)
           y == SubSeq(d, i + c, j)
<1>1. Len(d) \in Nat /\ i \in Nat /\ j \in Nat /\ i + c \in 1 .. Len(d) + 1
      /\ j \in (i + c) - 1 .. Len(d) /\ c \in Nat
  OBVIOUS
<1>2. a \in Seq(L) /\ l = j - i + 1 /\ \A k \in 1 .. j - i + 1 : a[k] = d[i + k - 1]
  BY PartIs
<1>3. y \in Seq(L) /\ Len(y) = j - (i + c) + 1
      /\ \A k \in 1 .. j - (i + c) + 1 : y[k] = d[(i + c) + k - 1]
  BY <1>1, PartIs
<1> HIDE DEF a, y
<1>4. c + 1 \in 1 .. Len(a) + 1 /\ l \in (c + 1) - 1 .. Len(a)
  BY <1>1, <1>2
<1>5. x \in Seq(L) /\ Len(x) = l - (c + 1) + 1
      /\ \A k \in 1 .. l - (c + 1) + 1 : x[k] = a[(c + 1) + k - 1]
  BY <1>2, <1>4, PartIs
<1> HIDE DEF x, l
<1>6. ASSUME NEW k \in 1 .. j - (i + c) + 1 PROVE x[k] = y[k]
  <2>1. k \in 1 .. l - (c + 1) + 1 /\ (c + 1) + k - 1 \in 1 .. j - i + 1
        /\ i + ((c + 1) + k - 1) - 1 = (i + c) + k - 1
    <3>1. l = j - i + 1 /\ l \in Int /\ k \in Int /\ 1 <= k /\ k <= j - (i + c) + 1
      BY <1>1, <1>2
    <3> HIDE DEF l
    <3>2. QED
      BY <1>1, <3>1
  <2>2. x[k] = a[(c + 1) + k - 1] /\ a[(c + 1) + k - 1] = d[i + ((c + 1) + k - 1) - 1]
    BY <1>2, <1>5, <2>1
  <2>3. QED
    BY <1>3, <2>1, <2>2
<1>7. Len(x) = j - (i + c) + 1
  BY <1>1, <1>2, <1>5
<1>8. x = y
  BY <1>3, <1>5, <1>6, <1>7, SameEntries
<1>9. QED
  BY <1>8 DEF x, y, a, l

\* One entry more.
LEMMA PartGrows ==
  ASSUME NEW L, NEW d \in Seq(L), NEW k \in 0 .. Len(d), NEW i \in k .. Len(d) - 1
  PROVE  SubSeq(d, k + 1, i + 1) = Append(SubSeq(d, k + 1, i), d[i + 1])
<1> DEFINE a == SubSeq(d, k + 1, i + 1)
           u == SubSeq(d, k + 1, i)
           b == Append(u, d[i + 1])
<1>1. Len(d) \in Nat /\ k \in Nat /\ i \in Nat /\ k + 1 \in 1 .. Len(d) + 1
      /\ i \in (k + 1) - 1 .. Len(d) /\ i + 1 \in (k + 1) - 1 .. Len(d) /\ i + 1 \in 1 .. Len(d)
  OBVIOUS
<1>2. u \in Seq(L) /\ Len(u) = i - (k + 1) + 1
      /\ \A n \in 1 .. i - (k + 1) + 1 : u[n] = d[(k + 1) + n - 1]
  BY <1>1, PartIs
<1>3. a \in Seq(L) /\ Len(a) = (i + 1) - (k + 1) + 1
      /\ \A n \in 1 .. (i + 1) - (k + 1) + 1 : a[n] = d[(k + 1) + n - 1]
  BY <1>1, PartIs
<1>4. d[i + 1] \in L
  BY <1>1
<1> HIDE DEF a, u
<1>5. Len(u) = i - k /\ Len(a) = i - k + 1 /\ i - k \in Nat
  BY <1>1, <1>2, <1>3
<1>6. b \in Seq(L) /\ Len(b) = i - k + 1 /\ b[i - k + 1] = d[i + 1]
      /\ \A n \in 1 .. i - k : b[n] = u[n]
  BY <1>2, <1>4, <1>5
<1> HIDE DEF b
<1>7. ASSUME NEW n \in 1 .. i - k + 1 PROVE a[n] = b[n]
  <2>1. a[n] = d[k + n]
    <3>1. n \in 1 .. (i + 1) - (k + 1) + 1 /\ (k + 1) + n - 1 = k + n
      BY <1>1
    <3>2. QED
      BY <1>3, <3>1
  <2>2. CASE n = i - k + 1
    <3>1. k + n = i + 1
      BY <1>1, <2>2
    <3>2. QED
      BY <1>6, <2>1, <2>2, <3>1
  <2>3. CASE n # i - k + 1
    <3>1. n \in 1 .. i - k /\ n \in 1 .. i - (k + 1) + 1 /\ (k + 1) + n - 1 = k + n
      BY <1>1, <1>5, <2>3
    <3>2. QED
      BY <1>2, <1>6, <2>1, <3>1
  <2>4. QED
    BY <2>2, <2>3
<1>8. a = b
  BY <1>3, <1>5, <1>6, <1>7, SameEntries
<1>9. QED
  BY <1>8 DEF a, b, u

\* A round reads the packet in front, if all of it has come.
LEMMA OneRound ==
  ASSUME NEW s \in Seq(Kinds), NEW k \in 0 .. Len(s), NEW i \in k .. Len(s),
         NEW t \in Off(s, i) .. Len(WireOf(s))
  PROVE  LET r(n) == [rest    |-> SubSeq(WireOf(s), Off(s, n) + 1, t),
                      packets |-> SubSeq(Shown(s), k + 1, n)]
         IN  Round(r(i)) = IF i < Len(s) /\ Off(s, i + 1) <= t THEN r(i + 1) ELSE r(i)
<1> DEFINE W == WireOf(s)
           o == Off(s, i)
           b == SubSeq(W, o + 1, t)
           u == Shown(s)
           q == SubSeq(u, k + 1, i)
           r(n) == [rest |-> SubSeq(W, Off(s, n) + 1, t), packets |-> SubSeq(u, k + 1, n)]
<1>1. Len(s) \in Nat /\ k \in Nat /\ i \in Nat /\ i \in 0 .. Len(s)
  OBVIOUS
<1>2. W \in Seq(Nat) /\ Len(W) \in Nat
  BY WireTyped
<1>3. o \in Nat
  BY <1>1, FirstIs
<1>4. t \in Nat /\ o <= t /\ t <= Len(W)
  BY <1>2, <1>3
<1>0. u \in Seq(SeenKinds) /\ Len(u) = Len(s) /\ \A x \in 1 .. Len(s) : u[x] = Seen(s[x])
  BY ShownIs
<1> HIDE DEF W, o, u
<1>5. o + 1 \in 1 .. Len(W) + 1 /\ t \in (o + 1) - 1 .. Len(W)
  BY <1>2, <1>3, <1>4
<1>6. /\ b \in Seq(Nat) /\ Len(b) = t - o
      /\ \A j \in 1 .. t - o : b[j] = W[o + j]
  <2>1. o \in 0 .. Len(W) /\ t \in o .. Len(W)
    BY <1>2, <1>3, <1>4
  <2>2. QED
    BY <1>2, <2>1, PartAfter
<1> HIDE DEF b
<1>7. Len(b) = t - o /\ Len(b) \in Nat
  BY <1>3, <1>4, <1>6
<1>8. \A j \in 1 .. t - o : b[j] = W[o + j]
  BY <1>6
<1>9. r(i) = [rest |-> b, packets |-> q]
  BY DEF b, o
<1>10. CASE i < Len(s)
  <2> DEFINE w == Wire(s[i + 1])
  <2>1. i \in 0 .. Len(s) - 1 /\ i + 1 \in 1 .. Len(s) /\ i \in k .. Len(s) - 1
    BY <1>1, <1>10
  <2>2. s[i + 1] \in Kinds
    BY <2>1
  <2>3. w \in Seq(Nat) /\ Len(w) \in Nat /\ Len(w) >= 2
    BY <2>2, WireIs
  <2>4. /\ Off(s, i + 1) = o + Len(w)
        /\ \A j \in 1 .. Len(w) : W[o + j] = w[j]
    BY <2>1, PacketIsThere DEF W, o
  <2>5. CASE Off(s, i + 1) <= t
    <3>1. Len(w) <= Len(b)
      <4> HIDE DEF w
      <4>1. QED
        BY <1>3, <1>4, <1>7, <2>3, <2>4, <2>5
    <3>2. ASSUME NEW j \in 1 .. Len(w) PROVE b[j] = w[j]
      <4> HIDE DEF w
      <4>1. j \in 1 .. t - o
        BY <1>7, <2>3, <3>1
      <4>2. QED
        BY <1>8, <2>4, <4>1
    <3>3. Whole(b) /\ Readable(b) /\ Total(b) = Len(w) /\ Packet(b) = Seen(s[i + 1])
      BY <1>6, <2>2, <3>1, <3>2, ReadInFront
    <3>4. SubSeq(b, Total(b) + 1, Len(b)) = SubSeq(W, Off(s, i + 1) + 1, t)
      <4> HIDE DEF w
      <4>1. Len(w) \in 0 .. t - (o + 1) + 1 /\ (o + 1) + Len(w) = Off(s, i + 1) + 1
        BY <1>3, <1>4, <1>7, <2>3, <2>4, <3>1
      <4>2. SubSeq(SubSeq(W, o + 1, t), Len(w) + 1, Len(SubSeq(W, o + 1, t)))
              = SubSeq(W, (o + 1) + Len(w), t)
        BY <1>2, <1>5, <4>1, CutPart
      <4>3. QED
        BY <3>3, <4>1, <4>2 DEF b
    <3>5. Append(q, Packet(b)) = SubSeq(u, k + 1, i + 1)
      <4>1. k \in 0 .. Len(u) /\ i \in k .. Len(u) - 1 /\ u[i + 1] = Packet(b)
        BY <1>0, <2>1, <3>3
      <4>2. QED
        BY <1>0, <4>1, PartGrows
    <3>6. Round([rest |-> b, packets |-> q])
            = [rest |-> SubSeq(W, Off(s, i + 1) + 1, t), packets |-> SubSeq(u, k + 1, i + 1)]
      BY <3>3, <3>4, <3>5 DEF Round
    <3>7. QED
      BY <1>9, <1>10, <2>5, <3>6 DEF W, o, u
  <2>6. CASE ~(Off(s, i + 1) <= t)
    <3>1. Len(b) < Len(w)
      <4> HIDE DEF w
      <4>1. QED
        BY <1>3, <1>4, <1>7, <2>3, <2>4, <2>6
    <3>2. ASSUME NEW j \in 1 .. Len(b) PROVE b[j] = w[j]
      <4> HIDE DEF w
      <4>1. j \in 1 .. t - o /\ j \in 1 .. Len(w)
        BY <1>7, <2>3, <3>1
      <4>2. QED
        BY <1>8, <2>4, <4>1
    <3>3. ~Whole(b)
      BY <1>6, <2>2, <3>1, <3>2, NotReadInPart
    <3>4. Round([rest |-> b, packets |-> q]) = [rest |-> b, packets |-> q]
      BY <3>3 DEF Round
    <3>5. QED
      BY <1>9, <1>10, <2>6, <3>4 DEF W, o, u
  <2>7. QED
    BY <2>5, <2>6
<1>11. CASE ~(i < Len(s))
  <2>1. i = Len(s)
    BY <1>1, <1>11
  <2>2. o = Len(W)
    BY <2>1, FirstIs DEF Off, W, o
  <2>3. Len(b) = 0
    BY <1>2, <1>4, <1>7, <2>2
  <2>4. LengthEnds(b) = {}
    BY <2>3 DEF LengthEnds
  <2>5. Round([rest |-> b, packets |-> q]) = [rest |-> b, packets |-> q]
    BY <2>4 DEF Round, Whole
  <2>6. QED
    BY <1>9, <1>11, <2>5 DEF W, o, u
<1>12. QED
  BY <1>10, <1>11 DEF u

\* A message: all that has come whole is read, one packet a round, and nothing else.
LEMMA AllRounds ==
  ASSUME NEW s \in Seq(Kinds), NEW k \in 0 .. Len(s), NEW t \in Off(s, k) .. Len(WireOf(s)),
         NEW b
  PROVE  b = SubSeq(WireOf(s), Off(s, k) + 1, t) =>
           \E m \in k .. Len(s) :
             /\ Off(s, m) <= t /\ (m < Len(s) => t < Off(s, m + 1))
             /\ Loop(b)[Len(b)] = [rest    |-> SubSeq(WireOf(s), Off(s, m) + 1, t),
                                   packets |-> SubSeq(Shown(s), k + 1, m)]
<1> DEFINE W == WireOf(s)
           c == SubSeq(W, Off(s, k) + 1, t)
           r(n) == [rest |-> SubSeq(W, Off(s, n) + 1, t), packets |-> SubSeq(Shown(s), k + 1, n)]
           come == {i \in k .. Len(s) : Off(s, i) <= t}
           after == {Len(s) - i : i \in come}
<1>1. Len(s) \in Nat /\ k \in Nat
  OBVIOUS
<1>2. W \in Seq(Nat) /\ Len(W) \in Nat
  BY WireTyped
<1>3. \A i \in k .. Len(s) : Off(s, i) \in Nat
  BY <1>1, FirstIs
<1>4. t \in Nat /\ Off(s, k) <= t /\ t <= Len(W)
  BY <1>1, <1>2, <1>3
<1> HIDE DEF W
<1>5. PICK m \in come : m < Len(s) => t < Off(s, m + 1)
  <2>1. after \in SUBSET Nat /\ Len(s) - k \in after
    BY <1>1, <1>4
  <2>2. PICK x \in after : \A y \in after : x <= y
    <3> HIDE DEF after
    <3>1. QED
      BY <2>1, LeastOf
  <2>3. PICK m \in come : x = Len(s) - m
    BY <2>2
  <2>4. ASSUME m < Len(s) PROVE t < Off(s, m + 1)
    <3>1. m + 1 \in k .. Len(s) /\ ~(x <= Len(s) - (m + 1))
      BY <1>1, <2>3, <2>4
    <3>2. m + 1 \notin come
      BY <2>2, <3>1
    <3>3. QED
      BY <1>3, <1>4, <3>1, <3>2
  <2>5. QED
    BY <2>4
<1>6. m \in k .. Len(s) /\ m \in Nat /\ Off(s, m) <= t /\ Off(s, m) \in Nat
  BY <1>1, <1>3
<1> HIDE DEF come, after
<1>7. Len(c) = t - Off(s, k) /\ Len(c) \in Nat
  <2>1. Off(s, k) + 1 \in 1 .. Len(W) + 1 /\ t \in (Off(s, k) + 1) - 1 .. Len(W)
    BY <1>1, <1>2, <1>3, <1>4
  <2>2. Len(c) = t - (Off(s, k) + 1) + 1
    BY <1>2, <2>1, PartIs
  <2>3. QED
    BY <1>1, <1>3, <1>4, <2>2
<1>8. m - k \in 0 .. Len(c)
  <2>1. Off(s, k) + (m - k) <= Off(s, m)
    BY <1>1, <1>6, Grows
  <2>2. QED
    BY <1>1, <1>3, <1>4, <1>6, <1>7, <2>1
<1>9. /\ Loop(c)[0] = [rest |-> c, packets |-> <<>>]
      /\ \A n \in 1 .. Len(c) : Loop(c)[n] = Round(Loop(c)[n - 1])
  BY <1>7, LoopUnfolds
<1>10. Loop(c)[0] = r(k)
  <2> DEFINE u == Shown(s)
  <2>1. SubSeq(u, k + 1, k) = <<>>
    <3>0. u \in Seq(SeenKinds) /\ Len(u) = Len(s)
      BY ShownIs
    <3> HIDE DEF u
    <3>1. k + 1 \in 1 .. Len(u) + 1 /\ k \in (k + 1) - 1 .. Len(u)
      BY <1>1, <3>0
    <3>2. SubSeq(u, k + 1, k) \in Seq(SeenKinds) /\ Len(SubSeq(u, k + 1, k)) = k - (k + 1) + 1
      BY <3>0, <3>1, PartIs
    <3>3. Len(SubSeq(u, k + 1, k)) = 0
      BY <1>1, <3>2
    <3>4. QED
      BY <3>2, <3>3
  <2>2. QED
    BY <1>9, <2>1
<1> HIDE DEF c
<1>11. ASSUME NEW i \in k .. Len(s), Off(s, i) <= t
       PROVE  Round(r(i)) = IF i < Len(s) /\ Off(s, i + 1) <= t THEN r(i + 1) ELSE r(i)
  <2>1. t \in Off(s, i) .. Len(WireOf(s))
    BY <1>2, <1>3, <1>4, <1>11 DEF W
  <2>2. QED
    BY <2>1, OneRound DEF W
<1> HIDE DEF r
<1> DEFINE at(n) == IF n <= m - k THEN k + n ELSE m
           bad == {n \in 0 .. Len(c) : Loop(c)[n] # r(at(n))}
<1>12. bad = {}
  <2>1. SUFFICES ASSUME bad # {} PROVE FALSE
    OBVIOUS
  <2>2. bad \in SUBSET Nat
    BY <1>7
  <2>3. PICK n \in bad : \A y \in bad : n <= y
    <3> HIDE DEF bad
    <3>1. QED
      BY <2>1, <2>2, LeastOf
  <2>4. n \in 0 .. Len(c) /\ n \in Nat /\ Loop(c)[n] # r(at(n))
    BY <1>7
  <2>5. n # 0
    <3>1. 0 <= m - k /\ k + 0 = k
      BY <1>1, <1>6
    <3>2. QED
      BY <1>10, <2>4, <3>1
  <2>6. n - 1 \in 0 .. Len(c) /\ n \in 1 .. Len(c) /\ ~(n <= n - 1)
    BY <1>7, <2>4, <2>5
  <2>7. Loop(c)[n] = Round(r(at(n - 1)))
    <3>1. n - 1 \notin bad
      BY <2>3, <2>6
    <3>2. QED
      BY <1>9, <2>6, <3>1
  <2> HIDE DEF bad
  <2>8. CASE n <= m - k
    <3> DEFINE i == k + (n - 1)
    <3>1. /\ at(n - 1) = i /\ at(n) = i + 1 /\ i \in k .. Len(s) /\ i < Len(s)
          /\ i + 1 \in 0 .. Len(s) /\ m \in i + 1 .. Len(s)
          /\ i \in 0 .. Len(s) /\ m \in i .. Len(s)
      BY <1>1, <1>6, <2>4, <2>5, <2>8
    <3> HIDE DEF i
    <3>2. Off(s, i) + (m - i) <= Off(s, m) /\ Off(s, i + 1) + (m - (i + 1)) <= Off(s, m)
      BY <3>1, Grows
    <3>3. Off(s, i) \in Nat /\ Off(s, i + 1) \in Nat
      BY <3>1, FirstIs
    <3>4. Off(s, i) <= t /\ Off(s, i + 1) <= t
      BY <1>1, <1>4, <1>6, <3>1, <3>2, <3>3
    <3>5. Round(r(i)) = r(i + 1)
      BY <1>11, <3>1, <3>4
    <3>6. QED
      BY <2>4, <2>7, <3>1, <3>5
  <2>9. CASE ~(n <= m - k)
    <3>1. at(n) = m /\ at(n - 1) = m
      BY <1>1, <1>6, <2>4, <2>5, <2>9
    <3>2. ~(m < Len(s) /\ Off(s, m + 1) <= t)
      <4>1. m < Len(s) => Off(s, m + 1) \in Nat
        <5>1. m < Len(s) => m + 1 \in k .. Len(s)
          BY <1>1, <1>6
        <5>2. QED
          BY <1>3, <5>1
      <4>2. QED
        BY <1>4, <1>5, <4>1
    <3>3. Round(r(m)) = r(m)
      BY <1>6, <1>11, <3>2
    <3>4. QED
      BY <2>4, <2>7, <3>1, <3>3
  <2>10. QED
    BY <2>8, <2>9
<1>13. Loop(c)[Len(c)] = r(m)
  <2>1. Len(c) \in 0 .. Len(c)
    BY <1>7
  <2>2. at(Len(c)) = m
    BY <1>1, <1>6, <1>7, <1>8
  <2>3. QED
    BY <1>12, <2>1, <2>2
<1>14. QED
  BY <1>5, <1>6, <1>13 DEF c, r, W

-----------------------------------------------------------------------------
(* A packet that comes alone                                                *)

\* What division leaves.
LEMMA Divided ==
  ASSUME NEW n \in Nat, NEW c \in Nat \ {0}
  PROVE  /\ n \div c \in Nat /\ n % c \in 0 .. c - 1
         /\ n = c * (n \div c) + (n % c)
OBVIOUS

LEMMA DividedByBase ==
  ASSUME NEW n \in Nat
  PROVE  /\ n \div Base \in Nat /\ n % Base \in 0 .. Base - 1
         /\ n = Base * (n \div Base) + (n % Base)
         /\ n >= Base => n \div Base < n
         /\ (Base + (n % Base)) % Base = n % Base
         /\ n < Base => n % Base = n
<1>1. Base \in Nat \ {0} /\ Base > 1 /\ Base \in Nat
  BY BaseAssumption
<1> DEFINE q == n \div Base
           r == n % Base
<1>2. q \in Nat /\ r \in 0 .. Base - 1 /\ n = Base * q + r
  BY <1>1, Divided
<1>3. n >= Base => n \div Base < n
  <2> HIDE DEF q, r
  <2>1. q # 0 => Base * q >= 2 * q
    BY <1>1, <1>2
  <2>2. QED
    BY <1>1, <1>2, <2>1 DEF q
<1>4. (Base + r) % Base = r
  <2> HIDE DEF q, r
  <2> DEFINE u == (Base + r) \div Base
             v == (Base + r) % Base
  <2>1. u \in Nat /\ v \in 0 .. Base - 1 /\ Base + r = Base * u + v
    <3>1. Base + r \in Nat
      BY <1>1, <1>2
    <3>2. QED
      BY <1>1, <3>1, Divided
  <2> HIDE DEF u, v
  <2>2. u = 1
    <3>1. u >= 2 => Base * u >= Base * 2
      BY <1>1, <2>1
    <3>2. u = 0 => Base * u = 0
      BY <1>1
    <3>3. QED
      BY <1>1, <1>2, <2>1, <3>1, <3>2
  <2>3. Base * u = Base
    BY <1>1, <2>2
  <2>4. QED
    BY <1>1, <1>2, <2>1, <2>3 DEF v
<1>5. n < Base => n % Base = n
  <2> HIDE DEF q, r
  <2>1. q # 0 => Base * q >= Base
    BY <1>1, <1>2
  <2>2. q = 0 => Base * q = 0
    BY <1>1
  <2>3. QED
    BY <1>1, <1>2, <2>1, <2>2 DEF r
<1>6. QED
  BY <1>2, <1>3, <1>4, <1>5

\* The digits of a length are what their recursion says.
DigitsOf(g, n) ==
  g = [m \in 0 .. n |-> IF m < Base THEN <<m>> ELSE <<Base + (m % Base)>> \o g[m \div Base]]

LEMMA DigitsExist == \A n \in Nat : \E g : DigitsOf(g, n)
<1> DEFINE stuck == {n \in Nat : ~ \E g : DigitsOf(g, n)}
<1>1. stuck = {}
  <2>1. SUFFICES ASSUME stuck # {} PROVE FALSE
    OBVIOUS
  <2>2. PICK n \in stuck : \A y \in stuck : n <= y
    BY <2>1, LeastOf
  <2>3. n \in Nat
    BY <2>2
  <2>4. CASE n = 0
    <3>1. 0 < Base
      BY BaseAssumption
    <3>2. DigitsOf([m \in 0 .. 0 |-> <<m>>], 0)
      <4> DEFINE g == [m \in 0 .. 0 |-> <<m>>]
      <4>1. \A m \in 0 .. 0 : m < Base
        BY <3>1
      <4>2. g = [m \in 0 .. 0 |-> IF m < Base THEN <<m>> ELSE <<Base + (m % Base)>> \o g[m \div Base]]
        BY <4>1
      <4>3. QED
        BY <4>2 DEF DigitsOf
    <3>3. QED
      BY <2>2, <2>4, <3>2
  <2>5. CASE n # 0
    <3>1. n - 1 \in Nat /\ n - 1 \notin stuck
      <4> HIDE DEF stuck
      <4>1. n - 1 \in Nat /\ ~(n <= n - 1)
        BY <2>3, <2>5
      <4>2. QED
        BY <2>2, <4>1
    <3>2. PICK g : DigitsOf(g, n - 1)
      BY <3>1
    <3> DEFINE last == IF n < Base THEN <<n>> ELSE <<Base + (n % Base)>> \o g[n \div Base]
               h == [m \in 0 .. n |-> IF m < n THEN g[m] ELSE last]
    <3>3. ASSUME NEW m \in 0 .. n
          PROVE  h[m] = IF m < Base THEN <<m>> ELSE <<Base + (m % Base)>> \o h[m \div Base]
      <4>1. m \in Nat
        BY <2>3
      <4>2. m >= Base => m \div Base \in 0 .. n - 1 /\ m \div Base < n /\ h[m \div Base] = g[m \div Base]
        <5> DEFINE k == m \div Base
        <5>1. m >= Base => k \in Nat /\ k < m
          BY <4>1, DividedByBase
        <5> HIDE DEF k
        <5>2. m >= Base => k \in 0 .. n /\ k \in 0 .. n - 1 /\ k < n
          BY <2>3, <4>1, <5>1
        <5> HIDE DEF last
        <5>3. QED
          BY <5>2 DEF k
      <4>3. CASE m < n
        <5>1. m \in 0 .. n - 1 /\ h[m] = g[m]
          BY <2>3, <4>1, <4>3
        <5>2. g[m] = IF m < Base THEN <<m>> ELSE <<Base + (m % Base)>> \o g[m \div Base]
          BY <3>2, <5>1 DEF DigitsOf
        <5> HIDE DEF h
        <5>3. QED
          BY <4>1, <4>2, <5>1, <5>2, BaseAssumption
      <4>4. CASE ~(m < n)
        <5>1. m = n /\ h[m] = last
          BY <2>3, <4>1, <4>4
        <5> HIDE DEF h
        <5>2. QED
          BY <4>1, <4>2, <5>1, BaseAssumption
      <4>5. QED
        BY <4>3, <4>4
    <3>4. DigitsOf(h, n)
      <4> HIDE DEF last
      <4>1. h = [m \in 0 .. n |-> h[m]]
        OBVIOUS
      <4> HIDE DEF h
      <4>2. h = [m \in 0 .. n |-> IF m < Base THEN <<m>> ELSE <<Base + (m % Base)>> \o h[m \div Base]]
        BY <3>3, <4>1
      <4>3. QED
        BY <4>2 DEF DigitsOf
    <3>5. QED
      BY <2>2, <3>4
  <2>6. QED
    BY <2>4, <2>5
<1>2. QED
  BY <1>1

\* They do not depend on how far the function goes.
LEMMA DigitsAgree ==
  ASSUME NEW n \in Nat, NEW k \in Nat, NEW g, NEW h, DigitsOf(g, n), DigitsOf(h, k)
  PROVE  \A m \in Nat : m <= n /\ m <= k => g[m] = h[m]
<1> DEFINE bad == {m \in Nat : m <= n /\ m <= k /\ g[m] # h[m]}
<1>1. bad = {}
  <2>1. SUFFICES ASSUME bad # {} PROVE FALSE
    OBVIOUS
  <2>2. PICK m \in bad : \A y \in bad : m <= y
    BY <2>1, LeastOf
  <2>3. m \in Nat /\ m <= n /\ m <= k /\ g[m] # h[m]
    OBVIOUS
  <2>4. /\ g[m] = IF m < Base THEN <<m>> ELSE <<Base + (m % Base)>> \o g[m \div Base]
        /\ h[m] = IF m < Base THEN <<m>> ELSE <<Base + (m % Base)>> \o h[m \div Base]
    <3>1. m \in 0 .. n /\ m \in 0 .. k
      BY <2>3
    <3>2. QED
      BY <3>1 DEF DigitsOf
  <2>5. m >= Base => g[m \div Base] = h[m \div Base]
    <3> DEFINE d == m \div Base
    <3>1. m >= Base => d \in Nat /\ d < m
      BY <2>3, DividedByBase
    <3> HIDE DEF d
    <3>2. m >= Base => d <= n /\ d <= k /\ ~(m <= d) /\ d \in Nat
      BY <2>3, <3>1
    <3>3. m >= Base => d \notin bad
      <4> HIDE DEF bad
      <4>1. QED
        BY <2>2, <3>2
    <3>4. QED
      BY <3>2, <3>3 DEF d
  <2> HIDE DEF bad
  <2>6. QED
    BY <2>3, <2>4, <2>5, BaseAssumption
<1>2. QED
  BY <1>1

LEMMA DigitsAre ==
  ASSUME NEW n \in Nat
  PROVE  Digits(n) = IF n < Base THEN <<n>> ELSE <<Base + (n % Base)>> \o Digits(n \div Base)
<1> DEFINE G(k) == CHOOSE g : DigitsOf(g, k)
<1>1. \A k \in Nat : DigitsOf(G(k), k) /\ Digits(k) = G(k)[k]
  <2>1. ASSUME NEW k \in Nat PROVE DigitsOf(G(k), k) /\ Digits(k) = G(k)[k]
    <3>1. DigitsOf(G(k), k)
      BY DigitsExist
    <3>2. Digits(k) = G(k)[k]
      BY DEF Digits, DigitsOf
    <3>3. QED
      BY <3>1, <3>2
  <2>2. QED
    BY <2>1
<1> HIDE DEF G
<1>2. Digits(n) = IF n < Base THEN <<n>> ELSE <<Base + (n % Base)>> \o G(n)[n \div Base]
  <2>1. n \in 0 .. n
    OBVIOUS
  <2>2. QED
    BY <1>1, <2>1 DEF DigitsOf
<1>3. n >= Base => G(n)[n \div Base] = Digits(n \div Base)
  <2> DEFINE d == n \div Base
  <2>1. n >= Base => d \in Nat /\ d < n
    BY DividedByBase
  <2> HIDE DEF d
  <2>2. n >= Base => d <= n /\ d <= d /\ d \in Nat
    BY <2>1
  <2>3. n >= Base => G(n)[d] = G(d)[d]
    BY <1>1, <2>2, DigitsAgree
  <2>4. QED
    BY <1>1, <2>2, <2>3 DEF d
<1>4. QED
  BY <1>2, <1>3, BaseAssumption

LEMMA FewJoined ==
  ASSUME NEW x \in Int, NEW y \in Int, NEW z \in Int
  PROVE  <<x>> \o <<y>> = <<x, y>> /\ <<x>> \o (<<y>> \o <<z>>) = <<x, y, z>>
<1>1. ASSUME NEW u \in Int, NEW v \in Int PROVE <<u>> \o <<v>> = <<u, v>>
  <2> DEFINE a == <<u>> \o <<v>>
             c == <<u, v>>
  <2>1. a \in Seq(Int) /\ Len(a) = 2 /\ a[1] = u /\ a[2] = v
    OBVIOUS
  <2>2. c \in Seq(Int) /\ Len(c) = 2 /\ c[1] = u /\ c[2] = v
    OBVIOUS
  <2> HIDE DEF a, c
  <2>3. \A k \in 1 .. 2 : k = 1 \/ k = 2
    OBVIOUS
  <2>4. a = c
    BY <2>1, <2>2, <2>3, SameEntries
  <2>5. QED
    BY <2>4 DEF a, c
<1>2. <<x>> \o <<y, z>> = <<x, y, z>>
  <2> DEFINE a == <<x>> \o <<y, z>>
             c == <<x, y, z>>
  <2>1. a \in Seq(Int) /\ Len(a) = 3 /\ a[1] = x /\ a[2] = y /\ a[3] = z
    OBVIOUS
  <2>2. c \in Seq(Int) /\ Len(c) = 3 /\ c[1] = x /\ c[2] = y /\ c[3] = z
    OBVIOUS
  <2> HIDE DEF a, c
  <2>3. \A k \in 1 .. 3 : k = 1 \/ k = 2 \/ k = 3
    OBVIOUS
  <2>4. a = c
    BY <2>1, <2>2, <2>3, SameEntries
  <2>5. QED
    BY <2>4 DEF a, c
<1>3. QED
  BY <1>1, <1>2

\* Three bytes are enough for a length.
Short(n) == n < Base * Base * Base

\* Such a length is read back.
LEMMA DigitsRead ==
  ASSUME NEW n \in Nat, Short(n)
  PROVE  \E d \in 1 .. 3 :
           /\ Digits(n) \in Seq(Nat) /\ Len(Digits(n)) = d
           /\ Digits(n)[d] < Base /\ \A j \in 1 .. d - 1 : Digits(n)[j] >= Base
           /\ n = (Digits(n)[1] % Base) + (IF d > 1 THEN (Digits(n)[2] % Base) * Base ELSE 0)
                                        + (IF d > 2 THEN Digits(n)[3] * Base * Base ELSE 0)
<1> DEFINE q == n \div Base
           r == n % Base
           q2 == q \div Base
           r2 == q % Base
<1>1. Base \in Nat /\ Base > 1
  BY BaseAssumption
<1>2. /\ q \in Nat /\ r \in 0 .. Base - 1 /\ n = Base * q + r
      /\ (Base + r) % Base = r /\ (n < Base => n % Base = n)
  BY DividedByBase
<1> HIDE DEF q, r
<1>3. /\ q2 \in Nat /\ r2 \in 0 .. Base - 1 /\ q = Base * q2 + r2
      /\ (Base + r2) % Base = r2 /\ (q < Base => q % Base = q)
  BY <1>2, DividedByBase
<1>4. Digits(n) = IF n < Base THEN <<n>> ELSE <<Base + r>> \o Digits(q)
  BY DigitsAre DEF q, r
<1>5. Digits(q) = IF q < Base THEN <<q>> ELSE <<Base + r2>> \o Digits(q2)
  BY <1>2, DigitsAre
<1>6. q2 < Base => Digits(q2) = <<q2>>
  BY <1>3, DigitsAre
<1> HIDE DEF q2, r2
<1>7. q2 < Base
  <2>1. SUFFICES ASSUME q2 >= Base PROVE FALSE
    BY <1>1, <1>3
  <2>2. Base * q2 >= Base * Base
    BY <1>1, <1>3, <2>1
  <2>3. q >= Base * Base
    BY <1>1, <1>2, <1>3, <2>2
  <2>4. Base * q >= Base * (Base * Base)
    BY <1>1, <1>2, <2>3
  <2>5. n >= Base * (Base * Base)
    BY <1>1, <1>2, <2>4
  <2>6. Base * (Base * Base) = Base * Base * Base
    BY <1>1
  <2>7. QED
    BY <1>1, <2>5, <2>6 DEF Short
<1>8. CASE n < Base
  <2> DEFINE D == <<n>>
  <2>1. Digits(n) = D
    BY <1>4, <1>8
  <2>2. D \in Seq(Nat) /\ Len(D) = 1 /\ D[1] = n
    OBVIOUS
  <2> HIDE DEF D
  <2>3. n % Base = n
    BY <1>2, <1>8
  <2>4. 1 \in 1 .. 3 /\ ~(1 > 1) /\ ~(1 > 2) /\ n + 0 + 0 = n /\ 1 .. 1 - 1 = {}
    OBVIOUS
  <2>5. QED
    BY <1>8, <2>1, <2>2, <2>3, <2>4
<1>9. CASE ~(n < Base) /\ q < Base
  <2> DEFINE D == <<Base + r, q>>
  <2>1. Digits(n) = D
    <3>1. <<Base + r>> \o <<q>> = <<Base + r, q>>
      BY <1>1, <1>2, FewJoined
    <3>2. QED
      BY <1>4, <1>5, <1>9, <3>1
  <2>2. D \in Seq(Nat) /\ Len(D) = 2 /\ D[1] = Base + r /\ D[2] = q
    BY <1>1, <1>2
  <2> HIDE DEF D
  <2>3. n = r + q * Base + 0
    BY <1>1, <1>2
  <2>4. q % Base = q
    BY <1>3, <1>9
  <2>5. 2 \in 1 .. 3 /\ 2 > 1 /\ ~(2 > 2) /\ \A j \in 1 .. 2 - 1 : j = 1
    OBVIOUS
  <2>6. Base + r >= Base
    BY <1>1, <1>2
  <2>7. \A j \in 1 .. 2 - 1 : D[j] >= Base
    BY <2>2, <2>5, <2>6
  <2>8. n = (D[1] % Base) + (IF 2 > 1 THEN (D[2] % Base) * Base ELSE 0)
                          + (IF 2 > 2 THEN D[3] * Base * Base ELSE 0)
    BY <1>2, <2>2, <2>3, <2>4, <2>5
  <2>9. QED
    BY <1>9, <2>1, <2>2, <2>5, <2>7, <2>8
<1>10. CASE ~(n < Base) /\ ~(q < Base)
  <2> DEFINE D == <<Base + r, Base + r2, q2>>
  <2>1. Digits(n) = D
    <3>1. <<Base + r>> \o (<<Base + r2>> \o <<q2>>) = <<Base + r, Base + r2, q2>>
      BY <1>1, <1>2, <1>3, FewJoined
    <3>2. QED
      BY <1>4, <1>5, <1>6, <1>7, <1>10, <3>1
  <2>2. D \in Seq(Nat) /\ Len(D) = 3 /\ D[1] = Base + r /\ D[2] = Base + r2 /\ D[3] = q2
    BY <1>1, <1>2, <1>3
  <2> HIDE DEF D
  <2>3. n = r + r2 * Base + q2 * Base * Base
    <3>1. Base * q = Base * (Base * q2 + r2)
      BY <1>3
    <3>2. Base * (Base * q2 + r2) = r2 * Base + q2 * Base * Base
      BY <1>1, <1>3
    <3>3. r \in Int /\ r2 * Base \in Int /\ q2 * Base * Base \in Int
      BY <1>1, <1>2, <1>3
    <3>4. QED
      BY <1>1, <1>2, <3>1, <3>2, <3>3
  <2>5. 3 \in 1 .. 3 /\ 3 > 1 /\ 3 > 2 /\ \A j \in 1 .. 3 - 1 : j = 1 \/ j = 2
    OBVIOUS
  <2>6. Base + r >= Base /\ Base + r2 >= Base
    BY <1>1, <1>2, <1>3
  <2>7. \A j \in 1 .. 3 - 1 : D[j] >= Base
    BY <2>2, <2>5, <2>6
  <2>8. n = (D[1] % Base) + (IF 3 > 1 THEN (D[2] % Base) * Base ELSE 0)
                          + (IF 3 > 2 THEN D[3] * Base * Base ELSE 0)
    BY <1>2, <1>3, <2>2, <2>3, <2>5
  <2>9. QED
    BY <1>7, <2>1, <2>2, <2>5, <2>7, <2>8
<1>11. QED
  BY <1>8, <1>9, <1>10

\* Two sequences, entry by entry.
LEMMA JoinIs ==
  ASSUME NEW L, NEW a \in Seq(L), NEW b \in Seq(L)
  PROVE  /\ a \o b \in Seq(L) /\ Len(a \o b) = Len(a) + Len(b)
         /\ \A k \in 1 .. Len(a) : (a \o b)[k] = a[k]
         /\ \A k \in 1 .. Len(b) : (a \o b)[Len(a) + k] = b[k]
OBVIOUS

\* A part that begins where the first of two sequences ends.
LEMMA PartOfJoin ==
  ASSUME NEW L, NEW a \in Seq(L), NEW b \in Seq(L), NEW m \in 0 .. Len(b)
  PROVE  SubSeq(a \o b, Len(a) + 1, Len(a) + m) = SubSeq(b, 1, m)
<1> DEFINE c == a \o b
           x == SubSeq(c, Len(a) + 1, Len(a) + m)
           y == SubSeq(b, 1, m)
<1>1. /\ c \in Seq(L) /\ Len(c) = Len(a) + Len(b) /\ Len(a) \in Nat /\ Len(b) \in Nat /\ m \in Nat
      /\ \A k \in 1 .. Len(b) : c[Len(a) + k] = b[k]
  BY JoinIs
<1> HIDE DEF c
<1>2. Len(a) + 1 \in 1 .. Len(c) + 1 /\ Len(a) + m \in (Len(a) + 1) - 1 .. Len(c)
      /\ 1 \in 1 .. Len(b) + 1 /\ m \in 1 - 1 .. Len(b)
  BY <1>1
<1>3. x \in Seq(L) /\ Len(x) = Len(a) + m - (Len(a) + 1) + 1
      /\ \A k \in 1 .. Len(a) + m - (Len(a) + 1) + 1 : x[k] = c[(Len(a) + 1) + k - 1]
  BY <1>1, <1>2, PartIs
<1>4. y \in Seq(L) /\ Len(y) = m - 1 + 1 /\ \A k \in 1 .. m - 1 + 1 : y[k] = b[1 + k - 1]
  BY <1>1, <1>2, PartIs
<1> HIDE DEF x, y
<1>5. Len(x) = m /\ Len(y) = m
  BY <1>1, <1>3, <1>4
<1>6. ASSUME NEW k \in 1 .. m PROVE x[k] = y[k]
  <2>1. /\ k \in 1 .. Len(a) + m - (Len(a) + 1) + 1 /\ (Len(a) + 1) + k - 1 = Len(a) + k
        /\ k \in 1 .. m - 1 + 1 /\ 1 + k - 1 = k /\ k \in 1 .. Len(b)
    BY <1>1
  <2>2. QED
    BY <1>1, <1>3, <1>4, <2>1
<1>7. x = y
  BY <1>3, <1>4, <1>5, <1>6, SameEntries
<1>8. QED
  BY <1>7 DEF x, y, c

\* A sequence is the whole of itself.
LEMMA AllOfIt ==
  ASSUME NEW L, NEW b \in Seq(L)
  PROVE  SubSeq(b, 1, Len(b)) = b
OBVIOUS

\* A header in front of a body.
Framed(f, body) == <<f>> \o Digits(Len(body)) \o body

\* A packet for whose length three bytes are enough is cut out as it was put together.
LEMMA BodyIsRead ==
  ASSUME NEW f \in Nat, NEW body \in Seq(Nat), Short(Len(body))
  PROVE  LET w == Framed(f, body)
         IN  /\ w \in Seq(Nat) /\ w[1] = f /\ Whole(w) /\ Total(w) = Len(w)
             /\ SubSeq(w, LengthEnd(w) + 1, Total(w)) = body
<1> DEFINE n == Len(body)
           D == Digits(n)
           w == Framed(f, body)
<1>1. n \in Nat /\ Base \in Nat /\ Base > 1
  BY BaseAssumption
<1>2. PICK d \in 1 .. 3 :
        /\ D \in Seq(Nat) /\ Len(D) = d
        /\ D[d] < Base /\ \A j \in 1 .. d - 1 : D[j] >= Base
        /\ n = (D[1] % Base) + (IF d > 1 THEN (D[2] % Base) * Base ELSE 0)
                             + (IF d > 2 THEN D[3] * Base * Base ELSE 0)
  BY <1>1, DigitsRead
<1> HIDE DEF D
<1>3. d \in Nat /\ 1 <= d /\ d <= 3
  OBVIOUS
<1> DEFINE head == <<f>> \o D
<1>4. /\ head \in Seq(Nat) /\ Len(head) = d + 1 /\ head[1] = f
      /\ \A j \in 1 .. d : head[1 + j] = D[j]
  <2>1. <<f>> \in Seq(Nat) /\ Len(<<f>>) = 1 /\ <<f>>[1] = f /\ 1 \in 1 .. 1
    OBVIOUS
  <2>2. /\ head \in Seq(Nat) /\ Len(head) = Len(<<f>>) + Len(D)
        /\ \A k \in 1 .. Len(<<f>>) : head[k] = <<f>>[k]
        /\ \A k \in 1 .. Len(D) : head[Len(<<f>>) + k] = D[k]
    BY <1>2, <2>1, JoinIs
  <2> HIDE DEF head
  <2>3. Len(head) = d + 1
    BY <1>2, <1>3, <2>1, <2>2
  <2>4. QED
    BY <1>2, <2>1, <2>2, <2>3
<1>5. w = head \o body
  BY DEF Framed, D
<1> HIDE DEF head, w
<1>6. /\ w \in Seq(Nat) /\ Len(w) = d + 1 + n
      /\ \A k \in 1 .. d + 1 : w[k] = head[k]
  <2>1. LET u == head \o body
        IN  /\ u \in Seq(Nat) /\ Len(u) = Len(head) + Len(body)
            /\ \A k \in 1 .. Len(head) : u[k] = head[k]
    BY <1>4, JoinIs
  <2>2. QED
    BY <1>4, <1>5, <2>1
<1>7. w[1] = f /\ \A j \in 1 .. d : w[1 + j] = D[j]
  <2>1. 1 \in 1 .. d + 1
    BY <1>3
  <2>2. \A j \in 1 .. d : 1 + j \in 1 .. d + 1
    BY <1>3
  <2>3. QED
    BY <1>4, <1>6, <2>1, <2>2
<1>8. LengthEnd(w) = d + 1
  <2>1. d + 1 \in LengthEnds(w)
    <3>1. d \in 1 .. d /\ 1 + d = d + 1 /\ d + 1 \in 2 .. 4 /\ d + 1 <= Len(w)
      BY <1>1, <1>3, <1>6
    <3>2. w[d + 1] < Base
      BY <1>2, <1>7, <3>1
    <3>3. QED
      BY <3>1, <3>2 DEF LengthEnds
  <2>2. ASSUME NEW i \in LengthEnds(w) PROVE d + 1 <= i
    <3>1. SUFFICES ASSUME i < d + 1 PROVE FALSE
      BY <1>3 DEF LengthEnds
    <3>2. i \in 2 .. 4 /\ w[i] < Base
      BY <2>2 DEF LengthEnds
    <3>3. i - 1 \in 1 .. d - 1 /\ i - 1 \in 1 .. d /\ 1 + (i - 1) = i
      BY <1>3, <3>1, <3>2
    <3>4. w[i] = D[i - 1] /\ D[i - 1] >= Base
      BY <1>2, <1>7, <3>3
    <3>5. D[i - 1] \in Nat
      BY <1>2, <3>3
    <3>6. QED
      BY <1>1, <3>2, <3>4, <3>5
  <2>3. LengthEnd(w) \in LengthEnds(w) /\ LengthEnd(w) <= d + 1
    BY <2>1, EndIs
  <2>4. d + 1 <= LengthEnd(w) /\ LengthEnd(w) \in Nat
    BY <2>2, <2>3 DEF LengthEnds
  <2>5. QED
    BY <1>3, <2>3, <2>4
<1>9. Remaining(w) = n
  <2> DEFINE e == d + 1
  <2>1. /\ w[2] = D[1] /\ (d > 1 => w[3] = D[2]) /\ (d > 2 => w[4] = D[3])
        /\ (e > 2 <=> d > 1) /\ (e > 3 <=> d > 2)
    <3>1. 1 \in 1 .. d /\ 1 + 1 = 2 /\ (d > 1 => 2 \in 1 .. d) /\ 1 + 2 = 3
          /\ (d > 2 => 3 \in 1 .. d) /\ 1 + 3 = 4
      BY <1>3
    <3>2. (e > 2 <=> d > 1) /\ (e > 3 <=> d > 2)
      BY <1>3
    <3> HIDE DEF e
    <3>3. QED
      BY <1>7, <3>1, <3>2
  <2>2. Remaining(w) = (w[2] % Base) + (IF e > 2 THEN (w[3] % Base) * Base ELSE 0)
                                     + (IF e > 3 THEN w[4] * Base * Base ELSE 0)
    BY <1>8 DEF Remaining
  <2> HIDE DEF e, n
  <2>3. QED
    BY <1>2, <2>1, <2>2
<1>10. Total(w) = Len(w)
  BY <1>6, <1>8, <1>9 DEF Total
<1>11. Whole(w)
  <2>1. LengthEnds(w) # {}
    <3>1. d \in 1 .. d /\ 1 + d = d + 1 /\ d + 1 \in 2 .. 4 /\ d + 1 <= Len(w)
      BY <1>1, <1>3, <1>6
    <3>2. w[d + 1] < Base
      BY <1>2, <1>7, <3>1
    <3>3. QED
      BY <3>1, <3>2 DEF LengthEnds
  <2>2. QED
    BY <1>6, <1>10, <2>1 DEF Whole
<1>12. SubSeq(w, LengthEnd(w) + 1, Total(w)) = body
  <2>1. n \in 0 .. Len(body)
    BY <1>1
  <2>2. SubSeq(head \o body, Len(head) + 1, Len(head) + n) = SubSeq(body, 1, n)
    BY <1>4, <2>1, PartOfJoin
  <2>3. SubSeq(body, 1, n) = body
    BY AllOfIt
  <2>4. QED
    BY <1>4, <1>5, <1>6, <1>8, <1>10, <2>2, <2>3
<1>13. QED
  BY <1>6, <1>7, <1>10, <1>11, <1>12 DEF w

\* A part of the first of two sequences.
LEMMA PartOfFirst ==
  ASSUME NEW L, NEW a \in Seq(L), NEW b \in Seq(L),
         NEW i \in 1 .. Len(a) + 1, NEW j \in i - 1 .. Len(a)
  PROVE  SubSeq(a \o b, i, j) = SubSeq(a, i, j)
<1> DEFINE c == a \o b
           x == SubSeq(c, i, j)
           y == SubSeq(a, i, j)
<1>1. /\ c \in Seq(L) /\ Len(c) = Len(a) + Len(b) /\ Len(a) \in Nat /\ Len(b) \in Nat
      /\ \A k \in 1 .. Len(a) : c[k] = a[k]
  BY JoinIs
<1> HIDE DEF c
<1>2. i \in 1 .. Len(c) + 1 /\ j \in i - 1 .. Len(c) /\ i \in Nat /\ j \in Nat
  BY <1>1
<1>3. x \in Seq(L) /\ Len(x) = j - i + 1 /\ \A k \in 1 .. j - i + 1 : x[k] = c[i + k - 1]
  BY <1>1, <1>2, PartIs
<1>4. y \in Seq(L) /\ Len(y) = j - i + 1 /\ \A k \in 1 .. j - i + 1 : y[k] = a[i + k - 1]
  BY PartIs
<1> HIDE DEF x, y
<1>5. ASSUME NEW k \in 1 .. j - i + 1 PROVE x[k] = y[k]
  <2>1. i + k - 1 \in 1 .. Len(a)
    BY <1>1, <1>2
  <2>2. QED
    BY <1>1, <1>3, <1>4, <2>1
<1>6. x = y
  BY <1>3, <1>4, <1>5, SameEntries
<1>7. QED
  BY <1>6 DEF x, y, c

\* The first byte of a PUBLISH.
LEMMA TypeAndQos ==
  ASSUME NEW q \in 0 .. 2
  PROVE  48 + 2 * q \in Nat /\ (48 + 2 * q) \div 16 = 3 /\ ((48 + 2 * q) \div 2) % 4 = q
<1>1. q = 0 \/ q = 1 \/ q = 2
  OBVIOUS
<1>2. QED
  BY <1>1

\* An id goes with a quality of service that asks for an answer.
IdFits(q, i) == Len(i) = IF q = 0 THEN 0 ELSE 2

\* A PUBLISH of any topic and payload, with an id if its quality of service asks
\* for one, is read as it was sent when it comes alone, as long as three bytes are
\* enough for the length.
THEOREM PublishAlone ==
  ASSUME NEW q \in 0 .. 2, NEW t \in Seq(Nat), NEW i \in Seq(Nat), NEW d \in Seq(Nat),
         IdFits(q, i),
         Short(2 + Len(t) + Len(i) + Len(d))
  PROVE  ReadAlone([type |-> PUBLISH, qos |-> q, topic |-> t, id |-> i, payload |-> d])
<1> DEFINE p == [type |-> PUBLISH, qos |-> q, topic |-> t, id |-> i, payload |-> d]
           l == Len(t)
           B2 == 2 * Base
           two == <<l \div B2, l % B2>>
           front == two \o t
           headed == front \o i
           body == headed \o d
           f == 48 + 2 * q
           w == Wire(p)
<1>1. l \in Nat /\ Len(i) \in Nat /\ Len(d) \in Nat /\ Base \in Nat /\ B2 \in Nat \ {0}
  BY BaseAssumption
<1>2. two \in Seq(Nat) /\ Len(two) = 2 /\ two[1] * 2 * Base + two[2] = l /\ two[1] = l \div B2
  <2>1. l \div B2 \in Nat /\ l % B2 \in 0 .. B2 - 1 /\ l = B2 * (l \div B2) + (l % B2)
    BY <1>1, Divided
  <2> DEFINE u == l \div B2
             v == l % B2
  <2>2. two = <<u, v>>
    OBVIOUS
  <2> HIDE DEF u, v, two
  <2>3. u \in Nat /\ v \in Nat
    BY <1>1, <2>1 DEF u, v
  <2>4. u * 2 * Base = B2 * u
    BY <1>1, <2>3
  <2>5. two \in Seq(Nat) /\ Len(two) = 2 /\ two[1] = u /\ two[2] = v
    BY <2>2, <2>3
  <2>6. u * 2 * Base + v = l
    BY <2>1, <2>4 DEF u, v
  <2>7. QED
    BY <2>5, <2>6 DEF u
<1> HIDE DEF two
<1>3. /\ front \in Seq(Nat) /\ Len(front) = 2 + l
      /\ front[1] = two[1] /\ front[2] = two[2]
  <2>1. 1 \in 1 .. 2 /\ 2 \in 1 .. 2
    OBVIOUS
  <2>2. /\ front \in Seq(Nat) /\ Len(front) = Len(two) + l
        /\ \A k \in 1 .. Len(two) : front[k] = two[k]
    BY <1>2, JoinIs
  <2> HIDE DEF front, l
  <2>3. QED
    BY <1>2, <2>1, <2>2
<1>4. SubSeq(front, 3, 2 + l) = t
  <2>1. l \in 0 .. Len(t)
    BY <1>1
  <2>2. SubSeq(two \o t, Len(two) + 1, Len(two) + l) = SubSeq(t, 1, l)
    BY <1>2, <2>1, PartOfJoin
  <2>3. SubSeq(t, 1, l) = t
    BY AllOfIt
  <2>4. Len(two) + 1 = 3 /\ Len(two) + l = 2 + l
    BY <1>1, <1>2
  <2>5. QED
    BY <2>2, <2>3, <2>4
<1> HIDE DEF front
<1>5. /\ headed \in Seq(Nat) /\ Len(headed) = 2 + l + Len(i)
      /\ headed[1] = front[1] /\ headed[2] = front[2]
  <2>1. 1 \in 1 .. Len(front) /\ 2 \in 1 .. Len(front)
    BY <1>1, <1>3
  <2>2. /\ headed \in Seq(Nat) /\ Len(headed) = Len(front) + Len(i)
        /\ \A k \in 1 .. Len(front) : headed[k] = front[k]
    <3>1. front \in Seq(Nat) /\ i \in Seq(Nat)
      BY <1>3
    <3>2. QED
      BY <3>1, JoinIs
  <2> HIDE DEF headed, l
  <2>3. QED
    BY <1>3, <2>1, <2>2
<1>6. SubSeq(headed, 3, 2 + l) = t
  <2>1. 3 \in 1 .. Len(front) + 1 /\ 2 + l \in 3 - 1 .. Len(front)
    BY <1>1, <1>3
  <2>2. SubSeq(front \o i, 3, 2 + l) = SubSeq(front, 3, 2 + l)
    BY <1>3, <2>1, PartOfFirst
  <2>3. QED
    BY <1>4, <2>2
<1>7. SubSeq(headed, l + 3, 2 + l + Len(i)) = i
  <2>1. Len(i) \in 0 .. Len(i)
    BY <1>1
  <2>2. SubSeq(front \o i, Len(front) + 1, Len(front) + Len(i)) = SubSeq(i, 1, Len(i))
    BY <1>3, <2>1, PartOfJoin
  <2>3. SubSeq(i, 1, Len(i)) = i
    BY AllOfIt
  <2>4. Len(front) + 1 = l + 3 /\ Len(front) + Len(i) = 2 + l + Len(i)
    BY <1>1, <1>3
  <2>5. QED
    BY <2>2, <2>3, <2>4
<1> HIDE DEF headed
<1>8. /\ body \in Seq(Nat) /\ Len(body) = 2 + l + Len(i) + Len(d)
      /\ body[1] = headed[1] /\ body[2] = headed[2]
  <2>1. 1 \in 1 .. Len(headed) /\ 2 \in 1 .. Len(headed)
    BY <1>1, <1>5
  <2>2. /\ body \in Seq(Nat) /\ Len(body) = Len(headed) + Len(d)
        /\ \A k \in 1 .. Len(headed) : body[k] = headed[k]
    <3>1. headed \in Seq(Nat)
      BY <1>5
    <3>2. QED
      BY <3>1, JoinIs
  <2> HIDE DEF body, l
  <2>3. QED
    BY <1>5, <2>1, <2>2
<1>9. SubSeq(body, 3, 2 + l) = t
  <2>1. 3 \in 1 .. Len(headed) + 1 /\ 2 + l \in 3 - 1 .. Len(headed)
    BY <1>1, <1>5
  <2>2. SubSeq(headed \o d, 3, 2 + l) = SubSeq(headed, 3, 2 + l)
    BY <1>5, <2>1, PartOfFirst
  <2>3. QED
    BY <1>6, <2>2
<1>10. SubSeq(body, l + 3, 2 + l + Len(i)) = i
  <2>1. l + 3 \in 1 .. Len(headed) + 1 /\ 2 + l + Len(i) \in (l + 3) - 1 .. Len(headed)
    BY <1>1, <1>5
  <2>2. SubSeq(headed \o d, l + 3, 2 + l + Len(i)) = SubSeq(headed, l + 3, 2 + l + Len(i))
    BY <1>5, <2>1, PartOfFirst
  <2>3. QED
    BY <1>7, <2>2
<1>11. SubSeq(body, 2 + l + Len(i) + 1, Len(body)) = d
  <2>1. Len(d) \in 0 .. Len(d)
    BY <1>1
  <2>2. SubSeq(headed \o d, Len(headed) + 1, Len(headed) + Len(d)) = SubSeq(d, 1, Len(d))
    BY <1>5, <2>1, PartOfJoin
  <2>3. SubSeq(d, 1, Len(d)) = d
    BY AllOfIt
  <2>4. Len(headed) + 1 = 2 + l + Len(i) + 1 /\ Len(headed) + Len(d) = Len(body)
    BY <1>5, <1>8
  <2>5. QED
    BY <2>2, <2>3, <2>4
<1>12. BodyOf(p) = body
  BY DEF BodyOf, Prefixed, TwoBytes, PUBLISH, CONNECT, two, front, headed
<1> HIDE DEF body
<1>13. FieldLength(body, 1) = l
  <2>1. 1 + 1 = 2
    OBVIOUS
  <2> HIDE DEF l
  <2>2. QED
    BY <1>2, <1>3, <1>5, <1>8, <2>1 DEF FieldLength
<1>14. Field(body, 1) = t
  <2>1. 1 + 2 = 3 /\ 1 + 1 + l = 2 + l
    BY <1>1
  <2>2. 2 + l <= Len(body)
    BY <1>1, <1>8
  <2> HIDE DEF l
  <2>3. QED
    BY <1>9, <1>13, <2>1, <2>2 DEF Field, Slice
<1>15. Publish(body, q) = p
  <2> DEFINE idEnd == l + 2 + (IF q \in {1, 2} THEN 2 ELSE 0)
  <2>1. idEnd = 2 + l + Len(i)
    BY <1>1 DEF IdFits
  <2>2. Publish(body, q) =
          [type |-> PUBLISH, qos |-> q, topic |-> t,
           id |-> Slice(body, l + 3, idEnd), payload |-> SubSeq(body, idEnd + 1, Len(body))]
    BY <1>14 DEF Publish
  <2>3. 2 + l + Len(i) <= Len(body)
    BY <1>1, <1>8
  <2> HIDE DEF idEnd, l
  <2>4. Slice(body, l + 3, idEnd) = i
    BY <1>10, <2>1, <2>3 DEF Slice
  <2>5. QED
    BY <1>11, <2>1, <2>2, <2>4
<1>16. w = Framed(f, body)
  <2>1. p.type = PUBLISH /\ p.qos = q /\ 16 * 3 = 48
    OBVIOUS
  <2> HIDE DEF p
  <2>2. w = <<16 * p.type + FlagsOf(p)>> \o Digits(Len(BodyOf(p))) \o BodyOf(p)
    BY DEF Wire
  <2>3. 16 * p.type + FlagsOf(p) = f
    BY <2>1 DEF PUBLISH, FlagsOf
  <2>4. QED
    BY <1>12, <2>2, <2>3 DEF Framed
<1>17. f \in Nat /\ f \div 16 = 3 /\ (f \div 2) % 4 = q
  BY TypeAndQos
<1> HIDE DEF f, w
<1>18. /\ w \in Seq(Nat) /\ w[1] = f /\ Whole(w) /\ Total(w) = Len(w)
       /\ PacketBody(w) = body
  <2>1. Short(Len(body))
    BY <1>8
  <2>2. f \in Nat /\ body \in Seq(Nat)
    BY <1>8, <1>17
  <2> HIDE DEF l, B2, p
  <2>3. QED
    BY <1>16, <2>1, <2>2, BodyIsRead DEF PacketBody
<1>19. Packet(w) = p
  <2> HIDE DEF p
  <2>1. PacketType(w) = PUBLISH /\ PacketQos(w) = q
    BY <1>17, <1>18 DEF PacketType, PacketQos, PUBLISH
  <2>2. Packet(w) = Publish(PacketBody(w), PacketQos(w))
    BY <2>1 DEF Packet, PUBLISH, CONNECT
  <2>3. QED
    BY <1>15, <1>18, <2>1, <2>2
<1>20. Readable(w)
  <2>1. PacketType(w) = PUBLISH
    BY <1>17, <1>18 DEF PacketType, PUBLISH
  <2>2. Len(body) >= 2
    BY <1>1, <1>8
  <2> HIDE DEF l
  <2>3. QED
    BY <1>18, <2>1, <2>2 DEF Readable, PUBLISH, CONNECT, SUBSCRIBE
<1>21. Seen(p) = p
  BY DEF Seen
<1>22. QED
  BY <1>18, <1>19, <1>20, <1>21 DEF ReadAlone, w

\* Of a packet of any other type the type is read, whatever its body, as long as
\* three bytes are enough for the length.
THEOREM PlainAlone ==
  ASSUME NEW k \in 0 .. 15, k \notin {CONNECT, PUBLISH, SUBSCRIBE},
         NEW body \in Seq(Nat), Short(Len(body))
  PROVE  ReadAlone([type |-> k, body |-> body])
<1> DEFINE p == [type |-> k, body |-> body]
           f == 16 * k + FlagsOf(p)
           w == Wire(p)
<1>1. BodyOf(p) = body
  BY DEF BodyOf
<1>2. w = Framed(f, body)
  <2>1. p.type = k
    OBVIOUS
  <2>2. w = <<16 * p.type + FlagsOf(p)>> \o Digits(Len(BodyOf(p))) \o BodyOf(p)
    BY DEF Wire
  <2> HIDE DEF p
  <2>3. QED
    BY <1>1, <2>1, <2>2 DEF Framed
<1>3. f \in Nat /\ f \div 16 = k
  <2>1. FlagsOf(p) \in {0, 2}
    BY DEF FlagsOf
  <2> HIDE DEF p
  <2>2. QED
    BY <2>1
<1>4. Seen(p) = [type |-> k]
  BY DEF Seen
<1> HIDE DEF f, w, p
<1>5. w \in Seq(Nat) /\ w[1] = f /\ Whole(w) /\ Total(w) = Len(w)
  BY <1>2, <1>3, BodyIsRead
<1>6. PacketType(w) = k
  BY <1>3, <1>5 DEF PacketType
<1>7. Packet(w) = Seen(p) /\ Readable(w)
  BY <1>4, <1>6 DEF Packet, Readable
<1>8. QED
  BY <1>5, <1>7 DEF ReadAlone, w, p

-----------------------------------------------------------------------------
(* A connection                                                             *)

\* What the buffer holds of a side, as long as the sides are apart.
Mine(d) == IF sender = d THEN buffer ELSE <<>>

\* How many of the bytes of a side that have passed by are not dumped.
Unread(d) == Passed(d) - Off(sent[d], Len(dumped[d]))

\* The bytes of a side pass by in order.
ComeInv(d) ==
  LET all == WireOf(sent[d])
  IN  /\ sent[d] \in Seq(Kinds)
      /\ Passed(d) \in 0 .. Len(all) /\ coming[d] = SubSeq(all, Passed(d) + 1, Len(all))

\* Of a side the packets that have passed whole are dumped, of the next one the
\* buffer has what has passed.
SideInv(d) ==
  LET all  == WireOf(sent[d])
      read == Len(dumped[d])
  IN  /\ read \in 0 .. Len(sent[d]) /\ dumped[d] = SubSeq(Shown(sent[d]), 1, read)
      /\ Off(sent[d], read) <= Passed(d)
      /\ read < Len(sent[d]) => Passed(d) < Off(sent[d], read + 1)
      /\ left = -1 => Mine(d) = SubSeq(all, Off(sent[d], read) + 1, Passed(d))

ReadInv ==
  /\ DOMAIN coming = Sides /\ DOMAIN dumped = Sides /\ sender \in Sides
  /\ \A d \in Sides : ComeInv(d)
  /\ ~mixed => /\ \A d \in Sides : SideInv(d)
               /\ left \in {-1, Unread("client") + Unread("server")}

\* What is put together of two parts that follow each other.
LEMMA Joined ==
  ASSUME NEW L, NEW d \in Seq(L),
         NEW i \in 0 .. Len(d), NEW j \in i .. Len(d), NEW m \in j .. Len(d)
  PROVE  SubSeq(d, i + 1, j) \o SubSeq(d, j + 1, m) = SubSeq(d, i + 1, m)
<1> DEFINE a == SubSeq(d, i + 1, j)
           c == SubSeq(d, j + 1, m)
           x == a \o c
           y == SubSeq(d, i + 1, m)
<1>1. /\ Len(d) \in Nat /\ i \in Nat /\ j \in Nat /\ m \in Nat /\ i <= j /\ j <= m
      /\ i \in 0 .. Len(d) /\ j \in 0 .. Len(d) /\ m \in i .. Len(d)
  OBVIOUS
<1>2. a \in Seq(L) /\ Len(a) = j - i /\ \A k \in 1 .. j - i : a[k] = d[i + k]
  BY <1>1, PartAfter
<1>3. c \in Seq(L) /\ Len(c) = m - j /\ \A k \in 1 .. m - j : c[k] = d[j + k]
  BY <1>1, PartAfter
<1>4. y \in Seq(L) /\ Len(y) = m - i /\ \A k \in 1 .. m - i : y[k] = d[i + k]
  BY <1>1, PartAfter
<1> HIDE DEF a, c, y
<1>5. x \in Seq(L) /\ Len(x) = m - i
      /\ \A k \in 1 .. m - i : x[k] = IF k <= j - i THEN a[k] ELSE c[k - (j - i)]
  <2>1. x \in Seq(L) /\ Len(x) = Len(a) + Len(c)
        /\ \A k \in 1 .. Len(a) + Len(c) : x[k] = IF k <= Len(a) THEN a[k] ELSE c[k - Len(a)]
    <3>1. a \in Seq(L) /\ c \in Seq(L)
      BY <1>2, <1>3
    <3>2. QED
      BY <3>1
  <2>2. Len(a) + Len(c) = m - i /\ Len(a) = j - i
    BY <1>1, <1>2, <1>3
  <2> HIDE DEF x
  <2>3. QED
    BY <2>1, <2>2
<1> HIDE DEF x
<1>6. ASSUME NEW k \in 1 .. m - i PROVE x[k] = y[k]
  <2>1. CASE k <= j - i
    BY <1>1, <1>2, <1>4, <1>5, <2>1
  <2>2. CASE ~(k <= j - i)
    <3>1. k - (j - i) \in 1 .. m - j /\ j + (k - (j - i)) = i + k
      BY <1>1, <2>2
    <3>2. QED
      BY <1>3, <1>4, <1>5, <2>2, <3>1
  <2>3. QED
    BY <2>1, <2>2
<1>7. x = y
  BY <1>4, <1>5, <1>6, SameEntries
<1>8. QED
  BY <1>7 DEF a, c, x, y

\* The part in front.
LEMMA PartInFront ==
  ASSUME NEW L, NEW d \in Seq(L), NEW n \in 0 .. Len(d)
  PROVE  /\ SubSeq(d, 1, n) \in Seq(L) /\ Len(SubSeq(d, 1, n)) = n
         /\ \A k \in 1 .. n : SubSeq(d, 1, n)[k] = d[k]
OBVIOUS

\* What one side's message does to the bytes that are still to come.
LEMMA ComesOn ==
  ASSUME NEW all \in Seq(Nat), NEW p \in 0 .. Len(all), NEW n \in 1 .. Len(all) - p
  PROVE  LET c == SubSeq(all, p + 1, Len(all))
         IN  /\ n \in Nat /\ p \in Nat /\ p + n \in 0 .. Len(all) /\ Len(c) = Len(all) - p
             /\ SubSeq(c, 1, n) = SubSeq(all, p + 1, p + n)
             /\ SubSeq(c, n + 1, Len(c)) = SubSeq(all, (p + n) + 1, Len(all))
             /\ Len(all) - Len(SubSeq(c, n + 1, Len(c))) = p + n
<1> DEFINE c == SubSeq(all, p + 1, Len(all))
           t == p + n
           x == SubSeq(c, 1, n)
           y == SubSeq(all, p + 1, t)
           z == SubSeq(c, n + 1, Len(c))
<1>1. Len(all) \in Nat /\ p \in Nat /\ p <= Len(all) /\ Len(all) \in p .. Len(all)
  OBVIOUS
<1>2. /\ Len(c) = Len(all) - p /\ c \in Seq(Nat)
      /\ \A k \in 1 .. Len(all) - p : c[k] = all[p + k]
  BY <1>1, PartAfter
<1> HIDE DEF c
<1>3. n \in Nat /\ n >= 1 /\ n <= Len(all) - p
  BY <1>1, <1>2
<1>4. /\ t \in p .. Len(all) /\ t \in Nat /\ t \in 0 .. Len(all) /\ t - p = n
      /\ 0 \in 0 .. Len(c) /\ n \in 0 .. Len(c)
  BY <1>1, <1>2, <1>3
<1>5. x = y
  <2> HIDE DEF x, y, z, t
  <2>2. x \in Seq(Nat) /\ Len(x) = n /\ \A k \in 1 .. n : x[k] = c[k]
    BY <1>2, <1>4, PartInFront DEF x
  <2>3. y \in Seq(Nat) /\ Len(y) = t - p /\ \A k \in 1 .. t - p : y[k] = all[p + k]
    BY <1>4, PartAfter DEF y
  <2> HIDE DEF x, y, t
  <2>5. ASSUME NEW k \in 1 .. n PROVE x[k] = y[k]
    <3>1. k \in 1 .. Len(all) - p
      BY <1>1, <1>3
    <3>2. QED
      BY <1>2, <1>4, <2>2, <2>3, <3>1
  <2>6. QED
    BY <1>3, <1>4, <2>2, <2>3, <2>5, SameEntries
<1>6. z = SubSeq(all, t + 1, Len(all))
  <2>1. n \in 0 .. Len(all) - (p + 1) + 1 /\ p + 1 \in 1 .. Len(all) + 1
        /\ Len(all) \in (p + 1) - 1 .. Len(all) /\ (p + 1) + n = t + 1
    BY <1>1, <1>3
  <2> HIDE DEF t
  <2>2. SubSeq(SubSeq(all, p + 1, Len(all)), n + 1, Len(SubSeq(all, p + 1, Len(all))))
          = SubSeq(all, (p + 1) + n, Len(all))
    BY <2>1, CutPart
  <2>3. QED
    BY <2>1, <2>2 DEF c
<1>7. Len(all) - Len(z) = t
  <2>1. Len(all) \in t .. Len(all) /\ t \in 0 .. Len(all)
    BY <1>1, <1>4
  <2> HIDE DEF z, t
  <2>2. Len(z) = Len(all) - t
    BY <1>6, <2>1, PartAfter
  <2>3. QED
    BY <1>1, <1>4, <2>2
<1>8. QED
  BY <1>1, <1>2, <1>3, <1>4, <1>5, <1>6, <1>7 DEF c

\* What one side's message does when the buffer holds the beginning of that
\* side's next packet.
LEMMA MessageReads ==
  ASSUME NEW s \in Seq(Kinds), NEW p \in 0 .. Len(WireOf(s)), NEW read \in 0 .. Len(s),
         Off(s, read) <= p, NEW n \in 1 .. Len(WireOf(s)) - p, NEW b
  PROVE  LET c == SubSeq(WireOf(s), p + 1, Len(WireOf(s)))
         IN  b = SubSeq(WireOf(s), Off(s, read) + 1, p) \o SubSeq(c, 1, n) =>
               \E m \in 0 .. Len(s) :
                 /\ Off(s, m) <= p + n /\ (m < Len(s) => p + n < Off(s, m + 1))
                 /\ SubSeq(Shown(s), 1, read) \o Loop(b)[Len(b)].packets = SubSeq(Shown(s), 1, m)
                 /\ Len(SubSeq(Shown(s), 1, m)) = m
                 /\ Loop(b)[Len(b)].rest = SubSeq(WireOf(s), Off(s, m) + 1, p + n)
<1> DEFINE all == WireOf(s)
           o == Off(s, read)
           t == p + n
           u == Shown(s)
           c == SubSeq(WireOf(s), p + 1, Len(WireOf(s)))
<1> SUFFICES ASSUME b = SubSeq(WireOf(s), Off(s, read) + 1, p) \o SubSeq(c, 1, n)
             PROVE  \E m \in 0 .. Len(s) :
                      /\ Off(s, m) <= t /\ (m < Len(s) => t < Off(s, m + 1))
                      /\ SubSeq(u, 1, read) \o Loop(b)[Len(b)].packets = SubSeq(u, 1, m)
                      /\ Len(SubSeq(u, 1, m)) = m
                      /\ Loop(b)[Len(b)].rest = SubSeq(all, Off(s, m) + 1, t)
  OBVIOUS
<1>1. all \in Seq(Nat) /\ Len(all) \in Nat /\ Len(s) \in Nat /\ read \in Nat
  <2>1. WireOf(s) \in Seq(Nat)
    BY WireTyped
  <2> HIDE DEF o, t, u
  <2>2. Len(all) \in Nat
    BY <2>1
  <2>3. Len(s) \in Nat /\ read \in Nat
    OBVIOUS
  <2>4. QED
    BY <2>1, <2>2, <2>3
<1>2. o \in Nat
  BY FirstIs
<1>3. u \in Seq(SeenKinds) /\ Len(u) = Len(s)
  BY ShownIs
<1> HIDE DEF all, o, u
<1>4. n \in Nat /\ p \in Nat /\ t \in 0 .. Len(all) /\ SubSeq(c, 1, n) = SubSeq(all, p + 1, t)
  BY <1>1, ComesOn DEF all
<1>5. o \in 0 .. Len(all) /\ p \in o .. Len(all) /\ t \in p .. Len(all) /\ t \in o .. Len(all)
  <2>1. o <= p
    BY DEF o
  <2>2. p <= Len(all) /\ t <= Len(all) /\ t = p + n /\ t \in Nat
    <3>1. p <= Len(WireOf(s))
      BY <1>1 DEF all
    <3>2. QED
      BY <1>1, <1>4, <3>1 DEF all
  <2> HIDE DEF t
  <2>3. p <= t /\ o <= t
    BY <1>2, <1>4, <2>1, <2>2
  <2>4. QED
    BY <1>1, <1>2, <1>4, <2>1, <2>2, <2>3
<1> HIDE DEF t
<1>6. b = SubSeq(all, o + 1, t)
  <2>1. SubSeq(all, o + 1, p) \o SubSeq(all, p + 1, t) = SubSeq(all, o + 1, t)
    BY <1>1, <1>5, Joined
  <2>2. b = SubSeq(all, o + 1, p) \o SubSeq(c, 1, n)
    BY DEF all, o
  <2>3. QED
    BY <1>4, <2>1, <2>2
<1>7. PICK m \in read .. Len(s) :
        /\ Off(s, m) <= t /\ (m < Len(s) => t < Off(s, m + 1))
        /\ Loop(b)[Len(b)] = [rest    |-> SubSeq(all, Off(s, m) + 1, t),
                              packets |-> SubSeq(u, read + 1, m)]
  <2>1. t \in Off(s, read) .. Len(WireOf(s)) /\ b = SubSeq(WireOf(s), Off(s, read) + 1, t)
    BY <1>5, <1>6 DEF all, o
  <2>2. QED
    BY <2>1, AllRounds DEF all, u
<1>8. m \in 0 .. Len(s) /\ m \in Nat /\ 0 \in 0 .. Len(u) /\ read \in 0 .. Len(u) /\ m \in read .. Len(u)
  BY <1>1, <1>3
<1>9. Loop(b)[Len(b)].rest = SubSeq(all, Off(s, m) + 1, t)
      /\ Loop(b)[Len(b)].packets = SubSeq(u, read + 1, m)
  <2> DEFINE x == SubSeq(all, Off(s, m) + 1, t)
             y == SubSeq(u, read + 1, m)
             end == Loop(b)[Len(b)]
  <2>1. end = [rest |-> x, packets |-> y]
    BY <1>7
  <2> HIDE DEF x, y, end
  <2>2. end.rest = x /\ end.packets = y
    BY <2>1, Zenon
  <2>3. QED
    BY <2>2 DEF x, y, end
<1>10. SubSeq(u, 1, read) \o SubSeq(u, read + 1, m) = SubSeq(u, 1, m)
  <2>1. SubSeq(u, 0 + 1, read) \o SubSeq(u, read + 1, m) = SubSeq(u, 0 + 1, m)
    <3>1. read \in 0 .. Len(u) /\ 0 \in 0 .. Len(u) /\ read \in 0 .. Len(u) /\ m \in read .. Len(u)
      BY <1>8
    <3>2. QED
      BY <1>3, <3>1, Joined
  <2>2. 0 + 1 = 1
    OBVIOUS
  <2>3. QED
    BY <2>1, <2>2
<1>11. Len(SubSeq(u, 1, m)) = m
  <2>1. 1 \in 1 .. Len(u) + 1 /\ m \in 1 - 1 .. Len(u)
    BY <1>1, <1>3, <1>8
  <2>2. Len(SubSeq(u, 1, m)) = m - 1 + 1
    BY <1>3, <2>1, PartIs
  <2>3. QED
    BY <1>8, <2>2
<1>12. QED
  BY <1>7, <1>8, <1>9, <1>10, <1>11 DEF all, u, t

LEMMA ReadInvInit == Init => ReadInv
<1> SUFFICES ASSUME Init PROVE ReadInv
  OBVIOUS
<1>1. PICK n \in 0 .. MaxSent, m \in 0 .. MaxSent :
        \E u \in [1 .. n -> ClientKinds], v \in [1 .. m -> ServerKinds] :
          sent = [client |-> u, server |-> v]
  BY DEF Init
<1>2. PICK u \in [1 .. n -> ClientKinds], v \in [1 .. m -> ServerKinds] :
        sent = [client |-> u, server |-> v]
  BY <1>1
<1>3. n \in Nat /\ m \in Nat
  BY SentAssumption
<1>4. u \in Seq(Kinds) /\ v \in Seq(Kinds)
  <2>1. u \in [1 .. n -> Kinds] /\ v \in [1 .. m -> Kinds]
    BY DEF Kinds
  <2>2. QED
    BY <1>3, <2>1
<1>5. /\ coming = [d \in Sides |-> WireOf(sent[d])] /\ dumped = [d \in Sides |-> <<>>]
      /\ buffer = <<>> /\ left = -1 /\ sender = "client"
  BY DEF Init
<1>6. ASSUME NEW d \in Sides PROVE ComeInv(d) /\ SideInv(d)
  <2> DEFINE s == sent[d]
             all == WireOf(s)
  <2>1. s \in Seq(Kinds) /\ Len(s) \in Nat
    BY <1>2, <1>4 DEF Sides
  <2>2. coming[d] = all /\ dumped[d] = <<>> /\ Len(dumped[d]) = 0 /\ Mine(d) = <<>>
    BY <1>5 DEF Mine
  <2> HIDE DEF s
  <2>3. all \in Seq(Nat)
    BY <2>1, WireTyped
  <2>4. Shown(s) \in Seq(SeenKinds)
    BY <2>1, ShownIs
  <2>5. Off(s, 0) = 0
    BY <2>1, FirstIs
  <2>6. 0 < Len(s) => 0 < Off(s, 1)
    <3>1. SUFFICES ASSUME 0 < Len(s) PROVE 0 < Off(s, 1)
      OBVIOUS
    <3>2. 0 \in 0 .. 1 /\ 0 \in 0 .. Len(s) /\ 1 \in 0 .. Len(s) /\ 1 \in 0 .. Len(s)
      BY <2>1, <3>1
    <3>3. Off(s, 0) + (1 - 0) <= Off(s, 1) /\ Off(s, 1) \in Nat
      BY <2>1, <3>2, Grows, FirstIs
    <3>4. QED
      BY <2>5, <3>3
  <2> HIDE DEF all
  <2>7. Len(all) \in Nat /\ Passed(d) = 0
    BY <2>2, <2>3 DEF Passed, all, s
  <2>8. all = SubSeq(all, 1, Len(all)) /\ SubSeq(all, 1, 0) = <<>> /\ SubSeq(Shown(s), 1, 0) = <<>>
    BY <2>3, <2>4
  <2>9. ComeInv(d)
    BY <2>1, <2>2, <2>7, <2>8 DEF ComeInv, all, s
  <2>10. SideInv(d)
    <3>1. 0 + 1 = 1 /\ 0 \in 0 .. Len(s) /\ 0 <= 0
      BY <2>1
    <3>2. QED
      BY <2>1, <2>2, <2>5, <2>6, <2>7, <2>8, <3>1 DEF SideInv, all, s
  <2>11. QED
    BY <2>9, <2>10
<1>7. QED
  BY <1>5, <1>6 DEF ReadInv, Sides

\* How long what is read of a side is.
LEMMA MineIs ==
  ASSUME NEW d \in Sides, ComeInv(d), SideInv(d)
  PROVE  /\ Unread(d) \in Nat /\ Passed(d) \in Nat
         /\ left = -1 => Mine(d) \in Seq(Nat) /\ Len(Mine(d)) = Unread(d)
<1> DEFINE all == WireOf(sent[d])
           o == Off(sent[d], Len(dumped[d]))
           p == Passed(d)
<1>1. sent[d] \in Seq(Kinds) /\ p \in 0 .. Len(all) /\ Len(dumped[d]) \in 0 .. Len(sent[d])
      /\ o <= p /\ (left = -1 => Mine(d) = SubSeq(all, o + 1, p))
  BY DEF ComeInv, SideInv
<1>2. all \in Seq(Nat) /\ o \in Nat
  BY <1>1, WireTyped, FirstIs
<1> HIDE DEF all, o, p
<1>3. o \in 0 .. Len(all) /\ p \in o .. Len(all) /\ p \in Nat
  BY <1>1, <1>2
<1>4. SubSeq(all, o + 1, p) \in Seq(Nat) /\ Len(SubSeq(all, o + 1, p)) = p - o
  BY <1>2, <1>3, PartAfter
<1>5. Unread(d) = p - o
  BY DEF Unread, p, o
<1>6. p - o \in Nat
  BY <1>2, <1>3
<1>7. QED
  BY <1>1, <1>3, <1>4, <1>5, <1>6 DEF p

LEMMA MessageKeeps ==
  ASSUME ReadInv, NEW e \in Sides, NEW n \in 1 .. Len(coming[e]), Message(e, n)
  PROVE  ReadInv'
<1> DEFINE b == Received(e, n)
           end == Loop(b)[Len(b)]
<1>1. /\ DOMAIN coming = Sides /\ DOMAIN dumped = Sides
      /\ left = -1 /\ left' = -1 /\ sent' = sent /\ sender' = e
      /\ mixed' = (mixed \/ (buffer # <<>> /\ sender # e))
      /\ coming' = [coming EXCEPT ![e] = SubSeq(coming[e], n + 1, Len(coming[e]))]
      /\ dumped' = [dumped EXCEPT ![e] = dumped[e] \o end.packets]
      /\ buffer' = end.rest
  BY DEF Message, PassBy, ReadInv
<1>2. /\ DOMAIN coming' = Sides /\ DOMAIN dumped' = Sides
      /\ coming'[e] = SubSeq(coming[e], n + 1, Len(coming[e]))
      /\ dumped'[e] = dumped[e] \o end.packets
      /\ \A d \in Sides \ {e} : coming'[d] = coming[d] /\ dumped'[d] = dumped[d]
  BY <1>1
<1> HIDE DEF end
<1>3. \A d \in Sides : ComeInv(d)
  BY DEF ReadInv
<1>4. ASSUME NEW d \in Sides \ {e} PROVE ComeInv(d)' /\ Passed(d)' = Passed(d)
  <2>1. sent'[d] = sent[d] /\ coming'[d] = coming[d] /\ ComeInv(d)
    BY <1>1, <1>2, <1>3
  <2>2. QED
    BY <2>1 DEF ComeInv, Passed
<1> DEFINE s == sent[e]
           all == WireOf(s)
           p == Passed(e)
<1>5. s \in Seq(Kinds) /\ p \in 0 .. Len(all) /\ coming[e] = SubSeq(all, p + 1, Len(all))
  BY <1>3 DEF ComeInv
<1>6. /\ n \in Nat /\ p + n \in 0 .. Len(all)
      /\ coming'[e] = SubSeq(all, (p + n) + 1, Len(all)) /\ Len(all) - Len(coming'[e]) = p + n
      /\ n \in 1 .. Len(all) - p
  <2>1. all \in Seq(Nat)
    BY <1>5, WireTyped
  <2>2. n \in 1 .. Len(all) - p
    <3>1. Len(all) \in Nat /\ p \in 0 .. Len(all) /\ Len(all) \in p .. Len(all)
      BY <1>5, <2>1
    <3> HIDE DEF all, p
    <3>2. Len(coming[e]) = Len(all) - p
      BY <1>5, <2>1, <3>1, PartAfter
    <3>3. QED
      BY <3>2
  <2>3. p \in 0 .. Len(all)
    BY <1>5
  <2> DEFINE c == SubSeq(all, p + 1, Len(all))
  <2>4. c = coming[e]
    BY <1>5
  <2> HIDE DEF all, p
  <2>5. /\ n \in Nat /\ p \in Nat /\ p + n \in 0 .. Len(all)
        /\ SubSeq(c, n + 1, Len(c)) = SubSeq(all, (p + n) + 1, Len(all))
        /\ Len(all) - Len(SubSeq(c, n + 1, Len(c))) = p + n
    BY <2>1, <2>2, <2>3, ComesOn
  <2> HIDE DEF c
  <2>6. SubSeq(c, n + 1, Len(c)) = coming'[e]
    BY <1>2, <2>4
  <2>7. QED
    BY <2>2, <2>5, <2>6
<1>7. Passed(e)' = p + n
  BY <1>1, <1>6 DEF Passed
<1>8. ComeInv(e)'
  BY <1>1, <1>5, <1>6, <1>7 DEF ComeInv
<1>9. ASSUME ~mixed' PROVE \A d \in Sides : SideInv(d)'
  <2>1. ~mixed /\ (buffer = <<>> \/ sender = e) /\ \A d \in Sides : SideInv(d)
    BY <1>1, <1>9 DEF ReadInv
  <2>2. ASSUME NEW d \in Sides \ {e} PROVE SideInv(d)'
    <3>1. Mine(d) = <<>> /\ Mine(d)' = <<>>
      BY <1>1, <2>1 DEF Mine
    <3>2. sent'[d] = sent[d] /\ dumped'[d] = dumped[d] /\ Passed(d)' = Passed(d)
      BY <1>1, <1>2, <1>4
    <3>3. SideInv(d)
      BY <2>1
    <3>4. QED
      BY <1>1, <3>1, <3>2, <3>3 DEF SideInv, Off, First, Shown
  <2>3. SideInv(e)'
    <3> DEFINE read == Len(dumped[e])
    <3>1. Mine(e) = buffer /\ SideInv(e)
      BY <2>1 DEF Mine
    <3>2. read \in 0 .. Len(s) /\ dumped[e] = SubSeq(Shown(s), 1, read) /\ Off(s, read) <= p
          /\ buffer = SubSeq(all, Off(s, read) + 1, p)
      BY <1>1, <3>1 DEF SideInv
    <3>3. b = SubSeq(all, Off(s, read) + 1, p) \o SubSeq(coming[e], 1, n)
      BY <3>2 DEF Received
    <3> DEFINE c == SubSeq(WireOf(s), p + 1, Len(WireOf(s)))
    <3>4. b = SubSeq(WireOf(s), Off(s, read) + 1, p) \o SubSeq(c, 1, n)
      BY <1>5, <3>3
    <3>5. /\ s \in Seq(Kinds) /\ p \in 0 .. Len(WireOf(s)) /\ n \in 1 .. Len(WireOf(s)) - p
          /\ read \in 0 .. Len(s) /\ Off(s, read) <= p
      BY <1>5, <1>6, <3>2
    <3> HIDE DEF b, read, s, p
    <3>6. \E m \in 0 .. Len(s) :
            /\ Off(s, m) <= p + n /\ (m < Len(s) => p + n < Off(s, m + 1))
            /\ SubSeq(Shown(s), 1, read) \o Loop(b)[Len(b)].packets = SubSeq(Shown(s), 1, m)
            /\ Len(SubSeq(Shown(s), 1, m)) = m
            /\ Loop(b)[Len(b)].rest = SubSeq(WireOf(s), Off(s, m) + 1, p + n)
      <4> DEFINE from == SubSeq(WireOf(s), Off(s, read) + 1, p) \o SubSeq(c, 1, n)
                 Reads(x) == \E m \in 0 .. Len(s) :
                   /\ Off(s, m) <= p + n /\ (m < Len(s) => p + n < Off(s, m + 1))
                   /\ SubSeq(Shown(s), 1, read) \o Loop(x)[Len(x)].packets = SubSeq(Shown(s), 1, m)
                   /\ Len(SubSeq(Shown(s), 1, m)) = m
                   /\ Loop(x)[Len(x)].rest = SubSeq(WireOf(s), Off(s, m) + 1, p + n)
      <4>1. \A x : x = from => Reads(x)
        BY <3>5, MessageReads, Zenon
      <4> HIDE DEF from, Reads
      <4>2. Reads(b)
        BY <3>4, <4>1 DEF from
      <4>3. QED
        BY <4>2 DEF Reads
    <3>7. PICK m \in 0 .. Len(s) :
            /\ Off(s, m) <= p + n /\ (m < Len(s) => p + n < Off(s, m + 1))
            /\ dumped[e] \o end.packets = SubSeq(Shown(s), 1, m)
            /\ Len(SubSeq(Shown(s), 1, m)) = m
            /\ end.rest = SubSeq(WireOf(s), Off(s, m) + 1, p + n)
      BY <3>2, <3>6 DEF end
    <3>8. Len(dumped'[e]) = m /\ dumped'[e] = SubSeq(Shown(s), 1, m) /\ sent'[e] = s
      BY <1>1, <1>2, <3>7 DEF s
    <3>9. Mine(e)' = SubSeq(all, Off(s, m) + 1, p + n)
      BY <1>1, <3>7 DEF Mine
    <3>10. Passed(e)' = p + n
      BY <1>7
    <3>11. QED
      BY <3>7, <3>8, <3>9, <3>10 DEF SideInv, Off, First, Shown
  <2>4. QED
    BY <2>2, <2>3
<1>10. \A d \in Sides : ComeInv(d)'
  BY <1>4, <1>8
<1>11. QED
  BY <1>1, <1>2, <1>9, <1>10 DEF ReadInv

LEMMA EndKeeps == ReadInv /\ End => ReadInv'
<1> SUFFICES ASSUME ReadInv, End PROVE ReadInv'
  OBVIOUS
<1>1. /\ DOMAIN coming = Sides /\ DOMAIN dumped = Sides /\ sender \in Sides
      /\ left = -1 /\ left' = Len(buffer)
      /\ sent' = sent /\ coming' = coming /\ dumped' = dumped /\ sender' = sender /\ mixed' = mixed
  BY DEF End, ReadInv
<1>2. ASSUME NEW d \in Sides PROVE ComeInv(d)' /\ Unread(d)' = Unread(d) /\ Passed(d)' = Passed(d)
  <2>1. ComeInv(d)
    BY DEF ReadInv
  <2>2. QED
    BY <1>1, <2>1 DEF ComeInv, Passed, Unread, Off, First
<1>3. ASSUME ~mixed PROVE left' = Unread("client") + Unread("server") /\ left' # -1
  <2>1. \A d \in Sides : ComeInv(d) /\ SideInv(d)
    BY <1>3 DEF ReadInv
  <2>2. "client" \in Sides /\ "server" \in Sides /\ (sender = "client" \/ sender = "server")
    BY <1>1 DEF Sides
  <2>3. /\ Unread("client") \in Nat /\ Len(Mine("client")) = Unread("client")
        /\ Unread("server") \in Nat /\ Len(Mine("server")) = Unread("server")
    BY <1>1, <2>1, <2>2, MineIs
  <2>4. Len(<<>>) = 0
    OBVIOUS
  <2>5. CASE sender = "client"
    <3>1. Mine("client") = buffer /\ Mine("server") = <<>>
      BY <2>5 DEF Mine
    <3>2. QED
      BY <1>1, <2>3, <2>4, <3>1
  <2>6. CASE sender = "server"
    <3>1. Mine("server") = buffer /\ Mine("client") = <<>>
      BY <2>6 DEF Mine
    <3>2. QED
      BY <1>1, <2>3, <2>4, <3>1
  <2>7. QED
    BY <2>2, <2>5, <2>6
<1>4. ASSUME ~mixed, NEW d \in Sides PROVE SideInv(d)'
  <2>1. SideInv(d)
    BY <1>4 DEF ReadInv
  <2>2. QED
    BY <1>1, <1>2, <1>3, <1>4, <2>1 DEF SideInv, Off, First, Shown
<1>5. ~mixed => left' = Unread("client")' + Unread("server")'
  BY <1>2, <1>3 DEF Sides
<1>6. QED
  BY <1>1, <1>2, <1>4, <1>5 DEF ReadInv

LEMMA ReadInvStep == ReadInv /\ [Next]_vars => ReadInv'
<1> SUFFICES ASSUME ReadInv, [Next]_vars PROVE ReadInv'
  OBVIOUS
<1>1. CASE End
  BY <1>1, EndKeeps
<1>2. ASSUME NEW e \in Sides, NEW n \in 1 .. Len(coming[e]), Message(e, n) PROVE ReadInv'
  BY <1>2, MessageKeeps
<1>3. CASE UNCHANGED vars
  <2>1. /\ sent' = sent /\ coming' = coming /\ buffer' = buffer /\ dumped' = dumped
        /\ left' = left /\ sender' = sender /\ mixed' = mixed
    BY <1>3 DEF vars
  <2>2. \A d \in Sides : ComeInv(d)' <=> ComeInv(d)
    BY <2>1 DEF ComeInv, Passed
  <2>3. \A d \in Sides : SideInv(d)' <=> SideInv(d)
    BY <2>1 DEF SideInv, Passed, Mine, Off, First, Shown
  <2>4. \A d \in Sides : Unread(d)' = Unread(d)
    BY <2>1 DEF Unread, Passed, Off, First
  <2>5. QED
    BY <2>1, <2>2, <2>3, <2>4 DEF ReadInv, Sides
<1>4. QED
  BY <1>1, <1>2, <1>3 DEF Next

\* As many packets of a side are dumped as have come whole.
LEMMA CountIs ==
  ASSUME NEW d \in Sides, ComeInv(d), SideInv(d)
  PROVE  Count(d) = Len(dumped[d])
<1> DEFINE s == sent[d]
           read == Len(dumped[d])
           p == Passed(d)
           whole == Come(d)
<1>1. /\ s \in Seq(Kinds) /\ read \in 0 .. Len(s) /\ p \in 0 .. Len(WireOf(s)) /\ Off(s, read) <= p
      /\ read < Len(s) => p < Off(s, read + 1)
  BY DEF ComeInv, SideInv
<1>2. whole = {i \in 1 .. Len(s) : Off(s, i) <= p}
  <2>1. DOMAIN s = 1 .. Len(s)
    BY <1>1
  <2>2. QED
    BY <2>1 DEF Come, Off, First
<1> HIDE DEF s, read, p, whole
<1>3. Len(s) \in Nat /\ read \in Nat /\ p \in Int
  <2>1. WireOf(s) \in Seq(Nat)
    BY <1>1, WireTyped
  <2>2. QED
    BY <1>1, <2>1
<1>4. \A i \in 0 .. Len(s) : Off(s, i) \in Nat
  BY <1>1, FirstIs
<1>5. ASSUME NEW i \in 1 .. Len(s) PROVE i \in whole <=> i <= read
  <2>1. i \in 0 .. Len(s) /\ i \in Nat
    BY <1>3
  <2>2. i \in whole <=> Off(s, i) <= p
    BY <1>2
  <2>3. CASE i <= read
    <3>1. read \in i .. Len(s)
      BY <1>1, <1>3, <2>1, <2>3
    <3>2. Off(s, i) + (read - i) <= Off(s, read)
      BY <1>1, <2>1, <3>1, Grows
    <3>3. Off(s, i) \in Nat /\ Off(s, read) \in Nat
      BY <1>1, <1>4, <2>1
    <3>4. Off(s, i) <= p
      BY <1>1, <1>3, <2>1, <2>3, <3>2, <3>3
    <3>5. QED
      BY <2>2, <2>3, <3>4
  <2>4. CASE ~(i <= read)
    <3>1. read < Len(s) /\ read + 1 \in 0 .. Len(s) /\ i \in read + 1 .. Len(s)
      BY <1>1, <1>3, <2>1, <2>4
    <3>2. Off(s, read + 1) + (i - (read + 1)) <= Off(s, i)
      BY <1>1, <3>1, Grows
    <3>3. Off(s, read + 1) \in Nat /\ Off(s, i) \in Nat
      BY <1>4, <2>1, <3>1
    <3>4. ~(Off(s, i) <= p)
      BY <1>1, <1>3, <2>1, <2>4, <3>1, <3>2, <3>3
    <3>5. QED
      BY <2>2, <2>4, <3>4
  <2>5. QED
    BY <2>3, <2>4
<1>6. whole = 1 .. read
  <2>1. \A i \in whole : i \in 1 .. Len(s)
    BY <1>2
  <2>2. \A i \in 1 .. read : i \in 1 .. Len(s) /\ i <= read
    BY <1>1, <1>3
  <2>3. \A i \in 1 .. read : i \in whole
    BY <1>5, <2>2
  <2>4. \A i \in whole : i \in 1 .. Len(s) /\ i <= read
    BY <1>5, <2>1
  <2>5. \A i \in whole : i \in 1 .. read
    BY <1>3, <2>4
  <2>6. QED
    BY <2>3, <2>5
<1>7. Cardinality(whole) = read
  <2>1. Cardinality(1 .. read) = IF 1 > read THEN 0 ELSE read - 1 + 1
    BY <1>3, FS_Interval
  <2>2. QED
    BY <1>3, <1>6, <2>1
<1>8. QED
  BY <1>7 DEF Count, whole, read

LEMMA ReadInvSays == ReadInv => ReadAsSent
<1> SUFFICES ASSUME ReadInv, ~mixed
             PROVE  LET Rest(d) == Passed(d) - Len(WireOf(SubSeq(sent[d], 1, Count(d))))
                    IN  EachAsSent /\ left \in {-1, Rest("client") + Rest("server")}
  BY DEF ReadAsSent
<1>1. \A d \in Sides : ComeInv(d) /\ SideInv(d)
  BY DEF ReadInv
<1>2. \A d \in Sides : Count(d) = Len(dumped[d])
  BY <1>1, CountIs
<1>3. EachAsSent
  BY <1>1, <1>2 DEF EachAsSent, SideInv
<1>4. \A d \in Sides : Passed(d) - Len(WireOf(SubSeq(sent[d], 1, Count(d)))) = Unread(d)
  BY <1>2 DEF Unread, Off, First
<1>5. "client" \in Sides /\ "server" \in Sides
  BY DEF Sides
<1>6. left \in {-1, Unread("client") + Unread("server")}
  BY DEF ReadInv
<1>7. QED
  BY <1>3, <1>4, <1>5, <1>6

\* Whatever packets the two sides of a connection send, if each is read as it was
\* sent when it comes alone, and however they are concatenated and split over the
\* messages of a side: as long as no message comes while the buffer that both share
\* holds the beginning of a packet of the other side, websocket_message() dumps of
\* each side exactly those that have passed by whole, in order and each as it was
\* sent, and websocket_end() warns of the bytes of the rest.
THEOREM HoweverSplit == Spec => []ReadAsSent
<1>1. Spec => []ReadInv
  BY ReadInvInit, ReadInvStep, PTL DEF Spec
<1>2. QED
  BY <1>1, ReadInvSays, PTL
=============================================================================
