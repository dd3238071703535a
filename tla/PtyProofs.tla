----------------------------- MODULE PtyProofs ------------------------------
(***************************************************************************)
(* Proofs about the terminal sessions of Pty.  A client's output is the    *)
(* concatenation of frames, so the first part proves by induction what     *)
(* FlattenSeq computes; the second what Units, Decoded and Chunks do to    *)
(* the units; the third is the inductive invariant.                        *)
(***************************************************************************)
EXTENDS Pty, SequenceTheorems, WellFoundedInduction, TLAPS

-----------------------------------------------------------------------------
(* A set that holds 0 and the successor of each of its numbers holds them all:
   induction without an operator for the induction hypothesis. *)
LEMMA NatSetInduction ==
  ASSUME NEW T, 0 \in T, \A n \in Nat : n \in T => n + 1 \in T
  PROVE  \A n \in Nat : n \in T
<1> SUFFICES ASSUME Nat \ T # {} PROVE FALSE
  OBVIOUS
<1> DEFINE Less == OpToRel(<, Nat)
<1>1. IsWellFoundedOn(Less, Nat)
  BY NatLessThanWellFounded
<1>2. \A x, y \in Nat : y < x => <<y, x>> \in Less
  BY DEF OpToRel
<1> HIDE DEF Less
<1>3. Nat \ T \subseteq Nat
  OBVIOUS
<1>4. PICK x \in Nat \ T : \A y \in Nat \ T : ~ (<<y, x>> \in Less)
  BY <1>1, <1>3, WFMin
<1>5. x # 0 /\ x - 1 \in Nat /\ x - 1 < x
  BY <1>4
<1>6. x - 1 \in T
  BY <1>2, <1>4, <1>5
<1> QED
  BY <1>4, <1>5, <1>6

(* The function FlattenSeq is defined by exists. *)
LEMMA FlattenExists ==
  ASSUME NEW seqs
  PROVE  \A n \in Nat : \E g :
           g = [i \in 1 .. n |-> IF i = 1 THEN seqs[i] ELSE g[i - 1] \o seqs[i]]
<1> DEFINE T == {n \in Nat : \E g :
             g = [i \in 1 .. n |-> IF i = 1 THEN seqs[i] ELSE g[i - 1] \o seqs[i]]}
<1>1. 0 \in T
  <2> DEFINE g == [i \in 1 .. 0 |-> seqs[i]]
  <2>1. g = [i \in 1 .. 0 |-> IF i = 1 THEN seqs[i] ELSE g[i - 1] \o seqs[i]]
    OBVIOUS
  <2> QED
    BY <2>1
<1>2. ASSUME NEW n \in Nat, n \in T PROVE n + 1 \in T
  <2>1. PICK g : g = [i \in 1 .. n |-> IF i = 1 THEN seqs[i] ELSE g[i - 1] \o seqs[i]]
    BY <1>2
  <2> DEFINE h == [i \in 1 .. n + 1 |-> IF i \in 1 .. n THEN g[i]
                                         ELSE IF i = 1 THEN seqs[i] ELSE g[i - 1] \o seqs[i]]
  <2>2. \A i \in 1 .. n + 1 : h[i] = IF i = 1 THEN seqs[i] ELSE h[i - 1] \o seqs[i]
    <3> TAKE i \in 1 .. n + 1
    <3>1. CASE i = 1
      BY <2>1, <3>1
    <3>2. CASE i # 1
      <4>1. i - 1 \in 1 .. n
        BY <3>2
      <4>2. h[i - 1] = g[i - 1]
        BY <4>1
      <4>3. CASE i \in 1 .. n
        <5>1. g[i] = g[i - 1] \o seqs[i]
          BY <2>1, <3>2, <4>3
        <5> QED
          BY <3>2, <4>2, <4>3, <5>1
      <4>4. CASE i \notin 1 .. n
        BY <3>2, <4>2, <4>4
      <4> QED
        BY <4>3, <4>4
    <3> QED
      BY <3>1, <3>2
  <2>3. h = [i \in 1 .. n + 1 |-> IF i = 1 THEN seqs[i] ELSE h[i - 1] \o seqs[i]]
    <3> DEFINE k == [i \in 1 .. n + 1 |-> IF i = 1 THEN seqs[i] ELSE h[i - 1] \o seqs[i]]
    <3>1. \A i \in 1 .. n + 1 : h[i] = k[i]
      BY <2>2
    <3>2. DOMAIN h = 1 .. n + 1 /\ DOMAIN k = 1 .. n + 1
      OBVIOUS
    <3>3. h = [i \in 1 .. n + 1 |-> h[i]] /\ k = [i \in 1 .. n + 1 |-> k[i]]
      OBVIOUS
    <3> HIDE DEF h, k
    <3>4. h = k
      BY <3>1, <3>3
    <3> QED
      BY <3>4 DEF k
  <2> HIDE DEF h
  <2>4. n + 1 \in Nat
    OBVIOUS
  <2> QED
    BY <2>3, <2>4
<1> HIDE DEF T
<1>3. \A n \in Nat : n \in T
  BY <1>1, <1>2, NatSetInduction
<1> QED
  BY <1>3 DEF T

(* ... so that FlattenSeq is its value for the whole sequence. *)
Flattens(g, seqs) ==
  g = [i \in 1 .. Len(seqs) |-> IF i = 1 THEN seqs[i] ELSE g[i - 1] \o seqs[i]]

LEMMA FlattenUnfolds ==
  ASSUME NEW seqs, Len(seqs) \in Nat \ {0}
  PROVE  \E g : Flattens(g, seqs) /\ FlattenSeq(seqs) = g[Len(seqs)]
<1> DEFINE flatten == CHOOSE flatten : flatten = [i \in 1 .. Len(seqs) |->
                        IF i = 1 THEN seqs[i] ELSE flatten[i - 1] \o seqs[i]]
<1>1. flatten = [i \in 1 .. Len(seqs) |->
                   IF i = 1 THEN seqs[i] ELSE flatten[i - 1] \o seqs[i]]
  <2>1. \E g : g = [i \in 1 .. Len(seqs) |->
                      IF i = 1 THEN seqs[i] ELSE g[i - 1] \o seqs[i]]
    BY FlattenExists
  <2> QED
    BY <2>1
<1>2. FlattenSeq(seqs) = flatten[Len(seqs)]
  BY DEF FlattenSeq
<1> HIDE DEF flatten
<1> QED
  BY <1>1, <1>2 DEF Flattens

LEMMA FlattenEmpty == FlattenSeq(<<>>) = <<>>
BY DEF FlattenSeq

(* Concatenation of frames, and of the characters of one to what precedes it. *)
LEMMA TextConcat ==
  ASSUME NEW a \in Text, NEW b \in Text
  PROVE  /\ a \o b \in Text
         /\ Len(a \o b) = Len(a) + Len(b) /\ Len(a) \in Nat /\ Len(b) \in Nat
         /\ \A k \in 1 .. Len(a) : (a \o b)[k] = a[k]
         /\ \A k \in Len(a) + 1 .. Len(a) + Len(b) : (a \o b)[k] = b[k - Len(a)]
BY DEF Text

LEMMA TextAssoc ==
  ASSUME NEW a \in Text, NEW b \in Text, NEW c \in Text
  PROVE  (a \o b) \o c = a \o (b \o c)
BY ConcatAssociative DEF Text

LEMMA TextEmpty ==
  /\ <<>> \in Text /\ Len(<<>>) = 0
  /\ \A a \in Text : <<>> \o a = a /\ a \o <<>> = a /\ Len(a) \in Nat
<1>1. \A a \in Text : <<>> \o a = a /\ a \o <<>> = a
  BY ConcatEmptySeq DEF Text
<1> QED
  BY <1>1 DEF Text

(* A frame at the end of a channel is at the end of what it holds. *)
LEMMA FlattenAppend ==
  ASSUME NEW s \in Seq(Text), NEW x \in Text
  PROVE  FlattenSeq(Append(s, x)) = FlattenSeq(s) \o x
<1> DEFINE t == Append(s, x)
           n == Len(s)
<1>0. n \in Nat /\ Len(t) = n + 1 /\ t[n + 1] = x /\ \A i \in 1 .. n : t[i] = s[i]
  OBVIOUS
<1> HIDE DEF t
<1>t. Len(t) \in Nat \ {0}
  BY <1>0
<1>g. PICK g : Flattens(g, t) /\ FlattenSeq(t) = g[Len(t)]
  BY <1>t, FlattenUnfolds
<1>1. /\ g = [i \in 1 .. Len(t) |-> IF i = 1 THEN t[i] ELSE g[i - 1] \o t[i]]
      /\ FlattenSeq(t) = g[Len(t)]
  BY <1>g DEF Flattens
<1>2. CASE n = 0
  <2>1. s = <<>>
    BY <1>2
  <2>2. FlattenSeq(t) = x
    BY <1>0, <1>1, <1>2
  <2> QED
    BY <2>1, <2>2, FlattenEmpty, TextEmpty DEF t
<1>3. CASE n # 0
  <2>f. PICK f : Flattens(f, s) /\ FlattenSeq(s) = f[Len(s)]
    BY <1>0, <1>3, FlattenUnfolds
  <2>1. /\ f = [i \in 1 .. n |-> IF i = 1 THEN s[i] ELSE f[i - 1] \o s[i]]
        /\ FlattenSeq(s) = f[n]
    BY <2>f DEF Flattens
  <2> DEFINE T == {i \in Nat : i \in 1 .. n => f[i] = g[i]}
  <2>2. 0 \in T
    BY <1>0
  <2>3. ASSUME NEW i \in Nat, i \in T PROVE i + 1 \in T
    <3>1. SUFFICES ASSUME i + 1 \in 1 .. n PROVE f[i + 1] = g[i + 1]
      OBVIOUS
    <3>2. t[i + 1] = s[i + 1] /\ i + 1 \in 1 .. Len(t)
      BY <1>0, <3>1
    <3>3. CASE i = 0
      <4>1. f[1] = s[1] /\ g[1] = t[1]
        BY <1>1, <2>1, <3>1, <3>2, <3>3
      <4> QED
        BY <3>2, <3>3, <4>1
    <3>4. CASE i # 0
      <4>1. i + 1 # 1 /\ (i + 1) - 1 = i /\ i \in 1 .. n
        BY <1>0, <3>1, <3>4
      <4>2. f[i + 1] = f[i] \o s[i + 1]
        BY <2>1, <3>1, <4>1
      <4>3. g[i + 1] = g[i] \o t[i + 1]
        BY <1>1, <3>2, <4>1
      <4> QED
        BY <2>3, <3>2, <4>1, <4>2, <4>3
    <3> QED
      BY <3>3, <3>4
  <2> HIDE DEF T
  <2>4. \A i \in Nat : i \in T
    BY <2>2, <2>3, NatSetInduction
  <2>5. f[n] = g[n]
    BY <1>0, <1>3, <2>4 DEF T
  <2>6. g[n + 1] = g[n] \o t[n + 1]
    <3>1. n + 1 \in 1 .. Len(t) /\ n + 1 # 1 /\ (n + 1) - 1 = n
      BY <1>0, <1>3
    <3> QED
      BY <1>1, <3>1
  <2> QED
    BY <1>0, <1>1, <2>1, <2>5, <2>6 DEF t
<1> QED
  BY <1>2, <1>3

LEMMA LastFrame ==
  ASSUME NEW t \in Seq(Text), NEW n \in Nat, Len(t) = n + 1
  PROVE  \E f, x : f \in Seq(Text) /\ x \in Text /\ Len(f) = n /\ t = Append(f, x)
<1> DEFINE f == [i \in 1 .. n |-> t[i]]
           x == t[n + 1]
<1>1. f \in Seq(Text) /\ Len(f) = n /\ \A i \in 1 .. n : f[i] = t[i]
  OBVIOUS
<1>2. x \in Text
  OBVIOUS
<1> HIDE DEF f
<1>3. Append(f, x) \in Seq(Text) /\ Len(Append(f, x)) = Len(t)
  BY <1>1, <1>2
<1>4. \A i \in 1 .. Len(t) : Append(f, x)[i] = t[i]
  BY <1>1, <1>2
<1>5. t = Append(f, x)
  BY <1>3, <1>4
<1> QED
  BY <1>1, <1>2, <1>5

LEMMA FlattenType ==
  ASSUME NEW s \in Seq(Text)
  PROVE  FlattenSeq(s) \in Text
<1> DEFINE T == {n \in Nat : \A t \in Seq(Text) : Len(t) = n => FlattenSeq(t) \in Text}
<1>1. 0 \in T
  <2> SUFFICES ASSUME NEW t \in Seq(Text), Len(t) = 0
               PROVE  FlattenSeq(t) \in Text
    OBVIOUS
  <2>1. t = <<>>
    OBVIOUS
  <2>2. <<>> \in Text
    BY TextEmpty
  <2> QED
    BY <2>1, <2>2, FlattenEmpty
<1> HIDE DEF T
<1>2. ASSUME NEW n \in Nat, n \in T PROVE n + 1 \in T
  <2> SUFFICES ASSUME NEW t \in Seq(Text), Len(t) = n + 1
               PROVE  FlattenSeq(t) \in Text
    BY DEF T
  <2>1. PICK f, x : f \in Seq(Text) /\ x \in Text /\ Len(f) = n /\ t = Append(f, x)
    BY LastFrame
  <2>2. FlattenSeq(f) \in Text
    BY <1>2, <2>1 DEF T
  <2> QED
    BY <2>1, <2>2, FlattenAppend, TextConcat
<1>3. \A n \in Nat : n \in T
  BY <1>1, <1>2, NatSetInduction
<1> QED
  BY <1>3 DEF T

(* The frame at the head of a channel is at the front of what it holds. *)
LEMMA FlattenHead ==
  ASSUME NEW s \in Seq(Text), s # <<>>
  PROVE  FlattenSeq(s) = Head(s) \o FlattenSeq(Tail(s))
<1> DEFINE T == {n \in Nat : \A t \in Seq(Text) : Len(t) = n /\ t # <<>> =>
                   FlattenSeq(t) = Head(t) \o FlattenSeq(Tail(t))}
<1>1. 0 \in T
  OBVIOUS
<1> HIDE DEF T
<1>2. ASSUME NEW n \in Nat, n \in T PROVE n + 1 \in T
  <2> SUFFICES ASSUME NEW t \in Seq(Text), Len(t) = n + 1
               PROVE  FlattenSeq(t) = Head(t) \o FlattenSeq(Tail(t))
    BY DEF T
  <2>1. PICK f, x : f \in Seq(Text) /\ x \in Text /\ Len(f) = n /\ t = Append(f, x)
    BY LastFrame
  <2>2. FlattenSeq(t) = FlattenSeq(f) \o x
    BY <2>1, FlattenAppend
  <2>3. CASE f = <<>>
    <3>1. Head(t) = x /\ Tail(t) = <<>>
      BY <2>1, <2>3
    <3> QED
      BY <2>1, <2>2, <2>3, <3>1, FlattenEmpty, TextEmpty
  <2>4. CASE f # <<>>
    <3>1. FlattenSeq(f) = Head(f) \o FlattenSeq(Tail(f))
      BY <1>2, <2>1, <2>4 DEF T
    <3>2. Head(t) = Head(f) /\ Tail(t) = Append(Tail(f), x)
      BY <2>1, <2>4
    <3>3. Tail(f) \in Seq(Text) /\ Head(f) \in Text
      BY <2>1, <2>4, HeadTailProperties
    <3>4. FlattenSeq(Tail(t)) = FlattenSeq(Tail(f)) \o x
      BY <2>1, <3>2, <3>3, FlattenAppend
    <3>5. FlattenSeq(Tail(f)) \in Text
      BY <3>3, FlattenType
    <3>6. (Head(f) \o FlattenSeq(Tail(f))) \o x = Head(f) \o (FlattenSeq(Tail(f)) \o x)
      BY <2>1, <3>3, <3>5, TextAssoc
    <3> QED
      BY <2>2, <3>1, <3>2, <3>4, <3>6
  <2> QED
    BY <2>3, <2>4
<1>3. \A n \in Nat : n \in T
  BY <1>1, <1>2, NatSetInduction
<1>4. Len(s) \in Nat
  OBVIOUS
<1> QED
  BY <1>3, <1>4 DEF T

-----------------------------------------------------------------------------
(* A text with at most some halves of surrogate pairs replaced. *)
Faithful(got, want) ==
  /\ Len(got) = Len(want)
  /\ \A k \in 1 .. Len(got) :
       \/ got[k] = want[k]
       \/ got[k] = "?" /\ want[k] \in {"hi", "lo"}

LEMMA UnitsType ==
  ASSUME NEW data \in Seq({"x", "a1", "a2"})
  PROVE  Units(data) \in Text
BY DEF Units, Text, Unit

LEMMA DecodedFaithful ==
  ASSUME NEW u \in Text
  PROVE  Decoded(u) \in Text /\ Faithful(Decoded(u), u)
<1>1. Len(u) \in Nat /\ \A k \in 1 .. Len(u) : u[k] \in Unit
  BY DEF Text
<1> DEFINE D(k) == CASE u[k] = "hi" /\ (k = Len(u) \/ u[k + 1] # "lo") -> "?"
                     [] u[k] = "lo" /\ (k = 1 \/ u[k - 1] # "hi") -> "?"
                     [] OTHER -> u[k]
<1>2. \A k \in 1 .. Len(u) : /\ D(k) \in Unit
                             /\ \/ D(k) = u[k]
                                \/ D(k) = "?" /\ u[k] \in {"hi", "lo"}
  BY <1>1 DEF Unit
<1>3. Decoded(u) = [k \in 1 .. Len(u) |-> D(k)]
  BY DEF Decoded
<1> HIDE DEF D
<1>4. Decoded(u) \in Text /\ Len(Decoded(u)) = Len(u)
  BY <1>1, <1>2, <1>3 DEF Text
<1> QED
  BY <1>1, <1>2, <1>3, <1>4 DEF Faithful

(* The frames a replay needs: one less does not hold it, their number does. *)
LEMMA Quotient ==
  ASSUME NEW n \in Nat, NEW b \in Nat \ {0}
  PROVE  LET q == (n + b - 1) \div b IN
         /\ q \in Nat
         /\ n <= q * b
         /\ \A k \in Nat : k < q => k * b < n
<1> DEFINE q == (n + b - 1) \div b
<1>1. q \in Nat /\ q * b <= n + b - 1 /\ n + b - 1 < (q + 1) * b
  OBVIOUS
<1> HIDE DEF q
<1>2. n <= q * b
  BY <1>1
<1>3. ASSUME NEW k \in Nat, k < q PROVE k * b < n
  <2>1. (k + 1) * b <= q * b
    BY <1>1, <1>3
  <2> QED
    BY <1>1, <2>1
<1> QED
  BY <1>1, <1>2, <1>3 DEF q

(* The frames of a replay, put together, are the units replayed, whatever the
   size of a frame. *)
LEMMA ChunksFlatten ==
  ASSUME NEW u \in Text
  PROVE  /\ Chunks(u) \in Seq(Text)
         /\ FlattenSeq(Chunks(u)) \in Text
         /\ Faithful(FlattenSeq(Chunks(u)), u)
<1> USE PtyAssumption
<1> DEFINE n == Len(u)
           q == (n + BufferChunk - 1) \div BufferChunk
           Upto(k) == IF k * BufferChunk > n THEN n ELSE k * BufferChunk
           Part(k) == SubSeq(u, (k - 1) * BufferChunk + 1, Upto(k))
           First(k) == [i \in 1 .. k |-> Decoded(Part(i))]
<1>1. n \in Nat /\ BufferChunk \in Nat \ {0}
  BY DEF Text
<1>2. q \in Nat /\ n <= q * BufferChunk /\ \A k \in Nat : k < q => k * BufferChunk < n
  BY <1>1, Quotient
<1>3. Chunks(u) = First(q)
  BY DEF Chunks
<1> HIDE DEF n, q
<1>4. ASSUME NEW k \in Nat, k < q
      PROVE  /\ Upto(k) = k * BufferChunk /\ Upto(k) \in Nat
             /\ Upto(k + 1) \in Nat /\ Upto(k) < Upto(k + 1) /\ Upto(k + 1) <= n
  <2>1. k * BufferChunk < n /\ k * BufferChunk \in Nat
    BY <1>1, <1>2, <1>4
  <2>2. (k + 1) * BufferChunk = k * BufferChunk + BufferChunk
    BY <1>1
  <2> QED
    BY <1>1, <2>1, <2>2
<1>5. ASSUME NEW k \in Nat, k < q
      PROVE  /\ Part(k + 1) \in Text
             /\ Len(Part(k + 1)) = Upto(k + 1) - Upto(k)
             /\ \A i \in 1 .. Len(Part(k + 1)) : Part(k + 1)[i] = u[Upto(k) + i]
  <2> DEFINE lo == k * BufferChunk
             hi == Upto(k + 1)
  <2>1. lo \in Nat /\ hi \in Nat /\ lo < hi /\ hi <= n /\ lo = Upto(k)
    BY <1>4, <1>5
  <2>2. Part(k + 1) = SubSeq(u, lo + 1, hi)
    BY <1>1
  <2> HIDE DEF lo, hi, Part, Upto
  <2>3. /\ SubSeq(u, lo + 1, hi) \in Text
        /\ Len(SubSeq(u, lo + 1, hi)) = hi - lo
        /\ \A i \in 1 .. hi - lo : SubSeq(u, lo + 1, hi)[i] = u[lo + i]
    BY <2>1 DEF n, Text
  <2> QED
    BY <2>1, <2>2, <2>3 DEF hi
<1> HIDE DEF Part
<1>6. \A k \in 0 .. q : First(k) \in Seq(Text)
  <2>1. \A i \in 1 .. q : Decoded(Part(i)) \in Text
    <3> TAKE i \in 1 .. q
    <3>1. i - 1 \in Nat /\ i - 1 < q /\ (i - 1) + 1 = i
      BY <1>2
    <3> QED
      BY <1>5, <3>1, DecodedFaithful
  <2> QED
    BY <1>2, <2>1
<1> DEFINE T == {k \in Nat : k <= q =>
                   /\ FlattenSeq(First(k)) \in Text
                   /\ Len(FlattenSeq(First(k))) = Upto(k)
                   /\ \A i \in 1 .. Upto(k) :
                        \/ FlattenSeq(First(k))[i] = u[i]
                        \/ FlattenSeq(First(k))[i] = "?" /\ u[i] \in {"hi", "lo"}}
<1>7. 0 \in T
  <2>1. First(0) = <<>> /\ Upto(0) = 0
    BY <1>1
  <2> QED
    BY <2>1, FlattenEmpty, TextEmpty
<1> HIDE DEF T
<1>8. ASSUME NEW k \in Nat, k \in T PROVE k + 1 \in T
  <2> SUFFICES ASSUME k + 1 <= q
               PROVE  LET f == FlattenSeq(First(k + 1)) IN
                      /\ f \in Text
                      /\ Len(f) = Upto(k + 1)
                      /\ \A i \in 1 .. Upto(k + 1) :
                           f[i] = u[i] \/ (f[i] = "?" /\ u[i] \in {"hi", "lo"})
    BY DEF T
  <2> DEFINE f == FlattenSeq(First(k))
             p == Part(k + 1)
             d == Decoded(p)
  <2>1. k < q
    BY <1>2
  <2>2. /\ f \in Text /\ Len(f) = Upto(k)
        /\ \A i \in 1 .. Upto(k) : f[i] = u[i] \/ (f[i] = "?" /\ u[i] \in {"hi", "lo"})
    BY <1>2, <1>8, <2>1 DEF T
  <2>3. /\ p \in Text /\ Len(p) = Upto(k + 1) - Upto(k)
        /\ \A i \in 1 .. Len(p) : p[i] = u[Upto(k) + i]
    BY <1>5, <2>1
  <2>4. d \in Text /\ Faithful(d, p)
    BY <2>3, DecodedFaithful
  <2>5. First(k + 1) = Append(First(k), d) /\ First(k) \in Seq(Text)
    <3>1. Len(First(k)) = k /\ Len(First(k + 1)) = k + 1
      OBVIOUS
    <3>2. k \in 0 .. q /\ k + 1 \in 0 .. q
      BY <1>2, <2>1
    <3>3. \A i \in 1 .. k + 1 : First(k + 1)[i] = IF i <= k THEN First(k)[i] ELSE d
      OBVIOUS
    <3> HIDE DEF First, d
    <3>4. First(k) \in Seq(Text) /\ First(k + 1) \in Seq(Text)
      BY <1>6, <3>2
    <3> QED
      BY <2>4, <3>1, <3>3, <3>4
  <2>6. FlattenSeq(First(k + 1)) = f \o d
    BY <2>4, <2>5, FlattenAppend
  <2> DEFINE lo == Upto(k)
             hi == Upto(k + 1)
  <2>7. lo \in Nat /\ hi \in Nat /\ lo < hi /\ Len(f) = lo /\ Len(p) = hi - lo
    BY <1>4, <2>1, <2>2, <2>3
  <2>8. \A i \in 1 .. lo : f[i] = u[i] \/ (f[i] = "?" /\ u[i] \in {"hi", "lo"})
    BY <2>2
  <2>9. \A i \in 1 .. hi - lo : p[i] = u[lo + i]
    BY <2>3
  <2> HIDE DEF f, d, p, First, Upto, lo, hi
  <2>10. Len(d) = hi - lo
    BY <2>4, <2>7 DEF Faithful
  <2>11. \A i \in 1 .. hi - lo : d[i] = p[i] \/ (d[i] = "?" /\ p[i] \in {"hi", "lo"})
    BY <2>4, <2>10 DEF Faithful
  <2>12. /\ f \o d \in Text /\ Len(f \o d) = Len(f) + Len(d)
         /\ \A i \in 1 .. Len(f) : (f \o d)[i] = f[i]
         /\ \A i \in Len(f) + 1 .. Len(f) + Len(d) : (f \o d)[i] = d[i - Len(f)]
    BY <2>2, <2>4, TextConcat
  <2>13. Len(f \o d) = hi
    BY <2>7, <2>10, <2>12
  <2>14. ASSUME NEW i \in 1 .. hi
         PROVE  (f \o d)[i] = u[i] \/ ((f \o d)[i] = "?" /\ u[i] \in {"hi", "lo"})
    <3>1. CASE i \in 1 .. lo
      <4>1. (f \o d)[i] = f[i]
        BY <2>7, <2>12, <3>1
      <4> QED
        BY <2>8, <3>1, <4>1
    <3>2. CASE i \in lo + 1 .. hi
      <4>1. i - lo \in 1 .. hi - lo /\ lo + (i - lo) = i /\ lo + (hi - lo) = hi
        BY <2>7, <3>2
      <4>2. (f \o d)[i] = d[i - lo]
        BY <2>7, <2>10, <2>12, <3>2, <4>1
      <4> QED
        BY <2>9, <2>11, <4>1, <4>2
    <3>3. i \in 1 .. lo \/ i \in lo + 1 .. hi
      BY <2>7
    <3> QED
      BY <3>1, <3>2, <3>3
  <2> QED
    BY <2>6, <2>12, <2>13, <2>14 DEF hi
<1>9. q \in T
  BY <1>2, <1>7, <1>8, NatSetInduction
<1>10. Upto(q) = n
  BY <1>1, <1>2
<1>11. q \in 0 .. q /\ q <= q
  BY <1>2
<1> HIDE DEF First, Upto
<1> QED
  BY <1>3, <1>6, <1>9, <1>10, <1>11 DEF T, n, Faithful

-----------------------------------------------------------------------------
(* A client whose handler is between its attach and its return. *)
Attached(c) == at[c] \in {"replay", "live"}

(* got is the output from off on, as far as it goes. *)
Follows(got, off, out) ==
  /\ off + Len(got) <= Len(out)
  /\ \A k \in 1 .. Len(got) :
       \/ got[k] = out[off + k]
       \/ got[k] = "?" /\ out[off + k] \in {"hi", "lo"}

LEMMA GotType ==
  ASSUME PtyTypeOK, NEW c \in Client
  PROVE  /\ Received(c) \in Text
         /\ FlattenSeq(initial[c]) \in Text /\ FlattenSeq(ch[c]) \in Text
         /\ shown[c] \in Text
<1>1. initial[c] \in Seq(Text) /\ ch[c] \in Seq(Text) /\ shown[c] \in Text
  BY DEF PtyTypeOK
<1>2. FlattenSeq(initial[c]) \in Text /\ FlattenSeq(ch[c]) \in Text
  BY <1>1, FlattenType
<1>3. shown[c] \o FlattenSeq(initial[c]) \in Text
  BY <1>1, <1>2, TextConcat
<1> QED
  BY <1>1, <1>2, <1>3, TextConcat DEF Received

LEMMA NoGapUnfolds ==
  NoGapNoRepeat <=>
    \A c \in Client : Attached(c) =>
      /\ Follows(Received(c), start[c], emitted)
      /\ c \in subs => start[c] + Len(Received(c)) = Len(emitted)
BY DEF NoGapNoRepeat, Attached, Follows

(* More output leaves what a client has where it was ... *)
LEMMA FollowsStays ==
  ASSUME NEW got \in Text, NEW out \in Text, NEW more \in Text, NEW off \in Nat,
         Follows(got, off, out)
  PROVE  Follows(got, off, out \o more)
<1>1. /\ Len(out \o more) = Len(out) + Len(more) /\ Len(out) \in Nat /\ Len(more) \in Nat
      /\ \A k \in 1 .. Len(out) : (out \o more)[k] = out[k]
  BY TextConcat
<1>2. Len(got) \in Nat
  BY TextEmpty
<1>3. off + Len(got) <= Len(out)
  BY DEF Follows
<1>4. ASSUME NEW k \in 1 .. Len(got) PROVE (out \o more)[off + k] = out[off + k]
  <2>1. off + k \in 1 .. Len(out)
    BY <1>1, <1>2, <1>3
  <2> QED
    BY <1>1, <2>1
<1> QED
  BY <1>1, <1>2, <1>3, <1>4 DEF Follows

(* ... and one that had it all and is sent the rest has it all. *)
LEMMA FollowsMore ==
  ASSUME NEW got \in Text, NEW out \in Text, NEW more \in Text, NEW off \in Nat,
         Follows(got, off, out), off + Len(got) = Len(out)
  PROVE  /\ Follows(got \o more, off, out \o more)
         /\ off + Len(got \o more) = Len(out \o more)
<1>1. /\ Len(out \o more) = Len(out) + Len(more) /\ Len(out) \in Nat /\ Len(more) \in Nat
      /\ \A k \in 1 .. Len(out) : (out \o more)[k] = out[k]
      /\ \A k \in Len(out) + 1 .. Len(out) + Len(more) : (out \o more)[k] = more[k - Len(out)]
  BY TextConcat
<1>2. /\ Len(got \o more) = Len(got) + Len(more) /\ Len(got) \in Nat
      /\ \A k \in 1 .. Len(got) : (got \o more)[k] = got[k]
      /\ \A k \in Len(got) + 1 .. Len(got) + Len(more) : (got \o more)[k] = more[k - Len(got)]
  BY TextConcat
<1>n. /\ Len(got) \in Nat /\ Len(out) \in Nat /\ Len(more) \in Nat
      /\ Len(out \o more) = Len(out) + Len(more)
      /\ Len(got \o more) = Len(got) + Len(more)
      /\ Len(out) = off + Len(got)
  BY <1>1, <1>2
<1>3. off + Len(got \o more) = Len(out \o more)
  BY <1>n
<1>4. ASSUME NEW k \in 1 .. Len(got \o more)
      PROVE  \/ (got \o more)[k] = (out \o more)[off + k]
             \/ (got \o more)[k] = "?" /\ (out \o more)[off + k] \in {"hi", "lo"}
  <2>1. CASE k \in 1 .. Len(got)
    <3>1. off + k \in 1 .. Len(out)
      BY <1>1, <1>2, <2>1
    <3>2. (got \o more)[k] = got[k] /\ (out \o more)[off + k] = out[off + k]
      BY <1>1, <1>2, <2>1, <3>1
    <3> QED
      BY <2>1, <3>2 DEF Follows
  <2>2. CASE k \in Len(got) + 1 .. Len(got) + Len(more)
    <3>1. off + k \in Len(out) + 1 .. Len(out) + Len(more) /\ (off + k) - Len(out) = k - Len(got)
      BY <1>n, <2>2
    <3>2. (got \o more)[k] = more[k - Len(got)]
      BY <1>2, <2>2
    <3>3. (out \o more)[off + k] = more[(off + k) - Len(out)]
      BY <1>1, <3>1
    <3> QED
      BY <3>1, <3>2, <3>3
  <2>3. k \in 1 .. Len(got) \/ k \in Len(got) + 1 .. Len(got) + Len(more)
    BY <1>1, <1>2
  <2> QED
    BY <2>1, <2>2, <2>3
<1> QED
  BY <1>3, <1>4 DEF Follows

-----------------------------------------------------------------------------
(* A read adds units to the ring and to the channels. *)
LEMMA ReadType ==
  ASSUME PtyTypeOK, NEW raw \in Reads
  PROVE  LET data == partial \o raw IN
         /\ Held(data) \in {<<>>, <<"a1">>}
         /\ Units(SubSeq(data, 1, Len(data) - Len(Held(data)))) \in Text
<1> DEFINE B == {"x", "a1", "a2"}
           data == partial \o raw
           n == Len(data) - Len(Held(data))
<1>1. partial \in Seq(B) /\ raw \in Seq(B)
  <2>1. raw \in Seq(B)
    BY PtyAssumption
  <2>2. partial = <<>> \/ partial = <<"a1">>
    BY DEF PtyTypeOK
  <2>3. <<>> \in Seq(B) /\ <<"a1">> \in Seq(B)
    OBVIOUS
  <2> HIDE DEF B
  <2> QED
    BY <2>1, <2>2, <2>3
<1>2. data \in Seq(B)
  BY <1>1, ConcatProperties
<1> HIDE DEF data
<1>3. Held(data) \in {<<>>, <<"a1">>}
  BY DEF Held
<1>4. Len(data) \in Nat /\ (Held(data) = <<"a1">> => Len(data) > 0)
  BY <1>2 DEF Held
<1>h. Len(Held(data)) \in Nat /\ Len(Held(data)) <= Len(data)
  BY <1>3, <1>4
<1>5. n \in 0 .. Len(data)
  BY <1>4, <1>h
<1> HIDE DEF n
<1>6. SubSeq(data, 1, n) \in Seq(B)
  BY <1>2, <1>4, <1>5
<1>7. Units(SubSeq(data, 1, n)) \in Text
  BY <1>6, UnitsType
<1> QED
  BY <1>3, <1>7 DEF data, n

LEMMA RetainKeeps ==
  ASSUME PtyTypeOK, BufferIsTail, NEW units \in Text, Retain(units)
  PROVE  /\ BufferIsTail'
         /\ buffer' \in Text /\ bufCur' \in Nat /\ cursor' \in Nat /\ emitted' \in Text
<1> DEFINE all == buffer \o units
           excess == IF Len(all) > BufferLimit THEN Len(all) - BufferLimit ELSE 0
           out == emitted \o units
<1>1. /\ buffer \in Text /\ emitted \in Text /\ bufCur \in Nat
      /\ Len(buffer) \in Nat /\ Len(emitted) \in Nat /\ Len(units) \in Nat
      /\ BufferLimit \in Nat
  BY PtyAssumption, TextEmpty DEF PtyTypeOK
<1>2. /\ all \in Text /\ Len(all) = Len(buffer) + Len(units)
      /\ \A k \in 1 .. Len(buffer) : all[k] = buffer[k]
      /\ \A k \in Len(buffer) + 1 .. Len(buffer) + Len(units) : all[k] = units[k - Len(buffer)]
  BY <1>1, TextConcat
<1>3. /\ out \in Text /\ Len(out) = Len(emitted) + Len(units)
      /\ \A k \in 1 .. Len(emitted) : out[k] = emitted[k]
      /\ \A k \in Len(emitted) + 1 .. Len(emitted) + Len(units) : out[k] = units[k - Len(emitted)]
  BY <1>1, TextConcat
<1>4. /\ buffer' = SubSeq(all, excess + 1, Len(all))
      /\ bufCur' = bufCur + excess
      /\ cursor' = cursor + Len(units)
      /\ emitted' = out
  BY DEF Retain
<1> HIDE DEF all, out
<1>n. /\ Len(all) = Len(buffer) + Len(units) /\ Len(out) = Len(emitted) + Len(units)
      /\ cursor = Len(emitted) /\ bufCur + Len(buffer) = Len(emitted)
  BY <1>2, <1>3 DEF BufferIsTail
<1>m. /\ BufferLimit < Len(emitted) => Len(buffer) = BufferLimit
      /\ ~(BufferLimit < Len(emitted)) => Len(buffer) = Len(emitted)
  BY DEF BufferIsTail, Min2
<1>z. Len(all) \in Nat /\ Len(out) \in Nat
  BY <1>1, <1>n
<1>e. /\ Len(all) > BufferLimit => excess = Len(all) - BufferLimit
      /\ ~(Len(all) > BufferLimit) => excess = 0
  OBVIOUS
<1> HIDE DEF excess
<1>5. excess \in 0 .. Len(all)
  BY <1>1, <1>e, <1>z
<1>y. /\ BufferLimit < Len(out) => Len(all) - excess = BufferLimit
      /\ ~(BufferLimit < Len(out)) => Len(all) - excess = Len(out)
  BY <1>1, <1>n, <1>m, <1>e, <1>z
<1>6. /\ buffer' \in Text /\ Len(buffer') = Len(all) - excess
      /\ \A k \in 1 .. Len(all) - excess : buffer'[k] = all[excess + k]
  BY <1>1, <1>2, <1>4, <1>5 DEF Text
<1>l. Len(buffer') \in Nat /\ Len(buffer') = Len(all) - excess
  BY <1>5, <1>6, <1>e, <1>z
<1>c. bufCur' = bufCur + excess /\ cursor' = cursor + Len(units)
  BY <1>4
<1>7. /\ bufCur' \in Nat /\ cursor' \in Nat
      /\ cursor' = Len(out) /\ Len(out) = bufCur' + Len(buffer')
  <2>1. bufCur' \in Nat /\ cursor' \in Nat /\ cursor' = Len(out)
    BY <1>1, <1>n, <1>e, <1>z, <1>5, <1>c
  <2> DEFINE k == Len(buffer')
  <2>2. k = Len(all) - excess /\ k \in Nat
    BY <1>l
  <2> HIDE DEF k
  <2>3. Len(out) = bufCur' + k
    BY <1>1, <1>n, <1>e, <1>z, <1>5, <1>c, <2>2
  <2> QED
    BY <2>1, <2>3 DEF k
<1>8. \A k \in 1 .. Len(buffer) : buffer[k] = emitted[bufCur + k]
  <2>1. buffer = SubSeq(emitted, bufCur + 1, Len(emitted))
    BY DEF BufferIsTail
  <2> QED
    BY <1>1, <1>n, <2>1 DEF Text
<1>9. ASSUME NEW k \in 1 .. Len(all) PROVE all[k] = out[bufCur + k]
  <2>1. CASE k \in 1 .. Len(buffer)
    <3>1. bufCur + k \in 1 .. Len(emitted)
      BY <1>1, <1>n, <2>1
    <3> QED
      BY <1>2, <1>3, <1>8, <2>1, <3>1
  <2>2. CASE k \in Len(buffer) + 1 .. Len(buffer) + Len(units)
    <3>1. /\ bufCur + k \in Len(emitted) + 1 .. Len(emitted) + Len(units)
          /\ (bufCur + k) - Len(emitted) = k - Len(buffer)
      BY <1>1, <1>n, <2>2
    <3>2. all[k] = units[k - Len(buffer)]
      BY <1>2, <2>2
    <3>3. out[bufCur + k] = units[(bufCur + k) - Len(emitted)]
      BY <1>3, <3>1
    <3> QED
      BY <3>1, <3>2, <3>3
  <2>3. k \in 1 .. Len(buffer) \/ k \in Len(buffer) + 1 .. Len(buffer) + Len(units)
    BY <1>1, <1>n
  <2> QED
    BY <2>1, <2>2, <2>3
<1>10. buffer' = SubSeq(out, bufCur' + 1, Len(out))
  <2> DEFINE tail == SubSeq(out, bufCur' + 1, Len(out))
  <2>1. /\ bufCur' + 1 \in Nat /\ Len(out) \in Nat /\ bufCur' <= Len(out)
        /\ Len(out) - bufCur' = Len(buffer')
    <3> DEFINE k == Len(buffer')
               m == bufCur'
               n == Len(out)
    <3>1. k \in Nat /\ m \in Nat /\ n \in Nat /\ n = m + k
      BY <1>l, <1>z, <1>7
    <3> HIDE DEF k, m, n
    <3>2. m + 1 \in Nat /\ n \in Nat /\ m <= n /\ n - m = k
      BY <3>1
    <3> QED
      BY <3>2 DEF k, m, n
  <2>2. /\ tail \in Text /\ Len(tail) = Len(out) - bufCur'
        /\ \A k \in 1 .. Len(out) - bufCur' : tail[k] = out[bufCur' + k]
    <3> DEFINE lo == bufCur'
    <3>1. lo \in Nat /\ lo <= Len(out) /\ out \in Text
      BY <1>3, <1>7, <2>1
    <3> HIDE DEF lo
    <3>2. /\ SubSeq(out, lo + 1, Len(out)) \in Text
          /\ Len(SubSeq(out, lo + 1, Len(out))) = Len(out) - lo
          /\ \A k \in 1 .. Len(out) - lo : SubSeq(out, lo + 1, Len(out))[k] = out[lo + k]
      BY <3>1 DEF Text
    <3> QED
      BY <3>2 DEF lo
  <2> HIDE DEF tail
  <2>3. ASSUME NEW k \in 1 .. Len(buffer') PROVE buffer'[k] = tail[k]
    <3>1. excess + k \in 1 .. Len(all) /\ bufCur + (excess + k) = bufCur' + k
      BY <1>1, <1>n, <1>4, <1>5, <1>6
    <3>2. buffer'[k] = all[excess + k]
      BY <1>6
    <3>3. all[excess + k] = out[bufCur' + k]
      BY <1>9, <3>1
    <3>4. tail[k] = out[bufCur' + k]
      BY <2>1, <2>2
    <3> QED
      BY <3>2, <3>3, <3>4
  <2>4. buffer' \in Text /\ tail \in Text /\ Len(buffer') = Len(tail)
    BY <1>6, <2>1, <2>2
  <2>5. buffer' = tail
    BY <2>3, <2>4, SeqEqual DEF Text
  <2> QED
    BY <2>5 DEF tail
<1>11. Len(buffer') = Min2(BufferLimit, Len(out))
  BY <1>1, <1>6, <1>n, <1>y DEF Min2
<1> QED
  BY <1>3, <1>4, <1>6, <1>7, <1>10, <1>11 DEF BufferIsTail

-----------------------------------------------------------------------------
(* What the invariant says of one client: the properties of the runs, and what
   keeps its handler and the session from meeting outside the time in which it
   is subscribed.  A client that has not attached has a channel nobody closed
   and nothing in it, one that left holds nothing, and a live one has had its
   whole replay. *)
ClientOK(c) ==
  /\ Attached(c) => /\ Follows(Received(c), start[c], emitted)
                    /\ c \in subs => start[c] + Len(Received(c)) = Len(emitted)
  /\ at[c] = "replay" =>
       meta[c] = start[c] + Len(shown[c]) + Len(FlattenSeq(initial[c]))
  /\ closes[c] <= 1 /\ (c \in subs => closes[c] = 0)
  /\ ~Attached(c) => /\ c \notin subs
                     /\ shown[c] = <<>> /\ initial[c] = <<>> /\ ch[c] = <<>>
  /\ at[c] \in {"new", "admitted", "found"} => closes[c] = 0
  /\ at[c] = "live" => initial[c] = <<>>

(* Only a ticket that is gone has let somebody in. *)
TicketsInv ==
  \A t \in Ticket : uses[t] <= 1 /\ (ticket[t] \in {"none", "valid"} => uses[t] = 0)

(* The inductive invariant. *)
PtyIndInv ==
  /\ PtyTypeOK /\ BufferIsTail /\ TicketsInv
  /\ \A c \in Client : ClientOK(c)

LEMMA PtyIndImplies == PtyIndInv => PtyInv /\ NoGapNoRepeat
<1> SUFFICES ASSUME PtyIndInv PROVE PtyInv /\ NoGapNoRepeat
  OBVIOUS
<1>1. NoGapNoRepeat
  BY NoGapUnfolds DEF PtyIndInv, ClientOK
<1>2. CursorMatchesReplay /\ SingleClose
  BY DEF PtyIndInv, ClientOK, CursorMatchesReplay, SingleClose
<1>3. AdmittedOnce
  BY DEF PtyIndInv, TicketsInv, AdmittedOnce
<1> QED
  BY <1>1, <1>2, <1>3 DEF PtyIndInv, PtyInv

(* A step that leaves all of a client alone. *)
LEMMA ClientFrame ==
  ASSUME NEW c \in Client, ClientOK(c), UNCHANGED emitted,
         at'[c] = at[c], initial'[c] = initial[c], start'[c] = start[c],
         shown'[c] = shown[c], meta'[c] = meta[c],
         ch'[c] = ch[c], closes'[c] = closes[c], (c \in subs)' <=> c \in subs
  PROVE  ClientOK(c)'
<1>1. Received(c)' = Received(c)
  BY DEF Received
<1> QED
  BY <1>1 DEF ClientOK, Attached

LEMMA ReadKeeps ==
  ASSUME PtyIndInv, NEW raw \in Reads, OnData(raw)
  PROVE  PtyIndInv'
<1> DEFINE data == partial \o raw
           units == Units(SubSeq(data, 1, Len(data) - Len(Held(data))))
<1>1. /\ PtyTypeOK /\ BufferIsTail /\ TicketsInv
      /\ \A c \in Client : ClientOK(c)
  BY DEF PtyIndInv
<1>2. Held(data) \in {<<>>, <<"a1">>} /\ units \in Text
  BY <1>1, ReadType
<1>3. /\ partial' = Held(data)
      /\ UNCHANGED <<procVars, ticketVars, handlerVars>>
      /\ units = <<>> => UNCHANGED <<buffer, bufCur, cursor, emitted, chanVars>>
      /\ units # <<>> => Retain(units) /\ Fan(units)
  BY DEF OnData
<1> HIDE DEF data, units
<1>4. CASE units = <<>>
  <2>1. PtyTypeOK'
    BY <1>1, <1>2, <1>3, <1>4 DEF PtyTypeOK, procVars, ticketVars, handlerVars, chanVars
  <2>2. BufferIsTail' /\ TicketsInv'
    BY <1>1, <1>3, <1>4 DEF BufferIsTail, TicketsInv, ticketVars
  <2>3. ASSUME NEW c \in Client PROVE ClientOK(c)'
    BY <1>1, <1>3, <1>4, ClientFrame DEF handlerVars, chanVars
  <2> QED
    BY <2>1, <2>2, <2>3 DEF PtyIndInv
<1>5. CASE units # <<>>
  <2> DEFINE slow == {c \in subs : Slow(c)}
  <2>1. /\ ch' = [c \in Client |-> IF c \in subs \ slow THEN Append(ch[c], units) ELSE ch[c]]
        /\ subs' = subs \ slow
        /\ closes' = [c \in Client |-> IF c \in slow THEN closes[c] + 1 ELSE closes[c]]
    BY <1>3, <1>5 DEF Fan, Close
  <2> HIDE DEF slow
  <2>2. /\ BufferIsTail'
        /\ buffer' \in Text /\ bufCur' \in Nat /\ cursor' \in Nat /\ emitted' \in Text
        /\ emitted' = emitted \o units
    BY <1>1, <1>2, <1>3, <1>5, RetainKeeps DEF Retain
  <2>3. PtyTypeOK'
    <3>1. ch' \in [Client -> Seq(Text)] /\ closes' \in [Client -> Nat] /\ subs' \subseteq Client
      <4>1. \A c \in Client : Append(ch[c], units) \in Seq(Text) /\ ch[c] \in Seq(Text)
        BY <1>1, <1>2 DEF PtyTypeOK
      <4>2. \A c \in Client : closes[c] \in Nat /\ closes[c] + 1 \in Nat
        BY <1>1 DEF PtyTypeOK
      <4> QED
        BY <1>1, <2>1, <4>1, <4>2 DEF PtyTypeOK
    <3> QED
      BY <1>1, <1>2, <1>3, <2>2, <3>1 DEF PtyTypeOK, procVars, ticketVars, handlerVars
  <2>4. TicketsInv'
    BY <1>1, <1>3 DEF TicketsInv, ticketVars
  <2>5. ASSUME NEW c \in Client PROVE ClientOK(c)'
    <3>1. /\ at'[c] = at[c] /\ initial'[c] = initial[c] /\ start'[c] = start[c]
          /\ shown'[c] = shown[c] /\ meta'[c] = meta[c]
      BY <1>3 DEF handlerVars
    <3>2. ClientOK(c) /\ closes[c] \in Nat /\ start[c] \in Nat /\ ch[c] \in Seq(Text)
      BY <1>1 DEF PtyTypeOK
    <3>3. /\ Received(c) \in Text /\ emitted \in Text
          /\ shown[c] \o FlattenSeq(initial[c]) \in Text /\ FlattenSeq(ch[c]) \in Text
      BY <1>1, GotType, TextConcat DEF PtyTypeOK
    <3>4. CASE c \in subs \ slow
      <4>1. ch'[c] = Append(ch[c], units) /\ c \in subs /\ c \in subs' /\ closes'[c] = closes[c]
        BY <2>1, <3>4
      <4>2. FlattenSeq(ch'[c]) = FlattenSeq(ch[c]) \o units
        BY <1>2, <3>2, <4>1, FlattenAppend
      <4>3. Received(c)' = Received(c) \o units
        <5> DEFINE a == shown[c] \o FlattenSeq(initial[c])
                   b == FlattenSeq(ch[c])
        <5>1. Received(c) = a \o b /\ Received(c)' = a \o (b \o units)
          BY <3>1, <4>2 DEF Received
        <5>2. a \in Text /\ b \in Text
          BY <3>3
        <5> HIDE DEF a, b
        <5> QED
          BY <1>2, <5>1, <5>2, TextAssoc
      <4>4. Attached(c)
        BY <3>2, <4>1 DEF ClientOK
      <4>5. /\ Follows(Received(c), start[c], emitted)
            /\ start[c] + Len(Received(c)) = Len(emitted)
        BY <3>2, <4>1, <4>4 DEF ClientOK
      <4>6. /\ Follows(Received(c)', start[c], emitted')
            /\ start[c] + Len(Received(c)') = Len(emitted')
        <5> DEFINE r == Received(c)
        <5>1. r \in Text /\ emitted \in Text /\ units \in Text /\ start[c] \in Nat
          BY <1>2, <3>2, <3>3
        <5>2. Follows(r, start[c], emitted) /\ start[c] + Len(r) = Len(emitted)
          BY <4>5
        <5>3. Received(c)' = r \o units /\ emitted' = emitted \o units
          BY <2>2, <4>3
        <5> HIDE DEF r
        <5>4. /\ Follows(r \o units, start[c], emitted \o units)
              /\ start[c] + Len(r \o units) = Len(emitted \o units)
          BY <5>1, <5>2, FollowsMore
        <5> QED
          BY <5>3, <5>4
      <4> QED
        BY <3>1, <3>2, <4>1, <4>4, <4>6 DEF ClientOK, Attached
    <3>5. CASE c \notin subs \ slow
      <4>1. ch'[c] = ch[c] /\ c \notin subs'
        BY <2>1, <3>5
      <4>2. closes'[c] <= 1 /\ (c \notin subs => closes'[c] = closes[c])
        BY <2>1, <3>2 DEF ClientOK, slow
      <4>3. Received(c)' = Received(c)
        BY <3>1, <4>1 DEF Received
      <4>4. Attached(c) => Follows(Received(c)', start[c], emitted')
        BY <1>2, <2>2, <3>2, <3>3, <4>3, FollowsStays DEF ClientOK
      <4>5. at[c] \in {"new", "admitted", "found"} => c \notin subs
        BY <3>2 DEF ClientOK, Attached
      <4> QED
        BY <3>1, <3>2, <4>1, <4>2, <4>4, <4>5 DEF ClientOK, Attached
    <3> QED
      BY <3>4, <3>5
  <2> QED
    BY <2>2, <2>3, <2>4, <2>5 DEF PtyIndInv
<1> QED
  BY <1>4, <1>5

(* The session's life and its tickets pass the clients by ... *)
LEMMA SessionKeeps ==
  ASSUME PtyIndInv,
         \/ OnExited \/ ShellExits \/ Unlist \/ Kill
         \/ \E t \in Ticket : IssueTicket(t) \/ TicketExpires(t)
  PROVE  PtyIndInv'
<1>1. PtyTypeOK /\ BufferIsTail /\ TicketsInv /\ \A c \in Client : ClientOK(c)
  BY DEF PtyIndInv
<1>2. UNCHANGED <<ringVars, chanVars, handlerVars>>
  BY DEF OnExited, ShellExits, Unlist, Kill, IssueTicket, TicketExpires
<1>3. /\ status' \in {"running", "exited"} /\ loop' \in {"reading", "exited", "over"}
      /\ {alive, ptmx, listed, killing}' \subseteq BOOLEAN
  BY <1>1 DEF PtyTypeOK, OnExited, ShellExits, Unlist, Kill, IssueTicket, TicketExpires, procVars
<1>4. /\ uses' = uses
      /\ ticket' \in [Ticket -> {"none", "valid", "gone"}]
      /\ \A t \in Ticket : ticket'[t] \in {"none", "valid"} => ticket[t] \in {"none", "valid"}
  BY <1>1 DEF PtyTypeOK, OnExited, ShellExits, Unlist, Kill, IssueTicket, TicketExpires, ticketVars
<1>5. PtyTypeOK'
  BY <1>1, <1>2, <1>3, <1>4 DEF PtyTypeOK, ringVars, chanVars, handlerVars
<1>6. BufferIsTail' /\ TicketsInv'
  BY <1>1, <1>2, <1>4 DEF BufferIsTail, TicketsInv, ringVars
<1>7. ASSUME NEW c \in Client PROVE ClientOK(c)'
  BY <1>1, <1>2, ClientFrame DEF ringVars, chanVars, handlerVars
<1> QED
  BY <1>5, <1>6, <1>7 DEF PtyIndInv

(* ... until its end closes the channels of those subscribed, and only theirs. *)
LEMMA ExitKeeps ==
  ASSUME PtyIndInv, OnExit
  PROVE  PtyIndInv'
<1>1. PtyTypeOK /\ BufferIsTail /\ TicketsInv /\ \A c \in Client : ClientOK(c)
  BY DEF PtyIndInv
<1>2. /\ subs' = {} /\ status' = "exited" /\ loop' = "exited"
      /\ closes' = [c \in Client |-> IF c \in subs THEN closes[c] + 1 ELSE closes[c]]
      /\ UNCHANGED <<ringVars, ch, alive, ptmx, listed, killing, ticketVars, handlerVars>>
  BY DEF OnExit, Close
<1>3. closes' \in [Client -> Nat]
  BY <1>1, <1>2 DEF PtyTypeOK
<1>4. PtyTypeOK'
  BY <1>1, <1>2, <1>3 DEF PtyTypeOK, ringVars, ticketVars, handlerVars
<1>5. BufferIsTail' /\ TicketsInv'
  BY <1>1, <1>2 DEF BufferIsTail, TicketsInv, ringVars, ticketVars
<1>6. ASSUME NEW c \in Client PROVE ClientOK(c)'
  <2>1. Received(c)' = Received(c)
    BY <1>2 DEF Received, handlerVars
  <2>2. closes'[c] = IF c \in subs THEN closes[c] + 1 ELSE closes[c]
    BY <1>2
  <2>3. ClientOK(c)
    BY <1>1
  <2>4. closes'[c] <= 1 /\ (~Attached(c) => closes'[c] = closes[c])
    BY <2>2, <2>3 DEF ClientOK
  <2>5. /\ at'[c] = at[c] /\ start'[c] = start[c] /\ meta'[c] = meta[c]
        /\ shown'[c] = shown[c] /\ initial'[c] = initial[c] /\ ch'[c] = ch[c]
        /\ c \notin subs' /\ emitted' = emitted
    BY <1>2 DEF handlerVars, ringVars
  <2> QED
    BY <2>1, <2>3, <2>4, <2>5 DEF ClientOK, Attached
<1> QED
  BY <1>4, <1>5, <1>6 DEF PtyIndInv

(* Before its attach a connection touches nothing but its ticket. *)
LEMMA RequestKeeps ==
  ASSUME PtyIndInv, NEW c \in Client, Request(c) \/ Lookup(c)
  PROVE  PtyIndInv'
<1>1. PtyTypeOK /\ BufferIsTail /\ TicketsInv /\ \A d \in Client : ClientOK(d)
  BY DEF PtyIndInv
<1>2. /\ at[c] \in {"new", "admitted"}
      /\ \E s \in {"admitted", "found", "closed"} : at' = [at EXCEPT ![c] = s]
      /\ UNCHANGED <<ringVars, chanVars, procVars, initial, start, shown, meta>>
  BY DEF Request, Lookup
<1>3. UNCHANGED ticketVars \/ \E t \in Ticket : ConsumeTicket(t)
  BY DEF Request, Lookup
<1>4. /\ TicketsInv' /\ uses' \in [Ticket -> Nat]
      /\ ticket' \in [Ticket -> {"none", "valid", "gone"}]
  <2>1. CASE UNCHANGED ticketVars
    BY <1>1, <2>1 DEF TicketsInv, PtyTypeOK, ticketVars
  <2>2. CASE \E t \in Ticket : ConsumeTicket(t)
    <3>1. PICK t \in Ticket : ConsumeTicket(t)
      BY <2>2
    <3>2. uses[t] = 0
      BY <1>1, <3>1 DEF ConsumeTicket, TicketsInv
    <3> QED
      BY <1>1, <3>1, <3>2 DEF ConsumeTicket, TicketsInv, PtyTypeOK
  <2> QED
    BY <1>3, <2>1, <2>2
<1>5. PtyTypeOK'
  BY <1>1, <1>2, <1>4 DEF PtyTypeOK, Stage, ringVars, chanVars, procVars
<1>6. BufferIsTail'
  BY <1>1, <1>2 DEF BufferIsTail, ringVars
<1>7. ASSUME NEW d \in Client PROVE ClientOK(d)'
  <2>1. CASE d = c
    <3>1. ClientOK(c) /\ ~Attached(c)
      BY <1>1, <1>2 DEF Attached
    <3>2. at'[c] \in {"admitted", "found", "closed"}
      BY <1>1, <1>2 DEF PtyTypeOK
    <3> QED
      BY <1>2, <2>1, <3>1, <3>2 DEF ClientOK, Attached, chanVars
  <2>2. CASE d # c
    <3>1. at'[d] = at[d]
      BY <1>1, <1>2, <2>2 DEF PtyTypeOK
    <3> QED
      BY <1>1, <1>2, <3>1, ClientFrame DEF ringVars, chanVars
  <2> QED
    BY <2>1, <2>2
<1> QED
  BY <1>4, <1>5, <1>6, <1>7 DEF PtyIndInv

-----------------------------------------------------------------------------
(* A replay is the output from the offset on at which it can start. *)
LEMMA ReplayIsOutput ==
  ASSUME PtyTypeOK, BufferIsTail, NEW from \in Nat
  PROVE  LET first == IF from >= cursor THEN cursor ELSE IF from > bufCur THEN from ELSE bufCur
         IN  /\ first \in Nat
             /\ Replay(from) \in Text
             /\ first + Len(Replay(from)) = Len(emitted)
             /\ \A k \in 1 .. Len(Replay(from)) : Replay(from)[k] = emitted[first + k]
<1>1. /\ buffer \in Text /\ emitted \in Text /\ bufCur \in Nat /\ cursor \in Nat
      /\ Len(buffer) \in Nat /\ Len(emitted) \in Nat
  BY TextEmpty DEF PtyTypeOK
<1>2. cursor = Len(emitted) /\ bufCur + Len(buffer) = cursor
  BY DEF BufferIsTail
<1>3. \A k \in 1 .. Len(buffer) : buffer[k] = emitted[bufCur + k]
  <2>1. buffer = SubSeq(emitted, bufCur + 1, Len(emitted))
    BY DEF BufferIsTail
  <2> QED
    BY <1>1, <1>2, <2>1 DEF Text
<1>4. CASE from >= cursor
  <2>1. Replay(from) = <<>>
    BY <1>1, <1>4 DEF Replay
  <2> QED
    BY <1>1, <1>2, <1>4, <2>1, TextEmpty
<1>5. CASE from < cursor
  <2> DEFINE skip == IF from > bufCur THEN from - bufCur ELSE 0
             first == IF from > bufCur THEN from ELSE bufCur
  <2>1. /\ skip \in Nat /\ skip <= Len(buffer) /\ first \in Nat /\ first = bufCur + skip
    BY <1>1, <1>2, <1>5
  <2>2. Replay(from) = SubSeq(buffer, skip + 1, Len(buffer))
    BY <1>5 DEF Replay
  <2>3. (IF from >= cursor THEN cursor ELSE IF from > bufCur THEN from ELSE bufCur) = first
    BY <1>1, <1>5
  <2> HIDE DEF skip, first
  <2>4. /\ Replay(from) \in Text /\ Len(Replay(from)) = Len(buffer) - skip
        /\ \A k \in 1 .. Len(buffer) - skip : Replay(from)[k] = buffer[skip + k]
    BY <1>1, <2>1, <2>2 DEF Text
  <2>5. first + Len(Replay(from)) = Len(emitted)
    BY <1>1, <1>2, <2>1, <2>4
  <2>6. ASSUME NEW k \in 1 .. Len(Replay(from)) PROVE Replay(from)[k] = emitted[first + k]
    <3>1. skip + k \in 1 .. Len(buffer) /\ bufCur + (skip + k) = first + k
      BY <1>1, <2>1, <2>4
    <3>2. Replay(from)[k] = buffer[skip + k]
      BY <2>4
    <3>3. buffer[skip + k] = emitted[bufCur + (skip + k)]
      BY <1>3, <3>1
    <3> QED
      BY <3>1, <3>2, <3>3
  <2> QED
    BY <2>1, <2>3, <2>4, <2>5, <2>6
<1> QED
  BY <1>1, <1>4, <1>5

LEMMA AttachKeeps ==
  ASSUME PtyIndInv, NEW c \in Client, NEW cur \in Cursors, Attach(c, cur)
  PROVE  PtyIndInv'
<1>1. PtyTypeOK /\ BufferIsTail /\ TicketsInv /\ \A d \in Client : ClientOK(d)
  BY DEF PtyIndInv
<1> DEFINE from == From(cur)
           replay == Replay(from)
           first == IF from >= cursor THEN cursor ELSE IF from > bufCur THEN from ELSE bufCur
<1>2. from \in Nat
  BY <1>1, PtyAssumption DEF From, PtyTypeOK
<1>3. /\ first \in Nat /\ replay \in Text /\ first + Len(replay) = Len(emitted)
      /\ \A k \in 1 .. Len(replay) : replay[k] = emitted[first + k]
  BY <1>1, <1>2, ReplayIsOutput
<1>4. /\ at[c] = "found"
      /\ at' = [at EXCEPT ![c] = "replay"]
      /\ initial' = [initial EXCEPT ![c] = Chunks(replay)]
      /\ start' = [start EXCEPT ![c] = first]
      /\ meta' = [meta EXCEPT ![c] = cursor]
      /\ subs' = subs \cup {c}
      /\ UNCHANGED <<ringVars, closes, ch, procVars, ticketVars, shown>>
  BY DEF Attach
<1> HIDE DEF from, replay, first
<1>5. /\ Chunks(replay) \in Seq(Text)
      /\ FlattenSeq(Chunks(replay)) \in Text
      /\ Faithful(FlattenSeq(Chunks(replay)), replay)
  BY <1>3, ChunksFlatten
<1>6. PtyTypeOK'
  BY <1>1, <1>3, <1>4, <1>5 DEF PtyTypeOK, Stage, ringVars, procVars, ticketVars
<1>7. BufferIsTail' /\ TicketsInv'
  BY <1>1, <1>4 DEF BufferIsTail, TicketsInv, ringVars, ticketVars
<1>8. ASSUME NEW d \in Client PROVE ClientOK(d)'
  <2>1. CASE d = c
    <3>1. /\ at'[c] = "replay" /\ initial'[c] = Chunks(replay) /\ start'[c] = first
          /\ meta'[c] = cursor /\ shown'[c] = shown[c] /\ ch'[c] = ch[c]
          /\ closes'[c] = closes[c] /\ emitted' = emitted
      BY <1>1, <1>4 DEF PtyTypeOK, ringVars
    <3>2. shown[c] = <<>> /\ ch[c] = <<>> /\ closes[c] = 0
      BY <1>1, <1>4 DEF ClientOK, Attached
    <3> DEFINE got == FlattenSeq(Chunks(replay))
    <3>3. got \in Text /\ Faithful(got, replay)
      BY <1>5
    <3>4. Received(c)' = got
      <4>1. Received(c)' = (<<>> \o got) \o <<>>
        BY <3>1, <3>2, FlattenEmpty DEF Received
      <4> HIDE DEF got
      <4> QED
        BY <3>3, <4>1, TextEmpty
    <3>5. FlattenSeq(initial'[c]) = got
      BY <3>1
    <3> HIDE DEF got
    <3>6. Len(got) = Len(replay) /\ first + Len(got) = Len(emitted)
      BY <1>3, <3>3 DEF Faithful
    <3>7. Follows(got, first, emitted)
      <4>1. first + Len(got) <= Len(emitted)
        BY <1>1, <3>6, TextEmpty DEF PtyTypeOK
      <4>2. \A k \in 1 .. Len(got) :
              \/ got[k] = emitted[first + k]
              \/ got[k] = "?" /\ emitted[first + k] \in {"hi", "lo"}
        BY <1>3, <3>3, <3>6 DEF Faithful
      <4> QED
        BY <4>1, <4>2 DEF Follows
    <3>8. meta'[c] = start'[c] + Len(shown'[c]) + Len(FlattenSeq(initial'[c]))
      <4>1. cursor = Len(emitted) /\ Len(got) \in Nat
        BY <1>1, <3>3, TextEmpty DEF BufferIsTail
      <4>2. cursor = first + 0 + Len(got)
        BY <1>3, <3>6, <4>1
      <4> QED
        BY <3>1, <3>2, <3>5, <4>2
    <3> QED
      BY <2>1, <3>1, <3>2, <3>4, <3>6, <3>7, <3>8 DEF ClientOK, Attached
  <2>2. CASE d # c
    BY <1>1, <1>4, <2>2, ClientFrame DEF PtyTypeOK, ringVars
  <2> QED
    BY <2>1, <2>2
<1> QED
  BY <1>6, <1>7, <1>8 DEF PtyIndInv

(* Writing a frame moves it from what is under way to what the client has. *)
LEMMA WriteKeeps ==
  ASSUME PtyIndInv, NEW c \in Client, WriteInitial(c) \/ WriteMeta(c) \/ WriteLive(c)
  PROVE  PtyIndInv'
<1>1. PtyTypeOK /\ BufferIsTail /\ TicketsInv /\ \A d \in Client : ClientOK(d)
  BY DEF PtyIndInv
<1>2. /\ UNCHANGED <<ringVars, subs, closes, procVars, ticketVars, start, meta>>
      /\ \A d \in Client \ {c} : /\ at'[d] = at[d] /\ shown'[d] = shown[d]
                                 /\ initial'[d] = initial[d] /\ ch'[d] = ch[d]
  BY <1>1 DEF WriteInitial, WriteMeta, WriteLive, chanVars, PtyTypeOK
<1>3. BufferIsTail' /\ TicketsInv'
  BY <1>1, <1>2 DEF BufferIsTail, TicketsInv, ringVars, ticketVars
<1>4. ASSUME NEW d \in Client \ {c} PROVE ClientOK(d)'
  BY <1>1, <1>2, <1>4, ClientFrame DEF ringVars
<1>5. /\ shown[c] \in Text /\ initial[c] \in Seq(Text) /\ ch[c] \in Seq(Text)
      /\ FlattenSeq(initial[c]) \in Text /\ FlattenSeq(ch[c]) \in Text
      /\ start[c] \in Nat /\ ClientOK(c)
  BY <1>1, GotType DEF PtyTypeOK
<1>6. CASE WriteInitial(c)
  <2> DEFINE frame == Head(initial[c])
             rest == FlattenSeq(Tail(initial[c]))
             queued == FlattenSeq(ch[c])
             had == shown[c]
  <2>1. /\ at[c] = "replay" /\ initial[c] # <<>>
        /\ shown' = [shown EXCEPT ![c] = had \o frame]
        /\ initial' = [initial EXCEPT ![c] = Tail(initial[c])]
        /\ UNCHANGED <<at, ch>>
    BY <1>6 DEF WriteInitial, chanVars
  <2>2. frame \in Text /\ Tail(initial[c]) \in Seq(Text)
    BY <1>5, <2>1, HeadTailProperties
  <2>3. rest \in Text /\ FlattenSeq(initial[c]) = frame \o rest
    BY <1>5, <2>1, <2>2, FlattenType, FlattenHead
  <2>4. had \in Text /\ queued \in Text
    BY <1>5
  <2>5. Received(c) = (had \o (frame \o rest)) \o queued
    BY <2>3 DEF Received
  <2>6. shown'[c] = had \o frame /\ FlattenSeq(initial'[c]) = rest /\ ch'[c] = ch[c]
    BY <1>1, <2>1 DEF PtyTypeOK
  <2>7. Received(c)' = ((had \o frame) \o rest) \o queued
    BY <2>6 DEF Received
  <2>8. PtyTypeOK'
    <3>1. had \o frame \in Text
      BY <2>2, <2>4, TextConcat
    <3> HIDE DEF frame, had
    <3> QED
      BY <1>1, <1>2, <2>1, <2>2, <3>1 DEF PtyTypeOK, ringVars, procVars, ticketVars
  <2> HIDE DEF frame, rest, queued, had
  <2>9. Received(c)' = Received(c)
    BY <2>2, <2>3, <2>4, <2>5, <2>7, TextAssoc
  <2>10. /\ Len(shown'[c]) = Len(had) + Len(frame) /\ Len(FlattenSeq(initial'[c])) = Len(rest)
         /\ Len(shown[c]) = Len(had) /\ Len(FlattenSeq(initial[c])) = Len(frame) + Len(rest)
    <3>1. Len(had \o frame) = Len(had) + Len(frame) /\ Len(frame \o rest) = Len(frame) + Len(rest)
      BY <2>2, <2>3, <2>4, TextConcat
    <3>2. shown[c] = had
      BY DEF had
    <3> QED
      BY <2>3, <2>6, <3>1, <3>2, Zenon
  <2>11. meta[c] = start[c] + Len(shown'[c]) + Len(FlattenSeq(initial'[c]))
    <3> DEFINE h == Len(had)
               f == Len(frame)
               r == Len(rest)
    <3>1. meta[c] = start[c] + h + (f + r)
      <4>1. meta[c] = start[c] + Len(shown[c]) + Len(FlattenSeq(initial[c]))
        BY <1>5, <2>1 DEF ClientOK
      <4> QED
        BY <2>10, <4>1
    <3>2. h \in Nat /\ f \in Nat /\ r \in Nat
      BY <2>2, <2>3, <2>4, TextEmpty
    <3> HIDE DEF h, f, r
    <3>3. meta[c] = start[c] + (h + f) + r
      BY <1>5, <3>1, <3>2
    <3> QED
      BY <2>10, <3>3, Zenon DEF h, f, r
  <2>12. ClientOK(c)'
    BY <1>2, <1>5, <2>1, <2>9, <2>11 DEF ClientOK, Attached, ringVars
  <2> QED
    BY <1>3, <1>4, <2>8, <2>12 DEF PtyIndInv
<1>7. CASE WriteMeta(c)
  <2>1. /\ at[c] = "replay" /\ initial[c] = <<>>
        /\ at' = [at EXCEPT ![c] = "live"]
        /\ UNCHANGED <<shown, initial, ch>>
    BY <1>7 DEF WriteMeta, chanVars
  <2>2. PtyTypeOK'
    BY <1>1, <1>2, <2>1 DEF PtyTypeOK, Stage, ringVars, procVars, ticketVars
  <2>3. Received(c)' = Received(c)
    BY <2>1 DEF Received
  <2>4. at'[c] = "live"
    BY <1>1, <2>1 DEF PtyTypeOK
  <2>5. ClientOK(c)'
    BY <1>2, <1>5, <2>1, <2>3, <2>4 DEF ClientOK, Attached, ringVars
  <2> QED
    BY <1>3, <1>4, <2>2, <2>5 DEF PtyIndInv
<1>8. CASE WriteLive(c)
  <2> DEFINE frame == Head(ch[c])
             rest == FlattenSeq(Tail(ch[c]))
             had == shown[c]
  <2>1. /\ at[c] = "live" /\ ch[c] # <<>>
        /\ shown' = [shown EXCEPT ![c] = had \o frame]
        /\ ch' = [ch EXCEPT ![c] = Tail(ch[c])]
        /\ UNCHANGED <<at, initial>>
    BY <1>8 DEF WriteLive
  <2>2. frame \in Text /\ Tail(ch[c]) \in Seq(Text)
    BY <1>5, <2>1, HeadTailProperties
  <2>3. rest \in Text /\ FlattenSeq(ch[c]) = frame \o rest
    BY <1>5, <2>1, <2>2, FlattenType, FlattenHead
  <2>4. had \in Text /\ initial[c] = <<>>
    BY <1>5, <2>1 DEF ClientOK
  <2>5. Received(c) = (had \o <<>>) \o (frame \o rest)
    BY <2>3, <2>4, FlattenEmpty DEF Received
  <2>6. Received(c)' = ((had \o frame) \o <<>>) \o rest
    BY <1>1, <2>1, <2>4, FlattenEmpty DEF Received, PtyTypeOK
  <2>7. had \o frame \in Text
    BY <2>2, <2>4, TextConcat
  <2>8. PtyTypeOK'
    <3> HIDE DEF frame, had
    <3> QED
      BY <1>1, <1>2, <2>1, <2>2, <2>7 DEF PtyTypeOK, ringVars, procVars, ticketVars
  <2> HIDE DEF frame, rest, had
  <2>9. Received(c)' = Received(c)
    <3>1. had \o <<>> = had /\ (had \o frame) \o <<>> = had \o frame
      BY <2>4, <2>7, TextEmpty
    <3>2. (had \o frame) \o rest = had \o (frame \o rest)
      BY <2>2, <2>3, <2>4, TextAssoc
    <3> QED
      BY <2>5, <2>6, <3>1, <3>2, Zenon
  <2>10. ClientOK(c)'
    BY <1>2, <1>5, <2>1, <2>9 DEF ClientOK, Attached, ringVars
  <2> QED
    BY <1>3, <1>4, <2>8, <2>10 DEF PtyIndInv
<1> QED
  BY <1>6, <1>7, <1>8

(* A handler that returns closes its channel only if nobody has. *)
LEMMA ReturnKeeps ==
  ASSUME PtyIndInv, NEW c \in Client, LiveEnds(c) \/ CtxDone(c)
  PROVE  PtyIndInv'
<1>1. PtyTypeOK /\ BufferIsTail /\ TicketsInv /\ \A d \in Client : ClientOK(d)
  BY DEF PtyIndInv
<1>2. /\ subs' = subs \ {c}
      /\ closes' = [d \in Client |-> IF d \in {c} \cap subs THEN closes[d] + 1 ELSE closes[d]]
      /\ at' = [at EXCEPT ![c] = "closed"]
      /\ ch' = [ch EXCEPT ![c] = <<>>] /\ initial' = [initial EXCEPT ![c] = <<>>]
      /\ shown' = [shown EXCEPT ![c] = <<>>]
      /\ start' = [start EXCEPT ![c] = 0] /\ meta' = [meta EXCEPT ![c] = -1]
      /\ UNCHANGED <<ringVars, procVars, ticketVars>>
  BY DEF LiveEnds, CtxDone, Returns, Gone, Close
<1>3. closes' \in [Client -> Nat]
  BY <1>1, <1>2 DEF PtyTypeOK
<1>4. <<>> \in Text /\ <<>> \in Seq(Text)
  BY TextEmpty
<1>5. PtyTypeOK'
  BY <1>1, <1>2, <1>3, <1>4 DEF PtyTypeOK, Stage, ringVars, procVars, ticketVars
<1>6. BufferIsTail' /\ TicketsInv'
  BY <1>1, <1>2 DEF BufferIsTail, TicketsInv, ringVars, ticketVars
<1>7. ASSUME NEW d \in Client PROVE ClientOK(d)'
  <2>1. CASE d = c
    <3>1. /\ at'[c] = "closed" /\ c \notin subs' /\ shown'[c] = <<>> /\ initial'[c] = <<>>
          /\ ch'[c] = <<>>
      BY <1>1, <1>2 DEF PtyTypeOK
    <3>2. closes'[c] = IF c \in subs THEN closes[c] + 1 ELSE closes[c]
      BY <1>2
    <3>3. closes'[c] <= 1
      BY <1>1, <3>2 DEF ClientOK
    <3> QED
      BY <2>1, <3>1, <3>3 DEF ClientOK, Attached
  <2>2. CASE d # c
    BY <1>1, <1>2, <2>2, ClientFrame DEF PtyTypeOK, ringVars
  <2> QED
    BY <2>1, <2>2
<1> QED
  BY <1>5, <1>6, <1>7 DEF PtyIndInv

-----------------------------------------------------------------------------
(* PtyInvariant: the inductive invariant of a terminal session and of all that
   read it, for every set of clients and tickets, every size of ring, frame and
   channel, and whatever the shell writes (pty.go, connect.go, pty_ws.go). *)
THEOREM PtyInvariant == PtySpec => []PtyIndInv
<1>1. PtyInit => PtyIndInv
  <2> SUFFICES ASSUME PtyInit PROVE PtyIndInv
    OBVIOUS
  <2>1. <<>> \in Text /\ <<>> \in Seq(Text) /\ Len(<<>>) = 0
    BY TextEmpty
  <2>2. PtyTypeOK
    BY <2>1 DEF PtyInit, PtyTypeOK, Stage
  <2>3. BufferIsTail
    <3>1. SubSeq(<<>>, 1, 0) = <<>>
      OBVIOUS
    <3>2. BufferLimit \in Nat \ {0}
      BY PtyAssumption
    <3>3. Min2(BufferLimit, 0) = 0
      BY <3>2 DEF Min2
    <3> QED
      BY <2>1, <3>1, <3>3 DEF PtyInit, BufferIsTail
  <2>4. TicketsInv
    BY DEF PtyInit, TicketsInv
  <2>5. ASSUME NEW c \in Client PROVE ClientOK(c)
    BY DEF PtyInit, ClientOK, Attached
  <2> QED
    BY <2>2, <2>3, <2>4, <2>5 DEF PtyIndInv
<1>2. PtyIndInv /\ [PtyNext]_ptyVars => PtyIndInv'
  <2> SUFFICES ASSUME PtyIndInv, [PtyNext]_ptyVars PROVE PtyIndInv'
    OBVIOUS
  <2>1. CASE UNCHANGED ptyVars
    <3>1. UNCHANGED <<ringVars, chanVars, procVars, ticketVars, handlerVars>>
      BY <2>1 DEF ptyVars
    <3>2. PtyTypeOK' /\ BufferIsTail' /\ TicketsInv'
      BY <3>1 DEF PtyIndInv, PtyTypeOK, BufferIsTail, TicketsInv,
                  ringVars, chanVars, procVars, ticketVars, handlerVars
    <3>3. ASSUME NEW c \in Client PROVE ClientOK(c)'
      BY <3>1, ClientFrame DEF PtyIndInv, ringVars, chanVars, handlerVars
    <3> QED
      BY <3>2, <3>3 DEF PtyIndInv
  <2>2. CASE PtyNext
    BY <2>2, ReadKeeps, ExitKeeps, SessionKeeps, RequestKeeps, AttachKeeps, WriteKeeps,
       ReturnKeeps DEF PtyNext, Pump
  <2> QED
    BY <2>1, <2>2
<1> QED
  BY <1>1, <1>2, PTL DEF PtySpec

(* SessionsHold: the ring is the tail of the output, the cursor a client is told
   is where its live output goes on, a channel is closed at most once and a
   ticket lets in at most one connection, whatever reads, attaches, exits,
   removals and disconnects interleave to. *)
THEOREM SessionsHold == PtySpec => []PtyInv
BY PtyInvariant, PtyIndImplies, PTL

(* ReplayJoinsLive: what a client is sent is the session's output from one
   offset on, with no gap and no repetition between the replay of connect.go and
   the live frames of onData, and complete as long as it is subscribed. *)
THEOREM ReplayJoinsLive == PtySpec => []NoGapNoRepeat
BY PtyInvariant, PtyIndImplies, PTL
=============================================================================
