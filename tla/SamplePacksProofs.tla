------------------------- MODULE SamplePacksProofs -------------------------
(***************************************************************************)
(* Proofs about SamplePacks, for any signals, types, kinds of handlers,    *)
(* pack sizes and bounds: packs are whole, less than a pack waits, the     *)
(* values of a message are rows under the names of their signals, and no   *)
(* sample is published twice or behind a later one.                        *)
(*                                                                         *)
(* PacksInv says of a handler what initBuilders and validateInputPorts     *)
(* rely on (Good): builders and times have got equally far unless values   *)
(* were left out, and a builder belongs to the signal that the reader has  *)
(* there unless it is remembered that it does not. Noticed says that it is *)
(* remembered: ports that change unannounced keep their number, or leave   *)
(* nothing begun. Lined says of a buffer and the queue behind it that the  *)
(* type changes at an event and nowhere else.                              *)
(*                                                                         *)
(* OrderInv gives each signal a mark between the last tick published of it *)
(* and the clock: what waits in its buffer or its builder lies up to the   *)
(* mark, what waits in its queue behind it, both in order.                 *)
(*                                                                         *)
(* What the folds compute is shown by induction, as the absence of a least *)
(* counterexample; first that the recursive function exists.               *)
(***************************************************************************)
EXTENDS SamplePacks, TLAPS, WellFoundedInduction

-----------------------------------------------------------------------------
(* Induction, and what the folds are. *)

\* A set of natural numbers that is not empty has a least element.
LEMMA LeastElement ==
  ASSUME NEW T, T \subseteq Nat, T # {}
  PROVE  \E n \in T : \A m \in T : n <= m
<1> DEFINE R == OpToRel(<, Nat)
<1>1. \A x, y \in Nat : <<x, y>> \in R <=> x < y
  BY DEF OpToRel
<1>2. IsWellFoundedOn(R, Nat)
  BY NatLessThanWellFounded
<1> HIDE DEF R
<1>3. PICK n \in T : \A m \in T : ~ (<<m, n>> \in R)
  BY <1>2, WFMin
<1>4. n \in Nat /\ \A m \in T : m \in Nat /\ ~ (m < n)
  BY <1>1, <1>3
<1> QED
  BY <1>4

\* Induction up to n, with a set in the place of a predicate.
LEMMA Induction ==
  ASSUME NEW n \in Nat, NEW S, 0 \in S,
         \A i \in 0..n - 1 : i \in S => i + 1 \in S
  PROVE  0..n \subseteq S
<1> DEFINE T == (0..n) \ S
<1>1. SUFFICES ASSUME T # {} PROVE FALSE
  OBVIOUS
<1>2. PICK m \in T : \A k \in T : m <= k
  <2>1. T \subseteq Nat
    OBVIOUS
  <2> HIDE DEF T
  <2> QED
    BY <1>1, <2>1, LeastElement
<1>3. m # 0 /\ m - 1 \in 0..n - 1 /\ m - 1 \in S
  BY <1>2
<1> QED
  BY <1>2, <1>3

\* f is the function that Filtered is defined by.
FiltersTo(f, xs, S) ==
  /\ f[0] = <<>>
  /\ \A i \in 1..Len(xs) :
       f[i] = IF xs[i] \in S THEN Append(f[i - 1], xs[i]) ELSE f[i - 1]

\* There is one.
LEMMA FilteredUnfolds ==
  ASSUME NEW X, NEW xs \in Seq(X), NEW S
  PROVE  \E f : FiltersTo(f, xs, S) /\ Filtered(xs, S) = f[Len(xs)]
<1> DEFINE n == Len(xs)
           base == <<>>
           Body(x, i) == IF xs[i] \in S THEN Append(x, xs[i]) ELSE x
           Is(f, m) == f = [i \in 0..m |-> IF i = 0 THEN base
                                           ELSE Body(f[i - 1], i)]
           T == {m \in Nat : \E f : Is(f, m)}
           upTo == CHOOSE f : Is(f, n)
<1> HIDE DEF base, Body
<1>1. 0 \in T
  <2>1. Is([i \in 0..0 |-> base], 0)
    OBVIOUS
  <2> QED
    BY <2>1
<1>2. ASSUME NEW m \in Nat, m \in T PROVE m + 1 \in T
  <2>1. PICK f : Is(f, m)
    BY <1>2
  <2> DEFINE g == [i \in 0..m + 1 |-> IF i = m + 1 THEN Body(f[m], m + 1)
                                      ELSE f[i]]
  <2>2. ASSUME NEW i \in 0..m + 1
        PROVE  g[i] = IF i = 0 THEN base ELSE Body(g[i - 1], i)
    <3>1. CASE i = m + 1
      <4>1. g[i - 1] = f[m]
        BY <3>1
      <4> QED
        BY <3>1, <4>1
    <3>2. CASE i # m + 1
      <4>1. i \in 0..m /\ g[i] = f[i] /\ (i # 0 => g[i - 1] = f[i - 1])
        BY <3>2
      <4> QED
        BY <4>1, <2>1
    <3> QED
      BY <3>1, <3>2
  <2>3. Is(g, m + 1)
    BY <2>2
  <2> HIDE DEF g
  <2> QED
    BY <2>3
<1>3. n \in T
  <2> HIDE DEF T
  <2>1. 0..n \subseteq T
    BY <1>1, <1>2, Induction
  <2> QED
    BY <2>1
<1>4. Is(upTo, n)
  BY <1>3
<1>5. Filtered(xs, S) = upTo[n]
  BY DEF Filtered, Folded, base, Body
<1> HIDE DEF upTo
<1>6. /\ upTo[0] = base
      /\ \A i \in 1..n : upTo[i] = Body(upTo[i - 1], i)
  BY <1>4
<1> QED
  BY <1>5, <1>6 DEF FiltersTo, base, Body

\* What is filtered is what lies in S, in the order it had.
Embeds(e, ys, xs, S) ==
  /\ e \in [1..Len(ys) -> 1..Len(xs)]
  /\ \A j \in 1..Len(ys) : ys[j] = xs[e[j]] /\ ys[j] \in S
  /\ \A j, k \in 1..Len(ys) : j < k => e[j] < e[k]
  /\ \A i \in 1..Len(xs) : xs[i] \in S => \E j \in 1..Len(ys) : e[j] = i

\* A list, and what Filtered makes of it.
LEMMA FilteredIs ==
  ASSUME NEW X, NEW xs \in Seq(X), NEW S
  PROVE  /\ Filtered(xs, S) \in Seq(X)
         /\ \E e : Embeds(e, Filtered(xs, S), xs, S)
         /\ \A i \in 1..Len(xs) : xs[i] \notin S => Len(Filtered(xs, S)) < Len(xs)
<1>1. PICK f : FiltersTo(f, xs, S) /\ Filtered(xs, S) = f[Len(xs)]
  BY FilteredUnfolds
<1> DEFINE n == Len(xs)
           Part(e, ys, m) ==
             /\ e \in [1..Len(ys) -> 1..m]
             /\ \A j \in 1..Len(ys) : ys[j] = xs[e[j]] /\ ys[j] \in S
             /\ \A j, k \in 1..Len(ys) : j < k => e[j] < e[k]
             /\ \A i \in 1..m : xs[i] \in S => \E j \in 1..Len(ys) : e[j] = i
           Right(ys, m) ==
             /\ ys \in Seq(X) /\ Len(ys) <= m
             /\ \E e : Part(e, ys, m)
             /\ \A i \in 1..m : xs[i] \notin S => Len(ys) < m
           T == {m \in 0..n : Right(f[m], m)}
<1>2. 0 \in T
  <2>1. f[0] = <<>>
    BY <1>1 DEF FiltersTo
  <2>2. Part(<<>>, <<>>, 0)
    OBVIOUS
  <2>3. Right(<<>>, 0)
    <3> HIDE DEF Part
    <3> QED
      BY <2>2
  <2> HIDE DEF Right
  <2> QED
    BY <2>1, <2>3
<1>3. ASSUME NEW m \in 0..n - 1, m \in T PROVE m + 1 \in T
  <2> DEFINE ys == f[m]
  <2>1. PICK e : Part(e, ys, m)
    BY <1>3
  <2>2. ys \in Seq(X) /\ Len(ys) \in Nat /\ Len(ys) <= m
    BY <1>3
  <2>3. \A i \in 1..m : xs[i] \notin S => Len(ys) < m
    BY <1>3
  <2>4. m + 1 \in 1..n /\ xs[m + 1] \in X
    OBVIOUS
  <2>5. f[m + 1] = IF xs[m + 1] \in S THEN Append(ys, xs[m + 1]) ELSE ys
    BY <1>1, <2>4 DEF FiltersTo
  <2> HIDE DEF ys
  <2>6. CASE xs[m + 1] \in S
    <3> DEFINE zs == Append(ys, xs[m + 1])
               d == [j \in 1..Len(ys) + 1 |-> IF j = Len(ys) + 1 THEN m + 1
                                              ELSE e[j]]
    <3>1. /\ zs \in Seq(X) /\ Len(zs) = Len(ys) + 1
          /\ zs[Len(ys) + 1] = xs[m + 1]
          /\ \A j \in 1..Len(ys) : zs[j] = ys[j]
      BY <2>2, <2>4
    <3>2. d \in [1..Len(zs) -> 1..m + 1]
      BY <2>1, <2>2, <3>1
    <3>3. \A j \in 1..Len(zs) : zs[j] = xs[d[j]] /\ zs[j] \in S
      BY <2>1, <2>2, <3>1, <2>6
    <3>4. \A j, k \in 1..Len(zs) : j < k => d[j] < d[k]
      <4> SUFFICES ASSUME NEW j \in 1..Len(zs), NEW k \in 1..Len(zs), j < k
                   PROVE  d[j] < d[k]
        OBVIOUS
      <4>1. j \in 1..Len(ys) /\ d[j] = e[j] /\ e[j] \in 1..m
        BY <2>1, <2>2, <3>1
      <4>2. CASE k = Len(ys) + 1
        BY <4>1, <4>2, <2>2
      <4>3. CASE k # Len(ys) + 1
        <5>1. k \in 1..Len(ys) /\ d[k] = e[k]
          BY <4>3, <2>2, <3>1
        <5> QED
          BY <4>1, <5>1, <2>1
      <4> QED
        BY <4>2, <4>3
    <3>5. \A i \in 1..m + 1 : xs[i] \in S => \E j \in 1..Len(zs) : d[j] = i
      <4> SUFFICES ASSUME NEW i \in 1..m + 1, xs[i] \in S
                   PROVE  \E j \in 1..Len(zs) : d[j] = i
        OBVIOUS
      <4>1. CASE i = m + 1
        <5>1. Len(ys) + 1 \in 1..Len(zs) /\ d[Len(ys) + 1] = i
          BY <4>1, <2>2, <3>1
        <5> QED
          BY <5>1
      <4>2. CASE i # m + 1
        <5>1. PICK j \in 1..Len(ys) : e[j] = i
          BY <4>2, <2>1
        <5>2. j \in 1..Len(zs) /\ d[j] = i
          BY <5>1, <2>2, <3>1
        <5> QED
          BY <5>2
      <4> QED
        BY <4>1, <4>2
    <3> HIDE DEF d
    <3>6. Part(d, zs, m + 1)
      BY <3>2, <3>3, <3>4, <3>5
    <3>7. \A i \in 1..m + 1 : xs[i] \notin S => Len(zs) < m + 1
      BY <2>3, <2>6, <2>2, <3>1
    <3> HIDE DEF zs
    <3>8. f[m + 1] = zs
      BY <2>5, <2>6 DEF zs
    <3>9. Right(zs, m + 1)
      <4> HIDE DEF Part
      <4> QED
        BY <3>1, <3>6, <3>7, <2>2
    <3> HIDE DEF Right
    <3> QED
      BY <3>8, <3>9
  <2>7. CASE xs[m + 1] \notin S
    <3>1. Part(e, ys, m + 1)
      <4>1. e \in [1..Len(ys) -> 1..m + 1]
        BY <2>1
      <4>2. \A i \in 1..m + 1 : xs[i] \in S => \E j \in 1..Len(ys) : e[j] = i
        BY <2>1, <2>7
      <4> QED
        BY <2>1, <4>1, <4>2
    <3>2. Right(ys, m + 1)
      <4> HIDE DEF Part
      <4> QED
        BY <3>1, <2>2
    <3>3. f[m + 1] = ys
      BY <2>5, <2>7
    <3> HIDE DEF Right
    <3> QED
      BY <3>2, <3>3
  <2> QED
    BY <2>6, <2>7
<1>4. n \in T
  <2> HIDE DEF T
  <2>1. 0..n \subseteq T
    BY <1>2, <1>3, Induction
  <2> QED
    BY <2>1
<1>5. Right(f[n], n)
  BY <1>4
<1>6. PICK e : Part(e, f[n], n)
  BY <1>5
<1>7. Embeds(e, f[n], xs, S)
  BY <1>6 DEF Embeds
<1> HIDE DEF Part
<1> QED
  BY <1>1, <1>5, <1>7

-----------------------------------------------------------------------------
(* What the variables hold. *)

\* Packets of types in U, and samples of signals in R and of types in U.
Packets(U) == {p \in [type : U, ticks : Seq(Nat)] : p.ticks # <<>>}
Samples(R, U) == [signal : R, tick : Nat, type : U, as : U]

\* A buffer counts what its packets hold, less what is used of the first.
Fits(b) ==
  /\ b.dataSize = Total(b.data) - b.offset
  /\ IF b.data = <<>> THEN b.offset = 0 ELSE b.offset < Len(b.data[1].ticks)
Buffers(U) ==
  {b \in [data : Seq(Packets(U)), dataSize : Nat, offset : Nat] : Fits(b)}

-----------------------------------------------------------------------------
(* How much is in a list of packets. *)

Sums(f, data) ==
  /\ f[0] = 0
  /\ \A i \in 1..Len(data) : f[i] = f[i - 1] + Len(data[i].ticks)

\* There is the function that Total is defined by.
LEMMA TotalUnfolds ==
  ASSUME NEW U, NEW data \in Seq(Packets(U))
  PROVE  \E f : Sums(f, data) /\ Total(data) = f[Len(data)]
<1> DEFINE n == Len(data)
           base == 0
           Body(x, i) == x + Len(data[i].ticks)
           Is(f, m) == f = [i \in 0..m |-> IF i = 0 THEN base
                                           ELSE Body(f[i - 1], i)]
           T == {m \in Nat : \E f : Is(f, m)}
           upTo == CHOOSE f : Is(f, n)
<1> HIDE DEF base, Body
<1>1. 0 \in T
  <2>1. Is([i \in 0..0 |-> base], 0)
    OBVIOUS
  <2> QED
    BY <2>1
<1>2. ASSUME NEW m \in Nat, m \in T PROVE m + 1 \in T
  <2>1. PICK f : Is(f, m)
    BY <1>2
  <2> DEFINE g == [i \in 0..m + 1 |-> IF i = m + 1 THEN Body(f[m], m + 1)
                                      ELSE f[i]]
  <2>2. ASSUME NEW i \in 0..m + 1
        PROVE  g[i] = IF i = 0 THEN base ELSE Body(g[i - 1], i)
    <3>1. CASE i = m + 1
      <4>1. g[i - 1] = f[m]
        BY <3>1
      <4> QED
        BY <3>1, <4>1
    <3>2. CASE i # m + 1
      <4>1. i \in 0..m /\ g[i] = f[i] /\ (i # 0 => g[i - 1] = f[i - 1])
        BY <3>2
      <4> QED
        BY <4>1, <2>1
    <3> QED
      BY <3>1, <3>2
  <2>3. Is(g, m + 1)
    BY <2>2
  <2> HIDE DEF g
  <2> QED
    BY <2>3
<1>3. n \in T
  <2> HIDE DEF T
  <2>1. 0..n \subseteq T
    BY <1>1, <1>2, Induction
  <2> QED
    BY <2>1
<1>4. Is(upTo, n)
  BY <1>3
<1>5. Total(data) = upTo[n]
  BY DEF Total, Folded, base, Body
<1> HIDE DEF upTo
<1>6. /\ upTo[0] = base
      /\ \A i \in 1..n : upTo[i] = Body(upTo[i - 1], i)
  BY <1>4
<1> QED
  BY <1>5, <1>6 DEF Sums, base, Body

\* Such a function is determined.
LEMMA TotalIs ==
  ASSUME NEW U, NEW data \in Seq(Packets(U)), NEW f, Sums(f, data)
  PROVE  Total(data) = f[Len(data)] /\ Total(data) \in Nat
<1>1. PICK g : Sums(g, data) /\ Total(data) = g[Len(data)]
  BY TotalUnfolds
<1> DEFINE n == Len(data)
           T == {m \in 0..n : f[m] = g[m] /\ f[m] \in Nat}
<1>2. 0 \in T
  BY <1>1 DEF Sums
<1>3. ASSUME NEW m \in 0..n - 1, m \in T PROVE m + 1 \in T
  <2>1. m + 1 \in 1..n /\ Len(data[m + 1].ticks) \in Nat
    BY DEF Packets
  <2>2. f[m + 1] = f[m] + Len(data[m + 1].ticks)
    BY <2>1 DEF Sums
  <2>3. g[m + 1] = g[m] + Len(data[m + 1].ticks)
    BY <2>1, <1>1 DEF Sums
  <2> QED
    BY <2>1, <2>2, <2>3, <1>3
<1> HIDE DEF T
<1>4. 0..n \subseteq T
  BY <1>2, <1>3, Induction
<1> QED
  BY <1>1, <1>4 DEF T

\* Nothing is in an empty list.
LEMMA TotalOfNone == Total(<<>>) = 0
<1>1. Sums([i \in 0..0 |-> 0], <<>>)
  BY DEF Sums
<1>2. <<>> \in Seq(Packets(Types)) /\ Len(<<>>) = 0
  OBVIOUS
<1> QED
  BY <1>1, <1>2, TotalIs

\* A packet that is added is counted.
LEMMA TotalOfMore ==
  ASSUME NEW U, NEW data \in Seq(Packets(U)), NEW p \in Packets(U)
  PROVE  Total(Append(data, p)) = Total(data) + Len(p.ticks)
<1>1. PICK f : Sums(f, data) /\ Total(data) = f[Len(data)]
  BY TotalUnfolds
<1> DEFINE n == Len(data)
           more == Append(data, p)
           g == [i \in 0..n + 1 |-> IF i = n + 1 THEN f[n] + Len(p.ticks)
                                    ELSE f[i]]
<1>2. /\ more \in Seq(Packets(U)) /\ Len(more) = n + 1 /\ more[n + 1] = p
      /\ \A i \in 1..n : more[i] = data[i]
  OBVIOUS
<1>3. Sums(g, more)
  <2>1. g[0] = 0
    BY <1>1 DEF Sums
  <2>2. ASSUME NEW i \in 1..n + 1 PROVE g[i] = g[i - 1] + Len(more[i].ticks)
    <3>1. CASE i = n + 1
      BY <3>1, <1>2
    <3>2. CASE i # n + 1
      <4>1. i \in 1..n /\ g[i] = f[i] /\ g[i - 1] = f[i - 1]
        BY <3>2
      <4> QED
        BY <4>1, <1>1, <1>2 DEF Sums
    <3> QED
      BY <3>1, <3>2
  <2> QED
    BY <2>1, <2>2, <1>2 DEF Sums
<1>4. g[n + 1] = Total(data) + Len(p.ticks)
  BY <1>1
<1> HIDE DEF g, more
<1>5. Total(more) = g[n + 1]
  BY <1>2, <1>3, TotalIs
<1> QED
  BY <1>4, <1>5 DEF more

\* A packet that goes is no more counted.
LEMMA TotalOfRest ==
  ASSUME NEW U, NEW data \in Seq(Packets(U)), data # <<>>
  PROVE  /\ Total(Tail(data)) = Total(data) - Len(data[1].ticks)
         /\ Total(Tail(data)) \in Nat
<1>1. PICK f : Sums(f, data) /\ Total(data) = f[Len(data)]
  BY TotalUnfolds
<1> DEFINE n == Len(data)
           rest == Tail(data)
           g == [i \in 0..n - 1 |-> f[i + 1] - Len(data[1].ticks)]
<1>0. n \in Nat \ {0} /\ Len(data[1].ticks) \in Nat
  BY DEF Packets
<1>2. /\ rest \in Seq(Packets(U)) /\ Len(rest) = n - 1
      /\ \A i \in 1..n - 1 : rest[i] = data[i + 1]
  OBVIOUS
<1>6. \A i \in 0..n : f[i] \in Nat
  <2> DEFINE T == {i \in 0..n : f[i] \in Nat}
  <2>1. 0 \in T
    BY <1>1 DEF Sums
  <2>2. ASSUME NEW m \in 0..n - 1, m \in T PROVE m + 1 \in T
    <3>1. m + 1 \in 1..n /\ Len(data[m + 1].ticks) \in Nat
      BY DEF Packets
    <3> QED
      BY <3>1, <2>2, <1>1 DEF Sums
  <2> HIDE DEF T
  <2>3. 0..n \subseteq T
    BY <2>1, <2>2, <1>0, Induction
  <2> QED
    BY <2>3 DEF T
<1>3. Sums(g, rest)
  <2>1. g[0] = 0
    <3>1. f[1] = f[0] + Len(data[1].ticks) /\ f[0] = 0
      BY <1>0, <1>1 DEF Sums
    <3> QED
      BY <3>1, <1>0
  <2>2. ASSUME NEW i \in 1..n - 1 PROVE g[i] = g[i - 1] + Len(rest[i].ticks)
    <3>1. f[i + 1] = f[i] + Len(data[i + 1].ticks)
      <4>1. i + 1 \in 1..n /\ (i + 1) - 1 = i
        BY <1>0
      <4> QED
        BY <4>1, <1>1 DEF Sums
    <3>2. g[i] = f[i + 1] - Len(data[1].ticks)
      OBVIOUS
    <3>3. g[i - 1] = f[i] - Len(data[1].ticks)
      BY <1>0
    <3>4. f[i] \in Nat /\ Len(rest[i].ticks) \in Nat
      BY <1>6, <1>2 DEF Packets
    <3> QED
      BY <3>1, <3>2, <3>3, <3>4, <1>0, <1>2
  <2> QED
    BY <2>1, <2>2, <1>2 DEF Sums
<1>4. g[n - 1] = Total(data) - Len(data[1].ticks)
  BY <1>0, <1>1
<1> HIDE DEF g, rest
<1>5. Total(rest) = g[n - 1] /\ Total(rest) \in Nat
  BY <1>2, <1>3, TotalIs
<1> QED
  BY <1>4, <1>5 DEF rest

-----------------------------------------------------------------------------
(* Buffers, and the packs that are taken out of them. *)

\* A packet goes into a buffer, and is counted.
LEMMA Pushed ==
  ASSUME NEW U, NEW b \in Buffers(U), NEW p \in Packets(U)
  PROVE  /\ Push(b, p) \in Buffers(U)
         /\ Push(b, p).dataSize = b.dataSize + Len(p.ticks)
<1> DEFINE data == Append(b.data, p)
<1>1. /\ b.data \in Seq(Packets(U)) /\ b.dataSize \in Nat /\ b.offset \in Nat
      /\ Fits(b)
  BY DEF Buffers
<1>2. Len(p.ticks) \in Nat \ {0}
  BY DEF Packets
<1>3. Push(b, p) = [data |-> data, dataSize |-> b.dataSize + Len(p.ticks),
                    offset |-> b.offset]
  <2>1. b = [data |-> b.data, dataSize |-> b.dataSize, offset |-> b.offset]
    BY DEF Buffers
  <2>2. \A d, n, o, x : [[data |-> d, dataSize |-> n, offset |-> o]
                         EXCEPT !.data = x]
                        = [data |-> x, dataSize |-> n, offset |-> o]
    OBVIOUS
  <2>4. \A d, n, o, x : [[data |-> d, dataSize |-> n, offset |-> o]
                         EXCEPT !.dataSize = x]
                        = [data |-> d, dataSize |-> x, offset |-> o]
    OBVIOUS
  <2>3. Push(b, p) = [[b EXCEPT !.data = data]
                      EXCEPT !.dataSize = b.dataSize + Len(p.ticks)]
    BY Zenon DEF Push
  <2> HIDE DEF data
  <2> QED
    BY <2>1, <2>2, <2>3, <2>4
<1>4. data \in Seq(Packets(U)) /\ data # <<>>
  BY <1>1
<1>5. Total(data) = Total(b.data) + Len(p.ticks) /\ Total(b.data) \in Nat
  BY <1>1, TotalOfMore, TotalUnfolds, TotalIs
<1>6. b.offset < Len(data[1].ticks)
  <2>1. CASE b.data = <<>>
    <3>1. data[1] = p /\ b.offset = 0
      BY <2>1, <1>1 DEF Fits
    <3> QED
      BY <3>1, <1>2
  <2>2. CASE b.data # <<>>
    <3>1. data[1] = b.data[1]
      BY <2>2, <1>1
    <3> QED
      BY <2>2, <3>1, <1>1 DEF Fits
  <2> QED
    BY <2>1, <2>2
<1> HIDE DEF data
<1>7. Fits(Push(b, p))
  BY <1>1, <1>2, <1>3, <1>4, <1>5, <1>6 DEF Fits
<1> QED
  BY <1>1, <1>2, <1>3, <1>4, <1>7 DEF Buffers

\* A sample is taken out of a buffer that has one.
LEMMA Used ==
  ASSUME NEW U, NEW b \in Buffers(U), b.dataSize > 0, NEW s
  PROVE  /\ getSample(b) \in Buffers(U)
         /\ getSample(b).dataSize = b.dataSize - 1
         /\ SampleAt(s, b) \in Samples({s}, U)
<1> DEFINE last == b.offset + 1 = Len(b.data[1].ticks)
           data == IF last THEN Tail(b.data) ELSE b.data
           offset == IF last THEN 0 ELSE b.offset + 1
<1>1. /\ b.data \in Seq(Packets(U)) /\ b.dataSize \in Nat /\ b.offset \in Nat
      /\ Fits(b)
  BY DEF Buffers
<1>2. b.data # <<>>
  <2>1. SUFFICES ASSUME b.data = <<>> PROVE FALSE
    OBVIOUS
  <2>2. Total(b.data) = 0 /\ b.offset = 0
    BY <2>1, <1>1, TotalOfNone DEF Fits
  <2> QED
    BY <2>2, <1>1 DEF Fits
<1>3. /\ b.data[1] \in Packets(U) /\ b.data[1].type \in U
      /\ b.data[1].ticks \in Seq(Nat)
      /\ Len(b.data[1].ticks) \in Nat /\ b.offset < Len(b.data[1].ticks)
  <2>1. b.data[1] \in Packets(U)
    BY <1>1, <1>2
  <2>2. b.offset < Len(b.data[1].ticks)
    BY <1>1, <1>2 DEF Fits
  <2> QED
    BY <2>1, <2>2 DEF Packets
<1>4. SampleAt(s, b) \in Samples({s}, U)
  <2>1. b.offset + 1 \in 1..Len(b.data[1].ticks)
    BY <1>1, <1>3
  <2>2. b.data[1].ticks[b.offset + 1] \in Nat
    BY <2>1, <1>3
  <2> QED
    BY <2>2, <1>3 DEF SampleAt, Sample, Samples
<1>5. getSample(b) = [data |-> data, dataSize |-> b.dataSize - 1,
                      offset |-> offset]
  BY DEF getSample
<1>6. data \in Seq(Packets(U)) /\ offset \in Nat /\ b.dataSize - 1 \in Nat
  BY <1>1, <1>2
<1>7. b.dataSize - 1 = Total(data) - offset
  <2>1. CASE last
    <3>1. Total(data) = Total(b.data) - Len(b.data[1].ticks)
      BY <2>1, <1>1, <1>2, TotalOfRest
    <3> QED
      BY <2>1, <3>1, <1>1, <1>2, <1>3, TotalUnfolds, TotalIs DEF Fits
  <2>2. CASE ~last
    BY <2>2, <1>1, <1>3, TotalUnfolds, TotalIs DEF Fits
  <2> QED
    BY <2>1, <2>2
<1>8. IF data = <<>> THEN offset = 0 ELSE offset < Len(data[1].ticks)
  <2>1. CASE last
    <3>1. data # <<>> => data[1] \in Packets(U)
      BY <1>6
    <3>2. data # <<>> => 0 < Len(data[1].ticks)
      BY <3>1 DEF Packets
    <3> QED
      BY <2>1, <3>2
  <2>2. CASE ~last
    BY <2>2, <1>1, <1>2, <1>3
  <2> QED
    BY <2>1, <2>2
<1> HIDE DEF data, offset
<1>9. Fits(getSample(b))
  BY <1>5, <1>7, <1>8 DEF Fits
<1> QED
  BY <1>4, <1>5, <1>6, <1>9 DEF Buffers

\* f is the function that TakePack is defined by, and there is one.
Takes(f, s, b) ==
  /\ f[0] = [buffer |-> b, pack |-> <<>>]
  /\ \A i \in 1..PackSize :
       f[i] = [buffer |-> getSample(f[i - 1].buffer),
               pack |-> Append(f[i - 1].pack, SampleAt(s, f[i - 1].buffer))]

\* The function that TakePack is defined by exists.
LEMMA TakePackUnfolds ==
  ASSUME NEW s, NEW b
  PROVE  \E f : Takes(f, s, b) /\ TakePack(s, b) = f[PackSize]
<1> DEFINE n == PackSize
           base == [buffer |-> b, pack |-> <<>>]
           Body(x, i) == [buffer |-> getSample(x.buffer),
                          pack |-> Append(x.pack, SampleAt(s, x.buffer))]
           Is(f, m) == f = [i \in 0..m |-> IF i = 0 THEN base
                                           ELSE Body(f[i - 1], i)]
           T == {m \in Nat : \E f : Is(f, m)}
           upTo == CHOOSE f : Is(f, n)
<1>0. n \in Nat
  BY PacksAssumption
<1> HIDE DEF n, base, Body
<1>1. 0 \in T
  <2>1. Is([i \in 0..0 |-> base], 0)
    OBVIOUS
  <2> QED
    BY <2>1
<1>2. ASSUME NEW m \in Nat, m \in T PROVE m + 1 \in T
  <2>1. PICK f : Is(f, m)
    BY <1>2
  <2> DEFINE g == [i \in 0..m + 1 |-> IF i = m + 1 THEN Body(f[m], m + 1)
                                      ELSE f[i]]
  <2>2. ASSUME NEW i \in 0..m + 1
        PROVE  g[i] = IF i = 0 THEN base ELSE Body(g[i - 1], i)
    <3>1. CASE i = m + 1
      <4>1. g[i - 1] = f[m]
        BY <3>1
      <4> QED
        BY <3>1, <4>1
    <3>2. CASE i # m + 1
      <4>1. i \in 0..m /\ g[i] = f[i] /\ (i # 0 => g[i - 1] = f[i - 1])
        BY <3>2
      <4> QED
        BY <4>1, <2>1
    <3> QED
      BY <3>1, <3>2
  <2>3. Is(g, m + 1)
    BY <2>2
  <2> HIDE DEF g
  <2> QED
    BY <2>3
<1>3. n \in T
  <2> HIDE DEF T
  <2>1. 0..n \subseteq T
    BY <1>0, <1>1, <1>2, Induction
  <2> QED
    BY <1>0, <2>1
<1>4. Is(upTo, n)
  BY <1>3
<1>5. TakePack(s, b) = upTo[n]
  BY DEF TakePack, Folded, n, base, Body
<1> HIDE DEF upTo
<1>6. /\ upTo[0] = base
      /\ \A i \in 1..n : upTo[i] = Body(upTo[i - 1], i)
  BY <1>0, <1>4
<1> QED
  BY <1>5, <1>6 DEF Takes, n, base, Body

\* A pack is taken out of a buffer that has one.
LEMMA PackTaken ==
  ASSUME NEW U, NEW b \in Buffers(U), b.dataSize >= PackSize, NEW s
  PROVE  /\ TakePack(s, b).buffer \in Buffers(U)
         /\ TakePack(s, b).buffer.dataSize = b.dataSize - PackSize
         /\ TakePack(s, b).pack \in Seq(Samples({s}, U))
         /\ Len(TakePack(s, b).pack) = PackSize
<1>1. PICK f : Takes(f, s, b) /\ TakePack(s, b) = f[PackSize]
  BY TakePackUnfolds
<1> DEFINE Right(st, i) == /\ st.buffer \in Buffers(U)
                           /\ st.buffer.dataSize = b.dataSize - i
                           /\ st.pack \in Seq(Samples({s}, U))
                           /\ Len(st.pack) = i
           T == {i \in 0..PackSize : Right(f[i], i)}
<1>0. PackSize \in Nat \ {0} /\ b.dataSize \in Nat
  BY PacksAssumption DEF Buffers
<1>2. 0 \in T
  <2>1. f[0] = [buffer |-> b, pack |-> <<>>]
    BY <1>1 DEF Takes
  <2>2. f[0].buffer = b /\ f[0].pack = <<>>
    BY <2>1
  <2>3. Right(f[0], 0)
    BY <2>2, <1>0
  <2> QED
    BY <2>3, <1>0
<1>3. ASSUME NEW i \in 0..PackSize - 1, i \in T PROVE i + 1 \in T
  <2> DEFINE c == f[i].buffer
             pack == f[i].pack
  <2>1. i + 1 \in 1..PackSize /\ i \in Nat /\ (i + 1) - 1 = i
    BY <1>0
  <2>2. /\ c \in Buffers(U) /\ c.dataSize = b.dataSize - i
        /\ pack \in Seq(Samples({s}, U)) /\ Len(pack) = i
    BY <1>3
  <2>3. f[i + 1] = [buffer |-> getSample(c),
                    pack |-> Append(pack, SampleAt(s, c))]
    BY <2>1, <1>1 DEF Takes
  <2> HIDE DEF c, pack
  <2>4. c.dataSize > 0
    BY <1>0, <2>1, <2>2
  <2>5. /\ getSample(c) \in Buffers(U)
        /\ getSample(c).dataSize = c.dataSize - 1
        /\ SampleAt(s, c) \in Samples({s}, U)
    BY <2>2, <2>4, Used
  <2>6. /\ Append(pack, SampleAt(s, c)) \in Seq(Samples({s}, U))
        /\ Len(Append(pack, SampleAt(s, c))) = i + 1
    BY <2>2, <2>5
  <2>7. /\ f[i + 1].buffer = getSample(c)
        /\ f[i + 1].pack = Append(pack, SampleAt(s, c))
    BY <2>3
  <2>8. getSample(c).dataSize = b.dataSize - (i + 1)
    BY <1>0, <2>1, <2>2, <2>5
  <2>9. Right(f[i + 1], i + 1)
    BY <2>5, <2>6, <2>7, <2>8
  <2> HIDE DEF Right
  <2> QED
    BY <2>1, <2>9
<1> HIDE DEF T
<1>4. 0..PackSize \subseteq T
  BY <1>0, <1>2, <1>3, Induction
<1>5. Right(f[PackSize], PackSize)
  <2> HIDE DEF Right
  <2> QED
    BY <1>0, <1>4 DEF T
<1> QED
  BY <1>1, <1>5

\* Messages of n samples of one signal, of types in U.
Singles(s, U, n) ==
  {OfOneSignal(s, xs) : xs \in {ys \in Seq(Samples({s}, U)) : Len(ys) = n}}

\* A turn of the loop makes a message of a pack, or finds none.
LEMMA OnePackTaken ==
  ASSUME NEW U, NEW s, NEW st, st.buffer \in Buffers(U),
         st.messages \in Seq(Singles(s, U, PackSize))
  PROVE  /\ OnePack(s, st).buffer \in Buffers(U)
         /\ OnePack(s, st).messages \in Seq(Singles(s, U, PackSize))
         /\ IF st.buffer.dataSize < PackSize
            THEN OnePack(s, st).buffer.dataSize = st.buffer.dataSize
            ELSE OnePack(s, st).buffer.dataSize = st.buffer.dataSize - PackSize
<1>0. PackSize \in Nat \ {0} /\ st.buffer.dataSize \in Nat
  BY PacksAssumption DEF Buffers
<1>1. CASE st.buffer.dataSize < PackSize
  BY <1>1 DEF OnePack
<1>2. CASE ~ (st.buffer.dataSize < PackSize)
  <2> DEFINE taken == TakePack(s, st.buffer)
             message == OfOneSignal(s, taken.pack)
  <2>1. st.buffer.dataSize >= PackSize
    BY <1>0, <1>2
  <2>2. /\ taken.buffer \in Buffers(U)
        /\ taken.buffer.dataSize = st.buffer.dataSize - PackSize
        /\ taken.pack \in Seq(Samples({s}, U)) /\ Len(taken.pack) = PackSize
    BY <2>1, PackTaken
  <2>3. message \in Singles(s, U, PackSize)
    BY <2>2 DEF Singles
  <2>4. OnePack(s, st) = [buffer |-> taken.buffer,
                          messages |-> Append(st.messages, message)]
    BY <1>2 DEF OnePack
  <2> HIDE DEF taken, message
  <2> QED
    BY <2>2, <2>3, <2>4, <1>2
<1> QED
  BY <1>1, <1>2

\* f is the function that Collect is defined by, and there is one.
Packing(f, s, st, n) ==
  f[0] = st /\ \A i \in 1..n : f[i] = OnePack(s, f[i - 1])

\* The function that Collect is defined by exists.
LEMMA CollectUnfolds ==
  ASSUME NEW s, NEW st, NEW p, Push(st.buffer, p).dataSize \in Nat
  PROVE  \E f : Packing(f, s, [buffer |-> Push(st.buffer, p),
                                  messages |-> st.messages],
                         Push(st.buffer, p).dataSize)
              /\ Collect(s, st, p) = f[Push(st.buffer, p).dataSize]
<1> DEFINE n == Push(st.buffer, p).dataSize
           base == [buffer |-> Push(st.buffer, p), messages |-> st.messages]
           Body(x, i) == OnePack(s, x)
           Is(f, m) == f = [i \in 0..m |-> IF i = 0 THEN base
                                           ELSE Body(f[i - 1], i)]
           T == {m \in Nat : \E f : Is(f, m)}
           upTo == CHOOSE f : Is(f, n)
<1>0. n \in Nat
  OBVIOUS
<1> HIDE DEF n, base, Body
<1>1. 0 \in T
  <2>1. Is([i \in 0..0 |-> base], 0)
    OBVIOUS
  <2> QED
    BY <2>1
<1>2. ASSUME NEW m \in Nat, m \in T PROVE m + 1 \in T
  <2>1. PICK f : Is(f, m)
    BY <1>2
  <2> DEFINE g == [i \in 0..m + 1 |-> IF i = m + 1 THEN Body(f[m], m + 1)
                                      ELSE f[i]]
  <2>2. ASSUME NEW i \in 0..m + 1
        PROVE  g[i] = IF i = 0 THEN base ELSE Body(g[i - 1], i)
    <3>1. CASE i = m + 1
      <4>1. g[i - 1] = f[m]
        BY <3>1
      <4> QED
        BY <3>1, <4>1
    <3>2. CASE i # m + 1
      <4>1. i \in 0..m /\ g[i] = f[i] /\ (i # 0 => g[i - 1] = f[i - 1])
        BY <3>2
      <4> QED
        BY <4>1, <2>1
    <3> QED
      BY <3>1, <3>2
  <2>3. Is(g, m + 1)
    BY <2>2
  <2> HIDE DEF g
  <2> QED
    BY <2>3
<1>3. n \in T
  <2> HIDE DEF T
  <2>1. 0..n \subseteq T
    BY <1>0, <1>1, <1>2, Induction
  <2> QED
    BY <1>0, <2>1
<1>4. Is(upTo, n)
  BY <1>3
<1>5. Collect(s, st, p) = upTo[n]
  BY DEF Collect, Folded, n, base, Body
<1> HIDE DEF upTo
<1>6. /\ upTo[0] = base
      /\ \A i \in 1..n : upTo[i] = Body(upTo[i - 1], i)
  BY <1>0, <1>4
<1> QED
  BY <1>5, <1>6 DEF Packing, n, base, Body

\* What is read of a signal: what is left of its buffer, and messages of n.
Read(s, U, n) == [buffer : Buffers(U), messages : Seq(Singles(s, U, n))]

\* A packet goes into a buffer, and the packs there are come out of it.
LEMMA Collected ==
  ASSUME NEW U, NEW s, NEW st \in Read(s, U, PackSize), NEW p \in Packets(U)
  PROVE  /\ Collect(s, st, p) \in Read(s, U, PackSize)
         /\ Collect(s, st, p).buffer.dataSize < PackSize
<1> DEFINE full == Push(st.buffer, p)
           n == full.dataSize
           first == [buffer |-> full, messages |-> st.messages]
<1>0. PackSize \in Nat \ {0} /\ Len(p.ticks) \in Nat
  BY PacksAssumption DEF Packets
<1>1. st.buffer \in Buffers(U) /\ st.messages \in Seq(Singles(s, U, PackSize))
  BY DEF Read
<1>2. full \in Buffers(U) /\ n \in Nat
  BY <1>1, Pushed DEF Buffers
<1> HIDE DEF full
<1>3. PICK f : Packing(f, s, first, n) /\ Collect(s, st, p) = f[n]
  BY <1>2, CollectUnfolds DEF full
<1> DEFINE Right(x, i) == /\ x \in Read(s, U, PackSize)
                          /\ x.buffer.dataSize < PackSize
                             \/ x.buffer.dataSize <= n - i
           T == {i \in 0..n : Right(f[i], i)}
<1>4. 0 \in T
  <2>1. f[0] = first
    BY <1>3 DEF Packing
  <2>2. Right(first, 0)
    BY <1>1, <1>2 DEF Read
  <2> HIDE DEF first, Right
  <2> QED
    BY <1>2, <2>1, <2>2
<1>5. ASSUME NEW i \in 0..n - 1, i \in T PROVE i + 1 \in T
  <2> DEFINE x == f[i]
             y == OnePack(s, x)
  <2>1. i + 1 \in 1..n /\ i \in Nat /\ (i + 1) - 1 = i
    BY <1>2
  <2>2. Right(x, i)
    BY <1>5
  <2>3. f[i + 1] = y
    BY <2>1, <1>3 DEF Packing
  <2> HIDE DEF x
  <2>4. x.buffer \in Buffers(U) /\ x.messages \in Seq(Singles(s, U, PackSize))
    BY <2>2 DEF Read
  <2>5. x.buffer.dataSize \in Nat
    BY <2>4 DEF Buffers
  <2>6. /\ y.buffer \in Buffers(U) /\ y.messages \in Seq(Singles(s, U, PackSize))
        /\ IF x.buffer.dataSize < PackSize
           THEN y.buffer.dataSize = x.buffer.dataSize
           ELSE y.buffer.dataSize = x.buffer.dataSize - PackSize
    BY <2>4, OnePackTaken
  <2>7. y = [buffer |-> y.buffer, messages |-> y.messages]
    <3>1. x = [buffer |-> x.buffer, messages |-> x.messages]
      BY <2>2 DEF Read
    <3> QED
      BY <3>1 DEF OnePack
  <2> HIDE DEF y
  <2>8. y \in Read(s, U, PackSize)
    BY <2>6, <2>7 DEF Read
  <2>9. y.buffer.dataSize < PackSize \/ y.buffer.dataSize <= n - (i + 1)
    BY <1>0, <1>2, <2>1, <2>2, <2>5, <2>6
  <2>10. Right(y, i + 1)
    BY <2>8, <2>9
  <2> HIDE DEF Right
  <2> QED
    BY <2>1, <2>3, <2>10
<1> HIDE DEF T
<1>6. 0..n \subseteq T
  BY <1>2, <1>4, <1>5, Induction
<1>7. Right(f[n], n)
  <2> HIDE DEF Right
  <2> QED
    BY <1>2, <1>6 DEF T
<1>8. f[n].buffer.dataSize \in Nat
  BY <1>7 DEF Read, Buffers
<1> QED
  BY <1>0, <1>2, <1>3, <1>7, <1>8

\* A message for each sample of a packet; the buffer is not touched.
LEMMA CollectedEach ==
  ASSUME NEW U, NEW s, NEW st \in Read(s, U, 1), NEW p \in Packets(U)
  PROVE  /\ CollectEach(s, st, p) \in Read(s, U, 1)
         /\ CollectEach(s, st, p).buffer = st.buffer
<1> DEFINE message(i) ==
             OfOneSignal(s, <<Sample(s, p.ticks[i], p.type, p.type)>>)
           more == [i \in DOMAIN p.ticks |-> message(i)]
<1>1. p.ticks \in Seq(Nat) /\ p.type \in U
  BY DEF Packets
<1>2. ASSUME NEW i \in DOMAIN p.ticks PROVE message(i) \in Singles(s, U, 1)
  <2> DEFINE x == Sample(s, p.ticks[i], p.type, p.type)
  <2>1. x \in Samples({s}, U)
    BY <1>1 DEF Sample, Samples
  <2> HIDE DEF x
  <2>2. <<x>> \in Seq(Samples({s}, U)) /\ Len(<<x>>) = 1
    BY <2>1
  <2>3. message(i) = OfOneSignal(s, <<x>>)
    BY DEF x
  <2> QED
    BY <2>2, <2>3 DEF Singles
<1> HIDE DEF message
<1>3. more \in Seq(Singles(s, U, 1))
  BY <1>1, <1>2
<1>4. st = [buffer |-> st.buffer, messages |-> st.messages]
      /\ st.buffer \in Buffers(U) /\ st.messages \in Seq(Singles(s, U, 1))
  BY DEF Read
<1>5. CollectEach(s, st, p) = [st EXCEPT !.messages = st.messages \o more]
  BY DEF CollectEach, message
<1> HIDE DEF more
<1>6. st.messages \o more \in Seq(Singles(s, U, 1))
  BY <1>3, <1>4
<1>7. CollectEach(s, st, p) = [buffer |-> st.buffer,
                               messages |-> st.messages \o more]
  BY <1>4, <1>5
<1> QED
  BY <1>4, <1>6, <1>7 DEF Read

\* f is the function that CollectAll is defined by, and there is one.
Collecting(f, s, b, data, k) ==
  /\ f[0] = [buffer |-> b, messages |-> <<>>]
  /\ \A i \in 1..Len(data) :
       f[i] = IF k = "each" THEN CollectEach(s, f[i - 1], data[i])
                            ELSE Collect(s, f[i - 1], data[i])

\* The function that CollectAll is defined by exists.
LEMMA CollectAllUnfolds ==
  ASSUME NEW X, NEW data \in Seq(X), NEW s, NEW b, NEW k
  PROVE  \E f : Collecting(f, s, b, data, k) /\ CollectAll(s, b, data, k) = f[Len(data)]
<1> DEFINE n == Len(data)
           base == [buffer |-> b, messages |-> <<>>]
           Body(x, i) == IF k = "each" THEN CollectEach(s, x, data[i])
                         ELSE Collect(s, x, data[i])
           Is(f, m) == f = [i \in 0..m |-> IF i = 0 THEN base
                                           ELSE Body(f[i - 1], i)]
           T == {m \in Nat : \E f : Is(f, m)}
           upTo == CHOOSE f : Is(f, n)
<1>0. n \in Nat
  OBVIOUS
<1> HIDE DEF n, base, Body
<1>1. 0 \in T
  <2>1. Is([i \in 0..0 |-> base], 0)
    OBVIOUS
  <2> QED
    BY <2>1
<1>2. ASSUME NEW m \in Nat, m \in T PROVE m + 1 \in T
  <2>1. PICK f : Is(f, m)
    BY <1>2
  <2> DEFINE g == [i \in 0..m + 1 |-> IF i = m + 1 THEN Body(f[m], m + 1)
                                      ELSE f[i]]
  <2>2. ASSUME NEW i \in 0..m + 1
        PROVE  g[i] = IF i = 0 THEN base ELSE Body(g[i - 1], i)
    <3>1. CASE i = m + 1
      <4>1. g[i - 1] = f[m]
        BY <3>1
      <4> QED
        BY <3>1, <4>1
    <3>2. CASE i # m + 1
      <4>1. i \in 0..m /\ g[i] = f[i] /\ (i # 0 => g[i - 1] = f[i - 1])
        BY <3>2
      <4> QED
        BY <4>1, <2>1
    <3> QED
      BY <3>1, <3>2
  <2>3. Is(g, m + 1)
    BY <2>2
  <2> HIDE DEF g
  <2> QED
    BY <2>3
<1>3. n \in T
  <2> HIDE DEF T
  <2>1. 0..n \subseteq T
    BY <1>0, <1>1, <1>2, Induction
  <2> QED
    BY <1>0, <2>1
<1>4. Is(upTo, n)
  BY <1>3
<1>5. CollectAll(s, b, data, k) = upTo[n]
  BY DEF CollectAll, Folded, n, base, Body
<1> HIDE DEF upTo
<1>6. /\ upTo[0] = base
      /\ \A i \in 1..n : upTo[i] = Body(upTo[i - 1], i)
  BY <1>0, <1>4
<1> QED
  BY <1>5, <1>6 DEF Collecting, n, base, Body

\* Samples of a message of one signal.
SizeOf(k) == IF k = "each" THEN 1 ELSE PackSize

\* All packets are read, and less than a pack is left.
LEMMA CollectedAll ==
  ASSUME NEW U, NEW s, NEW b \in Buffers(U), b.dataSize < PackSize,
         NEW data \in Seq(Packets(U)), NEW k
  PROVE  /\ CollectAll(s, b, data, k) \in Read(s, U, SizeOf(k))
         /\ CollectAll(s, b, data, k).buffer.dataSize < PackSize
         /\ k = "each" => CollectAll(s, b, data, k).buffer = b
<1> DEFINE n == Len(data)
           first == [buffer |-> b, messages |-> <<>>]
<1>1. PICK f : Collecting(f, s, b, data, k) /\ CollectAll(s, b, data, k) = f[n]
  BY CollectAllUnfolds
<1> DEFINE Right(x) == /\ x \in Read(s, U, SizeOf(k))
                       /\ x.buffer.dataSize < PackSize
                       /\ k = "each" => x.buffer = b
           T == {i \in 0..n : Right(f[i])}
<1>2. 0 \in T
  <2>1. f[0] = first
    BY <1>1 DEF Collecting
  <2>2. Right(first)
    BY DEF Read
  <2> HIDE DEF first, Right
  <2> QED
    BY <2>1, <2>2
<1>3. ASSUME NEW i \in 0..n - 1, i \in T PROVE i + 1 \in T
  <2> DEFINE x == f[i]
  <2>1. i + 1 \in 1..n /\ (i + 1) - 1 = i /\ data[i + 1] \in Packets(U)
    OBVIOUS
  <2>2. Right(x)
    BY <1>3
  <2>3. f[i + 1] = IF k = "each" THEN CollectEach(s, x, data[i + 1])
                                 ELSE Collect(s, x, data[i + 1])
    BY <2>1, <1>1 DEF Collecting
  <2> HIDE DEF x
  <2>4. CASE k = "each"
    <3>1. x \in Read(s, U, 1)
      BY <2>2, <2>4 DEF SizeOf
    <3>2. /\ CollectEach(s, x, data[i + 1]) \in Read(s, U, 1)
          /\ CollectEach(s, x, data[i + 1]).buffer = x.buffer
      BY <2>1, <3>1, CollectedEach
    <3> QED
      BY <2>1, <2>2, <2>3, <2>4, <3>2 DEF SizeOf
  <2>5. CASE k # "each"
    <3>1. x \in Read(s, U, PackSize)
      BY <2>2, <2>5 DEF SizeOf
    <3>2. /\ Collect(s, x, data[i + 1]) \in Read(s, U, PackSize)
          /\ Collect(s, x, data[i + 1]).buffer.dataSize < PackSize
      BY <2>1, <3>1, Collected
    <3> QED
      BY <2>1, <2>3, <2>5, <3>2 DEF SizeOf
  <2> QED
    BY <2>4, <2>5
<1> HIDE DEF T
<1>4. 0..n \subseteq T
  BY <1>2, <1>3, Induction
<1>5. Right(f[n])
  <2> HIDE DEF Right
  <2> QED
    BY <1>4 DEF T
<1> QED
  BY <1>1, <1>5

-----------------------------------------------------------------------------
(* Queues, up to an event and from there on. *)

Entries == Packets(Types) \cup {Event}

\* What is no event is a packet of data, and the other way round.
LEMMA EventIsNone ==
  ASSUME NEW p \in Entries
  PROVE  IsEvent(p) <=> p \notin Packets(Types)
  BY PacksAssumption DEF Entries, Packets, Event, IsEvent

\* FirstEvent finds the first, if there is one.
LEMMA FirstIs ==
  ASSUME NEW X, NEW q \in Seq(X)
  PROVE  /\ FirstEvent(q) \in 0..Len(q)
         /\ FirstEvent(q) = 0 => \A i \in 1..Len(q) : ~IsEvent(q[i])
         /\ FirstEvent(q) # 0 => IsEvent(q[FirstEvent(q)])
         /\ FirstEvent(q) # 0 =>
              \A i \in 1..FirstEvent(q) - 1 : ~IsEvent(q[i])
<1> DEFINE I == {i \in 1..Len(q) : IsEvent(q[i])}
<1>1. FirstEvent(q) = IF I # {} THEN Min(I) ELSE 0
  BY DEF FirstEvent, SelectInSeq
<1>2. CASE I = {}
  BY <1>1, <1>2
<1>3. CASE I # {}
  <2>1. I \subseteq Nat
    OBVIOUS
  <2> HIDE DEF I
  <2>2. \E x \in I : \A y \in I : x <= y
    BY <1>3, <2>1, LeastElement
  <2>3. Min(I) \in I /\ \A y \in I : Min(I) <= y
    BY <2>2 DEF Min
  <2>4. FirstEvent(q) = Min(I)
    BY <1>1, <1>3
  <2> DEFINE m == Min(I)
  <2> HIDE DEF m
  <2>5. m \in I /\ m \in Nat /\ \A y \in I : m <= y
    BY <2>1, <2>3 DEF m
  <2>6. ASSUME NEW i \in 1..m - 1, IsEvent(q[i]) PROVE FALSE
    <3>1. i \in I
      BY <2>5, <2>6 DEF I
    <3> QED
      BY <2>5, <3>1
  <2>7. FirstEvent(q) = m
    BY <2>4 DEF m
  <2> QED
    BY <2>5, <2>6, <2>7 DEF I
<1> QED
  BY <1>2, <1>3

\* The parts of a queue.
LEMMA Parts ==
  ASSUME NEW q \in Seq(Entries)
  PROVE  /\ BeforeEvent(q) \in Seq(Packets(Types))
         /\ AfterEvent(q) \in Seq(Entries)
<1>1. /\ FirstEvent(q) \in 0..Len(q)
      /\ FirstEvent(q) = 0 => \A i \in 1..Len(q) : ~IsEvent(q[i])
      /\ FirstEvent(q) # 0 => \A i \in 1..FirstEvent(q) - 1 : ~IsEvent(q[i])
  BY FirstIs
<1>2. \A i \in 1..Len(q) : q[i] \in Entries
  OBVIOUS
<1>3. CASE FirstEvent(q) = 0
  <2>1. \A i \in 1..Len(q) : q[i] \in Packets(Types)
    BY <1>1, <1>2, <1>3, EventIsNone
  <2> QED
    BY <1>3, <2>1 DEF BeforeEvent, AfterEvent
<1>4. CASE FirstEvent(q) # 0
  <2> DEFINE m == FirstEvent(q)
  <2>1. m \in 1..Len(q)
    BY <1>1, <1>4
  <2>2. \A i \in 1..m - 1 : q[i] \in Packets(Types)
    BY <1>1, <1>2, <1>4, <2>1, EventIsNone
  <2> HIDE DEF m
  <2>3. SubSeq(q, 1, m - 1) \in Seq(Packets(Types))
    BY <2>1, <2>2
  <2>4. SubSeq(q, m + 1, Len(q)) \in Seq(Entries)
    BY <2>1, <1>2
  <2> QED
    BY <1>4, <2>3, <2>4 DEF BeforeEvent, AfterEvent, m
<1> QED
  BY <1>3, <1>4

-----------------------------------------------------------------------------
(* The builders of packs. *)

\* Whole packs, and less than a pack.
Packs(X) == {xs \in Seq(X) : Len(xs) = PackSize}
Builders(X) ==
  {b \in [values : Seq(Packs(X)), current : Seq(X)] : Len(b.current) < PackSize}

\* A builder of values and the one of the times have got equally far.
SameTicks(xs, ts) ==
  Len(xs) = Len(ts) /\ \A i \in 1..Len(ts) : xs[i].tick = ts[i]
InStep(b, t) ==
  /\ SameTicks(b.current, t.current)
  /\ Len(b.values) = Len(t.values)
  /\ \A i \in 1..Len(t.values) : SameTicks(b.values[i], t.values[i])

\* A builder is begun, or has grown by one.
LEMMA NoneBuilt ==
  ASSUME NEW X
  PROVE  NoBuilder \in Builders(X)
  BY PacksAssumption DEF NoBuilder, Builders

\* One sample more.
LEMMA OneAppended ==
  ASSUME NEW X, NEW b \in Builders(X), NEW x \in X
  PROVE  AppendOne(b, x) \in Builders(X)
<1> DEFINE c == Append(b.current, x)
<1>0. PackSize \in Nat \ {0}
  BY PacksAssumption
<1>1. /\ b = [values |-> b.values, current |-> b.current]
      /\ b.values \in Seq(Packs(X)) /\ b.current \in Seq(X)
      /\ Len(b.current) < PackSize
  BY DEF Builders
<1>2. c \in Seq(X) /\ Len(c) = Len(b.current) + 1
  BY <1>1
<1> HIDE DEF c
<1>3. CASE Len(c) = PackSize
  <2>1. AppendOne(b, x) = [values |-> Append(b.values, c), current |-> <<>>]
    BY <1>3 DEF AppendOne, c
  <2>2. c \in Packs(X)
    BY <1>2, <1>3 DEF Packs
  <2>3. Append(b.values, c) \in Seq(Packs(X))
    BY <1>1, <2>2
  <2>4. <<>> \in Seq(X) /\ Len(<<>>) < PackSize
    BY <1>0
  <2> QED
    BY <2>1, <2>3, <2>4 DEF Builders
<1>4. CASE Len(c) # PackSize
  <2>1. AppendOne(b, x) = [b EXCEPT !.current = c]
    BY <1>4 DEF AppendOne, c
  <2>2. AppendOne(b, x) = [values |-> b.values, current |-> c]
    BY <1>1, <2>1
  <2>3. Len(c) < PackSize
    BY <1>0, <1>1, <1>2, <1>4
  <2> QED
    BY <1>1, <1>2, <2>2, <2>3 DEF Builders
<1> QED
  BY <1>3, <1>4

\* Lists that go together grow by a sample and its time.
LEMMA TicksAppended ==
  ASSUME NEW X, NEW xs \in Seq(X), NEW ts \in Seq(Nat), SameTicks(xs, ts),
         NEW x \in X, NEW y \in Nat, x.tick = y
  PROVE  SameTicks(Append(xs, x), Append(ts, y))
<1>1. /\ Len(xs) = Len(ts)
      /\ Len(Append(xs, x)) = Len(xs) + 1 /\ Len(Append(ts, y)) = Len(ts) + 1
  BY DEF SameTicks
<1>2. ASSUME NEW i \in 1..Len(ts) + 1
      PROVE  Append(xs, x)[i].tick = Append(ts, y)[i]
  <2>1. CASE i = Len(ts) + 1
    BY <1>1, <2>1
  <2>2. CASE i # Len(ts) + 1
    <3>1. i \in 1..Len(ts) /\ Append(xs, x)[i] = xs[i] /\ Append(ts, y)[i] = ts[i]
      BY <1>1, <2>2
    <3> QED
      BY <3>1 DEF SameTicks
  <2> QED
    BY <2>1, <2>2
<1> QED
  BY <1>1, <1>2 DEF SameTicks

\* Builders that are in step stay so when both grow by one.
LEMMA OneInStep ==
  ASSUME NEW X, NEW b \in Builders(X), NEW t \in Builders(Nat), InStep(b, t),
         NEW x \in X, NEW y \in Nat, x.tick = y
  PROVE  InStep(AppendOne(b, x), AppendOne(t, y))
<1> DEFINE c == Append(b.current, x)
           d == Append(t.current, y)
<1>1. /\ b = [values |-> b.values, current |-> b.current]
      /\ b.values \in Seq(Packs(X)) /\ b.current \in Seq(X)
      /\ t = [values |-> t.values, current |-> t.current]
      /\ t.values \in Seq(Packs(Nat)) /\ t.current \in Seq(Nat)
  BY DEF Builders
<1>2. SameTicks(b.current, t.current)
  BY DEF InStep
<1>3. SameTicks(c, d) /\ Len(c) = Len(d)
  <2>1. SameTicks(c, d)
    BY <1>1, <1>2, TicksAppended
  <2> QED
    BY <2>1 DEF SameTicks
<1> HIDE DEF c, d
<1>4. CASE Len(c) = PackSize
  <2> DEFINE v == Append(b.values, c)
             w == Append(t.values, d)
  <2>1. /\ AppendOne(b, x) = [values |-> v, current |-> <<>>]
        /\ AppendOne(t, y) = [values |-> w, current |-> <<>>]
    BY <1>3, <1>4 DEF AppendOne, c, d
  <2>2. /\ Len(b.values) = Len(t.values)
        /\ Len(v) = Len(b.values) + 1 /\ Len(w) = Len(t.values) + 1
        /\ v[Len(b.values) + 1] = c /\ w[Len(t.values) + 1] = d
        /\ \A i \in 1..Len(b.values) : v[i] = b.values[i]
        /\ \A i \in 1..Len(t.values) : w[i] = t.values[i]
    BY <1>1 DEF InStep
  <2> HIDE DEF v, w
  <2>3. ASSUME NEW i \in 1..Len(w) PROVE SameTicks(v[i], w[i])
    <3>1. CASE i = Len(t.values) + 1
      BY <3>1, <2>2, <1>3
    <3>2. CASE i # Len(t.values) + 1
      <4>1. i \in 1..Len(t.values)
        BY <3>2, <2>2, <1>1
      <4> QED
        BY <4>1, <2>2 DEF InStep
    <3> QED
      BY <3>1, <3>2
  <2>4. SameTicks(<<>>, <<>>)
    BY DEF SameTicks
  <2>5. Len(v) = Len(w)
    BY <2>2
  <2> QED
    BY <2>1, <2>3, <2>4, <2>5 DEF InStep
<1>5. CASE Len(c) # PackSize
  <2>1. /\ AppendOne(b, x) = [b EXCEPT !.current = c]
        /\ AppendOne(t, y) = [t EXCEPT !.current = d]
    BY <1>3, <1>5 DEF AppendOne, c, d
  <2>2. /\ AppendOne(b, x) = [values |-> b.values, current |-> c]
        /\ AppendOne(t, y) = [values |-> t.values, current |-> d]
    BY <1>1, <2>1
  <2> QED
    BY <2>2, <1>3 DEF InStep
<1> QED
  BY <1>4, <1>5

\* f is the function that AppendAll is defined by, and there is one.
Building(f, b, xs) ==
  f[0] = b /\ \A i \in 1..Len(xs) : f[i] = AppendOne(f[i - 1], xs[i])

\* The function that AppendAll is defined by exists.
LEMMA AppendAllUnfolds ==
  ASSUME NEW X, NEW xs \in Seq(X), NEW b
  PROVE  \E f : Building(f, b, xs) /\ AppendAll(b, xs) = f[Len(xs)]
<1> DEFINE n == Len(xs)
           base == b
           Body(x, i) == AppendOne(x, xs[i])
           Is(f, m) == f = [i \in 0..m |-> IF i = 0 THEN base
                                           ELSE Body(f[i - 1], i)]
           T == {m \in Nat : \E f : Is(f, m)}
           upTo == CHOOSE f : Is(f, n)
<1>0. n \in Nat
  OBVIOUS
<1> HIDE DEF n, base, Body
<1>1. 0 \in T
  <2>1. Is([i \in 0..0 |-> base], 0)
    OBVIOUS
  <2> QED
    BY <2>1
<1>2. ASSUME NEW m \in Nat, m \in T PROVE m + 1 \in T
  <2>1. PICK f : Is(f, m)
    BY <1>2
  <2> DEFINE g == [i \in 0..m + 1 |-> IF i = m + 1 THEN Body(f[m], m + 1)
                                      ELSE f[i]]
  <2>2. ASSUME NEW i \in 0..m + 1
        PROVE  g[i] = IF i = 0 THEN base ELSE Body(g[i - 1], i)
    <3>1. CASE i = m + 1
      <4>1. g[i - 1] = f[m]
        BY <3>1
      <4> QED
        BY <3>1, <4>1
    <3>2. CASE i # m + 1
      <4>1. i \in 0..m /\ g[i] = f[i] /\ (i # 0 => g[i - 1] = f[i - 1])
        BY <3>2
      <4> QED
        BY <4>1, <2>1
    <3> QED
      BY <3>1, <3>2
  <2>3. Is(g, m + 1)
    BY <2>2
  <2> HIDE DEF g
  <2> QED
    BY <2>3
<1>3. n \in T
  <2> HIDE DEF T
  <2>1. 0..n \subseteq T
    BY <1>0, <1>1, <1>2, Induction
  <2> QED
    BY <1>0, <2>1
<1>4. Is(upTo, n)
  BY <1>3
<1>5. AppendAll(b, xs) = upTo[n]
  BY DEF AppendAll, Folded, n, base, Body
<1> HIDE DEF upTo
<1>6. /\ upTo[0] = base
      /\ \A i \in 1..n : upTo[i] = Body(upTo[i - 1], i)
  BY <1>0, <1>4
<1> QED
  BY <1>5, <1>6 DEF Building, n, base, Body

\* A builder grows by many.
LEMMA AllAppended ==
  ASSUME NEW X, NEW b \in Builders(X), NEW xs \in Seq(X)
  PROVE  AppendAll(b, xs) \in Builders(X)
<1> DEFINE n == Len(xs)
<1>1. PICK f : Building(f, b, xs) /\ AppendAll(b, xs) = f[n]
  BY AppendAllUnfolds
<1> DEFINE T == {i \in 0..n : f[i] \in Builders(X)}
<1>2. 0 \in T
  BY <1>1 DEF Building
<1>3. ASSUME NEW i \in 0..n - 1, i \in T PROVE i + 1 \in T
  <2>1. i + 1 \in 1..n /\ (i + 1) - 1 = i /\ xs[i + 1] \in X
    OBVIOUS
  <2>2. f[i + 1] = AppendOne(f[i], xs[i + 1])
    BY <2>1, <1>1 DEF Building
  <2>3. AppendOne(f[i], xs[i + 1]) \in Builders(X)
    BY <1>3, <2>1, OneAppended
  <2> QED
    BY <2>1, <2>2, <2>3
<1> HIDE DEF T
<1>4. 0..n \subseteq T
  BY <1>2, <1>3, Induction
<1> QED
  BY <1>1, <1>4 DEF T

\* Builders that are in step stay so when both grow by the same rows.
LEMMA AllInStep ==
  ASSUME NEW X, NEW b \in Builders(X), NEW t \in Builders(Nat), InStep(b, t),
         NEW xs \in Seq(X), NEW ts \in Seq(Nat), SameTicks(xs, ts)
  PROVE  InStep(AppendAll(b, xs), AppendAll(t, ts))
<1> DEFINE n == Len(xs)
<1>1. PICK f : Building(f, b, xs) /\ AppendAll(b, xs) = f[n]
  BY AppendAllUnfolds
<1>2. PICK g : Building(g, t, ts) /\ AppendAll(t, ts) = g[Len(ts)]
  BY AppendAllUnfolds
<1> DEFINE T == {i \in 0..n : /\ f[i] \in Builders(X) /\ g[i] \in Builders(Nat)
                              /\ InStep(f[i], g[i])}
<1>3. n = Len(ts) /\ n \in Nat
  BY DEF SameTicks
<1>4. 0 \in T
  BY <1>1, <1>2 DEF Building
<1>5. ASSUME NEW i \in 0..n - 1, i \in T PROVE i + 1 \in T
  <2>1. i + 1 \in 1..n /\ (i + 1) - 1 = i
    OBVIOUS
  <2>2. xs[i + 1] \in X /\ ts[i + 1] \in Nat /\ xs[i + 1].tick = ts[i + 1]
    BY <1>3, <2>1 DEF SameTicks
  <2>3. f[i + 1] = AppendOne(f[i], xs[i + 1])
    BY <2>1, <1>1 DEF Building
  <2>4. g[i + 1] = AppendOne(g[i], ts[i + 1])
    BY <2>1, <1>2, <1>3 DEF Building
  <2>5. /\ f[i] \in Builders(X) /\ g[i] \in Builders(Nat) /\ InStep(f[i], g[i])
    BY <1>5
  <2>6. /\ AppendOne(f[i], xs[i + 1]) \in Builders(X)
        /\ AppendOne(g[i], ts[i + 1]) \in Builders(Nat)
    BY <2>2, <2>5, OneAppended
  <2>7. InStep(AppendOne(f[i], xs[i + 1]), AppendOne(g[i], ts[i + 1]))
    BY <2>2, <2>5, OneInStep
  <2> QED
    BY <2>1, <2>3, <2>4, <2>6, <2>7
<1> HIDE DEF T
<1>6. 0..n \subseteq T
  BY <1>3, <1>4, <1>5, Induction
<1> QED
  BY <1>1, <1>2, <1>3, <1>6 DEF T

\* Packs are taken out of a builder; of its times all are.
LEMMA PacksTaken ==
  ASSUME NEW X, NEW b \in Builders(X), NEW n \in Nat
  PROVE  /\ Without(b, n) \in Builders(X)
         /\ Without(b, n).current = b.current
         /\ n = Len(b.values) => Without(b, n).values = <<>>
<1> DEFINE rest == SubSeq(b.values, n + 1, Len(b.values))
<1>1. /\ b = [values |-> b.values, current |-> b.current]
      /\ b.values \in Seq(Packs(X)) /\ b.current \in Seq(X)
      /\ Len(b.current) < PackSize
  BY DEF Builders
<1>2. rest \in Seq(Packs(X)) /\ (n = Len(b.values) => rest = <<>>)
  BY <1>1
<1>3. Without(b, n) = [b EXCEPT !.values = rest]
  BY DEF Without
<1> HIDE DEF rest
<1>4. Without(b, n) = [values |-> rest, current |-> b.current]
  BY <1>1, <1>3
<1> QED
  BY <1>1, <1>2, <1>4 DEF Builders

\* A pack is a pack, or nothing when the values are behind the times.
LEMMA PackGot ==
  ASSUME NEW X, NEW b \in Builders(X), NEW i \in Nat \ {0}
  PROVE  /\ getPack(b, i) \in Seq(X)
         /\ i <= Len(b.values) => getPack(b, i) = b.values[i]
<1>1. b.values \in Seq(Packs(X))
  BY DEF Builders
<1>2. CASE i <= Len(b.values)
  <2>1. b.values[i] \in Packs(X)
    BY <1>1, <1>2
  <2> QED
    BY <1>2, <2>1 DEF getPack, Packs
<1>3. CASE ~ (i <= Len(b.values))
  BY <1>3 DEF getPack
<1> QED
  BY <1>2, <1>3

-----------------------------------------------------------------------------
(* The handler and the block. *)

Handlers == [reader : Seq(Signals), firstDescriptorChange : BOOLEAN,
             signalBuffers : [Signals -> Buffers(Types)],
             dataBuilders : Seq(Builders(Samples(Signals, Types))),
             tsBuilder : Builders(Nat), skewed : BOOLEAN, replaced : BOOLEAN]
Blocks == [error : BOOLEAN, ports : Seq(Signals), handler : Handlers,
           queue : [Signals -> Seq(Entries)]]

\* createReader gives the handler a new reader and touches nothing of it else.
LEMMA CreatedReader ==
  ASSUME NEW st \in Blocks
  PROVE  LET h == createReader(st).handler
         IN  /\ createReader(st) \in Blocks
             /\ createReader(st).error = st.error
             /\ createReader(st).ports = st.ports
             /\ h.reader = st.ports
             /\ h.signalBuffers = st.handler.signalBuffers
             /\ h.dataBuilders = st.handler.dataBuilders
             /\ h.tsBuilder = st.handler.tsBuilder
             /\ h.skewed = st.handler.skewed
             /\ h.replaced = st.handler.replaced
<1> DEFINE h == [st.handler EXCEPT !.reader = st.ports,
                                   !.firstDescriptorChange = TRUE]
           q == [s \in Signals |-> IF s \in Range(st.ports)
                                   THEN <<Event>> \o st.queue[s] ELSE st.queue[s]]
<1>1. q \in [Signals -> Seq(Entries)]
  <2>1. ASSUME NEW s \in Signals PROVE q[s] \in Seq(Entries)
    <3>1. Event \in Entries /\ st.queue[s] \in Seq(Entries)
      BY DEF Entries, Blocks
    <3> HIDE DEF Entries
    <3>2. <<Event>> \in Seq(Entries)
      BY <3>1
    <3>3. <<Event>> \o st.queue[s] \in Seq(Entries)
      BY <3>1, <3>2
    <3> QED
      BY <3>1, <3>3
  <2> QED
    BY <2>1
<1>2. st.handler \in Handlers /\ st.ports \in Seq(Signals)
  BY DEF Blocks
<1>3. h \in Handlers
  BY <1>2 DEF Handlers
<1>4. /\ h.reader = st.ports
      /\ h.signalBuffers = st.handler.signalBuffers
      /\ h.dataBuilders = st.handler.dataBuilders
      /\ h.tsBuilder = st.handler.tsBuilder
      /\ h.skewed = st.handler.skewed
      /\ h.replaced = st.handler.replaced
  BY <1>2 DEF Handlers
<1>5. createReader(st) = [st EXCEPT !.handler = h, !.queue = q]
  BY DEF createReader
<1> HIDE DEF h, q
<1>6. createReader(st) \in Blocks
  BY <1>1, <1>3, <1>5 DEF Blocks
<1>7. createReader(st).handler = h /\ createReader(st).error = st.error
      /\ createReader(st).ports = st.ports
  BY <1>5 DEF Blocks
<1> QED
  BY <1>4, <1>6, <1>7

-----------------------------------------------------------------------------
(* What holds of the handler. *)

\* Less than a pack waits in a buffer, and no whole one in the times.
Less(h) ==
  /\ \A s \in Signals : h.signalBuffers[s].dataSize < PackSize
  /\ h.tsBuilder.values = <<>>

\* Values and times go together, unless values were left out.
Together(h) ==
  ~h.skewed => \A n \in 1..Len(h.dataBuilders) :
                 InStep(h.dataBuilders[n], h.tsBuilder)

\* A builder has samples of the signal the reader has there, unless the ports
\* changed unannounced.
Owned(h) ==
  ~h.replaced => \A n \in 1..Len(h.dataBuilders) :
                   h.dataBuilders[n] \in Builders(Samples({h.reader[n]}, Types))

\* A handler has what its kind uses.
Own(h, k) ==
  /\ Len(h.dataBuilders) = IF k = "groupArray" THEN Len(h.reader) ELSE 0
  /\ k \in {"each", "array"} => h.reader = <<>>
  /\ k # "array" => \A s \in Signals : h.signalBuffers[s] = NoBuffer

Good(h, k) == Less(h) /\ Together(h) /\ Owned(h) /\ Own(h, k)

\* Nothing is begun in the builders.
NothingBegun(h) == \A n \in 1..Len(h.dataBuilders) : h.dataBuilders[n] = NoBuilder

\* What is begun is of the present ports, or it is remembered that it is not.
Noticed(st) ==
  \/ st.handler.replaced \/ st.handler.reader = st.ports
  \/ NothingBegun(st.handler)

\* Without an error, the reader is that of the ports.
Reads(st, k) ==
  k \in {"group", "groupArray"} /\ ~st.error /\ st.ports # <<>>
    => st.handler.reader = st.ports

Sound(st, k) ==
  st \in Blocks /\ Good(st.handler, k) /\ Noticed(st) /\ Reads(st, k)

\* What validateInputPorts may find: ports may have come and gone.
Ready(st, k) ==
  /\ st \in Blocks /\ Good(st.handler, k)
  /\ Noticed(st) \/ Len(st.ports) # Len(st.handler.dataBuilders)

\* Clean builders are in step, and belong to any signal.
LEMMA BuildersMade ==
  ASSUME NEW h \in Handlers, NEW n \in Nat, Len(h.dataBuilders) # n
  PROVE  LET i == initBuilders(h, n)
         IN  /\ i \in Handlers /\ i.reader = h.reader
             /\ i.signalBuffers = h.signalBuffers
             /\ Len(i.dataBuilders) = n
             /\ NothingBegun(i) /\ i.tsBuilder = NoBuilder
<1> DEFINE d == [i \in 1..n |-> NoBuilder]
           j == [h EXCEPT !.dataBuilders = d, !.tsBuilder = NoBuilder,
                          !.skewed = FALSE, !.replaced = FALSE]
<1>1. initBuilders(h, n) = j
  BY DEF initBuilders
<1>2. /\ NoBuilder \in Builders(Samples(Signals, Types))
      /\ NoBuilder \in Builders(Nat)
  BY NoneBuilt
<1>3. /\ d \in Seq(Builders(Samples(Signals, Types)))
      /\ Len(d) = n /\ \A i \in 1..n : d[i] = NoBuilder
  BY <1>2
<1> HIDE DEF d
<1>4. j \in Handlers
  BY <1>2, <1>3 DEF Handlers
<1>5. j.reader = h.reader /\ j.signalBuffers = h.signalBuffers
  BY DEF Handlers
<1>6. j.dataBuilders = d /\ j.tsBuilder = NoBuilder
  BY DEF Handlers
<1> QED
  BY <1>1, <1>3, <1>4, <1>5, <1>6 DEF NothingBegun

\* What is not begun may belong to any signal; and times that are not begun are
\* in step with it.
LEMMA Clean ==
  ASSUME NEW h \in Handlers, NothingBegun(h)
  PROVE  Owned(h) /\ (h.tsBuilder = NoBuilder => Together(h))
<1>1. \A n \in 1..Len(h.dataBuilders) :
        NoBuilder \in Builders(Samples({h.reader[n]}, Types))
  BY NoneBuilt
<1>2. InStep(NoBuilder, NoBuilder)
  BY DEF InStep, NoBuilder, SameTicks
<1> QED
  BY <1>1, <1>2 DEF Owned, Together, NothingBegun

\* The handler is told that the list of signals has changed.
LEMMA ListChanged ==
  ASSUME NEW k, NEW st, Ready(st, k),
         k \in {"each", "array", "group", "groupArray"}
  PROVE  LET new == signalListChanged(st, k)
         IN  /\ new \in Blocks /\ Good(new.handler, k) /\ Noticed(new)
             /\ new.error = st.error /\ new.ports = st.ports
             /\ k \in {"group", "groupArray"} => new.handler.reader = st.ports
<1> DEFINE new == signalListChanged(st, k)
           made == createReader(st)
<1>0. /\ st \in Blocks /\ st.handler \in Handlers /\ st.ports \in Seq(Signals)
      /\ Good(st.handler, k)
  BY DEF Ready, Blocks
<1>1. CASE k = "each"
  <2>1. new = st
    BY <1>1 DEF signalListChanged
  <2>2. Len(st.handler.dataBuilders) = 0
    BY <1>0, <1>1 DEF Good, Own
  <2>3. NothingBegun(st.handler)
    BY <2>2 DEF NothingBegun
  <2> QED
    BY <2>1, <2>3, <1>0, <1>1 DEF Noticed
<1>2. CASE k = "array"
  <2> DEFINE none == [s \in Signals |-> NoBuffer]
             h == [st.handler EXCEPT !.signalBuffers = none]
  <2>1. new = [st EXCEPT !.handler = h]
    BY <1>2 DEF signalListChanged
  <2>2. none \in [Signals -> Buffers(Types)]
    <3>1. NoBuffer \in Buffers(Types)
      BY TotalOfNone DEF NoBuffer, Buffers, Fits
    <3> QED
      BY <3>1
  <2>3. \A s \in Signals : none[s].dataSize < PackSize
    BY PacksAssumption DEF NoBuffer
  <2>4. /\ h.signalBuffers = none /\ h.dataBuilders = st.handler.dataBuilders
        /\ h.tsBuilder = st.handler.tsBuilder /\ h.reader = st.handler.reader
        /\ h.skewed = st.handler.skewed /\ h.replaced = st.handler.replaced
    BY <1>0 DEF Handlers
  <2> HIDE DEF none
  <2>5. h \in Handlers
    BY <1>0, <2>2 DEF Handlers
  <2> HIDE DEF h
  <2>6. new \in Blocks /\ new.handler = h /\ new.error = st.error
        /\ new.ports = st.ports
    BY <1>0, <2>1, <2>5 DEF Blocks
  <2>7. Less(h) /\ Together(h) /\ Owned(h)
    BY <1>0, <2>3, <2>4 DEF Good, Less, Together, Owned
  <2>8. Own(h, k) /\ Len(h.dataBuilders) = 0
    BY <1>0, <1>2, <2>4 DEF Good, Own
  <2>9. NothingBegun(h)
    BY <2>8 DEF NothingBegun
  <2> QED
    BY <1>2, <2>6, <2>7, <2>8, <2>9 DEF Good, Noticed
<1> DEFINE h == made.handler
<1>3. /\ made \in Blocks /\ made.error = st.error /\ made.ports = st.ports
      /\ h.reader = st.ports /\ h.signalBuffers = st.handler.signalBuffers
      /\ h.dataBuilders = st.handler.dataBuilders
      /\ h.tsBuilder = st.handler.tsBuilder
      /\ h.skewed = st.handler.skewed /\ h.replaced = st.handler.replaced
  BY <1>0, CreatedReader
<1> HIDE DEF made
<1>4. h \in Handlers /\ Less(h) /\ Together(h)
  BY <1>0, <1>3 DEF Blocks, Good, Less, Together
<1>5. CASE k = "group"
  <2>1. new = made
    BY <1>5 DEF signalListChanged, made
  <2>2. Own(h, k) /\ Len(h.dataBuilders) = 0
    BY <1>0, <1>3, <1>5 DEF Good, Own
  <2>3. NothingBegun(h)
    BY <2>2 DEF NothingBegun
  <2>4. Owned(h)
    BY <1>4, <2>3, Clean
  <2> QED
    BY <2>1, <2>2, <2>3, <2>4, <1>3, <1>4 DEF Good, Noticed
<1>6. CASE k = "groupArray"
  <2> DEFINE n == Len(st.ports)
             i == initBuilders(h, n)
  <2>1. new = [made EXCEPT !.handler = i]
    BY <1>3, <1>6 DEF signalListChanged, made
  <2>2. /\ i \in Handlers /\ i.reader = st.ports /\ Less(i) /\ Together(i)
        /\ Owned(i) /\ Own(i, k)
    <3>0. n \in Nat
      BY <1>0
    <3>1. CASE Len(h.dataBuilders) = n
      <4>1. i = h
        BY <3>1 DEF initBuilders
      <4>2. Own(h, k)
        BY <1>0, <1>3, <1>6, <3>1 DEF Good, Own
      <4>3. Owned(h)
        <5>1. CASE NothingBegun(h)
          BY <1>4, <5>1, Clean
        <5>2. CASE ~ NothingBegun(h)
          <6>1. st.handler.replaced \/ st.handler.reader = st.ports
            BY <1>3, <3>1, <5>2 DEF Ready, Noticed, NothingBegun
          <6> QED
            BY <6>1, <1>0, <1>3 DEF Good, Owned
        <5> QED
          BY <5>1, <5>2
      <4> QED
        BY <4>1, <4>2, <4>3, <1>3, <1>4
    <3>2. CASE Len(h.dataBuilders) # n
      <4>1. /\ i \in Handlers /\ i.reader = h.reader
            /\ i.signalBuffers = h.signalBuffers /\ Len(i.dataBuilders) = n
            /\ NothingBegun(i) /\ i.tsBuilder = NoBuilder
        BY <1>4, <3>0, <3>2, BuildersMade
      <4> HIDE DEF i, n, h
      <4>2. Together(i) /\ Owned(i)
        BY <4>1, Clean
      <4>3. Less(i)
        BY <1>4, <4>1 DEF Less, NoBuilder
      <4>4. Own(i, k)
        BY <1>0, <1>3, <1>6, <4>1 DEF Good, Own, n, h
      <4> QED
        BY <4>1, <4>2, <4>3, <4>4, <1>3
    <3> QED
      BY <3>1, <3>2
  <2> HIDE DEF i
  <2>3. new \in Blocks /\ new.handler = i /\ new.error = st.error
        /\ new.ports = st.ports
    BY <1>3, <2>1, <2>2 DEF Blocks
  <2> QED
    BY <2>2, <2>3 DEF Good, Noticed
<1> QED
  BY <1>1, <1>2, <1>5, <1>6

\* validateInputPorts leaves what it found sound, whatever it decides.
LEMMA Validated ==
  ASSUME NEW k, NEW st, Ready(st, k),
         k \in {"each", "array", "group", "groupArray"}
  PROVE  /\ Sound(validateInputPorts(st, k), k)
         /\ validateInputPorts(st, k).ports = st.ports
<1> DEFINE new == validateInputPorts(st, k)
           ok == \A s \in Range(st.ports) : live[s] \in Supported
           told == st.ports # <<>> /\ ok
           changed == st.ports # st.handler.reader
           waiting == \E b \in Range(st.handler.dataBuilders) : b # NoBuilder
           cleared == [st EXCEPT !.error = FALSE]
           refused == [st EXCEPT !.error = ~ok,
                         !.handler.replaced = @ \/ (changed /\ waiting)]
<1>0. /\ st \in Blocks /\ st.handler \in Handlers /\ st.ports \in Seq(Signals)
      /\ Good(st.handler, k)
  BY DEF Ready, Blocks
<1>1. new = IF told THEN signalListChanged(cleared, k) ELSE refused
  BY DEF validateInputPorts
<1>2. CASE told
  <2>1. /\ cleared \in Blocks /\ cleared.error = FALSE
        /\ cleared.ports = st.ports /\ cleared.handler = st.handler
    BY <1>0 DEF Blocks
  <2> HIDE DEF cleared
  <2>2. Ready(cleared, k)
    BY <2>1 DEF Ready, Noticed
  <2>3. /\ new \in Blocks /\ Good(new.handler, k) /\ Noticed(new)
        /\ new.ports = st.ports
        /\ k \in {"group", "groupArray"} => new.handler.reader = st.ports
    BY <1>1, <1>2, <2>1, <2>2, ListChanged
  <2> QED
    BY <2>3 DEF Sound, Reads
<1>3. CASE ~told
  <2> DEFINE r == st.handler.replaced \/ (changed /\ waiting)
             h == [st.handler EXCEPT !.replaced = r]
  <2>1. refused = [st EXCEPT !.error = ~ok, !.handler = h]
    OBVIOUS
  <2>2. ok \in BOOLEAN /\ r \in BOOLEAN
    BY <1>0 DEF Handlers
  <2>3. NothingBegun(st.handler) <=> ~waiting
    <3>1. st.handler.dataBuilders \in Seq(Builders(Samples(Signals, Types)))
      BY <1>0 DEF Handlers
    <3> DEFINE d == st.handler.dataBuilders
    <3>2. DOMAIN d = 1..Len(d)
      BY <3>1
    <3> HIDE DEF d
    <3>3. Range(d) = {d[n] : n \in 1..Len(d)}
      BY <3>2 DEF Range
    <3> USE DEF d
    <3>4. waiting <=> \E n \in 1..Len(d) : d[n] # NoBuilder
      BY <3>3
    <3> QED
      BY <3>4 DEF NothingBegun
  <2> HIDE DEF ok, changed, waiting
  <2>4. /\ h.replaced = r
        /\ h.signalBuffers = st.handler.signalBuffers
        /\ h.dataBuilders = st.handler.dataBuilders
        /\ h.tsBuilder = st.handler.tsBuilder /\ h.reader = st.handler.reader
        /\ h.skewed = st.handler.skewed
    BY <1>0 DEF Handlers
  <2>5. h \in Handlers
    BY <1>0, <2>2 DEF Handlers
  <2> HIDE DEF h
  <2>6. /\ refused \in Blocks /\ refused.error = ~ok
        /\ refused.ports = st.ports /\ refused.handler = h
    BY <1>0, <2>1, <2>2, <2>5 DEF Blocks
  <2>7. Good(h, k)
    BY <1>0, <2>4 DEF Good, Less, Together, Owned, Own
  <2>8. NothingBegun(h) <=> NothingBegun(st.handler)
    BY <2>4 DEF NothingBegun
  <2>9. Noticed(refused)
    BY <2>3, <2>4, <2>6, <2>8 DEF Noticed, changed
  <2>10. Reads(refused, k)
    BY <1>3, <2>6 DEF Reads
  <2> HIDE DEF refused
  <2> QED
    BY <1>1, <1>3, <2>6, <2>7, <2>9, <2>10 DEF Sound
<1> QED
  BY <1>2, <1>3

-----------------------------------------------------------------------------
(* The handlers of one signal each. *)

\* f is the function that Joined is defined by.
Joining(f, lists) ==
  f[0] = <<>> /\ \A i \in 1..Len(lists) : f[i] = f[i - 1] \o lists[i]

\* The function that Joined is defined by exists.
LEMMA JoinedUnfolds ==
  ASSUME NEW X, NEW lists \in Seq(X)
  PROVE  \E f : Joining(f, lists) /\ Joined(lists) = f[Len(lists)]
<1> DEFINE n == Len(lists)
           base == <<>>
           Body(x, i) == x \o lists[i]
           Is(f, m) == f = [i \in 0..m |-> IF i = 0 THEN base
                                           ELSE Body(f[i - 1], i)]
           T == {m \in Nat : \E f : Is(f, m)}
           upTo == CHOOSE f : Is(f, n)
<1>0. n \in Nat
  OBVIOUS
<1> HIDE DEF n, base, Body
<1>1. 0 \in T
  <2>1. Is([i \in 0..0 |-> base], 0)
    OBVIOUS
  <2> QED
    BY <2>1
<1>2. ASSUME NEW m \in Nat, m \in T PROVE m + 1 \in T
  <2>1. PICK f : Is(f, m)
    BY <1>2
  <2> DEFINE g == [i \in 0..m + 1 |-> IF i = m + 1 THEN Body(f[m], m + 1)
                                      ELSE f[i]]
  <2>2. ASSUME NEW i \in 0..m + 1
        PROVE  g[i] = IF i = 0 THEN base ELSE Body(g[i - 1], i)
    <3>1. CASE i = m + 1
      <4>1. g[i - 1] = f[m]
        BY <3>1
      <4> QED
        BY <3>1, <4>1
    <3>2. CASE i # m + 1
      <4>1. i \in 0..m /\ g[i] = f[i] /\ (i # 0 => g[i - 1] = f[i - 1])
        BY <3>2
      <4> QED
        BY <4>1, <2>1
    <3> QED
      BY <3>1, <3>2
  <2>3. Is(g, m + 1)
    BY <2>2
  <2> HIDE DEF g
  <2> QED
    BY <2>3
<1>3. n \in T
  <2> HIDE DEF T
  <2>1. 0..n \subseteq T
    BY <1>0, <1>1, <1>2, Induction
  <2> QED
    BY <1>0, <2>1
<1>4. Is(upTo, n)
  BY <1>3
<1>5. Joined(lists) = upTo[n]
  BY DEF Joined, Folded, n, base, Body
<1> HIDE DEF upTo
<1>6. /\ upTo[0] = base
      /\ \A i \in 1..n : upTo[i] = Body(upTo[i - 1], i)
  BY <1>0, <1>4
<1> QED
  BY <1>5, <1>6 DEF Joining, n, base, Body

\* Lists of lists of X are joined to a list of X.
LEMMA JoinedIs ==
  ASSUME NEW X, NEW lists \in Seq(Seq(X))
  PROVE  Joined(lists) \in Seq(X)
<1> DEFINE n == Len(lists)
<1>1. PICK f : Joining(f, lists) /\ Joined(lists) = f[n]
  BY JoinedUnfolds
<1> DEFINE T == {i \in 0..n : f[i] \in Seq(X)}
<1>2. 0 \in T
  <2>1. f[0] = <<>> /\ <<>> \in Seq(X)
    BY <1>1 DEF Joining
  <2>2. 0 \in 0..n
    OBVIOUS
  <2> QED
    BY <2>1, <2>2
<1>3. ASSUME NEW i \in 0..n - 1, i \in T PROVE i + 1 \in T
  <2>1. i + 1 \in 1..n /\ (i + 1) - 1 = i /\ lists[i + 1] \in Seq(X)
    OBVIOUS
  <2>2. f[i + 1] = f[i] \o lists[i + 1]
    BY <2>1, <1>1 DEF Joining
  <2>3. f[i] \in Seq(X)
    BY <1>3
  <2>4. f[i] \o lists[i + 1] \in Seq(X)
    BY <2>1, <2>3
  <2>5. f[i + 1] \in Seq(X) /\ i + 1 \in 0..n
    BY <2>1, <2>2, <2>4
  <2> QED
    BY <2>5
<1>0. n \in Nat
  OBVIOUS
<1> HIDE DEF T, n
<1>4. 0..n \subseteq T
  BY <1>0, <1>2, <1>3, Induction
<1> QED
  BY <1>0, <1>1, <1>4 DEF T

\* A turn for one signal: its packets are read, an event empties its buffer.
LEMMA ContextProcessed ==
  ASSUME NEW U, NEW s, NEW b \in Buffers(U), b.dataSize < PackSize,
         NEW q, BeforeEvent(q) \in Seq(Packets(U)), NEW k
  PROVE  LET got == processSignalContext(s, b, q, k)
         IN  /\ got \in Read(s, U, SizeOf(k))
             /\ got.buffer.dataSize < PackSize
             /\ k = "each" /\ b = NoBuffer => got.buffer = NoBuffer
             /\ FirstEvent(q) # 0 => got.buffer = NoBuffer
<1> DEFINE read == CollectAll(s, b, BeforeEvent(q), k)
           got == processSignalContext(s, b, q, k)
<1>1. /\ read \in Read(s, U, SizeOf(k)) /\ read.buffer.dataSize < PackSize
      /\ k = "each" => read.buffer = b
  BY CollectedAll
<1>2. got = IF FirstEvent(q) = 0 THEN read
            ELSE [read EXCEPT !.buffer = NoBuffer]
  BY DEF processSignalContext, processSignalDescriptorChanged
<1>3. NoBuffer \in Buffers(U) /\ NoBuffer.dataSize < PackSize
  BY PacksAssumption, TotalOfNone DEF NoBuffer, Buffers, Fits
<1> HIDE DEF read
<1>4. [read EXCEPT !.buffer = NoBuffer] =
        [buffer |-> NoBuffer, messages |-> read.messages]
  BY <1>1 DEF Read
<1>5. [buffer |-> NoBuffer, messages |-> read.messages] \in Read(s, U, SizeOf(k))
  BY <1>1, <1>3 DEF Read
<1> QED
  BY <1>1, <1>2, <1>3, <1>4, <1>5

\* The messages of one signal, of one type each.
Alone(n) == UNION {UNION {Singles(s, {t}, n) : t \in Types} : s \in Signals}

\* The packets a signal has before the first event are of one type, with those
\* in its buffer.
OneType(b, q) ==
  \E t \in Types : b \in Buffers({t}) /\ BeforeEvent(q) \in Seq(Packets({t}))

\* A buffer of packets of one type is a buffer.
LEMMA TypesMatter ==
  ASSUME NEW t \in Types
  PROVE  Buffers({t}) \subseteq Buffers(Types)
<1>1. Packets({t}) \subseteq Packets(Types)
  BY DEF Packets
<1> DEFINE A == Packets({t})
           B == Packets(Types)
<1> HIDE DEF A, B
<1>3. ASSUME NEW xs \in Seq(A), A \subseteq B PROVE xs \in Seq(B)
  <2>1. \A i \in 1..Len(xs) : xs[i] \in B
    BY <1>3
  <2>2. xs = [i \in 1..Len(xs) |-> xs[i]] /\ Len(xs) \in Nat
    OBVIOUS
  <2>3. [i \in 1..Len(xs) |-> xs[i]] \in Seq(B)
    BY <2>1, <2>2
  <2> QED
    BY <2>2, <2>3
<1>2. Seq(Packets({t})) \subseteq Seq(Packets(Types))
  BY <1>1, <1>3 DEF A, B
<1> QED
  BY <1>2 DEF Buffers

-----------------------------------------------------------------------------
(* The types along a line: the buffer of a signal, and behind it its queue. *)

EventIn(q, i, j) == \E e \in i..j : IsEvent(q[e])

\* Where the type changes is an event; the buffer has one type.
OneEach(b, q) ==
  /\ \A i, j \in 1..Len(q) : i < j => q[i].type = q[j].type \/ EventIn(q, i, j)
  /\ \A i, j \in 1..Len(b.data) : b.data[i].type = b.data[j].type
  /\ \A i \in 1..Len(b.data), j \in 1..Len(q) :
       b.data[i].type = q[j].type \/ EventIn(q, 1, j)

\* What no event follows has the type of the descriptor.
UpToDate(b, q, t) ==
  /\ \A i \in 1..Len(q) : q[i].type = t \/ EventIn(q, i, Len(q))
  /\ \A i \in 1..Len(b.data) : b.data[i].type = t \/ EventIn(q, 1, Len(q))

Line(b, q, t) == OneEach(b, q) /\ UpToDate(b, q, t)

\* What a turn reads of a signal has one type, and with no event it is that of
\* the descriptor.
LEMMA ReadsOneType ==
  ASSUME NEW b \in Buffers(Types), NEW q \in Seq(Entries), NEW now \in Types,
         Line(b, q, now)
  PROVE  \E t \in Types :
           /\ b \in Buffers({t}) /\ BeforeEvent(q) \in Seq(Packets({t}))
           /\ FirstEvent(q) = 0 => t = now
<1> DEFINE m == FirstEvent(q)
           before == BeforeEvent(q)
           data == b.data
<1>1. /\ m \in 0..Len(q)
      /\ m = 0 => \A i \in 1..Len(q) : ~IsEvent(q[i])
      /\ m # 0 => \A i \in 1..m - 1 : ~IsEvent(q[i])
  BY FirstIs
<1>2. before \in Seq(Packets(Types))
  BY Parts
<1>3. /\ m = 0 => before = q
      /\ m # 0 => Len(before) = m - 1 /\ \A i \in 1..m - 1 : before[i] = q[i]
  <2>1. m # 0 => before = SubSeq(q, 1, m - 1)
    BY DEF BeforeEvent
  <2> HIDE DEF before
  <2>2. CASE m # 0
    BY <1>1, <2>1, <2>2
  <2>3. CASE m = 0
    BY <2>3 DEF before, BeforeEvent
  <2> QED
    BY <2>2, <2>3
<1>4. data \in Seq(Packets(Types)) /\ b = [data |-> data, dataSize |-> b.dataSize,
                                           offset |-> b.offset]
      /\ b.dataSize \in Nat /\ b.offset \in Nat /\ Fits(b)
  BY DEF Buffers
<1>5. /\ Len(before) <= Len(q)
      /\ \A i \in 1..Len(before) : before[i] = q[i] /\ ~IsEvent(q[i])
  BY <1>1, <1>3
<1>6. \A i, j \in 1..Len(before) : ~EventIn(q, i, j)
  BY <1>5 DEF EventIn
<1>7. ASSUME NEW t \in Types, \A i \in 1..Len(data) : data[i].type = t,
             \A i \in 1..Len(before) : before[i].type = t
      PROVE  b \in Buffers({t}) /\ before \in Seq(Packets({t}))
  <2>1. ASSUME NEW xs \in Seq(Packets(Types)), \A i \in 1..Len(xs) : xs[i].type = t
        PROVE  xs \in Seq(Packets({t}))
    <3>1. \A i \in 1..Len(xs) : xs[i] \in Packets({t})
      BY <2>1 DEF Packets
    <3> DEFINE A == Packets({t})
    <3> HIDE DEF A
    <3>2. \A i \in 1..Len(xs) : xs[i] \in A
      BY <3>1 DEF A
    <3>3. xs \in Seq(A)
      BY <3>2
    <3> QED
      BY <3>3 DEF A
  <2>2. data \in Seq(Packets({t}))
    BY <1>4, <1>7, <2>1
  <2> HIDE DEF data
  <2>3. [data |-> data, dataSize |-> b.dataSize, offset |-> b.offset]
          \in [data : Seq(Packets({t})), dataSize : Nat, offset : Nat]
    BY <1>4, <2>2
  <2>4. b \in Buffers({t})
    BY <1>4, <2>3 DEF Buffers
  <2> QED
    BY <1>2, <1>7, <2>1, <2>4
<1> HIDE DEF before, data, m
<1>8. ASSUME NEW i \in 1..Len(data), NEW j \in 1..Len(before)
      PROVE  data[i].type = before[j].type
  <2>1. j \in 1..Len(q) /\ 1 \in 1..Len(before) /\ Len(before) \in Nat
    BY <1>1, <1>2, <1>5
  <2>2. ~EventIn(q, 1, j)
    BY <1>6, <2>1
  <2>3. data[i].type = q[j].type
    BY <2>1, <2>2 DEF Line, OneEach, data
  <2> QED
    BY <1>5, <2>3
<1>9. ASSUME NEW i \in 1..Len(before), NEW j \in 1..Len(before)
      PROVE  before[i].type = before[j].type
  <2>1. i \in 1..Len(q) /\ j \in 1..Len(q)
    BY <1>2, <1>5
  <2>2. ~EventIn(q, i, j) /\ ~EventIn(q, j, i)
    BY <1>6
  <2>3. q[i].type = q[j].type
    <3>1. CASE i < j
      BY <2>1, <2>2, <3>1 DEF Line, OneEach
    <3>2. CASE j < i
      BY <2>1, <2>2, <3>2 DEF Line, OneEach
    <3> QED
      BY <3>1, <3>2, <2>1
  <2> QED
    BY <1>5, <2>3
<1>10. \A i, j \in 1..Len(data) : data[i].type = data[j].type
  BY DEF Line, OneEach, data
<1>11. CASE m = 0
  <2>1. \A i, j : i \in 1..Len(q) => ~EventIn(q, i, Len(q))
    BY <1>1, <1>11 DEF EventIn
  <2>2. ASSUME NEW i \in 1..Len(q) PROVE q[i].type = now
    BY <2>1 DEF Line, UpToDate
  <2>3. ~EventIn(q, 1, Len(q))
    BY <1>1, <1>11 DEF EventIn
  <2>4. ASSUME NEW i \in 1..Len(data) PROVE data[i].type = now
    BY <2>3 DEF Line, UpToDate, data
  <2>5. \A i \in 1..Len(before) : before[i].type = now
    BY <1>3, <1>11, <2>2
  <2> QED
    BY <1>7, <2>4, <2>5, <1>11 DEF m, before
<1>12. CASE m # 0
  <2>1. CASE Len(data) # 0
    <3>1. 1 \in 1..Len(data) /\ data[1].type \in Types
      BY <1>4, <2>1 DEF Packets
    <3> DEFINE t == data[1].type
    <3>2. \A i \in 1..Len(data) : data[i].type = t
      BY <1>10, <3>1
    <3>3. \A i \in 1..Len(before) : before[i].type = t
      BY <1>8, <3>1
    <3> QED
      BY <1>7, <1>12, <3>1, <3>2, <3>3 DEF m, before
  <2>2. CASE Len(data) = 0 /\ Len(before) # 0
    <3>1. 1 \in 1..Len(before) /\ before[1].type \in Types
      BY <1>2, <2>2 DEF Packets
    <3> DEFINE t == before[1].type
    <3>3. \A i \in 1..Len(before) : before[i].type = t
      BY <1>9, <3>1
    <3>4. \A i \in 1..Len(data) : data[i].type = t
      BY <2>2
    <3> QED
      BY <1>7, <1>12, <3>1, <3>3, <3>4 DEF m, before
  <2>3. CASE Len(data) = 0 /\ Len(before) = 0
    BY <1>7, <1>12, <2>3 DEF m, before
  <2> QED
    BY <2>1, <2>2, <2>3
<1> QED
  BY <1>11, <1>12

\* What is left of a queue when its head is read, events of it included.
LEMMA LineOfRest ==
  ASSUME NEW b, NEW q \in Seq(Entries), NEW t, Line(b, q, t),
         NEW n \in 0..Len(q), NEW rest \in Seq(Entries), Len(rest) = Len(q) - n,
         \A i \in 1..Len(rest) : rest[i] = q[i + n]
  PROVE  Line(NoBuffer, rest, t)
<1>1. ASSUME NEW i \in 1..Len(rest), NEW j \in 1..Len(rest),
             EventIn(q, i + n, j + n)
      PROVE  EventIn(rest, i, j)
  <2>1. PICK e \in (i + n)..(j + n) : IsEvent(q[e])
    BY <1>1 DEF EventIn
  <2>2. e - n \in i..j /\ e - n \in 1..Len(rest) /\ (e - n) + n = e
    OBVIOUS
  <2>3. rest[e - n] = q[e]
    BY <2>2
  <2> QED
    BY <2>1, <2>2, <2>3 DEF EventIn
<1>2. \A i \in 1..Len(rest) : i + n \in 1..Len(q)
  OBVIOUS
<1>3. ASSUME NEW i \in 1..Len(rest), NEW j \in 1..Len(rest), i < j
      PROVE  rest[i].type = rest[j].type \/ EventIn(rest, i, j)
  <2>1. q[i + n].type = q[j + n].type \/ EventIn(q, i + n, j + n)
    BY <1>2, <1>3 DEF Line, OneEach
  <2> QED
    BY <1>1, <2>1
<1>4. ASSUME NEW i \in 1..Len(rest)
      PROVE  rest[i].type = t \/ EventIn(rest, i, Len(rest))
  <2>1. q[i + n].type = t \/ EventIn(q, i + n, Len(q))
    BY <1>2 DEF Line, UpToDate
  <2>2. Len(rest) \in 1..Len(rest) /\ Len(rest) + n = Len(q)
    OBVIOUS
  <2> QED
    BY <1>1, <2>1, <2>2
<1> QED
  BY <1>3, <1>4 DEF Line, OneEach, UpToDate, NoBuffer

\* The line of every signal has one type between events, and that of a connected
\* one ends with the type of its descriptor.
Lined(st) ==
  \A s \in Signals :
    /\ OneEach(st.handler.signalBuffers[s], st.queue[s])
    /\ s \in Range(st.ports) =>
         UpToDate(st.handler.signalBuffers[s], st.queue[s], live[s])

\* A turn for one signal: messages of one type, and a line as it was.
LEMMA SignalProcessed ==
  ASSUME NEW s \in Signals, NEW b \in Buffers(Types), b.dataSize < PackSize,
         NEW q \in Seq(Entries), NEW now \in Types, Line(b, q, now),
         NEW k, k = "each" => b = NoBuffer
  PROVE  LET got == processSignalContext(s, b, q, k)
         IN  /\ got.messages \in Seq(Alone(SizeOf(k)))
             /\ got.buffer \in Buffers(Types) /\ got.buffer.dataSize < PackSize
             /\ k = "each" => got.buffer = NoBuffer
             /\ AfterEvent(q) \in Seq(Entries)
             /\ Line(got.buffer, AfterEvent(q), now)
<1> DEFINE got == processSignalContext(s, b, q, k)
           n == SizeOf(k)
<1>1. PICK t \in Types : /\ b \in Buffers({t})
                         /\ BeforeEvent(q) \in Seq(Packets({t}))
                         /\ FirstEvent(q) = 0 => t = now
  BY ReadsOneType
<1>2. /\ got \in Read(s, {t}, n) /\ got.buffer.dataSize < PackSize
      /\ k = "each" /\ b = NoBuffer => got.buffer = NoBuffer
      /\ FirstEvent(q) # 0 => got.buffer = NoBuffer
  BY <1>1, ContextProcessed
<1> HIDE DEF got, n
<1>3. got.messages \in Seq(Singles(s, {t}, n)) /\ got.buffer \in Buffers({t})
  BY <1>2 DEF Read
<1>4. got.messages \in Seq(Alone(n))
  <2>1. Singles(s, {t}, n) \subseteq Alone(n)
    <3>1. Singles(s, {t}, n) \subseteq UNION {Singles(s, {u}, n) : u \in Types}
      OBVIOUS
    <3>2. UNION {Singles(s, {u}, n) : u \in Types} \subseteq Alone(n)
      BY DEF Alone
    <3> QED
      BY <3>1, <3>2
  <2> DEFINE A == Singles(s, {t}, n)
             B == Alone(n)
             xs == got.messages
  <2> HIDE DEF A, B, xs
  <2>2. xs \in Seq(A) /\ A \subseteq B
    BY <1>3, <2>1 DEF A, B, xs
  <2>3. \A i \in 1..Len(xs) : xs[i] \in B
    BY <2>2
  <2>4. xs \in Seq(B)
    BY <2>2, <2>3
  <2> QED
    BY <2>4 DEF B, xs
<1>5. AfterEvent(q) \in Seq(Entries)
  BY Parts
<1>6. Line(got.buffer, AfterEvent(q), now)
  <2>1. CASE FirstEvent(q) = 0
    <3>1. AfterEvent(q) = <<>> /\ t = now
      BY <1>1, <2>1 DEF AfterEvent
    <3>2. \A i \in 1..Len(got.buffer.data) : got.buffer.data[i].type = t
      <4>1. got.buffer.data \in Seq(Packets({t}))
        BY <1>3 DEF Buffers
      <4> QED
        BY <4>1 DEF Packets
    <3> QED
      BY <3>1, <3>2 DEF Line, OneEach, UpToDate
  <2>2. CASE FirstEvent(q) # 0
    <3> DEFINE m == FirstEvent(q)
    <3>1. m \in 1..Len(q)
      BY <2>2, FirstIs
    <3>2. AfterEvent(q) = SubSeq(q, m + 1, Len(q))
      BY <2>2 DEF AfterEvent
    <3> HIDE DEF m
    <3>3. /\ Len(AfterEvent(q)) = Len(q) - m
          /\ \A i \in 1..Len(AfterEvent(q)) : AfterEvent(q)[i] = q[i + m]
      BY <3>1, <3>2
    <3>4. Line(NoBuffer, AfterEvent(q), now)
      BY <1>5, <3>1, <3>3, LineOfRest
    <3> QED
      BY <1>2, <2>2, <3>4
  <2> QED
    BY <2>1, <2>2
<1>7. got.buffer \in Buffers(Types)
  BY <1>3, TypesMatter
<1> QED
  BY <1>2, <1>4, <1>5, <1>6, <1>7 DEF got, n

\* A turn of the handlers that have signals one by one.
LEMMA EachProcessed ==
  ASSUME NEW k \in {"each", "array"}, NEW st, Sound(st, k), Lined(st),
         live \in [Signals -> Types]
  PROVE  LET got == ProcessEach(st, k)
         IN  /\ Sound(got.st, k) /\ Lined(got.st) /\ got.st.ports = st.ports
             /\ got.messages \in Seq(Alone(SizeOf(k)))
<1> DEFINE on == Range(st.ports)
           of == [s \in on |-> processSignalContext(s,
                                  st.handler.signalBuffers[s], st.queue[s], k)]
           buffers == [s \in Signals |->
             IF s \in on THEN of[s].buffer ELSE st.handler.signalBuffers[s]]
           queues == [s \in Signals |->
             IF s \in on THEN AfterEvent(st.queue[s]) ELSE st.queue[s]]
           h == [st.handler EXCEPT !.signalBuffers = buffers]
           lists == [i \in DOMAIN st.ports |-> of[st.ports[i]].messages]
           new == ProcessEach(st, k).st
<1>1. /\ st \in Blocks /\ st.handler \in Handlers /\ st.ports \in Seq(Signals)
      /\ st.queue \in [Signals -> Seq(Entries)]
      /\ st.handler.signalBuffers \in [Signals -> Buffers(Types)]
      /\ Good(st.handler, k)
  BY DEF Sound, Blocks, Handlers
<1>2. on \subseteq Signals /\ \A i \in DOMAIN st.ports : st.ports[i] \in on
  BY <1>1 DEF Range
<1>3. ASSUME NEW s \in on
      PROVE  /\ of[s].messages \in Seq(Alone(SizeOf(k)))
             /\ of[s].buffer \in Buffers(Types)
             /\ of[s].buffer.dataSize < PackSize
             /\ k = "each" => of[s].buffer = NoBuffer
             /\ AfterEvent(st.queue[s]) \in Seq(Entries)
             /\ Line(of[s].buffer, AfterEvent(st.queue[s]), live[s])
  <2> DEFINE b == st.handler.signalBuffers[s]
             q == st.queue[s]
  <2>1. s \in Signals /\ live[s] \in Types
    BY <1>2
  <2>2. b \in Buffers(Types) /\ q \in Seq(Entries)
    BY <1>1, <2>1
  <2>3. b.dataSize < PackSize /\ (k = "each" => b = NoBuffer)
    BY <1>1, <2>1 DEF Good, Less, Own
  <2>4. Line(b, q, live[s])
    BY <2>1 DEF Lined, Line
  <2>5. of[s] = processSignalContext(s, b, q, k)
    OBVIOUS
  <2> HIDE DEF b, q, of
  <2>6. /\ of[s].messages \in Seq(Alone(SizeOf(k)))
        /\ of[s].buffer \in Buffers(Types)
        /\ of[s].buffer.dataSize < PackSize
        /\ k = "each" => of[s].buffer = NoBuffer
        /\ AfterEvent(q) \in Seq(Entries)
        /\ Line(of[s].buffer, AfterEvent(q), live[s])
    BY <2>1, <2>2, <2>3, <2>4, <2>5, SignalProcessed
  <2> QED
    BY <2>6 DEF q
<1>4. /\ new = [st EXCEPT !.handler = h, !.queue = queues]
      /\ ProcessEach(st, k).messages = Joined(lists)
  BY DEF ProcessEach
<1>5. Joined(lists) \in Seq(Alone(SizeOf(k)))
  <2> DEFINE X == Alone(SizeOf(k))
  <2> HIDE DEF X, of, on
  <2>1. \A i \in DOMAIN st.ports : of[st.ports[i]].messages \in Seq(X)
    BY <1>2, <1>3 DEF X
  <2>2. DOMAIN st.ports = 1..Len(st.ports) /\ Len(st.ports) \in Nat
    BY <1>1
  <2>3. lists \in Seq(Seq(X))
    BY <2>1, <2>2
  <2> HIDE DEF lists
  <2>4. Joined(lists) \in Seq(X)
    BY <2>3, JoinedIs
  <2> QED
    BY <2>4 DEF X
<1> HIDE DEF of, lists
<1>6. buffers \in [Signals -> Buffers(Types)]
  BY <1>1, <1>3
<1>7. queues \in [Signals -> Seq(Entries)]
  BY <1>1, <1>3
<1>8. \A s \in Signals : buffers[s].dataSize < PackSize
  BY <1>1, <1>3 DEF Good, Less
<1>9. k # "array" => \A s \in Signals : buffers[s] = NoBuffer
  BY <1>1, <1>3 DEF Good, Own
<1>10. \A s \in Signals :
         /\ OneEach(buffers[s], queues[s])
         /\ s \in on => UpToDate(buffers[s], queues[s], live[s])
  <2>1. ASSUME NEW s \in on
        PROVE  OneEach(buffers[s], queues[s])
                 /\ UpToDate(buffers[s], queues[s], live[s])
    BY <1>2, <1>3, <2>1 DEF Line
  <2>2. ASSUME NEW s \in Signals, s \notin on
        PROVE  OneEach(buffers[s], queues[s])
    BY <2>2 DEF Lined
  <2> QED
    BY <2>1, <2>2
<1> HIDE DEF buffers, queues
<1>11. /\ h.signalBuffers = buffers /\ h.dataBuilders = st.handler.dataBuilders
       /\ h.tsBuilder = st.handler.tsBuilder /\ h.reader = st.handler.reader
       /\ h.skewed = st.handler.skewed /\ h.replaced = st.handler.replaced
  BY <1>1 DEF Handlers
<1>12. h \in Handlers
  BY <1>1, <1>6 DEF Handlers
<1> HIDE DEF h, new
<1>13. /\ new \in Blocks /\ new.handler = h /\ new.queue = queues
       /\ new.ports = st.ports /\ new.error = st.error
  BY <1>1, <1>4, <1>7, <1>12 DEF Blocks
<1>14. Less(h) /\ Together(h) /\ Owned(h)
  BY <1>1, <1>8, <1>11 DEF Good, Less, Together, Owned
<1>15. Own(h, k)
  BY <1>1, <1>9, <1>11 DEF Good, Own
<1>16. NothingBegun(h)
  <2>1. Len(h.dataBuilders) = 0
    BY <1>15 DEF Own
  <2> QED
    BY <2>1 DEF NothingBegun
<1>17. Sound(new, k)
  BY <1>13, <1>14, <1>15, <1>16 DEF Sound, Good, Noticed, Reads
<1>18. Lined(new)
  BY <1>10, <1>11, <1>13 DEF Lined
<1> QED
  BY <1>4, <1>5, <1>13, <1>17, <1>18 DEF new

-----------------------------------------------------------------------------
(* The handlers of all signals: what the reader gives, and what it leaves. *)

\* Samples that are dropped leave a queue in order, with all its events.
LEMMA BeyondIs ==
  ASSUME NEW q \in Seq(Entries), NEW t, NEW now, Line(NoBuffer, q, now)
  PROVE  Beyond(q, t) \in Seq(Entries) /\ Line(NoBuffer, Beyond(q, t), now)
<1> DEFINE E == [type : Types \cup {"event"}, ticks : Seq(Nat)]
           left(p) == [p EXCEPT !.ticks = Filtered(@, {x \in Range(@) : x > t})]
           later == [i \in DOMAIN q |-> left(q[i])]
           kept == {p \in Range(later) : IsEvent(p) \/ p.ticks # <<>>}
           ys == Filtered(later, kept)
<1>1. ASSUME NEW p \in Entries
      PROVE  left(p) \in E /\ left(p).type = p.type /\ (IsEvent(p) => left(p) = p)
  <2> DEFINE S == {x \in Range(p.ticks) : x > t}
  <2>1. p \in E /\ p.ticks \in Seq(Nat)
    <3>1. CASE p \in Packets(Types)
      BY <3>1 DEF Packets, E
    <3>2. CASE p = Event
      <4>1. <<>> \in Seq(Nat)
        OBVIOUS
      <4> QED
        BY <3>2, <4>1 DEF Event, E
    <3> QED
      BY <3>1, <3>2 DEF Entries
  <2>2. Filtered(p.ticks, S) \in Seq(Nat)
    BY <2>1, FilteredIs
  <2>3. IsEvent(p) => Filtered(p.ticks, S) = p.ticks
    <3>1. SUFFICES ASSUME IsEvent(p) PROVE Filtered(p.ticks, S) = p.ticks
      OBVIOUS
    <3>2. p = Event
      BY <3>1, EventIsNone DEF Entries
    <3>3. p.ticks = <<>>
      BY <3>2 DEF Event
    <3> HIDE DEF S
    <3>4. Filtered(<<>>, S) = <<>>
      <4>1. <<>> \in Seq(Nat)
        OBVIOUS
      <4>2. PICK f : FiltersTo(f, <<>>, S) /\ Filtered(<<>>, S) = f[Len(<<>>)]
        BY <4>1, FilteredUnfolds
      <4> QED
        BY <4>2 DEF FiltersTo
    <3> QED
      BY <3>3, <3>4
  <2> DEFINE r == Filtered(p.ticks, S)
  <2>4. left(p) = [p EXCEPT !.ticks = r]
    OBVIOUS
  <2> HIDE DEF r
  <2>5. [p EXCEPT !.ticks = r] = [type |-> p.type, ticks |-> r]
    BY <2>1
  <2>6. r \in Seq(Nat) /\ (IsEvent(p) => r = p.ticks)
    BY <2>2, <2>3 DEF r
  <2>7. p = [type |-> p.type, ticks |-> p.ticks] /\ p.type \in Types \cup {"event"}
    BY <2>1
  <2> HIDE DEF left
  <2> QED
    BY <2>4, <2>5, <2>6, <2>7
<1> HIDE DEF left, E
<1>2. \A i \in 1..Len(q) : q[i] \in Entries
  OBVIOUS
<1>3. /\ later \in Seq(E) /\ Len(later) = Len(q)
      /\ \A i \in 1..Len(q) : later[i] = left(q[i])
  BY <1>1, <1>2
<1> HIDE DEF later, kept
<1>4. PICK e : Embeds(e, ys, later, kept)
  BY <1>3, FilteredIs
<1>5. ys \in Seq(E)
  BY <1>3, FilteredIs
<1> HIDE DEF ys
<1>6. /\ \A j \in 1..Len(ys) : e[j] \in 1..Len(q) /\ ys[j] = left(q[e[j]])
      /\ \A j \in 1..Len(ys) : ys[j] \in kept
  BY <1>3, <1>4 DEF Embeds
<1>7. ASSUME NEW j \in 1..Len(ys) PROVE ys[j] \in Entries
  <2>1. ys[j] \in E /\ (IsEvent(ys[j]) \/ ys[j].ticks # <<>>)
    BY <1>5, <1>6 DEF kept
  <2>2. q[e[j]] \in Entries /\ ys[j] = left(q[e[j]]) /\ ys[j].type = q[e[j]].type
    BY <1>1, <1>2, <1>6
  <2>3. IsEvent(q[e[j]]) => ys[j] = q[e[j]]
    BY <1>1, <2>2
  <2>4. ~IsEvent(q[e[j]]) => ys[j] \in Packets(Types)
    BY <2>1, <2>2 DEF E, Packets, IsEvent
  <2> QED
    BY <2>2, <2>3, <2>4 DEF Entries
<1>8. ys \in Seq(Entries)
  <2> HIDE DEF Entries
  <2> QED
    BY <1>5, <1>7
<1>9. \A j \in 1..Len(ys) : ys[j].type = q[e[j]].type
  BY <1>1, <1>2, <1>6
\* An event is still there, between the same neighbours.
<1>10. ASSUME NEW i \in 1..Len(q), IsEvent(q[i])
       PROVE  \E l \in 1..Len(ys) : e[l] = i /\ IsEvent(ys[l])
  <2>1. later[i] = q[i] /\ i \in DOMAIN later
    BY <1>1, <1>2, <1>3, <1>10
  <2>2. later[i] \in kept
    BY <2>1, <1>10 DEF kept, Range
  <2>3. PICK l \in 1..Len(ys) : e[l] = i
    BY <1>3, <1>4, <2>2 DEF Embeds
  <2>4. IsEvent(ys[l])
    BY <1>9, <1>10, <2>3 DEF IsEvent
  <2> QED
    BY <2>3, <2>4
<1>11. \A j, l \in 1..Len(ys) : e[j] <= e[l] => j <= l
  <2>1. \A j, l \in 1..Len(ys) : l < j => e[l] < e[j]
    BY <1>4 DEF Embeds
  <2>2. \A j \in 1..Len(ys) : e[j] \in Nat
    BY <1>6
  <2> QED
    BY <2>1, <2>2
<1>12. ASSUME NEW i \in 1..Len(ys), NEW j \in 1..Len(ys), EventIn(q, e[i], e[j])
       PROVE  EventIn(ys, i, j)
  <2>1. PICK x \in e[i]..e[j] : IsEvent(q[x])
    BY <1>12 DEF EventIn
  <2>2. e[i] \in 1..Len(q) /\ e[j] \in 1..Len(q)
    BY <1>6
  <2>3. x \in 1..Len(q)
    BY <2>1, <2>2
  <2>4. PICK l \in 1..Len(ys) : e[l] = x /\ IsEvent(ys[l])
    BY <1>10, <2>1, <2>3
  <2>5. e[i] <= e[l] /\ e[l] <= e[j]
    BY <2>1, <2>2, <2>4
  <2>6. i <= l /\ l <= j
    BY <1>11, <2>5
  <2> QED
    BY <2>4, <2>6 DEF EventIn
<1>13. ASSUME NEW i \in 1..Len(ys), NEW j \in 1..Len(ys), i < j
       PROVE  ys[i].type = ys[j].type \/ EventIn(ys, i, j)
  <2>1. e[i] < e[j]
    BY <1>4, <1>13 DEF Embeds
  <2>2. q[e[i]].type = q[e[j]].type \/ EventIn(q, e[i], e[j])
    BY <1>6, <2>1 DEF Line, OneEach
  <2> QED
    BY <1>9, <1>12, <2>2
<1>14. ASSUME NEW i \in 1..Len(ys)
       PROVE  ys[i].type = now \/ EventIn(ys, i, Len(ys))
  <2>1. q[e[i]].type = now \/ EventIn(q, e[i], Len(q))
    BY <1>6 DEF Line, UpToDate
  <2>2. CASE q[e[i]].type = now
    BY <1>9, <2>2
  <2>3. CASE EventIn(q, e[i], Len(q))
    <3>1. PICK x \in e[i]..Len(q) : IsEvent(q[x])
      BY <2>3 DEF EventIn
    <3>2. x \in 1..Len(q) /\ e[i] \in 1..Len(q)
      BY <1>6, <3>1
    <3>3. PICK l \in 1..Len(ys) : e[l] = x /\ IsEvent(ys[l])
      BY <1>10, <3>1, <3>2
    <3>4. i <= l
      BY <1>11, <3>1, <3>2, <3>3
    <3> QED
      BY <1>8, <3>3, <3>4 DEF EventIn
  <2> QED
    BY <2>1, <2>2, <2>3
<1>15. Beyond(q, t) = ys
  BY DEF Beyond, ys, later, kept, left
<1> QED
  BY <1>8, <1>13, <1>14, <1>15 DEF Line, OneEach, UpToDate, NoBuffer

\* The samples of a signal in some rows.
LEMMA ColumnIs ==
  ASSUME NEW st \in Blocks, NEW s \in Signals, live \in [Signals -> Types],
         NEW rows \in Seq(Nat),
         \A i \in 1..Len(rows) : rows[i] \in TicksOf(st.queue[s])
  PROVE  /\ Column(st, s, rows) \in Seq(Samples({s}, Types))
         /\ SameTicks(Column(st, s, rows), rows)
<1> DEFINE q == st.queue[s]
           before == BeforeEvent(q)
           column == Column(st, s, rows)
<1>1. before \in Seq(Packets(Types))
  BY Parts DEF Blocks
<1>2. ASSUME NEW i \in 1..Len(rows) PROVE TypeAt(q, rows[i]) \in Types
  <2>1. rows[i] \in UNION {Range(p.ticks) : p \in Range(before)}
    BY DEF TicksOf
  <2>2. \E p \in Range(before) : rows[i] \in Range(p.ticks)
    BY <2>1
  <2> DEFINE c == CHOOSE p \in Range(before) : rows[i] \in Range(p.ticks)
  <2>3. c \in Range(before)
    BY <2>2
  <2>4. TypeAt(q, rows[i]) = c.type
    BY DEF TypeAt
  <2> HIDE DEF c, before
  <2>5. c \in Packets(Types)
    BY <1>1, <2>3 DEF Range
  <2> QED
    BY <2>4, <2>5 DEF Packets
<1>3. DOMAIN rows = 1..Len(rows) /\ Len(rows) \in Nat
  OBVIOUS
<1> HIDE DEF before
<1>4. ASSUME NEW i \in 1..Len(rows)
      PROVE  column[i] = Sample(s, rows[i], TypeAt(q, rows[i]), live[s])
  BY <1>3 DEF Column
<1>5. ASSUME NEW i \in 1..Len(rows)
      PROVE  column[i] \in Samples({s}, Types) /\ column[i].tick = rows[i]
  <2>1. TypeAt(q, rows[i]) \in Types
    BY <1>2
  <2> DEFINE type == TypeAt(q, rows[i])
  <2> HIDE DEF type
  <2>2. type \in Types /\ live[s] \in Types /\ rows[i] \in Nat
    BY <2>1 DEF type
  <2>3. column[i] = [signal |-> s, tick |-> rows[i], type |-> type, as |-> live[s]]
    BY <1>4 DEF Sample, type
  <2> HIDE DEF column
  <2> QED
    BY <2>2, <2>3 DEF Samples
<1>6. column = [i \in 1..Len(rows) |-> column[i]]
  BY <1>3 DEF Column
<1> HIDE DEF column
<1> DEFINE X == Samples({s}, Types)
<1> HIDE DEF X
<1>7. \A i \in 1..Len(rows) : column[i] \in X
  BY <1>5 DEF X
<1>8. column \in Seq(X) /\ Len(column) = Len(rows)
  BY <1>3, <1>6, <1>7
<1> QED
  BY <1>5, <1>8 DEF column, X, SameTicks

-----------------------------------------------------------------------------
(* The messages of a turn. *)

\* What FieldsAreRows and LessThanAPackWaits say of one message.
FieldFits(f, m, k, h) ==
  LET of == f.values
  IN  /\ ~h.skewed => [i \in DOMAIN of |-> of[i].tick] = m.times
      /\ ~h.replaced => \A i \in DOMAIN of : of[i].signal = f.name
      /\ k \notin {"group", "groupArray"} => \A i \in DOMAIN of : of[i].as = of[1].type
Right(m, k, h) ==
  /\ k \in {"array", "groupArray"} => Len(m.times) = PackSize
  /\ \A f \in Range(m.fields) : FieldFits(f, m, k, h)
AllRight(messages, k, h) == \A i \in DOMAIN messages : Right(messages[i], k, h)

\* A message of one signal.
LEMMA AloneIsRight ==
  ASSUME NEW k \in {"each", "array"}, NEW h, NEW m \in Alone(SizeOf(k))
  PROVE  Right(m, k, h)
<1>1. PICK s \in Signals, t \in Types : m \in Singles(s, {t}, SizeOf(k))
  BY DEF Alone
<1>2. PICK xs \in Seq(Samples({s}, {t})) :
        Len(xs) = SizeOf(k) /\ m = OfOneSignal(s, xs)
  BY <1>1 DEF Singles
<1> DEFINE times == [i \in DOMAIN xs |-> xs[i].tick]
           fields == [i \in DOMAIN <<s>> |-> [name |-> <<s>>[i], values |-> <<xs>>[i]]]
<1>3. DOMAIN xs = 1..Len(xs) /\ Len(xs) \in Nat
  OBVIOUS
<1>4. m.fields = fields /\ m.times = times
  BY <1>2 DEF OfOneSignal, Message
<1>5. Len(times) = Len(xs)
  BY <1>3
<1>6. k = "array" => Len(times) = PackSize
  BY <1>2, <1>5 DEF SizeOf
<1>7. ASSUME NEW f \in Range(fields) PROVE f.name = s /\ f.values = xs
  <2>1. DOMAIN <<s>> = {1} /\ <<s>>[1] = s /\ <<xs>>[1] = xs
    OBVIOUS
  <2>2. DOMAIN fields = {1} /\ fields[1] = [name |-> s, values |-> xs]
    BY <2>1
  <2> HIDE DEF fields
  <2>3. f = fields[1]
    BY <2>2 DEF Range
  <2> QED
    BY <2>2, <2>3
<1>8. \A i \in DOMAIN xs : xs[i].signal = s /\ xs[i].as = t /\ xs[i].type = t
  <2>1. \A i \in DOMAIN xs : xs[i] \in Samples({s}, {t})
    BY <1>3
  <2> QED
    BY <2>1 DEF Samples
<1>9. \A i \in DOMAIN xs : xs[1].type = t
  BY <1>3, <1>8
<1> HIDE DEF fields
<1>10. ASSUME NEW f \in Range(m.fields) PROVE FieldFits(f, m, k, h)
  BY <1>4, <1>7, <1>8, <1>9 DEF FieldFits
<1> QED
  BY <1>4, <1>6, <1>10 DEF Right

\* Messages of all signals: the fields are the columns.
LEMMA GroupIsRight ==
  ASSUME NEW k \in {"group", "groupArray"}, NEW h, NEW ports1 \in Seq(Signals),
         NEW columns, NEW times, k = "groupArray" => Len(times) = PackSize,
         \A n \in 1..Len(ports1) :
           /\ ~h.skewed => /\ columns[n] \in Seq(Samples(Signals, Types))
                           /\ times \in Seq(Nat) /\ SameTicks(columns[n], times)
           /\ ~h.replaced => columns[n] \in Seq(Samples({ports1[n]}, Types))
  PROVE  Right(Message(ports1, columns, times), k, h)
<1> DEFINE m == Message(ports1, columns, times)
<1>1. /\ m.times = times
      /\ m.fields = [n \in DOMAIN ports1 |->
                       [name |-> ports1[n], values |-> columns[n]]]
  BY DEF Message
<1> HIDE DEF m
<1>2. ASSUME NEW f \in Range(m.fields) PROVE FieldFits(f, m, k, h)
  <2>1. PICK n \in DOMAIN ports1 : f = [name |-> ports1[n], values |-> columns[n]]
    BY <1>1 DEF Range
  <2> DEFINE of == columns[n]
  <2>2. n \in 1..Len(ports1) /\ f.name = ports1[n] /\ f.values = of
    BY <2>1
  <2>3. ASSUME ~h.skewed PROVE [i \in DOMAIN of |-> of[i].tick] = times
    <3>1. /\ of \in Seq(Samples(Signals, Types)) /\ times \in Seq(Nat)
          /\ Len(of) = Len(times) /\ \A i \in 1..Len(times) : of[i].tick = times[i]
      BY <2>2, <2>3 DEF SameTicks
    <3> HIDE DEF of
    <3>2. /\ DOMAIN of = 1..Len(times) /\ Len(times) \in Nat
          /\ times = [i \in 1..Len(times) |-> times[i]]
      BY <3>1
    <3>3. [i \in DOMAIN of |-> of[i].tick] = [i \in 1..Len(times) |-> times[i]]
      BY <3>1, <3>2
    <3> QED
      BY <3>2, <3>3
  <2>4. ASSUME ~h.replaced PROVE \A i \in DOMAIN of : of[i].signal = ports1[n]
    <3>1. of \in Seq(Samples({ports1[n]}, Types))
      BY <2>2, <2>4
    <3>2. \A i \in DOMAIN of : of[i] \in Samples({ports1[n]}, Types)
      BY <3>1
    <3> QED
      BY <3>2 DEF Samples
  <2> HIDE DEF of
  <2> QED
    BY <1>1, <2>2, <2>3, <2>4 DEF FieldFits
<1> QED
  BY <1>1, <1>2 DEF Right, m

\* What is known of the columns of rows.
Columns(st, rows) ==
  \A n \in 1..Len(st.ports) :
    LET column == Column(st, st.ports[n], rows)
    IN  /\ column \in Seq(Samples({st.ports[n]}, Types))
        /\ SameTicks(column, rows)

\* Samples of one signal are samples.
LEMMA SamplesOfAny ==
  ASSUME NEW s \in Signals, NEW xs \in Seq(Samples({s}, Types))
  PROVE  xs \in Seq(Samples(Signals, Types))
<1>1. Samples({s}, Types) \subseteq Samples(Signals, Types)
  BY DEF Samples
<1> DEFINE A == Samples({s}, Types)
           B == Samples(Signals, Types)
<1> HIDE DEF A, B
<1>2. xs \in Seq(A) /\ A \subseteq B
  BY <1>1 DEF A, B
<1>3. \A i \in 1..Len(xs) : xs[i] \in B
  BY <1>2
<1>4. xs \in Seq(B)
  BY <1>2, <1>3
<1> QED
  BY <1>4 DEF B

\* A message for each row.
LEMMA RowsWritten ==
  ASSUME NEW st \in Blocks, NEW rows \in Seq(Nat), Columns(st, rows)
  PROVE  AllRight(WriteRows(st, rows).messages, "group", st.handler)
<1> DEFINE messages == WriteRows(st, rows).messages
           columns(i) == [n \in DOMAIN st.ports |->
                            <<Column(st, st.ports[n], rows)[i]>>]
<1>1. messages = [i \in DOMAIN rows |-> Message(st.ports, columns(i), <<rows[i]>>)]
  BY DEF WriteRows
<1>2. st.ports \in Seq(Signals)
  BY DEF Blocks
<1>3. ASSUME NEW i \in DOMAIN rows PROVE Right(messages[i], "group", st.handler)
  <2>1. ASSUME NEW n \in 1..Len(st.ports)
        PROVE  /\ columns(i)[n] \in Seq(Samples({st.ports[n]}, Types))
               /\ columns(i)[n] \in Seq(Samples(Signals, Types))
               /\ SameTicks(columns(i)[n], <<rows[i]>>)
    <3> DEFINE column == Column(st, st.ports[n], rows)
    <3>1. column \in Seq(Samples({st.ports[n]}, Types)) /\ SameTicks(column, rows)
      BY DEF Columns
    <3>2. columns(i)[n] = <<column[i]>> /\ st.ports[n] \in Signals
      BY <1>2
    <3> HIDE DEF column
    <3>3. i \in 1..Len(rows) /\ Len(column) = Len(rows) /\ column[i].tick = rows[i]
      BY <3>1 DEF SameTicks
    <3>4. column[i] \in Samples({st.ports[n]}, Types)
      BY <3>1, <3>3
    <3> DEFINE x == column[i]
    <3> HIDE DEF x
    <3>5. <<x>> \in Seq(Samples({st.ports[n]}, Types))
      BY <3>4 DEF x
    <3>6. SameTicks(<<x>>, <<rows[i]>>)
      BY <3>3 DEF SameTicks, x
    <3> HIDE DEF columns
    <3>7. columns(i)[n] \in Seq(Samples({st.ports[n]}, Types))
      BY <3>2, <3>5 DEF x
    <3>8. columns(i)[n] \in Seq(Samples(Signals, Types))
      BY <3>2, <3>7, SamplesOfAny
    <3> QED
      BY <3>2, <3>6, <3>7, <3>8 DEF x
  <2>2. rows[i] \in Nat
    OBVIOUS
  <2>3. <<rows[i]>> \in Seq(Nat)
    BY <2>2
  <2> DEFINE c == columns(i)
             t == <<rows[i]>>
  <2> HIDE DEF columns
  <2>4. messages[i] = Message(st.ports, c, t)
    BY <1>1
  <2> HIDE DEF messages, c, t
  <2>5. Right(Message(st.ports, c, t), "group", st.handler)
    BY <1>2, <2>1, <2>3, GroupIsRight DEF c, t
  <2> QED
    BY <2>4, <2>5
<1>4. DOMAIN messages = DOMAIN rows
  BY <1>1
<1> QED
  BY <1>3, <1>4 DEF AllRight

\* Rows go into the builders and whole packs come out.
LEMMA RowsCollected ==
  ASSUME NEW st \in Blocks, Good(st.handler, "groupArray"),
         st.handler.reader = st.ports, NEW rows \in Seq(Nat), Columns(st, rows)
  PROVE  LET got == CollectRows(st, rows)
         IN  /\ got.handler \in Handlers /\ Good(got.handler, "groupArray")
             /\ got.handler.reader = st.ports
             /\ AllRight(got.messages, "groupArray", got.handler)
<1> DEFINE h == st.handler
           old == h.dataBuilders
           builder(n) == IF live[st.ports[n]] \notin Supported THEN old[n]
                         ELSE AppendAll(old[n], Column(st, st.ports[n], rows))
           builders == [n \in DOMAIN old |-> builder(n)]
           times == AppendAll(h.tsBuilder, rows)
           packs == Len(times.values)
           left == [n \in DOMAIN builders |-> Without(builders[n], packs)]
           more == h.skewed \/ \E s \in Range(st.ports) : live[s] \notin Supported
           new == [h EXCEPT !.dataBuilders = left,
                            !.tsBuilder = Without(times, packs),
                            !.skewed = more]
           columns(i) == [n \in DOMAIN builders |-> getPack(builders[n], i)]
           All == Samples(Signals, Types)
<1>0. /\ CollectRows(st, rows).handler = new
      /\ CollectRows(st, rows).messages =
           [i \in 1..packs |-> Message(st.ports, columns(i), times.values[i])]
  BY DEF CollectRows
<1>1. /\ h \in Handlers /\ st.ports \in Seq(Signals) /\ old \in Seq(Builders(All))
      /\ h.tsBuilder \in Builders(Nat) /\ h.tsBuilder.values = <<>>
      /\ Len(old) = Len(st.ports) /\ DOMAIN old = 1..Len(st.ports)
  BY DEF Blocks, Handlers, Good, Less, Own
<1>2. times \in Builders(Nat) /\ packs \in Nat
  <2>1. times \in Builders(Nat)
    BY <1>1, AllAppended
  <2> QED
    BY <2>1 DEF Builders
<1> HIDE DEF times, All
<1>3. ASSUME NEW n \in 1..Len(st.ports)
      PROVE  /\ builder(n) \in Builders(All)
             /\ ~h.replaced => builder(n) \in Builders(Samples({st.ports[n]}, Types))
             /\ ~more => InStep(builder(n), times)
  <2> DEFINE column == Column(st, st.ports[n], rows)
             s == st.ports[n]
             X == Samples({s}, Types)
  <2>1. s \in Signals /\ s \in Range(st.ports) /\ old[n] \in Builders(All)
    BY <1>1 DEF Range
  <2>2. column \in Seq(X) /\ SameTicks(column, rows)
    BY DEF Columns
  <2> HIDE DEF column, s
  <2>3. column \in Seq(All)
    BY <2>1, <2>2, SamplesOfAny DEF All
  <2>4. ~h.replaced => old[n] \in Builders(X)
    BY <1>1 DEF Good, Owned, s
  <2> HIDE DEF X
  <2>5. AppendAll(old[n], column) \in Builders(All)
    BY <2>1, <2>3, AllAppended
  <2>6. ~h.replaced => AppendAll(old[n], column) \in Builders(X)
    BY <2>2, <2>4, AllAppended
  <2>7. builder(n) = IF live[s] \notin Supported THEN old[n]
                     ELSE AppendAll(old[n], column)
    BY DEF s, column
  <2>8. ASSUME ~more PROVE InStep(builder(n), times)
    <3>1. InStep(old[n], h.tsBuilder)
      BY <1>1, <2>8 DEF Good, Together
    <3>2. InStep(AppendAll(old[n], column), times)
      BY <1>1, <2>1, <2>2, <2>3, <3>1, AllInStep DEF times
    <3>3. live[s] \in Supported
      BY <2>1, <2>8
    <3> QED
      BY <2>7, <3>2, <3>3
  <2> HIDE DEF builder
  <2> QED
    BY <2>1, <2>4, <2>5, <2>6, <2>7, <2>8 DEF X, s
<1> HIDE DEF builder
<1>4. /\ DOMAIN builders = 1..Len(st.ports)
      /\ \A n \in 1..Len(st.ports) : builders[n] = builder(n)
  BY <1>1
<1> HIDE DEF builders
<1>5. /\ DOMAIN left = 1..Len(st.ports) /\ Len(st.ports) \in Nat
      /\ \A n \in 1..Len(st.ports) : left[n] = Without(builder(n), packs)
  BY <1>1, <1>4
<1>6. /\ \A n \in 1..Len(st.ports) : left[n] \in Builders(All)
      /\ left = [n \in 1..Len(st.ports) |-> left[n]]
  BY <1>2, <1>3, <1>4, <1>5, PacksTaken
<1>7. left \in Seq(Builders(All)) /\ Len(left) = Len(st.ports)
  <2>1. ASSUME NEW f, NEW n \in Nat, NEW B, f = [i \in 1..n |-> f[i]],
               \A i \in 1..n : f[i] \in B
        PROVE  f \in Seq(B) /\ Len(f) = n
    <3>1. [i \in 1..n |-> f[i]] \in Seq(B)
      BY <2>1
    <3>2. Len([i \in 1..n |-> f[i]]) = n
      OBVIOUS
    <3> QED
      BY <2>1, <3>1, <3>2
  <2> HIDE DEF left
  <2> QED
    BY <1>5, <1>6, <2>1
<1>8. /\ Without(times, packs) \in Builders(Nat)
      /\ Without(times, packs).current = times.current
      /\ Without(times, packs).values = <<>>
  BY <1>2, PacksTaken
<1> HIDE DEF left
<1>9. more \in BOOLEAN
  BY <1>1 DEF Handlers
<1> HIDE DEF more
<1>10. new \in Handlers
  BY <1>1, <1>7, <1>8, <1>9 DEF Handlers, All
<1>11. /\ new.dataBuilders = left /\ new.tsBuilder = Without(times, packs)
       /\ new.skewed = more /\ new.replaced = h.replaced
       /\ new.reader = h.reader /\ new.signalBuffers = h.signalBuffers
  BY <1>1 DEF Handlers
<1> HIDE DEF new
<1>12. Less(new)
  BY <1>8, <1>11 DEF Good, Less
<1>13. Together(new)
  <2> SUFFICES ASSUME ~more, NEW n \in 1..Len(st.ports)
               PROVE  InStep(left[n], Without(times, packs))
    BY <1>7, <1>11 DEF Together
  <2>1. InStep(builder(n), times) /\ builder(n) \in Builders(All)
    BY <1>3
  <2>2. Len(builder(n).values) = packs /\ SameTicks(builder(n).current, times.current)
    BY <2>1 DEF InStep
  <2>3. /\ Without(builder(n), packs).current = builder(n).current
        /\ Without(builder(n), packs).values = <<>>
    BY <1>2, <2>1, <2>2, PacksTaken
  <2> QED
    BY <1>5, <1>8, <2>2, <2>3 DEF InStep
<1>14. Owned(new)
  <2> SUFFICES ASSUME ~h.replaced, NEW n \in 1..Len(st.ports)
               PROVE  left[n] \in Builders(Samples({st.ports[n]}, Types))
    BY <1>7, <1>11 DEF Owned
  <2>1. builder(n) \in Builders(Samples({st.ports[n]}, Types))
    BY <1>3
  <2> QED
    BY <1>2, <1>5, <2>1, PacksTaken
<1>15. Own(new, "groupArray")
  BY <1>7, <1>11 DEF Good, Own
<1>16. ASSUME NEW i \in 1..packs
       PROVE  Right(Message(st.ports, columns(i), times.values[i]), "groupArray", new)
  <2>1. i \in Nat \ {0}
    BY <1>2
  <2>2. times.values[i] \in Seq(Nat) /\ Len(times.values[i]) = PackSize
    <3>1. times.values \in Seq(Packs(Nat))
      BY <1>2 DEF Builders
    <3>2. times.values[i] \in Packs(Nat)
      BY <3>1
    <3> QED
      BY <3>2 DEF Packs
  <2>3. ASSUME NEW n \in 1..Len(st.ports)
        PROVE  /\ ~more => /\ columns(i)[n] \in Seq(All)
                           /\ SameTicks(columns(i)[n], times.values[i])
               /\ ~h.replaced =>
                    columns(i)[n] \in Seq(Samples({st.ports[n]}, Types))
    <3>1. columns(i)[n] = getPack(builder(n), i)
      BY <1>4
    <3>2. builder(n) \in Builders(All)
      BY <1>3
    <3>3. getPack(builder(n), i) \in Seq(All)
      BY <2>1, <3>2, PackGot
    <3>4. ASSUME ~more PROVE SameTicks(getPack(builder(n), i), times.values[i])
      <4>1. InStep(builder(n), times)
        BY <1>3, <3>4
      <4>2. i <= Len(builder(n).values)
        BY <4>1, <1>2 DEF InStep
      <4>3. getPack(builder(n), i) = builder(n).values[i]
        BY <2>1, <3>2, <4>2, PackGot
      <4> QED
        BY <4>1, <4>3 DEF InStep
    <3>5. ~h.replaced =>
            getPack(builder(n), i) \in Seq(Samples({st.ports[n]}, Types))
      BY <1>3, <2>1, PackGot
    <3> QED
      BY <3>1, <3>3, <3>4, <3>5
  <2> DEFINE c == columns(i)
             t == times.values[i]
  <2> HIDE DEF columns, packs
  <2> HIDE DEF c, t
  <2>4. Right(Message(st.ports, c, t), "groupArray", new)
    BY <1>1, <1>11, <2>2, <2>3, GroupIsRight DEF c, t, All
  <2> QED
    BY <2>4 DEF c, t
<1>17. AllRight(CollectRows(st, rows).messages, "groupArray", new)
  <2> DEFINE message(i) == Message(st.ports, columns(i), times.values[i])
  <2> HIDE DEF message
  <2>1. CollectRows(st, rows).messages = [i \in 1..packs |-> message(i)]
    BY <1>0 DEF message
  <2>2. \A i \in 1..packs : Right(message(i), "groupArray", new)
    BY <1>16 DEF message
  <2> QED
    BY <2>1, <2>2 DEF AllRight
<1>18. Good(new, "groupArray")
  BY <1>12, <1>13, <1>14, <1>15 DEF Good
<1> QED
  BY <1>0, <1>10, <1>11, <1>17, <1>18

\* Of a handler, messages depend on what is remembered of its builders.
LEMMA RightStays ==
  ASSUME NEW k, NEW messages, NEW h, NEW g, AllRight(messages, k, h),
         g.skewed = h.skewed, g.replaced = h.replaced \/ g.replaced
  PROVE  AllRight(messages, k, g)
  BY DEF AllRight, Right, FieldFits

\* Rows that are read are samples that every port has.
LEMMA RowsAreRead ==
  ASSUME NEW common, NEW n \in Nat
  PROVE  LET all == Filtered([t \in 1..MaxTick |-> t], common)
             rows == SubSeq(all, 1, IF Len(all) > n THEN n ELSE Len(all))
         IN  rows \in Seq(Nat) /\ \A i \in 1..Len(rows) : rows[i] \in common
<1> DEFINE clock == [t \in 1..MaxTick |-> t]
           all == Filtered(clock, common)
           m == IF Len(all) > n THEN n ELSE Len(all)
           rows == SubSeq(all, 1, m)
<1>1. clock \in Seq(Nat)
  BY PacksAssumption
<1> HIDE DEF clock
<1>2. all \in Seq(Nat)
  BY <1>1, FilteredIs
<1>3. PICK e : Embeds(e, all, clock, common)
  BY <1>1, FilteredIs
<1> HIDE DEF all
<1>4. m \in 0..Len(all)
  BY <1>2
<1> HIDE DEF m
<1>5. rows \in Seq(Nat) /\ Len(rows) = m /\ \A i \in 1..m : rows[i] = all[i]
  BY <1>2, <1>4
<1>6. \A i \in 1..m : all[i] \in common
  BY <1>2, <1>3, <1>4 DEF Embeds
<1> HIDE DEF rows
<1>7. rows \in Seq(Nat) /\ \A i \in 1..Len(rows) : rows[i] \in common
  BY <1>4, <1>5, <1>6
<1> QED
  BY <1>7 DEF rows, m, all, clock

\* A turn of the handlers that have a reader.
LEMMA GroupProcessed ==
  ASSUME NEW k \in {"group", "groupArray"}, NEW st, Sound(st, k), Lined(st),
         live \in [Signals -> Types], ~st.error
  PROVE  LET got == ProcessGroup(st, k)
         IN  /\ Sound(got.st, k) /\ Lined(got.st) /\ got.st.ports = st.ports
             /\ AllRight(got.messages, k, got.st.handler)
             /\ got.needRevalidation => got.messages = <<>>
<1> DEFINE h == st.handler
           on == Range(h.reader)
           valid == on # {} /\ on \subseteq Range(st.ports)
           events == {s \in on : st.queue[s] # <<>> /\ IsEvent(st.queue[s][1])}
           readable == valid /\ events = {} /\ \A s \in on : st.queue[s] # <<>>
           common == IF readable
                     THEN {t \in 1..MaxTick : \A s \in on : t \in TicksOf(st.queue[s])}
                     ELSE {}
           all == Filtered([t \in 1..MaxTick |-> t], common)
           rows == SubSeq(all, 1, IF Len(all) > BuffersSize THEN BuffersSize
                                  ELSE Len(all))
           start == CHOOSE t \in {st.queue[s][1].ticks[1] : s \in on} :
                      \A s \in on : st.queue[s][1].ticks[1] <= t
           upTo == IF rows = <<>> THEN start - 1 ELSE Last(rows)
           result == IF rows = <<>> THEN [handler |-> h, messages |-> <<>>]
                     ELSE IF k = "group" THEN WriteRows(st, rows)
                     ELSE CollectRows(st, rows)
           queues == [s \in Signals |->
                        IF s \in events /\ valid THEN Tail(st.queue[s])
                        ELSE IF readable /\ s \in on THEN Beyond(st.queue[s], upTo)
                        ELSE st.queue[s]]
           r == result.handler
           first == r.firstDescriptorChange /\ (events = {} \/ ~valid)
           g == [r EXCEPT !.firstDescriptorChange = first]
           got == ProcessGroup(st, k)
           new == [st EXCEPT !.queue = queues, !.handler = g]
<1>1. /\ got.st = new /\ got.messages = result.messages
      /\ got.needRevalidation <=> \/ on # {} /\ ~valid
                                  \/ events # {} /\ ~h.firstDescriptorChange
  BY DEF ProcessGroup
<1>2. /\ st \in Blocks /\ h \in Handlers /\ st.ports \in Seq(Signals)
      /\ st.queue \in [Signals -> Seq(Entries)] /\ Good(h, k)
      /\ h.reader \in Seq(Signals) /\ on \subseteq Signals
  BY DEF Sound, Blocks, Handlers, Range
<1>3. valid => h.reader = st.ports
  <2>1. st.ports = <<>> => Range(st.ports) = {}
    BY DEF Range
  <2> QED
    BY <2>1 DEF Sound, Reads
<1>4. rows \in Seq(Nat) /\ \A i \in 1..Len(rows) : rows[i] \in common
  <2>1. BuffersSize \in Nat
    BY PacksAssumption
  <2> HIDE DEF common
  <2> QED
    BY <2>1, RowsAreRead
<1>5. rows # <<>> => readable
  <2> HIDE DEF readable, rows
  <2>1. rows # <<>> => 1 \in 1..Len(rows)
    BY <1>4
  <2> QED
    BY <2>1, <1>4
<1>6. ASSUME rows # <<>> PROVE Columns(st, rows)
  <2>1. ASSUME NEW n \in 1..Len(st.ports)
        PROVE  LET column == Column(st, st.ports[n], rows)
               IN  /\ column \in Seq(Samples({st.ports[n]}, Types))
                   /\ SameTicks(column, rows)
    <3>1. st.ports[n] \in on /\ st.ports[n] \in Signals
      <4>1. h.reader = st.ports
        BY <1>3, <1>5, <1>6
      <4> QED
        BY <1>2, <4>1 DEF Range
    <3>2. \A i \in 1..Len(rows) : rows[i] \in TicksOf(st.queue[st.ports[n]])
      <4> HIDE DEF rows, on, readable
      <4> QED
        BY <1>4, <1>5, <1>6, <3>1
    <3> HIDE DEF rows
    <3> QED
      BY <1>2, <1>4, <3>1, <3>2, ColumnIs
  <2> HIDE DEF rows
  <2> QED
    BY <2>1 DEF Columns
<1> HIDE DEF rows
<1>7. /\ r \in Handlers /\ Good(r, k) /\ r.reader = h.reader
      /\ AllRight(result.messages, k, r)
      /\ rows = <<>> => r = h /\ result.messages = <<>>
  <2>1. CASE rows = <<>>
    <3>1. r = h /\ result.messages = <<>>
      BY <2>1
    <3>2. AllRight(<<>>, k, r)
      BY DEF AllRight
    <3> HIDE DEF result, r, h
    <3> QED
      BY <1>2, <3>1, <3>2
  <2>2. CASE rows # <<>> /\ k = "group"
    <3>1. result = WriteRows(st, rows)
      BY <2>2
    <3>2. r = h
      BY <3>1 DEF WriteRows
    <3>3. AllRight(result.messages, k, h)
      BY <1>2, <1>4, <1>6, <2>2, <3>1, RowsWritten
    <3> HIDE DEF result, r, h
    <3> QED
      BY <1>2, <2>2, <3>2, <3>3
  <2>3. CASE rows # <<>> /\ k = "groupArray"
    <3>1. result = CollectRows(st, rows)
      BY <2>3
    <3>2. h.reader = st.ports
      BY <1>3, <1>5, <2>3
    <3>3. /\ result.handler \in Handlers /\ Good(result.handler, k)
          /\ result.handler.reader = st.ports
          /\ AllRight(result.messages, k, result.handler)
      BY <1>2, <1>4, <1>6, <2>3, <3>1, <3>2, RowsCollected
    <3> HIDE DEF result, h
    <3> QED
      BY <2>3, <3>2, <3>3
  <2> QED
    BY <2>1, <2>2, <2>3
<1>8. ASSUME NEW s \in Signals
      PROVE  /\ queues[s] \in Seq(Entries)
             /\ OneEach(NoBuffer, queues[s])
             /\ s \in Range(st.ports) => UpToDate(NoBuffer, queues[s], live[s])
  <2> DEFINE q == st.queue[s]
  <2>1. /\ q \in Seq(Entries) /\ OneEach(NoBuffer, q)
        /\ s \in Range(st.ports) => UpToDate(NoBuffer, q, live[s])
    <3>1. h.signalBuffers[s] = NoBuffer
      BY <1>2 DEF Good, Own
    <3> QED
      BY <1>2, <3>1 DEF Lined
  <2>2. valid /\ s \in on => Line(NoBuffer, q, live[s])
    BY <2>1 DEF Line
  <2>3. CASE s \in events /\ valid
    <3>1. queues[s] = Tail(q) /\ q # <<>> /\ s \in on
      BY <2>3
    <3>2. /\ Tail(q) \in Seq(Entries) /\ Len(Tail(q)) = Len(q) - 1
          /\ 1 \in 0..Len(q)
          /\ \A i \in 1..Len(Tail(q)) : Tail(q)[i] = q[i + 1]
      <4> DEFINE E == Entries
      <4> HIDE DEF E, q
      <4>1. q \in Seq(E)
        BY <2>1 DEF E
      <4>2. /\ Tail(q) \in Seq(E) /\ Len(Tail(q)) = Len(q) - 1
            /\ 1 \in 0..Len(q)
            /\ \A i \in 1..Len(Tail(q)) : Tail(q)[i] = q[i + 1]
        BY <3>1, <4>1
      <4> QED
        BY <4>2 DEF E
    <3> HIDE DEF q, queues, valid, on, events
    <3>3. Line(NoBuffer, q, live[s])
      BY <2>2, <2>3, <3>1
    <3>4. Line(NoBuffer, Tail(q), live[s])
      BY <2>1, <3>2, <3>3, LineOfRest
    <3> QED
      BY <3>1, <3>2, <3>4 DEF Line
  <2>4. CASE ~(s \in events /\ valid) /\ readable /\ s \in on
    <3>1. queues[s] = Beyond(q, upTo) /\ valid /\ s \in on
      BY <2>4
    <3> HIDE DEF q, queues, valid, on, events, upTo, readable
    <3>2. Line(NoBuffer, q, live[s])
      BY <2>2, <3>1
    <3>3. Beyond(q, upTo) \in Seq(Entries) /\ Line(NoBuffer, Beyond(q, upTo), live[s])
      BY <2>1, <3>2, BeyondIs
    <3> QED
      BY <3>1, <3>3 DEF Line
  <2>5. CASE ~(s \in events /\ valid) /\ ~(readable /\ s \in on)
    <3>1. queues[s] = q
      BY <2>5
    <3> QED
      BY <2>1, <3>1
  <2> QED
    BY <2>3, <2>4, <2>5
<1>9. queues \in [Signals -> Seq(Entries)]
  <2> DEFINE E == Seq(Entries)
  <2> HIDE DEF E
  <2>1. \A s \in Signals : queues[s] \in E
    BY <1>8 DEF E
  <2> QED
    BY <2>1 DEF E
<1> HIDE DEF queues, result, r
<1>10. first \in BOOLEAN
  BY <1>7 DEF Handlers
<1> HIDE DEF first
<1>11. g \in Handlers
  BY <1>7, <1>10 DEF Handlers
<1>12. /\ g.dataBuilders = r.dataBuilders /\ g.tsBuilder = r.tsBuilder
       /\ g.reader = r.reader /\ g.signalBuffers = r.signalBuffers
       /\ g.skewed = r.skewed /\ g.replaced = r.replaced
  BY <1>7 DEF Handlers
<1> HIDE DEF g
<1>13. /\ new \in Blocks /\ new.handler = g /\ new.queue = queues
       /\ new.ports = st.ports /\ new.error = st.error
  BY <1>2, <1>9, <1>11 DEF Blocks
<1> HIDE DEF new
<1>14. Good(g, k)
  BY <1>7, <1>12 DEF Good, Less, Together, Owned, Own
<1>15. Noticed(new)
  <2>1. CASE rows = <<>>
    <3>1. g.replaced = h.replaced /\ g.reader = h.reader
          /\ g.dataBuilders = h.dataBuilders
      BY <1>7, <1>12, <2>1
    <3>2. Noticed(st)
      BY DEF Sound
    <3> QED
      BY <1>13, <3>1, <3>2 DEF Noticed, NothingBegun
  <2>2. CASE rows # <<>>
    <3>1. h.reader = st.ports
      BY <1>3, <1>5, <2>2
    <3> QED
      BY <1>7, <1>12, <1>13, <3>1 DEF Noticed
  <2> QED
    BY <2>1, <2>2
<1>16. Reads(new, k)
  <2>1. Reads(st, k)
    BY DEF Sound
  <2> QED
    BY <1>7, <1>12, <1>13, <2>1 DEF Reads
<1>17. Sound(new, k)
  BY <1>13, <1>14, <1>15, <1>16 DEF Sound
<1>18. Lined(new)
  <2>1. \A s \in Signals : g.signalBuffers[s] = NoBuffer
    BY <1>14 DEF Good, Own
  <2> QED
    BY <1>8, <1>13, <2>1 DEF Lined
<1>19. AllRight(result.messages, k, g)
  BY <1>7, <1>12, RightStays
<1>20. got.needRevalidation => result.messages = <<>>
  <2>1. got.needRevalidation => ~readable
    BY <1>1
  <2> HIDE DEF readable, got
  <2> QED
    BY <1>5, <1>7, <2>1
<1> QED
  BY <1>1, <1>13, <1>17, <1>18, <1>19, <1>20

-----------------------------------------------------------------------------
(* Events and packets that come to a line. *)

\* An event in front of a queue parts it from the buffer.
LEMMA EventFirst ==
  ASSUME NEW b, NEW q \in Seq(Entries), OneEach(b, q)
  PROVE  /\ OneEach(b, <<Event>> \o q)
         /\ \A t : UpToDate(b, q, t) => UpToDate(b, <<Event>> \o q, t)
<1> DEFINE E == Entries
           new == <<Event>> \o q
<1> HIDE DEF E
<1>1. Event \in E /\ q \in Seq(E) /\ IsEvent(Event)
  BY DEF E, Entries, IsEvent, Event
<1> DEFINE v == Event
<1> HIDE DEF v
<1>2. <<v>> \in Seq(E) /\ <<v>>[1] = v /\ Len(<<v>>) = 1
  BY <1>1 DEF v
<1>3. /\ <<v>> \o q \in Seq(E) /\ Len(<<v>> \o q) = Len(q) + 1
      /\ (<<v>> \o q)[1] = v
      /\ \A i \in 1..Len(q) : (<<v>> \o q)[i + 1] = q[i]
  BY <1>1, <1>2
<1>4. /\ Len(new) = Len(q) + 1 /\ IsEvent(new[1]) /\ Len(q) \in Nat
      /\ \A i \in 1..Len(q) : new[i + 1] = q[i]
  BY <1>1, <1>3 DEF v
<1> HIDE DEF new
<1>5. ASSUME NEW i \in 1..Len(q), NEW j \in 1..Len(q), EventIn(q, i, j)
      PROVE  EventIn(new, i + 1, j + 1)
  <2>1. PICK e \in i..j : IsEvent(q[e])
    BY <1>5 DEF EventIn
  <2>2. e + 1 \in (i + 1)..(j + 1) /\ new[e + 1] = q[e]
    BY <1>4
  <2> QED
    BY <2>1, <2>2 DEF EventIn
<1>6. \A j \in 1..Len(new) : EventIn(new, 1, j)
  BY <1>4 DEF EventIn
<1>7. ASSUME NEW i \in 1..Len(new), NEW j \in 1..Len(new), i < j
      PROVE  new[i].type = new[j].type \/ EventIn(new, i, j)
  <2>1. CASE i = 1
    BY <1>6, <2>1
  <2>2. CASE i # 1
    <3>1. i - 1 \in 1..Len(q) /\ j - 1 \in 1..Len(q) /\ i - 1 < j - 1
      BY <1>4, <1>7, <2>2
    <3>2. q[i - 1].type = q[j - 1].type \/ EventIn(q, i - 1, j - 1)
      BY <3>1 DEF OneEach
    <3>3. new[i] = q[i - 1] /\ new[j] = q[j - 1]
      BY <1>4, <3>1
    <3>4. EventIn(q, i - 1, j - 1) => EventIn(new, i, j)
      BY <1>5, <3>1
    <3> QED
      BY <3>2, <3>3, <3>4
  <2> QED
    BY <2>1, <2>2
<1>8. OneEach(b, new)
  BY <1>6, <1>7 DEF OneEach
<1>9. ASSUME NEW t, UpToDate(b, q, t) PROVE UpToDate(b, new, t)
  <2>1. ASSUME NEW i \in 1..Len(new)
        PROVE  new[i].type = t \/ EventIn(new, i, Len(new))
    <3>1. CASE i = 1
      BY <1>4, <1>6, <3>1
    <3>2. CASE i # 1
      <4>1. i - 1 \in 1..Len(q) /\ Len(q) \in 1..Len(q)
        BY <1>4, <3>2
      <4>2. q[i - 1].type = t \/ EventIn(q, i - 1, Len(q))
        BY <1>9, <4>1 DEF UpToDate
      <4>3. new[i] = q[i - 1]
        BY <1>4, <4>1
      <4>4. EventIn(q, i - 1, Len(q)) => EventIn(new, i, Len(new))
        BY <1>4, <1>5, <4>1
      <4> QED
        BY <4>2, <4>3, <4>4
    <3> QED
      BY <3>1, <3>2
  <2>2. EventIn(new, 1, Len(new))
    BY <1>4, <1>6
  <2> QED
    BY <2>1, <2>2 DEF UpToDate
<1> QED
  BY <1>8, <1>9 DEF new

\* Something comes to the end: an event, or a packet of the present type.
LEMMA EntryLast ==
  ASSUME NEW b, NEW q \in Seq(Entries), OneEach(b, q), NEW p \in Entries, NEW t,
         IsEvent(p) \/ (p.type = t /\ UpToDate(b, q, t))
  PROVE  Line(b, Append(q, p), t)
<1> DEFINE E == Entries
           new == Append(q, p)
           n == Len(q) + 1
<1> HIDE DEF E
<1>1. q \in Seq(E) /\ p \in E
  BY DEF E
<1>2. /\ Len(new) = n /\ new[n] = p /\ Len(q) \in Nat
      /\ \A i \in 1..Len(q) : new[i] = q[i]
  BY <1>1
<1> HIDE DEF new
<1>3. ASSUME NEW i \in 1..Len(q), NEW j \in 1..Len(q), EventIn(q, i, j)
      PROVE  EventIn(new, i, j) /\ EventIn(new, i, n)
  <2>1. PICK e \in i..j : IsEvent(q[e])
    BY <1>3 DEF EventIn
  <2>2. e \in 1..Len(q) /\ e \in i..n /\ new[e] = q[e]
    BY <1>2
  <2> QED
    BY <2>1, <2>2 DEF EventIn
<1>4. IsEvent(p) => \A i \in 1..n : EventIn(new, i, n)
  BY <1>2 DEF EventIn
<1>5. ASSUME NEW i \in 1..n PROVE new[i].type = t \/ EventIn(new, i, n)
  <2>1. CASE IsEvent(p)
    BY <1>4, <2>1
  <2>2. CASE i = n
    BY <1>2, <1>4, <2>2
  <2>3. CASE ~IsEvent(p) /\ i # n
    <3>1. i \in 1..Len(q) /\ Len(q) \in 1..Len(q)
      BY <1>2, <2>3
    <3>2. q[i].type = t \/ EventIn(q, i, Len(q))
      BY <2>3, <3>1 DEF UpToDate
    <3> QED
      BY <1>2, <1>3, <3>1, <3>2
  <2> QED
    BY <2>1, <2>2, <2>3
<1>6. ASSUME NEW i \in 1..Len(b.data)
      PROVE  b.data[i].type = t \/ EventIn(new, 1, n)
  <2>1. CASE IsEvent(p)
    BY <1>2, <1>4, <2>1
  <2>2. CASE ~IsEvent(p)
    <3>1. b.data[i].type = t \/ EventIn(q, 1, Len(q))
      BY <2>2 DEF UpToDate
    <3>2. EventIn(q, 1, Len(q)) => 1 \in 1..Len(q) /\ Len(q) \in 1..Len(q)
      BY <1>2 DEF EventIn
    <3> QED
      BY <1>3, <3>1, <3>2
  <2> QED
    BY <2>1, <2>2
<1>7. UpToDate(b, new, t)
  BY <1>2, <1>5, <1>6 DEF UpToDate
<1>8. ASSUME NEW i \in 1..n, NEW j \in 1..n, i < j
      PROVE  new[i].type = new[j].type \/ EventIn(new, i, j)
  <2>1. CASE j = n
    <3>1. IsEvent(p) => EventIn(new, i, j)
      BY <1>4, <2>1
    <3>2. ~IsEvent(p) => new[j].type = t
      BY <1>2, <2>1
    <3> QED
      BY <1>5, <2>1, <3>1, <3>2
  <2>2. CASE j # n
    <3>1. i \in 1..Len(q) /\ j \in 1..Len(q)
      BY <1>2, <1>8, <2>2
    <3>2. q[i].type = q[j].type \/ EventIn(q, i, j)
      BY <1>8, <3>1 DEF OneEach
    <3> QED
      BY <1>2, <1>3, <3>1, <3>2
  <2> QED
    BY <2>1, <2>2
<1>9. ASSUME NEW i \in 1..Len(b.data), NEW j \in 1..n
      PROVE  b.data[i].type = new[j].type \/ EventIn(new, 1, j)
  <2>1. CASE j = n
    <3>1. IsEvent(p) => EventIn(new, 1, j)
      BY <1>2, <1>4, <2>1
    <3>2. ~IsEvent(p) => new[j].type = t
      BY <1>2, <2>1
    <3> QED
      BY <1>6, <2>1, <3>1, <3>2
  <2>2. CASE j # n
    <3>1. j \in 1..Len(q) /\ 1 \in 1..Len(q)
      BY <1>2, <2>2
    <3>2. b.data[i].type = q[j].type \/ EventIn(q, 1, j)
      BY <3>1 DEF OneEach
    <3> QED
      BY <1>2, <1>3, <3>1, <3>2
  <2> QED
    BY <2>1, <2>2
<1>10. OneEach(b, new)
  BY <1>2, <1>8, <1>9 DEF OneEach
<1> QED
  BY <1>7, <1>10 DEF Line, new

\* A queue that is empty, or begins anew with an event.
LEMMA LineBegins ==
  ASSUME NEW b, NEW q \in Seq(Entries), OneEach(b, q), NEW t
  PROVE  OneEach(b, <<>>) /\ Line(b, <<Event>>, t)
<1>1. OneEach(b, <<>>)
  BY DEF OneEach
<1>2. Event \in Entries /\ <<>> \in Seq(Entries) /\ IsEvent(Event)
  BY DEF Entries, Event, IsEvent
<1>3. Append(<<>>, Event) = <<Event>>
  OBVIOUS
<1>4. Line(b, Append(<<>>, Event), t)
  BY <1>1, <1>2, EntryLast
<1> QED
  BY <1>1, <1>3, <1>4

\* validateInputPorts keeps the lines.
LEMMA LinesValidated ==
  ASSUME NEW k, NEW st \in Blocks, Lined(st)
  PROVE  Lined(validateInputPorts(st, k))
<1>1. ASSUME NEW x \in Blocks, Lined(x) PROVE Lined(createReader(x))
  <2> DEFINE q == [s \in Signals |-> IF s \in Range(x.ports)
                                     THEN <<Event>> \o x.queue[s] ELSE x.queue[s]]
  <2>1. /\ createReader(x).handler.signalBuffers = x.handler.signalBuffers
        /\ createReader(x).ports = x.ports
    BY <1>1, CreatedReader
  <2>2. createReader(x).queue = q
    BY <1>1 DEF createReader, Blocks
  <2>3. ASSUME NEW s \in Signals
        PROVE  /\ OneEach(x.handler.signalBuffers[s], q[s])
               /\ s \in Range(x.ports) =>
                    UpToDate(x.handler.signalBuffers[s], q[s], live[s])
    <3>1. x.queue[s] \in Seq(Entries)
      BY <1>1 DEF Blocks
    <3>2. /\ OneEach(x.handler.signalBuffers[s], x.queue[s])
          /\ s \in Range(x.ports) =>
               UpToDate(x.handler.signalBuffers[s], x.queue[s], live[s])
      BY <1>1 DEF Lined
    <3> DEFINE b == x.handler.signalBuffers[s]
               old == x.queue[s]
    <3> HIDE DEF b, old
    <3>3. /\ OneEach(b, <<Event>> \o old)
          /\ UpToDate(b, old, live[s]) => UpToDate(b, <<Event>> \o old, live[s])
      BY <3>1, <3>2, EventFirst DEF b, old
    <3>4. q[s] = IF s \in Range(x.ports) THEN <<Event>> \o old ELSE old
      BY DEF old
    <3> HIDE DEF q
    <3> QED
      BY <3>2, <3>3, <3>4 DEF b, old
  <2> HIDE DEF q
  <2> QED
    BY <2>1, <2>2, <2>3 DEF Lined
<1>2. ASSUME NEW x, Lined(x), NEW y, y.ports = x.ports,
             y.queue = x.queue,
             \A s \in Signals :
               \/ y.handler.signalBuffers[s] = NoBuffer
               \/ y.handler.signalBuffers[s] = x.handler.signalBuffers[s]
      PROVE  Lined(y)
  <2>1. ASSUME NEW s \in Signals
        PROVE  /\ OneEach(NoBuffer, x.queue[s])
               /\ s \in Range(x.ports) => UpToDate(NoBuffer, x.queue[s], live[s])
               /\ OneEach(x.handler.signalBuffers[s], x.queue[s])
               /\ s \in Range(x.ports) =>
                    UpToDate(x.handler.signalBuffers[s], x.queue[s], live[s])
    BY <1>2 DEF Lined, OneEach, UpToDate, NoBuffer
  <2>2. ASSUME NEW s \in Signals
        PROVE  /\ OneEach(y.handler.signalBuffers[s], y.queue[s])
               /\ s \in Range(y.ports) =>
                    UpToDate(y.handler.signalBuffers[s], y.queue[s], live[s])
    <3>1. CASE y.handler.signalBuffers[s] = NoBuffer
      BY <1>2, <2>1, <3>1
    <3>2. CASE y.handler.signalBuffers[s] = x.handler.signalBuffers[s]
      BY <1>2, <2>1, <3>2
    <3> QED
      BY <1>2, <3>1, <3>2
  <2> QED
    BY <2>2 DEF Lined
<1> DEFINE ok == \A s \in Range(st.ports) : live[s] \in Supported
           told == st.ports # <<>> /\ ok
           cleared == [st EXCEPT !.error = FALSE]
           new == validateInputPorts(st, k)
<1>3. /\ cleared \in Blocks /\ cleared.ports = st.ports
      /\ cleared.queue = st.queue /\ cleared.handler = st.handler
      /\ cleared.handler \in Handlers
  BY DEF Blocks
<1> HIDE DEF cleared
<1>4. Lined(cleared)
  BY <1>3 DEF Lined
<1>5. CASE ~told
  <2> DEFINE changed == st.ports # st.handler.reader
             waiting == \E b \in Range(st.handler.dataBuilders) : b # NoBuilder
             r == st.handler.replaced \/ (changed /\ waiting)
             h == [st.handler EXCEPT !.replaced = r]
  <2>1. new = [st EXCEPT !.error = ~ok, !.handler = h]
    BY <1>5 DEF validateInputPorts
  <2> HIDE DEF r
  <2>2. h.signalBuffers = st.handler.signalBuffers
    BY DEF Blocks, Handlers
  <2> HIDE DEF h, new
  <2>3. new.ports = st.ports /\ new.queue = st.queue /\ new.handler = h
    BY <2>1 DEF Blocks
  <2> QED
    BY <1>2, <2>2, <2>3 DEF new
<1>6. CASE told
  <2>1. new = signalListChanged(cleared, k)
    BY <1>6 DEF validateInputPorts, cleared
  <2>2. CASE k = "each"
    BY <1>4, <2>1, <2>2 DEF signalListChanged
  <2>3. CASE k = "array"
    <3> DEFINE none == [s \in Signals |-> NoBuffer]
               h == [cleared.handler EXCEPT !.signalBuffers = none]
    <3>1. new = [cleared EXCEPT !.handler = h]
      BY <2>1, <2>3 DEF signalListChanged
    <3>2. h.signalBuffers = none
      BY <1>3 DEF Handlers
    <3> HIDE DEF h, new
    <3>3. new.ports = cleared.ports /\ new.queue = cleared.queue /\ new.handler = h
      BY <1>3, <3>1 DEF Blocks
    <3>4. \A s \in Signals : new.handler.signalBuffers[s] = NoBuffer
      BY <3>2, <3>3
    <3>5. Lined(new)
      BY <1>2, <1>4, <3>3, <3>4
    <3> QED
      BY <3>5 DEF new
  <2> DEFINE made == createReader(cleared)
  <2>4. /\ Lined(made) /\ made \in Blocks /\ made.handler \in Handlers
        /\ made.ports = cleared.ports
    BY <1>1, <1>3, <1>4, CreatedReader DEF Blocks
  <2> HIDE DEF made
  <2>5. CASE k = "group"
    BY <2>1, <2>4, <2>5 DEF signalListChanged, made
  <2>6. CASE k \notin {"each", "array", "group"}
    <3> DEFINE h == initBuilders(made.handler, Len(cleared.ports))
    <3>1. new = [made EXCEPT !.handler = h]
      BY <2>1, <2>6 DEF signalListChanged, made
    <3>2. h.signalBuffers = made.handler.signalBuffers
      BY <2>4 DEF initBuilders, Handlers
    <3> HIDE DEF h, new
    <3>3. new.ports = made.ports /\ new.queue = made.queue /\ new.handler = h
      BY <2>4, <3>1 DEF Blocks
    <3>4. Lined(new)
      BY <1>2, <2>4, <3>2, <3>3
    <3> QED
      BY <3>4 DEF new
  <2> QED
    BY <2>2, <2>3, <2>5, <2>6
<1> QED
  BY <1>5, <1>6

-----------------------------------------------------------------------------
(* What always holds, and that every step keeps it. *)

\* The inductive invariant.
PacksInv ==
  /\ live \in [Signals -> Types] /\ kind \in Kinds
  /\ tick \in Nat
  /\ Sound(Now, kind)
  /\ Lined(Now)
  /\ AllRight(sent, kind, handler)

\* The record of the block, taken apart again.
LEMMA NowIs ==
  ASSUME NEW st \in Blocks, Become(st)
  PROVE  Now' = st
<1>1. st = [error |-> st.error, ports |-> st.ports, handler |-> st.handler,
            queue |-> st.queue]
  BY DEF Blocks
<1> QED
  BY <1>1 DEF Now, Become

\* The four kinds.
LEMMA KindsAre ==
  ASSUME NEW k \in Kinds
  PROVE  k \in {"each", "array", "group", "groupArray"}
  BY PacksAssumption

\* A callback: ports, queues or the handler changed, and then validation.
LEMMA CallbackKeepsInv ==
  ASSUME NEW k \in Kinds, NEW st, Ready(st, k), Lined(st),
         Become(validateInputPorts(st, k)), kind' = k, sent' = <<>>,
         live \in [Signals -> Types], live' = live, tick \in Nat, tick' = tick
  PROVE  PacksInv'
<1> DEFINE new == validateInputPorts(st, k)
<1>1. Sound(new, k)
  BY KindsAre, Validated
<1>2. Lined(new)
  BY LinesValidated DEF Ready
<1> HIDE DEF new
<1>3. Now' = new
  BY <1>1, NowIs DEF Sound, new
<1>4. Sound(Now, kind)'
  BY <1>1, <1>3
<1>5. Lined(Now)'
  BY <1>2, <1>3 DEF Lined
<1>6. AllRight(sent, kind, handler)'
  BY DEF AllRight
<1> QED
  BY <1>4, <1>5, <1>6 DEF PacksInv

\* A handler that is new.
LEMMA HandlerMade ==
  ASSUME NEW k
  PROVE  /\ NewHandler \in Handlers /\ Good(NewHandler, k)
         /\ NothingBegun(NewHandler)
         /\ \A s \in Signals : NewHandler.signalBuffers[s] = NoBuffer
<1> DEFINE buffers == [s \in Signals |-> NoBuffer]
<1>1. NoBuffer \in Buffers(Types) /\ NoBuffer.dataSize < PackSize
  BY PacksAssumption, TotalOfNone DEF NoBuffer, Buffers, Fits
<1>2. NoBuilder \in Builders(Nat) /\ NoBuilder.values = <<>>
  BY NoneBuilt DEF NoBuilder
<1>3. /\ buffers \in [Signals -> Buffers(Types)]
      /\ \A s \in Signals : buffers[s] = NoBuffer
  BY <1>1
<1> HIDE DEF buffers
<1>4. NewHandler = [reader |-> <<>>, firstDescriptorChange |-> TRUE,
                    signalBuffers |-> buffers, dataBuilders |-> <<>>,
                    tsBuilder |-> NoBuilder, skewed |-> FALSE, replaced |-> FALSE]
  BY DEF NewHandler, buffers
<1> DEFINE B == Builders(Samples(Signals, Types))
<1> HIDE DEF B
<1>5. <<>> \in Seq(Signals) /\ <<>> \in Seq(B) /\ Len(<<>>) = 0
  OBVIOUS
<1>6. NewHandler \in Handlers
  BY <1>2, <1>3, <1>4, <1>5 DEF Handlers, B
<1> DEFINE h == NewHandler
<1>7. /\ h.reader = <<>> /\ h.signalBuffers = buffers /\ h.dataBuilders = <<>>
      /\ h.tsBuilder = NoBuilder
  BY <1>4
<1> HIDE DEF h
<1>8. Less(h) /\ Together(h) /\ Owned(h) /\ NothingBegun(h)
  BY <1>1, <1>2, <1>3, <1>5, <1>7 DEF Less, Together, Owned, NothingBegun
<1>9. Own(h, k)
  BY <1>3, <1>5, <1>7 DEF Own
<1> QED
  BY <1>3, <1>6, <1>7, <1>8, <1>9 DEF Good, h

\* The ports are some others, of another number: something may be told or not.
LEMMA PortsOthers ==
  ASSUME NEW k \in Kinds, NEW st, Sound(st, k), NEW new \in Blocks,
         new.handler = st.handler, Len(new.ports) # Len(st.ports)
  PROVE  Ready(new, k)
<1>1. CASE NothingBegun(st.handler) \/ st.handler.replaced
  BY <1>1 DEF Sound, Ready, Noticed
<1>2. CASE st.handler.reader = st.ports /\ k = "groupArray"
  BY <1>2 DEF Sound, Ready, Good, Own
<1>3. CASE k # "groupArray"
  <2>1. NothingBegun(st.handler)
    BY <1>3 DEF Sound, Good, Own, NothingBegun
  <2> QED
    BY <1>1, <2>1
<1> QED
  BY <1>1, <1>2, <1>3 DEF Sound, Noticed

\* Nothing is there yet.
LEMMA InitSatisfiesInv == Init => PacksInv
<1> SUFFICES ASSUME Init PROVE PacksInv
  OBVIOUS
<1>1. /\ NewHandler \in Handlers /\ Good(NewHandler, kind)
      /\ NothingBegun(NewHandler)
      /\ \A s \in Signals : NewHandler.signalBuffers[s] = NoBuffer
  BY HandlerMade
<1> DEFINE q == [s \in Signals |-> <<>>]
           E == Entries
<1> HIDE DEF E
<1>2. <<>> \in Seq(Signals) /\ q \in [Signals -> Seq(E)]
  OBVIOUS
<1>3. Now = [error |-> FALSE, ports |-> <<>>, handler |-> NewHandler, queue |-> q]
  BY DEF Init, Now
<1>4. Now \in Blocks
  BY <1>1, <1>2, <1>3 DEF Blocks, E
<1>5. Sound(Now, kind)
  BY <1>1, <1>3, <1>4 DEF Sound, Noticed, Reads
<1>6. Lined(Now)
  <2>1. \A s \in Signals : /\ Now.handler.signalBuffers[s] = NoBuffer
                           /\ Now.queue[s] = <<>>
    BY <1>1, <1>3
  <2>2. OneEach(NoBuffer, <<>>) /\ \A t : UpToDate(NoBuffer, <<>>, t)
    BY DEF OneEach, UpToDate, NoBuffer
  <2> QED
    BY <2>1, <2>2 DEF Lined
<1>7. AllRight(sent, kind, handler)
  BY DEF Init, AllRight
<1> QED
  BY <1>5, <1>6, <1>7 DEF PacksInv, Init

\* Queues grow at their ends.
LEMMA QueuesKeepInv ==
  ASSUME PacksInv, queue' \in [Signals -> Seq(Entries)],
         live' \in [Signals -> Types], tick' \in Nat,
         UNCHANGED <<ports, kind, handler, hasSignalError>>, sent' = <<>>,
         \A s \in Signals :
           /\ OneEach(handler.signalBuffers[s], queue'[s])
           /\ s \in Range(ports) =>
                UpToDate(handler.signalBuffers[s], queue'[s], live'[s])
  PROVE  PacksInv'
<1>1. Now' = [error |-> hasSignalError, ports |-> ports, handler |-> handler,
              queue |-> queue']
  BY DEF Now
<1>2. /\ hasSignalError \in BOOLEAN /\ ports \in Seq(Signals) /\ handler \in Handlers
      /\ Sound(Now, kind)
  BY DEF PacksInv, Sound, Blocks, Now
<1>3. Now' \in Blocks
  BY <1>1, <1>2 DEF Blocks
<1>4. /\ Now'.handler = Now.handler /\ Now'.ports = Now.ports
      /\ Now'.error = Now.error
  BY <1>1 DEF Now
<1>5. Sound(Now, kind)'
  BY <1>2, <1>3, <1>4 DEF Sound, Noticed, Reads
<1>6. Lined(Now)'
  BY <1>1 DEF Lined
<1>7. AllRight(sent, kind, handler)'
  BY DEF AllRight
<1> QED
  BY <1>5, <1>6, <1>7 DEF PacksInv

\* The connected signals send packets.
LEMMA SendPacketsKeepsInv ==
  ASSUME PacksInv, NEW n \in 1..2, SendPackets(n)
  PROVE  PacksInv'
<1> DEFINE ticks == [i \in 1..n |-> tick + i]
           packet(s) == [type |-> live[s], ticks |-> ticks]
<1>1. /\ Now \in Blocks /\ Lined(Now) /\ live \in [Signals -> Types] /\ tick \in Nat
      /\ queue \in [Signals -> Seq(Entries)]
  BY DEF PacksInv, Sound, Blocks, Now
<1>2. ticks \in Seq(Nat) /\ ticks # <<>>
  <2>1. \A i \in 1..n : tick + i \in Nat
    BY <1>1
  <2>2. ticks \in Seq(Nat) /\ Len(ticks) = n
    BY <2>1
  <2> QED
    BY <2>2
<1>3. queue' = [s \in Signals |-> IF s \notin Range(ports) THEN queue[s]
                                  ELSE Append(queue[s], packet(s))]
  BY DEF SendPackets
<1> HIDE DEF ticks
<1>4. ASSUME NEW s \in Signals
      PROVE  packet(s) \in Entries /\ packet(s).type = live[s]
  <2>1. live[s] \in Types
    BY <1>1
  <2> QED
    BY <1>2, <2>1 DEF Entries, Packets
<1> HIDE DEF packet
<1>5. ASSUME NEW s \in Signals
      PROVE  /\ queue'[s] \in Seq(Entries)
             /\ OneEach(handler.signalBuffers[s], queue'[s])
             /\ s \in Range(ports) =>
                  UpToDate(handler.signalBuffers[s], queue'[s], live'[s])
  <2> DEFINE q == queue[s]
             p == packet(s)
             b == handler.signalBuffers[s]
  <2>1. /\ q \in Seq(Entries) /\ OneEach(b, q)
        /\ s \in Range(ports) => UpToDate(b, q, live[s])
    BY <1>1 DEF Lined, Now
  <2>2. live' = live /\ p \in Entries /\ p.type = live[s]
    BY <1>4 DEF SendPackets
  <2>3. queue'[s] = IF s \notin Range(ports) THEN q ELSE Append(q, p)
    BY <1>3
  <2>4. Append(q, p) \in Seq(Entries)
    <3> DEFINE E == Entries
    <3> HIDE DEF E, q, p
    <3>1. q \in Seq(E) /\ p \in E
      BY <2>1, <2>2 DEF E
    <3>2. Append(q, p) \in Seq(E)
      BY <3>1
    <3> QED
      BY <3>2 DEF E
  <2> HIDE DEF q, p, b
  <2>5. s \in Range(ports) => Line(b, Append(q, p), live[s])
    BY <2>1, <2>2, EntryLast
  <2>6. CASE s \in Range(ports)
    BY <2>2, <2>3, <2>4, <2>5, <2>6 DEF Line, b
  <2>7. CASE s \notin Range(ports)
    BY <2>1, <2>3, <2>7 DEF b
  <2> QED
    BY <2>6, <2>7
<1>6. queue' \in [Signals -> Seq(Entries)]
  <2> DEFINE E == Seq(Entries)
  <2> HIDE DEF E
  <2>1. \A s \in Signals : queue'[s] \in E
    BY <1>5 DEF E
  <2>2. queue' = [s \in Signals |-> queue'[s]]
    BY <1>3
  <2>3. queue' \in [Signals -> E]
    BY <2>1, <2>2
  <2> QED
    BY <2>3 DEF E
<1>7. tick' \in Nat
  BY <1>1 DEF SendPackets
<1> QED
  BY <1>1, <1>5, <1>6, <1>7, QueuesKeepInv DEF SendPackets, Quiet

\* A descriptor changes: an event parts what was from what comes.
LEMMA ChangeDescriptorKeepsInv ==
  ASSUME PacksInv, NEW s \in Signals, NEW t \in Types, ChangeDescriptor(s, t)
  PROVE  PacksInv'
<1>1. /\ Now \in Blocks /\ Lined(Now) /\ live \in [Signals -> Types] /\ tick \in Nat
      /\ queue \in [Signals -> Seq(Entries)]
  BY DEF PacksInv, Sound, Blocks, Now
<1>2. live' = [live EXCEPT ![s] = t] /\ live' \in [Signals -> Types]
  BY <1>1 DEF ChangeDescriptor
<1>3. Event \in Entries /\ IsEvent(Event)
  BY DEF Entries, IsEvent, Event
<1> DEFINE changed == Append(queue[s], Event)
<1>4. changed \in Seq(Entries) /\ Line(handler.signalBuffers[s], changed, t)
  <2> DEFINE q == queue[s]
             b == handler.signalBuffers[s]
             E == Entries
             v == Event
  <2>1. q \in Seq(Entries) /\ OneEach(b, q)
    BY <1>1 DEF Lined, Now
  <2> HIDE DEF q, b
  <2>2. Line(b, Append(q, Event), t)
    BY <1>3, <2>1, EntryLast
  <2> HIDE DEF E, v
  <2>3. q \in Seq(E) /\ v \in E
    BY <1>3, <2>1 DEF E, v
  <2>4. Append(q, v) \in Seq(E)
    BY <2>3
  <2> QED
    BY <2>2, <2>4 DEF E, v, q, b
<1>5. queue' = IF s \in Range(ports) THEN [queue EXCEPT ![s] = changed] ELSE queue
  BY DEF ChangeDescriptor
<1> HIDE DEF changed
<1>6. queue' \in [Signals -> Seq(Entries)]
  BY <1>1, <1>4, <1>5
<1>7. ASSUME NEW r \in Signals
      PROVE  /\ OneEach(handler.signalBuffers[r], queue'[r])
             /\ r \in Range(ports) =>
                  UpToDate(handler.signalBuffers[r], queue'[r], live'[r])
  <2>1. /\ OneEach(handler.signalBuffers[r], queue[r])
        /\ r \in Range(ports) =>
             UpToDate(handler.signalBuffers[r], queue[r], live[r])
    BY <1>1 DEF Lined, Now
  <2>2. CASE r = s /\ s \in Range(ports)
    <3>1. queue'[r] = changed /\ live'[r] = t
      BY <1>1, <1>2, <1>5, <2>2
    <3> QED
      BY <1>4, <2>2, <3>1 DEF Line
  <2>3. CASE r # s
    <3>1. queue'[r] = queue[r] /\ live'[r] = live[r]
      BY <1>1, <1>2, <1>5, <2>3
    <3> QED
      BY <2>1, <3>1
  <2>4. CASE r = s /\ s \notin Range(ports)
    BY <1>5, <2>1, <2>4
  <2> QED
    BY <2>2, <2>3, <2>4
<1> QED
  BY <1>1, <1>2, <1>6, <1>7, QueuesKeepInv DEF ChangeDescriptor, Quiet

\* What the ports are when a signal is connected.
LEMMA ConnectedIs ==
  ASSUME PacksInv, NEW s \in Signals, Connect(s)
  PROVE  \E st : /\ Ready(st, kind) /\ Become(validateInputPorts(st, kind))
                 /\ st.handler = handler /\ st.ports = Append(ports, s)
                 /\ Range(st.ports) = Range(ports) \cup {s}
                 /\ st.queue[s] = <<Event>>
                 /\ \A r \in Signals : r # s => st.queue[r] = queue[r]
<1> DEFINE more == Append(ports, s)
           q == [queue EXCEPT ![s] = <<Event>>]
           st == [Now EXCEPT !.ports = more, !.queue = q]
<1>1. /\ Now \in Blocks /\ Sound(Now, kind) /\ kind \in Kinds
      /\ ports \in Seq(Signals) /\ queue \in [Signals -> Seq(Entries)]
  BY DEF PacksInv, Sound, Blocks, Now
<1>2. more \in Seq(Signals) /\ Len(more) # Len(ports)
      /\ Range(more) = Range(ports) \cup {s}
  <2>1. /\ more \in Seq(Signals) /\ Len(more) = Len(ports) + 1
        /\ DOMAIN more = 1..Len(ports) + 1 /\ DOMAIN ports = 1..Len(ports)
        /\ more[Len(ports) + 1] = s
        /\ \A i \in 1..Len(ports) : more[i] = ports[i]
    BY <1>1
  <2> HIDE DEF more
  <2> DEFINE n == Len(ports)
  <2>0. n \in Nat
    BY <1>1
  <2> HIDE DEF n
  <2>2. ASSUME NEW x PROVE x \in Range(more) <=> x \in Range(ports) \/ x = s
    <3>1. x \in Range(more) <=> \E i \in 1..n + 1 : x = more[i]
      BY <2>1 DEF Range, n
    <3>2. x \in Range(ports) <=> \E i \in 1..n : x = ports[i]
      BY <2>1 DEF Range, n
    <3>3. \A i : i \in 1..n + 1 <=> i \in 1..n \/ i = n + 1
      BY <2>0
    <3> QED
      BY <2>1, <3>1, <3>2, <3>3 DEF n
  <2>3. Range(more) = Range(ports) \cup {s}
    BY <2>2
  <2>4. Len(more) # Len(ports)
    <3>1. Len(more) = n + 1
      BY <2>1 DEF n
    <3> HIDE DEF more
    <3>2. n + 1 # n
      BY <2>0
    <3> QED
      BY <3>1, <3>2 DEF n
  <2> QED
    BY <2>1, <2>3, <2>4
<1>3. q \in [Signals -> Seq(Entries)]
  <2> DEFINE E == Entries
             v == Event
  <2>1. v \in E
    BY DEF Entries
  <2> HIDE DEF E, v
  <2>2. <<v>> \in Seq(E)
    BY <2>1
  <2>3. <<Event>> \in Seq(Entries)
    BY <2>2 DEF E, v
  <2> QED
    BY <1>1, <2>3
<1>4. q[s] = <<Event>> /\ \A r \in Signals : r # s => q[r] = queue[r]
  BY <1>1
<1>5. [Now EXCEPT !.ports = Append(@, s), !.queue[s] = <<Event>>] = st
  BY DEF Now
<1> HIDE DEF more, q
<1>6. st \in Blocks /\ st.ports = more /\ st.queue = q /\ st.handler = handler
  BY <1>1, <1>2, <1>3 DEF Blocks, Now
<1>7. Become(validateInputPorts(st, kind))
  BY <1>5 DEF Connect
<1> HIDE DEF st
<1>8. Ready(st, kind)
  <2>1. Now.handler = handler /\ Now.ports = ports
    BY DEF Now
  <2> QED
    BY <1>1, <1>2, <1>6, <2>1, PortsOthers
<1> QED
  BY <1>2, <1>4, <1>6, <1>7, <1>8 DEF more

\* What the ports are when a signal is disconnected.
LEMMA DisconnectedIs ==
  ASSUME PacksInv, NEW s \in Signals, Disconnect(s)
  PROVE  \E st : /\ Ready(st, kind) /\ Become(validateInputPorts(st, kind))
                 /\ st.handler = handler /\ st.ports = Filtered(ports, Signals \ {s})
                 /\ s \notin Range(st.ports) /\ Range(st.ports) \subseteq Range(ports)
                 /\ st.queue[s] = <<>>
                 /\ \A r \in Signals : r # s => st.queue[r] = queue[r]
<1> DEFINE less == Filtered(ports, Signals \ {s})
           q == [queue EXCEPT ![s] = <<>>]
           st == [Now EXCEPT !.ports = less, !.queue = q]
<1>1. /\ Now \in Blocks /\ Sound(Now, kind) /\ kind \in Kinds
      /\ ports \in Seq(Signals) /\ queue \in [Signals -> Seq(Entries)]
  BY DEF PacksInv, Sound, Blocks, Now
<1>2. /\ less \in Seq(Signals) /\ Len(less) # Len(ports)
      /\ s \notin Range(less) /\ Range(less) \subseteq Range(ports)
  <2>1. PICK e : Embeds(e, less, ports, Signals \ {s})
    BY <1>1, FilteredIs
  <2>2. less \in Seq(Signals) /\ DOMAIN less = 1..Len(less)
        /\ DOMAIN ports = 1..Len(ports)
    BY <1>1, FilteredIs
  <2>3. PICK i \in 1..Len(ports) : ports[i] = s
    BY <2>2 DEF Disconnect, Range
  <2>4. Len(less) < Len(ports)
    BY <1>1, <2>3, FilteredIs
  <2> HIDE DEF less
  <2>5. \A j \in 1..Len(less) : less[j] # s /\ less[j] \in Range(ports)
    BY <2>1, <2>2 DEF Embeds, Range
  <2>6. s \notin Range(less) /\ Range(less) \subseteq Range(ports)
    BY <2>2, <2>5 DEF Range
  <2>7. Len(less) \in Nat /\ Len(ports) \in Nat
    BY <1>1, <2>2
  <2>8. Len(less) # Len(ports)
    BY <2>4, <2>7
  <2> QED
    BY <2>2, <2>6, <2>8
<1>3. q \in [Signals -> Seq(Entries)]
  <2> DEFINE E == Entries
  <2> HIDE DEF E
  <2>1. <<>> \in Seq(E)
    OBVIOUS
  <2>2. <<>> \in Seq(Entries)
    BY <2>1 DEF E
  <2> QED
    BY <1>1, <2>2
<1>4. q[s] = <<>> /\ \A r \in Signals : r # s => q[r] = queue[r]
  BY <1>1
<1>5. [Now EXCEPT !.ports = Filtered(@, Signals \ {s}), !.queue[s] = <<>>] = st
  BY DEF Now
<1> HIDE DEF less, q
<1>6. st \in Blocks /\ st.ports = less /\ st.queue = q /\ st.handler = handler
  BY <1>1, <1>2, <1>3 DEF Blocks, Now
<1>7. Become(validateInputPorts(st, kind))
  BY <1>5 DEF Disconnect
<1> HIDE DEF st
<1>8. Ready(st, kind)
  <2>1. Now.handler = handler /\ Now.ports = ports
    BY DEF Now
  <2> QED
    BY <1>1, <1>2, <1>6, <2>1, PortsOthers
<1> QED
  BY <1>2, <1>4, <1>6, <1>7, <1>8 DEF less

\* What is there when the handler is a new one.
LEMMA HandlerChangedIs ==
  ASSUME PacksInv, NEW k \in Kinds, PropertyChanged(k)
  PROVE  \E st : /\ Ready(st, k) /\ Become(validateInputPorts(st, k))
                 /\ st.handler = NewHandler /\ st.ports = ports /\ st.queue = queue
<1> DEFINE st == [Now EXCEPT !.handler = NewHandler]
<1>1. Now \in Blocks
  BY DEF PacksInv, Sound
<1>2. NewHandler \in Handlers /\ Good(NewHandler, k) /\ NothingBegun(NewHandler)
  BY HandlerMade
<1>3. /\ st \in Blocks /\ st.handler = NewHandler /\ st.ports = ports
      /\ st.queue = queue
  BY <1>1, <1>2 DEF Blocks, Now
<1>4. Become(validateInputPorts(st, k))
  BY DEF PropertyChanged
<1> HIDE DEF st
<1>5. Ready(st, k)
  BY <1>2, <1>3 DEF Ready, Noticed
<1> QED
  BY <1>3, <1>4, <1>5

\* A signal is connected: its queue begins with an event.
LEMMA ConnectKeepsInv ==
  ASSUME PacksInv, NEW s \in Signals, Connect(s)
  PROVE  PacksInv'
<1>1. PICK st : /\ Ready(st, kind) /\ Become(validateInputPorts(st, kind))
                /\ st.handler = handler /\ Range(st.ports) = Range(ports) \cup {s}
                /\ st.queue[s] = <<Event>>
                /\ \A r \in Signals : r # s => st.queue[r] = queue[r]
  BY ConnectedIs
<1>2. Lined(st)
  <2>1. ASSUME NEW r \in Signals
        PROVE  /\ OneEach(handler.signalBuffers[r], queue[r])
               /\ r \in Range(ports) =>
                    UpToDate(handler.signalBuffers[r], queue[r], live[r])
               /\ queue[r] \in Seq(Entries)
    BY DEF PacksInv, Sound, Blocks, Lined, Now
  <2>2. Line(handler.signalBuffers[s], <<Event>>, live[s])
    BY <2>1, LineBegins
  <2>3. ASSUME NEW r \in Signals
        PROVE  /\ OneEach(handler.signalBuffers[r], st.queue[r])
               /\ r \in Range(st.ports) =>
                    UpToDate(handler.signalBuffers[r], st.queue[r], live[r])
    <3>1. CASE r = s
      BY <1>1, <2>2, <3>1 DEF Line
    <3>2. CASE r # s
      BY <1>1, <2>1, <3>2
    <3> QED
      BY <3>1, <3>2
  <2> QED
    BY <1>1, <2>3 DEF Lined
<1> QED
  BY <1>1, <1>2, CallbackKeepsInv DEF Connect, Quiet, PacksInv

\* A signal is disconnected: its queue is gone, its buffer may stay.
LEMMA DisconnectKeepsInv ==
  ASSUME PacksInv, NEW s \in Signals, Disconnect(s)
  PROVE  PacksInv'
<1>1. PICK st : /\ Ready(st, kind) /\ Become(validateInputPorts(st, kind))
                /\ st.handler = handler
                /\ s \notin Range(st.ports) /\ Range(st.ports) \subseteq Range(ports)
                /\ st.queue[s] = <<>>
                /\ \A r \in Signals : r # s => st.queue[r] = queue[r]
  BY DisconnectedIs
<1>2. Lined(st)
  <2>1. ASSUME NEW r \in Signals
        PROVE  /\ OneEach(handler.signalBuffers[r], queue[r])
               /\ r \in Range(ports) =>
                    UpToDate(handler.signalBuffers[r], queue[r], live[r])
               /\ queue[r] \in Seq(Entries)
    BY DEF PacksInv, Sound, Blocks, Lined, Now
  <2>2. OneEach(handler.signalBuffers[s], <<>>)
    BY <2>1, LineBegins
  <2>3. ASSUME NEW r \in Signals
        PROVE  /\ OneEach(handler.signalBuffers[r], st.queue[r])
               /\ r \in Range(st.ports) =>
                    UpToDate(handler.signalBuffers[r], st.queue[r], live[r])
    <3>1. CASE r = s
      BY <1>1, <2>2, <3>1
    <3>2. CASE r # s
      BY <1>1, <2>1, <3>2
    <3> QED
      BY <3>1, <3>2
  <2> QED
    BY <1>1, <2>3 DEF Lined
<1> QED
  BY <1>1, <1>2, CallbackKeepsInv DEF Disconnect, Quiet, PacksInv

\* A property is written: a new handler.
LEMMA PropertyChangedKeepsInv ==
  ASSUME PacksInv, NEW k \in Kinds, PropertyChanged(k)
  PROVE  PacksInv'
<1>1. PICK st : /\ Ready(st, k) /\ Become(validateInputPorts(st, k))
                /\ st.handler = NewHandler /\ st.ports = ports /\ st.queue = queue
  BY HandlerChangedIs
<1>2. \A s \in Signals : NewHandler.signalBuffers[s] = NoBuffer
  BY HandlerMade
<1>3. Lined(st)
  <2>1. ASSUME NEW r \in Signals
        PROVE  /\ OneEach(handler.signalBuffers[r], queue[r])
               /\ r \in Range(ports) =>
                    UpToDate(handler.signalBuffers[r], queue[r], live[r])
    BY DEF PacksInv, Lined, Now
  <2>2. ASSUME NEW r \in Signals
        PROVE  /\ OneEach(NoBuffer, queue[r])
               /\ r \in Range(ports) => UpToDate(NoBuffer, queue[r], live[r])
    BY <2>1 DEF OneEach, UpToDate, NoBuffer
  <2> QED
    BY <1>1, <1>2, <2>2 DEF Lined
<1> QED
  BY <1>1, <1>3, CallbackKeepsInv DEF PropertyChanged, Quiet, PacksInv

\* A turn of the reader.
LEMMA TurnKeepsInv ==
  ASSUME PacksInv, Turn
  PROVE  PacksInv'
<1> DEFINE flagged == hasSignalError /\ signalDescriptorChanged
           st1 == IF flagged THEN validateInputPorts(Now, kind) ELSE Now
           none == [st |-> st1, messages |-> <<>>, needRevalidation |-> FALSE]
           got == IF st1.error THEN none ELSE Process(st1, kind)
           st2 == IF got.needRevalidation THEN validateInputPorts(got.st, kind)
                  ELSE got.st
<1>1. /\ live \in [Signals -> Types] /\ kind \in Kinds /\ tick \in Nat
      /\ Sound(Now, kind) /\ Lined(Now)
  BY DEF PacksInv
<1>2. kind \in {"each", "array", "group", "groupArray"}
  BY <1>1, KindsAre
<1>3. /\ Become(st2) /\ sent' = got.messages
      /\ UNCHANGED <<kind, live, tick>>
  BY DEF Turn, sdkVars
<1>4. Sound(st1, kind) /\ Lined(st1)
  <2>1. Ready(Now, kind) /\ Now \in Blocks
    BY <1>1 DEF Sound, Ready
  <2>2. Sound(validateInputPorts(Now, kind), kind)
    BY <1>2, <2>1, Validated
  <2>3. Lined(validateInputPorts(Now, kind))
    BY <1>1, <2>1, LinesValidated
  <2> QED
    BY <1>1, <2>2, <2>3
<1> HIDE DEF st1
<1>5. /\ Sound(got.st, kind) /\ Lined(got.st)
      /\ AllRight(got.messages, kind, got.st.handler)
      /\ \/ got.needRevalidation => got.messages = <<>>
         \/ \A h : AllRight(got.messages, kind, h)
  <2>1. CASE st1.error
    <3>1. got = none
      BY <2>1
    <3>2. \A h : AllRight(<<>>, kind, h)
      BY DEF AllRight
    <3> HIDE DEF got
    <3> QED
      BY <1>4, <3>1, <3>2
  <2>2. CASE ~st1.error /\ kind \in {"each", "array"}
    <3>1. got = ProcessEach(st1, kind)
      BY <2>2 DEF Process
    <3> HIDE DEF got
    <3>2. /\ Sound(got.st, kind) /\ Lined(got.st)
          /\ got.messages \in Seq(Alone(SizeOf(kind)))
      BY <1>1, <1>4, <2>2, <3>1, EachProcessed
    <3>3. ASSUME NEW h PROVE AllRight(got.messages, kind, h)
      <4>1. \A i \in DOMAIN got.messages : got.messages[i] \in Alone(SizeOf(kind))
        BY <3>2
      <4> QED
        BY <2>2, <4>1, AloneIsRight DEF AllRight
    <3> QED
      BY <3>2, <3>3
  <2>3. CASE ~st1.error /\ kind \in {"group", "groupArray"}
    <3>1. got = ProcessGroup(st1, kind)
      BY <2>3 DEF Process
    <3> HIDE DEF got
    <3> QED
      BY <1>1, <1>4, <2>3, <3>1, GroupProcessed
  <2> QED
    BY <1>2, <2>1, <2>2, <2>3
<1> HIDE DEF got
<1>6. Sound(st2, kind) /\ Lined(st2) /\ AllRight(got.messages, kind, st2.handler)
  <2>1. CASE got.needRevalidation
    <3>1. Ready(got.st, kind) /\ got.st \in Blocks
      BY <1>5 DEF Sound, Ready
    <3>2. Sound(validateInputPorts(got.st, kind), kind)
      BY <1>2, <3>1, Validated
    <3>3. Lined(validateInputPorts(got.st, kind))
      BY <1>5, <3>1, LinesValidated
    <3>4. \A h : AllRight(got.messages, kind, h)
      BY <1>5, <2>1 DEF AllRight
    <3> QED
      BY <2>1, <3>2, <3>3, <3>4
  <2>2. CASE ~got.needRevalidation
    BY <1>5, <2>2
  <2> QED
    BY <2>1, <2>2
<1> HIDE DEF st2
<1>7. Now' = st2
  BY <1>3, <1>6, NowIs DEF Sound
<1>8. Sound(Now, kind)'
  BY <1>3, <1>6, <1>7
<1>9. Lined(Now)'
  BY <1>3, <1>6, <1>7 DEF Lined
<1>10. AllRight(sent, kind, handler)'
  <2>1. handler' = st2.handler
    BY <1>3 DEF Become
  <2> QED
    BY <1>3, <1>6, <2>1
<1> QED
  BY <1>1, <1>3, <1>8, <1>9, <1>10 DEF PacksInv

\* Steps that change nothing.
LEMMA StutterKeepsInv == ASSUME PacksInv, UNCHANGED vars PROVE PacksInv'
  BY DEF PacksInv, Now, vars, sdkVars, Lined

\* The inductive invariant holds in every reachable state, with any signals, types,
\* pack sizes and bounds.
THEOREM PacksInvHolds == Spec => []PacksInv
<1>1. Init => PacksInv
  BY InitSatisfiesInv
<1>2. PacksInv /\ [Next]_vars => PacksInv'
  <2> SUFFICES ASSUME PacksInv, [Next]_vars PROVE PacksInv'
    OBVIOUS
  <2>1. CASE \E n \in 1..2 : SendPackets(n)
    BY <2>1, SendPacketsKeepsInv
  <2>2. CASE \E s \in Signals, t \in Types : ChangeDescriptor(s, t)
    BY <2>2, ChangeDescriptorKeepsInv
  <2>3. CASE \E s \in Signals : Connect(s)
    BY <2>3, ConnectKeepsInv
  <2>4. CASE \E s \in Signals : Disconnect(s)
    BY <2>4, DisconnectKeepsInv
  <2>5. CASE \E k \in Kinds : PropertyChanged(k)
    BY <2>5, PropertyChangedKeepsInv
  <2>6. CASE Turn
    BY <2>6, TurnKeepsInv
  <2>7. CASE UNCHANGED vars
    BY <2>7, StutterKeepsInv
  <2> QED
    BY <2>1, <2>2, <2>3, <2>4, <2>5, <2>6, <2>7 DEF Next
<1> QED
  BY <1>1, <1>2, PTL DEF Spec

\* Packs have SamplesPerMessage samples, and what a handler holds between turns is
\* less than a pack, whatever came between: ports, descriptors, errors, another kind
\* of handler (processDataPackets, SignalBuffer, initBuilders).
THEOREM LessThanAPackAlwaysWaits == Spec => []LessThanAPackWaits
<1>1. PacksInv => LessThanAPackWaits
  <2> SUFFICES ASSUME PacksInv PROVE LessThanAPackWaits
    OBVIOUS
  <2>1. /\ handler \in Handlers /\ Less(handler) /\ Together(handler)
        /\ AllRight(sent, kind, handler)
    BY DEF PacksInv, Sound, Blocks, Now, Good
  <2>2. kind \in {"array", "groupArray"} =>
          \A m \in Range(sent) : Len(m.times) = PackSize
    BY <2>1 DEF AllRight, Right, Range
  <2>3. ASSUME NEW s \in Signals
        PROVE  LET b == handler.signalBuffers[s]
               IN  /\ b.dataSize = Total(b.data) - b.offset
                   /\ b.dataSize \in 0..PackSize - 1
    <3> DEFINE b == handler.signalBuffers[s]
    <3>1. b \in Buffers(Types)
      BY <2>1 DEF Handlers
    <3>2. b.dataSize < PackSize
      BY <2>1 DEF Less
    <3> HIDE DEF b
    <3>3. b.dataSize \in Nat /\ b.dataSize = Total(b.data) - b.offset
      BY <3>1 DEF Buffers, Fits
    <3> QED
      BY <3>2, <3>3, PacksAssumption DEF b
  <2>4. handler.tsBuilder \in Builders(Nat) /\ handler.tsBuilder.values = <<>>
    BY <2>1 DEF Handlers, Less
  <2>5. Begun(handler.tsBuilder)
    BY <2>4 DEF Begun, Builders
  <2>6. ASSUME ~handler.skewed, NEW b \in Range(handler.dataBuilders)
        PROVE  Begun(b)
    <3> DEFINE X == Builders(Samples(Signals, Types))
               d == handler.dataBuilders
    <3>1. d \in Seq(X)
      BY <2>1 DEF Handlers
    <3> HIDE DEF X
    <3>2. DOMAIN d = 1..Len(d) /\ \A n \in 1..Len(d) : d[n] \in X
      BY <3>1
    <3> HIDE DEF d
    <3>3. PICK n \in 1..Len(d) : b = d[n]
      BY <3>2 DEF Range, d
    <3>4. InStep(b, handler.tsBuilder)
      BY <2>1, <2>6, <3>3 DEF Together, d
    <3>5. b \in X
      BY <3>2, <3>3
    <3>6. Len(b.values) = 0 /\ b.values \in Seq(Packs(Samples(Signals, Types)))
          /\ Len(b.current) < PackSize
      BY <2>4, <3>4, <3>5 DEF InStep, Builders, X
    <3> DEFINE P == Packs(Samples(Signals, Types))
    <3> HIDE DEF P
    <3>7. Len(b.values) = 0 /\ b.values \in Seq(P)
      BY <3>6 DEF P
    <3>8. b.values = <<>>
      BY <3>7
    <3> QED
      BY <3>6, <3>8 DEF Begun
  <2> QED
    BY <2>2, <2>3, <2>5, <2>6 DEF LessThanAPackWaits
<1> QED
  BY <1>1, PacksInvHolds, PTL

\* Each value of a message has its own time beside it, stands under the name of its
\* own signal and is written as the type its descriptor has, with the exceptions
\* that FieldsAreRows names (processSignalContexts, initBuilders).
THEOREM FieldsStayRows == Spec => []FieldsAreRows
<1>1. PacksInv => FieldsAreRows
  <2> SUFFICES ASSUME PacksInv, NEW m \in Range(sent), NEW f \in Range(m.fields)
               PROVE  FieldFits(f, m, kind, handler)
    BY DEF FieldsAreRows, FieldFits
  <2>1. PICK i \in DOMAIN sent : m = sent[i]
    BY DEF Range
  <2> QED
    BY <2>1 DEF PacksInv, AllRight, Right
<1> QED
  BY <1>1, PacksInvHolds, PTL

-----------------------------------------------------------------------------
(* The order of samples in messages. *)

\* A sample of s in a message, of tick t.
Has(m, s, t) ==
  \E f \in DOMAIN m.fields : \E v \in DOMAIN m.fields[f].values :
    m.fields[f].values[v].signal = s /\ t = m.fields[f].values[v].tick

\* The samples of s in a message are in order.
InTurn(m, s) ==
  \A f, g \in DOMAIN m.fields :
    \A v \in DOMAIN m.fields[f].values, w \in DOMAIN m.fields[g].values :
      /\ m.fields[f].values[v].signal = s /\ m.fields[g].values[w].signal = s
      /\ f < g \/ (f = g /\ v < w)
      => m.fields[f].values[v].tick < m.fields[g].values[w].tick

\* The samples of s in messages are in order, and between lo and hi.
Rising(ms, s, lo, hi) ==
  /\ \A i \in 1..Len(ms) : /\ InTurn(ms[i], s)
                           /\ \A t : Has(ms[i], s, t) => t \in lo + 1..hi
  /\ \A i, j \in 1..Len(ms) : i < j =>
       \A t, u : Has(ms[i], s, t) /\ Has(ms[j], s, u) => t < u

\* The samples of s in messages.
Published(ms, s, t) == \E i \in 1..Len(ms) : Has(ms[i], s, t)

\* A list of samples is in order.
Climbs(xs) == \A v, w \in 1..Len(xs) : v < w => xs[v].tick < xs[w].tick

\* Each column is of the signal of that name, and in order.
InColumns(names, columns, U) ==
  \A n \in 1..Len(names) : /\ columns[n] \in Seq(Samples({names[n]}, U))
                           /\ Climbs(columns[n])

\* No name is there twice.
Distinct(names) == \A i, j \in 1..Len(names) : i # j => names[i] # names[j]

\* A place is one of a message, of a field and of a value in it.
LEMMA PlaceIs ==
  ASSUME NEW ms, NEW s, NEW p \in PlacesOf(s, ms)
  PROVE  /\ p[1] \in DOMAIN ms /\ p[2][1] \in DOMAIN ms[p[1]].fields
         /\ p[2][2] \in DOMAIN ms[p[1]].fields[p[2][1]].values
         /\ ms[p[1]].fields[p[2][1]].values[p[2][2]].signal = s
         /\ Has(ms[p[1]], s, TickAt(ms, p))
<1>1. ms[p[1]].fields[p[2][1]].values[p[2][2]].signal = s
  BY DEF PlacesOf
<1>2. PICK i \in DOMAIN ms :
        p \in {i} \X UNION {{f} \X DOMAIN ms[i].fields[f].values : f \in DOMAIN ms[i].fields}
  BY DEF PlacesOf
<1>3. p[1] = i
      /\ p[2] \in UNION {{f} \X DOMAIN ms[i].fields[f].values : f \in DOMAIN ms[i].fields}
  BY <1>2
<1>4. PICK f \in DOMAIN ms[i].fields : p[2] \in {f} \X DOMAIN ms[i].fields[f].values
  BY <1>3
<1>5. p[2][1] = f /\ p[2][2] \in DOMAIN ms[i].fields[f].values
  BY <1>4
<1> QED
  BY <1>1, <1>3, <1>5 DEF Has, TickAt

\* What Rising means for the places of messages.
LEMMA RisingMeans ==
  ASSUME NEW X, NEW ms \in Seq(X), NEW s, NEW lo \in Nat, NEW hi \in Nat,
         Rising(ms, s, lo, hi), NEW p \in PlacesOf(s, ms)
  PROVE  /\ lo < TickAt(ms, p)
         /\ \A q \in PlacesOf(s, ms) : Before(p, q) => TickAt(ms, p) < TickAt(ms, q)
<1>0. DOMAIN ms = 1..Len(ms)
  OBVIOUS
<1>1. p[1] \in 1..Len(ms) /\ Has(ms[p[1]], s, TickAt(ms, p))
  BY <1>0, PlaceIs
<1>2. TickAt(ms, p) \in lo + 1..hi
  BY <1>1 DEF Rising
<1>3. ASSUME NEW q \in PlacesOf(s, ms), Before(p, q)
      PROVE  TickAt(ms, p) < TickAt(ms, q)
  <2>1. q[1] \in 1..Len(ms) /\ Has(ms[q[1]], s, TickAt(ms, q))
    BY <1>0, PlaceIs
  <2>2. CASE p[1] < q[1]
    BY <1>1, <2>1, <2>2 DEF Rising
  <2>3. CASE ~(p[1] < q[1])
    <3> DEFINE m == ms[p[1]]
    <3>1. InTurn(m, s)
      BY <1>1 DEF Rising
    <3>2. p[1] = q[1]
          /\ (p[2][1] < q[2][1] \/ (p[2][1] = q[2][1] /\ p[2][2] < q[2][2]))
      BY <1>3, <2>3 DEF Before
    <3>3. /\ p[2][1] \in DOMAIN m.fields /\ p[2][2] \in DOMAIN m.fields[p[2][1]].values
          /\ m.fields[p[2][1]].values[p[2][2]].signal = s
      BY PlaceIs
    <3>4. /\ q[2][1] \in DOMAIN m.fields /\ q[2][2] \in DOMAIN m.fields[q[2][1]].values
          /\ m.fields[q[2][1]].values[q[2][2]].signal = s
      BY <3>2, PlaceIs
    <3>5. /\ TickAt(ms, p) = m.fields[p[2][1]].values[p[2][2]].tick
          /\ TickAt(ms, q) = m.fields[q[2][1]].values[q[2][2]].tick
      BY <3>2 DEF TickAt
    <3> HIDE DEF m
    <3> QED
      BY <3>1, <3>2, <3>3, <3>4, <3>5 DEF InTurn
  <2> QED
    BY <2>2, <2>3
<1> QED
  BY <1>2, <1>3

\* What a message has.
LEMMA MessageHas ==
  ASSUME NEW names \in Seq(Signals), NEW columns, NEW times,
         NEW m, m = Message(names, columns, times), NEW s, NEW t, Has(m, s, t)
  PROVE  \E n \in 1..Len(names) : \E v \in DOMAIN columns[n] :
           columns[n][v].signal = s /\ columns[n][v].tick = t
<1>1. m.fields = [n \in DOMAIN names |-> [name |-> names[n], values |-> columns[n]]]
  BY DEF Message
<1>2. PICK n \in DOMAIN m.fields : \E v \in DOMAIN m.fields[n].values :
        m.fields[n].values[v].signal = s /\ t = m.fields[n].values[v].tick
  BY DEF Has
<1>3. n \in DOMAIN names /\ m.fields[n].values = columns[n]
  BY <1>1, <1>2
<1>4. DOMAIN names = 1..Len(names)
  OBVIOUS
<1> QED
  BY <1>2, <1>3, <1>4

\* A message whose columns are in order, one for each of its signals, is in turn.
LEMMA MessageInTurn ==
  ASSUME NEW names \in Seq(Signals), Distinct(names),
         NEW columns, NEW times, NEW U, InColumns(names, columns, U),
         NEW m, m = Message(names, columns, times), NEW s
  PROVE  /\ InTurn(m, s)
         /\ \A t : Has(m, s, t) =>
              \E n \in 1..Len(names) : /\ names[n] = s
                                       /\ \E v \in 1..Len(columns[n]) : columns[n][v].tick = t
<1>1. m.fields = [n \in DOMAIN names |-> [name |-> names[n], values |-> columns[n]]]
  BY DEF Message
<1>2. DOMAIN m.fields = 1..Len(names)
      /\ \A n \in 1..Len(names) : m.fields[n].values = columns[n]
  BY <1>1
<1>3. ASSUME NEW n \in 1..Len(names), NEW v \in DOMAIN columns[n]
      PROVE  columns[n][v].signal = names[n] /\ v \in 1..Len(columns[n])
  <2>1. columns[n] \in Seq(Samples({names[n]}, U))
    BY DEF InColumns
  <2>2. columns[n][v] \in Samples({names[n]}, U) /\ v \in 1..Len(columns[n])
    BY <2>1
  <2> QED
    BY <2>2 DEF Samples
<1>4. ASSUME NEW f \in 1..Len(names), NEW g \in 1..Len(names),
             NEW v \in DOMAIN columns[f], NEW w \in DOMAIN columns[g],
             columns[f][v].signal = s, columns[g][w].signal = s,
             f < g \/ (f = g /\ v < w)
      PROVE  columns[f][v].tick < columns[g][w].tick
  <2>1. f = g
    BY <1>3, <1>4 DEF Distinct
  <2>2. v < w
    BY <1>4, <2>1
  <2>3. v \in 1..Len(columns[f]) /\ w \in 1..Len(columns[f]) /\ Climbs(columns[f])
    BY <1>3, <2>1 DEF InColumns
  <2>4. columns[f][v].tick < columns[f][w].tick
    BY <2>2, <2>3 DEF Climbs
  <2> QED
    BY <2>1, <2>4
<1>5. InTurn(m, s)
  BY <1>2, <1>4 DEF InTurn
<1>6. ASSUME NEW t, Has(m, s, t)
      PROVE  \E n \in 1..Len(names) : /\ names[n] = s
                                      /\ \E v \in 1..Len(columns[n]) : columns[n][v].tick = t
  <2>1. PICK n \in 1..Len(names) : \E v \in DOMAIN columns[n] :
           columns[n][v].signal = s /\ columns[n][v].tick = t
    BY <1>6, MessageHas
  <2> QED
    BY <1>3, <2>1
<1> QED
  BY <1>5, <1>6

\* A message of one signal.
LEMMA SingleInTurn ==
  ASSUME NEW s \in Signals, NEW U, NEW xs \in Seq(Samples({s}, U)), Climbs(xs),
         NEW lo \in Nat, NEW hi \in Nat, \A v \in 1..Len(xs) : xs[v].tick \in lo + 1..hi,
         NEW m, m = OfOneSignal(s, xs)
  PROVE  InTurn(m, s) /\ \A t : Has(m, s, t) => t \in lo + 1..hi
<1> DEFINE names == <<s>>
           columns == <<xs>>
           times == [i \in DOMAIN xs |-> xs[i].tick]
<1>1. m = Message(names, columns, times)
  BY DEF OfOneSignal
<1>2. /\ names \in Seq(Signals) /\ Len(names) = 1 /\ names[1] = s /\ columns[1] = xs
  OBVIOUS
<1> HIDE DEF names, columns, times
<1>3. InColumns(names, columns, U)
  <2> SUFFICES ASSUME NEW n \in 1..Len(names)
               PROVE  columns[n] \in Seq(Samples({names[n]}, U)) /\ Climbs(columns[n])
    BY DEF InColumns
  <2>1. n = 1
    BY <1>2
  <2>2. columns[n] = xs /\ names[n] = s
    BY <1>2, <2>1
  <2> QED
    BY <2>2
<1>4. Distinct(names)
  BY <1>2 DEF Distinct
<1>5. /\ InTurn(m, s)
      /\ \A t : Has(m, s, t) =>
           \E n \in 1..Len(names) : /\ names[n] = s
                                    /\ \E v \in 1..Len(columns[n]) : columns[n][v].tick = t
  BY <1>1, <1>2, <1>3, <1>4, MessageInTurn
<1> QED
  BY <1>2, <1>5

\* No messages are in order.
LEMMA RisingNone ==
  ASSUME NEW s, NEW lo, NEW hi
  PROVE  Rising(<<>>, s, lo, hi) /\ \A t : ~Published(<<>>, s, t)
  BY DEF Rising, Published

\* A message more.
LEMMA RisingMore ==
  ASSUME NEW X, NEW ms \in Seq(X), NEW m \in X, NEW s, NEW lo \in Nat, NEW mid \in Nat,
         NEW hi \in Nat, lo <= mid, mid <= hi, Rising(ms, s, lo, mid),
         InTurn(m, s), \A t : Has(m, s, t) => t \in mid + 1..hi
  PROVE  Rising(Append(ms, m), s, lo, hi)
<1> DEFINE new == Append(ms, m)
<1>1. /\ Len(ms) \in Nat /\ Len(new) = Len(ms) + 1 /\ new[Len(ms) + 1] = m
      /\ \A i \in 1..Len(ms) : new[i] = ms[i]
  OBVIOUS
<1> HIDE DEF new
<1>2. ASSUME NEW i \in 1..Len(new)
      PROVE  InTurn(new[i], s) /\ \A t : Has(new[i], s, t) => t \in lo + 1..hi
  <2>1. CASE i \in 1..Len(ms)
    <3>1. InTurn(ms[i], s) /\ \A t : Has(ms[i], s, t) => t \in lo + 1..mid
      BY <2>1 DEF Rising
    <3>2. \A t : t \in lo + 1..mid => t \in lo + 1..hi
      OBVIOUS
    <3> QED
      BY <1>1, <2>1, <3>1, <3>2
  <2>2. CASE i = Len(ms) + 1
    <3>1. \A t : t \in mid + 1..hi => t \in lo + 1..hi
      OBVIOUS
    <3> QED
      BY <1>1, <2>2, <3>1
  <2> QED
    BY <1>1, <2>1, <2>2
<1>3. ASSUME NEW i \in 1..Len(new), NEW j \in 1..Len(new), i < j, NEW t, NEW u,
             Has(new[i], s, t), Has(new[j], s, u)
      PROVE  t < u
  <2>1. i \in 1..Len(ms) /\ Has(ms[i], s, t) /\ t \in lo + 1..mid
    <3>1. i \in 1..Len(ms)
      BY <1>1, <1>3
    <3>2. Has(ms[i], s, t)
      BY <1>1, <1>3, <3>1
    <3> QED
      BY <3>1, <3>2 DEF Rising
  <2>2. CASE j \in 1..Len(ms)
    <3>1. Has(ms[j], s, u)
      BY <1>1, <1>3, <2>2
    <3> QED
      BY <1>3, <2>1, <2>2, <3>1 DEF Rising
  <2>3. CASE j = Len(ms) + 1
    <3>1. u \in mid + 1..hi
      BY <1>1, <1>3, <2>3
    <3> QED
      BY <2>1, <3>1
  <2> QED
    BY <1>1, <2>2, <2>3
<1> QED
  BY <1>2, <1>3 DEF Rising, new

\* A wider space.
LEMMA RisingWider ==
  ASSUME NEW ms, NEW s, NEW lo \in Nat, NEW hi \in Nat, NEW h \in Nat, hi <= h,
         Rising(ms, s, lo, hi)
  PROVE  Rising(ms, s, lo, h)
<1>1. \A t : t \in lo + 1..hi => t \in lo + 1..h
  OBVIOUS
<1> QED
  BY <1>1 DEF Rising

-----------------------------------------------------------------------------
(* The order of ticks in packets. *)

\* The ticks of packets, without the first of the first packet, are in order, and
\* between lo and hi.
Ascends(q, off, lo, hi) ==
  \A i \in 1..Len(q) : \A a \in 1..Len(q[i].ticks) :
    i > 1 \/ a > off =>
      /\ q[i].ticks[a] \in lo + 1..hi
      /\ \A j \in 1..Len(q) : \A c \in 1..Len(q[j].ticks) :
           i < j \/ (i = j /\ a < c) => q[i].ticks[a] < q[j].ticks[c]

\* Entries have ticks, events none.
LEMMA EntryTicks ==
  ASSUME NEW p \in Entries
  PROVE  /\ p.ticks \in Seq(Nat) /\ Len(p.ticks) \in Nat
         /\ IsEvent(p) => Len(p.ticks) = 0
<1>1. Event.ticks = <<>> /\ <<>> \in Seq(Nat) /\ Len(<<>>) = 0
  BY DEF Event
<1>2. CASE p \in Packets(Types)
  <2>1. ~IsEvent(p)
    BY <1>2, EventIsNone
  <2> QED
    BY <1>2, <2>1 DEF Packets
<1>3. CASE p = Event
  BY <1>1, <1>3
<1> QED
  BY <1>2, <1>3 DEF Entries

\* Nothing is in order.
LEMMA AscendsNone ==
  ASSUME NEW off, NEW lo, NEW hi PROVE Ascends(<<>>, off, lo, hi)
  BY DEF Ascends

\* rest is q without its first n.
IsRest(rest, q, n) == \A i \in 1..Len(rest) : i + n \in 1..Len(q) /\ rest[i] = q[i + n]

\* The ticks of packets, without the first of the first packet, are above low.
Above(q, off, low) ==
  \A i \in 1..Len(q) : \A a \in 1..Len(q[i].ticks) :
    i > 1 \/ a > off => low < q[i].ticks[a]

\* What is left is in order, beyond what it is beyond.
LEMMA AscendsRest ==
  ASSUME NEW q \in Seq(Entries), NEW off \in Nat, NEW lo \in Nat, NEW hi \in Nat,
         Ascends(q, off, lo, hi), NEW n \in Nat, NEW rest \in Seq(Entries),
         IsRest(rest, q, n), NEW new \in Nat, n # 0 \/ off <= new, NEW low \in Nat,
         Above(rest, new, low)
  PROVE  Ascends(rest, new, low, hi)
<1>0. /\ \A i \in 1..Len(rest) : i + n \in 1..Len(q) /\ rest[i] = q[i + n]
      /\ \A i \in 1..Len(rest) : \A a \in 1..Len(rest[i].ticks) :
           i > 1 \/ a > new => low < rest[i].ticks[a]
  BY DEF IsRest, Above
<1> SUFFICES ASSUME NEW i \in 1..Len(rest), NEW a \in 1..Len(rest[i].ticks), i > 1 \/ a > new
             PROVE  /\ rest[i].ticks[a] \in low + 1..hi
                    /\ \A j \in 1..Len(rest) : \A c \in 1..Len(rest[j].ticks) :
                         i < j \/ (i = j /\ a < c) => rest[i].ticks[a] < rest[j].ticks[c]
  BY DEF Ascends
<1>1. PICK k \in 1..Len(q) : k = i + n /\ rest[i] = q[k]
  BY <1>0
<1>2. a \in 1..Len(q[k].ticks) /\ a \in Nat /\ (k > 1 \/ a > off)
  <2>1. Len(q[k].ticks) \in Nat
    BY EntryTicks
  <2>2. a \in 1..Len(q[k].ticks) /\ a \in Nat
    BY <1>1, <2>1
  <2>3. CASE n = 0
    BY <1>1, <2>2, <2>3
  <2>4. CASE n # 0
    BY <1>1, <2>4
  <2> QED
    BY <2>2, <2>3, <2>4
<1>3. q[k].ticks[a] \in lo + 1..hi
  BY <1>2 DEF Ascends
<1>4. rest[i].ticks[a] \in low + 1..hi
  <2>1. PICK t : t = rest[i].ticks[a]
    OBVIOUS
  <2>2. low < t
    BY <1>0, <2>1
  <2>3. t \in lo + 1..hi
    BY <1>1, <1>3, <2>1
  <2>4. t \in low + 1..hi
    BY <2>2, <2>3
  <2> QED
    BY <2>1, <2>4
<1>5. ASSUME NEW j \in 1..Len(rest), NEW c \in 1..Len(rest[j].ticks),
             i < j \/ (i = j /\ a < c)
      PROVE  rest[i].ticks[a] < rest[j].ticks[c]
  <2>1. PICK l \in 1..Len(q) : l = j + n /\ rest[j] = q[l]
    BY <1>0
  <2>2. c \in 1..Len(q[l].ticks) /\ (k < l \/ (k = l /\ a < c))
    BY <1>1, <1>5, <2>1
  <2>3. q[k].ticks[a] < q[l].ticks[c]
    BY <1>2, <2>2 DEF Ascends
  <2> QED
    BY <1>1, <2>1, <2>3
<1> QED
  BY <1>4, <1>5

\* A wider space.
LEMMA AscendsWider ==
  ASSUME NEW q, NEW off, NEW lo \in Nat, NEW hi \in Nat, NEW low \in Nat, NEW h \in Nat,
         low <= lo, hi <= h, Ascends(q, off, lo, hi)
  PROVE  Ascends(q, off, low, h)
<1>1. \A t : t \in lo + 1..hi => t \in low + 1..h
  OBVIOUS
<1> QED
  BY <1>1 DEF Ascends

\* The ticks of a packet are in order.
TicksAscend(p, lo, hi) ==
  /\ \A a \in 1..Len(p.ticks) : p.ticks[a] \in lo + 1..hi
  /\ \A a, c \in 1..Len(p.ticks) : a < c => p.ticks[a] < p.ticks[c]

\* A packet more.
LEMMA AscendsMore ==
  ASSUME NEW q \in Seq(Entries), NEW off \in Nat, NEW lo \in Nat, NEW mid \in Nat,
         NEW hi \in Nat, lo <= mid, mid <= hi, Ascends(q, off, lo, mid),
         NEW p \in Entries, TicksAscend(p, mid, hi)
  PROVE  Ascends(Append(q, p), off, lo, hi)
<1> DEFINE new == Append(q, p)
<1>1. /\ Len(q) \in Nat /\ Len(new) = Len(q) + 1 /\ new[Len(q) + 1] = p
      /\ \A i \in 1..Len(q) : new[i] = q[i]
  OBVIOUS
<1> HIDE DEF new
<1> SUFFICES ASSUME NEW i \in 1..Len(new), NEW a \in 1..Len(new[i].ticks), i > 1 \/ a > off
             PROVE  /\ new[i].ticks[a] \in lo + 1..hi
                    /\ \A j \in 1..Len(new) : \A c \in 1..Len(new[j].ticks) :
                         i < j \/ (i = j /\ a < c) => new[i].ticks[a] < new[j].ticks[c]
  BY DEF Ascends, new
<1>2. CASE i = Len(q) + 1
  <2>1. new[i] = p /\ p.ticks[a] \in mid + 1..hi
    BY <1>1, <1>2 DEF TicksAscend
  <2>2. ASSUME NEW j \in 1..Len(new), NEW c \in 1..Len(new[j].ticks),
               i < j \/ (i = j /\ a < c)
        PROVE  new[i].ticks[a] < new[j].ticks[c]
    <3>1. j = i /\ a < c
      BY <1>1, <1>2, <2>2
    <3> QED
      BY <2>1, <3>1 DEF TicksAscend
  <2> QED
    BY <2>1, <2>2
<1>3. CASE i \in 1..Len(q)
  <2>1. new[i] = q[i] /\ q[i].ticks[a] \in lo + 1..mid
    BY <1>1, <1>3 DEF Ascends
  <2>2. ASSUME NEW j \in 1..Len(new), NEW c \in 1..Len(new[j].ticks),
               i < j \/ (i = j /\ a < c)
        PROVE  new[i].ticks[a] < new[j].ticks[c]
    <3>1. CASE j = Len(q) + 1
      <4>1. new[j].ticks[c] \in mid + 1..hi
        BY <1>1, <3>1 DEF TicksAscend
      <4>2. PICK t, u : t = new[i].ticks[a] /\ u = new[j].ticks[c]
        OBVIOUS
      <4>3. t \in lo + 1..mid /\ u \in mid + 1..hi
        BY <2>1, <4>1, <4>2
      <4>4. t < u
        BY <4>3
      <4> QED
        BY <4>2, <4>4
    <3>2. CASE j \in 1..Len(q)
      BY <1>1, <1>3, <2>1, <2>2, <3>2 DEF Ascends
    <3> QED
      BY <1>1, <3>1, <3>2
  <2> QED
    BY <2>1, <2>2
<1> QED
  BY <1>1, <1>2, <1>3

\* An event goes first.
LEMMA AscendsFirst ==
  ASSUME NEW q \in Seq(Entries), NEW lo \in Nat, NEW hi \in Nat, Ascends(q, 0, lo, hi)
  PROVE  Ascends(<<Event>> \o q, 0, lo, hi)
<1> DEFINE E == Entries
           new == <<Event>> \o q
<1> HIDE DEF E
<1>1. Event \in E /\ q \in Seq(E) /\ Len(Event.ticks) = 0
  BY DEF E, Entries, Event
<1> DEFINE v == Event
<1> HIDE DEF v
<1>2. <<v>> \in Seq(E) /\ <<v>>[1] = v /\ Len(<<v>>) = 1
  BY <1>1 DEF v
<1>3. /\ <<v>> \o q \in Seq(E) /\ Len(<<v>> \o q) = Len(q) + 1
      /\ (<<v>> \o q)[1] = v
      /\ \A i \in 1..Len(q) : (<<v>> \o q)[i + 1] = q[i]
  BY <1>1, <1>2
<1>4. /\ Len(new) = Len(q) + 1 /\ Len(new[1].ticks) = 0 /\ Len(q) \in Nat
      /\ \A i \in 1..Len(q) : new[i + 1] = q[i]
  BY <1>1, <1>3 DEF v
<1> HIDE DEF new
<1>5. ASSUME NEW i \in 1..Len(new), NEW a \in 1..Len(new[i].ticks)
      PROVE  /\ new[i].ticks[a] \in lo + 1..hi
             /\ \A j \in 1..Len(new) : \A c \in 1..Len(new[j].ticks) :
                  i < j \/ (i = j /\ a < c) => new[i].ticks[a] < new[j].ticks[c]
  <2>1. i # 1
    BY <1>4
  <2>2. PICK k \in 1..Len(q) : i = k + 1 /\ new[i] = q[k]
    <3>1. i - 1 \in 1..Len(q) /\ i = (i - 1) + 1
      BY <1>4, <2>1
    <3> QED
      BY <1>4, <3>1
  <2>3. a \in 1..Len(q[k].ticks) /\ a > 0
    BY <2>2
  <2>4. ASSUME NEW j \in 1..Len(new), NEW c \in 1..Len(new[j].ticks),
               i < j \/ (i = j /\ a < c)
        PROVE  new[i].ticks[a] < new[j].ticks[c]
    <3>1. j - 1 \in 1..Len(q) /\ j = (j - 1) + 1
      BY <1>4, <2>2, <2>4
    <3>2. PICK l \in 1..Len(q) : j = l + 1 /\ new[j] = q[l]
      BY <1>4, <3>1
    <3>3. c \in 1..Len(q[l].ticks) /\ (k < l \/ (k = l /\ a < c))
      BY <2>2, <2>4, <3>2
    <3>4. q[k].ticks[a] < q[l].ticks[c]
      BY <2>3, <3>3 DEF Ascends
    <3> QED
      BY <2>2, <3>2, <3>4
  <2>5. new[i].ticks[a] \in lo + 1..hi
    BY <2>2, <2>3 DEF Ascends
  <2> QED
    BY <2>4, <2>5
<1> QED
  BY <1>5 DEF Ascends, new

-----------------------------------------------------------------------------
(* The order of what is read of one signal. *)

\* A packet's ticks are where they are in order.
LEMMA PacketsAreEntries ==
  ASSUME NEW data \in Seq(Packets(Types)) PROVE data \in Seq(Entries)
  BY DEF Entries

\* The next sample is later than what a buffer is beyond, and the rest is later
\* than that.
LEMMA NextAscends ==
  ASSUME NEW b \in Buffers(Types), b.dataSize > 0, NEW m \in Nat, NEW h \in Nat,
         Ascends(b.data, b.offset, m, h), NEW s
  PROVE  \E t \in m + 1..h : /\ SampleAt(s, b).tick = t
                             /\ Ascends(getSample(b).data, getSample(b).offset, t, h)
<1>1. /\ b.data \in Seq(Packets(Types)) /\ b.dataSize \in Nat /\ b.offset \in Nat
      /\ Fits(b)
  BY DEF Buffers
<1>2. b.data # <<>>
  <2>1. SUFFICES ASSUME b.data = <<>> PROVE FALSE
    OBVIOUS
  <2>2. Total(b.data) = 0 /\ b.offset = 0
    BY <2>1, <1>1, TotalOfNone DEF Fits
  <2> QED
    BY <2>2, <1>1 DEF Fits
<1> DEFINE q == b.data
           off == b.offset
           n == Len(q[1].ticks)
<1>3. /\ q \in Seq(Packets(Types)) /\ q \in Seq(Entries) /\ Len(q) \in Nat \ {0}
      /\ off \in Nat /\ n \in Nat /\ off < n
  <2>1. q[1] \in Packets(Types)
    BY <1>1, <1>2
  <2>2. n \in Nat
    BY <2>1 DEF Packets
  <2> QED
    BY <1>1, <1>2, <2>2, PacketsAreEntries DEF Fits
<1>4. Ascends(q, off, m, h)
  OBVIOUS
<1>5. PICK t : t = q[1].ticks[off + 1]
  OBVIOUS
<1>6. SampleAt(s, b).tick = t
  BY <1>5 DEF SampleAt, Sample
<1>7. /\ getSample(b).data = IF off + 1 = n THEN Tail(q) ELSE q
      /\ getSample(b).offset = IF off + 1 = n THEN 0 ELSE off + 1
  BY DEF getSample
<1> HIDE DEF q, off, n
<1>8. 1 \in 1..Len(q) /\ off + 1 \in 1..n /\ off + 1 > off
  BY <1>3
<1>9. /\ t \in m + 1..h
      /\ \A j \in 1..Len(q) : \A c \in 1..Len(q[j].ticks) :
           1 < j \/ (1 = j /\ off + 1 < c) => t < q[j].ticks[c]
  BY <1>4, <1>5, <1>8 DEF Ascends, n
<1>10. CASE off + 1 = n
  <2> DEFINE rest == Tail(q)
  <2>1. /\ rest \in Seq(Entries)
        /\ IsRest(rest, q, 1)
    BY <1>3 DEF IsRest
  <2> HIDE DEF rest
  <2>2. Above(rest, 0, t)
    BY <1>9, <2>1 DEF IsRest, Above
  <2>3. Ascends(rest, 0, t, h)
    BY <1>3, <1>4, <1>9, <2>1, <2>2, AscendsRest
  <2> QED
    BY <1>6, <1>7, <1>9, <1>10, <2>3 DEF rest
<1>11. CASE off + 1 # n
  <2>1. Above(q, off + 1, t)
    <3> SUFFICES ASSUME NEW i \in 1..Len(q), NEW a \in 1..Len(q[i].ticks),
                        i > 1 \/ a > off + 1
                 PROVE  t < q[i].ticks[a]
      BY DEF Above
    <3>1. 1 < i \/ (1 = i /\ off + 1 < a)
      BY <1>3
    <3> QED
      BY <1>9, <3>1
  <2>2. IsRest(q, q, 0)
    BY DEF IsRest
  <2>3. Ascends(q, off + 1, t, h)
    BY <1>3, <1>4, <1>9, <2>1, <2>2, AscendsRest
  <2> QED
    BY <1>6, <1>7, <1>9, <1>11, <2>3
<1> QED
  BY <1>10, <1>11

\* A packet that is later goes into a buffer.
LEMMA PushAscends ==
  ASSUME NEW b \in Buffers(Types), NEW p \in Packets(Types), NEW m \in Nat,
         NEW h \in Nat, NEW hi \in Nat, m <= h, h <= hi,
         Ascends(b.data, b.offset, m, h), TicksAscend(p, h, hi)
  PROVE  Ascends(Push(b, p).data, Push(b, p).offset, m, hi)
<1>1. b.data \in Seq(Packets(Types)) /\ b.offset \in Nat
  BY DEF Buffers
<1>2. b.data \in Seq(Entries) /\ p \in Entries
  BY <1>1, PacketsAreEntries DEF Entries
<1>3. Ascends(Append(b.data, p), b.offset, m, hi)
  BY <1>1, <1>2, AscendsMore
<1>4. Push(b, p).data = Append(b.data, p) /\ Push(b, p).offset = b.offset
  <2>1. b = [data |-> b.data, dataSize |-> b.dataSize, offset |-> b.offset]
    BY DEF Buffers
  <2> QED
    BY <2>1 DEF Push
<1> QED
  BY <1>3, <1>4

\* A pack is in order, and what is left is later.
LEMMA PackClimbs ==
  ASSUME NEW b \in Buffers(Types), b.dataSize >= PackSize, NEW m \in Nat,
         NEW h \in Nat, m <= h, Ascends(b.data, b.offset, m, h), NEW s
  PROVE  LET got == TakePack(s, b)
         IN  \E t \in m..h :
               /\ Climbs(got.pack)
               /\ \A v \in 1..Len(got.pack) : got.pack[v].tick \in m + 1..t
               /\ Ascends(got.buffer.data, got.buffer.offset, t, h)
<1>1. PICK f : Takes(f, s, b) /\ TakePack(s, b) = f[PackSize]
  BY TakePackUnfolds
<1> DEFINE Taken(st, i) == /\ st.buffer \in Buffers(Types)
                           /\ st.buffer.dataSize = b.dataSize - i
                           /\ st.pack \in Seq(Samples({s}, Types))
           Ordered(st) == \E t \in m..h :
                   /\ Climbs(st.pack)
                   /\ \A v \in 1..Len(st.pack) : st.pack[v].tick \in m + 1..t
                   /\ Ascends(st.buffer.data, st.buffer.offset, t, h)
           T == {i \in 0..PackSize : Taken(f[i], i) /\ Ordered(f[i])}
<1>0. PackSize \in Nat \ {0} /\ b.dataSize \in Nat
  BY PacksAssumption DEF Buffers
<1>2. 0 \in T
  <2>1. f[0] = [buffer |-> b, pack |-> <<>>]
    BY <1>1 DEF Takes
  <2>2. f[0].buffer = b /\ f[0].pack = <<>>
    BY <2>1
  <2>3. Taken(f[0], 0)
    BY <2>2, <1>0
  <2>4. m \in m..h
    OBVIOUS
  <2>5. Ordered(f[0])
    BY <2>2, <2>4 DEF Climbs
  <2> QED
    BY <2>3, <2>5, <1>0
<1>3. ASSUME NEW i \in 0..PackSize - 1, i \in T PROVE i + 1 \in T
  <2> DEFINE c == f[i].buffer
             pack == f[i].pack
             x == SampleAt(s, c)
  <2>1. i + 1 \in 1..PackSize /\ i \in Nat /\ (i + 1) - 1 = i
    BY <1>0
  <2>2. /\ c \in Buffers(Types) /\ c.dataSize = b.dataSize - i
        /\ pack \in Seq(Samples({s}, Types))
    BY <1>3
  <2>3. PICK t \in m..h :
          /\ Climbs(pack) /\ \A v \in 1..Len(pack) : pack[v].tick \in m + 1..t
          /\ Ascends(c.data, c.offset, t, h)
    BY <1>3
  <2>4. f[i + 1] = [buffer |-> getSample(c), pack |-> Append(pack, x)]
    BY <2>1, <1>1 DEF Takes
  <2> HIDE DEF c, pack
  <2>5. c.dataSize > 0
    BY <1>0, <2>1, <2>2
  <2>6. /\ getSample(c) \in Buffers(Types)
        /\ getSample(c).dataSize = c.dataSize - 1
        /\ x \in Samples({s}, Types)
    BY <2>2, <2>5, Used
  <2>7. PICK u \in t + 1..h : /\ x.tick = u
                              /\ Ascends(getSample(c).data, getSample(c).offset, u, h)
    BY <2>2, <2>3, <2>5, NextAscends
  <2> HIDE DEF x
  <2>8. /\ f[i + 1].buffer = getSample(c) /\ f[i + 1].pack = Append(pack, x)
    BY <2>4
  <2>9. Taken(f[i + 1], i + 1)
    <3>1. Append(pack, x) \in Seq(Samples({s}, Types))
      BY <2>2, <2>6
    <3>2. getSample(c).dataSize = b.dataSize - (i + 1)
      BY <1>0, <2>1, <2>2, <2>6
    <3> QED
      BY <2>6, <2>8, <3>1, <3>2
  <2>10. /\ Climbs(Append(pack, x))
         /\ \A v \in 1..Len(Append(pack, x)) : Append(pack, x)[v].tick \in m + 1..u
    <3> DEFINE new == Append(pack, x)
    <3>1. /\ Len(pack) \in Nat /\ Len(new) = Len(pack) + 1 /\ new[Len(pack) + 1] = x
          /\ \A v \in 1..Len(pack) : new[v] = pack[v]
      BY <2>2, <2>6
    <3> HIDE DEF new
    <3>2. ASSUME NEW v \in 1..Len(new) PROVE new[v].tick \in m + 1..u
      <4>1. CASE v = Len(pack) + 1
        BY <2>7, <3>1, <4>1
      <4>2. CASE v \in 1..Len(pack)
        <5>1. pack[v].tick \in m + 1..t
          BY <2>3, <4>2
        <5>2. \A y : y \in m + 1..t => y \in m + 1..u
          OBVIOUS
        <5> QED
          BY <3>1, <4>2, <5>1, <5>2
      <4> QED
        BY <3>1, <4>1, <4>2
    <3>3. ASSUME NEW v \in 1..Len(new), NEW w \in 1..Len(new), v < w
          PROVE  new[v].tick < new[w].tick
      <4>1. v \in 1..Len(pack) /\ new[v] = pack[v] /\ pack[v].tick \in m + 1..t
        BY <2>3, <3>1, <3>3
      <4>2. CASE w = Len(pack) + 1
        <5>1. PICK y : y = pack[v].tick
          OBVIOUS
        <5>2. y < u
          BY <4>1, <5>1
        <5> QED
          BY <2>7, <3>1, <4>1, <4>2, <5>1, <5>2
      <4>3. CASE w \in 1..Len(pack)
        BY <2>3, <3>1, <3>3, <4>1, <4>3 DEF Climbs
      <4> QED
        BY <3>1, <4>2, <4>3
    <3> QED
      BY <3>2, <3>3 DEF Climbs, new
  <2>11. u \in m..h
    OBVIOUS
  <2>12. Ordered(f[i + 1])
    <3> HIDE DEF T, Taken
    <3> QED
      BY <2>7, <2>8, <2>10, <2>11
  <2> HIDE DEF Taken, Ordered
  <2> QED
    BY <2>1, <2>9, <2>12
<1> HIDE DEF T
<1>4. 0..PackSize \subseteq T
  BY <1>0, <1>2, <1>3, Induction
<1>5. Ordered(f[PackSize])
  <2> HIDE DEF Ordered, Taken
  <2> QED
    BY <1>0, <1>4 DEF T
<1> QED
  BY <1>1, <1>5

\* Messages up to some tick, and a buffer of what is later, up to h.
InLine(x, s, lo, h) ==
  \E m \in lo..h : /\ Rising(x.messages, s, lo, m)
                   /\ Ascends(x.buffer.data, x.buffer.offset, m, h)

\* A turn of the loop keeps that.
LEMMA OnePackInLine ==
  ASSUME NEW s \in Signals, NEW st \in Read(s, Types, PackSize), NEW lo \in Nat,
         NEW h \in Nat, InLine(st, s, lo, h)
  PROVE  InLine(OnePack(s, st), s, lo, h)
<1>0. /\ PackSize \in Nat \ {0} /\ st.buffer \in Buffers(Types)
      /\ st.messages \in Seq(Singles(s, Types, PackSize)) /\ st.buffer.dataSize \in Nat
  BY PacksAssumption DEF Read, Buffers
<1>1. CASE st.buffer.dataSize < PackSize
  BY <1>1 DEF OnePack
<1>2. CASE ~ (st.buffer.dataSize < PackSize)
  <2> DEFINE taken == TakePack(s, st.buffer)
             message == OfOneSignal(s, taken.pack)
             ms == st.messages
  <2>1. st.buffer.dataSize >= PackSize
    BY <1>0, <1>2
  <2>2. PICK m \in lo..h : /\ Rising(ms, s, lo, m)
                           /\ Ascends(st.buffer.data, st.buffer.offset, m, h)
    BY DEF InLine
  <2>3. m \in Nat /\ m <= h /\ lo <= m
    OBVIOUS
  <2>4. PICK t \in m..h :
           /\ Climbs(taken.pack)
           /\ \A v \in 1..Len(taken.pack) : taken.pack[v].tick \in m + 1..t
           /\ Ascends(taken.buffer.data, taken.buffer.offset, t, h)
    BY <1>0, <2>1, <2>2, <2>3, PackClimbs
  <2>5. /\ taken.pack \in Seq(Samples({s}, Types)) /\ Len(taken.pack) = PackSize
    BY <1>0, <2>1, PackTaken
  <2>6. t \in Nat /\ m <= t /\ t \in lo..h
    BY <2>3
  <2>7. OnePack(s, st) = [buffer |-> taken.buffer, messages |-> Append(ms, message)]
    BY <1>2 DEF OnePack
  <2> HIDE DEF taken, ms
  <2>8. message \in Singles(s, Types, PackSize)
    BY <2>5 DEF Singles
  <2>9. InTurn(message, s) /\ \A u : Has(message, s, u) => u \in m + 1..t
    BY <2>3, <2>4, <2>5, <2>6, SingleInTurn
  <2> HIDE DEF message
  <2>10. Rising(Append(ms, message), s, lo, t)
    BY <1>0, <2>2, <2>3, <2>6, <2>8, <2>9, RisingMore DEF ms
  <2> QED
    BY <2>4, <2>6, <2>7, <2>10 DEF InLine
<1> QED
  BY <1>1, <1>2

\* A packet that is later is read.
LEMMA CollectInLine ==
  ASSUME NEW s \in Signals, NEW st \in Read(s, Types, PackSize), NEW p \in Packets(Types),
         NEW lo \in Nat, NEW h \in Nat, NEW hi \in Nat, h <= hi,
         InLine(st, s, lo, h), TicksAscend(p, h, hi)
  PROVE  InLine(Collect(s, st, p), s, lo, hi)
<1> DEFINE full == Push(st.buffer, p)
           n == full.dataSize
           first == [buffer |-> full, messages |-> st.messages]
<1>1. st.buffer \in Buffers(Types) /\ st.messages \in Seq(Singles(s, Types, PackSize))
  BY DEF Read
<1>2. full \in Buffers(Types) /\ n \in Nat
  BY <1>1, Pushed DEF Buffers
<1>3. PICK m \in lo..h : /\ Rising(st.messages, s, lo, m)
                         /\ Ascends(st.buffer.data, st.buffer.offset, m, h)
  BY DEF InLine
<1>4. m \in Nat /\ m <= h /\ m \in lo..hi
  OBVIOUS
<1>5. Ascends(full.data, full.offset, m, hi)
  BY <1>1, <1>3, <1>4, PushAscends
<1> HIDE DEF full
<1>6. PICK f : Packing(f, s, first, n) /\ Collect(s, st, p) = f[n]
  BY <1>2, CollectUnfolds DEF full
<1> DEFINE Good1(x) == x \in Read(s, Types, PackSize) /\ InLine(x, s, lo, hi)
           T == {i \in 0..n : Good1(f[i])}
<1>7. 0 \in T
  <2>1. f[0] = first
    BY <1>6 DEF Packing
  <2>2. first \in Read(s, Types, PackSize)
    BY <1>1, <1>2 DEF Read
  <2>3. InLine(first, s, lo, hi)
    BY <1>3, <1>4, <1>5 DEF InLine
  <2> QED
    BY <1>2, <2>1, <2>2, <2>3
<1>8. ASSUME NEW i \in 0..n - 1, i \in T PROVE i + 1 \in T
  <2> DEFINE x == f[i]
             y == OnePack(s, x)
  <2>1. i + 1 \in 1..n /\ i \in Nat /\ (i + 1) - 1 = i
    BY <1>2
  <2>2. x \in Read(s, Types, PackSize) /\ InLine(x, s, lo, hi)
    BY <1>8
  <2>3. f[i + 1] = y
    BY <2>1, <1>6 DEF Packing
  <2> HIDE DEF x
  <2>4. x.buffer \in Buffers(Types) /\ x.messages \in Seq(Singles(s, Types, PackSize))
    BY <2>2 DEF Read
  <2>5. y.buffer \in Buffers(Types) /\ y.messages \in Seq(Singles(s, Types, PackSize))
    BY <2>4, OnePackTaken
  <2>6. y = [buffer |-> y.buffer, messages |-> y.messages]
    <3>1. x = [buffer |-> x.buffer, messages |-> x.messages]
      BY <2>2 DEF Read
    <3> QED
      BY <3>1 DEF OnePack
  <2>7. InLine(y, s, lo, hi)
    BY <2>2, OnePackInLine
  <2> HIDE DEF y
  <2>8. y \in Read(s, Types, PackSize)
    BY <2>5, <2>6 DEF Read
  <2> QED
    BY <1>2, <2>1, <2>3, <2>7, <2>8
<1> HIDE DEF T
<1>9. 0..n \subseteq T
  BY <1>2, <1>7, <1>8, Induction
<1>10. Good1(f[n])
  <2> HIDE DEF Good1
  <2> QED
    BY <1>2, <1>9 DEF T
<1> QED
  BY <1>6, <1>10

\* Messages behind messages.
LEMMA RisingJoined ==
  ASSUME NEW X, NEW ms \in Seq(X), NEW ns \in Seq(X), NEW s, NEW lo \in Nat,
         NEW mid \in Nat, NEW hi \in Nat, lo <= mid, mid <= hi,
         Rising(ms, s, lo, mid), Rising(ns, s, mid, hi)
  PROVE  Rising(ms \o ns, s, lo, hi)
<1> DEFINE new == ms \o ns
<1>1. /\ Len(ms) \in Nat /\ Len(ns) \in Nat /\ Len(new) = Len(ms) + Len(ns)
      /\ \A i \in 1..Len(ms) : new[i] = ms[i]
      /\ \A i \in 1..Len(ns) : new[i + Len(ms)] = ns[i]
  OBVIOUS
<1> HIDE DEF new
<1>2. ASSUME NEW i \in 1..Len(new)
      PROVE  i \in 1..Len(ms) \/ \E k \in 1..Len(ns) : i = k + Len(ms)
  <2>1. CASE i > Len(ms)
    <3>1. i - Len(ms) \in 1..Len(ns) /\ i = (i - Len(ms)) + Len(ms)
      BY <1>1, <2>1
    <3> QED
      BY <3>1
  <2> QED
    BY <1>1, <2>1
<1>3. ASSUME NEW i \in 1..Len(ms), NEW t, Has(ms[i], s, t)
      PROVE  t \in lo + 1..mid /\ t \in lo + 1..hi
  <2>1. t \in lo + 1..mid
    BY <1>3 DEF Rising
  <2> QED
    BY <2>1
<1>4. ASSUME NEW i \in 1..Len(ns), NEW t, Has(ns[i], s, t)
      PROVE  t \in mid + 1..hi /\ t \in lo + 1..hi
  <2>1. t \in mid + 1..hi
    BY <1>4 DEF Rising
  <2> QED
    BY <2>1
<1>5. ASSUME NEW i \in 1..Len(new)
      PROVE  InTurn(new[i], s) /\ \A t : Has(new[i], s, t) => t \in lo + 1..hi
  <2>1. CASE i \in 1..Len(ms)
    BY <1>1, <1>3, <2>1 DEF Rising
  <2>2. CASE \E k \in 1..Len(ns) : i = k + Len(ms)
    BY <1>1, <1>4, <2>2 DEF Rising
  <2> QED
    BY <1>2, <2>1, <2>2
<1>6. ASSUME NEW i \in 1..Len(new), NEW j \in 1..Len(new), i < j, NEW t, NEW u,
             Has(new[i], s, t), Has(new[j], s, u)
      PROVE  t < u
  <2>1. CASE i \in 1..Len(ms) /\ j \in 1..Len(ms)
    BY <1>1, <1>6, <2>1 DEF Rising
  <2>2. CASE i \in 1..Len(ms) /\ \E k \in 1..Len(ns) : j = k + Len(ms)
    <3>1. t \in lo + 1..mid /\ u \in mid + 1..hi
      BY <1>1, <1>3, <1>4, <1>6, <2>2
    <3> QED
      BY <3>1
  <2>3. CASE /\ \E k \in 1..Len(ns) : i = k + Len(ms)
             /\ \E k \in 1..Len(ns) : j = k + Len(ms)
    <3>1. PICK k \in 1..Len(ns) : i = k + Len(ms)
      BY <2>3
    <3>2. PICK l \in 1..Len(ns) : j = l + Len(ms)
      BY <2>3
    <3>3. k < l /\ Has(ns[k], s, t) /\ Has(ns[l], s, u)
      BY <1>1, <1>6, <3>1, <3>2
    <3> QED
      BY <3>3 DEF Rising
  <2>4. ~(/\ \E k \in 1..Len(ns) : i = k + Len(ms)
          /\ j \in 1..Len(ms))
    BY <1>1, <1>6
  <2> QED
    BY <1>2, <2>1, <2>2, <2>3, <2>4
<1> QED
  BY <1>5, <1>6 DEF Rising, new

\* A message for each sample of a packet that is later.
LEMMA CollectEachInLine ==
  ASSUME NEW s \in Signals, NEW st \in Read(s, Types, 1), NEW p \in Packets(Types),
         NEW lo \in Nat, NEW h \in Nat, NEW hi \in Nat, h <= hi,
         InLine(st, s, lo, h), st.buffer = NoBuffer, TicksAscend(p, h, hi)
  PROVE  InLine(CollectEach(s, st, p), s, lo, hi)
<1> DEFINE message(i) ==
             OfOneSignal(s, <<Sample(s, p.ticks[i], p.type, p.type)>>)
           more == [i \in DOMAIN p.ticks |-> message(i)]
           ms == st.messages
           X == Singles(s, Types, 1)
<1>1. /\ p.ticks \in Seq(Nat) /\ p.type \in Types /\ ms \in Seq(X)
      /\ DOMAIN p.ticks = 1..Len(p.ticks) /\ Len(p.ticks) \in Nat
  BY DEF Packets, Read
<1>2. ASSUME NEW i \in DOMAIN p.ticks
      PROVE  /\ message(i) \in X /\ InTurn(message(i), s)
             /\ \A t : Has(message(i), s, t) => t = p.ticks[i] /\ t \in h + 1..hi
  <2> DEFINE x == Sample(s, p.ticks[i], p.type, p.type)
             u == p.ticks[i]
  <2>1. x \in Samples({s}, Types) /\ x.tick = u /\ u \in h + 1..hi
    BY <1>1 DEF Sample, Samples, TicksAscend
  <2> HIDE DEF x, u
  <2>2. <<x>> \in Seq(Samples({s}, Types)) /\ Len(<<x>>) = 1 /\ <<x>>[1] = x
    BY <2>1
  <2>3. message(i) = OfOneSignal(s, <<x>>)
    BY DEF x
  <2>4. Climbs(<<x>>)
    BY <2>2 DEF Climbs
  <2>5. u - 1 \in Nat /\ u \in Nat /\ u \in (u - 1) + 1..u
    BY <2>1
  <2>6. \A v \in 1..Len(<<x>>) : <<x>>[v].tick \in (u - 1) + 1..u
    BY <2>1, <2>2, <2>5
  <2>7. /\ InTurn(message(i), s)
        /\ \A t : Has(message(i), s, t) => t \in (u - 1) + 1..u
    BY <2>2, <2>3, <2>4, <2>5, <2>6, SingleInTurn
  <2>8. \A t : t \in (u - 1) + 1..u => t = u
    BY <2>5
  <2>9. message(i) \in X
    BY <2>2, <2>3 DEF Singles
  <2> QED
    BY <2>1, <2>7, <2>8, <2>9 DEF u
<1> HIDE DEF message, X
<1>3. more \in Seq(X) /\ Len(more) = Len(p.ticks)
      /\ \A i \in 1..Len(more) : more[i] = message(i)
  BY <1>1, <1>2
<1>4. Rising(more, s, h, hi)
  <2> HIDE DEF more
  <2>1. ASSUME NEW i \in 1..Len(more), NEW j \in 1..Len(more), i < j, NEW t, NEW u,
               Has(more[i], s, t), Has(more[j], s, u)
        PROVE  t < u
    <3>1. t = p.ticks[i] /\ u = p.ticks[j]
      BY <1>1, <1>2, <1>3, <2>1
    <3> QED
      BY <1>3, <2>1, <3>1 DEF TicksAscend
  <2> QED
    BY <1>1, <1>2, <1>3, <2>1 DEF Rising
<1>5. CollectEach(s, st, p) = [st EXCEPT !.messages = ms \o more]
  BY DEF CollectEach, message
<1> HIDE DEF more
<1>6. PICK m \in lo..h : Rising(ms, s, lo, m)
  BY DEF InLine, ms
<1>7. Rising(ms, s, lo, h) /\ lo <= h
  BY <1>6, RisingWider
<1>8. Rising(ms \o more, s, lo, hi)
  BY <1>1, <1>3, <1>4, <1>7, RisingJoined
<1>9. CollectEach(s, st, p) = [buffer |-> NoBuffer, messages |-> ms \o more]
  BY <1>5 DEF Read, ms
<1>10. Ascends(NoBuffer.data, NoBuffer.offset, hi, hi)
  BY AscendsNone DEF NoBuffer
<1> QED
  BY <1>7, <1>8, <1>9, <1>10 DEF InLine

\* The ticks behind the first i packets are later than h.
Behind(q, i, h) ==
  \A j \in 1..Len(q) : j > i => \A c \in 1..Len(q[j].ticks) : h < q[j].ticks[c]

\* The next packet is up to its last tick.
LEMMA NextPacket ==
  ASSUME NEW q \in Seq(Entries), NEW h0 \in Nat, NEW hi \in Nat, Ascends(q, 0, h0, hi),
         NEW i \in 1..Len(q), q[i] \in Packets(Types), NEW h \in h0..hi,
         Behind(q, i - 1, h)
  PROVE  \E g \in h..hi : TicksAscend(q[i], h, g) /\ Behind(q, i, g)
<1> DEFINE p == q[i]
           n == Len(p.ticks)
<1>1. p.ticks \in Seq(Nat) /\ n \in Nat \ {0} /\ i \in Nat
  BY DEF Packets
<1>2. PICK g : g = p.ticks[n]
  OBVIOUS
<1>3. n \in 1..n
  BY <1>1
<1>4. ASSUME NEW a \in 1..n
      PROVE  /\ h < p.ticks[a] /\ p.ticks[a] \in h0 + 1..hi
             /\ \A j \in 1..Len(q) : \A c \in 1..Len(q[j].ticks) :
                  i < j \/ (i = j /\ a < c) => p.ticks[a] < q[j].ticks[c]
  <2>1. a > 0
    OBVIOUS
  <2>2. /\ p.ticks[a] \in h0 + 1..hi
        /\ \A j \in 1..Len(q) : \A c \in 1..Len(q[j].ticks) :
             i < j \/ (i = j /\ a < c) => p.ticks[a] < q[j].ticks[c]
    BY <2>1 DEF Ascends
  <2>3. h < p.ticks[a]
    BY <1>1 DEF Behind
  <2> QED
    BY <2>2, <2>3
<1>5. g \in h0 + 1..hi /\ h < g
  BY <1>2, <1>3, <1>4
<1>6. g \in h..hi
  BY <1>5
<1>7. ASSUME NEW a \in 1..n PROVE p.ticks[a] \in h + 1..g
  <2>1. PICK t : t = p.ticks[a]
    OBVIOUS
  <2>2. t \in h0 + 1..hi /\ h < t
    BY <1>4, <2>1
  <2>3. t <= g
    <3>1. CASE a = n
      BY <1>2, <1>5, <2>1, <3>1
    <3>2. CASE a # n
      <4>1. a < n
        BY <1>1, <3>2
      <4>2. t < g
        BY <1>2, <1>3, <1>4, <2>1, <4>1
      <4> QED
        BY <1>5, <2>2, <4>2
    <3> QED
      BY <3>1, <3>2
  <2> QED
    BY <1>5, <2>1, <2>2, <2>3
<1>8. TicksAscend(p, h, g)
  BY <1>4, <1>7 DEF TicksAscend
<1>9. Behind(q, i, g)
  BY <1>2, <1>3, <1>4 DEF Behind
<1> QED
  BY <1>6, <1>8, <1>9

\* data is what q begins with.
Begins(data, q) == Len(data) <= Len(q) /\ \A i \in 1..Len(data) : data[i] = q[i]

\* All packets up to an event are read; the rest is later.
LEMMA CollectAllInLine ==
  ASSUME NEW s \in Signals, NEW b \in Buffers(Types), b.dataSize < PackSize,
         NEW q \in Seq(Entries), NEW data \in Seq(Packets(Types)), Begins(data, q),
         NEW k, k = "each" => b = NoBuffer,
         NEW lo \in Nat, NEW hi \in Nat, NEW h0 \in lo..hi,
         Ascends(b.data, b.offset, lo, h0), Ascends(q, 0, h0, hi)
  PROVE  \E h \in h0..hi : /\ InLine(CollectAll(s, b, data, k), s, lo, h)
                           /\ Behind(q, Len(data), h)
<1> DEFINE n == Len(data)
           first == [buffer |-> b, messages |-> <<>>]
<1>1. PICK f : Collecting(f, s, b, data, k) /\ CollectAll(s, b, data, k) = f[n]
  BY CollectAllUnfolds
<1> DEFINE Sized(x) == x \in Read(s, Types, SizeOf(k)) /\ (k = "each" => x.buffer = NoBuffer)
           Lies(x, i) == \E h \in h0..hi : InLine(x, s, lo, h) /\ Behind(q, i, h)
           T == {i \in 0..n : Sized(f[i]) /\ Lies(f[i], i)}
<1>2. 0 \in T
  <2>1. f[0] = first
    BY <1>1 DEF Collecting
  <2>2. Sized(first)
    BY DEF Read
  <2>3. InLine(first, s, lo, h0)
    <3>1. lo \in lo..h0
      OBVIOUS
    <3>2. Rising(<<>>, s, lo, lo)
      BY RisingNone
    <3>3. first.buffer = b /\ first.messages = <<>>
      OBVIOUS
    <3> HIDE DEF first
    <3> QED
      BY <3>1, <3>2, <3>3 DEF InLine
  <2>4. Behind(q, 0, h0)
    <3> SUFFICES ASSUME NEW j \in 1..Len(q), NEW c \in 1..Len(q[j].ticks)
                 PROVE  h0 < q[j].ticks[c]
      BY DEF Behind
    <3>1. q[j].ticks[c] \in h0 + 1..hi
      <4>1. c > 0
        OBVIOUS
      <4> QED
        BY <4>1 DEF Ascends
    <3> QED
      BY <3>1
  <2>5. h0 \in h0..hi
    OBVIOUS
  <2> HIDE DEF first, Sized
  <2> QED
    BY <2>1, <2>2, <2>3, <2>4, <2>5
<1>3. ASSUME NEW i \in 0..n - 1, i \in T PROVE i + 1 \in T
  <2> DEFINE x == f[i]
             p == data[i + 1]
  <2>1. /\ i + 1 \in 1..n /\ (i + 1) - 1 = i /\ p \in Packets(Types)
        /\ i + 1 \in 1..Len(q) /\ p = q[i + 1]
    BY DEF Begins
  <2>2. Sized(x)
    BY <1>3
  <2>3. f[i + 1] = IF k = "each" THEN CollectEach(s, x, p) ELSE Collect(s, x, p)
    BY <2>1, <1>1 DEF Collecting
  <2>4. PICK h \in h0..hi : InLine(x, s, lo, h) /\ Behind(q, i, h)
    BY <1>3
  <2>5. h0 \in Nat /\ h \in Nat
    OBVIOUS
  <2> HIDE DEF x, p
  <2>6. PICK g \in h..hi : TicksAscend(p, h, g) /\ Behind(q, i + 1, g)
    BY <2>1, <2>4, <2>5, NextPacket
  <2>7. g \in Nat /\ h <= g /\ g \in h0..hi
    BY <2>5
  <2>8. CASE k = "each"
    <3>1. x \in Read(s, Types, 1) /\ x.buffer = NoBuffer
      BY <2>2, <2>8 DEF SizeOf
    <3>2. /\ CollectEach(s, x, p) \in Read(s, Types, 1)
          /\ CollectEach(s, x, p).buffer = x.buffer
      BY <2>1, <3>1, CollectedEach
    <3>3. InLine(CollectEach(s, x, p), s, lo, g)
      BY <2>1, <2>4, <2>5, <2>6, <2>7, <3>1, CollectEachInLine
    <3> QED
      BY <2>1, <2>3, <2>6, <2>7, <2>8, <3>1, <3>2, <3>3 DEF SizeOf
  <2>9. CASE k # "each"
    <3>1. x \in Read(s, Types, PackSize)
      BY <2>2, <2>9 DEF SizeOf
    <3>2. Collect(s, x, p) \in Read(s, Types, PackSize)
      BY <2>1, <3>1, Collected
    <3>3. InLine(Collect(s, x, p), s, lo, g)
      BY <2>1, <2>4, <2>5, <2>6, <2>7, <3>1, CollectInLine
    <3> QED
      BY <2>1, <2>3, <2>6, <2>7, <2>9, <3>2, <3>3 DEF SizeOf
  <2> QED
    BY <2>8, <2>9
<1>0. n \in Nat
  OBVIOUS
<1> HIDE DEF T, n
<1>4. 0..n \subseteq T
  BY <1>0, <1>2, <1>3, Induction
<1>5. Lies(f[n], n)
  <2> HIDE DEF Lies, Sized
  <2> QED
    BY <1>0, <1>4 DEF T
<1> QED
  BY <1>1, <1>5 DEF n

\* What is before the first event of a queue and what is behind it.
LEMMA PartsLie ==
  ASSUME NEW q \in Seq(Entries)
  PROVE  LET m == FirstEvent(q)
         IN  /\ Begins(BeforeEvent(q), q)
             /\ m = 0 => AfterEvent(q) = <<>>
             /\ m # 0 => IsRest(AfterEvent(q), q, m) /\ Len(BeforeEvent(q)) = m - 1
<1> DEFINE data == BeforeEvent(q)
           m == FirstEvent(q)
           rest == AfterEvent(q)
<1>1. m \in 0..Len(q)
  BY FirstIs
<1>2. /\ Begins(data, q)
      /\ m = 0 => rest = <<>>
      /\ m # 0 => IsRest(rest, q, m) /\ Len(data) = m - 1
  <2>1. CASE m = 0
    <3>1. data = q /\ rest = <<>>
      BY <2>1 DEF BeforeEvent, AfterEvent
    <3> QED
      BY <2>1, <3>1 DEF Begins
  <2>2. CASE m # 0
    <3>1. data = SubSeq(q, 1, m - 1) /\ rest = SubSeq(q, m + 1, Len(q))
      BY <2>2 DEF BeforeEvent, AfterEvent
    <3> HIDE DEF data, rest, m
    <3>2. m \in 1..Len(q)
      BY <1>1, <2>2
    <3>3. Len(data) = m - 1 /\ \A i \in 1..Len(data) : data[i] = q[i]
      BY <3>1, <3>2
    <3>4. Len(rest) = Len(q) - m /\ \A i \in 1..Len(rest) : rest[i] = q[i + m]
      BY <3>1, <3>2
    <3> QED
      BY <2>2, <3>2, <3>3, <3>4 DEF Begins, IsRest
  <2> QED
    BY <2>1, <2>2
<1> QED
  BY <1>2

\* A turn for one signal: its messages go on behind what was published, and
\* what waits is later.
LEMMA SignalInLine ==
  ASSUME NEW s \in Signals, NEW b \in Buffers(Types), b.dataSize < PackSize,
         NEW q \in Seq(Entries), NEW k, k = "each" => b = NoBuffer,
         NEW lo \in Nat, NEW hi \in Nat, NEW h0 \in lo..hi,
         Ascends(b.data, b.offset, lo, h0), Ascends(q, 0, h0, hi)
  PROVE  LET got == processSignalContext(s, b, q, k)
         IN  \E h \in lo..hi : /\ InLine(got, s, lo, h)
                               /\ Ascends(AfterEvent(q), 0, h, hi)
<1> DEFINE data == BeforeEvent(q)
           read == CollectAll(s, b, data, k)
           got == processSignalContext(s, b, q, k)
           m == FirstEvent(q)
           rest == AfterEvent(q)
<1>1. /\ data \in Seq(Packets(Types)) /\ rest \in Seq(Entries)
      /\ m \in 0..Len(q) /\ h0 \in Nat
  BY Parts, FirstIs
<1>2. /\ Begins(data, q)
      /\ m = 0 => rest = <<>>
      /\ m # 0 => IsRest(rest, q, m) /\ Len(data) = m - 1
  BY PartsLie
<1>3. got = IF m = 0 THEN read ELSE [read EXCEPT !.buffer = NoBuffer]
  BY DEF processSignalContext, processSignalDescriptorChanged
<1>4. read \in Read(s, Types, SizeOf(k))
  BY <1>1, CollectedAll
<1> HIDE DEF data, read, got, m, rest
<1>5. PICK h \in h0..hi : InLine(read, s, lo, h) /\ Behind(q, Len(data), h)
  BY <1>1, <1>2, CollectAllInLine DEF read
<1>6. h \in lo..hi /\ h \in Nat
  BY <1>1
<1>7. CASE m = 0
  BY <1>2, <1>3, <1>5, <1>6, <1>7, AscendsNone DEF got, rest
<1>8. CASE m # 0
  <2>1. got.buffer = NoBuffer /\ got.messages = read.messages
    BY <1>3, <1>4, <1>8 DEF Read
  <2>2. InLine(got, s, lo, h)
    <3>1. PICK t \in lo..h : Rising(read.messages, s, lo, t)
      BY <1>5 DEF InLine
    <3>2. Ascends(NoBuffer.data, NoBuffer.offset, t, h)
      BY AscendsNone DEF NoBuffer
    <3> QED
      BY <2>1, <3>1, <3>2 DEF InLine
  <2>3. Above(rest, 0, h)
    <3> SUFFICES ASSUME NEW i \in 1..Len(rest), NEW a \in 1..Len(rest[i].ticks)
                 PROVE  h < rest[i].ticks[a]
      BY DEF Above
    <3>1. i + m \in 1..Len(q) /\ rest[i] = q[i + m] /\ i + m > Len(data)
      BY <1>1, <1>2, <1>8 DEF IsRest
    <3> QED
      BY <1>5, <3>1 DEF Behind
  <2>4. m \in Nat
    BY <1>1
  <2>5. Ascends(rest, 0, h, hi)
    BY <1>1, <1>2, <1>6, <1>8, <2>3, <2>4, AscendsRest
  <2> QED
    BY <1>6, <2>2, <2>5 DEF got, rest
<1> QED
  BY <1>7, <1>8

\* Messages that have no sample of s.
Silent(ms, s) == \A t : ~Published(ms, s, t)

\* They are in order anywhere.
LEMMA SilentRises ==
  ASSUME NEW ms, NEW s, Silent(ms, s), NEW lo, NEW hi
  PROVE  Rising(ms, s, lo, hi)
<1>1. \A i \in 1..Len(ms) : \A t : ~Has(ms[i], s, t)
  BY DEF Silent, Published
<1>2. ASSUME NEW i \in 1..Len(ms) PROVE InTurn(ms[i], s)
  <2> DEFINE m == ms[i]
  <2>1. \A t : ~Has(m, s, t)
    BY <1>1
  <2> HIDE DEF m
  <2>2. InTurn(m, s)
    BY <2>1 DEF Has, InTurn
  <2> QED
    BY <2>2 DEF m
<1> QED
  BY <1>1, <1>2 DEF Rising

\* What messages behind messages publish.
LEMMA PublishedJoined ==
  ASSUME NEW X, NEW ms \in Seq(X), NEW ns \in Seq(X), NEW s, NEW t,
         Published(ms \o ns, s, t)
  PROVE  Published(ms, s, t) \/ Published(ns, s, t)
<1> DEFINE new == ms \o ns
<1>1. /\ Len(ms) \in Nat /\ Len(ns) \in Nat /\ Len(new) = Len(ms) + Len(ns)
      /\ \A i \in 1..Len(ms) : new[i] = ms[i]
      /\ \A i \in 1..Len(ns) : new[i + Len(ms)] = ns[i]
  OBVIOUS
<1>2. PICK i \in 1..Len(new) : Has(new[i], s, t)
  BY DEF Published
<1> HIDE DEF new
<1>3. CASE i \in 1..Len(ms)
  BY <1>1, <1>2, <1>3 DEF Published
<1>4. CASE i > Len(ms)
  <2>1. PICK k \in 1..Len(ns) : i = k + Len(ms)
    <3>1. i - Len(ms) \in 1..Len(ns) /\ i = (i - Len(ms)) + Len(ms)
      BY <1>1, <1>4
    <3> QED
      BY <3>1
  <2> QED
    BY <1>1, <1>2, <2>1 DEF Published
<1> QED
  BY <1>1, <1>3, <1>4

\* s is in one list at most.
InOne(lists, s) ==
  \A i, j \in 1..Len(lists) : i # j => Silent(lists[i], s) \/ Silent(lists[j], s)

\* Messages that are joined are in order, when one list at most is of the signal.
LEMMA JoinedRises ==
  ASSUME NEW X, NEW lists \in Seq(Seq(X)), NEW s, NEW lo \in Nat, NEW hi \in Nat,
         lo <= hi, \A i \in 1..Len(lists) : Rising(lists[i], s, lo, hi),
         InOne(lists, s)
  PROVE  /\ Rising(Joined(lists), s, lo, hi)
         /\ \A t : Published(Joined(lists), s, t) =>
              \E i \in 1..Len(lists) : Published(lists[i], s, t)
<1> DEFINE n == Len(lists)
<1>1. PICK f : Joining(f, lists) /\ Joined(lists) = f[n]
  BY JoinedUnfolds
<1> DEFINE From(ms, i) == \A t : Published(ms, s, t) =>
                            \E j \in 1..Len(lists) : j <= i /\ Published(lists[j], s, t)
           Fit(ms, i) == ms \in Seq(X) /\ Rising(ms, s, lo, hi) /\ From(ms, i)
           T == {i \in 0..n : Fit(f[i], i)}
<1>0. n \in Nat
  OBVIOUS
<1>2. 0 \in T
  <2>1. f[0] = <<>> /\ <<>> \in Seq(X)
    BY <1>1 DEF Joining
  <2>2. Rising(<<>>, s, lo, hi) /\ From(<<>>, 0)
    BY RisingNone
  <2>3. Fit(f[0], 0)
    <3> HIDE DEF From
    <3> QED
      BY <2>1, <2>2
  <2> HIDE DEF Fit
  <2> QED
    BY <1>0, <2>3
<1>3. ASSUME NEW i \in 0..n - 1, i \in T PROVE i + 1 \in T
  <2> DEFINE ms == f[i]
             ns == lists[i + 1]
  <2>1. i + 1 \in 1..n /\ (i + 1) - 1 = i /\ ns \in Seq(X)
    OBVIOUS
  <2>2. f[i + 1] = ms \o ns
    BY <2>1, <1>1 DEF Joining
  <2>3. ms \in Seq(X) /\ Rising(ms, s, lo, hi) /\ From(ms, i)
    BY <1>3
  <2>4. Rising(ns, s, lo, hi)
    BY <2>1
  <2> HIDE DEF ms
  <2>5. Rising(ms \o ns, s, lo, hi)
    <3>1. CASE Silent(ms, s)
      <4>1. Rising(ms, s, lo, lo)
        BY <3>1, SilentRises
      <4> HIDE DEF ns
      <4> QED
        BY <2>1, <2>3, <2>4, <4>1, RisingJoined
    <3>2. CASE ~Silent(ms, s)
      <4>1. PICK j \in 1..n : j <= i /\ ~Silent(lists[j], s)
        BY <2>3, <3>2 DEF Silent
      <4>2. j # i + 1
        BY <4>1
      <4>3. Silent(ns, s)
        BY <2>1, <4>1, <4>2 DEF InOne
      <4>4. Rising(ns, s, hi, hi)
        BY <4>3, SilentRises
      <4> HIDE DEF ns
      <4> QED
        BY <2>1, <2>3, <4>4, RisingJoined
    <3> QED
      BY <3>1, <3>2
  <2>6. From(ms \o ns, i + 1)
    <3> SUFFICES ASSUME NEW t, Published(ms \o ns, s, t)
                 PROVE  \E j \in 1..Len(lists) : j <= i + 1 /\ Published(lists[j], s, t)
      OBVIOUS
    <3>1. Published(ms, s, t) \/ Published(ns, s, t)
      <4> HIDE DEF ns
      <4> QED
        BY <2>1, <2>3, PublishedJoined
    <3>2. CASE Published(ms, s, t)
      <4>1. PICK j \in 1..Len(lists) : j <= i /\ Published(lists[j], s, t)
        BY <2>3, <3>2
      <4>2. j <= i + 1
        BY <4>1
      <4> QED
        BY <4>1, <4>2
    <3>3. CASE Published(ns, s, t)
      BY <2>1, <3>3
    <3> QED
      BY <3>1, <3>2, <3>3
  <2>7. ms \o ns \in Seq(X)
    BY <2>1, <2>3
  <2> HIDE DEF ns, From
  <2>8. Fit(f[i + 1], i + 1)
    BY <2>2, <2>5, <2>6, <2>7
  <2>9. i + 1 \in 0..n
    BY <1>0, <2>1
  <2> HIDE DEF Fit
  <2> QED
    BY <2>8, <2>9
<1> HIDE DEF T, n
<1>4. 0..n \subseteq T
  BY <1>0, <1>2, <1>3, Induction
<1>5. Rising(f[n], s, lo, hi) /\ From(f[n], n)
  <2> HIDE DEF Fit
  <2>1. Fit(f[n], n)
    BY <1>0, <1>4 DEF T
  <2> QED
    BY <2>1 DEF Fit
<1> QED
  BY <1>1, <1>5

\* The lists of a builder: its packs, and the one that is begun.
Lists(b) == Append(b.values, b.current)

\* The samples in lists are in order, and later than lo.
Climb(ls, lo) ==
  \A i \in 1..Len(ls) : \A v \in 1..Len(ls[i]) :
    /\ lo < ls[i][v].tick
    /\ \A j \in 1..Len(ls) : \A w \in 1..Len(ls[j]) :
         i < j \/ (i = j /\ v < w) => ls[i][v].tick < ls[j][w].tick

\* The samples in lists are of ticks up to those in H.
Within(ls, H) ==
  \A i \in 1..Len(ls) : \A v \in 1..Len(ls[i]) : ls[i][v].tick <= H[ls[i][v].signal]

\* What waits for a signal: in its buffer what is later than lo, in its queue what
\* is later than h.
Waits(st, s, lo, h, now) ==
  LET b == st.handler.signalBuffers[s]
  IN  /\ h \in lo..now
      /\ Ascends(b.data, b.offset, lo, h)
      /\ Ascends(st.queue[s], 0, h, now)

\* Samples wait in order, behind the last that was published of each signal, L;
\* H is what of each signal has left its queue.
Ordered(st, L, H, now) ==
  LET bs == st.handler.dataBuilders
  IN  /\ Distinct(st.ports)
      /\ L \in [Signals -> Nat] /\ H \in [Signals -> Nat]
      /\ \A s \in Signals : Waits(st, s, L[s], H[s], now)
      /\ \A n \in 1..Len(bs) : Within(Lists(bs[n]), H)
      /\ ~st.handler.replaced =>
           \A n \in 1..Len(bs) : Climb(Lists(bs[n]), L[st.handler.reader[n]])

\* The last published, when these messages are.
Continues(L, new, ms) ==
  /\ new \in [Signals -> Nat]
  /\ \A s \in Signals : new[s] = L[s] \/ Published(ms, s, new[s])

\* A message of one signal has no sample of another.
LEMMA AloneHas ==
  ASSUME NEW s \in Signals, NEW U, NEW n, NEW m \in Singles(s, U, n), NEW r, NEW t,
         Has(m, r, t)
  PROVE  r = s
<1>1. PICK xs \in Seq(Samples({s}, U)) : m = OfOneSignal(s, xs)
  BY DEF Singles
<1>2. m.fields = [i \in DOMAIN <<s>> |-> [name |-> <<s>>[i], values |-> <<xs>>[i]]]
  BY <1>1 DEF OfOneSignal, Message
<1>3. DOMAIN m.fields = {1} /\ m.fields[1].values = xs
  BY <1>2
<1>4. PICK f \in DOMAIN m.fields : \E v \in DOMAIN m.fields[f].values :
        m.fields[f].values[v].signal = r /\ t = m.fields[f].values[v].tick
  BY DEF Has
<1>5. PICK v \in DOMAIN xs : xs[v].signal = r
  BY <1>3, <1>4
<1>6. xs[v] \in Samples({s}, U)
  OBVIOUS
<1> QED
  BY <1>5, <1>6 DEF Samples

\* A turn of the handlers that have signals one by one publishes in order, and
\* what waits then is later.
LEMMA EachInOrder ==
  ASSUME NEW k \in {"each", "array"}, NEW st, Sound(st, k), NEW now \in Nat,
         NEW L, NEW H, Ordered(st, L, H, now)
  PROVE  LET got == ProcessEach(st, k)
         IN  /\ \A s \in Signals : Rising(got.messages, s, L[s], now)
             /\ \E H2 : \A L2 : Continues(L, L2, got.messages)
                                  => Ordered(got.st, L2, H2, now)
<1> DEFINE on == Range(st.ports)
           of == [s \in on |-> processSignalContext(s,
                                  st.handler.signalBuffers[s], st.queue[s], k)]
           buffers == [s \in Signals |->
             IF s \in on THEN of[s].buffer ELSE st.handler.signalBuffers[s]]
           queues == [s \in Signals |->
             IF s \in on THEN AfterEvent(st.queue[s]) ELSE st.queue[s]]
           lists == [i \in DOMAIN st.ports |-> of[st.ports[i]].messages]
           got == ProcessEach(st, k)
           X == UNION {Singles(s, Types, SizeOf(k)) : s \in Signals}
<1>1. /\ st \in Blocks /\ st.handler \in Handlers /\ st.ports \in Seq(Signals)
      /\ st.queue \in [Signals -> Seq(Entries)]
      /\ st.handler.signalBuffers \in [Signals -> Buffers(Types)]
      /\ Good(st.handler, k)
  BY DEF Sound, Blocks, Handlers
<1>2. /\ on \subseteq Signals /\ \A i \in DOMAIN st.ports : st.ports[i] \in on
      /\ DOMAIN st.ports = 1..Len(st.ports) /\ Len(st.ports) \in Nat
  BY <1>1 DEF Range
<1>3. /\ Distinct(st.ports) /\ L \in [Signals -> Nat] /\ H \in [Signals -> Nat]
      /\ \A s \in Signals : Waits(st, s, L[s], H[s], now)
  BY DEF Ordered
<1> DEFINE Done(s, h) == /\ h \in L[s]..now /\ InLine(of[s], s, L[s], h)
                         /\ Ascends(AfterEvent(st.queue[s]), 0, h, now)
<1>4. ASSUME NEW s \in on
      PROVE  /\ of[s].messages \in Seq(Singles(s, Types, SizeOf(k)))
             /\ of[s].messages \in Seq(X)
             /\ of[s].buffer \in Buffers(Types)
             /\ \E h : Done(s, h)
  <2> DEFINE b == st.handler.signalBuffers[s]
             q == st.queue[s]
             lo == L[s]
             h0 == H[s]
             one == of[s]
             Y == Singles(s, Types, SizeOf(k))
             ms == of[s].messages
  <2>1. s \in Signals
    BY <1>2
  <2>2. b \in Buffers(Types) /\ q \in Seq(Entries) /\ lo \in Nat
    BY <1>1, <1>3, <2>1
  <2>3. b.dataSize < PackSize /\ (k = "each" => b = NoBuffer)
    BY <1>1, <2>1 DEF Good, Less, Own
  <2>4. h0 \in lo..now /\ Ascends(b.data, b.offset, lo, h0) /\ Ascends(q, 0, h0, now)
    BY <1>3, <2>1 DEF Waits
  <2>5. one = processSignalContext(s, b, q, k)
    OBVIOUS
  <2> HIDE DEF b, q, lo, h0, one, of, Y, ms
  <2>6. \E h \in lo..now : InLine(one, s, lo, h) /\ Ascends(AfterEvent(q), 0, h, now)
    BY <2>1, <2>2, <2>3, <2>4, <2>5, SignalInLine
  <2>7. BeforeEvent(q) \in Seq(Packets(Types))
    BY <2>2, Parts
  <2>8. one \in Read(s, Types, SizeOf(k))
    BY <2>2, <2>3, <2>5, <2>7, ContextProcessed
  <2>9. ms \in Seq(Y) /\ of[s].buffer \in Buffers(Types)
    BY <2>8 DEF Read, one, Y, ms
  <2>10. Y \subseteq X
    BY <2>1 DEF Y
  <2> HIDE DEF X
  <2>11. ms \in Seq(X)
    <3>1. \A i \in 1..Len(ms) : ms[i] \in X
      BY <2>9, <2>10
    <3> QED
      BY <2>9, <3>1
  <2> QED
    BY <2>6, <2>9, <2>11 DEF b, q, lo, h0, one, Y, ms
<1>5. /\ got.st = [st EXCEPT !.handler.signalBuffers = buffers, !.queue = queues]
      /\ got.messages = Joined(lists)
  BY DEF ProcessEach
<1> DEFINE H2 == [s \in Signals |-> IF s \in on THEN CHOOSE h : Done(s, h) ELSE H[s]]
<1>6. ASSUME NEW s \in on PROVE Done(s, H2[s])
  <2>1. H2[s] = CHOOSE h : Done(s, h)
    BY <1>2
  <2> HIDE DEF Done, H2
  <2> QED
    BY <1>4, <2>1
<1>7. ASSUME NEW s \in Signals
      PROVE  H2[s] \in L[s]..now
  <2>1. CASE s \in on
    BY <1>6, <2>1
  <2>2. CASE s \notin on
    BY <1>3, <2>2 DEF Waits
  <2> QED
    BY <2>1, <2>2
<1>8. H2 \in [Signals -> Nat]
  <2>1. ASSUME NEW s \in Signals PROVE H2[s] \in Nat
    <3>1. L[s] \in Nat
      BY <1>3
    <3> HIDE DEF H2
    <3> QED
      BY <1>7, <3>1
  <2> QED
    BY <2>1
<1> HIDE DEF H2
<1>9. ASSUME NEW s \in on
      PROVE  \E m \in L[s]..H2[s] : /\ Rising(of[s].messages, s, L[s], m)
                                    /\ Ascends(of[s].buffer.data, of[s].buffer.offset, m, H2[s])
  BY <1>6 DEF InLine
<1>10. lists \in Seq(Seq(X)) /\ Len(lists) = Len(st.ports)
       /\ \A i \in 1..Len(lists) : lists[i] = of[st.ports[i]].messages /\ st.ports[i] \in on
  <2> HIDE DEF X, of, on
  <2> QED
    BY <1>2, <1>4
<1> HIDE DEF lists
<1>11. ASSUME NEW i \in 1..Len(lists), NEW s, NEW t, Published(lists[i], s, t)
       PROVE  s = st.ports[i]
  <2> DEFINE r == st.ports[i]
             ms == lists[i]
  <2>1. r \in on /\ r \in Signals /\ ms \in Seq(Singles(r, Types, SizeOf(k)))
    BY <1>2, <1>4, <1>10
  <2> HIDE DEF r, ms
  <2>2. PICK j \in 1..Len(ms) : Has(ms[j], s, t)
    BY <1>11 DEF Published, ms
  <2>3. ms[j] \in Singles(r, Types, SizeOf(k))
    BY <2>1
  <2> QED
    BY <2>1, <2>2, <2>3, AloneHas DEF r
<1>12. ASSUME NEW s \in Signals
       PROVE  /\ Rising(got.messages, s, L[s], now)
              /\ \A t : Published(got.messages, s, t) =>
                   s \in on /\ Published(of[s].messages, s, t)
  <2> DEFINE lo == L[s]
  <2>0. lo \in Nat /\ lo <= now
    <3>1. lo \in Nat /\ H[s] \in lo..now
      BY <1>3 DEF Waits
    <3> QED
      BY <3>1
  <2>1. ASSUME NEW i \in 1..Len(lists) PROVE Rising(lists[i], s, lo, now)
    <3>1. CASE s = st.ports[i]
      <4>1. s \in on /\ lists[i] = of[s].messages
        BY <1>10, <3>1
      <4>2. PICK m \in lo..H2[s] : Rising(lists[i], s, lo, m)
        BY <1>9, <4>1
      <4>3. H2[s] \in lo..now
        BY <1>7
      <4>4. m \in Nat /\ m <= now
        BY <2>0, <4>2, <4>3
      <4> HIDE DEF lo
      <4> QED
        BY <2>0, <4>2, <4>4, RisingWider
    <3>2. CASE s # st.ports[i]
      <4>1. Silent(lists[i], s)
        BY <1>11, <3>2 DEF Silent
      <4> QED
        BY <4>1, SilentRises
    <3> QED
      BY <3>1, <3>2
  <2>2. InOne(lists, s)
    <3> SUFFICES ASSUME NEW i \in 1..Len(lists), NEW j \in 1..Len(lists), i # j
                 PROVE  Silent(lists[i], s) \/ Silent(lists[j], s)
      BY DEF InOne
    <3>1. st.ports[i] # st.ports[j]
      BY <1>3, <1>10 DEF Distinct
    <3> QED
      BY <1>11, <3>1 DEF Silent
  <2> HIDE DEF lo, X
  <2>3. /\ Rising(Joined(lists), s, lo, now)
        /\ \A t : Published(Joined(lists), s, t) =>
             \E i \in 1..Len(lists) : Published(lists[i], s, t)
    BY <1>10, <2>0, <2>1, <2>2, JoinedRises
  <2>4. ASSUME NEW t, Published(got.messages, s, t)
        PROVE  s \in on /\ Published(of[s].messages, s, t)
    <3>1. PICK i \in 1..Len(lists) : Published(lists[i], s, t)
      BY <1>5, <2>3, <2>4
    <3>2. s = st.ports[i]
      BY <1>11, <3>1
    <3> QED
      BY <1>10, <3>1, <3>2
  <2> QED
    BY <1>5, <2>3, <2>4 DEF lo
<1> DEFINE new == got.st
<1>13. /\ new.ports = st.ports /\ new.queue = queues
       /\ new.handler.signalBuffers = buffers
       /\ new.handler.dataBuilders = st.handler.dataBuilders
       /\ new.handler.replaced = st.handler.replaced
       /\ new.handler.reader = st.handler.reader
  <2> HIDE DEF buffers, queues, got
  <2>1. st = [error |-> st.error, ports |-> st.ports, handler |-> st.handler,
              queue |-> st.queue]
    BY <1>1 DEF Blocks
  <2>2. new = [[st EXCEPT !.handler = [st.handler EXCEPT !.signalBuffers = buffers]]
               EXCEPT !.queue = queues]
    BY <1>5
  <2> DEFINE h == [st.handler EXCEPT !.signalBuffers = buffers]
  <2>3. /\ h.signalBuffers = buffers /\ h.dataBuilders = st.handler.dataBuilders
        /\ h.replaced = st.handler.replaced /\ h.reader = st.handler.reader
    BY <1>1 DEF Handlers
  <2> HIDE DEF h, new
  <2>4. new.handler = h /\ new.queue = queues /\ new.ports = st.ports
    BY <2>1, <2>2 DEF h
  <2> QED
    BY <2>3, <2>4
<1>14. Len(st.handler.dataBuilders) = 0
  BY <1>1 DEF Good, Own
<1>15. ASSUME NEW L2, Continues(L, L2, got.messages)
       PROVE  Ordered(new, L2, H2, now)
  <2>1. L2 \in [Signals -> Nat]
    BY <1>15 DEF Continues
  <2>2. ASSUME NEW s \in Signals PROVE Waits(new, s, L2[s], H2[s], now)
    <3> DEFINE b == new.handler.signalBuffers[s]
               lo == L2[s]
               h == H2[s]
    <3>0. L[s] \in Nat /\ lo \in Nat /\ h \in Nat /\ h \in L[s]..now
      BY <1>3, <1>7, <1>8, <2>1
    <3>1. CASE s \in on
      <4>1. b = of[s].buffer /\ new.queue[s] = AfterEvent(st.queue[s])
        BY <1>13, <3>1
      <4>2. PICK m \in L[s]..h : /\ Rising(of[s].messages, s, L[s], m)
                                 /\ Ascends(b.data, b.offset, m, h)
        BY <1>9, <3>1, <4>1
      <4>3. lo <= m
        <5>1. CASE lo = L[s]
          BY <3>0, <4>2, <5>1
        <5>2. CASE Published(got.messages, s, lo)
          <6>1. PICK j \in 1..Len(of[s].messages) : Has(of[s].messages[j], s, lo)
            BY <1>12, <5>2 DEF Published
          <6>2. lo \in L[s] + 1..m
            BY <4>2, <6>1 DEF Rising
          <6> QED
            BY <3>0, <4>2, <6>2
        <5> QED
          BY <1>15, <5>1, <5>2 DEF Continues
      <4>4. m \in Nat /\ h <= h /\ h \in lo..now
        BY <3>0, <4>2, <4>3
      <4>5. Ascends(new.queue[s], 0, h, now)
        BY <1>6, <3>1, <4>1
      <4> HIDE DEF b, lo, h, new
      <4>6. Ascends(b.data, b.offset, lo, h)
        BY <3>0, <4>2, <4>3, <4>4, AscendsWider
      <4> QED
        BY <4>4, <4>5, <4>6 DEF Waits, b, lo, h
    <3>2. CASE s \notin on
      <4>1. /\ b = st.handler.signalBuffers[s] /\ new.queue[s] = st.queue[s] /\ h = H[s]
        BY <1>13, <3>2 DEF H2
      <4>2. lo = L[s]
        BY <1>12, <1>15, <3>2 DEF Continues
      <4> QED
        BY <1>3, <4>1, <4>2 DEF Waits
    <3> QED
      BY <3>1, <3>2
  <2> HIDE DEF new
  <2> QED
    BY <1>3, <1>8, <1>13, <1>14, <2>1, <2>2 DEF Ordered
<1> QED
  BY <1>12, <1>15

-----------------------------------------------------------------------------
(* What the reader takes from the queues. *)

\* e tells where the ticks of d are in ts; they are later than t.
Leaves(e, d, ts, t) ==
  /\ e \in [1..Len(d) -> 1..Len(ts)]
  /\ \A a \in 1..Len(d) : d[a] = ts[e[a]] /\ d[a] > t
  /\ \A a, c \in 1..Len(d) : a < c => e[a] < e[c]

\* The ticks of a packet that are left.
LEMMA LeftTicks ==
  ASSUME NEW p \in Entries, NEW t
  PROVE  LET d == Filtered(p.ticks, {x \in Range(p.ticks) : x > t})
         IN  \E e : Leaves(e, d, p.ticks, t)
<1> DEFINE S == {x \in Range(p.ticks) : x > t}
           d == Filtered(p.ticks, S)
<1>1. p.ticks \in Seq(Nat)
  BY EntryTicks
<1>2. \A x \in S : x > t
  OBVIOUS
<1> HIDE DEF S, d
<1>3. PICK e : Embeds(e, d, p.ticks, S)
  BY <1>1, FilteredIs DEF d
<1>4. Leaves(e, d, p.ticks, t)
  BY <1>2, <1>3 DEF Embeds, Leaves
<1> QED
  BY <1>4 DEF d, S

\* What is left of a queue is in order as it was, and later than t.
LEMMA BeyondAscends ==
  ASSUME NEW q \in Seq(Entries), NEW lo \in Nat, NEW hi \in Nat, Ascends(q, 0, lo, hi),
         NEW t
  PROVE  /\ Ascends(Beyond(q, t), 0, lo, hi)
         /\ t \in Nat => Ascends(Beyond(q, t), 0, t, hi)
<1> DEFINE left(p) == [p EXCEPT !.ticks = Filtered(@, {x \in Range(@) : x > t})]
           ticks(p) == Filtered(p.ticks, {x \in Range(p.ticks) : x > t})
           later == [i \in DOMAIN q |-> left(q[i])]
           kept == {p \in Range(later) : IsEvent(p) \/ p.ticks # <<>>}
           ys == Filtered(later, kept)
           X == {left(p) : p \in Entries}
<1>1. \A i \in 1..Len(q) : q[i] \in Entries
  OBVIOUS
<1>2. ASSUME NEW p \in Entries PROVE left(p).ticks = ticks(p)
  <2> HIDE DEF ticks
  <2>1. left(p) = [p EXCEPT !.ticks = ticks(p)]
    BY DEF ticks
  <2>2. p = [type |-> p.type, ticks |-> p.ticks]
    BY DEF Entries, Packets, Event
  <2> HIDE DEF left
  <2> QED
    BY <2>1, <2>2
<1> HIDE DEF left, ticks
<1>3. /\ later \in Seq(X) /\ Len(later) = Len(q)
      /\ \A i \in 1..Len(q) : later[i] = left(q[i])
  BY <1>1
<1> HIDE DEF later, kept, X
<1>4. PICK e : Embeds(e, ys, later, kept)
  BY <1>3, FilteredIs
<1>5. ys \in Seq(X)
  BY <1>3, FilteredIs
<1> HIDE DEF ys
<1>6. /\ \A j \in 1..Len(ys) : e[j] \in 1..Len(q) /\ ys[j] = left(q[e[j]])
      /\ \A i, j \in 1..Len(ys) : i < j => e[i] < e[j]
  BY <1>3, <1>4 DEF Embeds
<1>7. ASSUME NEW j \in 1..Len(ys)
      PROVE  \E g : Leaves(g, ys[j].ticks, q[e[j]].ticks, t)
  <2> DEFINE p == q[e[j]]
             d == ys[j].ticks
  <2>1. e[j] \in 1..Len(q) /\ p \in Entries /\ d = ticks(p)
    BY <1>1, <1>2, <1>6
  <2> HIDE DEF p, d
  <2>2. \E g : Leaves(g, d, p.ticks, t)
    BY <2>1, LeftTicks DEF ticks
  <2> QED
    BY <2>1, <2>2 DEF p, d
<1>8. ASSUME NEW i \in 1..Len(ys), NEW a \in 1..Len(ys[i].ticks)
      PROVE  /\ ys[i].ticks[a] \in lo + 1..hi /\ ys[i].ticks[a] > t
             /\ \A j \in 1..Len(ys) : \A c \in 1..Len(ys[j].ticks) :
                  i < j \/ (i = j /\ a < c) => ys[i].ticks[a] < ys[j].ticks[c]
  <2>0. PICK g : Leaves(g, ys[i].ticks, q[e[i]].ticks, t)
    BY <1>7
  <2>1. /\ g \in [1..Len(ys[i].ticks) -> 1..Len(q[e[i]].ticks)]
        /\ \A x \in 1..Len(ys[i].ticks) :
               ys[i].ticks[x] = q[e[i]].ticks[g[x]] /\ ys[i].ticks[x] > t
        /\ \A x, c \in 1..Len(ys[i].ticks) : x < c => g[x] < g[c]
    BY <2>0 DEF Leaves
  <2>2. /\ e[i] \in 1..Len(q) /\ g[a] \in 1..Len(q[e[i]].ticks) /\ g[a] > 0
        /\ ys[i].ticks[a] = q[e[i]].ticks[g[a]]
    BY <1>6, <2>1
  <2>3. /\ q[e[i]].ticks[g[a]] \in lo + 1..hi
        /\ \A j \in 1..Len(q) : \A c \in 1..Len(q[j].ticks) :
             e[i] < j \/ (e[i] = j /\ g[a] < c) => q[e[i]].ticks[g[a]] < q[j].ticks[c]
    BY <2>2 DEF Ascends
  <2>4. ASSUME NEW j \in 1..Len(ys), NEW c \in 1..Len(ys[j].ticks),
               i < j \/ (i = j /\ a < c)
        PROVE  ys[i].ticks[a] < ys[j].ticks[c]
    <3>1. CASE i < j
      <4>0. PICK f : Leaves(f, ys[j].ticks, q[e[j]].ticks, t)
        BY <1>7
      <4>1. PICK x \in 1..Len(q[e[j]].ticks) : ys[j].ticks[c] = q[e[j]].ticks[x]
        BY <4>0 DEF Leaves
      <4>2. e[i] < e[j] /\ e[j] \in 1..Len(q)
        BY <1>6, <3>1
      <4> QED
        BY <2>2, <2>3, <4>1, <4>2
    <3>2. CASE i = j /\ a < c
      <4>1. g[a] < g[c] /\ ys[j].ticks[c] = q[e[i]].ticks[g[c]]
            /\ g[c] \in 1..Len(q[e[i]].ticks)
        BY <2>1, <3>2
      <4> QED
        BY <2>2, <2>3, <4>1
    <3> QED
      BY <2>4, <3>1, <3>2
  <2> QED
    BY <2>1, <2>2, <2>3, <2>4
<1>9. Ascends(ys, 0, lo, hi)
  BY <1>8 DEF Ascends
<1>10. ASSUME t \in Nat PROVE Ascends(ys, 0, t, hi)
  <2>1. ASSUME NEW i \in 1..Len(ys), NEW a \in 1..Len(ys[i].ticks)
        PROVE  ys[i].ticks[a] \in t + 1..hi
    <3>1. PICK u : u = ys[i].ticks[a]
      OBVIOUS
    <3>2. u \in lo + 1..hi /\ u > t
      BY <1>8, <3>1
    <3>3. u \in t + 1..hi
      BY <1>10, <3>2
    <3> QED
      BY <3>1, <3>3
  <2> QED
    BY <1>8, <2>1 DEF Ascends
<1>11. Beyond(q, t) = ys
  BY DEF Beyond, ys, later, kept, left
<1> QED
  BY <1>9, <1>10, <1>11

\* What the reader finds in a queue is later than what left it.
LEMMA TicksAreLater ==
  ASSUME NEW q \in Seq(Entries), NEW lo \in Nat, NEW hi \in Nat, Ascends(q, 0, lo, hi),
         NEW t \in TicksOf(q)
  PROVE  t \in lo + 1..hi
<1> DEFINE data == BeforeEvent(q)
<1>1. Begins(data, q) /\ data \in Seq(Packets(Types))
  BY Parts, PartsLie
<1>2. PICK p \in Range(data) : t \in Range(p.ticks)
  BY DEF TicksOf
<1> HIDE DEF data
<1>3. PICK i \in 1..Len(data) : p = data[i]
  BY <1>1, <1>2 DEF Range
<1>4. p = q[i] /\ i \in 1..Len(q) /\ p.ticks \in Seq(Nat)
  BY <1>1, <1>3 DEF Begins, Packets
<1>5. PICK a \in 1..Len(p.ticks) : t = p.ticks[a]
  BY <1>2, <1>4 DEF Range
<1>6. a > 0
  OBVIOUS
<1> QED
  BY <1>4, <1>5, <1>6 DEF Ascends

\* Rows are in order.
LEMMA RowsClimb ==
  ASSUME NEW common, NEW n \in Nat
  PROVE  LET all == Filtered([t \in 1..MaxTick |-> t], common)
             rows == SubSeq(all, 1, IF Len(all) > n THEN n ELSE Len(all))
         IN  \A i, j \in 1..Len(rows) : i < j => rows[i] < rows[j]
<1> DEFINE clock == [t \in 1..MaxTick |-> t]
           all == Filtered(clock, common)
           m == IF Len(all) > n THEN n ELSE Len(all)
           rows == SubSeq(all, 1, m)
<1>1. clock \in Seq(Nat) /\ \A t \in 1..Len(clock) : clock[t] = t
  BY PacksAssumption
<1> HIDE DEF clock
<1>2. all \in Seq(Nat)
  BY <1>1, FilteredIs
<1>3. PICK e : Embeds(e, all, clock, common)
  BY <1>1, FilteredIs
<1> HIDE DEF all
<1>4. m \in 0..Len(all)
  BY <1>2
<1> HIDE DEF m
<1>5. rows \in Seq(Nat) /\ Len(rows) = m /\ \A i \in 1..m : rows[i] = all[i]
  BY <1>2, <1>4
<1>6. ASSUME NEW i \in 1..m PROVE all[i] = e[i]
  <2>1. i \in 1..Len(all)
    BY <1>2, <1>4
  <2>2. e[i] \in 1..Len(clock) /\ all[i] = clock[e[i]]
    BY <1>3, <2>1 DEF Embeds
  <2> QED
    BY <1>1, <2>2
<1>7. \A i, j \in 1..m : i < j => e[i] < e[j]
  BY <1>2, <1>3, <1>4 DEF Embeds
<1> HIDE DEF rows
<1>8. \A i, j \in 1..Len(rows) : i < j => rows[i] < rows[j]
  BY <1>4, <1>5, <1>6, <1>7
<1> QED
  BY <1>8 DEF rows, m, all, clock

-----------------------------------------------------------------------------
(* The order in the builders. *)

\* The samples of new are those of ls, and x as the last.
Adds(new, ls, x) ==
  \A i \in 1..Len(new) : \A v \in 1..Len(new[i]) :
    \/ i \in 1..Len(ls) /\ v \in 1..Len(ls[i]) /\ new[i][v] = ls[i][v]
    \/ /\ new[i][v] = x
       /\ \A j \in 1..Len(new) : \A w \in 1..Len(new[j]) : ~(i < j \/ (i = j /\ v < w))

\* A builder grows by one sample.
LEMMA OneAdds ==
  ASSUME NEW X, NEW b \in Builders(X), NEW x \in X
  PROVE  Adds(Lists(AppendOne(b, x)), Lists(b), x)
<1> DEFINE c == Append(b.current, x)
           ls == Lists(b)
           new == Lists(AppendOne(b, x))
           n == Len(b.values)
<1>1. /\ b = [values |-> b.values, current |-> b.current]
      /\ b.values \in Seq(Packs(X)) /\ b.current \in Seq(X) /\ n \in Nat
  BY DEF Builders
<1> DEFINE values == b.values
           current == b.current
<1>2. /\ ls = Append(values, current) /\ Len(ls) = n + 1 /\ ls[n + 1] = current
      /\ \A i \in 1..n : ls[i] = values[i]
  BY <1>1 DEF Lists
<1>3. /\ Len(c) = Len(current) + 1 /\ c[Len(current) + 1] = x /\ Len(current) \in Nat
      /\ \A v \in 1..Len(current) : c[v] = current[v]
  BY <1>1
<1>4. \/ new = Append(values, c)
      \/ new = Append(Append(values, c), <<>>)
  <2> HIDE DEF c
  <2>1. CASE Len(c) = PackSize
    <3>1. AppendOne(b, x) = [values |-> Append(values, c), current |-> <<>>]
      BY <2>1 DEF AppendOne, c
    <3> QED
      BY <3>1 DEF Lists
  <2>2. CASE Len(c) # PackSize
    <3>1. AppendOne(b, x) = [b EXCEPT !.current = c]
      BY <2>2 DEF AppendOne, c
    <3>2. AppendOne(b, x) = [values |-> values, current |-> c]
      BY <1>1, <3>1
    <3> QED
      BY <3>2 DEF Lists
  <2> QED
    BY <2>1, <2>2
<1>5. /\ Len(new) \in {n + 1, n + 2} /\ new[n + 1] = c
      /\ \A i \in 1..n : new[i] = values[i]
      /\ Len(new) = n + 2 => Len(new[n + 2]) = 0
  <2> HIDE DEF new
  <2>1. c \in Seq(X) /\ values \in Seq(Seq(X)) /\ <<>> \in Seq(X)
    BY <1>1 DEF Packs
  <2> HIDE DEF c, values
  <2> DEFINE one == Append(values, c)
  <2>2. /\ Len(one) = n + 1 /\ one[n + 1] = c /\ \A i \in 1..n : one[i] = values[i]
        /\ one \in Seq(Seq(X))
    BY <2>1 DEF values
  <2>3. CASE new = one
    BY <1>1, <2>2, <2>3
  <2>4. CASE new = Append(one, <<>>)
    <3> HIDE DEF one, n
    <3>1. /\ Len(Append(one, <<>>)) = n + 2 /\ Append(one, <<>>)[n + 2] = <<>>
          /\ \A i \in 1..n + 1 : Append(one, <<>>)[i] = one[i]
      BY <1>1, <2>1, <2>2
    <3>2. \A i \in 1..n : i \in 1..n + 1
      BY <1>1
    <3> QED
      BY <1>1, <2>2, <2>4, <3>1, <3>2
  <2> QED
    BY <1>4, <2>3, <2>4
<1> HIDE DEF new, ls, c, values, current, n
<1> SUFFICES ASSUME NEW i \in 1..Len(new), NEW v \in 1..Len(new[i])
             PROVE  \/ i \in 1..Len(ls) /\ v \in 1..Len(ls[i]) /\ new[i][v] = ls[i][v]
                    \/ /\ new[i][v] = x
                       /\ \A j \in 1..Len(new) : \A w \in 1..Len(new[j]) :
                            ~(i < j \/ (i = j /\ v < w))
  BY DEF Adds, new, ls
<1>6. CASE i \in 1..n
  BY <1>1, <1>2, <1>5, <1>6
<1>7. CASE i = n + 1
  <2>1. new[i] = c /\ ls[i] = current /\ i \in 1..Len(ls)
    BY <1>1, <1>2, <1>5, <1>7
  <2>2. CASE v \in 1..Len(current)
    BY <1>3, <2>1, <2>2
  <2>3. CASE v = Len(current) + 1
    <3>1. new[i][v] = x
      BY <1>3, <2>1, <2>3
    <3>2. ASSUME NEW j \in 1..Len(new), NEW w \in 1..Len(new[j]), i < j \/ (i = j /\ v < w)
          PROVE  FALSE
      <4>1. CASE i < j
        <5>1. j = n + 2 /\ Len(new) = n + 2
          BY <1>1, <1>5, <1>7, <4>1
        <5>2. Len(new[j]) = 0
          BY <1>5, <5>1
        <5> QED
          BY <5>2
      <4>2. CASE i = j /\ v < w
        BY <1>3, <2>1, <2>3, <4>2
      <4> QED
        BY <3>2, <4>1, <4>2
    <3> QED
      BY <3>1, <3>2
  <2> QED
    BY <1>3, <2>1, <2>2, <2>3
<1>8. CASE i = n + 2
  BY <1>1, <1>5, <1>8
<1> QED
  BY <1>1, <1>5, <1>6, <1>7, <1>8

\* The samples in lists are of ticks up to h.
Under(ls, h) == \A i \in 1..Len(ls) : \A v \in 1..Len(ls[i]) : ls[i][v].tick <= h

\* A later sample keeps lists in order.
LEMMA AddsClimb ==
  ASSUME NEW new, NEW ls, NEW x, Adds(new, ls, x), NEW lo \in Nat, NEW h \in Nat,
         NEW u, x.tick = u, u \in Nat, lo < u, h < u, Climb(ls, lo), Under(ls, h),
         \A i \in 1..Len(ls) : \A v \in 1..Len(ls[i]) : ls[i][v].tick \in Nat
  PROVE  Climb(new, lo) /\ Under(new, u)
<1>1. ASSUME NEW i \in 1..Len(new), NEW v \in 1..Len(new[i])
      PROVE  /\ lo < new[i][v].tick /\ new[i][v].tick <= u
             /\ \A j \in 1..Len(new) : \A w \in 1..Len(new[j]) :
                  i < j \/ (i = j /\ v < w) => new[i][v].tick < new[j][w].tick
  <2>1. CASE i \in 1..Len(ls) /\ v \in 1..Len(ls[i]) /\ new[i][v] = ls[i][v]
    <3>1. PICK t : t = ls[i][v].tick
      OBVIOUS
    <3>2. /\ t \in Nat /\ lo < t /\ t <= h /\ new[i][v].tick = t
          /\ \A j \in 1..Len(ls) : \A w \in 1..Len(ls[j]) :
               i < j \/ (i = j /\ v < w) => t < ls[j][w].tick
      BY <2>1, <3>1 DEF Climb, Under
    <3>3. t < u
      BY <3>2
    <3>4. ASSUME NEW j \in 1..Len(new), NEW w \in 1..Len(new[j]), i < j \/ (i = j /\ v < w)
          PROVE  t < new[j][w].tick
      <4>1. CASE j \in 1..Len(ls) /\ w \in 1..Len(ls[j]) /\ new[j][w] = ls[j][w]
        BY <3>2, <3>4, <4>1
      <4>2. CASE new[j][w] = x
        BY <3>3, <4>2
      <4> QED
        BY <4>1, <4>2 DEF Adds
    <3> QED
      BY <3>2, <3>3, <3>4
  <2>2. CASE /\ new[i][v] = x
             /\ \A j \in 1..Len(new) : \A w \in 1..Len(new[j]) : ~(i < j \/ (i = j /\ v < w))
    BY <2>2
  <2> QED
    BY <2>1, <2>2 DEF Adds
<1> QED
  BY <1>1 DEF Climb, Under

\* The samples of builders have ticks.
LEMMA ListsHaveTicks ==
  ASSUME NEW R, NEW b \in Builders(Samples(R, Types))
  PROVE  /\ Lists(b) \in Seq(Seq(Samples(R, Types))) /\ Len(Lists(b)) = Len(b.values) + 1
         /\ \A p \in 1..Len(b.values) : Lists(b)[p] = b.values[p]
         /\ \A i \in 1..Len(Lists(b)) : \A v \in 1..Len(Lists(b)[i]) :
              Lists(b)[i][v].tick \in Nat /\ Lists(b)[i][v].signal \in R
<1> DEFINE X == Samples(R, Types)
           ls == Lists(b)
<1>1. b.values \in Seq(Packs(X)) /\ b.current \in Seq(X)
  BY DEF Builders
<1>2. b.values \in Seq(Seq(X))
  BY <1>1 DEF Packs
<1> DEFINE Y == Seq(X)
           values == b.values
           current == b.current
<1>3. values \in Seq(Y) /\ current \in Y /\ ls = Append(values, current)
  BY <1>1, <1>2 DEF Lists
<1> HIDE DEF Y, values, current, ls
<1>4. /\ ls \in Seq(Y) /\ Len(ls) = Len(values) + 1
      /\ \A p \in 1..Len(values) : ls[p] = values[p]
  BY <1>3
<1>5. ASSUME NEW i \in 1..Len(ls), NEW v \in 1..Len(ls[i])
      PROVE  ls[i][v].tick \in Nat /\ ls[i][v].signal \in R
  <2>1. ls[i] \in Seq(X)
    BY <1>4 DEF Y
  <2>2. ls[i][v] \in X
    BY <2>1
  <2> QED
    BY <2>2 DEF Samples
<1> QED
  BY <1>4, <1>5 DEF ls, values, Y

\* A column that is later goes into a builder.
LEMMA AllClimb ==
  ASSUME NEW R, NEW b \in Builders(Samples(R, Types)), NEW xs \in Seq(Samples(R, Types)),
         NEW lo \in Nat, NEW h0 \in Nat, lo <= h0, NEW hi \in Nat,
         Climb(Lists(b), lo), Under(Lists(b), h0), Climbs(xs),
         \A v \in 1..Len(xs) : xs[v].tick \in h0 + 1..hi
  PROVE  Climb(Lists(AppendAll(b, xs)), lo)
<1> DEFINE n == Len(xs)
           X == Samples(R, Types)
<1>1. PICK f : Building(f, b, xs) /\ AppendAll(b, xs) = f[n]
  BY AppendAllUnfolds
<1> DEFINE Later(i, h) == \A v \in 1..n : v > i => h < xs[v].tick
           Fit(c, i) == /\ c \in Builders(X) /\ Climb(Lists(c), lo)
                        /\ \E h \in Nat : lo <= h /\ Under(Lists(c), h) /\ Later(i, h)
           T == {i \in 0..n : Fit(f[i], i)}
<1>0. n \in Nat
  OBVIOUS
<1>2. 0 \in T
  <2>1. f[0] = b
    BY <1>1 DEF Building
  <2>2. Later(0, h0)
    <3> SUFFICES ASSUME NEW v \in 1..n PROVE h0 < xs[v].tick
      OBVIOUS
    <3>1. PICK t : t = xs[v].tick
      OBVIOUS
    <3>2. t \in h0 + 1..hi
      BY <3>1
    <3>3. h0 < t
      BY <3>2
    <3> QED
      BY <3>1, <3>3
  <2> HIDE DEF Later
  <2>3. Fit(f[0], 0)
    BY <2>1, <2>2
  <2> HIDE DEF Fit
  <2> QED
    BY <1>0, <2>3
<1>3. ASSUME NEW i \in 0..n - 1, i \in T PROVE i + 1 \in T
  <2> DEFINE c == f[i]
             x == xs[i + 1]
  <2>1. i + 1 \in 1..n /\ (i + 1) - 1 = i /\ x \in X /\ i + 1 > i /\ i \in Nat
    OBVIOUS
  <2>2. f[i + 1] = AppendOne(c, x)
    BY <2>1, <1>1 DEF Building
  <2>3. /\ c \in Builders(X) /\ Climb(Lists(c), lo)
        /\ \E h \in Nat : lo <= h /\ Under(Lists(c), h) /\ Later(i, h)
    <3> HIDE DEF Later, c
    <3> QED
      BY <1>3 DEF c
  <2>4. PICK h \in Nat : lo <= h /\ Under(Lists(c), h) /\ Later(i, h)
    BY <2>3
  <2>5. PICK u : u = x.tick
    OBVIOUS
  <2>6. u \in Nat /\ h < u /\ lo < u
    BY <2>1, <2>4, <2>5 DEF Samples
  <2>7. Later(i + 1, u)
    <3> SUFFICES ASSUME NEW v \in 1..n, v > i + 1 PROVE u < xs[v].tick
      OBVIOUS
    <3> QED
      BY <2>1, <2>5 DEF Climbs
  <2> HIDE DEF c, x, Later
  <2>8. Adds(Lists(AppendOne(c, x)), Lists(c), x)
    BY <2>1, <2>3, OneAdds
  <2>9. \A j \in 1..Len(Lists(c)) : \A v \in 1..Len(Lists(c)[j]) : Lists(c)[j][v].tick \in Nat
    BY <2>3, ListsHaveTicks
  <2>10. Climb(Lists(AppendOne(c, x)), lo) /\ Under(Lists(AppendOne(c, x)), u)
    BY <2>3, <2>4, <2>5, <2>6, <2>8, <2>9, AddsClimb
  <2>11. AppendOne(c, x) \in Builders(X)
    BY <2>1, <2>3, OneAppended
  <2>12. lo <= u
    BY <2>6
  <2>13. Fit(f[i + 1], i + 1)
    BY <2>2, <2>6, <2>7, <2>10, <2>11, <2>12
  <2> HIDE DEF Fit
  <2> QED
    BY <1>0, <2>1, <2>13
<1> HIDE DEF T, n, Fit
<1>4. 0..n \subseteq T
  BY <1>0, <1>2, <1>3, Induction
<1>5. Fit(f[n], n)
  BY <1>0, <1>4 DEF T
<1> QED
  BY <1>1, <1>5 DEF Fit, n

\* A column goes into a builder whose samples are of ticks up to those in H.
LEMMA AllWithin ==
  ASSUME NEW R, NEW b \in Builders(Samples(R, Types)), NEW xs \in Seq(Samples(R, Types)),
         NEW H, Within(Lists(b), H), \A v \in 1..Len(xs) : xs[v].tick <= H[xs[v].signal]
  PROVE  Within(Lists(AppendAll(b, xs)), H)
<1> DEFINE n == Len(xs)
           X == Samples(R, Types)
<1>1. PICK f : Building(f, b, xs) /\ AppendAll(b, xs) = f[n]
  BY AppendAllUnfolds
<1> DEFINE Fit(c) == c \in Builders(X) /\ Within(Lists(c), H)
           T == {i \in 0..n : Fit(f[i])}
<1>0. n \in Nat
  OBVIOUS
<1>2. 0 \in T
  BY <1>0, <1>1 DEF Building
<1>3. ASSUME NEW i \in 0..n - 1, i \in T PROVE i + 1 \in T
  <2> DEFINE c == f[i]
             x == xs[i + 1]
  <2>1. i + 1 \in 1..n /\ (i + 1) - 1 = i /\ x \in X /\ x.tick <= H[x.signal]
    OBVIOUS
  <2>2. f[i + 1] = AppendOne(c, x)
    BY <2>1, <1>1 DEF Building
  <2>3. c \in Builders(X) /\ Within(Lists(c), H)
    BY <1>3
  <2> HIDE DEF c, x, X
  <2>4. Adds(Lists(AppendOne(c, x)), Lists(c), x) /\ AppendOne(c, x) \in Builders(X)
    BY <2>1, <2>3, OneAdds, OneAppended
  <2>5. Within(Lists(AppendOne(c, x)), H)
    BY <2>1, <2>3, <2>4 DEF Adds, Within
  <2>6. Fit(f[i + 1])
    BY <2>2, <2>4, <2>5
  <2> HIDE DEF Fit
  <2> QED
    BY <1>0, <2>1, <2>6
<1> HIDE DEF T, n, Fit
<1>4. 0..n \subseteq T
  BY <1>0, <1>2, <1>3, Induction
<1>5. Fit(f[n])
  BY <1>0, <1>4 DEF T
<1> QED
  BY <1>1, <1>5 DEF Fit, n

\* Greater bounds.
LEMMA WithinMore ==
  ASSUME NEW R, NEW b \in Builders(Samples(R, Types)), R \subseteq Signals,
         NEW H \in [Signals -> Nat], NEW H2 \in [Signals -> Nat],
         \A s \in Signals : H[s] <= H2[s], Within(Lists(b), H)
  PROVE  Within(Lists(b), H2)
<1> DEFINE ls == Lists(b)
<1>1. \A i \in 1..Len(ls) : \A v \in 1..Len(ls[i]) :
        ls[i][v].tick \in Nat /\ ls[i][v].signal \in R
  BY ListsHaveTicks
<1> HIDE DEF ls
<1> SUFFICES ASSUME NEW i \in 1..Len(ls), NEW v \in 1..Len(ls[i])
             PROVE  ls[i][v].tick <= H2[ls[i][v].signal]
  BY DEF Within, ls
<1>2. PICK t, s : t = ls[i][v].tick /\ s = ls[i][v].signal
  OBVIOUS
<1>3. t \in Nat /\ s \in Signals /\ t <= H[s]
  BY <1>1, <1>2 DEF Within, ls
<1>4. H[s] \in Nat /\ H2[s] \in Nat /\ H[s] <= H2[s]
  BY <1>3
<1>5. t <= H2[s]
  BY <1>3, <1>4
<1> QED
  BY <1>2, <1>5

\* What is left in a builder when its first n packs are taken.
LEMMA WithoutIs ==
  ASSUME NEW R, NEW b \in Builders(Samples(R, Types)), NEW n \in Nat
  PROVE  \E d \in Nat : /\ IsRest(Lists(Without(b, n)), Lists(b), d)
                        /\ \A p \in 1..n : p <= Len(b.values) => p <= d
<1> DEFINE X == Samples(R, Types)
           Y == Seq(X)
           values == b.values
           current == b.current
           m == Len(values)
           rest == SubSeq(values, n + 1, m)
           d == IF n <= m THEN n ELSE m
           ls == Lists(b)
           new == Lists(Without(b, n))
<1>1. /\ b = [values |-> values, current |-> current]
      /\ values \in Seq(Packs(X)) /\ current \in Y
  BY DEF Builders
<1>2. values \in Seq(Y) /\ m \in Nat
  BY <1>1 DEF Packs
<1>3. Without(b, n) = [values |-> rest, current |-> current]
  <2>1. Without(b, n) = [b EXCEPT !.values = rest]
    BY DEF Without
  <2> HIDE DEF rest, values, current
  <2> QED
    BY <1>1, <2>1 DEF current
<1>4. ls = Append(values, current) /\ new = Append(rest, current)
  <2> HIDE DEF rest, values, current
  <2>1. Without(b, n).values = rest /\ Without(b, n).current = current
    BY <1>3
  <2> QED
    BY <2>1 DEF Lists, values, current
<1> HIDE DEF Y, values, current, ls, new
<1>5. rest \in Seq(Y) /\ Len(rest) = m - d /\ \A i \in 1..m - d : rest[i] = values[i + d]
  <2>1. CASE n <= m
    <3>1. d = n
      BY <2>1
    <3> HIDE DEF d
    <3>2. rest \in Seq(Y) /\ Len(rest) = m - n /\ \A i \in 1..m - n : rest[i] = values[i + n]
      BY <1>2, <2>1
    <3> QED
      BY <3>1, <3>2
  <2>2. CASE ~(n <= m)
    <3>1. d = m
      BY <2>2
    <3> HIDE DEF d
    <3>2. rest = <<>> /\ <<>> \in Seq(Y)
      BY <1>2, <2>2
    <3> HIDE DEF rest
    <3> QED
      BY <1>2, <3>1, <3>2
  <2> QED
    BY <2>1, <2>2
<1> HIDE DEF rest
<1>6. d \in 0..m /\ \A p \in 1..n : p <= m => p <= d
  BY <1>2
<1> HIDE DEF d, m
<1>7. /\ Len(ls) = m + 1 /\ ls[m + 1] = current /\ \A i \in 1..m : ls[i] = values[i]
  BY <1>1, <1>2, <1>4 DEF m
<1>8. /\ Len(new) = m - d + 1 /\ new[m - d + 1] = current
      /\ \A i \in 1..m - d : new[i] = rest[i]
  BY <1>1, <1>2, <1>4, <1>5, <1>6
<1>9. ASSUME NEW i \in 1..Len(new)
      PROVE  i + d \in 1..Len(ls) /\ new[i] = ls[i + d]
  <2>1. i + d \in 1..Len(ls)
    BY <1>2, <1>6, <1>7, <1>8
  <2>2. CASE i = m - d + 1
    <3>1. i + d = m + 1
      BY <1>2, <1>6, <2>2
    <3> QED
      BY <1>7, <1>8, <2>1, <2>2, <3>1
  <2>3. CASE i \in 1..m - d
    <3>1. i + d \in 1..m
      BY <1>2, <1>6, <2>3
    <3> QED
      BY <1>5, <1>7, <1>8, <2>1, <2>3, <3>1
  <2> QED
    BY <1>2, <1>6, <1>8, <2>2, <2>3
<1>10. IsRest(new, ls, d) /\ d \in Nat
  BY <1>6, <1>9 DEF IsRest
<1> QED
  BY <1>6, <1>10 DEF new, ls, m, values

\* What is left is in order, and later than what was taken.
LEMMA RestClimbs ==
  ASSUME NEW new, NEW ls, NEW d \in Nat, IsRest(new, ls, d), NEW lo, Climb(ls, lo)
  PROVE  /\ Climb(new, lo)
         /\ \A p \in 1..Len(ls) : \A w \in 1..Len(ls[p]) :
              p <= d => Climb(new, ls[p][w].tick)
<1>1. ASSUME NEW i \in 1..Len(new), NEW v \in 1..Len(new[i])
      PROVE  /\ lo < new[i][v].tick
             /\ \A j \in 1..Len(new) : \A w \in 1..Len(new[j]) :
                  i < j \/ (i = j /\ v < w) => new[i][v].tick < new[j][w].tick
             /\ \A p \in 1..Len(ls) : \A w \in 1..Len(ls[p]) :
                  p <= d => ls[p][w].tick < new[i][v].tick
  <2>1. PICK k \in 1..Len(ls) : k = i + d /\ new[i] = ls[k]
    BY DEF IsRest
  <2>2. lo < ls[k][v].tick
    BY <2>1 DEF Climb
  <2>3. ASSUME NEW j \in 1..Len(new), NEW w \in 1..Len(new[j]), i < j \/ (i = j /\ v < w)
        PROVE  new[i][v].tick < new[j][w].tick
    <3>1. PICK l \in 1..Len(ls) : l = j + d /\ new[j] = ls[l]
      BY DEF IsRest
    <3>2. k < l \/ (k = l /\ v < w)
      BY <2>1, <2>3, <3>1
    <3> QED
      BY <2>1, <3>1, <3>2 DEF Climb
  <2>4. ASSUME NEW p \in 1..Len(ls), NEW w \in 1..Len(ls[p]), p <= d
        PROVE  ls[p][w].tick < new[i][v].tick
    <3>1. p < k
      BY <2>1, <2>4
    <3> QED
      BY <2>1, <3>1 DEF Climb
  <2> QED
    BY <2>1, <2>2, <2>3, <2>4
<1> QED
  BY <1>1 DEF Climb

\* A pack is one of the lists, or nothing.
LEMMA PackIsList ==
  ASSUME NEW R, NEW b \in Builders(Samples(R, Types)), NEW p \in Nat \ {0},
         NEW v \in DOMAIN getPack(b, p)
  PROVE  /\ p \in 1..Len(b.values) /\ p \in 1..Len(Lists(b))
         /\ getPack(b, p) = Lists(b)[p]
         /\ v \in 1..Len(Lists(b)[p])
<1>1. /\ Lists(b) \in Seq(Seq(Samples(R, Types))) /\ Len(Lists(b)) = Len(b.values) + 1
      /\ \A i \in 1..Len(b.values) : Lists(b)[i] = b.values[i]
  BY ListsHaveTicks
<1>2. Len(b.values) \in Nat
  BY DEF Builders
<1>3. CASE p <= Len(b.values)
  <2>1. p \in 1..Len(b.values) /\ p \in 1..Len(Lists(b)) /\ getPack(b, p) = Lists(b)[p]
    BY <1>1, <1>2, <1>3 DEF getPack
  <2>2. Lists(b)[p] \in Seq(Samples(R, Types))
    BY <1>1, <2>1
  <2> QED
    BY <2>1, <2>2
<1>4. CASE ~(p <= Len(b.values))
  <2>1. getPack(b, p) = <<>>
    BY <1>4 DEF getPack
  <2>2. DOMAIN <<>> = {}
    OBVIOUS
  <2> QED
    BY <2>1, <2>2
<1> QED
  BY <1>3, <1>4

\* Packs are in order.
LEMMA PacksClimb ==
  ASSUME NEW R, NEW b \in Builders(Samples(R, Types)), NEW p \in Nat \ {0},
         NEW lo, Climb(Lists(b), lo)
  PROVE  getPack(b, p) \in Seq(Samples(R, Types)) /\ Climbs(getPack(b, p))
<1>1. getPack(b, p) \in Seq(Samples(R, Types))
  BY PackGot
<1> DEFINE xs == getPack(b, p)
           ls == Lists(b)
<1>2. ASSUME NEW v \in 1..Len(xs), NEW w \in 1..Len(xs), v < w
      PROVE  xs[v].tick < xs[w].tick
  <2>1. v \in DOMAIN xs /\ w \in DOMAIN xs
    BY <1>1
  <2> HIDE DEF xs
  <2>2. p \in 1..Len(ls) /\ xs = ls[p]
    BY <2>1, PackIsList DEF xs
  <2> HIDE DEF ls
  <2> QED
    BY <1>2, <2>2 DEF Climb, ls
<1> QED
  BY <1>1, <1>2 DEF Climbs

\* The samples in the lists of a builder for one signal.
LEMMA ListsOfOne ==
  ASSUME NEW s, NEW b \in Builders(Samples({s}, Types))
  PROVE  \A i \in 1..Len(Lists(b)) : \A v \in 1..Len(Lists(b)[i]) :
           Lists(b)[i][v].signal = s
<1> DEFINE R == {s}
<1>1. \A r \in R : r = s
  OBVIOUS
<1>2. b \in Builders(Samples(R, Types))
  OBVIOUS
<1> HIDE DEF R
<1>3. \A i \in 1..Len(Lists(b)) : \A v \in 1..Len(Lists(b)[i]) :
        Lists(b)[i][v].signal \in R
  BY <1>2, ListsHaveTicks
<1> QED
  BY <1>1, <1>3

\* A builder with the rows that are read.
Fed(st, n, rows) ==
  LET b == st.handler.dataBuilders[n]
      s == st.ports[n]
  IN  IF live[s] \notin Supported THEN b ELSE AppendAll(b, Column(st, s, rows))

\* Rows are in order, and of each port what is still in its queue.
Mounts(rows, names, H, H2) ==
  /\ \A i, j \in 1..Len(rows) : i < j => rows[i] < rows[j]
  /\ \A n \in 1..Len(names) : \A i \in 1..Len(rows) :
       rows[i] \in H[names[n]] + 1..H2[names[n]]

\* L is behind H, and H behind H2.
Runs(L, H, H2) ==
  /\ L \in [Signals -> Nat] /\ H \in [Signals -> Nat] /\ H2 \in [Signals -> Nat]
  /\ \A s \in Signals : L[s] <= H[s] /\ H[s] <= H2[s]

\* Builders are in order, behind what was published.
Built(h, L, H) ==
  /\ \A n \in 1..Len(h.dataBuilders) : Within(Lists(h.dataBuilders[n]), H)
  /\ ~h.replaced => \A n \in 1..Len(h.dataBuilders) :
                      Climb(Lists(h.dataBuilders[n]), L[h.reader[n]])

\* A builder stays in order.
LEMMA BuilderFed ==
  ASSUME NEW st \in Blocks, Good(st.handler, "groupArray"),
         st.handler.reader = st.ports, NEW rows \in Seq(Nat), Columns(st, rows),
         NEW L, NEW H, NEW H2, Runs(L, H, H2), Built(st.handler, L, H),
         Mounts(rows, st.ports, H, H2), NEW n \in 1..Len(st.ports)
  PROVE  LET b == Fed(st, n, rows)
             s == st.ports[n]
         IN  /\ b \in Builders(Samples(Signals, Types)) /\ Within(Lists(b), H2)
             /\ ~st.handler.replaced => /\ b \in Builders(Samples({s}, Types))
                                        /\ Climb(Lists(b), L[s])
<1> DEFINE h == st.handler
           old == h.dataBuilders[n]
           s == st.ports[n]
           xs == Column(st, s, rows)
           All == Samples(Signals, Types)
           X == Samples({s}, Types)
           more == AppendAll(old, xs)
           b == Fed(st, n, rows)
<1>1. /\ h \in Handlers /\ st.ports \in Seq(Signals) /\ s \in Signals
      /\ h.dataBuilders \in Seq(Builders(All)) /\ Len(h.dataBuilders) = Len(st.ports)
      /\ n \in 1..Len(h.dataBuilders) /\ old \in Builders(All)
  BY DEF Blocks, Handlers, Good, Own
<1>2. xs \in Seq(X) /\ SameTicks(xs, rows)
  BY DEF Columns
<1>3. xs \in Seq(All)
  BY <1>1, <1>2, SamplesOfAny
<1>4. ~h.replaced => old \in Builders(X)
  BY <1>1 DEF Good, Owned
<1>5. /\ L[s] \in Nat /\ H[s] \in Nat /\ H2[s] \in Nat /\ L[s] <= H[s] /\ H[s] <= H2[s]
      /\ H \in [Signals -> Nat] /\ H2 \in [Signals -> Nat]
      /\ \A r \in Signals : H[r] <= H2[r]
  BY <1>1 DEF Runs
<1>6. Within(Lists(old), H) /\ (~h.replaced => Climb(Lists(old), L[s]))
  BY <1>1 DEF Built
<1>7. /\ Len(xs) = Len(rows)
      /\ \A v \in 1..Len(xs) : /\ xs[v].tick = rows[v] /\ xs[v].signal = s
                               /\ xs[v].tick \in H[s] + 1..H2[s]
      /\ Climbs(xs)
  <2>1. Len(xs) = Len(rows) /\ \A v \in 1..Len(rows) : xs[v].tick = rows[v]
    BY <1>2 DEF SameTicks
  <2>2. \A v \in 1..Len(xs) : xs[v] \in X
    BY <1>2
  <2>3. \A v \in 1..Len(rows) : rows[v] \in H[s] + 1..H2[s]
    BY DEF Mounts
  <2>4. \A i, j \in 1..Len(rows) : i < j => rows[i] < rows[j]
    BY DEF Mounts
  <2> HIDE DEF xs, s, h, old
  <2>5. \A v \in 1..Len(xs) : xs[v].signal = s
    BY <2>2 DEF Samples
  <2> QED
    BY <2>1, <2>3, <2>4, <2>5 DEF Climbs
<1>8. b = IF live[s] \notin Supported THEN old ELSE more
  BY DEF Fed
<1> HIDE DEF xs, old, b, h, s
<1>9. Within(Lists(old), H2)
  BY <1>1, <1>5, <1>6, WithinMore
<1>10. Within(Lists(more), H2) /\ more \in Builders(All)
  <2>1. \A v \in 1..Len(xs) : xs[v].tick <= H2[xs[v].signal]
    <3> SUFFICES ASSUME NEW v \in 1..Len(xs) PROVE xs[v].tick <= H2[s]
      BY <1>7
    <3>1. PICK t, m : t = xs[v].tick /\ m = H2[s]
      OBVIOUS
    <3>2. t <= m
      BY <1>5, <1>7, <3>1
    <3> QED
      BY <3>1, <3>2
  <2> QED
    BY <1>1, <1>3, <1>9, <2>1, AllWithin, AllAppended
<1>11. ASSUME ~h.replaced PROVE more \in Builders(X) /\ Climb(Lists(more), L[s])
  <2> DEFINE lo == L[s]
             h0 == H[s]
             hi == H2[s]
  <2>1. old \in Builders(X) /\ Climb(Lists(old), lo)
    BY <1>4, <1>6, <1>11
  <2>2. Under(Lists(old), h0)
    <3>1. \A i \in 1..Len(Lists(old)) : \A v \in 1..Len(Lists(old)[i]) :
            Lists(old)[i][v].signal = s
      BY <2>1, ListsOfOne
    <3> QED
      BY <1>6, <3>1 DEF Within, Under
  <2>3. lo \in Nat /\ h0 \in Nat /\ hi \in Nat /\ lo <= h0
    BY <1>5
  <2>4. \A v \in 1..Len(xs) : xs[v].tick \in h0 + 1..hi
    BY <1>7
  <2> HIDE DEF lo, h0, hi
  <2>5. Climb(Lists(more), lo)
    BY <1>2, <1>7, <2>1, <2>2, <2>3, <2>4, AllClimb
  <2> QED
    BY <1>2, <2>1, <2>5, AllAppended DEF lo
<1> QED
  BY <1>1, <1>4, <1>6, <1>8, <1>9, <1>10, <1>11 DEF b, s, h

\* Rows go into the builders and packs come out of them in order.
LEMMA CollectInOrder ==
  ASSUME NEW st \in Blocks, Good(st.handler, "groupArray"),
         st.handler.reader = st.ports, Distinct(st.ports),
         NEW rows \in Seq(Nat), Columns(st, rows),
         NEW L, NEW H, NEW H2, Runs(L, H, H2), Built(st.handler, L, H),
         Mounts(rows, st.ports, H, H2)
  PROVE  LET got == CollectRows(st, rows)
         IN  /\ \A s \in Signals : \A t : Published(got.messages, s, t) => t \in 0..H2[s]
             /\ \A L2 : Continues(L, L2, got.messages) => Built(got.handler, L2, H2)
             /\ ~st.handler.replaced =>
                  \A s \in Signals : Rising(got.messages, s, L[s], H2[s])
             /\ got.handler.replaced = st.handler.replaced
             /\ got.messages \in Seq(Range(got.messages))
<1> DEFINE h == st.handler
           old == h.dataBuilders
           names == st.ports
           N == Len(names)
           builder(n) == Fed(st, n, rows)
           builders == [n \in DOMAIN old |-> builder(n)]
           times == AppendAll(h.tsBuilder, rows)
           packs == Len(times.values)
           left == [n \in DOMAIN builders |-> Without(builders[n], packs)]
           columns(i) == [n \in DOMAIN builders |-> getPack(builders[n], i)]
           message(i) == Message(names, columns(i), times.values[i])
           got == CollectRows(st, rows)
           ms == got.messages
           All == Samples(Signals, Types)
<1>1. /\ h \in Handlers /\ names \in Seq(Signals) /\ old \in Seq(Builders(All))
      /\ h.tsBuilder \in Builders(Nat)
      /\ Len(old) = N /\ DOMAIN old = 1..N /\ N \in Nat
  BY DEF Blocks, Handlers, Good, Own
<1>2. packs \in Nat
  <2>1. times \in Builders(Nat)
    BY <1>1, AllAppended
  <2> QED
    BY <2>1 DEF Builders
<1>3. /\ got.handler.dataBuilders = left /\ got.handler.reader = names
      /\ got.handler.replaced = h.replaced
      /\ ms = [i \in 1..packs |-> message(i)]
  <2>1. got.handler = [h EXCEPT !.dataBuilders = left,
                                !.tsBuilder = Without(times, packs),
                                !.skewed = @ \/ \E s \in Range(st.ports) :
                                                  live[s] \notin Supported]
    BY DEF CollectRows, Fed
  <2>2. ms = [i \in 1..packs |-> message(i)]
    BY DEF CollectRows, Fed
  <2> HIDE DEF left, times, packs, got, ms, message
  <2> QED
    BY <1>1, <2>1, <2>2 DEF Handlers
<1> HIDE DEF builder, times, packs
<1>4. ASSUME NEW n \in 1..N
      PROVE  /\ builder(n) \in Builders(All) /\ Within(Lists(builder(n)), H2)
             /\ ~h.replaced => /\ builder(n) \in Builders(Samples({names[n]}, Types))
                               /\ Climb(Lists(builder(n)), L[names[n]])
             /\ names[n] \in Signals
  <2> DEFINE b == builder(n)
             s == names[n]
             X == Samples({s}, Types)
  <2>1. names[n] \in Signals
    BY <1>1
  <2>2. n \in 1..Len(st.ports)
    OBVIOUS
  <2>3. LET c == Fed(st, n, rows)
            r == st.ports[n]
        IN  /\ c \in Builders(Samples(Signals, Types)) /\ Within(Lists(c), H2)
            /\ ~st.handler.replaced => /\ c \in Builders(Samples({r}, Types))
                                       /\ Climb(Lists(c), L[r])
    <3> HIDE DEF N, names, h
    <3> QED
      BY <2>2, BuilderFed
  <2> QED
    BY <2>1, <2>3 DEF builder
<1>5. /\ DOMAIN builders = 1..N
      /\ \A n \in 1..N : builders[n] = builder(n)
  BY <1>1
<1> HIDE DEF builders
<1>6. /\ DOMAIN left = 1..N /\ \A n \in 1..N : left[n] = Without(builder(n), packs)
      /\ \A i : \A n \in 1..N : columns(i)[n] = getPack(builder(n), i)
  BY <1>5
<1>7. Len(left) = N
  BY <1>1, <1>6
<1> HIDE DEF left, columns
<1>8. /\ Len(ms) = packs /\ \A i \in 1..packs : ms[i] = message(i)
      /\ \A i \in 1..packs : i \in Nat \ {0}
  BY <1>2, <1>3
<1>14. ms \in Seq(Range(ms))
  <2> DEFINE X == Range(ms)
  <2> HIDE DEF message
  <2>1. \A i \in 1..packs : ms[i] \in X
    BY <1>3 DEF Range
  <2> HIDE DEF X, ms
  <2>2. ms = [i \in 1..packs |-> ms[i]]
    BY <1>3
  <2>3. [i \in 1..packs |-> ms[i]] \in Seq(X)
    BY <1>2, <2>1
  <2> QED
    BY <2>2, <2>3 DEF X
<1> HIDE DEF ms, got
\* A sample that is published is one of a builder.
<1>9. ASSUME NEW i \in 1..packs, NEW s, NEW t, Has(ms[i], s, t)
      PROVE  \E n \in 1..N : \E v \in DOMAIN getPack(builder(n), i) :
               /\ i \in 1..Len(Lists(builder(n))) /\ v \in 1..Len(Lists(builder(n))[i])
               /\ i <= Len(builder(n).values)
               /\ Lists(builder(n))[i][v].signal = s /\ Lists(builder(n))[i][v].tick = t
  <2> DEFINE c == columns(i)
             time == times.values[i]
             m == ms[i]
  <2>1. m = Message(names, c, time)
    BY <1>8
  <2> HIDE DEF c, time, m, names
  <2>2. \E n \in 1..Len(names) : \E v \in DOMAIN c[n] : c[n][v].signal = s /\ c[n][v].tick = t
    BY <1>1, <1>9, <2>1, MessageHas DEF m
  <2>3. PICK n \in 1..N : \E v \in DOMAIN c[n] : c[n][v].signal = s /\ c[n][v].tick = t
    BY <2>2
  <2>4. c[n] = getPack(builder(n), i)
    BY <1>6 DEF c
  <2>5. PICK v \in DOMAIN getPack(builder(n), i) :
          getPack(builder(n), i)[v].signal = s /\ getPack(builder(n), i)[v].tick = t
    BY <2>3, <2>4
  <2> DEFINE b == builder(n)
  <2>6. b \in Builders(All) /\ i \in Nat \ {0} /\ v \in DOMAIN getPack(b, i)
    BY <1>4, <1>8
  <2> HIDE DEF b
  <2>7. /\ i \in 1..Len(b.values) /\ i \in 1..Len(Lists(b)) /\ getPack(b, i) = Lists(b)[i]
        /\ v \in 1..Len(Lists(b)[i])
    BY <2>6, PackIsList
  <2> QED
    BY <2>5, <2>7 DEF b
<1>10. ASSUME NEW s \in Signals, NEW t, Published(ms, s, t) PROVE t \in 0..H2[s]
  <2>1. PICK i \in 1..packs : Has(ms[i], s, t)
    BY <1>8, <1>10 DEF Published
  <2>2. PICK n \in 1..N : \E v \in DOMAIN getPack(builder(n), i) :
               /\ i \in 1..Len(Lists(builder(n))) /\ v \in 1..Len(Lists(builder(n))[i])
               /\ Lists(builder(n))[i][v].signal = s /\ Lists(builder(n))[i][v].tick = t
    BY <1>9, <2>1
  <2>3. t <= H2[s]
    BY <1>4, <2>2 DEF Within
  <2>4. t \in Nat
    <3> DEFINE b == builder(n)
    <3>1. b \in Builders(Samples(Signals, Types))
      BY <1>4
    <3> HIDE DEF b
    <3>2. \A j \in 1..Len(Lists(b)) : \A v \in 1..Len(Lists(b)[j]) :
            Lists(b)[j][v].tick \in Nat
      BY <3>1, ListsHaveTicks
    <3> QED
      BY <2>2, <3>2 DEF b
  <2>5. H2[s] \in Nat
    BY DEF Runs
  <2> QED
    BY <2>3, <2>4, <2>5
<1> DEFINE HeldBy(n, i, s, t) ==
             /\ names[n] = s /\ i \in 1..Len(Lists(builder(n)))
             /\ i <= Len(builder(n).values)
             /\ \E v \in 1..Len(Lists(builder(n))[i]) : Lists(builder(n))[i][v].tick = t
           Held(i, s, t) == \E n \in 1..N : HeldBy(n, i, s, t)
<1>11. ASSUME ~h.replaced, NEW i \in 1..packs, NEW s, NEW t, Has(ms[i], s, t)
       PROVE  Held(i, s, t)
  <2>1. PICK n \in 1..N : \E v \in DOMAIN getPack(builder(n), i) :
               /\ i \in 1..Len(Lists(builder(n))) /\ v \in 1..Len(Lists(builder(n))[i])
               /\ i <= Len(builder(n).values)
               /\ Lists(builder(n))[i][v].signal = s /\ Lists(builder(n))[i][v].tick = t
    BY <1>9, <1>11
  <2>2. builder(n) \in Builders(Samples({names[n]}, Types))
    BY <1>4, <1>11
  <2>3. \A j \in 1..Len(Lists(builder(n))) : \A v \in 1..Len(Lists(builder(n))[j]) :
           Lists(builder(n))[j][v].signal = names[n]
    BY <2>2, ListsOfOne
  <2> QED
    BY <2>1, <2>3
<1> HIDE DEF Held
<1>12. ASSUME ~h.replaced, NEW s \in Signals
       PROVE  Rising(ms, s, L[s], H2[s])
  <2>1. ASSUME NEW i \in 1..packs PROVE InTurn(ms[i], s)
    <3> DEFINE c == columns(i)
               time == times.values[i]
               m == ms[i]
    <3>1. m = Message(names, c, time)
      BY <1>8, <2>1
    <3>2. InColumns(names, c, Types)
      <4> SUFFICES ASSUME NEW n \in 1..N
                   PROVE  c[n] \in Seq(Samples({names[n]}, Types)) /\ Climbs(c[n])
        BY DEF InColumns
      <4>1. c[n] = getPack(builder(n), i)
        BY <1>6
      <4>2. /\ builder(n) \in Builders(Samples({names[n]}, Types))
            /\ Climb(Lists(builder(n)), L[names[n]]) /\ i \in Nat \ {0}
        BY <1>4, <1>8, <1>12
      <4> QED
        BY <4>1, <4>2, PacksClimb
    <3> HIDE DEF c, time, m, names
    <3>3. InTurn(m, s)
      BY <1>1, <3>1, <3>2, MessageInTurn DEF names
    <3> QED
      BY <3>3 DEF m
  <2>2. ASSUME NEW i \in 1..packs, NEW t, Has(ms[i], s, t) PROVE t \in L[s] + 1..H2[s]
    <3>1. PICK n \in 1..N : HeldBy(n, i, s, t)
      BY <1>11, <1>12, <2>2 DEF Held
    <3>2. Climb(Lists(builder(n)), L[s])
      BY <1>4, <1>12, <3>1
    <3>3. L[s] < t
      BY <3>1, <3>2 DEF Climb
    <3>4. t <= H2[s]
      <4>1. t \in 0..H2[s]
        BY <1>8, <1>10, <2>2 DEF Published
      <4> QED
        BY <4>1
    <3>5. t \in Nat
      <4> DEFINE b == builder(n)
      <4>1. b \in Builders(Samples(Signals, Types))
        BY <1>4
      <4> HIDE DEF b
      <4>2. \A j \in 1..Len(Lists(b)) : \A v \in 1..Len(Lists(b)[j]) :
              Lists(b)[j][v].tick \in Nat
        BY <4>1, ListsHaveTicks
      <4> QED
        BY <3>1, <4>2 DEF b
    <3>6. L[s] \in Nat /\ H2[s] \in Nat
      BY DEF Runs
    <3> QED
      BY <3>3, <3>4, <3>5, <3>6
  <2>3. ASSUME NEW i \in 1..packs, NEW j \in 1..packs, i < j, NEW t, NEW u,
               Has(ms[i], s, t), Has(ms[j], s, u)
        PROVE  t < u
    <3>a. Held(i, s, t) /\ Held(j, s, u)
      BY <1>11, <1>12, <2>3
    <3>1. PICK n \in 1..N : HeldBy(n, i, s, t)
      BY <3>a DEF Held
    <3>2. PICK k \in 1..N : HeldBy(k, j, s, u)
      BY <3>a DEF Held
    <3>3. n = k
      BY <3>1, <3>2 DEF Distinct
    <3>4. Climb(Lists(builder(n)), L[s])
      BY <1>4, <1>12, <3>1
    <3> QED
      BY <2>3, <3>1, <3>2, <3>3, <3>4 DEF Climb
  <2> QED
    BY <1>8, <2>1, <2>2, <2>3 DEF Rising
<1>13. ASSUME NEW L2, Continues(L, L2, ms)
       PROVE  Built(got.handler, L2, H2)
  <2>1. ASSUME NEW n \in 1..N
        PROVE  /\ Within(Lists(left[n]), H2)
               /\ ~h.replaced => Climb(Lists(left[n]), L2[names[n]])
    <3> DEFINE b == builder(n)
               new == Lists(left[n])
               ls == Lists(b)
               s == names[n]
    <3>1. PICK d \in Nat : /\ IsRest(new, ls, d)
                           /\ \A p \in 1..packs : p <= Len(b.values) => p <= d
      BY <1>2, <1>4, <1>6, WithoutIs
    <3>2. Within(new, H2)
      <4>1. Within(ls, H2)
        BY <1>4
      <4> HIDE DEF new, ls
      <4> QED
        BY <3>1, <4>1 DEF IsRest, Within
    <3>3. ASSUME ~h.replaced PROVE Climb(new, L2[s])
      <4>1. Climb(ls, L[s]) /\ s \in Signals
        BY <1>4, <3>3
      <4> HIDE DEF new, ls, b, s
      <4>2. /\ Climb(new, L[s])
            /\ \A p \in 1..Len(ls) : \A w \in 1..Len(ls[p]) :
                 p <= d => Climb(new, ls[p][w].tick)
        BY <3>1, <4>1, RestClimbs
      <4>3. CASE L2[s] = L[s]
        BY <4>2, <4>3
      <4>4. CASE Published(ms, s, L2[s])
        <5>1. PICK i \in 1..packs : Has(ms[i], s, L2[s])
          BY <1>8, <4>4 DEF Published
        <5> HIDE DEF HeldBy
        <5>a. Held(i, s, L2[s])
          BY <1>11, <3>3, <5>1
        <5>2. PICK k \in 1..N : HeldBy(k, i, s, L2[s])
          BY <5>a DEF Held
        <5> USE DEF HeldBy
        <5>3. k = n
          BY <5>2 DEF Distinct, s
        <5>4. i <= d
          BY <3>1, <5>2, <5>3 DEF b
        <5> QED
          BY <4>2, <5>2, <5>3, <5>4 DEF ls, b
      <4> QED
        BY <1>13, <4>1, <4>3, <4>4 DEF Continues
    <3> QED
      BY <3>2, <3>3
  <2> QED
    BY <1>3, <1>7, <2>1 DEF Built
<1> QED
  BY <1>3, <1>10, <1>12, <1>13, <1>14 DEF got, ms

-----------------------------------------------------------------------------
(* The order of what comes from rows. *)

\* A message for each row: they are in order.
LEMMA WriteInOrder ==
  ASSUME NEW st \in Blocks, Distinct(st.ports),
         NEW rows \in Seq(Nat), Columns(st, rows),
         NEW L, NEW H, NEW H2, Runs(L, H, H2), Mounts(rows, st.ports, H, H2)
  PROVE  LET got == WriteRows(st, rows)
         IN  /\ got.handler = st.handler /\ got.messages \in Seq(Range(got.messages))
             /\ \A s \in Signals : Rising(got.messages, s, L[s], H2[s])
<1> DEFINE names == st.ports
           ms == WriteRows(st, rows).messages
           columns(i) == [n \in DOMAIN names |-> <<Column(st, names[n], rows)[i]>>]
           message(i) == Message(names, columns(i), <<rows[i]>>)
<1>1. WriteRows(st, rows).handler = st.handler /\ ms = [i \in DOMAIN rows |-> message(i)]
  BY DEF WriteRows
<1>2. names \in Seq(Signals) /\ DOMAIN rows = 1..Len(rows) /\ DOMAIN names = 1..Len(names)
  BY DEF Blocks
<1> HIDE DEF message
<1>3. Len(ms) = Len(rows) /\ \A i \in 1..Len(rows) : ms[i] = message(i)
  <2>1. ms \in Seq({message(i) : i \in DOMAIN rows}) /\ Len(ms) = Len(rows)
    BY <1>1, <1>2
  <2> QED
    BY <1>1, <1>2, <2>1
<1>7. ms \in Seq(Range(ms))
  <2> DEFINE X == Range(ms)
  <2>1. \A i \in 1..Len(rows) : ms[i] \in X
    BY <1>1, <1>2 DEF Range
  <2> HIDE DEF X, ms
  <2>2. ms = [i \in 1..Len(rows) |-> ms[i]]
    BY <1>1, <1>2
  <2>3. [i \in 1..Len(rows) |-> ms[i]] \in Seq(X)
    BY <2>1
  <2> QED
    BY <2>2, <2>3 DEF X
<1> HIDE DEF ms
<1>4. ASSUME NEW i \in 1..Len(rows), NEW n \in 1..Len(names)
      PROVE  /\ columns(i)[n] \in Seq(Samples({names[n]}, Types))
             /\ Len(columns(i)[n]) = 1 /\ columns(i)[n][1].tick = rows[i]
  <2> DEFINE xs == Column(st, names[n], rows)
             X == Samples({names[n]}, Types)
             x == xs[i]
  <2>1. xs \in Seq(X) /\ SameTicks(xs, rows)
    BY DEF Columns
  <2>2. columns(i)[n] = <<x>>
    BY <1>2
  <2> HIDE DEF xs, X, columns
  <2>3. i \in 1..Len(xs) /\ xs[i].tick = rows[i]
    BY <2>1 DEF SameTicks
  <2>4. x \in X /\ x.tick = rows[i]
    BY <2>1, <2>3
  <2> HIDE DEF x
  <2>5. <<x>> \in Seq(X) /\ Len(<<x>>) = 1 /\ <<x>>[1] = x
    BY <2>4
  <2> QED
    BY <2>2, <2>4, <2>5 DEF X
<1> HIDE DEF columns
<1>5. ASSUME NEW i \in 1..Len(rows), NEW s \in Signals
      PROVE  /\ InTurn(ms[i], s)
             /\ \A t : Has(ms[i], s, t) =>
                  t = rows[i] /\ \E n \in 1..Len(names) : names[n] = s
  <2> DEFINE c == columns(i)
             time == <<rows[i]>>
             m == ms[i]
  <2>1. m = Message(names, c, time)
    BY <1>3 DEF message
  <2>2. InColumns(names, c, Types)
    <3> SUFFICES ASSUME NEW n \in 1..Len(names)
                 PROVE  c[n] \in Seq(Samples({names[n]}, Types)) /\ Climbs(c[n])
      BY DEF InColumns
    <3>1. c[n] \in Seq(Samples({names[n]}, Types)) /\ Len(c[n]) = 1
      BY <1>4
    <3>2. Climbs(c[n])
      BY <3>1 DEF Climbs
    <3> QED
      BY <3>1, <3>2
  <2>3. \A n \in 1..Len(names) : Len(c[n]) = 1 /\ c[n][1].tick = rows[i]
    BY <1>4
  <2>0. names \in Seq(Signals) /\ Distinct(names)
    BY <1>2
  <2> HIDE DEF c, time, m, names
  <2>4. /\ InTurn(m, s)
        /\ \A t : Has(m, s, t) =>
             \E n \in 1..Len(names) : /\ names[n] = s
                                      /\ \E v \in 1..Len(c[n]) : c[n][v].tick = t
    BY <2>0, <2>1, <2>2, MessageInTurn
  <2>5. \A v \in 1..1 : v = 1
    OBVIOUS
  <2> QED
    BY <2>3, <2>4, <2>5 DEF m
<1>6. ASSUME NEW s \in Signals PROVE Rising(ms, s, L[s], H2[s])
  <2>1. ASSUME NEW i \in 1..Len(rows), NEW t, Has(ms[i], s, t)
        PROVE  t \in L[s] + 1..H2[s]
    <3>1. t = rows[i]
      BY <1>5, <2>1
    <3>2. PICK n \in 1..Len(names) : names[n] = s
      BY <1>5, <2>1
    <3>3. rows[i] \in H[s] + 1..H2[s]
      BY <3>2 DEF Mounts
    <3>4. L[s] \in Nat /\ H[s] \in Nat /\ H2[s] \in Nat /\ L[s] <= H[s]
      BY DEF Runs
    <3> DEFINE l == L[s]
               h == H[s]
               g == H2[s]
               r == rows[i]
    <3>5. l \in Nat /\ h \in Nat /\ g \in Nat /\ l <= h /\ r \in h + 1..g
      BY <3>3, <3>4
    <3> HIDE DEF l, h, g, r
    <3>6. r \in l + 1..g
      BY <3>5
    <3> QED
      BY <3>1, <3>6 DEF l, g, r
  <2>2. ASSUME NEW i \in 1..Len(rows), NEW j \in 1..Len(rows), i < j, NEW t, NEW u,
               Has(ms[i], s, t), Has(ms[j], s, u)
        PROVE  t < u
    <3>1. t = rows[i] /\ u = rows[j]
      BY <1>5, <2>2
    <3>2. rows[i] < rows[j]
      BY <2>2 DEF Mounts
    <3> QED
      BY <3>1, <3>2
  <2> QED
    BY <1>3, <1>5, <2>1, <2>2 DEF Rising
<1> QED
  BY <1>1, <1>6, <1>7 DEF ms

\* What is made of rows.
ResultOf(k, st, rows) ==
  IF rows = <<>> THEN [handler |-> st.handler, messages |-> <<>>]
  ELSE IF k = "group" THEN WriteRows(st, rows) ELSE CollectRows(st, rows)

\* It is in order, and so is what is begun with it.
LEMMA ResultInOrder ==
  ASSUME NEW k \in {"group", "groupArray"}, NEW st \in Blocks, Good(st.handler, k),
         Distinct(st.ports), NEW rows \in Seq(Nat),
         NEW L, NEW H, NEW H2, Runs(L, H, H2), Built(st.handler, L, H),
         rows = <<>> => H2 = H,
         rows # <<>> => /\ st.handler.reader = st.ports /\ Columns(st, rows)
                        /\ Mounts(rows, st.ports, H, H2)
  PROVE  LET got == ResultOf(k, st, rows)
         IN  /\ \A s \in Signals : \A t : Published(got.messages, s, t) => t \in 0..H2[s]
             /\ \A L2 : Continues(L, L2, got.messages) => Built(got.handler, L2, H2)
             /\ ~st.handler.replaced =>
                  \A s \in Signals : Rising(got.messages, s, L[s], H2[s])
             /\ got.handler.replaced = st.handler.replaced
             /\ got.messages \in Seq(Range(got.messages))
<1> DEFINE got == ResultOf(k, st, rows)
           h == st.handler
<1>1. CASE rows = <<>>
  <2>1. got.handler = h /\ got.messages = <<>>
    BY <1>1 DEF ResultOf
  <2> HIDE DEF got, h
  <2>2. \A s \in Signals : \A lo, hi : /\ Rising(<<>>, s, lo, hi)
                                       /\ \A t : ~Published(<<>>, s, t)
    BY RisingNone
  <2>3. ASSUME NEW L2, Continues(L, L2, <<>>) PROVE L2 = L
    <3>1. L2 \in [Signals -> Nat] /\ L \in [Signals -> Nat]
      BY <2>3 DEF Continues, Runs
    <3>2. \A s \in Signals : L2[s] = L[s]
      BY <2>2, <2>3 DEF Continues
    <3> QED
      BY <3>1, <3>2
  <2>4. \A L2 : Continues(L, L2, <<>>) => Built(h, L2, H2)
    BY <1>1, <2>3 DEF h
  <2>5. <<>> \in Seq(Range(<<>>))
    OBVIOUS
  <2> QED
    BY <2>1, <2>2, <2>4, <2>5 DEF got, h
<1>2. CASE rows # <<>> /\ k = "group"
  <2>1. got = WriteRows(st, rows)
    BY <1>2 DEF ResultOf
  <2>2. /\ got.handler = h /\ got.messages \in Seq(Range(got.messages))
        /\ \A s \in Signals : Rising(got.messages, s, L[s], H2[s])
    BY <1>2, <2>1, WriteInOrder
  <2> HIDE DEF got
  <2>3. \A s \in Signals : \A t : Published(got.messages, s, t) => t \in 0..H2[s]
    <3> SUFFICES ASSUME NEW s \in Signals, NEW t, Published(got.messages, s, t)
                 PROVE  t \in 0..H2[s]
      OBVIOUS
    <3>1. PICK i \in 1..Len(got.messages) : Has(got.messages[i], s, t)
      BY DEF Published
    <3>2. t \in L[s] + 1..H2[s]
      BY <2>2, <3>1 DEF Rising
    <3>3. L[s] \in Nat /\ H2[s] \in Nat
      BY DEF Runs
    <3> QED
      BY <3>2, <3>3
  <2>4. Len(h.dataBuilders) = 0
    BY <1>2 DEF Good, Own
  <2>5. \A L2 : Built(h, L2, H2)
    BY <2>4 DEF Built
  <2> QED
    BY <2>2, <2>3, <2>5 DEF got
<1>3. CASE rows # <<>> /\ k = "groupArray"
  <2>1. got = CollectRows(st, rows)
    BY <1>3 DEF ResultOf
  <2> QED
    BY <1>3, <2>1, CollectInOrder
<1> QED
  BY <1>1, <1>2, <1>3

\* The queue of a signal, when a reader has had its turn.
LEMMA QueueInOrder ==
  ASSUME NEW q \in Seq(Entries), NEW lo \in Nat, NEW hi \in Nat, Ascends(q, 0, lo, hi),
         q # <<>>
  PROVE  Ascends(Tail(q), 0, lo, hi)
<1> DEFINE rest == Tail(q)
           E == Entries
<1> HIDE DEF E
<1>1. /\ rest \in Seq(E) /\ Len(rest) = Len(q) - 1 /\ Len(q) \in Nat
      /\ \A i \in 1..Len(rest) : rest[i] = q[i + 1]
  <2>1. q \in Seq(E)
    BY DEF E
  <2> QED
    BY <2>1
<1> HIDE DEF rest
<1>2. ASSUME NEW i \in 1..Len(rest) PROVE i + 1 \in 1..Len(q) /\ rest[i] = q[i + 1]
  BY <1>1
<1>3. IsRest(rest, q, 1)
  BY <1>2 DEF IsRest
<1>4. Above(rest, 0, lo)
  <2> SUFFICES ASSUME NEW i \in 1..Len(rest), NEW a \in 1..Len(rest[i].ticks), i > 1 \/ a > 0
               PROVE  lo < rest[i].ticks[a]
    BY DEF Above
  <2>1. PICK j \in 1..Len(q) : j > 1 /\ rest[i] = q[j]
    <3>1. i + 1 \in 1..Len(q) /\ i + 1 > 1 /\ rest[i] = q[i + 1]
      BY <1>2
    <3> QED
      BY <3>1
  <2>2. q[j].ticks[a] \in lo + 1..hi
    BY <2>1 DEF Ascends
  <2> QED
    BY <2>1, <2>2
<1>5. Ascends(rest, 0, lo, hi)
  <2>1. rest \in Seq(Entries)
    BY <1>1 DEF E
  <2>2. 0 \in Nat /\ 1 \in Nat /\ 1 # 0
    OBVIOUS
  <2> QED
    BY <1>3, <1>4, <2>1, <2>2, AscendsRest
<1> QED
  BY <1>5 DEF rest

\* How far the queues are read: up to the last row, if there are rows.
Upto(H, names, rows) ==
  [s \in Signals |-> IF rows # <<>> /\ s \in Range(names) THEN Last(rows) ELSE H[s]]

\* Rows that all ports have lie behind what has left the queues.
LEMMA RowsMount ==
  ASSUME NEW st \in Blocks, NEW H \in [Signals -> Nat], NEW now \in Nat,
         \A s \in Signals : H[s] <= now /\ Ascends(st.queue[s], 0, H[s], now),
         NEW rows \in Seq(Nat), \A i, j \in 1..Len(rows) : i < j => rows[i] < rows[j],
         rows # <<>> => \A s \in Range(st.ports) : \A i \in 1..Len(rows) :
                          rows[i] \in TicksOf(st.queue[s])
  PROVE  LET H2 == Upto(H, st.ports, rows)
         IN  /\ H2 \in [Signals -> Nat] /\ Mounts(rows, st.ports, H, H2)
             /\ \A s \in Signals : H[s] <= H2[s] /\ H2[s] <= now
             /\ rows = <<>> => H2 = H
<1> DEFINE H2 == Upto(H, st.ports, rows)
           names == st.ports
           last == rows[Len(rows)]
<1>1. names \in Seq(Signals) /\ DOMAIN names = 1..Len(names)
  BY DEF Blocks
<1>2. ASSUME NEW s \in Range(names) PROVE s \in Signals
  BY <1>1 DEF Range
<1>3. ASSUME rows # <<>>, NEW s \in Range(names), NEW i \in 1..Len(rows)
      PROVE  rows[i] \in H[s] + 1..now
  <2> DEFINE q == st.queue[s]
             h == H[s]
             t == rows[i]
  <2>1. q \in Seq(Entries) /\ h \in Nat /\ Ascends(q, 0, h, now) /\ t \in TicksOf(q)
    BY <1>2, <1>3 DEF Blocks
  <2> HIDE DEF q, h, t
  <2>2. t \in h + 1..now
    BY <2>1, TicksAreLater
  <2> QED
    BY <2>2 DEF h, t
<1>4. ASSUME rows # <<>>
      PROVE  /\ Len(rows) \in 1..Len(rows) /\ last \in Nat /\ Last(rows) = last
             /\ \A i \in 1..Len(rows) : rows[i] <= last /\ rows[i] \in Nat
  <2>1. Len(rows) \in 1..Len(rows)
    BY <1>4
  <2>2. \A i \in 1..Len(rows) : rows[i] \in Nat
    OBVIOUS
  <2>3. ASSUME NEW i \in 1..Len(rows) PROVE rows[i] <= last
    <3>1. CASE i = Len(rows)
      BY <2>1, <2>2, <3>1
    <3>2. CASE i < Len(rows)
      <4>1. rows[i] < last
        BY <2>1, <3>2
      <4> QED
        BY <2>1, <2>2, <4>1
    <3> QED
      BY <3>1, <3>2
  <2>4. Last(rows) = last
    BY DEF Last
  <2> QED
    BY <2>1, <2>2, <2>3, <2>4
<1>5. ASSUME NEW s \in Signals
      PROVE  /\ rows # <<>> /\ s \in Range(names) => H2[s] = last
             /\ ~(rows # <<>> /\ s \in Range(names)) => H2[s] = H[s]
  BY <1>4 DEF Upto
<1>6. ASSUME NEW s \in Signals
      PROVE  H2[s] \in Nat /\ H[s] <= H2[s] /\ H2[s] <= now
  <2> DEFINE h == H[s]
  <2>0. h \in Nat /\ h <= now
    OBVIOUS
  <2>1. CASE rows # <<>> /\ s \in Range(names)
    <3>1. last \in h + 1..now
      BY <1>3, <1>4, <2>1
    <3>2. H2[s] = last /\ last \in Nat
      BY <1>4, <1>5, <2>1
    <3> HIDE DEF h, last, H2
    <3> QED
      BY <2>0, <3>1, <3>2 DEF h
  <2>2. CASE ~(rows # <<>> /\ s \in Range(names))
    BY <1>5, <2>0, <2>2
  <2> QED
    BY <2>1, <2>2
<1>7. H2 = [s \in Signals |-> H2[s]]
  BY DEF Upto
<1> HIDE DEF H2
<1>8. H2 \in [Signals -> Nat]
  BY <1>6, <1>7
<1>9. ASSUME NEW n \in 1..Len(names), NEW i \in 1..Len(rows)
      PROVE  rows[i] \in H[names[n]] + 1..H2[names[n]]
  <2> DEFINE s == names[n]
             h == H[s]
             g == H2[s]
             t == rows[i]
  <2>1. rows # <<>> /\ s \in Range(names) /\ s \in Signals
    BY <1>1 DEF Range
  <2>2. t \in h + 1..now /\ h \in Nat
    BY <1>3, <2>1
  <2>3. g = last /\ t <= last /\ last \in Nat
    BY <1>4, <1>5, <2>1
  <2> HIDE DEF s, h, g, t, last
  <2>4. t \in h + 1..g
    BY <2>2, <2>3
  <2> QED
    BY <2>4 DEF s, h, g, t
<1>10. Mounts(rows, names, H, H2)
  BY <1>9 DEF Mounts
<1>11. ASSUME rows = <<>> PROVE H2 = H
  <2>1. \A s \in Signals : H2[s] = H[s]
    BY <1>5, <1>11
  <2> QED
    BY <1>8, <2>1
<1> QED
  BY <1>6, <1>8, <1>10, <1>11 DEF H2

\* A turn of the handlers that have a reader keeps the order.
LEMMA GroupInOrder ==
  ASSUME NEW k \in {"group", "groupArray"}, NEW st, Sound(st, k), Lined(st),
         live \in [Signals -> Types], ~st.error, NEW now \in Nat,
         NEW L, NEW H, Ordered(st, L, H, now)
  PROVE  LET got == ProcessGroup(st, k)
         IN  /\ ~got.st.handler.replaced =>
                  \A s \in Signals : Rising(got.messages, s, L[s], now)
             /\ \A s \in Signals : \A t : Published(got.messages, s, t) => t \in 0..now
             /\ got.messages \in Seq(Range(got.messages))
             /\ \E H2 : \A L2 : Continues(L, L2, got.messages)
                                  => Ordered(got.st, L2, H2, now)
<1> DEFINE h == st.handler
           on == Range(h.reader)
           valid == on # {} /\ on \subseteq Range(st.ports)
           events == {s \in on : st.queue[s] # <<>> /\ IsEvent(st.queue[s][1])}
           readable == valid /\ events = {} /\ \A s \in on : st.queue[s] # <<>>
           common == IF readable
                     THEN {t \in 1..MaxTick : \A s \in on : t \in TicksOf(st.queue[s])}
                     ELSE {}
           all == Filtered([t \in 1..MaxTick |-> t], common)
           rows == SubSeq(all, 1, IF Len(all) > BuffersSize THEN BuffersSize
                                  ELSE Len(all))
           start == CHOOSE t \in {st.queue[s][1].ticks[1] : s \in on} :
                      \A s \in on : st.queue[s][1].ticks[1] <= t
           upTo == IF rows = <<>> THEN start - 1 ELSE Last(rows)
           result == ResultOf(k, st, rows)
           queues == [s \in Signals |->
                        IF s \in events /\ valid THEN Tail(st.queue[s])
                        ELSE IF readable /\ s \in on THEN Beyond(st.queue[s], upTo)
                        ELSE st.queue[s]]
           r == result.handler
           first == r.firstDescriptorChange /\ (events = {} \/ ~valid)
           g == [r EXCEPT !.firstDescriptorChange = first]
           got == ProcessGroup(st, k)
           ms == result.messages
           new == [st EXCEPT !.queue = queues, !.handler = g]
           H2 == Upto(H, st.ports, rows)
<1>1. got.st = new /\ got.messages = ms
  BY DEF ProcessGroup, ResultOf
<1>2. /\ st \in Blocks /\ h \in Handlers /\ st.ports \in Seq(Signals)
      /\ st.queue \in [Signals -> Seq(Entries)] /\ Good(h, k)
      /\ h.reader \in Seq(Signals) /\ on \subseteq Signals
  BY DEF Sound, Blocks, Handlers, Range
<1>3. valid => h.reader = st.ports
  <2>1. st.ports = <<>> => Range(st.ports) = {}
    BY DEF Range
  <2> QED
    BY <2>1 DEF Sound, Reads
<1>4. /\ rows \in Seq(Nat) /\ \A i \in 1..Len(rows) : rows[i] \in common
      /\ \A i, j \in 1..Len(rows) : i < j => rows[i] < rows[j]
  <2>1. BuffersSize \in Nat
    BY PacksAssumption
  <2> HIDE DEF common
  <2> QED
    BY <2>1, RowsAreRead, RowsClimb
<1>5. rows # <<>> => readable
  <2> HIDE DEF readable, rows
  <2>1. rows # <<>> => 1 \in 1..Len(rows)
    BY <1>4
  <2> QED
    BY <2>1, <1>4
<1>6. ASSUME rows # <<>>
      PROVE  /\ valid /\ events = {} /\ h.reader = st.ports
             /\ \A s \in on : \A i \in 1..Len(rows) : rows[i] \in TicksOf(st.queue[s])
  <2> HIDE DEF rows, on
  <2> QED
    BY <1>3, <1>4, <1>5, <1>6
<1>7. ASSUME rows # <<>> PROVE Columns(st, rows)
  <2>1. ASSUME NEW n \in 1..Len(st.ports)
        PROVE  LET column == Column(st, st.ports[n], rows)
               IN  /\ column \in Seq(Samples({st.ports[n]}, Types))
                   /\ SameTicks(column, rows)
    <3>1. st.ports[n] \in on /\ st.ports[n] \in Signals
      <4>1. h.reader = st.ports
        BY <1>6, <1>7
      <4> QED
        BY <1>2, <4>1 DEF Range
    <3>2. \A i \in 1..Len(rows) : rows[i] \in TicksOf(st.queue[st.ports[n]])
      BY <1>6, <1>7, <3>1
    <3> HIDE DEF rows
    <3> QED
      BY <1>2, <1>4, <3>1, <3>2, ColumnIs
  <2> HIDE DEF rows
  <2> QED
    BY <2>1 DEF Columns
<1> HIDE DEF rows, on
<1>8. /\ Distinct(st.ports) /\ L \in [Signals -> Nat] /\ H \in [Signals -> Nat]
      /\ \A s \in Signals : /\ L[s] <= H[s] /\ H[s] <= now
                            /\ Ascends(st.queue[s], 0, H[s], now)
      /\ Built(h, L, H)
  <2>1. \A s \in Signals : Waits(st, s, L[s], H[s], now)
    BY DEF Ordered
  <2>2. L \in [Signals -> Nat] /\ H \in [Signals -> Nat]
    BY DEF Ordered
  <2>3. ASSUME NEW s \in Signals
        PROVE  L[s] <= H[s] /\ H[s] <= now /\ Ascends(st.queue[s], 0, H[s], now)
    <3>1. H[s] \in L[s]..now /\ L[s] \in Nat /\ Ascends(st.queue[s], 0, H[s], now)
      BY <2>1, <2>2 DEF Waits
    <3> QED
      BY <3>1
  <2> QED
    BY <2>2, <2>3 DEF Ordered, Built
<1>9. /\ H2 \in [Signals -> Nat] /\ Mounts(rows, st.ports, H, H2)
      /\ \A s \in Signals : H[s] <= H2[s] /\ H2[s] <= now
      /\ rows = <<>> => H2 = H
  <2>1. rows # <<>> => \A s \in Range(st.ports) : \A i \in 1..Len(rows) :
                          rows[i] \in TicksOf(st.queue[s])
    BY <1>6 DEF on
  <2> QED
    BY <1>2, <1>4, <1>8, <2>1, RowsMount
<1>10. ASSUME NEW s \in Signals
       PROVE  /\ rows # <<>> /\ s \in on => H2[s] = Last(rows) /\ Last(rows) \in Nat
              /\ ~(rows # <<>> /\ s \in on) => H2[s] = H[s]
  <2>1. H2[s] \in Nat
    BY <1>9
  <2>2. rows # <<>> => on = Range(st.ports)
    BY <1>6 DEF on
  <2> QED
    BY <2>1, <2>2 DEF Upto
<1> HIDE DEF H2
<1>11. Runs(L, H, H2)
  BY <1>8, <1>9 DEF Runs
<1>12. /\ \A s \in Signals : \A t : Published(ms, s, t) => t \in 0..H2[s]
       /\ \A L2 : Continues(L, L2, ms) => Built(r, L2, H2)
       /\ ~h.replaced => \A s \in Signals : Rising(ms, s, L[s], H2[s])
       /\ r.replaced = h.replaced /\ ms \in Seq(Range(ms))
  <2>1. rows # <<>> => /\ st.handler.reader = st.ports /\ Columns(st, rows)
                       /\ Mounts(rows, st.ports, H, H2)
    BY <1>6, <1>7, <1>9
  <2>2. rows = <<>> => H2 = H
    BY <1>9
  <2> QED
    BY <1>2, <1>4, <1>8, <1>11, <2>1, <2>2, ResultInOrder
<1>13. ASSUME NEW s \in Signals PROVE Ascends(queues[s], 0, H2[s], now)
  <2> DEFINE q == st.queue[s]
             lo == H[s]
  <2>1. q \in Seq(Entries) /\ lo \in Nat /\ Ascends(q, 0, lo, now)
    BY <1>2, <1>8
  <2>2. CASE s \in events /\ valid
    <3>1. queues[s] = Tail(q) /\ q # <<>>
      BY <2>2
    <3>2. H2[s] = lo
      BY <1>6, <1>10, <2>2
    <3> HIDE DEF q, queues, lo
    <3> QED
      BY <2>1, <3>1, <3>2, QueueInOrder
  <2>3. CASE ~(s \in events /\ valid) /\ readable /\ s \in on
    <3>1. queues[s] = Beyond(q, upTo)
      BY <2>3
    <3>2. CASE rows = <<>>
      <4>1. H2[s] = lo
        BY <1>10, <3>2
      <4> HIDE DEF q, queues, lo, upTo
      <4>2. Ascends(Beyond(q, upTo), 0, lo, now)
        BY <2>1, BeyondAscends
      <4> QED
        BY <3>1, <4>1, <4>2
    <3>3. CASE rows # <<>>
      <4>1. upTo = H2[s] /\ upTo \in Nat
        BY <1>10, <2>3, <3>3
      <4> HIDE DEF q, queues, lo, upTo
      <4>2. Ascends(Beyond(q, upTo), 0, upTo, now)
        BY <2>1, <4>1, BeyondAscends
      <4> QED
        BY <3>1, <4>1, <4>2
    <3> QED
      BY <3>2, <3>3
  <2>4. CASE ~(s \in events /\ valid) /\ ~(readable /\ s \in on)
    <3>1. queues[s] = q
      BY <2>4
    <3>2. H2[s] = lo
      BY <1>5, <1>10, <2>4
    <3> HIDE DEF queues
    <3> QED
      BY <2>1, <3>1, <3>2
  <2> QED
    BY <2>2, <2>3, <2>4
<1>14. Sound(new, k)
  BY <1>1, GroupProcessed
<1>15. /\ new.ports = st.ports /\ new.queue = queues /\ new.handler = g
  BY <1>2 DEF Blocks
<1> HIDE DEF new, queues
<1>16. /\ g.dataBuilders = r.dataBuilders /\ g.reader = r.reader
       /\ g.replaced = r.replaced
       /\ \A s \in Signals : g.signalBuffers[s] = NoBuffer
  <2>1. g \in Handlers /\ Good(g, k)
    BY <1>14, <1>15 DEF Sound, Blocks
  <2>2. \A s \in Signals : g.signalBuffers[s] = NoBuffer
    BY <2>1 DEF Good, Own
  <2> HIDE DEF result, first
  <2> QED
    BY <2>2
<1> HIDE DEF g, r, ms, result
<1>17. ASSUME NEW L2, Continues(L, L2, ms) PROVE Ordered(new, L2, H2, now)
  <2>1. L2 \in [Signals -> Nat]
    BY <1>17 DEF Continues
  <2>2. ASSUME NEW s \in Signals PROVE Waits(new, s, L2[s], H2[s], now)
    <3> DEFINE l == L2[s]
               m == H2[s]
    <3>1. l <= m
      <4>1. CASE l = L[s]
        <5> DEFINE a == L[s]
                   b == H[s]
        <5>1. a \in Nat /\ b \in Nat /\ m \in Nat /\ a <= b /\ b <= m
          BY <1>8, <1>9
        <5> HIDE DEF a, b, m, l
        <5> QED
          BY <4>1, <5>1 DEF a
      <4>2. CASE Published(ms, s, l)
        <5>1. l \in 0..m /\ m \in Nat
          BY <1>9, <1>12, <4>2
        <5> HIDE DEF l, m
        <5> QED
          BY <5>1
      <4> QED
        BY <1>17, <4>1, <4>2 DEF Continues
    <3>2. l \in Nat /\ m \in Nat /\ m <= now
      BY <1>9, <2>1
    <3>3. Ascends(NoBuffer.data, NoBuffer.offset, l, m)
      BY AscendsNone DEF NoBuffer
    <3>4. Ascends(new.queue[s], 0, m, now)
      BY <1>13, <1>15
    <3>5. new.handler.signalBuffers[s] = NoBuffer
      BY <1>15, <1>16
    <3> HIDE DEF l, m
    <3>6. m \in l..now
      BY <3>1, <3>2
    <3>7. Waits(new, s, l, m, now)
      BY <3>3, <3>4, <3>5, <3>6 DEF Waits
    <3> QED
      BY <3>7 DEF l, m
  <2>3. Built(r, L2, H2)
    BY <1>12, <1>17
  <2> QED
    BY <1>8, <1>9, <1>15, <1>16, <2>1, <2>2, <2>3 DEF Built, Ordered
<1>18. ASSUME ~new.handler.replaced, NEW s \in Signals PROVE Rising(ms, s, L[s], now)
  <2> DEFINE l == L[s]
             m == H2[s]
  <2>1. Rising(ms, s, l, m)
    BY <1>12, <1>15, <1>16, <1>18
  <2>2. l \in Nat /\ m \in Nat /\ m <= now
    BY <1>8, <1>9
  <2> HIDE DEF l, m
  <2>3. Rising(ms, s, l, now)
    BY <2>1, <2>2, RisingWider
  <2> QED
    BY <2>3 DEF l
<1>19. ASSUME NEW s \in Signals, NEW t, Published(ms, s, t) PROVE t \in 0..now
  <2> DEFINE m == H2[s]
  <2>1. t \in 0..m /\ m <= now /\ m \in Nat
    BY <1>9, <1>12, <1>19
  <2> HIDE DEF m
  <2> QED
    BY <2>1
<1> QED
  BY <1>1, <1>12, <1>17, <1>18, <1>19

-----------------------------------------------------------------------------
(* Validation keeps the order. *)

\* A list of nothing is in order.
LEMMA NothingClimbs ==
  ASSUME NEW h, NothingBegun(h), NEW n \in 1..Len(h.dataBuilders), NEW lo, NEW H
  PROVE  Climb(Lists(h.dataBuilders[n]), lo) /\ Within(Lists(h.dataBuilders[n]), H)
<1> DEFINE b == h.dataBuilders[n]
           ls == Lists(b)
<1>1. b = NoBuilder
  BY DEF NothingBegun
<1>2. ls = Append(<<>>, <<>>)
  BY <1>1 DEF Lists, NoBuilder
<1>3. Len(ls) = 1 /\ ls[1] = <<>>
  BY <1>2
<1> HIDE DEF ls, b
<1>4. \A i \in 1..Len(ls) : i = 1
  BY <1>3
<1>5. \A i \in 1..Len(ls) : \A v \in 1..Len(ls[i]) : FALSE
  BY <1>3, <1>4
<1>6. Climb(ls, lo) /\ Within(ls, H)
  BY <1>5 DEF Climb, Within
<1> QED
  BY <1>6 DEF ls, b

\* What builders hold is theirs as before, or is nothing.
Holds(g, h) ==
  \/ NothingBegun(g)
  \/ /\ g.dataBuilders = h.dataBuilders
     /\ ~g.replaced => ~h.replaced /\ g.reader = h.reader

\* Buffers are as before, or empty.
Spares(g, h) ==
  \A s \in Signals : \/ g.signalBuffers[s] = NoBuffer
                     \/ g.signalBuffers[s] = h.signalBuffers[s]

\* What nothing is added to stays in order.
LEMMA OrderStays ==
  ASSUME NEW st, NEW L, NEW H, NEW now \in Nat, Ordered(st, L, H, now),
         NEW new, Distinct(new.ports), Spares(new.handler, st.handler),
         Holds(new.handler, st.handler),
         \A s \in Signals : Ascends(new.queue[s], 0, H[s], now)
  PROVE  Ordered(new, L, H, now)
<1> DEFINE g == new.handler
           h == st.handler
<1>1. ASSUME NEW s \in Signals PROVE Waits(new, s, L[s], H[s], now)
  <2>1. Waits(st, s, L[s], H[s], now)
    BY DEF Ordered
  <2>2. Ascends(NoBuffer.data, NoBuffer.offset, L[s], H[s])
    BY AscendsNone DEF NoBuffer
  <2>3. \/ g.signalBuffers[s] = NoBuffer
        \/ g.signalBuffers[s] = h.signalBuffers[s]
    BY DEF Spares
  <2>4. Ascends(g.signalBuffers[s].data, g.signalBuffers[s].offset, L[s], H[s])
    BY <2>1, <2>2, <2>3 DEF Waits
  <2> QED
    BY <2>1, <2>4 DEF Waits
<1>2. Built(g, L, H)
  <2>1. CASE NothingBegun(g)
    <3> HIDE DEF g
    <3>1. ASSUME NEW n \in 1..Len(g.dataBuilders)
          PROVE  /\ Within(Lists(g.dataBuilders[n]), H)
                 /\ Climb(Lists(g.dataBuilders[n]), L[g.reader[n]])
      BY <2>1, NothingClimbs
    <3> QED
      BY <3>1 DEF Built
  <2>2. CASE ~NothingBegun(g)
    <3>1. /\ g.dataBuilders = h.dataBuilders
          /\ ~g.replaced => ~h.replaced /\ g.reader = h.reader
      BY <2>2 DEF Holds
    <3>2. Built(h, L, H)
      BY DEF Ordered, Built
    <3> HIDE DEF g, h
    <3> QED
      BY <3>1, <3>2 DEF Built
  <2> QED
    BY <2>1, <2>2
<1>3. L \in [Signals -> Nat] /\ H \in [Signals -> Nat]
  BY DEF Ordered
<1> QED
  BY <1>1, <1>2, <1>3 DEF Ordered, Built

\* The queues of a reader that is made begin with events.
LEMMA MadeInOrder ==
  ASSUME NEW st \in Blocks, NEW H \in [Signals -> Nat], NEW now \in Nat,
         \A s \in Signals : Ascends(st.queue[s], 0, H[s], now), NEW s \in Signals
  PROVE  Ascends(createReader(st).queue[s], 0, H[s], now)
<1> DEFINE q == [r \in Signals |-> IF r \in Range(st.ports)
                                   THEN <<Event>> \o st.queue[r] ELSE st.queue[r]]
           old == st.queue[s]
           lo == H[s]
<1>1. createReader(st).queue = q
  BY DEF createReader, Blocks
<1>2. q[s] = IF s \in Range(st.ports) THEN <<Event>> \o old ELSE old
  OBVIOUS
<1>3. old \in Seq(Entries) /\ lo \in Nat /\ Ascends(old, 0, lo, now)
  BY DEF Blocks
<1> HIDE DEF q, old, lo
<1>4. Ascends(<<Event>> \o old, 0, lo, now)
  BY <1>3, AscendsFirst
<1>5. Ascends(q[s], 0, lo, now)
  BY <1>2, <1>3, <1>4
<1> QED
  BY <1>1, <1>5 DEF lo

\* validateInputPorts keeps the order.
LEMMA OrderValidated ==
  ASSUME NEW k \in {"each", "array", "group", "groupArray"}, NEW st, Ready(st, k),
         NEW L, NEW H, NEW now \in Nat, Ordered(st, L, H, now)
  PROVE  Ordered(validateInputPorts(st, k), L, H, now)
<1> DEFINE new == validateInputPorts(st, k)
           ok == \A s \in Range(st.ports) : live[s] \in Supported
           told == st.ports # <<>> /\ ok
           cleared == [st EXCEPT !.error = FALSE]
<1>0. /\ st \in Blocks /\ st.handler \in Handlers /\ st.ports \in Seq(Signals)
      /\ Good(st.handler, k)
  BY DEF Ready, Blocks
<1>1. /\ Distinct(st.ports) /\ H \in [Signals -> Nat]
      /\ \A s \in Signals : Ascends(st.queue[s], 0, H[s], now)
  BY DEF Ordered, Waits
<1>2. /\ cleared \in Blocks /\ cleared.ports = st.ports
      /\ cleared.queue = st.queue /\ cleared.handler = st.handler
  BY <1>0 DEF Blocks
<1> HIDE DEF cleared
<1>3. CASE ~told
  <2> DEFINE changed == st.ports # st.handler.reader
             waiting == \E b \in Range(st.handler.dataBuilders) : b # NoBuilder
             r == st.handler.replaced \/ (changed /\ waiting)
             h == [st.handler EXCEPT !.replaced = r]
  <2>1. new = [st EXCEPT !.error = ~ok, !.handler = h]
    BY <1>3 DEF validateInputPorts
  <2>2. st.handler.replaced => r
    OBVIOUS
  <2> HIDE DEF r
  <2>3. /\ h.signalBuffers = st.handler.signalBuffers
        /\ h.dataBuilders = st.handler.dataBuilders
        /\ h.reader = st.handler.reader /\ h.replaced = r
    BY <1>0 DEF Handlers
  <2> HIDE DEF h, new
  <2>4. new.ports = st.ports /\ new.queue = st.queue /\ new.handler = h
    BY <1>0, <2>1 DEF Blocks
  <2>5. Spares(new.handler, st.handler) /\ Holds(new.handler, st.handler)
    BY <2>2, <2>3, <2>4 DEF Spares, Holds
  <2>6. Ordered(new, L, H, now)
    BY <1>1, <2>4, <2>5, OrderStays
  <2> QED
    BY <2>6 DEF new
<1>4. CASE told
  <2>1. new = signalListChanged(cleared, k)
    BY <1>4 DEF validateInputPorts, cleared
  <2>2. CASE k = "each"
    <3>1. new = cleared
      BY <2>1, <2>2 DEF signalListChanged
    <3> HIDE DEF new
    <3>2. Spares(new.handler, st.handler) /\ Holds(new.handler, st.handler)
      BY <1>2, <3>1 DEF Spares, Holds
    <3>3. Ordered(new, L, H, now)
      BY <1>1, <1>2, <3>1, <3>2, OrderStays
    <3> QED
      BY <3>3 DEF new
  <2>3. CASE k = "array"
    <3> DEFINE none == [s \in Signals |-> NoBuffer]
               h == [cleared.handler EXCEPT !.signalBuffers = none]
    <3>1. new = [cleared EXCEPT !.handler = h]
      BY <2>1, <2>3 DEF signalListChanged
    <3>2. /\ h.signalBuffers = none /\ h.dataBuilders = st.handler.dataBuilders
          /\ h.reader = st.handler.reader /\ h.replaced = st.handler.replaced
      BY <1>0, <1>2 DEF Handlers
    <3> HIDE DEF h, new
    <3>3. new.ports = st.ports /\ new.queue = st.queue /\ new.handler = h
      BY <1>2, <3>1 DEF Blocks
    <3>4. Spares(new.handler, st.handler) /\ Holds(new.handler, st.handler)
      BY <3>2, <3>3 DEF Spares, Holds
    <3>5. Ordered(new, L, H, now)
      BY <1>1, <3>3, <3>4, OrderStays
    <3> QED
      BY <3>5 DEF new
  <2> DEFINE made == createReader(cleared)
             h == made.handler
  <2>4. /\ made \in Blocks /\ h \in Handlers /\ made.ports = st.ports
        /\ h.reader = st.ports /\ h.signalBuffers = st.handler.signalBuffers
        /\ h.dataBuilders = st.handler.dataBuilders
        /\ h.replaced = st.handler.replaced
    BY <1>2, CreatedReader DEF Blocks
  <2>5. \A s \in Signals : Ascends(made.queue[s], 0, H[s], now)
    BY <1>1, <1>2, MadeInOrder
  <2>6. CASE k = "group"
    <3>1. new = made
      BY <2>1, <2>6 DEF signalListChanged, made
    <3> HIDE DEF made, new
    <3>2. Len(h.dataBuilders) = 0
      BY <1>0, <2>4, <2>6 DEF Good, Own
    <3>3. Spares(new.handler, st.handler) /\ Holds(new.handler, st.handler)
      BY <2>4, <3>1, <3>2 DEF Spares, Holds, NothingBegun
    <3>4. Ordered(new, L, H, now)
      BY <1>1, <2>4, <2>5, <3>1, <3>3, OrderStays
    <3> QED
      BY <3>4 DEF new
  <2>7. CASE k = "groupArray"
    <3> DEFINE n == Len(st.ports)
               i == initBuilders(h, n)
    <3>1. new = [made EXCEPT !.handler = i]
      BY <1>2, <2>1, <2>7 DEF signalListChanged, made
    <3>2. i.signalBuffers = h.signalBuffers
      BY <2>4 DEF initBuilders, Handlers
    <3>3. Holds(i, st.handler)
      <4>0. n \in Nat
        BY <1>0
      <4>1. CASE Len(h.dataBuilders) = n
        <5>1. i = h
          BY <4>1 DEF initBuilders
        <5>2. st.handler.replaced \/ st.handler.reader = st.ports \/ NothingBegun(st.handler)
          BY <2>4, <4>1 DEF Ready, Noticed
        <5> HIDE DEF i, h
        <5>3. NothingBegun(st.handler) => NothingBegun(h)
          BY <2>4 DEF NothingBegun
        <5> QED
          BY <2>4, <5>1, <5>2, <5>3 DEF Holds
      <4>2. CASE Len(h.dataBuilders) # n
        <5>1. NothingBegun(i)
          BY <2>4, <4>0, <4>2, BuildersMade
        <5> QED
          BY <5>1 DEF Holds
      <4> QED
        BY <4>1, <4>2
    <3> HIDE DEF i, new, made
    <3>4. new.ports = made.ports /\ new.queue = made.queue /\ new.handler = i
      BY <2>4, <3>1 DEF Blocks
    <3>5. Spares(new.handler, st.handler)
      BY <2>4, <3>2, <3>4 DEF Spares
    <3>6. Ordered(new, L, H, now)
      BY <1>1, <2>4, <2>5, <3>3, <3>4, <3>5, OrderStays
    <3> QED
      BY <3>6 DEF new
  <2> QED
    BY <2>2, <2>3, <2>6, <2>7
<1> QED
  BY <1>3, <1>4

-----------------------------------------------------------------------------
(* Every step keeps the order. *)

\* There is a mark for each signal, behind which its queue begins, that shows all
\* of it to be in order.
OrderInv == \E H : Ordered(Now, latest, H, tick)

\* A callback: ports, queues or the handler changed, and then validation.
LEMMA CallbackKeepsOrder ==
  ASSUME NEW k \in Kinds, NEW st, Ready(st, k), Become(validateInputPorts(st, k)),
         latest' = latest, tick \in Nat, tick' = tick,
         NEW H, Ordered(st, latest, H, tick)
  PROVE  OrderInv'
<1> DEFINE new == validateInputPorts(st, k)
<1>1. Sound(new, k)
  BY KindsAre, Validated
<1>2. Ordered(new, latest, H, tick)
  BY KindsAre, OrderValidated
<1> HIDE DEF new
<1>3. Now' = new
  BY <1>1, NowIs DEF Sound, new
<1>4. Ordered(Now', latest', H, tick')
  BY <1>2, <1>3
<1> QED
  BY <1>4 DEF OrderInv

\* Nothing is there yet.
LEMMA InitInOrder == Init => OrderInv
<1> SUFFICES ASSUME Init PROVE OrderInv
  OBVIOUS
<1>1. NothingBegun(NewHandler) /\ \A s \in Signals : NewHandler.signalBuffers[s] = NoBuffer
  BY HandlerMade
<1>2. /\ Now.ports = <<>> /\ Now.handler = NewHandler /\ tick = 0
      /\ \A s \in Signals : Now.queue[s] = <<>>
      /\ latest = [s \in Signals |-> 0]
  BY DEF Init, Now
<1>3. latest \in [Signals -> Nat] /\ \A s \in Signals : latest[s] = 0
  BY <1>2
<1>4. Distinct(<<>>)
  BY DEF Distinct
<1>5. ASSUME NEW s \in Signals PROVE Waits(Now, s, latest[s], latest[s], tick)
  <2>1. NoBuffer.data = <<>>
    BY DEF NoBuffer
  <2>2. 0 \in 0..0
    OBVIOUS
  <2> QED
    BY <1>1, <1>2, <1>3, <2>1, <2>2, AscendsNone DEF Waits
<1>6. ASSUME NEW n \in 1..Len(NewHandler.dataBuilders)
      PROVE  /\ Within(Lists(NewHandler.dataBuilders[n]), latest)
             /\ Climb(Lists(NewHandler.dataBuilders[n]), latest[NewHandler.reader[n]])
  BY <1>1, NothingClimbs
<1>7. Ordered(Now, latest, latest, tick)
  BY <1>2, <1>3, <1>4, <1>5, <1>6 DEF Ordered
<1> QED
  BY <1>7 DEF OrderInv

\* Packets come to the ends of queues, of ticks that are new.
LEMMA SendPacketsKeepsOrder ==
  ASSUME PacksInv, OrderInv, NEW n \in 1..2, SendPackets(n)
  PROVE  OrderInv'
<1> DEFINE ticks == [i \in 1..n |-> tick + i]
           packet(s) == [type |-> live[s], ticks |-> ticks]
           next == tick + n
<1>1. /\ Now \in Blocks /\ live \in [Signals -> Types] /\ tick \in Nat
      /\ queue \in [Signals -> Seq(Entries)] /\ n \in Nat
  BY DEF PacksInv, Sound, Blocks, Now
<1>2. PICK H : Ordered(Now, latest, H, tick)
  BY DEF OrderInv
<1>3. /\ ticks \in Seq(Nat) /\ Len(ticks) = n /\ \A i \in 1..n : ticks[i] = tick + i
      /\ ticks # <<>>
  <2>1. \A i \in 1..n : tick + i \in Nat
    BY <1>1
  <2>2. ticks \in Seq(Nat) /\ Len(ticks) = n
    BY <1>1, <2>1
  <2> QED
    BY <2>2
<1>4. queue' = [s \in Signals |-> IF s \notin Range(ports) THEN queue[s]
                                  ELSE Append(queue[s], packet(s))]
  BY DEF SendPackets
<1> HIDE DEF ticks
<1>5. ASSUME NEW s \in Signals
      PROVE  packet(s) \in Entries /\ TicksAscend(packet(s), tick, next)
  <2>1. packet(s).ticks = ticks /\ packet(s).type = live[s] /\ live[s] \in Types
    BY <1>1
  <2>2. packet(s) \in Entries
    BY <1>3, <2>1 DEF Entries, Packets
  <2>3. \A a \in 1..n : tick + a \in tick + 1..tick + n
    BY <1>1
  <2>4. \A a, c \in 1..n : a < c => tick + a < tick + c
    BY <1>1
  <2> HIDE DEF packet
  <2> QED
    BY <1>3, <2>1, <2>2, <2>3, <2>4 DEF TicksAscend
<1> HIDE DEF packet
<1>6. next \in Nat /\ tick <= next
  BY <1>1
<1> HIDE DEF next
<1>7. ASSUME NEW s \in Signals PROVE Waits(Now', s, latest[s], H[s], next)
  <2> DEFINE q == queue[s]
             p == packet(s)
             lo == latest[s]
             h == H[s]
  <2>1. Waits(Now, s, lo, h, tick) /\ lo \in Nat /\ H \in [Signals -> Nat]
    BY <1>2 DEF Ordered
  <2>2. /\ q \in Seq(Entries) /\ h \in lo..tick /\ h \in Nat
        /\ Ascends(handler.signalBuffers[s].data, handler.signalBuffers[s].offset, lo, h)
        /\ Ascends(q, 0, h, tick)
    BY <1>1, <2>1 DEF Waits, Now
  <2>3. p \in Entries /\ TicksAscend(p, tick, next)
    BY <1>5
  <2>4. queue'[s] = IF s \notin Range(ports) THEN q ELSE Append(q, p)
    BY <1>4
  <2> HIDE DEF q, p, lo, h
  <2>5. h <= tick /\ h \in lo..next
    BY <1>1, <1>6, <2>1, <2>2
  <2>6. Ascends(Append(q, p), 0, h, next)
    BY <1>1, <1>6, <2>2, <2>3, <2>5, AscendsMore
  <2>7. Ascends(q, 0, h, next)
    BY <1>1, <1>6, <2>2, AscendsWider
  <2>8. Ascends(queue'[s], 0, h, next)
    BY <2>4, <2>6, <2>7
  <2>9. Now'.queue = queue' /\ Now'.handler = handler
    BY DEF Now, SendPackets
  <2>10. Waits(Now', s, lo, h, next)
    BY <2>2, <2>5, <2>8, <2>9 DEF Waits
  <2> QED
    BY <2>10 DEF lo, h
<1>8. /\ Now'.ports = ports /\ Now'.handler = handler /\ latest' = latest /\ tick' = next
      /\ Now.ports = ports /\ Now.handler = handler
  BY DEF Now, SendPackets, Quiet, next
<1>9. Ordered(Now', latest', H, tick')
  BY <1>2, <1>7, <1>8 DEF Ordered
<1> QED
  BY <1>9 DEF OrderInv

\* An event comes to the end of a queue.
LEMMA ChangeDescriptorKeepsOrder ==
  ASSUME PacksInv, OrderInv, NEW s \in Signals, NEW t \in Types, ChangeDescriptor(s, t)
  PROVE  OrderInv'
<1>1. Now \in Blocks /\ tick \in Nat /\ queue \in [Signals -> Seq(Entries)]
  BY DEF PacksInv, Sound, Blocks, Now
<1>2. PICK H : Ordered(Now, latest, H, tick)
  BY DEF OrderInv
<1>3. Event \in Entries /\ TicksAscend(Event, tick, tick)
  <2>1. Len(Event.ticks) = 0
    BY DEF Event
  <2> QED
    BY <2>1 DEF Entries, TicksAscend
<1>4. ASSUME NEW r \in Signals PROVE Ascends(queue'[r], 0, H[r], tick)
  <2> DEFINE q == queue[r]
             h == H[r]
  <2>1. Waits(Now, r, latest[r], h, tick) /\ h \in Nat /\ latest[r] \in Nat
    BY <1>2 DEF Ordered
  <2>2. q \in Seq(Entries) /\ h <= tick /\ Ascends(q, 0, h, tick)
    <3>1. h \in latest[r]..tick
      BY <2>1 DEF Waits
    <3> QED
      BY <1>1, <2>1, <3>1 DEF Waits, Now
  <2>3. queue'[r] = q \/ queue'[r] = Append(q, Event)
    BY <1>1 DEF ChangeDescriptor
  <2> HIDE DEF q, h
  <2>4. tick <= tick
    BY <1>1
  <2>5. Ascends(Append(q, Event), 0, h, tick)
    BY <1>1, <1>3, <2>1, <2>2, <2>4, AscendsMore
  <2>6. Ascends(queue'[r], 0, h, tick)
    BY <2>2, <2>3, <2>5
  <2> QED
    BY <2>6 DEF h
<1>5. /\ Now'.ports = Now.ports /\ Now'.handler = Now.handler /\ Now'.queue = queue'
      /\ latest' = latest /\ tick' = tick
  BY DEF Now, ChangeDescriptor, Quiet
<1>6. Distinct(Now'.ports)
  BY <1>2, <1>5 DEF Ordered
<1>7. Spares(Now'.handler, Now.handler) /\ Holds(Now'.handler, Now.handler)
  BY <1>5 DEF Spares, Holds
<1>8. Ordered(Now', latest, H, tick)
  <2> DEFINE new == Now'
  <2>1. \A r \in Signals : Ascends(new.queue[r], 0, H[r], tick)
    BY <1>4, <1>5
  <2>2. Distinct(new.ports) /\ Spares(new.handler, Now.handler)
        /\ Holds(new.handler, Now.handler)
    BY <1>6, <1>7
  <2> HIDE DEF new
  <2>3. Ordered(new, latest, H, tick)
    BY <1>1, <1>2, <2>1, <2>2, OrderStays
  <2> QED
    BY <2>3 DEF new
<1> QED
  BY <1>5, <1>8 DEF OrderInv

\* A port is added, and its queue begins with an event.
LEMMA ConnectKeepsOrder ==
  ASSUME PacksInv, OrderInv, NEW s \in Signals, Connect(s)
  PROVE  OrderInv'
<1>1. PICK st : /\ Ready(st, kind) /\ Become(validateInputPorts(st, kind))
                /\ st.handler = handler /\ st.ports = Append(ports, s)
                /\ st.queue[s] = <<Event>>
                /\ \A r \in Signals : r # s => st.queue[r] = queue[r]
  BY ConnectedIs
<1>2. PICK H : Ordered(Now, latest, H, tick)
  BY DEF OrderInv
<1>3. /\ kind \in Kinds /\ tick \in Nat /\ ports \in Seq(Signals)
      /\ Now.ports = ports /\ Now.handler = handler /\ Now.queue = queue
  BY DEF PacksInv, Sound, Blocks, Now
<1>4. Distinct(Append(ports, s))
  <2>1. Distinct(ports)
    BY <1>2, <1>3 DEF Ordered
  <2> DEFINE m == Len(ports)
             new == Append(ports, s)
  <2>2. /\ m \in Nat /\ Len(new) = m + 1 /\ new[m + 1] = s
        /\ \A i \in 1..m : new[i] = ports[i] /\ ports[i] # s
    <3>1. \A i \in 1..m : ports[i] # s
      BY <1>3 DEF Connect, Range
    <3> QED
      BY <1>3, <3>1
  <2>3. \A i, j \in 1..m : i # j => ports[i] # ports[j]
    BY <2>1 DEF Distinct
  <2> HIDE DEF m, new
  <2>4. Distinct(new)
    <3> SUFFICES ASSUME NEW i \in 1..Len(new), NEW j \in 1..Len(new), i # j
                 PROVE  new[i] # new[j]
      BY DEF Distinct
    <3>1. (i \in 1..m \/ i = m + 1) /\ (j \in 1..m \/ j = m + 1)
      BY <2>2
    <3> QED
      BY <2>2, <2>3, <3>1
  <2> QED
    BY <2>4 DEF new
<1>5. ASSUME NEW r \in Signals PROVE Ascends(st.queue[r], 0, H[r], tick)
  <2>1. Waits(Now, r, latest[r], H[r], tick)
    BY <1>2 DEF Ordered
  <2>2. CASE r # s
    BY <1>1, <1>3, <2>1, <2>2 DEF Waits
  <2>3. CASE r = s
    <3> DEFINE q == st.queue[s]
    <3>1. Len(q) = 1 /\ q[1] = Event /\ Len(Event.ticks) = 0
      BY <1>1 DEF Event
    <3> HIDE DEF q
    <3>2. Ascends(q, 0, H[s], tick)
      <4>1. \A i \in 1..Len(q) : i = 1
        BY <3>1
      <4>2. \A i \in 1..Len(q) : \A a \in 1..Len(q[i].ticks) : FALSE
        BY <3>1, <4>1
      <4> QED
        BY <4>2 DEF Ascends
    <3> QED
      BY <2>3, <3>2 DEF q
  <2> QED
    BY <2>2, <2>3
<1>6. Spares(st.handler, Now.handler) /\ Holds(st.handler, Now.handler)
  BY <1>1, <1>3 DEF Spares, Holds
<1>7. Ordered(st, latest, H, tick)
  BY <1>1, <1>2, <1>3, <1>4, <1>5, <1>6, OrderStays
<1> QED
  BY <1>1, <1>3, <1>7, CallbackKeepsOrder DEF Connect, Quiet

\* A port is gone, and its queue; its buffer may stay.
LEMMA DisconnectKeepsOrder ==
  ASSUME PacksInv, OrderInv, NEW s \in Signals, Disconnect(s)
  PROVE  OrderInv'
<1>1. PICK st : /\ Ready(st, kind) /\ Become(validateInputPorts(st, kind))
                /\ st.handler = handler /\ st.ports = Filtered(ports, Signals \ {s})
                /\ st.queue[s] = <<>>
                /\ \A r \in Signals : r # s => st.queue[r] = queue[r]
  BY DisconnectedIs
<1>2. PICK H : Ordered(Now, latest, H, tick)
  BY DEF OrderInv
<1>3. /\ kind \in Kinds /\ tick \in Nat /\ ports \in Seq(Signals)
      /\ Now.ports = ports /\ Now.handler = handler /\ Now.queue = queue
  BY DEF PacksInv, Sound, Blocks, Now
<1>4. Distinct(st.ports)
  <2> DEFINE new == Filtered(ports, Signals \ {s})
  <2>1. Distinct(ports)
    BY <1>2, <1>3 DEF Ordered
  <2>2. PICK e : Embeds(e, new, ports, Signals \ {s})
    BY <1>3, FilteredIs
  <2>3. new \in Seq(Signals)
    BY <1>3, FilteredIs
  <2> HIDE DEF new
  <2>4. Distinct(new)
    <3> SUFFICES ASSUME NEW i \in 1..Len(new), NEW j \in 1..Len(new), i # j
                 PROVE  new[i] # new[j]
      BY DEF Distinct
    <3>1. /\ e[i] \in 1..Len(ports) /\ e[j] \in 1..Len(ports)
          /\ new[i] = ports[e[i]] /\ new[j] = ports[e[j]]
      BY <2>2 DEF Embeds
    <3>2. e[i] # e[j]
      <4>1. i < j \/ j < i
        BY <2>3
      <4> QED
        BY <2>2, <3>1, <4>1 DEF Embeds
    <3> QED
      BY <2>1, <3>1, <3>2 DEF Distinct
  <2> QED
    BY <1>1, <2>4 DEF new
<1>5. ASSUME NEW r \in Signals PROVE Ascends(st.queue[r], 0, H[r], tick)
  <2>1. Waits(Now, r, latest[r], H[r], tick)
    BY <1>2 DEF Ordered
  <2>2. CASE r # s
    BY <1>1, <1>3, <2>1, <2>2 DEF Waits
  <2>3. CASE r = s
    BY <1>1, <2>3, AscendsNone
  <2> QED
    BY <2>2, <2>3
<1>6. Spares(st.handler, Now.handler) /\ Holds(st.handler, Now.handler)
  BY <1>1, <1>3 DEF Spares, Holds
<1>7. Ordered(st, latest, H, tick)
  BY <1>2, <1>3, <1>4, <1>5, <1>6, OrderStays
<1> QED
  BY <1>1, <1>3, <1>7, CallbackKeepsOrder DEF Disconnect, Quiet

\* A new handler knows nothing.
LEMMA PropertyChangedKeepsOrder ==
  ASSUME PacksInv, OrderInv, NEW k \in Kinds, PropertyChanged(k)
  PROVE  OrderInv'
<1>1. PICK st : /\ Ready(st, k) /\ Become(validateInputPorts(st, k))
                /\ st.handler = NewHandler /\ st.ports = ports /\ st.queue = queue
  BY HandlerChangedIs
<1>2. PICK H : Ordered(Now, latest, H, tick)
  BY DEF OrderInv
<1>3. tick \in Nat /\ Now.ports = ports /\ Now.queue = queue
  BY DEF PacksInv, Now
<1>4. Distinct(st.ports) /\ \A r \in Signals : Ascends(st.queue[r], 0, H[r], tick)
  BY <1>1, <1>2, <1>3 DEF Ordered, Waits
<1>5. Spares(st.handler, Now.handler) /\ Holds(st.handler, Now.handler)
  BY <1>1, HandlerMade DEF Spares, Holds
<1>6. Ordered(st, latest, H, tick)
  BY <1>2, <1>3, <1>4, <1>5, OrderStays
<1> QED
  BY <1>1, <1>3, <1>6, CallbackKeepsOrder DEF PropertyChanged, Quiet

\* Numbers that are bounded have a greatest.
LEMMA MaxIs ==
  ASSUME NEW n \in Nat, NEW S, S \subseteq 0..n, S # {}
  PROVE  Max(S) \in S
<1> DEFINE T == {n - x : x \in S}
<1>1. T \subseteq Nat /\ T # {}
  <2>1. \A x \in S : n - x \in Nat
    BY SMT
  <2>2. PICK x : x \in S
    OBVIOUS
  <2>3. n - x \in T
    BY <2>2
  <2> QED
    BY <2>1, <2>3
<1>2. PICK d \in T : \A m \in T : d <= m
  <2> HIDE DEF T
  <2> QED
    BY <1>1, LeastElement
<1>3. PICK x \in S : d = n - x
  BY <1>2
<1>4. \A y \in S : x >= y
  <2> SUFFICES ASSUME NEW y \in S PROVE x >= y
    OBVIOUS
  <2>1. d <= n - y
    BY <1>2
  <2>2. x \in 0..n /\ y \in 0..n
    OBVIOUS
  <2> QED
    BY <1>3, <2>1, <2>2
<1> QED
  BY <1>4 DEF Max

\* What latest becomes when messages are sent.
LatestOf(old, ms) ==
  [s \in Signals |-> Max({old[s]} \cup {TickAt(ms, p) : p \in PlacesOf(s, ms)})]

\* It is as before, or the tick of a sample that is sent.
LEMMA LatestContinues ==
  ASSUME NEW X, NEW ms \in Seq(X), NEW now \in Nat, NEW L \in [Signals -> Nat],
         \A s \in Signals : L[s] <= now,
         \A s \in Signals : \A t : Published(ms, s, t) => t \in 0..now
  PROVE  Continues(L, LatestOf(L, ms), ms)
<1> DEFINE new == LatestOf(L, ms)
           S(s) == {L[s]} \cup {TickAt(ms, p) : p \in PlacesOf(s, ms)}
<1>1. ASSUME NEW s \in Signals
      PROVE  new[s] \in Nat /\ (new[s] = L[s] \/ Published(ms, s, new[s]))
  <2>1. new[s] = Max(S(s))
    BY DEF LatestOf
  <2>2. ASSUME NEW p \in PlacesOf(s, ms) PROVE Published(ms, s, TickAt(ms, p))
    <3>1. p[1] \in DOMAIN ms /\ Has(ms[p[1]], s, TickAt(ms, p))
      BY PlaceIs
    <3>2. p[1] \in 1..Len(ms)
      BY <3>1
    <3> QED
      BY <3>1, <3>2 DEF Published
  <2>3. L[s] \in 0..now
    <3> DEFINE l == L[s]
    <3>1. l \in Nat /\ l <= now
      OBVIOUS
    <3> HIDE DEF l
    <3>2. l \in 0..now
      BY <3>1
    <3> QED
      BY <3>2 DEF l
  <2>4. ASSUME NEW t \in S(s) PROVE t \in 0..now /\ (t = L[s] \/ Published(ms, s, t))
    <3>1. CASE t = L[s]
      BY <2>3, <3>1
    <3>2. CASE \E p \in PlacesOf(s, ms) : t = TickAt(ms, p)
      <4>1. Published(ms, s, t)
        BY <2>2, <3>2
      <4> QED
        BY <4>1
    <3> QED
      BY <3>1, <3>2
  <2>5. L[s] \in S(s)
    OBVIOUS
  <2> DEFINE T == S(s)
  <2>6. T \subseteq 0..now /\ T # {}
    BY <2>4, <2>5
  <2> HIDE DEF T
  <2>7. Max(T) \in T
    BY <2>6, MaxIs
  <2> HIDE DEF new, S
  <2>8. new[s] \in S(s)
    BY <2>1, <2>7 DEF T
  <2>9. new[s] \in 0..now
    BY <2>4, <2>8
  <2>10. new[s] \in Nat
    BY <2>9
  <2> QED
    BY <2>4, <2>8, <2>10
<1>2. new = [s \in Signals |-> new[s]]
  BY DEF LatestOf
<1> HIDE DEF new
<1>3. new \in [Signals -> Nat]
  BY <1>1, <1>2
<1>4. Continues(L, new, ms)
  BY <1>1, <1>3 DEF Continues
<1> QED
  BY <1>4 DEF new

\* A turn keeps the order, and what it sends is in order.
LEMMA TurnKeepsOrder ==
  ASSUME PacksInv, OrderInv, Turn
  PROVE  /\ OrderInv' /\ sent' \in Seq(Range(sent'))
         /\ latest \in [Signals -> Nat] /\ tick \in Nat
         /\ ~handler'.replaced => \A s \in Signals : Rising(sent', s, latest[s], tick)
<1> DEFINE flagged == hasSignalError /\ signalDescriptorChanged
           st1 == IF flagged THEN validateInputPorts(Now, kind) ELSE Now
           none == [st |-> st1, messages |-> <<>>, needRevalidation |-> FALSE]
           got == IF st1.error THEN none ELSE Process(st1, kind)
           st2 == IF got.needRevalidation THEN validateInputPorts(got.st, kind)
                  ELSE got.st
           ms == got.messages
<1>1. /\ live \in [Signals -> Types] /\ kind \in Kinds /\ tick \in Nat
      /\ Sound(Now, kind) /\ Lined(Now)
  BY DEF PacksInv
<1>2. kind \in {"each", "array", "group", "groupArray"}
  BY <1>1, KindsAre
<1>3. PICK H : Ordered(Now, latest, H, tick)
  BY DEF OrderInv
<1>4. /\ Become(st2) /\ sent' = ms /\ tick' = tick /\ latest' = LatestOf(latest, ms)
  BY DEF Turn, sdkVars, LatestOf
<1>5. Sound(st1, kind) /\ Lined(st1) /\ Ordered(st1, latest, H, tick)
  <2>1. Ready(Now, kind) /\ Now \in Blocks
    BY <1>1 DEF Sound, Ready
  <2>2. Sound(validateInputPorts(Now, kind), kind)
    BY <1>2, <2>1, Validated
  <2>3. Lined(validateInputPorts(Now, kind))
    BY <1>1, <2>1, LinesValidated
  <2>4. Ordered(validateInputPorts(Now, kind), latest, H, tick)
    BY <1>1, <1>2, <1>3, <2>1, OrderValidated
  <2> QED
    BY <1>1, <1>3, <2>2, <2>3, <2>4
<1> HIDE DEF st1
<1>6. /\ latest \in [Signals -> Nat]
      /\ \A s \in Signals : latest[s] <= tick
  <2>1. latest \in [Signals -> Nat] /\ H \in [Signals -> Nat]
    BY <1>3 DEF Ordered
  <2>2. ASSUME NEW s \in Signals PROVE latest[s] <= tick
    <3>1. H[s] \in latest[s]..tick /\ latest[s] \in Nat
      BY <1>3, <2>1 DEF Ordered, Waits
    <3> QED
      BY <1>1, <3>1
  <2> QED
    BY <2>1, <2>2
<1>7. /\ Sound(got.st, kind)
      /\ ms \in Seq(Range(ms))
      /\ \A s \in Signals : \A t : Published(ms, s, t) => t \in 0..tick
      /\ ~got.st.handler.replaced => \A s \in Signals : Rising(ms, s, latest[s], tick)
      /\ \/ got.needRevalidation => ms = <<>>
         \/ \A s \in Signals : Rising(ms, s, latest[s], tick)
      /\ \E H2 : \A L2 : Continues(latest, L2, ms) => Ordered(got.st, L2, H2, tick)
  <2>1. CASE st1.error
    <3>1. got = none
      BY <2>1
    <3>2. got.st = st1 /\ ms = <<>>
      BY <3>1
    <3> HIDE DEF got, ms
    <3>3. \A s \in Signals : \A lo, hi : /\ Rising(<<>>, s, lo, hi)
                                         /\ \A t : ~Published(<<>>, s, t)
      BY RisingNone
    <3>4. ASSUME NEW L2, Continues(latest, L2, <<>>) PROVE L2 = latest
      <4>1. L2 \in [Signals -> Nat] /\ \A s \in Signals : L2[s] = latest[s]
        BY <3>3, <3>4 DEF Continues
      <4> QED
        BY <1>6, <4>1
    <3>5. \A L2 : Continues(latest, L2, <<>>) => Ordered(st1, L2, H, tick)
      BY <1>5, <3>4
    <3>6. <<>> \in Seq(Range(<<>>))
      OBVIOUS
    <3> QED
      BY <1>5, <3>2, <3>3, <3>5, <3>6
  <2>2. CASE ~st1.error /\ kind \in {"each", "array"}
    <3>1. got = ProcessEach(st1, kind)
      BY <2>2 DEF Process
    <3> HIDE DEF got
    <3>2. Sound(got.st, kind) /\ ms \in Seq(Alone(SizeOf(kind)))
      BY <1>1, <1>5, <2>2, <3>1, EachProcessed
    <3>3. /\ \A s \in Signals : Rising(ms, s, latest[s], tick)
          /\ \E H2 : \A L2 : Continues(latest, L2, ms) => Ordered(got.st, L2, H2, tick)
      BY <1>1, <1>5, <2>2, <3>1, EachInOrder
    <3> HIDE DEF ms
    <3>4. ms \in Seq(Range(ms))
      <4> DEFINE X == Range(ms)
      <4>1. \A i \in 1..Len(ms) : ms[i] \in X
        BY <3>2 DEF Range
      <4> HIDE DEF X
      <4> QED
        BY <3>2, <4>1 DEF X
    <3>5. ASSUME NEW s \in Signals, NEW t, Published(ms, s, t) PROVE t \in 0..tick
      <4> DEFINE lo == latest[s]
      <4>1. PICK i \in 1..Len(ms) : Has(ms[i], s, t)
        BY <3>5 DEF Published
      <4>2. t \in lo + 1..tick /\ lo \in Nat
        BY <1>6, <3>3, <4>1 DEF Rising
      <4> HIDE DEF lo
      <4> QED
        BY <4>2
    <3> QED
      BY <3>2, <3>3, <3>4, <3>5
  <2>3. CASE ~st1.error /\ kind \in {"group", "groupArray"}
    <3>1. got = ProcessGroup(st1, kind)
      BY <2>3 DEF Process
    <3> HIDE DEF got
    <3>2. Sound(got.st, kind) /\ (got.needRevalidation => ms = <<>>)
      BY <1>1, <1>5, <2>3, <3>1, GroupProcessed
    <3>3. /\ ~got.st.handler.replaced => \A s \in Signals : Rising(ms, s, latest[s], tick)
          /\ \A s \in Signals : \A t : Published(ms, s, t) => t \in 0..tick
          /\ ms \in Seq(Range(ms))
          /\ \E H2 : \A L2 : Continues(latest, L2, ms) => Ordered(got.st, L2, H2, tick)
      BY <1>1, <1>5, <2>3, <3>1, GroupInOrder
    <3> QED
      BY <3>2, <3>3
  <2> QED
    BY <1>2, <2>1, <2>2, <2>3
<1> HIDE DEF got, ms
<1>8. Continues(latest, latest', ms)
  BY <1>1, <1>4, <1>6, <1>7, LatestContinues
<1>9. PICK H2 : Ordered(got.st, latest', H2, tick)
  BY <1>7, <1>8
<1>10. /\ st2 \in Blocks /\ Ordered(st2, latest', H2, tick)
       /\ ~st2.handler.replaced => \A s \in Signals : Rising(ms, s, latest[s], tick)
  <2>1. CASE got.needRevalidation
    <3>1. st2 = validateInputPorts(got.st, kind)
      BY <2>1
    <3> HIDE DEF st2
    <3>2. Ready(got.st, kind)
      BY <1>7 DEF Sound, Ready
    <3>3. st2 \in Blocks
      BY <1>2, <3>1, <3>2, Validated DEF Sound
    <3>4. Ordered(st2, latest', H2, tick)
      BY <1>1, <1>2, <1>9, <3>1, <3>2, OrderValidated
    <3>5. \A s \in Signals : Rising(ms, s, latest[s], tick)
      BY <1>7, <2>1, RisingNone
    <3> QED
      BY <3>3, <3>4, <3>5
  <2>2. CASE ~got.needRevalidation
    <3>1. st2 = got.st
      BY <2>2
    <3> HIDE DEF st2
    <3> QED
      BY <1>7, <1>9, <3>1 DEF Sound
  <2> QED
    BY <2>1, <2>2
<1> HIDE DEF st2
<1>11. Now' = st2 /\ handler' = st2.handler
  BY <1>4, <1>10, NowIs DEF Become
<1>12. Ordered(Now', latest', H2, tick')
  BY <1>4, <1>10, <1>11
<1> QED
  BY <1>1, <1>4, <1>6, <1>7, <1>10, <1>11, <1>12 DEF OrderInv

\* Every step keeps the order.
LEMMA NextKeepsOrder ==
  ASSUME PacksInv, OrderInv, [Next]_vars
  PROVE  OrderInv'
<1>1. CASE UNCHANGED vars
  BY <1>1 DEF OrderInv, Now, vars, sdkVars
<1>2. ASSUME NEW n \in 1..2, SendPackets(n) PROVE OrderInv'
  BY <1>2, SendPacketsKeepsOrder
<1>3. ASSUME NEW s \in Signals, NEW t \in Types, ChangeDescriptor(s, t) PROVE OrderInv'
  BY <1>3, ChangeDescriptorKeepsOrder
<1>4. ASSUME NEW s \in Signals, Connect(s) PROVE OrderInv'
  BY <1>4, ConnectKeepsOrder
<1>5. ASSUME NEW s \in Signals, Disconnect(s) PROVE OrderInv'
  BY <1>5, DisconnectKeepsOrder
<1>6. ASSUME NEW k \in Kinds, PropertyChanged(k) PROVE OrderInv'
  BY <1>6, PropertyChangedKeepsOrder
<1>7. CASE Turn
  BY <1>7, TurnKeepsOrder
<1> QED
  BY <1>1, <1>2, <1>3, <1>4, <1>5, <1>6, <1>7 DEF Next

\* What a step sends is in order.
StepInOrder ==
  ~handler'.replaced => \A s \in Signals : \A p, q \in PlacesOf(s, sent') :
    /\ latest[s] < TickAt(sent', p)
    /\ Before(p, q) => TickAt(sent', p) < TickAt(sent', q)

\* Only a turn sends anything.
LEMMA StepsInOrder ==
  ASSUME PacksInv, OrderInv, Next
  PROVE  StepInOrder
<1>1. CASE sent' = <<>>
  <2>1. ASSUME NEW s, NEW p \in PlacesOf(s, <<>>) PROVE FALSE
    <3>1. p[1] \in DOMAIN <<>>
      BY <2>1, PlaceIs
    <3> QED
      BY <3>1
  <2> QED
    BY <1>1, <2>1 DEF StepInOrder
<1>2. CASE Turn
  <2>1. /\ sent' \in Seq(Range(sent')) /\ latest \in [Signals -> Nat] /\ tick \in Nat
        /\ ~handler'.replaced => \A s \in Signals : Rising(sent', s, latest[s], tick)
    BY <1>2, TurnKeepsOrder
  <2>2. ASSUME ~handler'.replaced, NEW s \in Signals, NEW p \in PlacesOf(s, sent'),
               NEW q \in PlacesOf(s, sent')
        PROVE  /\ latest[s] < TickAt(sent', p)
               /\ Before(p, q) => TickAt(sent', p) < TickAt(sent', q)
    <3> DEFINE ms == sent'
               lo == latest[s]
               X == Range(sent')
    <3>1. ms \in Seq(X) /\ lo \in Nat /\ Rising(ms, s, lo, tick)
          /\ p \in PlacesOf(s, ms) /\ q \in PlacesOf(s, ms)
      BY <2>1, <2>2
    <3> HIDE DEF ms, lo, X
    <3>2. /\ lo < TickAt(ms, p)
          /\ Before(p, q) => TickAt(ms, p) < TickAt(ms, q)
      BY <2>1, <3>1, RisingMeans
    <3> QED
      BY <3>2 DEF ms, lo
  <2> QED
    BY <2>2 DEF StepInOrder
<1>3. Next => sent' = <<>> \/ Turn
  BY DEF Next, SendPackets, ChangeDescriptor, Connect, Disconnect, PropertyChanged, Quiet
<1> QED
  BY <1>1, <1>2, <1>3

\* What is published of a signal comes in the order of its samples, each once: a
\* packet, a buffer or a pack that is begun never gives a sample again, or behind a
\* later one, whatever ports, descriptors, properties and errors do meanwhile.
THEOREM NoSampleTwice == Spec => NeverTwice
<1>1. Spec => []PacksInv
  BY PacksInvHolds
<1>2. Init => OrderInv
  BY InitInOrder
<1>3. PacksInv /\ OrderInv /\ [Next]_vars => OrderInv'
  BY NextKeepsOrder
<1>4. PacksInv /\ OrderInv /\ [Next]_vars => [StepInOrder]_vars
  BY StepsInOrder
<1>5. NeverTwice <=> [][StepInOrder]_vars
  BY DEF NeverTwice, StepInOrder
<1> QED
  BY <1>1, <1>2, <1>3, <1>4, <1>5, PTL DEF Spec
=============================================================================
