--------------------------- MODULE JsonPathProofs ---------------------------
(***************************************************************************)
(* Proofs about JsonPath, for paths of any length and any characters: the  *)
(* code stays within the path, and asks the document for what it means.    *)
(*                                                                         *)
(* The reference is not recursive along the path as the code is, so the    *)
(* second proof goes in four stages:                                       *)
(*   1. what the recursive functions compute (Escaped, InOrder, unescape), *)
(*      by induction over a set of positions;                              *)
(*   2. groups and chains: where one closes, what is before and after it;  *)
(*   3. ReadSoFar, what readSegment knows at each position: one lemma per  *)
(*      kind of turn, and MeaningRead for the end of the segment;          *)
(*   4. which segments are behind, and which indexes are applied, at each  *)
(*      turn of the outer loops: ReadInv and IndexInv.                     *)
(***************************************************************************)
EXTENDS JsonPath, TLAPS, WellFoundedInduction, SequenceTheorems

-----------------------------------------------------------------------------
(* No path leads outside itself. *)

\* WithinPath, and where the parts of a segment lie in it.
IInv ==
  /\ dotPath \in Seq(STRING)
  /\ phase \in {"read", "index", "done"}
  /\ start \in Nat /\ pos \in Nat /\ chainStart \in Nat
  /\ WithinPath

\* A group of an index closes before the end of what is looked at.
LEMMA GroupWithin ==
  ASSUME NEW path \in Seq(STRING), NEW at \in Nat, NEW end \in Nat,
         IndexAt(path, at, end)
  PROVE  /\ parseIndex(path, at, end).after \in Nat
         /\ at + 2 < parseIndex(path, at, end).after
         /\ parseIndex(path, at, end).after <= end
  <1> DEFINE k == CHOOSE c \in Closings(path, at, end) : TRUE
  <1>1. k \in Closings(path, at, end)
    BY DEF IndexAt
  <1>2. k \in at + 2..end - 1
    BY <1>1 DEF Closings
  <1>3. parseIndex(path, at, end).after = k + 1
    BY DEF parseIndex
  <1> QED
    BY <1>2, <1>3

\* Every step stays within the path.
LEMMA Inductive == ASSUME IInv, [Next \/ Done]_vars PROVE IInv'
  <1> USE DEF IInv, WithinPath, pathEnd
  <1>0. Len(dotPath) \in Nat
    OBVIOUS
  <1>1. CASE ReadEscape
    BY <1>0, <1>1 DEF ReadEscape, Reading, isEscapeSequence
  <1>2. CASE ReadIndex
    BY <1>0, <1>2, GroupWithin DEF ReadIndex, Reading
  <1>3. CASE ReadCharacter
    BY <1>0, <1>3 DEF ReadCharacter, Reading
  <1>4. ASSUME NEW found \in BOOLEAN, FindMember(found) PROVE IInv'
    BY <1>0, <1>4 DEF FindMember, nameEnd
  <1>5. ASSUME NEW found \in BOOLEAN, ApplyIndex(found) PROVE IInv'
    <2>1. CASE IndexAt(dotPath, pos, start)
      BY <1>0, <1>5, <2>1, GroupWithin DEF ApplyIndex
    <2>2. CASE ~IndexAt(dotPath, pos, start)
      BY <1>0, <1>5, <2>2 DEF ApplyIndex
    <2> QED
      BY <2>1, <2>2
  <1>6. CASE NextSegment
    BY <1>0, <1>6 DEF NextSegment
  <1>7. CASE UNCHANGED vars
    BY <1>7 DEF vars
  <1> QED
    BY <1>1, <1>2, <1>3, <1>4, <1>5, <1>6, <1>7 DEF Next, Done

\* Every path that is given, and every address as it is written, starts within.
LEMMA Starts == ASSUME Init PROVE IInv
  <1>1. dotPath \in Seq(STRING)
    BY PathAssumption, WrittenAssumption DEF Init
  <1>2. dotPath # <<>> => 1 <= Len(dotPath)
    BY <1>1
  <1> QED
    BY <1>1, <1>2 DEF Init, IInv, WithinPath, pathEnd

\* No path makes the code look beyond its end, or takes the name of a segment
\* from outside the segment (resolveJsonPath).
THEOREM StaysWithin == Spec => []WithinPath
  <1>1. Init => IInv
    BY Starts
  <1>2. IInv /\ [Next \/ Done]_vars => IInv'
    BY Inductive
  <1>3. IInv => WithinPath
    BY DEF IInv
  <1> QED
    BY <1>1, <1>2, <1>3, PTL DEF Spec

-----------------------------------------------------------------------------
(* Induction, and what the recursive functions of the reference are. *)

\* A set of natural numbers that is not empty has a least element.
LEMMA LeastElement ==
  ASSUME NEW T, T \subseteq Nat, T # {}
  PROVE  \E n \in T : \A m \in T : n <= m
<1> DEFINE R == OpToRel(<, Nat)
<1>1. \A x, y \in Nat : <<x, y>> \in R <=> x < y
  BY DEF OpToRel
<1>2. IsWellFoundedOn(R, Nat)
  BY NatLessThanWellFounded
<1> HIDE DEF R
<1>3. PICK n \in T : \A m \in T : ~ (<<m, n>> \in R)
  BY <1>2, WFMin
<1>4. n \in Nat /\ \A m \in T : m \in Nat /\ ~ (m < n)
  BY <1>1, <1>3
<1> QED
  BY <1>4

\* Induction from m to n, with a set in the place of a predicate.
LEMMA Induction ==
  ASSUME NEW m \in Nat, NEW n \in Nat, m <= n, NEW S, m \in S,
         \A i \in m..n - 1 : i \in S => i + 1 \in S
  PROVE  m..n \subseteq S
<1> DEFINE T == (m..n) \ S
<1>1. SUFFICES ASSUME T # {} PROVE FALSE
  OBVIOUS
<1>2. PICK l \in T : \A k \in T : l <= k
  <2>1. T \subseteq Nat
    OBVIOUS
  <2> HIDE DEF T
  <2> QED
    BY <1>1, <2>1, LeastElement
<1>3. l # m /\ l - 1 \in m..n - 1 /\ l - 1 \in S
  BY <1>2
<1> QED
  BY <1>2, <1>3

\* A character is escaped by a backslash before it that is not escaped itself.
LEMMA EscapedIs ==
  ASSUME NEW path \in Seq(STRING), NEW i \in Nat
  PROVE  i \in Escaped(path) <=>
           /\ i \in 2..Len(path) /\ i - 1 \notin Escaped(path)
           /\ path[i] \in Escapable /\ path[i - 1] = "\\"
<1> DEFINE n == Len(path)
           C(k) == path[k] \in Escapable /\ path[k - 1] = "\\"
           Is(f, m) == f = [k \in 0..m |-> k > 1 /\ ~f[k - 1] /\ C(k)]
           T == {m \in Nat : \E f : Is(f, m)}
           escaped == CHOOSE f : Is(f, n)
<1> HIDE DEF C
<1>0. n \in Nat
  OBVIOUS
<1>1. 0 \in T
  <2> DEFINE g == [k \in 0..0 |-> FALSE]
             h == [k \in 0..0 |-> k > 1 /\ ~g[k - 1] /\ C(k)]
  <2>1. \A k \in 0..0 : ~(k > 1)
    OBVIOUS
  <2>2. \A k \in 0..0 : (k > 1 /\ ~g[k - 1] /\ C(k)) = FALSE
    BY <2>1, Zenon
  <2>3. g = h
    BY <2>2, Zenon
  <2>4. Is(g, 0)
    BY <2>3
  <2> HIDE DEF g
  <2> QED
    BY <2>4
<1>2. ASSUME NEW m \in Nat, m \in T PROVE m + 1 \in T
  <2>1. PICK f : Is(f, m)
    BY <1>2
  <2> DEFINE g == [k \in 0..m + 1 |-> IF k = m + 1 THEN k > 1 /\ ~f[k - 1] /\ C(k)
                                      ELSE f[k]]
  <2>2. ASSUME NEW k \in 0..m + 1
        PROVE  g[k] = (k > 1 /\ ~g[k - 1] /\ C(k))
    <3>1. CASE k = m + 1
      <4>1. k > 1 => g[k - 1] = f[k - 1]
        BY <3>1
      <4>2. g[k] = (k > 1 /\ ~f[k - 1] /\ C(k))
        BY <3>1
      <4> QED
        BY <4>1, <4>2
    <3>2. CASE k # m + 1
      <4>1. k \in 0..m /\ g[k] = f[k] /\ (k > 1 => g[k - 1] = f[k - 1])
        BY <3>2
      <4>2. f[k] = (k > 1 /\ ~f[k - 1] /\ C(k))
        BY <4>1, <2>1
      <4> HIDE DEF g
      <4> QED
        BY <4>1, <4>2
    <3> QED
      BY <3>1, <3>2
  <2>3. Is(g, m + 1)
    BY <2>2
  <2> HIDE DEF g
  <2> QED
    BY <2>3
<1>3. n \in T
  <2> HIDE DEF T
  <2>1. 0..n \subseteq T
    BY <1>1, <1>2, Induction
  <2> QED
    BY <2>1
<1>4. Is(escaped, n)
  BY <1>3
<1>5. Escaped(path) = {k \in DOMAIN path : escaped[k]}
  BY DEF Escaped, C
<1> HIDE DEF escaped
<1>6. \A k \in 0..n : escaped[k] = (k > 1 /\ ~escaped[k - 1] /\ C(k))
  BY <1>4
<1>7. \A k \in 1..n : k \in Escaped(path) <=> escaped[k]
  BY <1>5
<1>8. CASE i \in 1..n
  <2>0. i \in 0..n
    BY <1>8
  <2>1. escaped[i] <=> (i > 1 /\ ~escaped[i - 1] /\ C(i))
    BY <1>6, <2>0, Zenon
  <2>2. i > 1 => (i - 1 \in Escaped(path) <=> escaped[i - 1])
    BY <1>7, <1>8
  <2>3. i \in Escaped(path) <=> escaped[i]
    BY <1>7, <1>8
  <2> QED
    BY <2>1, <2>2, <2>3, <1>8 DEF C
<1>9. CASE i \notin 1..n
  BY <1>5, <1>9
<1> QED
  BY <1>8, <1>9

\* f is the function that InOrder is defined by.
OrdersTo(f, S, n) ==
  /\ f[0] = <<>>
  /\ \A i \in 1..n : f[i] = IF i \in S THEN Append(f[i - 1], i) ELSE f[i - 1]

\* There is one.
LEMMA InOrderUnfolds ==
  ASSUME NEW S, NEW n \in Nat
  PROVE  \E f : OrdersTo(f, S, n) /\ InOrder(S, n) = f[n]
<1> DEFINE base == <<>>
           Body(x, i) == IF i \in S THEN Append(x, i) ELSE x
           Is(f, m) == f = [i \in 0..m |-> IF i = 0 THEN base
                                           ELSE Body(f[i - 1], i)]
           T == {m \in Nat : \E f : Is(f, m)}
           upTo == CHOOSE f : Is(f, n)
<1> HIDE DEF base, Body
<1>1. 0 \in T
  <2>1. Is([i \in 0..0 |-> base], 0)
    OBVIOUS
  <2> QED
    BY <2>1
<1>2. ASSUME NEW m \in Nat, m \in T PROVE m + 1 \in T
  <2>1. PICK f : Is(f, m)
    BY <1>2
  <2> DEFINE g == [i \in 0..m + 1 |-> IF i = m + 1 THEN Body(f[m], m + 1)
                                      ELSE f[i]]
  <2>2. ASSUME NEW i \in 0..m + 1
        PROVE  g[i] = IF i = 0 THEN base ELSE Body(g[i - 1], i)
    <3>1. CASE i = m + 1
      <4>1. g[i - 1] = f[m]
        BY <3>1
      <4> QED
        BY <3>1, <4>1
    <3>2. CASE i # m + 1
      <4>1. i \in 0..m /\ g[i] = f[i] /\ (i # 0 => g[i - 1] = f[i - 1])
        BY <3>2
      <4> QED
        BY <4>1, <2>1
    <3> QED
      BY <3>1, <3>2
  <2>3. Is(g, m + 1)
    BY <2>2
  <2> HIDE DEF g
  <2> QED
    BY <2>3
<1>3. n \in T
  <2> HIDE DEF T
  <2>1. 0..n \subseteq T
    BY <1>1, <1>2, Induction
  <2> QED
    BY <2>1
<1>4. Is(upTo, n)
  BY <1>3
<1>5. InOrder(S, n) = upTo[n]
  BY DEF InOrder, base, Body
<1> HIDE DEF upTo
<1>6. /\ upTo[0] = base
      /\ \A i \in 1..n : upTo[i] = Body(upTo[i - 1], i)
  BY <1>4
<1> QED
  BY <1>5, <1>6 DEF OrdersTo, base, Body

\* The functions for m and for a larger n agree up to m.
LEMMA OrdersAgree ==
  ASSUME NEW S, NEW R, NEW m \in Nat, NEW n \in Nat, m <= n,
         \A i \in 1..m : i \in S <=> i \in R,
         NEW f, OrdersTo(f, S, m), NEW g, OrdersTo(g, R, n)
  PROVE  f[m] = g[m]
<1> DEFINE T == {i \in 0..m : f[i] = g[i]}
<1>1. 0 \in T
  BY DEF OrdersTo
<1>2. ASSUME NEW i \in 0..m - 1, i \in T PROVE i + 1 \in T
  <2>1. i + 1 \in 1..m /\ i + 1 \in 1..n /\ i + 1 - 1 = i
    OBVIOUS
  <2>2. f[i + 1] = IF i + 1 \in S THEN Append(f[i], i + 1) ELSE f[i]
    BY <2>1 DEF OrdersTo
  <2>3. g[i + 1] = IF i + 1 \in R THEN Append(g[i], i + 1) ELSE g[i]
    BY <2>1 DEF OrdersTo
  <2> QED
    BY <1>2, <2>1, <2>2, <2>3
<1>3. 0..m \subseteq T
  <2> HIDE DEF T
  <2> QED
    BY <1>1, <1>2, Induction
<1> QED
  BY <1>3

\* One position more, and the order of the positions in a list.
LEMMA InOrderNone == ASSUME NEW S PROVE InOrder(S, 0) = <<>>
  BY InOrderUnfolds DEF OrdersTo

\* One position more goes to the end of the list, or is not in S.
LEMMA InOrderNext ==
  ASSUME NEW S, NEW n \in Nat
  PROVE  InOrder(S, n + 1) = IF n + 1 \in S THEN Append(InOrder(S, n), n + 1)
                             ELSE InOrder(S, n)
<1>1. PICK f : OrdersTo(f, S, n) /\ InOrder(S, n) = f[n]
  BY InOrderUnfolds
<1>2. PICK g : OrdersTo(g, S, n + 1) /\ InOrder(S, n + 1) = g[n + 1]
  BY InOrderUnfolds
<1>3. f[n] = g[n]
  BY <1>1, <1>2, OrdersAgree
<1>4. n + 1 \in 1..n + 1 /\ n + 1 - 1 = n
  OBVIOUS
<1>5. g[n + 1] = IF n + 1 \in S THEN Append(g[n], n + 1) ELSE g[n]
  BY <1>2, <1>4 DEF OrdersTo
<1> QED
  BY <1>1, <1>2, <1>3, <1>5

\* Only the positions up to n matter.
LEMMA InOrderSame ==
  ASSUME NEW S, NEW R, NEW n \in Nat, \A i \in 1..n : i \in S <=> i \in R
  PROVE  InOrder(S, n) = InOrder(R, n)
<1>1. PICK f : OrdersTo(f, S, n) /\ InOrder(S, n) = f[n]
  BY InOrderUnfolds
<1>2. PICK g : OrdersTo(g, R, n) /\ InOrder(R, n) = g[n]
  BY InOrderUnfolds
<1> QED
  BY <1>1, <1>2, OrdersAgree

\* The list is of positions up to n, and as long as it is.
LEMMA InOrderIs ==
  ASSUME NEW S, NEW n \in Nat
  PROVE  /\ InOrder(S, n) \in Seq(1..n)
         /\ \A i \in DOMAIN InOrder(S, n) : InOrder(S, n)[i] \in S
<1> DEFINE Right(m) == /\ InOrder(S, m) \in Seq(1..m)
                       /\ \A i \in DOMAIN InOrder(S, m) : InOrder(S, m)[i] \in S
           T == {m \in 0..n : Right(m)}
<1>1. 0 \in T
  <2>0. InOrder(S, 0) = <<>>
    BY InOrderNone
  <2>1. <<>> \in Seq(1..0) /\ \A i \in DOMAIN << >> : << >>[i] \in S
    <3>1. <<>> \in Seq(1..0)
      OBVIOUS
    <3>2. Len(<<>>) = 0 /\ DOMAIN << >> = 1..0
      OBVIOUS
    <3> QED
      BY <3>1, <3>2
  <2>2. Right(0)
    BY <2>0, <2>1
  <2> HIDE DEF Right
  <2> QED
    BY <2>2
<1>2. ASSUME NEW m \in 0..n - 1, m \in T PROVE m + 1 \in T
  <2> DEFINE s == InOrder(S, m)
             t == InOrder(S, m + 1)
  <2>1. s \in Seq(1..m) /\ \A i \in DOMAIN s : s[i] \in S
    BY <1>2
  <2>2. t = IF m + 1 \in S THEN Append(s, m + 1) ELSE s
    BY InOrderNext
  <2>3. Right(m + 1)
    <3> SUFFICES t \in Seq(1..m + 1) /\ \A i \in DOMAIN t : t[i] \in S
      OBVIOUS
    <3> HIDE DEF s, t
    <3>1. s \in Seq(1..m + 1)
      BY <2>1
    <3>2. CASE m + 1 \in S
      <4>1. t = Append(s, m + 1)
        BY <2>2, <3>2
      <4> QED
        BY <2>1, <3>1, <3>2, <4>1
    <3>3. CASE m + 1 \notin S
      BY <2>1, <2>2, <3>1, <3>3
    <3> QED
      BY <3>2, <3>3
  <2> QED
    BY <2>3
<1>3. 0..n \subseteq T
  <2> HIDE DEF T
  <2> QED
    BY <1>1, <1>2, Induction
<1> QED
  BY <1>3

\* What is in order up to m begins what is in order up to n.
LEMMA InOrderBegins ==
  ASSUME NEW S, NEW m \in Nat, NEW n \in Nat, m <= n
  PROVE  /\ Len(InOrder(S, m)) <= Len(InOrder(S, n))
         /\ \A i \in 1..Len(InOrder(S, m)) : InOrder(S, n)[i] = InOrder(S, m)[i]
<1> DEFINE s == InOrder(S, m)
           Begins(k) == /\ Len(s) <= Len(InOrder(S, k))
                        /\ \A i \in 1..Len(s) : InOrder(S, k)[i] = s[i]
           T == {k \in m..n : Begins(k)}
<1>0. \A k \in Nat : InOrder(S, k) \in Seq(1..k)
  BY InOrderIs
<1>1. m \in T
  BY <1>0
<1>2. ASSUME NEW k \in m..n - 1, k \in T PROVE k + 1 \in T
  <2> DEFINE t == InOrder(S, k)
             u == InOrder(S, k + 1)
  <2>1. u = IF k + 1 \in S THEN Append(t, k + 1) ELSE t
    BY InOrderNext
  <2>2. t \in Seq(1..k) /\ s \in Seq(1..m)
    BY <1>0
  <2>3. Len(s) <= Len(t) /\ \A i \in 1..Len(s) : t[i] = s[i]
    BY <1>2
  <2>4. Len(s) <= Len(u) /\ \A i \in 1..Len(s) : u[i] = s[i]
    <3> HIDE DEF s, t, u
    <3>1. t \in Seq(Nat)
      BY <2>2
    <3> QED
      BY <2>1, <2>2, <2>3, <3>1
  <2> QED
    BY <2>4
<1>3. m..n \subseteq T
  <2> HIDE DEF T
  <2> QED
    BY <1>1, <1>2, Induction
<1> QED
  BY <1>3

\* Where S has nothing, nothing is added.
LEMMA InOrderSkips ==
  ASSUME NEW S, NEW m \in Nat, NEW n \in Nat, m <= n,
         \A i \in m + 1..n : i \notin S
  PROVE  InOrder(S, n) = InOrder(S, m)
<1> DEFINE T == {k \in m..n : InOrder(S, k) = InOrder(S, m)}
<1>1. m \in T
  OBVIOUS
<1>2. ASSUME NEW k \in m..n - 1, k \in T PROVE k + 1 \in T
  BY <1>2, InOrderNext
<1>3. m..n \subseteq T
  <2> HIDE DEF T
  <2> QED
    BY <1>1, <1>2, Induction
<1> QED
  BY <1>3

-----------------------------------------------------------------------------
(* What unescape makes of a name. *)

\* f is the function that unescape is defined by.
Unescapes(f, path, from, to) ==
  /\ f[to] = <<>>
  /\ \A at \in from..to - 1 :
       f[at] = IF isEscapeSequence(path, at, to) THEN <<path[at + 1]>> \o f[at + 2]
               ELSE <<path[at]>> \o f[at + 1]

\* There is one.
LEMMA UnescapeUnfolds ==
  ASSUME NEW path, NEW from \in Nat, NEW to \in Nat, from <= to
  PROVE  \E f : Unescapes(f, path, from, to) /\ unescape(path, from, to) = f[from]
<1> DEFINE base == <<>>
           E(at) == path[at] = "\\" /\ path[at + 1] \in Escapable
           Two(x, at) == <<path[at + 1]>> \o x
           One(x, at) == <<path[at]>> \o x
           Value(f, at) == IF at = to THEN base
                           ELSE IF at + 1 < to /\ E(at) THEN Two(f[at + 2], at)
                           ELSE One(f[at + 1], at)
           Is(f, m) == f = [at \in m..to |-> Value(f, at)]
           T == {d \in 0..to - from : \E f : Is(f, to - d)}
           out == CHOOSE f : Is(f, from)
<1> HIDE DEF base, E, Two, One
<1>1. 0 \in T
  <2>1. Is([at \in to..to |-> base], to - 0)
    OBVIOUS
  <2> HIDE DEF Is
  <2> QED
    BY <2>1
<1>2. ASSUME NEW d \in 0..to - from - 1, d \in T PROVE d + 1 \in T
  <2> DEFINE m == to - d
  <2>0. m \in Nat /\ m <= to /\ m - 1 \in Nat
    OBVIOUS
  <2>1. PICK f : Is(f, m)
    BY <1>2
  <2> DEFINE g == [at \in m - 1..to |-> IF at = m - 1 THEN Value(f, at) ELSE f[at]]
  <2> HIDE DEF m
  <2>2. ASSUME NEW at \in m - 1..to PROVE g[at] = Value(g, at)
    <3>1. at # to => g[at + 1] = f[at + 1]
      BY <2>0
    <3>2. at + 1 < to => g[at + 2] = f[at + 2]
      BY <2>0
    <3>3. at # m - 1 => f[at] = Value(f, at)
      <4>1. at # m - 1 => at \in m..to
        BY <2>0
      <4> HIDE DEF Value
      <4> QED
        BY <2>1, <4>1
    <3>4. g[at] = Value(f, at)
      <4>1. g[at] = IF at = m - 1 THEN Value(f, at) ELSE f[at]
        BY <2>0
      <4> HIDE DEF g, Value
      <4> QED
        BY <3>3, <4>1
    <3>5. Value(f, at) = Value(g, at)
      <4> HIDE DEF g
      <4> QED
        BY <2>0, <3>1, <3>2
    <3> QED
      BY <3>4, <3>5
  <2>3. Is(g, m - 1)
    <3>1. g = [at \in m - 1..to |-> g[at]]
      OBVIOUS
    <3> HIDE DEF g, Value
    <3> QED
      BY <2>2, <3>1
  <2>4. m - 1 = to - (d + 1) /\ d + 1 \in 0..to - from
    BY DEF m
  <2> HIDE DEF g, Is
  <2> QED
    BY <2>3, <2>4
<1>3. to - from \in T
  <2> HIDE DEF T
  <2>1. 0..to - from \subseteq T
    BY <1>1, <1>2, Induction
  <2> QED
    BY <2>1
<1>4. Is(out, from)
  <2>1. to - (to - from) = from
    OBVIOUS
  <2> HIDE DEF Is
  <2> QED
    BY <1>3, <2>1
<1>5. unescape(path, from, to) = out[from]
  BY DEF unescape, isEscapeSequence, base, E, Two, One
<1> HIDE DEF out
<1>6. \A at \in from..to : out[at] = Value(out, at)
  <2> HIDE DEF Value
  <2> QED
    BY <1>4
<1>7. out[to] = base
  BY <1>6
<1>8. ASSUME NEW at \in from..to - 1
      PROVE  out[at] = IF isEscapeSequence(path, at, to)
                       THEN <<path[at + 1]>> \o out[at + 2]
                       ELSE <<path[at]>> \o out[at + 1]
  <2>1. at \in from..to /\ at # to
    OBVIOUS
  <2>2. out[at] = Value(out, at)
    BY <1>6, <2>1
  <2> QED
    BY <2>1, <2>2 DEF isEscapeSequence, E, Two, One
<1> QED
  BY <1>5, <1>7, <1>8 DEF Unescapes, base

\* A list with one more at its end.
LEMMA MoreIs ==
  ASSUME NEW X, NEW s \in Seq(X), NEW x \in X
  PROVE  /\ Append(s, x) \in [1..Len(s) + 1 -> X]
         /\ Append(s, x)[Len(s) + 1] = x
         /\ \A i \in 1..Len(s) : Append(s, x)[i] = s[i]
<1> DEFINE t == Append(s, x)
<1>1. /\ t \in Seq(X) /\ Len(t) = Len(s) + 1 /\ t[Len(s) + 1] = x
      /\ \A i \in 1..Len(s) : t[i] = s[i]
  BY AppendProperties
<1> HIDE DEF t
<1>2. t \in [1..Len(s) + 1 -> X]
  BY <1>1
<1> QED
  BY <1>1, <1>2 DEF t

\* The characters at some positions.
Along(path, s) == [i \in DOMAIN s |-> path[s[i]]]

\* A position more is a character more.
LEMMA AlongMore ==
  ASSUME NEW path \in Seq(STRING), NEW s \in Seq(DOMAIN path), NEW x \in DOMAIN path
  PROVE  /\ Along(path, s) \in Seq(STRING)
         /\ Along(path, Append(s, x)) = Append(Along(path, s), path[x])
<1>1. s \in [1..Len(s) -> DOMAIN path] /\ Len(s) \in Nat
  OBVIOUS
<1>2. path \in [DOMAIN path -> STRING]
  OBVIOUS
<1>3. Along(path, s) \in [1..Len(s) -> STRING]
  BY <1>1, <1>2 DEF Along
<1>4. Along(path, s) \in Seq(STRING) /\ Len(Along(path, s)) = Len(s)
  BY <1>1, <1>3
<1> DEFINE t == Append(s, x)
<1>5. t \in [1..Len(s) + 1 -> DOMAIN path] /\ t[Len(s) + 1] = x
      /\ \A i \in 1..Len(s) : t[i] = s[i]
  BY MoreIs
<1> HIDE DEF t
<1> DEFINE u == Append(Along(path, s), path[x])
<1>6. u \in [1..Len(s) + 1 -> STRING] /\ u[Len(s) + 1] = path[x]
      /\ \A i \in 1..Len(s) : u[i] = Along(path, s)[i]
  <2>1. path[x] \in STRING
    BY <1>2
  <2> QED
    BY <1>4, <2>1, MoreIs
<1> HIDE DEF u
<1>7. Along(path, t) = [i \in 1..Len(s) + 1 |-> path[t[i]]]
  BY <1>5 DEF Along
<1>8. \A i \in 1..Len(s) + 1 : path[t[i]] = u[i]
  <2> TAKE i \in 1..Len(s) + 1
  <2>1. CASE i = Len(s) + 1
    BY <2>1, <1>5, <1>6
  <2>2. CASE i # Len(s) + 1
    <3>1. i \in 1..Len(s)
      BY <2>2, <1>1
    <3> QED
      BY <3>1, <1>1, <1>5, <1>6 DEF Along
  <2> QED
    BY <2>1, <2>2
<1>9. Along(path, t) = u
  BY <1>6, <1>7, <1>8
<1> QED
  BY <1>4, <1>9 DEF t, u

\* Where the characters of [from, to) are that are no escaping backslashes.
KeptIn(path, from, to) == {i \in from..to - 1 : i + 1 \notin Escaped(path)}

\* What is kept before "at".
Before(path, from, to, at) == Along(path, InOrder(KeptIn(path, from, to), at - 1))

\* The name of a segment is what is kept before its chain.
LEMMA CharactersAre ==
  ASSUME NEW path \in Seq(STRING), NEW from \in Nat, NEW to \in Nat,
         1 <= from, from <= to, to <= Len(path) + 1
  PROVE  /\ Characters(path, from, to) = Before(path, from, to, to)
         /\ Before(path, from, to, from) = <<>>
         /\ \A at \in from..to - 1 :
              /\ Before(path, from, to, at) \in Seq(STRING)
              /\ Before(path, from, to, at + 1)
                   = IF at + 1 \notin Escaped(path)
                     THEN Append(Before(path, from, to, at), path[at])
                     ELSE Before(path, from, to, at)
         /\ Before(path, from, to, to) \in Seq(STRING)
<1> DEFINE K == KeptIn(path, from, to)
<1>1. Characters(path, from, to) = Before(path, from, to, to)
  BY DEF Characters, Before, KeptIn, Along
<1>2. Before(path, from, to, from) = <<>>
  <2>1. InOrder(K, 0) = <<>>
    BY InOrderNone
  <2>2. InOrder(K, from - 1) = InOrder(K, 0)
    <3>1. \A i \in 0 + 1..from - 1 : i \notin K
      BY DEF KeptIn
    <3>2. from - 1 \in Nat /\ 0 <= from - 1
      OBVIOUS
    <3> HIDE DEF K
    <3> QED
      BY <3>1, <3>2, InOrderSkips
  <2> QED
    BY <2>1, <2>2 DEF Before, Along
<1>3. ASSUME NEW at \in from..to
      PROVE  InOrder(K, at - 1) \in Seq(DOMAIN path)
  <2>1. at - 1 \in Nat /\ 1..at - 1 \subseteq DOMAIN path
    OBVIOUS
  <2>2. InOrder(K, at - 1) \in Seq(1..at - 1)
    BY <2>1, InOrderIs
  <2> QED
    BY <2>1, <2>2
<1>4. ASSUME NEW at \in from..to
      PROVE  Before(path, from, to, at) \in Seq(STRING)
  <2>1. 1 \in DOMAIN path \/ path = <<>>
    OBVIOUS
  <2>2. CASE path = <<>>
    <3>1. InOrder(K, at - 1) = <<>>
      BY <1>3, <2>2
    <3> QED
      BY <3>1 DEF Before, Along
  <2>3. CASE 1 \in DOMAIN path
    BY <1>3, <2>3, AlongMore DEF Before
  <2> QED
    BY <2>1, <2>2, <2>3
<1>5. ASSUME NEW at \in from..to - 1
      PROVE  Before(path, from, to, at + 1)
               = IF at + 1 \notin Escaped(path)
                 THEN Append(Before(path, from, to, at), path[at])
                 ELSE Before(path, from, to, at)
  <2>1. at - 1 \in Nat /\ at \in DOMAIN path /\ at \in from..to
    OBVIOUS
  <2>2. at \in K <=> at + 1 \notin Escaped(path)
    BY DEF KeptIn
  <2>3. InOrder(K, at + 1 - 1) = IF at \in K THEN Append(InOrder(K, at - 1), at)
                                 ELSE InOrder(K, at - 1)
    <3>1. at + 1 - 1 = at - 1 + 1 /\ at - 1 + 1 = at
      BY <2>1
    <3> HIDE DEF K
    <3> QED
      BY <2>1, <3>1, InOrderNext
  <2>4. InOrder(K, at - 1) \in Seq(DOMAIN path)
    BY <1>3, <2>1
  <2> HIDE DEF K
  <2>5. Along(path, Append(InOrder(K, at - 1), at))
          = Append(Along(path, InOrder(K, at - 1)), path[at])
    BY <2>1, <2>4, AlongMore
  <2>6. Before(path, from, to, at) = Along(path, InOrder(K, at - 1))
        /\ Before(path, from, to, at + 1) = Along(path, InOrder(K, at + 1 - 1))
    BY DEF Before, K
  <2> QED
    BY <2>2, <2>3, <2>5, <2>6
<1>6. \A at \in from..to - 1 : at \in from..to
  OBVIOUS
<1>7. to \in from..to
  OBVIOUS
<1> QED
  BY <1>1, <1>2, <1>4, <1>5, <1>6, <1>7

\* What is put before what follows is part of the whole.
LEMMA PutBefore ==
  ASSUME NEW X, NEW c \in X, NEW t \in Seq(X)
  PROVE  <<c>> \o t \in Seq(X)
<1>1. <<c>> \in Seq(X)
  OBVIOUS
<1> QED
  BY <1>1, ConcatProperties

\* A list may be put together from either end.
LEMMA Reassociate ==
  ASSUME NEW X, NEW s \in Seq(X), NEW c \in X, NEW t \in Seq(X)
  PROVE  \A u, v : u = <<c>> /\ v = Append(s, c) => s \o (u \o t) = v \o t
<1>1. <<c>> \in Seq(X)
  OBVIOUS
<1>2. s \o (<<c>> \o t) = (s \o <<c>>) \o t
  BY <1>1, ConcatAssociative
<1>3. Append(s, c) = s \o <<c>>
  BY AppendIsConcat
<1> QED
  BY <1>2, <1>3

\* A name with escapes is what is left without the escaping backslashes.
LEMMA UnescapeIs ==
  ASSUME NEW path \in Seq(STRING), NEW from \in Nat, NEW to \in Nat,
         1 <= from, from <= to, to <= Len(path) + 1,
         from \notin Escaped(path), to \notin Escaped(path)
  PROVE  unescape(path, from, to) = Characters(path, from, to)
<1>1. PICK f : Unescapes(f, path, from, to) /\ unescape(path, from, to) = f[from]
  BY UnescapeUnfolds
<1>2. f[to] = <<>>
  BY <1>1 DEF Unescapes
<1>3. \A at \in from..to - 1 :
        f[at] = IF isEscapeSequence(path, at, to) THEN <<path[at + 1]>> \o f[at + 2]
                ELSE <<path[at]>> \o f[at + 1]
  BY <1>1 DEF Unescapes
<1>4. path \in [1..Len(path) -> STRING]
  OBVIOUS
<1>5. \A at \in from..to : f[at] \in Seq(STRING)
  <2> DEFINE T == {d \in 0..to - from :
                     f[to - d] \in Seq(STRING) /\ (d > 0 => f[to - d + 1] \in Seq(STRING))}
  <2>1. 0 \in T
    <3>1. <<>> \in Seq(STRING) /\ to - 0 = to /\ 0 \in 0..to - from
      OBVIOUS
    <3> QED
      BY <1>2, <3>1, ~(0 > 0), Zenon
  <2>2. ASSUME NEW d \in 0..to - from - 1, d \in T PROVE d + 1 \in T
    <3> DEFINE at == to - (d + 1)
    <3>1. at \in from..to - 1 /\ at + 1 = to - d /\ at \in 1..Len(path)
          /\ (at + 1 < to => at + 2 = to - d + 1 /\ d > 0 /\ at + 1 \in 1..Len(path))
      OBVIOUS
    <3>2. f[at + 1] \in Seq(STRING)
      BY <2>2, <3>1
    <3>3. at + 1 < to => f[at + 2] \in Seq(STRING)
      BY <2>2, <3>1
    <3>4. path[at] \in STRING /\ (at + 1 < to => path[at + 1] \in STRING)
      BY <1>4, <3>1
    <3>5. f[at] = IF isEscapeSequence(path, at, to) THEN <<path[at + 1]>> \o f[at + 2]
                  ELSE <<path[at]>> \o f[at + 1]
      BY <1>3, <3>1
    <3> HIDE DEF at
    <3>6. f[at] \in Seq(STRING)
      <4>1. \A c \in STRING, s \in Seq(STRING) : <<c>> \o s \in Seq(STRING)
        BY PutBefore
      <4>2. CASE isEscapeSequence(path, at, to)
        <5>1. at + 1 < to
          BY <4>2 DEF isEscapeSequence
        <5> QED
          BY <3>3, <3>4, <3>5, <4>1, <4>2, <5>1
      <4>3. CASE ~isEscapeSequence(path, at, to)
        BY <3>2, <3>4, <3>5, <4>1, <4>3
      <4> QED
        BY <4>2, <4>3
    <3>7. d + 1 \in 0..to - from /\ to - (d + 1) + 1 = at + 1
      BY DEF at
    <3>8. f[to - (d + 1)] \in Seq(STRING)
      BY <3>6 DEF at
    <3> QED
      BY <3>2, <3>7, <3>8
  <2>3. 0..to - from \subseteq T
    <3>1. to - from \in Nat
      OBVIOUS
    <3> HIDE DEF T
    <3> QED
      BY <2>1, <2>2, <3>1, Induction, SMTT(30)
  <2> TAKE at \in from..to
  <2>4. to - at \in T /\ to - (to - at) = at
    <3>1. to - at \in 0..to - from
      OBVIOUS
    <3> HIDE DEF T
    <3> QED
      BY <2>3, <3>1
  <2> QED
    BY <2>4
<1> DEFINE B(at) == Before(path, from, to, at)
           Esc == Escaped(path)
           Met(at) == at \in Esc \/ B(at) \o f[at] = f[from]
           T == {at \in from..to : Met(at) /\ (at > from => Met(at - 1))}
<1>6. /\ Characters(path, from, to) = B(to)
      /\ B(from) = <<>>
      /\ \A at \in from..to - 1 :
           B(at + 1) = IF at + 1 \notin Esc THEN Append(B(at), path[at]) ELSE B(at)
      /\ \A at \in from..to : B(at) \in Seq(STRING)
  BY CharactersAre
<1>7. \A i \in Nat : i \in Esc <=> /\ i \in 2..Len(path) /\ i - 1 \notin Esc
                                   /\ path[i] \in Escapable /\ path[i - 1] = "\\"
  BY EscapedIs
<1> HIDE DEF B, Esc
<1>8. from \in T
  <2>1. <<>> \o f[from] = f[from]
    BY <1>5, ConcatEmptySeq
  <2>2. Met(from) /\ from \in from..to
    BY <1>6, <2>1
  <2> HIDE DEF Met
  <2> QED
    BY <2>2
<1>9. ASSUME NEW at \in from..to - 1, at \in T PROVE at + 1 \in T
  <2>1. Met(at) /\ (at > from => Met(at - 1))
    BY <1>9
  <2>2. ASSUME at + 1 \notin Esc PROVE B(at + 1) \o f[at + 1] = f[from]
    <3>1. /\ at \in from..to /\ at + 1 \in from..to /\ at \in 1..Len(path)
          /\ (at + 1 < to => at + 1 \in 2..Len(path))
      OBVIOUS
    <3>2. B(at + 1) = Append(B(at), path[at])
      BY <1>6, <2>2
    <3>5. ASSUME NEW g, g = <<path[at]>> \o f[at + 1]
          PROVE  B(at) \o g = Append(B(at), path[at]) \o f[at + 1]
      <4>1. B(at) \in Seq(STRING) /\ f[at + 1] \in Seq(STRING) /\ path[at] \in STRING
        BY <3>1, <1>4, <1>5, <1>6
      <4>2. PICK X : X = STRING
        OBVIOUS
      <4>3. PICK s \in Seq(X), t \in Seq(X), c \in X :
              s = B(at) /\ t = f[at + 1] /\ c = path[at]
        BY <4>1, <4>2
      <4>4. g = <<c>> \o t
        BY <3>5, <4>3
      <4>5. s \o g = Append(s, c) \o t
        BY <4>4, Reassociate
      <4> QED
        BY <4>3, <4>5
    <3>3. CASE at \notin Esc
      <4>1. ~isEscapeSequence(path, at, to)
        BY <3>1, <3>3, <2>2, <1>7 DEF isEscapeSequence
      <4>2. f[at] = <<path[at]>> \o f[at + 1]
        BY <1>3, <4>1
      <4>3. B(at) \o f[at] = f[from]
        BY <2>1, <3>3
      <4> QED
        BY <3>1, <3>2, <3>5, <4>2, <4>3
    <3>4. CASE at \in Esc
      <4>1. at > from
        BY <3>4 DEF Esc
      <4>2. /\ at - 1 \in from..to - 1 /\ at - 1 + 1 = at /\ at - 1 + 2 = at + 1
            /\ at - 1 \in from..to
        BY <4>1
      <4>3. at - 1 \notin Esc /\ path[at] \in Escapable /\ path[at - 1] = "\\"
        BY <3>1, <3>4, <1>7
      <4>4. isEscapeSequence(path, at - 1, to)
        BY <4>2, <4>3 DEF isEscapeSequence
      <4>5. f[at - 1] = <<path[at]>> \o f[at + 1]
        <5>1. f[at - 1] = <<path[at - 1 + 1]>> \o f[at - 1 + 2]
          BY <1>3, <4>2, <4>4
        <5> QED
          BY <4>2, <5>1
      <4>6. B(at - 1) \o f[at - 1] = f[from]
        BY <2>1, <4>1, <4>3
      <4>7. B(at) = B(at - 1)
        <5>1. B(at - 1 + 1) = B(at - 1)
          BY <1>6, <4>2, <3>4
        <5> QED
          BY <4>2, <5>1
      <4> QED
        BY <3>1, <3>2, <3>5, <4>2, <4>5, <4>6, <4>7
    <3> QED
      BY <3>3, <3>4
  <2>3. Met(at + 1)
    BY <2>2
  <2>4. at + 1 - 1 = at /\ at + 1 \in from..to
    OBVIOUS
  <2> HIDE DEF Met
  <2> QED
    BY <2>1, <2>3, <2>4
<1>10. from..to \subseteq T
  <2> HIDE DEF T
  <2> QED
    BY <1>8, <1>9, Induction
<1>11. B(to) \o f[to] = f[from]
  <2>1. Met(to)
    <3>1. to \in T
      <4> HIDE DEF T
      <4>1. to \in from..to
        OBVIOUS
      <4> QED
        BY <1>10, <4>1
    <3> HIDE DEF Met
    <3> QED
      BY <3>1
  <2> QED
    BY <2>1 DEF Esc
<1>12. B(to) \o <<>> = B(to)
  BY <1>6
<1> QED
  BY <1>1, <1>2, <1>6, <1>11, <1>12

\* A name without escapes is what is written.
LEMMA PlainIs ==
  ASSUME NEW path \in Seq(STRING), NEW from \in Nat, NEW to \in Nat,
         1 <= from, from <= to, to <= Len(path) + 1,
         \A i \in from..to : i \notin Escaped(path)
  PROVE  SubSeq(path, from, to - 1) = Characters(path, from, to)
<1> DEFINE B(at) == Before(path, from, to, at)
           T == {at \in from..to : B(at) = SubSeq(path, from, at - 1)}
<1>1. /\ Characters(path, from, to) = B(to)
      /\ B(from) = <<>>
      /\ \A at \in from..to - 1 : B(at + 1) = Append(B(at), path[at])
  <2>1. \A at \in from..to - 1 : at + 1 \notin Escaped(path)
    OBVIOUS
  <2> QED
    BY <2>1, CharactersAre
<1> HIDE DEF B
<1>2. from \in T
  <2>1. SubSeq(path, from, from - 1) = <<>>
    OBVIOUS
  <2> QED
    BY <1>1, <2>1
<1>3. ASSUME NEW at \in from..to - 1, at \in T PROVE at + 1 \in T
  <2>1. B(at) = SubSeq(path, from, at - 1)
    BY <1>3
  <2>2. B(at + 1) = Append(B(at), path[at])
    BY <1>1
  <2>3. SubSeq(path, from, at) = Append(SubSeq(path, from, at - 1), path[at])
    OBVIOUS
  <2>4. at + 1 \in from..to /\ at + 1 - 1 = at
    OBVIOUS
  <2>5. B(at + 1) = SubSeq(path, from, at + 1 - 1)
    BY <2>1, <2>2, <2>3, <2>4
  <2> QED
    BY <2>4, <2>5
<1>4. from..to \subseteq T
  <2> HIDE DEF T
  <2> QED
    BY <1>2, <1>3, Induction
<1> QED
  BY <1>1, <1>4

-----------------------------------------------------------------------------
(* Groups and chains of groups. *)

\* A group is an opening bracket, digits and a closing bracket.
LEMMA GroupIs ==
  ASSUME NEW path, NEW at \in Nat, NEW end \in Nat, NEW k \in Closings(path, at, end)
  PROVE  /\ k \in Nat /\ at + 2 <= k /\ k < end
         /\ path[at] = "[" /\ path[k] = "]"
         /\ \A j \in at + 1..k - 1 : path[j] \in Digits
  BY DEF Closings

\* A group closes at one place, wherever one stops to look.
LEMMA OneClosing ==
  ASSUME NEW path, NEW at \in Nat, NEW e1 \in Nat, NEW e2 \in Nat,
         NEW k1 \in Closings(path, at, e1), NEW k2 \in Closings(path, at, e2)
  PROVE  k1 = k2
<1>1. "]" \notin Digits
  BY DEF Digits
<1>2. k1 \in Nat /\ at + 2 <= k1 /\ path[k1] = "]"
      /\ \A j \in at + 1..k1 - 1 : path[j] \in Digits
  BY GroupIs
<1>3. k2 \in Nat /\ at + 2 <= k2 /\ path[k2] = "]"
      /\ \A j \in at + 1..k2 - 1 : path[j] \in Digits
  BY GroupIs
<1>4. ~(k1 < k2)
  BY <1>1, <1>2, <1>3
<1>5. ~(k2 < k1)
  BY <1>1, <1>2, <1>3
<1> QED
  BY <1>2, <1>3, <1>4, <1>5

\* It closes there for whoever looks that far.
LEMMA ClosesAlso ==
  ASSUME NEW path, NEW at \in Nat, NEW e1 \in Nat, NEW e2 \in Nat,
         NEW k \in Closings(path, at, e1), k < e2
  PROVE  k \in Closings(path, at, e2)
  BY DEF Closings

\* parseIndex returns the position after the group.
LEMMA ParsedIs ==
  ASSUME NEW path, NEW at \in Nat, NEW end \in Nat, NEW k \in Closings(path, at, end)
  PROVE  /\ IndexAt(path, at, end)
         /\ parseIndex(path, at, end)
              = [index |-> Number(SubSeq(path, at + 1, k - 1)), after |-> k + 1]
<1> DEFINE c == CHOOSE c \in Closings(path, at, end) : TRUE
<1>1. c \in Closings(path, at, end)
  OBVIOUS
<1>2. c = k
  BY <1>1, OneClosing
<1> QED
  BY <1>2 DEF parseIndex, IndexAt

\* An empty chain, and one with a group more.
LEMMA ChainOfNone ==
  ASSUME NEW path, NEW at \in Nat
  PROVE  IsChain(path, at, at)
<1>1. {at} \in SUBSET (at..at) /\ {at, at} \subseteq {at}
      /\ \A c \in {at} \ {at} : FALSE
  OBVIOUS
<1> QED
  BY <1>1 DEF IsChain

\* A group after a chain makes a longer one.
LEMMA ChainMore ==
  ASSUME NEW path, NEW from \in Nat, NEW at \in Nat, from <= at, IsChain(path, from, at),
         NEW end \in Nat, NEW k \in Closings(path, at, end)
  PROVE  IsChain(path, from, k + 1)
<1>1. PICK cuts \in SUBSET (from..at) :
        /\ {from, at} \subseteq cuts
        /\ \A c \in cuts \ {at} :
             \E d \in cuts : /\ d > c /\ \A e \in cuts : ~(c < e /\ e < d)
                             /\ d - 1 \in Closings(path, c, d)
  BY DEF IsChain
<1>2. k \in Nat /\ at + 2 <= k
  BY GroupIs
<1>3. k \in Closings(path, at, k + 1)
  BY <1>2, ClosesAlso
<1> DEFINE more == cuts \cup {k + 1}
<1>4. more \in SUBSET (from..k + 1) /\ {from, k + 1} \subseteq more
  BY <1>1, <1>2
<1>5. ASSUME NEW c \in more \ {k + 1}
      PROVE  \E d \in more : /\ d > c /\ \A e \in more : ~(c < e /\ e < d)
                             /\ d - 1 \in Closings(path, c, d)
  <2>1. c \in cuts /\ c \in Nat /\ c <= at
    BY <1>1
  <2>2. CASE c = at
    <3>1. \A e \in more : ~(c < e /\ e < k + 1)
      BY <1>1, <1>2, <2>2
    <3>2. k + 1 \in more /\ k + 1 > c
      BY <1>2, <2>2
    <3>3. PICK d : d = k + 1
      OBVIOUS
    <3>4. d - 1 = k
      BY <1>2, <3>3
    <3>5. d - 1 \in Closings(path, c, d)
      BY <1>3, <2>2, <3>3, <3>4
    <3> HIDE DEF more
    <3>6. d \in more /\ d > c /\ \A e \in more : ~(c < e /\ e < d)
      BY <3>1, <3>2, <3>3
    <3> QED
      BY <3>5, <3>6
  <2>3. CASE c # at
    <3>1. PICK d \in cuts : /\ d > c /\ \A e \in cuts : ~(c < e /\ e < d)
                            /\ d - 1 \in Closings(path, c, d)
      BY <1>1, <2>1, <2>3
    <3>2. \A e \in more : ~(c < e /\ e < d)
      BY <1>1, <1>2, <3>1
    <3>3. d \in more
      OBVIOUS
    <3> HIDE DEF more
    <3> QED
      BY <3>1, <3>2, <3>3
  <2> QED
    BY <2>2, <2>3
<1> HIDE DEF more
<1> QED
  BY <1>4, <1>5 DEF IsChain

\* The first group of a chain, and what follows it.
LEMMA ChainFirst ==
  ASSUME NEW path, NEW from \in Nat, NEW to \in Nat, from < to, IsChain(path, from, to)
  PROVE  \E k \in Closings(path, from, to) : IsChain(path, k + 1, to)
<1>1. PICK cuts \in SUBSET (from..to) :
        /\ {from, to} \subseteq cuts
        /\ \A c \in cuts \ {to} :
             \E d \in cuts : /\ d > c /\ \A e \in cuts : ~(c < e /\ e < d)
                             /\ d - 1 \in Closings(path, c, d)
  BY DEF IsChain
<1>2. PICK d \in cuts : /\ d > from /\ \A e \in cuts : ~(from < e /\ e < d)
                        /\ d - 1 \in Closings(path, from, d)
  BY <1>1
<1>3. d \in Nat /\ d <= to /\ d - 1 < to
  BY <1>1
<1>4. d - 1 \in Closings(path, from, to)
  BY <1>2, <1>3, ClosesAlso
<1> DEFINE rest == cuts \cap (d..to)
<1>5. rest \in SUBSET (d..to) /\ {d, to} \subseteq rest
  BY <1>1, <1>3
<1>6. ASSUME NEW c \in rest \ {to}
      PROVE  \E f \in rest : /\ f > c /\ \A e \in rest : ~(c < e /\ e < f)
                             /\ f - 1 \in Closings(path, c, f)
  <2>1. PICK f \in cuts : /\ f > c /\ \A e \in cuts : ~(c < e /\ e < f)
                          /\ f - 1 \in Closings(path, c, f)
    BY <1>1
  <2>2. f \in rest
    BY <1>1, <1>3, <2>1
  <2> QED
    BY <2>1, <2>2
<1> HIDE DEF rest
<1>7. IsChain(path, d, to)
  BY <1>5, <1>6 DEF IsChain
<1>8. d - 1 + 1 = d
  BY <1>3
<1> QED
  BY <1>4, <1>7, <1>8

\* The last group of a chain, and what is before it.
LEMMA ChainLast ==
  ASSUME NEW path, NEW from \in Nat, NEW to \in Nat, from < to, IsChain(path, from, to)
  PROVE  \E c \in from..to - 1 : to - 1 \in Closings(path, c, to) /\ IsChain(path, from, c)
<1>1. PICK cuts \in SUBSET (from..to) :
        /\ {from, to} \subseteq cuts
        /\ \A c \in cuts \ {to} :
             \E d \in cuts : /\ d > c /\ \A e \in cuts : ~(c < e /\ e < d)
                             /\ d - 1 \in Closings(path, c, d)
  BY DEF IsChain
<1>2. PICK c \in cuts \ {to} : \A e \in cuts \ {to} : e <= c
  <2> DEFINE T == {i \in Nat : \E e \in cuts \ {to} : i = to - e}
  <2>1. to - from \in T
    BY <1>1
  <2>2. T \subseteq Nat /\ T # {}
    BY <2>1
  <2>3. PICK i \in T : \A j \in T : i <= j
    <3> HIDE DEF T
    <3> QED
      BY <2>2, LeastElement
  <2>4. PICK c \in cuts \ {to} : i = to - c
    BY <2>3
  <2>5. ASSUME NEW e \in cuts \ {to} PROVE e <= c
    <3>1. to - e \in T
      BY <1>1
    <3>2. i <= to - e
      BY <2>3, <3>1
    <3> QED
      BY <2>4, <3>2, <1>1
  <2> QED
    BY <2>5
<1>3. c \in Nat /\ from <= c /\ c < to
  BY <1>1
<1>4. PICK d \in cuts : /\ d > c /\ \A e \in cuts : ~(c < e /\ e < d)
                        /\ d - 1 \in Closings(path, c, d)
  BY <1>1, <1>2
<1>5. d = to
  BY <1>1, <1>2, <1>3, <1>4
<1> DEFINE part == cuts \cap (from..c)
<1>6. part \in SUBSET (from..c) /\ {from, c} \subseteq part
  BY <1>1, <1>3
<1>7. ASSUME NEW b \in part \ {c}
      PROVE  \E f \in part : /\ f > b /\ \A e \in part : ~(b < e /\ e < f)
                               /\ f - 1 \in Closings(path, b, f)
  <2>1. b \in cuts \ {to} /\ b \in Nat /\ b < c
    BY <1>1, <1>3
  <2>2. PICK f \in cuts : /\ f > b /\ \A e \in cuts : ~(b < e /\ e < f)
                          /\ f - 1 \in Closings(path, b, f)
    BY <1>1, <2>1
  <2>3. f \in part
    BY <1>1, <1>3, <2>1, <2>2
  <2> QED
    BY <2>2, <2>3
<1> HIDE DEF part
<1>8. IsChain(path, from, c)
  BY <1>6, <1>7 DEF IsChain
<1> QED
  BY <1>3, <1>4, <1>5, <1>8

\* A chain that is not empty closes with a group.
LEMMA ChainCloses ==
  ASSUME NEW path, NEW from \in Nat, NEW to \in Nat, from < to, IsChain(path, from, to)
  PROVE  path[to - 1] = "]"
<1>1. PICK c \in from..to - 1 : to - 1 \in Closings(path, c, to)
  BY ChainLast
<1> QED
  BY <1>1, GroupIs

\* In a chain that begins unescaped, every group opens unescaped.
LEMMA ChainUnescaped ==
  ASSUME NEW path \in Seq(STRING), NEW from \in Nat, NEW c \in Nat, from <= c,
         IsChain(path, from, c), from \notin Escaped(path)
  PROVE  c \notin Escaped(path)
<1>1. CASE c = from
  BY <1>1
<1>2. CASE c # from
  <2>1. path[c - 1] = "]"
    BY <1>2, ChainCloses
  <2> QED
    BY <2>1, EscapedIs
<1> QED
  BY <1>1, <1>2

-----------------------------------------------------------------------------
(* What readSegment knows when it has read [from, at): one lemma per turn. *)

\* [from, at) is read: "at" is not escaped, no separator was passed, and the
\* longest chain that ends at "at" begins where chainStart says.
ReadSoFar(path, from, at, chain, hasEscapes) ==
  LET end == Len(path) + 1
      tail == IF chain # 0 THEN chain ELSE at
      Esc == Escaped(path)
  IN  /\ from \in 1..at /\ at \in 1..end /\ chain \in Nat /\ hasEscapes \in BOOLEAN
      /\ from \notin Esc /\ at \notin Esc
      /\ \A i \in from..at - 1 : path[i] = "." => i \in Esc
      /\ ~hasEscapes => \A i \in from..at - 1 : i \notin Esc
      /\ chain # 0 => chain \in from..at - 1 /\ chain \notin Esc
      /\ IsChain(path, tail, at)
      /\ \A j \in from..tail - 1 : j \in Esc \/ ~IsChain(path, j, at)
      /\ \A c \in from..at - 1 : c \notin Esc =>
           \A k \in Closings(path, c, end) : k < at

\* At the start of a segment nothing is read.
LEMMA NothingRead ==
  ASSUME NEW path \in Seq(STRING), NEW from \in Nat, 1 <= from, from <= Len(path) + 1,
         from \notin Escaped(path)
  PROVE  ReadSoFar(path, from, from, 0, FALSE)
  BY ChainOfNone DEF ReadSoFar

\* No chain ends where no unescaped group closes.
LEMMA NoChainTo ==
  ASSUME NEW path \in Seq(STRING), NEW from \in Nat, NEW to \in Nat, 1 <= from,
         from < to, to <= Len(path) + 1,
         \A c \in from..to - 1 :
           c \notin Escaped(path) => to - 1 \notin Closings(path, c, to)
  PROVE  \A j \in from..to - 1 : j \in Escaped(path) \/ ~IsChain(path, j, to)
<1> SUFFICES ASSUME NEW j \in from..to - 1, j \notin Escaped(path), IsChain(path, j, to)
             PROVE  FALSE
  OBVIOUS
<1>1. PICK c \in j..to - 1 : to - 1 \in Closings(path, c, to) /\ IsChain(path, j, c)
  BY ChainLast
<1>2. c \notin Escaped(path)
  BY <1>1, ChainUnescaped
<1> QED
  BY <1>1, <1>2

\* An escape cancels the chain before it, and goes with what it escapes.
LEMMA EscapeRead ==
  ASSUME NEW path \in Seq(STRING), NEW from, NEW at, NEW chain, NEW hasEscapes,
         ReadSoFar(path, from, at, chain, hasEscapes),
         isEscapeSequence(path, at, Len(path) + 1)
  PROVE  ReadSoFar(path, from, at + 2, 0, TRUE)
<1> DEFINE end == Len(path) + 1
           Esc == Escaped(path)
<1>1. /\ from \in 1..at /\ at \in 1..end /\ from \notin Esc /\ at \notin Esc
      /\ \A i \in from..at - 1 : path[i] = "." => i \in Esc
      /\ \A c \in from..at - 1 : c \notin Esc =>
           \A k \in Closings(path, c, end) : k < at
  BY DEF ReadSoFar
<1>2. at + 1 < end /\ path[at] = "\\" /\ path[at + 1] \in Escapable
  BY DEF isEscapeSequence
<1>3. at + 1 \in Esc
  BY <1>1, <1>2, EscapedIs
<1>4. at + 2 \notin Esc
  <2>1. PICK i \in Nat : i = at + 2
    BY <1>1
  <2>2. i - 1 \in Esc
    BY <1>1, <1>3, <2>1
  <2> HIDE DEF Esc
  <2>3. i \notin Esc
    BY <2>2, EscapedIs DEF Esc
  <2> QED
    BY <2>1, <2>3
<1>5. \A i \in from..at + 2 - 1 : path[i] = "." => i \in Esc
  BY <1>1, <1>2, <1>3
<1>6. \A c \in from..at + 2 - 1 : c \notin Esc =>
        \A k \in Closings(path, c, end) : k < at
  <2> SUFFICES ASSUME NEW c \in from..at + 2 - 1, c \notin Esc,
                      NEW k \in Closings(path, c, end)
               PROVE  k < at
    OBVIOUS
  <2>1. path[c] = "["
    <3>1. c \in Nat /\ end \in Nat
      BY <1>1
    <3> QED
      BY <3>1, GroupIs
  <2>2. c # at /\ c # at + 1
    BY <1>2, <1>3, <2>1
  <2> QED
    BY <1>1, <2>2
<1>7. \A j \in from..at + 2 - 1 : j \in Esc \/ ~IsChain(path, j, at + 2)
  <2>1. ASSUME NEW c \in from..at + 2 - 1, c \notin Esc,
               at + 2 - 1 \in Closings(path, c, at + 2)
        PROVE  FALSE
    <3>1. at + 2 - 1 \in Closings(path, c, end)
      BY <1>1, <1>2, <2>1, ClosesAlso
    <3> QED
      BY <1>1, <1>6, <2>1, <3>1
  <2> QED
    BY <1>1, <1>2, <2>1, NoChainTo
<1>8. IsChain(path, at + 2, at + 2)
  BY <1>1, ChainOfNone
<1>9. \A c \in from..at + 2 - 1 : c \notin Esc =>
        \A k \in Closings(path, c, end) : k < at + 2
  <2> SUFFICES ASSUME NEW c \in from..at + 2 - 1, c \notin Esc,
                      NEW k \in Closings(path, c, end)
               PROVE  k < at + 2
    OBVIOUS
  <2>1. k < at /\ k \in Nat
    BY <1>1, <1>6, GroupIs
  <2> QED
    BY <1>1, <2>1
<1>10. from \in 1..at + 2 /\ at + 2 \in 1..end
  BY <1>1, <1>2
<1> HIDE DEF Esc
<1> QED
  BY <1>1, <1>4, <1>5, <1>7, <1>8, <1>9, <1>10 DEF ReadSoFar, Esc

\* An ordinary character cancels the chain before it.
LEMMA CharacterRead ==
  ASSUME NEW path \in Seq(STRING), NEW from, NEW at, NEW chain, NEW hasEscapes,
         ReadSoFar(path, from, at, chain, hasEscapes),
         at < Len(path) + 1, path[at] # ".",
         ~isEscapeSequence(path, at, Len(path) + 1),
         ~IndexAt(path, at, Len(path) + 1)
  PROVE  ReadSoFar(path, from, at + 1, 0, hasEscapes)
<1> DEFINE end == Len(path) + 1
           Esc == Escaped(path)
<1>1. /\ from \in 1..at /\ at \in 1..end /\ from \notin Esc /\ at \notin Esc
      /\ hasEscapes \in BOOLEAN
      /\ \A i \in from..at - 1 : path[i] = "." => i \in Esc
      /\ ~hasEscapes => \A i \in from..at - 1 : i \notin Esc
      /\ \A c \in from..at - 1 : c \notin Esc =>
           \A k \in Closings(path, c, end) : k < at
  BY DEF ReadSoFar
<1>2. at + 1 \notin Esc
  BY <1>1, EscapedIs DEF isEscapeSequence
<1>3. \A k : k \notin Closings(path, at, end)
  BY DEF IndexAt
<1>4. \A c \in from..at + 1 - 1 : c \notin Esc =>
        \A k \in Closings(path, c, end) : k < at
  BY <1>1, <1>3
<1>5. \A j \in from..at + 1 - 1 : j \in Esc \/ ~IsChain(path, j, at + 1)
  <2>1. ASSUME NEW c \in from..at + 1 - 1, c \notin Esc,
               at + 1 - 1 \in Closings(path, c, at + 1)
        PROVE  FALSE
    <3>1. at + 1 - 1 \in Closings(path, c, end)
      BY <1>1, <2>1, ClosesAlso
    <3> QED
      BY <1>1, <1>4, <2>1, <3>1
  <2> QED
    BY <1>1, <2>1, NoChainTo
<1>6. IsChain(path, at + 1, at + 1)
  BY <1>1, ChainOfNone
<1>7. \A c \in from..at + 1 - 1 : c \notin Esc =>
        \A k \in Closings(path, c, end) : k < at + 1
  <2> SUFFICES ASSUME NEW c \in from..at + 1 - 1, c \notin Esc,
                      NEW k \in Closings(path, c, end)
               PROVE  k < at + 1
    OBVIOUS
  <2>1. k < at /\ k \in Nat
    BY <1>1, <1>4, GroupIs
  <2> QED
    BY <1>1, <2>1
<1>8. from \in 1..at + 1 /\ at + 1 \in 1..end
  BY <1>1
<1>9. \A i \in from..at + 1 - 1 : path[i] = "." => i \in Esc
  BY <1>1
<1>10. ~hasEscapes => \A i \in from..at + 1 - 1 : i \notin Esc
  BY <1>1
<1> HIDE DEF Esc
<1> QED
  BY <1>1, <1>2, <1>5, <1>6, <1>7, <1>8, <1>9, <1>10 DEF ReadSoFar, Esc

\* An index begins a chain or goes on with it, and no longer one ends there.
LEMMA IndexRead ==
  ASSUME NEW path \in Seq(STRING), NEW from, NEW at, NEW chain, NEW hasEscapes,
         ReadSoFar(path, from, at, chain, hasEscapes),
         NEW k \in Closings(path, at, Len(path) + 1)
  PROVE  ReadSoFar(path, from, k + 1, IF chain = 0 THEN at ELSE chain, hasEscapes)
<1> DEFINE end == Len(path) + 1
           Esc == Escaped(path)
           tail == IF chain # 0 THEN chain ELSE at
<1>1. /\ from \in 1..at /\ at \in 1..end /\ from \notin Esc /\ at \notin Esc
      /\ hasEscapes \in BOOLEAN /\ chain \in Nat
      /\ \A i \in from..at - 1 : path[i] = "." => i \in Esc
      /\ ~hasEscapes => \A i \in from..at - 1 : i \notin Esc
      /\ chain # 0 => chain \in from..at - 1 /\ chain \notin Esc
      /\ \A c \in from..at - 1 : c \notin Esc =>
           \A l \in Closings(path, c, end) : l < at
  BY DEF ReadSoFar
<1>2. /\ IsChain(path, tail, at)
      /\ \A j \in from..tail - 1 : j \in Esc \/ ~IsChain(path, j, at)
  BY DEF ReadSoFar
<1>3. /\ k \in Nat /\ at + 2 <= k /\ k < end
      /\ path[at] = "[" /\ path[k] = "]"
      /\ \A j \in at + 1..k - 1 : path[j] \in Digits
  BY <1>1, GroupIs
<1>0. PICK to \in Nat : to = k + 1
  BY <1>3
<1>4. \A j \in at..k : path[j] # "." /\ path[j] # "\\" /\ (j # at => path[j] # "[")
  <2> TAKE j \in at..k
  <2>1. CASE j = at \/ j = k
    BY <1>0, <1>1, <1>3, <2>1
  <2>2. CASE j # at /\ j # k
    <3>1. path[j] \in Digits
      BY <1>0, <1>1, <1>3, <2>2
    <3> QED
      BY <3>1, <2>2 DEF Digits
  <2> QED
    BY <2>1, <2>2
<1>5. \A j \in at..to : j \notin Esc
  <2> SUFFICES ASSUME NEW j \in at..to, j # at PROVE j \notin Esc
    BY <1>1
  <2>1. j \in Nat /\ j - 1 \in at..k
    BY <1>0, <1>1, <1>3
  <2>2. path[j - 1] # "\\"
    BY <1>4, <2>1
  <2> QED
    BY <2>1, <2>2, EscapedIs
<1>6. \A i \in from..to - 1 : path[i] = "." => i \in Esc
  BY <1>0, <1>1, <1>3, <1>4
<1>7. ~hasEscapes => \A i \in from..to - 1 : i \notin Esc
  BY <1>0, <1>1, <1>3, <1>5
<1>8. \A c \in from..to - 1 : c \notin Esc =>
        \A l \in Closings(path, c, end) : l < to
  <2> SUFFICES ASSUME NEW c \in from..to - 1, c \notin Esc,
                      NEW l \in Closings(path, c, end)
               PROVE  l < to
    OBVIOUS
  <2>0. c \in Nat
    BY <1>1
  <2>1. path[c] = "[" /\ l \in Nat
    BY <2>0, GroupIs
  <2>2. CASE c = at
    <3>1. l = k
      BY <1>1, <2>2, OneClosing
    <3> QED
      BY <3>1, <1>0, <1>3
  <2>3. CASE c # at
    BY <1>0, <1>1, <1>3, <1>4, <2>1, <2>3
  <2> QED
    BY <2>2, <2>3
<1>9. tail \in from..at /\ tail \in Nat /\ tail \notin Esc
  BY <1>1
<1> HIDE DEF tail
<1>10. IsChain(path, tail, to)
  BY <1>0, <1>1, <1>2, <1>9, ChainMore
<1>11. \A j \in from..tail - 1 : j \in Esc \/ ~IsChain(path, j, to)
  <2> SUFFICES ASSUME NEW j \in from..tail - 1, IsChain(path, j, to)
               PROVE  IsChain(path, j, at)
    BY <1>2
  <2>0. j \in Nat /\ j < at
    BY <1>1, <1>9
  <2>1. PICK c \in j..to - 1 : to - 1 \in Closings(path, c, to) /\ IsChain(path, j, c)
    <3>1. j < to
      BY <1>0, <1>1, <1>3, <2>0
    <3> QED
      BY <2>0, <3>1, ChainLast
  <2>2. /\ c \in Nat /\ path[c] = "[" /\ c + 2 <= k
        /\ \A i \in c + 1..k - 1 : path[i] \in Digits
    <3>1. to - 1 = k /\ c \in Nat /\ to \in Nat
      BY <1>0, <1>3, <2>0
    <3>2. k \in Closings(path, c, to)
      BY <2>1, <3>1
    <3> QED
      BY <3>1, <3>2, GroupIs
  <2>3. ~(c > at)
    BY <1>0, <1>1, <1>3, <1>4, <2>2
  <2>4. ~(c < at)
    <3>1. "[" \notin Digits
      BY DEF Digits
    <3> QED
      BY <1>0, <1>1, <1>3, <2>2, <3>1
  <2>5. c = at
    BY <1>1, <2>2, <2>3, <2>4
  <2> QED
    BY <2>1, <2>5
<1> DEFINE chain2 == IF chain = 0 THEN at ELSE chain
<1>12. chain2 = tail /\ chain2 # 0
  BY <1>1 DEF tail
<1>13. from \in 1..to /\ to \in 1..end /\ tail \in from..to - 1
       /\ to \notin Esc
  BY <1>0, <1>1, <1>3, <1>5, <1>9
<1> HIDE DEF Esc, chain2
<1>14. ReadSoFar(path, from, to, chain2, hasEscapes)
  <2>1. (IF chain2 # 0 THEN chain2 ELSE to) = tail
    BY <1>12
  <2>2. chain2 \in Nat /\ (chain2 # 0 => chain2 \in from..to - 1 /\ chain2 \notin Esc)
    BY <1>9, <1>12, <1>13
  <2>3. from \notin Esc /\ hasEscapes \in BOOLEAN
    BY <1>1
  <2> QED
    BY <1>6, <1>7, <1>8, <1>10, <1>11, <1>13, <2>1, <2>2, <2>3 DEF ReadSoFar, Esc
<1> QED
  BY <1>0, <1>14 DEF chain2

\* What a segment means when all of it is read.
LEMMA MeaningRead ==
  ASSUME NEW path \in Seq(STRING), NEW from, NEW at, NEW chain, NEW hasEscapes,
         ReadSoFar(path, from, at, chain, hasEscapes),
         NEW tail, tail = IF chain # 0 THEN chain ELSE at,
         NEW name, name = IF hasEscapes THEN unescape(path, from, tail)
                          ELSE SubSeq(path, from, tail - 1)
  PROVE  Meaning(path, from, at) = [name |-> name, indexes |-> Indexes(path, tail, at)]
<1> DEFINE Esc == Escaped(path)
           P(k) == /\ IsChain(path, k, at) /\ k \notin Esc
                   /\ \A j \in from..k - 1 : ~IsChain(path, j, at) \/ j \in Esc
<1>1. /\ from \in 1..at /\ at \in 1..Len(path) + 1 /\ from \notin Esc /\ at \notin Esc
      /\ hasEscapes \in BOOLEAN /\ chain \in Nat
      /\ ~hasEscapes => \A i \in from..at - 1 : i \notin Esc
      /\ chain # 0 => chain \in from..at - 1 /\ chain \notin Esc
  BY DEF ReadSoFar
<1>2. /\ IsChain(path, tail, at)
      /\ \A j \in from..tail - 1 : j \in Esc \/ ~IsChain(path, j, at)
  BY DEF ReadSoFar
<1>3. tail \in from..at /\ tail \notin Esc
  BY <1>1
<1> HIDE DEF Esc
<1>4. P(tail)
  BY <1>2, <1>3
<1>5. ASSUME NEW k \in from..at, P(k) PROVE k = tail
  <2>1. ~(k < tail)
    BY <1>1, <1>2, <1>3, <1>5
  <2>2. ~(tail < k)
    BY <1>1, <1>2, <1>3, <1>5
  <2> QED
    BY <1>1, <1>3, <2>1, <2>2
<1>6. ChainOf(path, from, at) = tail
  <2>1. ChainOf(path, from, at) = CHOOSE k \in from..at : P(k)
    BY DEF ChainOf, Esc
  <2> HIDE DEF P
  <2> QED
    BY <1>3, <1>4, <1>5, <2>1
<1>7. CASE hasEscapes
  <2>1. unescape(path, from, tail) = Characters(path, from, tail)
    BY <1>1, <1>3, UnescapeIs DEF Esc
  <2> QED
    BY <1>6, <1>7, <2>1 DEF Meaning
<1>8. CASE ~hasEscapes
  <2>1. \A i \in from..tail : i \notin Escaped(path)
    BY <1>1, <1>3, <1>8 DEF Esc
  <2>2. SubSeq(path, from, tail - 1) = Characters(path, from, tail)
    BY <1>1, <1>3, <2>1, PlainIs
  <2> QED
    BY <1>6, <1>8, <2>2 DEF Meaning
<1> QED
  BY <1>1, <1>7, <1>8

-----------------------------------------------------------------------------
(* Segments, one after another. *)

\* The ends of the segments, in order.
EndsOf(path) == InOrder(Ends(path), Len(path) + 1)

\* The n segments before "from" are behind it.
SegmentsBefore(path, n, from) ==
  /\ n = Len(InOrder(Ends(path), from - 1))
  /\ from = IF n = 0 THEN 1 ELSE EndsOf(path)[n] + 1

\* There is one segment for each end, and it means what is between two ends.
LEMMA SegmentsAre ==
  ASSUME NEW path \in Seq(STRING)
  PROVE  /\ EndsOf(path) \in Seq(1..Len(path) + 1)
         /\ DOMAIN Segments(path) = 1..Len(EndsOf(path))
         /\ Len(Segments(path)) = Len(EndsOf(path))
         /\ \A i \in 1..Len(EndsOf(path)) :
              Segments(path)[i]
                = Meaning(path, IF i = 1 THEN 1 ELSE EndsOf(path)[i - 1] + 1, EndsOf(path)[i])
<1> DEFINE ends == EndsOf(path)
           M(i) == Meaning(path, IF i = 1 THEN 1 ELSE ends[i - 1] + 1, ends[i])
<1>1. ends \in Seq(1..Len(path) + 1)
  BY InOrderIs DEF EndsOf
<1>2. Len(ends) \in Nat /\ DOMAIN ends = 1..Len(ends)
  BY <1>1
<1>3. Segments(path) = [i \in 1..Len(ends) |-> M(i)]
  <2>1. Segments(path) = [i \in DOMAIN ends |-> M(i)]
    BY DEF Segments, EndsOf
  <2> HIDE DEF ends, M
  <2> QED
    BY <1>2, <2>1
<1> HIDE DEF ends, M
<1>4. DOMAIN Segments(path) = 1..Len(ends) /\ Len(Segments(path)) = Len(ends)
      /\ \A i \in 1..Len(ends) : Segments(path)[i] = M(i)
  <2>1. [i \in 1..Len(ends) |-> M(i)] \in Seq({M(i) : i \in 1..Len(ends)})
    BY <1>2
  <2> QED
    BY <1>2, <1>3, <2>1
<1> QED
  BY <1>1, <1>4 DEF ends, M

\* A segment that is read up to an end is the next one.
LEMMA SegmentEnds ==
  ASSUME NEW path \in Seq(STRING), NEW n, NEW from \in Nat, NEW at \in Nat,
         1 <= from, from <= at, at <= Len(path) + 1,
         SegmentsBefore(path, n, from),
         at \in Ends(path), \A i \in from..at - 1 : i \notin Ends(path)
  PROVE  /\ n \in Nat /\ n + 1 \in DOMAIN Segments(path)
         /\ EndsOf(path)[n + 1] = at
         /\ Segments(path)[n + 1] = Meaning(path, from, at)
         /\ SegmentsBefore(path, n + 1, at + 1)
<1> DEFINE S == Ends(path)
           old == InOrder(S, from - 1)
           new == InOrder(S, at)
           ends == EndsOf(path)
<1>1. old \in Seq(1..from - 1)
  <2>1. from - 1 \in Nat
    OBVIOUS
  <2> QED
    BY <2>1, InOrderIs
<1>2. InOrder(S, at - 1) = old
  <2>1. from - 1 \in Nat /\ at - 1 \in Nat /\ from - 1 <= at - 1
    OBVIOUS
  <2>2. \A i \in from - 1 + 1..at - 1 : i \notin S
    OBVIOUS
  <2> HIDE DEF S
  <2> QED
    BY <2>1, <2>2, InOrderSkips
<1>3. new = Append(old, at)
  <2>1. PICK m \in Nat : m = at - 1 /\ m + 1 = at
    OBVIOUS
  <2>2. m + 1 \in S
    BY <2>1
  <2> HIDE DEF S, old
  <2>3. InOrder(S, m + 1) = Append(InOrder(S, m), m + 1)
    BY <2>2, InOrderNext
  <2> QED
    BY <1>2, <2>1, <2>3
<1>4. Len(new) <= Len(ends) /\ \A i \in 1..Len(new) : ends[i] = new[i]
  <2>1. Len(path) + 1 \in Nat /\ at \in Nat /\ at <= Len(path) + 1
    OBVIOUS
  <2> HIDE DEF S
  <2> QED
    BY <2>1, InOrderBegins DEF EndsOf, S
<1>5. n = Len(old) /\ n \in Nat
  BY <1>1 DEF SegmentsBefore
<1> HIDE DEF old, new, S
<1>6. Len(new) = n + 1 /\ new[n + 1] = at
  <2>1. old \in Seq(Nat)
    BY <1>1
  <2> QED
    BY <1>3, <1>5, <2>1
<1>7. ends[n + 1] = at /\ n + 1 \in 1..Len(ends)
  <2>1. Len(ends) \in Nat
    BY SegmentsAre
  <2> QED
    BY <1>4, <1>5, <1>6, <2>1
<1>8. from = IF n = 0 THEN 1 ELSE ends[n] + 1
  BY DEF SegmentsBefore
<1> HIDE DEF ends
<1>9. Segments(path)[n + 1] = Meaning(path, from, at)
  <2>1. PICK i : i = n + 1
    OBVIOUS
  <2>2. (i = 1 <=> n = 0) /\ i - 1 = n /\ i \in 1..Len(ends) /\ ends[i] = at
    BY <1>5, <1>7, <2>1
  <2>3. Segments(path)[i] = Meaning(path, IF i = 1 THEN 1 ELSE ends[i - 1] + 1, ends[i])
    BY <2>2, SegmentsAre DEF ends
  <2> QED
    BY <1>8, <2>1, <2>2, <2>3
<1>10. n + 1 \in DOMAIN Segments(path)
  BY <1>7, SegmentsAre DEF ends
<1>11. SegmentsBefore(path, n + 1, at + 1)
  <2>1. at + 1 - 1 = at /\ n + 1 # 0
    BY <1>5
  <2> QED
    BY <1>6, <1>7, <2>1 DEF SegmentsBefore, new, S, ends
<1> QED
  BY <1>5, <1>7, <1>9, <1>10, <1>11 DEF ends

\* At the end of the path there are no more segments.
LEMMA NoMoreSegments ==
  ASSUME NEW path \in Seq(STRING), NEW n, NEW at \in Nat, 1 <= at,
         SegmentsBefore(path, n, at + 1),
         at = Len(path) + 1
           \/ (at = Len(path) /\ path[at] = "." /\ at \notin Escaped(path))
  PROVE  n = Len(Segments(path))
<1>1. InOrder(Ends(path), at) = EndsOf(path)
  <2>1. CASE at = Len(path) + 1
    BY <2>1 DEF EndsOf
  <2>2. CASE at = Len(path) /\ path[at] = "." /\ at \notin Escaped(path)
    <3>1. Last(path) = "." /\ Len(path) + 1 \notin DOMAIN path
      BY <2>2 DEF Last
    <3>2. Len(path) + 1 \notin Ends(path)
      BY <2>2, <3>1 DEF Ends
    <3>3. InOrder(Ends(path), at + 1) = InOrder(Ends(path), at)
      BY <2>2, <3>2, InOrderNext
    <3> QED
      BY <2>2, <3>3 DEF EndsOf
  <2> QED
    BY <2>1, <2>2
<1>2. n = Len(InOrder(Ends(path), at))
  <2>1. at + 1 - 1 = at
    OBVIOUS
  <2> QED
    BY <2>1 DEF SegmentsBefore
<1> QED
  BY <1>1, <1>2, SegmentsAre

\* What readSegment has read ends where a segment ends.
LEMMA ReadToEnd ==
  ASSUME NEW path \in Seq(STRING), NEW from, NEW at, NEW chain, NEW hasEscapes,
         ReadSoFar(path, from, at, chain, hasEscapes), from < Len(path) + 1,
         at = Len(path) + 1 \/ path[at] = "."
  PROVE  at \in Ends(path) /\ \A i \in from..at - 1 : i \notin Ends(path)
<1>1. /\ from \in 1..at /\ at \in 1..Len(path) + 1 /\ at \notin Escaped(path)
      /\ \A i \in from..at - 1 : path[i] = "." => i \in Escaped(path)
  BY DEF ReadSoFar
<1>2. \A i \in from..at - 1 : i \in DOMAIN path
  BY <1>1
<1>3. \A i \in from..at - 1 : i \notin Ends(path)
  BY <1>1, <1>2 DEF Ends
<1>4. CASE at = Len(path) + 1
  <2>1. Len(path) \in from..at - 1 /\ path # <<>> /\ Last(path) = path[Len(path)]
    BY <1>1, <1>4 DEF Last
  <2>2. ~(Last(path) = "." /\ Len(path) \notin Escaped(path))
    BY <1>1, <2>1
  <2> QED
    BY <1>3, <1>4, <2>1, <2>2 DEF Ends
<1>5. CASE at # Len(path) + 1
  <2>1. at \in DOMAIN path /\ path[at] = "."
    BY <1>1, <1>5
  <2> QED
    BY <1>1, <1>3, <2>1 DEF Ends
<1> QED
  BY <1>4, <1>5

-----------------------------------------------------------------------------
(* Indexes, one after another. *)

\* How many of the groups of [chain, to) open before "at".
Applied(path, chain, to, at) == Len(InOrder(Opens(path, chain, to), at - 1))

\* A chain has one index for each of its groups.
LEMMA IndexesAre ==
  ASSUME NEW path \in Seq(STRING), NEW chain \in Nat, NEW to \in Nat,
         1 <= chain, chain <= to
  PROVE  /\ Applied(path, chain, to, to) \in Nat
         /\ Len(Indexes(path, chain, to)) = Applied(path, chain, to, to)
         /\ DOMAIN Indexes(path, chain, to) = 1..Applied(path, chain, to, to)
         /\ \A i \in 1..Applied(path, chain, to, to) :
              Indexes(path, chain, to)[i]
                = parseIndex(path, InOrder(Opens(path, chain, to), to - 1)[i], to).index
         /\ Applied(path, chain, to, chain) = 0
         /\ \E X : Indexes(path, chain, to) \in Seq(X)
<1> DEFINE S == Opens(path, chain, to)
           groups == InOrder(S, to - 1)
           X(i) == parseIndex(path, groups[i], to).index
           n == Applied(path, chain, to, to)
<1>1. groups \in Seq(1..to - 1)
  <2>1. to - 1 \in Nat
    OBVIOUS
  <2> QED
    BY <2>1, InOrderIs
<1>2. n = Len(groups) /\ n \in Nat /\ DOMAIN groups = 1..n
  BY <1>1 DEF Applied
<1>3. Indexes(path, chain, to) = [i \in 1..n |-> X(i)]
  <2>1. Indexes(path, chain, to) = [i \in DOMAIN groups |-> X(i)]
    BY DEF Indexes
  <2> HIDE DEF n, groups, X
  <2> QED
    BY <1>2, <2>1
<1>4. InOrder(S, chain - 1) = <<>>
  <2>1. InOrder(S, 0) = <<>>
    BY InOrderNone
  <2>2. \A i \in 0 + 1..chain - 1 : i \notin S
    BY DEF Opens
  <2>3. chain - 1 \in Nat /\ 0 <= chain - 1
    OBVIOUS
  <2> HIDE DEF S
  <2> QED
    BY <2>1, <2>2, <2>3, InOrderSkips
<1>5. Applied(path, chain, to, chain) = 0
  BY <1>4 DEF Applied
<1> HIDE DEF n, X
<1>6. /\ Len(Indexes(path, chain, to)) = n
      /\ DOMAIN Indexes(path, chain, to) = 1..n
      /\ \A i \in 1..n : Indexes(path, chain, to)[i] = X(i)
      /\ \E Y : Indexes(path, chain, to) \in Seq(Y)
  <2>1. [i \in 1..n |-> X(i)] \in Seq({X(i) : i \in 1..n})
    BY <1>2
  <2>2. PICK Y : Y = {X(i) : i \in 1..n}
    OBVIOUS
  <2>3. Indexes(path, chain, to) \in Seq(Y)
    BY <1>3, <2>1, <2>2
  <2>4. \E Z : Indexes(path, chain, to) \in Seq(Z)
    BY <2>3
  <2>5. Len(Indexes(path, chain, to)) = n
    BY <1>2, <1>3, <2>1
  <2> QED
    BY <1>3, <2>4, <2>5
<1> QED
  BY <1>2, <1>5, <1>6 DEF n, X

\* One index more.
LEMMA OneApplied ==
  ASSUME NEW path \in Seq(STRING), NEW chain \in Nat, NEW to \in Nat, NEW at \in Nat,
         1 <= chain, chain <= at, at < to, IsChain(path, at, to)
  PROVE  \E after \in Nat :
           /\ IndexAt(path, at, to)
           /\ parseIndex(path, at, to).after = after
           /\ at < after /\ after <= to
           /\ IsChain(path, after, to)
           /\ Applied(path, chain, to, at) \in Nat
           /\ Applied(path, chain, to, after) = Applied(path, chain, to, at) + 1
           /\ Applied(path, chain, to, after) <= Applied(path, chain, to, to)
           /\ Indexes(path, chain, to)[Applied(path, chain, to, after)]
                = parseIndex(path, at, to).index
<1>1. PICK k \in Closings(path, at, to) : IsChain(path, k + 1, to)
  BY ChainFirst
<1>2. /\ k \in Nat /\ at + 2 <= k /\ k < to /\ path[at] = "[" /\ path[k] = "]"
      /\ \A j \in at + 1..k - 1 : path[j] \in Digits
  BY GroupIs
<1>3. IndexAt(path, at, to) /\ parseIndex(path, at, to).after = k + 1
  BY ParsedIs
<1> DEFINE S == Opens(path, chain, to)
           old == InOrder(S, at - 1)
           new == InOrder(S, k)
           all == InOrder(S, to - 1)
<1>4. old \in Seq(1..at - 1)
  <2>1. at - 1 \in Nat
    OBVIOUS
  <2> QED
    BY <2>1, InOrderIs
<1>5. InOrder(S, at) = Append(old, at)
  <2>1. PICK m \in Nat : m = at - 1 /\ m + 1 = at
    OBVIOUS
  <2>2. m + 1 \in S
    BY <1>2, <2>1 DEF Opens
  <2> HIDE DEF S
  <2>3. InOrder(S, m + 1) = Append(InOrder(S, m), m + 1)
    BY <2>2, InOrderNext
  <2> QED
    BY <2>1, <2>3
<1>6. new = InOrder(S, at)
  <2>1. \A i \in at + 1..k : i \notin S
    <3> SUFFICES ASSUME NEW i \in at + 1..k PROVE path[i] # "["
      BY DEF Opens
    <3>1. CASE i = k
      BY <1>2, <3>1
    <3>2. CASE i # k
      <4>1. path[i] \in Digits
        BY <1>2, <3>2
      <4> QED
        BY <4>1 DEF Digits
    <3> QED
      BY <3>1, <3>2
  <2>2. at <= k
    BY <1>2
  <2> HIDE DEF S
  <2> QED
    BY <1>2, <2>1, <2>2, InOrderSkips
<1>7. Len(new) <= Len(all) /\ \A i \in 1..Len(new) : all[i] = new[i]
  <2>1. to - 1 \in Nat /\ k <= to - 1
    BY <1>2
  <2> HIDE DEF S
  <2> QED
    BY <1>2, <2>1, InOrderBegins
<1> HIDE DEF old, new, all
<1>8. Len(old) \in Nat /\ Len(new) = Len(old) + 1 /\ new[Len(old) + 1] = at
  <2>1. old \in Seq(Nat)
    BY <1>4
  <2> QED
    BY <1>5, <1>6, <2>1
<1>14. PICK after \in Nat : after = k + 1 /\ after - 1 = k
  BY <1>2
<1>9. /\ Applied(path, chain, to, at) = Len(old)
      /\ Applied(path, chain, to, after) = Len(new)
      /\ Applied(path, chain, to, to) = Len(all)
  BY <1>14 DEF Applied, old, new, all
<1>10. Indexes(path, chain, to)[Len(new)] = parseIndex(path, all[Len(new)], to).index
  <2>1. chain <= to /\ Len(new) \in 1..Len(all)
    <3>1. Len(all) \in Nat
      BY <1>9, IndexesAre
    <3> QED
      BY <1>7, <1>8, <3>1
  <2>2. PICK i : i = Len(new)
    OBVIOUS
  <2>3. i \in 1..Applied(path, chain, to, to)
    BY <1>9, <2>1, <2>2
  <2>4. Indexes(path, chain, to)[i] = parseIndex(path, all[i], to).index
    BY <2>1, <2>3, IndexesAre DEF all
  <2> QED
    BY <2>2, <2>4
<1>11. all[Len(new)] = at
  BY <1>7, <1>8
<1>12. at < after /\ after <= to
  BY <1>14, <1>2
<1>13. IsChain(path, after, to) /\ parseIndex(path, at, to).after = after
  BY <1>14, <1>1, <1>3
<1> QED
  BY <1>3, <1>7, <1>8, <1>9, <1>10, <1>11, <1>12, <1>13

-----------------------------------------------------------------------------
(* What the document was asked for. *)

\* The first n segments.
AskedFor(path, n) == [i \in 1..n |-> Segments(path)[i]]

\* The first n segments, of the last one m indexes.
AskedPartly(path, n, m) ==
  [i \in 1..n |->
     IF i < n THEN Segments(path)[i]
     ELSE [name |-> Segments(path)[n].name,
           indexes |-> SubSeq(Segments(path)[n].indexes, 1, m)]]

\* A function on 1..n is a sequence.
LEMMA FunctionIsSeq ==
  ASSUME NEW n \in Nat, NEW s, s = [i \in 1..n |-> s[i]]
  PROVE  Len(s) = n /\ DOMAIN s = 1..n /\ \E X : s \in Seq(X)
<1> DEFINE X == {s[i] : i \in 1..n}
<1>1. s \in [1..n -> X]
  OBVIOUS
<1> HIDE DEF X
<1>2. s \in Seq(X) /\ Len(s) = n
  BY <1>1
<1> QED
  BY <1>1, <1>2

\* A name more.
LEMMA NameAsked ==
  ASSUME NEW path, NEW n \in Nat, NEW name, name = Segments(path)[n + 1].name
  PROVE  Append(AskedFor(path, n), [name |-> name, indexes |-> <<>>])
           = AskedPartly(path, n + 1, 0)
<1> DEFINE s == AskedFor(path, n)
           r == [name |-> name, indexes |-> <<>>]
           X == {s[i] : i \in 1..n} \cup {r}
           Segs == Segments(path)
           t == AskedPartly(path, n + 1, 0)
<1>1. s = [i \in 1..n |-> Segs[i]]
  BY DEF AskedFor
<1>2. SubSeq(Segs[n + 1].indexes, 1, 0) = <<>>
  OBVIOUS
<1>3. t = [i \in 1..n + 1 |-> IF i < n + 1 THEN Segs[i] ELSE r]
  BY <1>2 DEF AskedPartly
<1> HIDE DEF r, t, s, Segs
<1>4. s \in [1..n -> X]
  BY <1>1
<1>5. r \in X
  OBVIOUS
<1> HIDE DEF X
<1>6. s \in Seq(X) /\ Len(s) = n
  BY <1>4
<1> DEFINE u == Append(s, r)
<1>7. /\ u \in [1..n + 1 -> X]
      /\ u[n + 1] = r
      /\ \A i \in 1..n : u[i] = s[i]
  BY <1>5, <1>6, MoreIs
<1> HIDE DEF u
<1>8. u = t
  <2>1. \A i \in 1..n + 1 : u[i] = IF i < n + 1 THEN Segs[i] ELSE r
    BY <1>1, <1>7
  <2> QED
    BY <1>3, <1>7, <2>1
<1> QED
  BY <1>8 DEF u, s, r, t

\* An index more.
LEMMA IndexAsked ==
  ASSUME NEW path, NEW n \in Nat, 1 <= n, NEW m \in Nat, NEW X,
         Segments(path)[n].indexes \in Seq(X), m < Len(Segments(path)[n].indexes),
         NEW asks, asks = AskedPartly(path, n, m),
         NEW index, index = Segments(path)[n].indexes[m + 1],
         NEW asks2, asks2 = [asks EXCEPT ![Len(asks)].indexes = Append(@, index)]
  PROVE  asks2 = AskedPartly(path, n, m + 1)
<1> DEFINE Segs == Segments(path)
           s == Segs[n].indexes
           some == SubSeq(s, 1, m)
           more == SubSeq(s, 1, m + 1)
           name == Segs[n].name
<1>1. more = Append(some, index)
  BY DEF s
<1>2. asks = [i \in 1..n |-> IF i < n THEN Segs[i] ELSE [name |-> name, indexes |-> some]]
  BY DEF AskedPartly
<1>3. AskedPartly(path, n, m + 1)
        = [i \in 1..n |-> IF i < n THEN Segs[i] ELSE [name |-> name, indexes |-> more]]
  BY DEF AskedPartly
<1> HIDE DEF Segs, s, some, more, name
<1>4. Len(asks) = n /\ DOMAIN asks = 1..n
  <2>1. asks = [i \in 1..n |-> asks[i]]
    BY <1>2
  <2> QED
    BY <2>1, FunctionIsSeq
<1>5. asks[n] = [name |-> name, indexes |-> some]
  BY <1>2
<1> DEFINE new == [asks EXCEPT ![n].indexes = Append(@, index)]
<1>6. /\ new = [i \in 1..n |-> new[i]]
      /\ \A i \in 1..n : new[i] = IF i < n THEN Segs[i]
                                  ELSE [name |-> name, indexes |-> Append(some, index)]
  <2>1. PICK r : r = [asks[n] EXCEPT !.indexes = Append(asks[n].indexes, index)]
    OBVIOUS
  <2>2. r = [name |-> name, indexes |-> Append(some, index)]
    <3>1. PICK x, y : y = asks[n] /\ x = Append(some, index)
      OBVIOUS
    <3>2. y = [name |-> name, indexes |-> some] /\ y.indexes = some
      BY <1>5, <3>1
    <3>3. r = [y EXCEPT !.indexes = x]
      BY <2>1, <3>1, <3>2, Zenon
    <3>4. r = [name |-> name, indexes |-> x]
      BY <3>2, <3>3
    <3> QED
      BY <3>1, <3>4
  <2>3. new = [asks EXCEPT ![n] = r]
    BY <2>1
  <2>4. new = [i \in 1..n |-> IF i = n THEN r ELSE asks[i]]
    BY <1>4, <2>3
  <2>5. \A i \in 1..n : i < n => asks[i] = Segs[i]
    BY <1>2
  <2> HIDE DEF new
  <2> QED
    BY <2>2, <2>4, <2>5
<1> HIDE DEF new
<1>7. new = AskedPartly(path, n, m + 1)
  BY <1>1, <1>3, <1>6
<1> QED
  BY <1>4, <1>7 DEF new

\* All of it.
LEMMA AllAsked ==
  ASSUME NEW path, NEW n \in Nat, NEW X, NEW s \in Seq(X),
         Segments(path)[n] = [name |-> Segments(path)[n].name, indexes |-> s]
  PROVE  AskedPartly(path, n, Len(s)) = AskedFor(path, n)
<1>1. Segments(path)[n].indexes = s
  <2>1. PICK name : name = Segments(path)[n].name
    OBVIOUS
  <2>2. Segments(path)[n] = [name |-> name, indexes |-> s]
    BY <2>1
  <2> QED
    BY <2>2
<1>2. SubSeq(s, 1, Len(s)) = s
  OBVIOUS
<1>3. \A i \in 1..n :
        (IF i < n THEN Segments(path)[i]
         ELSE [name |-> Segments(path)[n].name,
               indexes |-> SubSeq(Segments(path)[n].indexes, 1, Len(s))])
          = Segments(path)[i]
  BY <1>1, <1>2
<1> QED
  BY <1>3 DEF AskedPartly, AskedFor

\* What is asked in part begins what is meant.
LEMMA PartBegins ==
  ASSUME NEW path \in Seq(STRING), NEW n \in DOMAIN Segments(path), NEW m \in Nat, NEW X,
         Segments(path)[n].indexes \in Seq(X), m <= Len(Segments(path)[n].indexes),
         NEW asks, asks = AskedPartly(path, n, m)
  PROVE  \E i \in DOMAIN asks :
           /\ i = Len(asks)
           /\ Front(asks) = SubSeq(Segments(path), 1, i - 1)
           /\ asks[i].name = Segments(path)[i].name
           /\ IsPrefix(asks[i].indexes, Segments(path)[i].indexes)
<1> DEFINE Segs == Segments(path)
           s == Segs[n].indexes
           some == SubSeq(s, 1, m)
           name == Segs[n].name
<1>0. n \in Nat /\ 1 <= n /\ n <= Len(Segs) /\ Len(Segs) \in Nat /\ DOMAIN Segs = 1..Len(Segs)
  BY SegmentsAre
<1>1. asks = [i \in 1..n |-> IF i < n THEN Segs[i] ELSE [name |-> name, indexes |-> some]]
  BY DEF AskedPartly
<1>2. some \in Seq(X) /\ Len(some) = m /\ \A i \in 1..m : some[i] = s[i]
  OBVIOUS
<1>3. IsPrefix(some, s)
  <2>1. SubSeq(some, 1, Len(some)) = some
    BY <1>2
  <2> QED
    BY <1>2, <2>1 DEF IsPrefix
<1> HIDE DEF Segs, s, some, name
<1>4. Len(asks) = n /\ DOMAIN asks = 1..n
  <2>1. asks = [i \in 1..n |-> asks[i]]
    BY <1>1
  <2> QED
    BY <1>0, <2>1, FunctionIsSeq
<1>5. Front(asks) = SubSeq(Segs, 1, n - 1)
  <2>1. Front(asks) = SubSeq(asks, 1, n - 1)
    BY <1>4 DEF Front
  <2>2. \A i \in 1..n - 1 : asks[i] = Segs[i]
    BY <1>0, <1>1
  <2>3. \A i \in 1..n - 1 : 1 + i - 1 = i
    BY <1>0
  <2>4. SubSeq(asks, 1, n - 1) = [i \in 1..n - 1 |-> asks[i]]
    BY <1>0
  <2>5. SubSeq(Segs, 1, n - 1) = [i \in 1..n - 1 |-> Segs[i]]
    BY <1>0
  <2> QED
    BY <2>1, <2>2, <2>4, <2>5
<1>6. asks[n].name = name /\ asks[n].indexes = some
  BY <1>0, <1>1
<1>7. n \in DOMAIN asks
  BY <1>0, <1>4
<1> QED
  BY <1>3, <1>4, <1>5, <1>6, <1>7 DEF Segs, s, name

-----------------------------------------------------------------------------
(* Every path asks for its meaning. *)

\* While a segment is read, all before it was asked for.
ReadInv ==
  phase = "read" =>
    /\ cur = TRUE
    /\ start < pathEnd
    /\ ReadSoFar(dotPath, start, pos, chainStart, nameHasEscapes)
    /\ \E n \in 0..Len(Segments(dotPath)) :
         /\ SegmentsBefore(dotPath, n, start)
         /\ asked = AskedFor(dotPath, n)

\* Where the indexes begin that are applied.
chainFrom == IF chainStart # 0 THEN chainStart ELSE start

\* While indexes are applied, what is left is a chain, and what was before it was
\* asked for.
IndexInv ==
  phase = "index" =>
    /\ cur = TRUE
    /\ 1 <= chainFrom /\ chainFrom <= pos /\ pos <= start /\ start <= pathEnd
    /\ start # pathEnd => dotPath[start] = "." /\ start \notin Escaped(dotPath)
    /\ IsChain(dotPath, pos, start)
    /\ \E n \in DOMAIN Segments(dotPath) :
         /\ SegmentsBefore(dotPath, n, start + 1)
         /\ Segments(dotPath)[n] = [name |-> Segments(dotPath)[n].name,
                                    indexes |-> Indexes(dotPath, chainFrom, start)]
         /\ asked = AskedPartly(dotPath, n, Applied(dotPath, chainFrom, start, pos))

\* The inductive invariant of AsksForItsMeaning.
AskInv == IInv /\ ReadInv /\ IndexInv /\ AsksForItsMeaning

\* Before the first segment nothing was asked for.
LEMMA NoneAsked == ASSUME NEW path PROVE AskedFor(path, 0) = <<>>
  BY DEF AskedFor

\* It holds at the start, before anything is read or asked for.
LEMMA AskInit == ASSUME Init, IInv PROVE AskInv
<1>1. dotPath \in Seq(STRING) /\ Len(dotPath) \in Nat
  BY DEF IInv
<1>2. phase # "index" /\ cur = TRUE /\ asked = <<>> /\ start = 1 /\ pos = 1
      /\ chainStart = 0 /\ nameHasEscapes = FALSE
  BY DEF Init
<1>3. CASE dotPath = <<>>
  <2>1. phase = "done"
    BY <1>3 DEF Init
  <2>2. Ends(dotPath) = {}
    BY <1>3 DEF Ends
  <2>3. EndsOf(dotPath) = <<>>
    <3>1. InOrder({}, 0) = <<>> /\ InOrder({}, 0 + 1) = InOrder({}, 0)
      BY InOrderNone, InOrderNext
    <3>2. Len(dotPath) + 1 = 0 + 1
      BY <1>3
    <3> QED
      BY <2>2, <3>1, <3>2 DEF EndsOf
  <2>4. Segments(dotPath) = <<>>
    BY <2>3 DEF Segments, EndsOf
  <2> QED
    BY <1>2, <2>1, <2>4 DEF AskInv, ReadInv, IndexInv, AsksForItsMeaning
<1>4. CASE dotPath # <<>>
  <2>1. phase = "read" /\ start < pathEnd
    BY <1>1, <1>2, <1>4 DEF Init, pathEnd
  <2>2. 1 \notin Escaped(dotPath)
    BY <1>1, EscapedIs
  <2>3. ReadSoFar(dotPath, 1, 1, 0, FALSE)
    <3>1. PICK i \in Nat : i = 1
      OBVIOUS
    <3>2. 1 <= i /\ i <= Len(dotPath) + 1 /\ i \notin Escaped(dotPath)
      BY <1>1, <2>2, <3>1
    <3>3. ReadSoFar(dotPath, i, i, 0, FALSE)
      BY <1>1, <3>2, NothingRead
    <3> QED
      BY <3>1, <3>3
  <2>4. SegmentsBefore(dotPath, 0, 1)
    <3>1. InOrder(Ends(dotPath), 1 - 1) = <<>>
      BY InOrderNone
    <3> QED
      BY <3>1 DEF SegmentsBefore
  <2>5. 0 \in 0..Len(Segments(dotPath))
    BY <1>1, SegmentsAre
  <2> QED
    BY <1>2, <2>1, <2>3, <2>4, <2>5, NoneAsked DEF AskInv, ReadInv, IndexInv, AsksForItsMeaning
<1> QED
  BY <1>3, <1>4

\* Every step of the loops keeps it.
LEMMA AskNext == ASSUME AskInv, IInv', [Next \/ Done]_vars PROVE AskInv'
<1> USE DEF pathEnd
<1>0. dotPath \in Seq(STRING) /\ Len(dotPath) \in Nat /\ start \in Nat /\ pos \in Nat
      /\ chainStart \in Nat
  BY DEF AskInv, IInv
<1>1. CASE ReadEscape
  <2>1. phase = "read" /\ phase' = phase /\ dotPath' = dotPath /\ start' = start
        /\ asked' = asked /\ cur' = cur /\ pos' = pos + 2 /\ chainStart' = 0
        /\ nameHasEscapes' = TRUE /\ isEscapeSequence(dotPath, pos, Len(dotPath) + 1)
    BY <1>1 DEF ReadEscape, Reading
  <2>2. ReadSoFar(dotPath, start, pos + 2, 0, TRUE)
    BY <1>0, <2>1, EscapeRead DEF AskInv, ReadInv
  <2> QED
    BY <2>1, <2>2 DEF AskInv, ReadInv, IndexInv, AsksForItsMeaning
<1>2. CASE ReadIndex
  <2>1. phase = "read" /\ phase' = phase /\ dotPath' = dotPath /\ start' = start
        /\ asked' = asked /\ cur' = cur /\ nameHasEscapes' = nameHasEscapes
        /\ IndexAt(dotPath, pos, Len(dotPath) + 1)
        /\ pos' = parseIndex(dotPath, pos, Len(dotPath) + 1).after
        /\ chainStart' = IF chainStart = 0 THEN pos ELSE chainStart
    BY <1>2 DEF ReadIndex, Reading
  <2>2. PICK k \in Closings(dotPath, pos, Len(dotPath) + 1) : TRUE
    BY <2>1 DEF IndexAt
  <2>3. pos' = k + 1
    BY <1>0, <2>1, <2>2, ParsedIs
  <2>4. ReadSoFar(dotPath, start, k + 1, IF chainStart = 0 THEN pos ELSE chainStart,
                  nameHasEscapes)
    BY <1>0, <2>1, <2>2, IndexRead DEF AskInv, ReadInv
  <2>5. ReadSoFar(dotPath, start, pos', chainStart', nameHasEscapes)
    BY <2>1, <2>3, <2>4
  <2> QED
    BY <2>1, <2>5 DEF AskInv, ReadInv, IndexInv, AsksForItsMeaning
<1>3. CASE ReadCharacter
  <2>1. phase = "read" /\ phase' = phase /\ dotPath' = dotPath /\ start' = start
        /\ asked' = asked /\ cur' = cur /\ nameHasEscapes' = nameHasEscapes
        /\ pos < Len(dotPath) + 1 /\ dotPath[pos] # "."
        /\ ~isEscapeSequence(dotPath, pos, Len(dotPath) + 1)
        /\ ~IndexAt(dotPath, pos, Len(dotPath) + 1)
        /\ pos' = pos + 1 /\ chainStart' = 0
    BY <1>3 DEF ReadCharacter, Reading
  <2>2. ReadSoFar(dotPath, start, pos + 1, 0, nameHasEscapes)
    BY <1>0, <2>1, CharacterRead DEF AskInv, ReadInv
  <2> QED
    BY <2>1, <2>2 DEF AskInv, ReadInv, IndexInv, AsksForItsMeaning
<1>4. ASSUME NEW found \in BOOLEAN, FindMember(found) PROVE AskInv'
  <2> DEFINE tail == IF chainStart # 0 THEN chainStart ELSE pos
             name == IF nameHasEscapes THEN unescape(dotPath, start, tail)
                     ELSE SubSeq(dotPath, start, tail - 1)
             Segs == Segments(dotPath)
  <2>1. phase = "read" /\ dotPath' = dotPath /\ cur' = found /\ start' = pos
        /\ pos' = tail /\ chainStart' = chainStart
        /\ phase' = (IF found THEN "index" ELSE "done")
        /\ asked' = Append(asked, [name |-> name, indexes |-> <<>>])
        /\ (pos = Len(dotPath) + 1 \/ dotPath[pos] = ".")
    <3>1. phase = "read" /\ ~(pos < pathEnd /\ dotPath[pos] # ".")
      BY <1>4 DEF FindMember, Reading
    <3>2. pos <= pathEnd
      BY <3>1 DEF AskInv, IInv, WithinPath
    <3>3. pos = Len(dotPath) + 1 \/ dotPath[pos] = "."
      BY <1>0, <3>1, <3>2
    <3> QED
      BY <1>4, <3>1, <3>3 DEF FindMember, nameEnd
  <2>2. ReadSoFar(dotPath, start, pos, chainStart, nameHasEscapes) /\ start < Len(dotPath) + 1
    BY <2>1 DEF AskInv, ReadInv
  <2>3. PICK n \in 0..Len(Segs) :
          SegmentsBefore(dotPath, n, start) /\ asked = AskedFor(dotPath, n)
    BY <2>1 DEF AskInv, ReadInv
  <2>4. pos \in Ends(dotPath) /\ \A i \in start..pos - 1 : i \notin Ends(dotPath)
    BY <1>0, <2>1, <2>2, ReadToEnd
  <2>5. /\ 1 <= start /\ start <= pos /\ pos <= Len(dotPath) + 1
        /\ pos \notin Escaped(dotPath) /\ 1 <= tail /\ tail <= pos
        /\ tail \in Nat /\ IsChain(dotPath, tail, pos)
    BY <1>0, <2>2 DEF ReadSoFar
  <2>6. /\ n \in Nat /\ n + 1 \in DOMAIN Segs
        /\ Segs[n + 1] = Meaning(dotPath, start, pos)
        /\ SegmentsBefore(dotPath, n + 1, pos + 1)
    BY <1>0, <2>3, <2>4, <2>5, SegmentEnds
  <2> HIDE DEF name, tail
  <2>7. Meaning(dotPath, start, pos)
          = [name |-> name, indexes |-> Indexes(dotPath, tail, pos)]
    <3>1. /\ tail = IF chainStart # 0 THEN chainStart ELSE pos
          /\ name = IF nameHasEscapes THEN unescape(dotPath, start, tail)
                    ELSE SubSeq(dotPath, start, tail - 1)
      BY DEF tail, name
    <3>2. PICK path, from, at, chain, hasEscapes :
            /\ path \in Seq(STRING) /\ path = dotPath /\ from = start /\ at = pos
            /\ chain = chainStart /\ hasEscapes = nameHasEscapes
      BY <1>0
    <3>3. /\ ReadSoFar(path, from, at, chain, hasEscapes)
          /\ tail = IF chain # 0 THEN chain ELSE at
          /\ name = IF hasEscapes THEN unescape(path, from, tail)
                    ELSE SubSeq(path, from, tail - 1)
      BY <2>2, <3>1, <3>2
    <3>4. Meaning(path, from, at) = [name |-> name, indexes |-> Indexes(path, tail, at)]
      BY <3>2, <3>3, MeaningRead
    <3> QED
      BY <3>2, <3>4
  <2>8. Segs[n + 1].name = name /\ Segs[n + 1].indexes = Indexes(dotPath, tail, pos)
    BY <2>6, <2>7
  <2>9. asked' = AskedPartly(dotPath, n + 1, 0)
    BY <2>1, <2>3, <2>6, <2>8, NameAsked
  <2>10. CASE found
    <3>1. phase' = "index" /\ cur' = TRUE
      BY <2>1, <2>10
    <3>2. chainFrom' = tail
      BY <2>1 DEF chainFrom, tail
    <3>3. Applied(dotPath, tail, pos, tail) = 0
      BY <1>0, <2>5, IndexesAre
    <3>4. Segs[n + 1] = [name |-> Segs[n + 1].name, indexes |-> Indexes(dotPath, tail, pos)]
      BY <2>6, <2>7, <2>8
    <3>5. pos # Len(dotPath) + 1 => dotPath[pos] = "."
      BY <2>1
    <3>6. IndexInv'
      BY <2>1, <2>5, <2>6, <2>9, <3>1, <3>2, <3>3, <3>4, <3>5 DEF IndexInv
    <3> QED
      BY <3>1, <3>6 DEF AskInv, ReadInv, AsksForItsMeaning
  <2>11. CASE ~found
    <3>1. phase' = "done" /\ cur' = FALSE
      BY <2>1, <2>11
    <3>2. PICK X : Segs[n + 1].indexes \in Seq(X)
      <4>1. \E X : Indexes(dotPath, tail, pos) \in Seq(X)
        BY <1>0, <2>5, IndexesAre
      <4> HIDE DEF Segs
      <4> QED
        BY <2>8, <4>1
    <3>3. 0 <= Len(Segs[n + 1].indexes)
      BY <3>2
    <3>4. \E i \in DOMAIN asked' :
            /\ i = Len(asked')
            /\ Front(asked') = SubSeq(Segs, 1, i - 1)
            /\ asked'[i].name = Segs[i].name
            /\ IsPrefix(asked'[i].indexes, Segs[i].indexes)
      BY <1>0, <2>6, <2>9, <3>2, <3>3, PartBegins
    <3>5. AsksForItsMeaning'
      BY <2>1, <3>1, <3>4 DEF AsksForItsMeaning
    <3> QED
      BY <3>1, <3>5 DEF AskInv, ReadInv, IndexInv
  <2> QED
    BY <2>10, <2>11
<1>5. ASSUME NEW found \in BOOLEAN, ApplyIndex(found) PROVE AskInv'
  <2> DEFINE Segs == Segments(dotPath)
             group == parseIndex(dotPath, pos, start)
             Behind(at) == Applied(dotPath, chainFrom, start, at)
  <2>1. phase = "index" /\ pos < start /\ dotPath' = dotPath /\ start' = start
        /\ chainStart' = chainStart /\ phase' = IF cur' THEN "index" ELSE "done"
    BY <1>5 DEF ApplyIndex
  <2>2. /\ 1 <= chainFrom /\ chainFrom <= pos /\ pos <= start /\ start <= pathEnd
        /\ start # pathEnd => dotPath[start] = "." /\ start \notin Escaped(dotPath)
        /\ IsChain(dotPath, pos, start)
    BY <2>1 DEF AskInv, IndexInv
  <2>3. PICK n \in DOMAIN Segs :
         /\ SegmentsBefore(dotPath, n, start + 1)
         /\ Segs[n] = [name |-> Segs[n].name, indexes |-> Indexes(dotPath, chainFrom, start)]
         /\ asked = AskedPartly(dotPath, n, Behind(pos))
    BY <2>1 DEF AskInv, IndexInv
  <2>4. chainFrom \in Nat /\ chainFrom <= start
    BY <1>0, <2>1, <2>2 DEF chainFrom
  <2>5. PICK after \in Nat :
           /\ IndexAt(dotPath, pos, start)
           /\ group.after = after
           /\ pos < after /\ after <= start
           /\ IsChain(dotPath, after, start)
           /\ Behind(pos) \in Nat
           /\ Behind(after) = Behind(pos) + 1
           /\ Behind(after) <= Behind(start)
           /\ Indexes(dotPath, chainFrom, start)[Behind(after)] = group.index
    <3>1. PICK path \in Seq(STRING) : path = dotPath
      BY <1>0
    <3>2. PICK c \in Nat : c = chainFrom
      BY <2>4
    <3>3. PICK to \in Nat, at \in Nat : to = start /\ at = pos
      BY <1>0
    <3>4. 1 <= c /\ c <= at /\ at < to /\ IsChain(path, at, to)
      BY <2>1, <2>2, <3>1, <3>2, <3>3
    <3>5. \E next \in Nat :
           /\ IndexAt(path, at, to)
           /\ parseIndex(path, at, to).after = next
           /\ at < next /\ next <= to
           /\ IsChain(path, next, to)
           /\ Applied(path, c, to, at) \in Nat
           /\ Applied(path, c, to, next) = Applied(path, c, to, at) + 1
           /\ Applied(path, c, to, next) <= Applied(path, c, to, to)
           /\ Indexes(path, c, to)[Applied(path, c, to, next)]
                = parseIndex(path, at, to).index
      BY <3>4, OneApplied
    <3> QED
      BY <3>1, <3>2, <3>3, <3>5
  <2>6. /\ asked' = [asked EXCEPT ![Len(asked)].indexes = Append(@, group.index)]
        /\ pos' = after /\ cur' = found
    BY <1>5, <2>5 DEF ApplyIndex
  <2>7. n \in Nat /\ 1 <= n
    BY <1>0, <2>3, SegmentsAre
  <2>8. Segs[n].indexes = Indexes(dotPath, chainFrom, start)
    <3>1. PICK name, s : name = Segs[n].name /\ s = Indexes(dotPath, chainFrom, start)
      OBVIOUS
    <3>2. Segs[n] = [name |-> name, indexes |-> s]
      BY <2>3, <3>1
    <3> QED
      BY <3>1, <3>2
  <2>9. PICK X : Segs[n].indexes \in Seq(X)
    <3>1. \E X : Indexes(dotPath, chainFrom, start) \in Seq(X)
      BY <1>0, <2>2, <2>4, IndexesAre
    <3> HIDE DEF Segs
    <3> QED
      BY <2>8, <3>1
  <2>10. Len(Segs[n].indexes) = Behind(start) /\ Behind(start) \in Nat
    BY <1>0, <2>2, <2>4, <2>8, IndexesAre
  <2> HIDE DEF group, Behind
  <2>11. asked' = AskedPartly(dotPath, n, Behind(after))
    <3>1. PICK m : m = Behind(pos)
      OBVIOUS
    <3>2. m \in Nat /\ m < Len(Segs[n].indexes) /\ asked = AskedPartly(dotPath, n, m)
          /\ group.index = Segs[n].indexes[m + 1]
      BY <2>3, <2>5, <2>8, <2>10, <3>1
    <3> HIDE DEF Segs
    <3>3. PICK index : index = group.index
      OBVIOUS
    <3>4. asked' = [asked EXCEPT ![Len(asked)].indexes = Append(@, index)]
      BY <2>6, <3>3
    <3>5. asked' = AskedPartly(dotPath, n, m + 1)
      BY <2>7, <2>9, <3>2, <3>3, <3>4, IndexAsked, Zenon DEF Segs
    <3> QED
      BY <2>5, <3>1, <3>5
  <2>12. chainFrom' = chainFrom
    BY <2>1 DEF chainFrom
  <2>13. CASE found
    <3>1. phase' = "index" /\ cur' = TRUE
      BY <2>1, <2>6, <2>13
    <3>2. chainFrom <= after
      BY <1>0, <2>2, <2>4, <2>5
    <3>3. asked' = AskedPartly(dotPath, n, Applied(dotPath, chainFrom, start, after))
      BY <2>11 DEF Behind
    <3>4. IndexInv'
      BY <2>1, <2>2, <2>3, <2>5, <2>6, <2>12, <3>1, <3>2, <3>3 DEF IndexInv
    <3> QED
      BY <3>1, <3>4 DEF AskInv, ReadInv, AsksForItsMeaning
  <2>14. CASE ~found
    <3>1. phase' = "done" /\ cur' = FALSE
      BY <2>1, <2>6, <2>14
    <3>2. Behind(after) \in Nat /\ Behind(after) <= Len(Segs[n].indexes)
      BY <2>5, <2>10
    <3>3. \E i \in DOMAIN asked' :
            /\ i = Len(asked')
            /\ Front(asked') = SubSeq(Segs, 1, i - 1)
            /\ asked'[i].name = Segs[i].name
            /\ IsPrefix(asked'[i].indexes, Segs[i].indexes)
      BY <1>0, <2>9, <2>11, <3>2, PartBegins
    <3>4. AsksForItsMeaning'
      BY <2>1, <3>1, <3>3 DEF AsksForItsMeaning
    <3> QED
      BY <3>1, <3>4 DEF AskInv, ReadInv, IndexInv
  <2> QED
    BY <2>13, <2>14
<1>6. CASE NextSegment
  <2> DEFINE Segs == Segments(dotPath)
  <2>1. phase = "index" /\ pos >= start /\ dotPath' = dotPath /\ asked' = asked
        /\ cur' = cur /\ start' = start + 1 /\ pos' = start + 1 /\ chainStart' = 0
        /\ nameHasEscapes' = FALSE
        /\ phase' = IF start + 1 < Len(dotPath) + 1 THEN "read" ELSE "done"
    BY <1>6 DEF NextSegment
  <2>2. /\ 1 <= chainFrom /\ chainFrom <= pos /\ pos <= start /\ start <= Len(dotPath) + 1
        /\ start # Len(dotPath) + 1 => dotPath[start] = "." /\ start \notin Escaped(dotPath)
        /\ cur = TRUE
    BY <2>1 DEF AskInv, IndexInv
  <2>3. PICK n \in DOMAIN Segs :
         /\ SegmentsBefore(dotPath, n, start + 1)
         /\ Segs[n] = [name |-> Segs[n].name, indexes |-> Indexes(dotPath, chainFrom, start)]
         /\ asked = AskedPartly(dotPath, n, Applied(dotPath, chainFrom, start, pos))
    BY <2>1 DEF AskInv, IndexInv
  <2>4. pos = start /\ chainFrom \in Nat /\ chainFrom <= start
    BY <1>0, <2>1, <2>2 DEF chainFrom
  <2>5. PICK s : s = Indexes(dotPath, chainFrom, start)
    OBVIOUS
  <2>6. (\E X : s \in Seq(X)) /\ Applied(dotPath, chainFrom, start, pos) = Len(s)
    BY <1>0, <2>2, <2>4, <2>5, IndexesAre
  <2>7. n \in Nat /\ n <= Len(Segs) /\ Len(Segs) \in Nat
    BY <1>0, <2>3, SegmentsAre
  <2>8. asked = AskedFor(dotPath, n)
    <3>1. PICK X : s \in Seq(X)
      BY <2>6
    <3>2. AskedPartly(dotPath, n, Len(s)) = AskedFor(dotPath, n)
      BY <2>3, <2>5, <2>7, <3>1, AllAsked
    <3> QED
      BY <2>3, <2>6, <3>2
  <2>9. CASE start + 1 < Len(dotPath) + 1
    <3>1. phase' = "read"
      BY <2>1, <2>9
    <3>2. start # Len(dotPath) + 1
      BY <1>0, <2>9
    <3>3. start + 1 \notin Escaped(dotPath)
      <4>1. PICK i \in Nat : i = start + 1
        BY <1>0
      <4>2. dotPath[i - 1] # "\\"
        BY <1>0, <2>2, <3>2, <4>1
      <4>3. i \notin Escaped(dotPath)
        BY <1>0, <4>2, EscapedIs
      <4> QED
        BY <4>1, <4>3
    <3>4. ReadSoFar(dotPath, start + 1, start + 1, 0, FALSE)
      <4>1. PICK i \in Nat : i = start + 1
        BY <1>0
      <4>2. 1 <= i /\ i <= Len(dotPath) + 1 /\ i \notin Escaped(dotPath)
        BY <1>0, <2>9, <3>3, <4>1
      <4>3. ReadSoFar(dotPath, i, i, 0, FALSE)
        BY <1>0, <4>2, NothingRead
      <4> QED
        BY <4>1, <4>3
    <3>5. n \in 0..Len(Segs)
      BY <2>7
    <3>6. ReadInv'
      BY <2>1, <2>2, <2>3, <2>8, <2>9, <3>1, <3>4, <3>5 DEF ReadInv
    <3> QED
      BY <3>1, <3>6 DEF AskInv, IndexInv, AsksForItsMeaning
  <2>10. CASE ~(start + 1 < Len(dotPath) + 1)
    <3>1. phase' = "done"
      BY <2>1, <2>10
    <3>2. start = Len(dotPath) + 1
            \/ (start = Len(dotPath) /\ dotPath[start] = "." /\ start \notin Escaped(dotPath))
      BY <1>0, <2>2, <2>10
    <3>3. n = Len(Segs)
      <4>1. 1 <= start
        BY <1>0, <2>2, <2>4
      <4> QED
        BY <1>0, <2>3, <3>2, <4>1, NoMoreSegments
    <3>4. AskedFor(dotPath, n) = Segs
      <4>1. Segs = [i \in 1..Len(Segs) |-> Segs[i]]
        BY <1>0, SegmentsAre DEF Segments
      <4> QED
        BY <3>3, <4>1 DEF AskedFor
    <3>5. AsksForItsMeaning'
      BY <2>1, <2>2, <2>8, <3>4 DEF AsksForItsMeaning
    <3> QED
      BY <3>1, <3>5 DEF AskInv, ReadInv, IndexInv
  <2> QED
    BY <2>9, <2>10
<1>7. CASE UNCHANGED vars
  BY <1>7 DEF vars, AskInv, ReadInv, IndexInv, chainFrom, AsksForItsMeaning
<1> QED
  BY <1>1, <1>2, <1>3, <1>4, <1>5, <1>6, <1>7 DEF Next, Done

\* Whatever path is given, resolveJsonPath asks the document exactly for what the
\* path means: every segment with its escapes taken out and its own indexes, up to
\* what the document has not got. Nothing is asked for twice, left out or split
\* elsewhere than at a separator (readSegment, unescape, applyIndexes).
THEOREM AsksWhatItMeans == Spec => []AsksForItsMeaning
<1>1. Init => AskInv
  BY Starts, AskInit
<1>2. AskInv /\ [Next \/ Done]_vars => AskInv'
  <2> SUFFICES ASSUME AskInv, [Next \/ Done]_vars PROVE AskInv'
    OBVIOUS
  <2>1. IInv'
    BY Inductive DEF AskInv
  <2> QED
    BY <2>1, AskNext
<1>3. AskInv => AsksForItsMeaning
  BY DEF AskInv
<1> QED
  BY <1>1, <1>2, <1>3, PTL DEF Spec
=============================================================================
